----------------------------- MODULE MCUserSync ------------------------------
(* Instances of UserSync: two users, and inbounds, tags and callers as the *)
(* configurations say.  Users, callers and inbounds are interchangeable.   *)
EXTENDS UserSync, TLC

Symmetry == Permutations(Users) \cup Permutations(Callers) \cup Permutations(Inbounds)
=============================================================================
