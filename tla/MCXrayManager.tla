---------------------------- MODULE MCXrayManager ----------------------------
(* Values of the constants of XrayManager for the model checker. *)
EXTENDS XrayManager, TLC

CONSTANTS a, a2, b, ha, hb

\* Two of the three requests carry the same hashes.
MCHashOf == (a :> ha) @@ (a2 :> ha) @@ (b :> hb)
MCHashOf2 == (a :> ha) @@ (b :> hb)
MCHashOf1 == a :> ha

Symmetry == Permutations(Clients)
=============================================================================
