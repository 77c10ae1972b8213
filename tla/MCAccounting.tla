---------------------------- MODULE MCAccounting -----------------------------
(* Accounting for TLC. *)
EXTENDS Accounting, TLC

CONSTANTS u, v

MCBytes == (u :> 2) @@ (v :> 1)

\* A goroutine is as good as another, and so is a process id.
Symmetry == Permutations(Slots) \cup Permutations(Pids)
=============================================================================
