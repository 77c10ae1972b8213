----------------------------- MODULE MCAuditLog ------------------------------
EXTENDS AuditLog
MCNewline == {2, 5}
MCStamp == (2 :> 0) @@ (5 :> 1)
Symmetry == Permutations(Calls)
=============================================================================
