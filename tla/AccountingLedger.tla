-------------------------- MODULE AccountingLedger ---------------------------
(***************************************************************************)
(* What the accounting snapshots promise, without journals, retries or     *)
(* restarts: bytes are carried, at most one sample of them is on offer,    *)
(* and an offered sample is billed once or dropped, never both.            *)
(* internal/stats/accounting_snapshot.go is meant to implement it.         *)
(***************************************************************************)
EXTENDS Naturals

CONSTANTS Users, NoOffer

VARIABLES
  carried,  \* bytes that really went through rw-core, by user
  billed,   \* bytes the panel has assigned to each user
  offer     \* the sample on offer: bytes by user, or NoOffer

ledger == <<carried, billed, offer>>

ZeroBytes == [u \in Users |-> 0]

Init == carried = ZeroBytes /\ billed = ZeroBytes /\ offer = NoOffer

Carry ==
  /\ \E u \in Users : carried' = [carried EXCEPT ![u] = @ + 1]
  /\ UNCHANGED <<billed, offer>>

\* A sample claims bytes that were carried and are not billed yet.
Offer ==
  /\ offer = NoOffer
  /\ offer' \in [Users -> Nat]
  /\ \A u \in Users : billed[u] + offer'[u] <= carried[u]
  /\ UNCHANGED <<carried, billed>>

Bill ==
  /\ offer # NoOffer
  /\ billed' = [u \in Users |-> billed[u] + offer[u]]
  /\ offer' = NoOffer
  /\ UNCHANGED carried

\* The panel cannot attribute the sample.
Drop == offer # NoOffer /\ offer' = NoOffer /\ UNCHANGED <<carried, billed>>

Next == Carry \/ Offer \/ Bill \/ Drop

Spec == Init /\ [][Next]_ledger
=============================================================================
