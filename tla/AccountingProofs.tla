-------------------------- MODULE AccountingProofs ---------------------------
(***************************************************************************)
(* The accounting service never claims a byte twice, for any number of     *)
(* users, bytes, requests, cores, resets and crashes, and implements the   *)
(* abstract ledger.                                                        *)
(***************************************************************************)
EXTENDS Accounting, TLAPS

-----------------------------------------------------------------------------
(* The inductive invariant. *)

\* By how much u's counter has moved from d to c, if it has not gone down.
Ahead(c, d, u) == IF Get(c, u) > Get(d, u) THEN Get(c, u) - Get(d, u) ELSE 0

\* The counters up to which the journal has samples, and their generation.
EmptyJournal == acknowledged = None /\ pending = None
Last == IF pending # None THEN pending.to ELSE acknowledged.counters
LastGeneration == IF pending # None THEN pending.generation ELSE acknowledged.generation

\* Bytes of u that a sample on offer claims, and that the next one will claim:
\* while a request is between its query and its write, from what it has read.
Offered(u) == IF OnOffer = None THEN 0 ELSE OnOffer[u]
Unsampled(c, u) == IF EmptyJournal THEN 0 ELSE Ahead(c, Last, u)
Between == at \in {"label", "write"}
Due(u) ==
  IF Between THEN Unsampled(sampled, u) + Ahead(counters, sampled, u) ELSE Unsampled(counters, u)

\* What is billed, on offer and due was carried.
ClaimsCarried == \A u \in Users : billed[u] + Offered(u) + Due(u) <= carried[u]

\* A request that is past the journal finds a sample there only to quarantine it.
HandlingMatches ==
  /\ at = "idle" <=> handling = None
  /\ handling # None =>
       /\ inbox[handling] # None
       /\ pending # None => Quarantines(inbox[handling])

\* What the panel asks for is settled; what it was told and has not settled
\* is what the journal retains.
AnswersMatch ==
  /\ \A s \in Slots : inbox[s] # None =>
       inbox[s].ack \in booked \cup {None} /\ inbox[s].quarantine \in refused \cup {None}
  /\ Settled \subseteq 1..samples
  /\ pending # None => pending.id \in 1..samples
  /\ \A m \in answers : m.id \in Settled \/ (pending # None /\ m = Answer(pending))

\* The inductive invariant for everything but BilledExactly ...
AInv == TypeOK /\ HandlingMatches /\ AnswersMatch /\ ClaimsCarried

\* While nothing disturbs the counters after a baseline, they only go up, and
\* the process that is labelled is the one that was sampled.
SteadyMatches ==
  /\ Between /\ fresh =>
       /\ \A u \in Users : Get(sampled, u) <= Get(counters, u)
       /\ at = "write" => process \in {label, None}
  /\ steady =>
       /\ ~EmptyJournal
       /\ process \in {LastGeneration, None}
       /\ \A u \in Users : Get(Last, u) <= Get(counters, u)
       /\ pending # None => \A u \in Users : Get(pending.from, u) <= Get(pending.to, u)
       /\ Between => \A u \in Users : /\ Get(Last, u) <= Get(sampled, u)
                                      /\ Get(sampled, u) <= Get(counters, u)
       /\ at = "write" => label = LastGeneration

\* ... and for that as well.
BInv == AInv /\ SteadyMatches /\ BilledExactly

-----------------------------------------------------------------------------
(* Types. *)

\* A counter that does not exist counts as zero.
LEMMA GetType ==
  ASSUME NEW c \in Counts, NEW u \in Users
  PROVE  Get(c, u) \in Nat
BY DEF Counts, Get, Absent

\* The rows of a sample are never negative.
LEMMA RowsType ==
  ASSUME NEW p \in Samples
  PROVE  /\ Rows(p) \in [Users -> Nat]
         /\ \A u \in Users : Rows(p)[u] = Ahead(p.to, p.from, u)
<1>1. p.to \in Counts /\ p.from \in Counts
  BY DEF Samples
<1> QED
  BY <1>1, GetType DEF Rows, Ahead

\* What a sample is answered with, and what it is acknowledged as.
LEMMA SampleType ==
  ASSUME NEW p \in Samples
  PROVE  Answer(p) \in [id : Nat, rows : [Users -> Nat]] /\ Checkpoint(p) \in Checkpoints
BY RowsType DEF Samples, Checkpoints, Answer, Checkpoint

\* Every step preserves the types.
LEMMA TypeStep ==
  ASSUME TypeOK, [Next]_vars
  PROVE  TypeOK'
<1> USE ConstantsAssumption DEF TypeOK
<1>1. CASE UNCHANGED vars
  BY <1>1
    DEF vars, coreVars, journalVars, readVars, serviceVars, panelVars, ghostVars, Finish,
       Proceed, TypeCore, TypeJournal, TypeService, TypeRead, TypePanel, TypeGhost
<1>2. ASSUME NEW u \in Users, Carry(u) PROVE TypeOK'
  BY <1>2
    DEF Carry, Finish, Proceed, coreVars, journalVars, readVars, serviceVars, panelVars,
       ghostVars, TypeCore, TypeJournal, TypeService, TypeRead, TypePanel, TypeGhost, Counts,
       Absent, Get
<1>3. ASSUME NEW S \in SUBSET Users, ResetCounters(S) PROVE TypeOK'
  <2>1. counters' \in Counts
    BY <1>3 DEF ResetCounters, Counts, Absent, TypeCore
  <2>2. TypeCore'
    BY <1>3, <2>1
      DEF ResetCounters, coreVars, journalVars, readVars, serviceVars, panelVars, ghostVars,
         TypeCore
  <2>3. TypeJournal'
    BY <1>3, <2>1
      DEF ResetCounters, coreVars, journalVars, readVars, serviceVars, panelVars, ghostVars,
         TypeJournal
  <2>4. TypeService'
    BY <1>3, <2>1
      DEF ResetCounters, coreVars, journalVars, readVars, serviceVars, panelVars, ghostVars,
         TypeService
  <2>5. TypeRead'
    BY <1>3, <2>1
      DEF ResetCounters, coreVars, journalVars, readVars, serviceVars, panelVars, ghostVars,
         TypeRead
  <2>6. TypePanel'
    BY <1>3, <2>1
      DEF ResetCounters, coreVars, journalVars, readVars, serviceVars, panelVars, ghostVars,
         TypePanel
  <2>7. TypeGhost'
    BY <1>3, <2>1
      DEF ResetCounters, coreVars, journalVars, readVars, serviceVars, panelVars, ghostVars,
         TypeGhost
  <2> QED
    BY <2>2, <2>3, <2>4, <2>5, <2>6, <2>7
<1>4. CASE CoreExit
  BY <1>4
    DEF CoreExit, Finish, Proceed, coreVars, journalVars, readVars, serviceVars, panelVars,
       ghostVars, TypeCore, TypeJournal, TypeService, TypeRead, TypePanel, TypeGhost
<1>5. CASE ProcessCleared
  BY <1>5
    DEF ProcessCleared, Finish, Proceed, coreVars, journalVars, readVars, serviceVars,
       panelVars, ghostVars, TypeCore, TypeJournal, TypeService, TypeRead, TypePanel, TypeGhost
<1>6. CASE CoreStart
  <2>1. NoCounters \in Counts
    BY DEF NoCounters, Counts, Absent
  <2>2. TypeCore'
    BY <1>6, <2>1
      DEF CoreStart, coreVars, journalVars, readVars, serviceVars, panelVars, ghostVars,
         TypeCore
  <2>3. TypeJournal'
    BY <1>6, <2>1
      DEF CoreStart, coreVars, journalVars, readVars, serviceVars, panelVars, ghostVars,
         TypeJournal
  <2>4. TypeService'
    BY <1>6, <2>1
      DEF CoreStart, coreVars, journalVars, readVars, serviceVars, panelVars, ghostVars,
         TypeService
  <2>5. TypeRead'
    BY <1>6, <2>1
      DEF CoreStart, coreVars, journalVars, readVars, serviceVars, panelVars, ghostVars,
         TypeRead
  <2>6. TypePanel'
    BY <1>6, <2>1
      DEF CoreStart, coreVars, journalVars, readVars, serviceVars, panelVars, ghostVars,
         TypePanel
  <2>7. TypeGhost'
    BY <1>6, <2>1
      DEF CoreStart, coreVars, journalVars, readVars, serviceVars, panelVars, ghostVars,
         TypeGhost
  <2> QED
    BY <2>2, <2>3, <2>4, <2>5, <2>6, <2>7
<1>7. ASSUME NEW s \in Slots, Send(s) PROVE TypeOK'
  BY <1>7
    DEF Send, Finish, Proceed, coreVars, journalVars, readVars, serviceVars, panelVars,
       ghostVars, TypeCore, TypeJournal, TypeService, TypeRead, TypePanel, TypeGhost, Requests
<1>8. ASSUME NEW m \in answers, Book(m) PROVE TypeOK'
  <2>1. m.id \in Nat /\ m.rows \in [Users -> Nat]
    BY <1>8 DEF TypePanel
  <2>2. billed' \in [Users -> Nat]
    BY <1>8, <2>1 DEF Book, TypePanel
  <2>3. TypeCore'
    BY <1>8, <2>1, <2>2
      DEF Book, coreVars, journalVars, readVars, serviceVars, panelVars, ghostVars, TypeCore
  <2>4. TypeJournal'
    BY <1>8, <2>1, <2>2
      DEF Book, coreVars, journalVars, readVars, serviceVars, panelVars, ghostVars, TypeJournal
  <2>5. TypeService'
    BY <1>8, <2>1, <2>2
      DEF Book, coreVars, journalVars, readVars, serviceVars, panelVars, ghostVars, TypeService
  <2>6. TypeRead'
    BY <1>8, <2>1, <2>2
      DEF Book, coreVars, journalVars, readVars, serviceVars, panelVars, ghostVars, TypeRead
  <2>7. TypePanel'
    BY <1>8, <2>1, <2>2
      DEF Book, coreVars, journalVars, readVars, serviceVars, panelVars, ghostVars, TypePanel
  <2>8. TypeGhost'
    BY <1>8, <2>1, <2>2
      DEF Book, coreVars, journalVars, readVars, serviceVars, panelVars, ghostVars, TypeGhost
  <2> QED
    BY <2>3, <2>4, <2>5, <2>6, <2>7, <2>8
<1>9. ASSUME NEW m \in answers, Refuse(m) PROVE TypeOK'
  BY <1>9
    DEF Refuse, Finish, Proceed, coreVars, journalVars, readVars, serviceVars, panelVars,
       ghostVars, TypeCore, TypeJournal, TypeService, TypeRead, TypePanel, TypeGhost
<1>10. ASSUME NEW s \in Slots, Replay(s) PROVE TypeOK'
  <2>1. pending \in Samples
    BY <1>10 DEF Replay, TypeJournal
  <2>2. TypeCore'
    BY <1>10, <2>1, SampleType
      DEF Replay, Finish, coreVars, journalVars, readVars, serviceVars, panelVars, ghostVars,
         TypeCore
  <2>3. TypeJournal'
    BY <1>10, <2>1, SampleType
      DEF Replay, Finish, coreVars, journalVars, readVars, serviceVars, panelVars, ghostVars,
         TypeJournal
  <2>4. TypeService'
    BY <1>10, <2>1, SampleType
      DEF Replay, Finish, coreVars, journalVars, readVars, serviceVars, panelVars, ghostVars,
         TypeService
  <2>5. TypeRead'
    BY <1>10, <2>1, SampleType
      DEF Replay, Finish, coreVars, journalVars, readVars, serviceVars, panelVars, ghostVars,
         TypeRead
  <2>6. TypePanel'
    BY <1>10, <2>1, SampleType
      DEF Replay, Finish, coreVars, journalVars, readVars, serviceVars, panelVars, ghostVars,
         TypePanel
  <2>7. TypeGhost'
    BY <1>10, <2>1, SampleType
      DEF Replay, Finish, coreVars, journalVars, readVars, serviceVars, panelVars, ghostVars,
         TypeGhost
  <2> QED
    BY <2>2, <2>3, <2>4, <2>5, <2>6, <2>7
<1>11. ASSUME NEW s \in Slots, Acknowledge(s) PROVE TypeOK'
  <2>1. pending \in Samples
    BY <1>11 DEF Acknowledge, Acknowledges, TypeJournal
  <2>2. TypeCore'
    BY <1>11, <2>1, SampleType
      DEF Acknowledge, Write, Finish, Proceed, coreVars, journalVars, readVars, serviceVars,
         panelVars, ghostVars, TypeCore
  <2>3. TypeJournal'
    BY <1>11, <2>1, SampleType
      DEF Acknowledge, Write, Finish, Proceed, coreVars, journalVars, readVars, serviceVars,
         panelVars, ghostVars, TypeJournal
  <2>4. TypeService'
    BY <1>11, <2>1, SampleType
      DEF Acknowledge, Write, Finish, Proceed, coreVars, journalVars, readVars, serviceVars,
         panelVars, ghostVars, TypeService
  <2>5. TypeRead'
    BY <1>11, <2>1, SampleType
      DEF Acknowledge, Write, Finish, Proceed, coreVars, journalVars, readVars, serviceVars,
         panelVars, ghostVars, TypeRead
  <2>6. TypePanel'
    BY <1>11, <2>1, SampleType
      DEF Acknowledge, Write, Finish, Proceed, coreVars, journalVars, readVars, serviceVars,
         panelVars, ghostVars, TypePanel
  <2>7. TypeGhost'
    BY <1>11, <2>1, SampleType
      DEF Acknowledge, Write, Finish, Proceed, coreVars, journalVars, readVars, serviceVars,
         panelVars, ghostVars, TypeGhost
  <2> QED
    BY <2>2, <2>3, <2>4, <2>5, <2>6, <2>7
<1>12. ASSUME NEW s \in Slots, Begin(s) PROVE TypeOK'
  BY <1>12
    DEF Begin, Finish, Proceed, coreVars, journalVars, readVars, serviceVars, panelVars,
       ghostVars, TypeCore, TypeJournal, TypeService, TypeRead, TypePanel, TypeGhost
<1>13. CASE ReadCounters
  BY <1>13
    DEF ReadCounters, Finish, Proceed, coreVars, journalVars, readVars, serviceVars, panelVars,
       ghostVars, TypeCore, TypeJournal, TypeService, TypeRead, TypePanel, TypeGhost
<1>14. CASE ReadLabel
  BY <1>14
    DEF ReadLabel, Finish, Proceed, coreVars, journalVars, readVars, serviceVars, panelVars,
       ghostVars, TypeCore, TypeJournal, TypeService, TypeRead, TypePanel, TypeGhost
<1>15. CASE TakeBaseline
  <2>1. sampled \in Counts
    BY DEF TypeRead
  <2>2. samples + 1 \in Nat
    BY DEF TypeGhost
  <2>3. NewSample(sampled) \in Samples
    BY <2>1, <2>2 DEF NewSample, Samples, TypeRead
  <2>4. TypeCore'
    BY <1>15, <2>1, <2>2, <2>3, SampleType
      DEF TakeBaseline, Retain, Write, Finish, coreVars, journalVars, readVars, serviceVars,
         panelVars, ghostVars, TypeCore
  <2>5. TypeJournal'
    BY <1>15, <2>1, <2>2, <2>3, SampleType
      DEF TakeBaseline, Retain, Write, Finish, coreVars, journalVars, readVars, serviceVars,
         panelVars, ghostVars, TypeJournal
  <2>6. TypeService'
    BY <1>15, <2>1, <2>2, <2>3, SampleType
      DEF TakeBaseline, Retain, Write, Finish, coreVars, journalVars, readVars, serviceVars,
         panelVars, ghostVars, TypeService
  <2>7. TypeRead'
    BY <1>15, <2>1, <2>2, <2>3, SampleType
      DEF TakeBaseline, Retain, Write, Finish, coreVars, journalVars, readVars, serviceVars,
         panelVars, ghostVars, TypeRead
  <2>8. TypePanel'
    BY <1>15, <2>1, <2>2, <2>3, SampleType
      DEF TakeBaseline, Retain, Write, Finish, coreVars, journalVars, readVars, serviceVars,
         panelVars, ghostVars, TypePanel
  <2>9. TypeGhost'
    BY <1>15, <2>1, <2>2, <2>3, SampleType
      DEF TakeBaseline, Retain, Write, Finish, coreVars, journalVars, readVars, serviceVars,
         panelVars, ghostVars, TypeGhost, NewBaseline, TypeRead, TypePanel
  <2> QED
    BY <2>4, <2>5, <2>6, <2>7, <2>8, <2>9
<1>16. CASE TakeSample
  <2>1. acknowledged.counters \in Counts
    BY <1>16 DEF TakeSample, TypeJournal, Checkpoints
  <2>2. samples + 1 \in Nat
    BY DEF TypeGhost
  <2>3. NewSample(acknowledged.counters) \in Samples
    BY <2>1, <2>2 DEF NewSample, Samples, TypeRead
  <2>4. TypeCore'
    BY <1>16, <2>1, <2>2, <2>3, SampleType
      DEF TakeSample, Retain, Write, Finish, coreVars, journalVars, readVars, serviceVars,
         panelVars, ghostVars, TypeCore
  <2>5. TypeJournal'
    BY <1>16, <2>1, <2>2, <2>3, SampleType
      DEF TakeSample, Retain, Write, Finish, coreVars, journalVars, readVars, serviceVars,
         panelVars, ghostVars, TypeJournal
  <2>6. TypeService'
    BY <1>16, <2>1, <2>2, <2>3, SampleType
      DEF TakeSample, Retain, Write, Finish, coreVars, journalVars, readVars, serviceVars,
         panelVars, ghostVars, TypeService
  <2>7. TypeRead'
    BY <1>16, <2>1, <2>2, <2>3, SampleType
      DEF TakeSample, Retain, Write, Finish, coreVars, journalVars, readVars, serviceVars,
         panelVars, ghostVars, TypeRead
  <2>8. TypePanel'
    BY <1>16, <2>1, <2>2, <2>3, SampleType
      DEF TakeSample, Retain, Write, Finish, coreVars, journalVars, readVars, serviceVars,
         panelVars, ghostVars, TypePanel
  <2>9. TypeGhost'
    BY <1>16, <2>1, <2>2, <2>3, SampleType
      DEF TakeSample, Retain, Write, Finish, coreVars, journalVars, readVars, serviceVars,
         panelVars, ghostVars, TypeGhost
  <2> QED
    BY <2>4, <2>5, <2>6, <2>7, <2>8, <2>9
<1>17. CASE TakeQuarantine
  <2>1. sampled \in Counts /\ pending \in Samples
    BY <1>17 DEF TakeQuarantine, TypeRead, TypeJournal
  <2>2. samples + 1 \in Nat
    BY DEF TypeGhost
  <2>3. NewSample(sampled) \in Samples
    BY <2>1, <2>2 DEF NewSample, Samples, TypeRead
  <2>4. TypeCore'
    BY <1>17, <2>1, <2>2, <2>3, SampleType
      DEF TakeQuarantine, Retain, Write, Finish, coreVars, journalVars, readVars, serviceVars,
         panelVars, ghostVars, TypeCore
  <2>5. TypeJournal'
    BY <1>17, <2>1, <2>2, <2>3, SampleType
      DEF TakeQuarantine, Retain, Write, Finish, coreVars, journalVars, readVars, serviceVars,
         panelVars, ghostVars, TypeJournal
  <2>6. TypeService'
    BY <1>17, <2>1, <2>2, <2>3, SampleType
      DEF TakeQuarantine, Retain, Write, Finish, coreVars, journalVars, readVars, serviceVars,
         panelVars, ghostVars, TypeService
  <2>7. TypeRead'
    BY <1>17, <2>1, <2>2, <2>3, SampleType
      DEF TakeQuarantine, Retain, Write, Finish, coreVars, journalVars, readVars, serviceVars,
         panelVars, ghostVars, TypeRead
  <2>8. TypePanel'
    BY <1>17, <2>1, <2>2, <2>3, SampleType
      DEF TakeQuarantine, Retain, Write, Finish, coreVars, journalVars, readVars, serviceVars,
         panelVars, ghostVars, TypePanel
  <2>9. TypeGhost'
    BY <1>17, <2>1, <2>2, <2>3, SampleType
      DEF TakeQuarantine, Retain, Write, Finish, coreVars, journalVars, readVars, serviceVars,
         panelVars, ghostVars, TypeGhost, NewBaseline, TypeRead, TypePanel
  <2> QED
    BY <2>4, <2>5, <2>6, <2>7, <2>8, <2>9
<1>18. CASE NodeCrash
  <2>1. TypeCore'
    BY <1>18
      DEF NodeCrash, coreVars, journalVars, readVars, serviceVars, panelVars, ghostVars,
         TypeCore
  <2>2. TypeJournal'
    BY <1>18
      DEF NodeCrash, coreVars, journalVars, readVars, serviceVars, panelVars, ghostVars,
         TypeJournal
  <2>3. TypeService'
    BY <1>18
      DEF NodeCrash, coreVars, journalVars, readVars, serviceVars, panelVars, ghostVars,
         TypeService
  <2>4. TypeRead'
    BY <1>18
      DEF NodeCrash, coreVars, journalVars, readVars, serviceVars, panelVars, ghostVars,
         TypeRead
  <2>5. TypePanel'
    BY <1>18
      DEF NodeCrash, coreVars, journalVars, readVars, serviceVars, panelVars, ghostVars,
         TypePanel
  <2>6. TypeGhost'
    BY <1>18
      DEF NodeCrash, coreVars, journalVars, readVars, serviceVars, panelVars, ghostVars,
         TypeGhost
  <2> QED
    BY <2>1, <2>2, <2>3, <2>4, <2>5, <2>6
<1> QED
  BY <1>1, <1>2, <1>3, <1>4, <1>5, <1>6, <1>7, <1>8, <1>9, <1>10, <1>11, <1>12, <1>13, <1>14,
     <1>15, <1>16, <1>17, <1>18
    DEF Next, Core, Panel, Snapshot

-----------------------------------------------------------------------------
(* Who holds the mutex, and what is settled. *)

\* Every step keeps the service's mutex, its place and the journal in accord.
LEMMA HandlingStep ==
  ASSUME TypeOK, HandlingMatches, [Next]_vars
  PROVE  HandlingMatches'
<1> USE ConstantsAssumption DEF HandlingMatches, TypeService, Acknowledges, Quarantines, Waiting
<1>1. CASE \/ UNCHANGED vars
           \/ \E u \in Users : Carry(u)
           \/ \E S \in SUBSET Users : ResetCounters(S)
           \/ CoreExit
           \/ ProcessCleared
           \/ CoreStart
           \/ \E m \in answers : Book(m)
           \/ \E m \in answers : Refuse(m)
  BY <1>1
    DEF vars, coreVars, journalVars, readVars, serviceVars, panelVars, ghostVars, Carry,
       ResetCounters, CoreExit, ProcessCleared, CoreStart, Book, Refuse
<1>2. ASSUME NEW s \in Slots, Send(s) PROVE HandlingMatches'
  BY <1>2 DEF Send, Retain, Write, Finish, Proceed, serviceVars, journalVars, TypeOK
<1>3. ASSUME NEW s \in Slots, Replay(s) PROVE HandlingMatches'
  BY <1>3 DEF Replay, Retain, Write, Finish, Proceed, serviceVars, journalVars, TypeOK
<1>4. ASSUME NEW s \in Slots, Acknowledge(s) PROVE HandlingMatches'
  BY <1>4 DEF Acknowledge, Retain, Write, Finish, Proceed, serviceVars, journalVars, TypeOK
<1>5. ASSUME NEW s \in Slots, Begin(s) PROVE HandlingMatches'
  BY <1>5 DEF Begin, Retain, Write, Finish, Proceed, serviceVars, journalVars, TypeOK
<1>6. CASE ReadCounters
  BY <1>6 DEF ReadCounters, Retain, Write, Finish, Proceed, serviceVars, journalVars, TypeOK
<1>7. CASE ReadLabel
  BY <1>7 DEF ReadLabel, Retain, Write, Finish, Proceed, serviceVars, journalVars, TypeOK
<1>8. CASE TakeBaseline
  BY <1>8 DEF TakeBaseline, Retain, Write, Finish, Proceed, serviceVars, journalVars, TypeOK
<1>9. CASE TakeSample
  BY <1>9 DEF TakeSample, Retain, Write, Finish, Proceed, serviceVars, journalVars, TypeOK
<1>10. CASE TakeQuarantine
  BY <1>10 DEF TakeQuarantine, Retain, Write, Finish, Proceed, serviceVars, journalVars, TypeOK
<1>11. CASE NodeCrash
  BY <1>11 DEF NodeCrash, Retain, Write, Finish, Proceed, serviceVars, journalVars, TypeOK
<1> QED
  BY <1>1, <1>2, <1>3, <1>4, <1>5, <1>6, <1>7, <1>8, <1>9, <1>10, <1>11
    DEF Next, Core, Panel, Snapshot

\* Every step keeps requests, answers and the journal in accord.
LEMMA AnswersStep ==
  ASSUME TypeOK, HandlingMatches, AnswersMatch, [Next]_vars
  PROVE  AnswersMatch'
<1> USE ConstantsAssumption DEF Settled
<1>1. CASE \/ UNCHANGED vars
           \/ \E u \in Users : Carry(u)
           \/ \E S \in SUBSET Users : ResetCounters(S)
           \/ CoreExit
           \/ ProcessCleared
           \/ CoreStart
  BY <1>1
    DEF vars, coreVars, journalVars, readVars, serviceVars, panelVars, ghostVars, Carry,
       ResetCounters, CoreExit, ProcessCleared, CoreStart, AnswersMatch
<1>2. ASSUME NEW s \in Slots, Send(s) PROVE AnswersMatch'
  BY <1>2 DEF Send, AnswersMatch, TypeOK, TypeService, panelVars, journalVars
<1>3. ASSUME NEW m \in answers, Book(m) PROVE AnswersMatch'
  <2>1. m.id \in 1..samples
    BY <1>3 DEF Book, AnswersMatch, Answer
  <2>2. Settled' = Settled \cup {m.id}
    BY <1>3 DEF Book, panelVars
  <2> QED
    BY <1>3, <2>1, <2>2 DEF Book, AnswersMatch, Answer, serviceVars, journalVars, Rows
<1>4. ASSUME NEW m \in answers, Refuse(m) PROVE AnswersMatch'
  <2>1. m.id \in 1..samples
    BY <1>4 DEF Refuse, AnswersMatch, Answer
  <2>2. Settled' = Settled \cup {m.id}
    BY <1>4 DEF Refuse, panelVars
  <2> QED
    BY <1>4, <2>1, <2>2 DEF Refuse, AnswersMatch, Answer, serviceVars, journalVars, Rows
<1>5. ASSUME NEW s \in Slots, Replay(s) PROVE AnswersMatch'
  BY <1>5 DEF Replay, AnswersMatch, Finish, Answer, journalVars, panelVars, TypeOK, TypeService
<1>6. ASSUME NEW s \in Slots, Acknowledge(s) PROVE AnswersMatch'
  <2>1. pending.id \in booked
    BY <1>6 DEF Acknowledge, AnswersMatch, Waiting, Acknowledges
  <2>2. \A m \in answers : m.id \in Settled
    BY <2>1 DEF AnswersMatch, Answer
  <2> QED
    BY <1>6, <2>2
      DEF Acknowledge, AnswersMatch, Write, Finish, Proceed, Waiting, journalVars, panelVars,
         TypeOK, TypeService
<1>7. ASSUME NEW s \in Slots, Begin(s) PROVE AnswersMatch'
  BY <1>7 DEF Begin, AnswersMatch, Proceed, panelVars, journalVars
<1>8. CASE ReadCounters
  BY <1>8 DEF ReadCounters, AnswersMatch, Finish, panelVars, journalVars, TypeOK, TypeService
<1>9. CASE ReadLabel
  BY <1>9 DEF ReadLabel, AnswersMatch, panelVars, journalVars
<1>10. CASE TakeBaseline
  <2>1. \A m \in answers : m.id \in Settled
    BY <1>10 DEF TakeBaseline, AnswersMatch
  <2>2. Settled' = Settled /\ Settled \subseteq 1..samples'
    BY <1>10 DEF TakeBaseline, AnswersMatch, Retain, panelVars, TypeOK, TypeGhost
  <2>3. PICK ok \in BOOLEAN : Retain(acknowledged, sampled, ok)
    BY <1>10 DEF TakeBaseline
  <2>4. \/ pending' = pending /\ answers' = answers
        \/ /\ pending' # None /\ pending'.id = samples'
           /\ answers' \subseteq answers \cup {Answer(pending')}
    <3>1. sampled \in Counts
      BY <1>10 DEF TakeBaseline, TypeOK, TypeRead, TypeJournal, Checkpoints
    <3>2. NewSample(sampled) \in Samples
      BY <3>1 DEF NewSample, Samples, TypeOK, TypeRead, TypeGhost
    <3> QED
      BY <2>3, <3>2 DEF Retain, Write, NewSample, journalVars
  <2>5. samples' \in Nat /\ 1..samples \subseteq 1..samples' /\ samples' \in 1..samples'
    BY <2>3 DEF Retain, TypeOK, TypeGhost
  <2> QED
    BY <1>10, <2>1, <2>2, <2>4, <2>5
      DEF TakeBaseline, AnswersMatch, Finish, panelVars, TypeOK, TypeService
<1>11. CASE TakeSample
  <2>1. \A m \in answers : m.id \in Settled
    BY <1>11 DEF TakeSample, AnswersMatch
  <2>2. Settled' = Settled /\ Settled \subseteq 1..samples'
    BY <1>11 DEF TakeSample, AnswersMatch, Retain, panelVars, TypeOK, TypeGhost
  <2>3. PICK ok \in BOOLEAN : Retain(acknowledged, acknowledged.counters, ok)
    BY <1>11 DEF TakeSample
  <2>4. \/ pending' = pending /\ answers' = answers
        \/ /\ pending' # None /\ pending'.id = samples'
           /\ answers' \subseteq answers \cup {Answer(pending')}
    <3>1. acknowledged.counters \in Counts
      BY <1>11 DEF TakeSample, TypeOK, TypeRead, TypeJournal, Checkpoints
    <3>2. NewSample(acknowledged.counters) \in Samples
      BY <3>1 DEF NewSample, Samples, TypeOK, TypeRead, TypeGhost
    <3> QED
      BY <2>3, <3>2 DEF Retain, Write, NewSample, journalVars
  <2>5. samples' \in Nat /\ 1..samples \subseteq 1..samples' /\ samples' \in 1..samples'
    BY <2>3 DEF Retain, TypeOK, TypeGhost
  <2> QED
    BY <1>11, <2>1, <2>2, <2>4, <2>5
      DEF TakeSample, AnswersMatch, Finish, panelVars, TypeOK, TypeService
<1>12. CASE TakeQuarantine
  <2>1. pending.id \in refused
    BY <1>12 DEF TakeQuarantine, HandlingMatches, AnswersMatch, Quarantines, TypeOK, TypeService
  <2>2. \A m \in answers : m.id \in Settled
    BY <2>1 DEF AnswersMatch, Answer
  <2>3. Settled' = Settled /\ Settled \subseteq 1..samples'
    BY <1>12 DEF TakeQuarantine, AnswersMatch, Retain, panelVars, TypeOK, TypeGhost
  <2>4. PICK ok \in BOOLEAN : Retain(Checkpoint(pending), sampled, ok)
    BY <1>12 DEF TakeQuarantine
  <2>5. \/ pending' = pending /\ answers' = answers
        \/ /\ pending' # None /\ pending'.id = samples'
           /\ answers' \subseteq answers \cup {Answer(pending')}
    <3>1. sampled \in Counts
      BY <1>12 DEF TakeQuarantine, TypeOK, TypeRead, TypeJournal, Checkpoints
    <3>2. NewSample(sampled) \in Samples
      BY <3>1 DEF NewSample, Samples, TypeOK, TypeRead, TypeGhost
    <3> QED
      BY <2>4, <3>2 DEF Retain, Write, NewSample, journalVars
  <2>6. samples' \in Nat /\ 1..samples \subseteq 1..samples' /\ samples' \in 1..samples'
    BY <2>4 DEF Retain, TypeOK, TypeGhost
  <2> QED
    BY <1>12, <2>2, <2>3, <2>5, <2>6
      DEF TakeQuarantine, AnswersMatch, Finish, panelVars, TypeOK, TypeService
<1>13. CASE NodeCrash
  BY <1>13 DEF NodeCrash, AnswersMatch, panelVars, journalVars
<1> QED
  BY <1>1, <1>2, <1>3, <1>4, <1>5, <1>6, <1>7, <1>8, <1>9, <1>10, <1>11, <1>12, <1>13
    DEF Next, Core, Panel, Snapshot

-----------------------------------------------------------------------------
(* What is billed, on offer and due. *)

\* How far counters move adds up, and is not less when they go down on the way.
LEMMA AheadSum ==
  ASSUME NEW c \in Counts, NEW d \in Counts, NEW e \in Counts, NEW u \in Users
  PROVE  /\ Ahead(c, d, u) \in Nat
         /\ Ahead(c, c, u) = 0
         /\ Ahead(c, e, u) <= Ahead(d, e, u) + Ahead(c, d, u)
BY GetType DEF Ahead

\* A counter that moves by at most k is at most k further ahead.
LEMMA AheadMoves ==
  ASSUME NEW c \in Counts, NEW b \in Counts, NEW d \in Counts, NEW u \in Users, NEW k \in Nat,
         Get(b, u) <= Get(c, u) + k
  PROVE  Ahead(b, d, u) <= Ahead(c, d, u) + k
BY GetType DEF Ahead

\* Every step keeps what is billed, on offer and due within what was carried.
LEMMA ClaimsStep ==
  ASSUME AInv, TypeOK', [Next]_vars
  PROVE  ClaimsCarried'
<1> SUFFICES ASSUME NEW u \in Users PROVE (billed[u] + Offered(u) + Due(u) <= carried[u])'
  BY DEF ClaimsCarried
<1> USE ConstantsAssumption
<1>c. billed[u] + Offered(u) + Due(u) <= carried[u]
  BY DEF AInv, ClaimsCarried
<1>d. /\ counters \in Counts /\ sampled \in Counts
      /\ billed[u] \in Nat /\ carried[u] \in Nat /\ billed'[u] \in Nat /\ carried'[u] \in Nat
  BY DEF AInv, TypeOK, TypeCore, TypeRead, TypePanel
<1>l. ~EmptyJournal => Last \in Counts
  BY DEF AInv, TypeOK, TypeJournal, EmptyJournal, Last, Samples, Checkpoints
<1>t. Offered(u) \in Nat /\ Due(u) \in Nat /\ Offered(u)' \in Nat /\ Due(u)' \in Nat
  <2>1. Offered(u) \in Nat /\ Offered(u)' \in Nat
    BY RowsType DEF AInv, TypeOK, TypeJournal, Offered, OnOffer
  <2>2. Due(u) \in Nat
    BY <1>d, <1>l, AheadSum DEF Due, Unsampled
  <2>3. (~EmptyJournal => Last \in Counts)' /\ counters' \in Counts /\ sampled' \in Counts
    BY DEF AInv, TypeOK, TypeCore, TypeRead, TypeJournal, EmptyJournal, Last, Samples,
       Checkpoints
  <2>4. Due(u)' \in Nat
    BY <2>3, AheadSum DEF Due, Unsampled
  <2> QED
    BY <2>1, <2>2, <2>4
<1>1. CASE \/ UNCHANGED vars
           \/ CoreExit
           \/ ProcessCleared
           \/ \E s \in Slots : Send(s)
           \/ ReadLabel
  <2>1. /\ UNCHANGED <<acknowledged, pending, sampled, counters, billed, booked, refused, carried>>
        /\ Between' = Between
    BY <1>1
      DEF vars, coreVars, journalVars, readVars, serviceVars, panelVars, ghostVars, CoreExit,
         ProcessCleared, Send, ReadLabel, Between
  <2> QED
    BY <1>c, <2>1 DEF Offered, OnOffer, Settled, Due, Unsampled, EmptyJournal, Last
<1>2. ASSUME NEW v \in Users, Carry(v) PROVE (billed[u] + Offered(u) + Due(u) <= carried[u])'
  <2>1. counters' \in Counts /\ UNCHANGED <<at, acknowledged, pending, sampled, billed, booked, refused>>
    BY <1>2 DEF Carry, serviceVars, journalVars, panelVars, readVars, AInv, TypeOK, TypeCore
  <2>2. PICK k \in Nat : Get(counters', u) <= Get(counters, u) + k /\ carried'[u] = carried[u] + k
    <3>1. CASE u = v
      BY <1>2, <3>1, GetType, <1>d DEF Carry, Get, AInv, TypeOK, TypeCore, Counts, Absent
    <3>2. CASE u # v
      BY <1>2, <3>2, GetType, <1>d DEF Carry, Get, AInv, TypeOK, TypeCore, Counts, Absent
    <3> QED
      BY <3>1, <3>2
  <2>3. \A d \in Counts : Ahead(counters', d, u) <= Ahead(counters, d, u) + k
    BY <1>d, <2>1, <2>2, AheadMoves, GetType
  <2>4. Due(u)' <= Due(u) + k
    BY <1>d, <1>l, <2>1, <2>3, AheadSum DEF Due, Unsampled, Between, EmptyJournal, Last
  <2>5. Offered(u)' = Offered(u)
    BY <2>1 DEF Offered, OnOffer, Settled
  <2> QED
    BY <1>c, <1>d, <1>t, <2>1, <2>2, <2>4, <2>5
<1>3. ASSUME NEW S \in SUBSET Users, ResetCounters(S) PROVE (billed[u] + Offered(u) + Due(u) <= carried[u])'
  <2>1. counters' \in Counts /\ Get(counters', u) <= Get(counters, u)
    BY <1>3, GetType, <1>d DEF ResetCounters, Get, Counts, Absent, AInv, TypeOK, TypeCore
  <2>2. \A d \in Counts : Ahead(counters', d, u) <= Ahead(counters, d, u)
    BY <1>d, <2>1, GetType DEF Ahead
  <2>3. UNCHANGED <<at, acknowledged, pending, sampled, billed, booked, refused, carried>>
    BY <1>3 DEF ResetCounters, serviceVars, journalVars, panelVars, readVars
  <2>4. Due(u)' <= Due(u)
    BY <1>d, <1>l, <2>1, <2>2, <2>3, AheadSum DEF Due, Unsampled, Between, EmptyJournal, Last
  <2>5. Offered(u)' = Offered(u)
    BY <2>3 DEF Offered, OnOffer, Settled
  <2> QED
    BY <1>c, <1>d, <1>t, <2>3, <2>4, <2>5
<1>4. CASE CoreStart
  <2>1. counters' \in Counts /\ Get(counters', u) <= Get(counters, u)
    BY <1>4, GetType, <1>d
      DEF CoreStart, Get, NoCounters, AInv, TypeOK, TypeCore, Counts, Absent
  <2>2. \A d \in Counts : Ahead(counters', d, u) <= Ahead(counters, d, u)
    BY <1>d, <2>1, GetType DEF Ahead
  <2>3. UNCHANGED <<at, acknowledged, pending, sampled, billed, booked, refused, carried>>
    BY <1>4 DEF CoreStart, serviceVars, journalVars, panelVars, readVars
  <2>4. Due(u)' <= Due(u)
    BY <1>d, <1>l, <2>1, <2>2, <2>3, AheadSum DEF Due, Unsampled, Between, EmptyJournal, Last
  <2>5. Offered(u)' = Offered(u)
    BY <2>3 DEF Offered, OnOffer, Settled
  <2> QED
    BY <1>c, <1>d, <1>t, <2>3, <2>4, <2>5
<1>5. ASSUME NEW m \in answers, Book(m) PROVE (billed[u] + Offered(u) + Due(u) <= carried[u])'
  <2>1. pending # None /\ m = Answer(pending) /\ m.id \notin Settled
    BY <1>5 DEF Book, AInv, AnswersMatch
  <2>2. billed'[u] = billed[u] + Offered(u)
    BY <1>5, <2>1 DEF Book, Answer, Offered, OnOffer, AInv, TypeOK, TypePanel
  <2>3. Offered(u)' = 0
    BY <1>5, <2>1 DEF Book, Answer, Offered, OnOffer, Settled, journalVars
  <2>4. UNCHANGED <<Due(u), carried>>
    BY <1>5
      DEF Book, Due, Unsampled, Between, EmptyJournal, Last, coreVars, journalVars, readVars,
         serviceVars
  <2> QED
    BY <1>c, <1>d, <1>t, <2>2, <2>3, <2>4
<1>6. ASSUME NEW m \in answers, Refuse(m) PROVE (billed[u] + Offered(u) + Due(u) <= carried[u])'
  <2>1. Offered(u)' \in {0, Offered(u)}
    BY <1>6 DEF Refuse, Offered, OnOffer, Settled, journalVars
  <2>2. UNCHANGED <<Due(u), billed, carried>>
    BY <1>6
      DEF Refuse, Due, Unsampled, Between, EmptyJournal, Last, coreVars, journalVars, readVars,
         serviceVars
  <2> QED
    BY <1>c, <1>d, <1>t, <2>1, <2>2
<1>7. CASE \/ \E s \in Slots : Replay(s)
           \/ \E s \in Slots : Begin(s)
  <2>1. /\ UNCHANGED <<acknowledged, pending, sampled, counters, billed, booked, refused, carried>>
        /\ ~Between /\ ~Between'
    BY <1>7
      DEF Replay, Begin, Waiting, Finish, Proceed, Between, AInv, HandlingMatches, coreVars,
         journalVars, readVars, panelVars
  <2> QED
    BY <1>c, <2>1 DEF Offered, OnOffer, Settled, Due, Unsampled, EmptyJournal, Last
<1>8. ASSUME NEW s \in Slots, Acknowledge(s) PROVE (billed[u] + Offered(u) + Due(u) <= carried[u])'
  <2>1. at = "idle" /\ at' \in {"idle", "counters"} /\ UNCHANGED <<counters, sampled, billed, booked, refused, carried>>
    BY <1>8
      DEF Acknowledge, Waiting, Finish, Proceed, AInv, HandlingMatches, coreVars, readVars,
         panelVars
  <2>2. pending # None /\ pending.id \in Settled /\ Checkpoint(pending) \in Checkpoints
    BY <1>8, SampleType
      DEF Acknowledge, Waiting, Acknowledges, Settled, AInv, AnswersMatch, TypeOK, TypeJournal
  <2>3. \/ UNCHANGED <<acknowledged, pending>>
        \/ acknowledged' = Checkpoint(pending) /\ pending' = None
    BY <1>8 DEF Acknowledge, Write, journalVars
  <2>4. Offered(u) = 0 /\ Offered(u)' = 0
    BY <2>1, <2>2, <2>3 DEF Offered, OnOffer, Settled
  <2>5. Due(u)' = Due(u)
    BY <2>1, <2>2, <2>3 DEF Due, Unsampled, Between, EmptyJournal, Last, Checkpoint
  <2> QED
    BY <1>c, <1>d, <1>t, <2>1, <2>4, <2>5
<1>9. CASE ReadCounters
  <2>1. /\ at = "counters" /\ at' \in {"idle", "label"} /\ UNCHANGED <<acknowledged, pending, counters, billed, booked, refused, carried>>
        /\ at' = "label" => sampled' = counters
    BY <1>9 DEF ReadCounters, Finish, coreVars, journalVars, panelVars
  <2>2. Due(u)' = Due(u)
    BY <1>d, <1>l, <2>1, AheadSum DEF Due, Unsampled, Between, EmptyJournal, Last
  <2>3. Offered(u)' = Offered(u)
    BY <2>1 DEF Offered, OnOffer, Settled
  <2> QED
    BY <1>c, <1>d, <1>t, <2>1, <2>2, <2>3
<1>10. CASE TakeBaseline
  <2>1. at = "write" /\ at' = "idle" /\ UNCHANGED <<counters, sampled, billed, booked, refused, carried>>
    BY <1>10 DEF TakeBaseline, Finish, coreVars, readVars, panelVars
  <2>2. sampled \in Counts /\ NewSample(sampled) \in Samples
    BY <1>10
      DEF TakeBaseline, NewSample, Samples, Checkpoints, AInv, TypeOK, TypeRead, TypeGhost,
         TypeJournal
  <2>3. CASE UNCHANGED <<acknowledged, pending>>
    BY <1>c, <1>d, <1>l, <1>t, <2>1, <2>3, AheadSum
      DEF Offered, OnOffer, Settled, Due, Unsampled, Between, EmptyJournal, Last
  <2>4. CASE acknowledged' = acknowledged /\ pending' = NewSample(sampled)
    <3>1. pending' \in Samples /\ pending'.to = sampled /\ pending'.from = sampled
      BY <2>2, <2>4 DEF NewSample
    <3>2. Due(u)' = Ahead(counters, sampled, u)
      BY <2>1, <3>1 DEF Due, Unsampled, Between, EmptyJournal, Last
    <3>3. Offered(u)' = Ahead(sampled, sampled, u)
      <4>1. pending'.id \notin Settled'
        BY <2>1, <2>4 DEF NewSample, AInv, AnswersMatch, Settled, TypeOK, TypeGhost
      <4> QED
        BY <3>1, <4>1, RowsType DEF Offered, OnOffer
    <3>4. Due(u) = Unsampled(sampled, u) + Ahead(counters, sampled, u) /\ Unsampled(sampled, u) \in Nat
      BY <1>d, <1>l, <2>1, AheadSum DEF Due, Between, Unsampled
    <3> QED
      BY <1>c, <1>d, <1>t, <2>1, <3>2, <3>3, <3>4, AheadSum
  <2> QED
    BY <1>10, <2>3, <2>4 DEF TakeBaseline, Retain, Write, journalVars
<1>11. CASE TakeSample
  <2>1. at = "write" /\ at' = "idle" /\ UNCHANGED <<counters, sampled, billed, booked, refused, carried>>
    BY <1>11 DEF TakeSample, Finish, coreVars, readVars, panelVars
  <2>2. acknowledged.counters \in Counts /\ NewSample(acknowledged.counters) \in Samples
    BY <1>11
      DEF TakeSample, NewSample, Samples, Checkpoints, AInv, TypeOK, TypeRead, TypeGhost,
         TypeJournal
  <2>3. CASE UNCHANGED <<acknowledged, pending>>
    BY <1>c, <1>d, <1>l, <1>t, <2>1, <2>3, AheadSum
      DEF Offered, OnOffer, Settled, Due, Unsampled, Between, EmptyJournal, Last
  <2>4. CASE acknowledged' = acknowledged /\ pending' = NewSample(acknowledged.counters)
    <3>1. pending' \in Samples /\ pending'.to = sampled /\ pending'.from = acknowledged.counters
      BY <2>2, <2>4 DEF NewSample
    <3>2. Due(u)' = Ahead(counters, sampled, u)
      BY <2>1, <3>1 DEF Due, Unsampled, Between, EmptyJournal, Last
    <3>3. Offered(u)' = Ahead(sampled, acknowledged.counters, u)
      <4>1. pending'.id \notin Settled'
        BY <2>1, <2>4 DEF NewSample, AInv, AnswersMatch, Settled, TypeOK, TypeGhost
      <4> QED
        BY <3>1, <4>1, RowsType DEF Offered, OnOffer
    <3>4. Due(u) = Unsampled(sampled, u) + Ahead(counters, sampled, u)
      BY <2>1 DEF Due, Between
    <3>5. Unsampled(sampled, u) = Ahead(sampled, acknowledged.counters, u) /\ Offered(u) = 0
      BY <1>11 DEF TakeSample, Unsampled, EmptyJournal, Last, Offered, OnOffer
    <3> QED
      BY <1>c, <1>d, <1>t, <2>1, <2>2, <3>2, <3>3, <3>4, <3>5, AheadSum
  <2> QED
    BY <1>11, <2>3, <2>4 DEF TakeSample, Retain, Write, journalVars
<1>12. CASE TakeQuarantine
  <2>1. at = "write" /\ at' = "idle" /\ UNCHANGED <<counters, sampled, billed, booked, refused, carried>>
    BY <1>12 DEF TakeQuarantine, Finish, coreVars, readVars, panelVars
  <2>2. sampled \in Counts /\ NewSample(sampled) \in Samples
    BY <1>12
      DEF TakeQuarantine, NewSample, Samples, Checkpoints, AInv, TypeOK, TypeRead, TypeGhost,
         TypeJournal
  <2>3. CASE UNCHANGED <<acknowledged, pending>>
    BY <1>c, <1>d, <1>l, <1>t, <2>1, <2>3, AheadSum
      DEF Offered, OnOffer, Settled, Due, Unsampled, Between, EmptyJournal, Last
  <2>4. CASE acknowledged' = Checkpoint(pending) /\ pending' = NewSample(sampled)
    <3>1. pending' \in Samples /\ pending'.to = sampled /\ pending'.from = sampled
      BY <2>2, <2>4 DEF NewSample
    <3>2. Due(u)' = Ahead(counters, sampled, u)
      BY <2>1, <3>1 DEF Due, Unsampled, Between, EmptyJournal, Last
    <3>3. Offered(u)' = Ahead(sampled, sampled, u)
      <4>1. pending'.id \notin Settled'
        BY <2>1, <2>4 DEF NewSample, AInv, AnswersMatch, Settled, TypeOK, TypeGhost
      <4> QED
        BY <3>1, <4>1, RowsType DEF Offered, OnOffer
    <3>4. Due(u) = Unsampled(sampled, u) + Ahead(counters, sampled, u) /\ Unsampled(sampled, u) \in Nat
      BY <1>d, <1>l, <2>1, AheadSum DEF Due, Between, Unsampled
    <3> QED
      BY <1>c, <1>d, <1>t, <2>1, <3>2, <3>3, <3>4, AheadSum
  <2> QED
    BY <1>12, <2>3, <2>4 DEF TakeQuarantine, Retain, Write, journalVars
<1>13. CASE NodeCrash
  <2>1. at' = "idle" /\ UNCHANGED <<acknowledged, pending, sampled, counters, billed, booked, refused, carried>>
    BY <1>13 DEF NodeCrash, journalVars, readVars, panelVars
  <2>2. Due(u)' <= Due(u)
    BY <1>d, <1>l, <2>1, AheadSum DEF Due, Unsampled, Between, EmptyJournal, Last
  <2>3. Offered(u)' = Offered(u)
    BY <2>1 DEF Offered, OnOffer, Settled
  <2> QED
    BY <1>c, <1>d, <1>t, <2>1, <2>2, <2>3
<1> QED
  BY <1>1, <1>2, <1>3, <1>4, <1>5, <1>6, <1>7, <1>8, <1>9, <1>10, <1>11, <1>12, <1>13
    DEF Next, Core, Panel, Snapshot

-----------------------------------------------------------------------------
(* What the panel sees. *)

\* A step that gives up the retained sample finds it settled.
LEMMA SettledStep ==
  ASSUME AInv, [Next]_vars
  PROVE  pending # None /\ pending' # pending => pending.id \in Settled
<1> USE ConstantsAssumption DEF Settled
<1>1. CASE \/ UNCHANGED vars
           \/ \E u \in Users : Carry(u)
           \/ \E S \in SUBSET Users : ResetCounters(S)
           \/ CoreExit
           \/ ProcessCleared
           \/ CoreStart
           \/ \E s \in Slots : Send(s)
           \/ \E m \in answers : Book(m)
           \/ \E m \in answers : Refuse(m)
           \/ \E s \in Slots : Replay(s)
           \/ \E s \in Slots : Begin(s)
           \/ ReadCounters
           \/ ReadLabel
           \/ NodeCrash
  BY <1>1
    DEF vars, coreVars, journalVars, readVars, serviceVars, panelVars, ghostVars, Carry,
       ResetCounters, CoreExit, ProcessCleared, CoreStart, Send, Book, Refuse, Replay, Begin,
       ReadCounters, ReadLabel, NodeCrash
<1>2. ASSUME NEW s \in Slots, Acknowledge(s) PROVE pending # None /\ pending' # pending => pending.id \in Settled
  BY <1>2 DEF Acknowledge, Waiting, Acknowledges, AInv, AnswersMatch
<1>3. CASE \/ TakeBaseline
           \/ TakeSample
  BY <1>3 DEF TakeBaseline, TakeSample
<1>4. CASE TakeQuarantine
  BY <1>4
    DEF TakeQuarantine, Quarantines, AInv, HandlingMatches, AnswersMatch, TypeOK, TypeService
<1> QED
  BY <1>1, <1>2, <1>3, <1>4 DEF Next, Core, Panel, Snapshot

\* A step of the service is a step of the ledger or invisible to it.
LEMMA LedgerStep ==
  ASSUME AInv, TypeOK', ClaimsCarried', [Next]_vars
  PROVE  [Ledger!Next]_(Ledger!ledger)
<1> USE ConstantsAssumption
<1>s. ASSUME UNCHANGED <<carried, billed, pending, booked, refused>> PROVE UNCHANGED Ledger!ledger
  BY <1>s DEF Ledger!ledger, OnOffer, Settled
<1>o. ASSUME UNCHANGED <<carried, billed>>, OnOffer \in {None, OnOffer'} PROVE [Ledger!Next]_(Ledger!ledger)
  <2>1. CASE OnOffer' = OnOffer
    BY <1>o, <2>1 DEF Ledger!ledger
  <2>2. CASE OnOffer = None /\ OnOffer' # None
    <3>1. OnOffer' \in [Users -> Nat]
      BY <2>2, RowsType DEF OnOffer, TypeOK, TypeJournal
    <3>2. ASSUME NEW u \in Users PROVE billed[u] + OnOffer'[u] <= carried[u]
      <4>1. (Due(u) \in Nat)'
        <5>1. (~EmptyJournal => Last \in Counts)' /\ counters' \in Counts /\ sampled' \in Counts
          BY DEF TypeOK, TypeCore, TypeRead, TypeJournal, EmptyJournal, Last, Samples,
             Checkpoints
        <5> QED
          BY <5>1, AheadSum DEF Due, Unsampled
      <4>2. billed'[u] + OnOffer'[u] + Due(u)' <= carried'[u]
        BY <2>2 DEF ClaimsCarried, Offered
      <4>3. billed'[u] \in Nat /\ OnOffer'[u] \in Nat /\ carried'[u] \in Nat
        BY <3>1 DEF TypeOK, TypeCore, TypePanel
      <4> QED
        BY <1>o, <4>1, <4>2, <4>3
    <3> QED
      BY <1>o, <2>2, <3>1, <3>2 DEF Ledger!Next, Ledger!Offer
  <2> QED
    BY <1>o, <2>1, <2>2
<1>1. CASE \/ UNCHANGED vars
           \/ \E S \in SUBSET Users : ResetCounters(S)
           \/ CoreExit
           \/ ProcessCleared
           \/ CoreStart
           \/ \E s \in Slots : Send(s)
           \/ \E s \in Slots : Replay(s)
           \/ \E s \in Slots : Begin(s)
           \/ ReadCounters
           \/ ReadLabel
           \/ NodeCrash
  BY <1>1, <1>s
    DEF vars, coreVars, journalVars, readVars, serviceVars, panelVars, ghostVars, ResetCounters,
       CoreExit, ProcessCleared, CoreStart, Send, Replay, Begin, ReadCounters, ReadLabel,
       NodeCrash
<1>2. ASSUME NEW u \in Users, Carry(u) PROVE [Ledger!Next]_(Ledger!ledger)
  <2>1. carried' = [carried EXCEPT ![u] = @ + 1] /\ UNCHANGED <<billed, OnOffer>>
    BY <1>2 DEF Carry, OnOffer, Settled, journalVars, panelVars
  <2> QED
    BY <1>2, <2>1 DEF Ledger!Next, Ledger!Carry
<1>3. ASSUME NEW m \in answers, Book(m) PROVE [Ledger!Next]_(Ledger!ledger)
  <2>1. pending # None /\ m = Answer(pending) /\ m.id \notin Settled
    BY <1>3 DEF Book, AInv, AnswersMatch
  <2>2. OnOffer = Rows(pending) /\ OnOffer # None
    BY <1>3, <2>1, RowsType DEF Book, Answer, OnOffer, AInv, TypeOK, TypeJournal
  <2>3. OnOffer' = None /\ billed' = [u \in Users |-> billed[u] + OnOffer[u]] /\ UNCHANGED carried
    BY <1>3, <2>1, <2>2 DEF Book, Answer, OnOffer, Settled, journalVars
  <2> QED
    BY <2>2, <2>3 DEF Ledger!Next, Ledger!Bill
<1>4. ASSUME NEW m \in answers, Refuse(m) PROVE [Ledger!Next]_(Ledger!ledger)
  <2>1. UNCHANGED <<carried, billed>> /\ OnOffer' \in {OnOffer, None}
    BY <1>4 DEF Refuse, OnOffer, Settled, journalVars
  <2> QED
    BY <2>1 DEF Ledger!Next, Ledger!Drop, Ledger!ledger
<1>5. CASE \/ \E s \in Slots : Acknowledge(s)
           \/ TakeBaseline
           \/ TakeSample
           \/ TakeQuarantine
  <2>1. OnOffer = None \/ UNCHANGED pending
    BY SettledStep DEF OnOffer
  <2>2. UNCHANGED <<carried, billed, booked, refused>>
    BY <1>5 DEF Acknowledge, TakeBaseline, TakeSample, TakeQuarantine, panelVars
  <2>3. OnOffer \in {None, OnOffer'}
    BY <2>1, <2>2 DEF OnOffer, Settled
  <2> QED
    BY <1>o, <2>2, <2>3
<1> QED
  BY <1>1, <1>2, <1>3, <1>4, <1>5 DEF Next, Core, Panel, Snapshot

-----------------------------------------------------------------------------
(* While nothing disturbs the counters. *)

\* Every step keeps the counters of an undisturbed baseline in order.
LEMMA SteadyStep ==
  ASSUME AInv, SteadyMatches, TypeOK', [Next]_vars
  PROVE  SteadyMatches'
<1> USE ConstantsAssumption
<1>d. counters \in Counts /\ counters' \in Counts /\ sampled \in Counts
  BY DEF AInv, TypeOK, TypeCore, TypeRead
<1>l. ~EmptyJournal => Last \in Counts
  BY DEF AInv, TypeOK, TypeJournal, EmptyJournal, Last, Samples, Checkpoints
<1>1. CASE \/ UNCHANGED vars
           \/ CoreExit
           \/ ProcessCleared
           \/ \E s \in Slots : Send(s)
           \/ \E m \in answers : Book(m)
           \/ \E m \in answers : Refuse(m)
  <2>1. /\ UNCHANGED <<acknowledged, pending, counters, sampled, label, fresh, steady, at>>
        /\ process' \in {process, None}
    BY <1>1
      DEF vars, coreVars, journalVars, readVars, serviceVars, panelVars, ghostVars, CoreExit,
         ProcessCleared, Send, Book, Refuse
  <2> QED
    BY <2>1 DEF SteadyMatches, Between, EmptyJournal, Last, LastGeneration
<1>2. ASSUME NEW u \in Users, Carry(u) PROVE SteadyMatches'
  <2>1. \A v \in Users : Get(counters, v) \in Nat /\ Get(counters', v) \in Nat /\ Get(counters, v) <= Get(counters', v)
    <3> SUFFICES ASSUME NEW v \in Users PROVE Get(counters, v) \in Nat /\ Get(counters', v) \in Nat /\ Get(counters, v) <= Get(counters', v)
      OBVIOUS
    <3>1. Get(counters, v) \in Nat /\ Get(counters', v) \in Nat /\ Get(counters, u) \in Nat
      BY <1>d, GetType
    <3>2. CASE v = u
      BY <1>2, <1>d, <3>1, <3>2 DEF Carry, Get, Counts, Absent
    <3>3. CASE v # u
      BY <1>2, <1>d, <3>1, <3>3 DEF Carry, Get, Counts, Absent
    <3> QED
      BY <3>1, <3>2, <3>3
  <2>2. UNCHANGED <<acknowledged, pending, sampled, label, fresh, steady, process, at>>
    BY <1>2 DEF Carry, journalVars, readVars, ghostVars, serviceVars
  <2>3. \A v \in Users : Get(sampled, v) \in Nat /\ (~EmptyJournal => Get(Last, v) \in Nat)
    BY <1>d, <1>l, GetType
  <2>4. ~EmptyJournal => Last' = Last
    BY <2>2 DEF Last
  <2>5. LastGeneration' = LastGeneration /\ EmptyJournal' = EmptyJournal /\ Between' = Between
    BY <2>2 DEF LastGeneration, EmptyJournal, Between
  <2> QED
    BY <2>1, <2>2, <2>3, <2>4, <2>5 DEF SteadyMatches
<1>3. CASE \/ \E S \in SUBSET Users : ResetCounters(S)
           \/ CoreStart
  BY <1>3 DEF ResetCounters, CoreStart, SteadyMatches
<1>4. CASE \/ \E s \in Slots : Replay(s)
           \/ \E s \in Slots : Begin(s)
  <2>1. /\ UNCHANGED <<acknowledged, pending, counters, process, steady>>
        /\ at = "idle" /\ at' \in {"idle", "counters"}
    BY <1>4
      DEF Replay, Begin, Waiting, Finish, Proceed, AInv, HandlingMatches, coreVars, journalVars,
         readVars, ghostVars
  <2> QED
    BY <2>1 DEF SteadyMatches, Between, EmptyJournal, Last, LastGeneration
<1>5. ASSUME NEW s \in Slots, Acknowledge(s) PROVE SteadyMatches'
  <2>1. /\ at = "idle" /\ at' \in {"idle", "counters"}
        /\ UNCHANGED <<counters, process, sampled, label, fresh, steady>>
    BY <1>5
      DEF Acknowledge, Waiting, Finish, Proceed, AInv, HandlingMatches, coreVars, readVars,
         ghostVars
  <2>2. pending # None /\ Checkpoint(pending) # None
    BY <1>5, SampleType DEF Acknowledge, Acknowledges, AInv, TypeOK, TypeJournal
  <2>3. \/ UNCHANGED <<acknowledged, pending>>
        \/ acknowledged' = Checkpoint(pending) /\ pending' = None
    BY <1>5 DEF Acknowledge, Write, journalVars
  <2> QED
    BY <2>1, <2>2, <2>3
      DEF SteadyMatches, Between, EmptyJournal, Last, LastGeneration, Checkpoint
<1>6. CASE ReadCounters
  <2>1. /\ at' \in {"idle", "label"} /\ UNCHANGED <<acknowledged, pending, counters, process, steady>>
        /\ at' = "label" => sampled' = counters
    BY <1>6 DEF ReadCounters, Finish, coreVars, journalVars, ghostVars
  <2>2. \A u \in Users : Get(counters, u) \in Nat
    BY <1>d, GetType
  <2> QED
    BY <2>1, <2>2 DEF SteadyMatches, Between, EmptyJournal, Last, LastGeneration
<1>7. CASE ReadLabel
  <2>1. /\ at = "label" /\ at' = "write" /\ UNCHANGED <<acknowledged, pending, counters, process, sampled, fresh>>
        /\ label' = process /\ steady' = (steady /\ process # None)
    BY <1>7 DEF ReadLabel, coreVars, journalVars
  <2>2. steady' => steady /\ label' = LastGeneration
    BY <2>1 DEF SteadyMatches
  <2> QED
    BY <2>1, <2>2 DEF SteadyMatches, Between, EmptyJournal, Last, LastGeneration
<1>8. CASE TakeBaseline
  <2>1. at = "write" /\ at' = "idle" /\ UNCHANGED <<counters, process, sampled, label, fresh, booked, billed>>
    BY <1>8 DEF TakeBaseline, Finish, coreVars, readVars, panelVars
  <2>2. sampled \in Counts /\ NewSample(sampled) \in Samples
    BY <1>8
      DEF TakeBaseline, NewSample, Samples, Checkpoints, AInv, TypeOK, TypeRead, TypeGhost,
         TypeJournal
  <2>3. samples + 1 \notin Settled /\ (pending' = NewSample(sampled) => pending' # pending)
    BY <2>2 DEF NewSample, Settled, AInv, AnswersMatch, TypeOK, TypeGhost
  <2>4. \/ UNCHANGED <<acknowledged, pending>>
        \/ acknowledged' = acknowledged /\ pending' = NewSample(sampled)
    BY <1>8 DEF TakeBaseline, Retain, Write, journalVars
  <2>5. ~steady
    <3> SUFFICES ASSUME steady PROVE FALSE
      OBVIOUS
    <3>1. acknowledged # None /\ Rebaseline /\ LastGeneration = acknowledged.generation /\ Last = acknowledged.counters
      BY <1>8 DEF TakeBaseline, SteadyMatches, EmptyJournal, Last, LastGeneration
    <3>2. label = acknowledged.generation /\ \A u \in Users : Get(acknowledged.counters, u) <= Get(sampled, u)
      BY <2>1, <3>1 DEF SteadyMatches, Between
    <3>3. PICK u \in Users : sampled[u] # Absent /\ sampled[u] < Get(acknowledged.counters, u)
      BY <3>1, <3>2 DEF Rebaseline
    <3>4. Get(sampled, u) = sampled[u] /\ Get(acknowledged.counters, u) \in Nat /\ Get(sampled, u) \in Nat
      BY <1>d, <3>1, <3>3, GetType DEF Get, AInv, TypeOK, TypeJournal, Checkpoints
    <3> QED
      BY <3>2, <3>3, <3>4
  <2>6. CASE pending' = pending
    BY <2>1, <2>3, <2>4, <2>5, <2>6, <1>8
      DEF TakeBaseline, NewBaseline, ghostVars, SteadyMatches, Between
  <2>7. CASE pending' = NewSample(sampled) /\ pending' # pending
    <3>1. steady' = fresh
      BY <1>8, <2>5, <2>7 DEF TakeBaseline, NewBaseline
    <3>2. /\ pending' # None /\ pending'.generation = label
          /\ pending'.from = sampled /\ pending'.to = sampled
      BY <2>2, <2>7 DEF NewSample
    <3> QED
      BY <1>d, <2>1, <3>1, <3>2, GetType
        DEF SteadyMatches, Between, EmptyJournal, Last, LastGeneration
  <2> QED
    BY <2>3, <2>4, <2>6, <2>7
<1>9. CASE TakeSample
  <2>1. at = "write" /\ at' = "idle" /\ UNCHANGED <<counters, process, sampled, label, fresh, booked, billed>>
    BY <1>9 DEF TakeSample, Finish, coreVars, readVars, panelVars
  <2>2. acknowledged.counters \in Counts /\ NewSample(acknowledged.counters) \in Samples
    BY <1>9
      DEF TakeSample, NewSample, Samples, Checkpoints, AInv, TypeOK, TypeRead, TypeGhost,
         TypeJournal
  <2>3. samples + 1 \notin Settled /\ (pending' = NewSample(acknowledged.counters) => pending' # pending)
    BY <2>2 DEF NewSample, Settled, AInv, AnswersMatch, TypeOK, TypeGhost
  <2>4. \/ UNCHANGED <<acknowledged, pending>>
        \/ acknowledged' = acknowledged /\ pending' = NewSample(acknowledged.counters)
    BY <1>9 DEF TakeSample, Retain, Write, journalVars
  <2>5. UNCHANGED steady /\ pending = None /\ acknowledged # None
    BY <1>9 DEF TakeSample, ghostVars
  <2>6. CASE UNCHANGED <<acknowledged, pending>>
    BY <2>1, <2>5, <2>6 DEF SteadyMatches, Between, EmptyJournal, Last, LastGeneration
  <2>7. CASE pending' = NewSample(acknowledged.counters)
    <3>1. /\ pending' # None /\ pending'.generation = label
          /\ pending'.from = acknowledged.counters /\ pending'.to = sampled
      BY <2>2, <2>7 DEF NewSample
    <3>2. Last = acknowledged.counters /\ LastGeneration = acknowledged.generation
      BY <2>5 DEF Last, LastGeneration
    <3>3. steady =>
            /\ process \in {label, None}
            /\ \A u \in Users : Get(acknowledged.counters, u) <= Get(sampled, u) /\ Get(sampled, u) <= Get(counters, u)
      BY <2>1, <3>2 DEF SteadyMatches, Between
    <3> QED
      BY <2>1, <2>5, <3>1, <3>3 DEF SteadyMatches, Between, EmptyJournal, Last, LastGeneration
  <2> QED
    BY <2>4, <2>6, <2>7
<1>10. CASE TakeQuarantine
  <2>1. at = "write" /\ at' = "idle" /\ UNCHANGED <<counters, process, sampled, label, fresh, booked, billed>>
    BY <1>10 DEF TakeQuarantine, Finish, coreVars, readVars, panelVars
  <2>2. sampled \in Counts /\ NewSample(sampled) \in Samples
    BY <1>10
      DEF TakeQuarantine, NewSample, Samples, Checkpoints, AInv, TypeOK, TypeRead, TypeGhost,
         TypeJournal
  <2>3. samples + 1 \notin Settled /\ (pending' = NewSample(sampled) => pending' # pending)
    BY <2>2 DEF NewSample, Settled, AInv, AnswersMatch, TypeOK, TypeGhost
  <2>4. \/ UNCHANGED <<acknowledged, pending>>
        \/ acknowledged' = Checkpoint(pending) /\ pending' = NewSample(sampled)
    BY <1>10 DEF TakeQuarantine, Retain, Write, journalVars
  <2>6. CASE pending' = pending
    BY <2>1, <2>3, <2>4, <2>6, <1>10
      DEF TakeQuarantine, NewBaseline, ghostVars, SteadyMatches, Between, EmptyJournal, Last,
         LastGeneration
  <2>7. CASE pending' = NewSample(sampled) /\ pending' # pending
    <3>1. steady' = fresh
      BY <1>10, <2>7 DEF TakeQuarantine, NewBaseline
    <3>2. /\ pending' # None /\ pending'.generation = label
          /\ pending'.from = sampled /\ pending'.to = sampled
      BY <2>2, <2>7 DEF NewSample
    <3> QED
      BY <1>d, <2>1, <3>1, <3>2, GetType
        DEF SteadyMatches, Between, EmptyJournal, Last, LastGeneration
  <2> QED
    BY <2>3, <2>4, <2>6, <2>7
<1>11. CASE NodeCrash
  <2>1. at' = "idle" /\ process' = None /\ UNCHANGED <<acknowledged, pending, counters, steady>>
    BY <1>11 DEF NodeCrash, journalVars, ghostVars
  <2> QED
    BY <2>1 DEF SteadyMatches, Between, EmptyJournal, Last, LastGeneration
<1> QED
  BY <1>1, <1>2, <1>3, <1>4, <1>5, <1>6, <1>7, <1>8, <1>9, <1>10, <1>11
    DEF Next, Core, Panel, Snapshot

\* Every step bills exactly what an undisturbed baseline advanced by.
LEMMA ExactStep ==
  ASSUME AInv, SteadyMatches, BilledExactly, TypeOK', [Next]_vars
  PROVE  BilledExactly'
<1> USE ConstantsAssumption
<1>d. counters \in Counts /\ counters' \in Counts /\ sampled \in Counts
  BY DEF AInv, TypeOK, TypeCore, TypeRead
<1>l. ~EmptyJournal => Last \in Counts
  BY DEF AInv, TypeOK, TypeJournal, EmptyJournal, Last, Samples, Checkpoints
<1>1. CASE \/ UNCHANGED vars
           \/ \E u \in Users : Carry(u)
           \/ CoreExit
           \/ ProcessCleared
           \/ \E s \in Slots : Send(s)
           \/ \E m \in answers : Refuse(m)
           \/ \E s \in Slots : Replay(s)
           \/ \E s \in Slots : Begin(s)
           \/ ReadCounters
           \/ NodeCrash
  <2>1. UNCHANGED <<acknowledged, pending, booked, billed, base, paid, steady>>
    BY <1>1
      DEF vars, coreVars, journalVars, readVars, serviceVars, panelVars, ghostVars, Carry,
         CoreExit, ProcessCleared, Send, Refuse, Replay, Begin, ReadCounters, NodeCrash
  <2> QED
    BY <2>1 DEF BilledExactly, LastBilled
<1>2. CASE \/ \E S \in SUBSET Users : ResetCounters(S)
           \/ CoreStart
  BY <1>2 DEF ResetCounters, CoreStart, BilledExactly
<1>3. ASSUME NEW m \in answers, Book(m) PROVE BilledExactly'
  <2>1. pending # None /\ m = Answer(pending) /\ m.id \notin Settled
    BY <1>3 DEF Book, AInv, AnswersMatch
  <2>2. UNCHANGED <<acknowledged, pending, base, paid, steady>>
    BY <1>3 DEF Book, journalVars, ghostVars
  <2>3. LastBilled = pending.from /\ LastBilled' = pending.to
    BY <1>3, <2>1, <2>2 DEF Book, Answer, LastBilled, Settled
  <2>4. pending \in Samples /\ pending.from \in Counts /\ pending.to \in Counts
    BY <2>1 DEF AInv, TypeOK, TypeJournal, Samples
  <2> SUFFICES ASSUME steady', NEW u \in Users
               PROVE  billed'[u] - paid'[u] = Get(LastBilled', u) - Get(base', u)
    BY DEF BilledExactly
  <2>5. billed[u] - paid[u] = Get(pending.from, u) - Get(base, u)
    BY <2>2, <2>3 DEF BilledExactly
  <2>6. Get(pending.from, u) <= Get(pending.to, u)
    BY <2>1, <2>2 DEF SteadyMatches
  <2>7. billed'[u] = billed[u] + Rows(pending)[u]
    BY <1>3, <2>1 DEF Book, Answer
  <2>8. Rows(pending)[u] = Get(pending.to, u) - Get(pending.from, u)
    BY <2>4, <2>6, RowsType, GetType DEF Ahead
  <2>9. /\ Get(pending.from, u) \in Nat /\ Get(pending.to, u) \in Nat /\ Get(base, u) \in Nat
        /\ billed[u] \in Nat /\ paid[u] \in Nat
    BY <2>4, GetType DEF AInv, TypeOK, TypePanel, TypeGhost
  <2> QED
    BY <2>2, <2>3, <2>5, <2>7, <2>8, <2>9
<1>4. ASSUME NEW s \in Slots, Acknowledge(s) PROVE BilledExactly'
  <2>1. pending # None /\ pending.id \in booked /\ UNCHANGED <<booked, billed, base, paid, steady>>
    BY <1>4 DEF Acknowledge, Waiting, Acknowledges, AInv, AnswersMatch, panelVars, ghostVars
  <2>2. \/ UNCHANGED <<acknowledged, pending>>
        \/ acknowledged' = Checkpoint(pending) /\ pending' = None
    BY <1>4 DEF Acknowledge, Write, journalVars
  <2>3. LastBilled' = LastBilled
    BY <2>1, <2>2 DEF LastBilled, Checkpoint
  <2> QED
    BY <2>1, <2>3 DEF BilledExactly
<1>5. CASE ReadLabel
  <2>1. UNCHANGED <<acknowledged, pending, booked, billed, base, paid>> /\ (steady' => steady)
    BY <1>5 DEF ReadLabel, journalVars, panelVars
  <2> QED
    BY <2>1 DEF BilledExactly, LastBilled
<1>6. CASE TakeBaseline
  <2>1. at = "write" /\ at' = "idle" /\ UNCHANGED <<counters, process, sampled, label, fresh, booked, billed>>
    BY <1>6 DEF TakeBaseline, Finish, coreVars, readVars, panelVars
  <2>2. sampled \in Counts /\ NewSample(sampled) \in Samples
    BY <1>6
      DEF TakeBaseline, NewSample, Samples, Checkpoints, AInv, TypeOK, TypeRead, TypeGhost,
         TypeJournal
  <2>3. samples + 1 \notin Settled /\ (pending' = NewSample(sampled) => pending' # pending)
    BY <2>2 DEF NewSample, Settled, AInv, AnswersMatch, TypeOK, TypeGhost
  <2>4. \/ UNCHANGED <<acknowledged, pending>>
        \/ acknowledged' = acknowledged /\ pending' = NewSample(sampled)
    BY <1>6 DEF TakeBaseline, Retain, Write, journalVars
  <2>5. ~steady
    <3> SUFFICES ASSUME steady PROVE FALSE
      OBVIOUS
    <3>1. acknowledged # None /\ Rebaseline /\ LastGeneration = acknowledged.generation /\ Last = acknowledged.counters
      BY <1>6 DEF TakeBaseline, SteadyMatches, EmptyJournal, Last, LastGeneration
    <3>2. label = acknowledged.generation /\ \A u \in Users : Get(acknowledged.counters, u) <= Get(sampled, u)
      BY <2>1, <3>1 DEF SteadyMatches, Between
    <3>3. PICK u \in Users : sampled[u] # Absent /\ sampled[u] < Get(acknowledged.counters, u)
      BY <3>1, <3>2 DEF Rebaseline
    <3>4. Get(sampled, u) = sampled[u] /\ Get(acknowledged.counters, u) \in Nat /\ Get(sampled, u) \in Nat
      BY <1>d, <3>1, <3>3, GetType DEF Get, AInv, TypeOK, TypeJournal, Checkpoints
    <3> QED
      BY <3>2, <3>3, <3>4
  <2>6. CASE pending' = pending
    <3>1. UNCHANGED <<acknowledged, pending, base, paid, steady>>
      BY <1>6, <2>3, <2>4, <2>6 DEF TakeBaseline, NewBaseline, ghostVars
    <3> QED
      BY <2>1, <3>1 DEF BilledExactly, LastBilled
  <2>7. CASE pending' = NewSample(sampled) /\ pending' # pending
    <3>1. base' = sampled /\ paid' = billed
      BY <1>6, <2>5, <2>7 DEF TakeBaseline, NewBaseline
    <3>2. pending' # None /\ pending'.id \notin booked' /\ pending'.from = sampled
      BY <2>1, <2>2, <2>3, <2>7 DEF NewSample, Settled
    <3>3. LastBilled' = sampled
      BY <3>2 DEF LastBilled
    <3>4. \A u \in Users : billed[u] \in Nat /\ Get(sampled, u) \in Nat
      BY GetType DEF AInv, TypeOK, TypePanel, TypeRead
    <3> QED
      BY <2>1, <3>1, <3>3, <3>4 DEF BilledExactly
  <2> QED
    BY <2>3, <2>4, <2>6, <2>7
<1>7. CASE TakeSample
  <2>1. at = "write" /\ at' = "idle" /\ UNCHANGED <<counters, process, sampled, label, fresh, booked, billed>>
    BY <1>7 DEF TakeSample, Finish, coreVars, readVars, panelVars
  <2>2. acknowledged.counters \in Counts /\ NewSample(acknowledged.counters) \in Samples
    BY <1>7
      DEF TakeSample, NewSample, Samples, Checkpoints, AInv, TypeOK, TypeRead, TypeGhost,
         TypeJournal
  <2>3. samples + 1 \notin Settled /\ (pending' = NewSample(acknowledged.counters) => pending' # pending)
    BY <2>2 DEF NewSample, Settled, AInv, AnswersMatch, TypeOK, TypeGhost
  <2>4. \/ UNCHANGED <<acknowledged, pending>>
        \/ acknowledged' = acknowledged /\ pending' = NewSample(acknowledged.counters)
    BY <1>7 DEF TakeSample, Retain, Write, journalVars
  <2>5. UNCHANGED <<base, paid, steady>> /\ pending = None
    BY <1>7 DEF TakeSample, ghostVars
  <2>6. LastBilled' = LastBilled
    <3>1. CASE UNCHANGED <<acknowledged, pending>>
      BY <2>1, <3>1 DEF LastBilled
    <3>2. CASE pending' = NewSample(acknowledged.counters)
      <4>1. pending' # None /\ pending'.id \notin booked' /\ pending'.from = acknowledged.counters
        BY <2>1, <2>2, <2>3, <3>2 DEF NewSample, Settled
      <4>2. LastBilled = acknowledged.counters
        BY <2>5 DEF LastBilled
      <4>3. LastBilled' = pending'.from
        BY <4>1 DEF LastBilled
      <4> QED
        BY <4>1, <4>2, <4>3
    <3> QED
      BY <2>4, <3>1, <3>2
  <2> QED
    BY <2>1, <2>5, <2>6 DEF BilledExactly
<1>8. CASE TakeQuarantine
  <2>1. at = "write" /\ at' = "idle" /\ UNCHANGED <<counters, process, sampled, label, fresh, booked, billed>>
    BY <1>8 DEF TakeQuarantine, Finish, coreVars, readVars, panelVars
  <2>2. sampled \in Counts /\ NewSample(sampled) \in Samples
    BY <1>8
      DEF TakeQuarantine, NewSample, Samples, Checkpoints, AInv, TypeOK, TypeRead, TypeGhost,
         TypeJournal
  <2>3. samples + 1 \notin Settled /\ (pending' = NewSample(sampled) => pending' # pending)
    BY <2>2 DEF NewSample, Settled, AInv, AnswersMatch, TypeOK, TypeGhost
  <2>4. \/ UNCHANGED <<acknowledged, pending>>
        \/ acknowledged' = Checkpoint(pending) /\ pending' = NewSample(sampled)
    BY <1>8 DEF TakeQuarantine, Retain, Write, journalVars
  <2>6. CASE pending' = pending
    <3>1. UNCHANGED <<acknowledged, pending, base, paid, steady>>
      BY <1>8, <2>3, <2>4, <2>6 DEF TakeQuarantine, NewBaseline, ghostVars
    <3> QED
      BY <2>1, <3>1 DEF BilledExactly, LastBilled
  <2>7. CASE pending' = NewSample(sampled) /\ pending' # pending
    <3>1. base' = sampled /\ paid' = billed
      BY <1>8, <2>7 DEF TakeQuarantine, NewBaseline
    <3>2. pending' # None /\ pending'.id \notin booked' /\ pending'.from = sampled
      BY <2>1, <2>2, <2>3, <2>7 DEF NewSample, Settled
    <3>3. LastBilled' = sampled
      BY <3>2 DEF LastBilled
    <3>4. \A u \in Users : billed[u] \in Nat /\ Get(sampled, u) \in Nat
      BY GetType DEF AInv, TypeOK, TypePanel, TypeRead
    <3> QED
      BY <2>1, <3>1, <3>3, <3>4 DEF BilledExactly
  <2> QED
    BY <2>3, <2>4, <2>6, <2>7
<1> QED
  BY <1>1, <1>2, <1>3, <1>4, <1>5, <1>6, <1>7, <1>8 DEF Next, Core, Panel, Snapshot

-----------------------------------------------------------------------------
(* Theorems. *)

\* The invariant holds in the initial state ...
LEMMA InitInv == Init => AInv
<1> SUFFICES ASSUME Init PROVE AInv
  OBVIOUS
<1> USE ConstantsAssumption DEF Init
<1>1. NoCounters \in Counts /\ NoBytes \in [Users -> Nat]
  BY DEF NoCounters, NoBytes, Counts, Absent
<1>2. TypeOK
  BY <1>1 DEF TypeOK, TypeCore, TypeJournal, TypeService, TypeRead, TypePanel, TypeGhost
<1>3. HandlingMatches /\ AnswersMatch
  BY DEF HandlingMatches, AnswersMatch, Settled
<1>4. ASSUME NEW u \in Users PROVE billed[u] + Offered(u) + Due(u) <= carried[u]
  <2>1. Offered(u) = 0 /\ Due(u) = 0
    BY DEF Offered, OnOffer, Due, Unsampled, EmptyJournal, Between
  <2>2. billed[u] = 0 /\ carried[u] = 0
    BY DEF NoBytes
  <2> QED
    BY <2>1, <2>2
<1> QED
  BY <1>2, <1>3, <1>4 DEF AInv, ClaimsCarried

\* ... and is kept by every step.
LEMMA StepInv == AInv /\ [Next]_vars => AInv'
<1> SUFFICES ASSUME AInv, [Next]_vars PROVE AInv'
  OBVIOUS
<1>1. TypeOK'
  BY TypeStep DEF AInv
<1>2. HandlingMatches' /\ AnswersMatch'
  BY HandlingStep, AnswersStep DEF AInv
<1>3. ClaimsCarried'
  BY <1>1, ClaimsStep
<1> QED
  BY <1>1, <1>2, <1>3 DEF AInv

\* The inductive invariant of the accounting service holds in every behaviour.
THEOREM AccountingInvariant == Spec => []AInv
BY InitInv, StepInv, PTL DEF Spec

\* Every variable of the service, the journal, the panel and rw-core keeps its
\* type, whatever fails and restarts.
THEOREM TypeCorrect == Spec => []TypeOK
<1>1. AInv => TypeOK
  BY DEF AInv
<1> QED
  BY <1>1, AccountingInvariant, PTL

\* No user is ever billed for bytes that were not carried: neither a lost
\* answer, a late request, a failed write of the journal, a reset of the
\* counters nor a new rw-core makes the service claim bytes twice.
THEOREM NeverOver == Spec => []NeverOverbilled
<1>1. AInv => NeverOverbilled
  <2> SUFFICES ASSUME AInv, NEW u \in Users PROVE billed[u] <= carried[u]
    BY DEF NeverOverbilled
  <2>1. billed[u] + Offered(u) + Due(u) <= carried[u]
    BY DEF AInv, ClaimsCarried
  <2>2. Offered(u) \in Nat
    BY RowsType DEF AInv, TypeOK, TypeJournal, Offered, OnOffer
  <2>3. ~EmptyJournal => Last \in Counts
    BY DEF AInv, TypeOK, TypeJournal, EmptyJournal, Last, Samples, Checkpoints
  <2>4. Due(u) \in Nat
    BY <2>3, AheadSum DEF Due, Unsampled, AInv, TypeOK, TypeCore, TypeRead
  <2>5. billed[u] \in Nat /\ carried[u] \in Nat
    BY DEF AInv, TypeOK, TypePanel, TypeCore
  <2> QED
    BY <2>1, <2>2, <2>4, <2>5
<1> QED
  BY <1>1, AccountingInvariant, PTL

\* The journal gives up a retained sample only after the panel has settled it.
THEOREM SettledOnly == Spec => SettledFirst
BY AccountingInvariant, SettledStep, PTL DEF Spec, SettledFirst

\* The service implements the ledger: a sample on offer is billed once or
\* dropped, and never claims more than was carried.
THEOREM Refinement == Spec => ImplementsLedger
<1>1. Init => Ledger!Init
  BY DEF Init, Ledger!Init, OnOffer, NoBytes, Ledger!ZeroBytes
<1>2. AInv /\ AInv' /\ [Next]_vars => [Ledger!Next]_(Ledger!ledger)
  BY LedgerStep DEF AInv
<1> QED
  BY <1>1, <1>2, AccountingInvariant, PTL DEF Spec, ImplementsLedger, Ledger!Spec

\* As long as nothing disturbs the counters after a baseline, the panel has
\* billed exactly what they advanced by up to the last billed sample: losing
\* answers, writes of the journal or the node's memory loses no bytes.
THEOREM Exactly == Spec => []BilledExactly
<1>1. Init => BInv
  BY InitInv DEF BInv, Init, SteadyMatches, BilledExactly, Between
<1>2. BInv /\ [Next]_vars => BInv'
  <2> SUFFICES ASSUME BInv, [Next]_vars PROVE BInv'
    OBVIOUS
  <2>1. AInv' /\ TypeOK'
    BY StepInv DEF BInv, AInv
  <2> QED
    BY <2>1, SteadyStep, ExactStep DEF BInv
<1>3. BInv => BilledExactly
  BY DEF BInv
<1> QED
  BY <1>1, <1>2, <1>3, PTL DEF Spec
=============================================================================
