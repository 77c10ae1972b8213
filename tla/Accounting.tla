----------------------------- MODULE Accounting ------------------------------
(***************************************************************************)
(* internal/stats/accounting_snapshot.go: the traffic samples the panel    *)
(* fetches, books and acknowledges, over a link that loses answers and     *)
(* delays requests, a disk that fails, and an rw-core that restarts.       *)
(*                                                                         *)
(* The service's mutex is held by one request at a time ("handling").  The *)
(* journal is re-read by every request, so its file is the only state the  *)
(* service keeps.  A counter is a total of bytes; the two spellings of its *)
(* name, which the rows add up, are one counter here.                      *)
(***************************************************************************)
EXTENDS Integers

CONSTANTS
  Users,        \* names of counters
  Slots,        \* goroutines serving panel requests
  Pids,         \* process ids, which the operating system uses again
  None,
  MaxBytes,     \* bound, by user: bytes carried
  MaxLives,     \* bound: rw-core processes
  MaxSamples,   \* bound: samples taken
  MaxSends,     \* bound: panel requests
  MaxResets,    \* bound: queries that reset counters
  MaxCrashes    \* bound: crashes of the node process

Absent == -1    \* rw-core creates a counter when it is first used
Counts == [Users -> Nat \cup {Absent}]
Requests == [ack : Nat \cup {None}, quarantine : Nat \cup {None}]
Checkpoints == [id : Nat, generation : Pids \cup {None}, counters : Counts]
Samples == [id : Nat, generation : Pids \cup {None}, from : Counts, to : Counts]

ASSUME ConstantsAssumption ==
  /\ None \notin Slots \cup Pids \cup Nat
  /\ None \notin Requests /\ None \notin Checkpoints /\ None \notin Samples
  /\ None \notin [Users -> Nat]
  /\ MaxBytes \in [Users -> Nat] /\ MaxLives \in Nat /\ MaxSamples \in Nat
  /\ MaxSends \in Nat /\ MaxResets \in Nat /\ MaxCrashes \in Nat

VARIABLES
  counters,      \* the counters of the running rw-core
  alive,         \* does it answer queries?
  process,       \* the pid of m.process, or None
  acknowledged,  \* the journal: the acknowledged checkpoint
  pending,       \* and the sample retained until the panel settles it
  inbox,         \* the request each goroutine holds, or None
  handling,      \* the goroutine that holds the service's mutex, or None
  at,            \* where it is: idle, counters, label, write
  sampled,       \* the counters it has read
  label,         \* and the generation
  answers,       \* answers given to the panel; one may arrive at any time, or never
  booked,        \* the panel: ids of the samples it has billed
  refused,       \* and of those it wants quarantined
  billed,        \* bytes billed by user
  carried,       \* history: bytes really carried by user
  base, paid,    \* history: the last baseline, and what was billed by then
  fresh,         \* history: nothing has disturbed the counters since they were read
  steady,        \* history: nor since the last baseline
  lives, samples, sends, resets, crashes   \* counters of the bounds

coreVars == <<counters, alive, process, lives, resets>>
journalVars == <<acknowledged, pending>>
readVars == <<sampled, label, fresh>>
serviceVars == <<inbox, handling, at>>
panelVars == <<booked, refused, billed>>
ghostVars == <<base, paid, steady>>
vars == <<coreVars, journalVars, readVars, serviceVars, answers, panelVars,
          carried, ghostVars, samples, sends, crashes>>

Get(c, u) == IF c[u] = Absent THEN 0 ELSE c[u]
NoCounters == [u \in Users |-> Absent]
NoBytes == [u \in Users |-> 0]
Settled == booked \cup refused

\* Seeded fault (see below): a counter that is gone is billed its difference.
FaultSignedRows(p) == [u \in Users |-> Get(p.to, u) - Get(p.from, u)]

\* The rows of a sample.  A difference below zero counts as none.
Rows(p) ==
  [u \in Users |-> IF Get(p.to, u) > Get(p.from, u) THEN Get(p.to, u) - Get(p.from, u) ELSE 0]

Answer(p) == [id |-> p.id, rows |-> Rows(p)]
Checkpoint(p) == [id |-> p.id, generation |-> p.generation, counters |-> p.to]

Init ==
  /\ counters = NoCounters /\ alive = FALSE /\ process = None
  /\ acknowledged = None /\ pending = None
  /\ inbox = [s \in Slots |-> None] /\ handling = None /\ at = "idle"
  /\ sampled = NoCounters /\ label = None /\ fresh = FALSE
  /\ answers = {} /\ booked = {} /\ refused = {} /\ billed = NoBytes
  /\ carried = NoBytes /\ base = NoCounters /\ paid = NoBytes /\ steady = FALSE
  /\ lives = 0 /\ samples = 0 /\ sends = 0 /\ resets = 0 /\ crashes = 0

-----------------------------------------------------------------------------
(* rw-core and its supervisor (see XrayManager), as the service sees them. *)

Carry(u) ==
  /\ alive /\ carried[u] < MaxBytes[u]
  /\ counters' = [counters EXCEPT ![u] = Get(counters, u) + 1]
  /\ carried' = [carried EXCEPT ![u] = @ + 1]
  /\ UNCHANGED <<alive, process, lives, resets, journalVars, readVars, serviceVars, answers,
                 panelVars, ghostVars, samples, sends, crashes>>

\* Another statistics endpoint queries some counters with reset = true.
ResetCounters(S) ==
  /\ alive /\ resets < MaxResets
  /\ counters' = [u \in Users |-> IF u \in S /\ counters[u] # Absent THEN 0 ELSE counters[u]]
  /\ fresh' = FALSE /\ steady' = FALSE
  /\ resets' = resets + 1
  /\ UNCHANGED <<alive, process, lives, journalVars, sampled, label, serviceVars, answers,
                 panelVars, carried, base, paid, samples, sends, crashes>>

CoreExit ==
  /\ alive /\ alive' = FALSE
  /\ UNCHANGED <<counters, process, lives, resets, journalVars, readVars, serviceVars, answers,
                 panelVars, carried, ghostVars, samples, sends, crashes>>

ProcessCleared ==
  /\ ~alive /\ process # None /\ process' = None
  /\ UNCHANGED <<counters, alive, lives, resets, journalVars, readVars, serviceVars, answers,
                 panelVars, carried, ghostVars, samples, sends, crashes>>

CoreStart ==
  /\ ~alive /\ lives < MaxLives
  /\ alive' = TRUE /\ process' \in Pids /\ counters' = NoCounters
  /\ fresh' = FALSE /\ steady' = FALSE
  /\ lives' = lives + 1
  /\ UNCHANGED <<resets, journalVars, sampled, label, serviceVars, answers, panelVars, carried,
                 base, paid, samples, sends, crashes>>

-----------------------------------------------------------------------------
(* The panel (external): it bills a sample once, and acknowledges only what  *)
(* it has billed.  It may repeat itself, and a request may be served late.   *)

Send(s) ==
  /\ inbox[s] = None /\ sends < MaxSends
  /\ \E a \in booked \cup {None}, q \in refused \cup {None} :
       inbox' = [inbox EXCEPT ![s] = [ack |-> a, quarantine |-> q]]
  /\ sends' = sends + 1
  /\ UNCHANGED <<coreVars, journalVars, readVars, handling, at, answers, panelVars, carried,
                 ghostVars, samples, crashes>>

Book(m) ==
  /\ m.id \notin Settled
  /\ booked' = booked \cup {m.id}
  /\ billed' = [u \in Users |-> billed[u] + m.rows[u]]
  /\ UNCHANGED <<coreVars, journalVars, readVars, serviceVars, answers, refused, carried,
                 ghostVars, samples, sends, crashes>>

Refuse(m) ==
  /\ m.id \notin Settled
  /\ refused' = refused \cup {m.id}
  /\ UNCHANGED <<coreVars, journalVars, readVars, serviceVars, answers, booked, billed, carried,
                 ghostVars, samples, sends, crashes>>

-----------------------------------------------------------------------------
(* Snapshot. *)

Waiting(s) == handling = None /\ inbox[s] # None

\* Seeded faults: variants of definitions that follow.  No specification uses
\* them; the model checker must reject each.
FaultQuarantinesAny(r) == r.quarantine # None /\ r.ack = None /\ pending # None
FaultEqualRebaselines ==
  /\ acknowledged # None
  /\ \/ acknowledged.generation # label
     \/ \E u \in Users : sampled[u] # Absent /\ sampled[u] <= Get(acknowledged.counters, u)

\* A request that carries both actions does neither.
Acknowledges(r) ==
  r.ack # None /\ r.quarantine = None /\ pending # None /\ r.ack = pending.id
Quarantines(r) ==
  r.quarantine # None /\ r.ack = None /\ pending # None /\ r.quarantine = pending.id

\* The journal is replaced by a rename.  An error before it leaves the old
\* file, an error after it (the directory is synced last) the new one.
Write(a, p, ok) ==
  \/ acknowledged' = a /\ pending' = p
  \/ ~ok /\ UNCHANGED journalVars

Finish(s) == inbox' = [inbox EXCEPT ![s] = None] /\ handling' = None /\ at' = "idle"
Proceed(s) == handling' = s /\ at' = "counters" /\ UNCHANGED inbox

\* The retained sample is given again until the panel settles it.
Replay(s) ==
  /\ Waiting(s) /\ pending # None
  /\ ~Acknowledges(inbox[s]) /\ ~Quarantines(inbox[s])
  /\ answers' = answers \cup {Answer(pending)}
  /\ Finish(s)
  /\ UNCHANGED <<coreVars, journalVars, readVars, panelVars, carried, ghostVars, samples, sends, crashes>>

Acknowledge(s) ==
  /\ Waiting(s) /\ Acknowledges(inbox[s])
  /\ \/ Write(Checkpoint(pending), None, TRUE) /\ Proceed(s)
     \/ Write(Checkpoint(pending), None, FALSE) /\ Finish(s)
  /\ UNCHANGED <<coreVars, readVars, answers, panelVars, carried, ghostVars, samples, sends, crashes>>

\* Nothing to write yet: a sample is due, or is to be quarantined once the
\* counters have been read.
Begin(s) ==
  /\ Waiting(s) /\ (pending = None \/ Quarantines(inbox[s]))
  /\ Proceed(s)
  /\ UNCHANGED <<coreVars, journalVars, readVars, answers, panelVars, carried, ghostVars, samples, sends, crashes>>

\* ReadAccountingCounters: the query first, the generation after it.
ReadCounters ==
  /\ at = "counters"
  /\ \/ /\ alive /\ sampled' = counters /\ fresh' = TRUE
        /\ at' = "label" /\ UNCHANGED <<inbox, handling>>
     \/ Finish(handling) /\ UNCHANGED <<sampled, fresh>>
  /\ UNCHANGED <<coreVars, journalVars, label, answers, panelVars, carried, ghostVars, samples, sends, crashes>>

ReadLabel ==
  /\ at = "label"
  /\ label' = process /\ steady' = (steady /\ process # None)
  /\ at' = "write"
  /\ UNCHANGED <<coreVars, journalVars, sampled, fresh, inbox, handling, answers, panelVars, carried,
                 base, paid, samples, sends, crashes>>

\* The checkpoint cannot be continued: another process, or a counter that
\* went down.  Counters that are missing now are not compared.
Rebaseline ==
  /\ acknowledged # None
  /\ \/ acknowledged.generation # label
     \/ \E u \in Users : sampled[u] # Absent /\ sampled[u] < Get(acknowledged.counters, u)

NewSample(from) ==
  [id |-> samples + 1, generation |-> label, from |-> from, to |-> sampled]

\* Seeded fault: the sample is given to the panel although it was not retained.
FaultAnswersUnretained(a, from, ok) ==
  /\ Write(a, NewSample(from), ok)
  /\ answers' = answers \cup {Answer(NewSample(from))}
  /\ samples' = samples + 1

\* A new sample is retained, and given to the panel if that succeeded.
Retain(a, from, ok) ==
  /\ Write(a, NewSample(from), ok)
  /\ answers' = IF ok THEN answers \cup {Answer(NewSample(from))} ELSE answers
  /\ samples' = samples + 1

\* History: a baseline has reached the journal.
NewBaseline(needed) ==
  IF needed /\ pending' # pending
    THEN base' = sampled /\ paid' = billed /\ steady' = fresh
    ELSE UNCHANGED ghostVars

\* Seeded fault: a new process is billed from zero.
FaultBillsNewProcess ==
  /\ at = "write" /\ samples < MaxSamples
  /\ pending = None /\ (acknowledged = None \/ Rebaseline)
  /\ \E ok \in BOOLEAN :
       Retain(acknowledged, IF acknowledged = None THEN sampled ELSE NoCounters, ok)
  /\ NewBaseline(~steady)
  /\ Finish(handling)
  /\ UNCHANGED <<coreVars, readVars, panelVars, carried, sends, crashes>>

TakeBaseline ==
  /\ at = "write" /\ samples < MaxSamples
  /\ pending = None /\ (acknowledged = None \/ Rebaseline)
  /\ \E ok \in BOOLEAN : Retain(acknowledged, sampled, ok)
  /\ NewBaseline(~steady)
  /\ Finish(handling)
  /\ UNCHANGED <<coreVars, readVars, panelVars, carried, sends, crashes>>

TakeSample ==
  /\ at = "write" /\ samples < MaxSamples
  /\ pending = None /\ acknowledged # None /\ ~Rebaseline
  /\ \E ok \in BOOLEAN : Retain(acknowledged, acknowledged.counters, ok)
  /\ Finish(handling)
  /\ UNCHANGED <<coreVars, readVars, panelVars, carried, ghostVars, sends, crashes>>

\* The refused sample becomes the checkpoint and the counters just read a
\* fresh baseline.
TakeQuarantine ==
  /\ at = "write" /\ samples < MaxSamples
  /\ pending # None
  /\ \E ok \in BOOLEAN : Retain(Checkpoint(pending), sampled, ok)
  /\ NewBaseline(TRUE)
  /\ Finish(handling)
  /\ UNCHANGED <<coreVars, readVars, panelVars, carried, sends, crashes>>

\* The node process dies, and rw-core with it.
NodeCrash ==
  /\ crashes < MaxCrashes
  /\ crashes' = crashes + 1
  /\ alive' = FALSE /\ process' = None
  /\ inbox' = [s \in Slots |-> None] /\ handling' = None /\ at' = "idle"
  /\ UNCHANGED <<counters, lives, resets, journalVars, readVars, answers, panelVars, carried,
                 ghostVars, samples, sends>>

Core ==
  \/ \E u \in Users : Carry(u)
  \/ \E S \in SUBSET Users : ResetCounters(S)
  \/ CoreExit \/ ProcessCleared \/ CoreStart

Panel == (\E s \in Slots : Send(s)) \/ (\E m \in answers : Book(m) \/ Refuse(m))

Snapshot ==
  \/ \E s \in Slots : Replay(s) \/ Acknowledge(s) \/ Begin(s)
  \/ ReadCounters \/ ReadLabel \/ TakeBaseline \/ TakeSample \/ TakeQuarantine

Next == Core \/ Panel \/ Snapshot \/ NodeCrash

Spec == Init /\ [][Next]_vars

-----------------------------------------------------------------------------
(* Properties. *)

TypeCore ==
  /\ counters \in Counts /\ alive \in BOOLEAN /\ process \in Pids \cup {None}
  /\ lives \in Nat /\ resets \in Nat /\ carried \in [Users -> Nat]
TypeJournal == acknowledged \in Checkpoints \cup {None} /\ pending \in Samples \cup {None}
TypeService ==
  /\ inbox \in [Slots -> Requests \cup {None}] /\ handling \in Slots \cup {None}
  /\ at \in {"idle", "counters", "label", "write"}
TypeRead == sampled \in Counts /\ label \in Pids \cup {None} /\ fresh \in BOOLEAN
TypePanel ==
  /\ answers \subseteq [id : Nat, rows : [Users -> Nat]]
  /\ booked \subseteq Nat /\ refused \subseteq Nat /\ billed \in [Users -> Nat]
TypeGhost ==
  /\ base \in Counts /\ paid \in [Users -> Nat] /\ steady \in BOOLEAN
  /\ samples \in Nat /\ sends \in Nat /\ crashes \in Nat

\* Every variable keeps its type: rows and bills are never negative.
TypeOK == TypeCore /\ TypeJournal /\ TypeService /\ TypeRead /\ TypePanel /\ TypeGhost

\* No user is ever billed for bytes that were not carried, whatever answers
\* are lost, requests delayed, writes failed, counters reset and cores
\* replaced, also between the query and the reading of the generation.
NeverOverbilled == \A u \in Users : billed[u] <= carried[u]

\* As long as nothing disturbs the counters after a baseline (no reset, no new
\* core, no core that is gone before its generation is read), no byte is lost
\* either: what has been billed since is what the counters advanced up to the
\* last billed sample.  Losing an answer or the node's own memory, or failing
\* to write the journal, is no disturbance.
LastBilled ==
  CASE pending # None /\ pending.id \in booked -> pending.to
    [] pending # None /\ pending.id \notin booked -> pending.from
    [] pending = None -> acknowledged.counters
BilledExactly ==
  steady => \A u \in Users : billed[u] - paid[u] = Get(LastBilled, u) - Get(base, u)

\* A retained sample is given up only after the panel has settled it, so a
\* late or repeated request cannot make its bytes vanish.
SettledFirst ==
  [][pending # None /\ pending' # pending => pending.id \in Settled]_vars

\* The promise of the service: see AccountingLedger.
OnOffer == IF pending # None /\ pending.id \notin Settled THEN Rows(pending) ELSE None
Ledger == INSTANCE AccountingLedger WITH offer <- OnOffer, NoOffer <- None
ImplementsLedger == Ledger!Spec
=============================================================================
