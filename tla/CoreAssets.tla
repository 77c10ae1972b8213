----------------------------- MODULE CoreAssets ------------------------------
(***************************************************************************)
(* The part of Start (internal/xray/manager.go) that prepares files: first *)
(* the core, then the geodata, with one context, before the core is run.   *)
(* Starts are one at a time (XrayManager).  The node may die at any step;  *)
(* only files survive.                                                     *)
(***************************************************************************)
EXTENDS CoreLoader, GeodataLoader

CONSTANT MaxStarts   \* bound: starts

ASSUME StartsAssumption == MaxStarts \in Nat

VARIABLE starts

vars == <<coreVars, geodataVars, starts>>

Init == CoreInit /\ GeodataInit /\ starts = 0

Start ==
  /\ starts < MaxStarts /\ starts' = starts + 1 /\ phase = "idle"
  /\ \E spec \in Specs \cup {Absent, Invalid} : Prepare(spec)
  /\ UNCHANGED geodataVars

\* The start ends, and all that it kept in memory.
Rest ==
  /\ prep' = IdlePrep /\ phase' = "idle" /\ cancelled' = FALSE /\ list' = <<>> /\ groups' = {}
  /\ worker' = [w \in Workers |-> NoWorker] /\ outcome' = <<>>
  /\ UNCHANGED <<link, stock, custom, staged, marker, clock, files, starts>>

\* An error of the core loader is the answer of the start.
Refused ==
  /\ prep.pc = "ended" /\ prep.result = "error" /\ Rest
  /\ UNCHANGED mishaps

Geodata ==
  /\ prep.pc = "ended" /\ prep.result # "error" /\ PrepareGeodata
  /\ prep' = [IdlePrep EXCEPT !.pc = "geodata"]
  /\ UNCHANGED <<link, stock, custom, staged, marker, clock, mishaps, starts>>

Finish ==
  /\ phase = "ended" /\ Rest
  /\ UNCHANGED mishaps

CancelStart ==
  /\ prep.pc # "idle" /\ Cancel
  /\ UNCHANGED <<coreVars, starts>>

NodeDies == prep.pc # "idle" /\ Mishap /\ Rest

Work ==
  \/ CoreStep /\ UNCHANGED <<geodataVars, starts>>
  \/ phase \in {"offer", "wait"} /\ GeodataStep /\ UNCHANGED <<coreVars, starts>>
  \/ Refused \/ Geodata \/ Finish

Next == Start \/ Work \/ CancelStart \/ NodeDies

Spec == Init /\ [][Next]_vars

\* The goroutine of the start and each of the pool are scheduled, and every
\* download ends within its timeouts.
StartStep ==
  \/ CoreStep /\ UNCHANGED <<geodataVars, starts>>
  \/ (CloseJobs \/ WaitWorkers) /\ UNCHANGED <<coreVars, starts>>
  \/ Refused \/ Geodata \/ Finish

FairSpec ==
  /\ Spec
  /\ WF_vars(StartStep)
  /\ \A w \in Workers : WF_vars(WorkerStep(w) /\ UNCHANGED <<coreVars, starts>>)

-----------------------------------------------------------------------------
\* The type invariant.
TypeOK == CoreTypeOK /\ GeodataTypeOK /\ starts \in 0..MaxStarts

\* Every start gets through the files, however the request is cancelled: no
\* worker waits for a group, and the producer for no worker, for ever.
StartEnds == prep.pc # "idle" ~> prep.pc = "idle"
=============================================================================
