----------------------------- MODULE Backtrace ------------------------------
(***************************************************************************)
(* internal/backtrace/service.go and httpserver/backtrace.go: the          *)
(* dashboard asks for the routes to up to three checkpoints.  One request  *)
(* is traced at a time, through a channel of one place, its targets side   *)
(* by side; the others wait their turn unless their client goes away.      *)
(***************************************************************************)
EXTENDS Trace

CONSTANTS
  Nil,
  Requesters,   \* goroutines serving requests
  MaxTargets,   \* targets of a request
  MaxRuns       \* bound: requests

ASSUME BacktraceAssumption == Nil \notin Requesters /\ MaxTargets \in Nat \ {0} /\ MaxRuns \in Nat

VARIABLES
  slot,         \* Service.semaphore: the requester that holds it, or Nil
  line,         \* the senders blocked on it, in order
  stage,        \* the label of each requester
  gone,         \* the requesters whose client went away
  probe,        \* for each requester, its targets and what became of them
  runs          \* counter of the bound

backtraceVars == <<slot, line, stage, gone, probe, runs>>

BacktraceInit ==
  /\ slot = Nil /\ line = <<>> /\ gone = {} /\ runs = 0
  /\ stage = [r \in Requesters |-> "idle"] /\ probe = [r \in Requesters |-> <<>>]

\* Targets are well formed or not: the hostname rules are left out.
Requests == UNION {[1..n -> {"good", "bad"}] : n \in 0..(MaxTargets + 1)}
ValidateTargets(targets) == Len(targets) \in 1..MaxTargets /\ \A i \in DOMAIN targets : targets[i] = "good"

Nothing == [success |-> FALSE, reaches |-> FALSE]
Begun == [at |-> "resolving", public |-> FALSE, result |-> Nothing]

StageOf(r, label) == stage' = [stage EXCEPT ![r] = label]

\* Run: a request that is not valid is refused at once.
Run(r) ==
  /\ stage[r] = "idle" /\ runs < MaxRuns /\ runs' = runs + 1
  /\ \E targets \in Requests :
       IF ValidateTargets(targets)
       THEN /\ StageOf(r, "waiting") /\ line' = Append(line, r)
            /\ probe' = [probe EXCEPT ![r] = [i \in DOMAIN targets |-> Begun]]
       ELSE UNCHANGED <<stage, line, probe>>
  /\ UNCHANGED <<slot, gone>>

\* Seeded fault: a second sender does not block, as if the channel had more
\* than one place.  No specification uses it.
FaultEnter(r) ==
  /\ stage[r] = "waiting" /\ line[1] = r
  /\ slot' = r /\ line' = Tail(line) /\ StageOf(r, "tracing")
  /\ UNCHANGED <<gone, probe, runs>>

\* The select: the place in the channel, or the end of the request.
Enter(r) ==
  /\ stage[r] = "waiting" /\ slot = Nil /\ line[1] = r
  /\ slot' = r /\ line' = Tail(line) /\ StageOf(r, "tracing")
  /\ UNCHANGED <<gone, probe, runs>>

Leave(r) ==
  /\ stage[r] = "waiting" /\ r \in gone
  /\ \E i \in DOMAIN line : line[i] = r /\ line' = RemoveAt(line, i)
  /\ StageOf(r, "idle")
  /\ gone' = gone \ {r} /\ probe' = [probe EXCEPT ![r] = <<>>]
  /\ UNCHANGED <<slot, runs>>

-----------------------------------------------------------------------------
(* trace, one target. *)

\* resolveCheckpoint: every address has to be public, and one an IPv4.  An
\* error of the resolver is an answer without addresses.
Lookups == UNION {[1..n -> {"v4", "v6", "private"}] : n \in 0..2}
Resolves(addresses) ==
  /\ \A i \in DOMAIN addresses : addresses[i] # "private"
  /\ \E i \in DOMAIN addresses : addresses[i] = "v4"

SetProbe(r, i, p) == probe' = [probe EXCEPT ![r] = [probe[r] EXCEPT ![i] = p]]

Resolve(r, i) ==
  /\ stage[r] = "tracing" /\ probe[r][i].at = "resolving"
  /\ \E addresses \in Lookups :
       SetProbe(r, i, [Begun EXCEPT !.at = IF Resolves(addresses) THEN "running" ELSE "done",
                                    !.public = addresses # <<>> /\ "private" \notin Range(addresses)])
  /\ UNCHANGED <<slot, line, stage, gone, runs>>

\* The two commands have ended, each within its 90 seconds or with the
\* request: of the one for people, only the text is kept.
Judge(r, i) ==
  /\ stage[r] = "tracing" /\ probe[r][i].at = "running"
  /\ \E t \in Traces : SetProbe(r, i, [probe[r][i] EXCEPT !.at = "done", !.result = t])
  /\ UNCHANGED <<slot, line, stage, gone, runs>>

\* Seeded fault: an answer to a client that went away does not give the place
\* back.  No specification uses it.
FaultReply(r) ==
  /\ stage[r] = "tracing" /\ \A i \in DOMAIN probe[r] : probe[r][i].at = "done"
  /\ slot' = IF r \in gone THEN slot ELSE Nil
  /\ StageOf(r, "idle")
  /\ gone' = gone \ {r} /\ probe' = [probe EXCEPT ![r] = <<>>]
  /\ UNCHANGED <<line, runs>>

\* The last target is done: the place is given back and the handler answers.
Reply(r) ==
  /\ stage[r] = "tracing" /\ \A i \in DOMAIN probe[r] : probe[r][i].at = "done"
  /\ slot' = Nil /\ StageOf(r, "idle")
  /\ gone' = gone \ {r} /\ probe' = [probe EXCEPT ![r] = <<>>]
  /\ UNCHANGED <<line, runs>>

GoAway(r) ==
  /\ stage[r] # "idle" /\ r \notin gone /\ gone' = gone \cup {r}
  /\ UNCHANGED <<slot, line, stage, probe, runs>>

TargetStep(r) == \E i \in DOMAIN probe[r] : Resolve(r, i) \/ Judge(r, i)
RequesterStep(r) == Enter(r) \/ Leave(r) \/ TargetStep(r) \/ Reply(r)
BacktraceNext == \E r \in Requesters : Run(r) \/ RequesterStep(r) \/ GoAway(r)

-----------------------------------------------------------------------------
(* Properties. *)

BacktraceTypeOK ==
  /\ stage \in [Requesters -> {"idle", "waiting", "tracing"}] /\ gone \subseteq Requesters
  /\ \A r \in Requesters : (slot = r) = (stage[r] = "tracing")
  /\ Range(line) = {r \in Requesters : stage[r] = "waiting"} /\ Len(line) = Cardinality(Range(line))
  /\ runs \in 0..MaxRuns

\* A probe is a success when, and only when, it traced an address that the
\* resolver gave among public ones alone, and the route reaches it.
SuccessIsEarned ==
  \A r \in Requesters : \A i \in DOMAIN probe[r] :
    LET p == probe[r][i]
    IN p.at = "done" => p.result.success = (p.public /\ p.result.reaches)

\* Every request is answered, though one that waits may hold up no other.
RunsEnd == \A r \in Requesters : stage[r] # "idle" ~> stage[r] = "idle"
=============================================================================
