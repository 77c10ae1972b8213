-------------------------------- MODULE Trace --------------------------------
(***************************************************************************)
(* internal/backtrace/model.go and the verdict of service.go: what one     *)
(* invocation of nexttrace-tiny says of the route to a checkpoint.  The    *)
(* dashboard keeps a successful probe for six hours, so that a route that  *)
(* stops short must not pass for a whole one.                              *)
(***************************************************************************)
EXTENDS Integers, Sequences, SequencesExt, FiniteSets, FiniteSetsExt

CONSTANTS
  Nobody,       \* no address answered
  Checkpoint,   \* the address traced
  Router,       \* an address on the way
  MaxTTL,       \* the greatest hop count
  MaxHops       \* bound: hops of a payload

ASSUME TraceAssumption ==
  /\ Nobody # Checkpoint /\ Router \notin {Nobody, Checkpoint}
  /\ MaxTTL \in Nat /\ MaxHops \in Nat

\* A payload: for each hop its attempts (hop count -1: not given), and whether
\* the tool says that it stopped at the destination.  One attempt is asked for;
\* a second is seen of the same hop count.
Attempts == [ttl : {-1} \cup 1..MaxTTL, ip : {Nobody, Checkpoint, Router}, success : BOOLEAN]
Groups == {<<>>} \cup {<<a>> : a \in Attempts}
            \cup {g \in Attempts \X Attempts : g[1].ttl = g[2].ttl}
Payloads == UNION {[1..n -> Groups] : n \in 0..MaxHops}

\* How the command ended: a command that is not installed, or whose output is
\* no JSON, has the empty payload.
Endings == {"ok", "failed", "timed out", "not installed"}

-----------------------------------------------------------------------------
(* decodeJSONPayload, sortHops.  The tool is run with at most 30 hops, so    *)
(* that the cut at 64 never applies.                                         *)

Answered(a) == a.success /\ a.ip # Nobody

FirstAnswer(group) == Min({k \in DOMAIN group : Answered(group[k])})

ChosenAttempt(group) ==
  IF \E k \in DOMAIN group : Answered(group[k]) THEN group[FirstAnswer(group)] ELSE group[1]

\* Seeded fault: the hops are kept in the order of the payload.  No specification
\* uses it.
FaultHops(payload) ==
  LET groups == SelectSeq(payload, LAMBDA g : g # <<>>)
  IN [i \in DOMAIN groups |-> ChosenAttempt(groups[i])]

\* parseAttempt: the place in the payload stands for a missing hop count.
Hop(group, index) ==
  LET a == ChosenAttempt(group) IN IF a.ttl >= 0 THEN a ELSE [a EXCEPT !.ttl = index]

\* A step of the insertion sort: a hop goes behind the last that is not after it.
Insert(sorted, h) ==
  InsertAt(sorted, Max({0} \cup {i \in DOMAIN sorted : sorted[i].ttl <= h.ttl}) + 1, h)

Hops(payload) ==
  LET Sorted[n \in 0..Len(payload)] ==
        IF n = 0 THEN <<>>
        ELSE IF payload[n] = <<>> THEN Sorted[n - 1]
        ELSE Insert(Sorted[n - 1], Hop(payload[n], n))
  IN Sorted[Len(payload)]

-----------------------------------------------------------------------------
(* The verdict of trace.  The message of a failure is left out.             *)

LastAnswer(hops) ==
  LET answered == {i \in DOMAIN hops : Answered(hops[i])}
  IN IF answered = {} THEN Nobody ELSE hops[Max(answered)].ip

Successful(ending, hops, stopped) ==
  /\ ending \notin {"not installed", "timed out"}
  /\ \E i \in DOMAIN hops : Answered(hops[i])
  /\ stopped \/ LastAnswer(hops) = Checkpoint

\* What a success promises, said of the payload: some router answered, the
\* command ran its course, and the tool reports the destination or the answer
\* of the greatest hop count is the destination's, the later of two alike.
Place(payload, i) == IF payload[i][1].ttl >= 0 THEN payload[i][1].ttl ELSE i
Answering(payload) == {i \in DOMAIN payload : \E k \in DOMAIN payload[i] : Answered(payload[i][k])}

Reaches(ending, payload, stopped) ==
  /\ ending \in {"ok", "failed"} /\ Answering(payload) # {}
  /\ stopped \/ \E i \in Answering(payload) :
       /\ payload[i][FirstAnswer(payload[i])].ip = Checkpoint
       /\ \A j \in Answering(payload) \ {i} :
            Place(payload, j) < Place(payload, i) \/ (Place(payload, j) = Place(payload, i) /\ j < i)

\* A probe of a route, and what it rests on.  A command that is not installed
\* has said nothing.
Traced(ending, payload, stopped) ==
  [success |-> Successful(ending, Hops(payload), stopped), reaches |-> Reaches(ending, payload, stopped)]

TracesOf(ending) ==
  {Traced(ending, p, FALSE) : p \in Payloads} \cup {Traced(ending, p, TRUE) : p \in Payloads}

Traces ==
  (UNION {TracesOf(e) : e \in Endings \ {"not installed"}}) \cup {Traced("not installed", <<>>, FALSE)}
=============================================================================
