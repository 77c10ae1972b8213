------------------------------ MODULE SniProbe -------------------------------
(***************************************************************************)
(* internal/snihealth/probe.go and xray_ping.go: how what was observed of  *)
(* one Reality destination becomes a verdict.  Every check has a status;   *)
(* the verdict weighs them so that a tool missing on the node is not held  *)
(* against the destination.                                                *)
(*                                                                         *)
(* An observation holds what the adapters answered.  The TLS probe of the  *)
(* node speaks TLS 1.3 only and verifies the chain, the dates and the name *)
(* in the handshake, so that one outcome stands for four of the checks;    *)
(* it offers "h2" and "http/1.1" alone, so that the check of the ALPN      *)
(* passes always.                                                          *)
(***************************************************************************)
EXTENDS Integers, Sequences, SequencesExt, FiniteSets, FiniteSetsExt

CONSTANTS
  AddressLimit,     \* addresses inspected
  LatencyWarning, JitterWarning,
  Millis,           \* the latencies observed
  MaxFound          \* bound: addresses resolved

ASSUME ProbeAssumption ==
  /\ AddressLimit \in Nat \ {0} /\ MaxFound \in Nat
  /\ LatencyWarning \in Nat /\ JitterWarning \in Nat /\ Millis \subseteq Nat

Verdicts == {"usable", "warning", "unusable", "unverified"}

Samples == 3   \* TLS handshakes timed: the first and two more

\* What one address answers.  xray: the command shook hands, reported that it
\* did not, or failed itself (missing, killed, timed out).
Private == [public |-> FALSE, tcp |-> FALSE, xray |-> "error", key |-> "none", tls |-> FALSE]
Closed  == [Private EXCEPT !.public = TRUE]
AddressOutcomes ==
  {Private, Closed}
    \cup [public : {TRUE}, tcp : {TRUE}, xray : {"ok", "refused", "error"},
          key : {"x25519", "rsa", "none"}, tls : BOOLEAN]

\* ms: the latency of the handshake with the address chosen, then of those
\* repeated that succeed.
Founds ==
  LET omitted == [i \in 1..(MaxFound - AddressLimit) |-> Closed]
  IN (UNION {[1..n -> AddressOutcomes] : n \in 0..AddressLimit})
       \cup {f \o omitted : f \in [1..AddressLimit -> AddressOutcomes]}

Observations ==
  [dns : {FALSE}, found : {<<>>}, ms : {<<>>}]
    \cup [dns : {TRUE}, found : Founds, ms : UNION {[1..n -> Millis] : n \in 1..Samples}]

-----------------------------------------------------------------------------
(* The checks. *)

Pass(ok) == IF ok THEN "pass" ELSE "fail"

\* probeAddress: a private address is not dialled, a closed one not probed.
Reached(a) == a.public /\ a.tcp
AddressPasses(a) == Reached(a) /\ a.xray = "ok" /\ a.tls

Inspected(o) == SubSeq(o.found, 1, IF Len(o.found) > AddressLimit THEN AddressLimit ELSE Len(o.found))

\* The address whose evidence the security checks use: the first that passes,
\* else the first that was reached.
NoEvidence == [Closed EXCEPT !.xray = "refused"]
Chosen(seen) ==
  LET passing == {i \in DOMAIN seen : AddressPasses(seen[i])}
      reached == {i \in DOMAIN seen : Reached(seen[i])}
  IN IF passing # {} THEN seen[Min(passing)] ELSE IF reached # {} THEN seen[Min(reached)] ELSE NoEvidence

Latencies(o) == IF \E a \in Range(Inspected(o)) : AddressPasses(a) THEN o.ms ELSE <<>>

\* The value in the middle of the sorted times.
Median(ms) ==
  LET Orders == {p \in [DOMAIN ms -> DOMAIN ms] : \A i, j \in DOMAIN ms : p[i] = p[j] => i = j}
      sorted == CHOOSE p \in Orders : \A i, j \in DOMAIN ms : i < j => ms[p[i]] <= ms[p[j]]
  IN ms[sorted[(Len(ms) \div 2) + 1]]

Spread(ms) == Max(Range(ms)) - Min(Range(ms))
Metric(ms, value, limit) ==
  IF Len(ms) < Samples THEN "fail" ELSE IF value > limit THEN "warning" ELSE "pass"

\* newCheck.
Check(id, status) == [id |-> id, status |-> status]

\* The checks of the address chosen and of the times.
XrayStatus(seen) ==
  IF \E a \in Range(seen) : Reached(a) /\ a.xray = "ok" THEN "pass"
  ELSE IF \E a \in Range(seen) : Reached(a) /\ a.xray = "error" THEN "unavailable" ELSE "fail"

KeyStatus(a) == CASE a.key = "x25519" -> "pass" [] a.key = "rsa" -> "fail" [] OTHER -> "unavailable"

SecurityChecks(a) == {Check("key-exchange", KeyStatus(a)), Check("certificate", Pass(a.tls))}

TimeChecks(ms) ==
  {Check("tls-samples", Pass(Len(ms) = Samples)),
   Check("latency", Metric(ms, IF ms = <<>> THEN 0 ELSE Median(ms), LatencyWarning)),
   Check("jitter", Metric(ms, IF ms = <<>> THEN 0 ELSE Spread(ms), JitterWarning))}

CoverageStatus(o) ==
  IF Len(o.found) > AddressLimit \/ \E a \in Range(Inspected(o)) : ~AddressPasses(a)
  THEN "warning" ELSE "pass"

\* The probe ends at the first stage that leaves nothing to inspect.
Checks(matches, o) ==
  LET seen == Inspected(o)
  IN IF ~matches THEN {Check("destination-sni-match", "fail")}
     ELSE IF ~o.dns THEN {Check("dns-resolution", "fail")}
     ELSE IF \A a \in Range(seen) : ~a.public
     THEN {Check("dns-resolution", Pass(o.found # <<>>)), Check("public-address", "fail")}
     ELSE {Check("tcp-reachability", Pass(\E a \in Range(seen) : Reached(a))),
           Check("xray-handshake", XrayStatus(seen)),
           Check("tls-version", Pass(\E a \in Range(seen) : Reached(a) /\ a.tls)),
           Check("address-coverage", CoverageStatus(o))}
            \cup SecurityChecks(Chosen(seen)) \cup TimeChecks(Latencies(o))

HasStatus(checks, status) == \E c \in checks : c.status = status

\* Seeded fault: the samples that an untried handshake leaves missing count as a
\* failure of the destination.  No specification uses it.
FaultFinish(checks) ==
  IF HasStatus(checks, "fail") THEN "unusable"
  ELSE IF HasStatus(checks, "unavailable") THEN "unverified"
  ELSE IF HasStatus(checks, "warning") THEN "warning"
  ELSE "usable"

\* finish: what follows from a handshake that could not be tried is not a
\* failure of its own.
Dependent == {"jitter", "latency", "tls-samples"}
Finish(checks) ==
  LET independent == {c \in checks : c.id \notin Dependent}
  IN IF HasStatus(checks, "unavailable") /\ ~HasStatus(independent, "fail") THEN "unverified"
     ELSE IF HasStatus(checks, "fail") THEN "unusable"
     ELSE IF HasStatus(checks, "warning") THEN "warning"
     ELSE "usable"

\* timeoutResult.
TimeoutChecks == {Check("probe-timeout", "unavailable")}

-----------------------------------------------------------------------------
(* What the verdicts promise, said of the observation as a whole. *)

\* Some address serves the name: a client would connect through it.
Serves(o) ==
  \E i \in DOMAIN Inspected(o) :
    LET a == o.found[i]
    IN /\ a.public /\ a.tcp /\ a.xray = "ok" /\ a.tls /\ a.key = "x25519"
       /\ \A j \in 1..(i - 1) : ~AddressPasses(o.found[j])
       /\ Len(o.ms) = Samples

\* Every address serves it, in time.
ServesWell(o) ==
  /\ o.dns /\ o.found # <<>> /\ Len(o.found) <= AddressLimit /\ Serves(o)
  /\ \A i \in DOMAIN o.found : AddressPasses(o.found[i])
  /\ \A i, j \in 1..Samples : i # j => o.ms[i] <= LatencyWarning \/ o.ms[j] <= LatencyWarning
  /\ \A i, j \in 1..Samples : o.ms[i] - o.ms[j] <= JitterWarning

\* Nothing is wrong but the command of the node.
NodeFault(o) ==
  /\ o.dns /\ o.found # <<>>
  /\ \A i \in DOMAIN o.found :
       LET a == o.found[i] IN a.public /\ a.tcp /\ a.tls /\ a.xray = "error" /\ a.key # "rsa"

\* The verdict of a probe, and what it rests on.
Outcomes(matches) ==
  {[verdict |-> Finish(Checks(matches, o)),
    serves |-> matches /\ Serves(o), well |-> matches /\ ServesWell(o),
    node |-> matches /\ NodeFault(o)] : o \in Observations}
=============================================================================
