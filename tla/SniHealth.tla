------------------------------ MODULE SniHealth ------------------------------
(***************************************************************************)
(* internal/snihealth/service.go and hostname.go, with the handlers of     *)
(* httpserver/sni_health.go: the panel asks for a probe of the active      *)
(* Reality destinations, or of candidates of its own, or for the status,   *)
(* which is what the last active probe stored and, when that is nothing, a *)
(* probe of its own.  The configuration and the tags of its inbounds are   *)
(* read of the manager under two locks; the destinations are probed side   *)
(* by side; a request may be abandoned, and a probe takes 45 seconds at    *)
(* most.                                                                   *)
(***************************************************************************)
EXTENDS SniProbe

CONSTANTS
  None,
  Configs,        \* running configurations: sequences of Reality inbounds
  Tags,           \* tags of inbounds
  Normal,         \* [names -> what NormalizeHostname makes of them, or None]
  Candidates,     \* hostnames of candidate targets
  Ids,            \* their correlation identities, of which
  ValidIds,       \* these have the form asked for
  MaxCandidates,  \* targets of a request
  Callers,        \* requests being served
  MaxProbes       \* bound: requests

ASSUME HealthAssumption ==
  /\ <<>> \in Configs /\ ValidIds \subseteq Ids /\ Candidates \subseteq DOMAIN Normal
  /\ MaxCandidates \in Nat /\ MaxProbes \in Nat
  /\ \A c \in Configs : \A i \in DOMAIN c :
       /\ c[i].tag \in Tags /\ c[i].dest \in (DOMAIN Normal) \cup {None}
       /\ Range(c[i].names) \subseteq DOMAIN Normal

VARIABLES
  config, tags,   \* CurrentConfig and InboundTags of the manager
  results,        \* Service.results
  served, ask,    \* the label of a caller, and its request with its locals
  probes          \* counter of the bound

sniVars == <<config, tags, results, served, ask, probes>>

NoAsk == [mode |-> "none", targets |-> <<>>, config |-> <<>>, answer |-> <<>>]

\* No core yet: the manager has an empty configuration.
SniInit ==
  /\ config = <<>> /\ tags = {} /\ results = <<>>
  /\ served = [c \in Callers |-> "idle"] /\ ask = [c \in Callers |-> NoAsk] /\ probes = 0

-----------------------------------------------------------------------------
(* ExtractRealityTargets: one target for each name of each active inbound   *)
(* whose destination can be parsed (dest # None).  The identity of a target *)
(* is its tag, name and destination, as far as they can be normalised.      *)

Canonical(name) == IF Normal[name] = None THEN name ELSE Normal[name]

Target(tag, name, dest) ==
  [tag |-> tag, sni |-> Canonical(name), host |-> Canonical(dest),
   matches |-> Normal[name] # None /\ Normal[name] = Normal[dest]]

ExtractRealityTargets(inbounds, active) ==
  LET Of(inbound) ==
        IF inbound.tag \in active /\ inbound.dest # None
        THEN [i \in DOMAIN inbound.names |-> Target(inbound.tag, inbound.names[i], inbound.dest)]
        ELSE <<>>
      AddNew(targets, t) == IF t \in Range(targets) THEN targets ELSE Append(targets, t)
  IN FoldLeft(AddNew, <<>>, FlattenSeq([i \in DOMAIN inbounds |-> Of(inbounds[i])]))

ValidCandidates(list) ==
  /\ Len(list) \in 1..MaxCandidates
  /\ \A i \in DOMAIN list : list[i].id \in ValidIds /\ Normal[list[i].host] # None

CandidateTargets(list) ==
  [i \in DOMAIN list |-> [tag |-> None, sni |-> Normal[list[i].host],
                          host |-> Normal[list[i].host], matches |-> TRUE]]

-----------------------------------------------------------------------------
(* Probe.  It ends with the verdict of what it observed, or after 45        *)
(* seconds.  When the request is abandoned, what is still to be observed    *)
(* fails, and the answer is that of such an observation or of a timeout.    *)

Timeout == [verdict |-> Finish(TimeoutChecks), serves |-> FALSE, well |-> FALSE, node |-> FALSE]

ProbeOutcomes == [b \in BOOLEAN |-> Outcomes(b) \cup {Timeout}]

\* BuildProbeResponse and Status: what is made of the results together.
Aggregate(rs) ==
  LET found == {rs[i].verdict : i \in DOMAIN rs}
  IN IF "unusable" \in found THEN "unusable"
     ELSE IF "unverified" \in found THEN "unverified"
     ELSE IF "warning" \in found THEN "warning"
     ELSE IF "usable" \in found THEN "usable" ELSE "unverified"

Unhealthy(rs) == {i \in DOMAIN rs : rs[i].verdict # "usable"}

-----------------------------------------------------------------------------
(* The handlers. *)

GotoC(c, label) == served' = [served EXCEPT ![c] = label]
Remember(c, a) == ask' = [ask EXCEPT ![c] = a]

\* handleGetSNIHealthStatus, handleProbeSNIHealth.
CandidateLists ==
  UNION {[1..n -> [id : Ids, host : Candidates]] : n \in 0..(MaxCandidates + 1)}

AskStatus(c) ==
  IF results # <<>> THEN UNCHANGED <<served, ask>>
  ELSE Remember(c, [NoAsk EXCEPT !.mode = "status"]) /\ GotoC(c, "config")

AskActive(c) == Remember(c, [NoAsk EXCEPT !.mode = "active"]) /\ GotoC(c, "config")

AskCandidates(c) ==
  \E list \in CandidateLists :
    IF ValidCandidates(list)
    THEN /\ Remember(c, [NoAsk EXCEPT !.mode = "candidates", !.targets = CandidateTargets(list)])
         /\ GotoC(c, "probing")
    ELSE UNCHANGED <<served, ask>>

Ask(c) ==
  /\ served[c] = "idle" /\ probes < MaxProbes /\ probes' = probes + 1
  /\ AskStatus(c) \/ AskActive(c) \/ AskCandidates(c)
  /\ UNCHANGED <<config, tags, results>>

\* RunActive takes the configuration, then the tags.
ReadConfig(c) ==
  /\ served[c] = "config" /\ GotoC(c, "tags")
  /\ Remember(c, [ask[c] EXCEPT !.config = config])
  /\ UNCHANGED <<config, tags, results, probes>>

ReadTags(c) ==
  /\ served[c] = "tags" /\ GotoC(c, "probing")
  /\ Remember(c, [ask[c] EXCEPT !.config = <<>>,
                                !.targets = ExtractRealityTargets(ask[c].config, tags)])
  /\ UNCHANGED <<config, tags, results, probes>>

\* probeTargets: each goroutine fills a place of its own.
Probed(c) ==
  /\ served[c] = "probing" /\ GotoC(c, "answer")
  /\ LET targets == ask[c].targets
         Found == UNION {ProbeOutcomes[b] : b \in BOOLEAN}
     IN \E rs \in [DOMAIN targets -> Found] :
          /\ \A i \in DOMAIN targets : rs[i] \in ProbeOutcomes[targets[i].matches]
          /\ Remember(c, [ask[c] EXCEPT !.targets = <<>>, !.answer = rs])
  /\ UNCHANGED <<config, tags, results, probes>>

\* What an active probe found is stored; that of candidates is not.
Answer(c) ==
  /\ served[c] = "answer" /\ GotoC(c, "idle") /\ Remember(c, NoAsk)
  /\ results' = IF ask[c].mode = "candidates" THEN results ELSE ask[c].answer
  /\ UNCHANGED <<config, tags, probes>>

\* The manager starts or stops a core, or users appear in an inbound: the two
\* are not written in one critical section.
Reconfigure ==
  /\ \/ config' \in Configs /\ UNCHANGED tags
     \/ tags' \in SUBSET Tags /\ UNCHANGED config
  /\ UNCHANGED <<results, served, ask, probes>>

CallerStep(c) == ReadConfig(c) \/ ReadTags(c) \/ Probed(c) \/ Answer(c)
SniNext == Reconfigure \/ \E c \in Callers : Ask(c) \/ CallerStep(c)

-----------------------------------------------------------------------------
(* Properties. *)

RangeOf(rs) == {rs[i] : i \in DOMAIN rs}
Shown == RangeOf(results) \cup UNION {RangeOf(ask[c].answer) : c \in Callers}

SniTypeOK ==
  /\ config \in Configs /\ tags \subseteq Tags /\ probes \in 0..MaxProbes
  /\ served \in [Callers -> {"idle", "config", "tags", "probing", "answer"}]
  /\ \A r \in Shown : r.verdict \in Verdicts
  /\ \A c \in Callers : served[c] = "idle" => ask[c] = NoAsk

\* A verdict is what the destination earned, however many addresses it has and
\* in whatever order they came: "usable" or "warning" when a client would get
\* through, "usable" when every address serves in time, and never "unusable"
\* when only the node's own command failed.  The answer as a whole is no
\* better than its worst part, and "usable" when there is no unhealthy one.
VerdictIsEarned ==
  /\ \A r \in Shown :
       /\ (r.verdict = "usable") = r.well
       /\ (r.verdict \in {"usable", "warning"}) = r.serves
       /\ r.node => r.verdict = "unverified"
  /\ \A rs \in {results} \cup {ask[c].answer : c \in Callers} :
       Aggregate(rs) = "usable" <=> rs # <<>> /\ Unhealthy(rs) = {}

\* Every request for a probe is answered.
ProbesEnd == \A c \in Callers : served[c] # "idle" ~> served[c] = "idle"
=============================================================================
