------------------------------ MODULE MCProbes -------------------------------
(***************************************************************************)
(* The two probe services on a small instance.  They share no state and    *)
(* call each other nowhere, so that each is explored on its own: a         *)
(* behaviour is one of either.                                             *)
(***************************************************************************)
EXTENDS SniHealth, Backtrace

CONSTANTS tagA, tagB, n1, N1, n2, bad

VARIABLE service   \* the one explored

vars == <<sniVars, backtraceVars, service>>

\* N1 is another way to write n1; bad is no hostname.
MCNormal == [n \in {n1, N1, n2, bad} |-> CASE n = bad -> None [] n = N1 -> n1 [] OTHER -> n]

Inbound(tag, dest, names) == [tag |-> tag, dest |-> dest, names |-> names]
MCConfigs ==
  {<<>>,
   <<Inbound(tagA, n1, <<n1, N1>>), Inbound(tagB, None, <<n1>>)>>,
   <<Inbound(tagA, bad, <<bad>>), Inbound(tagB, N1, <<n2, n1>>)>>}

Init == SniInit /\ BacktraceInit /\ service \in {"sni", "backtrace"}

Next ==
  /\ UNCHANGED service
  /\ \/ service = "sni" /\ SniNext /\ UNCHANGED backtraceVars
     \/ service = "backtrace" /\ BacktraceNext /\ UNCHANGED sniVars

\* Every goroutine is scheduled, and every lookup, connection and command ends
\* within its timeout.
Spec ==
  /\ Init /\ [][Next]_vars
  /\ \A c \in Callers : WF_vars(service = "sni" /\ CallerStep(c) /\ UNCHANGED <<backtraceVars, service>>)
  /\ \A r \in Requesters :
       WF_vars(service = "backtrace" /\ RequesterStep(r) /\ UNCHANGED <<sniVars, service>>)

TypeOK == SniTypeOK /\ BacktraceTypeOK /\ service \in {"sni", "backtrace"}

\* Every request for a probe is answered: see the two modules.
EveryRunEnds == ProbesEnd /\ RunsEnd
=============================================================================
