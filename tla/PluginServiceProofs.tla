------------------------- MODULE PluginServiceProofs -------------------------
(***************************************************************************)
(* PluginService keeps its properties: IInv is inductive, for any          *)
(* payloads, lists, clients, webhooks, calls, starts and failing scripts.  *)
(*                                                                         *)
(* The argument: a call that runs alone finds the state as it has read or  *)
(* left it (StateInv), so what it rebuilds is what its plugin requires     *)
(* (BuiltInv), and its choice of a restart is right (WiredInv); a call     *)
(* that overlaps another says so when it ends; and a webhook that has      *)
(* passed a check can count on it until the state is replaced, which marks *)
(* it (HookInv).                                                           *)
(***************************************************************************)
EXTENDS PluginService, WellFoundedInduction, TLAPS
-----------------------------------------------------------------------------
(* The invariant: types. *)

\* A payload that is no object settles nothing.
Settling == Plugins \ {Malformed}
TagLists == {TorrentSettings(c).tags : c \in Settling} \cup {<<>>}
IgnoreSets == {TorrentSettings(c).ignored : c \in Settling} \cup {{}}
TorrentRecord == [enabled : BOOLEAN, tags : TagLists, ignored : IgnoreSets]
UserSets == {IgnoredUsers[c] : c \in Settling} \cup {{}}
StateRecord == [plugin : Settling \cup {None}, torrent : TorrentRecord, users : UserSets]
WiringRecord == [enabled : BOOLEAN, tags : TagLists, outbound : BOOLEAN, late : BOOLEAN]
TablesRecord ==
  [torrent : SUBSET Addrs, ingress : SUBSET Addrs, egress : SUBSET Addrs,
   ports : SUBSET Ports, ports6 : SUBSET Ports]
ReportRecord == [ip : Addrs, blocked : BOOLEAN, crossed : BOOLEAN]
CallRecord ==
  [op : {"none", "sync", "stop", "recreate", "collect", "block", "unblock", "hook"},
   plugin : Plugins \cup {None}, ips : Seq(Addrs \cup {Junk}), user : {h.user : h \in Hooks} \cup {None},
   was : TorrentRecord, now : TorrentRecord, changed : BOOLEAN, restart : {"keep", "remove", "stop"},
   todo : SUBSET Nat, blocked : BOOLEAN, ok : BOOLEAN,
   alone : BOOLEAN, failed : BOOLEAN, built : BOOLEAN, crossed : BOOLEAN]

Accepted == {"was", "wasTags", "update", "now", "nowTags", "tables", "filters", "restart"}
Syncing  == Accepted \cup {"clear", "unchanged", "active", "ifOnline"}
Hooking  == {"enabled", "ignoredIp", "ignoredUser", "block", "report"}
Labels   == Syncing \cup Hooking \cup {"idle", "reset", "flush", "halt", "recreate", "collect", "unblock"}

StateTypes ==
  /\ available \in BOOLEAN /\ state \in StateRecord
  /\ state.plugin = None => state.torrent.enabled = FALSE
  /\ tables \in TablesRecord /\ excused \subseteq tables.torrent
  /\ ~available => tables = EmptyTables
  /\ reports \in Seq(ReportRecord) /\ \A r \in Range(reports) : r.blocked => available
CoreTypes ==
  /\ core \in {"off", "on"} /\ online \in BOOLEAN /\ (online => core = "on")
  /\ wiring \in WiringRecord /\ opts \in WiringRecord
  /\ startPc \in {"idle", "tags", "prepare", "wait"} /\ (startPc = "wait" => core = "on")
CallTypes == pc \in [Clients -> Labels] /\ call \in [Clients -> CallRecord]
GhostTypes ==
  /\ calls \in 0..MaxCalls /\ starts \in 0..MaxStarts /\ failures \in 0..MaxFailures
  /\ trust \in {"exact", "wiped", "unknown"} /\ mixed \in BOOLEAN
  /\ acked \in [known : BOOLEAN, plugin : Plugins \cup {None}]

-----------------------------------------------------------------------------
(* What a client holds at each label. *)

\* The call behind the label.
LabelInv(p) ==
  LET c == call[p] IN
  /\ (pc[p] = "idle") = (c = NoCall) /\ (pc[p] = "idle") = (c.op = "none")
  /\ pc[p] \in Syncing => c.op = "sync"
  /\ pc[p] \in {"reset", "flush", "halt"} => c.op \in {"sync", "stop"}
  /\ pc[p] \in {"recreate", "collect", "unblock"} => c.op = pc[p]
  /\ pc[p] \in Hooking => c.op = "hook" \/ (pc[p] = "block" /\ c.op = "block")
  /\ c.op = "hook" => pc[p] \in Hooking /\ c.ips # <<>> /\ Head(c.ips) \in Addrs
  /\ c.op = "hook" /\ pc[p] = "block" => available
  /\ ~Writing(p) => c.alone
  /\ pc[p] = "clear" => c.plugin = None
  /\ pc[p] \in {"unchanged", "active"} \cup Accepted => c.plugin # None
  /\ pc[p] \in Accepted => ValidatePluginConfig(c.plugin)
  /\ pc[p] \in {"reset", "flush"} /\ c.op = "sync" /\ c.ok => c.plugin = None
  /\ c.op = "sync" /\ c.ok => pc[p] \in {"reset", "flush", "ifOnline", "halt"}
  /\ c.changed => pc[p] \in {"now", "nowTags"}
  /\ pc[p] \in {"tables", "filters", "flush"} \/ c.built \/ c.blocked => available
  /\ c.built => c.op \in {"sync", "stop"} /\ pc[p] \in {"filters", "restart", "ifOnline", "halt"}
  /\ pc[p] = "filters" => c.built /\ c.todo \subseteq DOMAIN FilterScripts(c.plugin)

\* A call that runs alone finds the state as it has read or left it.
StateInv(p) ==
  LET c == call[p] IN
  c.alone =>
    /\ pc[p] \in {"active", "now", "nowTags", "tables", "filters", "restart"} => SameHash(c.plugin)
    /\ c.changed \/ pc[p] \in {"tables", "filters"} => state.plugin = c.plugin
    /\ pc[p] = "flush" => state.plugin = None
    /\ pc[p] \in {"ifOnline", "halt"} /\ c.op = "sync" =>
         IF c.ok /\ c.plugin # None THEN SameHash(c.plugin) ELSE state.plugin = None
    /\ pc[p] \in {"wasTags", "update"} => c.was.enabled = state.torrent.enabled
    /\ pc[p] = "update" => c.was.tags = state.torrent.tags
    /\ pc[p] = "nowTags" => c.now.enabled = state.torrent.enabled
    /\ pc[p] \in {"tables", "filters", "restart"} /\ c.restart = "remove" => ~state.torrent.enabled

\* What a webhook has checked still holds, unless the state was replaced.
HookInv(p) ==
  LET c == call[p] IN
  c.op = "hook" /\ ~c.crossed =>
    /\ pc[p] # "enabled" => state.torrent.enabled
    /\ pc[p] \in {"ignoredUser", "block"} => Head(c.ips) \notin AlwaysIgnored \cup state.torrent.ignored

\* The sets that a lone call without a failure has rebuilt, so far.
FiltersExact ==
  \A f \in Filters :
    tables[f] = IF state.plugin = None THEN {}
                ELSE UNION {s.elements : s \in {t \in Range(FilterScripts(state.plugin)) : t.set = f}}
Progress(p) ==
  LET scripts == FilterScripts(call[p].plugin) IN
  \A f \in Filters :
    tables[f] = UNION {scripts[i].elements :
                         i \in {j \in DOMAIN scripts \ call[p].todo : scripts[j].set = f}}
BuiltInv(p) ==
  call[p].alone /\ call[p].built /\ ~call[p].failed =>
    IgnoredIsNotBlocked /\ (IF pc[p] = "filters" THEN Progress(p) ELSE FiltersExact)

Own(p) == LabelInv(p) /\ StateInv(p) /\ HookInv(p) /\ BuiltInv(p)

-----------------------------------------------------------------------------
(* What all share. *)

AloneInv == \A p, q \in Clients : p # q /\ Writing(p) /\ call[p].alone => ~Writing(q)

\* A call that has replaced the state or rebuilt the sets, and has not ended.
Disturbs(p) == available /\ (call[p].changed \/ call[p].built \/ pc[p] \in {"tables", "flush"})
TablesInv ==
  trust # "unknown" /\ (\A p \in Clients : ~Disturbs(p)) =>
    (available => FiltersFollow) /\ IgnoredIsNotBlocked

AckedInv ==
  acked.known =>
    /\ Quiet
    /\ IF acked.plugin = None THEN state.plugin = None ELSE SameHash(acked.plugin)

\* A start has read the options of the state in force, or knows it has not.
OptsInv ==
  ~opts.late =>
    /\ startPc \in {"tags", "prepare"} =>
         opts.enabled = state.torrent.enabled /\ opts.outbound = state.torrent.enabled
    /\ startPc = "prepare" => opts.tags = state.torrent.tags

\* A core is wired for the settings in force, or a lone call will see to it.
WiredFor(torrent) ==
  torrent.enabled => wiring.enabled /\ wiring.outbound /\ Range(wiring.tags) = Range(torrent.tags)
Pending(p) ==
  \/ pc[p] \in {"ifOnline", "halt"}
  \/ pc[p] \in {"tables", "filters", "restart"} /\ call[p].restart = "stop"
  \/ pc[p] \in {"now", "nowTags"} /\ WiredFor(call[p].was)
WiredInv ==
  core = "on" /\ ~wiring.late /\ ~mixed /\ (\A p \in Clients : call[p].alone) =>
    WiredFor(state.torrent) \/ \E p \in Clients : Pending(p)

IInv ==
  /\ StateTypes /\ CoreTypes /\ CallTypes /\ GhostTypes
  /\ \A p \in Clients : Own(p)
  /\ AloneInv /\ TablesInv /\ AckedInv /\ ReportsBelong /\ OptsInv /\ WiredInv
-----------------------------------------------------------------------------
(* Facts that every action needs. *)

\* A client that a step does not concern keeps what it holds.
LEMMA OwnKept ==
  ASSUME NEW q \in Clients, Own(q), pc'[q] = pc[q], call'[q] = call[q],
         UNCHANGED <<available, state>>,
         \A f \in Filters : tables'[f] = tables[f], IgnoredIsNotBlocked => IgnoredIsNotBlocked'
  PROVE  Own(q)'
<1>1. LabelInv(q)'
  BY DEF Own, LabelInv, Writing
<1>2. StateInv(q)' /\ HookInv(q)'
  BY DEF Own, StateInv, HookInv, SameHash
<1>3. BuiltInv(q)'
  <2>1. FiltersExact => FiltersExact'
    BY DEF FiltersExact
  <2>2. Progress(q) => Progress(q)'
    BY DEF Progress
  <2> QED
    BY <2>1, <2>2 DEF Own, BuiltInv
<1> QED
  BY <1>1, <1>2, <1>3 DEF Own

\* A call that rewrites the state or the sets: the others do not run alone, and
\* webhooks in flight are marked.
LEMMA OwnOfOther ==
  ASSUME NEW q \in Clients, Own(q), call[q] \in CallRecord,
         Writing(q) => ~call[q].alone,
         available' = available, pc'[q] = pc[q],
         \/ call'[q] = call[q] /\ state' = state
         \/ call'[q] = IF call[q].op = "hook" /\ pc[q] # "enabled"
                         THEN [call[q] EXCEPT !.crossed = TRUE] ELSE call[q]
  PROVE  Own(q)'
<1>1. /\ call'[q].op = call[q].op /\ call'[q].alone = call[q].alone
      /\ call'[q].plugin = call[q].plugin /\ call'[q].ips = call[q].ips /\ call'[q].ok = call[q].ok
      /\ call'[q].changed = call[q].changed /\ call'[q].built = call[q].built
      /\ call'[q].blocked = call[q].blocked /\ call'[q].todo = call[q].todo
      /\ call'[q].restart = call[q].restart
      /\ call'[q] = NoCall <=> call[q] = NoCall
  BY DEF Own, LabelInv, CallRecord, NoCall
<1>2. LabelInv(q)'
  BY <1>1 DEF Own, LabelInv, Writing
<1>3. HookInv(q)'
  BY <1>1 DEF Own, HookInv, LabelInv, CallRecord
<1>4. CASE Writing(q)
  BY <1>1, <1>2, <1>3, <1>4 DEF Own, StateInv, BuiltInv, Writing
<1>5. CASE ~Writing(q)
  <2>1. /\ pc[q] \notin {"reset", "flush", "halt", "recreate"} \cup Syncing
        /\ ~call[q].changed
    BY <1>5 DEF Own, LabelInv, Writing, Writers, Accepted, Syncing
  <2>2. StateInv(q)'
    BY <1>1, <2>1 DEF StateInv, Accepted, Syncing
  <2>3. BuiltInv(q)'
    BY <1>1, <1>5 DEF Own, LabelInv, BuiltInv, Writing, Writers
  <2> QED
    BY <1>2, <1>3, <2>2, <2>3 DEF Own
<1> QED
  BY <1>4, <1>5

\* No call is a call.
LEMMA NoCallType == NoCall \in CallRecord /\ NoCall.op = "none" /\ ~NoCall.built /\ ~NoCall.changed /\ NoCall.alone
<1>1. NoTorrent \in TorrentRecord
  BY DEF NoTorrent, TorrentRecord, TagLists, IgnoreSets
<1>2. <<>> \in Seq(Addrs \cup {Junk})
  OBVIOUS
<1> QED
  BY <1>1, <1>2 DEF NoCall, CallRecord

\* One client moves: it has a new label and new locals, or it has ended.
LEMMA OneMoves ==
  ASSUME CallTypes, AloneInv, NEW p \in Clients, NEW label \in Labels, NEW c \in CallRecord,
         Goto(p, label), Note(p, c),
         c.op = "none" \/ (c.op = call[p].op /\ c.alone = call[p].alone)
  PROVE  /\ CallTypes' /\ AloneInv' /\ pc'[p] = label /\ call'[p] = c
         /\ \A q \in Clients \ {p} : pc'[q] = pc[q] /\ call'[q] = call[q]
         /\ \A q \in Clients : Writing(q)' => Writing(q) /\ call'[q].alone = call[q].alone
<1>1. /\ CallTypes' /\ pc'[p] = label /\ call'[p] = c
      /\ \A q \in Clients \ {p} : pc'[q] = pc[q] /\ call'[q] = call[q]
  BY DEF CallTypes, Goto, Note
<1>2. \A q \in Clients : Writing(q)' => Writing(q) /\ call'[q].alone = call[q].alone
  <2> SUFFICES ASSUME NEW q \in Clients, Writing(q)'  PROVE Writing(q) /\ call'[q].alone = call[q].alone
    OBVIOUS
  <2>1. CASE q = p
    BY <2>1, <1>1 DEF Writing, Writers
  <2>2. CASE q # p
    BY <2>2, <1>1 DEF Writing, Writers
  <2> QED
    BY <2>1, <2>2
<1>3. AloneInv'
  BY <1>2 DEF AloneInv
<1> QED
  BY <1>1, <1>2, <1>3

\* The sets of a client that goes on, and of one that ends.
LEMMA TablesKept ==
  ASSUME TablesInv, UNCHANGED <<available, state>>, trust' = trust,
         \A f \in Filters : tables'[f] = tables[f], IgnoredIsNotBlocked => IgnoredIsNotBlocked',
         \A q \in Clients : Disturbs(q) => Disturbs(q)'
  PROVE  TablesInv'
<1>1. FiltersFollow => FiltersFollow'
  BY DEF FiltersFollow
<1> QED
  BY <1>1 DEF TablesInv

\* A client that ends leaves the sets as the plugin in force requires, or says
\* that it does not.
LEMMA TablesEnd ==
  ASSUME TablesInv, NEW p \in Clients, NEW ok, Answer(p, ok), Own(p),
         UNCHANGED <<available, state>>,
         pc[p] \notin {"tables", "flush", "filters"}, ~call[p].changed,
         \A f \in Filters : tables'[f] = tables[f], IgnoredIsNotBlocked => IgnoredIsNotBlocked',
         \A q \in Clients \ {p} : pc'[q] = pc[q] /\ call'[q] = call[q]
  PROVE  TablesInv'
<1>1. CASE ~call[p].built
  <2>1. trust' = trust
    BY <1>1 DEF Answer, Finish
  <2>2. ASSUME NEW q \in Clients, Disturbs(q)  PROVE Disturbs(q)'
    <3>1. q # p
      BY <2>2, <1>1 DEF Disturbs
    <3> QED
      BY <2>2, <3>1 DEF Disturbs
  <2> QED
    BY <2>1, <2>2, TablesKept
<1>2. CASE call[p].built /\ (~call[p].alone \/ call[p].failed)
  <2>1. trust' = "unknown"
    BY <1>2 DEF Answer, Finish
  <2> QED
    BY <2>1 DEF TablesInv
<1>3. CASE call[p].built /\ call[p].alone /\ ~call[p].failed
  <2>1. trust' = "exact"
    BY <1>3 DEF Answer, Finish, Own, LabelInv
  <2>2. IgnoredIsNotBlocked /\ FiltersExact
    BY <1>3 DEF Own, BuiltInv
  <2>3. FiltersFollow'
    BY <2>1, <2>2 DEF FiltersExact, FiltersFollow
  <2> QED
    BY <2>2, <2>3 DEF TablesInv
<1> QED
  BY <1>1, <1>2, <1>3

\* The last answer of a lone sync, when a client goes on and when one ends.
LEMMA AckedKept ==
  ASSUME AckedInv, acked' = acked, state' = state, \A q \in Clients : Writing(q)' => Writing(q)
  PROVE  AckedInv'
BY DEF AckedInv, Quiet, SameHash

\* What a lone sync may answer.
TrueAnswer(p, ok) ==
  call[p].op = "sync" /\ call[p].alone =>
    IF ok /\ call[p].plugin # None THEN SameHash(call[p].plugin) ELSE state.plugin = None

\* The answer of a lone sync is that of the state.
LEMMA AckedEnd ==
  ASSUME AckedInv, AloneInv, CallTypes, NEW p \in Clients, NEW c, NEW ok \in BOOLEAN, Finish(p, c, ok),
         c.op = call[p].op, c.alone = call[p].alone, c.plugin = call[p].plugin,
         state' = state, TrueAnswer(p, ok), acked.plugin \in Plugins \cup {None},
         \A q \in Clients : Writing(q)' => Writing(q), call'[p] = NoCall,
         acked \in [known : BOOLEAN, plugin : Plugins \cup {None}]
  PROVE  AckedInv' /\ acked' \in [known : BOOLEAN, plugin : Plugins \cup {None}]
<1>0. call[p].plugin \in Plugins \cup {None}
  BY DEF CallTypes, CallRecord
<1>1. CASE ~(call[p].op = "sync" /\ call[p].alone)
  <2>1. acked' = acked
    BY <1>1 DEF Finish
  <2> QED
    BY <2>1, AckedKept
<1>2. CASE call[p].op = "sync" /\ call[p].alone
  <2>1. acked' = [known |-> TRUE, plugin |-> IF ok THEN call[p].plugin ELSE None]
    BY <1>2 DEF Finish
  <2>2. Quiet'
    <3> SUFFICES ASSUME NEW q \in Clients, Writing(q)'  PROVE FALSE
      BY DEF Quiet
    <3>1. q # p
      BY NoCallType DEF Writing, Writers
    <3> QED
      BY <1>2, <3>1 DEF AloneInv, Writing, Writers
  <2>3. IF acked'.plugin = None THEN state'.plugin = None ELSE SameHash(acked.plugin)'
    <3>1. CASE ok /\ call[p].plugin # None
      <4>1. acked'.plugin = call[p].plugin
        BY <2>1, <3>1
      <4> QED
        BY <1>2, <3>1, <4>1 DEF TrueAnswer, SameHash
    <3>2. CASE ~(ok /\ call[p].plugin # None)
      <4>1. acked'.plugin = None
        BY <2>1, <3>2
      <4> QED
        BY <1>2, <3>2, <4>1 DEF TrueAnswer
    <3> QED
      BY <3>1, <3>2
  <2> QED
    <3>1. AckedInv'
      BY <2>2, <2>3 DEF AckedInv
    <3> QED
      BY <1>0, <2>1, <3>1
<1> QED
  BY <1>1, <1>2

\* The wiring of a core that nothing touches: a client goes on, or ends.
LEMMA WiredKept ==
  ASSUME WiredInv, UNCHANGED <<core, wiring, mixed, state>>,
         \A q \in Clients : call'[q].alone => call[q].alone,
         (\A q \in Clients : call[q].alone) =>
           \A q \in Clients : Pending(q) => Pending(q)' \/ WiredFor(state.torrent)
  PROVE  WiredInv'
<1>1. WiredFor(state.torrent)' <=> WiredFor(state.torrent)
  BY DEF WiredFor
<1> QED
  BY <1>1 DEF WiredInv

\* A client that ends has seen to the core, if it ran alone.
LEMMA WiredEnd ==
  ASSUME WiredInv, NEW p \in Clients, NEW c, NEW ok, Finish(p, c, ok), UNCHANGED <<core, wiring, state>>,
         pc[p] # "halt", c.alone = call[p].alone, mixed \in BOOLEAN, c.alone \in BOOLEAN,
         \A q \in Clients \ {p} : pc'[q] = pc[q] /\ call'[q] = call[q],
         call[p].alone /\ Pending(p) => WiredFor(state.torrent)
  PROVE  WiredInv'
<1> SUFFICES ASSUME core = "on", ~wiring.late, ~mixed', \A q \in Clients : call'[q].alone
             PROVE  WiredFor(state.torrent)' \/ \E q \in Clients : Pending(q)'
  BY DEF WiredInv
<1>0. WiredFor(state.torrent)' <=> WiredFor(state.torrent)
  BY DEF WiredFor
<1>1. ~mixed /\ call[p].alone
  BY DEF Finish
<1>2. \A q \in Clients : call[q].alone
  BY <1>1
<1>3. ASSUME NEW q \in Clients, q # p, Pending(q)  PROVE Pending(q)'
  BY <1>3 DEF Pending, WiredFor
<1> QED
  BY <1>0, <1>1, <1>2, <1>3 DEF WiredInv

\* What stays as it is keeps its type, and what is known of it.
LEMMA CoreKept ==
  ASSUME CoreTypes, OptsInv, UNCHANGED <<core, online, wiring, startPc, opts, state>>
  PROVE  CoreTypes' /\ OptsInv'
BY DEF CoreTypes, OptsInv

\* The same of the state, the reports and the sets.
LEMMA StateKept ==
  ASSUME StateTypes, ReportsBelong, UNCHANGED <<available, state, reports, tables, excused>>
  PROVE  StateTypes' /\ ReportsBelong' /\ (IgnoredIsNotBlocked => IgnoredIsNotBlocked')
BY DEF StateTypes, ReportsBelong, IgnoredIsNotBlocked

\* A client goes on to another label, with other locals.
LEMMA Moves ==
  ASSUME IInv, NEW p \in Clients, NEW label \in Labels, NEW c \in CallRecord, Continue(p, label, c),
         UNCHANGED <<available, serviceVars, tables, coreVars, boundVars, excused>>,
         c.op = call[p].op, c.alone = call[p].alone,
         Disturbs(p) => Disturbs(p)',
         call[p].alone /\ Pending(p) => Pending(p)' \/ WiredFor(state.torrent),
         Own(p)'
  PROVE  IInv'
<1>0. /\ UNCHANGED <<available, state, reports, tables, core, online, wiring, startPc, opts, excused>>
      /\ UNCHANGED <<trust, acked, mixed, calls, starts, failures>>
      /\ Goto(p, label) /\ Note(p, c)
  BY DEF Continue, serviceVars, coreVars, boundVars
<1>1. /\ CallTypes' /\ AloneInv' /\ pc'[p] = label /\ call'[p] = c
      /\ \A q \in Clients \ {p} : pc'[q] = pc[q] /\ call'[q] = call[q]
      /\ \A q \in Clients : Writing(q)' => Writing(q) /\ call'[q].alone = call[q].alone
  BY <1>0, OneMoves DEF IInv
<1>2. StateTypes' /\ ReportsBelong' /\ CoreTypes' /\ OptsInv' /\ (IgnoredIsNotBlocked => IgnoredIsNotBlocked')
  BY <1>0, StateKept, CoreKept DEF IInv
<1>3. GhostTypes'
  BY <1>0 DEF IInv, GhostTypes
<1>4. \A q \in Clients : Own(q)'
  <2>1. \A q \in Clients \ {p} : Own(q)'
    BY <1>0, <1>1, <1>2, OwnKept DEF IInv
  <2> QED
    BY <2>1
<1>5. TablesInv'
  <2>1. \A q \in Clients : Disturbs(q) => Disturbs(q)'
    BY <1>0, <1>1 DEF Disturbs
  <2> QED
    BY <1>0, <1>2, <2>1, TablesKept DEF IInv
<1>6. AckedInv'
  BY <1>0, <1>1, AckedKept DEF IInv
<1>7. WiredInv'
  <2>1. \A q \in Clients : call'[q].alone => call[q].alone
    BY <1>1
  <2>2. ASSUME \A q \in Clients : call[q].alone, NEW q \in Clients, Pending(q)
        PROVE  Pending(q)' \/ WiredFor(state.torrent)
    <3>1. CASE q = p
      BY <2>2, <3>1
    <3>2. CASE q # p
      BY <2>2, <3>2, <1>0, <1>1 DEF Pending, WiredFor
    <3> QED
      BY <3>1, <3>2
  <2> QED
    BY <1>0, <2>1, <2>2, WiredKept DEF IInv
<1> QED
  BY <1>1, <1>2, <1>3, <1>4, <1>5, <1>6, <1>7 DEF IInv

\* A client that has ended holds nothing.
LEMMA OwnEnd ==
  ASSUME NEW p \in Clients, pc'[p] = "idle", call'[p] = NoCall
  PROVE  Own(p)'
<1>1. LabelInv(p)'
  BY NoCallType DEF LabelInv, NoCall, Syncing, Accepted, Hooking, Writing, Writers
<1>2. StateInv(p)' /\ HookInv(p)' /\ BuiltInv(p)'
  BY DEF StateInv, HookInv, BuiltInv, NoCall
<1> QED
  BY <1>1, <1>2 DEF Own

\* A client ends: what it had read, rebuilt or learned is answered for.
LEMMA EndsWell ==
  ASSUME IInv, NEW p \in Clients, NEW ok \in BOOLEAN, Answer(p, ok),
         UNCHANGED <<available, state, tables, excused, calls, starts>>, failures' \in 0..MaxFailures,
         StateTypes', ReportsBelong',
         pc[p] \notin {"tables", "flush", "filters"}, ~call[p].changed, TrueAnswer(p, ok)
  PROVE  /\ StateTypes' /\ CallTypes' /\ GhostTypes' /\ (\A q \in Clients : Own(q)')
         /\ AloneInv' /\ TablesInv' /\ AckedInv' /\ ReportsBelong'
         /\ \A q \in Clients \ {p} : pc'[q] = pc[q] /\ call'[q] = call[q]
<1>0. /\ UNCHANGED <<available, state, tables, excused>>
      /\ Goto(p, "idle") /\ Note(p, NoCall) /\ Finish(p, call[p], ok)
  BY DEF Answer, Finish
<1>1. /\ CallTypes' /\ AloneInv' /\ pc'[p] = "idle" /\ call'[p] = NoCall
      /\ \A q \in Clients \ {p} : pc'[q] = pc[q] /\ call'[q] = call[q]
      /\ \A q \in Clients : Writing(q)' => Writing(q)
  BY <1>0, NoCallType, OneMoves DEF IInv, Labels
<1>2. IgnoredIsNotBlocked => IgnoredIsNotBlocked'
  BY <1>0 DEF IgnoredIsNotBlocked
<1>3. \A q \in Clients : Own(q)'
  <2>1. \A q \in Clients \ {p} : Own(q)'
    BY <1>0, <1>1, <1>2, OwnKept DEF IInv
  <2> QED
    BY <1>1, <2>1, OwnEnd
<1>4. TablesInv'
  BY <1>0, <1>1, <1>2, TablesEnd DEF IInv
<1>5. AckedInv' /\ acked' \in [known : BOOLEAN, plugin : Plugins \cup {None}]
  BY <1>0, <1>1, AckedEnd DEF IInv, GhostTypes
<1>6. GhostTypes'
  <2>1. trust' \in {"exact", "wiped", "unknown"} /\ mixed' \in BOOLEAN
    BY <1>0 DEF Finish, IInv, GhostTypes
  <2> QED
    BY <1>5, <2>1 DEF IInv, GhostTypes
<1> QED
  BY <1>1, <1>2, <1>3, <1>4, <1>5, <1>6

\* A client ends, what is common but the core being as it was.
LEMMA Ends ==
  ASSUME IInv, NEW p \in Clients, NEW ok \in BOOLEAN, Answer(p, ok),
         UNCHANGED <<available, serviceVars, tables, excused, calls, starts>>, failures' \in 0..MaxFailures,
         pc[p] \notin {"tables", "flush", "filters"}, ~call[p].changed, TrueAnswer(p, ok)
  PROVE  /\ StateTypes' /\ CallTypes' /\ GhostTypes' /\ (\A q \in Clients : Own(q)')
         /\ AloneInv' /\ TablesInv' /\ AckedInv' /\ ReportsBelong'
         /\ \A q \in Clients \ {p} : pc'[q] = pc[q] /\ call'[q] = call[q]
<1>1. UNCHANGED <<available, state, reports, tables, excused>>
  BY DEF serviceVars
<1>2. StateTypes' /\ ReportsBelong'
  BY <1>1, StateKept DEF IInv
<1> QED
  BY <1>1, <1>2, EndsWell

\* A client ends, the core being as it was too, and with it maybe a script that
\* failed.
LEMMA EndsFailing ==
  ASSUME IInv, NEW p \in Clients, NEW ok \in BOOLEAN, Answer(p, ok),
         UNCHANGED <<available, serviceVars, tables, coreVars, calls, starts, excused>>,
         failures' \in 0..MaxFailures,
         pc[p] \notin {"tables", "flush", "filters", "halt"}, ~call[p].changed, TrueAnswer(p, ok),
         call[p].alone /\ Pending(p) => WiredFor(state.torrent)
  PROVE  IInv'
<1>0. UNCHANGED <<core, online, wiring, startPc, opts, state, calls, starts>>
  BY DEF serviceVars, coreVars
<1>1. /\ StateTypes' /\ CallTypes' /\ GhostTypes' /\ (\A q \in Clients : Own(q)')
      /\ AloneInv' /\ TablesInv' /\ AckedInv' /\ ReportsBelong'
      /\ \A q \in Clients \ {p} : pc'[q] = pc[q] /\ call'[q] = call[q]
  BY <1>0, Ends
<1>2. CoreTypes' /\ OptsInv'
  BY <1>0, CoreKept DEF IInv
<1>3. WiredInv'
  BY <1>0, <1>1, WiredEnd DEF IInv, Answer, GhostTypes, CallTypes, CallRecord
<1> QED
  BY <1>1, <1>2, <1>3 DEF IInv

\* A client ends, everything else being as it was.
LEMMA EndsApart ==
  ASSUME IInv, NEW p \in Clients, NEW ok \in BOOLEAN, Answer(p, ok),
         UNCHANGED <<available, serviceVars, tables, coreVars, boundVars, excused>>,
         pc[p] \notin {"tables", "flush", "filters", "halt"}, ~call[p].changed, TrueAnswer(p, ok),
         call[p].alone /\ Pending(p) => WiredFor(state.torrent)
  PROVE  IInv'
<1>1. UNCHANGED <<calls, starts, failures>>
  BY DEF boundVars
<1>2. failures' \in 0..MaxFailures
  BY <1>1 DEF IInv, GhostTypes
<1> QED
  BY <1>1, <1>2, EndsFailing
-----------------------------------------------------------------------------
(* The steps of a sync that touch nothing but its label and locals. *)

\* The types of what a client holds.
LEMMA ClientTypes ==
  ASSUME IInv, NEW p \in Clients
  PROVE  /\ call[p] \in CallRecord /\ pc[p] \in Labels /\ state \in StateRecord /\ available \in BOOLEAN
         /\ LabelInv(p) /\ StateInv(p) /\ HookInv(p) /\ BuiltInv(p)
BY DEF IInv, CallTypes, StateTypes, Own

\* Rebuilt sets stay as they are when a client goes on.
LEMMA BuiltKept ==
  ASSUME NEW p \in Clients, BuiltInv(p), UNCHANGED <<state, tables, excused>>,
         call'[p].alone = call[p].alone, call'[p].built = call[p].built, call'[p].failed = call[p].failed,
         pc[p] # "filters", pc'[p] # "filters"
  PROVE  BuiltInv(p)'
<1>1. FiltersExact => FiltersExact'
  BY DEF FiltersExact
<1>2. IgnoredIsNotBlocked => IgnoredIsNotBlocked'
  BY DEF IgnoredIsNotBlocked
<1> QED
  BY <1>1, <1>2 DEF BuiltInv

\* The locals of a client that goes on.
LEMMA Moved ==
  ASSUME IInv, NEW p \in Clients, NEW label, NEW c, Continue(p, label, c)
  PROVE  pc'[p] = label /\ call'[p] = c
BY DEF IInv, CallTypes, Continue, Goto, Note

\* isUnchangedPluginConfig compares the hashes.
LEMMA UnchangedStep ==
  ASSUME IInv, NEW p \in Clients, Unchanged(p)
  PROVE  IInv'
<1> DEFINE c == call[p]
           label == IF c.plugin # Malformed /\ SameHash(c.plugin) THEN "active" ELSE Validated(p)
<1>0. /\ c \in CallRecord /\ pc[p] = "unchanged" /\ LabelInv(p) /\ StateInv(p) /\ HookInv(p) /\ BuiltInv(p)
  BY ClientTypes DEF Unchanged
<1>1. /\ Continue(p, label, c)
      /\ UNCHANGED <<available, serviceVars, tables, coreVars, boundVars, excused>>
      /\ UNCHANGED <<available, state, tables, excused>>
  BY DEF Unchanged, serviceVars
<1>2. pc'[p] = label /\ call'[p] = c
  BY <1>1, Moved
<1>3. label \in {"active", "was", "reset"} /\ (label = "active" => SameHash(c.plugin))
      /\ (label = "was" => ValidatePluginConfig(c.plugin))
  BY DEF Validated
<1>4. c.op = "sync" /\ c.plugin # None /\ ~c.ok /\ ~c.changed
  BY <1>0 DEF LabelInv, Syncing
<1> HIDE DEF c, label
<1>5. LabelInv(p)'
  BY <1>0, <1>1, <1>2, <1>3, <1>4 DEF LabelInv, Syncing, Accepted, Hooking, Writing, Writers, c
<1>6. StateInv(p)'
  BY <1>1, <1>2, <1>3, <1>4 DEF StateInv, SameHash
<1>7. HookInv(p)'
  BY <1>2, <1>4 DEF HookInv
<1>8. BuiltInv(p)'
  BY <1>0, <1>1, <1>2, <1>3, BuiltKept DEF c
<1>9. label \in Labels /\ ~Pending(p) /\ (Disturbs(p) => Disturbs(p)')
  BY <1>0, <1>1, <1>2, <1>3, <1>4 DEF Labels, Syncing, Accepted, Pending, Disturbs, c
<1> QED
  BY <1>0, <1>1, <1>5, <1>6, <1>7, <1>8, <1>9, Moves DEF Own, c

\* It then asks whether a plugin is in force: alone, the sync still finds it.
LEMMA ActiveStep ==
  ASSUME IInv, NEW p \in Clients, Active(p)
  PROVE  IInv'
<1> DEFINE c == call[p]
           label == Validated(p)
<1>0. /\ c \in CallRecord /\ pc[p] = "active" /\ LabelInv(p) /\ StateInv(p) /\ HookInv(p) /\ BuiltInv(p)
  BY ClientTypes DEF Active
<1>1. /\ UNCHANGED <<available, serviceVars, tables, coreVars, boundVars, excused>>
      /\ UNCHANGED <<available, state, tables, excused>>
  BY DEF Active, serviceVars
<1>4. c.op = "sync" /\ c.plugin # None /\ ~c.ok /\ ~c.changed
  BY <1>0 DEF LabelInv, Syncing
<1>5. CASE state.plugin # None
  <2>1. Answer(p, TRUE) /\ ~Pending(p)
    BY <1>0, <1>5 DEF Active, Pending
  <2>2. TrueAnswer(p, TRUE)
    <3>1. call[p].alone => SameHash(call[p].plugin)
      BY <1>0 DEF StateInv
    <3> QED
      BY <3>1, <1>4 DEF TrueAnswer
  <2> QED
    BY <1>0, <1>1, <1>4, <2>1, <2>2, EndsApart
<1>6. CASE state.plugin = None
  <2>1. Continue(p, label, c)
    BY <1>6 DEF Active
  <2>2. pc'[p] = label /\ call'[p] = c
    BY <2>1, Moved
  <2>3. label \in {"was", "reset"} /\ (label = "was" => ValidatePluginConfig(c.plugin))
    BY DEF Validated
  <2> HIDE DEF c, label
  <2>5. LabelInv(p)'
    BY <1>0, <1>1, <1>4, <2>2, <2>3 DEF LabelInv, Syncing, Accepted, Hooking, Writing, Writers, c
  <2>6. StateInv(p)' /\ HookInv(p)'
    BY <1>1, <1>4, <2>2, <2>3 DEF StateInv, HookInv
  <2>8. BuiltInv(p)'
    BY <1>0, <1>1, <2>2, <2>3, BuiltKept DEF c
  <2>9. label \in Labels /\ ~Pending(p) /\ (Disturbs(p) => Disturbs(p)')
    BY <1>0, <1>1, <1>4, <2>2, <2>3 DEF Labels, Syncing, Accepted, Pending, Disturbs, c
  <2> QED
    BY <1>0, <1>1, <2>1, <2>5, <2>6, <2>8, <2>9, Moves DEF Own, c
<1> QED
  BY <1>5, <1>6

\* A sync without a plugin.
LEMMA ClearStep ==
  ASSUME IInv, NEW p \in Clients, Clear(p)
  PROVE  IInv'
<1> DEFINE c == [call[p] EXCEPT !.ok = TRUE]
<1>0. /\ call[p] \in CallRecord /\ pc[p] = "clear" /\ LabelInv(p) /\ BuiltInv(p)
  BY ClientTypes DEF Clear
<1>1. /\ UNCHANGED <<available, serviceVars, tables, coreVars, boundVars, excused>>
      /\ UNCHANGED <<available, state, tables, excused>>
  BY DEF Clear, serviceVars
<1>4. call[p].op = "sync" /\ call[p].plugin = None /\ ~call[p].changed
  BY <1>0 DEF LabelInv, Syncing
<1>5. CASE state.plugin = None
  <2>1. Answer(p, FALSE) /\ TrueAnswer(p, FALSE) /\ ~Pending(p)
    BY <1>0, <1>5 DEF Clear, TrueAnswer, Pending
  <2> QED
    BY <1>0, <1>1, <1>4, <2>1, EndsApart
<1>6. CASE state.plugin # None
  <2>1. Continue(p, "reset", c)
    BY <1>6 DEF Clear
  <2>2. pc'[p] = "reset" /\ call'[p] = c
    BY <2>1, Moved
  <2>3. /\ c \in CallRecord /\ c.op = "sync" /\ c.plugin = None /\ c.alone = call[p].alone
        /\ c.changed = call[p].changed /\ c.built = call[p].built /\ c.failed = call[p].failed
        /\ c.blocked = call[p].blocked
    BY <1>0, <1>4 DEF CallRecord
  <2> HIDE DEF c
  <2>5. LabelInv(p)'
    BY <1>0, <1>1, <1>4, <2>2, <2>3, NoCallType DEF LabelInv, Syncing, Accepted, Hooking, Writing, Writers
  <2>6. StateInv(p)' /\ HookInv(p)'
    BY <1>1, <1>4, <2>2, <2>3 DEF StateInv, HookInv
  <2>8. BuiltInv(p)'
    BY <1>0, <1>1, <2>2, <2>3, BuiltKept
  <2>9. "reset" \in Labels /\ ~Pending(p) /\ (Disturbs(p) => Disturbs(p)')
    BY <1>0, <1>1, <1>4, <2>2, <2>3 DEF Labels, Pending, Disturbs
  <2> QED
    BY <1>0, <1>1, <1>4, <2>1, <2>3, <2>5, <2>6, <2>8, <2>9, Moves DEF Own
<1> QED
  BY <1>5, <1>6

\* Lists of tags with one hash have the same tags.
LEMMA HashedTags ==
  ASSUME NEW s, NEW t, HashTags(s) = HashTags(t)
  PROVE  Range(s) = Range(t)
<1>1. DOMAIN HashTags(s) = Range(s) /\ DOMAIN HashTags(t) = Range(t)
  BY DEF HashTags
<1> QED
  BY <1>1

\* A sync reads the torrent settings, before its update and after it.
LEMMA ReadWas ==
  ASSUME IInv, NEW p \in Clients, ReadTorrent(p), pc[p] \in {"was", "wasTags", "now"}
  PROVE  IInv'
<1>0. /\ call[p] \in CallRecord /\ LabelInv(p) /\ StateInv(p) /\ BuiltInv(p) /\ state \in StateRecord
  BY ClientTypes
<1>1. /\ UNCHANGED <<available, serviceVars, tables, coreVars, boundVars, excused>>
      /\ UNCHANGED <<available, state, tables, excused>>
  BY DEF ReadTorrent, serviceVars
<1>2. PICK label \in {"wasTags", "update", "nowTags"}, c \in CallRecord :
        /\ Continue(p, label, c)
        /\ \A f \in {"op", "plugin", "ips", "user", "changed", "restart", "todo", "blocked", "ok",
                     "alone", "failed", "built", "crossed"} : c[f] = call[p][f]
        /\ \/ pc[p] = "was" /\ label = "wasTags" /\ c.was.enabled = state.torrent.enabled
           \/ /\ pc[p] = "wasTags" /\ label = "update"
              /\ c.was.enabled = call[p].was.enabled /\ c.was.tags = state.torrent.tags
           \/ /\ pc[p] = "now" /\ label = "nowTags"
              /\ c.was = call[p].was /\ c.now.enabled = state.torrent.enabled
  <2>1. CASE pc[p] = "was"
    <3> DEFINE c == [call[p] EXCEPT !.was.enabled = state.torrent.enabled]
    <3>1. Continue(p, "wasTags", c)
      BY <2>1 DEF ReadTorrent
    <3>2. c \in CallRecord /\ c.was.enabled = state.torrent.enabled
      BY <1>0 DEF CallRecord, TorrentRecord, StateRecord
    <3>3. \A f \in {"op", "plugin", "ips", "user", "changed", "restart", "todo", "blocked", "ok",
                    "alone", "failed", "built", "crossed"} : c[f] = call[p][f]
      BY <1>0 DEF CallRecord
    <3> HIDE DEF c
    <3> QED
      BY <2>1, <3>1, <3>2, <3>3
  <2>2. CASE pc[p] = "wasTags"
    <3> DEFINE c == [call[p] EXCEPT !.was.tags = state.torrent.tags]
    <3>1. Continue(p, "update", c)
      BY <2>2 DEF ReadTorrent
    <3>2. c \in CallRecord /\ c.was.enabled = call[p].was.enabled /\ c.was.tags = state.torrent.tags
      BY <1>0 DEF CallRecord, TorrentRecord, StateRecord
    <3>3. \A f \in {"op", "plugin", "ips", "user", "changed", "restart", "todo", "blocked", "ok",
                    "alone", "failed", "built", "crossed"} : c[f] = call[p][f]
      BY <1>0 DEF CallRecord
    <3> HIDE DEF c
    <3> QED
      BY <2>2, <3>1, <3>2, <3>3
  <2>3. CASE pc[p] = "now"
    <3> DEFINE c == [call[p] EXCEPT !.now.enabled = state.torrent.enabled]
    <3>1. Continue(p, "nowTags", c)
      BY <2>3 DEF ReadTorrent
    <3>2. c \in CallRecord /\ c.was = call[p].was /\ c.now.enabled = state.torrent.enabled
      BY <1>0 DEF CallRecord, TorrentRecord, StateRecord
    <3>3. \A f \in {"op", "plugin", "ips", "user", "changed", "restart", "todo", "blocked", "ok",
                    "alone", "failed", "built", "crossed"} : c[f] = call[p][f]
      BY <1>0 DEF CallRecord
    <3> HIDE DEF c
    <3> QED
      BY <2>3, <3>1, <3>2, <3>3
  <2> QED
    BY <2>1, <2>2, <2>3
<1>3. pc'[p] = label /\ call'[p] = c
  BY <1>2, Moved
<1>4. /\ c.op = "sync" /\ call[p].op = "sync" /\ c.plugin = call[p].plugin /\ c.ok = call[p].ok /\ c.alone = call[p].alone
      /\ c.changed = call[p].changed /\ c.built = call[p].built /\ c.failed = call[p].failed
      /\ c.blocked = call[p].blocked /\ ~c.ok /\ c.plugin # None /\ ValidatePluginConfig(c.plugin)
  BY <1>0, <1>2 DEF LabelInv, Syncing, Accepted
<1>5. LabelInv(p)'
  BY <1>0, <1>1, <1>2, <1>3, <1>4, NoCallType DEF LabelInv, Syncing, Accepted, Hooking, Writing, Writers
<1>6. StateInv(p)' /\ HookInv(p)'
  <2>1. StateInv(p)'
    BY <1>0, <1>1, <1>2, <1>3, <1>4 DEF StateInv, SameHash
  <2> QED
    BY <1>3, <1>4, <2>1 DEF HookInv
<1>7. BuiltInv(p)'
  BY <1>0, <1>1, <1>2, <1>3, <1>4, BuiltKept
<1>8. label \in Labels /\ (Disturbs(p) => Disturbs(p)')
  BY <1>0, <1>1, <1>2, <1>3, <1>4 DEF Labels, Syncing, Accepted, Disturbs
<1>9. Pending(p) => Pending(p)'
  <2>1. UNCHANGED wiring
    BY <1>1 DEF coreVars
  <2> QED
    BY <1>2, <1>3, <2>1 DEF Pending, WiredFor
<1> QED
  BY <1>1, <1>2, <1>4, <1>5, <1>6, <1>7, <1>8, <1>9, Moves DEF Own

\* The last read chooses what to do about the core: alone, it compares the
\* settings the core was wired for with those in force.
LEMMA ReadNowTags ==
  ASSUME IInv, NEW p \in Clients, ReadTorrent(p), pc[p] = "nowTags"
  PROVE  IInv'
<1> DEFINE now == [call[p].now EXCEPT !.tags = state.torrent.tags]
           restart == TorrentRestart(call[p].was, now)
           label == IF call[p].changed /\ available THEN "tables" ELSE "restart"
           c == [call[p] EXCEPT !.restart = restart, !.was = NoTorrent, !.now = NoTorrent, !.changed = FALSE]
<1>0. /\ call[p] \in CallRecord /\ LabelInv(p) /\ StateInv(p) /\ BuiltInv(p) /\ state \in StateRecord
  BY ClientTypes
<1>1. /\ UNCHANGED <<available, serviceVars, tables, coreVars, boundVars, excused>>
      /\ UNCHANGED <<available, state, tables, excused>>
  BY DEF ReadTorrent, serviceVars
<1>2. Continue(p, label, c)
  BY DEF ReadTorrent
<1>3. pc'[p] = label /\ call'[p] = c
  BY <1>2, Moved
<1>4. now.enabled = call[p].now.enabled /\ now.tags = state.torrent.tags
  BY <1>0 DEF CallRecord, TorrentRecord
<1>5. restart \in {"keep", "remove", "stop"} /\ (restart = "remove" => ~now.enabled)
  BY DEF TorrentRestart
<1>6. call[p].alone => call[p].now.enabled = state.torrent.enabled
  BY <1>0 DEF StateInv
<1>7. call[p].alone /\ WiredFor(call[p].was) => WiredFor(state.torrent) \/ restart = "stop"
  <2> SUFFICES ASSUME call[p].alone, WiredFor(call[p].was), restart # "stop", state.torrent.enabled
               PROVE  WiredFor(state.torrent)
    BY DEF WiredFor
  <2>1. now.enabled /\ call[p].was.enabled /\ HashTags(call[p].was.tags) = HashTags(now.tags)
    <3>1. now.enabled
      BY <1>4, <1>6
    <3>2. call[p].was.enabled \in BOOLEAN /\ now.enabled \in BOOLEAN
      BY <1>0, <1>4 DEF CallRecord, TorrentRecord
    <3> HIDE DEF now
    <3> QED
      BY <3>1, <3>2 DEF TorrentRestart
  <2>2. Range(call[p].was.tags) = Range(state.torrent.tags)
    BY <2>1, <1>4, HashedTags
  <2> QED
    BY <2>1, <2>2 DEF WiredFor
<1> HIDE DEF now, restart
<1>8. /\ c \in CallRecord /\ c.op = call[p].op /\ c.plugin = call[p].plugin /\ c.ok = call[p].ok
      /\ c.alone = call[p].alone /\ ~c.changed /\ c.built = call[p].built /\ c.failed = call[p].failed
      /\ c.blocked = call[p].blocked /\ c.restart = restart
  <2>1. NoTorrent \in TorrentRecord
    BY DEF NoTorrent, TorrentRecord, TagLists, IgnoreSets
  <2> QED
    BY <1>0, <1>5, <2>1 DEF CallRecord
<1>9. c.op = "sync" /\ ~c.ok /\ c.plugin # None /\ ValidatePluginConfig(c.plugin)
  BY <1>0, <1>8 DEF LabelInv, Syncing, Accepted
<1>10. /\ label \in {"tables", "restart"} /\ (label = "tables" => available /\ call[p].changed)
       /\ (available /\ call[p].changed => label = "tables")
  OBVIOUS
<1> HIDE DEF c, label
<1>11. LabelInv(p)'
  BY <1>0, <1>1, <1>3, <1>8, <1>9, <1>10, NoCallType DEF LabelInv, Syncing, Accepted, Hooking, Writing, Writers
<1>12. StateInv(p)' /\ HookInv(p)'
  <2>1. StateInv(p)'
    BY <1>0, <1>1, <1>3, <1>4, <1>5, <1>6, <1>8, <1>9, <1>10 DEF StateInv, SameHash
  <2> QED
    BY <1>3, <1>9, <2>1 DEF HookInv
<1>13. BuiltInv(p)'
  BY <1>0, <1>1, <1>3, <1>8, <1>10, BuiltKept
<1>14. label \in Labels /\ (Disturbs(p) => Disturbs(p)')
  BY <1>0, <1>1, <1>3, <1>8, <1>10 DEF Labels, Syncing, Accepted, Disturbs
<1>15. call[p].alone /\ Pending(p) => Pending(p)' \/ WiredFor(state.torrent)
  BY <1>3, <1>7, <1>8, <1>10 DEF Pending
<1> QED
  BY <1>1, <1>2, <1>8, <1>11, <1>12, <1>13, <1>14, <1>15, Moves DEF Own

\* All four reads.
LEMMA ReadTorrentStep ==
  ASSUME IInv, NEW p \in Clients, ReadTorrent(p)
  PROVE  IInv'
<1>1. pc[p] \in {"was", "wasTags", "now", "nowTags"}
  BY DEF ReadTorrent
<1> QED
  BY <1>1, ReadWas, ReadNowTags
-----------------------------------------------------------------------------
(* The steps that replace the state. *)

\* A call that will see to the core is a writer; so, run alone, no other call
\* writes.
LEMMA PendingWrites ==
  ASSUME IInv, NEW q \in Clients, Pending(q)
  PROVE  Writing(q)
<1>1. LabelInv(q)
  BY ClientTypes
<1> QED
  BY <1>1 DEF Pending, LabelInv, Syncing, Accepted, Writing, Writers

\* Replace marks the webhooks in flight, the start in progress and its core.
LEMMA Replaced ==
  ASSUME IInv, NEW p \in Clients, NEW next \in StateRecord, NEW label \in Labels, NEW c \in CallRecord,
         Replace(p, next, label, c), UNCHANGED <<available, tables, boundVars, excused>>,
         reports' = reports \/ reports' = <<>>,
         next.plugin = None => ~next.torrent.enabled /\ reports' = <<>>,
         Writing(p), c.op = call[p].op, c.alone = call[p].alone,
         available => Disturbs(p)', Own(p)',
         core = "on" /\ ~wiring.late /\ ~mixed /\ (\A q \in Clients : call[q].alone) =>
           WiredFor(next.torrent) \/ (wiring' = wiring => Pending(p)')
  PROVE  IInv'
<1>0. /\ UNCHANGED <<available, tables, core, online, startPc, excused>>
      /\ UNCHANGED <<trust, acked, mixed, calls, starts, failures>>
      /\ state' = next
      /\ opts' = IF startPc \in {"tags", "prepare"} THEN Late(opts) ELSE opts
      /\ wiring' = IF startPc = "wait" THEN Late(wiring) ELSE wiring
      /\ pc' = [pc EXCEPT ![p] = label]
      /\ call' = [q \in Clients |->
           IF q = p THEN c
           ELSE IF call[q].op = "hook" /\ pc[q] # "enabled" THEN [call[q] EXCEPT !.crossed = TRUE]
           ELSE call[q]]
  BY DEF Replace, Goto, boundVars
<1>1. StateTypes' /\ ReportsBelong'
  <2>1. reports' \in Seq(ReportRecord) /\ \A r \in Range(reports') : r.blocked => available
    <3>1. CASE reports' = reports
      BY <3>1 DEF IInv, StateTypes
    <3>2. CASE reports' = <<>>
      BY <3>2 DEF Range
    <3> QED
      BY <3>1, <3>2
  <2>2. StateTypes'
    BY <1>0, <2>1 DEF IInv, StateTypes, StateRecord, TorrentRecord
  <2>3. ReportsBelong'
    BY <1>0 DEF ReportsBelong, Range
  <2> QED
    BY <2>2, <2>3
<1>2. CoreTypes' /\ OptsInv'
  <2>1. opts \in WiringRecord /\ wiring \in WiringRecord
    BY DEF IInv, CoreTypes
  <2>2. Late(opts) \in WiringRecord /\ Late(opts).late /\ Late(wiring) \in WiringRecord
    BY <2>1 DEF Late, WiringRecord
  <2>3. opts' \in WiringRecord /\ wiring' \in WiringRecord /\ (startPc' \in {"tags", "prepare"} => opts'.late)
    BY <1>0, <2>1, <2>2
  <2>4. CoreTypes'
    BY <1>0, <2>3 DEF IInv, CoreTypes
  <2>5. OptsInv'
    BY <2>3 DEF OptsInv
  <2> QED
    BY <2>4, <2>5
<1>3. /\ pc'[p] = label /\ call'[p] = c
      /\ \A q \in Clients \ {p} :
           /\ pc'[q] = pc[q]
           /\ call'[q] = IF call[q].op = "hook" /\ pc[q] # "enabled"
                           THEN [call[q] EXCEPT !.crossed = TRUE] ELSE call[q]
  BY <1>0 DEF IInv, CallTypes
<1>4. \A q \in Clients : /\ call'[q] \in CallRecord /\ call'[q].op = call[q].op
                         /\ call'[q].alone = call[q].alone
  <2> SUFFICES ASSUME NEW q \in Clients
               PROVE  call'[q] \in CallRecord /\ call'[q].op = call[q].op /\ call'[q].alone = call[q].alone
    OBVIOUS
  <2>1. call[q] \in CallRecord
    BY DEF IInv, CallTypes
  <2>2. CASE q = p
    BY <1>3, <2>2
  <2>3. CASE q # p
    <3> DEFINE d == [call[q] EXCEPT !.crossed = TRUE]
    <3>1. d \in CallRecord /\ d.op = call[q].op /\ d.alone = call[q].alone
      BY <2>1 DEF CallRecord
    <3>2. call'[q] = d \/ call'[q] = call[q]
      BY <1>3, <2>3
    <3> HIDE DEF d
    <3> QED
      BY <2>1, <3>1, <3>2
  <2> QED
    BY <2>2, <2>3
<1>5. CallTypes' /\ AloneInv'
  <2>1. CallTypes'
    BY <1>0, <1>4 DEF IInv, CallTypes
  <2>2. \A q \in Clients : Writing(q)' <=> Writing(q)
    BY <1>4 DEF Writing
  <2>3. AloneInv'
    BY <1>4, <2>2 DEF IInv, AloneInv
  <2> QED
    BY <2>1, <2>3
<1>6. GhostTypes'
  BY <1>0 DEF IInv, GhostTypes
<1>7. \A q \in Clients : Own(q)'
  <2>1. ASSUME NEW q \in Clients, q # p  PROVE Own(q)'
    <3>1. Writing(q) => ~call[q].alone
      BY <2>1 DEF IInv, AloneInv
    <3>2. Own(q) /\ call[q] \in CallRecord
      BY DEF IInv, CallTypes
    <3> QED
      BY <1>0, <1>3, <2>1, <3>1, <3>2, OwnOfOther
  <2> QED
    BY <2>1
<1>8. TablesInv'
  <2>1. CASE available
    BY <2>1 DEF TablesInv
  <2>2. CASE ~available
    <3>1. tables = EmptyTables
      BY <2>2 DEF IInv, StateTypes
    <3>2. IgnoredIsNotBlocked'
      BY <1>0, <3>1 DEF IgnoredIsNotBlocked, EmptyTables
    <3> QED
      BY <1>0, <2>2, <3>2 DEF TablesInv
  <2>3. available \in BOOLEAN
    BY DEF IInv, StateTypes
  <2> QED
    BY <2>1, <2>2, <2>3
<1>9. AckedInv'
  <2>1. ~acked.known
    BY DEF IInv, AckedInv, Quiet
  <2> QED
    BY <1>0, <2>1 DEF AckedInv
<1>10. WiredInv'
  <2> SUFFICES ASSUME core' = "on", ~wiring'.late, ~mixed', \A q \in Clients : call'[q].alone
               PROVE  WiredFor(state.torrent)' \/ \E q \in Clients : Pending(q)'
    BY DEF WiredInv
  <2>1. wiring' = wiring
    <3>1. Late(wiring).late
      BY DEF Late, IInv, CoreTypes, WiringRecord
    <3> QED
      BY <1>0, <3>1
  <2>2. \A q \in Clients : call[q].alone
    BY <1>4
  <2>3. WiredFor(next.torrent) \/ Pending(p)'
    BY <1>0, <2>1, <2>2
  <2>4. WiredFor(next.torrent) => WiredFor(state.torrent)'
    BY <1>0, <2>1 DEF WiredFor
  <2> QED
    BY <2>3, <2>4
<1> QED
  BY <1>1, <1>2, <1>5, <1>6, <1>7, <1>8, <1>9, <1>10 DEF IInv

\* What UpdateFromSync keeps of a payload, and what Reset leaves, are states.
LEMMA StateOfType ==
  ASSUME NEW c \in Settling
  PROVE  StateOf(c) \in StateRecord
<1>1. TorrentSettings(c) \in TorrentRecord
  <2>1. TorrentSettings(c).tags \in TagLists /\ TorrentSettings(c).ignored \in IgnoreSets
    BY DEF TagLists, IgnoreSets
  <2>2. CASE ~On(c.torrentBlocker)
    BY <2>2 DEF TorrentSettings, NoTorrent, TorrentRecord, TagLists, IgnoreSets
  <2>3. CASE On(c.torrentBlocker)
    <3>1. PICK tags, ignored : TorrentSettings(c) = [enabled |-> TRUE, tags |-> tags, ignored |-> ignored]
      BY <2>3 DEF TorrentSettings
    <3>2. tags \in TagLists /\ ignored \in IgnoreSets
      BY <2>1, <3>1
    <3> QED
      BY <3>1, <3>2 DEF TorrentRecord
  <2> QED
    BY <2>2, <2>3
<1>2. (IF On(c.torrentBlocker) THEN IgnoredUsers[c] ELSE {}) \in UserSets
  BY DEF UserSets
<1> QED
  BY <1>1, <1>2 DEF StateOf, StateRecord

\* NewState is a state.
LEMMA EmptyStateType == EmptyState \in StateRecord /\ EmptyState.plugin = None /\ ~EmptyState.torrent.enabled
BY DEF EmptyState, StateRecord, NoTorrent, TorrentRecord, TagLists, IgnoreSets, UserSets
\* A sync replaces the state by its plugin, unless it has the hash of the one
\* in force.
LEMMA UpdateFromSyncStep ==
  ASSUME IInv, NEW p \in Clients, UpdateFromSync(p)
  PROVE  IInv'
<1>0. /\ call[p] \in CallRecord /\ pc[p] = "update" /\ LabelInv(p) /\ StateInv(p) /\ BuiltInv(p)
  BY ClientTypes DEF UpdateFromSync
<1>1. /\ UNCHANGED <<available, reports, tables, boundVars, excused>>
  BY DEF UpdateFromSync
<1>2. /\ call[p].op = "sync" /\ call[p].plugin # None /\ ValidatePluginConfig(call[p].plugin)
      /\ ~call[p].ok /\ ~call[p].changed /\ ~call[p].built
  BY <1>0 DEF LabelInv, Syncing, Accepted
<1>3. CASE SameHash(call[p].plugin)
  <2>1. Continue(p, "now", call[p]) /\ UNCHANGED <<state, coreVars>> /\ UNCHANGED serviceVars
    BY <1>1, <1>3 DEF UpdateFromSync, serviceVars
  <2>2. pc'[p] = "now" /\ call'[p] = call[p]
    BY <2>1, Moved
  <2>3. LabelInv(p)'
    BY <1>0, <1>1, <1>2, <2>2 DEF LabelInv, Syncing, Accepted, Hooking, Writing, Writers
  <2>4. StateInv(p)' /\ HookInv(p)' /\ BuiltInv(p)'
    <3>1. StateInv(p)'
      BY <1>2, <1>3, <2>1, <2>2 DEF StateInv, SameHash
    <3> QED
      BY <1>2, <2>2, <3>1 DEF HookInv, BuiltInv
  <2>5. "now" \in Labels /\ ~Pending(p) /\ ~Disturbs(p)
    BY <1>0, <1>2 DEF Labels, Syncing, Accepted, Pending, Disturbs
  <2> QED
    BY <1>0, <1>1, <2>1, <2>3, <2>4, <2>5, Moves DEF Own
<1>4. CASE ~SameHash(call[p].plugin)
  <2> DEFINE c == [call[p] EXCEPT !.changed = TRUE]
             next == StateOf(call[p].plugin)
  <2>1. Replace(p, next, "now", c)
    BY <1>4 DEF UpdateFromSync
  <2>2. /\ c \in CallRecord /\ c.op = "sync" /\ c.plugin = call[p].plugin /\ ~c.ok /\ c.alone = call[p].alone
        /\ c.changed /\ ~c.built /\ c.blocked = call[p].blocked /\ c.was = call[p].was
    BY <1>0, <1>2 DEF CallRecord
  <2>3. call[p].plugin \in Settling /\ call[p].plugin # None
    BY <1>0, <1>2 DEF CallRecord, Settling, ValidatePluginConfig
  <2>4. next \in StateRecord /\ next.plugin = call[p].plugin
    BY <2>3, StateOfType DEF StateOf
  <2> HIDE DEF c, next
  <2>5. /\ state' = next /\ available' = available
        /\ pc'[p] = "now" /\ call'[p] = c
    BY <1>1, <2>1 DEF Replace, Goto, IInv, CallTypes
  <2>6. LabelInv(p)'
    BY <1>0, <1>2, <2>2, <2>5, NoCallType DEF LabelInv, Syncing, Accepted, Hooking, Writing, Writers
  <2>7. StateInv(p)' /\ HookInv(p)' /\ BuiltInv(p)'
    <3>1. StateInv(p)'
      BY <2>2, <2>3, <2>4, <2>5 DEF StateInv, SameHash
    <3> QED
      BY <2>2, <2>5, <3>1 DEF HookInv, BuiltInv
  <2>8. "now" \in Labels /\ Writing(p) /\ (available => Disturbs(p)')
    BY <1>2, <2>2, <2>5 DEF Labels, Syncing, Accepted, Writing, Writers, Disturbs
  <2>9. ASSUME core = "on", ~wiring.late, ~mixed, \A q \in Clients : call[q].alone, wiring' = wiring
        PROVE  Pending(p)'
    <3>1. \A q \in Clients : ~Pending(q)
      <4> SUFFICES ASSUME NEW q \in Clients, Pending(q)  PROVE FALSE
        OBVIOUS
      <4>1. q # p /\ Writing(q)
        BY <1>0, PendingWrites DEF Pending
      <4> QED
        BY <2>8, <2>9, <4>1 DEF IInv, AloneInv
    <3>2. WiredFor(state.torrent)
      BY <2>9, <3>1 DEF IInv, WiredInv
    <3>3. call[p].was.enabled = state.torrent.enabled /\ call[p].was.tags = state.torrent.tags
      BY <1>0, <2>9 DEF StateInv
    <3>4. WiredFor(call[p].was)
      BY <3>2, <3>3 DEF WiredFor
    <3>5. pc'[p] = "now" /\ WiredFor(call[p].was)'
      BY <2>2, <2>5, <2>9, <3>4 DEF WiredFor
    <3> QED
      BY <3>5 DEF Pending
  <2> QED
    <3>1. next.plugin # None /\ (reports' = reports \/ reports' = <<>>)
      BY <1>1, <2>3, <2>4
    <3>2. UNCHANGED <<available, tables, boundVars, excused>> /\ c.op = call[p].op /\ c.alone = call[p].alone
      BY <1>1, <1>2, <2>2
    <3>3. Own(p)'
      BY <2>6, <2>7 DEF Own
    <3> QED
      BY <2>1, <2>2, <2>4, <2>8, <2>9, <3>1, <3>2, <3>3, Replaced
<1> QED
  BY <1>3, <1>4

\* State.Reset.
LEMMA ResetStep ==
  ASSUME IInv, NEW p \in Clients, Reset(p)
  PROVE  IInv'
<1> DEFINE label == IF available THEN "flush" ELSE AfterReset(p)
<1>0. /\ call[p] \in CallRecord /\ pc[p] = "reset" /\ LabelInv(p)
  BY ClientTypes DEF Reset
<1>1. /\ Replace(p, EmptyState, label, call[p]) /\ reports' = <<>>
      /\ UNCHANGED <<available, tables, boundVars, excused>>
  BY DEF Reset, ClearReports
<1>2. /\ call[p].op \in {"sync", "stop"} /\ ~call[p].changed /\ ~call[p].built
      /\ (call[p].op = "sync" /\ call[p].ok => call[p].plugin = None)
  BY <1>0 DEF LabelInv, Syncing, Accepted
<1>3. /\ label \in {"flush", "ifOnline", "halt"} /\ (available <=> label = "flush")
      /\ (label = "ifOnline" => call[p].op = "sync") /\ (label = "halt" => call[p].op = "stop")
  BY <1>2 DEF AfterReset
<1> HIDE DEF label
<1>4. state' = EmptyState /\ available' = available /\ pc'[p] = label /\ call'[p] = call[p]
  BY <1>1 DEF Replace, Goto, IInv, CallTypes
<1>5. LabelInv(p)'
  BY <1>0, <1>2, <1>3, <1>4 DEF LabelInv, Syncing, Accepted, Hooking, Writing, Writers
<1>6. StateInv(p)' /\ HookInv(p)' /\ BuiltInv(p)'
  <2>1. StateInv(p)'
    BY <1>2, <1>3, <1>4, EmptyStateType DEF StateInv
  <2>2. HookInv(p)' /\ BuiltInv(p)'
    BY <1>2, <1>4 DEF HookInv, BuiltInv
  <2> QED
    BY <2>1, <2>2
<1>7. label \in Labels /\ Writing(p) /\ (available => Disturbs(p)')
  BY <1>2, <1>3, <1>4 DEF Labels, Syncing, Writing, Writers, Disturbs
<1>8. WiredFor(EmptyState.torrent)
  BY EmptyStateType DEF WiredFor
<1>9. Own(p)'
  BY <1>5, <1>6 DEF Own
<1> QED
  BY <1>0, <1>1, <1>7, <1>8, <1>9, EmptyStateType, Replaced
-----------------------------------------------------------------------------
(* The scripts of a validated payload. *)

ScriptRecord ==
  [filter : {"ingress", "egress"}, set : {"ingress", "egress"}, elements : SUBSET Addrs]
  \cup [filter : {"egress"}, set : {"ports", "ports6"}, elements : SUBSET Ports]

\* A script that has nothing to add is not run.
LEMMA ScriptType ==
  ASSUME NEW S, NEW filter, NEW set, NEW elements,
         [filter |-> filter, set |-> set, elements |-> elements] \in S
  PROVE  Script(filter, set, elements) \in Seq(S)
BY DEF Script

\* A script of addresses.
LEMMA ScriptOfAddrs ==
  ASSUME NEW f \in {"ingress", "egress"}, NEW e, e \subseteq Addrs
  PROVE  Script(f, f, e) \in Seq(ScriptRecord)
<1>1. [filter |-> f, set |-> f, elements |-> e] \in ScriptRecord
  BY DEF ScriptRecord
<1> HIDE DEF ScriptRecord
<1> QED
  BY <1>1, ScriptType

\* A script of ports.
LEMMA ScriptOfPorts ==
  ASSUME NEW f \in {"ports", "ports6"}, NEW e, e \subseteq Ports
  PROVE  Script("egress", f, e) \in Seq(ScriptRecord)
<1>1. [filter |-> "egress", set |-> f, elements |-> e] \in ScriptRecord
  BY DEF ScriptRecord
<1> HIDE DEF ScriptRecord
<1> QED
  BY <1>1, ScriptType

\* The items of a list that may be absent.
LEMMA ListItems ==
  ASSUME NEW list, NEW S, list = Absent \/ IsList(list, S)
  PROVE  Items(list) \subseteq S
BY DEF Items, IsList, Present

\* The lists of an egress filter.
LEMMA EgressLists ==
  ASSUME NEW s, ValidEgress(s), Present(s)
  PROVE  /\ s.blockedIps = Absent \/ IsList(s.blockedIps, NetItems)
         /\ s.blockedPorts = Absent \/ IsList(s.blockedPorts, Ports)
<1>1. s # Absent
  BY DEF Present
<1>2. s.blockedIps = Absent \/ IsList(s.blockedIps, NetItems)
  BY <1>1 DEF ValidEgress
<1>3. s.blockedPorts = Absent \/ IsList(s.blockedPorts, Ports)
  BY <1>1 DEF ValidEgress
<1> QED
  BY <1>2, <1>3

\* The addresses that a list of a validated payload resolves to.
LEMMA SharedListItems ==
  ASSUME NEW c, ValidatePluginConfig(c), NEW name
  PROVE  SharedList(c, name) \subseteq Addrs \cup Nets
<1> DEFINE lists == c.sharedLists
           Named == IF Present(lists) THEN {i \in DOMAIN lists : lists[i].name = name} ELSE {}
<1>1. ASSUME NEW i \in Named  PROVE Entries(lists[i]) \subseteq Addrs \cup Nets
  <2>1. Present(lists) /\ i \in DOMAIN lists
    BY <1>1
  <2>2. \/ lists[i].type = "ipList" /\ IsList(lists[i].items, Addrs \cup Nets)
        \/ lists[i].type = "asList" /\ IsList(lists[i].items, ASNs)
    BY <2>1 DEF ValidatePluginConfig, ValidSharedLists, Present
  <2>3. CASE lists[i].type = "ipList" /\ IsList(lists[i].items, Addrs \cup Nets)
    BY <2>3 DEF IsList, Entries
  <2>4. CASE lists[i].type = "asList" /\ IsList(lists[i].items, ASNs)
    <3>1. \A n \in Range(lists[i].items) : ASNNets[n] \subseteq Nets
      BY <2>4, PayloadAssumption DEF IsList
    <3> QED
      BY <2>4, <3>1 DEF Entries
  <2> QED
    BY <2>2, <2>3, <2>4
<1>2. SharedList(c, name) = UNION {Entries(lists[i]) : i \in {j \in Named : \A k \in Named : k <= j}}
  BY DEF SharedList
<1> QED
  BY <1>1, <1>2

\* The addresses and prefixes of a list, its shared lists read.
LEMMA Resolved ==
  ASSUME NEW c, ValidatePluginConfig(c), NEW list, Items(list) \subseteq NetItems
  PROVE  ResolveIPList(c, list) \subseteq Addrs \cup Nets
<1>1. \A i \in Items(list) : (IF i \in Names THEN SharedList(c, i) ELSE {i}) \subseteq Addrs \cup Nets
  BY SharedListItems DEF NetItems, AddrItems
<1> QED
  BY <1>1 DEF ResolveIPList

\* Prefixes stand for addresses.
LEMMA Normalized ==
  ASSUME NEW items, items \subseteq Addrs \cup Nets
  PROVE  NormalizeFilterPrefixes(items) \subseteq Addrs
<1>1. \A i \in items : (IF i \in Nets THEN NetAddrs[i] ELSE {i}) \subseteq Addrs
  BY PayloadAssumption
<1> QED
  BY <1>1 DEF NormalizeFilterPrefixes

\* The two scripts of a list of addresses.
LEMMA IPScriptsType ==
  ASSUME NEW f \in {"ingress", "egress"}, NEW items, items \subseteq Addrs \cup Nets
  PROVE  IPScripts(f, items) \in Seq(ScriptRecord)
<1>1. NormalizeFilterPrefixes(items \ V6) \subseteq Addrs /\ NormalizeFilterPrefixes(items) \subseteq Addrs
  BY Normalized
<1>2. /\ Script(f, f, NormalizeFilterPrefixes(items \ V6) \ V6) \in Seq(ScriptRecord)
      /\ Script(f, f, NormalizeFilterPrefixes(items) \cap V6) \in Seq(ScriptRecord)
  BY <1>1, ScriptOfAddrs
<1> QED
  BY <1>2 DEF IPScripts

\* The scripts of a validated payload fill the sets with addresses and ports.
LEMMA FilterScriptsType ==
  ASSUME NEW c, ValidatePluginConfig(c)
  PROVE  FilterScripts(c) \in Seq(ScriptRecord)
<1> DEFINE in == IF On(c.ingressFilter)
                   THEN IPScripts("ingress", ResolveIPList(c, c.ingressFilter.blockedIps)) ELSE <<>>
           out == IF On(c.egressFilter)
                    THEN IPScripts("egress", ResolveIPList(c, c.egressFilter.blockedIps))
                         \o Script("egress", "ports", Items(c.egressFilter.blockedPorts))
                         \o Script("egress", "ports6", Items(c.egressFilter.blockedPorts))
                    ELSE <<>>
<1>1. in \in Seq(ScriptRecord)
  <2>1. CASE On(c.ingressFilter)
    <3>1. Items(c.ingressFilter.blockedIps) \subseteq NetItems
      BY <2>1 DEF On, Present, Items, IsList, ValidatePluginConfig, ValidIngress
    <3>2. IPScripts("ingress", ResolveIPList(c, c.ingressFilter.blockedIps)) \in Seq(ScriptRecord)
      BY <3>1, Resolved, IPScriptsType
    <3> QED
      BY <2>1, <3>2
  <2>2. CASE ~On(c.ingressFilter)
    BY <2>2
  <2> QED
    BY <2>1, <2>2
<1>2. out \in Seq(ScriptRecord)
  <2>1. CASE On(c.egressFilter)
    <3>1. /\ Items(c.egressFilter.blockedIps) \subseteq NetItems
          /\ Items(c.egressFilter.blockedPorts) \subseteq Ports
      <4>1. ValidEgress(c.egressFilter) /\ Present(c.egressFilter)
        BY <2>1 DEF On, ValidatePluginConfig
      <4>2. /\ c.egressFilter.blockedIps = Absent \/ IsList(c.egressFilter.blockedIps, NetItems)
            /\ c.egressFilter.blockedPorts = Absent \/ IsList(c.egressFilter.blockedPorts, Ports)
        BY <4>1, EgressLists
      <4> QED
        BY <4>2, ListItems
    <3>2. IPScripts("egress", ResolveIPList(c, c.egressFilter.blockedIps)) \in Seq(ScriptRecord)
      BY <3>1, Resolved, IPScriptsType
    <3>3. /\ Script("egress", "ports", Items(c.egressFilter.blockedPorts)) \in Seq(ScriptRecord)
          /\ Script("egress", "ports6", Items(c.egressFilter.blockedPorts)) \in Seq(ScriptRecord)
      BY <3>1, ScriptOfPorts
    <3> QED
      BY <2>1, <3>2, <3>3
  <2>2. CASE ~On(c.egressFilter)
    BY <2>2
  <2> QED
    BY <2>1, <2>2
<1>3. FilterScripts(c) = in \o out
  BY DEF FilterScripts
<1> HIDE DEF in, out
<1> QED
  BY <1>1, <1>2, <1>3

\* Their positions.
LEMMA ScriptsAreSeq ==
  ASSUME NEW c, ValidatePluginConfig(c)
  PROVE  /\ DOMAIN FilterScripts(c) \subseteq Nat
         /\ \A i \in DOMAIN FilterScripts(c) : FilterScripts(c)[i] \in ScriptRecord
<1>1. FilterScripts(c) \in Seq(ScriptRecord)
  BY FilterScriptsType
<1> HIDE DEF ScriptRecord
<1> QED
  BY <1>1
-----------------------------------------------------------------------------
(* The steps that change the nft sets. *)

\* The bound on the scripts that fail.
LEMMA CountType ==
  ASSUME IInv, NEW fails \in Failing, Count(fails)
  PROVE  failures' \in 0..MaxFailures /\ fails \in BOOLEAN
<1>1. failures \in Nat /\ failures <= MaxFailures /\ MaxFailures \in Nat
  BY ServiceAssumption DEF IInv, GhostTypes
<1>2. fails \in BOOLEAN /\ (fails => failures < MaxFailures)
  BY DEF Failing
<1>3. CASE fails
  <2>1. failures < MaxFailures /\ failures' = failures + 1
    BY <1>2, <1>3 DEF Count
  <2> QED
    BY <1>1, <1>2, <2>1
<1>4. CASE ~fails
  <2>1. failures' = failures
    BY <1>4 DEF Count
  <2> QED
    BY <1>1, <1>2, <2>1
<1> QED
  BY <1>2, <1>3, <1>4

\* A client goes on after a script: a writer that has not ended, or one that
\* adds to or takes from the torrent set only.
LEMMA MovesTables ==
  ASSUME IInv, NEW p \in Clients, NEW label \in Labels, NEW c \in CallRecord, Continue(p, label, c),
         UNCHANGED <<available, serviceVars, coreVars, calls, starts>>,
         failures' \in 0..MaxFailures,
         tables' \in TablesRecord, excused' \subseteq tables'.torrent, available \/ tables' = tables,
         \/ Writing(p) /\ Disturbs(p)'
         \/ /\ Disturbs(p) => Disturbs(p)'
            /\ \A f \in Filters : tables'[f] = tables[f]
            /\ IgnoredIsNotBlocked => IgnoredIsNotBlocked',
         c.op = call[p].op, c.alone = call[p].alone,
         call[p].alone /\ Pending(p) => Pending(p)' \/ WiredFor(state.torrent),
         Own(p)'
  PROVE  IInv'
<1>0. /\ UNCHANGED <<available, state, reports, core, online, wiring, startPc, opts>>
      /\ UNCHANGED <<trust, acked, mixed, calls, starts>>
      /\ Goto(p, label) /\ Note(p, c)
  BY DEF Continue, serviceVars, coreVars
<1>1. /\ CallTypes' /\ AloneInv' /\ pc'[p] = label /\ call'[p] = c
      /\ \A q \in Clients \ {p} : pc'[q] = pc[q] /\ call'[q] = call[q]
      /\ \A q \in Clients : Writing(q)' => Writing(q) /\ call'[q].alone = call[q].alone
  BY <1>0, OneMoves DEF IInv
<1>2. CoreTypes' /\ OptsInv'
  BY <1>0, CoreKept DEF IInv
<1>3. StateTypes' /\ ReportsBelong'
  <2>1. ~available => tables' = EmptyTables
    BY DEF IInv, StateTypes
  <2>2. StateTypes'
    BY <1>0, <2>1 DEF IInv, StateTypes
  <2>3. ReportsBelong'
    BY <1>0 DEF IInv, ReportsBelong
  <2> QED
    BY <2>2, <2>3
<1>4. GhostTypes'
  BY <1>0 DEF IInv, GhostTypes
<1>5. (\A q \in Clients : Own(q)') /\ TablesInv'
  <2>1. CASE Writing(p) /\ Disturbs(p)'
    <3>1. ASSUME NEW q \in Clients, q # p  PROVE Own(q)'
      <4>1. Writing(q) => ~call[q].alone
        BY <2>1, <3>1 DEF IInv, AloneInv
      <4>2. Own(q) /\ call[q] \in CallRecord
        BY DEF IInv, CallTypes
      <4> QED
        BY <1>0, <1>1, <3>1, <4>1, <4>2, OwnOfOther
    <3>2. TablesInv'
      BY <2>1 DEF TablesInv
    <3> QED
      BY <3>1, <3>2
  <2>2. CASE /\ Disturbs(p) => Disturbs(p)'
             /\ \A f \in Filters : tables'[f] = tables[f]
             /\ IgnoredIsNotBlocked => IgnoredIsNotBlocked'
    <3>1. \A q \in Clients \ {p} : Own(q)'
      BY <1>0, <1>1, <2>2, OwnKept DEF IInv
    <3>2. \A q \in Clients : Disturbs(q) => Disturbs(q)'
      BY <1>0, <1>1, <2>2 DEF Disturbs
    <3>3. TablesInv'
      BY <1>0, <2>2, <3>2, TablesKept DEF IInv
    <3> QED
      BY <3>1, <3>3
  <2> QED
    BY <2>1, <2>2
<1>6. AckedInv'
  BY <1>0, <1>1, AckedKept DEF IInv
<1>7. WiredInv'
  <2>1. \A q \in Clients : call'[q].alone => call[q].alone
    BY <1>1
  <2>2. ASSUME \A q \in Clients : call[q].alone, NEW q \in Clients, Pending(q)
        PROVE  Pending(q)' \/ WiredFor(state.torrent)
    <3>1. CASE q = p
      BY <2>2, <3>1
    <3>2. CASE q # p
      BY <2>2, <3>2, <1>0, <1>1 DEF Pending, WiredFor
    <3> QED
      BY <3>1, <3>2
  <2> QED
    BY <1>0, <2>1, <2>2, WiredKept DEF IInv
<1> QED
  BY <1>1, <1>2, <1>3, <1>4, <1>5, <1>6, <1>7 DEF IInv

\* What recreateTables leaves.
LEMMA Recreated ==
  ASSUME IInv, NEW fails \in Failing, RecreateTables(fails)
  PROVE  /\ tables' \in TablesRecord /\ excused' \subseteq tables'.torrent
         /\ failures' \in 0..MaxFailures /\ fails \in BOOLEAN
         /\ ~fails => tables' = EmptyTables
         /\ ~available => tables' = tables
<1>1. failures' \in 0..MaxFailures /\ fails \in BOOLEAN
  BY CountType DEF RecreateTables
<1>2. EmptyTables \in TablesRecord /\ EmptyTables.torrent = {}
  BY DEF EmptyTables, TablesRecord
<1>3. tables \in TablesRecord /\ excused \subseteq tables.torrent /\ (~available => tables = EmptyTables)
  BY DEF IInv, StateTypes
<1>4. CASE fails
  BY <1>1, <1>2, <1>3, <1>4 DEF RecreateTables
<1>5. CASE ~fails
  BY <1>1, <1>2, <1>3, <1>5 DEF RecreateTables
<1> QED
  BY <1>1, <1>4, <1>5

\* recreateTables, before the filters of a sync or in ResetPlugins.
LEMMA TablesStep ==
  ASSUME IInv, NEW p \in Clients, Tables(p)
  PROVE  IInv'
<1>0. /\ call[p] \in CallRecord /\ pc[p] \in {"tables", "flush"} /\ LabelInv(p) /\ StateInv(p)
  BY ClientTypes DEF Tables
<1>1. UNCHANGED <<available, serviceVars, coreVars, calls, starts>> /\ UNCHANGED <<available, state>>
  BY DEF Tables, serviceVars
<1>2. PICK fails \in Failing :
        /\ RecreateTables(fails)
        /\ IF pc[p] = "flush" THEN Continue(p, AfterReset(p), Rebuilt(p, fails))
           ELSE Continue(p, "filters", [Rebuilt(p, fails) EXCEPT !.todo = DOMAIN FilterScripts(call[p].plugin)])
  BY DEF Tables
<1>3. /\ tables' \in TablesRecord /\ excused' \subseteq tables'.torrent
      /\ failures' \in 0..MaxFailures /\ fails \in BOOLEAN /\ (~fails => tables' = EmptyTables)
  BY <1>2, Recreated
<1>4. available /\ ~call[p].changed /\ Writing(p) /\ call[p].op \in {"sync", "stop"}
  BY <1>0 DEF LabelInv, Syncing, Accepted, Writing, Writers
<1>5. ~fails => IgnoredIsNotBlocked'
  BY <1>3 DEF IgnoredIsNotBlocked, EmptyTables
<1>6. CASE pc[p] = "flush"
  <2> DEFINE c == Rebuilt(p, fails)
             label == AfterReset(p)
  <2>1. Continue(p, label, c)
    BY <1>2, <1>6
  <2>2. /\ c \in CallRecord /\ c.op = call[p].op /\ c.plugin = call[p].plugin /\ c.ok = call[p].ok
        /\ c.alone = call[p].alone /\ ~c.changed /\ c.built /\ c.failed = fails
    BY <1>0, <1>3, <1>4 DEF CallRecord, Rebuilt
  <2>3. /\ label \in {"ifOnline", "halt"} /\ (label = "ifOnline" <=> c.op = "sync")
        /\ (call[p].op = "sync" /\ call[p].ok => call[p].plugin = None)
    BY <1>0, <1>4, <1>6, <2>2 DEF AfterReset, LabelInv
  <2> HIDE DEF c, label
  <2>4. pc'[p] = label /\ call'[p] = c
    BY <2>1, Moved
  <2>5. LabelInv(p)'
    BY <1>1, <1>4, <2>2, <2>3, <2>4, NoCallType DEF LabelInv, Syncing, Accepted, Hooking, Writing, Writers
  <2>6. StateInv(p)' /\ HookInv(p)'
    BY <1>0, <1>1, <1>4, <1>6, <2>2, <2>3, <2>4 DEF StateInv, HookInv
  <2>7. BuiltInv(p)'
    <3> SUFFICES ASSUME call[p].alone, ~fails  PROVE IgnoredIsNotBlocked' /\ FiltersExact'
      BY <2>2, <2>3, <2>4 DEF BuiltInv
    <3>1. state.plugin = None
      BY <1>0, <1>6 DEF StateInv
    <3> QED
      BY <1>1, <1>3, <1>5, <3>1 DEF FiltersExact, EmptyTables, Filters
  <2>8. label \in Labels /\ ~Pending(p) /\ Disturbs(p)'
    BY <1>1, <1>4, <1>6, <2>2, <2>3, <2>4 DEF Labels, Syncing, Pending, Disturbs
  <2> QED
    <3>1. Own(p)'
      BY <2>5, <2>6, <2>7 DEF Own
    <3> QED
      BY <1>1, <1>3, <1>4, <2>1, <2>2, <2>8, <3>1, MovesTables
<1>7. CASE pc[p] = "tables"
  <2> DEFINE todo == DOMAIN FilterScripts(call[p].plugin)
             c == [Rebuilt(p, fails) EXCEPT !.todo = todo]
  <2>1. Continue(p, "filters", c)
    BY <1>2, <1>7
  <2>2. todo \in SUBSET Nat
    BY ScriptsAreSeq, <1>0, <1>7 DEF LabelInv, Accepted
  <2> HIDE DEF todo
  <2>3. /\ c \in CallRecord /\ c.op = call[p].op /\ c.plugin = call[p].plugin /\ c.ok = call[p].ok
        /\ c.alone = call[p].alone /\ ~c.changed /\ c.built /\ c.failed = fails /\ c.todo = todo
        /\ c.restart = call[p].restart
    BY <1>0, <1>3, <1>4, <2>2 DEF CallRecord, Rebuilt
  <2> HIDE DEF c
  <2>4. pc'[p] = "filters" /\ call'[p] = c
    BY <2>1, Moved
  <2>5. LabelInv(p)'
    <3>1. c.op = "sync" /\ ~c.ok /\ c.plugin # None /\ ValidatePluginConfig(c.plugin)
      BY <1>0, <1>7, <2>3 DEF LabelInv, Syncing, Accepted
    <3> QED
      BY <1>1, <1>4, <2>3, <2>4, <3>1, NoCallType
      DEF LabelInv, Syncing, Accepted, Hooking, Writing, Writers, todo
  <2>6. StateInv(p)' /\ HookInv(p)'
    <3>1. StateInv(p)'
      BY <1>0, <1>1, <1>7, <2>3, <2>4 DEF StateInv, SameHash
    <3> QED
      BY <1>4, <2>3, <2>4, <3>1 DEF HookInv
  <2>7. BuiltInv(p)'
    <3> SUFFICES ASSUME ~fails  PROVE IgnoredIsNotBlocked' /\ Progress(p)'
      BY <2>3, <2>4 DEF BuiltInv
    <3>1. \A f \in Filters : tables'[f] = {}
      BY <1>3 DEF EmptyTables, Filters
    <3>2. call'[p].plugin = call[p].plugin /\ call'[p].todo = todo
      BY <2>3, <2>4
    <3>3. Progress(p)'
      BY <3>1, <3>2 DEF Progress, todo
    <3> QED
      BY <1>5, <3>3
  <2>8. "filters" \in Labels /\ Disturbs(p)' /\ (Pending(p) => Pending(p)')
    BY <1>1, <1>4, <1>7, <2>3, <2>4 DEF Labels, Syncing, Accepted, Pending, Disturbs
  <2> QED
    <3>1. Own(p)'
      BY <2>5, <2>6, <2>7 DEF Own
    <3> QED
      BY <1>1, <1>3, <1>4, <2>1, <2>3, <2>8, <3>1, MovesTables
<1> QED
  BY <1>0, <1>6, <1>7
\* HandleRecreateTables empties the sets, which stay empty until the next sync.
LEMMA RecreateStep ==
  ASSUME IInv, NEW p \in Clients, HandleRecreateTables(p)
  PROVE  IInv'
<1>0. /\ call[p] \in CallRecord /\ pc[p] = "recreate" /\ LabelInv(p) /\ available \in BOOLEAN
  BY ClientTypes DEF HandleRecreateTables
<1>1. /\ UNCHANGED <<available, serviceVars, coreVars, calls, starts>>
      /\ UNCHANGED <<available, state, reports, core, online, wiring, startPc, opts>>
  BY DEF HandleRecreateTables, serviceVars, coreVars
<1>2. call[p].op = "recreate" /\ ~call[p].changed /\ Writing(p) /\ ~Pending(p)
  BY <1>0 DEF LabelInv, Writing, Writers, Pending
<1>3. CASE ~available
  <2>1. Answer(p, FALSE) /\ UNCHANGED <<tables, failures, excused>>
    BY <1>3 DEF HandleRecreateTables
  <2>2. TrueAnswer(p, FALSE)
    BY <1>2 DEF TrueAnswer
  <2> QED
    BY <1>0, <1>1, <1>2, <2>1, <2>2, EndsApart DEF boundVars
<1>4. CASE available
  <2>1. PICK fails \in Failing : RecreateTables(fails) /\ Finish(p, Rebuilt(p, fails), ~fails)
    BY <1>4 DEF HandleRecreateTables
  <2>2. /\ tables' \in TablesRecord /\ excused' \subseteq tables'.torrent
        /\ failures' \in 0..MaxFailures /\ fails \in BOOLEAN /\ (~fails => tables' = EmptyTables)
    BY <2>1, Recreated
  <2> DEFINE c == Rebuilt(p, fails)
  <2>3. /\ c.op = call[p].op /\ c.plugin = call[p].plugin /\ c.alone = call[p].alone
        /\ c.built /\ c.failed = fails /\ c.alone \in BOOLEAN
    BY <1>0 DEF CallRecord, Rebuilt
  <2>4. Goto(p, "idle") /\ Note(p, NoCall) /\ Finish(p, c, ~fails)
    BY <2>1 DEF Finish
  <2> HIDE DEF c
  <2>5. /\ CallTypes' /\ AloneInv' /\ pc'[p] = "idle" /\ call'[p] = NoCall
        /\ \A q \in Clients \ {p} : pc'[q] = pc[q] /\ call'[q] = call[q]
        /\ \A q \in Clients : Writing(q)' => Writing(q)
    BY <2>4, NoCallType, OneMoves DEF IInv, Labels
  <2>6. StateTypes' /\ ReportsBelong'
    BY <1>1, <1>4, <2>2 DEF IInv, StateTypes, ReportsBelong
  <2>7. CoreTypes' /\ OptsInv'
    BY <1>1, CoreKept DEF IInv
  <2>8. \A q \in Clients : Own(q)'
    <3>1. ASSUME NEW q \in Clients, q # p  PROVE Own(q)'
      <4>1. Writing(q) => ~call[q].alone
        BY <1>2, <3>1 DEF IInv, AloneInv
      <4>2. Own(q) /\ call[q] \in CallRecord
        BY DEF IInv, CallTypes
      <4> QED
        BY <1>1, <2>5, <3>1, <4>1, <4>2, OwnOfOther
    <3>2. Own(p)'
      BY <2>5, OwnEnd
    <3> QED
      BY <3>1, <3>2
  <2>9. TablesInv' /\ trust' \in {"exact", "wiped", "unknown"}
    <3>1. CASE ~call[p].alone \/ fails
      <4>1. trust' = "unknown"
        BY <2>3, <2>4, <3>1 DEF Finish
      <4> QED
        BY <4>1 DEF TablesInv
    <3>2. CASE call[p].alone /\ ~fails
      <4>1. trust' = "wiped"
        BY <1>2, <2>3, <2>4, <3>2 DEF Finish
      <4>2. FiltersFollow' /\ IgnoredIsNotBlocked'
        BY <2>2, <3>2, <4>1 DEF FiltersFollow, IgnoredIsNotBlocked, EmptyTables, Filters
      <4> QED
        BY <4>1, <4>2 DEF TablesInv
    <3> QED
      BY <3>1, <3>2
  <2>10. AckedInv' /\ acked' \in [known : BOOLEAN, plugin : Plugins \cup {None}]
    <3>1. TrueAnswer(p, ~fails) /\ (~fails) \in BOOLEAN
      BY <1>2 DEF TrueAnswer
    <3> QED
      BY <1>1, <2>3, <2>4, <2>5, <3>1, AckedEnd DEF IInv, GhostTypes
  <2>11. GhostTypes'
    <3>1. mixed' \in BOOLEAN
      BY <2>4 DEF Finish
    <3> QED
      BY <1>1, <2>2, <2>9, <2>10, <3>1 DEF IInv, GhostTypes
  <2>12. WiredInv'
    BY <1>0, <1>1, <1>2, <2>3, <2>4, <2>5, WiredEnd DEF IInv, GhostTypes
  <2> QED
    BY <2>5, <2>6, <2>7, <2>8, <2>9, <2>10, <2>11, <2>12 DEF IInv
<1> QED
  BY <1>0, <1>3, <1>4
\* Every set of numbers that is not empty has a least one.
LEMMA LeastExists ==
  ASSUME NEW S \in SUBSET Nat, S # {}
  PROVE  \E m \in S : \A k \in S : m <= k
<1> DEFINE R == {ss \in Nat \X Nat : ss[1] < ss[2]}
<1>1. OpToRel(<, Nat) = R
  BY DEF OpToRel
<1>2. IsWellFoundedOn(R, Nat)
  BY <1>1, NatLessThanWellFounded
<1>3. PICK m \in S : \A k \in S : ~(<<k, m>> \in R)
  <2> HIDE DEF R
  <2> QED
    BY <1>2, WFMin
<1>4. \A k \in S : m <= k
  <2> SUFFICES ASSUME NEW k \in S PROVE m <= k
    OBVIOUS
  <2>1. k \in Nat /\ m \in Nat
    OBVIOUS
  <2>2. <<k, m>> \notin R
    BY <1>3
  <2> QED
    BY <2>1, <2>2
<1> QED
  BY <1>4

\* A script fills a set with what belongs there.
LEMMA FilledType ==
  ASSUME NEW t \in TablesRecord, NEW s \in ScriptRecord
  PROVE  /\ [t EXCEPT ![s.set] = @ \cup s.elements] \in TablesRecord
         /\ [t EXCEPT ![s.set] = @ \cup s.elements].torrent = t.torrent
         /\ s.set \in Filters
         /\ \A f \in Filters : [t EXCEPT ![s.set] = @ \cup s.elements][f] =
                                 IF f = s.set THEN t[f] \cup s.elements ELSE t[f]
<1>1. CASE s.set = "ingress"
  <2>1. s.elements \subseteq Addrs
    BY <1>1 DEF ScriptRecord
  <2> QED
    BY <1>1, <2>1 DEF TablesRecord, Filters
<1>2. CASE s.set = "egress"
  <2>1. s.elements \subseteq Addrs
    BY <1>2 DEF ScriptRecord
  <2> QED
    BY <1>2, <2>1 DEF TablesRecord, Filters
<1>3. CASE s.set = "ports"
  <2>1. s.elements \subseteq Ports
    BY <1>3 DEF ScriptRecord
  <2> QED
    BY <1>3, <2>1 DEF TablesRecord, Filters
<1>4. CASE s.set = "ports6"
  <2>1. s.elements \subseteq Ports
    BY <1>4 DEF ScriptRecord
  <2> QED
    BY <1>4, <2>1 DEF TablesRecord, Filters
<1>5. s.set \in {"ingress", "egress", "ports", "ports6"}
  BY DEF ScriptRecord
<1> QED
  BY <1>1, <1>2, <1>3, <1>4, <1>5

\* The scripts of a sync have all been run: the sets are those of its plugin.
LEMMA FiltersDone ==
  ASSUME NEW p \in Clients, Progress(p), call[p].todo = {}, state.plugin = call[p].plugin, state.plugin # None
  PROVE  FiltersExact
<1> DEFINE scripts == FilterScripts(call[p].plugin)
<1> SUFFICES ASSUME NEW f \in Filters
             PROVE  tables[f] = UNION {s.elements : s \in {t \in Range(FilterScripts(state.plugin)) : t.set = f}}
  BY DEF FiltersExact
<1>1. tables[f] = UNION {scripts[i].elements : i \in {j \in DOMAIN scripts : scripts[j].set = f}}
  BY DEF Progress
<1>2. {scripts[i].elements : i \in {j \in DOMAIN scripts : scripts[j].set = f}}
        = {s.elements : s \in {t \in Range(scripts) : t.set = f}}
  <2> HIDE DEF scripts
  <2> QED
    BY DEF Range
<1> QED
  BY <1>1, <1>2

\* The filters of a sync: all done, a script run, or an error.
LEMMA SyncFiltersStep ==
  ASSUME IInv, NEW p \in Clients, SyncFilters(p)
  PROVE  IInv'
<1>0. /\ call[p] \in CallRecord /\ pc[p] = "filters" /\ LabelInv(p) /\ StateInv(p) /\ BuiltInv(p)
  BY ClientTypes DEF SyncFilters
<1>1. /\ UNCHANGED <<available, serviceVars, coreVars, calls, starts, excused>>
      /\ UNCHANGED <<available, state, excused>>
  BY DEF SyncFilters, serviceVars
<1>2. /\ available /\ call[p].op = "sync" /\ ~call[p].ok /\ ~call[p].changed /\ call[p].built /\ Writing(p)
      /\ call[p].plugin # None /\ ValidatePluginConfig(call[p].plugin)
      /\ call[p].todo \subseteq DOMAIN FilterScripts(call[p].plugin)
  BY <1>0 DEF LabelInv, Syncing, Accepted, Writing, Writers
<1>3. CASE call[p].todo = {}
  <2>1. Continue(p, "restart", call[p]) /\ UNCHANGED <<tables, failures>>
    BY <1>3 DEF SyncFilters
  <2>2. pc'[p] = "restart" /\ call'[p] = call[p]
    BY <2>1, Moved
  <2>3. LabelInv(p)'
    BY <1>0, <1>1, <1>2, <2>2 DEF LabelInv, Syncing, Accepted, Hooking, Writing, Writers
  <2>4. StateInv(p)' /\ HookInv(p)'
    <3>1. StateInv(p)'
      BY <1>0, <1>1, <1>2, <2>2 DEF StateInv, SameHash
    <3> QED
      BY <1>2, <2>2, <3>1 DEF HookInv
  <2>5. BuiltInv(p)'
    <3> SUFFICES ASSUME call[p].alone, ~call[p].failed  PROVE IgnoredIsNotBlocked' /\ FiltersExact'
      BY <2>2 DEF BuiltInv
    <3>1. IgnoredIsNotBlocked /\ Progress(p) /\ state.plugin = call[p].plugin
      BY <1>0, <1>2 DEF BuiltInv, StateInv
    <3>2. FiltersExact
      BY <1>2, <1>3, <3>1, FiltersDone
    <3> QED
      BY <1>1, <2>1, <3>1, <3>2 DEF IgnoredIsNotBlocked, FiltersExact
  <2>6. "restart" \in Labels /\ Disturbs(p)' /\ (Pending(p) => Pending(p)')
    BY <1>0, <1>1, <1>2, <2>2 DEF Labels, Syncing, Accepted, Pending, Disturbs
  <2> QED
    <3>1. UNCHANGED <<available, serviceVars, tables, coreVars, boundVars, excused>>
      BY <1>1, <2>1 DEF boundVars
    <3> QED
      BY <1>0, <2>1, <2>3, <2>4, <2>5, <2>6, <3>1, Moves DEF Own
<1>4. CASE call[p].todo # {}
  <2> DEFINE scripts == FilterScripts(call[p].plugin)
             i == CHOOSE j \in call[p].todo : \A k \in call[p].todo : j <= k
             s == scripts[i]
             failing == [call[p] EXCEPT !.failed = TRUE, !.todo = {j \in @ : scripts[j].filter # s.filter}]
             going == [call[p] EXCEPT !.todo = @ \ {i}]
             filled == [tables EXCEPT ![s.set] = @ \cup s.elements]
  <2>1. i \in call[p].todo
    BY <1>0, <1>4, LeastExists DEF CallRecord
  <2>2. s \in ScriptRecord
    BY <1>2, <2>1, ScriptsAreSeq
  <2>3. \/ Count(FALSE) /\ tables' = filled /\ Continue(p, "filters", going)
        \/ TRUE \in Failing /\ Count(TRUE) /\ Continue(p, "filters", failing) /\ UNCHANGED tables
        \/ Continue(p, "filters", failing) /\ UNCHANGED <<tables, failures>>
    BY <1>4 DEF SyncFilters
  <2>4. tables \in TablesRecord /\ excused \subseteq tables.torrent
    BY DEF IInv, StateTypes
  <2>5. /\ filled \in TablesRecord /\ filled.torrent = tables.torrent
        /\ \A f \in Filters : filled[f] = IF f = s.set THEN tables[f] \cup s.elements ELSE tables[f]
    <3> HIDE DEF s
    <3> QED
      BY <2>2, <2>4, FilledType
  <2>6. /\ failing \in CallRecord /\ failing.failed /\ failing.todo \subseteq call[p].todo
        /\ going \in CallRecord /\ going.failed = call[p].failed /\ going.todo = call[p].todo \ {i}
        /\ \A f \in {"op", "plugin", "changed", "restart", "blocked", "ok", "alone", "built"} :
             failing[f] = call[p][f] /\ going[f] = call[p][f]
    <3> HIDE DEF s, i, scripts
    <3> QED
      BY <1>0 DEF CallRecord
  <2> HIDE DEF failing, going, filled
  <2>7. PICK c \in CallRecord :
          /\ Continue(p, "filters", c)
          /\ \A f \in {"op", "plugin", "changed", "restart", "blocked", "ok", "alone", "built"} :
               c[f] = call[p][f]
          /\ c.todo \subseteq call[p].todo
          /\ \/ c.failed
             \/ c.failed = call[p].failed /\ c.todo = call[p].todo \ {i} /\ tables' = filled
          /\ failures' \in 0..MaxFailures
          /\ tables' \in TablesRecord /\ tables'.torrent = tables.torrent
    <3>1. failures \in 0..MaxFailures /\ FALSE \in Failing
      BY DEF IInv, GhostTypes, Failing
    <3>2. CASE Count(FALSE) /\ tables' = filled /\ Continue(p, "filters", going)
      <4>1. failures' \in 0..MaxFailures
        BY <3>1, <3>2, CountType
      <4> QED
        BY <2>5, <2>6, <3>2, <4>1
    <3>3. CASE TRUE \in Failing /\ Count(TRUE) /\ Continue(p, "filters", failing) /\ UNCHANGED tables
      <4>1. failures' \in 0..MaxFailures
        BY <3>3, CountType
      <4> QED
        BY <2>4, <2>6, <3>3, <4>1
    <3>4. CASE Continue(p, "filters", failing) /\ UNCHANGED <<tables, failures>>
      BY <2>4, <2>6, <3>1, <3>4
    <3> QED
      BY <2>3, <3>2, <3>3, <3>4
  <2>8. /\ c.op = "sync" /\ c.plugin = call[p].plugin /\ ~c.ok /\ ~c.changed /\ c.built
        /\ c.restart = call[p].restart /\ c.alone = call[p].alone
    BY <1>2, <2>7
  <2>9. pc'[p] = "filters" /\ call'[p] = c
    BY <2>7, Moved
  <2>10. LabelInv(p)'
    BY <1>1, <1>2, <2>7, <2>8, <2>9, NoCallType DEF LabelInv, Syncing, Accepted, Hooking, Writing, Writers
  <2>11. StateInv(p)' /\ HookInv(p)'
    <3>1. StateInv(p)'
      BY <1>0, <1>1, <2>8, <2>9 DEF StateInv, SameHash
    <3> QED
      BY <2>8, <2>9, <3>1 DEF HookInv
  <2>12. BuiltInv(p)'
    <3> SUFFICES ASSUME c.alone, ~c.failed  PROVE IgnoredIsNotBlocked' /\ Progress(p)'
      BY <2>9 DEF BuiltInv
    <3>1. ~call[p].failed /\ c.todo = call[p].todo \ {i} /\ tables' = filled
      BY <2>7
    <3>2. IgnoredIsNotBlocked /\ Progress(p)
      BY <1>0, <1>2, <2>8, <3>1 DEF BuiltInv
    <3>3. IgnoredIsNotBlocked'
      BY <1>1, <2>7, <3>2 DEF IgnoredIsNotBlocked
    <3>4. ASSUME NEW f \in Filters
          PROVE  filled[f] = UNION {scripts[k].elements :
                                      k \in {j \in DOMAIN scripts \ c.todo : scripts[j].set = f}}
      <4>1. tables[f] = UNION {scripts[k].elements :
                                 k \in {j \in DOMAIN scripts \ call[p].todo : scripts[j].set = f}}
        BY <3>2 DEF Progress
      <4>2. i \in DOMAIN scripts
        BY <1>2, <2>1
      <4>3. DOMAIN scripts \ c.todo = (DOMAIN scripts \ call[p].todo) \cup {i}
        BY <2>1, <3>1, <4>2
      <4>4. filled[f] = IF f = s.set THEN tables[f] \cup s.elements ELSE tables[f]
        BY <2>5
      <4> HIDE DEF i, scripts
      <4>5. CASE scripts[i].set = f
        <5>1. {j \in DOMAIN scripts \ c.todo : scripts[j].set = f}
                = {j \in DOMAIN scripts \ call[p].todo : scripts[j].set = f} \cup {i}
          BY <4>3, <4>5
        <5> QED
          BY <4>1, <4>4, <4>5, <5>1
      <4>6. CASE scripts[i].set # f
        <5>1. {j \in DOMAIN scripts \ c.todo : scripts[j].set = f}
                = {j \in DOMAIN scripts \ call[p].todo : scripts[j].set = f}
          BY <4>3, <4>6
        <5> QED
          BY <4>1, <4>4, <4>6, <5>1
      <4> QED
        BY <4>5, <4>6
    <3>5. Progress(p)'
      BY <2>8, <2>9, <3>1, <3>4 DEF Progress
    <3> QED
      BY <3>3, <3>5
  <2>13. "filters" \in Labels /\ Disturbs(p)' /\ (Pending(p) => Pending(p)')
    BY <1>0, <1>1, <1>2, <2>8, <2>9 DEF Labels, Syncing, Accepted, Pending, Disturbs
  <2>14. excused' \subseteq tables'.torrent
    BY <1>1, <2>4, <2>7
  <2>15. Own(p)'
    BY <2>10, <2>11, <2>12 DEF Own
  <2> HIDE DEF scripts, i, s
  <2>16. /\ UNCHANGED <<available, serviceVars, coreVars, calls, starts>>
         /\ c.op = call[p].op /\ "filters" \in Labels
    BY <1>1, <1>2, <2>8, <2>13
  <2> QED
    BY <1>2, <2>7, <2>8, <2>13, <2>14, <2>15, <2>16, MovesTables
<1> QED
  BY <1>3, <1>4
-----------------------------------------------------------------------------
(* The steps that touch the core. *)

\* Unwired is a wiring.
LEMMA UnwiredType == Unwired \in WiringRecord /\ ~Unwired.late
BY DEF Unwired, WiringRecord, TagLists

\* applyTorrentRestart: a core whose outbound is taken away has no blocker in
\* force, or the call overlaps another.
LEMMA ApplyTorrentRestartStep ==
  ASSUME IInv, NEW p \in Clients, ApplyTorrentRestart(p)
  PROVE  IInv'
<1>0. /\ call[p] \in CallRecord /\ pc[p] = "restart" /\ LabelInv(p) /\ StateInv(p) /\ BuiltInv(p)
  BY ClientTypes DEF ApplyTorrentRestart
<1>1. /\ UNCHANGED <<available, serviceVars, tables, core, online, startPc, opts, boundVars, excused>>
      /\ UNCHANGED <<available, state, tables, excused, calls, starts, failures>>
  BY DEF ApplyTorrentRestart, serviceVars, boundVars
<1>2. /\ call[p].op = "sync" /\ call[p].plugin # None /\ ValidatePluginConfig(call[p].plugin)
      /\ ~call[p].ok /\ ~call[p].changed
  BY <1>0 DEF LabelInv, Syncing, Accepted
<1>3. call[p].alone => SameHash(call[p].plugin) /\ (call[p].restart = "remove" => ~state.torrent.enabled)
  BY <1>0 DEF StateInv
<1>4. CASE call[p].restart = "stop"
  <2> DEFINE c == [call[p] EXCEPT !.ok = TRUE]
  <2>1. Continue(p, "ifOnline", c) /\ UNCHANGED wiring
    BY <1>4 DEF ApplyTorrentRestart
  <2>2. /\ c \in CallRecord /\ c.op = "sync" /\ c.plugin = call[p].plugin /\ c.ok /\ c.alone = call[p].alone
        /\ ~c.changed /\ c.built = call[p].built /\ c.failed = call[p].failed /\ c.blocked = call[p].blocked
    BY <1>0, <1>2 DEF CallRecord
  <2> HIDE DEF c
  <2>3. pc'[p] = "ifOnline" /\ call'[p] = c
    BY <2>1, Moved
  <2>4. LabelInv(p)'
    BY <1>0, <1>1, <1>2, <2>2, <2>3, NoCallType DEF LabelInv, Syncing, Accepted, Hooking, Writing, Writers
  <2>5. StateInv(p)' /\ HookInv(p)'
    <3>1. StateInv(p)'
      BY <1>1, <1>2, <1>3, <2>2, <2>3 DEF StateInv, SameHash
    <3> QED
      BY <2>2, <2>3, <3>1 DEF HookInv
  <2>6. BuiltInv(p)'
    BY <1>0, <1>1, <2>2, <2>3, BuiltKept
  <2>7. "ifOnline" \in Labels /\ Pending(p)' /\ (Disturbs(p) => Disturbs(p)')
    BY <1>0, <1>1, <1>2, <2>2, <2>3 DEF Labels, Syncing, Pending, Disturbs
  <2>8. UNCHANGED <<available, serviceVars, tables, coreVars, boundVars, excused>>
    BY <1>1, <2>1 DEF coreVars
  <2>9. Own(p)'
    BY <2>4, <2>5, <2>6 DEF Own
  <2> QED
    BY <1>2, <2>1, <2>2, <2>7, <2>8, <2>9, Moves
<1>5. CASE call[p].restart # "stop"
  <2>1. Answer(p, TRUE)
    BY <1>5 DEF ApplyTorrentRestart
  <2>2. TrueAnswer(p, TRUE)
    BY <1>2, <1>3 DEF TrueAnswer
  <2>3. /\ StateTypes' /\ CallTypes' /\ GhostTypes' /\ (\A q \in Clients : Own(q)')
        /\ AloneInv' /\ TablesInv' /\ AckedInv' /\ ReportsBelong'
        /\ \A q \in Clients \ {p} : pc'[q] = pc[q] /\ call'[q] = call[q]
    <3>1. failures' \in 0..MaxFailures
      BY <1>1 DEF IInv, GhostTypes
    <3> QED
      BY <1>0, <1>1, <1>2, <2>1, <2>2, <3>1, Ends
  <2>4. wiring' = wiring \/ (call[p].restart = "remove" /\ wiring' = [wiring EXCEPT !.outbound = FALSE])
    BY DEF ApplyTorrentRestart
  <2>5. CoreTypes' /\ OptsInv'
    <3>1. wiring' \in WiringRecord
      BY <2>4 DEF IInv, CoreTypes, WiringRecord
    <3>2. CoreTypes'
      BY <1>1, <3>1 DEF IInv, CoreTypes
    <3>3. OptsInv'
      BY <1>1 DEF IInv, OptsInv
    <3> QED
      BY <3>2, <3>3
  <2>6. WiredInv'
    <3>1. CASE call[p].restart = "remove" /\ call[p].alone
      <4>1. ~state'.torrent.enabled
        BY <1>1, <1>3, <3>1
      <4> QED
        BY <4>1 DEF WiredInv, WiredFor
    <3>2. CASE ~call[p].alone
      <4>1. mixed' = TRUE
        BY <1>0, <2>1, <3>2 DEF Answer, Finish
      <4> QED
        BY <4>1 DEF WiredInv
    <3>3. CASE call[p].restart # "remove"
      <4>1. ~Pending(p) /\ UNCHANGED <<core, wiring, state>>
        BY <1>0, <1>1, <1>5, <2>4, <3>3 DEF Pending
      <4>2. Finish(p, call[p], TRUE) /\ pc[p] # "halt" /\ mixed \in BOOLEAN /\ call[p].alone \in BOOLEAN
        BY <1>0, <2>1 DEF Answer, IInv, GhostTypes, CallRecord
      <4> QED
        BY <2>3, <4>1, <4>2, WiredEnd DEF IInv
    <3> QED
      BY <3>1, <3>2, <3>3
  <2> QED
    BY <2>3, <2>5, <2>6 DEF IInv
<1> QED
  BY <1>4, <1>5

\* What a lone sync answers after StopIfOnline.
LEMMA AfterStop ==
  ASSUME IInv, NEW p \in Clients, pc[p] \in {"ifOnline", "halt"}
  PROVE  /\ TrueAnswer(p, call[p].ok) /\ call[p].op \in {"sync", "stop"} /\ ~call[p].changed
         /\ call[p].ok \in BOOLEAN
<1>1. LabelInv(p) /\ StateInv(p) /\ call[p] \in CallRecord
  BY ClientTypes
<1>2. call[p].op \in {"sync", "stop"} /\ ~call[p].changed
  BY <1>1 DEF LabelInv, Syncing
<1>3. TrueAnswer(p, call[p].ok)
  BY <1>1 DEF StateInv, TrueAnswer
<1> QED
  BY <1>1, <1>2, <1>3 DEF CallRecord

\* StopIfOnline: a core that is left alone is marked.
LEMMA IfOnlineStep ==
  ASSUME IInv, NEW p \in Clients, IfOnline(p)
  PROVE  IInv'
<1>0. /\ call[p] \in CallRecord /\ pc[p] = "ifOnline" /\ LabelInv(p) /\ StateInv(p) /\ BuiltInv(p)
  BY ClientTypes DEF IfOnline
<1>1. /\ UNCHANGED <<available, serviceVars, tables, core, online, startPc, opts, boundVars, excused>>
      /\ UNCHANGED <<available, state, tables, excused, calls, starts, failures>>
  BY DEF IfOnline, serviceVars, boundVars
<1>2. /\ TrueAnswer(p, call[p].ok) /\ call[p].op = "sync" /\ ~call[p].changed /\ call[p].ok \in BOOLEAN
  BY <1>0, AfterStop DEF LabelInv, Syncing
<1>3. CASE online
  <2>1. Continue(p, "halt", call[p]) /\ UNCHANGED wiring
    BY <1>3 DEF IfOnline
  <2>2. pc'[p] = "halt" /\ call'[p] = call[p]
    BY <2>1, Moved
  <2>3. LabelInv(p)'
    BY <1>0, <1>1, <1>2, <2>2 DEF LabelInv, Syncing, Accepted, Hooking, Writing, Writers
  <2>4. StateInv(p)' /\ HookInv(p)'
    <3>1. StateInv(p)'
      BY <1>0, <1>1, <1>2, <2>2 DEF StateInv, SameHash
    <3> QED
      BY <1>2, <2>2, <3>1 DEF HookInv
  <2>5. BuiltInv(p)'
    BY <1>0, <1>1, <2>2, BuiltKept
  <2>6. "halt" \in Labels /\ Pending(p)' /\ (Disturbs(p) => Disturbs(p)')
    BY <1>0, <1>1, <1>2, <2>2 DEF Labels, Pending, Disturbs
  <2>7. UNCHANGED <<available, serviceVars, tables, coreVars, boundVars, excused>>
    BY <1>1, <2>1 DEF coreVars
  <2>8. Own(p)'
    BY <2>3, <2>4, <2>5 DEF Own
  <2> QED
    BY <1>0, <2>1, <2>6, <2>7, <2>8, Moves
<1>4. CASE ~online
  <2>1. Answer(p, call[p].ok) /\ wiring' = (IF core = "off" THEN wiring ELSE Late(wiring))
    BY <1>4 DEF IfOnline
  <2>2. /\ StateTypes' /\ CallTypes' /\ GhostTypes' /\ (\A q \in Clients : Own(q)')
        /\ AloneInv' /\ TablesInv' /\ AckedInv' /\ ReportsBelong'
    <3>1. failures' \in 0..MaxFailures
      BY <1>1 DEF IInv, GhostTypes
    <3> QED
      BY <1>0, <1>1, <1>2, <2>1, <3>1, Ends
  <2>3. wiring' \in WiringRecord /\ (core = "on" => wiring'.late)
    <3>1. wiring \in WiringRecord /\ core \in {"on", "off"}
      BY DEF IInv, CoreTypes
    <3>2. Late(wiring) \in WiringRecord /\ Late(wiring).late
      BY <3>1 DEF Late, WiringRecord
    <3> QED
      BY <2>1, <3>1, <3>2
  <2>4. CoreTypes' /\ OptsInv'
    <3>1. CoreTypes'
      BY <1>1, <2>3 DEF IInv, CoreTypes
    <3>2. OptsInv'
      BY <1>1 DEF IInv, OptsInv
    <3> QED
      BY <3>1, <3>2
  <2>5. WiredInv'
    BY <1>1, <2>3 DEF WiredInv
  <2> QED
    BY <2>2, <2>4, <2>5 DEF IInv
<1>5. online \in BOOLEAN
  BY DEF IInv, CoreTypes
<1> QED
  BY <1>3, <1>4, <1>5

\* Stop leaves no core, so no wiring.
LEMMA Stopped ==
  ASSUME Stop, startPc' \in {"idle"}, opts' \in WiringRecord
  PROVE  CoreTypes' /\ OptsInv' /\ WiredInv'
<1>1. core' = "off" /\ online' = FALSE /\ wiring' = Unwired
  BY DEF Stop
<1>2. CoreTypes'
  BY <1>1, UnwiredType DEF CoreTypes
<1>3. OptsInv' /\ WiredInv'
  BY <1>1 DEF OptsInv, WiredInv
<1> QED
  BY <1>2, <1>3

\* Manager.Stop.
LEMMA HaltStep ==
  ASSUME IInv, NEW p \in Clients, Halt(p)
  PROVE  IInv'
<1>0. /\ pc[p] = "halt" /\ startPc = "idle" /\ Stop /\ Answer(p, call[p].ok \/ call[p].op = "stop")
      /\ UNCHANGED <<available, serviceVars, tables, startPc, opts, boundVars, excused>>
      /\ UNCHANGED <<calls, starts, failures>>
  BY DEF Halt, boundVars
<1>1. /\ TrueAnswer(p, call[p].ok) /\ ~call[p].changed /\ call[p].ok \in BOOLEAN
  BY <1>0, AfterStop
<1>2. TrueAnswer(p, call[p].ok \/ call[p].op = "stop")
  BY <1>1 DEF TrueAnswer
<1>3. /\ StateTypes' /\ CallTypes' /\ GhostTypes' /\ (\A q \in Clients : Own(q)')
      /\ AloneInv' /\ TablesInv' /\ AckedInv' /\ ReportsBelong'
  <2>1. failures' \in 0..MaxFailures /\ (call[p].ok \/ call[p].op = "stop") \in BOOLEAN
    BY <1>0 DEF IInv, GhostTypes
  <2> QED
    BY <1>0, <1>1, <1>2, <2>1, Ends
<1>4. CoreTypes' /\ OptsInv' /\ WiredInv'
  BY <1>0, Stopped DEF IInv, CoreTypes
<1> QED
  BY <1>3, <1>4 DEF IInv

\* A step of the manager leaves the clients and the plugin as they are.
LEMMA ManagerKeeps ==
  ASSUME IInv, UNCHANGED <<available, serviceVars, tables, pc, call, calls, failures, trust, excused, acked>>,
         starts' \in 0..MaxStarts, mixed' \in BOOLEAN
  PROVE  /\ StateTypes' /\ CallTypes' /\ GhostTypes' /\ (\A q \in Clients : Own(q)')
         /\ AloneInv' /\ TablesInv' /\ AckedInv' /\ ReportsBelong'
<1>0. UNCHANGED <<available, state, reports, tables, pc, call, calls, failures, trust, excused, acked>>
  BY DEF serviceVars
<1>1. StateTypes' /\ ReportsBelong' /\ (IgnoredIsNotBlocked => IgnoredIsNotBlocked')
  BY <1>0, StateKept DEF IInv
<1>2. CallTypes' /\ GhostTypes'
  BY <1>0 DEF IInv, CallTypes, GhostTypes
<1>3. \A q \in Clients : Own(q)'
  BY <1>0, <1>1, OwnKept DEF IInv
<1>4. AloneInv' /\ \A q \in Clients : Writing(q)' => Writing(q)
  BY <1>0 DEF IInv, AloneInv, Writing
<1>5. TablesInv'
  <2>1. \A q \in Clients : Disturbs(q) => Disturbs(q)'
    BY <1>0 DEF Disturbs
  <2> QED
    BY <1>0, <1>1, <2>1, TablesKept DEF IInv
<1>6. AckedInv'
  BY <1>0, <1>4, AckedKept DEF IInv
<1> QED
  BY <1>1, <1>2, <1>3, <1>4, <1>5, <1>6

\* A start, until the new core is spawned, leaves the wiring as it is.
LEMMA WiringKept ==
  ASSUME IInv, UNCHANGED <<core, wiring, mixed, pc, call, state>>
  PROVE  WiredInv'
<1>1. \A q \in Clients : Pending(q) => Pending(q)'
  BY DEF Pending, WiredFor
<1> QED
  BY <1>1, WiredKept DEF IInv

\* A start of the core.
LEMMA StartStep ==
  ASSUME IInv, Start
  PROVE  IInv'
<1>0. /\ UNCHANGED <<available, serviceVars, tables, pc, call, calls, failures, trust, excused, acked>>
      /\ UNCHANGED <<state, pc, call>>
  BY DEF Start, serviceVars
<1>1. /\ starts \in 0..MaxStarts /\ mixed \in BOOLEAN /\ MaxStarts \in Nat
      /\ opts \in WiringRecord /\ wiring \in WiringRecord /\ online \in BOOLEAN
      /\ state.torrent.enabled \in BOOLEAN /\ state.torrent.tags \in TagLists
  BY ServiceAssumption DEF IInv, GhostTypes, CoreTypes, StateTypes, StateRecord, TorrentRecord
<1>2. ASSUME starts' \in 0..MaxStarts, mixed' \in BOOLEAN, CoreTypes', OptsInv', WiredInv'
      PROVE  IInv'
  BY <1>0, <1>2, ManagerKeeps DEF IInv
<1>3. CASE StartRender
  <2>1. /\ starts' = starts + 1 /\ startPc' = "tags" /\ starts < MaxStarts
        /\ opts' = [Unwired EXCEPT !.enabled = state.torrent.enabled, !.outbound = state.torrent.enabled]
        /\ UNCHANGED <<core, online, wiring, mixed>>
    BY <1>3 DEF StartRender
  <2>2. opts' \in WiringRecord /\ opts'.enabled = state.torrent.enabled /\ opts'.outbound = state.torrent.enabled
    BY <1>1, <2>1, UnwiredType DEF WiringRecord
  <2>3. starts' \in 0..MaxStarts /\ mixed' \in BOOLEAN
    BY <1>1, <2>1
  <2>4. CoreTypes' /\ OptsInv'
    BY <1>0, <2>1, <2>2 DEF IInv, CoreTypes, OptsInv
  <2> QED
    BY <1>0, <1>2, <2>1, <2>3, <2>4, WiringKept
<1>4. CASE StartDecide
  <2>1. startPc = "tags" /\ UNCHANGED <<core, wiring, starts, mixed>>
    BY <1>4 DEF StartDecide
  <2>2. CASE startPc' = "prepare" /\ online' \in {online, FALSE} /\ opts' = [opts EXCEPT !.tags = state.torrent.tags]
    <3>1. /\ opts' \in WiringRecord /\ opts'.tags = state.torrent.tags /\ opts'.late = opts.late
          /\ opts'.enabled = opts.enabled /\ opts'.outbound = opts.outbound
      BY <1>1, <2>2 DEF WiringRecord
    <3>2. CoreTypes'
      <4>1. CASE online' = online
        BY <2>1, <2>2, <3>1, <4>1 DEF IInv, CoreTypes
      <4>2. CASE online' = FALSE
        BY <2>1, <2>2, <3>1, <4>2 DEF IInv, CoreTypes
      <4> QED
        BY <2>2, <4>1, <4>2
    <3>3. OptsInv'
      BY <1>0, <2>1, <2>2, <3>1 DEF IInv, OptsInv
    <3> QED
      BY <1>0, <1>1, <1>2, <2>1, <3>2, <3>3, WiringKept
  <2>3. CASE online /\ startPc' = "idle" /\ opts' = Unwired /\ UNCHANGED online
    <3>1. CoreTypes' /\ OptsInv'
      BY <2>1, <2>3, UnwiredType DEF IInv, CoreTypes, OptsInv
    <3> QED
      BY <1>0, <1>1, <1>2, <2>1, <3>1, WiringKept
  <2> QED
    BY <1>4, <2>2, <2>3 DEF StartDecide
<1>5. CASE StartSpawn
  <2>1. startPc = "prepare" /\ opts' = Unwired /\ UNCHANGED starts
    BY <1>5 DEF StartSpawn
  <2>2. CASE startPc' = "idle" /\ UNCHANGED <<core, online, wiring, mixed>>
    <3>1. CoreTypes' /\ OptsInv'
      BY <2>1, <2>2, UnwiredType DEF IInv, CoreTypes, OptsInv
    <3> QED
      BY <1>0, <1>1, <1>2, <2>1, <2>2, <3>1, WiringKept
  <2>3. CASE startPc' = "idle" /\ Stop /\ mixed' = FALSE
    <3>1. CoreTypes' /\ OptsInv' /\ WiredInv'
      BY <2>1, <2>3, UnwiredType, Stopped
    <3> QED
      BY <1>1, <1>2, <2>1, <2>3, <3>1
  <2>4. CASE startPc' = "wait" /\ core' = "on" /\ online' = FALSE /\ wiring' = opts /\ mixed' = FALSE
    <3>1. CoreTypes' /\ OptsInv'
      BY <1>1, <2>1, <2>4, UnwiredType DEF IInv, CoreTypes, OptsInv
    <3>2. WiredInv'
      <4> SUFFICES ASSUME ~opts.late  PROVE WiredFor(state.torrent)'
        BY <2>4 DEF WiredInv
      <4>1. /\ opts.enabled = state.torrent.enabled /\ opts.outbound = state.torrent.enabled
            /\ opts.tags = state.torrent.tags
        BY <2>1 DEF IInv, OptsInv
      <4> QED
        BY <1>0, <2>4, <4>1 DEF WiredFor
    <3> QED
      BY <1>1, <1>2, <2>1, <2>4, <3>1, <3>2
  <2> QED
    BY <1>5, <2>2, <2>3, <2>4 DEF StartSpawn
<1>6. CASE StartWait
  <2>1. startPc = "wait" /\ startPc' = "idle" /\ UNCHANGED <<opts, starts>>
    BY <1>6 DEF StartWait
  <2>2. CASE online' = TRUE /\ UNCHANGED <<core, wiring, mixed>>
    <3>1. CoreTypes' /\ OptsInv'
      BY <2>1, <2>2 DEF IInv, CoreTypes, OptsInv
    <3> QED
      BY <1>0, <1>1, <1>2, <2>1, <2>2, <3>1, WiringKept
  <2>3. CASE Stop /\ mixed' = FALSE
    <3>1. CoreTypes' /\ OptsInv' /\ WiredInv'
      BY <1>1, <2>1, <2>3, Stopped
    <3> QED
      BY <1>1, <1>2, <2>1, <2>3, <3>1
  <2> QED
    BY <1>6, <2>2, <2>3 DEF StartWait
<1> QED
  BY <1>3, <1>4, <1>5, <1>6 DEF Start

\* The health poll.
LEMMA HealStep ==
  ASSUME IInv, Heal
  PROVE  IInv'
<1>0. /\ core = "on" /\ online' = TRUE
      /\ UNCHANGED <<available, serviceVars, tables, pc, call, calls, failures, trust, excused, acked>>
      /\ UNCHANGED <<core, wiring, startPc, opts, starts, mixed, pc, call, state>>
  BY DEF Heal, boundVars, ghostVars, serviceVars
<1>1. CoreTypes' /\ OptsInv'
  BY <1>0 DEF IInv, CoreTypes, OptsInv
<1>2. WiredInv'
  BY <1>0, WiringKept
<1>3. starts' \in 0..MaxStarts /\ mixed' \in BOOLEAN
  BY <1>0 DEF IInv, GhostTypes
<1> QED
  BY <1>0, <1>1, <1>2, <1>3, ManagerKeeps DEF IInv
-----------------------------------------------------------------------------
(* The steps of the webhooks, and of requests about addresses and reports. *)

\* A call that is no writer has read and rebuilt nothing.
LEMMA ApartCall ==
  ASSUME IInv, NEW p \in Clients, call[p].op \notin Writers
  PROVE  /\ ~call[p].changed /\ ~call[p].built /\ call[p].alone /\ ~Disturbs(p) /\ ~Pending(p)
         /\ \A ok : TrueAnswer(p, ok)
<1>1. LabelInv(p) /\ ~Writing(p)
  BY ClientTypes DEF Writing
<1>2. ~call[p].changed /\ ~call[p].built /\ call[p].alone /\ ~Pending(p)
  BY <1>1, PendingWrites DEF LabelInv, Writers, Syncing, Accepted
<1>3. ~Disturbs(p)
  BY <1>1, <1>2 DEF Disturbs, LabelInv, Writers, Syncing, Accepted
<1>4. \A ok : TrueAnswer(p, ok)
  BY DEF TrueAnswer, Writers
<1> QED
  BY <1>2, <1>3, <1>4

\* A webhook passes a check, or is dropped.
LEMMA ScreenStep ==
  ASSUME IInv, NEW p \in Clients, Screen(p)
  PROVE  IInv'
<1>0. /\ call[p] \in CallRecord /\ pc[p] \in {"enabled", "ignoredIp", "ignoredUser"} /\ LabelInv(p) /\ HookInv(p)
      /\ available \in BOOLEAN
  BY ClientTypes DEF Screen
<1>1. /\ UNCHANGED <<available, serviceVars, tables, coreVars, boundVars, excused>>
      /\ UNCHANGED <<available, state>>
  BY DEF Screen, serviceVars
<1>2. call[p].op = "hook" /\ call[p].ips # <<>> /\ Head(call[p].ips) \in Addrs
  BY <1>0 DEF LabelInv, Hooking
<1>3. /\ ~call[p].changed /\ ~call[p].built /\ call[p].alone /\ ~Disturbs(p) /\ ~Pending(p)
      /\ TrueAnswer(p, TRUE)
  BY <1>2, ApartCall DEF Writers
<1>4. CASE Answer(p, TRUE)
  BY <1>0, <1>1, <1>3, <1>4, EndsApart
<1>5. ASSUME NEW label \in {"ignoredIp", "ignoredUser", "block", "report"}, Continue(p, label, call[p]),
             label = "block" => available,
             label = "ignoredIp" => state.torrent.enabled,
             label # "ignoredIp" => pc[p] # "enabled",
             pc[p] = "ignoredIp" => Head(call[p].ips) \notin AlwaysIgnored \cup state.torrent.ignored
      PROVE  IInv'
  <2>1. pc'[p] = label /\ call'[p] = call[p]
    BY <1>5, Moved
  <2>2. LabelInv(p)'
    BY <1>0, <1>1, <1>2, <1>3, <1>5, <2>1 DEF LabelInv, Syncing, Accepted, Hooking, Writing, Writers
  <2>3. StateInv(p)' /\ BuiltInv(p)'
    BY <1>2, <1>3, <1>5, <2>1 DEF StateInv, BuiltInv
  <2>4. HookInv(p)'
    BY <1>0, <1>1, <1>2, <1>5, <2>1 DEF HookInv
  <2>5. label \in Labels /\ Own(p)'
    BY <2>2, <2>3, <2>4 DEF Own, Labels, Hooking
  <2> QED
    BY <1>0, <1>1, <1>3, <1>5, <2>5, Moves
<1>6. CASE pc[p] = "enabled"
  <2>1. (state.torrent.enabled /\ Continue(p, "ignoredIp", call[p])) \/ Answer(p, TRUE)
    BY <1>6 DEF Screen
  <2> QED
    BY <1>4, <1>5, <1>6, <2>1
<1>7. CASE pc[p] = "ignoredIp"
  <2>1. \/ /\ Head(call[p].ips) \notin AlwaysIgnored \cup state.torrent.ignored
           /\ Continue(p, "ignoredUser", call[p])
        \/ Answer(p, TRUE)
    BY <1>7 DEF Screen
  <2> QED
    BY <1>4, <1>5, <1>7, <2>1
<1>8. CASE pc[p] = "ignoredUser"
  <2>1. Continue(p, IF available THEN "block" ELSE "report", call[p]) \/ Answer(p, TRUE)
    BY <1>8 DEF Screen
  <2>2. CASE available
    BY <1>4, <1>5, <1>8, <2>1, <2>2
  <2>3. CASE ~available
    BY <1>4, <1>5, <1>8, <2>1, <2>3
  <2> QED
    BY <2>2, <2>3
<1> QED
  BY <1>0, <1>6, <1>7, <1>8

\* blockIP: by hand, or by a webhook that was marked if its checks are stale.
LEMMA BlockStep ==
  ASSUME IInv, NEW p \in Clients, BlockIP(p)
  PROVE  IInv'
<1>0. /\ call[p] \in CallRecord /\ pc[p] = "block" /\ LabelInv(p) /\ HookInv(p) /\ available \in BOOLEAN
  BY ClientTypes DEF BlockIP
<1>1. UNCHANGED <<available, serviceVars, coreVars, calls, starts>> /\ UNCHANGED <<available, state>>
  BY DEF BlockIP, serviceVars
<1>2. call[p].op \in {"hook", "block"}
  BY <1>0 DEF LabelInv, Hooking
<1>3. /\ ~call[p].changed /\ ~call[p].built /\ call[p].alone /\ ~Disturbs(p) /\ ~Pending(p)
      /\ \A ok : TrueAnswer(p, ok)
  BY <1>2, ApartCall DEF Writers
<1>4. CASE ~available \/ call[p].ips = <<>>
  <2>1. Answer(p, available) /\ UNCHANGED <<tables, failures, excused>>
    BY <1>4 DEF BlockIP
  <2> QED
    BY <1>0, <1>1, <1>3, <2>1, EndsApart DEF boundVars
<1>5. CASE available /\ call[p].ips # <<>>
  <2> DEFINE a == Head(call[p].ips)
  <2>1. PICK fails \in IF a = Junk THEN {TRUE} ELSE Failing :
          /\ IF a = Junk THEN UNCHANGED failures ELSE Count(fails)
          /\ tables' = IF fails THEN tables ELSE [tables EXCEPT !.torrent = @ \cup {a}]
          /\ excused' = IF ~fails /\ (call[p].op = "block" \/ call[p].crossed)
                          THEN excused \cup {a} ELSE excused
          /\ IF call[p].op = "hook" THEN Continue(p, "report", [call[p] EXCEPT !.blocked = ~fails])
             ELSE IF fails THEN Answer(p, FALSE)
             ELSE Continue(p, "block", [call[p] EXCEPT !.ips = Tail(@)])
    BY <1>5 DEF BlockIP
  <2>2. failures' \in 0..MaxFailures /\ fails \in BOOLEAN /\ (~fails => a \in Addrs)
    <3>1. call[p].ips \in Seq(Addrs \cup {Junk})
      BY <1>0 DEF CallRecord
    <3>2. a \in Addrs \cup {Junk} /\ Tail(call[p].ips) \in Seq(Addrs \cup {Junk})
      BY <1>5, <3>1
    <3> HIDE DEF a
    <3>3. CASE a = Junk
      BY <2>1, <3>3 DEF IInv, GhostTypes
    <3>4. CASE a # Junk
      BY <2>1, <3>2, <3>4, CountType
    <3> QED
      BY <3>3, <3>4
  <2>3. tables \in TablesRecord /\ excused \subseteq tables.torrent
    BY DEF IInv, StateTypes
  <2>4. call[p].op = "hook" /\ ~call[p].crossed /\ state.torrent.enabled =>
          a \notin AlwaysIgnored \cup state.torrent.ignored
    BY <1>0 DEF HookInv
  <2>5. Tail(call[p].ips) \in Seq(Addrs \cup {Junk})
    BY <1>0, <1>5 DEF CallRecord
  <2> HIDE DEF a
  <2>6. /\ tables' \in TablesRecord /\ excused' \subseteq tables'.torrent
        /\ \A f \in Filters : tables'[f] = tables[f]
        /\ IgnoredIsNotBlocked => IgnoredIsNotBlocked'
    <3>1. CASE fails
      BY <1>1, <2>1, <2>3, <3>1 DEF IgnoredIsNotBlocked
    <3>2. CASE ~fails
      <4> DEFINE t == [tables EXCEPT !.torrent = @ \cup {a}]
      <4>1. t \in TablesRecord /\ t.torrent = tables.torrent \cup {a} /\ \A f \in Filters : t[f] = tables[f]
        BY <2>2, <2>3, <3>2 DEF TablesRecord, Filters
      <4>2. tables' = t
        BY <2>1, <3>2
      <4> HIDE DEF t
      <4>3. excused' \subseteq tables'.torrent
        BY <2>1, <2>3, <4>1, <4>2
      <4>4. IgnoredIsNotBlocked => IgnoredIsNotBlocked'
        <5>1. excused \subseteq excused' /\ (call[p].op = "block" \/ call[p].crossed => a \in excused')
          BY <2>1, <3>2
        <5> QED
          BY <1>1, <1>2, <2>4, <4>1, <4>2, <5>1 DEF IgnoredIsNotBlocked
      <4> QED
        BY <4>1, <4>2, <4>3, <4>4
    <3> QED
      BY <2>2, <3>1, <3>2
  <2>7. ASSUME NEW label \in {"block", "report"}, NEW c \in CallRecord, Continue(p, label, c),
               c.op = call[p].op, ~c.changed, ~c.built, c.alone, c.crossed = call[p].crossed,
               \/ label = "block" /\ c.op = "block"
               \/ label = "report" /\ c.op = "hook" /\ c.ips = call[p].ips
        PROVE  IInv'
    <3>1. pc'[p] = label /\ call'[p] = c
      BY <2>7, Moved
    <3>2. LabelInv(p)'
      BY <1>0, <1>1, <1>2, <1>5, <2>7, <3>1, NoCallType
      DEF LabelInv, Syncing, Accepted, Hooking, Writing, Writers
    <3>3. StateInv(p)' /\ BuiltInv(p)'
      BY <2>7, <3>1 DEF StateInv, BuiltInv
    <3>4. HookInv(p)'
      BY <1>0, <1>1, <2>7, <3>1 DEF HookInv
    <3>5. label \in Labels /\ Own(p)'
      BY <3>2, <3>3, <3>4 DEF Own, Labels, Hooking
    <3> QED
      BY <1>1, <1>3, <1>5, <2>2, <2>6, <2>7, <3>5, MovesTables
  <2>8. CASE call[p].op = "hook"
    <3> DEFINE c == [call[p] EXCEPT !.blocked = ~fails]
    <3>1. Continue(p, "report", c)
      BY <2>1, <2>8
    <3>2. /\ c \in CallRecord /\ c.op = "hook" /\ ~c.changed /\ ~c.built /\ c.alone
          /\ c.crossed = call[p].crossed /\ c.ips = call[p].ips
      BY <1>0, <1>3, <2>8 DEF CallRecord
    <3> HIDE DEF c
    <3> QED
      BY <2>7, <2>8, <3>1, <3>2
  <2>9. CASE call[p].op = "block" /\ fails
    <3>1. Answer(p, FALSE) /\ UNCHANGED <<tables, excused>>
      BY <2>1, <2>9
    <3> QED
      BY <1>0, <1>1, <1>3, <2>2, <3>1, EndsFailing
  <2>10. CASE call[p].op = "block" /\ ~fails
    <3> DEFINE c == [call[p] EXCEPT !.ips = Tail(@)]
    <3>1. Continue(p, "block", c)
      BY <2>1, <2>10
    <3>2. /\ c \in CallRecord /\ c.op = "block" /\ ~c.changed /\ ~c.built /\ c.alone
          /\ c.crossed = call[p].crossed
      BY <1>0, <1>3, <2>5, <2>10 DEF CallRecord
    <3> HIDE DEF c
    <3> QED
      BY <2>7, <2>10, <3>1, <3>2
  <2> QED
    BY <1>2, <2>2, <2>8, <2>9, <2>10
<1> QED
  BY <1>0, <1>4, <1>5

\* unblockIP.
LEMMA UnblockStep ==
  ASSUME IInv, NEW p \in Clients, UnblockIP(p)
  PROVE  IInv'
<1>0. /\ call[p] \in CallRecord /\ pc[p] = "unblock" /\ LabelInv(p) /\ available \in BOOLEAN
  BY ClientTypes DEF UnblockIP
<1>1. UNCHANGED <<available, serviceVars, coreVars, calls, starts>> /\ UNCHANGED <<available, state>>
  BY DEF UnblockIP, serviceVars
<1>2. call[p].op = "unblock"
  BY <1>0 DEF LabelInv
<1>3. /\ ~call[p].changed /\ ~call[p].built /\ call[p].alone /\ ~Disturbs(p) /\ ~Pending(p)
      /\ \A ok : TrueAnswer(p, ok)
  BY <1>2, ApartCall DEF Writers
<1>4. CASE ~available \/ call[p].ips = <<>>
  <2>1. Answer(p, available) /\ UNCHANGED <<tables, failures, excused>>
    BY <1>4 DEF UnblockIP
  <2> QED
    BY <1>0, <1>1, <1>3, <2>1, EndsApart DEF boundVars
<1>5. CASE available /\ call[p].ips # <<>>
  <2> DEFINE a == Head(call[p].ips)
             c == [call[p] EXCEPT !.ips = Tail(@)]
  <2>1. PICK fails \in IF a \in tables.torrent THEN Failing ELSE {TRUE} :
          /\ IF a \in tables.torrent THEN Count(fails) ELSE UNCHANGED failures
          /\ tables' = IF fails THEN tables ELSE [tables EXCEPT !.torrent = @ \ {a}]
          /\ excused' = IF fails THEN excused ELSE excused \ {a}
          /\ IF fails THEN Answer(p, FALSE) ELSE Continue(p, "unblock", c)
    BY <1>5 DEF UnblockIP
  <2>2. /\ c \in CallRecord /\ c.op = "unblock" /\ ~c.changed /\ ~c.built /\ c.alone
        /\ c.blocked = call[p].blocked
    <3>1. Tail(call[p].ips) \in Seq(Addrs \cup {Junk})
      BY <1>0, <1>5 DEF CallRecord
    <3> QED
      BY <1>0, <1>2, <1>3, <3>1 DEF CallRecord
  <2> HIDE DEF a, c
  <2>3. failures' \in 0..MaxFailures /\ fails \in BOOLEAN
    <3>1. CASE a \in tables.torrent
      BY <2>1, <3>1, CountType
    <3>2. CASE a \notin tables.torrent
      BY <2>1, <3>2 DEF IInv, GhostTypes
    <3> QED
      BY <3>1, <3>2
  <2>4. CASE fails
    <3>1. Answer(p, FALSE) /\ UNCHANGED <<tables, excused>>
      BY <2>1, <2>4
    <3> QED
      BY <1>0, <1>1, <1>3, <2>3, <3>1, EndsFailing
  <2>5. CASE ~fails
    <3> DEFINE t == [tables EXCEPT !.torrent = @ \ {a}]
    <3>1. tables \in TablesRecord /\ excused \subseteq tables.torrent
      BY DEF IInv, StateTypes
    <3>2. t \in TablesRecord /\ t.torrent = tables.torrent \ {a} /\ \A f \in Filters : t[f] = tables[f]
      BY <3>1 DEF TablesRecord, Filters
    <3>3. tables' = t /\ excused' = excused \ {a} /\ Continue(p, "unblock", c)
      BY <2>1, <2>5
    <3> HIDE DEF t
    <3>4. /\ tables' \in TablesRecord /\ excused' \subseteq tables'.torrent
          /\ \A f \in Filters : tables'[f] = tables[f]
          /\ IgnoredIsNotBlocked => IgnoredIsNotBlocked'
      BY <1>1, <3>1, <3>2, <3>3 DEF IgnoredIsNotBlocked
    <3>5. pc'[p] = "unblock" /\ call'[p] = c
      BY <3>3, Moved
    <3>6. LabelInv(p)'
      BY <1>0, <1>1, <2>2, <3>5, NoCallType DEF LabelInv, Syncing, Accepted, Hooking, Writing, Writers
    <3>7. StateInv(p)' /\ HookInv(p)' /\ BuiltInv(p)'
      BY <2>2, <3>5 DEF StateInv, HookInv, BuiltInv
    <3>8. "unblock" \in Labels /\ Own(p)'
      BY <3>6, <3>7 DEF Own, Labels
    <3> QED
      BY <1>1, <1>2, <1>3, <1>5, <2>2, <2>3, <3>3, <3>4, <3>8, MovesTables
  <2> QED
    BY <2>3, <2>4, <2>5
<1> QED
  BY <1>0, <1>4, <1>5

\* A webhook or a request ends that changes nothing but the reports.
LEMMA EndsReporting ==
  ASSUME IInv, NEW p \in Clients, call[p].op \notin Writers, Answer(p, TRUE), pc[p] # "halt",
         pc[p] \notin {"tables", "flush", "filters"},
         UNCHANGED <<available, state, tables, coreVars, boundVars, excused>>, StateTypes', ReportsBelong'
  PROVE  IInv'
<1>0. UNCHANGED <<core, online, wiring, startPc, opts, calls, starts, failures>>
  BY DEF coreVars, boundVars
<1>1. failures' \in 0..MaxFailures
  BY <1>0 DEF IInv, GhostTypes
<1>2. ~call[p].changed /\ ~Pending(p) /\ TrueAnswer(p, TRUE)
  BY ApartCall
<1>3. /\ StateTypes' /\ CallTypes' /\ GhostTypes' /\ (\A q \in Clients : Own(q)')
      /\ AloneInv' /\ TablesInv' /\ AckedInv' /\ ReportsBelong'
      /\ \A q \in Clients \ {p} : pc'[q] = pc[q] /\ call'[q] = call[q]
  BY <1>0, <1>1, <1>2, EndsWell
<1>4. CoreTypes' /\ OptsInv'
  BY <1>0, CoreKept DEF IInv
<1>5. WiredInv'
  BY <1>0, <1>2, <1>3, WiredEnd DEF IInv, Answer, GhostTypes, CallTypes, CallRecord
<1> QED
  BY <1>3, <1>4, <1>5 DEF IInv

\* AddReport: without a plugin in force, the webhook was marked.
LEMMA ReportStep ==
  ASSUME IInv, NEW p \in Clients, Report(p)
  PROVE  IInv'
<1> DEFINE r == [ip |-> Head(call[p].ips), blocked |-> call[p].blocked, crossed |-> call[p].crossed]
<1>0. /\ call[p] \in CallRecord /\ pc[p] = "report" /\ LabelInv(p) /\ HookInv(p)
  BY ClientTypes DEF Report
<1>1. /\ reports' = reports \o <<r>> /\ Answer(p, TRUE)
      /\ UNCHANGED <<available, state, tables, coreVars, boundVars, excused>>
  BY DEF Report
<1>2. call[p].op = "hook" /\ Head(call[p].ips) \in Addrs /\ (call[p].blocked => available)
  BY <1>0 DEF LabelInv, Hooking
<1>3. r \in ReportRecord /\ (r.blocked => available)
  BY <1>0, <1>2 DEF CallRecord, ReportRecord
<1>4. state.plugin = None => r.crossed
  <2>1. state.plugin = None => ~state.torrent.enabled
    BY DEF IInv, StateTypes
  <2>2. ~call[p].crossed => state.torrent.enabled
    BY <1>0, <1>2 DEF HookInv
  <2> QED
    BY <2>1, <2>2
<1> HIDE DEF r
<1>5. reports \in Seq(ReportRecord)
  BY DEF IInv, StateTypes
<1>6. reports' \in Seq(ReportRecord) /\ Range(reports') = Range(reports) \cup {r}
  <2>1. reports' \in Seq(ReportRecord) /\ Len(reports') = Len(reports) + 1
    BY <1>1, <1>3, <1>5 DEF ReportRecord
  <2>2. \A i \in 1..Len(reports) : reports'[i] = reports[i]
    BY <1>1, <1>5
  <2>3. reports'[Len(reports) + 1] = r
    BY <1>1, <1>5
  <2>4. DOMAIN reports = 1..Len(reports) /\ DOMAIN reports' = 1..(Len(reports) + 1) /\ Len(reports) \in Nat
    BY <1>5, <2>1
  <2>5. DOMAIN reports' = DOMAIN reports \cup {Len(reports) + 1}
    BY <2>4
  <2> QED
    BY <2>1, <2>2, <2>3, <2>4, <2>5 DEF Range
<1>7. StateTypes'
  <2>1. \A s \in Range(reports') : s.blocked => available'
    BY <1>1, <1>3, <1>6 DEF IInv, StateTypes
  <2> QED
    BY <1>1, <1>6, <2>1 DEF IInv, StateTypes
<1>8. ReportsBelong'
  BY <1>1, <1>4, <1>6 DEF IInv, ReportsBelong
<1> QED
  BY <1>0, <1>1, <1>2, <1>7, <1>8, EndsReporting DEF Writers

\* FlushReports.
LEMMA CollectStep ==
  ASSUME IInv, NEW p \in Clients, CollectReports(p)
  PROVE  IInv'
<1>0. /\ pc[p] = "collect" /\ LabelInv(p)
  BY ClientTypes DEF CollectReports
<1>1. /\ reports' = <<>> /\ Answer(p, TRUE)
      /\ UNCHANGED <<available, state, tables, coreVars, boundVars, excused>>
  BY DEF CollectReports
<1>2. reports' \in Seq(ReportRecord) /\ Range(reports') = {}
  BY <1>1 DEF Range
<1>3. StateTypes' /\ ReportsBelong'
  BY <1>1, <1>2 DEF IInv, StateTypes, ReportsBelong
<1>4. call[p].op \notin Writers
  BY <1>0 DEF LabelInv, Writers
<1> QED
  BY <1>0, <1>1, <1>3, <1>4, EndsReporting
-----------------------------------------------------------------------------
(* A new call. *)

FirstLabel(r) ==
  CASE r.op = "sync" -> IF r.plugin = None THEN "clear" ELSE "unchanged"
    [] r.op = "stop" -> "reset"
    [] r.op = "hook" -> "enabled"
    [] OTHER -> r.op

\* A call before its first step.
NewCall(c) ==
  /\ c \in CallRecord /\ c.op \in {"sync", "stop", "recreate", "collect", "block", "unblock", "hook"}
  /\ ~c.changed /\ ~c.built /\ ~c.ok /\ ~c.blocked
  /\ c.op = "hook" => c.ips # <<>> /\ Head(c.ips) \in Addrs

\* A request is a call before its first step, alone or not.
LEMMA RequestType ==
  ASSUME NEW r \in Requests, NEW alone \in BOOLEAN
  PROVE  /\ NewCall([r EXCEPT !.alone = alone]) /\ [r EXCEPT !.alone = alone].op = r.op
         /\ [r EXCEPT !.alone = alone].plugin = r.plugin /\ [r EXCEPT !.alone = alone].alone = alone
<1>1. NoCall \in CallRecord /\ ~NoCall.changed /\ ~NoCall.built /\ ~NoCall.ok /\ ~NoCall.blocked
  BY NoCallType DEF NoCall
<1>2. ASSUME NewCall(r)
      PROVE  /\ NewCall([r EXCEPT !.alone = alone]) /\ [r EXCEPT !.alone = alone].op = r.op
             /\ [r EXCEPT !.alone = alone].plugin = r.plugin /\ [r EXCEPT !.alone = alone].alone = alone
  BY <1>2 DEF NewCall, CallRecord
<1>3. CASE \E c \in Plugins \cup {None} : r = [NoCall EXCEPT !.op = "sync", !.plugin = c]
  <2>1. NewCall(r)
    BY <1>1, <1>3 DEF NewCall, CallRecord
  <2> QED
    BY <1>2, <2>1
<1>4. CASE \E o \in {"stop", "recreate", "collect"} : r = [NoCall EXCEPT !.op = o]
  <2>1. NewCall(r)
    BY <1>1, <1>4 DEF NewCall, CallRecord
  <2> QED
    BY <1>2, <2>1
<1>5. CASE \E o \in {"block", "unblock"}, s \in IPLists : r = [NoCall EXCEPT !.op = o, !.ips = s]
  <2>1. PICK o \in {"block", "unblock"}, s \in Seq(Addrs \cup {Junk}) : r = [NoCall EXCEPT !.op = o, !.ips = s]
    BY <1>5, ServiceAssumption
  <2>2. NewCall(r)
    BY <1>1, <2>1 DEF NewCall, CallRecord
  <2> QED
    BY <1>2, <2>2
<1>6. CASE \E h \in Hooks : r = [NoCall EXCEPT !.op = "hook", !.ips = <<h.ip>>, !.user = h.user]
  <2>1. PICK h \in Hooks : r = [NoCall EXCEPT !.op = "hook", !.ips = <<h.ip>>, !.user = h.user]
    BY <1>6
  <2>2. h.ip \in Addrs /\ h.user \in {g.user : g \in Hooks}
    BY ServiceAssumption
  <2> DEFINE ips == <<h.ip>>
             user == h.user
  <2>3. ips \in Seq(Addrs \cup {Junk}) /\ ips # <<>> /\ Head(ips) \in Addrs
    BY <2>2
  <2>4. r = [NoCall EXCEPT !.op = "hook", !.ips = ips, !.user = user] /\ user \in {g.user : g \in Hooks}
    BY <2>1, <2>2
  <2> HIDE DEF ips, user
  <2>5. NewCall(r)
    BY <1>1, <2>3, <2>4 DEF NewCall, CallRecord
  <2> QED
    BY <1>2, <2>5
<1>7. \/ r \in {[NoCall EXCEPT !.op = "sync", !.plugin = c] : c \in Plugins \cup {None}}
      \/ r \in {[NoCall EXCEPT !.op = o] : o \in {"stop", "recreate", "collect"}}
      \/ r \in {[NoCall EXCEPT !.op = "block", !.ips = s] : s \in IPLists}
      \/ r \in {[NoCall EXCEPT !.op = "unblock", !.ips = s] : s \in IPLists}
      \/ r \in {[NoCall EXCEPT !.op = "hook", !.ips = <<h.ip>>, !.user = h.user] : h \in Hooks}
  BY DEF Requests
<1>8. CASE r \in {[NoCall EXCEPT !.op = "sync", !.plugin = c] : c \in Plugins \cup {None}}
  BY <1>3, <1>8
<1>9. CASE r \in {[NoCall EXCEPT !.op = o] : o \in {"stop", "recreate", "collect"}}
  BY <1>4, <1>9
<1>10. CASE \/ r \in {[NoCall EXCEPT !.op = "block", !.ips = s] : s \in IPLists}
            \/ r \in {[NoCall EXCEPT !.op = "unblock", !.ips = s] : s \in IPLists}
  BY <1>5, <1>10
<1>11. CASE r \in {[NoCall EXCEPT !.op = "hook", !.ips = <<h.ip>>, !.user = h.user] : h \in Hooks}
  BY <1>6, <1>11
<1> QED
  BY <1>7, <1>8, <1>9, <1>10, <1>11

\* A call that another meets runs no longer alone, and keeps what it holds.
LEMMA OwnMet ==
  ASSUME NEW q \in Clients, Own(q), call[q] \in CallRecord, Writing(q), pc'[q] = pc[q],
         call'[q] = [call[q] EXCEPT !.alone = FALSE],
         UNCHANGED <<available, state>>
  PROVE  Own(q)'
<1>1. /\ call'[q].op = call[q].op /\ ~call'[q].alone
      /\ call'[q].plugin = call[q].plugin /\ call'[q].ips = call[q].ips /\ call'[q].ok = call[q].ok
      /\ call'[q].changed = call[q].changed /\ call'[q].built = call[q].built
      /\ call'[q].blocked = call[q].blocked /\ call'[q].todo = call[q].todo
  BY DEF CallRecord
<1>2. call'[q] # NoCall /\ call[q] # NoCall
  BY <1>1, NoCallType DEF Writing, Writers
<1>3. LabelInv(q)'
  BY <1>1, <1>2 DEF Own, LabelInv, Writing
<1>4. StateInv(q)' /\ HookInv(q)' /\ BuiltInv(q)'
  BY <1>1 DEF StateInv, HookInv, BuiltInv, Writing, Writers
<1> QED
  BY <1>3, <1>4 DEF Own

\* A call that begins has read nothing.
LEMMA OwnNew ==
  ASSUME NEW p \in Clients, NEW c, NewCall(c), call'[p] = c, pc'[p] = FirstLabel(c),
         c.op \notin Writers => c.alone
  PROVE  Own(p)'
<1>1. \/ c.op = "sync" /\ c.plugin = None /\ FirstLabel(c) = "clear"
      \/ c.op = "sync" /\ c.plugin # None /\ FirstLabel(c) = "unchanged"
      \/ c.op = "stop" /\ FirstLabel(c) = "reset"
      \/ c.op = "hook" /\ FirstLabel(c) = "enabled"
      \/ c.op \in {"recreate", "collect", "block", "unblock"} /\ FirstLabel(c) = c.op
  <2>1. c.op \in {"sync", "stop", "recreate", "collect", "block", "unblock", "hook"}
    BY DEF NewCall
  <2>2. CASE c.op = "sync"
    BY <2>2 DEF FirstLabel
  <2>3. CASE c.op = "stop"
    BY <2>3 DEF FirstLabel
  <2>4. CASE c.op = "hook"
    BY <2>4 DEF FirstLabel
  <2>5. CASE c.op \in {"recreate", "collect", "block", "unblock"}
    BY <2>5 DEF FirstLabel
  <2> QED
    BY <2>1, <2>2, <2>3, <2>4, <2>5
<1>2. c # NoCall /\ c.op # "none"
  BY NoCallType DEF NewCall
<1>3. LabelInv(p)'
  BY <1>1, <1>2 DEF NewCall, LabelInv, Syncing, Accepted, Hooking, Writing, Writers
<1>4. StateInv(p)' /\ HookInv(p)' /\ BuiltInv(p)'
  BY <1>1 DEF NewCall, StateInv, HookInv, BuiltInv
<1> QED
  BY <1>3, <1>4 DEF Own

\* A request or a webhook comes in, and may meet writers.
LEMMA InvokeStep ==
  ASSUME IInv, NEW p \in Clients, Invoke(p)
  PROVE  IInv'
<1>0. /\ pc[p] = "idle" /\ calls < MaxCalls /\ calls' = calls + 1 /\ acked' = Nothing
      /\ UNCHANGED <<available, state, reports, tables, core, online, wiring, startPc, opts>>
      /\ UNCHANGED <<starts, failures, trust, excused, mixed>>
  BY DEF Invoke, serviceVars, coreVars
<1>1. PICK r \in Requests :
        /\ LET others == {q \in Clients : Writing(q)}
               meets  == r.op \in Writers /\ others # {}
           IN call' = [q \in Clients |->
                IF q = p THEN [r EXCEPT !.alone = ~meets]
                ELSE IF meets /\ q \in others THEN [call[q] EXCEPT !.alone = FALSE]
                ELSE call[q]]
        /\ pc' = [pc EXCEPT ![p] = FirstLabel(r)]
  BY DEF Invoke, Goto, FirstLabel
<1> DEFINE meets == r.op \in Writers /\ \E q \in Clients : Writing(q)
           c == [r EXCEPT !.alone = ~meets]
<1>2. (~meets) \in BOOLEAN
  OBVIOUS
<1>3. call'[p] = c /\ \A q \in Clients \ {p} :
        call'[q] = IF meets /\ Writing(q) THEN [call[q] EXCEPT !.alone = FALSE] ELSE call[q]
  BY <1>1
<1> HIDE DEF meets
<1>4. NewCall(c) /\ c.op = r.op /\ c.plugin = r.plugin /\ c.alone = (~meets)
  BY <1>2, RequestType
<1> HIDE DEF c
<1>5. FirstLabel(r) = FirstLabel(c)
  BY <1>4 DEF FirstLabel
<1>6. FirstLabel(c) \in Labels
  BY <1>4 DEF FirstLabel, NewCall, Labels, Syncing, Hooking
<1>7. pc' \in [Clients -> Labels] /\ pc'[p] = FirstLabel(c) /\ \A q \in Clients \ {p} : pc'[q] = pc[q]
  BY <1>1, <1>5, <1>6 DEF IInv, CallTypes
<1>8. ASSUME NEW q \in Clients, q # p
      PROVE  /\ call'[q] \in CallRecord /\ call'[q].op = call[q].op
             /\ call'[q].alone = IF meets /\ Writing(q) THEN FALSE ELSE call[q].alone
             /\ call'[q].changed = call[q].changed /\ call'[q].built = call[q].built
             /\ call'[q].restart = call[q].restart /\ call'[q].was = call[q].was
  <2>1. call[q] \in CallRecord
    BY DEF IInv, CallTypes
  <2>2. CASE meets /\ Writing(q)
    <3>1. call'[q] = [call[q] EXCEPT !.alone = FALSE]
      BY <1>3, <1>8, <2>2
    <3> QED
      BY <2>1, <2>2, <3>1 DEF CallRecord
  <2>3. CASE ~(meets /\ Writing(q))
    BY <1>3, <1>8, <2>1, <2>3
  <2> QED
    BY <2>2, <2>3
<1>9. CallTypes'
  <2>1. DOMAIN call' = Clients /\ call' = [q \in Clients |-> call'[q]]
    BY <1>1
  <2>2. \A q \in Clients : call'[q] \in CallRecord
    BY <1>3, <1>4, <1>8 DEF NewCall
  <2> QED
    BY <1>7, <2>1, <2>2 DEF CallTypes
<1>10. StateTypes' /\ ReportsBelong' /\ CoreTypes' /\ OptsInv' /\ (IgnoredIsNotBlocked => IgnoredIsNotBlocked')
  BY <1>0, StateKept, CoreKept DEF IInv
<1>11. GhostTypes'
  <2>1. calls' \in 0..MaxCalls
    <3>1. calls \in Nat /\ MaxCalls \in Nat
      BY ServiceAssumption DEF IInv, GhostTypes
    <3> QED
      BY <1>0, <3>1
  <2>2. acked' \in [known : BOOLEAN, plugin : Plugins \cup {None}]
    BY <1>0 DEF Nothing
  <2> QED
    BY <1>0, <2>1, <2>2 DEF IInv, GhostTypes
<1>12. /\ LabelInv(p) /\ call[p] = NoCall /\ call[p].op = "none" /\ call[p].alone
       /\ ~call[p].changed /\ ~call[p].built
  BY <1>0, ClientTypes, NoCallType DEF LabelInv
<1>13. \A q \in Clients : Own(q)'
  <2>1. ASSUME NEW q \in Clients, q # p  PROVE Own(q)'
    <3>0. Own(q) /\ call[q] \in CallRecord /\ pc'[q] = pc[q]
      BY <1>7, <2>1 DEF IInv, CallTypes
    <3>1. CASE meets /\ Writing(q)
      <4>1. call'[q] = [call[q] EXCEPT !.alone = FALSE]
        BY <1>3, <2>1, <3>1
      <4> QED
        BY <1>0, <3>0, <3>1, <4>1, OwnMet
    <3>2. CASE ~(meets /\ Writing(q))
      <4>1. call'[q] = call[q]
        BY <1>3, <2>1, <3>2
      <4> QED
        BY <1>0, <1>10, <3>0, <4>1, OwnKept
    <3> QED
      BY <3>1, <3>2
  <2>2. Own(p)'
    <3>1. c.op \notin Writers => c.alone
      BY <1>4 DEF meets
    <3> QED
      BY <1>3, <1>4, <1>7, <3>1, OwnNew
  <2> QED
    BY <2>1, <2>2
<1>14. AloneInv'
  <2> SUFFICES ASSUME NEW a \in Clients, NEW b \in Clients, a # b, Writing(a)', call'[a].alone, Writing(b)'
               PROVE  FALSE
    BY DEF AloneInv
  <2>1. \A q \in Clients \ {p} : Writing(q)' <=> Writing(q)
    BY <1>8 DEF Writing
  <2>2. CASE a = p
    <3>1. ~meets /\ r.op \in Writers
      BY <1>3, <1>4, <2>2 DEF Writing
    <3>2. Writing(b)
      BY <2>1, <2>2
    <3> QED
      BY <3>1, <3>2 DEF meets
  <2>3. CASE a # p
    <3>1. Writing(a) /\ ~meets /\ call[a].alone
      BY <1>8, <2>1, <2>3
    <3>2. CASE b = p
      <4>1. r.op \in Writers
        BY <1>3, <1>4, <3>2 DEF Writing
      <4> QED
        BY <3>1, <4>1 DEF meets
    <3>3. CASE b # p
      BY <2>1, <3>1, <3>3 DEF IInv, AloneInv
    <3> QED
      BY <3>2, <3>3
  <2> QED
    BY <2>2, <2>3
<1>15. TablesInv'
  <2>1. ASSUME NEW q \in Clients, Disturbs(q)  PROVE Disturbs(q)'
    <3>1. q # p
      BY <1>0, <1>12, <2>1 DEF Disturbs
    <3> QED
      BY <1>0, <1>7, <1>8, <2>1, <3>1 DEF Disturbs
  <2> QED
    BY <1>0, <1>10, <2>1, TablesKept DEF IInv
<1>16. AckedInv'
  BY <1>0 DEF AckedInv, Nothing
<1>17. WiredInv'
  <2>1. \A q \in Clients : call'[q].alone => call[q].alone
    BY <1>8, <1>12
  <2>2. ASSUME NEW q \in Clients, Pending(q)  PROVE Pending(q)'
    <3>1. q # p
      BY <1>0, <2>2 DEF Pending
    <3> QED
      BY <1>0, <1>7, <1>8, <2>2, <3>1 DEF Pending, WiredFor
  <2> QED
    BY <1>0, <2>1, <2>2, WiredKept DEF IInv
<1> QED
  BY <1>9, <1>10, <1>11, <1>13, <1>14, <1>15, <1>16, <1>17 DEF IInv

-----------------------------------------------------------------------------
(* The specification. *)

\* The invariant holds at first.
LEMMA InitIInv == Init => IInv
<1> SUFFICES ASSUME Init  PROVE IInv
  OBVIOUS
<1>1. StateTypes
  <2>1. EmptyTables \in TablesRecord /\ EmptyTables.torrent = {}
    BY DEF EmptyTables, TablesRecord
  <2>2. <<>> \in Seq(ReportRecord) /\ Range(<<>>) = {}
    BY DEF Range
  <2> QED
    BY <2>1, <2>2, EmptyStateType DEF Init, StateTypes
<1>2. CoreTypes /\ OptsInv
  BY UnwiredType DEF Init, CoreTypes, OptsInv
<1>3. CallTypes
  BY NoCallType DEF Init, CallTypes, Labels
<1>4. GhostTypes
  <2>1. 0 \in 0..MaxCalls /\ 0 \in 0..MaxStarts /\ 0 \in 0..MaxFailures
    BY ServiceAssumption
  <2> QED
    BY <2>1 DEF Init, GhostTypes, Nothing
<1>5. \A p \in Clients : pc[p] = "idle" /\ call[p] = NoCall
  BY DEF Init
<1>6. ASSUME NEW p \in Clients  PROVE Own(p)
  <2>1. LabelInv(p)
    <3>1. /\ NoCall.op = "none" /\ NoCall.alone /\ ~NoCall.changed /\ ~NoCall.built
          /\ ~NoCall.blocked /\ ~NoCall.ok
      BY DEF NoCall
    <3>2. pc[p] = "idle" /\ call[p] = NoCall
      BY <1>5
    <3> QED
      BY <3>1, <3>2 DEF LabelInv, Syncing, Accepted, Hooking, Writing, Writers
  <2>2. StateInv(p) /\ HookInv(p) /\ BuiltInv(p)
    BY <1>5 DEF StateInv, HookInv, BuiltInv, NoCall
  <2> QED
    BY <2>1, <2>2 DEF Own
<1>7. AloneInv
  BY <1>5, NoCallType DEF AloneInv, Writing, Writers
<1>8. TablesInv
  BY EmptyStateType DEF Init, TablesInv, FiltersFollow, IgnoredIsNotBlocked, EmptyState, EmptyTables, Filters
<1>9. AckedInv /\ ReportsBelong
  BY DEF Init, AckedInv, Nothing, ReportsBelong, Range
<1>10. WiredInv
  BY EmptyStateType DEF Init, WiredInv, WiredFor
<1> QED
  BY <1>1, <1>2, <1>3, <1>4, <1>6, <1>7, <1>8, <1>9, <1>10 DEF IInv

\* Every step keeps the invariant.
LEMMA NextIInv == IInv /\ [Next]_vars => IInv'
<1> SUFFICES ASSUME IInv, [Next]_vars  PROVE IInv'
  OBVIOUS
<1>1. ASSUME NEW p \in Clients, Serve(p)  PROVE IInv'
  <2>1. CASE Unchanged(p) \/ Active(p) \/ ReadTorrent(p) \/ UpdateFromSync(p) \/ Clear(p) \/ Reset(p)
    BY <2>1, UnchangedStep, ActiveStep, ReadTorrentStep, UpdateFromSyncStep, ClearStep, ResetStep
  <2>2. CASE Tables(p) \/ HandleRecreateTables(p) \/ SyncFilters(p)
    BY <2>2, TablesStep, RecreateStep, SyncFiltersStep
  <2>3. CASE ApplyTorrentRestart(p) \/ IfOnline(p) \/ Halt(p)
    BY <2>3, ApplyTorrentRestartStep, IfOnlineStep, HaltStep
  <2>4. CASE Screen(p) \/ BlockIP(p) \/ Report(p) \/ UnblockIP(p) \/ CollectReports(p)
    BY <2>4, ScreenStep, BlockStep, ReportStep, UnblockStep, CollectStep
  <2> QED
    BY <1>1, <2>1, <2>2, <2>3, <2>4 DEF Serve
<1>2. ASSUME NEW p \in Clients, Invoke(p)  PROVE IInv'
  BY <1>2, InvokeStep
<1>3. CASE Start
  BY <1>3, StartStep
<1>4. CASE Heal
  BY <1>4, HealStep
<1>5. CASE UNCHANGED vars
  <2>1. /\ UNCHANGED <<available, state, reports, tables, core, online, wiring, startPc, opts, pc, call>>
        /\ UNCHANGED <<calls, starts, failures, trust, excused, acked, mixed>>
        /\ UNCHANGED serviceVars
    BY <1>5 DEF vars, serviceVars, coreVars, boundVars, ghostVars
  <2>2. CoreTypes' /\ OptsInv'
    BY <2>1, CoreKept DEF IInv
  <2>3. WiredInv'
    BY <2>1, WiringKept
  <2>4. starts' \in 0..MaxStarts /\ mixed' \in BOOLEAN
    BY <2>1 DEF IInv, GhostTypes
  <2> QED
    BY <2>1, <2>2, <2>3, <2>4, ManagerKeeps DEF IInv
<1> QED
  BY <1>1, <1>2, <1>3, <1>4, <1>5 DEF Next

\* The invariant holds throughout.
THEOREM PluginInvariant == Spec => []IInv
<1> QED
  BY InitIInv, NextIInv, PTL DEF Spec

\* Between calls, nobody has replaced the state or emptied the sets, and
\* nobody will stop the core.
LEMMA QuietIsSettled ==
  ASSUME IInv, Quiet, NEW p \in Clients
  PROVE  ~Disturbs(p) /\ ~Pending(p) /\ call[p].alone
<1>1. call[p].op \notin Writers
  BY DEF Quiet, Writing
<1> QED
  BY <1>1, ApartCall

\* What the invariant says of the variables.
LEMMA IInvTypes == IInv => TypeOK
<1> SUFFICES ASSUME IInv  PROVE TypeOK
  OBVIOUS
<1>1. state.plugin \in Plugins \cup {None}
  BY DEF IInv, StateTypes, StateRecord, Settling
<1>2. \A r \in Range(reports) : r.ip \in Addrs /\ (r.blocked => available)
  <2>1. reports \in Seq(ReportRecord)
    BY DEF IInv, StateTypes
  <2>2. Range(reports) \subseteq ReportRecord
    <3> HIDE DEF ReportRecord
    <3> QED
      BY <2>1 DEF Range
  <2> QED
    BY <2>2 DEF IInv, StateTypes, ReportRecord
<1>3. tables.torrent \subseteq Addrs /\ tables.ingress \subseteq Addrs /\ tables.egress \subseteq Addrs
  BY DEF IInv, StateTypes, TablesRecord
<1>4. \A p \in Clients : (pc[p] = "idle") = (call[p] = NoCall)
  BY DEF IInv, Own, LabelInv
<1> QED
  BY <1>1, <1>2, <1>3, <1>4 DEF IInv, TypeOK, StateTypes, CoreTypes, GhostTypes

\* TypeOK: the types of the variables; the core is online only while it runs,
\* and only an available nftables has blocked an address.
THEOREM PluginTypes == Spec => []TypeOK
<1> QED
  BY PluginInvariant, IInvTypes, PTL

\* TablesFollowPlugin: whenever no call is rewriting them, the nft sets are
\* those of the plugin in force (HandleSync, ResetPlugins), whatever calls,
\* webhooks and failing scripts came before.
THEOREM SetsFollowPlugin == Spec => []TablesFollowPlugin
<1>1. IInv => TablesFollowPlugin
  <2> SUFFICES ASSUME IInv, Quiet, trust # "unknown"
               PROVE  (available => FiltersFollow) /\ IgnoredIsNotBlocked
    BY DEF TablesFollowPlugin
  <2>1. \A p \in Clients : ~Disturbs(p)
    BY QuietIsSettled
  <2> QED
    BY <2>1 DEF IInv, TablesInv
<1> QED
  BY <1>1, PluginInvariant, PTL

\* BlockerIsWired: a core that is online under an enabled blocker has it in its
\* configuration (applyTorrentRestart), with the tags of the plugin in force.
THEOREM CoreFollowsPlugin == Spec => []BlockerIsWired
<1>1. IInv => BlockerIsWired
  <2> SUFFICES ASSUME IInv, Quiet, online, state.torrent.enabled, ~wiring.late, ~mixed
               PROVE  wiring.enabled /\ wiring.outbound /\ Range(wiring.tags) = Range(state.torrent.tags)
    BY DEF BlockerIsWired
  <2>1. \A p \in Clients : ~Pending(p) /\ call[p].alone
    BY QuietIsSettled
  <2>2. core = "on"
    BY DEF IInv, CoreTypes
  <2>3. WiredFor(state.torrent)
    BY <2>1, <2>2 DEF IInv, WiredInv
  <2> QED
    BY <2>3 DEF WiredFor
<1> QED
  BY <1>1, PluginInvariant, PTL

\* SyncAnswerIsTrue: a sync that ran alone answered for the plugin that is in
\* force, or for none (HandleSync).
THEOREM SyncTellsTruth == Spec => []SyncAnswerIsTrue
<1>1. IInv => SyncAnswerIsTrue
  BY DEF IInv, AckedInv, SyncAnswerIsTrue
<1> QED
  BY <1>1, PluginInvariant, PTL

\* ReportsBelong: without a plugin in force, the reports left to collect are
\* those of webhooks that were past their first check when it was taken down.
THEOREM ReportsHavePlugin == Spec => []ReportsBelong
<1>1. IInv => ReportsBelong
  BY DEF IInv
<1> QED
  BY <1>1, PluginInvariant, PTL
====
