---------------------------- MODULE PluginService ----------------------------
(***************************************************************************)
(* The plugin service: internal/plugin/service.go, state.go, torrent.go    *)
(* and nft_linux.go, next to what it needs of the manager: a start that    *)
(* renders the torrent blocker into the core's configuration, and          *)
(* StopIfOnline.                                                           *)
(*                                                                         *)
(* A step is one critical section of the State's mutex, one nft script, or *)
(* one call of the manager.  The manager is modelled by XrayManager; here  *)
(* a start is made of the reads it takes of the plugin state and of what   *)
(* StopIfOnline may see between them.                                      *)
(***************************************************************************)
EXTENDS PluginPayload

CONSTANTS
  None,
  Plugins,      \* the payloads the panel may send
  Clients,      \* goroutines serving requests and webhooks
  Hooks,        \* the webhooks of a core: records of an address and a user
  IgnoredUsers, \* [Plugins -> the users their blocker ignores]
  IPLists,      \* the address lists of block-ips and unblock-ips requests
  MaxCalls,     \* bound: requests and webhooks
  MaxStarts,    \* bound: starts of the core
  MaxFailures   \* bound: nft scripts that fail

ASSUME ServiceAssumption ==
  /\ DOMAIN IgnoredUsers = Plugins /\ \A h \in Hooks : h.ip \in Addrs
  /\ IPLists \subseteq Seq(Addrs \cup {Junk})
  /\ None \notin Plugins
  /\ MaxCalls \in Nat /\ MaxStarts \in Nat /\ MaxFailures \in Nat

VARIABLES
  available,  \* CAP_NET_ADMIN: nftables and ss can be used
  state,      \* State: the plugin in force or None, torrent settings
  reports,    \* State.reports
  tables,     \* the nft sets
  core,       \* the rw-core child: off or on
  online,     \* m.xrayOnline
  wiring,     \* the torrent blocker in the configuration of that core
  startPc, opts,  \* the start in progress, and the options it has read
  pc, call,   \* the clients: label, and the call with its locals
  calls, starts, failures,  \* counters of the bounds
  trust,      \* history: what the nft sets were last left as
  excused,    \* history: elements a hand or a late webhook put in the torrent set
  mixed,      \* history: calls that overlapped have ended since the core was stopped
  acked       \* history: the plugin the last sync that ran alone answered for

serviceVars == <<state, reports>>
coreVars    == <<core, online, wiring, startPc, opts>>
ghostVars   == <<trust, excused, acked, mixed>>
boundVars   == <<calls, starts, failures>>
vars == <<available, serviceVars, tables, coreVars, pc, call, boundVars, ghostVars>>

Filters == {"ingress", "egress", "ports", "ports6"}
EmptyTables == [torrent |-> {}, ingress |-> {}, egress |-> {}, ports |-> {}, ports6 |-> {}]

\* NewState, and what Reset leaves.
EmptyState == [plugin |-> None, torrent |-> NoTorrent, users |-> {}]

Unwired == [enabled |-> FALSE, tags |-> <<>>, outbound |-> FALSE, late |-> FALSE]

\* A call: what it asks for, its locals, and, for the properties, whether it
\* ran alone among the writers, rebuilt the nft sets, met a failing script, or
\* (a webhook) saw the plugin change under it.
NoCall == [op |-> "none", plugin |-> None, ips |-> <<>>, user |-> None,
           was |-> NoTorrent, now |-> NoTorrent, changed |-> FALSE, restart |-> "keep", todo |-> {},
           blocked |-> FALSE, ok |-> FALSE,
           alone |-> TRUE, failed |-> FALSE, built |-> FALSE, crossed |-> FALSE]

Nothing == [known |-> FALSE, plugin |-> None]

\* RestoreOnBoot may have brought a core up: no plugin was in force then.
Init ==
  /\ available \in BOOLEAN
  /\ state = EmptyState /\ reports = <<>>
  /\ tables = EmptyTables
  /\ core \in {"off", "on"} /\ online = (core = "on") /\ wiring = Unwired
  /\ startPc = "idle" /\ opts = Unwired
  /\ pc = [p \in Clients |-> "idle"] /\ call = [p \in Clients |-> NoCall]
  /\ calls = 0 /\ starts = 0 /\ failures = 0
  /\ trust = "exact" /\ excused = {} /\ acked = Nothing /\ mixed = FALSE

-----------------------------------------------------------------------------
(* Plumbing. *)

\* The calls that read the state and rewrite it or the nft tables.
Writers == {"sync", "stop", "recreate"}
Writing(p) == call[p].op \in Writers

Goto(p, label) == pc' = [pc EXCEPT ![p] = label]
Note(p, c) == call' = [call EXCEPT ![p] = c]

Requests ==
  {[NoCall EXCEPT !.op = "sync", !.plugin = c] : c \in Plugins \cup {None}}
  \cup {[NoCall EXCEPT !.op = o] : o \in {"stop", "recreate", "collect"}}
  \cup {[NoCall EXCEPT !.op = "block", !.ips = s] : s \in IPLists}
  \cup {[NoCall EXCEPT !.op = "unblock", !.ips = s] : s \in IPLists}
  \cup {[NoCall EXCEPT !.op = "hook", !.ips = <<h.ip>>, !.user = h.user] : h \in Hooks}

\* A request of the panel, or a webhook of the core.  A webhook without an
\* address or a user is dropped at once, and is not among the calls.
Invoke(p) ==
  /\ pc[p] = "idle" /\ calls < MaxCalls
  /\ calls' = calls + 1
  /\ \E r \in Requests :
       /\ r.op = "hook" => core = "on" /\ wiring.enabled
       /\ LET others == {q \in Clients : Writing(q)}
              meets  == r.op \in Writers /\ others # {}
          IN call' = [q \in Clients |->
               IF q = p THEN [r EXCEPT !.alone = ~meets]
               ELSE IF meets /\ q \in others THEN [call[q] EXCEPT !.alone = FALSE]
               ELSE call[q]]
       /\ acked' = Nothing
       /\ Goto(p, CASE r.op = "sync" -> IF r.plugin = None THEN "clear" ELSE "unchanged"
                    [] r.op = "stop" -> "reset"
                    [] r.op = "hook" -> "enabled"
                    [] OTHER -> r.op)
  /\ UNCHANGED <<available, serviceVars, tables, coreVars, starts, failures, trust, excused, mixed>>

\* The handler answers, its locals being c.
Finish(p, c, ok) ==
  /\ Goto(p, "idle") /\ Note(p, NoCall)
  /\ trust' = IF ~c.built THEN trust
              ELSE IF ~c.alone \/ c.failed THEN "unknown"
              ELSE IF c.op = "recreate" THEN "wiped" ELSE "exact"
  /\ acked' = IF c.op = "sync" /\ c.alone
                THEN [known |-> TRUE, plugin |-> IF ok THEN c.plugin ELSE None] ELSE acked
  /\ mixed' = (pc[p] # "halt" /\ (mixed \/ ~c.alone))

Answer(p, ok) == Finish(p, call[p], ok)

Continue(p, label, c) ==
  /\ Goto(p, label) /\ Note(p, c) /\ UNCHANGED <<trust, acked, mixed>>

\* What a script, run with "nft -f -", may do: it is applied whole or not at all.
Failing == IF failures < MaxFailures THEN BOOLEAN ELSE {FALSE}
Count(fails) == failures' = IF fails THEN failures + 1 ELSE failures

-----------------------------------------------------------------------------
(* Seeded faults: variants of the steps below, in the order in which they    *)
(* appear.  No specification uses them; the model checker must reject each.  *)

\* The tags of the rules are not compared.
FaultTorrentRestart(was, now) ==
  IF was.enabled /\ ~now.enabled /\ now.tags = <<>> THEN "remove"
  ELSE IF was.enabled # now.enabled THEN "stop" ELSE "keep"

\* Without nftables a refused sync or a clear leaves the state as it is.
FaultReset(p) ==
  /\ pc[p] = "reset"
  /\ LET label == IF available THEN "flush" ELSE IF call[p].op = "stop" THEN "halt" ELSE "ifOnline"
     IN IF available
          THEN /\ state' = EmptyState /\ reports' = <<>>
               /\ Goto(p, label) /\ UNCHANGED <<call, opts, wiring>>
          ELSE Continue(p, label, call[p]) /\ UNCHANGED <<state, reports, opts, wiring>>
  /\ UNCHANGED <<core, online, startPc, trust, acked, mixed>>
  /\ UNCHANGED <<available, tables, boundVars, excused>>

\* The sets of the filters are not emptied.
FaultRecreateTables(fails) ==
  /\ Count(fails)
  /\ tables' = IF fails THEN tables ELSE [tables EXCEPT !.torrent = {}]
  /\ excused' = IF fails THEN excused ELSE {}

\* Reset keeps the reports of its plugin.
FaultClearReports == reports

\* The core is killed, and stays online.
FaultStop == core' = "off" /\ wiring' = Unwired /\ UNCHANGED online

-----------------------------------------------------------------------------
(* State. *)

Late(w) == [w EXCEPT !.late = TRUE]

\* The state changes under the webhooks in flight and the start in progress.
Replace(p, next, label, c) ==
  /\ state' = next
  /\ call' = [q \in Clients |->
       IF q = p THEN c
       ELSE IF call[q].op = "hook" /\ pc[q] # "enabled" THEN [call[q] EXCEPT !.crossed = TRUE]
       ELSE call[q]]
  /\ Goto(p, label)
  /\ opts' = IF startPc \in {"tags", "prepare"} THEN Late(opts) ELSE opts
  /\ wiring' = IF startPc = "wait" THEN Late(wiring) ELSE wiring
  /\ UNCHANGED <<core, online, startPc, trust, acked, mixed>>

SameHash(c) == state.plugin # None /\ HashPluginConfig(c) = HashPluginConfig(state.plugin)

\* An invalid payload takes the plugin in force down, and its core.
Validated(p) == IF ValidatePluginConfig(call[p].plugin) THEN "was" ELSE "reset"

\* isUnchangedPluginConfig reads the hash and the active flag apart.
Unchanged(p) ==
  /\ pc[p] = "unchanged"
  /\ Continue(p, IF call[p].plugin # Malformed /\ SameHash(call[p].plugin) THEN "active" ELSE Validated(p), call[p])
  /\ UNCHANGED <<available, serviceVars, tables, coreVars, boundVars, excused>>

Active(p) ==
  /\ pc[p] = "active"
  /\ IF state.plugin # None THEN Answer(p, TRUE) ELSE Continue(p, Validated(p), call[p])
  /\ UNCHANGED <<available, serviceVars, tables, coreVars, boundVars, excused>>

\* The choice of applyTorrentRestart, which depends on what was read only.
TorrentRestart(was, now) ==
  IF was.enabled /\ ~now.enabled /\ now.tags = <<>> THEN "remove"
  ELSE IF was.enabled # now.enabled \/ (was.enabled /\ HashTags(was.tags) # HashTags(now.tags)) THEN "stop"
  ELSE "keep"

\* TorrentBlockerEnabled and TorrentBlockerIncludeRuleTags, before and after.
ReadTorrent(p) ==
  LET c == call[p] IN
  /\ \/ /\ pc[p] = "was"
        /\ Continue(p, "wasTags", [c EXCEPT !.was.enabled = state.torrent.enabled])
     \/ /\ pc[p] = "wasTags"
        /\ Continue(p, "update", [c EXCEPT !.was.tags = state.torrent.tags])
     \/ /\ pc[p] = "now"
        /\ Continue(p, "nowTags", [c EXCEPT !.now.enabled = state.torrent.enabled])
     \/ /\ pc[p] = "nowTags"
        /\ Continue(p, IF c.changed /\ available THEN "tables" ELSE "restart",
                    [c EXCEPT !.restart = TorrentRestart(c.was, [c.now EXCEPT !.tags = state.torrent.tags]),
                              !.was = NoTorrent, !.now = NoTorrent, !.changed = FALSE])
  /\ UNCHANGED <<available, serviceVars, tables, coreVars, boundVars, excused>>

StateOf(c) ==
  [plugin |-> c, torrent |-> TorrentSettings(c),
   users |-> IF On(c.torrentBlocker) THEN IgnoredUsers[c] ELSE {}]

\* UpdateFromSync; a plugin with the hash of the one in force changes nothing.
UpdateFromSync(p) ==
  /\ pc[p] = "update"
  /\ IF SameHash(call[p].plugin)
       THEN Continue(p, "now", call[p]) /\ UNCHANGED <<state, coreVars>>
       ELSE Replace(p, StateOf(call[p].plugin), "now", [call[p] EXCEPT !.changed = TRUE])
  /\ UNCHANGED <<available, reports, tables, boundVars, excused>>

\* handlePluginClear: a sync without a plugin.
Clear(p) ==
  /\ pc[p] = "clear"
  /\ IF state.plugin = None THEN Answer(p, FALSE)
     ELSE Continue(p, "reset", [call[p] EXCEPT !.ok = TRUE])
  /\ UNCHANGED <<available, serviceVars, tables, coreVars, boundVars, excused>>

AfterReset(p) == IF call[p].op = "stop" THEN "halt" ELSE "ifOnline"

\* Reset discards the reports.
ClearReports == <<>>

\* State.Reset, then recreateTables: ResetPlugins.
Reset(p) ==
  /\ pc[p] = "reset"
  /\ Replace(p, EmptyState, IF available THEN "flush" ELSE AfterReset(p), call[p])
  /\ reports' = ClearReports
  /\ UNCHANGED <<available, tables, boundVars, excused>>

-----------------------------------------------------------------------------
(* nftables. *)

\* recreateTables: both tables are deleted and made again, every set empty.
RecreateTables(fails) ==
  /\ Count(fails)
  /\ tables' = IF fails THEN tables ELSE EmptyTables
  /\ excused' = IF fails THEN excused ELSE {}

Rebuilt(p, fails) == [call[p] EXCEPT !.built = TRUE, !.failed = fails]

Tables(p) ==
  /\ pc[p] \in {"tables", "flush"}
  /\ \E fails \in Failing :
       /\ RecreateTables(fails)
       /\ IF pc[p] = "flush" THEN Continue(p, AfterReset(p), Rebuilt(p, fails))
          ELSE Continue(p, "filters", [Rebuilt(p, fails) EXCEPT !.todo = DOMAIN FilterScripts(call[p].plugin)])
  /\ UNCHANGED <<available, serviceVars, coreVars, calls, starts>>

\* HandleRecreateTables does not put the filters back.
HandleRecreateTables(p) ==
  /\ pc[p] = "recreate"
  /\ IF available
       THEN \E fails \in Failing : RecreateTables(fails) /\ Finish(p, Rebuilt(p, fails), ~fails)
       ELSE Answer(p, FALSE) /\ UNCHANGED <<tables, failures, excused>>
  /\ UNCHANGED <<available, serviceVars, coreVars, calls, starts>>

\* syncFilters: the scripts in their order (todo has the positions of those
\* still to run); an error ends the filter it is met in, and goes no further.
\* nft refuses elements that overlap those of an interval set.
SyncFilters(p) ==
  /\ pc[p] = "filters"
  /\ IF call[p].todo = {}
       THEN Continue(p, "restart", call[p]) /\ UNCHANGED <<tables, failures>>
       ELSE LET scripts == FilterScripts(call[p].plugin)
                i == CHOOSE j \in call[p].todo : \A k \in call[p].todo : j <= k
                s == scripts[i]
                Error == Continue(p, "filters",
                           [call[p] EXCEPT !.failed = TRUE,
                              !.todo = {j \in @ : scripts[j].filter # s.filter}])
            IN
            \/ /\ Count(FALSE) /\ tables' = [tables EXCEPT ![s.set] = @ \cup s.elements]
               /\ Continue(p, "filters", [call[p] EXCEPT !.todo = @ \ {i}])
            \/ TRUE \in Failing /\ Count(TRUE) /\ Error /\ UNCHANGED tables
            \/ tables[s.set] \cap s.elements # {} /\ Error /\ UNCHANGED <<tables, failures>>
  /\ UNCHANGED <<available, serviceVars, coreVars, calls, starts, excused>>

-----------------------------------------------------------------------------
(* The core. *)

\* applyTorrentRestart.  RemoveTorrentBlockerOutbound is a call of the core's
\* API, whose error is ignored.
ApplyTorrentRestart(p) ==
  LET c == call[p] IN
  /\ pc[p] = "restart"
  /\ \/ c.restart = "remove" /\ core = "on" /\ wiring' = [wiring EXCEPT !.outbound = FALSE]
     \/ (c.restart = "remove" => startPc = "wait" \/ core = "off") /\ UNCHANGED wiring
  /\ IF c.restart = "stop" THEN Continue(p, "ifOnline", [c EXCEPT !.ok = TRUE]) ELSE Answer(p, TRUE)
  /\ UNCHANGED <<available, serviceVars, tables, core, online, startPc, opts, boundVars, excused>>

\* StopIfOnline: a core that is not online, or not yet, is left alone.
IfOnline(p) ==
  /\ pc[p] = "ifOnline"
  /\ IF online THEN Continue(p, "halt", call[p]) ELSE Answer(p, call[p].ok)
  /\ wiring' = IF online \/ core = "off" THEN wiring ELSE Late(wiring)
  /\ UNCHANGED <<available, serviceVars, tables, core, online, startPc, opts, boundVars, excused>>

Stop == core' = "off" /\ online' = FALSE /\ wiring' = Unwired

\* Manager.Stop waits for the start in progress.
Halt(p) ==
  /\ pc[p] = "halt" /\ startPc = "idle"
  /\ Stop /\ Answer(p, call[p].ok \/ call[p].op = "stop")
  /\ UNCHANGED <<available, serviceVars, tables, startPc, opts, boundVars, excused>>

\* Manager.Start, as far as it touches the blocker; startPc is what it does next.
\* It takes m.lifecycleMu and reads torrentBlockerOptions, in two reads.
StartRender ==
  /\ startPc = "idle" /\ starts < MaxStarts
  /\ starts' = starts + 1 /\ startPc' = "tags"
  /\ opts' = [Unwired EXCEPT !.enabled = state.torrent.enabled, !.outbound = state.torrent.enabled]
  /\ UNCHANGED <<core, online, wiring, mixed>>

\* A core that answers its ping and needs no restart is kept; one that does
\* not answer is taken for offline.
StartDecide ==
  /\ startPc = "tags"
  /\ \/ /\ startPc' = "prepare" /\ online' \in {online, FALSE}
        /\ opts' = [opts EXCEPT !.tags = state.torrent.tags]
     \/ online /\ startPc' = "idle" /\ opts' = Unwired /\ UNCHANGED online
  /\ UNCHANGED <<core, wiring, starts, mixed>>

\* The preparation fails, or the old core is stopped and a new one spawned.
StartSpawn ==
  /\ startPc = "prepare" /\ opts' = Unwired
  /\ \/ startPc' = "idle" /\ UNCHANGED <<core, online, wiring, mixed>>
     \/ startPc' = "idle" /\ Stop /\ mixed' = FALSE
     \/ startPc' = "wait" /\ core' = "on" /\ online' = FALSE /\ wiring' = opts /\ mixed' = FALSE
  /\ UNCHANGED starts

\* The API of the new core is reached, or the core is stopped.
StartWait ==
  /\ startPc = "wait" /\ startPc' = "idle"
  /\ \/ online' = TRUE /\ UNCHANGED <<core, wiring, mixed>>
     \/ Stop /\ mixed' = FALSE
  /\ UNCHANGED <<opts, starts>>

Start ==
  /\ StartRender \/ StartDecide \/ StartSpawn \/ StartWait
  /\ UNCHANGED <<available, serviceVars, tables, pc, call, calls, failures, trust, excused, acked>>

\* The health poll finds a core that serves.
Heal ==
  /\ core = "on" /\ ~online /\ online' = TRUE
  /\ UNCHANGED <<available, serviceVars, tables, core, wiring, startPc, opts, pc, call,
                 boundVars, ghostVars>>

-----------------------------------------------------------------------------
(* Blocking, webhooks and reports. *)

\* HandleXrayWebhook looks at the settings three times.
Screen(p) ==
  LET passes == CASE pc[p] = "enabled"     -> state.torrent.enabled
                  [] pc[p] = "ignoredIp"   -> Head(call[p].ips) \notin AlwaysIgnored \cup state.torrent.ignored
                  [] pc[p] = "ignoredUser" -> call[p].user \notin state.users
      next   == CASE pc[p] = "enabled"     -> "ignoredIp"
                  [] pc[p] = "ignoredIp"   -> "ignoredUser"
                  [] pc[p] = "ignoredUser" -> IF available THEN "block" ELSE "report"
  IN
  /\ pc[p] \in {"enabled", "ignoredIp", "ignoredUser"}
  /\ IF passes THEN Continue(p, next, call[p]) ELSE Answer(p, TRUE)
  /\ UNCHANGED <<available, serviceVars, tables, coreVars, boundVars, excused>>

\* blockIP; a failure ends a request, and shows in the report of a webhook.
BlockIP(p) ==
  /\ pc[p] = "block"
  /\ IF ~available \/ call[p].ips = <<>>
       THEN Answer(p, available) /\ UNCHANGED <<tables, failures, excused>>
       ELSE LET a == Head(call[p].ips) IN
            \E fails \in IF a = Junk THEN {TRUE} ELSE Failing :
              /\ IF a = Junk THEN UNCHANGED failures ELSE Count(fails)
              /\ tables' = IF fails THEN tables ELSE [tables EXCEPT !.torrent = @ \cup {a}]
              /\ excused' = IF ~fails /\ (call[p].op = "block" \/ call[p].crossed)
                              THEN excused \cup {a} ELSE excused
              /\ IF call[p].op = "hook" THEN Continue(p, "report", [call[p] EXCEPT !.blocked = ~fails])
                 ELSE IF fails THEN Answer(p, FALSE)
                 ELSE Continue(p, "block", [call[p] EXCEPT !.ips = Tail(@)])
  /\ UNCHANGED <<available, serviceVars, coreVars, calls, starts>>

\* AddReport.
Report(p) ==
  /\ pc[p] = "report"
  /\ reports' = reports \o <<[ip |-> Head(call[p].ips), blocked |-> call[p].blocked,
                               crossed |-> call[p].crossed]>>
  /\ Answer(p, TRUE)
  /\ UNCHANGED <<available, state, tables, coreVars, boundVars, excused>>

\* unblockIP of an address that is not in the set is an error of nft.
UnblockIP(p) ==
  /\ pc[p] = "unblock"
  /\ IF ~available \/ call[p].ips = <<>>
       THEN Answer(p, available) /\ UNCHANGED <<tables, failures, excused>>
       ELSE LET a == Head(call[p].ips) IN
            \E fails \in IF a \in tables.torrent THEN Failing ELSE {TRUE} :
              /\ IF a \in tables.torrent THEN Count(fails) ELSE UNCHANGED failures
              /\ tables' = IF fails THEN tables ELSE [tables EXCEPT !.torrent = @ \ {a}]
              /\ excused' = IF fails THEN excused ELSE excused \ {a}
              /\ IF fails THEN Answer(p, FALSE)
                 ELSE Continue(p, "unblock", [call[p] EXCEPT !.ips = Tail(@)])
  /\ UNCHANGED <<available, serviceVars, coreVars, calls, starts>>

\* FlushReports.
CollectReports(p) ==
  /\ pc[p] = "collect"
  /\ reports' = <<>> /\ Answer(p, TRUE)
  /\ UNCHANGED <<available, state, tables, coreVars, boundVars, excused>>

-----------------------------------------------------------------------------

Serve(p) ==
  \/ Unchanged(p) \/ Active(p) \/ ReadTorrent(p) \/ UpdateFromSync(p)
  \/ Clear(p) \/ Reset(p) \/ Tables(p) \/ HandleRecreateTables(p) \/ SyncFilters(p)
  \/ ApplyTorrentRestart(p) \/ IfOnline(p) \/ Halt(p)
  \/ Screen(p) \/ BlockIP(p) \/ Report(p) \/ UnblockIP(p) \/ CollectReports(p)

Next ==
  \/ \E p \in Clients : Invoke(p) \/ Serve(p)
  \/ Start \/ Heal

Spec == Init /\ [][Next]_vars

-----------------------------------------------------------------------------
(* Properties. *)

Quiet == \A p \in Clients : ~Writing(p)

\* Invariant: the types of the variables.
TypeOK ==
  /\ available \in BOOLEAN /\ online \in BOOLEAN
  /\ state.plugin \in Plugins \cup {None}
  /\ \A r \in Range(reports) : r.ip \in Addrs /\ (r.blocked => available)
  /\ tables.torrent \subseteq Addrs /\ tables.ingress \subseteq Addrs /\ tables.egress \subseteq Addrs
  /\ core \in {"off", "on"} /\ startPc \in {"idle", "tags", "prepare", "wait"}
  /\ (online => core = "on")
  /\ excused \subseteq tables.torrent
  /\ calls \in 0..MaxCalls /\ starts \in 0..MaxStarts /\ failures \in 0..MaxFailures
  /\ trust \in {"exact", "wiped", "unknown"}
  /\ \A p \in Clients : (pc[p] = "idle") = (call[p] = NoCall)

\* Between calls, the nft filters hold the elements of the plugin in force and
\* nothing else (HandleSync, ResetPlugins); nothing at all after
\* HandleRecreateTables.  Syncs that overlapped, or an nft script that failed
\* in one, leave them anyhow until the next change.
FiltersFollow ==
  \A f \in Filters :
    tables[f] = IF trust = "wiped" \/ state.plugin = None THEN {}
                ELSE UNION {s.elements : s \in {t \in Range(FilterScripts(state.plugin)) : t.set = f}}

\* Between calls, an address the plugin in force ignores is in the torrent set
\* only by hand, or by a webhook that had passed its checks when the plugin
\* changed (HandleXrayWebhook holds no lock across them).
IgnoredIsNotBlocked ==
  state.torrent.enabled =>
    tables.torrent \cap (AlwaysIgnored \cup state.torrent.ignored) \subseteq excused

\* Invariant: whenever no call is rewriting them, the nft sets are those of the
\* plugin in force, the filters exactly and the blocked addresses without any
\* that it ignores.
TablesFollowPlugin ==
  Quiet /\ trust # "unknown" => (available => FiltersFollow) /\ IgnoredIsNotBlocked

\* Invariant: between calls and starts, a core that is online under an enabled
\* blocker has its outbound and the rules of the plugin's tags in its
\* configuration (applyTorrentRestart); unless it was started from options
\* read before the plugin changed, StopIfOnline met it not online, or syncs
\* overlapped while it ran.
BlockerIsWired ==
  Quiet /\ startPc = "idle" /\ online /\ state.torrent.enabled /\ ~wiring.late /\ ~mixed =>
    wiring.enabled /\ wiring.outbound /\ Range(wiring.tags) = Range(state.torrent.tags)

\* Invariant: a sync that ran alone and was accepted left its plugin, or one
\* with its hash, in force; refused, or without a plugin, it left none.
SyncAnswerIsTrue ==
  acked.known /\ Quiet =>
    IF acked.plugin = None THEN state.plugin = None ELSE SameHash(acked.plugin)

\* Invariant: while no plugin is in force, the only reports to collect are
\* those of webhooks that were past their first check when it was taken down.
ReportsBelong ==
  state.plugin = None => \A r \in Range(reports) : r.crossed
=============================================================================
