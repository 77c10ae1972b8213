# A TLA+ model of remnanode-lite (remnaplus-alpine-node)

`remnanode-lite` is one Go process on a proxy node. A panel drives it over
HTTPS; it supervises one `rw-core` (Xray) child, applies user changes to the
child over gRPC, reports traffic, serves log archives, filters addresses with
nftables and probes the network. This directory models the parts of it whose
correctness depends on the order of events: locks, a child that dies when it
likes, a disk, lost answers, crashes.

Source paths below are relative to `src/`.

## 1. Inventory

| Component | State it keeps | Operations | Talks to | Hard behaviour | What makes it correct |
|---|---|---|---|---|---|
| **xray manager** `internal/xray/manager.go`, `persist.go`, `running_config.go`, `handler.go` | `process`, `xrayOnline`, current and running configuration, hashes, `startProcessing`, `lifecycleMu`, `mu`, `lastStartRequest`, `last-start.json` | Start, Stop, StopIfOnline, RestoreOnBoot, RunningConfig, Health | panel handlers, plugin service, the child (signals, gRPC ping, get-config socket), its monitor goroutine | `mu` held across a ten second wait; late monitors; stops that time out; stale pings; retries after boot; crashes | no child is lost, one start at a time, a skipped start is justified, the file survives with the last outcome, every request is answered |
| **hashes and users** `hashstate.go`, `hashedset.go`, `internal/nodehandler` | per-inbound sets of user ids, inbound tags | add and remove users, rebuild at Start, compare at Start | gRPC handler API of the child | RPC first, hash after it, no common lock; partial failure over several inbounds | hashes describe what the core runs, so that a skip is right and a needed restart happens |
| **accounting** `internal/stats/accounting_snapshot.go` | a journal file: acknowledged checkpoint, pending sample | Snapshot (acknowledge, quarantine, replay, sample) | panel; the child's counters; the manager's pid | lost and repeated answers, failing disk, reused pids, counter resets, restarts | bytes are billed at most once, and exactly once while nothing disturbs the counters |
| **log segments** `logrotate.go`, `managed_log.go` | active file, sealed segments, rotation journal, pending line, fifo | write, seal, recover, close | child's output, pump goroutines | crash or error in the middle of a seal | no complete line lost, none in two segments |
| **audit reader** `internal/auditlog` | none (reads the segments) | ReadChunk, Catalog, Clean | panel, log segments | files renamed between Stat and Open, lines longer than a chunk | what a panel following offsets has passed it was given; no segment goes without its record |
| **core loader** `core_loader.go` | stock and custom binary, link, marker | prepare (install, restore) | Start, downloads | crash between link, file and marker | an accepted core is the one asked for; the link always points at a runnable file |
| **geodata, downloads** `geodata.go`, `internal/artifact` | asset files | prepare | Start | worker pool, cancelled requests, size limits | no two workers on one file; no partial file under a final name |
| **plugin service** `internal/plugin` | configuration hash, whitelist, torrent settings, reports, nftables sets | sync, clear, webhook, block, recreate, collect | Start (rendering), StopIfOnline, nft, dropper | concurrent syncs, checks before use, sets rebuilt outside the lock | sets, state and the core's configuration belong to one plugin |
| **internal socket** `internal/unixconfig` | none | get-config, webhook | the child | a child that asks before there is a configuration | the child gets the published configuration |
| **rendering** `apiconfig.go`, `router.go`, `warp_guard.go`, `prestart.go` | none | render, refuse | Start | - | sequential but for the torrent blocker, which plugin syncs change |
| **SNI health, backtrace** `internal/snihealth`, `internal/backtrace` | last results; a one-place semaphore | probe, status; run | panel, network | abandoned requests, aggregation of partial results | one batch at a time; a verdict never hides a worse one |
| **statistics, telemetry** `internal/stats/handler.go`, `internal/forwarding`, `internal/system`, `tcpstats`, `vnstat` | last samples | queries | child, kernel, HAProxy | - | pure functions of what was read |
| **server, auth, config, doctor, ASN, scripts** | configuration | - | - | rollback in `scripts/upgrade.sh` | - |

`PROJECT.json` lists every component with its state of modelling, every
hazard with the line where it bites, and the property that covers it or why
none does.

## 2. Modules

| Module | Role |
|---|---|
| `XrayManager` | the supervisor, its callers, the child, its monitor, the file, crashes |
| `XrayManagerProofs` | inductive invariant and safety theorems of `XrayManager` |
| `MCXrayManager` + 4 `.cfg` | instances for TLC |
| `AccountingLedger` | abstract promise of the accounting service |
| `Accounting` | the journal protocol; `ImplementsLedger` is the refinement |
| `AccountingProofs` | its theorems and the refinement, checked by TLAPS |
| `MCAccounting` + `.cfg` | instance for TLC |
| `UserSync` | hot updates of users, the node's sets of credentials, starts |
| `UserSyncProofs` | inductive invariant and safety theorems of `UserSync` |
| `MCUserSync` + 3 `.cfg` | instances for TLC |
| `LogSegments` | the writer of a log, its pump, sealing and recovery |
| `AuditLog` | the readers and the cleaning of `LogSegments`' files, and a panel |
| `LogSegmentsProofs`, `AuditLogProofs` | inductive invariants of the log and of its readers; the safety theorems of `AuditLog` |
| `MCAuditLog` + `.cfg` | instance for TLC |
| `Artifact` | what a download may end with |
| `CoreLoader`, `GeodataLoader` | the rw-core binary and its link; the pool that downloads geodata |
| `CoreAssets` | the two composed: the part of `Start` that prepares files |
| `CoreAssetsProofs` | inductive invariants and safety theorems of the core loader and of the pool |
| `MCCoreAssets` + `.cfg` | instance for TLC |
| `PluginPayload` | what a plugin payload means: validation, lists, hash, nft scripts |
| `PluginService` | the plugin state, the nft sets, the blocker, next to the manager |
| `PluginServiceProofs` | inductive invariant and safety theorems of `PluginService` |
| `MCPluginService` + `.cfg` | instance for TLC |
| `SniProbe`, `SniHealth` | the verdict on a Reality destination; the service around it |
| `Trace`, `Backtrace` | the verdict on a route; the service around it |
| `MCProbes` + `.cfg` | an instance of each of the two services for TLC |
| `ProbesProofs` | the two algorithms proved; inductive invariant and safety theorems of the services |

### XrayManager

Each goroutine `p` (panel callers `Clients`, and `Boot` for `RestoreOnBoot`)
has a label `pc[p]`, an operation `op[p]` and a request `req[p]`. One critical
section of `m.mu` is one step. `stopProcessLocked` is the exception: it waits
for the child with `m.mu` held, so there `mu` names its holder and the wait is
two labels, `stopWait` (after the interrupt) and `killWait` (after SIGKILL).

| Actions | Code |
|---|---|
| `Invoke`, `Return`, `BootLoad` | arrival of a request, its answer; `RestoreOnBoot` with its retry loop |
| `StartGate` ... `StartUngate` | `Start`, from the `startProcessing` test to the deferred reset, which runs after the deferred unlock of `lifecycleMu` |
| `StopReaped`, `StopKill`, `StopTimeout`, `AfterStop` | `stopProcessLocked` and what its three callers do next in the same critical section |
| `PauseIfOnline`, `StopLock`, `StopFlush`, `StopHalt`, `StopClearFile` | `StopIfOnline`, `Stop` |
| `ConfigTryLock`, `ConfigRead`, `ConfigPing` | `RunningConfig` |
| `HealthPing`, `HealthWrite` | `Health`, split where it holds no lock |
| `CoreFetch`, `CoreExit`, `MonitorDeliver`, `MonitorClear` | the child, `monitorProcess` |
| `NodeCrash` | the node process dies at any step; only `last-start.json` survives |

Abstractions, each of which adds behaviour or removes none that a property
could see: a configuration is an element of `Configs`, its hashes are
`HashOf[c]`, and two configurations may share them (the hashes do not cover the
whole JSON). `forceRestart` and `disableHashCheck` are choices in `StartCheck`.
A ping fails at will (`PingMayFail`), and `waitForGRPC` may fail at any moment,
which covers its deadline, a cancelled request and the exit hint. The read and the ping
of `Health` are one step: only its write can come too late. The user sets
behind the hashes, which hot updates change, are those of `UserSync`.
A clean shutdown is a "pause" followed by a crash.

Assumed of the environment: the service manager kills the old process group
when the node dies, as systemd does by default; it is the only reason why no
core outlives `NodeCrash`. Nothing is assumed of the child: it may exit at any
time, ignore every signal and never answer.

### Accounting

`Snapshot` holds the service's mutex, so one request is inside it
(`handling`), at one of three points (`at`): about to query the counters, about to
read the process id that labels them, about to write. The core may exit and
be replaced, other endpoints may reset counters, between any two. The journal is
`acknowledged` and `pending`; it is read again by each request, so a crash
loses nothing else. `Write` replaces it by a rename; an error leaves the old
file if it came before the rename and the new one if it came after.

The panel is external: it bills (`Book`) or refuses a sample once, by its id,
acknowledges only what it has billed and quarantines only what it has refused.
Its requests may wait in a slot while others are served, may be repeated, and
every answer stays in `answers`: it may arrive late, twice or never. Ids are
numbers here and random in the code. The two spellings under which a user's
counter may appear are one counter, and the journal's record of the last
quarantined id is left out, as it only changes a diagnostic.

`AccountingLedger` is what the panel may rely on: bytes are carried; a sample
on offer claims no more than what was carried and not yet billed; it is billed once or
dropped. The mapping takes the pending sample, until the panel settled it, for
the one on offer.

### UserSync

The panel adds and removes users of a running rw-core. For each user of a
request the node removes the user from every inbound it knows of (`ListTags`),
one call per inbound, and adds it where it is asked for, unless a removal failed.
A call is three steps: `HandlerAPI` reads `xrayOnline`; `RemoveUser` or `AddUser`
is what the call does to rw-core; `RemoveUserFromInboundHash` or
`AddUserToInboundHash` then updates the node's set. Nothing is locked over the
three, and other updates, a start, a stop or an exit may come between them.
`Continue` is the control of the loops. `HandleAddUser` and `HandleRemoveUser`
are the batches of one user.

| State | Code |
|---|---|
| `users`, `live` | the users of rw-core, by inbound and credential, and whether it answers |
| `hashes`, `tags`, `known` | `inboundHashes` (`None` where the map has no entry), `inboundTags`, `emptyConfigHash # ""` |
| `job[p]` | the request a goroutine serves, and where it is |
| `start` | the start request under way: `Compare`, then `Skip`, or `Swap`, `Serve`, `StartFinish` |
| `db`, `torn` | the panel's users; history of those whose updates overlapped |

A credential is a user with a version. The hash of a set is the set itself, so
collisions of the 64-bit hash are left out. Starts are those of `XrayManager`,
reduced to what they do to users and sets; one at a time, as `GateMatchesFlag` and
the locks there show. rw-core is external: it refuses an inbound it does not have and a
user it has, answers "not found" for a user it does not have, which `RemoveUser`
counts as removed, and, where `Lossy`, may report a call as failed that it carried out.

Overlapping updates of the *same* user, updates of a user that overlap a start,
and calls carried out though reported as failed leave rw-core and the sets apart for
that user, by design of the protocol: such a user is in `torn` until rw-core is
started anew, and the properties speak of the others. What is left is
what the node must get right: updates of different users, which share the sets and
the tags of their inbounds, in any interleaving and with any failure.

### LogSegments and AuditLog

rw-core's output is the stream of bytes `1..Total`, some of which end a line. It
goes through a fifo (`taken < b <= fed`) to the pump, whose label is `pump.pc`
and whose memory is `pump.pending`, and from there to the `active` file. One system call
is one step, so that each may fail and the node may be killed before it.

| Actions | Code |
|---|---|
| `StartPump`, `RecoverRename`, `RecoverUnlink`, `OpenWriter` | `managedLogPump.start`, `recoverSegmentRotation`, `openSegmentedLogWriter` |
| `PumpRead`, `PumpStop`, `PumpClose` | the goroutine of `managed_log.go`, `Close` |
| `WriteLine`, `AppendPiece`, `WriteSealed` | `Write`, and `writeLine` with its test whether to seal |
| `SealJournal` ... `SealReopen` | `seal` |
| `Follow`, `View`, `ReadOpened`, `Take` | `ReadChunk` up to its Stat, from its Open; the answer reaches the panel or not |
| `CatalogList`, `CatalogStat` | `Catalog` |
| `CleanList`, `CleanGap`, `CleanRemove` | `CleanLogs`, `cleanSealedSegments` |
| `CleanAnswer`, `CleanTake` | `readGapJournal` at the end of `cleanSealedSegments`; the panel has the answer |
| `NodeKilled`, `Killed` | the process dies; files survive |

A time is the stamp of the line that ends at a byte. Kills of the process are
modelled, not power failures, so that a write that returned is in the file. The names of
segments are a day and a number. The panel (external) follows each file of its last
catalog by inode and calls a segment safe once it has read all of it. Inodes are
not given out twice. What the model shows of the code beyond the properties:

- A kill between the creation of the journal and its write leaves a journal that cannot
  be read (`Torn`), after which every later open of the writer is refused ("torn")
  until someone removes the file; no byte that was in a file is lost by it.
- A chunk whose path changed between the Stat and the Open bears the old inode
  and bytes of the new file (`raced`); the properties except exactly that file.
- A pump that is waiting when it is told to stop returns without reading again
  (`managed_log.go:91`), so that what rw-core logged last is lost with the fifo.
- A line longer than `MaxRead` never completes in a chunk: the offset stays.
- A segment's number is one more than the number of segments there were when the writer was
  opened (`logrotate.go:66-85`), so after a clean and a restart a name may be given out again. A
  request for a clean that still names the old segment then removes the new one, read or not,
  and two cleans that overlap may record its range wrongly (`Reused`): `PassedWasDelivered`
  and `GapsCoverRemovals` speak of the first segment of a name.
- The journal of gaps is opened to append and never mended. A write of a record that is cut
  short (`GapCut`) leaves part of a line, of which at best the newline is missing; the next
  record goes on that line (`Glued`) and is lost with it, and its segment is removed all the same
  (`service.go:376-413`). So not every removal leaves a record. What holds, and what
  `GapsCoverRemovals` states, is that the panel is never given a list from which a removal
  is missing: a line that is no record makes the reading back an error (`service.go:455`), and
  every later clean answers an error, though it has removed its segments by then, until
  someone takes the file away. The two logs of a node that share a directory share this journal; a
  record that another log's clean tore is like one that an earlier clean of this log tore.

### CoreLoader, GeodataLoader, Artifact, CoreAssets

`link` is where the active path leads, `custom` and `staged` are files with a body and a
modification time, `marker` is what `.rw-core.json` says. A call of `prepare`
(`prep`) decides in `Prepare` and then takes one step per file operation: `Unstage`,
`DownloadCore`, `TryStaged`, `RenameStaged`, `LinkCustom`, `WriteMarker` for
`install`; `LinkStock`, `RemoveMarker`, `RemoveCustom` for `restoreStock`. Every operation may
fail and the node may be killed between any two (`MaxMishaps`); a new file is always younger.

In `GeodataLoader` the producer offers `groups` over an unbuffered channel, so a worker that
receives has the group in the same step. A group is the set of its positions in the
list, of which a worker takes the least first; `outcome` is kept for each position, so that
a source listed twice is two downloads. `Cancel` is the end of the request at
any time. `Artifact` lists what `Download` accepts of the answers of a server (external); with the
checks of `Download` passed the file appears by a rename, so a download is one step with two
outcomes. Digests do not collide. `CoreAssets` is the order of the two in `Start`.

### PluginPayload and PluginService

A step is one critical section of the State's mutex, one nft script or one call of the
manager; everything between is open to the other goroutines.

| State | Code |
|---|---|
| `state`, `reports` | `State`: the plugin in force (its hash is that of the payload), torrent settings, ignored users; the reports |
| `tables` | the nft sets, as the addresses and ports they hold |
| `core`, `online`, `wiring` | the child, `xrayOnline`, the torrent rules in the configuration of that child |
| `startPc`, `opts` | a `Start` under way and the plugin options it has read |
| `pc`, `call` | what each goroutine is doing |

`Unchanged`, `Active`, `ReadTorrent`, `UpdateFromSync`, `Tables`, `SyncFilters`,
`ApplyTorrentRestart` are `HandleSync` in its order; `Clear` and `Reset` are `handlePluginClear` and
`ResetPlugins`; `IfOnline` and `Halt` are `StopIfOnline`; `Screen`, `BlockIP` and `Report` are
`HandleXrayWebhook`. A prefix is the set of its addresses. `Joined` is the text that the hash sees of
a list, its items joined with commas (`objecthash.go:90-103`); in the instance different lists have
different texts, so lists that differ only by a comma inside an item, which the hash does not
quote, are not exercised. The theorems hold for any `Joined`. `trust`, `mixed`, `late`, `crossed` and
`alone` are history: they name the overlaps after which the code promises nothing, and no
action reads them. What they stand for:

- two syncs that overlap, or a failing nft script, leave the sets anyhow until the next
  change (`trust = "unknown"`), and may miss a restart (`mixed`);
- "recreate tables" empties the filters, and a later sync of the same payload counts as
  unchanged and does not fill them (`trust = "wiped"`);
- `StopIfOnline` skips a core that is starting or whose flag is off, so it keeps
  the rules it was rendered with (`late`);
- a webhook past its first check may still report and block after a reset (`crossed`).

An entry of an ignore list that a shared list expands to a prefix matches no address, as the
comparison is of strings. Disabling the blocker removes its outbound only; the rules stay in
the configuration until the next start.

### SniProbe, SniHealth, Trace, Backtrace

`SniProbe` takes an observation (what each address of a destination answered, the
times of the handshakes) through `Checks` to `Finish`, as `probe.go` does; `Trace` takes
the payload of `nexttrace-tiny` through `Hops` to a success or a failure. Both state what a verdict
promises in terms of the observation (`Serves`, `ServesWell`, `NodeFault`; `Reaches`),
independently of the checks. `SniHealth` and `Backtrace` are the
services: the two reads of the manager's state, requests that store results and those that do not,
the channel of one place and the requests waiting for it, clients that go away. The
destination's network, the resolver and the two commands are external. Texts, round-trip times
and ports are left out (with them the check of a candidate's port, `snihealth/service.go:55`), as are the
hostname rules, which are one bit of a target. The ALPN check
passes always (only offered protocols can be chosen), and the cut at 64 hops never applies as 30 are
asked for. The services share no state, so a behaviour of `MCProbes` is one of either.

When no address passes, the evidence is that of the first one reached, so "unusable" or
"unverified" then depends on the order of the resolver's answer.

## 3. Properties and runs

| Run | Instance | Properties | What it shows |
|---|---|---|---|
| `manager_safety` | 2 callers, boot, 3 calls, 3 configurations of which 2 share their hashes, 2 cores | `TypeOK`, `NoOrphanCore`, `GateMatchesFlag`, `SkipIsSound`, `RunningConfigExact` | 3.5 million states, all interleavings of two requests with a third, the health poll and two monitors |
| `manager_recovery` | 1 caller, boot with 2 attempts, 3 calls, 2 cores, 1 crash, failing disk | `PersistedIsLastOutcome`, `DisabledOnceBooted` | 5.8 million states; the crash may strike in any of them |
| `manager_liveness` | 1 caller, boot, 2 calls, 2 cores | `EveryCallAnswered`, `OnlineHeals` | under fairness of the node's goroutines; the second for a panel that goes on polling |
| `manager_disabled` | as `manager_recovery`, disk sound | `DisabledStaysDisabled` | **violated**, see below |
| `accounting_safety` | 2 users (2 and 1 bytes), 2 requests in flight, 2 pids, 2 cores, 3 samples, 3 requests, 1 reset, 1 crash | `TypeOK`, `NeverOverbilled`, `BilledExactly`, `SettledFirst`, `ImplementsLedger` | 3.6 million states; the last is the refinement |
| `usersync_batches` | 2 users in one batch, 2 inbounds and a tag that is none, 1 update, 1 start, lost answers | `TypeOK`, `AnswerIsTrue`, `OneCredential` | 3.6 million states: partial removals, batches |
| `usersync_races` | 2 users, 2 goroutines, 1 inbound, 2 updates, 1 start, 1 stop or exit, lost answers | `TrackedIsListed`, `UsersTracked`, `SkipIsSound` | 0.9 million states: updates of two users past one another and past a start |
| `usersync_forgotten` | 1 goroutine, no lost answers, otherwise as `usersync_races` | `ForgottenIsEmpty` | **violated**, see below |
| `audit_log` | 2 lines of 2 and 3 bytes (one longer than may be pending), files of 4 bytes, 2 days, 2 overlapping requests of 4 (a viewer's among the first 2), 1 kill or failing operation (a write of the pump or of a record may be cut short) | `TypeOK`, `NothingLost`, `LinesStayWhole`, `ChunkIsTrue`, `PassedWasDelivered`, `GapsCoverRemovals` | 3.9 million states: rotation by size and by day, its failure and recovery at every step, readers and a clean in between, a record torn by one clean and glued by the next |
| `core_assets` | 2 starts, 3 digests of which 1 does not run, 3 files and 4 assets, 2 workers, 1 kill or failing operation | `TypeOK`, `KeepsOrInstalls`, `InstalledIsAsked`, `SourcesInOrder`, `StartEnds` | 1.4 million states, under fairness |
| `plugins` | 2 goroutines, 3 calls, 1 start, 4 payloads (blocker on one tag, blocker on two tags with ignored addresses and users, no blocker but both filters, refused), 3 webhooks, 1 failing script | `TypeOK`, `TablesFollowPlugin`, `BlockerIsWired`, `SyncAnswerIsTrue`, `ReportsBelong` | 5.5 million states: two syncs, a sync and a webhook, a sync and a start in every interleaving |
| `probes` | observations of up to 3 addresses of which 2 are inspected, 2 status or probe requests; payloads of up to 2 hops with 2 attempts, 3 requests of 2 targets | `TypeOK`, `VerdictIsEarned`, `SuccessIsEarned`, `EveryRunEnds` | every verdict, and every order of arriving, giving up and finishing; under fairness |

Why the bounds are enough: the hazards of the manager need two actors past one
another (a caller and a caller, a caller and the boot restore, a caller and a
late monitor), an old core beside a new one, and a third call that is misled by
what the first two left; two cores and three calls are the least that allow it,
and the proofs below drop the bounds for all seven safety properties. A billing
error needs a sample that was billed, one retained after it and a third to
compare with them; a process that is replaced under the same pid; a counter
that one user moves and another does not. An update of users goes wrong through another user of the same inbound (two
users, two goroutines), a removal that fails in one inbound of two, or a start; credentials
come in two versions, the old and the new. A log needs a line that fits beside
another and one that does not, a day that ends, and a chunk that ends within a
line; two mishaps would only add a recovery that is itself interrupted, which the
next start finds as one journal or none. A marker is misled by a second installation
after a first (two starts, two digests that run); a producer waits for workers that have left
when there are more groups than workers (three and two). Plugin calls interfere in
pairs, and a third shows what the pair has left. A place in a channel needs one request inside
and two waiting, of which one goes. The runs on accounting, users, logs,
assets, plugins and probes have deadlock checking off because the bounds exhaust every action in the end. Each
property is paired in `PROJECT.json` with a seeded fault (the `Fault...`
definitions) that the run rejects.

Fairness (`FairSpec`): the Go scheduler runs every goroutine that can run, and
Go's mutexes hand over to a starving waiter, so a goroutine that can step again
and again does step (`SF` on `Step(p)` and on `HealthWrite`, which
need `m.mu`). The timers of `stopProcessLocked` are steps of the goroutine, so they fire. The
monitor of a dead child gets its turn. Nothing is assumed of
the child, of callers or of pings. In particular no health poll need begin: `Health` runs only when
the panel asks (`server.go:117`), and only a poll under way is the node's own goroutine. A stale "online"
that a poll writes after the monitor cleared the flag stays until the next poll, so `OnlineHeals`
has the panel's polling as its hypothesis (`PollsGoOn`), stated in the property and not
in the specification. `manager_liveness` takes `PingMayFail` FALSE
because `OnlineHeals` cannot hold while pings of a serving core time out.
In `core_assets` the goroutine of the start and each worker are scheduled (`WF`), a
download ends within its timeouts (`download.go` bounds the idle time and the total), and nothing is
assumed of the request, which may be cancelled or not. In `probes` each goroutine that serves a
request is scheduled (`WF`): lookups, dials and commands have deadlines in the code (45 and
90 seconds), and a channel serves its blocked senders in order, which `line` models.

### Findings

`manager.go:354-356` says that after the panel's stop "persisted boot config is
removed so the node stays disabled after reboot". `RestoreOnBoot` loads the file once
(`manager.go:390`) and retries for up to ten attempts. If the stop is answered
between two attempts, or while one waits, the next attempt starts the core
from the request in memory and writes `last-start.json` back
(`DisabledStaysDisabled`, run `manager_disabled`). What the code does guarantee
is `DisabledOnceBooted`: a stop answered after the restore has ended lasts.

`hashstate.go:120-124` forgets an inbound, with the log line "inbound has no users,
clearing hash map", when the node's set for it becomes empty. `ForgottenIsEmpty`
says that rw-core has no user there once all requests are answered. It fails when
a removal overlaps a restart (run `usersync_forgotten`): the call reaches the old
rw-core just before it is stopped, `Start` publishes the sets of the new one,
which has the user, and the removal then takes the user out of the new set and the
tag out of the list. The panel has its success; the user stays in the new rw-core, and
a second removal finds no tags and answers success without any call. The user is gone
only after the next start that compares the sets, which finds them different.

## 4. Proofs

`XrayManagerProofs` proves, for any number of callers, calls, cores,
attempts, crashes and configurations, `Spec => []P` for `P` one of `TypeOK`,
`NoOrphanCore`, `GateMatchesFlag`, `SkipIsSound`, `RunningConfigExact`,
`PersistedIsLastOutcome` and `DisabledOnceBooted`, the safety properties of all
passing runs of the module. The only assumption is `ConstantsAssumption` (the constants' types and `None`
being none of the values). The invariant that carries them is

    IInv == TypeOK /\ OpMatches /\ ReplyMatches /\ LocksMatch /\ GateMatchesFlag
            /\ CoreInv /\ ConfigInv /\ SkipIsSound /\ RunningConfigExact
            /\ AnswerMatches /\ DiskInv /\ DisabledInv

- `OpMatches` and `ReplyMatches` tie labels to operations and say where an answer may
  be pending: `AfterStop` behaves by them.
- `LocksMatch` says who holds `lifecycleMu` and `m.mu` at each label. With it, two
  goroutines inside `Start` or `Stop` are one, and a goroutine waiting for the
  child excludes every step that needs `m.mu`.
- `CoreInv` describes the child by its monitor: `NoOrphanCore`; once the monitor has
  delivered or finished, the child is dead; while a stop waits for a child `process`
  is a core, and once it is killed that core neither boots nor serves; and there is no
  process at the points where `Start` spawns one.
- `ConfigInv` ties the configuration of a serving child to `currentConfig`,
  `hash` and `runningConfig`, except in the window of a swap. `SkipIsSound` is
  not inductive without it: the skip decision is taken from `hash` alone, and
  it is `ConfigInv` that says what `hash` and the core that answered
  have in common. `RunningConfigExact` needs the same.
- `AnswerMatches` and `DiskInv`: an operation that is past the point where it changed the
  request to restore (`Committing`) has put its own outcome there, and when it unlocks, on
  the disk; with nobody committing, memory and disk hold the last answered outcome. Both
  cases are needed: between the two writes memory is ahead of the disk, and a crash there
  forgets an operation that was not answered yet. `PersistedIsLastOutcome` is the second.
- `DisabledInv`: once a stop has been answered after the boot restore, there is nothing on
  disk or in memory, the restore has nothing loaded, nobody is about to save, and a
  child that runs belongs to a start that is still undecided. The last part is why a late
  failure of a start, which stops the child again, cannot leave one behind.

The proof that a step preserves `IInv` has a lemma per conjunct, and in it one
step per action. `IInv => P` is immediate for each `P`.

`AccountingProofs` proves, for any number of users, bytes, goroutines, process
ids, cores, samples, requests, resets and crashes, each of the five properties the
accounting runs check: `TypeOK`, `NeverOverbilled`, `SettledFirst`, `BilledExactly`
and the refinement `ImplementsLedger`. Again the only assumption is
`ConstantsAssumption`. The invariant is

    AInv == TypeOK /\ HandlingMatches /\ AnswersMatch /\ ClaimsCarried

- `HandlingMatches` ties the mutex to the journal: a request that has gone past the
  journal finds a sample there only if it is one that quarantines it.
- `AnswersMatch`: what requests name is settled, ids of samples are fresh, and an
  answer the panel has not settled is the sample that is still retained. So an answer
  however late bills either nothing or just that sample.
- `ClaimsCarried` is the argument proper. For each user, what is billed, what the
  retained sample claims and what the next sample would claim (how far the counters
  are ahead of the journal; between a query and its write, how far the query is
  ahead of the journal and the counters ahead of the query) were carried.
  `NeverOverbilled` alone is not inductive: it says nothing of what is about to
  be claimed. A reset or a new core can only lower what is due, a new baseline
  forgets it, and a sample moves it on offer.

`SettledFirst` and the refinement are read off the invariant step by step: a step of
the ledger is a `Carry`, `Book`, `Refuse` or the retaining of a sample, all others
are invisible to it. `BilledExactly` needs the other direction, `SteadyMatches`:
while nothing disturbs the counters they are never behind the query, the query
never behind the journal, and the process that is labelled is the one sampled.

`UserSyncProofs` proves, for any users, tags, goroutines, batches, credentials,
starts, stops, exits and failed calls, each of the six properties that the passing
runs of `UserSync` check: `TypeOK`, `TrackedIsListed`, `UsersTracked`,
`OneCredential`, `AnswerIsTrue` and `SkipIsSound`. The only assumption is
`ConstantsAssumption`. The invariant, `IInv`, has the types (`UTypes`), three of the
properties themselves, and the following, which TLC has also checked on the two
instances:

- `JobsApart` and `StartMatches`: two requests share only torn users, and a start
  overlaps only requests whose users it has noted as dirty. So a step of one goroutine
  touches nothing that another counts on (`Undisturbed`, `UndisturbedInv`); each
  property has to be shown only for the request that moves.
- `Asked`, `NotAhead` and `Fresh`: what the panel wants of a user is what the last
  request asks for, no set is ahead of the panel, and a new credential is in no set
  before the old one has been removed.
- `RemovedFirst`: as long as no call has failed, the tags still to do cover
  whatever rw-core has of the user. They do at first because the list of tags covers
  what is tracked (`TrackedIsListed`) and what rw-core has is tracked
  (`UsersTracked`). That is why `OneCredential` holds.
- `AddedSoFar` and `BatchDone`: what has been added of the current user, and that the
  users already passed are as asked for. The last user passed gives `AnswerIsTrue`.
- `TrackedInCore` and `SwapMatches`: the converse of `UsersTracked`, and what a
  start has compared or published. Together they give `SkipIsSound`.

Only two steps make a user whole again or replace everything: `Serve`, where the
users that are not dirty have exactly the entries of the configuration, and a skipped
start, where the sets are those the comparison has found equal.

`CoreAssetsProofs` proves, for any bodies, URLs, digests, lists of assets, workers,
starts, cancellations, failures and kills, the four invariants that `core_assets` checks: `TypeOK`,
`KeepsOrInstalls`, `InstalledIsAsked` and `SourcesInOrder`. It assumes
`ArtifactAssumption`, `CoreAssumption`, `GeodataAssumption` and `StartsAssumption` (types of
the constants; `None` is no file, no marker and no outcome). The invariant of the core loader is

    CoreInv == Types /\ Tried /\ Times /\ Installing /\ Leads /\ Answers

- `Times` is the reason why a marker can be trusted: modification times only grow, so
  a marker with the time of the custom core was written for that core. It needs
  `Installing`: from the download to the rename, the staged file is younger
  than both.
- `Tried`: a custom core in place was run once, and the link leads to it only while it is there,
  which is why `restoreStock` must link before it removes.
- `Leads` says where the link leads at each label, `Answers` what a call that has ended
  left behind. The geodata pool touches none of these files (`FrameInv`).

That of the pool is

    PoolInv == GeodataTypeOK /\ Waiting /\ (\A w \in Workers : Working(w)) /\ SourcesInOrder

`SourcesInOrder` is not inductive alone, because it says nothing of groups that wait or of the sources
before the one a worker is at. `Waiting`: a group not yet offered is every
position of its file, none of them tried. `Working`: what is left of a worker's group is the end
of its file's positions, in no waiting group, and each source before it has failed, unless
the file is there already (then no source of it is tried again). A step of one
worker disturbs neither the others nor the waiting groups, because their files differ
(`Undisturbed`, `UpcomingWaits`). That a group has a least position, and that the pool has
workers enough, rest on `LeastExists` (every set of naturals that is not empty has a least
element, from the well-foundedness of `<`) and on cardinalities (`WorkerPool`). `LeastExists`
stands in for induction where the claim can be put as a set.

`LogSegmentsProofs` and `AuditLogProofs` prove, for streams, lines, files, buffers and chunks
of any size and any number of days, requests, kills and failing operations, the six
properties that `audit_log` checks: `TypeOK`, `NothingLost`, `LinesStayWhole`,
`ChunkIsTrue`, `PassedWasDelivered` and `GapsCoverRemovals`. They assume `StreamAssumption` and
`ReaderAssumption`. TLC has checked the invariant on the instance of the run and on one with
three days (5.5 million states). It has two halves, `Inv == LogInv /\ ReaderInv`. Of the log:

- `HoldsFile` and `HoldsBytes`: at which labels there is an active file, and that what is pending is
  the end of what was read. So one number, `Out`, divides the stored bytes from
  the pending ones, and `ContentInv` (each byte is in one place, in order, none beyond `Out`) is
  about the only two things a step does to the files: nothing, or appending the front of
  what is pending (`StepShape`, `ContentStep`).
- `JournalInv`: at each label, and after a kill at any of them, the journal agrees with the files: it
  names a segment that is the active file still, or is one already, or is gone.
- `NumbersInv`: each rotation is followed by the write of a byte that was pending, or the
  process dies with it, so there are never more rotations than bytes
  (`Budget`). That is why the numbers and inodes that the model has do not run out, and `seal`
  always finds an unused number (`SealNumber`).
- `InodesInv`: files and inodes correspond one to one, and a file is older than any that has got
  its name since.
- `LinesInv`: the pump is inside a sound line only when it is down or recovering; a line it is not
  inside is together in one file. `LinesStayWhole` follows.

Of the readers, `ReaderInv`: an entry of a catalog is the segment of that name or one that is
gone (`CatalogInv`); what the panel has passed of a file it has (`CursorInv`); a request
between Stat and Open starts where the panel was, an answer under way has whole lines and all
that is before its offset, a name called safe is that of a segment the panel has, or of one that is
gone (`OpenInv`, `AnswerInv`, `CleanInv`); a segment that is gone was delivered, and its record is a
line of the journal, or the journal has a line that is none (`RemovedInv`, `Journaled`). Nothing
removes such a line, so that a clean that finds none has the record of every removal:
`AnswerNamesRemovals`, which with the invariant gives the action property `GapsCoverRemovals`. What makes these stable is `Grows`: files only grow, keep their inode, and are renamed or
removed whole. So what is known of a file stays true of it under any name. `DropTrue`,
`SplitTrue` and `NextPassed` are the lemmas about the text: what is dropped of a chunk, that its
lines are the file's, and that every byte before the next offset is in one of them, or was before. The proof
attempt is what showed that a name may be reused (above): the two last properties were false
without `Reused`, beyond the bounds of the run.

`PluginServiceProofs` proves, for any payloads, lists, goroutines, webhooks, calls, starts and
failing scripts, the five properties that `plugins` checks: `TypeOK`, `TablesFollowPlugin`,
`BlockerIsWired`, `SyncAnswerIsTrue` and `ReportsBelong`, from `PayloadAssumption` and
`ServiceAssumption`. TLC has checked the invariant on the instance of the run
(5.5 million states). It is

    IInv == StateTypes /\ CoreTypes /\ CallTypes /\ GhostTypes /\ (\A p \in Clients : Own(p))
            /\ AloneInv /\ TablesInv /\ AckedInv /\ ReportsBelong /\ OptsInv /\ WiredInv

- `Own` is what a goroutine holds at its label: the kind of its call and what it has done
  (`LabelInv`); as long as no other writer has overlapped it, the state as it has read it, or left it
  (`StateInv`); for a webhook, the checks it has passed, until the state is replaced
  (`HookInv`); and, if it has rebuilt the sets without a failure, that they have the elements of
  the scripts it has run and no others (`BuiltInv`, `Progress`).
- `AloneInv`: a writer that thinks itself alone is. The checks of `HandleSync` are
  outside the lock that `UpdateFromSync` takes, so nothing but this keeps the decision
  (unchanged, restart, remove) true until it is acted on; calls that overlap say so when
  they end (`trust`, `mixed`), and the promises begin again with the next change.
- `TablesInv`: when nobody has replaced the state or rebuilt the sets without having ended, the sets
  are the plugin's. `TablesFollowPlugin` is not inductive alone because it is silent while a
  writer is under way, and a webhook may add an address all the while.
- `OptsInv` and `WiredInv`: a start has read the options in force, or knows it has not
  (`late`); the core is wired for the settings in force, or a lone call is on its
  way to stop it (`Pending`).

The scripts are a sequence whose elements are addresses or ports (`FilterScriptsType`), which
holds because the payload was validated (`EgressLists`, `SharedListItems`).

`ProbesProofs` proves, for any addresses, latencies, limits, payloads, hop counts, configurations and
requests, the three safety properties that `probes` checks: `TypeOK`, `VerdictIsEarned` and
`SuccessIsEarned`, from `ProbeAssumption`, `HealthAssumption`, `TraceAssumption` and
`BacktraceAssumption`. Most of the argument is about the two algorithms, which the run can follow for a
few observations only:

- `SniVerdict`: what `Finish` makes of the checks of any observation. `FullStatuses` says which
  statuses the checks have; `ServingPasses` and `PassingServes` say that neither a failure nor a missing
  answer is among them exactly when a client would get through; `WarningsOf` that a warning is when some
  address does not pass, the median is late or the spread is wide (`MedianOfThree`, `SpreadOfThree`: a
  sorted order of three times exists, so that the `CHOOSE` of `Median` takes one);
  `NodeFaultFails` that what fails when only the command failed depends on it.
- `TraceVerdict`: `Ordered` is the loop invariant of the insertion sort: the hops so far are those of
  the groups so far that are not empty, each once, by hop count and then by place in the payload.
  `SortStep` keeps it; `HopsAreOrdered` is the induction, on the least step at which it would
  fail (the library's induction takes an operator and cannot be used), and shows first that the
  recursion of `Hops` has a solution. The last answer of the sorted hops is therefore the one at the end
  of the route (`RouteEnd`).

The invariant over the services, `ProbesInv`, is then short: each answer holds results that some
observation has, each probe of a route at its stage is good (`GoodProbe`: it runs only when its address is
public), the slot and the line are those of the requesters that trace and wait. `TypeOK` needs that
nobody stands twice in the line (`Queue`), or the one who leaves it would remain in it.

Model-checked only: liveness (`EveryCallAnswered`, `OnlineHeals`, `StartEnds`, `EveryRunEnds`), which is out of
the prover's reach, as is `ENABLED`. Every safety property of the passing runs is a theorem.
The disagreements (findings) are counterexamples of TLC.

## 5. What is not modelled, and why

- **Statistics, telemetry, system, network and TCP figures** (`internal/stats/handler.go`,
  `internal/forwarding`, `internal/system`, `tcpstats`, `vnstat`): they parse what a socket or a file of
  the kernel says and map it to an answer. The aggregation of rows keeps no
  state between two queries that another goroutine could disturb; what their resets
  do to the accounting is `ResetCounters`.
- **Server, authentication, body limits** (`internal/httpserver`, `internal/auth`): a token check
  and a decoder in front of each handler; the handlers themselves are in the modules.
- **Configuration rendering** beyond the WARP guard and the torrent blocker: a sequential
  rewriting of a JSON document, the same for the same input.
- **Vision, WARP services, connections dropper**: each request is one call of the core's routing
  API, of an HTTP probe or of the kernel, whose result is the answer; no state.
- **The pre-start section of a payload and its application** (the two `prestart.go`): stale sockets
  that match a list of patterns are removed before the core is spawned; failures are only logged.
- **`SourceMetadata`** of the audit reader only looks.
- **Power failures**: the modules kill the process, and what it has written stays. That
  `last-start.json` is not synced is listed among the hazards.
- **Configuration, doctor, ASN database, scripts**: read at start or run by hand; shell scripts are
  sequences of host operations, of which `scripts/upgrade.sh` has a rollback that a
  test on a host exercises better.
- **The end of the node process** (`main.go`): the service manager's part in it is external.
