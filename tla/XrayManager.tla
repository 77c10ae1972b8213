----------------------------- MODULE XrayManager -----------------------------
(***************************************************************************)
(* The supervisor of the rw-core child process: internal/xray/manager.go   *)
(* with persist.go, hashstate.go, running_config.go and handler.go.        *)
(*                                                                         *)
(* Every critical section of m.mu is one step, except stopProcessLocked,   *)
(* which waits up to ten seconds for the child while it holds m.mu: there  *)
(* "mu" names the holder.  m.lifecycleMu is held by a whole Start, Stop or *)
(* RunningConfig.  A configuration is an element of Configs; two of them   *)
(* may share a hash, because the panel's hashes do not cover everything    *)
(* that the rendered JSON contains.                                        *)
(***************************************************************************)
EXTENDS Naturals

CONSTANTS
  Clients,      \* goroutines serving panel requests and plugin callbacks
  Boot,         \* the goroutine of RestoreOnBoot
  Configs,      \* start requests
  Hashes,
  HashOf,       \* [Configs -> Hashes]: the hashes a request carries
  None,         \* nil, the empty string, no holder
  MaxCores,     \* bound: rw-core processes spawned
  MaxCalls,     \* bound: calls made by clients
  MaxAttempts,  \* attempts of RestoreOnBoot (10 in the code)
  MaxCrashes,   \* bound: crashes of the node process
  PingMayFail,  \* may a ping of a serving core time out?
  DiskMayFail   \* may a write of last-start.json fail?

ASSUME ConstantsAssumption ==
  /\ Boot \notin Clients
  /\ HashOf \in [Configs -> Hashes]
  /\ None \notin Clients \cup {Boot} \cup Configs \cup Hashes
  /\ MaxCores \in Nat /\ MaxCalls \in Nat
  /\ MaxAttempts \in Nat \ {0} /\ MaxCrashes \in Nat
  /\ PingMayFail \in BOOLEAN /\ DiskMayFail \in BOOLEAN

Procs == Clients \cup {Boot}
Cores == 1..MaxCores
NoCore == 0

VARIABLES
  mu,              \* holder of m.mu across stopProcessLocked, or None
  lifecycle,       \* holder of m.lifecycleMu, or None
  startProcessing,
  xrayOnline,
  currentConfig,   \* what /internal/get-config hands to a core
  runningConfig,   \* what running-config reports
  hash,            \* emptyConfigHash and inboundHashes taken together
  process,         \* m.process: a core or NoCore
  lastStart,       \* m.lastStartRequest
  persisted,       \* last-start.json
  core,            \* the child: unborn, booting, serving, killed, dead
  coreCfg,         \* the configuration the child fetched at startup
  monitor,         \* its monitorProcess: off, waiting, delivered, finished
  pc, op, req,     \* the goroutines: label, operation, start request,
  seen, reply,     \* configuration of the core that answered the ping, answer
  attempt,         \* attempts made by RestoreOnBoot
  health,          \* the health poll: idle, or the answer it is about to write
  calls, crashes,  \* counters of the bounds
  acked,           \* history: outcome of the last operation answered to its caller
  diskStale,       \* history: the last write of last-start.json failed
  disabled         \* history: "no", or a panel stop was answered while the boot
                   \* restore was running ("booting"), or after it ("settled")

lockVars == <<mu, lifecycle, startProcessing>>
memVars  == <<xrayOnline, currentConfig, runningConfig, hash, process>>
diskVars == <<lastStart, persisted, diskStale>>
coreVars == <<core, coreCfg, monitor>>
callVars == <<op, req>>
procVars == <<pc, callVars, seen, reply, attempt>>
boundVars == <<calls, crashes>>
ghostVars == <<acked, disabled>>
vars == <<lockVars, memVars, diskVars, coreVars, procVars, health, boundVars, ghostVars>>

\* What a client may ask for: the operation and its start request.
Requests == ({"start"} \X Configs) \cup ({"stop", "pause", "config"} \X {None})

Alive(c)   == core[c] \in {"booting", "serving", "killed"}
Serving(c) == core[c] = "serving"
PingFails  == PingMayFail \/ \A c \in Cores : ~Serving(c)
Reaped(c)  == monitor[c] \in {"delivered", "finished"}

Init ==
  /\ mu = None /\ lifecycle = None /\ startProcessing = FALSE
  /\ xrayOnline = FALSE /\ currentConfig = None /\ runningConfig = None
  /\ hash = None /\ process = NoCore
  /\ lastStart = None /\ persisted = None /\ diskStale = FALSE
  /\ core = [c \in Cores |-> "unborn"]
  /\ coreCfg = [c \in Cores |-> None]
  /\ monitor = [c \in Cores |-> "off"]
  /\ pc = [p \in Procs |-> IF p = Boot THEN "load" ELSE "idle"]
  /\ op = [p \in Procs |-> "none"] /\ req = [p \in Procs |-> None]
  /\ seen = [p \in Procs |-> None]
  /\ reply = [p \in Procs |-> "none"]
  /\ attempt = 0
  /\ health = "idle"
  /\ calls = 0 /\ crashes = 0
  /\ acked = None /\ disabled = "no"

-----------------------------------------------------------------------------
(* Plumbing of the goroutines. *)

Goto(p, label) == pc' = [pc EXCEPT ![p] = label]
Say(p, answer) == reply' = [reply EXCEPT ![p] = answer]
Started(p) == reply[p] \in {"skipped", "started"}

\* The call returns.  RestoreOnBoot goes round its loop instead, if it may.
RetryIf(more, p, answer) ==
  /\ seen' = [seen EXCEPT ![p] = None]
  /\ reply' = [reply EXCEPT ![p] = "none"]
  /\ IF p = Boot /\ answer \notin {"skipped", "started"} /\ more
       THEN /\ attempt' = attempt + 1
            /\ Goto(p, "gate")
            /\ UNCHANGED callVars
       ELSE /\ Goto(p, IF p = Boot THEN "off" ELSE "idle")
            /\ op' = [op EXCEPT ![p] = "none"] /\ req' = [req EXCEPT ![p] = None]
            /\ UNCHANGED attempt

\* A seeded fault (see below): one attempt too many.
FaultOneMoreAttempt(p, answer) == RetryIf(attempt <= MaxAttempts, p, answer)

Return(p, answer) == RetryIf(attempt < MaxAttempts, p, answer)

\* A panel or plugin request arrives.  "pause" is StopIfOnline.
Invoke(p) ==
  /\ pc[p] = "idle" /\ p \in Clients /\ calls < MaxCalls
  /\ calls' = calls + 1
  /\ \E r \in Requests :
       /\ op' = [op EXCEPT ![p] = r[1]] /\ req' = [req EXCEPT ![p] = r[2]]
       /\ Goto(p, CASE r[1] = "start"  -> "gate"
                    [] r[1] = "stop"   -> "lock"
                    [] r[1] = "pause"  -> "ifOnline"
                    [] r[1] = "config" -> "tryConfig")
  /\ UNCHANGED <<lockVars, memVars, diskVars, coreVars, seen, reply, attempt, health, crashes, ghostVars>>

\* RestoreOnBoot reads last-start.json, once, before its attempts.
BootLoad ==
  /\ pc[Boot] = "load"
  /\ IF persisted = None
       THEN Goto(Boot, "off") /\ UNCHANGED <<callVars, attempt>>
       ELSE /\ Goto(Boot, "gate")
            /\ op' = [op EXCEPT ![Boot] = "start"] /\ req' = [req EXCEPT ![Boot] = persisted]
            /\ attempt' = 1
  /\ UNCHANGED <<lockVars, memVars, diskVars, coreVars, seen, reply, health, boundVars, ghostVars>>

-----------------------------------------------------------------------------
(* Seeded faults: variants of the steps below, in the order in which they    *)
(* appear.  No specification uses them; the model checker must reject each.  *)

\* The reset of startProcessing is deferred before the flag is tested.
FaultGateDefersFirst(p) ==
  /\ pc[p] = "gate" /\ mu = None
  /\ startProcessing' = TRUE
  /\ IF startProcessing THEN Goto(p, "ungate") /\ Say(p, "rejected")
                        ELSE Goto(p, "try") /\ UNCHANGED reply
  /\ UNCHANGED <<mu, lifecycle, memVars, diskVars, coreVars, callVars, seen, attempt, health, boundVars, ghostVars>>

\* A skipped Start also replaces the startup snapshot.
FaultSkipRefreshesSnapshot(p) ==
  /\ pc[p] = "skip" /\ mu = None
  /\ currentConfig' = req[p] /\ runningConfig' = req[p]
  /\ hash' = HashOf[req[p]]
  /\ Goto(p, "persist") /\ Say(p, "skipped")
  /\ UNCHANGED <<lockVars, xrayOnline, process, diskVars, coreVars, callVars, seen, attempt, health, boundVars, ghostVars>>

\* The child is not killed when the first wait runs out.
FaultNoKill(p) ==
  /\ pc[p] = "stopWait"
  /\ Goto(p, "killWait")
  /\ UNCHANGED <<lockVars, memVars, diskVars, coreVars, callVars, seen, reply, attempt, health, boundVars, ghostVars>>

\* The second wait has no deadline.
FaultNoDeadline(p) == pc[p] = "killWait" /\ Reaped(process) /\ UNCHANGED vars

\* last-start.json is removed only when the core stopped.
FaultClearIfStopped(p) ==
  /\ pc[p] = "clearFile"
  /\ IF reply[p] = "stopped" THEN persisted' = None ELSE UNCHANGED persisted
  /\ Goto(p, "unlock")
  /\ UNCHANGED <<lockVars, memVars, lastStart, diskStale, coreVars, callVars, seen, reply, attempt, health, boundVars, ghostVars>>

\* last-start.json is not removed.
FaultNeverClear(p) ==
  /\ pc[p] = "clearFile"
  /\ Goto(p, "unlock")
  /\ UNCHANGED <<lockVars, memVars, diskVars, coreVars, callVars, seen, reply, attempt, health, boundVars, ghostVars>>

\* Health trusts the cached flag when there is no process.
FaultHealthTrustsCache ==
  /\ health = "idle" /\ mu = None
  /\ health' = IF (IF process = NoCore THEN xrayOnline ELSE \E c \in Cores : Serving(c))
               THEN "up" ELSE "down"
  /\ UNCHANGED <<lockVars, memVars, diskVars, coreVars, procVars, boundVars, ghostVars>>

\* A monitor clears m.process without comparing it to its own child.
FaultClearsAnyProcess(c) ==
  /\ monitor[c] = "delivered" /\ mu = None
  /\ monitor' = [monitor EXCEPT ![c] = "finished"]
  /\ process' = NoCore /\ xrayOnline' = FALSE
  /\ UNCHANGED <<lockVars, currentConfig, runningConfig, hash, diskVars, core, coreCfg, procVars, health, boundVars, ghostVars>>

-----------------------------------------------------------------------------
(* Start. *)

StartGate(p) ==
  /\ pc[p] = "gate" /\ mu = None
  /\ IF startProcessing
       THEN Return(p, "rejected") /\ UNCHANGED startProcessing
       ELSE /\ startProcessing' = TRUE
            /\ Goto(p, "try")
            /\ UNCHANGED <<callVars, seen, reply, attempt>>
  /\ UNCHANGED <<mu, lifecycle, memVars, diskVars, coreVars, health, boundVars, ghostVars>>

StartTryLock(p) ==
  /\ pc[p] = "try"
  /\ IF lifecycle # None
       THEN Goto(p, "ungate") /\ Say(p, "rejected") /\ UNCHANGED lifecycle
       ELSE Goto(p, "check") /\ lifecycle' = p /\ UNCHANGED reply
  /\ UNCHANGED <<mu, startProcessing, memVars, diskVars, coreVars, callVars, seen, attempt, health, boundVars, ghostVars>>

\* The configuration is rendered; the WARP guard may refuse it.  Any request
\* may force the restart, and disableHashCheck forces it for all.
StartCheck(p) ==
  /\ pc[p] = "check" /\ mu = None
  /\ \/ Goto(p, "unlock") /\ Say(p, "rejected")
     \/ xrayOnline /\ Goto(p, "ping") /\ UNCHANGED reply
     \/ Goto(p, "prepare") /\ UNCHANGED reply
  /\ UNCHANGED <<lockVars, memVars, diskVars, coreVars, callVars, seen, attempt, health, boundVars, ghostVars>>

\* Only a serving core answers.
StartPing(p) ==
  /\ pc[p] = "ping"
  /\ \/ \E c \in Cores : Serving(c) /\ Goto(p, "compare") /\ seen' = [seen EXCEPT ![p] = coreCfg[c]]
     \/ PingFails /\ Goto(p, "markOffline") /\ UNCHANGED seen
  /\ UNCHANGED <<lockVars, memVars, diskVars, coreVars, callVars, reply, attempt, health, boundVars, ghostVars>>

StartMarkOffline(p) ==
  /\ pc[p] = "markOffline" /\ mu = None
  /\ xrayOnline' = FALSE
  /\ Goto(p, "prepare")
  /\ UNCHANGED <<lockVars, currentConfig, runningConfig, hash, process, diskVars, coreVars, callVars, seen, reply, attempt, health, boundVars, ghostVars>>

NeedRestart(cfg) == hash = None \/ hash # HashOf[cfg]

StartCompare(p) ==
  /\ pc[p] = "compare" /\ mu = None
  /\ Goto(p, IF NeedRestart(req[p]) THEN "prepare" ELSE "skip")
  /\ UNCHANGED <<lockVars, memVars, diskVars, coreVars, callVars, seen, reply, attempt, health, boundVars, ghostVars>>

StartSkip(p) ==
  /\ pc[p] = "skip" /\ mu = None
  /\ currentConfig' = req[p]
  /\ hash' = HashOf[req[p]]
  /\ Goto(p, "persist") /\ Say(p, "skipped")
  /\ UNCHANGED <<lockVars, xrayOnline, runningConfig, process, diskVars, coreVars, callVars, seen, attempt, health, boundVars, ghostVars>>

\* coreLoader.prepare and geodataLoader.prepare; the first may fail.
StartPrepare(p) ==
  /\ pc[p] = "prepare"
  /\ \/ Goto(p, "unlock") /\ Say(p, "rejected")
     \/ Goto(p, "swap") /\ UNCHANGED reply
  /\ UNCHANGED <<lockVars, memVars, diskVars, coreVars, callVars, seen, attempt, health, boundVars, ghostVars>>

\* The new configuration and hashes are published before the old core is
\* asked to stop, in the same critical section.
StartSwap(p) ==
  /\ pc[p] = "swap" /\ mu = None
  /\ currentConfig' = req[p]
  /\ hash' = HashOf[req[p]]
  /\ runningConfig' = None
  /\ IF process = NoCore
       THEN xrayOnline' = FALSE /\ Goto(p, "spawn") /\ UNCHANGED mu
       ELSE mu' = p /\ Goto(p, "stopWait") /\ UNCHANGED xrayOnline
  /\ UNCHANGED <<lifecycle, startProcessing, process, diskVars, coreVars, callVars, seen, reply, attempt, health, boundVars, ghostVars>>

StartSpawn(p) ==
  /\ pc[p] = "spawn" /\ mu = None
  /\ xrayOnline' = FALSE
  /\ \/ \E c \in Cores :
          /\ core[c] = "unborn"
          /\ core' = [core EXCEPT ![c] = "booting"]
          /\ monitor' = [monitor EXCEPT ![c] = "waiting"]
          /\ process' = c
          /\ Goto(p, "wait") /\ UNCHANGED reply
     \/ Goto(p, "unlock") /\ Say(p, "failed") /\ UNCHANGED <<core, monitor, process>>
  /\ UNCHANGED <<lockVars, currentConfig, runningConfig, hash, diskVars, coreCfg, callVars, seen, attempt, health, boundVars, ghostVars>>

\* waitForGRPC: a ping succeeds, or the deadline passes, the request is
\* cancelled or the child is seen to have exited.
StartWait(p) ==
  /\ pc[p] = "wait"
  /\ \/ (\E c \in Cores : Serving(c)) /\ Goto(p, "finish") /\ UNCHANGED reply
     \/ Goto(p, "cleanup") /\ Say(p, "failed")
  /\ UNCHANGED <<lockVars, memVars, diskVars, coreVars, callVars, seen, attempt, health, boundVars, ghostVars>>

StartFinish(p) ==
  /\ pc[p] = "finish" /\ mu = None
  /\ xrayOnline' = TRUE
  /\ runningConfig' = req[p]
  /\ Goto(p, "persist") /\ Say(p, "started")
  /\ UNCHANGED <<lockVars, currentConfig, hash, process, diskVars, coreVars, callVars, seen, attempt, health, boundVars, ghostVars>>

StartCleanup(p) ==
  /\ pc[p] = "cleanup" /\ mu = None
  /\ runningConfig' = None
  /\ IF process = NoCore
       THEN xrayOnline' = FALSE /\ Goto(p, "unlock") /\ UNCHANGED mu
       ELSE mu' = p /\ Goto(p, "stopWait") /\ UNCHANGED xrayOnline
  /\ UNCHANGED <<lifecycle, startProcessing, currentConfig, hash, process, diskVars, coreVars, callVars, seen, reply, attempt, health, boundVars, ghostVars>>

StartPersist(p) ==
  /\ pc[p] = "persist" /\ mu = None
  /\ lastStart' = req[p]
  /\ Goto(p, "save")
  /\ disabled' = IF p = Boot THEN disabled ELSE "no"
  /\ UNCHANGED <<lockVars, memVars, persisted, diskStale, coreVars, callVars, seen, reply, attempt, health, boundVars, acked>>

\* savePersistedStart writes a temporary file and renames it: all or nothing.
\* A failure is only logged.
Save(cfg) ==
  \/ persisted' = cfg /\ diskStale' = FALSE
  \/ DiskMayFail /\ persisted' = persisted /\ diskStale' = TRUE

StartSave(p) ==
  /\ pc[p] = "save"
  /\ Save(req[p])
  /\ Goto(p, "unlock")
  /\ UNCHANGED <<lockVars, memVars, lastStart, coreVars, callVars, seen, reply, attempt, health, boundVars, ghostVars>>

\* The deferred reset of startProcessing runs after the lifecycle lock is
\* released.
StartUngate(p) ==
  /\ pc[p] = "ungate" /\ mu = None
  /\ startProcessing' = FALSE
  /\ Return(p, reply[p])
  /\ UNCHANGED <<mu, lifecycle, memVars, diskVars, coreVars, health, boundVars, ghostVars>>

-----------------------------------------------------------------------------
(* stopProcessLocked: the part that waits, with m.mu held. *)

\* The second half of the caller's critical section, once the child is gone
\* or given up.  A Start that was cleaning up has already said "failed".
AfterStop(p, stopped) ==
  /\ mu' = None
  /\ lastStart' = IF op[p] = "stop" THEN None ELSE lastStart
  /\ Goto(p, CASE op[p] = "stop"  -> "clearFile"
               [] op[p] = "pause" -> "unlock"
               [] op[p] = "start" -> IF stopped /\ reply[p] = "none" THEN "spawn" ELSE "unlock")
  /\ Say(p, CASE op[p] \in {"stop", "pause"} -> IF stopped THEN "stopped" ELSE "stopFailed"
              [] op[p] = "start" -> IF stopped THEN reply[p] ELSE "failed")
  /\ UNCHANGED <<lifecycle, startProcessing, runningConfig, persisted, diskStale, coreVars, callVars, seen, attempt, health, boundVars, ghostVars>>

StopReaped(p) ==
  /\ pc[p] \in {"stopWait", "killWait"} /\ Reaped(process)
  /\ process' = NoCore
  /\ xrayOnline' = FALSE
  /\ IF op[p] = "start" THEN UNCHANGED <<currentConfig, hash>>
                             ELSE currentConfig' = None /\ hash' = None
  /\ AfterStop(p, TRUE)

\* Five seconds after the interrupt: SIGKILL.
StopKill(p) ==
  /\ pc[p] = "stopWait"
  /\ core' = [core EXCEPT ![process] = IF Alive(process) THEN "killed" ELSE @]
  /\ Goto(p, "killWait")
  /\ UNCHANGED <<lockVars, memVars, diskVars, coreCfg, monitor, callVars, seen, reply, attempt, health, boundVars, ghostVars>>

\* Five seconds later: m.process is kept.  Only the cleanup of a failed Start
\* also marks the core offline.
StopTimeout(p) ==
  /\ pc[p] = "killWait"
  /\ xrayOnline' = (xrayOnline /\ reply[p] # "failed")
  /\ UNCHANGED <<currentConfig, hash, process>>
  /\ AfterStop(p, FALSE)

-----------------------------------------------------------------------------
(* Stop(true), the panel's stop, and Stop(false) through StopIfOnline. *)

PauseIfOnline(p) ==
  /\ pc[p] = "ifOnline" /\ mu = None
  /\ IF xrayOnline THEN Goto(p, "lock") /\ UNCHANGED <<callVars, seen, reply, attempt>>
                   ELSE Return(p, "offline")
  /\ UNCHANGED <<lockVars, memVars, diskVars, coreVars, health, boundVars, ghostVars>>

StopLock(p) ==
  /\ pc[p] = "lock" /\ lifecycle = None
  /\ lifecycle' = p
  /\ Goto(p, IF op[p] = "pause" THEN "flush" ELSE "halt")
  /\ UNCHANGED <<mu, startProcessing, memVars, diskVars, coreVars, callVars, seen, reply, attempt, health, boundVars, ghostVars>>

\* flushPersistedStart: read under m.mu, written after it.  Only a lifecycle
\* holder changes lastStart, so the two are one step.
StopFlush(p) ==
  /\ pc[p] = "flush" /\ mu = None
  /\ IF lastStart = None THEN UNCHANGED <<persisted, diskStale>> ELSE Save(lastStart)
  /\ Goto(p, "halt")
  /\ UNCHANGED <<lockVars, memVars, lastStart, coreVars, callVars, seen, reply, attempt, health, boundVars, ghostVars>>

\* Without a process the configuration is dropped but the hashes are kept.
StopHalt(p) ==
  /\ pc[p] = "halt" /\ mu = None
  /\ runningConfig' = None
  /\ IF process = NoCore
       THEN /\ xrayOnline' = FALSE /\ currentConfig' = None
            /\ lastStart' = IF op[p] = "stop" THEN None ELSE lastStart
            /\ Goto(p, IF op[p] = "stop" THEN "clearFile" ELSE "unlock")
            /\ Say(p, "stopped")
            /\ UNCHANGED mu
       ELSE /\ mu' = p /\ Goto(p, "stopWait")
            /\ UNCHANGED <<xrayOnline, currentConfig, lastStart, reply>>
  /\ UNCHANGED <<lifecycle, startProcessing, hash, process, persisted, diskStale, coreVars, callVars, seen, attempt, health, boundVars, ghostVars>>

StopClearFile(p) ==
  /\ pc[p] = "clearFile"
  /\ Save(None)
  /\ Goto(p, "unlock")
  /\ UNCHANGED <<lockVars, memVars, lastStart, coreVars, callVars, seen, reply, attempt, health, boundVars, ghostVars>>

-----------------------------------------------------------------------------
(* RunningConfig. *)

ConfigTryLock(p) ==
  /\ pc[p] = "tryConfig"
  /\ IF lifecycle # None
       THEN Return(p, "busy") /\ UNCHANGED lifecycle
       ELSE /\ lifecycle' = p /\ Goto(p, "readConfig")
            /\ UNCHANGED <<callVars, seen, reply, attempt>>
  /\ UNCHANGED <<mu, startProcessing, memVars, diskVars, coreVars, health, boundVars, ghostVars>>

\* runningConfig changes only under the lifecycle lock, so the snapshot read
\* here and the variable agree until the answer.
ConfigRead(p) ==
  /\ pc[p] = "readConfig" /\ mu = None
  /\ IF xrayOnline THEN Goto(p, "pingConfig") /\ UNCHANGED reply
                   ELSE Goto(p, "unlock") /\ Say(p, "offline")
  /\ UNCHANGED <<lockVars, memVars, diskVars, coreVars, callVars, seen, attempt, health, boundVars, ghostVars>>

ConfigPing(p) ==
  /\ pc[p] = "pingConfig"
  /\ Goto(p, "unlock")
  /\ \/ \E c \in Cores :
          /\ Serving(c) /\ seen' = [seen EXCEPT ![p] = coreCfg[c]]
          /\ Say(p, IF runningConfig = None THEN "unavailable" ELSE "running")
     \/ PingFails /\ Say(p, "offline") /\ UNCHANGED seen
  /\ UNCHANGED <<lockVars, memVars, diskVars, coreVars, callVars, attempt, health, boundVars, ghostVars>>

\* The deferred unlock of m.lifecycleMu, common to the three operations.
Unlock(p) ==
  /\ pc[p] = "unlock"
  /\ lifecycle' = None
  /\ IF op[p] = "start"
       THEN Goto(p, "ungate") /\ UNCHANGED <<callVars, seen, reply, attempt>>
       ELSE Return(p, reply[p])
  /\ acked' = CASE Started(p) -> req[p]
                [] op[p] = "stop" -> None
                [] OTHER -> acked
  /\ disabled' = IF op[p] = "stop" /\ reply[p] = "stopped"
                   THEN IF pc[Boot] = "off" /\ ~diskStale THEN "settled" ELSE "booting"
                   ELSE disabled
  /\ UNCHANGED <<mu, startProcessing, memVars, diskVars, coreVars, health, boundVars>>

-----------------------------------------------------------------------------
(* Health: the ping runs without a lock between the read and the write. *)

\* Without a process and offline there is no ping.  A ping that another
\* operation overtakes sees what a later poll would, so reading m.process and
\* pinging are one step; the answer may be stale when it is written.
HealthPing ==
  /\ health = "idle" /\ mu = None
  /\ \/ (\E c \in Cores : Serving(c)) /\ health' = "up"
     \/ (PingFails \/ (process = NoCore /\ ~xrayOnline)) /\ health' = "down"
  /\ UNCHANGED <<lockVars, memVars, diskVars, coreVars, procVars, boundVars, ghostVars>>

HealthWrite ==
  /\ health # "idle" /\ mu = None
  /\ xrayOnline' = (health = "up")
  /\ health' = "idle"
  /\ UNCHANGED <<lockVars, currentConfig, runningConfig, hash, process, diskVars, coreVars, procVars, boundVars, ghostVars>>

-----------------------------------------------------------------------------
(* The child and its monitor. *)

\* rw-core reads its configuration from the internal socket and starts
\* serving.  While there is none the socket hands out "{}", with which a core
\* lives but answers no ping: it stays "booting".
CoreFetch(c) ==
  /\ core[c] = "booting" /\ mu = None /\ currentConfig # None
  /\ core' = [core EXCEPT ![c] = "serving"]
  /\ coreCfg' = [coreCfg EXCEPT ![c] = currentConfig]
  /\ UNCHANGED <<lockVars, memVars, diskVars, monitor, procVars, health, boundVars, ghostVars>>

\* On an interrupt, a signal from outside, or a failure of its own.
CoreExit(c) ==
  /\ Alive(c)
  /\ core' = [core EXCEPT ![c] = "dead"]
  /\ coreCfg' = [coreCfg EXCEPT ![c] = None]
  /\ UNCHANGED <<lockVars, memVars, diskVars, monitor, procVars, health, boundVars, ghostVars>>

\* cmd.Wait returns, the logs are closed and done is delivered, without m.mu.
MonitorDeliver(c) ==
  /\ monitor[c] = "waiting" /\ core[c] = "dead"
  /\ monitor' = [monitor EXCEPT ![c] = "delivered"]
  /\ UNCHANGED <<lockVars, memVars, diskVars, core, coreCfg, procVars, health, boundVars, ghostVars>>

\* Only the monitor of the current process may clear it.
MonitorClear(c) ==
  /\ monitor[c] = "delivered" /\ mu = None
  /\ monitor' = [monitor EXCEPT ![c] = "finished"]
  /\ IF process = c THEN process' = NoCore /\ xrayOnline' = FALSE
                    ELSE UNCHANGED <<process, xrayOnline>>
  /\ UNCHANGED <<lockVars, currentConfig, runningConfig, hash, diskVars, core, coreCfg, procVars, health, boundVars, ghostVars>>

-----------------------------------------------------------------------------
(* The node process dies and is started again by the service manager, which
   also kills what is left of the old process group (external: the service
   unit's default).  Only last-start.json survives. *)
NodeCrash ==
  /\ crashes < MaxCrashes
  /\ crashes' = crashes + 1
  /\ mu' = None /\ lifecycle' = None /\ startProcessing' = FALSE
  /\ xrayOnline' = FALSE /\ currentConfig' = None /\ runningConfig' = None
  /\ hash' = None /\ process' = NoCore /\ lastStart' = None
  /\ core' = [c \in Cores |-> IF core[c] = "unborn" THEN "unborn" ELSE "dead"]
  /\ coreCfg' = [c \in Cores |-> None]
  /\ monitor' = [c \in Cores |-> IF core[c] = "unborn" THEN "off" ELSE "finished"]
  /\ pc' = [p \in Procs |-> IF p = Boot THEN "load" ELSE "idle"]
  /\ op' = [p \in Procs |-> "none"] /\ req' = [p \in Procs |-> None]
  /\ seen' = [p \in Procs |-> None]
  /\ reply' = [p \in Procs |-> "none"]
  /\ attempt' = 0
  /\ health' = "idle"
  \* An operation cut short was answered to nobody: either outcome is right.
  /\ acked' = IF lifecycle = None THEN acked ELSE persisted
  /\ disabled' = IF lifecycle = None THEN disabled ELSE "no"
  /\ UNCHANGED <<persisted, diskStale, calls>>

StartStep(p) ==
  \/ StartGate(p) \/ StartTryLock(p) \/ StartCheck(p) \/ StartPing(p)
  \/ StartMarkOffline(p) \/ StartCompare(p) \/ StartSkip(p) \/ StartPrepare(p)
  \/ StartSwap(p) \/ StartSpawn(p) \/ StartWait(p) \/ StartFinish(p)
  \/ StartCleanup(p) \/ StartPersist(p) \/ StartSave(p) \/ StartUngate(p)

StopStep(p) ==
  \/ PauseIfOnline(p) \/ StopLock(p) \/ StopFlush(p) \/ StopHalt(p) \/ StopClearFile(p)
  \/ StopReaped(p) \/ StopKill(p) \/ StopTimeout(p)

ConfigStep(p) == ConfigTryLock(p) \/ ConfigRead(p) \/ ConfigPing(p)

Step(p) == StartStep(p) \/ StopStep(p) \/ ConfigStep(p) \/ Unlock(p)
HealthStep == HealthPing \/ HealthWrite
CoreStep(c) == CoreFetch(c) \/ CoreExit(c) \/ MonitorDeliver(c) \/ MonitorClear(c)

Next ==
  \/ \E p \in Procs : Invoke(p) \/ Step(p)
  \/ BootLoad
  \/ HealthStep
  \/ \E c \in Cores : CoreStep(c)
  \/ NodeCrash

Spec == Init /\ [][Next]_vars

\* The scheduler runs every goroutine and Go's mutexes do not starve a
\* waiter.  Nothing is assumed of the child, which may ignore its signals, nor
\* of callers: a request need never come, nor a health poll begin.
Fairness ==
  /\ \A p \in Procs : SF_vars(Step(p))
  /\ SF_vars(HealthWrite)
  /\ WF_vars(BootLoad)
  /\ \A c \in Cores : WF_vars(MonitorDeliver(c)) /\ SF_vars(MonitorClear(c))

FairSpec == Spec /\ Fairness

-----------------------------------------------------------------------------
(* Properties. *)

\* The labels of a goroutine, by the locks it holds there.
HoldsMu == {"stopWait", "killWait"}
InStart == {"check", "ping", "markOffline", "compare", "skip", "prepare", "swap",
            "spawn", "wait", "finish", "cleanup", "persist", "save"}
InLifecycle == InStart \cup HoldsMu \cup {"flush", "halt", "clearFile", "readConfig", "pingConfig", "unlock"}
Operations == {"none", "start", "stop", "pause", "config"}
Answers == {"none", "rejected", "failed", "skipped", "started", "stopped", "stopFailed",
            "offline", "unavailable", "running"}
Labels == InLifecycle \cup {"idle", "off", "load", "gate", "try", "ungate",
                            "ifOnline", "lock", "tryConfig"}

\* The goroutines between the gate of Start and its deferred reset.
PastGate(p) == op[p] = "start" /\ pc[p] \in InLifecycle \cup {"try", "ungate"}

TypeLocks ==
  /\ mu \in Procs \cup {None} /\ lifecycle \in Procs \cup {None}
  /\ startProcessing \in BOOLEAN
TypeMem ==
  /\ xrayOnline \in BOOLEAN /\ hash \in Hashes \cup {None}
  /\ currentConfig \in Configs \cup {None} /\ runningConfig \in Configs \cup {None}
  /\ process \in Cores \cup {NoCore}
TypeDisk ==
  /\ lastStart \in Configs \cup {None} /\ persisted \in Configs \cup {None}
  /\ diskStale \in BOOLEAN
TypeCores ==
  /\ core \in [Cores -> {"unborn", "booting", "serving", "killed", "dead"}]
  /\ coreCfg \in [Cores -> Configs \cup {None}]
  /\ monitor \in [Cores -> {"off", "waiting", "delivered", "finished"}]
TypeProcs ==
  /\ pc \in [Procs -> Labels] /\ op \in [Procs -> Operations]
  /\ req \in [Procs -> Configs \cup {None}] /\ seen \in [Procs -> Configs \cup {None}]
  /\ reply \in [Procs -> Answers] /\ attempt \in 0..MaxAttempts
TypeRest ==
  /\ health \in {"idle", "up", "down"}
  /\ calls \in 0..MaxCalls /\ crashes \in 0..MaxCrashes
  /\ acked \in Configs \cup {None} /\ disabled \in {"no", "booting", "settled"}

\* Every variable keeps its type; RestoreOnBoot makes at most MaxAttempts
\* attempts.
TypeOK == TypeLocks /\ TypeMem /\ TypeDisk /\ TypeCores /\ TypeProcs /\ TypeRest

\* Every rw-core child that has not exited is m.process: none can run on
\* where neither Stop nor a later Start would find it.  Monitors that finish
\* late, stops that time out and failed starts all threaten this.
NoOrphanCore == \A c \in Cores : Alive(c) => process = c

\* The flag that makes Start say "already in progress" is up exactly while
\* one goroutine is past the gate, so it neither lets two in nor sticks.
GateMatchesFlag ==
  /\ startProcessing <=> \E p \in Procs : PastGate(p)
  /\ \A p, q \in Procs : PastGate(p) /\ PastGate(q) => p = q

\* Start says "core already online and config unchanged" only if the core
\* that answered its ping was started with a configuration of the same hash.
\* The comparison reads manager state, never the core: an earlier Start that
\* replaced the hashes and then failed to stop the core must not mislead it.
SkipIsSound ==
  \A p \in Procs : reply[p] = "skipped" => HashOf[seen[p]] = HashOf[req[p]]

\* running-config reports the configuration the core that answers was
\* started with, not one rendered since (running_config.go:5-7).
RunningConfigExact ==
  \A p \in Procs : pc[p] = "unlock" /\ reply[p] = "running" => runningConfig = seen[p]

\* Between operations, and across a crash of the node, last-start.json holds
\* the outcome of the last operation that was answered: the configuration of
\* the last successful Start, nothing after the panel's stop; unless the last
\* write of the file failed, which the code only logs.
PersistedIsLastOutcome == lifecycle = None /\ ~diskStale => persisted = acked

\* After the panel's stop nothing is persisted and no core serves, reboots of
\* the node included, until a panel request starts one.
StaysDisabled(stopped) ==
  disabled \in stopped /\ ~diskStale /\ lifecycle = None =>
    persisted = None /\ \A c \in Cores : ~Serving(c)

\* What the comment at manager.go:354-356 promises of every panel stop.
DisabledStaysDisabled == StaysDisabled({"booting", "settled"})

\* What the code guarantees: the stop was answered after the boot restore
\* had ended.
DisabledOnceBooted == StaysDisabled({"settled"})

\* Every request is answered although m.mu is held during a stop, the
\* monitor needs m.mu, and a child may ignore even SIGKILL.
EveryCallAnswered == \A p \in Clients : pc[p] # "idle" ~> pc[p] = "idle"

\* The panel asks for GET /node/xray/healthcheck over and over: a hypothesis
\* about it, since nothing in the node polls.
PollsGoOn == []<>(health # "idle")

\* A health poll that writes a stale answer is corrected by a later one, for as
\* long as the panel goes on polling: once other requests stop arriving, the
\* cached flag agrees with the core for good, whatever polls, stops and
\* monitors did to it across one another.  The node alone does not promise it:
\* a stale "online" written after the monitor cleared the flag (manager.go:451)
\* stays until the next poll.
OnlineHeals == PollsGoOn => <>[](xrayOnline <=> \E c \in Cores : Serving(c))
=============================================================================
