------------------------- MODULE XrayManagerProofs -------------------------
(***************************************************************************)
(* Proofs about XrayManager, for every value of its constants.  The        *)
(* inductive invariant IInv is a conjunction whose parts are proved one on *)
(* top of the other: the types, the operation and the pending answer of a  *)
(* goroutine, the locks and the gate, the child process, what the manager  *)
(* knows of the child's configuration, and the request it would restore.   *)
(***************************************************************************)
EXTENDS XrayManager, TLAPS

\* A goroutine is where its operation takes it.
OpMatches ==
  /\ op[Boot] \in {"none", "start"}
  /\ \A p \in Procs :
      /\ pc[p] \in InStart \cup {"gate", "try", "ungate"} => op[p] = "start"
      /\ pc[p] \in {"flush", "halt", "lock", "ifOnline"} => op[p] \in {"stop", "pause"}
      /\ pc[p] = "clearFile" => op[p] = "stop"
      /\ pc[p] \in {"tryConfig", "readConfig", "pingConfig"} => op[p] = "config"
      /\ pc[p] \in HoldsMu => op[p] \in {"start", "stop", "pause"}
      /\ pc[p] = "unlock" => op[p] # "none"
      /\ op[p] = "start" => req[p] \in Configs

\* Where each answer can be pending.
ReplyMatches ==
  \A p \in Procs :
    /\ reply[p] = "skipped" => op[p] = "start" /\ pc[p] \in {"persist", "save", "unlock", "ungate"}
    /\ reply[p] = "running" => pc[p] = "unlock" /\ op[p] = "config"
    /\ pc[p] \in HoldsMu => reply[p] \in {"none", "failed"}
    /\ pc[p] = "cleanup" => reply[p] = "failed"
    /\ reply[p] # "none" =>
         pc[p] \in {"cleanup", "persist", "save", "clearFile", "unlock", "ungate"} \cup HoldsMu

\* The locks are held exactly at the labels that hold them.
LocksMatch ==
  /\ \A p \in Procs : mu = p <=> pc[p] \in HoldsMu
  /\ \A p \in Procs : lifecycle = p <=> pc[p] \in InLifecycle

\* The child: m.process is the only one that lives, and it is a core while a
\* stop waits for it.
CoreInv ==
  /\ NoOrphanCore
  /\ \A c \in Cores : Reaped(c) => core[c] = "dead"
  /\ \A p \in Procs : pc[p] \in HoldsMu => process \in Cores
  /\ \A p \in Procs : pc[p] = "killWait" => ~Serving(process) /\ core[process] # "booting"
  /\ \A p \in Procs : pc[p] = "spawn" => process = NoCore

\* The configuration a Start has published.
Published(p) == currentConfig = req[p] /\ hash = HashOf[req[p]]

\* What the manager knows of the child's configuration.
ConfigInv ==
  /\ \A c \in Cores : core[c] = "booting" =>
       currentConfig \in Configs /\ hash = HashOf[currentConfig] /\ runningConfig = None
  /\ \A c \in Cores : Serving(c) =>
       /\ coreCfg[c] \in Configs
       /\ mu = None => hash = HashOf[coreCfg[c]]
       /\ runningConfig \in {None, coreCfg[c]}
  /\ \A p \in Procs :
       /\ pc[p] \in HoldsMu /\ op[p] = "start" /\ reply[p] = "none" => Published(p)
       /\ pc[p] \in HoldsMu \cup {"spawn", "wait"} => runningConfig = None
       /\ pc[p] \in {"spawn", "wait", "finish"} => Published(p)
       /\ pc[p] \in {"wait", "finish"} => \A c \in Cores : Serving(c) => coreCfg[c] = req[p]
       /\ pc[p] = "finish" => \A c \in Cores : core[c] # "booting"
       /\ pc[p] \in {"compare", "skip"} => seen[p] \in Configs /\ hash = HashOf[seen[p]]
       /\ pc[p] = "skip" => hash = HashOf[req[p]]

\* A goroutine that is about to say "started" or "unchanged" is recording its
\* request, and one that is about to say "stopped" left no process behind.
AnswerMatches ==
  \A p \in Procs :
    /\ Started(p) => op[p] = "start" /\ pc[p] \in {"persist", "save", "unlock", "ungate"}
    /\ pc[p] \in {"persist", "save"} => Started(p)
    /\ reply[p] = "stopped" =>
         pc[p] \in {"clearFile", "unlock"} /\ op[p] \in {"stop", "pause"} /\ process = NoCore

\* The operations past the point where they have changed the request to restore,
\* and what they leave there.
Committing(p) ==
  \/ pc[p] \in {"save", "clearFile"}
  \/ pc[p] = "unlock" /\ (Started(p) \/ op[p] = "stop")
Outcome(p) == IF op[p] = "stop" THEN None ELSE req[p]

\* The file and the request in memory are those of the last answered operation,
\* or of the one that is committing.  A restart forgets the request in memory.
DiskInv ==
  /\ (\A p \in Procs : ~Committing(p)) =>
       (~diskStale => persisted = acked) /\ lastStart \in {None, acked}
  /\ \A p \in Procs : Committing(p) =>
       lastStart = Outcome(p) /\ (pc[p] = "unlock" /\ ~diskStale => persisted = Outcome(p))

\* While the node is disabled for good there is nothing that the boot restore or
\* a flush could bring back, and a core runs only under a start still undecided.
MayRun == {"wait", "finish", "persist", "cleanup", "stopWait"}
DisabledInv ==
  disabled = "settled" =>
    /\ persisted = None /\ lastStart = None
    /\ pc[Boot] \in {"off", "load"}
    /\ \A p \in Procs : pc[p] # "save"
    /\ \A c \in Cores : core[c] \in {"booting", "serving"} =>
         \E p \in Procs : pc[p] \in MayRun

IInv == TypeOK /\ OpMatches /\ ReplyMatches /\ LocksMatch /\ GateMatchesFlag
          /\ CoreInv /\ ConfigInv /\ SkipIsSound /\ RunningConfigExact
          /\ AnswerMatches /\ DiskInv /\ DisabledInv

-----------------------------------------------------------------------------
(* Types. *)

\* A group of variables that a step leaves alone keeps its type.
LEMMA TypeFrame ==
  /\ TypeLocks /\ UNCHANGED lockVars => TypeLocks'
  /\ TypeMem /\ UNCHANGED memVars => TypeMem'
  /\ TypeDisk /\ UNCHANGED diskVars => TypeDisk'
  /\ TypeCores /\ UNCHANGED coreVars => TypeCores'
  /\ TypeProcs /\ UNCHANGED procVars => TypeProcs'
  /\ TypeRest /\ UNCHANGED <<health, boundVars, ghostVars>> => TypeRest'
<1>1. TypeLocks /\ UNCHANGED lockVars => TypeLocks'
  BY DEF TypeLocks, lockVars
<1>2. TypeMem /\ UNCHANGED memVars => TypeMem'
  BY DEF TypeMem, memVars
<1>3. TypeDisk /\ UNCHANGED diskVars => TypeDisk'
  BY DEF TypeDisk, diskVars
<1>4. TypeCores /\ UNCHANGED coreVars => TypeCores'
  BY DEF TypeCores, coreVars
<1>5. TypeProcs /\ UNCHANGED procVars => TypeProcs'
  BY DEF TypeProcs, procVars, callVars
<1>6. TypeRest /\ UNCHANGED <<health, boundVars, ghostVars>> => TypeRest'
  BY DEF TypeRest, boundVars, ghostVars
<1> QED
  BY <1>1, <1>2, <1>3, <1>4, <1>5, <1>6

\* Whatever a call returns, the goroutines' variables keep their types.
LEMMA ReturnType ==
  ASSUME TypeProcs, NEW p \in Procs, NEW answer, Return(p, answer)
  PROVE  TypeProcs'
<1> USE ConstantsAssumption DEF TypeProcs, Return, RetryIf, Goto, callVars
<1>1. attempt' \in 0..MaxAttempts
  OBVIOUS
<1>2. pc' \in [Procs -> Labels]
  BY DEF Labels
<1>3. op' \in [Procs -> Operations] /\ req' \in [Procs -> Configs \cup {None}]
  BY DEF Operations
<1>4. seen' \in [Procs -> Configs \cup {None}] /\ reply' \in [Procs -> Answers]
  BY DEF Answers
<1> QED
  BY <1>1, <1>2, <1>3, <1>4

\* So does the end of a stop, for the operations that stop a core.
LEMMA AfterStopType ==
  ASSUME TypeProcs, NEW p \in Procs, NEW stopped \in BOOLEAN, AfterStop(p, stopped),
         op[p] \in {"start", "stop", "pause"}
  PROVE  TypeProcs'
<1> USE DEF TypeProcs, AfterStop, Goto, Say, callVars
<1>1. pc' \in [Procs -> Labels]
  BY DEF Labels, InLifecycle, InStart
<1>2. reply' \in [Procs -> Answers]
  BY DEF Answers
<1> QED
  BY <1>1, <1>2


\* Every step preserves the types.  That a start has a request to publish comes
\* from OpMatches.
LEMMA TypeStep ==
  ASSUME TypeOK, OpMatches, [Next]_vars
  PROVE  TypeOK'
<1> USE ConstantsAssumption
    DEF Goto, Say, callVars, boundVars, ghostVars, Labels, InLifecycle, InStart, HoldsMu,
        Operations, Answers
<1>0. TypeLocks /\ TypeMem /\ TypeDisk /\ TypeCores /\ TypeProcs /\ TypeRest
  BY DEF TypeOK
<1>1. ASSUME NEW p \in Procs, Invoke(p) PROVE TypeOK'
  BY <1>1, <1>0, TypeFrame DEF Invoke, TypeProcs, Requests, Procs, TypeRest, TypeOK
<1>2. ASSUME NEW p \in Procs, StartGate(p) PROVE TypeOK'
  BY <1>2, <1>0, ReturnType, TypeFrame DEF StartGate, TypeLocks, TypeProcs, TypeOK
<1>3. ASSUME NEW p \in Procs, StartTryLock(p) PROVE TypeOK'
  BY <1>3, <1>0, TypeFrame DEF StartTryLock, TypeLocks, TypeProcs, TypeOK
<1>4. ASSUME NEW p \in Procs, StartCheck(p) PROVE TypeOK'
  BY <1>4, <1>0, TypeFrame DEF StartCheck, TypeProcs, TypeOK
<1>5. ASSUME NEW p \in Procs, StartPing(p) PROVE TypeOK'
  BY <1>5, <1>0, TypeFrame DEF StartPing, TypeProcs, TypeCores, Serving, TypeOK
<1>6. ASSUME NEW p \in Procs, StartMarkOffline(p) PROVE TypeOK'
  BY <1>6, <1>0, TypeFrame DEF StartMarkOffline, TypeMem, TypeProcs, TypeOK
<1>7. ASSUME NEW p \in Procs, StartCompare(p) PROVE TypeOK'
  BY <1>7, <1>0, TypeFrame DEF StartCompare, TypeProcs, TypeOK
<1>8. ASSUME NEW p \in Procs, StartSkip(p) PROVE TypeOK'
  BY <1>8, <1>0, TypeFrame DEF StartSkip, TypeMem, OpMatches, TypeProcs, TypeOK
<1>9. ASSUME NEW p \in Procs, StartPrepare(p) PROVE TypeOK'
  BY <1>9, <1>0, TypeFrame DEF StartPrepare, TypeProcs, TypeOK
<1>10. ASSUME NEW p \in Procs, StartSwap(p) PROVE TypeOK'
  <2>1. TypeLocks'
    BY <1>10, <1>0 DEF StartSwap, TypeLocks
  <2>2. TypeMem'
    BY <1>10, <1>0 DEF StartSwap, TypeMem, OpMatches
  <2>3. TypeProcs'
    BY <1>10, <1>0 DEF StartSwap, TypeProcs
  <2> QED
    BY <1>10, <1>0, <2>1, <2>2, <2>3, TypeFrame DEF StartSwap, TypeOK
<1>11. ASSUME NEW p \in Procs, StartSpawn(p) PROVE TypeOK'
  <2>1. TypeMem'
    BY <1>11, <1>0 DEF StartSpawn, TypeMem, NoCore
  <2>2. TypeCores'
    BY <1>11, <1>0 DEF StartSpawn, TypeCores
  <2>3. TypeProcs'
    BY <1>11, <1>0 DEF StartSpawn, TypeProcs
  <2> QED
    BY <1>11, <1>0, <2>1, <2>2, <2>3, TypeFrame DEF StartSpawn, TypeOK
<1>12. ASSUME NEW p \in Procs, StartWait(p) PROVE TypeOK'
  BY <1>12, <1>0, TypeFrame DEF StartWait, TypeProcs, TypeOK
<1>13. ASSUME NEW p \in Procs, StartFinish(p) PROVE TypeOK'
  BY <1>13, <1>0, TypeFrame DEF StartFinish, TypeMem, TypeProcs, TypeOK
<1>14. ASSUME NEW p \in Procs, StartCleanup(p) PROVE TypeOK'
  <2>1. TypeLocks'
    BY <1>14, <1>0 DEF StartCleanup, TypeLocks
  <2>2. TypeMem'
    BY <1>14, <1>0 DEF StartCleanup, TypeMem
  <2>3. TypeProcs'
    BY <1>14, <1>0 DEF StartCleanup, TypeProcs
  <2> QED
    BY <1>14, <1>0, <2>1, <2>2, <2>3, TypeFrame DEF StartCleanup, TypeOK
<1>15. ASSUME NEW p \in Procs, StartPersist(p) PROVE TypeOK'
  <2>1. TypeDisk'
    BY <1>15, <1>0 DEF StartPersist, TypeDisk, TypeProcs
  <2>2. TypeProcs'
    BY <1>15, <1>0 DEF StartPersist, TypeProcs
  <2>3. TypeRest'
    BY <1>15, <1>0 DEF StartPersist, TypeRest
  <2> QED
    BY <1>15, <1>0, <2>1, <2>2, <2>3, TypeFrame DEF StartPersist, TypeOK
<1>16. ASSUME NEW p \in Procs, StartSave(p) PROVE TypeOK'
  <2>1. req[p] \in Configs \cup {None}
    BY <1>0 DEF TypeProcs
  <2>2. TypeDisk'
    BY <1>16, <1>0, <2>1 DEF StartSave, Save, TypeDisk
  <2>3. TypeProcs'
    BY <1>16, <1>0 DEF StartSave, TypeProcs
  <2> QED
    BY <1>16, <1>0, <2>2, <2>3, TypeFrame DEF StartSave, TypeOK
<1>17. ASSUME NEW p \in Procs, StartUngate(p) PROVE TypeOK'
  BY <1>17, <1>0, ReturnType, TypeFrame DEF StartUngate, TypeLocks, TypeProcs, TypeOK
<1>18. ASSUME NEW p \in Procs, PauseIfOnline(p) PROVE TypeOK'
  BY <1>18, <1>0, ReturnType, TypeFrame DEF PauseIfOnline, TypeProcs, TypeOK
<1>19. ASSUME NEW p \in Procs, StopLock(p) PROVE TypeOK'
  BY <1>19, <1>0, TypeFrame DEF StopLock, TypeLocks, TypeProcs, TypeOK
<1>20. ASSUME NEW p \in Procs, StopFlush(p) PROVE TypeOK'
  <2>1. TypeDisk'
    BY <1>20, <1>0 DEF StopFlush, Save, TypeDisk
  <2>2. TypeProcs'
    BY <1>20, <1>0 DEF StopFlush, Save, TypeProcs
  <2> QED
    BY <1>20, <1>0, <2>1, <2>2, TypeFrame DEF StopFlush, Save, TypeOK
<1>21. ASSUME NEW p \in Procs, StopHalt(p) PROVE TypeOK'
  <2>1. TypeLocks'
    BY <1>21, <1>0 DEF StopHalt, TypeLocks
  <2>2. TypeMem'
    BY <1>21, <1>0 DEF StopHalt, TypeMem
  <2>3. TypeDisk'
    BY <1>21, <1>0 DEF StopHalt, TypeDisk
  <2>4. TypeProcs'
    BY <1>21, <1>0 DEF StopHalt, TypeProcs
  <2> QED
    BY <1>21, <1>0, <2>1, <2>2, <2>3, <2>4, TypeFrame DEF StopHalt, TypeOK
<1>22. ASSUME NEW p \in Procs, StopClearFile(p) PROVE TypeOK'
  <2>1. TypeDisk'
    BY <1>22, <1>0 DEF StopClearFile, Save, TypeDisk
  <2>2. TypeProcs'
    BY <1>22, <1>0 DEF StopClearFile, Save, TypeProcs
  <2> QED
    BY <1>22, <1>0, <2>1, <2>2, TypeFrame DEF StopClearFile, Save, TypeOK
<1>23. ASSUME NEW p \in Procs, StopReaped(p) PROVE TypeOK'
  <2>1. TypeLocks'
    BY <1>23, <1>0 DEF StopReaped, AfterStop, TypeLocks
  <2>2. TypeMem'
    BY <1>23, <1>0 DEF StopReaped, AfterStop, TypeMem, NoCore
  <2>3. TypeDisk'
    BY <1>23, <1>0 DEF StopReaped, AfterStop, TypeDisk
  <2>4. TypeProcs'
    BY <1>23, <1>0, AfterStopType DEF StopReaped, OpMatches
  <2> QED
    BY <1>23, <1>0, <2>1, <2>2, <2>3, <2>4, TypeFrame DEF StopReaped, AfterStop, TypeOK
<1>24. ASSUME NEW p \in Procs, StopKill(p) PROVE TypeOK'
  BY <1>24, <1>0, TypeFrame DEF StopKill, TypeCores, Alive, TypeProcs, TypeOK
<1>25. ASSUME NEW p \in Procs, StopTimeout(p) PROVE TypeOK'
  <2>1. TypeLocks'
    BY <1>25, <1>0 DEF StopTimeout, AfterStop, TypeLocks
  <2>2. TypeMem'
    BY <1>25, <1>0 DEF StopTimeout, AfterStop, TypeMem
  <2>3. TypeDisk'
    BY <1>25, <1>0 DEF StopTimeout, AfterStop, TypeDisk
  <2>4. TypeProcs'
    BY <1>25, <1>0, AfterStopType DEF StopTimeout, OpMatches
  <2> QED
    BY <1>25, <1>0, <2>1, <2>2, <2>3, <2>4, TypeFrame DEF StopTimeout, AfterStop, TypeOK
<1>26. ASSUME NEW p \in Procs, ConfigTryLock(p) PROVE TypeOK'
  BY <1>26, <1>0, ReturnType, TypeFrame DEF ConfigTryLock, TypeLocks, TypeProcs, TypeOK
<1>27. ASSUME NEW p \in Procs, ConfigRead(p) PROVE TypeOK'
  BY <1>27, <1>0, TypeFrame DEF ConfigRead, TypeProcs, TypeOK
<1>28. ASSUME NEW p \in Procs, ConfigPing(p) PROVE TypeOK'
  BY <1>28, <1>0, TypeFrame DEF ConfigPing, TypeProcs, TypeCores, Serving, TypeOK
<1>29. ASSUME NEW p \in Procs, Unlock(p) PROVE TypeOK'
  <2>1. TypeLocks'
    BY <1>29, <1>0 DEF Unlock, TypeLocks
  <2>2. TypeProcs'
    BY <1>29, <1>0, ReturnType DEF Unlock, TypeProcs
  <2>3. TypeRest'
    BY <1>29, <1>0 DEF Unlock, TypeRest, Started, TypeProcs
  <2> QED
    BY <1>29, <1>0, <2>1, <2>2, <2>3, TypeFrame DEF Unlock, TypeOK
<1>30. ASSUME BootLoad PROVE TypeOK'
  BY <1>30, <1>0, TypeFrame DEF BootLoad, TypeProcs, TypeDisk, Procs, TypeOK
<1>31. ASSUME HealthPing PROVE TypeOK'
  BY <1>31, <1>0, TypeFrame DEF HealthPing, TypeRest, TypeOK
<1>32. ASSUME HealthWrite PROVE TypeOK'
  BY <1>32, <1>0, TypeFrame DEF HealthWrite, TypeMem, TypeRest, TypeOK
<1>33. ASSUME NodeCrash PROVE TypeOK'
  <2>1. TypeLocks'
    BY <1>33, <1>0 DEF NodeCrash, TypeLocks
  <2>2. TypeMem'
    BY <1>33, <1>0 DEF NodeCrash, TypeMem, NoCore
  <2>3. TypeDisk'
    BY <1>33, <1>0 DEF NodeCrash, TypeDisk
  <2>4. TypeCores'
    BY <1>33, <1>0 DEF NodeCrash, TypeCores
  <2>5. TypeProcs'
    BY <1>33, <1>0 DEF NodeCrash, TypeProcs
  <2>6. TypeRest'
    BY <1>33, <1>0 DEF NodeCrash, TypeRest, TypeDisk
  <2> QED
    BY <1>33, <1>0, <2>1, <2>2, <2>3, <2>4, <2>5, <2>6 DEF NodeCrash, TypeOK
<1>34. ASSUME NEW c \in Cores, CoreFetch(c) PROVE TypeOK'
  BY <1>34, <1>0, TypeFrame DEF CoreFetch, TypeCores, TypeMem, TypeOK
<1>35. ASSUME NEW c \in Cores, CoreExit(c) PROVE TypeOK'
  BY <1>35, <1>0, TypeFrame DEF CoreExit, TypeCores, TypeOK
<1>36. ASSUME NEW c \in Cores, MonitorDeliver(c) PROVE TypeOK'
  BY <1>36, <1>0, TypeFrame DEF MonitorDeliver, TypeCores, TypeOK
<1>37. ASSUME NEW c \in Cores, MonitorClear(c) PROVE TypeOK'
  BY <1>37, <1>0, TypeFrame DEF MonitorClear, TypeMem, NoCore, TypeCores, TypeOK
<1>38. CASE UNCHANGED vars
  BY <1>38, <1>0, TypeFrame DEF vars, TypeOK
<1> QED
  BY <1>1, <1>2, <1>3, <1>4, <1>5, <1>6, <1>7, <1>8, <1>9, <1>10, <1>11, <1>12, <1>13, <1>14,
      <1>15, <1>16, <1>17, <1>18, <1>19, <1>20, <1>21, <1>22, <1>23, <1>24, <1>25, <1>26, <1>27,
      <1>28, <1>29, <1>30, <1>31, <1>32, <1>33, <1>34, <1>35, <1>36, <1>37, <1>38
  DEF Next, Step, StartStep, StopStep, ConfigStep, HealthStep, CoreStep

-----------------------------------------------------------------------------
(* Operations, answers and locks. *)

\* A call that returns leaves its operation, or, for the boot restore, keeps it.
LEMMA ReturnOp ==
  ASSUME TypeProcs, OpMatches, NEW p \in Procs, NEW answer, Return(p, answer),
         p = Boot => op[p] = "start"
  PROVE  OpMatches'
<1> USE DEF OpMatches, TypeProcs, InStart, HoldsMu
<1>1. CASE UNCHANGED callVars /\ Goto(p, "gate") /\ op[p] = "start"
  BY <1>1 DEF callVars, Goto
<1>2. CASE /\ Goto(p, IF p = Boot THEN "off" ELSE "idle")
           /\ op' = [op EXCEPT ![p] = "none"] /\ req' = [req EXCEPT ![p] = None]
  BY <1>2 DEF Goto
<1> QED
  BY <1>1, <1>2 DEF Return, RetryIf

\* A goroutine stays on the path of its operation.
LEMMA OpStep ==
  ASSUME TypeOK, OpMatches, [Next]_vars
  PROVE  OpMatches'
<1> USE ConstantsAssumption
    DEF Operations, InStart, HoldsMu, OpMatches, TypeProcs, TypeDisk, Goto, Say, callVars
<1>0. TypeProcs /\ TypeDisk
  BY DEF TypeOK
<1>1. ASSUME NEW p \in Procs, Invoke(p) PROVE OpMatches'
  BY <1>1, <1>0 DEF Invoke, Requests, Procs
<1>2. ASSUME NEW p \in Procs, StartGate(p) PROVE OpMatches'
  <2>1. CASE startProcessing
    BY <1>2, <1>0, <2>1, ReturnOp DEF StartGate, OpMatches
  <2>2. CASE ~startProcessing
    BY <1>2, <1>0, <2>2 DEF StartGate, OpMatches, TypeProcs, Goto, callVars
  <2> QED
    BY <2>1, <2>2
<1>3. ASSUME NEW p \in Procs, StartTryLock(p) PROVE OpMatches'
  BY <1>3, <1>0 DEF StartTryLock
<1>4. ASSUME NEW p \in Procs, StartCheck(p) PROVE OpMatches'
  BY <1>4, <1>0 DEF StartCheck
<1>5. ASSUME NEW p \in Procs, StartPing(p) PROVE OpMatches'
  BY <1>5, <1>0 DEF StartPing
<1>6. ASSUME NEW p \in Procs, StartMarkOffline(p) PROVE OpMatches'
  BY <1>6, <1>0 DEF StartMarkOffline
<1>7. ASSUME NEW p \in Procs, StartCompare(p) PROVE OpMatches'
  BY <1>7, <1>0 DEF StartCompare
<1>8. ASSUME NEW p \in Procs, StartSkip(p) PROVE OpMatches'
  BY <1>8, <1>0 DEF StartSkip
<1>9. ASSUME NEW p \in Procs, StartPrepare(p) PROVE OpMatches'
  BY <1>9, <1>0 DEF StartPrepare
<1>10. ASSUME NEW p \in Procs, StartSwap(p) PROVE OpMatches'
  BY <1>10, <1>0 DEF StartSwap
<1>11. ASSUME NEW p \in Procs, StartSpawn(p) PROVE OpMatches'
  BY <1>11, <1>0 DEF StartSpawn
<1>12. ASSUME NEW p \in Procs, StartWait(p) PROVE OpMatches'
  BY <1>12, <1>0 DEF StartWait
<1>13. ASSUME NEW p \in Procs, StartFinish(p) PROVE OpMatches'
  BY <1>13, <1>0 DEF StartFinish
<1>14. ASSUME NEW p \in Procs, StartCleanup(p) PROVE OpMatches'
  BY <1>14, <1>0 DEF StartCleanup
<1>15. ASSUME NEW p \in Procs, StartPersist(p) PROVE OpMatches'
  BY <1>15, <1>0 DEF StartPersist
<1>16. ASSUME NEW p \in Procs, StartSave(p) PROVE OpMatches'
  BY <1>16, <1>0 DEF StartSave, Save
<1>17. ASSUME NEW p \in Procs, StartUngate(p) PROVE OpMatches'
  <2>1. p = Boot => op[p] = "start"
    BY <1>17, <1>0 DEF StartUngate, OpMatches
  <2> QED
    BY <1>17, <1>0, <2>1, ReturnOp DEF StartUngate
<1>18. ASSUME NEW p \in Procs, PauseIfOnline(p) PROVE OpMatches'
  <2>1. p = Boot => op[p] = "start"
    BY <1>18, <1>0 DEF PauseIfOnline, OpMatches
  <2>2. CASE xrayOnline
    BY <1>18, <1>0, <2>2 DEF PauseIfOnline, OpMatches, TypeProcs, Goto, callVars
  <2>3. CASE ~(xrayOnline)
    BY <1>18, <1>0, <2>1, <2>3, ReturnOp DEF PauseIfOnline
  <2> QED
    BY <2>2, <2>3
<1>19. ASSUME NEW p \in Procs, StopLock(p) PROVE OpMatches'
  BY <1>19, <1>0 DEF StopLock
<1>20. ASSUME NEW p \in Procs, StopFlush(p) PROVE OpMatches'
  BY <1>20, <1>0 DEF StopFlush, Save
<1>21. ASSUME NEW p \in Procs, StopHalt(p) PROVE OpMatches'
  BY <1>21, <1>0 DEF StopHalt
<1>22. ASSUME NEW p \in Procs, StopClearFile(p) PROVE OpMatches'
  BY <1>22, <1>0 DEF StopClearFile, Save
<1>23. ASSUME NEW p \in Procs, StopReaped(p) PROVE OpMatches'
  BY <1>23, <1>0 DEF StopReaped, AfterStop
<1>24. ASSUME NEW p \in Procs, StopKill(p) PROVE OpMatches'
  BY <1>24, <1>0 DEF StopKill
<1>25. ASSUME NEW p \in Procs, StopTimeout(p) PROVE OpMatches'
  BY <1>25, <1>0 DEF StopTimeout, AfterStop
<1>26. ASSUME NEW p \in Procs, ConfigTryLock(p) PROVE OpMatches'
  <2>1. p = Boot => op[p] = "start"
    BY <1>26, <1>0 DEF ConfigTryLock, OpMatches
  <2>2. CASE lifecycle = None
    BY <1>26, <1>0, <2>2 DEF ConfigTryLock, OpMatches, TypeProcs, Goto, callVars
  <2>3. CASE ~(lifecycle = None)
    BY <1>26, <1>0, <2>1, <2>3, ReturnOp DEF ConfigTryLock
  <2> QED
    BY <2>2, <2>3
<1>27. ASSUME NEW p \in Procs, ConfigRead(p) PROVE OpMatches'
  BY <1>27, <1>0 DEF ConfigRead
<1>28. ASSUME NEW p \in Procs, ConfigPing(p) PROVE OpMatches'
  BY <1>28, <1>0 DEF ConfigPing
<1>29. ASSUME NEW p \in Procs, Unlock(p) PROVE OpMatches'
  <2>1. p = Boot => op[p] = "start"
    BY <1>29, <1>0 DEF Unlock, OpMatches
  <2>2. CASE op[p] = "start"
    BY <1>29, <1>0, <2>2 DEF Unlock, OpMatches, TypeProcs, Goto, callVars
  <2>3. CASE ~(op[p] = "start")
    BY <1>29, <1>0, <2>1, <2>3, ReturnOp DEF Unlock
  <2> QED
    BY <2>2, <2>3
<1>30. ASSUME BootLoad PROVE OpMatches'
  BY <1>30, <1>0 DEF BootLoad, Procs
<1>31. ASSUME NodeCrash PROVE OpMatches'
  BY <1>31, <1>0 DEF NodeCrash, Procs
<1>32. ASSUME HealthPing \/ HealthWrite PROVE OpMatches'
  BY <1>32 DEF HealthPing, HealthWrite, procVars
<1>33. ASSUME NEW c \in Cores, CoreFetch(c) \/ CoreExit(c) \/ MonitorDeliver(c) \/ MonitorClear(c)
      PROVE  OpMatches'
  BY <1>33 DEF CoreFetch, CoreExit, MonitorDeliver, MonitorClear, procVars
<1>34. CASE UNCHANGED vars
  BY <1>34 DEF vars, procVars
<1> QED
  BY <1>1, <1>2, <1>3, <1>4, <1>5, <1>6, <1>7, <1>8, <1>9, <1>10, <1>11, <1>12, <1>13, <1>14,
      <1>15, <1>16, <1>17, <1>18, <1>19, <1>20, <1>21, <1>22, <1>23, <1>24, <1>25, <1>26, <1>27,
      <1>28, <1>29, <1>30, <1>31, <1>32, <1>33, <1>34
  DEF Next, Step, StartStep, StopStep, ConfigStep, HealthStep, CoreStep

\* An answer is pending only where its operation left it.
LEMMA ReplyStep ==
  ASSUME TypeOK, OpMatches, ReplyMatches, [Next]_vars
  PROVE  ReplyMatches'
<1> USE ConstantsAssumption
    DEF Operations, InStart, HoldsMu, OpMatches, ReplyMatches, TypeProcs, Goto, Say, callVars
<1>0. TypeProcs
  BY DEF TypeOK
<1>1. ASSUME NEW p \in Procs, Invoke(p) PROVE ReplyMatches'
  BY <1>1, <1>0 DEF Invoke, Requests, Procs
<1>2. ASSUME NEW p \in Procs, StartGate(p) PROVE ReplyMatches'
  BY <1>2, <1>0 DEF StartGate, Return, RetryIf
<1>3. ASSUME NEW p \in Procs, StartTryLock(p) PROVE ReplyMatches'
  BY <1>3, <1>0 DEF StartTryLock
<1>4. ASSUME NEW p \in Procs, StartCheck(p) PROVE ReplyMatches'
  BY <1>4, <1>0 DEF StartCheck
<1>5. ASSUME NEW p \in Procs, StartPing(p) PROVE ReplyMatches'
  BY <1>5, <1>0 DEF StartPing
<1>6. ASSUME NEW p \in Procs, StartMarkOffline(p) PROVE ReplyMatches'
  BY <1>6, <1>0 DEF StartMarkOffline
<1>7. ASSUME NEW p \in Procs, StartCompare(p) PROVE ReplyMatches'
  BY <1>7, <1>0 DEF StartCompare
<1>8. ASSUME NEW p \in Procs, StartSkip(p) PROVE ReplyMatches'
  BY <1>8, <1>0 DEF StartSkip
<1>9. ASSUME NEW p \in Procs, StartPrepare(p) PROVE ReplyMatches'
  BY <1>9, <1>0 DEF StartPrepare
<1>10. ASSUME NEW p \in Procs, StartSwap(p) PROVE ReplyMatches'
  BY <1>10, <1>0 DEF StartSwap
<1>11. ASSUME NEW p \in Procs, StartSpawn(p) PROVE ReplyMatches'
  BY <1>11, <1>0 DEF StartSpawn
<1>12. ASSUME NEW p \in Procs, StartWait(p) PROVE ReplyMatches'
  BY <1>12, <1>0 DEF StartWait
<1>13. ASSUME NEW p \in Procs, StartFinish(p) PROVE ReplyMatches'
  BY <1>13, <1>0 DEF StartFinish
<1>14. ASSUME NEW p \in Procs, StartCleanup(p) PROVE ReplyMatches'
  BY <1>14, <1>0 DEF StartCleanup
<1>15. ASSUME NEW p \in Procs, StartPersist(p) PROVE ReplyMatches'
  BY <1>15, <1>0 DEF StartPersist
<1>16. ASSUME NEW p \in Procs, StartSave(p) PROVE ReplyMatches'
  BY <1>16, <1>0 DEF StartSave, Save
<1>17. ASSUME NEW p \in Procs, StartUngate(p) PROVE ReplyMatches'
  BY <1>17, <1>0 DEF StartUngate, Return, RetryIf
<1>18. ASSUME NEW p \in Procs, PauseIfOnline(p) PROVE ReplyMatches'
  BY <1>18, <1>0 DEF PauseIfOnline, Return, RetryIf
<1>19. ASSUME NEW p \in Procs, StopLock(p) PROVE ReplyMatches'
  BY <1>19, <1>0 DEF StopLock
<1>20. ASSUME NEW p \in Procs, StopFlush(p) PROVE ReplyMatches'
  BY <1>20, <1>0 DEF StopFlush, Save
<1>21. ASSUME NEW p \in Procs, StopHalt(p) PROVE ReplyMatches'
  BY <1>21, <1>0 DEF StopHalt
<1>22. ASSUME NEW p \in Procs, StopClearFile(p) PROVE ReplyMatches'
  BY <1>22, <1>0 DEF StopClearFile, Save
<1>23. ASSUME NEW p \in Procs, StopReaped(p) PROVE ReplyMatches'
  BY <1>23, <1>0 DEF StopReaped, AfterStop
<1>24. ASSUME NEW p \in Procs, StopKill(p) PROVE ReplyMatches'
  BY <1>24, <1>0 DEF StopKill
<1>25. ASSUME NEW p \in Procs, StopTimeout(p) PROVE ReplyMatches'
  BY <1>25, <1>0 DEF StopTimeout, AfterStop
<1>26. ASSUME NEW p \in Procs, ConfigTryLock(p) PROVE ReplyMatches'
  BY <1>26, <1>0 DEF ConfigTryLock, Return, RetryIf
<1>27. ASSUME NEW p \in Procs, ConfigRead(p) PROVE ReplyMatches'
  BY <1>27, <1>0 DEF ConfigRead
<1>28. ASSUME NEW p \in Procs, ConfigPing(p) PROVE ReplyMatches'
  BY <1>28, <1>0 DEF ConfigPing
<1>29. ASSUME NEW p \in Procs, Unlock(p) PROVE ReplyMatches'
  BY <1>29, <1>0 DEF Unlock, Return, RetryIf
<1>30. ASSUME BootLoad PROVE ReplyMatches'
  BY <1>30, <1>0 DEF BootLoad
<1>31. ASSUME NodeCrash PROVE ReplyMatches'
  BY <1>31, <1>0 DEF NodeCrash
<1>32. ASSUME HealthPing \/ HealthWrite PROVE ReplyMatches'
  BY <1>32 DEF HealthPing, HealthWrite, procVars
<1>33. ASSUME NEW c \in Cores, CoreFetch(c) \/ CoreExit(c) \/ MonitorDeliver(c) \/ MonitorClear(c)
      PROVE  ReplyMatches'
  BY <1>33 DEF CoreFetch, CoreExit, MonitorDeliver, MonitorClear, procVars
<1>34. CASE UNCHANGED vars
  BY <1>34 DEF vars, procVars
<1> QED
  BY <1>1, <1>2, <1>3, <1>4, <1>5, <1>6, <1>7, <1>8, <1>9, <1>10, <1>11, <1>12, <1>13, <1>14,
      <1>15, <1>16, <1>17, <1>18, <1>19, <1>20, <1>21, <1>22, <1>23, <1>24, <1>25, <1>26, <1>27,
      <1>28, <1>29, <1>30, <1>31, <1>32, <1>33, <1>34
  DEF Next, Step, StartStep, StopStep, ConfigStep, HealthStep, CoreStep

\* The holders of the locks and the labels of the goroutines change together.
LEMMA LockStep ==
  ASSUME TypeOK, OpMatches, LocksMatch, [Next]_vars
  PROVE  LocksMatch'
<1> USE ConstantsAssumption
    DEF InLifecycle, InStart, HoldsMu, Procs, OpMatches, LocksMatch, TypeProcs, TypeLocks, Goto,
        Say, callVars
<1>0. TypeProcs /\ TypeLocks
  BY DEF TypeOK
<1>1. ASSUME NEW p \in Procs, Invoke(p) PROVE LocksMatch'
  BY <1>1, <1>0 DEF Invoke, lockVars, Requests
<1>2. ASSUME NEW p \in Procs, StartGate(p) PROVE LocksMatch'
  BY <1>2, <1>0 DEF StartGate, Return, RetryIf
<1>3. ASSUME NEW p \in Procs, StartTryLock(p) PROVE LocksMatch'
  BY <1>3, <1>0 DEF StartTryLock
<1>4. ASSUME NEW p \in Procs, StartCheck(p) PROVE LocksMatch'
  BY <1>4, <1>0 DEF StartCheck, lockVars
<1>5. ASSUME NEW p \in Procs, StartPing(p) PROVE LocksMatch'
  BY <1>5, <1>0 DEF StartPing, lockVars
<1>6. ASSUME NEW p \in Procs, StartMarkOffline(p) PROVE LocksMatch'
  BY <1>6, <1>0 DEF StartMarkOffline, lockVars
<1>7. ASSUME NEW p \in Procs, StartCompare(p) PROVE LocksMatch'
  BY <1>7, <1>0 DEF StartCompare, lockVars
<1>8. ASSUME NEW p \in Procs, StartSkip(p) PROVE LocksMatch'
  BY <1>8, <1>0 DEF StartSkip, lockVars
<1>9. ASSUME NEW p \in Procs, StartPrepare(p) PROVE LocksMatch'
  BY <1>9, <1>0 DEF StartPrepare, lockVars
<1>10. ASSUME NEW p \in Procs, StartSwap(p) PROVE LocksMatch'
  BY <1>10, <1>0 DEF StartSwap
<1>11. ASSUME NEW p \in Procs, StartSpawn(p) PROVE LocksMatch'
  BY <1>11, <1>0 DEF StartSpawn, lockVars
<1>12. ASSUME NEW p \in Procs, StartWait(p) PROVE LocksMatch'
  BY <1>12, <1>0 DEF StartWait, lockVars
<1>13. ASSUME NEW p \in Procs, StartFinish(p) PROVE LocksMatch'
  BY <1>13, <1>0 DEF StartFinish, lockVars
<1>14. ASSUME NEW p \in Procs, StartCleanup(p) PROVE LocksMatch'
  BY <1>14, <1>0 DEF StartCleanup
<1>15. ASSUME NEW p \in Procs, StartPersist(p) PROVE LocksMatch'
  BY <1>15, <1>0 DEF StartPersist, lockVars
<1>16. ASSUME NEW p \in Procs, StartSave(p) PROVE LocksMatch'
  BY <1>16, <1>0 DEF StartSave, Save, lockVars
<1>17. ASSUME NEW p \in Procs, StartUngate(p) PROVE LocksMatch'
  BY <1>17, <1>0 DEF StartUngate, Return, RetryIf
<1>18. ASSUME NEW p \in Procs, PauseIfOnline(p) PROVE LocksMatch'
  BY <1>18, <1>0 DEF PauseIfOnline, Return, RetryIf, lockVars
<1>19. ASSUME NEW p \in Procs, StopLock(p) PROVE LocksMatch'
  BY <1>19, <1>0 DEF StopLock
<1>20. ASSUME NEW p \in Procs, StopFlush(p) PROVE LocksMatch'
  BY <1>20, <1>0 DEF StopFlush, Save, lockVars
<1>21. ASSUME NEW p \in Procs, StopHalt(p) PROVE LocksMatch'
  BY <1>21, <1>0 DEF StopHalt
<1>22. ASSUME NEW p \in Procs, StopClearFile(p) PROVE LocksMatch'
  BY <1>22, <1>0 DEF StopClearFile, Save, lockVars
<1>23. ASSUME NEW p \in Procs, StopReaped(p) PROVE LocksMatch'
  BY <1>23, <1>0 DEF StopReaped, AfterStop
<1>24. ASSUME NEW p \in Procs, StopKill(p) PROVE LocksMatch'
  BY <1>24, <1>0 DEF StopKill, lockVars
<1>25. ASSUME NEW p \in Procs, StopTimeout(p) PROVE LocksMatch'
  BY <1>25, <1>0 DEF StopTimeout, AfterStop
<1>26. ASSUME NEW p \in Procs, ConfigTryLock(p) PROVE LocksMatch'
  BY <1>26, <1>0 DEF ConfigTryLock, Return, RetryIf
<1>27. ASSUME NEW p \in Procs, ConfigRead(p) PROVE LocksMatch'
  BY <1>27, <1>0 DEF ConfigRead, lockVars
<1>28. ASSUME NEW p \in Procs, ConfigPing(p) PROVE LocksMatch'
  BY <1>28, <1>0 DEF ConfigPing, lockVars
<1>29. ASSUME NEW p \in Procs, Unlock(p) PROVE LocksMatch'
  BY <1>29, <1>0 DEF Unlock, Return, RetryIf
<1>30. ASSUME BootLoad PROVE LocksMatch'
  BY <1>30, <1>0 DEF BootLoad, lockVars
<1>31. ASSUME NodeCrash PROVE LocksMatch'
  BY <1>31, <1>0 DEF NodeCrash
<1>32. ASSUME HealthPing \/ HealthWrite PROVE LocksMatch'
  BY <1>32 DEF HealthPing, HealthWrite, lockVars, procVars
<1>33. ASSUME NEW c \in Cores, CoreFetch(c) \/ CoreExit(c) \/ MonitorDeliver(c) \/ MonitorClear(c)
      PROVE  LocksMatch'
  BY <1>33 DEF CoreFetch, CoreExit, MonitorDeliver, MonitorClear, lockVars, procVars
<1>34. CASE UNCHANGED vars
  BY <1>34 DEF vars, lockVars, procVars
<1> QED
  BY <1>1, <1>2, <1>3, <1>4, <1>5, <1>6, <1>7, <1>8, <1>9, <1>10, <1>11, <1>12, <1>13, <1>14,
      <1>15, <1>16, <1>17, <1>18, <1>19, <1>20, <1>21, <1>22, <1>23, <1>24, <1>25, <1>26, <1>27,
      <1>28, <1>29, <1>30, <1>31, <1>32, <1>33, <1>34
  DEF Next, Step, StartStep, StopStep, ConfigStep, HealthStep, CoreStep

\* The flag of the gate is set and reset with the goroutine that passed it.
LEMMA GateStep ==
  ASSUME TypeOK, OpMatches, LocksMatch, GateMatchesFlag, [Next]_vars
  PROVE  GateMatchesFlag'
<1> USE ConstantsAssumption
    DEF InLifecycle, InStart, HoldsMu, OpMatches, GateMatchesFlag, PastGate, TypeProcs,
        TypeLocks, Goto, Say, callVars
<1>0. TypeProcs /\ TypeLocks
  BY DEF TypeOK
<1>1. ASSUME NEW p \in Procs, Invoke(p) PROVE GateMatchesFlag'
  BY <1>1, <1>0 DEF Invoke, lockVars, Requests, Procs
<1>2. ASSUME NEW p \in Procs, StartGate(p) PROVE GateMatchesFlag'
  BY <1>2, <1>0 DEF StartGate, Return, RetryIf
<1>3. ASSUME NEW p \in Procs, StartTryLock(p) PROVE GateMatchesFlag'
  BY <1>3, <1>0 DEF StartTryLock
<1>4. ASSUME NEW p \in Procs, StartCheck(p) PROVE GateMatchesFlag'
  BY <1>4, <1>0 DEF StartCheck, lockVars
<1>5. ASSUME NEW p \in Procs, StartPing(p) PROVE GateMatchesFlag'
  BY <1>5, <1>0 DEF StartPing, lockVars
<1>6. ASSUME NEW p \in Procs, StartMarkOffline(p) PROVE GateMatchesFlag'
  BY <1>6, <1>0 DEF StartMarkOffline, lockVars
<1>7. ASSUME NEW p \in Procs, StartCompare(p) PROVE GateMatchesFlag'
  BY <1>7, <1>0 DEF StartCompare, lockVars
<1>8. ASSUME NEW p \in Procs, StartSkip(p) PROVE GateMatchesFlag'
  BY <1>8, <1>0 DEF StartSkip, lockVars
<1>9. ASSUME NEW p \in Procs, StartPrepare(p) PROVE GateMatchesFlag'
  BY <1>9, <1>0 DEF StartPrepare, lockVars
<1>10. ASSUME NEW p \in Procs, StartSwap(p) PROVE GateMatchesFlag'
  BY <1>10, <1>0 DEF StartSwap
<1>11. ASSUME NEW p \in Procs, StartSpawn(p) PROVE GateMatchesFlag'
  BY <1>11, <1>0 DEF StartSpawn, lockVars
<1>12. ASSUME NEW p \in Procs, StartWait(p) PROVE GateMatchesFlag'
  BY <1>12, <1>0 DEF StartWait, lockVars
<1>13. ASSUME NEW p \in Procs, StartFinish(p) PROVE GateMatchesFlag'
  BY <1>13, <1>0 DEF StartFinish, lockVars
<1>14. ASSUME NEW p \in Procs, StartCleanup(p) PROVE GateMatchesFlag'
  BY <1>14, <1>0 DEF StartCleanup
<1>15. ASSUME NEW p \in Procs, StartPersist(p) PROVE GateMatchesFlag'
  BY <1>15, <1>0 DEF StartPersist, lockVars
<1>16. ASSUME NEW p \in Procs, StartSave(p) PROVE GateMatchesFlag'
  BY <1>16, <1>0 DEF StartSave, Save, lockVars
<1>17. ASSUME NEW p \in Procs, StartUngate(p) PROVE GateMatchesFlag'
  BY <1>17, <1>0 DEF StartUngate, Return, RetryIf
<1>18. ASSUME NEW p \in Procs, PauseIfOnline(p) PROVE GateMatchesFlag'
  BY <1>18, <1>0 DEF PauseIfOnline, Return, RetryIf, lockVars
<1>19. ASSUME NEW p \in Procs, StopLock(p) PROVE GateMatchesFlag'
  BY <1>19, <1>0 DEF StopLock
<1>20. ASSUME NEW p \in Procs, StopFlush(p) PROVE GateMatchesFlag'
  BY <1>20, <1>0 DEF StopFlush, Save, lockVars
<1>21. ASSUME NEW p \in Procs, StopHalt(p) PROVE GateMatchesFlag'
  BY <1>21, <1>0 DEF StopHalt
<1>22. ASSUME NEW p \in Procs, StopClearFile(p) PROVE GateMatchesFlag'
  BY <1>22, <1>0 DEF StopClearFile, Save, lockVars
<1>23. ASSUME NEW p \in Procs, StopReaped(p) PROVE GateMatchesFlag'
  BY <1>23, <1>0 DEF StopReaped, AfterStop
<1>24. ASSUME NEW p \in Procs, StopKill(p) PROVE GateMatchesFlag'
  BY <1>24, <1>0 DEF StopKill, lockVars
<1>25. ASSUME NEW p \in Procs, StopTimeout(p) PROVE GateMatchesFlag'
  BY <1>25, <1>0 DEF StopTimeout, AfterStop
<1>26. ASSUME NEW p \in Procs, ConfigTryLock(p) PROVE GateMatchesFlag'
  BY <1>26, <1>0 DEF ConfigTryLock, Return, RetryIf
<1>27. ASSUME NEW p \in Procs, ConfigRead(p) PROVE GateMatchesFlag'
  BY <1>27, <1>0 DEF ConfigRead, lockVars
<1>28. ASSUME NEW p \in Procs, ConfigPing(p) PROVE GateMatchesFlag'
  BY <1>28, <1>0 DEF ConfigPing, lockVars
<1>29. ASSUME NEW p \in Procs, Unlock(p) PROVE GateMatchesFlag'
  BY <1>29, <1>0 DEF Unlock, Return, RetryIf
<1>30. ASSUME BootLoad PROVE GateMatchesFlag'
  BY <1>30, <1>0 DEF BootLoad, lockVars
<1>31. ASSUME NodeCrash PROVE GateMatchesFlag'
  BY <1>31, <1>0 DEF NodeCrash
<1>32. ASSUME HealthPing \/ HealthWrite PROVE GateMatchesFlag'
  BY <1>32 DEF HealthPing, HealthWrite, lockVars, procVars
<1>33. ASSUME NEW c \in Cores, CoreFetch(c) \/ CoreExit(c) \/ MonitorDeliver(c) \/ MonitorClear(c)
      PROVE  GateMatchesFlag'
  BY <1>33 DEF CoreFetch, CoreExit, MonitorDeliver, MonitorClear, lockVars, procVars
<1>34. CASE UNCHANGED vars
  BY <1>34 DEF vars, lockVars, procVars
<1> QED
  BY <1>1, <1>2, <1>3, <1>4, <1>5, <1>6, <1>7, <1>8, <1>9, <1>10, <1>11, <1>12, <1>13, <1>14,
      <1>15, <1>16, <1>17, <1>18, <1>19, <1>20, <1>21, <1>22, <1>23, <1>24, <1>25, <1>26, <1>27,
      <1>28, <1>29, <1>30, <1>31, <1>32, <1>33, <1>34
  DEF Next, Step, StartStep, StopStep, ConfigStep, HealthStep, CoreStep

-----------------------------------------------------------------------------
(* The child and its configuration. *)

\* The manager loses sight of no child.
LEMMA ChildStep ==
  ASSUME TypeOK, OpMatches, ReplyMatches, LocksMatch, CoreInv, [Next]_vars
  PROVE  CoreInv'
<1> USE ConstantsAssumption
    DEF InLifecycle, InStart, HoldsMu, NoCore, Cores, Procs, LocksMatch, CoreInv, NoOrphanCore,
        Alive, Serving, Reaped, OpMatches, ReplyMatches, TypeProcs, TypeCores, TypeMem,
        TypeLocks, Goto, Say, callVars
<1>0. TypeProcs /\ TypeCores /\ TypeMem /\ TypeLocks
  BY DEF TypeOK
<1>1. ASSUME NEW p \in Procs, Invoke(p) PROVE CoreInv'
  BY <1>1, <1>0 DEF Invoke, lockVars, memVars, coreVars, Requests
<1>2. ASSUME NEW p \in Procs, StartGate(p) PROVE CoreInv'
  BY <1>2, <1>0 DEF StartGate, Return, RetryIf, memVars, coreVars
<1>3. ASSUME NEW p \in Procs, StartTryLock(p) PROVE CoreInv'
  BY <1>3, <1>0 DEF StartTryLock, memVars, coreVars
<1>4. ASSUME NEW p \in Procs, StartCheck(p) PROVE CoreInv'
  BY <1>4, <1>0 DEF StartCheck, lockVars, memVars, coreVars
<1>5. ASSUME NEW p \in Procs, StartPing(p) PROVE CoreInv'
  BY <1>5, <1>0 DEF StartPing, lockVars, memVars, coreVars
<1>6. ASSUME NEW p \in Procs, StartMarkOffline(p) PROVE CoreInv'
  BY <1>6, <1>0 DEF StartMarkOffline, lockVars, coreVars
<1>7. ASSUME NEW p \in Procs, StartCompare(p) PROVE CoreInv'
  BY <1>7, <1>0 DEF StartCompare, lockVars, memVars, coreVars
<1>8. ASSUME NEW p \in Procs, StartSkip(p) PROVE CoreInv'
  BY <1>8, <1>0 DEF StartSkip, lockVars, coreVars
<1>9. ASSUME NEW p \in Procs, StartPrepare(p) PROVE CoreInv'
  BY <1>9, <1>0 DEF StartPrepare, lockVars, memVars, coreVars
<1>10. ASSUME NEW p \in Procs, StartSwap(p) PROVE CoreInv'
  BY <1>10, <1>0 DEF StartSwap, coreVars
<1>11. ASSUME NEW p \in Procs, StartSpawn(p) PROVE CoreInv'
  <2>1. process = NoCore /\ \A q \in Procs : pc[q] \notin HoldsMu /\ (pc[q] = "spawn" => q = p)
    BY <1>11, <1>0 DEF StartSpawn, LocksMatch, TypeLocks, CoreInv
  <2>2. ASSUME NEW c \in Cores, core[c] = "unborn", process' = c,
               core' = [core EXCEPT ![c] = "booting"],
               monitor' = [monitor EXCEPT ![c] = "waiting"], Goto(p, "wait")
        PROVE  CoreInv'
    BY <2>1, <2>2, <1>0 DEF CoreInv, NoOrphanCore, Alive, Serving, Reaped, TypeProcs, TypeCores,
        Goto
  <2>3. CASE Goto(p, "unlock") /\ UNCHANGED <<core, monitor, process>>
    BY <2>1, <2>3, <1>0 DEF CoreInv, NoOrphanCore, Alive, Serving, Reaped, TypeProcs, Goto
  <2> QED
    BY <1>11, <2>2, <2>3 DEF StartSpawn
<1>12. ASSUME NEW p \in Procs, StartWait(p) PROVE CoreInv'
  BY <1>12, <1>0 DEF StartWait, lockVars, memVars, coreVars
<1>13. ASSUME NEW p \in Procs, StartFinish(p) PROVE CoreInv'
  BY <1>13, <1>0 DEF StartFinish, lockVars, coreVars
<1>14. ASSUME NEW p \in Procs, StartCleanup(p) PROVE CoreInv'
  BY <1>14, <1>0 DEF StartCleanup, coreVars
<1>15. ASSUME NEW p \in Procs, StartPersist(p) PROVE CoreInv'
  BY <1>15, <1>0 DEF StartPersist, lockVars, memVars, coreVars
<1>16. ASSUME NEW p \in Procs, StartSave(p) PROVE CoreInv'
  BY <1>16, <1>0 DEF StartSave, Save, lockVars, memVars, coreVars
<1>17. ASSUME NEW p \in Procs, StartUngate(p) PROVE CoreInv'
  BY <1>17, <1>0 DEF StartUngate, Return, RetryIf, memVars, coreVars
<1>18. ASSUME NEW p \in Procs, PauseIfOnline(p) PROVE CoreInv'
  BY <1>18, <1>0 DEF PauseIfOnline, Return, RetryIf, lockVars, memVars, coreVars
<1>19. ASSUME NEW p \in Procs, StopLock(p) PROVE CoreInv'
  BY <1>19, <1>0 DEF StopLock, memVars, coreVars
<1>20. ASSUME NEW p \in Procs, StopFlush(p) PROVE CoreInv'
  BY <1>20, <1>0 DEF StopFlush, Save, lockVars, memVars, coreVars
<1>21. ASSUME NEW p \in Procs, StopHalt(p) PROVE CoreInv'
  BY <1>21, <1>0 DEF StopHalt, coreVars
<1>22. ASSUME NEW p \in Procs, StopClearFile(p) PROVE CoreInv'
  BY <1>22, <1>0 DEF StopClearFile, Save, lockVars, memVars, coreVars
<1>23. ASSUME NEW p \in Procs, StopReaped(p) PROVE CoreInv'
  BY <1>23, <1>0 DEF StopReaped, AfterStop, coreVars
<1>24. ASSUME NEW p \in Procs, StopKill(p) PROVE CoreInv'
  BY <1>24, <1>0 DEF StopKill, lockVars, memVars
<1>25. ASSUME NEW p \in Procs, StopTimeout(p) PROVE CoreInv'
  BY <1>25, <1>0 DEF StopTimeout, AfterStop, coreVars
<1>26. ASSUME NEW p \in Procs, ConfigTryLock(p) PROVE CoreInv'
  BY <1>26, <1>0 DEF ConfigTryLock, Return, RetryIf, memVars, coreVars
<1>27. ASSUME NEW p \in Procs, ConfigRead(p) PROVE CoreInv'
  BY <1>27, <1>0 DEF ConfigRead, lockVars, memVars, coreVars
<1>28. ASSUME NEW p \in Procs, ConfigPing(p) PROVE CoreInv'
  BY <1>28, <1>0 DEF ConfigPing, lockVars, memVars, coreVars
<1>29. ASSUME NEW p \in Procs, Unlock(p) PROVE CoreInv'
  BY <1>29, <1>0 DEF Unlock, Return, RetryIf, memVars, coreVars
<1>30. ASSUME BootLoad PROVE CoreInv'
  BY <1>30, <1>0 DEF BootLoad, lockVars, memVars, coreVars
<1>31. ASSUME NodeCrash PROVE CoreInv'
  BY <1>31, <1>0 DEF NodeCrash
<1>32. ASSUME NEW c \in Cores, CoreFetch(c) PROVE CoreInv'
  BY <1>32, <1>0 DEF CoreFetch, lockVars, memVars, procVars
<1>33. ASSUME NEW c \in Cores, CoreExit(c) PROVE CoreInv'
  BY <1>33, <1>0 DEF CoreExit, lockVars, memVars, procVars
<1>34. ASSUME NEW c \in Cores, MonitorDeliver(c) PROVE CoreInv'
  BY <1>34, <1>0 DEF MonitorDeliver, lockVars, memVars, procVars
<1>35. ASSUME NEW c \in Cores, MonitorClear(c) PROVE CoreInv'
  BY <1>35, <1>0 DEF MonitorClear, lockVars, procVars
<1>36. ASSUME HealthPing \/ HealthWrite PROVE CoreInv'
  BY <1>36 DEF HealthPing, HealthWrite, lockVars, memVars, coreVars, procVars
<1>37. CASE UNCHANGED vars
  BY <1>37 DEF vars, lockVars, memVars, coreVars, procVars
<1> QED
  BY <1>1, <1>2, <1>3, <1>4, <1>5, <1>6, <1>7, <1>8, <1>9, <1>10, <1>11, <1>12, <1>13, <1>14,
      <1>15, <1>16, <1>17, <1>18, <1>19, <1>20, <1>21, <1>22, <1>23, <1>24, <1>25, <1>26, <1>27,
      <1>28, <1>29, <1>30, <1>31, <1>32, <1>33, <1>34, <1>35, <1>36, <1>37
  DEF Next, Step, StartStep, StopStep, ConfigStep, HealthStep, CoreStep

\* What the manager knows of the child's configuration stays true.
LEMMA ConfigStepInv ==
  ASSUME TypeOK, OpMatches, ReplyMatches, LocksMatch, CoreInv, ConfigInv, [Next]_vars
  PROVE  ConfigInv'
<1> USE ConstantsAssumption
    DEF InLifecycle, InStart, HoldsMu, NoCore, Cores, Procs, LocksMatch, CoreInv, ConfigInv,
        Published, NoOrphanCore, Alive, Serving, Reaped, OpMatches, ReplyMatches, TypeProcs,
        TypeCores, TypeMem, TypeLocks, Goto, Say, callVars
<1>0. TypeProcs /\ TypeCores /\ TypeMem /\ TypeLocks
  BY DEF TypeOK
<1>1. ASSUME NEW p \in Procs, Invoke(p) PROVE ConfigInv'
  BY <1>1, <1>0 DEF Invoke, lockVars, memVars, coreVars, Requests
<1>2. ASSUME NEW p \in Procs, StartGate(p) PROVE ConfigInv'
  BY <1>2, <1>0 DEF StartGate, Return, RetryIf, memVars, coreVars
<1>3. ASSUME NEW p \in Procs, StartTryLock(p) PROVE ConfigInv'
  BY <1>3, <1>0 DEF StartTryLock, memVars, coreVars
<1>4. ASSUME NEW p \in Procs, StartCheck(p) PROVE ConfigInv'
  BY <1>4, <1>0 DEF StartCheck, lockVars, memVars, coreVars
<1>5. ASSUME NEW p \in Procs, StartPing(p) PROVE ConfigInv'
  BY <1>5, <1>0 DEF StartPing, lockVars, memVars, coreVars
<1>6. ASSUME NEW p \in Procs, StartMarkOffline(p) PROVE ConfigInv'
  BY <1>6, <1>0 DEF StartMarkOffline, lockVars, coreVars
<1>7. ASSUME NEW p \in Procs, StartCompare(p) PROVE ConfigInv'
  BY <1>7, <1>0 DEF StartCompare, lockVars, memVars, coreVars, NeedRestart
<1>8. ASSUME NEW p \in Procs, StartSkip(p) PROVE ConfigInv'
  BY <1>8, <1>0 DEF StartSkip, lockVars, coreVars
<1>9. ASSUME NEW p \in Procs, StartPrepare(p) PROVE ConfigInv'
  BY <1>9, <1>0 DEF StartPrepare, lockVars, memVars, coreVars
<1>10. ASSUME NEW p \in Procs, StartSwap(p) PROVE ConfigInv'
  BY <1>10, <1>0 DEF StartSwap, coreVars
<1>11. ASSUME NEW p \in Procs, StartSpawn(p) PROVE ConfigInv'
  BY <1>11, <1>0 DEF StartSpawn, lockVars
<1>12. ASSUME NEW p \in Procs, StartWait(p) PROVE ConfigInv'
  BY <1>12, <1>0 DEF StartWait, lockVars, memVars, coreVars
<1>13. ASSUME NEW p \in Procs, StartFinish(p) PROVE ConfigInv'
  BY <1>13, <1>0 DEF StartFinish, lockVars, coreVars
<1>14. ASSUME NEW p \in Procs, StartCleanup(p) PROVE ConfigInv'
  BY <1>14, <1>0 DEF StartCleanup, coreVars
<1>15. ASSUME NEW p \in Procs, StartPersist(p) PROVE ConfigInv'
  BY <1>15, <1>0 DEF StartPersist, lockVars, memVars, coreVars
<1>16. ASSUME NEW p \in Procs, StartSave(p) PROVE ConfigInv'
  BY <1>16, <1>0 DEF StartSave, Save, lockVars, memVars, coreVars
<1>17. ASSUME NEW p \in Procs, StartUngate(p) PROVE ConfigInv'
  BY <1>17, <1>0 DEF StartUngate, Return, RetryIf, memVars, coreVars
<1>18. ASSUME NEW p \in Procs, PauseIfOnline(p) PROVE ConfigInv'
  BY <1>18, <1>0 DEF PauseIfOnline, Return, RetryIf, lockVars, memVars, coreVars
<1>19. ASSUME NEW p \in Procs, StopLock(p) PROVE ConfigInv'
  BY <1>19, <1>0 DEF StopLock, memVars, coreVars
<1>20. ASSUME NEW p \in Procs, StopFlush(p) PROVE ConfigInv'
  BY <1>20, <1>0 DEF StopFlush, Save, lockVars, memVars, coreVars
<1>21. ASSUME NEW p \in Procs, StopHalt(p) PROVE ConfigInv'
  BY <1>21, <1>0 DEF StopHalt, coreVars
<1>22. ASSUME NEW p \in Procs, StopClearFile(p) PROVE ConfigInv'
  BY <1>22, <1>0 DEF StopClearFile, Save, lockVars, memVars, coreVars
<1>23. ASSUME NEW p \in Procs, StopReaped(p) PROVE ConfigInv'
  BY <1>23, <1>0 DEF StopReaped, AfterStop, coreVars
<1>24. ASSUME NEW p \in Procs, StopKill(p) PROVE ConfigInv'
  BY <1>24, <1>0 DEF StopKill, lockVars, memVars
<1>25. ASSUME NEW p \in Procs, StopTimeout(p) PROVE ConfigInv'
  BY <1>25, <1>0 DEF StopTimeout, AfterStop, coreVars
<1>26. ASSUME NEW p \in Procs, ConfigTryLock(p) PROVE ConfigInv'
  BY <1>26, <1>0 DEF ConfigTryLock, Return, RetryIf, memVars, coreVars
<1>27. ASSUME NEW p \in Procs, ConfigRead(p) PROVE ConfigInv'
  BY <1>27, <1>0 DEF ConfigRead, lockVars, memVars, coreVars
<1>28. ASSUME NEW p \in Procs, ConfigPing(p) PROVE ConfigInv'
  BY <1>28, <1>0 DEF ConfigPing, lockVars, memVars, coreVars
<1>29. ASSUME NEW p \in Procs, Unlock(p) PROVE ConfigInv'
  <2>1. CASE op[p] = "start"
    BY <1>29, <1>0, <2>1 DEF Unlock, ConfigInv, Published, TypeProcs, Goto, callVars, memVars,
        coreVars, Serving
  <2>2. CASE op[p] # "start"
    BY <1>29, <1>0, <2>2 DEF Unlock, Return, RetryIf, ConfigInv, Published, OpMatches, TypeProcs,
        Goto, callVars, memVars, coreVars, Serving
  <2> QED
    BY <2>1, <2>2
<1>30. ASSUME BootLoad PROVE ConfigInv'
  BY <1>30, <1>0 DEF BootLoad, lockVars, memVars, coreVars
<1>31. ASSUME NodeCrash PROVE ConfigInv'
  BY <1>31, <1>0 DEF NodeCrash
<1>32. ASSUME NEW c \in Cores, CoreFetch(c) PROVE ConfigInv'
  BY <1>32, <1>0 DEF CoreFetch, lockVars, memVars, procVars
<1>33. ASSUME NEW c \in Cores, CoreExit(c) PROVE ConfigInv'
  BY <1>33, <1>0 DEF CoreExit, lockVars, memVars, procVars
<1>34. ASSUME NEW c \in Cores, MonitorClear(c) PROVE ConfigInv'
  BY <1>34, <1>0 DEF MonitorClear, lockVars, procVars
<1>35. ASSUME HealthPing \/ HealthWrite PROVE ConfigInv'
  BY <1>35 DEF HealthPing, HealthWrite, lockVars, memVars, coreVars, procVars
<1>36. ASSUME NEW c \in Cores, MonitorDeliver(c)
      PROVE  ConfigInv'
  BY <1>36 DEF MonitorDeliver, lockVars, memVars, coreVars, procVars
<1>37. CASE UNCHANGED vars
  BY <1>37 DEF vars, lockVars, memVars, coreVars, procVars
<1> QED
  BY <1>1, <1>2, <1>3, <1>4, <1>5, <1>6, <1>7, <1>8, <1>9, <1>10, <1>11, <1>12, <1>13, <1>14,
      <1>15, <1>16, <1>17, <1>18, <1>19, <1>20, <1>21, <1>22, <1>23, <1>24, <1>25, <1>26, <1>27,
      <1>28, <1>29, <1>30, <1>31, <1>32, <1>33, <1>34, <1>35, <1>36, <1>37
  DEF Next, Step, StartStep, StopStep, ConfigStep, HealthStep, CoreStep

\* A start is skipped against the hashes the answering child was started with.
LEMMA SkipStep ==
  ASSUME TypeOK, OpMatches, ReplyMatches, ConfigInv, SkipIsSound, [Next]_vars
  PROVE  SkipIsSound'
<1> USE ConstantsAssumption
    DEF InStart, HoldsMu, SkipIsSound, ReplyMatches, OpMatches, TypeProcs, Goto, Say, callVars
<1>0. TypeProcs
  BY DEF TypeOK
<1>1. ASSUME NEW p \in Procs, Invoke(p) PROVE SkipIsSound'
  BY <1>1, <1>0 DEF Invoke, Requests
<1>2. ASSUME NEW p \in Procs, StartGate(p) PROVE SkipIsSound'
  BY <1>2, <1>0 DEF StartGate, Return, RetryIf
<1>3. ASSUME NEW p \in Procs, StartTryLock(p) PROVE SkipIsSound'
  BY <1>3, <1>0 DEF StartTryLock
<1>4. ASSUME NEW p \in Procs, StartCheck(p) PROVE SkipIsSound'
  BY <1>4, <1>0 DEF StartCheck
<1>5. ASSUME NEW p \in Procs, StartPing(p) PROVE SkipIsSound'
  BY <1>5, <1>0 DEF StartPing
<1>6. ASSUME NEW p \in Procs, StartSkip(p) PROVE SkipIsSound'
  BY <1>6, <1>0 DEF StartSkip, ConfigInv
<1>7. ASSUME NEW p \in Procs, StartPrepare(p) PROVE SkipIsSound'
  BY <1>7, <1>0 DEF StartPrepare
<1>8. ASSUME NEW p \in Procs, StartSpawn(p) PROVE SkipIsSound'
  BY <1>8, <1>0 DEF StartSpawn
<1>9. ASSUME NEW p \in Procs, StartWait(p) PROVE SkipIsSound'
  BY <1>9, <1>0 DEF StartWait
<1>10. ASSUME NEW p \in Procs, StartFinish(p) PROVE SkipIsSound'
  BY <1>10, <1>0 DEF StartFinish
<1>11. ASSUME NEW p \in Procs, StartUngate(p) PROVE SkipIsSound'
  BY <1>11, <1>0 DEF StartUngate, Return, RetryIf
<1>12. ASSUME NEW p \in Procs, PauseIfOnline(p) PROVE SkipIsSound'
  BY <1>12, <1>0 DEF PauseIfOnline, Return, RetryIf
<1>13. ASSUME NEW p \in Procs, StopHalt(p) PROVE SkipIsSound'
  BY <1>13, <1>0 DEF StopHalt
<1>14. ASSUME NEW p \in Procs, StopReaped(p) PROVE SkipIsSound'
  BY <1>14, <1>0 DEF StopReaped, AfterStop
<1>15. ASSUME NEW p \in Procs, StopTimeout(p) PROVE SkipIsSound'
  BY <1>15, <1>0 DEF StopTimeout, AfterStop
<1>16. ASSUME NEW p \in Procs, ConfigTryLock(p) PROVE SkipIsSound'
  BY <1>16, <1>0 DEF ConfigTryLock, Return, RetryIf
<1>17. ASSUME NEW p \in Procs, ConfigRead(p) PROVE SkipIsSound'
  BY <1>17, <1>0 DEF ConfigRead
<1>18. ASSUME NEW p \in Procs, ConfigPing(p) PROVE SkipIsSound'
  BY <1>18, <1>0 DEF ConfigPing
<1>19. ASSUME NEW p \in Procs, Unlock(p) PROVE SkipIsSound'
  BY <1>19, <1>0 DEF Unlock, Return, RetryIf
<1>20. ASSUME BootLoad PROVE SkipIsSound'
  BY <1>20, <1>0 DEF BootLoad
<1>21. ASSUME NodeCrash PROVE SkipIsSound'
  BY <1>21, <1>0 DEF NodeCrash
<1>22. ASSUME NEW p \in Procs,
             StartMarkOffline(p) \/ StartCompare(p) \/ StartSwap(p) \/ StartCleanup(p)
          \/ StartPersist(p) \/ StartSave(p) \/ StopLock(p) \/ StopFlush(p)
          \/ StopClearFile(p) \/ StopKill(p)
      PROVE  SkipIsSound'
  BY <1>22 DEF StartMarkOffline, StartCompare, StartSwap, StartCleanup, StartPersist, StartSave,
      StopLock, StopFlush, StopClearFile, StopKill, procVars
<1>23. ASSUME HealthPing \/ HealthWrite PROVE SkipIsSound'
  BY <1>23 DEF HealthPing, HealthWrite, procVars
<1>24. ASSUME NEW c \in Cores, CoreFetch(c) \/ CoreExit(c) \/ MonitorDeliver(c) \/ MonitorClear(c)
      PROVE  SkipIsSound'
  BY <1>24 DEF CoreFetch, CoreExit, MonitorDeliver, MonitorClear, procVars
<1>25. CASE UNCHANGED vars
  BY <1>25 DEF vars, procVars
<1> QED
  BY <1>1, <1>2, <1>3, <1>4, <1>5, <1>6, <1>7, <1>8, <1>9, <1>10, <1>11, <1>12, <1>13, <1>14,
      <1>15, <1>16, <1>17, <1>18, <1>19, <1>20, <1>21, <1>22, <1>23, <1>24, <1>25
  DEF Next, Step, StartStep, StopStep, ConfigStep, HealthStep, CoreStep

\* The snapshot cannot change between the ping and the answer.
LEMMA RunningStep ==
  ASSUME TypeOK, OpMatches, ReplyMatches, LocksMatch, ConfigInv, RunningConfigExact, [Next]_vars
  PROVE  RunningConfigExact'
<1> USE ConstantsAssumption
    DEF InLifecycle, InStart, HoldsMu, RunningConfigExact, ReplyMatches, OpMatches, LocksMatch,
        TypeProcs, TypeLocks, Goto, Say, callVars
<1>0. TypeProcs /\ TypeLocks
  BY DEF TypeOK
<1>1. ASSUME NEW p \in Procs, Invoke(p) PROVE RunningConfigExact'
  BY <1>1, <1>0 DEF Invoke, memVars, Requests
<1>2. ASSUME NEW p \in Procs, StartGate(p) PROVE RunningConfigExact'
  BY <1>2, <1>0 DEF StartGate, Return, RetryIf, memVars
<1>3. ASSUME NEW p \in Procs, StartTryLock(p) PROVE RunningConfigExact'
  BY <1>3, <1>0 DEF StartTryLock, memVars
<1>4. ASSUME NEW p \in Procs, StartCheck(p) PROVE RunningConfigExact'
  BY <1>4, <1>0 DEF StartCheck, memVars
<1>5. ASSUME NEW p \in Procs, StartPing(p) PROVE RunningConfigExact'
  BY <1>5, <1>0 DEF StartPing, memVars
<1>6. ASSUME NEW p \in Procs, StartMarkOffline(p) PROVE RunningConfigExact'
  BY <1>6, <1>0 DEF StartMarkOffline
<1>7. ASSUME NEW p \in Procs, StartCompare(p) PROVE RunningConfigExact'
  BY <1>7, <1>0 DEF StartCompare, memVars
<1>8. ASSUME NEW p \in Procs, StartSkip(p) PROVE RunningConfigExact'
  BY <1>8, <1>0 DEF StartSkip
<1>9. ASSUME NEW p \in Procs, StartPrepare(p) PROVE RunningConfigExact'
  BY <1>9, <1>0 DEF StartPrepare, memVars
<1>10. ASSUME NEW p \in Procs, StartSwap(p) PROVE RunningConfigExact'
  BY <1>10, <1>0 DEF StartSwap
<1>11. ASSUME NEW p \in Procs, StartSpawn(p) PROVE RunningConfigExact'
  BY <1>11, <1>0 DEF StartSpawn
<1>12. ASSUME NEW p \in Procs, StartWait(p) PROVE RunningConfigExact'
  BY <1>12, <1>0 DEF StartWait, memVars
<1>13. ASSUME NEW p \in Procs, StartFinish(p) PROVE RunningConfigExact'
  BY <1>13, <1>0 DEF StartFinish
<1>14. ASSUME NEW p \in Procs, StartCleanup(p) PROVE RunningConfigExact'
  BY <1>14, <1>0 DEF StartCleanup
<1>15. ASSUME NEW p \in Procs, StartPersist(p) PROVE RunningConfigExact'
  BY <1>15, <1>0 DEF StartPersist, memVars
<1>16. ASSUME NEW p \in Procs, StartSave(p) PROVE RunningConfigExact'
  BY <1>16, <1>0 DEF StartSave, Save, memVars
<1>17. ASSUME NEW p \in Procs, StartUngate(p) PROVE RunningConfigExact'
  BY <1>17, <1>0 DEF StartUngate, Return, RetryIf, memVars
<1>18. ASSUME NEW p \in Procs, PauseIfOnline(p) PROVE RunningConfigExact'
  BY <1>18, <1>0 DEF PauseIfOnline, Return, RetryIf, memVars
<1>19. ASSUME NEW p \in Procs, StopLock(p) PROVE RunningConfigExact'
  BY <1>19, <1>0 DEF StopLock, memVars
<1>20. ASSUME NEW p \in Procs, StopFlush(p) PROVE RunningConfigExact'
  BY <1>20, <1>0 DEF StopFlush, Save, memVars
<1>21. ASSUME NEW p \in Procs, StopHalt(p) PROVE RunningConfigExact'
  BY <1>21, <1>0 DEF StopHalt
<1>22. ASSUME NEW p \in Procs, StopClearFile(p) PROVE RunningConfigExact'
  BY <1>22, <1>0 DEF StopClearFile, Save, memVars
<1>23. ASSUME NEW p \in Procs, StopReaped(p) PROVE RunningConfigExact'
  BY <1>23, <1>0 DEF StopReaped, AfterStop
<1>24. ASSUME NEW p \in Procs, StopKill(p) PROVE RunningConfigExact'
  BY <1>24, <1>0 DEF StopKill, memVars
<1>25. ASSUME NEW p \in Procs, StopTimeout(p) PROVE RunningConfigExact'
  BY <1>25, <1>0 DEF StopTimeout, AfterStop
<1>26. ASSUME NEW p \in Procs, ConfigTryLock(p) PROVE RunningConfigExact'
  BY <1>26, <1>0 DEF ConfigTryLock, Return, RetryIf, memVars
<1>27. ASSUME NEW p \in Procs, ConfigRead(p) PROVE RunningConfigExact'
  BY <1>27, <1>0 DEF ConfigRead, memVars
<1>28. ASSUME NEW p \in Procs, ConfigPing(p) PROVE RunningConfigExact'
  BY <1>28, <1>0 DEF ConfigPing, memVars, ConfigInv
<1>29. ASSUME NEW p \in Procs, Unlock(p) PROVE RunningConfigExact'
  BY <1>29, <1>0 DEF Unlock, Return, RetryIf, memVars
<1>30. ASSUME BootLoad PROVE RunningConfigExact'
  BY <1>30, <1>0 DEF BootLoad, memVars
<1>31. ASSUME NodeCrash PROVE RunningConfigExact'
  BY <1>31, <1>0 DEF NodeCrash
<1>32. ASSUME HealthPing \/ HealthWrite PROVE RunningConfigExact'
  BY <1>32 DEF HealthPing, HealthWrite, memVars, procVars
<1>33. ASSUME NEW c \in Cores, CoreFetch(c) \/ CoreExit(c) \/ MonitorDeliver(c) \/ MonitorClear(c)
      PROVE  RunningConfigExact'
  BY <1>33 DEF CoreFetch, CoreExit, MonitorDeliver, MonitorClear, memVars, procVars
<1>34. CASE UNCHANGED vars
  BY <1>34 DEF vars, memVars, procVars
<1> QED
  BY <1>1, <1>2, <1>3, <1>4, <1>5, <1>6, <1>7, <1>8, <1>9, <1>10, <1>11, <1>12, <1>13, <1>14,
      <1>15, <1>16, <1>17, <1>18, <1>19, <1>20, <1>21, <1>22, <1>23, <1>24, <1>25, <1>26, <1>27,
      <1>28, <1>29, <1>30, <1>31, <1>32, <1>33, <1>34
  DEF Next, Step, StartStep, StopStep, ConfigStep, HealthStep, CoreStep

-----------------------------------------------------------------------------
(* The request to restore. *)

\* Without a process no child lives.
LEMMA NoneAlive ==
  ASSUME TypeOK, CoreInv, process = NoCore
  PROVE  \A c \in Cores : ~Alive(c)
  BY ConstantsAssumption DEF CoreInv, NoOrphanCore, Cores, NoCore

\* Answers of success are given where the outcome is recorded.
LEMMA AnswerStep ==
  ASSUME TypeOK, OpMatches, ReplyMatches, LocksMatch, CoreInv, AnswerMatches, [Next]_vars
  PROVE  AnswerMatches'
<1> USE ConstantsAssumption
    DEF InLifecycle, InStart, HoldsMu, Procs, Operations, Goto, Say, callVars, NoCore,
        AnswerMatches, Started, ReplyMatches, OpMatches, LocksMatch, CoreInv, TypeProcs,
        TypeLocks, TypeMem
<1>0. TypeProcs /\ TypeLocks /\ TypeMem
  BY DEF TypeOK
<1>1. ASSUME NEW p \in Procs, Invoke(p) PROVE AnswerMatches'
  BY <1>1, <1>0 DEF Invoke, Requests, lockVars, memVars, diskVars, coreVars, ghostVars
<1>2. ASSUME NEW p \in Procs, StartGate(p) PROVE AnswerMatches'
  BY <1>2, <1>0 DEF StartGate, Return, RetryIf, memVars, diskVars, coreVars, boundVars, ghostVars
<1>3. ASSUME NEW p \in Procs, StartTryLock(p) PROVE AnswerMatches'
  BY <1>3, <1>0 DEF StartTryLock, memVars, diskVars, coreVars, boundVars, ghostVars
<1>4. ASSUME NEW p \in Procs, StartCheck(p) PROVE AnswerMatches'
  BY <1>4, <1>0 DEF StartCheck, lockVars, memVars, diskVars, coreVars, boundVars, ghostVars
<1>5. ASSUME NEW p \in Procs, StartPing(p) PROVE AnswerMatches'
  BY <1>5, <1>0 DEF StartPing, lockVars, memVars, diskVars, coreVars, boundVars, ghostVars
<1>6. ASSUME NEW p \in Procs, StartMarkOffline(p) PROVE AnswerMatches'
  BY <1>6, <1>0 DEF StartMarkOffline, lockVars, diskVars, coreVars, boundVars, ghostVars
<1>7. ASSUME NEW p \in Procs, StartCompare(p) PROVE AnswerMatches'
  BY <1>7, <1>0 DEF StartCompare, lockVars, memVars, diskVars, coreVars, boundVars, ghostVars
<1>8. ASSUME NEW p \in Procs, StartSkip(p) PROVE AnswerMatches'
  BY <1>8, <1>0 DEF StartSkip, lockVars, diskVars, coreVars, boundVars, ghostVars
<1>9. ASSUME NEW p \in Procs, StartPrepare(p) PROVE AnswerMatches'
  BY <1>9, <1>0 DEF StartPrepare, lockVars, memVars, diskVars, coreVars, boundVars, ghostVars
<1>10. ASSUME NEW p \in Procs, StartSwap(p) PROVE AnswerMatches'
  BY <1>10, <1>0 DEF StartSwap, diskVars, coreVars, boundVars, ghostVars
<1>11. ASSUME NEW p \in Procs, StartSpawn(p) PROVE AnswerMatches'
  BY <1>11, <1>0 DEF StartSpawn, lockVars, diskVars, boundVars, ghostVars
<1>12. ASSUME NEW p \in Procs, StartWait(p) PROVE AnswerMatches'
  BY <1>12, <1>0 DEF StartWait, lockVars, memVars, diskVars, coreVars, boundVars, ghostVars
<1>13. ASSUME NEW p \in Procs, StartFinish(p) PROVE AnswerMatches'
  BY <1>13, <1>0 DEF StartFinish, lockVars, diskVars, coreVars, boundVars, ghostVars
<1>14. ASSUME NEW p \in Procs, StartCleanup(p) PROVE AnswerMatches'
  BY <1>14, <1>0 DEF StartCleanup, diskVars, coreVars, boundVars, ghostVars
<1>15. ASSUME NEW p \in Procs, StartPersist(p) PROVE AnswerMatches'
  BY <1>15, <1>0 DEF StartPersist, lockVars, memVars, coreVars, boundVars
<1>16. ASSUME NEW p \in Procs, StartSave(p) PROVE AnswerMatches'
  BY <1>16, <1>0 DEF StartSave, Save, lockVars, memVars, coreVars, boundVars, ghostVars
<1>17. ASSUME NEW p \in Procs, StartUngate(p) PROVE AnswerMatches'
  BY <1>17, <1>0 DEF StartUngate, Return, RetryIf, memVars, diskVars, coreVars, boundVars,
      ghostVars
<1>18. ASSUME NEW p \in Procs, PauseIfOnline(p) PROVE AnswerMatches'
  BY <1>18, <1>0 DEF PauseIfOnline, Return, RetryIf, lockVars, memVars, diskVars, coreVars,
      boundVars, ghostVars
<1>19. ASSUME NEW p \in Procs, StopLock(p) PROVE AnswerMatches'
  BY <1>19, <1>0 DEF StopLock, memVars, diskVars, coreVars, boundVars, ghostVars
<1>20. ASSUME NEW p \in Procs, StopFlush(p) PROVE AnswerMatches'
  BY <1>20, <1>0 DEF StopFlush, Save, lockVars, memVars, coreVars, boundVars, ghostVars
<1>21. ASSUME NEW p \in Procs, StopHalt(p) PROVE AnswerMatches'
  BY <1>21, <1>0 DEF StopHalt, coreVars, boundVars, ghostVars
<1>22. ASSUME NEW p \in Procs, StopClearFile(p) PROVE AnswerMatches'
  BY <1>22, <1>0 DEF StopClearFile, Save, lockVars, memVars, coreVars, boundVars, ghostVars
<1>23. ASSUME NEW p \in Procs, StopReaped(p) PROVE AnswerMatches'
  BY <1>23, <1>0 DEF StopReaped, AfterStop
<1>24. ASSUME NEW p \in Procs, StopKill(p) PROVE AnswerMatches'
  BY <1>24, <1>0 DEF StopKill, lockVars, memVars, diskVars, boundVars, ghostVars
<1>25. ASSUME NEW p \in Procs, StopTimeout(p) PROVE AnswerMatches'
  BY <1>25, <1>0 DEF StopTimeout, AfterStop
<1>26. ASSUME NEW p \in Procs, ConfigTryLock(p) PROVE AnswerMatches'
  BY <1>26, <1>0 DEF ConfigTryLock, Return, RetryIf, memVars, diskVars, coreVars, boundVars,
      ghostVars
<1>27. ASSUME NEW p \in Procs, ConfigRead(p) PROVE AnswerMatches'
  BY <1>27, <1>0 DEF ConfigRead, lockVars, memVars, diskVars, coreVars, boundVars, ghostVars
<1>28. ASSUME NEW p \in Procs, ConfigPing(p) PROVE AnswerMatches'
  BY <1>28, <1>0 DEF ConfigPing, lockVars, memVars, diskVars, coreVars, boundVars, ghostVars
<1>29. ASSUME NEW p \in Procs, Unlock(p) PROVE AnswerMatches'
  BY <1>29, <1>0 DEF Unlock, Return, RetryIf, memVars, diskVars, coreVars, boundVars
<1>30. ASSUME BootLoad PROVE AnswerMatches'
  BY <1>30, <1>0 DEF BootLoad, lockVars, memVars, diskVars, coreVars, boundVars, ghostVars
<1>31. ASSUME HealthPing PROVE AnswerMatches'
  BY <1>31, <1>0 DEF HealthPing, lockVars, memVars, diskVars, coreVars, procVars, boundVars,
      ghostVars
<1>32. ASSUME HealthWrite PROVE AnswerMatches'
  BY <1>32, <1>0 DEF HealthWrite, lockVars, diskVars, coreVars, procVars, boundVars, ghostVars
<1>33. ASSUME NodeCrash PROVE AnswerMatches'
  BY <1>33, <1>0 DEF NodeCrash
<1>34. ASSUME NEW c \in Cores, CoreFetch(c) PROVE AnswerMatches'
  BY <1>34, <1>0 DEF CoreFetch, lockVars, memVars, diskVars, procVars, boundVars, ghostVars
<1>35. ASSUME NEW c \in Cores, CoreExit(c) PROVE AnswerMatches'
  BY <1>35, <1>0 DEF CoreExit, lockVars, memVars, diskVars, procVars, boundVars, ghostVars
<1>36. ASSUME NEW c \in Cores, MonitorDeliver(c) PROVE AnswerMatches'
  BY <1>36, <1>0 DEF MonitorDeliver, lockVars, memVars, diskVars, procVars, boundVars, ghostVars
<1>37. ASSUME NEW c \in Cores, MonitorClear(c) PROVE AnswerMatches'
  BY <1>37, <1>0 DEF MonitorClear, lockVars, diskVars, procVars, boundVars, ghostVars
<1>38. CASE UNCHANGED vars
  BY <1>38, <1>0 DEF vars, lockVars, memVars, diskVars, coreVars, procVars, boundVars, ghostVars
<1> QED
  BY <1>1, <1>2, <1>3, <1>4, <1>5, <1>6, <1>7, <1>8, <1>9, <1>10, <1>11, <1>12, <1>13, <1>14,
      <1>15, <1>16, <1>17, <1>18, <1>19, <1>20, <1>21, <1>22, <1>23, <1>24, <1>25, <1>26, <1>27,
      <1>28, <1>29, <1>30, <1>31, <1>32, <1>33, <1>34, <1>35, <1>36, <1>37, <1>38
  DEF Next, Step, StartStep, StopStep, ConfigStep, HealthStep, CoreStep

\* The file follows the operations: a start saves its request, the panel's stop
\* removes it, and a pause writes back what was there.
LEMMA DiskStep ==
  ASSUME TypeOK, OpMatches, ReplyMatches, LocksMatch, AnswerMatches, DiskInv, [Next]_vars
  PROVE  DiskInv'
<1> USE ConstantsAssumption
    DEF InLifecycle, InStart, HoldsMu, Procs, Operations, Goto, Say, callVars, DiskInv,
        Committing, Outcome, AnswerMatches, Started, ReplyMatches, OpMatches, LocksMatch,
        TypeProcs, TypeLocks, TypeDisk, TypeRest
<1>0. TypeProcs /\ TypeLocks /\ TypeDisk /\ TypeRest
  BY DEF TypeOK
<1>1. ASSUME NEW p \in Procs, Invoke(p) PROVE DiskInv'
  BY <1>1, <1>0 DEF Invoke, Requests, lockVars, memVars, diskVars, coreVars, ghostVars
<1>2. ASSUME NEW p \in Procs, StartGate(p) PROVE DiskInv'
  BY <1>2, <1>0 DEF StartGate, Return, RetryIf, memVars, diskVars, coreVars, boundVars, ghostVars
<1>3. ASSUME NEW p \in Procs, StartTryLock(p) PROVE DiskInv'
  BY <1>3, <1>0 DEF StartTryLock, memVars, diskVars, coreVars, boundVars, ghostVars
<1>4. ASSUME NEW p \in Procs, StartCheck(p) PROVE DiskInv'
  BY <1>4, <1>0 DEF StartCheck, lockVars, memVars, diskVars, coreVars, boundVars, ghostVars
<1>5. ASSUME NEW p \in Procs, StartPing(p) PROVE DiskInv'
  BY <1>5, <1>0 DEF StartPing, lockVars, memVars, diskVars, coreVars, boundVars, ghostVars
<1>6. ASSUME NEW p \in Procs, StartMarkOffline(p) PROVE DiskInv'
  BY <1>6, <1>0 DEF StartMarkOffline, lockVars, diskVars, coreVars, boundVars, ghostVars
<1>7. ASSUME NEW p \in Procs, StartCompare(p) PROVE DiskInv'
  BY <1>7, <1>0 DEF StartCompare, lockVars, memVars, diskVars, coreVars, boundVars, ghostVars
<1>8. ASSUME NEW p \in Procs, StartSkip(p) PROVE DiskInv'
  BY <1>8, <1>0 DEF StartSkip, lockVars, diskVars, coreVars, boundVars, ghostVars
<1>9. ASSUME NEW p \in Procs, StartPrepare(p) PROVE DiskInv'
  BY <1>9, <1>0 DEF StartPrepare, lockVars, memVars, diskVars, coreVars, boundVars, ghostVars
<1>10. ASSUME NEW p \in Procs, StartSwap(p) PROVE DiskInv'
  BY <1>10, <1>0 DEF StartSwap, diskVars, coreVars, boundVars, ghostVars
<1>11. ASSUME NEW p \in Procs, StartSpawn(p) PROVE DiskInv'
  BY <1>11, <1>0 DEF StartSpawn, lockVars, diskVars, boundVars, ghostVars
<1>12. ASSUME NEW p \in Procs, StartWait(p) PROVE DiskInv'
  BY <1>12, <1>0 DEF StartWait, lockVars, memVars, diskVars, coreVars, boundVars, ghostVars
<1>13. ASSUME NEW p \in Procs, StartFinish(p) PROVE DiskInv'
  BY <1>13, <1>0 DEF StartFinish, lockVars, diskVars, coreVars, boundVars, ghostVars
<1>14. ASSUME NEW p \in Procs, StartCleanup(p) PROVE DiskInv'
  BY <1>14, <1>0 DEF StartCleanup, diskVars, coreVars, boundVars, ghostVars
<1>15. ASSUME NEW p \in Procs, StartPersist(p) PROVE DiskInv'
  BY <1>15, <1>0 DEF StartPersist, lockVars, memVars, coreVars, boundVars
<1>16. ASSUME NEW p \in Procs, StartSave(p) PROVE DiskInv'
  BY <1>16, <1>0 DEF StartSave, Save, lockVars, memVars, coreVars, boundVars, ghostVars
<1>17. ASSUME NEW p \in Procs, StartUngate(p) PROVE DiskInv'
  BY <1>17, <1>0 DEF StartUngate, Return, RetryIf, memVars, diskVars, coreVars, boundVars,
      ghostVars
<1>18. ASSUME NEW p \in Procs, PauseIfOnline(p) PROVE DiskInv'
  BY <1>18, <1>0 DEF PauseIfOnline, Return, RetryIf, lockVars, memVars, diskVars, coreVars,
      boundVars, ghostVars
<1>19. ASSUME NEW p \in Procs, StopLock(p) PROVE DiskInv'
  BY <1>19, <1>0 DEF StopLock, memVars, diskVars, coreVars, boundVars, ghostVars
<1>20. ASSUME NEW p \in Procs, StopFlush(p) PROVE DiskInv'
  BY <1>20, <1>0 DEF StopFlush, Save, lockVars, memVars, coreVars, boundVars, ghostVars
<1>21. ASSUME NEW p \in Procs, StopHalt(p) PROVE DiskInv'
  BY <1>21, <1>0 DEF StopHalt, coreVars, boundVars, ghostVars
<1>22. ASSUME NEW p \in Procs, StopClearFile(p) PROVE DiskInv'
  BY <1>22, <1>0 DEF StopClearFile, Save, lockVars, memVars, coreVars, boundVars, ghostVars
<1>23. ASSUME NEW p \in Procs, StopReaped(p) PROVE DiskInv'
  <2>1. pc[p] \in HoldsMu /\ op[p] \in {"start", "stop", "pause"} /\ reply[p] \in {"none", "failed"}
    BY <1>23, <1>0 DEF StopReaped
  <2>2. \A q \in Procs : ~Committing(q)
    BY <2>1, <1>0
  <2>3. CASE op[p] = "stop"
    <3>1. pc' = [pc EXCEPT ![p] = "clearFile"] /\ lastStart' = None
      BY <1>23, <2>3 DEF StopReaped, AfterStop
    <3> QED
      BY <1>23, <3>1, <2>1, <2>2, <2>3, <1>0 DEF StopReaped, AfterStop
  <2>4. CASE op[p] \in {"start", "pause"}
    <3>1. /\ pc' = [pc EXCEPT ![p] = pc'[p]] /\ pc'[p] \in {"spawn", "unlock"}
          /\ reply' = [reply EXCEPT ![p] = reply'[p]]
          /\ reply'[p] \in {"none", "failed", "stopped", "stopFailed"} /\ lastStart' = lastStart
      BY <1>23, <2>1, <2>4, <1>0 DEF StopReaped, AfterStop
    <3>2. \A q \in Procs : ~Committing(q)'
      BY <1>23, <3>1, <2>1, <2>2, <2>4, <1>0 DEF StopReaped, AfterStop
    <3> QED
      BY <1>23, <3>1, <3>2, <2>2, <1>0 DEF StopReaped, AfterStop, ghostVars
  <2> QED
    BY <2>1, <2>3, <2>4
<1>24. ASSUME NEW p \in Procs, StopKill(p) PROVE DiskInv'
  BY <1>24, <1>0 DEF StopKill, lockVars, memVars, diskVars, boundVars, ghostVars
<1>25. ASSUME NEW p \in Procs, StopTimeout(p) PROVE DiskInv'
  <2>1. pc[p] \in HoldsMu /\ op[p] \in {"start", "stop", "pause"} /\ reply[p] \in {"none", "failed"}
    BY <1>25, <1>0 DEF StopTimeout
  <2>2. \A q \in Procs : ~Committing(q)
    BY <2>1, <1>0
  <2>3. CASE op[p] = "stop"
    <3>1. pc' = [pc EXCEPT ![p] = "clearFile"] /\ lastStart' = None
      BY <1>25, <2>3 DEF StopTimeout, AfterStop
    <3> QED
      BY <1>25, <3>1, <2>1, <2>2, <2>3, <1>0 DEF StopTimeout, AfterStop
  <2>4. CASE op[p] \in {"start", "pause"}
    <3>1. /\ pc' = [pc EXCEPT ![p] = pc'[p]] /\ pc'[p] \in {"spawn", "unlock"}
          /\ reply' = [reply EXCEPT ![p] = reply'[p]]
          /\ reply'[p] \in {"none", "failed", "stopped", "stopFailed"} /\ lastStart' = lastStart
      BY <1>25, <2>1, <2>4, <1>0 DEF StopTimeout, AfterStop
    <3>2. \A q \in Procs : ~Committing(q)'
      BY <1>25, <3>1, <2>1, <2>2, <2>4, <1>0 DEF StopTimeout, AfterStop
    <3> QED
      BY <1>25, <3>1, <3>2, <2>2, <1>0 DEF StopTimeout, AfterStop, ghostVars
  <2> QED
    BY <2>1, <2>3, <2>4
<1>26. ASSUME NEW p \in Procs, ConfigTryLock(p) PROVE DiskInv'
  BY <1>26, <1>0 DEF ConfigTryLock, Return, RetryIf, memVars, diskVars, coreVars, boundVars,
      ghostVars
<1>27. ASSUME NEW p \in Procs, ConfigRead(p) PROVE DiskInv'
  BY <1>27, <1>0 DEF ConfigRead, lockVars, memVars, diskVars, coreVars, boundVars, ghostVars
<1>28. ASSUME NEW p \in Procs, ConfigPing(p) PROVE DiskInv'
  BY <1>28, <1>0 DEF ConfigPing, lockVars, memVars, diskVars, coreVars, boundVars, ghostVars
<1>29. ASSUME NEW p \in Procs, Unlock(p) PROVE DiskInv'
  BY <1>29, <1>0 DEF Unlock, Return, RetryIf, memVars, diskVars, coreVars, boundVars
<1>30. ASSUME BootLoad PROVE DiskInv'
  BY <1>30, <1>0 DEF BootLoad, lockVars, memVars, diskVars, coreVars, boundVars, ghostVars
<1>31. ASSUME HealthPing PROVE DiskInv'
  BY <1>31, <1>0 DEF HealthPing, lockVars, memVars, diskVars, coreVars, procVars, boundVars,
      ghostVars
<1>32. ASSUME HealthWrite PROVE DiskInv'
  BY <1>32, <1>0 DEF HealthWrite, lockVars, diskVars, coreVars, procVars, boundVars, ghostVars
<1>33. ASSUME NodeCrash PROVE DiskInv'
  BY <1>33, <1>0 DEF NodeCrash
<1>34. ASSUME NEW c \in Cores, CoreFetch(c) PROVE DiskInv'
  BY <1>34, <1>0 DEF CoreFetch, lockVars, memVars, diskVars, procVars, boundVars, ghostVars
<1>35. ASSUME NEW c \in Cores, CoreExit(c) PROVE DiskInv'
  BY <1>35, <1>0 DEF CoreExit, lockVars, memVars, diskVars, procVars, boundVars, ghostVars
<1>36. ASSUME NEW c \in Cores, MonitorDeliver(c) PROVE DiskInv'
  BY <1>36, <1>0 DEF MonitorDeliver, lockVars, memVars, diskVars, procVars, boundVars, ghostVars
<1>37. ASSUME NEW c \in Cores, MonitorClear(c) PROVE DiskInv'
  BY <1>37, <1>0 DEF MonitorClear, lockVars, diskVars, procVars, boundVars, ghostVars
<1>38. CASE UNCHANGED vars
  BY <1>38, <1>0 DEF vars, lockVars, memVars, diskVars, coreVars, procVars, boundVars, ghostVars
<1> QED
  BY <1>1, <1>2, <1>3, <1>4, <1>5, <1>6, <1>7, <1>8, <1>9, <1>10, <1>11, <1>12, <1>13, <1>14,
      <1>15, <1>16, <1>17, <1>18, <1>19, <1>20, <1>21, <1>22, <1>23, <1>24, <1>25, <1>26, <1>27,
      <1>28, <1>29, <1>30, <1>31, <1>32, <1>33, <1>34, <1>35, <1>36, <1>37, <1>38
  DEF Next, Step, StartStep, StopStep, ConfigStep, HealthStep, CoreStep

\* Nothing but a client's start undoes the panel's stop.
LEMMA DisabledStep ==
  ASSUME TypeOK, OpMatches, ReplyMatches, LocksMatch, CoreInv, AnswerMatches, DiskInv,
         DisabledInv, [Next]_vars
  PROVE  DisabledInv'
<1> USE ConstantsAssumption
    DEF InLifecycle, InStart, HoldsMu, Procs, Operations, Goto, Say, callVars, DisabledInv,
        MayRun, DiskInv, Committing, Outcome, AnswerMatches, Started, CoreInv, NoOrphanCore,
        Alive, Serving, Reaped, ReplyMatches, OpMatches, LocksMatch, TypeProcs, TypeLocks,
        TypeDisk, TypeMem, TypeCores, TypeRest
<1>0. TypeProcs /\ TypeLocks /\ TypeDisk /\ TypeRest /\ TypeMem /\ TypeCores
  BY DEF TypeOK
<1>1. ASSUME NEW p \in Procs, Invoke(p) PROVE DisabledInv'
  BY <1>1, <1>0 DEF Invoke, Requests, lockVars, memVars, diskVars, coreVars, ghostVars
<1>2. ASSUME NEW p \in Procs, StartGate(p) PROVE DisabledInv'
  BY <1>2, <1>0 DEF StartGate, Return, RetryIf, memVars, diskVars, coreVars, boundVars, ghostVars
<1>3. ASSUME NEW p \in Procs, StartTryLock(p) PROVE DisabledInv'
  BY <1>3, <1>0 DEF StartTryLock, memVars, diskVars, coreVars, boundVars, ghostVars
<1>4. ASSUME NEW p \in Procs, StartCheck(p) PROVE DisabledInv'
  BY <1>4, <1>0 DEF StartCheck, lockVars, memVars, diskVars, coreVars, boundVars, ghostVars
<1>5. ASSUME NEW p \in Procs, StartPing(p) PROVE DisabledInv'
  BY <1>5, <1>0 DEF StartPing, lockVars, memVars, diskVars, coreVars, boundVars, ghostVars
<1>6. ASSUME NEW p \in Procs, StartMarkOffline(p) PROVE DisabledInv'
  BY <1>6, <1>0 DEF StartMarkOffline, lockVars, diskVars, coreVars, boundVars, ghostVars
<1>7. ASSUME NEW p \in Procs, StartCompare(p) PROVE DisabledInv'
  BY <1>7, <1>0 DEF StartCompare, lockVars, memVars, diskVars, coreVars, boundVars, ghostVars
<1>8. ASSUME NEW p \in Procs, StartSkip(p) PROVE DisabledInv'
  BY <1>8, <1>0 DEF StartSkip, lockVars, diskVars, coreVars, boundVars, ghostVars
<1>9. ASSUME NEW p \in Procs, StartPrepare(p) PROVE DisabledInv'
  BY <1>9, <1>0 DEF StartPrepare, lockVars, memVars, diskVars, coreVars, boundVars, ghostVars
<1>10. ASSUME NEW p \in Procs, StartSwap(p) PROVE DisabledInv'
  BY <1>10, <1>0 DEF StartSwap, diskVars, coreVars, boundVars, ghostVars
<1>11. ASSUME NEW p \in Procs, StartSpawn(p) PROVE DisabledInv'
  BY <1>11, <1>0 DEF StartSpawn, lockVars, diskVars, boundVars, ghostVars
<1>12. ASSUME NEW p \in Procs, StartWait(p) PROVE DisabledInv'
  BY <1>12, <1>0 DEF StartWait, lockVars, memVars, diskVars, coreVars, boundVars, ghostVars
<1>13. ASSUME NEW p \in Procs, StartFinish(p) PROVE DisabledInv'
  BY <1>13, <1>0 DEF StartFinish, lockVars, diskVars, coreVars, boundVars, ghostVars
<1>14. ASSUME NEW p \in Procs, StartCleanup(p) PROVE DisabledInv'
  <2>1. CASE process = NoCore
    <3>1. \A c \in Cores : ~Alive(c)
      BY <2>1, NoneAlive
    <3>2. pc' = [pc EXCEPT ![p] = "unlock"]
      BY <1>14, <2>1 DEF StartCleanup
    <3> QED
      BY <1>14, <3>1, <3>2, <1>0 DEF StartCleanup, diskVars, coreVars, ghostVars
  <2>2. CASE process # NoCore
    <3>1. pc' = [pc EXCEPT ![p] = "stopWait"]
      BY <1>14, <2>2 DEF StartCleanup
    <3>2. p \in Procs /\ pc'[p] \in MayRun
      BY <3>1, <1>0
    <3> QED
      BY <1>14, <3>1, <3>2, <1>0 DEF StartCleanup, diskVars, coreVars, ghostVars
  <2> QED
    BY <2>1, <2>2
<1>15. ASSUME NEW p \in Procs, StartPersist(p) PROVE DisabledInv'
  BY <1>15, <1>0 DEF StartPersist, lockVars, memVars, coreVars, boundVars
<1>16. ASSUME NEW p \in Procs, StartSave(p) PROVE DisabledInv'
  BY <1>16, <1>0 DEF StartSave, Save, lockVars, memVars, coreVars, boundVars, ghostVars
<1>17. ASSUME NEW p \in Procs, StartUngate(p) PROVE DisabledInv'
  BY <1>17, <1>0 DEF StartUngate, Return, RetryIf, memVars, diskVars, coreVars, boundVars,
      ghostVars
<1>18. ASSUME NEW p \in Procs, PauseIfOnline(p) PROVE DisabledInv'
  BY <1>18, <1>0 DEF PauseIfOnline, Return, RetryIf, lockVars, memVars, diskVars, coreVars,
      boundVars, ghostVars
<1>19. ASSUME NEW p \in Procs, StopLock(p) PROVE DisabledInv'
  BY <1>19, <1>0 DEF StopLock, memVars, diskVars, coreVars, boundVars, ghostVars
<1>20. ASSUME NEW p \in Procs, StopFlush(p) PROVE DisabledInv'
  BY <1>20, <1>0 DEF StopFlush, Save, lockVars, memVars, coreVars, boundVars, ghostVars
<1>21. ASSUME NEW p \in Procs, StopHalt(p) PROVE DisabledInv'
  BY <1>21, <1>0 DEF StopHalt, coreVars, boundVars, ghostVars
<1>22. ASSUME NEW p \in Procs, StopClearFile(p) PROVE DisabledInv'
  BY <1>22, <1>0 DEF StopClearFile, Save, lockVars, memVars, coreVars, boundVars, ghostVars
<1>23. ASSUME NEW p \in Procs, StopReaped(p) PROVE DisabledInv'
  <2>1. \A c \in Cores : core[c] \notin {"booting", "serving"}
    BY <1>23, <1>0 DEF StopReaped
  <2>2. /\ pc' = [pc EXCEPT ![p] = pc'[p]] /\ pc'[p] \in {"clearFile", "spawn", "unlock"}
        /\ lastStart' \in {lastStart, None}
    BY <1>23, <1>0 DEF StopReaped, AfterStop
  <2>3. persisted' = persisted /\ core' = core /\ disabled' = disabled
    BY <1>23 DEF StopReaped, AfterStop, coreVars, ghostVars
  <2>4. pc[Boot] \notin {"stopWait", "killWait"} => pc'[Boot] = pc[Boot]
    BY <2>2, <1>23, <1>0 DEF StopReaped
  <2> QED
    BY <1>23, <2>1, <2>2, <2>3, <2>4, <1>0 DEF StopReaped
<1>24. ASSUME NEW p \in Procs, StopKill(p) PROVE DisabledInv'
  BY <1>24, <1>0 DEF StopKill, lockVars, memVars, diskVars, boundVars, ghostVars
<1>25. ASSUME NEW p \in Procs, StopTimeout(p) PROVE DisabledInv'
  <2>1. \A c \in Cores : core[c] \notin {"booting", "serving"}
    BY <1>25, <1>0 DEF StopTimeout
  <2>2. /\ pc' = [pc EXCEPT ![p] = pc'[p]] /\ pc'[p] \in {"clearFile", "spawn", "unlock"}
        /\ lastStart' \in {lastStart, None}
    BY <1>25, <1>0 DEF StopTimeout, AfterStop
  <2>3. persisted' = persisted /\ core' = core /\ disabled' = disabled
    BY <1>25 DEF StopTimeout, AfterStop, coreVars, ghostVars
  <2>4. pc[Boot] \notin {"stopWait", "killWait"} => pc'[Boot] = pc[Boot]
    BY <2>2, <1>25, <1>0 DEF StopTimeout
  <2> QED
    BY <1>25, <2>1, <2>2, <2>3, <2>4, <1>0 DEF StopTimeout
<1>26. ASSUME NEW p \in Procs, ConfigTryLock(p) PROVE DisabledInv'
  BY <1>26, <1>0 DEF ConfigTryLock, Return, RetryIf, memVars, diskVars, coreVars, boundVars,
      ghostVars
<1>27. ASSUME NEW p \in Procs, ConfigRead(p) PROVE DisabledInv'
  BY <1>27, <1>0 DEF ConfigRead, lockVars, memVars, diskVars, coreVars, boundVars, ghostVars
<1>28. ASSUME NEW p \in Procs, ConfigPing(p) PROVE DisabledInv'
  BY <1>28, <1>0 DEF ConfigPing, lockVars, memVars, diskVars, coreVars, boundVars, ghostVars
<1>29. ASSUME NEW p \in Procs, Unlock(p) PROVE DisabledInv'
  <2>1. core' = core /\ persisted' = persisted /\ lastStart' = lastStart /\ process' = process
    BY <1>29 DEF Unlock, coreVars, diskVars, memVars
  <2>2. pc[p] = "unlock" /\ \A q \in Procs : pc[q] \in InLifecycle => q = p
    BY <1>29, <1>0 DEF Unlock
  <2>3. /\ pc' = [pc EXCEPT ![p] = pc'[p]] /\ pc'[p] \in {"ungate", "gate", "idle", "off"}
        /\ p = Boot => op[p] = "start"
    BY <1>29, <2>2, <1>0 DEF Unlock, Return, RetryIf
  <2>4. \A q \in Procs : pc[q] \notin MayRun \cup {"save"} /\ pc'[q] # "save"
    BY <2>2, <2>3, <1>0
  <2>5. CASE op[p] = "stop" /\ reply[p] = "stopped"
    <3>1. \A c \in Cores : ~Alive(c)
      <4>1. process = NoCore
        BY <2>5
      <4> QED
        BY <4>1, NoneAlive
    <3>2. lastStart = None /\ (~diskStale => persisted = None)
      BY <2>2, <2>5
    <3>3. p # Boot /\ pc'[Boot] = pc[Boot]
      BY <2>3, <2>5, <1>0
    <3>4. disabled' = "settled" => pc[Boot] = "off" /\ ~diskStale
      BY <1>29, <2>5 DEF Unlock
    <3> QED
      BY <2>1, <2>4, <3>1, <3>2, <3>3, <3>4
  <2>6. CASE ~(op[p] = "stop" /\ reply[p] = "stopped")
    <3>1. disabled' = disabled
      BY <1>29, <2>6 DEF Unlock
    <3>2. disabled = "settled" => p # Boot
      BY <2>2
    <3>3. p # Boot => pc'[Boot] = pc[Boot]
      BY <2>3, <1>0
    <3> QED
      BY <2>1, <2>4, <3>1, <3>2, <3>3
  <2> QED
    BY <2>5, <2>6
<1>30. ASSUME BootLoad PROVE DisabledInv'
  BY <1>30, <1>0 DEF BootLoad, lockVars, memVars, diskVars, coreVars, boundVars, ghostVars
<1>31. ASSUME HealthPing PROVE DisabledInv'
  BY <1>31, <1>0 DEF HealthPing, lockVars, memVars, diskVars, coreVars, procVars, boundVars,
      ghostVars
<1>32. ASSUME HealthWrite PROVE DisabledInv'
  BY <1>32, <1>0 DEF HealthWrite, lockVars, diskVars, coreVars, procVars, boundVars, ghostVars
<1>33. ASSUME NodeCrash PROVE DisabledInv'
  BY <1>33, <1>0 DEF NodeCrash
<1>34. ASSUME NEW c \in Cores, CoreFetch(c) PROVE DisabledInv'
  BY <1>34, <1>0 DEF CoreFetch, lockVars, memVars, diskVars, procVars, boundVars, ghostVars
<1>35. ASSUME NEW c \in Cores, CoreExit(c) PROVE DisabledInv'
  BY <1>35, <1>0 DEF CoreExit, lockVars, memVars, diskVars, procVars, boundVars, ghostVars
<1>36. ASSUME NEW c \in Cores, MonitorDeliver(c) PROVE DisabledInv'
  BY <1>36, <1>0 DEF MonitorDeliver, lockVars, memVars, diskVars, procVars, boundVars, ghostVars
<1>37. ASSUME NEW c \in Cores, MonitorClear(c) PROVE DisabledInv'
  BY <1>37, <1>0 DEF MonitorClear, lockVars, diskVars, procVars, boundVars, ghostVars
<1>38. CASE UNCHANGED vars
  BY <1>38, <1>0 DEF vars, lockVars, memVars, diskVars, coreVars, procVars, boundVars, ghostVars
<1> QED
  BY <1>1, <1>2, <1>3, <1>4, <1>5, <1>6, <1>7, <1>8, <1>9, <1>10, <1>11, <1>12, <1>13, <1>14,
      <1>15, <1>16, <1>17, <1>18, <1>19, <1>20, <1>21, <1>22, <1>23, <1>24, <1>25, <1>26, <1>27,
      <1>28, <1>29, <1>30, <1>31, <1>32, <1>33, <1>34, <1>35, <1>36, <1>37, <1>38
  DEF Next, Step, StartStep, StopStep, ConfigStep, HealthStep, CoreStep

-----------------------------------------------------------------------------
(* Theorems. *)

\* The invariant holds when the node starts.
LEMMA InitInv == Init => IInv
<1> SUFFICES ASSUME Init PROVE IInv
  OBVIOUS
<1> USE ConstantsAssumption DEF Init
<1>1. TypeLocks /\ TypeMem /\ TypeDisk
  BY DEF TypeLocks, TypeMem, TypeDisk, NoCore
<1>2. TypeRest
  BY DEF TypeRest
<1>3. TypeCores
  BY DEF TypeCores
<1>4. TypeProcs
  BY DEF TypeProcs, Labels, Operations, Answers
<1>5. OpMatches /\ ReplyMatches
  BY DEF OpMatches, ReplyMatches, InStart, HoldsMu, Procs
<1>6. LocksMatch /\ GateMatchesFlag
  BY DEF LocksMatch, GateMatchesFlag, PastGate, InLifecycle, InStart, HoldsMu, Procs
<1>7. CoreInv
  BY DEF CoreInv, NoOrphanCore, Alive, Serving, Reaped, HoldsMu
<1>8. ConfigInv
  BY DEF ConfigInv, Serving, HoldsMu
<1>9. SkipIsSound /\ RunningConfigExact
  BY DEF SkipIsSound, RunningConfigExact
<1>10. AnswerMatches /\ DiskInv /\ DisabledInv
  BY DEF AnswerMatches, Started, DiskInv, Committing, DisabledInv
<1> QED
  BY <1>1, <1>2, <1>3, <1>4, <1>5, <1>6, <1>7, <1>8, <1>9, <1>10 DEF IInv, TypeOK

\* Every step of the manager, its callers, the child and a crash preserves it.
LEMMA StepInv == IInv /\ [Next]_vars => IInv'
  BY TypeStep, OpStep, ReplyStep, LockStep, GateStep, ChildStep, ConfigStepInv, SkipStep,
      RunningStep, AnswerStep, DiskStep, DisabledStep
  DEF IInv

\* The inductive invariant holds in every reachable state, for any number of
\* callers, calls, configurations, children and crashes.
THEOREM Invariance == Spec => []IInv
  BY InitInv, StepInv, PTL DEF Spec

\* Every variable keeps its type, and the boot restore never makes more
\* attempts than it may.
THEOREM TypeCorrect == Spec => []TypeOK
<1>1. IInv => TypeOK
  BY DEF IInv
<1> QED
  BY <1>1, Invariance, PTL

\* No rw-core child outlives the manager's knowledge of it, whatever stops
\* time out and whichever monitors come late.
THEOREM NoOrphan == Spec => []NoOrphanCore
<1>1. IInv => NoOrphanCore
  BY DEF IInv, CoreInv
<1> QED
  BY <1>1, Invariance, PTL

\* "Already in progress" is said exactly while one start is past the gate.
THEOREM GateExact == Spec => []GateMatchesFlag
<1>1. IInv => GateMatchesFlag
  BY DEF IInv
<1> QED
  BY <1>1, Invariance, PTL

\* "Config unchanged" is never said of a core that runs something else.
THEOREM SkipSound == Spec => []SkipIsSound
<1>1. IInv => SkipIsSound
  BY DEF IInv
<1> QED
  BY <1>1, Invariance, PTL

\* What running-config reports is what the answering core was started with.
THEOREM RunningExact == Spec => []RunningConfigExact
<1>1. IInv => RunningConfigExact
  BY DEF IInv
<1> QED
  BY <1>1, Invariance, PTL

\* Between operations last-start.json holds the outcome of the last operation
\* answered, whatever crashed in between, unless its last write failed.
THEOREM PersistedExact == Spec => []PersistedIsLastOutcome
<1>1. IInv => PersistedIsLastOutcome
  <2> SUFFICES ASSUME IInv, lifecycle = None, ~diskStale PROVE persisted = acked
    BY DEF PersistedIsLastOutcome
  <2>1. \A p \in Procs : pc[p] \notin InLifecycle
    BY ConstantsAssumption DEF IInv, LocksMatch, Procs
  <2>2. \A p \in Procs : ~Committing(p)
    BY <2>1 DEF Committing, InLifecycle, InStart
  <2> QED
    BY <2>2 DEF IInv, DiskInv
<1> QED
  BY <1>1, Invariance, PTL

\* A node disabled by the panel after its boot restore stays disabled across any
\* number of restarts, until a client starts a core.
THEOREM DisabledHolds == Spec => []DisabledOnceBooted
<1>1. IInv => DisabledOnceBooted
  <2> SUFFICES ASSUME IInv, disabled = "settled", lifecycle = None
               PROVE  persisted = None /\ \A c \in Cores : ~Serving(c)
    BY DEF DisabledOnceBooted, StaysDisabled
  <2>1. \A p \in Procs : pc[p] \notin InLifecycle
    BY ConstantsAssumption DEF IInv, LocksMatch, Procs
  <2>2. \A p \in Procs : pc[p] \notin MayRun
    BY <2>1 DEF MayRun, InLifecycle, InStart, HoldsMu
  <2> QED
    BY <2>2 DEF IInv, DisabledInv, Serving
<1> QED
  BY <1>1, Invariance, PTL
=============================================================================
