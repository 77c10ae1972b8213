---------------------------- MODULE GeodataLoader ----------------------------
(***************************************************************************)
(* internal/xray/geodata.go: a start downloads the geodata files its       *)
(* configuration names.  A pool of workers takes groups of assets, one     *)
(* group for each file, over an unbuffered channel; the assets of a group  *)
(* are alternative sources in the order configured.  A part of the list of *)
(* assets that keeps its order is the set of its positions in the list.    *)
(* The request may be cancelled at any time.                               *)
(***************************************************************************)
EXTENDS Artifact, Sequences, FiniteSets

CONSTANTS
  Geofiles,      \* names of files
  Assets,        \* the assets: each has a file and a source
  FileOf, BodyOf,
  Lists,         \* the lists of assets that configurations may have
  Stub,          \* the empty file left by a failed download
  Workers        \* geodataConcurrency goroutines

ASSUME GeodataAssumption ==
  /\ FileOf \in [Assets -> Geofiles] /\ BodyOf \in [Assets -> Bodies]
  /\ Lists \subseteq Seq(Assets) /\ Stub \notin Assets
  /\ None \notin Assets \cup {Stub, "got", "failed"}

VARIABLES
  files,       \* content of each file: None, Stub or the asset it is from
  list,        \* assets of the call under way
  groups,      \* the groups the producer has not offered yet
  phase,       \* of the producer: "idle", "offer", "wait" or "ended"
  cancelled,   \* is ctx done?
  worker,      \* the goroutines of the pool
  outcome      \* history: how the download at each position ended in this call, or None

geodataVars == <<files, list, groups, phase, cancelled, worker, outcome>>

\* "group" is what is left of the group a worker has taken, current asset first.
NoWorker == [pc |-> "gone", group |-> {}]

Lesser(m, n) == IF m < n THEN m ELSE n

\* The first of these positions.
Least(positions) == CHOOSE i \in positions : \A j \in positions : i <= j
After(positions) == positions \ {Least(positions)}

-----------------------------------------------------------------------------
(* Seeded faults: variants of the steps below, in the order in which they    *)
(* appear.  No specification uses them; the model checker must reject each.  *)

\* Every asset is a group of its own.
FaultGroups(assets) == {{i} : i \in 1..Len(assets)}

\* The producer does not heed the cancellation.
FaultCloseJobs ==
  /\ phase = "offer" /\ groups = {}
  /\ phase' = "wait"
  /\ UNCHANGED <<files, list, groups, cancelled, worker, outcome>>

\* The call returns without waiting for the workers.
FaultWaitWorkers ==
  /\ phase = "wait" /\ phase' = "ended"
  /\ UNCHANGED <<files, list, groups, cancelled, worker, outcome>>

-----------------------------------------------------------------------------
\* groupGeodataAssets: the assets of one file, in their order, are one group.
Group(assets, file) == {i \in 1..Len(assets) : FileOf[assets[i]] = file}
Groups(assets) == {Group(assets, FileOf[assets[i]]) : i \in 1..Len(assets)}

\* Groups are offered in the order in which their files appear first.
Upcoming == CHOOSE group \in groups : Least(UNION groups) \in group

GeodataInit ==
  /\ files = [f \in Geofiles |-> None] /\ list = <<>> /\ groups = {} /\ phase = "idle"
  /\ cancelled = FALSE /\ worker = [w \in Workers |-> NoWorker] /\ outcome = <<>>

\* No more goroutines than groups are started; which ones does not matter.
PrepareGeodata ==
  /\ phase = "idle"
  /\ \E assets \in Lists :
       /\ list' = assets /\ groups' = Groups(assets) /\ outcome' = [i \in 1..Len(assets) |-> None]
       /\ IF assets = <<>>
            THEN phase' = "ended" /\ UNCHANGED worker
            ELSE /\ phase' = "offer"
                 /\ \E pool \in SUBSET Workers :
                      /\ Cardinality(pool) = Lesser(Cardinality(Workers), Cardinality(groups'))
                      /\ worker' = [w \in Workers |->
                                      IF w \in pool THEN [NoWorker EXCEPT !.pc = "receive"] ELSE NoWorker]
  /\ UNCHANGED <<files, cancelled>>

-----------------------------------------------------------------------------
(* The producer *)

\* The channel is unbuffered: a worker that receives has the group at once.
Offer(w) ==
  /\ phase = "offer" /\ groups # {} /\ worker[w].pc = "receive"
  /\ worker' = [worker EXCEPT ![w] = [pc |-> "asset", group |-> Upcoming]]
  /\ groups' = groups \ {Upcoming}
  /\ UNCHANGED <<files, list, phase, cancelled, outcome>>

\* The channel is closed at the end of the groups, or when the request is cancelled.
CloseJobs ==
  /\ phase = "offer" /\ (groups = {} \/ cancelled)
  /\ phase' = "wait"
  /\ UNCHANGED <<files, list, groups, cancelled, worker, outcome>>

WaitWorkers ==
  /\ phase = "wait" /\ \A w \in Workers : worker[w].pc = "gone"
  /\ phase' = "ended"
  /\ UNCHANGED <<files, list, groups, cancelled, worker, outcome>>

-----------------------------------------------------------------------------
(* A worker: prepareAsset for each asset of its group. *)

SetWorker(w, label, group) == worker' = [worker EXCEPT ![w] = [pc |-> label, group |-> group]]

WorkerClosed(w) ==
  /\ worker[w].pc = "receive" /\ phase = "wait"
  /\ SetWorker(w, "gone", {})
  /\ UNCHANGED <<files, list, groups, phase, cancelled, outcome>>

\* The next asset of the group: not after a cancellation, and not for a file
\* that is there and not empty.
TakeAsset(w) ==
  /\ worker[w].pc = "asset"
  /\ LET group == worker[w].group IN
     \/ group = {} /\ SetWorker(w, "receive", {})
     \/ group # {} /\ cancelled /\ SetWorker(w, "gone", {})
     \/ /\ group # {} /\ ~cancelled
        /\ IF files[FileOf[list[Least(group)]]] \in {None, Stub}
             THEN SetWorker(w, "download", group)
             ELSE SetWorker(w, "asset", After(group))
  /\ UNCHANGED <<files, list, groups, phase, cancelled, outcome>>

\* Download ends with the rename of a whole file, or with an error.
DownloadAsset(w) ==
  /\ worker[w].pc = "download"
  /\ LET at == Least(worker[w].group)
         asset == list[at]
     IN  \E body \in Outcomes({BodyOf[asset]}, None) :
           \/ /\ body # None /\ ~cancelled
              /\ files' = [files EXCEPT ![FileOf[asset]] = asset]
              /\ SetWorker(w, "asset", After(worker[w].group))
              /\ outcome' = [outcome EXCEPT ![at] = "got"]
           \/ /\ body = None \/ cancelled
              /\ SetWorker(w, "stub", worker[w].group)
              /\ outcome' = [outcome EXCEPT ![at] = "failed"]
              /\ UNCHANGED files
  /\ UNCHANGED <<list, groups, phase, cancelled>>

\* The stub is created exclusively: a file that is there stays as it is.
LeaveStub(w) ==
  /\ worker[w].pc = "stub"
  /\ LET file == FileOf[list[Least(worker[w].group)]] IN
     files' = [files EXCEPT ![file] = IF files[file] = None THEN Stub ELSE files[file]]
  /\ SetWorker(w, "asset", After(worker[w].group))
  /\ UNCHANGED <<list, groups, phase, cancelled, outcome>>

Cancel ==
  /\ phase # "ended" /\ ~cancelled /\ cancelled' = TRUE
  /\ UNCHANGED <<files, list, groups, phase, worker, outcome>>

WorkerStep(w) == Offer(w) \/ WorkerClosed(w) \/ TakeAsset(w) \/ DownloadAsset(w) \/ LeaveStub(w)
GeodataStep == CloseJobs \/ WaitWorkers \/ \E w \in Workers : WorkerStep(w)

-----------------------------------------------------------------------------
(* Properties *)

\* The type invariant.
GeodataTypeOK ==
  /\ files \in [Geofiles -> Assets \cup {None, Stub}] /\ list \in Lists \cup {<<>>}
  /\ groups \subseteq SUBSET (1..Len(list)) /\ phase \in {"idle", "offer", "wait", "ended"}
  /\ cancelled \in BOOLEAN
  /\ worker \in [Workers -> [pc : {"gone", "receive", "asset", "download", "stub"},
                             group : SUBSET (1..Len(list))]]
  /\ \A w \in Workers : phase \in {"idle", "ended"} => worker[w].pc = "gone"
  /\ outcome \in [1..Len(list) -> {None, "got", "failed"}]

\* Two workers never have assets of one file: its sources are tried one after
\* the other, each only when all those before it in the configuration failed;
\* and a file that was downloaded is not replaced or emptied by another source.
SourcesInOrder ==
  /\ \A v, w \in Workers : v # w =>
       \A i \in worker[v].group, j \in worker[w].group : FileOf[list[i]] # FileOf[list[j]]
  /\ \A i, j \in 1..Len(list) :
       i < j /\ FileOf[list[i]] = FileOf[list[j]] /\ outcome[j] # None => outcome[i] = "failed"
  /\ \A i \in 1..Len(list) : outcome[i] = "got" => files[FileOf[list[i]]] = list[i]
=============================================================================
