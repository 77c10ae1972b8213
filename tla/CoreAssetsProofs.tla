-------------------------- MODULE CoreAssetsProofs --------------------------
(***************************************************************************)
(* Theorems of CoreAssets, for any bodies, URLs, lists and bounds.  About  *)
(* the core loader: the link never leads to a core that was not tried, and *)
(* a marker never fits a file it was not written for; both rest on one     *)
(* inductive invariant, CoreInv.  About the geodata pool: the sources of a *)
(* file are tried in order and by one worker; this rests on PoolInv.       *)
(***************************************************************************)
EXTENDS CoreAssets, WellFoundedInduction, TLAPS

Labels == {"idle", "unstage", "download", "try", "rename", "link", "mark",
           "relink", "unmark", "uncustom", "ended", "geodata"}

\* The steps of install, in which nothing but the staged file has changed, and
\* those in which the new core is in place.
Preparing == {"unstage", "download", "try", "rename"}
Placed == {"link", "mark"}

Preps == [pc : Labels, spec : Specs \cup {Absent, Invalid}, before : Bodies \cup {Stock, None},
          result : {None, "installed", "kept", "error"}]

Types == CoreTypeOK /\ prep \in Preps

\* Every custom core was tried, and what has been staged and tried will be.
Tried ==
  /\ custom # None => custom.body \in Runnable
  /\ link = "custom" => custom # None
  /\ prep.pc = "rename" => staged # None /\ staged.body \in Runnable

\* Modification times only grow, so that a marker with the time of the custom
\* core was written for it.
Times ==
  /\ custom # None => custom.mtime <= clock
  /\ marker # None => marker.mtime <= clock
  /\ marker # None /\ custom # None /\ marker.mtime = custom.mtime => marker.sha = custom.body

\* What install has in its hands: a file with the digest asked for, younger
\* than the others until it is in place.
Installing ==
  /\ prep.pc \in Preparing \cup Placed => prep.spec \in Specs
  /\ prep.pc \in {"try", "rename"} =>
       /\ staged # None /\ staged.body = prep.spec.sha /\ staged.mtime <= clock
       /\ custom # None => custom.mtime < staged.mtime
       /\ marker # None => marker.mtime < staged.mtime
  /\ prep.pc \in Placed => custom # None /\ custom.body = prep.spec.sha
  /\ prep.pc = "mark" => link = "custom"

\* What the link leads to at each label.
Leads ==
  /\ prep.pc \in Preparing \cup {"relink"} => Runs = prep.before
  /\ prep.pc = "link" => Runs \in {prep.before, prep.spec.sha}
  /\ prep.pc \in {"relink", "unmark", "uncustom"} => prep.spec = Absent /\ stock
  /\ prep.pc = "relink" => link = "custom"
  /\ prep.pc \in {"unmark", "uncustom"} => link = "stock"

\* What the call answers.
Answers ==
  prep.pc = "ended" =>
    /\ prep.result = "installed" => IsInstalled(prep.spec)
    /\ \/ Runs = prep.before
       \/ prep.spec \in Specs /\ Runs = prep.spec.sha
       \/ prep.spec = Absent /\ Runs = Stock

CoreInv == Types /\ Tried /\ Times /\ Installing /\ Leads /\ Answers

\* A step of the call to a label, with a result.
Moved(label, result) ==
  /\ prep' \in Preps /\ prep'.pc = label /\ prep'.result = result
  /\ prep'.spec = prep.spec /\ prep'.before = prep.before

-----------------------------------------------------------------------------
\* The fields of a call, and what a step does to them.
LEMMA PrepSteps ==
  ASSUME prep \in Preps
  PROVE  /\ \A label \in Labels : Step(label) => Moved(label, prep.result)
         /\ \A result \in {"installed", "kept", "error"} : End(result) => Moved("ended", result)
<1>1. ASSUME NEW label \in Labels, Step(label) PROVE Moved(label, prep.result)
  BY <1>1 DEF Step, Moved, Preps
<1>2. ASSUME NEW result \in {"installed", "kept", "error"}, End(result) PROVE Moved("ended", result)
  BY <1>2 DEF End, Moved, Preps, Labels
<1> QED BY <1>1, <1>2

\* The types of a step that moves the call.
LEMMA MovedTypes ==
  ASSUME NEW label, NEW result, Moved(label, result), clock' \in 0..MaxClock, mishaps' \in 0..MaxMishaps,
         link' \in {"stock", "custom", "file", "none"}, stock' \in BOOLEAN,
         custom' \in CoreFile \cup {None}, staged' \in CoreFile \cup {None}, marker' \in Marker \cup {None}
  PROVE  Types'
  BY DEF Moved, Types, CoreTypeOK, Preps, Labels

\* A failing operation is counted.
LEMMA MishapType == Types /\ (Mishap \/ UNCHANGED mishaps) => mishaps' \in 0..MaxMishaps
  BY CoreAssumption DEF Types, CoreTypeOK, Mishap

\* What a start would run depends on four variables.
LEMMA SameRuns == UNCHANGED <<link, stock, custom>> => Runs' = Runs
  BY DEF Runs

\* What a start would run is a body, stock or nothing.
LEMMA RunsType == Types => Runs \in Bodies \cup {Stock, None}
  BY DEF Types, CoreTypeOK, Runs, CoreFile

\* A core that passes for installed has the digest asked for.
LEMMA InstalledOK == Times => \A spec \in Specs : IsInstalled(spec) => custom.body = spec.sha
  BY DEF Times, IsInstalled

\* The two properties follow from the invariant.
LEMMA InvImplies == CoreInv => InstalledIsAsked /\ KeepsOrInstalls
  BY InstalledOK DEF CoreInv, Tried, Answers, InstalledIsAsked, KeepsOrInstalls

\* The invariant holds before the first start.
LEMMA InitInv == Init => CoreInv
<1> SUFFICES ASSUME Init PROVE CoreInv
  OBVIOUS
<1> USE CoreAssumption, ArtifactAssumption DEF Init, CoreInit, IdlePrep
<1>1. Types
  BY DEF Types, CoreTypeOK, Preps, Labels, CoreFile, Marker, Specs
<1>2. Tried /\ Times
  BY DEF Tried, Times, CoreFile, Specs
<1>3. Installing /\ Leads /\ Answers
  BY DEF Installing, Leads, Answers, Preparing, Placed
<1> QED BY <1>1, <1>2, <1>3 DEF CoreInv

\* The staged file of an earlier start goes.
LEMMA UnstageInv == CoreInv /\ Unstage => CoreInv'
<1> SUFFICES ASSUME CoreInv, Unstage PROVE CoreInv'
  OBVIOUS
<1>1. /\ UNCHANGED <<link, stock, custom, marker, clock>> /\ mishaps' \in 0..MaxMishaps
  /\ \/ Moved("download", prep.result) /\ staged' = None
     \/ Moved("ended", "kept") /\ UNCHANGED staged
  BY PrepSteps, MishapType DEF CoreInv, Types, Unstage, GiveUp, Labels
<1>2. Types'
  BY <1>1, MovedTypes, CoreAssumption DEF CoreInv, Types, CoreTypeOK, Unstage
<1>3. Tried' /\ Times'
  BY <1>1, <1>2 DEF CoreInv, Unstage, Moved, Tried, Times, Installing, Types, CoreTypeOK
<1>4. Installing' /\ Leads'
  BY <1>1, SameRuns DEF CoreInv, Unstage, Moved, Tried, Times, Installing, Leads, Preparing, Placed, Types, CoreTypeOK
<1>5. Answers'
  BY <1>1, SameRuns DEF CoreInv, Unstage, Moved, Tried, Installing, Leads, Answers, Preparing, Placed
<1> QED BY <1>2, <1>3, <1>4, <1>5 DEF CoreInv

\* The staged file is the youngest, and has the digest asked for.
LEMMA DownloadCoreInv == CoreInv /\ DownloadCore => CoreInv'
<1> SUFFICES ASSUME CoreInv, DownloadCore PROVE CoreInv'
  OBVIOUS
<1>1. /\ UNCHANGED <<link, stock, custom, marker>> /\ mishaps' \in 0..MaxMishaps
  /\ \/ /\ Moved("try", prep.result) /\ clock' = clock + 1 /\ clock < MaxClock
        /\ prep.spec.sha \in Bodies /\ staged' = [body |-> prep.spec.sha, mtime |-> clock + 1]
     \/ Moved("ended", "kept") /\ UNCHANGED <<staged, clock>>
  BY PrepSteps, MishapType, CoreAssumption, ArtifactAssumption DEF CoreInv, Types, DownloadCore, GiveUp, Labels, Outcomes, Installing, Preparing, Specs
<1>2. Types'
  BY <1>1, MovedTypes, CoreAssumption DEF CoreInv, Types, CoreTypeOK, CoreFile
<1>3. Tried' /\ Times'
  BY <1>1, <1>2 DEF CoreInv, DownloadCore, Moved, Tried, Times, Installing, Types, CoreTypeOK, CoreFile, Marker
<1>4. Installing' /\ Leads'
  BY <1>1, <1>2, SameRuns, CoreAssumption DEF CoreInv, DownloadCore, Moved, Tried, Times, Installing, Leads, Preparing, Placed, Types, CoreTypeOK, CoreFile, Marker
<1>5. Answers'
  BY <1>1, SameRuns DEF CoreInv, DownloadCore, Moved, Tried, Installing, Leads, Answers, Preparing, Placed
<1> QED BY <1>2, <1>3, <1>4, <1>5 DEF CoreInv

\* What does not answer "version" is not put in place.
LEMMA TryStagedInv == CoreInv /\ TryStaged => CoreInv'
<1> SUFFICES ASSUME CoreInv, TryStaged PROVE CoreInv'
  OBVIOUS
<1>1. /\ UNCHANGED <<link, stock, custom, marker, clock>> /\ mishaps' \in 0..MaxMishaps
  /\ \/ Moved("rename", prep.result) /\ staged.body \in Runnable /\ UNCHANGED staged
     \/ Moved("ended", "kept") /\ staged' = None
  BY PrepSteps, MishapType DEF CoreInv, Types, TryStaged, GiveUp, Labels
<1>2. Types'
  BY <1>1, MovedTypes, CoreAssumption DEF CoreInv, Types, CoreTypeOK, TryStaged
<1>3. Tried' /\ Times'
  BY <1>1, <1>2 DEF CoreInv, TryStaged, Moved, Tried, Times, Installing, Types, CoreTypeOK
<1>4. Installing' /\ Leads'
  BY <1>1, SameRuns DEF CoreInv, TryStaged, Moved, Tried, Times, Installing, Leads, Preparing, Placed, Types, CoreTypeOK
<1>5. Answers'
  BY <1>1, SameRuns DEF CoreInv, TryStaged, Moved, Tried, Installing, Leads, Answers, Preparing, Placed
<1> QED BY <1>2, <1>3, <1>4, <1>5 DEF CoreInv

\* The custom core is replaced: its marker, if there is one, is older.
LEMMA RenameStagedInv == CoreInv /\ RenameStaged => CoreInv'
<1> SUFFICES ASSUME CoreInv, RenameStaged PROVE CoreInv'
  OBVIOUS
<1>1. /\ UNCHANGED <<link, stock, marker, clock>> /\ mishaps' \in 0..MaxMishaps
  /\ \/ Moved("link", prep.result) /\ custom' = staged
     \/ Moved("ended", "kept") /\ UNCHANGED custom
  BY PrepSteps, MishapType DEF CoreInv, Types, RenameStaged, GiveUp, Labels
<1>2. Types'
  BY <1>1, MovedTypes, CoreAssumption DEF CoreInv, Types, CoreTypeOK, RenameStaged
<1>3. Tried' /\ Times'
  BY <1>1, <1>2 DEF CoreInv, RenameStaged, Moved, Tried, Times, Installing, Types, CoreTypeOK, CoreFile, Marker
<1>4. Installing' /\ Leads'
  BY <1>1, SameRuns DEF CoreInv, RenameStaged, Moved, Tried, Times, Installing, Leads, Preparing, Placed, Types, CoreTypeOK, Runs
<1>5. Answers'
  BY <1>1, SameRuns DEF CoreInv, RenameStaged, Moved, Tried, Installing, Leads, Answers, Preparing, Placed, Runs
<1> QED BY <1>2, <1>3, <1>4, <1>5 DEF CoreInv

\* The link is replaced by one to the new core.
LEMMA LinkCustomInv == CoreInv /\ LinkCustom => CoreInv'
<1> SUFFICES ASSUME CoreInv, LinkCustom PROVE CoreInv'
  OBVIOUS
<1>1. /\ UNCHANGED <<stock, custom, staged, marker, clock>> /\ mishaps' \in 0..MaxMishaps
  /\ \/ Moved("mark", prep.result) /\ link' = "custom"
     \/ Moved("ended", "kept") /\ UNCHANGED link
  BY PrepSteps, MishapType DEF CoreInv, Types, LinkCustom, GiveUp, Labels
<1>2. Types'
  BY <1>1, MovedTypes, CoreAssumption DEF CoreInv, Types, CoreTypeOK, LinkCustom
<1>3. Tried' /\ Times'
  BY <1>1, <1>2 DEF CoreInv, LinkCustom, Moved, Tried, Times, Installing, Placed, Types, CoreTypeOK
<1>4. Installing' /\ Leads'
  BY <1>1, SameRuns DEF CoreInv, LinkCustom, Moved, Tried, Times, Installing, Leads, Preparing, Placed, Types, CoreTypeOK, Runs
<1>5. Answers'
  BY <1>1, SameRuns DEF CoreInv, LinkCustom, Moved, Tried, Installing, Leads, Answers, Preparing, Placed, Runs
<1> QED BY <1>2, <1>3, <1>4, <1>5 DEF CoreInv

\* The marker is written for the core in place.
LEMMA WriteMarkerInv == CoreInv /\ WriteMarker => CoreInv'
<1> SUFFICES ASSUME CoreInv, WriteMarker PROVE CoreInv'
  OBVIOUS
<1>1. /\ UNCHANGED <<link, stock, custom, staged, clock>> /\ mishaps' \in 0..MaxMishaps
  /\ \/ /\ Moved("ended", "installed")
        /\ marker' = [url |-> prep.spec.url, sha |-> prep.spec.sha, size |-> SizeOf[custom.body], mtime |-> custom.mtime]
     \/ Moved("ended", "kept") /\ UNCHANGED marker
  BY PrepSteps, MishapType DEF CoreInv, Types, WriteMarker, GiveUp, Labels
<1>2. Types'
  BY <1>1, MovedTypes, CoreAssumption, ArtifactAssumption DEF CoreInv, Moved, Installing, Placed, CoreFile, Marker, Specs, Types, CoreTypeOK, WriteMarker
<1>3. Tried' /\ Times'
  BY <1>1, <1>2 DEF CoreInv, WriteMarker, Moved, Tried, Times, Installing, Placed, CoreFile, Types, CoreTypeOK
<1>4. Installing' /\ Leads'
  BY <1>1, SameRuns DEF CoreInv, WriteMarker, Moved, Tried, Times, Installing, Leads, Preparing, Placed, Types, CoreTypeOK, Runs
<1>5. Answers'
  <2>1. prep.pc = "mark" /\ custom # None /\ link = "custom" /\ custom.body = prep.spec.sha /\ prep.spec \in Specs
    BY DEF CoreInv, WriteMarker, Installing, Placed
  <2>2. Runs' = prep'.spec.sha \/ Runs' = prep'.before
    BY <1>1, <2>1, SameRuns DEF Moved, Runs
  <2>3. CASE prep'.result = "installed"
    <3>1. marker' # None
      BY <1>1, <2>1, <2>3, CoreAssumption, ArtifactAssumption
         DEF CoreInv, Types, CoreTypeOK, Moved, CoreFile, Marker, Specs
    <3>2. IsInstalled(prep.spec)'
      BY <1>1, <2>1, <2>3, <3>1 DEF IsInstalled, Moved
    <3> QED BY <1>1, <2>1, <2>2, <3>2 DEF Answers, Moved
  <2>4. CASE prep'.result # "installed"
    BY <1>1, <2>1, <2>2, <2>4 DEF Answers, Moved
  <2> QED BY <2>3, <2>4
<1> QED BY <1>2, <1>3, <1>4, <1>5 DEF CoreInv

\* Stock is linked before the rest is removed.
LEMMA LinkStockInv == CoreInv /\ LinkStock => CoreInv'
<1> SUFFICES ASSUME CoreInv, LinkStock PROVE CoreInv'
  OBVIOUS
<1>1. /\ UNCHANGED <<stock, custom, staged, marker, clock>> /\ mishaps' \in 0..MaxMishaps
  /\ \/ Moved("unmark", prep.result) /\ link' = "stock"
     \/ Moved("ended", "error") /\ UNCHANGED link
  BY PrepSteps, MishapType DEF CoreInv, Types, LinkStock, GiveUp, Labels
<1>2. Types'
  BY <1>1, MovedTypes, CoreAssumption DEF CoreInv, Types, CoreTypeOK, LinkStock
<1>3. Tried' /\ Times'
  BY <1>1, <1>2 DEF CoreInv, LinkStock, Moved, Tried, Times, Installing, Types, CoreTypeOK
<1>4. Installing' /\ Leads'
  BY <1>1, SameRuns DEF CoreInv, LinkStock, Moved, Tried, Times, Installing, Leads, Preparing, Placed, Types, CoreTypeOK, Runs
<1>5. Answers'
  BY <1>1, SameRuns DEF CoreInv, LinkStock, Moved, Tried, Installing, Leads, Answers, Preparing, Placed, Runs
<1> QED BY <1>2, <1>3, <1>4, <1>5 DEF CoreInv

\* No file, or the marker of the custom core, is left.
LEMMA RemoveMarkerInv == CoreInv /\ RemoveMarker => CoreInv'
<1> SUFFICES ASSUME CoreInv, RemoveMarker PROVE CoreInv'
  OBVIOUS
<1>1. /\ UNCHANGED <<link, stock, custom, staged, clock>> /\ mishaps' \in 0..MaxMishaps
  /\ \/ Moved("uncustom", prep.result) /\ marker' \in {marker, None}
  BY PrepSteps, MishapType DEF CoreInv, Types, RemoveMarker, GiveUp, Labels
<1>2. Types'
  BY <1>1, MovedTypes, CoreAssumption DEF CoreInv, Types, CoreTypeOK, RemoveMarker
<1>3. Tried' /\ Times'
  BY <1>1, <1>2 DEF CoreInv, RemoveMarker, Moved, Tried, Times, Installing, Types, CoreTypeOK
<1>4. Installing' /\ Leads'
  BY <1>1, SameRuns DEF CoreInv, RemoveMarker, Moved, Tried, Times, Installing, Leads, Preparing, Placed, Types, CoreTypeOK
<1>5. Answers'
  BY <1>1, SameRuns DEF CoreInv, RemoveMarker, Moved, Tried, Installing, Leads, Answers, Preparing, Placed
<1> QED BY <1>2, <1>3, <1>4, <1>5 DEF CoreInv

\* The link is not to what is removed.
LEMMA RemoveCustomInv == CoreInv /\ RemoveCustom => CoreInv'
<1> SUFFICES ASSUME CoreInv, RemoveCustom PROVE CoreInv'
  OBVIOUS
<1>1. /\ UNCHANGED <<link, stock, staged, marker, clock>> /\ mishaps' \in 0..MaxMishaps
  /\ \/ Moved("ended", "kept") /\ custom' \in {custom, None}
  BY PrepSteps, MishapType DEF CoreInv, Types, RemoveCustom, GiveUp, Labels
<1>2. Types'
  BY <1>1, MovedTypes, CoreAssumption DEF CoreInv, Types, CoreTypeOK, RemoveCustom
<1>3. Tried' /\ Times'
  BY <1>1, <1>2 DEF CoreInv, RemoveCustom, Moved, Tried, Times, Installing, Leads, Types, CoreTypeOK
<1>4. Installing' /\ Leads'
  BY <1>1, SameRuns DEF CoreInv, RemoveCustom, Moved, Tried, Times, Installing, Leads, Preparing, Placed, Types, CoreTypeOK, Runs
<1>5. Answers'
  BY <1>1, SameRuns DEF CoreInv, RemoveCustom, Moved, Tried, Installing, Leads, Answers, Preparing, Placed, Runs
<1> QED BY <1>2, <1>3, <1>4, <1>5 DEF CoreInv

\* A call starts: what is there stays, and is what was active before.
LEMMA PrepareInv == ASSUME NEW spec \in Specs \cup {Absent, Invalid}, CoreInv, Prepare(spec) PROVE CoreInv'
<1> DEFINE call == [IdlePrep EXCEPT !.spec = spec, !.before = Runs]
           Begun(label) == prep' = [call EXCEPT !.pc = label]
           Done(result) == prep' = [call EXCEPT !.pc = "ended", !.result = result]
<1>1. UNCHANGED <<link, stock, custom, staged, marker, clock, mishaps>>
  BY DEF Prepare
<1>2. /\ \A label \in Labels : Begun(label) =>
           prep' \in Preps /\ prep'.pc = label /\ prep'.spec = spec /\ prep'.before = Runs /\ prep'.result = None
      /\ \A result \in {"kept", "installed", "error"} : Done(result) =>
           /\ prep' \in Preps /\ prep'.pc = "ended" /\ prep'.spec = spec /\ prep'.before = Runs
           /\ prep'.result = result
  BY RunsType DEF CoreInv, IdlePrep, Preps, Labels
<1>3. \/ Done("kept") \/ Done("error")
      \/ spec \in Specs /\ IsInstalled(spec) /\ Done("installed")
      \/ spec = Absent /\ link = "custom" /\ stock /\ Begun("relink")
      \/ spec \in Specs /\ Begun("unstage")
  BY DEF Prepare
<1> HIDE DEF call, Begun, Done
<1>4. /\ prep' \in Preps /\ prep'.spec = spec /\ prep'.before = Runs
      /\ \/ prep'.pc = "ended" /\ prep'.result # "installed"
         \/ prep'.pc = "ended" /\ IsInstalled(spec)
         \/ prep'.pc = "relink" /\ spec = Absent /\ link = "custom" /\ stock
         \/ prep'.pc = "unstage" /\ spec \in Specs
  BY <1>2, <1>3 DEF Labels
<1>5. Types'
  BY <1>1, <1>4 DEF CoreInv, Types, CoreTypeOK, Preps, Labels
<1>6. Tried' /\ Times'
  BY <1>1, <1>4 DEF CoreInv, Tried, Times
<1>7. Installing' /\ Leads'
  BY <1>1, <1>4, SameRuns DEF Installing, Leads, Preparing, Placed
<1>8. Answers'
  BY <1>1, <1>4, SameRuns DEF Answers, IsInstalled
<1> QED BY <1>5, <1>6, <1>7, <1>8 DEF CoreInv

\* The end of a start, its geodata and the death of the node leave every file
\* of the core as it is.
LEMMA LeavesInv ==
  ASSUME CoreInv, UNCHANGED <<link, stock, custom, staged, marker, clock>>, mishaps' \in 0..MaxMishaps,
         prep' \in {IdlePrep, [IdlePrep EXCEPT !.pc = "geodata"]}
  PROVE  CoreInv'
<1>1. prep' \in Preps /\ prep'.pc \in {"idle", "geodata"}
  BY DEF IdlePrep, Preps, Labels
<1>2. Types'
  BY <1>1 DEF CoreInv, Types, CoreTypeOK, Preps, Labels
<1>3. Tried' /\ Times'
  BY <1>1 DEF CoreInv, Tried, Times
<1>4. Installing' /\ Leads' /\ Answers'
  BY <1>1 DEF Installing, Leads, Answers, Preparing, Placed
<1> QED BY <1>2, <1>3, <1>4 DEF CoreInv

\* Steps of the geodata loader, and steps that change nothing.
LEMMA FrameInv == CoreInv /\ UNCHANGED coreVars => CoreInv'
<1> SUFFICES ASSUME CoreInv, UNCHANGED coreVars PROVE CoreInv'
  OBVIOUS
<1>1. Types' /\ Tried' /\ Times'
  BY DEF CoreInv, coreVars, Types, CoreTypeOK, Tried, Times
<1>2. Installing' /\ Leads' /\ Answers'
  BY SameRuns DEF CoreInv, coreVars, Installing, Leads, Answers, IsInstalled
<1> QED BY <1>1, <1>2 DEF CoreInv

\* Every step preserves the invariant.
LEMMA NextInv == CoreInv /\ [Next]_vars => CoreInv'
<1> SUFFICES ASSUME CoreInv, [Next]_vars PROVE CoreInv'
  OBVIOUS
<1>0. mishaps \in 0..MaxMishaps
  BY DEF CoreInv, Types, CoreTypeOK
<1>1. CASE Start
  BY <1>1, PrepareInv DEF Start
<1>2. CASE Work
  <2>1. CASE CoreStep
    BY <2>1, UnstageInv, DownloadCoreInv, TryStagedInv, RenameStagedInv, LinkCustomInv, WriteMarkerInv,
       LinkStockInv, RemoveMarkerInv, RemoveCustomInv DEF CoreStep
  <2>2. CASE GeodataStep /\ UNCHANGED <<coreVars, starts>>
    BY <2>2, FrameInv
  <2>3. CASE Refused \/ Finish \/ Geodata
    BY <1>0, <2>3, LeavesInv DEF Refused, Finish, Geodata, Rest
  <2> QED BY <1>2, <2>1, <2>2, <2>3 DEF Work
<1>3. CASE CancelStart
  BY <1>3, FrameInv DEF CancelStart
<1>4. CASE NodeDies
  <2>1. mishaps' \in 0..MaxMishaps
    BY <1>4, MishapType DEF NodeDies, CoreInv
  <2> QED BY <1>4, <2>1, LeavesInv DEF NodeDies, Rest
<1>5. CASE UNCHANGED vars
  BY <1>5, FrameInv DEF vars
<1> QED BY <1>1, <1>2, <1>3, <1>4, <1>5 DEF Next

\* The invariant holds in every state.
THEOREM Invariant == Spec => []CoreInv
<1>1. Init => CoreInv
  BY InitInv
<1>2. CoreInv /\ [Next]_vars => CoreInv'
  BY NextInv
<1> QED BY <1>1, <1>2, PTL DEF Spec

\* The link never leads to a core that is missing or was not tried, whichever
\* step failed and wherever the node died, and a start runs what it asked for,
\* what was active before or stock.
THEOREM AlwaysRunnable == Spec => []KeepsOrInstalls
<1>1. CoreInv => KeepsOrInstalls
  BY InvImplies
<1> QED BY <1>1, Invariant, PTL

\* A core that passes for installed is the one asked for, after any sequence of
\* installations, restorations, failures and kills.
THEOREM InstalledIsTrue == Spec => []InstalledIsAsked
<1>1. CoreInv => InstalledIsAsked
  BY InvImplies
<1> QED BY <1>1, Invariant, PTL
-----------------------------------------------------------------------------
(* The geodata pool. *)

\* The positions of the list, and the file of each.
Positions == 1..Len(list)
FileAt(i) == FileOf[list[i]]

\* A waiting group is all of a file that nobody has tried yet.
Waiting ==
  \A part \in groups :
    /\ part # {} /\ part \subseteq Positions
    /\ \A i \in part : \A j \in Positions : j \in part <=> FileAt(j) = FileAt(i)
    /\ \A i \in part : outcome[i] = None

\* A worker has the rest of a group.  The sources before its own failed, unless
\* the file is there.
Working(w) ==
  LET group == worker[w].group IN
  /\ \A i \in group : FileAt(i) = FileAt(Least(group)) /\ i \notin UNION groups
  /\ \A j \in Positions : group # {} /\ FileAt(j) = FileAt(Least(group)) =>
       \/ j \in group
       \/ /\ j < Least(group)
          /\ outcome[j] = "failed" \/ files[FileAt(j)] \notin {None, Stub}
  /\ worker[w].pc \in {"gone", "receive"} => group = {}
  /\ worker[w].pc \in {"download", "stub"} => group # {}
  /\ worker[w].pc = "download" => files[FileAt(Least(group))] \in {None, Stub}
  /\ worker[w].pc = "stub" => outcome[Least(group)] = "failed"
  /\ \A i \in group : outcome[i] = None \/ (worker[w].pc = "stub" /\ i = Least(group))

\* The inductive invariant of the pool.
PoolInv ==
  /\ GeodataTypeOK /\ Waiting /\ (\A w \in Workers : Working(w)) /\ SourcesInOrder

\* Every set of numbers that is not empty has a least one.
LEMMA LeastExists ==
  ASSUME NEW S \in SUBSET Nat, S # {}
  PROVE  \E m \in S : \A k \in S : m <= k
<1> DEFINE R == {ss \in Nat \X Nat : ss[1] < ss[2]}
<1>1. OpToRel(<, Nat) = R
  BY DEF OpToRel
<1>2. IsWellFoundedOn(R, Nat)
  BY <1>1, NatLessThanWellFounded
<1>3. PICK m \in S : \A k \in S : ~(<<k, m>> \in R)
  <2> HIDE DEF R
  <2> QED
    BY <1>2, WFMin
<1>4. \A k \in S : m <= k
  <2> SUFFICES ASSUME NEW k \in S PROVE m <= k
    OBVIOUS
  <2>1. k \in Nat /\ m \in Nat
    OBVIOUS
  <2>2. <<k, m>> \notin R
    BY <1>3
  <2> QED
    BY <2>1, <2>2
<1> QED
  BY <1>4

\* The first position of a part of the list is one of its positions.
LEMMA LeastIsFirst ==
  ASSUME NEW S \in SUBSET Nat, S # {}
  PROVE  Least(S) \in S /\ \A k \in S : Least(S) <= k
  BY LeastExists DEF Least

\* The first position of what a worker has left.
LEMMA FirstOfGroup ==
  ASSUME GeodataTypeOK, NEW w \in Workers, worker[w].group # {}
  PROVE  /\ Least(worker[w].group) \in worker[w].group
         /\ Least(worker[w].group) \in Positions
         /\ worker[w].group \subseteq Positions
         /\ \A k \in worker[w].group : Least(worker[w].group) <= k
<1>1. worker[w].group \in SUBSET Positions
  BY DEF GeodataTypeOK, Positions
<1>2. worker[w].group \in SUBSET Nat
  BY <1>1 DEF Positions
<1> QED
  BY <1>1, <1>2, LeastIsFirst

\* The group offered next is one of those that wait.
LEMMA UpcomingWaits ==
  ASSUME Waiting, groups # {}
  PROVE  Upcoming \in groups
<1>1. UNION groups # {} /\ UNION groups \in SUBSET Nat
  BY DEF Waiting, Positions
<1>2. Least(UNION groups) \in UNION groups
  BY <1>1, LeastIsFirst
<1> QED
  BY <1>2 DEF Upcoming

\* A step of one worker replaces its record.
LEMMA SetWorkerSteps ==
  ASSUME GeodataTypeOK, NEW w \in Workers, NEW group \in SUBSET Positions,
         NEW label \in {"gone", "receive", "asset", "download", "stub"}, SetWorker(w, label, group)
  PROVE  /\ worker' \in [Workers -> [pc : {"gone", "receive", "asset", "download", "stub"},
                                    group : SUBSET Positions]]
         /\ worker'[w].pc = label /\ worker'[w].group = group
         /\ \A v \in Workers : v # w => worker'[v] = worker[v]
  BY DEF GeodataTypeOK, SetWorker, Positions

\* A worker is not disturbed by what happens to other files and groups.
LEMMA Undisturbed ==
  ASSUME GeodataTypeOK, NEW w \in Workers, Working(w), worker'[w] = worker[w], list' = list,
         groups' \subseteq groups,
         \A j \in Positions :
           worker[w].group # {} /\ FileAt(j) = FileAt(Least(worker[w].group)) =>
             outcome'[j] = outcome[j] /\ files'[FileAt(j)] = files[FileAt(j)]
  PROVE  Working(w)'
<1> DEFINE g == worker[w].group
<1>1. CASE g = {}
  BY <1>1 DEF Working
<1>2. CASE g # {}
  <2>1. Least(g) \in g /\ Least(g) \in Positions /\ g \subseteq Positions
    BY <1>2, FirstOfGroup
  <2>2. \A i : FileAt(i)' = FileAt(i)
    BY DEF FileAt
  <2>3. Positions' = Positions
    BY DEF Positions
  <2>4. \A i \in g : FileAt(i) = FileAt(Least(g)) /\ i \notin UNION groups'
    BY DEF Working
  <2>5. \A j \in Positions : FileAt(j) = FileAt(Least(g)) =>
          \/ j \in g
          \/ /\ j < Least(g)
             /\ outcome'[j] = "failed" \/ files'[FileAt(j)] \notin {None, Stub}
    BY <1>2 DEF Working
  <2>6. files'[FileAt(Least(g))] = files[FileAt(Least(g))] /\ outcome'[Least(g)] = outcome[Least(g)]
    BY <1>2, <2>1
  <2>7. \A i \in g : outcome'[i] = outcome[i]
    BY <1>2, <2>1, <2>4
  <2>8. /\ worker[w].pc \notin {"gone", "receive"}
        /\ worker[w].pc = "download" => files'[FileAt(Least(g))] \in {None, Stub}
        /\ worker[w].pc = "stub" => outcome'[Least(g)] = "failed"
        /\ \A i \in g : outcome'[i] = None \/ (worker[w].pc = "stub" /\ i = Least(g))
    BY <1>2, <2>6, <2>7 DEF Working
  <2> QED
    BY <1>2, <2>2, <2>3, <2>4, <2>5, <2>8 DEF Working
<1> QED
  BY <1>1, <1>2

\* Two workers never have assets of one file.
Apart ==
  \A v, w \in Workers : v # w =>
    \A i \in worker[v].group, j \in worker[w].group : FileAt(i) # FileAt(j)

\* The downloads of a file are tried in the order of its sources.
Ordered ==
  /\ \A i, j \in Positions :
       i < j /\ FileAt(i) = FileAt(j) /\ outcome[j] # None => outcome[i] = "failed"
  /\ \A i \in Positions : outcome[i] = "got" => files[FileAt(i)] = list[i]

\* The parts of the property.
LEMMA OrderParts == SourcesInOrder <=> Apart /\ Ordered
  BY DEF SourcesInOrder, Apart, Ordered, Positions, FileAt

\* A pool that holds no group and has tried nothing.
LEMMA PoolRests ==
  ASSUME GeodataTypeOK', Waiting',
         \A w \in Workers : worker'[w].group = {} /\ worker'[w].pc \in {"gone", "receive"},
         \A i \in Positions' : outcome'[i] = None
  PROVE  PoolInv'
<1>1. Apart'
  BY DEF Apart
<1>2. Ordered'
  BY GeodataAssumption DEF Ordered
<1>3. ASSUME NEW w \in Workers PROVE Working(w)'
  BY DEF Working
<1>4. SourcesInOrder'
  BY <1>1, <1>2, OrderParts, PTL
<1> QED
  BY <1>3, <1>4 DEF PoolInv

\* The pool before the first start.
LEMMA InitPool == Init => PoolInv
<1> SUFFICES ASSUME Init PROVE PoolInv
  OBVIOUS
<1> USE GeodataAssumption DEF Init, GeodataInit, NoWorker
<1>1. list = <<>> /\ Positions = {} /\ Len(list) = 0
  BY DEF Positions
<1>2. GeodataTypeOK
  <2>1. outcome \in [1..Len(list) -> {None, "got", "failed"}]
    BY <1>1
  <2>2. worker \in [Workers -> [pc : {"gone", "receive", "asset", "download", "stub"},
                               group : SUBSET (1..Len(list))]]
    OBVIOUS
  <2> QED
    BY <1>1, <2>1, <2>2 DEF GeodataTypeOK
<1>3. Waiting /\ SourcesInOrder
  BY <1>1 DEF Waiting, SourcesInOrder
<1>4. ASSUME NEW w \in Workers PROVE Working(w)
  BY <1>1 DEF Working
<1> QED
  BY <1>2, <1>3, <1>4 DEF PoolInv

\* A call groups the assets of its configuration.
LEMMA PrepareGeodataPool == PoolInv /\ PrepareGeodata => PoolInv'
<1> SUFFICES ASSUME PoolInv, PrepareGeodata PROVE PoolInv'
  OBVIOUS
<1>1. PICK assets \in Lists :
        /\ list' = assets /\ groups' = Groups(assets) /\ outcome' = [i \in 1..Len(assets) |-> None]
        /\ phase' \in {"ended", "offer"}
        /\ phase' = "ended" => UNCHANGED worker
        /\ phase' = "offer" => \E pool \in SUBSET Workers :
              worker' = [w \in Workers |->
                           IF w \in pool THEN [NoWorker EXCEPT !.pc = "receive"] ELSE NoWorker]
  BY DEF PrepareGeodata
<1>2. assets \in Seq(Assets) /\ Len(assets) \in Nat
  BY GeodataAssumption
<1>3. Positions' = 1..Len(assets) /\ \A i : FileAt(i)' = FileOf[assets[i]]
  BY <1>1 DEF Positions, FileAt
<1>4. phase = "idle" /\ UNCHANGED <<files, cancelled>>
  BY DEF PrepareGeodata
<1>5. /\ worker' \in [Workers -> [pc : {"gone", "receive"}, group : {{}}]]
      /\ phase' = "ended" => \A w \in Workers : worker'[w].pc = "gone"
  <2>1. CASE phase' = "ended"
    <3>1. \A w \in Workers : worker[w].group = {} /\ worker[w].pc = "gone"
      BY <1>4 DEF PoolInv, GeodataTypeOK, Working
    <3>2. worker \in [Workers -> [pc : {"gone"}, group : {{}}]]
      BY <3>1 DEF PoolInv, GeodataTypeOK
    <3> QED
      BY <1>1, <2>1, <3>1, <3>2
  <2>2. CASE phase' = "offer"
    BY <1>1, <2>2 DEF NoWorker
  <2> QED
    BY <1>1, <2>1, <2>2
<1>6. groups' \subseteq SUBSET (1..Len(assets))
  BY <1>1 DEF Groups, Group
<1>7. GeodataTypeOK'
  <2>1. worker' \in [Workers -> [pc : {"gone", "receive", "asset", "download", "stub"},
                                group : SUBSET (1..Len(list'))]]
    BY <1>5
  <2>2. outcome' \in [1..Len(list') -> {None, "got", "failed"}]
    BY <1>1
  <2> QED
    BY <1>1, <1>4, <1>5, <1>6, <2>1, <2>2 DEF PoolInv, GeodataTypeOK
<1>8. Waiting'
  <2> SUFFICES ASSUME NEW part \in groups'
               PROVE  /\ part # {} /\ part \subseteq Positions'
                      /\ \A i \in part : \A j \in Positions' : j \in part <=> FileAt(j)' = FileAt(i)'
                      /\ \A i \in part : outcome'[i] = None
    BY DEF Waiting
  <2>1. PICK k \in 1..Len(assets) : part = Group(assets, FileOf[assets[k]])
    BY <1>1 DEF Groups
  <2>2. part = {i \in 1..Len(assets) : FileOf[assets[i]] = FileOf[assets[k]]}
    BY <2>1 DEF Group
  <2> QED
    BY <1>1, <1>3, <2>2
<1> QED
  BY <1>1, <1>3, <1>5, <1>7, <1>8, PoolRests

\* The producer and the request move without touching groups or files.
LEMMA FramePool ==
  ASSUME PoolInv, UNCHANGED <<files, list, groups, worker, outcome>>,
         phase' \in {"idle", "offer", "wait", "ended"}, cancelled' \in BOOLEAN,
         phase' \in {"idle", "ended"} => \A w \in Workers : worker[w].pc = "gone"
  PROVE  PoolInv'
<1>1. GeodataTypeOK'
  BY DEF PoolInv, GeodataTypeOK
<1>2. Waiting' /\ SourcesInOrder'
  BY DEF PoolInv, Waiting, SourcesInOrder, Positions, FileAt
<1>3. ASSUME NEW w \in Workers PROVE Working(w)'
  BY DEF PoolInv, Working, Positions, FileAt
<1> QED
  BY <1>1, <1>2, <1>3 DEF PoolInv

\* A worker gets the next group.
LEMMA OfferPool == ASSUME PoolInv, NEW w \in Workers, Offer(w) PROVE PoolInv'
<1> DEFINE g == Upcoming
<1>1. /\ UNCHANGED <<files, list, phase, cancelled, outcome>> /\ groups' = groups \ {g}
      /\ phase = "offer" /\ worker[w].pc = "receive" /\ groups # {}
  BY DEF Offer
<1>2. g \in groups /\ g # {} /\ g \in SUBSET Positions /\ Positions' = Positions
  BY <1>1, UpcomingWaits DEF PoolInv, Waiting, Positions
<1>3. /\ \A i \in g : \A j \in Positions : j \in g <=> FileAt(j) = FileAt(i)
      /\ \A i \in g : outcome[i] = None
  BY <1>2 DEF PoolInv, Waiting
<1>4. SetWorker(w, "asset", g)
  BY DEF Offer, SetWorker
<1> HIDE DEF g
<1>5. /\ worker' \in [Workers -> [pc : {"gone", "receive", "asset", "download", "stub"},
                                 group : SUBSET Positions]]
      /\ worker'[w].pc = "asset" /\ worker'[w].group = g
      /\ \A v \in Workers : v # w => worker'[v] = worker[v]
  BY <1>2, <1>4, SetWorkerSteps DEF PoolInv
<1>6. GeodataTypeOK'
  BY <1>1, <1>2, <1>5 DEF PoolInv, GeodataTypeOK, Positions
<1>7. \A i : FileAt(i)' = FileAt(i)
  BY <1>1 DEF FileAt
<1>8. Waiting'
  BY <1>1, <1>2, <1>7 DEF PoolInv, Waiting
<1>9. Least(g) \in g /\ \A k \in g : Least(g) <= k
  BY <1>2, LeastIsFirst DEF Positions
<1>10. ASSUME NEW part \in groups, part # g PROVE part \cap g = {}
  BY <1>2, <1>3, <1>10 DEF PoolInv, Waiting
<1>11. Working(w)'
  BY <1>1, <1>2, <1>3, <1>5, <1>7, <1>9, <1>10 DEF Working
<1>12. ASSUME NEW v \in Workers, v # w PROVE Working(v)'
  BY <1>1, <1>5, <1>12, Undisturbed DEF PoolInv
<1>13. Apart'
  <2>1. ASSUME NEW v \in Workers, v # w, NEW i \in worker[v].group, NEW j \in g
        PROVE  FileAt(i) # FileAt(j)
    <3>1. i \notin g /\ i \in Positions /\ j \in Positions
      BY <1>2, <2>1 DEF PoolInv, Working, GeodataTypeOK, Positions
    <3> QED
      BY <3>1, <1>3
  <2>2. Apart
    BY OrderParts DEF PoolInv
  <2> QED
    BY <1>5, <1>7, <2>1, <2>2 DEF Apart
<1>14. Ordered
  BY OrderParts DEF PoolInv
<1>15. Ordered'
  BY <1>1, <1>2, <1>7, <1>14 DEF Ordered
<1>16. SourcesInOrder'
  BY <1>13, <1>15, OrderParts, PTL
<1> QED
  BY <1>6, <1>8, <1>11, <1>12, <1>16 DEF PoolInv

\* What a step of a worker on its own group leaves to show: its own part.
LEMMA WorkerPool ==
  ASSUME PoolInv, NEW w \in Workers, NEW group \in SUBSET worker[w].group,
         NEW label \in {"gone", "receive", "asset", "download", "stub"},
         SetWorker(w, label, group), UNCHANGED <<list, groups, phase, cancelled>>,
         label = "gone" \/ phase \notin {"idle", "ended"},
         files' \in [Geofiles -> Assets \cup {None, Stub}],
         outcome' \in [Positions -> {None, "got", "failed"}],
         \A j \in Positions : j \notin worker[w].group => outcome'[j] = outcome[j],
         \A j \in Positions : (\A i \in worker[w].group : FileAt(j) # FileAt(i)) =>
                                 files'[FileAt(j)] = files[FileAt(j)],
         Ordered', Working(w)'
  PROVE  PoolInv'
<1> DEFINE g == worker[w].group
<1>1. g \in SUBSET Positions /\ group \in SUBSET Positions /\ Positions' = Positions
  BY DEF PoolInv, GeodataTypeOK, Positions
<1>2. \A i : FileAt(i)' = FileAt(i)
  BY DEF FileAt
<1>3. /\ worker' \in [Workers -> [pc : {"gone", "receive", "asset", "download", "stub"},
                                 group : SUBSET Positions]]
      /\ worker'[w].pc = label /\ worker'[w].group = group
      /\ \A v \in Workers : v # w => worker'[v] = worker[v]
  BY <1>1, SetWorkerSteps DEF PoolInv
<1>4. GeodataTypeOK'
  BY <1>1, <1>3 DEF PoolInv, GeodataTypeOK, Positions
<1>5. Apart
  BY OrderParts DEF PoolInv
<1>6. Apart'
  BY <1>2, <1>3, <1>5 DEF Apart
<1>7. Waiting'
  <2>1. ASSUME NEW part \in groups, NEW i \in part PROVE outcome'[i] = None
    <3>1. outcome[i] = None /\ i \in Positions
      BY <2>1 DEF PoolInv, Waiting
    <3>2. i \notin g
      BY <2>1 DEF PoolInv, Working
    <3> QED
      BY <3>1, <3>2
  <2> QED
    BY <1>1, <1>2, <2>1 DEF PoolInv, Waiting
<1>8. ASSUME NEW v \in Workers, v # w PROVE Working(v)'
  <2>1. ASSUME NEW j \in Positions, worker[v].group # {},
               FileAt(j) = FileAt(Least(worker[v].group))
        PROVE  outcome'[j] = outcome[j] /\ files'[FileAt(j)] = files[FileAt(j)]
    <3>1. Least(worker[v].group) \in worker[v].group
      BY <2>1, FirstOfGroup DEF PoolInv
    <3>2. \A i \in g : FileAt(j) # FileAt(i)
      BY <1>5, <1>8, <2>1, <3>1 DEF Apart
    <3> QED
      BY <3>2
  <2>2. worker'[v] = worker[v] /\ Working(v)
    BY <1>3, <1>8 DEF PoolInv
  <2> QED
    BY <2>1, <2>2, Undisturbed DEF PoolInv
<1>9. SourcesInOrder'
  BY <1>6, OrderParts, PTL
<1> QED
  BY <1>4, <1>7, <1>8, <1>9 DEF PoolInv

\* A worker that has a group, or asks for one, belongs to a call under way.
LEMMA UnderWay ==
  ASSUME GeodataTypeOK, NEW w \in Workers, worker[w].pc # "gone"
  PROVE  phase \notin {"idle", "ended"}
  BY DEF GeodataTypeOK

\* What a worker has left once its first asset is done.
LEMMA AfterFirst ==
  ASSUME PoolInv, NEW w \in Workers, worker[w].group # {},
         SetWorker(w, "asset", After(worker[w].group)), UNCHANGED <<list, groups>>,
         NEW at, at = Least(worker[w].group),
         outcome'[at] = "failed" \/ files'[FileAt(at)] \notin {None, Stub},
         \A j \in Positions : j # at => outcome'[j] = outcome[j],
         files'[FileAt(at)] = files[FileAt(at)] \/ files'[FileAt(at)] \notin {None, Stub}
           \/ \A j \in Positions : j < at /\ FileAt(j) = FileAt(at) => outcome[j] = "failed"
  PROVE  Working(w)'
<1> DEFINE g == worker[w].group
           r == After(g)
<1>1. /\ at \in g /\ at \in Positions /\ g \subseteq Positions
      /\ \A k \in g : at <= k
  BY FirstOfGroup DEF PoolInv
<1>2. r = g \ {at}
  BY DEF After
<1>3. worker'[w].pc = "asset" /\ worker'[w].group = r
  BY <1>1, <1>2, SetWorkerSteps DEF PoolInv
<1>4. Positions' = Positions /\ \A i : FileAt(i)' = FileAt(i)
  BY DEF Positions, FileAt
<1>5. /\ \A i \in g : FileAt(i) = FileAt(at) /\ i \notin UNION groups
      /\ \A j \in Positions : FileAt(j) = FileAt(at) =>
           \/ j \in g
           \/ /\ j < at
              /\ outcome[j] = "failed" \/ files[FileAt(j)] \notin {None, Stub}
      /\ \A i \in g : outcome[i] = None \/ i = at
  BY DEF PoolInv, Working
<1>6. \A i \in r : outcome'[i] = None
  BY <1>1, <1>2, <1>5
<1>7. ASSUME NEW j \in Positions, r # {}, FileAt(j) = FileAt(Least(r))
      PROVE  \/ j \in r
             \/ /\ j < Least(r)
                /\ outcome'[j] = "failed" \/ files'[FileAt(j)] \notin {None, Stub}
  <2>1. Least(r) \in r
    <3>1. r \in SUBSET Nat
      BY <1>1, <1>2 DEF Positions
    <3> QED
      BY <1>7, <3>1, LeastIsFirst
  <2>2. Least(r) \in g /\ Least(r) # at
    BY <1>2, <2>1
  <2>3. FileAt(j) = FileAt(at)
    BY <1>5, <1>7, <2>2
  <2>4. at < Least(r) /\ j \in Nat /\ at \in Nat /\ Least(r) \in Nat
    <3>1. at \in Nat /\ Least(r) \in Nat /\ j \in Nat
      BY <1>1, <2>2 DEF Positions
    <3>2. at <= Least(r)
      BY <1>1, <2>2
    <3> QED
      BY <2>2, <3>1, <3>2
  <2>5. CASE j = at
    BY <2>4, <2>5
  <2>6. CASE j \in g /\ j # at
    BY <1>2, <2>6
  <2>7. CASE j \notin g
    <3>1. j < at /\ j # at
      BY <1>1, <1>5, <2>3, <2>4, <2>7
    <3>2. j < Least(r)
      BY <2>4, <3>1
    <3>3. outcome[j] = "failed" \/ files[FileAt(at)] \notin {None, Stub}
      BY <1>5, <2>3, <2>7
    <3>4. outcome'[j] = outcome[j]
      BY <3>1
    <3> QED
      BY <2>3, <3>1, <3>2, <3>3, <3>4
  <2> QED
    BY <2>5, <2>6, <2>7
<1>8. \A i \in r : FileAt(i) = FileAt(Least(r)) /\ i \notin UNION groups
  <2> SUFFICES ASSUME NEW i \in r PROVE FileAt(i) = FileAt(Least(r)) /\ i \notin UNION groups
    OBVIOUS
  <2>1. r \in SUBSET Nat /\ r # {}
    BY <1>1, <1>2 DEF Positions
  <2>2. Least(r) \in r
    BY <2>1, LeastIsFirst
  <2> QED
    BY <1>2, <1>5, <2>2
<1> HIDE DEF r
<1> QED
  BY <1>3, <1>4, <1>6, <1>7, <1>8 DEF Working

\* The channel is closed.
LEMMA WorkerClosedPool == ASSUME PoolInv, NEW w \in Workers, WorkerClosed(w) PROVE PoolInv'
<1>1. /\ SetWorker(w, "gone", {}) /\ UNCHANGED <<files, list, groups, phase, cancelled, outcome>>
  BY DEF WorkerClosed
<1>2. worker'[w].pc = "gone" /\ worker'[w].group = {}
  BY <1>1, SetWorkerSteps DEF PoolInv
<1>3. Working(w)'
  BY <1>2 DEF Working
<1>4. Ordered
  BY OrderParts DEF PoolInv
<1>5. Ordered'
  BY <1>1, <1>4 DEF Ordered, Positions, FileAt
<1>6. files \in [Geofiles -> Assets \cup {None, Stub}] /\ outcome \in [Positions -> {None, "got", "failed"}]
  BY DEF PoolInv, GeodataTypeOK, Positions
<1> QED
  BY <1>1, <1>3, <1>5, <1>6, WorkerPool

\* A worker looks at its next asset.
LEMMA TakeAssetPool == ASSUME PoolInv, NEW w \in Workers, TakeAsset(w) PROVE PoolInv'
<1> DEFINE g == worker[w].group
           at == Least(g)
<1>1. /\ worker[w].pc = "asset" /\ UNCHANGED <<files, list, groups, phase, cancelled, outcome>>
      /\ \/ g = {} /\ SetWorker(w, "receive", {})
         \/ g # {} /\ SetWorker(w, "gone", {})
         \/ g # {} /\ files[FileOf[list[at]]] \in {None, Stub} /\ SetWorker(w, "download", g)
         \/ g # {} /\ files[FileOf[list[at]]] \notin {None, Stub} /\ SetWorker(w, "asset", After(g))
  BY DEF TakeAsset
<1>2. Ordered /\ g \in SUBSET Positions
  BY OrderParts DEF PoolInv, GeodataTypeOK, Positions
<1>3. /\ Ordered'
      /\ files' \in [Geofiles -> Assets \cup {None, Stub}]
      /\ outcome' \in [Positions -> {None, "got", "failed"}]
  BY <1>1, <1>2 DEF Ordered, PoolInv, GeodataTypeOK, Positions, FileAt
<1>4. phase \notin {"idle", "ended"}
  BY <1>1, UnderWay DEF PoolInv
<1>5. ASSUME NEW label \in {"gone", "receive"}, SetWorker(w, label, {}) PROVE PoolInv'
  <2>1. worker'[w].pc = label /\ worker'[w].group = {}
    BY <1>5, SetWorkerSteps DEF PoolInv
  <2>2. Working(w)'
    BY <2>1 DEF Working
  <2> QED
    BY <1>1, <1>3, <1>4, <1>5, <2>2, WorkerPool
<1>6. CASE g # {} /\ files[FileOf[list[at]]] \in {None, Stub} /\ SetWorker(w, "download", g)
  <2>1. worker'[w].pc = "download" /\ worker'[w].group = g
    BY <1>2, <1>6, SetWorkerSteps DEF PoolInv
  <2>2. Working(w)'
    BY <1>1, <1>6, <2>1 DEF PoolInv, Working, Positions, FileAt
  <2> QED
    BY <1>1, <1>3, <1>4, <1>6, <2>2, WorkerPool
<1>7. CASE g # {} /\ files[FileOf[list[at]]] \notin {None, Stub} /\ SetWorker(w, "asset", After(g))
  <2>1. files'[FileAt(at)] \notin {None, Stub}
    BY <1>1, <1>7 DEF FileAt
  <2>2. Working(w)'
    BY <1>1, <1>7, <2>1, AfterFirst
  <2>3. After(g) \in SUBSET g
    BY DEF After
  <2> QED
    BY <1>1, <1>3, <1>4, <1>7, <2>2, <2>3, WorkerPool
<1> QED
  BY <1>1, <1>5, <1>6, <1>7

\* A source may be tried when the file is not there: those before it failed.
LEMMA EarlierFailed ==
  ASSUME PoolInv, NEW w \in Workers, worker[w].pc = "download", NEW j \in Positions,
         j < Least(worker[w].group), FileAt(j) = FileAt(Least(worker[w].group))
  PROVE  outcome[j] = "failed"
<1> DEFINE at == Least(worker[w].group)
<1>1. worker[w].group # {} /\ files[FileAt(at)] \in {None, Stub}
  BY DEF PoolInv, Working
<1>2. j \notin worker[w].group
  <2>1. \A k \in worker[w].group : at <= k
    BY <1>1, FirstOfGroup DEF PoolInv
  <2>2. at \in Nat /\ j \in Nat
    BY <1>1, FirstOfGroup DEF PoolInv, Positions
  <2> QED
    BY <2>1, <2>2
<1> QED
  BY <1>1, <1>2 DEF PoolInv, Working

\* The download of an asset ends.
LEMMA DownloadAssetPool == ASSUME PoolInv, NEW w \in Workers, DownloadAsset(w) PROVE PoolInv'
<1> DEFINE g == worker[w].group
           at == Least(g)
<1>1. /\ worker[w].pc = "download" /\ UNCHANGED <<list, groups, phase, cancelled>>
      /\ \/ /\ files' = [files EXCEPT ![FileAt(at)] = list[at]]
            /\ SetWorker(w, "asset", After(g)) /\ outcome' = [outcome EXCEPT ![at] = "got"]
         \/ /\ files' = files
            /\ SetWorker(w, "stub", g) /\ outcome' = [outcome EXCEPT ![at] = "failed"]
  BY DEF DownloadAsset, FileAt
<1>2. g # {} /\ g \in SUBSET Positions
  BY <1>1 DEF PoolInv, Working, GeodataTypeOK, Positions
<1>3. at \in g /\ at \in Positions
  BY <1>2, FirstOfGroup DEF PoolInv
<1>4. /\ list[at] \in Assets /\ FileAt(at) \in Geofiles
      /\ list[at] \notin {None, Stub}
      /\ \A j \in Positions : list[j] \in Assets /\ FileAt(j) \in Geofiles
  BY <1>3, GeodataAssumption DEF PoolInv, GeodataTypeOK, Positions, FileAt
<1>5. /\ files \in [Geofiles -> Assets \cup {None, Stub}]
      /\ outcome \in [Positions -> {None, "got", "failed"}]
  BY DEF PoolInv, GeodataTypeOK, Positions
<1>6. \A j \in Positions : j < at /\ FileAt(j) = FileAt(at) => outcome[j] = "failed"
  BY <1>1, EarlierFailed
<1>7. \A j \in Positions : FileAt(j) = FileAt(at) /\ outcome[j] # None => j < at
  <2>1. \A i \in g : outcome[i] = None
    BY <1>1 DEF PoolInv, Working
  <2> QED
    BY <1>2, <2>1 DEF PoolInv, Working
<1>8. \A j \in Positions : FileAt(j) = FileAt(at) => outcome[j] # "got"
  BY <1>6, <1>7, GeodataAssumption
<1>9. Ordered /\ phase \notin {"idle", "ended"}
  BY <1>1, OrderParts, UnderWay DEF PoolInv
<1>10. After(g) \in SUBSET g
  BY DEF After
<1>11. Positions' = Positions /\ \A i : FileAt(i)' = FileAt(i)
  BY <1>1 DEF Positions, FileAt
<1>12. /\ files' \in [Geofiles -> Assets \cup {None, Stub}]
       /\ outcome' \in [Positions -> {None, "got", "failed"}]
       /\ outcome'[at] \in {"got", "failed"}
       /\ \A j \in Positions : j # at => outcome'[j] = outcome[j]
       /\ \A j \in Positions : FileAt(j) # FileAt(at) => files'[FileAt(j)] = files[FileAt(j)]
       /\ outcome'[at] = "got" => files'[FileAt(at)] = list[at]
  BY <1>1, <1>3, <1>4, <1>5
<1>13. Ordered'
  <2>1. ASSUME NEW i \in Positions, NEW j \in Positions, i < j, FileAt(i) = FileAt(j),
               outcome'[j] # None
        PROVE  outcome'[i] = "failed"
    <3>1. i \in Nat /\ j \in Nat /\ at \in Nat
      BY <1>3 DEF Positions
    <3>2. CASE j = at
      BY <1>6, <1>12, <2>1, <3>1, <3>2
    <3>3. CASE j # at
      <4>1. outcome[j] # None
        BY <1>12, <2>1, <3>3
      <4>2. i # at
        BY <1>7, <2>1, <3>1, <4>1
      <4> QED
        BY <1>9, <1>12, <2>1, <4>1, <4>2 DEF Ordered
    <3> QED
      BY <3>2, <3>3
  <2>2. ASSUME NEW i \in Positions, outcome'[i] = "got" PROVE files'[FileAt(i)] = list[i]
    <3>1. CASE i = at
      BY <1>12, <2>2, <3>1
    <3>2. CASE i # at
      BY <1>8, <1>9, <1>12, <2>2, <3>2 DEF Ordered
    <3> QED
      BY <3>1, <3>2
  <2> QED
    BY <1>1, <1>11, <2>1, <2>2 DEF Ordered
<1>14. \A j \in Positions : (\A i \in g : FileAt(j) # FileAt(i)) => files'[FileAt(j)] = files[FileAt(j)]
  BY <1>3, <1>12
<1>15. \A j \in Positions : j \notin g => outcome'[j] = outcome[j]
  BY <1>3, <1>12
<1>16. CASE SetWorker(w, "asset", After(g)) /\ files' = [files EXCEPT ![FileAt(at)] = list[at]]
  <2>1. files'[FileAt(at)] \notin {None, Stub}
    BY <1>4, <1>5, <1>16
  <2>2. Working(w)'
    BY <1>1, <1>2, <1>12, <1>16, <2>1, AfterFirst
  <2> QED
    BY <1>1, <1>9, <1>10, <1>12, <1>13, <1>14, <1>15, <1>16, <2>2, WorkerPool
<1>17. CASE SetWorker(w, "stub", g) /\ files' = files /\ outcome' = [outcome EXCEPT ![at] = "failed"]
  <2>1. worker'[w].pc = "stub" /\ worker'[w].group = g
    BY <1>2, <1>17, SetWorkerSteps DEF PoolInv
  <2>2. outcome'[at] = "failed"
    BY <1>3, <1>5, <1>17
  <2>3. /\ \A i \in g : FileAt(i) = FileAt(at) /\ i \notin UNION groups
        /\ \A j \in Positions : FileAt(j) = FileAt(at) =>
             \/ j \in g
             \/ /\ j < at
                /\ outcome[j] = "failed" \/ files[FileAt(j)] \notin {None, Stub}
        /\ \A i \in g : outcome[i] = None
    BY <1>1, <1>2 DEF PoolInv, Working
  <2>4. \A i \in g : outcome'[i] = None \/ i = at
    BY <1>2, <1>12, <2>3
  <2>5. \A j \in Positions : FileAt(j) = FileAt(at) =>
          \/ j \in g
          \/ j < at /\ (outcome'[j] = "failed" \/ files'[FileAt(j)] \notin {None, Stub})
    BY <1>3, <1>12, <1>17, <2>3
  <2>6. Working(w)'
    BY <1>1, <1>2, <1>11, <2>1, <2>2, <2>3, <2>4, <2>5 DEF Working
  <2> QED
    BY <1>1, <1>9, <1>12, <1>13, <1>14, <1>15, <1>17, <2>6, WorkerPool
<1> QED
  BY <1>1, <1>16, <1>17

\* A stub is left where there is no file.
LEMMA LeaveStubPool == ASSUME PoolInv, NEW w \in Workers, LeaveStub(w) PROVE PoolInv'
<1> DEFINE g == worker[w].group
           at == Least(g)
<1>1. /\ worker[w].pc = "stub" /\ UNCHANGED <<list, groups, phase, cancelled, outcome>>
      /\ files' = [files EXCEPT ![FileAt(at)] = IF files[FileAt(at)] = None THEN Stub
                                                  ELSE files[FileAt(at)]]
      /\ SetWorker(w, "asset", After(g))
  BY DEF LeaveStub, FileAt
<1>2. g # {} /\ g \in SUBSET Positions /\ outcome[at] = "failed"
  BY <1>1 DEF PoolInv, Working, GeodataTypeOK, Positions
<1>3. at \in g /\ at \in Positions
  BY <1>2, FirstOfGroup DEF PoolInv
<1>4. /\ files \in [Geofiles -> Assets \cup {None, Stub}]
      /\ outcome \in [Positions -> {None, "got", "failed"}]
      /\ \A j \in Positions : list[j] \in Assets /\ FileAt(j) \in Geofiles
  BY GeodataAssumption DEF PoolInv, GeodataTypeOK, Positions, FileAt
<1>5. Ordered /\ phase \notin {"idle", "ended"}
  BY <1>1, OrderParts, UnderWay DEF PoolInv
<1>6. \A j \in Positions : j < at /\ FileAt(j) = FileAt(at) => outcome[j] = "failed"
  BY <1>2, <1>3, <1>5, GeodataAssumption DEF Ordered
<1>7. Positions' = Positions /\ \A i : FileAt(i)' = FileAt(i)
  BY <1>1 DEF Positions, FileAt
<1>8. /\ files' \in [Geofiles -> Assets \cup {None, Stub}]
      /\ \A j \in Positions : FileAt(j) # FileAt(at) => files'[FileAt(j)] = files[FileAt(j)]
      /\ \A j \in Positions : files[FileAt(j)] \notin {None, Stub} => files'[FileAt(j)] = files[FileAt(j)]
  BY <1>1, <1>3, <1>4
<1>9. Ordered'
  <2>1. ASSUME NEW i \in Positions, outcome[i] = "got" PROVE files'[FileAt(i)] = list[i]
    <3>1. files[FileAt(i)] = list[i] /\ list[i] \in Assets
      BY <1>4, <1>5, <2>1 DEF Ordered
    <3> QED
      BY <1>8, <3>1, GeodataAssumption
  <2> QED
    BY <1>1, <1>5, <1>7, <2>1 DEF Ordered
<1>10. Working(w)'
  BY <1>1, <1>2, <1>6, AfterFirst
<1>11. After(g) \in SUBSET g
  BY DEF After
<1>12. \A j \in Positions : (\A i \in g : FileAt(j) # FileAt(i)) => files'[FileAt(j)] = files[FileAt(j)]
  BY <1>3, <1>8
<1> QED
  BY <1>1, <1>4, <1>5, <1>8, <1>9, <1>10, <1>11, <1>12, WorkerPool

\* The start ends, or the node dies: nothing is left of the pool.
LEMMA RestPool == PoolInv /\ Rest => PoolInv'
<1> SUFFICES ASSUME PoolInv, Rest PROVE PoolInv'
  OBVIOUS
<1> USE DEF Rest, NoWorker
<1>1. list' = <<>> /\ Len(list') = 0 /\ Positions' = {}
  BY DEF Positions
<1>2. outcome' \in [1..Len(list') -> {None, "got", "failed"}]
  BY <1>1
<1>3. worker' \in [Workers -> [pc : {"gone", "receive", "asset", "download", "stub"},
                             group : SUBSET (1..Len(list'))]]
  OBVIOUS
<1>4. GeodataTypeOK'
  BY <1>1, <1>2, <1>3 DEF PoolInv, GeodataTypeOK
<1>5. Waiting'
  BY DEF Waiting
<1> QED
  BY <1>1, <1>4, <1>5, PoolRests

\* Every step of a start, its cancellation and the death of the node preserve
\* the invariant of the pool.
LEMMA NextPool == PoolInv /\ [Next]_vars => PoolInv'
<1> SUFFICES ASSUME PoolInv, [Next]_vars PROVE PoolInv'
  OBVIOUS
<1>1. /\ phase \in {"idle", "offer", "wait", "ended"} /\ cancelled \in BOOLEAN
      /\ phase \in {"idle", "ended"} => \A w \in Workers : worker[w].pc = "gone"
  BY DEF PoolInv, GeodataTypeOK
<1>2. UNCHANGED geodataVars => PoolInv'
  BY <1>1, FramePool DEF geodataVars
<1>3. CASE GeodataStep
  <2>1. CASE CloseJobs
    BY <1>1, <2>1, FramePool DEF CloseJobs
  <2>2. CASE WaitWorkers
    BY <1>1, <2>2, FramePool DEF WaitWorkers
  <2>3. ASSUME NEW w \in Workers, WorkerStep(w) PROVE PoolInv'
    BY <2>3, OfferPool, WorkerClosedPool, TakeAssetPool, DownloadAssetPool, LeaveStubPool
    DEF WorkerStep
  <2> QED
    BY <1>3, <2>1, <2>2, <2>3 DEF GeodataStep
<1>4. CASE Start \/ (CoreStep /\ UNCHANGED <<geodataVars, starts>>) \/ UNCHANGED vars
  BY <1>2, <1>4 DEF Start, vars
<1>5. CASE Refused \/ Finish \/ NodeDies
  BY <1>5, RestPool DEF Refused, Finish, NodeDies
<1>6. CASE Geodata
  BY <1>6, PrepareGeodataPool DEF Geodata
<1>7. CASE CancelStart
  BY <1>1, <1>7, FramePool DEF CancelStart, Cancel
<1> QED
  BY <1>3, <1>4, <1>5, <1>6, <1>7 DEF Next, Work

\* The starts are counted within their bound.
LEMMA StartsInv == starts \in 0..MaxStarts /\ [Next]_vars => (starts \in 0..MaxStarts)'
<1> SUFFICES ASSUME starts \in 0..MaxStarts, [Next]_vars PROVE starts' \in 0..MaxStarts
  OBVIOUS
<1>1. UNCHANGED starts \/ (starts < MaxStarts /\ starts' = starts + 1)
  BY DEF Next, Work, vars, Start, CancelStart, NodeDies, Refused, Geodata, Finish, Rest
<1> QED
  BY <1>1, StartsAssumption

\* The invariant of the pool holds in every state.
THEOREM PoolInvariant == Spec => []PoolInv
<1>1. Init => PoolInv
  BY InitPool
<1>2. PoolInv /\ [Next]_vars => PoolInv'
  BY NextPool
<1> QED
  BY <1>1, <1>2, PTL DEF Spec

\* The sources of a file are tried one after the other, each when those before it
\* failed, and a downloaded file is not replaced, for any lists and any pool.
THEOREM SourcesAreInOrder == Spec => []SourcesInOrder
<1>1. PoolInv => SourcesInOrder
  BY DEF PoolInv
<1> QED
  BY <1>1, PoolInvariant, PTL

\* Every variable keeps its type; when no call is under way, no worker is left.
THEOREM TypeCorrect == Spec => []TypeOK
<1>1. Init => starts \in 0..MaxStarts
  BY StartsAssumption DEF Init
<1>2. CoreInv /\ PoolInv /\ starts \in 0..MaxStarts => TypeOK
  BY DEF CoreInv, Types, PoolInv, TypeOK
<1> QED
  BY <1>1, <1>2, StartsInv, Invariant, PoolInvariant, PTL DEF Spec
=============================================================================
