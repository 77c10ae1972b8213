----------------------------- MODULE CoreLoader ------------------------------
(***************************************************************************)
(* internal/xray/core_loader.go: the rw-core that a start runs is the      *)
(* target of a link.  A configuration may ask for a custom core, which is  *)
(* downloaded, tried, moved into place, linked and recorded in a marker;   *)
(* without one the stock core is linked again and the custom one removed.  *)
(* Each of these steps may fail, and the node may die between any two.     *)
(* A later start with the same specification must not download again, and  *)
(* one with another must not take the file of the first for its own.       *)
(***************************************************************************)
EXTENDS Artifact

CONSTANTS
  Runnable,    \* the bodies that answer "version"
  Stock,       \* what the stock file holds
  Urls, Asked, \* what configurations ask for
  Absent,      \* a configuration without geodata.core
  Invalid,     \* one in which it is malformed
  MaxClock,    \* bound: files downloaded, each with a modification time of its own
  MaxMishaps   \* bound: failing file operations and kills of the node

Specs == [url : Urls, sha : Asked]
CoreFile == [body : Bodies, mtime : 1..MaxClock]
Marker == [url : Urls, sha : Asked, size : Nat, mtime : 1..MaxClock]

ASSUME CoreAssumption ==
  /\ Runnable \subseteq Bodies /\ Asked \subseteq Bodies /\ Stock \notin Bodies /\ None # Stock
  /\ None \notin CoreFile /\ None \notin Marker
  /\ MaxClock \in Nat \ {0} /\ MaxMishaps \in Nat

VARIABLES
  link,       \* the active path: a link to stock or custom, a file, or nothing
  stock,      \* is the stock core an executable file?
  custom,     \* xray-custom, or None
  staged,     \* xray-custom.staged, or None
  marker,     \* .rw-core.json, or None
  prep,       \* the call of prepare under way
  clock, mishaps   \* counters of the bounds

coreVars == <<link, stock, custom, staged, marker, prep, clock, mishaps>>

\* "before": what was active when prepare was called (history).
IdlePrep == [pc |-> "idle", spec |-> Absent, before |-> None, result |-> None]

\* What a start would run.
Runs == IF link = "stock" THEN (IF stock THEN Stock ELSE None)
        ELSE IF link = "custom" /\ custom # None THEN custom.body
        ELSE IF link = "file" THEN Stock ELSE None

\* The node as the installer left it, or after a start that installed a core.
CoreInit ==
  /\ stock \in BOOLEAN /\ staged = None /\ prep = IdlePrep /\ mishaps = 0
  /\ \/ /\ link \in {"stock", "file", "none"} /\ custom = None /\ marker = None /\ clock = 0
     \/ \E spec \in {s \in Specs : s.sha \in Runnable} :
          /\ link = "custom" /\ custom = [body |-> spec.sha, mtime |-> 1] /\ clock = 1
          /\ marker = [url |-> spec.url, sha |-> spec.sha, size |-> SizeOf[spec.sha], mtime |-> 1]

Mishap == mishaps < MaxMishaps /\ mishaps' = mishaps + 1
Step(label) == prep' = [prep EXCEPT !.pc = label]

\* The end of prepare: "installed", "kept" (a warning at most), or the error
\* with which the start is refused.
End(result) == prep' = [prep EXCEPT !.pc = "ended", !.result = result]

-----------------------------------------------------------------------------
(* Seeded faults: variants of the steps below, in the order in which they    *)
(* appear.  No specification uses them; the model checker must reject each.  *)

\* The size is compared and the time is not.
FaultIsInstalled(spec) ==
  /\ marker # None /\ custom # None
  /\ marker.url = spec.url /\ marker.sha = spec.sha
  /\ marker.size = SizeOf[custom.body] /\ link = "custom"

\* The custom core is removed before stock is linked.
FaultLinkStock ==
  /\ prep.pc = "relink" /\ custom' = None
  /\ \/ link' = "stock" /\ Step("unmark") /\ UNCHANGED mishaps
     \/ Mishap /\ End("error") /\ UNCHANGED link
  /\ UNCHANGED <<stock, staged, marker, clock>>

-----------------------------------------------------------------------------
\* The marker is compared with the file, not the file with the digest.
IsInstalled(spec) ==
  /\ marker # None /\ custom # None
  /\ marker.url = spec.url /\ marker.sha = spec.sha
  /\ marker.size = SizeOf[custom.body] /\ marker.mtime = custom.mtime
  /\ link = "custom"

-----------------------------------------------------------------------------
(* prepare: the decision reads the marker, the file and the link. *)

Prepare(spec) ==
  /\ prep.pc = "idle"
  /\ LET call == [IdlePrep EXCEPT !.spec = spec, !.before = Runs]
         Begin(label) == prep' = [call EXCEPT !.pc = label]
         Done(result) == prep' = [call EXCEPT !.pc = "ended", !.result = result]
     IN  \/ spec = Invalid /\ Done("kept")
         \/ /\ spec = Absent
            /\ IF link # "custom" THEN Done("kept")
               ELSE IF ~stock THEN Done("error") ELSE Begin("relink")
         \/ /\ spec \in Specs
            /\ IF IsInstalled(spec) THEN Done("installed")
               ELSE IF link = "file" THEN Done("kept") ELSE Begin("unstage")
  /\ UNCHANGED <<link, stock, custom, staged, marker, clock, mishaps>>

\* install gives up; the staged file goes, unless it was not there yet.
GiveUp == End("kept")

Unstage ==
  /\ prep.pc = "unstage"
  /\ \/ staged' = None /\ Step("download") /\ UNCHANGED mishaps
     \/ Mishap /\ GiveUp /\ UNCHANGED staged
  /\ UNCHANGED <<link, stock, custom, marker, clock>>

DownloadCore ==
  /\ prep.pc = "download"
  /\ \E body \in Outcomes(Bodies, prep.spec.sha) :
       \/ /\ body # None /\ clock < MaxClock
          /\ staged' = [body |-> body, mtime |-> clock + 1]
          /\ clock' = clock + 1 /\ Step("try")
       \/ body = None /\ GiveUp /\ UNCHANGED <<staged, clock>>
  /\ UNCHANGED <<link, stock, custom, marker, mishaps>>

\* The staged file is made executable and asked for its version.
TryStaged ==
  /\ prep.pc = "try"
  /\ \/ staged.body \in Runnable /\ Step("rename") /\ UNCHANGED <<staged, mishaps>>
     \/ staged.body \notin Runnable /\ GiveUp /\ staged' = None /\ UNCHANGED mishaps
     \/ Mishap /\ GiveUp /\ staged' = None
  /\ UNCHANGED <<link, stock, custom, marker, clock>>

RenameStaged ==
  /\ prep.pc = "rename" /\ staged' = None
  /\ \/ custom' = staged /\ Step("link") /\ UNCHANGED mishaps
     \/ Mishap /\ GiveUp /\ UNCHANGED custom
  /\ UNCHANGED <<link, stock, marker, clock>>

\* A new link is renamed over the old one.
LinkCustom ==
  /\ prep.pc = "link"
  /\ \/ link' = "custom" /\ Step("mark") /\ UNCHANGED mishaps
     \/ Mishap /\ GiveUp /\ UNCHANGED link
  /\ UNCHANGED <<stock, custom, staged, marker, clock>>

WriteMarker ==
  /\ prep.pc = "mark"
  /\ \/ /\ marker' = [url |-> prep.spec.url, sha |-> prep.spec.sha,
                      size |-> SizeOf[custom.body], mtime |-> custom.mtime]
        /\ End("installed") /\ UNCHANGED mishaps
     \/ Mishap /\ GiveUp /\ UNCHANGED marker
  /\ UNCHANGED <<link, stock, custom, staged, clock>>

-----------------------------------------------------------------------------
(* restoreStock: link first; failures to remove the rest are ignored. *)

LinkStock ==
  /\ prep.pc = "relink"
  /\ \/ link' = "stock" /\ Step("unmark") /\ UNCHANGED mishaps
     \/ Mishap /\ End("error") /\ UNCHANGED link
  /\ UNCHANGED <<stock, custom, staged, marker, clock>>

RemoveMarker ==
  /\ prep.pc = "unmark" /\ Step("uncustom")
  /\ \/ marker' = None /\ UNCHANGED mishaps
     \/ Mishap /\ UNCHANGED marker
  /\ UNCHANGED <<link, stock, custom, staged, clock>>

RemoveCustom ==
  /\ prep.pc = "uncustom" /\ End("kept")
  /\ \/ custom' = None /\ UNCHANGED mishaps
     \/ Mishap /\ UNCHANGED custom
  /\ UNCHANGED <<link, stock, staged, marker, clock>>

CoreStep == \/ Unstage \/ DownloadCore \/ TryStaged \/ RenameStaged \/ LinkCustom \/ WriteMarker
            \/ LinkStock \/ RemoveMarker \/ RemoveCustom

-----------------------------------------------------------------------------
(* Properties *)

\* The type invariant.
CoreTypeOK ==
  /\ link \in {"stock", "custom", "file", "none"} /\ stock \in BOOLEAN
  /\ custom \in CoreFile \cup {None} /\ staged \in CoreFile \cup {None}
  /\ marker \in Marker \cup {None}
  /\ prep.pc \in {"idle", "unstage", "download", "try", "rename", "link", "mark",
                  "relink", "unmark", "uncustom", "ended", "geodata"}
  /\ prep.spec \in Specs \cup {Absent, Invalid} /\ prep.before \in Bodies \cup {Stock, None}
  /\ prep.result \in {None, "installed", "kept", "error"}
  /\ clock \in 0..MaxClock /\ mishaps \in 0..MaxMishaps

\* A start that finds its core installed runs it: no sequence of installations,
\* failures, restorations and kills leaves a marker that fits another's file.
\* And when prepare reports an installation, the next start will find it.
InstalledIsAsked ==
  /\ \A spec \in Specs : IsInstalled(spec) => custom.body = spec.sha
  /\ prep.pc = "ended" /\ prep.result = "installed" => IsInstalled(prep.spec)

\* The link never leads to a core that is missing or was not tried, whichever
\* step failed and wherever the node died; and a start runs the core it asked
\* for or the one that was active before, and without a specification stock or,
\* when it cannot be linked, what was active.
KeepsOrInstalls ==
  /\ link = "custom" => custom # None /\ custom.body \in Runnable
  /\ prep.pc = "ended" =>
       \/ Runs = prep.before
       \/ prep.spec \in Specs /\ Runs = prep.spec.sha
       \/ prep.spec = Absent /\ Runs = Stock
=============================================================================
