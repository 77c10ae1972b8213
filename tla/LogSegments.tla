----------------------------- MODULE LogSegments -----------------------------
(***************************************************************************)
(* internal/xray/logrotate.go and managed_log.go: what rw-core logs goes   *)
(* through a fifo to a pump, which appends whole lines to an active file   *)
(* and seals the file into a segment when it is full or the day is over.   *)
(* Sealing is a journal, a rename, the removal of the journal and a new    *)
(* file; any of these steps may fail, and the node may be killed between   *)
(* them.  The next start of rw-core opens the writer again and completes   *)
(* what the journal says.                                                  *)
(*                                                                         *)
(* The log is the stream of bytes 1..Total; those in Newline end a line.    *)
(* One log of the node is modelled; the others share no state with it.     *)
(***************************************************************************)
EXTENDS Naturals, Sequences, FiniteSets, SequencesExt

CONSTANTS
  Total, Newline,   \* the stream
  MaxPending,      \* maxPendingLineBytes
  MaxSize,         \* maxLogSize
  Buffer,          \* bytes the pump reads at once
  None,
  Torn,            \* a journal that was created and not written out
  MaxDay,          \* bound: days
  MaxMishaps       \* bound: kills of the node and failing file operations

Bytes == 1..Total
Names == (0..MaxDay) \X (1..Total)   \* of sealed segments: day and number
File == [ino : Nat \ {0}, data : Seq(Bytes)]
Reasons == {"torn", "lost", "collision", "io"}   \* why a start is refused

ASSUME StreamAssumption ==
  /\ Total \in Nat \ {0} /\ Newline \subseteq Bytes
  /\ MaxPending \in Nat \ {0} /\ MaxSize \in Nat \ {0} /\ Buffer \in Nat \ {0}
  /\ MaxDay \in Nat /\ MaxMishaps \in Nat
  /\ None \notin Names \cup Nat \cup Reasons \cup File /\ Torn \notin Names \cup {None}

VARIABLES
  active,    \* the active file: inode and bytes, or None
  sealed,    \* the sealed segments by name
  journal,   \* .rotation.json: the name it gives, Torn or None
  inodes,    \* inodes given out
  pump,      \* the writer and the goroutine that feeds it
  coreUp,    \* is rw-core running?
  fed,       \* bytes rw-core has logged
  taken,     \* bytes the pump has read
  today,
  refused,   \* why the last start could not open the writer, or None
  spilt,     \* history: bytes that were in memory or in the fifo when it was lost
  scraps,    \* history: bytes that a failing write left behind
  mishaps    \* counter of the bound

diskVars == <<active, sealed, journal, inodes>>
streamVars == <<coreUp, fed, taken>>
historyVars == <<spilt, scraps>>
logVars == <<diskVars, pump, streamVars, today, refused, historyVars, mishaps>>

\* "usable": is w.file open?  "sealDay": the day writeLine has seen.
Down == [pc |-> "down", usable |-> FALSE, pending |-> <<>>, segment |-> 0,
         openDate |-> 0, sealDay |-> 0, target |-> None]

Stream(from, to) == [i \in 1..(to - from) |-> from + i]
LineStart(n) == n = 0 \/ n \in Newline

Init ==
  /\ active = None /\ sealed = <<>> /\ journal = None /\ inodes = 0
  /\ pump = Down /\ coreUp = FALSE /\ fed = 0 /\ taken = 0
  /\ today = 0 /\ refused = None
  /\ spilt = {} /\ scraps = {} /\ mishaps = 0

\* An operation of the file system fails, or the node is killed.
Mishap == mishaps < MaxMishaps /\ mishaps' = mishaps + 1

Goto(label) == pump' = [pump EXCEPT !.pc = label]

-----------------------------------------------------------------------------
(* Seeded faults: variants of the steps below, in the order in which they    *)
(* appear.  No specification uses them; the model checker must reject each.  *)

\* The active file is truncated when it is opened.
FaultOpenActive == IF active = None THEN [ino |-> inodes + 1, data |-> <<>>] ELSE [active EXCEPT !.data = <<>>]

\* What is pending is written at once, whole lines or not.
FaultPiece(pending) == pending

-----------------------------------------------------------------------------
(* Start: pump.start opens the writer, which first completes a rotation. *)

Refuse(reason) == refused' = reason /\ pump' = Down

StartPump ==
  /\ pump.pc = "down" /\ ~coreUp
  /\ Goto("recover") /\ refused' = None
  /\ UNCHANGED <<diskVars, streamVars, today, historyVars, mishaps>>

\* The segment the journal names gets the active file, if it has not got it.
RecoverRename ==
  /\ pump.pc = "recover"
  /\ UNCHANGED <<inodes, journal, streamVars, today, historyVars>>
  /\ \/ /\ journal = None /\ Goto("open")
        /\ UNCHANGED <<active, sealed, refused, mishaps>>
     \/ /\ journal = Torn /\ Refuse("torn")
        /\ UNCHANGED <<active, sealed, mishaps>>
     \/ /\ journal \in Names /\ (active = None <=> journal \notin DOMAIN sealed)
        /\ Refuse(IF active = None THEN "lost" ELSE "collision")
        /\ UNCHANGED <<active, sealed, mishaps>>
     \/ /\ journal \in Names /\ active = None /\ journal \in DOMAIN sealed
        /\ Goto("unlink")
        /\ UNCHANGED <<active, sealed, refused, mishaps>>
     \/ /\ journal \in Names /\ active # None /\ journal \notin DOMAIN sealed
        /\ \/ /\ sealed' = [n \in DOMAIN sealed \cup {journal} |->
                              IF n = journal THEN active ELSE sealed[n]]
              /\ active' = None /\ Goto("unlink")
              /\ UNCHANGED <<refused, mishaps>>
           \/ Mishap /\ Refuse("io") /\ UNCHANGED <<active, sealed>>

\* A failing sync of the directory leaves the journal or has removed it.
RecoverUnlink ==
  /\ pump.pc = "unlink"
  /\ \/ journal' = None /\ Goto("open") /\ UNCHANGED <<refused, mishaps>>
     \/ Mishap /\ journal' \in {journal, None} /\ Refuse("io")
  /\ UNCHANGED <<active, sealed, inodes, streamVars, today, historyVars>>

\* rw-core starts at a new line: the rest of a line that its predecessor was
\* killed in is never logged.
NextLine == CHOOSE n \in fed..Total + 1 : /\ LineStart(n) \/ n = Total + 1
                                         /\ \A m \in fed..(n - 1) : ~LineStart(m)

OpenActive == IF active = None THEN [ino |-> inodes + 1, data |-> <<>>] ELSE active

OpenWriter ==
  /\ pump.pc = "open"
  /\ UNCHANGED <<sealed, journal, today, scraps>>
  /\ \/ /\ active' = OpenActive
        /\ inodes' = IF active = None THEN inodes + 1 ELSE inodes
        /\ pump' = [Down EXCEPT !.pc = "wait", !.usable = TRUE, !.openDate = today,
                                !.segment = Cardinality(DOMAIN sealed)]
        /\ coreUp' = TRUE /\ fed' = IF NextLine > Total THEN Total ELSE NextLine
        /\ taken' = fed' /\ spilt' = spilt \cup {b \in Bytes : fed < b /\ b <= fed'}
        /\ UNCHANGED <<refused, mishaps>>
     \/ /\ Mishap /\ Refuse("io")
        /\ UNCHANGED <<active, inodes, streamVars, spilt>>

-----------------------------------------------------------------------------
(* The pump and Write. *)

\* When there is nothing to read, the next read is 20 ms away.
Loop == IF coreUp /\ taken = fed THEN "wait" ELSE "run"

PumpRead ==
  /\ pump.pc \in {"run", "wait"} /\ taken < fed
  /\ \E n \in 1..Buffer :
       /\ taken + n <= fed
       /\ pump' = [pump EXCEPT !.pc = "write",
                               !.pending = pump.pending \o Stream(taken, taken + n)]
       /\ taken' = taken + n
  /\ UNCHANGED <<diskVars, coreUp, fed, today, refused, historyVars, mishaps>>

\* A pump that reads when it is told to stop goes on until the fifo is empty;
\* one that waits does not look again.
PumpStop ==
  /\ ~coreUp
  /\ pump.pc = "wait" \/ (pump.pc = "run" /\ taken = fed)
  /\ Goto("close")
  /\ UNCHANGED <<diskVars, streamVars, today, refused, historyVars, mishaps>>

\* What the loop of Write takes from the front: a line, as much of it as may
\* be pending, all of an unfinished one that has grown too long, or nothing.
Piece(pending) ==
  LET line == SelectInSeq(pending, LAMBDA b : b \in Newline)
      length == IF line = 0 THEN (IF Len(pending) >= MaxPending THEN Len(pending) ELSE 0)
                ELSE IF line > MaxPending THEN MaxPending ELSE line
  IN  SubSeq(pending, 1, length)

MustSeal(piece) ==
  \/ active.data # <<>> /\ Len(active.data) + Len(piece) > MaxSize
  \/ today # pump.openDate

\* A failing write leaves a part of the piece in the file.
AppendPiece(piece) ==
  \/ /\ active' = [active EXCEPT !.data = active.data \o piece]
     /\ pump' = [pump EXCEPT !.pc = "write",
                             !.pending = SubSeq(pump.pending, Len(piece) + 1, Len(pump.pending))]
     /\ UNCHANGED <<scraps, mishaps>>
  \/ \E n \in 0..(Len(piece) - 1) :
       /\ Mishap /\ Goto("close")
       /\ active' = [active EXCEPT !.data = active.data \o SubSeq(piece, 1, n)]
       /\ scraps' = scraps \cup ToSet(SubSeq(piece, 1, n))

WriteLine ==
  /\ pump.pc = "write"
  /\ LET piece == Piece(pump.pending) IN
     \/ /\ piece = <<>> /\ Goto(Loop)
        /\ UNCHANGED <<active, scraps, mishaps>>
     \/ /\ piece # <<>> /\ MustSeal(piece)
        /\ pump' = [pump EXCEPT !.pc = "seal", !.sealDay = today]
        /\ UNCHANGED <<active, scraps, mishaps>>
     \/ piece # <<>> /\ ~MustSeal(piece) /\ AppendPiece(piece)
  /\ UNCHANGED <<sealed, journal, inodes, streamVars, today, refused, spilt>>

\* The line that made writeLine seal goes to the new file.
WriteSealed ==
  /\ pump.pc = "append" /\ AppendPiece(Piece(pump.pending))
  /\ UNCHANGED <<sealed, journal, inodes, streamVars, today, refused, spilt>>

-----------------------------------------------------------------------------
(* seal *)

Unused == {n \in 1..Total : n > pump.segment /\ <<pump.openDate, n>> \notin DOMAIN sealed}

\* The journal is created exclusively: JournalIsExact says that there is none.
SealJournal ==
  /\ pump.pc = "seal"
  /\ LET n == CHOOSE i \in Unused : \A j \in Unused : i <= j IN
     \/ /\ journal = None /\ journal' = Torn
        /\ pump' = [pump EXCEPT !.pc = "journal", !.segment = n, !.target = <<pump.openDate, n>>]
        /\ UNCHANGED mishaps
     \/ Mishap /\ Goto("close") /\ UNCHANGED journal
  /\ UNCHANGED <<active, sealed, inodes, streamVars, today, refused, historyVars>>

SealWriteJournal ==
  /\ pump.pc = "journal"
  /\ \/ journal' = pump.target /\ Goto("rename") /\ UNCHANGED mishaps
     \/ Mishap /\ journal' \in {Torn, pump.target} /\ Goto("close")
  /\ UNCHANGED <<active, sealed, inodes, streamVars, today, refused, historyVars>>

\* After an error the file is closed, unless the directory could not be synced.
SealRename ==
  /\ pump.pc = "rename"
  /\ \/ /\ sealed' = [n \in DOMAIN sealed \cup {pump.target} |->
                        IF n = pump.target THEN active ELSE sealed[n]]
        /\ active' = None
        /\ pump' = [pump EXCEPT !.pc = "unjournal", !.usable = FALSE]
        /\ UNCHANGED mishaps
     \/ /\ Mishap
        /\ \E open \in BOOLEAN : pump' = [pump EXCEPT !.pc = "close", !.usable = open]
        /\ UNCHANGED <<active, sealed>>
  /\ UNCHANGED <<inodes, journal, streamVars, today, refused, historyVars>>

SealUnjournal ==
  /\ pump.pc = "unjournal"
  /\ \/ journal' = None /\ Goto("reopen") /\ UNCHANGED mishaps
     \/ Mishap /\ journal' \in {journal, None} /\ Goto("close")
  /\ UNCHANGED <<active, sealed, inodes, streamVars, today, refused, historyVars>>

SealReopen ==
  /\ pump.pc = "reopen"
  /\ \/ /\ active' = OpenActive /\ inodes' = inodes + 1
        /\ pump' = [pump EXCEPT !.pc = "append", !.usable = TRUE, !.openDate = pump.sealDay,
                                !.sealDay = 0, !.target = None]
        /\ UNCHANGED mishaps
     \/ Mishap /\ Goto("close") /\ UNCHANGED <<active, inodes>>
  /\ UNCHANGED <<sealed, journal, streamVars, today, refused, historyVars>>

\* The goroutine ends: the fifo goes, and what is pending is written out if
\* the file is open.
PumpClose ==
  /\ pump.pc = "close"
  /\ taken' = fed /\ pump' = Down
  /\ LET pending == pump.pending
         rest == {b \in Bytes : taken < b /\ b <= fed} IN
     \/ /\ pump.usable \/ pending = <<>>
        /\ active' = IF pending = <<>> THEN active
                     ELSE [active EXCEPT !.data = active.data \o pending]
        /\ spilt' = spilt \cup rest
        /\ UNCHANGED <<scraps, mishaps>>
     \/ /\ ~pump.usable /\ pending # <<>>
        /\ spilt' = spilt \cup rest \cup ToSet(pending)
        /\ UNCHANGED <<active, scraps, mishaps>>
     \/ \E n \in 0..(Len(pending) - 1) :
          /\ pump.usable /\ Mishap
          /\ active' = [active EXCEPT !.data = active.data \o SubSeq(pending, 1, n)]
          /\ scraps' = scraps \cup ToSet(SubSeq(pending, 1, n))
          /\ spilt' = spilt \cup rest \cup ToSet(pending)
  /\ UNCHANGED <<sealed, journal, inodes, coreUp, fed, today, refused>>

-----------------------------------------------------------------------------
(* rw-core (external), the clock, and a kill of the node. *)

\* Without a pump nobody reads: the write fails.
CoreLog ==
  /\ coreUp /\ fed < Total /\ fed' = fed + 1
  /\ IF pump.pc = "down"
       THEN taken' = fed' /\ spilt' = spilt \cup {fed'}
       ELSE UNCHANGED <<taken, spilt>>
  /\ UNCHANGED <<diskVars, pump, coreUp, today, refused, scraps, mishaps>>

CoreExit ==
  /\ coreUp /\ coreUp' = FALSE
  /\ UNCHANGED <<diskVars, pump, fed, taken, today, refused, historyVars, mishaps>>

Tick ==
  /\ today < MaxDay /\ today' = today + 1
  /\ UNCHANGED <<diskVars, pump, streamVars, refused, historyVars, mishaps>>

\* Files survive; memory and fifo do not.
NodeKilled ==
  /\ Mishap
  /\ pump' = Down /\ coreUp' = FALSE /\ taken' = fed
  /\ spilt' = spilt \cup ToSet(pump.pending) \cup {b \in Bytes : taken < b /\ b <= fed}
  /\ UNCHANGED <<diskVars, fed, today, refused, scraps>>

Seal == SealJournal \/ SealWriteJournal \/ SealRename \/ SealUnjournal \/ SealReopen

LogNext ==
  \/ StartPump \/ RecoverRename \/ RecoverUnlink \/ OpenWriter
  \/ PumpRead \/ PumpStop \/ WriteLine \/ WriteSealed \/ Seal \/ PumpClose
  \/ CoreLog \/ CoreExit \/ Tick

LogSpec == Init /\ [][LogNext \/ NodeKilled]_logVars

-----------------------------------------------------------------------------
(* Properties *)

Files == {sealed[n] : n \in DOMAIN sealed} \cup (IF active = None THEN {} ELSE {active})
Stored == UNION {ToSet(f.data) : f \in Files}

\* The type invariant.
LogTypeOK ==
  /\ active = None \/ active \in File
  /\ DOMAIN sealed \subseteq Names /\ \A n \in DOMAIN sealed : sealed[n] \in File
  /\ journal \in Names \cup {Torn, None} /\ inodes \in Nat
  /\ pump.pc \in {"down", "recover", "unlink", "open", "run", "wait", "write", "append", "seal",
                  "journal", "rename", "unjournal", "reopen", "close"}
  /\ pump.usable \in BOOLEAN /\ pump.pending \in Seq(Bytes) /\ pump.segment \in Nat
  /\ pump.openDate \in Nat /\ pump.sealDay \in Nat /\ pump.target \in Names \cup {None}
  /\ coreUp \in BOOLEAN /\ fed \in 0..Total /\ taken \in 0..fed /\ today \in 0..MaxDay
  /\ refused \in Reasons \cup {None}
  /\ spilt \subseteq Bytes /\ scraps \subseteq Bytes
  /\ mishaps \in 0..MaxMishaps

\* Every byte the pump has read is in a file, in memory, among "gone", or was
\* in memory when the writer failed or the node was killed: no step of a seal,
\* of its failure or of its recovery drops a file or a pending line.
Accounted(gone) == 1..taken \subseteq Stored \cup ToSet(pump.pending) \cup spilt \cup gone

\* Recovery and sealing never meet what they do not expect: a seal finds no
\* journal of an earlier one, no recovery finds both the active file and the
\* segment the journal names, and it finds neither only if the segment was among
\* those removed since.
JournalIsExact(removed) ==
  /\ pump.pc = "seal" => journal = None
  /\ refused # "collision"
  /\ refused = "lost" => journal \in removed

\* Segments hold the log in the order of their inodes, each byte once, but for
\* what failing writes left: a recovered rotation repeats or reorders nothing.
StoredInOrder ==
  /\ \A f \in Files : \A i, j \in 1..Len(f.data) :
       i < j /\ {f.data[i], f.data[j]} \cap scraps = {} => f.data[i] < f.data[j]
  /\ \A f, g \in Files : f.ino < g.ino =>
       \A b \in ToSet(f.data) \ scraps, c \in ToSet(g.data) \ scraps : b < c

\* Lines are rotated whole: a line no longer than what may be pending, once it
\* has all been read and unless some of it was spilt or written twice, is in one
\* file or in none.
Lines == {l \in (0..Total) \X Newline :
            LineStart(l[1]) /\ l[1] < l[2] /\ \A b \in (l[1] + 1)..(l[2] - 1) : b \notin Newline}
LinesStayWhole ==
  \A l \in Lines : \A f \in Files :
    LET line == (l[1] + 1)..l[2] IN
    /\ l[2] <= taken /\ l[2] - l[1] <= MaxPending
    /\ line \cap (spilt \cup scraps) = {}
    => line \subseteq ToSet(f.data) \/ line \cap ToSet(f.data) = {}
=============================================================================
