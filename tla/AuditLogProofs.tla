--------------------------- MODULE AuditLogProofs ---------------------------
(***************************************************************************)
(* The panel and its requests: AuditLog keeps its properties, for every    *)
(* stream, line, file and chunk size, every panel and any number of        *)
(* requests under way. LogSegmentsProofs has the invariant of the log,     *)
(* LogInv; here is that of the reader.                                     *)
(*                                                                         *)
(* The argument: files only grow, keep their inode, and are renamed or     *)
(* removed whole (Grows), so what a request or the panel knows of a file   *)
(* it knows of any later one with that inode (the *Kept lemmas); a chunk   *)
(* is the part of the file from the start of a line to the start of        *)
(* another (SplitTrue, NextPassed); a name that is called safe is that of  *)
(* a segment that has been delivered, or of one that is gone, and then the *)
(* segment that has it now is a later one (CleanInv, FilesInv); what is    *)
(* missing from the journal of gaps was lost in a torn line, which stays   *)
(* and keeps every later clean from answering (Journaled).                 *)
(***************************************************************************)
EXTENDS LogSegmentsProofs
-----------------------------------------------------------------------------
(* The invariant. *)

LineRecord == [offset : Nat, text : Seq(Bytes), stamp : {Stamp[b] : b \in Newline}]
ChunkRecord == [inode : Inodes \cup {None}, lines : SUBSET LineRecord, next : Nat]
CallRecord ==
  [pc : {"idle", "open", "answered", "list", "clean", "remove", "cleaned"}, id : Names \cup {Active},
   inode : Inodes \cup {None}, follow : BOOLEAN, tail : BOOLEAN, start : Nat, end : Nat,
   since : {None, Since}, names : SUBSET Names, chunk : ChunkRecord,
   gaps : SUBSET GapLine, raced : BOOLEAN]

GapTypes == gaps \subseteq GapLine /\ gapTail \in GapLine \cup {None}

ReaderTypes ==
  /\ GapTypes
  /\ call \in [Calls -> CallRecord]
  /\ \A e \in catalog : e.id \in Names \cup {Active} /\ e.inode \in 1..inodes /\ e.size \in Nat
  /\ cursor \in [Inodes -> Nat] /\ got \in [Inodes -> SUBSET Bytes]
  /\ raced \subseteq Inodes /\ requests \in 0..MaxRequests

\* An entry of a catalog is the segment of that name, or one that is gone.
CatalogInv ==
  \A e \in catalog : e.id \in Names =>
    \/ /\ e.id \in DOMAIN sealed /\ e.inode = sealed[e.id].ino /\ e.size = Len(sealed[e.id].data)
    \/ \E g \in gone : g.name = e.id

\* The panel has been given the lines of the file before the offset.
Passed(file, offset) ==
  /\ AtLineStart(file, offset)
  /\ \A i \in 1..offset : file.data[i] \in Newline \cup got[file.ino]
Delivered(file) == file.ino \notin raced => ToSet(file.data) \subseteq Newline \cup got[file.ino]

CursorInv ==
  /\ \A f \in AllFiles : f.ino \notin raced => Passed(f, cursor[f.ino])
  /\ \A i \in Inodes : i > inodes => cursor[i] = 0

\* A request that is between its Stat and its Open starts where the panel was.
OpenInv(c) ==
  LET r == call[c] IN
  r.pc = "open" =>
    /\ r.inode \in 1..inodes
    /\ IF r.follow THEN r.since = None ELSE r.tail
    /\ \A f \in AllFiles : f.ino = r.inode /\ r.follow /\ f.ino \notin raced =>
         ~r.tail /\ Passed(f, r.start)

TrueLine(file, l) ==
  /\ AtLineStart(file, l.offset) /\ AtLineStart(file, l.offset + Len(l.text) + 1)
  /\ \A i \in 1..Len(l.text) : l.text[i] = file.data[l.offset + i]
Texts(lines) == UNION {ToSet(l.text) : l \in lines}

\* An answer under way has whole lines, and all that is before its offset.
AnswerInv(c) ==
  LET r == call[c]
      chunk == call[c].chunk IN
  r.pc = "answered" =>
    /\ r.inode \in 1..inodes /\ chunk.inode = r.inode
    /\ r.follow /\ r.raced => r.inode \in raced
    /\ \A f \in AllFiles : f.ino = r.inode /\ ~r.raced /\ (r.follow => f.ino \notin raced) =>
         /\ \A l \in chunk.lines : TrueLine(f, l)
         /\ r.follow =>
              /\ AtLineStart(f, chunk.next)
              /\ \A i \in 1..chunk.next :
                   f.data[i] \in Newline \cup got[f.ino] \cup Texts(chunk.lines)

\* A name that is called safe is that of a segment the panel has, or of one
\* that is gone; a segment about to be removed has its record in the
\* journal, which has a torn line otherwise, or its name belonged to one that is
\* gone.
GoneName(n) == \E g \in gone : g.name = n
Journaled(n, file) == Torn \in gaps \/ [segment |-> n, end |-> Len(file.data)] \in gaps
CleanInv(c) ==
  LET r == call[c] IN
  /\ r.pc \in {"clean", "remove"} =>
       \A n \in r.names : (n \in DOMAIN sealed /\ Delivered(sealed[n])) \/ GoneName(n)
  /\ r.pc = "remove" =>
       /\ r.id \in r.names
       /\ \/ r.id \in DOMAIN sealed /\ Journaled(r.id, sealed[r.id])
          \/ GoneName(r.id)

CallInv(c) == OpenInv(c) /\ AnswerInv(c) /\ CleanInv(c)

RemovedInv ==
  \A g \in gone : Reused(g) \/ (Delivered(g.file) /\ Journaled(g.name, g.file))

ReaderInv == ReaderTypes /\ CatalogInv /\ CursorInv /\ (\A c \in Calls : CallInv(c)) /\ RemovedInv

\* A file that grows keeps its inode, and what it has.
Prefix(f, g) ==
  /\ g.ino = f.ino /\ Len(f.data) <= Len(g.data)
  /\ \A i \in 1..Len(f.data) : g.data[i] = f.data[i]

\* What no step of the log, of the panel or of a request takes back.
Grows ==
  /\ \A f \in AllFiles' : (\E e \in AllFiles : Prefix(e, f)) \/ (f.data = <<>> /\ f.ino = inodes + 1)
  /\ \A n \in DOMAIN sealed : (n \in DOMAIN sealed' /\ sealed'[n] = sealed[n]) \/ \E g \in gone' : g.name = n
  /\ inodes \in Nat /\ inodes' \in Nat /\ inodes <= inodes'
  /\ gone \subseteq gone' /\ gaps \subseteq gaps' /\ raced \subseteq raced'
  /\ \A i \in Inodes : got[i] \subseteq got'[i]

\* Every file has its inode to itself, and inodes last.
FilesInv ==
  /\ inodes \in Nat /\ \A i \in 1..inodes : i \in Inodes
  /\ \A f \in AllFiles : f \in File /\ f.data \in Seq(Bytes) /\ Len(f.data) \in Nat /\ f.ino \in 1..inodes
  /\ \A f, g \in AllFiles : f.ino = g.ino => f = g
  /\ \A n \in DOMAIN sealed : n \in Names /\ sealed[n] \in AllFiles
  /\ active # None => active \in AllFiles
  /\ \A g \in gone : g.name \in Names /\ g.file \in AllFiles
  /\ \A n \in DOMAIN sealed : \A g \in gone : g.name = n => g.file.ino < sealed[n].ino

\* That is so in every state of the log.
LEMMA FileFacts == LogInv => FilesInv
<1> SUFFICES ASSUME LogInv  PROVE FilesInv
  OBVIOUS
<1>0. inodes \in Nat /\ Renamed \in Nat /\ Renamed <= Budget /\ taken \in Nat /\ taken <= Total /\ Total \in Nat
  BY StreamAssumption DEF LogInv, NumbersInv, Types, LogTypeOK
<1>10. /\ active = None \/ active \in File
       /\ DOMAIN sealed \subseteq Names /\ \A n \in DOMAIN sealed : sealed[n] \in File
       /\ \A g \in gone : g.name \in Names /\ g.file \in File
  BY StreamAssumption DEF LogInv, NumbersInv, Types, LogTypeOK
<1>1. Renamed <= inodes /\ inodes <= Renamed + 1 /\ (active # None => inodes = Renamed + 1)
  <2>1. inodes \in Nat
    BY <1>0
  <2>2. Renamed = inodes \/ Renamed = inodes - 1
    BY DEF Renamed
  <2>3. active # None => Renamed = inodes - 1
    BY DEF Renamed
  <2> QED
    BY <2>1, <2>2, <2>3
<1>2. /\ active # None => active.ino = inodes
      /\ \A n \in DOMAIN sealed : sealed[n].ino <= Renamed
      /\ \A g \in gone : g.file.ino <= Renamed
      /\ \A m, n \in DOMAIN sealed : sealed[m].ino = sealed[n].ino => m = n
      /\ \A n \in DOMAIN sealed : \A g \in gone : sealed[n].ino # g.file.ino
      /\ \A g, h \in gone : g.file.ino = h.file.ino => g = h
      /\ \A n \in DOMAIN sealed : \A g \in gone : g.name = n => g.file.ino < sealed[n].ino
  BY DEF LogInv, InodesInv
<1>3. \A f \in AllFiles : f \in File /\ f.data \in Seq(Bytes) /\ Len(f.data) \in Nat /\ f.ino \in Nat /\ f.ino # 0
  <2>1. \A f \in AllFiles : f \in File
    BY <1>10 DEF AllFiles, Files
  <2> QED
    BY <2>1 DEF File
<1>4. \A f \in AllFiles : f.ino \in 1..inodes
  <2>1. \A f \in AllFiles : f.ino <= Renamed \/ f.ino = inodes
    BY <1>2 DEF AllFiles, Files
  <2> QED
    <3>1. ASSUME NEW f \in AllFiles  PROVE f.ino \in 1..inodes
      <4>1. f.ino \in Nat /\ f.ino # 0 /\ (f.ino <= Renamed \/ f.ino = inodes)
        BY <2>1, <1>3
      <4>2. inodes \in Nat /\ Renamed \in Nat /\ Renamed <= inodes
        BY <1>0, <1>1
      <4> QED
        BY <4>1, <4>2
    <3> QED
      BY <3>1
<1>5. \A i \in 1..inodes : i \in Inodes
  <2>1. Out \in Nat /\ Out <= taken /\ taken = Out + Len(pump.pending) /\ Len(pump.pending) \in Nat /\ pump.pending \in Seq(Bytes)
    BY Memory DEF LogInv
  <2>2. Budget <= taken
    <3>1. pump.pending # <<>> => Len(pump.pending) # 0
      BY <2>1
    <3> QED
      BY <2>1, <3>1, <1>0 DEF Budget
  <2>3. Budget \in Nat
    BY <2>1 DEF Budget
  <2>4. inodes \in Nat /\ Renamed \in Nat /\ Renamed <= Budget /\ taken \in Nat /\ taken <= Total /\ Total \in Nat
    BY <1>0
  <2>5. inodes <= Renamed + 1
    BY <1>1
  <2>6. inodes <= Total + 1
    BY <2>2, <2>3, <2>4, <2>5
  <2> QED
    BY <2>4, <2>6 DEF Inodes
<1>9. ASSUME NEW h \in AllFiles
      PROVE  \/ active # None /\ h = active
             \/ \E n \in DOMAIN sealed : h = sealed[n]
             \/ \E k \in gone : h = k.file
  <2>1. h \in {sealed[n] : n \in DOMAIN sealed} \/ (active # None /\ h = active) \/ h \in {k.file : k \in gone}
    BY DEF AllFiles, Files
  <2> QED
    BY <2>1
<1>6. ASSUME NEW f \in AllFiles, NEW g \in AllFiles, f.ino = g.ino  PROVE f = g
  <2>1. CASE f.ino = Renamed + 1
    <3>1. Renamed \in Nat /\ g.ino = Renamed + 1
      BY <1>0, <1>6, <2>1
    <3>2. ASSUME NEW h \in AllFiles, h.ino = Renamed + 1  PROVE h = active
      <4>1. (active # None /\ h = active) \/ (h.ino <= Renamed /\ h.ino \in Nat)
        BY <1>9, <1>2, <1>3, <3>2
      <4> QED
        BY <3>1, <3>2, <4>1
    <3> QED
      BY <3>1, <3>2, <2>1
  <2>2. CASE f.ino # Renamed + 1
    <3>1. \A h \in {f, g} : (\E n \in DOMAIN sealed : h = sealed[n]) \/ \E k \in gone : h = k.file
      BY <1>9, <2>2, <1>1, <1>2, <1>6
    <3> QED
      BY <3>1, <1>2, <1>6
  <2> QED
    BY <2>1, <2>2
<1>7. /\ \A n \in DOMAIN sealed : sealed[n] \in AllFiles
      /\ active # None => active \in AllFiles
      /\ \A g \in gone : g.file \in AllFiles
  BY DEF AllFiles, Files
<1> QED
  BY <1>0, <1>10, <1>2, <1>3, <1>4, <1>5, <1>6, <1>7 DEF FilesInv

\* The log renames a segment once, and gives inodes out in order.
LEMMA SealedStep ==
  ASSUME LogInv, LogNext \/ NodeKilled
  PROVE  /\ inodes' \in Nat /\ inodes <= inodes'
         /\ \A n \in DOMAIN sealed : n \in DOMAIN sealed' /\ sealed'[n] = sealed[n]
<1> DEFINE Kept == \A n \in DOMAIN sealed : n \in DOMAIN sealed' /\ sealed'[n] = sealed[n]
<1>0. inodes \in Nat /\ JournalInv
  BY DEF LogInv, Types, LogTypeOK
<1>1. ASSUME NEW name, name \notin DOMAIN sealed,
             sealed' = [n \in DOMAIN sealed \cup {name} |-> IF n = name THEN active ELSE sealed[n]]
      PROVE  Kept
  BY <1>1
<1>2. UNCHANGED sealed \/ RecoverRename \/ SealRename
  BY DEF LogNext, Seal, NodeKilled, StartPump, RecoverUnlink, OpenWriter, PumpRead, PumpStop, WriteLine,
         WriteSealed, SealJournal, SealWriteJournal, SealUnjournal, SealReopen, PumpClose, CoreLog, CoreExit, Tick, diskVars
<1>6. Kept
  <2>1. CASE UNCHANGED sealed
    BY <2>1
  <2>2. CASE RecoverRename
    <3>1. CASE /\ journal \notin DOMAIN sealed
               /\ sealed' = [n \in DOMAIN sealed \cup {journal} |-> IF n = journal THEN active ELSE sealed[n]]
      BY <1>1, <3>1
    <3> QED
      BY <2>1, <2>2, <3>1 DEF RecoverRename
  <2>3. CASE SealRename
    <3>1. pump.target \notin DOMAIN sealed
      BY <1>0, <2>3 DEF SealRename, JournalInv
    <3>2. CASE sealed' = [n \in DOMAIN sealed \cup {pump.target} |-> IF n = pump.target THEN active ELSE sealed[n]]
      BY <1>1, <3>1, <3>2
    <3> QED
      BY <2>1, <2>3, <3>2 DEF SealRename
  <2> QED
    BY <1>2, <2>1, <2>2, <2>3
<1>7. inodes' = inodes \/ inodes' = inodes + 1
  BY DEF LogNext, Seal, NodeKilled, StartPump, RecoverRename, RecoverUnlink, OpenWriter, PumpRead,
     PumpStop, WriteLine,
         WriteSealed, SealJournal, SealWriteJournal, SealRename, SealUnjournal, SealReopen, PumpClose, CoreLog, CoreExit, Tick, diskVars
<1> QED
  BY <1>0, <1>6, <1>7

\* A step of the log appends to files and opens empty ones.
LEMMA LogGrows ==
  ASSUME LogInv, ReaderTypes, LogNext \/ NodeKilled, UNCHANGED <<gone, gaps, raced, got>>
  PROVE  Grows
<1>0. inodes \in Nat /\ \A f \in AllFiles : Len(f.data) \in Nat
  BY FileFacts DEF FilesInv
<1>1. inodes' \in Nat /\ inodes <= inodes' /\ \A n \in DOMAIN sealed : n \in DOMAIN sealed' /\ sealed'[n] = sealed[n]
  BY SealedStep
<1>2. Quiet \/ \E n : Written(n)
  BY StepShape
<1>3. \A f \in AllFiles : Prefix(f, f)
  BY <1>0 DEF Prefix
<1>4. ASSUME NEW f \in AllFiles'
      PROVE  (\E e \in AllFiles : Prefix(e, f)) \/ (f.data = <<>> /\ f.ino = inodes + 1)
  <2>1. CASE f \in AllFiles
    BY <1>3, <2>1
  <2>2. CASE f \in Files' /\ Quiet
    BY <1>3, <2>2 DEF Quiet, AllFiles
  <2>3. CASE f \in Files' /\ \E n : Written(n)
    <3>1. PICK n : Written(n)
      BY <2>3
    <3>2. active \in AllFiles
      BY <3>1 DEF Written, AllFiles, Files
    <3>3. Len(active.data) \in Nat /\ n \in Nat
      <4>1. pump.pending \in Seq(Bytes)
        BY DEF LogInv, Types, LogTypeOK
      <4> QED
        BY <4>1, <3>1, <3>2, <1>0 DEF Written, Write
    <3>4. Prefix(active, active')
      BY <3>1, <3>3 DEF Prefix, Written
    <3>5. f = active' \/ f \in Files
      BY <2>3, <3>1 DEF Written, Files
    <3> QED
      BY <1>3, <3>2, <3>4, <3>5 DEF AllFiles
  <2>4. f \in Files' \/ f \in AllFiles
    BY <1>4 DEF AllFiles
  <2> QED
    BY <1>2, <2>1, <2>2, <2>3, <2>4
<1> QED
  BY <1>0, <1>1, <1>4 DEF Grows
-----------------------------------------------------------------------------
(* The text of a chunk. *)

\* A part of a text.
LEMMA TextPart ==
  ASSUME NEW t \in Seq(Bytes), NEW m \in Nat, NEW n \in Nat, n <= Len(t)
  PROVE  LET part == SubSeq(t, m + 1, n) IN
         /\ part \in Seq(Bytes) /\ Len(part) = (IF m < n THEN n - m ELSE 0)
         /\ \A i \in 1..Len(part) : part[i] = t[m + i]
<1> DEFINE part == SubSeq(t, m + 1, n)
<1>0. Len(t) \in Nat /\ \A i \in 1..Len(t) : t[i] \in Bytes
  OBVIOUS
<1>1. \A i \in m + 1..n : t[i] \in Bytes
  BY <1>0
<1>2. /\ part \in Seq(Bytes) /\ Len(part) = IF m + 1 <= n THEN n - (m + 1) + 1 ELSE 0
      /\ \A i \in 1..n - (m + 1) + 1 : part[i] = t[(m + 1) + i - 1]
  <2>1. m + 1 \in Int /\ n \in Int
    OBVIOUS
  <2> QED
    BY <1>1, <2>1, SubSeqProperties
<1> HIDE DEF part
<1>3. Len(part) = IF m < n THEN n - m ELSE 0
  BY <1>2
<1>4. ASSUME NEW i \in 1..Len(part)  PROVE part[i] = t[m + i]
  <2>1. i \in 1..n - (m + 1) + 1 /\ (m + 1) + i - 1 = m + i
    BY <1>3
  <2> QED
    BY <1>2, <2>1
<1> QED
  BY <1>2, <1>3, <1>4 DEF part

\* The newlines of a text, and the first and the last of them.
LEMMA NewlinesFacts ==
  ASSUME NEW t \in Seq(Bytes)
  PROVE  /\ \A i : i \in Newlines(t) <=> i \in 1..Len(t) /\ t[i] \in Newline
         /\ Newlines(t) # {} =>
              /\ FirstOf(Newlines(t)) \in Newlines(t) /\ \A j \in Newlines(t) : FirstOf(Newlines(t)) <= j
              /\ LastOf(Newlines(t)) \in Newlines(t) /\ \A j \in Newlines(t) : j <= LastOf(Newlines(t))
<1> DEFINE S == Newlines(t)
<1>0. Len(t) \in Nat
  OBVIOUS
<1>1. \A i : i \in S <=> i \in 1..Len(t) /\ t[i] \in Newline
  BY DEF Newlines
<1>2. S \in SUBSET Nat /\ S \in SUBSET (0..Len(t))
  BY <1>0, <1>1
<1> HIDE DEF S
<1>3. ASSUME S # {}
      PROVE  /\ FirstOf(S) \in S /\ \A j \in S : FirstOf(S) <= j
             /\ LastOf(S) \in S /\ \A j \in S : j <= LastOf(S)
  <2>1. \E m \in S : \A k \in S : m <= k
    BY <1>2, <1>3, NatMinimum
  <2>2. \E m \in S : \A k \in S : k <= m
    BY <1>0, <1>2, <1>3, NatMaximum
  <2> QED
    BY <2>1, <2>2, Zenon DEF FirstOf, LastOf
<1> QED
  BY <1>1, <1>3 DEF S

\* A text that is read from a file, beginning after an offset.
ReadFrom(text, base, file) ==
  /\ text \in Seq(Bytes) /\ base \in Nat
  /\ text = <<>> \/ base + Len(text) <= Len(file.data)
  /\ \A i \in 1..Len(text) : text[i] = file.data[base + i]

\* What is dropped ends with a newline, unless nothing is left.
LEMMA DropTrue ==
  ASSUME NEW file \in File, NEW text, NEW base, ReadFrom(text, base, file)
  PROVE  LET rest == DropPartialFirstLine(text, base) IN
         /\ ReadFrom(rest.text, rest.offset, file)
         /\ rest.text = <<>> \/ AtLineStart(file, rest.offset) \/ rest.text[1] \in Newline
<1>0. text \in Seq(Bytes) /\ base \in Nat /\ Len(text) \in Nat /\ Len(file.data) \in Nat
  BY DEF ReadFrom, File
<1>1. CASE text = <<>> \/ text[1] \in Newline
  BY <1>1 DEF DropPartialFirstLine
<1>2. CASE ~(text = <<>> \/ text[1] \in Newline) /\ Newlines(text) = {}
  <2>1. DropPartialFirstLine(text, base) = [text |-> <<>>, offset |-> base]
    BY <1>2 DEF DropPartialFirstLine
  <2>2. ReadFrom(<<>>, base, file)
    BY <1>0 DEF ReadFrom
  <2> QED
    BY <2>1, <2>2
<1>3. CASE ~(text = <<>> \/ text[1] \in Newline) /\ Newlines(text) # {}
  <2> DEFINE n == FirstOf(Newlines(text))
             part == SubSeq(text, n + 1, Len(text))
  <2>1. DropPartialFirstLine(text, base) = [text |-> part, offset |-> base + n]
    BY <1>3 DEF DropPartialFirstLine
  <2>2. n \in 1..Len(text) /\ text[n] \in Newline
    BY <1>0, <1>3, NewlinesFacts
  <2> HIDE DEF n
  <2>3. n \in Nat /\ n <= Len(text) /\ Len(text) <= Len(text)
    BY <1>0, <2>2
  <2>4. /\ part \in Seq(Bytes) /\ Len(part) = (IF n < Len(text) THEN Len(text) - n ELSE 0)
        /\ \A i \in 1..Len(part) : part[i] = text[n + i]
    BY <1>0, <2>3, TextPart
  <2> HIDE DEF part
  <2>5. Len(part) \in Nat /\ n + Len(part) = Len(text) /\ (part # <<>> => Len(part) # 0)
    BY <1>0, <2>3, <2>4
  <2>6. base + Len(text) <= Len(file.data) /\ \A i \in 1..Len(text) : text[i] = file.data[base + i]
    BY <1>3 DEF ReadFrom
  <2>7. (base + n) + Len(part) <= Len(file.data) /\ base + n \in Nat
    BY <1>0, <2>3, <2>5, <2>6
  <2>8. ASSUME NEW i \in 1..Len(part)  PROVE part[i] = file.data[(base + n) + i]
    <3>1. n + i \in 1..Len(text) /\ base + (n + i) = (base + n) + i
      BY <1>0, <2>3, <2>5
    <3> QED
      BY <2>4, <2>6, <3>1
  <2>9. ReadFrom(part, base + n, file)
    BY <2>4, <2>7, <2>8 DEF ReadFrom
  <2>10. AtLineStart(file, base + n)
    <3>1. file.data[base + n] \in Newline
      BY <2>2, <2>6
    <3>2. base + n <= Len(file.data)
      BY <1>0, <2>3, <2>5, <2>7
    <3> QED
      BY <3>1, <3>2 DEF AtLineStart
  <2> QED
    BY <2>1, <2>9, <2>10
<1> QED
  BY <1>1, <1>2, <1>3

\* The lines of a chunk are whole lines of the file, where they say.
LEMMA SplitTrue ==
  ASSUME NEW file \in File, NEW text, NEW base, ReadFrom(text, base, file),
         NEW l \in SplitCompleteLines(text, base)
  PROVE  /\ l \in LineRecord
         /\ text = <<>> \/ AtLineStart(file, base) \/ text[1] \in Newline => TrueLine(file, l)
<1>0. text \in Seq(Bytes) /\ base \in Nat /\ Len(text) \in Nat /\ Len(file.data) \in Nat
  BY DEF ReadFrom, File
<1>1. PICK s \in Spans(text) :
        l = [offset |-> base + s[1], text |-> SubSeq(text, s[1] + 1, s[2] - 1), stamp |-> Stamp[text[s[2]]]]
  BY DEF SplitCompleteLines
<1> DEFINE a == s[1]
           b == s[2]
<1>2. /\ a \in {0} \cup Newlines(text) /\ b \in Newlines(text)
      /\ a + 1 < b /\ \A k \in Newlines(text) : ~(a < k /\ k < b)
  BY DEF Spans
<1>3. l = [offset |-> base + a, text |-> SubSeq(text, a + 1, b - 1), stamp |-> Stamp[text[b]]]
  BY <1>1
<1> HIDE DEF a, b
<1>4. \A i : i \in Newlines(text) <=> i \in 1..Len(text) /\ text[i] \in Newline
  BY <1>0, NewlinesFacts
<1>5. /\ a \in Nat /\ b \in 1..Len(text) /\ b \in Nat /\ b - 1 \in Nat /\ b - 1 <= Len(text) /\ text[b] \in Newline
      /\ a = 0 \/ (a \in 1..Len(text) /\ text[a] \in Newline)
  BY <1>0, <1>2, <1>4
<1> DEFINE part == SubSeq(text, a + 1, b - 1)
<1>6. /\ part \in Seq(Bytes) /\ Len(part) = (IF a < b - 1 THEN (b - 1) - a ELSE 0)
      /\ \A i \in 1..Len(part) : part[i] = text[a + i]
  BY <1>0, <1>5, TextPart
<1>7. /\ l = [offset |-> base + a, text |-> part, stamp |-> Stamp[text[b]]]
      /\ l.offset = base + a /\ l.text = part /\ l.stamp = Stamp[text[b]]
  BY <1>3
<1> HIDE DEF part
<1>8. Len(part) = (b - 1) - a /\ Len(part) \in Nat
  BY <1>2, <1>5, <1>6
<1>9. base + Len(text) <= Len(file.data) /\ \A i \in 1..Len(text) : text[i] = file.data[base + i]
  <2>1. text # <<>>
    BY <1>5
  <2> QED
    BY <2>1 DEF ReadFrom
<1>10. \A i \in Newlines(text) : AtLineStart(file, base + i)
  <2>1. ASSUME NEW i \in Newlines(text)  PROVE AtLineStart(file, base + i)
    <3>1. i \in 1..Len(text) /\ text[i] \in Newline
      BY <1>4
    <3>2. base + i <= Len(file.data) /\ file.data[base + i] \in Newline
      BY <1>0, <1>9, <3>1
    <3> QED
      BY <3>2 DEF AtLineStart
  <2> QED
    BY <2>1
<1>11. ASSUME text = <<>> \/ AtLineStart(file, base) \/ text[1] \in Newline
       PROVE  AtLineStart(file, base + a)
  <2>1. CASE a = 0
    <3>1. base + a = base
      BY <1>0, <2>1
    <3>2. 1 \notin Newlines(text)
      BY <1>2, <1>5, <2>1
    <3>3. text # <<>> /\ 1 \in 1..Len(text)
      BY <1>0, <1>5
    <3> QED
      BY <1>4, <1>11, <3>1, <3>2, <3>3
  <2> QED
    BY <1>2, <1>10, <2>1
<1>12. AtLineStart(file, l.offset + Len(l.text) + 1)
  <2>1. l.offset + Len(l.text) + 1 = base + b
    BY <1>0, <1>5, <1>7, <1>8
  <2> QED
    BY <1>2, <1>10, <2>1
<1>13. ASSUME NEW i \in 1..Len(part)  PROVE part[i] = file.data[(base + a) + i]
  <2>1. a + i \in 1..Len(text) /\ base + (a + i) = (base + a) + i
    BY <1>0, <1>5, <1>8
  <2> QED
    BY <1>6, <1>9, <2>1
<1>14. text = <<>> \/ AtLineStart(file, base) \/ text[1] \in Newline => TrueLine(file, l)
  BY <1>7, <1>11, <1>12, <1>13 DEF TrueLine
<1>15. l \in LineRecord
  <2>1. base + a \in Nat
    BY <1>0, <1>5
  <2> QED
    BY <1>5, <1>6, <1>7, <2>1 DEF LineRecord
<1> QED
  BY <1>14, <1>15

\* The next chunk starts at the start of a line, and what is before it is in
\* the lines of this one.
LEMMA NextPassed ==
  ASSUME NEW file \in File, NEW text, NEW base, ReadFrom(text, base, file), AtLineStart(file, base)
  PROVE  /\ AtLineStart(file, NextOffset(text, base))
         /\ \A i \in 1..NextOffset(text, base) :
              i \in 1..base \/ file.data[i] \in Newline \cup Texts(SplitCompleteLines(text, base))
<1>0. text \in Seq(Bytes) /\ base \in Nat /\ Len(text) \in Nat /\ Len(file.data) \in Nat
  BY DEF ReadFrom, File
<1> DEFINE N == Newlines(text)
           L == LastOf(N)
<1>1. CASE N = {}
  BY <1>1 DEF NextOffset
<1>2. CASE N # {}
  <2>1. NextOffset(text, base) = base + L
    BY <1>2 DEF NextOffset
  <2>2. \A i : i \in N <=> i \in 1..Len(text) /\ text[i] \in Newline
    BY <1>0, NewlinesFacts
  <2>3. L \in N /\ \A j \in N : j <= L
    BY <1>0, <1>2, NewlinesFacts
  <2>4. base + Len(text) <= Len(file.data) /\ \A i \in 1..Len(text) : text[i] = file.data[base + i]
    <3>1. text # <<>>
      BY <1>0, <2>2, <2>3
    <3> QED
      BY <3>1 DEF ReadFrom
  <2>5. L \in 1..Len(text) /\ text[L] \in Newline
    BY <2>2, <2>3
  <2> HIDE DEF L
  <2>6. AtLineStart(file, base + L)
    <3>1. base + L <= Len(file.data) /\ file.data[base + L] \in Newline
      BY <1>0, <2>4, <2>5
    <3> QED
      BY <3>1 DEF AtLineStart
  <2>7. ASSUME NEW j \in 1..L, text[j] \notin Newline
        PROVE  \E l \in SplitCompleteLines(text, base) : text[j] \in ToSet(l.text)
    <3> DEFINE After == {k \in N : j < k}
               Before == {k \in 0..Len(text) : k < j /\ k \in {0} \cup N}
    <3>0. j \in Nat /\ j # 0 /\ j <= L /\ L \in Nat /\ j # L /\ L <= Len(text) /\ j \notin N
      BY <1>0, <2>2, <2>5, <2>7
    <3>1. PICK b \in After : \A k \in After : b <= k
      <4>1. L \in After
        BY <2>3, <3>0
      <4>2. After \in SUBSET Nat
        BY <1>0, <2>2
      <4> HIDE DEF After
      <4> QED
        BY <4>1, <4>2, NatMinimum
    <3>2. PICK a \in Before : \A k \in Before : k <= a
      <4>1. 0 \in Before
        BY <1>0, <3>0
      <4>2. Before \in SUBSET (0..Len(text))
        OBVIOUS
      <4> HIDE DEF Before
      <4> QED
        BY <1>0, <4>1, <4>2, NatMaximum
    <3>3. b \in N /\ j < b /\ b \in 1..Len(text) /\ text[b] \in Newline
      BY <2>2, <3>1
    <3>4. a \in 0..Len(text) /\ a < j /\ a \in {0} \cup N
      BY <3>2
    <3>5. ASSUME NEW k \in N, a < k, k < b  PROVE FALSE
      <4>1. k \in 1..Len(text) /\ k \in Nat
        BY <1>0, <2>2
      <4>2. CASE j < k
        <5>1. k \in After
          BY <4>2
        <5> QED
          BY <3>1, <3>3, <3>5, <4>1, <5>1
      <4>3. CASE k < j
        <5>1. k \in Before
          BY <4>1, <4>3, <1>0
        <5> QED
          BY <3>2, <3>4, <3>5, <4>1, <5>1
      <4> QED
        BY <3>0, <4>1, <4>2, <4>3
    <3> HIDE DEF After, Before
    <3>6. a + 1 < b /\ a \in Nat /\ b \in Nat /\ b - 1 \in Nat /\ b - 1 <= Len(text) /\ a < b - 1
      BY <1>0, <3>0, <3>3, <3>4
    <3>7. <<a, b>> \in Spans(text)
      BY <3>3, <3>4, <3>5, <3>6 DEF Spans
    <3> DEFINE part == SubSeq(text, a + 1, b - 1)
               l == [offset |-> base + a, text |-> part, stamp |-> Stamp[text[b]]]
    <3>8. l \in SplitCompleteLines(text, base)
      <4> DEFINE s == <<a, b>>
      <4>1. s[1] = a /\ s[2] = b /\ s \in Spans(text)
        BY <3>7
      <4> HIDE DEF s
      <4>2. l = [offset |-> base + s[1], text |-> SubSeq(text, s[1] + 1, s[2] - 1), stamp |-> Stamp[text[s[2]]]]
        BY <4>1
      <4> QED
        BY <4>1, <4>2, Zenon DEF SplitCompleteLines
    <3>9. part \in Seq(Bytes) /\ Len(part) = (b - 1) - a /\ \A i \in 1..Len(part) : part[i] = text[a + i]
      <4>1. /\ part \in Seq(Bytes) /\ Len(part) = (IF a < b - 1 THEN (b - 1) - a ELSE 0)
            /\ \A i \in 1..Len(part) : part[i] = text[a + i]
        BY <1>0, <3>6, TextPart
      <4> QED
        BY <3>6, <4>1
    <3> HIDE DEF part
    <3>10. j - a \in 1..Len(part) /\ a + (j - a) = j
      BY <3>0, <3>3, <3>4, <3>6, <3>9
    <3>11. text[j] \in ToSet(part)
      <4>1. part[j - a] = text[j]
        BY <3>9, <3>10
      <4> QED
        BY <3>10, <4>1 DEF ToSet
    <3> QED
      BY <3>8, <3>11
  <2>8. ASSUME NEW i \in 1..(base + L), i \notin 1..base
        PROVE  file.data[i] \in Newline \cup Texts(SplitCompleteLines(text, base))
    <3> DEFINE j == i - base
    <3>1. j \in 1..L /\ j \in 1..Len(text) /\ i = base + j
      BY <1>0, <2>5, <2>8
    <3> HIDE DEF j
    <3>2. file.data[i] = text[j]
      BY <2>4, <3>1
    <3>3. CASE text[j] \in Newline
      BY <3>2, <3>3
    <3>4. CASE text[j] \notin Newline
      <4>1. \E l \in SplitCompleteLines(text, base) : text[j] \in ToSet(l.text)
        BY <2>7, <3>1, <3>4
      <4> QED
        BY <3>2, <4>1 DEF Texts
    <3> QED
      BY <3>3, <3>4
  <2> QED
    BY <2>1, <2>6, <2>8
<1> QED
  BY <1>1, <1>2

\* Offsets are numbers.
LEMMA NextOffsetType ==
  ASSUME NEW text \in Seq(Bytes), NEW base \in Nat
  PROVE  NextOffset(text, base) \in Nat
<1> DEFINE L == LastOf(Newlines(text))
<1>1. Newlines(text) # {} => L \in 1..Len(text)
  BY NewlinesFacts
<1> HIDE DEF L
<1>2. Len(text) \in Nat
  OBVIOUS
<1>3. Newlines(text) # {} => base + L \in Nat
  BY <1>1, <1>2
<1> QED
  BY <1>3 DEF NextOffset, L
-----------------------------------------------------------------------------
(* What the steps of others leave to a request. *)

\* The start of a line stays the start of a line.
LEMMA PrefixKeeps ==
  ASSUME NEW e, NEW f, Prefix(e, f), Len(e.data) \in Nat, Len(f.data) \in Nat, NEW n \in Nat, AtLineStart(e, n)
  PROVE  AtLineStart(f, n) /\ \A i \in 1..n : i \in 1..Len(e.data) /\ f.data[i] = e.data[i]
<1>1. CASE n = 0
  BY <1>1 DEF AtLineStart
<1>2. CASE n # 0
  <2>1. n <= Len(e.data) /\ e.data[n] \in Newline
    BY <1>2 DEF AtLineStart
  <2>2. n \in 1..Len(e.data) /\ n <= Len(f.data)
    BY <1>2, <2>1 DEF Prefix
  <2>3. \A i \in 1..n : i \in 1..Len(e.data) /\ f.data[i] = e.data[i]
    BY <2>2 DEF Prefix
  <2> QED
    BY <2>1, <2>2, <2>3 DEF AtLineStart, Prefix
<1> QED
  BY <1>1, <1>2

\* A line that a file has it has for ever.
LEMMA TrueLineKept ==
  ASSUME NEW e, NEW f, Prefix(e, f), Len(e.data) \in Nat, Len(f.data) \in Nat,
         NEW l \in LineRecord, TrueLine(e, l)
  PROVE  TrueLine(f, l)
<1>1. l.offset \in Nat /\ l.text \in Seq(Bytes) /\ Len(l.text) \in Nat
  BY DEF LineRecord
<1> DEFINE o == l.offset
           z == l.offset + Len(l.text) + 1
<1>2. o \in Nat /\ z \in Nat /\ AtLineStart(e, o) /\ AtLineStart(e, z)
  BY <1>1 DEF TrueLine
<1>3. \A i \in 1..Len(l.text) : l.offset + i \in 1..z
  BY <1>1
<1> HIDE DEF o, z
<1>4. AtLineStart(f, o) /\ AtLineStart(f, z) /\ \A i \in 1..z : f.data[i] = e.data[i]
  BY <1>2, PrefixKeeps
<1> QED
  BY <1>3, <1>4 DEF TrueLine, o, z

\* What the panel has been given of a file it has been given for ever.
LEMMA PassedKept ==
  ASSUME FilesInv, FilesInv', Grows, NEW f \in AllFiles', NEW e \in AllFiles, Prefix(e, f),
         NEW n \in Nat, Passed(e, n)
  PROVE  Passed(f, n)'
<1>1. Len(e.data) \in Nat /\ Len(f.data) \in Nat /\ e.ino \in Inodes /\ f.ino = e.ino
  BY DEF FilesInv, Prefix
<1>2. AtLineStart(f, n) /\ \A i \in 1..n : f.data[i] = e.data[i]
  BY <1>1, PrefixKeeps DEF Passed
<1>3. got[f.ino] \subseteq got'[f.ino]
  BY <1>1 DEF Grows
<1> QED
  BY <1>1, <1>2, <1>3 DEF Passed

\* A file that a request knows of is the one it was.
LEMMA KnownFile ==
  ASSUME FilesInv, Grows, NEW f \in AllFiles', f.ino \in 1..inodes
  PROVE  \E e \in AllFiles : Prefix(e, f)
<1>1. (\E e \in AllFiles : Prefix(e, f)) \/ f.ino = inodes + 1
  BY DEF Grows
<1>2. f.ino # inodes + 1
  BY DEF FilesInv
<1> QED
  BY <1>1, <1>2

\* A request that is between its Stat and its Open keeps what it knows,
LEMMA OpenKept ==
  ASSUME FilesInv, FilesInv', Grows, ReaderTypes, NEW c \in Calls, call'[c] = call[c], OpenInv(c)
  PROVE  OpenInv(c)'
<1> SUFFICES ASSUME call[c].pc = "open"
             PROVE  /\ call[c].inode \in 1..inodes'
                    /\ IF call[c].follow THEN call[c].since = None ELSE call[c].tail
                    /\ \A f \in AllFiles' : f.ino = call[c].inode /\ call[c].follow /\ f.ino \notin raced' =>
                         ~call[c].tail /\ Passed(f, call[c].start)'
  BY DEF OpenInv
<1>1. /\ call[c].inode \in 1..inodes
      /\ IF call[c].follow THEN call[c].since = None ELSE call[c].tail
      /\ \A f \in AllFiles : f.ino = call[c].inode /\ call[c].follow /\ f.ino \notin raced =>
           ~call[c].tail /\ Passed(f, call[c].start)
  BY DEF OpenInv
<1>2. call[c].inode \in 1..inodes' /\ raced \subseteq raced'
  BY <1>1 DEF Grows
<1>3. call[c].start \in Nat
  BY DEF ReaderTypes, CallRecord
<1>4. ASSUME NEW f \in AllFiles', f.ino = call[c].inode, call[c].follow, f.ino \notin raced'
      PROVE  ~call[c].tail /\ Passed(f, call[c].start)'
  <2>1. PICK e \in AllFiles : Prefix(e, f)
    BY <1>1, <1>4, KnownFile
  <2>2. ~call[c].tail /\ Passed(e, call[c].start)
    BY <1>1, <1>2, <1>4, <2>1 DEF Prefix
  <2>3. PICK n \in Nat : n = call[c].start
    BY <1>3
  <2>4. Passed(f, n)'
    BY <2>1, <2>2, <2>3, PassedKept
  <2> QED
    BY <2>2, <2>3, <2>4
<1> QED
  BY <1>1, <1>2, <1>4

\* so does one whose answer is under way,
LEMMA AnswerKept ==
  ASSUME FilesInv, FilesInv', Grows, ReaderTypes, NEW c \in Calls, call'[c] = call[c], AnswerInv(c)
  PROVE  AnswerInv(c)'
<1> DEFINE r == call[c]
           lines == call[c].chunk.lines
           Holds(f) == /\ \A l \in lines : TrueLine(f, l)
                       /\ r.follow =>
                            /\ AtLineStart(f, r.chunk.next)
                            /\ \A i \in 1..r.chunk.next : f.data[i] \in Newline \cup got[f.ino] \cup Texts(lines)
<1> SUFFICES ASSUME r.pc = "answered"
             PROVE  /\ r.inode \in 1..inodes' /\ r.chunk.inode = r.inode
                    /\ r.follow /\ r.raced => r.inode \in raced'
                    /\ \A f \in AllFiles' : f.ino = r.inode /\ ~r.raced /\ (r.follow => f.ino \notin raced') =>
                         /\ \A l \in lines : TrueLine(f, l)
                         /\ r.follow =>
                              /\ AtLineStart(f, r.chunk.next)
                              /\ \A i \in 1..r.chunk.next :
                                   f.data[i] \in Newline \cup got'[f.ino] \cup Texts(lines)
  BY DEF AnswerInv
<1>1. /\ r.inode \in 1..inodes /\ r.chunk.inode = r.inode
      /\ r.follow /\ r.raced => r.inode \in raced
      /\ \A f \in AllFiles : f.ino = r.inode /\ ~r.raced /\ (r.follow => f.ino \notin raced) => Holds(f)
  BY DEF AnswerInv
<1>2. r.inode \in 1..inodes' /\ raced \subseteq raced'
  BY <1>1 DEF Grows
<1>3. r.chunk.next \in Nat /\ \A l \in lines : l \in LineRecord
  BY DEF ReaderTypes, CallRecord, ChunkRecord
<1>4. ASSUME NEW f \in AllFiles', f.ino = r.inode, ~r.raced, r.follow => f.ino \notin raced'
      PROVE  /\ \A l \in lines : TrueLine(f, l)
             /\ r.follow =>
                  /\ AtLineStart(f, r.chunk.next)
                  /\ \A i \in 1..r.chunk.next : f.data[i] \in Newline \cup got'[f.ino] \cup Texts(lines)
  <2>1. PICK e \in AllFiles : Prefix(e, f)
    BY <1>1, <1>4, KnownFile
  <2>2. e.ino = f.ino /\ Len(e.data) \in Nat /\ Len(f.data) \in Nat /\ e.ino \in Inodes
    BY <2>1 DEF Prefix, FilesInv
  <2>3. Holds(e)
    BY <1>1, <1>2, <1>4, <2>2
  <2>4. \A l \in lines : TrueLine(f, l)
    BY <1>3, <2>1, <2>2, <2>3, TrueLineKept
  <2>5. ASSUME r.follow
        PROVE  /\ AtLineStart(f, r.chunk.next)
               /\ \A i \in 1..r.chunk.next : f.data[i] \in Newline \cup got'[f.ino] \cup Texts(lines)
    <3>1. PICK n \in Nat : n = r.chunk.next
      BY <1>3
    <3>2. AtLineStart(e, n) /\ \A i \in 1..n : e.data[i] \in Newline \cup got[e.ino] \cup Texts(lines)
      BY <2>3, <2>5, <3>1
    <3>3. AtLineStart(f, n) /\ \A i \in 1..n : f.data[i] = e.data[i]
      BY <2>1, <2>2, <3>2, PrefixKeeps
    <3>4. got[e.ino] \subseteq got'[e.ino]
      BY <2>2 DEF Grows
    <3>5. \A i \in 1..n : f.data[i] \in Newline \cup got'[f.ino] \cup Texts(lines)
      BY <2>2, <3>2, <3>3, <3>4
    <3> QED
      BY <3>1, <3>3, <3>5
  <2> QED
    BY <2>4, <2>5
<1> QED
  BY <1>1, <1>2, <1>4

\* What was delivered stays delivered.
LEMMA DeliveredKept ==
  ASSUME Grows, NEW f, f.ino \in Inodes, Delivered(f)
  PROVE  Delivered(f)'
<1>1. got[f.ino] \subseteq got'[f.ino] /\ raced \subseteq raced'
  BY DEF Grows
<1> QED
  BY <1>1 DEF Delivered

\* and one that removes segments.
LEMMA CleanKept ==
  ASSUME FilesInv, Grows, NEW c \in Calls, call'[c] = call[c], CleanInv(c)
  PROVE  CleanInv(c)'
<1> DEFINE r == call[c]
<1> SUFFICES /\ r.pc \in {"clean", "remove"} =>
                  \A n \in r.names : (n \in DOMAIN sealed' /\ Delivered(sealed[n])') \/ GoneName(n)'
             /\ r.pc = "remove" =>
                  /\ r.id \in r.names
                  /\ \/ r.id \in DOMAIN sealed' /\ (Torn \in gaps' \/ [segment |-> r.id, end |-> Len(sealed'[r.id].data)] \in gaps')
                     \/ GoneName(r.id)'
  BY DEF CleanInv, Journaled
<1>1. \A n : GoneName(n) => GoneName(n)'
  BY DEF GoneName, Grows
<1>2. \A n \in DOMAIN sealed : (n \in DOMAIN sealed' /\ sealed'[n] = sealed[n]) \/ GoneName(n)'
  BY DEF GoneName, Grows
<1>3. ASSUME NEW n \in DOMAIN sealed, Delivered(sealed[n])
      PROVE  (n \in DOMAIN sealed' /\ Delivered(sealed[n])') \/ GoneName(n)'
  <2>1. CASE n \in DOMAIN sealed' /\ sealed'[n] = sealed[n]
    <3>1. PICK f : f = sealed[n]
      OBVIOUS
    <3>2. f.ino \in Inodes
      BY <3>1 DEF FilesInv
    <3>3. Delivered(f)'
      BY <1>3, <3>1, <3>2, DeliveredKept
    <3> QED
      BY <2>1, <3>1, <3>3 DEF Delivered
  <2> QED
    BY <1>2, <2>1
<1>4. ASSUME r.pc \in {"clean", "remove"}, NEW n \in r.names
      PROVE  (n \in DOMAIN sealed' /\ Delivered(sealed[n])') \/ GoneName(n)'
  <2>1. (n \in DOMAIN sealed /\ Delivered(sealed[n])) \/ GoneName(n)
    BY <1>4 DEF CleanInv
  <2> QED
    BY <1>1, <1>3, <2>1
<1>5. ASSUME r.pc = "remove"
      PROVE  /\ r.id \in r.names
             /\ \/ r.id \in DOMAIN sealed' /\ (Torn \in gaps' \/ [segment |-> r.id, end |-> Len(sealed'[r.id].data)] \in gaps')
                \/ GoneName(r.id)'
  <2>1. /\ r.id \in r.names
        /\ \/ r.id \in DOMAIN sealed /\ Journaled(r.id, sealed[r.id])
           \/ GoneName(r.id)
    BY <1>5 DEF CleanInv
  <2>2. gaps \subseteq gaps'
    BY DEF Grows
  <2> QED
    BY <1>1, <1>2, <2>1, <2>2 DEF Journaled
<1> QED
  BY <1>4, <1>5

\* A request keeps what it knows while others take their steps.
LEMMA CallKept ==
  ASSUME FilesInv, FilesInv', Grows, ReaderTypes, NEW c \in Calls, call'[c] = call[c], CallInv(c)
  PROVE  CallInv(c)'
BY OpenKept, AnswerKept, CleanKept DEF CallInv

\* A catalog keeps: a segment in it stays, or is gone.
LEMMA CatalogKept ==
  ASSUME FilesInv, Grows, ReaderTypes, CatalogInv, UNCHANGED catalog
  PROVE  /\ CatalogInv'
         /\ \A e \in catalog' : e.id \in Names \cup {Active} /\ e.inode \in 1..inodes' /\ e.size \in Nat
<1>1. ASSUME NEW e \in catalog, e.id \in Names
      PROVE  \/ e.id \in DOMAIN sealed' /\ e.inode = sealed'[e.id].ino /\ e.size = Len(sealed'[e.id].data)
             \/ \E g \in gone' : g.name = e.id
  <2>1. CASE \E g \in gone : g.name = e.id
    BY <2>1 DEF Grows
  <2>2. CASE e.id \in DOMAIN sealed /\ e.inode = sealed[e.id].ino /\ e.size = Len(sealed[e.id].data)
    BY <2>2 DEF Grows
  <2> QED
    BY <1>1, <2>1, <2>2 DEF CatalogInv
<1>2. \A e \in catalog : e.id \in Names \cup {Active} /\ e.inode \in 1..inodes' /\ e.size \in Nat
  BY DEF ReaderTypes, Grows
<1> QED
  BY <1>1, <1>2 DEF CatalogInv

\* The panel keeps what it has while files grow and new ones are opened.
LEMMA CursorKept ==
  ASSUME FilesInv, FilesInv', Grows, ReaderTypes, CursorInv, UNCHANGED cursor
  PROVE  CursorInv'
<1>1. ASSUME NEW f \in AllFiles', f.ino \notin raced'
      PROVE  Passed(f, cursor[f.ino])'
  <2>0. f.ino \in Inodes /\ cursor[f.ino] \in Nat
    BY DEF FilesInv, ReaderTypes
  <2>1. CASE \E e \in AllFiles : Prefix(e, f)
    <3>1. PICK e \in AllFiles : Prefix(e, f)
      BY <2>1
    <3>2. PICK n \in Nat : n = cursor[f.ino]
      BY <2>0
    <3>3. Passed(e, n)
      BY <1>1, <3>1, <3>2 DEF CursorInv, Prefix, Grows
    <3>4. Passed(f, n)'
      BY <3>1, <3>3, PassedKept
    <3> QED
      BY <3>2, <3>4
  <2>2. CASE f.ino = inodes + 1
    <3>1. f.ino > inodes
      BY <2>2 DEF FilesInv
    <3>2. cursor[f.ino] = 0
      BY <2>0, <3>1 DEF CursorInv
    <3> QED
      BY <3>2 DEF Passed, AtLineStart
  <2> QED
    BY <2>1, <2>2 DEF Grows
<1>2. ASSUME NEW i \in Inodes, i > inodes'  PROVE cursor'[i] = 0
  <2>1. i > inodes
    BY <1>2, StreamAssumption DEF Grows, Inodes
  <2> QED
    BY <2>1 DEF CursorInv
<1> QED
  BY <1>1, <1>2 DEF CursorInv

\* What was removed stays delivered and recorded.
LEMMA RemovedKept ==
  ASSUME FilesInv, Grows, RemovedInv, UNCHANGED gone
  PROVE  RemovedInv'
<1>1. ASSUME NEW g \in gone
      PROVE  Reused(g)' \/ (Delivered(g.file)' /\ Journaled(g.name, g.file)')
  <2>1. CASE Reused(g)
    BY <2>1 DEF Reused
  <2>2. CASE Delivered(g.file) /\ Journaled(g.name, g.file)
    <3>1. g.file.ino \in Inodes
      BY DEF FilesInv
    <3>2. Delivered(g.file)'
      BY <2>2, <3>1, DeliveredKept
    <3> QED
      BY <2>2, <3>2 DEF Grows, Journaled
  <2> QED
    BY <2>1, <2>2 DEF RemovedInv
<1> QED
  BY <1>1 DEF RemovedInv

\* A step of a request that leaves the files alone.
LEMMA StillGrows ==
  ASSUME FilesInv, UNCHANGED <<active, sealed, inodes, gone>>,
         gaps \subseteq gaps', raced \subseteq raced', \A i \in Inodes : got[i] \subseteq got'[i]
  PROVE  Grows
<1>1. AllFiles' = AllFiles
  BY DEF AllFiles, Files
<1>2. \A f \in AllFiles : Prefix(f, f)
  BY DEF Prefix, FilesInv
<1> QED
  BY <1>1, <1>2 DEF Grows, FilesInv

\* A step of one request leaves the others what they know.
LEMMA CallsStep ==
  ASSUME FilesInv, FilesInv', Grows, ReaderInv, NEW c \in Calls, NEW r \in CallRecord,
         call' = [call EXCEPT ![c] = r], CallInv(c)'
  PROVE  call' \in [Calls -> CallRecord] /\ \A d \in Calls : CallInv(d)'
<1>1. call \in [Calls -> CallRecord] /\ ReaderTypes /\ \A d \in Calls : CallInv(d)
  BY DEF ReaderInv, ReaderTypes
<1>2. ASSUME NEW d \in Calls  PROVE CallInv(d)'
  <2>1. CASE d = c
    BY <2>1
  <2>2. CASE d # c
    <3>1. call'[d] = call[d]
      BY <1>1, <2>2
    <3> QED
      BY <1>1, <3>1, CallKept
  <2> QED
    BY <2>1, <2>2
<1> QED
  BY <1>1, <1>2

\* A request that is over knows nothing.
LEMMA IdleType ==
  IdleCall \in CallRecord /\ IdleCall.pc = "idle"
<1>1. NoChunk \in ChunkRecord
  BY DEF NoChunk, ChunkRecord
<1> QED
  BY <1>1 DEF IdleCall, CallRecord

\* A request that is over has nothing to keep.
LEMMA IdleHolds ==
  ASSUME NEW c \in Calls, call'[c] = IdleCall
  PROVE  CallInv(c)'
<1>1. call'[c].pc = "idle"
  BY IdleType
<1> QED
  BY <1>1 DEF CallInv, OpenInv, AnswerInv, CleanInv
-----------------------------------------------------------------------------
(* The steps. *)

\* A path leads to one of the files.
LEMMA AtFile ==
  ASSUME FilesInv, NEW id, At(id) # None
  PROVE  At(id) \in AllFiles /\ Len(At(id).data) \in Nat /\ At(id).ino \in 1..inodes /\ At(id).ino \in Inodes
<1>1. At(id) \in AllFiles
  BY DEF At, FilesInv
<1> QED
  BY <1>1 DEF FilesInv

\* A step of one request that leaves the panel and the files alone.
LEMMA RequestStep ==
  ASSUME FilesInv, FilesInv', Grows, ReaderInv, NEW c \in Calls, NEW r \in CallRecord,
         call' = [call EXCEPT ![c] = r], CallInv(c)', UNCHANGED <<gone, catalog, cursor, got>>,
         GapTypes',
         raced' \subseteq Inodes, requests' \in 0..MaxRequests
  PROVE  ReaderInv'
<1>1. ReaderTypes /\ CatalogInv /\ CursorInv /\ RemovedInv
  BY DEF ReaderInv
<1>2. call' \in [Calls -> CallRecord] /\ \A d \in Calls : CallInv(d)'
  BY CallsStep
<1>3. /\ CatalogInv'
      /\ \A e \in catalog' : e.id \in Names \cup {Active} /\ e.inode \in 1..inodes' /\ e.size \in Nat
  BY <1>1, CatalogKept
<1>4. CursorInv'
  BY <1>1, CursorKept
<1>5. RemovedInv'
  BY <1>1, RemovedKept
<1>6. ReaderTypes'
  BY <1>1, <1>2, <1>3 DEF ReaderTypes
<1> QED
  BY <1>2, <1>3, <1>4, <1>5, <1>6 DEF ReaderInv

\* The bound of the requests.
LEMMA Counted ==
  ASSUME ReaderTypes, NEW c, Begin(c)
  PROVE  requests' \in 0..MaxRequests
BY ReaderAssumption DEF ReaderTypes, Begin

\* What a Stat finds: a follower starts where it was, or has all there is.
LEMMA StatStep ==
  ASSUME FilesInv, ReaderInv, UNCHANGED <<active, sealed, inodes, gone, raced, got>>, NEW c \in Calls,
         NEW id \in Names \cup {Active}, NEW expected \in Inodes \cup {None}, NEW offset \in Nat \cup {None},
         NEW limit \in Nat \cup {None}, NEW since \in {None, Since}, NEW follow \in BOOLEAN,
         Stat(c, id, expected, offset, limit, since, follow),
         follow => /\ expected # None /\ offset # None /\ limit # None /\ since = None
                   /\ offset < limit /\ offset = cursor[expected],
         ~follow => offset = None
  PROVE  UNCHANGED call \/ \E r \in CallRecord : call' = [call EXCEPT ![c] = r] /\ CallInv(c)'
<1> DEFINE file == At(id)
           size == Len(file.data)
           tail == offset = None \/ offset > size
           start == IF tail THEN Monus(size, TailBytes) ELSE offset
           snapshotEnd == IF limit = None THEN size ELSE Lesser(limit, size)
           readEnd == Lesser(snapshotEnd, start + MaxRead)
           request == [IdleCall EXCEPT !.pc = "open", !.id = id, !.inode = file.ino, !.follow = follow,
                         !.tail = tail, !.start = start, !.end = readEnd, !.since = since]
           changed == IF file = None THEN TRUE ELSE expected \notin {None, file.ino}
           chunk == [inode |-> file.ino, lines |-> {}, next |-> snapshotEnd]
<1>0. /\ \/ changed /\ UNCHANGED call
         \/ ~changed /\ start < readEnd /\ call' = [call EXCEPT ![c] = request]
         \/ ~changed /\ start >= readEnd /\ call' = [call EXCEPT ![c] = Answered(request, chunk, FALSE)]
      /\ call \in [Calls -> CallRecord] /\ CursorInv
  BY DEF Stat, ReaderInv, ReaderTypes
<1>1. CASE changed
  BY <1>0, <1>1
<1>2. CASE ~changed
  <2>1. file # None /\ expected \in {None, file.ino}
    BY <1>2
  <2>2. file \in AllFiles /\ size \in Nat /\ file.ino \in 1..inodes /\ file.ino \in Inodes
    BY <2>1, AtFile
  <2>3. AllFiles' = AllFiles /\ \A f \in AllFiles : f.ino = file.ino => f = file
    BY <2>2 DEF AllFiles, Files, FilesInv
  <2> HIDE DEF file
  <2> HIDE DEF size
  <2>4. tail \in BOOLEAN /\ start \in Nat /\ snapshotEnd \in Nat /\ readEnd \in Nat
    BY <2>2, ReaderAssumption DEF Monus, Lesser
\* A follower whose file is the one it began with.
  <2>5. ASSUME follow, file.ino \notin raced
        PROVE  /\ ~tail /\ start = offset /\ Passed(file, start) /\ offset < limit
               /\ start >= readEnd => snapshotEnd = start
    <3>1. offset = cursor[file.ino] /\ offset \in Nat /\ limit \in Nat /\ offset < limit
      BY <2>1, <2>5
    <3>2. Passed(file, offset)
      BY <1>0, <2>2, <2>5, <3>1 DEF CursorInv
    <3>3. offset <= size
      BY <2>2, <3>1, <3>2 DEF Passed, AtLineStart, size
    <3>4. ~tail /\ start = offset
      BY <2>2, <3>1, <3>3, StreamAssumption
    <3>5. snapshotEnd = Lesser(limit, size)
      BY <3>1, StreamAssumption
    <3> HIDE DEF start, snapshotEnd, tail
    <3>6. ASSUME start >= readEnd  PROVE snapshotEnd = start
      <4>1. MaxRead \in Nat \ {0}
        BY ReaderAssumption
      <4>2. readEnd = snapshotEnd
        BY <2>4, <3>6, <4>1 DEF Lesser
      <4> HIDE DEF readEnd
      <4> QED
        BY <2>2, <2>4, <3>1, <3>3, <3>4, <3>5, <3>6, <4>2 DEF Lesser
    <3> QED
      BY <3>1, <3>2, <3>4, <3>6
  <2> HIDE DEF start, snapshotEnd, tail, readEnd
  <2>6. CASE call' = [call EXCEPT ![c] = request]
    <3>1. /\ request \in CallRecord /\ request.pc = "open" /\ request.inode = file.ino /\ request.follow = follow
          /\ request.tail = tail /\ request.start = start /\ request.since = since
      BY <2>2, <2>4, IdleType DEF CallRecord
    <3> HIDE DEF request
    <3>2. call'[c] = request
      BY <1>0, <2>6
    <3>3. IF follow THEN since = None ELSE tail
      BY DEF tail
    <3>4. \A f \in AllFiles : f.ino = file.ino /\ follow /\ f.ino \notin raced => ~tail /\ Passed(f, start)
      BY <2>3, <2>5
    <3>5. OpenInv(c)'
      BY <2>2, <2>3, <3>1, <3>2, <3>3, <3>4 DEF OpenInv, Passed
    <3>6. AnswerInv(c)' /\ CleanInv(c)'
      BY <3>1, <3>2 DEF AnswerInv, CleanInv
    <3> QED
      BY <2>6, <3>1, <3>5, <3>6 DEF CallInv
  <2>7. CASE start >= readEnd /\ call' = [call EXCEPT ![c] = Answered(request, chunk, FALSE)]
    <3> DEFINE r == Answered(request, chunk, FALSE)
    <3>0. chunk \in ChunkRecord
      BY <2>2, <2>4 DEF ChunkRecord
    <3>1. /\ r \in CallRecord /\ r.pc = "answered" /\ r.inode = file.ino /\ r.follow = follow
          /\ r.chunk = chunk /\ r.raced = FALSE
      BY <2>2, <2>4, <3>0, IdleType DEF CallRecord, Answered
    <3>2. chunk.inode = file.ino /\ chunk.lines = {} /\ chunk.next = snapshotEnd
      OBVIOUS
    <3> HIDE DEF r, chunk
    <3>3. call'[c] = r
      BY <1>0, <2>7 DEF r
    <3>4. \A f \in AllFiles : f.ino = file.ino /\ (follow => f.ino \notin raced) =>
            (follow => /\ AtLineStart(f, snapshotEnd)
                       /\ \A i \in 1..snapshotEnd : f.data[i] \in Newline \cup got[f.ino])
      BY <2>3, <2>5, <2>7 DEF Passed
    <3>5. AnswerInv(c)'
      BY <2>2, <2>3, <3>1, <3>2, <3>3, <3>4 DEF AnswerInv
    <3>6. OpenInv(c)' /\ CleanInv(c)'
      BY <3>1, <3>3 DEF OpenInv, CleanInv
    <3> QED
      BY <2>7, <3>1, <3>5, <3>6 DEF CallInv, r
  <2> QED
    BY <1>0, <1>2, <2>6, <2>7
<1> QED
  BY <1>1, <1>2

\* Follow and View begin with a Stat.
LEMMA FollowStep ==
  ASSUME FilesInv, FilesInv', ReaderInv, NEW c \in Calls, Follow(c) \/ View(c)
  PROVE  ReaderInv'
<1>1. /\ ReaderTypes /\ Begin(c)
      /\ UNCHANGED <<active, sealed, inodes, gaps, gapTail, gone, catalog, cursor, got, raced>>
  BY DEF ReaderInv, Follow, View, logVars, diskVars, gapVars
<1>2. /\ \A i \in Inodes : cursor[i] \in Nat
      /\ \A e \in catalog : e.id \in Names \cup {Active} /\ e.inode \in Inodes /\ e.size \in Nat
      /\ GapTypes'
      /\ raced' \subseteq Inodes
  BY <1>1 DEF ReaderTypes, FilesInv, GapTypes
<1>3. UNCHANGED call \/ \E r \in CallRecord : call' = [call EXCEPT ![c] = r] /\ CallInv(c)'
  <2>1. CASE Follow(c)
    <3>1. PICK e \in catalog : cursor[e.inode] < e.size /\ Stat(c, e.id, e.inode, cursor[e.inode], e.size, None, TRUE)
      BY <2>1 DEF Follow
    <3>2. e.inode # None
      BY <1>2, StreamAssumption DEF Inodes
    <3>3. cursor[e.inode] # None /\ e.size # None /\ cursor[e.inode] \in Nat
      BY <1>2, StreamAssumption
    <3>4. /\ e.id \in Names \cup {Active} /\ e.inode \in Inodes \cup {None} /\ e.size \in Nat \cup {None}
          /\ cursor[e.inode] \in Nat \cup {None} /\ None \in {None, Since} /\ TRUE \in BOOLEAN
      BY <1>2, <3>3
    <3> QED
      BY <1>1, <3>1, <3>2, <3>3, <3>4, StatStep
  <2>2. CASE View(c)
    <3>1. PICK e \in catalog : Stat(c, e.id, None, None, None, Since, FALSE)
      BY <2>2 DEF View
    <3>2. e.id \in Names \cup {Active}
      BY <1>2
    <3> QED
      BY <1>1, <3>1, <3>2, StatStep
  <2> QED
    BY <2>1, <2>2
<1>4. Grows
  BY <1>1, StillGrows
<1>5. CASE UNCHANGED call
  <2>1. call[c] \in CallRecord /\ call' = [call EXCEPT ![c] = call[c]] /\ CallInv(c) /\ call'[c] = call[c]
    BY <1>1, <1>5 DEF ReaderTypes, ReaderInv
  <2>2. CallInv(c)'
    BY <1>1, <1>4, <2>1, CallKept
  <2>3. PICK r \in CallRecord : r = call[c]
    BY <2>1
  <2> QED
    BY <1>1, <1>2, <1>4, <2>1, <2>2, <2>3, Counted, RequestStep
<1>6. CASE \E r \in CallRecord : call' = [call EXCEPT ![c] = r] /\ CallInv(c)'
  <2>1. PICK r \in CallRecord : call' = [call EXCEPT ![c] = r] /\ CallInv(c)'
    BY <1>6
  <2> QED
    BY <1>1, <1>2, <1>4, <2>1, Counted, RequestStep
<1> QED
  BY <1>3, <1>5, <1>6

\* What a follower and a viewer read of the file they opened.
LEMMA ReadStep ==
  ASSUME FilesInv, FilesInv', ReaderInv, NEW c \in Calls, ReadOpened(c)
  PROVE  ReaderInv'
<1> DEFINE r == call[c]
           file == At(r.id)
           text == SubSeq(file.data, r.start + 1, Lesser(r.end, Len(file.data)))
           rest == IF r.tail /\ r.start > 0 THEN DropPartialFirstLine(text, r.start)
                   ELSE [text |-> text, offset |-> r.start]
           lines == Keep(SplitCompleteLines(rest.text, rest.offset), r.since)
           chunk == [inode |-> r.inode, next |-> NextOffset(rest.text, rest.offset), lines |-> lines]
           a == Answered(r, chunk, file.ino # r.inode)
<1>0. /\ ReaderTypes /\ CursorInv /\ OpenInv(c) /\ r \in CallRecord /\ r.pc = "open"
      /\ call \in [Calls -> CallRecord]
      /\ UNCHANGED <<active, sealed, inodes, gaps, gapTail, gone, catalog, cursor, got, requests>>
      /\ \/ call' = [call EXCEPT ![c] = IdleCall] /\ UNCHANGED raced
         \/ /\ file # None /\ call' = [call EXCEPT ![c] = a]
            /\ raced' = IF r.follow /\ file.ino # r.inode THEN raced \cup {r.inode} ELSE raced
  BY DEF ReaderInv, CallInv, ReaderTypes, ReadOpened, Fail, logVars, diskVars, gapVars
<1>1. /\ r.start \in Nat /\ r.end \in Nat /\ r.follow \in BOOLEAN /\ r.tail \in BOOLEAN /\ r.inode \in 1..inodes
      /\ IF r.follow THEN r.since = None ELSE r.tail
      /\ \A f \in AllFiles : f.ino = r.inode /\ r.follow /\ f.ino \notin raced => ~r.tail /\ Passed(f, r.start)
  BY <1>0 DEF CallRecord, OpenInv
<1>2. /\ GapTypes'
      /\ raced' \subseteq Inodes /\ raced \subseteq raced' /\ requests' \in 0..MaxRequests /\ r.inode \in Inodes
  BY <1>0, <1>1 DEF ReaderTypes, GapTypes, FilesInv
<1>3. Grows
  <2>1. UNCHANGED <<active, sealed, inodes, gone, gaps, got>>
    BY <1>0
  <2> QED
    BY <1>2, <2>1, StillGrows
<1>4. CASE call' = [call EXCEPT ![c] = IdleCall] /\ UNCHANGED raced
  <2>1. CallInv(c)'
    BY <1>0, <1>4, IdleHolds
  <2> QED
    BY <1>0, <1>2, <1>3, <1>4, <2>1, IdleType, RequestStep
<1>5. CASE /\ file # None /\ call' = [call EXCEPT ![c] = a]
           /\ raced' = IF r.follow /\ file.ino # r.inode THEN raced \cup {r.inode} ELSE raced
  <2>1. file \in AllFiles /\ file \in File /\ file.data \in Seq(Bytes) /\ Len(file.data) \in Nat /\ file.ino \in 1..inodes
    BY <1>5, AtFile DEF FilesInv
  <2>2. AllFiles' = AllFiles /\ \A f \in AllFiles : f.ino = file.ino => f = file
    BY <1>0, <2>1 DEF AllFiles, Files, FilesInv
  <2> HIDE DEF file
  <2>3. ReadFrom(text, r.start, file) /\ text \in Seq(Bytes)
    <3> DEFINE n == Lesser(r.end, Len(file.data))
    <3>1. n \in Nat /\ n <= Len(file.data)
      BY <1>1, <2>1 DEF Lesser
    <3> HIDE DEF n
    <3>2. /\ SubSeq(file.data, r.start + 1, n) \in Seq(Bytes)
          /\ Len(SubSeq(file.data, r.start + 1, n)) = (IF r.start < n THEN n - r.start ELSE 0)
          /\ \A i \in 1..Len(SubSeq(file.data, r.start + 1, n)) :
               SubSeq(file.data, r.start + 1, n)[i] = file.data[r.start + i]
      BY <1>1, <2>1, <3>1, TextPart
    <3> DEFINE t == SubSeq(file.data, r.start + 1, n)
    <3>3. t = text
      BY DEF n
    <3> HIDE DEF t
    <3>4. t = <<>> \/ r.start + Len(t) <= Len(file.data)
      <4>1. t # <<>> => Len(t) # 0
        BY <3>2 DEF t
      <4> QED
        BY <1>1, <2>1, <3>1, <3>2, <4>1 DEF t
    <3>5. ReadFrom(t, r.start, file)
      BY <1>1, <3>2, <3>4 DEF ReadFrom, t
    <3> QED
      BY <3>2, <3>3, <3>5 DEF t
  <2> HIDE DEF text
  <2>4. ReadFrom(rest.text, rest.offset, file)
    BY <2>1, <2>3, DropTrue
  <2>5. /\ ~r.tail => rest.text = text /\ rest.offset = r.start
        /\ (~r.tail /\ AtLineStart(file, r.start)) \/ r.tail
           => rest.text = <<>> \/ AtLineStart(file, rest.offset) \/ rest.text[1] \in Newline
    <3>1. CASE r.tail /\ r.start > 0
      BY <2>1, <2>3, <3>1, DropTrue
    <3>2. CASE ~(r.tail /\ r.start > 0)
      <4>1. rest = [text |-> text, offset |-> r.start]
        BY <3>2
      <4>2. r.tail => r.start = 0
        BY <1>1, <3>2
      <4> HIDE DEF rest
      <4> QED
        BY <4>1, <4>2 DEF AtLineStart
    <3> QED
      BY <3>1, <3>2
  <2> HIDE DEF rest
  <2>6. rest.text \in Seq(Bytes) /\ rest.offset \in Nat
    BY <2>4 DEF ReadFrom
  <2>7. \A l \in lines : /\ l \in SplitCompleteLines(rest.text, rest.offset) /\ l \in LineRecord
                         /\ r.tail \/ AtLineStart(file, r.start) => TrueLine(file, l)
    <3>1. \A l \in lines : l \in SplitCompleteLines(rest.text, rest.offset)
      BY DEF Keep
    <3>2. \A l \in SplitCompleteLines(rest.text, rest.offset) :
            /\ l \in LineRecord
            /\ rest.text = <<>> \/ AtLineStart(file, rest.offset) \/ rest.text[1] \in Newline => TrueLine(file, l)
      BY <2>1, <2>4, SplitTrue
    <3> QED
      BY <1>1, <2>5, <3>1, <3>2
  <2>8. NextOffset(rest.text, rest.offset) \in Nat
    BY <2>6, NextOffsetType
  <2>9. ASSUME r.follow, r.inode \notin raced, file.ino = r.inode
        PROVE  /\ AtLineStart(file, r.start)
               /\ AtLineStart(file, NextOffset(rest.text, rest.offset))
               /\ \A i \in 1..NextOffset(rest.text, rest.offset) :
                    file.data[i] \in Newline \cup got[file.ino] \cup Texts(lines)
    <3>1. ~r.tail /\ Passed(file, r.start)
      BY <1>1, <2>1, <2>9
    <3>2. AtLineStart(file, rest.offset) /\ rest.offset = r.start
      BY <2>5, <3>1 DEF Passed
    <3>3. lines = SplitCompleteLines(rest.text, rest.offset)
      BY <1>1, <2>9 DEF Keep
    <3>4. /\ AtLineStart(file, NextOffset(rest.text, rest.offset))
          /\ \A i \in 1..NextOffset(rest.text, rest.offset) :
               i \in 1..rest.offset \/ file.data[i] \in Newline \cup Texts(SplitCompleteLines(rest.text, rest.offset))
      BY <2>1, <2>4, <3>2, NextPassed
    <3>5. \A i \in 1..rest.offset : file.data[i] \in Newline \cup got[file.ino]
      BY <3>1, <3>2 DEF Passed
    <3> HIDE DEF lines
    <3> QED
      BY <3>1, <3>3, <3>4, <3>5 DEF Passed
  <2> HIDE DEF lines
  <2>10. chunk \in ChunkRecord /\ chunk.inode = r.inode /\ chunk.lines = lines /\ chunk.next = NextOffset(rest.text, rest.offset)
    BY <1>2, <2>7, <2>8 DEF ChunkRecord
  <2> HIDE DEF chunk
  <2>11. /\ a \in CallRecord /\ a.pc = "answered" /\ a.inode = r.inode /\ a.follow = r.follow
         /\ a.chunk = chunk /\ a.raced = (file.ino # r.inode)
    BY <1>1, <1>2, <2>10, IdleType DEF CallRecord, Answered
  <2> HIDE DEF a
  <2>12. call'[c] = a
    BY <1>0, <1>5
  <2>13. ASSUME NEW f \in AllFiles, f.ino = r.inode, ~a.raced, r.follow => f.ino \notin raced
         PROVE  /\ \A l \in lines : TrueLine(f, l)
                /\ r.follow =>
                     /\ AtLineStart(f, chunk.next)
                     /\ \A i \in 1..chunk.next : f.data[i] \in Newline \cup got[f.ino] \cup Texts(lines)
    <3>1. f = file /\ file.ino = r.inode
      BY <2>2, <2>11, <2>13
    <3>2. r.tail \/ AtLineStart(file, r.start)
      BY <1>1, <2>9, <2>13, <3>1
    <3> QED
      BY <2>7, <2>9, <2>10, <2>13, <3>1, <3>2
  <2>14. AnswerInv(c)'
    <3>1. r.follow /\ a.raced => r.inode \in raced'
      BY <1>5, <2>11
    <3>2. got' = got /\ inodes' = inodes /\ raced \subseteq raced'
      BY <1>0, <1>2
    <3> HIDE DEF r
    <3> QED
      BY <1>1, <2>2, <2>10, <2>11, <2>12, <2>13, <3>1, <3>2 DEF AnswerInv
  <2>15. OpenInv(c)' /\ CleanInv(c)'
    BY <2>11, <2>12 DEF OpenInv, CleanInv
  <2>16. CallInv(c)' /\ call' = [call EXCEPT ![c] = a]
    BY <1>5, <2>14, <2>15 DEF CallInv
  <2> QED
    BY <1>0, <1>2, <1>3, <2>11, <2>16, RequestStep
<1> QED
  BY <1>0, <1>4, <1>5

\* An answer that arrives moves the panel to where it was read to.
LEMMA TakeStep ==
  ASSUME FilesInv, FilesInv', ReaderInv, NEW c \in Calls, Take(c)
  PROVE  ReaderInv'
<1> DEFINE r == call[c]
           lines == call[c].chunk.lines
<1>0. /\ ReaderTypes /\ CatalogInv /\ CursorInv /\ RemovedInv /\ AnswerInv(c)
      /\ r \in CallRecord /\ r.pc = "answered" /\ call' = [call EXCEPT ![c] = IdleCall]
      /\ UNCHANGED <<active, sealed, inodes, gaps, gapTail, gone, catalog, raced, requests>>
      /\ \/ UNCHANGED <<cursor, got>>
         \/ /\ r.follow /\ cursor' = [cursor EXCEPT ![r.inode] = r.chunk.next]
            /\ got' = [got EXCEPT ![r.inode] = @ \cup Texts(lines)]
  BY DEF ReaderInv, CallInv, ReaderTypes, Take, Fail, Texts, logVars, diskVars, gapVars
<1>1. call \in [Calls -> CallRecord] /\ call'[c] = IdleCall
  BY <1>0 DEF ReaderTypes
<1>2. CallInv(c)' /\ IdleCall \in CallRecord
  BY <1>1, IdleHolds, IdleType
<1>3. CASE UNCHANGED <<cursor, got>>
  <2>1. Grows
    BY <1>0, <1>3, StillGrows
  <2>2. /\ GapTypes'
        /\ raced' \subseteq Inodes /\ requests' \in 0..MaxRequests
    BY <1>0 DEF ReaderTypes, GapTypes
  <2> QED
    BY <1>0, <1>2, <1>3, <2>1, <2>2, RequestStep
<1>4. CASE /\ r.follow /\ cursor' = [cursor EXCEPT ![r.inode] = r.chunk.next]
           /\ got' = [got EXCEPT ![r.inode] = @ \cup Texts(lines)]
  <2>1. /\ r.inode \in 1..inodes /\ r.inode \in Inodes /\ (r.raced => r.inode \in raced)
        /\ \A f \in AllFiles : f.ino = r.inode /\ ~r.raced /\ f.ino \notin raced =>
             /\ AtLineStart(f, r.chunk.next)
             /\ \A i \in 1..r.chunk.next : f.data[i] \in Newline \cup got[f.ino] \cup Texts(lines)
    BY <1>0, <1>4 DEF AnswerInv, FilesInv
  <2>2. r.chunk.next \in Nat /\ Texts(lines) \subseteq Bytes
    <3>1. r.chunk \in ChunkRecord
      BY <1>0 DEF CallRecord
    <3>2. \A l \in lines : l.text \in Seq(Bytes)
      BY <3>1 DEF ChunkRecord, LineRecord
    <3>3. \A l \in lines : ToSet(l.text) \subseteq Bytes
      BY <3>2 DEF ToSet
    <3> QED
      BY <3>1, <3>3 DEF ChunkRecord, Texts
  <2>3. cursor \in [Inodes -> Nat] /\ got \in [Inodes -> SUBSET Bytes]
    BY <1>0 DEF ReaderTypes
  <2> DEFINE i == r.inode
             next == r.chunk.next
             more == Texts(lines)
  <2>4. /\ cursor' \in [Inodes -> Nat] /\ got' \in [Inodes -> SUBSET Bytes]
        /\ cursor'[i] = next /\ got'[i] = got[i] \cup more
        /\ \A j \in Inodes : j # i => cursor'[j] = cursor[j] /\ got'[j] = got[j]
    <3>1. i \in Inodes /\ next \in Nat /\ more \subseteq Bytes
      BY <2>1, <2>2
    <3>2. cursor' = [cursor EXCEPT ![i] = next] /\ got' = [got EXCEPT ![i] = got[i] \cup more]
      BY <1>4
    <3> HIDE DEF i, next, more
    <3> QED
      BY <2>3, <3>1, <3>2
  <2>5. \A j \in Inodes : got[j] \subseteq got'[j]
    BY <2>4
  <2>6. Grows
    BY <1>0, <2>5, StillGrows
  <2>7. AllFiles' = AllFiles
    BY <1>0 DEF AllFiles, Files
  <2>8. CursorInv'
    <3>1. ASSUME NEW f \in AllFiles, f.ino \notin raced
          PROVE  /\ AtLineStart(f, cursor'[f.ino])
                 /\ \A k \in 1..cursor'[f.ino] : f.data[k] \in Newline \cup got'[f.ino]
      <4>0. f.ino \in Inodes
        BY DEF FilesInv
      <4>1. CASE f.ino = i
        <5>1. /\ AtLineStart(f, next)
              /\ \A k \in 1..next : f.data[k] \in Newline \cup got[i] \cup more
          BY <2>1, <3>1, <4>1
        <5> QED
          BY <2>4, <4>1, <5>1
      <4>2. CASE f.ino # i
        BY <1>0, <2>4, <3>1, <4>0, <4>2 DEF CursorInv, Passed
      <4> QED
        BY <4>1, <4>2
    <3>2. ASSUME NEW j \in Inodes, j > inodes  PROVE cursor'[j] = 0
      <4>1. j # i
        BY <2>1, <3>2, StreamAssumption DEF FilesInv, Inodes
      <4> QED
        BY <1>0, <2>4, <3>2, <4>1 DEF CursorInv
    <3> HIDE DEF i, next, more
    <3> QED
      BY <1>0, <2>7, <3>1, <3>2 DEF CursorInv, Passed
  <2>9. call' \in [Calls -> CallRecord] /\ \A d \in Calls : CallInv(d)'
    <3>1. call' = [call EXCEPT ![c] = IdleCall]
      BY <1>0
    <3> QED
      BY <1>2, <2>6, <3>1, CallsStep
  <2>10. /\ CatalogInv'
         /\ \A e \in catalog' : e.id \in Names \cup {Active} /\ e.inode \in 1..inodes' /\ e.size \in Nat
    BY <1>0, <2>6, CatalogKept
  <2>11. RemovedInv'
    BY <1>0, <2>6, RemovedKept
  <2>12. ReaderTypes'
    BY <1>0, <2>4, <2>9, <2>10 DEF ReaderTypes, GapTypes
  <2> QED
    BY <2>8, <2>9, <2>10, <2>11, <2>12 DEF ReaderInv
<1> QED
  BY <1>0, <1>3, <1>4

\* The catalog is what the paths lead to now.
LEMMA CatalogStep ==
  ASSUME FilesInv, FilesInv', ReaderInv, NEW c \in Calls, CatalogStat(c)
  PROVE  ReaderInv'
<1>0. /\ ReaderTypes /\ CatalogInv /\ CursorInv /\ RemovedInv
      /\ call \in [Calls -> CallRecord] /\ call' = [call EXCEPT ![c] = IdleCall]
      /\ UNCHANGED <<active, sealed, inodes, gaps, gapTail, gone, cursor, got, raced, requests>>
      /\ call[c].names \subseteq Names
  BY DEF ReaderInv, ReaderTypes, CatalogStat, Fail, logVars, diskVars, gapVars, CallRecord
<1>1. Grows
  BY <1>0, StillGrows
<1>2. call' \in [Calls -> CallRecord] /\ \A d \in Calls : CallInv(d)'
  <2>1. CallInv(c)' /\ IdleCall \in CallRecord
    BY <1>0, IdleHolds, IdleType
  <2> QED
    BY <1>0, <1>1, <2>1, CallsStep
<1>3. ASSUME NEW e \in catalog'
      PROVE  /\ e.id \in Names \cup {Active} /\ e.inode \in 1..inodes /\ e.size \in Nat
             /\ e.id \in Names =>
                  e.id \in DOMAIN sealed /\ e.inode = sealed[e.id].ino /\ e.size = Len(sealed[e.id].data)
  <2>1. PICK n \in call[c].names \cup {Active} :
          At(n) # None /\ e = [id |-> n, inode |-> At(n).ino, size |-> Len(At(n).data)]
    BY DEF CatalogStat
  <2>2. Len(At(n).data) \in Nat /\ At(n).ino \in 1..inodes
    BY <2>1, AtFile
  <2>3. n \in Names => n \in DOMAIN sealed /\ At(n) = sealed[n]
    BY <2>1, ReaderAssumption DEF At
  <2> QED
    BY <1>0, <2>1, <2>2, <2>3
<1>4. CatalogInv'
  BY <1>0, <1>3 DEF CatalogInv
<1>5. CursorInv'
  BY <1>0, <1>1, CursorKept
<1>6. RemovedInv'
  BY <1>0, <1>1, RemovedKept
<1>7. ReaderTypes'
  BY <1>0, <1>2, <1>3 DEF ReaderTypes, GapTypes
<1> QED
  BY <1>2, <1>4, <1>5, <1>6, <1>7 DEF ReaderInv

\* A segment that is called safe has been delivered, or is gone.
LEMMA SafeNames ==
  ASSUME FilesInv, ReaderInv, NEW n \in DOMAIN sealed, n \in Safe
  PROVE  Delivered(sealed[n]) \/ GoneName(n)
<1>1. PICK e \in catalog : e.id = n /\ cursor[e.inode] = e.size
  BY DEF Safe
<1>2. n \in Names /\ sealed[n] \in AllFiles
  BY DEF FilesInv
<1>3. (e.inode = sealed[n].ino /\ e.size = Len(sealed[n].data)) \/ GoneName(n)
  BY <1>1, <1>2 DEF ReaderInv, CatalogInv, GoneName
<1>4. CASE e.inode = sealed[n].ino /\ e.size = Len(sealed[n].data)
  <2>1. ASSUME sealed[n].ino \notin raced
        PROVE  ToSet(sealed[n].data) \subseteq Newline \cup got[sealed[n].ino]
    <3>1. \A i \in 1..Len(sealed[n].data) : sealed[n].data[i] \in Newline \cup got[sealed[n].ino]
      BY <1>1, <1>2, <1>4, <2>1 DEF ReaderInv, CursorInv, Passed
    <3>2. sealed[n].data \in Seq(Bytes)
      BY <1>2 DEF FilesInv
    <3> QED
      BY <3>1, <3>2 DEF ToSet
  <2> QED
    BY <2>1 DEF Delivered
<1> QED
  BY <1>3, <1>4

\* A catalog and a cleaning begin with the names of the segments.
LEMMA ListStep ==
  ASSUME FilesInv, FilesInv', ReaderInv, NEW c \in Calls, CatalogList(c) \/ CleanList(c)
  PROVE  ReaderInv'
<1>0. /\ ReaderTypes /\ call \in [Calls -> CallRecord] /\ requests' \in 0..MaxRequests
      /\ UNCHANGED <<active, sealed, inodes, gaps, gapTail, gone, catalog, cursor, got, raced>>
      /\ DOMAIN sealed \subseteq Names
  BY Counted DEF ReaderInv, ReaderTypes, CatalogList, CleanList, logVars, diskVars, gapVars, FilesInv
<1>1. Grows
  BY <1>0, StillGrows
<1>2. PICK label \in {"list", "clean"}, names \in SUBSET DOMAIN sealed :
        /\ call' = [call EXCEPT ![c] = [IdleCall EXCEPT !.pc = label, !.names = names]]
        /\ label = "clean" => names \subseteq Safe
  <2>1. CASE CatalogList(c)
    <3>1. "list" # "clean" /\ DOMAIN sealed \in SUBSET DOMAIN sealed
      OBVIOUS
    <3> QED
      BY <2>1, <3>1, Zenon DEF CatalogList
  <2>2. CASE CleanList(c)
    <3> DEFINE Old(retention) == {n \in DOMAIN sealed : n \in Safe /\ n[1] + retention <= today}
    <3>1. PICK retention \in 1..MaxDay :
            call' = [call EXCEPT ![c] = [IdleCall EXCEPT !.pc = "clean", !.names = Old(retention)]]
      BY <2>2, Zenon DEF CleanList
    <3>2. Old(retention) \in SUBSET DOMAIN sealed /\ Old(retention) \subseteq Safe
      OBVIOUS
    <3> HIDE DEF Old
    <3> QED
      BY <3>1, <3>2
  <2> QED
    BY <2>1, <2>2
<1> DEFINE r == [IdleCall EXCEPT !.pc = label, !.names = names]
<1>3. r \in CallRecord /\ r.pc = label /\ r.names = names
  BY <1>0, IdleType DEF CallRecord
<1> HIDE DEF r
<1>4. call'[c] = r
  BY <1>0, <1>2 DEF r
<1>5. label = "clean" => \A n \in names : n \in DOMAIN sealed' /\ (Delivered(sealed[n])' \/ GoneName(n)')
  <2>1. ASSUME label = "clean", NEW n \in names
        PROVE  n \in DOMAIN sealed' /\ (Delivered(sealed[n])' \/ GoneName(n)')
    <3>1. n \in DOMAIN sealed /\ n \in Safe
      BY <1>2, <2>1
    <3>2. Delivered(sealed[n]) \/ GoneName(n)
      BY <3>1, SafeNames
    <3> QED
      BY <1>0, <3>1, <3>2 DEF Delivered, GoneName
  <2> QED
    BY <2>1
<1>6. CallInv(c)'
  BY <1>3, <1>4, <1>5 DEF CallInv, OpenInv, AnswerInv, CleanInv
<1>7. call' = [call EXCEPT ![c] = r]
  BY <1>2 DEF r
<1> QED
  BY <1>0, <1>1, <1>3, <1>6, <1>7, RequestStep DEF ReaderTypes, GapTypes

\* The record comes before the removal, or is lost in a torn line.
LEMMA GapStep ==
  ASSUME FilesInv, FilesInv', ReaderInv, NEW c \in Calls, CleanGap(c)
  PROVE  ReaderInv'
<1> DEFINE r == call[c]
           gap(n) == [segment |-> n, end |-> Len(At(n).data)]
<1>0. /\ ReaderTypes /\ CleanInv(c) /\ call \in [Calls -> CallRecord] /\ r \in CallRecord /\ r.pc = "clean"
      /\ UNCHANGED <<active, sealed, inodes, gone, catalog, cursor, got, raced, requests>>
      /\ r.names \subseteq Names
      /\ raced \subseteq Inodes /\ requests \in 0..MaxRequests
      /\ GapTypes
  BY DEF ReaderInv, ReaderTypes, CallInv, CleanGap, diskVars, CallRecord
<1>1. \A n \in r.names : (n \in DOMAIN sealed /\ Delivered(sealed[n])) \/ GoneName(n)
  BY <1>0 DEF CleanInv
<1>2. ASSUME call' = [call EXCEPT ![c] = IdleCall], gaps \subseteq gaps', GapTypes'
      PROVE  ReaderInv'
  <2>1. Grows
    BY <1>0, <1>2, StillGrows
  <2>2. CallInv(c)' /\ IdleCall \in CallRecord
    BY <1>0, <1>2, IdleHolds, IdleType
  <2> QED
    BY <1>0, <1>2, <2>1, <2>2, RequestStep
<1>3. ASSUME NEW n \in r.names, call' = [call EXCEPT ![c] = [r EXCEPT !.names = @ \ {n}]], UNCHANGED gapVars
      PROVE  ReaderInv'
  <2> DEFINE s == [r EXCEPT !.names = @ \ {n}]
  <2>0. UNCHANGED <<gaps, gapTail>> /\ GapTypes'
    BY <1>0, <1>3 DEF gapVars, GapTypes
  <2>1. Grows
    BY <1>0, <2>0, StillGrows
  <2>2. s \in CallRecord /\ s.pc = "clean" /\ s.names = r.names \ {n}
    BY <1>0 DEF CallRecord
  <2>3. call'[c] = s /\ call' = [call EXCEPT ![c] = s]
    BY <1>0, <1>3
  <2> HIDE DEF s
  <2>4. CallInv(c)'
    BY <1>0, <1>1, <2>2, <2>3 DEF CallInv, OpenInv, AnswerInv, CleanInv, Delivered, GoneName
  <2> QED
    BY <1>0, <2>0, <2>1, <2>2, <2>3, <2>4, RequestStep
<1>4. ASSUME NEW n \in r.names, At(n) # None
      PROVE  /\ n \in DOMAIN sealed /\ At(n) = sealed[n] /\ n \in Names
             /\ GapWritten(gap(n)) => gaps \subseteq gaps' /\ GapTypes' /\ (Torn \in gaps' \/ gap(n) \in gaps')
             /\ GapCut(gap(n)) => gaps \subseteq gaps' /\ GapTypes'
  <2>1. n \in Names
    BY <1>0
  <2>2. n \in DOMAIN sealed /\ At(n) = sealed[n]
    BY <1>4, <2>1, ReaderAssumption DEF At
  <2>3. Len(At(n).data) \in Nat
    BY <2>2 DEF FilesInv
  <2>4. gap(n) \in GapLine /\ Torn \in GapLine
    BY <2>1, <2>3 DEF GapLine
  <2> HIDE DEF gap
  <2>5. Glued(gap(n)) \in {gap(n), Torn}
    BY DEF Glued
  <2> QED
    BY <1>0, <2>1, <2>2, <2>4, <2>5 DEF GapWritten, GapCut, GapTypes
<1>5. ASSUME NEW n \in r.names, At(n) # None, GapWritten(gap(n)),
             call' = [call EXCEPT ![c] = [r EXCEPT !.pc = "remove", !.id = n]]
      PROVE  ReaderInv'
  <2> DEFINE s == [r EXCEPT !.pc = "remove", !.id = n]
  <2>1. Grows
    BY <1>0, <1>4, <1>5, StillGrows
  <2>2. s \in CallRecord /\ s.pc = "remove" /\ s.names = r.names /\ s.id = n
    BY <1>0, <1>4, <1>5 DEF CallRecord
  <2>3. call'[c] = s /\ call' = [call EXCEPT ![c] = s]
    BY <1>0, <1>5
  <2>4. Journaled(n, sealed[n])' /\ GapTypes' /\ n \in DOMAIN sealed
    BY <1>0, <1>4, <1>5 DEF Journaled
  <2> HIDE DEF s, gap
  <2>5. CallInv(c)'
    BY <1>0, <1>1, <2>2, <2>3, <2>4 DEF CallInv, OpenInv, AnswerInv, CleanInv, Delivered, GoneName, Journaled
  <2> QED
    BY <1>0, <2>1, <2>2, <2>3, <2>4, <2>5, RequestStep
<1>6. \E n \in r.names :
        \/ call' = [call EXCEPT ![c] = [r EXCEPT !.names = @ \ {n}]] /\ UNCHANGED gapVars
        \/ /\ At(n) # None /\ GapWritten(gap(n))
           /\ call' = [call EXCEPT ![c] = [r EXCEPT !.pc = "remove", !.id = n]]
        \/ /\ At(n) # None /\ (GapCut(gap(n)) \/ GapWritten(gap(n)))
           /\ call' = [call EXCEPT ![c] = IdleCall]
        \/ call' = [call EXCEPT ![c] = IdleCall] /\ UNCHANGED gapVars
  BY Zenon DEF CleanGap, Fail
<1>7. UNCHANGED gapVars => gaps \subseteq gaps' /\ GapTypes'
  BY <1>0 DEF gapVars, GapTypes
<1> HIDE DEF gap
<1> QED
  BY <1>2, <1>3, <1>4, <1>5, <1>6, <1>7

\* The answer of a clean, and its end.
LEMMA CleanEndStep ==
  ASSUME FilesInv, FilesInv', ReaderInv, NEW c \in Calls, CleanAnswer(c) \/ CleanTake(c)
  PROVE  ReaderInv'
<1> DEFINE r == [IdleCall EXCEPT !.pc = "cleaned", !.gaps = GapJournal]
<1>0. /\ ReaderTypes /\ call \in [Calls -> CallRecord] /\ GapTypes
      /\ UNCHANGED <<active, sealed, inodes, gaps, gapTail, gone, catalog, cursor, got, raced, requests>>
      /\ raced' \subseteq Inodes /\ requests' \in 0..MaxRequests
  BY DEF ReaderInv, ReaderTypes, CleanAnswer, CleanTake, logVars, diskVars, gapVars
<1>1. Grows
  BY <1>0, StillGrows
<1>2. GapTypes'
  BY <1>0 DEF GapTypes
<1>3. \/ call' = [call EXCEPT ![c] = IdleCall]
      \/ Torn \notin GapJournal /\ call' = [call EXCEPT ![c] = r]
  BY Zenon DEF CleanAnswer, CleanTake, Fail
<1>4. CASE call' = [call EXCEPT ![c] = IdleCall]
  <2>1. CallInv(c)' /\ IdleCall \in CallRecord
    BY <1>0, <1>4, IdleHolds, IdleType
  <2> QED
    BY <1>0, <1>1, <1>2, <1>4, <2>1, RequestStep
<1>5. CASE call' = [call EXCEPT ![c] = r]
  <2>1. GapJournal \in SUBSET GapLine
    BY <1>0 DEF GapJournal, GapTypes
  <2>2. r \in CallRecord /\ r.pc = "cleaned"
    BY <2>1, IdleType DEF CallRecord
  <2> HIDE DEF r
  <2>3. call'[c] = r
    BY <1>0, <1>5
  <2>4. CallInv(c)'
    BY <2>2, <2>3 DEF CallInv, OpenInv, AnswerInv, CleanInv
  <2> QED
    BY <1>0, <1>1, <1>2, <1>5, <2>2, <2>4, RequestStep
<1> QED
  BY <1>3, <1>4, <1>5

\* A segment that is removed was delivered and is recorded, or its name was reused.
LEMMA RemoveStep ==
  ASSUME FilesInv, FilesInv', ReaderInv, NEW c \in Calls, CleanRemove(c)
  PROVE  ReaderInv'
<1> DEFINE r == call[c]
           n == call[c].id
<1>0. /\ ReaderTypes /\ CatalogInv /\ CursorInv /\ RemovedInv /\ CleanInv(c)
      /\ call \in [Calls -> CallRecord] /\ r \in CallRecord /\ r.pc = "remove"
      /\ UNCHANGED <<active, inodes, gaps, gapTail, catalog, cursor, got, raced, requests>>
      /\ raced \subseteq Inodes /\ requests \in 0..MaxRequests
      /\ GapTypes'
  BY DEF ReaderInv, ReaderTypes, GapTypes, CallInv, CleanRemove, gapVars
<1>1. CASE call' = [call EXCEPT ![c] = IdleCall] /\ UNCHANGED <<sealed, gone>>
  <2>1. Grows
    BY <1>0, <1>1, StillGrows
  <2>2. CallInv(c)' /\ IdleCall \in CallRecord
    BY <1>0, <1>1, IdleHolds, IdleType
  <2> QED
    BY <1>0, <1>1, <2>1, <2>2, RequestStep
<1>2. CASE /\ n \in DOMAIN sealed
           /\ sealed' = [m \in DOMAIN sealed \ {n} |-> sealed[m]]
           /\ gone' = gone \cup {[name |-> n, file |-> sealed[n]]}
           /\ call' = [call EXCEPT ![c] = [r EXCEPT !.pc = "clean", !.names = @ \ {n}]]
  <2>0. PICK k : k = [name |-> n, file |-> sealed[n]]
    OBVIOUS
  <2> DEFINE s == [r EXCEPT !.pc = "clean", !.names = @ \ {n}]
  <2>1. /\ DOMAIN sealed' = DOMAIN sealed \ {n} /\ \A m \in DOMAIN sealed' : m \in DOMAIN sealed /\ sealed'[m] = sealed[m]
        /\ gone' = gone \cup {k} /\ k.name = n /\ k.file = sealed[n]
    BY <1>2, <2>0
  <2>2. \A m \in DOMAIN sealed : (m \in DOMAIN sealed' /\ sealed'[m] = sealed[m]) \/ \E g \in gone' : g.name = m
    BY <2>1
  <2>3. AllFiles' \subseteq AllFiles
    <3>1. ASSUME NEW f \in AllFiles'  PROVE f \in AllFiles
      <4>1. f \in Files' \/ f = sealed[n] \/ \E g \in gone : f = g.file
        BY <2>1 DEF AllFiles
      <4>2. f \in Files' => f \in Files
        BY <1>0, <2>1 DEF Files
      <4> QED
        BY <1>2, <4>1, <4>2 DEF AllFiles, Files
    <3> QED
      BY <3>1
  <2>4. Grows
    <3>1. \A f \in AllFiles : Prefix(f, f)
      BY DEF Prefix, FilesInv
    <3>2. \A f \in AllFiles' : \E e \in AllFiles : Prefix(e, f)
      BY <2>3, <3>1
    <3>3. inodes \in Nat /\ inodes' = inodes /\ gone \subseteq gone'
      BY <1>0, <2>1 DEF FilesInv
    <3> QED
      BY <1>0, <2>2, <3>2, <3>3 DEF Grows
  <2>5. s \in CallRecord /\ s.pc = "clean" /\ s.names = r.names \ {n}
    BY <1>0 DEF CallRecord
  <2>6. call'[c] = s /\ call' = [call EXCEPT ![c] = s]
    BY <1>0, <1>2
  <2>7. \A m \in r.names : (m \in DOMAIN sealed /\ Delivered(sealed[m])) \/ GoneName(m)
    BY <1>0 DEF CleanInv
  <2>8. n \in r.names /\ (Journaled(n, sealed[n]) \/ GoneName(n))
    BY <1>0, <1>2 DEF CleanInv
  <2> HIDE DEF s
  <2>9. CallInv(c)'
    <3>1. \A m \in r.names \ {n} : (m \in DOMAIN sealed' /\ Delivered(sealed[m])') \/ GoneName(m)'
      <4>1. ASSUME NEW m \in r.names \ {n}
            PROVE  (m \in DOMAIN sealed' /\ Delivered(sealed[m])') \/ GoneName(m)'
        <5>1. CASE m \in DOMAIN sealed /\ Delivered(sealed[m])
          BY <1>0, <2>1, <4>1, <5>1 DEF Delivered
        <5>2. CASE GoneName(m)
          BY <1>2, <5>2 DEF GoneName
        <5> QED
          BY <2>7, <4>1, <5>1, <5>2
      <4> QED
        BY <4>1
    <3> QED
      BY <2>5, <2>6, <3>1 DEF CallInv, OpenInv, AnswerInv, CleanInv
  <2>10. call' \in [Calls -> CallRecord] /\ \A d \in Calls : CallInv(d)'
    BY <2>4, <2>5, <2>6, <2>9, CallsStep
  <2>11. /\ CatalogInv'
         /\ \A e \in catalog' : e.id \in Names \cup {Active} /\ e.inode \in 1..inodes' /\ e.size \in Nat
    BY <1>0, <2>4, CatalogKept
  <2>12. CursorInv'
    BY <1>0, <2>4, CursorKept
  <2>13. ASSUME GoneName(n)  PROVE \E h \in gone' : h.name = k.name /\ h.file.ino < k.file.ino
    <3>1. PICK h \in gone : h.name = n
      BY <2>13 DEF GoneName
    <3>2. h.file.ino < sealed[n].ino
      BY <1>2, <3>1 DEF FilesInv
    <3> QED
      BY <1>2, <2>1, <3>1, <3>2
  <2>14. RemovedInv'
    <3>1. ASSUME NEW g \in gone
          PROVE  Reused(g)' \/ (Delivered(g.file)' /\ Journaled(g.name, g.file)')
      BY <1>0, <1>2 DEF RemovedInv, Reused, Delivered, Journaled
    <3>2. Reused(k)' \/ (Delivered(k.file)' /\ Journaled(k.name, k.file)')
      <4>1. CASE GoneName(n)
        BY <2>13, <4>1 DEF Reused
      <4>2. CASE ~GoneName(n)
        <5>1. Delivered(sealed[n]) /\ Journaled(n, sealed[n])
          BY <2>7, <2>8, <4>2
        <5> QED
          BY <1>0, <2>1, <5>1 DEF Delivered, Journaled
      <4> QED
        BY <4>1, <4>2
    <3> QED
      BY <2>1, <3>1, <3>2 DEF RemovedInv
  <2>15. ReaderTypes'
    BY <1>0, <2>10, <2>11 DEF ReaderTypes, GapTypes
  <2> QED
    BY <2>10, <2>11, <2>12, <2>14, <2>15 DEF ReaderInv
<1> QED
  BY <1>1, <1>2 DEF CleanRemove, Fail

\* The log and the end of the node leave the panel what it has.
LEMMA OtherStep ==
  ASSUME LogInv, FilesInv, FilesInv', ReaderInv, (LogNext /\ UNCHANGED readerVars) \/ Killed
  PROVE  ReaderInv'
<1>0. /\ ReaderTypes /\ CatalogInv /\ CursorInv /\ RemovedInv
      /\ UNCHANGED <<gaps, gapTail, gone, catalog, cursor, got, raced, requests>> /\ (LogNext \/ NodeKilled)
      /\ \A d \in Calls : CallInv(d)
  BY DEF ReaderInv, readerVars, gapVars, Killed
<1>1. Grows
  BY <1>0, LogGrows
<1>2. call' \in [Calls -> CallRecord] /\ \A d \in Calls : CallInv(d)'
  <2>1. CASE call' = call
    BY <1>0, <1>1, <2>1, CallKept DEF ReaderTypes
  <2>2. CASE call' = [d \in Calls |-> IdleCall]
    BY <2>2, IdleHolds, IdleType
  <2> QED
    BY <2>1, <2>2 DEF readerVars, Killed
<1>3. /\ CatalogInv'
      /\ \A e \in catalog' : e.id \in Names \cup {Active} /\ e.inode \in 1..inodes' /\ e.size \in Nat
  BY <1>0, <1>1, CatalogKept
<1>4. CursorInv'
  BY <1>0, <1>1, CursorKept
<1>5. RemovedInv'
  BY <1>0, <1>1, RemovedKept
<1>6. ReaderTypes'
  BY <1>0, <1>2, <1>3 DEF ReaderTypes, GapTypes
<1> QED
  BY <1>2, <1>3, <1>4, <1>5, <1>6 DEF ReaderInv
-----------------------------------------------------------------------------
(* The theorems. *)

Inv == LogInv /\ ReaderInv

\* The invariant holds at the start,
LEMMA InvInit == AuditInit => Inv
<1> SUFFICES ASSUME AuditInit  PROVE Inv
  OBVIOUS
<1>1. LogInv
  BY LogInit DEF AuditInit
<1>2. FilesInv
  BY <1>1, FileFacts
<1>3. /\ gaps = {} /\ gapTail = None /\ gone = {} /\ call = [c \in Calls |-> IdleCall] /\ catalog = {}
      /\ cursor = [i \in Inodes |-> 0] /\ got = [i \in Inodes |-> {}] /\ raced = {} /\ requests = 0
      /\ active = None /\ sealed = <<>>
  BY DEF AuditInit, Init
<1>4. ReaderTypes
  BY <1>3, IdleType, ReaderAssumption DEF ReaderTypes, GapTypes
<1>5. CursorInv
  <2>1. AllFiles = {}
    BY <1>3 DEF AllFiles, Files
  <2> QED
    BY <1>3, <2>1 DEF CursorInv
<1>6. CatalogInv /\ RemovedInv
  BY <1>3 DEF CatalogInv, RemovedInv
<1>7. ASSUME NEW c \in Calls  PROVE CallInv(c)
  <2>1. call[c].pc = "idle"
    BY <1>3, IdleType
  <2> QED
    BY <2>1 DEF CallInv, OpenInv, AnswerInv, CleanInv
<1> QED
  BY <1>1, <1>4, <1>5, <1>6, <1>7 DEF Inv, ReaderInv

\* The log's invariant outlives each request, the removal of segments too.
LEMMA LogInvStep ==
  ASSUME LogInv, Next
  PROVE  LogInv'
<1>1. CASE LogNext /\ UNCHANGED readerVars
  BY <1>1, LogStep DEF readerVars
<1>2. CASE Killed
  BY <1>2, LogStep DEF Killed
<1>3. ASSUME NEW c \in Calls, Request(c)  PROVE LogInv'
  <2>1. CASE CleanRemove(c) /\ call[c].id \in DOMAIN sealed
              /\ sealed' = [m \in DOMAIN sealed \ {call[c].id} |-> sealed[m]]
              /\ gone' = gone \cup {[name |-> call[c].id, file |-> sealed[call[c].id]]}
              /\ UNCHANGED mishaps
    <3>1. PICK name \in DOMAIN sealed : name = call[c].id
      BY <2>1
    <3>2. UNCHANGED <<active, journal, inodes, pump, coreUp, fed, taken, today, refused, spilt, scraps, mishaps>>
      BY <2>1 DEF CleanRemove, streamVars, historyVars
    <3> QED
      BY <2>1, <3>1, <3>2, LogRemoval
  <2>2. CASE /\ UNCHANGED <<active, sealed, journal, inodes, pump, coreUp, fed, taken, today, refused, spilt, scraps, gone>>
             /\ UNCHANGED mishaps \/ Mishap
    BY <2>2, LogKept
  <2>3. CASE CleanRemove(c)
    BY <2>1, <2>2, <2>3 DEF CleanRemove, streamVars, historyVars
  <2>4. CASE ~CleanRemove(c)
    <3>1. UNCHANGED <<active, sealed, journal, inodes, pump, coreUp, fed, taken, today, refused, spilt, scraps, gone>>
      BY <1>3, <2>4 DEF Request, Follow, View, ReadOpened, Take, CatalogList, CatalogStat, CleanList,
         CleanGap, CleanAnswer, CleanTake,
                        logVars, diskVars, streamVars, historyVars
    <3>2. UNCHANGED mishaps \/ Mishap
      BY <1>3, <2>4 DEF Request, Follow, View, ReadOpened, Take, CatalogList, CatalogStat, CleanList,
         CleanGap, CleanAnswer, CleanTake, logVars
    <3> QED
      BY <2>2, <3>1, <3>2
  <2> QED
    BY <2>3, <2>4
<1> QED
  BY <1>1, <1>2, <1>3 DEF Next

\* and every step keeps it.
LEMMA InvStep == Inv /\ [Next]_vars => Inv'
<1> SUFFICES ASSUME LogInv, ReaderInv, [Next]_vars  PROVE LogInv' /\ ReaderInv'
  BY DEF Inv
<1>1. CASE Next
  <2>1. LogInv'
    BY <1>1, LogInvStep
  <2>2. FilesInv
    BY FileFacts
  <2>3. FilesInv'
    BY <2>1, FileFacts, PTL
  <2>4. ASSUME NEW c \in Calls, Request(c)  PROVE ReaderInv'
    BY <2>2, <2>3, <2>4, FollowStep, ReadStep, TakeStep, ListStep, CatalogStep, GapStep,
       RemoveStep, CleanEndStep DEF Request
  <2>5. (LogNext /\ UNCHANGED readerVars) \/ Killed => ReaderInv'
    BY <2>2, <2>3, OtherStep
  <2> QED
    BY <1>1, <2>1, <2>4, <2>5 DEF Next
<1>2. CASE UNCHANGED vars
  <2>1. /\ UNCHANGED <<active, sealed, journal, inodes, pump, coreUp, fed, taken, today, refused, spilt, scraps, mishaps>>
        /\ UNCHANGED <<gaps, gapTail, gone, call, catalog, cursor, got, raced, requests>>
    BY <1>2 DEF vars, logVars, diskVars, streamVars, historyVars, readerVars, gapVars
  <2>2. LogInv'
    BY <2>1, LogKept
  <2>3. FilesInv /\ ReaderTypes /\ CatalogInv /\ CursorInv /\ RemovedInv /\ \A d \in Calls : CallInv(d)
    BY FileFacts DEF ReaderInv
  <2>4. FilesInv'
    BY <2>2, FileFacts, PTL
  <2>5. Grows
    BY <2>1, <2>3, StillGrows
  <2>6. \A d \in Calls : CallInv(d)'
    BY <2>1, <2>3, <2>4, <2>5, CallKept
  <2>7. CatalogInv' /\ CursorInv' /\ RemovedInv'
    BY <2>1, <2>3, <2>4, <2>5, CatalogKept, CursorKept, RemovedKept
  <2>8. ReaderTypes'
    BY <2>1, <2>3 DEF ReaderTypes, GapTypes
  <2> QED
    BY <2>2, <2>6, <2>7, <2>8 DEF ReaderInv
<1> QED
  BY <1>1, <1>2

\* What the properties say of a request and of the panel is in the invariant.
LEMMA ChunksAreTrue == Inv => ChunkIsTrue
<1> SUFFICES ASSUME Inv, NEW c \in Calls, NEW f \in AllFiles,
                    call[c].pc = "answered", call[c].chunk.inode = f.ino,
                    ~call[c].raced, call[c].follow => f.ino \notin raced,
                    NEW l \in call[c].chunk.lines
             PROVE  /\ AtLineStart(f, l.offset) /\ AtLineStart(f, l.offset + Len(l.text) + 1)
                    /\ SubSeq(f.data, l.offset + 1, l.offset + Len(l.text)) = l.text
  BY DEF ChunkIsTrue
<1>1. FilesInv /\ ReaderTypes /\ AnswerInv(c)
  BY FileFacts DEF Inv, ReaderInv, CallInv
<1>2. TrueLine(f, l)
  BY <1>1 DEF AnswerInv
<1>3. l.offset \in Nat /\ l.text \in Seq(Bytes) /\ Len(l.text) \in Nat
  BY <1>1 DEF ReaderTypes, CallRecord, ChunkRecord, LineRecord
<1> DEFINE o == l.offset
           z == l.offset + Len(l.text)
           part == SubSeq(f.data, o + 1, z)
<1>4. o \in Nat /\ z \in Nat /\ Len(l.text) = z - o /\ o <= z
  BY <1>3
<1>5. f.data \in Seq(Bytes) /\ Len(f.data) \in Nat
  BY <1>1 DEF FilesInv
<1>6. z <= Len(f.data)
  <2>1. AtLineStart(f, z + 1)
    BY <1>2 DEF TrueLine
  <2> HIDE DEF z
  <2> QED
    BY <1>4, <1>5, <2>1 DEF AtLineStart
<1> HIDE DEF o, z
<1>7. /\ part \in Seq(Bytes) /\ Len(part) = (IF o < z THEN z - o ELSE 0)
      /\ \A i \in 1..Len(part) : part[i] = f.data[o + i]
  BY <1>4, <1>5, <1>6, TextPart
<1> HIDE DEF part
<1>8. Len(part) = Len(l.text)
  BY <1>4, <1>7
<1>9. \A i \in 1..Len(l.text) : part[i] = l.text[i]
  BY <1>2, <1>7, <1>8 DEF TrueLine, o
<1>10. part = l.text
  BY <1>3, <1>7, <1>8, <1>9, SeqEqual
<1> QED
  BY <1>2, <1>10 DEF TrueLine, o, z, part

\* The rest of the properties is in the invariant as well.
LEMMA InvImplies ==
  Inv => TypeOK /\ NothingLost /\ LinesStayWhole /\ PassedWasDelivered
<1> SUFFICES ASSUME Inv
             PROVE  TypeOK /\ NothingLost /\ LinesStayWhole /\ PassedWasDelivered
  OBVIOUS
<1>1. LogInv /\ FilesInv /\ ReaderTypes /\ CursorInv /\ RemovedInv
  BY FileFacts DEF Inv, ReaderInv
<1>2. LogTypeOK /\ NothingLost /\ LinesStayWhole
  BY <1>1, LogInvImplies
<1>3. TypeOK
  <2>1. \A g \in gone : g.name \in Names /\ g.file \in File
    BY <1>1 DEF FilesInv
  <2>2. \A c \in Calls : call[c] \in CallRecord
    BY <1>1 DEF ReaderTypes
  <2>3. \A e \in catalog : e.inode \in Inodes
    BY <1>1 DEF ReaderTypes, FilesInv
  <2> QED
    BY <1>1, <1>2, <2>1, <2>2, <2>3 DEF TypeOK, ReaderTypes, GapTypes, CallRecord
<1>4. PassedWasDelivered
  BY <1>1 DEF PassedWasDelivered, CursorInv, Passed, RemovedInv, Delivered
<1> QED
  BY <1>2, <1>3, <1>4

\* The invariant is inductive: it holds in every state of every behaviour.
THEOREM InvIsInvariant == Spec => []Inv
BY InvInit, InvStep, PTL DEF Spec

\* The files, the pump, the requests and the panel have their types; no inode
\* and no segment number beyond the bytes of the log is ever given out.
THEOREM TypeCorrect == Spec => []TypeOK
<1>1. Inv => TypeOK
  BY InvImplies
<1> QED
  BY <1>1, InvIsInvariant, PTL

\* Rotation, its recovery and the removal of segments lose, repeat and reorder
\* no byte (logrotate.go seal and recoverSegmentRotation), for a log of any
\* length, lines and files of any size, and any number of kills.
THEOREM NothingIsLost == Spec => []NothingLost
<1>1. Inv => NothingLost
  BY InvImplies
<1> QED
  BY <1>1, InvIsInvariant, PTL

\* A line that is no longer than what may be pending is in one segment or in
\* none (logrotate.go Write and writeLine).
THEOREM LinesAreWhole == Spec => []LinesStayWhole
<1>1. Inv => LinesStayWhole
  BY InvImplies
<1> QED
  BY <1>1, InvIsInvariant, PTL

\* What ReadChunk answers are whole lines of the file, where it says they are,
\* for any number of requests under way.
THEOREM ChunksOfTheFile == Spec => []ChunkIsTrue
BY ChunksAreTrue, InvIsInvariant, PTL

\* A panel that follows its offsets misses no line, and cleanSealedSegments
\* removes no segment that it has not read, but for one whose name is reused.
THEOREM NothingIsMissed == Spec => []PassedWasDelivered
<1>1. Inv => PassedWasDelivered
  BY InvImplies
<1> QED
  BY <1>1, InvIsInvariant, PTL

\* An answer that is no error is read from a journal without a torn line.
LEMMA AnswerNamesRemovals ==
  ASSUME Inv, Next, NEW c \in Calls, call[c].pc = "clean", call'[c].pc = "cleaned",
         NEW g \in gone, ~Reused(g)
  PROVE  [segment |-> g.name, end |-> Len(g.file.data)] \in call'[c].gaps
<1>0. /\ call \in [Calls -> CallRecord] /\ RemovedInv
      /\ IdleCall \in CallRecord /\ IdleCall.pc = "idle"
  BY IdleType DEF Inv, ReaderInv, ReaderTypes
<1>1. PICK d \in Calls : Request(d)
  <2>1. call' # call
    OBVIOUS
  <2>2. call' # [e \in Calls |-> IdleCall]
    BY <1>0
  <2> QED
    BY <2>1, <2>2 DEF Next, readerVars, Killed
<1>2. \E r : call' = [call EXCEPT ![d] = r]
  <2>1. ASSUME NEW id, NEW expected, NEW offset, NEW limit, NEW since, NEW follow,
               Stat(d, id, expected, offset, limit, since, follow)
        PROVE  \E r : call' = [call EXCEPT ![d] = r]
    <3>1. call = [call EXCEPT ![d] = call[d]]
      BY <1>0
    <3> QED
      BY <2>1, <3>1, Zenon DEF Stat
  <2>2. CASE Follow(d) \/ View(d)
    BY <2>1, <2>2, Zenon DEF Follow, View
  <2>3. CASE ReadOpened(d)
    BY <2>3, Zenon DEF ReadOpened, Fail
  <2>4. CASE CleanGap(d)
    BY <2>4, Zenon DEF CleanGap, Fail
  <2>5. CASE CleanList(d)
    BY <2>5, Zenon DEF CleanList
  <2>6. CASE Take(d) \/ CatalogList(d) \/ CatalogStat(d) \/ CleanRemove(d) \/ CleanAnswer(d) \/ CleanTake(d)
    BY <2>6, Zenon DEF Take, CatalogList, CatalogStat, CleanRemove, CleanAnswer, CleanTake, Fail
  <2> QED
    BY <1>1, <2>2, <2>3, <2>4, <2>5, <2>6 DEF Request
<1>3. d = c
  BY <1>0, <1>2
<1>4. CleanGap(c) \/ CleanAnswer(c)
  BY <1>1, <1>3 DEF Request, Follow, View, ReadOpened, Take, CatalogList, CatalogStat, CleanList, CleanRemove,
                    CleanTake, Begin
<1>5. ~CleanGap(c)
  <2> SUFFICES ASSUME CleanGap(c)  PROVE FALSE
    OBVIOUS
  <2>1. PICK n : \/ call' = [call EXCEPT ![c] = [call[c] EXCEPT !.names = @ \ {n}]]
                 \/ call' = [call EXCEPT ![c] = [call[c] EXCEPT !.pc = "remove", !.id = n]]
                 \/ call' = [call EXCEPT ![c] = IdleCall]
    BY Zenon DEF CleanGap, Fail
  <2> DEFINE fewer == [call[c] EXCEPT !.names = @ \ {n}]
             next == [call[c] EXCEPT !.pc = "remove", !.id = n]
  <2>2. fewer.pc = call[c].pc /\ next.pc = "remove"
    BY <1>0 DEF CallRecord
  <2>3. call'[c] \in {fewer, next, IdleCall}
    BY <1>0, <2>1
  <2> QED
    BY <1>0, <2>2, <2>3
<1>6. Torn \notin GapJournal /\ call' = [call EXCEPT ![c] = [IdleCall EXCEPT !.pc = "cleaned", !.gaps = GapJournal]]
  <2>1. CASE call' = [call EXCEPT ![c] = IdleCall]
    BY <1>0, <2>1
  <2> QED
    BY <1>4, <1>5, <2>1, Zenon DEF CleanAnswer, Fail
<1>7. call'[c].gaps = GapJournal
  BY <1>0, <1>6 DEF CallRecord
<1>8. Journaled(g.name, g.file)
  BY <1>0 DEF RemovedInv
<1> QED
  BY <1>6, <1>7, <1>8 DEF Journaled, GapJournal

\* A clean that cleanSealedSegments and readGapJournal let answer without an
\* error names a gap for every segment removed, for any number of requests,
\* failures and kills, but for a segment whose name is reused.
THEOREM RemovalsAreNamed == Spec => GapsCoverRemovals
<1>1. Inv /\ [Next]_vars =>
        [\A c \in Calls : call[c].pc = "clean" /\ call'[c].pc = "cleaned" =>
           \A g \in gone : Reused(g) \/ [segment |-> g.name, end |-> Len(g.file.data)] \in call'[c].gaps]_vars
  BY AnswerNamesRemovals
<1> QED
  BY <1>1, InvIsInvariant, PTL DEF Spec, GapsCoverRemovals
=============================================================================
