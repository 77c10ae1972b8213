------------------------- MODULE LogSegmentsProofs --------------------------
(***************************************************************************)
(* The log: LogInv is inductive for the steps of LogSegments and for the   *)
(* removal of segments, for every stream, line, file and buffer size and   *)
(* any number of days, kills and failing operations.                       *)
(*                                                                         *)
(* The argument: the pump's memory is the end of what it has read, so Out  *)
(* divides what is stored from what is pending (HoldsBytes, ContentInv);   *)
(* the journal agrees with the files at each label (JournalInv); a         *)
(* rotation takes a byte out of memory, so there are never more rotations  *)
(* than bytes and a number is always left for the next segment             *)
(* (NumbersInv, SealNumber); a step either writes nothing or writes the    *)
(* front of what is pending (StepShape), and both keep bytes and lines     *)
(* (ContentStep, LinesStep).                                               *)
(***************************************************************************)
EXTENDS AuditLog, FiniteSetTheorems, SequenceTheorems, TLAPS

\* A set of numbers has a least one.
LEMMA NatMinimum ==
  ASSUME NEW S \in SUBSET Nat, S # {}
  PROVE  \E m \in S : \A k \in S : m <= k
<1>1. PICK m \in S : \A k \in S : ~(<<k, m>> \in OpToRel(<, Nat))
  BY WFMin, NatLessThanWellFounded
<1>2. ASSUME NEW k \in S  PROVE m <= k
  <2>1. ~(k < m)
    BY <1>1 DEF OpToRel
  <2> QED
    BY <2>1
<1> QED
  BY <1>2

\* A set of numbers with a bound has a greatest one.
LEMMA NatMaximum ==
  ASSUME NEW n \in Nat, NEW S \in SUBSET (0..n), S # {}
  PROVE  \E m \in S : \A k \in S : k <= m
<1> DEFINE T == {k \in Nat : k <= n /\ n - k \in S}
<1>1. T \in SUBSET Nat /\ T # {}
  <2>1. PICK s \in S : s \in 0..n
    OBVIOUS
  <2>2. n - s \in T
    BY <2>1
  <2> QED
    BY <2>2
<1>2. PICK m \in T : \A k \in T : m <= k
  BY <1>1, NatMinimum
<1>3. n - m \in S /\ \A k \in S : n - k \in T /\ k \in 0..n
  BY <1>2
<1> QED
  BY <1>2, <1>3

\* The loop of Write takes the front of what is pending: up to a newline, or as
\* much as may be pending, or nothing when there is neither.
LEMMA PieceIsFront ==
  ASSUME NEW pending \in Seq(Bytes)
  PROVE  LET piece == Piece(pending) IN
         /\ piece \in Seq(Bytes) /\ Len(piece) <= Len(pending)
         /\ \A i \in 1..Len(piece) : piece[i] = pending[i]
         /\ \A i \in 1..(Len(piece) - 1) : pending[i] \notin Newline
         /\ \/ piece # <<>> /\ piece[Len(piece)] \in Newline
            \/ Len(piece) >= MaxPending
            \/ piece = <<>> /\ \A i \in 1..Len(pending) : pending[i] \notin Newline
<1> DEFINE I == {i \in 1..Len(pending) : pending[i] \in Newline}
           line == IF I # {} THEN CHOOSE x \in I : \A y \in I : x =< y ELSE 0
           length == IF line = 0 THEN (IF Len(pending) >= MaxPending THEN Len(pending) ELSE 0)
                     ELSE IF line > MaxPending THEN MaxPending ELSE line
<1>0. Len(pending) \in Nat /\ MaxPending \in Nat \ {0}
  BY StreamAssumption
<1>1. Piece(pending) = SubSeq(pending, 1, length)
  BY DEF Piece, SelectInSeq, Min
<1>2. IF I # {} THEN line \in I /\ \A y \in I : line <= y ELSE line = 0
  <2>0. I \in SUBSET Nat
    BY <1>0
  <2>1. CASE I # {}
    <3> HIDE DEF I
    <3>1. \E x \in I : \A y \in I : x <= y
      BY <2>1, <2>0, NatMinimum
    <3> QED
      BY <2>1, <3>1
  <2> QED
    BY <2>1
<1>3. length \in 0..Len(pending)
  BY <1>2, <1>0
<1> HIDE DEF length
<1>4. \A i \in 1..length : pending[i] \in Bytes
  BY <1>3, <1>0
<1>5. /\ SubSeq(pending, 1, length) \in Seq(Bytes)
      /\ Len(SubSeq(pending, 1, length)) = length
      /\ \A i \in 1..length : SubSeq(pending, 1, length)[i] = pending[i]
  BY <1>3, <1>4, <1>0, SubSeqProperties
<1>6. \A i \in 1..(length - 1) : pending[i] \notin Newline
  <2>1. ASSUME NEW i \in 1..(length - 1), pending[i] \in Newline PROVE FALSE
    <3>1. length \in Nat /\ i \in 1..Len(pending)
      BY <1>0, <1>3
    <3>2. i \in I
      BY <3>1, <2>1
    <3>3. line \in I /\ line <= i
      BY <3>2, <1>2
    <3> HIDE DEF I, line
    <3>4. line \in Nat \ {0}
      BY <3>3, <1>0 DEF I
    <3> QED
      BY <1>0, <3>1, <3>3, <3>4 DEF length
  <2> QED
    BY <2>1
<1>7. \/ length > 0 /\ pending[length] \in Newline
      \/ length >= MaxPending
      \/ length = 0 /\ \A i \in 1..Len(pending) : pending[i] \notin Newline
  <2>1. CASE I = {}
    <3>1. line = 0 /\ \A i \in 1..Len(pending) : pending[i] \notin Newline
      BY <2>1
    <3> HIDE DEF I, line
    <3> QED
      BY <3>1, <1>0 DEF length
  <2>2. CASE I # {}
    <3>1. line \in 1..Len(pending) /\ pending[line] \in Newline
      BY <2>2, <1>2
    <3> HIDE DEF I, line
    <3> QED
      BY <3>1, <1>0 DEF length
  <2> QED
    BY <2>1, <2>2
<1>8. Piece(pending) = <<>> <=> length = 0
  BY <1>1, <1>3, <1>5, EmptySeq
<1> QED
  BY <1>1, <1>3, <1>5, <1>6, <1>7, <1>8
-----------------------------------------------------------------------------
(* The invariant. *)

Labels == {"down", "recover", "unlink", "open", "run", "wait", "write", "append", "seal",
           "journal", "rename", "unjournal", "reopen", "close"}
PumpRecord == [pc : Labels, usable : BOOLEAN, pending : Seq(Bytes), segment : Nat,
               openDate : Nat, sealDay : Nat, target : Names \cup {None}]

Types ==
  /\ LogTypeOK /\ pump \in PumpRecord
  /\ pump.openDate <= today /\ pump.sealDay <= today
  /\ \A g \in gone : g.name \in Names /\ g.file \in File

Starting == {"down", "recover", "unlink", "open"}
Sealing  == {"journal", "rename", "unjournal", "reopen", "append"}

\* The bytes before this one have left the pump's memory.
Out == taken - Len(pump.pending)

\* What the pump holds at each label.
HoldsFile ==
  /\ pump.pc \in {"run", "wait", "write", "append", "seal", "journal", "rename"} => active # None
  /\ pump.pc = "close" /\ pump.usable => active # None
  /\ pump.pc \in {"unjournal", "reopen"} => active = None /\ ~pump.usable
HoldsBytes ==
  /\ pump.pc \in Starting => pump.pending = <<>> /\ taken = fed
  /\ pump.pc \in Starting \ {"down"} => ~coreUp
  /\ pump.pc \in Sealing \cup {"seal"} => Piece(pump.pending) # <<>>
  /\ Len(pump.pending) <= taken
  /\ \A i \in 1..Len(pump.pending) : pump.pending[i] = Out + i

GoneNames == {g.name : g \in gone}

\* The journal names the segment that the active file is about to be, or is.
JournalInv ==
  /\ pump.pc \in {"open", "run", "wait", "write", "append", "seal", "reopen"} => journal = None
  /\ pump.pc = "journal" => journal = Torn
  /\ pump.pc \in {"rename", "unjournal"} => journal = pump.target
  /\ pump.pc \in {"journal", "rename", "unjournal"} => pump.target \in Names
  /\ pump.pc \in {"journal", "rename"} => pump.target \notin DOMAIN sealed
  /\ journal \in Names =>
       IF active = None THEN journal \in DOMAIN sealed \cup GoneNames
       ELSE journal \notin DOMAIN sealed
  /\ refused # None => pump.pc = "down"
  /\ refused # "collision"
  /\ refused = "lost" => journal \in GoneNames

\* A rotation takes a byte out of the pump's memory, sooner or later.
Budget == IF pump.pc \in Sealing \cup {"close"} /\ pump.pending # <<>> THEN Out + 1 ELSE Out
Renamed == IF active = None THEN inodes ELSE inodes - 1

\* So there are never more rotations than bytes, and numbers and inodes last.
NumbersInv ==
  /\ Renamed \in Nat /\ Renamed <= Budget /\ Cardinality(DOMAIN sealed) <= Renamed
  /\ active # None /\ (journal \in Names \/ pump.pc = "journal") => Renamed + 1 <= Budget
  /\ \A n \in DOMAIN sealed : n[2] <= Budget
  /\ journal \in Names => journal[2] <= Budget
  /\ pump.pc \in {"journal", "rename", "unjournal"} => pump.target[2] <= Budget
  /\ pump.segment <= Budget

\* Inodes are given out in order: a file is older than the active one, and
\* than any that has got its name since.
InodesInv ==
  /\ active # None => active.ino = inodes
  /\ \A n \in DOMAIN sealed : sealed[n].ino <= Renamed
  /\ \A m, n \in DOMAIN sealed : sealed[m].ino = sealed[n].ino => m = n
  /\ \A g \in gone :
       /\ g.file.ino <= Renamed
       /\ \A n \in DOMAIN sealed : sealed[n].ino # g.file.ino
       /\ g.name \in DOMAIN sealed => g.file.ino < sealed[g.name].ino
  /\ \A g, h \in gone : g.file.ino = h.file.ino => g = h

GoneBytes == UNION {ToSet(g.file.data) : g \in gone}

\* What is stored was taken out of memory, in order.
ContentInv ==
  /\ Accounted(GoneBytes)
  /\ StoredInOrder
  /\ \A f \in Files : \A i \in 1..Len(f.data) : f.data[i] \in scraps \/ f.data[i] <= Out

\* A line that is all there: short, and no byte of it spilt or written twice.
Sound(l) ==
  l[2] - l[1] <= MaxPending /\ ((l[1] + 1)..l[2]) \cap (spilt \cup scraps) = {}
Inside(l) == l[1] < Out /\ Out < l[2]
Together(l) ==
  \A f \in Files : (l[1] + 1)..l[2] \subseteq ToSet(f.data) \/ ((l[1] + 1)..l[2]) \cap ToSet(f.data) = {}

\* The pump is never inside such a line, unless it has ended there.
LinesInv ==
  \A l \in Lines : Sound(l) =>
    /\ Inside(l) => pump.pc \in Starting
    /\ ~Inside(l) => Together(l)

LogInv == Types /\ HoldsFile /\ HoldsBytes /\ JournalInv /\ NumbersInv /\ InodesInv /\ ContentInv /\ LinesInv

\* seal always finds a number: there are fewer rotations than bytes.
LEMMA SealNumber ==
  ASSUME Types, HoldsBytes, NumbersInv, pump.pc = "seal"
  PROVE  LET n == CHOOSE i \in Unused : \A j \in Unused : i <= j IN
         /\ n \in 1..Total /\ n <= Out + 1
         /\ <<pump.openDate, n>> \in Names /\ <<pump.openDate, n>> \notin DOMAIN sealed
<1> DEFINE n == CHOOSE i \in Unused : \A j \in Unused : i <= j
<1>1. pump.pending \in Seq(Bytes) /\ taken \in 0..Total /\ today \in 0..MaxDay
  BY StreamAssumption DEF Types, LogTypeOK
<1>2. Piece(pump.pending) # <<>>
  BY DEF HoldsBytes, Sealing
<1>3. Len(pump.pending) \in Nat \ {0} /\ Len(pump.pending) <= taken
  BY <1>1, <1>2, PieceIsFront, EmptySeq DEF HoldsBytes
<1>4. Out + 1 \in 1..Total
  BY <1>1, <1>3, StreamAssumption DEF Out
<1>5. pump.segment <= Out /\ \A m \in DOMAIN sealed : m[2] <= Out
  BY DEF NumbersInv, Budget, Sealing
<1>6. Out + 1 \in Unused
  <2>1. pump.segment \in Nat /\ Out \in Int
    BY <1>1, <1>3 DEF Types, LogTypeOK, Out
  <2>2. <<pump.openDate, Out + 1>> \notin DOMAIN sealed
    <3>1. <<pump.openDate, Out + 1>>[2] = Out + 1
      OBVIOUS
    <3> QED
      BY <3>1, <2>1, <1>5
  <2> QED
    BY <2>1, <2>2, <1>4, <1>5 DEF Unused
<1>7. Unused \in SUBSET Nat
  BY StreamAssumption DEF Unused
<1>8. n \in Unused /\ \A j \in Unused : n <= j
  BY <1>6, <1>7, NatMinimum
<1> HIDE DEF n
<1>9. n \in 1..Total /\ n <= Out + 1 /\ <<pump.openDate, n>> \notin DOMAIN sealed
  BY <1>6, <1>8 DEF Unused
<1>10. <<pump.openDate, n>> \in Names
  <2>1. pump.openDate \in 0..MaxDay
    BY <1>1, StreamAssumption DEF Types, LogTypeOK
  <2> QED
    BY <2>1, <1>9 DEF Names
<1> QED
  BY <1>9, <1>10 DEF n

\* What a write appends, and what it leaves in memory.
LEMMA WrittenFront ==
  ASSUME NEW s \in Seq(Bytes), NEW t \in Seq(Bytes), NEW n \in 0..Len(t)
  PROVE  /\ SubSeq(t, 1, n) \in Seq(Bytes) /\ Len(SubSeq(t, 1, n)) = n
         /\ \A i \in 1..n : SubSeq(t, 1, n)[i] = t[i]
         /\ s \o SubSeq(t, 1, n) \in Seq(Bytes) /\ Len(s \o SubSeq(t, 1, n)) = Len(s) + n
         /\ \A i \in 1..Len(s) : (s \o SubSeq(t, 1, n))[i] = s[i]
         /\ \A i \in 1..n : (s \o SubSeq(t, 1, n))[Len(s) + i] = t[i]
         /\ SubSeq(t, n + 1, Len(t)) \in Seq(Bytes) /\ Len(SubSeq(t, n + 1, Len(t))) = Len(t) - n
         /\ \A i \in 1..Len(SubSeq(t, n + 1, Len(t))) : SubSeq(t, n + 1, Len(t))[i] = t[n + i]
<1> DEFINE front == SubSeq(t, 1, n)
           rest == SubSeq(t, n + 1, Len(t))
<1>0. Len(s) \in Nat /\ Len(t) \in Nat /\ n \in Nat /\ n <= Len(t)
  OBVIOUS
<1>1. \A i \in 1..Len(t) : t[i] \in Bytes
  BY <1>0
<1>2. front \in Seq(Bytes) /\ Len(front) = n /\ \A i \in 1..n : front[i] = t[i]
  <2>1. \A i \in 1..n : t[i] \in Bytes
    BY <1>0, <1>1
  <2>2. /\ front \in Seq(Bytes) /\ Len(front) = IF 1 <= n THEN n - 1 + 1 ELSE 0
        /\ \A i \in 1..n - 1 + 1 : front[i] = t[1 + i - 1]
    BY <1>0, <2>1, SubSeqProperties
  <2> QED
    BY <1>0, <2>2
<1>3. rest \in Seq(Bytes) /\ Len(rest) = Len(t) - n /\ \A i \in 1..Len(rest) : rest[i] = t[n + i]
  <2>1. \A i \in n + 1..Len(t) : t[i] \in Bytes
    BY <1>0, <1>1
  <2>2. n + 1 \in Int /\ Len(t) \in Int
    BY <1>0
  <2>3. /\ rest \in Seq(Bytes) /\ Len(rest) = IF n + 1 <= Len(t) THEN Len(t) - (n + 1) + 1 ELSE 0
        /\ \A i \in 1..Len(t) - (n + 1) + 1 : rest[i] = t[(n + 1) + i - 1]
    BY <1>0, <2>1, <2>2, SubSeqProperties
  <2> QED
    BY <1>0, <2>3
<1> HIDE DEF front, rest
<1>4. /\ s \o front \in Seq(Bytes) /\ Len(s \o front) = Len(s) + Len(front)
      /\ \A i \in 1..Len(s) + Len(front) : (s \o front)[i] = IF i <= Len(s) THEN s[i] ELSE front[i - Len(s)]
  BY <1>2, ConcatProperties
<1>5. \A i \in 1..Len(s) : (s \o front)[i] = s[i]
  BY <1>0, <1>2, <1>4
<1>6. \A i \in 1..n : (s \o front)[Len(s) + i] = t[i]
  BY <1>0, <1>2, <1>4
<1> QED
  BY <1>2, <1>3, <1>4, <1>5, <1>6 DEF front, rest

\* The loop of Write takes the front of what is pending.
LEMMA PieceFront ==
  ASSUME NEW pending \in Seq(Bytes)
  PROVE  /\ Len(Piece(pending)) \in 0..Len(pending)
         /\ Piece(pending) = SubSeq(pending, 1, Len(Piece(pending)))
<1>1. /\ Piece(pending) \in Seq(Bytes) /\ Len(Piece(pending)) <= Len(pending)
      /\ \A i \in 1..Len(Piece(pending)) : Piece(pending)[i] = pending[i]
  BY PieceIsFront
<1> DEFINE p == Piece(pending)
           q == SubSeq(pending, 1, Len(p))
<1>2. Len(p) \in 0..Len(pending)
  BY <1>1
<1> HIDE DEF p
<1>3. q \in Seq(Bytes) /\ Len(q) = Len(p) /\ \A i \in 1..Len(p) : q[i] = pending[i]
  <2>1. <<>> \in Seq(Bytes)
    OBVIOUS
  <2> QED
    BY <1>2, <2>1, WrittenFront
<1>4. p = q
  BY <1>1, <1>3, SeqEqual DEF p
<1> QED
  BY <1>2, <1>4 DEF p

\* The front of a front is a front.
LEMMA FrontOfFront ==
  ASSUME NEW t \in Seq(Bytes), NEW n \in 0..Len(t), NEW k \in 0..n
  PROVE  SubSeq(SubSeq(t, 1, n), 1, k) = SubSeq(t, 1, k)
<1> DEFINE u == SubSeq(t, 1, n)
<1>0. <<>> \in Seq(Bytes) /\ k \in 0..Len(t)
  OBVIOUS
<1>1. u \in Seq(Bytes) /\ Len(u) = n /\ \A i \in 1..n : u[i] = t[i]
  BY <1>0, WrittenFront
<1> HIDE DEF u
<1>2. SubSeq(u, 1, k) \in Seq(Bytes) /\ Len(SubSeq(u, 1, k)) = k /\ \A i \in 1..k : SubSeq(u, 1, k)[i] = u[i]
  BY <1>0, <1>1, WrittenFront
<1>3. SubSeq(t, 1, k) \in Seq(Bytes) /\ Len(SubSeq(t, 1, k)) = k /\ \A i \in 1..k : SubSeq(t, 1, k)[i] = t[i]
  BY <1>0, WrittenFront
<1>4. SubSeq(u, 1, k) = SubSeq(t, 1, k)
  <2>1. \A i \in 1..k : SubSeq(u, 1, k)[i] = SubSeq(t, 1, k)[i]
    BY <1>1, <1>2, <1>3
  <2> QED
    BY <1>2, <1>3, <2>1, SeqEqual
<1> QED
  BY <1>4 DEF u

\* A step that writes appends the first bytes that are pending.
Write(n) ==
  /\ n \in 0..Len(pump.pending)
  /\ active' = [active EXCEPT !.data = active.data \o SubSeq(pump.pending, 1, n)]

\* A file that is written to stays the file it is, and has those bytes at its end.
LEMMA ActiveKept ==
  ASSUME Types, HoldsFile, pump.pc \in {"write", "append"} \/ (pump.pc = "close" /\ pump.usable),
         NEW n, Write(n)
  PROVE  /\ active \in File /\ active' \in File /\ active # None /\ active' # None
         /\ active'.ino = active.ino /\ Len(active'.data) = Len(active.data) + n
         /\ \A i \in 1..Len(active.data) : active'.data[i] = active.data[i]
         /\ \A i \in 1..n : active'.data[Len(active.data) + i] = pump.pending[i]
<1>1. active \in File /\ pump.pending \in Seq(Bytes) /\ active # None /\ n \in 0..Len(pump.pending)
  BY DEF Types, LogTypeOK, HoldsFile, Write
<1>2. active.data \in Seq(Bytes) /\ active.ino \in Nat \ {0}
  BY <1>1 DEF File
<1> DEFINE data == active.data \o SubSeq(pump.pending, 1, n)
<1>3. /\ data \in Seq(Bytes) /\ Len(data) = Len(active.data) + n
      /\ \A i \in 1..Len(active.data) : data[i] = active.data[i]
      /\ \A i \in 1..n : data[Len(active.data) + i] = pump.pending[i]
  <2> DEFINE s == active.data
             t == pump.pending
  <2>1. s \in Seq(Bytes) /\ t \in Seq(Bytes) /\ n \in 0..Len(t)
    BY <1>1, <1>2
  <2> HIDE DEF s, t
  <2>2. /\ s \o SubSeq(t, 1, n) \in Seq(Bytes) /\ Len(s \o SubSeq(t, 1, n)) = Len(s) + n
        /\ \A i \in 1..Len(s) : (s \o SubSeq(t, 1, n))[i] = s[i]
        /\ \A i \in 1..n : (s \o SubSeq(t, 1, n))[Len(s) + i] = t[i]
    BY <2>1, WrittenFront
  <2> QED
    BY <2>2 DEF s, t
<1>4. active' = [active EXCEPT !.data = data]
  BY DEF Write
<1> HIDE DEF data
<1>5. active' \in File /\ active'.ino = active.ino /\ active'.data = data
  BY <1>1, <1>3, <1>4 DEF File
<1> QED
  BY <1>1, <1>3, <1>5, StreamAssumption

\* Whichever way its writes go, Write takes them from the front.
LEMMA WriteSteps ==
  ASSUME Types
  PROVE  /\ AppendPiece(Piece(pump.pending)) => \E n \in 0..Len(Piece(pump.pending)) : Write(n)
         /\ PumpClose => UNCHANGED active \/ (pump.usable /\ \E n : Write(n))
<1>1. pump.pending \in Seq(Bytes) /\ Len(pump.pending) \in Nat
  BY DEF Types, LogTypeOK
<1>2. SubSeq(pump.pending, 1, Len(pump.pending)) = pump.pending
  BY <1>1, SubSeqFull
<1>3. ASSUME PumpClose  PROVE UNCHANGED active \/ (pump.usable /\ \E n : Write(n))
  <2>1. CASE pump.pending = <<>> \/ ~pump.usable
    <3>1. pump.pending = <<>> => 0..(Len(pump.pending) - 1) = {}
      BY <1>1
    <3> QED
      BY <1>3, <2>1, <3>1, Zenon DEF PumpClose
  <2>2. CASE pump.usable /\ active' = [active EXCEPT !.data = active.data \o pump.pending]
    <3>1. Write(Len(pump.pending))
      BY <1>1, <1>2, <2>2, Len(pump.pending) \in 0..Len(pump.pending), Zenon DEF Write
    <3> QED
      BY <2>2, <3>1
  <2>3. CASE pump.usable /\ \E n \in 0..(Len(pump.pending) - 1) :
               active' = [active EXCEPT !.data = active.data \o SubSeq(pump.pending, 1, n)]
    <3>1. PICK n \in 0..(Len(pump.pending) - 1) :
            active' = [active EXCEPT !.data = active.data \o SubSeq(pump.pending, 1, n)]
      BY <2>3
    <3>2. n \in 0..Len(pump.pending)
      BY <1>1
    <3>3. Write(n)
      BY <3>1, <3>2, Zenon DEF Write
    <3> QED
      BY <2>3, <3>3, Zenon
  <2> QED
    BY <1>3, <2>1, <2>2, <2>3 DEF PumpClose
<1>4. ASSUME AppendPiece(Piece(pump.pending))  PROVE \E n \in 0..Len(Piece(pump.pending)) : Write(n)
  <2>1. Len(Piece(pump.pending)) \in 0..Len(pump.pending)
    BY <1>1, PieceFront
  <2> DEFINE p == Piece(pump.pending)
  <2>2. p = SubSeq(pump.pending, 1, Len(p))
    BY <1>1, PieceFront
  <2> HIDE DEF p
  <2>3. CASE active' = [active EXCEPT !.data = active.data \o p]
    <3>1. Len(p) \in 0..Len(p) /\ Len(p) \in 0..Len(pump.pending)
      BY <2>1 DEF p
    <3> QED
      BY <2>2, <2>3, <3>1, Zenon DEF Write, p
  <2>4. ASSUME NEW n \in 0..(Len(p) - 1), active' = [active EXCEPT !.data = active.data \o SubSeq(p, 1, n)]
        PROVE  \E k \in 0..Len(p) : Write(k)
    <3>0. n \in 0..Len(p) /\ n \in 0..Len(pump.pending)
      BY <2>1, <1>1 DEF p
    <3>1. SubSeq(p, 1, n) = SubSeq(pump.pending, 1, n)
      BY <2>1, <2>2, <1>1, <3>0, FrontOfFront DEF p
    <3> QED
      BY <3>0, <3>1, <2>4 DEF Write
  <2> QED
    BY <1>4, <2>3, <2>4 DEF AppendPiece, p
<1> QED
  BY <1>3, <1>4

\* Each step of a seal and of its recovery keeps the journal, the active file and
\* the segment it names in agreement.
LEMMA JournalStep ==
  ASSUME LogInv, UNCHANGED gone, LogNext \/ NodeKilled
  PROVE  JournalInv'
<1> USE StreamAssumption DEF JournalInv, HoldsFile, PumpRecord, Labels, Reasons, Goto, Refuse,
   diskVars, streamVars, historyVars
<1>0. /\ GoneNames' = GoneNames /\ pump \in PumpRecord /\ HoldsFile /\ JournalInv
      /\ Types /\ HoldsBytes /\ NumbersInv
  BY DEF GoneNames, LogInv, Types
<1>1. CASE StartPump
  BY <1>0, <1>1 DEF StartPump
<1>2. CASE RecoverRename
  <2>1. CASE journal = None /\ Goto("open") /\ UNCHANGED <<active, sealed, journal, refused>>
    BY <2>1, <1>2, <1>0 DEF RecoverRename
  <2>2. CASE journal = Torn /\ Refuse("torn") /\ UNCHANGED <<active, sealed, journal>>
    BY <2>2, <1>2, <1>0 DEF Down
  <2>3. CASE /\ journal \in Names /\ (active = None <=> journal \notin DOMAIN sealed)
             /\ Refuse(IF active = None THEN "lost" ELSE "collision")
             /\ UNCHANGED <<active, sealed, journal>>
    BY <2>3, <1>2, <1>0 DEF Down
  <2>4. CASE /\ journal \in Names /\ active = None /\ journal \in DOMAIN sealed
             /\ Goto("unlink") /\ UNCHANGED <<active, sealed, journal, refused>>
    BY <2>4, <1>2, <1>0 DEF RecoverRename
  <2>5. CASE /\ journal \in Names /\ active # None /\ journal \notin DOMAIN sealed
             /\ sealed' = [n \in DOMAIN sealed \cup {journal} |->
                              IF n = journal THEN active ELSE sealed[n]]
             /\ active' = None /\ Goto("unlink") /\ UNCHANGED <<journal, refused>>
    BY <2>5, <1>2, <1>0 DEF RecoverRename
  <2>6. CASE journal \in Names /\ Refuse("io") /\ UNCHANGED <<active, sealed, journal>>
    BY <2>6, <1>2, <1>0 DEF Down
  <2> QED
    BY <1>2, <2>1, <2>2, <2>3, <2>4, <2>5, <2>6 DEF RecoverRename
<1>3. CASE RecoverUnlink
  BY <1>0, <1>3 DEF RecoverUnlink, Down
<1>4. CASE OpenWriter
  <2>1. CASE Refuse("io") /\ UNCHANGED <<active, sealed, journal>>
    BY <2>1, <1>4, <1>0 DEF OpenWriter, Down
  <2>2. CASE pump'.pc = "wait" /\ UNCHANGED <<sealed, journal, refused>>
    BY <2>2, <1>4, <1>0 DEF OpenWriter
  <2> QED
    BY <1>4, <2>1, <2>2 DEF OpenWriter, Down
<1>5. CASE PumpRead
  BY <1>0, <1>5 DEF PumpRead
<1>6. CASE PumpStop
  BY <1>0, <1>6 DEF PumpStop
<1>7. CASE WriteLine
  BY <1>0, <1>7 DEF WriteLine, AppendPiece, Loop
<1>8. CASE WriteSealed
  BY <1>0, <1>8 DEF WriteSealed, AppendPiece
<1>9. CASE SealJournal
  <2>1. CASE Goto("close") /\ UNCHANGED <<active, sealed, journal, refused>>
    BY <2>1, <1>9, <1>0 DEF SealJournal
  <2>2. CASE /\ journal' = Torn /\ UNCHANGED <<active, sealed, refused>>
             /\ pump'.pc = "journal" /\ pump'.target \in Names /\ pump'.target \notin DOMAIN sealed
    BY <2>2, <1>9, <1>0 DEF SealJournal
  <2> QED
    BY <1>9, <1>0, SealNumber, <2>1, <2>2 DEF SealJournal
<1>10. CASE SealWriteJournal
  BY <1>0, <1>10 DEF SealWriteJournal
<1>11. CASE SealRename
  <2>1. CASE /\ sealed' = [n \in DOMAIN sealed \cup {pump.target} |->
                             IF n = pump.target THEN active ELSE sealed[n]]
             /\ active' = None /\ pump' = [pump EXCEPT !.pc = "unjournal", !.usable = FALSE]
    BY <1>0, <1>11, <2>1 DEF SealRename
  <2>2. CASE /\ \E open \in BOOLEAN : pump' = [pump EXCEPT !.pc = "close", !.usable = open]
             /\ UNCHANGED <<active, sealed>>
    BY <1>0, <1>11, <2>2 DEF SealRename
  <2> QED
    BY <1>11, <2>1, <2>2 DEF SealRename
<1>12. CASE SealUnjournal
  BY <1>0, <1>12 DEF SealUnjournal
<1>13. CASE SealReopen
  <2>1. CASE /\ active' = OpenActive
             /\ pump' = [pump EXCEPT !.pc = "append", !.usable = TRUE, !.openDate = pump.sealDay,
                                     !.sealDay = 0, !.target = None]
    BY <1>0, <1>13, <2>1 DEF SealReopen
  <2>2. CASE Goto("close") /\ UNCHANGED <<active, inodes>>
    BY <1>0, <1>13, <2>2 DEF SealReopen
  <2> QED
    BY <1>13, <2>1, <2>2 DEF SealReopen
<1>14. CASE PumpClose
  <2>1. pump'.pc = "down" /\ UNCHANGED <<sealed, journal, refused>>
    BY <1>0, <1>14 DEF PumpClose, Down
  <2>2. active' = None <=> active = None
    <3>1. UNCHANGED active \/ \E n : Write(n) /\ pump.usable /\ pump.pc = "close"
      BY <1>14, <1>0, WriteSteps DEF PumpClose
    <3> QED
      BY <3>1, <1>0, ActiveKept
  <2> QED
    BY <1>14, <1>0, <2>1, <2>2 DEF PumpClose
<1>15. CASE CoreLog
  BY <1>0, <1>15 DEF CoreLog
<1>16. CASE CoreExit
  BY <1>0, <1>16 DEF CoreExit
<1>17. CASE Tick
  BY <1>0, <1>17 DEF Tick
<1>18. CASE NodeKilled
  BY <1>0, <1>18 DEF NodeKilled, Down
<1> QED
  BY <1>1, <1>2, <1>3, <1>4, <1>5, <1>6, <1>7, <1>8, <1>9, <1>10, <1>11, <1>12, <1>13, <1>14, <1>15,
     <1>16, <1>17, <1>18 DEF LogNext, Seal

\* The writer opens a file, which is new and empty if there was none.
LEMMA Opened ==
  ASSUME Types
  PROVE  /\ OpenActive \in File /\ OpenActive # None
         /\ active = None => OpenActive.ino = inodes + 1 /\ OpenActive.data = <<>>
         /\ active # None => OpenActive = active
<1>1. active # None => active \in File
  BY DEF Types, LogTypeOK
<1>2. inodes + 1 \in Nat \ {0} /\ <<>> \in Seq(Bytes)
  BY DEF Types, LogTypeOK
<1>3. [ino |-> inodes + 1, data |-> <<>>] \in File
  BY <1>2 DEF File
<1>4. OpenActive \in File
  BY <1>1, <1>3 DEF OpenActive
<1> QED
  BY <1>4, StreamAssumption DEF OpenActive

\* The writer has its file wherever it is about to use it.
LEMMA HoldsFileStep ==
  ASSUME LogInv, UNCHANGED gone, LogNext \/ NodeKilled
  PROVE  HoldsFile'
<1> USE StreamAssumption DEF HoldsFile, PumpRecord, Labels, Goto, Refuse, diskVars, streamVars, historyVars
<1>0. pump \in PumpRecord /\ HoldsFile /\ Types
  BY DEF LogInv, Types
<1>1. CASE StartPump
  BY <1>0, <1>1 DEF StartPump
<1>2. CASE RecoverRename
  BY <1>0, <1>2 DEF RecoverRename, Down
<1>3. CASE RecoverUnlink
  BY <1>0, <1>3 DEF RecoverUnlink, Down
<1>4. CASE OpenWriter
  <2>1. CASE active' = OpenActive /\ pump'.pc = "wait"
    BY <1>0, <2>1, Opened
  <2>2. CASE pump' = Down
    BY <2>2 DEF Down
  <2> QED
    BY <1>0, <1>4, <2>1, <2>2 DEF OpenWriter, Down
<1>5. CASE PumpRead
  BY <1>0, <1>5 DEF PumpRead
<1>6. CASE PumpStop
  BY <1>0, <1>6 DEF PumpStop
<1>7. CASE WriteLine
  BY <1>0, <1>7, WriteSteps, ActiveKept DEF WriteLine, AppendPiece, Loop
<1>8. CASE WriteSealed
  BY <1>0, <1>8, WriteSteps, ActiveKept DEF WriteSealed, AppendPiece
<1>9. CASE SealJournal
  BY <1>0, <1>9 DEF SealJournal
<1>10. CASE SealWriteJournal
  BY <1>0, <1>10 DEF SealWriteJournal
<1>11. CASE SealRename
  BY <1>0, <1>11 DEF SealRename
<1>12. CASE SealUnjournal
  BY <1>0, <1>12 DEF SealUnjournal
<1>13. CASE SealReopen
  <2>1. CASE /\ active' = OpenActive
             /\ pump' = [pump EXCEPT !.pc = "append", !.usable = TRUE, !.openDate = pump.sealDay,
                                     !.sealDay = 0, !.target = None]
    <3>1. pump'.pc = "append"
      BY <1>0, <2>1
    <3> QED
      BY <1>0, <2>1, <3>1, Opened
  <2>2. CASE Goto("close") /\ UNCHANGED active
    BY <1>0, <1>13, <2>2 DEF SealReopen
  <2> QED
    BY <1>13, <2>1, <2>2, Zenon DEF SealReopen
<1>14. CASE PumpClose
  BY <1>0, <1>14 DEF PumpClose, Down
<1>15. CASE CoreLog
  BY <1>0, <1>15 DEF CoreLog
<1>16. CASE CoreExit
  BY <1>0, <1>16 DEF CoreExit
<1>17. CASE Tick
  BY <1>0, <1>17 DEF Tick
<1>18. CASE NodeKilled
  BY <1>0, <1>18 DEF NodeKilled, Down
<1> QED
  BY <1>1, <1>2, <1>3, <1>4, <1>5, <1>6, <1>7, <1>8, <1>9, <1>10, <1>11, <1>12, <1>13, <1>14, <1>15,
     <1>16, <1>17, <1>18 DEF LogNext, Seal

\* Where the next line starts.
LEMMA NextLineType ==
  ASSUME fed \in 0..Total
  PROVE  /\ NextLine \in fed..Total + 1 /\ (LineStart(NextLine) \/ NextLine = Total + 1)
         /\ \A m \in fed..(NextLine - 1) : ~LineStart(m)
<1> DEFINE S == {n \in fed..Total + 1 : LineStart(n) \/ n = Total + 1}
<1>1. Total + 1 \in S /\ S \in SUBSET Nat
  BY StreamAssumption
<1>2. PICK m \in S : \A k \in S : m <= k
  BY <1>1, NatMinimum
<1>3. \A k \in fed..(m - 1) : ~LineStart(k)
  BY <1>2, StreamAssumption
<1>4. m \in fed..Total + 1 /\ (LineStart(m) \/ m = Total + 1)
  BY <1>2
<1> HIDE DEF S
<1> QED
  BY <1>3, <1>4 DEF NextLine

\* The pump reads the next bytes of the fifo.
LEMMA ReadKeepsOut ==
  ASSUME Types, PumpRead
  PROVE  /\ Out' = Out /\ pump'.pc = "write" /\ pump' = [pump EXCEPT !.pc = "write", !.pending = pump'.pending]
         /\ pump'.pending \in Seq(Bytes) /\ taken' \in taken..fed
         /\ \A i \in 1..Len(pump.pending) : pump'.pending[i] = pump.pending[i]
         /\ \A i \in (Len(pump.pending) + 1)..Len(pump'.pending) : pump'.pending[i] = Out + i
<1> USE StreamAssumption DEF PumpRecord, Labels, Goto
<1>0. /\ pump \in PumpRecord /\ pump.pending \in Seq(Bytes)
      /\ Len(pump.pending) \in Nat /\ taken \in Nat /\ fed \in Nat /\ taken <= fed /\ fed \in 0..Total
  BY DEF Types, LogTypeOK
<1>1. PICK n \in 1..Buffer : /\ taken + n <= fed /\ taken' = taken + n
          /\ pump' = [pump EXCEPT !.pc = "write", !.pending = pump.pending \o Stream(taken, taken + n)]
  BY DEF PumpRead
<1> DEFINE t == Stream(taken, taken + n)
<1>2. n \in Nat \ {0}
  BY <1>1
<1>3. Len(t) = n /\ \A i \in 1..n : t[i] = taken + i
  BY <1>2, <1>0 DEF Stream
<1>4. t \in Seq(Bytes)
  <2>1. \A i \in 1..n : taken + i \in Bytes
    BY <1>0, <1>1, <1>2 DEF Bytes
  <2>2. (taken + n) - taken = n
    BY <1>0, <1>2
  <2>3. t = [i \in 1..n |-> taken + i]
    BY <2>2, Zenon DEF Stream
  <2> QED
    BY <2>1, <2>3, <1>2
<1> HIDE DEF t
<1>5. /\ pump.pending \o t \in Seq(Bytes) /\ Len(pump.pending \o t) = Len(pump.pending) + n
      /\ \A i \in 1..Len(pump.pending) + n : (pump.pending \o t)[i] =
            IF i <= Len(pump.pending) THEN pump.pending[i] ELSE t[i - Len(pump.pending)]
  <2> DEFINE s == pump.pending
  <2>1. s \in Seq(Bytes)
    BY <1>0
  <2> HIDE DEF s
  <2>2. /\ s \o t \in Seq(Bytes) /\ Len(s \o t) = Len(s) + Len(t)
        /\ \A i \in 1..Len(s) + Len(t) : (s \o t)[i] = IF i <= Len(s) THEN s[i] ELSE t[i - Len(s)]
    BY <2>1, <1>4, ConcatProperties
  <2> QED
    BY <2>2, <1>3 DEF s
<1>6. pump'.pc = "write" /\ pump'.pending = pump.pending \o t
  BY <1>1, <1>0 DEF t
<1>7. pump' = [pump EXCEPT !.pc = "write", !.pending = pump'.pending]
  BY <1>1, <1>6, Zenon DEF t
<1>8. Out' = Out
  <2>1. taken' = taken + n /\ taken \in Nat /\ n \in Nat
    BY <1>0, <1>1, <1>2
  <2>2. Len(pump'.pending) = Len(pump.pending) + n
    BY <1>5, <1>6
  <2>3. Len(pump.pending) \in Nat
    BY <1>0
  <2> QED
    BY <2>1, <2>2, <2>3 DEF Out
<1>9. \A i \in 1..Len(pump.pending) : pump'.pending[i] = pump.pending[i]
  BY <1>0, <1>2, <1>5, <1>6
<1>10. \A i \in (Len(pump.pending) + 1)..Len(pump'.pending) : pump'.pending[i] = Out + i
  BY <1>0, <1>2, <1>3, <1>5, <1>6 DEF Out
<1>11. pump'.pending \in Seq(Bytes) /\ pump'.pc = "write"
  BY <1>5, <1>6
<1>12. taken' \in taken..fed
  BY <1>0, <1>1, <1>2
<1> QED
  BY <1>7, <1>8, <1>9, <1>10, <1>11, <1>12, Zenon

\* What is pending is always the end of what has been read.
LEMMA HoldsBytesStep ==
  ASSUME LogInv, UNCHANGED gone, LogNext \/ NodeKilled
  PROVE  HoldsBytes'
<1> USE StreamAssumption DEF PumpRecord, Labels, Starting, Sealing, Goto, Refuse, diskVars, streamVars,
   historyVars
<1>0. /\ pump \in PumpRecord /\ HoldsBytes /\ Types /\ pump.pending \in Seq(Bytes)
      /\ Len(pump.pending) \in Nat /\ taken \in Nat /\ fed \in Nat /\ taken <= fed /\ fed \in 0..Total /\ coreUp \in BOOLEAN
  BY DEF LogInv, Types, LogTypeOK
\* Nothing is taken and nothing goes.
<1>s. ASSUME pump'.pending = pump.pending, taken' = taken,
             pump'.pc \in Starting => pump.pc \in Starting /\ taken = fed' /\ (pump'.pc # "down" => ~coreUp'),
             pump'.pc \in Sealing \cup {"seal"} => Piece(pump.pending) # <<>>
      PROVE  HoldsBytes'
  BY <1>0, <1>s DEF HoldsBytes, Out
\* The memory is lost.
<1>d. ASSUME pump' = Down, taken' = fed', fed' \in Nat  PROVE HoldsBytes'
  <2>1. pump'.pc = "down" /\ pump'.pending = <<>> /\ Len(pump'.pending) = 0
    BY <1>d DEF Down
  <2> QED
    BY <2>1, <1>d DEF HoldsBytes, Out
\* A piece goes, or the write fails.
<1> DEFINE piece == Piece(pump.pending)
<1>a. ASSUME AppendPiece(piece), taken' = taken  PROVE HoldsBytes'
  <2>1. CASE Goto("close")
    BY <1>0, <1>a, <1>s, <2>1
  <2>2. CASE pump' = [pump EXCEPT !.pc = "write",
                        !.pending = SubSeq(pump.pending, Len(piece) + 1, Len(pump.pending))]
    <3> DEFINE n == Len(piece)
               rest == SubSeq(pump.pending, n + 1, Len(pump.pending))
    <3>1. n \in 0..Len(pump.pending)
      BY <1>0, PieceFront
    <3>2. pump'.pc = "write" /\ pump'.pending = rest
      BY <2>2, <1>0
    <3> HIDE DEF n
    <3>3. rest \in Seq(Bytes) /\ Len(rest) = Len(pump.pending) - n
          /\ \A i \in 1..Len(rest) : rest[i] = pump.pending[n + i]
      <4>1. <<>> \in Seq(Bytes)
        OBVIOUS
      <4> QED
        BY <1>0, <3>1, <4>1, WrittenFront
    <3> HIDE DEF rest
    <3>4. Len(rest) \in Nat /\ n \in Nat /\ Out' = Out + n
      BY <1>0, <1>a, <3>1, <3>2, <3>3 DEF Out
    <3>5. Len(rest) <= taken
      BY <1>0, <3>1, <3>3 DEF HoldsBytes
    <3>6. \A i \in 1..Len(rest) : rest[i] = Out + n + i
      BY <1>0, <3>1, <3>3 DEF HoldsBytes, Out
    <3> QED
      BY <1>a, <3>2, <3>4, <3>5, <3>6 DEF HoldsBytes
  <2> QED
    BY <1>a, <2>1, <2>2 DEF AppendPiece
<1>1. CASE StartPump
  BY <1>0, <1>1, <1>s DEF StartPump, HoldsBytes
<1>2. CASE RecoverRename
  BY <1>0, <1>2, <1>s, <1>d DEF RecoverRename, HoldsBytes
<1>3. CASE RecoverUnlink
  BY <1>0, <1>3, <1>s, <1>d DEF RecoverUnlink, HoldsBytes
<1>4. CASE OpenWriter
  <2>1. CASE Refuse("io") /\ UNCHANGED streamVars
    BY <1>0, <1>4, <1>d, <2>1 DEF OpenWriter, HoldsBytes
  <2>2. CASE pump'.pc = "wait" /\ pump'.pending = <<>> /\ taken' = fed' /\ fed' \in Nat
    <3>1. Len(pump'.pending) = 0
      BY <2>2
    <3> QED
      BY <2>2, <3>1 DEF HoldsBytes, Out
  <2>3. fed' = (IF NextLine > Total THEN Total ELSE NextLine) => fed' \in Nat
    BY <1>0, NextLineType
  <2> QED
    BY <1>4, <2>1, <2>2, <2>3 DEF OpenWriter, Down
<1>5. CASE PumpRead
  <2>1. /\ Out' = Out /\ pump'.pc = "write" /\ pump'.pending \in Seq(Bytes) /\ taken' \in taken..fed
        /\ \A i \in 1..Len(pump.pending) : pump'.pending[i] = pump.pending[i]
        /\ \A i \in (Len(pump.pending) + 1)..Len(pump'.pending) : pump'.pending[i] = Out + i
    BY <1>0, <1>5, ReadKeepsOut
  <2>2. Len(pump'.pending) \in Nat
    BY <2>1
  <2>3. \A i \in 1..Len(pump'.pending) : pump'.pending[i] = Out + i
    BY <2>1, <2>2, <1>0 DEF HoldsBytes
  <2>4. Len(pump'.pending) <= taken'
    BY <2>1, <2>2, <1>0 DEF HoldsBytes, Out
  <2> QED
    BY <2>1, <2>3, <2>4 DEF HoldsBytes
<1>6. CASE PumpStop
  BY <1>0, <1>6, <1>s DEF PumpStop, HoldsBytes
<1>7. CASE WriteLine
  <2>1. CASE piece = <<>> /\ Goto(Loop)
    BY <1>0, <1>7, <1>s, <2>1 DEF WriteLine, HoldsBytes, Loop
  <2>2. CASE piece # <<>> /\ pump' = [pump EXCEPT !.pc = "seal", !.sealDay = today]
    BY <1>0, <1>7, <1>s, <2>2 DEF WriteLine, HoldsBytes
  <2>3. CASE AppendPiece(piece)
    BY <1>0, <1>7, <1>a, <2>3 DEF WriteLine
  <2> QED
    BY <1>7, <2>1, <2>2, <2>3 DEF WriteLine
<1>8. CASE WriteSealed
  BY <1>0, <1>8, <1>a DEF WriteSealed
<1>9. CASE SealJournal
  BY <1>0, <1>9, <1>s DEF SealJournal, HoldsBytes
<1>10. CASE SealWriteJournal
  BY <1>0, <1>10, <1>s DEF SealWriteJournal, HoldsBytes
<1>11. CASE SealRename
  BY <1>0, <1>11, <1>s DEF SealRename, HoldsBytes
<1>12. CASE SealUnjournal
  BY <1>0, <1>12, <1>s DEF SealUnjournal, HoldsBytes
<1>13. CASE SealReopen
  <2>1. CASE pump' = [pump EXCEPT !.pc = "append", !.usable = TRUE, !.openDate = pump.sealDay,
                                 !.sealDay = 0, !.target = None]
    BY <1>0, <1>13, <1>s, <2>1 DEF SealReopen, HoldsBytes
  <2>2. CASE Goto("close")
    BY <1>0, <1>13, <1>s, <2>2 DEF SealReopen, HoldsBytes
  <2> QED
    BY <1>13, <2>1, <2>2 DEF SealReopen
<1>14. CASE PumpClose
  BY <1>0, <1>14, <1>d DEF PumpClose, HoldsBytes
<1>15. CASE CoreLog
  BY <1>0, <1>15, <1>s DEF CoreLog, HoldsBytes
<1>16. CASE CoreExit
  BY <1>0, <1>16, <1>s DEF CoreExit, HoldsBytes
<1>17. CASE Tick
  BY <1>0, <1>17, <1>s DEF Tick, HoldsBytes
<1>18. CASE NodeKilled
  BY <1>0, <1>18, <1>d DEF NodeKilled, HoldsBytes
<1> QED
  BY <1>1, <1>2, <1>3, <1>4, <1>5, <1>6, <1>7, <1>8, <1>9, <1>10, <1>11, <1>12, <1>13, <1>14, <1>15,
     <1>16, <1>17, <1>18 DEF LogNext, Seal

\* The bytes that have left the memory only grow.
LEMMA BudgetGrows ==
  ASSUME LogInv, UNCHANGED gone, LogNext \/ NodeKilled
  PROVE  Budget \in Nat /\ Budget' \in Nat /\ Budget <= Budget'
<1> USE StreamAssumption DEF PumpRecord, Labels, Starting, Sealing, Goto, Refuse, diskVars, streamVars,
   historyVars
<1>0. /\ pump \in PumpRecord /\ HoldsBytes /\ Types /\ pump.pending \in Seq(Bytes)
      /\ Len(pump.pending) \in Nat /\ taken \in Nat /\ fed \in Nat /\ taken <= fed /\ coreUp \in BOOLEAN
      /\ pump.pending # <<>> <=> Len(pump.pending) # 0
      /\ pump.pc \in Sealing \cup {"seal"} => pump.pending # <<>> /\ Len(Piece(pump.pending)) \in 1..Len(pump.pending)
  <2>1. pump \in PumpRecord /\ HoldsBytes /\ Types /\ fed \in Nat /\ taken \in Nat /\ taken <= fed /\ coreUp \in BOOLEAN
    BY DEF LogInv, Types, LogTypeOK
  <2>2. pump.pending \in Seq(Bytes) /\ Len(pump.pending) \in Nat /\ (pump.pending # <<>> <=> Len(pump.pending) # 0)
    BY <2>1, EmptySeq
  <2>3. Piece(pump.pending) \in Seq(Bytes) /\ Len(Piece(pump.pending)) <= Len(pump.pending)
    BY <2>2, PieceIsFront
  <2>4. Piece(pump.pending) # <<>> => Len(Piece(pump.pending)) \in Nat \ {0}
    BY <2>3, EmptySeq
  <2> QED
    BY <2>1, <2>2, <2>3, <2>4 DEF HoldsBytes
<1>b. Budget \in Nat /\ Budget <= taken /\ (pump.pending # <<>> => Out + 1 <= taken)
  BY <1>0 DEF Budget, Out, HoldsBytes
<1>s. ASSUME pump'.pending = pump.pending, taken' = taken,
             pump.pc \in Sealing \cup {"close"} => pump'.pc \in Sealing \cup {"close"}
      PROVE  Budget \in Nat /\ Budget' \in Nat /\ Budget <= Budget'
  BY <1>0, <1>b, <1>s DEF HoldsBytes, Budget, Out
<1>d. ASSUME NEW m \in Nat, pump'.pc \notin Sealing \cup {"close"}, pump'.pending = <<>>, taken' = m, m >= fed
      PROVE  Budget \in Nat /\ Budget' \in Nat /\ Budget <= Budget'
  <2>1. Len(pump'.pending) = 0
    BY <1>d
  <2>2. Out' = m
    BY <2>1, <1>d DEF Out
  <2>3. Budget' = Out'
    BY <1>d DEF Budget
  <2> QED
    BY <2>2, <2>3, <1>0, <1>b, <1>d
<1> DEFINE piece == Piece(pump.pending)
<1>a. ASSUME AppendPiece(piece), taken' = taken, piece # <<>>  PROVE Budget \in Nat /\ Budget' \in Nat /\ Budget <= Budget'
  <2>1. CASE Goto("close")
    BY <1>0, <1>s, <1>a, <2>1
  <2>2. CASE pump' = [pump EXCEPT !.pc = "write",
                        !.pending = SubSeq(pump.pending, Len(piece) + 1, Len(pump.pending))]
    <3> DEFINE n == Len(piece)
               rest == SubSeq(pump.pending, n + 1, Len(pump.pending))
    <3>1. n \in 1..Len(pump.pending) /\ n \in 0..Len(pump.pending)
      <4>1. piece \in Seq(Bytes) /\ Len(piece) <= Len(pump.pending)
        BY <1>0, PieceIsFront
      <4> HIDE DEF piece
      <4>2. Len(piece) \in Nat \ {0}
        BY <1>a, <4>1, EmptySeq
      <4> QED
        BY <1>0, <4>1, <4>2
    <3>2. pump'.pc = "write" /\ pump'.pending = rest
      BY <2>2, <1>0
    <3> HIDE DEF n
    <3>3. Len(rest) = Len(pump.pending) - n
      <4>1. <<>> \in Seq(Bytes)
        OBVIOUS
      <4> QED
        BY <1>0, <3>1, <4>1, WrittenFront
    <3> HIDE DEF rest
    <3> QED
      BY <1>0, <1>a, <1>b, <3>1, <3>2, <3>3 DEF Budget, Out
  <2> QED
    BY <1>a, <2>1, <2>2 DEF AppendPiece
<1>1. CASE StartPump
  BY <1>0, <1>1, <1>s DEF StartPump
<1>2. CASE RecoverRename
  BY <1>0, <1>2, <1>s, <1>d DEF RecoverRename, HoldsBytes, Down
<1>3. CASE RecoverUnlink
  BY <1>0, <1>3, <1>s, <1>d DEF RecoverUnlink, HoldsBytes, Down
<1>4. CASE OpenWriter
  <2>1. CASE Refuse("io") /\ UNCHANGED streamVars
    <3>1. taken = fed /\ taken' = taken /\ pump'.pc = "down" /\ pump'.pending = <<>>
      BY <1>0, <1>4, <2>1 DEF Down, OpenWriter, HoldsBytes
    <3> QED
      BY <1>0, <1>d, <3>1
  <2>2. CASE /\ taken' = (IF NextLine > Total THEN Total ELSE NextLine)
             /\ pump'.pc = "wait" /\ pump'.pending = <<>>
    <3> DEFINE m == IF NextLine > Total THEN Total ELSE NextLine
    <3>1. m \in Nat /\ m >= fed
      <4>1. fed \in 0..Total
        BY <1>0 DEF Types, LogTypeOK
      <4> QED
        BY <4>1, NextLineType
    <3> HIDE DEF m
    <3>2. taken' = m
      BY <2>2 DEF m
    <3> QED
      BY <1>d, <2>2, <3>1, <3>2
  <2> QED
    BY <1>4, <2>1, <2>2 DEF OpenWriter, Down
<1>5. CASE PumpRead
  <2>1. PICK n \in 1..Buffer : /\ taken + n <= fed /\ taken' = taken + n
            /\ pump' = [pump EXCEPT !.pc = "write", !.pending = pump.pending \o Stream(taken, taken + n)]
    BY <1>5 DEF PumpRead
  <2>2. Out' = Out
    BY <1>5, <1>0, ReadKeepsOut
  <2>3. pump'.pc = "write" /\ pump.pc \in {"run", "wait"}
    BY <2>1, <1>0, <1>5 DEF PumpRead
  <2> QED
    BY <2>2, <2>3, <1>0, <1>b DEF Budget
<1>6. CASE PumpStop
  BY <1>0, <1>6, <1>s DEF PumpStop
<1>7. CASE WriteLine
  <2>1. CASE pump'.pending = pump.pending /\ taken' = taken
    BY <1>0, <1>7, <1>s, <2>1 DEF WriteLine
  <2>2. CASE piece # <<>> /\ AppendPiece(piece)
    BY <1>7, <1>a, <2>2 DEF WriteLine
  <2> QED
    BY <1>0, <1>7, <2>1, <2>2 DEF WriteLine
<1>8. CASE WriteSealed
  BY <1>0, <1>8, <1>a DEF WriteSealed, HoldsBytes
<1>9. CASE SealJournal
  BY <1>0, <1>9, <1>s DEF SealJournal
<1>10. CASE SealWriteJournal
  BY <1>0, <1>10, <1>s DEF SealWriteJournal
<1>11. CASE SealRename
  BY <1>0, <1>11, <1>s DEF SealRename
<1>12. CASE SealUnjournal
  BY <1>0, <1>12, <1>s DEF SealUnjournal
<1>13. CASE SealReopen
  BY <1>0, <1>13, <1>s DEF SealReopen
<1>14. CASE PumpClose
  BY <1>0, <1>14, <1>d DEF PumpClose, Down
<1>15. CASE CoreLog
  <2>1. CASE pump.pc = "down"
    BY <1>0, <1>15, <2>1 DEF CoreLog, Budget, Out, HoldsBytes
  <2>2. CASE pump.pc # "down"
    BY <1>0, <1>15, <1>s, <2>2 DEF CoreLog
  <2> QED
    BY <2>1, <2>2
<1>16. CASE CoreExit
  BY <1>0, <1>16, <1>s DEF CoreExit
<1>17. CASE Tick
  BY <1>0, <1>17, <1>s DEF Tick
<1>18. CASE NodeKilled
  BY <1>0, <1>18, <1>d DEF NodeKilled, Down
<1> QED
  BY <1>1, <1>2, <1>3, <1>4, <1>5, <1>6, <1>7, <1>8, <1>9, <1>10, <1>11, <1>12, <1>13, <1>14, <1>15,
     <1>16, <1>17, <1>18 DEF LogNext, Seal

\* There are finitely many segments.
LEMMA SegmentsAreFinite ==
  ASSUME Types
  PROVE  /\ IsFiniteSet(DOMAIN sealed) /\ Cardinality(DOMAIN sealed) \in Nat
         /\ \A x : /\ Cardinality(DOMAIN sealed \cup {x}) <= Cardinality(DOMAIN sealed) + 1
                  /\ Cardinality(DOMAIN sealed \ {x}) <= Cardinality(DOMAIN sealed)
<1>1. IsFiniteSet(0..MaxDay) /\ IsFiniteSet(1..Total)
  BY StreamAssumption, FS_Interval
<1>2. IsFiniteSet(Names)
  BY <1>1, FS_Product DEF Names
<1>3. IsFiniteSet(DOMAIN sealed)
  BY <1>2, FS_Subset DEF Types, LogTypeOK
<1>4. Cardinality(DOMAIN sealed) \in Nat
  BY <1>3, FS_CardinalityType
<1>5. ASSUME NEW x
      PROVE  /\ Cardinality(DOMAIN sealed \cup {x}) <= Cardinality(DOMAIN sealed) + 1
             /\ Cardinality(DOMAIN sealed \ {x}) <= Cardinality(DOMAIN sealed)
  <2>1. Cardinality(DOMAIN sealed \cup {x}) = IF x \in DOMAIN sealed THEN Cardinality(DOMAIN sealed)
                                              ELSE Cardinality(DOMAIN sealed) + 1
    BY <1>3, FS_AddElement
  <2>2. Cardinality(DOMAIN sealed \ {x}) = IF x \in DOMAIN sealed THEN Cardinality(DOMAIN sealed) - 1
                                           ELSE Cardinality(DOMAIN sealed)
    BY <1>3, FS_RemoveElement
  <2> QED
    BY <1>4, <2>1, <2>2
<1> QED
  BY <1>3, <1>4, <1>5

\* A rotation has used up a byte: numbers and inodes keep within the stream.
LEMMA NumbersStep ==
  ASSUME LogInv, UNCHANGED gone, LogNext \/ NodeKilled
  PROVE  NumbersInv'
<1> USE StreamAssumption DEF PumpRecord, Labels, Goto, Refuse, diskVars, streamVars, historyVars
<1>0. /\ pump \in PumpRecord /\ HoldsFile /\ JournalInv /\ NumbersInv /\ Types /\ inodes \in Nat
      /\ DOMAIN sealed \subseteq Names
  BY DEF LogInv, Types, LogTypeOK
<1>n. \A n \in Names : n[2] \in Nat
  BY DEF Names
<1>b. PICK b \in Nat : Budget' = b /\ Budget <= b /\ Budget \in Nat
  BY BudgetGrows
<1>c. Cardinality(DOMAIN sealed) \in Nat
  BY <1>0, SegmentsAreFinite
\* No file gets a name.
<1>s. ASSUME UNCHANGED <<sealed, inodes>>, active' = None <=> active = None,
             journal' \in Names => journal' = journal \/ (pump.pc = "journal" /\ journal' = pump.target),
             pump'.pc = "journal" => pump.pc = "journal", pump'.segment \in {0, pump.segment},
             pump'.pc \in {"journal", "rename", "unjournal"} =>
               pump.pc \in {"journal", "rename", "unjournal"} /\ pump'.target = pump.target
      PROVE  NumbersInv'
  <2>1. Renamed' = Renamed
    BY <1>s DEF Renamed
  <2>2. active' # None /\ (journal' \in Names \/ pump'.pc = "journal") => Renamed + 1 <= b
    BY <1>0, <1>b, <1>s DEF NumbersInv
  <2>3. \A n \in DOMAIN sealed : n[2] <= b
    BY <1>0, <1>b, <1>n DEF NumbersInv
  <2>4. journal' \in Names => journal'[2] <= b
    BY <1>0, <1>b, <1>n, <1>s DEF NumbersInv, JournalInv
  <2>5. pump'.pc \in {"journal", "rename", "unjournal"} => pump'.target[2] <= b
    BY <1>0, <1>b, <1>n, <1>s DEF NumbersInv, JournalInv
  <2>6. pump'.segment <= b /\ Renamed \in Nat /\ Renamed <= b /\ Cardinality(DOMAIN sealed) <= Renamed
    BY <1>0, <1>b, <1>s DEF NumbersInv
  <2> QED
    BY <1>b, <1>s, <2>1, <2>2, <2>3, <2>4, <2>5, <2>6 DEF NumbersInv
\* The active file gets a name.
<1>r. ASSUME NEW name \in Names, DOMAIN sealed' = DOMAIN sealed \cup {name}, active # None, active' = None,
             journal \in Names, name = journal, UNCHANGED <<inodes, journal>>, pump'.pc # "journal",
             pump'.segment \in {0, pump.segment},
             pump'.pc \in {"rename", "unjournal"} => pump'.target = name
      PROVE  NumbersInv'
  <2>1. Renamed' = Renamed + 1
    BY <1>0, <1>r DEF Renamed
  <2>2. Renamed \in Nat /\ Renamed + 1 <= b
    BY <1>0, <1>b, <1>r DEF NumbersInv
  <2>3. \A n \in DOMAIN sealed' : n[2] <= b
    BY <1>0, <1>b, <1>n, <1>r DEF NumbersInv
  <2>4. name[2] <= b
    BY <1>0, <1>b, <1>n, <1>r DEF NumbersInv
  <2>5. Cardinality(DOMAIN sealed') <= Renamed + 1
    <3>1. Cardinality(DOMAIN sealed \cup {name}) <= Cardinality(DOMAIN sealed) + 1
      BY <1>0, SegmentsAreFinite
    <3>2. Cardinality(DOMAIN sealed) <= Renamed
      BY <1>0 DEF NumbersInv
    <3>3. Cardinality(DOMAIN sealed \cup {name}) \in Nat
      BY <1>0, SegmentsAreFinite, FS_AddElement, FS_CardinalityType
    <3> QED
      BY <1>c, <1>r, <2>2, <3>1, <3>2, <3>3
  <2>6. pump'.segment <= b
    BY <1>0, <1>b, <1>r DEF NumbersInv
  <2> QED
    BY <1>b, <1>r, <2>1, <2>2, <2>3, <2>4, <2>5, <2>6 DEF NumbersInv
\* The active file is opened, and may be new.
<1>o. ASSUME active' = OpenActive, inodes' = IF active = None THEN inodes + 1 ELSE inodes,
             UNCHANGED <<sealed, journal>>, journal = None,
             pump'.pc \in {"wait", "append"}, pump'.segment \in {pump.segment, Cardinality(DOMAIN sealed)}
      PROVE  NumbersInv'
  <2>1. Renamed' = Renamed
    BY <1>0, <1>o, Opened DEF Renamed
  <2>2. \A n \in DOMAIN sealed : n[2] <= b
    BY <1>0, <1>b, <1>n DEF NumbersInv
  <2>3. pump'.segment <= b /\ Renamed \in Nat /\ Renamed <= b /\ Cardinality(DOMAIN sealed) <= Renamed
    BY <1>0, <1>b, <1>c, <1>o DEF NumbersInv
  <2> QED
    BY <1>b, <1>o, <2>1, <2>2, <2>3, StreamAssumption DEF NumbersInv
<1>1. CASE StartPump
  BY <1>0, <1>1, <1>s DEF StartPump
<1>2. CASE RecoverRename
  <2>1. CASE UNCHANGED <<active, sealed>>
    <3>1. pump'.pc # "journal" /\ pump'.segment \in {0, pump.segment} /\ pump'.pc \notin {"rename", "unjournal"}
      BY <1>0, <1>2 DEF RecoverRename, Down
    <3> QED
      BY <1>0, <1>2, <1>s, <2>1, <3>1 DEF RecoverRename
  <2>2. CASE /\ journal \in Names /\ active # None
             /\ sealed' = [n \in DOMAIN sealed \cup {journal} |->
                             IF n = journal THEN active ELSE sealed[n]]
             /\ active' = None /\ Goto("unlink")
    BY <1>0, <1>2, <1>r, <2>2 DEF RecoverRename
  <2> QED
    BY <1>2, <2>1, <2>2 DEF RecoverRename
<1>3. CASE RecoverUnlink
  BY <1>0, <1>3, <1>s DEF RecoverUnlink, Down
<1>4. CASE OpenWriter
  <2>1. CASE Refuse("io") /\ UNCHANGED <<active, inodes>>
    BY <1>0, <1>4, <1>s, <2>1 DEF OpenWriter, Down
  <2>2. CASE /\ active' = OpenActive /\ inodes' = IF active = None THEN inodes + 1 ELSE inodes
             /\ pump'.pc = "wait" /\ pump'.segment = Cardinality(DOMAIN sealed)
    BY <1>0, <1>4, <1>o, <2>2 DEF OpenWriter, JournalInv
  <2> QED
    BY <1>4, <2>1, <2>2 DEF OpenWriter, Down
<1>5. CASE PumpRead
  BY <1>0, <1>5, <1>s, ReadKeepsOut DEF PumpRead
<1>6. CASE PumpStop
  BY <1>0, <1>6, <1>s DEF PumpStop
<1>7. CASE WriteLine
  <2>1. active' = None <=> active = None
    BY <1>0, <1>7, WriteSteps, ActiveKept DEF WriteLine
  <2>2. pump'.pc \notin {"journal", "rename", "unjournal"} /\ pump'.segment = pump.segment
    BY <1>0, <1>7 DEF WriteLine, AppendPiece, Loop
  <2> QED
    BY <1>0, <1>7, <1>s, <2>1, <2>2 DEF WriteLine
<1>8. CASE WriteSealed
  <2>1. active' = None <=> active = None
    BY <1>0, <1>8, WriteSteps, ActiveKept DEF WriteSealed
  <2>2. pump'.pc \notin {"journal", "rename", "unjournal"} /\ pump'.segment = pump.segment
    BY <1>0, <1>8 DEF WriteSealed, AppendPiece, Loop
  <2> QED
    BY <1>0, <1>8, <1>s, <2>1, <2>2 DEF WriteSealed
<1>9. CASE SealJournal
  <2>0. HoldsBytes
    BY DEF LogInv
  <2>1. CASE Goto("close") /\ UNCHANGED journal
    BY <1>0, <1>9, <1>s, <2>1 DEF SealJournal
  <2> DEFINE n == CHOOSE i \in Unused : \A j \in Unused : i <= j
  <2>2. CASE /\ journal = None /\ journal' = Torn
             /\ pump' = [pump EXCEPT !.pc = "journal", !.segment = n, !.target = <<pump.openDate, n>>]
    <3>1. n \in 1..Total /\ n <= Out + 1
      BY <1>0, <1>9, <2>0, SealNumber DEF SealJournal
    <3> HIDE DEF n
    <3>2. pump'.pc = "journal" /\ pump'.segment = n /\ pump'.target = <<pump.openDate, n>>
      BY <1>0, <2>2
    <3>3. Out \in Nat /\ Budget = Out /\ b = Out + 1
      <4>1. taken \in Nat /\ pump.pending \in Seq(Bytes) /\ Len(pump.pending) \in Nat /\ Len(pump.pending) <= taken
        BY <2>0, <1>0 DEF Types, LogTypeOK, HoldsBytes
      <4>2. Piece(pump.pending) # <<>>
        BY <2>0, <1>9 DEF SealJournal, HoldsBytes
      <4>3. pump.pending # <<>>
        BY <4>1, <4>2, PieceIsFront, EmptySeq
      <4>4. Out' = Out /\ pump'.pending = pump.pending
        BY <1>0, <1>9, <2>2 DEF SealJournal, Out
      <4>5. Budget' = Out + 1
        BY <3>2, <4>3, <4>4 DEF Budget, Sealing
      <4>6. Budget = Out
        BY <1>9 DEF SealJournal, Budget, Sealing
      <4> QED
        BY <1>b, <4>1, <4>5, <4>6 DEF Out
    <3>4. Renamed' = Renamed /\ UNCHANGED <<sealed, inodes, active>>
      BY <1>9 DEF SealJournal, Renamed
    <3>5. \A m \in DOMAIN sealed : m[2] <= b
      BY <1>0, <1>b, <1>n DEF NumbersInv
    <3>6. Renamed \in Nat /\ Renamed + 1 <= b /\ Cardinality(DOMAIN sealed) <= Renamed
      BY <1>0, <3>3 DEF NumbersInv
    <3>7. n <= b /\ pump'.target[2] = n
      BY <3>1, <3>2, <3>3
    <3> QED
      BY <1>0, <1>b, <2>2, <3>2, <3>4, <3>5, <3>6, <3>7, StreamAssumption DEF NumbersInv
  <2> QED
    BY <1>9, <2>1, <2>2 DEF SealJournal
<1>10. CASE SealWriteJournal
  BY <1>0, <1>10, <1>s DEF SealWriteJournal, JournalInv
<1>11. CASE SealRename
  <2>1. CASE \E open \in BOOLEAN : pump' = [pump EXCEPT !.pc = "close", !.usable = open] /\ UNCHANGED <<active, sealed>>
    <3>1. pump'.pc = "close" /\ pump'.segment = pump.segment
      BY <1>0, <2>1
    <3> QED
      BY <1>11, <1>s, <2>1, <3>1 DEF SealRename
  <2>2. CASE /\ sealed' = [n \in DOMAIN sealed \cup {pump.target} |->
                             IF n = pump.target THEN active ELSE sealed[n]]
             /\ active' = None /\ pump' = [pump EXCEPT !.pc = "unjournal", !.usable = FALSE]
    <3>1. /\ pump.target \in Names /\ DOMAIN sealed' = DOMAIN sealed \cup {pump.target} /\ active # None
          /\ journal = pump.target /\ pump'.pc = "unjournal" /\ pump'.segment = pump.segment
          /\ pump'.target = pump.target /\ UNCHANGED <<inodes, journal>>
      BY <1>0, <1>11, <2>2 DEF SealRename, JournalInv, HoldsFile
    <3> QED
      BY <1>r, <2>2, <3>1
  <2> QED
    BY <1>11, <2>1, <2>2 DEF SealRename
<1>12. CASE SealUnjournal
  BY <1>0, <1>12, <1>s DEF SealUnjournal
<1>13. CASE SealReopen
  <2>1. CASE Goto("close") /\ UNCHANGED <<active, inodes>>
    BY <1>0, <1>13, <1>s, <2>1 DEF SealReopen
  <2>2. CASE /\ active' = OpenActive /\ inodes' = inodes + 1
             /\ pump' = [pump EXCEPT !.pc = "append", !.usable = TRUE, !.openDate = pump.sealDay,
                                     !.sealDay = 0, !.target = None]
    <3>1. active = None /\ journal = None /\ pump'.pc = "append" /\ pump'.segment = pump.segment
      BY <1>0, <1>13, <2>2 DEF SealReopen, JournalInv, HoldsFile
    <3> QED
      BY <1>0, <1>13, <1>o, <2>2, <3>1 DEF SealReopen
  <2> QED
    BY <1>13, <2>1, <2>2, Zenon DEF SealReopen
<1>14. CASE PumpClose
  <2>1. active' = None <=> active = None
    BY <1>0, <1>14, WriteSteps, ActiveKept DEF PumpClose
  <2>2. pump'.pc \notin {"journal", "rename", "unjournal"} /\ pump'.segment = 0
    BY <1>0, <1>14 DEF PumpClose, Down
  <2> QED
    BY <1>0, <1>14, <1>s, <2>1, <2>2 DEF PumpClose
<1>15. CASE CoreLog
  BY <1>0, <1>15, <1>s DEF CoreLog
<1>16. CASE CoreExit
  BY <1>0, <1>16, <1>s DEF CoreExit
<1>17. CASE Tick
  BY <1>0, <1>17, <1>s DEF Tick
<1>18. CASE NodeKilled
  BY <1>0, <1>18, <1>s DEF NodeKilled, Down
<1> QED
  BY <1>1, <1>2, <1>3, <1>4, <1>5, <1>6, <1>7, <1>8, <1>9, <1>10, <1>11, <1>12, <1>13, <1>14, <1>15,
     <1>16, <1>17, <1>18 DEF LogNext, Seal

\* A file that gets its name has the latest inode.
LEMMA InodesStep ==
  ASSUME LogInv, UNCHANGED gone, LogNext \/ NodeKilled
  PROVE  InodesInv'
<1> USE StreamAssumption DEF PumpRecord, Labels, Goto, Refuse, diskVars, streamVars, historyVars
<1>0. /\ pump \in PumpRecord /\ HoldsFile /\ JournalInv /\ InodesInv /\ Types /\ inodes \in Nat /\ gone' = gone
      /\ DOMAIN sealed \subseteq Names
  BY DEF LogInv, Types, LogTypeOK
<1>k. active # None => active.ino = inodes
  BY <1>0 DEF InodesInv
<1>i. /\ Renamed \in Nat /\ \A n \in DOMAIN sealed : sealed[n].ino \in Nat
      /\ \A g \in gone : g.file.ino \in Nat
  BY DEF LogInv, NumbersInv, Types, LogTypeOK, File
\* No file gets a name.
<1>s. ASSUME UNCHANGED <<sealed, inodes>>, active' = None <=> active = None,
             active # None => active'.ino = active.ino
      PROVE  InodesInv'
  <2>1. Renamed' = Renamed
    BY <1>s DEF Renamed
  <2> QED
    BY <1>0, <1>s, <2>1 DEF InodesInv
<1>u. UNCHANGED <<sealed, inodes, active>> => InodesInv'
  BY <1>s
\* The active file gets a name.
<1>r. ASSUME NEW name \in Names \ DOMAIN sealed, active # None, active' = None, UNCHANGED inodes,
             sealed' = [n \in DOMAIN sealed \cup {name} |-> IF n = name THEN active ELSE sealed[n]]
      PROVE  InodesInv'
  <2>1. Renamed' = Renamed + 1 /\ active.ino = Renamed + 1
    <3>1. Renamed = inodes - 1
      BY <1>r DEF Renamed
    <3>2. Renamed' = inodes
      BY <1>r DEF Renamed
    <3> QED
      <4>1. inodes \in Nat /\ active.ino = inodes
        BY <1>0, <1>k, <1>r, Zenon
      <4> QED
        BY <4>1, <3>1, <3>2
  <2>2. sealed'[name] = active /\ \A n \in DOMAIN sealed : sealed'[n] = sealed[n]
    BY <1>r
  <2>3. DOMAIN sealed' = DOMAIN sealed \cup {name}
    BY <1>r
  <2>4. /\ \A n \in DOMAIN sealed : sealed[n].ino <= Renamed
        /\ \A g \in gone : g.file.ino <= Renamed
    BY <1>0 DEF InodesInv
  <2>5. \A n \in DOMAIN sealed' : sealed'[n].ino <= Renamed + 1
    BY <1>i, <2>1, <2>2, <2>3, <2>4
  <2>6. \A m, n \in DOMAIN sealed' : sealed'[m].ino = sealed'[n].ino => m = n
    <3>1. \A n \in DOMAIN sealed : sealed[n].ino # Renamed + 1
      BY <1>i, <2>4
    <3>2. \A m, n \in DOMAIN sealed : sealed[m].ino = sealed[n].ino => m = n
      BY <1>0 DEF InodesInv
    <3> QED
      BY <2>1, <2>2, <2>3, <3>1, <3>2
  <2>7. ASSUME NEW g \in gone
        PROVE  /\ g.file.ino <= Renamed + 1
               /\ \A n \in DOMAIN sealed' : sealed'[n].ino # g.file.ino
               /\ g.name \in DOMAIN sealed' => g.file.ino < sealed'[g.name].ino
    <3>1. g.file.ino <= Renamed /\ g.file.ino \in Nat
      BY <1>i, <2>4
    <3>2. \A n \in DOMAIN sealed : sealed[n].ino # g.file.ino
      BY <1>0 DEF InodesInv
    <3>3. g.name \in DOMAIN sealed => g.file.ino < sealed[g.name].ino
      BY <1>0 DEF InodesInv
    <3>4. g.file.ino < Renamed + 1
      BY <3>1, <1>i
    <3> QED
      BY <1>i, <2>1, <2>2, <2>3, <3>1, <3>2, <3>3, <3>4
  <2>8. \A g, h \in gone : g.file.ino = h.file.ino => g = h
    BY <1>0 DEF InodesInv
  <2> QED
    BY <1>0, <1>r, <2>1, <2>5, <2>6, <2>7, <2>8 DEF InodesInv
\* The active file is opened, and may be new.
<1>o. ASSUME active' = OpenActive, inodes' = IF active = None THEN inodes + 1 ELSE inodes,
             UNCHANGED sealed
      PROVE  InodesInv'
  <2>1. Renamed' = Renamed
    BY <1>0, <1>o, Opened DEF Renamed
  <2>2. active'.ino = inodes'
    <3>1. CASE active = None
      BY <1>0, <1>o, <3>1, Opened
    <3>2. CASE active # None
      <4>1. active' = active /\ inodes' = inodes
        BY <1>0, <1>o, <3>2, Opened
      <4>2. active.ino = inodes
        BY <1>k, <3>2, Zenon
      <4> QED
        BY <4>1, <4>2
    <3> QED
      BY <3>1, <3>2
  <2> QED
    BY <1>0, <1>o, <2>1, <2>2 DEF InodesInv
<1>1. CASE StartPump
  BY <1>0, <1>1, <1>u DEF StartPump
<1>2. CASE RecoverRename
  <2>1. CASE UNCHANGED <<active, sealed>>
    BY <1>0, <1>2, <1>u, <2>1 DEF RecoverRename
  <2>2. CASE /\ journal \in Names /\ active # None /\ journal \notin DOMAIN sealed
             /\ sealed' = [n \in DOMAIN sealed \cup {journal} |->
                             IF n = journal THEN active ELSE sealed[n]]
             /\ active' = None
    BY <1>0, <1>2, <1>r, <2>2 DEF RecoverRename
  <2> QED
    BY <1>2, <2>1, <2>2 DEF RecoverRename
<1>3. CASE RecoverUnlink
  BY <1>0, <1>3, <1>u DEF RecoverUnlink
<1>4. CASE OpenWriter
  <2>1. CASE UNCHANGED <<active, inodes>>
    BY <1>0, <1>4, <1>u, <2>1 DEF OpenWriter
  <2>2. CASE active' = OpenActive /\ inodes' = IF active = None THEN inodes + 1 ELSE inodes
    BY <1>0, <1>4, <1>o, <2>2 DEF OpenWriter
  <2> QED
    BY <1>4, <2>1, <2>2 DEF OpenWriter
<1>5. CASE PumpRead
  BY <1>0, <1>5, <1>u DEF PumpRead
<1>6. CASE PumpStop
  BY <1>0, <1>6, <1>u DEF PumpStop
<1>7. CASE WriteLine
  <2>1. active' = active \/ (active' # None /\ active # None /\ active'.ino = active.ino)
    BY <1>0, <1>7, WriteSteps, ActiveKept DEF WriteLine
  <2> QED
    BY <1>0, <1>7, <1>s, <2>1 DEF WriteLine
<1>8. CASE WriteSealed
  <2>1. active' = active \/ (active' # None /\ active # None /\ active'.ino = active.ino)
    BY <1>0, <1>8, WriteSteps, ActiveKept DEF WriteSealed
  <2> QED
    BY <1>0, <1>8, <1>s, <2>1 DEF WriteSealed
<1>9. CASE SealJournal
  BY <1>0, <1>9, <1>u DEF SealJournal
<1>10. CASE SealWriteJournal
  BY <1>0, <1>10, <1>u DEF SealWriteJournal
<1>11. CASE SealRename
  <2>1. CASE UNCHANGED <<active, sealed>>
    BY <1>0, <1>11, <1>u, <2>1 DEF SealRename
  <2>2. CASE /\ sealed' = [n \in DOMAIN sealed \cup {pump.target} |->
                             IF n = pump.target THEN active ELSE sealed[n]]
             /\ active' = None
    <3>1. pump.target \in Names \ DOMAIN sealed /\ active # None /\ UNCHANGED inodes
      BY <1>0, <1>11 DEF SealRename, JournalInv, HoldsFile
    <3> QED
      BY <1>r, <2>2, <3>1
  <2> QED
    BY <1>11, <2>1, <2>2 DEF SealRename
<1>12. CASE SealUnjournal
  BY <1>0, <1>12, <1>u DEF SealUnjournal
<1>13. CASE SealReopen
  <2>1. CASE UNCHANGED <<active, inodes>>
    BY <1>0, <1>13, <1>u, <2>1 DEF SealReopen
  <2>2. CASE active' = OpenActive /\ inodes' = inodes + 1
    <3>1. active = None
      BY <1>0, <1>13 DEF SealReopen, HoldsFile
    <3> QED
      BY <1>0, <1>13, <1>o, <2>2, <3>1 DEF SealReopen
  <2> QED
    BY <1>13, <2>1, <2>2, Zenon DEF SealReopen
<1>14. CASE PumpClose
  <2>1. active' = active \/ (active' # None /\ active # None /\ active'.ino = active.ino)
    BY <1>0, <1>14, WriteSteps, ActiveKept DEF PumpClose
  <2> QED
    BY <1>0, <1>14, <1>s, <2>1 DEF PumpClose
<1>15. CASE CoreLog
  BY <1>0, <1>15, <1>u DEF CoreLog
<1>16. CASE CoreExit
  BY <1>0, <1>16, <1>u DEF CoreExit
<1>17. CASE Tick
  BY <1>0, <1>17, <1>u DEF Tick
<1>18. CASE NodeKilled
  BY <1>0, <1>18, <1>u DEF NodeKilled
<1> QED
  BY <1>1, <1>2, <1>3, <1>4, <1>5, <1>6, <1>7, <1>8, <1>9, <1>10, <1>11, <1>12, <1>13, <1>14, <1>15,
     <1>16, <1>17, <1>18 DEF LogNext, Seal

\* The files keep their types.
LEMMA FilesTypeStep ==
  ASSUME LogInv, UNCHANGED gone, LogNext \/ NodeKilled
  PROVE  (/\ active = None \/ active \in File
          /\ DOMAIN sealed \subseteq Names /\ \A n \in DOMAIN sealed : sealed[n] \in File
          /\ journal \in Names \cup {Torn, None} /\ inodes \in Nat)'
<1> USE StreamAssumption DEF PumpRecord, Labels, Goto, Refuse, diskVars, streamVars, historyVars
<1> DEFINE FilesType ==
      /\ active = None \/ active \in File
      /\ DOMAIN sealed \subseteq Names /\ \A n \in DOMAIN sealed : sealed[n] \in File
      /\ journal \in Names \cup {Torn, None} /\ inodes \in Nat
<1> SUFFICES FilesType'
  OBVIOUS
<1>0. pump \in PumpRecord /\ HoldsFile /\ JournalInv /\ Types
  BY DEF LogInv, Types
<1>t. FilesType
  BY <1>0 DEF Types, LogTypeOK
<1>s. ASSUME UNCHANGED <<sealed, inodes>>, active' \in {active, None} \cup File,
             journal' \in Names \cup {journal, Torn, None}
      PROVE  FilesType'
  BY <1>t, <1>s
<1>r. ASSUME NEW name \in Names, active # None, active' = None, UNCHANGED <<inodes, journal>>,
             sealed' = [n \in DOMAIN sealed \cup {name} |-> IF n = name THEN active ELSE sealed[n]]
      PROVE  FilesType'
  BY <1>t, <1>r
<1>o. ASSUME active' = OpenActive, inodes' \in {inodes, inodes + 1}, UNCHANGED <<sealed, journal>>
      PROVE  FilesType'
  BY <1>0, <1>t, <1>o, Opened
<1> HIDE DEF FilesType
<1>1. CASE StartPump
  BY <1>0, <1>1, <1>s DEF StartPump
<1>2. CASE RecoverRename
  <2>1. CASE UNCHANGED <<active, sealed>>
    BY <1>0, <1>2, <1>s, <2>1 DEF RecoverRename
  <2>2. CASE /\ journal \in Names /\ active # None
             /\ sealed' = [n \in DOMAIN sealed \cup {journal} |->
                             IF n = journal THEN active ELSE sealed[n]]
             /\ active' = None
    BY <1>0, <1>2, <1>r, <2>2 DEF RecoverRename
  <2> QED
    BY <1>2, <2>1, <2>2 DEF RecoverRename
<1>3. CASE RecoverUnlink
  BY <1>0, <1>3, <1>s DEF RecoverUnlink
<1>4. CASE OpenWriter
  <2>1. CASE UNCHANGED <<active, inodes>>
    BY <1>0, <1>4, <1>s, <2>1 DEF OpenWriter
  <2>2. CASE active' = OpenActive /\ inodes' = IF active = None THEN inodes + 1 ELSE inodes
    BY <1>0, <1>4, <1>o, <2>2 DEF OpenWriter
  <2> QED
    BY <1>4, <2>1, <2>2 DEF OpenWriter
<1>5. CASE PumpRead
  BY <1>0, <1>5, <1>s DEF PumpRead
<1>6. CASE PumpStop
  BY <1>0, <1>6, <1>s DEF PumpStop
<1>7. CASE WriteLine
  <2>1. active' = active \/ active' \in File
    BY <1>0, <1>7, WriteSteps, ActiveKept DEF WriteLine
  <2> QED
    BY <1>0, <1>7, <1>s, <2>1 DEF WriteLine
<1>8. CASE WriteSealed
  <2>1. active' = active \/ active' \in File
    BY <1>0, <1>8, WriteSteps, ActiveKept DEF WriteSealed
  <2> QED
    BY <1>0, <1>8, <1>s, <2>1 DEF WriteSealed
<1>9. CASE SealJournal
  BY <1>0, <1>9, <1>s DEF SealJournal
<1>10. CASE SealWriteJournal
  BY <1>0, <1>10, <1>s DEF SealWriteJournal, JournalInv
<1>11. CASE SealRename
  <2>1. CASE UNCHANGED <<active, sealed>>
    BY <1>0, <1>11, <1>s, <2>1 DEF SealRename
  <2>2. CASE /\ sealed' = [n \in DOMAIN sealed \cup {pump.target} |->
                             IF n = pump.target THEN active ELSE sealed[n]]
             /\ active' = None
    <3>1. pump.target \in Names /\ active # None /\ UNCHANGED <<inodes, journal>>
      BY <1>0, <1>11 DEF SealRename, JournalInv, HoldsFile
    <3> QED
      BY <1>r, <2>2, <3>1
  <2> QED
    BY <1>11, <2>1, <2>2 DEF SealRename
<1>12. CASE SealUnjournal
  BY <1>0, <1>12, <1>s DEF SealUnjournal
<1>13. CASE SealReopen
  <2>1. CASE UNCHANGED <<active, inodes>>
    BY <1>0, <1>13, <1>s, <2>1 DEF SealReopen
  <2>2. CASE active' = OpenActive /\ inodes' = inodes + 1
    BY <1>0, <1>13, <1>o, <2>2 DEF SealReopen
  <2> QED
    BY <1>13, <2>1, <2>2, Zenon DEF SealReopen
<1>14. CASE PumpClose
  <2>1. active' = active \/ active' \in File
    BY <1>0, <1>14, WriteSteps, ActiveKept DEF PumpClose
  <2> QED
    BY <1>0, <1>14, <1>s, <2>1 DEF PumpClose
<1>15. CASE CoreLog
  BY <1>0, <1>15, <1>s DEF CoreLog
<1>16. CASE CoreExit
  BY <1>0, <1>16, <1>s DEF CoreExit
<1>17. CASE Tick
  BY <1>0, <1>17, <1>s DEF Tick
<1>18. CASE NodeKilled
  BY <1>0, <1>18, <1>s DEF NodeKilled
<1> QED
  BY <1>1, <1>2, <1>3, <1>4, <1>5, <1>6, <1>7, <1>8, <1>9, <1>10, <1>11, <1>12, <1>13, <1>14, <1>15,
     <1>16, <1>17, <1>18 DEF LogNext, Seal

\* The pump keeps its type, and no date is later than today.
LEMMA PumpTypeStep ==
  ASSUME LogInv, UNCHANGED gone, LogNext \/ NodeKilled
  PROVE  (pump \in PumpRecord /\ pump.openDate <= today /\ pump.sealDay <= today)'
<1> USE StreamAssumption DEF PumpRecord, Labels, Goto, Refuse, diskVars, streamVars, historyVars
<1> DEFINE PumpType == pump \in PumpRecord /\ pump.openDate <= today /\ pump.sealDay <= today
<1> SUFFICES PumpType'
  OBVIOUS
<1>0. /\ pump \in PumpRecord /\ HoldsFile /\ JournalInv /\ Types /\ PumpType /\ today \in Nat
      /\ pump.pending \in Seq(Bytes) /\ HoldsBytes /\ NumbersInv
  BY DEF LogInv, Types, LogTypeOK
<1>s. ASSUME NEW label \in Labels, pump' = [pump EXCEPT !.pc = label], UNCHANGED today  PROVE PumpType'
  BY <1>0, <1>s
<1>u. UNCHANGED <<pump, today>> => PumpType'
  BY <1>0
<1>d. pump' = Down /\ UNCHANGED today => PumpType'
  <2>1. Down \in PumpRecord /\ Down.openDate = 0 /\ Down.sealDay = 0
    BY DEF Down
  <2> QED
    BY <1>0, <2>1
<1> DEFINE piece == Piece(pump.pending)
<1>a. ASSUME AppendPiece(piece), UNCHANGED today  PROVE PumpType'
  <2>1. CASE Goto("close")
    BY <1>a, <1>s, <2>1
  <2> DEFINE rest == SubSeq(pump.pending, Len(piece) + 1, Len(pump.pending))
  <2>2. CASE pump' = [pump EXCEPT !.pc = "write", !.pending = rest]
    <3>1. Len(piece) \in 0..Len(pump.pending) /\ <<>> \in Seq(Bytes)
      BY <1>0, PieceFront
    <3> HIDE DEF piece
    <3>2. rest \in Seq(Bytes)
      BY <1>0, <3>1, WrittenFront
    <3> HIDE DEF rest
    <3> QED
      BY <1>0, <1>a, <2>2, <3>2
  <2> QED
    BY <1>a, <2>1, <2>2 DEF AppendPiece
<1> HIDE DEF PumpType
<1>1. CASE StartPump
  BY <1>0, <1>1, <1>s DEF StartPump
<1>2. CASE RecoverRename
  BY <1>0, <1>2, <1>s, <1>d DEF RecoverRename
<1>3. CASE RecoverUnlink
  BY <1>0, <1>3, <1>s, <1>d DEF RecoverUnlink
<1>4. CASE OpenWriter
  <2>1. CASE Refuse("io")
    BY <1>4, <1>d, <2>1 DEF OpenWriter
  <2>2. CASE pump' = [Down EXCEPT !.pc = "wait", !.usable = TRUE, !.openDate = today,
                                !.segment = Cardinality(DOMAIN sealed)]
    <3>1. Cardinality(DOMAIN sealed) \in Nat
      BY <1>0, SegmentsAreFinite
    <3>2. Down \in PumpRecord /\ Down.sealDay = 0
      BY DEF Down
    <3>3. UNCHANGED today
      BY <1>4 DEF OpenWriter
    <3>4. pump' \in PumpRecord
      BY <1>0, <2>2, <3>1, <3>2
    <3>5. pump'.openDate = today /\ pump'.sealDay = 0
      BY <2>2, <3>2
    <3> QED
      BY <1>0, <3>3, <3>4, <3>5 DEF PumpType
  <2> QED
    BY <1>4, <2>1, <2>2 DEF OpenWriter
<1>5. CASE PumpRead
  <2>1. pump' = [pump EXCEPT !.pc = "write", !.pending = pump'.pending] /\ pump'.pending \in Seq(Bytes)
    BY <1>0, <1>5, ReadKeepsOut
  <2> DEFINE p == pump'.pending
  <2> HIDE DEF p
  <2>2. pump' = [pump EXCEPT !.pc = "write", !.pending = p] /\ p \in Seq(Bytes)
    BY <2>1, Zenon DEF p
  <2> QED
    BY <1>0, <1>5, <2>2 DEF PumpRead, PumpType
<1>6. CASE PumpStop
  BY <1>0, <1>6, <1>s DEF PumpStop
<1>7. CASE WriteLine
  <2>1. CASE Goto(Loop)
    BY <1>7, <1>s, <2>1 DEF WriteLine, Loop
  <2>2. CASE pump' = [pump EXCEPT !.pc = "seal", !.sealDay = today]
    <3>1. pump' \in PumpRecord
      BY <1>0, <2>2
    <3>2. pump'.openDate = pump.openDate /\ pump'.sealDay = today /\ UNCHANGED today
      BY <1>0, <1>7, <2>2 DEF WriteLine
    <3> QED
      BY <1>0, <3>1, <3>2 DEF PumpType
  <2>3. CASE AppendPiece(piece)
    BY <1>7, <1>a, <2>3 DEF WriteLine
  <2> QED
    BY <1>7, <2>1, <2>2, <2>3 DEF WriteLine
<1>8. CASE WriteSealed
  BY <1>8, <1>a DEF WriteSealed
<1>9. CASE SealJournal
  <2>1. CASE Goto("close")
    BY <1>9, <1>s, <2>1 DEF SealJournal
  <2> DEFINE n == CHOOSE i \in Unused : \A j \in Unused : i <= j
  <2>2. CASE pump' = [pump EXCEPT !.pc = "journal", !.segment = n, !.target = <<pump.openDate, n>>]
    <3>1. n \in 1..Total /\ <<pump.openDate, n>> \in Names
      BY <1>0, <1>9, SealNumber DEF SealJournal
    <3> HIDE DEF n
    <3>2. n \in Nat
      BY <3>1
    <3> QED
      BY <1>0, <1>9, <2>2, <3>1, <3>2 DEF SealJournal, PumpType
  <2> QED
    BY <1>9, <2>1, <2>2 DEF SealJournal
<1>10. CASE SealWriteJournal
  BY <1>0, <1>10, <1>s DEF SealWriteJournal
<1>11. CASE SealRename
  BY <1>0, <1>11 DEF SealRename, PumpType
<1>12. CASE SealUnjournal
  BY <1>0, <1>12, <1>s DEF SealUnjournal
<1>13. CASE SealReopen
  <2>1. CASE Goto("close")
    BY <1>13, <1>s, <2>1 DEF SealReopen
  <2>2. CASE pump' = [pump EXCEPT !.pc = "append", !.usable = TRUE, !.openDate = pump.sealDay,
                                     !.sealDay = 0, !.target = None]
    <3>1. pump' \in PumpRecord
      BY <1>0, <2>2
    <3>2. pump'.openDate = pump.sealDay /\ pump'.sealDay = 0 /\ UNCHANGED today
      BY <1>0, <1>13, <2>2 DEF SealReopen
    <3> QED
      BY <1>0, <3>1, <3>2 DEF PumpType
  <2> QED
    BY <1>13, <2>1, <2>2, Zenon DEF SealReopen
<1>14. CASE PumpClose
  BY <1>0, <1>14, <1>d DEF PumpClose
<1>15. CASE CoreLog
  BY <1>0, <1>15, <1>u DEF CoreLog
<1>16. CASE CoreExit
  BY <1>0, <1>16, <1>u DEF CoreExit
<1>17. CASE Tick
  BY <1>0, <1>17 DEF Tick, PumpType
<1>18. CASE NodeKilled
  BY <1>0, <1>18, <1>d DEF NodeKilled
<1> QED
  BY <1>1, <1>2, <1>3, <1>4, <1>5, <1>6, <1>7, <1>8, <1>9, <1>10, <1>11, <1>12, <1>13, <1>14, <1>15,
     <1>16, <1>17, <1>18 DEF LogNext, Seal

\* The bytes of a front.
LEMMA FrontBytes ==
  ASSUME NEW t \in Seq(Bytes), NEW n \in 0..Len(t)
  PROVE  /\ ToSet(t) \subseteq Bytes /\ ToSet(SubSeq(t, 1, n)) \subseteq Bytes
         /\ ToSet(SubSeq(t, 1, n)) = {t[i] : i \in 1..n}
<1>1. <<>> \in Seq(Bytes)
  OBVIOUS
<1> DEFINE u == SubSeq(t, 1, n)
<1>2. u \in Seq(Bytes) /\ Len(u) = n /\ \A i \in 1..n : u[i] = t[i]
  BY <1>1, WrittenFront
<1> HIDE DEF u
<1>3. DOMAIN u = 1..n /\ DOMAIN t = 1..Len(t)
  BY <1>2
<1>4. ToSet(u) = {t[i] : i \in 1..n}
  BY <1>2, <1>3 DEF ToSet
<1>5. \A i \in 1..Len(t) : t[i] \in Bytes
  OBVIOUS
<1>6. ToSet(t) \subseteq Bytes
  BY <1>3, <1>5 DEF ToSet
<1>7. n <= Len(t)
  OBVIOUS
<1>8. \A i \in 1..n : t[i] \in Bytes
  BY <1>5, <1>7
<1> QED
  BY <1>4, <1>6, <1>8 DEF u

\* The stream, its history and the bounds keep their types.
LEMMA StreamTypeStep ==
  ASSUME LogInv, UNCHANGED gone, LogNext \/ NodeKilled
  PROVE  (/\ coreUp \in BOOLEAN /\ fed \in 0..Total /\ taken \in 0..fed /\ today \in 0..MaxDay
          /\ refused \in Reasons \cup {None}
          /\ spilt \subseteq Bytes /\ scraps \subseteq Bytes
          /\ mishaps \in 0..MaxMishaps)'
<1> USE StreamAssumption DEF PumpRecord, Labels, Reasons, Goto, Refuse, diskVars, streamVars, historyVars
<1> DEFINE StreamType ==
      /\ coreUp \in BOOLEAN /\ fed \in 0..Total /\ taken \in 0..fed /\ today \in 0..MaxDay
      /\ refused \in Reasons \cup {None}
      /\ spilt \subseteq Bytes /\ scraps \subseteq Bytes
      /\ mishaps \in 0..MaxMishaps
<1> SUFFICES StreamType'
  OBVIOUS
<1>0. pump \in PumpRecord /\ Types /\ pump.pending \in Seq(Bytes)
  BY DEF LogInv, Types, LogTypeOK
<1>t. StreamType
  BY <1>0 DEF Types, LogTypeOK
<1>m. UNCHANGED mishaps \/ Mishap => mishaps' \in 0..MaxMishaps
  BY <1>t DEF Mishap
<1>s. ASSUME UNCHANGED today, <<taken', fed'>> \in {<<taken, fed>>, <<fed, fed>>}, coreUp' \in BOOLEAN,
             refused' \in Reasons \cup {None, refused},
             spilt' \subseteq Bytes \cup spilt, scraps' \subseteq Bytes \cup scraps, UNCHANGED mishaps \/ Mishap
      PROVE  StreamType'
  BY <1>m, <1>t, <1>s
<1>b. ToSet(pump.pending) \subseteq Bytes /\ \A n \in 0..(Len(pump.pending) - 1) : ToSet(SubSeq(pump.pending, 1, n)) \subseteq Bytes
  <2>1. Len(pump.pending) \in 0..Len(pump.pending) /\ \A n \in 0..(Len(pump.pending) - 1) : n \in 0..Len(pump.pending)
    BY <1>0
  <2> QED
    BY <1>0, <2>1, FrontBytes
<1> DEFINE piece == Piece(pump.pending)
<1>p. \A n \in 0..(Len(piece) - 1) : ToSet(SubSeq(piece, 1, n)) \subseteq Bytes
  <2>1. piece \in Seq(Bytes) /\ Len(piece) \in 0..Len(pump.pending)
    BY <1>0, PieceFront, PieceIsFront
  <2> HIDE DEF piece
  <2>2. \A n \in 0..(Len(piece) - 1) : n \in 0..Len(piece)
    BY <2>1
  <2> QED
    BY <2>1, <2>2, FrontBytes
<1> HIDE DEF StreamType
<1>1. CASE StartPump
  BY <1>0, <1>t, <1>1, <1>s DEF StartPump, StreamType
<1>2. CASE RecoverRename
  BY <1>0, <1>t, <1>2, <1>s DEF RecoverRename, StreamType
<1>3. CASE RecoverUnlink
  BY <1>0, <1>t, <1>3, <1>s DEF RecoverUnlink, StreamType
<1>4. CASE OpenWriter
  <2>1. CASE Mishap /\ Refuse("io") /\ UNCHANGED <<streamVars, spilt>>
    BY <1>0, <1>t, <1>4, <1>s, <2>1 DEF OpenWriter, StreamType
  <2>2. CASE /\ coreUp' = TRUE /\ fed' = (IF NextLine > Total THEN Total ELSE NextLine) /\ taken' = fed'
             /\ spilt' = spilt \cup {b \in Bytes : fed < b /\ b <= fed'} /\ UNCHANGED <<refused, mishaps>>
    <3> DEFINE m == IF NextLine > Total THEN Total ELSE NextLine
    <3>1. m \in 0..Total
      <4>1. fed \in 0..Total
        BY <1>t DEF StreamType
      <4> QED
        BY <4>1, NextLineType
    <3> HIDE DEF m
    <3>2. fed' = m /\ taken' = m /\ UNCHANGED <<today, scraps>>
      BY <1>4, <2>2 DEF OpenWriter, m
    <3> QED
      BY <1>t, <2>2, <3>1, <3>2 DEF StreamType
  <2> QED
    BY <1>4, <2>1, <2>2 DEF OpenWriter
<1>5. CASE PumpRead
  <2>1. taken' \in taken..fed
    BY <1>0, <1>5, ReadKeepsOut
  <2> QED
    BY <1>t, <1>5, <2>1 DEF PumpRead, StreamType
<1>6. CASE PumpStop
  BY <1>0, <1>t, <1>6, <1>s DEF PumpStop, StreamType
<1>7. CASE WriteLine
  BY <1>0, <1>t, <1>p, <1>7, <1>s DEF WriteLine, AppendPiece, StreamType
<1>8. CASE WriteSealed
  BY <1>0, <1>t, <1>p, <1>8, <1>s DEF WriteSealed, AppendPiece, StreamType
<1>9. CASE SealJournal
  BY <1>0, <1>t, <1>9, <1>s DEF SealJournal, StreamType
<1>10. CASE SealWriteJournal
  BY <1>0, <1>t, <1>10, <1>s DEF SealWriteJournal, StreamType
<1>11. CASE SealRename
  BY <1>0, <1>t, <1>11, <1>s DEF SealRename, StreamType
<1>12. CASE SealUnjournal
  BY <1>0, <1>t, <1>12, <1>s DEF SealUnjournal, StreamType
<1>13. CASE SealReopen
  BY <1>0, <1>t, <1>13, <1>s DEF SealReopen, StreamType
<1>14. CASE PumpClose
  <2>1. <<taken', fed'>> = <<fed, fed>> /\ UNCHANGED <<today, coreUp, refused>>
    BY <1>14 DEF PumpClose
  <2>2. spilt' \subseteq Bytes \cup spilt
    BY <1>b, <1>14 DEF PumpClose
  <2>3. scraps' \subseteq Bytes \cup scraps /\ (UNCHANGED mishaps \/ Mishap)
    BY <1>b, <1>14 DEF PumpClose
  <2> QED
    BY <1>t, <1>s, <2>1, <2>2, <2>3 DEF StreamType
<1>15. CASE CoreLog
  <2>1. /\ fed + 1 \in 0..Total /\ fed + 1 \in Bytes /\ fed' = fed + 1
        /\ taken' \in {taken, fed + 1} /\ spilt' \subseteq spilt \cup {fed + 1}
    BY <1>t, <1>15 DEF CoreLog, StreamType, Bytes
  <2>2. UNCHANGED <<coreUp, today, refused, scraps, mishaps>>
    BY <1>15 DEF CoreLog
  <2>3. taken' \in 0..(fed + 1)
    BY <1>t, <2>1 DEF StreamType
  <2> QED
    BY <1>t, <2>1, <2>2, <2>3 DEF StreamType
<1>16. CASE CoreExit
  BY <1>0, <1>t, <1>m, <1>16 DEF CoreExit, StreamType, Bytes
<1>17. CASE Tick
  BY <1>t, <1>17 DEF Tick, StreamType
<1>18. CASE NodeKilled
  BY <1>0, <1>t, <1>b, <1>18, <1>s DEF NodeKilled, StreamType
<1> QED
  BY <1>1, <1>2, <1>3, <1>4, <1>5, <1>6, <1>7, <1>8, <1>9, <1>10, <1>11, <1>12, <1>13, <1>14, <1>15,
     <1>16, <1>17, <1>18 DEF LogNext, Seal

\* Types is kept.
LEMMA TypesStep ==
  ASSUME LogInv, UNCHANGED gone, LogNext \/ NodeKilled
  PROVE  Types'
<1>1. pump' \in PumpRecord /\ pump'.openDate <= today' /\ pump'.sealDay <= today'
  BY PumpTypeStep
<1>2. (/\ pump.pc \in Labels /\ pump.usable \in BOOLEAN /\ pump.pending \in Seq(Bytes) /\ pump.segment \in Nat
       /\ pump.openDate \in Nat /\ pump.sealDay \in Nat /\ pump.target \in Names \cup {None})'
  BY <1>1 DEF PumpRecord
<1>3. \A g \in gone' : g.name \in Names /\ g.file \in File
  BY DEF LogInv, Types
<1>4. LogTypeOK'
  BY <1>2, FilesTypeStep, StreamTypeStep DEF LogTypeOK, Labels
<1> QED
  BY <1>1, <1>3, <1>4 DEF Types

\* A step that writes nothing keeps the files, or adds an empty one.  What it
\* loses it counts, and the pump starts at the start of a line.
Quiet ==
  /\ Files \subseteq Files' /\ \A f \in Files' : f \in Files \/ (f.data = <<>> /\ f.ino = inodes + 1)
  /\ scraps' = scraps /\ spilt \subseteq spilt'
  /\ Out <= Out' /\ (Out + 1)..Out' \subseteq spilt'
  /\ pump.pc \in Starting /\ pump'.pc \notin Starting => LineStart(Out') \/ Out' = Total

\* A step that writes n bytes has taken them from memory, or has failed.  While
\* the pump runs, they are what the loop of Write takes.
Written(n) ==
  /\ Write(n) /\ active # None /\ active' # None /\ UNCHANGED sealed
  /\ active'.ino = active.ino /\ Len(active'.data) = Len(active.data) + n
  /\ \A i \in 1..Len(active.data) : active'.data[i] = active.data[i]
  /\ \A i \in 1..n : active'.data[Len(active.data) + i] = pump.pending[i]
  /\ spilt \subseteq spilt' /\ pump.pc \notin Starting
  /\ \/ /\ scraps' = scraps /\ Out + n <= Out' /\ (Out + n + 1)..Out' \subseteq spilt'
        /\ \/ pump'.pc \in Starting /\ n = Len(pump.pending)
           \/ n = Len(Piece(pump.pending)) /\ n # 0 /\ Out' = Out + n
     \/ /\ scraps' = scraps \cup (Out + 1)..(Out + n) /\ Out <= Out' /\ (Out + 1)..Out' \subseteq spilt'

\* The pump's memory is the end of what it has taken.
LEMMA Memory ==
  ASSUME Types, HoldsBytes
  PROVE  /\ Out \in Nat /\ Out <= taken /\ taken \in Nat /\ taken <= Total
         /\ taken = Out + Len(pump.pending) /\ Len(pump.pending) \in Nat /\ pump.pending \in Seq(Bytes)
         /\ ToSet(pump.pending) = (Out + 1)..taken
         /\ \A n \in 0..Len(pump.pending) : ToSet(SubSeq(pump.pending, 1, n)) = (Out + 1)..(Out + n)
<1>1. /\ pump.pending \in Seq(Bytes) /\ Len(pump.pending) \in Nat /\ taken \in Nat /\ taken <= Total
      /\ Len(pump.pending) <= taken /\ \A i \in 1..Len(pump.pending) : pump.pending[i] = Out + i
  BY StreamAssumption DEF Types, LogTypeOK, HoldsBytes
<1>2. Out \in Nat /\ Out <= taken /\ taken = Out + Len(pump.pending)
  BY <1>1 DEF Out
<1>3. ASSUME NEW n \in 0..Len(pump.pending)
      PROVE  ToSet(SubSeq(pump.pending, 1, n)) = (Out + 1)..(Out + n)
  <2>1. ToSet(SubSeq(pump.pending, 1, n)) = {pump.pending[i] : i \in 1..n}
    BY <1>1, FrontBytes
  <2>2. \A i \in 1..n : pump.pending[i] = Out + i
    BY <1>1
  <2>3. \A b \in (Out + 1)..(Out + n) : b - Out \in 1..n /\ b = Out + (b - Out)
    BY <1>2
  <2>4. \A i \in 1..n : Out + i \in (Out + 1)..(Out + n)
    BY <1>2
  <2>5. \A b \in (Out + 1)..(Out + n) : \E i \in 1..n : b = pump.pending[i]
    BY <2>2, <2>3
  <2>6. {pump.pending[i] : i \in 1..n} \subseteq (Out + 1)..(Out + n)
    BY <2>2, <2>4
  <2>7. (Out + 1)..(Out + n) \subseteq {pump.pending[i] : i \in 1..n}
    BY <2>5
  <2> QED
    BY <2>1, <2>6, <2>7
<1>4. SubSeq(pump.pending, 1, Len(pump.pending)) = pump.pending /\ Len(pump.pending) \in 0..Len(pump.pending)
  BY <1>1, SubSeqFull
<1>5. ToSet(pump.pending) = (Out + 1)..(Out + Len(pump.pending))
  BY <1>3, <1>4
<1> QED
  BY <1>1, <1>2, <1>3, <1>5

\* A rename keeps the file.
LEMMA RenameKeepsFiles ==
  ASSUME NEW name, name \notin DOMAIN sealed, active # None, active' = None,
         sealed' = [n \in DOMAIN sealed \cup {name} |-> IF n = name THEN active ELSE sealed[n]]
  PROVE  Files' = Files
<1>1. DOMAIN sealed' = DOMAIN sealed \cup {name} /\ sealed'[name] = active
      /\ \A n \in DOMAIN sealed : sealed'[n] = sealed[n]
  OBVIOUS
<1>2. {sealed'[n] : n \in DOMAIN sealed'} = {sealed[n] : n \in DOMAIN sealed} \cup {active}
  BY <1>1
<1> QED
  BY <1>2 DEF Files

\* An open that creates adds an empty file with a new inode.
LEMMA OpenAddsEmpty ==
  ASSUME Types, active' = OpenActive, UNCHANGED sealed
  PROVE  Files \subseteq Files' /\ \A f \in Files' : f \in Files \/ (f.data = <<>> /\ f.ino = inodes + 1)
BY Opened DEF Files

\* Every step of the log is one that writes nothing, or one that writes the front
\* of what is pending.
LEMMA StepShape ==
  ASSUME LogInv, UNCHANGED gone, LogNext \/ NodeKilled
  PROVE  Quiet \/ \E n : Written(n)
<1> USE StreamAssumption DEF PumpRecord, Labels, Starting, Goto, Refuse, diskVars, streamVars, historyVars
<1>0. /\ pump \in PumpRecord /\ Types /\ HoldsBytes /\ HoldsFile /\ JournalInv
      /\ fed \in Nat /\ taken <= fed
  BY DEF LogInv, Types, LogTypeOK
<1>m. /\ Out \in Nat /\ Out <= taken /\ taken \in Nat
      /\ taken = Out + Len(pump.pending) /\ Len(pump.pending) \in Nat /\ pump.pending \in Seq(Bytes)
      /\ ToSet(pump.pending) = (Out + 1)..taken
      /\ \A n \in 0..Len(pump.pending) : ToSet(SubSeq(pump.pending, 1, n)) = (Out + 1)..(Out + n)
  BY <1>0, Memory
<1>z. (Out + 1)..Out = {}
  BY <1>m
<1>q. ASSUME Files \subseteq Files', \A f \in Files' : f \in Files \/ (f.data = <<>> /\ f.ino = inodes + 1),
             UNCHANGED <<scraps, spilt, taken>>, pump'.pending = pump.pending,
             pump.pc \in Starting => pump'.pc \in Starting
      PROVE  Quiet
  <2>1. Out' = Out
    BY <1>q DEF Out
  <2> QED
    BY <1>m, <1>z, <1>q, <2>1 DEF Quiet
<1>f. ASSUME UNCHANGED <<active, sealed, scraps, spilt, taken>>, pump'.pending = pump.pending,
             pump.pc \in Starting => pump'.pc \in Starting
      PROVE  Quiet
  <2>1. Files' = Files
    BY <1>f DEF Files
  <2> QED
    BY <1>q, <1>f, <2>1
<1>e. \A t : t = <<>> => Len(t) = 0
  OBVIOUS
\* The memory is lost.
<1>d. ASSUME NEW m \in Nat, m >= fed, UNCHANGED <<active, sealed, scraps>>, pump'.pending = <<>>, taken' = m,
             (Out + 1)..m \subseteq spilt', spilt \subseteq spilt', pump'.pc \in Starting
      PROVE  Quiet
  <2>1. Files' = Files
    BY <1>d DEF Files
  <2>2. Len(pump'.pending) = 0
    BY <1>d, <1>e
  <2>3. Out' = m
    BY <1>d, <2>2 DEF Out
  <2>4. Out <= m
    BY <1>0, <1>m, <1>d
  <2> QED
    BY <1>d, <2>1, <2>3, <2>4 DEF Quiet
\* A start that is refused.
<1>r. pump.pc \in Starting /\ pump' = Down /\ UNCHANGED <<active, sealed, scraps, spilt, taken>> => Quiet
  BY <1>0, <1>f DEF Down, HoldsBytes
<1> DEFINE piece == Piece(pump.pending)
<1>p. Len(piece) \in 0..Len(pump.pending) /\ piece = SubSeq(pump.pending, 1, Len(piece))
  BY <1>m, PieceFront
<1>a. ASSUME AppendPiece(piece), pump.pc \in {"write", "append"}, piece # <<>>, UNCHANGED <<sealed, taken, spilt>>
      PROVE  Quiet \/ \E n : Written(n)
  <2>0. active # None
    BY <1>0, <1>a DEF HoldsFile
  <2> DEFINE k == Len(piece)
  <2>1. CASE /\ active' = [active EXCEPT !.data = active.data \o piece]
             /\ pump' = [pump EXCEPT !.pc = "write", !.pending = SubSeq(pump.pending, k + 1, Len(pump.pending))]
             /\ UNCHANGED scraps
    <3>1. Write(k)
      BY <1>p, <2>1, Zenon DEF Write
    <3>2. k # 0
      <4>1. piece \in Seq(Bytes)
        BY <1>m, PieceIsFront
      <4> HIDE DEF piece
      <4> QED
        BY <1>a, <4>1, EmptySeq
    <3> HIDE DEF piece
    <3>3. k \in 0..Len(pump.pending) /\ <<>> \in Seq(Bytes)
      BY <1>p
    <3> HIDE DEF k
    <3> DEFINE rest == SubSeq(pump.pending, k + 1, Len(pump.pending))
    <3>4. Len(rest) = Len(pump.pending) - k
      BY <1>m, <3>3, WrittenFront
    <3> HIDE DEF rest
    <3>5. pump'.pending = rest /\ taken' = taken
      BY <1>0, <1>a, <2>1 DEF rest, k
    <3>6. Out' = Out + k
      BY <1>m, <3>3, <3>4, <3>5 DEF Out
    <3>7. (Out + k + 1)..(Out + k) = {} /\ Out + k <= Out + k
      BY <1>m, <3>3
    <3>8. k = Len(Piece(pump.pending))
      BY DEF k, piece
    <3>9. /\ active' # None /\ active'.ino = active.ino /\ Len(active'.data) = Len(active.data) + k
          /\ \A i \in 1..Len(active.data) : active'.data[i] = active.data[i]
          /\ \A i \in 1..k : active'.data[Len(active.data) + i] = pump.pending[i]
      BY <1>0, <1>a, <3>1, ActiveKept DEF k
    <3>10. scraps' = scraps /\ spilt \subseteq spilt' /\ sealed' = sealed /\ pump.pc \notin Starting
      BY <1>a, <2>1
    <3>11. Written(k)
      <4> HIDE DEF k
      <4>1. Out + k <= Out' /\ (Out + k + 1)..Out' \subseteq spilt'
        BY <3>6, <3>7
      <4>2. Write(k)
        BY <3>1 DEF k
      <4> QED
        BY <2>0, <3>2, <3>6, <3>8, <3>9, <3>10, <4>1, <4>2, Zenon DEF Written, k
    <3> QED
      BY <3>11
  <2>2. ASSUME NEW n \in 0..(k - 1), Goto("close"),
               active' = [active EXCEPT !.data = active.data \o SubSeq(piece, 1, n)],
               scraps' = scraps \cup ToSet(SubSeq(piece, 1, n))
        PROVE  Written(n)
    <3> HIDE DEF piece
    <3>0. n \in 0..k /\ n \in 0..Len(pump.pending)
      BY <1>m, <1>p, <2>2
    <3>1. SubSeq(piece, 1, n) = SubSeq(pump.pending, 1, n)
      BY <1>m, <1>p, <3>0, FrontOfFront
    <3>2. Write(n)
      BY <3>0, <3>1, <2>2, Zenon DEF Write
    <3>3. /\ active' # None /\ active'.ino = active.ino /\ Len(active'.data) = Len(active.data) + n
          /\ \A i \in 1..Len(active.data) : active'.data[i] = active.data[i]
          /\ \A i \in 1..n : active'.data[Len(active.data) + i] = pump.pending[i]
      BY <1>0, <1>a, <3>2, ActiveKept
    <3>4. scraps' = scraps \cup (Out + 1)..(Out + n)
      BY <1>m, <2>2, <3>0, <3>1
    <3>5. Out' = Out /\ Out <= Out
      BY <1>0, <1>m, <1>a, <2>2 DEF Out
    <3>6. spilt \subseteq spilt' /\ sealed' = sealed /\ pump.pc \notin Starting
      BY <1>a
    <3>7. Out <= Out' /\ (Out + 1)..Out' \subseteq spilt'
      BY <1>z, <3>5
    <3> QED
      BY <2>0, <3>2, <3>3, <3>4, <3>6, <3>7, Zenon DEF Written
  <2> QED
    BY <1>a, <2>1, <2>2 DEF AppendPiece
<1> HIDE DEF piece
<1>1. CASE StartPump
  BY <1>0, <1>1, <1>f DEF StartPump
<1>2. CASE RecoverRename
  <2>1. CASE journal = None /\ Goto("open") /\ UNCHANGED <<active, sealed>>
    BY <1>0, <1>2, <1>f, <2>1 DEF RecoverRename
  <2>2. CASE pump' = Down /\ UNCHANGED <<active, sealed>>
    BY <1>2, <1>r, <2>2 DEF RecoverRename
  <2>3. CASE /\ journal \in Names /\ active # None /\ journal \notin DOMAIN sealed
             /\ sealed' = [n \in DOMAIN sealed \cup {journal} |->
                             IF n = journal THEN active ELSE sealed[n]]
             /\ active' = None /\ Goto("unlink")
    <3>1. Files' = Files
      BY <2>3, RenameKeepsFiles
    <3> QED
      BY <1>0, <1>2, <1>q, <2>3, <3>1 DEF RecoverRename
  <2>4. CASE Goto("unlink") /\ UNCHANGED <<active, sealed>>
    BY <1>0, <1>2, <1>f, <2>4 DEF RecoverRename
  <2> QED
    BY <1>2, <2>1, <2>2, <2>3, <2>4 DEF RecoverRename
<1>3. CASE RecoverUnlink
  BY <1>0, <1>3, <1>f, <1>r DEF RecoverUnlink
<1>4. CASE OpenWriter
  <2>0. Out = fed /\ pump.pc \in Starting
    BY <1>0, <1>e, <1>m, <1>4 DEF OpenWriter, HoldsBytes
  <2>1. CASE Refuse("io") /\ UNCHANGED <<active, streamVars, spilt>>
    BY <1>4, <1>r, <2>0, <2>1 DEF OpenWriter
  <2>2. CASE /\ active' = OpenActive /\ fed' = (IF NextLine > Total THEN Total ELSE NextLine) /\ taken' = fed'
             /\ spilt' = spilt \cup {b \in Bytes : fed < b /\ b <= fed'} /\ pump'.pending = <<>>
    <3> DEFINE m == IF NextLine > Total THEN Total ELSE NextLine
    <3>1. m \in Nat /\ fed <= m /\ m <= Total /\ (LineStart(m) \/ m = Total)
      <4>1. fed \in 0..Total
        BY <1>0 DEF Types, LogTypeOK
      <4> QED
        BY <4>1, NextLineType
    <3>2. taken' = m /\ spilt' = spilt \cup {b \in Bytes : fed < b /\ b <= m}
      BY <2>2
    <3> HIDE DEF m
    <3>3. Len(pump'.pending) = 0
      BY <2>2, <1>e
    <3>4. Out' = m
      BY <3>1, <3>2, <3>3 DEF Out
    <3>5. (Out + 1)..m \subseteq spilt' /\ spilt \subseteq spilt'
      BY <1>0, <2>0, <3>1, <3>2 DEF Bytes
    <3>6. Files \subseteq Files' /\ (\A f \in Files' : f \in Files \/ (f.data = <<>> /\ f.ino = inodes + 1)) /\ scraps' = scraps
      BY <1>0, <1>4, <2>2, OpenAddsEmpty DEF OpenWriter
    <3>7. Quiet
      BY <2>0, <3>1, <3>4, <3>5, <3>6 DEF Quiet
    <3> QED
      BY <3>7
  <2> QED
    BY <1>4, <2>1, <2>2 DEF OpenWriter, Down
<1>5. CASE PumpRead
  <2>1. Out' = Out /\ pump.pc \notin Starting
    BY <1>0, <1>5, ReadKeepsOut DEF PumpRead
  <2>2. Files' = Files /\ UNCHANGED historyVars
    BY <1>5 DEF PumpRead, Files
  <2>3. Quiet
    BY <1>m, <1>z, <2>1, <2>2 DEF Quiet
  <2> QED
    BY <2>3
<1>6. CASE PumpStop
  BY <1>0, <1>6, <1>f DEF PumpStop
<1>7. CASE WriteLine
  <2>1. CASE piece # <<>> /\ AppendPiece(piece)
    BY <1>7, <1>a, <2>1 DEF WriteLine
  <2>2. CASE pump'.pending = pump.pending /\ UNCHANGED <<active, scraps>>
    BY <1>7, <1>f, <2>2 DEF WriteLine
  <2> QED
    BY <1>0, <1>7, <2>1, <2>2 DEF WriteLine, piece
<1>8. CASE WriteSealed
  BY <1>0, <1>8, <1>a DEF WriteSealed, piece, HoldsBytes, Sealing
<1>9. CASE SealJournal
  BY <1>0, <1>9, <1>f DEF SealJournal
<1>10. CASE SealWriteJournal
  BY <1>0, <1>10, <1>f DEF SealWriteJournal
<1>11. CASE SealRename
  <2>1. CASE \E open \in BOOLEAN : pump' = [pump EXCEPT !.pc = "close", !.usable = open] /\ UNCHANGED <<active, sealed>>
    <3>1. pump'.pending = pump.pending
      BY <1>0, <2>1
    <3> QED
      BY <1>11, <1>f, <2>1, <3>1 DEF SealRename
  <2>2. CASE /\ sealed' = [n \in DOMAIN sealed \cup {pump.target} |->
                             IF n = pump.target THEN active ELSE sealed[n]]
             /\ active' = None /\ pump' = [pump EXCEPT !.pc = "unjournal", !.usable = FALSE]
    <3>1. pump.target \notin DOMAIN sealed /\ active # None
      BY <1>0, <1>11 DEF SealRename, JournalInv, HoldsFile
    <3>2. Files' = Files
      BY <2>2, <3>1, RenameKeepsFiles
    <3>3. pump'.pending = pump.pending
      BY <1>0, <2>2
    <3> QED
      BY <1>11, <1>q, <3>2, <3>3 DEF SealRename
  <2> QED
    BY <1>11, <2>1, <2>2 DEF SealRename
<1>12. CASE SealUnjournal
  BY <1>0, <1>12, <1>f DEF SealUnjournal
<1>13. CASE SealReopen
  <2>1. CASE Goto("close") /\ UNCHANGED active
    BY <1>0, <1>13, <1>f, <2>1 DEF SealReopen
  <2>2. CASE active' = OpenActive /\ pump' = [pump EXCEPT !.pc = "append", !.usable = TRUE, !.openDate = pump.sealDay,
                                     !.sealDay = 0, !.target = None]
    <3>1. Files \subseteq Files' /\ \A f \in Files' : f \in Files \/ (f.data = <<>> /\ f.ino = inodes + 1)
      BY <1>0, <1>13, <2>2, OpenAddsEmpty DEF SealReopen
    <3>2. pump'.pending = pump.pending
      BY <1>0, <2>2
    <3> QED
      BY <1>13, <1>q, <3>1, <3>2 DEF SealReopen
  <2> QED
    BY <1>13, <2>1, <2>2, Zenon DEF SealReopen
<1>14. CASE PumpClose
  <2> DEFINE rest == {b \in Bytes : taken < b /\ b <= fed}
  <2>0. /\ taken' = fed /\ pump'.pending = <<>> /\ pump'.pc = "down" /\ UNCHANGED sealed
        /\ pump.pc \notin Starting
    BY <1>14 DEF PumpClose, Down
  <2>1. Len(pump'.pending) = 0
    BY <2>0, <1>e
  <2>2. Out' = fed
    BY <1>0, <2>0, <2>1 DEF Out
  <2>3. (taken + 1)..fed \subseteq rest
    <3>1. fed <= Total
      BY <1>0 DEF Types, LogTypeOK
    <3> QED
      BY <1>0, <1>m, <3>1 DEF Bytes
  <2> HIDE DEF rest
  <2>4. CASE UNCHANGED <<active, scraps>> /\ spilt' = spilt \cup rest /\ pump.pending = <<>>
    <3>1. Out = taken
      BY <1>m, <2>4, <1>e
    <3>2. (Out + 1)..fed \subseteq spilt'
      BY <2>3, <2>4, <3>1
    <3> QED
      BY <1>0, <1>d, <2>0, <2>4, <3>2
  <2>5. CASE UNCHANGED <<active, scraps>> /\ spilt' = spilt \cup rest \cup ToSet(pump.pending)
    <3>1. (Out + 1)..fed \subseteq (Out + 1)..taken \cup (taken + 1)..fed
      BY <1>0, <1>m
    <3>2. (Out + 1)..fed \subseteq spilt'
      BY <1>m, <2>3, <2>5, <3>1
    <3> QED
      BY <1>0, <1>d, <2>0, <2>5, <3>2
  <2>6. ASSUME NEW n, Write(n), pump.usable, spilt \cup rest \subseteq spilt',
               \/ scraps' = scraps /\ n = Len(pump.pending)
               \/ scraps' = scraps \cup ToSet(SubSeq(pump.pending, 1, n)) /\ ToSet(pump.pending) \subseteq spilt'
        PROVE  Written(n)
    <3>1. n \in 0..Len(pump.pending)
      BY <2>6 DEF Write
    <3>2. /\ active # None /\ active' # None /\ active'.ino = active.ino /\ Len(active'.data) = Len(active.data) + n
          /\ \A i \in 1..Len(active.data) : active'.data[i] = active.data[i]
          /\ \A i \in 1..n : active'.data[Len(active.data) + i] = pump.pending[i]
      BY <1>0, <1>14, <2>6, ActiveKept DEF PumpClose
    <3>3. CASE scraps' = scraps /\ n = Len(pump.pending)
      <4>1. Out + n <= Out' /\ (Out + n + 1)..Out' \subseteq spilt'
        <5>1. Out + n = taken
          BY <1>m, <3>3
        <5>2. (taken + 1)..fed \subseteq spilt'
          BY <2>3, <2>6
        <5> QED
          BY <1>0, <2>2, <5>1, <5>2
      <4>2. spilt \subseteq spilt' /\ pump'.pc \in Starting
        BY <2>0, <2>6
      <4> QED
        BY <2>0, <2>6, <3>2, <3>3, <4>1, <4>2, Zenon DEF Written
    <3>4. CASE scraps' = scraps \cup ToSet(SubSeq(pump.pending, 1, n)) /\ ToSet(pump.pending) \subseteq spilt'
      <4>1. scraps' = scraps \cup (Out + 1)..(Out + n)
        BY <1>m, <3>1, <3>4
      <4>2. Out <= Out' /\ (Out + 1)..Out' \subseteq spilt'
        <5>1. (Out + 1)..fed \subseteq (Out + 1)..taken \cup (taken + 1)..fed /\ Out <= fed
          BY <1>0, <1>m
        <5>2. (Out + 1)..fed \subseteq spilt'
          BY <1>m, <2>3, <2>6, <3>4, <5>1
        <5> QED
          BY <2>2, <5>1, <5>2
      <4>3. spilt \subseteq spilt'
        BY <2>6
      <4> QED
        BY <2>0, <2>6, <3>2, <4>1, <4>2, <4>3, Zenon DEF Written
    <3> QED
      BY <2>6, <3>3, <3>4
  <2>7. SubSeq(pump.pending, 1, Len(pump.pending)) = pump.pending /\ Len(pump.pending) \in 0..Len(pump.pending)
    BY <1>m, SubSeqFull
  <2>8. CASE /\ pump.usable /\ active' = [active EXCEPT !.data = active.data \o pump.pending]
             /\ UNCHANGED scraps /\ spilt' = spilt \cup rest
    <3>1. Write(Len(pump.pending))
      BY <2>7, <2>8, Zenon DEF Write
    <3>2. Written(Len(pump.pending))
      BY <2>6, <2>8, <3>1
    <3> QED
      BY <3>2
  <2>9. CASE \E n \in 0..(Len(pump.pending) - 1) :
              /\ pump.usable
              /\ active' = [active EXCEPT !.data = active.data \o SubSeq(pump.pending, 1, n)]
              /\ scraps' = scraps \cup ToSet(SubSeq(pump.pending, 1, n))
              /\ spilt' = spilt \cup rest \cup ToSet(pump.pending)
    <3>1. PICK n \in 0..(Len(pump.pending) - 1) :
              /\ pump.usable
              /\ active' = [active EXCEPT !.data = active.data \o SubSeq(pump.pending, 1, n)]
              /\ scraps' = scraps \cup ToSet(SubSeq(pump.pending, 1, n))
              /\ spilt' = spilt \cup rest \cup ToSet(pump.pending)
      BY <2>9
    <3>2. n \in 0..Len(pump.pending)
      BY <1>m
    <3>3. Write(n)
      BY <3>1, <3>2, Zenon DEF Write
    <3>4. Written(n)
      BY <2>6, <3>1, <3>3
    <3> QED
      BY <3>4
  <2> QED
    BY <1>14, <2>4, <2>5, <2>8, <2>9, Zenon DEF PumpClose, rest
<1>15. CASE CoreLog
  <2>1. CASE pump.pc = "down"
    <3>1. taken' = fed + 1 /\ spilt' = spilt \cup {fed + 1} /\ UNCHANGED <<active, sealed, scraps, pump>>
      BY <1>15, <2>1 DEF CoreLog
    <3>2. Out = fed /\ pump.pending = <<>>
      BY <1>0, <1>e, <1>m, <2>1 DEF HoldsBytes
    <3>3. (Out + 1)..(fed + 1) \subseteq spilt' /\ fed + 1 \in Nat /\ fed + 1 >= fed
      BY <1>0, <3>1, <3>2
    <3> DEFINE m == fed + 1
    <3> HIDE DEF m
    <3>4. m \in Nat /\ m >= fed /\ taken' = m /\ (Out + 1)..m \subseteq spilt'
      BY <3>1, <3>3 DEF m
    <3> QED
      BY <1>d, <2>1, <3>1, <3>2, <3>4
  <2>2. CASE pump.pc # "down"
    BY <1>15, <1>f, <2>2 DEF CoreLog
  <2> QED
    BY <2>1, <2>2
<1>16. CASE CoreExit
  BY <1>0, <1>16, <1>f DEF CoreExit
<1>17. CASE Tick
  BY <1>0, <1>17, <1>f DEF Tick
<1>18. CASE NodeKilled
  <2> DEFINE rest == {b \in Bytes : taken < b /\ b <= fed}
  <2>1. /\ taken' = fed /\ pump'.pending = <<>> /\ pump'.pc = "down" /\ UNCHANGED <<active, sealed, scraps>>
        /\ spilt' = spilt \cup ToSet(pump.pending) \cup rest
    BY <1>18 DEF NodeKilled, Down
  <2>2. (taken + 1)..fed \subseteq rest
    <3>1. fed <= Total
      BY <1>0 DEF Types, LogTypeOK
    <3> QED
      BY <1>0, <1>m, <3>1 DEF Bytes
  <2> HIDE DEF rest
  <2>3. (Out + 1)..fed \subseteq (Out + 1)..taken \cup (taken + 1)..fed
    BY <1>0, <1>m
  <2>4. (Out + 1)..fed \subseteq spilt'
    BY <1>m, <2>1, <2>2, <2>3
  <2> QED
    BY <1>0, <1>d, <2>1, <2>4
<1> QED
  BY <1>1, <1>2, <1>3, <1>4, <1>5, <1>6, <1>7, <1>8, <1>9, <1>10, <1>11, <1>12, <1>13, <1>14, <1>15,
     <1>16, <1>17, <1>18 DEF LogNext, Seal

\* Memory holds the last bytes taken.
LEMMA LastBytes ==
  ASSUME NEW p \in Seq(Bytes), NEW k \in Nat, Len(p) <= k,
         \A i \in 1..Len(p) : p[i] = (k - Len(p)) + i
  PROVE  k - Len(p) \in Nat /\ ((k - Len(p)) + 1)..k \subseteq ToSet(p)
<1>1. Len(p) \in Nat /\ DOMAIN p = 1..Len(p)
  OBVIOUS
<1>2. ASSUME NEW b \in ((k - Len(p)) + 1)..k  PROVE b \in ToSet(p)
  <2>1. b - (k - Len(p)) \in 1..Len(p) /\ (k - Len(p)) + (b - (k - Len(p))) = b
    BY <1>1
  <2>2. p[b - (k - Len(p))] = b
    BY <2>1
  <2> QED
    BY <1>1, <2>1, <2>2 DEF ToSet
<1> QED
  BY <1>1, <1>2

\* The bytes of a file.
LEMMA FileBytes ==
  ASSUME NEW f \in File
  PROVE  /\ Len(f.data) \in Nat /\ f.ino \in Nat
         /\ \A i \in 1..Len(f.data) : f.data[i] \in Bytes /\ f.data[i] \in ToSet(f.data)
         /\ \A b \in ToSet(f.data) : b \in Bytes /\ \E i \in 1..Len(f.data) : b = f.data[i]
<1>1. f.data \in Seq(Bytes) /\ f.ino \in Nat
  BY DEF File
<1>2. Len(f.data) \in Nat /\ DOMAIN f.data = 1..Len(f.data)
  BY <1>1
<1>3. \A i \in 1..Len(f.data) : f.data[i] \in Bytes
  BY <1>1
<1> QED
  BY <1>1, <1>2, <1>3 DEF ToSet

\* What the files hold after a write.
LEMMA WrittenFiles ==
  ASSUME LogInv, NEW n, Written(n), Types'
  PROVE  LET L == Len(active.data) IN
         /\ n \in 0..Len(pump.pending) /\ n \in Nat /\ L \in Nat /\ Len(active'.data) = L + n
         /\ active \in Files /\ active \in File /\ active' \in Files' /\ active' \in File
         /\ \A f \in Files' : f \in File /\ (f = active' \/ (f \in Files /\ f.ino < active'.ino))
         /\ \A f \in Files : f \in File /\ (f = active \/ f \in Files')
         /\ active'.ino = active.ino
         /\ \A i \in 1..L : active'.data[i] = active.data[i]
         /\ \A i \in 1..n : active'.data[L + i] = Out + i
         /\ Out \in Nat /\ Out + n <= taken
<1>0. Types /\ HoldsBytes /\ InodesInv /\ NumbersInv
  BY DEF LogInv
<1>1. /\ active # None /\ active' # None /\ UNCHANGED sealed /\ active'.ino = active.ino
      /\ Len(active'.data) = Len(active.data) + n /\ n \in 0..Len(pump.pending)
      /\ \A i \in 1..Len(active.data) : active'.data[i] = active.data[i]
      /\ \A i \in 1..n : active'.data[Len(active.data) + i] = pump.pending[i]
  BY DEF Written, Write
<1>2. /\ active \in File /\ active' \in File /\ \A m \in DOMAIN sealed : sealed[m] \in File
      /\ inodes \in Nat
  BY <1>0, <1>1 DEF Types, LogTypeOK
<1>3. /\ Out \in Nat /\ taken = Out + Len(pump.pending) /\ Len(pump.pending) \in Nat
      /\ \A i \in 1..Len(pump.pending) : pump.pending[i] = Out + i
  BY <1>0, Memory DEF HoldsBytes
<1>4. \A i \in 1..n : active'.data[Len(active.data) + i] = Out + i
  <2>1. ASSUME NEW i \in 1..n  PROVE active'.data[Len(active.data) + i] = Out + i
    <3>1. i \in 1..Len(pump.pending)
      BY <1>1, <1>3
    <3>2. active'.data[Len(active.data) + i] = pump.pending[i] /\ pump.pending[i] = Out + i
      BY <1>1, <1>3, <3>1
    <3> QED
      BY <3>2
  <2> QED
    BY <2>1
<1>5. \A m \in DOMAIN sealed : sealed[m].ino < active.ino
  <2>1. active.ino = inodes /\ Renamed = inodes - 1 /\ \A m \in DOMAIN sealed : sealed[m].ino <= Renamed
    BY <1>0, <1>1 DEF InodesInv, Renamed
  <2>2. \A m \in DOMAIN sealed : sealed[m].ino \in Nat
    BY <1>2 DEF File
  <2> QED
    BY <1>2, <2>1, <2>2
<1>6. Files = {sealed[m] : m \in DOMAIN sealed} \cup {active}
  BY <1>1 DEF Files
<1>7. Files' = {sealed[m] : m \in DOMAIN sealed} \cup {active'}
  BY <1>1 DEF Files
<1>8. \A f \in Files' : f \in File /\ (f = active' \/ (f \in Files /\ f.ino < active'.ino))
  BY <1>1, <1>2, <1>5, <1>6, <1>7
<1>9. \A f \in Files : f \in File /\ (f = active \/ f \in Files')
  BY <1>2, <1>6, <1>7
<1>10. Len(active.data) \in Nat /\ n \in Nat /\ Out + n <= taken
  BY <1>1, <1>2, <1>3, FileBytes
<1> QED
  BY <1>1, <1>2, <1>3, <1>4, <1>6, <1>7, <1>8, <1>9, <1>10

\* A step of either kind loses, repeats and reorders no byte.
LEMMA ContentStep ==
  ASSUME LogInv, UNCHANGED gone, Types', HoldsBytes', Quiet \/ \E n : Written(n)
  PROVE  ContentInv'
<1>0. /\ Out \in Nat /\ Out <= taken /\ taken \in Nat /\ ToSet(pump.pending) = (Out + 1)..taken
      /\ ContentInv /\ GoneBytes' = GoneBytes /\ Types
  BY Memory DEF LogInv, GoneBytes
<1>1. PICK o \in Nat : Out' = o /\ (o + 1)..taken' \subseteq ToSet(pump'.pending) /\ taken' \in Nat
  <2>1. /\ pump'.pending \in Seq(Bytes) /\ taken' \in Nat /\ Len(pump'.pending) <= taken'
        /\ \A i \in 1..Len(pump'.pending) : pump'.pending[i] = (taken' - Len(pump'.pending)) + i
    BY DEF Types, LogTypeOK, HoldsBytes, Out
  <2> DEFINE p == pump'.pending
             k == taken'
  <2>2. p \in Seq(Bytes) /\ k \in Nat /\ Len(p) <= k /\ \A i \in 1..Len(p) : p[i] = (k - Len(p)) + i
    BY <2>1
  <2>3. Out' = k - Len(p)
    BY DEF Out
  <2> HIDE DEF p, k
  <2>4. k - Len(p) \in Nat /\ ((k - Len(p)) + 1)..k \subseteq ToSet(p)
    BY <2>2, LastBytes
  <2> QED
    BY <2>2, <2>3, <2>4 DEF p, k
<1>2. \A f \in Files : f \in File
  BY <1>0 DEF Files, Types, LogTypeOK
<1>3. \A b \in 1..Out : b \in Stored \cup spilt \cup GoneBytes
  BY <1>0 DEF ContentInv, Accounted
<1>4. \A f \in Files : \A b \in ToSet(f.data) : b \in scraps \/ b <= Out
  BY <1>0, <1>2, FileBytes DEF ContentInv
\* What has left memory is in a file, or is spilt.
<1>5. ASSUME Stored \subseteq Stored', spilt \subseteq spilt',
             \A b \in (Out + 1)..o : b \in Stored' \cup spilt'
      PROVE  Accounted(GoneBytes)'
  <2>1. ASSUME NEW b \in 1..taken'  PROVE b \in Stored' \cup ToSet(pump'.pending) \cup spilt' \cup GoneBytes
    <3>1. CASE b <= Out
      BY <1>0, <1>3, <1>5, <3>1
    <3>2. CASE Out < b /\ b <= o
      BY <1>0, <1>1, <1>5, <3>2
    <3>3. CASE o < b
      <4>1. b \in (o + 1)..taken'
        BY <1>1, <3>3
      <4> QED
        BY <1>1, <4>1
    <3>4. b \in Nat
      OBVIOUS
    <3> QED
      BY <1>0, <1>1, <3>1, <3>2, <3>3, <3>4
  <2> QED
    BY <1>0, <2>1 DEF Accounted
<1>6. CASE Quiet
  <2>1. /\ Files \subseteq Files' /\ \A f \in Files' : f \in Files \/ (f.data = <<>> /\ f.ino = inodes + 1)
        /\ scraps' = scraps /\ spilt \subseteq spilt' /\ Out <= o /\ (Out + 1)..o \subseteq spilt'
    BY <1>1, <1>6 DEF Quiet
  <2>2. \A f \in Files' : f.data = <<>> => Len(f.data) = 0 /\ ToSet(f.data) = {}
    BY DEF ToSet
  <2>3. Accounted(GoneBytes)'
    BY <1>5, <2>1 DEF Stored
  <2>4. StoredInOrder'
    <3>1. ASSUME NEW f \in Files', NEW i \in 1..Len(f.data), NEW j \in 1..Len(f.data),
                 i < j, {f.data[i], f.data[j]} \cap scraps = {}
          PROVE  f.data[i] < f.data[j]
      <4>1. f \in Files
        BY <2>1, <2>2
      <4> QED
        BY <1>0, <3>1, <4>1 DEF ContentInv, StoredInOrder
    <3>2. ASSUME NEW f \in Files', NEW g \in Files', f.ino < g.ino,
                 NEW b \in ToSet(f.data) \ scraps, NEW c \in ToSet(g.data) \ scraps
          PROVE  b < c
      <4>1. f \in Files /\ g \in Files
        BY <2>1, <2>2
      <4> QED
        BY <1>0, <3>2, <4>1 DEF ContentInv, StoredInOrder
    <3> QED
      BY <2>1, <3>1, <3>2 DEF StoredInOrder
  <2>5. ASSUME NEW f \in Files', NEW i \in 1..Len(f.data)  PROVE f.data[i] \in scraps \/ f.data[i] <= o
    <3>1. f \in Files
      BY <2>1, <2>2
    <3>2. f.data[i] \in scraps \/ f.data[i] <= Out
      BY <1>0, <3>1 DEF ContentInv
    <3>3. f.data[i] \in Nat
      BY <1>2, <3>1, FileBytes DEF Bytes
    <3> QED
      BY <1>0, <1>1, <2>1, <3>2, <3>3
  <2> QED
    BY <1>0, <1>1, <2>1, <2>3, <2>4, <2>5 DEF ContentInv
<1>7. ASSUME NEW n, Written(n)  PROVE ContentInv'
  <2> DEFINE L == Len(active.data)
  <2>1. /\ n \in 0..Len(pump.pending) /\ n \in Nat /\ L \in Nat /\ Len(active'.data) = L + n
        /\ active \in Files /\ active \in File /\ active' \in Files' /\ active' \in File
        /\ \A f \in Files' : f \in File /\ (f = active' \/ (f \in Files /\ f.ino < active'.ino))
        /\ \A f \in Files : f \in File /\ (f = active \/ f \in Files')
        /\ active'.ino = active.ino
        /\ \A i \in 1..L : active'.data[i] = active.data[i]
        /\ \A i \in 1..n : active'.data[L + i] = Out + i
        /\ Out \in Nat /\ Out + n <= taken
    BY <1>7, WrittenFiles
  <2>2. /\ scraps \subseteq scraps' /\ spilt \subseteq spilt' /\ Out <= o
        /\ \/ Out + n <= o /\ (Out + n + 1)..o \subseteq spilt'
           \/ (Out + 1)..(Out + n) \subseteq scraps' /\ (Out + 1)..o \subseteq spilt'
    <3>1. /\ spilt \subseteq spilt'
          /\ \/ scraps' = scraps /\ Out + n <= o /\ (Out + n + 1)..o \subseteq spilt'
             \/ scraps' = scraps \cup (Out + 1)..(Out + n) /\ Out <= o /\ (Out + 1)..o \subseteq spilt'
      BY <1>1, <1>7 DEF Written
    <3> QED
      BY <2>1, <3>1
  <2> HIDE DEF L
  \* An index of the new file is one of the old, or of a byte written.
  <2>3. \A i \in 1..(L + n) : i \in 1..L \/ (i - L \in 1..n /\ active'.data[i] = Out + (i - L))
    <3>1. ASSUME NEW i \in 1..(L + n), i \notin 1..L
          PROVE  i - L \in 1..n /\ active'.data[i] = Out + (i - L)
      <4> DEFINE k == i - L
      <4>1. k \in 1..n /\ L + k = i
        BY <2>1, <3>1
      <4> HIDE DEF k
      <4>2. active'.data[L + k] = Out + k
        BY <2>1, <4>1, Zenon
      <4>3. active'.data[i] = Out + k
        BY <4>1, <4>2, Zenon
      <4> QED
        BY <4>1, <4>3 DEF k
    <3> QED
      BY <3>1
  <2>4. \A i \in 1..L : /\ active.data[i] \in Nat /\ active.data[i] \in ToSet(active.data)
                        /\ active.data[i] \in scraps \/ active.data[i] <= Out
    <3>1. \A i \in 1..L : active.data[i] \in Bytes /\ active.data[i] \in ToSet(active.data)
      BY <2>1, FileBytes DEF L
    <3> QED
      BY <1>4, <2>1, <3>1 DEF Bytes
  <2>5. Stored \subseteq Stored'
    <3>1. ASSUME NEW f \in Files, NEW b \in ToSet(f.data)  PROVE b \in Stored'
      <4>1. CASE f \in Files'
        BY <4>1 DEF Stored
      <4>2. CASE f = active
        <5>1. PICK i \in 1..L : b = active.data[i]
          BY <2>1, <4>2, FileBytes DEF L
        <5>2. i \in 1..Len(active'.data) /\ b = active'.data[i]
          BY <2>1, <5>1
        <5>3. b \in ToSet(active'.data)
          BY <2>1, <5>2, FileBytes
        <5> QED
          BY <2>1, <5>3 DEF Stored
      <4> QED
        BY <2>1, <4>1, <4>2
    <3> QED
      BY <3>1 DEF Stored
  <2>6. \A b \in (Out + 1)..(Out + n) : b \in Stored'
    <3>1. ASSUME NEW b \in (Out + 1)..(Out + n)  PROVE b \in Stored'
      <4> DEFINE k == b - Out
      <4>1. k \in 1..n /\ Out + k = b
        BY <2>1
      <4> HIDE DEF k
      <4>2. L + k \in 1..Len(active'.data) /\ active'.data[L + k] = Out + k
        <5>1. active'.data[L + k] = Out + k
          BY <2>1, <4>1, Zenon
        <5>2. L + k \in 1..(L + n)
          BY <2>1, <4>1
        <5> QED
          BY <2>1, <5>1, <5>2
      <4>3. b \in ToSet(active'.data)
        BY <2>1, <4>1, <4>2, FileBytes
      <4> QED
        BY <2>1, <4>3 DEF Stored
    <3> QED
      BY <3>1
  <2>7. Accounted(GoneBytes)'
    <3>1. \A b \in (Out + 1)..o : b \in (Out + 1)..(Out + n) \/ b \in (Out + n + 1)..o
      BY <2>1, <1>1
    <3>2. \A b \in (Out + 1)..o : b \in Stored' \cup spilt'
      BY <2>2, <2>6, <3>1
    <3> QED
      BY <1>5, <2>2, <2>5, <3>2
  <2>8. ASSUME NEW f \in Files', NEW i \in 1..Len(f.data), NEW j \in 1..Len(f.data),
               i < j, f.data[i] \notin scraps', f.data[j] \notin scraps'
        PROVE  f.data[i] < f.data[j]
    <3>1. CASE f \in Files
      BY <1>0, <2>2, <2>8, <3>1 DEF ContentInv, StoredInOrder
    <3>2. CASE f = active'
      <4>0. i \in 1..(L + n) /\ j \in 1..(L + n) /\ i \in Nat /\ j \in Nat
        BY <2>1, <3>2
      <4>1. CASE i \in 1..L /\ j \in 1..L
        <5>1. active.data[i] \notin scraps /\ active.data[j] \notin scraps
          BY <2>1, <2>2, <2>8, <3>2, <4>1
        <5>2. active.data[i] < active.data[j]
          BY <1>0, <2>1, <2>8, <4>1, <5>1 DEF ContentInv, StoredInOrder, L
        <5> QED
          BY <2>1, <3>2, <4>1, <5>2
      <4>2. CASE i \in 1..L /\ j \notin 1..L
        <5>1. active.data[i] <= Out /\ active.data[i] \in Nat /\ active'.data[i] = active.data[i]
          BY <2>1, <2>2, <2>4, <2>8, <3>2, <4>2
        <5>2. active'.data[j] = Out + (j - L) /\ j - L \in 1..n
          BY <2>3, <4>0, <4>2
        <5> QED
          BY <2>1, <3>2, <5>1, <5>2
      <4>3. CASE i \notin 1..L
        <5>1. j \notin 1..L
          BY <2>1, <2>8, <4>0, <4>3
        <5>2. active'.data[i] = Out + (i - L) /\ active'.data[j] = Out + (j - L)
          BY <2>3, <4>0, <4>3, <5>1
        <5> QED
          BY <2>1, <2>8, <3>2, <4>0, <5>2
      <4> QED
        BY <4>1, <4>2, <4>3
    <3> QED
      BY <2>1, <3>1, <3>2
  \* A byte of the new file is one of the old, or is after all of them.
  <2>9. \A c \in ToSet(active'.data) : c \in ToSet(active.data) \/ (c \in Nat /\ Out < c /\ c <= Out + n)
    <3>1. ASSUME NEW c \in ToSet(active'.data)
          PROVE  c \in ToSet(active.data) \/ (c \in Nat /\ Out < c /\ c <= Out + n)
      <4>1. PICK i \in 1..Len(active'.data) : c = active'.data[i]
        BY <2>1, FileBytes
      <4>2. i \in 1..(L + n)
        BY <2>1
      <4>3. CASE i \in 1..L
        BY <2>1, <2>4, <4>1, <4>3
      <4>4. CASE i \notin 1..L
        <5>1. i - L \in 1..n /\ c = Out + (i - L)
          BY <2>3, <4>1, <4>2, <4>4
        <5> QED
          BY <2>1, <5>1
      <4> QED
        BY <4>3, <4>4
    <3> QED
      BY <3>1
  <2>10. ASSUME NEW f \in Files', NEW g \in Files', f.ino < g.ino,
                NEW b \in ToSet(f.data) \ scraps', NEW c \in ToSet(g.data) \ scraps'
         PROVE  b < c
    <3>0. f.ino \in Nat /\ g.ino \in Nat /\ active'.ino \in Nat
      BY <2>1, FileBytes
    <3>1. f \in Files
      BY <2>1, <2>10, <3>0
    <3>2. b \notin scraps /\ b <= Out /\ b \in Nat
      <4>1. b \notin scraps
        BY <2>2
      <4>2. b \in Bytes
        BY <2>1, FileBytes
      <4> QED
        BY <1>4, <3>1, <4>1, <4>2 DEF Bytes
    <3>3. CASE g \in Files
      BY <1>0, <2>10, <3>1, <3>2, <3>3, <2>2 DEF ContentInv, StoredInOrder
    <3>4. CASE g = active' /\ c \in ToSet(active.data)
      <4>1. f.ino < active.ino /\ c \notin scraps
        BY <2>1, <2>2, <2>10, <3>4
      <4> QED
        BY <1>0, <2>1, <3>1, <3>2, <3>4, <4>1 DEF ContentInv, StoredInOrder
    <3>5. CASE c \in Nat /\ Out < c
      BY <1>0, <3>2, <3>5
    <3> QED
      BY <2>1, <2>9, <3>3, <3>4, <3>5
  <2>11. ASSUME NEW f \in Files', NEW i \in 1..Len(f.data)  PROVE f.data[i] \in scraps' \/ f.data[i] <= o
    <3>1. f.data[i] \in Bytes /\ f.data[i] \in ToSet(f.data)
      BY <2>1, FileBytes
    <3> DEFINE c == f.data[i]
    <3>2. c \in ToSet(f.data) /\ c \in Nat
      BY <3>1 DEF Bytes
    <3> HIDE DEF c
    <3>3. CASE f \in Files \/ c \in ToSet(active.data)
      <4>1. c \in scraps \/ c <= Out
        BY <1>4, <2>1, <3>2, <3>3
      <4> QED
        BY <1>0, <1>1, <2>2, <3>2, <4>1 DEF c
    <3>4. CASE Out < c /\ c <= Out + n
      <4>1. c \in (Out + 1)..(Out + n)
        BY <2>1, <3>2, <3>4
      <4>2. c \in scraps' \/ c <= o
        <5>1. CASE (Out + 1)..(Out + n) \subseteq scraps'
          BY <4>1, <5>1
        <5>2. CASE Out + n <= o
          BY <1>1, <2>1, <3>2, <3>4, <5>2
        <5> QED
          BY <2>2, <5>1, <5>2
      <4> QED
        BY <4>2 DEF c
    <3> QED
      BY <2>1, <2>9, <3>2, <3>3, <3>4
  <2>12. StoredInOrder'
    <3>1. \A f \in Files' : \A i, j \in 1..Len(f.data) :
            i < j /\ {f.data[i], f.data[j]} \cap scraps' = {} => f.data[i] < f.data[j]
      BY <2>8
    <3> QED
      BY <2>10, <3>1 DEF StoredInOrder
  <2>13. \A f \in Files' : \A i \in 1..Len(f.data) : f.data[i] \in scraps' \/ f.data[i] <= Out'
    BY <1>1, <2>11
  <2> QED
    BY <1>0, <2>7, <2>12, <2>13 DEF ContentInv
<1> QED
  BY <1>6, <1>7

\* The bytes of the file that is written to.
LEMMA WrittenBytes ==
  ASSUME LogInv, NEW n, Written(n), Types'
  PROVE  ToSet(active'.data) = ToSet(active.data) \cup (Out + 1)..(Out + n)
<1> DEFINE L == Len(active.data)
<1>1. /\ n \in Nat /\ L \in Nat /\ Len(active'.data) = L + n /\ Out \in Nat
      /\ active \in File /\ active' \in File
      /\ \A i \in 1..L : active'.data[i] = active.data[i]
      /\ \A i \in 1..n : active'.data[L + i] = Out + i
  BY WrittenFiles
<1>2. /\ \A i \in 1..L : active.data[i] \in ToSet(active.data)
      /\ \A b \in ToSet(active.data) : \E i \in 1..L : b = active.data[i]
  BY <1>1, FileBytes
<1>3. /\ \A i \in 1..Len(active'.data) : active'.data[i] \in ToSet(active'.data)
      /\ \A b \in ToSet(active'.data) : \E i \in 1..Len(active'.data) : b = active'.data[i]
  BY <1>1, FileBytes
<1> HIDE DEF L
<1>4. ASSUME NEW b \in ToSet(active'.data)  PROVE b \in ToSet(active.data) \cup (Out + 1)..(Out + n)
  <2>1. PICK i \in 1..(L + n) : b = active'.data[i]
    BY <1>1, <1>3
  <2>2. CASE i \in 1..L
    BY <1>1, <1>2, <2>1, <2>2
  <2>3. CASE i \notin 1..L
    <3> DEFINE k == i - L
    <3>1. k \in 1..n /\ L + k = i
      BY <1>1, <2>1, <2>3
    <3> HIDE DEF k
    <3>2. active'.data[L + k] = Out + k
      BY <1>1, <3>1, Zenon
    <3>3. b = Out + k
      BY <2>1, <3>1, <3>2, Zenon
    <3> QED
      BY <1>1, <3>1, <3>3
  <2> QED
    BY <2>2, <2>3
<1>5. ASSUME NEW b \in ToSet(active.data)  PROVE b \in ToSet(active'.data)
  <2>1. PICK i \in 1..L : b = active.data[i]
    BY <1>2
  <2>2. i \in 1..(L + n)
    BY <1>1
  <2> QED
    BY <1>1, <1>3, <2>1, <2>2
<1>6. ASSUME NEW b \in (Out + 1)..(Out + n)  PROVE b \in ToSet(active'.data)
  <2> DEFINE k == b - Out
  <2>1. k \in 1..n /\ Out + k = b
    BY <1>1
  <2> HIDE DEF k
  <2>2. active'.data[L + k] = Out + k
    BY <1>1, <2>1, Zenon
  <2>3. L + k \in 1..(L + n)
    BY <1>1, <2>1
  <2>4. L + k \in 1..Len(active'.data)
    BY <1>1, <2>3, Zenon
  <2>5. active'.data[L + k] \in ToSet(active'.data)
    BY <1>3, <2>4, Zenon
  <2> QED
    BY <2>1, <2>2, <2>5, Zenon
<1> QED
  BY <1>4, <1>5, <1>6

\* A step of either kind tears no line that is all there.
LEMMA LinesStep ==
  ASSUME LogInv, Types', HoldsBytes', Quiet \/ \E n : Written(n)
  PROVE  LinesInv'
<1> USE StreamAssumption
<1>0. /\ Out \in Nat /\ pump.pending \in Seq(Bytes) /\ Len(pump.pending) \in Nat
      /\ LinesInv /\ ContentInv /\ Types
      /\ \A i \in 1..Len(pump.pending) : pump.pending[i] = Out + i
  BY Memory DEF LogInv, HoldsBytes
<1>1. PICK o \in Nat : Out' = o
  <2>1. /\ pump'.pending \in Seq(Bytes) /\ taken' \in Nat /\ Len(pump'.pending) <= taken'
        /\ \A i \in 1..Len(pump'.pending) : pump'.pending[i] = (taken' - Len(pump'.pending)) + i
    BY DEF Types, LogTypeOK, HoldsBytes, Out
  <2> DEFINE p == pump'.pending
             k == taken'
  <2>2. p \in Seq(Bytes) /\ k \in Nat /\ Len(p) <= k /\ \A i \in 1..Len(p) : p[i] = (k - Len(p)) + i
    BY <2>1
  <2>3. Out' = k - Len(p)
    BY DEF Out
  <2> HIDE DEF p, k
  <2>4. k - Len(p) \in Nat
    BY <2>2, LastBytes
  <2> QED
    BY <2>3, <2>4
<1> SUFFICES ASSUME NEW l \in Lines, Sound(l)'
             PROVE  (Inside(l)' => pump'.pc \in Starting) /\ (~Inside(l)' => Together(l)')
  BY DEF LinesInv
<1> DEFINE line == (l[1] + 1)..l[2]
<1>2. /\ l[1] \in Nat /\ l[2] \in Nat /\ l[1] < l[2] /\ l[2] <= Total /\ LineStart(l[1])
      /\ \A b \in (l[1] + 1)..(l[2] - 1) : b \notin Newline
  <2>1. /\ l \in (0..Total) \X Newline /\ LineStart(l[1]) /\ l[1] < l[2]
        /\ \A b \in (l[1] + 1)..(l[2] - 1) : b \notin Newline
    BY DEF Lines
  <2>2. l[1] \in 0..Total /\ l[2] \in Newline
    BY <2>1
  <2>3. Total \in Nat /\ \A b \in Newline : b \in 1..Total
    BY DEF Bytes
  <2>4. l[2] \in 1..Total
    BY <2>2, <2>3
  <2>5. l[1] \in Nat /\ l[2] \in Nat /\ l[2] <= Total
    BY <2>2, <2>3, <2>4
  <2> QED
    BY <2>1, <2>5
<1>3. l[2] - l[1] <= MaxPending /\ line \cap spilt' = {} /\ line \cap scraps' = {}
  BY DEF Sound
<1>4. (Inside(l)' <=> l[1] < o /\ o < l[2]) /\ (Inside(l) <=> l[1] < Out /\ Out < l[2])
  BY <1>1 DEF Inside
<1>5. Together(l)' <=> \A f \in Files' : line \subseteq ToSet(f.data) \/ line \cap ToSet(f.data) = {}
  BY DEF Together
<1>6. Together(l) <=> \A f \in Files : line \subseteq ToSet(f.data) \/ line \cap ToSet(f.data) = {}
  BY DEF Together
<1>7. \A b : b \in line <=> b \in Nat /\ l[1] < b /\ b <= l[2]
  BY <1>2
<1> HIDE DEF line
<1>8. spilt \subseteq spilt' /\ scraps \subseteq scraps' =>
        (Inside(l) => pump.pc \in Starting) /\ (~Inside(l) => Together(l)) /\ line \cap scraps = {}
  <2>1. spilt \subseteq spilt' /\ scraps \subseteq scraps' => Sound(l)
    BY <1>3 DEF Sound, line
  <2> QED
    BY <1>0, <1>3, <2>1 DEF LinesInv
\* No byte of the line is lost between two values of Out.
<1>9. ASSUME NEW m \in Nat, m <= o, (m + 1)..o \subseteq spilt'
      PROVE  o <= l[1] \/ l[2] <= m \/ o = m
  <2>1. ASSUME l[1] < o, m < l[2], m < o  PROVE FALSE
    <3>1. CASE l[1] <= m
      <4>1. m + 1 \in line /\ m + 1 \in (m + 1)..o
        BY <1>1, <1>2, <1>7, <1>9, <2>1, <3>1
      <4> QED
        BY <1>3, <1>9, <4>1
    <3>2. CASE m < l[1]
      <4>1. l[1] + 1 \in line /\ l[1] + 1 \in (m + 1)..o
        BY <1>1, <1>2, <1>7, <1>9, <2>1, <3>2
      <4> QED
        BY <1>3, <1>9, <4>1
    <3> QED
      BY <1>2, <3>1, <3>2
  <2> QED
    BY <1>1, <1>2, <1>9, <2>1
<1>10. CASE Quiet
  <2>1. /\ scraps' = scraps /\ spilt \subseteq spilt' /\ Out <= o /\ (Out + 1)..o \subseteq spilt'
        /\ pump.pc \in Starting /\ pump'.pc \notin Starting => LineStart(o) \/ o = Total
        /\ \A f \in Files' : f \in Files \/ (f.data = <<>> /\ f.ino = inodes + 1)
    BY <1>1, <1>10 DEF Quiet
  <2>2. o <= l[1] \/ l[2] <= Out \/ o = Out
    BY <1>0, <1>9, <2>1
  <2>3. (Inside(l) => pump.pc \in Starting) /\ (~Inside(l) => Together(l))
    BY <1>8, <2>1
  <2>4. Inside(l) <=> Inside(l)'
    BY <1>0, <1>1, <1>2, <1>4, <2>1, <2>2
  <2>5. ASSUME Inside(l)'  PROVE pump'.pc \in Starting
    <3>1. l[1] < o /\ o < l[2]
      BY <1>4, <2>5
    <3>2. o \in (l[1] + 1)..(l[2] - 1) /\ o # 0 /\ o # Total
      BY <1>1, <1>2, <3>1
    <3>3. ~LineStart(o)
      BY <1>2, <3>2 DEF LineStart
    <3> QED
      BY <2>1, <2>3, <2>4, <2>5, <3>2, <3>3
  <2>6. ASSUME ~Inside(l)'  PROVE Together(l)'
    <3>1. Together(l)
      BY <2>3, <2>4, <2>6
    <3>2. \A f : f.data = <<>> => ToSet(f.data) = {}
      BY DEF ToSet
    <3> QED
      BY <1>5, <1>6, <2>1, <3>1, <3>2
  <2> QED
    BY <2>5, <2>6
<1>11. ASSUME NEW n, Written(n)
       PROVE  (Inside(l)' => pump'.pc \in Starting) /\ (~Inside(l)' => Together(l)')
  <2> DEFINE L == Len(active.data)
  <2>1. /\ n \in 0..Len(pump.pending) /\ n \in Nat /\ L \in Nat /\ Len(active'.data) = L + n
        /\ active \in Files /\ active \in File /\ active' \in Files' /\ active' \in File
        /\ \A f \in Files' : f \in File /\ (f = active' \/ (f \in Files /\ f.ino < active'.ino))
        /\ \A f \in Files : f \in File /\ (f = active \/ f \in Files')
        /\ \A i \in 1..L : active'.data[i] = active.data[i]
        /\ \A i \in 1..n : active'.data[L + i] = Out + i
    BY <1>11, WrittenFiles
  <2>2. ToSet(active'.data) = ToSet(active.data) \cup (Out + 1)..(Out + n)
    BY <1>11, WrittenBytes
  <2>3. /\ scraps \subseteq scraps' /\ spilt \subseteq spilt' /\ pump.pc \notin Starting
        /\ \/ /\ Out + n <= o /\ (Out + n + 1)..o \subseteq spilt'
              /\ \/ pump'.pc \in Starting
                 \/ n = Len(Piece(pump.pending)) /\ n # 0 /\ o = Out + n
           \/ (Out + 1)..(Out + n) \subseteq scraps' /\ Out <= o /\ (Out + 1)..o \subseteq spilt'
    BY <1>1, <1>11 DEF Written
  <2>4. ~Inside(l) /\ Together(l) /\ line \cap scraps = {}
    BY <1>8, <2>3
  <2>5. Out <= l[1] \/ l[2] <= Out
    BY <1>0, <1>2, <1>4, <2>4
  <2>6. line \cap (Out + 1)..(Out + n) = {} => Together(l)'
    <3>1. ASSUME line \cap (Out + 1)..(Out + n) = {}, NEW f \in Files'
          PROVE  line \subseteq ToSet(f.data) \/ line \cap ToSet(f.data) = {}
      <4>1. CASE f \in Files
        BY <1>6, <2>4, <4>1
      <4>2. CASE f = active'
        <5>1. line \subseteq ToSet(active.data) \/ line \cap ToSet(active.data) = {}
          BY <1>6, <2>1, <2>4
        <5> QED
          BY <2>2, <3>1, <4>2, <5>1
      <4> QED
        BY <2>1, <4>1, <4>2
    <3> QED
      BY <1>5, <3>1
  <2>7. CASE (Out + 1)..(Out + n) \subseteq scraps' /\ Out <= o /\ (Out + 1)..o \subseteq spilt'
    <3>1. o <= l[1] \/ l[2] <= Out \/ o = Out
      BY <1>0, <1>9, <2>7
    <3>2. ~Inside(l)'
      BY <1>0, <1>1, <1>2, <1>4, <2>4, <2>7, <3>1
    <3>3. line \cap (Out + 1)..(Out + n) = {}
      BY <1>3, <2>7
    <3> QED
      BY <2>6, <3>2, <3>3
  <2>8. CASE Out + n <= o /\ (Out + n + 1)..o \subseteq spilt'
    <3>1. o <= l[1] \/ l[2] <= Out + n \/ o = Out + n
      <4>1. Out + n \in Nat
        BY <1>0, <2>1
      <4> QED
        BY <1>9, <2>8, <4>1
    <3>2. ASSUME ~Inside(l)'  PROVE Together(l)'
      <4>1. CASE l[2] <= Out
        <5>1. line \cap (Out + 1)..(Out + n) = {}
          BY <1>0, <1>2, <1>7, <4>1
        <5> QED
          BY <2>6, <5>1
      <4>2. CASE o <= l[1]
        <5>1. line \cap (Out + 1)..(Out + n) = {}
          BY <1>0, <1>1, <1>2, <1>7, <2>1, <2>8, <4>2
        <5> QED
          BY <2>6, <5>1
      <4>3. CASE Out <= l[1] /\ l[1] < o
        <5>1. l[2] <= Out + n
          BY <1>1, <1>2, <1>4, <3>1, <3>2, <4>3
        <5>2. line \subseteq (Out + 1)..(Out + n)
          BY <1>0, <1>2, <1>7, <2>1, <4>3, <5>1
        <5>3. ASSUME NEW f \in Files  PROVE line \cap ToSet(f.data) = {}
          <6>1. ASSUME NEW b \in line, b \in ToSet(f.data)  PROVE FALSE
            <7>1. PICK i \in 1..Len(f.data) : b = f.data[i]
              BY <2>1, <6>1, FileBytes
            <7>2. b \in scraps \/ b <= Out
              BY <1>0, <7>1 DEF ContentInv
            <7>3. b \in Nat /\ l[1] < b /\ b \notin scraps
              BY <1>7, <2>4, <6>1
            <7> QED
              BY <1>0, <1>2, <4>3, <7>2, <7>3
          <6> QED
            BY <6>1
        <5> QED
          BY <1>5, <2>1, <2>2, <5>2, <5>3
      <4> QED
        BY <1>1, <1>2, <2>5, <4>1, <4>2, <4>3
    <3>3. ASSUME Inside(l)', pump'.pc \notin Starting,
                 n = Len(Piece(pump.pending)), n # 0, o = Out + n
          PROVE  FALSE
      <4>1. l[1] < Out + n /\ Out + n < l[2]
        BY <1>4, <3>3
      <4>2. Out <= l[1]
        BY <1>0, <1>2, <2>1, <2>5, <4>1
      <4>3. /\ \A i \in 1..(n - 1) : pump.pending[i] \notin Newline
            /\ pump.pending[n] \in Newline \/ n >= MaxPending
        <5> DEFINE piece == Piece(pump.pending)
        <5>1. /\ piece \in Seq(Bytes) /\ Len(piece) <= Len(pump.pending)
              /\ \A i \in 1..Len(piece) : piece[i] = pump.pending[i]
              /\ \A i \in 1..(Len(piece) - 1) : pump.pending[i] \notin Newline
              /\ \/ piece # <<>> /\ piece[Len(piece)] \in Newline
                 \/ Len(piece) >= MaxPending
                 \/ piece = <<>> /\ \A i \in 1..Len(pump.pending) : pump.pending[i] \notin Newline
          BY <1>0, PieceIsFront
        <5>2. n = Len(piece) /\ n \in 1..n
          BY <2>1, <3>3
        <5> HIDE DEF piece
        <5>3. piece # <<>>
          BY <3>3, <5>2
        <5> QED
          BY <5>1, <5>2, <5>3
      <4>4. Out = l[1]
        <5>1. ASSUME Out < l[1]  PROVE FALSE
          <6> DEFINE i == l[1] - Out
          <6>0. /\ Out \in Nat /\ l[1] \in Nat /\ n \in Nat /\ n <= Len(pump.pending)
                /\ Len(pump.pending) \in Nat
            BY <1>0, <1>2, <2>1
          <6>1. i \in 1..(n - 1) /\ i \in 1..Len(pump.pending) /\ Out + i = l[1] /\ l[1] # 0
            BY <4>1, <5>1, <6>0
          <6> HIDE DEF i
          <6>2. pump.pending[i] = l[1] /\ pump.pending[i] \notin Newline
            BY <1>0, <4>3, <6>1
          <6> QED
            BY <1>2, <6>1, <6>2 DEF LineStart
        <5> QED
          BY <1>0, <1>2, <4>2, <5>1
      <4>5. CASE pump.pending[n] \in Newline
        <5>1. n \in 1..Len(pump.pending)
          BY <2>1, <3>3
        <5>2. pump.pending[n] = Out + n
          BY <1>0, <5>1
        <5>3. Out + n \in (l[1] + 1)..(l[2] - 1)
          BY <1>0, <1>2, <2>1, <4>1
        <5> QED
          BY <1>2, <4>5, <5>2, <5>3
      <4>6. CASE n >= MaxPending
        BY <1>0, <1>2, <1>3, <2>1, <4>1, <4>4, <4>6
      <4> QED
        BY <4>3, <4>5, <4>6
    <3>4. CASE (Out + 1)..(Out + n) \subseteq scraps' /\ Out <= o /\ (Out + 1)..o \subseteq spilt'
      BY <2>7, <3>4
    <3> QED
      BY <2>3, <3>2, <3>3, <3>4
  <2> QED
    BY <2>3, <2>7, <2>8
<1> QED
  BY <1>10, <1>11

\* The invariant of the log holds at the start,
LEMMA LogInit ==
  ASSUME Init, gone = {}
  PROVE  LogInv
<1> USE StreamAssumption DEF Init
<1>0. pump.pc = "down" /\ pump.usable = FALSE /\ pump.pending = <<>> /\ pump.segment = 0
      /\ pump.openDate = 0 /\ pump.sealDay = 0 /\ pump.target = None
  BY DEF Down
<1>1. Len(pump.pending) = 0 /\ Out = 0
  <2>1. Len(pump.pending) = 0
    BY <1>0
  <2>2. taken = 0
    OBVIOUS
  <2> QED
    BY <2>1, <2>2 DEF Out
<1>2. DOMAIN sealed = {} /\ Cardinality(DOMAIN sealed) = 0 /\ Files = {} /\ Stored = {} /\ GoneBytes = {}
  BY FS_EmptySet DEF Files, Stored, GoneBytes
<1>3. pump \in PumpRecord
  BY DEF Down, PumpRecord, Labels
<1>4. Types
  <2>1. /\ active = None /\ journal = None /\ inodes = 0 /\ refused = None /\ coreUp = FALSE
        /\ fed = 0 /\ taken = 0 /\ today = 0 /\ spilt = {} /\ scraps = {} /\ mishaps = 0
    OBVIOUS
  <2>2. /\ 0 \in 0..Total /\ 0 \in 0..0 /\ 0 \in 0..MaxDay /\ 0 \in 0..MaxMishaps /\ 0 <= 0
    OBVIOUS
  <2>3. /\ pump.pc \in Labels /\ pump.usable \in BOOLEAN /\ pump.pending \in Seq(Bytes) /\ pump.segment \in Nat
        /\ pump.openDate \in Nat /\ pump.sealDay \in Nat /\ pump.target \in Names \cup {None}
    BY <1>3 DEF PumpRecord
  <2> HIDE DEF Init
  <2>4. LogTypeOK
    BY <1>2, <2>1, <2>2, <2>3 DEF LogTypeOK, Labels
  <2> QED
    BY <1>0, <1>3, <2>1, <2>2, <2>4 DEF Types
<1>5. HoldsFile
  BY <1>0 DEF HoldsFile
<1>6. HoldsBytes
  BY <1>0, <1>1 DEF HoldsBytes, Sealing, Starting
<1>7. JournalInv
  <2>1. journal = None /\ refused = None /\ None \notin Names /\ None # "collision" /\ None # "lost"
    BY DEF Reasons
  <2> QED
    BY <1>0, <2>1 DEF JournalInv
<1>8. NumbersInv
  <2>1. Renamed = 0 /\ Budget = 0
    BY <1>0, <1>1 DEF Renamed, Budget, Sealing
  <2> QED
    BY <1>0, <1>2, <2>1 DEF NumbersInv
<1>9. InodesInv
  BY <1>2 DEF InodesInv
<1>10. ContentInv
  <2>1. 1..taken = {}
    OBVIOUS
  <2> QED
    BY <1>2, <2>1 DEF ContentInv, Accounted, StoredInOrder
<1>11. LinesInv
  <2>1. ASSUME NEW l \in Lines  PROVE ~Inside(l) /\ Together(l)
    <3>1. l[1] \in 0..Total
      BY DEF Lines
    <3> QED
      BY <1>1, <1>2, <3>1 DEF Inside, Together
  <2> QED
    BY <2>1 DEF LinesInv
<1> QED
  BY <1>4, <1>5, <1>6, <1>7, <1>8, <1>9, <1>10, <1>11 DEF LogInv

\* each step of the log and a kill of the node keep it,
LEMMA LogStep ==
  ASSUME LogInv, UNCHANGED gone, LogNext \/ NodeKilled
  PROVE  LogInv'
<1>1. Types' /\ HoldsBytes' /\ (Quiet \/ \E n : Written(n))
  BY TypesStep, HoldsBytesStep, StepShape
<1>2. HoldsFile' /\ JournalInv' /\ NumbersInv' /\ InodesInv'
  BY HoldsFileStep, JournalStep, NumbersStep, InodesStep
<1>3. ContentInv' /\ LinesInv'
  BY <1>1, ContentStep, LinesStep
<1> QED
  BY <1>1, <1>2, <1>3 DEF LogInv

\* and so does a step of others that leaves the log alone, or fails,
LEMMA LogKept ==
  ASSUME LogInv, UNCHANGED <<active, sealed, journal, inodes, pump, coreUp, fed, taken, today, refused, spilt, scraps, gone>>,
         UNCHANGED mishaps \/ Mishap
  PROVE  LogInv'
<1>1. LogInv => LogTypeOK /\ mishaps \in 0..MaxMishaps
  BY DEF LogInv, Types, LogTypeOK
<1>2. mishaps' \in 0..MaxMishaps
  BY <1>1, StreamAssumption DEF Mishap
<1>3. LogTypeOK'
  BY <1>1, <1>2 DEF LogTypeOK
<1>4. Types'
  BY <1>3 DEF LogInv, Types
<1>5. HoldsFile' /\ JournalInv'
  BY DEF LogInv, HoldsFile, JournalInv, GoneNames
<1>6. HoldsBytes' /\ Out' = Out
  BY DEF LogInv, HoldsBytes, Out
<1>7. Budget' = Budget /\ Renamed' = Renamed
  BY <1>6 DEF Budget, Renamed
<1>8. NumbersInv' /\ InodesInv'
  BY <1>7 DEF LogInv, NumbersInv, InodesInv
<1>9. Files' = Files /\ GoneBytes' = GoneBytes
  BY DEF Files, GoneBytes
<1>10. ContentInv'
  BY <1>6, <1>9 DEF LogInv, ContentInv, Accounted, StoredInOrder, Stored
<1>11. LinesInv'
  BY <1>6, <1>9 DEF LogInv, LinesInv, Inside, Together, Sound
<1> QED
  BY <1>4, <1>5, <1>6, <1>8, <1>10, <1>11 DEF LogInv

\* and the removal of a segment.
LEMMA LogRemoval ==
  ASSUME LogInv, NEW name \in DOMAIN sealed,
         sealed' = [m \in DOMAIN sealed \ {name} |-> sealed[m]],
         gone' = gone \cup {[name |-> name, file |-> sealed[name]]},
         UNCHANGED <<active, journal, inodes, pump, coreUp, fed, taken, today, refused, spilt, scraps, mishaps>>
  PROVE  LogInv'
<1> DEFINE removed == [name |-> name, file |-> sealed[name]]
<1>0. /\ Types /\ HoldsFile /\ HoldsBytes /\ JournalInv /\ NumbersInv /\ InodesInv /\ ContentInv /\ LinesInv
      /\ DOMAIN sealed \subseteq Names /\ \A n \in DOMAIN sealed : sealed[n] \in File
  BY DEF LogInv, Types, LogTypeOK
<1>1. DOMAIN sealed' = DOMAIN sealed \ {name} /\ \A n \in DOMAIN sealed' : sealed'[n] = sealed[n]
  OBVIOUS
<1>2. removed.name = name /\ removed.file = sealed[name] /\ gone' = gone \cup {removed}
  OBVIOUS
<1> HIDE DEF removed
<1>3. Types'
  <2>1. \A g \in gone' : g.name \in Names /\ g.file \in File
    BY <1>0, <1>2 DEF Types
  <2>2. LogTypeOK'
    BY <1>0, <1>1 DEF Types, LogTypeOK
  <2> QED
    BY <1>0, <2>1, <2>2 DEF Types
<1>4. HoldsFile' /\ HoldsBytes'
  BY <1>0 DEF HoldsFile, HoldsBytes, Out
<1>5. GoneNames' = GoneNames \cup {name}
  BY <1>2 DEF GoneNames
<1>6. JournalInv'
  BY <1>0, <1>1, <1>5 DEF JournalInv
<1>7. Budget' = Budget /\ Renamed' = Renamed /\ Out' = Out
  BY DEF Budget, Renamed, Out
<1>8. NumbersInv'
  <2>1. Cardinality(DOMAIN sealed') <= Renamed
    <3>1. Cardinality(DOMAIN sealed) <= Renamed /\ Renamed \in Nat
      BY <1>0 DEF NumbersInv
    <3>2. Cardinality(DOMAIN sealed \ {name}) <= Cardinality(DOMAIN sealed) /\ Cardinality(DOMAIN sealed) \in Nat
      BY <1>0, SegmentsAreFinite
    <3>3. Cardinality(DOMAIN sealed \ {name}) \in Nat
      BY <1>0, SegmentsAreFinite, FS_RemoveElement, FS_CardinalityType
    <3> QED
      BY <1>1, <3>1, <3>2, <3>3
  <2> QED
    BY <1>0, <1>1, <1>7, <2>1 DEF NumbersInv
<1>9. InodesInv'
  <2>1. active' # None => active'.ino = inodes'
    BY <1>0 DEF InodesInv
  <2>2. \A n \in DOMAIN sealed' : sealed'[n].ino <= Renamed
    BY <1>0, <1>1 DEF InodesInv
  <2>3. \A m, n \in DOMAIN sealed' : sealed'[m].ino = sealed'[n].ino => m = n
    BY <1>0, <1>1 DEF InodesInv
  <2>4. ASSUME NEW g \in gone'
        PROVE  /\ g.file.ino <= Renamed
               /\ \A n \in DOMAIN sealed' : sealed'[n].ino # g.file.ino
               /\ g.name \in DOMAIN sealed' => g.file.ino < sealed'[g.name].ino
    <3>1. CASE g \in gone
      BY <1>0, <1>1, <3>1 DEF InodesInv
    <3>2. CASE g = removed
      BY <1>0, <1>1, <1>2, <3>2 DEF InodesInv
    <3> QED
      BY <1>2, <3>1, <3>2
  <2>5. ASSUME NEW g \in gone', NEW h \in gone', g.file.ino = h.file.ino  PROVE g = h
    <3>1. \A k \in gone : k.file.ino # removed.file.ino
      BY <1>0, <1>2 DEF InodesInv
    <3> QED
      BY <1>0, <1>2, <2>5, <3>1 DEF InodesInv
  <2> QED
    BY <1>7, <2>1, <2>2, <2>3, <2>4, <2>5 DEF InodesInv
<1>10. Files' \subseteq Files /\ \A f \in Files : f \in Files' \/ f = sealed[name]
  BY <1>1 DEF Files
<1>11. ToSet(sealed[name].data) \subseteq GoneBytes' /\ GoneBytes \subseteq GoneBytes'
  BY <1>2 DEF GoneBytes
<1>12. ContentInv'
  <2>1. Stored \cup GoneBytes \subseteq Stored' \cup GoneBytes'
    BY <1>10, <1>11 DEF Stored
  <2>2. Accounted(GoneBytes)'
    BY <1>0, <2>1 DEF ContentInv, Accounted
  <2>3. StoredInOrder'
    BY <1>0, <1>10 DEF ContentInv, StoredInOrder
  <2> QED
    BY <1>0, <1>7, <1>10, <2>2, <2>3 DEF ContentInv
<1>13. LinesInv'
  BY <1>0, <1>7, <1>10 DEF LinesInv, Sound, Inside, Together
<1> QED
  BY <1>3, <1>4, <1>6, <1>8, <1>9, <1>12, <1>13 DEF LogInv

\* What the properties say of the log is in its invariant.
LEMMA LogInvImplies ==
  ASSUME LogInv
  PROVE  LogTypeOK /\ NothingLost /\ LinesStayWhole
<1>1. LogTypeOK
  BY DEF LogInv, Types
<1>2. JournalIsExact(GoneNames)
  BY DEF LogInv, JournalInv, JournalIsExact
<1>3. NothingLost
  BY <1>2 DEF LogInv, ContentInv, NothingLost, GoneBytes, GoneNames
<1>4. LinesStayWhole
  <2>0. LinesInv /\ HoldsBytes /\ Types
    BY DEF LogInv
  <2>1. /\ Out \in Nat /\ taken = Out + Len(pump.pending) /\ Len(pump.pending) \in Nat
    BY <2>0, Memory
  <2>2. ASSUME NEW l \in Lines, NEW f \in Files,
               l[2] <= taken, l[2] - l[1] <= MaxPending, ((l[1] + 1)..l[2]) \cap (spilt \cup scraps) = {}
        PROVE  (l[1] + 1)..l[2] \subseteq ToSet(f.data) \/ ((l[1] + 1)..l[2]) \cap ToSet(f.data) = {}
    <3>1. Sound(l)
      BY <2>2 DEF Sound
    <3>2. CASE ~Inside(l)
      BY <2>0, <3>1, <3>2 DEF LinesInv, Together
    <3>3. CASE Inside(l)
      <4>1. pump.pc \in Starting
        BY <2>0, <3>1, <3>3 DEF LinesInv
      <4>2. pump.pending = <<>>
        BY <2>0, <4>1 DEF HoldsBytes
      <4>3. Len(pump.pending) = 0
        BY <4>2
      <4>4. l[2] \in Nat
        <5>1. l \in (0..Total) \X Newline
          BY DEF Lines
        <5>2. l[2] \in Bytes
          BY <5>1, StreamAssumption
        <5> QED
          BY <5>2 DEF Bytes
      <4> QED
        BY <2>1, <2>2, <3>3, <4>3, <4>4 DEF Inside
    <3> QED
      BY <3>2, <3>3
  <2> QED
    BY <2>2 DEF LinesStayWhole
<1> QED
  BY <1>1, <1>3, <1>4
=============================================================================
