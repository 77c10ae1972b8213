------------------------------ MODULE AuditLog -------------------------------
(***************************************************************************)
(* internal/auditlog/service.go and internal/httpserver/audit.go over      *)
(* LogSegments: a panel reads the log by chunks, segment by segment, and   *)
(* has the segments removed that it has read.  The service keeps no state  *)
(* and shares no lock with the writer: a chunk is a Stat of a path and a   *)
(* later read of what the path then is.                                    *)
(*                                                                         *)
(* The panel (external) takes a catalog, follows each file by its inode    *)
(* and the offset it was last given, and calls a segment safe when it has  *)
(* read all of it.  A viewer asks for the end of a file.                   *)
(***************************************************************************)
EXTENDS LogSegments

CONSTANTS
  Calls,        \* requests that may be under way
  Active,       \* the id of the active file
  Stamp,        \* the time of the line that ends at a byte, or None
  Since,        \* the time from which a viewer wants lines
  TailBytes,    \* initialTailBytes
  MaxRead,      \* maxReadBytes
  MaxRequests,  \* bound: requests
  MaxBefore     \* bound: requests before one of a viewer

ASSUME ReaderAssumption ==
  /\ Active \notin Names /\ TailBytes \in Nat \ {0} /\ MaxRead \in Nat \ {0}
  /\ MaxRequests \in Nat /\ MaxBefore \in Nat

VARIABLES
  gaps,       \* .audit-gaps.jsonl: its lines, a line that is no record being Torn
  gapTail,    \* what follows the last newline there: None, Torn or a record
  gone,       \* history: the segments removed
  call,       \* the requests under way
  catalog,    \* the panel: its last catalog
  cursor,     \* the panel: the next offset of each inode
  got,        \* the panel: the bytes of the lines it has under each inode
  raced,      \* history: inodes the panel followed into another file
  requests    \* counter of the bound

gapVars == <<gaps, gapTail>>
readerVars == <<gapVars, gone, call, catalog, cursor, got, raced, requests>>
vars == <<logVars, readerVars>>

Inodes == 1..(Total + 1)
NoChunk == [inode |-> None, lines |-> {}, next |-> 0]
IdleCall ==
  [pc |-> "idle", id |-> Active, inode |-> None, follow |-> FALSE, tail |-> FALSE,
   start |-> 0, end |-> 0, since |-> None, names |-> {}, chunk |-> NoChunk,
   gaps |-> {}, raced |-> FALSE]

AuditInit ==
  /\ Init
  /\ gaps = {} /\ gapTail = None /\ gone = {} /\ call = [c \in Calls |-> IdleCall] /\ catalog = {}
  /\ cursor = [i \in Inodes |-> 0] /\ got = [i \in Inodes |-> {}] /\ raced = {}
  /\ requests = 0

\* The file a path leads to, or None.
At(id) == IF id = Active THEN active ELSE IF id \in DOMAIN sealed THEN sealed[id] ELSE None

-----------------------------------------------------------------------------
(* Seeded faults: variants of the steps below, in the order in which they    *)
(* appear.  No specification uses them; the model checker must reject each.  *)

\* The end of a file that is shorter than what is asked for starts before it.
FaultMonus(m, n) == m - n

\* The first line of a tail is kept, whole or not.
FaultDropPartialFirstLine(text, offset) == [text |-> text, offset |-> offset]

\* The next chunk starts where the text ends, in the middle of a line or not.
FaultNextOffset(text, offset) == offset + Len(text)

\* A line of the journal that is no record is passed over.
FaultGapJournal == (gaps \cup {gapTail}) \ {None, Torn}

-----------------------------------------------------------------------------
Lesser(m, n) == IF m < n THEN m ELSE n
Monus(m, n) == IF m < n THEN 0 ELSE m - n

-----------------------------------------------------------------------------
(* Text: the lines of a chunk, and where the next one starts. *)

Newlines(text) == {i \in 1..Len(text) : text[i] \in Newline}
FirstOf(S) == CHOOSE i \in S : \A j \in S : i <= j
LastOf(S) == CHOOSE i \in S : \A j \in S : j <= i

\* The end of a line at the front of the text is dropped; a text without a
\* newline is dropped as a whole, and then the offset stays.
DropPartialFirstLine(text, offset) ==
  IF text = <<>> \/ text[1] \in Newline THEN [text |-> text, offset |-> offset]
  ELSE IF Newlines(text) = {} THEN [text |-> <<>>, offset |-> offset]
  ELSE LET n == FirstOf(Newlines(text)) IN
       [text |-> SubSeq(text, n + 1, Len(text)), offset |-> offset + n]

\* The complete lines that are not empty, with their offsets and times.
Spans(text) ==
  {l \in ({0} \cup Newlines(text)) \X Newlines(text) :
     l[1] + 1 < l[2] /\ \A k \in Newlines(text) : ~(l[1] < k /\ k < l[2])}
SplitCompleteLines(text, offset) ==
  {[offset |-> offset + l[1], text |-> SubSeq(text, l[1] + 1, l[2] - 1), stamp |-> Stamp[text[l[2]]]] :
     l \in Spans(text)}
NextOffset(text, offset) ==
  IF Newlines(text) = {} THEN offset ELSE offset + LastOf(Newlines(text))

Keep(lines, since) == {l \in lines : since = None \/ l.stamp = None \/ l.stamp >= since}

-----------------------------------------------------------------------------
(* ReadChunk *)

Begin(c) == call[c].pc = "idle" /\ requests < MaxRequests /\ requests' = requests + 1
Fail(c) == call' = [call EXCEPT ![c] = IdleCall]

Answered(request, chunk, race) ==
  [IdleCall EXCEPT !.pc = "answered", !.inode = request.inode, !.follow = request.follow,
                   !.chunk = chunk, !.raced = race]

\* Up to the Stat: a path that leads nowhere and a file that is not the one
\* expected give no chunk, an offset beyond the file asks for its end.
Stat(c, id, expected, offset, limit, since, follow) ==
  LET file == At(id)
      size == Len(file.data)
      tail == offset = None \/ offset > size
      start == IF tail THEN Monus(size, TailBytes) ELSE offset
      snapshotEnd == IF limit = None THEN size ELSE Lesser(limit, size)
      readEnd == Lesser(snapshotEnd, start + MaxRead)
      request == [IdleCall EXCEPT !.pc = "open", !.id = id, !.inode = file.ino, !.follow = follow,
                    !.tail = tail, !.start = start, !.end = readEnd, !.since = since]
      changed == IF file = None THEN TRUE ELSE expected \notin {None, file.ino}
  IN  \/ changed /\ UNCHANGED call
      \/ /\ ~changed /\ start < readEnd
         /\ call' = [call EXCEPT ![c] = request]
      \/ /\ ~changed /\ start >= readEnd
         /\ call' = [call EXCEPT ![c] = Answered(request,
                       [inode |-> file.ino, lines |-> {}, next |-> snapshotEnd], FALSE)]

Follow(c) ==
  /\ Begin(c)
  /\ \E entry \in catalog :
       /\ cursor[entry.inode] < entry.size
       /\ Stat(c, entry.id, entry.inode, cursor[entry.inode], entry.size, None, TRUE)
  /\ UNCHANGED <<logVars, gapVars, gone, catalog, cursor, got, raced>>

View(c) ==
  /\ Begin(c) /\ requests <= MaxBefore
  /\ \E entry \in catalog : Stat(c, entry.id, None, None, None, Since, FALSE)
  /\ UNCHANGED <<logVars, gapVars, gone, catalog, cursor, got, raced>>

\* The path is opened anew: it may lead to another file, or nowhere, by now.
ReadOpened(c) ==
  /\ call[c].pc = "open"
  /\ LET r == call[c]
         file == At(r.id)
         text == SubSeq(file.data, r.start + 1, Lesser(r.end, Len(file.data)))
         rest == IF r.tail /\ r.start > 0 THEN DropPartialFirstLine(text, r.start)
                 ELSE [text |-> text, offset |-> r.start]
     IN  \/ file = None /\ Fail(c) /\ UNCHANGED raced
         \/ /\ file # None
            /\ call' = [call EXCEPT ![c] = Answered(r,
                 [inode |-> r.inode, next |-> NextOffset(rest.text, rest.offset),
                  lines |-> Keep(SplitCompleteLines(rest.text, rest.offset), r.since)],
                 file.ino # r.inode)]
            /\ raced' = IF r.follow /\ file.ino # r.inode THEN raced \cup {r.inode} ELSE raced
  /\ UNCHANGED <<logVars, gapVars, gone, catalog, cursor, got, requests>>

\* The panel gets the answer, or it is lost.
Take(c) ==
  /\ call[c].pc = "answered" /\ Fail(c)
  /\ LET r == call[c] IN
     \/ /\ r.follow
        /\ cursor' = [cursor EXCEPT ![r.inode] = r.chunk.next]
        /\ got' = [got EXCEPT ![r.inode] = @ \cup UNION {ToSet(l.text) : l \in r.chunk.lines}]
     \/ UNCHANGED <<cursor, got>>
  /\ UNCHANGED <<logVars, gapVars, gone, catalog, raced, requests>>

-----------------------------------------------------------------------------
(* Catalog: the sealed segments are listed, then each file is looked at. *)

CatalogList(c) ==
  /\ Begin(c)
  /\ call' = [call EXCEPT ![c] = [IdleCall EXCEPT !.pc = "list", !.names = DOMAIN sealed]]
  /\ UNCHANGED <<logVars, gapVars, gone, catalog, cursor, got, raced>>

CatalogStat(c) ==
  /\ call[c].pc = "list" /\ Fail(c)
  /\ catalog' = {[id |-> id, inode |-> At(id).ino, size |-> Len(At(id).data)] :
                   id \in {n \in call[c].names \cup {Active} : At(n) # None}}
  /\ UNCHANGED <<logVars, gapVars, gone, cursor, got, raced, requests>>

-----------------------------------------------------------------------------
(* CleanLogs: segments the panel calls safe and that are old enough go, each *)
(* after a record in the journal of gaps.  The answer is what the journal    *)
(* then says, of these segments and of earlier ones.                         *)

Safe == {entry.id : entry \in {e \in catalog : e.id # Active /\ cursor[e.inode] = e.size}}

CleanList(c) ==
  /\ Begin(c)
  /\ \E retention \in 1..MaxDay :
       LET names == {n \in DOMAIN sealed : n \in Safe /\ n[1] + retention <= today} IN
       call' = [call EXCEPT ![c] = [IdleCall EXCEPT !.pc = "clean", !.names = names]]
  /\ UNCHANGED <<logVars, gapVars, gone, catalog, cursor, got, raced>>

\* The journal is opened to append and nothing mends it: what is written goes
\* on the line that an earlier write was cut short in.
Glued(text) == IF gapTail = None THEN text ELSE Torn

GapWritten(gap) == gaps' = gaps \cup {Glued(gap)} /\ gapTail' = None

\* The write is cut short, of its newline alone or earlier.
GapCut(gap) == gapTail' \in {Glued(gap), Torn} /\ UNCHANGED gaps

\* The directory was listed before: another request may have removed the
\* segment.  Without its record it stays, and the request ends: when the write
\* is cut short or the record is not synced, when it cannot be written at all or
\* the segment not be looked at.
CleanGap(c) ==
  /\ call[c].pc = "clean"
  /\ \E n \in call[c].names :
       LET gap == [segment |-> n, end |-> Len(At(n).data)] IN
       \/ /\ At(n) = None
          /\ call' = [call EXCEPT ![c] = [call[c] EXCEPT !.names = @ \ {n}]]
          /\ UNCHANGED <<gapVars, mishaps>>
       \/ /\ At(n) # None /\ GapWritten(gap)
          /\ call' = [call EXCEPT ![c] = [call[c] EXCEPT !.pc = "remove", !.id = n]]
          /\ UNCHANGED mishaps
       \/ /\ At(n) # None /\ (GapCut(gap) \/ GapWritten(gap))
          /\ Mishap /\ Fail(c)
       \/ Mishap /\ Fail(c) /\ UNCHANGED gapVars
  /\ UNCHANGED <<diskVars, pump, streamVars, today, refused, historyVars>>
  /\ UNCHANGED <<gone, catalog, cursor, got, raced, requests>>

CleanRemove(c) ==
  /\ call[c].pc = "remove"
  /\ LET n == call[c].id IN
     \/ /\ n \in DOMAIN sealed
        /\ sealed' = [m \in DOMAIN sealed \ {n} |-> sealed[m]]
        /\ gone' = gone \cup {[name |-> n, file |-> sealed[n]]}
        /\ call' = [call EXCEPT ![c] = [call[c] EXCEPT !.pc = "clean", !.names = @ \ {n}]]
        /\ UNCHANGED mishaps
     \/ n \notin DOMAIN sealed /\ Fail(c) /\ UNCHANGED <<sealed, gone, mishaps>>
     \/ Mishap /\ Fail(c) /\ UNCHANGED <<sealed, gone>>
  /\ UNCHANGED <<active, journal, inodes, pump, streamVars, today, refused, historyVars>>
  /\ UNCHANGED <<gapVars, catalog, cursor, got, raced, requests>>

\* readGapJournal: the answer is the records of the journal, its last line with
\* or without a newline, and an error when any line of it is no record.
GapJournal == gaps \cup ({gapTail} \ {None})

CleanAnswer(c) ==
  /\ call[c].pc = "clean" /\ call[c].names = {}
  /\ \/ /\ Torn \notin GapJournal
        /\ call' = [call EXCEPT ![c] = [IdleCall EXCEPT !.pc = "cleaned", !.gaps = GapJournal]]
        /\ UNCHANGED mishaps
     \/ Torn \in GapJournal /\ Fail(c) /\ UNCHANGED mishaps
     \/ Mishap /\ Fail(c)
  /\ UNCHANGED <<diskVars, pump, streamVars, today, refused, historyVars>>
  /\ UNCHANGED <<gapVars, gone, catalog, cursor, got, raced, requests>>

CleanTake(c) ==
  /\ call[c].pc = "cleaned" /\ Fail(c)
  /\ UNCHANGED <<logVars, gapVars, gone, catalog, cursor, got, raced, requests>>

-----------------------------------------------------------------------------
Request(c) == \/ Follow(c) \/ View(c) \/ ReadOpened(c) \/ Take(c)
              \/ CatalogList(c) \/ CatalogStat(c) \/ CleanList(c) \/ CleanGap(c) \/ CleanRemove(c)
              \/ CleanAnswer(c) \/ CleanTake(c)

\* The requests of a node that is killed end.
Killed ==
  /\ NodeKilled /\ call' = [c \in Calls |-> IdleCall]
  /\ UNCHANGED <<gapVars, gone, catalog, cursor, got, raced, requests>>

Next ==
  \/ LogNext /\ UNCHANGED readerVars
  \/ Killed
  \/ \E c \in Calls : Request(c)

Spec == AuditInit /\ [][Next]_vars

-----------------------------------------------------------------------------
(* Properties *)

\* A line of the journal of gaps.
GapLine == [segment : Names, end : Nat] \cup {Torn}

\* The type invariant.
TypeOK ==
  /\ LogTypeOK
  /\ gaps \subseteq GapLine /\ gapTail \in GapLine \cup {None}
  /\ \A g \in gone : g.name \in Names /\ g.file \in File
  /\ \A c \in Calls :
       /\ call[c].pc \in {"idle", "open", "answered", "list", "clean", "remove", "cleaned"}
       /\ call[c].id \in Names \cup {Active} /\ call[c].inode \in Inodes \cup {None}
       /\ call[c].names \subseteq Names /\ call[c].gaps \subseteq GapLine
       /\ call[c].start \in Nat /\ call[c].end \in Nat
  /\ \A e \in catalog : e.id \in Names \cup {Active} /\ e.inode \in Inodes /\ e.size \in Nat
  /\ cursor \in [Inodes -> Nat] /\ got \in [Inodes -> SUBSET Bytes]
  /\ raced \subseteq Inodes /\ requests \in 0..MaxRequests

AllFiles == Files \cup {g.file : g \in gone}
AtLineStart(file, offset) == offset = 0 \/ (offset <= Len(file.data) /\ file.data[offset] \in Newline)

\* No byte is lost, repeated or reordered by the rotation, its recovery or the
\* removal of segments (Accounted, StoredInOrder), and neither a seal nor a
\* recovery meets files it does not expect (JournalIsExact).
NothingLost ==
  /\ Accounted(UNION {ToSet(g.file.data) : g \in gone})
  /\ StoredInOrder
  /\ JournalIsExact({g.name : g \in gone})

\* A chunk holds whole lines of the file whose inode it bears, each at its
\* offset, and ends at the start of one, whatever is rotated meanwhile; unless
\* the path changed its file between the Stat and the Open.
ChunkIsTrue ==
  \A c \in Calls : \A f \in AllFiles :
    LET chunk == call[c].chunk IN
    /\ call[c].pc = "answered" /\ chunk.inode = f.ino
    /\ ~call[c].raced /\ (call[c].follow => f.ino \notin raced)
    => \A l \in chunk.lines :
         /\ AtLineStart(f, l.offset) /\ AtLineStart(f, l.offset + Len(l.text) + 1)
         /\ SubSeq(f.data, l.offset + 1, l.offset + Len(l.text)) = l.text

\* Its name was that of a segment removed before it: openSegmentedLogWriter
\* counts the segments that are left, and goes on from there.
Reused(g) == \E h \in gone : h.name = g.name /\ h.file.ino < g.file.ino

\* What a panel has passed it has been given: every line before its offset in a
\* file, however often answers are lost, requests overlap and files are sealed.
\* A segment is removed only when it has been given all of it, unless the name
\* it calls safe has passed to another segment.
PassedWasDelivered ==
  /\ \A f \in AllFiles : f.ino \notin raced =>
       /\ AtLineStart(f, cursor[f.ino])
       /\ \A i \in 1..cursor[f.ino] : f.data[i] \in Newline \cup got[f.ino]
  /\ \A g \in gone : ~Reused(g) /\ g.file.ino \notin raced =>
       ToSet(g.file.data) \subseteq Newline \cup got[g.file.ino]

\* A clean that answers without an error names a gap for every segment that is
\* gone, with all of its range, whichever request removed it, wherever the node
\* was killed and whichever operation failed before; unless the segment's name
\* was recorded for another, which a request that overlapped had removed.  The
\* journal alone does not promise it: a record that is glued to part of one is
\* lost and its segment removed all the same (service.go:376-413), but then no
\* clean answers any more (service.go:454-456).
GapsCoverRemovals ==
  [][\A c \in Calls : call[c].pc = "clean" /\ call'[c].pc = "cleaned" =>
       \A g \in gone : Reused(g) \/ [segment |-> g.name, end |-> Len(g.file.data)] \in call'[c].gaps]_vars
=============================================================================
