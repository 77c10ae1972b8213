------------------------------ MODULE UserSync -------------------------------
(***************************************************************************)
(* internal/nodehandler/handler.go over internal/xray/hashstate.go and     *)
(* inbounds.go: the panel adds and removes users of a running rw-core.     *)
(* Each change is a call to rw-core and, after it, an update of the set    *)
(* of credentials the node keeps by inbound.  The node compares those      *)
(* sets with the panel's when it is asked to start, and restarts rw-core   *)
(* only if they differ; it finds the inbounds a user is removed from by    *)
(* its list of tags.  Start is the one of XrayManager, reduced to what it  *)
(* does to the sets and the users of rw-core.                              *)
(*                                                                         *)
(* A credential is a user with a version: the panel gives a user a new     *)
(* one at times.  The hash of a set is the set itself (no collisions).     *)
(***************************************************************************)
EXTENDS Naturals, FiniteSets

CONSTANTS
  Users, Tags,
  Inbounds,     \* the tags that are inbounds of every configuration
  Callers,      \* goroutines serving user requests
  None,
  Lossy,        \* may a call to a serving rw-core be reported as failed?
  MaxVersion,   \* bound: credentials of a user
  MaxBatch,     \* bound: users of a request
  MaxSends,     \* bound: user requests
  MaxStarts,    \* bound: start requests
  MaxExits      \* bound: exits and stops of rw-core

Profiles == [version : 0..MaxVersion, tags : SUBSET Tags]
Credentials == Users \X (0..MaxVersion)
Entries == Tags \X Users \X (0..MaxVersion)

ASSUME ConstantsAssumption ==
  /\ Inbounds \subseteq Tags /\ Lossy \in BOOLEAN
  /\ None \notin Users \cup Tags /\ \A C \in SUBSET Credentials : None # C
  /\ MaxVersion \in Nat /\ MaxBatch \in Nat /\ MaxSends \in Nat /\ MaxStarts \in Nat /\ MaxExits \in Nat

VARIABLES
  live,       \* does rw-core answer calls?
  users,      \* its users: tag, user, version
  xrayOnline,
  known,      \* is emptyConfigHash set?
  hashes,     \* inboundHashes: the credentials of each inbound, or None
  tags,       \* inboundTags
  job,        \* the user request of each goroutine
  start,      \* the start request under way, or NoStart
  db,         \* the panel: what each user should be
  torn,       \* history: users whose updates overlapped or lost an answer
  sends, starts, exits   \* counters of the bounds

coreVars == <<live, users, xrayOnline>>
hashVars == <<known, hashes, tags>>
boundVars == <<sends, starts, exits>>
vars == <<coreVars, hashVars, job, start, db, torn, boundVars>>

\* A request has a batch of users; "left" are those still to come.
Idle ==
  [pc |-> "idle", kind |-> "add", batch |-> {}, left |-> {}, user |-> None,
   want |-> [u \in Users |-> [version |-> 0, tags |-> {}]], prev |-> [u \in Users |-> 0],
   todo |-> {}, tag |-> None, failed |-> FALSE, ok |-> TRUE]

NoStart == [pc |-> "none", config |-> {}, dirty |-> {}]

Config(d) == {e \in Entries : e[1] \in Inbounds \cap d[e[2]].tags /\ e[3] = d[e[2]].version}
EntriesOf(u) == {e \in Entries : e[2] = u}
CredentialsAt(t, config) == {c \in Credentials : <<t, c[1], c[2]>> \in config}
Busy(u) == \E p \in Callers : u \in job[p].batch

Extract(config) == [t \in Tags |-> IF t \in Inbounds THEN CredentialsAt(t, config) ELSE None]

\* rw-core has not been started, or has been with what the panel has.
Init ==
  /\ db \in [Users -> {d \in Profiles : d.version = 0}]
  /\ \E running \in BOOLEAN :
       /\ live = running /\ xrayOnline = running /\ known = running
       /\ users = IF running THEN Config(db) ELSE {}
       /\ hashes = IF running THEN Extract(Config(db)) ELSE [t \in Tags |-> None]
       /\ tags = IF running THEN Inbounds ELSE {}
  /\ job = [p \in Callers |-> Idle] /\ start = NoStart
  /\ torn = {}
  /\ sends = 0 /\ starts = 0 /\ exits = 0

-----------------------------------------------------------------------------
(* The panel (external). *)

Batches == {b \in SUBSET Users : b # {} /\ Cardinality(b) <= MaxBatch}

\* Updates of one user that overlap, or overlap a start, tear it.
Send(p, kind, batch, want) ==
  /\ job[p].pc = "idle" /\ sends < MaxSends
  /\ db' = [u \in Users |-> IF u \in batch THEN want[u] ELSE db[u]]
  /\ torn' = torn \cup {u \in batch : Busy(u) \/ start # NoStart}
  /\ start' = IF start = NoStart THEN NoStart ELSE [start EXCEPT !.dirty = @ \cup batch]
  /\ job' = [job EXCEPT ![p] = [Idle EXCEPT
       !.pc = IF kind = "add" THEN "affected" ELSE "check",
       !.kind = kind, !.batch = batch, !.left = batch, !.want = want,
       !.prev = [u \in Users |-> db[u].version],
       !.todo = UNION {want[u].tags : u \in batch}]]
  /\ sends' = sends + 1
  /\ UNCHANGED <<coreVars, hashVars, starts, exits>>

SendAdd(p) ==
  \E batch \in Batches, new \in SUBSET Users, where \in (SUBSET Tags) \ {{}} :
    /\ \A u \in new : u \in batch /\ db[u].version < MaxVersion
    /\ Send(p, "add", batch,
         [u \in Users |-> IF u \in batch
            THEN [version |-> db[u].version + (IF u \in new THEN 1 ELSE 0), tags |-> where]
            ELSE db[u]])

SendRemove(p) ==
  \E batch \in Batches :
    Send(p, "remove", batch,
         [u \in Users |-> IF u \in batch THEN [db[u] EXCEPT !.tags = {}] ELSE db[u]])

SendStart ==
  /\ start = NoStart /\ starts < MaxStarts
  /\ start' = [pc |-> "compare", config |-> Config(db), dirty |-> {u \in Users : Busy(u)}]
  /\ torn' = torn \cup {u \in Users : Busy(u)}
  /\ starts' = starts + 1
  /\ UNCHANGED <<coreVars, hashVars, job, db, sends, exits>>

-----------------------------------------------------------------------------
(* The node's sets. *)

Publish(config) == known' = TRUE /\ hashes' = Extract(config) /\ tags' = Inbounds

\* Seeded faults: variants of the definitions that follow.  No specification
\* uses them; the model checker must reject each.
FaultComparesKnownTags(config) ==
  ~known \/ \E t \in Inbounds : hashes[t] = None
FaultTrackTag(t, c) ==
  /\ hashes' = [hashes EXCEPT ![t] = IF @ = None THEN {c} ELSE @ \cup {c}]
  /\ UNCHANGED tags
FaultUntrackLast(t, c) ==
  IF hashes[t] = None
    THEN UNCHANGED <<hashes, tags>>
    ELSE LET rest == hashes[t] \ {c} IN
         /\ hashes' = [hashes EXCEPT ![t] = IF rest = {} THEN None ELSE rest]
         /\ tags' = tags \ {t}

NeedRestart(config) == ~known \/ hashes # Extract(config)

\* AddUserToInboundHash.
Track(t, c) ==
  /\ hashes' = [hashes EXCEPT ![t] = IF @ = None THEN {c} ELSE @ \cup {c}]
  /\ tags' = tags \cup {t}

\* RemoveUserFromInboundHash: an inbound that has lost its last user is forgotten.
Untrack(t, c) ==
  IF hashes[t] = None
    THEN UNCHANGED <<hashes, tags>>
    ELSE LET rest == hashes[t] \ {c} IN
         /\ hashes' = [hashes EXCEPT ![t] = IF rest = {} THEN None ELSE rest]
         /\ tags' = IF rest = {} THEN tags \ {t} ELSE tags

-----------------------------------------------------------------------------
(* HandleAddUser(s) and HandleRemoveUser(s). *)

\* Seeded fault: the credential is added although an old one may be left.
FaultAddsAnyway(j) ==
  CASE j.pc = "affected" /\ j.todo = {} -> [j EXCEPT !.pc = "next"]
    [] j.pc = "tags" /\ j.todo = {} -> [j EXCEPT !.pc = "list"]
    [] j.pc = "remove" /\ j.todo = {} /\ j.kind = "add" ->
         [j EXCEPT !.pc = "add", !.todo = j.want[j.user].tags]
    [] \/ j.pc = "remove" /\ j.todo = {} /\ j.kind = "remove"
       \/ j.pc = "add" /\ j.todo = {} -> [j EXCEPT !.pc = IF j.left = {} THEN "answer" ELSE "next"]
    [] OTHER -> j

\* Where the loops over tags, inbounds and users go once one is done.
\* Nothing is added for a user who could not be removed everywhere.
Continue(j) ==
  CASE j.pc = "affected" /\ j.todo = {} -> [j EXCEPT !.pc = "next"]
    [] j.pc = "tags" /\ j.todo = {} -> [j EXCEPT !.pc = "list"]
    [] j.pc = "remove" /\ j.todo = {} /\ j.kind = "add" /\ ~j.failed ->
         [j EXCEPT !.pc = "add", !.todo = j.want[j.user].tags]
    [] \/ j.pc = "remove" /\ j.todo = {} /\ (j.kind = "remove" \/ j.failed)
       \/ j.pc = "add" /\ j.todo = {} -> [j EXCEPT !.pc = IF j.left = {} THEN "answer" ELSE "next"]
    [] OTHER -> j

\* Seeded fault: a user of the batch is not struck off.
FaultRepeatsUser(p) ==
  /\ job[p].pc = "next"
  /\ \E u \in job[p].left :
       job' = [job EXCEPT ![p].user = u, ![p].failed = FALSE,
                          ![p].pc = IF job[p].kind = "add" THEN "tags" ELSE "list",
                          ![p].todo = job[p].want[u].tags]
  /\ UNCHANGED <<coreVars, hashVars, start, db, torn, boundVars>>

NextUser(p) ==
  /\ job[p].pc = "next"
  /\ \E u \in job[p].left :
       job' = [job EXCEPT ![p] = [job[p] EXCEPT !.user = u, !.left = @ \ {u}, !.failed = FALSE,
                                    !.pc = IF job[p].kind = "add" THEN "tags" ELSE "list",
                                    !.todo = job[p].want[u].tags]]
  /\ UNCHANGED <<coreVars, hashVars, start, db, torn, boundVars>>

AddInboundTag(p) ==
  /\ job[p].pc \in {"affected", "tags"}
  /\ \E t \in job[p].todo :
       /\ tags' = tags \cup {t}
       /\ job' = [job EXCEPT ![p] = Continue([job[p] EXCEPT !.todo = @ \ {t}])]
  /\ UNCHANGED <<coreVars, known, hashes, start, db, torn, boundVars>>

\* A removal is done at once if there are no tags.
CheckTags(p) ==
  /\ job[p].pc = "check"
  /\ job' = [job EXCEPT ![p].pc = IF tags = {} THEN "answer" ELSE "next"]
  /\ UNCHANGED <<coreVars, hashVars, start, db, torn, boundVars>>

\* InboundTags.
ListTags(p) ==
  /\ job[p].pc = "list"
  /\ job' = [job EXCEPT ![p] = Continue([@ EXCEPT !.pc = "remove", !.todo = tags])]
  /\ UNCHANGED <<coreVars, hashVars, start, db, torn, boundVars>>

\* A call for one of the tags is made if xrayOnline is set; it may be
\* cleared, or rw-core replaced, before the call arrives.
HandlerAPI(p) ==
  /\ job[p].pc \in {"remove", "add"}
  /\ \E t \in job[p].todo :
       job' = [job EXCEPT ![p] =
         IF xrayOnline
           THEN [job[p] EXCEPT !.pc = IF @ = "add" THEN "adding" ELSE "removing", !.tag = t, !.todo = @ \ {t}]
           ELSE Continue([job[p] EXCEPT !.failed = TRUE, !.ok = FALSE, !.todo = @ \ {t}])]
  /\ UNCHANGED <<coreVars, hashVars, start, db, torn, boundVars>>

\* What a call that would leave rw-core with the users "to" does to it: a call
\* reported as failed may have been carried out.
Succeeds(to) == live /\ users' = to /\ UNCHANGED torn
Fails(u, to) ==
  \/ (~live \/ Lossy) /\ UNCHANGED <<users, torn>>
  \/ Lossy /\ live /\ users' = to /\ torn' = torn \cup {u}

AfterFailure(j, pc) == Continue([j EXCEPT !.pc = pc, !.tag = None, !.failed = TRUE, !.ok = FALSE])

\* Seeded fault: the credential is forgotten whatever the result of the call.
FaultForgetsAnyway(p) ==
  LET u == job[p].user
      to == users \ {e \in EntriesOf(u) : e[1] = job[p].tag} IN
  /\ job[p].pc = "removing"
  /\ \/ Succeeds(to) /\ job' = [job EXCEPT ![p].pc = "untrack"]
     \/ Fails(u, to) /\ job' = [job EXCEPT ![p].pc = "untrack", ![p].failed = TRUE, ![p].ok = FALSE]
  /\ UNCHANGED <<live, xrayOnline, hashVars, start, db, boundVars>>

\* rw-core reports a user or an inbound that it does not know as not found,
\* which counts as removed.
RemoveUser(p) ==
  LET u == job[p].user
      to == users \ {e \in EntriesOf(u) : e[1] = job[p].tag} IN
  /\ job[p].pc = "removing"
  /\ \/ Succeeds(to) /\ job' = [job EXCEPT ![p].pc = "untrack"]
     \/ Fails(u, to) /\ job' = [job EXCEPT ![p] = AfterFailure(@, "remove")]
  /\ UNCHANGED <<live, xrayOnline, hashVars, start, db, boundVars>>

RemoveUserFromInboundHash(p) ==
  /\ job[p].pc = "untrack"
  /\ Untrack(job[p].tag, <<job[p].user, job[p].prev[job[p].user]>>)
  /\ job' = [job EXCEPT ![p] = Continue([@ EXCEPT !.pc = "remove", !.tag = None])]
  /\ UNCHANGED <<coreVars, known, start, db, torn, boundVars>>

\* rw-core refuses an unknown inbound and a user it has.
AddUser(p) ==
  LET u == job[p].user
      t == job[p].tag
      to == users \cup {<<t, u, job[p].want[u].version>>}
      refuses == t \notin Inbounds \/ \E e \in users : e[1] = t /\ e[2] = u IN
  /\ job[p].pc = "adding"
  /\ \/ ~refuses /\ Succeeds(to) /\ job' = [job EXCEPT ![p].pc = "track"]
     \/ /\ IF refuses THEN UNCHANGED <<users, torn>> ELSE Fails(u, to)
        /\ job' = [job EXCEPT ![p] = AfterFailure(@, "add")]
  /\ UNCHANGED <<live, xrayOnline, hashVars, start, db, boundVars>>

AddUserToInboundHash(p) ==
  /\ job[p].pc = "track"
  /\ Track(job[p].tag, <<job[p].user, job[p].want[job[p].user].version>>)
  /\ job' = [job EXCEPT ![p] = Continue([@ EXCEPT !.pc = "add", !.tag = None])]
  /\ UNCHANGED <<coreVars, known, start, db, torn, boundVars>>

Answer(p) ==
  /\ job[p].pc = "answer"
  /\ job' = [job EXCEPT ![p] = Idle]
  /\ UNCHANGED <<coreVars, hashVars, start, db, torn, boundVars>>

-----------------------------------------------------------------------------
(* Start, Stop and rw-core (see XrayManager). *)

\* Any start may be forced; a failed ping clears xrayOnline.
Compare ==
  /\ start.pc = "compare"
  /\ \/ start' = [start EXCEPT !.pc = "swap"] /\ xrayOnline' \in {FALSE, xrayOnline}
     \/ /\ xrayOnline /\ live /\ ~NeedRestart(start.config)
        /\ start' = [start EXCEPT !.pc = "skip"] /\ UNCHANGED xrayOnline
  /\ UNCHANGED <<live, users, hashVars, job, db, torn, boundVars>>

Skip ==
  /\ start.pc = "skip"
  /\ Publish(start.config)
  /\ start' = NoStart
  /\ UNCHANGED <<coreVars, job, db, torn, boundVars>>

\* The second outcome is a killed core that is not reaped in time.
Swap ==
  /\ start.pc = "swap"
  /\ Publish(start.config)
  /\ live' = FALSE /\ users' = {}
  /\ \/ xrayOnline' = FALSE /\ start' = [start EXCEPT !.pc = "spawn"]
     \/ UNCHANGED xrayOnline /\ start' = NoStart
  /\ UNCHANGED <<job, db, torn, boundVars>>

\* A new core has the users of the configuration.  Those whose updates
\* did not overlap the start are whole again.
Serve ==
  /\ start.pc = "spawn"
  /\ live' = TRUE /\ users' = start.config
  /\ torn' = start.dirty
  /\ start' = [start EXCEPT !.pc = "wait"]
  /\ UNCHANGED <<xrayOnline, hashVars, job, db, boundVars>>

StartFinish ==
  /\ start.pc = "wait"
  /\ xrayOnline' = TRUE /\ start' = NoStart
  /\ UNCHANGED <<live, users, hashVars, job, db, torn, boundVars>>

\* The core cannot be prepared or spawned, or is stopped because it did not
\* answer in time.
StartFail ==
  /\ start.pc \in {"swap", "spawn", "wait"}
  /\ IF start.pc = "swap"
       THEN UNCHANGED coreVars
       ELSE live' = FALSE /\ users' = {} /\ xrayOnline' = FALSE
  /\ start' = NoStart
  /\ UNCHANGED <<hashVars, job, db, torn, boundVars>>

\* stopProcessLocked(true).  It keeps the sets, though not always the flag,
\* if the monitor has cleared m.process or the core is not reaped in time.
Stop ==
  /\ start = NoStart /\ exits < MaxExits
  /\ live' = FALSE /\ users' = {}
  /\ \/ known' = FALSE /\ hashes' = [t \in Tags |-> None] /\ tags' = {} /\ xrayOnline' = FALSE
     \/ UNCHANGED hashVars /\ (UNCHANGED xrayOnline \/ (~live /\ xrayOnline' = FALSE))
  /\ exits' = exits + 1
  /\ UNCHANGED <<job, start, db, torn, sends, starts>>

CoreExit ==
  /\ live /\ exits < MaxExits
  /\ live' = FALSE /\ users' = {}
  /\ exits' = exits + 1
  /\ UNCHANGED <<xrayOnline, hashVars, job, start, db, torn, sends, starts>>

\* Health, whose ping may fail, and the monitor of an exited core.
HealthPoll ==
  /\ xrayOnline' \in {FALSE, live} \ {xrayOnline}
  /\ UNCHANGED <<live, users, hashVars, job, start, db, torn, boundVars>>

Handler(p) ==
  \/ CheckTags(p) \/ NextUser(p) \/ AddInboundTag(p) \/ ListTags(p) \/ HandlerAPI(p)
  \/ RemoveUser(p) \/ RemoveUserFromInboundHash(p)
  \/ AddUser(p) \/ AddUserToInboundHash(p) \/ Answer(p)

Next ==
  \/ \E p \in Callers : SendAdd(p) \/ SendRemove(p) \/ Handler(p)
  \/ SendStart \/ Compare \/ Skip \/ Swap \/ Serve \/ StartFinish \/ StartFail
  \/ Stop \/ CoreExit \/ HealthPoll

Spec == Init /\ [][Next]_vars

-----------------------------------------------------------------------------
(* Properties. *)

\* Every variable keeps its type; a request works on users of its batch, each once.
TypeOK ==
  /\ live \in BOOLEAN /\ xrayOnline \in BOOLEAN /\ known \in BOOLEAN
  /\ users \subseteq Entries /\ tags \subseteq Tags
  /\ hashes \in [Tags -> (SUBSET Credentials) \cup {None}]
  /\ db \in [Users -> Profiles] /\ torn \subseteq Users
  /\ start.config \subseteq Entries /\ start.dirty \subseteq Users
  /\ \A p \in Callers :
       /\ job[p].want \in [Users -> Profiles] /\ job[p].prev \in [Users -> 0..MaxVersion]
       /\ job[p].todo \subseteq Tags /\ job[p].left \subseteq job[p].batch
       /\ job[p].user \in (job[p].batch \ job[p].left) \cup {None}
       /\ job[p].pc \in {"removing", "adding", "untrack", "track"} <=> job[p].tag # None
       /\ job[p].tag \in Tags \cup {None}

\* An inbound whose credentials are tracked is one that removals look at.
TrackedIsListed == \A t \in Tags : hashes[t] # None => t \in tags

\* The credential of every user in rw-core is tracked, or about to be.
UsersTracked ==
  \A e \in users : e[2] \notin torn =>
    \/ hashes[e[1]] # None /\ <<e[2], e[3]>> \in hashes[e[1]]
    \/ \E p \in Callers :
         job[p].pc = "track" /\ job[p].tag = e[1] /\ job[p].user = e[2] /\ job[p].want[e[2]].version = e[3]

\* A user request that is answered with success has been carried out: rw-core
\* has the users of the batch exactly where and as they were asked for, and
\* nowhere if they were removed.
AnswerIsTrue ==
  \A p \in Callers : job[p].pc = "answer" /\ job[p].ok /\ live =>
    \A u \in job[p].batch \ torn : users \cap EntriesOf(u) = Config(job[p].want) \cap EntriesOf(u)

\* A user never has two credentials, also when a removal fails halfway.
OneCredential ==
  \A e, f \in users : e[2] = f[2] /\ e[2] \notin torn => e[3] = f[3]

\* A start is skipped only if rw-core has the users the panel asked for.
SkipIsSound ==
  start.pc = "skip" /\ live =>
    \A u \in Users \ torn : users \cap EntriesOf(u) = start.config \cap EntriesOf(u)

\* An inbound is forgotten, with the warning that it has no users, only if it
\* has none: when nothing is under way, rw-core has no user there.
ForgottenIsEmpty ==
  start = NoStart /\ (\A p \in Callers : job[p].pc = "idle") =>
    \A e \in users : e[1] \in tags
=============================================================================
