--------------------------- MODULE UserSyncProofs ---------------------------
(***************************************************************************)
(* Theorems of UserSync, for any users, tags, callers and bounds: an       *)
(* inductive invariant, and from it the six properties that the runs of    *)
(* MCUserSync check.                                                       *)
(***************************************************************************)
EXTENDS UserSync, TLAPS

(***************************************************************************)
(* Types.  The record of a request is described as a whole (Jobs), with    *)
(* what holds between its fields (JobOK).                                  *)
(***************************************************************************)
Called == {"removing", "adding", "untrack", "track"}
Resting == {"idle", "affected", "check", "next", "answer"}
Labels == Called \cup Resting \cup {"tags", "list", "remove", "add"}

Jobs ==
  [pc : Labels, kind : {"add", "remove"}, batch : SUBSET Users, left : SUBSET Users,
   user : Users \cup {None}, want : [Users -> Profiles], prev : [Users -> 0..MaxVersion],
   todo : SUBSET Tags, tag : Tags \cup {None}, failed : BOOLEAN, ok : BOOLEAN]

JobOK(j) ==
  /\ j \in Jobs
  /\ j.left \subseteq j.batch
  /\ j.user \in (j.batch \ j.left) \cup {None}
  /\ j.pc \in Called <=> j.tag # None
  /\ j.pc \notin Resting => j.user # None

Starts ==
  [pc : {"none", "compare", "skip", "swap", "spawn", "wait"},
   config : SUBSET Entries, dirty : SUBSET Users]

CoreTypes == live \in BOOLEAN /\ xrayOnline \in BOOLEAN /\ users \subseteq Entries
SetTypes == known \in BOOLEAN /\ hashes \in [Tags -> (SUBSET Credentials) \cup {None}] /\ tags \subseteq Tags
JobTypes == job \in [Callers -> Jobs] /\ \A p \in Callers : JobOK(job[p])
PanelTypes == start \in Starts /\ db \in [Users -> Profiles] /\ torn \subseteq Users

UTypes == CoreTypes /\ SetTypes /\ JobTypes /\ PanelTypes

-----------------------------------------------------------------------------
(* What the helpers return. *)

\* A configuration is a set of entries, whose sets of credentials can be published.
LEMMA ConfigType == \A d : Config(d) \subseteq Entries
  BY DEF Config

\* The node's sets, as published from a configuration.
LEMMA ExtractType == \A config : Extract(config) \in [Tags -> (SUBSET Credentials) \cup {None}]
  BY DEF Extract, CredentialsAt

\* The loops keep a request in order.
LEMMA ContinueOK == \A j : JobOK(j) => JobOK(Continue(j))
<1> SUFFICES ASSUME NEW j, JobOK(j) PROVE JobOK(Continue(j))
  OBVIOUS
<1>1. CASE j.pc = "affected" /\ j.todo = {}
  BY <1>1 DEF Continue, JobOK, Jobs, Labels, Called, Resting
<1>2. CASE j.pc = "tags" /\ j.todo = {}
  BY <1>2 DEF Continue, JobOK, Jobs, Labels, Called, Resting
<1>3. CASE j.pc = "remove" /\ j.todo = {} /\ j.kind = "add" /\ ~j.failed
  <2>1. j.user \in Users
    BY <1>3 DEF JobOK, Jobs, Resting
  <2>2. j.want[j.user].tags \subseteq Tags
    BY <2>1 DEF JobOK, Jobs, Profiles
  <2>3. Continue(j) = [j EXCEPT !.pc = "add", !.todo = j.want[j.user].tags]
    BY <1>3 DEF Continue
  <2>4. QED
    BY <1>3, <2>2, <2>3 DEF JobOK, Jobs, Labels, Called, Resting
<1>4. CASE \/ j.pc = "remove" /\ j.todo = {} /\ (j.kind = "remove" \/ j.failed)
           \/ j.pc = "add" /\ j.todo = {}
  <2>1. Continue(j) = [j EXCEPT !.pc = IF j.left = {} THEN "answer" ELSE "next"]
    BY <1>4 DEF Continue, JobOK, Jobs
  <2>2. QED
    BY <1>4, <2>1 DEF JobOK, Jobs, Labels, Called, Resting
<1>5. CASE /\ ~(j.pc = "affected" /\ j.todo = {})
           /\ ~(j.pc = "tags" /\ j.todo = {})
           /\ ~(j.pc = "remove" /\ j.todo = {} /\ j.kind = "add" /\ ~j.failed)
           /\ ~(\/ j.pc = "remove" /\ j.todo = {} /\ (j.kind = "remove" \/ j.failed)
                \/ j.pc = "add" /\ j.todo = {})
  BY <1>5 DEF Continue
<1>6. QED
  BY <1>1, <1>2, <1>3, <1>4, <1>5

\* A goroutine without a request.
LEMMA IdleOK == ConstantsAssumption => JobOK(Idle)
  BY DEF ConstantsAssumption, JobOK, Idle, Jobs, Labels, Called, Resting, Profiles

\* A request is typed like any other once one job of it is replaced.
LEMMA JobReplaced ==
  ASSUME NEW p \in Callers, NEW j, JobTypes, JobOK(j), job' = [job EXCEPT ![p] = j]
  PROVE  JobTypes'
  BY DEF JobTypes, JobOK

\* The steps of a request, as changes of its record.
LEMMA JobMoves ==
  ASSUME NEW j, JobOK(j), ConstantsAssumption
  PROVE  /\ \A u \in j.left : j.pc = "next" =>
              JobOK([j EXCEPT !.user = u, !.left = @ \ {u}, !.failed = FALSE,
                              !.pc = IF j.kind = "add" THEN "tags" ELSE "list", !.todo = j.want[u].tags])
         /\ \A ts \in SUBSET Tags : j.pc = "list" => JobOK([j EXCEPT !.pc = "remove", !.todo = ts])
         /\ \A t \in j.todo : j.pc \in {"remove", "add"} =>
              JobOK([j EXCEPT !.pc = IF @ = "add" THEN "adding" ELSE "removing", !.tag = t, !.todo = @ \ {t}])
         /\ \A pc \in {"remove", "add"} : j.pc \in Called => JobOK([j EXCEPT !.pc = pc, !.tag = None])
         /\ \A t : JobOK([j EXCEPT !.failed = TRUE, !.ok = FALSE, !.todo = @ \ {t}])
<1>1. ASSUME NEW u \in j.left, j.pc = "next"
      PROVE  JobOK([j EXCEPT !.user = u, !.left = @ \ {u}, !.failed = FALSE,
                             !.pc = IF j.kind = "add" THEN "tags" ELSE "list", !.todo = j.want[u].tags])
  <2>1. u \in Users /\ u # None
    BY DEF JobOK, Jobs, ConstantsAssumption
  <2>2. j.want[u].tags \subseteq Tags
    BY <2>1 DEF JobOK, Jobs, Profiles
  <2>3. QED
    BY <1>1, <2>1, <2>2 DEF JobOK, Jobs, Labels, Called, Resting
<1>2. ASSUME NEW ts \in SUBSET Tags, j.pc = "list" PROVE JobOK([j EXCEPT !.pc = "remove", !.todo = ts])
  BY <1>2 DEF JobOK, Jobs, Labels, Called, Resting
<1>3. ASSUME NEW t \in j.todo, j.pc \in {"remove", "add"}
      PROVE  JobOK([j EXCEPT !.pc = IF @ = "add" THEN "adding" ELSE "removing", !.tag = t, !.todo = @ \ {t}])
  <2>1. t \in Tags /\ t # None
    BY DEF JobOK, Jobs, ConstantsAssumption
  <2>2. QED
    BY <1>3, <2>1 DEF JobOK, Jobs, Labels, Called, Resting
<1>4. ASSUME NEW pc \in {"remove", "add"}, j.pc \in Called PROVE JobOK([j EXCEPT !.pc = pc, !.tag = None])
  BY <1>4 DEF JobOK, Jobs, Labels, Called, Resting
<1>5. ASSUME NEW t PROVE JobOK([j EXCEPT !.failed = TRUE, !.ok = FALSE, !.todo = @ \ {t}])
  BY DEF JobOK, Jobs
<1>6. QED
  BY <1>1, <1>2, <1>3, <1>4, <1>5

\* A request as the panel sends it.
LEMMA RequestOK ==
  ASSUME ConstantsAssumption, NEW kind \in {"add", "remove"}, NEW batch \in SUBSET Users,
         NEW want \in [Users -> Profiles], NEW prev \in [Users -> 0..MaxVersion], NEW todo \in SUBSET Tags
  PROVE  JobOK([Idle EXCEPT !.pc = IF kind = "add" THEN "affected" ELSE "check", !.kind = kind,
                            !.batch = batch, !.left = batch, !.want = want, !.prev = prev, !.todo = todo])
<1> DEFINE pc == IF kind = "add" THEN "affected" ELSE "check"
           j == [Idle EXCEPT !.pc = pc, !.kind = kind, !.batch = batch, !.left = batch, !.want = want,
                             !.prev = prev, !.todo = todo]
<1>1. pc \in {"affected", "check"}
  OBVIOUS
<1>2. Idle \in Jobs /\ Idle.user = None /\ Idle.tag = None
  BY IdleOK DEF JobOK, Idle
<1> HIDE DEF pc
<1>3. JobOK(j)
  BY <1>1, <1>2 DEF JobOK, Jobs, Labels, Called, Resting
<1>4. QED
  BY <1>3 DEF pc

\* A request whose call has failed.
LEMMA FailureOK ==
  ASSUME NEW j, JobOK(j), j.pc \in Called, NEW pc \in {"remove", "add"}
  PROVE  JobOK(AfterFailure(j, pc))
<1>1. JobOK([j EXCEPT !.pc = pc, !.tag = None, !.failed = TRUE, !.ok = FALSE])
  BY DEF JobOK, Jobs, Labels, Called, Resting
<1>2. QED
  BY <1>1, ContinueOK DEF AfterFailure

\* The user and the tag of a call to rw-core.
LEMMA CalledUser ==
  ASSUME JobTypes, NEW p \in Callers, job[p].pc \in Called
  PROVE  /\ job[p].user \in Users /\ job[p].tag \in Tags
         /\ job[p].want[job[p].user].version \in 0..MaxVersion
<1>1. JobOK(job[p])
  BY DEF JobTypes
<1>2. job[p].user \in Users /\ job[p].tag \in Tags
  BY <1>1 DEF JobOK, Jobs, Called, Resting
<1>3. QED
  BY <1>1, <1>2 DEF JobOK, Jobs, Profiles

\* The panel sends a request.
LEMMA SendTypes ==
  ASSUME UTypes, NEW p \in Callers, NEW kind \in {"add", "remove"}, NEW batch \in SUBSET Users,
         NEW want \in [Users -> Profiles], Send(p, kind, batch, want)
  PROVE  UTypes'
<1> USE ConstantsAssumption
<1>1. JobTypes'
  <2> DEFINE j == [Idle EXCEPT
       !.pc = IF kind = "add" THEN "affected" ELSE "check",
       !.kind = kind, !.batch = batch, !.left = batch, !.want = want,
       !.prev = [u \in Users |-> db[u].version],
       !.todo = UNION {want[u].tags : u \in batch}]
  <2>1. [u \in Users |-> db[u].version] \in [Users -> 0..MaxVersion]
    BY DEF UTypes, PanelTypes, Profiles
  <2>2. UNION {want[u].tags : u \in batch} \in SUBSET Tags
    BY DEF Profiles
  <2>3. JobOK(j)
    BY <2>1, <2>2, RequestOK
  <2>4. job' = [job EXCEPT ![p] = j]
    BY DEF Send
  <2>5. QED
    BY <2>3, <2>4, JobReplaced DEF UTypes
<1>2. PanelTypes'
  BY DEF Send, UTypes, PanelTypes, Starts, NoStart
<1>3. QED
  BY <1>1, <1>2 DEF Send, UTypes, CoreTypes, SetTypes, coreVars, hashVars

-----------------------------------------------------------------------------
\* Types hold at first.
LEMMA InitTypes == Init => UTypes
<1> USE ConstantsAssumption
<1> SUFFICES ASSUME Init PROVE UTypes
  OBVIOUS
<1>1. JobTypes
  BY IdleOK DEF Init, JobTypes, JobOK
<1>2. PanelTypes
  BY DEF Init, PanelTypes, Starts, NoStart
<1>3. CoreTypes
  BY ConfigType DEF Init, CoreTypes
<1>4. SetTypes
  <2>1. PICK running \in BOOLEAN :
          /\ known = running
          /\ hashes = IF running THEN Extract(Config(db)) ELSE [t \in Tags |-> None]
          /\ tags = IF running THEN Inbounds ELSE {}
    BY DEF Init
  <2>2. QED
    BY <2>1, ExtractType DEF SetTypes, ConstantsAssumption
<1>5. QED
  BY <1>1, <1>2, <1>3, <1>4 DEF UTypes

\* Every step keeps the types.  Steps of a request replace one job by one that
\* JobOK admits; the others leave jobs alone.
LEMMA NextTypes == UTypes /\ [Next]_vars => UTypes'
<1> USE ConstantsAssumption
<1> SUFFICES ASSUME UTypes, [Next]_vars PROVE UTypes'
  OBVIOUS
<1> USE DEF UTypes
<1>a. ASSUME NEW p \in Callers PROVE JobOK(job[p])
  BY DEF JobTypes
<1>1. ASSUME NEW p \in Callers, SendAdd(p) PROVE UTypes'
  <2>1. PICK batch \in Batches, new \in SUBSET Users, where \in (SUBSET Tags) \ {{}} :
          /\ \A u \in new : u \in batch /\ db[u].version < MaxVersion
          /\ Send(p, "add", batch,
               [u \in Users |-> IF u \in batch
                  THEN [version |-> db[u].version + (IF u \in new THEN 1 ELSE 0), tags |-> where]
                  ELSE db[u]])
    BY <1>1 DEF SendAdd
  <2> DEFINE want == [u \in Users |-> IF u \in batch
                  THEN [version |-> db[u].version + (IF u \in new THEN 1 ELSE 0), tags |-> where]
                  ELSE db[u]]
  <2>2. want \in [Users -> Profiles]
    <3>1. ASSUME NEW u \in Users
          PROVE  (IF u \in batch
                    THEN [version |-> db[u].version + (IF u \in new THEN 1 ELSE 0), tags |-> where]
                    ELSE db[u]) \in Profiles
      <4>1. db[u] \in Profiles
        BY DEF PanelTypes
      <4>2. db[u].version \in 0..MaxVersion /\ (u \in new => db[u].version < MaxVersion)
        BY <4>1, <2>1 DEF Profiles
      <4>3. db[u].version + (IF u \in new THEN 1 ELSE 0) \in 0..MaxVersion
        BY <4>2 DEF ConstantsAssumption
      <4>4. QED
        BY <4>1, <4>3 DEF Profiles
    <3>2. QED
      BY <3>1
  <2>3. Send(p, "add", batch, want)
    BY <2>1
  <2>4. QED
    BY <2>2, <2>3, SendTypes DEF Batches
<1>2. ASSUME NEW p \in Callers, SendRemove(p) PROVE UTypes'
  <2>1. PICK batch \in Batches :
          Send(p, "remove", batch, [u \in Users |-> IF u \in batch THEN [db[u] EXCEPT !.tags = {}] ELSE db[u]])
    BY <1>2 DEF SendRemove
  <2> DEFINE want == [u \in Users |-> IF u \in batch THEN [db[u] EXCEPT !.tags = {}] ELSE db[u]]
  <2>2. want \in [Users -> Profiles]
    BY DEF PanelTypes, Profiles
  <2>3. Send(p, "remove", batch, want)
    BY <2>1
  <2>4. QED
    BY <2>2, <2>3, SendTypes DEF Batches
<1>3. ASSUME NEW p \in Callers, NextUser(p) PROVE UTypes'
  <2>1. PICK u \in job[p].left :
          job' = [job EXCEPT ![p] = [job[p] EXCEPT !.user = u, !.left = @ \ {u}, !.failed = FALSE,
                                       !.pc = IF job[p].kind = "add" THEN "tags" ELSE "list",
                                       !.todo = job[p].want[u].tags]]
    BY <1>3 DEF NextUser
  <2>2. JobTypes'
    <3>1. job[p].pc = "next"
      BY <1>3 DEF NextUser
    <3>2. QED
      BY <1>a, <2>1, <3>1, JobMoves, JobReplaced
  <2>3. QED
    BY <1>3, <2>2 DEF NextUser, CoreTypes, SetTypes, PanelTypes, coreVars, hashVars, boundVars
<1>4. ASSUME NEW p \in Callers, AddInboundTag(p) PROVE UTypes'
  <2>1. PICK t \in job[p].todo :
          /\ tags' = tags \cup {t}
          /\ job' = [job EXCEPT ![p] = Continue([job[p] EXCEPT !.todo = @ \ {t}])]
    BY <1>4 DEF AddInboundTag
  <2>2. JobOK([job[p] EXCEPT !.todo = @ \ {t}])
    BY <1>a DEF JobOK, Jobs
  <2>3. JobTypes'
    <3> DEFINE j == [job[p] EXCEPT !.todo = @ \ {t}]
    <3>1. job' = [job EXCEPT ![p] = Continue(j)]
      BY <2>1
    <3>2. JobOK(Continue(j))
      BY <2>2, ContinueOK
    <3>3. QED
      BY <3>1, <3>2, JobReplaced
  <2>4. t \in Tags
    BY <1>a DEF JobOK, Jobs
  <2>5. QED
    BY <1>4, <2>1, <2>3, <2>4 DEF AddInboundTag, CoreTypes, SetTypes, PanelTypes, coreVars, boundVars
<1>5. ASSUME NEW p \in Callers, CheckTags(p) PROVE UTypes'
  <2>1. job' = [job EXCEPT ![p] = [job[p] EXCEPT !.pc = IF tags = {} THEN "answer" ELSE "next"]]
    BY <1>5 DEF CheckTags, JobTypes
  <2>2. JobOK([job[p] EXCEPT !.pc = IF tags = {} THEN "answer" ELSE "next"])
    BY <1>5, <1>a DEF CheckTags, JobOK, Jobs, Labels, Called, Resting
  <2>3. JobTypes'
    BY <2>1, <2>2, JobReplaced
  <2>4. QED
    BY <1>5, <2>3 DEF CheckTags, CoreTypes, SetTypes, PanelTypes, coreVars, hashVars, boundVars
<1>6. ASSUME NEW p \in Callers, ListTags(p) PROVE UTypes'
  <2>1. job' = [job EXCEPT ![p] = Continue([job[p] EXCEPT !.pc = "remove", !.todo = tags])]
    BY <1>6 DEF ListTags, JobTypes
  <2>2. JobOK([job[p] EXCEPT !.pc = "remove", !.todo = tags])
    <3>1. job[p].pc = "list"
      BY <1>6 DEF ListTags
    <3>2. QED
      BY <1>a, <3>1, JobMoves DEF SetTypes
  <2>3. JobTypes'
    BY <2>1, <2>2, ContinueOK, JobReplaced
  <2>4. QED
    BY <1>6, <2>3 DEF ListTags, CoreTypes, SetTypes, PanelTypes, coreVars, hashVars, boundVars
<1>7. ASSUME NEW p \in Callers, HandlerAPI(p) PROVE UTypes'
  <2>1. PICK t \in job[p].todo : job' = [job EXCEPT ![p] =
          IF xrayOnline
            THEN [job[p] EXCEPT !.pc = IF @ = "add" THEN "adding" ELSE "removing", !.tag = t, !.todo = @ \ {t}]
            ELSE Continue([job[p] EXCEPT !.failed = TRUE, !.ok = FALSE, !.todo = @ \ {t}])]
    BY <1>7 DEF HandlerAPI
  <2>3. JobOK([job[p] EXCEPT !.pc = IF @ = "add" THEN "adding" ELSE "removing", !.tag = t, !.todo = @ \ {t}])
    <3>1. job[p].pc \in {"remove", "add"}
      BY <1>7 DEF HandlerAPI
    <3>2. QED
      BY <1>a, <3>1, JobMoves
  <2>4. JobOK([job[p] EXCEPT !.failed = TRUE, !.ok = FALSE, !.todo = @ \ {t}])
    BY <1>a, JobMoves
  <2>5. JobTypes'
    <3> DEFINE called == [job[p] EXCEPT !.pc = IF @ = "add" THEN "adding" ELSE "removing", !.tag = t, !.todo = @ \ {t}]
               failed == [job[p] EXCEPT !.failed = TRUE, !.ok = FALSE, !.todo = @ \ {t}]
    <3>1. job' = [job EXCEPT ![p] = IF xrayOnline THEN called ELSE Continue(failed)]
      BY <2>1
    <3>2. JobOK(IF xrayOnline THEN called ELSE Continue(failed))
      BY <2>3, <2>4, ContinueOK
    <3>3. QED
      BY <3>1, <3>2, JobReplaced
  <2>6. QED
    BY <1>7, <2>5 DEF HandlerAPI, CoreTypes, SetTypes, PanelTypes, coreVars, hashVars, boundVars
<1>8. ASSUME NEW p \in Callers, RemoveUser(p) PROVE UTypes'
  <2>1. JobTypes'
    <3>1. CASE job' = [job EXCEPT ![p].pc = "untrack"]
      <4>1. JobOK([job[p] EXCEPT !.pc = "untrack"])
        BY <1>8, <1>a DEF RemoveUser, JobOK, Jobs, Labels, Called, Resting
      <4>2. job' = [job EXCEPT ![p] = [job[p] EXCEPT !.pc = "untrack"]]
        BY <3>1 DEF JobTypes
      <4>3. QED
        BY <4>1, <4>2, JobReplaced
    <3>2. CASE job' = [job EXCEPT ![p] = AfterFailure(job[p], "remove")]
      BY <1>8, <3>2, <1>a, FailureOK, JobReplaced DEF RemoveUser, Called
    <3>3. QED
      BY <1>8, <3>1, <3>2 DEF RemoveUser, JobTypes
  <2>2. users' \subseteq Entries /\ torn' \subseteq Users
    BY <1>8, CalledUser DEF RemoveUser, Succeeds, Fails, CoreTypes, PanelTypes, Called
  <2>3. QED
    BY <1>8, <2>1, <2>2 DEF RemoveUser, CoreTypes, SetTypes, PanelTypes, hashVars, boundVars
<1>9. ASSUME NEW p \in Callers, RemoveUserFromInboundHash(p) PROVE UTypes'
  <2>1. job' = [job EXCEPT ![p] = Continue([job[p] EXCEPT !.pc = "remove", !.tag = None])]
    BY <1>9 DEF RemoveUserFromInboundHash, JobTypes
  <2>2. JobOK([job[p] EXCEPT !.pc = "remove", !.tag = None])
    <3>1. job[p].pc = "untrack"
      BY <1>9 DEF RemoveUserFromInboundHash
    <3>2. QED
      BY <1>a, <3>1, JobMoves DEF Called
  <2>3. JobTypes'
    BY <2>1, <2>2, ContinueOK, JobReplaced
  <2>4. SetTypes'
    BY <1>9, CalledUser DEF RemoveUserFromInboundHash, Untrack, SetTypes, Called
  <2>5. QED
    BY <1>9, <2>3, <2>4 DEF RemoveUserFromInboundHash, CoreTypes, PanelTypes, coreVars, boundVars
<1>10. ASSUME NEW p \in Callers, AddUser(p) PROVE UTypes'
  <2>1. JobTypes'
    <3>1. CASE job' = [job EXCEPT ![p].pc = "track"]
      <4>1. JobOK([job[p] EXCEPT !.pc = "track"])
        BY <1>10, <1>a DEF AddUser, JobOK, Jobs, Labels, Called, Resting
      <4>2. job' = [job EXCEPT ![p] = [job[p] EXCEPT !.pc = "track"]]
        BY <3>1 DEF JobTypes
      <4>3. QED
        BY <4>1, <4>2, JobReplaced
    <3>2. CASE job' = [job EXCEPT ![p] = AfterFailure(job[p], "add")]
      BY <1>10, <3>2, <1>a, FailureOK, JobReplaced DEF AddUser, Called
    <3>3. QED
      BY <1>10, <3>1, <3>2 DEF AddUser, JobTypes
  <2>2. users' \subseteq Entries /\ torn' \subseteq Users
    <3>1. /\ job[p].user \in Users /\ job[p].tag \in Tags
          /\ job[p].want[job[p].user].version \in 0..MaxVersion
      BY <1>10, CalledUser DEF AddUser, Called
    <3>2. <<job[p].tag, job[p].user, job[p].want[job[p].user].version>> \in Entries
      BY <3>1 DEF Entries
    <3>3. users \cup {<<job[p].tag, job[p].user, job[p].want[job[p].user].version>>} \subseteq Entries
      BY <3>2 DEF CoreTypes
    <3>4. users' \in {users, users \cup {<<job[p].tag, job[p].user, job[p].want[job[p].user].version>>}}
      BY <1>10 DEF AddUser, Succeeds, Fails
    <3>5. torn' \in {torn, torn \cup {job[p].user}}
      BY <1>10 DEF AddUser, Succeeds, Fails
    <3>6. QED
      BY <3>1, <3>3, <3>4, <3>5 DEF CoreTypes, PanelTypes
  <2>3. QED
    BY <1>10, <2>1, <2>2 DEF AddUser, CoreTypes, SetTypes, PanelTypes, hashVars, boundVars
<1>11. ASSUME NEW p \in Callers, AddUserToInboundHash(p) PROVE UTypes'
  <2>1. job' = [job EXCEPT ![p] = Continue([job[p] EXCEPT !.pc = "add", !.tag = None])]
    BY <1>11 DEF AddUserToInboundHash, JobTypes
  <2>2. JobOK([job[p] EXCEPT !.pc = "add", !.tag = None])
    <3>1. job[p].pc = "track"
      BY <1>11 DEF AddUserToInboundHash
    <3>2. QED
      BY <1>a, <3>1, JobMoves DEF Called
  <2>3. JobTypes'
    BY <2>1, <2>2, ContinueOK, JobReplaced
  <2>4. SetTypes'
    <3>1. /\ job[p].tag \in Tags
          /\ <<job[p].user, job[p].want[job[p].user].version>> \in Credentials
      BY <1>11, CalledUser DEF AddUserToInboundHash, Called, Credentials
    <3>2. QED
      BY <1>11, <3>1 DEF AddUserToInboundHash, Track, SetTypes
  <2>5. QED
    BY <1>11, <2>3, <2>4 DEF AddUserToInboundHash, CoreTypes, PanelTypes, coreVars, boundVars
<1>12. ASSUME NEW p \in Callers, Answer(p) PROVE UTypes'
  <2>1. JobTypes'
    BY <1>12, IdleOK, JobReplaced DEF Answer
  <2>2. QED
    BY <1>12, <2>1 DEF Answer, CoreTypes, SetTypes, PanelTypes, coreVars, hashVars, boundVars
<1>13. CASE SendStart \/ Compare \/ StartFinish \/ StartFail \/ Serve
  <2>1. start' \in Starts /\ torn' \subseteq Users /\ UNCHANGED db
    <3>1. CASE SendStart
      BY <3>1, ConfigType DEF SendStart, PanelTypes, Starts
    <3>2. CASE Compare
      BY <3>2 DEF Compare, PanelTypes, Starts
    <3>3. CASE StartFinish \/ StartFail
      BY <3>3 DEF StartFinish, StartFail, PanelTypes, Starts, NoStart
    <3>4. CASE Serve
      BY <3>4 DEF Serve, PanelTypes, Starts
    <3>5. QED
      BY <1>13, <3>1, <3>2, <3>3, <3>4
  <2>2. CoreTypes'
    BY <1>13 DEF SendStart, Compare, StartFinish, StartFail, Serve, CoreTypes, PanelTypes, Starts, coreVars
  <2>3. SetTypes' /\ JobTypes'
    BY <1>13 DEF SendStart, Compare, StartFinish, StartFail, Serve, SetTypes, JobTypes, hashVars
  <2>4. QED
    BY <2>1, <2>2, <2>3 DEF PanelTypes
<1>14. CASE Skip \/ Swap
  <2>1. SetTypes'
    BY <1>14, ExtractType DEF Skip, Swap, Publish, SetTypes, ConstantsAssumption
  <2>2. JobTypes' /\ CoreTypes'
    BY <1>14 DEF Skip, Swap, CoreTypes, JobTypes, coreVars
  <2>3. PanelTypes'
    <3>1. start' \in {NoStart, [start EXCEPT !.pc = "spawn"]} /\ UNCHANGED <<db, torn>>
      BY <1>14 DEF Skip, Swap
    <3>2. QED
      BY <3>1 DEF PanelTypes, Starts, NoStart
  <2>4. QED
    BY <2>1, <2>2, <2>3
<1>15. CASE Stop \/ CoreExit \/ HealthPoll
  <2>1. SetTypes'
    BY <1>15 DEF Stop, CoreExit, HealthPoll, SetTypes, hashVars
  <2>2. QED
    BY <1>15, <2>1 DEF Stop, CoreExit, HealthPoll, CoreTypes, JobTypes, PanelTypes, boundVars
<1>16. CASE UNCHANGED vars
  BY <1>16 DEF vars, coreVars, hashVars, boundVars, CoreTypes, SetTypes, JobTypes, PanelTypes
<1>17. QED
  BY <1>1, <1>2, <1>3, <1>4, <1>5, <1>6, <1>7, <1>8, <1>9, <1>10, <1>11, <1>12, <1>13, <1>14, <1>15, <1>16
  DEF Next, Handler

-----------------------------------------------------------------------------
(***************************************************************************)
(* The inductive invariant.                                                *)
(***************************************************************************)
Removing == {"remove", "removing", "untrack"}
Adding == {"add", "adding", "track"}
Tracked(t, u, v) == hashes[t] # None /\ <<u, v>> \in hashes[t]

\* The users that goroutine p has still to see to, and those it is done with.
Ahead(p) == job[p].left \cup (IF job[p].pc \in {"tags", "list"} \cup Removing THEN {job[p].user} ELSE {})
Done(p) ==
  IF job[p].pc = "answer" THEN job[p].batch
  ELSE (job[p].batch \ job[p].left) \ (IF job[p].pc \in Resting THEN {} ELSE {job[p].user})

\* Requests that share a user tear it.
JobsApart == \A p, q \in Callers : p # q => job[p].batch \cap job[q].batch \subseteq torn

\* What the panel wants is what the last request for a user asks for.  A
\* request counts on nothing the node has not done.
Asked(p) ==
  /\ \A u \in job[p].batch :
       /\ job[p].want[u].version <= db[u].version
       /\ u \notin torn => db[u] = job[p].want[u]
       /\ job[p].kind = "remove" => job[p].want[u].tags = {}
  /\ job[p].pc = "check" => job[p].kind = "remove"
  /\ job[p].ok => ~job[p].failed

\* A start overlaps only requests whose users it knows; the others are in its
\* configuration as the panel wants them.
StartMatches ==
  /\ start.pc = "none" => start = NoStart
  /\ start.pc # "none" => start.dirty \subseteq torn /\ \A p \in Callers : job[p].batch \subseteq start.dirty
  /\ \A e \in start.config :
       /\ e[1] \in Inbounds /\ e[3] <= db[e[2]].version
       /\ e[2] \notin start.dirty => e[3] = db[e[2]].version
  /\ \A e, f \in start.config : e[2] = f[2] => e[3] = f[3]

\* What is tracked is never ahead of the panel.
NotAhead == \A t \in Tags, u \in Users, v \in 0..MaxVersion : Tracked(t, u, v) => v <= db[u].version

\* A new credential is not tracked before the old ones have been removed.
Fresh(p) ==
  \A u \in Ahead(p) \ torn : job[p].prev[u] # db[u].version => \A t \in Tags : ~Tracked(t, u, db[u].version)

\* Where rw-core may still have the user a request is removing, and with
\* which credential it has one that is being added.
RemovedFirst(p) ==
  job[p].user \notin torn =>
    /\ job[p].pc = "untrack" => \A e \in users : ~(e[1] = job[p].tag /\ e[2] = job[p].user)
    /\ job[p].pc = "track" /\ live => <<job[p].tag, job[p].user, job[p].want[job[p].user].version>> \in users
    /\ job[p].pc \in Removing /\ ~job[p].failed =>
         \A e \in users : e[2] = job[p].user => e[1] \in job[p].todo \/ (job[p].pc = "removing" /\ e[1] = job[p].tag)
    /\ job[p].pc \in Adding => \A e \in users : e[2] = job[p].user => e[3] = job[p].want[job[p].user].version

\* Where a request that has not failed has added its user so far.
AddedSoFar(p) ==
  job[p].ok /\ live /\ job[p].pc \in Adding /\ job[p].user \notin torn =>
    /\ job[p].todo \subseteq job[p].want[job[p].user].tags
    /\ job[p].pc = "adding" => job[p].tag \in job[p].want[job[p].user].tags \ job[p].todo
    /\ \A t \in Tags :
         <<t, job[p].user, job[p].want[job[p].user].version>> \in users <=>
           /\ t \in Inbounds \cap job[p].want[job[p].user].tags
           /\ t \notin job[p].todo /\ ~(job[p].pc = "adding" /\ t = job[p].tag)

\* The users a request that has not failed is done with are as it wants them.
BatchDone(p) ==
  job[p].ok /\ live =>
    \A u \in Done(p) \ torn : users \cap EntriesOf(u) = Config(job[p].want) \cap EntriesOf(u)

\* The converse of UsersTracked, for the panel's credential.
TrackedInCore ==
  live => \A t \in Tags, u \in Users \ torn : Tracked(t, u, db[u].version) =>
    \/ <<t, u, db[u].version>> \in users
    \/ \E p \in Callers : job[p].pc = "untrack" /\ job[p].tag = t /\ job[p].user = u

\* A start that is about to publish, or has, a configuration for a core.
SwapMatches ==
  /\ start.pc = "spawn" => \A t \in Tags, u \in Users \ start.dirty, v \in 0..MaxVersion :
       Tracked(t, u, v) <=> <<t, u, v>> \in start.config
  /\ start.pc = "skip" =>
       /\ \A e \in users : e[2] \notin torn => e \in start.config
       /\ live => \A e \in start.config : e[2] \notin torn => e \in users

JobInv(p) == Asked(p) /\ Fresh(p) /\ RemovedFirst(p) /\ AddedSoFar(p) /\ BatchDone(p)

IInv ==
  /\ UTypes
  /\ JobsApart /\ StartMatches /\ NotAhead /\ TrackedInCore /\ SwapMatches
  /\ TrackedIsListed /\ UsersTracked /\ OneCredential
  /\ \A p \in Callers : JobInv(p)
-----------------------------------------------------------------------------
(***************************************************************************)
(* What each step of a request does, field by field.                       *)
(***************************************************************************)

\* The fields that the loops leave alone, and where they go.
LEMMA ContinueFacts ==
  ASSUME NEW j, JobOK(j), NEW c, c = Continue(j)
  PROVE  /\ c.batch = j.batch /\ c.left = j.left /\ c.user = j.user /\ c.want = j.want
         /\ c.prev = j.prev /\ c.kind = j.kind /\ c.tag = j.tag /\ c.failed = j.failed /\ c.ok = j.ok
         /\ j.pc = "affected" => c.pc \in {"affected", "next"}
         /\ j.pc = "tags" => c.pc \in {"tags", "list"}
         /\ j.pc = "remove" =>
              \/ c.pc = "remove" /\ c.todo = j.todo
              \/ j.todo = {} /\ c.pc = "add" /\ c.todo = j.want[j.user].tags /\ ~j.failed
              \/ /\ j.todo = {} /\ c.pc \in {"next", "answer"} /\ (j.kind = "remove" \/ j.failed)
                 /\ c.pc = "answer" => j.left = {}
         /\ j.pc = "add" =>
              \/ c.pc = "add" /\ c.todo = j.todo
              \/ j.todo = {} /\ c.pc \in {"next", "answer"} /\ (c.pc = "answer" => j.left = {})
<1> USE DEF JobOK, Jobs
<1>1. CASE j.pc = "affected" /\ j.todo = {}
  BY <1>1 DEF Continue
<1>2. CASE j.pc = "tags" /\ j.todo = {}
  BY <1>2 DEF Continue
<1>3. CASE j.pc = "remove" /\ j.todo = {} /\ j.kind = "add" /\ ~j.failed
  <2>1. Continue(j) = [j EXCEPT !.pc = "add", !.todo = j.want[j.user].tags]
    BY <1>3 DEF Continue
  <2>2. QED
    BY <1>3, <2>1
<1>4. CASE \/ j.pc = "remove" /\ j.todo = {} /\ (j.kind = "remove" \/ j.failed)
           \/ j.pc = "add" /\ j.todo = {}
  <2>1. Continue(j) = [j EXCEPT !.pc = IF j.left = {} THEN "answer" ELSE "next"]
    BY <1>4 DEF Continue
  <2>2. QED
    BY <1>4, <2>1
<1>5. CASE /\ ~(j.pc = "affected" /\ j.todo = {})
           /\ ~(j.pc = "tags" /\ j.todo = {})
           /\ ~(j.pc = "remove" /\ j.todo = {} /\ j.kind = "add" /\ ~j.failed)
           /\ ~(\/ j.pc = "remove" /\ j.todo = {} /\ (j.kind = "remove" \/ j.failed)
                \/ j.pc = "add" /\ j.todo = {})
  <2>1. Continue(j) = j
    BY <1>5 DEF Continue
  <2>2. QED
    BY <1>5, <2>1
<1>6. QED
  BY <1>1, <1>2, <1>3, <1>4, <1>5

\* What a request says of its users stays as it was sent.
SameRequest(p) ==
  /\ job'[p].batch = job[p].batch /\ job'[p].want = job[p].want
  /\ job'[p].prev = job[p].prev /\ job'[p].kind = job[p].kind

SameUser(p) == SameRequest(p) /\ job'[p].left = job[p].left /\ job'[p].user = job[p].user

SameResult(p) == job'[p].failed = job[p].failed /\ job'[p].ok = job[p].ok

\* The user of a request is done with.
EndsUser(p) == job'[p].pc \in {"next", "answer"} /\ (job'[p].pc = "answer" => job[p].left = {})

\* AddInboundTag, one tag at a time, before the users or for one of them.
LEMMA AddInboundTagFacts ==
  ASSUME UTypes, NEW p \in Callers, AddInboundTag(p)
  PROVE  /\ SameUser(p) /\ SameResult(p) /\ job'[p].tag = job[p].tag
         /\ \/ job[p].pc = "affected" /\ job'[p].pc \in {"affected", "next"}
            \/ job[p].pc = "tags" /\ job'[p].pc \in {"tags", "list"}
<1>1. PICK t \in job[p].todo : job' = [job EXCEPT ![p] = Continue([job[p] EXCEPT !.todo = @ \ {t}])]
  BY DEF AddInboundTag
<1> DEFINE j == [job[p] EXCEPT !.todo = @ \ {t}]
<1>2. JobOK(j)
  BY DEF UTypes, JobTypes, JobOK, Jobs
<1>3. job'[p] = Continue(j)
  BY <1>1 DEF UTypes, JobTypes
<1>4. /\ j.batch = job[p].batch /\ j.left = job[p].left /\ j.user = job[p].user /\ j.want = job[p].want
      /\ j.prev = job[p].prev /\ j.kind = job[p].kind /\ j.tag = job[p].tag /\ j.failed = job[p].failed
      /\ j.ok = job[p].ok /\ j.pc = job[p].pc
  BY DEF UTypes, JobTypes, Jobs
<1>5. job[p].pc \in {"affected", "tags"}
  BY DEF AddInboundTag
<1> HIDE DEF j
<1>6. QED
  BY <1>2, <1>3, <1>4, <1>5, ContinueFacts DEF SameUser, SameRequest, SameResult

\* The next user of the batch.
LEMMA NextUserFacts ==
  ASSUME UTypes, NEW p \in Callers, NextUser(p)
  PROVE  /\ SameRequest(p) /\ job'[p].ok = job[p].ok /\ job'[p].failed = FALSE
         /\ job[p].pc = "next" /\ job'[p].pc \in {"tags", "list"}
         /\ \E u \in job[p].left : job'[p].user = u /\ job'[p].left = job[p].left \ {u}
<1>1. PICK u \in job[p].left :
        job' = [job EXCEPT ![p] = [job[p] EXCEPT !.user = u, !.left = @ \ {u}, !.failed = FALSE,
                                     !.pc = IF job[p].kind = "add" THEN "tags" ELSE "list",
                                     !.todo = job[p].want[u].tags]]
  BY DEF NextUser
<1>2. job'[p] = [job[p] EXCEPT !.user = u, !.left = @ \ {u}, !.failed = FALSE,
                               !.pc = IF job[p].kind = "add" THEN "tags" ELSE "list",
                               !.todo = job[p].want[u].tags]
  BY <1>1 DEF UTypes, JobTypes
<1>3. job[p].pc = "next"
  BY DEF NextUser
<1>4. QED
  BY <1>2, <1>3 DEF UTypes, JobTypes, Jobs, SameRequest

\* A removal that finds no tags is answered.
LEMMA CheckTagsFacts ==
  ASSUME UTypes, NEW p \in Callers, CheckTags(p)
  PROVE  /\ SameUser(p) /\ SameResult(p)
         /\ job[p].pc = "check" /\ job'[p].pc = IF tags = {} THEN "answer" ELSE "next"
<1>1. job'[p] = [job[p] EXCEPT !.pc = IF tags = {} THEN "answer" ELSE "next"]
  BY DEF CheckTags, UTypes, JobTypes
<1>2. job[p].pc = "check"
  BY DEF CheckTags
<1>3. QED
  BY <1>1, <1>2 DEF UTypes, JobTypes, Jobs, SameUser, SameRequest, SameResult

\* InboundTags: the removals to make, or the first addition if there are none.
LEMMA ListTagsFacts ==
  ASSUME UTypes, NEW p \in Callers, ListTags(p)
  PROVE  /\ SameUser(p) /\ SameResult(p) /\ job[p].pc = "list"
         /\ \/ job'[p].pc = "remove" /\ job'[p].todo = tags
            \/ tags = {} /\ job'[p].pc = "add" /\ job'[p].todo = job[p].want[job[p].user].tags
            \/ tags = {} /\ EndsUser(p) /\ (job[p].kind = "remove" \/ job[p].failed)
<1> DEFINE j == [job[p] EXCEPT !.pc = "remove", !.todo = tags]
<1>1. job[p].pc = "list" /\ job'[p] = Continue(j)
  BY DEF ListTags, UTypes, JobTypes
<1>2. JobOK(j)
  BY <1>1, JobMoves, ConstantsAssumption DEF UTypes, JobTypes, SetTypes
<1>3. /\ j.batch = job[p].batch /\ j.left = job[p].left /\ j.user = job[p].user /\ j.want = job[p].want
      /\ j.prev = job[p].prev /\ j.kind = job[p].kind /\ j.failed = job[p].failed
      /\ j.ok = job[p].ok /\ j.pc = "remove" /\ j.todo = tags
  BY DEF UTypes, JobTypes, Jobs
<1> HIDE DEF j
<1>4. QED
  BY <1>1, <1>2, <1>3, ContinueFacts DEF SameUser, SameRequest, SameResult, EndsUser

\* A call is about to be made, or has failed for want of a core.
LEMMA HandlerAPIFacts ==
  ASSUME UTypes, NEW p \in Callers, HandlerAPI(p)
  PROVE  /\ SameUser(p) /\ job[p].pc \in {"remove", "add"}
         /\ \/ /\ SameResult(p) /\ job'[p].tag \in job[p].todo /\ job'[p].todo = job[p].todo \ {job'[p].tag}
               /\ job'[p].pc = IF job[p].pc = "add" THEN "adding" ELSE "removing"
            \/ /\ ~job'[p].ok /\ job'[p].failed
               /\ EndsUser(p) \/ job'[p].pc = job[p].pc
<1>1. PICK t \in job[p].todo : job' = [job EXCEPT ![p] =
        IF xrayOnline
          THEN [job[p] EXCEPT !.pc = IF @ = "add" THEN "adding" ELSE "removing", !.tag = t, !.todo = @ \ {t}]
          ELSE Continue([job[p] EXCEPT !.failed = TRUE, !.ok = FALSE, !.todo = @ \ {t}])]
  BY DEF HandlerAPI
<1>2. job[p].pc \in {"remove", "add"}
  BY DEF HandlerAPI
<1>3. CASE xrayOnline
  <2>1. job'[p] = [job[p] EXCEPT !.pc = IF @ = "add" THEN "adding" ELSE "removing", !.tag = t, !.todo = @ \ {t}]
    BY <1>1, <1>3 DEF UTypes, JobTypes
  <2>2. QED
    BY <1>2, <2>1 DEF UTypes, JobTypes, Jobs, SameUser, SameRequest, SameResult
<1>4. CASE ~xrayOnline
  <2> DEFINE j == [job[p] EXCEPT !.failed = TRUE, !.ok = FALSE, !.todo = @ \ {t}]
  <2>1. job'[p] = Continue(j)
    BY <1>1, <1>4 DEF UTypes, JobTypes
  <2>2. JobOK(j)
    BY DEF UTypes, JobTypes, JobOK, Jobs
  <2>3. /\ j.batch = job[p].batch /\ j.left = job[p].left /\ j.user = job[p].user /\ j.want = job[p].want
        /\ j.prev = job[p].prev /\ j.kind = job[p].kind /\ j.failed = TRUE
        /\ j.ok = FALSE /\ j.pc = job[p].pc
    BY DEF UTypes, JobTypes, Jobs
  <2> HIDE DEF j
  <2>4. QED
    BY <1>2, <2>1, <2>2, <2>3, ContinueFacts DEF SameUser, SameRequest, EndsUser
<1>5. QED
  BY <1>3, <1>4

\* A failed call is remembered, and what is left of the user's calls goes on.
LEMMA AfterFailureFacts ==
  ASSUME NEW j, JobOK(j), j.pc \in Called, NEW pc \in {"remove", "add"}, NEW c, c = AfterFailure(j, pc)
  PROVE  /\ c.batch = j.batch /\ c.left = j.left /\ c.user = j.user /\ c.want = j.want
         /\ c.prev = j.prev /\ c.kind = j.kind /\ c.failed /\ ~c.ok
         /\ c.pc = pc \/ (c.pc \in {"next", "answer"} /\ (c.pc = "answer" => j.left = {}))
<1> DEFINE k == [j EXCEPT !.pc = pc, !.tag = None, !.failed = TRUE, !.ok = FALSE]
<1>1. JobOK(k)
  BY DEF JobOK, Jobs, Labels, Called, Resting
<1>2. /\ k.batch = j.batch /\ k.left = j.left /\ k.user = j.user /\ k.want = j.want
      /\ k.prev = j.prev /\ k.kind = j.kind /\ k.failed = TRUE /\ k.ok = FALSE /\ k.pc = pc
  BY DEF JobOK, Jobs
<1>3. c = Continue(k)
  BY DEF AfterFailure
<1> HIDE DEF k
<1>4. QED
  BY <1>1, <1>2, <1>3, ContinueFacts

\* A removal reported as done is followed by the update of the sets; one
\* reported as failed tears the user if it was carried out.
LEMMA RemoveUserFacts ==
  ASSUME UTypes, NEW p \in Callers, RemoveUser(p)
  PROVE  /\ SameUser(p) /\ job[p].pc = "removing"
         /\ \/ /\ SameResult(p) /\ live /\ torn' = torn
               /\ users' = users \ {e \in EntriesOf(job[p].user) : e[1] = job[p].tag}
               /\ job'[p].pc = "untrack" /\ job'[p].tag = job[p].tag /\ job'[p].todo = job[p].todo
            \/ /\ ~job'[p].ok /\ job'[p].failed
               /\ EndsUser(p) \/ job'[p].pc = "remove"
               /\ (users' = users /\ torn' = torn) \/ (users' \subseteq users /\ torn' = torn \cup {job[p].user})
         /\ \A e \in users \ users' : e[2] = job[p].user
<1>1. job[p].pc = "removing"
  BY DEF RemoveUser
<1>2. CASE job' = [job EXCEPT ![p].pc = "untrack"] /\ Succeeds(users \ {e \in EntriesOf(job[p].user) : e[1] = job[p].tag})
  <2>1. job'[p] = [job[p] EXCEPT !.pc = "untrack"]
    BY <1>2 DEF UTypes, JobTypes
  <2>2. /\ SameUser(p) /\ SameResult(p)
        /\ job'[p].pc = "untrack" /\ job'[p].tag = job[p].tag /\ job'[p].todo = job[p].todo
    BY <2>1 DEF UTypes, JobTypes, Jobs, SameUser, SameRequest, SameResult
  <2>3. QED
    BY <1>1, <1>2, <2>2 DEF Succeeds, EntriesOf
<1>3. CASE /\ job' = [job EXCEPT ![p] = AfterFailure(job[p], "remove")]
           /\ Fails(job[p].user, users \ {e \in EntriesOf(job[p].user) : e[1] = job[p].tag})
  <2>1. job'[p] = AfterFailure(job[p], "remove") /\ JobOK(job[p])
    BY <1>3 DEF UTypes, JobTypes
  <2>2. SameUser(p) /\ ~job'[p].ok /\ job'[p].failed /\ (EndsUser(p) \/ job'[p].pc = "remove")
    BY <1>1, <2>1, AfterFailureFacts DEF SameUser, SameRequest, EndsUser, Called
  <2>3. QED
    BY <1>1, <1>3, <2>2 DEF Fails, EntriesOf
<1>4. QED
  BY <1>2, <1>3 DEF RemoveUser, UTypes, JobTypes

\* After the update of the sets: the next removal, the additions, or the next user.
LEMMA UntrackFacts ==
  ASSUME UTypes, NEW p \in Callers, RemoveUserFromInboundHash(p)
  PROVE  /\ SameUser(p) /\ SameResult(p) /\ job[p].pc = "untrack"
         /\ \/ job'[p].pc = "remove" /\ job'[p].todo = job[p].todo
            \/ /\ job[p].todo = {} /\ job'[p].pc = "add" /\ job'[p].todo = job[p].want[job[p].user].tags
               /\ ~job[p].failed
            \/ job[p].todo = {} /\ EndsUser(p) /\ (job[p].kind = "remove" \/ job[p].failed)
<1> DEFINE j == [job[p] EXCEPT !.pc = "remove", !.tag = None]
<1>1. job[p].pc = "untrack" /\ job'[p] = Continue(j)
  BY DEF RemoveUserFromInboundHash, UTypes, JobTypes
<1>2. JobOK(j)
  BY <1>1, JobMoves, ConstantsAssumption DEF UTypes, JobTypes, Called
<1>3. /\ j.batch = job[p].batch /\ j.left = job[p].left /\ j.user = job[p].user /\ j.want = job[p].want
      /\ j.prev = job[p].prev /\ j.kind = job[p].kind /\ j.failed = job[p].failed
      /\ j.ok = job[p].ok /\ j.pc = "remove" /\ j.todo = job[p].todo
  BY DEF UTypes, JobTypes, Jobs
<1> HIDE DEF j
<1>4. QED
  BY <1>1, <1>2, <1>3, ContinueFacts DEF SameUser, SameRequest, SameResult, EndsUser

\* An addition reported as done put the user at the tag; one reported as
\* failed tears the user if it was carried out.
LEMMA AddUserFacts ==
  ASSUME UTypes, NEW p \in Callers, AddUser(p)
  PROVE  /\ SameUser(p) /\ job[p].pc = "adding"
         /\ LET e == <<job[p].tag, job[p].user, job[p].want[job[p].user].version>> IN
            \/ /\ SameResult(p) /\ live /\ torn' = torn /\ users' = users \cup {e} /\ job[p].tag \in Inbounds
               /\ job'[p].pc = "track" /\ job'[p].tag = job[p].tag /\ job'[p].todo = job[p].todo
            \/ /\ ~job'[p].ok /\ job'[p].failed
               /\ EndsUser(p) \/ job'[p].pc = "add"
               /\ \/ users' = users /\ torn' = torn
                  \/ live /\ users' = users \cup {e} /\ torn' = torn \cup {job[p].user}
<1> DEFINE e == <<job[p].tag, job[p].user, job[p].want[job[p].user].version>>
<1>1. job[p].pc = "adding"
  BY DEF AddUser
<1>2. CASE job' = [job EXCEPT ![p].pc = "track"] /\ Succeeds(users \cup {e}) /\ job[p].tag \in Inbounds
  <2>1. job'[p] = [job[p] EXCEPT !.pc = "track"]
    BY <1>2 DEF UTypes, JobTypes
  <2>2. /\ SameUser(p) /\ SameResult(p)
        /\ job'[p].pc = "track" /\ job'[p].tag = job[p].tag /\ job'[p].todo = job[p].todo
    BY <2>1 DEF UTypes, JobTypes, Jobs, SameUser, SameRequest, SameResult
  <2>3. QED
    BY <1>1, <1>2, <2>2 DEF Succeeds
<1>3. CASE /\ job' = [job EXCEPT ![p] = AfterFailure(job[p], "add")]
           /\ UNCHANGED <<users, torn>> \/ Fails(job[p].user, users \cup {e})
  <2>1. job'[p] = AfterFailure(job[p], "add") /\ JobOK(job[p])
    BY <1>3 DEF UTypes, JobTypes
  <2>2. SameUser(p) /\ ~job'[p].ok /\ job'[p].failed /\ (EndsUser(p) \/ job'[p].pc = "add")
    BY <1>1, <2>1, AfterFailureFacts DEF SameUser, SameRequest, EndsUser, Called
  <2>3. QED
    BY <1>1, <1>3, <2>2 DEF Fails
<1>4. QED
  BY <1>2, <1>3 DEF AddUser, UTypes, JobTypes

\* After the update of the sets: the next addition or the next user.
LEMMA TrackFacts ==
  ASSUME UTypes, NEW p \in Callers, AddUserToInboundHash(p)
  PROVE  /\ SameUser(p) /\ SameResult(p) /\ job[p].pc = "track"
         /\ \/ job'[p].pc = "add" /\ job'[p].todo = job[p].todo
            \/ job[p].todo = {} /\ EndsUser(p)
<1> DEFINE j == [job[p] EXCEPT !.pc = "add", !.tag = None]
<1>1. job[p].pc = "track" /\ job'[p] = Continue(j)
  BY DEF AddUserToInboundHash, UTypes, JobTypes
<1>2. JobOK(j)
  BY <1>1, JobMoves, ConstantsAssumption DEF UTypes, JobTypes, Called
<1>3. /\ j.batch = job[p].batch /\ j.left = job[p].left /\ j.user = job[p].user /\ j.want = job[p].want
      /\ j.prev = job[p].prev /\ j.kind = job[p].kind /\ j.failed = job[p].failed
      /\ j.ok = job[p].ok /\ j.pc = "add" /\ j.todo = job[p].todo
  BY DEF UTypes, JobTypes, Jobs
<1> HIDE DEF j
<1>4. QED
  BY <1>1, <1>2, <1>3, ContinueFacts DEF SameUser, SameRequest, SameResult, EndsUser

\* A request for which the panel has just sent what it wants.
NewRequest(p) ==
  /\ job[p].pc = "idle" /\ \A q \in Callers \ {p} : job'[q] = job[q]
  /\ UNCHANGED <<coreVars, hashVars>>
  /\ job'[p].pc \in {"affected", "check"} /\ job'[p].left = job'[p].batch
  /\ job'[p].pc = "check" => job'[p].kind = "remove"
  /\ job'[p].user = None /\ job'[p].batch \subseteq Users /\ ~job'[p].failed
  /\ \A u \in Users : db[u].version <= db'[u].version
  /\ \A u \in Users \ job'[p].batch : db'[u] = db[u]
  /\ \A u \in job'[p].batch :
       /\ db'[u] = job'[p].want[u] /\ job'[p].prev[u] = db[u].version
       /\ job'[p].kind = "remove" => job'[p].want[u].tags = {}
  /\ torn' = torn \cup {u \in job'[p].batch : Busy(u) \/ start # NoStart}
  /\ start' = IF start = NoStart THEN NoStart ELSE [start EXCEPT !.dirty = @ \cup job'[p].batch]

\* What Send does, for any wish of the panel that takes back no credential.
LEMMA SendFacts ==
  ASSUME UTypes, NEW p \in Callers, NEW kind \in {"add", "remove"}, NEW batch \in SUBSET Users, NEW STATE want,
         Send(p, kind, batch, want), \A u \in Users : db[u].version <= want[u].version,
         kind = "remove" => \A u \in batch : want[u].tags = {}
  PROVE  NewRequest(p)
<1>1. job'[p] = [Idle EXCEPT
        !.pc = IF kind = "add" THEN "affected" ELSE "check",
        !.kind = kind, !.batch = batch, !.left = batch, !.want = want,
        !.prev = [u \in Users |-> db[u].version],
        !.todo = UNION {want[u].tags : u \in batch}]
  BY DEF Send, UTypes, JobTypes
<1>2. /\ job'[p].pc = (IF kind = "add" THEN "affected" ELSE "check")
      /\ job'[p].left = batch /\ job'[p].batch = batch
      /\ job'[p].user = None /\ job'[p].want = want /\ job'[p].kind = kind /\ ~job'[p].failed
      /\ job'[p].prev = [u \in Users |-> db[u].version]
  BY <1>1 DEF Idle
<1>3. \A q \in Callers \ {p} : job'[q] = job[q]
  BY DEF Send, UTypes, JobTypes
<1>4. db' = [u \in Users |-> IF u \in batch THEN want[u] ELSE db[u]]
  BY DEF Send
<1>5. \A u \in Users : db[u].version <= db'[u].version
  BY <1>4 DEF UTypes, PanelTypes, Profiles
<1>6. /\ \A u \in Users \ batch : db'[u] = db[u]
      /\ \A u \in batch : db'[u] = want[u] /\ job'[p].prev[u] = db[u].version
  BY <1>2, <1>4
<1>7. /\ job[p].pc = "idle" /\ UNCHANGED <<coreVars, hashVars>>
      /\ torn' = torn \cup {u \in batch : Busy(u) \/ start # NoStart}
      /\ start' = IF start = NoStart THEN NoStart ELSE [start EXCEPT !.dirty = @ \cup batch]
  BY DEF Send
<1>8. job'[p].kind = "remove" => \A u \in batch : job'[p].want[u].tags = {}
  BY <1>2
<1>9. QED
  BY <1>2, <1>3, <1>5, <1>6, <1>7, <1>8 DEF NewRequest

\* Both kinds of request are new requests in that sense.
LEMMA PanelFacts ==
  ASSUME UTypes, NEW p \in Callers, SendAdd(p) \/ SendRemove(p)
  PROVE  NewRequest(p)
<1>1. \A u \in Users : db[u].version \in Nat
  BY ConstantsAssumption DEF UTypes, PanelTypes, Profiles
<1>2. CASE SendAdd(p)
  <2>1. PICK batch \in Batches, new \in SUBSET Users, where \in (SUBSET Tags) \ {{}} :
          Send(p, "add", batch,
               [u \in Users |-> IF u \in batch
                  THEN [version |-> db[u].version + (IF u \in new THEN 1 ELSE 0), tags |-> where]
                  ELSE db[u]])
    BY <1>2 DEF SendAdd
  <2> DEFINE want == [u \in Users |-> IF u \in batch
                  THEN [version |-> db[u].version + (IF u \in new THEN 1 ELSE 0), tags |-> where]
                  ELSE db[u]]
  <2>2. \A u \in Users : db[u].version <= want[u].version
    BY <1>1
  <2>3. batch \in SUBSET Users
    BY DEF Batches
  <2>4. Send(p, "add", batch, want)
    BY <2>1
  <2> HIDE DEF want
  <2>5. QED
    BY <2>2, <2>3, <2>4, SendFacts
<1>3. CASE SendRemove(p)
  <2>1. PICK batch \in Batches :
          Send(p, "remove", batch, [u \in Users |-> IF u \in batch THEN [db[u] EXCEPT !.tags = {}] ELSE db[u]])
    BY <1>3 DEF SendRemove
  <2> DEFINE want == [u \in Users |-> IF u \in batch THEN [db[u] EXCEPT !.tags = {}] ELSE db[u]]
  <2>2. \A u \in Users : db[u].version <= want[u].version
    BY <1>1 DEF UTypes, PanelTypes, Profiles
  <2>3. batch \in SUBSET Users
    BY DEF Batches
  <2>4. \A u \in batch : want[u].tags = {}
    BY <2>3 DEF UTypes, PanelTypes, Profiles
  <2>5. Send(p, "remove", batch, want)
    BY <2>1
  <2> HIDE DEF want
  <2>6. QED
    BY <2>2, <2>3, <2>4, <2>5, SendFacts
<1>4. QED
  BY <1>2, <1>3
\* A request works on one user at a time: the others, and what the node and
\* the panel know of them, are not touched.
LEMMA HandlerFrame ==
  ASSUME UTypes, NEW p \in Callers, Handler(p)
  PROVE  /\ \A q \in Callers \ {p} : job'[q] = job[q]
         /\ UNCHANGED <<live, xrayOnline, start, db, known>>
         /\ torn \subseteq torn' /\ torn' \subseteq torn \cup {job[p].user}
         /\ \A e : e[2] # job[p].user => (e \in users' <=> e \in users)
         /\ \A t \in Tags, u \in Users, v \in 0..MaxVersion :
              u # job[p].user => (Tracked(t, u, v)' <=> Tracked(t, u, v))
         /\ users' # users => live
<1>1. \A q \in Callers \ {p} : job'[q] = job[q]
  BY DEF Handler, CheckTags, NextUser, AddInboundTag, ListTags, HandlerAPI, RemoveUser,
         RemoveUserFromInboundHash, AddUser, AddUserToInboundHash, Answer, UTypes, JobTypes
<1>2. UNCHANGED <<live, xrayOnline, start, db, known>>
  BY DEF Handler, CheckTags, NextUser, AddInboundTag, ListTags, HandlerAPI, RemoveUser,
         RemoveUserFromInboundHash, AddUser, AddUserToInboundHash, Answer, coreVars, hashVars
<1>3. CASE RemoveUser(p) \/ AddUser(p)
  <2>1. torn \subseteq torn' /\ torn' \subseteq torn \cup {job[p].user}
    BY <1>3 DEF RemoveUser, AddUser, Succeeds, Fails
  <2>2. \A e : e[2] # job[p].user => (e \in users' <=> e \in users)
    BY <1>3 DEF RemoveUser, AddUser, Succeeds, Fails, EntriesOf
  <2>3. users' # users => live
    BY <1>3 DEF RemoveUser, AddUser, Succeeds, Fails
  <2>4. hashes' = hashes
    BY <1>3 DEF RemoveUser, AddUser, hashVars
  <2>5. QED
    BY <1>1, <1>2, <2>1, <2>2, <2>3, <2>4 DEF Tracked
<1>4. CASE ~(RemoveUser(p) \/ AddUser(p))
  <2>1. users' = users /\ torn' = torn
    BY <1>4 DEF Handler, CheckTags, NextUser, AddInboundTag, ListTags, HandlerAPI,
         RemoveUserFromInboundHash, AddUserToInboundHash, Answer, coreVars
  <2>2. CASE RemoveUserFromInboundHash(p)
    <3>1. job[p].tag \in Tags
      BY <2>2, CalledUser DEF RemoveUserFromInboundHash, UTypes, Called
    <3>2. \A t \in Tags, u \in Users, v \in 0..MaxVersion :
            u # job[p].user => (Tracked(t, u, v)' <=> Tracked(t, u, v))
      BY <2>2, <3>1, ConstantsAssumption DEF RemoveUserFromInboundHash, Untrack, Tracked, UTypes, SetTypes
    <3>3. QED
      BY <1>1, <1>2, <2>1, <3>2
  <2>3. CASE AddUserToInboundHash(p)
    <3>1. /\ job[p].tag \in Tags
          /\ <<job[p].user, job[p].want[job[p].user].version>> \in Credentials
      BY <2>3, CalledUser DEF AddUserToInboundHash, UTypes, Called, Credentials
    <3>2. \A t \in Tags, u \in Users, v \in 0..MaxVersion :
            u # job[p].user => (Tracked(t, u, v)' <=> Tracked(t, u, v))
      BY <2>3, <3>1, ConstantsAssumption DEF AddUserToInboundHash, Track, Tracked, UTypes, SetTypes
    <3>3. QED
      BY <1>1, <1>2, <2>1, <3>2
  <2>4. CASE ~(RemoveUserFromInboundHash(p) \/ AddUserToInboundHash(p))
    <3>1. hashes' = hashes
      BY <1>4, <2>4 DEF Handler, CheckTags, NextUser, AddInboundTag, ListTags, HandlerAPI, Answer, hashVars
    <3>2. QED
      BY <1>1, <1>2, <2>1, <3>1 DEF Tracked
  <2>5. QED
    BY <2>2, <2>3, <2>4
<1>5. QED
  BY <1>3, <1>4

\* What a request does to the credentials of its own user.
LEMMA OwnCredentials ==
  ASSUME UTypes, NEW p \in Callers, Handler(p), NEW t \in Tags, NEW v \in 0..MaxVersion,
         NEW u \in Users, u = job[p].user
  PROVE  /\ AddUserToInboundHash(p) =>
              (Tracked(t, u, v)' <=>
                 \/ Tracked(t, u, v)
                 \/ t = job[p].tag /\ v = job[p].want[job[p].user].version)
         /\ RemoveUserFromInboundHash(p) =>
              (Tracked(t, u, v)' <=>
                 /\ Tracked(t, u, v)
                 /\ ~(t = job[p].tag /\ v = job[p].prev[job[p].user]))
         /\ ~(RemoveUserFromInboundHash(p) \/ AddUserToInboundHash(p)) =>
              (Tracked(t, u, v)' <=> Tracked(t, u, v))
<1>1. CASE AddUserToInboundHash(p)
  <2>1. /\ job[p].tag \in Tags
        /\ <<job[p].user, job[p].want[job[p].user].version>> \in Credentials
        /\ job[p].pc = "track"
    BY <1>1, CalledUser DEF AddUserToInboundHash, UTypes, Called, Credentials
  <2>2. ~RemoveUserFromInboundHash(p)
    BY <2>1 DEF RemoveUserFromInboundHash
  <2>3. hashes' = [hashes EXCEPT ![job[p].tag] =
          IF @ = None THEN {<<job[p].user, job[p].want[job[p].user].version>>}
                      ELSE @ \cup {<<job[p].user, job[p].want[job[p].user].version>>}]
    BY <1>1 DEF AddUserToInboundHash, Track
  <2>4. Tracked(t, u, v)' <=>
          Tracked(t, u, v) \/ (t = job[p].tag /\ v = job[p].want[job[p].user].version)
    <3>2. CASE t = job[p].tag
      BY <2>1, <2>3, <3>2, ConstantsAssumption DEF Tracked, UTypes, SetTypes
    <3>3. CASE t # job[p].tag
      BY <2>1, <2>3, <3>3 DEF Tracked, UTypes, SetTypes
    <3>4. QED
      BY <3>2, <3>3
  <2>5. QED
    BY <1>1, <2>2, <2>4
<1>2. CASE RemoveUserFromInboundHash(p)
  <2>1. job[p].tag \in Tags /\ job[p].pc = "untrack"
    BY <1>2, CalledUser DEF RemoveUserFromInboundHash, UTypes, Called
  <2>2. ~AddUserToInboundHash(p)
    BY <2>1 DEF AddUserToInboundHash
  <2>3. Tracked(t, u, v)' <=>
          Tracked(t, u, v) /\ ~(t = job[p].tag /\ v = job[p].prev[job[p].user])
    <3>2. CASE hashes[job[p].tag] = None
      BY <1>2, <2>1, <3>2 DEF RemoveUserFromInboundHash, Untrack, Tracked
    <3>3. CASE hashes[job[p].tag] # None
      <4> DEFINE rest == hashes[job[p].tag] \ {<<job[p].user, job[p].prev[job[p].user]>>}
      <4>1. hashes' = [hashes EXCEPT ![job[p].tag] = IF rest = {} THEN None ELSE rest]
        BY <1>2, <3>3 DEF RemoveUserFromInboundHash, Untrack
      <4>2. rest # None
        BY <2>1, <3>3, ConstantsAssumption DEF UTypes, SetTypes
      <4>3. QED
        BY <2>1, <3>3, <4>1, <4>2 DEF Tracked, UTypes, SetTypes
    <3>4. QED
      BY <3>2, <3>3
  <2>4. QED
    BY <1>2, <2>2, <2>3
<1>3. CASE ~(RemoveUserFromInboundHash(p) \/ AddUserToInboundHash(p))
  <2>1. hashes' = hashes
    BY <1>3 DEF Handler, CheckTags, NextUser, AddInboundTag, ListTags, HandlerAPI, RemoveUser, AddUser, Answer, hashVars
  <2>2. QED
    BY <1>3, <2>1 DEF Tracked
<1>4. QED
  BY <1>1, <1>2, <1>3

\* The batch of a request is what it was, until it is answered.
LEMMA HandlerRequest ==
  ASSUME UTypes, NEW p \in Callers, Handler(p)
  PROVE  SameRequest(p) \/ (Answer(p) /\ job[p].pc = "answer" /\ job'[p] = Idle)
<1>1. Answer(p) => job[p].pc = "answer" /\ job'[p] = Idle
  BY DEF Answer, UTypes, JobTypes
<1>2. QED
  BY <1>1, CheckTagsFacts, NextUserFacts, AddInboundTagFacts, ListTagsFacts, HandlerAPIFacts, RemoveUserFacts,
     UntrackFacts, AddUserFacts, TrackFacts DEF Handler, SameUser

-----------------------------------------------------------------------------
(***************************************************************************)
(* Steps that a request does not notice: those of the others, of starts    *)
(* and of rw-core.                                                         *)
(***************************************************************************)
CoreStep ==
  \/ SendStart \/ Compare \/ Skip \/ Swap \/ Serve \/ StartFinish \/ StartFail
  \/ Stop \/ CoreExit \/ HealthPoll

\* A start or rw-core changes no request; it publishes the configuration of
\* the start, or forgets everything, or leaves what is tracked alone.
LEMMA CoreFacts ==
  ASSUME CoreStep
  PROVE  /\ UNCHANGED <<job, db>>
         /\ \/ UNCHANGED <<live, users>>
            \/ ~live' /\ users' = {}
            \/ Serve
         /\ torn \subseteq torn' \/ Serve
         /\ \/ UNCHANGED hashes
            \/ Stop /\ hashes' = [t \in Tags |-> None] /\ users' = {}
            \/ /\ Skip \/ (Swap /\ ~live' /\ users' = {})
               /\ start.pc \in {"skip", "swap"} /\ hashes' = Extract(start.config)
<1> USE DEF boundVars, coreVars, hashVars
<1>1. CASE SendStart \/ Compare \/ StartFinish \/ StartFail \/ CoreExit \/ HealthPoll
  BY <1>1 DEF SendStart, Compare, StartFinish, StartFail, CoreExit, HealthPoll
<1>2. CASE Serve
  BY <1>2 DEF Serve
<1>3. CASE Skip \/ Swap
  BY <1>3 DEF Skip, Swap, Publish
<1>4. CASE Stop
  BY <1>4 DEF Stop
<1>5. QED
  BY <1>1, <1>2, <1>3, <1>4 DEF CoreStep

\* What a step leaves of the users of a request, those that are not torn.
Undisturbed(q) ==
  /\ job'[q] = job[q]
  /\ \A u \in job[q].batch : db[u].version <= db'[u].version
  /\ live' => live \/ job[q].batch \subseteq torn'
  /\ \A u \in job[q].batch \ torn' :
       /\ u \notin torn /\ db'[u] = db[u]
       /\ \A e \in users' : e[2] = u => e \in users
       /\ live' => \A e \in users : e[2] = u => e \in users'
       /\ \A t \in Tags, v \in 0..MaxVersion : Tracked(t, u, v)' => Tracked(t, u, v)

\* A start overlaps only torn users; rw-core ends for all of them alike.
LEMMA UndisturbedByCore ==
  ASSUME UTypes, StartMatches, CoreStep, NEW q \in Callers
  PROVE  Undisturbed(q)
<1>1. UNCHANGED <<job, db>>
  BY CoreFacts
<1>2. \A u \in job[q].batch : db[u].version <= db'[u].version
  BY <1>1, ConstantsAssumption DEF UTypes, JobTypes, JobOK, Jobs, PanelTypes, Profiles
<1>3. CASE Serve
  <2>1. job[q].batch \subseteq torn'
    BY <1>3 DEF Serve, StartMatches
  <2>2. QED
    BY <1>1, <1>2, <2>1 DEF Undisturbed
<1>4. CASE ~Serve
  <2>1. torn \subseteq torn' /\ (UNCHANGED <<live, users>> \/ (~live' /\ users' = {}))
    BY <1>4, CoreFacts
  <2>2. ASSUME NEW u \in job[q].batch \ torn', NEW t \in Tags, NEW v \in 0..MaxVersion, Tracked(t, u, v)'
        PROVE  Tracked(t, u, v)
    <3>1. ~(start.pc \in {"skip", "swap"})
      BY <2>1, <2>2 DEF StartMatches
    <3>2. hashes' = hashes \/ hashes' = [s \in Tags |-> None]
      BY <3>1, CoreFacts
    <3>3. QED
      BY <2>2, <3>2 DEF Tracked
  <2>3. QED
    BY <1>1, <1>2, <2>1, <2>2 DEF Undisturbed
<1>5. QED
  BY <1>3, <1>4

\* Requests that do not share a user do not meet.
LEMMA UndisturbedByRequest ==
  ASSUME UTypes, JobsApart, NEW p \in Callers, NEW q \in Callers, p # q, Handler(p)
  PROVE  Undisturbed(q)
<1>1. /\ \A r \in Callers \ {p} : job'[r] = job[r]
      /\ UNCHANGED <<live, db>>
      /\ torn \subseteq torn'
      /\ \A e : e[2] # job[p].user => (e \in users' <=> e \in users)
      /\ \A t \in Tags, u \in Users, v \in 0..MaxVersion :
           u # job[p].user => (Tracked(t, u, v)' <=> Tracked(t, u, v))
  BY HandlerFrame
<1>2. \A u \in job[q].batch : u \in Users /\ db[u].version \in Nat
  BY ConstantsAssumption DEF UTypes, JobTypes, JobOK, Jobs, PanelTypes, Profiles
<1>3. \A u \in job[q].batch \ torn' : u # job[p].user /\ u \notin torn
  BY <1>1, <1>2, ConstantsAssumption DEF UTypes, JobTypes, JobOK, JobsApart
<1>4. QED
  BY <1>1, <1>2, <1>3 DEF Undisturbed

\* A new request for a user of another request tears that user.
LEMMA UndisturbedByPanel ==
  ASSUME UTypes, NEW p \in Callers, NEW q \in Callers, p # q, NewRequest(p)
  PROVE  Undisturbed(q)
<1>1. \A u \in job[q].batch : u \in Users
  BY DEF UTypes, JobTypes, JobOK, Jobs
<1>2. \A u \in job[q].batch \ torn' : u \notin job'[p].batch
  BY DEF NewRequest, Busy
<1>3. hashes' = hashes /\ users' = users /\ live' = live
  BY DEF NewRequest, coreVars, hashVars
<1>4. QED
  BY <1>1, <1>2, <1>3 DEF Undisturbed, NewRequest, Tracked

\* A request that a step does not disturb stays in order.
LEMMA UndisturbedInv ==
  ASSUME UTypes, UTypes', NEW q \in Callers, JobInv(q), Undisturbed(q)
  PROVE  JobInv(q)'
<1> DEFINE u == job[q].user
<1>1. job'[q] = job[q] /\ JobOK(job[q])
  BY DEF Undisturbed, UTypes, JobTypes
<1>2. job[q].pc \notin Resting => u \in job[q].batch
  BY <1>1 DEF JobOK
<1>3. job[q].batch \subseteq Users
  BY <1>1 DEF JobOK, Jobs
<1>4. \A w \in job[q].batch : db[w].version \in 0..MaxVersion /\ db'[w].version \in 0..MaxVersion
  BY <1>3 DEF UTypes, PanelTypes, Profiles
<1>5. Asked(q)'
  <2>1. \A w \in job[q].batch : job[q].want[w].version \in 0..MaxVersion
    BY <1>1, <1>3 DEF JobOK, Jobs, Profiles
  <2>2. \A w \in job[q].batch : job[q].want[w].version <= db'[w].version
    BY <1>4, <2>1, ConstantsAssumption DEF JobInv, Asked, Undisturbed
  <2>3. QED
    BY <1>1, <2>2 DEF JobInv, Asked, Undisturbed
<1>6. Fresh(q)'
  <2>1. Ahead(q)' = Ahead(q)
    BY <1>1 DEF Ahead
  <2>2. Ahead(q) \subseteq job[q].batch
    BY <1>1, <1>2 DEF Ahead, JobOK, Removing, Resting
  <2>3. QED
    BY <1>1, <1>4, <2>1, <2>2 DEF JobInv, Fresh, Undisturbed
<1>7. RemovedFirst(q)'
  <2>1. CASE job[q].pc \in Removing \cup Adding /\ u \notin torn'
    <3>1. u \in job[q].batch
      BY <1>2, <2>1 DEF Removing, Adding, Resting
    <3>2. /\ u \notin torn
          /\ \A e \in users' : e[2] = u => e \in users
          /\ live' => live /\ \A e \in users : e[2] = u => e \in users'
      BY <2>1, <3>1 DEF Undisturbed
    <3>3. QED
      BY <1>1, <3>2 DEF JobInv, RemovedFirst
  <2>2. CASE ~(job[q].pc \in Removing \cup Adding /\ u \notin torn')
    BY <1>1, <2>2 DEF RemovedFirst, Removing, Adding
  <2>3. QED
    BY <2>1, <2>2
<1>8. AddedSoFar(q)'
  <2>1. CASE job[q].pc \in Adding /\ u \notin torn'
    <3>1. u \in job[q].batch
      BY <1>2, <2>1 DEF Adding, Resting
    <3>2. /\ u \notin torn
          /\ live' => live /\ \A e : e[2] = u => (e \in users <=> e \in users')
      BY <2>1, <3>1 DEF Undisturbed
    <3>3. QED
      BY <1>1, <3>2 DEF JobInv, AddedSoFar
  <2>2. CASE ~(job[q].pc \in Adding /\ u \notin torn')
    BY <1>1, <2>2 DEF AddedSoFar
  <2>3. QED
    BY <2>1, <2>2
<1>9. BatchDone(q)'
  <2>1. Done(q)' = Done(q) /\ Done(q) \subseteq job[q].batch
    BY <1>1 DEF Done
  <2>2. ASSUME NEW w \in Done(q) \ torn', live'
        PROVE  live /\ w \notin torn /\ users' \cap EntriesOf(w) = users \cap EntriesOf(w)
    BY <2>1, <2>2 DEF Undisturbed, EntriesOf
  <2>3. QED
    BY <1>1, <2>1, <2>2 DEF JobInv, BatchDone
<1>10. QED
  BY <1>5, <1>6, <1>7, <1>8, <1>9 DEF JobInv

-----------------------------------------------------------------------------
(***************************************************************************)
(* The steps of a request itself.                                          *)
(***************************************************************************)

\* A new request is in order: nothing has been done for its users.
LEMMA NewRequestInv ==
  ASSUME UTypes, UTypes', NotAhead, NEW p \in Callers, NewRequest(p)
  PROVE  JobInv(p)'
<1>1. \A u \in job'[p].batch :
        /\ u \in Users /\ db[u].version \in 0..MaxVersion /\ db'[u].version \in 0..MaxVersion
        /\ db[u].version <= db'[u].version /\ db'[u] = job'[p].want[u]
  BY DEF NewRequest, UTypes, PanelTypes, Profiles
<1>2. Asked(p)'
  BY <1>1, ConstantsAssumption DEF NewRequest, Asked
<1>3. Fresh(p)'
  <2>1. SUFFICES ASSUME NEW u \in job'[p].batch, NEW t \in Tags,
                        job'[p].prev[u] # db'[u].version, Tracked(t, u, db'[u].version)
                 PROVE  FALSE
    BY DEF Fresh, Ahead, NewRequest, Removing, Tracked, hashVars
  <2>2. db'[u].version <= db[u].version
    BY <1>1, <2>1 DEF NotAhead
  <2>3. QED
    BY <1>1, <2>1, <2>2, ConstantsAssumption DEF NewRequest
<1>4. RemovedFirst(p)' /\ AddedSoFar(p)'
  BY DEF NewRequest, RemovedFirst, AddedSoFar, Removing, Adding
<1>5. BatchDone(p)'
  BY DEF NewRequest, BatchDone, Done
<1>6. QED
  BY <1>2, <1>3, <1>4, <1>5 DEF JobInv

\* So is a goroutine whose request is answered.
LEMMA AnsweredInv ==
  ASSUME NEW p \in Callers, job'[p] = Idle
  PROVE  JobInv(p)'
<1>1. /\ job'[p].pc = "idle" /\ job'[p].batch = {} /\ job'[p].left = {} /\ job'[p].failed = FALSE
  BY DEF Idle
<1>2. Asked(p)' /\ Fresh(p)'
  BY <1>1 DEF Asked, Fresh, Ahead, Removing
<1>3. RemovedFirst(p)' /\ AddedSoFar(p)'
  BY <1>1 DEF RemovedFirst, AddedSoFar, Removing, Adding
<1>4. BatchDone(p)'
  BY <1>1 DEF BatchDone, Done
<1>5. QED
  BY <1>2, <1>3, <1>4 DEF JobInv

\* What a request counts on does not change while it is carried out.
LEMMA AskedNext ==
  ASSUME UTypes, NEW p \in Callers, Handler(p), ~Answer(p), Asked(p)
  PROVE  Asked(p)'
<1>1. SameRequest(p) /\ db' = db /\ torn \subseteq torn'
  BY HandlerRequest, HandlerFrame
<1>2. job'[p].pc # "check" /\ (job'[p].ok => ~job'[p].failed)
  <2> USE DEF Asked, SameResult, EndsUser
  <2>1. CASE CheckTags(p) \/ NextUser(p) \/ AddInboundTag(p)
    BY <2>1, CheckTagsFacts, NextUserFacts, AddInboundTagFacts
  <2>2. CASE ListTags(p) \/ HandlerAPI(p)
    BY <2>2, ListTagsFacts, HandlerAPIFacts
  <2>3. CASE RemoveUser(p) \/ AddUser(p)
    BY <2>3, RemoveUserFacts, AddUserFacts
  <2>4. CASE RemoveUserFromInboundHash(p) \/ AddUserToInboundHash(p)
    BY <2>4, UntrackFacts, TrackFacts
  <2>5. QED
    BY <2>1, <2>2, <2>3, <2>4 DEF Handler
<1>3. QED
  BY <1>1, <1>2 DEF Asked, SameRequest

\* A user whose credential is being tracked is not ahead any more.
LEMMA AheadShrinks ==
  ASSUME UTypes, NEW p \in Callers, Handler(p), ~Answer(p)
  PROVE  /\ Ahead(p)' \subseteq Ahead(p)
         /\ AddUserToInboundHash(p) => job[p].user \notin Ahead(p)'
<1>1. JobOK(job[p])
  BY DEF UTypes, JobTypes
<1>2. CASE AddInboundTag(p)
  BY <1>2, AddInboundTagFacts DEF Ahead, SameUser, Removing, AddUserToInboundHash
<1>3. CASE CheckTags(p)
  BY <1>3, CheckTagsFacts DEF Ahead, SameUser, Removing, AddUserToInboundHash
<1>4. CASE NextUser(p)
  BY <1>4, NextUserFacts DEF Ahead, Removing, AddUserToInboundHash
<1>5. CASE ListTags(p)
  BY <1>5, ListTagsFacts DEF Ahead, SameUser, Removing, EndsUser, AddUserToInboundHash
<1>6. CASE HandlerAPI(p)
  BY <1>6, HandlerAPIFacts DEF Ahead, SameUser, Removing, EndsUser, AddUserToInboundHash
<1>7. CASE RemoveUser(p)
  BY <1>7, RemoveUserFacts DEF Ahead, SameUser, Removing, EndsUser, AddUserToInboundHash
<1>8. CASE RemoveUserFromInboundHash(p)
  BY <1>8, UntrackFacts DEF Ahead, SameUser, Removing, EndsUser, AddUserToInboundHash
<1>9. CASE AddUser(p)
  BY <1>9, AddUserFacts DEF Ahead, SameUser, Removing, EndsUser, AddUserToInboundHash
<1>10. CASE AddUserToInboundHash(p)
  <2>1. job[p].user \notin job[p].left
    BY <1>1, <1>10, CalledUser, ConstantsAssumption, TrackFacts DEF JobOK, Called, Resting
  <2>2. QED
    BY <1>10, <2>1, TrackFacts DEF Ahead, SameUser, Removing, EndsUser
<1>11. QED
  BY <1>2, <1>3, <1>4, <1>5, <1>6, <1>7, <1>8, <1>9, <1>10 DEF Handler

\* Only the request itself tracks its user's new credential, after the removals.
LEMMA FreshNext ==
  ASSUME UTypes, NEW p \in Callers, Handler(p), ~Answer(p), Fresh(p)
  PROVE  Fresh(p)'
<1>1. SameRequest(p) /\ db' = db /\ torn \subseteq torn'
  BY HandlerRequest, HandlerFrame
<1>2. SUFFICES ASSUME NEW u \in Ahead(p)' \ torn', NEW t \in Tags,
                      job[p].prev[u] # db[u].version, Tracked(t, u, db[u].version)'
               PROVE  FALSE
  BY <1>1 DEF Fresh, SameRequest, Tracked
<1>3. u \in Ahead(p) \ torn
  BY <1>1, AheadShrinks
<1>4. u \in Users /\ db[u].version \in 0..MaxVersion
  <2>1. u \in Users
    BY <1>3 DEF Ahead, UTypes, JobTypes, JobOK, Jobs, Removing, Resting
  <2>2. QED
    BY <2>1 DEF UTypes, PanelTypes, Profiles
<1>5. Tracked(t, u, db[u].version)
  <2>1. CASE u # job[p].user
    BY <1>1, <1>2, <1>4, <2>1, HandlerFrame DEF Tracked
  <2>2. CASE u = job[p].user
    <3>1. ~AddUserToInboundHash(p)
      BY <1>2, <2>2, AheadShrinks
    <3>2. QED
      BY <1>1, <1>2, <1>4, <2>2, <3>1, OwnCredentials DEF Tracked
  <2>3. QED
    BY <2>1, <2>2
<1>6. QED
  BY <1>2, <1>3, <1>5 DEF Fresh

\* A user that rw-core has, and no other request works on, is at tags that
\* removals look at.
LEMMA InCoreIsListed ==
  ASSUME UTypes, JobsApart, UsersTracked, TrackedIsListed, NEW p \in Callers, NEW u \in job[p].batch \ torn,
         job[p].pc # "track"
  PROVE  \A e \in users : e[2] = u => e[1] \in tags
<1>1. SUFFICES ASSUME NEW e \in users, e[2] = u PROVE e[1] \in tags
  OBVIOUS
<1>2. e[1] \in Tags /\ e[2] \notin torn
  BY <1>1 DEF UTypes, CoreTypes, Entries
<1>3. CASE hashes[e[1]] # None
  BY <1>2, <1>3 DEF TrackedIsListed
<1>4. CASE hashes[e[1]] = None
  <2>1. PICK q \in Callers : job[q].pc = "track" /\ job[q].user = u
    BY <1>1, <1>2, <1>4 DEF UsersTracked
  <2>2. u \in job[q].batch
    BY <2>1, CalledUser, ConstantsAssumption DEF UTypes, JobTypes, JobOK, Called, Resting
  <2>3. QED
    BY <2>1, <2>2 DEF JobsApart
<1>5. QED
  BY <1>3, <1>4

\* The user of a request that works on one.
LEMMA CurrentUser ==
  ASSUME UTypes, NEW p \in Callers, job[p].pc \notin Resting
  PROVE  /\ job[p].user \in job[p].batch \ job[p].left /\ job[p].user \in Users
         /\ job[p].want[job[p].user] \in Profiles
  BY DEF UTypes, JobTypes, JobOK, Jobs

\* The removals leave no entry behind, or the failure is remembered.
LEMMA RemovedFirstNext ==
  ASSUME UTypes, JobsApart, UsersTracked, TrackedIsListed,
         NEW p \in Callers, Handler(p), ~Answer(p), Asked(p), RemovedFirst(p)
  PROVE  RemovedFirst(p)'
<1> DEFINE u == job[p].user
<1>1. torn \subseteq torn' /\ live' = live
  BY HandlerFrame
<1>2. CASE AddInboundTag(p)
  BY <1>2, AddInboundTagFacts DEF RemovedFirst, Removing, Adding
<1>3. CASE CheckTags(p)
  BY <1>3, CheckTagsFacts DEF RemovedFirst, Removing, Adding
<1>4. CASE NextUser(p)
  BY <1>4, NextUserFacts DEF RemovedFirst, Removing, Adding
<1>5. CASE ListTags(p)
  <2>1. users' = users /\ torn' = torn /\ SameUser(p) /\ job[p].pc = "list"
    BY <1>5, ListTagsFacts DEF ListTags, coreVars
  <2>2. u \notin torn => \A e \in users : e[2] = u => e[1] \in tags
    BY <2>1, CurrentUser, InCoreIsListed DEF Resting
  <2>3. QED
    BY <1>5, <2>1, <2>2, ListTagsFacts DEF RemovedFirst, Removing, Adding, SameUser, EndsUser
<1>6. CASE HandlerAPI(p)
  <2>1. users' = users /\ torn' = torn
    BY <1>6 DEF HandlerAPI, coreVars
  <2>2. QED
    BY <1>1, <1>6, <2>1, HandlerAPIFacts
    DEF RemovedFirst, Removing, Adding, SameUser, SameRequest, SameResult, EndsUser
<1>7. CASE RemoveUser(p)
  <2>1. CASE job'[p].failed /\ (EndsUser(p) \/ job'[p].pc = "remove")
    BY <2>1 DEF RemovedFirst, Removing, Adding, EndsUser
  <2>2. CASE /\ SameUser(p) /\ SameResult(p) /\ torn' = torn
             /\ users' = users \ {e \in EntriesOf(u) : e[1] = job[p].tag}
             /\ job'[p].pc = "untrack" /\ job'[p].tag = job[p].tag /\ job'[p].todo = job[p].todo
    <3>1. job[p].pc = "removing" /\ users \subseteq Entries
      BY <1>7 DEF RemoveUser, UTypes, CoreTypes
    <3>2. \A e \in users' : e \in users /\ ~(e[1] = job[p].tag /\ e[2] = u)
      BY <2>2, <3>1 DEF EntriesOf
    <3>3. QED
      BY <2>2, <3>1, <3>2 DEF RemovedFirst, Removing, Adding, SameUser, SameResult
  <2>3. QED
    BY <1>7, <2>1, <2>2, RemoveUserFacts
<1>8. CASE RemoveUserFromInboundHash(p)
  <2>1. users' = users /\ torn' = torn
    BY <1>8 DEF RemoveUserFromInboundHash, coreVars
  <2>2. QED
    BY <1>1, <1>8, <2>1, UntrackFacts
    DEF RemovedFirst, Removing, Adding, SameUser, SameRequest, SameResult, EndsUser
<1>9. CASE AddUser(p)
  <2> DEFINE e == <<job[p].tag, u, job[p].want[u].version>>
  <2>1. /\ SameUser(p) /\ job[p].pc = "adding" /\ job'[p].pc \in {"track", "add", "next", "answer"}
        /\ job'[p].pc = "track" => job'[p].tag = job[p].tag /\ e \in users'
        /\ users' = users \/ users' = users \cup {e}
    BY <1>9, AddUserFacts DEF EndsUser
  <2>2. QED
    BY <1>1, <2>1 DEF RemovedFirst, Removing, Adding, SameUser, SameRequest
<1>10. CASE AddUserToInboundHash(p)
  <2>1. users' = users /\ torn' = torn
    BY <1>10 DEF AddUserToInboundHash, coreVars
  <2>2. QED
    BY <1>1, <1>10, <2>1, TrackFacts
    DEF RemovedFirst, Removing, Adding, SameUser, SameRequest, SameResult, EndsUser
<1>11. QED
  BY <1>2, <1>3, <1>4, <1>5, <1>6, <1>7, <1>8, <1>9, <1>10 DEF Handler

\* The additions begin with no entry and make one per tag.
LEMMA AddedSoFarNext ==
  ASSUME UTypes, JobsApart, UsersTracked, TrackedIsListed,
         NEW p \in Callers, Handler(p), ~Answer(p), Asked(p), RemovedFirst(p), AddedSoFar(p)
  PROVE  AddedSoFar(p)'
<1> DEFINE u == job[p].user
           w == job[p].want[u]
<1>1. torn \subseteq torn' /\ live' = live
  BY HandlerFrame
\* Nothing is left of the user when the additions begin.
<1>2. ASSUME SameUser(p), users' = users, job[p].pc \in {"list", "untrack"}, u \notin torn => \A e \in users : e[2] # u,
             job'[p].pc = "add", job'[p].todo = w.tags
      PROVE  AddedSoFar(p)'
  BY <1>1, <1>2 DEF AddedSoFar, SameUser, SameRequest
<1>3. CASE AddInboundTag(p) \/ CheckTags(p) \/ NextUser(p)
  BY <1>3, AddInboundTagFacts, CheckTagsFacts, NextUserFacts DEF AddedSoFar, Adding
<1>4. CASE ListTags(p)
  <2>1. users' = users /\ torn' = torn /\ SameUser(p) /\ job[p].pc = "list"
    BY <1>4, ListTagsFacts DEF ListTags, coreVars
  <2>2. u \notin torn => \A e \in users : e[2] = u => e[1] \in tags
    BY <2>1, CurrentUser, InCoreIsListed DEF Resting
  <2>3. CASE job'[p].pc = "add"
    BY <1>2, <1>4, <2>1, <2>2, <2>3, ListTagsFacts DEF EndsUser
  <2>4. CASE job'[p].pc # "add"
    BY <1>4, <2>4, ListTagsFacts DEF AddedSoFar, Adding, EndsUser
  <2>5. QED
    BY <2>3, <2>4
<1>5. CASE HandlerAPI(p)
  <2>1. users' = users
    BY <1>5 DEF HandlerAPI, coreVars
  <2>2. QED
    BY <1>1, <1>5, <2>1, HandlerAPIFacts DEF AddedSoFar, Adding, SameUser, SameRequest, SameResult, EndsUser
<1>6. CASE RemoveUser(p)
  BY <1>6, RemoveUserFacts DEF AddedSoFar, Adding, EndsUser
<1>7. CASE RemoveUserFromInboundHash(p)
  <2>1. users' = users
    BY <1>7 DEF RemoveUserFromInboundHash, coreVars
  <2>2. SameUser(p) /\ job[p].pc = "untrack"
    BY <1>7, UntrackFacts
  <2>3. CASE job'[p].pc = "add"
    <3>1. job[p].todo = {} /\ job'[p].todo = w.tags /\ ~job[p].failed
      BY <1>7, <2>3, UntrackFacts DEF EndsUser
    <3>2. u \notin torn => \A e \in users : e[2] # u
      BY <2>2, <3>1 DEF RemovedFirst, Removing
    <3>3. QED
      BY <1>2, <2>1, <2>2, <2>3, <3>1, <3>2
  <2>4. CASE job'[p].pc # "add"
    BY <1>7, <2>4, UntrackFacts DEF AddedSoFar, Adding, EndsUser
  <2>5. QED
    BY <2>3, <2>4
<1>8. CASE AddUser(p)
  <2> DEFINE e == <<job[p].tag, u, w.version>>
  <2>1. CASE ~job'[p].ok
    BY <2>1 DEF AddedSoFar
  <2>2. CASE /\ SameUser(p) /\ SameResult(p) /\ torn' = torn /\ users' = users \cup {e} /\ job[p].tag \in Inbounds
             /\ job'[p].pc = "track" /\ job'[p].tag = job[p].tag /\ job'[p].todo = job[p].todo /\ job[p].pc = "adding"
    <3>1. SUFFICES ASSUME job[p].ok, live, u \notin torn PROVE AddedSoFar(p)'
      BY <1>1, <2>2 DEF AddedSoFar, SameUser, SameResult
    <3>2. /\ job[p].todo \subseteq w.tags /\ job[p].tag \in w.tags \ job[p].todo
          /\ \A t \in Tags : <<t, u, w.version>> \in users <=>
               t \in Inbounds \cap w.tags /\ t \notin job[p].todo /\ t # job[p].tag
      BY <2>2, <3>1 DEF AddedSoFar, Adding
    <3>3. \A t \in Tags : <<t, u, w.version>> \in users' <=>
            t \in Inbounds \cap w.tags /\ t \notin job[p].todo
      BY <2>2, <3>2
    <3>4. QED
      BY <2>2, <3>2, <3>3 DEF AddedSoFar, SameUser, SameRequest
  <2>3. QED
    BY <1>8, <2>1, <2>2, AddUserFacts
<1>9. CASE AddUserToInboundHash(p)
  <2>1. users' = users
    BY <1>9 DEF AddUserToInboundHash, coreVars
  <2>2. QED
    BY <1>1, <1>9, <2>1, TrackFacts DEF AddedSoFar, Adding, SameUser, SameRequest, SameResult, EndsUser
<1>10. QED
  BY <1>3, <1>4, <1>5, <1>6, <1>7, <1>8, <1>9 DEF Handler

\* The users a request is done with: one more when it leaves its user.
LEMMA DoneFacts ==
  ASSUME UTypes, NEW p \in Callers, Handler(p), ~Answer(p)
  PROVE  \/ EndsUser(p) /\ job[p].pc \notin Resting /\ Done(p)' \subseteq Done(p) \cup {job[p].user}
         \/ CheckTags(p) /\ tags = {} /\ Done(p)' = job[p].batch
         \/ Done(p)' = Done(p)
<1>1. JobOK(job[p])
  BY DEF UTypes, JobTypes
<1>2. ASSUME SameUser(p), EndsUser(p), job[p].pc \notin Resting
      PROVE  Done(p)' \subseteq Done(p) \cup {job[p].user}
  BY <1>2 DEF Done, SameUser, SameRequest, EndsUser, Resting
<1>3. ASSUME SameUser(p), job[p].pc \notin Resting, job'[p].pc \notin Resting
      PROVE  Done(p)' = Done(p)
  BY <1>3 DEF Done, SameUser, SameRequest, Resting
<1>4. CASE AddInboundTag(p)
  <2>1. CASE job[p].pc = "affected" /\ job'[p].pc \in {"affected", "next"}
    BY <1>4, <2>1, AddInboundTagFacts DEF Done, SameUser, SameRequest, Resting
  <2>2. CASE job[p].pc = "tags" /\ job'[p].pc \in {"tags", "list"}
    BY <1>3, <1>4, <2>2, AddInboundTagFacts DEF Resting
  <2>3. QED
    BY <1>4, <2>1, <2>2, AddInboundTagFacts
<1>5. CASE CheckTags(p)
  BY <1>5, CheckTagsFacts DEF Done, SameUser, SameRequest, Resting
<1>6. CASE NextUser(p)
  <2>1. PICK u \in job[p].left : job'[p].user = u /\ job'[p].left = job[p].left \ {u}
    BY <1>6, NextUserFacts
  <2>2. /\ job[p].pc = "next" /\ job'[p].pc \in {"tags", "list"} /\ job'[p].batch = job[p].batch
    BY <1>6, NextUserFacts DEF SameRequest
  <2>3. QED
    BY <1>1, <2>1, <2>2 DEF Done, Resting, JobOK
<1>7. CASE ListTags(p) \/ HandlerAPI(p) \/ RemoveUser(p) \/ RemoveUserFromInboundHash(p)
           \/ AddUser(p) \/ AddUserToInboundHash(p)
  <2>1. SameUser(p) /\ job[p].pc \in Called \cup {"list", "remove", "add"}
    BY <1>7, ListTagsFacts, HandlerAPIFacts, RemoveUserFacts, UntrackFacts, AddUserFacts, TrackFacts DEF Called
  <2>2. EndsUser(p) \/ job'[p].pc \in Called \cup {"remove", "add"}
    BY <1>7, ListTagsFacts, HandlerAPIFacts, RemoveUserFacts, UntrackFacts, AddUserFacts, TrackFacts DEF Called
  <2>3. job[p].pc \notin Resting
    BY <2>1 DEF Called, Resting
  <2>4. CASE EndsUser(p)
    BY <1>2, <2>1, <2>3, <2>4
  <2>5. CASE job'[p].pc \in Called \cup {"remove", "add"}
    <3>1. job'[p].pc \notin Resting
      BY <2>5 DEF Called, Resting
    <3>2. QED
      BY <1>3, <2>1, <2>3, <3>1
  <2>6. QED
    BY <2>2, <2>4, <2>5
<1>8. QED
  BY <1>4, <1>5, <1>6, <1>7 DEF Handler

\* A user that rw-core does not have is as a removal wants it.
LEMMA RemovedAsAsked ==
  ASSUME UTypes, NEW p \in Callers, NEW u \in job[p].batch, Asked(p), job[p].kind = "remove",
         \A e \in users : e[2] # u
  PROVE  users \cap EntriesOf(u) = Config(job[p].want) \cap EntriesOf(u)
<1>1. job[p].want[u].tags = {}
  BY DEF Asked
<1>2. QED
  BY <1>1 DEF Config, EntriesOf

\* A user that has been added everywhere is as the request wants it.
LEMMA AddedAsAsked ==
  ASSUME UTypes, NEW p \in Callers, RemovedFirst(p), AddedSoFar(p), job[p].pc = "track", job[p].todo = {},
         job[p].ok, live, job[p].user \notin torn
  PROVE  users \cap EntriesOf(job[p].user) = Config(job[p].want) \cap EntriesOf(job[p].user)
<1> DEFINE u == job[p].user
           w == job[p].want[u]
<1>1. u \in Users /\ w \in Profiles /\ users \subseteq Entries
  BY CurrentUser DEF Resting, UTypes, CoreTypes
<1>2. \A e \in users : e[2] = u => e[3] = w.version
  BY DEF RemovedFirst, Adding
<1>3. \A t \in Tags : <<t, u, w.version>> \in users <=> t \in Inbounds \cap w.tags
  BY DEF AddedSoFar, Adding
<1>4. ASSUME NEW e \in Entries, e[2] = u
      PROVE  e \in users <=> e \in Config(job[p].want)
  <2>1. e[1] \in Tags /\ e = <<e[1], e[2], e[3]>>
    BY DEF Entries
  <2>2. e \in Config(job[p].want) <=> e[1] \in Inbounds \cap w.tags /\ e[3] = w.version
    BY <1>4 DEF Config
  <2>3. QED
    BY <1>2, <1>3, <1>4, <2>1, <2>2
<1>5. QED
  BY <1>1, <1>4, ConfigType DEF EntriesOf

\* A user that a request leaves without a failure is as it was asked for.
LEMMA BatchDoneNext ==
  ASSUME UTypes, JobsApart, UsersTracked, TrackedIsListed, NEW p \in Callers, Handler(p), ~Answer(p),
         JobInv(p)
  PROVE  BatchDone(p)'
<1> DEFINE u == job[p].user
<1>1. torn \subseteq torn' /\ live' = live /\ \A e : e[2] # u => (e \in users' <=> e \in users)
  BY HandlerFrame
<1>2. SameRequest(p)
  BY HandlerRequest
<1>3. Asked(p) /\ RemovedFirst(p) /\ AddedSoFar(p) /\ BatchDone(p)
  BY DEF JobInv
<1>4. SUFFICES ASSUME job'[p].ok, live PROVE BatchDone(p)'
  BY <1>1 DEF BatchDone
<1>5. job[p].ok
  BY <1>4, CheckTagsFacts, NextUserFacts, AddInboundTagFacts, ListTagsFacts, HandlerAPIFacts, RemoveUserFacts,
     UntrackFacts, AddUserFacts, TrackFacts DEF Handler, SameResult
<1>6. \A w \in Done(p) \ torn : w # u =>
        users' \cap EntriesOf(w) = Config(job[p].want) \cap EntriesOf(w)
  <2>1. \A w : w # u => users' \cap EntriesOf(w) = users \cap EntriesOf(w)
    BY <1>1 DEF EntriesOf
  <2>2. QED
    BY <1>3, <1>4, <1>5, <2>1 DEF BatchDone
<1>7. CASE CheckTags(p) /\ tags = {} /\ Done(p)' = job[p].batch
  <2>1. users' = users /\ torn' = torn /\ job[p].pc = "check"
    BY <1>7 DEF CheckTags, coreVars
  <2>2. \A w \in job[p].batch \ torn : \A e \in users : e[2] # w
    BY <1>7, <2>1, InCoreIsListed
  <2>3. \A w \in job[p].batch \ torn : users \cap EntriesOf(w) = Config(job[p].want) \cap EntriesOf(w)
    BY <1>3, <2>1, <2>2, RemovedAsAsked DEF Asked
  <2>4. QED
    BY <1>2, <1>7, <2>1, <2>3 DEF BatchDone, SameRequest
<1>8. CASE Done(p)' = Done(p)
  <2>1. u \notin Done(p) \/ users' = users
    <3>1. CASE job[p].pc \in Resting
      BY <3>1 DEF Resting, Handler, CheckTags, NextUser, AddInboundTag, ListTags, HandlerAPI, RemoveUser,
         RemoveUserFromInboundHash, AddUser, AddUserToInboundHash, Answer, coreVars
    <3>2. CASE job[p].pc \notin Resting
      BY <3>2 DEF Done, Resting
    <3>3. QED
      BY <3>1, <3>2
  <2>2. QED
    BY <1>1, <1>2, <1>3, <1>4, <1>5, <1>6, <1>8, <2>1 DEF BatchDone, SameRequest
<1>9. CASE EndsUser(p) /\ job[p].pc \notin Resting /\ Done(p)' \subseteq Done(p) \cup {u}
  <2>1. u \in job[p].batch
    BY <1>9, CurrentUser
  <2>2. users' = users /\ (u \notin torn => users \cap EntriesOf(u) = Config(job[p].want) \cap EntriesOf(u))
    <3>1. CASE ListTags(p)
      <4>1. tags = {} /\ job[p].kind = "remove" /\ users' = users /\ job[p].pc = "list"
        BY <1>3, <1>5, <1>9, <3>1, ListTagsFacts DEF ListTags, EndsUser, Asked, coreVars
      <4>2. u \notin torn => \A e \in users : e[2] # u
        BY <2>1, <4>1, InCoreIsListed
      <4>3. QED
        BY <1>3, <2>1, <4>1, <4>2, RemovedAsAsked
    <3>2. CASE RemoveUserFromInboundHash(p)
      <4>1. /\ job[p].todo = {} /\ job[p].kind = "remove" /\ ~job[p].failed /\ users' = users
            /\ job[p].pc = "untrack"
        BY <1>3, <1>5, <1>9, <3>2, UntrackFacts DEF RemoveUserFromInboundHash, EndsUser, Asked, coreVars
      <4>2. u \notin torn => \A e \in users : e[2] # u
        BY <1>3, <4>1 DEF RemovedFirst, Removing
      <4>3. QED
        BY <1>3, <2>1, <4>1, <4>2, RemovedAsAsked
    <3>3. CASE AddUserToInboundHash(p)
      <4>1. job[p].todo = {} /\ users' = users /\ job[p].pc = "track"
        BY <1>9, <3>3, TrackFacts DEF AddUserToInboundHash, EndsUser, coreVars
      <4>2. QED
        BY <1>3, <1>4, <1>5, <4>1, AddedAsAsked
    <3>4. QED
      BY <1>4, <1>9, <3>1, <3>2, <3>3, CheckTagsFacts, NextUserFacts, AddInboundTagFacts, HandlerAPIFacts,
         RemoveUserFacts, AddUserFacts DEF Handler, EndsUser, Resting
  <2>3. QED
    BY <1>1, <1>2, <1>6, <1>9, <2>2 DEF BatchDone, SameRequest
<1>10. QED
  BY <1>7, <1>8, <1>9, DoneFacts

\* Every step keeps every request in order.
LEMMA JobInvNext ==
  ASSUME IInv, [Next]_vars, UTypes', NEW q \in Callers
  PROVE  JobInv(q)'
<1> USE DEF IInv
<1>1. CASE UNCHANGED vars
  BY <1>1 DEF vars, coreVars, hashVars, JobInv, Asked, Fresh, Ahead, Tracked, RemovedFirst, AddedSoFar,
     BatchDone, Done
<1>2. CASE CoreStep
  BY <1>2, UndisturbedByCore, UndisturbedInv
<1>3. ASSUME NEW p \in Callers, SendAdd(p) \/ SendRemove(p) PROVE JobInv(q)'
  <2>1. NewRequest(p)
    BY <1>3, PanelFacts
  <2>2. CASE p = q
    BY <2>1, <2>2, NewRequestInv
  <2>3. CASE p # q
    BY <2>1, <2>3, UndisturbedByPanel, UndisturbedInv
  <2>4. QED
    BY <2>2, <2>3
<1>4. ASSUME NEW p \in Callers, Handler(p) PROVE JobInv(q)'
  <2>1. CASE p = q /\ ~Answer(q)
    <3>1. Asked(q)' /\ Fresh(q)' /\ RemovedFirst(q)' /\ AddedSoFar(q)' /\ BatchDone(q)'
      BY <1>4, <2>1, AskedNext, FreshNext, RemovedFirstNext, AddedSoFarNext, BatchDoneNext DEF JobInv
    <3>2. QED
      BY <3>1 DEF JobInv
  <2>2. CASE p = q /\ Answer(q)
    <3>1. job'[q] = Idle
      BY <2>2 DEF Answer, UTypes, JobTypes
    <3>2. QED
      BY <3>1, AnsweredInv
  <2>3. CASE p # q
    BY <1>4, <2>3, UndisturbedByRequest, UndisturbedInv
  <2>4. QED
    BY <2>1, <2>2, <2>3
<1>5. QED
  BY <1>1, <1>2, <1>3, <1>4 DEF Next, CoreStep

-----------------------------------------------------------------------------
(***************************************************************************)
(* What holds of the sets, of rw-core and of starts.                       *)
(***************************************************************************)

\* What a published configuration tracks.
LEMMA ExtractTracks ==
  ASSUME NEW config \in SUBSET Entries, NEW t \in Tags, NEW u \in Users, NEW v \in 0..MaxVersion
  PROVE  /\ Extract(config)[t] # None /\ <<u, v>> \in Extract(config)[t] => <<t, u, v>> \in config
         /\ <<t, u, v>> \in config /\ t \in Inbounds =>
              Extract(config)[t] # None /\ <<u, v>> \in Extract(config)[t]
<1>1. CASE t \in Inbounds
  <2>1. Extract(config)[t] = CredentialsAt(t, config)
    BY <1>1 DEF Extract
  <2>2. CredentialsAt(t, config) # None
    BY ConstantsAssumption DEF CredentialsAt
  <2>3. <<u, v>> \in CredentialsAt(t, config) <=> <<t, u, v>> \in config
    BY DEF CredentialsAt, Credentials
  <2>4. QED
    BY <2>1, <2>2, <2>3
<1>2. CASE t \notin Inbounds
  BY <1>2 DEF Extract
<1>3. QED
  BY <1>1, <1>2

\* A step is one of a request, of the panel, or of a start or rw-core.
LEMMA StepCases ==
  ASSUME UTypes, [Next]_vars
  PROVE  \/ UNCHANGED vars
         \/ CoreStep
         \/ \E p \in Callers : NewRequest(p)
         \/ \E p \in Callers : Handler(p)
<1>1. ASSUME NEW p \in Callers, SendAdd(p) \/ SendRemove(p) PROVE NewRequest(p)
  BY <1>1, PanelFacts
<1>2. QED
  BY <1>1 DEF Next, CoreStep

\* Only Send makes requests overlap, and only Serve makes a user whole again.
LEMMA JobsApartNext == IInv /\ [Next]_vars => JobsApart'
<1> SUFFICES ASSUME IInv, [Next]_vars, NEW q \in Callers, NEW r \in Callers, q # r
             PROVE  job'[q].batch \cap job'[r].batch \subseteq torn'
  BY DEF JobsApart
<1> USE DEF IInv
<1>1. job[q].batch \cap job[r].batch \subseteq torn
  BY DEF JobsApart
<1>2. CASE UNCHANGED vars
  BY <1>1, <1>2 DEF vars
<1>3. CASE CoreStep
  <2>1. CASE Serve
    BY <1>3, <2>1, CoreFacts DEF Serve, StartMatches
  <2>2. CASE ~Serve
    BY <1>1, <1>3, <2>2, CoreFacts
  <2>3. QED
    BY <2>1, <2>2
<1>4. ASSUME NEW p \in Callers, NewRequest(p) PROVE job'[q].batch \cap job'[r].batch \subseteq torn'
  BY <1>1, <1>4 DEF NewRequest, Busy
<1>5. ASSUME NEW p \in Callers, Handler(p) PROVE job'[q].batch \cap job'[r].batch \subseteq torn'
  <2>1. torn \subseteq torn' /\ \A s \in Callers \ {p} : job'[s] = job[s]
    BY <1>5, HandlerFrame
  <2>2. job'[p].batch = job[p].batch \/ job'[p].batch = {}
    BY <1>5, HandlerRequest DEF SameRequest, Idle
  <2>3. QED
    BY <1>1, <2>1, <2>2
<1>6. QED
  BY <1>2, <1>3, <1>4, <1>5, StepCases

\* A configuration falls behind the panel only for the users of later requests.
LEMMA StartMatchesNext == IInv /\ [Next]_vars => StartMatches'
<1> SUFFICES ASSUME IInv, [Next]_vars PROVE StartMatches'
  OBVIOUS
<1> USE DEF IInv
<1>1. CASE UNCHANGED vars
  BY <1>1 DEF vars, StartMatches
<1>2. NoStart.pc = "none" /\ NoStart.config = {} /\ NoStart.dirty = {}
  BY DEF NoStart
<1>3. ASSUME start' = NoStart PROVE StartMatches'
  BY <1>2, <1>3 DEF StartMatches
<1>4. CASE CoreStep
  <2>1. UNCHANGED <<job, db>>
    BY <1>4, CoreFacts
  <2>2. ASSUME start'.pc # "none", start'.config = start.config, start'.dirty = start.dirty,
               start.pc # "none", torn \subseteq torn' \/ torn' = start.dirty
        PROVE  StartMatches'
    BY <2>1, <2>2 DEF StartMatches
  <2>3. CASE SendStart
    <3>1. start'.pc = "compare" /\ start'.config = Config(db) /\ start'.dirty = {u \in Users : Busy(u)}
      BY <2>3 DEF SendStart
    <3>2. torn' = torn \cup {u \in Users : Busy(u)}
      BY <2>3 DEF SendStart
    <3>3. \A p \in Callers : job[p].batch \subseteq {u \in Users : Busy(u)}
      BY DEF Busy, UTypes, JobTypes, JobOK, Jobs
    <3>4. \A e \in Config(db) : e[1] \in Inbounds /\ e[3] = db[e[2]].version /\ db[e[2]].version \in Nat
      BY ConstantsAssumption DEF Config, Entries, UTypes, PanelTypes, Profiles
    <3>5. \A e, f \in Config(db) : e[2] = f[2] => e[3] = f[3]
      BY <3>4
    <3>6. \A e \in Config(db) : e[3] <= db[e[2]].version
      BY <3>4
    <3>7. QED
      BY <2>1, <3>1, <3>2, <3>3, <3>4, <3>5, <3>6 DEF StartMatches
  <2>4. CASE Compare
    <3>1. /\ start.pc = "compare" /\ torn' = torn
          /\ start' = [start EXCEPT !.pc = "swap"] \/ start' = [start EXCEPT !.pc = "skip"]
      BY <2>4 DEF Compare
    <3>2. start'.pc # "none" /\ start'.config = start.config /\ start'.dirty = start.dirty
      BY <3>1 DEF UTypes, PanelTypes, Starts
    <3>3. QED
      BY <2>2, <3>1, <3>2
  <2>5. CASE Swap \/ Serve
    <3>1. \/ start' = NoStart
          \/ /\ start.pc \in {"swap", "spawn"} /\ torn' \in {torn, start.dirty}
             /\ start' = [start EXCEPT !.pc = "spawn"] \/ start' = [start EXCEPT !.pc = "wait"]
      BY <2>5 DEF Swap, Serve
    <3>2. CASE start' = NoStart
      BY <1>3, <3>2
    <3>3. CASE start' # NoStart
      <4>1. start'.pc # "none" /\ start'.config = start.config /\ start'.dirty = start.dirty
        BY <3>1, <3>3 DEF UTypes, PanelTypes, Starts
      <4>2. QED
        BY <2>2, <3>1, <3>3, <4>1
    <3>4. QED
      BY <3>2, <3>3
  <2>6. CASE Skip \/ StartFinish \/ StartFail
    BY <1>3, <2>6 DEF Skip, StartFinish, StartFail
  <2>7. CASE Stop \/ CoreExit \/ HealthPoll
    <3>1. start' = start /\ torn' = torn
      BY <2>7 DEF Stop, CoreExit, HealthPoll
    <3>2. QED
      BY <2>1, <3>1 DEF StartMatches
  <2>8. QED
    BY <1>4, <2>3, <2>4, <2>5, <2>6, <2>7 DEF CoreStep
<1>5. ASSUME NEW p \in Callers, NewRequest(p) PROVE StartMatches'
  <2>1. CASE start = NoStart
    BY <1>3, <1>5, <2>1 DEF NewRequest
  <2>2. CASE start # NoStart
    <3>1. start' = [start EXCEPT !.dirty = @ \cup job'[p].batch]
      BY <1>5, <2>2 DEF NewRequest
    <3>2. start'.pc = start.pc /\ start'.config = start.config /\ start'.dirty = start.dirty \cup job'[p].batch
      BY <3>1 DEF UTypes, PanelTypes, Starts
    <3>3. start.pc # "none"
      BY <2>2 DEF StartMatches
    <3>4. start'.dirty \subseteq torn'
      BY <1>5, <2>2, <3>2, <3>3 DEF NewRequest, StartMatches
    <3>5. \A q \in Callers : job'[q].batch \subseteq start'.dirty
      BY <1>5, <3>2, <3>3 DEF NewRequest, StartMatches
    <3>6. \A e \in start.config : e[3] <= db'[e[2]].version
      <4>1. SUFFICES ASSUME NEW e \in start.config PROVE e[3] <= db'[e[2]].version
        OBVIOUS
      <4>2. e[2] \in Users /\ e[3] \in 0..MaxVersion
        BY DEF UTypes, PanelTypes, Starts, Entries
      <4>3. db[e[2]].version \in 0..MaxVersion /\ db[e[2]].version <= db'[e[2]].version /\ e[3] <= db[e[2]].version
        BY <1>5, <4>2 DEF UTypes, PanelTypes, Profiles, NewRequest, StartMatches
      <4>4. db'[e[2]].version \in Nat
        BY <1>5, <4>2, <4>3, NextTypes, ConstantsAssumption DEF UTypes, PanelTypes, Profiles
      <4>5. QED
        BY <4>2, <4>3, <4>4, ConstantsAssumption
    <3>7. \A e \in start.config : e[2] \notin start'.dirty => e[3] = db'[e[2]].version
      <4>1. \A e \in start.config : e[2] \in Users
        BY DEF UTypes, PanelTypes, Starts, Entries
      <4>2. QED
        BY <1>5, <3>2, <4>1 DEF NewRequest, StartMatches
    <3>8. QED
      BY <3>2, <3>3, <3>4, <3>5, <3>6, <3>7 DEF StartMatches
  <2>3. QED
    BY <2>1, <2>2
<1>6. ASSUME NEW p \in Callers, Handler(p) PROVE StartMatches'
  <2>1. /\ torn \subseteq torn' /\ \A s \in Callers \ {p} : job'[s] = job[s]
        /\ UNCHANGED <<start, db>>
    BY <1>6, HandlerFrame
  <2>2. job'[p].batch = job[p].batch \/ job'[p].batch = {}
    BY <1>6, HandlerRequest DEF SameRequest, Idle
  <2>3. QED
    BY <2>1, <2>2 DEF StartMatches
<1>7. QED
  BY <1>1, <1>4, <1>5, <1>6, StepCases

\* What is tracked comes from a configuration or from a request.
LEMMA NotAheadNext == IInv /\ [Next]_vars => NotAhead'
<1> SUFFICES ASSUME IInv, [Next]_vars, UTypes',
                    NEW t \in Tags, NEW u \in Users, NEW v \in 0..MaxVersion, Tracked(t, u, v)'
             PROVE  v <= db'[u].version
  BY NextTypes DEF NotAhead, IInv
<1> USE DEF IInv
<1>1. db[u].version \in Nat /\ db'[u].version \in Nat /\ v \in Nat
  BY ConstantsAssumption DEF UTypes, PanelTypes, Profiles
<1>2. CASE UNCHANGED vars
  BY <1>2 DEF vars, hashVars, Tracked, NotAhead
<1>3. CASE CoreStep
  <2>1. db' = db
    BY <1>3, CoreFacts
  <2>2. CASE hashes' = hashes
    BY <2>1, <2>2 DEF Tracked, NotAhead
  <2>3. CASE hashes' = [s \in Tags |-> None]
    BY <2>3 DEF Tracked
  <2>4. CASE hashes' = Extract(start.config)
    <3>1. <<t, u, v>> \in start.config
      BY <2>4, ExtractTracks DEF Tracked, UTypes, PanelTypes, Starts
    <3>2. QED
      BY <2>1, <3>1 DEF StartMatches
  <2>5. QED
    BY <1>3, <2>2, <2>3, <2>4, CoreFacts
<1>4. ASSUME NEW p \in Callers, NewRequest(p) PROVE v <= db'[u].version
  <2>1. v <= db[u].version /\ db[u].version <= db'[u].version
    BY <1>4 DEF NewRequest, hashVars, Tracked, NotAhead
  <2>2. QED
    BY <1>1, <2>1
<1>5. ASSUME NEW p \in Callers, Handler(p) PROVE v <= db'[u].version
  <2>1. db' = db
    BY <1>5, HandlerFrame
  <2>2. CASE Tracked(t, u, v)
    BY <2>1, <2>2 DEF NotAhead
  <2>3. CASE ~Tracked(t, u, v)
    <3>1. u = job[p].user
      BY <1>5, <2>3, HandlerFrame
    <3>2. AddUserToInboundHash(p) /\ v = job[p].want[u].version
      BY <1>5, <2>3, <3>1, OwnCredentials
    <3>3. u \in job[p].batch
      BY <3>1, <3>2, CurrentUser DEF AddUserToInboundHash, Resting
    <3>4. QED
      BY <2>1, <3>2, <3>3 DEF JobInv, Asked
  <2>4. QED
    BY <2>2, <2>3
<1>6. QED
  BY <1>2, <1>3, <1>4, <1>5, StepCases

\* Sets and tags are changed together.
LEMMA TrackedIsListedNext == IInv /\ [Next]_vars => TrackedIsListed'
<1> SUFFICES ASSUME IInv, [Next]_vars PROVE TrackedIsListed'
  OBVIOUS
<1> USE DEF IInv
<1>1. CASE hashes' = hashes /\ tags \subseteq tags'
  BY <1>1 DEF TrackedIsListed
<1>2. CASE UNCHANGED vars
  BY <1>1, <1>2 DEF vars, hashVars
<1>3. CASE CoreStep
  <2>1. CASE Skip \/ Swap
    BY <2>1 DEF Skip, Swap, Publish, Extract, TrackedIsListed
  <2>2. CASE Stop
    <3>1. UNCHANGED hashVars \/ hashes' = [t \in Tags |-> None]
      BY <2>2 DEF Stop
    <3>2. QED
      BY <1>1, <3>1 DEF hashVars, TrackedIsListed
  <2>3. CASE SendStart \/ Compare \/ Serve \/ StartFinish \/ StartFail \/ CoreExit \/ HealthPoll
    BY <1>1, <2>3 DEF SendStart, Compare, Serve, StartFinish, StartFail, CoreExit, HealthPoll, hashVars
  <2>4. QED
    BY <1>3, <2>1, <2>2, <2>3 DEF CoreStep
<1>4. ASSUME NEW p \in Callers, NewRequest(p) PROVE TrackedIsListed'
  BY <1>1, <1>4 DEF NewRequest, hashVars
<1>5. ASSUME NEW p \in Callers, Handler(p) PROVE TrackedIsListed'
  <2>1. CASE AddUserToInboundHash(p)
    BY <2>1 DEF AddUserToInboundHash, Track, TrackedIsListed, UTypes, SetTypes
  <2>2. CASE RemoveUserFromInboundHash(p)
    <3>1. Untrack(job[p].tag, <<job[p].user, job[p].prev[job[p].user]>>)
      BY <2>2 DEF RemoveUserFromInboundHash
    <3>2. QED
      BY <3>1 DEF Untrack, TrackedIsListed, UTypes, SetTypes
  <2>3. CASE ~(AddUserToInboundHash(p) \/ RemoveUserFromInboundHash(p))
    <3>1. hashes' = hashes /\ tags \subseteq tags'
      BY <1>5, <2>3 DEF Handler, CheckTags, NextUser, AddInboundTag, ListTags, HandlerAPI, RemoveUser, AddUser,
         Answer, hashVars
    <3>2. QED
      BY <1>1, <3>1
  <2>4. QED
    BY <2>1, <2>2, <2>3
<1>6. QED
  BY <1>2, <1>3, <1>4, <1>5, StepCases

\* An entry that a step leaves in rw-core, and the step that could add one.
LEMMA OwnEntries ==
  ASSUME UTypes, NEW p \in Callers, Handler(p)
  PROVE  \/ users' \subseteq users
         \/ /\ AddUser(p) /\ users' = users \cup {<<job[p].tag, job[p].user, job[p].want[job[p].user].version>>}
            /\ \/ torn' = torn \cup {job[p].user}
               \/ job'[p].pc = "track" /\ job'[p].tag = job[p].tag /\ SameUser(p)
<1>1. CASE AddUser(p)
  BY <1>1, AddUserFacts
<1>2. CASE RemoveUser(p)
  BY <1>2, RemoveUserFacts
<1>3. CASE ~(AddUser(p) \/ RemoveUser(p))
  BY <1>3 DEF Handler, CheckTags, NextUser, AddInboundTag, ListTags, HandlerAPI,
     RemoveUserFromInboundHash, AddUserToInboundHash, Answer, coreVars
<1>4. QED
  BY <1>1, <1>2, <1>3

\* An addition finds no other credential of its user.
LEMMA OneCredentialNext == IInv /\ [Next]_vars => OneCredential'
<1> SUFFICES ASSUME IInv, [Next]_vars,
                    NEW e \in users', NEW f \in users', e[2] = f[2], e[2] \notin torn'
             PROVE  e[3] = f[3]
  BY DEF OneCredential
<1> USE DEF IInv
<1>1. CASE e \in users /\ f \in users /\ torn \subseteq torn'
  BY <1>1 DEF OneCredential
<1>2. CASE UNCHANGED vars
  BY <1>1, <1>2 DEF vars, coreVars
<1>3. CASE CoreStep
  <2>1. CASE Serve
    BY <2>1 DEF Serve, StartMatches
  <2>2. CASE ~Serve
    BY <1>1, <1>3, <2>2, CoreFacts
  <2>3. QED
    BY <2>1, <2>2
<1>4. ASSUME NEW p \in Callers, NewRequest(p) PROVE e[3] = f[3]
  BY <1>1, <1>4 DEF NewRequest, coreVars
<1>5. ASSUME NEW p \in Callers, Handler(p) PROVE e[3] = f[3]
  <2>1. torn \subseteq torn'
    BY <1>5, HandlerFrame
  <2>2. CASE users' \subseteq users
    BY <1>1, <2>1, <2>2
  <2>3. CASE AddUser(p) /\ users' = users \cup {<<job[p].tag, job[p].user, job[p].want[job[p].user].version>>}
    <3>1. \A d \in users : d[2] = job[p].user /\ job[p].user \notin torn => d[3] = job[p].want[job[p].user].version
      BY <2>3 DEF AddUser, JobInv, RemovedFirst, Adding
    <3>2. QED
      BY <1>1, <2>1, <2>3, <3>1
  <2>4. QED
    BY <1>5, <2>2, <2>3, OwnEntries
<1>6. QED
  BY <1>2, <1>3, <1>4, <1>5, StepCases

\* The entry e of rw-core is tracked, or about to be: UsersTracked says so of
\* every entry of a user that is not torn.
IsTracked(e) ==
  \/ hashes[e[1]] # None /\ <<e[2], e[3]>> \in hashes[e[1]]
  \/ \E p \in Callers :
       job[p].pc = "track" /\ job[p].tag = e[1] /\ job[p].user = e[2] /\ job[p].want[e[2]].version = e[3]

\* An entry is tracked after it was added and untracked after it was removed.
LEMMA UsersTrackedNext == IInv /\ [Next]_vars => UsersTracked'
<1> SUFFICES ASSUME IInv, [Next]_vars, UTypes', NEW e \in users', e[2] \notin torn'
             PROVE  IsTracked(e)'
  BY NextTypes DEF UsersTracked, IsTracked, IInv
<1> USE DEF IInv
<1>1. /\ e[1] \in Tags /\ e[2] \in Users /\ e[3] \in 0..MaxVersion
      /\ e = <<e[1], e[2], e[3]>>
  BY DEF UTypes, CoreTypes, Entries
<1>2. e \in users /\ torn \subseteq torn' => IsTracked(e)
  BY DEF UsersTracked, IsTracked
<1>3. CASE UNCHANGED vars
  BY <1>2, <1>3 DEF vars, coreVars, hashVars, IsTracked
<1>4. CASE CoreStep
  <2>1. CASE Serve
    <3>1. e \in start.config /\ e[2] \notin start.dirty /\ start.pc = "spawn" /\ hashes' = hashes
      BY <2>1 DEF Serve, hashVars
    <3>2. Tracked(e[1], e[2], e[3])
      BY <1>1, <3>1 DEF SwapMatches
    <3>3. QED
      BY <3>1, <3>2 DEF Tracked, IsTracked
  <2>2. CASE ~Serve
    <3>1. e \in users /\ users' = users /\ torn \subseteq torn' /\ job' = job
      BY <1>4, <2>2, CoreFacts
    <3>2. CASE hashes' = hashes
      BY <1>2, <3>1, <3>2 DEF IsTracked
    <3>3. CASE Skip /\ hashes' = Extract(start.config)
      <4>1. e \in start.config /\ e[1] \in Inbounds
        BY <3>1, <3>3 DEF Skip, SwapMatches, StartMatches
      <4>2. Extract(start.config)[e[1]] # None /\ <<e[2], e[3]>> \in Extract(start.config)[e[1]]
        BY <1>1, <4>1, ExtractTracks DEF UTypes, PanelTypes, Starts
      <4>3. QED
        BY <3>3, <4>2 DEF IsTracked
    <3>4. QED
      BY <1>4, <3>1, <3>2, <3>3, CoreFacts
  <2>3. QED
    BY <2>1, <2>2
<1>5. ASSUME NEW p \in Callers, NewRequest(p) PROVE IsTracked(e)'
  <2>1. e \in users /\ hashes' = hashes /\ torn \subseteq torn'
    BY <1>5 DEF NewRequest, coreVars, hashVars
  <2>2. \A q \in Callers : job[q].pc = "track" => job'[q] = job[q]
    BY <1>5 DEF NewRequest
  <2>3. QED
    BY <1>2, <2>1, <2>2 DEF IsTracked
<1>6. ASSUME NEW p \in Callers, Handler(p) PROVE IsTracked(e)'
  <2>1. torn \subseteq torn' /\ \A q \in Callers \ {p} : job'[q] = job[q]
    BY <1>6, HandlerFrame
  <2>2. CASE e \in users
    <3>1. CASE Tracked(e[1], e[2], e[3])
      <4>1. Tracked(e[1], e[2], e[3])'
        <5>1. CASE e[2] # job[p].user
          BY <1>1, <1>6, <3>1, <5>1, HandlerFrame
        <5>2. CASE e[2] = job[p].user /\ ~RemoveUserFromInboundHash(p)
          BY <1>1, <1>6, <3>1, <5>2, OwnCredentials
        <5>3. CASE e[2] = job[p].user /\ RemoveUserFromInboundHash(p)
          <6>1. e[1] # job[p].tag
            BY <2>1, <2>2, <5>3 DEF RemoveUserFromInboundHash, JobInv, RemovedFirst
          <6>2. QED
            BY <1>1, <1>6, <3>1, <5>3, <6>1, OwnCredentials
        <5>4. QED
          BY <5>1, <5>2, <5>3
      <4>2. QED
        BY <4>1 DEF Tracked, IsTracked
    <3>2. CASE ~Tracked(e[1], e[2], e[3])
      <4>1. PICK q \in Callers :
              job[q].pc = "track" /\ job[q].tag = e[1] /\ job[q].user = e[2] /\ job[q].want[e[2]].version = e[3]
        BY <1>2, <2>1, <2>2, <3>2 DEF IsTracked, Tracked
      <4>2. CASE q # p
        BY <2>1, <4>1, <4>2 DEF IsTracked
      <4>3. CASE q = p
        <5>1. AddUserToInboundHash(p)
          BY <1>6, <4>1, <4>3 DEF Handler, CheckTags, NextUser, AddInboundTag, ListTags, HandlerAPI, RemoveUser,
             RemoveUserFromInboundHash, AddUser, Answer
        <5>2. Tracked(e[1], e[2], e[3])'
          BY <1>1, <1>6, <4>1, <4>3, <5>1, OwnCredentials
        <5>3. QED
          BY <5>2 DEF Tracked, IsTracked
      <4>4. QED
        BY <4>2, <4>3
    <3>3. QED
      BY <3>1, <3>2
  <2>3. CASE e \notin users
    <3>1. /\ e = <<job[p].tag, job[p].user, job[p].want[job[p].user].version>>
          /\ job'[p].pc = "track" /\ job'[p].tag = job[p].tag /\ SameUser(p)
      BY <1>6, <2>3, OwnEntries
    <3>2. QED
      BY <3>1 DEF SameUser, SameRequest, IsTracked
  <2>4. QED
    BY <2>2, <2>3
<1>7. QED
  BY <1>3, <1>4, <1>5, <1>6, StepCases

\* The credential v of user u is in rw-core at tag t, or about to be untracked.
InCore(t, u, v) ==
  \/ <<t, u, v>> \in users
  \/ \E p \in Callers : job[p].pc = "untrack" /\ job[p].tag = t /\ job[p].user = u

\* A credential is removed before it is untracked and added before it is tracked.
LEMMA TrackedInCoreNext == IInv /\ [Next]_vars => TrackedInCore'
<1> SUFFICES ASSUME IInv, [Next]_vars, UTypes', live', NEW t \in Tags, NEW u \in Users \ torn',
                    NEW v \in 0..MaxVersion, v = db'[u].version, Tracked(t, u, v)'
             PROVE  InCore(t, u, v)'
  <2>1. IInv /\ [Next]_vars => UTypes'
    BY NextTypes DEF IInv
  <2>2. UTypes' => \A u \in Users : db'[u].version \in 0..MaxVersion
    BY DEF UTypes, PanelTypes, Profiles
  <2>3. QED
    BY <2>1, <2>2 DEF TrackedInCore, InCore, Tracked
<1> USE DEF IInv
<1>1. live /\ u \notin torn /\ v = db[u].version /\ Tracked(t, u, v) => InCore(t, u, v)
  BY DEF TrackedInCore, InCore
<1>2. CASE UNCHANGED vars
  BY <1>1, <1>2 DEF vars, coreVars, hashVars, Tracked, InCore
<1>3. CASE CoreStep
  <2>1. UNCHANGED <<job, db>>
    BY <1>3, CoreFacts
  <2>2. CASE Serve
    <3>1. start.pc = "spawn" /\ u \notin start.dirty /\ hashes' = hashes /\ users' = start.config
      BY <2>2 DEF Serve, hashVars
    <3>2. QED
      BY <3>1 DEF Tracked, SwapMatches, InCore
  <2>3. CASE ~Serve
    <3>1. live /\ users' = users /\ u \notin torn
      BY <1>3, <2>3, CoreFacts
    <3>2. CASE hashes' = hashes
      BY <1>1, <2>1, <3>1, <3>2 DEF Tracked, InCore
    <3>3. CASE hashes' = [s \in Tags |-> None]
      BY <3>3 DEF Tracked
    <3>4. CASE Skip /\ hashes' = Extract(start.config)
      <4>1. <<t, u, v>> \in start.config
        BY <3>4, ExtractTracks DEF Tracked, UTypes, PanelTypes, Starts
      <4>2. <<t, u, v>> \in users
        BY <3>1, <3>4, <4>1 DEF Skip, SwapMatches
      <4>3. QED
        BY <3>1, <4>2 DEF InCore
    <3>5. QED
      BY <1>3, <3>2, <3>3, <3>4, CoreFacts
  <2>4. QED
    BY <2>2, <2>3
<1>4. ASSUME NEW p \in Callers, NewRequest(p) PROVE InCore(t, u, v)'
  <2>1. /\ live /\ users' = users /\ hashes' = hashes /\ u \notin torn
        /\ \A q \in Callers : job[q].pc = "untrack" => job'[q] = job[q]
    BY <1>4 DEF NewRequest, coreVars, hashVars
  <2>2. v <= db[u].version /\ db[u].version <= v /\ db[u].version \in 0..MaxVersion
    BY <1>4, <2>1 DEF Tracked, NotAhead, NewRequest, UTypes, PanelTypes, Profiles
  <2>3. v = db[u].version
    BY <2>2, ConstantsAssumption
  <2>4. QED
    BY <1>1, <2>1, <2>3 DEF Tracked, InCore
<1>5. ASSUME NEW p \in Callers, Handler(p) PROVE InCore(t, u, v)'
  <2>1. /\ live /\ u \notin torn /\ v = db[u].version /\ \A q \in Callers \ {p} : job'[q] = job[q]
    BY <1>5, HandlerFrame
  <2>2. job[p].user = u /\ job[p].pc \notin Resting => u \in job[p].batch
    BY CurrentUser
  \* The others are still about to untrack what they were.
  <2>3. ASSUME NEW q \in Callers \ {p}, job[q].pc = "untrack", job[q].tag = t, job[q].user = u
        PROVE  InCore(t, u, v)'
    BY <2>1, <2>3 DEF InCore
  <2>4. CASE u # job[p].user
    <3>1. Tracked(t, u, v) /\ (<<t, u, v>> \in users <=> <<t, u, v>> \in users')
      BY <1>5, <2>4, HandlerFrame
    <3>2. QED
      BY <1>1, <2>1, <2>3, <2>4, <3>1 DEF InCore
  <2>5. CASE u = job[p].user /\ AddUserToInboundHash(p)
    <3>1. users' = users /\ job[p].pc = "track"
      BY <2>5 DEF AddUserToInboundHash, coreVars
    <3>2. CASE Tracked(t, u, v)
      BY <1>1, <2>1, <2>3, <3>1, <3>2 DEF InCore
    <3>3. CASE ~Tracked(t, u, v)
      <4>1. t = job[p].tag /\ v = job[p].want[u].version
        BY <1>5, <2>5, <3>3, OwnCredentials
      <4>2. <<t, u, v>> \in users
        BY <2>1, <2>5, <3>1, <4>1 DEF JobInv, RemovedFirst
      <4>3. QED
        BY <3>1, <4>2 DEF InCore
    <3>4. QED
      BY <3>2, <3>3
  <2>6. CASE u = job[p].user /\ RemoveUserFromInboundHash(p)
    <3>1. users' = users /\ job[p].pc = "untrack"
      BY <2>6 DEF RemoveUserFromInboundHash, coreVars
    <3>2. Tracked(t, u, v) /\ ~(t = job[p].tag /\ v = job[p].prev[u])
      BY <1>5, <2>6, OwnCredentials
    <3>3. t # job[p].tag
      BY <2>1, <2>6, <3>1, <3>2 DEF JobInv, Fresh, Ahead, Removing
    <3>4. QED
      BY <1>1, <2>1, <2>3, <3>1, <3>2, <3>3 DEF InCore
  <2>7. CASE u = job[p].user /\ ~(AddUserToInboundHash(p) \/ RemoveUserFromInboundHash(p))
    <3>1. Tracked(t, u, v)
      BY <1>5, <2>7, OwnCredentials
    <3>2. job[p].pc # "untrack"
      BY <1>5, <2>7 DEF Handler, CheckTags, NextUser, AddInboundTag, ListTags, HandlerAPI, RemoveUser,
         AddUser, Answer
    <3>3. CASE <<t, u, v>> \in users /\ <<t, u, v>> \notin users'
      <4>1. RemoveUser(p)
        BY <1>5, <2>7, <3>3, AddUserFacts DEF Handler, CheckTags, NextUser, AddInboundTag, ListTags, HandlerAPI,
           Answer, coreVars
      <4>2. torn' # torn \cup {job[p].user}
        BY <2>7
      <4>3. /\ users' = users \ {e \in EntriesOf(u) : e[1] = job[p].tag}
            /\ job'[p].pc = "untrack" /\ job'[p].tag = job[p].tag /\ SameUser(p)
        BY <2>7, <3>3, <4>1, <4>2, RemoveUserFacts
      <4>4. t = job[p].tag
        BY <3>3, <4>3
      <4>5. QED
        BY <2>7, <4>3, <4>4 DEF SameUser, InCore
    <3>4. CASE <<t, u, v>> \in users'
      BY <3>4 DEF InCore
    <3>5. CASE <<t, u, v>> \notin users
      BY <1>1, <2>1, <2>3, <3>1, <3>2, <3>5 DEF InCore
    <3>6. QED
      BY <3>3, <3>4, <3>5
  <2>8. QED
    BY <2>4, <2>5, <2>6, <2>7
<1>6. QED
  BY <1>2, <1>3, <1>4, <1>5, StepCases

\* Equal sets mean equal users, for those that nothing else works on.
LEMMA SwapMatchesNext == IInv /\ [Next]_vars => SwapMatches'
<1> SUFFICES ASSUME IInv, [Next]_vars, UTypes' PROVE SwapMatches'
  BY NextTypes DEF IInv
<1> USE DEF IInv
\* A start and its users are left alone by what does not notice it.
<1>1. ASSUME start'.pc = start.pc, start'.config = start.config, start.dirty \subseteq start'.dirty,
             torn \subseteq torn', live' => live,
             start.pc = "spawn" => \A t \in Tags, u \in Users \ start'.dirty, v \in 0..MaxVersion :
               Tracked(t, u, v)' <=> Tracked(t, u, v),
             start.pc = "skip" => \A e \in Entries : e[2] \notin torn' =>
               (e \in users' => e \in users) /\ (live' /\ e \in users => e \in users')
      PROVE  SwapMatches'
  <2>1. start.config \subseteq Entries /\ users' \subseteq Entries
    BY DEF UTypes, PanelTypes, Starts, CoreTypes
  <2>2. start.pc = "spawn" => \A t \in Tags, u \in Users \ start'.dirty, v \in 0..MaxVersion :
          Tracked(t, u, v)' <=> <<t, u, v>> \in start.config
    BY <1>1 DEF SwapMatches
  <2>3. start.pc = "skip" =>
          /\ \A e \in users' : e[2] \notin torn' => e \in start.config
          /\ live' => \A e \in start.config : e[2] \notin torn' => e \in users'
    BY <1>1, <2>1 DEF SwapMatches
  <2>4. QED
    BY <1>1, <2>2, <2>3 DEF SwapMatches
<1>2. CASE UNCHANGED vars
  BY <1>1, <1>2 DEF vars, coreVars, hashVars, Tracked
<1>3. ASSUME start'.pc \notin {"spawn", "skip"} PROVE SwapMatches'
  BY <1>3 DEF SwapMatches
<1>4. CASE CoreStep
  <2>1. CASE SendStart \/ Skip \/ StartFinish \/ StartFail
    BY <1>3, <2>1 DEF SendStart, Skip, StartFinish, StartFail, NoStart
  <2>2. CASE Serve
    <3>1. start'.pc = "wait"
      BY <2>2 DEF Serve, UTypes, PanelTypes, Starts
    <3>2. QED
      BY <1>3, <3>1
  <2>3. CASE Compare
    <3>1. CASE start' = [start EXCEPT !.pc = "swap"]
      <4>1. start'.pc = "swap"
        BY <3>1 DEF UTypes, PanelTypes, Starts
      <4>2. QED
        BY <1>3, <4>1
    <3>2. CASE /\ live /\ ~NeedRestart(start.config) /\ start' = [start EXCEPT !.pc = "skip"]
               /\ start.pc = "compare" /\ UNCHANGED <<live, users, hashVars, job, db, torn>>
      <4>1. start'.pc = "skip" /\ start'.config = start.config
        BY <3>2 DEF UTypes, PanelTypes, Starts
      <4>2. hashes = Extract(start.config)
        BY <3>2 DEF NeedRestart
      <4>3. start.dirty \subseteq torn /\ \A p \in Callers : job[p].batch \subseteq torn
        BY <3>2 DEF StartMatches
      <4>4. \A p \in Callers : job[p].pc \notin Resting => job[p].user \in torn
        BY <4>3, CurrentUser
      <4>5. ASSUME NEW e \in users, e[2] \notin torn PROVE e \in start.config
        <5>1. e[1] \in Tags /\ e[2] \in Users /\ e[3] \in 0..MaxVersion /\ e = <<e[1], e[2], e[3]>>
          BY DEF UTypes, CoreTypes, Entries
        <5>2. hashes[e[1]] # None /\ <<e[2], e[3]>> \in hashes[e[1]]
          BY <4>4, <4>5 DEF UsersTracked, Resting
        <5>3. QED
          BY <4>2, <5>1, <5>2, ExtractTracks DEF UTypes, PanelTypes, Starts
      <4>6. ASSUME NEW e \in start.config, e[2] \notin torn PROVE e \in users
        <5>1. e[1] \in Tags /\ e[2] \in Users /\ e[3] \in 0..MaxVersion /\ e = <<e[1], e[2], e[3]>>
          BY DEF UTypes, PanelTypes, Starts, Entries
        <5>2. e[1] \in Inbounds /\ e[3] = db[e[2]].version
          BY <4>3, <4>6 DEF StartMatches
        <5>3. Tracked(e[1], e[2], db[e[2]].version)
          BY <4>2, <5>1, <5>2, ExtractTracks DEF Tracked, UTypes, PanelTypes, Starts
        <5>4. \A p \in Callers : ~(job[p].pc = "untrack" /\ job[p].user = e[2])
          BY <4>4, <4>6 DEF Resting
        <5>5. QED
          BY <3>2, <4>6, <5>1, <5>2, <5>3, <5>4 DEF TrackedInCore
      <4>7. QED
        BY <3>2, <4>1, <4>5, <4>6 DEF SwapMatches
    <3>3. QED
      BY <2>3, <3>1, <3>2 DEF Compare
  <2>4. CASE Swap
    <3>1. CASE start' = NoStart
      BY <1>3, <3>1 DEF NoStart
    <3>2. CASE start' = [start EXCEPT !.pc = "spawn"]
      <4>1. start'.pc = "spawn" /\ start'.config = start.config
        BY <3>2 DEF UTypes, PanelTypes, Starts
      <4>2. hashes' = Extract(start.config)
        BY <2>4 DEF Swap, Publish
      <4>3. ASSUME NEW t \in Tags, NEW u \in Users, NEW v \in 0..MaxVersion
            PROVE  Tracked(t, u, v)' <=> <<t, u, v>> \in start.config
        <5>1. <<t, u, v>> \in start.config => t \in Inbounds
          BY DEF StartMatches
        <5>2. QED
          BY <4>2, <5>1, ExtractTracks DEF Tracked, UTypes, PanelTypes, Starts
      <4>4. QED
        BY <4>1, <4>3 DEF SwapMatches
    <3>3. QED
      BY <2>4, <3>1, <3>2 DEF Swap
  <2>5. CASE Stop
    BY <1>3, <2>5 DEF Stop, NoStart
  <2>6. CASE CoreExit \/ HealthPoll
    BY <1>1, <2>6 DEF CoreExit, HealthPoll, hashVars, Tracked
  <2>7. QED
    BY <1>4, <2>1, <2>2, <2>3, <2>4, <2>5, <2>6 DEF CoreStep
<1>5. ASSUME NEW p \in Callers, NewRequest(p) PROVE SwapMatches'
  <2>1. CASE start = NoStart
    BY <1>3, <1>5, <2>1 DEF NewRequest, NoStart
  <2>2. CASE start # NoStart
    <3>1. start' = [start EXCEPT !.dirty = @ \cup job'[p].batch]
      BY <1>5, <2>2 DEF NewRequest
    <3>2. start'.pc = start.pc /\ start'.config = start.config /\ start'.dirty = start.dirty \cup job'[p].batch
      BY <3>1 DEF UTypes, PanelTypes, Starts
    <3>3. live' = live /\ users' = users /\ hashes' = hashes /\ torn \subseteq torn'
      BY <1>5 DEF NewRequest, coreVars, hashVars
    <3>4. QED
      BY <1>1, <3>2, <3>3 DEF Tracked
  <2>3. QED
    BY <2>1, <2>2
<1>6. ASSUME NEW p \in Callers, Handler(p) PROVE SwapMatches'
  <2>1. /\ UNCHANGED <<live, start, db>> /\ torn \subseteq torn'
        /\ \A e : e[2] # job[p].user => (e \in users' <=> e \in users)
        /\ \A t \in Tags, u \in Users, v \in 0..MaxVersion :
             u # job[p].user => (Tracked(t, u, v)' <=> Tracked(t, u, v))
    BY <1>6, HandlerFrame
  <2>2. start.pc # "none" => job[p].user \in start.dirty \cup {None} /\ start.dirty \subseteq torn
    BY DEF StartMatches, UTypes, JobTypes, JobOK
  <2>3. \A u \in Users : u # None
    BY ConstantsAssumption
  <2>4. \A e \in Entries : e[2] \in Users
    BY DEF Entries
  <2>5. start.pc = "spawn" => \A t \in Tags, u \in Users \ start.dirty, v \in 0..MaxVersion :
          Tracked(t, u, v)' <=> Tracked(t, u, v)
    BY <2>1, <2>2, <2>3
  <2>6. start.pc = "skip" => \A e \in Entries : e[2] \notin torn' => (e \in users' <=> e \in users)
    BY <2>1, <2>2, <2>3, <2>4
  <2>7. QED
    BY <1>1, <2>1, <2>5, <2>6
<1>7. QED
  BY <1>2, <1>4, <1>5, <1>6, StepCases

-----------------------------------------------------------------------------
(***************************************************************************)
(* The theorems.                                                           *)
(***************************************************************************)

\* A node at rest, with the panel's users or with none.
LEMMA InitInv == Init => IInv
<1> SUFFICES ASSUME Init PROVE IInv
  OBVIOUS
<1>1. UTypes
  BY InitTypes
<1>2. /\ job = [p \in Callers |-> Idle] /\ start = NoStart /\ torn = {}
      /\ db \in [Users -> {d \in Profiles : d.version = 0}]
      /\ \/ live /\ users = Config(db) /\ hashes = Extract(Config(db)) /\ tags = Inbounds
         \/ ~live /\ users = {} /\ hashes = [t \in Tags |-> None] /\ tags = {}
  BY DEF Init
<1>3. \A p \in Callers : job[p].pc = "idle" /\ job[p].batch = {} /\ job[p].left = {} /\ job[p].failed = FALSE
  BY <1>2 DEF Idle
<1>4. start.pc = "none" /\ start.config = {}
  BY <1>2 DEF NoStart
<1>5. Config(db) \subseteq Entries /\ \A e \in Config(db) : e[1] \in Inbounds /\ e[3] = db[e[2]].version
  BY DEF Config
<1>6. ASSUME NEW t \in Tags, NEW u \in Users, NEW v \in 0..MaxVersion
      PROVE  /\ Tracked(t, u, v) <=> <<t, u, v>> \in users
             /\ Tracked(t, u, v) => v = db[u].version
  <2>1. <<t, u, v>> \in Config(db) => t \in Inbounds /\ v = db[u].version
    BY <1>5
  <2>2. CASE live
    BY <1>2, <1>5, <2>1, <2>2, ExtractTracks DEF Tracked
  <2>3. CASE ~live
    BY <1>2, <2>3 DEF Tracked
  <2>4. QED
    BY <2>2, <2>3
<1>7. JobsApart /\ StartMatches /\ SwapMatches
  BY <1>2, <1>3, <1>4 DEF JobsApart, StartMatches, SwapMatches
<1>8. NotAhead
  <2>1. \A u \in Users : db[u].version \in Nat
    BY <1>1, ConstantsAssumption DEF UTypes, PanelTypes, Profiles
  <2>2. SUFFICES ASSUME NEW t \in Tags, NEW u \in Users, NEW v \in 0..MaxVersion, Tracked(t, u, v)
                 PROVE  v <= db[u].version
    BY DEF NotAhead
  <2>3. v = db[u].version
    BY <1>6, <2>2
  <2>4. QED
    BY <2>1, <2>3
<1>9. TrackedInCore
  <2>1. \A u \in Users : db[u].version \in 0..MaxVersion
    BY <1>1 DEF UTypes, PanelTypes, Profiles
  <2>2. QED
    BY <1>6, <2>1 DEF TrackedInCore
<1>10. TrackedIsListed
  BY <1>2 DEF TrackedIsListed, Extract
<1>11. UsersTracked
  <2>1. SUFFICES ASSUME NEW e \in users PROVE Tracked(e[1], e[2], e[3])
    BY DEF UsersTracked, Tracked
  <2>2. e[1] \in Tags /\ e[2] \in Users /\ e[3] \in 0..MaxVersion /\ e = <<e[1], e[2], e[3]>>
    BY <1>1 DEF UTypes, CoreTypes, Entries
  <2>3. QED
    BY <1>6, <2>2
<1>12. OneCredential
  BY <1>2, <1>5 DEF OneCredential
<1>13. ASSUME NEW p \in Callers PROVE JobInv(p)
  <2>1. Asked(p) /\ Fresh(p)
    BY <1>3, <1>13 DEF Asked, Fresh, Ahead, Removing
  <2>2. RemovedFirst(p) /\ AddedSoFar(p)
    BY <1>3, <1>13 DEF RemovedFirst, AddedSoFar, Removing, Adding
  <2>3. BatchDone(p)
    BY <1>3, <1>13 DEF BatchDone, Done
  <2>4. QED
    BY <2>1, <2>2, <2>3 DEF JobInv
<1>14. QED
  BY <1>1, <1>7, <1>8, <1>9, <1>10, <1>11, <1>12, <1>13 DEF IInv

\* The invariant is inductive.
LEMMA NextInv == IInv /\ [Next]_vars => IInv'
<1> SUFFICES ASSUME IInv, [Next]_vars PROVE IInv'
  OBVIOUS
<1>1. UTypes'
  BY NextTypes DEF IInv
<1>2. \A p \in Callers : JobInv(p)'
  BY <1>1, JobInvNext
<1>3. QED
  BY <1>1, <1>2, JobsApartNext, StartMatchesNext, NotAheadNext, TrackedInCoreNext, SwapMatchesNext,
     TrackedIsListedNext, UsersTrackedNext, OneCredentialNext DEF IInv

\* The inductive invariant holds of every behaviour of the node.
THEOREM Invariance == Spec => []IInv
  BY InitInv, NextInv, PTL DEF Spec

\* Every variable keeps its type, and the record of a request its order: a
\* request works on users of its batch, each once.
THEOREM TypeCorrect == Spec => []TypeOK
<1>1. IInv => TypeOK
  <2>1. UTypes => /\ live \in BOOLEAN /\ xrayOnline \in BOOLEAN /\ known \in BOOLEAN
                  /\ users \subseteq Entries /\ tags \subseteq Tags
                  /\ hashes \in [Tags -> (SUBSET Credentials) \cup {None}]
                  /\ db \in [Users -> Profiles] /\ torn \subseteq Users
                  /\ start.config \subseteq Entries /\ start.dirty \subseteq Users
    BY DEF UTypes, CoreTypes, SetTypes, PanelTypes, Starts
  <2>2. ASSUME UTypes, NEW p \in Callers
        PROVE  /\ job[p].want \in [Users -> Profiles] /\ job[p].prev \in [Users -> 0..MaxVersion]
               /\ job[p].todo \subseteq Tags /\ job[p].left \subseteq job[p].batch
               /\ job[p].user \in (job[p].batch \ job[p].left) \cup {None}
               /\ job[p].pc \in {"removing", "adding", "untrack", "track"} <=> job[p].tag # None
               /\ job[p].tag \in Tags \cup {None}
    BY <2>2 DEF UTypes, JobTypes, JobOK, Jobs, Called
  <2>3. QED
    BY <2>1, <2>2 DEF IInv, TypeOK
<1>2. QED
  BY <1>1, Invariance, PTL

\* RemoveUserFromInboundHash forgets an inbound's set and its tag together:
\* an inbound whose credentials are tracked is one that removals look at.
THEOREM ListedTheorem == Spec => []TrackedIsListed
<1>1. IInv => TrackedIsListed
  BY DEF IInv
<1>2. QED
  BY <1>1, Invariance, PTL

\* Whatever the interleaving of requests, starts, stops and exits, rw-core
\* has no user behind the node's back: it is tracked, or about to be.
THEOREM TrackedTheorem == Spec => []UsersTracked
<1>1. IInv => UsersTracked
  BY DEF IInv
<1>2. QED
  BY <1>1, Invariance, PTL

\* A user whose removal failed is not added again: nobody has two credentials.
THEOREM OneCredentialTheorem == Spec => []OneCredential
<1>1. IInv => OneCredential
  BY DEF IInv
<1>2. QED
  BY <1>1, Invariance, PTL

\* The answer to a user request that reports success is true of rw-core.
THEOREM AnswerTheorem == Spec => []AnswerIsTrue
<1>1. IInv => AnswerIsTrue
  <2>1. SUFFICES ASSUME IInv, NEW p \in Callers, job[p].pc = "answer", job[p].ok, live
                 PROVE  \A u \in job[p].batch \ torn :
                          users \cap EntriesOf(u) = Config(job[p].want) \cap EntriesOf(u)
    BY DEF AnswerIsTrue
  <2>2. Done(p) = job[p].batch /\ BatchDone(p)
    BY <2>1 DEF Done, IInv, JobInv
  <2>3. QED
    BY <2>1, <2>2 DEF BatchDone
<1>2. QED
  BY <1>1, Invariance, PTL

\* A start that finds the sets unchanged, and leaves rw-core running, leaves
\* it with the users the panel asks for.
THEOREM SkipTheorem == Spec => []SkipIsSound
<1>1. IInv => SkipIsSound
  <2>1. SUFFICES ASSUME IInv, start.pc = "skip", live, NEW u \in Users \ torn
                 PROVE  users \cap EntriesOf(u) = start.config \cap EntriesOf(u)
    BY DEF SkipIsSound
  <2>2. \A e \in users : e[2] = u => e \in start.config
    BY <2>1 DEF IInv, SwapMatches
  <2>3. \A e \in start.config : e[2] = u => e \in users
    BY <2>1 DEF IInv, SwapMatches
  <2>4. QED
    BY <2>2, <2>3 DEF EntriesOf
<1>2. QED
  BY <1>1, Invariance, PTL
=============================================================================
