----------------------- MODULE VersionLifecycleProofs ------------------------
(***************************************************************************)
(* Theorems about VersionLifecycle, for any commits, tasks, requests and   *)
(* runs, any faults and any bounds.                                        *)
(***************************************************************************)
EXTENDS VersionLifecycle, TLAPS

(* A task, a request or a run that goes on has a version; a request that   *)
(* does not has none.                                                      *)
Busy ==
  /\ \A t \in Task : conn[t].pc # "idle" => conn[t].v \in Version
  /\ \A q \in Request : gen[q].pc # "idle" <=> gen[q].v \in Version
  /\ \A r \in Run : insp[r].pc # "idle" <=> insp[r].v \in Version

(* Rows belong to the asset: there are none before it and none after it,   *)
(* and no push is handled before it.  An accepted push has a predecessor.  *)
Rooted ==
  /\ asset # "present" => \A v \in Version : ~Exists(v)
  /\ asset = "none" => \A v \in Version : push[v].pc = "idle"
  /\ \A v \in Version : push[v].pc = "insert" => push[v].prev \in Version

(* Nobody works, or has worked, for version v.                             *)
Untouched(v) ==
  /\ ~Exists(v) /\ v \notin nodes /\ v \notin event /\ billed[v] = 0
  /\ jobs[v] = 0 /\ v \notin ran
  /\ \A t \in Task : conn[t].v # v
  /\ \A q \in Request : gen[q].v # v
  /\ \A r \in Run : insp[r].v # v

(* A version is untouched until its row was inserted: a row is inserted    *)
(* once, and a deleted one does not come back.                             *)
Pristine ==
  \A v \in Version : push[v].pc \in {"idle", "insert", "ignored"} => Untouched(v)

(* The steps from a request to an inspection of v.                         *)
ToInspect(v) ==
  \/ billed[v] > 0 \/ jobs[v] > 0 \/ v \in ran
  \/ \E t \in Task : conn[t].v = v /\ conn[t].pc = "spawn"
  \/ \E q \in Request : gen[q].v = v
  \/ \E r \in Run : insp[r].v = v

(* What is connected, and what is or was on the way to an inspection, has  *)
(* its nodes.                                                              *)
HasNodes ==
  \A v \in Version :
    Exists(v) /\ (status[v] = "CONNECTED" \/ ToInspect(v)) => v \in nodes

(* A version with no predecessor is generated, queued or inspected only    *)
(* after its debit.                                                        *)
Paid ==
  /\ \A q \in Request : gen[q].pc \in {"commit", "spawn"} => billed[gen[q].v] > 0
  /\ \A r \in Run : insp[r].pc # "idle" => insp[r].v \in ran
  /\ \A v \in Version : (Exists(v) /\ prev[v] = NoVersion) =>
       ((\/ status[v] = "GENERATING" \/ v \in ran \/ jobs[v] > 0
         \/ \E t \in Task : conn[t].v = v /\ conn[t].pc = "spawn") => billed[v] > 0)

(* What a run has done so far is in the bucket and in the database.        *)
Progress ==
  Kept =>
    /\ files \subseteq archive
    /\ \A r \in Run :
         /\ insp[r].pc \in {"diff", "inspect", "complete"} => insp[r].v \in files
         /\ insp[r].pc = "complete" => insp[r].v \in nodes \cap docs

(* The requests for a version that read it one after the other: the second *)
(* finds a status that the first has set.                                  *)
Billing ==
  \A v \in Version : v \notin overlap /\ v \notin lost =>
    /\ \A p, q \in Request : gen[p].v = v /\ gen[q].v = v => p = q
    /\ billed[v] <= 1
    /\ \A q \in Request : gen[q].v = v /\ gen[q].pc = "debit" => billed[v] = 0
    /\ status[v] = "CONNECTED" /\ billed[v] > 0 =>
         \E q \in Request : gen[q].v = v /\ gen[q].pc = "commit"

TaskState == [pc : {"idle", "unpack", "store", "nodes", "spawn"},
              v : Version \cup {NoVersion}, clash : BOOLEAN]

RunState == [pc : {"idle", "load", "files", "diff", "inspect", "complete"},
             v : Version \cup {NoVersion}, seen : Status \cup {"none"},
             base : Version \cup {NoVersion}]

IInv ==
  TypeOK /\ Busy /\ Rooted /\ Pristine /\ HasNodes /\ Paid
  /\ Progress /\ CompleteSound /\ BaseSound /\ Billing /\ Owned
------------------------------------------------------------------------------
(* The two forms of an update of a status have the same effect on it.      *)
LEMMA StatusSet ==
  ASSUME TypeOK, NEW v \in Version, NEW s \in Status,
         UpdateStatus(v, s) \/ SetStatus(v, s)
  PROVE /\ status' = IF Exists(v) THEN [status EXCEPT ![v] = s] ELSE status
        /\ status' \in [Version -> Status \cup {"none"}]
        /\ newer' \subseteq Version \X Version
<1>1. /\ status \in [Version -> Status \cup {"none"}]
      /\ newer \subseteq Version \X Version
  BY DEF TypeOK
<1>2. Rows \subseteq Version
  BY DEF Rows
<1> QED
  BY <1>1, <1>2 DEF UpdateStatus, SetStatus, Exists

(* The status of v becomes s if there is a row.                            *)
Set(v, s) == IF Exists(v) THEN [status EXCEPT ![v] = s] ELSE status

(* What each action does to the statuses.                                  *)
LEMMA StatusEffects ==
  ASSUME TypeOK, Busy
  PROVE /\ \A v \in Version : Threat(v) => status' = Set(v, "CONNECTION_FAILED")
        /\ \A t \in Task : ConnUnpack(t) =>
             status' = status \/ status' = Set(conn[t].v, "CONNECTION_FAILED")
        /\ \A t \in Task : NodesCommit(t) =>
             status' = IF status[conn[t].v] = "GENERATING" THEN status
                       ELSE Set(conn[t].v, "CONNECTED")
        /\ \A t \in Task : ConnSpawn(t) =>
             status' = status \/ status' = Set(conn[t].v, "GENERATION_ERROR")
        /\ \A q \in Request : GenCommit(q) => status' = Set(gen[q].v, "GENERATING")
        /\ \A r \in Run : InspLoad(r) =>
             status' = IF status[insp[r].v] = "GENERATION_ERROR"
                       THEN Set(insp[r].v, "GENERATING") ELSE status
        /\ \A r \in Run : InspFiles(r) =>
             status' = IF insp[r].seen = "CONNECTED"
                       THEN Set(insp[r].v, "GENERATING") ELSE status
        /\ \A r \in Run : InspDiff(r) =>
             status' = status \/ status' = Set(insp[r].v, "INSUFFICIENT_BALANCE")
        /\ \A r \in Run : InspComplete(r) => status' = Set(insp[r].v, "GENERATION_COMPLETE")
        /\ \A r \in Run : InspRaise(r) => status' = Set(insp[r].v, "GENERATION_ERROR")
<1>1. ASSUME NEW v \in Version, NEW s \in Status, UpdateStatus(v, s) \/ SetStatus(v, s)
      PROVE status' = Set(v, s)
  BY <1>1, StatusSet DEF Set
<1>2. /\ \A t \in Task : conn[t].pc # "idle" => conn[t].v \in Version
      /\ \A q \in Request : gen[q].pc # "idle" => gen[q].v \in Version
      /\ \A r \in Run : insp[r].pc # "idle" => insp[r].v \in Version
  BY DEF Busy
<1>3. /\ {"CONNECTION_FAILED", "CONNECTED", "GENERATION_ERROR", "GENERATING"} \subseteq Status
      /\ {"INSUFFICIENT_BALANCE", "GENERATION_COMPLETE"} \subseteq Status
  BY DEF Status
<1>4. ASSUME NEW v \in Version, Threat(v) PROVE status' = Set(v, "CONNECTION_FAILED")
  BY <1>1, <1>3, <1>4 DEF Threat
<1>5. ASSUME NEW t \in Task, ConnUnpack(t)
      PROVE status' = status \/ status' = Set(conn[t].v, "CONNECTION_FAILED")
  BY <1>1, <1>2, <1>3, <1>5 DEF ConnUnpack
<1>6. ASSUME NEW t \in Task, NodesCommit(t)
      PROVE status' = IF status[conn[t].v] = "GENERATING" THEN status
                      ELSE Set(conn[t].v, "CONNECTED")
  BY <1>1, <1>2, <1>3, <1>6 DEF NodesCommit
<1>7. ASSUME NEW t \in Task, ConnSpawn(t)
      PROVE status' = status \/ status' = Set(conn[t].v, "GENERATION_ERROR")
  BY <1>1, <1>2, <1>3, <1>7 DEF ConnSpawn
<1>8. ASSUME NEW q \in Request, GenCommit(q) PROVE status' = Set(gen[q].v, "GENERATING")
  BY <1>1, <1>2, <1>3, <1>8 DEF GenCommit
<1>9. ASSUME NEW r \in Run, InspLoad(r)
      PROVE status' = IF status[insp[r].v] = "GENERATION_ERROR"
                      THEN Set(insp[r].v, "GENERATING") ELSE status
  BY <1>1, <1>2, <1>3, <1>9 DEF InspLoad
<1>10. ASSUME NEW r \in Run, InspFiles(r)
       PROVE status' = IF insp[r].seen = "CONNECTED"
                       THEN Set(insp[r].v, "GENERATING") ELSE status
  BY <1>1, <1>2, <1>3, <1>10 DEF InspFiles
<1>11. ASSUME NEW r \in Run, InspDiff(r)
       PROVE status' = status \/ status' = Set(insp[r].v, "INSUFFICIENT_BALANCE")
  BY <1>1, <1>2, <1>3, <1>11 DEF InspDiff
<1>12. ASSUME NEW r \in Run, InspComplete(r)
       PROVE status' = Set(insp[r].v, "GENERATION_COMPLETE")
  BY <1>1, <1>2, <1>3, <1>12 DEF InspComplete
<1>13. ASSUME NEW r \in Run, InspRaise(r)
       PROVE status' = Set(insp[r].v, "GENERATION_ERROR")
  BY <1>1, <1>2, <1>3, <1>13 DEF InspRaise
<1> QED
  BY <1>4, <1>5, <1>6, <1>7, <1>8, <1>9, <1>10, <1>11, <1>12, <1>13

(* An update of a status neither makes nor removes a row.                  *)
LEMMA RowsKept ==
  ASSUME TypeOK, NEW v, NEW s \in Status, status' = Set(v, s)
  PROVE \A w \in Version : Exists(w)' = Exists(w)
BY DEF TypeOK, Set, Exists, Status

PushState == [pc : {"idle", "insert", "upload", "done", "ignored"},
              status : {"none", "CONNECTING", "GENERATING"},
              prev : Version \cup {NoVersion}]

(* The row a webhook task inserts is typed.                                *)
LEMMA InsertTyped ==
  ASSUME TypeOK, NEW v \in Version, NEW s \in Status \cup {"none"},
         NEW p \in Version \cup {NoVersion}, Insert(v, s, p)
  PROVE  /\ status' \in [Version -> Status \cup {"none"}]
         /\ prev' \in [Version -> Version \cup {NoVersion}]
         /\ newer' \subseteq Version \X Version
         /\ push' \in [Version -> PushState]
<1>1. /\ status \in [Version -> Status \cup {"none"}]
      /\ prev \in [Version -> Version \cup {NoVersion}]
      /\ newer \subseteq Version \X Version
      /\ push \in [Version -> PushState]
  BY DEF TypeOK, PushState
<1>2. Rows \subseteq Version
  BY DEF Rows
<1>3. status' \in [Version -> Status \cup {"none"}]
  BY <1>1 DEF Insert
<1>4. prev' \in [Version -> Version \cup {NoVersion}]
  BY <1>1 DEF Insert
<1>5. newer' \subseteq Version \X Version
  BY <1>1, <1>2 DEF Insert
<1>6. push' \in [Version -> PushState]
  BY <1>1 DEF Insert, PushState
<1> QED
  BY <1>3, <1>4, <1>5, <1>6

(* Each variable keeps its type.                                           *)
LEMMA TypeNext == IInv /\ [Next]_vars => TypeOK'
<1> SUFFICES ASSUME IInv, [Next]_vars PROVE TypeOK'
  OBVIOUS
<1> USE LifecycleAssumption
<1>0. TypeOK /\ Busy
  BY DEF IInv
<1>1. ASSUME NEW v \in Version, AddRepository(v) PROVE TypeOK'
  <2>1. /\ status' \in [Version -> Status \cup {"none"}]
        /\ prev' \in [Version -> Version \cup {NoVersion}]
        /\ newer' \subseteq Version \X Version
        /\ push' \in [Version -> PushState]
    <3>1. Insert(v, "CONNECTING", NoVersion) /\ "CONNECTING" \in Status
      BY <1>1 DEF AddRepository, Status
    <3> QED
      BY <1>0, <3>1, InsertTyped
  <2> QED
    BY <1>0, <1>1, <2>1 DEF TypeOK, PushState, AddRepository, objects
<1>2. ASSUME NEW v \in Version, PushRead(v) PROVE TypeOK'
  <2>1. CASE push' = [push EXCEPT ![v].pc = "ignored"]
    <3>1. push' \in [Version -> PushState]
      BY <1>0, <2>1 DEF TypeOK, PushState
    <3>2. UNCHANGED <<rows, objects, event, removal, conn, gen, jobs, insp, ran,
                      lost, overlap, repeats>>
      BY <1>2 DEF PushRead
    <3> QED
      BY <1>0, <3>1, <3>2 DEF TypeOK, PushState, rows, objects
  <2>2. CASE \E p \in Rows : Accept(v, "CONNECTING", p) \/ Accept(v, "GENERATING", p)
    <3>1. PICK p \in Version : Accept(v, "CONNECTING", p) \/ Accept(v, "GENERATING", p)
      BY <2>2 DEF Rows
    <3> QED
      <4>1. push' \in [Version -> PushState]
        BY <1>0, <3>1 DEF TypeOK, PushState, Accept
      <4>2. UNCHANGED <<rows, objects, event, removal, conn, gen, jobs, insp, ran,
                        lost, overlap, repeats>>
        BY <1>2 DEF PushRead
      <4> QED
        BY <1>0, <4>1, <4>2 DEF TypeOK, PushState, rows, objects
  <2> QED
    BY <1>2, <2>1, <2>2 DEF PushRead
<1>3. ASSUME NEW v \in Version, PushInsert(v) PROVE TypeOK'
  <2>1. push[v].status \in Status \cup {"none"} /\ push[v].prev \in Version \cup {NoVersion}
    BY <1>0 DEF TypeOK, Status
  <2>2. /\ status' \in [Version -> Status \cup {"none"}]
        /\ prev' \in [Version -> Version \cup {NoVersion}]
        /\ newer' \subseteq Version \X Version
        /\ push' \in [Version -> PushState]
    BY <1>0, <1>3, <2>1, InsertTyped DEF PushInsert
  <2> QED
    BY <1>0, <1>3, <2>2 DEF TypeOK, PushState, PushInsert, objects
<1>4. ASSUME NEW v \in Version, PushInsertFail(v) PROVE TypeOK'
  <2>1. push' \in [Version -> PushState]
    BY <1>0, <1>4 DEF TypeOK, PushState, PushInsertFail, NoPush
  <2> QED
    BY <1>0, <1>4, <2>1 DEF TypeOK, PushState, PushInsertFail, rows, objects
<1>5. ASSUME NEW v \in Version, PushUpload(v) PROVE TypeOK'
  <2>1. push' \in [Version -> PushState]
    BY <1>0, <1>5 DEF TypeOK, PushState, PushUpload
  <2>2. upload' \in [Version -> ArchiveKind \cup {"none"}] /\ event' \subseteq Version
    BY <1>0, <1>5, LifecycleAssumption DEF TypeOK, PushUpload
  <2> QED
    BY <1>0, <1>5, <2>1, <2>2 DEF TypeOK, PushState, PushUpload, rows
<1>6. ASSUME NEW v \in Version, PushFail(v) PROVE TypeOK'
  <2>1. push' \in [Version -> PushState] /\ lost' \subseteq Version
    BY <1>0, <1>6 DEF TypeOK, PushState, PushFail, Unnoticed
  <2> QED
    BY <1>0, <1>6, <2>1 DEF TypeOK, PushState, PushFail, rows, objects
<1>7. ASSUME RemoveRead PROVE TypeOK'
  BY <1>0, <1>7 DEF TypeOK, Busy, Status, RemoveRead, rows, objects
<1>8. ASSUME DeleteObjects PROVE TypeOK'
  BY <1>0, <1>8 DEF TypeOK, Busy, Status, DeleteObjects, rows, objects
<1>9. ASSUME DeleteRows PROVE TypeOK'
  <2>1. /\ status' \in [Version -> Status \cup {"none"}]
        /\ prev' \in [Version -> Version \cup {NoVersion}]
        /\ newer' \subseteq Version \X Version
        /\ nodes' = {} /\ docs' = {}
    BY <1>9 DEF DeleteRows
  <2> QED
    BY <1>0, <1>9, <2>1 DEF TypeOK, DeleteRows, objects
<1>10. ASSUME NEW t \in Task, NEW v \in Version, Connect(t, v) PROVE TypeOK'
  BY <1>0, <1>10 DEF TypeOK, Busy, Status, Connect, Delivered, Repeat, rows,
     objects
<1>11. ASSUME NEW v \in Version, Threat(v) PROVE TypeOK'
  <2>1. /\ status' \in [Version -> Status \cup {"none"}]
        /\ newer' \subseteq Version \X Version
    BY StatusSet, <1>0, <1>11 DEF Threat, Status
  <2>2. event' \subseteq Version /\ repeats' \in Nat
    BY <1>0, <1>11 DEF TypeOK, Threat, Delivered, Repeat
  <2> QED
    BY <1>0, <1>11, <2>1, <2>2 DEF TypeOK, Threat, objects
<1>12. ASSUME NEW v \in Version, Drop(v) PROVE TypeOK'
  BY <1>0, <1>12 DEF TypeOK, Busy, Status, Drop, Unnoticed, rows, objects
<1>13. ASSUME NEW t \in Task, ConnUnpack(t) PROVE TypeOK'
  <2>1. conn[t].v \in Version
    BY <1>0, <1>13 DEF Busy, ConnUnpack
  <2>2. /\ status' \in [Version -> Status \cup {"none"}]
        /\ newer' \subseteq Version \X Version
    BY <1>0, <1>13, <2>1, StatusSet DEF ConnUnpack, TypeOK, Status
  <2>3. conn' \in [Task -> TaskState]
    <3>1. conn \in [Task -> TaskState]
      BY <1>0 DEF TypeOK, TaskState
    <3>2. conn' = [conn EXCEPT ![t].pc = "store"] \/ conn' = [conn EXCEPT ![t] = NoTask]
      BY <1>13 DEF ConnUnpack
    <3>3. NoTask \in TaskState
      BY DEF NoTask, TaskState
    <3>4. [conn[t] EXCEPT !.pc = "store"] \in TaskState
      BY <3>1 DEF TaskState
    <3> QED
      BY <3>1, <3>2, <3>3, <3>4
  <2> QED
    BY <1>0, <1>13, <2>2, <2>3 DEF TypeOK, ConnUnpack, TaskState, objects
<1>14. ASSUME NEW t \in Task, ConnStore(t) PROVE TypeOK'
  BY <1>0, <1>14 DEF TypeOK, Busy, Status, ConnStore, rows, objects
<1>15. ASSUME NEW t \in Task, NodesCommit(t) PROVE TypeOK'
  <2>1. conn[t].v \in Version
    BY <1>0, <1>15 DEF Busy, NodesCommit
  <2>2. /\ status' \in [Version -> Status \cup {"none"}]
        /\ newer' \subseteq Version \X Version
    BY <1>0, <1>15, <2>1, StatusSet DEF NodesCommit, TypeOK, Status
  <2>3. conn' \in [Task -> TaskState]
    <3>1. conn \in [Task -> TaskState]
      BY <1>0 DEF TypeOK, TaskState
    <3>2. NoTask \in TaskState /\ [conn[t] EXCEPT !.pc = "spawn"] \in TaskState
      BY <3>1 DEF NoTask, TaskState
    <3>3. \A u \in Task : [conn[u] EXCEPT !.clash = conn[u].pc = "nodes"] \in TaskState
      BY <3>1 DEF TaskState
    <3> QED
      BY <1>15, <3>2, <3>3 DEF NodesCommit
  <2> QED
    BY <1>0, <1>15, <2>1, <2>2, <2>3 DEF TypeOK, NodesCommit, TaskState,
       objects
<1>16. ASSUME NEW t \in Task, NodesAbort(t) PROVE TypeOK'
  BY <1>0, <1>16 DEF TypeOK, Busy, Status, NodesAbort, NoTask, Unnoticed,
     rows, objects
<1>17. ASSUME NEW t \in Task, ConnSpawn(t) PROVE TypeOK'
  <2>1. conn[t].v \in Version
    BY <1>0, <1>17 DEF Busy, ConnSpawn
  <2>2. /\ status' \in [Version -> Status \cup {"none"}]
        /\ newer' \subseteq Version \X Version
    BY <1>0, <1>17, <2>1, StatusSet DEF ConnSpawn, TypeOK, Status
  <2>3. jobs' \in [Version -> Nat]
    BY <1>0, <1>17 DEF ConnSpawn, TypeOK
  <2> QED
    BY <1>0, <1>17, <2>2, <2>3 DEF TypeOK, ConnSpawn, NoTask, objects
<1>18. ASSUME NEW t \in Task, ConnFail(t) PROVE TypeOK'
  BY <1>0, <1>18 DEF TypeOK, Busy, Status, ConnFail, NoTask, Unnoticed, rows,
     objects
<1>19. ASSUME NEW q \in Request, NEW v \in Version, GenRead(q, v) PROVE TypeOK'
  BY <1>0, <1>19 DEF TypeOK, Busy, Status, GenRead, rows, objects
<1>20. ASSUME NEW q \in Request, GenDebit(q) PROVE TypeOK'
  BY <1>0, <1>20 DEF TypeOK, Busy, Status, GenDebit, rows, objects
<1>21. ASSUME NEW q \in Request, GenCommit(q) PROVE TypeOK'
  <2>1. gen[q].v \in Version /\ "GENERATING" \in Status
    BY <1>0, <1>21 DEF Busy, GenCommit, Status
  <2>2. /\ status' \in [Version -> Status \cup {"none"}]
        /\ newer' \subseteq Version \X Version
    BY <1>0, <1>21, <2>1, StatusSet DEF GenCommit
  <2>3. gen' \in [Request -> [pc : {"idle", "debit", "commit", "spawn"},
                             v : Version \cup {NoVersion}]]
    BY <1>0, <1>21 DEF TypeOK, GenCommit, NoRequest
  <2> QED
    BY <1>0, <1>21, <2>2, <2>3 DEF TypeOK, GenCommit, objects
<1>22. ASSUME NEW q \in Request, GenSpawn(q) PROVE TypeOK'
  BY <1>0, <1>22 DEF TypeOK, Busy, Status, GenSpawn, NoRequest, rows, objects
<1>23. ASSUME NEW q \in Request, GenFail(q) PROVE TypeOK'
  BY <1>0, <1>23 DEF TypeOK, Busy, Status, GenFail, NoRequest, Unnoticed,
     rows, objects
<1>24. ASSUME NEW r \in Run, NEW v \in Version, InspTake(r, v) PROVE TypeOK'
  <2>1. jobs' \in [Version -> Nat] /\ repeats' \in Nat
    BY <1>0, <1>24 DEF InspTake, Repeat, TypeOK
  <2>2. [NoRun EXCEPT !.pc = "load", !.v = v] \in
          [pc : {"idle", "load", "files", "diff", "inspect", "complete"},
           v : Version \cup {NoVersion}, seen : Status \cup {"none"},
           base : Version \cup {NoVersion}]
    BY DEF NoRun
  <2> QED
    BY <1>0, <1>24, <2>1, <2>2 DEF TypeOK, InspTake, rows, objects
<1>25. ASSUME NEW r \in Run, InspLoad(r) PROVE TypeOK'
  <2>1. insp[r].v \in Version
    BY <1>0, <1>25 DEF Busy, InspLoad
  <2>2. /\ status' \in [Version -> Status \cup {"none"}]
        /\ newer' \subseteq Version \X Version
    BY <1>0, <1>25, <2>1, StatusSet DEF InspLoad, TypeOK, Status
  <2>3. Base(insp[r].v) \in Version \cup {NoVersion} /\ status[insp[r].v] \in Status \cup {"none"}
    BY <1>0, <2>1 DEF TypeOK, Base
  <2>4. insp \in [Run -> RunState]
    BY <1>0 DEF TypeOK, RunState
  <2>5. insp' \in [Run -> RunState]
    <3>1. [insp[r] EXCEPT !.pc = "files", !.seen = status[insp[r].v],
                         !.base = Base(insp[r].v)] \in RunState
      <4> DEFINE s == status[insp[r].v]
                 b == Base(insp[r].v)
      <4>1. s \in Status \cup {"none"} /\ b \in Version \cup {NoVersion}
        BY <2>3
      <4> HIDE DEF s, b
      <4>2. [insp[r] EXCEPT !.pc = "files", !.seen = s, !.base = b] \in RunState
        BY <2>4, <4>1 DEF RunState
      <4> QED
        BY <4>2 DEF s, b
    <3>2. insp' = [insp EXCEPT ![r] = [insp[r] EXCEPT !.pc = "files",
                                 !.seen = status[insp[r].v], !.base = Base(insp[r].v)]]
      BY <1>25, <2>4 DEF InspLoad
    <3> QED
      BY <2>4, <3>1, <3>2
  <2> QED
    BY <1>0, <1>25, <2>2, <2>5 DEF TypeOK, InspLoad, RunState, objects
<1>26. ASSUME NEW r \in Run, InspFiles(r) PROVE TypeOK'
  <2>1. insp[r].v \in Version /\ "GENERATING" \in Status
    BY <1>0, <1>26 DEF Busy, InspFiles, Status
  <2>2. /\ status' \in [Version -> Status \cup {"none"}]
        /\ newer' \subseteq Version \X Version
    BY <1>0, <1>26, <2>1, StatusSet DEF InspFiles, TypeOK
  <2>3. insp' \in [Run -> RunState] /\ files' \subseteq Version
    BY <1>0, <1>26, <2>1 DEF TypeOK, RunState, InspFiles
  <2> QED
    BY <1>0, <1>26, <2>2, <2>3 DEF TypeOK, RunState, InspFiles
<1>27. ASSUME NEW r \in Run, InspDiff(r) PROVE TypeOK'
  <2>1. insp[r].v \in Version
    BY <1>0, <1>27 DEF Busy, InspDiff
  <2>2. /\ status' \in [Version -> Status \cup {"none"}]
        /\ newer' \subseteq Version \X Version
    BY <1>0, <1>27, <2>1, StatusSet DEF InspDiff, TypeOK, Status
  <2>3. insp \in [Run -> RunState]
    BY <1>0 DEF TypeOK, RunState
  <2>4. insp' \in [Run -> RunState]
    BY <1>27, <2>3 DEF InspDiff, RunState, NoRun
  <2> QED
    BY <1>0, <1>27, <2>2, <2>4 DEF TypeOK, InspDiff, RunState, objects
<1>28. ASSUME NEW r \in Run, InspInspect(r) PROVE TypeOK'
  <2>1. insp[r].v \in Version
    BY <1>0, <1>28 DEF Busy, InspInspect
  <2>2. insp \in [Run -> RunState]
    BY <1>0 DEF TypeOK, RunState
  <2>3. insp' \in [Run -> RunState]
    BY <1>28, <2>2 DEF InspInspect, RunState
  <2> QED
    BY <1>0, <1>28, <2>1, <2>3 DEF TypeOK, InspInspect, RunState, objects
<1>29. ASSUME NEW r \in Run, InspComplete(r) PROVE TypeOK'
  BY StatusSet, <1>0, <1>29 DEF TypeOK, Busy, Status, InspComplete, NoRun,
     rows, objects
<1>30. ASSUME NEW r \in Run, InspRaise(r) PROVE TypeOK'
  BY StatusSet, <1>0, <1>30 DEF TypeOK, Busy, Status, InspRaise, NoRun, rows,
     objects
<1>31. ASSUME NEW r \in Run, InspCrash(r) PROVE TypeOK'
  BY <1>0, <1>31 DEF TypeOK, Busy, Status, InspCrash, NoRun, Unnoticed, rows,
     objects
<1>32. CASE UNCHANGED vars
  BY <1>0, <1>32 DEF TypeOK, vars, rows, objects
<1> QED
  BY <1>1, <1>2, <1>3, <1>4, <1>5, <1>6, <1>7, <1>8, <1>9, <1>10, <1>11,
     <1>12, <1>13, <1>14, <1>15, <1>16, <1>17, <1>18, <1>19, <1>20, <1>21,
     <1>22, <1>23, <1>24, <1>25, <1>26, <1>27, <1>28, <1>29, <1>30, <1>31,
     <1>32 DEF Next, PushStep, Deliver, ConnStep, GenStep, InspStep

(* A step keeps what is known of the tasks that go on.                     *)
LEMMA BusyNext == IInv /\ [Next]_vars => Busy'
<1> SUFFICES ASSUME IInv, [Next]_vars PROVE Busy'
  OBVIOUS
<1>0. TypeOK /\ Busy
  BY DEF IInv
<1> NoVersion \notin Version
  BY LifecycleAssumption
<1>1. ASSUME UNCHANGED <<conn, gen, insp>> PROVE Busy'
  BY <1>0, <1>1 DEF Busy
<1>2. ASSUME NEW t \in Task, NEW v \in Version, Connect(t, v) PROVE Busy'
  BY <1>0, <1>2 DEF TypeOK, Busy, Connect, Delivered, Repeat
<1>3. ASSUME NEW t \in Task, ConnUnpack(t) PROVE Busy'
  <2>1. UNCHANGED <<gen, insp>>
    BY <1>3 DEF ConnUnpack
  <2>2. conn' = [conn EXCEPT ![t].pc = "store"] \/ conn' = [conn EXCEPT ![t] = NoTask]
    BY <1>3 DEF ConnUnpack
  <2>3. conn[t].pc # "idle"
    BY <1>3 DEF ConnUnpack
  <2> QED
    BY <1>0, <2>1, <2>2, <2>3 DEF TypeOK, Busy, NoTask
<1>4. ASSUME NEW t \in Task, ConnStore(t) PROVE Busy'
  BY <1>0, <1>4 DEF TypeOK, Busy, ConnStore
<1>5. ASSUME NEW t \in Task, NodesCommit(t) PROVE Busy'
  BY <1>0, <1>5 DEF TypeOK, Busy, NodesCommit, NoTask
<1>6. ASSUME NEW t \in Task, NodesAbort(t) PROVE Busy'
  BY <1>0, <1>6 DEF TypeOK, Busy, NodesAbort, NoTask, Unnoticed
<1>7. ASSUME NEW t \in Task, ConnSpawn(t) PROVE Busy'
  BY <1>0, <1>7 DEF TypeOK, Busy, ConnSpawn, NoTask
<1>8. ASSUME NEW t \in Task, ConnFail(t) PROVE Busy'
  BY <1>0, <1>8 DEF TypeOK, Busy, ConnFail, NoTask, Unnoticed
<1>9. ASSUME NEW q \in Request, NEW v \in Version, GenRead(q, v) PROVE Busy'
  BY <1>0, <1>9 DEF TypeOK, Busy, GenRead
<1>10. ASSUME NEW q \in Request, GenDebit(q) PROVE Busy'
  BY <1>0, <1>10 DEF TypeOK, Busy, GenDebit
<1>11. ASSUME NEW q \in Request, GenCommit(q) PROVE Busy'
  BY <1>0, <1>11 DEF TypeOK, Busy, GenCommit, NoRequest
<1>12. ASSUME NEW q \in Request, GenSpawn(q) PROVE Busy'
  BY <1>0, <1>12 DEF TypeOK, Busy, GenSpawn, NoRequest
<1>13. ASSUME NEW q \in Request, GenFail(q) PROVE Busy'
  BY <1>0, <1>13 DEF TypeOK, Busy, GenFail, NoRequest, Unnoticed
<1>14. ASSUME NEW r \in Run, NEW v \in Version, InspTake(r, v) PROVE Busy'
  BY <1>0, <1>14 DEF TypeOK, Busy, InspTake, NoRun, Repeat
<1>15. ASSUME NEW r \in Run, InspLoad(r) PROVE Busy'
  BY <1>0, <1>15 DEF TypeOK, Busy, InspLoad, Base
<1>16. ASSUME NEW r \in Run, InspFiles(r) PROVE Busy'
  BY <1>0, <1>16 DEF TypeOK, Busy, InspFiles
<1>17. ASSUME NEW r \in Run, InspDiff(r) PROVE Busy'
  <2>1. UNCHANGED <<conn, gen>>
    BY <1>17 DEF InspDiff
  <2>2. insp' = [insp EXCEPT ![r].pc = "inspect"] \/ insp' = [insp EXCEPT ![r] = NoRun]
    BY <1>17 DEF InspDiff
  <2>3. insp[r].pc # "idle"
    BY <1>17 DEF InspDiff
  <2>4. CASE insp' = [insp EXCEPT ![r].pc = "inspect"]
    BY <1>0, <2>1, <2>4, <2>3 DEF TypeOK, Busy
  <2>5. CASE insp' = [insp EXCEPT ![r] = NoRun]
    BY <1>0, <2>1, <2>5 DEF TypeOK, Busy, NoRun
  <2> QED
    BY <2>2, <2>4, <2>5
<1>18. ASSUME NEW r \in Run, InspInspect(r) PROVE Busy'
  BY <1>0, <1>18 DEF TypeOK, Busy, InspInspect
<1>19. ASSUME NEW r \in Run, InspComplete(r) PROVE Busy'
  BY <1>0, <1>19 DEF TypeOK, Busy, InspComplete, NoRun
<1>20. ASSUME NEW r \in Run, InspRaise(r) PROVE Busy'
  BY <1>0, <1>20 DEF TypeOK, Busy, InspRaise, NoRun
<1>21. ASSUME NEW r \in Run, InspCrash(r) PROVE Busy'
  <2>1. insp' = [insp EXCEPT ![r] = NoRun] /\ UNCHANGED <<conn, gen>>
    BY <1>21 DEF InspCrash
  <2> QED
    BY <1>0, <2>1 DEF TypeOK, Busy, NoRun
<1>22. ASSUME NEW v \in Version,
            AddRepository(v) \/ PushRead(v) \/ PushFail(v) \/ Drop(v) \/
            PushStep(v)
      PROVE  Busy'
  BY <1>1, <1>22 DEF PushStep, AddRepository, PushRead, PushFail, Drop,
     PushInsert, PushInsertFail, PushUpload, rows, objects
<1>23. ASSUME NEW v \in Version,
            Deliver(v)
      PROVE  Busy'
  BY <1>1, <1>2, <1>23 DEF Deliver, Threat, rows, objects
<1>24. ASSUME RemoveRead \/ DeleteObjects \/ DeleteRows PROVE Busy'
  BY <1>1, <1>24 DEF RemoveRead, DeleteObjects, DeleteRows, rows, objects
<1>25. ASSUME NEW t \in Task,
            ConnStep(t)
      PROVE  Busy'
  BY <1>3, <1>4, <1>5, <1>6, <1>7, <1>8, <1>25 DEF ConnStep
<1>26. ASSUME NEW q \in Request,
            GenStep(q) \/ GenFail(q) \/ \E v \in Version : GenRead(q, v)
      PROVE  Busy'
  BY <1>9, <1>10, <1>11, <1>12, <1>13, <1>26 DEF GenStep
<1>27. ASSUME NEW r \in Run,
            InspStep(r) \/ InspCrash(r) \/
            \E v \in Version : InspTake(r, v)
      PROVE  Busy'
  BY <1>14, <1>15, <1>16, <1>17, <1>18, <1>19, <1>20, <1>21, <1>27 DEF
     InspStep
<1> QED
  BY <1>1, <1>22, <1>23, <1>24, <1>25, <1>26, <1>27 DEF Next, vars, rows,
     objects

(* Rows come with the asset and go with it.                                *)
LEMMA RootedNext == IInv /\ [Next]_vars => Rooted'
<1> SUFFICES ASSUME IInv, [Next]_vars PROVE Rooted'
  OBVIOUS
<1>0. TypeOK /\ Busy /\ Rooted
  BY DEF IInv
<1>1. ASSUME UNCHANGED <<asset, status, push>> PROVE Rooted'
  BY <1>0, <1>1 DEF Rooted, Exists
<1>2. ASSUME NEW v \in Version, AddRepository(v) PROVE Rooted'
  BY <1>0, <1>2 DEF TypeOK, Rooted, AddRepository, Insert, Exists
<1>3. ASSUME NEW v \in Version, PushRead(v) PROVE Rooted'
  <2>1. UNCHANGED <<asset, status>> /\ asset # "none"
    BY <1>3 DEF PushRead, rows
  <2>2. CASE push' = [push EXCEPT ![v].pc = "ignored"]
    BY <1>0, <2>1, <2>2 DEF TypeOK, Rooted, Exists
  <2>3. CASE \E p \in Rows : Accept(v, "CONNECTING", p) \/ Accept(v, "GENERATING", p)
    <3>1. PICK p \in Version : Accept(v, "CONNECTING", p) \/ Accept(v, "GENERATING", p)
      BY <2>3 DEF Rows
    <3> QED
      BY <1>0, <2>1, <3>1 DEF TypeOK, Rooted, Exists, Accept
  <2> QED
    BY <1>3, <2>2, <2>3 DEF PushRead
<1>4. ASSUME NEW v \in Version, PushInsert(v) PROVE Rooted'
  BY <1>0, <1>4 DEF TypeOK, Rooted, PushInsert, Insert, Exists
<1>5. ASSUME NEW v \in Version, PushInsertFail(v) PROVE Rooted'
  BY <1>0, <1>5 DEF TypeOK, Rooted, PushInsertFail, NoPush, rows, Exists
<1>6. ASSUME NEW v \in Version, PushUpload(v) PROVE Rooted'
  BY <1>0, <1>6 DEF TypeOK, Rooted, PushUpload, rows, Exists
<1>7. ASSUME NEW v \in Version, PushFail(v) PROVE Rooted'
  BY <1>0, <1>7 DEF TypeOK, Rooted, PushFail, Unnoticed, rows, Exists
<1>8. ASSUME DeleteRows PROVE Rooted'
  BY <1>0, <1>8 DEF TypeOK, Rooted, DeleteRows, Exists
<1>9. ASSUME NEW v \in Version, Threat(v) PROVE Rooted'
  <2>1. UNCHANGED <<asset, push>>
    BY <1>9 DEF Threat
  <2>2. \A w \in Version : Exists(w)' = Exists(w)
    BY <1>0, <1>9, StatusEffects, RowsKept DEF Exists, Status
  <2> QED
    BY <1>0, <2>1, <2>2 DEF Rooted
<1>10. ASSUME NEW t \in Task, ConnUnpack(t) PROVE Rooted'
  <2>1. UNCHANGED <<asset, push>>
    BY <1>10 DEF ConnUnpack
  <2>2. \A v \in Version : Exists(v)' = Exists(v)
    BY <1>0, <1>10, StatusEffects, RowsKept DEF Exists, Status
  <2> QED
    BY <1>0, <2>1, <2>2 DEF Rooted
<1>11. ASSUME NEW t \in Task, NodesCommit(t) PROVE Rooted'
  <2>1. UNCHANGED <<asset, push>>
    BY <1>11 DEF NodesCommit
  <2>2. \A v \in Version : Exists(v)' = Exists(v)
    BY <1>0, <1>11, StatusEffects, RowsKept DEF Exists, Status
  <2> QED
    BY <1>0, <2>1, <2>2 DEF Rooted
<1>12. ASSUME NEW t \in Task, ConnSpawn(t) PROVE Rooted'
  <2>1. UNCHANGED <<asset, push>>
    BY <1>12 DEF ConnSpawn
  <2>2. \A v \in Version : Exists(v)' = Exists(v)
    BY <1>0, <1>12, StatusEffects, RowsKept DEF Exists, Status
  <2> QED
    BY <1>0, <2>1, <2>2 DEF Rooted
<1>13. ASSUME NEW q \in Request, GenCommit(q) PROVE Rooted'
  <2>1. UNCHANGED <<asset, push>>
    BY <1>13 DEF GenCommit
  <2>2. \A v \in Version : Exists(v)' = Exists(v)
    BY <1>0, <1>13, StatusEffects, RowsKept DEF Exists, Status
  <2> QED
    BY <1>0, <2>1, <2>2 DEF Rooted
<1>14. ASSUME NEW r \in Run, InspLoad(r) PROVE Rooted'
  <2>1. UNCHANGED <<asset, push>>
    BY <1>14 DEF InspLoad
  <2>2. \A v \in Version : Exists(v)' = Exists(v)
    BY <1>0, <1>14, StatusEffects, RowsKept DEF Exists, Status
  <2> QED
    BY <1>0, <2>1, <2>2 DEF Rooted
<1>15. ASSUME NEW r \in Run, InspFiles(r) PROVE Rooted'
  <2>1. UNCHANGED <<asset, push>>
    BY <1>15 DEF InspFiles
  <2>2. \A v \in Version : Exists(v)' = Exists(v)
    BY <1>0, <1>15, StatusEffects, RowsKept DEF Exists, Status
  <2> QED
    BY <1>0, <2>1, <2>2 DEF Rooted
<1>16. ASSUME NEW r \in Run, InspDiff(r) PROVE Rooted'
  <2>1. UNCHANGED <<asset, push>>
    BY <1>16 DEF InspDiff
  <2>2. \A v \in Version : Exists(v)' = Exists(v)
    BY <1>0, <1>16, StatusEffects, RowsKept DEF Exists, Status
  <2> QED
    BY <1>0, <2>1, <2>2 DEF Rooted
<1>17. ASSUME NEW r \in Run, InspComplete(r) PROVE Rooted'
  <2>1. UNCHANGED <<asset, push>>
    BY <1>17 DEF InspComplete
  <2>2. \A v \in Version : Exists(v)' = Exists(v)
    BY <1>0, <1>17, StatusEffects, RowsKept DEF Exists, Status
  <2> QED
    BY <1>0, <2>1, <2>2 DEF Rooted
<1>18. ASSUME NEW r \in Run, InspRaise(r) PROVE Rooted'
  <2>1. UNCHANGED <<asset, push>>
    BY <1>18 DEF InspRaise
  <2>2. \A v \in Version : Exists(v)' = Exists(v)
    BY <1>0, <1>18, StatusEffects, RowsKept DEF Exists, Status
  <2> QED
    BY <1>0, <2>1, <2>2 DEF Rooted
<1>19. ASSUME NEW v \in Version,
            AddRepository(v) \/ PushRead(v) \/ PushFail(v) \/ Drop(v) \/
            PushStep(v)
      PROVE  Rooted'
  BY <1>1, <1>2, <1>3, <1>4, <1>5, <1>6, <1>7, <1>19 DEF PushStep, Drop,
     rows, objects
<1>20. ASSUME NEW v \in Version,
            Deliver(v)
      PROVE  Rooted'
  BY <1>1, <1>9, <1>20 DEF Deliver, Connect, rows, objects
<1>21. ASSUME RemoveRead \/ DeleteObjects \/ DeleteRows PROVE Rooted'
  BY <1>1, <1>8, <1>21 DEF RemoveRead, DeleteObjects, rows, objects
<1>22. ASSUME NEW t \in Task,
            ConnStep(t)
      PROVE  Rooted'
  BY <1>1, <1>10, <1>11, <1>12, <1>22 DEF ConnStep, ConnStore, NodesAbort,
     ConnFail, rows, objects
<1>23. ASSUME NEW q \in Request,
            GenStep(q) \/ GenFail(q) \/ \E v \in Version : GenRead(q, v)
      PROVE  Rooted'
  BY <1>1, <1>13, <1>23 DEF GenStep, GenDebit, GenSpawn, GenFail, GenRead,
     rows, objects
<1>24. ASSUME NEW r \in Run,
            InspStep(r) \/ InspCrash(r) \/
            \E v \in Version : InspTake(r, v)
      PROVE  Rooted'
  BY <1>1, <1>14, <1>15, <1>16, <1>17, <1>18, <1>24 DEF InspStep,
     InspInspect, InspCrash, InspTake, rows, objects
<1> QED
  BY <1>1, <1>19, <1>20, <1>21, <1>22, <1>23, <1>24 DEF Next, vars, rows,
     objects

(* Every action on a version is on one whose row was inserted.             *)
LEMMA PristineNext == IInv /\ [Next]_vars => Pristine'
<1> SUFFICES ASSUME IInv, [Next]_vars PROVE Pristine'
  OBVIOUS
<1>0. TypeOK /\ Busy /\ Rooted /\ Pristine
  BY DEF IInv
<1> NoVersion \notin Version
  BY LifecycleAssumption
<1>1. ASSUME UNCHANGED <<status, nodes, event, billed, jobs, ran, conn, gen, insp, push>> PROVE Pristine'
  BY <1>0, <1>1 DEF Pristine, Untouched, Exists
<1>2. ASSUME NEW v \in Version, AddRepository(v) PROVE Pristine'
  BY <1>0, <1>2 DEF TypeOK, Pristine, AddRepository, Insert, Untouched,
     Exists, rows, objects
<1>3. ASSUME NEW v \in Version, PushRead(v) PROVE Pristine'
  BY <1>0, <1>3 DEF TypeOK, Pristine, PushRead, Accept, NoPush, Rows, First,
     Untouched, Exists, rows, objects
<1>4. ASSUME NEW v \in Version, PushInsert(v) PROVE Pristine'
  BY <1>0, <1>4 DEF TypeOK, Pristine, PushInsert, Insert, Untouched, Exists,
     rows, objects
<1>5. ASSUME NEW v \in Version, PushInsertFail(v) PROVE Pristine'
  BY <1>0, <1>5 DEF TypeOK, Pristine, PushInsertFail, NoPush, Untouched,
     Exists, rows, objects
<1>6. ASSUME NEW v \in Version, PushUpload(v) PROVE Pristine'
  BY <1>0, <1>6 DEF TypeOK, Pristine, PushUpload, Untouched, Exists, rows,
     objects
<1>7. ASSUME NEW v \in Version, PushFail(v) PROVE Pristine'
  BY <1>0, <1>7 DEF TypeOK, Pristine, PushFail, Unnoticed, Untouched, Exists,
     rows, objects
<1>8. ASSUME DeleteRows PROVE Pristine'
  BY <1>0, <1>8 DEF TypeOK, Pristine, DeleteRows, Untouched, Exists, rows,
     objects
<1>9. ASSUME NEW t \in Task, NEW v \in Version, Connect(t, v) PROVE Pristine'
  BY <1>0, <1>9 DEF TypeOK, Pristine, Connect, Delivered, Repeat, Untouched,
     Exists, rows, objects
<1>10. ASSUME NEW v \in Version, Threat(v) PROVE Pristine'
  <2>1. \A w \in Version : Exists(w)' = Exists(w)
    BY <1>0, <1>10, StatusEffects, RowsKept DEF Exists, Status
  <2> QED
    BY <1>0, <1>10, <2>1 DEF TypeOK, Busy, Pristine, Untouched, Threat,
       Delivered, Repeat, rows, objects
<1>11. ASSUME NEW v \in Version, Drop(v) PROVE Pristine'
  BY <1>0, <1>11 DEF TypeOK, Pristine, Drop, Unnoticed, Untouched, Exists,
     rows, objects
<1>12. ASSUME NEW t \in Task, ConnUnpack(t) PROVE Pristine'
  <2>1. \A w \in Version : Exists(w)' = Exists(w)
    BY <1>0, <1>12, StatusEffects, RowsKept DEF Exists, Status
  <2>2. conn' = [conn EXCEPT ![t].pc = "store"] \/ conn' = [conn EXCEPT ![t] = NoTask]
    BY <1>12 DEF ConnUnpack
  <2>3. UNCHANGED <<nodes, event, billed, jobs, ran, gen, insp, push>> /\ conn[t].pc # "idle"
    BY <1>12 DEF ConnUnpack, rows, objects
  <2>4. CASE conn' = [conn EXCEPT ![t].pc = "store"]
    BY <1>0, <2>1, <2>3, <2>4 DEF TypeOK, Busy, Pristine, Untouched
  <2>5. CASE conn' = [conn EXCEPT ![t] = NoTask]
    BY <1>0, <2>1, <2>3, <2>5 DEF TypeOK, Busy, Pristine, Untouched, NoTask
  <2> QED
    BY <2>2, <2>4, <2>5
<1>13. ASSUME NEW t \in Task, ConnStore(t) PROVE Pristine'
  BY <1>0, <1>13 DEF TypeOK, Pristine, ConnStore, Untouched, Exists, rows,
     objects
<1>14. ASSUME NEW t \in Task, NodesCommit(t) PROVE Pristine'
  <2>1. \A w \in Version : Exists(w)' = Exists(w)
    BY <1>0, <1>14, StatusEffects, RowsKept DEF Exists, Status
  <2> QED
    BY <1>0, <1>14, <2>1 DEF TypeOK, Busy, Pristine, Untouched, NodesCommit,
       NoTask, rows, objects
<1>15. ASSUME NEW t \in Task, NodesAbort(t) PROVE Pristine'
  BY <1>0, <1>15 DEF TypeOK, Pristine, NodesAbort, NoTask, Unnoticed,
     Untouched, Exists, rows, objects
<1>16. ASSUME NEW t \in Task, ConnSpawn(t) PROVE Pristine'
  <2>1. \A w \in Version : Exists(w)' = Exists(w)
    BY <1>0, <1>16, StatusEffects, RowsKept DEF Exists, Status
  <2> QED
    BY <1>0, <1>16, <2>1 DEF TypeOK, Busy, Pristine, Untouched, ConnSpawn,
       NoTask, rows, objects
<1>17. ASSUME NEW t \in Task, ConnFail(t) PROVE Pristine'
  BY <1>0, <1>17 DEF TypeOK, Pristine, ConnFail, NoTask, Unnoticed,
     Untouched, Exists, rows, objects
<1>18. ASSUME NEW q \in Request, NEW v \in Version, GenRead(q, v) PROVE Pristine'
  BY <1>0, <1>18 DEF TypeOK, Pristine, GenRead, Untouched, Exists, rows,
     objects
<1>19. ASSUME NEW q \in Request, GenDebit(q) PROVE Pristine'
  BY <1>0, <1>19 DEF TypeOK, Pristine, GenDebit, Untouched, Exists, rows,
     objects
<1>20. ASSUME NEW q \in Request, GenCommit(q) PROVE Pristine'
  <2>1. \A w \in Version : Exists(w)' = Exists(w)
    BY <1>0, <1>20, StatusEffects, RowsKept DEF Exists, Status
  <2> QED
    BY <1>0, <1>20, <2>1 DEF TypeOK, Busy, Pristine, Untouched, GenCommit,
       NoRequest, rows, objects
<1>21. ASSUME NEW q \in Request, GenSpawn(q) PROVE Pristine'
  BY <1>0, <1>21 DEF TypeOK, Pristine, GenSpawn, NoRequest, Untouched,
     Exists, rows, objects
<1>22. ASSUME NEW q \in Request, GenFail(q) PROVE Pristine'
  BY <1>0, <1>22 DEF TypeOK, Pristine, GenFail, NoRequest, Unnoticed,
     Untouched, Exists, rows, objects
<1>23. ASSUME NEW r \in Run, NEW v \in Version, InspTake(r, v) PROVE Pristine'
  BY <1>0, <1>23 DEF TypeOK, Pristine, InspTake, NoRun, Repeat, Untouched,
     Exists, rows, objects
<1>24. ASSUME NEW r \in Run, InspLoad(r) PROVE Pristine'
  <2>1. \A w \in Version : Exists(w)' = Exists(w)
    BY <1>0, <1>24, StatusEffects, RowsKept DEF Exists, Status
  <2> QED
    BY <1>0, <1>24, <2>1 DEF TypeOK, Busy, Pristine, Untouched, InspLoad,
       Base, rows, objects
<1>25. ASSUME NEW r \in Run, InspFiles(r) PROVE Pristine'
  <2>1. \A w \in Version : Exists(w)' = Exists(w)
    BY <1>0, <1>25, StatusEffects, RowsKept DEF Exists, Status
  <2> QED
    BY <1>0, <1>25, <2>1 DEF TypeOK, Busy, Pristine, Untouched, InspFiles,
       rows, objects
<1>26. ASSUME NEW r \in Run, InspDiff(r) PROVE Pristine'
  <2>1. \A w \in Version : Exists(w)' = Exists(w)
    BY <1>0, <1>26, StatusEffects, RowsKept DEF Exists, Status
  <2>2. insp' = [insp EXCEPT ![r].pc = "inspect"] \/ insp' = [insp EXCEPT ![r] = NoRun]
    BY <1>26 DEF InspDiff
  <2>3. UNCHANGED <<nodes, event, billed, jobs, ran, gen, conn, push>> /\ insp[r].pc # "idle"
    BY <1>26 DEF InspDiff, rows, objects
  <2>4. CASE insp' = [insp EXCEPT ![r].pc = "inspect"]
    BY <1>0, <2>1, <2>3, <2>4 DEF TypeOK, Busy, Pristine, Untouched
  <2>5. CASE insp' = [insp EXCEPT ![r] = NoRun]
    BY <1>0, <2>1, <2>3, <2>5 DEF TypeOK, Busy, Pristine, Untouched, NoRun
  <2> QED
    BY <2>2, <2>4, <2>5
<1>27. ASSUME NEW r \in Run, InspInspect(r) PROVE Pristine'
  BY <1>0, <1>27 DEF TypeOK, Pristine, InspInspect, Untouched, Exists, rows,
     objects
<1>28. ASSUME NEW r \in Run, InspComplete(r) PROVE Pristine'
  <2>1. \A w \in Version : Exists(w)' = Exists(w)
    BY <1>0, <1>28, StatusEffects, RowsKept DEF Exists, Status
  <2> QED
    BY <1>0, <1>28, <2>1 DEF TypeOK, Busy, Pristine, Untouched, InspComplete,
       NoRun, rows, objects
<1>29. ASSUME NEW r \in Run, InspRaise(r) PROVE Pristine'
  <2>1. \A w \in Version : Exists(w)' = Exists(w)
    BY <1>0, <1>29, StatusEffects, RowsKept DEF Exists, Status
  <2> QED
    BY <1>0, <1>29, <2>1 DEF TypeOK, Busy, Pristine, Untouched, InspRaise,
       NoRun, rows, objects
<1>30. ASSUME NEW r \in Run, InspCrash(r) PROVE Pristine'
  BY <1>0, <1>30 DEF TypeOK, Pristine, InspCrash, NoRun, Unnoticed,
     Untouched, Exists, rows, objects
<1> QED
  BY <1>1, <1>2, <1>3, <1>4, <1>5, <1>6, <1>7, <1>8, <1>9, <1>10, <1>11,
     <1>12, <1>13, <1>14, <1>15, <1>16, <1>17, <1>18, <1>19, <1>20, <1>21,
     <1>22, <1>23, <1>24, <1>25, <1>26, <1>27, <1>28, <1>29, <1>30 DEF Next,
     PushStep, Deliver, ConnStep, GenStep, InspStep, RemoveRead,
     DeleteObjects, vars, rows, objects

(* Only NodesCommit makes a version connected, and only what is connected  *)
(* or has its nodes is requested.                                          *)
LEMMA HasNodesNext == IInv /\ [Next]_vars => HasNodes'
<1> SUFFICES ASSUME IInv, [Next]_vars PROVE HasNodes'
  OBVIOUS
<1>0. TypeOK /\ Busy /\ Rooted /\ Pristine /\ HasNodes
  BY DEF IInv
<1> NoVersion \notin Version
  BY LifecycleAssumption
<1>1. ASSUME UNCHANGED <<status, nodes, billed, jobs, ran, conn, gen, insp>> PROVE HasNodes'
  BY <1>0, <1>1 DEF HasNodes, ToInspect, Exists
<1>2. ASSUME NEW v \in Version, AddRepository(v) PROVE HasNodes'
  <2>1. Untouched(v)
    BY <1>0, <1>2 DEF Pristine, Rooted, AddRepository
  <2> QED
    BY <1>0, <1>2, <2>1 DEF TypeOK, HasNodes, ToInspect, Untouched, Exists,
       AddRepository, Insert, objects
<1>3. ASSUME NEW v \in Version, PushInsert(v) PROVE HasNodes'
  <2>1. Untouched(v)
    BY <1>0, <1>3 DEF Pristine, Rooted, PushInsert
  <2> QED
    BY <1>0, <1>3, <2>1 DEF TypeOK, HasNodes, ToInspect, Untouched, Exists,
       PushInsert, Insert, objects
<1>4. ASSUME DeleteRows PROVE HasNodes'
  BY <1>0, <1>4 DEF TypeOK, HasNodes, DeleteRows, Exists
<1>5. ASSUME NEW t \in Task, NEW v \in Version, Connect(t, v) PROVE HasNodes'
  BY <1>0, <1>5 DEF TypeOK, HasNodes, Connect, Delivered, Repeat, ToInspect,
     Exists, rows, objects
<1>6. ASSUME NEW v \in Version, Threat(v) PROVE HasNodes'
  <2>1. \A w \in Version : Exists(w)' = Exists(w)
    BY <1>0, <1>6, StatusEffects, RowsKept DEF Exists, Status
  <2>9. \A w \in Version : status'[w] = "CONNECTED" => status[w] = "CONNECTED"
    BY <1>0, <1>6, StatusEffects DEF Set, TypeOK
  <2> QED
    BY <1>0, <1>6, <2>1, <2>9 DEF TypeOK, Busy, HasNodes, ToInspect, Threat,
       Delivered, Repeat, rows, objects
<1>7. ASSUME NEW t \in Task, ConnUnpack(t) PROVE HasNodes'
  <2>1. \A w \in Version : Exists(w)' = Exists(w)
    BY <1>0, <1>7, StatusEffects, RowsKept DEF Exists, Status
  <2>9. \A w \in Version : status'[w] = "CONNECTED" => status[w] = "CONNECTED"
    BY <1>0, <1>7, StatusEffects DEF Set, TypeOK
  <2>2. conn' = [conn EXCEPT ![t].pc = "store"] \/ conn' = [conn EXCEPT ![t] = NoTask]
    BY <1>7 DEF ConnUnpack
  <2>3. UNCHANGED <<nodes, billed, jobs, ran, gen, insp>> /\ conn[t].pc # "idle"
    BY <1>7 DEF ConnUnpack, rows, objects
  <2>4. CASE conn' = [conn EXCEPT ![t].pc = "store"]
    BY <1>0, <2>1, <2>9, <2>3, <2>4 DEF TypeOK, Busy, HasNodes, ToInspect,
       Exists
  <2>5. CASE conn' = [conn EXCEPT ![t] = NoTask]
    BY <1>0, <2>1, <2>9, <2>3, <2>5 DEF TypeOK, Busy, HasNodes, ToInspect,
       Exists, NoTask
  <2> QED
    BY <2>2, <2>4, <2>5
<1>8. ASSUME NEW t \in Task, ConnStore(t) PROVE HasNodes'
  BY <1>0, <1>8 DEF TypeOK, HasNodes, ConnStore, ToInspect, Exists, rows,
     objects
<1>9. ASSUME NEW t \in Task, NodesCommit(t) PROVE HasNodes'
  <2>1. \A w \in Version : Exists(w)' = Exists(w)
    BY <1>0, <1>9, StatusEffects, RowsKept DEF Exists, Status
  <2>2. \A w \in Version : status'[w] = "CONNECTED" => w = conn[t].v \/ status[w] = "CONNECTED"
    BY <1>0, <1>9, StatusEffects DEF Set, TypeOK
  <2>3. conn[t].v \in nodes' /\ nodes \subseteq nodes' /\ UNCHANGED <<billed, jobs, ran, gen, insp>>
    BY <1>9 DEF NodesCommit
  <2>4. \A u \in Task : conn'[u].pc = "spawn" =>
          \/ u = t /\ conn'[u].v = conn[t].v
          \/ conn[u].pc = "spawn" /\ conn'[u].v = conn[u].v
    BY <1>0, <1>9 DEF TypeOK, NodesCommit, NoTask
  <2> QED
    BY <1>0, <2>1, <2>2, <2>3, <2>4 DEF HasNodes, ToInspect
<1>10. ASSUME NEW t \in Task, NodesAbort(t) PROVE HasNodes'
  BY <1>0, <1>10 DEF TypeOK, HasNodes, NodesAbort, NoTask, Unnoticed,
     ToInspect, Exists, rows, objects
<1>11. ASSUME NEW t \in Task, ConnSpawn(t) PROVE HasNodes'
  <2>1. \A w \in Version : Exists(w)' = Exists(w)
    BY <1>0, <1>11, StatusEffects, RowsKept DEF Exists, Status
  <2>9. \A w \in Version : status'[w] = "CONNECTED" => status[w] = "CONNECTED"
    BY <1>0, <1>11, StatusEffects DEF Set, TypeOK
  <2> QED
    BY <1>0, <1>11, <2>1, <2>9 DEF TypeOK, Busy, HasNodes, ToInspect,
       ConnSpawn, NoTask, rows, objects
<1>12. ASSUME NEW t \in Task, ConnFail(t) PROVE HasNodes'
  BY <1>0, <1>12 DEF TypeOK, HasNodes, ConnFail, NoTask, Unnoticed,
     ToInspect, Exists, rows, objects
<1>13. ASSUME NEW q \in Request, NEW v \in Version, GenRead(q, v) PROVE HasNodes'
  BY <1>0, <1>13 DEF TypeOK, HasNodes, GenRead, ToInspect, Exists, rows,
     objects
<1>14. ASSUME NEW q \in Request, GenDebit(q) PROVE HasNodes'
  BY <1>0, <1>14 DEF TypeOK, HasNodes, GenDebit, ToInspect, Exists, rows,
     objects
<1>15. ASSUME NEW q \in Request, GenCommit(q) PROVE HasNodes'
  <2>1. \A w \in Version : Exists(w)' = Exists(w)
    BY <1>0, <1>15, StatusEffects, RowsKept DEF Exists, Status
  <2>9. \A w \in Version : status'[w] = "CONNECTED" => status[w] = "CONNECTED"
    BY <1>0, <1>15, StatusEffects DEF Set, TypeOK
  <2> QED
    BY <1>0, <1>15, <2>1, <2>9 DEF TypeOK, Busy, HasNodes, ToInspect,
       GenCommit, NoRequest, rows, objects
<1>16. ASSUME NEW q \in Request, GenSpawn(q) PROVE HasNodes'
  BY <1>0, <1>16 DEF TypeOK, HasNodes, GenSpawn, NoRequest, ToInspect,
     Exists, rows, objects
<1>17. ASSUME NEW q \in Request, GenFail(q) PROVE HasNodes'
  BY <1>0, <1>17 DEF TypeOK, HasNodes, GenFail, NoRequest, Unnoticed,
     ToInspect, Exists, rows, objects
<1>18. ASSUME NEW r \in Run, NEW v \in Version, InspTake(r, v) PROVE HasNodes'
  BY <1>0, <1>18 DEF TypeOK, HasNodes, InspTake, NoRun, Repeat, ToInspect,
     Exists, rows
<1>19. ASSUME NEW r \in Run, InspLoad(r) PROVE HasNodes'
  <2>1. \A w \in Version : Exists(w)' = Exists(w)
    BY <1>0, <1>19, StatusEffects, RowsKept DEF Exists, Status
  <2>9. \A w \in Version : status'[w] = "CONNECTED" => status[w] = "CONNECTED"
    BY <1>0, <1>19, StatusEffects DEF Set, TypeOK
  <2> QED
    BY <1>0, <1>19, <2>1, <2>9 DEF TypeOK, Busy, HasNodes, ToInspect,
       InspLoad, Base, rows, objects
<1>20. ASSUME NEW r \in Run, InspFiles(r) PROVE HasNodes'
  <2>1. \A w \in Version : Exists(w)' = Exists(w)
    BY <1>0, <1>20, StatusEffects, RowsKept DEF Exists, Status
  <2>9. \A w \in Version : status'[w] = "CONNECTED" => status[w] = "CONNECTED"
    BY <1>0, <1>20, StatusEffects DEF Set, TypeOK
  <2> QED
    BY <1>0, <1>20, <2>1, <2>9 DEF TypeOK, Busy, HasNodes, ToInspect,
       InspFiles, rows, objects
<1>21. ASSUME NEW r \in Run, InspDiff(r) PROVE HasNodes'
  <2>1. \A w \in Version : Exists(w)' = Exists(w)
    BY <1>0, <1>21, StatusEffects, RowsKept DEF Exists, Status
  <2>9. \A w \in Version : status'[w] = "CONNECTED" => status[w] = "CONNECTED"
    BY <1>0, <1>21, StatusEffects DEF Set, TypeOK
  <2>2. insp' = [insp EXCEPT ![r].pc = "inspect"] \/ insp' = [insp EXCEPT ![r] = NoRun]
    BY <1>21 DEF InspDiff
  <2>3. UNCHANGED <<nodes, billed, jobs, ran, gen, conn>> /\ insp[r].pc # "idle"
    BY <1>21 DEF InspDiff, rows, objects
  <2>4. CASE insp' = [insp EXCEPT ![r].pc = "inspect"]
    BY <1>0, <2>1, <2>9, <2>3, <2>4 DEF TypeOK, Busy, HasNodes, ToInspect,
       Exists
  <2>5. CASE insp' = [insp EXCEPT ![r] = NoRun]
    BY <1>0, <2>1, <2>9, <2>3, <2>5 DEF TypeOK, Busy, HasNodes, ToInspect,
       Exists, NoRun
  <2> QED
    BY <2>2, <2>4, <2>5
<1>22. ASSUME NEW r \in Run, InspInspect(r) PROVE HasNodes'
  BY <1>0, <1>22 DEF TypeOK, HasNodes, InspInspect, ToInspect, Exists, rows,
     objects
<1>23. ASSUME NEW r \in Run, InspComplete(r) PROVE HasNodes'
  <2>1. \A w \in Version : Exists(w)' = Exists(w)
    BY <1>0, <1>23, StatusEffects, RowsKept DEF Exists, Status
  <2>9. \A w \in Version : status'[w] = "CONNECTED" => status[w] = "CONNECTED"
    BY <1>0, <1>23, StatusEffects DEF Set, TypeOK
  <2> QED
    BY <1>0, <1>23, <2>1, <2>9 DEF TypeOK, Busy, HasNodes, ToInspect,
       InspComplete, NoRun, rows, objects
<1>24. ASSUME NEW r \in Run, InspRaise(r) PROVE HasNodes'
  <2>1. \A w \in Version : Exists(w)' = Exists(w)
    BY <1>0, <1>24, StatusEffects, RowsKept DEF Exists, Status
  <2>9. \A w \in Version : status'[w] = "CONNECTED" => status[w] = "CONNECTED"
    BY <1>0, <1>24, StatusEffects DEF Set, TypeOK
  <2> QED
    BY <1>0, <1>24, <2>1, <2>9 DEF TypeOK, Busy, HasNodes, ToInspect,
       InspRaise, NoRun, rows, objects
<1>25. ASSUME NEW r \in Run, InspCrash(r) PROVE HasNodes'
  BY <1>0, <1>25 DEF TypeOK, HasNodes, InspCrash, NoRun, Unnoticed,
     ToInspect, Exists, rows, objects
<1>26. ASSUME NEW v \in Version,
            AddRepository(v) \/ PushRead(v) \/ PushFail(v) \/ Drop(v) \/
            PushStep(v)
      PROVE  HasNodes'
  BY <1>1, <1>2, <1>3, <1>26 DEF PushStep, PushRead, PushFail, Drop,
     PushInsertFail, PushUpload, rows, objects
<1>27. ASSUME NEW v \in Version,
            Deliver(v)
      PROVE  HasNodes'
  BY <1>5, <1>6, <1>27 DEF Deliver
<1>28. ASSUME RemoveRead \/ DeleteObjects \/ DeleteRows PROVE HasNodes'
  BY <1>1, <1>4, <1>28 DEF RemoveRead, DeleteObjects, rows, objects
<1>29. ASSUME NEW t \in Task,
            ConnStep(t)
      PROVE  HasNodes'
  BY <1>7, <1>8, <1>9, <1>10, <1>11, <1>12, <1>29 DEF ConnStep
<1>30. ASSUME NEW q \in Request,
            GenStep(q) \/ GenFail(q) \/ \E v \in Version : GenRead(q, v)
      PROVE  HasNodes'
  BY <1>13, <1>14, <1>15, <1>16, <1>17, <1>30 DEF GenStep
<1>31. ASSUME NEW r \in Run,
            InspStep(r) \/ InspCrash(r) \/
            \E v \in Version : InspTake(r, v)
      PROVE  HasNodes'
  BY <1>18, <1>19, <1>20, <1>21, <1>22, <1>23, <1>24, <1>25, <1>31 DEF
     InspStep
<1> QED
  BY <1>1, <1>26, <1>27, <1>28, <1>29, <1>30, <1>31 DEF Next, vars, rows,
     objects

(* A version comes to be generated by a request that has debited it, by a  *)
(* run, or with a predecessor.                                             *)
LEMMA PaidNext == IInv /\ [Next]_vars => Paid'
<1> SUFFICES ASSUME IInv, [Next]_vars PROVE Paid'
  OBVIOUS
<1>0. TypeOK /\ Busy /\ Rooted /\ Pristine /\ Paid
  BY DEF IInv
<1> NoVersion \notin Version
  BY LifecycleAssumption
<1>1. ASSUME UNCHANGED <<status, prev, billed, ran, jobs, conn, gen, insp>> PROVE Paid'
  BY <1>0, <1>1 DEF Paid, Exists
<1>2. ASSUME NEW v \in Version, AddRepository(v) PROVE Paid'
  <2>1. Untouched(v)
    BY <1>0, <1>2 DEF Pristine, Rooted, AddRepository
  <2> QED
    BY <1>0, <1>2, <2>1 DEF TypeOK, Paid, Rooted, Untouched, Exists,
       AddRepository, Insert, objects
<1>3. ASSUME NEW v \in Version, PushInsert(v) PROVE Paid'
  <2>1. Untouched(v)
    BY <1>0, <1>3 DEF Pristine, Rooted, PushInsert
  <2> QED
    BY <1>0, <1>3, <2>1 DEF TypeOK, Paid, Rooted, Untouched, Exists,
       PushInsert, Insert, objects
<1>4. ASSUME DeleteRows PROVE Paid'
  BY <1>0, <1>4 DEF TypeOK, Paid, DeleteRows, Exists
<1>5. ASSUME NEW t \in Task, NEW v \in Version, Connect(t, v) PROVE Paid'
  BY <1>0, <1>5 DEF TypeOK, Paid, Connect, Delivered, Repeat, Exists, rows,
     objects
<1>6. ASSUME NEW v \in Version, Threat(v) PROVE Paid'
  <2>1. \A w \in Version : Exists(w)' = Exists(w)
    BY <1>0, <1>6, StatusEffects, RowsKept DEF Exists, Status
  <2>9. \A w \in Version :
          status'[w] = "GENERATING" => status[w] = "GENERATING"
    BY <1>0, <1>6, StatusEffects DEF Set, TypeOK
  <2> QED
    BY <1>0, <1>6, <2>1, <2>9 DEF TypeOK, Busy, Paid, Threat, Delivered,
       Repeat, rows, objects
<1>7. ASSUME NEW t \in Task, ConnUnpack(t) PROVE Paid'
  <2>1. \A w \in Version : Exists(w)' = Exists(w)
    BY <1>0, <1>7, StatusEffects, RowsKept DEF Exists, Status
  <2>9. \A w \in Version :
          status'[w] = "GENERATING" => status[w] = "GENERATING"
    BY <1>0, <1>7, StatusEffects DEF Set, TypeOK
  <2>2. conn' = [conn EXCEPT ![t].pc = "store"] \/ conn' = [conn EXCEPT ![t] = NoTask]
    BY <1>7 DEF ConnUnpack
  <2>3. UNCHANGED <<prev, billed, jobs, ran, gen, insp>> /\ conn[t].pc # "idle"
    BY <1>7 DEF ConnUnpack, rows, objects
  <2>4. CASE conn' = [conn EXCEPT ![t].pc = "store"]
    BY <1>0, <2>1, <2>9, <2>3, <2>4 DEF TypeOK, Busy, Paid, Exists
  <2>5. CASE conn' = [conn EXCEPT ![t] = NoTask]
    BY <1>0, <2>1, <2>9, <2>3, <2>5 DEF TypeOK, Busy, Paid, Exists, NoTask
  <2> QED
    BY <2>2, <2>4, <2>5
<1>8. ASSUME NEW t \in Task, ConnStore(t) PROVE Paid'
  BY <1>0, <1>8 DEF TypeOK, Paid, ConnStore, Exists, rows, objects
<1>9. ASSUME NEW t \in Task, NodesCommit(t) PROVE Paid'
  <2>1. \A w \in Version : Exists(w)' = Exists(w)
    BY <1>0, <1>9, StatusEffects, RowsKept DEF Exists, Status
  <2>9. \A w \in Version :
          status'[w] = "GENERATING" => status[w] = "GENERATING"
    BY <1>0, <1>9, StatusEffects DEF Set, TypeOK
  <2>3. UNCHANGED <<prev, billed, jobs, ran, gen, insp>>
    BY <1>9 DEF NodesCommit
  <2>4. \A u \in Task : conn'[u].pc = "spawn" =>
          \/ status[conn[t].v] = "GENERATING" /\ conn'[u].v = conn[t].v
          \/ conn[u].pc = "spawn" /\ conn'[u].v = conn[u].v
    BY <1>0, <1>9 DEF TypeOK, NodesCommit, NoTask
  <2> QED
    BY <1>0, <2>1, <2>9, <2>3, <2>4 DEF Paid
<1>10. ASSUME NEW t \in Task, NodesAbort(t) PROVE Paid'
  BY <1>0, <1>10 DEF TypeOK, Paid, NodesAbort, NoTask, Unnoticed, Exists,
     rows, objects
<1>11. ASSUME NEW t \in Task, ConnSpawn(t) PROVE Paid'
  <2>1. \A w \in Version : Exists(w)' = Exists(w)
    BY <1>0, <1>11, StatusEffects, RowsKept DEF Exists, Status
  <2>9. \A w \in Version :
          status'[w] = "GENERATING" => status[w] = "GENERATING"
    BY <1>0, <1>11, StatusEffects DEF Set, TypeOK
  <2> QED
    BY <1>0, <1>11, <2>1, <2>9 DEF TypeOK, Busy, Paid, ConnSpawn, NoTask,
       rows, objects
<1>12. ASSUME NEW t \in Task, ConnFail(t) PROVE Paid'
  BY <1>0, <1>12 DEF TypeOK, Paid, ConnFail, NoTask, Unnoticed, Exists, rows,
     objects
<1>13. ASSUME NEW q \in Request, NEW v \in Version, GenRead(q, v) PROVE Paid'
  BY <1>0, <1>13 DEF TypeOK, Paid, GenRead, Exists, rows, objects
<1>14. ASSUME NEW q \in Request, GenDebit(q) PROVE Paid'
  BY <1>0, <1>14 DEF TypeOK, Paid, GenDebit, Busy, Exists, rows, objects
<1>15. ASSUME NEW q \in Request, GenCommit(q) PROVE Paid'
  <2>1. \A w \in Version : Exists(w)' = Exists(w)
    BY <1>0, <1>15, StatusEffects, RowsKept DEF Exists, Status
  <2>9. \A w \in Version :
          status'[w] = "GENERATING" => status[w] = "GENERATING" \/ w = gen[q].v
    BY <1>0, <1>15, StatusEffects DEF Set, TypeOK
  <2> QED
    BY <1>0, <1>15, <2>1, <2>9 DEF TypeOK, Busy, Paid, GenCommit, NoRequest,
       rows, objects
<1>16. ASSUME NEW q \in Request, GenSpawn(q) PROVE Paid'
  BY <1>0, <1>16 DEF TypeOK, Paid, GenSpawn, NoRequest, Exists, rows, objects
<1>17. ASSUME NEW q \in Request, GenFail(q) PROVE Paid'
  BY <1>0, <1>17 DEF TypeOK, Paid, GenFail, NoRequest, Unnoticed, Exists,
     rows, objects
<1>18. ASSUME NEW r \in Run, NEW v \in Version, InspTake(r, v) PROVE Paid'
  BY <1>0, <1>18 DEF TypeOK, Paid, InspTake, NoRun, Repeat, Exists, rows,
     objects
<1>19. ASSUME NEW r \in Run, InspLoad(r) PROVE Paid'
  <2>1. \A w \in Version : Exists(w)' = Exists(w)
    BY <1>0, <1>19, StatusEffects, RowsKept DEF Exists, Status
  <2>9. \A w \in Version :
          status'[w] = "GENERATING" => status[w] = "GENERATING" \/ w = insp[r].v
    BY <1>0, <1>19, StatusEffects DEF Set, TypeOK
  <2> QED
    BY <1>0, <1>19, <2>1, <2>9 DEF TypeOK, Busy, Paid, InspLoad, Base, rows,
       objects
<1>20. ASSUME NEW r \in Run, InspFiles(r) PROVE Paid'
  <2>1. \A w \in Version : Exists(w)' = Exists(w)
    BY <1>0, <1>20, StatusEffects, RowsKept DEF Exists, Status
  <2>9. \A w \in Version :
          status'[w] = "GENERATING" => status[w] = "GENERATING" \/ w = insp[r].v
    BY <1>0, <1>20, StatusEffects DEF Set, TypeOK
  <2> QED
    BY <1>0, <1>20, <2>1, <2>9 DEF TypeOK, Busy, Paid, InspFiles, rows, objects
<1>21. ASSUME NEW r \in Run, InspDiff(r) PROVE Paid'
  <2>1. \A w \in Version : Exists(w)' = Exists(w)
    BY <1>0, <1>21, StatusEffects, RowsKept DEF Exists, Status
  <2>9. \A w \in Version :
          status'[w] = "GENERATING" => status[w] = "GENERATING"
    BY <1>0, <1>21, StatusEffects DEF Set, TypeOK
  <2>2. insp' = [insp EXCEPT ![r].pc = "inspect"] \/ insp' = [insp EXCEPT ![r] = NoRun]
    BY <1>21 DEF InspDiff
  <2>3. UNCHANGED <<prev, billed, jobs, ran, gen, conn>> /\ insp[r].pc # "idle"
    BY <1>21 DEF InspDiff, rows, objects
  <2>4. CASE insp' = [insp EXCEPT ![r].pc = "inspect"]
    BY <1>0, <2>1, <2>9, <2>3, <2>4 DEF TypeOK, Busy, Paid, Exists
  <2>5. CASE insp' = [insp EXCEPT ![r] = NoRun]
    BY <1>0, <2>1, <2>9, <2>3, <2>5 DEF TypeOK, Busy, Paid, Exists, NoRun
  <2> QED
    BY <2>2, <2>4, <2>5
<1>22. ASSUME NEW r \in Run, InspInspect(r) PROVE Paid'
  BY <1>0, <1>22 DEF TypeOK, Paid, InspInspect, Exists, rows, objects
<1>23. ASSUME NEW r \in Run, InspComplete(r) PROVE Paid'
  <2>1. \A w \in Version : Exists(w)' = Exists(w)
    BY <1>0, <1>23, StatusEffects, RowsKept DEF Exists, Status
  <2>9. \A w \in Version :
          status'[w] = "GENERATING" => status[w] = "GENERATING"
    BY <1>0, <1>23, StatusEffects DEF Set, TypeOK
  <2> QED
    BY <1>0, <1>23, <2>1, <2>9 DEF TypeOK, Busy, Paid, InspComplete, NoRun,
       rows, objects
<1>24. ASSUME NEW r \in Run, InspRaise(r) PROVE Paid'
  <2>1. \A w \in Version : Exists(w)' = Exists(w)
    BY <1>0, <1>24, StatusEffects, RowsKept DEF Exists, Status
  <2>9. \A w \in Version :
          status'[w] = "GENERATING" => status[w] = "GENERATING"
    BY <1>0, <1>24, StatusEffects DEF Set, TypeOK
  <2> QED
    BY <1>0, <1>24, <2>1, <2>9 DEF TypeOK, Busy, Paid, InspRaise, NoRun,
       rows, objects
<1>25. ASSUME NEW r \in Run, InspCrash(r) PROVE Paid'
  <2>1. insp' = [insp EXCEPT ![r] = NoRun] /\ insp[r].pc # "idle"
    BY <1>25 DEF InspCrash
  <2>2. UNCHANGED <<status, prev, billed, ran, jobs, conn, gen>>
    BY <1>25 DEF InspCrash, rows
  <2>3. \A s \in Run : insp'[s].pc # "idle" => s # r /\ insp'[s] = insp[s]
    BY <1>0, <2>1 DEF TypeOK, NoRun
  <2> QED
    BY <1>0, <2>2, <2>3 DEF Paid, Exists
<1>26. ASSUME NEW v \in Version,
            AddRepository(v) \/ PushRead(v) \/ PushFail(v) \/ Drop(v) \/
            PushStep(v)
      PROVE  Paid'
  BY <1>1, <1>2, <1>3, <1>26 DEF PushStep, PushRead, PushFail, Drop,
     PushInsertFail, PushUpload, rows, objects
<1>27. ASSUME NEW v \in Version,
            Deliver(v)
      PROVE  Paid'
  BY <1>5, <1>6, <1>27 DEF Deliver
<1>28. ASSUME RemoveRead \/ DeleteObjects \/ DeleteRows PROVE Paid'
  BY <1>1, <1>4, <1>28 DEF RemoveRead, DeleteObjects, rows, objects
<1>29. ASSUME NEW t \in Task,
            ConnStep(t)
      PROVE  Paid'
  BY <1>7, <1>8, <1>9, <1>10, <1>11, <1>12, <1>29 DEF ConnStep
<1>30. ASSUME NEW q \in Request,
            GenStep(q) \/ GenFail(q) \/ \E v \in Version : GenRead(q, v)
      PROVE  Paid'
  BY <1>13, <1>14, <1>15, <1>16, <1>17, <1>30 DEF GenStep
<1>31. ASSUME NEW r \in Run,
            InspStep(r) \/ InspCrash(r) \/
            \E v \in Version : InspTake(r, v)
      PROVE  Paid'
  BY <1>18, <1>19, <1>20, <1>21, <1>22, <1>23, <1>24, <1>25, <1>31 DEF
     InspStep
<1> QED
  BY <1>1, <1>26, <1>27, <1>28, <1>29, <1>30, <1>31 DEF Next, vars, rows,
     objects

(* While the user is not deleting the codebase, nothing is taken away from *)
(* what is in the bucket and the database.                                 *)
LEMMA KeptGrows ==
  ASSUME [Next]_vars, Kept'
  PROVE /\ Kept
        /\ nodes \subseteq nodes' /\ docs \subseteq docs'
        /\ files \subseteq files' /\ archive \subseteq archive'
<1> DEFINE Grows == Kept /\ nodes \subseteq nodes' /\ docs \subseteq docs'
                      /\ files \subseteq files' /\ archive \subseteq archive'
<1>1. ASSUME RemoveRead PROVE Grows
  BY <1>1 DEF RemoveRead, rows, objects, Kept
<1>2. ASSUME DeleteObjects PROVE Grows
  BY <1>2 DEF DeleteObjects, rows, objects, Kept
<1>3. ASSUME DeleteRows PROVE Grows
  BY <1>3 DEF DeleteRows, rows, objects, Kept
<1>4. ASSUME NEW t \in Task, ConnStore(t) PROVE Grows
  BY <1>4 DEF ConnStore, rows, objects, Kept
<1>5. ASSUME NEW t \in Task, NodesCommit(t) PROVE Grows
  BY <1>5 DEF NodesCommit, rows, objects, Kept
<1>6. ASSUME NEW r \in Run, InspFiles(r) PROVE Grows
  BY <1>6 DEF InspFiles, rows, objects, Kept
<1>7. ASSUME NEW r \in Run, InspInspect(r) PROVE Grows
  BY <1>7 DEF InspInspect, rows, objects, Kept
<1>8. ASSUME UNCHANGED <<removal, nodes, docs, files, archive>> PROVE Grows
  BY <1>8 DEF Kept
<1>9. ASSUME NEW v \in Version,
            AddRepository(v) \/ PushRead(v) \/ PushFail(v) \/ Drop(v) \/
            PushStep(v)
      PROVE  Grows
  BY <1>8, <1>9 DEF PushStep, AddRepository, PushRead, PushFail, Drop,
     PushInsert, PushInsertFail, PushUpload, rows, objects
<1>10. ASSUME NEW v \in Version,
            Deliver(v)
      PROVE  Grows
  BY <1>8, <1>10 DEF Deliver, Threat, Connect, rows, objects
<1>11. ASSUME RemoveRead \/ DeleteObjects \/ DeleteRows PROVE Grows
  BY <1>1, <1>2, <1>3, <1>11
<1>12. ASSUME NEW t \in Task,
            ConnStep(t)
      PROVE  Grows
  BY <1>8, <1>4, <1>5, <1>12 DEF ConnStep, ConnUnpack, NodesAbort, ConnSpawn,
     ConnFail, rows, objects
<1>13. ASSUME NEW q \in Request,
            GenStep(q) \/ GenFail(q) \/ \E v \in Version : GenRead(q, v)
      PROVE  Grows
  BY <1>8, <1>13 DEF GenStep, GenDebit, GenCommit, GenSpawn, GenFail,
     GenRead, rows, objects
<1>14. ASSUME NEW r \in Run,
            InspStep(r) \/ InspCrash(r) \/
            \E v \in Version : InspTake(r, v)
      PROVE  Grows
  BY <1>8, <1>6, <1>7, <1>14 DEF InspStep, InspLoad, InspDiff, InspComplete,
     InspRaise, InspCrash, InspTake, rows, objects
<1> QED
  BY <1>8, <1>9, <1>10, <1>11, <1>12, <1>13, <1>14 DEF Next, vars, rows,
     objects

(* Each stage of a run puts what the next ones rely on.                    *)
LEMMA ProgressNext == IInv /\ [Next]_vars => Progress'
<1> SUFFICES ASSUME IInv, [Next]_vars PROVE Progress'
  OBVIOUS
<1>0. TypeOK /\ Busy /\ Progress
  BY DEF IInv
<1> NoVersion \notin Version
  BY LifecycleAssumption
<1>1. ASSUME UNCHANGED <<removal, files, archive, insp, nodes, docs>> PROVE Progress'
  BY <1>0, <1>1 DEF Progress, Kept
<1>2. ASSUME RemoveRead PROVE Progress'
  BY <1>0, <1>2 DEF TypeOK, Progress, RemoveRead, Kept, rows, objects
<1>3. ASSUME DeleteObjects PROVE Progress'
  BY <1>0, <1>3 DEF TypeOK, Progress, DeleteObjects, Kept, rows, objects
<1>4. ASSUME DeleteRows PROVE Progress'
  BY <1>0, <1>4 DEF TypeOK, Progress, DeleteRows, Kept, rows, objects
<1>5. ASSUME NEW t \in Task, ConnStore(t) PROVE Progress'
  BY <1>0, <1>5 DEF TypeOK, Progress, ConnStore, Kept, rows, objects
<1>6. ASSUME NEW t \in Task, NodesCommit(t) PROVE Progress'
  BY <1>0, <1>6 DEF TypeOK, Progress, NodesCommit, NoTask, Kept, rows, objects
<1>7. ASSUME NEW r \in Run, NEW v \in Version, InspTake(r, v) PROVE Progress'
  BY <1>0, <1>7 DEF TypeOK, Progress, InspTake, NoRun, Repeat, Kept, rows,
     objects
<1>8. ASSUME NEW r \in Run, InspLoad(r) PROVE Progress'
  BY <1>0, <1>8 DEF TypeOK, Progress, InspLoad, Base, Kept, objects
<1>9. ASSUME NEW r \in Run, InspFiles(r) PROVE Progress'
  BY <1>0, <1>9 DEF TypeOK, Progress, InspFiles, Source, Kept
<1>10. ASSUME NEW r \in Run, InspDiff(r) PROVE Progress'
  <2>2. insp' = [insp EXCEPT ![r].pc = "inspect"] \/ insp' = [insp EXCEPT ![r] = NoRun]
    BY <1>10 DEF InspDiff
  <2>3. UNCHANGED <<nodes, docs, files, archive, removal>> /\ insp[r].pc = "diff"
    BY <1>10 DEF InspDiff, rows, objects
  <2>4. CASE insp' = [insp EXCEPT ![r].pc = "inspect"]
    BY <1>0, <2>3, <2>4 DEF TypeOK, Busy, Progress, Kept
  <2>5. CASE insp' = [insp EXCEPT ![r] = NoRun]
    BY <1>0, <2>3, <2>5 DEF TypeOK, Busy, Progress, Kept, NoRun
  <2> QED
    BY <2>2, <2>4, <2>5
<1>11. ASSUME NEW r \in Run, InspInspect(r) PROVE Progress'
  BY <1>0, <1>11 DEF TypeOK, Progress, InspInspect, Kept, rows, objects
<1>12. ASSUME NEW r \in Run, InspComplete(r) PROVE Progress'
  BY <1>0, <1>12 DEF TypeOK, Progress, InspComplete, NoRun, Kept, objects
<1>13. ASSUME NEW r \in Run, InspRaise(r) PROVE Progress'
  BY <1>0, <1>13 DEF TypeOK, Progress, InspRaise, NoRun, Kept, objects
<1>14. ASSUME NEW r \in Run, InspCrash(r) PROVE Progress'
  BY <1>0, <1>14 DEF TypeOK, Progress, InspCrash, NoRun, Unnoticed, Kept,
     rows, objects
<1>15. ASSUME NEW v \in Version,
            AddRepository(v) \/ PushRead(v) \/ PushFail(v) \/ Drop(v) \/
            PushStep(v)
      PROVE  Progress'
  BY <1>1, <1>15 DEF PushStep, AddRepository, PushRead, PushFail, Drop,
     PushInsert, PushInsertFail, PushUpload, rows, objects
<1>16. ASSUME NEW v \in Version,
            Deliver(v)
      PROVE  Progress'
  BY <1>1, <1>16 DEF Deliver, Threat, Connect, rows, objects
<1>17. ASSUME RemoveRead \/ DeleteObjects \/ DeleteRows PROVE Progress'
  BY <1>2, <1>3, <1>4, <1>17
<1>18. ASSUME NEW t \in Task,
            ConnStep(t)
      PROVE  Progress'
  BY <1>1, <1>5, <1>6, <1>18 DEF ConnStep, ConnUnpack, NodesAbort, ConnSpawn,
     ConnFail, rows, objects
<1>19. ASSUME NEW q \in Request,
            GenStep(q) \/ GenFail(q) \/ \E v \in Version : GenRead(q, v)
      PROVE  Progress'
  BY <1>1, <1>19 DEF GenStep, GenDebit, GenCommit, GenSpawn, GenFail,
     GenRead, rows, objects
<1>20. ASSUME NEW r \in Run,
            InspStep(r) \/ InspCrash(r) \/
            \E v \in Version : InspTake(r, v)
      PROVE  Progress'
  BY <1>7, <1>8, <1>9, <1>10, <1>11, <1>12, <1>13, <1>14, <1>20 DEF InspStep
<1> QED
  BY <1>1, <1>15, <1>16, <1>17, <1>18, <1>19, <1>20 DEF Next, vars, rows,
     objects

(* Only InspComplete completes a version, at the end of a run.             *)
LEMMA CompleteNext == IInv /\ [Next]_vars => CompleteSound'
<1> SUFFICES ASSUME IInv, [Next]_vars PROVE CompleteSound'
  OBVIOUS
<1>0. TypeOK /\ Busy /\ Progress /\ CompleteSound
  BY DEF IInv
<1>g. Kept' => /\ Kept /\ nodes \subseteq nodes' /\ docs \subseteq docs'
              /\ files \subseteq files' /\ archive \subseteq archive'
  BY KeptGrows
<1>1. ASSUME UNCHANGED <<status>> PROVE CompleteSound'
  BY <1>0, <1>g, <1>1 DEF CompleteSound
<1>2. ASSUME NEW v \in Version, AddRepository(v) PROVE CompleteSound'
  <2>9. \A w \in Version :
          status'[w] = "GENERATION_COMPLETE" => status[w] = "GENERATION_COMPLETE"
    BY <1>0, <1>2 DEF Set, TypeOK, AddRepository, Insert
  <2> QED
    BY <1>0, <1>g, <2>9 DEF CompleteSound
<1>3. ASSUME NEW v \in Version, PushInsert(v) PROVE CompleteSound'
  <2>9. \A w \in Version :
          status'[w] = "GENERATION_COMPLETE" => status[w] = "GENERATION_COMPLETE"
    BY <1>0, <1>3 DEF Set, TypeOK, PushInsert, Insert
  <2> QED
    BY <1>0, <1>g, <2>9 DEF CompleteSound
<1>4. ASSUME DeleteRows PROVE CompleteSound'
  <2>9. \A w \in Version :
          status'[w] = "GENERATION_COMPLETE" => status[w] = "GENERATION_COMPLETE"
    BY <1>0, <1>4 DEF Set, TypeOK, DeleteRows
  <2> QED
    BY <1>0, <1>g, <2>9 DEF CompleteSound
<1>5. ASSUME NEW v \in Version, Threat(v) PROVE CompleteSound'
  <2>9. \A w \in Version :
          status'[w] = "GENERATION_COMPLETE" => status[w] = "GENERATION_COMPLETE"
    BY <1>0, <1>5, StatusEffects DEF Set, TypeOK
  <2> QED
    BY <1>0, <1>g, <2>9 DEF CompleteSound
<1>6. ASSUME NEW t \in Task, ConnUnpack(t) PROVE CompleteSound'
  <2>9. \A w \in Version :
          status'[w] = "GENERATION_COMPLETE" => status[w] = "GENERATION_COMPLETE"
    BY <1>0, <1>6, StatusEffects DEF Set, TypeOK
  <2> QED
    BY <1>0, <1>g, <2>9 DEF CompleteSound
<1>7. ASSUME NEW t \in Task, NodesCommit(t) PROVE CompleteSound'
  <2>9. \A w \in Version :
          status'[w] = "GENERATION_COMPLETE" => status[w] = "GENERATION_COMPLETE"
    BY <1>0, <1>7, StatusEffects DEF Set, TypeOK
  <2> QED
    BY <1>0, <1>g, <2>9 DEF CompleteSound
<1>8. ASSUME NEW t \in Task, ConnSpawn(t) PROVE CompleteSound'
  <2>9. \A w \in Version :
          status'[w] = "GENERATION_COMPLETE" => status[w] = "GENERATION_COMPLETE"
    BY <1>0, <1>8, StatusEffects DEF Set, TypeOK
  <2> QED
    BY <1>0, <1>g, <2>9 DEF CompleteSound
<1>9. ASSUME NEW q \in Request, GenCommit(q) PROVE CompleteSound'
  <2>9. \A w \in Version :
          status'[w] = "GENERATION_COMPLETE" => status[w] = "GENERATION_COMPLETE"
    BY <1>0, <1>9, StatusEffects DEF Set, TypeOK
  <2> QED
    BY <1>0, <1>g, <2>9 DEF CompleteSound
<1>10. ASSUME NEW r \in Run, InspLoad(r) PROVE CompleteSound'
  <2>9. \A w \in Version :
          status'[w] = "GENERATION_COMPLETE" => status[w] = "GENERATION_COMPLETE"
    BY <1>0, <1>10, StatusEffects DEF Set, TypeOK
  <2> QED
    BY <1>0, <1>g, <2>9 DEF CompleteSound
<1>11. ASSUME NEW r \in Run, InspFiles(r) PROVE CompleteSound'
  <2>9. \A w \in Version :
          status'[w] = "GENERATION_COMPLETE" => status[w] = "GENERATION_COMPLETE"
    BY <1>0, <1>11, StatusEffects DEF Set, TypeOK
  <2> QED
    BY <1>0, <1>g, <2>9 DEF CompleteSound
<1>12. ASSUME NEW r \in Run, InspDiff(r) PROVE CompleteSound'
  <2>9. \A w \in Version :
          status'[w] = "GENERATION_COMPLETE" => status[w] = "GENERATION_COMPLETE"
    BY <1>0, <1>12, StatusEffects DEF Set, TypeOK
  <2> QED
    BY <1>0, <1>g, <2>9 DEF CompleteSound
<1>13. ASSUME NEW r \in Run, InspComplete(r) PROVE CompleteSound'
  <2>1. /\ insp[r].pc = "complete" /\ insp[r].v \in Version
        /\ UNCHANGED <<nodes, docs, files, archive>>
    BY <1>0, <1>13 DEF InspComplete, Busy, objects
  <2>2. \A w \in Version : status'[w] = "GENERATION_COMPLETE" =>
          w = insp[r].v \/ status[w] = "GENERATION_COMPLETE"
    BY <1>0, <1>13, StatusEffects DEF Set, TypeOK
  <2> QED
    BY <1>0, <1>g, <2>1, <2>2 DEF CompleteSound, Progress
<1>14. ASSUME NEW r \in Run, InspRaise(r) PROVE CompleteSound'
  <2>9. \A w \in Version :
          status'[w] = "GENERATION_COMPLETE" => status[w] = "GENERATION_COMPLETE"
    BY <1>0, <1>14, StatusEffects DEF Set, TypeOK
  <2> QED
    BY <1>0, <1>g, <2>9 DEF CompleteSound
<1>15. ASSUME NEW v \in Version,
            AddRepository(v) \/ PushRead(v) \/ PushFail(v) \/ Drop(v) \/
            PushStep(v)
      PROVE  CompleteSound'
  BY <1>1, <1>2, <1>3, <1>15 DEF PushStep, PushRead, PushFail, Drop,
     PushInsertFail, PushUpload, rows, objects
<1>16. ASSUME NEW v \in Version,
            Deliver(v)
      PROVE  CompleteSound'
  BY <1>1, <1>5, <1>16 DEF Deliver, Connect, rows, objects
<1>17. ASSUME RemoveRead \/ DeleteObjects \/ DeleteRows PROVE CompleteSound'
  BY <1>1, <1>4, <1>17 DEF RemoveRead, DeleteObjects, rows, objects
<1>18. ASSUME NEW t \in Task,
            ConnStep(t)
      PROVE  CompleteSound'
  BY <1>1, <1>6, <1>7, <1>8, <1>18 DEF ConnStep, ConnStore, NodesAbort,
     ConnFail, rows, objects
<1>19. ASSUME NEW q \in Request,
            GenStep(q) \/ GenFail(q) \/ \E v \in Version : GenRead(q, v)
      PROVE  CompleteSound'
  BY <1>1, <1>9, <1>19 DEF GenStep, GenDebit, GenSpawn, GenFail, GenRead,
     rows, objects
<1>20. ASSUME NEW r \in Run,
            InspStep(r) \/ InspCrash(r) \/
            \E v \in Version : InspTake(r, v)
      PROVE  CompleteSound'
  BY <1>1, <1>10, <1>11, <1>12, <1>13, <1>14, <1>20 DEF InspStep,
     InspInspect, InspCrash, InspTake, rows, objects
<1> QED
  BY <1>1, <1>15, <1>16, <1>17, <1>18, <1>19, <1>20 DEF Next, vars, rows,
     objects

(* Only InspLoad chooses a base, a complete version.                       *)
LEMMA BaseNext == IInv /\ [Next]_vars => BaseSound'
<1> SUFFICES ASSUME IInv, [Next]_vars PROVE BaseSound'
  OBVIOUS
<1>0. TypeOK /\ Busy /\ Progress /\ CompleteSound /\ BaseSound
  BY DEF IInv
<1>g. Kept' => /\ Kept /\ nodes \subseteq nodes' /\ docs \subseteq docs'
              /\ files \subseteq files' /\ archive \subseteq archive'
  BY KeptGrows
<1>1. ASSUME UNCHANGED <<insp>> PROVE BaseSound'
  BY <1>0, <1>g, <1>1 DEF BaseSound
<1>2. ASSUME NEW r \in Run, NEW v \in Version, InspTake(r, v) PROVE BaseSound'
  BY <1>0, <1>g, <1>2 DEF TypeOK, BaseSound, InspTake, NoRun
<1>3. ASSUME NEW r \in Run, InspLoad(r) PROVE BaseSound'
  <2>1. Base(insp[r].v) # NoVersion =>
          /\ Base(insp[r].v) \in Version
          /\ status[Base(insp[r].v)] = "GENERATION_COMPLETE"
    BY <1>0, <1>3 DEF InspLoad, Busy, Base, TypeOK
  <2>2. /\ insp'[r].base = Base(insp[r].v)
        /\ \A s \in Run \ {r} : insp'[s] = insp[s]
    BY <1>0, <1>3 DEF InspLoad, TypeOK
  <2> QED
    BY <1>0, <1>g, <2>1, <2>2 DEF BaseSound, CompleteSound
<1>4. ASSUME NEW r \in Run, InspFiles(r) PROVE BaseSound'
  BY <1>0, <1>g, <1>4 DEF TypeOK, BaseSound, InspFiles
<1>5. ASSUME NEW r \in Run, InspDiff(r) PROVE BaseSound'
  <2>2. insp' = [insp EXCEPT ![r].pc = "inspect"] \/ insp' = [insp EXCEPT ![r] = NoRun]
    BY <1>5 DEF InspDiff
  <2> QED
    BY <1>0, <1>g, <2>2 DEF TypeOK, BaseSound, NoRun
<1>6. ASSUME NEW r \in Run, InspInspect(r) PROVE BaseSound'
  BY <1>0, <1>g, <1>6 DEF TypeOK, BaseSound, InspInspect
<1>7. ASSUME NEW r \in Run, InspComplete(r) PROVE BaseSound'
  BY <1>0, <1>g, <1>7 DEF TypeOK, BaseSound, InspComplete, NoRun
<1>8. ASSUME NEW r \in Run, InspRaise(r) PROVE BaseSound'
  BY <1>0, <1>g, <1>8 DEF TypeOK, BaseSound, InspRaise, NoRun
<1>9. ASSUME NEW r \in Run, InspCrash(r) PROVE BaseSound'
  BY <1>0, <1>g, <1>9 DEF TypeOK, BaseSound, InspCrash, NoRun
<1>10. ASSUME NEW v \in Version,
            AddRepository(v) \/ PushRead(v) \/ PushFail(v) \/ Drop(v) \/
            PushStep(v)
      PROVE  BaseSound'
  BY <1>1, <1>10 DEF PushStep, AddRepository, PushRead, PushFail, Drop,
     PushInsert, PushInsertFail, PushUpload, rows, objects
<1>11. ASSUME NEW v \in Version,
            Deliver(v)
      PROVE  BaseSound'
  BY <1>1, <1>11 DEF Deliver, Threat, Connect, rows, objects
<1>12. ASSUME RemoveRead \/ DeleteObjects \/ DeleteRows PROVE BaseSound'
  BY <1>1, <1>12 DEF RemoveRead, DeleteObjects, DeleteRows, rows, objects
<1>13. ASSUME NEW t \in Task,
            ConnStep(t)
      PROVE  BaseSound'
  BY <1>1, <1>13 DEF ConnStep, ConnUnpack, ConnStore, NodesCommit,
     NodesAbort, ConnSpawn, ConnFail, rows, objects
<1>14. ASSUME NEW q \in Request,
            GenStep(q) \/ GenFail(q) \/ \E v \in Version : GenRead(q, v)
      PROVE  BaseSound'
  BY <1>1, <1>14 DEF GenStep, GenDebit, GenCommit, GenSpawn, GenFail,
     GenRead, rows, objects
<1>15. ASSUME NEW r \in Run,
            InspStep(r) \/ InspCrash(r) \/
            \E v \in Version : InspTake(r, v)
      PROVE  BaseSound'
  BY <1>2, <1>3, <1>4, <1>5, <1>6, <1>7, <1>8, <1>9, <1>15 DEF InspStep
<1> QED
  BY <1>1, <1>10, <1>11, <1>12, <1>13, <1>14, <1>15 DEF Next, vars, rows,
     objects

(* A request that reads finds no other, or makes an overlap.               *)
LEMMA BillingNext == IInv /\ [Next]_vars => Billing'
<1> SUFFICES ASSUME IInv, [Next]_vars PROVE Billing'
  OBVIOUS
<1>0. TypeOK /\ Busy /\ HasNodes /\ Billing
  BY DEF IInv
<1> NoVersion \notin Version
  BY LifecycleAssumption
<1>1. ASSUME UNCHANGED <<overlap, lost, gen, billed, status>> PROVE Billing'
  BY <1>0, <1>1 DEF Billing
<1>2. ASSUME NEW v \in Version, AddRepository(v) PROVE Billing'
  <2>9. \A w \in Version : status'[w] = "CONNECTED" => status[w] = "CONNECTED"
    BY <1>0, <1>2 DEF AddRepository, Insert, TypeOK
  <2>3. UNCHANGED <<overlap, lost, gen, billed>>
    BY <1>2 DEF AddRepository
  <2> QED
    BY <1>0, <2>3, <2>9 DEF Billing
<1>3. ASSUME NEW v \in Version, PushInsert(v) PROVE Billing'
  <2>9. \A w \in Version : status'[w] = "CONNECTED" => status[w] = "CONNECTED"
    BY <1>0, <1>3 DEF PushInsert, Insert, TypeOK
  <2>3. UNCHANGED <<overlap, lost, gen, billed>>
    BY <1>3 DEF PushInsert
  <2> QED
    BY <1>0, <2>3, <2>9 DEF Billing
<1>4. ASSUME NEW v \in Version, PushFail(v) PROVE Billing'
  <2>1. lost \subseteq lost' /\ UNCHANGED <<status, overlap, gen, billed>>
    BY <1>4 DEF PushFail, Unnoticed, rows
  <2> QED
    BY <1>0, <2>1 DEF Billing
<1>5. ASSUME DeleteRows PROVE Billing'
  <2>9. \A w \in Version : status'[w] = "CONNECTED" => status[w] = "CONNECTED"
    BY <1>0, <1>5 DEF DeleteRows, TypeOK
  <2>3. UNCHANGED <<overlap, lost, gen, billed>>
    BY <1>5 DEF DeleteRows
  <2> QED
    BY <1>0, <2>3, <2>9 DEF Billing
<1>6. ASSUME NEW v \in Version, Threat(v) PROVE Billing'
  <2>9. \A w \in Version : status'[w] = "CONNECTED" => status[w] = "CONNECTED"
    BY <1>0, <1>6, StatusEffects DEF Set, TypeOK
  <2>3. UNCHANGED <<overlap, lost, gen, billed>>
    BY <1>6 DEF Threat
  <2> QED
    BY <1>0, <2>3, <2>9 DEF Billing
<1>7. ASSUME NEW v \in Version, Drop(v) PROVE Billing'
  <2>1. lost \subseteq lost' /\ UNCHANGED <<status, overlap, gen, billed>>
    BY <1>7 DEF Drop, Unnoticed, rows
  <2> QED
    BY <1>0, <2>1 DEF Billing
<1>8. ASSUME NEW t \in Task, ConnUnpack(t) PROVE Billing'
  <2>9. \A w \in Version : status'[w] = "CONNECTED" => status[w] = "CONNECTED"
    BY <1>0, <1>8, StatusEffects DEF Set, TypeOK
  <2>3. UNCHANGED <<overlap, lost, gen, billed>>
    BY <1>8 DEF ConnUnpack
  <2> QED
    BY <1>0, <2>3, <2>9 DEF Billing
<1>9. ASSUME NEW t \in Task, NodesCommit(t) PROVE Billing'
  <2>1. \A w \in Version : status'[w] = "CONNECTED" =>
          status[w] = "CONNECTED" \/ (w = conn[t].v /\ Exists(w) /\ w \notin nodes)
    <3>1. Exists(conn[t].v) /\ conn[t].v \notin nodes
      BY <1>9 DEF NodesCommit, Refused
    <3>2. status' = IF status[conn[t].v] = "GENERATING" THEN status
                    ELSE Set(conn[t].v, "CONNECTED")
      BY <1>0, <1>9, StatusEffects
    <3> QED
      BY <1>0, <3>1, <3>2 DEF Set, TypeOK
  <2>2. \A w \in Version : Exists(w) /\ w \notin nodes => ~(billed[w] > 0)
    BY <1>0 DEF HasNodes, ToInspect
  <2>3. UNCHANGED <<overlap, lost, gen, billed>>
    BY <1>9 DEF NodesCommit
  <2> QED
    BY <1>0, <2>1, <2>2, <2>3 DEF Billing
<1>10. ASSUME NEW t \in Task, NodesAbort(t) PROVE Billing'
  <2>1. lost \subseteq lost' /\ UNCHANGED <<status, overlap, gen, billed>>
    BY <1>10 DEF NodesAbort, Unnoticed, rows
  <2> QED
    BY <1>0, <2>1 DEF Billing
<1>11. ASSUME NEW t \in Task, ConnSpawn(t) PROVE Billing'
  <2>9. \A w \in Version : status'[w] = "CONNECTED" => status[w] = "CONNECTED"
    BY <1>0, <1>11, StatusEffects DEF Set, TypeOK
  <2>3. UNCHANGED <<overlap, lost, gen, billed>>
    BY <1>11 DEF ConnSpawn
  <2> QED
    BY <1>0, <2>3, <2>9 DEF Billing
<1>12. ASSUME NEW t \in Task, ConnFail(t) PROVE Billing'
  <2>1. lost \subseteq lost' /\ UNCHANGED <<status, overlap, gen, billed>>
    BY <1>12 DEF ConnFail, Unnoticed, rows
  <2> QED
    BY <1>0, <2>1 DEF Billing
<1>13. ASSUME NEW q \in Request, NEW v \in Version, GenRead(q, v) PROVE Billing'
  BY <1>0, <1>13 DEF TypeOK, Billing, GenRead, Requested, rows
<1>14. ASSUME NEW q \in Request, GenDebit(q) PROVE Billing'
  BY <1>0, <1>14 DEF TypeOK, Billing, GenDebit, Busy
<1>15. ASSUME NEW q \in Request, GenCommit(q) PROVE Billing'
  <2>1. \A w \in Version : status'[w] = "CONNECTED" => status[w] = "CONNECTED" /\ w # gen[q].v
    BY <1>0, <1>15, StatusEffects DEF Set, TypeOK, Exists
  <2>3. UNCHANGED <<overlap, lost, billed>>
    BY <1>15 DEF GenCommit
  <2>4. /\ gen[q].pc = "commit"
        /\ \A p \in Request : p # q => gen'[p] = gen[p]
        /\ gen'[q].v \in {gen[q].v, NoVersion} /\ gen'[q].pc # "debit"
    BY <1>0, <1>15 DEF GenCommit, TypeOK, NoRequest
  <2> QED
    BY <1>0, <2>1, <2>3, <2>4 DEF Billing
<1>16. ASSUME NEW q \in Request, GenSpawn(q) PROVE Billing'
  BY <1>0, <1>16 DEF TypeOK, Billing, GenSpawn, NoRequest, Busy, rows
<1>17. ASSUME NEW q \in Request, GenFail(q) PROVE Billing'
  BY <1>0, <1>17 DEF TypeOK, Billing, GenFail, NoRequest, Unnoticed, Busy, rows
<1>18. ASSUME NEW r \in Run, InspLoad(r) PROVE Billing'
  <2>9. \A w \in Version : status'[w] = "CONNECTED" => status[w] = "CONNECTED"
    BY <1>0, <1>18, StatusEffects DEF Set, TypeOK
  <2>3. UNCHANGED <<overlap, lost, gen, billed>>
    BY <1>18 DEF InspLoad
  <2> QED
    BY <1>0, <2>3, <2>9 DEF Billing
<1>19. ASSUME NEW r \in Run, InspFiles(r) PROVE Billing'
  <2>9. \A w \in Version : status'[w] = "CONNECTED" => status[w] = "CONNECTED"
    BY <1>0, <1>19, StatusEffects DEF Set, TypeOK
  <2>3. UNCHANGED <<overlap, lost, gen, billed>>
    BY <1>19 DEF InspFiles
  <2> QED
    BY <1>0, <2>3, <2>9 DEF Billing
<1>20. ASSUME NEW r \in Run, InspDiff(r) PROVE Billing'
  <2>9. \A w \in Version : status'[w] = "CONNECTED" => status[w] = "CONNECTED"
    BY <1>0, <1>20, StatusEffects DEF Set, TypeOK
  <2>3. UNCHANGED <<overlap, lost, gen, billed>>
    BY <1>20 DEF InspDiff
  <2> QED
    BY <1>0, <2>3, <2>9 DEF Billing
<1>21. ASSUME NEW r \in Run, InspComplete(r) PROVE Billing'
  <2>9. \A w \in Version : status'[w] = "CONNECTED" => status[w] = "CONNECTED"
    BY <1>0, <1>21, StatusEffects DEF Set, TypeOK
  <2>3. UNCHANGED <<overlap, lost, gen, billed>>
    BY <1>21 DEF InspComplete
  <2> QED
    BY <1>0, <2>3, <2>9 DEF Billing
<1>22. ASSUME NEW r \in Run, InspRaise(r) PROVE Billing'
  <2>9. \A w \in Version : status'[w] = "CONNECTED" => status[w] = "CONNECTED"
    BY <1>0, <1>22, StatusEffects DEF Set, TypeOK
  <2>3. UNCHANGED <<overlap, lost, gen, billed>>
    BY <1>22 DEF InspRaise
  <2> QED
    BY <1>0, <2>3, <2>9 DEF Billing
<1>23. ASSUME NEW r \in Run, InspCrash(r) PROVE Billing'
  <2>1. lost \subseteq lost' /\ UNCHANGED <<status, overlap, gen, billed>>
    BY <1>23 DEF InspCrash, Unnoticed, rows
  <2> QED
    BY <1>0, <2>1 DEF Billing
<1>24. ASSUME NEW v \in Version,
            AddRepository(v) \/ PushRead(v) \/ PushFail(v) \/ Drop(v) \/
            PushStep(v)
      PROVE  Billing'
  BY <1>1, <1>2, <1>3, <1>4, <1>7, <1>24 DEF PushStep, PushRead,
     PushInsertFail, PushUpload, rows, objects
<1>25. ASSUME NEW v \in Version,
            Deliver(v)
      PROVE  Billing'
  BY <1>1, <1>6, <1>25 DEF Deliver, Connect, rows, objects
<1>26. ASSUME RemoveRead \/ DeleteObjects \/ DeleteRows PROVE Billing'
  BY <1>1, <1>5, <1>26 DEF RemoveRead, DeleteObjects, rows, objects
<1>27. ASSUME NEW t \in Task,
            ConnStep(t)
      PROVE  Billing'
  BY <1>1, <1>8, <1>9, <1>10, <1>11, <1>12, <1>27 DEF ConnStep, ConnStore,
     rows, objects
<1>28. ASSUME NEW q \in Request,
            GenStep(q) \/ GenFail(q) \/ \E v \in Version : GenRead(q, v)
      PROVE  Billing'
  BY <1>13, <1>14, <1>15, <1>16, <1>17, <1>28 DEF GenStep
<1>29. ASSUME NEW r \in Run,
            InspStep(r) \/ InspCrash(r) \/
            \E v \in Version : InspTake(r, v)
      PROVE  Billing'
  BY <1>1, <1>18, <1>19, <1>20, <1>21, <1>22, <1>23, <1>29 DEF InspStep,
     InspInspect, InspTake, rows, objects
<1> QED
  BY <1>1, <1>24, <1>25, <1>26, <1>27, <1>28, <1>29 DEF Next, vars, rows,
     objects

(* Who gives up a version hands it on, sets its status, or is recorded.    *)
LEMMA OwnedNext == IInv /\ [Next]_vars => Owned'
<1> SUFFICES ASSUME IInv, [Next]_vars PROVE Owned'
  OBVIOUS
<1>0. TypeOK /\ Busy /\ Rooted /\ Pristine /\ HasNodes /\ Owned
  BY DEF IInv
<1> NoVersion \notin Version
  BY LifecycleAssumption
<1>1. ASSUME UNCHANGED <<status, nodes, lost, push, event, conn, jobs, gen, insp>> PROVE Owned'
  BY <1>0, <1>1 DEF Owned, Early, Late
<1>2. ASSUME NEW v \in Version, AddRepository(v) PROVE Owned'
  <2>1. v \notin nodes
    BY <1>0, <1>2 DEF Pristine, Rooted, Untouched, AddRepository
  <2>2. /\ push'[v].pc = "upload" /\ \A w \in Version \ {v} : push'[w] = push[w]
        /\ \A w \in Version \ {v} : status'[w] = status[w]
        /\ UNCHANGED <<nodes, lost, event, conn, jobs, gen, insp>>
    BY <1>0, <1>2 DEF TypeOK, AddRepository, Insert
  <2> QED
    BY <1>0, <2>1, <2>2 DEF Owned, Early, Late
<1>3. ASSUME NEW v \in Version, PushRead(v) PROVE Owned'
  <2>1. \A w \in Version : push[w].pc = "upload" => push'[w].pc = "upload"
    <3>1. /\ push[v].pc # "upload"
          /\ \/ push' = [push EXCEPT ![v].pc = "ignored"]
             \/ \E p \in Rows : Accept(v, "CONNECTING", p) \/ Accept(v, "GENERATING", p)
      BY <1>3 DEF PushRead
    <3> QED
      BY <1>0, <3>1 DEF TypeOK, Accept
  <2>2. UNCHANGED <<status, nodes, lost, event, conn, jobs, gen, insp>>
    BY <1>3 DEF PushRead, rows
  <2> QED
    BY <1>0, <2>1, <2>2 DEF Owned, Early, Late
<1>4. ASSUME NEW v \in Version, PushInsert(v) PROVE Owned'
  <2>1. v \notin nodes
    BY <1>0, <1>4 DEF Pristine, Rooted, Untouched, PushInsert
  <2>2. /\ push'[v].pc = "upload" /\ \A w \in Version \ {v} : push'[w] = push[w]
        /\ \A w \in Version \ {v} : status'[w] = status[w]
        /\ UNCHANGED <<nodes, lost, event, conn, jobs, gen, insp>>
    BY <1>0, <1>4 DEF TypeOK, PushInsert, Insert
  <2> QED
    BY <1>0, <2>1, <2>2 DEF Owned, Early, Late
<1>5. ASSUME NEW v \in Version, PushInsertFail(v) PROVE Owned'
  BY <1>0, <1>5 DEF TypeOK, Owned, PushInsertFail, NoPush, Early, Late,
     Exists, rows, objects
<1>6. ASSUME NEW v \in Version, PushUpload(v) PROVE Owned'
  BY <1>0, <1>6 DEF TypeOK, Owned, PushUpload, Early, Late, Exists, rows,
     objects
<1>7. ASSUME NEW v \in Version, PushFail(v) PROVE Owned'
  BY <1>0, <1>7 DEF TypeOK, Owned, PushFail, Unnoticed, Early, Late, Exists,
     rows, objects
<1>8. ASSUME DeleteRows PROVE Owned'
  BY <1>0, <1>8 DEF TypeOK, Owned, DeleteRows
<1>9. ASSUME NEW t \in Task, NEW v \in Version, Connect(t, v) PROVE Owned'
  <2>1. UNCHANGED <<status, nodes, lost, push, jobs, gen, insp>>
    BY <1>9 DEF Connect, rows
  <2>2. /\ event \ {v} \subseteq event' /\ conn[t].pc = "idle"
        /\ conn'[t].v = v /\ conn'[t].pc = "unpack"
        /\ \A u \in Task \ {t} : conn'[u] = conn[u]
    BY <1>0, <1>9 DEF TypeOK, Connect, Delivered
  <2>3. \A w \in Version : Early(w) => Early(w)'
    BY <2>1, <2>2 DEF Early
  <2>4. \A w \in Version : Late(w) => Late(w)'
    BY <2>1, <2>2 DEF Late
  <2> QED
    BY <1>0, <2>1, <2>3, <2>4 DEF Owned
<1>10. ASSUME NEW v \in Version, Threat(v) PROVE Owned'
  BY <1>0, <1>10, StatusEffects DEF TypeOK, Owned, Threat, Delivered, Repeat,
     Set, Early, Late, Exists, rows, objects
<1>11. ASSUME NEW v \in Version, Drop(v) PROVE Owned'
  BY <1>0, <1>11 DEF TypeOK, Owned, Drop, Unnoticed, Early, Late, Exists,
     rows, objects
<1>12. ASSUME NEW t \in Task, ConnUnpack(t) PROVE Owned'
  <2>1. \A u \in Task : u # t => conn'[u].pc = conn[u].pc /\ conn'[u].v = conn[u].v
    BY <1>0, <1>12 DEF TypeOK, ConnUnpack
  <2>2. UNCHANGED <<nodes, push, event, gen, insp, lost, jobs>>
    BY <1>12 DEF ConnUnpack, rows, objects
  <2>3. \/ conn' = [conn EXCEPT ![t].pc = "store"] /\ UNCHANGED status
        \/ status' = Set(conn[t].v, "CONNECTION_FAILED")
    BY <1>0, <1>12, StatusSet DEF ConnUnpack, Set, Status, Busy
  <2>4. CASE conn' = [conn EXCEPT ![t].pc = "store"] /\ UNCHANGED status
    <3>1. conn[t].pc = "unpack"
      BY <1>12 DEF ConnUnpack
    <3> QED
      BY <1>0, <2>2, <2>4, <3>1 DEF Owned, Early, Late, TypeOK
  <2>5. CASE status' = Set(conn[t].v, "CONNECTION_FAILED")
    <3>1. \A w \in Version : status'[w] \in {"CONNECTING", "GENERATING"} =>
            w # conn[t].v /\ status'[w] = status[w]
      BY <1>0, <2>5 DEF Set, TypeOK, Exists
    <3> QED
      BY <1>0, <2>1, <2>2, <3>1 DEF Owned, Early, Late
  <2> QED
    BY <2>3, <2>4, <2>5
<1>13. ASSUME NEW t \in Task, ConnStore(t) PROVE Owned'
  BY <1>0, <1>13 DEF TypeOK, Owned, ConnStore, Early, Late, Exists, rows,
     objects
<1>14. ASSUME NEW t \in Task, NodesCommit(t) PROVE Owned'
  <2>1. \A u \in Task : u # t => conn'[u].pc = conn[u].pc /\ conn'[u].v = conn[u].v
    BY <1>0, <1>14 DEF TypeOK, NodesCommit
  <2>2. UNCHANGED <<push, event, gen, insp, lost, jobs>>
    BY <1>14 DEF NodesCommit, rows, objects
  <2>3. /\ conn[t].pc = "nodes" /\ nodes' = nodes \cup {conn[t].v}
        /\ status[conn[t].v] = "GENERATING" =>
             conn'[t].v = conn[t].v /\ conn'[t].pc = "spawn"
    BY <1>0, <1>14 DEF TypeOK, NodesCommit
  <2>4. \A w \in Version : status'[w] \in {"CONNECTING", "GENERATING"} =>
          status'[w] = status[w] /\ (w = conn[t].v => status[w] = "GENERATING")
    <3>1. status' = IF status[conn[t].v] = "GENERATING" THEN status
                    ELSE Set(conn[t].v, "CONNECTED")
      BY <1>0, <1>14, StatusEffects
    <3>2. Exists(conn[t].v)
      BY <1>14 DEF NodesCommit
    <3> QED
      BY <1>0, <3>1, <3>2 DEF Set, TypeOK
  <2> QED
    BY <1>0, <2>1, <2>2, <2>3, <2>4 DEF Owned, Early, Late
<1>15. ASSUME NEW t \in Task, NodesAbort(t) PROVE Owned'
  <2>1. \A u \in Task : u # t => conn'[u].pc = conn[u].pc /\ conn'[u].v = conn[u].v
    BY <1>0, <1>15 DEF TypeOK, NodesAbort
  <2>2. UNCHANGED <<nodes, push, event, gen, insp, jobs>>
    BY <1>15 DEF NodesAbort, rows, objects
  <2>3. UNCHANGED status /\ conn[t].pc = "nodes" /\ lost \subseteq lost'
        /\ (conn[t].v \in nodes \/ conn[t].v \in lost')
    BY <1>15 DEF NodesAbort, Refused, Unnoticed, rows
  <2> QED
    BY <1>0, <2>1, <2>2, <2>3 DEF Owned, Early, Late
<1>16. ASSUME NEW t \in Task, ConnSpawn(t) PROVE Owned'
  <2>1. \A u \in Task : u # t => conn'[u].pc = conn[u].pc /\ conn'[u].v = conn[u].v
    BY <1>0, <1>16 DEF TypeOK, ConnSpawn
  <2>2. UNCHANGED <<nodes, push, event, gen, insp, lost>>
    BY <1>16 DEF ConnSpawn, rows, objects
  <2>0. conn[t].v \in Version /\ "GENERATION_ERROR" \in Status
    BY <1>0, <1>16 DEF ConnSpawn, Busy, Status
  <2>3. /\ \/ jobs' = [jobs EXCEPT ![conn[t].v] = jobs[conn[t].v] + 1] /\ UNCHANGED status
           \/ status' = Set(conn[t].v, "GENERATION_ERROR") /\ UNCHANGED jobs
        /\ conn[t].pc = "spawn" /\ conn[t].v \in Version
    BY <1>0, <1>16, <2>0, StatusSet DEF ConnSpawn, Set, TypeOK
  <2>4. CASE jobs' = [jobs EXCEPT ![conn[t].v] = jobs[conn[t].v] + 1] /\ UNCHANGED status
    <3>1. jobs'[conn[t].v] > 0 /\ \A w \in Version : jobs[w] > 0 => jobs'[w] > 0
      BY <1>0, <2>0, <2>4 DEF TypeOK
    <3> QED
      BY <1>0, <2>1, <2>2, <2>3, <2>4, <3>1 DEF Owned, Early, Late
  <2>5. CASE status' = Set(conn[t].v, "GENERATION_ERROR") /\ UNCHANGED jobs
    <3>1. \A w \in Version : status'[w] \in {"CONNECTING", "GENERATING"} =>
            w # conn[t].v /\ status'[w] = status[w]
      BY <1>0, <2>5 DEF Set, TypeOK, Exists
    <3> QED
      BY <1>0, <2>1, <2>2, <2>3, <2>5, <3>1 DEF Owned, Early, Late
  <2> QED
    BY <2>3, <2>4, <2>5
<1>17. ASSUME NEW t \in Task, ConnFail(t) PROVE Owned'
  BY <1>0, <1>17 DEF TypeOK, Owned, ConnFail, NoTask, Unnoticed, Early, Late,
     Exists, rows, objects
<1>18. ASSUME NEW q \in Request, NEW v \in Version, GenRead(q, v) PROVE Owned'
  BY <1>0, <1>18 DEF TypeOK, Owned, GenRead, Early, Late, Exists, rows, objects
<1>19. ASSUME NEW q \in Request, GenDebit(q) PROVE Owned'
  BY <1>0, <1>19 DEF TypeOK, Owned, GenDebit, Early, Late, Exists, rows,
     objects
<1>20. ASSUME NEW q \in Request, GenCommit(q) PROVE Owned'
  <2>9. \A w \in Version : status'[w] \in {"CONNECTING", "GENERATING"} =>
          status[w] \in {"CONNECTING", "GENERATING"} \/ (w = gen[q].v /\ Exists(w))
    BY <1>0, <1>20, StatusEffects DEF Set, TypeOK
  <2>1. \A p \in Request : p # q => gen'[p] = gen[p]
    BY <1>0, <1>20 DEF TypeOK, GenCommit
  <2>2. UNCHANGED <<nodes, lost, push, event, conn, jobs, insp>>
    BY <1>20 DEF GenCommit, objects
  <2>3. gen[q].pc = "commit" /\ gen[q].v \in Version
    BY <1>0, <1>20 DEF GenCommit, Busy
  <2>4. Exists(gen[q].v) => gen'[q].v = gen[q].v /\ gen'[q].pc = "spawn"
    BY <1>0, <1>20 DEF TypeOK, GenCommit
  <2>5. Exists(gen[q].v) => gen[q].v \in nodes
    BY <1>0, <2>3 DEF HasNodes, ToInspect
  <2> QED
    BY <1>0, <2>1, <2>2, <2>3, <2>4, <2>5, <2>9 DEF Owned, Early, Late
<1>21. ASSUME NEW q \in Request, GenSpawn(q) PROVE Owned'
  BY <1>0, <1>21 DEF TypeOK, Owned, GenSpawn, NoRequest, Early, Late, Exists,
     rows, objects
<1>22. ASSUME NEW q \in Request, GenFail(q) PROVE Owned'
  BY <1>0, <1>22 DEF TypeOK, Owned, GenFail, NoRequest, Unnoticed, Early,
     Late, Exists, rows, objects
<1>23. ASSUME NEW r \in Run, NEW v \in Version, InspTake(r, v) PROVE Owned'
  BY <1>0, <1>23 DEF TypeOK, Owned, InspTake, NoRun, Repeat, Early, Late,
     Exists, rows, objects
<1>24. ASSUME NEW r \in Run, InspLoad(r) PROVE Owned'
  <2>9. \A w \in Version : status'[w] \in {"CONNECTING", "GENERATING"} =>
          status[w] \in {"CONNECTING", "GENERATING"} \/ (w = insp[r].v /\ Exists(w))
    BY <1>0, <1>24, StatusEffects DEF Set, TypeOK
  <2>1. \A s \in Run : s # r => insp'[s] = insp[s]
    BY <1>0, <1>24 DEF TypeOK, InspLoad
  <2>2. UNCHANGED <<nodes, lost, push, event, conn, jobs, gen>>
    BY <1>24 DEF InspLoad, objects
  <2>3. insp'[r].v = insp[r].v /\ insp'[r].pc # "idle"
    BY <1>0, <1>24 DEF TypeOK, InspLoad
  <2>4. Exists(insp[r].v) /\ insp[r].v \in Version => insp[r].v \in nodes
    BY <1>0 DEF HasNodes, ToInspect
  <2> QED
    BY <1>0, <2>1, <2>2, <2>3, <2>4, <2>9 DEF Owned, Early, Late
<1>25. ASSUME NEW r \in Run, InspFiles(r) PROVE Owned'
  <2>9. \A w \in Version : status'[w] \in {"CONNECTING", "GENERATING"} =>
          status[w] \in {"CONNECTING", "GENERATING"} \/ (w = insp[r].v /\ Exists(w))
    BY <1>0, <1>25, StatusEffects DEF Set, TypeOK
  <2>1. \A s \in Run : s # r => insp'[s] = insp[s]
    BY <1>0, <1>25 DEF TypeOK, InspFiles
  <2>2. UNCHANGED <<nodes, lost, push, event, conn, jobs, gen>>
    BY <1>25 DEF InspFiles, objects
  <2>3. insp'[r].v = insp[r].v /\ insp'[r].pc # "idle"
    BY <1>0, <1>25 DEF TypeOK, InspFiles
  <2>4. Exists(insp[r].v) /\ insp[r].v \in Version => insp[r].v \in nodes
    BY <1>0 DEF HasNodes, ToInspect
  <2> QED
    BY <1>0, <2>1, <2>2, <2>3, <2>4, <2>9 DEF Owned, Early, Late
<1>26. ASSUME NEW r \in Run, InspDiff(r) PROVE Owned'
  <2>1. \A s \in Run : s # r => insp'[s] = insp[s]
    BY <1>0, <1>26 DEF TypeOK, InspDiff
  <2>2. UNCHANGED <<nodes, lost, push, event, conn, jobs, gen>>
    BY <1>26 DEF InspDiff, objects
  <2>3. \/ insp' = [insp EXCEPT ![r].pc = "inspect"] /\ UNCHANGED status
        \/ status' = Set(insp[r].v, "INSUFFICIENT_BALANCE")
    <3>1. insp[r].v \in Version /\ "INSUFFICIENT_BALANCE" \in Status
      BY <1>0, <1>26 DEF InspDiff, Busy, Status
    <3> QED
      BY <1>0, <1>26, <3>1, StatusSet DEF InspDiff, Set
  <2>4. CASE insp' = [insp EXCEPT ![r].pc = "inspect"] /\ UNCHANGED status
    BY <1>0, <2>1, <2>2, <2>4 DEF Owned, Early, Late, TypeOK
  <2>5. CASE status' = Set(insp[r].v, "INSUFFICIENT_BALANCE")
    <3>1. \A w \in Version : status'[w] \in {"CONNECTING", "GENERATING"} =>
            w # insp[r].v /\ status'[w] = status[w]
      BY <1>0, <2>5 DEF Set, TypeOK, Exists
    <3> QED
      BY <1>0, <2>1, <2>2, <3>1 DEF Owned, Early, Late
  <2> QED
    BY <2>3, <2>4, <2>5
<1>27. ASSUME NEW r \in Run, InspInspect(r) PROVE Owned'
  <2>1. UNCHANGED <<status, nodes, lost, push, event, conn, jobs, gen>>
    BY <1>27 DEF InspInspect
  <2>2. /\ insp'[r].v = insp[r].v /\ insp'[r].pc = "complete"
        /\ \A s \in Run : s # r => insp'[s] = insp[s]
    BY <1>0, <1>27 DEF TypeOK, InspInspect
  <2> QED
    BY <1>0, <2>1, <2>2 DEF Owned, Early, Late
<1>28. ASSUME NEW r \in Run, InspComplete(r) PROVE Owned'
  <2>9. \A w \in Version : status'[w] \in {"CONNECTING", "GENERATING"} =>
          w # insp[r].v /\ status'[w] = status[w]
    BY <1>0, <1>28, StatusEffects DEF Set, TypeOK, Exists
  <2>1. \A s \in Run : s # r => insp'[s] = insp[s]
    BY <1>0, <1>28 DEF TypeOK, InspComplete
  <2>2. UNCHANGED <<nodes, lost, push, event, conn, jobs, gen>>
    BY <1>28 DEF InspComplete, objects
  <2> QED
    BY <1>0, <2>1, <2>2, <2>9 DEF Owned, Early, Late
<1>29. ASSUME NEW r \in Run, InspRaise(r) PROVE Owned'
  <2>9. \A w \in Version : status'[w] \in {"CONNECTING", "GENERATING"} =>
          w # insp[r].v /\ status'[w] = status[w]
    BY <1>0, <1>29, StatusEffects DEF Set, TypeOK, Exists
  <2>1. \A s \in Run : s # r => insp'[s] = insp[s]
    BY <1>0, <1>29 DEF TypeOK, InspRaise
  <2>2. UNCHANGED <<nodes, lost, push, event, conn, jobs, gen>>
    BY <1>29 DEF InspRaise, objects
  <2> QED
    BY <1>0, <2>1, <2>2, <2>9 DEF Owned, Early, Late
<1>30. ASSUME NEW r \in Run, InspCrash(r) PROVE Owned'
  <2>1. /\ UNCHANGED <<status, nodes, push, event, conn, jobs, gen>>
        /\ lost' = lost \cup {insp[r].v}
    BY <1>30 DEF InspCrash, Unnoticed, rows
  <2>2. \A s \in Run : s # r => insp'[s] = insp[s]
    BY <1>0, <1>30 DEF TypeOK, InspCrash
  <2> QED
    BY <1>0, <2>1, <2>2 DEF Owned, Early, Late
<1> QED
  BY <1>1, <1>2, <1>3, <1>4, <1>5, <1>6, <1>7, <1>8, <1>9, <1>10, <1>11,
     <1>12, <1>13, <1>14, <1>15, <1>16, <1>17, <1>18, <1>19, <1>20, <1>21,
     <1>22, <1>23, <1>24, <1>25, <1>26, <1>27, <1>28, <1>29, <1>30 DEF Next,
     PushStep, Deliver, ConnStep, GenStep, InspStep, RemoveRead,
     DeleteObjects, vars, rows, objects

------------------------------------------------------------------------------
LEMMA InitIInv == Init => IInv
<1> SUFFICES ASSUME Init PROVE IInv
  OBVIOUS
<1> NoVersion \notin Version
  BY LifecycleAssumption
<1>1. TypeOK
  BY DEF Init, TypeOK, NoPush, NoTask, NoRequest, NoRun
<1>2. Busy /\ Rooted /\ Pristine
  BY DEF Init, Busy, Rooted, Pristine, Untouched, Exists, NoPush, NoTask,
     NoRequest, NoRun
<1>3. HasNodes /\ Paid /\ Progress
  BY DEF Init, HasNodes, Paid, Progress, Exists, NoTask, NoRequest, NoRun
<1>4. CompleteSound /\ BaseSound /\ Billing /\ Owned
  BY DEF Init, CompleteSound, BaseSound, Billing, Owned, NoRequest, NoRun
<1> QED
  BY <1>1, <1>2, <1>3, <1>4 DEF IInv

LEMMA NextIInv == IInv /\ [Next]_vars => IInv'
BY TypeNext, BusyNext, RootedNext, PristineNext, HasNodesNext, PaidNext,
   ProgressNext,
   CompleteNext, BaseNext, BillingNext, OwnedNext DEF IInv

(* The inductive invariant holds in every reachable state: what is known   *)
(* of a version follows from how far its push, its tasks, its requests and *)
(* its inspections have come.                                              *)
THEOREM Invariance == Spec => []IInv
BY InitIInv, NextIInv, PTL DEF Spec

(* The rows, the objects and the tasks have their types, for any number of *)
(* versions and tasks.                                                     *)
THEOREM TypeCorrect == Spec => []TypeOK
<1>1. IInv => TypeOK
  BY DEF IInv
<1> QED
  BY Invariance, <1>1, PTL

(* inspect_db: a version that is shown as complete has nodes, archive,     *)
(* files and documents, whatever was repeated, lost or run at a time.      *)
THEOREM CompletenessIsSound == Spec => []CompleteSound
<1>1. IInv => CompleteSound
  BY DEF IInv
<1> QED
  BY Invariance, <1>1, PTL

(* try_get_prev_version: the base of a difference is usable for as long as *)
(* it is used.                                                             *)
THEOREM BasesAreSound == Spec => []BaseSound
<1>1. IInv => BaseSound
  BY DEF IInv
<1> QED
  BY Invariance, <1>1, PTL

(* exec_codebase_generation: no first version is inspected unpaid.         *)
THEOREM PaidBeforeInspected == Spec => []PaidFirst
<1>1. IInv => PaidFirst
  BY DEF IInv, Paid, PaidFirst
<1> QED
  BY Invariance, <1>1, PTL

(* exec_codebase_generation: a second debit takes two requests at a time,  *)
(* or one that died after its debit.                                       *)
THEOREM OneDebit == Spec => []DebitedOnce
<1>1. IInv => DebitedOnce
  BY DEF IInv, Billing, DebitedOnce, TypeOK
<1> QED
  BY Invariance, <1>1, PTL

(* A version in progress has a task, a request or an event that will end   *)
(* its progress.                                                           *)
THEOREM ProgressIsOwned == Spec => []Owned
<1>1. IInv => Owned
  BY Zenon DEF IInv
<1> QED
  BY Invariance, <1>1, PTL
------------------------------------------------------------------------------
(* VersionLifecycle implements VersionStatus.  What the rows of a version  *)
(* show follows from the archive and from who works for the version.       *)

Ordered == {"GENERATING", "GENERATION_COMPLETE", "GENERATION_ERROR",
            "INSUFFICIENT_BALANCE"}

(* The archive of a version does not change once anybody knows of it, so   *)
(* what is rejected is never connected and what is connected never         *)
(* rejected.                                                               *)
Scanned ==
  /\ \A v \in Version : push[v].pc # "done" =>
       upload[v] = "none" /\ v \notin event /\ \A t \in Task : conn[t].v # v
  /\ \A t \in Task : conn[t].pc \in {"store", "nodes", "spawn"} => upload[conn[t].v] = "good"
  /\ \A v \in Version : status[v] = "CONNECTION_FAILED" => upload[v] \notin {"none", "good"}
  /\ \A v \in nodes : upload[v] = "good"

(* The two halves of the diagram.                                          *)
Drawn ==
  \A v \in Version :
    status[v] \in IF v \in nodes THEN {"CONNECTED"} \cup Ordered
                  ELSE {"none", "CONNECTING", "GENERATING", "CONNECTION_FAILED"}

AtWork(v) ==
  \/ jobs[v] > 0 \/ v \in ran
  \/ \E t \in Task : conn[t].v = v /\ conn[t].pc = "spawn"
  \/ \E q \in Request : gen[q].v = v /\ gen[q].pc = "spawn"
  \/ \E r \in Run : insp[r].v = v

(* The inspector works for what was ordered only.                          *)
Worked == \A v \in Version : Exists(v) /\ AtWork(v) => status[v] \in Ordered

(* What a run has written, and what it builds on.                          *)
Written ==
  \A r \in Run :
    /\ insp[r].pc = "diff" => insp[r].base # NoVersion
    /\ insp[r].v \in Rows =>
         /\ insp[r].pc = "complete" => insp[r].v \in docs
         /\ insp[r].base # NoVersion => prev[insp[r].v] # NoVersion

(* What is going to be inserted, and that a row goes only with the asset.  *)
Accepted ==
  /\ removal = "delete" => asset = "present"
  /\ \A v \in Version :
       /\ ~Exists(v) => prev[v] = NoVersion
       /\ asset = "present" /\ push[v].pc \in {"upload", "done"} => Exists(v)
       /\ push[v].pc = "insert" => push[v].status \in {"CONNECTING", "GENERATING"}
       /\ push[v].pc = "insert" /\ asset = "present" =>
            /\ push[v].prev \in nodes
            /\ push[v].status = "GENERATING" => status[push[v].prev] \in Ordered

DInv == Scanned /\ Drawn /\ Worked /\ Written /\ Accepted

Debited == {v \in Version : billed[v] > 0}

(* The step of the diagram that a change of one status is.                 *)
LEMMA SetMaps ==
  ASSUME IInv, DInv, NEW v \in Version, NEW s \in Status, status' = Set(v, s),
         UNCHANGED <<asset, prev, nodes, docs, billed>>,
         Exists(v) =>
           \/ s = "CONNECTION_FAILED" /\ v \notin nodes
           \/ s = "GENERATING" /\ v \in nodes /\ (v \in Debited \/ prev[v] # NoVersion)
           \/ s = "GENERATION_ERROR" /\ v \in nodes /\ status[v] \in Ordered
           \/ s = "GENERATION_COMPLETE" /\ v \in nodes \cap docs /\ status[v] \in Ordered
           \/ /\ s = "INSUFFICIENT_BALANCE" /\ v \in nodes /\ status[v] \in Ordered
              /\ prev[v] # NoVersion
  PROVE  [Shown!Next]_Shown!vars
<1>0. /\ status \in [Version -> Status \cup {"none"}]
      /\ Debited' = Debited
  BY DEF IInv, TypeOK, Debited
<1>1. CASE status' = status
  BY <1>0, <1>1 DEF Shown!vars, Debited
<1>2. CASE status' # status
  <2>1. Exists(v) /\ status' = [status EXCEPT ![v] = s] /\ status[v] # s
    BY <1>0, <1>2 DEF Set
  <2>2. /\ v \notin nodes => status[v] \in {"CONNECTING", "GENERATING", "CONNECTION_FAILED"}
        /\ v \in nodes => status[v] \in {"CONNECTED"} \cup Ordered
    BY <2>1 DEF DInv, Drawn, Exists
  <2>3. CASE s = "CONNECTION_FAILED"
    <3>1. Shown!Reject(v)
      BY <1>0, <2>1, <2>2, <2>3 DEF Shown!Reject, Debited
    <3> QED
      BY <3>1 DEF Shown!Next
  <2>4. CASE s = "GENERATING"
    <3>1. Shown!Order(v)
      BY <1>0, <2>1, <2>2, <2>4 DEF Shown!Order, Shown!Due, Shown!Ordered, Ordered, Debited
    <3> QED
      BY <3>1 DEF Shown!Next
  <2>5. CASE s \in Ordered \ {"GENERATING"}
    <3>1. Shown!End(v, s)
      BY <1>0, <2>1, <2>2, <2>5 DEF Shown!End, Shown!Ordered, Ordered, Debited
    <3> QED
      BY <2>5, <3>1 DEF Shown!Next, Shown!Ordered, Ordered
  <2> QED
    BY <2>1, <2>3, <2>4, <2>5 DEF Ordered
<1> QED
  BY <1>1, <1>2

(* What a run needs to know of its version while there is one.             *)
LEMMA RunKnows ==
  ASSUME IInv, DInv, NEW r \in Run, insp[r].pc # "idle"
  PROVE  /\ insp[r].v \in Version
         /\ Exists(insp[r].v) =>
              /\ insp[r].v \in nodes /\ status[insp[r].v] \in Ordered
              /\ insp[r].v \in Debited \/ prev[insp[r].v] # NoVersion
<1> DEFINE v == insp[r].v
<1>1. v \in Version /\ v \in ran
  BY DEF IInv, Busy, Paid
<1>2. Exists(v) => v \in nodes
  BY <1>1 DEF IInv, HasNodes, ToInspect
<1>3. Exists(v) => status[v] \in Ordered
  BY <1>1 DEF DInv, Worked, AtWork
<1>4. Exists(v) /\ prev[v] = NoVersion => v \in Debited
  BY <1>1 DEF IInv, Paid, Debited
<1> QED
  BY <1>1, <1>2, <1>3, <1>4

(* Every step is a step of the diagram, or does not show.                  *)
LEMMA StepShows ==
  ASSUME IInv, DInv, [Next]_vars PROVE [Shown!Next]_Shown!vars
<1>0. TypeOK /\ Busy /\ Rooted /\ Pristine /\ HasNodes /\ Paid
  BY DEF IInv
<1>00. Scanned /\ Drawn /\ Worked /\ Written /\ Accepted
  BY DEF DInv
<1>1. ASSUME UNCHANGED <<asset, status, prev, nodes, docs, billed>>
      PROVE  [Shown!Next]_Shown!vars
  BY <1>1 DEF Shown!vars
<1>2. ASSUME NEW v \in Version, AddRepository(v) PROVE [Shown!Next]_Shown!vars
  <2>1. ~Exists(v) /\ prev[v] = NoVersion
    BY <1>0, <1>00, <1>2 DEF Rooted, Accepted, AddRepository
  <2>2. prev' = prev
    BY <1>0, <1>2, <2>1 DEF TypeOK, AddRepository, Insert
  <2>3. Shown!Add(v)
    BY <1>2, <2>2 DEF AddRepository, Insert, Shown!Add
  <2> QED
    BY <2>3 DEF Shown!Next
<1>3. ASSUME NEW v \in Version, PushInsert(v) PROVE [Shown!Next]_Shown!vars
  <2> DEFINE p == push[v].prev
  <2>1. ~Exists(v) /\ p \in Version
    BY <1>0, <1>3 DEF Rooted, Pristine, Untouched, PushInsert
  <2>2. /\ push[v].status \in {"CONNECTING", "GENERATING"} /\ p \in nodes
        /\ push[v].status = "GENERATING" => status[p] \in Ordered
    BY <1>00, <1>3 DEF Accepted, PushInsert
  <2>3. Shown!Push(v, p)
    BY <1>3, <2>1, <2>2 DEF PushInsert, Insert, Exists, Shown!Push, Shown!Ordered, Ordered
  <2> QED
    BY <2>1, <2>3 DEF Shown!Next
<1>4. ASSUME DeleteRows PROVE [Shown!Next]_Shown!vars
  <2>1. Shown!Remove
    BY <1>00, <1>4 DEF DeleteRows, Accepted, Shown!Remove
  <2> QED
    BY <2>1 DEF Shown!Next
<1>5. ASSUME NEW v \in Version, Threat(v) PROVE [Shown!Next]_Shown!vars
  <2>1. v \notin nodes
    BY <1>00, <1>5 DEF Scanned, Threat
  <2>2. status' = Set(v, "CONNECTION_FAILED")
    BY <1>0, <1>5, StatusEffects
  <2> QED
    BY <1>5, <2>1, <2>2, SetMaps DEF Threat, Status
<1>6. ASSUME NEW t \in Task, ConnUnpack(t) PROVE [Shown!Next]_Shown!vars
  <2>1. CASE upload[conn[t].v] = "good"
    BY <1>1, <1>6, <2>1 DEF ConnUnpack
  <2>2. CASE upload[conn[t].v] # "good"
    <3>1. conn[t].v \in Version /\ conn[t].v \notin nodes
      BY <1>0, <1>00, <1>6, <2>2 DEF Busy, Scanned, ConnUnpack
    <3>2. status' = status \/ status' = Set(conn[t].v, "CONNECTION_FAILED")
      BY <1>0, <1>6, StatusEffects
    <3>3. UNCHANGED <<asset, prev, nodes, docs, billed>>
      BY <1>6 DEF ConnUnpack
    <3> QED
      BY <1>1, <3>1, <3>2, <3>3, SetMaps DEF Status
  <2> QED
    BY <2>1, <2>2
<1>7. ASSUME NEW t \in Task, NodesCommit(t) PROVE [Shown!Next]_Shown!vars
  <2> DEFINE v == conn[t].v
  <2>1. v \in Version /\ v \notin nodes /\ upload[v] = "good" /\ Exists(v)
    BY <1>0, <1>00, <1>7 DEF Busy, Scanned, NodesCommit, Refused
  <2>2. status[v] \in {"CONNECTING", "GENERATING"}
    BY <1>00, <2>1 DEF Drawn, Scanned, Exists
  <2>3. status' = IF status[v] = "GENERATING" THEN status
                  ELSE [status EXCEPT ![v] = "CONNECTED"]
    BY <1>0, <1>7, <2>1, StatusEffects DEF Set
  <2>4. nodes' = nodes \cup {v} /\ UNCHANGED <<asset, prev, docs, billed>>
    BY <1>7 DEF NodesCommit
  <2>5. Shown!Connect(v)
    BY <2>1, <2>2, <2>3, <2>4 DEF Shown!Connect
  <2> QED
    BY <2>1, <2>5 DEF Shown!Next
<1>8. ASSUME NEW t \in Task, ConnSpawn(t) PROVE [Shown!Next]_Shown!vars
  <2> DEFINE v == conn[t].v
  <2>1. v \in Version /\ conn[t].pc = "spawn"
    BY <1>0, <1>8 DEF Busy, ConnSpawn
  <2>2. Exists(v) => v \in nodes /\ status[v] \in Ordered
    BY <1>0, <1>00, <2>1 DEF HasNodes, ToInspect, Worked, AtWork
  <2>3. status' = status \/ status' = Set(v, "GENERATION_ERROR")
    BY <1>0, <1>8, StatusEffects
  <2>4. UNCHANGED <<asset, prev, nodes, docs, billed>>
    BY <1>8 DEF ConnSpawn
  <2> QED
    BY <1>1, <2>1, <2>2, <2>3, <2>4, SetMaps DEF Status
<1>9. ASSUME NEW q \in Request, GenDebit(q) PROVE [Shown!Next]_Shown!vars
  <2> DEFINE v == gen[q].v
  <2>1. v \in Version /\ ~Untouched(v)
    BY <1>0, <1>9 DEF Busy, Untouched, GenDebit
  <2>2. v \in nodes \/ asset = "deleted"
    <3>1. push[v].pc \in {"upload", "done"}
      BY <1>0, <2>1 DEF Pristine, TypeOK
    <3>2. asset = "none" => push[v].pc = "idle"
      BY <1>0, <2>1 DEF Rooted
    <3>3. asset = "present" => Exists(v)
      BY <1>00, <2>1, <3>1 DEF Accepted
    <3>4. Exists(v) => v \in nodes
      BY <1>0, <2>1 DEF HasNodes, ToInspect
    <3> QED
      BY <1>0, <3>1, <3>2, <3>3, <3>4 DEF TypeOK
  <2>3. Debited' = Debited \cup {v} /\ UNCHANGED <<asset, status, prev, nodes, docs>>
    BY <1>0, <1>9, <2>1 DEF TypeOK, GenDebit, Debited
  <2>4. ASSUME NEW w \in Version, w = v PROVE [Shown!Next]_Shown!vars
    <3>1. Shown!Pay(w)
      BY <2>2, <2>3, <2>4 DEF Shown!Pay, Debited
    <3> QED
      BY <3>1 DEF Shown!Next
  <2> QED
    BY <2>1, <2>4
<1>10. ASSUME NEW q \in Request, GenCommit(q) PROVE [Shown!Next]_Shown!vars
  <2> DEFINE v == gen[q].v
  <2>1. v \in Version /\ v \in Debited
    BY <1>0, <1>10 DEF Busy, Paid, Debited, GenCommit
  <2>2. Exists(v) => v \in nodes
    BY <1>0, <2>1 DEF HasNodes, ToInspect
  <2>3. status' = Set(v, "GENERATING")
    BY <1>0, <1>10, StatusEffects
  <2>4. UNCHANGED <<asset, prev, nodes, docs, billed>>
    BY <1>10 DEF GenCommit
  <2> QED
    BY <2>1, <2>2, <2>3, <2>4, SetMaps DEF Status
<1>11. ASSUME NEW r \in Run, InspLoad(r) \/ InspFiles(r) PROVE [Shown!Next]_Shown!vars
  <2> DEFINE v == insp[r].v
  <2>1. insp[r].pc # "idle" /\ UNCHANGED <<asset, prev, nodes, docs, billed>>
    BY <1>11 DEF InspLoad, InspFiles
  <2>2. status' = status \/ status' = Set(v, "GENERATING")
    BY <1>0, <1>11, StatusEffects
  <2> QED
    BY <1>1, <2>1, <2>2, RunKnows, SetMaps DEF Status
<1>12. ASSUME NEW r \in Run, InspDiff(r) PROVE [Shown!Next]_Shown!vars
  <2> DEFINE v == insp[r].v
  <2>1. insp[r].pc = "diff" /\ UNCHANGED <<asset, prev, nodes, docs, billed>>
    BY <1>12 DEF InspDiff
  <2>2. Exists(v) => prev[v] # NoVersion
    BY <1>0, <1>00, <2>1 DEF Written, Rows, Busy
  <2>3. status' = status \/ status' = Set(v, "INSUFFICIENT_BALANCE")
    BY <1>0, <1>12, StatusEffects
  <2> QED
    BY <1>1, <2>1, <2>2, <2>3, RunKnows, SetMaps DEF Status
<1>13. ASSUME NEW r \in Run, InspInspect(r) PROVE [Shown!Next]_Shown!vars
  <2> DEFINE v == insp[r].v
  <2>1. insp[r].pc # "idle" /\ v \in nodes /\ docs' = docs \cup {v}
        /\ UNCHANGED <<asset, status, prev, nodes, billed>>
    BY <1>13 DEF InspInspect
  <2>2. v \in Version
    BY <2>1, RunKnows
  <2>3. Exists(v)
    BY <1>00, <2>1, <2>2 DEF Drawn, Exists, Ordered
  <2>4. Shown!Document(v)
    BY <2>1, <2>2, <2>3, RunKnows DEF Shown!Document, Shown!Due, Shown!Ordered, Ordered, Debited
  <2> QED
    BY <2>2, <2>4 DEF Shown!Next
<1>14. ASSUME NEW r \in Run, InspComplete(r) PROVE [Shown!Next]_Shown!vars
  <2> DEFINE v == insp[r].v
  <2>1. insp[r].pc = "complete" /\ UNCHANGED <<asset, prev, nodes, docs, billed>>
    BY <1>14 DEF InspComplete
  <2>2. Exists(v) => v \in docs
    BY <1>0, <1>00, <2>1 DEF Written, Rows, Busy
  <2>3. status' = Set(v, "GENERATION_COMPLETE")
    BY <1>0, <1>14, StatusEffects
  <2> QED
    BY <2>1, <2>2, <2>3, RunKnows, SetMaps DEF Status
<1>15. ASSUME NEW r \in Run, InspRaise(r) PROVE [Shown!Next]_Shown!vars
  <2> DEFINE v == insp[r].v
  <2>1. insp[r].pc # "idle" /\ UNCHANGED <<asset, prev, nodes, docs, billed>>
    BY <1>15 DEF InspRaise
  <2>2. status' = Set(v, "GENERATION_ERROR")
    BY <1>0, <1>15, StatusEffects
  <2> QED
    BY <2>1, <2>2, RunKnows, SetMaps DEF Status
<1>16. ASSUME NEW v \in Version,
              AddRepository(v) \/ PushRead(v) \/ PushFail(v) \/ Drop(v) \/ PushStep(v)
              \/ Deliver(v)
       PROVE  [Shown!Next]_Shown!vars
  BY <1>1, <1>2, <1>3, <1>5, <1>16 DEF PushStep, PushRead, PushFail, Drop,
     PushInsertFail, PushUpload, Deliver, Connect, rows
<1>17. ASSUME RemoveRead \/ DeleteObjects \/ DeleteRows PROVE [Shown!Next]_Shown!vars
  BY <1>1, <1>4, <1>17 DEF RemoveRead, DeleteObjects, rows
<1>18. ASSUME NEW t \in Task, ConnStep(t) PROVE [Shown!Next]_Shown!vars
  BY <1>1, <1>6, <1>7, <1>8, <1>18 DEF ConnStep, ConnStore, NodesAbort, ConnFail, rows
<1>19. ASSUME NEW q \in Request, GenStep(q) \/ GenFail(q) \/ \E v \in Version : GenRead(q, v)
       PROVE  [Shown!Next]_Shown!vars
  BY <1>1, <1>9, <1>10, <1>19 DEF GenStep, GenSpawn, GenFail, GenRead, rows
<1>20. ASSUME NEW r \in Run, InspStep(r) \/ InspCrash(r) \/ \E v \in Version : InspTake(r, v)
       PROVE  [Shown!Next]_Shown!vars
  BY <1>1, <1>11, <1>12, <1>13, <1>14, <1>15, <1>20 DEF InspStep, InspCrash,
     InspTake, rows
<1> QED
  BY <1>1, <1>16, <1>17, <1>18, <1>19, <1>20 DEF Next, vars, rows

(* A step of the diagram keeps to it: what is ordered stays ordered, and   *)
(* what is connected connected, until the asset goes.                      *)
Advances ==
  asset' = "present" =>
    /\ nodes \subseteq nodes'
    /\ \A v \in nodes : status[v] \in Ordered => status'[v] \in Ordered

LEMMA DrawnNext ==
  ASSUME TypeOK, Rooted, Drawn, [Shown!Next]_Shown!vars PROVE Drawn' /\ Advances
<1>0. /\ status \in [Version -> Status \cup {"none"}] /\ nodes \subseteq Version
      /\ asset \in {"none", "present", "deleted"}
  BY DEF TypeOK
<1>1. ASSUME NEW v \in Version, Shown!Add(v) PROVE Drawn' /\ Advances
  <2>1. status[v] = "none"
    BY <1>1 DEF Rooted, Exists, Shown!Add
  <2>2. v \notin nodes
    BY <2>1 DEF Drawn, Ordered
  <2> QED
    BY <1>0, <1>1, <2>2 DEF Shown!Add, Drawn, Advances, Ordered
<1>2. ASSUME NEW v \in Version, NEW p \in Version, Shown!Push(v, p) PROVE Drawn' /\ Advances
  BY <1>0, <1>2 DEF Shown!Push, Drawn, Advances, Ordered
<1>3. ASSUME NEW v \in Version, Shown!Connect(v) PROVE Drawn' /\ Advances
  BY <1>0, <1>3 DEF Shown!Connect, Drawn, Advances, Ordered
<1>4. ASSUME NEW v \in Version, Shown!Reject(v) PROVE Drawn' /\ Advances
  BY <1>0, <1>4 DEF Shown!Reject, Drawn, Advances, Ordered
<1>5. ASSUME NEW v \in Version, Shown!Order(v) PROVE Drawn' /\ Advances
  BY <1>0, <1>5 DEF Shown!Order, Drawn, Advances, Ordered
<1>6. ASSUME NEW v \in Version, NEW s \in Ordered, Shown!End(v, s) PROVE Drawn' /\ Advances
  BY <1>0, <1>6 DEF Shown!End, Drawn, Advances, Ordered, Shown!Ordered
<1>7. ASSUME Shown!Remove PROVE Drawn' /\ Advances
  BY <1>0, <1>7 DEF Shown!Remove, Drawn, Advances
<1>8. ASSUME UNCHANGED <<asset, status, nodes>> PROVE Drawn' /\ Advances
  BY <1>0, <1>8 DEF Drawn, Advances
<1> QED
  BY <1>1, <1>2, <1>3, <1>4, <1>5, <1>6, <1>7, <1>8
     DEF Shown!Next, Shown!vars, Shown!Pay, Shown!Document, Shown!Ordered, Ordered

LEMMA ScannedNext == IInv /\ DInv /\ [Next]_vars => Scanned'
<1> SUFFICES ASSUME IInv, DInv, [Next]_vars PROVE Scanned'
  OBVIOUS
<1>0. TypeOK /\ Busy /\ Rooted /\ Pristine /\ Scanned
  BY DEF IInv, DInv
<1> NoVersion \notin Version
  BY LifecycleAssumption
<1>1. ASSUME UNCHANGED <<status, nodes, upload, event, push, conn>> PROVE Scanned'
  BY <1>0, <1>1 DEF Scanned
<1>2. ASSUME NEW v \in Version, NEW s \in {"CONNECTING", "GENERATING"}, NEW p, Insert(v, s, p),
             push[v].pc \in {"idle", "insert"}, UNCHANGED <<nodes, upload, event, conn>>
      PROVE  Scanned'
  BY <1>0, <1>2 DEF TypeOK, Scanned, Insert
<1>3. ASSUME NEW v \in Version, AddRepository(v) PROVE Scanned'
  <2>1. push[v].pc = "idle"
    BY <1>0, <1>3 DEF Rooted, AddRepository
  <2> QED
    BY <1>2, <1>3, <2>1 DEF AddRepository, objects
<1>4. ASSUME NEW v \in Version, PushInsert(v) PROVE Scanned'
  <2>1. push[v].status \in {"CONNECTING", "GENERATING"}
    BY <1>4 DEF DInv, Accepted, PushInsert
  <2> QED
    BY <1>2, <1>4, <2>1 DEF PushInsert, objects
<1>5. ASSUME NEW v \in Version, PushRead(v) \/ PushInsertFail(v) \/ PushFail(v)
      PROVE  Scanned'
  <2>1. /\ \A w \in Version \ {v} : push'[w] = push[w]
        /\ push'[v].pc # "done" => push[v].pc # "done"
    BY <1>0, <1>5 DEF TypeOK, PushRead, Accept, PushInsertFail, PushFail, NoPush
  <2>2. UNCHANGED <<status, nodes, upload, event, conn>>
    BY <1>5 DEF PushRead, PushInsertFail, PushFail, rows, objects
  <2> QED
    BY <1>0, <2>1, <2>2 DEF Scanned
<1>6. ASSUME NEW v \in Version, PushUpload(v) PROVE Scanned'
  <2>1. /\ push[v].pc = "upload" /\ push' = [push EXCEPT ![v].pc = "done"]
        /\ event' = event \cup {v} /\ UNCHANGED <<status, nodes, conn>>
    BY <1>6 DEF PushUpload, rows
  <2>2. PICK a \in Archive : upload' = [upload EXCEPT ![v] = a]
    BY <1>6 DEF PushUpload
  <2>3. /\ upload[v] = "none" /\ \A t \in Task : conn[t].v # v
        /\ v \notin nodes /\ status[v] # "CONNECTION_FAILED"
    BY <1>0, <2>1 DEF Scanned
  <2>4. /\ \A w \in Version \ {v} : upload'[w] = upload[w] /\ push'[w].pc = push[w].pc
        /\ push'[v].pc = "done"
    BY <1>0, <2>1, <2>2 DEF TypeOK
  <2>5. \A t \in Task : conn[t].pc \in {"store", "nodes", "spawn"} => conn[t].v \in Version
    BY <1>0 DEF Busy
  <2>6. nodes \subseteq Version
    BY <1>0 DEF TypeOK
  <2> QED
    BY <1>0, <2>1, <2>3, <2>4, <2>5, <2>6 DEF Scanned
<1>7. ASSUME DeleteRows PROVE Scanned'
  BY <1>0, <1>7 DEF TypeOK, Scanned, DeleteRows, objects
<1>8. ASSUME NEW t \in Task, NEW v \in Version, Connect(t, v) PROVE Scanned'
  <2>1. push[v].pc = "done" /\ event' \subseteq event
    BY <1>0, <1>8 DEF Scanned, Connect, Delivered
  <2> QED
    BY <1>0, <1>8, <2>1 DEF TypeOK, Scanned, Connect, rows, objects
<1>9. ASSUME NEW v \in Version, Threat(v) PROVE Scanned'
  <2>1. /\ event' \subseteq event /\ upload[v] = "threat"
        /\ UNCHANGED <<nodes, upload, push, conn>>
    BY <1>9 DEF Threat, Delivered, objects
  <2>2. \A w \in Version : status'[w] = "CONNECTION_FAILED" =>
          status[w] = "CONNECTION_FAILED" \/ w = v
    BY <1>0, <1>9, StatusEffects DEF TypeOK, Set
  <2> QED
    BY <1>0, <2>1, <2>2 DEF Scanned
<1>10. ASSUME NEW v \in Version, Drop(v) PROVE Scanned'
  BY <1>0, <1>10 DEF Scanned, Drop, rows, objects
<1>11. ASSUME NEW t \in Task, ConnUnpack(t) PROVE Scanned'
  <2> DEFINE v == conn[t].v
  <2>1. v \in Version /\ conn[t].pc = "unpack" /\ UNCHANGED <<nodes, upload, event, push>>
    BY <1>0, <1>11 DEF Busy, ConnUnpack, objects
  <2>2. CASE upload[v] = "good"
    <3>1. conn' = [conn EXCEPT ![t].pc = "store"] /\ status' = status
      BY <1>11, <2>2 DEF ConnUnpack
    <3> QED
      BY <1>0, <2>1, <2>2, <3>1 DEF TypeOK, Scanned
  <2>3. CASE upload[v] # "good"
    <3>1. conn' = [conn EXCEPT ![t] = NoTask] /\ upload[v] \in {"taken", "empty"}
      BY <1>11, <2>3 DEF ConnUnpack
    <3>2. \A w \in Version : status'[w] = "CONNECTION_FAILED" =>
            status[w] = "CONNECTION_FAILED" \/ w = v
      BY <1>0, <1>11, StatusEffects DEF TypeOK, Set
    <3> QED
      BY <1>0, <2>1, <3>1, <3>2 DEF TypeOK, Scanned, NoTask
  <2> QED
    BY <2>2, <2>3
<1>12. ASSUME NEW t \in Task, ConnStore(t) PROVE Scanned'
  BY <1>0, <1>12 DEF TypeOK, Scanned, ConnStore, rows
<1>13. ASSUME NEW t \in Task, NodesCommit(t) PROVE Scanned'
  <2> DEFINE v == conn[t].v
  <2>1. /\ conn[t].pc = "nodes" /\ nodes' = nodes \cup {v}
        /\ UNCHANGED <<upload, event, push>>
    BY <1>13 DEF NodesCommit, objects
  <2>2. \A w \in Version : status'[w] = "CONNECTION_FAILED" => status[w] = "CONNECTION_FAILED"
    BY <1>0, <1>13, StatusEffects DEF TypeOK, Set
  <2>3. \A u \in Task : conn'[u].v = conn[u].v \/ conn'[u] = NoTask
    BY <1>0, <1>13 DEF TypeOK, NodesCommit
  <2>4. \A u \in Task : conn'[u].pc \in {"store", "nodes", "spawn"} =>
          conn[u].pc \in {"store", "nodes", "spawn"} /\ conn'[u].v = conn[u].v
    BY <1>0, <1>13 DEF TypeOK, NodesCommit, NoTask
  <2> QED
    BY <1>0, <2>1, <2>2, <2>3, <2>4 DEF Scanned, NoTask
<1>14. ASSUME NEW t \in Task, conn' = [conn EXCEPT ![t] = NoTask],
              \A w \in Version : status'[w] = "CONNECTION_FAILED" => status[w] = "CONNECTION_FAILED",
              UNCHANGED <<nodes, upload, event, push>>
       PROVE  Scanned'
  BY <1>0, <1>14 DEF TypeOK, Scanned, NoTask
<1>15. ASSUME NEW t \in Task, NodesAbort(t) \/ ConnSpawn(t) \/ ConnFail(t) PROVE Scanned'
  <2>1. \A w \in Version : status'[w] = "CONNECTION_FAILED" => status[w] = "CONNECTION_FAILED"
    BY <1>0, <1>15, StatusEffects DEF TypeOK, Set, NodesAbort, ConnFail, rows
  <2> QED
    BY <1>14, <1>15, <2>1 DEF NodesAbort, ConnSpawn, ConnFail, rows, objects
<1>16. ASSUME UNCHANGED <<nodes, upload, event, push, conn>>,
              \A w \in Version : status'[w] = "CONNECTION_FAILED" => status[w] = "CONNECTION_FAILED"
       PROVE  Scanned'
  BY <1>0, <1>16 DEF Scanned
<1>17. ASSUME NEW q \in Request, GenCommit(q) PROVE Scanned'
  <2>1. \A w \in Version : status'[w] = "CONNECTION_FAILED" => status[w] = "CONNECTION_FAILED"
    BY <1>0, <1>17, StatusEffects DEF TypeOK, Set
  <2> QED
    BY <1>16, <1>17, <2>1 DEF GenCommit, objects
<1>18. ASSUME NEW r \in Run,
              InspLoad(r) \/ InspFiles(r) \/ InspDiff(r) \/ InspComplete(r) \/ InspRaise(r)
       PROVE  Scanned'
  <2>1. \A w \in Version : status'[w] = "CONNECTION_FAILED" => status[w] = "CONNECTION_FAILED"
    BY <1>0, <1>18, StatusEffects DEF TypeOK, Set
  <2> QED
    BY <1>16, <1>18, <2>1 DEF InspLoad, InspFiles, InspDiff, InspComplete, InspRaise, objects
<1>19. ASSUME NEW v \in Version,
              AddRepository(v) \/ PushRead(v) \/ PushFail(v) \/ Drop(v) \/ PushStep(v)
              \/ Deliver(v)
       PROVE  Scanned'
  BY <1>3, <1>4, <1>5, <1>6, <1>8, <1>9, <1>10, <1>19 DEF PushStep, Deliver
<1>20. ASSUME RemoveRead \/ DeleteObjects \/ DeleteRows PROVE Scanned'
  BY <1>1, <1>7, <1>20 DEF RemoveRead, DeleteObjects, rows, objects
<1>21. ASSUME NEW t \in Task, ConnStep(t) PROVE Scanned'
  BY <1>11, <1>12, <1>13, <1>15, <1>21 DEF ConnStep
<1>22. ASSUME NEW q \in Request, GenStep(q) \/ GenFail(q) \/ \E v \in Version : GenRead(q, v)
       PROVE  Scanned'
  BY <1>1, <1>17, <1>22 DEF GenStep, GenDebit, GenSpawn, GenFail, GenRead, rows, objects
<1>23. ASSUME NEW r \in Run, InspStep(r) \/ InspCrash(r) \/ \E v \in Version : InspTake(r, v)
       PROVE  Scanned'
  BY <1>1, <1>16, <1>18, <1>23 DEF InspStep, InspInspect, InspCrash, InspTake, rows, objects
<1> QED
  BY <1>1, <1>19, <1>20, <1>21, <1>22, <1>23 DEF Next, vars, rows, objects

(* The rows of a version stay as long as the asset does.                   *)
LEMMA RowsStay ==
  ASSUME TypeOK, Rooted, [Shown!Next]_Shown!vars, NEW w \in Version,
         ~Exists(w) => prev[w] = NoVersion
  PROVE  /\ asset = "deleted" => asset' = "deleted"
         /\ ~Exists(w)' => prev'[w] = NoVersion
         /\ asset' = "present" /\ Exists(w) =>
              /\ Exists(w)' /\ prev'[w] = prev[w]
              /\ w \in docs => w \in docs'
<1> DEFINE Stays == /\ asset = "deleted" => asset' = "deleted"
                    /\ ~Exists(w)' => prev'[w] = NoVersion
                    /\ asset' = "present" /\ Exists(w) =>
                         /\ Exists(w)' /\ prev'[w] = prev[w]
                         /\ w \in docs => w \in docs'
<1>0. /\ status \in [Version -> Status \cup {"none"}]
      /\ prev \in [Version -> Version \cup {NoVersion}]
  BY DEF TypeOK
<1>1. ASSUME NEW v \in Version, Shown!Add(v) PROVE Stays
  BY <1>0, <1>1 DEF Shown!Add, Exists
<1>2. ASSUME NEW v \in Version, NEW p \in Version, Shown!Push(v, p) PROVE Stays
  BY <1>0, <1>2 DEF Shown!Push, Exists
<1>3. ASSUME NEW v \in Version, Shown!Connect(v) PROVE Stays
  BY <1>0, <1>3 DEF Shown!Connect, Exists
<1>4. ASSUME NEW v \in Version, Shown!Reject(v) \/ Shown!Order(v) PROVE Stays
  BY <1>0, <1>4 DEF Shown!Reject, Shown!Order, Exists, Ordered, Shown!Ordered
<1>5. ASSUME NEW v \in Version, NEW s \in Ordered, Shown!End(v, s) PROVE Stays
  BY <1>0, <1>5 DEF Shown!End, Ordered, Shown!Ordered, Exists
<1>6. ASSUME NEW v \in Version, Shown!Pay(v) \/ Shown!Document(v) PROVE Stays
  BY <1>0, <1>6 DEF Shown!Pay, Shown!Document, Exists
<1>7. ASSUME Shown!Remove PROVE Stays
  BY <1>0, <1>7 DEF Shown!Remove, Exists
<1>8. ASSUME UNCHANGED <<asset, status, prev, docs>> PROVE Stays
  BY <1>8 DEF Exists
<1> HIDE DEF Stays
<1>9. Stays
  BY <1>1, <1>2, <1>3, <1>4, <1>5, <1>6, <1>7, <1>8
     DEF Shown!Next, Shown!vars, Shown!Ordered, Ordered
<1> QED
  BY <1>9 DEF Stays

(* Nobody has worked for a version whose row is being inserted.            *)
LEMMA NewRow ==
  ASSUME IInv, DInv, [Next]_vars, NEW v \in Version, ~Exists(v), Exists(v)'
  PROVE  Untouched(v)
<1>1. [Shown!Next]_Shown!vars /\ Rooted'
  BY StepShows, RootedNext
<1>2. asset # "deleted"
  <2>1. asset = "deleted" => asset' = "deleted"
    BY <1>1, RowsStay DEF IInv, DInv, Accepted
  <2> QED
    BY <1>1, <2>1 DEF Rooted
<1>3. push[v].pc \in {"idle", "insert", "ignored"}
  BY <1>2 DEF IInv, TypeOK, Rooted, DInv, Accepted
<1> QED
  BY <1>3 DEF IInv, Pristine

(* Only nodes of a version to be generated, and a request, make work.      *)
LEMMA NewWork ==
  ASSUME IInv, DInv, [Next]_vars, NEW v \in Version, AtWork(v)', Exists(v)'
  PROVE  AtWork(v) \/ status'[v] = "GENERATING"
<1> DEFINE Grows == AtWork(v) \/ status'[v] = "GENERATING"
<1>0. TypeOK /\ Busy
  BY DEF IInv
<1> NoVersion \notin Version
  BY LifecycleAssumption
<1>1. ASSUME UNCHANGED <<jobs, ran, conn, gen, insp>> PROVE Grows
  BY <1>1 DEF AtWork
<1>2. ASSUME NEW t \in Task, NEW w \in Version, Connect(t, w) PROVE Grows
  BY <1>0, <1>2 DEF TypeOK, AtWork, Connect
<1>3. ASSUME NEW t \in Task, ConnUnpack(t) \/ ConnStore(t) \/ NodesAbort(t) \/ ConnFail(t)
      PROVE  Grows
  <2>1. \A u \in Task : conn'[u].pc = "spawn" => conn'[u] = conn[u]
    BY <1>0, <1>3 DEF TypeOK, ConnUnpack, ConnStore, NodesAbort, ConnFail, NoTask
  <2>2. UNCHANGED <<jobs, ran, gen, insp>>
    BY <1>3 DEF ConnUnpack, ConnStore, NodesAbort, ConnFail
  <2> QED
    BY <2>1, <2>2 DEF AtWork
<1>4. ASSUME NEW t \in Task, NodesCommit(t) PROVE Grows
  <2>1. status[conn[t].v] = "GENERATING" => status' = status
    BY <1>4 DEF NodesCommit
  <2>2. \A u \in Task : conn'[u].pc = "spawn" =>
          \/ status[conn[t].v] = "GENERATING" /\ conn'[u].v = conn[t].v
          \/ conn[u].pc = "spawn" /\ conn'[u].v = conn[u].v
    BY <1>0, <1>4 DEF TypeOK, NodesCommit, NoTask
  <2>3. UNCHANGED <<jobs, ran, gen, insp>>
    BY <1>4 DEF NodesCommit
  <2> QED
    BY <2>1, <2>2, <2>3 DEF AtWork
<1>5. ASSUME NEW t \in Task, ConnSpawn(t) PROVE Grows
  <2>1. /\ conn[t].pc = "spawn" /\ UNCHANGED <<ran, gen, insp>>
        /\ \A u \in Task : conn'[u].pc = "spawn" => conn'[u] = conn[u]
        /\ jobs'[v] > 0 => jobs[v] > 0 \/ conn[t].v = v
    BY <1>0, <1>5 DEF TypeOK, Busy, ConnSpawn, NoTask
  <2> QED
    BY <2>1 DEF AtWork
<1>6. ASSUME NEW q \in Request, GenCommit(q) PROVE Grows
  <2>1. /\ UNCHANGED <<jobs, ran, conn, insp>>
        /\ \A p \in Request : gen'[p].pc = "spawn" => gen'[p] = gen[p] \/ gen'[p].v = gen[q].v
    BY <1>0, <1>6 DEF TypeOK, GenCommit, NoRequest
  <2>2. gen[q].v \in Version /\ status' = Set(gen[q].v, "GENERATING")
    BY <1>0, <1>6, StatusEffects DEF Busy, GenCommit
  <2>3. gen[q].v = v => status'[v] = "GENERATING"
    <3>1. status \in [Version -> Status \cup {"none"}] /\ status'[v] # "none"
      BY <1>0 DEF TypeOK, Exists
    <3> QED
      BY <2>2, <3>1 DEF Set, Exists
  <2> QED
    BY <2>1, <2>3 DEF AtWork
<1>7. ASSUME NEW q \in Request, NEW w \in Version,
             GenRead(q, w) \/ GenDebit(q) \/ GenFail(q)
      PROVE  Grows
  <2>1. /\ UNCHANGED <<jobs, ran, conn, insp>>
        /\ \A p \in Request : gen'[p].pc = "spawn" => gen'[p] = gen[p]
    BY <1>0, <1>7 DEF TypeOK, GenRead, GenDebit, GenFail, NoRequest
  <2> QED
    BY <2>1 DEF AtWork
<1>8. ASSUME NEW q \in Request, GenSpawn(q) PROVE Grows
  <2>1. /\ gen[q].pc = "spawn" /\ UNCHANGED <<ran, conn, insp>>
        /\ \A p \in Request : gen'[p].pc = "spawn" => gen'[p] = gen[p]
        /\ jobs'[v] > 0 => jobs[v] > 0 \/ gen[q].v = v
    BY <1>0, <1>8 DEF TypeOK, Busy, GenSpawn, NoRequest
  <2> QED
    BY <2>1 DEF AtWork
<1>9. ASSUME NEW r \in Run, NEW w \in Version, InspTake(r, w) PROVE Grows
  <2>1. /\ UNCHANGED <<conn, gen>> /\ (jobs[w] > 0 \/ w \in ran) /\ ran' = ran \cup {w}
        /\ \A k \in Run : insp'[k].v = insp[k].v \/ insp'[k].v = w
        /\ jobs'[v] > 0 => jobs[v] > 0
    BY <1>0, <1>9 DEF TypeOK, InspTake, NoRun
  <2> QED
    BY <2>1 DEF AtWork
<1>10. ASSUME NEW r \in Run, InspStep(r) \/ InspCrash(r) PROVE Grows
  <2>1. UNCHANGED <<jobs, ran, conn, gen>>
    BY <1>10 DEF InspStep, InspLoad, InspFiles, InspDiff, InspInspect, InspComplete,
       InspRaise, InspCrash
  <2>2. insp' = [insp EXCEPT ![r] = NoRun] => \A k \in Run : insp'[k].v \in {insp[k].v, NoVersion}
    BY <1>0 DEF TypeOK, NoRun
  <2>3. InspLoad(r) \/ InspFiles(r) => \A k \in Run : insp'[k].v = insp[k].v
    BY <1>0 DEF TypeOK, InspLoad, InspFiles
  <2>4. InspDiff(r) \/ InspInspect(r) =>
          insp' = [insp EXCEPT ![r] = NoRun] \/ \A k \in Run : insp'[k].v = insp[k].v
    <3>1. \A x \in {"inspect", "complete"} :
            insp' = [insp EXCEPT ![r].pc = x] => \A k \in Run : insp'[k].v = insp[k].v
      BY <1>0 DEF TypeOK
    <3>2. InspDiff(r) => insp' = [insp EXCEPT ![r] = NoRun] \/ insp' = [insp EXCEPT ![r].pc = "inspect"]
      BY DEF InspDiff
    <3>3. InspInspect(r) => insp' = [insp EXCEPT ![r].pc = "complete"]
      BY DEF InspInspect
    <3> QED
      BY <3>1, <3>2, <3>3
  <2>5. InspComplete(r) \/ InspRaise(r) \/ InspCrash(r) => insp' = [insp EXCEPT ![r] = NoRun]
    BY DEF InspComplete, InspRaise, InspCrash
  <2>6. \A k \in Run : insp'[k].v \in {insp[k].v, NoVersion}
    BY <1>10, <2>2, <2>3, <2>4, <2>5 DEF InspStep
  <2> QED
    BY <2>1, <2>6 DEF AtWork
<1>11. ASSUME NEW w \in Version,
              AddRepository(w) \/ PushRead(w) \/ PushFail(w) \/ Drop(w) \/ PushStep(w)
              \/ Deliver(w)
       PROVE  Grows
  BY <1>1, <1>2, <1>11 DEF AddRepository, PushRead, PushFail, Drop, PushStep, PushInsert,
     PushInsertFail, PushUpload, Deliver, Threat
<1>12. ASSUME RemoveRead \/ DeleteObjects \/ DeleteRows PROVE Grows
  BY <1>1, <1>12 DEF RemoveRead, DeleteObjects, DeleteRows
<1>13. ASSUME NEW t \in Task, ConnStep(t) PROVE Grows
  BY <1>3, <1>4, <1>5, <1>13 DEF ConnStep
<1>14. ASSUME NEW q \in Request, GenStep(q) \/ GenFail(q) \/ \E w \in Version : GenRead(q, w)
       PROVE  Grows
  BY <1>6, <1>7, <1>8, <1>14 DEF GenStep
<1> QED
  BY <1>1, <1>9, <1>10, <1>11, <1>12, <1>13, <1>14 DEF Next, vars

LEMMA WorkedNext == IInv /\ DInv /\ [Next]_vars => Worked'
<1> SUFFICES ASSUME IInv, DInv, [Next]_vars, NEW v \in Version, Exists(v)', AtWork(v)'
             PROVE  status'[v] \in Ordered
  BY DEF Worked
<1>1. CASE status'[v] = "GENERATING"
  BY <1>1 DEF Ordered
<1>2. CASE status'[v] # "GENERATING"
  <2>1. AtWork(v)
    BY <1>2, NewWork
  <2>2. Exists(v)
    <3>1. ~Untouched(v)
      BY <2>1 DEF AtWork, Untouched, IInv, TypeOK
    <3> QED
      BY <3>1, NewRow
  <2>3. v \in nodes /\ status[v] \in Ordered
    BY <2>1, <2>2 DEF IInv, HasNodes, ToInspect, AtWork, DInv, Worked
  <2>4. Advances
    BY StepShows, DrawnNext DEF IInv, DInv
  <2>5. asset' = "present"
    BY RootedNext DEF Rooted
  <2> QED
    BY <2>3, <2>4, <2>5 DEF Advances
<1> QED
  BY <1>1, <1>2

(* What a step does to a run, whatever else it does.                       *)
LEMMA RunChanges ==
  ASSUME TypeOK, Busy, [Next]_vars, NEW k \in Run
  PROVE  \/ insp'[k] = insp[k]
         \/ insp'[k].base = NoVersion /\ insp'[k].pc \notin {"diff", "complete"}
         \/ /\ insp'[k].v = insp[k].v
            /\ insp'[k].base # NoVersion => insp'[k].base = insp[k].base \/ prev[insp[k].v] # NoVersion
            /\ insp'[k].pc = "diff" => insp'[k].base # NoVersion
            /\ insp'[k].pc = "complete" => insp[k].v \in docs'
<1> DEFINE Fresh == insp'[k].base = NoVersion /\ insp'[k].pc \notin {"diff", "complete"}
           Moved == /\ insp'[k].v = insp[k].v
                    /\ insp'[k].base # NoVersion =>
                         insp'[k].base = insp[k].base \/ prev[insp[k].v] # NoVersion
                    /\ insp'[k].pc = "diff" => insp'[k].base # NoVersion
                    /\ insp'[k].pc = "complete" => insp[k].v \in docs'
           Result == insp'[k] = insp[k] \/ Fresh \/ Moved
<1>0. insp \in [Run -> RunState]
  BY DEF TypeOK, RunState
<1>1. ASSUME insp' = insp PROVE Result
  BY <1>1
<1>2. ASSUME NEW r \in Run, insp' = [insp EXCEPT ![r] = NoRun] PROVE Result
  BY <1>0, <1>2 DEF NoRun
<1>3. ASSUME NEW r \in Run, NEW v \in Version, InspTake(r, v) PROVE Result
  BY <1>0, <1>3 DEF InspTake, NoRun
<1>4. ASSUME NEW r \in Run, InspLoad(r) PROVE Result
  <2>1. /\ insp' = [insp EXCEPT ![r].pc = "files", ![r].seen = status[insp[r].v],
                                ![r].base = Base(insp[r].v)]
        /\ Base(insp[r].v) # NoVersion => prev[insp[r].v] # NoVersion
    BY <1>4 DEF InspLoad, Base
  <2> QED
    BY <1>0, <2>1 DEF RunState
<1>5. ASSUME NEW r \in Run, InspFiles(r) PROVE Result
  <2>1. insp' = [insp EXCEPT ![r].pc = IF insp[r].base = NoVersion THEN "inspect" ELSE "diff"]
    BY <1>5 DEF InspFiles
  <2> QED
    BY <1>0, <2>1 DEF RunState
<1>6. ASSUME NEW r \in Run, InspDiff(r) PROVE Result
  <2>1. CASE insp' = [insp EXCEPT ![r].pc = "inspect"]
    BY <1>0, <2>1 DEF RunState
  <2> QED
    BY <1>2, <1>6, <2>1 DEF InspDiff
<1>7. ASSUME NEW r \in Run, InspInspect(r) PROVE Result
  <2>1. insp' = [insp EXCEPT ![r].pc = "complete"] /\ insp[r].v \in docs'
    BY <1>7 DEF InspInspect
  <2> QED
    BY <1>0, <2>1 DEF RunState
<1> HIDE DEF Result
<1>8. ASSUME NEW r \in Run, InspStep(r) \/ InspCrash(r) \/ \E v \in Version : InspTake(r, v)
      PROVE  Result
  BY <1>2, <1>3, <1>4, <1>5, <1>6, <1>7, <1>8 DEF InspStep, InspComplete, InspRaise, InspCrash
<1>9. ASSUME NEW v \in Version,
             AddRepository(v) \/ PushRead(v) \/ PushFail(v) \/ Drop(v) \/ PushStep(v)
             \/ Deliver(v)
      PROVE  Result
  BY <1>1, <1>9 DEF AddRepository, PushRead, PushFail, Drop, PushStep, PushInsert,
     PushInsertFail, PushUpload, Deliver, Threat, Connect
<1>10. ASSUME RemoveRead \/ DeleteObjects \/ DeleteRows PROVE Result
  BY <1>1, <1>10 DEF RemoveRead, DeleteObjects, DeleteRows
<1>11. ASSUME NEW t \in Task, ConnStep(t) PROVE Result
  BY <1>1, <1>11 DEF ConnStep, ConnUnpack, ConnStore, NodesCommit, NodesAbort, ConnSpawn,
     ConnFail
<1>12. ASSUME NEW q \in Request, GenStep(q) \/ GenFail(q) \/ \E v \in Version : GenRead(q, v)
       PROVE  Result
  BY <1>1, <1>12 DEF GenStep, GenDebit, GenCommit, GenSpawn, GenFail, GenRead
<1>13. Result
  BY <1>1, <1>8, <1>9, <1>10, <1>11, <1>12 DEF Next, vars
<1> QED
  BY <1>13 DEF Result

LEMMA WrittenNext == IInv /\ DInv /\ [Next]_vars => Written'
<1> SUFFICES ASSUME IInv, DInv, [Next]_vars, NEW k \in Run
             PROVE  /\ insp'[k].pc = "diff" => insp'[k].base # NoVersion
                    /\ insp'[k].v \in Rows' =>
                         /\ insp'[k].pc = "complete" => insp'[k].v \in docs'
                         /\ insp'[k].base # NoVersion => prev'[insp'[k].v] # NoVersion
  BY DEF Written
<1> DEFINE v == insp'[k].v
<1>0. TypeOK /\ Busy /\ Rooted /\ Written /\ Rooted' /\ [Shown!Next]_Shown!vars
  BY RootedNext, StepShows DEF IInv, DInv
<1>1. CASE insp'[k].base = NoVersion /\ insp'[k].pc \notin {"diff", "complete"}
  BY <1>1
<1>2. CASE /\ v = insp[k].v
           /\ insp'[k].base # NoVersion => insp'[k].base = insp[k].base \/ prev[v] # NoVersion
           /\ insp'[k].pc = "diff" => insp'[k].base # NoVersion
           /\ insp'[k].pc = "complete" => v \in docs' \/ insp[k].pc = "complete"
  <2>1. ASSUME NEW w \in Version, w = insp[k].v, w \in Rows'
        PROVE  /\ insp'[k].pc = "complete" => w \in docs'
               /\ insp'[k].base # NoVersion => prev'[w] # NoVersion
    <3>1. Exists(w)' /\ asset' = "present"
      BY <1>0, <2>1 DEF Rows, Rooted
    <3>2. Exists(w)
      BY <2>1, <3>1, NewRow DEF Untouched
    <3>3. prev'[w] = prev[w] /\ (w \in docs => w \in docs')
      BY <1>0, <3>1, <3>2, RowsStay
    <3>4. insp[k].pc = "complete" => w \in docs
      BY <1>0, <2>1, <3>2 DEF Written, Rows
    <3>5. insp[k].base # NoVersion => prev[w] # NoVersion
      BY <1>0, <2>1, <3>2 DEF Written, Rows
    <3> QED
      BY <1>2, <2>1, <3>3, <3>4, <3>5
  <2>2. v \in Rows' => v \in Version
    BY DEF Rows
  <2> QED
    BY <1>2, <2>1, <2>2
<1>3. CASE insp'[k] = insp[k]
  BY <1>0, <1>2, <1>3 DEF Written
<1> QED
  BY <1>0, <1>1, <1>2, <1>3, RunChanges

(* What a step does to the webhook task of a version.                      *)
PushChange(w) ==
  \/ push'[w] = push[w]
  \/ push'[w].pc = "done" /\ push[w].pc = "upload"
  \/ push'[w].pc = "ignored"
  \/ push'[w].pc = "upload" /\ Exists(w)'
  \/ /\ push'[w].pc = "insert" /\ push'[w].status \in {"CONNECTING", "GENERATING"}
     /\ push'[w].prev \in nodes /\ UNCHANGED <<asset, nodes, status>>
     /\ push'[w].status = "GENERATING" => status[push'[w].prev] \in Ordered

LEMMA PushChanges ==
  ASSUME TypeOK, Rooted, Drawn, Accepted, [Next]_vars, NEW w \in Version
  PROVE  PushChange(w)
<1> DEFINE Result ==
             \/ push'[w] = push[w]
             \/ push'[w].pc = "done" /\ push[w].pc = "upload"
             \/ push'[w].pc = "ignored"
             \/ push'[w].pc = "upload" /\ Exists(w)'
             \/ /\ push'[w].pc = "insert" /\ push'[w].status \in {"CONNECTING", "GENERATING"}
                /\ push'[w].prev \in nodes /\ UNCHANGED <<asset, nodes, status>>
                /\ push'[w].status = "GENERATING" => status[push'[w].prev] \in Ordered
<1>0. /\ push \in [Version -> PushState] /\ status \in [Version -> Status \cup {"none"}]
  BY DEF TypeOK, PushState
<1>1. ASSUME push' = push PROVE Result
  BY <1>1
<1>2. ASSUME NEW v \in Version, NEW s \in Status, NEW p, Insert(v, s, p) PROVE Result
  <2>1. s # "none"
    BY DEF Status
  <2> QED
    BY <1>0, <1>2, <2>1 DEF Insert, PushState, Exists
<1>3. ASSUME NEW v \in Version, AddRepository(v) PROVE Result
  BY <1>2, <1>3 DEF AddRepository, Status
<1>4. ASSUME NEW v \in Version, PushInsert(v), push[v].status \in Status PROVE Result
  BY <1>2, <1>4 DEF PushInsert
<1>5. ASSUME NEW v \in Version, PushRead(v) PROVE Result
  <2>1. UNCHANGED <<asset, nodes, status>>
    BY <1>5 DEF PushRead, rows
  <2>2. CASE push' = [push EXCEPT ![v].pc = "ignored"]
    BY <1>0, <2>2 DEF PushState
  <2>3. ASSUME NEW p \in Rows, status[p] = "CONNECTED", Accept(v, "CONNECTING", p)
        PROVE  Result
    <3>1. p \in nodes
      BY <2>3 DEF Drawn, Rows
    <3> QED
      BY <1>0, <2>1, <2>3, <3>1 DEF Accept
  <2>4. ASSUME NEW p \in Rows, status[p] \in Generated, Accept(v, "GENERATING", p)
        PROVE  Result
    <3>1. p \in nodes /\ status[p] \in Ordered
      BY <2>4 DEF Drawn, Rows, Generated, Ordered
    <3> QED
      BY <1>0, <2>1, <2>4, <3>1 DEF Accept
  <2> QED
    BY <1>5, <2>2, <2>3, <2>4 DEF PushRead, Rows
<1>6. ASSUME NEW v \in Version, PushInsertFail(v) \/ PushUpload(v) \/ PushFail(v) PROVE Result
  BY <1>0, <1>6 DEF PushState, PushInsertFail, PushUpload, PushFail, NoPush
<1>7. ASSUME NEW v \in Version, PushInsert(v) PROVE push[v].status \in Status
  BY <1>7 DEF Accepted, PushInsert, Status
<1> HIDE DEF Result
<1>8. ASSUME NEW v \in Version,
             AddRepository(v) \/ PushRead(v) \/ PushFail(v) \/ Drop(v) \/ PushStep(v)
             \/ Deliver(v)
      PROVE  Result
  BY <1>1, <1>3, <1>4, <1>5, <1>6, <1>7, <1>8 DEF PushStep, Drop, Deliver, Threat, Connect
<1>9. ASSUME RemoveRead \/ DeleteObjects \/ DeleteRows PROVE Result
  BY <1>1, <1>9 DEF RemoveRead, DeleteObjects, DeleteRows
<1>10. ASSUME NEW t \in Task, ConnStep(t) PROVE Result
  BY <1>1, <1>10 DEF ConnStep, ConnUnpack, ConnStore, NodesCommit, NodesAbort, ConnSpawn,
     ConnFail
<1>11. ASSUME NEW q \in Request, GenStep(q) \/ GenFail(q) \/ \E v \in Version : GenRead(q, v)
       PROVE  Result
  BY <1>1, <1>11 DEF GenStep, GenDebit, GenCommit, GenSpawn, GenFail, GenRead
<1>12. ASSUME NEW r \in Run, InspStep(r) \/ InspCrash(r) \/ \E v \in Version : InspTake(r, v)
       PROVE  Result
  BY <1>1, <1>12 DEF InspStep, InspLoad, InspFiles, InspDiff, InspInspect, InspComplete,
     InspRaise, InspCrash, InspTake
<1>13. Result
  BY <1>1, <1>8, <1>9, <1>10, <1>11, <1>12 DEF Next, vars
<1> QED
  BY <1>13 DEF Result, PushChange

(* The asset goes only when a removal that found it ends.                  *)
LEMMA RemovalFound ==
  ASSUME TypeOK, removal = "delete" => asset = "present", [Next]_vars
  PROVE  (removal = "delete" => asset = "present")'
<1>1. UNCHANGED <<asset, removal>> => (removal = "delete" => asset = "present")'
  OBVIOUS
<1>2. ASSUME NEW v \in Version,
             AddRepository(v) \/ PushRead(v) \/ PushFail(v) \/ Drop(v) \/ PushStep(v)
             \/ Deliver(v)
      PROVE  UNCHANGED <<asset, removal>> \/ asset' = "present"
  BY <1>2 DEF AddRepository, PushRead, PushFail, Drop, PushStep, PushInsert, PushInsertFail,
     PushUpload, Deliver, Threat, Connect, rows
<1>3. ASSUME RemoveRead \/ DeleteObjects \/ DeleteRows
      PROVE  asset' = "present" \/ removal' = "done"
  BY <1>3 DEF RemoveRead, DeleteObjects, DeleteRows, rows
<1>4. ASSUME NEW t \in Task, ConnStep(t) PROVE UNCHANGED <<asset, removal>>
  BY <1>4 DEF ConnStep, ConnUnpack, ConnStore, NodesCommit, NodesAbort, ConnSpawn,
     ConnFail, rows
<1>5. ASSUME NEW q \in Request, GenStep(q) \/ GenFail(q) \/ \E v \in Version : GenRead(q, v)
      PROVE  UNCHANGED <<asset, removal>>
  BY <1>5 DEF GenStep, GenDebit, GenCommit, GenSpawn, GenFail, GenRead, rows
<1>6. ASSUME NEW r \in Run, InspStep(r) \/ InspCrash(r) \/ \E v \in Version : InspTake(r, v)
      PROVE  UNCHANGED <<asset, removal>>
  BY <1>6 DEF InspStep, InspLoad, InspFiles, InspDiff, InspInspect, InspComplete,
     InspRaise, InspCrash, InspTake, rows
<1>7. CASE UNCHANGED vars
  BY <1>7 DEF vars, rows
<1> QED
  BY <1>1, <1>2, <1>3, <1>4, <1>5, <1>6, <1>7 DEF Next

LEMMA AcceptedNext == IInv /\ DInv /\ [Next]_vars => Accepted'
<1> SUFFICES ASSUME IInv, DInv, [Next]_vars PROVE Accepted'
  OBVIOUS
<1>0. /\ TypeOK /\ Rooted /\ Drawn /\ Accepted /\ Rooted' /\ [Shown!Next]_Shown!vars
  BY RootedNext, StepShows DEF IInv, DInv
<1>1. Advances
  BY <1>0, DrawnNext
<1>2. (removal = "delete" => asset = "present")'
  BY <1>0, RemovalFound DEF Accepted
<1> DEFINE Keeps(v) ==
             /\ ~Exists(v)' => prev'[v] = NoVersion
             /\ asset' = "present" /\ push'[v].pc \in {"upload", "done"} => Exists(v)'
             /\ push'[v].pc = "insert" => push'[v].status \in {"CONNECTING", "GENERATING"}
             /\ push'[v].pc = "insert" /\ asset' = "present" =>
                  /\ push'[v].prev \in nodes'
                  /\ push'[v].status = "GENERATING" => status'[push'[v].prev] \in Ordered
           Stays(v) == push'[v] = push[v] \/ (push'[v].pc = "done" /\ push[v].pc = "upload")
           Ends(v) == push'[v].pc = "ignored" \/ (push'[v].pc = "upload" /\ Exists(v)')
           Begins(v) ==
             /\ push'[v].pc = "insert" /\ push'[v].status \in {"CONNECTING", "GENERATING"}
             /\ push'[v].prev \in nodes /\ UNCHANGED <<asset, nodes, status>>
             /\ push'[v].status = "GENERATING" => status[push'[v].prev] \in Ordered
<1>3. ASSUME NEW v \in Version PROVE Keeps(v)
  <2>1. /\ asset = "deleted" => asset' = "deleted"
        /\ ~Exists(v)' => prev'[v] = NoVersion
        /\ asset' = "present" /\ Exists(v) => Exists(v)'
    BY <1>0, RowsStay DEF Accepted
  <2>2. asset' = "present" /\ push[v].pc # "idle" => asset = "present"
    BY <1>0, <2>1 DEF Rooted, TypeOK
  <2>3. asset' = "present" /\ push[v].pc \in {"upload", "done"} => Exists(v)'
    BY <1>0, <2>1, <2>2 DEF Accepted
  <2>4. CASE Stays(v)
    <3>1. asset' = "present" /\ push'[v].pc \in {"upload", "done"} => Exists(v)'
      BY <2>3, <2>4
    <3>2. CASE push'[v].pc # "insert"
      BY <2>1, <3>1, <3>2
    <3>3. CASE push'[v].pc = "insert"
      <4>1. push'[v] = push[v] /\ push[v].pc = "insert"
        BY <2>4, <3>3
      <4>2. push[v].prev \in Version /\ push[v].status \in {"CONNECTING", "GENERATING"}
        BY <1>0, <4>1 DEF Rooted, Accepted
      <4>3. ASSUME asset' = "present"
            PROVE  /\ push[v].prev \in nodes'
                   /\ push[v].status = "GENERATING" => status'[push[v].prev] \in Ordered
        <5>1. /\ push[v].prev \in nodes
              /\ push[v].status = "GENERATING" => status[push[v].prev] \in Ordered
          BY <1>0, <2>2, <4>1, <4>3 DEF Accepted
        <5> QED
          BY <1>1, <4>2, <4>3, <5>1 DEF Advances
      <4> QED
        BY <2>1, <3>3, <4>1, <4>2, <4>3
    <3> QED
      BY <3>2, <3>3
  <2>5. CASE Ends(v)
    BY <2>1, <2>5
  <2>6. CASE Begins(v)
    BY <2>1, <2>6
  <2>7. PushChange(v)
    BY <1>0, PushChanges
  <2>8. Stays(v) \/ Ends(v) \/ Begins(v)
    BY <2>7 DEF PushChange
  <2> HIDE DEF Keeps, Stays, Ends, Begins
  <2> QED
    BY <2>4, <2>5, <2>6, <2>8
<1> QED
  BY <1>2, <1>3 DEF Accepted

LEMMA InitDInv == Init => DInv
<1> SUFFICES ASSUME Init PROVE DInv
  OBVIOUS
<1>1. Scanned /\ Drawn /\ Accepted
  BY LifecycleAssumption DEF Init, Scanned, Drawn, Accepted, NoPush, NoTask, Exists
<1>2. Worked /\ Written
  BY LifecycleAssumption DEF Init, Worked, Written, Rows, Exists, NoRun
<1> QED
  BY <1>1, <1>2 DEF DInv

LEMMA NextDInv == IInv /\ DInv /\ [Next]_vars => DInv'
<1> SUFFICES ASSUME IInv, DInv, [Next]_vars PROVE DInv'
  OBVIOUS
<1>1. Drawn'
  BY StepShows, DrawnNext DEF IInv, DInv
<1> QED
  BY <1>1, ScannedNext, WorkedNext, WrittenNext, AcceptedNext DEF DInv

(* Webhooks, tasks, requests and runs together take a version through the  *)
(* diagram of VersionStatus and no other way, however many there are and   *)
(* whatever is repeated, lost or dies.                                     *)
THEOREM Implementation == Spec => ImplementsVersionStatus
<1>1. Init => Shown!Init
  BY DEF Init, Shown!Init
<1>2. Spec => [](IInv /\ DInv)
  BY InitIInv, NextIInv, InitDInv, NextDInv, PTL DEF Spec
<1>3. IInv /\ DInv /\ [Next]_vars => [Shown!Next]_Shown!vars
  BY StepShows
<1> QED
  BY <1>1, <1>2, <1>3, PTL DEF Spec, ImplementsVersionStatus, Shown!Spec

(* A version with nodes that was once to be generated is never shown as    *)
(* connecting or connected again: a second delivery of its event does not  *)
(* offer it to be generated and paid for again.                            *)
Forward ==
  \A v \in Version :
    v \in nodes /\ v \in nodes' /\ status[v] \notin {"CONNECTING", "CONNECTED"} =>
      status'[v] \notin {"CONNECTING", "CONNECTED"}

NoRegress == [][Forward]_vars

(* The diagram has no way back.                                            *)
LEMMA ForwardNext ==
  ASSUME TypeOK, Rooted, Drawn, [Shown!Next]_Shown!vars PROVE Forward
<1>0. status \in [Version -> Status \cup {"none"}]
  BY DEF TypeOK
<1>1. ASSUME NEW v \in Version, Shown!Add(v) PROVE Forward
  <2>1. v \notin nodes
    BY <1>1 DEF Rooted, Exists, Drawn, Ordered, Shown!Add
  <2> QED
    BY <1>0, <1>1, <2>1 DEF Shown!Add, Forward
<1>2. ASSUME NEW v \in Version, NEW p \in Version, Shown!Push(v, p) PROVE Forward
  <2>1. v \notin nodes
    BY <1>2 DEF Drawn, Ordered, Shown!Push
  <2> QED
    BY <1>0, <1>2, <2>1 DEF Shown!Push, Forward
<1>3. ASSUME NEW v \in Version,
             Shown!Connect(v) \/ Shown!Reject(v) \/ Shown!Order(v)
             \/ \E s \in Ordered : Shown!End(v, s)
      PROVE  Forward
  BY <1>0, <1>3 DEF Shown!Connect, Shown!Reject, Shown!Order, Shown!End, Ordered, Forward
<1>4. ASSUME UNCHANGED status PROVE Forward
  BY <1>4 DEF Forward
<1>5. ASSUME Shown!Remove PROVE Forward
  BY <1>5 DEF Shown!Remove, Forward
<1> QED
  BY <1>1, <1>2, <1>3, <1>4, <1>5
     DEF Shown!Next, Shown!vars, Shown!Pay, Shown!Document, Shown!Ordered, Ordered

(* Neither a repeated event nor a repeated task takes a version back.      *)
THEOREM NothingRegresses == Spec => NoRegress
<1>1. IInv /\ DInv /\ [Next]_vars => [Forward]_vars
  BY StepShows, ForwardNext DEF IInv, DInv
<1>2. Spec => [](IInv /\ DInv)
  BY InitIInv, NextIInv, InitDInv, NextDInv, PTL DEF Spec
<1>3. Spec => [][Forward]_vars
  BY <1>1, <1>2, PTL DEF Spec
<1> QED
  BY <1>3 DEF NoRegress
=============================================================================
