-------------------------- MODULE VersionLifecycle ---------------------------
(***************************************************************************)
(* The life of the versions of one codebase, across the services that      *)
(* change them:                                                            *)
(*   - the webhook tasks, which add a repository, turn a push into a new   *)
(*     version and remove a repository (onboarding/onboard.py and          *)
(*     shared/inspector/onboarding/gh_ops.py; the other providers have the *)
(*     same transactions);                                                 *)
(*   - the onboarding Lambda and the connection task, which turn an        *)
(*     uploaded archive into nodes of the version (onboard.py);            *)
(*   - the backend, where a user asks for a generation or deletes the      *)
(*     codebase (backend/app/api/routes);                                  *)
(*   - the inspector, which generates the documents (inspector/main.py).   *)
(* They share the rows of the database and the objects in S3; none takes a *)
(* lock or makes an update depend on the status it read.                   *)
(*                                                                         *)
(* The table has a unique index on codebase and commit, so a version is    *)
(* identified with the commit it was made for.                             *)
(***************************************************************************)
EXTENDS Naturals, FiniteSets

CONSTANTS Version,    (* the commits of the tracked branch                 *)
          NoVersion,  (* previous_version_id is None                       *)
          Task,       (* the connection tasks that can run at a time       *)
          Request,    (* the requests to generate that can be in progress  *)
          Run,        (* the inspector tasks that can run at a time        *)
          Archive,    (* the kinds of archive this instance has            *)
          Faults,     (* the kinds of fault this instance has              *)
          Handlers,   (* max_runs of handle-github-events-workflow         *)
          MaxDebits,  (* bound: debits for one version                     *)
          MaxRepeats  (* bound: deliveries of an event and runs of a task  *)
                      (* beyond the first, together                        *)

ArchiveKind == {"good",
                "threat",     (* GuardDuty finds something                 *)
                "taken",      (* another codebase has the name             *)
                "empty"}      (* no file to analyze                        *)

FaultKind == {"crash",        (* a worker or the backend dies              *)
              "lost",         (* the Lambda logs an error and goes on      *)
              "raise",        (* a step of a task raises                   *)
              "spawn",        (* Hatchet does not take a task              *)
              "balance",      (* a diff is larger than the usage balance   *)
              "remove",       (* the repository is removed, or the user    *)
                              (* deletes the codebase                      *)
              "repeat"}       (* an event is delivered, or a task is run,  *)
                              (* once more                                 *)

ASSUME LifecycleAssumption ==
  /\ NoVersion \notin Version
  /\ Archive \subseteq ArchiveKind /\ Faults \subseteq FaultKind
  /\ Handlers \in Nat \ {0} /\ MaxDebits \in Nat /\ MaxRepeats \in Nat

VARIABLES
  asset,     (* the row of the codebase: not yet there, there, or deleted  *)
  status,    (* status[v]: the status of version v, "none" without a row   *)
  prev,      (* prev[v]: its previous_version_id                           *)
  newer,     (* the pairs of versions, the updated_at of the first later   *)
  nodes,     (* the versions whose nodes are committed                     *)
  docs,      (* the versions whose documents are in the database           *)
  billed,    (* billed[v]: debits of the size of v                         *)
  archive,   (* the versions whose source.zip is in the bucket             *)
  files,     (* the versions all of whose files are in the bucket          *)
  upload,    (* upload[v]: the archive in the dropzone, or "none"          *)
  event,     (* the versions whose scan result is still to be delivered    *)
  push,      (* push[v]: the webhook task for commit v                     *)
  removal,   (* the webhook task that removes the repository               *)
  conn,      (* conn[t]: a connection task                                 *)
  gen,       (* gen[q]: a request to generate                              *)
  jobs,      (* jobs[v]: inspections of v queued in Hatchet                *)
  insp,      (* insp[r]: an inspector task                                 *)
  ran,       (* the versions that have been inspected before               *)
  lost,      (* history: versions one of whose tasks ended unnoticed       *)
  overlap,   (* history: versions two requests read at a time              *)
  repeats    (* deliveries and runs beyond the first                       *)

rows == <<asset, status, prev, newer, nodes, docs, billed>>
objects == <<archive, files, upload>>
vars == <<rows, objects, event, push, removal, conn, gen, jobs, insp, ran,
          lost, overlap, repeats>>
-----------------------------------------------------------------------------
(* State.                                                                  *)

Status == {"CONNECTING", "CONNECTED", "CONNECTION_FAILED", "GENERATING",
           "GENERATION_COMPLETE", "GENERATION_ERROR", "INSUFFICIENT_BALANCE"}

Generated == {"GENERATION_COMPLETE", "GENERATION_ERROR"}

NoPush == [pc |-> "idle", status |-> "none", prev |-> NoVersion]
NoTask == [pc |-> "idle", v |-> NoVersion, clash |-> FALSE]
NoRequest == [pc |-> "idle", v |-> NoVersion]
NoRun == [pc |-> "idle", v |-> NoVersion, seen |-> "none", base |-> NoVersion]

Init ==
  /\ asset = "none"
  /\ status = [v \in Version |-> "none"]
  /\ prev = [v \in Version |-> NoVersion]
  /\ newer = {} /\ nodes = {} /\ docs = {}
  /\ billed = [v \in Version |-> 0]
  /\ archive = {} /\ files = {}
  /\ upload = [v \in Version |-> "none"]
  /\ event = {}
  /\ push = [v \in Version |-> NoPush]
  /\ removal = "idle"
  /\ conn = [t \in Task |-> NoTask]
  /\ gen = [q \in Request |-> NoRequest]
  /\ jobs = [v \in Version |-> 0]
  /\ insp = [r \in Run |-> NoRun]
  /\ ran = {} /\ lost = {} /\ overlap = {} /\ repeats = 0

Exists(v) == status[v] # "none"

Rows == {v \in Version : Exists(v)}

(* An UPDATE of the status of v, which makes it the last one updated: it   *)
(* matches no row when v is gone.                                          *)
UpdateStatus(v, s) ==
  IF Exists(v)
  THEN /\ status' = [status EXCEPT ![v] = s]
       /\ newer' = {e \in newer : e[2] # v} \cup ({v} \X (Rows \ {v}))
  ELSE UNCHANGED <<status, newer>>

(* set_codebase_status and the others through a loaded row: no UPDATE is   *)
(* sent for a value that does not change.  They raise when v is gone.      *)
SetStatus(v, s) ==
  IF status[v] = s THEN UNCHANGED <<status, newer>> ELSE UpdateStatus(v, s)

(* The end of a task that leaves v without anyone who will set its status. *)
Unnoticed(v) == lost' = lost \cup {v}

Repeat == "repeat" \in Faults /\ repeats < MaxRepeats /\ repeats' = repeats + 1
-----------------------------------------------------------------------------
(* Webhook tasks: a repository is added, pushed to and removed.            *)

Insert(v, s, p) ==
  /\ status' = [status EXCEPT ![v] = s]
  /\ prev' = [prev EXCEPT ![v] = p]
  /\ newer' = newer \cup ({v} \X Rows)
  /\ push' = [push EXCEPT ![v].pc = "upload"]

Handling == {v \in Version : push[v].pc \in {"insert", "upload"}}

(* The codebase is added, with the head of its branch.                     *)
AddRepository(v) ==
  /\ asset = "none" /\ asset' = "present"
  /\ Insert(v, "CONNECTING", NoVersion)
  /\ UNCHANGED <<nodes, docs, billed, objects, event, removal, conn, gen, jobs,
                 insp, ran, lost, overlap, repeats>>

(* PrimaryAsset.versions is ordered by updated_at, the latest first.       *)
First(v, S) == v \in S /\ \A w \in S \ {v} : <<v, w>> \in newer

(* The versions a push is compared with, or waits for.                     *)
Started == {v \in Rows : status[v] \in Generated \cup {"GENERATING"}}

Accept(v, s, p) == push' = [push EXCEPT ![v] = [pc |-> "insert", status |-> s, prev |-> p]]

(* The transaction of a push of v reads the codebase and its versions ...  *)
PushRead(v) ==
  LET connected == asset = "present" /\ \A w \in Rows : status[w] = "CONNECTED"
      base(p) == asset = "present" /\ First(p, Started) /\ status[p] \in Generated IN
  /\ push[v].pc = "idle" /\ asset # "none"
  /\ Cardinality(Handling) < Handlers
  /\ \/ connected /\ \E p \in Rows : First(p, Rows) /\ Accept(v, "CONNECTING", p)
     \/ ~connected /\ \E p \in Rows : base(p) /\ Accept(v, "GENERATING", p)
     \/ /\ ~connected /\ ~\E p \in Rows : base(p)
        /\ push' = [push EXCEPT ![v].pc = "ignored"]
  /\ UNCHANGED <<rows, objects, event, removal, conn, gen, jobs, insp, ran, lost,
                 overlap, repeats>>

(* ... and commits the new version.                                        *)
PushInsert(v) ==
  /\ push[v].pc = "insert" /\ asset = "present"
  /\ Insert(v, push[v].status, push[v].prev)
  /\ UNCHANGED <<asset, nodes, docs, billed, objects, event, removal, conn, gen,
                 jobs, insp, ran, lost, overlap, repeats>>

(* IntegrityError: the codebase was removed in between.                    *)
PushInsertFail(v) ==
  /\ push[v].pc = "insert" /\ asset # "present"
  /\ push' = [push EXCEPT ![v] = [NoPush EXCEPT !.pc = "ignored"]]
  /\ UNCHANGED <<rows, objects, event, removal, conn, gen, jobs, insp, ran, lost,
                 overlap, repeats>>

(* The archive of the commit is downloaded and put into the dropzone, and  *)
(* GuardDuty's scan of it is published.                                    *)
PushUpload(v) ==
  /\ push[v].pc = "upload"
  /\ push' = [push EXCEPT ![v].pc = "done"]
  /\ \E a \in Archive : upload' = [upload EXCEPT ![v] = a]
  /\ event' = event \cup {v}
  /\ UNCHANGED <<rows, archive, files, removal, conn, gen, jobs, insp, ran, lost,
                 overlap, repeats>>

(* The download or the upload raises, or the task dies: the version stays  *)
(* as it was committed.                                                    *)
PushFail(v) ==
  /\ "crash" \in Faults /\ push[v].pc = "upload"
  /\ push' = [push EXCEPT ![v].pc = "done"]
  /\ Unnoticed(v)
  /\ UNCHANGED <<rows, objects, event, removal, conn, gen, jobs, insp, ran,
                 overlap, repeats>>

(* The webhook's removal reads the versions, and then deletes the          *)
(* analytics of the codebase.                                              *)
RemoveRead ==
  /\ "remove" \in Faults /\ removal = "idle" /\ asset = "present"
  /\ removal' =
       IF \A v \in Version : Exists(v) =>
            status[v] \in {"CONNECTED", "CONNECTING", "CONNECTION_FAILED"}
       THEN "delete" ELSE "kept"
  /\ UNCHANGED <<rows, objects, event, push, conn, gen, jobs, insp, ran, lost,
                 overlap, repeats>>

(* delete_primary_asset empties the codebase's prefix of the bucket ...    *)
DeleteObjects ==
  /\ "remove" \in Faults /\ removal \in {"idle", "kept"} /\ asset = "present"
  /\ archive' = {} /\ files' = {}
  /\ removal' = "delete"
  /\ UNCHANGED <<rows, upload, event, push, conn, gen, jobs, insp, ran, lost,
                 overlap, repeats>>

(* ... and, as the webhook does, deletes the row; the others go with it.   *)
DeleteRows ==
  /\ removal = "delete" /\ removal' = "done"
  /\ asset' = "deleted"
  /\ status' = [v \in Version |-> "none"]
  /\ prev' = [v \in Version |-> NoVersion]
  /\ newer' = {} /\ nodes' = {} /\ docs' = {}
  /\ UNCHANGED <<billed, objects, event, push, conn, gen, jobs, insp, ran, lost,
                 overlap, repeats>>
-----------------------------------------------------------------------------
(* The onboarding Lambda and the connection task.                          *)

(* The event of v is delivered; S3, SNS and EventBridge may do it again.   *)
Delivered(v) ==
  /\ v \in event
  /\ \/ event' = event \ {v} /\ UNCHANGED repeats
     \/ event' = event /\ Repeat

(* No threat was found: a connection task is started.                      *)
Connect(t, v) ==
  /\ upload[v] # "threat" /\ Delivered(v)
  /\ conn[t].pc = "idle"
  /\ conn' = [conn EXCEPT ![t] = [pc |-> "unpack", v |-> v, clash |-> FALSE]]
  /\ UNCHANGED <<rows, objects, push, removal, gen, jobs, insp, ran, lost, overlap>>

Threat(v) ==
  /\ upload[v] = "threat" /\ Delivered(v)
  /\ SetStatus(v, "CONNECTION_FAILED")
  /\ UNCHANGED <<asset, prev, nodes, docs, billed, objects, push, removal, conn,
                 gen, jobs, insp, ran, lost, overlap>>

(* The Lambda fails on the record, logs it, and the batch counts as done.  *)
Drop(v) ==
  /\ "lost" \in Faults /\ v \in event
  /\ event' = event \ {v}
  /\ Unnoticed(v)
  /\ UNCHANGED <<rows, objects, push, removal, conn, gen, jobs, insp, ran, overlap,
                 repeats>>

(* run_codebase_connection: the codebase is renamed after its archive, and *)
(* the files to analyze are counted.                                       *)
ConnUnpack(t) ==
  LET v == conn[t].v IN
  /\ conn[t].pc = "unpack" /\ Exists(v)
  /\ \/ /\ upload[v] = "good"
        /\ conn' = [conn EXCEPT ![t].pc = "store"]
        /\ UNCHANGED <<status, newer>>
     \/ /\ upload[v] \in {"taken", "empty"}
        /\ conn' = [conn EXCEPT ![t] = NoTask]
        /\ UpdateStatus(v, "CONNECTION_FAILED")
  /\ UNCHANGED <<asset, prev, nodes, docs, billed, objects, event, push, removal,
                 gen, jobs, insp, ran, lost, overlap, repeats>>

(* source.zip is uploaded, and the transaction of the nodes begins.        *)
ConnStore(t) ==
  /\ conn[t].pc = "store"
  /\ archive' = archive \cup {conn[t].v}
  /\ conn' = [conn EXCEPT ![t].pc = "nodes"]
  /\ UNCHANGED <<rows, files, upload, event, push, removal, gen, jobs, insp, ran,
                 lost, overlap, repeats>>

(* Mutant of Refused: no unique index on the nodes.                        *)
RefusedNever(t) == FALSE

(* A unique index refuses the nodes of a version that has them.            *)
Refused(t) == conn[t].v \in nodes

(* The nodes are committed, and with them the status unless the version is *)
(* already to be generated.  Another open transaction of the codebase may  *)
(* have a node with the same hash.                                         *)
NodesCommit(t) ==
  LET v == conn[t].v
      generating == status[v] = "GENERATING" IN
  /\ conn[t].pc = "nodes" /\ Exists(v) /\ ~Refused(t)
  /\ nodes' = nodes \cup {v}
  /\ conn' = [u \in Task |->
       IF u = t THEN IF generating THEN [conn[t] EXCEPT !.pc = "spawn"] ELSE NoTask
       ELSE [conn[u] EXCEPT !.clash = conn[u].pc = "nodes"]]
  /\ IF generating THEN UNCHANGED <<status, newer>> ELSE SetStatus(v, "CONNECTED")
  /\ UNCHANGED <<asset, prev, docs, billed, objects, event, push, removal, gen,
                 jobs, insp, ran, lost, overlap, repeats>>

(* The nodes are refused, and the task raises.                             *)
NodesAbort(t) ==
  /\ conn[t].pc = "nodes" /\ (conn[t].clash \/ Refused(t))
  /\ conn' = [conn EXCEPT ![t] = NoTask]
  /\ IF Refused(t) THEN UNCHANGED lost ELSE Unnoticed(conn[t].v)
  /\ UNCHANGED <<rows, objects, event, push, removal, gen, jobs, insp, ran, overlap,
                 repeats>>

(* Mutant of ConnSpawn: the failed start is only logged.                   *)
ConnSpawnQuietly(t) ==
  /\ conn[t].pc = "spawn"
  /\ conn' = [conn EXCEPT ![t] = NoTask]
  /\ \/ jobs' = [jobs EXCEPT ![conn[t].v] = @ + 1]
     \/ "spawn" \in Faults /\ UNCHANGED jobs
  /\ UNCHANGED <<rows, objects, event, push, removal, gen, insp, ran, lost, overlap,
                 repeats>>

ConnSpawn(t) ==
  /\ conn[t].pc = "spawn"
  /\ conn' = [conn EXCEPT ![t] = NoTask]
  /\ \/ /\ jobs' = [jobs EXCEPT ![conn[t].v] = @ + 1]
        /\ UNCHANGED <<status, newer>>
     \/ /\ "spawn" \in Faults
        /\ UpdateStatus(conn[t].v, "GENERATION_ERROR")
        /\ UNCHANGED jobs
  /\ UNCHANGED <<asset, prev, nodes, docs, billed, objects, event, push, removal,
                 gen, insp, ran, lost, overlap, repeats>>

(* The version is gone, or the task raises or dies: nothing is recorded.   *)
ConnFail(t) ==
  LET v == conn[t].v
      gone == ~Exists(v) /\ conn[t].pc \in {"unpack", "nodes"} IN
  /\ conn[t].pc # "idle" /\ (gone \/ "crash" \in Faults)
  /\ conn' = [conn EXCEPT ![t] = NoTask]
  /\ IF gone THEN UNCHANGED lost ELSE Unnoticed(v)
  /\ UNCHANGED <<rows, objects, event, push, removal, gen, jobs, insp, ran, overlap,
                 repeats>>
-----------------------------------------------------------------------------
(* exec_codebase_generation, for one version.                              *)

Requested(v) == {q \in Request : gen[q].v = v}

(* Mutant of GenRead: nothing is debited.                                  *)
GenReadUnpaid(q, v) ==
  /\ gen[q].pc = "idle" /\ status[v] = "CONNECTED"
  /\ gen' = [gen EXCEPT ![q] = [pc |-> "commit", v |-> v]]
  /\ overlap' = IF Requested(v) = {} THEN overlap ELSE overlap \cup {v}
  /\ UNCHANGED <<rows, objects, event, push, removal, conn, jobs, insp, ran, lost,
                 repeats>>

(* Mutant of GenRead: a version in error is debited again.                 *)
GenReadAgain(q, v) ==
  /\ gen[q].pc = "idle" /\ status[v] \in {"CONNECTED", "GENERATION_ERROR"}
  /\ gen' = [gen EXCEPT ![q] = [pc |-> "debit", v |-> v]]
  /\ overlap' = IF Requested(v) = {} THEN overlap ELSE overlap \cup {v}
  /\ UNCHANGED <<rows, objects, event, push, removal, conn, jobs, insp, ran, lost,
                 repeats>>

GenRead(q, v) ==
  /\ gen[q].pc = "idle" /\ status[v] = "CONNECTED"
  /\ gen' = [gen EXCEPT ![q] = [pc |-> "debit", v |-> v]]
  /\ overlap' = IF Requested(v) = {} THEN overlap ELSE overlap \cup {v}
  /\ UNCHANGED <<rows, objects, event, push, removal, conn, jobs, insp, ran, lost,
                 repeats>>

(* The debit has a transaction of its own.                                 *)
GenDebit(q) ==
  LET v == gen[q].v IN
  /\ gen[q].pc = "debit" /\ billed[v] < MaxDebits
  /\ billed' = [billed EXCEPT ![v] = @ + 1]
  /\ gen' = [gen EXCEPT ![q].pc = "commit"]
  /\ UNCHANGED <<asset, status, prev, newer, nodes, docs, objects, event, push,
                 removal, conn, jobs, insp, ran, lost, overlap, repeats>>

(* The update does not look at the status again; it raises without a row.  *)
GenCommit(q) ==
  LET v == gen[q].v IN
  /\ gen[q].pc = "commit"
  /\ gen' = [gen EXCEPT ![q] = IF Exists(v) THEN [@ EXCEPT !.pc = "spawn"] ELSE NoRequest]
  /\ UpdateStatus(v, "GENERATING")
  /\ UNCHANGED <<asset, prev, nodes, docs, billed, objects, event, push, removal,
                 conn, jobs, insp, ran, lost, overlap, repeats>>

GenSpawn(q) ==
  /\ gen[q].pc = "spawn"
  /\ jobs' = [jobs EXCEPT ![gen[q].v] = @ + 1]
  /\ gen' = [gen EXCEPT ![q] = NoRequest]
  /\ UNCHANGED <<rows, objects, event, push, removal, conn, insp, ran, lost,
                 overlap, repeats>>

(* The request fails, or Hatchet does not take the task.                   *)
GenFail(q) ==
  /\ "crash" \in Faults /\ gen[q].pc # "idle"
  /\ gen' = [gen EXCEPT ![q] = NoRequest]
  /\ IF gen[q].pc = "debit" THEN UNCHANGED lost ELSE Unnoticed(gen[q].v)
  /\ UNCHANGED <<rows, objects, event, push, removal, conn, jobs, insp, ran,
                 overlap, repeats>>
-----------------------------------------------------------------------------
(* inspect_db.                                                             *)

(* Mutant of InspTake: a task runs that nothing queued.                    *)
InspTakeUnqueued(r, v) ==
  /\ insp[r].pc = "idle" /\ Exists(v)
  /\ jobs' = [jobs EXCEPT ![v] = @ - 1]
  /\ insp' = [insp EXCEPT ![r] = [NoRun EXCEPT !.pc = "load", !.v = v]]
  /\ ran' = ran \cup {v}
  /\ UNCHANGED <<rows, objects, event, push, removal, conn, gen, lost, overlap, repeats>>

InspTake(r, v) ==
  /\ insp[r].pc = "idle"
  /\ \/ jobs[v] > 0 /\ jobs' = [jobs EXCEPT ![v] = @ - 1] /\ UNCHANGED repeats
     \/ v \in ran /\ Repeat /\ UNCHANGED jobs
  /\ insp' = [insp EXCEPT ![r] = [NoRun EXCEPT !.pc = "load", !.v = v]]
  /\ ran' = ran \cup {v}
  /\ UNCHANGED <<rows, objects, event, push, removal, conn, gen, lost, overlap>>

(* Mutant of Base: the previous version counts in any status.              *)
BaseOfAnyStatus(v) == prev[v]

(* The previous version counts only if it is complete.                     *)
Base(v) ==
  IF prev[v] # NoVersion /\ status[prev[v]] = "GENERATION_COMPLETE" THEN prev[v]
  ELSE NoVersion

(* The row is loaded once, and its status is not read again.               *)
InspLoad(r) ==
  LET v == insp[r].v IN
  /\ insp[r].pc = "load" /\ Exists(v)
  /\ insp' = [insp EXCEPT ![r].pc = "files", ![r].seen = status[v],
                            ![r].base = Base(v)]
  /\ IF status[v] = "GENERATION_ERROR" THEN SetStatus(v, "GENERATING")
     ELSE UNCHANGED <<status, newer>>
  /\ UNCHANGED <<asset, prev, nodes, docs, billed, objects, event, push, removal,
                 conn, gen, jobs, ran, lost, overlap, repeats>>

(* By the status that was loaded, the files are uploaded from the archive, *)
(* or they are downloaded.                                                 *)
Source(r) == IF insp[r].seen \in {"CONNECTED", "GENERATING"} THEN archive ELSE files

InspFiles(r) ==
  LET v == insp[r].v IN
  /\ insp[r].pc = "files" /\ v \in Source(r)
  /\ files' = files \cup {v}
  /\ IF insp[r].seen = "CONNECTED" THEN SetStatus(v, "GENERATING")
     ELSE UNCHANGED <<status, newer>>
  /\ insp' = [insp EXCEPT ![r].pc = IF insp[r].base = NoVersion THEN "inspect" ELSE "diff"]
  /\ UNCHANGED <<asset, prev, nodes, docs, billed, archive, upload, event, push,
                 removal, conn, gen, jobs, ran, lost, overlap, repeats>>

(* The files of the previous version are downloaded, and the size of the   *)
(* difference is checked against the balance.                              *)
InspDiff(r) ==
  /\ insp[r].pc = "diff" /\ insp[r].base \in files
  /\ \/ /\ insp' = [insp EXCEPT ![r].pc = "inspect"]
        /\ UNCHANGED <<status, newer>>
     \/ /\ "balance" \in Faults /\ Exists(insp[r].v)
        /\ insp' = [insp EXCEPT ![r] = NoRun]
        /\ SetStatus(insp[r].v, "INSUFFICIENT_BALANCE")
  /\ UNCHANGED <<asset, prev, nodes, docs, billed, objects, event, push, removal,
                 conn, gen, jobs, ran, lost, overlap, repeats>>

InspInspect(r) ==
  /\ insp[r].pc = "inspect" /\ insp[r].v \in nodes
  /\ docs' = docs \cup {insp[r].v}
  /\ insp' = [insp EXCEPT ![r].pc = "complete"]
  /\ UNCHANGED <<asset, status, prev, newer, nodes, billed, objects, event, push,
                 removal, conn, gen, jobs, ran, lost, overlap, repeats>>

(* Mutant of InspComplete: the status is set before the documents.         *)
InspCompleteEarly(r) ==
  /\ insp[r].pc \in {"inspect", "complete"}
  /\ insp' = [insp EXCEPT ![r] = NoRun]
  /\ SetStatus(insp[r].v, "GENERATION_COMPLETE")
  /\ UNCHANGED <<asset, prev, nodes, docs, billed, objects, event, push, removal,
                 conn, gen, jobs, ran, lost, overlap, repeats>>

(* The export and the deep context follow; a failure there changes nothing *)
(* of this.                                                                *)
InspComplete(r) ==
  /\ insp[r].pc = "complete"
  /\ insp' = [insp EXCEPT ![r] = NoRun]
  /\ SetStatus(insp[r].v, "GENERATION_COMPLETE")
  /\ UNCHANGED <<asset, prev, nodes, docs, billed, objects, event, push, removal,
                 conn, gen, jobs, ran, lost, overlap, repeats>>

(* What a step of the run needs is not there.                              *)
Missing(r) ==
  \/ ~Exists(insp[r].v)
  \/ insp[r].pc = "files" /\ insp[r].v \notin Source(r)
  \/ insp[r].pc = "diff" /\ insp[r].base \notin files
  \/ insp[r].pc = "inspect" /\ insp[r].v \notin nodes

(* Mutant of InspRaise: the exception sets no status.                      *)
InspRaiseSilently(r) ==
  /\ insp[r].pc \in {"load", "files", "diff", "inspect"}
  /\ Missing(r) \/ "raise" \in Faults
  /\ insp' = [insp EXCEPT ![r] = NoRun]
  /\ UNCHANGED <<rows, objects, event, push, removal, conn, gen, jobs, ran, lost,
                 overlap, repeats>>

InspRaise(r) ==
  /\ insp[r].pc \in {"load", "files", "diff", "inspect"}
  /\ Missing(r) \/ "raise" \in Faults
  /\ insp' = [insp EXCEPT ![r] = NoRun]
  /\ SetStatus(insp[r].v, "GENERATION_ERROR")
  /\ UNCHANGED <<asset, prev, nodes, docs, billed, objects, event, push, removal,
                 conn, gen, jobs, ran, lost, overlap, repeats>>

(* The worker dies, or the task is cancelled at its timeout: CancelledError*)
(* is no Exception.                                                        *)
InspCrash(r) ==
  /\ "crash" \in Faults /\ insp[r].pc # "idle"
  /\ insp' = [insp EXCEPT ![r] = NoRun]
  /\ Unnoticed(insp[r].v)
  /\ UNCHANGED <<rows, objects, event, push, removal, conn, gen, jobs, ran,
                 overlap, repeats>>
-----------------------------------------------------------------------------
PushStep(v) == PushInsert(v) \/ PushInsertFail(v) \/ PushUpload(v)

Deliver(v) == Threat(v) \/ \E t \in Task : Connect(t, v)

ConnStep(t) ==
  ConnUnpack(t) \/ ConnStore(t) \/ NodesCommit(t) \/ NodesAbort(t) \/ ConnSpawn(t)
  \/ ConnFail(t)

GenStep(q) == GenDebit(q) \/ GenCommit(q) \/ GenSpawn(q)

InspStep(r) ==
  InspLoad(r) \/ InspFiles(r) \/ InspDiff(r) \/ InspInspect(r) \/ InspComplete(r)
  \/ InspRaise(r)

Next ==
  \/ \E v \in Version : AddRepository(v) \/ PushRead(v) \/ PushFail(v)
                        \/ Deliver(v) \/ Drop(v) \/ PushStep(v)
  \/ RemoveRead \/ DeleteObjects \/ DeleteRows
  \/ \E t \in Task : ConnStep(t)
  \/ \E q \in Request : GenStep(q) \/ GenFail(q) \/ \E v \in Version : GenRead(q, v)
  \/ \E r \in Run : InspStep(r) \/ InspCrash(r) \/ \E v \in Version : InspTake(r, v)

(* Hatchet and SNS go on with what they have queued, and a task goes on.   *)
Fairness ==
  /\ \A v \in Version : WF_vars(PushStep(v)) /\ WF_vars(Deliver(v))
                        /\ WF_vars(\E r \in Run : InspTake(r, v))
  /\ \A t \in Task : WF_vars(ConnStep(t))
  /\ \A q \in Request : WF_vars(GenStep(q))
  /\ \A r \in Run : WF_vars(InspStep(r))

Spec == Init /\ [][Next]_vars /\ Fairness
-----------------------------------------------------------------------------
(* Type invariant: of the rows, the objects and the tasks of one codebase. *)
TypeOK ==
  /\ asset \in {"none", "present", "deleted"}
  /\ status \in [Version -> Status \cup {"none"}]
  /\ prev \in [Version -> Version \cup {NoVersion}]
  /\ newer \subseteq Version \X Version
  /\ nodes \subseteq Version /\ docs \subseteq Version
  /\ billed \in [Version -> Nat]
  /\ archive \subseteq Version /\ files \subseteq Version
  /\ upload \in [Version -> ArchiveKind \cup {"none"}]
  /\ event \subseteq Version
  /\ push \in [Version -> [pc : {"idle", "insert", "upload", "done", "ignored"},
                           status : {"none", "CONNECTING", "GENERATING"},
                           prev : Version \cup {NoVersion}]]
  /\ removal \in {"idle", "kept", "delete", "done"}
  /\ conn \in [Task -> [pc : {"idle", "unpack", "store", "nodes", "spawn"},
                        v : Version \cup {NoVersion}, clash : BOOLEAN]]
  /\ gen \in [Request -> [pc : {"idle", "debit", "commit", "spawn"},
                          v : Version \cup {NoVersion}]]
  /\ jobs \in [Version -> Nat]
  /\ insp \in [Run -> [pc : {"idle", "load", "files", "diff", "inspect", "complete"},
                       v : Version \cup {NoVersion}, seen : Status \cup {"none"},
                       base : Version \cup {NoVersion}]]
  /\ ran \subseteq Version /\ lost \subseteq Version /\ overlap \subseteq Version
  /\ repeats \in Nat

(* The user is not deleting the codebase: its objects are all still there. *)
Kept == removal # "delete" /\ removal # "done"

(* A version that is shown as complete has its nodes, its archive, all its *)
(* files and all its documents, whichever run completed it and whatever    *)
(* was delivered or run twice (the last lines of inspect_db).              *)
CompleteSound ==
  Kept => \A v \in Version : status[v] = "GENERATION_COMPLETE" =>
            v \in nodes /\ v \in archive /\ v \in files /\ v \in docs

(* The version a run computes its difference with has its nodes and all    *)
(* its files, for as long as the run uses it (try_get_prev_version).       *)
BaseSound ==
  Kept => \A r \in Run : insp[r].base # NoVersion =>
            insp[r].base \in nodes /\ insp[r].base \in files

(* No version is inspected in full, with no earlier version it was pushed  *)
(* on, before it was paid for (exec_codebase_generation debits first).     *)
PaidFirst ==
  \A v \in Version : (v \in ran \/ jobs[v] > 0) /\ Exists(v) /\ prev[v] = NoVersion
                     => billed[v] > 0

(* A version is debited more than once only if two requests for it were    *)
(* under way at a time, or one died after its debit: the request checks    *)
(* the status before it debits, and sets it after.                         *)
DebitedOnce ==
  \A v \in Version : billed[v] > 1 => v \in overlap \/ v \in lost

(* Someone will set the status of v.                                       *)
Early(v) ==
  \/ push[v].pc = "upload"
  \/ v \in event
  \/ \E t \in Task : conn[t].v = v /\ conn[t].pc \in {"unpack", "store", "nodes"}

Late(v) ==
  \/ jobs[v] > 0
  \/ \E t \in Task : conn[t].v = v /\ conn[t].pc = "spawn"
  \/ \E q \in Request : gen[q].v = v /\ gen[q].pc = "spawn"
  \/ \E r \in Run : insp[r].v = v /\ insp[r].pc # "idle"

(* A version that is shown as connecting or generating, because of which   *)
(* pushes are ignored (STOPGAP), has a task, a request or an event in      *)
(* progress or queued that will change that, unless one of them ended      *)
(* without recording it.                                                   *)
Owned ==
  \A v \in Version : status[v] \in {"CONNECTING", "GENERATING"} /\ v \notin lost =>
    IF v \in nodes THEN Late(v) ELSE Early(v)

(* Connecting and generating end, unless a task ended without recording it *)
(* or the codebase is removed.                                             *)
Settles ==
  \A v \in Version :
    status[v] \in {"CONNECTING", "GENERATING"} ~>
      status[v] \notin {"CONNECTING", "GENERATING"} \/ v \in lost

(* What the rows of a codebase show.                                       *)
Shown == INSTANCE VersionStatus WITH
  base <- prev, connected <- nodes, documented <- docs,
  paid <- {v \in Version : billed[v] > 0}

(* Webhooks, tasks, requests and runs together, in any order, again and    *)
(* with any of them dying, take a version through the diagram of           *)
(* VersionStatus and no other way.                                         *)
ImplementsVersionStatus == Shown!Spec
==============================================================================
