# TLA+ models of the Driver AI monorepo

This directory holds TLA+ specifications of the parts of the repository whose
correctness depends on the order in which things happen: the life of a version
from a push to its documents, the task execution of the inspector, its caches,
the synchronisation of users with Auth0, the fault-tolerant extraction of the
code analytics and the files of an organization it ends in, and the generation
of pages by AutoDocs. TLC checks them on small instances; TLAPS proves theorems
about each of them for every instance.

Paths below are relative to the root of the repository. `PROJECT.json` is the
machine-readable index: components, runs, the lines each definition stands for,
hazards, findings, theorems, and for every property a seeded mistake that it
catches.

## 1. The system

A backend (FastAPI, `backend/`) owns users, teams, sources and documents in a
Postgres database (`packages/driver_db`). Source-code hosts, Auth0 and users
cause events; lambdas (`lambdas/`) forward them to workflows on Hatchet
(`content_services/src/workflows`), which run the content services. The
services keep durable state in the database and in S3 and talk to one another
only through these two and through workflow triggers.

| Component | State | Operations | Interacts with |
|---|---|---|---|
| Onboarding (`content_services/src/onboarding`, `shared/inspector/onboarding`) | rows of codebases, versions and nodes; archives in S3 | repository added, removed, pushed; an archive connected | lambda, inspector, analytics trigger |
| Inspector pipeline and version lifecycle (`inspector/src/main.py`) | status of a version, its files in S3 | `inspect_db` drives a version from generating to complete or error | task execution, onboarding, backend |
| Inspector task execution (`packages/shared/shared/inspector/utils/task.py`) | memory of one run: asyncio tasks, results, a write queue, progress | `run_tasks`, `_schedule_task`, `_run_task`, `_write_task_results`, `load_persisted_results` | the tasks, whose results are rows of the database |
| Inspector tasks (`content_services/src/inspector/src/tasks.py`) | rows of derived contents and embeddings | one `run`, `post_run_io` and `load_result` per kind of task | task execution, models |
| Inspector caches (`inspector/src/cache.py`) | memory of each container, an object in S3, a lock per key | `get`, `put`, `delete`, expiry and eviction | all tasks of the inspector |
| Auth0 event processing (`content_services/src/auth0_sync/src/event_processor`) | none of its own; rows of users, organizations, memberships | one handler per user, deletion or membership event | Auth0 (fetches), database, EventBridge and Lambda (delivery) |
| Auth0 reconciliation (`.../auth0_sync/sync.py`) | none of its own | nightly: fetch all, upsert, delete the stale | the same rows as the handlers |
| Analytics extraction (`content_services/src/analytics`, `native/`) | `checkpoint.json` and Parquet chunks in S3, per codebase | clone, resume, tree sizes, batches, merge, clean up, publish | push events (each triggers a run), later phases |
| Analytics trigger and cleanup (`.../orchestrator.py`, `shared/analytics_cleanup.py`) | `codebases_list.json`, `org_summary.json`, the files of a codebase | read, change and write at the end of every pipeline and at every deletion | extraction, onboarding, backend |
| AutoDocs (`content_services/src/autodocs`) | a checkpoint: phase, sections, indexes, scatter state; the page and its status | request, annotate, scatter, gather, sequential updates, PDFs, assembly, resume | backend, models, S3 |
| Backend HTTP API (`backend/app/api`) | none of its own | `exec_codebase_generation`, `trigger_asset_connection`, `delete_primary_asset`, `run_autodoc` | starts the tasks above, debits usage |
| File trees and version diff (`shared/inspector/utils/dag.py`) | none (pure) | `compute_diff` | inspector |
| Source access control (`backend/app/authorization`, repositories) | grants, teams, visibility | decide, grant, revoke | every request |
| Services, MCP server, git providers, LLM sessions, static analysis, embedding, infrastructure | request-scoped or external | adapters and single transactions | |

### What is hard in it

* **Interleaving.** The inspector's coroutines share dictionaries and a queue
  between awaits. Up to ten Auth0 handlers and the nightly reconciliation read
  and write the same rows, each with a session of its own and with no lock from
  read to commit. Webhook tasks, connections, requests and inspections of one
  codebase read its versions in one transaction and act on what they read in
  the next. Up to eighty analytics runs execute at a time, nothing keeps two of
  one codebase apart, and all of an organization change the same two files.
* **Crash and resume.** An inspector run resumes from the rows it finds, an
  analytics run from a checkpoint that must agree with chunks written by
  separate requests, AutoDocs from a document that saves phases and indexes. A
  status that is set before the work it announces outlives the worker.
* **Delivery.** Events are late, repeated, reordered or lost.
* **Partial failure.** A page of a paginated fetch, one task out of thousands,
  one S3 delete of three: the code goes on, and what it goes on with must be
  true.

### What makes each part correct

* *Task execution*: inputs are there when a task reads them; every result is
  persisted exactly once; a run that returns has lost nothing; a failure ends
  the run instead of hanging it.
* *Auth0*: when things are quiet, the database agrees with Auth0; a partial list
  deletes nobody; an older profile does not replace a newer one; whatever was
  lost is repaired by the reconciliation.
* *Extraction*: a resumed run publishes what an uninterrupted run would; a
  checkpoint vouches only for what is really in S3; the damage done by a fault
  does not last.
* *Versions*: a complete version has all that belongs to it; a difference is
  taken from a complete version; nothing is generated before it was paid for,
  and nothing is paid for twice; a version that is connecting or generating has
  somebody who works on it, since pushes are ignored while it is.
* *Caches*: one download at a time for a container; a container reads its own
  writes; no reader waits for ever.
* *Files of an organization*: the list has every codebase that has analytics
  and no other; the summary is that of the list.
* *AutoDocs*: a resumed run neither repeats nor skips a node or a PDF; a page is
  made for what was asked; one task at a time writes it; it does not stay in
  *generating*.

The hazards with their lines are listed in `PROJECT.json`, with the properties
that cover each, or the reason why none does.

## 2. Modules

| Module | Role |
|---|---|
| `TaskGraph` | abstract: what `run_tasks` promises its caller |
| `TaskManager` | one manager and the attempts that resume it; implements `TaskGraph` |
| `TaskManagerProofs` | theorems about `TaskManager` |
| `MCTaskManager` | four tasks for TLC |
| `VersionStatus` | abstract: the status diagram of a version, when it is paid for and what it is built on |
| `VersionLifecycle` | composes webhook tasks, lambda, connection, requests and inspector over the rows and objects of one codebase; implements `VersionStatus` |
| `S3BackedCache` | one key of a cache in several containers |
| `Auth0Sync` | Auth0, delivery, handlers, reconciliation, database |
| `AnalyticsExtraction` | repository, S3, and the runs over them |
| `OrganizationFiles` | pipelines and deletions over the files of one organization |
| `AutoDocs` | requests, tasks, page and checkpoint |
| `AnalyticsExactProofs` | theorems about `AnalyticsExtraction` that follow a whole history of runs; extends `AnalyticsExtractionProofs` |
| `...Proofs` | theorems about the module of that name |
| `MC...` | constants and symmetry for TLC |

`AnalyticsExtraction` ends where `OrganizationFiles` begins (its `Publish` is
`UploadFiles` there), and `InspInspect` of `VersionLifecycle` is a whole
behaviour of `TaskManager`: the detailed modules would multiply each other's
states, and share nothing but these steps.

In every module, definitions with `Mutant of X` in their comment are mistakes
seeded beside the definition `X`. No specification uses them.

### TaskManager

An action is what one coroutine does between two awaits.

| Code | Action |
|---|---|
| `load_persisted_results`, creation of the writer and of the asyncio tasks | `Start` (any part of the rows may load: a load that raises is dropped) |
| `_run_task` up to the gather of its dependencies | `Await` |
| a loaded result stands for the run | `Skip` |
| `task.run` starts / returned / `post_run_io` done and result queued | `Begin` / `RunOk` / `PostOk` |
| `task.run` or `post_run_io` raises; a dependency raised | `TaskFail`; `PropagateFail` |
| the gather of `run_tasks` and the `None` of its `finally` | `GatherOk`, `GatherFail` |
| `await writer_task`, end of `run_tasks` | `Return`, `Raise` |
| `_write_task_results` | `WriterSave`, `WriterStop`, `WriterFail` |
| the process dies; the run is resumed in the same process | `Crash`; `Resume` |
| what coroutines of the failed attempt, never cancelled, still do | `OrphanDelete`, `OrphanWrite`, `OrphanEnd` |

`durable` is the set of tasks whose rows `load_result` would find. It is what
`post_run_io` writes: `save_task_result` of the persistence used in production
only reports, so the rows precede the queue. Folder, symbol, top-level and tagging
tasks delete old rows in a commit of their own before they add the new ones,
file documents do both in one; `RunOk` allows either. `lost` records the rows an
abandoned coroutine has deleted without writing them again. It is history: no
guard reads it.

The persisted, parallel mode is modelled: it is the one `inspector/src/main.py`
uses. The serial mode and a manager without persistence appear in tests only.

### Auth0Sync

A profile is represented by its `updated_at`; the guards compare nothing else.
`aUser`, `aOrg`, `aMember` are Auth0's, an external service; `db...` are the rows.
`access` stands for the team memberships and grants of a user in an
organization, and `dbTeam` for the organizations owning rows that have no
`ON DELETE`. A handler is a little state machine with one action per remote
call or session: `FetchUser`, `ReadUser`, `WriteUser`; `DeleteUserRow`;
`FetchMember`, `ReadMember` and then `AddMembership`, `RemoveMembership` or
`KeepMembership`. A commit that breaks a constraint changes nothing, as the
handler logs it and returns. The reconciliation is `FetchOrgs`, `FetchUsers`,
`FetchMembers` once per user, then `Abort`, or `ReadRows` followed by `Commit` or
`Rollback`. `Fetched` says what a paginated fetch yields when a page fails: part
of the set, and an error. `Commits` spells out the constraints that must hold
for the transaction to succeed.

`absent` is history: the users Auth0 lacked at some time since the run began.
One reconciliation runs at a time (it takes minutes, cron starts it nightly).
Dry runs, the status row of a run, attributes of organizations and roles are left
out.

### AnalyticsExtraction

Commits are numbered in an order in which parents precede children; a branch is
a set of commits. A record of kind `commits` is a commit and a branch containing
it, as `process_single_commit` makes them, a record of kind `file_changes` a
commit that changes files. `UpTo` and `Last` are prefix and last element of
`commits_topo`, which goes through the clone branch by branch. Chunks are
functions from index to a set of records, per kind: writing an index that exists
overwrites it, which is how S3 behaves and what resuming depends on. `run[w]`
holds what a run keeps in memory; `ckpt` is `checkpoint.json`.

| Code | Action |
|---|---|
| `_phase_clone` | `Start` |
| `_get_extraction_checkpoint`, `validate_checkpoint` | `LoadNone`, `LoadInvalid`, `LoadValid` |
| `calculate_tree_sizes_incremental` with its timed callback | `TreeCheckpoint`, `TreeDone` |
| one batch: `chunk_callback` (commits, then file changes), then the checkpoint | `WriteCommits`, `WriteFileChanges`, `SaveCheckpoint` |
| `_merge_chunks_to_storage` | `Merge`, `MergeFileChanges` |
| `delete_all_chunks`, a thousand keys a request | `ListChunks`, `DeleteChunks` |
| `delete_checkpoint` | `ForgetCheckpoint` |
| the later phases up to the upload | `Publish` |
| an exception, the timeout or the death of the worker | `Fail` |

`Push` (a new commit), `Share` (a merge or a new branch) and `Rewrite` (force
push, deleted branch) belong to the users of the repository. `Faults` selects the kinds of failure an instance has; each is a
failure the code has a handler for, or a death of the run. Every S3 request is a
step of its own, so a run may die between any two. Ancestry of commits, the
contents of records and the pure Python fallback of the native extension are not
modelled; the local tables of a run start empty, that is, the worker's disk
holds no files of an earlier run.

### VersionLifecycle

A version is its commit: the table has a unique index on codebase and commit.
`newer` is the order of `updated_at`, by which `PrimaryAsset.versions` is sorted;
an UPDATE moves a version to the front, an assignment that changes nothing does
not (SQLAlchemy sends none). An action is one transaction or one S3 request.

| Code | Action |
|---|---|
| `download_and_upload_repo`: a repository is added; a push reads the versions; inserts one; uploads the archive | `AddRepository`; `PushRead`; `PushInsert` (`PushInsertFail` without the asset); `PushUpload`, `PushFail` |
| `handle_github_events`: a repository is removed; `delete_primary_asset` | `RemoveRead`, `DeleteRows`; `DeleteObjects`, `DeleteRows` |
| the onboarding lambda and `trigger_asset_connection` | `Connect`, `Threat`, `Drop` |
| `run_codebase_connection` | `ConnUnpack`, `ConnStore`, `NodesCommit` or `NodesAbort`, `ConnSpawn`; `ConnFail` |
| `exec_codebase_generation` | `GenRead`, `GenDebit`, `GenCommit`, `GenSpawn`; `GenFail` |
| `inspector_task`, `inspect_db` | `InspTake`, `InspLoad`, `InspFiles`, `InspDiff`, `InspInspect`, `InspComplete`; `InspRaise`, `InspCrash` |

`seen` is the status `inspect_db` loaded and never reads again; it decides where
the files come from (`Source`). `clash` is a connection whose insertion of nodes
will meet a unique key another one has just committed: nodes are shared by hash
between the versions of an asset. `lost` and `overlap` are history: the versions
one of whose tasks ended with nothing recorded, and those two requests read at
the same time. `DebitedOnce`, `Owned` and `Settles` except them, because the code
has no lock and no supervisor; what the properties say is that *nothing else*
bills twice or leaves a version behind. `ConnFail` covers both a dead worker and
an exception, since neither sets a status.

`VersionStatus` is what the rows show to a user of the platform: a diagram with one
action per edge and no webhook, task, bucket or queue. `Shown` maps to it: the base of
a version is `prev`, it is connected when its nodes are there, documented when its
documents are, and paid when it was debited. Several components write `status`, each
from what it read one or more transactions ago; that together they follow the diagram
is what `ImplementsVersionStatus` says.

### S3BackedCache

The value of a key is the number of the `put` that made it; `l1[c]` is the memory
of container `c`, `s3` the object. `get` and `aget` are one algorithm (the
latter runs the former in a thread), with an action for each lock operation and
each access that other threads can come between: `Get` (the first look), `FindLock`,
`Acquire`, `CheckAgain`, `Download`, `Store`, `EvictHeld`. `put` is `Put`, `PopEvicted`,
`Upload`; `delete` is `Delete`, `DeleteLock`. Locks are objects with an identity
(`Lock`): `PopLock` drops the dictionary's reference, and `NewLock` makes another
while threads still hold or wait for the first, which is what makes a second
download possible. `PutOther` is a `put` of another key that evicts this one.
`dropped` and `torn` are history: containers whose lock was dropped in use, and
whether a put ran into another put or a load, or was not uploaded.

### OrganizationFiles

An entry of the list is the number of the pipeline run that made it, the
summary is the list it was computed from.

| Code | Action |
|---|---|
| a pipeline is started for a codebase that exists; `_phase_upload` | `StartPipeline`; `UploadFiles` |
| `delete_codebase_analytics_files` | `StartDelete` |
| the read of `codebases_list.json` by `_update_codebases_list`, `update_org_files_after_deletion` | `ReadList` (any error starts a new list), `ReadListDelete` |
| the write of the list; the second read; the write of the summary | `WriteList`; `ReadForSummary`; `WriteSummary` |
| the rows are deleted | `DeleteRows` |
| the task raises or its worker dies | `Crash` |

`disturbed`, `dirty` and `stale` are history: the tasks that met another one at
the files or at the same codebase, the codebases whose last update was one of
those or failed, and whether the last update of the summary was. Two
read-modify-writes without a lock can always lose an update; the properties say
that overlap and failures are the only causes and that the damage is confined to
the entries they touched, until the next undisturbed pipeline of the codebase.

### AutoDocs

What the model of a page writes is abstracted to how often each item has gone
into it: `text` counts for every node, every PDF and the formatting. `Folder` are
the nodes the first drafts are made from, which the sequential updates skip.

| Code | Action |
|---|---|
| `run_autodoc` of the backend: check of the status; start of the task; commit | `RequestCheck`; `RequestSpawn`; `RequestCommit` |
| `autodocs_task`; the checkpoint is loaded or made | `Take`; `Load` (`Resumes`, `Entry`, `Enter`) |
| `_annotate_nodes`: files, folders, PDFs | `AnnotateFiles`, `AnnotateFolders`, `AnnotatePdfs` |
| `_initialize_sections`: drafts; a batch of a scatter section; the save its thread makes; the gather | `Draft`; `ScatterBatch`; `ScatterSave`; `Gather` |
| the loop of `generate` over nodes, then PDFs, then the format, each followed by a save | `SkipFolder`, `UpdateSections`; `UpdateSectionsWithPdf`; `FinalSectionFormat` |
| page and status are committed; the checkpoint is deleted | `Assemble`; `DeleteCheckpoint` |
| an exception; the coroutines of a gather that outlive it end; the worker dies | `Raise`; `Fade`; `Crash` |

`Entry` is the chain of conditions by which `generate` enters a phase in the
middle; it keeps `pidx` of a resumed PDF phase exactly as the code computes it,
one too far. `past` and `origin` are history: `past` is `"jumped"` once a page
has resumed between two PDFs (`Jumps`). `wait[s]` is the copy of the checkpoint a
thread has still to put to S3, which may be overtaken by any later one.
`use_tagging` is on, as the backend always passes it; the deep context workflows
call the same function with goals of their own and have no request.

## 3. Runs

| Run | Bounds | What it shows |
|---|---|---|
| `tasks` | 4 tasks (one only a dependency, one shared), 2 attempts | types; inputs are present; each result handed over once; a return is complete; the progress counter is exact; coroutines and writer never all wait; `TaskGraph` is implemented; a run ends |
| `versions` | 2 commits, 2 connection tasks, 1 request, 2 inspections, 1 repetition of an event or task; every kind of fault | a complete version is complete; a difference has a sound base; nothing is generated unpaid; a version in progress is owned; `VersionStatus` is implemented |
| `versions_settle` | 2 commits, 2 requests, 1 connection task and 1 inspection at a time; crashes, exceptions, refused starts | one debit a version; every version in progress reaches a status somebody can act on |
| `cache` | 2 containers with 2 and 1 threads, 3 operations, 2 puts; failed uploads, expiry, restarts | one download at a time; a container reads its own puts; every get ends |
| `auth0_serial` | 2 users, 1 organization, 3 changes, 1 redelivery, 1 failed fetch; one handler or run at a time | constraints of the schema hold; when all signals are delivered users and memberships agree, in whatever order they came; a run with failed fetches deletes nobody Auth0 had all the time |
| `auth0_converge` | 2 users, 1 organization, 2 changes; a handler beside a run; signals may be lost; deleted users come back | the nightly run repairs everything once Auth0 rests, if no organization owning teams was deleted; an older profile wins only by a lost update |
| `analytics_resume` | 3 commits (one without file changes), 2 branches, batches of 2, 3 runs, 1 push; crashes, failed uploads of the checkpoint, commits that cannot be processed | what is published is complete; the checkpoint is sound |
| `analytics_once` | 3 commits that all change files, 4 runs; crashes and failed uploads | no record twice |
| `analytics_recover` | the same repository, 4 runs, 1 push, merge or rewrite, one chunk per delete request, every kind of fault but unprocessable commits | the second of two faultless runs publishes exactly the repository |
| `org_files` | 2 codebases, 3 pipelines or deletions at a time, 2 pipeline runs; failing reads and writes, crashes | list, summary and entries are exact and deleted codebases gone, but for what overlapped or failed |
| `autodocs` | 2 nodes (one for the drafts), 2 PDFs, 2 scatter sections, 2 requests, 2 tasks at a time, 1 crash; every kind of fault | a page is made of everything once; for what was asked; by one task; and does not stay in generating |

Why the bounds suffice. Four tasks give a diamond, a chain of three and a task
reached only as a dependency, the shapes the scheduler distinguishes; a
resumption only sees rows and abandoned coroutines, of which one attempt makes
any combination. A version depends on at most one other, so two commits make
every relation between a version and its base, and two tasks of each kind every
race on one version. Three threads give two in one container, which can race
for a lock, and one that only shares S3; three operations are a put, a delete
and a get between them. Handlers of different users meet only in constraint
failures of memberships, so two users and one organization let every pair of
steps meet; three changes are delete, create again, change. Three commits with
batches of two give a full batch, a short one, and a batch with an empty
file-change chunk; three runs are one that fails, one that resumes and fails,
and one that finishes; four add a run that finds what a finished one left. Three
workers at the files of an organization are two that overlap and a third that
meets what they leave. Two nodes and two PDFs are a node the drafts are made
from, one that is applied, and a place between two PDFs. What is proved in
section 4 needs no bounds. Symmetry is used only
in `auth0_serial` and `autodocs`, which have no liveness property; `autodocs` has
no property that names a task or a request.

`CHECK_DEADLOCK FALSE` everywhere: a run that has returned, bounds that are used
up and a repository at rest are ends the system really has. That `run_tasks` has
no other end is what `NeverStuck` says: until the gather can end some coroutine
can run, and the writer that is awaited then has something to take from its queue.

Fairness. `tasks` assumes that the event loop resumes every coroutine that can
go on and that a task's work ends or raises (model calls and database calls have
timeouts), per task; nobody is obliged to crash or resume. `versions_settle`
assumes that Hatchet and SNS go on with what they have queued and that a task
that runs goes on: tasks have execution timeouts, and one that hits it is a
crash, which the model has. `cache` assumes that a running thread goes
on (S3 requests have timeouts); operations are bounded, so a lock that is waited
for is free for good at the end, and nothing is assumed of who gets it first. `auth0_converge` assumes that a handler that
was started ends (Lambda's timeout ends it) and that the reconciliation makes
steps, as cron starts it every night (`workflows/auth0_sync_workflow.py`). The
delivery of signals is not assumed there. No fairness is used for the others:
their properties are about what is published.

### What the repository says and the code does not do

`autodocs_pdfs` violates `DocAlwaysExact`, which is `DocExact` without its
exception. The comment in `generate` says that a resumed run starts at
`current_pdf_index`, and it does; but the loop advances `pidx` before it saves,
so the saved index is one more than the PDFs done and a task that died between
two PDFs loses the next one.

The other modules show more of this kind when their constants or properties are
varied, and the properties of the passing runs name them as exceptions:

* Two Auth0 handlers that read the same row both pass the guard "that provides
  ordering guarantees even when events arrive out of order", and the older
  profile may be committed last (`OlderOnlyByLostUpdate` is about the rest).
* A deletion event that is handled after the user came back deletes the row of
  an existing user, without the fetch "we always" make; the nightly run repairs it.
* An organization with teams that Auth0 deleted makes the transaction of the
  reconciliation fail, with every other repair in it, every night
  (`ConvergesIfDeletable` is about the rest).
* A leftover checkpoint, after a failed delete or a death between the deletes of
  chunks and checkpoint (`forget`, `crash_cleaned`), is not "overwritten on next
  run" but trusted: that run publishes nothing of the commits it names.
* Checkpoint validation "handles force push" only of the last processed commit:
  others that are gone stay in the chunks (also after `clean` and a rewrite).
* A read of the checkpoint that fails (`download`) followed by a crash loses
  commits; a merge or new branch (`branch`) between a failed run and the next
  leaves out the records of already processed commits for that branch; with a
  commit that changes no file, a failed upload followed by a crash makes a
  file-change record appear twice. `analytics_recover` includes all of these
  and shows that two quiet runs end the damage.
* Two analytics runs of one codebase share checkpoint and chunks: with no fault
  at all commits are missing. The runs have one worker.
* A push after a first connection that failed is ignored for ever; a version
  whose archive, event or worker was lost stays in connecting or generating and
  blocks later pushes; a page whose task was faster than the commit of its
  request does too.

## 4. Proofs

### TaskManagerProofs

For every graph that satisfies the assumptions of the module, and any number of
attempts:

| Theorem | Statement |
|---|---|
| `TypeCorrect` | `Spec => []TypeOK` |
| `Invariance` | `Spec => []IInv` |
| `InputsArePresent` | `Spec => []InputsPresent` |
| `ReturnIsComplete` | `Spec => []ReturnedComplete` |
| `HandedOver` | `Spec => []HandedOverOnce` |
| `ProgressIsExact` | `Spec => []ProgressExact` |
| `NothingIsStuck` | `Spec => []NeverStuck` |
| `Implementation` | `Spec => ImplementsTaskGraph` |

The assumptions: `GraphAssumption`, that the listed tasks are tasks, the
dependencies of a task are tasks, `None` is not a task; and for `NothingIsStuck`
`AcyclicAssumption`, that there are finitely many tasks and no task waits, through
others, for itself. The rest holds for any graph, finite or not.

`ReturnedComplete` is not inductive: that a returned run saved everything rests
on the queue. `IInv` adds

* `NothingYet`: before `run_tasks` is called, memory is empty;
* `DepsDone`: a task that works or has worked has all dependencies done;
* `ResultsHaveRows`: a result that a task is skipped with or is done with has
  rows, unless an abandoned coroutine deleted them. The exception is the time
  between `task.run` and `post_run_io`;
* `WriterInv`: while the run can still return, a completed listed task is saved
  or is *ahead of the `None`* in the queue (`Ahead`), there is no `None` before
  the gather ended, and a writer that closed saved every listed task.

`AheadOfAppend` and `AheadOfTail` say what putting and taking do to what is ahead
of the sentinel; one lemma per conjunct takes it through a step. `HandedOverOnce`
has an induction of its own over `ItemsOfAppend` and `ItemsOfTail`, since an item
must be seen to leave the queue exactly when it is saved. `ProgressExact` counts
work as a set, one pair of a task and a number for each unit (`WorkUnits`), so that
one more task adds as many pairs as it has units (`OneTaskMore`, over finite sets)
and no sum is needed; `Counted` adds that the completed work is finite, whatever
the graph.

`NothingIsStuck` rests on two facts. `Scheduled`: while a run goes on, its listed
tasks and the dependencies of a task that waits have a coroutine; so of the tasks
that have not ended one of least rank can run (`OneCanRun`, by the well-foundedness
of the naturals). `Closing`: the `None` stays in the queue until the open writer
takes it, which is why `run_tasks` may await the writer in its `finally` clause.

`Implementation` maps a
step of the manager to a step or stutter of `TaskGraph` with `IInv` on both ends:
completions map to `Complete`, failures to `Fail`, `Return` to `Succeed`, `Raise`
to `Abandon` (which needs `WriterInv`: a run raises only when a listed task failed
or all are complete), a crash or resume to `Restart`.

### OrganizationFilesProofs

| Theorem | Statement |
|---|---|
| `TypeCorrect`, `Invariance` | `Spec => []TypeOK`, `Spec => []IInv` |
| `ListIsExact` | `Spec => []ListExact` |
| `SummaryIsExact` | `Spec => []SummaryExact` |
| `EntriesHaveFiles` | `Spec => []EntryHasFiles` |
| `DeletedAreNotListed` | `Spec => []DeletedNotListed` |

for any sets of codebases and workers and any number of runs; the assumption used
is `FilesAssumption`. What makes the list exact is a fact about overlapping: a
worker that is not `disturbed` is alone between its first read and its last
write (`Alone`), so the copy it holds is the list itself (`Current`), and after its
write the list is that copy. `IInv` adds to these that the list has an entry for
exactly the codebases whose last update was undisturbed (`ListExact`,
`SummaryExact`), that files are there once uploaded until a deletion (`Uploaded`,
`Gone`) and what kind of work each stage belongs to (`Kinds`).

### AutoDocsProofs

| Theorem | Statement |
|---|---|
| `TypeCorrect`, `Invariance` | `Spec => []TypeOK`, `Spec => []IInv` |
| `PageIsExact` | `Spec => []DocExact` |
| `GoalIsKept` | `Spec => []GoalKept` |
| `TasksAreApart` | `Spec => []OneAtATime` |
| `PagesAreOwned` | `Spec => []PageOwned` |

for any finite sequences of nodes and PDFs and any sets of sections, requests and
tasks (`DocsAssumption`). A document exists in three places: in the memory of a
task, in the copies its threads have still to save, and in the checkpoint. The
central conjunct `ContentInv` says of each of them the same thing, that what is
in the text is what phase and index announce: in the phase of updates every node
before the index once and no node after it, in the phase of PDFs all nodes and
the PDFs before the index, and so on. Each action moves a document from one place to
another or moves text, index and phase of one place together, so the statement is
inductive; the fault of the PDF index is why it excepts documents that are
`"jumped"`. `Exclusive` and `Owned` are the inductive forms of `OneAtATime` and
`PageOwned`; `FlagsOK` bounds the history variables. The run `autodocs` has scatter
sections and so a resume of their index; the instance of `autodocs_pdfs` has
none and resumes at the topological index. The proof covers both.

### S3BackedCacheProofs

| Theorem | Statement |
|---|---|
| `TypeCorrect`, `Invariance` | `Spec => []TypeOK`, `Spec => []IInv` |
| `DownloadsAreOne` | `Spec => []OneDownload` |
| `OwnPutsAreRead` | `Spec => []ReadsOwnPut` |

for any number of containers, threads and operations, from `CacheAssumption` and
`LockAssumption` (there are enough lock objects, so that `NewLock` always finds one
nobody uses: `NewLockExists`, a pigeonhole argument over finite sets). `IInv` is
`TypeOK`, and:

* `Excluded`: the threads between acquiring and releasing one lock object are at
  most one;
* `InTable`: while the lock of a container was never dropped in use, the lock its
  threads hold or wait for is the one in the table. The two together are mutual
  exclusion;
* `Calm`, unless a put was `torn`: the object in S3, the values in memory, the
  values downloads hold and the counter of puts agree on which put is the last
  (`LastPut`, `Stored`, `Counted`, `Current`).

### VersionLifecycleProofs

| Theorem | Statement |
|---|---|
| `TypeCorrect`, `Invariance` | `Spec => []TypeOK`, `Spec => []IInv` |
| `CompletenessIsSound` | `Spec => []CompleteSound` |
| `BasesAreSound` | `Spec => []BaseSound` |
| `PaidBeforeInspected` | `Spec => []PaidFirst` |
| `OneDebit` | `Spec => []DebitedOnce` |
| `ProgressIsOwned` | `Spec => []Owned` |
| `Implementation` | `Spec => ImplementsVersionStatus` |
| `NothingRegresses` | `Spec => NoRegress`, a consequence of the diagram |

for any sets of versions, tasks, requests and runs, any faults and any bounds
(`LifecycleAssumption`). What is known of a version follows from how far its push,
its tasks, its requests and its inspections have come, and `IInv` says it per stage:

* `Pristine`: until its row is inserted nobody works, or has worked, for a
  version. A deleted row therefore does not come back under work that is still
  queued for it, on which all of the following rests;
* `Rooted`: rows belong to the asset and an accepted push has a predecessor;
* `HasNodes`: what is connected, and what is or was on its way to an inspection,
  has its nodes;
* `Paid`: a first version is past its debit wherever it is on that way
  (`PaidFirst` is the last station only);
* `Progress`: what a run has done by each of its stages is in the bucket and the
  database, unless the user is deleting the codebase;
* `Billing`: the requests for a version that did not overlap read it one after
  the other, and the second finds a status the first has set. This is the
  inductive form of `DebitedOnce`.

`Implementation` maps every step to an edge of the diagram or to a stutter
(`StepShows`; most are a change of one status, `SetMaps`). A writer that does not look
at the row must know where in the diagram the version is, and `DInv`, on top of `IInv`,
says how it knows:

* `Scanned`: the archive of a version does not change once anybody was told of it, so
  of two connection tasks for one version not one rejects what the other connects;
* `Drawn`: a version with nodes is in the one half of the diagram, one without in the
  other;
* `Worked`: who is on the way to an inspection, or in one, works for a version that was
  ordered. No step takes a version out of the ordered statuses as long as it has a row
  (`Advances`), so what an inspection sets at last is an edge from wherever others have
  taken the version meanwhile;
* `Written`: an inspection about to complete has written its documents, and one that may
  end for want of balance has a base;
* `Accepted`: a push still to be inserted was accepted on a version with nodes, and to be
  generated at once on one that was ordered; a row goes only with its codebase.

`NoRegress`, that no repeated event or task offers a version to be generated and paid
for again, is then a fact about the diagram alone. No run checks it separately.

### Auth0SyncProofs

| Theorem | Statement |
|---|---|
| `TypeCorrect`, `Invariance` | `Spec => []TypeOK`, `Spec => []IInv` |
| `DeletesAreGrounded` | `Spec => GroundedDeletes` |
| `OlderIsALostUpdate` | `Spec => OlderOnlyByLostUpdate` |
| `SerialInvariance` (assumes `Serial`) | `Spec => []Followed` |
| `SerialHandlersKeepInSync` (assumes `Serial`) | `Spec => []QuietInSync` |

for any users, organizations and handlers, and any bounds (`BoundAssumption`);
without `Serial` for handlers and runs that overlap in any way. `TypeOK` includes the foreign keys of the schema (`DbKeys`).
`Absence` is what a deletion by the reconciliation rests on: whoever the list
it holds lacks, Auth0 lacked at some time since the run began, and a list with
an error never reaches the transaction. The other conjuncts say that stamps only
grow with changes (`Stamps`), that memberships have their ends (`Members`, `Teams`),
and what a handler and the run hold at each of their steps (`Signals`, `Handlers`,
`Running`).

`Serial` is the assumption of the run `auth0_serial`, one handler or run at a time
and identifiers that are not used again; with two handlers of one user the older
read may be committed last, and a deletion handled after the user came back deletes
a user who exists. `QuietInSync` speaks only of the moments when every signal was
handled. `Followed` says what is true meanwhile. Of every row that differs from Auth0 a signal
is on its way, or is with the handler (`Repaired`). What the handler has read is still
so, or the change since has a signal of its own, and the database cannot have changed
(`Reads`, `OneAtATime`). The same holds of each list of the reconciliation, for the
members user by user as they are fetched (`Fetches`). And who is gone from Auth0 is
gone for good, so a deletion signal is true whenever it arrives (`Past`).

### AnalyticsExtractionProofs

| Theorem | Assumes | Statement |
|---|---|---|
| `TypeCorrect`, `Invariance` | | `Spec => []TypeOK`, `Spec => []TInv` |
| `ResumedInvariance` | `Resumable` | `Spec => []RInv` |
| `CheckpointsAreSound` | `Resumable` | `Spec => []CheckpointSound` |
| `PublicationsAreComplete` | `Resumable` | `Spec => []PublishedComplete` |

for any commits, branches, batches and bounds (`ExtractionAssumption`). The first
two hold for any number of runs at a time and any faults. That the numbers of
chunks stay bounded needs `Numbered`: a run has numbered at most as many chunks
of a kind as commits are done, and a commit that is done is not processed again.

`Resumable` is what a resume is made for: one run at a time, which may crash, fail
to upload a checkpoint or to process a commit, while users push commits. It is not
a convenience: with two runs at a time, the first to finish deletes the chunks of
the other, and after a rewrite or a failed cleanup a checkpoint refers to commits
or chunks that are gone; what `ExactAfterTwoCalmRuns`
says is what then remains true. Under `Resumable`, `RInv` says where the records
of a commit are at each moment of a run: in chunks the checkpoint counts (`Vouched`), in
chunks the run has numbered, then in its tables, then published (`Kept`, for each
stage), and that a repository gets nothing but new commits after it was cloned
(`Cloned`), so that a commit cannot change under a run that resumes.

### AnalyticsExactProofs

| Theorem | Assumes | Statement |
|---|---|---|
| `TwoCalmRunsPublishExactly` | `OneRun` | `Spec => []ExactAfterTwoCalmRuns` |
| `PublicationsHaveNoRecordTwice` | `Steady` | `Spec => []PublishedOnce` |

Both compare what a run publishes with what earlier runs left, so their invariants
follow the chunks from run to run.

`OneRun` is one run at a time, and nothing else: any fault, any push, merge or
rewrite. The invariant of `TwoCalmRunsPublishExactly` has two halves. `Clean` says
that a run that meets no fault ends with no chunk and no checkpoint in S3, whatever
it found when it started: by each of its stages it has listed, and deleted, every
chunk that is there (`Cleaned`, by stages). `Second` says what a run that starts
there and meets no fault does: it has no checkpoint to trust, so the chunks it
numbers are the only ones, and each of its records is in exactly one place
(`Extracts`, `Holds`).

`Steady` is a repository at rest where every commit changes files, and runs, one at
a time, that crash or fail to save a checkpoint: the instance of `analytics_once`.
A run that resumes takes its numbers from the checkpoint and leaves the chunks after
it where they are; the merge reads them all. No record appears twice because they are
overwritten by then: `n` batches have taken in `n * BatchSize` commits or all of them
(`Whole`), of both kinds alike, so every run needs as many numbers, and no chunk was
ever numbered past them (`NumbersBounded`). Chunks before the next number hold what
is done and hold it once (`Pure`); `Taken` is the two together, said of the checkpoint
by `Saved` and of the run by `Taking`. A commit without file changes breaks this, since
an empty chunk is not written and the numbers of the two kinds then drift apart, which
is why the assumption is there. `SInv` is these on top of `RInv`.

TLC has checked the invariants of this module on the instances of the runs they
belong to before they were proved.

### Only model-checked

Liveness (`RunEnds`, `GetEnds`, `Settles`, `ConvergesIfDeletable`) is beyond the
prover: it needs fairness and `ENABLED`. What it needs of safety is proved
(`NothingIsStuck`, `ProgressIsOwned`). Every invariant and every action property of
the passing runs is a theorem.

## 5. Not modelled, and the plan

Not modelled at all, because they keep no state between requests, are
transformations of data, or are adapters of external services: source access
control and the services of teams and users (single SQL statements and
transactions), authentication, MCP server, git providers, static analysis and
synthesis, embedding, LLM tools and sessions, aggregation and export of
analytics, the diff of file trees, infrastructure. They are most of the lines of
the repository; `PROJECT.json` lists each with its reason. Of the components
that are modelled, these parts are not: the webhook handlers of GitLab,
Bitbucket and Azure, whose transactions are those of GitHub; the serial mode of
`run_tasks`; dry runs and roles in the Auth0 synchronisation; the pure Python
fallback of the native extension; export and deep context documents after
`GENERATION_COMPLETE`; AutoDocs without tagging.

What would come next:

1. `VersionDiff`: `compute_diff` as operators, against the set difference over all
   small trees (recursive, so for TLC only).
2. `SourceAccess`: grants, teams and visibility against a reference relation.
3. The webhook handlers of the other providers, where their transactions differ
   from those of GitHub.

## 6. Running

    tlc -workers 2 -config MCTaskManager.cfg MCTaskManager
    tlc -workers 2 -config Versions.cfg MCVersionLifecycle
    tlc -workers 2 -config AutoDocs.cfg MCAutoDocs
    tlapm TaskManagerProofs.tla

`PROJECT.json` has the module and configuration of every run. Each takes less
than two minutes; the proofs of a module take between half a minute and ten.
