------------------------- MODULE AnalyticsExtraction -------------------------
(***************************************************************************)
(* The fault-tolerant commit extraction of the analytics pipeline          *)
(* (content_services/src/analytics: pipeline/orchestrator.py,              *)
(* pipeline/phases/extract.py, checkpoint.py, storage/chunk_storage.py,    *)
(* and the Rust loops in content_services/native/src).                     *)
(*                                                                         *)
(* A run clones the repository and writes, in batches, the records of      *)
(* every commit: one per branch that contains it, and, if it changes       *)
(* files, its file changes.  A batch is a Parquet chunk of either kind in  *)
(* S3, and after each batch a checkpoint in S3 names the commits that are  *)
(* done and the number of chunks.  A run that finds a checkpoint resumes:  *)
(* it skips those commits and numbers its chunks from that count.  At the  *)
(* end all the chunks are merged, the chunks are deleted, then the         *)
(* checkpoint is, and what was merged is published.  Chunks and            *)
(* checkpoint are keyed by the codebase only: every run of it shares them. *)
(*                                                                         *)
(* Commits are numbered so that parents come before children; otherwise    *)
(* ancestry is left out, and a branch is any set of commits.  The local    *)
(* tables of a run start empty: it finds no files of an earlier run on     *)
(* the worker's disk.                                                      *)
(***************************************************************************)
EXTENDS Naturals, FiniteSets, FiniteSetsExt

CONSTANTS Commit,     (* every commit the repository ever has              *)
          Branch,     (* every branch, in the order they are listed        *)
          Touching,   (* the commits that have file changes                *)
          Initial,    (* Initial[b]: the commits branch b has at first     *)
          BatchSize,  (* BATCH_SIZE of native/src/commit.rs                *)
          DeleteBatch,(* MAX_DELETE_BATCH_SIZE of chunk_storage.py         *)
          Worker,     (* the runs of this codebase that can be active      *)
          NoCkpt,     (* there is no checkpoint.json                       *)
          Faults,     (* the kinds of fault this instance has              *)
          MaxRuns,    (* bound: runs started                               *)
          MaxChanges  (* bound: pushes and rewrites of the repository      *)

FaultKind == {"crash",          (* a run raises, or its worker dies        *)
              "crash_cleaned",  (* ... while it deletes the chunks, or     *)
                                (* before it deletes the checkpoint        *)
              "save", "discard", "clean", "forget",  (* an S3 write that   *)
                                (* the code allows to fail: the upload of  *)
                                (* the checkpoint, the deletes of an       *)
                                (* invalid one, of the chunks, of it at    *)
                                (* the end                                 *)
              "download",       (* reading the checkpoint raises           *)
              "commit",         (* the record of one commit cannot be made *)
              "push", "branch", "rewrite"}  (* of the repository, by its   *)
                                (* users: see Push, Share and Rewrite      *)

ASSUME ExtractionAssumption ==
  /\ Commit \subseteq Nat /\ IsFiniteSet(Commit)
  /\ Touching \subseteq Commit
  /\ Branch \subseteq Nat /\ IsFiniteSet(Branch)
  /\ Initial \in [Branch -> SUBSET Commit]
  /\ \E b \in Branch : Initial[b] # {}
  /\ BatchSize \in Nat \ {0} /\ DeleteBatch \in Nat \ {0}
  /\ Faults \subseteq FaultKind
  /\ MaxRuns \in Nat /\ MaxChanges \in Nat

VARIABLES
  repo,       (* repo[b]: the commits of branch b                          *)
  ckpt,       (* checkpoint.json                                           *)
  chunks,     (* chunks[k][i]: the records of chunk i of kind k            *)
  run,        (* run[w]: the state of the run w is in                      *)
  published,  (* what the last upload was made from                        *)
  calm,       (* history: runs started since a fault, up to two            *)
  runs,       (* runs started                                              *)
  changes     (* pushes and rewrites                                       *)

vars == <<repo, ckpt, chunks, run, published, calm, runs, changes>>
-----------------------------------------------------------------------------
(* State.                                                                  *)

Kind == {"commits", "file_changes"}

(* A record of a commit, or of its file changes.                           *)
Record(k) == IF k = "commits" THEN Commit \X Branch ELSE Touching

CommitsOf(snap) == UNION {snap[b] : b \in Branch}

(* The records a run with clone snap makes of the commits S.               *)
RecordsOf(k, S, snap) ==
  IF k = "commits" THEN {r \in S \X Branch : r[1] \in snap[r[2]]}
  ELSE S \cap Touching

(* commits_topo of a clone lists branch by branch the commits not listed   *)
(* before: its prefix that ends with c, and its last element.              *)
FirstBranch(c, snap) == Min({b \in Branch : c \in snap[b]})
UpTo(c, snap) ==
  {d \in CommitsOf(snap) :
     \/ FirstBranch(d, snap) < FirstBranch(c, snap)
     \/ FirstBranch(d, snap) = FirstBranch(c, snap) /\ d <= c}
Last(snap) == CHOOSE c \in CommitsOf(snap) : UpTo(c, snap) = CommitsOf(snap)

NoCommits == [b \in Branch |-> {}]
NoChunks == [k \in Kind |-> [i \in {} |-> {}]]
NoCounts == [k \in Kind |-> 0]
NoTables == [k \in Kind |-> [r \in Record(k) |-> 0]]

Idle == [pc |-> "idle", snap |-> NoCommits, todo |-> {}, done |-> {},
         count |-> NoCounts, cached |-> {}, batch |-> {}, failed |-> {},
         table |-> NoTables, keys |-> {}]

NotPublished == [snap |-> NoCommits, failed |-> {}, table |-> NoTables, calm |-> 0]

Stages == {"idle", "load", "tree", "commits", "file_changes", "save", "merge",
           "clean", "delete", "forget", "publish"}

Init ==
  /\ repo = Initial
  /\ ckpt = NoCkpt
  /\ chunks = NoChunks
  /\ run = [w \in Worker |-> Idle]
  /\ published = NotPublished
  /\ calm = 0
  /\ runs = 0
  /\ changes = 0

(* Worker w is at stage p, and goes on as r.                               *)
At(w, p) == run[w].pc = p
GoOn(w, r) == run' = [run EXCEPT ![w] = r]

(* What the bookkeeping says of a step with and without a fault.           *)
Faulty(kind) == kind \in Faults /\ calm' = 0
NoFault == calm' = calm
-----------------------------------------------------------------------------
(* The repository, and a run up to the commits it has to process.          *)

(* External: users push a commit that is new to a branch.                  *)
Push ==
  /\ "push" \in Faults /\ changes < MaxChanges
  /\ \E b \in Branch, c \in Commit \ CommitsOf(repo) :
       repo' = [repo EXCEPT ![b] = @ \cup {c}]
  /\ changes' = changes + 1
  /\ UNCHANGED <<ckpt, chunks, run, published, calm, runs>>

(* External: a merge or a new branch gives a branch a commit of another.   *)
Share ==
  /\ "branch" \in Faults /\ changes < MaxChanges
  /\ \E b \in Branch, c \in CommitsOf(repo) :
       c \notin repo[b] /\ repo' = [repo EXCEPT ![b] = @ \cup {c}]
  /\ changes' = changes + 1
  /\ UNCHANGED <<ckpt, chunks, run, published, calm, runs>>

(* External: a branch is deleted or loses commits to a force push.         *)
Rewrite ==
  /\ "rewrite" \in Faults /\ changes < MaxChanges
  /\ \E b \in Branch : \E S \in (SUBSET repo[b]) \ {repo[b]} :
       repo' = [repo EXCEPT ![b] = S] /\ CommitsOf(repo') # {}
  /\ changes' = changes + 1
  /\ UNCHANGED <<ckpt, chunks, run, published, calm, runs>>

(* _phase_clone.  since_sha is None in every run: metadata.json takes it   *)
(* from extract_result.commits, which is empty when chunks are written.    *)
Start(w) ==
  /\ At(w, "idle") /\ runs < MaxRuns
  /\ GoOn(w, [Idle EXCEPT !.pc = "load", !.snap = repo])
  /\ runs' = runs + 1
  /\ calm' = IF calm < 2 THEN calm + 1 ELSE calm
  /\ UNCHANGED <<repo, ckpt, chunks, published, changes>>

(* Continue with no checkpoint: every commit, and chunks from index 0.     *)
Fresh(w) == GoOn(w, [run[w] EXCEPT !.pc = "tree",
                                  !.todo = CommitsOf(run[w].snap)])

(* _get_extraction_checkpoint finds none, or cannot read it.               *)
LoadNone(w) ==
  /\ At(w, "load")
  /\ \/ ckpt = NoCkpt /\ NoFault
     \/ ckpt # NoCkpt /\ Faulty("download")
  /\ Fresh(w)
  /\ UNCHANGED <<repo, ckpt, chunks, published, runs, changes>>

(* validate_checkpoint: only last_processed_sha is looked up.              *)
Valid(w) == ckpt # NoCkpt /\ ckpt.last \in CommitsOf(run[w].snap)

(* An invalid checkpoint is deleted.  The chunks it counted stay.          *)
LoadInvalid(w) ==
  /\ At(w, "load")
  /\ ckpt # NoCkpt /\ ~Valid(w)
  /\ \/ ckpt' = NoCkpt /\ NoFault
     \/ UNCHANGED ckpt /\ Faulty("discard")
  /\ Fresh(w)
  /\ UNCHANGED <<repo, chunks, published, runs, changes>>

(* Mutant of LoadValid: the chunk counts are not passed on.                *)
LoadAtZero(w) ==
  /\ At(w, "load") /\ Valid(w)
  /\ GoOn(w, [run[w] EXCEPT !.pc = "tree",
                            !.todo = CommitsOf(run[w].snap) \ ckpt.done,
                            !.done = ckpt.done, !.cached = ckpt.cached])
  /\ NoFault
  /\ UNCHANGED <<repo, ckpt, chunks, published, runs, changes>>

(* Mutant of LoadValid: skip_shas is not passed on.                        *)
LoadSkippingNone(w) ==
  /\ At(w, "load") /\ Valid(w)
  /\ GoOn(w, [run[w] EXCEPT !.pc = "tree",
                            !.todo = CommitsOf(run[w].snap),
                            !.done = ckpt.done, !.count = ckpt.count,
                            !.cached = ckpt.cached])
  /\ NoFault
  /\ UNCHANGED <<repo, ckpt, chunks, published, runs, changes>>

(* Resume: skip_shas, the initial chunk counts and the tree sizes.         *)
LoadValid(w) ==
  /\ At(w, "load") /\ Valid(w)
  /\ GoOn(w, [run[w] EXCEPT !.pc = "tree",
                            !.todo = CommitsOf(run[w].snap) \ ckpt.done,
                            !.done = ckpt.done, !.count = ckpt.count,
                            !.cached = ckpt.cached])
  /\ NoFault
  /\ UNCHANGED <<repo, ckpt, chunks, published, runs, changes>>

(* The tree-size loop goes over the commits in order, past those the       *)
(* checkpoint had, and at a commit c for which thirty seconds have passed  *)
(* uploads a checkpoint that has no processed commits and no chunk counts. *)
(* An upload that fails changes nothing, as one that was not due.          *)
TreeCheckpoint(w) ==
  /\ At(w, "tree")
  /\ \E c \in CommitsOf(run[w].snap) \ run[w].cached :
       LET sized == run[w].cached \cup UpTo(c, run[w].snap)
       IN  /\ ckpt' = [last |-> c, done |-> {}, count |-> NoCounts, cached |-> sized]
           /\ GoOn(w, [run[w] EXCEPT !.cached = sized])
  /\ NoFault
  /\ UNCHANGED <<repo, chunks, published, runs, changes>>

TreeDone(w) ==
  /\ At(w, "tree")
  /\ GoOn(w, [run[w] EXCEPT !.pc = "commits",
                            !.cached = @ \cup CommitsOf(run[w].snap)])
  /\ NoFault
  /\ UNCHANGED <<repo, ckpt, chunks, published, runs, changes>>
-----------------------------------------------------------------------------
(* The commits, batch by batch.                                            *)

(* A batch in any order (list(all_sha_set)).  A commit that cannot be      *)
(* processed is in no record and not in successful_shas.                   *)
Batches(w) == {B \in SUBSET run[w].todo :
                 B # {} /\ (B = run[w].todo \/ Cardinality(B) = BatchSize)
                        /\ Cardinality(B) <= BatchSize}

AfterWrite(w, k, rows) ==
  [run[w].count EXCEPT ![k] = IF rows = {} THEN @ ELSE @ + 1]

(* Mutant of WithChunk: an empty batch writes a chunk too.                 *)
WithAnyChunk(w, k, rows) ==
  [chunks EXCEPT ![k] =
     [i \in DOMAIN chunks[k] \cup {run[w].count[k]} |->
        IF i = run[w].count[k] THEN rows ELSE chunks[k][i]]]

(* chunks with the records rows written at the index the run has reached;  *)
(* an empty batch writes no chunk.                                         *)
WithChunk(w, k, rows) ==
  IF rows = {} THEN chunks
  ELSE [chunks EXCEPT ![k] =
          [i \in DOMAIN chunks[k] \cup {run[w].count[k]} |->
             IF i = run[w].count[k] THEN rows ELSE chunks[k][i]]]

(* The loop of process_commits_parallel and, of chunk_callback, the write  *)
(* of the commits.                                                         *)
WriteCommits(w) ==
  /\ At(w, "commits")
  /\ \E B \in Batches(w) : \E ok \in SUBSET B :
       /\ IF ok = B THEN NoFault ELSE Faulty("commit")
       /\ chunks' = WithChunk(w, "commits", RecordsOf("commits", ok, run[w].snap))
       /\ GoOn(w, [run[w] EXCEPT !.pc = "file_changes",
                                 !.todo = @ \ B,
                                 !.batch = ok,
                                 !.failed = @ \cup (B \ ok),
                                 !.count = AfterWrite(w, "commits", ok)])
  /\ UNCHANGED <<repo, ckpt, published, runs, changes>>

(* chunk_callback goes on to the file changes and the processed commits.   *)
WriteFileChanges(w) ==
  /\ At(w, "file_changes")
  /\ LET rows == RecordsOf("file_changes", run[w].batch, run[w].snap)
     IN  /\ chunks' = WithChunk(w, "file_changes", rows)
         /\ GoOn(w, [run[w] EXCEPT !.pc = "save",
                                   !.done = @ \cup run[w].batch,
                                   !.count = AfterWrite(w, "file_changes", rows)])
  /\ NoFault
  /\ UNCHANGED <<repo, ckpt, published, runs, changes>>

(* Mutant of Processed: every commit of a batch counts as processed, as    *)
(* when the Rust loop returns the SHAs it attempted.                       *)
ProcessedAttempted(w) == run[w].done \cup run[w].failed

(* processed_commit_shas of a checkpoint.                                  *)
Processed(w) == run[w].done

(* commit_checkpoint_callback after a batch.                               *)
SaveCheckpoint(w) ==
  /\ At(w, "save")
  /\ \/ /\ ckpt' = [last |-> Last(run[w].snap), done |-> Processed(w),
                    count |-> run[w].count, cached |-> run[w].cached]
        /\ NoFault
     \/ UNCHANGED ckpt /\ Faulty("save")
  /\ GoOn(w, [run[w] EXCEPT !.pc = "commits", !.batch = {}])
  /\ UNCHANGED <<repo, chunks, published, runs, changes>>
-----------------------------------------------------------------------------
(* The end of a run.                                                       *)

(* Every chunk there is is downloaded; the merger drops no duplicate.      *)
Merged(k) ==
  [r \in Record(k) |-> Quantify(DOMAIN chunks[k], LAMBDA i : r \in chunks[k][i])]

Merge(w) ==
  /\ At(w, "commits") /\ run[w].todo = {}
  /\ GoOn(w, [run[w] EXCEPT !.pc = "merge", !.table["commits"] = Merged("commits")])
  /\ NoFault
  /\ UNCHANGED <<repo, ckpt, chunks, published, runs, changes>>

MergeFileChanges(w) ==
  /\ At(w, "merge")
  /\ GoOn(w, [run[w] EXCEPT !.pc = "clean",
                            !.table["file_changes"] = Merged("file_changes")])
  /\ NoFault
  /\ UNCHANGED <<repo, ckpt, chunks, published, runs, changes>>

(* Mutant of ChunkKeys: the prefix lists one of the two kinds of chunk.    *)
CommitChunkKeys == {<<"commits", i>> : i \in DOMAIN chunks["commits"]}

(* What S3 lists under the prefix of the chunks.                           *)
ChunkKeys == UNION {{<<k, i>> : i \in DOMAIN chunks[k]} : k \in Kind}

WithoutChunks(keys) ==
  [k \in Kind |-> Restrict(chunks[k], {i \in DOMAIN chunks[k] : <<k, i>> \notin keys})]

(* delete_all_chunks lists the chunks, and deletes them batch by batch; if *)
(* a request fails the run goes on with what is left.                      *)
ListChunks(w) ==
  /\ At(w, "clean")
  /\ \/ /\ GoOn(w, [run[w] EXCEPT !.keys = ChunkKeys,
                       !.pc = IF ChunkKeys = {} THEN "forget" ELSE "delete"])
        /\ NoFault
     \/ GoOn(w, [run[w] EXCEPT !.pc = "forget"]) /\ Faulty("clean")
  /\ UNCHANGED <<repo, ckpt, chunks, published, runs, changes>>

DeleteChunks(w) ==
  /\ At(w, "delete")
  /\ \/ /\ \E B \in SUBSET run[w].keys :
             /\ Cardinality(B) <= DeleteBatch
             /\ B = run[w].keys \/ Cardinality(B) = DeleteBatch
             /\ chunks' = WithoutChunks(B)
             /\ GoOn(w, [run[w] EXCEPT !.keys = @ \ B,
                           !.pc = IF B = run[w].keys THEN "forget" ELSE "delete"])
        /\ NoFault
     \/ /\ GoOn(w, [run[w] EXCEPT !.pc = "forget", !.keys = {}])
        /\ UNCHANGED chunks
        /\ Faulty("clean")
  /\ UNCHANGED <<repo, ckpt, published, runs, changes>>

(* delete_checkpoint after the merge.                                      *)
ForgetCheckpoint(w) ==
  /\ At(w, "forget")
  /\ \/ ckpt' = NoCkpt /\ NoFault
     \/ UNCHANGED ckpt /\ Faulty("forget")
  /\ GoOn(w, [run[w] EXCEPT !.pc = "publish"])
  /\ UNCHANGED <<repo, chunks, published, runs, changes>>

(* The phases after the extraction: aggregate, export, upload.             *)
Publish(w) ==
  /\ At(w, "publish")
  /\ published' = [snap |-> run[w].snap, failed |-> run[w].failed,
                   table |-> run[w].table, calm |-> calm]
  /\ GoOn(w, Idle)
  /\ NoFault
  /\ UNCHANGED <<repo, ckpt, chunks, runs, changes>>

(* A run ends early: an exception (run returns success=False), the         *)
(* execution timeout, or the death of the worker.  S3 keeps what it has.   *)
Fail(w) ==
  /\ ~At(w, "idle")
  /\ Faulty(IF At(w, "delete") \/ At(w, "forget") THEN "crash_cleaned" ELSE "crash")
  /\ GoOn(w, Idle)
  /\ UNCHANGED <<repo, ckpt, chunks, published, runs, changes>>
-----------------------------------------------------------------------------
RunStep(w) ==
  \/ Start(w) \/ LoadNone(w) \/ LoadInvalid(w) \/ LoadValid(w)
  \/ TreeCheckpoint(w) \/ TreeDone(w)
  \/ WriteCommits(w) \/ WriteFileChanges(w) \/ SaveCheckpoint(w)
  \/ Merge(w) \/ MergeFileChanges(w) \/ ListChunks(w) \/ DeleteChunks(w)
  \/ ForgetCheckpoint(w) \/ Publish(w) \/ Fail(w)

Next == Push \/ Share \/ Rewrite \/ \E w \in Worker : RunStep(w)

Spec == Init /\ [][Next]_vars
-----------------------------------------------------------------------------
(* Properties.                                                             *)

Counts == [Kind -> 0 .. Cardinality(Commit)]
Clones == [Branch -> SUBSET Commit]
CheckpointState == [last : Commit, done : SUBSET Commit, count : Counts,
                    cached : SUBSET Commit]

IsTables(t) == \A k \in Kind : t[k] \in [Record(k) -> Nat]

IsRun(r) ==
  /\ r.pc \in Stages /\ r.snap \in Clones
  /\ r.todo \cup r.done \cup r.cached \cup r.batch \cup r.failed \subseteq Commit
  /\ r.count \in Counts
  /\ IsTables(r.table)
  /\ r.keys \subseteq Kind \X (0 .. Cardinality(Commit))

(* The types of the variables.  A run numbers at most one chunk per commit,*)
(* a bound that rests on how runs resume; an empty batch makes no chunk.   *)
TypeOK ==
  /\ repo \in Clones /\ CommitsOf(repo) # {}
  /\ ckpt \in CheckpointState \cup {NoCkpt}
  /\ \A k \in Kind :
       /\ DOMAIN chunks[k] \subseteq 0 .. Cardinality(Commit)
       /\ \A i \in DOMAIN chunks[k] : chunks[k][i] \in (SUBSET Record(k)) \ {{}}
  /\ \A w \in Worker : IsRun(run[w])
  /\ published.snap \in Clones /\ published.failed \subseteq Commit
  /\ IsTables(published.table) /\ published.calm \in 0 .. 2
  /\ calm \in 0 .. 2 /\ runs \in 0 .. MaxRuns /\ changes \in 0 .. MaxChanges

(* What a run publishes has every record of every commit of its clone but  *)
(* those it could not process itself: a resumed run misses nothing that it *)
(* skipped.                                                                *)
PublishedComplete ==
  \A k \in Kind :
    \A r \in RecordsOf(k, CommitsOf(published.snap) \ published.failed, published.snap) :
      published.table[k][r] >= 1

(* What a run publishes has no record twice.                               *)
PublishedOnce ==
  \A k \in Kind : \A r \in Record(k) : published.table[k][r] <= 1

(* A checkpoint vouches only for what the chunks it counts do hold: each   *)
(* commit it tells a run to skip has its records in a chunk the run will   *)
(* not overwrite, at any time but between the deletes of the chunks and of *)
(* the checkpoint.                                                         *)
CheckpointSound ==
  (ckpt # NoCkpt /\ \A w \in Worker : ~At(w, "delete") /\ ~At(w, "forget")) =>
    \A k \in Kind : \A c \in ckpt.done :
      (k = "file_changes" => c \in Touching) =>
        \E i \in DOMAIN chunks[k] : i < ckpt.count[k]
          /\ \E r \in chunks[k][i] : c = IF k = "commits" THEN r[1] ELSE r

(* Whatever faults went before, the second of two runs in succession that  *)
(* meet none publishes each record of its clone once and no other: what a  *)
(* fault leaves behind in S3 costs one publication at most.                *)
ExactAfterTwoCalmRuns ==
  published.calm = 2 =>
    \A k \in Kind : \A r \in Record(k) :
      published.table[k][r] =
        IF r \in RecordsOf(k, CommitsOf(published.snap), published.snap) THEN 1 ELSE 0
==============================================================================
