------------------------ MODULE AnalyticsExactProofs ------------------------
(***************************************************************************)
(* When a publication of AnalyticsExtraction has no record twice, for one  *)
(* run at a time: with crashes and lost checkpoints on a repository at     *)
(* rest whose commits all change files, and, whatever the faults, after    *)
(* two runs that meet none.                                                *)
(***************************************************************************)
EXTENDS AnalyticsExtractionProofs

OneRun == \A v, w \in Worker : v = w

(* The chunks of kind k before index n.                                    *)
Before(k, n) == {i \in DOMAIN chunks[k] : i < n}

(* They hold records of the commits S only, and none twice.                *)
Pure(k, S, n, snap) ==
  \A i \in Before(k, n) :
    /\ chunks[k][i] \subseteq RecordsOf(k, S, snap)
    /\ \A j \in Before(k, n) : i # j => chunks[k][i] \cap chunks[k][j] = {}

AtMostOnce(t, k) == \A r \in Record(k) : t[k][r] <= 1
------------------------------------------------------------------------------
(* A repository at rest.  Batches are full but for the last, and every     *)
(* batch makes a chunk of each kind, so a run that starts again from a     *)
(* checkpoint numbers its chunks up to where any run before it got, and    *)
(* what a crash left behind is overwritten.                                *)
Steady ==
  /\ OneRun
  /\ Faults \subseteq {"crash", "save"}
  /\ CommitsOf(Initial) \subseteq Touching

AllCommits == CommitsOf(Initial)

(* n batches have taken in the commits S.                                  *)
Whole(S, n) ==
  \/ Cardinality(S) = n * BatchSize
  \/ S = AllCommits /\ Cardinality(AllCommits) <= n * BatchSize

(* T can be the batch after that.                                          *)
IsBatch(T, S) ==
  /\ T \subseteq AllCommits \ S /\ T # {}
  /\ Cardinality(T) <= BatchSize
  /\ T = AllCommits \ S \/ Cardinality(T) = BatchSize

Taken(k, S, n) == S \subseteq AllCommits /\ Whole(S, n) /\ Pure(k, S, n, Initial)

(* No chunk is numbered past the last batch of a run.                      *)
NumbersBounded ==
  \A k \in Kind : \A i \in DOMAIN chunks[k] : i * BatchSize < Cardinality(AllCommits)

Saved == ckpt # NoCkpt /\ Undeleted => \A k \in Kind : Taken(k, ckpt.done, ckpt.count[k])

Taking(r) ==
  /\ r.pc # "idle" => r.snap = Initial
  /\ r.pc \in {"tree", "commits", "save", "merge"} =>
       r.todo = AllCommits \ r.done /\ \A k \in Kind : Taken(k, r.done, r.count[k])
  /\ r.pc = "file_changes" =>
       /\ IsBatch(r.batch, r.done) /\ r.todo = AllCommits \ (r.done \cup r.batch)
       /\ Taken("commits", r.done \cup r.batch, r.count["commits"])
       /\ Taken("file_changes", r.done, r.count["file_changes"])
  /\ r.pc = "merge" => r.todo = {} /\ AtMostOnce(r.table, "commits")
  /\ r.pc \in Extracted => \A k \in Kind : AtMostOnce(r.table, k)

Takings == \A w \in Worker : Taking(run[w])

SInv == repo = Initial /\ NumbersBounded /\ Saved /\ Takings /\ PublishedOnce
------------------------------------------------------------------------------
(* Runs that meet no fault.                                                *)

Exact(t, k, snap) ==
  \A r \in Record(k) :
    t[k][r] = IF r \in RecordsOf(k, CommitsOf(snap), snap) THEN 1 ELSE 0

(* The chunks are those before n, and hold what S has.                     *)
Holds(k, S, n, snap) ==
  /\ Pure(k, S, n, snap)
  /\ \A i \in DOMAIN chunks[k] : i < n
  /\ \A x \in RecordsOf(k, S, snap) : \E i \in DOMAIN chunks[k] : x \in chunks[k][i]

NoChunk == \A k \in Kind : DOMAIN chunks[k] = {}

(* A run that has met no fault leaves nothing in S3.                       *)
Cleaned(r) ==
  /\ r.pc = "idle" => NoChunk /\ ckpt = NoCkpt
  /\ r.pc = "delete" => ChunkKeys \subseteq r.keys
  /\ r.pc = "forget" => NoChunk
  /\ r.pc = "publish" => NoChunk /\ ckpt = NoCkpt

(* One that found nothing there extracts every commit once.                *)
Extracts(r) ==
  /\ r.pc = "load" => NoChunk /\ ckpt = NoCkpt
  /\ r.pc \in {"tree", "commits", "save", "merge"} =>
       /\ r.done \subseteq CommitsOf(r.snap) /\ r.todo = CommitsOf(r.snap) \ r.done
       /\ \A k \in Kind : Holds(k, r.done, r.count[k], r.snap)
  /\ r.pc = "file_changes" =>
       /\ r.batch \cap r.done = {} /\ r.done \cup r.batch \subseteq CommitsOf(r.snap)
       /\ r.todo = CommitsOf(r.snap) \ (r.done \cup r.batch)
       /\ Holds("commits", r.done \cup r.batch, r.count["commits"], r.snap)
       /\ Holds("file_changes", r.done, r.count["file_changes"], r.snap)
  /\ r.pc = "merge" => r.todo = {} /\ Exact(r.table, "commits", r.snap)
  /\ r.pc \in Extracted => \A k \in Kind : Exact(r.table, k, r.snap)

Clean == \A w \in Worker : calm >= 1 => Cleaned(run[w])
Second == \A w \in Worker : calm = 2 => Extracts(run[w])
------------------------------------------------------------------------------
(* Chunks and what is in them.                                             *)

LEMMA RecordsTyped ==
  ASSUME NEW k \in Kind, NEW S \in SUBSET Commit, NEW snap
  PROVE  RecordsOf(k, S, snap) \in SUBSET Record(k)
BY ExtractionAssumption DEF RecordsOf, Record

LEMMA RecordsOfUnion ==
  ASSUME NEW k \in Kind, NEW S, NEW T, NEW snap
  PROVE  /\ RecordsOf(k, S \cup T, snap) = RecordsOf(k, S, snap) \cup RecordsOf(k, T, snap)
         /\ S \cap T = {} => RecordsOf(k, S, snap) \cap RecordsOf(k, T, snap) = {}
BY DEF RecordsOf

LEMMA ChunksNumbered ==
  ASSUME Chunks, NEW k \in Kind
  PROVE  /\ DOMAIN chunks[k] \subseteq Nat
         /\ IsFiniteSet(DOMAIN chunks[k])
<1>1. 0 \in Int /\ Limit \in Int
  BY Sizes
<1>2. IsFiniteSet(0 .. Limit) /\ 0 .. Limit \subseteq Nat
  BY <1>1, FS_Interval
<1> QED
  BY <1>2, FS_Subset DEF Chunks

(* A write changes no chunk before its index.                              *)
LEMMA PureBefore ==
  ASSUME Chunks, Runs, NEW w \in Worker, NEW k \in Kind, NEW rows \in SUBSET Record(k),
         chunks' = WithChunk(w, k, rows)
  PROVE  \A j \in Kind : \A S, n, snap :
           n \in Nat /\ n <= run[w].count[j] /\ Pure(j, S, n, snap) => Pure(j, S, n, snap)'
<1> SUFFICES ASSUME NEW j \in Kind, NEW S, NEW n \in Nat, NEW snap,
                    n <= run[w].count[j], Pure(j, S, n, snap)
             PROVE  Pure(j, S, n, snap)'
  OBVIOUS
<1>1. run[w].count[j] \in Nat /\ DOMAIN chunks[j] \subseteq Nat
      /\ DOMAIN chunks'[j] \subseteq Nat \cup {run[w].count[j]}
  <2>1. run[w].count[j] \in Nat
    BY RunTyped
  <2>2. DOMAIN chunks[j] \subseteq Nat
    BY ChunksNumbered
  <2>3. DOMAIN chunks'[j] \subseteq DOMAIN chunks[j] \cup {run[w].count[j]}
    BY ChunkWritten
  <2> QED
    BY <2>1, <2>2, <2>3
<1>2. ASSUME NEW i \in DOMAIN chunks'[j], i < n
      PROVE  i \in DOMAIN chunks[j] /\ chunks'[j][i] = chunks[j][i]
  <2>1. i # run[w].count[j]
    BY <1>1, <1>2
  <2>2. i \in DOMAIN chunks[j]
    BY <2>1, ChunkWritten
  <2> QED
    BY <2>1, <2>2, ChunkWritten
<1>3. Before(j, n)' \subseteq Before(j, n)
      /\ \A i \in Before(j, n)' : chunks'[j][i] = chunks[j][i]
  BY <1>2 DEF Before
<1> QED
  BY <1>3 DEF Pure

(* The records of other commits keep them apart.                           *)
LEMMA PureAfterWrite ==
  ASSUME Chunks, Runs, NEW w \in Worker, NEW k \in Kind, NEW snap,
         NEW S, NEW T \in SUBSET Commit, S \cap T = {},
         Pure(k, S, run[w].count[k], snap),
         chunks' = WithChunk(w, k, RecordsOf(k, T, snap))
  PROVE  \A n : n = (IF RecordsOf(k, T, snap) = {} THEN run[w].count[k]
                     ELSE run[w].count[k] + 1)
           => Pure(k, S \cup T, n, snap)'
<1> DEFINE rows == RecordsOf(k, T, snap)
           m == run[w].count[k]
           R(X) == RecordsOf(k, X, snap)
<1>1. m \in Nat /\ DOMAIN chunks[k] \subseteq Nat /\ rows \in SUBSET Record(k)
  BY RunTyped, ChunksNumbered, RecordsTyped
<1>2. R(S \cup T) = R(S) \cup rows /\ R(S) \cap rows = {}
  BY DEF RecordsOf
<1>3. \A i \in DOMAIN chunks[k] : i < m =>
        /\ chunks[k][i] \subseteq R(S)
        /\ \A j \in DOMAIN chunks[k] : j < m /\ i # j => chunks[k][i] \cap chunks[k][j] = {}
  BY DEF Pure, Before
<1>4. /\ DOMAIN chunks'[k] \subseteq DOMAIN chunks[k] \cup {m}
      /\ \A i \in DOMAIN chunks[k] : i # m => chunks'[k][i] = chunks[k][i]
      /\ rows # {} => chunks'[k][m] = rows
  BY <1>1, ChunkWritten
<1>5. rows = {} => chunks' = chunks
  BY DEF WithChunk
<1> SUFFICES ASSUME NEW n, n = IF rows = {} THEN m ELSE m + 1
             PROVE  Pure(k, S \cup T, n, snap)'
  OBVIOUS
<1> SUFFICES ASSUME NEW i \in DOMAIN chunks'[k], i < n
             PROVE  /\ chunks'[k][i] \subseteq R(S \cup T)
                    /\ \A j \in DOMAIN chunks'[k] : j < n /\ i # j =>
                         chunks'[k][i] \cap chunks'[k][j] = {}
  BY DEF Pure, Before
<1> HIDE DEF rows, m, R
<1>6. CASE rows = {}
  BY <1>1, <1>2, <1>3, <1>5, <1>6
<1>7. CASE rows # {}
  <2>1. n = m + 1
    BY <1>7
  <2>2. ASSUME NEW j \in DOMAIN chunks'[k], j < n
        PROVE  \/ j \in DOMAIN chunks[k] /\ j < m /\ chunks'[k][j] = chunks[k][j]
               \/ j = m /\ chunks'[k][j] = rows
    <3>1. j = m \/ j \in DOMAIN chunks[k]
      BY <1>4
    <3>2. j # m => j < m
      BY <1>1, <2>1, <2>2, <3>1
    <3> QED
      BY <1>4, <1>7, <3>1, <3>2
  <2>3. \/ i \in DOMAIN chunks[k] /\ i < m /\ chunks'[k][i] = chunks[k][i]
        \/ i = m /\ chunks'[k][i] = rows
    BY <2>2
  <2>4. chunks'[k][i] \subseteq R(S \cup T)
    BY <1>2, <1>3, <2>3
  <2>5. ASSUME NEW j \in DOMAIN chunks'[k], j < n, i # j
        PROVE  chunks'[k][i] \cap chunks'[k][j] = {}
    <3>1. \/ j \in DOMAIN chunks[k] /\ j < m /\ chunks'[k][j] = chunks[k][j]
          \/ j = m /\ chunks'[k][j] = rows
      BY <2>2, <2>5
    <3> QED
      BY <1>2, <1>3, <2>3, <2>5, <3>1
  <2> QED
    BY <2>4, <2>5
<1> QED
  BY <1>6, <1>7

(* Chunks that are pure up to the last are merged with no record twice.    *)
LEMMA MergedOnce ==
  ASSUME Chunks, NEW k \in Kind, NEW S, NEW n, NEW snap, Pure(k, S, n, snap),
         \A i \in DOMAIN chunks[k] : i < n
  PROVE  \A r \in Record(k) :
           Merged(k)[r] = IF \E i \in DOMAIN chunks[k] : r \in chunks[k][i] THEN 1 ELSE 0
<1> SUFFICES ASSUME NEW r \in Record(k)
             PROVE  Merged(k)[r] = IF \E i \in DOMAIN chunks[k] : r \in chunks[k][i]
                                   THEN 1 ELSE 0
  OBVIOUS
<1> DEFINE I == {i \in DOMAIN chunks[k] : r \in chunks[k][i]}
<1>1. Merged(k)[r] = Cardinality(I)
  BY DEF Merged, Quantify
<1>2. \A i, j \in I : i = j
  BY DEF Pure, Before
<1>3. CASE I = {}
  BY <1>1, <1>3, FS_EmptySet
<1>4. CASE I # {}
  <2>1. PICK i \in I : TRUE
    BY <1>4
  <2>2. I = {i}
    BY <1>2, <2>1
  <2>3. Cardinality(I) = 1
    <3> HIDE DEF I
    <3> QED
      BY <2>2, FS_Singleton
  <2> QED
    BY <1>1, <2>1, <2>3
<1> QED
  BY <1>3, <1>4

LEMMA NoChunkHolds ==
  ASSUME NoChunk, NEW k \in Kind, NEW n, NEW snap
  PROVE  Holds(k, {}, n, snap)
BY DEF NoChunk, Holds, Pure, Before, RecordsOf

LEMMA HoldsStay ==
  ASSUME UNCHANGED chunks
  PROVE  \A k, S, n, snap : Holds(k, S, n, snap)' <=> Holds(k, S, n, snap)
BY DEF Holds, Pure, Before

(* A write adds what it writes to what chunks hold.                        *)
LEMMA HoldsAfterWrite ==
  ASSUME Chunks, Runs, NEW w \in Worker, NEW k \in Kind, NEW snap,
         NEW S, NEW T \in SUBSET Commit, S \cap T = {},
         Holds(k, S, run[w].count[k], snap),
         chunks' = WithChunk(w, k, RecordsOf(k, T, snap))
  PROVE  /\ \A n : n = (IF RecordsOf(k, T, snap) = {} THEN run[w].count[k]
                        ELSE run[w].count[k] + 1)
              => Holds(k, S \cup T, n, snap)'
         /\ \A j \in Kind \ {k} : \A X, n, s : Holds(j, X, n, s) => Holds(j, X, n, s)'
<1> DEFINE rows == RecordsOf(k, T, snap)
           m == run[w].count[k]
           R(X) == RecordsOf(k, X, snap)
<1>1. m \in Nat /\ DOMAIN chunks[k] \subseteq Nat /\ rows \in SUBSET Record(k)
  BY RunTyped, ChunksNumbered, RecordsTyped
<1>2. R(S \cup T) = R(S) \cup rows
  BY DEF RecordsOf
<1>3. /\ DOMAIN chunks'[k] \subseteq DOMAIN chunks[k] \cup {m}
      /\ DOMAIN chunks[k] \subseteq DOMAIN chunks'[k]
      /\ \A i \in DOMAIN chunks[k] : i # m => chunks'[k][i] = chunks[k][i]
      /\ rows # {} => m \in DOMAIN chunks'[k] /\ chunks'[k][m] = rows
      /\ \A j \in Kind \ {k} : chunks'[j] = chunks[j]
  BY <1>1, ChunkWritten
<1>4. rows = {} => chunks' = chunks
  BY DEF WithChunk
<1>5. /\ \A i \in DOMAIN chunks[k] : i < m
      /\ \A x \in R(S) : \E i \in DOMAIN chunks[k] : x \in chunks[k][i]
  BY DEF Holds
<1>6. ASSUME NEW n, n = IF rows = {} THEN m ELSE m + 1
      PROVE  Holds(k, S \cup T, n, snap)'
  <2>1. Pure(k, S \cup T, n, snap)'
    BY <1>6, PureAfterWrite DEF Holds
  <2> HIDE DEF rows, m, R
  <2>2. \A i \in DOMAIN chunks'[k] : i < n
    BY <1>1, <1>3, <1>4, <1>5, <1>6
  <2>3. ASSUME NEW x \in R(S \cup T)
        PROVE  \E i \in DOMAIN chunks'[k] : x \in chunks'[k][i]
    <3>1. CASE x \in R(S)
      <4>1. PICK i \in DOMAIN chunks[k] : x \in chunks[k][i]
        BY <1>5, <3>1
      <4>2. i # m
        BY <1>1, <1>5
      <4> QED
        BY <1>3, <4>1, <4>2
    <3>2. CASE x \in rows
      BY <1>3, <3>2
    <3> QED
      BY <1>2, <3>1, <3>2
  <2> QED
    BY <2>1, <2>2, <2>3 DEF Holds, R
<1>7. ASSUME NEW j \in Kind \ {k}, NEW X, NEW n, NEW s, Holds(j, X, n, s)
      PROVE  Holds(j, X, n, s)'
  <2>1. chunks'[j] = chunks[j]
    BY <1>3
  <2> QED
    BY <1>7, <2>1 DEF Holds, Pure, Before
<1> QED
  BY <1>6, <1>7

(* A merge of chunks that hold all commits makes an exact table.           *)
LEMMA MergedExact ==
  ASSUME Chunks, NEW k \in Kind, NEW S, NEW n, NEW snap, Holds(k, S, n, snap)
  PROVE  \A r \in Record(k) :
           Merged(k)[r] = IF r \in RecordsOf(k, S, snap) THEN 1 ELSE 0
<1>1. \A r \in Record(k) :
        Merged(k)[r] = IF \E i \in DOMAIN chunks[k] : r \in chunks[k][i] THEN 1 ELSE 0
  <2> HIDE DEF Chunks
  <2> QED
    BY MergedOnce DEF Holds
<1>2. \A r : r \in RecordsOf(k, S, snap) <=> \E i \in DOMAIN chunks[k] : r \in chunks[k][i]
  BY DEF Holds, Pure, Before
<1> QED
  BY <1>1, <1>2

(* A batch of which every commit was processed.                            *)
LEMMA WholeBatchEffect ==
  ASSUME Runs, NEW w \in Worker, WriteCommits(w), calm' # 0 \/ "commit" \notin Faults
  PROVE  \E B \in Batches(w) :
           /\ chunks' = WithChunk(w, "commits", RecordsOf("commits", B, run[w].snap))
           /\ run'[w].todo = run[w].todo \ B
           /\ run'[w].batch = B
           /\ run'[w].count = AfterWrite(w, "commits", B)
           /\ NoFault
<1>1. PICK B \in Batches(w) :
        /\ NoFault
        /\ chunks' = WithChunk(w, "commits", RecordsOf("commits", B, run[w].snap))
        /\ GoOn(w, [run[w] EXCEPT !.pc = "file_changes",
                                  !.todo = run[w].todo \ B,
                                  !.batch = B,
                                  !.failed = run[w].failed \cup (B \ B),
                                  !.count = AfterWrite(w, "commits", B)])
  BY DEF WriteCommits, Faulty
<1> DEFINE t == run[w].todo \ B
           f == run[w].failed \cup (B \ B)
           n == AfterWrite(w, "commits", B)
           r == [run[w] EXCEPT !.pc = "file_changes", !.todo = t, !.batch = B,
                               !.failed = f, !.count = n]
<1>2. run'[w] = r
  BY <1>1 DEF GoOn, Runs
<1>3. run[w] \in RunState
  BY RunTyped
<1> HIDE DEF t, f, n
<1>4. r.todo = t /\ r.batch = B /\ r.count = n
  BY <1>3 DEF RunState
<1> HIDE DEF r
<1> QED
  BY <1>1, <1>2, <1>4 DEF t, n

(* What a run that meets no fault deletes.                                 *)
LEMMA ListedEffect ==
  ASSUME Runs, NEW w \in Worker, ListChunks(w), calm' # 0
  PROVE  /\ run'[w].keys = ChunkKeys
         /\ run'[w].pc = IF ChunkKeys = {} THEN "forget" ELSE "delete"
         /\ UNCHANGED chunks
<1> DEFINE p == IF ChunkKeys = {} THEN "forget" ELSE "delete"
           c == ChunkKeys
           r == [run[w] EXCEPT !.keys = c, !.pc = p]
<1>1. run'[w] = r /\ UNCHANGED chunks
  BY DEF ListChunks, GoOn, Runs, Faulty
<1>2. run[w] \in RunState
  BY RunTyped
<1> HIDE DEF p, c
<1>3. r.keys = c /\ r.pc = p
  BY <1>2 DEF RunState
<1> QED
  BY <1>1, <1>3 DEF p, c

LEMMA DeletedEffect ==
  ASSUME Runs, NEW w \in Worker, DeleteChunks(w), calm' # 0
  PROVE  \E B \in SUBSET run[w].keys :
           /\ chunks' = WithoutChunks(B)
           /\ run'[w].keys = run[w].keys \ B
           /\ run'[w].pc = IF B = run[w].keys THEN "forget" ELSE "delete"
<1>1. PICK B \in SUBSET run[w].keys :
        /\ chunks' = WithoutChunks(B)
        /\ GoOn(w, [run[w] EXCEPT !.keys = run[w].keys \ B,
                      !.pc = IF B = run[w].keys THEN "forget" ELSE "delete"])
  BY DEF DeleteChunks, Faulty
<1> DEFINE p == IF B = run[w].keys THEN "forget" ELSE "delete"
           c == run[w].keys \ B
           r == [run[w] EXCEPT !.keys = c, !.pc = p]
<1>2. run'[w] = r
  BY <1>1 DEF GoOn, Runs
<1>3. run[w] \in RunState
  BY RunTyped
<1> HIDE DEF p, c
<1>4. r.keys = c /\ r.pc = p
  BY <1>3 DEF RunState
<1> QED
  BY <1>1, <1>2, <1>4 DEF p, c

LEMMA KeysDeleted ==
  ASSUME Chunks, NEW B, chunks' = WithoutChunks(B)
  PROVE  /\ DOMAIN chunks' = Kind
         /\ \A k \in Kind : DOMAIN chunks'[k] = {i \in DOMAIN chunks[k] : <<k, i>> \notin B}
         /\ \A k \in Kind : \A i \in DOMAIN chunks'[k] : chunks'[k][i] = chunks[k][i]
         /\ ChunkKeys' = ChunkKeys \ B
<1>1. /\ DOMAIN chunks' = Kind
      /\ \A k \in Kind : DOMAIN chunks'[k] = {i \in DOMAIN chunks[k] : <<k, i>> \notin B}
      /\ \A k \in Kind : \A i \in DOMAIN chunks'[k] : chunks'[k][i] = chunks[k][i]
  BY DEF WithoutChunks, Restrict
<1>2. ChunkKeys' = ChunkKeys \ B
  BY <1>1 DEF ChunkKeys
<1> QED
  BY <1>1, <1>2

LEMMA NoKeys ==
  NoChunk <=> ChunkKeys = {}
<1>1. \A k \in Kind : \A i \in DOMAIN chunks[k] : <<k, i>> \in ChunkKeys
  BY DEF ChunkKeys
<1>2. ASSUME NoChunk PROVE ChunkKeys = {}
  BY <1>2 DEF NoChunk, ChunkKeys
<1>3. ASSUME ChunkKeys = {} PROVE NoChunk
  BY <1>1, <1>3 DEF NoChunk
<1> QED
  BY <1>2, <1>3
------------------------------------------------------------------------------
(* Runs that meet no fault leave nothing behind, and publish exactly.      *)

LEMMA CleanNext ==
  ASSUME OneRun, Repo, Runs, Chunks, Clean, [Next]_vars
  PROVE  Clean'
<1> SUFFICES ASSUME NEW v \in Worker, calm' >= 1 PROVE Cleaned(run[v])'
  BY DEF Clean
<1>0. calm \in 0 .. 2 /\ calm' # 0 /\ (calm >= 1 => Cleaned(run[v]))
      /\ \A w \in Worker : w = v
  BY DEF Repo, Clean, OneRun
<1>1. CASE UNCHANGED <<run, ckpt, chunks, calm>>
  BY <1>0, <1>1 DEF Cleaned, NoChunk, ChunkKeys
<1>2. CASE Push \/ Share \/ Rewrite
  BY <1>1, <1>2 DEF Push, Share, Rewrite
<1>3. CASE Start(v)
  BY <1>3, StartEffect DEF Cleaned, At
<1>4. CASE LoadNone(v) \/ LoadInvalid(v) \/ LoadValid(v)
  BY <1>4, LoadNoneEffect, LoadInvalidEffect, LoadValidEffect DEF Cleaned, At
<1>5. CASE TreeCheckpoint(v) \/ TreeDone(v)
  BY <1>5, TreeCheckpointEffect, TreeDoneEffect DEF Cleaned, At
<1>6. CASE WriteCommits(v) \/ WriteFileChanges(v) \/ SaveCheckpoint(v)
  BY <1>6, WriteCommitsEffect, WriteFileChangesEffect, SaveCheckpointEffect
     DEF Cleaned, At
<1>7. CASE Merge(v) \/ MergeFileChanges(v)
  BY <1>7, MergeEffect, MergeFileChangesEffect DEF Cleaned, At
<1>8. CASE ListChunks(v)
  <2>1. /\ run'[v].keys = ChunkKeys /\ chunks' = chunks
        /\ run'[v].pc = IF ChunkKeys = {} THEN "forget" ELSE "delete"
    BY <1>0, <1>8, ListedEffect
  <2>2. ChunkKeys' = ChunkKeys /\ (NoChunk' <=> NoChunk)
    BY <2>1 DEF ChunkKeys, NoChunk
  <2> QED
    BY <2>1, <2>2, NoKeys DEF Cleaned
<1>9. CASE DeleteChunks(v)
  <2>1. PICK B \in SUBSET run[v].keys :
          /\ chunks' = WithoutChunks(B)
          /\ run'[v].keys = run[v].keys \ B
          /\ run'[v].pc = IF B = run[v].keys THEN "forget" ELSE "delete"
    BY <1>0, <1>9, DeletedEffect
  <2>2. ChunkKeys \subseteq run[v].keys
    <3>1. run[v].pc = "delete" /\ calm' = calm
      BY <1>0, <1>9 DEF DeleteChunks, At, NoFault, Faulty
    <3> QED
      BY <1>0, <3>1 DEF Cleaned
  <2>3. ChunkKeys' = ChunkKeys \ B
    BY <2>1, KeysDeleted
  <2>4. B = run[v].keys => NoChunk'
    <3> SUFFICES ASSUME B = run[v].keys PROVE NoChunk'
      OBVIOUS
    <3>1. ChunkKeys' = {}
      BY <2>2, <2>3
    <3>2. \A k \in Kind : \A i \in DOMAIN chunks'[k] : <<k, i>> \in ChunkKeys'
      BY DEF ChunkKeys
    <3> QED
      BY <3>1, <3>2 DEF NoChunk
  <2> QED
    BY <2>1, <2>2, <2>3, <2>4 DEF Cleaned
<1>10. CASE ForgetCheckpoint(v)
  <2>1. run'[v].pc = "publish" /\ run[v].pc = "forget"
    BY <1>10, ForgetCheckpointEffect DEF At
  <2>2. ckpt' = NoCkpt /\ chunks' = chunks /\ calm' = calm
    BY <1>0, <1>10 DEF ForgetCheckpoint, Faulty, NoFault
  <2> QED
    BY <1>0, <2>1, <2>2 DEF Cleaned, NoChunk
<1>11. CASE Publish(v)
  <2>1. run'[v].pc = "idle" /\ run[v].pc = "publish"
        /\ ckpt' = ckpt /\ chunks' = chunks /\ calm' = calm
    BY <1>11, EndEffect DEF Publish, At, NoFault
  <2> QED
    BY <1>0, <2>1 DEF Cleaned, NoChunk
<1>12. CASE Fail(v)
  BY <1>0, <1>12 DEF Fail, Faulty
<1> QED
  BY <1>0, <1>1, <1>2, <1>3, <1>4, <1>5, <1>6, <1>7, <1>8, <1>9, <1>10, <1>11, <1>12
     DEF Next, RunStep, vars

(* The stages of an extraction that found no checkpoint.                   *)
LEMMA FreshExtracts ==
  ASSUME Runs, Looking, NEW w \in Worker, At(w, "load"), NoChunk, UNCHANGED chunks,
         LoadNone(w) \/ LoadInvalid(w)
  PROVE  Extracts(run[w])'
<1>1. /\ run'[w].pc = "tree" /\ run'[w].todo = CommitsOf(run'[w].snap)
      /\ run'[w].done = {}
  BY LoadNoneEffect, LoadInvalidEffect DEF At, Looking
<1>2. \A k, n, snap : k \in Kind => Holds(k, {}, n, snap)
  BY NoChunkHolds
<1>3. \A k, n, snap : k \in Kind => Holds(k, {}, n, snap)'
  BY <1>2, HoldsStay
<1>4. \A k \in Kind : Holds(k, run[w].done, run[w].count[k], run[w].snap)'
  BY <1>1, <1>3
<1> QED
  BY <1>1, <1>4 DEF Extracts, Extracted

LEMMA ExtractsStay ==
  ASSUME NEW w \in Worker, Extracts(run[w]), UNCHANGED chunks,
         run[w].pc \in {"tree", "commits", "save"},
         run'[w].pc \in {"tree", "commits"},
         run'[w].snap = run[w].snap, run'[w].todo = run[w].todo,
         run'[w].done = run[w].done, run'[w].count = run[w].count
  PROVE  Extracts(run[w])'
<1>1. \A k \in Kind : Holds(k, run[w].done, run[w].count[k], run[w].snap)
  BY DEF Extracts
<1>2. \A k \in Kind : Holds(k, run[w].done, run[w].count[k], run[w].snap)'
  BY <1>1, HoldsStay
<1> QED
  BY <1>2 DEF Extracts, Extracted

LEMMA CommitsExtracted ==
  ASSUME Runs, Chunks, NEW w \in Worker, Extracts(run[w]), WriteCommits(w), calm' # 0
  PROVE  Extracts(run[w])'
<1>1. PICK B \in Batches(w) :
        /\ chunks' = WithChunk(w, "commits", RecordsOf("commits", B, run[w].snap))
        /\ run'[w].todo = run[w].todo \ B
        /\ run'[w].batch = B
        /\ run'[w].count = AfterWrite(w, "commits", B)
  BY WholeBatchEffect
<1>2. /\ run[w].pc = "commits" /\ run'[w].pc = "file_changes"
      /\ run'[w].snap = run[w].snap /\ run'[w].done = run[w].done
  BY WriteCommitsEffect DEF At
<1> PICK d, s, old : d = run[w].done /\ s = run[w].snap /\ old = run[w].count
  OBVIOUS
<1>3. /\ d \subseteq CommitsOf(s) /\ run[w].todo = CommitsOf(s) \ d
      /\ Holds("commits", d, old["commits"], s)
      /\ Holds("file_changes", d, old["file_changes"], s)
  BY <1>2 DEF Extracts, Kind
<1>4. B \subseteq run[w].todo /\ B # {}
  BY DEF Batches
<1>5. /\ d \cap B = {} /\ B \subseteq CommitsOf(s) /\ B \in SUBSET Commit
  BY <1>3, <1>4, RunTyped
<1>6. RecordsOf("commits", B, s) # {}
  <2>1. PICK c \in B : TRUE
    BY <1>4
  <2>2. PICK b \in Branch : c \in s[b]
    BY <1>5, <2>1 DEF CommitsOf
  <2>3. <<c, b>> \in RecordsOf("commits", B, s)
    BY <2>1, <2>2 DEF RecordsOf
  <2> QED
    BY <2>3
<1>7. /\ run'[w].count["commits"] = old["commits"] + 1
      /\ run'[w].count["file_changes"] = old["file_changes"]
  BY <1>1, <1>4, CountTyped DEF Kind
<1>8. /\ Holds("commits", d \cup B, old["commits"] + 1, s)'
      /\ Holds("file_changes", d, old["file_changes"], s)'
  BY <1>1, <1>3, <1>5, <1>6, HoldsAfterWrite DEF Kind
<1>9. /\ run'[w].done = d /\ run'[w].batch = B /\ run'[w].snap = s
  BY <1>1, <1>2
<1>10. /\ Holds("commits", run[w].done \cup run[w].batch, run[w].count["commits"], run[w].snap)'
       /\ Holds("file_changes", run[w].done, run[w].count["file_changes"], run[w].snap)'
  BY <1>7, <1>8, <1>9
<1> QED
  BY <1>1, <1>2, <1>3, <1>4, <1>5, <1>9, <1>10 DEF Extracts, Extracted

LEMMA FileChangesExtracted ==
  ASSUME Runs, Chunks, NEW w \in Worker, Extracts(run[w]), WriteFileChanges(w)
  PROVE  Extracts(run[w])'
<1> PICK d, b, s, old : /\ d = run[w].done /\ b = run[w].batch
                        /\ s = run[w].snap /\ old = run[w].count
  OBVIOUS
<1> DEFINE rows == RecordsOf("file_changes", b, s)
<1>1. /\ run[w].pc = "file_changes" /\ run'[w].pc = "save"
      /\ chunks' = WithChunk(w, "file_changes", rows)
      /\ run'[w].snap = s /\ run'[w].todo = run[w].todo /\ run'[w].done = d \cup b
      /\ run'[w].count = AfterWrite(w, "file_changes", rows)
  BY WriteFileChangesEffect DEF At, WriteFileChanges
<1>2. /\ b \cap d = {} /\ d \cup b \subseteq CommitsOf(s)
      /\ run[w].todo = CommitsOf(s) \ (d \cup b)
      /\ Holds("commits", d \cup b, old["commits"], s)
      /\ Holds("file_changes", d, old["file_changes"], s)
  BY <1>1 DEF Extracts
<1>3. d \cap b = {} /\ b \in SUBSET Commit
  BY <1>2, RunTyped
<1>4. /\ run'[w].count["commits"] = old["commits"]
      /\ run'[w].count["file_changes"] =
           IF rows = {} THEN old["file_changes"] ELSE old["file_changes"] + 1
  BY <1>1, CountTyped DEF Kind
<1>5. /\ \A n : n = (IF rows = {} THEN old["file_changes"] ELSE old["file_changes"] + 1)
           => Holds("file_changes", d \cup b, n, s)'
      /\ Holds("commits", d \cup b, old["commits"], s)'
  BY <1>1, <1>2, <1>3, HoldsAfterWrite DEF Kind
<1>6. \A k \in Kind : Holds(k, run[w].done, run[w].count[k], run[w].snap)'
  BY <1>1, <1>4, <1>5 DEF Kind
<1> QED
  BY <1>1, <1>2, <1>6 DEF Extracts, Extracted

LEMMA CommitsMergedExactly ==
  ASSUME Runs, Chunks, NEW w \in Worker, Extracts(run[w]), Merge(w)
  PROVE  Extracts(run[w])'
<1>1. /\ run[w].pc = "commits" /\ run'[w].pc = "merge" /\ UNCHANGED chunks
      /\ run'[w].snap = run[w].snap /\ run'[w].todo = {} /\ run[w].todo = {}
      /\ run'[w].done = run[w].done /\ run'[w].count = run[w].count
      /\ run'[w].table = [run[w].table EXCEPT !["commits"] = Merged("commits")]
  BY MergeEffect DEF At, Merge
<1>2. /\ run[w].done = CommitsOf(run[w].snap)
      /\ \A k \in Kind : Holds(k, run[w].done, run[w].count[k], run[w].snap)
  BY <1>1 DEF Extracts
<1>3. \A k \in Kind : Holds(k, run[w].done, run[w].count[k], run[w].snap)'
  BY <1>1, <1>2, HoldsStay
<1>4. run'[w].table["commits"] = Merged("commits")
  BY <1>1, RunTyped DEF Tables, Kind
<1>5. Exact(run'[w].table, "commits", run'[w].snap)
  BY <1>1, <1>2, <1>4, MergedExact DEF Exact, Kind
<1> QED
  BY <1>1, <1>2, <1>3, <1>5 DEF Extracts, Extracted

LEMMA FileChangesMergedExactly ==
  ASSUME Runs, Chunks, NEW w \in Worker, Extracts(run[w]), MergeFileChanges(w)
  PROVE  Extracts(run[w])'
<1>1. /\ run[w].pc = "merge" /\ run'[w].pc = "clean" /\ run'[w].snap = run[w].snap
      /\ run'[w].table = [run[w].table EXCEPT !["file_changes"] = Merged("file_changes")]
  BY MergeFileChangesEffect DEF At
<1>2. /\ run[w].done = CommitsOf(run[w].snap)
      /\ Holds("file_changes", run[w].done, run[w].count["file_changes"], run[w].snap)
      /\ Exact(run[w].table, "commits", run[w].snap)
  BY <1>1 DEF Extracts, Kind
<1>3. run'[w].table["file_changes"] = Merged("file_changes")
      /\ run'[w].table["commits"] = run[w].table["commits"]
  BY <1>1, RunTyped DEF Tables, Kind
<1>4. Exact(run'[w].table, "commits", run'[w].snap)
  BY <1>1, <1>2, <1>3 DEF Exact
<1>5. Exact(run'[w].table, "file_changes", run'[w].snap)
  BY <1>1, <1>2, <1>3, MergedExact DEF Exact, Kind
<1> QED
  BY <1>1, <1>4, <1>5 DEF Extracts, Extracted, Kind

LEMMA SecondNext ==
  ASSUME OneRun, Repo, Runs, Chunks, Looking, Clean, Second, [Next]_vars
  PROVE  Second'
<1> SUFFICES ASSUME NEW v \in Worker, calm' = 2 PROVE Extracts(run[v])'
  BY DEF Second
<1>0. calm' # 0 /\ (calm = 2 => Extracts(run[v])) /\ (calm >= 1 => Cleaned(run[v]))
      /\ \A w \in Worker : w = v
  BY DEF Second, Clean, OneRun
<1>1. CASE UNCHANGED <<run, chunks, ckpt, calm>>
  <2>1. run' = run /\ chunks' = chunks /\ ckpt' = ckpt /\ Extracts(run[v])
    BY <1>0, <1>1
  <2>2. \A k, S, n, snap : Holds(k, S, n, snap)' <=> Holds(k, S, n, snap)
    BY <2>1, HoldsStay
  <2>3. NoChunk' <=> NoChunk
    BY <2>1 DEF NoChunk
  <2> QED
    BY <2>1, <2>2, <2>3 DEF Extracts, Exact
<1>2. CASE Push \/ Share \/ Rewrite
  BY <1>1, <1>2 DEF Push, Share, Rewrite
<1>3. CASE Start(v)
  <2>1. run[v].pc = "idle" /\ run'[v].pc = "load" /\ chunks' = chunks /\ ckpt' = ckpt
        /\ calm >= 1
    BY <1>3, StartEffect DEF Start, At, Repo
  <2> QED
    BY <1>0, <2>1 DEF Cleaned, Extracts, Extracted, NoChunk
<1>4. CASE LoadNone(v) \/ LoadInvalid(v) \/ LoadValid(v)
  <2>1. calm' = calm /\ At(v, "load")
    BY <1>0, <1>4 DEF LoadNone, LoadInvalid, LoadValid, NoFault, Faulty
  <2>2. NoChunk /\ ckpt = NoCkpt
    BY <1>0, <2>1 DEF Extracts, At
  <2>3. (LoadNone(v) \/ LoadInvalid(v)) /\ UNCHANGED chunks
    BY <1>4, <2>2 DEF LoadNone, LoadInvalid, LoadValid, Valid
  <2> QED
    BY <2>1, <2>2, <2>3, FreshExtracts
<1>5. CASE TreeCheckpoint(v) \/ TreeDone(v)
  <2>1. /\ UNCHANGED chunks /\ calm' = calm
        /\ run[v].pc = "tree" /\ run'[v].pc \in {"tree", "commits"}
        /\ run'[v].snap = run[v].snap /\ run'[v].todo = run[v].todo
        /\ run'[v].done = run[v].done /\ run'[v].count = run[v].count
    BY <1>5, TreeCheckpointEffect, TreeDoneEffect DEF TreeCheckpoint, TreeDone, At, NoFault
  <2> QED
    BY <1>0, <2>1, ExtractsStay
<1>6. CASE WriteCommits(v)
  <2>1. calm' = calm
    BY <1>0, <1>6, WholeBatchEffect DEF NoFault
  <2> QED
    BY <1>0, <1>6, <2>1, CommitsExtracted
<1>7. CASE WriteFileChanges(v)
  BY <1>0, <1>7, FileChangesExtracted DEF WriteFileChanges, NoFault
<1>8. CASE SaveCheckpoint(v)
  <2>1. /\ UNCHANGED chunks /\ calm' = calm
        /\ run[v].pc = "save" /\ run'[v].pc = "commits"
        /\ run'[v].snap = run[v].snap /\ run'[v].todo = run[v].todo
        /\ run'[v].done = run[v].done /\ run'[v].count = run[v].count
    BY <1>0, <1>8, SaveCheckpointEffect DEF SaveCheckpoint, At, NoFault, Faulty
  <2> QED
    BY <1>0, <2>1, ExtractsStay
<1>9. CASE Merge(v)
  BY <1>0, <1>9, CommitsMergedExactly DEF Merge, NoFault
<1>10. CASE MergeFileChanges(v)
  BY <1>0, <1>10, FileChangesMergedExactly DEF MergeFileChanges, NoFault
<1>11. CASE ListChunks(v) \/ DeleteChunks(v) \/ ForgetCheckpoint(v)
  <2>1. /\ run[v].pc \in Extracted /\ run'[v].pc \in Extracted
        /\ run'[v].pc \notin {"load", "tree", "commits", "save", "merge", "file_changes"}
        /\ run'[v].snap = run[v].snap /\ run'[v].table = run[v].table
    BY <1>11, ListChunksEffect, DeleteChunksEffect, ForgetCheckpointEffect
       DEF At, Extracted
  <2>2. calm' = calm
    BY <1>0, <1>11 DEF ListChunks, DeleteChunks, ForgetCheckpoint, NoFault, Faulty
  <2> QED
    BY <1>0, <2>1, <2>2 DEF Extracts, Exact
<1>12. CASE Publish(v)
  BY <1>12, EndEffect DEF At, Extracts, Extracted
<1>13. CASE Fail(v)
  BY <1>0, <1>13 DEF Fail, Faulty
<1> QED
  BY <1>0, <1>1, <1>2, <1>3, <1>4, <1>5, <1>6, <1>7, <1>8, <1>9, <1>10, <1>11, <1>12,
     <1>13 DEF Next, RunStep, vars

(* The second run publishes what it extracted.                             *)
LEMMA ExactNext ==
  ASSUME Runs, Second, ExactAfterTwoCalmRuns, [Next]_vars
  PROVE  ExactAfterTwoCalmRuns'
<1>1. CASE UNCHANGED published
  BY <1>1 DEF ExactAfterTwoCalmRuns
<1>2. ASSUME NEW w \in Worker, Publish(w) PROVE ExactAfterTwoCalmRuns'
  <2>1. /\ run[w].pc = "publish" /\ published'.calm = calm
        /\ published'.snap = run[w].snap /\ published'.table = run[w].table
    BY <1>2 DEF Publish, At
  <2>2. calm = 2 => \A k \in Kind : Exact(run[w].table, k, run[w].snap)
    BY <2>1 DEF Second, Extracts, Extracted
  <2> QED
    BY <2>1, <2>2 DEF ExactAfterTwoCalmRuns, Exact
<1>3. UNCHANGED published \/ \E w \in Worker : Publish(w)
  BY DEF Next, vars, RunStep, Push, Share, Rewrite, Start, LoadNone, LoadInvalid,
     LoadValid, TreeCheckpoint, TreeDone, WriteCommits, WriteFileChanges, SaveCheckpoint,
     Merge, MergeFileChanges, ListChunks, DeleteChunks, ForgetCheckpoint, Fail
<1> QED
  BY <1>1, <1>2, <1>3

LEMMA InitCInv == Init => Clean /\ Second /\ ExactAfterTwoCalmRuns
<1> SUFFICES ASSUME Init PROVE Clean /\ Second /\ ExactAfterTwoCalmRuns
  OBVIOUS
<1>1. calm = 0 /\ published.calm = 0
  BY DEF Init, NotPublished
<1> QED
  BY <1>1 DEF Clean, Second, ExactAfterTwoCalmRuns

LEMMA NextCInv ==
  ASSUME OneRun, TInv, Clean, Second, ExactAfterTwoCalmRuns, [Next]_vars
  PROVE  (Clean /\ Second /\ ExactAfterTwoCalmRuns)'
BY CleanNext, SecondNext, ExactNext DEF TInv

(* Two runs in succession that meet no fault clear what a fault left in    *)
(* S3: the second publishes each record of its clone once, and no other.   *)
THEOREM TwoCalmRunsPublishExactly ==
  ASSUME OneRun
  PROVE  Spec => []ExactAfterTwoCalmRuns
<1>1. TInv /\ (Clean /\ Second /\ ExactAfterTwoCalmRuns) /\ [Next]_vars
        => (Clean /\ Second /\ ExactAfterTwoCalmRuns)'
  BY NextCInv
<1>2. Spec => []TInv
  BY Invariance
<1> QED
  BY <1>1, <1>2, InitCInv, PTL DEF Spec
------------------------------------------------------------------------------
(* A run at rest takes its commits batch by batch.                         *)

LEMMA SteadyIsResumable == Steady => Resumable
BY DEF Steady, OneRun, Resumable

LEMMA Multiples ==
  ASSUME NEW B \in Nat \ {0}, NEW i \in Nat, NEW n \in Nat, NEW N \in Nat,
         i * B < N, N <= n * B
  PROVE  i < n
<1> SUFFICES ASSUME n <= i PROVE FALSE
  OBVIOUS
<1>1. i - n \in Nat /\ i = n + (i - n)
  OBVIOUS
<1>2. (i - n) * B >= 0
  BY <1>1
<1>3. (n + (i - n)) * B = n * B + (i - n) * B
  BY <1>1
<1>4. n * B \in Nat /\ i * B \in Nat /\ (i - n) * B \in Nat
  BY <1>1
<1> QED
  BY <1>1, <1>2, <1>3, <1>4

LEMMA AllTyped ==
  /\ Initial \in Clones
  /\ AllCommits \subseteq Commit /\ Cardinality(AllCommits) \in Nat
  /\ \A S : S \subseteq AllCommits =>
       IsFiniteSet(S) /\ Cardinality(S) \in Nat /\ Cardinality(S) <= Cardinality(AllCommits)
<1>1. Initial \in Clones
  BY ExtractionAssumption DEF Clones
<1>2. AllCommits \subseteq Commit
  BY <1>1, CommitsTyped DEF AllCommits
<1>3. IsFiniteSet(AllCommits) /\ Cardinality(AllCommits) \in Nat
  BY <1>2, Sizes
<1> QED
  BY <1>1, <1>2, <1>3, FS_Subset, FS_CardinalityType

LEMMA NoneTaken ==
  ASSUME Chunks, NEW k \in Kind
  PROVE  Taken(k, {}, 0)
<1>1. Cardinality({}) = 0 /\ 0 * BatchSize = 0
  BY FS_EmptySet, ExtractionAssumption
<1>2. Before(k, 0) = {}
  BY ChunksNumbered DEF Before
<1> QED
  BY <1>1, <1>2 DEF Taken, Whole, Pure

LEMMA WholeAfterBatch ==
  ASSUME NEW S \in SUBSET AllCommits, NEW T, IsBatch(T, S), NEW n \in Nat, Whole(S, n)
  PROVE  Whole(S \cup T, n + 1) /\ n * BatchSize < Cardinality(AllCommits)
<1> DEFINE B == BatchSize
           N == Cardinality(AllCommits)
<1>1. B \in Nat \ {0} /\ n * B \in Nat /\ (n + 1) * B = n * B + B
  BY ExtractionAssumption
<1>2. T \subseteq AllCommits \ S /\ T # {}
  BY DEF IsBatch
<1>3. /\ IsFiniteSet(S) /\ IsFiniteSet(T) /\ IsFiniteSet(S \cup T)
      /\ Cardinality(S) \in Nat /\ Cardinality(T) \in Nat
      /\ Cardinality(S \cup T) <= N /\ N \in Nat
  BY <1>2, AllTyped
<1>4. Cardinality(S \cup T) = Cardinality(S) + Cardinality(T)
  <2>1. S \cap T = {} /\ Cardinality({}) = 0
    BY <1>2, FS_EmptySet
  <2>2. Cardinality(S \cup T) = Cardinality(S) + Cardinality(T) - Cardinality(S \cap T)
    BY <1>3, FS_Union
  <2>3. Cardinality(S \cap T) = 0
    BY <2>1
  <2>4. Cardinality(S) \in Nat /\ Cardinality(T) \in Nat
    BY <1>3
  <2> HIDE DEF B, N
  <2> QED
    BY <2>2, <2>3, <2>4
<1>5. Cardinality(T) # 0
  BY <1>2, <1>3, FS_EmptySet
<1>6. Cardinality(S) = n * B
  BY <1>2 DEF Whole
<1>7. n * B < N
  BY <1>1, <1>3, <1>4, <1>5, <1>6
<1>8. CASE Cardinality(T) = B
  BY <1>1, <1>4, <1>6, <1>7, <1>8 DEF Whole
<1>9. CASE T = AllCommits \ S
  <2>1. S \cup T = AllCommits
    BY <1>9
  <2>2. Cardinality(T) <= B
    BY DEF IsBatch
  <2>3. N = n * B + Cardinality(T)
    BY <1>4, <1>6, <2>1
  <2>4. N <= (n + 1) * B
    <3> HIDE DEF N
    <3> QED
      BY <1>1, <1>3, <2>2, <2>3
  <2> QED
    BY <1>7, <2>1, <2>4 DEF Whole
<1> QED
  BY <1>8, <1>9 DEF IsBatch

LEMMA TakenStay ==
  ASSUME UNCHANGED chunks
  PROVE  \A k, S, n : Taken(k, S, n)' <=> Taken(k, S, n)
BY DEF Taken, Pure, Before

(* A batch is a chunk, at an index of its own.                             *)
LEMMA TakenAfterWrite ==
  ASSUME Steady, Chunks, Runs, NumbersBounded, NEW w \in Worker, NEW k \in Kind,
         NEW S, NEW T, IsBatch(T, S), Taken(k, S, run[w].count[k]),
         chunks' = WithChunk(w, k, RecordsOf(k, T, Initial))
  PROVE  /\ RecordsOf(k, T, Initial) # {}
         /\ NumbersBounded'
         /\ \A n : n = run[w].count[k] + 1 => Taken(k, S \cup T, n)'
         /\ \A j \in Kind : \A X, n :
              n \in Nat /\ n <= run[w].count[j] /\ Taken(j, X, n) => Taken(j, X, n)'
<1> PICK m, rows : m = run[w].count[k] /\ rows = RecordsOf(k, T, Initial)
  OBVIOUS
<1>1. /\ S \subseteq AllCommits /\ T \subseteq AllCommits /\ S \cap T = {}
      /\ T \in SUBSET Commit /\ T # {} /\ Whole(S, m) /\ Pure(k, S, m, Initial)
  BY AllTyped DEF IsBatch, Taken
<1>2. m \in Nat /\ rows \in SUBSET Record(k)
  BY <1>1, RunTyped, RecordsTyped
<1>3. rows # {}
  <2>1. PICK c \in T : TRUE
    BY <1>1
  <2>2. PICK b \in Branch : c \in Initial[b]
    BY <1>1, <2>1 DEF AllCommits, CommitsOf
  <2>3. c \in Touching
    BY <1>1, <2>1 DEF Steady, AllCommits
  <2>4. <<c, b>> \in RecordsOf("commits", T, Initial)
    BY <2>1, <2>2 DEF RecordsOf
  <2>5. c \in RecordsOf("file_changes", T, Initial)
    BY <2>1, <2>3 DEF RecordsOf
  <2> QED
    BY <2>4, <2>5 DEF Kind
<1>4. Whole(S \cup T, m + 1) /\ m * BatchSize < Cardinality(AllCommits)
  BY <1>1, <1>2, WholeAfterBatch
<1>5. NumbersBounded'
  <2>1. /\ DOMAIN chunks'[k] \subseteq DOMAIN chunks[k] \cup {m}
        /\ \A j \in Kind \ {k} : chunks'[j] = chunks[j]
    BY <1>2, ChunkWritten
  <2>2. \A i \in DOMAIN chunks'[k] : i * BatchSize < Cardinality(AllCommits)
    BY <1>4, <2>1 DEF NumbersBounded
  <2> QED
    BY <2>1, <2>2 DEF NumbersBounded
<1>6. \A n : n = m + 1 => Pure(k, S \cup T, n, Initial)'
  BY <1>1, <1>3, PureAfterWrite
<1>7. \A n : n = m + 1 => Taken(k, S \cup T, n)'
  BY <1>1, <1>4, <1>6 DEF Taken
<1>8. \A j \in Kind : \A X, n, snap :
        n \in Nat /\ n <= run[w].count[j] /\ Pure(j, X, n, snap) => Pure(j, X, n, snap)'
  BY <1>2, PureBefore
<1>9. \A j \in Kind : \A X, n :
        n \in Nat /\ n <= run[w].count[j] /\ Taken(j, X, n) => Taken(j, X, n)'
  BY <1>8 DEF Taken
<1> QED
  BY <1>3, <1>5, <1>7, <1>9

(* When all is taken, no chunk has an index past the count, and a merge    *)
(* counts no record twice.                                                 *)
LEMMA MergedAtMostOnce ==
  ASSUME Chunks, Runs, NumbersBounded, NEW w \in Worker, NEW k \in Kind,
         Taken(k, AllCommits, run[w].count[k])
  PROVE  \A r \in Record(k) : Merged(k)[r] <= 1
<1> PICK n : n = run[w].count[k]
  OBVIOUS
<1>1. n \in Nat /\ BatchSize \in Nat \ {0} /\ n * BatchSize \in Nat
  BY RunTyped, ExtractionAssumption
<1>2. Cardinality(AllCommits) \in Nat /\ Cardinality(AllCommits) <= n * BatchSize
  BY <1>1, AllTyped DEF Taken, Whole
<1>3. \A i \in DOMAIN chunks[k] : i < n
  <2> SUFFICES ASSUME NEW i \in DOMAIN chunks[k] PROVE i < n
    OBVIOUS
  <2>1. i \in Nat /\ i * BatchSize < Cardinality(AllCommits)
    BY ChunksNumbered DEF NumbersBounded
  <2> QED
    BY <1>1, <1>2, <2>1, Multiples
<1>4. Pure(k, AllCommits, n, Initial)
  BY DEF Taken
<1> HIDE DEF Chunks
<1>5. \A r \in Record(k) : Merged(k)[r] \in {0, 1}
  BY <1>3, <1>4, MergedOnce
<1> QED
  BY <1>5
------------------------------------------------------------------------------
(* The invariant of a repository at rest.                                  *)

LEMMA AtRest ==
  ASSUME Steady, repo = Initial, [Next]_vars
  PROVE  repo' = Initial
BY DEF Steady, Next, vars, RunStep, Push, Share, Rewrite, Start, LoadNone, LoadInvalid,
   LoadValid, TreeCheckpoint, TreeDone, WriteCommits, WriteFileChanges, SaveCheckpoint,
   Merge, MergeFileChanges, ListChunks, DeleteChunks, ForgetCheckpoint, Publish, Fail

(* A write by a run past its checkpoint keeps what that counts.            *)
LEMMA SavedAfterWrite ==
  ASSUME Steady, Ckpt, Chunks, Runs, NumbersBounded, Saved, NEW w \in Worker,
         Kept(run[w]), run[w].pc \in {"commits", "file_changes"},
         NEW k \in Kind, NEW S, NEW T, IsBatch(T, S), Taken(k, S, run[w].count[k]),
         chunks' = WithChunk(w, k, RecordsOf(k, T, Initial)), UNCHANGED ckpt
  PROVE  Saved'
<1> SUFFICES ASSUME ckpt # NoCkpt, NEW j \in Kind PROVE Taken(j, ckpt.done, ckpt.count[j])'
  BY DEF Saved
<1>1. Undeleted
  BY DEF Undeleted, At, Steady, OneRun
<1>2. Taken(j, ckpt.done, ckpt.count[j])
  BY <1>1 DEF Saved
<1>3. ckpt.count[j] \in Nat /\ ckpt.count[j] <= run[w].count[j]
  BY DEF Ckpt, CkptState, Kept, Extracting
<1>4. \A X, n : n \in Nat /\ n <= run[w].count[j] /\ Taken(j, X, n) => Taken(j, X, n)'
  BY TakenAfterWrite
<1> QED
  BY <1>2, <1>3, <1>4

LEMMA TakingStays ==
  ASSUME NEW w \in Worker, Taking(run[w]), UNCHANGED chunks,
         run[w].pc \in {"tree", "commits", "save"},
         run'[w].pc \in {"tree", "commits"},
         run'[w].snap = run[w].snap, run'[w].todo = run[w].todo,
         run'[w].done = run[w].done, run'[w].count = run[w].count
  PROVE  Taking(run[w])'
<1>1. \A k \in Kind : Taken(k, run[w].done, run[w].count[k])
  BY DEF Taking
<1>2. \A k \in Kind : Taken(k, run[w].done, run[w].count[k])'
  BY <1>1, TakenStay
<1> QED
  BY <1>2 DEF Taking, Extracted

LEMMA CommitsTaken ==
  ASSUME Steady, Ckpt, Chunks, Runs, NumbersBounded, Saved, NEW w \in Worker,
         Kept(run[w]), Taking(run[w]), WriteCommits(w)
  PROVE  Taking(run[w])' /\ Saved' /\ NumbersBounded'
<1>1. PICK B \in Batches(w) :
        /\ chunks' = WithChunk(w, "commits", RecordsOf("commits", B, run[w].snap))
        /\ run'[w].todo = run[w].todo \ B
        /\ run'[w].batch = B
        /\ run'[w].count = AfterWrite(w, "commits", B)
  BY WholeBatchEffect DEF Steady
<1>2. /\ run[w].pc = "commits" /\ run'[w].pc = "file_changes"
      /\ run'[w].snap = run[w].snap /\ run'[w].done = run[w].done /\ UNCHANGED ckpt
  BY WriteCommitsEffect DEF At, WriteCommits
<1> PICK d, old : d = run[w].done /\ old = run[w].count
  OBVIOUS
<1>3. /\ run[w].snap = Initial /\ run[w].todo = AllCommits \ d
      /\ Taken("commits", d, old["commits"])
      /\ Taken("file_changes", d, old["file_changes"])
  BY <1>2 DEF Taking, Kind
<1>4. IsBatch(B, d)
  BY <1>3 DEF Batches, IsBatch
<1>5. chunks' = WithChunk(w, "commits", RecordsOf("commits", B, Initial))
  BY <1>1, <1>3
<1>6. /\ run'[w].count["commits"] = old["commits"] + 1
      /\ run'[w].count["file_changes"] = old["file_changes"]
      /\ old["file_changes"] \in Nat /\ old["file_changes"] <= old["file_changes"]
  BY <1>1, <1>4, CountTyped, RunTyped DEF Kind, IsBatch
<1>7. /\ NumbersBounded'
      /\ Taken("commits", d \cup B, old["commits"] + 1)'
      /\ Taken("file_changes", d, old["file_changes"])'
  BY <1>3, <1>4, <1>5, <1>6, TakenAfterWrite DEF Kind
<1>8. Saved'
  BY <1>2, <1>3, <1>4, <1>5, SavedAfterWrite DEF Kind
<1>9. /\ run'[w].done = d /\ run'[w].batch = B /\ run'[w].snap = Initial
      /\ run'[w].todo = AllCommits \ (d \cup B)
  BY <1>1, <1>2, <1>3
<1>10. /\ Taken("commits", run[w].done \cup run[w].batch, run[w].count["commits"])'
       /\ Taken("file_changes", run[w].done, run[w].count["file_changes"])'
  BY <1>6, <1>7, <1>9
<1>11. Taking(run[w])'
  BY <1>2, <1>4, <1>9, <1>10 DEF Taking, Extracted
<1> QED
  BY <1>7, <1>8, <1>11

LEMMA FileChangesTaken ==
  ASSUME Steady, Ckpt, Chunks, Runs, NumbersBounded, Saved, NEW w \in Worker,
         Kept(run[w]), Taking(run[w]), WriteFileChanges(w)
  PROVE  Taking(run[w])' /\ Saved' /\ NumbersBounded'
<1> PICK d, b, old : d = run[w].done /\ b = run[w].batch /\ old = run[w].count
  OBVIOUS
<1> DEFINE rows == RecordsOf("file_changes", b, Initial)
<1>1. /\ run[w].pc = "file_changes" /\ run'[w].pc = "save" /\ UNCHANGED ckpt
      /\ chunks' = WithChunk(w, "file_changes", RecordsOf("file_changes", b, run[w].snap))
      /\ run'[w].snap = run[w].snap /\ run'[w].todo = run[w].todo /\ run'[w].done = d \cup b
      /\ run'[w].count = AfterWrite(w, "file_changes",
                                    RecordsOf("file_changes", b, run[w].snap))
  BY WriteFileChangesEffect DEF At, WriteFileChanges
<1>2. /\ run[w].snap = Initial /\ run[w].todo = AllCommits \ (d \cup b) /\ IsBatch(b, d)
      /\ Taken("commits", d \cup b, old["commits"])
      /\ Taken("file_changes", d, old["file_changes"])
  BY <1>1 DEF Taking
<1>3. chunks' = WithChunk(w, "file_changes", rows)
      /\ run'[w].count = AfterWrite(w, "file_changes", rows)
  BY <1>1, <1>2
<1> HIDE DEF rows
<1>4. rows # {} /\ NumbersBounded'
      /\ Taken("file_changes", d \cup b, old["file_changes"] + 1)'
  BY <1>2, <1>3, TakenAfterWrite DEF Kind, rows
<1>5. /\ run'[w].count["commits"] = old["commits"]
      /\ run'[w].count["file_changes"] = old["file_changes"] + 1
      /\ old["commits"] \in Nat /\ old["commits"] <= old["commits"]
  BY <1>3, <1>4, CountTyped, RunTyped DEF Kind
<1>6. Taken("commits", d \cup b, old["commits"])'
  BY <1>2, <1>3, <1>5, TakenAfterWrite DEF Kind, rows
<1>7. Saved'
  BY <1>1, <1>2, <1>3, SavedAfterWrite DEF Kind, rows
<1>8. \A k \in Kind : Taken(k, run[w].done, run[w].count[k])'
  BY <1>1, <1>4, <1>5, <1>6 DEF Kind
<1>9. Taking(run[w])'
  BY <1>1, <1>2, <1>8 DEF Taking, Extracted
<1> QED
  BY <1>4, <1>7, <1>9

LEMMA CommitsMergedOnce ==
  ASSUME Chunks, Runs, NumbersBounded, NEW w \in Worker, Taking(run[w]), Merge(w)
  PROVE  Taking(run[w])'
<1>1. /\ run[w].pc = "commits" /\ run'[w].pc = "merge" /\ UNCHANGED chunks
      /\ run'[w].snap = run[w].snap /\ run'[w].todo = {} /\ run[w].todo = {}
      /\ run'[w].done = run[w].done /\ run'[w].count = run[w].count
      /\ run'[w].table = [run[w].table EXCEPT !["commits"] = Merged("commits")]
  BY MergeEffect DEF At, Merge
<1>2. /\ run[w].snap = Initial /\ run[w].todo = AllCommits \ run[w].done
      /\ \A k \in Kind : Taken(k, run[w].done, run[w].count[k])
  BY <1>1 DEF Taking
<1>3. \A k \in Kind : Taken(k, run[w].done, run[w].count[k])'
  BY <1>1, <1>2, TakenStay
<1>4. run[w].done = AllCommits
  BY <1>1, <1>2 DEF Taken, Kind
<1>5. \A r \in Record("commits") : Merged("commits")[r] <= 1
  BY <1>2, <1>4, MergedAtMostOnce DEF Kind
<1>6. run'[w].table["commits"] = Merged("commits")
  BY <1>1, RunTyped DEF Tables, Kind
<1>7. AtMostOnce(run'[w].table, "commits")
  BY <1>5, <1>6 DEF AtMostOnce
<1> QED
  BY <1>1, <1>2, <1>3, <1>7 DEF Taking, Extracted

LEMMA FileChangesMergedOnce ==
  ASSUME Chunks, Runs, NumbersBounded, NEW w \in Worker, Taking(run[w]), MergeFileChanges(w)
  PROVE  Taking(run[w])'
<1>1. /\ run[w].pc = "merge" /\ run'[w].pc = "clean" /\ run'[w].snap = run[w].snap
      /\ run'[w].table = [run[w].table EXCEPT !["file_changes"] = Merged("file_changes")]
  BY MergeFileChangesEffect DEF At
<1>2. /\ run[w].snap = Initial /\ AllCommits \ run[w].done = {}
      /\ Taken("file_changes", run[w].done, run[w].count["file_changes"])
      /\ AtMostOnce(run[w].table, "commits")
  BY <1>1 DEF Taking, Kind
<1>3. run[w].done = AllCommits
  BY <1>2 DEF Taken
<1>4. \A r \in Record("file_changes") : Merged("file_changes")[r] <= 1
  BY <1>2, <1>3, MergedAtMostOnce DEF Kind
<1>5. run'[w].table["file_changes"] = Merged("file_changes")
      /\ run'[w].table["commits"] = run[w].table["commits"]
  BY <1>1, RunTyped DEF Tables, Kind
<1>6. \A k \in Kind : AtMostOnce(run'[w].table, k)
  BY <1>2, <1>4, <1>5 DEF AtMostOnce, Kind
<1> QED
  BY <1>1, <1>2, <1>6 DEF Taking, Extracted

LEMMA SteadyNext ==
  ASSUME Steady, Ckpt, Chunks, Runs, Looking, Extraction, SInv, [Next]_vars
  PROVE  (NumbersBounded /\ Saved /\ Takings)'
<1>0. /\ repo = Initial /\ NumbersBounded /\ Saved
      /\ \A w \in Worker : Taking(run[w]) /\ Kept(run[w])
      /\ \A v, w \in Worker : v = w
  BY DEF SInv, Takings, Extraction, Steady, OneRun
<1>1. CASE UNCHANGED <<run, chunks, ckpt>>
  <2>1. run' = run /\ chunks' = chunks /\ ckpt' = ckpt
    BY <1>1
  <2>2. \A k, S, n : Taken(k, S, n)' <=> Taken(k, S, n)
    BY <2>1, TakenStay
  <2>3. NumbersBounded' /\ Saved'
    BY <1>0, <2>1, <2>2 DEF NumbersBounded, Saved, Undeleted, At
  <2>4. Takings'
    BY <1>0, <2>1, <2>2 DEF Takings, Taking, AtMostOnce
  <2> QED
    BY <2>3, <2>4
<1>2. CASE Push \/ Share \/ Rewrite
  BY <1>1, <1>2 DEF Push, Share, Rewrite
<1> SUFFICES ASSUME NEW w \in Worker, RunStep(w)
             PROVE  Taking(run[w])' /\ Saved' /\ NumbersBounded'
  BY <1>0, <1>1, <1>2 DEF Next, vars, Takings
<1>3. Taking(run[w]) /\ Kept(run[w]) /\ \A v \in Worker : v = w
  BY <1>0
<1>4. UNCHANGED chunks => NumbersBounded'
  BY <1>0 DEF NumbersBounded
<1>5. /\ Undeleted <=> run[w].pc \notin {"delete", "forget"}
      /\ Undeleted' <=> run'[w].pc \notin {"delete", "forget"}
  BY <1>3 DEF Undeleted, At
<1>6. UNCHANGED <<chunks, ckpt>> /\ (Undeleted' => Undeleted) => Saved'
  BY <1>0, TakenStay DEF Saved
<1>7. CASE Start(w)
  <2>1. run'[w].pc = "load" /\ run'[w].snap = Initial /\ run[w].pc = "idle"
        /\ UNCHANGED <<chunks, ckpt>>
    BY <1>0, <1>7, StartEffect DEF Start, At
  <2> QED
    BY <1>4, <1>5, <1>6, <2>1 DEF Taking, Extracted
<1>8. CASE LoadNone(w) \/ LoadInvalid(w)
  <2>1. /\ run[w].pc = "load" /\ run'[w].pc = "tree" /\ UNCHANGED chunks
        /\ run'[w].todo = CommitsOf(run[w].snap) /\ run'[w].snap = run[w].snap
        /\ run'[w].done = {} /\ \A k \in Kind : run'[w].count[k] = 0
    BY <1>8, LoadNoneEffect, LoadInvalidEffect, NoneTyped
       DEF At, Looking, LoadNone, LoadInvalid
  <2>2. ckpt' = NoCkpt
    BY <1>8 DEF LoadNone, LoadInvalid, Steady, Faulty
  <2>3. \A k \in Kind : Taken(k, {}, 0)'
    BY <2>1, NoneTaken, TakenStay
  <2>4. \A k \in Kind : Taken(k, run[w].done, run[w].count[k])'
    BY <2>1, <2>3
  <2>5. run'[w].snap = Initial /\ run'[w].todo = AllCommits \ run'[w].done
    BY <1>3, <2>1 DEF Taking, AllCommits
  <2>6. Taking(run[w])'
    BY <2>1, <2>4, <2>5 DEF Taking, Extracted
  <2> QED
    BY <1>4, <2>1, <2>2, <2>6 DEF Saved
<1>9. CASE LoadValid(w)
  <2>1. /\ run[w].pc = "load" /\ run'[w].pc = "tree" /\ UNCHANGED <<chunks, ckpt>>
        /\ ckpt # NoCkpt
        /\ run'[w].todo = CommitsOf(run[w].snap) \ ckpt.done /\ run'[w].snap = run[w].snap
        /\ run'[w].done = ckpt.done /\ run'[w].count = ckpt.count
    BY <1>9, LoadValidEffect DEF At, LoadValid, Valid
  <2>2. \A k \in Kind : Taken(k, ckpt.done, ckpt.count[k])
    BY <1>0, <1>5, <2>1 DEF Saved
  <2>3. \A k \in Kind : Taken(k, run[w].done, run[w].count[k])'
    BY <2>1, <2>2, TakenStay
  <2>4. run'[w].snap = Initial /\ run'[w].todo = AllCommits \ run'[w].done
    BY <1>3, <2>1 DEF Taking, AllCommits
  <2>5. Taking(run[w])'
    BY <2>1, <2>3, <2>4 DEF Taking, Extracted
  <2> QED
    BY <1>4, <1>5, <1>6, <2>1, <2>5
<1>10. CASE TreeCheckpoint(w)
  <2>1. /\ run[w].pc = "tree" /\ run'[w].pc = "tree" /\ UNCHANGED chunks
        /\ run'[w].snap = run[w].snap /\ run'[w].todo = run[w].todo
        /\ run'[w].done = run[w].done /\ run'[w].count = run[w].count
        /\ ckpt'.done = {} /\ \A k \in Kind : ckpt'.count[k] = 0
    BY <1>10, TreeCheckpointEffect, NoneTyped DEF At, TreeCheckpoint
  <2>2. \A k \in Kind : Taken(k, {}, 0)'
    BY <2>1, NoneTaken, TakenStay
  <2>3. Saved'
    BY <2>1, <2>2 DEF Saved
  <2> QED
    BY <1>3, <1>4, <2>1, <2>3, TakingStays
<1>11. CASE TreeDone(w)
  <2>1. /\ run[w].pc = "tree" /\ run'[w].pc = "commits" /\ UNCHANGED <<chunks, ckpt>>
        /\ run'[w].snap = run[w].snap /\ run'[w].todo = run[w].todo
        /\ run'[w].done = run[w].done /\ run'[w].count = run[w].count
    BY <1>11, TreeDoneEffect DEF At, TreeDone
  <2> QED
    BY <1>3, <1>4, <1>5, <1>6, <2>1, TakingStays
<1>12. CASE WriteCommits(w)
  BY <1>0, <1>3, <1>12, CommitsTaken
<1>13. CASE WriteFileChanges(w)
  BY <1>0, <1>3, <1>13, FileChangesTaken
<1>14. CASE SaveCheckpoint(w)
  <2>1. /\ run[w].pc = "save" /\ run'[w].pc = "commits" /\ UNCHANGED chunks
        /\ run'[w].snap = run[w].snap /\ run'[w].todo = run[w].todo
        /\ run'[w].done = run[w].done /\ run'[w].count = run[w].count
    BY <1>14, SaveCheckpointEffect DEF At, SaveCheckpoint
  <2>2. \/ ckpt' = ckpt
        \/ ckpt'.done = run[w].done /\ ckpt'.count = run[w].count
    BY <1>14 DEF SaveCheckpoint, Processed
  <2>3. \A k \in Kind : Taken(k, run[w].done, run[w].count[k])
    BY <1>3, <2>1 DEF Taking
  <2>4. CASE ckpt' = ckpt
    BY <1>3, <1>4, <1>5, <1>6, <2>1, <2>4, TakingStays
  <2>5. CASE ckpt'.done = run[w].done /\ ckpt'.count = run[w].count
    <3>1. \A k \in Kind : Taken(k, ckpt.done, ckpt.count[k])'
      BY <2>1, <2>3, <2>5, TakenStay
    <3> QED
      BY <1>3, <1>4, <2>1, <3>1, TakingStays DEF Saved
  <2> QED
    BY <2>2, <2>4, <2>5
<1>15. CASE Merge(w)
  <2>1. UNCHANGED <<chunks, ckpt>> /\ run[w].pc = "commits"
    BY <1>15 DEF Merge, At
  <2> QED
    BY <1>0, <1>3, <1>4, <1>5, <1>6, <1>15, <2>1, CommitsMergedOnce
<1>16. CASE MergeFileChanges(w)
  <2>1. UNCHANGED <<chunks, ckpt>> /\ run[w].pc = "merge"
    BY <1>16 DEF MergeFileChanges, At
  <2> QED
    BY <1>0, <1>3, <1>4, <1>5, <1>6, <1>16, <2>1, FileChangesMergedOnce
<1>17. CASE ListChunks(w) \/ DeleteChunks(w) \/ ForgetCheckpoint(w)
  <2>1. /\ run[w].pc \in Extracted /\ run'[w].pc \in {"delete", "forget", "publish"}
        /\ run'[w].snap = run[w].snap /\ run'[w].table = run[w].table
    BY <1>17, ListChunksEffect, DeleteChunksEffect, ForgetCheckpointEffect
       DEF At, Extracted
  <2>2. Taking(run[w])'
    BY <1>3, <2>1 DEF Taking, AtMostOnce, Extracted
  <2>3. run'[w].pc = "publish" => ckpt' = NoCkpt
    BY <1>17, ListChunksEffect, DeleteChunksEffect
       DEF ForgetCheckpoint, Faulty, Steady
  <2>4. Saved'
    BY <1>5, <2>1, <2>3 DEF Saved
  <2>5. NumbersBounded'
    <3>1. CASE UNCHANGED chunks
      BY <1>4, <3>1
    <3>2. CASE \E B : chunks' = WithoutChunks(B)
      <4>1. \A k \in Kind : DOMAIN chunks'[k] \subseteq DOMAIN chunks[k]
        BY <3>2, KeysDeleted
      <4> QED
        BY <1>0, <4>1 DEF NumbersBounded
    <3> QED
      BY <1>17, <3>1, <3>2 DEF ListChunks, DeleteChunks, ForgetCheckpoint
  <2> QED
    BY <2>2, <2>4, <2>5
<1>18. CASE Publish(w) \/ Fail(w)
  <2>1. run'[w].pc = "idle" /\ UNCHANGED <<chunks, ckpt>>
    BY <1>18, EndEffect DEF At, Publish, Fail
  <2>2. run[w].pc \notin {"delete", "forget"}
    BY <1>18 DEF Publish, Fail, At, Faulty, Steady
  <2> QED
    BY <1>4, <1>5, <1>6, <2>1, <2>2 DEF Taking, Extracted
<1> QED
  BY <1>7, <1>8, <1>9, <1>10, <1>11, <1>12, <1>13, <1>14, <1>15, <1>16, <1>17, <1>18
     DEF RunStep

LEMMA OnceNext ==
  ASSUME Takings, PublishedOnce, [Next]_vars
  PROVE  PublishedOnce'
<1>1. CASE UNCHANGED published
  BY <1>1 DEF PublishedOnce
<1>2. ASSUME NEW w \in Worker, Publish(w) PROVE PublishedOnce'
  <2>1. run[w].pc = "publish" /\ published'.table = run[w].table
    BY <1>2 DEF Publish, At
  <2>2. \A k \in Kind : AtMostOnce(run[w].table, k)
    BY <2>1 DEF Takings, Taking, Extracted
  <2> QED
    BY <2>1, <2>2 DEF PublishedOnce, AtMostOnce
<1>3. UNCHANGED published \/ \E w \in Worker : Publish(w)
  BY DEF Next, vars, RunStep, Push, Share, Rewrite, Start, LoadNone, LoadInvalid,
     LoadValid, TreeCheckpoint, TreeDone, WriteCommits, WriteFileChanges, SaveCheckpoint,
     Merge, MergeFileChanges, ListChunks, DeleteChunks, ForgetCheckpoint, Fail
<1> QED
  BY <1>1, <1>2, <1>3

LEMMA InitSInv == Init => SInv
<1> SUFFICES ASSUME Init PROVE SInv
  OBVIOUS
<1>1. /\ repo = Initial /\ ckpt = NoCkpt
      /\ \A k \in Kind : DOMAIN chunks[k] = {}
      /\ \A w \in Worker : run[w].pc = "idle"
      /\ published.table = NoTables
  BY NoneTyped DEF Init, NoChunks, NotPublished
<1>2. \A k \in Kind : \A r \in Record(k) : NoTables[k][r] = 0
  BY DEF NoTables
<1> QED
  BY <1>1, <1>2 DEF SInv, NumbersBounded, Saved, Takings, Taking, PublishedOnce, Extracted

LEMMA NextSInv ==
  ASSUME Steady, RInv, SInv, [Next]_vars
  PROVE  SInv'
<1>1. repo' = Initial
  BY AtRest DEF SInv
<1>2. PublishedOnce'
  BY OnceNext DEF SInv
<1>3. (NumbersBounded /\ Saved /\ Takings)'
  BY SteadyNext DEF RInv, TInv
<1> QED
  BY <1>1, <1>2, <1>3 DEF SInv

(* What a run extracts again after a crash or a lost checkpoint replaces   *)
(* what was there: the chunks it writes have the numbers of those it makes *)
(* superfluous, and a publication has no record twice.                     *)
THEOREM PublicationsHaveNoRecordTwice ==
  ASSUME Steady
  PROVE  Spec => []PublishedOnce
<1>1. RInv /\ SInv /\ [Next]_vars => SInv'
  BY NextSInv
<1>2. Spec => []RInv
  BY SteadyIsResumable, ResumedInvariance
<1>3. SInv => PublishedOnce
  BY DEF SInv
<1> QED
  BY <1>1, <1>2, <1>3, InitSInv, PTL DEF Spec
=============================================================================
