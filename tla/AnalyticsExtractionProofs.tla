---------------------- MODULE AnalyticsExtractionProofs ----------------------
(***************************************************************************)
(* Theorems about AnalyticsExtraction, for any commits, branches, batches  *)
(* and bounds: types, and how many chunks a run can number, for any runs   *)
(* at a time and any faults; what checkpoints and publications are worth,  *)
(* for one run at a time and the faults a resume is made for.              *)
(***************************************************************************)
EXTENDS AnalyticsExtraction, FiniteSetTheorems, TLAPS

Limit == Cardinality(Commit)

Tables == {t \in [Kind -> [Record("commits") -> Nat] \cup [Record("file_changes") -> Nat]] :
             IsTables(t)}

RunState ==
  [pc : Stages, snap : Clones, todo : SUBSET Commit, done : SUBSET Commit,
   count : [Kind -> Nat], cached : SUBSET Commit, batch : SUBSET Commit,
   failed : SUBSET Commit, table : Tables, keys : SUBSET (Kind \X (0 .. Limit))]

CkptState ==
  [last : Commit, done : SUBSET Commit, count : [Kind -> Nat], cached : SUBSET Commit]

(* The repository, and the bounded counters.                               *)
Repo ==
  /\ repo \in Clones /\ CommitsOf(repo) # {}
  /\ calm \in 0 .. 2 /\ runs \in 0 .. MaxRuns /\ changes \in 0 .. MaxChanges

Runs ==
  /\ run \in [Worker -> RunState]
  /\ \A w \in Worker : ~At(w, "idle") => CommitsOf(run[w].snap) # {}

Ckpt == ckpt \in CkptState \cup {NoCkpt}

Chunks ==
  /\ DOMAIN chunks = Kind
  /\ \A k \in Kind :
       /\ DOMAIN chunks[k] \subseteq 0 .. Limit
       /\ \A i \in DOMAIN chunks[k] : chunks[k][i] \in (SUBSET Record(k)) \ {{}}

Public ==
  /\ published.snap \in Clones /\ published.failed \subseteq Commit
  /\ published.table \in Tables /\ published.calm \in 0 .. 2

(* The commits that chunks of kind k of run r were numbered for.           *)
Covered(r, k) ==
  IF r.pc = "file_changes" /\ k = "commits" THEN r.done \cup r.batch ELSE r.done

(* A run numbers at most one chunk for each commit it, or a run whose      *)
(* checkpoint it took, has processed; no commit is processed again.        *)
Numbered ==
  /\ \A w \in Worker :
       /\ run[w].todo \cap run[w].done = {}
       /\ At(w, "file_changes") => run[w].batch \cap (run[w].todo \cup run[w].done) = {}
       /\ \A k \in Kind : run[w].count[k] <= Cardinality(Covered(run[w], k))
  /\ ckpt # NoCkpt => \A k \in Kind : ckpt.count[k] <= Cardinality(ckpt.done)

(* A run that looks for a checkpoint has done nothing.                     *)
Looking ==
  \A w \in Worker : At(w, "load") =>
    run[w].done = {} /\ run[w].count = NoCounts /\ run[w].batch = {}

TInv == Repo /\ Runs /\ Ckpt /\ Chunks /\ Public /\ Looking /\ Numbered

(* What resuming is made for: one run at a time that may crash, fail to    *)
(* upload a checkpoint or to process a commit, while users push commits.   *)
Resumable ==
  /\ \A v, w \in Worker : v = w
  /\ Faults \subseteq {"crash", "save", "commit", "push"}

(* The records of the commits S are in the chunks before index n.          *)
InChunks(k, S, n) ==
  \A r \in RecordsOf(k, S, repo) :
    \E i \in DOMAIN chunks[k] : i < n /\ r \in chunks[k][i]

Undeleted == \A w \in Worker : ~At(w, "delete") /\ ~At(w, "forget")

(* What a checkpoint counts as done is in the chunks it counts.            *)
Vouched ==
  ckpt # NoCkpt /\ Undeleted =>
    /\ ckpt.done \subseteq CommitsOf(repo)
    /\ \A k \in Kind : InChunks(k, ckpt.done, ckpt.count[k])

(* Since a run cloned the repository, it got nothing but new commits.      *)
Cloned ==
  \A w \in Worker : ~At(w, "idle") =>
    \A b \in Branch : repo[b] \cap CommitsOf(run[w].snap) = run[w].snap[b]

Full(r, k) ==
  \A x \in RecordsOf(k, CommitsOf(r.snap) \ r.failed, r.snap) : r.table[k][x] >= 1

Extracting == {"tree", "commits", "file_changes", "save"}
Extracted == {"clean", "delete", "forget", "publish"}

(* What run r has done is in the chunks it has numbered, then in tables.   *)
Kept(r) ==
  /\ r.pc \in Extracting \cup {"merge"} =>
       /\ r.todo \cup r.batch \subseteq CommitsOf(r.snap)
       /\ r.done \subseteq CommitsOf(repo)
       /\ CommitsOf(r.snap) \subseteq r.todo \cup r.done \cup r.failed \cup r.batch
       /\ \A k \in Kind : InChunks(k, r.done, r.count[k])
  /\ r.pc \in Extracting /\ ckpt # NoCkpt => \A k \in Kind : ckpt.count[k] <= r.count[k]
  /\ r.pc \in {"tree", "commits", "merge"} => r.batch = {}
  /\ r.pc = "save" => r.batch \subseteq r.done
  /\ r.pc = "file_changes" => InChunks("commits", r.batch, r.count["commits"])
  /\ r.pc = "merge" => r.todo = {} /\ Full(r, "commits")
  /\ r.pc \in Extracted => \A k \in Kind : Full(r, k)

Extraction == \A w \in Worker : Kept(run[w])

RInv == TInv /\ Vouched /\ Cloned /\ Extraction /\ PublishedComplete
------------------------------------------------------------------------------
(* Facts about the operators of the model.                                 *)

LEMMA CommitsTyped ==
  ASSUME NEW snap \in Clones
  PROVE  /\ CommitsOf(snap) \subseteq Commit
         /\ \A b \in Branch : snap[b] \subseteq CommitsOf(snap)
         /\ \A c \in CommitsOf(snap) : \E b \in Branch : c \in snap[b]
BY DEF CommitsOf, Clones

LEMMA Sizes ==
  /\ Limit \in Nat
  /\ \A S \in SUBSET Commit :
       IsFiniteSet(S) /\ Cardinality(S) \in Nat /\ Cardinality(S) <= Limit
BY ExtractionAssumption, FS_Subset, FS_CardinalityType DEF Limit

LEMMA NoneTyped ==
  /\ NoTables \in Tables /\ NoCommits \in Clones
  /\ NoCounts \in [Kind -> Nat] /\ \A k \in Kind : NoCounts[k] = 0
  /\ Idle \in RunState /\ Idle.pc = "idle"
<1>1. NoTables \in Tables
  BY DEF NoTables, Tables, IsTables, Kind
<1>2. NoCommits \in Clones /\ NoCounts \in [Kind -> Nat]
      /\ \A k \in Kind : NoCounts[k] = 0
  BY DEF NoCommits, NoCounts, Clones
<1>3. "idle" \in Stages
  BY DEF Stages
<1> QED
  BY <1>1, <1>2, <1>3 DEF Idle, RunState

LEMMA CountTyped ==
  ASSUME Runs, NEW w \in Worker, NEW k \in Kind, NEW rows
  PROVE  /\ AfterWrite(w, k, rows) \in [Kind -> Nat]
         /\ \A j \in Kind \ {k} : AfterWrite(w, k, rows)[j] = run[w].count[j]
         /\ AfterWrite(w, k, rows)[k] =
              IF rows = {} THEN run[w].count[k] ELSE run[w].count[k] + 1
<1>1. run[w].count \in [Kind -> Nat]
  BY DEF Runs, RunState
<1> QED
  BY <1>1 DEF AfterWrite

(* A merge counts records of finitely many chunks.                         *)
LEMMA MergedTyped ==
  ASSUME Chunks, NEW k \in Kind
  PROVE  Merged(k) \in [Record(k) -> Nat]
<1>1. IsFiniteSet(DOMAIN chunks[k])
  <2>1. 0 \in Int /\ Limit \in Int
    BY Sizes
  <2>2. IsFiniteSet(0 .. Limit)
    BY <2>1, FS_Interval
  <2> QED
    BY <2>2, FS_Subset DEF Chunks
<1>2. ASSUME NEW r \in Record(k)
      PROVE  Quantify(DOMAIN chunks[k], LAMBDA i : r \in chunks[k][i]) \in Nat
  <2> DEFINE S == {i \in DOMAIN chunks[k] : r \in chunks[k][i]}
  <2>1. IsFiniteSet(S)
    BY <1>1, FS_Subset
  <2>2. Cardinality(S) \in Nat
    BY <2>1, FS_CardinalityType
  <2> QED
    BY <2>2 DEF Quantify
<1> QED
  BY <1>2 DEF Merged

LEMMA TableTyped ==
  ASSUME NEW t \in Tables, NEW k \in Kind, NEW f \in [Record(k) -> Nat]
  PROVE  [t EXCEPT ![k] = f] \in Tables
<1>1. \A j \in Kind : j = "commits" \/ j = "file_changes"
  BY DEF Kind
<1>2. t \in [Kind -> [Record("commits") -> Nat] \cup [Record("file_changes") -> Nat]]
      /\ \A j \in Kind : t[j] \in [Record(j) -> Nat]
  BY DEF Tables, IsTables
<1>3. f \in [Record("commits") -> Nat] \cup [Record("file_changes") -> Nat]
  BY <1>1
<1>4. [t EXCEPT ![k] = f]
        \in [Kind -> [Record("commits") -> Nat] \cup [Record("file_changes") -> Nat]]
  BY <1>2, <1>3
<1>5. \A j \in Kind : [t EXCEPT ![k] = f][j] \in [Record(j) -> Nat]
  BY <1>2
<1> QED
  BY <1>4, <1>5 DEF Tables, IsTables

(* commits_topo of a clone has a last commit.                              *)
LEMMA LastTyped ==
  ASSUME NEW snap \in Clones, CommitsOf(snap) # {}
  PROVE  Last(snap) \in Commit
<1> DEFINE All == CommitsOf(snap)
           after(c) == All \ UpTo(c, snap)
<1>1. All \subseteq Commit /\ IsFiniteSet(All)
  BY CommitsTyped, Sizes
<1>2. ASSUME NEW c \in All PROVE FirstBranch(c, snap) \in Nat
  <2> DEFINE Bs == {b \in Branch : c \in snap[b]}
             Less == OpToRel(<, Nat)
  <2>1. Bs \subseteq Nat /\ Bs # {}
    BY CommitsTyped, ExtractionAssumption
  <2>2. \E x \in Bs : \A y \in Bs : ~ (<<y, x>> \in Less)
    BY <2>1, NatLessThanWellFounded, WFMin
  <2>3. ASSUME NEW x \in Nat, NEW y \in Nat, y < x PROVE <<y, x>> \in Less
    BY <2>3 DEF OpToRel
  <2> HIDE DEF Less
  <2>5. \E x \in Bs : \A y \in Bs : x <= y
    <3>1. PICK x \in Bs : \A y \in Bs : ~ (<<y, x>> \in Less)
      BY <2>2
    <3>2. ASSUME NEW y \in Bs PROVE x <= y
      <4>1. x \in Nat /\ y \in Nat
        BY <2>1
      <4>2. ~ (y < x)
        BY <2>3, <3>1, <4>1
      <4> QED
        BY <4>1, <4>2
    <3> QED
      BY <3>2
  <2>4. Min(Bs) \in Bs
    BY <2>5 DEF Min
  <2> QED
    BY <2>1, <2>4 DEF FirstBranch
<1>3. \E c \in All : \A d \in All : <<after(d), after(c)>> \notin StrictSubsetOrdering(All)
  <2> DEFINE T == {after(c) : c \in All}
  <2>1. IsWellFoundedOn(StrictSubsetOrdering(All), SUBSET All)
    BY <1>1, FS_StrictSubsetOrderingWellFounded, FS_FiniteSubsetsOfFinite
  <2>2. T \subseteq SUBSET All /\ T # {}
    OBVIOUS
  <2> HIDE DEF T
  <2>3. \E x \in T : \A y \in T : ~ (<<y, x>> \in StrictSubsetOrdering(All))
    BY <2>1, <2>2, WFMin
  <2> QED
    BY <2>3 DEF T
<1>4. PICK c \in All :
        \A d \in All : <<after(d), after(c)>> \notin StrictSubsetOrdering(All)
  BY <1>3
<1>5. \A d \in All : d \in Nat
  BY <1>1, ExtractionAssumption
<1>6. UpTo(c, snap) = All
  <2> SUFFICES ASSUME NEW d \in All, d \notin UpTo(c, snap) PROVE FALSE
    BY DEF UpTo
  <2>1. \/ FirstBranch(c, snap) < FirstBranch(d, snap)
        \/ FirstBranch(c, snap) = FirstBranch(d, snap) /\ c < d
    BY <1>2, <1>5 DEF UpTo
  <2>2. UpTo(c, snap) \subseteq UpTo(d, snap)
    BY <1>2, <1>5, <2>1 DEF UpTo
  <2>3. d \in UpTo(d, snap) /\ UpTo(d, snap) \subseteq All
    BY <1>2, <1>5 DEF UpTo
  <2>4. after(d) \subseteq after(c) /\ after(d) # after(c) /\ after(c) \subseteq All
    BY <2>2, <2>3
  <2> HIDE DEF after
  <2>5. <<after(d), after(c)>> \in StrictSubsetOrdering(All)
    BY <2>4 DEF StrictSubsetOrdering
  <2> QED
    BY <1>4, <2>5
<1>7. Last(snap) \in All
  BY <1>6 DEF Last
<1> QED
  BY <1>1, <1>7

(* The chunks after a write: one more, or the one at that index replaced.  *)
LEMMA ChunkWritten ==
  ASSUME Chunks, NEW w \in Worker, NEW k \in Kind, NEW rows \in SUBSET Record(k),
         chunks' = WithChunk(w, k, rows)
  PROVE  /\ DOMAIN chunks' = Kind
         /\ \A j \in Kind \ {k} : chunks'[j] = chunks[j]
         /\ DOMAIN chunks'[k] \subseteq DOMAIN chunks[k] \cup {run[w].count[k]}
         /\ DOMAIN chunks[k] \subseteq DOMAIN chunks'[k]
         /\ \A i \in DOMAIN chunks[k] : i # run[w].count[k] => chunks'[k][i] = chunks[k][i]
         /\ rows # {} => /\ run[w].count[k] \in DOMAIN chunks'[k]
                         /\ chunks'[k][run[w].count[k]] = rows
         /\ \A i \in DOMAIN chunks'[k] : chunks'[k][i] \in (SUBSET Record(k)) \ {{}}
<1>1. CASE rows = {}
  BY <1>1 DEF WithChunk, Chunks
<1>2. CASE rows # {}
  <2> DEFINE n == run[w].count[k]
             f == [i \in DOMAIN chunks[k] \cup {n} |-> IF i = n THEN rows ELSE chunks[k][i]]
  <2>1. chunks' = [chunks EXCEPT ![k] = f]
    BY <1>2 DEF WithChunk
  <2>2. DOMAIN chunks' = Kind /\ (\A j \in Kind \ {k} : chunks'[j] = chunks[j])
        /\ chunks'[k] = f
    BY <2>1 DEF Chunks
  <2>3. ASSUME NEW i \in DOMAIN f PROVE f[i] \in (SUBSET Record(k)) \ {{}}
    <3>1. i # n => i \in DOMAIN chunks[k] /\ f[i] = chunks[k][i]
      OBVIOUS
    <3>2. i = n => f[i] = rows
      OBVIOUS
    <3>3. rows \in SUBSET Record(k) /\ rows \notin {{}}
      BY <1>2
    <3> HIDE DEF f, n
    <3> QED
      BY <3>1, <3>2, <3>3 DEF Chunks
  <2> QED
    BY <1>2, <2>2, <2>3
<1> QED
  BY <1>1, <1>2

(* The run of w changes, those of the others do not.                       *)
LEMMA RunMoves ==
  ASSUME Runs, NEW w \in Worker, NEW r \in RunState, GoOn(w, r),
         r.pc # "idle" => CommitsOf(r.snap) # {}
  PROVE  Runs'
<1>1. run' \in [Worker -> RunState]
  BY DEF Runs, GoOn
<1>2. \A v \in Worker : run'[v] = IF v = w THEN r ELSE run[v]
  BY DEF Runs, GoOn
<1>3. \A v \in Worker : ~At(v, "idle")' => CommitsOf(run'[v].snap) # {}
  BY <1>2 DEF Runs, At
<1> QED
  BY <1>1, <1>3 DEF Runs, At

LEMMA RunTyped ==
  ASSUME Runs, NEW w \in Worker
  PROVE  /\ run[w] \in RunState
         /\ run[w].pc \in Stages /\ run[w].snap \in Clones
         /\ run[w].todo \subseteq Commit /\ run[w].done \subseteq Commit
         /\ run[w].cached \subseteq Commit /\ run[w].batch \subseteq Commit
         /\ run[w].failed \subseteq Commit
         /\ run[w].count \in [Kind -> Nat] /\ run[w].table \in Tables
         /\ run[w].keys \subseteq Kind \X (0 .. Limit)
         /\ CommitsOf(run[w].snap) \subseteq Commit
BY CommitsTyped DEF Runs, RunState

(* The repository has commits, and the counters are bounded.               *)
LEMMA RepoNext ==
  ASSUME Repo, [Next]_vars
  PROVE  Repo'
<1>1. ASSUME UNCHANGED <<repo, calm, runs, changes>> PROVE Repo'
  BY <1>1 DEF Repo
<1>2. ASSUME Push PROVE Repo'
  <2>1. repo' \in Clones
    BY <1>2, CommitsTyped DEF Push, Repo, Clones
  <2>2. CommitsOf(repo') # {}
    BY <1>2, CommitsTyped, <2>1 DEF Push, Repo, Clones, CommitsOf
  <2>3. changes < MaxChanges /\ changes' = changes + 1 /\ UNCHANGED <<calm, runs>>
    BY <1>2 DEF Push
  <2>4. changes' \in 0 .. MaxChanges
    BY <2>3, ExtractionAssumption DEF Repo
  <2> QED
    BY <2>1, <2>2, <2>3, <2>4 DEF Repo
<1>3. ASSUME Share PROVE Repo'
  <2>1. repo' \in Clones
    BY <1>3, CommitsTyped DEF Share, Repo, Clones
  <2>2. CommitsOf(repo') # {}
    BY <1>3, CommitsTyped, <2>1 DEF Share, Repo, Clones, CommitsOf
  <2>3. changes < MaxChanges /\ changes' = changes + 1 /\ UNCHANGED <<calm, runs>>
    BY <1>3 DEF Share
  <2>4. changes' \in 0 .. MaxChanges
    BY <2>3, ExtractionAssumption DEF Repo
  <2> QED
    BY <2>1, <2>2, <2>3, <2>4 DEF Repo
<1>4. ASSUME Rewrite PROVE Repo'
  <2>1. repo' \in Clones
    BY <1>4, CommitsTyped DEF Rewrite, Repo, Clones
  <2>2. CommitsOf(repo') # {}
    BY <1>4, CommitsTyped, <2>1 DEF Rewrite, Repo
  <2>3. changes < MaxChanges /\ changes' = changes + 1 /\ UNCHANGED <<calm, runs>>
    BY <1>4 DEF Rewrite
  <2>4. changes' \in 0 .. MaxChanges
    BY <2>3, ExtractionAssumption DEF Repo
  <2> QED
    BY <2>1, <2>2, <2>3, <2>4 DEF Repo
<1>5. ASSUME NEW w \in Worker, Start(w) PROVE Repo'
  BY <1>5, ExtractionAssumption DEF Start, Repo
<1>6. ASSUME NEW w \in Worker, LoadNone(w) PROVE Repo'
  <2>1. calm' = calm \/ calm' = 0
    BY <1>6 DEF LoadNone, NoFault, Faulty
  <2>2. UNCHANGED <<repo, runs, changes>>
    BY <1>6 DEF LoadNone
  <2> QED
    BY <2>1, <2>2 DEF Repo
<1>7. ASSUME NEW w \in Worker, LoadInvalid(w) PROVE Repo'
  <2>1. calm' = calm \/ calm' = 0
    BY <1>7 DEF LoadInvalid, NoFault, Faulty
  <2>2. UNCHANGED <<repo, runs, changes>>
    BY <1>7 DEF LoadInvalid
  <2> QED
    BY <2>1, <2>2 DEF Repo
<1>8. ASSUME NEW w \in Worker, LoadValid(w) PROVE Repo'
  <2>1. calm' = calm \/ calm' = 0
    BY <1>8 DEF LoadValid, NoFault, Faulty
  <2>2. UNCHANGED <<repo, runs, changes>>
    BY <1>8 DEF LoadValid
  <2> QED
    BY <2>1, <2>2 DEF Repo
<1>9. ASSUME NEW w \in Worker, TreeCheckpoint(w) PROVE Repo'
  <2>1. calm' = calm \/ calm' = 0
    BY <1>9 DEF TreeCheckpoint, NoFault, Faulty
  <2>2. UNCHANGED <<repo, runs, changes>>
    BY <1>9 DEF TreeCheckpoint
  <2> QED
    BY <2>1, <2>2 DEF Repo
<1>10. ASSUME NEW w \in Worker, TreeDone(w) PROVE Repo'
  <2>1. calm' = calm \/ calm' = 0
    BY <1>10 DEF TreeDone, NoFault, Faulty
  <2>2. UNCHANGED <<repo, runs, changes>>
    BY <1>10 DEF TreeDone
  <2> QED
    BY <2>1, <2>2 DEF Repo
<1>11. ASSUME NEW w \in Worker, WriteCommits(w) PROVE Repo'
  <2>1. calm' = calm \/ calm' = 0
    BY <1>11 DEF WriteCommits, NoFault, Faulty
  <2>2. UNCHANGED <<repo, runs, changes>>
    BY <1>11 DEF WriteCommits
  <2> QED
    BY <2>1, <2>2 DEF Repo
<1>12. ASSUME NEW w \in Worker, WriteFileChanges(w) PROVE Repo'
  <2>1. calm' = calm \/ calm' = 0
    BY <1>12 DEF WriteFileChanges, NoFault, Faulty
  <2>2. UNCHANGED <<repo, runs, changes>>
    BY <1>12 DEF WriteFileChanges
  <2> QED
    BY <2>1, <2>2 DEF Repo
<1>13. ASSUME NEW w \in Worker, SaveCheckpoint(w) PROVE Repo'
  <2>1. calm' = calm \/ calm' = 0
    BY <1>13 DEF SaveCheckpoint, NoFault, Faulty
  <2>2. UNCHANGED <<repo, runs, changes>>
    BY <1>13 DEF SaveCheckpoint
  <2> QED
    BY <2>1, <2>2 DEF Repo
<1>14. ASSUME NEW w \in Worker, Merge(w) PROVE Repo'
  <2>1. calm' = calm \/ calm' = 0
    BY <1>14 DEF Merge, NoFault, Faulty
  <2>2. UNCHANGED <<repo, runs, changes>>
    BY <1>14 DEF Merge
  <2> QED
    BY <2>1, <2>2 DEF Repo
<1>15. ASSUME NEW w \in Worker, MergeFileChanges(w) PROVE Repo'
  <2>1. calm' = calm \/ calm' = 0
    BY <1>15 DEF MergeFileChanges, NoFault, Faulty
  <2>2. UNCHANGED <<repo, runs, changes>>
    BY <1>15 DEF MergeFileChanges
  <2> QED
    BY <2>1, <2>2 DEF Repo
<1>16. ASSUME NEW w \in Worker, ListChunks(w) PROVE Repo'
  <2>1. calm' = calm \/ calm' = 0
    BY <1>16 DEF ListChunks, NoFault, Faulty
  <2>2. UNCHANGED <<repo, runs, changes>>
    BY <1>16 DEF ListChunks
  <2> QED
    BY <2>1, <2>2 DEF Repo
<1>17. ASSUME NEW w \in Worker, DeleteChunks(w) PROVE Repo'
  <2>1. calm' = calm \/ calm' = 0
    BY <1>17 DEF DeleteChunks, NoFault, Faulty
  <2>2. UNCHANGED <<repo, runs, changes>>
    BY <1>17 DEF DeleteChunks
  <2> QED
    BY <2>1, <2>2 DEF Repo
<1>18. ASSUME NEW w \in Worker, ForgetCheckpoint(w) PROVE Repo'
  <2>1. calm' = calm \/ calm' = 0
    BY <1>18 DEF ForgetCheckpoint, NoFault, Faulty
  <2>2. UNCHANGED <<repo, runs, changes>>
    BY <1>18 DEF ForgetCheckpoint
  <2> QED
    BY <2>1, <2>2 DEF Repo
<1>19. ASSUME NEW w \in Worker, Publish(w) PROVE Repo'
  <2>1. calm' = calm \/ calm' = 0
    BY <1>19 DEF Publish, NoFault, Faulty
  <2>2. UNCHANGED <<repo, runs, changes>>
    BY <1>19 DEF Publish
  <2> QED
    BY <2>1, <2>2 DEF Repo
<1>20. ASSUME NEW w \in Worker, Fail(w) PROVE Repo'
  <2>1. calm' = calm \/ calm' = 0
    BY <1>20 DEF Fail, NoFault, Faulty
  <2>2. UNCHANGED <<repo, runs, changes>>
    BY <1>20 DEF Fail
  <2> QED
    BY <2>1, <2>2 DEF Repo
<1> QED
  BY <1>1, <1>2, <1>3, <1>4, <1>5, <1>6, <1>7, <1>8, <1>9, <1>10, <1>11,
     <1>12, <1>13, <1>14, <1>15, <1>16, <1>17, <1>18, <1>19, <1>20 DEF Next,
     RunStep, vars

(* What a run keeps is typed.                                              *)
LEMMA RunsNext ==
  ASSUME Repo, Ckpt, Chunks, Runs, [Next]_vars
  PROVE  Runs'
<1>1. ASSUME UNCHANGED <<run>> PROVE Runs'
  BY <1>1 DEF Runs, At
<1>2. ASSUME NEW w \in Worker, Start(w) PROVE Runs'
  <2> DEFINE r == [Idle EXCEPT !.pc = "load", !.snap = repo]
  <2>1. r \in RunState /\ r.snap = repo
    BY NoneTyped DEF Repo, RunState, Stages
  <2>2. GoOn(w, r)
    BY <1>2 DEF Start
  <2> HIDE DEF r
  <2> QED
    BY <2>1, <2>2, RunMoves DEF Repo
<1>3. ASSUME NEW w \in Worker, LoadNone(w) PROVE Runs'
  <2>1. run[w] \in RunState /\ CommitsOf(run[w].snap) # {}
    BY <1>3, RunTyped DEF LoadNone, At, Runs
  <2>2. CommitsOf(run[w].snap) \subseteq Commit
    BY RunTyped
  <2> DEFINE r == [run[w] EXCEPT !.pc = "tree", !.todo = CommitsOf(run[w].snap)]
  <2>3. r \in RunState /\ r.snap = run[w].snap
    BY <2>1, <2>2 DEF RunState, Stages
  <2>4. GoOn(w, r)
    BY <1>3 DEF LoadNone, Fresh
  <2> HIDE DEF r
  <2> QED
    BY <2>1, <2>3, <2>4, RunMoves
<1>4. ASSUME NEW w \in Worker, LoadInvalid(w) PROVE Runs'
  <2>1. run[w] \in RunState /\ CommitsOf(run[w].snap) # {}
    BY <1>4, RunTyped DEF LoadInvalid, At, Runs
  <2>2. CommitsOf(run[w].snap) \subseteq Commit
    BY RunTyped
  <2> DEFINE r == [run[w] EXCEPT !.pc = "tree", !.todo = CommitsOf(run[w].snap)]
  <2>3. r \in RunState /\ r.snap = run[w].snap
    BY <2>1, <2>2 DEF RunState, Stages
  <2>4. GoOn(w, r)
    BY <1>4 DEF LoadInvalid, Fresh
  <2> HIDE DEF r
  <2> QED
    BY <2>1, <2>3, <2>4, RunMoves
<1>5. ASSUME NEW w \in Worker, LoadValid(w) PROVE Runs'
  <2>1. run[w] \in RunState /\ CommitsOf(run[w].snap) # {}
    BY <1>5, RunTyped DEF LoadValid, At, Runs
  <2>2. ckpt \in CkptState /\ CommitsOf(run[w].snap) \subseteq Commit
    BY <1>5, RunTyped DEF LoadValid, Valid, Ckpt
  <2> DEFINE r == [run[w] EXCEPT !.pc = "tree",
                                 !.todo = CommitsOf(run[w].snap) \ ckpt.done,
                                 !.done = ckpt.done, !.count = ckpt.count,
                                 !.cached = ckpt.cached]
  <2>3. r \in RunState /\ r.snap = run[w].snap
    BY <2>1, <2>2 DEF RunState, Stages, CkptState
  <2>4. GoOn(w, r)
    BY <1>5 DEF LoadValid
  <2> HIDE DEF r
  <2> QED
    BY <2>1, <2>3, <2>4, RunMoves
<1>6. ASSUME NEW w \in Worker, TreeCheckpoint(w) PROVE Runs'
  <2>1. run[w] \in RunState /\ CommitsOf(run[w].snap) # {}
    BY <1>6, RunTyped DEF TreeCheckpoint, At, Runs
  <2>2. PICK c \in CommitsOf(run[w].snap) \ run[w].cached :
          GoOn(w, [run[w] EXCEPT !.cached = run[w].cached \cup UpTo(c, run[w].snap)])
    BY <1>6 DEF TreeCheckpoint
  <2> DEFINE s == run[w].cached \cup UpTo(c, run[w].snap)
             r == [run[w] EXCEPT !.cached = s]
  <2>3. s \subseteq Commit
    BY RunTyped DEF UpTo
  <2>4. GoOn(w, r)
    BY <2>2
  <2> HIDE DEF s
  <2>5. r \in RunState /\ r.snap = run[w].snap
    BY <2>1, <2>3 DEF RunState
  <2> HIDE DEF r
  <2> QED
    BY <2>1, <2>4, <2>5, RunMoves
<1>7. ASSUME NEW w \in Worker, TreeDone(w) PROVE Runs'
  <2>1. run[w] \in RunState /\ CommitsOf(run[w].snap) # {}
    BY <1>7, RunTyped DEF TreeDone, At, Runs
  <2>2. run[w].cached \cup CommitsOf(run[w].snap) \subseteq Commit
    BY RunTyped
  <2> DEFINE r == [run[w] EXCEPT !.pc = "commits",
                                 !.cached = run[w].cached \cup CommitsOf(run[w].snap)]
  <2>3. r \in RunState /\ r.snap = run[w].snap
    BY <2>1, <2>2 DEF RunState, Stages
  <2>4. GoOn(w, r)
    BY <1>7 DEF TreeDone
  <2> HIDE DEF r
  <2> QED
    BY <2>1, <2>3, <2>4, RunMoves
<1>8. ASSUME NEW w \in Worker, WriteCommits(w) PROVE Runs'
  <2>1. run[w] \in RunState /\ CommitsOf(run[w].snap) # {}
    BY <1>8, RunTyped DEF WriteCommits, At, Runs
  <2>2. PICK B \in Batches(w) : \E ok \in SUBSET B :
          GoOn(w, [run[w] EXCEPT !.pc = "file_changes",
                                 !.todo = run[w].todo \ B,
                                 !.batch = ok,
                                 !.failed = run[w].failed \cup (B \ ok),
                                 !.count = AfterWrite(w, "commits", ok)])
    BY <1>8 DEF WriteCommits
  <2>3. PICK ok \in SUBSET B :
          GoOn(w, [run[w] EXCEPT !.pc = "file_changes",
                                 !.todo = run[w].todo \ B,
                                 !.batch = ok,
                                 !.failed = run[w].failed \cup (B \ ok),
                                 !.count = AfterWrite(w, "commits", ok)])
    BY <2>2
  <2> DEFINE n == AfterWrite(w, "commits", ok)
             r == [run[w] EXCEPT !.pc = "file_changes",
                                 !.todo = run[w].todo \ B,
                                 !.batch = ok,
                                 !.failed = run[w].failed \cup (B \ ok),
                                 !.count = n]
  <2>4. B \subseteq Commit /\ ok \subseteq Commit
    BY RunTyped DEF Batches
  <2>5. n \in [Kind -> Nat]
    BY CountTyped DEF Kind
  <2>6. GoOn(w, r)
    BY <2>3
  <2> HIDE DEF n
  <2>7. r \in RunState /\ r.snap = run[w].snap
    BY <2>1, <2>4, <2>5, RunTyped DEF RunState, Stages
  <2> HIDE DEF r
  <2> QED
    BY <2>1, <2>6, <2>7, RunMoves
<1>9. ASSUME NEW w \in Worker, WriteFileChanges(w) PROVE Runs'
  <2>1. run[w] \in RunState /\ CommitsOf(run[w].snap) # {}
    BY <1>9, RunTyped DEF WriteFileChanges, At, Runs
  <2> DEFINE n == AfterWrite(w, "file_changes",
                             RecordsOf("file_changes", run[w].batch, run[w].snap))
             r == [run[w] EXCEPT !.pc = "save",
                                 !.done = run[w].done \cup run[w].batch,
                                 !.count = n]
  <2>2. n \in [Kind -> Nat]
    BY CountTyped DEF Kind
  <2>3. GoOn(w, r)
    BY <1>9 DEF WriteFileChanges
  <2> HIDE DEF n
  <2>4. r \in RunState /\ r.snap = run[w].snap
    BY <2>1, <2>2, RunTyped DEF RunState, Stages
  <2> HIDE DEF r
  <2> QED
    BY <2>1, <2>3, <2>4, RunMoves
<1>10. ASSUME NEW w \in Worker, SaveCheckpoint(w) PROVE Runs'
  <2>1. run[w] \in RunState /\ CommitsOf(run[w].snap) # {}
    BY <1>10, RunTyped DEF SaveCheckpoint, At, Runs
  <2> DEFINE r == [run[w] EXCEPT !.pc = "commits", !.batch = {}]
  <2>3. r \in RunState /\ r.snap = run[w].snap
    BY <2>1 DEF RunState, Stages
  <2>4. GoOn(w, r)
    BY <1>10 DEF SaveCheckpoint
  <2> HIDE DEF r
  <2> QED
    BY <2>1, <2>3, <2>4, RunMoves
<1>11. ASSUME NEW w \in Worker, Merge(w) PROVE Runs'
  <2>1. run[w] \in RunState /\ CommitsOf(run[w].snap) # {}
    BY <1>11, RunTyped DEF Merge, At, Runs
  <2> DEFINE t == [run[w].table EXCEPT !["commits"] = Merged("commits")]
             r == [run[w] EXCEPT !.pc = "merge", !.table = t]
  <2>2. t \in Tables
    BY RunTyped, MergedTyped, TableTyped DEF Kind
  <2>3. GoOn(w, r)
    BY <1>11, <2>1 DEF Merge, RunState
  <2> HIDE DEF t
  <2>4. r \in RunState /\ r.snap = run[w].snap
    BY <2>1, <2>2 DEF RunState, Stages
  <2> HIDE DEF r
  <2> QED
    BY <2>1, <2>3, <2>4, RunMoves
<1>12. ASSUME NEW w \in Worker, MergeFileChanges(w) PROVE Runs'
  <2>1. run[w] \in RunState /\ CommitsOf(run[w].snap) # {}
    BY <1>12, RunTyped DEF MergeFileChanges, At, Runs
  <2> DEFINE t == [run[w].table EXCEPT !["file_changes"] = Merged("file_changes")]
             r == [run[w] EXCEPT !.pc = "clean", !.table = t]
  <2>2. t \in Tables
    BY RunTyped, MergedTyped, TableTyped DEF Kind
  <2>3. GoOn(w, r)
    BY <1>12, <2>1 DEF MergeFileChanges, RunState
  <2> HIDE DEF t
  <2>4. r \in RunState /\ r.snap = run[w].snap
    BY <2>1, <2>2 DEF RunState, Stages
  <2> HIDE DEF r
  <2> QED
    BY <2>1, <2>3, <2>4, RunMoves
<1>13. ASSUME NEW w \in Worker, ListChunks(w) PROVE Runs'
  <2>1. run[w] \in RunState /\ CommitsOf(run[w].snap) # {}
    BY <1>13, RunTyped DEF ListChunks, At, Runs
  <2> DEFINE p == IF ChunkKeys = {} THEN "forget" ELSE "delete"
             r == [run[w] EXCEPT !.keys = ChunkKeys, !.pc = p]
             s == [run[w] EXCEPT !.pc = "forget"]
  <2>2. ChunkKeys \subseteq Kind \X (0 .. Limit) /\ p \in Stages
    BY DEF ChunkKeys, Chunks, Stages
  <2>3. GoOn(w, r) \/ GoOn(w, s)
    BY <1>13 DEF ListChunks
  <2> HIDE DEF p
  <2>4. r \in RunState /\ r.snap = run[w].snap
    BY <2>1, <2>2 DEF RunState
  <2>5. s \in RunState /\ s.snap = run[w].snap
    BY <2>1 DEF RunState, Stages
  <2> HIDE DEF r, s
  <2> QED
    BY <2>1, <2>3, <2>4, <2>5, RunMoves
<1>14. ASSUME NEW w \in Worker, DeleteChunks(w) PROVE Runs'
  <2>1. run[w] \in RunState /\ CommitsOf(run[w].snap) # {}
    BY <1>14, RunTyped DEF DeleteChunks, At, Runs
  <2>2. CASE GoOn(w, [run[w] EXCEPT !.pc = "forget", !.keys = {}])
    <3> DEFINE s == [run[w] EXCEPT !.pc = "forget", !.keys = {}]
    <3>1. s \in RunState /\ s.snap = run[w].snap
      BY <2>1 DEF RunState, Stages
    <3> HIDE DEF s
    <3> QED
      BY <2>1, <2>2, <3>1, RunMoves DEF s
  <2>3. CASE \E B \in SUBSET run[w].keys :
               GoOn(w, [run[w] EXCEPT !.keys = run[w].keys \ B,
                          !.pc = IF B = run[w].keys THEN "forget" ELSE "delete"])
    <3>1. PICK B \in SUBSET run[w].keys :
               GoOn(w, [run[w] EXCEPT !.keys = run[w].keys \ B,
                          !.pc = IF B = run[w].keys THEN "forget" ELSE "delete"])
      BY <2>3
    <3> DEFINE p == IF B = run[w].keys THEN "forget" ELSE "delete"
               r == [run[w] EXCEPT !.keys = run[w].keys \ B, !.pc = p]
    <3>2. p \in Stages
      BY DEF Stages
    <3>3. GoOn(w, r)
      BY <3>1
    <3> HIDE DEF p
    <3>4. r \in RunState /\ r.snap = run[w].snap
      BY <2>1, <3>2 DEF RunState
    <3> HIDE DEF r
    <3> QED
      BY <2>1, <3>3, <3>4, RunMoves
  <2> QED
    BY <1>14, <2>2, <2>3 DEF DeleteChunks
<1>15. ASSUME NEW w \in Worker, ForgetCheckpoint(w) PROVE Runs'
  <2>1. run[w] \in RunState /\ CommitsOf(run[w].snap) # {}
    BY <1>15, RunTyped DEF ForgetCheckpoint, At, Runs
  <2> DEFINE r == [run[w] EXCEPT !.pc = "publish"]
  <2>3. r \in RunState /\ r.snap = run[w].snap
    BY <2>1 DEF RunState, Stages
  <2>4. GoOn(w, r)
    BY <1>15 DEF ForgetCheckpoint
  <2> HIDE DEF r
  <2> QED
    BY <2>1, <2>3, <2>4, RunMoves
<1>16. ASSUME NEW w \in Worker, Publish(w) PROVE Runs'
  BY <1>16, NoneTyped, RunMoves DEF Publish
<1>17. ASSUME NEW w \in Worker, Fail(w) PROVE Runs'
  BY <1>17, NoneTyped, RunMoves DEF Fail
<1> QED
  BY <1>1, <1>2, <1>3, <1>4, <1>5, <1>6, <1>7, <1>8, <1>9, <1>10, <1>11,
     <1>12, <1>13, <1>14, <1>15, <1>16, <1>17 DEF Next, RunStep, Push, Share,
     Rewrite, vars

(* A checkpoint is typed: the clone it was made from has a last commit.    *)
LEMMA CkptNext ==
  ASSUME Runs, Ckpt, [Next]_vars
  PROVE  Ckpt'
<1>1. ASSUME UNCHANGED <<ckpt>> PROVE Ckpt'
  BY <1>1 DEF Ckpt
<1>2. ASSUME NEW w \in Worker, LoadInvalid(w) PROVE Ckpt'
  BY <1>2 DEF Ckpt, LoadInvalid
<1>3. ASSUME NEW w \in Worker, TreeCheckpoint(w) PROVE Ckpt'
  <2>1. PICK c \in CommitsOf(run[w].snap) :
          ckpt' = [last |-> c, done |-> {}, count |-> NoCounts,
                   cached |-> run[w].cached \cup UpTo(c, run[w].snap)]
    BY <1>3 DEF TreeCheckpoint
  <2>2. c \in Commit /\ run[w].cached \cup UpTo(c, run[w].snap) \subseteq Commit
    BY RunTyped DEF UpTo
  <2> QED
    BY <2>1, <2>2, NoneTyped DEF Ckpt, CkptState
<1>4. ASSUME NEW w \in Worker, SaveCheckpoint(w) PROVE Ckpt'
  <2>1. \/ UNCHANGED ckpt
        \/ ckpt' = [last |-> Last(run[w].snap), done |-> run[w].done,
                    count |-> run[w].count, cached |-> run[w].cached]
    BY <1>4 DEF SaveCheckpoint, Processed
  <2>2. CommitsOf(run[w].snap) # {}
    BY <1>4 DEF SaveCheckpoint, At, Runs
  <2>3. Last(run[w].snap) \in Commit
    BY <2>2, RunTyped, LastTyped
  <2> QED
    BY <2>1, <2>3, RunTyped DEF Ckpt, CkptState
<1>5. ASSUME NEW w \in Worker, ForgetCheckpoint(w) PROVE Ckpt'
  BY <1>5 DEF Ckpt, ForgetCheckpoint
<1> QED
  BY <1>1, <1>2, <1>3, <1>4, <1>5 DEF Next, RunStep, Push, Share, Rewrite,
     Start, LoadNone, LoadValid, TreeDone, WriteCommits, WriteFileChanges,
     Merge, MergeFileChanges, ListChunks, DeleteChunks, Publish, Fail, vars

(* What is published is typed.                                             *)
LEMMA PublicNext ==
  ASSUME Repo, Runs, Public, [Next]_vars
  PROVE  Public'
<1>1. ASSUME UNCHANGED <<published>> PROVE Public'
  BY <1>1 DEF Public
<1>2. ASSUME NEW w \in Worker, Publish(w) PROVE Public'
  BY <1>2, RunTyped DEF Public, Publish, Repo
<1> QED
  BY <1>1, <1>2 DEF Next, RunStep, Push, Share, Rewrite, Start, LoadNone,
     LoadInvalid, LoadValid, TreeCheckpoint, TreeDone, WriteCommits,
     WriteFileChanges, SaveCheckpoint, Merge, MergeFileChanges, ListChunks,
     DeleteChunks, ForgetCheckpoint, Fail, vars

LEMMA Covers ==
  ASSUME Runs, Numbered, NEW w \in Worker, NEW k \in Kind
  PROVE  /\ Covered(run[w], k) \subseteq Commit
         /\ run[w].count[k] \in 0 .. Limit
<1>1. Covered(run[w], k) \subseteq Commit
  BY RunTyped DEF Covered
<1>2. run[w].count[k] \in Nat /\ run[w].count[k] <= Cardinality(Covered(run[w], k))
  BY RunTyped DEF Numbered
<1> QED
  BY <1>1, <1>2, Sizes

LEMMA ChunksStayTyped ==
  ASSUME Chunks, Runs, Numbered, NEW w \in Worker, NEW k \in Kind,
         NEW rows \in SUBSET Record(k), chunks' = WithChunk(w, k, rows)
  PROVE  Chunks'
<1>1. run[w].count[k] \in 0 .. Limit
  BY Covers
<1>2. ASSUME NEW j \in Kind
      PROVE  /\ DOMAIN chunks'[j] \subseteq 0 .. Limit
             /\ \A i \in DOMAIN chunks'[j] : chunks'[j][i] \in (SUBSET Record(j)) \ {{}}
  <2>1. CASE j = k
    BY <1>1, <2>1, ChunkWritten DEF Chunks
  <2>2. CASE j # k
    BY <2>2, ChunkWritten DEF Chunks
  <2> QED
    BY <2>1, <2>2
<1>3. DOMAIN chunks' = Kind
  BY ChunkWritten
<1> QED
  BY <1>2, <1>3 DEF Chunks

(* Chunks hold records of their kind, and are numbered up to one for each  *)
(* commit.                                                                 *)
LEMMA ChunksNext ==
  ASSUME Runs, Numbered, Chunks, [Next]_vars
  PROVE  Chunks'
<1>1. ASSUME UNCHANGED <<chunks>> PROVE Chunks'
  BY <1>1 DEF Chunks
<1>2. ASSUME NEW w \in Worker, WriteCommits(w) PROVE Chunks'
  <2>1. PICK ok \in SUBSET run[w].todo :
          chunks' = WithChunk(w, "commits", RecordsOf("commits", ok, run[w].snap))
    BY <1>2 DEF WriteCommits, Batches
  <2>2. RecordsOf("commits", ok, run[w].snap) \in SUBSET Record("commits")
    BY RunTyped DEF RecordsOf, Record
  <2> QED
    BY <2>1, <2>2, ChunksStayTyped DEF Kind
<1>3. ASSUME NEW w \in Worker, WriteFileChanges(w) PROVE Chunks'
  <2>1. chunks' = WithChunk(w, "file_changes",
                            RecordsOf("file_changes", run[w].batch, run[w].snap))
    BY <1>3 DEF WriteFileChanges
  <2>2. RecordsOf("file_changes", run[w].batch, run[w].snap) \in SUBSET Record("file_changes")
    BY RunTyped DEF RecordsOf, Record
  <2> QED
    BY <2>1, <2>2, ChunksStayTyped DEF Kind
<1>4. ASSUME NEW w \in Worker, DeleteChunks(w) PROVE Chunks'
  <2>1. \/ UNCHANGED chunks
        \/ \E B \in SUBSET run[w].keys : chunks' = WithoutChunks(B)
    BY <1>4 DEF DeleteChunks
  <2>2. ASSUME NEW B, chunks' = WithoutChunks(B) PROVE Chunks'
    <3>1. /\ DOMAIN chunks' = Kind
          /\ \A k \in Kind : DOMAIN chunks'[k] \subseteq DOMAIN chunks[k]
          /\ \A k \in Kind : \A i \in DOMAIN chunks'[k] : chunks'[k][i] = chunks[k][i]
      BY <2>2 DEF WithoutChunks, Restrict
    <3> QED
      BY <3>1 DEF Chunks
  <2> QED
    BY <2>1, <2>2 DEF Chunks
<1> QED
  BY <1>1, <1>2, <1>3, <1>4 DEF Next, RunStep, Push, Share, Rewrite, Start,
     LoadNone, LoadInvalid, LoadValid, TreeCheckpoint, TreeDone,
     SaveCheckpoint, Merge, MergeFileChanges, ListChunks, ForgetCheckpoint,
     Publish, Fail, vars

(* The number of commits that a batch adds to what was covered.            *)
LEMMA OneMore ==
  ASSUME NEW S \in SUBSET Commit, NEW B \in SUBSET Commit, B # {}, S \cap B = {}
  PROVE  Cardinality(S) + 1 <= Cardinality(S \cup B)
<1>1. IsFiniteSet(S) /\ IsFiniteSet(B) /\ Cardinality(S) \in Nat /\ Cardinality(B) \in Nat
  BY Sizes
<1>2. Cardinality(S \cup B) = Cardinality(S) + Cardinality(B) - Cardinality(S \cap B)
  BY <1>1, FS_Union
<1>3. Cardinality(S \cap B) = 0
  BY FS_EmptySet
<1>4. Cardinality(B) # 0
  BY <1>1, FS_EmptySet
<1> QED
  BY <1>1, <1>2, <1>3, <1>4

NumberedRun(r) ==
  /\ r.todo \cap r.done = {}
  /\ r.pc = "file_changes" => r.batch \cap (r.todo \cup r.done) = {}
  /\ \A k \in Kind : r.count[k] <= Cardinality(Covered(r, k))

NumberedCkpt ==
  ckpt # NoCkpt => \A k \in Kind : ckpt.count[k] <= Cardinality(ckpt.done)

(* Only the run of w changes.                                              *)
LEMMA NumberedMoves ==
  ASSUME Runs, Numbered, NEW w \in Worker, NEW r, GoOn(w, r), NumberedRun(r), NumberedCkpt'
  PROVE  Numbered'
<1>1. \A v \in Worker : run'[v] = IF v = w THEN r ELSE run[v]
  BY DEF Runs, GoOn
<1>2. \A v \in Worker : NumberedRun(run'[v])
  BY <1>1 DEF Numbered, NumberedRun, At
<1> QED
  BY <1>2 DEF Numbered, NumberedRun, NumberedCkpt, At

LEMMA NumberedNow ==
  ASSUME Numbered
  PROVE  NumberedCkpt /\ \A w \in Worker : NumberedRun(run[w])
BY DEF Numbered, NumberedRun, NumberedCkpt, At

LEMMA IdleNumbered ==
  /\ NumberedRun(Idle)
  /\ \A snap \in Clones : NumberedRun([Idle EXCEPT !.pc = "load", !.snap = snap])
<1>1. Cardinality({}) = 0
  BY FS_EmptySet
<1> QED
  BY <1>1, NoneTyped DEF NumberedRun, Covered, Idle

(* A write numbers one chunk at most, and covers one commit at least.      *)
LEMMA NumberedNext ==
  ASSUME Repo, Runs, Ckpt, Looking, Numbered, [Next]_vars
  PROVE  Numbered'
<1>1. ASSUME UNCHANGED <<run, ckpt>> PROVE Numbered'
  BY <1>1 DEF Numbered, At
<1>2. ASSUME NEW w \in Worker, Start(w) PROVE Numbered'
  <2>1. UNCHANGED ckpt
    BY <1>2 DEF Start
  <2> QED
    BY <1>2, <2>1, IdleNumbered, NumberedNow, NumberedMoves DEF Start, Repo,
       NumberedCkpt
<1>3. ASSUME NEW w \in Worker, LoadNone(w) PROVE Numbered'
  <2> DEFINE r == [run[w] EXCEPT !.pc = "tree", !.todo = CommitsOf(run[w].snap)]
  <2>1. GoOn(w, r)
    BY <1>3 DEF LoadNone, Fresh
  <2>2. NumberedRun(r)
    <3>1. At(w, "load") /\ run[w].done = {} /\ run[w].count = NoCounts
      BY <1>3 DEF LoadNone, Looking
    <3>2. Cardinality({}) = 0
      BY FS_EmptySet
    <3>3. r.pc = "tree" /\ r.done = {} /\ r.count = NoCounts
      BY <3>1, RunTyped DEF RunState
    <3> HIDE DEF r
    <3> QED
      BY <3>2, <3>3, NoneTyped DEF NumberedRun, Covered
  <2>3. NumberedCkpt'
    BY <1>3, NumberedNow DEF LoadNone, NumberedCkpt
  <2> HIDE DEF r
  <2> QED
    BY <2>1, <2>2, <2>3, NumberedMoves
<1>4. ASSUME NEW w \in Worker, LoadInvalid(w) PROVE Numbered'
  <2> DEFINE r == [run[w] EXCEPT !.pc = "tree", !.todo = CommitsOf(run[w].snap)]
  <2>1. GoOn(w, r)
    BY <1>4 DEF LoadInvalid, Fresh
  <2>2. NumberedRun(r)
    <3>1. At(w, "load") /\ run[w].done = {} /\ run[w].count = NoCounts
      BY <1>4 DEF LoadInvalid, Looking
    <3>2. Cardinality({}) = 0
      BY FS_EmptySet
    <3>3. r.pc = "tree" /\ r.done = {} /\ r.count = NoCounts
      BY <3>1, RunTyped DEF RunState
    <3> HIDE DEF r
    <3> QED
      BY <3>2, <3>3, NoneTyped DEF NumberedRun, Covered
  <2>3. NumberedCkpt'
    BY <1>4, NumberedNow DEF LoadInvalid, NumberedCkpt
  <2> HIDE DEF r
  <2> QED
    BY <2>1, <2>2, <2>3, NumberedMoves
<1>5. ASSUME NEW w \in Worker, LoadValid(w) PROVE Numbered'
  <2> DEFINE r == [run[w] EXCEPT !.pc = "tree",
                                 !.todo = CommitsOf(run[w].snap) \ ckpt.done,
                                 !.done = ckpt.done, !.count = ckpt.count,
                                 !.cached = ckpt.cached]
  <2>1. GoOn(w, r)
    BY <1>5 DEF LoadValid
  <2>2. NumberedRun(r)
    BY <1>5, RunTyped, NumberedNow DEF LoadValid, Valid, NumberedCkpt,
       NumberedRun, Covered, RunState
  <2>3. NumberedCkpt'
    BY <1>5, NumberedNow DEF LoadValid, NumberedCkpt
  <2> HIDE DEF r
  <2> QED
    BY <2>1, <2>2, <2>3, NumberedMoves
<1>6. ASSUME NEW w \in Worker, TreeCheckpoint(w) PROVE Numbered'
  <2>1. PICK c \in CommitsOf(run[w].snap) :
          /\ ckpt' = [last |-> c, done |-> {}, count |-> NoCounts,
                      cached |-> run[w].cached \cup UpTo(c, run[w].snap)]
          /\ GoOn(w, [run[w] EXCEPT !.cached = run[w].cached \cup UpTo(c, run[w].snap)])
    BY <1>6 DEF TreeCheckpoint
  <2> DEFINE r == [run[w] EXCEPT !.cached = run[w].cached \cup UpTo(c, run[w].snap)]
  <2>2. NumberedRun(r)
    BY RunTyped, NumberedNow DEF NumberedRun, Covered, RunState
  <2>3. NumberedCkpt'
    <3>1. Cardinality({}) = 0
      BY FS_EmptySet
    <3>2. ckpt'.done = {} /\ ckpt'.count = NoCounts
      BY <2>1
    <3> QED
      BY <3>1, <3>2, NoneTyped DEF NumberedCkpt
  <2> HIDE DEF r
  <2> QED
    BY <2>1, <2>2, <2>3, NumberedMoves DEF r
<1>7. ASSUME NEW w \in Worker, TreeDone(w) PROVE Numbered'
  <2> DEFINE r == [run[w] EXCEPT !.pc = "commits",
                                 !.cached = run[w].cached \cup CommitsOf(run[w].snap)]
  <2>1. GoOn(w, r)
    BY <1>7 DEF TreeDone
  <2>2. NumberedRun(r)
    BY <1>7, RunTyped, NumberedNow DEF TreeDone, At, NumberedRun, Covered,
       RunState
  <2>3. NumberedCkpt'
    BY <1>7, NumberedNow DEF TreeDone, NumberedCkpt
  <2> HIDE DEF r
  <2> QED
    BY <2>1, <2>2, <2>3, NumberedMoves
<1>8. ASSUME NEW w \in Worker, WriteCommits(w) PROVE Numbered'
  <2>1. PICK B \in Batches(w) : \E ok \in SUBSET B :
          GoOn(w, [run[w] EXCEPT !.pc = "file_changes",
                                 !.todo = run[w].todo \ B,
                                 !.batch = ok,
                                 !.failed = run[w].failed \cup (B \ ok),
                                 !.count = AfterWrite(w, "commits", ok)])
    BY <1>8 DEF WriteCommits
  <2>2. PICK ok \in SUBSET B :
          GoOn(w, [run[w] EXCEPT !.pc = "file_changes",
                                 !.todo = run[w].todo \ B,
                                 !.batch = ok,
                                 !.failed = run[w].failed \cup (B \ ok),
                                 !.count = AfterWrite(w, "commits", ok)])
    BY <2>1
  <2> DEFINE n == AfterWrite(w, "commits", ok)
             t == run[w].todo \ B
             f == run[w].failed \cup (B \ ok)
             r == [run[w] EXCEPT !.pc = "file_changes", !.todo = t, !.batch = ok,
                                 !.failed = f, !.count = n]
  <2>3. B \subseteq run[w].todo /\ run[w].todo \cap run[w].done = {}
    BY NumberedNow DEF Batches, NumberedRun
  <2>4. At(w, "commits")
    BY <1>8 DEF WriteCommits
  <2>5. /\ n \in [Kind -> Nat]
        /\ n["file_changes"] = run[w].count["file_changes"]
        /\ n["commits"] = IF ok = {} THEN run[w].count["commits"]
                          ELSE run[w].count["commits"] + 1
    BY CountTyped DEF Kind
  <2>6. \A k \in Kind : run[w].count[k] <= Cardinality(run[w].done)
    BY <2>4, NumberedNow DEF NumberedRun, Covered, At
  <2>7. n["commits"] <= Cardinality(run[w].done \cup ok)
    <3>1. CASE ok = {}
      BY <2>5, <2>6, <3>1 DEF Kind
    <3>2. CASE ok # {}
      <4>1. Cardinality(run[w].done) + 1 <= Cardinality(run[w].done \cup ok)
        BY <2>3, <3>2, OneMore, RunTyped
      <4>2. run[w].count["commits"] \in Nat /\ Cardinality(run[w].done) \in Nat
            /\ Cardinality(run[w].done \cup ok) \in Nat
        BY <2>3, RunTyped, Sizes DEF Kind
      <4> QED
        BY <2>5, <2>6, <3>2, <4>1, <4>2 DEF Kind
    <3> QED
      BY <3>1, <3>2
  <2>8. GoOn(w, r)
    BY <2>2
  <2> HIDE DEF n, t, f
  <2>9. /\ r.pc = "file_changes" /\ r.todo = t /\ r.batch = ok /\ r.count = n
        /\ r.done = run[w].done
    BY RunTyped DEF RunState
  <2> HIDE DEF r
  <2>10. NumberedRun(r)
    BY <2>3, <2>5, <2>6, <2>7, <2>9 DEF NumberedRun, Covered, t, Kind
  <2>11. NumberedCkpt'
    BY <1>8, NumberedNow DEF WriteCommits, NumberedCkpt
  <2> QED
    BY <2>8, <2>10, <2>11, NumberedMoves
<1>9. ASSUME NEW w \in Worker, WriteFileChanges(w) PROVE Numbered'
  <2> DEFINE rows == RecordsOf("file_changes", run[w].batch, run[w].snap)
             n == AfterWrite(w, "file_changes", rows)
             d == run[w].done \cup run[w].batch
             r == [run[w] EXCEPT !.pc = "save", !.done = d, !.count = n]
  <2>1. /\ At(w, "file_changes") /\ GoOn(w, r)
    BY <1>9 DEF WriteFileChanges
  <2>2. /\ n \in [Kind -> Nat]
        /\ n["commits"] = run[w].count["commits"]
        /\ n["file_changes"] = IF rows = {} THEN run[w].count["file_changes"]
                               ELSE run[w].count["file_changes"] + 1
    BY CountTyped DEF Kind
  <2>3. /\ run[w].batch \cap (run[w].todo \cup run[w].done) = {}
        /\ run[w].todo \cap run[w].done = {}
        /\ run[w].count["commits"] <= Cardinality(d)
        /\ run[w].count["file_changes"] <= Cardinality(run[w].done)
    BY <2>1, NumberedNow DEF NumberedRun, Covered, At, Kind
  <2>4. n["file_changes"] <= Cardinality(d)
    <3>1. /\ run[w].count["file_changes"] \in Nat
          /\ Cardinality(run[w].done) \in Nat /\ Cardinality(d) \in Nat
      BY RunTyped, Sizes DEF Kind
    <3>2. CASE run[w].batch = {}
      BY <2>2, <2>3, <3>2 DEF RecordsOf
    <3>3. CASE run[w].batch # {}
      <4>1. Cardinality(run[w].done) + 1 <= Cardinality(d)
        BY <2>3, <3>3, OneMore, RunTyped
      <4> HIDE DEF d, rows, n
      <4> QED
        BY <2>2, <2>3, <3>1, <4>1
    <3> QED
      BY <3>2, <3>3
  <2> HIDE DEF n
  <2>5. r.pc = "save" /\ r.todo = run[w].todo /\ r.count = n /\ r.done = d
    BY RunTyped DEF RunState
  <2> HIDE DEF r
  <2>6. NumberedRun(r)
    BY <2>2, <2>3, <2>4, <2>5 DEF NumberedRun, Covered, Kind
  <2>7. NumberedCkpt'
    BY <1>9, NumberedNow DEF WriteFileChanges, NumberedCkpt
  <2> QED
    BY <2>1, <2>6, <2>7, NumberedMoves
<1>10. ASSUME NEW w \in Worker, SaveCheckpoint(w) PROVE Numbered'
  <2> DEFINE r == [run[w] EXCEPT !.pc = "commits", !.batch = {}]
  <2>1. GoOn(w, r)
    BY <1>10 DEF SaveCheckpoint
  <2>2. NumberedRun(r)
    BY <1>10, RunTyped, NumberedNow DEF SaveCheckpoint, At, NumberedRun,
       Covered, RunState
  <2>3. NumberedCkpt'
    <3>1. \/ UNCHANGED ckpt
          \/ ckpt'.done = run[w].done /\ ckpt'.count = run[w].count
      BY <1>10 DEF SaveCheckpoint, Processed
    <3>2. \A k \in Kind : run[w].count[k] <= Cardinality(run[w].done)
      BY <1>10, NumberedNow DEF SaveCheckpoint, At, NumberedRun, Covered
    <3> QED
      BY <3>1, <3>2, NumberedNow DEF NumberedCkpt
  <2> HIDE DEF r
  <2> QED
    BY <2>1, <2>2, <2>3, NumberedMoves
<1>11. ASSUME NEW w \in Worker, Merge(w) PROVE Numbered'
  <2> DEFINE r == [run[w] EXCEPT !.pc = "merge",
                !.table = [run[w].table EXCEPT !["commits"] = Merged("commits")]]
  <2>1. GoOn(w, r)
    BY <1>11, RunTyped DEF Merge, RunState
  <2>2. ~At(w, "file_changes")
    BY <1>11 DEF Merge, At
  <2>3. NumberedCkpt'
    BY <1>11, NumberedNow DEF Merge, NumberedCkpt
  <2>4. /\ r.pc # "file_changes" /\ r.todo = run[w].todo
        /\ r.done = run[w].done /\ r.count = run[w].count
    BY RunTyped DEF RunState
  <2> HIDE DEF r
  <2>5. NumberedRun(r)
    BY <2>2, <2>4, NumberedNow DEF NumberedRun, Covered, At
  <2> QED
    BY <2>1, <2>3, <2>5, NumberedMoves
<1>12. ASSUME NEW w \in Worker, MergeFileChanges(w) PROVE Numbered'
  <2> DEFINE r == [run[w] EXCEPT !.pc = "clean",
                !.table = [run[w].table EXCEPT !["file_changes"] = Merged("file_changes")]]
  <2>1. GoOn(w, r)
    BY <1>12, RunTyped DEF MergeFileChanges, RunState
  <2>2. ~At(w, "file_changes")
    BY <1>12 DEF MergeFileChanges, At
  <2>3. NumberedCkpt'
    BY <1>12, NumberedNow DEF MergeFileChanges, NumberedCkpt
  <2>4. /\ r.pc # "file_changes" /\ r.todo = run[w].todo
        /\ r.done = run[w].done /\ r.count = run[w].count
    BY RunTyped DEF RunState
  <2> HIDE DEF r
  <2>5. NumberedRun(r)
    BY <2>2, <2>4, NumberedNow DEF NumberedRun, Covered, At
  <2> QED
    BY <2>1, <2>3, <2>5, NumberedMoves
<1>13. ASSUME NEW w \in Worker, ListChunks(w) PROVE Numbered'
  <2> DEFINE r == [run[w] EXCEPT !.keys = ChunkKeys,
                !.pc = IF ChunkKeys = {} THEN "forget" ELSE "delete"]
             s == [run[w] EXCEPT !.pc = "forget"]
  <2>1. GoOn(w, r) \/ GoOn(w, s)
    BY <1>13, RunTyped DEF ListChunks, RunState
  <2>2. ~At(w, "file_changes")
    BY <1>13 DEF ListChunks, At
  <2>3. NumberedCkpt'
    BY <1>13, NumberedNow DEF ListChunks, NumberedCkpt
  <2>4. /\ r.pc # "file_changes" /\ r.todo = run[w].todo
        /\ r.done = run[w].done /\ r.count = run[w].count
    BY RunTyped DEF RunState
  <2> HIDE DEF r
  <2>5. NumberedRun(r)
    BY <2>2, <2>4, NumberedNow DEF NumberedRun, Covered, At
  <2>6. /\ s.pc # "file_changes" /\ s.todo = run[w].todo
        /\ s.done = run[w].done /\ s.count = run[w].count
    BY RunTyped DEF RunState
  <2> HIDE DEF s
  <2>7. NumberedRun(s)
    BY <2>2, <2>6, NumberedNow DEF NumberedRun, Covered, At
  <2> QED
    BY <2>1, <2>3, <2>5, <2>7, NumberedMoves
<1>14. ASSUME NEW w \in Worker, DeleteChunks(w) PROVE Numbered'
  <2>0. PICK B \in SUBSET run[w].keys :
          \/ GoOn(w, [run[w] EXCEPT !.keys = run[w].keys \ B,
                        !.pc = IF B = run[w].keys THEN "forget" ELSE "delete"])
          \/ GoOn(w, [run[w] EXCEPT !.pc = "forget", !.keys = {}])
    BY <1>14 DEF DeleteChunks
  <2> DEFINE r == [run[w] EXCEPT !.keys = run[w].keys \ B,
                !.pc = IF B = run[w].keys THEN "forget" ELSE "delete"]
             s == [run[w] EXCEPT !.pc = "forget", !.keys = {}]
  <2>1. GoOn(w, r) \/ GoOn(w, s)
    BY <2>0
  <2>2. ~At(w, "file_changes")
    BY <1>14 DEF DeleteChunks, At
  <2>3. NumberedCkpt'
    BY <1>14, NumberedNow DEF DeleteChunks, NumberedCkpt
  <2>4. /\ r.pc # "file_changes" /\ r.todo = run[w].todo
        /\ r.done = run[w].done /\ r.count = run[w].count
    BY RunTyped DEF RunState
  <2> HIDE DEF r
  <2>5. NumberedRun(r)
    BY <2>2, <2>4, NumberedNow DEF NumberedRun, Covered, At
  <2>6. /\ s.pc # "file_changes" /\ s.todo = run[w].todo
        /\ s.done = run[w].done /\ s.count = run[w].count
    BY RunTyped DEF RunState
  <2> HIDE DEF s
  <2>7. NumberedRun(s)
    BY <2>2, <2>6, NumberedNow DEF NumberedRun, Covered, At
  <2> QED
    BY <2>1, <2>3, <2>5, <2>7, NumberedMoves
<1>15. ASSUME NEW w \in Worker, ForgetCheckpoint(w) PROVE Numbered'
  <2> DEFINE r == [run[w] EXCEPT !.pc = "publish"]
  <2>1. GoOn(w, r)
    BY <1>15, RunTyped DEF ForgetCheckpoint, RunState
  <2>2. ~At(w, "file_changes")
    BY <1>15 DEF ForgetCheckpoint, At
  <2>3. NumberedCkpt'
    BY <1>15, NumberedNow DEF ForgetCheckpoint, NumberedCkpt
  <2>4. /\ r.pc # "file_changes" /\ r.todo = run[w].todo
        /\ r.done = run[w].done /\ r.count = run[w].count
    BY RunTyped DEF RunState
  <2> HIDE DEF r
  <2>5. NumberedRun(r)
    BY <2>2, <2>4, NumberedNow DEF NumberedRun, Covered, At
  <2> QED
    BY <2>1, <2>3, <2>5, NumberedMoves
<1>16. ASSUME NEW w \in Worker, Publish(w) PROVE Numbered'
  <2>1. UNCHANGED ckpt
    BY <1>16 DEF Publish
  <2> QED
    BY <1>16, <2>1, IdleNumbered, NumberedNow, NumberedMoves DEF Publish,
       NumberedCkpt
<1>17. ASSUME NEW w \in Worker, Fail(w) PROVE Numbered'
  <2>1. UNCHANGED ckpt
    BY <1>17 DEF Fail
  <2> QED
    BY <1>17, <2>1, IdleNumbered, NumberedNow, NumberedMoves DEF Fail,
       NumberedCkpt
<1> QED
  BY <1>1, <1>2, <1>3, <1>4, <1>5, <1>6, <1>7, <1>8, <1>9, <1>10, <1>11,
     <1>12, <1>13, <1>14, <1>15, <1>16, <1>17 DEF Next, RunStep, Push, Share,
     Rewrite, vars

LEMMA LookingMoves ==
  ASSUME Runs, Looking, NEW w \in Worker, NEW r, GoOn(w, r), r.pc # "load"
  PROVE  Looking'
<1>1. \A v \in Worker : run'[v] = IF v = w THEN r ELSE run[v]
  BY DEF Runs, GoOn
<1> QED
  BY <1>1 DEF Looking, At

(* Only Start begins to look for a checkpoint.                             *)
LEMMA LookingNext ==
  ASSUME Runs, Looking, [Next]_vars
  PROVE  Looking'
<1>1. ASSUME UNCHANGED <<run>> PROVE Looking'
  BY <1>1 DEF Looking, At
<1>2. ASSUME NEW w \in Worker, Start(w) PROVE Looking'
  <2> DEFINE r == [Idle EXCEPT !.pc = "load", !.snap = repo]
  <2>1. r.done = {} /\ r.count = NoCounts /\ r.batch = {}
    BY DEF Idle
  <2>2. \A v \in Worker : run'[v] = IF v = w THEN r ELSE run[v]
    BY <1>2 DEF Start, GoOn, Runs
  <2> HIDE DEF r
  <2> QED
    BY <2>1, <2>2 DEF Looking, At
<1>3. ASSUME NEW w \in Worker, LoadNone(w) PROVE Looking'
  <2> DEFINE r == [run[w] EXCEPT !.pc = "tree", !.todo = CommitsOf(run[w].snap)]
  <2>1. GoOn(w, r)
    BY <1>3, RunTyped DEF LoadNone, RunState, Fresh
  <2>2. r.pc # "load"
    BY <1>3, RunTyped DEF LoadNone, RunState, At
  <2> HIDE DEF r
  <2> QED
    BY <2>1, <2>2, LookingMoves
<1>4. ASSUME NEW w \in Worker, LoadInvalid(w) PROVE Looking'
  <2> DEFINE r == [run[w] EXCEPT !.pc = "tree", !.todo = CommitsOf(run[w].snap)]
  <2>1. GoOn(w, r)
    BY <1>4, RunTyped DEF LoadInvalid, RunState, Fresh
  <2>2. r.pc # "load"
    BY <1>4, RunTyped DEF LoadInvalid, RunState, At
  <2> HIDE DEF r
  <2> QED
    BY <2>1, <2>2, LookingMoves
<1>5. ASSUME NEW w \in Worker, LoadValid(w) PROVE Looking'
  <2> DEFINE r == [run[w] EXCEPT !.pc = "tree",
                 !.todo = CommitsOf(run[w].snap) \ ckpt.done,
                 !.done = ckpt.done, !.count = ckpt.count,
                 !.cached = ckpt.cached]
  <2>1. GoOn(w, r)
    BY <1>5, RunTyped DEF LoadValid, RunState, Fresh
  <2>2. r.pc # "load"
    BY <1>5, RunTyped DEF LoadValid, RunState, At
  <2> HIDE DEF r
  <2> QED
    BY <2>1, <2>2, LookingMoves
<1>6. ASSUME NEW w \in Worker, TreeCheckpoint(w) PROVE Looking'
  <2>1. PICK s : GoOn(w, [run[w] EXCEPT !.cached = s])
    BY <1>6 DEF TreeCheckpoint
  <2> DEFINE r == [run[w] EXCEPT !.cached = s]
  <2>2. r.pc # "load"
    BY <1>6, RunTyped DEF TreeCheckpoint, RunState, At
  <2> HIDE DEF r
  <2> QED
    BY <2>1, <2>2, LookingMoves DEF r
<1>7. ASSUME NEW w \in Worker, TreeDone(w) PROVE Looking'
  <2> DEFINE r == [run[w] EXCEPT !.pc = "commits",
                 !.cached = run[w].cached \cup CommitsOf(run[w].snap)]
  <2>1. GoOn(w, r)
    BY <1>7, RunTyped DEF TreeDone, RunState, Fresh
  <2>2. r.pc # "load"
    BY <1>7, RunTyped DEF TreeDone, RunState, At
  <2> HIDE DEF r
  <2> QED
    BY <2>1, <2>2, LookingMoves
<1>8. ASSUME NEW w \in Worker, WriteCommits(w) PROVE Looking'
  <2>1. PICK t, ok, f, n :
          GoOn(w, [run[w] EXCEPT !.pc = "file_changes", !.todo = t, !.batch = ok,
                                 !.failed = f, !.count = n])
    BY <1>8 DEF WriteCommits
  <2> DEFINE r == [run[w] EXCEPT !.pc = "file_changes", !.todo = t, !.batch = ok,
                                 !.failed = f, !.count = n]
  <2>2. r.pc # "load"
    BY RunTyped DEF RunState
  <2> HIDE DEF r
  <2> QED
    BY <2>1, <2>2, LookingMoves DEF r
<1>9. ASSUME NEW w \in Worker, WriteFileChanges(w) PROVE Looking'
  <2> DEFINE r == [run[w] EXCEPT !.pc = "save",
                 !.done = run[w].done \cup run[w].batch,
                 !.count = AfterWrite(w, "file_changes",
                             RecordsOf("file_changes", run[w].batch, run[w].snap))]
  <2>1. GoOn(w, r)
    BY <1>9, RunTyped DEF WriteFileChanges, RunState, Fresh
  <2>2. r.pc # "load"
    BY <1>9, RunTyped DEF WriteFileChanges, RunState, At
  <2> HIDE DEF r
  <2> QED
    BY <2>1, <2>2, LookingMoves
<1>10. ASSUME NEW w \in Worker, SaveCheckpoint(w) PROVE Looking'
  <2> DEFINE r == [run[w] EXCEPT !.pc = "commits", !.batch = {}]
  <2>1. GoOn(w, r)
    BY <1>10, RunTyped DEF SaveCheckpoint, RunState, Fresh
  <2>2. r.pc # "load"
    BY <1>10, RunTyped DEF SaveCheckpoint, RunState, At
  <2> HIDE DEF r
  <2> QED
    BY <2>1, <2>2, LookingMoves
<1>11. ASSUME NEW w \in Worker, Merge(w) PROVE Looking'
  <2> DEFINE r == [run[w] EXCEPT !.pc = "merge",
                !.table = [run[w].table EXCEPT !["commits"] = Merged("commits")]]
  <2>1. GoOn(w, r)
    BY <1>11, RunTyped DEF Merge, RunState, Fresh
  <2>2. r.pc # "load"
    BY <1>11, RunTyped DEF Merge, RunState, At
  <2> HIDE DEF r
  <2> QED
    BY <2>1, <2>2, LookingMoves
<1>12. ASSUME NEW w \in Worker, MergeFileChanges(w) PROVE Looking'
  <2> DEFINE r == [run[w] EXCEPT !.pc = "clean",
                !.table = [run[w].table EXCEPT !["file_changes"] = Merged("file_changes")]]
  <2>1. GoOn(w, r)
    BY <1>12, RunTyped DEF MergeFileChanges, RunState, Fresh
  <2>2. r.pc # "load"
    BY <1>12, RunTyped DEF MergeFileChanges, RunState, At
  <2> HIDE DEF r
  <2> QED
    BY <2>1, <2>2, LookingMoves
<1>13. ASSUME NEW w \in Worker, ListChunks(w) PROVE Looking'
  <2> DEFINE r == [run[w] EXCEPT !.keys = ChunkKeys,
                !.pc = IF ChunkKeys = {} THEN "forget" ELSE "delete"]
             s == [run[w] EXCEPT !.pc = "forget"]
  <2>1. GoOn(w, r) \/ GoOn(w, s)
    BY <1>13, RunTyped DEF ListChunks, RunState, Fresh
  <2>2. r.pc # "load" /\ s.pc # "load"
    BY <1>13, RunTyped DEF ListChunks, RunState, At
  <2> HIDE DEF r, s
  <2> QED
    BY <2>1, <2>2, LookingMoves
<1>14. ASSUME NEW w \in Worker, DeleteChunks(w) PROVE Looking'
  <2>0. PICK B \in SUBSET run[w].keys :
          \/ GoOn(w, [run[w] EXCEPT !.keys = run[w].keys \ B,
                        !.pc = IF B = run[w].keys THEN "forget" ELSE "delete"])
          \/ GoOn(w, [run[w] EXCEPT !.pc = "forget", !.keys = {}])
    BY <1>14 DEF DeleteChunks
  <2> DEFINE r == [run[w] EXCEPT !.keys = run[w].keys \ B,
                 !.pc = IF B = run[w].keys THEN "forget" ELSE "delete"]
             s == [run[w] EXCEPT !.pc = "forget", !.keys = {}]
  <2>1. GoOn(w, r) \/ GoOn(w, s)
    BY <2>0
  <2>2. r.pc # "load" /\ s.pc # "load"
    BY <1>14, RunTyped DEF DeleteChunks, RunState, At
  <2> HIDE DEF r, s
  <2> QED
    BY <2>1, <2>2, LookingMoves
<1>15. ASSUME NEW w \in Worker, ForgetCheckpoint(w) PROVE Looking'
  <2> DEFINE r == [run[w] EXCEPT !.pc = "publish"]
  <2>1. GoOn(w, r)
    BY <1>15, RunTyped DEF ForgetCheckpoint, RunState, Fresh
  <2>2. r.pc # "load"
    BY <1>15, RunTyped DEF ForgetCheckpoint, RunState, At
  <2> HIDE DEF r
  <2> QED
    BY <2>1, <2>2, LookingMoves
<1>16. ASSUME NEW w \in Worker, Publish(w) PROVE Looking'
  BY <1>16, NoneTyped, LookingMoves DEF Publish
<1>17. ASSUME NEW w \in Worker, Fail(w) PROVE Looking'
  BY <1>17, NoneTyped, LookingMoves DEF Fail
<1> QED
  BY <1>1, <1>2, <1>3, <1>4, <1>5, <1>6, <1>7, <1>8, <1>9, <1>10, <1>11,
     <1>12, <1>13, <1>14, <1>15, <1>16, <1>17 DEF Next, RunStep, Push, Share,
     Rewrite, vars

LEMMA InitTInv == Init => TInv
<1> SUFFICES ASSUME Init PROVE TInv
  OBVIOUS
<1>1. Repo
  BY ExtractionAssumption DEF Init, Repo, Clones, CommitsOf
<1>2. Runs /\ Looking
  BY NoneTyped DEF Init, Runs, Looking, At
<1>3. Ckpt
  BY DEF Init, Ckpt
<1>4. Chunks
  BY DEF Init, Chunks, NoChunks
<1>5. Public
  BY NoneTyped DEF Init, Public, NotPublished
<1>6. Numbered
  BY IdleNumbered, NoneTyped DEF Init, Numbered, NumberedRun, At
<1> QED
  BY <1>1, <1>2, <1>3, <1>4, <1>5, <1>6 DEF TInv

LEMMA NextTInv == TInv /\ [Next]_vars => TInv'
<1> SUFFICES ASSUME TInv, [Next]_vars PROVE TInv'
  OBVIOUS
<1>1. Repo /\ Runs /\ Ckpt /\ Chunks /\ Public /\ Looking /\ Numbered
  BY DEF TInv
<1>2. Repo' /\ Runs' /\ Ckpt' /\ Chunks'
  BY <1>1, RepoNext, RunsNext, CkptNext, ChunksNext
<1>3. Public' /\ Looking' /\ Numbered'
  BY <1>1, PublicNext, LookingNext, NumberedNext
<1> QED
  BY <1>2, <1>3 DEF TInv

(* Types, and the numbers of chunks, for any runs at a time and any faults.*)
THEOREM Invariance == Spec => []TInv
BY InitTInv, NextTInv, PTL DEF Spec

LEMMA TInvTypeOK == TInv => TypeOK
<1> SUFFICES ASSUME TInv PROVE TypeOK
  OBVIOUS
<1>1. ckpt \in CheckpointState \cup {NoCkpt}
  <2> SUFFICES ASSUME ckpt # NoCkpt PROVE ckpt \in CheckpointState
    OBVIOUS
  <2>1. ckpt \in CkptState /\ \A k \in Kind : ckpt.count[k] <= Cardinality(ckpt.done)
    BY DEF TInv, Ckpt, Numbered
  <2>2. Cardinality(ckpt.done) \in Nat /\ Cardinality(ckpt.done) <= Cardinality(Commit)
        /\ Cardinality(Commit) \in Nat
    BY <2>1, Sizes DEF CkptState, Limit
  <2>3. \A k \in Kind : ckpt.count[k] \in 0 .. Cardinality(Commit)
    BY <2>1, <2>2 DEF CkptState
  <2>4. ckpt.count \in Counts
    BY <2>1, <2>3 DEF CkptState, Counts
  <2> QED
    BY <2>1, <2>4 DEF CkptState, CheckpointState
<1>2. ASSUME NEW w \in Worker PROVE IsRun(run[w])
  <2>1. run[w].count \in Counts
    <3>1. run[w].count \in [Kind -> Nat]
      BY RunTyped DEF TInv
    <3>2. \A k \in Kind : run[w].count[k] \in 0 .. Cardinality(Commit)
      BY Covers DEF TInv, Limit
    <3> QED
      BY <3>1, <3>2 DEF Counts
  <2>2. IsTables(run[w].table)
    BY RunTyped DEF TInv, Tables
  <2> QED
    BY <2>1, <2>2, RunTyped DEF TInv, IsRun, Limit
<1>3. DOMAIN chunks = Kind /\ \A k \in Kind :
        /\ DOMAIN chunks[k] \subseteq 0 .. Cardinality(Commit)
        /\ \A i \in DOMAIN chunks[k] : chunks[k][i] \in (SUBSET Record(k)) \ {{}}
  BY DEF TInv, Chunks, Limit
<1>4. IsTables(published.table)
  BY DEF TInv, Public, Tables
<1> QED
  BY <1>1, <1>2, <1>3, <1>4 DEF TInv, Repo, Public, TypeOK

(* Every reachable state is typed.  In particular a run numbers at most    *)
(* one chunk of a kind for each commit of the repository, however often    *)
(* chunk_callback was resumed.                                             *)
THEOREM TypeCorrect == Spec => []TypeOK
BY Invariance, TInvTypeOK, PTL

------------------------------------------------------------------------------
(* What a step of a run does to that run.                                  *)

LEMMA StartEffect ==
  ASSUME Runs, NEW w \in Worker, Start(w)
  PROVE  /\ At(w, "idle")
         /\ At(w, "load")'
         /\ run'[w].snap = repo
         /\ run'[w].done = {}
         /\ run'[w].count = NoCounts
         /\ run'[w].batch = {}
<1> DEFINE r == [Idle EXCEPT !.pc = "load", !.snap = repo]
<1>1. run'[w] = r
  BY RunTyped DEF Start, GoOn, Runs, RunState, Fresh
<1>2. run[w] \in RunState
  BY RunTyped
<1> QED
  BY <1>1, <1>2 DEF RunState, Idle, At, Start

LEMMA LoadNoneEffect ==
  ASSUME Runs, NEW w \in Worker, LoadNone(w)
  PROVE  /\ At(w, "load")
         /\ At(w, "tree")'
         /\ run'[w].snap = run[w].snap
         /\ run'[w].todo = CommitsOf(run[w].snap)
         /\ run'[w].done = run[w].done
         /\ run'[w].count = run[w].count
         /\ run'[w].batch = run[w].batch
         /\ run'[w].failed = run[w].failed
         /\ run'[w].table = run[w].table
<1> DEFINE r == [run[w] EXCEPT !.pc = "tree", !.todo = CommitsOf(run[w].snap)]
<1>1. run'[w] = r
  BY RunTyped DEF LoadNone, GoOn, Runs, RunState, Fresh
<1>2. run[w] \in RunState
  BY RunTyped
<1> QED
  BY <1>1, <1>2 DEF RunState, Idle, At, LoadNone

LEMMA LoadInvalidEffect ==
  ASSUME Runs, NEW w \in Worker, LoadInvalid(w)
  PROVE  /\ At(w, "load")
         /\ At(w, "tree")'
         /\ run'[w].snap = run[w].snap
         /\ run'[w].todo = CommitsOf(run[w].snap)
         /\ run'[w].done = run[w].done
         /\ run'[w].count = run[w].count
         /\ run'[w].batch = run[w].batch
         /\ run'[w].failed = run[w].failed
         /\ run'[w].table = run[w].table
<1> DEFINE r == [run[w] EXCEPT !.pc = "tree", !.todo = CommitsOf(run[w].snap)]
<1>1. run'[w] = r
  BY RunTyped DEF LoadInvalid, GoOn, Runs, RunState, Fresh
<1>2. run[w] \in RunState
  BY RunTyped
<1> QED
  BY <1>1, <1>2 DEF RunState, Idle, At, LoadInvalid

LEMMA LoadValidEffect ==
  ASSUME Runs, NEW w \in Worker, LoadValid(w)
  PROVE  /\ At(w, "load") /\ Valid(w)
         /\ At(w, "tree")'
         /\ run'[w].snap = run[w].snap
         /\ run'[w].todo = CommitsOf(run[w].snap) \ ckpt.done
         /\ run'[w].done = ckpt.done
         /\ run'[w].count = ckpt.count
         /\ run'[w].batch = run[w].batch
         /\ run'[w].failed = run[w].failed
         /\ run'[w].table = run[w].table
<1> DEFINE r == [run[w] EXCEPT !.pc = "tree",
                               !.todo = CommitsOf(run[w].snap) \ ckpt.done,
                               !.done = ckpt.done, !.count = ckpt.count,
                               !.cached = ckpt.cached]
<1>1. run'[w] = r
  BY RunTyped DEF LoadValid, GoOn, Runs, RunState, Fresh
<1>2. run[w] \in RunState
  BY RunTyped
<1> QED
  BY <1>1, <1>2 DEF RunState, Idle, At, LoadValid

LEMMA TreeCheckpointEffect ==
  ASSUME Runs, NEW w \in Worker, TreeCheckpoint(w)
  PROVE  /\ At(w, "tree")
         /\ At(w, "tree")'
         /\ ckpt'.done = {} /\ ckpt'.count = NoCounts
         /\ run'[w].snap = run[w].snap
         /\ run'[w].todo = run[w].todo
         /\ run'[w].done = run[w].done
         /\ run'[w].count = run[w].count
         /\ run'[w].batch = run[w].batch
         /\ run'[w].failed = run[w].failed
         /\ run'[w].table = run[w].table
<1>1. PICK c \in CommitsOf(run[w].snap) :
        /\ ckpt' = [last |-> c, done |-> {}, count |-> NoCounts,
                    cached |-> run[w].cached \cup UpTo(c, run[w].snap)]
        /\ GoOn(w, [run[w] EXCEPT !.cached = run[w].cached \cup UpTo(c, run[w].snap)])
  BY DEF TreeCheckpoint
<1> DEFINE s == run[w].cached \cup UpTo(c, run[w].snap)
           r == [run[w] EXCEPT !.cached = s]
<1>2. run'[w] = r
  BY <1>1 DEF GoOn, Runs
<1>3. run[w] \in RunState /\ run[w].pc = "tree"
  BY RunTyped DEF TreeCheckpoint, At
<1> HIDE DEF s
<1> QED
  BY <1>1, <1>2, <1>3 DEF RunState, At, s

LEMMA TreeDoneEffect ==
  ASSUME Runs, NEW w \in Worker, TreeDone(w)
  PROVE  /\ At(w, "tree")
         /\ At(w, "commits")'
         /\ run'[w].snap = run[w].snap
         /\ run'[w].todo = run[w].todo
         /\ run'[w].done = run[w].done
         /\ run'[w].count = run[w].count
         /\ run'[w].batch = run[w].batch
         /\ run'[w].failed = run[w].failed
         /\ run'[w].table = run[w].table
<1> DEFINE r == [run[w] EXCEPT !.pc = "commits",
                               !.cached = run[w].cached \cup CommitsOf(run[w].snap)]
<1>1. run'[w] = r
  BY RunTyped DEF TreeDone, GoOn, Runs, RunState, Fresh
<1>2. run[w] \in RunState
  BY RunTyped
<1> QED
  BY <1>1, <1>2 DEF RunState, Idle, At, TreeDone

LEMMA WriteCommitsEffect ==
  ASSUME Runs, NEW w \in Worker, WriteCommits(w)
  PROVE  /\ At(w, "commits")
         /\ At(w, "file_changes")'
         /\ \E B \in SUBSET run[w].todo : \E ok \in SUBSET B :
              /\ chunks' = WithChunk(w, "commits", RecordsOf("commits", ok, run[w].snap))
              /\ run'[w].todo = run[w].todo \ B
              /\ run'[w].batch = ok
              /\ run'[w].failed = run[w].failed \cup (B \ ok)
              /\ run'[w].count = AfterWrite(w, "commits", ok)
         /\ run'[w].snap = run[w].snap
         /\ run'[w].done = run[w].done
         /\ run'[w].table = run[w].table
<1>1. PICK B \in SUBSET run[w].todo, ok \in SUBSET run[w].todo :
        /\ ok \subseteq B
        /\ chunks' = WithChunk(w, "commits", RecordsOf("commits", ok, run[w].snap))
        /\ GoOn(w, [run[w] EXCEPT !.pc = "file_changes",
                                  !.todo = run[w].todo \ B,
                                  !.batch = ok,
                                  !.failed = run[w].failed \cup (B \ ok),
                                  !.count = AfterWrite(w, "commits", ok)])
  BY DEF WriteCommits, Batches
<1> DEFINE t == run[w].todo \ B
           f == run[w].failed \cup (B \ ok)
           n == AfterWrite(w, "commits", ok)
           r == [run[w] EXCEPT !.pc = "file_changes", !.todo = t, !.batch = ok,
                               !.failed = f, !.count = n]
<1>2. run'[w] = r
  BY <1>1 DEF GoOn, Runs
<1>3. run[w] \in RunState /\ At(w, "commits")
  BY RunTyped DEF WriteCommits
<1> HIDE DEF t, f, n
<1>4. /\ r.pc = "file_changes" /\ r.todo = t /\ r.batch = ok /\ r.failed = f /\ r.count = n
      /\ r.snap = run[w].snap /\ r.done = run[w].done /\ r.table = run[w].table
  BY <1>3 DEF RunState
<1> HIDE DEF r
<1> QED
  BY <1>1, <1>2, <1>3, <1>4 DEF At, t, f, n

LEMMA WriteFileChangesEffect ==
  ASSUME Runs, NEW w \in Worker, WriteFileChanges(w)
  PROVE  /\ At(w, "file_changes")
         /\ At(w, "save")'
         /\ run'[w].snap = run[w].snap
         /\ run'[w].todo = run[w].todo
         /\ run'[w].done = run[w].done \cup run[w].batch
         /\ run'[w].count = AfterWrite(w, "file_changes",
               RecordsOf("file_changes", run[w].batch, run[w].snap))
         /\ run'[w].batch = run[w].batch
         /\ run'[w].failed = run[w].failed
         /\ run'[w].table = run[w].table
<1> DEFINE r == [run[w] EXCEPT !.pc = "save",
                               !.done = run[w].done \cup run[w].batch,
                               !.count = AfterWrite(w, "file_changes",
                                 RecordsOf("file_changes", run[w].batch, run[w].snap))]
<1>1. run'[w] = r
  BY RunTyped DEF WriteFileChanges, GoOn, Runs, RunState, Fresh
<1>2. run[w] \in RunState
  BY RunTyped
<1> QED
  BY <1>1, <1>2 DEF RunState, Idle, At, WriteFileChanges

LEMMA SaveCheckpointEffect ==
  ASSUME Runs, NEW w \in Worker, SaveCheckpoint(w)
  PROVE  /\ At(w, "save")
         /\ At(w, "commits")'
         /\ run'[w].snap = run[w].snap
         /\ run'[w].todo = run[w].todo
         /\ run'[w].done = run[w].done
         /\ run'[w].count = run[w].count
         /\ run'[w].batch = {}
         /\ run'[w].failed = run[w].failed
         /\ run'[w].table = run[w].table
<1> DEFINE r == [run[w] EXCEPT !.pc = "commits", !.batch = {}]
<1>1. run'[w] = r
  BY RunTyped DEF SaveCheckpoint, GoOn, Runs, RunState, Fresh
<1>2. run[w] \in RunState
  BY RunTyped
<1> QED
  BY <1>1, <1>2 DEF RunState, Idle, At, SaveCheckpoint

LEMMA MergeEffect ==
  ASSUME Runs, NEW w \in Worker, Merge(w)
  PROVE  /\ At(w, "commits") /\ run[w].todo = {}
         /\ At(w, "merge")'
         /\ run'[w].snap = run[w].snap
         /\ run'[w].todo = run[w].todo
         /\ run'[w].done = run[w].done
         /\ run'[w].count = run[w].count
         /\ run'[w].batch = run[w].batch
         /\ run'[w].failed = run[w].failed
         /\ run'[w].table = [run[w].table EXCEPT !["commits"] = Merged("commits")]
<1> DEFINE r == [run[w] EXCEPT !.pc = "merge",
                 !.table = [run[w].table EXCEPT !["commits"] = Merged("commits")]]
<1>1. run'[w] = r
  BY RunTyped DEF Merge, GoOn, Runs, RunState, Fresh
<1>2. run[w] \in RunState
  BY RunTyped
<1> QED
  BY <1>1, <1>2 DEF RunState, Idle, At, Merge

LEMMA MergeFileChangesEffect ==
  ASSUME Runs, NEW w \in Worker, MergeFileChanges(w)
  PROVE  /\ At(w, "merge")
         /\ At(w, "clean")'
         /\ run'[w].snap = run[w].snap
         /\ run'[w].todo = run[w].todo
         /\ run'[w].done = run[w].done
         /\ run'[w].count = run[w].count
         /\ run'[w].batch = run[w].batch
         /\ run'[w].failed = run[w].failed
         /\ run'[w].table = [run[w].table EXCEPT !["file_changes"] = Merged("file_changes")]
<1> DEFINE r == [run[w] EXCEPT !.pc = "clean",
                 !.table = [run[w].table EXCEPT !["file_changes"] = Merged("file_changes")]]
<1>1. run'[w] = r
  BY RunTyped DEF MergeFileChanges, GoOn, Runs, RunState, Fresh
<1>2. run[w] \in RunState
  BY RunTyped
<1> QED
  BY <1>1, <1>2 DEF RunState, Idle, At, MergeFileChanges

LEMMA ListChunksEffect ==
  ASSUME Runs, NEW w \in Worker, ListChunks(w)
  PROVE  /\ At(w, "clean")
         /\ run'[w].pc \in {"delete", "forget"}
         /\ run'[w].snap = run[w].snap /\ run'[w].failed = run[w].failed
         /\ run'[w].table = run[w].table
<1> DEFINE p == IF ChunkKeys = {} THEN "forget" ELSE "delete"
           r == [run[w] EXCEPT !.keys = ChunkKeys, !.pc = p]
           s == [run[w] EXCEPT !.pc = "forget"]
<1>1. run'[w] = r \/ run'[w] = s
  BY DEF ListChunks, GoOn, Runs
<1>2. run[w] \in RunState /\ At(w, "clean") /\ p \in {"delete", "forget"}
  BY RunTyped DEF ListChunks
<1> HIDE DEF p
<1> QED
  BY <1>1, <1>2 DEF RunState

LEMMA DeleteChunksEffect ==
  ASSUME Runs, NEW w \in Worker, DeleteChunks(w)
  PROVE  /\ At(w, "delete")
         /\ run'[w].pc \in {"delete", "forget"}
         /\ run'[w].snap = run[w].snap /\ run'[w].failed = run[w].failed
         /\ run'[w].table = run[w].table
<1>1. PICK B \in SUBSET run[w].keys :
        \/ GoOn(w, [run[w] EXCEPT !.keys = run[w].keys \ B,
                      !.pc = IF B = run[w].keys THEN "forget" ELSE "delete"])
        \/ GoOn(w, [run[w] EXCEPT !.pc = "forget", !.keys = {}])
  BY DEF DeleteChunks
<1> DEFINE p == IF B = run[w].keys THEN "forget" ELSE "delete"
           r == [run[w] EXCEPT !.keys = run[w].keys \ B, !.pc = p]
           s == [run[w] EXCEPT !.pc = "forget", !.keys = {}]
<1>2. run'[w] = r \/ run'[w] = s
  BY <1>1 DEF GoOn, Runs
<1>3. run[w] \in RunState /\ At(w, "delete") /\ p \in {"delete", "forget"}
  BY RunTyped DEF DeleteChunks
<1> HIDE DEF p
<1> QED
  BY <1>2, <1>3 DEF RunState

LEMMA ForgetCheckpointEffect ==
  ASSUME Runs, NEW w \in Worker, ForgetCheckpoint(w)
  PROVE  /\ At(w, "forget")
         /\ At(w, "publish")'
         /\ run'[w].snap = run[w].snap
         /\ run'[w].failed = run[w].failed
         /\ run'[w].table = run[w].table
<1> DEFINE r == [run[w] EXCEPT !.pc = "publish"]
<1>1. run'[w] = r
  BY RunTyped DEF ForgetCheckpoint, GoOn, Runs, RunState, Fresh
<1>2. run[w] \in RunState
  BY RunTyped
<1> QED
  BY <1>1, <1>2 DEF RunState, Idle, At, ForgetCheckpoint

LEMMA EndEffect ==
  ASSUME Runs, NEW w \in Worker, Publish(w) \/ Fail(w)
  PROVE  At(w, "idle")'
BY NoneTyped DEF Publish, Fail, GoOn, Runs, At

(* With one run at a time, its step is the only one.                       *)
LEMMA Alone ==
  ASSUME Resumable, NEW w \in Worker, NEW v \in Worker
  PROVE  v = w
BY DEF Resumable

------------------------------------------------------------------------------
(* Records in chunks.                                                      *)

LEMMA InChunksOfNone ==
  ASSUME NEW k \in Kind, NEW n
  PROVE  InChunks(k, {}, n)
BY DEF InChunks, RecordsOf

LEMMA InChunksOfUnion ==
  ASSUME NEW k \in Kind, NEW S, NEW T, NEW n, InChunks(k, S, n), InChunks(k, T, n)
  PROVE  InChunks(k, S \cup T, n)
<1>1. \A r \in RecordsOf(k, S \cup T, repo) :
        r \in RecordsOf(k, S, repo) \/ r \in RecordsOf(k, T, repo)
  BY DEF RecordsOf
<1> QED
  BY <1>1 DEF InChunks

(* A commit that was there gets no record when another is pushed.          *)
LEMMA InChunksAfterPush ==
  ASSUME Repo, Push, NEW k \in Kind, NEW S \in SUBSET CommitsOf(repo), NEW n,
         InChunks(k, S, n)
  PROVE  InChunks(k, S, n)'
<1>1. PICK b \in Branch, c \in Commit \ CommitsOf(repo) :
        repo' = [repo EXCEPT ![b] = repo[b] \cup {c}]
  BY DEF Push
<1>2. UNCHANGED chunks
  BY DEF Push
<1>3. RecordsOf(k, S, repo') \subseteq RecordsOf(k, S, repo)
  BY <1>1 DEF RecordsOf, Repo, Clones
<1> QED
  BY <1>2, <1>3 DEF InChunks

(* A write keeps the chunks before its index, and adds its records.        *)
LEMMA InChunksAfterWrite ==
  ASSUME Chunks, Runs, NEW w \in Worker, NEW k \in Kind, NEW rows \in SUBSET Record(k),
         chunks' = WithChunk(w, k, rows), UNCHANGED repo
  PROVE  /\ \A j \in Kind : \A S, n : n \in Nat /\ n <= run[w].count[j] /\ InChunks(j, S, n) =>
              InChunks(j, S, n)'
         /\ \A S, n : InChunks(k, S, run[w].count[k]) /\ n > run[w].count[k] /\ n \in Nat =>
              InChunks(k, S, n)'
         /\ \A S, n : RecordsOf(k, S, repo) \subseteq rows /\ n > run[w].count[k] =>
              InChunks(k, S, n)'
<1>1. run[w].count \in [Kind -> Nat] /\ \A j \in Kind : \A i \in DOMAIN chunks[j] : i \in Nat
  BY RunTyped DEF Chunks
<1>2. ASSUME NEW j \in Kind, NEW i \in DOMAIN chunks[j], i < run[w].count[j]
      PROVE  i \in DOMAIN chunks'[j] /\ chunks'[j][i] = chunks[j][i]
  <2>1. i # run[w].count[j]
    BY <1>1, <1>2
  <2> QED
    BY <2>1, ChunkWritten
<1>3. ASSUME NEW j \in Kind, NEW S, NEW n \in Nat, NEW m \in Nat, n <= run[w].count[j], n <= m,
             InChunks(j, S, n)
      PROVE  InChunks(j, S, m)'
  <2> SUFFICES ASSUME NEW r \in RecordsOf(j, S, repo)
               PROVE  \E i \in DOMAIN chunks'[j] : i < m /\ r \in chunks'[j][i]
    BY DEF InChunks
  <2>1. PICK i \in DOMAIN chunks[j] : i < n /\ r \in chunks[j][i]
    BY <1>3 DEF InChunks
  <2>2. i < run[w].count[j] /\ i < m
    BY <1>1, <1>3, <2>1
  <2> QED
    BY <1>2, <2>1, <2>2
<1>4. ASSUME NEW S, NEW n, RecordsOf(k, S, repo) \subseteq rows, n > run[w].count[k]
      PROVE  InChunks(k, S, n)'
  <2> SUFFICES ASSUME NEW r \in RecordsOf(k, S, repo)
               PROVE  \E i \in DOMAIN chunks'[k] : i < n /\ r \in chunks'[k][i]
    BY DEF InChunks
  <2>1. r \in rows /\ run[w].count[k] < n
    BY <1>4
  <2>2. run[w].count[k] \in DOMAIN chunks'[k] /\ chunks'[k][run[w].count[k]] = rows
    BY <2>1, ChunkWritten
  <2> QED
    BY <2>1, <2>2
<1>5. \A S, n : InChunks(k, S, run[w].count[k]) /\ n > run[w].count[k] /\ n \in Nat =>
        InChunks(k, S, n)'
  BY <1>1, <1>3
<1>6. \A j \in Kind : \A S, n :
        n \in Nat /\ n <= run[w].count[j] /\ InChunks(j, S, n) => InChunks(j, S, n)'
  BY <1>1, <1>3
<1> QED
  BY <1>4, <1>5, <1>6

(* A merge counts a record that is in a chunk.                             *)
LEMMA MergedCounts ==
  ASSUME Chunks, NEW k \in Kind, NEW r \in Record(k), NEW i \in DOMAIN chunks[k],
         r \in chunks[k][i]
  PROVE  Merged(k)[r] >= 1
<1> DEFINE S == {j \in DOMAIN chunks[k] : r \in chunks[k][j]}
<1>1. IsFiniteSet(DOMAIN chunks[k])
  <2>1. 0 \in Int /\ Limit \in Int
    BY Sizes
  <2>2. IsFiniteSet(0 .. Limit)
    BY <2>1, FS_Interval
  <2> QED
    BY <2>2, FS_Subset DEF Chunks
<1>2. IsFiniteSet(S) /\ S # {}
  BY <1>1, FS_Subset
<1>3. Cardinality(S) \in Nat /\ Cardinality(S) # 0
  BY <1>2, FS_CardinalityType, FS_EmptySet
<1>4. Merged(k)[r] = Cardinality(S)
  BY DEF Merged, Quantify
<1> QED
  BY <1>3, <1>4

------------------------------------------------------------------------------
(* The invariant of resuming.                                              *)

LEMMA CloneIsPart ==
  ASSUME Repo, Runs, Cloned, NEW w \in Worker, ~At(w, "idle")
  PROVE  /\ CommitsOf(run[w].snap) \subseteq CommitsOf(repo)
         /\ \A b \in Branch : run[w].snap[b] \subseteq repo[b]
<1>1. \A b \in Branch : run[w].snap[b] \subseteq repo[b]
  BY DEF Cloned
<1> QED
  BY <1>1 DEF CommitsOf

LEMMA ClonedMoves ==
  ASSUME Resumable, Cloned, NEW w \in Worker, UNCHANGED repo,
         \/ At(w, "idle")'
         \/ ~At(w, "idle") /\ run'[w].snap = run[w].snap
  PROVE  Cloned'
BY Alone DEF Cloned, At

(* While a run lasts its commits get no other branches.                    *)
LEMMA ClonedNext ==
  ASSUME Resumable, Repo, Runs, Cloned, [Next]_vars
  PROVE  Cloned'
<1>1. ASSUME UNCHANGED <<repo, run>> PROVE Cloned'
  BY <1>1 DEF Cloned, At
<1>2. ASSUME Push PROVE Cloned'
  <2>1. PICK b \in Branch, c \in Commit \ CommitsOf(repo) :
          repo' = [repo EXCEPT ![b] = repo[b] \cup {c}]
    BY <1>2 DEF Push
  <2>2. UNCHANGED run
    BY <1>2 DEF Push
  <2>3. ASSUME NEW w \in Worker, ~At(w, "idle"), NEW a \in Branch
        PROVE  repo'[a] \cap CommitsOf(run[w].snap) = run[w].snap[a]
    <3>1. c \notin CommitsOf(run[w].snap)
      BY <2>1, <2>3, CloneIsPart
    <3>2. repo'[a] = repo[a] \/ repo'[a] = repo[a] \cup {c}
      BY <2>1 DEF Repo, Clones
    <3> QED
      BY <2>3, <3>1, <3>2 DEF Cloned
  <2> QED
    BY <2>2, <2>3 DEF Cloned, At
<1>3. ASSUME Share PROVE Cloned'
  BY <1>3 DEF Share, Resumable
<1>4. ASSUME Rewrite PROVE Cloned'
  BY <1>4 DEF Rewrite, Resumable
<1>5. ASSUME NEW w \in Worker, Start(w) PROVE Cloned'
  <2>1. run'[w].snap = repo /\ UNCHANGED repo
    BY <1>5, StartEffect DEF Start
  <2>2. \A b \in Branch : repo[b] \cap CommitsOf(repo) = repo[b]
    BY CommitsTyped DEF Repo
  <2> QED
    BY <2>1, <2>2, Alone DEF Cloned
<1>6. ASSUME NEW w \in Worker, LoadNone(w) PROVE Cloned'
  <2>1. ~At(w, "idle") /\ run'[w].snap = run[w].snap
    BY <1>6, LoadNoneEffect DEF At
  <2> QED
    BY <1>6, <2>1, ClonedMoves DEF LoadNone
<1>7. ASSUME NEW w \in Worker, LoadInvalid(w) PROVE Cloned'
  <2>1. ~At(w, "idle") /\ run'[w].snap = run[w].snap
    BY <1>7, LoadInvalidEffect DEF At
  <2> QED
    BY <1>7, <2>1, ClonedMoves DEF LoadInvalid
<1>8. ASSUME NEW w \in Worker, LoadValid(w) PROVE Cloned'
  <2>1. ~At(w, "idle") /\ run'[w].snap = run[w].snap
    BY <1>8, LoadValidEffect DEF At
  <2> QED
    BY <1>8, <2>1, ClonedMoves DEF LoadValid
<1>9. ASSUME NEW w \in Worker, TreeCheckpoint(w) PROVE Cloned'
  <2>1. ~At(w, "idle") /\ run'[w].snap = run[w].snap
    BY <1>9, TreeCheckpointEffect DEF At
  <2> QED
    BY <1>9, <2>1, ClonedMoves DEF TreeCheckpoint
<1>10. ASSUME NEW w \in Worker, TreeDone(w) PROVE Cloned'
  <2>1. ~At(w, "idle") /\ run'[w].snap = run[w].snap
    BY <1>10, TreeDoneEffect DEF At
  <2> QED
    BY <1>10, <2>1, ClonedMoves DEF TreeDone
<1>11. ASSUME NEW w \in Worker, WriteCommits(w) PROVE Cloned'
  <2>1. ~At(w, "idle") /\ run'[w].snap = run[w].snap
    BY <1>11, WriteCommitsEffect DEF At
  <2> QED
    BY <1>11, <2>1, ClonedMoves DEF WriteCommits
<1>12. ASSUME NEW w \in Worker, WriteFileChanges(w) PROVE Cloned'
  <2>1. ~At(w, "idle") /\ run'[w].snap = run[w].snap
    BY <1>12, WriteFileChangesEffect DEF At
  <2> QED
    BY <1>12, <2>1, ClonedMoves DEF WriteFileChanges
<1>13. ASSUME NEW w \in Worker, SaveCheckpoint(w) PROVE Cloned'
  <2>1. ~At(w, "idle") /\ run'[w].snap = run[w].snap
    BY <1>13, SaveCheckpointEffect DEF At
  <2> QED
    BY <1>13, <2>1, ClonedMoves DEF SaveCheckpoint
<1>14. ASSUME NEW w \in Worker, Merge(w) PROVE Cloned'
  <2>1. ~At(w, "idle") /\ run'[w].snap = run[w].snap
    BY <1>14, MergeEffect DEF At
  <2> QED
    BY <1>14, <2>1, ClonedMoves DEF Merge
<1>15. ASSUME NEW w \in Worker, MergeFileChanges(w) PROVE Cloned'
  <2>1. ~At(w, "idle") /\ run'[w].snap = run[w].snap
    BY <1>15, MergeFileChangesEffect DEF At
  <2> QED
    BY <1>15, <2>1, ClonedMoves DEF MergeFileChanges
<1>16. ASSUME NEW w \in Worker, ListChunks(w) PROVE Cloned'
  <2>1. ~At(w, "idle") /\ run'[w].snap = run[w].snap
    BY <1>16, ListChunksEffect DEF At
  <2> QED
    BY <1>16, <2>1, ClonedMoves DEF ListChunks
<1>17. ASSUME NEW w \in Worker, DeleteChunks(w) PROVE Cloned'
  <2>1. ~At(w, "idle") /\ run'[w].snap = run[w].snap
    BY <1>17, DeleteChunksEffect DEF At
  <2> QED
    BY <1>17, <2>1, ClonedMoves DEF DeleteChunks
<1>18. ASSUME NEW w \in Worker, ForgetCheckpoint(w) PROVE Cloned'
  <2>1. ~At(w, "idle") /\ run'[w].snap = run[w].snap
    BY <1>18, ForgetCheckpointEffect DEF At
  <2> QED
    BY <1>18, <2>1, ClonedMoves DEF ForgetCheckpoint
<1>19. ASSUME NEW w \in Worker, Publish(w) PROVE Cloned'
  BY <1>19, EndEffect, ClonedMoves DEF Publish
<1>20. ASSUME NEW w \in Worker, Fail(w) PROVE Cloned'
  BY <1>20, EndEffect, ClonedMoves DEF Fail
<1> QED
  BY <1>1, <1>2, <1>3, <1>4, <1>5, <1>6, <1>7, <1>8, <1>9, <1>10, <1>11,
     <1>12, <1>13, <1>14, <1>15, <1>16, <1>17, <1>18, <1>19, <1>20 DEF Next,
     RunStep, vars

(* Chunks, checkpoint and repository are left alone.                       *)
LEMMA VouchedStays ==
  ASSUME Resumable, Vouched, NEW w \in Worker, UNCHANGED <<repo, chunks, ckpt>>,
         ~At(w, "delete") /\ ~At(w, "forget")
  PROVE  Vouched'
<1>1. Undeleted
  BY Alone DEF Undeleted
<1> QED
  BY <1>1 DEF Vouched, InChunks

(* A checkpoint stays good until the chunks it counts are deleted.         *)
LEMMA VouchedNext ==
  ASSUME Resumable, Repo, Runs, Ckpt, Chunks, Extraction, Vouched, [Next]_vars
  PROVE  Vouched'
<1>1. ASSUME UNCHANGED <<repo, chunks, ckpt, run>> PROVE Vouched'
  BY <1>1 DEF Vouched, Undeleted, At, InChunks
<1>2. ASSUME Push PROVE Vouched'
  <2>1. Undeleted' = Undeleted /\ UNCHANGED <<ckpt, chunks>>
    BY <1>2 DEF Push, Undeleted, At
  <2>2. CommitsOf(repo) \subseteq CommitsOf(repo')
    <3>1. \A b \in Branch : repo[b] \subseteq repo'[b]
      BY <1>2 DEF Push, Repo, Clones
    <3> QED
      BY <3>1 DEF CommitsOf
  <2>3. ASSUME ckpt # NoCkpt, Undeleted
        PROVE  /\ ckpt.done \subseteq CommitsOf(repo)
               /\ \A k \in Kind : InChunks(k, ckpt.done, ckpt.count[k])'
    <3>1. /\ ckpt.done \subseteq CommitsOf(repo)
          /\ \A k \in Kind : InChunks(k, ckpt.done, ckpt.count[k])
      BY <2>3 DEF Vouched
    <3>2. ASSUME NEW k \in Kind PROVE InChunks(k, ckpt.done, ckpt.count[k])'
      <4>1. \A S \in SUBSET CommitsOf(repo) : \A n : InChunks(k, S, n) => InChunks(k, S, n)'
        BY <1>2, InChunksAfterPush
      <4>2. ckpt' = ckpt
        BY <2>1
      <4> QED
        BY <3>1, <4>1, <4>2
    <3> QED
      BY <3>1, <3>2
  <2> QED
    BY <2>1, <2>2, <2>3 DEF Vouched
<1>3. ASSUME Share PROVE Vouched'
  BY <1>3 DEF Share, Resumable
<1>4. ASSUME Rewrite PROVE Vouched'
  BY <1>4 DEF Rewrite, Resumable
<1>5. ASSUME NEW w \in Worker, Start(w) PROVE Vouched'
  BY <1>5, VouchedStays DEF Start, At
<1>6. ASSUME NEW w \in Worker, LoadNone(w) PROVE Vouched'
  BY <1>6, VouchedStays DEF LoadNone, At
<1>7. ASSUME NEW w \in Worker, LoadInvalid(w) PROVE Vouched'
  <2>1. ckpt' = NoCkpt
    BY <1>7 DEF LoadInvalid, Faulty, Resumable
  <2> QED
    BY <2>1 DEF Vouched
<1>8. ASSUME NEW w \in Worker, LoadValid(w) PROVE Vouched'
  BY <1>8, VouchedStays DEF LoadValid, At
<1>9. ASSUME NEW w \in Worker, TreeCheckpoint(w) PROVE Vouched'
  <2>1. ckpt'.done = {}
    BY <1>9, TreeCheckpointEffect
  <2>2. \A k \in Kind : \A n : InChunks(k, {}, n)'
    BY DEF InChunks, RecordsOf
  <2> QED
    BY <2>1, <2>2 DEF Vouched, InChunks
<1>10. ASSUME NEW w \in Worker, TreeDone(w) PROVE Vouched'
  BY <1>10, VouchedStays DEF TreeDone, At
<1>11. ASSUME NEW w \in Worker, WriteCommits(w) PROVE Vouched'
  <2>1. PICK ok \in SUBSET run[w].todo :
          chunks' = WithChunk(w, "commits", RecordsOf("commits", ok, run[w].snap))
    BY <1>11, WriteCommitsEffect
  <2> DEFINE rows == RecordsOf("commits", ok, run[w].snap)
  <2>2. rows \in SUBSET Record("commits")
    BY RunTyped DEF RecordsOf, Record
  <2>3. UNCHANGED <<repo, ckpt>> /\ Undeleted
    BY <1>11, Alone DEF WriteCommits, Undeleted, At
  <2> HIDE DEF rows
  <2>4. ASSUME ckpt # NoCkpt, NEW j \in Kind PROVE InChunks(j, ckpt.done, ckpt.count[j])'
    <3>1. InChunks(j, ckpt.done, ckpt.count[j])
      BY <2>3, <2>4 DEF Vouched
    <3>2. ckpt.count[j] \in Nat /\ ckpt.count[j] <= run[w].count[j]
      BY <1>11, <2>4 DEF WriteCommits, At, Extraction, Kept, Extracting,
         Ckpt, CkptState
    <3>3. InChunks(j, ckpt.done, ckpt.count[j]) =>
            \A n : n = ckpt.count[j] => InChunks(j, ckpt.done, n)'
      <4> DEFINE d == ckpt.done
                 m == ckpt.count[j]
      <4>1. d' = d /\ m' = m
        BY <2>3
      <4> QED
        BY <2>1, <2>2, <2>3, <3>2, <4>1, InChunksAfterWrite DEF Kind, rows
    <3> QED
      BY <2>3, <3>1, <3>3 DEF InChunks
  <2>5. ckpt # NoCkpt => ckpt.done \subseteq CommitsOf(repo)
    BY <2>3 DEF Vouched
  <2> QED
    BY <2>3, <2>4, <2>5 DEF Vouched
<1>12. ASSUME NEW w \in Worker, WriteFileChanges(w) PROVE Vouched'
  <2> DEFINE rows == RecordsOf("file_changes", run[w].batch, run[w].snap)
  <2>1. chunks' = WithChunk(w, "file_changes", rows)
    BY <1>12 DEF WriteFileChanges
  <2>2. rows \in SUBSET Record("file_changes")
    BY RunTyped DEF RecordsOf, Record
  <2>3. UNCHANGED <<repo, ckpt>> /\ Undeleted
    BY <1>12, Alone DEF WriteFileChanges, Undeleted, At
  <2> HIDE DEF rows
  <2>4. ASSUME ckpt # NoCkpt, NEW j \in Kind PROVE InChunks(j, ckpt.done, ckpt.count[j])'
    <3>1. InChunks(j, ckpt.done, ckpt.count[j])
      BY <2>3, <2>4 DEF Vouched
    <3>2. ckpt.count[j] \in Nat /\ ckpt.count[j] <= run[w].count[j]
      BY <1>12, <2>4 DEF WriteFileChanges, At, Extraction, Kept, Extracting,
         Ckpt, CkptState
    <3>3. InChunks(j, ckpt.done, ckpt.count[j]) =>
            \A n : n = ckpt.count[j] => InChunks(j, ckpt.done, n)'
      <4> DEFINE d == ckpt.done
                 m == ckpt.count[j]
      <4>1. d' = d /\ m' = m
        BY <2>3
      <4> QED
        BY <2>1, <2>2, <2>3, <3>2, <4>1, InChunksAfterWrite DEF Kind, rows
    <3> QED
      BY <2>3, <3>1, <3>3 DEF InChunks
  <2>5. ckpt # NoCkpt => ckpt.done \subseteq CommitsOf(repo)
    BY <2>3 DEF Vouched
  <2> QED
    BY <2>3, <2>4, <2>5 DEF Vouched
<1>13. ASSUME NEW w \in Worker, SaveCheckpoint(w) PROVE Vouched'
  <2>1. CASE UNCHANGED ckpt
    BY <1>13, <2>1, VouchedStays DEF SaveCheckpoint, At
  <2>2. CASE ckpt' = [last |-> Last(run[w].snap), done |-> run[w].done,
                      count |-> run[w].count, cached |-> run[w].cached]
    <3>1. ckpt'.done = run[w].done /\ ckpt'.count = run[w].count
          /\ UNCHANGED <<repo, chunks>>
      BY <1>13, <2>2 DEF SaveCheckpoint
    <3>2. /\ run[w].done \subseteq CommitsOf(repo)
          /\ \A k \in Kind : InChunks(k, run[w].done, run[w].count[k])
      BY <1>13 DEF SaveCheckpoint, At, Extraction, Kept, Extracting
    <3> QED
      BY <3>1, <3>2 DEF Vouched, InChunks
  <2> QED
    BY <1>13, <2>1, <2>2 DEF SaveCheckpoint, Processed
<1>14. ASSUME NEW w \in Worker, Merge(w) PROVE Vouched'
  BY <1>14, VouchedStays DEF Merge, At
<1>15. ASSUME NEW w \in Worker, MergeFileChanges(w) PROVE Vouched'
  BY <1>15, VouchedStays DEF MergeFileChanges, At
<1>16. ASSUME NEW w \in Worker, ListChunks(w) PROVE Vouched'
  BY <1>16, VouchedStays DEF ListChunks, At
<1>17. ASSUME NEW w \in Worker, DeleteChunks(w) PROVE Vouched'
  <2>1. ~Undeleted'
    BY <1>17, DeleteChunksEffect DEF Undeleted, At
  <2> QED
    BY <2>1 DEF Vouched
<1>18. ASSUME NEW w \in Worker, ForgetCheckpoint(w) PROVE Vouched'
  <2>1. ckpt' = NoCkpt
    BY <1>18 DEF ForgetCheckpoint, Faulty, Resumable
  <2> QED
    BY <2>1 DEF Vouched
<1>19. ASSUME NEW w \in Worker, Publish(w) PROVE Vouched'
  BY <1>19, VouchedStays DEF Publish, At
<1>20. ASSUME NEW w \in Worker, Fail(w) PROVE Vouched'
  <2>1. ~At(w, "delete") /\ ~At(w, "forget")
    BY <1>20 DEF Fail, Faulty, Resumable
  <2> QED
    BY <1>20, <2>1, VouchedStays DEF Fail
<1> QED
  BY <1>1, <1>2, <1>3, <1>4, <1>5, <1>6, <1>7, <1>8, <1>9, <1>10, <1>11,
     <1>12, <1>13, <1>14, <1>15, <1>16, <1>17, <1>18, <1>19, <1>20 DEF Next,
     RunStep, vars

LEMMA ExtractionMoves ==
  ASSUME Resumable, NEW w \in Worker, Kept(run[w])'
  PROVE  Extraction'
BY Alone DEF Extraction

LEMMA InChunksStay ==
  ASSUME UNCHANGED <<repo, chunks>>, NEW k \in Kind
  PROVE  \A S, n : InChunks(k, S, n)' <=> InChunks(k, S, n)
BY DEF InChunks

(* A run that took up no checkpoint starts with no records in chunks.      *)
LEMMA FreshKept ==
  ASSUME Resumable, Repo, Runs, Looking, Cloned, NEW w \in Worker,
         LoadNone(w) \/ LoadInvalid(w)
  PROVE  Kept(run[w])'
<1>1. ckpt' = NoCkpt
  BY DEF LoadNone, LoadInvalid, NoFault, Faulty, Resumable
<1>2. /\ At(w, "tree")' /\ run'[w].todo = CommitsOf(run'[w].snap)
      /\ run'[w].done = {} /\ run'[w].batch = {}
  BY LoadNoneEffect, LoadInvalidEffect DEF Looking
<1>3. \A k \in Kind : \A n : InChunks(k, {}, n)'
  BY DEF InChunks, RecordsOf
<1> QED
  BY <1>1, <1>2, <1>3 DEF Kept, At, Extracting, Extracted

(* What a merge puts in a table is what is in the chunks.                  *)
LEMMA MergeIsFull ==
  ASSUME Repo, Runs, Chunks, Cloned, NEW w \in Worker, NEW k \in Kind, ~At(w, "idle"),
         CommitsOf(run[w].snap) \subseteq run[w].done \cup run[w].failed,
         InChunks(k, run[w].done, run[w].count[k])
  PROVE  \A x \in RecordsOf(k, CommitsOf(run[w].snap) \ run[w].failed, run[w].snap) :
           x \in Record(k) /\ Merged(k)[x] >= 1
<1> SUFFICES ASSUME NEW x \in RecordsOf(k, CommitsOf(run[w].snap) \ run[w].failed,
                                        run[w].snap)
             PROVE  x \in Record(k) /\ Merged(k)[x] >= 1
  OBVIOUS
<1>1. x \in Record(k)
  BY RunTyped DEF RecordsOf, Record
<1>2. x \in RecordsOf(k, run[w].done, repo)
  BY CloneIsPart DEF RecordsOf
<1>3. PICK i \in DOMAIN chunks[k] : x \in chunks[k][i]
  BY <1>2 DEF InChunks
<1>4. Merged(k)[x] >= 1
  <2> HIDE DEF Chunks
  <2> QED
    BY Zenon, <1>1, <1>3, MergedCounts
<1> QED
  BY <1>1, <1>4

(* What a run skips or has done is in chunks until it is in its tables.    *)
LEMMA ExtractionNext ==
  ASSUME Resumable, Repo, Runs, Ckpt, Chunks, Looking, Cloned, Vouched, Extraction,
         [Next]_vars
  PROVE  Extraction'
<1>1. ASSUME UNCHANGED <<repo, chunks, ckpt, run>> PROVE Extraction'
  BY <1>1 DEF Extraction, Kept, Full, InChunks
<1>2. ASSUME Push PROVE Extraction'
  <2>1. UNCHANGED <<run, ckpt>>
    BY <1>2 DEF Push
  <2>2. \A k \in Kind : \A S \in SUBSET CommitsOf(repo) : \A n :
          InChunks(k, S, n) => InChunks(k, S, n)'
    BY <1>2, InChunksAfterPush
  <2>3. CommitsOf(repo) \subseteq CommitsOf(repo')
    <3>1. \A b \in Branch : repo[b] \subseteq repo'[b]
      BY <1>2 DEF Push, Repo, Clones
    <3> QED
      BY <3>1 DEF CommitsOf
  <2>4. ASSUME NEW w \in Worker PROVE Kept(run[w])'
    <3>1. run' = run /\ ckpt' = ckpt
      BY <2>1
    <3>2. Kept(run[w])
      BY DEF Extraction
    <3>3. CASE run[w].pc \in Extracting \cup {"merge"}
      <4>1. run[w].done \subseteq CommitsOf(repo)
        BY <3>2, <3>3 DEF Kept
      <4>2. run[w].batch \subseteq CommitsOf(repo)
        BY <3>2, <3>3, CloneIsPart DEF Kept, At, Extracting
      <4> DEFINE d == run[w].done
                 b == run[w].batch
                 n == run[w].count
      <4>3. d' = d /\ b' = b /\ n' = n
        BY <3>1
      <4>4. \A k \in Kind : InChunks(k, run[w].done, run[w].count[k])'
        BY <2>2, <3>2, <3>3, <4>1, <4>3 DEF Kept
      <4>5. run[w].pc = "file_changes" => InChunks("commits", run[w].batch, run[w].count["commits"])'
        BY <2>2, <3>2, <4>2, <4>3 DEF Kept, Kind
      <4> QED
        BY <2>3, <3>1, <3>2, <3>3, <4>4, <4>5 DEF Kept, Full
    <3>4. CASE run[w].pc \notin Extracting \cup {"merge"}
      BY <3>1, <3>2, <3>4 DEF Kept, Full, Extracting
    <3> QED
      BY <3>3, <3>4
  <2> QED
    BY <2>4 DEF Extraction
<1>3. ASSUME Share PROVE Extraction'
  BY <1>3 DEF Share, Resumable
<1>4. ASSUME Rewrite PROVE Extraction'
  BY <1>4 DEF Rewrite, Resumable
<1>5. ASSUME NEW w \in Worker, Start(w) PROVE Extraction'
  <2>1. Kept(run[w])'
    BY <1>5, StartEffect DEF Kept, At, Extracting, Extracted
  <2> QED
    BY <2>1, ExtractionMoves
<1>6. ASSUME NEW w \in Worker, LoadNone(w) PROVE Extraction'
  BY <1>6, FreshKept, ExtractionMoves
<1>7. ASSUME NEW w \in Worker, LoadInvalid(w) PROVE Extraction'
  BY <1>7, FreshKept, ExtractionMoves
<1>8. ASSUME NEW w \in Worker, LoadValid(w) PROVE Extraction'
  <2>1. /\ At(w, "load") /\ Valid(w) /\ UNCHANGED <<repo, chunks, ckpt>>
        /\ At(w, "tree")' /\ run'[w].batch = {} /\ run'[w].done = ckpt.done
        /\ run'[w].todo = CommitsOf(run'[w].snap) \ ckpt.done
        /\ run'[w].count = ckpt.count
    BY <1>8, LoadValidEffect DEF LoadValid, Looking
  <2>2. Undeleted /\ ckpt # NoCkpt
    BY <2>1, Alone DEF Undeleted, At, Valid
  <2>3. /\ ckpt.done \subseteq CommitsOf(repo)
        /\ \A k \in Kind : InChunks(k, ckpt.done, ckpt.count[k])
    BY <2>2 DEF Vouched
  <2>4. \A k \in Kind : ckpt.count[k] \in Nat
    BY <2>2 DEF Ckpt, CkptState
  <2>5. \A k \in Kind : InChunks(k, run[w].done, run[w].count[k])'
    <3> SUFFICES ASSUME NEW k \in Kind PROVE InChunks(k, run[w].done, run[w].count[k])'
      OBVIOUS
    <3>1. InChunks(k, ckpt.done, ckpt.count[k])
      BY <2>3
    <3>2. repo' = repo /\ chunks' = chunks
      BY <2>1
    <3> QED
      BY <2>1, <3>1, <3>2 DEF InChunks
  <2>6. Kept(run[w])'
    BY <2>1, <2>3, <2>4, <2>5 DEF Kept, At, Extracting, Extracted
  <2> QED
    BY <2>6, ExtractionMoves
<1>9. ASSUME NEW w \in Worker, TreeCheckpoint(w) PROVE Extraction'
  <2>1. /\ At(w, "tree") /\ At(w, "tree")' /\ UNCHANGED <<repo, chunks>>
        /\ run'[w].snap = run[w].snap /\ run'[w].todo = run[w].todo
        /\ run'[w].done = run[w].done /\ run'[w].count = run[w].count
        /\ run'[w].failed = run[w].failed
        /\ run'[w].batch = run[w].batch
    BY <1>9, TreeCheckpointEffect DEF TreeCheckpoint
  <2>2. Kept(run[w])
    BY DEF Extraction
  <2>3. \A k \in Kind : InChunks(k, run[w].done, run[w].count[k])'
    <3> SUFFICES ASSUME NEW k \in Kind PROVE InChunks(k, run[w].done, run[w].count[k])'
      OBVIOUS
    <3>1. InChunks(k, run[w].done, run[w].count[k])
      BY <2>1, <2>2 DEF Kept, At, Extracting
    <3>2. repo' = repo /\ chunks' = chunks
      BY <2>1
    <3> QED
      BY <2>1, <3>1, <3>2 DEF InChunks
  <2>4. run[w].count \in [Kind -> Nat]
    BY RunTyped
  <2>5. ckpt' # NoCkpt => \A k \in Kind : ckpt'.count[k] <= run[w].count[k]
    BY <1>9, <2>4, TreeCheckpointEffect, NoneTyped
  <2>6. Kept(run[w])'
    BY <2>1, <2>2, <2>3, <2>5 DEF Kept, At, Extracting, Extracted
  <2> QED
    BY <2>6, ExtractionMoves
<1>10. ASSUME NEW w \in Worker, TreeDone(w) PROVE Extraction'
  <2>1. /\ At(w, "tree") /\ At(w, "commits")' /\ UNCHANGED <<repo, chunks>>
        /\ run'[w].snap = run[w].snap /\ run'[w].todo = run[w].todo
        /\ run'[w].done = run[w].done /\ run'[w].count = run[w].count
        /\ run'[w].failed = run[w].failed
        /\ run'[w].batch = run[w].batch
    BY <1>10, TreeDoneEffect DEF TreeDone
  <2>2. Kept(run[w])
    BY DEF Extraction
  <2>3. \A k \in Kind : InChunks(k, run[w].done, run[w].count[k])'
    <3> SUFFICES ASSUME NEW k \in Kind PROVE InChunks(k, run[w].done, run[w].count[k])'
      OBVIOUS
    <3>1. InChunks(k, run[w].done, run[w].count[k])
      BY <2>1, <2>2 DEF Kept, At, Extracting
    <3>2. repo' = repo /\ chunks' = chunks
      BY <2>1
    <3> QED
      BY <2>1, <3>1, <3>2 DEF InChunks
  <2>4. run[w].count \in [Kind -> Nat]
    BY RunTyped
  <2>5. ckpt' # NoCkpt => \A k \in Kind : ckpt'.count[k] <= run[w].count[k]
    BY <1>10, <2>1, <2>2 DEF TreeDone, Kept, At, Extracting
  <2>6. Kept(run[w])'
    BY <2>1, <2>2, <2>3, <2>5 DEF Kept, At, Extracting, Extracted
  <2> QED
    BY <2>6, ExtractionMoves
<1>11. ASSUME NEW w \in Worker, WriteCommits(w) PROVE Extraction'
  <2>1. PICK B \in SUBSET run[w].todo, ok \in SUBSET run[w].todo :
          /\ ok \subseteq B
          /\ chunks' = WithChunk(w, "commits", RecordsOf("commits", ok, run[w].snap))
          /\ run'[w].todo = run[w].todo \ B
          /\ run'[w].batch = ok
          /\ run'[w].failed = run[w].failed \cup (B \ ok)
          /\ run'[w].count = AfterWrite(w, "commits", ok)
    BY <1>11, WriteCommitsEffect
  <2>2. /\ At(w, "commits") /\ At(w, "file_changes")'
        /\ run'[w].snap = run[w].snap /\ run'[w].done = run[w].done
        /\ UNCHANGED <<repo, ckpt>>
    BY <1>11, WriteCommitsEffect DEF WriteCommits
  <2>3. Kept(run[w])
    BY DEF Extraction
  <2> DEFINE rows == RecordsOf("commits", ok, run[w].snap)
             d == run[w].done
             old == run[w].count
             new == AfterWrite(w, "commits", ok)
  <2>4. rows \in SUBSET Record("commits")
    BY RunTyped DEF RecordsOf, Record
  <2>5. /\ old \in [Kind -> Nat] /\ new \in [Kind -> Nat]
        /\ new["file_changes"] = old["file_changes"]
        /\ new["commits"] = IF ok = {} THEN old["commits"] ELSE old["commits"] + 1
    BY RunTyped, CountTyped DEF Kind
  <2>6. RecordsOf("commits", ok, repo) \subseteq rows
    <3>1. ok \subseteq CommitsOf(run[w].snap)
      BY <2>2, <2>3 DEF Kept, At, Extracting
    <3>2. \A b \in Branch : repo[b] \cap CommitsOf(run[w].snap) = run[w].snap[b]
      BY <2>2 DEF Cloned, At
    <3> QED
      BY <3>1, <3>2 DEF RecordsOf
  <2>7. \A k \in Kind : InChunks(k, d, old[k])
    BY <2>2, <2>3 DEF Kept, At, Extracting
  <2> HIDE DEF rows, new
  <2>8. /\ \A j \in Kind : \A S, n : n \in Nat /\ n <= old[j] /\ InChunks(j, S, n) =>
             InChunks(j, S, n)'
        /\ \A S, n : InChunks("commits", S, old["commits"]) /\ n > old["commits"] /\ n \in Nat =>
             InChunks("commits", S, n)'
        /\ \A S, n : RecordsOf("commits", S, repo) \subseteq rows /\ n > old["commits"] =>
             InChunks("commits", S, n)'
    BY <2>1, <2>2, <2>4, InChunksAfterWrite DEF Kind, rows
  <2>9. run'[w].done = d /\ run'[w].count = new /\ run'[w].batch = ok
    BY <2>1, <2>2 DEF new
  <2> HIDE DEF d, old
  <2>10. \A k \in Kind : InChunks(k, run[w].done, run[w].count[k])'
    <3>1. InChunks("file_changes", run[w].done, run[w].count["file_changes"])'
      <4>1. old["file_changes"] \in Nat /\ old["file_changes"] <= old["file_changes"]
        BY <2>5 DEF Kind
      <4> QED
        BY <2>5, <2>7, <2>8, <2>9, <4>1 DEF Kind
    <3>2. InChunks("commits", run[w].done, run[w].count["commits"])'
      <4>1. old["commits"] \in Nat /\ old["commits"] <= old["commits"]
            /\ old["commits"] + 1 > old["commits"] /\ old["commits"] + 1 \in Nat
        BY <2>5 DEF Kind
      <4>2. CASE ok = {}
        BY <2>5, <2>7, <2>8, <2>9, <4>1, <4>2 DEF Kind
      <4>3. CASE ok # {}
        BY <2>5, <2>7, <2>8, <2>9, <4>1, <4>3 DEF Kind
      <4> QED
        BY <4>2, <4>3
    <3> QED
      BY <3>1, <3>2 DEF Kind
  <2>11. InChunks("commits", run[w].batch, run[w].count["commits"])'
    <3>1. CASE ok = {}
      <4>1. \A n : InChunks("commits", {}, n)'
        BY DEF InChunks, RecordsOf
      <4> QED
        BY <2>9, <3>1, <4>1
    <3>2. CASE ok # {}
      <4>1. old["commits"] + 1 > old["commits"]
        BY <2>5 DEF Kind
      <4> QED
        BY <2>5, <2>6, <2>8, <2>9, <3>2, <4>1
    <3> QED
      BY <3>1, <3>2
  <2>12. ckpt # NoCkpt => \A k \in Kind : ckpt.count[k] <= new[k]
    <3> SUFFICES ASSUME ckpt # NoCkpt, NEW k \in Kind PROVE ckpt.count[k] <= new[k]
      OBVIOUS
    <3>1. ckpt.count[k] <= old[k]
      BY <2>2, <2>3 DEF Kept, At, Extracting, old
    <3>2. ckpt.count[k] \in Nat /\ old[k] \in Nat /\ new[k] \in Nat
      BY <2>5 DEF Ckpt, CkptState
    <3>3. new[k] = old[k] \/ new[k] = old[k] + 1
      BY <2>5 DEF Kind
    <3> QED
      BY <3>1, <3>2, <3>3
  <2>13. /\ run'[w].todo \cup run'[w].batch \subseteq CommitsOf(run[w].snap)
         /\ run[w].done \subseteq CommitsOf(repo)
         /\ CommitsOf(run[w].snap) \subseteq
              run'[w].todo \cup run[w].done \cup run'[w].failed \cup run'[w].batch
    BY <2>1, <2>2, <2>3 DEF Kept, At, Extracting
  <2>14. Kept(run[w])'
    <3>1. run'[w].pc = "file_changes"
      BY <2>2 DEF At
    <3>2. run'[w].todo \cup run'[w].batch \subseteq CommitsOf(run'[w].snap)
          /\ run'[w].done \subseteq CommitsOf(repo)'
          /\ CommitsOf(run'[w].snap) \subseteq
               run'[w].todo \cup run'[w].done \cup run'[w].failed \cup run'[w].batch
      BY <2>1, <2>2, <2>9, <2>13
    <3>3. ckpt' # NoCkpt => \A k \in Kind : ckpt'.count[k] <= run'[w].count[k]
      BY <2>2, <2>9, <2>12
    <3> QED
      BY <2>10, <2>11, <3>1, <3>2, <3>3 DEF Kept, Extracting, Extracted
  <2> QED
    BY <2>14, ExtractionMoves
<1>12. ASSUME NEW w \in Worker, WriteFileChanges(w) PROVE Extraction'
  <2> DEFINE rows == RecordsOf("file_changes", run[w].batch, run[w].snap)
             d == run[w].done
             b == run[w].batch
             old == run[w].count
             new == AfterWrite(w, "file_changes", rows)
  <2>1. /\ At(w, "file_changes") /\ At(w, "save")'
        /\ chunks' = WithChunk(w, "file_changes", rows)
        /\ run'[w].snap = run[w].snap /\ run'[w].todo = run[w].todo
        /\ run'[w].failed = run[w].failed /\ run'[w].batch = b
        /\ run'[w].done = d \cup b /\ run'[w].count = new
        /\ UNCHANGED <<repo, ckpt>>
    BY <1>12, WriteFileChangesEffect DEF WriteFileChanges
  <2>2. Kept(run[w])
    BY DEF Extraction
  <2>3. rows \in SUBSET Record("file_changes")
    BY RunTyped DEF RecordsOf, Record
  <2>4. /\ old \in [Kind -> Nat] /\ new \in [Kind -> Nat]
        /\ new["commits"] = old["commits"]
        /\ new["file_changes"] = IF rows = {} THEN old["file_changes"]
                                 ELSE old["file_changes"] + 1
    BY RunTyped, CountTyped DEF Kind
  <2>5. RecordsOf("file_changes", b, repo) = rows
    BY DEF RecordsOf
  <2>6. /\ \A k \in Kind : InChunks(k, d, old[k])
        /\ InChunks("commits", b, old["commits"])
    BY <2>1, <2>2 DEF Kept, At, Extracting
  <2>7. InChunks("commits", d \cup b, old["commits"])
    BY <2>6, InChunksOfUnion DEF Kind
  <2> HIDE DEF rows, new
  <2>8. /\ \A j \in Kind : \A S, n : n \in Nat /\ n <= old[j] /\ InChunks(j, S, n) =>
             InChunks(j, S, n)'
        /\ \A S, n : InChunks("file_changes", S, old["file_changes"])
                     /\ n > old["file_changes"] /\ n \in Nat => InChunks("file_changes", S, n)'
        /\ \A S, n : RecordsOf("file_changes", S, repo) \subseteq rows
                     /\ n > old["file_changes"] => InChunks("file_changes", S, n)'
    BY <2>1, <2>3, InChunksAfterWrite DEF Kind
  <2>9. \A k \in Kind : old[k] \in Nat /\ old[k] <= old[k] /\ old[k] + 1 > old[k]
                        /\ old[k] + 1 \in Nat
    BY <2>4
  <2> HIDE DEF d, b, old
  <2>10. InChunks("commits", run[w].done, run[w].count["commits"])'
    BY <2>1, <2>4, <2>7, <2>8, <2>9 DEF Kind
  <2>11. InChunks("file_changes", run[w].done, run[w].count["file_changes"])'
    <3>1. CASE rows = {}
      <4>1. InChunks("file_changes", b, old["file_changes"])
        BY <2>5, <3>1 DEF InChunks
      <4>2. InChunks("file_changes", d \cup b, old["file_changes"])
        BY <2>6, <4>1, InChunksOfUnion DEF Kind
      <4> QED
        BY <2>1, <2>4, <2>8, <2>9, <3>1, <4>2 DEF Kind
    <3>2. CASE rows # {}
      <4>1. \A S, n : RecordsOf("file_changes", S, repo) \subseteq rows /\ n = new["file_changes"]
                      => InChunks("file_changes", S, n)'
        BY <2>4, <2>8, <2>9, <3>2 DEF Kind
      <4>2. InChunks("file_changes", d, old["file_changes"])
        BY <2>6 DEF Kind
      <4>3. \A S, n : S = d /\ n = new["file_changes"] => InChunks("file_changes", S, n)'
        BY <2>4, <2>8, <2>9, <3>2, <4>2 DEF Kind
      <4>4. \A S, T, n : InChunks("file_changes", S, n)' /\ InChunks("file_changes", T, n)' =>
              InChunks("file_changes", S \cup T, n)'
        BY DEF InChunks, RecordsOf
      <4>5. \A S, n : S = d \cup b /\ n = new["file_changes"] => InChunks("file_changes", S, n)'
        BY <2>5, <4>1, <4>3, <4>4
      <4> QED
        BY <2>1, <4>5
    <3> QED
      BY <3>1, <3>2
  <2>12. ckpt # NoCkpt => \A k \in Kind : ckpt.count[k] <= new[k]
    <3> SUFFICES ASSUME ckpt # NoCkpt, NEW k \in Kind PROVE ckpt.count[k] <= new[k]
      OBVIOUS
    <3>1. ckpt.count[k] <= old[k]
      BY <2>1, <2>2 DEF Kept, At, Extracting, old
    <3>2. ckpt.count[k] \in Nat /\ old[k] \in Nat /\ new[k] \in Nat
      BY <2>4 DEF Ckpt, CkptState
    <3>3. new[k] = old[k] \/ new[k] = old[k] + 1
      BY <2>4 DEF Kind
    <3> QED
      BY <3>1, <3>2, <3>3
  <2>13. /\ run[w].todo \cup b \subseteq CommitsOf(run[w].snap)
         /\ d \cup b \subseteq CommitsOf(repo)
         /\ CommitsOf(run[w].snap) \subseteq run[w].todo \cup d \cup run[w].failed \cup b
    BY <2>1, <2>2, CloneIsPart DEF Kept, At, Extracting, d, b
  <2>14. Kept(run[w])'
    BY <2>1, <2>10, <2>11, <2>12, <2>13 DEF Kept, At, Extracting, Extracted,
       Kind
  <2> QED
    BY <2>14, ExtractionMoves
<1>13. ASSUME NEW w \in Worker, SaveCheckpoint(w) PROVE Extraction'
  <2>1. /\ At(w, "save") /\ At(w, "commits")' /\ UNCHANGED <<repo, chunks>>
        /\ run'[w].snap = run[w].snap /\ run'[w].todo = run[w].todo
        /\ run'[w].done = run[w].done /\ run'[w].count = run[w].count
        /\ run'[w].failed = run[w].failed
        /\ run'[w].batch = {}
    BY <1>13, SaveCheckpointEffect DEF SaveCheckpoint
  <2>2. Kept(run[w])
    BY DEF Extraction
  <2>3. \A k \in Kind : InChunks(k, run[w].done, run[w].count[k])'
    <3> SUFFICES ASSUME NEW k \in Kind PROVE InChunks(k, run[w].done, run[w].count[k])'
      OBVIOUS
    <3>1. InChunks(k, run[w].done, run[w].count[k])
      BY <2>1, <2>2 DEF Kept, At, Extracting
    <3>2. repo' = repo /\ chunks' = chunks
      BY <2>1
    <3> QED
      BY <2>1, <3>1, <3>2 DEF InChunks
  <2>4. run[w].count \in [Kind -> Nat]
    BY RunTyped
  <2>5. ckpt' # NoCkpt => \A k \in Kind : ckpt'.count[k] <= run[w].count[k]
    <3>1. UNCHANGED ckpt \/ ckpt'.count = run[w].count
      BY <1>13 DEF SaveCheckpoint
    <3> QED
      BY <2>1, <2>2, <2>4, <3>1 DEF Kept, At, Extracting
  <2>6. Kept(run[w])'
    BY <2>1, <2>2, <2>3, <2>5 DEF Kept, At, Extracting, Extracted
  <2> QED
    BY <2>6, ExtractionMoves
<1>14. ASSUME NEW w \in Worker, Merge(w) PROVE Extraction'
  <2>1. /\ At(w, "commits") /\ run[w].todo = {} /\ At(w, "merge")'
        /\ UNCHANGED <<repo, chunks, ckpt>>
        /\ run'[w].snap = run[w].snap /\ run'[w].todo = run[w].todo
        /\ run'[w].done = run[w].done /\ run'[w].count = run[w].count
        /\ run'[w].failed = run[w].failed /\ run'[w].batch = run[w].batch
        /\ run'[w].table = [run[w].table EXCEPT !["commits"] = Merged("commits")]
    BY <1>14, MergeEffect DEF Merge
  <2>2. Kept(run[w])
    BY DEF Extraction
  <2>3. \A k \in Kind : InChunks(k, run[w].done, run[w].count[k])'
    <3> SUFFICES ASSUME NEW k \in Kind PROVE InChunks(k, run[w].done, run[w].count[k])'
      OBVIOUS
    <3>1. InChunks(k, run[w].done, run[w].count[k])
      BY <2>1, <2>2 DEF Kept, At, Extracting
    <3>2. repo' = repo /\ chunks' = chunks
      BY <2>1
    <3> QED
      BY <2>1, <3>1, <3>2 DEF InChunks
  <2>4. Full(run[w], "commits")'
    <3>1. \A x \in RecordsOf("commits", CommitsOf(run[w].snap) \ run[w].failed, run[w].snap) :
            Merged("commits")[x] >= 1
      BY <2>1, <2>2, MergeIsFull DEF Kept, At, Extracting, Kind
    <3>2. run'[w].table["commits"] = Merged("commits")
      BY <2>1, RunTyped DEF Tables, Kind
    <3> QED
      BY <2>1, <3>1, <3>2 DEF Full
  <2>5. Kept(run[w])'
    BY <2>1, <2>2, <2>3, <2>4 DEF Kept, At, Extracting, Extracted
  <2> QED
    BY <2>5, ExtractionMoves
<1>15. ASSUME NEW w \in Worker, MergeFileChanges(w) PROVE Extraction'
  <2>1. /\ At(w, "merge") /\ At(w, "clean")'
        /\ run'[w].snap = run[w].snap /\ run'[w].failed = run[w].failed
        /\ run'[w].table = [run[w].table EXCEPT !["file_changes"] = Merged("file_changes")]
    BY <1>15, MergeFileChangesEffect
  <2>2. Kept(run[w])
    BY DEF Extraction
  <2>3. /\ run'[w].table["file_changes"] = Merged("file_changes")
        /\ run'[w].table["commits"] = run[w].table["commits"]
    BY <2>1, RunTyped DEF Tables, Kind
  <2>4. Full(run[w], "commits")'
    BY <2>1, <2>2, <2>3 DEF Full, Kept, At
  <2>5. Full(run[w], "file_changes")'
    <3>1. \A x \in RecordsOf("file_changes", CommitsOf(run[w].snap) \ run[w].failed,
                             run[w].snap) : Merged("file_changes")[x] >= 1
      BY <2>1, <2>2, MergeIsFull DEF Kept, At, Extracting, Kind
    <3> QED
      BY <2>1, <2>3, <3>1 DEF Full
  <2>6. Kept(run[w])'
    BY <2>1, <2>4, <2>5 DEF Kept, At, Extracting, Extracted, Kind
  <2> QED
    BY <2>6, ExtractionMoves
<1>16. ASSUME NEW w \in Worker, ListChunks(w) PROVE Extraction'
  <2>1. /\ run[w].pc \in Extracted /\ run'[w].pc \in Extracted
        /\ run'[w].snap = run[w].snap /\ run'[w].failed = run[w].failed
        /\ run'[w].table = run[w].table
    BY <1>16, ListChunksEffect DEF Extracted, At
  <2>2. \A k \in Kind : Full(run[w], k)
    BY <2>1 DEF Extraction, Kept
  <2>3. \A k \in Kind : Full(run[w], k)'
    BY <2>1, <2>2 DEF Full
  <2>4. Kept(run[w])'
    BY <2>1, <2>3 DEF Kept, Extracting, Extracted
  <2> QED
    BY <2>4, ExtractionMoves
<1>17. ASSUME NEW w \in Worker, DeleteChunks(w) PROVE Extraction'
  <2>1. /\ run[w].pc \in Extracted /\ run'[w].pc \in Extracted
        /\ run'[w].snap = run[w].snap /\ run'[w].failed = run[w].failed
        /\ run'[w].table = run[w].table
    BY <1>17, DeleteChunksEffect DEF Extracted, At
  <2>2. \A k \in Kind : Full(run[w], k)
    BY <2>1 DEF Extraction, Kept
  <2>3. \A k \in Kind : Full(run[w], k)'
    BY <2>1, <2>2 DEF Full
  <2>4. Kept(run[w])'
    BY <2>1, <2>3 DEF Kept, Extracting, Extracted
  <2> QED
    BY <2>4, ExtractionMoves
<1>18. ASSUME NEW w \in Worker, ForgetCheckpoint(w) PROVE Extraction'
  <2>1. /\ run[w].pc \in Extracted /\ run'[w].pc \in Extracted
        /\ run'[w].snap = run[w].snap /\ run'[w].failed = run[w].failed
        /\ run'[w].table = run[w].table
    BY <1>18, ForgetCheckpointEffect DEF Extracted, At
  <2>2. \A k \in Kind : Full(run[w], k)
    BY <2>1 DEF Extraction, Kept
  <2>3. \A k \in Kind : Full(run[w], k)'
    BY <2>1, <2>2 DEF Full
  <2>4. Kept(run[w])'
    BY <2>1, <2>3 DEF Kept, Extracting, Extracted
  <2> QED
    BY <2>4, ExtractionMoves
<1>19. ASSUME NEW w \in Worker, Publish(w) PROVE Extraction'
  <2>1. Kept(run[w])'
    BY <1>19, EndEffect DEF Kept, At, Extracting, Extracted
  <2> QED
    BY <2>1, ExtractionMoves
<1>20. ASSUME NEW w \in Worker, Fail(w) PROVE Extraction'
  <2>1. Kept(run[w])'
    BY <1>20, EndEffect DEF Kept, At, Extracting, Extracted
  <2> QED
    BY <2>1, ExtractionMoves
<1> QED
  BY <1>1, <1>2, <1>3, <1>4, <1>5, <1>6, <1>7, <1>8, <1>9, <1>10, <1>11,
     <1>12, <1>13, <1>14, <1>15, <1>16, <1>17, <1>18, <1>19, <1>20 DEF Next,
     RunStep, vars

LEMMA PublishedNext ==
  ASSUME Extraction, PublishedComplete, [Next]_vars
  PROVE  PublishedComplete'
<1>1. ASSUME UNCHANGED <<published>> PROVE PublishedComplete'
  BY <1>1 DEF PublishedComplete
<1>2. ASSUME NEW w \in Worker, Publish(w) PROVE PublishedComplete'
  <2>1. /\ published'.snap = run[w].snap /\ published'.failed = run[w].failed
        /\ published'.table = run[w].table /\ At(w, "publish")
    BY <1>2 DEF Publish
  <2>2. \A k \in Kind : Full(run[w], k)
    BY <2>1 DEF Extraction, Kept, At, Extracted
  <2> QED
    BY <2>1, <2>2 DEF PublishedComplete, Full
<1> QED
  BY <1>1, <1>2 DEF Next, RunStep, Push, Share, Rewrite, Start, LoadNone,
     LoadInvalid, LoadValid, TreeCheckpoint, TreeDone, WriteCommits,
     WriteFileChanges, SaveCheckpoint, Merge, MergeFileChanges, ListChunks,
     DeleteChunks, ForgetCheckpoint, Fail, vars

------------------------------------------------------------------------------
LEMMA InitRInv == Init => RInv
<1> SUFFICES ASSUME Init PROVE RInv
  OBVIOUS
<1>1. TInv
  BY InitTInv
<1>2. Vouched
  BY DEF Init, Vouched
<1>3. Cloned
  BY NoneTyped DEF Init, Cloned, At
<1>4. Extraction
  BY NoneTyped DEF Init, Extraction, Kept, Extracting, Extracted
<1>5. PublishedComplete
  <2>1. published.snap = NoCommits /\ CommitsOf(NoCommits) = {}
    BY DEF Init, NotPublished, NoCommits, CommitsOf
  <2> QED
    BY <2>1 DEF PublishedComplete, RecordsOf
<1> QED
  BY <1>1, <1>2, <1>3, <1>4, <1>5 DEF RInv

LEMMA NextRInv ==
  ASSUME Resumable
  PROVE  RInv /\ [Next]_vars => RInv'
<1> SUFFICES ASSUME RInv, [Next]_vars PROVE RInv'
  OBVIOUS
<1>1. TInv /\ Vouched /\ Cloned /\ Extraction /\ PublishedComplete
  BY DEF RInv
<1>2. Repo /\ Runs /\ Ckpt /\ Chunks /\ Looking
  BY <1>1 DEF TInv
<1>3. TInv'
  BY <1>1, NextTInv
<1>4. Vouched' /\ Cloned'
  BY <1>1, <1>2, VouchedNext, ClonedNext
<1>5. Extraction' /\ PublishedComplete'
  BY <1>1, <1>2, ExtractionNext, PublishedNext
<1> QED
  BY <1>3, <1>4, <1>5 DEF RInv

THEOREM ResumedInvariance ==
  ASSUME Resumable
  PROVE  Spec => []RInv
BY InitRInv, NextRInv, PTL DEF Spec

(* Whatever a checkpoint tells the next run to skip is in chunks that run  *)
(* will not overwrite (process_commits_parallel, CheckpointManager).       *)
THEOREM CheckpointsAreSound ==
  ASSUME Resumable
  PROVE  Spec => []CheckpointSound
<1>1. RInv => CheckpointSound
  <2> SUFFICES ASSUME RInv, ckpt # NoCkpt, Undeleted, NEW k \in Kind, NEW c \in ckpt.done,
                      k = "file_changes" => c \in Touching
               PROVE  \E i \in DOMAIN chunks[k] : i < ckpt.count[k]
                        /\ \E r \in chunks[k][i] : c = IF k = "commits" THEN r[1] ELSE r
    BY DEF CheckpointSound, Undeleted
  <2>1. c \in CommitsOf(repo) /\ InChunks(k, ckpt.done, ckpt.count[k])
    BY DEF RInv, Vouched
  <2>2. CASE k = "commits"
    <3>1. PICK b \in Branch : c \in repo[b]
      BY <2>1, CommitsTyped DEF RInv, TInv, Repo
    <3>2. <<c, b>> \in RecordsOf(k, ckpt.done, repo)
      BY <2>2, <3>1 DEF RecordsOf
    <3>3. PICK i \in DOMAIN chunks[k] : i < ckpt.count[k] /\ <<c, b>> \in chunks[k][i]
      BY <2>1, <3>2 DEF InChunks
    <3> QED
      BY <2>2, <3>3
  <2>3. CASE k = "file_changes"
    <3>1. c \in RecordsOf(k, ckpt.done, repo)
      BY <2>3 DEF RecordsOf
    <3>2. PICK i \in DOMAIN chunks[k] : i < ckpt.count[k] /\ c \in chunks[k][i]
      BY <2>1, <3>1 DEF InChunks
    <3> QED
      BY <2>3, <3>2
  <2> QED
    BY <2>2, <2>3 DEF Kind
<1> QED
  BY <1>1, ResumedInvariance, PTL

(* Whatever crashed before, what is published has every record of every    *)
(* commit of the clone that could be processed: skip_shas loses nothing.   *)
THEOREM PublicationsAreComplete ==
  ASSUME Resumable
  PROVE  Spec => []PublishedComplete
<1>1. RInv => PublishedComplete
  BY DEF RInv
<1> QED
  BY <1>1, ResumedInvariance, PTL
=============================================================================
