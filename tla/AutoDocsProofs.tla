---------------------------- MODULE AutoDocsProofs ----------------------------
(***************************************************************************)
(* Theorems about AutoDocs, for any number of nodes, PDFs, sections,       *)
(* requests and tasks and every set of faults: what a page is made from,   *)
(* whom it is made for, and how many tasks make it.                        *)
(***************************************************************************)
EXTENDS AutoDocs, TLAPS

(* What a checkpoint stands for wherever it may be: its text has the items *)
(* before its index, unless a run jumped over a PDF.                       *)
Sound(c) ==
  /\ c.phase = "SECTION_UPDATE" /\ c.scat = NoScatter =>
       /\ c.topo \in 1 .. Nodes + 1
       /\ c.past = "straight" => c.text = Upto(c.topo)
  /\ c.phase = "UPDATING_PDFS" =>
       /\ c.pdf \in 1 .. Pdfs + 1
       /\ c.past = "straight" => c.text = Upto(Nodes + c.pdf)
  /\ c.phase = "BEFORE_ASSEMBLY" /\ c.past = "straight" => c.text = Complete

(* The same for a task, from the index it is at; the formatting is not an  *)
(* item that the index counts.                                             *)
Reached(k) == Upto(IF k <= Nodes + Pdfs THEN k ELSE Nodes + Pdfs + 1)

RunSound(x) ==
  /\ x.pc \in {"annotate", "annotate_pdfs"} => x.cp.phase \in {"INITIALIZING", "ANNOTATING"}
  /\ x.pc = "update" =>
       x.pidx >= 1 /\ (x.cp.past = "straight" => x.text = Reached(x.pidx))
  /\ x.pc = "assemble" /\ x.cp.past = "straight" => x.text = Complete
  /\ x.pc \notin {"idle", "load"} /\ x.cp.goal # x.asked =>
       x.asked \notin Custom /\ x.origin = "resumed"
  /\ \A s \in Scatter : x.wait[s] # NoCkpt => Sound(x.wait[s])

(* The variables that are not about the content of the page.               *)
RestOK ==
  /\ status \in {"CONNECTED", "GENERATING", "GENERATION_COMPLETE", "GENERATION_ERROR"}
  /\ req \in [Requester -> [pc : {"idle", "spawn", "commit"}, goal : Goal]]
  /\ jobs \in [Goal -> Nat] /\ requests \in Nat /\ crashes \in Nat

FlagsOK == lost \in BOOLEAN /\ overlap \in BOOLEAN /\ overtaken \in BOOLEAN

ContentOK ==
  /\ doc \in [asked : Goal, goal : Goal, text : Text, past : {"straight", "jumped"},
              origin : {"new", "resumed"}] \cup {NoDoc}
  /\ ckpt \in Checkpoint \cup {NoCkpt}
  /\ run \in [Run -> RunState]

ContentInv ==
  /\ ContentOK
  /\ ckpt # NoCkpt => Sound(ckpt)
  /\ \A r \in Run : RunSound(run[r])
  /\ DocExact /\ GoalKept
------------------------------------------------------------------------------
(* What is in a text.                                                      *)
LEMMA UptoType == \A k : Upto(k) \in Text
BY DEF Upto, Text

LEMMA UptoOne == Upto(1) = Blank
BY DocsAssumption DEF Upto, Blank, Item

LEMMA UptoFolder ==
  ASSUME NEW k \in Folder
  PROVE  k \in 1 .. Nodes /\ Upto(k + 1) = Upto(k)
BY DocsAssumption DEF Upto, Item

(* The next item goes in.                                                  *)
LEMMA UptoNext ==
  ASSUME NEW k \in Item, k \notin Folder
  PROVE  [Upto(k) EXCEPT ![k] = @ + 1] = Upto(k + 1)
<1> DEFINE t == [Upto(k) EXCEPT ![k] = @ + 1]
<1>1. t = [i \in Item |-> IF i = k THEN Upto(k)[k] + 1 ELSE Upto(k)[i]]
  BY DEF Upto
<1>2. Upto(k)[k] = 0
  BY DocsAssumption DEF Upto, Item
<1>3. \A i \in Item : i # k => Upto(k)[i] = Upto(k + 1)[i]
  BY DocsAssumption DEF Upto, Item
<1>4. Upto(k + 1)[k] = 1
  BY DocsAssumption DEF Upto, Item
<1>5. \A i \in Item : t[i] = Upto(k + 1)[i]
  BY <1>1, <1>2, <1>3, <1>4
<1> HIDE DEF t
<1>6. t = [i \in Item |-> t[i]] /\ Upto(k + 1) = [i \in Item |-> Upto(k + 1)[i]]
  BY <1>1 DEF Upto
<1> QED
  BY <1>5, <1>6 DEF t

LEMMA LastItem == Nodes + Pdfs + 1 \in Item /\ Nodes + Pdfs + 1 \notin Folder
BY DocsAssumption DEF Item

(* Checkpoints and tasks at their beginning.                               *)
LEMMA Beginnings ==
  /\ Blank \in Text /\ NoScatter \in [Scatter -> 0 .. Batches] /\ SomeGoal \in Goal
  /\ \A g \in Goal : Initial(g) \in Checkpoint /\ Sound(Initial(g))
  /\ \A g \in Goal : Idle(g) \in RunState /\ RunSound(Idle(g)) /\ Idle(g).pc = "idle"
<1>1. Blank \in Text
  BY DEF Blank, Text
<1>2. NoScatter \in [Scatter -> 0 .. Batches]
  BY DocsAssumption DEF NoScatter
<1>3. SomeGoal \in Goal
  BY DocsAssumption DEF SomeGoal
<1>4. ASSUME NEW g \in Goal PROVE Initial(g) \in Checkpoint /\ Sound(Initial(g))
  BY <1>1, <1>2, DocsAssumption DEF Initial, Checkpoint, Phase, Sound
<1>5. ASSUME NEW g \in Goal
      PROVE  Idle(g) \in RunState /\ RunSound(Idle(g)) /\ Idle(g).pc = "idle"
  <2>1. Idle(g) \in RunState /\ Idle(g).pc = "idle"
    BY <1>1, <1>4 DEF Idle, RunState
  <2>2. \A s \in Scatter : Idle(g).wait[s] = NoCkpt
    BY DEF Idle
  <2> QED
    BY <2>1, <2>2 DEF RunSound
<1> QED
  BY <1>1, <1>2, <1>3, <1>4, <1>5
------------------------------------------------------------------------------
(* The content: a step of a task leaves it as x and may save a checkpoint. *)
LEMMA ContentStep ==
  ASSUME ContentInv, NEW r \in Run, NEW x \in RunState, RunSound(x), Goto(r, x),
         doc' = doc, ckpt' = ckpt \/ (ckpt' \in Checkpoint /\ Sound(ckpt')) \/ ckpt' = NoCkpt
  PROVE  ContentInv'
<1>1. run' \in [Run -> RunState] /\ \A q \in Run : run'[q] = x \/ run'[q] = run[q]
  BY DEF ContentInv, ContentOK, Goto
<1>2. ContentOK'
  BY <1>1 DEF ContentInv, ContentOK
<1>3. \A q \in Run : RunSound(run'[q])
  BY <1>1 DEF ContentInv
<1>4. ckpt' # NoCkpt => Sound(ckpt')
  BY DEF ContentInv
<1>5. DocExact' /\ GoalKept'
  BY DEF ContentInv, DocExact, GoalKept
<1> QED
  BY <1>2, <1>3, <1>4, <1>5 DEF ContentInv

(* Every disjunct of Work but the last two: with the step's new record.    *)
LEMMA LoadContent ==
  ASSUME ContentInv, NEW r \in Run, Load(r)
  PROVE  ContentInv'
<1> DEFINE g == run[r].asked
<1>1. run[r] \in RunState /\ RunSound(run[r]) /\ g \in Goal /\ run[r].pc = "load"
  BY DEF ContentInv, ContentOK, RunState, Load
<1>2. \A c \in Checkpoint : Jumps(c) => [c EXCEPT !.past = "jumped"] \in Checkpoint
  BY DEF Checkpoint
<1>3. ASSUME NEW c \in Checkpoint, Sound(c), NEW o \in {"new", "resumed"},
             c.goal # g => g \notin Custom /\ o = "resumed", Enter(r, c, o),
             doc' = doc, ckpt' = ckpt \/ (ckpt' \in Checkpoint /\ Sound(ckpt'))
      PROVE  ContentInv'
  <2> DEFINE d == IF Jumps(c) THEN [c EXCEPT !.past = "jumped"] ELSE c
             x == [run[r] EXCEPT !.pc = Entry(c).pc, !.text = Entry(c).text,
                                 !.pidx = Entry(c).pidx, !.origin = o, !.cp = d]
  <2>1. /\ d \in Checkpoint /\ d.phase = c.phase /\ d.goal = c.goal /\ d.text = c.text
        /\ d.past = "straight" => c.past = "straight" /\ ~Jumps(c)
    BY <1>2 DEF Checkpoint
  <2>2. /\ c.phase \in Phase /\ c.text \in Text /\ c.topo \in Nat /\ c.pdf \in Nat
        /\ c.goal \in Goal
    BY DEF Checkpoint
  <2> HIDE DEF d
  <2>3. /\ x.pc = Entry(c).pc /\ x.text = Entry(c).text /\ x.pidx = Entry(c).pidx
        /\ x.cp = d /\ x.asked = g /\ x.origin = o /\ x.wait = run[r].wait
    BY <1>1 DEF RunState
  <2>4. /\ Entry(c).pc \in {"annotate", "draft", "update", "assemble"}
        /\ Entry(c).text \in Text /\ Entry(c).pidx \in Nat
    BY <2>2, Beginnings, DocsAssumption DEF Entry, Phase
  <2>5. x \in RunState
    BY <1>1, <2>1, <2>4 DEF RunState
  <2>6. Goto(r, x)
    BY <1>3 DEF Enter, d
  <2> HIDE DEF x
  <2>7. /\ x.pc = "annotate" => c.phase \in {"INITIALIZING", "ANNOTATING"}
        /\ x.pc = "assemble" => c.phase = "BEFORE_ASSEMBLY" /\ x.text = c.text
    BY <2>2, <2>3 DEF Entry, Phase
  <2>8. x.pc = "update" =>
          \/ c.phase = "SECTION_UPDATE" /\ c.scat = NoScatter /\ x.text = c.text
             /\ x.pidx = c.topo
          \/ c.phase = "UPDATING_PDFS" /\ x.text = c.text /\ x.pidx = c.pdf + Nodes + 1
    BY <2>2, <2>3 DEF Entry, Phase
  <2>9. x.pc = "update" =>
          x.pidx >= 1 /\ (d.past = "straight" => x.text = Reached(x.pidx))
    <3>1. CASE c.phase = "SECTION_UPDATE" /\ c.scat = NoScatter /\ x.text = c.text
               /\ x.pidx = c.topo
      BY <1>3, <2>1, <3>1, DocsAssumption DEF Sound, Reached
    <3>2. CASE c.phase = "UPDATING_PDFS" /\ x.text = c.text /\ x.pidx = c.pdf + Nodes + 1
      <4>1. c.pdf \in 1 .. Pdfs + 1 /\ (d.past = "straight" => c.pdf = Pdfs + 1)
        BY <1>3, <2>1, <3>2, DocsAssumption DEF Sound, Jumps
      <4> QED
        BY <1>3, <2>1, <3>2, <4>1, DocsAssumption DEF Sound, Reached
    <3> QED
      BY <2>8, <3>1, <3>2
  <2>10. x.pc = "assemble" /\ d.past = "straight" => x.text = Complete
    BY <1>3, <2>1, <2>7 DEF Sound
  <2>11. RunSound(x)
    BY <1>1, <1>3, <2>1, <2>3, <2>4, <2>7, <2>9, <2>10 DEF RunSound
  <2> QED
    BY <1>3, <2>5, <2>6, <2>11, ContentStep
<1>4. CASE Resumes(g) /\ Enter(r, ckpt, "resumed") /\ UNCHANGED ckpt
  BY <1>1, <1>3, <1>4 DEF Load, Resumes, ContentInv, ContentOK
<1>5. CASE ~Resumes(g) /\ Enter(r, Initial(g), "new") /\ Save(Initial(g))
  BY <1>1, <1>3, <1>5, Beginnings DEF Load, Save, Initial
<1> QED
  BY <1>4, <1>5 DEF Load

(* A step of a task with the record it leaves; what it saves is sound.     *)
LEMMA SaveStep ==
  ASSUME ContentInv, NEW r \in Run, NEW x \in RunState, RunSound(x), Goto(r, x),
         NEW c \in Checkpoint, Sound(c), Save(c), doc' = doc
  PROVE  ContentInv'
BY ContentStep DEF Save

LEMMA ProgressContent ==
  ASSUME ContentInv, NEW r \in Run, NEW c \in Checkpoint,
         NEW p \in {"annotate", "annotate_pdfs", "draft"},
         run[r].pc \in {"annotate", "annotate_pdfs"},
         c.phase \in {"INITIALIZING", "ANNOTATING"}, c.goal = run[r].cp.goal,
         Progress(r, c, p)
  PROVE  ContentInv'
<1> DEFINE x == [run[r] EXCEPT !.cp = c, !.pc = p]
<1>1. run[r] \in RunState /\ RunSound(run[r])
  BY DEF ContentInv, ContentOK
<1>2. /\ x \in RunState /\ x.cp = c /\ x.pc = p /\ x.asked = run[r].asked
      /\ x.origin = run[r].origin /\ x.wait = run[r].wait
  BY <1>1 DEF RunState
<1>3. Goto(r, x)
  BY DEF Progress
<1> HIDE DEF x
<1>4. RunSound(x)
  BY <1>1, <1>2 DEF RunSound
<1>5. Sound(c)
  BY DEF Sound
<1> QED
  BY <1>2, <1>3, <1>4, <1>5, SaveStep DEF Progress

LEMMA AnnotateContent ==
  ASSUME ContentInv, NEW r \in Run,
         AnnotateFiles(r) \/ AnnotateFolders(r) \/ AnnotatePdfs(r)
  PROVE  ContentInv'
<1> DEFINE c == run[r].cp
<1>1. run[r] \in RunState /\ RunSound(run[r]) /\ c \in Checkpoint
  BY DEF ContentInv, ContentOK, RunState
<1>2. run[r].pc \in {"annotate", "annotate_pdfs"} => c.phase \in {"INITIALIZING", "ANNOTATING"}
  BY <1>1 DEF RunSound
<1>3. CASE AnnotateFiles(r)
  <2> DEFINE n == c.ann + 1
             d == [c EXCEPT !.phase = "ANNOTATING", !.ann = n]
  <2>1. c.ann < Files /\ Progress(r, d, "annotate") /\ run[r].pc = "annotate"
    BY <1>3 DEF AnnotateFiles
  <2>2. n \in 0 .. Files + 2
    BY <1>1, <2>1, DocsAssumption DEF Checkpoint
  <2> HIDE DEF n
  <2>3. d \in Checkpoint /\ d.phase = "ANNOTATING" /\ d.goal = c.goal
    BY <1>1, <2>2 DEF Checkpoint, Phase
  <2> HIDE DEF d
  <2> QED
    BY <2>1, <2>3, ProgressContent
<1>4. CASE AnnotateFolders(r)
  <2> DEFINE d == [c EXCEPT !.ann = IF @ = Files THEN Files + 1 ELSE @]
  <2>1. d \in Checkpoint /\ d.phase = c.phase /\ d.goal = c.goal
    BY <1>1, DocsAssumption DEF Checkpoint
  <2>2. Progress(r, d, IF Pdfs = 0 THEN "draft" ELSE "annotate_pdfs")
        /\ run[r].pc = "annotate"
    BY <1>4 DEF AnnotateFolders
  <2> HIDE DEF d, c
  <2>3. d.goal = run[r].cp.goal
    BY <2>1 DEF c
  <2> QED
    BY <1>2, <2>1, <2>2, <2>3, ProgressContent
<1>5. CASE AnnotatePdfs(r)
  <2> DEFINE d == [c EXCEPT !.ann = Files + 2]
  <2>1. d \in Checkpoint /\ d.phase = c.phase /\ d.goal = c.goal
    BY <1>1, DocsAssumption DEF Checkpoint
  <2>2. Progress(r, d, "draft") /\ run[r].pc = "annotate_pdfs"
    BY <1>5 DEF AnnotatePdfs
  <2> HIDE DEF d
  <2> QED
    BY <1>2, <2>1, <2>2, ProgressContent
<1> QED
  BY <1>3, <1>4, <1>5

LEMMA ScatterContent ==
  ASSUME ContentInv, NEW r \in Run, NEW s \in Scatter,
         ScatterBatch(r, s) \/ ScatterSave(r, s)
  PROVE  ContentInv'
<1>1. /\ run[r] \in RunState /\ RunSound(run[r]) /\ run[r].cp \in Checkpoint
      /\ run[r].wait \in [Scatter -> Checkpoint \cup {NoCkpt}]
      /\ run[r].cp.scat \in [Scatter -> 0 .. Batches]
  BY DEF ContentInv, ContentOK, RunState, Checkpoint
<1>2. CASE ScatterBatch(r, s)
  <2> DEFINE c == [run[r].cp EXCEPT !.scat[s] = @ + 1, !.phase = "SECTION_UPDATE"]
             x == [run[r] EXCEPT !.cp = c, !.wait[s] = c]
  <2>1. [run[r].cp.scat EXCEPT ![s] = @ + 1] \in [Scatter -> 0 .. Batches]
    BY <1>1, <1>2, DocsAssumption DEF ScatterBatch
  <2>2. /\ c \in Checkpoint /\ c.scat = [run[r].cp.scat EXCEPT ![s] = @ + 1]
        /\ c.phase = "SECTION_UPDATE" /\ c.goal = run[r].cp.goal
    BY <1>1, <2>1 DEF Checkpoint, Phase
  <2>3. c.scat[s] > 0
    BY <1>1, <2>2
  <2>4. c.scat # NoScatter
    BY <2>3, DocsAssumption DEF NoScatter
  <2> HIDE DEF c
  <2>5. Sound(c)
    BY <2>2, <2>4 DEF Sound
  <2>6. /\ x \in RunState /\ x.cp = c /\ x.pc = run[r].pc /\ x.asked = run[r].asked
        /\ x.origin = run[r].origin /\ x.wait = [run[r].wait EXCEPT ![s] = c]
    BY <1>1, <2>2 DEF RunState
  <2>7. Goto(r, x) /\ doc' = doc /\ ckpt' = ckpt /\ run[r].pc \in {"scatter", "raised"}
    BY <1>2 DEF ScatterBatch, c
  <2> HIDE DEF x
  <2>8. RunSound(x)
    BY <1>1, <2>2, <2>5, <2>6, <2>7 DEF RunSound
  <2> QED
    BY <2>6, <2>7, <2>8, ContentStep
<1>3. CASE ScatterSave(r, s)
  <2> DEFINE x == [run[r] EXCEPT !.wait[s] = NoCkpt]
  <2>1. /\ x \in RunState /\ x.cp = run[r].cp /\ x.pc = run[r].pc /\ x.text = run[r].text
        /\ x.pidx = run[r].pidx /\ x.asked = run[r].asked /\ x.origin = run[r].origin
        /\ x.wait = [run[r].wait EXCEPT ![s] = NoCkpt]
    BY <1>1 DEF RunState
  <2>2. Goto(r, x) /\ doc' = doc /\ Save(run[r].wait[s]) /\ run[r].wait[s] # NoCkpt
    BY <1>3 DEF ScatterSave
  <2> HIDE DEF x
  <2>3. RunSound(x)
    BY <1>1, <2>1 DEF RunSound
  <2>4. run[r].wait[s] \in Checkpoint /\ Sound(run[r].wait[s])
    BY <1>1, <2>2 DEF RunSound
  <2> QED
    BY <2>1, <2>2, <2>3, <2>4, SaveStep
<1> QED
  BY <1>2, <1>3

LEMMA GatherContent ==
  ASSUME ContentInv, NEW r \in Run, Gather(r)
  PROVE  ContentInv'
<1> DEFINE c == [run[r].cp EXCEPT !.phase = "SECTION_UPDATE", !.text = Blank, !.topo = 1]
           x == [run[r] EXCEPT !.cp = c, !.pc = "update", !.text = Blank, !.pidx = 1]
<1>1. run[r] \in RunState /\ RunSound(run[r]) /\ run[r].cp \in Checkpoint
  BY DEF ContentInv, ContentOK, RunState
<1>2. /\ c \in Checkpoint /\ c.phase = "SECTION_UPDATE" /\ c.goal = run[r].cp.goal
      /\ c.text = Blank /\ c.topo = 1
  BY <1>1, Beginnings DEF Checkpoint, Phase
<1>3. Goto(r, x) /\ doc' = doc /\ Save(c) /\ run[r].pc = "scatter"
  BY DEF Gather
<1> HIDE DEF c
<1>4. Sound(c)
  BY <1>2, UptoOne, DocsAssumption DEF Sound
<1>5. /\ x \in RunState /\ x.cp = c /\ x.pc = "update" /\ x.asked = run[r].asked
      /\ x.origin = run[r].origin /\ x.wait = run[r].wait /\ x.text = Blank /\ x.pidx = 1
  BY <1>1, <1>2, Beginnings DEF RunState
<1> HIDE DEF x
<1>6. Reached(1) = Blank
  BY UptoOne, DocsAssumption DEF Reached
<1>7. RunSound(x)
  BY <1>1, <1>2, <1>3, <1>5, <1>6 DEF RunSound
<1> QED
  BY <1>2, <1>3, <1>4, <1>5, <1>7, SaveStep

(* Draft and SkipFolder: only the place and the index of the task change.  *)
LEMMA MoveContent ==
  ASSUME ContentInv, NEW r \in Run, Draft(r) \/ SkipFolder(r)
  PROVE  ContentInv'
<1>1. run[r] \in RunState /\ RunSound(run[r])
  BY DEF ContentInv, ContentOK
<1>2. CASE Draft(r)
  <2> DEFINE x == [run[r] EXCEPT !.pc = "scatter"]
  <2>1. /\ x \in RunState /\ x.pc = "scatter" /\ x.cp = run[r].cp /\ x.asked = run[r].asked
        /\ x.origin = run[r].origin /\ x.wait = run[r].wait
    BY <1>1 DEF RunState
  <2>2. Goto(r, x) /\ doc' = doc /\ ckpt' = ckpt /\ run[r].pc = "draft"
    BY <1>2 DEF Draft
  <2> HIDE DEF x
  <2> QED
    BY <1>1, <2>1, <2>2, ContentStep DEF RunSound
<1>3. CASE SkipFolder(r)
  <2> DEFINE x == [run[r] EXCEPT !.pidx = @ + 1]
             k == run[r].pidx
  <2>1. /\ x \in RunState /\ x.pc = run[r].pc /\ x.cp = run[r].cp /\ x.asked = run[r].asked
        /\ x.text = run[r].text /\ x.pidx = k + 1
        /\ x.origin = run[r].origin /\ x.wait = run[r].wait
    BY <1>1 DEF RunState
  <2>2. /\ Goto(r, x) /\ doc' = doc /\ ckpt' = ckpt /\ run[r].pc = "update"
        /\ k \in Folder
    BY <1>3 DEF SkipFolder
  <2> HIDE DEF x
  <2> HIDE DEF k
  <2>3. k \in 1 .. Nodes /\ Upto(k + 1) = Upto(k)
    BY <2>2, UptoFolder
  <2>4. Reached(k + 1) = Upto(k + 1) /\ Reached(k) = Upto(k)
    BY <2>3, DocsAssumption DEF Reached
  <2>5. RunSound(x)
    BY <1>1, <2>1, <2>2, <2>3, <2>4 DEF RunSound, k
  <2> QED
    BY <2>1, <2>2, <2>5, ContentStep
<1> QED
  BY <1>2, <1>3

(* Item i is the one that a task at index k adds, and c records that.      *)
Advances(c, i, p, k) ==
  c.past = "straight" =>
    \A text \in Text : text = [Reached(k) EXCEPT ![i] = @ + 1] =>
      text = IF p = "update" THEN Reached(k + 1) ELSE Complete

SoundWith(c, i, k) ==
  \A text \in Text :
    (c.past = "straight" => text = [Reached(k) EXCEPT ![i] = @ + 1]) =>
      Sound([c EXCEPT !.text = text])

LEMMA ApplyContent ==
  ASSUME ContentInv, NEW r \in Run, NEW c \in Checkpoint, NEW i \in Item,
         NEW p \in {"update", "assemble"},
         run[r].pc = "update", c.goal = run[r].cp.goal, c.past = run[r].cp.past,
         Advances(c, i, p, run[r].pidx), SoundWith(c, i, run[r].pidx),
         Apply(r, c, i, p)
  PROVE  ContentInv'
<1> DEFINE text == [run[r].text EXCEPT ![i] = @ + 1]
           d == [c EXCEPT !.text = text]
           k == run[r].pidx + 1
           x == [run[r] EXCEPT !.cp = d, !.pc = p, !.text = text, !.pidx = k]
<1>1. /\ run[r] \in RunState /\ RunSound(run[r]) /\ run[r].text \in Text
      /\ run[r].pidx \in Nat /\ k \in Nat /\ k >= 1
  BY DEF ContentInv, ContentOK, RunState
<1>2. text \in Text
  BY <1>1 DEF Text
<1>3. c.past = "straight" => text = [Reached(run[r].pidx) EXCEPT ![i] = @ + 1]
  BY <1>1 DEF RunSound
<1>4. Goto(r, x) /\ doc' = doc /\ Save(d)
  BY DEF Apply
<1> HIDE DEF text
<1>5. d \in Checkpoint /\ d.goal = c.goal /\ d.past = c.past /\ Sound(d)
  BY <1>2, <1>3 DEF Checkpoint, SoundWith
<1>6. c.past = "straight" => text = IF p = "update" THEN Reached(k) ELSE Complete
  BY <1>2, <1>3 DEF Advances
<1> HIDE DEF d, k
<1>7. /\ x \in RunState /\ x.cp = d /\ x.pc = p /\ x.asked = run[r].asked /\ x.text = text
      /\ x.pidx = k /\ x.origin = run[r].origin /\ x.wait = run[r].wait
  BY <1>1, <1>2, <1>5 DEF RunState
<1> HIDE DEF x
<1>8. RunSound(x)
  BY <1>1, <1>5, <1>6, <1>7 DEF RunSound
<1> QED
  BY <1>4, <1>5, <1>7, <1>8, SaveStep

LEMMA UpdateContent ==
  ASSUME ContentInv, NEW r \in Run,
         UpdateSections(r) \/ UpdateSectionsWithPdf(r) \/ FinalSectionFormat(r)
  PROVE  ContentInv'
<1> DEFINE i == run[r].pidx
           m == i + 1
           c == run[r].cp
<1>1. /\ c \in Checkpoint /\ i \in Nat /\ c.topo \in Nat /\ c.pdf \in Nat
      /\ run[r].pc = "update" => i >= 1
  BY DEF ContentInv, ContentOK, RunState, Checkpoint, RunSound
<1>2. CASE UpdateSections(r)
  <2> DEFINE d == [c EXCEPT !.phase = "SECTION_UPDATE", !.topo = m]
  <2>1. /\ run[r].pc = "update" /\ i <= Nodes /\ i \notin Folder
        /\ Apply(r, d, i, "update")
    BY <1>2 DEF UpdateSections
  <2>2. i \in Item /\ m \in 1 .. Nodes + 1 /\ Reached(i) = Upto(i) /\ Reached(m) = Upto(m)
    BY <1>1, <2>1, DocsAssumption DEF Item, Reached
  <2>3. [Reached(i) EXCEPT ![i] = @ + 1] = Upto(m)
    BY <2>1, <2>2, UptoNext
  <2>7. m \in Nat
    BY <1>1
  <2> HIDE DEF i, m
  <2>4. /\ d \in Checkpoint /\ d.goal = c.goal /\ d.past = c.past
        /\ \A text \in Text :
             LET e == [d EXCEPT !.text = text] IN
             /\ e.phase = "SECTION_UPDATE" /\ e.topo = m /\ e.text = text /\ e.past = c.past
    BY <1>1, <2>7 DEF Checkpoint, Phase
  <2> HIDE DEF d
  <2>5. SoundWith(d, i, i)
    BY <2>2, <2>3, <2>4 DEF SoundWith, Sound
  <2>6. Advances(d, i, "update", i)
    BY <2>2, <2>3 DEF Advances, m
  <2> QED
    BY <2>1, <2>2, <2>4, <2>5, <2>6, ApplyContent DEF i
<1>3. CASE UpdateSectionsWithPdf(r)
  <2> DEFINE n == i + 1 - Nodes
             d == [c EXCEPT !.phase = "UPDATING_PDFS", !.topo = Nodes, !.pdf = n]
  <2>1. /\ run[r].pc = "update" /\ i > Nodes /\ i <= Nodes + Pdfs
        /\ Apply(r, d, i, "update")
    BY <1>3 DEF UpdateSectionsWithPdf
  <2>2. /\ i \in Item /\ i \notin Folder /\ n \in 1 .. Pdfs + 1 /\ Nodes + n = m
        /\ Reached(i) = Upto(i) /\ Reached(m) = Upto(m)
    BY <1>1, <2>1, DocsAssumption DEF Item, Reached
  <2>3. [Reached(i) EXCEPT ![i] = @ + 1] = Upto(m)
    BY <2>1, <2>2, UptoNext
  <2>7. n \in Nat /\ Nodes \in Nat
    BY <2>2, DocsAssumption
  <2> HIDE DEF i, m, n
  <2>4. /\ d \in Checkpoint /\ d.goal = c.goal /\ d.past = c.past
        /\ \A text \in Text :
             LET e == [d EXCEPT !.text = text] IN
             /\ e.phase = "UPDATING_PDFS" /\ e.pdf = n /\ e.text = text /\ e.past = c.past
    BY <1>1, <2>7 DEF Checkpoint, Phase
  <2> HIDE DEF d
  <2>5. SoundWith(d, i, i)
    BY <2>2, <2>3, <2>4 DEF SoundWith, Sound
  <2>6. Advances(d, i, "update", i)
    BY <2>2, <2>3 DEF Advances, m
  <2> QED
    BY <2>1, <2>2, <2>4, <2>5, <2>6, ApplyContent DEF i
<1>4. CASE FinalSectionFormat(r)
  <2> DEFINE l == Nodes + Pdfs + 1
             d == [c EXCEPT !.phase = "BEFORE_ASSEMBLY"]
  <2>1. run[r].pc = "update" /\ i > Nodes + Pdfs /\ Apply(r, d, l, "assemble")
    BY <1>4 DEF FinalSectionFormat
  <2>2. l \in Item /\ l \notin Folder /\ Reached(i) = Upto(l)
    BY <1>1, <2>1, LastItem, DocsAssumption DEF Reached
  <2>3. [Reached(i) EXCEPT ![l] = @ + 1] = Complete
    <3>1. [Upto(l) EXCEPT ![l] = @ + 1] = Upto(l + 1)
      BY <2>2, UptoNext
    <3>2. l + 1 = Nodes + Pdfs + 2
      BY DocsAssumption
    <3> QED
      BY <2>2, <3>1, <3>2 DEF Complete
  <2> HIDE DEF i, l
  <2>4. /\ d \in Checkpoint /\ d.goal = c.goal /\ d.past = c.past
        /\ \A text \in Text :
             LET e == [d EXCEPT !.text = text] IN
             /\ e.phase = "BEFORE_ASSEMBLY" /\ e.text = text /\ e.past = c.past
    BY <1>1 DEF Checkpoint, Phase
  <2> HIDE DEF d
  <2>5. SoundWith(d, l, i)
    BY <2>3, <2>4 DEF SoundWith, Sound
  <2>6. Advances(d, l, "assemble", i)
    BY <2>3 DEF Advances
  <2> QED
    BY <2>1, <2>2, <2>4, <2>5, <2>6, ApplyContent DEF i
<1> QED
  BY <1>2, <1>3, <1>4

(* A task that ends, or one that begins: nothing is claimed of it.         *)
LEMMA IdleContent ==
  ASSUME ContentInv, NEW r \in Run,
         \/ DeleteCheckpoint(r) \/ Raise(r) \/ Fade(r) \/ Crash(r)
         \/ \E g \in Goal : Take(r, g)
  PROVE  ContentInv'
<1>1. run[r] \in RunState /\ RunSound(run[r])
  BY DEF ContentInv, ContentOK
<1>2. CASE Goto(r, Idle(SomeGoal)) /\ doc' = doc /\ (ckpt' = ckpt \/ ckpt' = NoCkpt)
  BY <1>2, Beginnings, ContentStep
<1>3. CASE run[r].pc = "scatter" /\ Goto(r, [run[r] EXCEPT !.pc = "raised"]) /\ doc' = doc
           /\ ckpt' = ckpt
  <2> DEFINE x == [run[r] EXCEPT !.pc = "raised"]
  <2>1. /\ x \in RunState /\ x.pc = "raised" /\ x.cp = run[r].cp /\ x.asked = run[r].asked
        /\ x.origin = run[r].origin /\ x.wait = run[r].wait /\ Goto(r, x)
    BY <1>1, <1>3 DEF RunState
  <2> HIDE DEF x
  <2>2. RunSound(x)
    BY <1>1, <1>3, <2>1 DEF RunSound
  <2> QED
    BY <1>3, <2>1, <2>2, ContentStep
<1>4. ASSUME NEW g \in Goal, Take(r, g)
      PROVE  ContentInv'
  <2> DEFINE x == [Idle(g) EXCEPT !.pc = "load"]
  <2>1. Idle(g) \in RunState /\ RunSound(Idle(g))
    BY Beginnings
  <2>2. x \in RunState /\ x.pc = "load" /\ x.wait = Idle(g).wait
    BY <2>1 DEF RunState
  <2>3. Goto(r, x) /\ doc' = doc /\ ckpt' = ckpt
    BY <1>4 DEF Take
  <2> HIDE DEF x
  <2>4. RunSound(x)
    BY <2>1, <2>2 DEF RunSound
  <2> QED
    BY <2>2, <2>3, <2>4, ContentStep
<1>5. DeleteCheckpoint(r) \/ Fade(r) \/ Crash(r) =>
        Goto(r, Idle(SomeGoal)) /\ doc' = doc /\ (ckpt' = ckpt \/ ckpt' = NoCkpt)
  BY DEF DeleteCheckpoint, Fade, Crash
<1>6. CASE Raise(r)
  <2>1. /\ doc' = doc /\ ckpt' = ckpt
        /\ Goto(r, IF run[r].pc = "scatter" THEN [run[r] EXCEPT !.pc = "raised"]
                   ELSE Idle(SomeGoal))
    BY <1>6 DEF Raise
  <2> QED
    BY <1>2, <1>3, <2>1
<1> QED
  BY <1>2, <1>4, <1>5, <1>6

(* The page is written: what the task holds is what RunSound says of it.   *)
LEMMA AssembleContent ==
  ASSUME ContentInv, NEW r \in Run, Assemble(r)
  PROVE  ContentInv'
<1> DEFINE x == [run[r] EXCEPT !.pc = "delete"]
<1>1. /\ run[r] \in RunState /\ RunSound(run[r]) /\ run[r].cp \in Checkpoint
      /\ run[r].pc = "assemble"
  BY DEF ContentInv, ContentOK, RunState, Assemble
<1>2. /\ x \in RunState /\ x.pc = "delete" /\ x.cp = run[r].cp /\ x.asked = run[r].asked
      /\ x.origin = run[r].origin /\ x.wait = run[r].wait /\ Goto(r, x) /\ ckpt' = ckpt
  BY <1>1 DEF RunState, Assemble
<1>3. doc' = [asked |-> run[r].asked, goal |-> run[r].cp.goal, text |-> run[r].text,
              past |-> run[r].cp.past, origin |-> run[r].origin]
  BY DEF Assemble
<1> HIDE DEF x
<1>4. RunSound(x)
  BY <1>1, <1>2 DEF RunSound
<1>5. run' \in [Run -> RunState] /\ \A q \in Run : run'[q] = x \/ run'[q] = run[q]
  BY <1>2 DEF ContentInv, ContentOK, Goto
<1>6. doc' \in [asked : Goal, goal : Goal, text : Text, past : {"straight", "jumped"},
                origin : {"new", "resumed"}]
  BY <1>1, <1>3 DEF RunState, Checkpoint
<1>7. ContentOK'
  BY <1>2, <1>5, <1>6 DEF ContentInv, ContentOK
<1>8. \A q \in Run : RunSound(run'[q])
  BY <1>4, <1>5 DEF ContentInv
<1>9. DocExact'
  BY <1>1, <1>3 DEF DocExact, RunSound
<1>10. GoalKept'
  BY <1>1, <1>3 DEF GoalKept, RunSound
<1> QED
  BY <1>2, <1>7, <1>8, <1>9, <1>10 DEF ContentInv

LEMMA ContentNext ==
  ASSUME ContentInv, [Next]_vars
  PROVE  ContentInv'
<1>1. ASSUME run' = run, doc' = doc, ckpt' = ckpt PROVE ContentInv'
  BY <1>1 DEF ContentInv, ContentOK, DocExact, GoalKept
<1>2. CASE UNCHANGED vars
  BY <1>1, <1>2 DEF vars
<1>3. ASSUME NEW q \in Requester, Handle(q) \/ \E g \in Goal : RequestCheck(q, g)
      PROVE  ContentInv'
  BY <1>1, <1>3 DEF Handle, RequestCheck, RequestSpawn, RequestCommit
<1>4. ASSUME NEW r \in Run, Work(r) PROVE ContentInv'
  <2>1. CASE Load(r)
    BY <2>1, LoadContent
  <2>2. CASE AnnotateFiles(r) \/ AnnotateFolders(r) \/ AnnotatePdfs(r)
    BY <2>2, AnnotateContent
  <2>3. CASE \E s \in Scatter : ScatterBatch(r, s) \/ ScatterSave(r, s)
    BY <2>3, ScatterContent
  <2>4. CASE Gather(r)
    BY <2>4, GatherContent
  <2>5. CASE Draft(r) \/ SkipFolder(r)
    BY <2>5, MoveContent
  <2>6. CASE UpdateSections(r) \/ UpdateSectionsWithPdf(r) \/ FinalSectionFormat(r)
    BY <2>6, UpdateContent
  <2>7. CASE Assemble(r)
    BY <2>7, AssembleContent
  <2>8. CASE DeleteCheckpoint(r)
    BY <2>8, IdleContent
  <2> QED
    BY <1>4, <2>1, <2>2, <2>3, <2>4, <2>5, <2>6, <2>7, <2>8 DEF Work
<1>5. ASSUME NEW r \in Run, Raise(r) \/ Fade(r) \/ Crash(r) \/ \E g \in Goal : Take(r, g)
      PROVE  ContentInv'
  BY <1>5, IdleContent
<1>6. CASE Next
  BY <1>3, <1>4, <1>5, <1>6 DEF Next
<1> QED
  BY <1>2, <1>6
------------------------------------------------------------------------------
(* The rest of the state.                                                  *)

(* What a step of a task that is not at an end leaves alone.               *)
Others == <<status, req, jobs, requests, crashes, lost, overlap, overtaken>>

LEMMA WorkOthers ==
  ASSUME NEW r \in Run, Work(r)
  PROVE  Assemble(r) \/ UNCHANGED Others
<1>1. CASE Load(r) \/ DeleteCheckpoint(r) \/ FinalSectionFormat(r)
  BY <1>1 DEF Load, DeleteCheckpoint, FinalSectionFormat, Apply, Progress, Others
<1>2. CASE AnnotateFiles(r) \/ AnnotateFolders(r) \/ AnnotatePdfs(r)
  BY <1>2 DEF AnnotateFiles, AnnotateFolders, AnnotatePdfs, Progress, Others
<1>3. CASE Draft(r) \/ SkipFolder(r) \/ Gather(r)
  BY <1>3 DEF Draft, SkipFolder, Gather, Apply, Progress, Others
<1>4. CASE \E s \in Scatter : ScatterBatch(r, s) \/ ScatterSave(r, s)
  BY <1>4 DEF ScatterBatch, ScatterSave, Progress, Others
<1>5. CASE UpdateSections(r) \/ UpdateSectionsWithPdf(r)
  BY <1>5 DEF UpdateSections, UpdateSectionsWithPdf, Apply, Progress, Others
<1> QED
  BY <1>1, <1>2, <1>3, <1>4, <1>5 DEF Work

LEMMA RestNext ==
  ASSUME RestOK, ContentInv, [Next]_vars
  PROVE  RestOK'
<1>1. ASSUME UNCHANGED Others PROVE RestOK'
  BY <1>1 DEF Others, RestOK
<1>2. CASE UNCHANGED vars
  BY <1>1, <1>2 DEF vars, Others
<1>3. ASSUME NEW q \in Requester, NEW g \in Goal, RequestCheck(q, g) PROVE RestOK'
  <2>1. [pc |-> "spawn", goal |-> g] \in [pc : {"idle", "spawn", "commit"}, goal : Goal]
    OBVIOUS
  <2> QED
    BY <1>3, <2>1 DEF RequestCheck, RestOK
<1>4. ASSUME NEW q \in Requester, Handle(q) PROVE RestOK'
  <2>1. req[q] \in [pc : {"idle", "spawn", "commit"}, goal : Goal]
    BY DEF RestOK
  <2>2. NoRequest(SomeGoal) \in [pc : {"idle", "spawn", "commit"}, goal : Goal]
    BY Beginnings DEF NoRequest
  <2>3. CASE RequestSpawn(q)
    <3>1. [req[q] EXCEPT !.pc = "commit"] \in [pc : {"idle", "spawn", "commit"}, goal : Goal]
      BY <2>1
    <3> QED
      BY <2>1, <2>3, <3>1 DEF RequestSpawn, RestOK
  <2>4. CASE RequestCommit(q)
    BY <2>2, <2>4 DEF RequestCommit, RestOK
  <2> QED
    BY <1>4, <2>3, <2>4 DEF Handle
<1>5. ASSUME NEW r \in Run, Work(r) PROVE RestOK'
  <2>1. CASE Assemble(r)
    BY <2>1 DEF Assemble, RestOK
  <2> QED
    BY <1>1, <1>5, <2>1, WorkOthers
<1>6. ASSUME NEW r \in Run, Raise(r) \/ Fade(r) PROVE RestOK'
  BY <1>6 DEF Raise, Fade, RestOK
<1>7. ASSUME NEW r \in Run, Crash(r) PROVE RestOK'
  <2>1. run[r].asked \in Goal
    BY DEF ContentInv, ContentOK, RunState
  <2>2. jobs' \in [Goal -> Nat]
    BY <1>7, <2>1 DEF Crash, RestOK
  <2> QED
    BY <1>7, <2>2 DEF Crash, RestOK
<1>8. ASSUME NEW r \in Run, NEW g \in Goal, Take(r, g) PROVE RestOK'
  <2>1. jobs' \in [Goal -> Nat]
    BY <1>8 DEF Take, RestOK
  <2> QED
    BY <1>8, <2>1 DEF Take, RestOK
<1> QED
  BY <1>2, <1>3, <1>4, <1>5, <1>6, <1>7, <1>8 DEF Next

LEMMA FlagsNext ==
  ASSUME FlagsOK, [Next]_vars
  PROVE  FlagsOK'
<1>1. ASSUME UNCHANGED Others PROVE FlagsOK'
  BY <1>1, Zenon DEF Others, FlagsOK
<1>2. CASE UNCHANGED vars
  BY <1>1, <1>2, Zenon DEF vars, Others
<1>3. ASSUME NEW q \in Requester, Handle(q) \/ \E g \in Goal : RequestCheck(q, g)
      PROVE  FlagsOK'
  BY <1>3, Zenon DEF Handle, RequestCheck, RequestSpawn, RequestCommit, FlagsOK
<1>4. ASSUME NEW r \in Run, Work(r) PROVE FlagsOK'
  <2>1. CASE Assemble(r)
    BY <2>1, Zenon DEF Assemble, Ends, FlagsOK
  <2> QED
    BY <1>1, <1>4, <2>1, WorkOthers
<1>5. ASSUME NEW r \in Run, Raise(r) \/ Fade(r) \/ Crash(r) \/ \E g \in Goal : Take(r, g)
      PROVE  FlagsOK'
  BY <1>5, Zenon DEF Raise, Fade, Crash, Take, Ends, FlagsOK
<1> QED
  BY <1>2, <1>3, <1>4, <1>5 DEF Next
------------------------------------------------------------------------------
(* One task at a time.  A task is queued, or at work.                      *)
Busy == Queued # {} \/ Writing # {}

(* Until two requests overlap or a task is faster than its request: there  *)
(* is one request, one task and nothing else, and one who asks for the page*)
(* does so before the task is queued or is refused.                        *)
Exclusive ==
  \/ overlap \/ overtaken
  \/ /\ \A r1, r2 \in Writing : r1 = r2
     /\ \A g, h \in Queued : g = h /\ jobs[g] = 1
     /\ Writing = {} \/ Queued = {}
     /\ \A p, q \in Pending : p = q
     /\ \A q \in Requester : req[q].pc = "spawn" => ~Busy
     /\ Busy => status = "GENERATING" \/ \E q \in Requester : req[q].pc = "commit"

Owned ==
  (status = "GENERATING" \/ \E q \in Requester : req[q].pc = "commit") =>
    Busy \/ lost \/ overtaken

LEMMA GotoOthers ==
  ASSUME ContentInv, NEW r \in Run, NEW x, Goto(r, x)
  PROVE  /\ run'[r] = x /\ \A q \in Run : q # r => run'[q] = run[q]
         /\ Writing' = IF x.pc \notin {"idle", "raised", "delete"}
                       THEN Writing \cup {r} ELSE Writing \ {r}
BY DEF ContentInv, ContentOK, Goto, Writing

LEMMA WorkWriting ==
  ASSUME ContentInv, NEW r \in Run, Work(r), ~Assemble(r)
  PROVE  Writing' = Writing
<1> DEFINE W(p) == p \notin {"idle", "raised", "delete"}
<1>1. run[r] \in RunState /\ (r \in Writing <=> W(run[r].pc))
  BY DEF ContentInv, ContentOK, Writing
<1>2. ASSUME NEW x, Goto(r, x), W(x.pc) <=> W(run[r].pc)
      PROVE  Writing' = Writing
  BY <1>1, <1>2, GotoOthers
<1>3. CASE Load(r)
  <2>1. ASSUME NEW c \in Checkpoint, NEW o, Enter(r, c, o) PROVE Writing' = Writing
    <3> DEFINE x == [run[r] EXCEPT !.pc = Entry(c).pc, !.text = Entry(c).text,
                       !.pidx = Entry(c).pidx, !.origin = o,
                       !.cp = IF Jumps(c) THEN [c EXCEPT !.past = "jumped"] ELSE c]
    <3>1. c.phase \in Phase
      BY DEF Checkpoint
    <3>2. Entry(c).pc \in {"annotate", "draft", "update", "assemble"}
      BY <3>1 DEF Entry, Phase
    <3>3. x.pc = Entry(c).pc
      BY <1>1 DEF RunState
    <3>4. Goto(r, x)
      BY <2>1 DEF Enter
    <3> HIDE DEF x
    <3>5. run[r].pc = "load"
      BY <1>3 DEF Load
    <3> QED
      BY <1>2, <3>2, <3>3, <3>4, <3>5
  <2>2. run[r].asked \in Goal
    BY <1>1 DEF RunState
  <2> QED
    BY <1>3, <2>1, <2>2, Beginnings DEF Load, Resumes, ContentInv, ContentOK
<1>4. ASSUME NEW c, NEW p \in {"annotate", "annotate_pdfs", "draft"}, Progress(r, c, p),
             W(run[r].pc)
      PROVE  Writing' = Writing
  <2>1. [run[r] EXCEPT !.cp = c, !.pc = p].pc = p
    BY <1>1 DEF RunState
  <2> QED
    BY <1>2, <1>4, <2>1 DEF Progress
<1>5. CASE AnnotateFiles(r) \/ AnnotateFolders(r) \/ AnnotatePdfs(r)
  BY <1>4, <1>5 DEF AnnotateFiles, AnnotateFolders, AnnotatePdfs
<1>6. CASE Draft(r)
  <2>1. [run[r] EXCEPT !.pc = "scatter"].pc = "scatter"
    BY <1>1 DEF RunState
  <2> QED
    BY <1>2, <1>6, <2>1 DEF Draft
<1>7. ASSUME NEW s \in Scatter, ScatterBatch(r, s) \/ ScatterSave(r, s)
      PROVE  Writing' = Writing
  <2>1. \A c : [run[r] EXCEPT !.cp = c, !.wait[s] = c].pc = run[r].pc
    BY <1>1 DEF RunState
  <2>2. [run[r] EXCEPT !.wait[s] = NoCkpt].pc = run[r].pc
    BY <1>1 DEF RunState
  <2> QED
    BY <1>2, <1>7, <2>1, <2>2 DEF ScatterBatch, ScatterSave
<1>8. CASE Gather(r)
  <2>1. \A c : [run[r] EXCEPT !.cp = c, !.pc = "update", !.text = Blank, !.pidx = 1].pc
                = "update"
    BY <1>1 DEF RunState
  <2> QED
    BY <1>2, <1>8, <2>1 DEF Gather
<1>9. CASE SkipFolder(r)
  <2>1. [run[r] EXCEPT !.pidx = @ + 1].pc = run[r].pc
    BY <1>1 DEF RunState
  <2> QED
    BY <1>2, <1>9, <2>1 DEF SkipFolder
<1>10. ASSUME NEW c, NEW i, NEW p \in {"update", "assemble"}, Apply(r, c, i, p),
              run[r].pc = "update"
       PROVE  Writing' = Writing
  <2> DEFINE text == [run[r].text EXCEPT ![i] = @ + 1]
             k == run[r].pidx + 1
             x == [run[r] EXCEPT !.cp = [c EXCEPT !.text = text], !.pc = p, !.text = text,
                                 !.pidx = k]
  <2>1. Goto(r, x)
    BY <1>10 DEF Apply
  <2> HIDE DEF text, k
  <2>2. x.pc = p
    BY <1>1 DEF RunState
  <2> QED
    BY <1>2, <1>10, <2>1, <2>2
<1>11. CASE UpdateSections(r) \/ UpdateSectionsWithPdf(r) \/ FinalSectionFormat(r)
  BY <1>10, <1>11 DEF UpdateSections, UpdateSectionsWithPdf, FinalSectionFormat
<1>12. CASE DeleteCheckpoint(r)
  BY <1>2, <1>12, Beginnings DEF DeleteCheckpoint
<1> QED
  BY <1>3, <1>5, <1>6, <1>7, <1>8, <1>9, <1>11, <1>12 DEF Work

(* Steps by what they do to the tasks and the requests.                    *)
LEMMA EndsWriting ==
  ASSUME ContentInv, NEW r \in Run, Assemble(r) \/ Raise(r) \/ Fade(r) \/ Crash(r)
  PROVE  Writing' = Writing \ {r}
<1>1. run[r] \in RunState /\ Idle(SomeGoal).pc = "idle"
  BY Beginnings DEF ContentInv, ContentOK
<1>2. /\ [run[r] EXCEPT !.pc = "delete"].pc = "delete"
      /\ [run[r] EXCEPT !.pc = "raised"].pc = "raised"
  BY <1>1 DEF RunState
<1>3. \E x : Goto(r, x) /\ x.pc \in {"idle", "raised", "delete"}
  BY <1>1, <1>2 DEF Assemble, Raise, Fade, Crash
<1> QED
  BY <1>3, GotoOthers

LEMMA TakeWriting ==
  ASSUME ContentInv, NEW r \in Run, NEW g \in Goal, Take(r, g)
  PROVE  Writing' = Writing \cup {r}
<1>1. Idle(g) \in RunState
  BY Beginnings
<1>2. [Idle(g) EXCEPT !.pc = "load"].pc = "load"
  BY <1>1 DEF RunState
<1> QED
  BY <1>2, GotoOthers DEF Take

(* Only the tasks' content changes, or a task ends that was not at work.   *)
LEMMA SameTasks ==
  ASSUME Writing' = Writing, UNCHANGED <<status, req, jobs, lost, overlap, overtaken>>,
         Exclusive, Owned
  PROVE  Exclusive' /\ Owned'
<1>1. Queued' = Queued /\ Pending' = Pending
  BY DEF Queued, Pending
<1>2. Busy' = Busy
  BY <1>1 DEF Busy
<1> QED
  BY <1>1, <1>2 DEF Exclusive, Owned

LEMMA CheckExclusive ==
  ASSUME RestOK, ContentInv, Exclusive, Owned, NEW q \in Requester, NEW g \in Goal,
         RequestCheck(q, g)
  PROVE  Exclusive' /\ Owned'
<1>1. /\ status # "GENERATING" /\ (overlap' <=> (overlap \/ Pending # {}))
      /\ req[q].pc = "idle" /\ req' = [req EXCEPT ![q] = [pc |-> "spawn", goal |-> g]]
      /\ UNCHANGED <<status, jobs, run, lost, overtaken>>
  BY DEF RequestCheck
<1>2. Queued' = Queued /\ Writing' = Writing
  BY <1>1 DEF Queued, Writing
<1>3. /\ \A p \in Requester : p # q => req'[p] = req[p]
      /\ req'[q].pc = "spawn"
  BY <1>1 DEF RestOK
<1>4. (Busy' <=> Busy) /\ Pending' = Pending \cup {q}
  BY <1>2, <1>3 DEF Busy, Pending
<1>5. (\E p \in Requester : req'[p].pc = "commit") => \E p \in Requester : req[p].pc = "commit"
  BY <1>3
<1>6. Owned'
  BY <1>1, <1>4, <1>5 DEF Owned
<1>7. CASE overlap \/ overtaken \/ Pending # {}
  BY <1>1, <1>6, <1>7 DEF Exclusive
<1>8. CASE ~(overlap \/ overtaken \/ Pending # {})
  <2>1. ~Busy
    BY <1>1, <1>8 DEF Exclusive, Pending
  <2>2. Pending' = {q}
    BY <1>4, <1>8
  <2> QED
    BY <1>2, <1>4, <1>6, <1>8, <2>1, <2>2 DEF Exclusive, Busy
<1> QED
  BY <1>7, <1>8

LEMMA HandleExclusive ==
  ASSUME RestOK, ContentInv, Exclusive, Owned, NEW q \in Requester, Handle(q)
  PROVE  Exclusive' /\ Owned'
<1>1. CASE RequestSpawn(q)
  <2> DEFINE g == req[q].goal
  <2>1. /\ req[q].pc = "spawn" /\ g \in Goal /\ q \in Pending
        /\ jobs' = [jobs EXCEPT ![g] = @ + 1]
        /\ req' = [req EXCEPT ![q].pc = "commit"]
        /\ UNCHANGED <<status, run, lost, overlap, overtaken>>
    BY <1>1 DEF RequestSpawn, RestOK, Pending
  <2> HIDE DEF g
  <2>2. /\ req'[q].pc = "commit" /\ \A p \in Requester : p # q => req'[p] = req[p]
        /\ jobs'[g] = jobs[g] + 1 /\ \A h \in Goal : h # g => jobs'[h] = jobs[h]
        /\ \A h \in Goal : jobs[h] \in Nat
    BY <2>1 DEF RestOK
  <2>3. Pending' = Pending /\ Writing' = Writing /\ Queued' = Queued \cup {g}
    BY <2>1, <2>2 DEF Pending, Writing, Queued
  <2>4. Busy'
    BY <2>3 DEF Busy
  <2>5. Owned'
    BY <2>4 DEF Owned
  <2>6. CASE overlap \/ overtaken
    BY <2>1, <2>5, <2>6 DEF Exclusive
  <2>7. CASE ~(overlap \/ overtaken)
    <3>1. Queued = {} /\ Writing = {} /\ \A p \in Pending : p = q
      BY <2>1, <2>7 DEF Exclusive, Busy
    <3>2. jobs'[g] = 1 /\ Queued' = {g} /\ Writing' = {}
      BY <2>1, <2>2, <2>3, <3>1 DEF Queued
    <3>3. \A p \in Requester : req'[p].pc # "spawn"
      BY <2>2, <3>1 DEF Pending
    <3> QED
      BY <2>1, <2>2, <2>3, <2>5, <3>1, <3>2, <3>3 DEF Exclusive
  <2> QED
    BY <2>6, <2>7
<1>2. CASE RequestCommit(q)
  <2>1. /\ req[q].pc = "commit" /\ q \in Pending
        /\ req' = [req EXCEPT ![q] = NoRequest(SomeGoal)]
        /\ (status' = "GENERATING" /\ overlap' = overlap)
           \/ (overlap' = TRUE /\ status' = status)
        /\ UNCHANGED <<jobs, run, lost, overtaken>>
    BY <1>2 DEF RequestCommit, Pending
  <2>2. /\ req'[q].pc = "idle" /\ \A p \in Requester : p # q => req'[p] = req[p]
    BY <2>1 DEF RestOK, NoRequest
  <2>3. Pending' = Pending \ {q} /\ Writing' = Writing /\ Queued' = Queued
    BY <2>1, <2>2 DEF Pending, Writing, Queued
  <2>4. Busy' = Busy
    BY <2>3 DEF Busy
  <2>5. Owned'
    BY <2>1, <2>4 DEF Owned
  <2>6. CASE overlap' \/ overtaken'
    BY <2>5, <2>6 DEF Exclusive
  <2>7. CASE ~(overlap' \/ overtaken')
    <3>1. status' = "GENERATING" /\ ~(overlap \/ overtaken)
      BY <2>1, <2>7
    <3>2. \A p \in Requester : req'[p].pc = "spawn" => req[p].pc = "spawn"
      BY <2>2
    <3> QED
      BY <2>1, <2>3, <2>4, <2>5, <3>1, <3>2 DEF Exclusive
  <2> QED
    BY <2>6, <2>7
<1> QED
  BY <1>1, <1>2 DEF Handle

LEMMA TakeExclusive ==
  ASSUME RestOK, ContentInv, Exclusive, Owned, NEW r \in Run, NEW g \in Goal, Take(r, g)
  PROVE  Exclusive' /\ Owned'
<1>1. /\ g \in Queued /\ jobs' = [jobs EXCEPT ![g] = @ - 1] /\ Writing' = Writing \cup {r}
      /\ UNCHANGED <<status, req, lost, overlap, overtaken>>
  BY TakeWriting DEF Take, Queued
<1>2. Busy' /\ Busy /\ Pending' = Pending
  BY <1>1 DEF Busy, Pending
<1>3. Owned'
  BY <1>2 DEF Owned
<1>4. CASE overlap \/ overtaken
  BY <1>1, <1>3, <1>4 DEF Exclusive
<1>5. CASE ~(overlap \/ overtaken)
  <2>1. Writing = {} /\ jobs[g] = 1 /\ \A h \in Queued : h = g
    BY <1>1, <1>5 DEF Exclusive
  <2>2. jobs'[g] = 0 /\ \A h \in Goal : h # g => jobs'[h] = jobs[h]
    BY <1>1, <2>1 DEF RestOK
  <2>3. Queued' = {} /\ Writing' = {r}
    BY <1>1, <2>1, <2>2 DEF Queued
  <2> QED
    BY <1>1, <1>2, <1>3, <1>5, <2>3 DEF Exclusive
<1> QED
  BY <1>4, <1>5

(* A task that is at work ends with the status set.                        *)
LEMMA EndExclusive ==
  ASSUME RestOK, ContentInv, Exclusive, Owned, NEW r \in Run, Assemble(r) \/ Raise(r)
  PROVE  Exclusive' /\ Owned'
<1>1. /\ r \in Writing /\ Writing' = Writing \ {r} /\ status' # "GENERATING"
      /\ UNCHANGED <<req, jobs, lost, overlap>>
      /\ overtaken' <=> (overtaken \/ \E q \in Requester : req[q].pc = "commit")
  BY EndsWriting DEF Assemble, Raise, Ends, Writing
<1>2. Queued' = Queued /\ Pending' = Pending
  BY <1>1 DEF Queued, Pending
<1>3. Owned'
  BY <1>1 DEF Owned
<1>4. CASE overlap \/ overtaken
  BY <1>1, <1>3, <1>4 DEF Exclusive
<1>5. CASE ~(overlap \/ overtaken)
  <2>1. Writing = {r} /\ Queued = {}
    BY <1>1, <1>5 DEF Exclusive
  <2>2. Writing' = {} /\ Queued' = {} /\ ~Busy'
    BY <1>1, <1>2, <2>1 DEF Busy
  <2> QED
    BY <1>1, <1>2, <1>3, <1>5, <2>2 DEF Exclusive
<1> QED
  BY <1>4, <1>5

LEMMA CrashExclusive ==
  ASSUME RestOK, ContentInv, Exclusive, Owned, NEW r \in Run, Crash(r)
  PROVE  Exclusive' /\ Owned'
<1> DEFINE a == run[r].asked
<1>1. /\ Writing' = Writing \ {r} /\ a \in Goal
      /\ UNCHANGED <<status, req, overlap, overtaken>>
  BY EndsWriting DEF Crash, ContentInv, ContentOK, RunState
<1>2. Pending' = Pending
  BY <1>1 DEF Pending
<1>3. CASE r \in Writing /\ jobs' = [jobs EXCEPT ![a] = @ + 1] /\ lost' = lost
  <2> HIDE DEF a
  <2>1. /\ jobs'[a] = jobs[a] + 1 /\ \A h \in Goal : h # a => jobs'[h] = jobs[h]
        /\ \A h \in Goal : jobs[h] \in Nat
    BY <1>1, <1>3 DEF RestOK
  <2>2. Queued' = Queued \cup {a}
    BY <1>1, <2>1 DEF Queued
  <2>3. Busy' /\ Busy
    BY <1>3, <2>2 DEF Busy
  <2>4. Owned'
    BY <2>3 DEF Owned
  <2>5. CASE overlap \/ overtaken
    BY <1>1, <2>4, <2>5 DEF Exclusive
  <2>6. CASE ~(overlap \/ overtaken)
    <3>1. Writing = {r} /\ Queued = {}
      BY <1>3, <2>6 DEF Exclusive
    <3>2. Writing' = {} /\ Queued' = {a} /\ jobs'[a] = 1
      BY <1>1, <2>1, <2>2, <3>1 DEF Queued
    <3> QED
      BY <1>1, <1>2, <2>3, <2>4, <2>6, <3>2 DEF Exclusive
  <2> QED
    BY <2>5, <2>6
<1>4. CASE jobs' = jobs /\ (lost' <=> (lost \/ r \in Writing))
  <2>1. Queued' = Queued
    BY <1>4 DEF Queued
  <2>2. Busy' => Busy
    BY <1>1, <2>1 DEF Busy
  <2>3. Owned'
    BY <1>1, <1>4, <2>1 DEF Owned, Busy
  <2> QED
    BY <1>1, <1>2, <1>4, <2>1, <2>2, <2>3 DEF Exclusive
<1> QED
  BY <1>3, <1>4 DEF Crash
------------------------------------------------------------------------------
(* The invariant, and what it implies.                                     *)
IInv == RestOK /\ FlagsOK /\ ContentInv /\ Exclusive /\ Owned

LEMMA InitIInv == Init => IInv
<1> SUFFICES ASSUME Init PROVE IInv
  OBVIOUS
<1>1. RestOK
  BY Beginnings DEF Init, RestOK, NoRequest
<1>2. FlagsOK
  BY DEF Init, FlagsOK
<1>3. ContentInv
  BY Beginnings DEF Init, ContentInv, ContentOK, DocExact, GoalKept
<1>4. Queued = {} /\ Writing = {} /\ Pending = {}
  BY Beginnings DEF Init, Queued, Writing, Pending, NoRequest
<1>5. Exclusive
  BY <1>4 DEF Exclusive, Init, NoRequest, Busy
<1>6. Owned
  BY DEF Owned, Init, NoRequest
<1> QED
  BY <1>1, <1>2, <1>3, <1>5, <1>6 DEF IInv

LEMMA NextIInv == IInv /\ [Next]_vars => IInv'
<1> SUFFICES ASSUME IInv, [Next]_vars PROVE IInv'
  OBVIOUS
<1>1. RestOK /\ ContentInv /\ Exclusive /\ Owned
  BY DEF IInv
<1>2. RestOK' /\ FlagsOK' /\ ContentInv'
  BY RestNext, FlagsNext, ContentNext DEF IInv
<1>3. ASSUME UNCHANGED vars PROVE Exclusive' /\ Owned'
  BY <1>1, <1>3, SameTasks DEF vars, Writing
<1>4. ASSUME NEW q \in Requester, Handle(q) \/ \E g \in Goal : RequestCheck(q, g)
      PROVE  Exclusive' /\ Owned'
  BY <1>1, <1>4, HandleExclusive, CheckExclusive
<1>5. ASSUME NEW r \in Run, Work(r) PROVE Exclusive' /\ Owned'
  <2>1. CASE Assemble(r)
    BY <1>1, <2>1, EndExclusive
  <2>2. CASE ~Assemble(r)
    BY <1>1, <1>5, <2>2, WorkWriting, WorkOthers, SameTasks DEF Others
  <2> QED
    BY <2>1, <2>2
<1>6. ASSUME NEW r \in Run, Fade(r) PROVE Exclusive' /\ Owned'
  <2>1. Writing' = Writing
    BY <1>1, <1>6, EndsWriting DEF Fade, Writing
  <2> QED
    BY <1>1, <1>6, <2>1, SameTasks DEF Fade
<1>7. ASSUME NEW r \in Run, Raise(r) \/ Crash(r) \/ \E g \in Goal : Take(r, g)
      PROVE  Exclusive' /\ Owned'
  BY <1>1, <1>7, EndExclusive, CrashExclusive, TakeExclusive
<1> QED
  BY <1>2, <1>3, <1>4, <1>5, <1>6, <1>7 DEF Next, IInv

(* The invariant always holds: AutoDocs as a whole.                        *)
THEOREM Invariance == Spec => []IInv
BY InitIInv, NextIInv, PTL DEF Spec

(* The types of the page, its checkpoint, the requests and the tasks.      *)
THEOREM TypeCorrect == Spec => []TypeOK
<1>1. IInv => TypeOK
  BY DEF IInv, RestOK, FlagsOK, ContentInv, ContentOK, TypeOK
<1> QED
  BY <1>1, Invariance, PTL

(* Every resumption but one between two PDFs makes the page from every node*)
(* and PDF once, for any number of them (generate).                        *)
THEOREM PageIsExact == Spec => []DocExact
<1>1. IInv => DocExact
  BY DEF IInv, ContentInv
<1> QED
  BY <1>1, Invariance, PTL

(* A page that was asked for with a TOML file is made with that file,      *)
(* whoever shares its checkpoint (is_valid_for_resume).                    *)
THEOREM GoalIsKept == Spec => []GoalKept
<1>1. IInv => GoalKept
  BY DEF IInv, ContentInv
<1> QED
  BY <1>1, Invariance, PTL

(* The status of the page keeps tasks apart, for any number of requests and*)
(* tasks, until one of the two races named happens (run_autodoc).          *)
THEOREM TasksAreApart == Spec => []OneAtATime
<1>1. IInv => OneAtATime
  BY DEF IInv, Exclusive, OneAtATime
<1> QED
  BY <1>1, Invariance, PTL

(* A page that is generating has a task, unless one was lost or was faster *)
(* than the commit of its request (run_autodoc of the backend).            *)
THEOREM PagesAreOwned == Spec => []PageOwned
<1>1. IInv => PageOwned
  BY DEF IInv, Owned, Busy, PageOwned
<1> QED
  BY <1>1, Invariance, PTL
===============================================================================
