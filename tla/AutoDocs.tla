------------------------------- MODULE AutoDocs -------------------------------
(***************************************************************************)
(* The generation of one page by AutoDocs, with the checkpoint it resumes  *)
(* from (content_services/src/autodocs/src):                               *)
(*   - the backend, where users ask for the page (routes/v2/autodocs.py);  *)
(*   - the task, which loads the checkpoint or makes one, writes the page  *)
(*     and deletes the checkpoint (main.py);                               *)
(*   - the phases of the generation, which save the checkpoint as they go  *)
(*     and are entered in the middle when it is resumed                    *)
(*     (autodocs_prototype.py, checkpoint.py).                             *)
(* All runs for a page share one checkpoint; nothing keeps two of them     *)
(* apart but the status of the page.                                       *)
(*                                                                         *)
(* What the model writes is abstracted to how often each item went into    *)
(* it: items 1 .. Nodes are the nodes in the order of                      *)
(* appended_reverse_topo, the next Pdfs items the PDFs, and the last one   *)
(* is the formatting.  Sections are tagged and at least one of them is     *)
(* edited sequentially; Scatter are the ones made by scatter-gather.       *)
(***************************************************************************)
EXTENDS Naturals

CONSTANTS Goal,        (* what is asked for: a document goal or a TOML     *)
          Custom,      (* those that are TOML files (config kind CUSTOM)   *)
          Nodes,       (* the number of nodes                              *)
          Folder,      (* the nodes the first drafts are made from         *)
          Pdfs,        (* the number of PDFs                               *)
          Files,       (* batches of files to annotate                     *)
          Scatter,     (* the scatter-gather sections                      *)
          Batches,     (* batches of nodes of each of them                 *)
          Requester,   (* the requests the backend handles at a time       *)
          Run,         (* the tasks that can run at a time                 *)
          NoCkpt,      (* there is no checkpoint                           *)
          NoDoc,       (* the page has not been written                    *)
          Faults,      (* the kinds of fault this instance has             *)
          MaxRequests, (* bound: requests                                  *)
          MaxCrashes   (* bound: tasks that die                            *)

FaultKind == {"crash",   (* a task's worker dies, or it is cancelled       *)
              "raise",   (* a step of a task raises                        *)
              "save",    (* a save of the checkpoint fails                 *)
              "delete",  (* its deletion fails                             *)
              "commit"}  (* the backend dies before its commit             *)

ASSUME DocsAssumption ==
  /\ Goal # {} /\ Custom \subseteq Goal
  /\ Nodes \in Nat /\ Pdfs \in Nat /\ Files \in Nat /\ Batches \in Nat \ {0}
  /\ Folder \subseteq 1 .. Nodes
  /\ Faults \subseteq FaultKind
  /\ MaxRequests \in Nat /\ MaxCrashes \in Nat

Phase == {"INITIALIZING", "ANNOTATING", "SECTION_UPDATE", "UPDATING_PDFS",
          "BEFORE_ASSEMBLY"}

Item == 1 .. Nodes + Pdfs + 1
Text == [Item -> Nat]
Blank == [i \in Item |-> 0]

(* The items before item k went in once, but for the folders of the drafts.*)
Upto(k) == [i \in Item |-> IF i < k /\ i \notin Folder THEN 1 ELSE 0]
Complete == Upto(Nodes + Pdfs + 2)

(* AutoDocsCheckpoint: ann counts the annotated batches, then the folders  *)
(* and the PDFs; scatter_state is None when scat is NoScatter.  past is    *)
(* history: it is "jumped" if the content is that of a run which resumed   *)
(* between two PDFs.                                                       *)
NoScatter == [s \in Scatter |-> 0]
Checkpoint == [phase : Phase, goal : Goal, ann : 0 .. Files + 2,
               scat : [Scatter -> 0 .. Batches], text : Text, topo : Nat, pdf : Nat,
               past : {"straight", "jumped"}]

(* AutoDocsCheckpoint.create_initial.                                      *)
Initial(g) == [phase |-> "INITIALIZING", goal |-> g, ann |-> 0, scat |-> NoScatter,
               text |-> Blank, topo |-> 0, pdf |-> 0, past |-> "straight"]

VARIABLES
  status,    (* the status of the page's version                           *)
  doc,       (* the page: what was asked for, what it is made from         *)
  ckpt,      (* the checkpoint of the page in S3                           *)
  req,       (* req[q]: a request                                          *)
  jobs,      (* jobs[g]: tasks for g queued in Hatchet                     *)
  run,       (* run[r]: a task                                             *)
  requests,  (* requests so far                                            *)
  crashes,   (* tasks that died so far                                     *)
  lost,      (* history: a task died and was not run again                 *)
  overlap,   (* history: the status did not keep two requests apart        *)
  overtaken  (* history: a task ended before its request's commit          *)

vars == <<status, doc, ckpt, req, jobs, run, requests, crashes, lost, overlap,
          overtaken>>
-----------------------------------------------------------------------------
(* State.                                                                  *)

NoRequest(g) == [pc |-> "idle", goal |-> g]

(* cp is the checkpoint in memory; wait[s] is what the save section s      *)
(* waits for will put.                                                     *)
Idle(g) == [pc |-> "idle", asked |-> g, cp |-> Initial(g), text |-> Blank,
            pidx |-> 1, origin |-> "new",
            wait |-> [s \in Scatter |-> NoCkpt]]

SomeGoal == CHOOSE g \in Goal : TRUE

Init ==
  /\ status = "CONNECTED" /\ doc = NoDoc /\ ckpt = NoCkpt
  /\ req = [q \in Requester |-> NoRequest(SomeGoal)]
  /\ jobs = [g \in Goal |-> 0]
  /\ run = [r \in Run |-> Idle(SomeGoal)]
  /\ requests = 0 /\ crashes = 0
  /\ lost = FALSE /\ overlap = FALSE /\ overtaken = FALSE

Writing == {r \in Run : run[r].pc \notin {"idle", "raised", "delete"}}
Pending == {q \in Requester : req[q].pc # "idle"}

Goto(r, x) == run' = [run EXCEPT ![r] = x]

(* checkpoint.save: a failure is logged.                                   *)
Save(c) ==
  \/ ckpt' = c
  \/ "save" \in Faults /\ UNCHANGED ckpt
-----------------------------------------------------------------------------
(* run_autodoc of the backend.                                             *)

(* Mutant of RequestCheck: the status is not looked at.                    *)
RequestCheckBlind(q, g) ==
  /\ req[q].pc = "idle" /\ requests < MaxRequests
  /\ req' = [req EXCEPT ![q] = [pc |-> "spawn", goal |-> g]]
  /\ requests' = requests + 1
  /\ overlap' = (overlap \/ Pending # {})
  /\ UNCHANGED <<status, doc, ckpt, jobs, run, crashes, lost, overtaken>>

RequestCheck(q, g) ==
  /\ req[q].pc = "idle" /\ requests < MaxRequests
  /\ status # "GENERATING"
  /\ req' = [req EXCEPT ![q] = [pc |-> "spawn", goal |-> g]]
  /\ requests' = requests + 1
  /\ overlap' = (overlap \/ Pending # {})
  /\ UNCHANGED <<status, doc, ckpt, jobs, run, crashes, lost, overtaken>>

RequestSpawn(q) ==
  /\ req[q].pc = "spawn"
  /\ jobs' = [jobs EXCEPT ![req[q].goal] = @ + 1]
  /\ req' = [req EXCEPT ![q].pc = "commit"]
  /\ UNCHANGED <<status, doc, ckpt, run, requests, crashes, lost, overlap, overtaken>>

RequestCommit(q) ==
  /\ req[q].pc = "commit"
  /\ req' = [req EXCEPT ![q] = NoRequest(SomeGoal)]
  /\ \/ status' = "GENERATING" /\ UNCHANGED overlap
     \/ "commit" \in Faults /\ overlap' = TRUE /\ UNCHANGED status
  /\ UNCHANGED <<doc, ckpt, jobs, run, requests, crashes, lost, overtaken>>
-----------------------------------------------------------------------------
(* The task takes a job and resumes from the checkpoint, or makes one.     *)

(* Mutant of Take: a task runs that nothing queued.                        *)
TakeUnqueued(r, g) ==
  /\ run[r].pc = "idle"
  /\ jobs' = [jobs EXCEPT ![g] = @ - 1]
  /\ Goto(r, [Idle(g) EXCEPT !.pc = "load"])
  /\ UNCHANGED <<status, doc, ckpt, req, requests, crashes, lost, overlap, overtaken>>

Take(r, g) ==
  /\ run[r].pc = "idle" /\ jobs[g] > 0
  /\ jobs' = [jobs EXCEPT ![g] = @ - 1]
  /\ Goto(r, [Idle(g) EXCEPT !.pc = "load"])
  /\ UNCHANGED <<status, doc, ckpt, req, requests, crashes, lost, overlap, overtaken>>

(* Mutant of Resumes: the hash of the TOML is not compared.                *)
ResumesAny(g) == ckpt # NoCkpt

(* is_valid_for_resume compares the hash of a TOML file; with a document   *)
(* goal any checkpoint of the page is taken, and its TOML with it.         *)
Resumes(g) == ckpt # NoCkpt /\ (g \in Custom => ckpt.goal = g)

(* Where generate goes on, and with which content and index.               *)
Entry(c) ==
  CASE c.phase = "INITIALIZING" -> [pc |-> "annotate", text |-> Blank, pidx |-> 1]
    [] c.phase = "ANNOTATING" -> [pc |-> "annotate", text |-> Blank, pidx |-> 1]
    [] c.phase = "SECTION_UPDATE" ->
         IF c.scat # NoScatter THEN [pc |-> "draft", text |-> Blank, pidx |-> 1]
         ELSE [pc |-> "update", text |-> c.text, pidx |-> c.topo]
    [] c.phase = "UPDATING_PDFS" ->
         [pc |-> "update", text |-> c.text, pidx |-> c.pdf + Nodes + 1]
    [] c.phase = "BEFORE_ASSEMBLY" ->
         [pc |-> "assemble", text |-> c.text, pidx |-> Nodes + Pdfs + 100]

Jumps(c) == c.phase = "UPDATING_PDFS" /\ c.pdf <= Pdfs

Enter(r, c, origin) ==
  Goto(r, [run[r] EXCEPT !.pc = Entry(c).pc, !.text = Entry(c).text,
             !.pidx = Entry(c).pidx, !.origin = origin,
             !.cp = IF Jumps(c) THEN [c EXCEPT !.past = "jumped"] ELSE c])

Load(r) ==
  LET g == run[r].asked IN
  /\ run[r].pc = "load"
  /\ \/ Resumes(g) /\ Enter(r, ckpt, "resumed") /\ UNCHANGED ckpt
     \/ ~Resumes(g) /\ Enter(r, Initial(g), "new") /\ Save(Initial(g))
  /\ UNCHANGED <<status, doc, req, jobs, requests, crashes, lost, overlap, overtaken>>
-----------------------------------------------------------------------------
(* The phases.  A step is a call of the model and the save that follows.   *)

Progress(r, c, p) ==
  /\ Goto(r, [run[r] EXCEPT !.cp = c, !.pc = p])
  /\ Save(c)
  /\ UNCHANGED <<status, doc, req, jobs, requests, crashes, lost, overlap, overtaken>>

(* _annotate_nodes: files in batches, then folders, then PDFs.             *)
AnnotateFiles(r) ==
  LET c == run[r].cp IN
  /\ run[r].pc = "annotate" /\ c.ann < Files
  /\ Progress(r, [c EXCEPT !.phase = "ANNOTATING", !.ann = @ + 1], "annotate")

AnnotateFolders(r) ==
  LET c == run[r].cp IN
  /\ run[r].pc = "annotate" /\ c.ann >= Files
  /\ Progress(r, [c EXCEPT !.ann = IF @ = Files THEN Files + 1 ELSE @],
              IF Pdfs = 0 THEN "draft" ELSE "annotate_pdfs")

AnnotatePdfs(r) ==
  /\ run[r].pc = "annotate_pdfs"
  /\ Progress(r, [run[r].cp EXCEPT !.ann = Files + 2], "draft")

(* _initialize_sections drafts the sections that are edited sequentially,  *)
(* and starts the scatter of the others.                                   *)
Draft(r) ==
  /\ run[r].pc = "draft"
  /\ Goto(r, [run[r] EXCEPT !.pc = "scatter"])
  /\ UNCHANGED <<status, doc, ckpt, req, jobs, requests, crashes, lost, overlap,
                 overtaken>>

(* create_node_sections, for the sections concurrently: a batch is         *)
(* generated, and a thread is given the checkpoint to save.  When a        *)
(* section raises, the others go on although the task has ended.           *)
ScatterBatch(r, s) ==
  LET c == [run[r].cp EXCEPT !.scat[s] = @ + 1, !.phase = "SECTION_UPDATE"] IN
  /\ run[r].pc \in {"scatter", "raised"}
  /\ run[r].wait[s] = NoCkpt /\ run[r].cp.scat[s] < Batches
  /\ Goto(r, [run[r] EXCEPT !.cp = c, !.wait[s] = c])
  /\ UNCHANGED <<status, doc, ckpt, req, jobs, requests, crashes, lost, overlap,
                 overtaken>>

ScatterSave(r, s) ==
  /\ run[r].wait[s] # NoCkpt
  /\ Save(run[r].wait[s])
  /\ Goto(r, [run[r] EXCEPT !.wait[s] = NoCkpt])
  /\ UNCHANGED <<status, doc, req, jobs, requests, crashes, lost, overlap, overtaken>>

(* The sections are gathered; the sequential updates begin.                *)
Gather(r) ==
  LET c == [run[r].cp EXCEPT !.phase = "SECTION_UPDATE", !.text = Blank, !.topo = 1] IN
  /\ run[r].pc = "scatter"
  /\ \A s \in Scatter : run[r].cp.scat[s] = Batches /\ run[r].wait[s] = NoCkpt
  /\ Save(c)
  /\ Goto(r, [run[r] EXCEPT !.cp = c, !.pc = "update", !.text = Blank, !.pidx = 1])
  /\ UNCHANGED <<status, doc, req, jobs, requests, crashes, lost, overlap, overtaken>>

(* Mutant of Apply: the sections are saved as they were before the item.   *)
ApplyAfterSave(r, c, i, p) ==
  LET text == [run[r].text EXCEPT ![i] = @ + 1]
      d == [c EXCEPT !.text = run[r].text] IN
  /\ Save(d)
  /\ Goto(r, [run[r] EXCEPT !.cp = d, !.pc = p, !.text = text, !.pidx = @ + 1])
  /\ UNCHANGED <<status, doc, req, jobs, requests, crashes, lost, overlap, overtaken>>

(* Item i goes into the sections.                                          *)
Apply(r, c, i, p) ==
  LET text == [run[r].text EXCEPT ![i] = @ + 1]
      d == [c EXCEPT !.text = text] IN
  /\ Save(d)
  /\ Goto(r, [run[r] EXCEPT !.cp = d, !.pc = p, !.text = text, !.pidx = @ + 1])
  /\ UNCHANGED <<status, doc, req, jobs, requests, crashes, lost, overlap, overtaken>>

SkipFolder(r) ==
  /\ run[r].pc = "update" /\ run[r].pidx \in Folder
  /\ Goto(r, [run[r] EXCEPT !.pidx = @ + 1])
  /\ UNCHANGED <<status, doc, ckpt, req, jobs, requests, crashes, lost, overlap,
                 overtaken>>

UpdateSections(r) ==
  LET i == run[r].pidx IN
  /\ run[r].pc = "update" /\ i <= Nodes /\ i \notin Folder
  /\ Apply(r, [run[r].cp EXCEPT !.phase = "SECTION_UPDATE", !.topo = i + 1], i, "update")

(* pidx counts the PDF in before pidx - total is saved.                    *)
UpdateSectionsWithPdf(r) ==
  LET i == run[r].pidx IN
  /\ run[r].pc = "update" /\ i > Nodes /\ i <= Nodes + Pdfs
  /\ Apply(r, [run[r].cp EXCEPT !.phase = "UPDATING_PDFS", !.topo = Nodes,
                                !.pdf = i + 1 - Nodes], i, "update")

FinalSectionFormat(r) ==
  /\ run[r].pc = "update" /\ run[r].pidx > Nodes + Pdfs
  /\ Apply(r, [run[r].cp EXCEPT !.phase = "BEFORE_ASSEMBLY"], Nodes + Pdfs + 1,
           "assemble")
-----------------------------------------------------------------------------
(* The end of the task.                                                    *)

Ends == overtaken' = (overtaken \/ \E q \in Requester : req[q].pc = "commit")

(* The document is assembled and copy edited; the page and its status are  *)
(* written in one transaction.                                             *)
Assemble(r) ==
  LET x == run[r] IN
  /\ x.pc = "assemble"
  /\ doc' = [asked |-> x.asked, goal |-> x.cp.goal, text |-> x.text,
             past |-> x.cp.past, origin |-> x.origin]
  /\ status' = "GENERATION_COMPLETE"
  /\ Goto(r, [x EXCEPT !.pc = "delete"])
  /\ Ends
  /\ UNCHANGED <<ckpt, req, jobs, requests, crashes, lost, overlap>>

DeleteCheckpoint(r) ==
  /\ run[r].pc = "delete"
  /\ \/ ckpt' = NoCkpt
     \/ "delete" \in Faults /\ UNCHANGED ckpt
  /\ Goto(r, Idle(SomeGoal))
  /\ UNCHANGED <<status, doc, req, jobs, requests, crashes, lost, overlap, overtaken>>

(* Mutant of Raise: the exception sets no status.                          *)
RaiseSilently(r) ==
  /\ "raise" \in Faults /\ r \in Writing
  /\ Goto(r, Idle(SomeGoal))
  /\ Ends
  /\ UNCHANGED <<status, doc, ckpt, req, jobs, requests, crashes, lost, overlap>>

(* A step raises: the page is in error and the task is not run again.      *)
Raise(r) ==
  /\ "raise" \in Faults /\ r \in Writing
  /\ status' = "GENERATION_ERROR"
  /\ Goto(r, IF run[r].pc = "scatter" THEN [run[r] EXCEPT !.pc = "raised"]
             ELSE Idle(SomeGoal))
  /\ Ends
  /\ UNCHANGED <<doc, ckpt, req, jobs, requests, crashes, lost, overlap>>

(* Nothing is left of a task that raised.                                  *)
Fade(r) ==
  /\ run[r].pc = "raised" /\ \A s \in Scatter : run[r].wait[s] = NoCkpt
  /\ Goto(r, Idle(SomeGoal))
  /\ UNCHANGED <<status, doc, ckpt, req, jobs, requests, crashes, lost, overlap,
                 overtaken>>

(* The worker dies, and Hatchet may give the task to another one; or the   *)
(* task is cancelled, which no handler notices.                            *)
Crash(r) ==
  /\ "crash" \in Faults /\ run[r].pc # "idle" /\ crashes < MaxCrashes
  /\ crashes' = crashes + 1
  /\ Goto(r, Idle(SomeGoal))
  /\ \/ /\ r \in Writing
        /\ jobs' = [jobs EXCEPT ![run[r].asked] = @ + 1] /\ UNCHANGED lost
     \/ UNCHANGED jobs /\ lost' = (lost \/ r \in Writing)
  /\ UNCHANGED <<status, doc, ckpt, req, requests, overlap, overtaken>>
-----------------------------------------------------------------------------
Handle(q) == RequestSpawn(q) \/ RequestCommit(q)

Work(r) ==
  \/ Load(r) \/ AnnotateFiles(r) \/ AnnotateFolders(r) \/ AnnotatePdfs(r) \/ Draft(r)
  \/ \E s \in Scatter : ScatterBatch(r, s) \/ ScatterSave(r, s)
  \/ Gather(r) \/ SkipFolder(r) \/ UpdateSections(r) \/ UpdateSectionsWithPdf(r)
  \/ FinalSectionFormat(r) \/ Assemble(r) \/ DeleteCheckpoint(r)

Next ==
  \/ \E q \in Requester : Handle(q) \/ \E g \in Goal : RequestCheck(q, g)
  \/ \E r \in Run : Work(r) \/ Raise(r) \/ Fade(r) \/ Crash(r)
                    \/ \E g \in Goal : Take(r, g)

Spec == Init /\ [][Next]_vars
-----------------------------------------------------------------------------
(* Type invariant: of the page, its checkpoint, the requests and the tasks.*)
RunState == [pc : {"idle", "load", "annotate", "annotate_pdfs", "draft", "scatter",
                   "raised", "update", "assemble", "delete"},
             asked : Goal, cp : Checkpoint, text : Text, pidx : Nat,
             origin : {"new", "resumed"},
             wait : [Scatter -> Checkpoint \cup {NoCkpt}]]

TypeOK ==
  /\ status \in {"CONNECTED", "GENERATING", "GENERATION_COMPLETE", "GENERATION_ERROR"}
  /\ doc \in [asked : Goal, goal : Goal, text : Text, past : {"straight", "jumped"},
              origin : {"new", "resumed"}] \cup {NoDoc}
  /\ ckpt \in Checkpoint \cup {NoCkpt}
  /\ req \in [Requester -> [pc : {"idle", "spawn", "commit"}, goal : Goal]]
  /\ jobs \in [Goal -> Nat]
  /\ run \in [Run -> RunState]
  /\ requests \in Nat /\ crashes \in Nat
  /\ lost \in BOOLEAN /\ overlap \in BOOLEAN /\ overtaken \in BOOLEAN

(* The page is made from every node and every PDF once and formatted once, *)
(* wherever the runs before it died, whatever saves were lost or came out  *)
(* of order and whoever shared the checkpoint, unless a run of it resumed  *)
(* between two PDFs (generate).                                            *)
DocExact == doc # NoDoc /\ doc.past = "straight" => doc.text = Complete

(* It is so for every page, as the comment at the resumption says: "To     *)
(* start at current_pdf_index, we need: pidx - total - 1 =                 *)
(* current_pdf_index".                                                     *)
DocAlwaysExact == doc # NoDoc => doc.text = Complete

(* A page that was asked for with a TOML file is made with that file,      *)
(* whatever checkpoint another request left behind or saves meanwhile; one *)
(* that was asked for with a goal can be made for another goal, but only   *)
(* if it was resumed.                                                      *)
GoalKept ==
  doc # NoDoc /\ doc.goal # doc.asked => doc.asked \notin Custom /\ doc.origin = "resumed"

(* A page is generated by one task at a time ("Autodoc is already          *)
(* generating for this page"), unless two requests checked its status      *)
(* together, one failed to record it or a task was faster than its request.*)
Queued == {g \in Goal : jobs[g] > 0}
OneAtATime ==
  \/ overlap \/ overtaken
  \/ /\ \A r1, r2 \in Writing : r1 = r2
     /\ \A g, h \in Queued : g = h /\ jobs[g] = 1
     /\ Writing = {} \/ Queued = {}

(* A page that is shown as generating, so that no one can ask for it again,*)
(* has a task that will change that, queued or at work: unless one was     *)
(* lost, or was faster than its request's commit.                          *)
PageOwned ==
  status = "GENERATING" => Queued # {} \/ Writing # {} \/ lost \/ overtaken
==============================================================================
