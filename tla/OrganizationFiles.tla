-------------------------- MODULE OrganizationFiles ---------------------------
(***************************************************************************)
(* The two files of an organization's analytics, codebases_list.json and   *)
(* org_summary.json.  Every pipeline of a codebase of the organization     *)
(* ends by changing them (_phase_update_org_files of                       *)
(* analytics/pipeline/orchestrator.py), and so does the deletion of a      *)
(* codebase (shared/analytics_cleanup.py), from a webhook task or from the *)
(* backend.  Each reads a file, changes what it has read and writes it     *)
(* back; there is no lock, and errors are logged and passed over.          *)
(*                                                                         *)
(* The entry of a codebase is the number of the pipeline run that made it, *)
(* and the summary is the list it was computed from.                       *)
(***************************************************************************)
EXTENDS Naturals

CONSTANTS Codebase,  (* the codebases of the organization                  *)
          Worker,    (* the pipelines and deletions that can be active     *)
          Faults,    (* the kinds of fault this instance has               *)
          MaxRuns    (* bound: pipeline runs                               *)

FaultKind == {"read",   (* an S3 read raises                               *)
              "write",  (* an S3 write raises                              *)
              "crash"}  (* the task raises elsewhere, or its worker dies   *)

ASSUME FilesAssumption == Faults \subseteq FaultKind /\ MaxRuns \in Nat

NoEntry == 0
Empty == [c \in Codebase |-> NoEntry]
List == [Codebase -> 0 .. MaxRuns]

VARIABLES
  alive,      (* the codebases that are in the database                    *)
  folder,     (* folder[c]: the run whose files are in analytics/c         *)
  list,       (* codebases_list.json; no file is the same as no entry      *)
  summary,    (* org_summary.json                                          *)
  task,       (* task[w]: the pipeline or the deletion that w runs         *)
  disturbed,  (* history: the tasks that met another one at the files or   *)
              (* at the same codebase                                      *)
  last,       (* history: last[c]: the last update of the entry of c       *)
  dirty,      (* history: the codebases whose last update was disturbed or *)
              (* failed                                                    *)
  stale,      (* history: the last update of the summary was               *)
  runs        (* pipeline runs                                             *)

vars == <<alive, folder, list, summary, task, disturbed, last, dirty, stale, runs>>
-----------------------------------------------------------------------------
(* State.                                                                  *)

Idle == [pc |-> "idle", kind |-> "pipeline", c |-> NoEntry, run |-> NoEntry,
         data |-> Empty]

Init ==
  /\ alive = Codebase
  /\ folder = Empty /\ list = Empty /\ summary = Empty
  /\ task = [w \in Worker |-> Idle]
  /\ disturbed = {} /\ last = Empty /\ dirty = {} /\ stale = FALSE /\ runs = 0

At(w, p) == task[w].pc = p
Deletes(w) == task[w].kind = "delete"
Section == {w \in Worker : task[w].pc \in {"write", "sum", "write_sum"}}
Active(c) == {w \in Worker : task[w].pc # "idle" /\ task[w].c = c}

Step(w, r) == task' = [task EXCEPT ![w] = r]
To(w, p) == Step(w, [task[w] EXCEPT !.pc = p])
End(w) == Step(w, Idle) /\ disturbed' = disturbed \ {w}

(* w comes to where the tasks W are at work.                               *)
Meets(w, W) ==
  disturbed' = IF W = {} THEN disturbed ELSE disturbed \cup W \cup {w}

(* The entry of c was updated by w, or should have been.                   *)
Updated(w, c) == dirty' = IF w \in disturbed THEN dirty \cup {c} ELSE dirty \ {c}
-----------------------------------------------------------------------------
(* Mutant of StartPipeline: no check that the codebase exists.             *)
StartPipelineOfAny(w, c) ==
  /\ At(w, "idle") /\ runs < MaxRuns
  /\ runs' = runs + 1
  /\ Step(w, [Idle EXCEPT !.pc = "upload", !.c = c, !.run = runs + 1])
  /\ Meets(w, Active(c))
  /\ UNCHANGED <<alive, folder, list, summary, last, dirty, stale>>

(* A pipeline run of c, from its clone to the upload of its files.         *)
StartPipeline(w, c) ==
  /\ At(w, "idle") /\ c \in alive /\ runs < MaxRuns
  /\ runs' = runs + 1
  /\ Step(w, [Idle EXCEPT !.pc = "upload", !.c = c, !.run = runs + 1])
  /\ Meets(w, Active(c))
  /\ UNCHANGED <<alive, folder, list, summary, last, dirty, stale>>

(* Mutant of UploadFiles: a failed upload is passed over.                  *)
UploadFilesOrNot(w) ==
  /\ At(w, "upload")
  /\ folder' \in {folder, [folder EXCEPT ![task[w].c] = task[w].run]}
  /\ To(w, "read")
  /\ UNCHANGED <<alive, list, summary, disturbed, last, dirty, stale, runs>>

UploadFiles(w) ==
  /\ At(w, "upload")
  /\ folder' = [folder EXCEPT ![task[w].c] = task[w].run]
  /\ To(w, "read")
  /\ UNCHANGED <<alive, list, summary, disturbed, last, dirty, stale, runs>>

(* A deletion of c begins with the files of c.  Its failure is a warning.  *)
StartDelete(w, c) ==
  /\ At(w, "idle") /\ c \in alive
  /\ \A u \in Active(c) : ~Deletes(u)
  /\ \/ folder' = [folder EXCEPT ![c] = NoEntry]
     \/ "write" \in Faults /\ UNCHANGED folder
  /\ Step(w, [Idle EXCEPT !.pc = "read", !.kind = "delete", !.c = c])
  /\ Meets(w, Active(c))
  /\ UNCHANGED <<alive, list, summary, last, dirty, stale, runs>>

(* _update_codebases_list reads the list; it takes any error for a list    *)
(* that does not exist yet.                                                *)
ReadList(w) ==
  /\ At(w, "read") /\ ~Deletes(w)
  /\ Meets(w, Section)
  /\ \/ /\ Step(w, [task[w] EXCEPT !.pc = "write", !.data = list])
        /\ UNCHANGED dirty
     \/ /\ "read" \in Faults
        /\ Step(w, [task[w] EXCEPT !.pc = "write", !.data = Empty])
        /\ dirty' = Codebase
  /\ UNCHANGED <<alive, folder, list, summary, last, stale, runs>>

(* update_org_files_after_deletion reads it, and returns when it cannot or *)
(* the codebase is not in it.                                              *)
ReadListDelete(w) ==
  LET c == task[w].c IN
  /\ At(w, "read") /\ Deletes(w)
  /\ \/ /\ list[c] # NoEntry /\ Meets(w, Section)
        /\ Step(w, [task[w] EXCEPT !.pc = "write", !.data = list])
        /\ UNCHANGED <<last, dirty>>
     \/ /\ list[c] = NoEntry /\ To(w, "rows")
        /\ last' = [last EXCEPT ![c] = NoEntry]
        /\ dirty' = IF w \in disturbed \/ Section # {} THEN dirty \cup {c}
                    ELSE dirty \ {c}
        /\ UNCHANGED disturbed
     \/ /\ "read" \in Faults /\ To(w, "rows")
        /\ dirty' = dirty \cup {c}
        /\ UNCHANGED <<disturbed, last>>
  /\ UNCHANGED <<alive, folder, list, summary, stale, runs>>

(* Mutant of Entered: the entries that were read are dropped.              *)
EnteredAlone(w) == [Empty EXCEPT ![task[w].c] = task[w].run]

(* What was read, with the entry of the codebase set or taken out.         *)
Entered(w) == [task[w].data EXCEPT ![task[w].c] = task[w].run]

(* The list is written.  A deletion computes the summary from it, and ends *)
(* when the write fails.                                                   *)
WriteList(w) ==
  LET c == task[w].c IN
  /\ At(w, "write")
  /\ \/ /\ list' = Entered(w)
        /\ last' = [last EXCEPT ![c] = task[w].run]
        /\ Updated(w, c)
        /\ Step(w, IF Deletes(w)
                   THEN [task[w] EXCEPT !.pc = "write_sum", !.data = Entered(w)]
                   ELSE [task[w] EXCEPT !.pc = "sum", !.data = Empty])
     \/ /\ "write" \in Faults
        /\ dirty' = dirty \cup {c}
        /\ To(w, IF Deletes(w) THEN "rows" ELSE "sum")
        /\ UNCHANGED <<list, last>>
  /\ stale' = TRUE
  /\ UNCHANGED <<alive, folder, summary, disturbed, runs>>

(* Mutant of ReadForSummary: the list is not read again.                   *)
ReadForSummaryNothing(w) ==
  /\ At(w, "sum") /\ To(w, "write_sum")
  /\ UNCHANGED <<alive, folder, list, summary, disturbed, last, dirty, stale, runs>>

(* _update_org_summary reads the list again, and returns when it cannot.   *)
ReadForSummary(w) ==
  /\ At(w, "sum")
  /\ \/ /\ Step(w, [task[w] EXCEPT !.pc = "write_sum", !.data = list])
        /\ UNCHANGED disturbed
     \/ "read" \in Faults /\ End(w)
  /\ UNCHANGED <<alive, folder, list, summary, last, dirty, stale, runs>>

WriteSummary(w) ==
  /\ At(w, "write_sum")
  /\ \/ summary' = task[w].data /\ stale' = (w \in disturbed)
     \/ "write" \in Faults /\ stale' = TRUE /\ UNCHANGED summary
  /\ IF Deletes(w) THEN To(w, "rows") /\ UNCHANGED disturbed ELSE End(w)
  /\ UNCHANGED <<alive, folder, list, last, dirty, runs>>

(* Mutant of DeleteRows: the task keeps its state.                         *)
DeleteRowsKeeping(w) ==
  /\ At(w, "rows")
  /\ alive' = alive \ {task[w].c}
  /\ To(w, "idle")
  /\ UNCHANGED <<folder, list, summary, disturbed, last, dirty, stale, runs>>

(* The deletion ends with the rows of the database.                        *)
DeleteRows(w) ==
  /\ At(w, "rows")
  /\ alive' = alive \ {task[w].c}
  /\ End(w)
  /\ UNCHANGED <<folder, list, summary, last, dirty, stale, runs>>

(* A task dies; a deletion may already have deleted the files.             *)
Crash(w) ==
  /\ "crash" \in Faults /\ ~At(w, "idle")
  /\ End(w)
  /\ dirty' = IF Deletes(w) THEN dirty \cup {task[w].c} ELSE dirty
  /\ UNCHANGED <<alive, folder, list, summary, last, stale, runs>>
-----------------------------------------------------------------------------
Next ==
  \E w \in Worker :
    \/ \E c \in Codebase : StartPipeline(w, c) \/ StartDelete(w, c)
    \/ UploadFiles(w) \/ ReadList(w) \/ ReadListDelete(w) \/ WriteList(w)
    \/ ReadForSummary(w) \/ WriteSummary(w) \/ DeleteRows(w) \/ Crash(w)

Spec == Init /\ [][Next]_vars
-----------------------------------------------------------------------------
TaskState == [pc : {"idle", "upload", "read", "write", "sum", "write_sum", "rows"},
              kind : {"pipeline", "delete"}, c : Codebase \cup {NoEntry},
              run : 0 .. MaxRuns, data : List]

(* Type invariant: the files, the tasks and the histories.                 *)
TypeOK ==
  /\ alive \subseteq Codebase
  /\ folder \in List /\ list \in List /\ summary \in List /\ last \in List
  /\ task \in [Worker -> TaskState]
  /\ \A w \in Worker : At(w, "idle") => task[w] = Idle
  /\ disturbed \subseteq {w \in Worker : ~At(w, "idle")}
  /\ dirty \subseteq Codebase /\ stale \in BOOLEAN /\ runs \in 0 .. MaxRuns

(* The list has of every codebase what its last update put there or took   *)
(* out, except of those whose update met another task at the files, met    *)
(* another task of the same codebase, or failed, and of the others when a  *)
(* pipeline could not read the list.  A codebase is such an exception      *)
(* until its next undisturbed pipeline run, which a deleted one never has. *)
ListExact == \A c \in Codebase \ dirty : list[c] = last[c]

(* The summary was computed from the list as it is, unless a task is       *)
(* between the two files or the last one there was disturbed or failed.    *)
SummaryExact == ~stale => summary = list

(* An entry of the list leads to files (get them is what a reader of the   *)
(* list does next), but for a deletion in progress and those exceptions.   *)
EntryHasFiles ==
  \A c \in Codebase \ dirty :
    list[c] # NoEntry /\ Active(c) = {} => folder[c] # NoEntry

(* A deleted codebase is not in the list, but for those exceptions: a      *)
(* pipeline that is still running never brings it back unnoticed.          *)
DeletedNotListed == \A c \in Codebase \ (alive \cup dirty) : list[c] = NoEntry
==============================================================================
