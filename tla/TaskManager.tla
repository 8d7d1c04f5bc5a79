----------------------------- MODULE TaskManager -----------------------------
(***************************************************************************)
(* One TaskManager.run_tasks call of the inspector, with the attempts that *)
(* resume it (packages/shared/shared/inspector/utils/task.py).             *)
(*                                                                         *)
(* run_tasks loads the results an earlier attempt left in the database,    *)
(* starts a writer coroutine that drains write_queue, and gathers one      *)
(* asyncio task per listed task.  Every task first gathers the tasks it    *)
(* depends on, is skipped when a loaded result exists, and otherwise runs, *)
(* records its result, performs post_run_io and enqueues the result.       *)
(* asyncio is single threaded, so an action is what one coroutine does     *)
(* between two awaits.  gather is called without return_exceptions: the    *)
(* first failure reaches run_tasks while the other asyncio tasks go on.    *)
(***************************************************************************)
EXTENDS Naturals, Sequences, FiniteSets

CONSTANTS Task,        (* every task of the dependency graph               *)
          Listed,      (* TaskManager.tasks                                *)
          Deps,        (* Deps[t]: Task.dependencies of t                  *)
          Units,       (* Units[t]: Task.work_units of t                   *)
          Stop,        (* the None that closes write_queue                 *)
          MaxAttempts  (* bound: run_tasks calls, the first and resumed    *)

ASSUME GraphAssumption ==
  /\ Listed \subseteq Task
  /\ Deps \in [Task -> SUBSET Task]
  /\ Units \in [Task -> Nat \ {0}]
  /\ Stop \notin Task
  /\ MaxAttempts \in Nat \ {0}

(* stable_id recurses through the dependencies: a cycle cannot be hashed.  *)
ASSUME AcyclicAssumption ==
  IsFiniteSet(Task) /\
  \E rank \in [Task -> 0 .. Cardinality(Task)] :
    \A t \in Task : \A d \in Deps[t] : rank[d] < rank[t]

VARIABLES
  phase,      (* of run_tasks; the closing phases await the writer         *)
  st,         (* st[t]: how far the coroutine _run_task(t) got             *)
  results,    (* keys of task_results                                      *)
  queue,      (* write_queue                                               *)
  writer,     (* the coroutine _write_task_results                         *)
  saved,      (* tasks save_task_result was called for                     *)
  completed,  (* progress_state.completed_work_units                       *)
  durable,    (* tasks whose load_result finds rows in the database        *)
  orphans,    (* coroutines an abandoned attempt left alive: its number,   *)
              (* the task, and whether post_run_io has begun               *)
  lost,       (* tasks whose rows an orphan deleted and did not rewrite    *)
  attempt     (* number of the current attempt                             *)

memory == <<phase, st, results, queue, writer, saved, completed>>
vars == <<memory, durable, orphans, lost, attempt>>

-----------------------------------------------------------------------------
(* State.                                                                  *)

Phase == {"idle", "running", "closing_ok", "closing_err", "returned", "raised"}
Stage == {"unscheduled", "created", "waiting", "running", "postio", "done",
          "failed"}
WriterState == {"none", "open", "closed", "failed"}

Done == {t \in Task : st[t] = "done"}
Live == {t \in Task : st[t] \in {"created", "waiting", "running", "postio"}}
Queued == {queue[i] : i \in DOMAIN queue}

(* A fresh TaskManager, before run_tasks is called.                        *)
Fresh ==
  /\ phase = "idle"
  /\ st = [t \in Task |-> "unscheduled"]
  /\ results = {}
  /\ queue = <<>>
  /\ writer = "none"
  /\ saved = {}
  /\ completed = 0

Init ==
  /\ Fresh
  /\ durable = {}
  /\ orphans = {}
  /\ lost = {}
  /\ attempt = 1
-----------------------------------------------------------------------------
(* run_tasks and the asyncio tasks it gathers.                             *)

(* load_persisted_results keeps what load_result finds; a load that raises *)
(* is printed and dropped, so any part of the rows may be loaded.  Then    *)
(* the writer is created and gather schedules every listed task.           *)
Start ==
  /\ phase = "idle"
  /\ results' \in SUBSET (durable \cap Listed)
  /\ st' = [t \in Task |-> IF t \in Listed THEN "created" ELSE "unscheduled"]
  /\ phase' = "running"
  /\ writer' = "open"
  /\ completed' = 0
  /\ UNCHANGED <<queue, saved, durable, orphans, lost, attempt>>

(* Mutant of Await: a dependency is scheduled again when it is already.    *)
AwaitUnmemoised(t) ==
  /\ st[t] = "created"
  /\ st' = [u \in Task |->
              IF u = t THEN "waiting" ELSE IF u \in Deps[t] THEN "created" ELSE st[u]]
  /\ UNCHANGED <<phase, results, queue, writer, saved, completed, durable,
                 orphans, lost, attempt>>

(* Mutant of Await: only the listed ones of the dependencies are scheduled.*)
AwaitListed(t) ==
  /\ st[t] = "created"
  /\ st' = [u \in Task |->
              IF u = t THEN "waiting"
              ELSE IF u \in Deps[t] \cap Listed /\ st[u] = "unscheduled" THEN "created"
              ELSE st[u]]
  /\ UNCHANGED <<phase, results, queue, writer, saved, completed, durable,
                 orphans, lost, attempt>>

(* The first step of _run_task(t): schedule the dependencies that          *)
(* task_to_asynctask does not hold yet, and await all of them.             *)
Await(t) ==
  /\ st[t] = "created"
  /\ st' = [u \in Task |->
              IF u = t THEN "waiting"
              ELSE IF u \in Deps[t] /\ st[u] = "unscheduled" THEN "created"
              ELSE st[u]]
  /\ UNCHANGED <<phase, results, queue, writer, saved, completed, durable,
                 orphans, lost, attempt>>

(* Mutant of Finish: progress counts down what is left, from no total.     *)
FinishCountingDown(t) ==
  /\ st' = [st EXCEPT ![t] = "done"]
  /\ queue' = Append(queue, t)
  /\ completed' = completed - Units[t]

(* The end of _run_task: queue the result for the writer and count it.     *)
Finish(t) ==
  /\ st' = [st EXCEPT ![t] = "done"]
  /\ queue' = Append(queue, t)
  /\ completed' = completed + Units[t]

(* Mutant of Ready: gather(return_exceptions=True) of the dependencies.    *)
ReadyDespiteFailure(t) ==
  st[t] = "waiting" /\ \A d \in Deps[t] : st[d] \in {"done", "failed"}

Ready(t) == st[t] = "waiting" /\ \A d \in Deps[t] : st[d] = "done"

(* Mutant of Skip: _run_task returns the loaded result uncounted.          *)
SkipUncounted(t) ==
  /\ Ready(t)
  /\ t \in results
  /\ st' = [st EXCEPT ![t] = "done"]
  /\ queue' = Append(queue, t)
  /\ UNCHANGED <<phase, results, writer, saved, completed, durable, orphans,
                 lost, attempt>>

(* _can_skip_task: a loaded result stands for the run.                     *)
Skip(t) ==
  /\ Ready(t)
  /\ t \in results
  /\ Finish(t)
  /\ UNCHANGED <<phase, results, writer, saved, durable, orphans, lost, attempt>>

Begin(t) ==
  /\ Ready(t)
  /\ t \notin results
  /\ st' = [st EXCEPT ![t] = "running"]
  /\ UNCHANGED <<phase, results, queue, writer, saved, completed, durable,
                 orphans, lost, attempt>>

(* task.run returned.  post_run_io of the folder, top-level and tagging    *)
(* tasks deletes the task's rows in a transaction of its own before it     *)
(* adds the new ones; that of a file task replaces them in one.            *)
RunOk(t) ==
  /\ st[t] = "running"
  /\ results' = results \union {t}
  /\ st' = [st EXCEPT ![t] = "postio"]
  /\ durable' \in {durable, durable \ {t}}
  /\ UNCHANGED <<phase, queue, writer, saved, completed, orphans, lost, attempt>>

PostOk(t) ==
  /\ st[t] = "postio"
  /\ durable' = durable \union {t}
  /\ lost' = lost \ {t}
  /\ Finish(t)
  /\ UNCHANGED <<phase, results, writer, saved, orphans, attempt>>

(* task.run or post_run_io raised.                                         *)
TaskFail(t) ==
  /\ st[t] \in {"running", "postio"}
  /\ st' = [st EXCEPT ![t] = "failed"]
  /\ UNCHANGED <<phase, results, queue, writer, saved, completed, durable,
                 orphans, lost, attempt>>

(* Mutant of PropagateFail: any failure cancels what still waits.          *)
PropagateAnyFail(t) ==
  /\ st[t] = "waiting"
  /\ \E d \in Task : st[d] = "failed"
  /\ st' = [st EXCEPT ![t] = "failed"]
  /\ UNCHANGED <<phase, results, queue, writer, saved, completed, durable,
                 orphans, lost, attempt>>

(* gather hands the first failure of a dependency to the coroutine that    *)
(* awaits it.                                                              *)
PropagateFail(t) ==
  /\ st[t] = "waiting"
  /\ \E d \in Deps[t] : st[d] = "failed"
  /\ st' = [st EXCEPT ![t] = "failed"]
  /\ UNCHANGED <<phase, results, queue, writer, saved, completed, durable,
                 orphans, lost, attempt>>

(* Mutant of GatherOk: run_tasks gathers with return_exceptions=True.      *)
GatherOkDespiteFailure ==
  /\ phase = "running"
  /\ \A t \in Listed : st[t] \in {"done", "failed"}
  /\ phase' = "closing_ok"
  /\ queue' = Append(queue, Stop)
  /\ UNCHANGED <<st, results, writer, saved, completed, durable, orphans, lost,
                 attempt>>

(* The gather of run_tasks ends, with or without an exception; the finally *)
(* clause puts the None.                                                   *)
GatherOk ==
  /\ phase = "running"
  /\ Listed \subseteq Done
  /\ phase' = "closing_ok"
  /\ queue' = Append(queue, Stop)
  /\ UNCHANGED <<st, results, writer, saved, completed, durable, orphans, lost,
                 attempt>>

(* Mutant of GatherFail: the None is put only on success, not in finally.  *)
GatherFailSilently ==
  /\ phase = "running"
  /\ \E t \in Listed : st[t] = "failed"
  /\ phase' = "closing_err"
  /\ UNCHANGED <<st, results, queue, writer, saved, completed, durable, orphans,
                 lost, attempt>>

GatherFail ==
  /\ phase = "running"
  /\ \E t \in Listed : st[t] = "failed"
  /\ phase' = "closing_err"
  /\ queue' = Append(queue, Stop)
  /\ UNCHANGED <<st, results, writer, saved, completed, durable, orphans, lost,
                 attempt>>

(* await writer_task: an exception of the writer is raised here too.       *)
Return ==
  /\ phase = "closing_ok"
  /\ writer = "closed"
  /\ phase' = "returned"
  /\ UNCHANGED <<st, results, queue, writer, saved, completed, durable, orphans,
                 lost, attempt>>

Raise ==
  /\ \/ phase = "closing_ok" /\ writer = "failed"
     \/ phase = "closing_err" /\ writer \in {"closed", "failed"}
  /\ phase' = "raised"
  /\ UNCHANGED <<st, results, queue, writer, saved, completed, durable, orphans,
                 lost, attempt>>

-----------------------------------------------------------------------------
(* The coroutine _write_task_results.                                      *)

WriterSave ==
  /\ writer = "open" /\ queue # <<>>
  /\ Head(queue) # Stop
  /\ saved' = saved \union {Head(queue)}
  /\ queue' = Tail(queue)
  /\ UNCHANGED <<phase, st, results, writer, completed, durable, orphans, lost,
                 attempt>>

WriterStop ==
  /\ writer = "open" /\ queue # <<>>
  /\ Head(queue) = Stop
  /\ queue' = Tail(queue)
  /\ writer' = "closed"
  /\ UNCHANGED <<phase, st, results, saved, completed, durable, orphans, lost,
                 attempt>>

(* save_task_result raised: the item is gone and the coroutine is over.    *)
WriterFail ==
  /\ writer = "open" /\ queue # <<>>
  /\ Head(queue) # Stop
  /\ queue' = Tail(queue)
  /\ writer' = "failed"
  /\ UNCHANGED <<phase, st, results, saved, completed, durable, orphans, lost,
                 attempt>>

-----------------------------------------------------------------------------
(* The attempts after the first one.                                       *)

FreshAgain ==
  /\ phase' = "idle"
  /\ st' = [t \in Task |-> "unscheduled"]
  /\ results' = {}
  /\ queue' = <<>>
  /\ writer' = "none"
  /\ saved' = {}
  /\ completed' = 0

(* The process dies; only the rows survive.                                *)
Crash ==
  /\ phase \notin {"idle", "returned"}
  /\ attempt < MaxAttempts
  /\ attempt' = attempt + 1
  /\ FreshAgain
  /\ orphans' = {}
  /\ UNCHANGED <<durable, lost>>

(* The run is resumed in the process in which run_tasks raised: nothing    *)
(* cancelled the coroutines that were still alive then.                    *)
Resume ==
  /\ phase = "raised"
  /\ attempt < MaxAttempts
  /\ attempt' = attempt + 1
  /\ FreshAgain
  /\ orphans' = orphans \union
       {<<attempt, t, IF st[t] = "postio" THEN "postio" ELSE "running">> : t \in Live}
  /\ UNCHANGED <<durable, lost>>

(* An orphan reaches post_run_io, which may first delete the rows.         *)
OrphanDelete(o) ==
  /\ o[3] = "running"
  /\ orphans' = (orphans \ {o}) \union {<<o[1], o[2], "postio">>}
  /\ \/ UNCHANGED <<durable, lost>>
     \/ durable' = durable \ {o[2]} /\ lost' = lost \union {o[2]}
  /\ UNCHANGED <<memory, attempt>>

OrphanWrite(o) ==
  /\ o[3] = "postio"
  /\ orphans' = orphans \ {o}
  /\ durable' = durable \union {o[2]}
  /\ lost' = lost \ {o[2]}
  /\ UNCHANGED <<memory, attempt>>

(* It raised, or a dependency it awaited did.                              *)
OrphanEnd(o) ==
  /\ orphans' = orphans \ {o}
  /\ UNCHANGED <<memory, durable, lost, attempt>>

-----------------------------------------------------------------------------
TaskStep(t) ==
  \/ Await(t) \/ Skip(t) \/ Begin(t) \/ RunOk(t) \/ PostOk(t)
  \/ TaskFail(t) \/ PropagateFail(t)

RunStep == Start \/ GatherOk \/ GatherFail \/ Return \/ Raise

WriterStep == WriterSave \/ WriterStop \/ WriterFail

OrphanStep(o) == OrphanDelete(o) \/ OrphanWrite(o) \/ OrphanEnd(o)

Next ==
  \/ \E t \in Task : TaskStep(t)
  \/ RunStep
  \/ WriterStep
  \/ Crash
  \/ Resume
  \/ \E o \in orphans : OrphanStep(o)

(* The event loop runs every coroutine that is ready, a task's own work    *)
(* ends or raises (the model calls have timeouts).  Nobody has to call,    *)
(* crash or resume a run.                                                  *)
Fairness ==
  /\ \A t \in Task : WF_vars(TaskStep(t))
  /\ WF_vars(GatherOk \/ GatherFail \/ Return \/ Raise)
  /\ WF_vars(WriterStep)

Spec == Init /\ [][Next]_vars
FairSpec == Spec /\ Fairness

-----------------------------------------------------------------------------
(* Properties.                                                             *)

(* Types of the state of a run.                                            *)
TypeOK ==
  /\ phase \in Phase
  /\ st \in [Task -> Stage]
  /\ results \subseteq Task
  /\ queue \in Seq(Task \union {Stop})
  /\ writer \in WriterState
  /\ saved \subseteq Task
  /\ completed \in Nat
  /\ durable \subseteq Task
  /\ orphans \subseteq Nat \X Task \X {"running", "postio"}
  /\ lost \subseteq Task
  /\ attempt \in Nat

(* While a task works or has worked, task_results holds the result of      *)
(* every dependency, so the dict of dependent_results in _run_task never   *)
(* misses a key: whatever was loaded, skipped, failed or shared.           *)
InputsPresent ==
  \A t \in Task :
    st[t] \in {"running", "postio", "done"} =>
      \A d \in Deps[t] : st[d] = "done" /\ d \in results

(* Every completed task reaches the writer exactly once, whoever else      *)
(* awaits it and however the run ends: it is saved or queued, once, unless *)
(* the writer died.                                                        *)
HandedOverOnce ==
  /\ saved \union (Queued \ {Stop}) \subseteq Done
  /\ \A i, j \in DOMAIN queue : i # j => queue[i] # queue[j]
  /\ saved \cap Queued = {}
  /\ writer # "failed" => Done = saved \union (Queued \ {Stop})

(* A run that returns has every listed task completed, its result handed   *)
(* to the persistence before the None, and its rows in the database,       *)
(* unless a coroutine of an abandoned attempt has deleted them since.      *)
ReturnedComplete ==
  phase = "returned" =>
    /\ Listed \subseteq Done
    /\ Listed \subseteq saved
    /\ Listed \subseteq durable \union lost

(* The work units of the tasks S, each a pair of its own.                  *)
WorkUnits(S) == UNION {{t} \X (1 .. Units[t]) : t \in S}

(* The work counted as complete is that of the completed tasks, each once: *)
(* a task awaited by several others, skipped or resumed counts once.       *)
ProgressExact == completed = Cardinality(WorkUnits(Done))

(* A coroutine that the event loop can run.                                *)
CanRun(t) ==
  \/ st[t] \in {"created", "running", "postio"} \/ Ready(t)
  \/ st[t] = "waiting" /\ \E d \in Deps[t] : st[d] = "failed"

(* Never do all wait for one another: until the gather of run_tasks can    *)
(* end, some coroutine can run; and the writer that run_tasks awaits then  *)
(* has something to take from its queue, if only the None.                 *)
NeverStuck ==
  /\ phase = "running" =>
       \/ \E t \in Task : CanRun(t)
       \/ Listed \subseteq Done
       \/ \E t \in Listed : st[t] = "failed"
  /\ phase \in {"closing_ok", "closing_err"} =>
       /\ writer # "none"
       /\ writer = "open" => queue # <<>>

(* What the run promises, whatever runs inside it.                         *)
Graph == INSTANCE TaskGraph WITH
  status <- [t \in Task |->
               IF st[t] \in {"done", "failed"} THEN st[t] ELSE "pending"],
  outcome <- IF phase = "returned" THEN "ok"
             ELSE IF phase = "raised" THEN "error"
             ELSE "none"

(* The manager implements the abstract task graph: no interleaving of its  *)
(* coroutines, its writer, a crash and a resume shows the caller anything  *)
(* else.                                                                   *)
ImplementsTaskGraph == Graph!Spec

(* Every run_tasks call ends: no failure leaves a coroutine that run_tasks *)
(* awaits waiting for ever.                                                *)
RunEnds == phase = "running" ~> phase \in {"returned", "raised", "idle"}
=============================================================================
