------------------------------ MODULE TaskGraph ------------------------------
(***************************************************************************)
(* What TaskManager.run_tasks (packages/shared/shared/inspector/utils/     *)
(* task.py) promises to its caller, with no queues, no asyncio and no      *)
(* database: a task completes only after every task it depends on, a task  *)
(* fails only because its own work was attempted or because a dependency   *)
(* failed, the run succeeds only when every listed task has completed and  *)
(* is abandoned only when a listed task failed or every one is complete    *)
(* and the writer could not persist them.                                  *)
(***************************************************************************)
CONSTANTS Task,    (* every task of the graph                              *)
          Listed,  (* the tasks handed to the TaskManager                  *)
          Deps     (* Deps[t]: the tasks t depends on                      *)

VARIABLES status,  (* status[t]: pending, done or failed                   *)
          outcome  (* of the run: none yet, ok or error                    *)

vars == <<status, outcome>>

AllPending == [t \in Task |-> "pending"]

Init == status = AllPending /\ outcome = "none"

Complete(t) ==
  /\ status[t] = "pending"
  /\ \A d \in Deps[t] : status[d] = "done"
  /\ status' = [status EXCEPT ![t] = "done"]
  /\ UNCHANGED outcome

(* A failure has a cause: the task's own work, which needs its             *)
(* dependencies done, or a dependency that failed.                         *)
Fail(t) ==
  /\ status[t] = "pending"
  /\ \/ \A d \in Deps[t] : status[d] = "done"
     \/ \E d \in Deps[t] : status[d] = "failed"
  /\ status' = [status EXCEPT ![t] = "failed"]
  /\ UNCHANGED outcome

Succeed ==
  /\ outcome = "none"
  /\ \A t \in Listed : status[t] = "done"
  /\ outcome' = "ok"
  /\ UNCHANGED status

Abandon ==
  /\ outcome = "none"
  /\ \/ \E t \in Listed : status[t] = "failed"
     \/ \A t \in Listed : status[t] = "done"
  /\ outcome' = "error"
  /\ UNCHANGED status

(* The process restarts, or the run is resumed after an error: a new       *)
(* manager starts over with nothing done.                                  *)
Restart ==
  /\ outcome # "ok"
  /\ status' = AllPending
  /\ outcome' = "none"

Next ==
  \/ \E t \in Task : Complete(t) \/ Fail(t)
  \/ Succeed
  \/ Abandon
  \/ Restart

Spec == Init /\ [][Next]_vars
=============================================================================
