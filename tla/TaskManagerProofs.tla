-------------------------- MODULE TaskManagerProofs --------------------------
(***************************************************************************)
(* Theorems about TaskManager, for every task graph and any number of      *)
(* attempts.                                                               *)
(***************************************************************************)
EXTENDS TaskManager, FiniteSetTheorems, WellFoundedInduction, TLAPS

(* The items the writer still takes before the None stops it.              *)
Ahead(q) == {q[i] : i \in {j \in DOMAIN q : \A k \in 1 .. j : q[k] # Stop}}

(* Before run_tasks is called nothing has happened in memory.              *)
NothingYet ==
  phase = "idle" =>
    /\ \A t \in Task : st[t] = "unscheduled"
    /\ results = {} /\ saved = {}
    /\ queue = <<>> /\ writer = "none"

DepsDone ==
  \A t \in Task :
    st[t] \in {"running", "postio", "done"} => \A d \in Deps[t] : st[d] = "done"

(* A result a task can be skipped with, or is done with, has its rows.     *)
ResultsHaveRows ==
  \A t \in Task :
    /\ st[t] \in {"postio", "done"} => t \in results
    /\ t \in results /\ st[t] \in {"unscheduled", "created", "waiting", "done"}
         => t \in durable \union lost

(* As long as the run can still return, no listed result is queued behind  *)
(* the None.                                                               *)
WriterInv ==
  /\ phase = "running" =>
       (\A i \in DOMAIN queue : queue[i] # Stop) /\ writer \in {"open", "failed"}
  /\ phase \in {"closing_ok", "returned"} => Listed \subseteq Done
  /\ phase \in {"running", "closing_ok", "returned"} /\ writer # "failed" =>
       \A t \in Listed : st[t] = "done" => t \in saved \/ t \in Ahead(queue)
  /\ phase \in {"closing_ok", "returned"} /\ writer = "closed" =>
       Listed \subseteq saved
  /\ phase = "returned" => writer = "closed"
  /\ phase = "closing_err" => \E t \in Listed : st[t] = "failed"

IInv == TypeOK /\ NothingYet /\ DepsDone /\ ResultsHaveRows /\ WriterInv

-----------------------------------------------------------------------------
(* Every variable of a run keeps its type, whatever the graph, the         *)
(* failures and the resumptions: TypeOK is inductive by itself.            *)
THEOREM TypeCorrect == Spec => []TypeOK
<1> USE GraphAssumption
<1>1. Init => TypeOK
  BY DEF Init, Fresh, TypeOK, Phase, Stage, WriterState
<1>2. TypeOK /\ [Next]_vars => TypeOK'
  <2> SUFFICES ASSUME TypeOK, [Next]_vars PROVE TypeOK'
    OBVIOUS
  <2> USE DEF TypeOK, Phase, Stage, WriterState
  <2>1. ASSUME NEW t \in Task, TaskStep(t) PROVE TypeOK'
    <3>1. CASE Await(t)
      BY <3>1 DEF Await
    <3>2. CASE Skip(t)
      BY <3>2 DEF Skip, Finish
    <3>3. CASE Begin(t)
      BY <3>3 DEF Begin
    <3>4. CASE RunOk(t)
      BY <3>4 DEF RunOk
    <3>5. CASE PostOk(t)
      BY <3>5 DEF PostOk, Finish
    <3>6. CASE TaskFail(t)
      BY <3>6 DEF TaskFail
    <3>7. CASE PropagateFail(t)
      BY <3>7 DEF PropagateFail
    <3> QED
      BY <2>1, <3>1, <3>2, <3>3, <3>4, <3>5, <3>6, <3>7 DEF TaskStep
  <2>2. CASE RunStep
    <3>1. CASE Start
      BY <3>1 DEF Start
    <3>2. CASE GatherOk
      BY <3>2 DEF GatherOk
    <3>3. CASE GatherFail
      BY <3>3 DEF GatherFail
    <3>4. CASE Return
      BY <3>4 DEF Return
    <3>5. CASE Raise
      BY <3>5 DEF Raise
    <3> QED
      BY <2>2, <3>1, <3>2, <3>3, <3>4, <3>5 DEF RunStep
  <2>3. CASE WriterStep
    <3>1. queue # <<>> => Head(queue) \in Task \union {Stop}
                            /\ Tail(queue) \in Seq(Task \union {Stop})
      OBVIOUS
    <3>2. CASE WriterSave
      BY <3>1, <3>2 DEF WriterSave
    <3>3. CASE WriterStop
      BY <3>1, <3>3 DEF WriterStop
    <3>4. CASE WriterFail
      BY <3>1, <3>4 DEF WriterFail
    <3> QED
      BY <2>3, <3>2, <3>3, <3>4 DEF WriterStep
  <2>4. CASE Crash
    BY <2>4 DEF Crash, FreshAgain
  <2>5. CASE Resume
    <3>1. orphans' \subseteq Nat \X Task \X {"running", "postio"}
      BY <2>5 DEF Resume, Live
    <3> QED
      BY <2>5, <3>1 DEF Resume, FreshAgain
  <2>6. ASSUME NEW o \in orphans, OrphanStep(o) PROVE TypeOK'
    <3>1. o[1] \in Nat /\ o[2] \in Task
      OBVIOUS
    <3>2. CASE OrphanDelete(o)
      <4>1. <<o[1], o[2], "postio">> \in Nat \X Task \X {"running", "postio"}
        BY <3>1
      <4> QED
        BY <3>1, <3>2, <4>1 DEF OrphanDelete, memory
    <3>3. CASE OrphanWrite(o)
      BY <3>1, <3>3 DEF OrphanWrite, memory
    <3>4. CASE OrphanEnd(o)
      BY <3>4 DEF OrphanEnd, memory
    <3> QED
      BY <2>6, <3>2, <3>3, <3>4 DEF OrphanStep
  <2>7. CASE UNCHANGED vars
    BY <2>7 DEF vars, memory
  <2> QED
    BY <2>1, <2>2, <2>3, <2>4, <2>5, <2>6, <2>7 DEF Next
<1> QED
  BY <1>1, <1>2, PTL DEF Spec

-----------------------------------------------------------------------------
(* The sentinel queue.                                                     *)

(* What write_queue.put appends is ahead of the None as long as no None is *)
(* in the queue; putting never takes anything out of what is ahead.        *)
LEMMA AheadOfAppend ==
  ASSUME NEW q \in Seq(Task \union {Stop}), NEW x \in Task \union {Stop}
  PROVE  /\ Ahead(q) \subseteq Ahead(Append(q, x))
         /\ (x # Stop /\ \A i \in DOMAIN q : q[i] # Stop)
              => x \in Ahead(Append(q, x))
<1> DEFINE r == Append(q, x)
<1>1. /\ Len(r) = Len(q) + 1 /\ Len(q) \in Nat
      /\ DOMAIN q = 1 .. Len(q) /\ DOMAIN r = 1 .. Len(q) + 1
      /\ \A i \in 1 .. Len(q) : r[i] = q[i]
      /\ r[Len(q) + 1] = x
  OBVIOUS
<1>2. ASSUME NEW i \in DOMAIN q, \A k \in 1 .. i : q[k] # Stop
      PROVE  q[i] \in Ahead(r)
  <2>1. i \in DOMAIN r /\ r[i] = q[i] /\ \A k \in 1 .. i : r[k] # Stop
    BY <1>1, <1>2
  <2> QED
    BY <2>1 DEF Ahead
<1>3. ASSUME x # Stop, \A i \in DOMAIN q : q[i] # Stop
      PROVE  x \in Ahead(r)
  <2>1. /\ Len(q) + 1 \in DOMAIN r /\ r[Len(q) + 1] = x
        /\ \A k \in 1 .. Len(q) + 1 : r[k] # Stop
    BY <1>1, <1>3
  <2> QED
    BY <2>1 DEF Ahead
<1> QED
  BY <1>2, <1>3 DEF Ahead

(* Taking the first item out of write_queue takes only that item out of    *)
(* what is ahead of the None.                                              *)
LEMMA AheadOfTail ==
  ASSUME NEW q \in Seq(Task \union {Stop}), q # <<>>
  PROVE  /\ Head(q) = Stop => Ahead(q) = {}
         /\ Head(q) # Stop => Ahead(q) \subseteq {Head(q)} \union Ahead(Tail(q))
<1> DEFINE r == Tail(q)
<1>1. /\ Len(q) \in Nat \ {0} /\ DOMAIN q = 1 .. Len(q)
      /\ DOMAIN r = 1 .. Len(q) - 1
      /\ \A i \in 1 .. Len(q) - 1 : r[i] = q[i + 1]
      /\ Head(q) = q[1]
  OBVIOUS
<1>2. ASSUME Head(q) = Stop PROVE Ahead(q) = {}
  BY <1>1, <1>2 DEF Ahead
<1>3. ASSUME NEW i \in DOMAIN q, \A k \in 1 .. i : q[k] # Stop, i # 1
      PROVE  q[i] \in Ahead(r)
  <2>1. i - 1 \in DOMAIN r /\ r[i - 1] = q[i]
    BY <1>1, <1>3
  <2>2. \A k \in 1 .. i - 1 : r[k] # Stop
    BY <1>1, <1>3
  <2> QED
    BY <2>1, <2>2 DEF Ahead
<1> QED
  BY <1>1, <1>2, <1>3 DEF Ahead

-----------------------------------------------------------------------------
(* The inductive invariant, one conjunct at a time.                        *)

(* No step leaves anything behind in a manager that run_tasks was not      *)
(* called on.                                                              *)
LEMMA NothingYetStep ==
  ASSUME TypeOK, NothingYet, [Next]_vars PROVE NothingYet'
<1> USE DEF NothingYet
<1>1. ASSUME NEW t \in Task, TaskStep(t) PROVE NothingYet'
  <2>1. st[t] # "unscheduled" /\ phase' = phase
    BY <1>1 DEF TaskStep, Await, Skip, Begin, RunOk, PostOk, TaskFail,
                PropagateFail, Ready
  <2> QED
    BY <2>1
<1>2. CASE RunStep
  BY <1>2 DEF RunStep, Start, GatherOk, GatherFail, Return, Raise
<1>3. CASE WriterStep
  BY <1>3 DEF WriterStep, WriterSave, WriterStop, WriterFail
<1>4. CASE Crash \/ Resume
  BY <1>4 DEF Crash, Resume, FreshAgain
<1>5. ASSUME NEW o \in orphans, OrphanStep(o) PROVE NothingYet'
  BY <1>5 DEF OrphanStep, OrphanDelete, OrphanWrite, OrphanEnd, memory
<1>6. CASE UNCHANGED vars
  BY <1>6 DEF vars, memory
<1> QED
  BY <1>1, <1>2, <1>3, <1>4, <1>5, <1>6 DEF Next

(* A task that began keeps its dependencies done: no coroutine leaves done.*)
LEMMA DepsDoneStep ==
  ASSUME TypeOK, NothingYet, DepsDone, [Next]_vars PROVE DepsDone'
<1> USE GraphAssumption DEF TypeOK, DepsDone
<1>1. ASSUME NEW t \in Task, TaskStep(t) PROVE DepsDone'
  <2>1. CASE Await(t)
    BY <2>1 DEF Await
  <2>2. CASE Skip(t)
    BY <2>2 DEF Skip, Ready, Finish
  <2>3. CASE Begin(t)
    BY <2>3 DEF Begin, Ready
  <2>4. CASE RunOk(t)
    BY <2>4 DEF RunOk
  <2>5. CASE PostOk(t)
    BY <2>5 DEF PostOk, Finish
  <2>6. CASE TaskFail(t)
    BY <2>6 DEF TaskFail
  <2>7. CASE PropagateFail(t)
    BY <2>7 DEF PropagateFail
  <2> QED
    BY <1>1, <2>1, <2>2, <2>3, <2>4, <2>5, <2>6, <2>7 DEF TaskStep
<1>2. CASE RunStep
  BY <1>2 DEF RunStep, Start, GatherOk, GatherFail, Return, Raise
<1>3. CASE WriterStep
  BY <1>3 DEF WriterStep, WriterSave, WriterStop, WriterFail
<1>4. CASE Crash \/ Resume
  BY <1>4 DEF Crash, Resume, FreshAgain
<1>5. ASSUME NEW o \in orphans, OrphanStep(o) PROVE DepsDone'
  BY <1>5 DEF OrphanStep, OrphanDelete, OrphanWrite, OrphanEnd, memory
<1>6. CASE UNCHANGED vars
  BY <1>6 DEF vars, memory
<1> QED
  BY <1>1, <1>2, <1>3, <1>4, <1>5, <1>6 DEF Next

(* Every step keeps a result of task_results backed by rows, or by rows    *)
(* that an abandoned coroutine deleted.                                    *)
LEMMA ResultsHaveRowsStep ==
  ASSUME TypeOK, NothingYet, ResultsHaveRows, [Next]_vars PROVE ResultsHaveRows'
<1> USE GraphAssumption DEF TypeOK, ResultsHaveRows
<1>1. ASSUME NEW t \in Task, TaskStep(t) PROVE ResultsHaveRows'
  <2>1. CASE Await(t)
    BY <2>1 DEF Await
  <2>2. CASE Skip(t)
    BY <2>2 DEF Skip, Ready, Finish
  <2>3. CASE Begin(t)
    BY <2>3 DEF Begin, Ready
  <2>4. CASE RunOk(t)
    BY <2>4 DEF RunOk
  <2>5. CASE PostOk(t)
    BY <2>5 DEF PostOk, Finish
  <2>6. CASE TaskFail(t)
    BY <2>6 DEF TaskFail
  <2>7. CASE PropagateFail(t)
    BY <2>7 DEF PropagateFail
  <2> QED
    BY <1>1, <2>1, <2>2, <2>3, <2>4, <2>5, <2>6, <2>7 DEF TaskStep
<1>2. CASE RunStep
  BY <1>2 DEF RunStep, Start, GatherOk, GatherFail, Return, Raise
<1>3. CASE WriterStep
  BY <1>3 DEF WriterStep, WriterSave, WriterStop, WriterFail
<1>4. CASE Crash \/ Resume
  BY <1>4 DEF Crash, Resume, FreshAgain
<1>5. ASSUME NEW o \in orphans, OrphanStep(o) PROVE ResultsHaveRows'
  BY <1>5 DEF OrphanStep, OrphanDelete, OrphanWrite, OrphanEnd, memory
<1>6. CASE UNCHANGED vars
  BY <1>6 DEF vars, memory
<1> QED
  BY <1>1, <1>2, <1>3, <1>4, <1>5, <1>6 DEF Next

(* A step of a task: it never leaves done or failed, and once the run is   *)
(* closing without an error it is not a listed task's.                     *)
LEMMA WriterInvTaskStep ==
  ASSUME TypeOK, NothingYet, WriterInv, NEW t \in Task, TaskStep(t)
  PROVE  WriterInv'
<1> USE GraphAssumption DEF TypeOK
<1>1. /\ phase' = phase /\ writer' = writer /\ saved' = saved
      /\ phase # "idle" /\ st[t] \notin {"unscheduled", "done", "failed"}
  BY DEF TaskStep, Await, Skip, Begin, RunOk, PostOk, TaskFail, PropagateFail,
         Ready, NothingYet
<1>2. phase \in {"closing_ok", "returned"} => t \notin Listed
  BY <1>1 DEF WriterInv, Done
<1>3. \A u \in Task : st[u] \in {"done", "failed"} => st'[u] = st[u]
  BY <1>1 DEF TaskStep, Await, Skip, Begin, RunOk, PostOk, TaskFail,
              PropagateFail, Finish
<1>4. CASE Skip(t) \/ PostOk(t)
  <2>1. st' = [st EXCEPT ![t] = "done"] /\ queue' = Append(queue, t)
    BY <1>4 DEF Skip, PostOk, Finish
  <2>2. Ahead(queue) \subseteq Ahead(queue')
    BY <2>1, AheadOfAppend
  <2>3. phase = "running" => t \in Ahead(queue')
    BY <2>1, AheadOfAppend DEF WriterInv
  <2>4. phase = "running" => \A i \in DOMAIN queue' : queue'[i] # Stop
    BY <2>1 DEF WriterInv
  <2> QED
    BY <1>1, <1>2, <1>3, <2>1, <2>2, <2>3, <2>4 DEF WriterInv, Done
<1>5. CASE ~(Skip(t) \/ PostOk(t))
  <2>1. /\ queue' = queue
        /\ \A u \in Task : st'[u] = "done" => st[u] = "done"
    BY <1>5 DEF TaskStep, Await, Begin, RunOk, TaskFail, PropagateFail
  <2> QED
    BY <1>1, <1>2, <1>3, <2>1 DEF WriterInv, Done
<1> QED
  BY <1>4, <1>5

(* Every step keeps the listed results ahead of the None or saved.         *)
LEMMA WriterInvStep ==
  ASSUME TypeOK, NothingYet, WriterInv, [Next]_vars PROVE WriterInv'
<1> USE GraphAssumption DEF TypeOK
<1>1. ASSUME NEW t \in Task, TaskStep(t) PROVE WriterInv'
  BY <1>1, WriterInvTaskStep
<1>2. CASE RunStep
  <2>1. CASE Start
    BY <2>1 DEF Start, WriterInv, NothingYet
  <2>2. CASE GatherOk
    <3>1. Ahead(queue) \subseteq Ahead(queue')
      BY <2>2, AheadOfAppend DEF GatherOk
    <3> QED
      BY <2>2, <3>1 DEF GatherOk, WriterInv, Done
  <2>3. CASE GatherFail
    BY <2>3 DEF GatherFail, WriterInv
  <2>4. CASE Return
    BY <2>4 DEF Return, WriterInv, Done
  <2>5. CASE Raise
    BY <2>5 DEF Raise, WriterInv, Done
  <2> QED
    BY <1>2, <2>1, <2>2, <2>3, <2>4, <2>5 DEF RunStep
<1>3. CASE WriterStep
  <2>1. queue # <<>>
    BY <1>3 DEF WriterStep, WriterSave, WriterStop, WriterFail
  <2>2. /\ Head(queue) = Stop => Ahead(queue) = {}
        /\ Head(queue) # Stop =>
             Ahead(queue) \subseteq {Head(queue)} \union Ahead(Tail(queue))
    BY <2>1, AheadOfTail
  <2>3. \A i \in DOMAIN Tail(queue) : i + 1 \in DOMAIN queue
                                        /\ Tail(queue)[i] = queue[i + 1]
    BY <2>1
  <2>4. Head(queue) = queue[1] /\ 1 \in DOMAIN queue
    BY <2>1
  <2>5. CASE WriterSave
    BY <2>2, <2>3, <2>5 DEF WriterSave, WriterInv, Done
  <2>6. CASE WriterStop
    <3>1. phase # "running"
      BY <2>4, <2>6 DEF WriterStop, WriterInv
    <3> QED
      BY <2>2, <2>6, <3>1 DEF WriterStop, WriterInv, Done
  <2>7. CASE WriterFail
    BY <2>3, <2>7 DEF WriterFail, WriterInv, Done
  <2> QED
    BY <1>3, <2>5, <2>6, <2>7 DEF WriterStep
<1>4. CASE Crash \/ Resume
  BY <1>4 DEF Crash, Resume, FreshAgain, WriterInv
<1>5. ASSUME NEW o \in orphans, OrphanStep(o) PROVE WriterInv'
  BY <1>5 DEF OrphanStep, OrphanDelete, OrphanWrite, OrphanEnd, memory,
              WriterInv, Done
<1>6. CASE UNCHANGED vars
  BY <1>6 DEF vars, memory, WriterInv, Done
<1> QED
  BY <1>1, <1>2, <1>3, <1>4, <1>5, <1>6 DEF Next

(* The inductive invariant the safety theorems rest on: it ties the stage  *)
(* of each coroutine to its dependencies, to task_results, to the rows in  *)
(* the database and to what the writer still has ahead of it.              *)
THEOREM Invariance == Spec => []IInv
<1>1. Init => NothingYet /\ DepsDone /\ ResultsHaveRows /\ WriterInv
  BY DEF Init, Fresh, NothingYet, DepsDone, ResultsHaveRows, WriterInv
<1>2. TypeOK /\ TypeOK' /\ NothingYet /\ DepsDone /\ ResultsHaveRows /\ WriterInv
        /\ [Next]_vars
        => (NothingYet /\ DepsDone /\ ResultsHaveRows /\ WriterInv)'
  BY NothingYetStep, DepsDoneStep, ResultsHaveRowsStep, WriterInvStep
<1> QED
  BY <1>1, <1>2, TypeCorrect, PTL DEF Spec, IInv

-----------------------------------------------------------------------------
(* What follows from it.                                                   *)

(* The dict of dependent_results in _run_task never misses a key, whatever *)
(* was loaded, skipped, failed or shared.                                  *)
THEOREM InputsArePresent == Spec => []InputsPresent
<1>1. IInv => InputsPresent
  BY GraphAssumption DEF IInv, TypeOK, DepsDone, ResultsHaveRows, InputsPresent
<1> QED
  BY <1>1, Invariance, PTL

(* A run_tasks call that returns left no listed task incomplete, unsaved   *)
(* or without rows that no abandoned coroutine deleted.                    *)
THEOREM ReturnIsComplete == Spec => []ReturnedComplete
<1>1. IInv => ReturnedComplete
  <2> SUFFICES ASSUME IInv, phase = "returned"
               PROVE  /\ Listed \subseteq Done
                      /\ Listed \subseteq saved
                      /\ Listed \subseteq durable \union lost
    BY DEF ReturnedComplete
  <2>1. Listed \subseteq Done /\ Listed \subseteq saved
    BY DEF IInv, WriterInv
  <2>2. Listed \subseteq durable \union lost
    BY <2>1, GraphAssumption DEF IInv, ResultsHaveRows, Done
  <2> QED
    BY <2>1, <2>2
<1> QED
  BY <1>1, Invariance, PTL

-----------------------------------------------------------------------------
(* Every completed task reaches the writer, once.                          *)

Items(q) == {q[i] : i \in DOMAIN q}
Distinct(q) == \A i, j \in DOMAIN q : i # j => q[i] # q[j]

(* The items of a queue after put, and that they stay distinct.            *)
LEMMA ItemsOfAppend ==
  ASSUME NEW q \in Seq(Task \union {Stop}), NEW x \in Task \union {Stop},
         x \notin Items(q), Distinct(q)
  PROVE  Items(Append(q, x)) = Items(q) \union {x} /\ Distinct(Append(q, x))
<1> DEFINE r == Append(q, x)
<1>1. /\ DOMAIN q = 1 .. Len(q) /\ DOMAIN r = 1 .. Len(q) + 1
      /\ \A i \in 1 .. Len(q) : r[i] = q[i]
      /\ r[Len(q) + 1] = x /\ Len(q) \in Nat
  OBVIOUS
<1> HIDE DEF r
<1>2. Items(r) = Items(q) \union {x}
  <2>1. \A i \in DOMAIN q : q[i] \in Items(r)
    BY <1>1 DEF Items
  <2>2. x \in Items(r)
    BY <1>1 DEF Items
  <2>3. \A i \in DOMAIN r : r[i] \in Items(q) \union {x}
    BY <1>1 DEF Items
  <2> QED
    BY <2>1, <2>2, <2>3 DEF Items
<1>3. Distinct(r)
  BY <1>1 DEF Distinct, Items
<1> QED
  BY <1>2, <1>3 DEF r

(* The items of a queue of distinct items after get.                       *)
LEMMA ItemsOfTail ==
  ASSUME NEW q \in Seq(Task \union {Stop}), q # <<>>, Distinct(q)
  PROVE  /\ Items(Tail(q)) = Items(q) \ {Head(q)}
         /\ Distinct(Tail(q))
         /\ Head(q) \in Items(q)
<1> DEFINE r == Tail(q)
<1>1. /\ Len(q) \in Nat \ {0}
      /\ DOMAIN q = 1 .. Len(q) /\ DOMAIN r = 1 .. Len(q) - 1
      /\ \A i \in 1 .. Len(q) - 1 : r[i] = q[i + 1]
      /\ Head(q) = q[1]
  OBVIOUS
<1> HIDE DEF r
<1>2. \A i \in DOMAIN r : i + 1 \in DOMAIN q /\ r[i] = q[i + 1] /\ i + 1 # 1
  BY <1>1
<1>3. \A i \in DOMAIN r : q[i + 1] # q[1]
  BY <1>1, <1>2 DEF Distinct
<1>4. \A i \in DOMAIN q : i # 1 => i - 1 \in DOMAIN r /\ r[i - 1] = q[i]
  BY <1>1
<1>5. Items(r) = Items(q) \ {Head(q)}
  <2>1. \A i \in DOMAIN r : r[i] \in Items(q) \ {Head(q)}
    BY <1>1, <1>2, <1>3 DEF Items
  <2>2. \A i \in DOMAIN q : q[i] # Head(q) => q[i] \in Items(r)
    BY <1>1, <1>4 DEF Items
  <2> QED
    BY <2>1, <2>2 DEF Items
<1>6. Distinct(r)
  BY <1>1, <1>2 DEF Distinct
<1>7. Head(q) \in Items(q)
  BY <1>1 DEF Items
<1> QED
  BY <1>5, <1>6, <1>7 DEF r

(* Every step keeps each completed task saved or queued, and once.         *)
LEMMA HandedOverOnceStep ==
  ASSUME IInv, HandedOverOnce, [Next]_vars PROVE HandedOverOnce'
<1> USE GraphAssumption DEF TypeOK
<1>0. TypeOK /\ NothingYet /\ WriterInv
  BY DEF IInv
<1>1. /\ saved \union (Queued \ {Stop}) \subseteq Done
      /\ Distinct(queue) /\ Queued = Items(queue)
      /\ saved \cap Queued = {}
      /\ writer # "failed" => Done = saved \union (Queued \ {Stop})
  BY DEF HandedOverOnce, Distinct, Items, Queued
<1>2. ASSUME NEW t \in Task, TaskStep(t) PROVE HandedOverOnce'
  <2>1. saved' = saved /\ writer' = writer /\ st[t] # "done"
    BY <1>2 DEF TaskStep, Await, Skip, Begin, RunOk, PostOk, TaskFail,
                PropagateFail, Ready
  <2>2. CASE Skip(t) \/ PostOk(t)
    <3>1. Done' = Done \union {t} /\ queue' = Append(queue, t)
      BY <1>0, <2>2 DEF Skip, PostOk, Finish, Done
    <3>2. t \notin Items(queue)
      BY <1>1, <2>1 DEF Done
    <3>3. Items(queue') = Items(queue) \union {t} /\ Distinct(queue')
      BY <1>0, <1>1, <3>1, <3>2, ItemsOfAppend
    <3>4. t \notin saved /\ t # Stop
      BY <1>1, <2>1 DEF Done
    <3> QED
      BY <1>1, <2>1, <3>1, <3>3, <3>4
         DEF HandedOverOnce, Distinct, Items, Queued
  <2>3. CASE ~(Skip(t) \/ PostOk(t))
    <3>1. Done' = Done /\ queue' = queue
      BY <1>0, <1>2, <2>3 DEF TaskStep, Await, Begin, RunOk, TaskFail,
                              PropagateFail, Ready, Done
    <3> QED
      BY <1>1, <2>1, <3>1 DEF HandedOverOnce, Queued
  <2> QED
    BY <2>2, <2>3
<1>3. CASE RunStep
  <2>1. CASE Start
    <3>1. Done = {} /\ Done' = {} /\ Queued' = {} /\ saved' = {} /\ queue' = <<>>
      BY <1>0, <2>1 DEF Start, NothingYet, Done, Queued
    <3> QED
      BY <3>1 DEF HandedOverOnce
  <2>2. CASE GatherOk \/ GatherFail
    <3>1. queue' = Append(queue, Stop) /\ Done' = Done /\ UNCHANGED <<saved, writer>>
      BY <2>2 DEF GatherOk, GatherFail, Done
    <3>2. Stop \notin Items(queue)
      BY <1>0, <2>2 DEF GatherOk, GatherFail, WriterInv, Items
    <3>3. Items(queue') = Items(queue) \union {Stop} /\ Distinct(queue')
      BY <1>0, <1>1, <3>1, <3>2, ItemsOfAppend
    <3>4. Stop \notin saved
      BY <1>0
    <3> QED
      BY <1>1, <3>1, <3>3, <3>4 DEF HandedOverOnce, Distinct, Items, Queued
  <2>3. CASE Return \/ Raise
    BY <1>1, <2>3 DEF Return, Raise, HandedOverOnce, Done, Queued
  <2> QED
    BY <1>3, <2>1, <2>2, <2>3 DEF RunStep
<1>4. CASE WriterStep
  <2>1. queue # <<>> /\ queue' = Tail(queue) /\ Done' = Done /\ writer # "failed"
    BY <1>4 DEF WriterStep, WriterSave, WriterStop, WriterFail, Done
  <2>2. /\ Items(queue') = Items(queue) \ {Head(queue)}
        /\ Distinct(queue') /\ Head(queue) \in Items(queue)
    BY <1>0, <1>1, <2>1, ItemsOfTail
  <2>3. \/ Head(queue) # Stop /\ saved' = saved \union {Head(queue)}
        \/ Head(queue) = Stop /\ saved' = saved
        \/ Head(queue) # Stop /\ saved' = saved /\ writer' = "failed"
    BY <1>4 DEF WriterStep, WriterSave, WriterStop, WriterFail
  <2>4. Queued' = Queued \ {Head(queue)} /\ Head(queue) \in Queued
    BY <2>2 DEF Queued, Items
  <2>5. Queued' \cap saved' = {}
    BY <1>1, <2>3, <2>4 DEF HandedOverOnce
  <2>6. saved' \cup (Queued' \ {Stop}) \subseteq Done
    BY <1>1, <2>3, <2>4 DEF HandedOverOnce
  <2>7. writer' # "failed" => Done = saved' \cup (Queued' \ {Stop})
    BY <1>1, <2>1, <2>3, <2>4 DEF HandedOverOnce
  <2> QED
    BY <2>1, <2>2, <2>5, <2>6, <2>7 DEF HandedOverOnce, Distinct
<1>5. CASE Crash \/ Resume
  <2>1. Done' = {} /\ Queued' = {} /\ saved' = {} /\ queue' = <<>>
    BY <1>5 DEF Crash, Resume, FreshAgain, Done, Queued
  <2> QED
    BY <2>1 DEF HandedOverOnce
<1>6. CASE (\E o \in orphans : OrphanStep(o)) \/ UNCHANGED vars
  BY <1>1, <1>6 DEF OrphanStep, OrphanDelete, OrphanWrite, OrphanEnd, memory, vars,
                    HandedOverOnce, Done, Queued
<1> QED
  BY <1>2, <1>3, <1>4, <1>5, <1>6 DEF Next

(* No completed task is missed by the writer or handed to it twice, however *)
(* many tasks await it and however the run ends.                           *)
THEOREM HandedOver == Spec => []HandedOverOnce
<1>1. Init => HandedOverOnce
  BY DEF Init, Fresh, HandedOverOnce, Done, Queued
<1>2. IInv /\ HandedOverOnce /\ [Next]_vars => HandedOverOnce'
  BY HandedOverOnceStep
<1> QED
  BY <1>1, <1>2, Invariance, PTL DEF Spec

-----------------------------------------------------------------------------
(* The progress of a run.                                                  *)

(* A task that is not in S adds its work units to those of S.              *)
LEMMA OneTaskMore ==
  ASSUME NEW S \in SUBSET Task, NEW t \in Task \ S, IsFiniteSet(WorkUnits(S))
  PROVE  /\ IsFiniteSet(WorkUnits(S \union {t}))
         /\ Cardinality(WorkUnits(S \union {t})) = Cardinality(WorkUnits(S)) + Units[t]
<1> DEFINE I == 1 .. Units[t]
           W == {t} \X I
           A == WorkUnits(S)
<1>1. Units[t] \in Nat \ {0}
  BY GraphAssumption
<1>2. IsFiniteSet(I) /\ Cardinality(I) = Units[t]
  BY <1>1, FS_Interval
<1>3. IsFiniteSet(W) /\ Cardinality(W) = Units[t]
  <2>1. IsFiniteSet({t}) /\ Cardinality({t}) = 1
    BY FS_Singleton
  <2> HIDE DEF I
  <2>2. IsFiniteSet(W) /\ Cardinality(W) = 1 * Units[t]
    BY <1>2, <2>1, FS_Product
  <2> QED
    BY <1>1, <2>2
<1>4. WorkUnits(S \union {t}) = A \union W
  BY DEF WorkUnits
<1>5. A \intersect W = {}
  BY DEF WorkUnits
<1>6. Cardinality(A \intersect W) = 0
  BY <1>5, FS_EmptySet
<1>7. Cardinality(A) \in Nat
  BY FS_CardinalityType
<1> HIDE DEF A, W, I
<1>8. IsFiniteSet(A \union W)
      /\ Cardinality(A \union W) = Cardinality(A) + Cardinality(W) - Cardinality(A \intersect W)
  BY <1>3, FS_Union DEF A
<1>9. Cardinality(A \union W) = Cardinality(A) + Units[t]
  BY <1>1, <1>3, <1>6, <1>7, <1>8
<1> QED
  BY <1>4, <1>8, <1>9 DEF A

LEMMA NoTaskYet ==
  IsFiniteSet(WorkUnits({})) /\ Cardinality(WorkUnits({})) = 0
<1>1. WorkUnits({}) = {}
  BY DEF WorkUnits
<1> QED
  BY <1>1, FS_EmptySet

Counted == IsFiniteSet(WorkUnits(Done)) /\ ProgressExact

(* A task is counted by the step that completes it, and by no other.       *)
LEMMA CountedStep ==
  ASSUME TypeOK, NothingYet, Counted, [Next]_vars PROVE Counted'
<1> USE DEF TypeOK
<1>1. ASSUME UNCHANGED completed, Done' = Done PROVE Counted'
  BY <1>1 DEF Counted, ProgressExact, WorkUnits
<1>2. ASSUME completed' = 0, Done' = {} PROVE Counted'
  BY <1>2, NoTaskYet DEF Counted, ProgressExact
<1>3. ASSUME NEW t \in Task, Skip(t) \/ PostOk(t) PROVE Counted'
  <2>1. /\ st[t] # "done" /\ st' = [st EXCEPT ![t] = "done"]
        /\ completed' = completed + Units[t]
    BY <1>3 DEF Skip, PostOk, Finish, Ready
  <2>2. t \in Task \ Done /\ Done' = Done \union {t} /\ Done \in SUBSET Task
    BY <2>1 DEF Done
  <2>3. /\ IsFiniteSet(WorkUnits(Done \union {t}))
        /\ Cardinality(WorkUnits(Done \union {t})) = Cardinality(WorkUnits(Done)) + Units[t]
    BY <2>2, OneTaskMore DEF Counted
  <2> QED
    BY <2>1, <2>2, <2>3 DEF Counted, ProgressExact
<1>4. ASSUME NEW t \in Task, TaskStep(t), ~(Skip(t) \/ PostOk(t)) PROVE Counted'
  <2>1. completed' = completed
        /\ \A u \in Task : st'[u] = "done" <=> st[u] = "done"
    BY <1>4 DEF TaskStep, Await, Begin, RunOk, TaskFail, PropagateFail, Ready
  <2> QED
    BY <1>1, <2>1 DEF Done
<1>5. CASE Start
  <2>1. completed' = 0 /\ Done' = {}
    BY <1>5 DEF Start, Done
  <2> QED
    BY <1>2, <2>1
<1>6. CASE Crash \/ Resume
  <2>1. completed' = 0 /\ Done' = {}
    BY <1>6 DEF Crash, Resume, FreshAgain, Done
  <2> QED
    BY <1>2, <2>1
<1>7. CASE GatherOk \/ GatherFail \/ Return \/ Raise \/ WriterStep
  BY <1>1, <1>7 DEF GatherOk, GatherFail, Return, Raise, WriterStep, WriterSave,
                    WriterStop, WriterFail, Done
<1>8. CASE (\E o \in orphans : OrphanStep(o)) \/ UNCHANGED vars
  BY <1>1, <1>8 DEF OrphanStep, OrphanDelete, OrphanWrite, OrphanEnd, memory, vars, Done
<1> QED
  BY <1>3, <1>4, <1>5, <1>6, <1>7, <1>8 DEF Next, RunStep

(* completed_work_units counts each completed task once, whoever awaits it *)
(* and whether it ran or was skipped, and nothing of an earlier attempt.   *)
THEOREM ProgressIsExact == Spec => []ProgressExact
<1>1. Init => Counted
  <2> SUFFICES ASSUME Init PROVE Counted
    OBVIOUS
  <2>1. completed = 0 /\ Done = {}
    BY DEF Init, Fresh, Done
  <2> QED
    BY <2>1, NoTaskYet DEF Counted, ProgressExact
<1>2. IInv /\ Counted /\ [Next]_vars => Counted'
  BY CountedStep DEF IInv
<1>3. Counted => ProgressExact
  BY DEF Counted
<1> QED
  BY <1>1, <1>2, <1>3, Invariance, PTL DEF Spec

-----------------------------------------------------------------------------
(* No deadlock.                                                            *)

(* Every task that is awaited has been scheduled.                          *)
Scheduled ==
  /\ phase # "idle" => \A t \in Listed : st[t] # "unscheduled"
  /\ \A t \in Task : st[t] = "waiting" => \A d \in Deps[t] : st[d] # "unscheduled"

(* The None is there until the writer takes it.                            *)
Closing ==
  /\ phase \in {"running", "closing_ok", "closing_err"} => writer # "none"
  /\ phase \in {"closing_ok", "closing_err"} /\ writer = "open" => Stop \in Items(queue)

LEMMA ItemStays ==
  ASSUME NEW q \in Seq(Task \union {Stop}), NEW x \in Task \union {Stop}
  PROVE  /\ Items(Append(q, x)) = Items(q) \union {x}
         /\ q # <<>> => Items(q) \subseteq Items(Tail(q)) \union {Head(q)}
<1>1. Items(q) \subseteq Items(Append(q, x)) /\ x \in Items(Append(q, x))
  <2> DEFINE r == Append(q, x)
  <2>1. /\ DOMAIN q = 1 .. Len(q) /\ DOMAIN r = 1 .. Len(q) + 1
        /\ \A i \in 1 .. Len(q) : r[i] = q[i]
        /\ r[Len(q) + 1] = x /\ Len(q) \in Nat
    OBVIOUS
  <2> HIDE DEF r
  <2>2. \A i \in DOMAIN q : i \in DOMAIN r /\ r[i] = q[i]
    BY <2>1
  <2>3. Len(q) + 1 \in DOMAIN r
    BY <2>1
  <2> QED
    BY <2>1, <2>2, <2>3 DEF Items, r
<1>2. Items(Append(q, x)) \subseteq Items(q) \union {x}
  BY DEF Items
<1>3. ASSUME q # <<>> PROVE Items(q) \subseteq Items(Tail(q)) \union {Head(q)}
  <2> DEFINE r == Tail(q)
  <2>1. /\ Len(q) \in Nat \ {0}
        /\ DOMAIN q = 1 .. Len(q) /\ DOMAIN r = 1 .. Len(q) - 1
        /\ \A i \in 1 .. Len(q) - 1 : r[i] = q[i + 1]
        /\ Head(q) = q[1]
    BY <1>3
  <2> HIDE DEF r
  <2>2. \A i \in DOMAIN q : i # 1 => i - 1 \in DOMAIN r /\ r[i - 1] = q[i]
    BY <2>1
  <2>3. \A i \in DOMAIN q : q[i] \in {r[j] : j \in DOMAIN r} \union {Head(q)}
    BY <2>1, <2>2
  <2> QED
    BY <2>3 DEF Items, r
<1> QED
  BY <1>1, <1>2, <1>3

LEMMA ScheduledStep ==
  ASSUME TypeOK, NothingYet, Scheduled, [Next]_vars PROVE Scheduled'
<1> USE GraphAssumption DEF TypeOK, Scheduled
<1>1. ASSUME NEW t \in Task, TaskStep(t) PROVE Scheduled'
  <2>1. CASE Await(t)
    BY <2>1 DEF Await
  <2>2. CASE ~Await(t)
    <3>1. /\ phase' = phase
          /\ \A u \in Task : st'[u] # "unscheduled" <=> st[u] # "unscheduled"
          /\ \A u \in Task : st'[u] = "waiting" => st[u] = "waiting"
      BY <1>1, <2>2 DEF TaskStep, Skip, Begin, RunOk, PostOk, TaskFail, PropagateFail,
                        Ready, Finish
    <3> QED
      BY <3>1
  <2> QED
    BY <2>1, <2>2
<1>2. CASE RunStep
  BY <1>2 DEF RunStep, Start, GatherOk, GatherFail, Return, Raise, NothingYet
<1>3. CASE WriterStep
  BY <1>3 DEF WriterStep, WriterSave, WriterStop, WriterFail
<1>4. CASE Crash \/ Resume
  BY <1>4 DEF Crash, Resume, FreshAgain
<1>5. CASE (\E o \in orphans : OrphanStep(o)) \/ UNCHANGED vars
  BY <1>5 DEF OrphanStep, OrphanDelete, OrphanWrite, OrphanEnd, memory, vars
<1> QED
  BY <1>1, <1>2, <1>3, <1>4, <1>5 DEF Next

LEMMA ClosingStep ==
  ASSUME TypeOK, NothingYet, Closing, [Next]_vars PROVE Closing'
<1> USE GraphAssumption DEF TypeOK, Closing
<1>1. ASSUME NEW t \in Task, TaskStep(t) PROVE Closing'
  <2>1. phase' = phase /\ writer' = writer
    BY <1>1 DEF TaskStep, Await, Skip, Begin, RunOk, PostOk, TaskFail, PropagateFail
  <2>2. queue' = queue \/ queue' = Append(queue, t)
    BY <1>1 DEF TaskStep, Await, Skip, Begin, RunOk, PostOk, TaskFail, PropagateFail,
                Finish
  <2>3. Items(queue) \subseteq Items(queue')
    BY <2>2, ItemStays
  <2> QED
    BY <2>1, <2>3
<1>2. CASE RunStep
  <2>1. CASE GatherOk \/ GatherFail
    <3>1. Stop \in Items(queue') /\ writer' = writer /\ phase = "running"
      BY <2>1, ItemStays DEF GatherOk, GatherFail
    <3> QED
      BY <3>1
  <2>2. CASE Start \/ Return \/ Raise
    BY <2>2 DEF Start, Return, Raise
  <2> QED
    BY <1>2, <2>1, <2>2 DEF RunStep
<1>3. CASE WriterStep
  <2>1. queue # <<>> /\ queue' = Tail(queue) /\ phase' = phase
        /\ (writer' = "open" => Head(queue) # Stop /\ writer = "open")
        /\ writer' # "none"
    BY <1>3 DEF WriterStep, WriterSave, WriterStop, WriterFail
  <2>2. Items(queue) \subseteq Items(queue') \union {Head(queue)}
    BY <2>1, ItemStays
  <2> QED
    BY <2>1, <2>2
<1>4. CASE Crash \/ Resume
  BY <1>4 DEF Crash, Resume, FreshAgain
<1>5. CASE (\E o \in orphans : OrphanStep(o)) \/ UNCHANGED vars
  BY <1>5 DEF OrphanStep, OrphanDelete, OrphanWrite, OrphanEnd, memory, vars
<1> QED
  BY <1>1, <1>2, <1>3, <1>4, <1>5 DEF Next

(* Of the tasks that have not ended, one of least rank waits for none.     *)
LEMMA OneCanRun ==
  ASSUME TypeOK, Scheduled, NEW t0 \in Task, st[t0] \notin {"unscheduled", "done", "failed"}
  PROVE  \E t \in Task : CanRun(t)
<1>1. Cardinality(Task) \in Nat
  BY AcyclicAssumption, FS_CardinalityType
<1>2. PICK rank \in [Task -> 0 .. Cardinality(Task)] :
        \A t \in Task : \A d \in Deps[t] : rank[d] < rank[t]
  BY AcyclicAssumption
<1> DEFINE Open == {t \in Task : st[t] \notin {"unscheduled", "done", "failed"}}
           Ranks == {rank[t] : t \in Open}
           Less == OpToRel(<, Nat)
<1>3. Ranks \subseteq Nat /\ Ranks # {}
  BY <1>1, <1>2
<1>4. ASSUME NEW x \in Nat, NEW y \in Nat, y < x PROVE <<y, x>> \in Less
  BY <1>4 DEF OpToRel
<1>5. \E x \in Ranks : \A y \in Ranks : ~ (<<y, x>> \in Less)
  BY <1>3, NatLessThanWellFounded, WFMin
<1> HIDE DEF Less
<1>6. PICK t \in Open : \A u \in Open : ~ (rank[u] < rank[t])
  <2>1. PICK x \in Ranks : \A y \in Ranks : ~ (<<y, x>> \in Less)
    BY <1>5
  <2>2. PICK t \in Open : x = rank[t]
    BY <2>1
  <2>3. \A u \in Open : ~ (rank[u] < rank[t])
    BY <1>3, <1>4, <2>1, <2>2
  <2> QED
    BY <2>3
<1>7. \A d \in Deps[t] : d \notin Open /\ d \in Task
  BY <1>2, <1>6, GraphAssumption
<1>8. st[t] \in {"created", "waiting", "running", "postio"}
  BY <1>6 DEF TypeOK, Stage
<1>9. st[t] = "waiting" => \A d \in Deps[t] : st[d] \in {"done", "failed"}
  BY <1>6, <1>7 DEF Scheduled
<1>10. CanRun(t)
  BY <1>8, <1>9 DEF CanRun, Ready
<1> QED
  BY <1>6, <1>10

(* run_tasks never waits for coroutines that all wait for one another, nor *)
(* for a writer that waits for it.                                         *)
THEOREM NothingIsStuck == Spec => []NeverStuck
<1>1. Init => Scheduled /\ Closing
  BY GraphAssumption DEF Init, Fresh, Scheduled, Closing
<1>2. IInv /\ Scheduled /\ Closing /\ [Next]_vars => Scheduled' /\ Closing'
  BY ScheduledStep, ClosingStep DEF IInv
<1>3. IInv /\ Scheduled /\ Closing => NeverStuck
  <2> SUFFICES ASSUME IInv, Scheduled, Closing PROVE NeverStuck
    OBVIOUS
  <2>1. ASSUME phase = "running", ~(Listed \subseteq Done), \A t \in Listed : st[t] # "failed"
        PROVE  \E t \in Task : CanRun(t)
    <3>1. PICK t \in Listed : st[t] # "done" /\ t \in Task
      BY <2>1, GraphAssumption DEF Done
    <3>2. st[t] \notin {"unscheduled", "done", "failed"}
      BY <2>1, <3>1 DEF Scheduled
    <3> QED
      BY <3>1, <3>2, OneCanRun DEF IInv
  <2>2. ASSUME phase \in {"closing_ok", "closing_err"}
        PROVE  writer # "none" /\ (writer = "open" => queue # <<>>)
    <3>1. Stop \in Items(queue) => queue # <<>>
      BY DEF Items
    <3> QED
      BY <2>2, <3>1 DEF Closing
  <2> QED
    BY <2>1, <2>2 DEF NeverStuck
<1> QED
  BY <1>1, <1>2, <1>3, Invariance, PTL DEF Spec

-----------------------------------------------------------------------------
(* TaskManager implements TaskGraph: every step of the manager is a step   *)
(* of the graph or leaves it unchanged.                                    *)
LEMMA StepImplementsGraph ==
  ASSUME IInv, [Next]_vars PROVE [Graph!Next]_Graph!vars
<1> DEFINE S == [t \in Task |->
                   IF st[t] \in {"done", "failed"} THEN st[t] ELSE "pending"]
           O == IF phase = "returned" THEN "ok"
                ELSE IF phase = "raised" THEN "error" ELSE "none"
<1> USE GraphAssumption
<1>0. TypeOK /\ NothingYet /\ DepsDone /\ WriterInv
  BY DEF IInv
<1>1. ASSUME NEW t \in Task, TaskStep(t) PROVE [Graph!Next]_Graph!vars
  <2>1. phase' = phase /\ O' = O
    BY <1>1 DEF TaskStep, Await, Skip, Begin, RunOk, PostOk, TaskFail,
                PropagateFail
  <2>2. CASE Await(t) \/ Begin(t) \/ RunOk(t)
    <3>1. S' = S
      BY <1>0, <2>2 DEF Await, Begin, RunOk, Ready, TypeOK
    <3> QED
      BY <2>1, <3>1 DEF Graph!vars
  <2>3. CASE Skip(t) \/ PostOk(t)
    <3>1. S[t] = "pending" /\ S' = [S EXCEPT ![t] = "done"]
      BY <1>0, <2>3 DEF Skip, PostOk, Ready, Finish, TypeOK
    <3>2. \A d \in Deps[t] : S[d] = "done"
      BY <1>0, <2>3 DEF Skip, PostOk, Ready, DepsDone
    <3>3. Graph!Complete(t)
      BY <2>1, <3>1, <3>2 DEF Graph!Complete
    <3> QED
      BY <3>3 DEF Graph!Next
  <2>4. CASE TaskFail(t) \/ PropagateFail(t)
    <3>1. S[t] = "pending" /\ S' = [S EXCEPT ![t] = "failed"]
      BY <1>0, <2>4 DEF TaskFail, PropagateFail, TypeOK
    <3>2. (\A d \in Deps[t] : S[d] = "done") \/ (\E d \in Deps[t] : S[d] = "failed")
      BY <1>0, <2>4 DEF TaskFail, PropagateFail, DepsDone
    <3>3. Graph!Fail(t)
      BY <2>1, <3>1, <3>2 DEF Graph!Fail
    <3> QED
      BY <3>3 DEF Graph!Next
  <2> QED
    BY <1>1, <2>2, <2>3, <2>4 DEF TaskStep
<1>2. CASE RunStep
  <2>1. CASE Start
    <3>1. S' = S /\ O' = O
      BY <1>0, <2>1 DEF Start, NothingYet
    <3> QED
      BY <3>1 DEF Graph!vars
  <2>2. CASE GatherOk \/ GatherFail
    <3>1. S' = S /\ O' = O
      BY <2>2 DEF GatherOk, GatherFail
    <3> QED
      BY <3>1 DEF Graph!vars
  <2>3. CASE Return
    <3>1. S' = S /\ O = "none" /\ O' = "ok"
      BY <2>3 DEF Return
    <3>2. \A t \in Listed : S[t] = "done"
      BY <1>0, <2>3 DEF Return, WriterInv, Done
    <3>3. Graph!Succeed
      BY <3>1, <3>2 DEF Graph!Succeed
    <3> QED
      BY <3>3 DEF Graph!Next
  <2>4. CASE Raise
    <3>1. S' = S /\ O = "none" /\ O' = "error"
      BY <2>4 DEF Raise
    <3>2. (\E t \in Listed : S[t] = "failed") \/ (\A t \in Listed : S[t] = "done")
      BY <1>0, <2>4 DEF Raise, WriterInv, Done
    <3>3. Graph!Abandon
      BY <3>1, <3>2 DEF Graph!Abandon
    <3> QED
      BY <3>3 DEF Graph!Next
  <2> QED
    BY <1>2, <2>1, <2>2, <2>3, <2>4 DEF RunStep
<1>3. CASE WriterStep \/ (\E o \in orphans : OrphanStep(o)) \/ UNCHANGED vars
  <2>1. S' = S /\ O' = O
    BY <1>3 DEF WriterStep, WriterSave, WriterStop, WriterFail, OrphanStep,
                OrphanDelete, OrphanWrite, OrphanEnd, memory, vars
  <2> QED
    BY <2>1 DEF Graph!vars
<1>4. CASE Crash \/ Resume
  <2>1. S' = [t \in Task |-> "pending"] /\ O # "ok" /\ O' = "none"
    BY <1>4 DEF Crash, Resume, FreshAgain
  <2>2. Graph!Restart
    BY <2>1 DEF Graph!Restart, Graph!AllPending
  <2> QED
    BY <2>2 DEF Graph!Next
<1> QED
  BY <1>1, <1>2, <1>3, <1>4 DEF Next

(* The manager shows its caller nothing but a task graph: no interleaving  *)
(* of its coroutines and its writer, no crash and no resume completes a    *)
(* task before its dependencies, or reports success with work left.        *)
THEOREM Implementation == Spec => ImplementsTaskGraph
<1>1. Init => Graph!Init
  BY DEF Init, Fresh, Graph!Init, Graph!AllPending
<1>2. IInv /\ [Next]_vars => [Graph!Next]_Graph!vars
  BY StepImplementsGraph
<1> QED
  BY <1>1, <1>2, Invariance, PTL DEF Spec, ImplementsTaskGraph, Graph!Spec
=============================================================================
