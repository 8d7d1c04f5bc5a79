----------------------- MODULE OrganizationFilesProofs ------------------------
(***************************************************************************)
(* Theorems about OrganizationFiles: the list, the summary, the files and  *)
(* the database agree for any number of codebases, workers and runs and    *)
(* every set of faults, but for the exceptions the properties name.        *)
(***************************************************************************)
EXTENDS OrganizationFiles, TLAPS

Busy(w) == ~At(w, "idle")

(* A busy task has a codebase; a deletion has no run number, and the two   *)
(* kinds of task have steps of their own.                                  *)
Kinds ==
  \A w \in Worker : Busy(w) =>
    /\ task[w].c \in Codebase
    /\ IF Deletes(w)
       THEN task[w].run = NoEntry /\ task[w].pc \notin {"upload", "sum"}
       ELSE task[w].run # NoEntry /\ task[w].pc # "rows"

(* A task that met no other has its codebase, which exists, for itself,    *)
(* and once it has read the list also the files.                           *)
Alone ==
  \A w \in Worker : Busy(w) /\ w \notin disturbed =>
    /\ task[w].c \in alive
    /\ \A u \in Worker : Busy(u) /\ task[u].c = task[w].c => u = w
    /\ w \in Section => \A u \in Section : u = w

(* What a task has read is the list as it is, but for the exceptions; what *)
(* the summary is computed from is the whole list.                         *)
Current ==
  \A w \in Worker :
    /\ At(w, "write") =>
         \A d \in Codebase \ dirty : d # task[w].c => task[w].data[d] = list[d]
    /\ At(w, "write_sum") /\ w \notin disturbed => task[w].data = list

(* A deletion that is done with the list, and every codebase that is gone, *)
(* leaves no entry.                                                        *)
Gone ==
  /\ \A w \in Worker : Deletes(w) /\ task[w].pc \in {"write_sum", "rows"} =>
       task[w].c \in dirty \/ last[task[w].c] = NoEntry
  /\ \A c \in Codebase \ (alive \cup dirty) : last[c] = NoEntry

(* A pipeline past its upload has files, and an entry has files until a    *)
(* deletion of the codebase begins.                                        *)
Uploaded ==
  /\ \A w \in Worker : Busy(w) /\ ~At(w, "upload") /\ ~Deletes(w) /\ w \notin disturbed =>
       folder[task[w].c] # NoEntry
  /\ \A c \in Codebase \ dirty : last[c] # NoEntry =>
       folder[c] # NoEntry \/ \E w \in Active(c) : Deletes(w)

IInv ==
  TypeOK /\ Kinds /\ Alone /\ Current /\ ListExact /\ SummaryExact /\ Gone /\ Uploaded
------------------------------------------------------------------------------
(* Initially there is nothing.                                             *)
LEMMA InitInv == Init => IInv
<1> SUFFICES ASSUME Init PROVE IInv
  OBVIOUS
<1> USE FilesAssumption
<1>1. Empty \in List
  BY DEF Empty, List, NoEntry
<1>2. Idle \in TaskState
  BY <1>1 DEF Idle, TaskState, NoEntry
<1>3. \A w \in Worker : task[w] = Idle /\ task[w].pc = "idle" /\ task[w].kind = "pipeline"
  BY DEF Init, Idle
<1>4. TypeOK
  <2>1. /\ alive \subseteq Codebase
        /\ folder \in List /\ list \in List /\ summary \in List /\ last \in List
        /\ dirty \subseteq Codebase /\ disturbed = {}
    BY <1>1 DEF Init
  <2>2. task \in [Worker -> TaskState]
    BY <1>2 DEF Init
  <2>3. stale \in BOOLEAN
    BY DEF Init
  <2>4. runs \in 0 .. MaxRuns
    BY SMT DEF Init
  <2> QED
    BY <1>3, <2>1, <2>2, <2>3, <2>4 DEF TypeOK
<1>5. Kinds /\ Alone /\ Current
  BY <1>3 DEF Kinds, Alone, Current, Busy, At
<1>6. ListExact /\ SummaryExact
  BY DEF Init, ListExact, SummaryExact
<1>7. Gone /\ Uploaded
  BY <1>3 DEF Gone, Uploaded, Init, Empty, Deletes, Busy, At
<1> QED
  BY <1>4, <1>5, <1>6, <1>7 DEF IInv

(* What a step of w does to the tasks, when it leaves w as r.              *)
LEMMA StepEffect ==
  ASSUME NEW w \in Worker, NEW r \in TaskState, TypeOK, Step(w, r)
  PROVE  /\ task' \in [Worker -> TaskState]
         /\ task'[w] = r
         /\ \A u \in Worker : u # w => task'[u] = task[u]
BY DEF Step, TypeOK

LEMMA IdleState == Idle \in TaskState /\ Empty \in List
BY FilesAssumption DEF Idle, Empty, TaskState, List, NoEntry
------------------------------------------------------------------------------
(* The steps.  Each lemma first says what the task becomes.                *)
LEMMA StartPipelineInv ==
  ASSUME IInv, NEW w \in Worker, NEW c \in Codebase, StartPipeline(w, c)
  PROVE  IInv'
<1> USE FilesAssumption, IdleState
<1> DEFINE r == [Idle EXCEPT !.pc = "upload", !.c = c, !.run = runs + 1]
<1>1. runs + 1 \in 0 .. MaxRuns /\ runs + 1 # NoEntry
  BY DEF IInv, StartPipeline, TypeOK, NoEntry
<1>2. /\ r \in TaskState /\ r.pc = "upload" /\ r.c = c /\ r.run # NoEntry
      /\ r.kind = "pipeline"
  BY <1>1 DEF TaskState, Idle
<1>3. Step(w, r)
  BY DEF StartPipeline
<1> HIDE DEF r
<1>4. /\ task' \in [Worker -> TaskState] /\ task'[w] = r
      /\ \A u \in Worker : u # w => task'[u] = task[u]
  BY <1>2, <1>3, StepEffect DEF IInv
<1>5. TypeOK'
  BY <1>1, <1>2, <1>4 DEF IInv, StartPipeline, TypeOK, Meets, Active, At
<1>6. Kinds'
  BY <1>2, <1>4 DEF IInv, Kinds, Busy, At, Deletes
<1>7. Alone'
  BY <1>2, <1>4 DEF IInv, Alone, StartPipeline, Meets, Active, Section, Busy, At
<1>8. Current' /\ ListExact' /\ SummaryExact'
  BY <1>2, <1>4 DEF IInv, Current, ListExact, SummaryExact, StartPipeline, Meets, At
<1>9. Gone'
  BY <1>2, <1>4 DEF IInv, Gone, StartPipeline, Deletes, At
<1>10. Uploaded'
  BY <1>2, <1>4 DEF IInv, Uploaded, StartPipeline, Meets, Active, Deletes, Busy, At
<1> QED
  BY <1>5, <1>6, <1>7, <1>8, <1>9, <1>10 DEF IInv

LEMMA UploadFilesInv ==
  ASSUME IInv, NEW w \in Worker, UploadFiles(w)
  PROVE  IInv'
<1> USE FilesAssumption, IdleState
<1> DEFINE r == [task[w] EXCEPT !.pc = "read"]
<1>1. task[w] \in TaskState
  BY DEF IInv, TypeOK
<1>2. /\ r \in TaskState /\ r.pc = "read" /\ r.c = task[w].c /\ r.run = task[w].run
      /\ r.kind = task[w].kind
  BY <1>1 DEF TaskState
<1>3. Step(w, r)
  BY DEF UploadFiles, To
<1> HIDE DEF r
<1>4. /\ task' \in [Worker -> TaskState] /\ task'[w] = r
      /\ \A u \in Worker : u # w => task'[u] = task[u]
  BY <1>2, <1>3, StepEffect DEF IInv
<1>5. At(w, "upload") /\ Busy(w) /\ ~Deletes(w) /\ task[w].run # NoEntry
      /\ task[w].c \in Codebase
  BY DEF IInv, Kinds, UploadFiles, At, Busy
<1>6. TypeOK'
  <2>1. folder' \in List
    BY <1>1 DEF IInv, UploadFiles, TypeOK, List, TaskState
  <2> QED
    BY <2>1, <1>2, <1>4 DEF IInv, UploadFiles, TypeOK, At
<1>7. Kinds'
  BY <1>2, <1>4, <1>5 DEF IInv, Kinds, Busy, At, Deletes
<1>8. Alone'
  BY <1>2, <1>4, <1>5 DEF IInv, Alone, UploadFiles, Section, Busy, At
<1>9. Current' /\ ListExact' /\ SummaryExact'
  BY <1>2, <1>4 DEF IInv, Current, ListExact, SummaryExact, UploadFiles, At
<1>10. Gone'
  BY <1>2, <1>4 DEF IInv, Gone, UploadFiles, Deletes, At
<1>11. Uploaded'
  BY <1>2, <1>4, <1>5 DEF IInv, Uploaded, UploadFiles, Active, Deletes, Busy, At,
                          TypeOK, List
<1> QED
  BY <1>6, <1>7, <1>8, <1>9, <1>10, <1>11 DEF IInv

LEMMA StartDeleteInv ==
  ASSUME IInv, NEW w \in Worker, NEW c \in Codebase, StartDelete(w, c)
  PROVE  IInv'
<1> USE FilesAssumption, IdleState
<1> DEFINE r == [Idle EXCEPT !.pc = "read", !.kind = "delete", !.c = c]
<1>1. /\ r \in TaskState /\ r.pc = "read" /\ r.c = c /\ r.run = NoEntry
      /\ r.kind = "delete"
  BY DEF TaskState, Idle
<1>2. Step(w, r)
  BY DEF StartDelete
<1> HIDE DEF r
<1>3. /\ task' \in [Worker -> TaskState] /\ task'[w] = r
      /\ \A u \in Worker : u # w => task'[u] = task[u]
  BY <1>1, <1>2, StepEffect DEF IInv
<1>4. TypeOK'
  <2>1. folder' \in List
    BY DEF IInv, StartDelete, TypeOK, List, NoEntry
  <2> QED
    BY <2>1, <1>1, <1>3 DEF IInv, StartDelete, TypeOK, Meets, Active, At
<1>5. Kinds'
  BY <1>1, <1>3 DEF IInv, Kinds, Busy, At, Deletes
<1>6. Alone'
  BY <1>1, <1>3 DEF IInv, Alone, StartDelete, Meets, Active, Section, Busy, At
<1>7. Current' /\ ListExact' /\ SummaryExact'
  BY <1>1, <1>3 DEF IInv, Current, ListExact, SummaryExact, StartDelete, Meets, At
<1>8. Gone'
  BY <1>1, <1>3 DEF IInv, Gone, StartDelete, Deletes, At
<1>9. Uploaded'
  <2>1. \A d \in Codebase : d # c => folder'[d] = folder[d]
    BY DEF IInv, TypeOK, List, StartDelete
  <2>2. w \in Active(c)' /\ Deletes(w)'
    BY <1>1, <1>3 DEF Active, Deletes
  <2>3. \A u \in Worker : u # w /\ Busy(u) /\ task[u].c = c => u \in disturbed'
    BY DEF StartDelete, Meets, Active, Busy, At
  <2>4. disturbed \subseteq disturbed' /\ last' = last /\ dirty' = dirty
    BY DEF StartDelete, Meets
  <2>5. \A d \in Codebase : \A u \in Active(d) : u \in Active(d)' /\ Deletes(u)' = Deletes(u)
    BY <1>3 DEF Active, Deletes, StartDelete, At
  <2> QED
    BY <1>1, <1>3, <2>1, <2>2, <2>3, <2>4, <2>5 DEF IInv, Kinds, Uploaded, Deletes, Busy, At
<1> QED
  BY <1>4, <1>5, <1>6, <1>7, <1>8, <1>9 DEF IInv

(* The list as w has read it, or no list when the read failed.             *)
LEMMA ReadListInv ==
  ASSUME IInv, NEW w \in Worker, ReadList(w)
  PROVE  IInv'
<1> USE FilesAssumption, IdleState
<1>1. task[w] \in TaskState /\ At(w, "read") /\ ~Deletes(w) /\ Busy(w)
      /\ task[w].c \in Codebase /\ task[w].run # NoEntry
  BY DEF IInv, TypeOK, Kinds, ReadList, Busy, At
<1>2. PICK data \in List :
        /\ Step(w, [task[w] EXCEPT !.pc = "write", !.data = data])
        /\ \/ data = list /\ dirty' = dirty
           \/ dirty' = Codebase
  BY DEF ReadList, IInv, TypeOK
<1> DEFINE r == [task[w] EXCEPT !.pc = "write", !.data = data]
<1>3. /\ r \in TaskState /\ r.pc = "write" /\ r.c = task[w].c /\ r.run = task[w].run
      /\ r.kind = task[w].kind /\ r.data = data
  BY <1>1 DEF TaskState
<1> HIDE DEF r
<1>4. /\ task' \in [Worker -> TaskState] /\ task'[w] = r
      /\ \A u \in Worker : u # w => task'[u] = task[u]
  BY <1>2, <1>3, StepEffect DEF IInv, r
<1>5. TypeOK'
  <2>1. disturbed' \subseteq {u \in Worker : ~At(u, "idle")}'
    BY <1>1, <1>3, <1>4 DEF IInv, TypeOK, ReadList, Meets, Section, At
  <2>2. dirty' \subseteq Codebase
    BY <1>2 DEF IInv, TypeOK
  <2> QED
    BY <1>3, <1>4, <2>1, <2>2 DEF IInv, TypeOK, ReadList, At
<1>6. Kinds'
  BY <1>1, <1>3, <1>4 DEF IInv, Kinds, Busy, At, Deletes
<1>7. Alone'
  BY <1>1, <1>3, <1>4 DEF IInv, Alone, ReadList, Meets, Section, Busy, At
<1>8. Current'
  BY <1>1, <1>2, <1>3, <1>4 DEF IInv, Current, ReadList, Meets, At
<1>9. ListExact' /\ SummaryExact'
  BY <1>2 DEF IInv, TypeOK, ListExact, SummaryExact, ReadList
<1>10. Gone'
  BY <1>1, <1>2, <1>3, <1>4 DEF IInv, Gone, Kinds, ReadList, Deletes, Busy, At
<1>11. Uploaded'
  BY <1>1, <1>2, <1>3, <1>4 DEF IInv, Uploaded, ReadList, Meets, Active, Deletes, Busy, At
<1> QED
  BY <1>5, <1>6, <1>7, <1>8, <1>9, <1>10, <1>11 DEF IInv

(* A deletion that finds the entry goes on as a pipeline does; one that    *)
(* finds none or cannot read is done with the list.                        *)
LEMMA ReadListDeleteInv ==
  ASSUME IInv, NEW w \in Worker, ReadListDelete(w)
  PROVE  IInv'
<1> USE FilesAssumption, IdleState
<1> DEFINE c == task[w].c
<1>1. task[w] \in TaskState /\ At(w, "read") /\ Deletes(w) /\ Busy(w)
      /\ c \in Codebase /\ task[w].run = NoEntry
  BY DEF IInv, TypeOK, Kinds, ReadListDelete, Busy, At
<1>2. CASE Step(w, [task[w] EXCEPT !.pc = "write", !.data = list])
           /\ Meets(w, Section) /\ UNCHANGED <<last, dirty>>
  <2> DEFINE r == [task[w] EXCEPT !.pc = "write", !.data = list]
  <2>1. /\ r \in TaskState /\ r.pc = "write" /\ r.c = c /\ r.run = task[w].run
        /\ r.kind = task[w].kind /\ r.data = list
    BY <1>1 DEF TaskState, IInv, TypeOK
  <2> HIDE DEF r
  <2>2. /\ task' \in [Worker -> TaskState] /\ task'[w] = r
        /\ \A u \in Worker : u # w => task'[u] = task[u]
    BY <1>2, <2>1, StepEffect DEF IInv, r
  <2>3. TypeOK'
    BY <1>2, <2>1, <2>2 DEF IInv, TypeOK, ReadListDelete, Meets, Section, At
  <2>4. Kinds'
    BY <1>1, <2>1, <2>2 DEF IInv, Kinds, Busy, At, Deletes
  <2>5. Alone'
    BY <1>1, <1>2, <2>1, <2>2 DEF IInv, Alone, ReadListDelete, Meets, Section, Busy, At
  <2>6. Current' /\ ListExact' /\ SummaryExact'
    BY <1>2, <2>1, <2>2 DEF IInv, Current, ListExact, SummaryExact, ReadListDelete, Meets, At
  <2>7. Gone'
    BY <1>2, <2>1, <2>2 DEF IInv, Gone, ReadListDelete, Deletes, At
  <2>8. Uploaded'
    BY <1>1, <1>2, <2>1, <2>2 DEF IInv, Uploaded, ReadListDelete, Meets, Active, Deletes,
                                  Busy, At
  <2> QED
    BY <2>3, <2>4, <2>5, <2>6, <2>7, <2>8 DEF IInv
<1>3. CASE /\ To(w, "rows") /\ UNCHANGED disturbed
           /\ \/ /\ list[c] = NoEntry /\ last' = [last EXCEPT ![c] = NoEntry]
                 /\ dirty' = IF w \in disturbed \/ Section # {} THEN dirty \cup {c}
                             ELSE dirty \ {c}
              \/ dirty' = dirty \cup {c} /\ UNCHANGED last
  <2> DEFINE r == [task[w] EXCEPT !.pc = "rows"]
  <2>1. /\ r \in TaskState /\ r.pc = "rows" /\ r.c = c /\ r.run = task[w].run
        /\ r.kind = task[w].kind
    BY <1>1 DEF TaskState
  <2>2. Step(w, r)
    BY <1>3 DEF To
  <2> HIDE DEF r
  <2>3. /\ task' \in [Worker -> TaskState] /\ task'[w] = r
        /\ \A u \in Worker : u # w => task'[u] = task[u]
    BY <2>1, <2>2, StepEffect DEF IInv
  <2>4. /\ last' \in List /\ dirty' \subseteq Codebase
        /\ \A d \in Codebase : d # c => last'[d] = last[d] /\ (d \in dirty' <=> d \in dirty)
        /\ c \in dirty' \/ (last'[c] = NoEntry /\ list[c] = NoEntry)
        /\ c \in dirty => c \in dirty' \/ (w \notin disturbed /\ Section = {})
        /\ last'[c] = NoEntry \/ last'[c] = last[c]
    <3>1. last \in List /\ dirty \subseteq Codebase
      BY DEF IInv, TypeOK
    <3>2. CASE /\ list[c] = NoEntry /\ last' = [last EXCEPT ![c] = NoEntry]
               /\ dirty' = IF w \in disturbed \/ Section # {} THEN dirty \cup {c}
                           ELSE dirty \ {c}
      <4>1. last' \in List /\ last'[c] = NoEntry
            /\ \A d \in Codebase : d # c => last'[d] = last[d]
        BY <1>1, <3>1, <3>2 DEF List, NoEntry
      <4> QED
        BY <1>1, <3>1, <3>2, <4>1
    <3>3. CASE dirty' = dirty \cup {c} /\ UNCHANGED last
      BY <1>1, <3>1, <3>3
    <3> QED
      BY <1>3, <3>2, <3>3
  <2>5. TypeOK'
    BY <1>3, <2>1, <2>3, <2>4 DEF IInv, TypeOK, ReadListDelete, At
  <2>6. Kinds'
    BY <1>1, <2>1, <2>3 DEF IInv, Kinds, Busy, At, Deletes
  <2>7. Alone'
    BY <1>1, <1>3, <2>1, <2>3 DEF IInv, Alone, ReadListDelete, Section, Busy, At
  <2>8. Current'
    BY <1>3, <2>1, <2>3, <2>4 DEF IInv, Current, ReadListDelete, Section, At
  <2>9. ListExact' /\ SummaryExact'
    BY <2>4 DEF IInv, ListExact, SummaryExact, ReadListDelete
  <2>10. Gone'
    BY <1>1, <1>3, <2>1, <2>3, <2>4 DEF IInv, Alone, Gone, Kinds, ReadListDelete, Deletes,
                                        Busy, At
  <2>11. Uploaded'
    BY <1>1, <1>3, <2>1, <2>3, <2>4 DEF IInv, Uploaded, ReadListDelete, Active, Deletes,
                                        Busy, At
  <2> QED
    BY <2>5, <2>6, <2>7, <2>8, <2>9, <2>10, <2>11 DEF IInv
<1> QED
  BY <1>2, <1>3 DEF ReadListDelete

(* The list is written, or the write fails.                                *)
LEMMA WriteListInv ==
  ASSUME IInv, NEW w \in Worker, WriteList(w)
  PROVE  IInv'
<1> USE FilesAssumption, IdleState
<1> DEFINE c == task[w].c
<1>1. /\ task[w] \in TaskState /\ At(w, "write") /\ Busy(w) /\ w \in Section
      /\ c \in Codebase
      /\ (Deletes(w) => task[w].run = NoEntry)
      /\ (~Deletes(w) => task[w].run # NoEntry)
  BY DEF IInv, TypeOK, Kinds, WriteList, Busy, At, Section
<1>2. Entered(w) \in List /\ Entered(w)[c] = task[w].run
      /\ \A d \in Codebase : d # c => Entered(w)[d] = task[w].data[d]
  BY <1>1 DEF TaskState, Entered, List
<1>3. CASE /\ list' = Entered(w)
           /\ last' = [last EXCEPT ![c] = task[w].run]
           /\ Updated(w, c)
           /\ Step(w, IF Deletes(w)
                      THEN [task[w] EXCEPT !.pc = "write_sum", !.data = Entered(w)]
                      ELSE [task[w] EXCEPT !.pc = "sum", !.data = Empty])
  <2> DEFINE r == IF Deletes(w)
                  THEN [task[w] EXCEPT !.pc = "write_sum", !.data = Entered(w)]
                  ELSE [task[w] EXCEPT !.pc = "sum", !.data = Empty]
  <2>1. /\ r \in TaskState /\ r.pc = IF Deletes(w) THEN "write_sum" ELSE "sum"
        /\ r.c = c /\ r.run = task[w].run /\ r.kind = task[w].kind
        /\ (Deletes(w) => r.data = list')
    BY <1>1, <1>2, <1>3 DEF TaskState
  <2>2. Step(w, r)
    BY <1>3
  <2> HIDE DEF r
  <2>3. /\ task' \in [Worker -> TaskState] /\ task'[w] = r
        /\ \A u \in Worker : u # w => task'[u] = task[u]
    BY <2>1, <2>2, StepEffect DEF IInv
  <2>4. /\ last' \in List /\ last'[c] = task[w].run
        /\ \A d \in Codebase : d # c => last'[d] = last[d]
    BY <1>1, <1>3 DEF IInv, TypeOK, List, TaskState
  <2>5. /\ dirty' \subseteq Codebase /\ (c \in dirty' <=> w \in disturbed)
        /\ \A d \in Codebase : d # c => (d \in dirty' <=> d \in dirty)
    BY <1>1, <1>3 DEF IInv, TypeOK, Updated
  <2>6. TypeOK'
    <3>1. stale' \in BOOLEAN
      BY DEF WriteList
    <3> QED
      BY <1>2, <1>3, <2>1, <2>3, <2>4, <2>5, <3>1 DEF IInv, TypeOK, WriteList, At
  <2>7. Kinds'
    BY <1>1, <2>1, <2>3 DEF IInv, Kinds, Busy, At, Deletes
  <2>8. Alone'
    BY <1>1, <2>1, <2>3 DEF IInv, Alone, WriteList, Section, Busy, At
  <2>9. \A u \in Worker \ {w} : u \in Section => w \in disturbed /\ u \in disturbed
    BY <1>1 DEF IInv, Alone, Busy, At, Section
  <2>10. \A d \in Codebase \ dirty : d # c => list'[d] = list[d]
    BY <1>1, <1>2, <1>3 DEF IInv, Current
  <2>11. Current'
    BY <1>1, <2>1, <2>3, <2>5, <2>9, <2>10 DEF IInv, Current, WriteList, Section, At
  <2>12. ListExact' /\ SummaryExact'
    BY <1>2, <1>3, <2>4, <2>5, <2>10 DEF IInv, ListExact, SummaryExact, WriteList
  <2>13. Gone'
    BY <1>1, <2>1, <2>3, <2>4, <2>5 DEF IInv, Alone, Gone, Kinds, WriteList, Deletes, Busy, At
  <2>14. Uploaded'
    BY <1>1, <2>1, <2>3, <2>4, <2>5 DEF IInv, Uploaded, WriteList, Active, Deletes, Busy, At
  <2> QED
    BY <2>6, <2>7, <2>8, <2>11, <2>12, <2>13, <2>14 DEF IInv
<1>4. CASE /\ dirty' = dirty \cup {c} /\ UNCHANGED <<list, last>>
           /\ To(w, IF Deletes(w) THEN "rows" ELSE "sum")
  <2> DEFINE r == [task[w] EXCEPT !.pc = IF Deletes(w) THEN "rows" ELSE "sum"]
  <2>1. /\ r \in TaskState /\ r.pc = IF Deletes(w) THEN "rows" ELSE "sum"
        /\ r.c = c /\ r.run = task[w].run /\ r.kind = task[w].kind
    BY <1>1 DEF TaskState
  <2>2. Step(w, r)
    BY <1>4 DEF To
  <2> HIDE DEF r
  <2>3. /\ task' \in [Worker -> TaskState] /\ task'[w] = r
        /\ \A u \in Worker : u # w => task'[u] = task[u]
    BY <2>1, <2>2, StepEffect DEF IInv
  <2>4. TypeOK'
    <3>1. stale' \in BOOLEAN
      BY DEF WriteList
    <3> QED
      BY <1>1, <1>4, <2>1, <2>3, <3>1 DEF IInv, TypeOK, WriteList, At
  <2>5. Kinds'
    BY <1>1, <2>1, <2>3 DEF IInv, Kinds, Busy, At, Deletes
  <2>6. Alone'
    BY <1>1, <2>1, <2>3 DEF IInv, Alone, WriteList, Section, Busy, At
  <2>7. Current' /\ ListExact' /\ SummaryExact'
    BY <1>4, <2>1, <2>3 DEF IInv, Current, ListExact, SummaryExact, WriteList, At
  <2>8. Gone'
    BY <1>1, <1>4, <2>1, <2>3 DEF IInv, Gone, Kinds, WriteList, Deletes, Busy, At
  <2>9. Uploaded'
    BY <1>1, <1>4, <2>1, <2>3 DEF IInv, Uploaded, WriteList, Active, Deletes, Busy, At
  <2> QED
    BY <2>4, <2>5, <2>6, <2>7, <2>8, <2>9 DEF IInv
<1> QED
  BY <1>3, <1>4 DEF WriteList

(* A step of a task that leaves the list and its history alone and goes on *)
(* where the summary is written or the rows are deleted.                   *)
LEMMA GoOnInv ==
  ASSUME IInv, NEW w \in Worker, NEW r \in TaskState, Step(w, r),
         At(w, "sum") \/ At(w, "write_sum"),
         r.pc \in {"write_sum", "rows"},
         r.pc = "rows" => Deletes(w),
         r.pc = "write_sum" => r.data = list,
         r.c = task[w].c, r.run = task[w].run, r.kind = task[w].kind,
         UNCHANGED <<alive, folder, list, disturbed, last, dirty, runs>>,
         summary' \in List, stale' \in BOOLEAN, SummaryExact'
  PROVE  IInv'
<1>1. /\ task' \in [Worker -> TaskState] /\ task'[w] = r
      /\ \A u \in Worker : u # w => task'[u] = task[u]
  BY StepEffect DEF IInv
<1>2. Busy(w) /\ w \in Section
  BY DEF Busy, At, Section
<1>3. TypeOK'
  BY <1>1, <1>2 DEF IInv, TypeOK, Busy, At
<1>4. Kinds'
  BY <1>1, <1>2 DEF IInv, Kinds, Busy, At, Deletes
<1>5. Alone'
  BY <1>1, <1>2 DEF IInv, Alone, Section, Busy, At
<1>6. Current' /\ ListExact'
  BY <1>1 DEF IInv, Current, ListExact, At
<1>7. Gone'
  BY <1>1, <1>2 DEF IInv, Gone, Kinds, Deletes, Busy, At
<1>8. Uploaded'
  BY <1>1, <1>2 DEF IInv, Uploaded, Active, Deletes, Busy, At
<1> QED
  BY <1>3, <1>4, <1>5, <1>6, <1>7, <1>8 DEF IInv

(* The end of a task; a deletion ends with the rows, or its codebase is    *)
(* among the exceptions.                                                   *)
LEMMA EndInv ==
  ASSUME IInv, NEW w \in Worker, Busy(w), End(w),
         UNCHANGED <<folder, list, last, runs>>,
         summary' \in List, stale' \in BOOLEAN, SummaryExact',
         dirty' \subseteq Codebase, dirty \subseteq dirty',
         \/ alive' = alive /\ (Deletes(w) => task[w].c \in dirty')
         \/ alive' = alive \ {task[w].c} /\ At(w, "rows") /\ dirty' = dirty
  PROVE  IInv'
<1>1. /\ task' \in [Worker -> TaskState] /\ task'[w] = Idle
      /\ \A u \in Worker : u # w => task'[u] = task[u]
  BY IdleState, StepEffect DEF IInv, End
<1>2. task'[w].pc = "idle" /\ ~Deletes(w)' /\ disturbed' = disturbed \ {w}
  BY <1>1 DEF Idle, Deletes, End
<1>3. TypeOK'
  BY <1>1, <1>2 DEF IInv, TypeOK, At
<1>4. Kinds'
  BY <1>1, <1>2 DEF IInv, Kinds, Busy, At, Deletes
<1>5. Alone'
  BY <1>1, <1>2 DEF IInv, Alone, Section, Busy, At
<1>6. Current' /\ ListExact'
  BY <1>1, <1>2 DEF IInv, Current, ListExact, At
<1>7. Gone'
  BY <1>1, <1>2 DEF IInv, Gone, Kinds, Deletes, Busy, At
<1>8. Uploaded'
  BY <1>1, <1>2 DEF IInv, Uploaded, Gone, Kinds, Active, Deletes, Busy, At
<1> QED
  BY <1>3, <1>4, <1>5, <1>6, <1>7, <1>8 DEF IInv

LEMMA ReadForSummaryInv ==
  ASSUME IInv, NEW w \in Worker, ReadForSummary(w)
  PROVE  IInv'
<1>1. task[w] \in TaskState /\ At(w, "sum") /\ Busy(w) /\ ~Deletes(w)
  BY DEF IInv, TypeOK, Kinds, ReadForSummary, Busy, At
<1>2. summary' \in List /\ stale' \in BOOLEAN /\ SummaryExact'
  BY DEF IInv, TypeOK, SummaryExact, ReadForSummary
<1>3. CASE Step(w, [task[w] EXCEPT !.pc = "write_sum", !.data = list])
           /\ UNCHANGED disturbed
  <2> DEFINE r == [task[w] EXCEPT !.pc = "write_sum", !.data = list]
  <2>1. /\ r \in TaskState /\ r.pc = "write_sum" /\ r.data = list
        /\ r.c = task[w].c /\ r.run = task[w].run /\ r.kind = task[w].kind
    BY <1>1 DEF TaskState, IInv, TypeOK
  <2> HIDE DEF r
  <2> QED
    BY <1>1, <1>2, <1>3, <2>1, GoOnInv DEF ReadForSummary, r
<1>4. CASE End(w)
  BY <1>1, <1>2, <1>4, EndInv DEF ReadForSummary, IInv, TypeOK
<1> QED
  BY <1>3, <1>4 DEF ReadForSummary

LEMMA WriteSummaryInv ==
  ASSUME IInv, NEW w \in Worker, WriteSummary(w)
  PROVE  IInv'
<1>1. task[w] \in TaskState /\ At(w, "write_sum") /\ Busy(w)
  BY DEF IInv, TypeOK, WriteSummary, Busy, At
<1>2. summary' \in List
  BY <1>1 DEF IInv, TypeOK, TaskState, WriteSummary
<1>3. stale' \in BOOLEAN
  <2>1. stale' = (w \in disturbed) \/ stale' = TRUE
    BY DEF WriteSummary
  <2> QED
    BY <2>1, (w \in disturbed) \in BOOLEAN, Zenon
<1>4. SummaryExact'
  BY <1>1 DEF IInv, Current, SummaryExact, WriteSummary
<1>5. CASE Deletes(w)
  <2> DEFINE r == [task[w] EXCEPT !.pc = "rows"]
  <2>1. /\ r \in TaskState /\ r.pc = "rows"
        /\ r.c = task[w].c /\ r.run = task[w].run /\ r.kind = task[w].kind
    BY <1>1 DEF TaskState
  <2>2. Step(w, r) /\ UNCHANGED disturbed
    BY <1>5 DEF WriteSummary, To
  <2> HIDE DEF r
  <2> QED
    BY <1>1, <1>2, <1>3, <1>4, <1>5, <2>1, <2>2, GoOnInv DEF WriteSummary
<1>6. CASE ~Deletes(w)
  BY <1>1, <1>2, <1>3, <1>4, <1>6, EndInv DEF WriteSummary, IInv, TypeOK
<1> QED
  BY <1>5, <1>6

LEMMA DeleteRowsInv ==
  ASSUME IInv, NEW w \in Worker, DeleteRows(w)
  PROVE  IInv'
<1>1. Busy(w) /\ At(w, "rows")
  BY DEF DeleteRows, Busy, At
<1>2. summary' \in List /\ stale' \in BOOLEAN /\ SummaryExact' /\ dirty' \subseteq Codebase
  BY DEF IInv, TypeOK, SummaryExact, DeleteRows
<1> QED
  BY <1>1, <1>2, EndInv DEF DeleteRows

LEMMA CrashInv ==
  ASSUME IInv, NEW w \in Worker, Crash(w)
  PROVE  IInv'
<1>1. Busy(w) /\ task[w].c \in Codebase
  BY DEF IInv, Kinds, Crash, Busy
<1>2. summary' \in List /\ stale' \in BOOLEAN /\ SummaryExact'
  BY DEF IInv, TypeOK, SummaryExact, Crash
<1>3. dirty' \subseteq Codebase /\ dirty \subseteq dirty'
      /\ (Deletes(w) => task[w].c \in dirty')
  BY <1>1 DEF IInv, TypeOK, Crash
<1> QED
  BY <1>1, <1>2, <1>3, EndInv DEF Crash
------------------------------------------------------------------------------
(* The invariant is inductive.                                             *)
LEMMA StepInv == IInv /\ [Next]_vars => IInv'
<1> SUFFICES ASSUME IInv, [Next]_vars PROVE IInv'
  OBVIOUS
<1>1. CASE UNCHANGED vars
  <2>1. \A w \in Worker : (Busy(w)' <=> Busy(w)) /\ (Deletes(w)' <=> Deletes(w))
    BY <1>1 DEF vars, Busy, At, Deletes
  <2>2. Section' = Section /\ \A c \in Codebase : Active(c)' = Active(c)
    BY <1>1 DEF vars, Section, Active
  <2>3. TypeOK'
    BY <1>1 DEF vars, IInv, TypeOK, At
  <2>4. Kinds'
    BY <1>1, <2>1 DEF vars, IInv, Kinds
  <2>5. Alone'
    BY <1>1, <2>1, <2>2 DEF vars, IInv, Alone
  <2>6. Current' /\ ListExact' /\ SummaryExact'
    BY <1>1 DEF vars, IInv, Current, ListExact, SummaryExact, At
  <2>7. Gone' /\ Uploaded'
    BY <1>1 DEF vars, IInv, Gone, Uploaded, Active, Deletes, Busy, At
  <2> QED
    BY <2>3, <2>4, <2>5, <2>6, <2>7 DEF IInv
<1>2. ASSUME NEW w \in Worker, NEW c \in Codebase, StartPipeline(w, c) \/ StartDelete(w, c)
      PROVE  IInv'
  BY <1>2, StartPipelineInv, StartDeleteInv
<1>3. ASSUME NEW w \in Worker,
             UploadFiles(w) \/ ReadList(w) \/ ReadListDelete(w) \/ WriteList(w)
             \/ ReadForSummary(w) \/ WriteSummary(w) \/ DeleteRows(w) \/ Crash(w)
      PROVE  IInv'
  BY <1>3, UploadFilesInv, ReadListInv, ReadListDeleteInv, WriteListInv,
     ReadForSummaryInv, WriteSummaryInv, DeleteRowsInv, CrashInv
<1> QED
  BY <1>1, <1>2, <1>3 DEF Next

(* The inductive invariant: tasks that met no other have the files and     *)
(* their codebase for themselves, and what they hold is current.           *)
THEOREM Invariance == Spec => []IInv
<1>1. Init => IInv
  BY InitInv
<1>2. IInv /\ [Next]_vars => IInv'
  BY StepInv
<1> QED
  BY <1>1, <1>2, PTL DEF Spec

(* Every reachable state is well typed.                                    *)
THEOREM TypeCorrect == Spec => []TypeOK
<1>1. IInv => TypeOK
  BY DEF IInv
<1> QED
  BY <1>1, Invariance, PTL

(* The list has what the last update of each entry put there, but for the  *)
(* updates that met another task or failed (_update_codebases_list).       *)
THEOREM ListIsExact == Spec => []ListExact
<1>1. IInv => ListExact
  BY DEF IInv
<1> QED
  BY <1>1, Invariance, PTL

(* The summary was computed from the list as it is, but for an update of   *)
(* it that is under way, met another task or failed (_update_org_summary). *)
THEOREM SummaryIsExact == Spec => []SummaryExact
<1>1. IInv => SummaryExact
  BY DEF IInv
<1> QED
  BY <1>1, Invariance, PTL

(* An entry leads to files, but for those exceptions and while a deletion  *)
(* of its codebase is in progress.                                         *)
THEOREM EntriesHaveFiles == Spec => []EntryHasFiles
<1>1. IInv => EntryHasFiles
  BY DEF IInv, ListExact, Uploaded, EntryHasFiles
<1> QED
  BY <1>1, Invariance, PTL

(* A deleted codebase does not come back to the list, but for those        *)
(* exceptions (update_org_files_after_deletion).                           *)
THEOREM DeletedAreNotListed == Spec => []DeletedNotListed
<1>1. IInv => DeletedNotListed
  BY DEF IInv, ListExact, Gone, DeletedNotListed
<1> QED
  BY <1>1, Invariance, PTL
===============================================================================
