------------------------- MODULE S3BackedCacheProofs --------------------------
(***************************************************************************)
(* Theorems about S3BackedCache: one download at a time and reads of what  *)
(* the container put, for any number of containers, threads and puts.      *)
(***************************************************************************)
EXTENDS S3BackedCache, FiniteSetTheorems, TLAPS

Held(t) == th[t].pc \in {"check", "download", "store", "evict"}

(* A lock has one holder.                                                  *)
Excluded ==
  \A t, u \in Thread : Held(t) /\ Held(u) /\ th[t].lock = th[u].lock => t = u

(* The threads of a container use the lock in its table, if none was       *)
(* dropped in use.                                                         *)
InTable ==
  \A t \in Thread :
    th[t].lock # NoLock /\ Home[t] \notin dropped => th[t].lock = table[Home[t]]

(* While no put met another put or a load: a put under way is the last one *)
(* and alone, its container has its value or none, and what has ended is   *)
(* in S3.                                                                  *)
LastPut ==
  \A t \in Putting :
    /\ th[t].val = puts
    /\ \A u \in Putting : u = t
    /\ Loading(Home[t]) = {}
    /\ l1[Home[t]].val \in {Absent, puts}

Stored == \A c \in Container : newest[c] <= s3
Counted == s3 <= puts

(* What is in memory or on its way there is as new as the last put of the  *)
(* container, and a get expects no more.                                   *)
Current ==
  /\ \A c \in Container : l1[c].val # Absent => newest[c] <= l1[c].val
  /\ \A t \in Thread : th[t].pc = "store" => newest[Home[t]] <= th[t].val
  /\ \A t \in Thread : th[t].least <= newest[Home[t]]
  /\ \A t \in Thread : th[t].pc \in {"evict", "returned"} => th[t].least <= th[t].val

Calm == LastPut /\ Stored /\ Counted /\ Current

IInv == TypeOK /\ Excluded /\ InTable /\ (torn \/ Calm)
-----------------------------------------------------------------------------
(* Initially there is nothing.                                             *)
LEMMA InitInv == Init => IInv
<1> SUFFICES ASSUME Init PROVE IInv
  OBVIOUS
<1> USE CacheAssumption
<1>1. Idle \in ThreadState
  BY DEF Idle, ThreadState, Absent
<1>2. \A t \in Thread : th[t] = Idle /\ th[t].pc = "idle" /\ th[t].lock = NoLock /\ th[t].least = Absent
  BY DEF Init, Idle
<1>3. TypeOK
  <2>1. l1 \in [Container -> [val : Value \cup {Absent}, old : BOOLEAN]]
    BY DEF Init, Nothing
  <2>2. th \in [Thread -> ThreadState]
    BY <1>1 DEF Init
  <2>3. \A t \in Thread : th[t].lock # NoLock <=>
          th[t].pc \in {"acquire", "check", "download", "store", "evict"}
    BY <1>2
  <2>4. puts \in 0 .. MaxPuts /\ ops \in 0 .. MaxOps
    BY DEF Init
  <2>5. /\ table \in [Container -> Lock \cup {NoLock}] /\ s3 \in Value \cup {Absent}
        /\ newest \in [Container -> Value \cup {Absent}]
        /\ dropped \subseteq Container /\ torn \in BOOLEAN
    BY DEF Init
  <2> QED
    BY <2>1, <2>2, <2>3, <2>4, <2>5 DEF TypeOK
<1>4. Excluded /\ InTable
  BY <1>2 DEF Excluded, InTable, Held
<1>5. LastPut /\ Stored /\ Counted
  BY <1>2 DEF LastPut, Putting, Stored, Counted, Init, Absent
<1>6. Current
  BY <1>2 DEF Current, Init, Nothing, Absent
<1> QED
  BY <1>3, <1>4, <1>5, <1>6 DEF IInv, Calm

(* A container without a lock of the key gets one that nobody refers to.   *)
LEMMA NewLockExists ==
  ASSUME TypeOK, NEW t \in Thread, th[t].lock = NoLock, table[Home[t]] = NoLock
  PROVE  /\ NewLock \in Lock
         /\ \A u \in Thread : th[u].lock # NewLock
         /\ \A d \in Container : table[d] # NewLock
<1> USE CacheAssumption, LockAssumption
<1> DEFINE c == Home[t]
           T == Thread \ {t}
           C == Container \ {c}
           f == [u \in T |-> th[u].lock]
           g == [d \in C |-> table[d]]
           F == {f[u] : u \in T}
           G == {g[d] : d \in C}
<1>1. c \in Container
  OBVIOUS
<1>2. /\ IsFiniteSet(T) /\ Cardinality(T) = Cardinality(Thread) - 1
      /\ IsFiniteSet(C) /\ Cardinality(C) = Cardinality(Container) - 1
  BY <1>1, FS_RemoveElement
<1>3. f \in Surjection(T, F) /\ g \in Surjection(C, G)
  BY DEF Surjection
<1>4. IsFiniteSet(F) /\ Cardinality(F) <= Cardinality(T)
  <2> HIDE DEF f, F, T
  <2> QED
    BY <1>2, <1>3, FS_Surjection
<1>5. IsFiniteSet(G) /\ Cardinality(G) <= Cardinality(C)
  <2> HIDE DEF g, G, C
  <2> QED
    BY <1>2, <1>3, FS_Surjection
<1>6. ~(Lock \subseteq F \cup G)
  <2> HIDE DEF F, G, T, C
  <2> SUFFICES ASSUME Lock \subseteq F \cup G PROVE FALSE
    OBVIOUS
  <2>1. /\ IsFiniteSet(F \cup G)
        /\ Cardinality(F \cup G) = Cardinality(F) + Cardinality(G) - Cardinality(F \cap G)
    BY <1>4, <1>5, FS_Union
  <2>2. IsFiniteSet(F \cap G)
    BY <1>4, FS_Subset
  <2>3. IsFiniteSet(Lock) /\ Cardinality(Lock) <= Cardinality(F \cup G)
    BY <2>1, FS_Subset
  <2>4. /\ Cardinality(F) \in Nat /\ Cardinality(G) \in Nat /\ Cardinality(F \cap G) \in Nat
        /\ Cardinality(Lock) \in Nat /\ Cardinality(T) \in Nat /\ Cardinality(C) \in Nat
        /\ Cardinality(Thread) \in Nat /\ Cardinality(Container) \in Nat
        /\ Cardinality(F \cup G) \in Nat
    BY <1>2, <1>4, <1>5, <2>1, <2>2, <2>3, FS_CardinalityType
  <2> QED
    BY <1>2, <1>4, <1>5, <2>1, <2>3, <2>4
<1>7. PICK k \in Lock : k \notin F /\ k \notin G
  BY <1>6
<1>8. \A u \in Thread : th[u].lock # k
  BY <1>7
<1>9. \A d \in Container : table[d] # k
  BY <1>7
<1> QED
  BY <1>8, <1>9 DEF NewLock

(* What a thread may become: its place, its value, its lock, its least.    *)
LEMMA StepTyped ==
  ASSUME TypeOK, NEW t \in Thread, NEW r \in ThreadState, Step(t, r),
         r.lock # NoLock <=> r.pc \in {"acquire", "check", "download", "store", "evict"}
  PROVE  /\ th' \in [Thread -> ThreadState]
         /\ \A u \in Thread : th'[u].lock # NoLock <=>
              th'[u].pc \in {"acquire", "check", "download", "store", "evict"}
         /\ th'[t] = r
         /\ \A u \in Thread \ {t} : th'[u] = th[u]
BY DEF TypeOK, Step

(* The type invariant is kept.                                             *)
LEMMA TypeNext == TypeOK /\ [Next]_vars => TypeOK'
<1> SUFFICES ASSUME TypeOK, [Next]_vars PROVE TypeOK'
  OBVIOUS
<1> USE CacheAssumption
<1> DEFINE Seen == Value \cup {Absent}
           Memory == [val : Seen, old : BOOLEAN]
           Typed(x) == /\ x \in ThreadState
                       /\ x.lock # NoLock <=>
                            x.pc \in {"acquire", "check", "download", "store", "evict"}
<1>1. ASSUME NEW t \in Thread
      PROVE  /\ Home[t] \in Container /\ Typed(th[t])
             /\ th[t].val \in Seen /\ th[t].least \in Seen /\ th[t].lock \in Lock \cup {NoLock}
             /\ newest[Home[t]] \in Seen /\ l1[Home[t]] \in Memory
             /\ table[Home[t]] \in Lock \cup {NoLock}
  BY <1>1 DEF TypeOK, ThreadState
<1>2. /\ l1 \in [Container -> Memory] /\ table \in [Container -> Lock \cup {NoLock}]
      /\ s3 \in Seen /\ newest \in [Container -> Seen]
      /\ puts \in 0 .. MaxPuts /\ ops \in 0 .. MaxOps
      /\ dropped \subseteq Container /\ torn \in BOOLEAN
  BY DEF TypeOK
<1>3. Nothing \in Memory /\ Absent \in Seen
  BY DEF Nothing
<1>4. Typed(Idle)
  BY DEF Idle, ThreadState
<1>5. ASSUME NEW v \in Seen, NEW w \in Seen,
             NEW p \in {"idle", "pop", "pop_other", "upload", "guard", "returned", "unlock"}
      PROVE  /\ Typed([Idle EXCEPT !.pc = p])
             /\ Typed([Idle EXCEPT !.pc = p, !.val = v])
             /\ Typed([Idle EXCEPT !.pc = p, !.least = w])
             /\ Typed([Idle EXCEPT !.pc = p, !.val = v, !.least = w])
  BY <1>4, <1>5 DEF Idle, ThreadState
<1>6. ASSUME NEW t \in Thread, NEW r, Typed(r), Step(t, r),
             l1' \in [Container -> Memory], table' \in [Container -> Lock \cup {NoLock}],
             s3' \in Seen, newest' \in [Container -> Seen],
             puts' \in 0 .. MaxPuts, ops' \in 0 .. MaxOps,
             dropped' \subseteq Container, torn' \in BOOLEAN
      PROVE  TypeOK'
  BY <1>6, StepTyped DEF TypeOK
<1>7. ASSUME NEW c \in Container, PopLock(c)
      PROVE  table' \in [Container -> Lock \cup {NoLock}] /\ dropped' \subseteq Container
  BY <1>2, <1>7 DEF PopLock
<1>8. ASSUME NEW c \in Container, Look(c)
      PROVE  l1' \in [Container -> Memory]
  BY <1>2, <1>3, <1>8 DEF Look
<1> HIDE DEF Seen, Memory, Typed
<1>9. CASE UNCHANGED vars
  BY <1>9 DEF vars, TypeOK
<1>10. ASSUME NEW t \in Thread, Put(t)
       PROVE  TypeOK'
  <2>1. puts + 1 \in Seen /\ puts' \in 0 .. MaxPuts
    BY <1>2, <1>10 DEF Put, Seen, Value
  <2>2. [val |-> puts + 1, old |-> FALSE] \in Memory
    BY <2>1 DEF Memory
  <2>3. l1' \in [Container -> Memory]
    BY <1>1, <1>2, <1>10, <2>2 DEF Put
  <2> DEFINE p == IF Expired(Home[t]) THEN "pop" ELSE "upload"
             r == [Idle EXCEPT !.pc = p, !.val = puts + 1]
  <2>4. p \in {"pop", "upload"}
    OBVIOUS
  <2>5. Step(t, r)
    BY <1>10 DEF Put
  <2> HIDE DEF p
  <2>7. Typed(r)
    BY <1>3, <1>5, <2>1, <2>4
  <2>8. torn' \in BOOLEAN
    BY Zenon, <1>10 DEF Put
  <2>9. UNCHANGED <<table, s3, newest, ops, dropped>>
    BY <1>10 DEF Put
  <2> HIDE DEF r
  <2> QED
    BY <1>2, <1>6, <2>1, <2>3, <2>5, <2>7, <2>8, <2>9
<1>11. ASSUME NEW t \in Thread, PutOther(t)
       PROVE  TypeOK'
  <2>1. l1' \in [Container -> Memory]
    BY <1>1, <1>2, <1>3, <1>11 DEF PutOther
  <2>2. ops' \in 0 .. MaxOps
    BY <1>2, <1>11 DEF PutOther, Begin
  <2>3. Typed([Idle EXCEPT !.pc = "pop_other"])
    BY <1>3, <1>5
  <2> QED
    BY <1>2, <1>6, <1>11, <2>1, <2>2, <2>3 DEF PutOther
<1>12. ASSUME NEW t \in Thread, PopEvicted(t)
       PROVE  TypeOK'
  <2> DEFINE r == IF th[t].pc = "pop" THEN [th[t] EXCEPT !.pc = "upload"] ELSE Idle
  <2>1. Step(t, r)
    BY <1>12 DEF PopEvicted, To
  <2>2. Typed(r)
    BY <1>1, <1>4, <1>12 DEF PopEvicted, Typed, ThreadState
  <2>3. table' \in [Container -> Lock \cup {NoLock}] /\ dropped' \subseteq Container
    BY <1>1, <1>7, <1>12 DEF PopEvicted
  <2> HIDE DEF r
  <2> QED
    BY <1>2, <1>6, <1>12, <2>1, <2>2, <2>3 DEF PopEvicted
<1>13. ASSUME NEW t \in Thread, Upload(t)
       PROVE  TypeOK'
  <2>1. s3' \in Seen /\ newest' \in [Container -> Seen]
    BY <1>1, <1>2, <1>13 DEF Upload
  <2>2. torn' \in BOOLEAN
    BY <1>2, <1>13 DEF Upload
  <2> QED
    BY <1>2, <1>4, <1>6, <1>13, <2>1, <2>2 DEF Upload
<1>14. ASSUME NEW t \in Thread, Get(t)
       PROVE  TypeOK'
  <2> DEFINE c == Home[t]
             r == IF Hit(c)
                  THEN [Idle EXCEPT !.pc = "returned", !.val = l1[c].val, !.least = newest[c]]
                  ELSE [Idle EXCEPT !.pc = "guard", !.least = newest[c]]
  <2>1. Step(t, r)
    BY <1>14 DEF Get
  <2>2. l1[c].val \in Seen
    BY <1>1 DEF Memory
  <2>3. Typed(r)
    BY <1>1, <1>3, <1>5, <2>2
  <2>4. l1' \in [Container -> Memory] /\ ops' \in 0 .. MaxOps
    BY <1>1, <1>2, <1>8, <1>14 DEF Get, Begin
  <2> HIDE DEF r
  <2> QED
    BY <1>2, <1>6, <1>14, <2>1, <2>3, <2>4 DEF Get
<1>15. ASSUME NEW t \in Thread, FindLock(t)
       PROVE  TypeOK'
  <2> DEFINE k == IF table[Home[t]] = NoLock THEN NewLock ELSE table[Home[t]]
             r == [th[t] EXCEPT !.pc = "acquire", !.lock = k]
  <2>1. th[t].lock = NoLock
    BY <1>1, <1>15 DEF FindLock, Typed
  <2>2. k \in Lock
    BY <1>1, <2>1, NewLockExists
  <2>3. Typed(r)
    BY <1>1, <2>2 DEF Typed, ThreadState
  <2>4. Step(t, r) /\ table' = [table EXCEPT ![Home[t]] = k]
    BY <1>15 DEF FindLock
  <2> HIDE DEF k, r
  <2>5. table' \in [Container -> Lock \cup {NoLock}]
    BY <1>1, <1>2, <2>2, <2>4
  <2> QED
    BY <1>2, <1>6, <1>15, <2>3, <2>4, <2>5 DEF FindLock
<1>16. ASSUME NEW t \in Thread, Acquire(t)
       PROVE  TypeOK'
  <2>1. Typed([th[t] EXCEPT !.pc = "check"])
    BY <1>1, <1>16 DEF Acquire, Typed, ThreadState
  <2> QED
    BY <1>2, <1>6, <1>16, <2>1 DEF Acquire, To
<1>17. ASSUME NEW t \in Thread, NEW v \in Seen, Return(t, v)
       PROVE  \E r : Typed(r) /\ Step(t, r)
  BY <1>1, <1>5, <1>17 DEF Return
<1>18. ASSUME NEW t \in Thread, CheckAgain(t)
       PROVE  TypeOK'
  <2>1. l1' \in [Container -> Memory]
    BY <1>1, <1>8, <1>18 DEF CheckAgain
  <2>2. \E r : Typed(r) /\ Step(t, r)
    <3>1. CASE Hit(Home[t])
      <4>1. l1[Home[t]].val \in Seen
        BY <1>1 DEF Memory
      <4> QED
        BY <1>17, <1>18, <3>1, <4>1 DEF CheckAgain
    <3>2. CASE ~Hit(Home[t])
      <4>1. Typed([th[t] EXCEPT !.pc = "download"])
        BY <1>1, <1>18 DEF CheckAgain, Typed, ThreadState
      <4> QED
        BY <1>18, <3>2, <4>1 DEF CheckAgain, To
    <3> QED
      BY <3>1, <3>2
  <2>3. torn' \in BOOLEAN
    BY Zenon, <1>2, <1>18 DEF CheckAgain
  <2> QED
    BY <1>2, <1>6, <1>18, <2>1, <2>2, <2>3 DEF CheckAgain
<1>19. ASSUME NEW t \in Thread, Download(t)
       PROVE  TypeOK'
  <2>1. Typed([th[t] EXCEPT !.pc = "store", !.val = s3])
    BY <1>1, <1>2, <1>19 DEF Download, Typed, ThreadState, Seen
  <2>2. \E r : Typed(r) /\ Step(t, r)
    BY <1>4, <1>19, <2>1 DEF Download
  <2> QED
    BY <1>2, <1>6, <1>19, <2>2 DEF Download
<1>20. ASSUME NEW t \in Thread, Store(t)
       PROVE  TypeOK'
  <2>1. [val |-> th[t].val, old |-> FALSE] \in Memory
    BY <1>1 DEF Memory
  <2>2. l1' \in [Container -> Memory]
    BY <1>1, <1>2, <1>20, <2>1 DEF Store
  <2>3. Typed([th[t] EXCEPT !.pc = "evict"])
    BY <1>1, <1>20 DEF Store, Typed, ThreadState
  <2>4. \E r : Typed(r) /\ Step(t, r)
    BY <1>1, <1>17, <1>20, <2>3 DEF Store, To
  <2> QED
    BY <1>2, <1>6, <1>20, <2>2, <2>4 DEF Store
<1>21. ASSUME NEW t \in Thread, EvictHeld(t)
       PROVE  TypeOK'
  <2>1. \E r : Typed(r) /\ Step(t, r)
    BY <1>1, <1>17, <1>21 DEF EvictHeld
  <2>2. table' \in [Container -> Lock \cup {NoLock}] /\ dropped' \subseteq Container
    BY <1>1, <1>7, <1>21 DEF EvictHeld
  <2> QED
    BY <1>2, <1>6, <1>21, <2>1, <2>2 DEF EvictHeld
<1>22. ASSUME NEW t \in Thread, Leave(t)
       PROVE  TypeOK'
  BY <1>2, <1>4, <1>6, <1>22 DEF Leave
<1>23. ASSUME NEW t \in Thread, Delete(t)
       PROVE  TypeOK'
  <2>1. Typed([th[t] EXCEPT !.pc = "unlock"])
    BY <1>1, <1>23 DEF Delete, Begin, Typed, ThreadState
  <2>2. l1' \in [Container -> Memory] /\ ops' \in 0 .. MaxOps
    BY <1>1, <1>2, <1>3, <1>23 DEF Delete, Begin
  <2> QED
    BY <1>2, <1>6, <1>23, <2>1, <2>2 DEF Delete, To
<1>24. ASSUME NEW t \in Thread, DeleteLock(t)
       PROVE  TypeOK'
  <2>1. table' \in [Container -> Lock \cup {NoLock}] /\ dropped' \subseteq Container
    BY <1>1, <1>7, <1>24 DEF DeleteLock
  <2> QED
    BY <1>2, <1>4, <1>6, <1>24, <2>1 DEF DeleteLock
<1>25. ASSUME NEW c \in Container, Expire(c)
       PROVE  TypeOK'
  <2>1. l1' \in [Container -> Memory]
    BY <1>2, <1>25 DEF Expire, Memory
  <2>2. ops' \in 0 .. MaxOps
    BY <1>2, <1>25 DEF Expire
  <2> QED
    BY <1>25, <2>1, <2>2 DEF Expire, TypeOK, Memory, Seen
<1>26. ASSUME NEW c \in Container, Restart(c)
       PROVE  TypeOK'
  <2>1. l1' \in [Container -> Memory] /\ table' \in [Container -> Lock \cup {NoLock}]
    BY <1>2, <1>3, <1>26 DEF Restart
  <2>2. ops' \in 0 .. MaxOps
    BY <1>2, <1>26 DEF Restart
  <2>3. \A t \in Thread : Typed(th'[t])
    BY <1>1, <1>4, <1>26 DEF Restart
  <2>4. th' \in [Thread -> ThreadState]
    BY <1>1, <1>4, <1>26 DEF Restart, Typed
  <2> QED
    BY <1>2, <1>26, <2>1, <2>2, <2>3, <2>4 DEF Restart, TypeOK, Typed, Memory, Seen
<1> QED
  BY <1>9, <1>10, <1>11, <1>12, <1>13, <1>14, <1>15, <1>16, <1>18, <1>19, <1>20, <1>21,
     <1>22, <1>23, <1>24, <1>25, <1>26 DEF Next, Run
-----------------------------------------------------------------------------
(* A thread goes from one place to another and the others stay.            *)
Alone(t) == \A u \in Thread \ {t} : th'[u] = th[u]

LEMMA StepAlone ==
  ASSUME TypeOK, NEW t \in Thread
  PROVE  /\ \A r : Step(t, r) => Alone(t) /\ th'[t] = r
         /\ \A p : To(t, p) => /\ Alone(t) /\ th'[t].pc = p
                               /\ th'[t].lock = th[t].lock
                               /\ th'[t].val = th[t].val /\ th'[t].least = th[t].least
         /\ \A v : Return(t, v) => /\ Alone(t) /\ th'[t].pc = "returned"
                                   /\ th'[t].lock = NoLock
                                   /\ th'[t].val = v /\ th'[t].least = th[t].least
<1>1. th \in [Thread -> ThreadState]
  BY DEF TypeOK
<1>2. ASSUME NEW r, Step(t, r) PROVE Alone(t) /\ th'[t] = r
  BY <1>1, <1>2 DEF Alone, Step
<1>3. ASSUME NEW p, To(t, p)
      PROVE  /\ Alone(t) /\ th'[t].pc = p /\ th'[t].lock = th[t].lock
             /\ th'[t].val = th[t].val /\ th'[t].least = th[t].least
  <2>1. Alone(t) /\ th'[t] = [th[t] EXCEPT !.pc = p]
    BY <1>2, <1>3 DEF To
  <2>2. th[t] \in ThreadState
    BY <1>1
  <2> QED
    BY <2>1, <2>2 DEF ThreadState
<1>4. ASSUME NEW v, Return(t, v)
      PROVE  /\ Alone(t) /\ th'[t].pc = "returned" /\ th'[t].lock = NoLock
             /\ th'[t].val = v /\ th'[t].least = th[t].least
  <2>1. /\ Alone(t)
        /\ th'[t] = [Idle EXCEPT !.pc = "returned", !.val = v, !.least = th[t].least]
    BY <1>2, <1>4 DEF Return
  <2> QED
    BY <2>1 DEF Idle
<1> QED
  BY <1>2, <1>3, <1>4

(* A step that makes nobody a holder, or only of a lock that is free.      *)
LEMMA ExcludedAlone ==
  ASSUME Excluded, NEW t \in Thread, Alone(t),
         \/ ~Held(t)'
         \/ /\ th'[t].lock = th[t].lock
            /\ \A u \in Thread \ {t} : Held(u) => th[u].lock # th[t].lock
  PROVE  Excluded'
BY DEF Excluded, Alone, Held

(* Steps that leave the table alone, and those that take the lock out of   *)
(* it.                                                                     *)
LEMMA InTableAlone ==
  ASSUME TypeOK, InTable, NEW t \in Thread, Alone(t),
         th'[t].lock = NoLock \/ th'[t].lock = th[t].lock,
         UNCHANGED <<table, dropped>>
  PROVE  InTable'
BY DEF InTable, Alone

LEMMA InTablePop ==
  ASSUME TypeOK, InTable, NEW t \in Thread, Alone(t), th'[t].lock = NoLock, PopLock(Home[t])
  PROVE  InTable'
<1> USE CacheAssumption
<1> SUFFICES ASSUME NEW u \in Thread, th'[u].lock # NoLock, Home[u] \notin dropped'
             PROVE  th'[u].lock = table'[Home[u]]
  BY DEF InTable
<1>1. u # t /\ th'[u] = th[u]
  BY DEF Alone
<1>2. CASE Home[u] = Home[t]
  BY <1>1, <1>2 DEF PopLock, Using
<1>3. CASE Home[u] # Home[t]
  BY <1>1, <1>3 DEF PopLock, InTable, TypeOK
<1> QED
  BY <1>2, <1>3

(* Every lock keeps one holder, and containers keep to their tables.       *)
LEMMA LocksNext ==
  ASSUME TypeOK, Excluded, InTable, [Next]_vars
  PROVE  Excluded' /\ InTable'
<1> USE CacheAssumption
<1>1. CASE UNCHANGED vars
  BY <1>1 DEF vars, Excluded, InTable, Held
<1>2. ASSUME NEW t \in Thread, Alone(t), th'[t].lock = NoLock, th'[t].pc \in
               {"idle", "pop", "pop_other", "upload", "guard", "returned", "unlock"},
             UNCHANGED <<table, dropped>> \/ PopLock(Home[t])
      PROVE  Excluded' /\ InTable'
  BY <1>2, ExcludedAlone, InTableAlone, InTablePop DEF Held
<1>3. ASSUME NEW t \in Thread, Held(t) \/ (th[t].pc = "acquire" /\ Acquire(t)), Alone(t),
             th'[t].lock = th[t].lock, UNCHANGED <<table, dropped>>
      PROVE  Excluded' /\ InTable'
  <2>1. \A u \in Thread \ {t} : Held(u) => th[u].lock # th[t].lock
    BY <1>3 DEF Excluded, Acquire, Holding, Held
  <2> QED
    BY <1>3, <2>1, ExcludedAlone, InTableAlone
<1>4. \A t \in Thread : th[t].lock # NoLock <=>
         th[t].pc \in {"acquire", "check", "download", "store", "evict"}
  BY DEF TypeOK
<1>5. ASSUME NEW t \in Thread, Put(t) PROVE Excluded' /\ InTable'
  <2> DEFINE r == [Idle EXCEPT !.pc = IF Expired(Home[t]) THEN "pop" ELSE "upload",
                               !.val = puts + 1]
  <2>1. r.lock = NoLock /\ r.pc \in {"pop", "upload"}
    BY DEF Idle
  <2>2. Step(t, r) /\ UNCHANGED <<table, dropped>>
    BY <1>5 DEF Put
  <2> HIDE DEF r
  <2> QED
    BY <1>2, <2>1, <2>2, StepAlone
<1>6. ASSUME NEW t \in Thread, PutOther(t) PROVE Excluded' /\ InTable'
  <2> DEFINE r == [Idle EXCEPT !.pc = "pop_other"]
  <2>1. r.lock = NoLock /\ r.pc = "pop_other"
    BY DEF Idle
  <2>2. Step(t, r) /\ UNCHANGED <<table, dropped>>
    BY <1>6 DEF PutOther
  <2> HIDE DEF r
  <2> QED
    BY <1>2, <2>1, <2>2, StepAlone
<1>7. Idle.lock = NoLock /\ Idle.pc = "idle"
  BY DEF Idle
<1>8. ASSUME NEW t \in Thread, PopEvicted(t) PROVE Excluded' /\ InTable'
  <2>1. th[t].lock = NoLock /\ PopLock(Home[t])
    BY <1>4, <1>8 DEF PopEvicted
  <2>2. /\ Alone(t) /\ th'[t].lock = NoLock
        /\ th'[t].pc \in {"upload", "idle"}
    BY <1>7, <1>8, <2>1, StepAlone DEF PopEvicted
  <2> QED
    BY <1>2, <2>1, <2>2
<1>9. ASSUME NEW t \in Thread, Upload(t) PROVE Excluded' /\ InTable'
  BY <1>2, <1>7, <1>9, StepAlone DEF Upload
<1>10. ASSUME NEW t \in Thread, Get(t) PROVE Excluded' /\ InTable'
  <2> DEFINE r == IF Hit(Home[t])
                  THEN [Idle EXCEPT !.pc = "returned", !.val = l1[Home[t]].val,
                                    !.least = newest[Home[t]]]
                  ELSE [Idle EXCEPT !.pc = "guard", !.least = newest[Home[t]]]
  <2>1. r.lock = NoLock /\ r.pc \in {"returned", "guard"}
    BY DEF Idle
  <2>2. Step(t, r) /\ UNCHANGED <<table, dropped>>
    BY <1>10 DEF Get
  <2> HIDE DEF r
  <2> QED
    BY <1>2, <2>1, <2>2, StepAlone
<1>11. ASSUME NEW t \in Thread, FindLock(t) PROVE Excluded' /\ InTable'
  <2> DEFINE c == Home[t]
             k == IF table[c] = NoLock THEN NewLock ELSE table[c]
             r == [th[t] EXCEPT !.pc = "acquire", !.lock = k]
  <2>1. /\ th[t].lock = NoLock /\ Step(t, r) /\ table' = [table EXCEPT ![c] = k]
        /\ UNCHANGED dropped
    BY <1>4, <1>11 DEF FindLock
  <2>2. th[t] \in ThreadState
    BY DEF TypeOK
  <2>3. r.pc = "acquire" /\ r.lock = k
    BY <2>2 DEF ThreadState
  <2>4. Alone(t) /\ th'[t] = r
    BY <2>1, StepAlone
  <2>5. Excluded'
    BY <2>3, <2>4, ExcludedAlone DEF Held
  <2> HIDE DEF r, k
  <2>6. table'[c] = k /\ \A d \in Container \ {c} : table'[d] = table[d]
    BY <2>1 DEF TypeOK
  <2>7. ASSUME NEW u \in Thread \ {t}, th[u].lock # NoLock, Home[u] = c, c \notin dropped
        PROVE  th[u].lock = k
    BY <2>7 DEF InTable, k
  <2>8. InTable'
    BY <2>1, <2>3, <2>4, <2>6, <2>7 DEF InTable, Alone
  <2> QED
    BY <2>5, <2>8
<1>12. ASSUME NEW t \in Thread, Acquire(t) PROVE Excluded' /\ InTable'
  BY <1>3, <1>12, StepAlone DEF Acquire
<1>13. ASSUME NEW t \in Thread, CheckAgain(t) PROVE Excluded' /\ InTable'
  <2>1. Held(t) /\ UNCHANGED <<table, dropped>>
    BY <1>13 DEF CheckAgain, Held
  <2>2. \/ Return(t, l1[Home[t]].val)
        \/ To(t, "download")
    BY <1>13 DEF CheckAgain
  <2> QED
    BY <1>2, <1>3, <2>1, <2>2, StepAlone
<1>14. ASSUME NEW t \in Thread, Download(t) PROVE Excluded' /\ InTable'
  <2> DEFINE r == [th[t] EXCEPT !.pc = "store", !.val = s3]
  <2>1. Held(t) /\ UNCHANGED <<table, dropped>>
    BY <1>14 DEF Download, Held
  <2>2. Step(t, Idle) \/ Step(t, r)
    BY <1>14 DEF Download
  <2>3. r.lock = th[t].lock
    BY DEF TypeOK, ThreadState
  <2> HIDE DEF r
  <2> QED
    BY <1>2, <1>3, <1>7, <2>1, <2>2, <2>3, StepAlone
<1>15. ASSUME NEW t \in Thread, Store(t) PROVE Excluded' /\ InTable'
  <2>1. Held(t) /\ UNCHANGED <<table, dropped>>
    BY <1>15 DEF Store, Held
  <2>2. To(t, "evict") \/ Return(t, th[t].val)
    BY <1>15 DEF Store
  <2> QED
    BY <1>2, <1>3, <2>1, <2>2, StepAlone
<1>16. ASSUME NEW t \in Thread, EvictHeld(t) PROVE Excluded' /\ InTable'
  BY <1>2, <1>16, StepAlone DEF EvictHeld
<1>17. ASSUME NEW t \in Thread, Leave(t) PROVE Excluded' /\ InTable'
  BY <1>2, <1>7, <1>17, StepAlone DEF Leave
<1>18. ASSUME NEW t \in Thread, Delete(t) PROVE Excluded' /\ InTable'
  <2>1. th[t].lock = NoLock
    BY <1>4, <1>18 DEF Delete, Begin
  <2> QED
    BY <1>2, <1>18, <2>1, StepAlone DEF Delete
<1>19. ASSUME NEW t \in Thread, DeleteLock(t) PROVE Excluded' /\ InTable'
  BY <1>2, <1>7, <1>19, StepAlone DEF DeleteLock
<1>20. ASSUME NEW c \in Container, Expire(c) PROVE Excluded' /\ InTable'
  BY <1>20 DEF Expire, Excluded, InTable, Held
<1>21. ASSUME NEW c \in Container, Restart(c) PROVE Excluded' /\ InTable'
  <2>1. \A t \in Thread : th'[t] = IF Home[t] = c THEN Idle ELSE th[t]
    BY <1>21 DEF Restart
  <2>2. Excluded'
    BY <1>7, <2>1 DEF Excluded, Held
  <2>3. InTable'
    BY <1>7, <1>21, <2>1 DEF InTable, Restart, TypeOK
  <2> QED
    BY <2>2, <2>3
<1> QED
  BY <1>1, <1>5, <1>6, <1>8, <1>9, <1>10, <1>11, <1>12, <1>13, <1>14, <1>15, <1>16, <1>17,
     <1>18, <1>19, <1>20, <1>21 DEF Next, Run
-----------------------------------------------------------------------------
(* What the values are: numbers, up to that of the last put.               *)
LEMMA Numbers ==
  ASSUME TypeOK
  PROVE  /\ puts \in Nat /\ s3 \in Nat /\ Absent = 0
         /\ \A c \in Container : newest[c] \in Nat /\ l1[c].val \in Nat
         /\ \A t \in Thread : /\ th[t].val \in Nat /\ th[t].least \in Nat
                              /\ Home[t] \in Container
BY CacheAssumption DEF TypeOK, ThreadState, Value, Absent

(* A step of a thread that is not a put: no value moves.                   *)
LEMMA CalmAlone ==
  ASSUME TypeOK, Calm, NEW t \in Thread, Alone(t),
         UNCHANGED <<s3, newest, puts>>,
         \A c \in Container : l1'[c].val \in {Absent, l1[c].val},
         th'[t].pc \in {"idle", "pop_other", "guard", "acquire", "check", "unlock",
                        "returned", "evict"},
         th'[t].least <= newest[Home[t]],
         th'[t].pc \in {"returned", "evict"} => th'[t].least <= th'[t].val
  PROVE  Calm'
<1> USE Numbers
<1>1. Putting' \subseteq Putting \ {t} /\ \A u \in Thread \ {t} : th'[u] = th[u]
  BY DEF Putting, Alone
<1>2. \A c \in Container : Loading(c)' \subseteq Loading(c)
  BY <1>1 DEF Loading
<1>3. LastPut'
  BY <1>1, <1>2 DEF Calm, LastPut, Putting
<1>4. Stored' /\ Counted'
  BY DEF Calm, Stored, Counted
<1>5. \A c \in Container : l1'[c].val # Absent => newest'[c] <= l1'[c].val
  BY DEF Calm, Current
<1>6. \A u \in Thread : th'[u].pc = "store" => newest'[Home[u]] <= th'[u].val
  BY <1>1 DEF Calm, Current
<1>7. \A u \in Thread : th'[u].least <= newest'[Home[u]]
  BY <1>1 DEF Calm, Current
<1>8. \A u \in Thread : th'[u].pc \in {"evict", "returned"} => th'[u].least <= th'[u].val
  BY <1>1 DEF Calm, Current
<1> QED
  BY <1>3, <1>4, <1>5, <1>6, <1>7, <1>8 DEF Calm, Current

(* While every put is alone, what is read is what was put.                 *)
LEMMA CalmNext ==
  ASSUME TypeOK, torn \/ Calm, [Next]_vars
  PROVE  torn' \/ Calm'
<1> USE CacheAssumption, Numbers
<1>0. torn => torn'
  BY DEF Next, Run, vars, Put, PutOther, PopEvicted, Upload, Get, FindLock, Acquire,
         CheckAgain, Download, Store, EvictHeld, Leave, Delete, DeleteLock, Expire, Restart
<1> SUFFICES ASSUME Calm, ~torn' PROVE Calm'
  BY <1>0
<1>1. CASE UNCHANGED vars
  BY <1>1 DEF vars, Calm, LastPut, Putting, Loading, Stored, Counted, Current
<1>2. Idle.pc = "idle" /\ Idle.least = 0 /\ Nothing.val = Absent
  BY DEF Idle, Nothing, Absent
<1>3. \A u \in Thread : th[u].least <= newest[Home[u]]
  BY DEF Calm, Current
<1>4. ASSUME NEW c \in Container, Look(c)
      PROVE  \A d \in Container : l1'[d].val \in {Absent, l1[d].val}
  BY <1>2, <1>4 DEF Look, TypeOK
<1>5. ASSUME NEW t \in Thread, Put(t) PROVE Calm'
  <2> DEFINE c == Home[t]
             r == [Idle EXCEPT !.pc = IF Expired(c) THEN "pop" ELSE "upload", !.val = puts + 1]
  <2>1. /\ Step(t, r) /\ puts' = puts + 1 /\ UNCHANGED <<s3, newest>>
        /\ l1' = [l1 EXCEPT ![c] = [val |-> puts + 1, old |-> FALSE]]
        /\ th[t].pc = "idle"
    BY <1>5 DEF Put
  <2>2. Putting = {} /\ Loading(c) = {}
    BY <1>5 DEF Put
  <2>3. r.pc \in {"pop", "upload"} /\ r.val = puts + 1 /\ r.least = 0
    BY DEF Idle, Absent
  <2> HIDE DEF r
  <2>4. /\ \A u \in Thread \ {t} : th'[u] = th[u]
        /\ th'[t].pc \in {"pop", "upload"} /\ th'[t].val = puts + 1 /\ th'[t].least = 0
    BY <2>1, <2>3, StepAlone DEF Alone
  <2>5. l1'[c].val = puts + 1 /\ \A d \in Container \ {c} : l1'[d] = l1[d]
    BY <2>1 DEF TypeOK
  <2>6. Putting' = {t} /\ Loading(c)' = {}
    BY <2>2, <2>4 DEF Putting, Loading
  <2>7. LastPut'
    BY <2>1, <2>4, <2>5, <2>6 DEF LastPut
  <2>8. Stored' /\ Counted'
    BY <2>1 DEF Calm, Stored, Counted
  <2>9. \A d \in Container : l1'[d].val # Absent => newest'[d] <= l1'[d].val
    BY <2>1, <2>5 DEF Calm, Current, Stored, Counted
  <2>10. \A u \in Thread :
           /\ th'[u].pc = "store" => newest'[Home[u]] <= th'[u].val
           /\ th'[u].least <= newest'[Home[u]]
           /\ th'[u].pc \in {"evict", "returned"} => th'[u].least <= th'[u].val
    BY <2>1, <2>4 DEF Calm, Current
  <2> QED
    BY <2>7, <2>8, <2>9, <2>10 DEF Calm, Current
<1>6. ASSUME NEW t \in Thread, PutOther(t) PROVE Calm'
  <2>1. th'[t].pc = "pop_other" /\ th'[t].least = 0 /\ Alone(t)
    BY <1>6, StepAlone DEF PutOther, Idle, Absent
  <2>2. \A d \in Container : l1'[d].val \in {Absent, l1[d].val}
    BY <1>2, <1>6 DEF PutOther, TypeOK
  <2> QED
    BY <1>6, <2>1, <2>2, CalmAlone DEF PutOther
<1>7. ASSUME NEW t \in Thread, PopEvicted(t) PROVE Calm'
  <2>1. UNCHANGED <<l1, s3, newest, puts>>
    BY <1>7 DEF PopEvicted
  <2>2. CASE th[t].pc = "pop_other"
    <3>1. th'[t] = Idle /\ Alone(t)
      BY <1>7, <2>2, StepAlone DEF PopEvicted
    <3> QED
      BY <1>2, <2>1, <3>1, CalmAlone
  <2>3. CASE th[t].pc = "pop"
    <3>1. /\ Alone(t) /\ th'[t].pc = "upload"
          /\ th'[t].val = th[t].val /\ th'[t].least = th[t].least
      BY <1>7, <2>3, StepAlone DEF PopEvicted
    <3>2. Putting' = Putting
      BY <2>3, <3>1 DEF Putting, Alone
    <3>3. \A c \in Container : Loading(c)' = Loading(c)
      BY <2>3, <3>1 DEF Loading, Alone
    <3>4. LastPut'
      BY <2>1, <3>1, <3>2, <3>3 DEF Calm, LastPut, Alone, Putting
    <3>5. Stored' /\ Counted' /\ Current'
      BY <2>1, <3>1 DEF Calm, Stored, Counted, Current, Alone
    <3> QED
      BY <3>4, <3>5 DEF Calm
  <2> QED
    BY <1>7, <2>2, <2>3 DEF PopEvicted
<1>8. ASSUME NEW t \in Thread, Upload(t) PROVE Calm'
  <2> DEFINE c == Home[t]
  <2>1. /\ th[t].pc = "upload" /\ s3' = th[t].val /\ newest' = [newest EXCEPT ![c] = th[t].val]
        /\ UNCHANGED <<l1, puts>> /\ Alone(t) /\ th'[t] = Idle
    BY <1>8, StepAlone DEF Upload
  <2>2. /\ t \in Putting /\ th[t].val = puts /\ \A u \in Putting : u = t
        /\ Loading(c) = {} /\ l1[c].val \in {Absent, puts}
    BY <2>1 DEF Calm, LastPut, Putting
  <2>3. newest'[c] = puts /\ \A d \in Container \ {c} : newest'[d] = newest[d]
    BY <2>1, <2>2 DEF TypeOK
  <2>4. \A d \in Container : newest[d] <= puts
    BY DEF Calm, Stored, Counted
  <2>5. Putting' = {}
    BY <1>2, <2>1, <2>2 DEF Putting, Alone
  <2>6. LastPut' /\ Stored' /\ Counted'
    BY <2>1, <2>2, <2>3, <2>4, <2>5 DEF LastPut, Stored, Counted
  <2>7. \A d \in Container : l1'[d].val # Absent => newest'[d] <= l1'[d].val
    BY <2>1, <2>2, <2>3 DEF Calm, Current
  <2>8. \A u \in Thread \ {t} : th'[u] = th[u] /\ (th[u].pc = "store" => Home[u] # c)
    BY <2>1, <2>2 DEF Alone, Loading
  <2>9. \A u \in Thread :
           /\ th'[u].pc = "store" => newest'[Home[u]] <= th'[u].val
           /\ th'[u].least <= newest'[Home[u]]
           /\ th'[u].pc \in {"evict", "returned"} => th'[u].least <= th'[u].val
    <3> SUFFICES ASSUME NEW u \in Thread
                 PROVE  /\ th'[u].pc = "store" => newest'[Home[u]] <= th'[u].val
                        /\ th'[u].least <= newest'[Home[u]]
                        /\ th'[u].pc \in {"evict", "returned"} => th'[u].least <= th'[u].val
      OBVIOUS
    <3>1. CASE u = t
      BY <1>2, <2>1, <2>3, <3>1
    <3>2. CASE u # t
      BY <1>3, <2>3, <2>4, <2>8, <3>2 DEF Calm, Current
    <3> QED
      BY <3>1, <3>2
  <2> QED
    BY <2>6, <2>7, <2>9 DEF Calm, Current
<1>9. ASSUME NEW t \in Thread, Get(t) PROVE Calm'
  <2> DEFINE c == Home[t]
             r == IF Hit(c)
                  THEN [Idle EXCEPT !.pc = "returned", !.val = l1[c].val, !.least = newest[c]]
                  ELSE [Idle EXCEPT !.pc = "guard", !.least = newest[c]]
  <2>1. r.pc \in {"returned", "guard"} /\ r.least = newest[c]
    BY DEF Idle
  <2>2. r.pc = "returned" => r.val = l1[c].val /\ l1[c].val # Absent
    BY DEF Idle, Hit
  <2>3. Step(t, r) /\ Look(c) /\ UNCHANGED <<s3, newest, puts>>
    BY <1>9 DEF Get
  <2> HIDE DEF r
  <2>4. th'[t] = r /\ Alone(t)
    BY <2>3, StepAlone
  <2>5. r.pc = "returned" => r.least <= r.val
    BY <2>1, <2>2 DEF Calm, Current
  <2> QED
    BY <1>4, <2>1, <2>3, <2>4, <2>5, CalmAlone
<1>10. ASSUME NEW t \in Thread, FindLock(t) PROVE Calm'
  <2> DEFINE k == IF table[Home[t]] = NoLock THEN NewLock ELSE table[Home[t]]
             r == [th[t] EXCEPT !.pc = "acquire", !.lock = k]
  <2>1. Step(t, r) /\ UNCHANGED <<l1, s3, newest, puts>>
    BY <1>10 DEF FindLock
  <2>2. th[t] \in ThreadState
    BY DEF TypeOK
  <2>3. r.pc = "acquire" /\ r.least = th[t].least
    BY <2>2 DEF ThreadState
  <2> HIDE DEF r
  <2> QED
    BY <1>3, <2>1, <2>3, StepAlone, CalmAlone
<1>11. ASSUME NEW t \in Thread, Acquire(t) PROVE Calm'
  BY <1>3, <1>11, StepAlone, CalmAlone DEF Acquire
(* A load begins, and no put of the container is under way.                *)
<1>12. ASSUME NEW t \in Thread, CheckAgain(t) PROVE Calm'
  <2> DEFINE c == Home[t]
  <2>1. Look(c) /\ UNCHANGED <<s3, newest, puts>> /\ th[t].pc = "check"
    BY <1>12 DEF CheckAgain
  <2>2. CASE Hit(c)
    <3>1. Return(t, l1[c].val) /\ newest[c] <= l1[c].val
      BY <1>12, <2>2 DEF CheckAgain, Hit, Calm, Current
    <3> QED
      BY <1>3, <1>4, <2>1, <3>1, StepAlone, CalmAlone
  <2>3. CASE ~Hit(c)
    <3>1. /\ Alone(t) /\ th'[t].pc = "download" /\ th'[t].least = th[t].least
          /\ \A u \in Putting : Home[u] # c
      BY <1>12, <2>3, StepAlone DEF CheckAgain
    <3>2. Putting' = Putting /\ \A u \in Thread \ {t} : th'[u] = th[u]
      BY <2>1, <3>1 DEF Putting, Alone
    <3>3. \A d \in Container \ {c} : Loading(d)' = Loading(d)
      BY <3>2 DEF Loading
    <3>4. LastPut'
      BY <1>4, <2>1, <3>1, <3>2, <3>3 DEF Calm, LastPut, Putting
    <3>5. Stored' /\ Counted'
      BY <2>1 DEF Calm, Stored, Counted
    <3>6. Current'
      BY <1>4, <2>1, <3>1, <3>2 DEF Calm, Current
    <3> QED
      BY <3>4, <3>5, <3>6 DEF Calm
  <2> QED
    BY <2>2, <2>3
<1>13. ASSUME NEW t \in Thread, Download(t) PROVE Calm'
  <2>1. UNCHANGED <<l1, s3, newest, puts>> /\ th[t].pc = "download"
    BY <1>13 DEF Download
  <2>2. CASE s3 = Absent
    BY <1>2, <1>13, <2>1, <2>2, StepAlone, CalmAlone DEF Download
  <2>3. CASE s3 # Absent
    <3> DEFINE r == [th[t] EXCEPT !.pc = "store", !.val = s3]
    <3>1. th[t] \in ThreadState
      BY DEF TypeOK
    <3>2. r.pc = "store" /\ r.val = s3 /\ r.least = th[t].least
      BY <3>1 DEF ThreadState
    <3>3. th'[t] = r /\ Alone(t)
      BY <1>13, <2>3, StepAlone DEF Download
    <3> HIDE DEF r
    <3>4. Putting' = Putting /\ \A u \in Thread \ {t} : th'[u] = th[u]
      BY <2>1, <3>2, <3>3 DEF Putting, Alone
    <3>5. \A d \in Container : Loading(d)' = Loading(d)
      BY <2>1, <3>2, <3>3, <3>4 DEF Loading
    <3>6. LastPut'
      BY <2>1, <3>2, <3>3, <3>4, <3>5 DEF Calm, LastPut, Putting
    <3>7. Stored' /\ Counted'
      BY <2>1 DEF Calm, Stored, Counted
    <3>8. newest[Home[t]] <= s3
      BY DEF Calm, Stored
    <3>9. Current'
      BY <2>1, <3>2, <3>3, <3>4, <3>8 DEF Calm, Current
    <3> QED
      BY <3>6, <3>7, <3>9 DEF Calm
  <2> QED
    BY <2>2, <2>3
<1>14. ASSUME NEW t \in Thread, Store(t) PROVE Calm'
  <2> DEFINE c == Home[t]
  <2>1. /\ UNCHANGED <<s3, newest, puts>> /\ th[t].pc = "store"
        /\ l1' = [l1 EXCEPT ![c] = [val |-> th[t].val, old |-> FALSE]]
        /\ To(t, "evict") \/ Return(t, th[t].val)
    BY <1>14 DEF Store
  <2>2. /\ Alone(t) /\ th'[t].pc \in {"evict", "returned"}
        /\ th'[t].val = th[t].val /\ th'[t].least = th[t].least
    BY <2>1, StepAlone
  <2>3. l1'[c].val = th[t].val /\ \A d \in Container \ {c} : l1'[d] = l1[d]
    BY <2>1 DEF TypeOK
  <2>4. newest[c] <= th[t].val
    BY <2>1 DEF Calm, Current
  <2>5. Putting' = Putting /\ \A u \in Thread \ {t} : th'[u] = th[u]
    BY <2>1, <2>2 DEF Putting, Alone
  <2>6. \A d \in Container : Loading(d)' \subseteq Loading(d)
    BY <2>1, <2>2, <2>5 DEF Loading
  <2>7. \A u \in Putting : Home[u] # c
    BY <2>1 DEF Calm, LastPut, Loading
  <2>8. LastPut'
    BY <2>1, <2>2, <2>3, <2>5, <2>6, <2>7 DEF Calm, LastPut, Putting
  <2>9. Stored' /\ Counted'
    BY <2>1 DEF Calm, Stored, Counted
  <2>10. Current'
    BY <1>3, <2>1, <2>2, <2>3, <2>4, <2>5 DEF Calm, Current
  <2> QED
    BY <2>8, <2>9, <2>10 DEF Calm
<1>15. ASSUME NEW t \in Thread, EvictHeld(t) PROVE Calm'
  <2>1. th[t].least <= th[t].val
    BY <1>15 DEF EvictHeld, Calm, Current
  <2> QED
    BY <1>3, <1>15, <2>1, StepAlone, CalmAlone DEF EvictHeld
<1>16. ASSUME NEW t \in Thread, Leave(t) PROVE Calm'
  BY <1>2, <1>16, StepAlone, CalmAlone DEF Leave
<1>17. ASSUME NEW t \in Thread, Delete(t) PROVE Calm'
  <2>1. \A d \in Container : l1'[d].val \in {Absent, l1[d].val}
    BY <1>2, <1>17 DEF Delete, TypeOK
  <2> QED
    BY <1>3, <1>17, <2>1, StepAlone, CalmAlone DEF Delete
<1>18. ASSUME NEW t \in Thread, DeleteLock(t) PROVE Calm'
  BY <1>2, <1>18, StepAlone, CalmAlone DEF DeleteLock
<1>19. ASSUME NEW c \in Container, Expire(c) PROVE Calm'
  <2>1. \A d \in Container : l1'[d].val = l1[d].val
    BY <1>19 DEF Expire, TypeOK
  <2>2. UNCHANGED <<s3, th, newest, puts>>
    BY <1>19 DEF Expire
  <2> QED
    BY <2>1, <2>2 DEF Calm, LastPut, Putting, Loading, Stored, Counted, Current
<1>20. ASSUME NEW c \in Container, Restart(c) PROVE Calm'
  <2>1. /\ \A d \in Container : l1'[d].val \in {Absent, l1[d].val}
        /\ \A u \in Thread : th'[u] = Idle \/ th'[u] = th[u]
        /\ UNCHANGED <<s3, newest, puts>>
    BY <1>2, <1>20 DEF Restart, TypeOK
  <2>2. /\ Putting' \subseteq Putting
        /\ \A d \in Container : Loading(d)' \subseteq Loading(d)
        /\ \A u \in Putting' : th'[u] = th[u]
    BY <1>2, <2>1 DEF Putting, Loading
  <2>3. LastPut'
    BY <2>1, <2>2 DEF Calm, LastPut, Putting
  <2>4. Stored' /\ Counted'
    BY <2>1 DEF Calm, Stored, Counted
  <2>5. Current'
    BY <1>2, <2>1 DEF Calm, Current
  <2> QED
    BY <2>3, <2>4, <2>5 DEF Calm
<1> QED
  BY <1>1, <1>5, <1>6, <1>7, <1>8, <1>9, <1>10, <1>11, <1>12, <1>13, <1>14, <1>15, <1>16,
     <1>17, <1>18, <1>19, <1>20 DEF Next, Run
-----------------------------------------------------------------------------
(* The inductive invariant.                                                *)
THEOREM Invariance == Spec => []IInv
<1>1. IInv /\ [Next]_vars => IInv'
  BY TypeNext, LocksNext, CalmNext DEF IInv
<1> QED
  BY InitInv, <1>1, PTL DEF Spec

(* Memories, lock tables and threads are well typed, and a thread has a    *)
(* lock while it loads and only then.                                      *)
THEOREM TypeCorrect == Spec => []TypeOK
<1>1. IInv => TypeOK
  BY DEF IInv
<1> QED
  BY Invariance, <1>1, PTL

(* _coordinated_load_from_s3: one thread of a container downloads at a     *)
(* time, unless the lock was dropped in use.                               *)
THEOREM DownloadsAreOne == Spec => []OneDownload
<1>1. IInv => OneDownload
  BY DEF IInv, TypeOK, Excluded, InTable, OneDownload, Held
<1> QED
  BY Invariance, <1>1, PTL

(* A get returns what its container put last, unless a put met another put *)
(* or a load, or was not uploaded.                                         *)
THEOREM OwnPutsAreRead == Spec => []ReadsOwnPut
<1>1. IInv => ReadsOwnPut
  <2> SUFFICES ASSUME IInv, ~torn, NEW t \in Thread, th[t].pc = "returned"
               PROVE  th[t].val >= th[t].least
    BY DEF ReadsOwnPut
  <2>1. th[t].least <= th[t].val
    BY DEF IInv, Calm, Current
  <2>2. th[t].least \in Nat /\ th[t].val \in Nat
    BY Numbers DEF IInv
  <2> QED
    BY <2>1, <2>2
<1> QED
  BY Invariance, <1>1, PTL
==============================================================================
