---------------------------- MODULE S3BackedCache -----------------------------
(***************************************************************************)
(* S3BackedTTLCache (content_services/src/inspector/src/cache.py), for one *)
(* key: each container has the value in memory (L1) and a lock under which *)
(* it is loaded, and all containers share the object in S3 (L2).  The      *)
(* threads of a container run put, get and delete in any order and at the  *)
(* same time; the async variants take the same steps.  The cache of the    *)
(* symbol tables (hatchet_funcs.py) loads in the same way.                 *)
(*                                                                         *)
(* Values are numbered in the order in which they are put into the memory  *)
(* of a container.                                                         *)
(***************************************************************************)
EXTENDS Integers, FiniteSets

CONSTANTS Container,  (* the worker containers                             *)
          Thread,     (* the threads that use the cache                    *)
          Home,       (* Home[t]: the container thread t is in             *)
          Lock,       (* lock objects; as many as can be referred to       *)
          NoLock,     (* the key has no lock in the table                  *)
          Faults,     (* the kinds of fault this instance has              *)
          MaxPuts,    (* bound: puts of the key                            *)
          MaxOps      (* bound: other operations, expiries and restarts    *)

FaultKind == {"upload",    (* an upload fails, and put prints a warning    *)
              "expire",    (* eight hours pass                             *)
              "restart"}   (* a container is rescheduled                   *)

ASSUME CacheAssumption ==
  /\ Home \in [Thread -> Container]
  /\ NoLock \notin Lock
  /\ Faults \subseteq FaultKind
  /\ MaxPuts \in Nat /\ MaxOps \in Nat

(* A new lock object is none of those that other threads or containers     *)
(* refer to.                                                               *)
ASSUME LockAssumption ==
  /\ IsFiniteSet(Thread) /\ IsFiniteSet(Container)
  /\ IsFiniteSet(Lock) =>
       Cardinality(Lock) + 1 >= Cardinality(Thread) + Cardinality(Container)

Absent == 0
Value == 1 .. MaxPuts

VARIABLES
  l1,      (* l1[c]: the value in the memory of c and if it has expired    *)
  table,   (* table[c]: the lock of the key in _load_locks of c            *)
  s3,      (* the value of the object, or Absent                           *)
  th,      (* th[t]: the operation of thread t                             *)
  newest,  (* newest[c]: history: the value of the last put of c that ended *)
  puts,    (* the puts of the key so far                                   *)
  ops,     (* the other operations so far                                  *)
  dropped, (* history: containers that dropped a lock in use               *)
  torn     (* history: a put was not alone, or its upload failed           *)

vars == <<l1, table, s3, th, newest, puts, ops, dropped, torn>>
-----------------------------------------------------------------------------
(* State.                                                                  *)

Nothing == [val |-> Absent, old |-> FALSE]

(* least is what a get is expected to return at least: the value of the    *)
(* last put in its container that had ended when it began.                 *)
Idle == [pc |-> "idle", val |-> Absent, lock |-> NoLock, least |-> Absent]

Init ==
  /\ l1 = [c \in Container |-> Nothing]
  /\ table = [c \in Container |-> NoLock]
  /\ s3 = Absent
  /\ th = [t \in Thread |-> Idle]
  /\ newest = [c \in Container |-> Absent]
  /\ puts = 0 /\ ops = 0 /\ dropped = {} /\ torn = FALSE

Step(t, r) == th' = [th EXCEPT ![t] = r]
To(t, p) == Step(t, [th[t] EXCEPT !.pc = p])
Begin(t) == th[t].pc = "idle" /\ ops < MaxOps /\ ops' = ops + 1

(* Mutant of Holding: who waits for a lock excludes others too.            *)
HoldingOrWaiting == {t \in Thread : th[t].lock # NoLock}

(* The threads that hold their lock, and those that also wait for it.      *)
Holding == {t \in Thread : th[t].pc \in {"check", "download", "store", "evict"}}
Using(c) == {t \in Thread : Home[t] = c /\ th[t].lock # NoLock}
Loading(c) == {t \in Thread : Home[t] = c /\ th[t].pc \in {"download", "store"}}

(* TTLCache.put evicts what has expired, and says if the key was there.    *)
Expired(c) == l1[c].val # Absent /\ l1[c].old

(* The lock of the key is taken out of the table.                          *)
PopLock(c) ==
  /\ table' = [table EXCEPT ![c] = NoLock]
  /\ dropped' = IF Using(c) = {} THEN dropped ELSE dropped \cup {c}
-----------------------------------------------------------------------------
(* put and aput.                                                           *)

Putting == {t \in Thread : th[t].pc \in {"pop", "upload"}}

Put(t) ==
  LET c == Home[t] IN
  /\ th[t].pc = "idle" /\ puts < MaxPuts
  /\ puts' = puts + 1
  /\ l1' = [l1 EXCEPT ![c] = [val |-> puts + 1, old |-> FALSE]]
  /\ Step(t, [Idle EXCEPT !.pc = IF Expired(c) THEN "pop" ELSE "upload", !.val = puts + 1])
  /\ torn' = (torn \/ Putting # {} \/ Loading(c) # {})
  /\ UNCHANGED <<table, s3, newest, ops, dropped>>

(* The put of another key evicts this one.                                 *)
PutOther(t) ==
  LET c == Home[t] IN
  /\ Begin(t) /\ Expired(c)
  /\ l1' = [l1 EXCEPT ![c] = Nothing]
  /\ Step(t, [Idle EXCEPT !.pc = "pop_other"])
  /\ UNCHANGED <<table, s3, newest, puts, dropped, torn>>

(* The locks of the evicted keys are taken out of the table.               *)
PopEvicted(t) ==
  /\ th[t].pc \in {"pop", "pop_other"}
  /\ PopLock(Home[t])
  /\ IF th[t].pc = "pop" THEN To(t, "upload") ELSE Step(t, Idle)
  /\ UNCHANGED <<l1, s3, newest, puts, ops, torn>>

(* Mutant of Upload: an object that exists is not overwritten.             *)
UploadIfMissing(t) ==
  LET c == Home[t] IN
  /\ th[t].pc = "upload"
  /\ s3' = IF s3 = Absent THEN th[t].val ELSE s3
  /\ newest' = [newest EXCEPT ![c] = th[t].val]
  /\ Step(t, Idle)
  /\ UNCHANGED <<l1, table, puts, ops, dropped, torn>>

Upload(t) ==
  LET c == Home[t] IN
  /\ th[t].pc = "upload"
  /\ \/ s3' = th[t].val /\ UNCHANGED torn
     \/ "upload" \in Faults /\ torn' = TRUE /\ UNCHANGED s3
  /\ newest' = [newest EXCEPT ![c] = th[t].val]
  /\ Step(t, Idle)
  /\ UNCHANGED <<l1, table, puts, ops, dropped>>
-----------------------------------------------------------------------------
(* get and aget.                                                           *)

Hit(c) == l1[c].val # Absent /\ ~l1[c].old

(* TTLCache.get: an expired value is deleted.                              *)
Look(c) == l1' = IF Expired(c) THEN [l1 EXCEPT ![c] = Nothing] ELSE l1

Return(t, v) == Step(t, [Idle EXCEPT !.pc = "returned", !.val = v, !.least = th[t].least])

Get(t) ==
  LET c == Home[t] IN
  /\ Begin(t) /\ Look(c)
  /\ IF Hit(c)
     THEN Step(t, [Idle EXCEPT !.pc = "returned", !.val = l1[c].val, !.least = newest[c]])
     ELSE Step(t, [Idle EXCEPT !.pc = "guard", !.least = newest[c]])
  /\ UNCHANGED <<table, s3, newest, puts, dropped, torn>>

(* _coordinated_load_from_s3 finds the lock of the key, or makes one.      *)
NewLock == CHOOSE k \in Lock : \A u \in Thread : th[u].lock # k
                                 /\ \A d \in Container : table[d] # k

FindLock(t) ==
  LET c == Home[t]
      k == IF table[c] = NoLock THEN NewLock ELSE table[c] IN
  /\ th[t].pc = "guard"
  /\ table' = [table EXCEPT ![c] = k]
  /\ Step(t, [th[t] EXCEPT !.pc = "acquire", !.lock = k])
  /\ UNCHANGED <<l1, s3, newest, puts, ops, dropped, torn>>

(* Mutant of Acquire: the lock of the key is not taken.                    *)
AcquireAtOnce(t) ==
  /\ th[t].pc = "acquire"
  /\ To(t, "check")
  /\ UNCHANGED <<l1, table, s3, newest, puts, ops, dropped, torn>>

Acquire(t) ==
  /\ th[t].pc = "acquire"
  /\ \A u \in Holding : th[u].lock # th[t].lock
  /\ To(t, "check")
  /\ UNCHANGED <<l1, table, s3, newest, puts, ops, dropped, torn>>

(* Another thread may have loaded the value in the meantime.               *)
CheckAgain(t) ==
  LET c == Home[t] IN
  /\ th[t].pc = "check" /\ Look(c)
  /\ IF Hit(c) THEN Return(t, l1[c].val) /\ UNCHANGED torn
     ELSE To(t, "download") /\ torn' = (torn \/ \E u \in Putting : Home[u] = c)
  /\ UNCHANGED <<table, s3, newest, puts, ops, dropped>>

(* Mutant of Download: a download that raises keeps the lock.              *)
DownloadKeepingLock(t) ==
  /\ th[t].pc = "download"
  /\ Step(t, IF s3 = Absent THEN [Idle EXCEPT !.lock = th[t].lock]
             ELSE [th[t] EXCEPT !.pc = "store", !.val = s3])
  /\ UNCHANGED <<l1, table, s3, newest, puts, ops, dropped, torn>>

(* The download; it raises if there is no object.                          *)
Download(t) ==
  /\ th[t].pc = "download"
  /\ IF s3 = Absent THEN Step(t, Idle)
     ELSE Step(t, [th[t] EXCEPT !.pc = "store", !.val = s3])
  /\ UNCHANGED <<l1, table, s3, newest, puts, ops, dropped, torn>>

(* The value that was downloaded goes into memory.                         *)
Store(t) ==
  LET c == Home[t] IN
  /\ th[t].pc = "store"
  /\ l1' = [l1 EXCEPT ![c] = [val |-> th[t].val, old |-> FALSE]]
  /\ IF Expired(c) THEN To(t, "evict") ELSE Return(t, th[t].val)
  /\ UNCHANGED <<table, s3, newest, puts, ops, dropped, torn>>

(* The lock of the key itself is taken out of the table, while it is held. *)
EvictHeld(t) ==
  /\ th[t].pc = "evict"
  /\ PopLock(Home[t]) /\ Return(t, th[t].val)
  /\ UNCHANGED <<l1, s3, newest, puts, ops, torn>>

(* The caller has the value.                                               *)
Leave(t) ==
  /\ th[t].pc = "returned"
  /\ Step(t, Idle)
  /\ UNCHANGED <<l1, table, s3, newest, puts, ops, dropped, torn>>
-----------------------------------------------------------------------------
(* delete and adelete: S3 keeps the object.                                *)
Delete(t) ==
  /\ Begin(t)
  /\ l1' = [l1 EXCEPT ![Home[t]] = Nothing]
  /\ To(t, "unlock")
  /\ UNCHANGED <<table, s3, newest, puts, dropped, torn>>

DeleteLock(t) ==
  /\ th[t].pc = "unlock"
  /\ PopLock(Home[t]) /\ Step(t, Idle)
  /\ UNCHANGED <<l1, s3, newest, puts, ops, torn>>

(* Time passes: what container c has in memory expires.                    *)
Expire(c) ==
  /\ "expire" \in Faults /\ Hit(c) /\ ops < MaxOps
  /\ ops' = ops + 1
  /\ l1' = [l1 EXCEPT ![c].old = TRUE]
  /\ UNCHANGED <<table, s3, th, newest, puts, dropped, torn>>

(* Container c is rescheduled, and its threads die.                        *)
Restart(c) ==
  /\ "restart" \in Faults /\ ops < MaxOps
  /\ ops' = ops + 1
  /\ l1' = [l1 EXCEPT ![c] = Nothing]
  /\ table' = [table EXCEPT ![c] = NoLock]
  /\ th' = [t \in Thread |-> IF Home[t] = c THEN Idle ELSE th[t]]
  /\ UNCHANGED <<s3, newest, puts, dropped, torn>>
-----------------------------------------------------------------------------
(* What a thread does once its operation has begun.                        *)
Run(t) ==
  \/ PopEvicted(t) \/ Upload(t) \/ FindLock(t) \/ Acquire(t) \/ CheckAgain(t)
  \/ Download(t) \/ Store(t) \/ EvictHeld(t) \/ Leave(t) \/ DeleteLock(t)

Next ==
  \/ \E t \in Thread : Put(t) \/ PutOther(t) \/ Get(t) \/ Delete(t) \/ Run(t)
  \/ \E c \in Container : Expire(c) \/ Restart(c)

(* Threads run.                                                            *)
Spec == Init /\ [][Next]_vars /\ \A t \in Thread : WF_vars(Run(t))
-----------------------------------------------------------------------------
ThreadState == [pc : {"idle", "pop", "pop_other", "upload", "guard", "acquire", "check",
                      "download", "store", "evict", "returned", "unlock"},
                val : Value \cup {Absent}, lock : Lock \cup {NoLock},
                least : Value \cup {Absent}]

(* Type invariant: the memories, the lock tables and the threads, which    *)
(* have a lock while they load and only then.                              *)
TypeOK ==
  /\ l1 \in [Container -> [val : Value \cup {Absent}, old : BOOLEAN]]
  /\ table \in [Container -> Lock \cup {NoLock}]
  /\ s3 \in Value \cup {Absent}
  /\ th \in [Thread -> ThreadState]
  /\ \A t \in Thread :
       th[t].lock # NoLock <=>
         th[t].pc \in {"acquire", "check", "download", "store", "evict"}
  /\ newest \in [Container -> Value \cup {Absent}]
  /\ puts \in 0 .. MaxPuts /\ ops \in 0 .. MaxOps
  /\ dropped \subseteq Container /\ torn \in BOOLEAN

(* Two threads of a container download the value at a time only if its     *)
(* lock was dropped while one used it: "coordinated loading to prevent     *)
(* multiple concurrent S3 downloads" otherwise does.                       *)
OneDownload ==
  \A t, u \in Thread :
    /\ t # u /\ Home[t] = Home[u] /\ Home[t] \notin dropped
    /\ {th[t].pc, th[u].pc} \subseteq {"download", "store"}
    => FALSE

(* A get returns nothing older than the last put of its container that had *)
(* ended when it began, whatever is deleted, expires or restarts, unless a *)
(* put ran into another put or into a load, or was not uploaded (delete    *)
(* leaves the object in S3, "in case we resume inspection").               *)
ReadsOwnPut ==
  torn \/ \A t \in Thread : th[t].pc = "returned" => th[t].val >= th[t].least

(* A get ends, with a value or an exception, whoever deletes or evicts the *)
(* key and its lock meanwhile: no lock stays held.                         *)
GetEnds == \A t \in Thread : th[t].pc = "guard" ~> th[t].pc = "idle"
==============================================================================
