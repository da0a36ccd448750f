-------------------------- MODULE WorkerPool_proofs --------------------------
(***************************************************************************)
(* Proofs about WorkerPool, for any number of threads, table entries,      *)
(* forks and crashes: the counters are exact, the table never runs empty,  *)
(* the monitor removes only what it should, and no request is given to an  *)
(* index without a process.                                                *)
(***************************************************************************)
EXTENDS WorkerPool, FiniteSetTheorems, TLAPS

-----------------------------------------------------------------------------
(* The inductive invariant                                                 *)

Forking == {a \in Actors : pc[a] \in {"store", "count"}}
OpenThreads == {t \in Threads : pc[t] \in Open}
Removing == Terminating \cup {"uncount"}
ScalingDown == {"find"} \cup Terminating

(* The monitor never spawns: it would only do so for a worker it removed   *)
(* for its health, and there is none.                                      *)
MonitorPlaces ==
  /\ pc[Monitor] \in {"sleep", "count_idle", "find", "restart"} \cup Removing
  /\ pc[Monitor] \in Removing => scaling

(* A child that is forked and not yet counted is the forker's own.         *)
ForkedApart ==
  /\ \A a \in Forking : forked[a] \in Children
  /\ \A a, b \in Forking : forked[a] = forked[b] => a = b

(* It is in no entry, or in the one its thread stored it in.               *)
ForkedInPlace ==
  \A a \in Forking, i \in Deployed :
    pid[i] = forked[a] => i = At(a) /\ pc[a] = "count"

(* An entry holds a child of its own that was not waited for, except       *)
(* between waitpid and the reset of the entry.                             *)
TableLive ==
  /\ \A i \in Deployed :
       \/ pid[i] \in Children
       \/ proc[pid[i]] = "reaped" /\ pc[Monitor] = "reset" /\ i = At(Monitor)
  /\ \A i, j \in Deployed : pid[i] = pid[j] => i = j

(* The entry being removed stays as the monitor found it.                  *)
RemovalKept ==
  pc[Monitor] \in Terminating =>
    /\ is_worker_deployed(At(Monitor))
    /\ \A a \in Forking : At(a) # At(Monitor)
    /\ pc[Monitor] # "terminate" => forked[Monitor] = pid[At(Monitor)]

(* Nobody is about to overwrite an entry that was idle for long.           *)
LongIdleKept ==
  \A i \in Deployed : long_idle[i] => \A a \in Forking : At(a) # i

TwoLeft ==
  pc[Monitor] \in ScalingDown => \E i, j \in Deployed : i # j

(* Every request open since the monitor found none pending is fresh.       *)
FreshSince ==
  pc[Monitor] \in {"count_idle"} \cup ScalingDown =>
    OpenThreads \subseteq fresh

PendingCounted == pending_requests = Cardinality(OpenThreads)

PoolInv ==
  /\ TypeOK /\ MonitorPlaces
  /\ ForkedApart /\ ForkedInPlace /\ TableLive
  /\ RemovalKept /\ LongIdleKept /\ TwoLeft /\ AlwaysAWorker
  /\ FreshSince /\ PendingCounted /\ ChildrenCounted
-----------------------------------------------------------------------------
(* Lemmas about the operators                                              *)

(* A finite initial segment of the naturals ends below its cardinality.    *)
LEMMA SegmentEnd ==
  ASSUME NEW U \in SUBSET Nat, IsFiniteSet(U), 0 \in U,
         \A n \in U : \A m \in Nat : m <= n => m \in U
  PROVE  /\ Cardinality(U) \in Nat /\ Cardinality(U) >= 1
         /\ Cardinality(U) - 1 \in U
         /\ Cardinality(U) \notin U
<1> DEFINE c == Cardinality(U)
<1>1. c \in Nat
  BY FS_CardinalityType
<1>2. c >= 1
  BY <1>1, FS_EmptySet
<1>3. c \notin U
  <2>1. SUFFICES ASSUME c \in U PROVE FALSE
    OBVIOUS
  <2>2. 0 .. c \in SUBSET U
    BY <2>1, <1>1
  <2>3. Cardinality(0 .. c) <= c
    BY <2>2, FS_Subset
  <2>4. Cardinality(0 .. c) = c + 1
    <3>1. 0 \in Int /\ c \in Int /\ ~(0 > c)
      BY <1>1
    <3>2. Cardinality(0 .. c) = c - 0 + 1
      BY <3>1, FS_Interval
    <3> QED BY <3>2, <1>1
  <2> QED BY <2>3, <2>4, <1>1
<1>4. c - 1 \in U
  <2>1. SUFFICES ASSUME c - 1 \notin U PROVE FALSE
    OBVIOUS
  <2>2. U \in SUBSET (0 .. c - 2)
    <3>1. ASSUME NEW n \in U PROVE n < c - 1
      BY <3>1, <2>1, <1>1, <1>2
    <3> QED BY <3>1, <1>1
  <2>3. 0 \in Int /\ c - 2 \in Int /\ c - 2 + 1 = c - 1
    BY <1>1
  <2>4. IsFiniteSet(0 .. c - 2) /\ Cardinality(0 .. c - 2) = c - 1
    <3>1. Cardinality(0 .. c - 2) = IF 0 > c - 2 THEN 0 ELSE c - 2 - 0 + 1
      BY <2>3, FS_Interval
    <3>2. IsFiniteSet(0 .. c - 2)
      BY <2>3, FS_Interval
    <3>3. 0 \in 0 .. c - 2
      BY <2>2
    <3>4. ~(0 > c - 2)
      BY <3>3, <1>1
    <3> QED BY <3>1, <3>2, <3>4, <1>1
  <2>5. Cardinality(U) <= Cardinality(0 .. c - 2)
    BY <2>2, <2>4, FS_Subset
  <2> QED BY <2>4, <2>5, <1>1
<1> QED BY <1>1, <1>2, <1>3, <1>4

LEMMA LowestIsInSet ==
  ASSUME NEW S \in SUBSET Nat, S # {}
  PROVE  Lowest(S) \in S /\ \A j \in S : Lowest(S) <= j
<1> DEFINE U == {n \in Nat : \A j \in S : n <= j}
<1>1. PICK k \in S : TRUE
  OBVIOUS
<1>2. IsFiniteSet(U)
  <2>1. \A n \in U : n <= k
    OBVIOUS
  <2>2. k \in Nat /\ U \in SUBSET Nat
    OBVIOUS
  <2> HIDE DEF U
  <2> QED BY <2>1, <2>2, FS_BoundedSetOfNaturals
<1>3. /\ Cardinality(U) \in Nat /\ Cardinality(U) >= 1
      /\ Cardinality(U) - 1 \in U /\ Cardinality(U) \notin U
  <2>1. U \in SUBSET Nat /\ 0 \in U
    OBVIOUS
  <2>2. \A n \in U : \A m \in Nat : m <= n => m \in U
    OBVIOUS
  <2> HIDE DEF U
  <2> QED BY <1>2, <2>1, <2>2, SegmentEnd
<1>4. PICK i \in S : ~(Cardinality(U) <= i)
  BY <1>3
<1>5. \A j \in S : i <= j
  BY <1>3, <1>4
<1> QED BY <1>5 DEF Lowest

LEMMA HighestIsInSet ==
  ASSUME NEW m \in Nat, NEW S \in SUBSET (0 .. m), S # {}
  PROVE  Highest(S) \in S /\ \A j \in S : Highest(S) >= j
<1> DEFINE U == {n \in Nat : \E j \in S : n <= j}
<1>1. IsFiniteSet(U)
  <2>1. \A n \in U : n <= m
    OBVIOUS
  <2>2. U \in SUBSET Nat
    OBVIOUS
  <2> HIDE DEF U
  <2> QED BY <2>1, <2>2, FS_BoundedSetOfNaturals
<1>2. /\ Cardinality(U) \in Nat /\ Cardinality(U) >= 1
      /\ Cardinality(U) - 1 \in U /\ Cardinality(U) \notin U
  <2>1. U \in SUBSET Nat /\ 0 \in U
    <3>1. PICK j \in S : TRUE
      OBVIOUS
    <3>2. j \in 0 .. m
      BY <3>1
    <3>3. j \in Nat /\ 0 <= j
      BY <3>2
    <3> QED BY <3>1, <3>3
  <2>2. \A n \in U : \A k \in Nat : k <= n => k \in U
    OBVIOUS
  <2> HIDE DEF U
  <2> QED BY <1>1, <2>1, <2>2, SegmentEnd
<1>3. PICK i \in S : Cardinality(U) - 1 <= i
  BY <1>2
<1>4. \A j \in S : ~(Cardinality(U) <= j)
  BY <1>2
<1>5. \A j \in S : i >= j
  BY <1>2, <1>3, <1>4
<1> QED BY <1>5 DEF Highest

-----------------------------------------------------------------------------
(* Type correctness                                                        *)

(* The disjuncts of Next.  The monitor takes no step of a spawn.           *)
LEMMA Steps ==
  ASSUME PoolInv, Next
  PROVE  \/ \E t \in Threads :
               \/ Arrive(t) \/ FoundIdle(t) \/ NotIdle(t)
               \/ LookForRoom(t) \/ ScaleUp(t) \/ NoScaleUp(t)
               \/ CompareQueue(t) \/ ReturnLeast(t)
               \/ SpawnNeedless(t) \/ Fork(t) \/ ForkFails(t)
               \/ StoreWorker(t) \/ CountWorker(t)
               \/ Start(t) \/ Activate(t) \/ Enqueue(t) \/ EnqueueFails(t)
               \/ Complete(t) \/ Deactivate(t)
         \/ \E p \in Pids, t \in Threads : Take(p, t) \/ Answer(p, t)
         \/ \E p \in Pids : Crash(p)
         \/ CheckPending \/ CountIdle \/ FindExpired \/ NoneExpired
         \/ Terminate \/ Reap \/ Reset \/ Uncount
         \/ restart_unhealthy_workers
         \/ \E i \in Indices : Expire(i)
<1>1. ~SpawnStep(Monitor)
  <2>1. pc[Monitor] \notin Spawning
    BY DEF PoolInv, MonitorPlaces, Removing, Terminating, Spawning
  <2> QED BY <2>1
      DEF SpawnStep, SpawnNeedless, Fork, ForkFails, StoreWorker,
          CountWorker, Goto, Spawning
<1> QED BY <1>1 DEF Next, ThreadStep, WorkerStep, MonitorStep, SpawnStep

LEMMA LowestIndex ==
  ASSUME NEW S \in SUBSET Indices, S # {}
  PROVE  Lowest(S) \in S /\ Lowest(S) \in Indices
<1>1. S \in SUBSET Nat
  BY PoolAssumption DEF Indices
<1> QED BY <1>1, LowestIsInSet

LEMMA HighestIndex ==
  ASSUME NEW S \in SUBSET Indices, S # {}
  PROVE  Highest(S) \in S /\ Highest(S) \in Indices
<1>1. MAX_WORKERS - 1 \in Nat
  BY PoolAssumption
<1> QED BY <1>1, HighestIsInSet DEF Indices

(* Sets of threads and of processes are finite.                            *)
LEMMA SetsFinite ==
  /\ IsFiniteSet(Actors) /\ IsFiniteSet(Pids)
  /\ \A S \in SUBSET Actors : IsFiniteSet(S) /\ Cardinality(S) \in Nat
  /\ \A S \in SUBSET Pids : IsFiniteSet(S) /\ Cardinality(S) \in Nat
<1>1. IsFiniteSet(Actors)
  BY PoolAssumption, FS_AddElement DEF Actors
<1>2. IsFiniteSet(Pids)
  <2>1. 1 \in Int /\ MAX_FORKS \in Int
    BY PoolAssumption
  <2> QED BY <2>1, FS_Interval DEF Pids
<1> QED BY <1>1, <1>2, FS_Subset, FS_CardinalityType

(* The length of a queue is a natural number.                              *)
LEMMA QueueSizeNat ==
  \A i \in Indices : QueueSize(i) \in Nat
<1>1. ASSUME NEW i \in Indices PROVE QueueSize(i) \in Nat
  <2>1. {t \in Threads : pc[t] = "queued" /\ At(t) = i} \in SUBSET Actors
    BY DEF Actors
  <2> QED BY <2>1, SetsFinite DEF QueueSize
<1> QED BY <1>1

(* There is a child for every actor that has forked one.                   *)
LEMMA ForkingBounded ==
  ASSUME TypeOK, ForkedApart
  PROVE  Cardinality(Forking) <= Cardinality(Children)
<1> DEFINE f == [a \in Forking |-> forked[a]]
<1>1. f \in Injection(Forking, Children)
  BY DEF ForkedApart, Injection, IsInjective
<1>2. IsFiniteSet(Children)
  BY SetsFinite DEF Children
<1> HIDE DEF f
<1> QED BY <1>1, <1>2, FS_Injection

LEMMA TypePreserved ==
  ASSUME PoolInv, Next
  PROVE  TypeOK'
<1> USE PoolAssumption
<1>t. TypeOK
  BY DEF PoolInv
<1> USE <1>t
    DEF TypeOK, Goto, MonitorGoto, table, counters, procs, locals,
        monitorVars, Actors, Spawning, Open, Terminating, At, Indices
<1>1. ASSUME NEW t \in Threads,
             \/ Arrive(t) \/ FoundIdle(t) \/ NotIdle(t)
             \/ LookForRoom(t) \/ NoScaleUp(t)
      PROVE  TypeOK'
  <2>1. CASE Arrive(t)
    BY <2>1 DEF Arrive
  <2>2. CASE FoundIdle(t)
    BY <2>2 DEF FoundIdle, Probe, Idle, Deployed
  <2>3. CASE NotIdle(t)
    BY <2>3 DEF NotIdle, Probe
  <2>4. CASE NoScaleUp(t)
    BY <2>4 DEF NoScaleUp
  <2>5. CASE LookForRoom(t)
    BY <2>5 DEF LookForRoom
  <2> QED BY <1>1, <2>1, <2>2, <2>3, <2>4, <2>5
<1>2. ASSUME NEW t \in Threads, ScaleUp(t) PROVE TypeOK'
  <2>1. Lowest(Vacant) \in Indices
    BY <1>2, LowestIndex DEF ScaleUp, Vacant
  <2> QED BY <1>2, <2>1 DEF ScaleUp
<1>3. ASSUME NEW t \in Threads, CompareQueue(t) \/ ReturnLeast(t) PROVE TypeOK'
  <2>1. ASSUME NEW i \in Indices PROVE QueueSize(i) \in Nat
    BY QueueSizeNat
  <2>2. tries[t] % MAX_WORKERS \in Indices
    OBVIOUS
  <2>3. CASE CompareQueue(t)
    <3>1. worker_index' \in [Actors -> Indices]
      BY <2>2, <2>3 DEF CompareQueue
    <3>2. min_queue_size' \in [Threads -> Int]
      <4> DEFINE size == QueueSize(tries[t] % MAX_WORKERS)
      <4>1. size \in Int
        BY <2>1, <2>2
      <4>2. PICK shorter : min_queue_size' =
              [min_queue_size EXCEPT ![t] = IF shorter THEN size ELSE @]
        BY <2>3 DEF CompareQueue
      <4> HIDE DEF size
      <4> QED BY <4>1, <4>2
    <3>3. tries' \in [Threads -> 0 .. 2 * MAX_WORKERS]
      BY <2>3 DEF CompareQueue
    <3> QED BY <2>3, <3>1, <3>2, <3>3 DEF CompareQueue
  <2>4. CASE ReturnLeast(t)
    BY <2>4 DEF ReturnLeast
  <2> QED BY <1>3, <2>3, <2>4
<1>4. ASSUME NEW t \in Threads,
             \/ SpawnNeedless(t) \/ Fork(t) \/ ForkFails(t)
             \/ StoreWorker(t) \/ CountWorker(t)
      PROVE  TypeOK'
  <2>1. CASE SpawnNeedless(t)
    BY <2>1 DEF SpawnNeedless, Spawned
  <2>2. CASE Fork(t)
    BY <2>2 DEF Fork
  <2>3. CASE ForkFails(t)
    BY <2>3 DEF ForkFails
  <2>4. CASE StoreWorker(t)
    BY <2>4 DEF StoreWorker
  <2>5. CASE CountWorker(t)
    BY <2>5 DEF CountWorker, Spawned
  <2> QED BY <1>4, <2>1, <2>2, <2>3, <2>4, <2>5
<1>5. ASSUME NEW t \in Threads,
             \/ Start(t) \/ Activate(t) \/ Enqueue(t) \/ EnqueueFails(t)
             \/ Deactivate(t)
      PROVE  TypeOK'
  <2>1. CASE Start(t)
    BY <2>1 DEF Start
  <2>2. CASE Activate(t)
    BY <2>2 DEF Activate, MarkWorker
  <2>3. CASE Enqueue(t)
    BY <2>3 DEF Enqueue
  <2>4. CASE EnqueueFails(t)
    BY <2>4 DEF EnqueueFails
  <2>5. CASE Deactivate(t)
    BY <2>5 DEF Deactivate, MarkWorker
  <2> QED BY <1>5, <2>1, <2>2, <2>3, <2>4, <2>5
<1>6. ASSUME NEW t \in Threads, Complete(t) PROVE TypeOK'
  <2>1. t \in OpenThreads
    BY <1>6 DEF Complete, OpenThreads
  <2>2. OpenThreads \in SUBSET Actors
    BY DEF OpenThreads
  <2>3. IsFiniteSet(OpenThreads) /\ Cardinality(OpenThreads) \in Nat
    BY <2>2, SetsFinite
  <2>4. Cardinality(OpenThreads) # 0
    BY <2>1, <2>3, FS_EmptySet
  <2>5. pending_requests - 1 \in Nat
    BY <2>3, <2>4 DEF PoolInv, PendingCounted
  <2> QED BY <1>6, <2>5 DEF Complete
<1>7. ASSUME NEW p \in Pids,
             (\E t \in Threads : Take(p, t) \/ Answer(p, t)) \/ Crash(p)
      PROVE  TypeOK'
  <2>1. ASSUME NEW t \in Threads, Take(p, t) PROVE TypeOK'
    BY <2>1 DEF Take
  <2>2. ASSUME NEW t \in Threads, Answer(p, t) PROVE TypeOK'
    BY <2>2 DEF Answer
  <2>3. CASE Crash(p)
    BY <2>3 DEF Crash
  <2> QED BY <1>7, <2>1, <2>2, <2>3
<1>8. CASE CheckPending \/ CountIdle \/ NoneExpired
  BY <1>8 DEF CheckPending, CountIdle, NoneExpired
<1>9. CASE FindExpired
  <2>1. Highest(Expired) \in Indices
    BY <1>9, HighestIndex DEF FindExpired, Expired, Idle, Deployed
  <2> QED BY <1>9, <2>1 DEF FindExpired
<1>10. CASE Terminate \/ Reap \/ Reset
  <2>1. CASE Terminate
    BY <2>1 DEF Terminate
  <2>2. CASE Reap
    BY <2>2 DEF Reap
  <2>3. CASE Reset
    BY <2>3 DEF Reset
  <2> QED BY <1>10, <2>1, <2>2, <2>3
<1>11. CASE Uncount
  <2>1. Cardinality(Forking) <= Cardinality(Children)
    BY ForkingBounded DEF PoolInv
  <2>2. Cardinality(Forking) \in Nat /\ Cardinality(Children) \in Nat
    BY SetsFinite DEF Forking, Children
  <2>3. active_worker_count + Cardinality(Forking) = Cardinality(Children) + 1
    BY <1>11 DEF PoolInv, ChildrenCounted, Uncount, Forking
  <2>4. active_worker_count - 1 \in Nat
    BY <2>1, <2>2, <2>3
  <2> QED BY <1>11, <2>4 DEF Uncount
<1>12. CASE restart_unhealthy_workers
  <2>1. Unhealthy # {} => Lowest(Unhealthy) \in Indices
    BY LowestIndex DEF Unhealthy, Deployed
  <2> QED BY <1>12, <2>1 DEF restart_unhealthy_workers
<1>13. ASSUME NEW i \in Indices, Expire(i) PROVE TypeOK'
  BY <1>13 DEF Expire
<1> QED
  BY Steps, <1>1, <1>2, <1>3, <1>4, <1>5, <1>6, <1>7, <1>8, <1>9, <1>10,
     <1>11, <1>12, <1>13

-----------------------------------------------------------------------------
(* Requests that are open                                                  *)

LEMMA StartOpens ==
  ASSUME PoolInv, NEW t \in Threads, Start(t)
  PROVE  /\ t \notin OpenThreads /\ OpenThreads' = OpenThreads \cup {t}
         /\ pending_requests' = pending_requests + 1 /\ fresh' = fresh \cup {t}
         /\ pc'[Monitor] = pc[Monitor]
BY PoolAssumption
DEF PoolInv, TypeOK, Start, Goto, OpenThreads, Open, Actors

LEMMA CompleteCloses ==
  ASSUME PoolInv, NEW t \in Threads, Complete(t)
  PROVE  /\ t \in OpenThreads /\ OpenThreads' = OpenThreads \ {t}
         /\ pending_requests' = pending_requests - 1 /\ fresh' = fresh
         /\ pc'[Monitor] = pc[Monitor]
BY PoolAssumption
DEF PoolInv, TypeOK, Complete, Goto, OpenThreads, Open, Actors,
   monitorVars

(* Every other step leaves the open requests as they are; but for the      *)
(* monitor's, it leaves the monitor where it is.                           *)
LEMMA OthersKeepOpen ==
  ASSUME PoolInv, Next, \A t \in Threads : ~Start(t) /\ ~Complete(t)
  PROVE  /\ OpenThreads' = OpenThreads /\ pending_requests' = pending_requests
         /\ \/ fresh' = fresh /\ pc'[Monitor] = pc[Monitor]
            \/ MonitorStep
<1> DEFINE Kept == /\ OpenThreads' = OpenThreads
                   /\ pending_requests' = pending_requests
                   /\ \/ fresh' = fresh /\ pc'[Monitor] = pc[Monitor]
                      \/ MonitorStep
<1>t. TypeOK
  BY DEF PoolInv
<1> USE <1>t, PoolAssumption
   
    DEF TypeOK, OpenThreads, Open, Actors, Goto, counters, monitorVars,
        locals
<1>1. ASSUME NEW t \in Threads,
             \/ Arrive(t) \/ FoundIdle(t) \/ NotIdle(t)
             \/ LookForRoom(t) \/ ScaleUp(t) \/ NoScaleUp(t)
             \/ CompareQueue(t) \/ ReturnLeast(t)
      PROVE  Kept
  BY <1>1 DEF Arrive, FoundIdle, NotIdle, Probe, LookForRoom,
              ScaleUp, NoScaleUp, CompareQueue, ReturnLeast
<1>2. ASSUME NEW t \in Threads,
             \/ SpawnNeedless(t) \/ Fork(t) \/ ForkFails(t)
             \/ StoreWorker(t) \/ CountWorker(t)
      PROVE  Kept
  BY <1>2
  DEF SpawnNeedless, Fork, ForkFails, StoreWorker, CountWorker, Spawned
<1>3. ASSUME NEW t \in Threads,
             Activate(t) \/ Enqueue(t) \/ EnqueueFails(t) \/ Deactivate(t)
      PROVE  Kept
  BY <1>3 DEF Activate, Enqueue, EnqueueFails, Deactivate
<1>4. ASSUME NEW p \in Pids, NEW t \in Threads, Take(p, t) \/ Answer(p, t)
      PROVE  Kept
  BY <1>4 DEF Take, Answer
<1>5. ASSUME NEW p \in Pids, Crash(p) PROVE Kept
  BY <1>5 DEF Crash
<1>6. CASE CheckPending \/ CountIdle \/ FindExpired \/ NoneExpired
  BY <1>6
  DEF MonitorStep, MonitorGoto, CheckPending, CountIdle, FindExpired,
      NoneExpired
<1>7. CASE Terminate \/ Reap \/ Reset \/ Uncount \/ restart_unhealthy_workers
  BY <1>7 DEF MonitorStep, MonitorGoto, Terminate, Reap, Reset, Uncount,
              restart_unhealthy_workers
<1>8. ASSUME NEW i \in Indices, Expire(i) PROVE Kept
  BY <1>8 DEF Expire
<1> QED BY Steps, <1>1, <1>2, <1>3, <1>4, <1>5, <1>6, <1>7, <1>8

LEMMA PendingPreserved ==
  ASSUME PoolInv, Next
  PROVE  PendingCounted'
<1>1. IsFiniteSet(OpenThreads) /\ Cardinality(OpenThreads) \in Nat
  BY SetsFinite DEF OpenThreads, Actors
<1>2. pending_requests = Cardinality(OpenThreads)
  BY DEF PoolInv, PendingCounted
<1>3. ASSUME NEW t \in Threads, Start(t) PROVE PendingCounted'
  BY <1>1, <1>2, <1>3, StartOpens, FS_AddElement DEF PendingCounted
<1>4. ASSUME NEW t \in Threads, Complete(t) PROVE PendingCounted'
  BY <1>1, <1>2, <1>4, CompleteCloses, FS_RemoveElement DEF PendingCounted
<1>5. CASE \A t \in Threads : ~Start(t) /\ ~Complete(t)
  BY <1>2, <1>5, OthersKeepOpen DEF PendingCounted
<1> QED BY <1>3, <1>4, <1>5

(* The monitor finds no worker to restart.                                 *)
LEMMA NoneUnhealthy ==
  ASSUME PoolInv, pc[Monitor] = "restart"
  PROVE  Unhealthy = {}
BY DEF PoolInv, TableLive, Unhealthy, is_worker_healthy, Children

LEMMA FreshPreserved ==
  ASSUME PoolInv, Next
  PROVE  FreshSince'
<1>1. FreshSince
  BY DEF PoolInv
<1>2. ASSUME NEW t \in Threads, Start(t) PROVE FreshSince'
  BY <1>1, <1>2, StartOpens DEF FreshSince
<1>3. ASSUME NEW t \in Threads, Complete(t) PROVE FreshSince'
  BY <1>1, <1>3, CompleteCloses DEF FreshSince
<1>4. ASSUME \A t \in Threads : ~Start(t) /\ ~Complete(t) PROVE FreshSince'
  <2>1. OpenThreads' = OpenThreads
    BY <1>4, OthersKeepOpen
  <2>2. CASE fresh' = fresh /\ pc'[Monitor] = pc[Monitor]
    BY <1>1, <2>1, <2>2 DEF FreshSince
  <2>3. CASE CheckPending
    <3>1. ASSUME pending_requests < 1 PROVE OpenThreads = {}
      <4>1. OpenThreads \in SUBSET Actors
        BY DEF OpenThreads, Actors
      <4>2. IsFiniteSet(OpenThreads) /\ Cardinality(OpenThreads) \in Nat
        BY <4>1, SetsFinite
      <4>3. Cardinality(OpenThreads) = 0
        BY <3>1, <4>2 DEF PoolInv, PendingCounted
      <4> QED BY <4>2, <4>3, FS_EmptySet
    <3>2. pc'[Monitor] = "count_idle" => pending_requests < 1
      BY <2>3
      DEF CheckPending, MonitorGoto, Goto, ScaleDownThreshold, PoolInv,
          TypeOK, Actors
    <3>3. pc'[Monitor] \in {"count_idle", "restart"}
      BY <2>3 DEF CheckPending, MonitorGoto, Goto, PoolInv, TypeOK, Actors
    <3> QED BY <2>1, <3>1, <3>2, <3>3
        DEF FreshSince, ScalingDown, Terminating
  <2>4. CASE CountIdle \/ FindExpired \/ NoneExpired \/ Terminate \/ Reap
             \/ Reset \/ Uncount
    BY <1>1, <2>1, <2>4
    DEF FreshSince, ScalingDown, Terminating, CountIdle, FindExpired,
        NoneExpired, Terminate, Reap, Reset, Uncount, MonitorGoto, Goto,
        monitorVars, PoolInv, TypeOK, Actors
  <2>5. CASE restart_unhealthy_workers
    <3>1. pc'[Monitor] = "sleep"
      BY <2>5, NoneUnhealthy
     
      DEF restart_unhealthy_workers, MonitorGoto, Goto, PoolInv, TypeOK,
          Actors
    <3> QED BY <3>1 DEF FreshSince, ScalingDown, Terminating
  <2>6. CASE SpawnStep(Monitor)
    BY <2>6
    DEF SpawnStep, SpawnNeedless, Fork, ForkFails, StoreWorker, CountWorker,
       Goto, PoolInv, MonitorPlaces, Removing, Terminating
  <2> QED BY <1>4, <2>2, <2>3, <2>4, <2>5, <2>6, OthersKeepOpen
      DEF MonitorStep
<1> QED BY <1>2, <1>3, <1>4

-----------------------------------------------------------------------------
(* The table                                                               *)

(* A step that changes nothing the table's part of the invariant is about. *)
TableKept ==
  /\ pid' = pid /\ Children' = Children /\ Forking' = Forking
  /\ \A p \in Pids : proc[p] = "reaped" => proc'[p] = "reaped"
  /\ \A a \in Forking :
       pc'[a] = pc[a] /\ forked'[a] = forked[a] /\ At(a)' = At(a)
  /\ forked'[Monitor] = forked[Monitor]
  /\ active_worker_count' = active_worker_count

MonitorStays ==
  /\ pc'[Monitor] = pc[Monitor] /\ At(Monitor)' = At(Monitor)
  /\ scaling' = scaling

LEMMA ThreadsKeepTable ==
  ASSUME PoolInv, NEW t \in Threads,
         \/ Arrive(t) \/ FoundIdle(t) \/ NotIdle(t)
         \/ LookForRoom(t) \/ ScaleUp(t) \/ NoScaleUp(t)
         \/ CompareQueue(t) \/ ReturnLeast(t)
         \/ SpawnNeedless(t) \/ ForkFails(t)
         \/ Start(t) \/ Activate(t) \/ Enqueue(t) \/ EnqueueFails(t)
         \/ Complete(t) \/ Deactivate(t)
  PROVE  /\ TableKept /\ MonitorStays
         /\ \A i \in Deployed : long_idle'[i] => long_idle[i]
<1> USE PoolAssumption
   
    DEF TableKept, MonitorStays, PoolInv, TypeOK, Children, Forking,
        Deployed, Actors, At, Goto,
        table, counters, procs, locals, monitorVars
<1>1. CASE \/ Arrive(t) \/ FoundIdle(t) \/ NotIdle(t)
           \/ LookForRoom(t) \/ ScaleUp(t) \/ NoScaleUp(t)
           \/ CompareQueue(t) \/ ReturnLeast(t)
  BY <1>1 DEF Arrive, FoundIdle, NotIdle, Probe, LookForRoom,
              ScaleUp, NoScaleUp, CompareQueue, ReturnLeast
<1>2. CASE SpawnNeedless(t) \/ ForkFails(t) \/ Start(t) \/ Enqueue(t)
           \/ EnqueueFails(t) \/ Complete(t)
  BY <1>2
  DEF SpawnNeedless, ForkFails, Spawned, Start, Enqueue, EnqueueFails,
      Complete
<1>3. CASE Activate(t) \/ Deactivate(t)
  BY <1>3 DEF Activate, Deactivate, MarkWorker
<1> QED BY <1>1, <1>2, <1>3

LEMMA ProcessesKeepTable ==
  ASSUME PoolInv, NEW p \in Pids,
         (\E t \in Threads : Take(p, t) \/ Answer(p, t)) \/ Crash(p)
  PROVE  TableKept /\ MonitorStays /\ long_idle' = long_idle
<1> USE PoolAssumption
   
    DEF TableKept, MonitorStays, PoolInv, TypeOK, Children, Forking, Alive,
        Actors, At, Goto,
        table, counters, procs, locals, monitorVars
<1>1. ASSUME NEW t \in Threads, Take(p, t)
      PROVE  TableKept /\ MonitorStays /\ long_idle' = long_idle
  BY <1>1 DEF Take
<1>2. ASSUME NEW t \in Threads, Answer(p, t)
      PROVE  TableKept /\ MonitorStays /\ long_idle' = long_idle
  BY <1>2 DEF Answer
<1>3. CASE Crash(p)
  BY <1>3 DEF Crash
<1> QED BY <1>1, <1>2, <1>3

LEMMA MonitorKeepsTable ==
  ASSUME PoolInv,
         \/ CheckPending \/ CountIdle \/ FindExpired \/ NoneExpired
         \/ restart_unhealthy_workers \/ Terminate \/ Uncount
         \/ \E i \in Indices : Expire(i)
  PROVE  /\ pid' = pid /\ Children' = Children /\ Forking' = Forking
         /\ pc[Monitor] # "reset"
         /\ \A a \in Forking :
              pc'[a] = pc[a] /\ forked'[a] = forked[a] /\ At(a)' = At(a)
<1> USE PoolAssumption
    DEF PoolInv, TypeOK, Children, Forking, Actors, At, Goto, MonitorGoto,
        table, counters, procs, locals, monitorVars
<1>1. CASE \/ CheckPending \/ CountIdle \/ FindExpired \/ NoneExpired
           \/ restart_unhealthy_workers
  BY <1>1
  DEF CheckPending, CountIdle, FindExpired, NoneExpired,
      restart_unhealthy_workers
<1>2. CASE Terminate
  BY <1>2 DEF Terminate
<1>3. CASE Uncount
  BY <1>3, <1>1 DEF Uncount
<1>4. CASE \E i \in Indices : Expire(i)
  BY <1>4 DEF Expire
<1> QED BY <1>1, <1>2, <1>3, <1>4

(* The steps that change it.                                               *)

LEMMA ForkEffect ==
  ASSUME PoolInv, NEW t \in Threads, Fork(t)
  PROVE  \E p \in Pids :
           /\ p \notin Children /\ \A i \in Deployed : pid[i] # p
           /\ Children' = Children \cup {p}
           /\ t \notin Forking /\ Forking' = Forking \cup {t}
           /\ pc'[t] = "store" /\ forked'[t] = p
           /\ \A a \in Forking : pc'[a] = pc[a] /\ forked'[a] = forked[a]
           /\ forked'[Monitor] = forked[Monitor] /\ MonitorStays
           /\ \A q \in Pids : q # p => proc'[q] = proc[q]
           /\ ~is_worker_deployed(At(t)) /\ worker_index' = worker_index
           /\ pid' = pid /\ long_idle' = long_idle
           /\ active_worker_count' = active_worker_count
<1> USE PoolAssumption
    DEF PoolInv, TypeOK, Children, Forking, Deployed, Actors, At, Goto,
        table, counters, monitorVars, is_worker_deployed
<1>1. PICK p \in Pids :
        /\ proc[p] = "unborn" /\ proc' = [proc EXCEPT ![p] = "running"]
        /\ forked' = [forked EXCEPT ![t] = p]
  BY DEF Fork
<1>2. p \notin Children /\ Children' = Children \cup {p}
  BY <1>1
<1>3. \A i \in Deployed : pid[i] # p
  BY <1>1, <1>2 DEF TableLive
<1>4. \A q \in Pids : q # p => proc'[q] = proc[q]
  BY <1>1
<1>5. /\ t \notin Forking /\ Forking' = Forking \cup {t}
      /\ pc'[t] = "store" /\ forked'[t] = p
      /\ \A a \in Forking : pc'[a] = pc[a] /\ forked'[a] = forked[a]
  BY <1>1 DEF Fork
<1>6. forked'[Monitor] = forked[Monitor] /\ MonitorStays
  BY <1>1 DEF Fork, MonitorStays
<1>7. /\ ~is_worker_deployed(At(t)) /\ worker_index' = worker_index
      /\ pid' = pid /\ long_idle' = long_idle
      /\ active_worker_count' = active_worker_count
  BY DEF Fork
<1> QED BY <1>1, <1>2, <1>3, <1>4, <1>5, <1>6, <1>7

LEMMA StoreEffect ==
  ASSUME PoolInv, NEW t \in Threads, StoreWorker(t)
  PROVE  /\ t \in Forking /\ pc[t] = "store" /\ pc'[t] = "count"
         /\ Forking' = Forking /\ Children' = Children
         /\ \A a \in Forking \ {t} : pc'[a] = pc[a]
         /\ pid' = [pid EXCEPT ![At(t)] = forked[t]] /\ forked[t] \in Pids
         /\ Deployed' = Deployed \cup {At(t)}
         /\ ~long_idle'[At(t)]
         /\ \A i \in Indices : i # At(t) => long_idle'[i] = long_idle[i]
         /\ forked' = forked /\ worker_index' = worker_index /\ MonitorStays
         /\ proc' = proc /\ active_worker_count' = active_worker_count
<1> USE PoolAssumption
    DEF PoolInv, TypeOK, Children, Forking, Deployed, Actors, At, Goto,
        counters, procs, locals, monitorVars, is_worker_deployed, StoreWorker
<1>1. forked[t] \in Pids /\ forked[t] # NoPid
  BY DEF ForkedApart, Pids, NoPid
<1>2. /\ t \in Forking /\ pc[t] = "store" /\ pc'[t] = "count"
      /\ Forking' = Forking /\ Children' = Children
      /\ \A a \in Forking \ {t} : pc'[a] = pc[a]
  OBVIOUS
<1>3. Deployed' = Deployed \cup {At(t)}
  BY <1>1
<1>4. /\ ~long_idle'[At(t)]
      /\ \A i \in Indices : i # At(t) => long_idle'[i] = long_idle[i]
  OBVIOUS
<1>5. MonitorStays
  BY DEF MonitorStays
<1> QED BY <1>1, <1>2, <1>3, <1>4, <1>5

LEMMA CountEffect ==
  ASSUME PoolInv, NEW t \in Threads, CountWorker(t)
  PROVE  /\ t \in Forking /\ Forking' = Forking \ {t} /\ Children' = Children
         /\ \A a \in Forking' : pc'[a] = pc[a]
         /\ active_worker_count' = active_worker_count + 1
         /\ pid' = pid /\ long_idle' = long_idle /\ proc' = proc
         /\ forked' = forked /\ worker_index' = worker_index /\ MonitorStays
BY PoolAssumption
DEF PoolInv, TypeOK, Children, Forking, Actors, At, Goto, MonitorStays,
    Spawned,
    table, procs, locals, monitorVars, CountWorker

LEMMA ReapEffect ==
  ASSUME PoolInv, Reap
  PROVE  /\ forked[Monitor] \in Children /\ forked[Monitor] = pid[At(Monitor)]
         /\ At(Monitor) \in Deployed
         /\ \A a \in Forking : forked[a] # forked[Monitor]
         /\ Children' = Children \ {forked[Monitor]}
         /\ proc'[forked[Monitor]] = "reaped"
         /\ Forking' = Forking /\ \A a \in Forking : pc'[a] = pc[a]
         /\ pc[Monitor] = "reap" /\ pc'[Monitor] = "reset"
         /\ pid' = pid /\ long_idle' = long_idle /\ scaling' = scaling
         /\ forked' = forked /\ worker_index' = worker_index
         /\ active_worker_count' = active_worker_count
<1> USE PoolAssumption
   
    DEF PoolInv, TypeOK, Children, Forking, Deployed, Actors, At, Goto,
        Reap,
        MonitorGoto, table, counters, locals, monitorVars
<1>1. /\ forked[Monitor] = pid[At(Monitor)] /\ At(Monitor) \in Deployed
      /\ forked[Monitor] \in Children
  BY DEF RemovalKept, Terminating, TableLive
<1>2. \A a \in Forking : forked[a] # forked[Monitor]
  BY <1>1 DEF ForkedInPlace, RemovalKept, Terminating
<1>3. /\ Children' = Children \ {forked[Monitor]}
      /\ proc'[forked[Monitor]] = "reaped"
  BY <1>1
<1>4. Forking' = Forking /\ \A a \in Forking : pc'[a] = pc[a]
  OBVIOUS
<1> QED BY <1>1, <1>2, <1>3, <1>4

LEMMA ResetEffect ==
  ASSUME PoolInv, Reset
  PROVE  /\ pid' = [pid EXCEPT ![At(Monitor)] = NoPid]
         /\ Deployed' = Deployed \ {At(Monitor)}
         /\ pc[Monitor] = "reset" /\ pc'[Monitor] = "uncount"
         /\ Forking' = Forking /\ \A a \in Forking : pc'[a] = pc[a]
         /\ Children' = Children /\ proc' = proc
         /\ long_idle' = long_idle /\ scaling' = scaling
         /\ forked' = forked /\ worker_index' = worker_index
         /\ active_worker_count' = active_worker_count
BY PoolAssumption
DEF PoolInv, TypeOK, Children, Forking, Deployed, is_worker_deployed,
    Actors, At, Goto,
    Reset, MonitorGoto, counters, procs, locals, monitorVars

(* A step of the last kinds but one changes an entry or a child.           *)
Untouched ==
  /\ TableKept /\ MonitorStays
  /\ \A i \in Deployed : long_idle'[i] => long_idle[i]

MonitorLooks ==
  \/ CheckPending \/ CountIdle \/ FindExpired \/ NoneExpired
  \/ restart_unhealthy_workers \/ Terminate \/ Uncount
  \/ \E i \in Indices : Expire(i)

LEMMA TableSteps ==
  ASSUME PoolInv, Next
  PROVE  \/ Untouched
         \/ \E t \in Threads : Fork(t) \/ StoreWorker(t) \/ CountWorker(t)
         \/ MonitorLooks \/ Reap \/ Reset
BY Steps, ThreadsKeepTable, ProcessesKeepTable DEF Untouched, MonitorLooks

LEMMA ForkedApartPreserved ==
  ASSUME PoolInv, Next
  PROVE  ForkedApart'
<1> USE DEF PoolInv, ForkedApart
<1>1. CASE Untouched
  BY <1>1 DEF Untouched, TableKept
<1>2. ASSUME NEW t \in Threads, Fork(t) PROVE ForkedApart'
  BY <1>2, ForkEffect
<1>3. ASSUME NEW t \in Threads, StoreWorker(t) PROVE ForkedApart'
  BY <1>3, StoreEffect
<1>4. ASSUME NEW t \in Threads, CountWorker(t) PROVE ForkedApart'
  BY <1>4, CountEffect
<1>5. CASE MonitorLooks
  BY <1>5, MonitorKeepsTable DEF MonitorLooks
<1>6. CASE Reap
  BY <1>6, ReapEffect
<1>7. CASE Reset
  BY <1>7, ResetEffect
<1> QED BY TableSteps, <1>1, <1>2, <1>3, <1>4, <1>5, <1>6, <1>7

LEMMA ForkedInPlacePreserved ==
  ASSUME PoolInv, Next
  PROVE  ForkedInPlace'
<1> USE
    DEF PoolInv, ForkedApart, ForkedInPlace, Deployed, is_worker_deployed,
        At
<1>1. CASE Untouched
  BY <1>1 DEF Untouched, TableKept
<1>2. ASSUME NEW t \in Threads, Fork(t) PROVE ForkedInPlace'
  BY <1>2, ForkEffect
<1>3. ASSUME NEW t \in Threads, StoreWorker(t) PROVE ForkedInPlace'
  BY <1>3, StoreEffect DEF TypeOK
<1>4. ASSUME NEW t \in Threads, CountWorker(t) PROVE ForkedInPlace'
  BY <1>4, CountEffect
<1>5. CASE MonitorLooks
  BY <1>5, MonitorKeepsTable DEF MonitorLooks
<1>6. CASE Reap
  BY <1>6, ReapEffect
<1>7. CASE Reset
  BY <1>7, ResetEffect DEF TypeOK
<1> QED BY TableSteps, <1>1, <1>2, <1>3, <1>4, <1>5, <1>6, <1>7

LEMMA TableLivePreserved ==
  ASSUME PoolInv, Next
  PROVE  TableLive'
<1> USE DEF PoolInv, TypeOK, TableLive, Deployed, is_worker_deployed, At
<1>1. CASE Untouched
  <2>1. \A i \in Deployed : pid[i] \in Pids
    BY DEF NoPid
  <2> QED BY <1>1, <2>1 DEF Untouched, TableKept, MonitorStays
<1>2. ASSUME NEW t \in Threads, Fork(t) PROVE TableLive'
  <2>1. \A i \in Deployed : pid[i] \in Pids
    BY DEF NoPid
  <2> QED BY <1>2, <2>1, ForkEffect DEF MonitorStays
<1>3. ASSUME NEW t \in Threads, StoreWorker(t) PROVE TableLive'
  <2>1. \A i \in Deployed : i # At(t) => pid[i] # forked[t]
    BY <1>3, StoreEffect DEF ForkedInPlace
  <2>2. forked[t] \in Children
    BY <1>3, StoreEffect DEF ForkedApart
  <2> QED BY <1>3, <2>1, <2>2, StoreEffect DEF MonitorStays
<1>4. ASSUME NEW t \in Threads, CountWorker(t) PROVE TableLive'
  BY <1>4, CountEffect DEF MonitorStays
<1>5. CASE MonitorLooks
  BY <1>5, MonitorKeepsTable DEF MonitorLooks
<1>6. CASE Reap
  BY <1>6, ReapEffect
<1>7. CASE Reset
  BY <1>7, ResetEffect
<1> QED BY TableSteps, <1>1, <1>2, <1>3, <1>4, <1>5, <1>6, <1>7

-----------------------------------------------------------------------------
(* The monitor                                                             *)

LEMMA MonitorPlacesPreserved ==
  ASSUME PoolInv, Next
  PROVE  MonitorPlaces'
<1> USE DEF PoolInv, MonitorPlaces, Removing, Terminating
<1>1. CASE Untouched
  BY <1>1 DEF Untouched, MonitorStays
<1>2. ASSUME NEW t \in Threads, Fork(t) \/ StoreWorker(t) \/ CountWorker(t)
      PROVE  MonitorPlaces'
  BY <1>2, ForkEffect, StoreEffect, CountEffect DEF MonitorStays
<1>3. CASE MonitorLooks
  <2> USE DEF Goto, MonitorGoto, TypeOK, Actors, monitorVars
  <2>1. CASE CheckPending \/ CountIdle \/ FindExpired \/ NoneExpired
    BY <2>1 DEF CheckPending, CountIdle, FindExpired, NoneExpired
  <2>2. CASE Terminate \/ Uncount
    BY <2>2 DEF Terminate, Uncount
  <2>3. CASE restart_unhealthy_workers
    BY <2>3, NoneUnhealthy DEF restart_unhealthy_workers
  <2>4. CASE \E i \in Indices : Expire(i)
    BY <2>4 DEF Expire
  <2> QED BY <1>3, <2>1, <2>2, <2>3, <2>4 DEF MonitorLooks
<1>4. CASE Reap \/ Reset
  BY <1>4, ReapEffect, ResetEffect
<1> QED BY TableSteps, <1>1, <1>2, <1>3, <1>4

LEMMA RemovalPreserved ==
  ASSUME PoolInv, Next
  PROVE  RemovalKept'
<1> USE
    DEF PoolInv, RemovalKept, Terminating, Deployed, is_worker_deployed, At
<1>1. CASE Untouched
  BY <1>1 DEF Untouched, TableKept, MonitorStays
<1>2. ASSUME NEW t \in Threads, Fork(t) PROVE RemovalKept'
  BY <1>2, ForkEffect DEF MonitorStays
<1>3. ASSUME NEW t \in Threads, StoreWorker(t) PROVE RemovalKept'
  <2>1. CASE pc[Monitor] \in Terminating
    <3>1. At(t) # At(Monitor)
      BY <1>3, <2>1, StoreEffect
    <3>2. pid'[At(Monitor)] = pid[At(Monitor)]
      BY <1>3, <3>1, StoreEffect DEF TypeOK, Actors
    <3> QED BY <1>3, <2>1, <3>2, StoreEffect DEF MonitorStays
  <2>2. CASE pc[Monitor] \notin Terminating
    BY <1>3, <2>2, StoreEffect DEF MonitorStays
  <2> QED BY <2>1, <2>2
<1>4. ASSUME NEW t \in Threads, CountWorker(t) PROVE RemovalKept'
  BY <1>4, CountEffect DEF MonitorStays
<1>5. CASE MonitorLooks
  <2> USE DEF Goto, MonitorGoto, TypeOK, Actors, locals
  <2>1. CASE \/ CheckPending \/ CountIdle \/ NoneExpired \/ Uncount
             \/ restart_unhealthy_workers \/ \E i \in Indices : Expire(i)
    <3>1. pc'[Monitor] \notin Terminating
      BY <2>1, NoneUnhealthy
      DEF CheckPending, CountIdle, NoneExpired, Uncount, Expire,
          restart_unhealthy_workers
    <3> QED BY <3>1
  <2>2. CASE FindExpired
    <3>1. Highest(Expired) \in Deployed /\ long_idle[Highest(Expired)]
      <4>1. Expired \in SUBSET Indices /\ Expired # {}
        BY <2>2 DEF FindExpired, Expired, Idle
      <4>2. Highest(Expired) \in Expired
        BY <4>1, HighestIndex
      <4> QED BY <4>2 DEF Expired, Idle
    <3>2. \A a \in Forking : At(a) # Highest(Expired)
      BY <3>1 DEF LongIdleKept
    <3>3. worker_index' = [worker_index EXCEPT ![Monitor] = Highest(Expired)]
      BY <2>2 DEF FindExpired
    <3>4. pc'[Monitor] = "terminate" /\ Monitor \notin Forking
      BY <2>2 DEF FindExpired, Forking
    <3> QED BY <1>5, <3>1, <3>2, <3>3, <3>4, MonitorKeepsTable
        DEF MonitorLooks
  <2>3. CASE Terminate
    <3>1. pc'[Monitor] = "reap" /\ forked'[Monitor] = pid[At(Monitor)]
      BY <2>3 DEF Terminate
    <3>2. worker_index' = worker_index /\ pc[Monitor] = "terminate"
      BY <2>3 DEF Terminate
    <3> QED BY <1>5, <3>1, <3>2, MonitorKeepsTable DEF MonitorLooks
  <2> QED BY <1>5, <2>1, <2>2, <2>3 DEF MonitorLooks
<1>6. CASE Reap
  BY <1>6, ReapEffect
<1>7. CASE Reset
  BY <1>7, ResetEffect
<1> QED BY TableSteps, <1>1, <1>2, <1>3, <1>4, <1>5, <1>6, <1>7

LEMMA LongIdlePreserved ==
  ASSUME PoolInv, Next
  PROVE  LongIdleKept'
<1> USE DEF PoolInv, LongIdleKept, Deployed, is_worker_deployed, At
<1>1. CASE Untouched
  BY <1>1 DEF Untouched, TableKept
<1>2. ASSUME NEW t \in Threads, Fork(t) PROVE LongIdleKept'
  BY <1>2, ForkEffect
<1>3. ASSUME NEW t \in Threads, StoreWorker(t) PROVE LongIdleKept'
  BY <1>3, StoreEffect DEF TypeOK
<1>4. ASSUME NEW t \in Threads, CountWorker(t) PROVE LongIdleKept'
  BY <1>4, CountEffect
<1>5. CASE MonitorLooks
  <2>1. ASSUME NEW i \in Indices, Expire(i) PROVE LongIdleKept'
    <3>1. Forking' = {}
      BY <2>1 DEF Expire, Forking, Actors
    <3> QED BY <3>1
  <2>2. CASE \A i \in Indices : ~Expire(i)
    <3>1. long_idle' = long_idle
      BY <1>5, <2>2
      DEF MonitorLooks, CheckPending, CountIdle, FindExpired, NoneExpired,
          restart_unhealthy_workers, Terminate, Uncount, table
    <3> QED BY <1>5, <3>1, MonitorKeepsTable DEF MonitorLooks
  <2> QED BY <2>1, <2>2
<1>6. CASE Reap
  BY <1>6, ReapEffect
<1>7. CASE Reset
  BY <1>7, ResetEffect DEF TypeOK
<1> QED BY TableSteps, <1>1, <1>2, <1>3, <1>4, <1>5, <1>6, <1>7

(* More than one element is two elements.                                  *)
LEMMA TwoElements ==
  ASSUME NEW S, IsFiniteSet(S), Cardinality(S) > 1
  PROVE  \E x, y \in S : x # y
<1>1. SUFFICES ASSUME \A x, y \in S : x = y PROVE FALSE
  OBVIOUS
<1>2. CASE S = {}
  <2>1. Cardinality(S) = 0
    BY <1>2, FS_EmptySet
  <2> QED BY <2>1
<1>3. CASE S # {}
  <2>1. \E x : S = {x}
    BY <1>1, <1>3
  <2>2. Cardinality(S) = 1
    BY <2>1, FS_Singleton
  <2> QED BY <2>2
<1> QED BY <1>2, <1>3

LEMMA TwoLeftPreserved ==
  ASSUME PoolInv, Next
  PROVE  TwoLeft' /\ AlwaysAWorker'
<1> USE
    DEF PoolInv, TwoLeft, AlwaysAWorker, ScalingDown, Terminating, Deployed,
        is_worker_deployed
<1>1. CASE Untouched
  BY <1>1 DEF Untouched, TableKept, MonitorStays
<1>2. ASSUME NEW t \in Threads, Fork(t) PROVE TwoLeft' /\ AlwaysAWorker'
  BY <1>2, ForkEffect DEF MonitorStays
<1>3. ASSUME NEW t \in Threads, StoreWorker(t) PROVE TwoLeft' /\ AlwaysAWorker'
  BY <1>3, StoreEffect DEF MonitorStays
<1>4. ASSUME NEW t \in Threads, CountWorker(t) PROVE TwoLeft' /\ AlwaysAWorker'
  BY <1>4, CountEffect DEF MonitorStays
<1>5. CASE MonitorLooks
  <2> USE DEF Goto, MonitorGoto, TypeOK, Actors
  <2>1. CASE \/ CheckPending \/ NoneExpired \/ Uncount
             \/ restart_unhealthy_workers \/ \E i \in Indices : Expire(i)
    <3>1. pc'[Monitor] \notin ScalingDown
      BY <2>1, NoneUnhealthy
     
      DEF CheckPending, NoneExpired, Uncount, Expire,
          restart_unhealthy_workers
    <3> QED BY <1>5, <3>1, MonitorKeepsTable DEF MonitorLooks
  <2>2. CASE CountIdle
    <3>1. Cardinality(Idle) > 1 => \E i, j \in Idle : i # j
      <4>1. 0 \in Int /\ MAX_WORKERS - 1 \in Int
        BY PoolAssumption
      <4>2. IsFiniteSet(Indices)
        BY <4>1, FS_Interval DEF Indices
      <4>3. IsFiniteSet(Idle)
        BY <4>2, FS_Subset DEF Idle
      <4> QED BY <4>3, TwoElements
    <3>2. pc'[Monitor] = "find" => Cardinality(Idle) > 1
      BY <2>2 DEF CountIdle
    <3>3. pc'[Monitor] \in {"find", "restart"}
      BY <2>2 DEF CountIdle
    <3> QED BY <1>5, <3>1, <3>2, <3>3, MonitorKeepsTable
        DEF MonitorLooks, Idle
  <2>3. CASE FindExpired \/ Terminate
    <3>1. pc[Monitor] \in ScalingDown
      BY <2>3 DEF FindExpired, Terminate
    <3> QED BY <1>5, <3>1, MonitorKeepsTable DEF MonitorLooks
  <2> QED BY <1>5, <2>1, <2>2, <2>3 DEF MonitorLooks
<1>6. CASE Reap
  BY <1>6, ReapEffect
<1>7. CASE Reset
  BY <1>7, ResetEffect
<1> QED BY TableSteps, <1>1, <1>2, <1>3, <1>4, <1>5, <1>6, <1>7

-----------------------------------------------------------------------------
(* The count of workers                                                    *)

(* A child that was waited for and is still counted.                       *)
Uncounted == IF pc[Monitor] \in {"reset", "uncount"} THEN 1 ELSE 0

Balanced ==
  active_worker_count + Cardinality(Forking)
    = Cardinality(Children) + Uncounted

LEMMA ChildrenPreserved ==
  ASSUME PoolInv, Next
  PROVE  ChildrenCounted'
<1>1. /\ IsFiniteSet(Forking) /\ Cardinality(Forking) \in Nat
      /\ IsFiniteSet(Children) /\ Cardinality(Children) \in Nat
  BY SetsFinite DEF Forking, Children
<1>2. active_worker_count \in Nat /\ active_worker_count' \in Nat
  BY TypePreserved DEF PoolInv, TypeOK
<1>3. Balanced
  BY DEF PoolInv, ChildrenCounted, Forking, Balanced, Uncounted
<1>4. SUFFICES Balanced'
  BY DEF ChildrenCounted, Forking, Balanced, Uncounted
<1>5. CASE Untouched
  BY <1>3, <1>5 DEF Untouched, TableKept, MonitorStays, Balanced, Uncounted
<1>6. ASSUME NEW t \in Threads, Fork(t)
      PROVE  Balanced'
  <2>1. PICK p : p \notin Children /\ Children' = Children \cup {p}
    BY <1>6, ForkEffect
  <2>2. Cardinality(Children') = Cardinality(Children) + 1
    BY <1>1, <2>1, FS_AddElement
  <2>3. t \notin Forking /\ Forking' = Forking \cup {t}
    BY <1>6, ForkEffect
  <2>4. Cardinality(Forking') = Cardinality(Forking) + 1
    BY <1>1, <2>3, FS_AddElement
  <2>5. /\ active_worker_count' = active_worker_count
        /\ pc'[Monitor] = pc[Monitor]
    BY <1>6, ForkEffect DEF MonitorStays
  <2> QED BY <1>1, <1>2, <1>3, <2>2, <2>4, <2>5 DEF Balanced, Uncounted
<1>7. ASSUME NEW t \in Threads, StoreWorker(t)
      PROVE  Balanced'
  BY <1>3, <1>7, StoreEffect DEF MonitorStays, Balanced, Uncounted
<1>8. ASSUME NEW t \in Threads, CountWorker(t)
      PROVE  Balanced'
  <2>1. t \in Forking /\ Forking' = Forking \ {t}
    BY <1>8, CountEffect
  <2>2. Cardinality(Forking') = Cardinality(Forking) - 1
    BY <1>1, <2>1, FS_RemoveElement
  <2>3. /\ active_worker_count' = active_worker_count + 1
        /\ pc'[Monitor] = pc[Monitor] /\ Children' = Children
    BY <1>8, CountEffect DEF MonitorStays
  <2> QED BY <1>1, <1>2, <1>3, <2>2, <2>3 DEF Balanced, Uncounted
<1>9. CASE MonitorLooks
  <2> USE
      DEF PoolInv, TypeOK, Actors, Goto, MonitorGoto, counters, Balanced,
          Uncounted, MonitorPlaces, Removing
  <2>1. Forking' = Forking /\ Children' = Children
    BY <1>9, MonitorKeepsTable DEF MonitorLooks
  <2>2. CASE Uncount
    <3>1. /\ active_worker_count' = active_worker_count - 1
          /\ pc[Monitor] = "uncount" /\ pc'[Monitor] = "restart"
      BY <2>2 DEF Uncount
    <3> QED BY <1>1, <1>2, <1>3, <2>1, <3>1
  <2>3. CASE \/ CheckPending \/ CountIdle \/ FindExpired \/ NoneExpired
             \/ restart_unhealthy_workers \/ Terminate
             \/ \E i \in Indices : Expire(i)
    <3>1. /\ active_worker_count' = active_worker_count
          /\ pc[Monitor] \notin {"reset", "uncount"}
          /\ pc'[Monitor] \notin {"reset", "uncount"}
      BY <2>3
     
      DEF CheckPending, CountIdle, FindExpired, NoneExpired, Terminate,
          Expire,
          restart_unhealthy_workers
    <3> QED BY <1>3, <2>1, <3>1
  <2> QED BY <1>9, <2>2, <2>3 DEF MonitorLooks
<1>10. CASE Reap
  <2>1. /\ forked[Monitor] \in Children
        /\ Children' = Children \ {forked[Monitor]}
    BY <1>10, ReapEffect
  <2>2. Cardinality(Children') = Cardinality(Children) - 1
    BY <1>1, <2>1, FS_RemoveElement
  <2>3. /\ Forking' = Forking /\ active_worker_count' = active_worker_count
        /\ pc[Monitor] = "reap" /\ pc'[Monitor] = "reset"
    BY <1>10, ReapEffect
  <2> QED BY <1>1, <1>2, <1>3, <2>2, <2>3 DEF Balanced, Uncounted
<1>11. CASE Reset
  BY <1>3, <1>11, ResetEffect DEF Balanced, Uncounted
<1> QED BY TableSteps, <1>5, <1>6, <1>7, <1>8, <1>9, <1>10, <1>11

-----------------------------------------------------------------------------
LEMMA PoolInvInit == Init => PoolInv
<1>0. SUFFICES ASSUME Init PROVE PoolInv
  OBVIOUS
<1> USE <1>0, PoolAssumption DEF Init
<1>1. TypeOK
  <2>1. pid \in [Indices -> Pids \cup {NoPid}] /\ home \in [Pids -> Indices]
    BY DEF Indices, Pids, NoPid
  <2>2. proc \in [Pids -> {"unborn", "running", "stopping", "zombie", "reaped"}]
    OBVIOUS
  <2>3. 0 \in Indices /\ active_worker_count \in Nat
    BY DEF Indices
  <2>4. crashes \in 0 .. MAX_CRASHES
    OBVIOUS
  <2>5. /\ tries \in [Threads -> 0 .. 2 * MAX_WORKERS]
        /\ min_queue_size \in [Threads -> Int]
    OBVIOUS
  <2> QED BY <2>1, <2>2, <2>3, <2>4, <2>5 DEF TypeOK, NoPid
<1>2. Forking = {} /\ OpenThreads = {}
  BY DEF Forking, OpenThreads, Open, Actors
<1>3. Deployed = 0 .. min_workers - 1
  BY DEF Deployed, is_worker_deployed, Indices, NoPid
<1>4. Children = 1 .. min_workers
  BY DEF Children, Pids
<1>5. \A i \in Deployed : pid[i] = i + 1
  BY <1>3 DEF Indices
<1>6. TableLive
  BY <1>3, <1>4, <1>5 DEF TableLive
<1>7. AlwaysAWorker
  <2>1. 0 \in 0 .. min_workers - 1
    OBVIOUS
  <2> QED BY <1>3, <2>1, Zenon DEF AlwaysAWorker
<1>8. pc[Monitor] = "sleep"
  BY DEF Actors
<1>9. MonitorPlaces /\ RemovalKept /\ TwoLeft /\ FreshSince
  BY <1>8 DEF MonitorPlaces, RemovalKept, TwoLeft, FreshSince, Removing,
              Terminating, ScalingDown
<1>10. ForkedApart /\ ForkedInPlace /\ LongIdleKept
  BY <1>2 DEF ForkedApart, ForkedInPlace, LongIdleKept
<1>11. PendingCounted
  BY <1>2, FS_EmptySet DEF PendingCounted
<1>12. ChildrenCounted
  <2>1. 1 \in Int /\ min_workers \in Int /\ ~(1 > min_workers)
    OBVIOUS
  <2>2. Cardinality(Children) = min_workers - 1 + 1
    BY <1>4, <2>1, FS_Interval
  <2>3. Cardinality(Forking) = 0
    BY <1>2, FS_EmptySet
  <2> QED BY <1>8, <2>2, <2>3 DEF ChildrenCounted, Forking
<1> QED BY <1>1, <1>6, <1>7, <1>9, <1>10, <1>11, <1>12 DEF PoolInv

LEMMA PoolInvPreserved == PoolInv /\ [Next]_vars => PoolInv'
<1>1. ASSUME PoolInv, Next PROVE PoolInv'
  BY <1>1, TypePreserved, MonitorPlacesPreserved, ForkedApartPreserved,
     ForkedInPlacePreserved, TableLivePreserved, RemovalPreserved,
     LongIdlePreserved, TwoLeftPreserved, FreshPreserved, PendingPreserved,
     ChildrenPreserved
     DEF PoolInv
<1>2. ASSUME PoolInv, UNCHANGED vars PROVE PoolInv'
  BY <1>2
     DEF vars, table, counters, procs, locals, monitorVars, PoolInv, TypeOK,
         MonitorPlaces, ForkedApart, ForkedInPlace, TableLive, RemovalKept,
         LongIdleKept, TwoLeft, AlwaysAWorker, FreshSince, PendingCounted,
         ChildrenCounted, Forking, OpenThreads, Children, Deployed,
         is_worker_deployed, At
<1> QED BY <1>1, <1>2

LEMMA PoolInvariant == Spec => []PoolInv
BY PoolInvInit, PoolInvPreserved, PTL DEF Spec

-----------------------------------------------------------------------------
(* Requests are given to indices that have a process                       *)

(* An index for which a process was ever forked.                           *)
Housed(i) == \E p \in Pids : home[p] = i /\ proc[p] # "unborn"

(* A worker is stored at the index it was forked for.                      *)
HomesKept ==
  /\ \A i \in Deployed : home[pid[i]] = i
  /\ \A a \in Forking : home[forked[a]] = At(a)

(* The search finds none before it begins.                                 *)
NoneYet == \A t \in Threads : pc[t] # "least" => min_queue_size[t] = -1

(* A thread that has chosen an index, or one so far.                       *)
HasChosen(t) ==
  \/ pc[t] \in {"start"} \cup Open
  \/ pc[t] = "least" /\ min_queue_size[t] # -1

ChosenHoused == \A t \in Threads : HasChosen(t) => Housed(At(t))

ServedBy(t, p) == Alive(p) /\ home[p] = At(t) /\ serving[p] = {t}

TakenServed ==
  \A t \in Threads :
    pc[t] = "taken" => EndedAt(At(t)) \/ \E p \in Pids : ServedBy(t, p)

ServeInv == HomesKept /\ NoneYet /\ ChosenHoused /\ TakenServed

(* A process once forked keeps its index, and once ended does not return.  *)
Onward ==
  \A p \in Pids :
    /\ proc[p] # "unborn" => proc'[p] # "unborn" /\ home'[p] = home[p]
    /\ proc[p] \in {"zombie", "reaped"} => proc'[p] \in {"zombie", "reaped"}

LEMMA GoOnward ==
  ASSUME PoolInv, Next
  PROVE  Onward
<1> USE PoolAssumption
    DEF PoolInv, TypeOK, Onward, At, table, counters, procs, locals,
        monitorVars
<1>1. ASSUME NEW t \in Threads,
             \/ Arrive(t) \/ FoundIdle(t) \/ NotIdle(t)
             \/ LookForRoom(t) \/ ScaleUp(t) \/ NoScaleUp(t)
             \/ CompareQueue(t) \/ ReturnLeast(t)
             \/ SpawnNeedless(t) \/ ForkFails(t)
             \/ StoreWorker(t) \/ CountWorker(t)
             \/ Start(t) \/ Activate(t) \/ Enqueue(t) \/ EnqueueFails(t)
             \/ Complete(t) \/ Deactivate(t)
      PROVE  Onward
  <2>1. proc' = proc /\ home' = home
    BY <1>1
    DEF Arrive, FoundIdle, NotIdle, Probe, LookForRoom, ScaleUp, NoScaleUp,
        CompareQueue, ReturnLeast, SpawnNeedless, ForkFails, StoreWorker,
        CountWorker, Start, Activate, Enqueue, EnqueueFails, Complete,
        Deactivate
  <2> QED BY <2>1
<1>2. ASSUME NEW t \in Threads, Fork(t) PROVE Onward
  BY <1>2 DEF Fork
<1>3. ASSUME NEW p \in Pids, NEW t \in Threads, Take(p, t) \/ Answer(p, t)
      PROVE  Onward
  BY <1>3 DEF Take, Answer, Alive
<1>4. ASSUME NEW p \in Pids, Crash(p) PROVE Onward
  BY <1>4 DEF Crash, Alive
<1>5. CASE CheckPending \/ CountIdle \/ FindExpired \/ NoneExpired
           \/ restart_unhealthy_workers \/ Reset \/ Uncount
           \/ \E i \in Indices : Expire(i)
  <2>1. proc' = proc /\ home' = home
    BY <1>5
    DEF CheckPending, CountIdle, FindExpired, NoneExpired, Reset, Uncount,
        restart_unhealthy_workers, Expire
  <2> QED BY <2>1
<1>6. CASE Terminate
  BY <1>6 DEF Terminate
<1>7. CASE Reap
  <2>1. forked[Monitor] \in Children
    BY <1>7, ReapEffect
  <2> QED BY <1>7, <2>1 DEF Reap, Children
<1> QED BY Steps, <1>1, <1>2, <1>3, <1>4, <1>5, <1>6, <1>7

LEMMA HousedStays ==
  ASSUME PoolInv, Next, NEW i, Housed(i)
  PROVE  Housed(i)'
BY GoOnward DEF Onward, Housed

LEMMA EndedStays ==
  ASSUME PoolInv, Next, NEW i, EndedAt(i)
  PROVE  EndedAt(i)'
BY GoOnward DEF Onward, EndedAt

(* The index of an entry in use is one a process was forked for.           *)
LEMMA DeployedHoused ==
  ASSUME PoolInv, HomesKept, NEW i \in Deployed
  PROVE  Housed(i)
<1>1. pid[i] \in Pids /\ proc[pid[i]] # "unborn"
  BY DEF PoolInv, TypeOK, TableLive, Children, Deployed, is_worker_deployed,
         NoPid
<1> QED BY <1>1 DEF HomesKept, Housed

LEMMA HomesPreserved ==
  ASSUME PoolInv, HomesKept, Next
  PROVE  HomesKept'
<1> USE DEF PoolInv, HomesKept, Deployed, is_worker_deployed
<1>1. /\ \A i \in Deployed : pid[i] \in Pids /\ proc[pid[i]] # "unborn"
      /\ \A a \in Forking : forked[a] \in Pids /\ proc[forked[a]] # "unborn"
  BY DEF TypeOK, TableLive, ForkedApart, Children, NoPid
<1>2. Onward
  BY GoOnward
<1>3. /\ \A i \in Deployed : home'[pid[i]] = i
      /\ \A a \in Forking : home'[forked[a]] = At(a)
  BY <1>1, <1>2 DEF Onward
<1>4. CASE Untouched
  BY <1>3, <1>4 DEF Untouched, TableKept
<1>5. ASSUME NEW t \in Threads, Fork(t) PROVE HomesKept'
  <2>1. home'[forked'[t]] = At(t)
    BY <1>5 DEF Fork, TypeOK, Actors
  <2> QED BY <1>3, <1>5, <2>1, ForkEffect DEF At
<1>6. ASSUME NEW t \in Threads, StoreWorker(t) PROVE HomesKept'
  BY <1>3, <1>6, StoreEffect DEF TypeOK, Actors, At
<1>7. ASSUME NEW t \in Threads, CountWorker(t) PROVE HomesKept'
  BY <1>3, <1>7, CountEffect DEF At
<1>8. CASE MonitorLooks
  BY <1>3, <1>8, MonitorKeepsTable DEF MonitorLooks
<1>9. CASE Reap
  BY <1>3, <1>9, ReapEffect DEF At
<1>10. CASE Reset
  BY <1>3, <1>10, ResetEffect DEF TypeOK, At
<1> QED BY TableSteps, <1>4, <1>5, <1>6, <1>7, <1>8, <1>9, <1>10

LEMMA NoneYetPreserved ==
  ASSUME PoolInv, NoneYet, Next
  PROVE  NoneYet'
<1> USE PoolAssumption
    DEF PoolInv, TypeOK, Actors, NoneYet, Goto, MonitorGoto, locals
<1>1. ASSUME NEW t \in Threads,
             \/ Arrive(t) \/ FoundIdle(t) \/ NotIdle(t)
             \/ LookForRoom(t) \/ ScaleUp(t) \/ NoScaleUp(t)
      PROVE  NoneYet'
  BY <1>1 DEF Arrive, FoundIdle, NotIdle, Probe, LookForRoom, ScaleUp,
              NoScaleUp
<1>2. ASSUME NEW t \in Threads, CompareQueue(t) PROVE NoneYet'
  <2>1. /\ pc' = pc /\ pc[t] = "least"
        /\ \A u \in Threads \ {t} : min_queue_size'[u] = min_queue_size[u]
    BY <1>2 DEF CompareQueue
  <2> QED BY <2>1
<1>3. ASSUME NEW t \in Threads, ReturnLeast(t) PROVE NoneYet'
  BY <1>3 DEF ReturnLeast
<1>4. ASSUME NEW t \in Threads,
             \/ SpawnNeedless(t) \/ Fork(t) \/ ForkFails(t)
             \/ StoreWorker(t) \/ CountWorker(t)
      PROVE  NoneYet'
  BY <1>4 DEF SpawnNeedless, Fork, ForkFails, StoreWorker, CountWorker,
              Spawned
<1>5. ASSUME NEW t \in Threads,
             \/ Start(t) \/ Activate(t) \/ Enqueue(t) \/ EnqueueFails(t)
             \/ Complete(t) \/ Deactivate(t)
      PROVE  NoneYet'
  BY <1>5 DEF Start, Activate, Enqueue, EnqueueFails, Complete, Deactivate
<1>6. ASSUME NEW p \in Pids, NEW t \in Threads, Take(p, t) \/ Answer(p, t)
      PROVE  NoneYet'
  BY <1>6 DEF Take, Answer
<1>7. ASSUME NEW p \in Pids, Crash(p) PROVE NoneYet'
  BY <1>7 DEF Crash
<1>8. CASE CheckPending \/ CountIdle \/ FindExpired \/ NoneExpired
           \/ Terminate \/ Reap \/ Reset \/ Uncount
           \/ restart_unhealthy_workers \/ \E i \in Indices : Expire(i)
  BY <1>8
  DEF CheckPending, CountIdle, FindExpired, NoneExpired, Terminate, Reap,
      Reset, Uncount, restart_unhealthy_workers, Expire
<1> QED BY Steps, <1>1, <1>2, <1>3, <1>4, <1>5, <1>6, <1>7, <1>8

(* A step leaves a thread that had chosen where it was, or the index it    *)
(* has chosen is one a process was forked for.                             *)
Chooses(t) ==
  HasChosen(t)' =>
    \/ HasChosen(t) /\ At(t)' = At(t)
    \/ Housed(worker_index'[t])

LEMMA ChoicesHoused ==
  ASSUME PoolInv, HomesKept, NoneYet, Next, NEW t \in Threads
  PROVE  Chooses(t)
<1> USE PoolAssumption
    DEF PoolInv, TypeOK, Actors, Chooses, HasChosen, NoneYet, Goto,
        MonitorGoto, At, locals, Open
<1>1. ASSUME NEW u \in Threads,
             \/ Arrive(u) \/ NotIdle(u)
             \/ LookForRoom(u) \/ ScaleUp(u) \/ NoScaleUp(u)
      PROVE  Chooses(t)
  BY <1>1 DEF Arrive, NotIdle, Probe, LookForRoom, ScaleUp, NoScaleUp
<1>2. ASSUME NEW u \in Threads, FoundIdle(u) PROVE Chooses(t)
  <2>1. round_robin_counter \in Deployed
    BY <1>2 DEF FoundIdle, Idle
  <2>2. Housed(round_robin_counter)
    BY <2>1, DeployedHoused
  <2>3. worker_index' = [worker_index EXCEPT ![u] = round_robin_counter]
    BY <1>2 DEF FoundIdle
  <2>4. /\ pc' = [pc EXCEPT ![u] = "start"]
        /\ min_queue_size' = min_queue_size
    BY <1>2 DEF FoundIdle
  <2> HIDE DEF Housed
  <2> QED BY <2>2, <2>3, <2>4
<1>3. ASSUME NEW u \in Threads, CompareQueue(u) PROVE Chooses(t)
  <2> DEFINE i == tries[u] % MAX_WORKERS
             shorter == /\ is_worker_deployed(i)
                        /\ \/ min_queue_size[u] = -1
                           \/ QueueSize(i) < min_queue_size[u]
  <2>1. i \in Indices
    BY DEF Indices
  <2>2. /\ worker_index' =
             [worker_index EXCEPT ![u] = IF shorter THEN i ELSE @]
        /\ min_queue_size' =
             [min_queue_size EXCEPT ![u] = IF shorter THEN QueueSize(i) ELSE @]
        /\ pc' = pc
    BY <1>3 DEF CompareQueue
  <2>3. shorter => Housed(i)
    BY <2>1, DeployedHoused DEF Deployed
  <2>4. CASE shorter
    <3>1. worker_index'[u] = i /\ \A v \in Threads \ {u} :
            /\ worker_index'[v] = worker_index[v]
            /\ min_queue_size'[v] = min_queue_size[v]
      BY <2>2, <2>4
    <3> HIDE DEF i, shorter
    <3> QED BY <2>2, <2>3, <2>4, <3>1
  <2>5. CASE ~shorter
    <3>1. worker_index' = worker_index /\ min_queue_size' = min_queue_size
      BY <2>2, <2>5
    <3> QED BY <2>2, <3>1
  <2> QED BY <2>4, <2>5
<1>4. ASSUME NEW u \in Threads, ReturnLeast(u) PROVE Chooses(t)
  BY <1>4 DEF ReturnLeast
<1>5. ASSUME NEW u \in Threads, SpawnNeedless(u) PROVE Chooses(t)
  <2>1. Housed(worker_index[u])
    BY <1>5, DeployedHoused DEF SpawnNeedless, Deployed
  <2>2. /\ pc' = [pc EXCEPT ![u] = "start"] /\ worker_index' = worker_index
        /\ min_queue_size' = min_queue_size
    BY <1>5 DEF SpawnNeedless, Spawned
  <2> QED BY <2>1, <2>2
<1>6. ASSUME NEW u \in Threads, CountWorker(u) PROVE Chooses(t)
  <2>1. u \in Forking /\ worker_index' = worker_index
    BY <1>6, CountEffect
  <2>2. forked[u] \in Pids /\ proc[forked[u]] # "unborn"
    BY <2>1 DEF ForkedApart, Children
  <2>3. Housed(worker_index[u])
    BY <2>1, <2>2 DEF HomesKept, Housed
  <2>4. /\ pc' = [pc EXCEPT ![u] = "start"]
        /\ min_queue_size' = min_queue_size
    BY <1>6 DEF CountWorker, Spawned
  <2> QED BY <2>1, <2>3, <2>4
<1>7. ASSUME NEW u \in Threads, Fork(u) \/ ForkFails(u) \/ StoreWorker(u)
      PROVE  Chooses(t)
  BY <1>7 DEF Fork, ForkFails, StoreWorker
<1>8. ASSUME NEW u \in Threads,
             \/ Start(u) \/ Activate(u) \/ Enqueue(u) \/ EnqueueFails(u)
             \/ Complete(u) \/ Deactivate(u)
      PROVE  Chooses(t)
  BY <1>8 DEF Start, Activate, Enqueue, EnqueueFails, Complete, Deactivate
<1>9. ASSUME NEW p \in Pids, NEW u \in Threads, Take(p, u) \/ Answer(p, u)
      PROVE  Chooses(t)
  BY <1>9 DEF Take, Answer
<1>10. ASSUME NEW p \in Pids, Crash(p) PROVE Chooses(t)
  BY <1>10 DEF Crash
<1>11. CASE CheckPending \/ CountIdle \/ FindExpired \/ NoneExpired
            \/ Terminate \/ Reap \/ Reset \/ Uncount
            \/ restart_unhealthy_workers \/ \E i \in Indices : Expire(i)
  BY <1>11
  DEF CheckPending, CountIdle, FindExpired, NoneExpired, Terminate, Reap,
      Reset, Uncount, restart_unhealthy_workers, Expire
<1> QED BY Steps, <1>1, <1>2, <1>3, <1>4, <1>5, <1>6, <1>7, <1>8, <1>9,
           <1>10, <1>11

LEMMA ChosenPreserved ==
  ASSUME PoolInv, ServeInv, Next
  PROVE  ChosenHoused'
<1>1. ASSUME NEW t \in Threads, HasChosen(t)' PROVE Housed(At(t))'
  <2>1. Chooses(t)
    BY ChoicesHoused DEF ServeInv
  <2>2. Housed(worker_index'[t])
    BY <1>1, <2>1 DEF ServeInv, ChosenHoused, Chooses, At
  <2>3. \E p \in Pids : home'[p] = worker_index'[t] /\ proc'[p] # "unborn"
    BY <2>2, GoOnward DEF Onward, Housed
  <2> QED BY <2>3 DEF Housed, At
<1> QED BY <1>1 DEF ChosenHoused

(* A thread whose request was taken stays where it is until it is answered.*)
LEMMA TakenWaits ==
  ASSUME PoolInv, Next, NEW t \in Threads, pc'[t] = "taken"
  PROVE  /\ worker_index'[t] = worker_index[t]
         /\ pc[t] = "taken" \/ \E p \in Pids : Take(p, t)
<1> USE PoolAssumption
    DEF PoolInv, TypeOK, Actors, Goto, MonitorGoto, locals
<1> DEFINE Waits == /\ worker_index'[t] = worker_index[t]
                    /\ pc[t] = "taken" \/ \E p \in Pids : Take(p, t)
<1>1. ASSUME NEW u \in Threads,
             \/ Arrive(u) \/ FoundIdle(u) \/ NotIdle(u)
             \/ LookForRoom(u) \/ ScaleUp(u) \/ NoScaleUp(u)
             \/ CompareQueue(u) \/ ReturnLeast(u)
      PROVE  Waits
  BY <1>1 DEF Arrive, FoundIdle, NotIdle, Probe, LookForRoom, ScaleUp,
              NoScaleUp, CompareQueue, ReturnLeast
<1>2. ASSUME NEW u \in Threads,
             \/ SpawnNeedless(u) \/ Fork(u) \/ ForkFails(u)
             \/ StoreWorker(u) \/ CountWorker(u)
      PROVE  Waits
  BY <1>2 DEF SpawnNeedless, Fork, ForkFails, StoreWorker, CountWorker,
              Spawned
<1>3. ASSUME NEW u \in Threads,
             \/ Start(u) \/ Activate(u) \/ Enqueue(u) \/ EnqueueFails(u)
             \/ Complete(u) \/ Deactivate(u)
      PROVE  Waits
  BY <1>3 DEF Start, Activate, Enqueue, EnqueueFails, Complete, Deactivate
<1>4. ASSUME NEW p \in Pids, NEW u \in Threads, Take(p, u) PROVE Waits
  <2>1. worker_index' = worker_index /\ pc' = [pc EXCEPT ![u] = "taken"]
    BY <1>4 DEF Take
  <2> QED BY <1>4, <2>1
<1>5. ASSUME NEW p \in Pids, NEW u \in Threads, Answer(p, u) PROVE Waits
  BY <1>5 DEF Answer
<1>6. ASSUME NEW p \in Pids, Crash(p) PROVE Waits
  BY <1>6 DEF Crash
<1>7. CASE CheckPending \/ CountIdle \/ FindExpired \/ NoneExpired
           \/ Terminate \/ Reap \/ Reset \/ Uncount
           \/ restart_unhealthy_workers \/ \E i \in Indices : Expire(i)
  BY <1>7
  DEF CheckPending, CountIdle, FindExpired, NoneExpired, Terminate, Reap,
      Reset, Uncount, restart_unhealthy_workers, Expire
<1> QED BY Steps, <1>1, <1>2, <1>3, <1>4, <1>5, <1>6, <1>7

(* A worker that serves one request goes on with it or ends.               *)
LEMMA ServingKept ==
  ASSUME PoolInv, Next, NEW t \in Threads, pc[t] = "taken", pc'[t] = "taken",
         NEW p \in Pids, Alive(p), serving[p] = {t}
  PROVE  \/ Alive(p)' /\ serving'[p] = {t}
         \/ proc'[p] \in {"zombie", "reaped"}
<1> USE PoolAssumption
    DEF PoolInv, TypeOK, Actors, Goto, MonitorGoto, Alive, procs, locals
<1> DEFINE Kept == \/ Alive(p)' /\ serving'[p] = {t}
                   \/ proc'[p] \in {"zombie", "reaped"}
<1>1. ASSUME proc' = proc /\ serving' = serving PROVE Kept
  BY <1>1
<1>2. ASSUME NEW u \in Threads,
             \/ Arrive(u) \/ FoundIdle(u) \/ NotIdle(u)
             \/ LookForRoom(u) \/ ScaleUp(u) \/ NoScaleUp(u)
             \/ CompareQueue(u) \/ ReturnLeast(u)
             \/ SpawnNeedless(u) \/ ForkFails(u)
             \/ StoreWorker(u) \/ CountWorker(u)
             \/ Start(u) \/ Activate(u) \/ Enqueue(u) \/ EnqueueFails(u)
             \/ Complete(u) \/ Deactivate(u)
      PROVE  Kept
  BY <1>1, <1>2
  DEF Arrive, FoundIdle, NotIdle, Probe, LookForRoom, ScaleUp, NoScaleUp,
      CompareQueue, ReturnLeast, SpawnNeedless, ForkFails, StoreWorker,
      CountWorker, Start, Activate, Enqueue, EnqueueFails, Complete,
      Deactivate
<1>3. ASSUME NEW u \in Threads, Fork(u) PROVE Kept
  BY <1>3 DEF Fork
<1>4. ASSUME NEW q \in Pids, NEW u \in Threads, Take(q, u) PROVE Kept
  BY <1>4 DEF Take
<1>5. ASSUME NEW q \in Pids, NEW u \in Threads, Answer(q, u) PROVE Kept
  BY <1>5 DEF Answer
<1>6. ASSUME NEW q \in Pids, Crash(q) PROVE Kept
  BY <1>6 DEF Crash
<1>7. CASE CheckPending \/ CountIdle \/ FindExpired \/ NoneExpired
           \/ Reset \/ Uncount \/ restart_unhealthy_workers
           \/ \E i \in Indices : Expire(i)
  BY <1>1, <1>7
  DEF CheckPending, CountIdle, FindExpired, NoneExpired, Reset, Uncount,
      restart_unhealthy_workers, Expire
<1>8. CASE Terminate
  BY <1>8 DEF Terminate
<1>9. CASE Reap
  BY <1>9 DEF Reap
<1> QED BY Steps, <1>2, <1>3, <1>4, <1>5, <1>6, <1>7, <1>8, <1>9

LEMMA TakenPreserved ==
  ASSUME PoolInv, ServeInv, Next
  PROVE  TakenServed'
<1> DEFINE Ended(i) == \E p \in Pids :
                         home'[p] = i /\ proc'[p] \in {"zombie", "reaped"}
           Served(t) == \E p \in Pids :
                          /\ Alive(p)' /\ home'[p] = worker_index'[t]
                          /\ serving'[p] = {t}
<1>1. ASSUME NEW t \in Threads, pc'[t] = "taken"
      PROVE  Ended(worker_index'[t]) \/ Served(t)
  <2>1. worker_index'[t] = worker_index[t]
    BY <1>1, TakenWaits
  <2>2. CASE \E p \in Pids : Take(p, t)
    <3>1. PICK p \in Pids : Take(p, t)
      BY <2>2
    <3>2. /\ Alive(p) /\ home[p] = worker_index[t] /\ proc' = proc
          /\ home' = home /\ serving'[p] = {t}
      BY <3>1 DEF Take, At, PoolInv, TypeOK
    <3> QED BY <2>1, <3>2 DEF Alive
  <2>3. CASE pc[t] = "taken" /\ EndedAt(At(t))
    <3>1. PICK p \in Pids :
            home[p] = worker_index[t] /\ proc[p] \in {"zombie", "reaped"}
      BY <2>3 DEF EndedAt, At
    <3> QED BY <2>1, <3>1, GoOnward DEF Onward
  <2>4. CASE pc[t] = "taken" /\ \E p \in Pids : ServedBy(t, p)
    <3>1. PICK p \in Pids :
            Alive(p) /\ home[p] = worker_index[t] /\ serving[p] = {t}
      BY <2>4 DEF ServedBy, At
    <3>2. home'[p] = worker_index'[t]
      BY <2>1, <3>1, GoOnward DEF Onward, Alive
    <3>3. \/ Alive(p)' /\ serving'[p] = {t}
          \/ proc'[p] \in {"zombie", "reaped"}
      BY <1>1, <2>4, <3>1, ServingKept
    <3> QED BY <3>2, <3>3
  <2> QED BY <1>1, <2>2, <2>3, <2>4, TakenWaits DEF ServeInv, TakenServed
<1> QED BY <1>1 DEF TakenServed, EndedAt, ServedBy, At

LEMMA ServeInvInit == Init => ServeInv
<1>0. SUFFICES ASSUME Init PROVE ServeInv
  OBVIOUS
<1> USE <1>0, PoolAssumption DEF Init
<1>1. \A i \in Deployed : home[pid[i]] = i
  BY DEF Deployed, is_worker_deployed, Indices, Pids, NoPid
<1>2. Forking = {}
  BY DEF Forking, Actors
<1>3. \A t \in Threads : pc[t] = "new" /\ min_queue_size[t] = -1
  BY DEF Actors
<1> QED BY <1>1, <1>2, <1>3
    DEF ServeInv, HomesKept, NoneYet, ChosenHoused, HasChosen, TakenServed,
        Open

LEMMA ServeInvPreserved == PoolInv /\ ServeInv /\ [Next]_vars => ServeInv'
<1>1. ASSUME PoolInv, ServeInv, Next PROVE ServeInv'
  BY <1>1, HomesPreserved, NoneYetPreserved, ChosenPreserved, TakenPreserved
     DEF ServeInv
<1>2. ASSUME ServeInv, UNCHANGED vars PROVE ServeInv'
  BY <1>2
     DEF vars, table, counters, procs, locals, monitorVars, ServeInv,
         HomesKept, NoneYet, ChosenHoused, HasChosen, TakenServed, ServedBy,
         Housed, EndedAt, Alive, Forking, Deployed, is_worker_deployed, At
<1> QED BY <1>1, <1>2

LEMMA ServeInvariant == Spec => []ServeInv
BY PoolInvariant, ServeInvInit, ServeInvPreserved, PTL DEF Spec

-----------------------------------------------------------------------------
(* The type invariant.                                                     *)
THEOREM PoolTypeCorrect == Spec => []TypeOK
<1>1. PoolInv => TypeOK
  BY DEF PoolInv
<1> QED BY <1>1, PoolInvariant, PTL

(* active_worker_count is the number of children not waited for, up to     *)
(* forks and removals under way, however spawns and removals interleave.   *)
THEOREM WorkersAreCounted == Spec => []ChildrenCounted
<1>1. PoolInv => ChildrenCounted
  BY DEF PoolInv
<1> QED BY <1>1, PoolInvariant, PTL

(* Scaling down leaves a worker in the table.                              *)
THEOREM TableNeverEmpty == Spec => []AlwaysAWorker
<1>1. PoolInv => AlwaysAWorker
  BY DEF PoolInv
<1> QED BY <1>1, PoolInvariant, PTL

(* A worker being removed has no request that was open when the monitor    *)
(* found none pending.                                                     *)
THEOREM RemovalSparesOpen == Spec => []ScaleDownSparesOpen
<1>1. PoolInv => ScaleDownSparesOpen
  BY DEF PoolInv, FreshSince, ScaleDownSparesOpen, OpenThreads, ScalingDown
<1> QED BY <1>1, PoolInvariant, PTL

(* No request is given to an index without a process: one that waits, or   *)
(* was taken, has a live process of its index to serve it, unless one of   *)
(* that index has ended, for any number of threads and workers.            *)
THEOREM RequestsAreServed == Spec => []ServedUnlessEnded
<1>1. ASSUME TypeOK, ServeInv PROVE ServedUnlessEnded
  <2>1. ASSUME NEW t \in Threads, pc[t] = "queued", ~EndedAt(At(t))
        PROVE  \E p \in Pids : Alive(p) /\ home[p] = At(t)
    <3>1. Housed(At(t))
      BY <1>1, <2>1 DEF ServeInv, ChosenHoused, HasChosen, Open
    <3> QED BY <1>1, <2>1, <3>1 DEF TypeOK, Housed, EndedAt, Alive
  <2>2. ASSUME NEW t \in Threads, pc[t] = "taken", ~EndedAt(At(t))
        PROVE  \E p \in Pids : ServedBy(t, p)
    BY <1>1, <2>2 DEF ServeInv, TakenServed
  <2> QED BY <2>1, <2>2 DEF ServedUnlessEnded, ServedBy
<1> QED BY <1>1, ServeInvariant, PoolTypeCorrect, PTL

(* restart_unhealthy_workers never restarts a worker: kill(pid, 0) finds   *)
(* every process of the table, dead ones included, because nobody has      *)
(* waited for it.                                                          *)
THEOREM NobodyIsRestarted ==
  Spec => [](pc[Monitor] = "restart" => Unhealthy = {})
<1>1. PoolInv => (pc[Monitor] = "restart" => Unhealthy = {})
  BY NoneUnhealthy
<1> QED BY <1>1, PoolInvariant, PTL
=============================================================================
