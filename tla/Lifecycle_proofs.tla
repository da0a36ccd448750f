-------------------------- MODULE Lifecycle_proofs --------------------------
(***************************************************************************)
(* Proofs about Lifecycle, for any number of clients, indices, starts,     *)
(* forks and killed servers: connections are counted, a clean-up reaches   *)
(* the workers it knows of, and a server begins with objects of its own.   *)
(***************************************************************************)
EXTENDS Lifecycle, Integers, FiniteSetTheorems, TLAPS

-----------------------------------------------------------------------------
(* The inductive invariant                                                 *)

Creating == {"unlink", "create_shm", "create_sems"}
Opening == Creating \cup {"spawn", "bind"}
Running == {"spawn", "bind", "serving", "join", "destroy"}
ServerStages ==
  Down \cup Opening \cup Running \cup Cleaning \cup {"members", "unlink_shm"}
ThreadStages ==
  {"away", "reading", "spawn", "store", "enqueue", "queued", "taken",
   "closing"}
ProcStages == {"unborn"} \cup Early \cup Looping \cup Ended

Counts == [Runs -> [Indices -> Int]]

LifeType ==
  /\ run \in Nat /\ run <= MAX_RUNS
  /\ server \in ServerStages
  /\ run = 0 => server = "down"
  /\ shm_name \in 0 .. MAX_RUNS /\ sem_names \in 0 .. MAX_RUNS
  /\ shutdown_flag \in [Runs -> BOOLEAN]
  /\ items \in Counts
  /\ table \in [Indices -> Pids \cup {NoPid}]
  /\ victim \in Nat /\ (server = "waitpid" => victim \in Indices)
  /\ doomed \in Pids \cup {NoPid}
  /\ proc \in [Pids -> ProcStages]
  /\ parent \in [Pids -> 0 .. MAX_RUNS] /\ home \in [Pids -> Indices]
  /\ told \in [Pids -> BOOLEAN]
  /\ shm \in [Pids -> 0 .. MAX_RUNS] /\ sems \in [Pids -> 0 .. MAX_RUNS]
  /\ active_connections_ \in Int
  /\ thread \in [Clients -> ThreadStages]
  /\ at \in [Clients -> Indices]
  /\ child \in [Clients -> Pids \cup {NoPid}]
  /\ known \in SUBSET Pids

(* Threads live and die with the server that counts them.                  *)
ThreadsCounted ==
  /\ server \in Down \cup Opening => Threads = {}
  /\ server \notin Down =>
       /\ active_connections_ = Cardinality(Threads)
       /\ active_connections_ <= max_connections_

(* Once its objects are made, a name leads to the run's own or to none.    *)
NamesOwn ==
  /\ server = "create_shm" => shm_name = Nobody
  /\ server = "create_sems" => shm_name = run
  /\ server \notin Creating \cup Down => shm_name = run
  /\ server \in Running \cup Cleaning => sem_names = run
  /\ \A p \in Pids : parent[p] = run => shm_name \in {Nobody, run}
  /\ server \in Running \cup {"create_sems"} => ~shutdown_flag[run]

(* A process has opened what its state says it has, and a worker of this   *)
(* run has the run's shared memory.                                        *)
ProcessesOwn ==
  /\ server \in Creating => \A p \in Pids : parent[p] # run
  /\ \A p \in Pids :
       /\ parent[p] <= run
       /\ proc[p] = "unborn" <=> parent[p] = Nobody
       /\ proc[p] \in {"unborn", "forked", "opening"} => shm[p] = Nobody
       /\ proc[p] \in {"unborn"} \cup Early => sems[p] = Nobody
       /\ proc[p] \in {"opened"} \cup Looping => shm[p] # Nobody
       /\ proc[p] \in Looping => sems[p] # Nobody
       /\ proc[p] \in {"opened"} \cup Looping /\ parent[p] = run =>
            shm[p] = run

(* A table entry and a child that is to be stored are workers of this run  *)
(* for that index, which have not been waited for.                         *)
Unreaped(p, i) ==
  /\ p \in Pids /\ proc[p] \notin {"unborn", "reaped"}
  /\ parent[p] = run /\ home[p] = i

Storing == {c \in Clients : thread[c] = "store"}

WorkersPlaced ==
  /\ \A i \in Deployed : Unreaped(table[i], i)
  /\ \A c \in Storing : Unreaped(child[c], at[c]) /\ child[c] \notin InTable
  /\ \A c, d \in Storing : child[c] = child[d] => c = d

(* While terminate_worker waits for a process, that is a worker of the     *)
(* index it visits and nobody is about to store it.                        *)
DoomedHeld ==
  server = "waitpid" =>
    /\ Unreaped(doomed, victim)
    /\ \A c \in Storing : child[c] # doomed

(* In the clean-up that follows the request to shut down, a worker known   *)
(* then is waited for, forgotten, or in an entry yet to be visited.        *)
KnownFollowed ==
  /\ \A p \in known : parent[p] = run /\ proc[p] # "unborn"
  /\ server \in {"cleanup", "waitpid"} /\ shutdown_flag[run] =>
       \A p \in known :
         \/ proc[p] = "reaped"
         \/ Forgotten(p)
         \/ \E i \in Indices : table[i] = p /\ i >= victim

(* So once the clean-up is over it is waited for or forgotten.             *)
KnownAccounted ==
  server \in {"members", "unlink_shm", "exited"} =>
    \A p \in known : proc[p] = "reaped" \/ Forgotten(p)

(* A worker that was told to stop is waited for next.                      *)
ToldAwaited ==
  /\ \A p \in Pids : proc[p] = "unborn" => ~told[p]
  /\ server \notin {"aborted", "killed"} =>
       \A p \in Pids :
         parent[p] = run /\ told[p] =>
           proc[p] = "reaped" \/ (server = "waitpid" /\ p = doomed)

(* Without a stranger the semaphores count the requests that wait.         *)
ItemsOwn ==
  /\ server \in Running \cup Cleaning /\ ~shutdown_flag[run]
     /\ Strangers = {} =>
       \A i \in Indices : items[run][i] = Cardinality(Queued(i))

LifeInv ==
  /\ LifeType /\ ThreadsCounted /\ NamesOwn /\ ProcessesOwn
  /\ WorkersPlaced /\ DoomedHeld /\ KnownFollowed /\ KnownAccounted
  /\ ToldAwaited /\ ItemsOwn
-----------------------------------------------------------------------------
(* Lemmas about the model's operators                                      *)

(* One count is changed.                                                   *)
LEMMA CountChanged ==
  ASSUME NEW f \in Counts, NEW r \in Runs, NEW i \in Indices, NEW v \in Int
  PROVE  /\ [f EXCEPT ![r][i] = v] \in Counts
         /\ \A s \in Runs, j \in Indices :
              [f EXCEPT ![r][i] = v][s][j] =
                IF s = r /\ j = i THEN v ELSE f[s][j]
<1> DEFINE g == [f[r] EXCEPT ![i] = v]
<1>1. g \in [Indices -> Int] /\ \A j \in Indices : g[j] = IF j = i THEN v ELSE f[r][j]
  BY DEF Counts
<1>2. [f EXCEPT ![r][i] = v] = [f EXCEPT ![r] = g]
  BY DEF Counts
<1> HIDE DEF g
<1> QED BY <1>1, <1>2 DEF Counts

(* An item is taken from a semaphore of a run.                             *)
LEMMA ItemTaken ==
  ASSUME LifeInv, NEW p \in Pids, TakeItem(p)
  PROVE  /\ sems[p] \in Runs /\ home[p] \in Indices /\ items' \in Counts
         /\ \A s \in Runs, j \in Indices :
              items'[s][j] = IF s = sems[p] /\ j = home[p]
                               THEN items[s][j] - 1 ELSE items[s][j]
         /\ items[sems[p]][home[p]] > 0
<1>1. sems[p] \in Runs /\ home[p] \in Indices /\ items \in Counts
  BY LifecycleAssumption
     DEF LifeInv, LifeType, ProcessesOwn, TakeItem, Looping, Nobody, Runs
<1>2. items[sems[p]][home[p]] - 1 \in Int
  BY <1>1 DEF Counts
<1>3. items' = [items EXCEPT ![sems[p]][home[p]] = items[sems[p]][home[p]] - 1]
  BY DEF TakeItem
<1> DEFINE v == items[sems[p]][home[p]] - 1
<1>4. /\ [items EXCEPT ![sems[p]][home[p]] = v] \in Counts
      /\ \A s \in Runs, j \in Indices :
           [items EXCEPT ![sems[p]][home[p]] = v][s][j] =
             IF s = sems[p] /\ j = home[p] THEN v ELSE items[s][j]
  <2>1. v \in Int
    BY <1>2
  <2> HIDE DEF v
  <2> QED BY <1>1, <2>1, CountChanged
<1> QED BY <1>1, <1>3, <1>4 DEF TakeItem

LEMMA ItemAdded ==
  ASSUME LifeInv, NEW c \in Clients, EnqueueRequest(c), run \in Runs
  PROVE  /\ at[c] \in Indices /\ items' \in Counts
         /\ \A s \in Runs, j \in Indices :
              items'[s][j] = IF s = run /\ j = at[c]
                               THEN items[s][j] + 1 ELSE items[s][j]
<1>1. at[c] \in Indices /\ items \in Counts
  BY DEF LifeInv, LifeType
<1>2. items[run][at[c]] + 1 \in Int
  BY <1>1 DEF Counts
<1>3. items' = [items EXCEPT ![run][at[c]] = items[run][at[c]] + 1]
  BY DEF EnqueueRequest
<1> DEFINE v == items[run][at[c]] + 1
<1>4. /\ [items EXCEPT ![run][at[c]] = v] \in Counts
      /\ \A s \in Runs, j \in Indices :
           [items EXCEPT ![run][at[c]] = v][s][j] =
             IF s = run /\ j = at[c] THEN v ELSE items[s][j]
  <2>1. v \in Int
    BY <1>2
  <2> HIDE DEF v
  <2> QED BY <1>1, <2>1, CountChanged
<1> QED BY <1>1, <1>3, <1>4 DEF EnqueueRequest

(* Only a server that is up has threads.                                   *)
LEMMA ThreadsUp ==
  ASSUME LifeInv, NEW c \in Clients, thread[c] # "away"
  PROVE  server \notin Down \cup Opening /\ run \in Runs
<1>1. server \notin Down \cup Opening
  BY DEF LifeInv, ThreadsCounted, Threads
<1> QED BY <1>1, LifecycleAssumption DEF LifeInv, LifeType, Down, Runs
(* A fork changes the new process only.                                    *)
LEMMA ForkEffect ==
  ASSUME LifeInv, NEW p \in Pids, NEW i \in Indices, Forked(p, i),
         run \in Runs
  PROVE  /\ proc' \in [Pids -> ProcStages] /\ home' \in [Pids -> Indices]
         /\ parent' \in [Pids -> 0 .. MAX_RUNS]
         /\ proc[p] = "unborn" /\ proc'[p] = "forked"
         /\ parent'[p] = run /\ home'[p] = i
         /\ \A q \in Pids \ {p} : /\ proc'[q] = proc[q]
                                  /\ parent'[q] = parent[q]
                                  /\ home'[q] = home[q]
         /\ shm' = shm /\ sems' = sems
<1> USE DEF LifeInv, LifeType, Forked
<1>1. /\ proc' \in [Pids -> ProcStages] /\ home' \in [Pids -> Indices]
      /\ parent' \in [Pids -> 0 .. MAX_RUNS]
  <2>1. run \in 0 .. MAX_RUNS
    BY LifecycleAssumption DEF Runs
  <2> QED BY <2>1 DEF ProcStages, Early
<1> QED BY <1>1
-----------------------------------------------------------------------------
LEMMA LifeTypePreserved ==
  ASSUME LifeInv, Next
  PROVE  LifeType'
<1> USE LifecycleAssumption
<1>t. LifeType
  BY DEF LifeInv
<1>z. /\ 0 \in 0 .. MAX_RUNS /\ 0 \in 0 .. MAX_WORKERS - 1
      /\ server # "down" => run \in 0 .. MAX_RUNS /\ run \in 1 .. MAX_RUNS
  BY <1>t DEF LifeType
<1> USE <1>t, <1>z
    DEF LifeType, ServerStages, ThreadStages, ProcStages, Down, Opening,
        Creating, Running, Cleaning, Early, Looping, Ended, Indices, Runs,
        Pids, NoPid, Nobody, main, monitoring, names, objects, processes,
        connections, Outside, Server, Thread, Becomes
<1>1. CASE Start
  <2>1. /\ run' \in Nat /\ run' <= MAX_RUNS /\ run' # 0
        /\ server' \in ServerStages
    BY <1>1 DEF Start
  <2>2. /\ table' \in [Indices -> Pids \cup {NoPid}] /\ known' \in SUBSET Pids
        /\ doomed' \in Pids \cup {NoPid} /\ active_connections_' \in Int
    BY <1>1 DEF Start
  <2>3. victim' \in Nat /\ server' = "unlink"
    BY <1>1 DEF Start
  <2>4. UNCHANGED <<names, objects, processes, thread, at, child>>
    BY <1>1 DEF Start
  <2> QED BY <2>1, <2>2, <2>3, <2>4
<1>2. CASE Unlink
  BY <1>2 DEF Unlink
<1>3. CASE CreateShm
  BY <1>3 DEF CreateShm
<1>4. CASE CreateSemaphores
  <2>1. items' \in Counts
    BY <1>4 DEF CreateSemaphores, Counts
  <2> QED BY <1>4, <2>1 DEF CreateSemaphores
<1>5. CASE SpawnInitial
  <2>1. PICK i \in Missing, p \in Pids :
          /\ Forked(p, i) /\ table' = [table EXCEPT ![i] = p]
    BY <1>5 DEF SpawnInitial
  <2>2. i \in Indices
    BY DEF Missing
  <2>3. /\ proc' \in [Pids -> ProcStages] /\ parent' \in [Pids -> 0 .. MAX_RUNS]
        /\ home' \in [Pids -> Indices] /\ table' \in [Indices -> Pids \cup {NoPid}]
    BY <1>5, <2>1, <2>2, ForkEffect DEF SpawnInitial
  <2> QED BY <1>5, <2>1, <2>3 DEF SpawnInitial, Forked
<1>6. CASE SpawnFails
  BY <1>6 DEF SpawnFails
<1>7. CASE StartMonitor
  BY <1>7 DEF StartMonitor
<1>8. CASE Bind
  BY <1>8 DEF Bind
<1>9. CASE StopMonitor
  BY <1>9 DEF StopMonitor
<1>10. CASE Join
  BY <1>10 DEF Join
<1>11. CASE RequestShutdown
  <2> DEFINE f == [i \in Indices |-> items[run][i] + 1]
  <2>1. items' \in Counts
    <3>1. run \in Runs /\ items \in Counts
      BY <1>11 DEF RequestShutdown
    <3>2. f \in [Indices -> Int]
      BY <3>1 DEF Counts
    <3>3. items' = [items EXCEPT ![run] = f]
      BY <1>11 DEF RequestShutdown
    <3> HIDE DEF f
    <3> QED BY <3>1, <3>2, <3>3 DEF Counts
  <2>2. known' \in SUBSET Pids
    BY <1>11 DEF RequestShutdown, InTable, Deployed
  <2>3. shutdown_flag' \in [Runs -> BOOLEAN] /\ server' \in ServerStages
    BY <1>11 DEF RequestShutdown
  <2> QED BY <1>11, <2>1, <2>2, <2>3 DEF RequestShutdown
<1>12. CASE Terminate
  BY <1>12 DEF Terminate, Signal, Deployed
<1>13. CASE Reap
  <2>1. victim' \in Nat
    BY <1>13 DEF Reap
  <2>2. /\ proc' \in [Pids -> ProcStages]
        /\ table' \in [Indices -> Pids \cup {NoPid}]
    BY <1>13 DEF Reap
  <2> QED BY <1>13, <2>1, <2>2 DEF Reap
<1>14. CASE PassOver
  <2>1. victim' \in Nat
    BY <1>14 DEF PassOver
  <2> QED BY <1>14, <2>1 DEF PassOver
<1>15. CASE Clear
  BY <1>15 DEF Clear
<1>16. CASE Abort
  BY <1>16 DEF Abort, EndsAs
<1>17. CASE UnlinkSems
  BY <1>17 DEF UnlinkSems
<1>18. CASE Exit
  BY <1>18 DEF Exit, EndsAs
<1>19. CASE Interrupt
  BY <1>19 DEF Interrupt
<1>20. CASE Kill
  BY <1>20 DEF Kill, EndsAs
<1>21. CASE Undefined
  BY <1>21 DEF Undefined, NoVector, EndsAs
<1>22. CASE MonitorLooks
  BY <1>22 DEF MonitorLooks
<1>23. CASE MonitorSleeps
  BY <1>23 DEF MonitorSleeps
<1>24. ASSUME NEW c \in Clients, Accept(c) PROVE LifeType'
  <2>1. active_connections_' \in Int /\ thread' \in [Clients -> ThreadStages]
    BY <1>24 DEF Accept
  <2> QED BY <1>24, <2>1 DEF Accept
<1>25. ASSUME NEW c \in Clients, Dismiss(c) PROVE LifeType'
  BY <1>25 DEF Dismiss
<1>26. ASSUME NEW c \in Clients, Assign(c) PROVE LifeType'
  BY <1>26 DEF Assign
<1>27. ASSUME NEW c \in Clients, SpawnByThread(c) PROVE LifeType'
  <2>1. PICK p \in Pids : Forked(p, at[c]) /\ child' = [child EXCEPT ![c] = p]
    BY <1>27 DEF SpawnByThread
  <2>2. /\ proc' \in [Pids -> ProcStages] /\ parent' \in [Pids -> 0 .. MAX_RUNS]
        /\ home' \in [Pids -> Indices]
    BY <1>27, <2>1, ForkEffect, ThreadsUp DEF SpawnByThread
  <2>3. /\ child' \in [Clients -> Pids \cup {NoPid}]
        /\ thread' \in [Clients -> ThreadStages]
    BY <1>27, <2>1 DEF SpawnByThread
  <2> QED BY <1>27, <2>1, <2>2, <2>3 DEF SpawnByThread, Forked
<1>28. ASSUME NEW c \in Clients, StoreByThread(c) PROVE LifeType'
  BY <1>28 DEF StoreByThread
<1>29. ASSUME NEW c \in Clients, EnqueueRequest(c) PROVE LifeType'
  <2>1. items' \in Counts
    BY <1>29, ItemAdded, ThreadsUp DEF EnqueueRequest
  <2> QED BY <1>29, <2>1 DEF EnqueueRequest
<1>30. ASSUME NEW c \in Clients, Close(c) PROVE LifeType'
  <2>1. /\ active_connections_' \in Int /\ thread' \in [Clients -> ThreadStages]
        /\ at' \in [Clients -> Indices]
        /\ child' \in [Clients -> Pids \cup {NoPid}]
    BY <1>30 DEF Close
  <2> QED BY <1>30, <2>1 DEF Close
<1>31. ASSUME NEW p \in Pids, LoadModel(p) PROVE LifeType'
  BY <1>31 DEF LoadModel
<1>32. ASSUME NEW p \in Pids, OpenShm(p) PROVE LifeType'
  BY <1>32 DEF OpenShm
<1>33. ASSUME NEW p \in Pids, OpenSemaphores(p) PROVE LifeType'
  BY <1>33 DEF OpenSemaphores
<1>34. ASSUME NEW p \in Pids, LoopHead(p) PROVE LifeType'
  BY <1>34 DEF LoopHead
<1>35. ASSUME NEW p \in Pids, TakeNothing(p) PROVE LifeType'
  <2>1. items' \in Counts
    BY <1>35, ItemTaken DEF TakeNothing
  <2> QED BY <1>35, <2>1 DEF TakeNothing
<1>36. ASSUME NEW p \in Pids, BreakOff(p) PROVE LifeType'
  BY <1>36 DEF BreakOff
<1>37. ASSUME NEW p \in Pids, EndWait(p) PROVE LifeType'
  BY <1>37 DEF EndWait
<1>38. ASSUME NEW p \in Pids, NEW c \in Clients, TakeRequest(p, c)
      PROVE  LifeType'
  <2>1. items' \in Counts
    BY <1>38, ItemTaken DEF TakeRequest
  <2> QED BY <1>38, <2>1 DEF TakeRequest
<1>39. ASSUME NEW p \in Pids, NEW c \in Clients, Answer(p, c)
      PROVE  LifeType'
  BY <1>39 DEF Answer
<1> QED
  BY <1>1, <1>2, <1>3, <1>4, <1>5, <1>6, <1>7, <1>8, <1>9, <1>10, <1>11,
     <1>12, <1>13, <1>14, <1>15, <1>16, <1>17, <1>18, <1>19, <1>20, <1>21,
     <1>22, <1>23, <1>24, <1>25, <1>26, <1>27, <1>28, <1>29, <1>30, <1>31,
     <1>32, <1>33, <1>34, <1>35, <1>36, <1>37, <1>38, <1>39
     DEF Next, ServerStep, ThreadStep, WorkerStep
-----------------------------------------------------------------------------
(* Connections                                                             *)

(* Steps that leave the set of threads and their count alone.              *)
ThreadsKept ==
  /\ Threads' = Threads /\ active_connections_' = active_connections_
  /\ server \notin Down /\ server' \notin Down
  /\ server' \in Opening => server \in Opening

LEMMA ServerKeepsThreads ==
  ASSUME LifeInv, ServerStep, ~Abort, ~Exit
  PROVE  ThreadsKept
BY
DEF LifeInv, ThreadsKept, Threads, Down, Opening, Creating, Cleaning,
    Server,
       connections, ServerStep, Unlink, CreateShm, CreateSemaphores,
       SpawnInitial, SpawnFails, StartMonitor, Bind, StopMonitor, Join,
       RequestShutdown, Terminate, Reap, PassOver, Clear, UnlinkSems, main

LEMMA ThreadKeepsThreads ==
  ASSUME LifeInv, NEW c \in Clients,
         \/ Dismiss(c) \/ Assign(c) \/ SpawnByThread(c) \/ StoreByThread(c)
         \/ EnqueueRequest(c)
  PROVE  ThreadsKept
<1> USE DEF Thread, LifeInv, LifeType, main
<1>1. /\ thread[c] \in ThreadStages \ {"away"} /\ thread'[c] # "away"
      /\ \A d \in Clients \ {c} : thread'[d] = thread[d]
  BY DEF Dismiss, Assign, SpawnByThread, StoreByThread, EnqueueRequest
<1>2. active_connections_' = active_connections_ /\ server' = server
  BY DEF Dismiss, Assign, SpawnByThread, StoreByThread, EnqueueRequest
<1> QED BY <1>1, <1>2, ThreadsUp DEF ThreadsKept, Threads

LEMMA WorkerKeepsThreads ==
  ASSUME LifeInv, NEW p \in Pids, WorkerStep(p) \/ EndWait(p)
  PROVE  \/ Threads' = Threads
         /\ active_connections_' = active_connections_ /\ server' = server
<1> USE DEF Outside, LifeInv, LifeType, main
<1>1. active_connections_' = active_connections_ /\ server' = server
  BY DEF WorkerStep, LoadModel, OpenShm, OpenSemaphores, LoopHead,
         TakeNothing, BreakOff, TakeRequest, Answer, EndWait
<1>2. \/ thread' = thread
      \/ \E c \in Clients : TakeRequest(p, c) \/ Answer(p, c)
  BY DEF WorkerStep, LoadModel, OpenShm, OpenSemaphores, LoopHead,
         TakeNothing, BreakOff, EndWait
<1>3. ASSUME NEW c \in Clients, TakeRequest(p, c) \/ Answer(p, c)
      PROVE  Threads' = Threads
  BY <1>3 DEF TakeRequest, Answer, Own, Queued, Threads
<1> QED BY <1>1, <1>2, <1>3 DEF Threads

LEMMA ThreadsCountedPreserved ==
  ASSUME LifeInv, Next
  PROVE  ThreadsCounted'
<1>f. IsFiniteSet(Threads) /\ Cardinality(Threads) \in Nat
  BY LifecycleAssumption, FS_Subset, FS_CardinalityType DEF Threads
<1>t. LifeType /\ ThreadsCounted /\ LifecycleAssumption
  BY LifecycleAssumption DEF LifeInv
<1> USE DEF max_connections_
<1>1. CASE Start
  <2>1. Threads' = {} /\ active_connections_' = 0 /\ max_connections_ >= 0
    BY <1>1, <1>t DEF Start, ThreadsCounted, Threads, LifecycleAssumption
  <2> QED BY <2>1, FS_EmptySet DEF ThreadsCounted
<1>2. CASE Abort \/ Exit \/ Kill \/ Undefined
  BY <1>2 DEF Abort, Exit, Kill, Undefined, EndsAs, ThreadsCounted, Threads,
              Down
<1>3. CASE ThreadsKept
  BY <1>3, <1>t DEF ThreadsCounted, ThreadsKept
<1>4. ASSUME NEW c \in Clients, Accept(c) PROVE ThreadsCounted'
  <2>1. c \notin Threads /\ Threads' = Threads \cup {c}
    BY <1>4, <1>t DEF Accept, Thread, Threads, LifeType
  <2>2. Cardinality(Threads') = Cardinality(Threads) + 1
    BY <2>1, <1>f, FS_AddElement
  <2>3. /\ server = "serving" /\ server' = "serving"
        /\ active_connections_' = active_connections_ + 1
        /\ ~(active_connections_ >= max_connections_)
    BY <1>4 DEF Accept, main, Full
  <2> QED BY <2>2, <2>3, <1>f, <1>t
      DEF ThreadsCounted, Down, Opening, Creating, LifecycleAssumption
<1>5. ASSUME NEW c \in Clients, Close(c) PROVE ThreadsCounted'
  <2>1. c \in Threads /\ Threads' = Threads \ {c}
    BY <1>5, <1>t DEF Close, Thread, Threads, LifeType
  <2>2. Cardinality(Threads') = Cardinality(Threads) - 1
    BY <2>1, <1>f, FS_RemoveElement
  <2>3. /\ server' = server
        /\ active_connections_' = active_connections_ - 1
    BY <1>5 DEF Close, main
  <2> QED BY <2>1, <2>2, <2>3, <1>f, <1>t
      DEF ThreadsCounted, LifecycleAssumption
<1>6. CASE \/ Interrupt \/ MonitorLooks \/ MonitorSleeps
           \/ \E p \in Pids : WorkerStep(p) \/ EndWait(p)
  <2>1. /\ Threads' = Threads
        /\ active_connections_' = active_connections_ /\ server' = server
    BY <1>6, WorkerKeepsThreads
      
       DEF Interrupt, MonitorLooks, MonitorSleeps, main, connections,
           Threads
  <2> QED BY <2>1, <1>t DEF ThreadsCounted
<1> QED BY <1>1, <1>2, <1>3, <1>4, <1>5, <1>6, ServerKeepsThreads,
           ThreadKeepsThreads
    DEF Next, ThreadStep

-----------------------------------------------------------------------------
(* Names                                                                   *)

LEMMA NamesOwnPreserved ==
  ASSUME LifeInv, Next
  PROVE  NamesOwn'
<1>t. LifeType /\ NamesOwn /\ LifecycleAssumption
      /\ \A p \in Pids : parent[p] <= run
  BY LifecycleAssumption DEF LifeInv, ProcessesOwn
<1> USE <1>t
    DEF NamesOwn, LifeType, Down, Creating, Running, Cleaning, Server, main,
        names, objects, monitoring, processes, connections, Nobody, Runs
<1>1. CASE Start
  BY <1>1 DEF Start
<1>2. CASE Unlink \/ CreateShm \/ CreateSemaphores
  BY <1>2 DEF LifeInv, ProcessesOwn, Unlink, CreateShm, CreateSemaphores
<1>3. CASE SpawnInitial
  BY <1>3 DEF SpawnInitial, Forked
<1>4. CASE SpawnFails \/ StartMonitor \/ Bind \/ StopMonitor \/ Join
  BY <1>4 DEF SpawnFails, StartMonitor, Bind, StopMonitor, Join
<1>5. CASE RequestShutdown
  BY <1>5 DEF RequestShutdown
<1>6. CASE Terminate \/ Reap \/ PassOver \/ Clear
  BY <1>6 DEF Terminate, Reap, PassOver, Clear, Signal
<1>7. CASE UnlinkSems
  BY <1>7 DEF UnlinkSems
<1>8. CASE Abort \/ Exit \/ Kill \/ Undefined
  BY <1>8 DEF Abort, Exit, Kill, Undefined, EndsAs
<1>9. CASE Interrupt \/ MonitorLooks \/ MonitorSleeps
  BY <1>9 DEF Interrupt, MonitorLooks, MonitorSleeps
<1>10. ASSUME NEW c \in Clients, Accept(c) \/ ThreadStep(c)
       PROVE  NamesOwn'
  <2>1. CASE SpawnByThread(c)
    BY <2>1, ThreadsUp DEF SpawnByThread, Thread, Forked, Opening
  <2>2. CASE ~SpawnByThread(c)
    BY <1>10, <2>2
       DEF Accept, ThreadStep, Dismiss, Assign, StoreByThread,
           EnqueueRequest, Close
  <2> QED BY <2>1, <2>2
<1>11. ASSUME NEW p \in Pids, WorkerStep(p) \/ EndWait(p)
       PROVE  NamesOwn'
  BY <1>11
     DEF Outside, WorkerStep, LoadModel, OpenShm, OpenSemaphores, LoopHead,
         TakeNothing, BreakOff, TakeRequest, Answer, EndWait
<1> QED BY <1>1, <1>2, <1>3, <1>4, <1>5, <1>6, <1>7, <1>8, <1>9, <1>10,
           <1>11
    DEF Next, ServerStep
-----------------------------------------------------------------------------
(* Processes                                                               *)

(* Steps that start no process and end some at most.                       *)
ProcessesKept ==
  /\ parent' = parent /\ home' = home /\ shm' = shm /\ sems' = sems
  /\ \A p \in Pids :
       \/ proc'[p] = proc[p]
       \/ proc[p] # "unborn" /\ proc'[p] \in Ended
  /\ run' = run
  /\ server' \in Creating => server \in Creating

LEMMA ServerKeepsProcesses ==
  ASSUME LifeInv, ServerStep, ~SpawnInitial
  PROVE  ProcessesKept
<1>t. LifeType /\ WorkersPlaced /\ DoomedHeld
  BY DEF LifeInv
<1> USE <1>t
    DEF LifeType, ProcessesKept, Creating, Ended, Server, main, processes,
        ServerStep
<1>1. CASE Terminate
  BY <1>1 DEF Terminate, Signal
<1>2. CASE Reap
  <2>1. doomed \in Pids /\ proc[doomed] # "unborn"
    BY <1>2 DEF Reap, DoomedHeld, Unreaped
  <2> QED BY <1>2, <2>1 DEF Reap
<1>3. CASE Clear
  BY <1>3 DEF Clear, WorkersPlaced, Unreaped, InTable
<1>4. CASE ~Terminate /\ ~Reap /\ ~Clear
  BY <1>4
    
     DEF Unlink, CreateShm, CreateSemaphores, SpawnFails, StartMonitor,
         Bind,
         StopMonitor, Join, RequestShutdown, PassOver, Abort, UnlinkSems,
         Exit, EndsAs
<1> QED BY <1>1, <1>2, <1>3, <1>4

LEMMA OthersKeepProcesses ==
  ASSUME LifeInv,
         \/ Kill \/ Undefined \/ Interrupt \/ MonitorLooks \/ MonitorSleeps
         \/ \E c \in Clients :
              Accept(c) \/ (ThreadStep(c) /\ ~SpawnByThread(c))
  PROVE  ProcessesKept
<1>t. LifeType
  BY DEF LifeInv
<1> USE <1>t
    DEF LifeType, ProcessesKept, Creating, Ended, Server, main, processes
<1>1. CASE Kill \/ Undefined
  BY <1>1 DEF Kill, Undefined, EndsAs
<1>2. CASE Interrupt
  BY <1>2 DEF Interrupt, Alive, Early, Looping
<1>3. CASE MonitorLooks \/ MonitorSleeps
  BY <1>3 DEF MonitorLooks, MonitorSleeps
<1>4. ASSUME NEW c \in Clients, Accept(c) \/ (ThreadStep(c) /\ ~SpawnByThread(c))
      PROVE  ProcessesKept
  BY <1>4
     DEF Accept, ThreadStep, Dismiss, Assign, StoreByThread, EnqueueRequest,
         Close
<1> QED BY <1>1, <1>2, <1>3, <1>4

LEMMA ForkKeepsOwn ==
  ASSUME LifeInv, NEW p \in Pids, NEW i \in Indices, Forked(p, i),
         run \in Runs, run' = run, server' \notin Creating
  PROVE  ProcessesOwn'
<1>t. LifeType /\ ProcessesOwn
  BY DEF LifeInv
<1>1. ASSUME NEW q \in Pids \ {p}
      PROVE  /\ proc'[q] = proc[q] /\ parent'[q] = parent[q]
             /\ shm' = shm /\ sems' = sems
  BY ForkEffect
<1>2. /\ proc'[p] = "forked" /\ parent'[p] = run /\ run # Nobody
      /\ shm'[p] = Nobody /\ sems'[p] = Nobody /\ run <= run
  BY <1>t, ForkEffect, LifecycleAssumption
     DEF ProcessesOwn, Runs, Nobody, LifeType
<1> QED BY <1>t, <1>1, <1>2 DEF ProcessesOwn, Early, Looping

LEMMA ProcessesOwnPreserved ==
  ASSUME LifeInv, Next
  PROVE  ProcessesOwn'
<1>t. LifeType /\ NamesOwn /\ ProcessesOwn /\ LifecycleAssumption
  BY LifecycleAssumption DEF LifeInv
<1> USE <1>t
   
    DEF ProcessesOwn, LifeType, Creating, Early, Looping, Ended, Nobody,
        Runs
<1>1. CASE Start
  BY <1>1 DEF Start, processes
<1>2. CASE ProcessesKept
  BY <1>2 DEF ProcessesKept
<1>3. CASE SpawnInitial
  <2>1. PICK i \in Missing, p \in Pids : Forked(p, i)
    BY <1>3 DEF SpawnInitial
  <2>2. i \in Indices /\ run \in Runs /\ run' = run /\ server' = "spawn"
    BY <1>3, <2>1
    DEF SpawnInitial, Missing, Indices, main, LifecycleAssumption
  <2> QED BY <2>1, <2>2, ForkKeepsOwn
<1>4. ASSUME NEW c \in Clients, SpawnByThread(c) PROVE ProcessesOwn'
  <2>1. PICK p \in Pids : Forked(p, at[c])
    BY <1>4 DEF SpawnByThread
  <2>2. /\ at[c] \in Indices /\ run \in Runs /\ run' = run
        /\ server' = server /\ server \notin Creating
    BY <1>4, ThreadsUp DEF SpawnByThread, Thread, main, Opening
  <2> QED BY <2>1, <2>2, ForkKeepsOwn
<1>5. ASSUME NEW p \in Pids, WorkerStep(p) \/ EndWait(p)
      PROVE  ProcessesOwn'
  <2> USE DEF Becomes, Outside, main
  <2>1. CASE OpenShm(p)
    BY <2>1 DEF OpenShm, NamesOwn
  <2>2. CASE OpenSemaphores(p)
    BY <2>2 DEF OpenSemaphores
  <2>3. CASE LoadModel(p) \/ LoopHead(p) \/ BreakOff(p) \/ EndWait(p)
    BY <2>3 DEF LoadModel, LoopHead, BreakOff, EndWait
  <2>4. CASE TakeNothing(p)
    BY <2>4 DEF TakeNothing
  <2>5. ASSUME NEW c \in Clients, TakeRequest(p, c) \/ Answer(p, c)
        PROVE  ProcessesOwn'
    BY <2>5 DEF TakeRequest, Answer
  <2> QED BY <1>5, <2>1, <2>2, <2>3, <2>4, <2>5 DEF WorkerStep
<1> QED BY <1>1, <1>2, <1>3, <1>4, <1>5, ServerKeepsProcesses,
           OthersKeepProcesses
    DEF Next

-----------------------------------------------------------------------------
(* The table                                                               *)

(* Steps after which the table and the children to be stored are as before *)
(* or fewer.                                                               *)
PlacesKept ==
  /\ \A i \in Deployed' : i \in Deployed /\ table'[i] = table[i]
  /\ \A c \in Storing' : /\ c \in Storing
                         /\ child'[c] = child[c] /\ at'[c] = at[c]

(* No process that the table holds or that is to be stored is reaped.      *)
NoneReaped ==
  \A p \in Pids : proc'[p] = "reaped" => proc[p] = "reaped"

LEMMA PlacesKeptSuffices ==
  ASSUME LifeInv, PlacesKept, ProcessesKept, NoneReaped
  PROVE  WorkersPlaced'
<1>t. LifeType /\ WorkersPlaced
  BY DEF LifeInv
<1>1. \A p, i : p \in Pids /\ Unreaped(p, i) => Unreaped(p, i)'
  BY <1>t DEF Unreaped, LifeType, ProcessesKept, NoneReaped, Ended
<1>2. \A i \in Deployed : table[i] \in Pids
  BY <1>t DEF LifeType, Deployed
<1>3. \A c \in Storing : child[c] \in Pids
  BY <1>t DEF WorkersPlaced, Unreaped
<1>4. InTable' \subseteq InTable
  BY DEF InTable, PlacesKept
<1> QED BY <1>t, <1>1, <1>2, <1>3, <1>4 DEF WorkersPlaced, PlacesKept

LEMMA ServerKeepsPlaces ==
  ASSUME LifeInv, ServerStep, ~SpawnInitial
  PROVE  PlacesKept /\ (~Reap => NoneReaped)
<1>t. LifeType /\ WorkersPlaced
  BY DEF LifeInv
<1> USE <1>t
    DEF LifeType, PlacesKept, NoneReaped, Deployed, Storing, NoPid, Server,
        connections, processes, ServerStep
<1>1. CASE Terminate
  BY <1>1 DEF Terminate, Signal
<1>2. CASE Reap
  BY <1>2 DEF Reap
<1>3. CASE Clear
  BY <1>3 DEF Clear
<1>4. CASE Abort \/ Exit
  BY <1>4 DEF Abort, Exit, EndsAs
<1>5. CASE ~Terminate /\ ~Reap /\ ~Clear /\ ~Abort /\ ~Exit
  BY <1>5
    
     DEF Unlink, CreateShm, CreateSemaphores, SpawnFails, StartMonitor,
         Bind,
         StopMonitor, Join, RequestShutdown, PassOver, UnlinkSems
<1> QED BY <1>1, <1>2, <1>3, <1>4, <1>5

LEMMA OthersKeepPlaces ==
  ASSUME LifeInv,
         \/ Kill \/ Undefined \/ Interrupt \/ MonitorLooks \/ MonitorSleeps
         \/ \E c \in Clients :
              \/ Accept(c) \/ Dismiss(c) \/ Assign(c) \/ EnqueueRequest(c)
              \/ Close(c)
  PROVE  PlacesKept /\ NoneReaped
<1>t. LifeType
  BY DEF LifeInv
<1> USE <1>t
    DEF LifeType, PlacesKept, NoneReaped, Deployed, Storing, NoPid, Thread,
        connections, processes
<1>1. CASE Kill \/ Undefined
  BY <1>1 DEF Kill, Undefined, EndsAs
<1>2. CASE Interrupt
  BY <1>2 DEF Interrupt
<1>3. CASE MonitorLooks \/ MonitorSleeps
  BY <1>3 DEF MonitorLooks, MonitorSleeps
<1>4. ASSUME NEW c \in Clients,
             \/ Accept(c) \/ Dismiss(c) \/ Assign(c) \/ EnqueueRequest(c)
             \/ Close(c)
      PROVE  PlacesKept /\ NoneReaped
  BY <1>4 DEF Accept, Dismiss, Assign, EnqueueRequest, Close
<1> QED BY <1>1, <1>2, <1>3, <1>4

LEMMA WorkerKeepsPlaces ==
  ASSUME LifeInv, NEW p \in Pids, WorkerStep(p) \/ EndWait(p)
  PROVE  /\ PlacesKept /\ NoneReaped
         /\ run' = run /\ parent' = parent /\ home' = home
         /\ \A q \in Pids : proc'[q] = "unborn" <=> proc[q] = "unborn"
<1>t. LifeType
  BY DEF LifeInv
<1> USE <1>t
    DEF LifeType, PlacesKept, NoneReaped, Deployed, Storing, NoPid, Becomes,
        Outside, main
<1>1. CASE \/ LoadModel(p) \/ OpenShm(p) \/ OpenSemaphores(p) \/ LoopHead(p)
           \/ BreakOff(p) \/ EndWait(p) \/ TakeNothing(p)
  BY <1>1
     DEF LoadModel, OpenShm, OpenSemaphores, LoopHead, BreakOff, EndWait,
         TakeNothing
<1>2. ASSUME NEW c \in Clients, TakeRequest(p, c) \/ Answer(p, c)
      PROVE  /\ PlacesKept /\ NoneReaped
             /\ run' = run /\ parent' = parent /\ home' = home
             /\ \A q \in Pids : proc'[q] = "unborn" <=> proc[q] = "unborn"
  BY <1>2 DEF TakeRequest, Answer, Own, Queued
<1> QED BY <1>1, <1>2 DEF WorkerStep

LEMMA WorkersPlacedPreserved ==
  ASSUME LifeInv, Next
  PROVE  WorkersPlaced'
<1>t. LifeType /\ WorkersPlaced /\ DoomedHeld /\ LifecycleAssumption
  BY LifecycleAssumption DEF LifeInv
<1>1. CASE Start
  <2>1. Storing = {}
    BY <1>1 DEF Start, LifeInv, ThreadsCounted, Threads, Storing
  <2>2. Storing' = {} /\ Deployed' = {}
    BY <1>1, <2>1 DEF Start, Storing, Deployed, NoPid
  <2> QED BY <2>2 DEF WorkersPlaced
<1>2. CASE ServerStep /\ ~SpawnInitial /\ ~Reap
  BY <1>2, ServerKeepsProcesses, ServerKeepsPlaces, PlacesKeptSuffices
<1>3. CASE SpawnInitial
  <2>1. PICK i \in Missing, p \in Pids :
          Forked(p, i) /\ table' = [table EXCEPT ![i] = p]
    BY <1>3 DEF SpawnInitial
  <2>2. /\ i \in Indices /\ run \in Runs /\ run' = run
        /\ thread' = thread /\ child' = child /\ at' = at
    BY <1>3, <1>t
      
       DEF SpawnInitial, Missing, Indices, main, connections, Runs,
           LifeType,
           LifecycleAssumption
  <2>3. Storing = {} /\ Storing' = {}
    BY <1>3, <2>2
       DEF SpawnInitial, LifeInv, ThreadsCounted, Threads, Storing, Opening
  <2>4. \A j \in Deployed' : Unreaped(table[j], j)' 
    BY <2>1, <2>2, <1>t, ForkEffect
       DEF Unreaped, WorkersPlaced, Deployed, LifeType
  <2> QED BY <2>3, <2>4 DEF WorkersPlaced
<1>4. CASE Reap
  <2>1. ProcessesKept /\ PlacesKept
    BY <1>4, ServerKeepsProcesses, ServerKeepsPlaces
       DEF ServerStep, SpawnInitial, Reap, Server
  <2>2. victim \notin Deployed'
    BY <1>4, <1>t DEF Reap, Deployed, LifeType, NoPid
  <2>3. server = "waitpid" /\ \A q \in Pids : q # doomed => proc'[q] = proc[q]
    BY <1>4, <1>t DEF Reap, LifeType, Server
  <2>4. \A j \in Deployed' : table[j] # doomed
    <3>1. SUFFICES ASSUME NEW j \in Deployed', table[j] = doomed
                   PROVE  FALSE
      OBVIOUS
    <3>2. j \in Deployed
      BY <3>1, <2>1 DEF PlacesKept
    <3>3. home[table[j]] = j /\ home[doomed] = victim
      BY <3>2, <2>3, <1>t DEF WorkersPlaced, DoomedHeld, Unreaped
    <3> QED BY <3>1, <3>3, <2>2
  <2>5. \A c \in Storing' : child[c] # doomed
    BY <2>1, <2>3, <1>t DEF PlacesKept, DoomedHeld
  <2>6. \A j \in Deployed' : Unreaped(table[j], j)'
    <3>1. SUFFICES ASSUME NEW j \in Deployed'
                   PROVE  Unreaped(table[j], j)'
      OBVIOUS
    <3>2. Unreaped(table[j], j) /\ table'[j] = table[j]
      BY <2>1, <1>t DEF PlacesKept, WorkersPlaced
    <3>3. proc'[table[j]] = proc[table[j]]
      BY <2>3, <2>4, <3>2 DEF Unreaped
    <3> QED BY <2>1, <3>2, <3>3 DEF Unreaped, ProcessesKept
  <2>7. \A c \in Storing' : Unreaped(child[c], at[c])'
    <3>1. SUFFICES ASSUME NEW c \in Storing'
                   PROVE  Unreaped(child[c], at[c])'
      OBVIOUS
    <3>2. Unreaped(child[c], at[c]) /\ child'[c] = child[c] /\ at'[c] = at[c]
      BY <2>1, <1>t DEF PlacesKept, WorkersPlaced
    <3>3. proc'[child[c]] = proc[child[c]]
      BY <2>3, <2>5, <3>2 DEF Unreaped
    <3> QED BY <2>1, <3>2, <3>3 DEF Unreaped, ProcessesKept
  <2>8. InTable' \subseteq InTable
    BY <2>1 DEF InTable, PlacesKept
  <2> QED BY <2>1, <2>6, <2>7, <2>8, <1>t DEF WorkersPlaced, PlacesKept
<1>5. ASSUME NEW c \in Clients, SpawnByThread(c) PROVE WorkersPlaced'
  <2>1. PICK p \in Pids :
          Forked(p, at[c]) /\ child' = [child EXCEPT ![c] = p]
    BY <1>5 DEF SpawnByThread
  <2>2. /\ at[c] \in Indices /\ run \in Runs /\ run' = run /\ table' = table
        /\ at' = at /\ Storing' = Storing \cup {c}
        /\ \A d \in Storing : d # c
    BY <1>5, <1>t, ThreadsUp
       DEF SpawnByThread, Thread, main, LifeType, Storing
  <2>3. /\ \A i \in Deployed : table[i] # p
        /\ \A d \in Storing : child[d] # p
    BY <2>1, <1>t, ForkEffect, <2>2 DEF WorkersPlaced, Unreaped
  <2>4. \A q, i : Unreaped(q, i) => Unreaped(q, i)'
    BY <2>1, <2>2, ForkEffect DEF Unreaped
  <2>5. Unreaped(p, at[c])'
    BY <2>1, <2>2, ForkEffect DEF Unreaped
  <2>6. child'[c] = p /\ \A d \in Storing : child'[d] = child[d]
    BY <2>1, <2>2, <1>t DEF LifeType, Storing
  <2>7. Deployed' = Deployed /\ InTable' = InTable
    BY <2>2 DEF InTable, Deployed
  <2>8. p \notin InTable
    BY <2>3 DEF InTable
  <2>9. \A i \in Deployed' : Unreaped(table[i], i)'
    BY <2>2, <2>4, <2>7, <1>t DEF WorkersPlaced
  <2>10. \A d \in Storing' : Unreaped(child[d], at[d])'
    BY <2>2, <2>4, <2>5, <2>6, <1>t DEF WorkersPlaced
  <2>11. \A d \in Storing' : child'[d] \notin InTable'
    BY <2>2, <2>6, <2>7, <2>8, <1>t DEF WorkersPlaced
  <2>12. \A d, e \in Storing' : child'[d] = child'[e] => d = e
    BY <2>2, <2>3, <2>6, <1>t DEF WorkersPlaced
  <2> QED BY <2>9, <2>10, <2>11, <2>12 DEF WorkersPlaced
<1>6. ASSUME NEW c \in Clients, StoreByThread(c) PROVE WorkersPlaced'
  <2>1. /\ c \in Storing /\ Storing' = Storing \ {c}
        /\ table' = [table EXCEPT ![at[c]] = child[c]]
        /\ UNCHANGED <<run, proc, parent, home, child, at>>
    BY <1>6, <1>t
       DEF StoreByThread, Thread, main, processes, LifeType, Storing
  <2>2. \A q, i : Unreaped(q, i)' <=> Unreaped(q, i)
    BY <2>1 DEF Unreaped
  <2>3. Unreaped(child[c], at[c]) /\ at[c] \in Indices
    BY <2>1, <1>t DEF WorkersPlaced, LifeType, Storing
  <2>4. \A i \in Deployed' : \/ i = at[c] /\ table'[i] = child[c]
                             \/ i \in Deployed /\ table'[i] = table[i]
    BY <2>1, <1>t DEF Deployed, LifeType
  <2>5. \A i \in Deployed' : Unreaped(table[i], i)'
    BY <2>2, <2>3, <2>4, <1>t DEF WorkersPlaced
  <2>6. InTable' \subseteq InTable \cup {child[c]}
    BY <2>4 DEF InTable
  <2> QED BY <2>1, <2>2, <2>5, <2>6, <1>t DEF WorkersPlaced
<1>7. CASE \/ Kill \/ Undefined \/ Interrupt \/ MonitorLooks \/ MonitorSleeps
           \/ \E c \in Clients :
                \/ Accept(c) \/ Dismiss(c) \/ Assign(c) \/ EnqueueRequest(c)
                \/ Close(c)
  <2>1. PlacesKept /\ NoneReaped
    BY <1>7, OthersKeepPlaces
  <2>2. ProcessesKept
    <3>1. ASSUME NEW c \in Clients,
                 \/ Accept(c) \/ Dismiss(c) \/ Assign(c) \/ EnqueueRequest(c)
                 \/ Close(c)
          PROVE  Accept(c) \/ (ThreadStep(c) /\ ~SpawnByThread(c))
      BY <3>1, <1>t
         DEF Accept, Dismiss, Assign, EnqueueRequest, Close, ThreadStep,
             SpawnByThread, Thread, LifeType
    <3> QED BY <1>7, <3>1, OthersKeepProcesses
  <2> QED BY <2>1, <2>2, PlacesKeptSuffices
<1>8. ASSUME NEW p \in Pids, WorkerStep(p) \/ EndWait(p)
      PROVE  WorkersPlaced'
  <2>1. /\ PlacesKept /\ NoneReaped
        /\ run' = run /\ parent' = parent /\ home' = home
        /\ \A q \in Pids : proc'[q] = "unborn" <=> proc[q] = "unborn"
    BY <1>8, WorkerKeepsPlaces
  <2>2. \A q, i : Unreaped(q, i) => Unreaped(q, i)'
    BY <2>1 DEF Unreaped, NoneReaped
  <2>3. InTable' \subseteq InTable
    BY <2>1 DEF InTable, PlacesKept
  <2> QED BY <2>1, <2>2, <2>3, <1>t DEF WorkersPlaced, PlacesKept
<1> QED BY <1>1, <1>2, <1>3, <1>4, <1>5, <1>6, <1>7, <1>8
    DEF Next, ThreadStep
-----------------------------------------------------------------------------
(* The clean-up                                                            *)

Gone(p) == proc[p] = "reaped" \/ Forgotten(p)
Ahead(p) == \E i \in Indices : table[i] = p /\ i >= victim

(* What a process is does not change, and nothing undoes waitpid.          *)
LEMMA BornStays ==
  ASSUME LifeInv, Next, NEW q \in Pids, proc[q] # "unborn"
  PROVE  /\ parent'[q] = parent[q] /\ home'[q] = home[q]
         /\ proc'[q] # "unborn"
         /\ proc[q] = "reaped" => proc'[q] = "reaped"
<1>t. LifeType /\ WorkersPlaced /\ LifecycleAssumption
  BY LifecycleAssumption DEF LifeInv
<1>1. CASE Start
  BY <1>1 DEF Start, processes
<1>2. CASE ServerStep /\ ~SpawnInitial
  <2>1. ProcessesKept
    BY <1>2, ServerKeepsProcesses
  <2>2. proc[q] = "reaped" => proc'[q] = "reaped"
    <3> USE <1>t DEF LifeType, processes, Server
    <3>1. CASE Clear
      <4>1. proc[q] = "reaped" => q \notin InTable
        BY DEF WorkersPlaced, Unreaped, InTable
      <4> QED BY <3>1, <4>1 DEF Clear
    <3>2. CASE Terminate \/ Reap
      BY <3>2 DEF Terminate, Signal, Reap
    <3>3. CASE ~Clear /\ ~Terminate /\ ~Reap
      BY <1>2, <3>3
         DEF ServerStep, Unlink, CreateShm, CreateSemaphores, SpawnFails,
             StartMonitor, Bind, StopMonitor, Join, RequestShutdown,
             PassOver, Abort, UnlinkSems, Exit, EndsAs
    <3> QED BY <3>1, <3>2, <3>3
  <2> QED BY <2>1, <2>2 DEF ProcessesKept, Ended
<1>3. CASE SpawnInitial
  <2>1. PICK i \in Missing, p \in Pids : Forked(p, i)
    BY <1>3 DEF SpawnInitial
  <2>2. i \in Indices /\ run \in Runs
    BY <1>3, <2>1, <1>t
      
       DEF SpawnInitial, Missing, Indices, LifecycleAssumption, LifeType,
           Runs
  <2> QED BY <2>1, <2>2, ForkEffect
<1>4. ASSUME NEW c \in Clients, SpawnByThread(c)
      PROVE  /\ parent'[q] = parent[q] /\ home'[q] = home[q]
             /\ proc'[q] # "unborn"
             /\ proc[q] = "reaped" => proc'[q] = "reaped"
  <2>1. PICK p \in Pids : Forked(p, at[c])
    BY <1>4 DEF SpawnByThread
  <2>2. at[c] \in Indices /\ run \in Runs
    BY <1>4, <1>t, ThreadsUp DEF SpawnByThread, Thread, LifeType
  <2> QED BY <2>1, <2>2, ForkEffect
<1>5. CASE Kill \/ Undefined \/ Interrupt \/ MonitorLooks \/ MonitorSleeps
  <2>1. ProcessesKept
    BY <1>5, OthersKeepProcesses
  <2>2. NoneReaped /\ (proc[q] = "reaped" => proc'[q] = "reaped")
    BY <1>5, <1>t, OthersKeepPlaces
       DEF Kill, Undefined, EndsAs, Interrupt, MonitorLooks, MonitorSleeps,
           processes, LifeType, Alive, Early, Looping
  <2> QED BY <2>1, <2>2 DEF ProcessesKept, Ended
<1>6. ASSUME NEW c \in Clients, Accept(c) \/ ThreadStep(c), ~SpawnByThread(c)
      PROVE  processes' = processes
  BY <1>6
     DEF Accept, ThreadStep, Dismiss, Assign, StoreByThread, EnqueueRequest,
         Close
<1>7. ASSUME NEW p \in Pids, WorkerStep(p) \/ EndWait(p)
      PROVE  /\ parent'[q] = parent[q] /\ home'[q] = home[q]
             /\ proc'[q] # "unborn"
             /\ proc[q] = "reaped" => proc'[q] = "reaped"
  <2>1. /\ parent' = parent /\ home' = home
        /\ proc'[q] = "unborn" <=> proc[q] = "unborn"
    BY <1>7, WorkerKeepsPlaces
  <2>2. proc[q] = "reaped" => proc'[q] = "reaped"
    BY <1>7, <1>t
      
       DEF LifeType, Becomes, WorkerStep, LoadModel, OpenShm,
           OpenSemaphores,
           LoopHead, TakeNothing, BreakOff, TakeRequest, Answer, EndWait
  <2> QED BY <2>1, <2>2
<1> QED BY <1>1, <1>2, <1>3, <1>4, <1>5, <1>6, <1>7
    DEF Next, processes

LEMMA GoneStays ==
  ASSUME LifeInv, Next, NEW p \in known, Gone(p)
  PROVE  Gone(p)'
<1>1. /\ p \in Pids /\ proc[p] # "unborn"
      /\ \A q \in Pids : proc[q] = "unborn" <=> parent[q] = Nobody
  BY DEF LifeInv, LifeType, KnownFollowed, ProcessesOwn
<1>2. CASE proc[p] = "reaped"
  BY <1>1, <1>2, BornStays DEF Gone
<1>3. CASE Forgotten(p)
  <2>1. PICK q \in Pids \ {p} : parent[q] = parent[p] /\ home[q] = home[p]
    BY <1>3 DEF Forgotten
  <2>2. proc[q] # "unborn"
    BY <1>1, <2>1
  <2>3. /\ parent'[q] = parent[q] /\ home'[q] = home[q]
        /\ parent'[p] = parent[p] /\ home'[p] = home[p]
    BY <1>1, <2>2, BornStays
  <2>4. Forgotten(p)'
    BY <2>1, <2>3 DEF Forgotten
  <2> QED BY <2>4 DEF Gone
<1> QED BY <1>2, <1>3 DEF Gone

(* Steps that leave the clean-up where it is.                              *)
CleanupKept ==
  /\ known' = known /\ run' = run /\ server' = server
  /\ table' = table /\ victim' = victim /\ shutdown_flag' = shutdown_flag

LEMMA OthersKeepCleanup ==
  \/ Interrupt \/ MonitorLooks \/ MonitorSleeps
  \/ \E c \in Clients : Accept(c) \/ (ThreadStep(c) /\ ~StoreByThread(c))
  \/ \E p \in Pids : WorkerStep(p) \/ EndWait(p)
  => CleanupKept
<1> USE DEF CleanupKept, main, objects, Outside
<1>1. Interrupt \/ MonitorLooks \/ MonitorSleeps => CleanupKept
  BY DEF Interrupt, MonitorLooks, MonitorSleeps
<1>2. ASSUME NEW c \in Clients, Accept(c) \/ (ThreadStep(c) /\ ~StoreByThread(c))
      PROVE  CleanupKept
  BY <1>2
     DEF Accept, ThreadStep, Dismiss, Assign, SpawnByThread, EnqueueRequest,
         Close
<1>3. ASSUME NEW p \in Pids, WorkerStep(p) \/ EndWait(p)
      PROVE  CleanupKept
  BY <1>3
     DEF WorkerStep, LoadModel, OpenShm, OpenSemaphores, LoopHead,
         TakeNothing, BreakOff, TakeRequest, Answer, EndWait
<1> QED BY <1>1, <1>2, <1>3

LEMMA KnownFollowedPreserved ==
  ASSUME LifeInv, Next
  PROVE  KnownFollowed'
<1>t. LifeType /\ NamesOwn /\ WorkersPlaced /\ DoomedHeld
      /\ KnownFollowed /\ LifecycleAssumption
  BY LifecycleAssumption DEF LifeInv
<1> DEFINE Following(f) ==
             server \in {"cleanup", "waitpid"} /\ f[run] =>
               \A p \in known : Gone(p) \/ Ahead(p)
<1>f. Following(shutdown_flag)
  BY <1>t DEF KnownFollowed, Gone, Ahead
<1>s. ASSUME known' = known, run' = run,
             server' \in {"cleanup", "waitpid"} /\ shutdown_flag'[run'] =>
               \A p \in known : Gone(p)' \/ Ahead(p)'
      PROVE  KnownFollowed'
  <2>1. \A p \in known : parent'[p] = run /\ proc'[p] # "unborn"
    BY <1>t, BornStays DEF KnownFollowed, LifeType
  <2> QED BY <1>s, <2>1 DEF KnownFollowed, Gone, Ahead
<1> HIDE DEF Following
<1>1. CASE Start
  BY <1>1 DEF Start, KnownFollowed
<1>2. CASE RequestShutdown
  <2>1. \A p \in InTable : /\ p \in Pids /\ parent[p] = run
                           /\ proc[p] # "unborn"
                           /\ \E i \in Indices : table[i] = p
    BY <1>t DEF InTable, WorkersPlaced, Unreaped, Deployed
  <2>2. /\ known' = InTable /\ parent' = parent /\ proc' = proc
        /\ run' = run /\ table' = table /\ victim' = 0
    BY <1>2 DEF RequestShutdown, processes
  <2>3. \A i \in Indices : i >= 0
    BY DEF Indices
  <2> QED BY <2>1, <2>2, <2>3 DEF KnownFollowed
<1>3. CASE CleanupKept
  <2>1. \A p \in known : (Gone(p) => Gone(p)') /\ (Ahead(p) => Ahead(p)')
    BY <1>3, GoneStays DEF CleanupKept, Ahead
  <2> QED BY <1>3, <1>f, <1>s, <2>1 DEF CleanupKept, Following
<1>4. ASSUME NEW c \in Clients, StoreByThread(c) PROVE KnownFollowed'
  <2>1. /\ known' = known /\ run' = run /\ server' = server
        /\ victim' = victim /\ shutdown_flag' = shutdown_flag
        /\ parent' = parent /\ home' = home
        /\ table' = [table EXCEPT ![at[c]] = child[c]] /\ c \in Storing
    BY <1>4 DEF StoreByThread, Thread, main, objects, processes, Storing
  <2>2. ASSUME NEW p \in known, Ahead(p)
        PROVE  Gone(p)' \/ Ahead(p)'
    <3>1. PICK i \in Indices : table[i] = p /\ i >= victim
      BY <2>2 DEF Ahead
    <3>2. CASE i # at[c]
      BY <2>1, <3>1, <3>2, <1>t DEF Ahead, LifeType
    <3>3. CASE i = at[c] /\ child[c] = p
      BY <2>1, <3>1, <3>3, <1>t DEF Ahead, LifeType
    <3>4. CASE i = at[c] /\ child[c] # p
      <4>1. /\ parent[p] = run /\ home[p] = i
        BY <3>1, <1>t DEF WorkersPlaced, Unreaped, Deployed, LifeType, Pids,
                          NoPid
      <4>2. /\ child[c] \in Pids /\ parent[child[c]] = run
            /\ home[child[c]] = i
        BY <2>1, <3>4, <1>t DEF WorkersPlaced, Unreaped
      <4>3. Forgotten(p)'
        BY <2>1, <3>4, <4>1, <4>2 DEF Forgotten
      <4> QED BY <4>3 DEF Gone
    <3> QED BY <3>2, <3>3, <3>4
  <2> QED BY <1>f, <1>s, <2>1, <2>2, GoneStays DEF Following
<1>5. CASE SpawnFails
  <2>1. /\ known' = known /\ run' = run /\ ~shutdown_flag'[run']
    BY <1>5, <1>t DEF SpawnFails, Server, objects, NamesOwn, Running
  <2> QED BY <1>s, <2>1
<1>6. CASE Terminate \/ PassOver
  <2>1. /\ known' = known /\ run' = run /\ table' = table
        /\ shutdown_flag' = shutdown_flag /\ server = "cleanup"
    BY <1>6 DEF Terminate, PassOver, Server, main, objects
  <2>2. ASSUME NEW p \in known, Ahead(p)
        PROVE  Ahead(p)'
    <3>1. CASE victim' = victim
      BY <2>1, <2>2, <3>1 DEF Ahead
    <3>2. CASE PassOver
      <4>1. PICK i \in Indices : table[i] = p /\ i >= victim
        BY <2>2 DEF Ahead
      <4>2. i # victim
        BY <3>2, <4>1, <1>t DEF PassOver, Deployed, LifeType, Pids, NoPid
      <4>3. i >= victim'
        BY <3>2, <4>1, <4>2, <1>t DEF PassOver, Indices, LifeType
      <4> QED BY <2>1, <4>1, <4>3 DEF Ahead
    <3> QED BY <1>6, <3>1, <3>2 DEF Terminate
  <2> QED BY <1>f, <1>s, <2>1, <2>2, GoneStays DEF Following
<1>7. CASE Reap
  <2>1. /\ known' = known /\ run' = run
        /\ shutdown_flag' = shutdown_flag /\ server = "waitpid"
        /\ table' = [table EXCEPT ![victim] = NoPid]
        /\ proc' = [proc EXCEPT ![doomed] = "reaped"]
        /\ victim' = victim + 1
    BY <1>7 DEF Reap, Server, objects
  <2>2. ASSUME NEW p \in known, Ahead(p)
        PROVE  Gone(p)' \/ Ahead(p)'
    <3>1. PICK i \in Indices : table[i] = p /\ i >= victim
      BY <2>2 DEF Ahead
    <3>2. CASE i = victim /\ p = doomed
      BY <2>1, <3>2, <1>t DEF Gone, LifeType, DoomedHeld, Unreaped
    <3>4. CASE i = victim /\ p # doomed
      <4>1. /\ parent[p] = run /\ home[p] = victim
        BY <3>1, <3>4, <1>t DEF WorkersPlaced, Unreaped, Deployed, LifeType,
                                Pids, NoPid
      <4>2. /\ doomed \in Pids /\ parent[doomed] = run
            /\ home[doomed] = victim
        BY <2>1, <1>t DEF DoomedHeld, Unreaped
      <4>3. Forgotten(p)
        BY <3>4, <4>1, <4>2 DEF Forgotten
      <4> QED BY <4>3, GoneStays DEF Gone
    <3>3. CASE i # victim
      <4>1. i >= victim' /\ table'[i] = p
        BY <2>1, <3>1, <3>3, <1>t DEF Indices, LifeType
      <4> QED BY <4>1 DEF Ahead
    <3> QED BY <3>2, <3>3, <3>4
  <2> QED BY <1>f, <1>s, <2>1, <2>2, GoneStays DEF Following
<1>8. CASE \/ Unlink \/ CreateShm \/ CreateSemaphores \/ SpawnInitial
           \/ StartMonitor \/ Bind \/ StopMonitor \/ Join \/ Clear
           \/ Abort \/ UnlinkSems \/ Exit \/ Kill \/ Undefined
  <2>1. /\ known' = known /\ run' = run
        /\ server' \notin {"cleanup", "waitpid"}
    BY <1>8
       DEF Unlink, CreateShm, CreateSemaphores, SpawnInitial, StartMonitor,
           Bind, StopMonitor, Join, Clear, Abort, UnlinkSems, Exit, Kill,
           Undefined, EndsAs, Server, main
  <2> QED BY <1>s, <2>1
<1> QED BY <1>1, <1>2, <1>3, <1>4, <1>5, <1>6, <1>7, <1>8,
           OthersKeepCleanup
    DEF Next, ServerStep, ThreadStep

LEMMA KnownAccountedPreserved ==
  ASSUME LifeInv, Next
  PROVE  KnownAccounted'
<1>t. LifeType /\ KnownFollowed /\ KnownAccounted
  BY DEF LifeInv
<1> DEFINE Done == {"members", "unlink_shm", "exited"}
<1>s. ASSUME known' = known, server' \in Done => \A p \in known : Gone(p)
      PROVE  KnownAccounted'
  BY <1>s, GoneStays DEF KnownAccounted, Gone
<1>1. CASE Start
  BY <1>1 DEF Start, KnownAccounted
<1>2. CASE Clear
  <2>1. CASE shutdown_flag[run]
    <3>1. victim = MAX_WORKERS /\ server = "cleanup" /\ known' = known
      BY <1>2 DEF Clear, Server
    <3>2. \A i \in Indices : ~(i >= victim)
      BY <3>1, LifecycleAssumption DEF Indices
    <3>3. \A p \in known : Gone(p)
      BY <2>1, <3>1, <3>2, <1>t DEF KnownFollowed, Gone
    <3> QED BY <1>s, <3>1, <3>3
  <2>2. CASE ~shutdown_flag[run]
    BY <1>2, <2>2 DEF Clear, Server, KnownAccounted
  <2> QED BY <2>1, <2>2
<1>3. CASE UnlinkSems \/ Exit
  <2>1. known' = known /\ server \in Done
    BY <1>3 DEF UnlinkSems, Exit, EndsAs, Server
  <2> QED BY <1>s, <2>1, <1>t DEF KnownAccounted, Gone
<1>4. CASE \/ ServerStep /\ ~Clear /\ ~UnlinkSems /\ ~Exit
           \/ Kill \/ Undefined
  <2>1. server' \notin Done
    BY <1>4
       DEF ServerStep, Unlink, CreateShm, CreateSemaphores, SpawnInitial,
           SpawnFails, StartMonitor, Bind, StopMonitor, Join,
           RequestShutdown, Terminate, Reap, PassOver, Abort, Kill,
           Undefined, EndsAs, Server, main
  <2> QED BY <2>1 DEF KnownAccounted
<1>5. CASE known' = known /\ server' = server
  BY <1>5, <1>s, <1>t DEF KnownAccounted, Gone
<1>6. ASSUME NEW c \in Clients, StoreByThread(c)
      PROVE  known' = known /\ server' = server
  BY <1>6 DEF StoreByThread, main
<1> QED BY <1>1, <1>2, <1>3, <1>4, <1>5, <1>6, OthersKeepCleanup
    DEF Next, ThreadStep, CleanupKept
-----------------------------------------------------------------------------
(* Items and requests                                                      *)

(* What a process has opened it keeps, so a stranger remains one.          *)
LEMMA StrangersStay ==
  ASSUME LifeInv, Next, run # Nobody, run' = run, Strangers' = {}
  PROVE  Strangers = {}
<1>t. LifeType /\ ProcessesOwn
  BY DEF LifeInv
<1>1. SUFFICES ASSUME NEW p \in Strangers PROVE FALSE
  OBVIOUS
<1>2. /\ p \in Pids /\ parent[p] # run /\ run \in {shm[p], sems[p]}
      /\ proc[p] # "unborn"
  BY <1>t, <1>1 DEF Strangers, ProcessesOwn
<1>3. parent'[p] = parent[p]
  BY <1>2, BornStays
<1>4. shm[p] = run => shm'[p] = run
  <2>1. CASE shm' = shm
    BY <2>1
  <2>2. ASSUME NEW q \in Pids, OpenShm(q) PROVE shm[p] = run => shm'[p] = run
    BY <2>2, <1>t DEF OpenShm, Becomes, ProcessesOwn, LifeType
  <2>3. CASE /\ shm' # shm /\ \A q \in Pids : ~OpenShm(q)
    BY <2>3
       DEF Next, Start, ServerStep, Unlink, CreateShm, CreateSemaphores,
           SpawnInitial, SpawnFails, StartMonitor, Bind, StopMonitor, Join,
           RequestShutdown, Terminate, Reap, PassOver, Clear, Abort,
           UnlinkSems, Exit, Kill, Undefined, EndsAs, Signal, Forked,
           Interrupt, MonitorLooks, MonitorSleeps, Accept, ThreadStep,
           Dismiss, Assign, SpawnByThread, StoreByThread, EnqueueRequest,
           Close, WorkerStep, LoadModel, OpenSemaphores, LoopHead,
           TakeNothing, BreakOff, TakeRequest, Answer, EndWait, processes
  <2> QED BY <2>1, <2>2, <2>3
<1>5. sems[p] = run => sems'[p] = run
  <2>1. CASE sems' = sems
    BY <2>1
  <2>2. ASSUME NEW q \in Pids, OpenSemaphores(q)
        PROVE  sems[p] = run => sems'[p] = run
    BY <2>2, <1>t DEF OpenSemaphores, Becomes, ProcessesOwn, LifeType, Early
  <2>3. CASE /\ sems' # sems /\ \A q \in Pids : ~OpenSemaphores(q)
    BY <2>3
       DEF Next, Start, ServerStep, Unlink, CreateShm, CreateSemaphores,
           SpawnInitial, SpawnFails, StartMonitor, Bind, StopMonitor, Join,
           RequestShutdown, Terminate, Reap, PassOver, Clear, Abort,
           UnlinkSems, Exit, Kill, Undefined, EndsAs, Signal, Forked,
           Interrupt, MonitorLooks, MonitorSleeps, Accept, ThreadStep,
           Dismiss, Assign, SpawnByThread, StoreByThread, EnqueueRequest,
           Close, WorkerStep, LoadModel, OpenShm, LoopHead, TakeNothing,
           BreakOff, TakeRequest, Answer, EndWait, processes
  <2> QED BY <2>1, <2>2, <2>3
<1>6. p \in Strangers'
  BY <1>2, <1>3, <1>4, <1>5 DEF Strangers
<1> QED BY <1>6

(* The server's semaphores have its own requests only.                     *)
Owning ==
  server \in Running \cup Cleaning /\ ~shutdown_flag[run] /\ Strangers = {}

(* Where nobody else takes items, a worker's requests are its index's.     *)
LEMMA OwnerHasOwn ==
  ASSUME LifeInv, Owning, NEW p \in Pids, proc[p] \in Looping,
         sems[p] = run
  PROVE  Own(p) = Queued(home[p])
<1>1. parent[p] = run
  BY DEF Owning, Strangers
<1>2. shm[p] = run
  BY <1>1 DEF LifeInv, ProcessesOwn
<1> QED BY <1>2 DEF Own

(* Steps that leave items and waiting requests alone.                      *)
QueuesKept ==
  /\ items' = items
  /\ \A i \in Indices : Queued(i)' = Queued(i)

LEMMA ServerKeepsQueues ==
  ASSUME LifeInv, ServerStep, ~Abort, ~Exit, ~RequestShutdown,
         ~CreateSemaphores, Owning'
  PROVE  /\ QueuesKept /\ run' = run
         /\ server \in Running \cup Cleaning /\ ~shutdown_flag[run]
<1> USE
    DEF QueuesKept, Queued, Owning, Running, Cleaning, Server, main,
        objects,
            connections
<1>1. CASE Unlink \/ CreateShm \/ UnlinkSems
  BY <1>1 DEF Unlink, CreateShm, UnlinkSems
<1>2. CASE SpawnInitial \/ SpawnFails \/ StartMonitor \/ Bind
  BY <1>2 DEF SpawnInitial, SpawnFails, StartMonitor, Bind
<1>3. CASE StopMonitor \/ Join
  BY <1>3 DEF StopMonitor, Join
<1>4. CASE Terminate \/ Reap \/ PassOver \/ Clear
  BY <1>4 DEF Terminate, Reap, PassOver, Clear
<1> QED BY <1>1, <1>2, <1>3, <1>4 DEF ServerStep

LEMMA OthersKeepQueues ==
  ASSUME LifeInv,
         \/ Interrupt \/ MonitorLooks \/ MonitorSleeps
         \/ \E c \in Clients :
              \/ Accept(c) \/ Dismiss(c) \/ Assign(c) \/ SpawnByThread(c)
              \/ StoreByThread(c) \/ Close(c)
         \/ \E p \in Pids :
              \/ LoadModel(p) \/ OpenShm(p) \/ OpenSemaphores(p)
              \/ LoopHead(p) \/ BreakOff(p) \/ EndWait(p)
              \/ \E c \in Clients : Answer(p, c)
  PROVE  /\ QueuesKept /\ run' = run /\ server' = server
         /\ shutdown_flag' = shutdown_flag
<1>t. LifeType
  BY DEF LifeInv
<1> USE <1>t
    DEF QueuesKept, Queued, LifeType, main, objects, connections, Outside,
        Thread
<1>1. CASE Interrupt \/ MonitorLooks \/ MonitorSleeps
  BY <1>1 DEF Interrupt, MonitorLooks, MonitorSleeps
<1>2. ASSUME NEW c \in Clients,
             \/ Accept(c) \/ Dismiss(c) \/ Assign(c) \/ SpawnByThread(c)
             \/ StoreByThread(c) \/ Close(c)
      PROVE  /\ QueuesKept /\ run' = run /\ server' = server
             /\ shutdown_flag' = shutdown_flag
  <2>1. /\ items' = items /\ run' = run /\ server' = server
        /\ shutdown_flag' = shutdown_flag
        /\ thread[c] # "queued" /\ thread'[c] # "queued"
        /\ \A d \in Clients \ {c} : thread'[d] = thread[d] /\ at'[d] = at[d]
    BY <1>2
       DEF Accept, Dismiss, Assign, SpawnByThread, StoreByThread, Close
  <2> QED BY <2>1
<1>3. ASSUME NEW p \in Pids,
             \/ LoadModel(p) \/ OpenShm(p) \/ OpenSemaphores(p)
             \/ LoopHead(p) \/ BreakOff(p) \/ EndWait(p)
      PROVE  /\ QueuesKept /\ run' = run /\ server' = server
             /\ shutdown_flag' = shutdown_flag
  BY <1>3
     DEF LoadModel, OpenShm, OpenSemaphores, LoopHead, BreakOff, EndWait
<1>4. ASSUME NEW p \in Pids, NEW c \in Clients, Answer(p, c)
      PROVE  /\ QueuesKept /\ run' = run /\ server' = server
             /\ shutdown_flag' = shutdown_flag
  BY <1>4 DEF Answer
<1> QED BY <1>1, <1>2, <1>3, <1>4

LEMMA ItemsOwnPreserved ==
  ASSUME LifeInv, Next
  PROVE  ItemsOwn'
<1>t. LifeType /\ LifecycleAssumption
  BY LifecycleAssumption DEF LifeInv
<1>0. SUFFICES ASSUME Owning', NEW j \in Indices
               PROVE  items'[run'][j] = Cardinality(Queued(j)')
  BY DEF ItemsOwn, Owning
<1>f. /\ IsFiniteSet(Queued(j)) /\ Cardinality(Queued(j)) \in Nat
  BY <1>t, FS_Subset, FS_CardinalityType DEF Queued, LifecycleAssumption
<1>r. server \in Running \cup Cleaning => run \in Runs /\ run # Nobody
  BY <1>t
     DEF LifeType, LifecycleAssumption, Running, Cleaning, Runs, Nobody
<1>i. ASSUME server \in Running \cup Cleaning, ~shutdown_flag[run],
             run' = run
      PROVE  Owning /\ items[run][j] = Cardinality(Queued(j))
  <2>1. Strangers = {}
    BY <1>i, <1>r, <1>0, StrangersStay DEF Owning
  <2> QED BY <1>i, <2>1 DEF Owning, LifeInv, ItemsOwn
<1>1. CASE Start \/ RequestShutdown \/ Abort \/ Exit \/ Kill \/ Undefined
  <2>1. ASSUME RequestShutdown PROVE FALSE
    <3>1. run \in Runs
      BY <2>1, <1>r DEF RequestShutdown, Server, Running
    <3>2. shutdown_flag'[run'] = TRUE
      BY <2>1, <3>1, <1>t DEF RequestShutdown, LifeType
    <3> QED BY <1>0, <3>2 DEF Owning
  <2>2. CASE Start \/ Abort \/ Exit \/ Kill \/ Undefined
    BY <2>2, <1>0
       DEF Start, Abort, Exit, Kill, Undefined, EndsAs, Owning, Running,
           Cleaning
  <2> QED BY <1>1, <2>1, <2>2
<1>2. CASE CreateSemaphores
  <2>1. Queued(j)' = {}
    <3>1. Threads = {} /\ thread' = thread
      BY <1>2
         DEF CreateSemaphores, Server, connections, LifeInv, ThreadsCounted,
             Opening, Creating
    <3> QED BY <3>1 DEF Threads, Queued
  <2>2. run \in Runs /\ run' = run
    BY <1>2, <1>t
       DEF CreateSemaphores, Server, LifeType, LifecycleAssumption, Runs
  <2>3. items'[run] = [i \in Indices |-> 0]
    BY <1>2, <2>2, <1>t DEF CreateSemaphores, LifeType, Counts
  <2> QED BY <2>1, <2>2, <2>3, FS_EmptySet
<1>3. CASE ServerStep /\ ~RequestShutdown /\ ~Abort /\ ~Exit
           /\ ~CreateSemaphores
  <2>1. /\ QueuesKept /\ run' = run
        /\ server \in Running \cup Cleaning /\ ~shutdown_flag[run]
    BY <1>3, <1>0, ServerKeepsQueues
  <2> QED BY <1>i, <2>1 DEF QueuesKept
<1>4. CASE /\ QueuesKept /\ run' = run /\ server' = server
           /\ shutdown_flag' = shutdown_flag
  BY <1>4, <1>0, <1>i DEF QueuesKept, Owning
<1>5. ASSUME NEW c \in Clients, EnqueueRequest(c)
      PROVE  items'[run'][j] = Cardinality(Queued(j)')
  <2>1. /\ run' = run /\ server' = server /\ at' = at
        /\ shutdown_flag' = shutdown_flag
        /\ thread[c] = "enqueue"
        /\ thread' = [thread EXCEPT ![c] = "queued"]
    BY <1>5 DEF EnqueueRequest, Thread, main
  <2>2. Owning /\ items[run][j] = Cardinality(Queued(j)) /\ run \in Runs
    BY <1>0, <1>i, <1>r, <2>1 DEF Owning
  <2>3. items'[run][j] = IF j = at[c] THEN items[run][j] + 1
                                      ELSE items[run][j]
    BY <1>5, <2>2, ItemAdded
  <2>4. CASE j = at[c]
    <3>1. c \notin Queued(j) /\ Queued(j)' = Queued(j) \cup {c}
      BY <2>1, <2>4, <1>t DEF Queued, LifeType
    <3>2. Cardinality(Queued(j)') = Cardinality(Queued(j)) + 1
      BY <3>1, <1>f, FS_AddElement
    <3> QED BY <2>1, <2>2, <2>3, <2>4, <3>2
  <2>5. CASE j # at[c]
    <3>1. Queued(j)' = Queued(j)
      BY <2>1, <2>5, <1>t DEF Queued, LifeType
    <3> QED BY <2>1, <2>2, <2>3, <2>5, <3>1
  <2> QED BY <2>4, <2>5
<1>6. ASSUME NEW p \in Pids, NEW c \in Clients, TakeRequest(p, c)
      PROVE  items'[run'][j] = Cardinality(Queued(j)')
  <2>1. /\ run' = run /\ server' = server /\ at' = at
        /\ shutdown_flag' = shutdown_flag /\ TakeItem(p)
        /\ sems[p] = run /\ c \in Queued(home[p])
        /\ thread' = [thread EXCEPT ![c] = "taken"]
    BY <1>6 DEF TakeRequest, Own, main
  <2>2. Owning /\ items[run][j] = Cardinality(Queued(j)) /\ run \in Runs
    BY <1>0, <1>i, <1>r, <2>1 DEF Owning
  <2>3. items'[run][j] = IF j = home[p] THEN items[run][j] - 1
                                        ELSE items[run][j]
    BY <2>1, <2>2, ItemTaken
  <2>4. CASE j = home[p]
    <3>1. c \in Queued(j) /\ Queued(j)' = Queued(j) \ {c}
      BY <2>1, <2>4, <1>t DEF Queued, LifeType
    <3>2. Cardinality(Queued(j)') = Cardinality(Queued(j)) - 1
      BY <3>1, <1>f, FS_RemoveElement
    <3> QED BY <2>1, <2>2, <2>3, <2>4, <3>2
  <2>5. CASE j # home[p]
    <3>1. Queued(j)' = Queued(j)
      BY <2>1, <2>5, <1>t DEF Queued, LifeType
    <3> QED BY <2>1, <2>2, <2>3, <2>5, <3>1
  <2> QED BY <2>4, <2>5
<1>7. ASSUME NEW p \in Pids, TakeNothing(p)
      PROVE  items'[run'][j] = Cardinality(Queued(j)')
  <2>1. /\ run' = run /\ server' = server /\ at' = at /\ thread' = thread
        /\ shutdown_flag' = shutdown_flag /\ TakeItem(p) /\ Own(p) = {}
    BY <1>7 DEF TakeNothing, Outside, main
  <2>2. Owning /\ items[run][j] = Cardinality(Queued(j)) /\ run \in Runs
    BY <1>0, <1>i, <1>r, <2>1 DEF Owning
  <2>3. sems[p] # run
    <3>1. SUFFICES ASSUME sems[p] = run PROVE FALSE
      OBVIOUS
    <3>2. Queued(home[p]) = {}
      BY <2>1, <2>2, <3>1, OwnerHasOwn DEF TakeItem, Looping
    <3>3. items[run][home[p]] = 0
      BY <2>1, <2>2, <3>2, ItemTaken, FS_EmptySet
         DEF LifeInv, ItemsOwn, Owning
    <3> QED BY <2>1, <3>1, <3>3, ItemTaken
  <2>4. items'[run][j] = items[run][j]
    BY <2>1, <2>2, <2>3, ItemTaken
  <2> QED BY <2>1, <2>2, <2>4 DEF Queued
<1> QED BY <1>1, <1>2, <1>3, <1>4, <1>5, <1>6, <1>7, OthersKeepQueues
    DEF Next, ThreadStep, WorkerStep

-----------------------------------------------------------------------------
(* The worker that is being waited for                                     *)

(* Steps that leave terminate_worker where it is, or outside.              *)
DoomedKept ==
  server' = "waitpid" =>
    /\ server = "waitpid" /\ doomed' = doomed /\ victim' = victim
    /\ run' = run
    /\ \A c \in Storing' \ Storing : proc[child'[c]] = "unborn"
    /\ \A c \in Storing' \cap Storing : child'[c] = child[c]
    /\ NoneReaped

LEMMA DoomedIsKept ==
  ASSUME LifeInv, Next, ~Terminate
  PROVE  DoomedKept
<1>t. LifeType
  BY DEF LifeInv
<1> USE DEF DoomedKept, NoneReaped, Storing, main, connections, processes,
            Outside, Server, Thread, Becomes, LifeType
<1>1. CASE Start \/ ServerStep
  BY <1>1
     DEF Start, ServerStep, Unlink, CreateShm, CreateSemaphores,
         SpawnInitial, SpawnFails, StartMonitor, Bind, StopMonitor, Join,
         RequestShutdown, Reap, PassOver, Clear, Abort, UnlinkSems, Exit,
         EndsAs
<1>2. CASE Kill \/ Undefined
  BY <1>2 DEF Kill, Undefined, EndsAs
<1>3. CASE Interrupt \/ MonitorLooks \/ MonitorSleeps
  BY <1>3, <1>t DEF Interrupt, MonitorLooks, MonitorSleeps
<1>4. ASSUME NEW c \in Clients,
             \/ Accept(c) \/ Dismiss(c) \/ Assign(c) \/ StoreByThread(c)
             \/ EnqueueRequest(c) \/ Close(c)
      PROVE  DoomedKept
  BY <1>4, <1>t
     DEF Accept, Dismiss, Assign, StoreByThread, EnqueueRequest, Close
<1>5. ASSUME NEW c \in Clients, SpawnByThread(c) PROVE DoomedKept
  <2>1. PICK p \in Pids :
          Forked(p, at[c]) /\ child' = [child EXCEPT ![c] = p]
    BY <1>5 DEF SpawnByThread
  <2>2. at[c] \in Indices /\ run \in Runs
    BY <1>5, <1>t, ThreadsUp DEF SpawnByThread
  <2>3. /\ proc[p] = "unborn" /\ proc'[p] = "forked"
        /\ \A q \in Pids \ {p} : proc'[q] = proc[q]
    BY <2>1, <2>2, ForkEffect
  <2>4. /\ thread' = [thread EXCEPT ![c] = "store"] /\ thread[c] = "spawn"
        /\ server' = server /\ doomed' = doomed /\ victim' = victim
        /\ run' = run
    BY <1>5 DEF SpawnByThread
  <2>5. NoneReaped
    BY <2>3
  <2>6. \A d \in Storing' \ Storing : proc[child'[d]] = "unborn"
    BY <2>1, <2>3, <2>4, <1>t
  <2>7. \A d \in Storing' \cap Storing : child'[d] = child[d]
    BY <2>1, <2>4, <1>t
  <2> HIDE DEF NoneReaped, Storing
  <2> QED BY <2>4, <2>5, <2>6, <2>7
<1>6. ASSUME NEW p \in Pids, WorkerStep(p) \/ EndWait(p) PROVE DoomedKept
  <2>1. /\ PlacesKept /\ NoneReaped /\ CleanupKept /\ doomed' = doomed
    BY <1>6, WorkerKeepsPlaces, OthersKeepCleanup
       DEF WorkerStep, LoadModel, OpenShm, OpenSemaphores, LoopHead,
           TakeNothing, BreakOff, TakeRequest, Answer, EndWait
  <2> QED BY <2>1 DEF PlacesKept, CleanupKept
<1> QED BY <1>1, <1>2, <1>3, <1>4, <1>5, <1>6 DEF Next, ThreadStep

LEMMA DoomedHeldPreserved ==
  ASSUME LifeInv, Next
  PROVE  DoomedHeld'
<1>t. LifeType /\ WorkersPlaced /\ DoomedHeld
  BY DEF LifeInv
<1>1. CASE Terminate
  <2>1. /\ victim \in Deployed /\ doomed' = table[victim] /\ victim' = victim
        /\ proc' = [proc EXCEPT ![doomed'] =
                      IF @ = "forked" THEN "zombie" ELSE @]
        /\ run' = run /\ parent' = parent /\ home' = home
        /\ thread' = thread /\ child' = child
    BY <1>1 DEF Terminate, Signal, connections
  <2>2. Unreaped(table[victim], victim)
    BY <2>1, <1>t DEF WorkersPlaced
  <2>3. Unreaped(doomed, victim)'
    BY <2>1, <2>2, <1>t DEF Unreaped, LifeType
  <2>4. \A c \in Storing' : child'[c] # doomed'
    BY <2>1, <1>t DEF Storing, WorkersPlaced, InTable
  <2> QED BY <2>3, <2>4 DEF DoomedHeld
<1>2. CASE ~Terminate
  <2>1. SUFFICES ASSUME server' = "waitpid"
                 PROVE  /\ Unreaped(doomed, victim)'
                        /\ \A c \in Storing' : child'[c] # doomed'
    BY DEF DoomedHeld
  <2>2. /\ Unreaped(doomed, victim) /\ doomed' = doomed /\ victim' = victim
        /\ run' = run /\ NoneReaped /\ \A c \in Storing : child[c] # doomed
        /\ \A c \in Storing' \ Storing : proc[child'[c]] = "unborn"
        /\ \A c \in Storing' \cap Storing : child'[c] = child[c]
    BY <1>2, <2>1, <1>t, DoomedIsKept DEF DoomedKept, DoomedHeld
  <2>3. /\ parent'[doomed] = parent[doomed] /\ home'[doomed] = home[doomed]
        /\ proc'[doomed] \notin {"unborn", "reaped"}
    BY <2>2, BornStays DEF Unreaped, NoneReaped
  <2>4. \A c \in Storing' : child'[c] # doomed
    BY <2>2 DEF Unreaped
  <2> QED BY <2>2, <2>3, <2>4 DEF Unreaped
<1> QED BY <1>1, <1>2

(* Only terminate_worker tells a worker to stop.                           *)
LEMMA OthersKeepTold ==
  ASSUME Next, ~Start, ~Terminate, ~Reap
  PROVE  /\ told' = told /\ run' = run
         /\ \/ server' \in {"aborted", "killed"}
            \/ server \notin {"aborted", "killed"} /\ server # "waitpid"
            \/ server' = server /\ doomed' = doomed
<1> DEFINE Kept ==
             /\ told' = told /\ run' = run
             /\ \/ server' \in {"aborted", "killed"}
                \/ server \notin {"aborted", "killed"} /\ server # "waitpid"
                \/ server' = server /\ doomed' = doomed
<1> USE DEF main, processes, Outside, Server
<1>1. CASE ServerStep
  BY <1>1
     DEF ServerStep, Unlink, CreateShm, CreateSemaphores, SpawnInitial,
         Forked, SpawnFails, StartMonitor, Bind, StopMonitor, Join,
         RequestShutdown, PassOver, Clear, Abort, UnlinkSems, Exit, EndsAs
<1>2. CASE \/ Kill \/ Undefined
           \/ Interrupt \/ MonitorLooks \/ MonitorSleeps
  BY <1>2
     DEF Kill, Undefined, EndsAs, Interrupt, MonitorLooks, MonitorSleeps
<1>3. ASSUME NEW c \in Clients, Accept(c) \/ ThreadStep(c)
      PROVE  Kept
  BY <1>3
     DEF Accept, ThreadStep, Dismiss, Assign, SpawnByThread, Forked,
         StoreByThread, EnqueueRequest, Close
<1>4. ASSUME NEW p \in Pids, WorkerStep(p) \/ EndWait(p)
      PROVE  Kept
  BY <1>4
     DEF WorkerStep, LoadModel, OpenShm, OpenSemaphores, LoopHead,
         TakeNothing, BreakOff, TakeRequest, Answer, EndWait
<1> QED BY <1>1, <1>2, <1>3, <1>4 DEF Next

LEMMA ToldAwaitedPreserved ==
  ASSUME LifeInv, Next
  PROVE  ToldAwaited'
<1>t. LifeType /\ ProcessesOwn /\ ToldAwaited
  BY DEF LifeInv
<1>1. CASE Start
  <2>1. /\ run' = run + 1 /\ parent' = parent /\ told' = told /\ proc' = proc
    BY <1>1 DEF Start, processes
  <2>2. \A p \in Pids : parent'[p] # run'
    BY <2>1, <1>t DEF ProcessesOwn, LifeType
  <2> QED BY <2>1, <2>2, <1>t DEF ToldAwaited
<1>2. CASE Terminate
  <2>1. /\ victim \in Deployed /\ doomed' = table[victim]
        /\ server = "cleanup" /\ server' = "waitpid"
        /\ told' = [told EXCEPT ![doomed'] = TRUE]
        /\ run' = run /\ parent' = parent
        /\ \A p \in Pids : /\ proc'[p] = "unborn" => proc[p] = "unborn"
                           /\ proc[p] = "reaped" => proc'[p] = "reaped"
    BY <1>2, <1>t DEF Terminate, Signal, Server, LifeType
  <2>2. proc[doomed'] # "unborn" /\ doomed' \in Pids
    BY <2>1 DEF LifeInv, WorkersPlaced, Unreaped
  <2>3. proc'[doomed'] # "unborn"
    BY <2>1, <2>2
  <2> QED BY <2>1, <2>3, <1>t DEF ToldAwaited, LifeType
<1>3. CASE Reap
  <2>1. /\ server = "waitpid" /\ proc' = [proc EXCEPT ![doomed] = "reaped"]
        /\ told' = told /\ run' = run /\ parent' = parent
    BY <1>3 DEF Reap, Server
  <2> QED BY <2>1, <1>t DEF ToldAwaited, LifeType
<1>4. CASE ~Start /\ ~Terminate /\ ~Reap
  <2>1. /\ told' = told /\ run' = run
        /\ \/ server' \in {"aborted", "killed"}
           \/ server \notin {"aborted", "killed"} /\ server # "waitpid"
           \/ server' = server /\ doomed' = doomed
    BY <1>4, OthersKeepTold
  <2>2. \A p \in Pids : proc'[p] = "unborn" => proc[p] = "unborn"
    BY BornStays
  <2>3. ASSUME NEW p \in Pids, parent'[p] = run', told'[p]
        PROVE  /\ proc[p] # "unborn" /\ parent[p] = run /\ told[p]
               /\ proc[p] = "reaped" => proc'[p] = "reaped"
    BY <2>1, <2>3, <1>t, BornStays DEF ToldAwaited
  <2> QED BY <2>1, <2>2, <2>3, <1>t DEF ToldAwaited
<1> QED BY <1>1, <1>2, <1>3, <1>4

-----------------------------------------------------------------------------
LEMMA LifeInvInit == Init => LifeInv
<1>0. SUFFICES ASSUME Init PROVE LifeInv
  OBVIOUS
<1> USE <1>0, LifecycleAssumption DEF Init, LifecycleAssumption
<1>1. LifeType
  <2>1. 0 \in Indices /\ 0 \in 0 .. MAX_RUNS
    BY DEF Indices
  <2>2. items \in Counts /\ shutdown_flag \in [Runs -> BOOLEAN]
    BY DEF Counts
  <2>3. /\ table \in [Indices -> Pids \cup {NoPid}] /\ known \in SUBSET Pids
        /\ child \in [Clients -> Pids \cup {NoPid}]
        /\ at \in [Clients -> Indices] /\ home \in [Pids -> Indices]
    BY <2>1
  <2>4. /\ parent \in [Pids -> 0 .. MAX_RUNS] /\ shm \in [Pids -> 0 .. MAX_RUNS]
        /\ sems \in [Pids -> 0 .. MAX_RUNS]
    BY <2>1 DEF Nobody
  <2> QED BY <2>1, <2>2, <2>3, <2>4
      DEF LifeType, ServerStages, Down, ThreadStages, ProcStages, Nobody
<1>2. Threads = {} /\ Storing = {} /\ Deployed = {}
  BY DEF Threads, Storing, Deployed
<1>3. ThreadsCounted /\ WorkersPlaced
  BY <1>2 DEF ThreadsCounted, WorkersPlaced, Down
<1>4. /\ NamesOwn /\ DoomedHeld /\ KnownFollowed /\ KnownAccounted
      /\ ToldAwaited /\ ItemsOwn
  BY DEF NamesOwn, DoomedHeld, KnownFollowed, KnownAccounted, ToldAwaited,
         ItemsOwn, Down, Creating, Running, Cleaning
<1>5. ProcessesOwn
  BY DEF ProcessesOwn, Creating, Early, Looping, Nobody
<1> QED BY <1>1, <1>3, <1>4, <1>5 DEF LifeInv

LEMMA LifeInvPreserved == LifeInv /\ [Next]_vars => LifeInv'
<1>1. ASSUME LifeInv, Next PROVE LifeInv'
  BY <1>1, LifeTypePreserved, ThreadsCountedPreserved, NamesOwnPreserved,
     ProcessesOwnPreserved, WorkersPlacedPreserved, DoomedHeldPreserved,
     KnownFollowedPreserved, KnownAccountedPreserved, ToldAwaitedPreserved,
     ItemsOwnPreserved
     DEF LifeInv
<1>2. ASSUME LifeInv, UNCHANGED vars PROVE LifeInv'
  BY <1>2
     DEF vars, main, monitoring, names, objects, processes, connections,
         LifeInv, LifeType, ThreadsCounted, Threads, NamesOwn, ProcessesOwn,
         WorkersPlaced, DoomedHeld, Unreaped, Storing, InTable, Deployed,
         KnownFollowed, KnownAccounted, ToldAwaited, Forgotten, ItemsOwn,
         Strangers, Queued
<1> QED BY <1>1, <1>2

LEMMA LifeInvariant == Spec => []LifeInv
BY LifeInvInit, LifeInvPreserved, PTL DEF Spec

-----------------------------------------------------------------------------
(* The count of the accept loop is the number of threads, whenever threads *)
(* that are not joined end, and the limit is kept.                         *)
THEOREM ConnectionsAreCounted == Spec => []ConnectionsCounted
<1>1. LifeInv => ConnectionsCounted
  BY DEF LifeInv, ThreadsCounted, ConnectionsCounted
<1> QED BY <1>1, LifeInvariant, PTL

(* A clean-up that ends has waited for every worker of the table when      *)
(* shutdown was requested, but for one that it has not told to stop        *)
(* because a thread had replaced it.                                       *)
THEOREM KnownAreReaped == Spec => []KnownReaped
<1>1. LifeInv => KnownReaped
  BY DEF LifeInv, KnownAccounted, KnownFollowed, ToldAwaited, LifeType,
         KnownReaped
<1> QED BY <1>1, LifeInvariant, PTL

(* After any number of starts and crashes, a server that is up has objects *)
(* of its own, and semaphores that count its own requests unless a worker  *)
(* of an earlier one has opened them.                                      *)
THEOREM ObjectsAreFresh == Spec => []FreshObjects
<1>1. LifeInv => FreshObjects
  <2>1. SUFFICES ASSUME LifeInv, server \in Running
                 PROVE  /\ shm_name = run /\ sem_names = run
                        /\ ~shutdown_flag[run]
                        /\ Strangers = {} =>
                             \A i \in Indices :
                               items[run][i] = Cardinality(Queued(i))
    BY DEF FreshObjects, Running
  <2>2. server \notin Creating \cup Down
    BY <2>1 DEF Running, Creating, Down
  <2> QED BY <2>1, <2>2 DEF LifeInv, NamesOwn, ItemsOwn
<1> QED BY <1>1, LifeInvariant, PTL

(* However earlier servers ended, a worker that the latest server forked   *)
(* and that is in its loop uses that server's shared memory.               *)
THEOREM WorkersUseOwnMemory ==
  Spec => [](\A p \in Pids :
               proc[p] \in Looping /\ parent[p] = run => shm[p] = run)
<1>1. LifeInv => \A p \in Pids :
                   proc[p] \in Looping /\ parent[p] = run => shm[p] = run
  BY DEF LifeInv, ProcessesOwn
<1> QED BY <1>1, LifeInvariant, PTL
=============================================================================
