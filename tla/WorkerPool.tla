----------------------------- MODULE WorkerPool -----------------------------
(***************************************************************************)
(* WorkerManager (src/src/server/worker_manager.cpp): the table of worker  *)
(* processes, which the client threads use to choose a worker, to spawn    *)
(* one, and to note that a request starts or completes, and from which the *)
(* monitor thread removes workers.  No lock protects it.                   *)
(*                                                                         *)
(* A request's way through ring and slot (Pipeline) is cut down to: it     *)
(* waits in the ring of an index until a process of that index takes it,   *)
(* and is answered unless the process ends first.  A step is an access to  *)
(* a shared counter or to an entry of the table, or a scan of the table;   *)
(* sleeping, reading clocks and printing are left out.                     *)
(***************************************************************************)
EXTENDS Integers, FiniteSets

CONSTANTS
  Threads,      \* client threads; each dispatches one request
  Monitor,      \* the monitor thread
  MAX_WORKERS,  \* entries of the table
  min_workers, max_workers,
  MAX_FORKS,    \* bound: process ids there are
  MAX_CRASHES   \* bound: worker processes that end by themselves

ASSUME PoolAssumption ==
  /\ IsFiniteSet(Threads) /\ Monitor \notin Threads
  /\ MAX_WORKERS \in Nat \ {0}
  /\ min_workers \in 1 .. MAX_WORKERS /\ max_workers \in 1 .. MAX_WORKERS
  /\ MAX_FORKS \in Nat /\ min_workers <= MAX_FORKS
  /\ MAX_CRASHES \in Nat

VARIABLES
  pid,                   \* workers[i]->pid, or NoPid for a null entry
  is_active, long_idle,  \* workers[i]->is_active; last_activity is long ago
  active_worker_count, pending_requests,
  round_robin_counter,   \* modulo MAX_WORKERS
  proc, home,            \* the children of the server: state, --index
  serving,               \* the requests a process has taken: none or one
  crashes,
  pc, worker_index,        \* of a thread: control and locals;
  tries, min_queue_size,   \* the turns its loops have made; -1 for none;
  forked,                  \* the local pid
  scaling,  \* the monitor terminates a worker to scale down
  fresh     \* history: threads that began since the monitor looked

table == <<pid, is_active, long_idle>>
counters == <<active_worker_count, pending_requests>>
procs == <<proc, home, serving, crashes>>
locals == <<worker_index, tries, min_queue_size, forked>>
monitorVars == <<scaling, fresh>>
vars == <<table, counters, round_robin_counter, procs, pc, locals, monitorVars>>

Indices == 0 .. MAX_WORKERS - 1
Actors == Threads \cup {Monitor}
Pids == 1 .. MAX_FORKS
NoPid == 0

is_worker_deployed(i) == pid[i] # NoPid
Deployed == {i \in Indices : is_worker_deployed(i)}

(* Mutant: an entry that is null counts as idle.                           *)
IdleUnchecked == {i \in Indices : ~is_active[i]}

Idle == {i \in Deployed : ~is_active[i]}

Lowest(S) == CHOOSE i \in S : \A j \in S : i <= j
Highest(S) == CHOOSE i \in S : \A j \in S : i >= j

(* initialize: the minimum number of workers, one after the other.         *)
Init ==
  /\ pid = [i \in Indices |-> IF i < min_workers THEN i + 1 ELSE NoPid]
  /\ is_active = [i \in Indices |-> FALSE]
  /\ long_idle = [i \in Indices |-> FALSE]
  /\ active_worker_count = min_workers
  /\ pending_requests = 0
  /\ round_robin_counter = 0
  /\ proc = [p \in Pids |-> IF p <= min_workers THEN "running" ELSE "unborn"]
  /\ home = [p \in Pids |-> IF p <= min_workers THEN p - 1 ELSE 0]
  /\ serving = [p \in Pids |-> {}]
  /\ crashes = 0
  /\ pc = [a \in Actors |-> IF a = Monitor THEN "sleep" ELSE "new"]
  /\ worker_index = [a \in Actors |-> 0]
  /\ tries = [t \in Threads |-> 0]
  /\ min_queue_size = [t \in Threads |-> -1]
  /\ forked = [a \in Actors |-> NoPid]
  /\ scaling = FALSE
  /\ fresh = {}

Goto(a, from, to) == pc[a] = from /\ pc' = [pc EXCEPT ![a] = to]
At(a) == worker_index[a]

-----------------------------------------------------------------------------
(* assign_task_to_worker in thread t                                       *)

Arrive(t) ==
  /\ Goto(t, "new", "scan")
  /\ UNCHANGED <<table, counters, round_robin_counter, procs, locals, monitorVars>>

(* One turn of the round-robin loop.                                       *)
Probe(t) ==
  /\ pc[t] = "scan" /\ tries[t] < MAX_WORKERS
  /\ round_robin_counter' = (round_robin_counter + 1) % MAX_WORKERS
  /\ tries' = [tries EXCEPT ![t] = @ + 1]

FoundIdle(t) ==
  /\ Probe(t) /\ round_robin_counter \in Idle
  /\ Goto(t, "scan", "start")
  /\ worker_index' = [worker_index EXCEPT ![t] = round_robin_counter]
  /\ UNCHANGED <<table, counters, procs, min_queue_size, forked, monitorVars>>

NotIdle(t) ==
  /\ Probe(t) /\ round_robin_counter \notin Idle
  /\ UNCHANGED <<table, counters, procs, pc, worker_index, min_queue_size, forked,
                 monitorVars>>

Vacant == Indices \ Deployed

RoomToGrow == active_worker_count < max_workers

LookForRoom(t) ==
  /\ tries[t] = MAX_WORKERS
  /\ Goto(t, "scan", IF RoomToGrow THEN "grow" ELSE "least")
  /\ UNCHANGED <<table, counters, round_robin_counter, procs, locals, monitorVars>>

(* Other threads may have spawned workers since this one looked for room.  *)
ScaleUp(t) ==
  /\ Vacant # {}
  /\ Goto(t, "grow", "spawn")
  /\ worker_index' = [worker_index EXCEPT ![t] = Lowest(Vacant)]
  /\ UNCHANGED <<table, counters, round_robin_counter, procs, tries,
                 min_queue_size, forked, monitorVars>>

NoScaleUp(t) ==
  /\ Vacant = {}
  /\ Goto(t, "grow", "least")
  /\ UNCHANGED <<table, counters, round_robin_counter, procs, locals, monitorVars>>

(* get_request_queue_size: the requests posted and not yet taken.          *)
QueueSize(i) == Cardinality({t \in Threads : pc[t] = "queued" /\ At(t) = i})

(* One turn of find_least_loaded_worker, which starts at index 0 again.    *)
CompareQueue(t) ==
  /\ pc[t] = "least" /\ tries[t] < 2 * MAX_WORKERS
  /\ tries' = [tries EXCEPT ![t] = @ + 1]
  /\ LET i == tries[t] % MAX_WORKERS
         shorter == /\ is_worker_deployed(i)
                    /\ min_queue_size[t] = -1 \/ QueueSize(i) < min_queue_size[t]
     IN  /\ worker_index' = [worker_index EXCEPT ![t] = IF shorter THEN i ELSE @]
         /\ min_queue_size' =
              [min_queue_size EXCEPT ![t] = IF shorter THEN QueueSize(i) ELSE @]
  /\ UNCHANGED <<table, counters, round_robin_counter, procs, pc, forked,
                 monitorVars>>

(* -1, and an error for the client, if it found none.                      *)
ReturnLeast(t) ==
  /\ tries[t] = 2 * MAX_WORKERS
  /\ Goto(t, "least", IF min_queue_size[t] = -1 THEN "failed" ELSE "start")
  /\ min_queue_size' = [min_queue_size EXCEPT ![t] = -1]
  /\ UNCHANGED <<table, counters, round_robin_counter, procs, worker_index,
                 tries, forked, monitorVars>>

-----------------------------------------------------------------------------
(* spawn_worker(worker_index) in thread a                                  *)

Spawned(a) == IF a = Monitor THEN "restart" ELSE "start"

SpawnNeedless(a) ==
  /\ is_worker_deployed(At(a))
  /\ Goto(a, "spawn", Spawned(a))
  /\ UNCHANGED <<table, counters, round_robin_counter, procs, locals, monitorVars>>

Fork(a) ==
  /\ ~is_worker_deployed(At(a))
  /\ Goto(a, "spawn", "store")
  /\ \E p \in Pids :
       /\ proc[p] = "unborn" /\ \A q \in 1 .. p - 1 : proc[q] # "unborn"
       /\ proc' = [proc EXCEPT ![p] = "running"]
       /\ home' = [home EXCEPT ![p] = At(a)]
       /\ forked' = [forked EXCEPT ![a] = p]
  /\ UNCHANGED <<table, counters, round_robin_counter, serving, crashes,
                 worker_index, tries, min_queue_size, monitorVars>>

ForkFails(a) ==
  /\ ~is_worker_deployed(At(a))
  /\ Goto(a, "spawn", IF a = Monitor THEN "restart" ELSE "least")
  /\ UNCHANGED <<table, counters, round_robin_counter, procs, locals, monitorVars>>

StoreWorker(a) ==
  /\ Goto(a, "store", "count")
  /\ pid' = [pid EXCEPT ![At(a)] = forked[a]]
  /\ is_active' = [is_active EXCEPT ![At(a)] = FALSE]
  /\ long_idle' = [long_idle EXCEPT ![At(a)] = FALSE]
  /\ UNCHANGED <<counters, round_robin_counter, procs, locals, monitorVars>>

CountWorker(a) ==
  /\ Goto(a, "count", Spawned(a))
  /\ active_worker_count' = active_worker_count + 1
  /\ UNCHANGED <<table, pending_requests, round_robin_counter, procs, locals,
                 monitorVars>>

SpawnStep(a) ==
  SpawnNeedless(a) \/ Fork(a) \/ ForkFails(a) \/ StoreWorker(a) \/ CountWorker(a)

-----------------------------------------------------------------------------
(* on_request_start, the request, on_request_complete                      *)

Start(t) ==
  /\ Goto(t, "start", "activate")
  /\ pending_requests' = pending_requests + 1
  /\ fresh' = fresh \cup {t}
  /\ UNCHANGED <<table, active_worker_count, round_robin_counter, procs, locals,
                 scaling>>

(* is_active and last_activity, if the entry is not null.                  *)
MarkWorker(i, active) ==
  /\ is_active' = IF is_worker_deployed(i)
                    THEN [is_active EXCEPT ![i] = active] ELSE is_active
  /\ long_idle' = IF is_worker_deployed(i)
                    THEN [long_idle EXCEPT ![i] = FALSE] ELSE long_idle
  /\ UNCHANGED pid

Activate(t) ==
  /\ Goto(t, "activate", "enqueue")
  /\ MarkWorker(At(t), TRUE)
  /\ UNCHANGED <<counters, round_robin_counter, procs, locals, monitorVars>>

Enqueue(t) ==
  /\ Goto(t, "enqueue", "queued")
  /\ UNCHANGED <<table, counters, round_robin_counter, procs, locals, monitorVars>>

(* Mutant: the clean-up on failure is followed by the one at the end.      *)
EnqueueFailsTwice(t) ==
  /\ Goto(t, "enqueue", "answered")
  /\ pending_requests' = pending_requests - 1
  /\ UNCHANGED <<table, active_worker_count, round_robin_counter, procs,
                 locals, monitorVars>>

EnqueueFails(t) ==
  /\ Goto(t, "enqueue", "answered")
  /\ UNCHANGED <<table, counters, round_robin_counter, procs, locals, monitorVars>>

Complete(t) ==
  /\ Goto(t, "answered", "deactivate")
  /\ pending_requests' = pending_requests - 1
  /\ UNCHANGED <<table, active_worker_count, round_robin_counter, procs,
                 locals, monitorVars>>

Deactivate(t) ==
  /\ Goto(t, "deactivate", "done")
  /\ MarkWorker(At(t), FALSE)
  /\ UNCHANGED <<counters, round_robin_counter, procs, locals, monitorVars>>

-----------------------------------------------------------------------------
(* A worker process p                                                      *)

Alive(p) == proc[p] \in {"running", "stopping"}

(* A process told to stop while it waits in sem_wait goes on waiting: the  *)
(* handler is installed by signal(), which restarts the call.              *)
Take(p, t) ==
  /\ Alive(p) /\ serving[p] = {}
  /\ At(t) = home[p]
  /\ Goto(t, "queued", "taken")
  /\ serving' = [serving EXCEPT ![p] = {t}]
  /\ UNCHANGED <<table, counters, round_robin_counter, proc, home, crashes,
                 locals, monitorVars>>

(* The last chunk is received; the worker looks at keep_running.           *)
Answer(p, t) ==
  /\ Alive(p) /\ serving[p] = {t}
  /\ Goto(t, "taken", "answered")
  /\ serving' = [serving EXCEPT ![p] = {}]
  /\ proc' = [proc EXCEPT ![p] = IF @ = "stopping" THEN "zombie" ELSE @]
  /\ UNCHANGED <<table, counters, round_robin_counter, home, crashes, locals,
                 monitorVars>>

(* The process ends by itself; its request gets no further chunk.          *)
Crash(p) ==
  /\ Alive(p) /\ crashes < MAX_CRASHES
  /\ crashes' = crashes + 1
  /\ proc' = [proc EXCEPT ![p] = "zombie"]
  /\ serving' = [serving EXCEPT ![p] = {}]
  /\ UNCHANGED <<table, counters, round_robin_counter, home, pc, locals, monitorVars>>

-----------------------------------------------------------------------------
(* The monitor thread: check_and_scale, restart_unhealthy_workers          *)

MonitorGoto(from, to) == Goto(Monitor, from, to)

(* should_scale_down, its first half: no request is pending.               *)
ScaleDownThreshold == 1

(* Mutant: one pending request is few enough.                              *)
CheckPendingLoose ==
  /\ MonitorGoto("sleep", IF pending_requests <= ScaleDownThreshold
                            THEN "count_idle" ELSE "restart")
  /\ fresh' = {}
  /\ UNCHANGED <<table, counters, round_robin_counter, procs, locals, scaling>>

CheckPending ==
  /\ MonitorGoto("sleep", IF pending_requests < ScaleDownThreshold
                            THEN "count_idle" ELSE "restart")
  /\ fresh' = {}
  /\ UNCHANGED <<table, counters, round_robin_counter, procs, locals, scaling>>

(* Mutant: one idle worker is enough.                                      *)
CountIdleOne ==
  /\ MonitorGoto("count_idle",
                 IF Cardinality(Idle) > 0 THEN "find" ELSE "restart")
  /\ UNCHANGED <<table, counters, round_robin_counter, procs, locals, monitorVars>>

CountIdle ==
  /\ MonitorGoto("count_idle",
                 IF Cardinality(Idle) > 1 THEN "find" ELSE "restart")
  /\ UNCHANGED <<table, counters, round_robin_counter, procs, locals, monitorVars>>

Expired == {i \in Idle : long_idle[i]}

FindExpired ==
  /\ Expired # {}
  /\ MonitorGoto("find", "terminate")
  /\ worker_index' = [worker_index EXCEPT ![Monitor] = Highest(Expired)]
  /\ scaling' = TRUE
  /\ UNCHANGED <<table, counters, round_robin_counter, procs, tries,
                 min_queue_size, forked, fresh>>

NoneExpired ==
  /\ Expired = {}
  /\ MonitorGoto("find", "restart")
  /\ UNCHANGED <<table, counters, round_robin_counter, procs, locals, monitorVars>>

(* terminate_worker: SIGTERM, then, at most 200 ms later, SIGKILL if it is *)
(* still there; either way the process is waited for.                      *)
Terminate ==
  /\ MonitorGoto("terminate", "reap")
  /\ LET p == pid[At(Monitor)] IN
       /\ forked' = [forked EXCEPT ![Monitor] = p]
       /\ proc' = [proc EXCEPT ![p] = IF @ = "running" THEN "stopping" ELSE @]
  /\ UNCHANGED <<table, counters, round_robin_counter, home, serving, crashes,
                 worker_index, tries, min_queue_size, monitorVars>>

Reap ==
  /\ MonitorGoto("reap", "reset")
  /\ proc' = [proc EXCEPT ![forked[Monitor]] = "reaped"]
  /\ serving' = [serving EXCEPT ![forked[Monitor]] = {}]
  /\ UNCHANGED <<table, counters, round_robin_counter, home, crashes, locals,
                 monitorVars>>

Reset ==
  /\ MonitorGoto("reset", "uncount")
  /\ pid' = [pid EXCEPT ![At(Monitor)] = NoPid]
  /\ UNCHANGED <<is_active, long_idle, counters, round_robin_counter, procs,
                 locals, monitorVars>>

(* Mutant: the counter is left as it was.                                  *)
UncountForgotten ==
  /\ MonitorGoto("uncount", "restart")
  /\ UNCHANGED <<table, counters, round_robin_counter, procs, locals, monitorVars>>

(* A worker removed for its health is replaced if too few are left.        *)
Uncount ==
  /\ MonitorGoto("uncount",
                 IF ~scaling /\ active_worker_count - 1 < min_workers
                   THEN "spawn" ELSE "restart")
  /\ active_worker_count' = active_worker_count - 1
  /\ UNCHANGED <<table, pending_requests, round_robin_counter, procs, locals,
                 monitorVars>>

(* kill(pid, 0) succeeds for every child that has not been waited for.     *)
is_worker_healthy(i) == proc[pid[i]] # "reaped"
Unhealthy == {i \in Deployed : ~is_worker_healthy(i)}

restart_unhealthy_workers ==
  /\ MonitorGoto("restart", IF Unhealthy = {} THEN "sleep" ELSE "terminate")
  /\ worker_index' = [worker_index EXCEPT
                        ![Monitor] = IF Unhealthy = {} THEN @ ELSE Lowest(Unhealthy)]
  /\ scaling' = FALSE
  /\ UNCHANGED <<table, counters, round_robin_counter, procs, tries,
                 min_queue_size, forked, fresh>>

MonitorStep ==
  \/ CheckPending \/ CountIdle \/ FindExpired \/ NoneExpired
  \/ Terminate \/ Reap \/ Reset \/ Uncount
  \/ restart_unhealthy_workers
  \/ SpawnStep(Monitor)

(* WORKER_IDLE_TIMEOUT passes: 10 s, longer than any thread stays away     *)
(* from a place where it may wait.                                         *)
Expire(i) ==
  /\ i \in Deployed /\ ~long_idle[i]
  /\ pc[Monitor] = "sleep"
  /\ \A t \in Threads : pc[t] \in {"new", "queued", "taken", "done", "failed"}
  /\ long_idle' = [long_idle EXCEPT ![i] = TRUE]
  /\ UNCHANGED <<pid, is_active, counters, round_robin_counter, procs, pc,
                 locals, monitorVars>>

-----------------------------------------------------------------------------
ThreadStep(t) ==
  \/ FoundIdle(t) \/ NotIdle(t)
  \/ LookForRoom(t) \/ ScaleUp(t) \/ NoScaleUp(t)
  \/ CompareQueue(t) \/ ReturnLeast(t) \/ SpawnStep(t)
  \/ Start(t) \/ Activate(t) \/ Enqueue(t) \/ EnqueueFails(t)
  \/ Complete(t) \/ Deactivate(t)

WorkerStep(p) == \E t \in Threads : Take(p, t) \/ Answer(p, t)

Next ==
  \/ \E t \in Threads : Arrive(t) \/ ThreadStep(t)
  \/ \E p \in Pids : WorkerStep(p) \/ Crash(p)
  \/ MonitorStep
  \/ \E i \in Indices : Expire(i)

Spec == Init /\ [][Next]_vars

(* Threads and processes are scheduled.  Clients may stay away, processes  *)
(* need not end, and workers need not become idle.                         *)
FairSpec ==
  /\ Spec
  /\ \A t \in Threads : WF_vars(ThreadStep(t))
  /\ \A p \in Pids : WF_vars(WorkerStep(p))
  /\ WF_vars(MonitorStep)

-----------------------------------------------------------------------------
(* Properties *)

Spawning == {"spawn", "store", "count"}
Open == {"activate", "enqueue", "queued", "taken", "answered"}
Terminating == {"terminate", "reap", "reset"}

(* Every variable has its type.                                            *)
TypeOK ==
  /\ pid \in [Indices -> Pids \cup {NoPid}]
  /\ is_active \in [Indices -> BOOLEAN]
  /\ long_idle \in [Indices -> BOOLEAN]
  /\ active_worker_count \in Nat /\ pending_requests \in Nat
  /\ round_robin_counter \in Indices
  /\ proc \in [Pids -> {"unborn", "running", "stopping", "zombie", "reaped"}]
  /\ home \in [Pids -> Indices]
  /\ serving \in [Pids -> SUBSET Threads]
  /\ crashes \in 0 .. MAX_CRASHES
  /\ pc \in [Actors -> {"new", "scan", "grow", "least", "start", "deactivate",
                        "done", "failed", "sleep", "count_idle", "find",
                        "uncount", "restart"}
                         \cup Spawning \cup Open \cup Terminating]
  /\ worker_index \in [Actors -> Indices]
  /\ tries \in [Threads -> 0 .. 2 * MAX_WORKERS]
  /\ min_queue_size \in [Threads -> Int]
  /\ forked \in [Actors -> Pids \cup {NoPid}]
  /\ scaling \in BOOLEAN
  /\ fresh \subseteq Threads

(* active_worker_count is exact about child processes, also when two       *)
(* threads spawn a worker for one index and the table forgets one of them: *)
(* it counts the children not waited for, up to forks and removals under   *)
(* way.                                                                    *)
Children == {p \in Pids : proc[p] \notin {"unborn", "reaped"}}

ChildrenCounted ==
  active_worker_count + Cardinality({a \in Actors : pc[a] \in {"store", "count"}})
    = Cardinality(Children) + (IF pc[Monitor] \in {"reset", "uncount"} THEN 1 ELSE 0)

(* The table never runs empty: scaling down leaves an idle worker,         *)
(* whatever threads and the monitor do to each other.                      *)
AlwaysAWorker == Deployed # {}

(* is_active is a flag and is cleared by the first of several requests to  *)
(* complete, but scaling down does not rest on it alone: a worker being    *)
(* removed has no request that was open when the monitor looked.           *)
ScaleDownSparesOpen ==
  scaling /\ pc[Monitor] \in Terminating =>
    \A t \in Threads :
      pc[t] \in Open /\ At(t) = At(Monitor) => t \in fresh

(* A request that waits has a live process of its index to take it, and    *)
(* one that was taken is with a live process of its index, which serves no *)
(* other, or else a process of that index has ended: however the choice,   *)
(* the search, forks for one index by several threads and removals meet,   *)
(* no request is given to an index without a process.                      *)
EndedAt(i) == \E p \in Pids : home[p] = i /\ proc[p] \in {"zombie", "reaped"}

ServedUnlessEnded ==
  \A t \in Threads :
    pc[t] \in {"queued", "taken"} /\ ~EndedAt(At(t)) =>
      \E p \in Pids :
        /\ Alive(p) /\ home[p] = At(t)
        /\ pc[t] = "taken" => serving[p] = {t}

(* "Check if process is still alive" (worker_manager.cpp:274): a worker    *)
(* process that has ended does not stay in the table.                      *)
DeadIsRemoved ==
  \A i \in Indices, p \in Pids :
    (pid[i] = p /\ proc[p] = "zombie") ~> pid[i] # p
=============================================================================
