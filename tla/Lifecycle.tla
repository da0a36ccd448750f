----------------------------- MODULE Lifecycle -----------------------------
(***************************************************************************)
(* The server from start to end and from one start to the next: main and   *)
(* HttpInferenceServer::run (src/src/main_server.cpp), TaskDispatcher's    *)
(* initialize and destructor (server/task_dispatcher.cpp), WorkerManager's *)
(* initialize and cleanup (server/worker_manager.cpp), the names of the    *)
(* IPC objects (ipc/ipc_utils.cpp) and a worker's way in and out           *)
(* (worker/worker_main.cpp).  One server runs at a time; run counts them,  *)
(* and an IPC object is known by the run that created it.                  *)
(*                                                                         *)
(* Requests are cut down to waiting at an index and being answered         *)
(* (Pipeline), the monitor to being asleep or busy with the table          *)
(* (WorkerPool).  A step is one that another process or thread can tell    *)
(* from the next.                                                          *)
(***************************************************************************)
EXTENDS Naturals, FiniteSets

CONSTANTS
  Clients,
  MAX_WORKERS, min_workers,
  MAX_CONNECTIONS,  \* as config.txt has it
  MAX_RUNS,    \* bound: starts of the server
  MAX_FORKS,   \* bound: worker processes of all runs
  MAX_KILLS    \* bound: servers that are killed or crash while they run

ASSUME LifecycleAssumption ==
  /\ IsFiniteSet(Clients)
  /\ MAX_WORKERS \in Nat \ {0} /\ min_workers \in 1 .. MAX_WORKERS
  /\ MAX_CONNECTIONS \in Nat /\ MAX_RUNS \in Nat
  /\ MAX_FORKS \in Nat /\ min_workers <= MAX_FORKS /\ MAX_KILLS \in Nat

VARIABLES
  run, server, kills,      \* starts so far; where the main thread is
  interrupted,             \* global_shutdown_flag
  monitor, should_stop_monitoring,
  shm_name, sem_names,     \* whose object a name leads to, or Nobody
  shutdown_flag, items,    \* in the objects of a run; items by index
  table, victim, doomed,   \* workers[i]->pid; cleanup's index; its pid
  proc, parent, home,      \* a worker process: state, run, --index,
  told, shm, sems,         \* SIGTERM handled; whose objects it has opened
  active_connections_,
  thread, at, child,       \* a client's thread: control, worker_index, pid
  known                    \* history: the table when shutdown was requested

main == <<run, server, kills, interrupted>>
monitoring == <<monitor, should_stop_monitoring>>
names == <<shm_name, sem_names>>
objects == <<shutdown_flag, items>>
processes == <<proc, parent, home, told, shm, sems>>
connections == <<active_connections_, thread, at, child>>
vars == <<main, monitoring, names, objects, table, victim, doomed,
          processes, connections, known>>

Runs == 1 .. MAX_RUNS
Nobody == 0
Indices == 0 .. MAX_WORKERS - 1
Pids == 1 .. MAX_FORKS
NoPid == 0

Down == {"down", "exited", "aborted", "killed"}
Cleaning == {"cleanup", "waitpid", "clear"}
Deployed == {i \in Indices : table[i] # NoPid}
InTable == {table[i] : i \in Deployed}
Ended == {"zombie", "reaped"}
Early == {"forked", "opening", "opened"}
Looping == {"loop", "waiting", "serving", "stuck"}
Alive(p) == proc[p] \in Early \cup Looping

Init ==
  /\ run = 0 /\ server = "down" /\ kills = 0 /\ interrupted = FALSE
  /\ monitor = "none" /\ should_stop_monitoring = FALSE
  /\ shm_name = Nobody /\ sem_names = Nobody
  /\ shutdown_flag = [r \in Runs |-> FALSE]
  /\ items = [r \in Runs |-> [i \in Indices |-> 0]]
  /\ table = [i \in Indices |-> NoPid] /\ victim = 0 /\ doomed = NoPid
  /\ proc = [p \in Pids |-> "unborn"]
  /\ parent = [p \in Pids |-> Nobody] /\ home = [p \in Pids |-> 0]
  /\ told = [p \in Pids |-> FALSE]
  /\ shm = [p \in Pids |-> Nobody] /\ sems = [p \in Pids |-> Nobody]
  /\ active_connections_ = 0
  /\ thread = [c \in Clients |-> "away"]
  /\ at = [c \in Clients |-> 0] /\ child = [c \in Clients |-> NoPid]
  /\ known = {}

Server(from, to) == server = from /\ server' = to

-----------------------------------------------------------------------------
(* Start: main, TaskDispatcher::initialize, initializeSocket               *)

Start ==
  /\ server \in Down /\ run < MAX_RUNS
  /\ server' = "unlink" /\ run' = run + 1 /\ interrupted' = FALSE
  /\ monitor' = "none" /\ should_stop_monitoring' = FALSE
  /\ table' = [i \in Indices |-> NoPid] /\ victim' = 0 /\ doomed' = NoPid
  /\ active_connections_' = 0 /\ known' = {}
  /\ UNCHANGED <<kills, names, objects, processes, thread, at, child>>

(* Mutant: only the semaphores' names of the run before are removed.       *)
UnlinkSemaphores ==
  /\ Server("unlink", "create_shm")
  /\ sem_names' = Nobody
  /\ UNCHANGED <<run, kills, interrupted, monitoring, shm_name, objects, table,
                 victim, doomed, processes, connections, known>>

Unlink ==
  /\ Server("unlink", "create_shm")
  /\ shm_name' = Nobody /\ sem_names' = Nobody
  /\ UNCHANGED <<run, kills, interrupted, monitoring, objects, table, victim,
                 doomed, processes, connections, known>>

(* O_CREAT takes an object that has the name.                              *)
CreateShm ==
  /\ Server("create_shm", "create_sems")
  /\ shm_name' = IF shm_name = Nobody THEN run ELSE shm_name
  /\ shutdown_flag' = [shutdown_flag EXCEPT ![shm_name'] = FALSE]
  /\ UNCHANGED <<run, kills, interrupted, monitoring, sem_names, items, table,
                 victim, doomed, processes, connections, known>>

(* O_EXCL makes new ones, in any case.                                     *)
CreateSemaphores ==
  /\ Server("create_sems", "spawn")
  /\ sem_names' = run
  /\ items' = [items EXCEPT ![run] = [i \in Indices |-> 0]]
  /\ UNCHANGED <<run, kills, interrupted, monitoring, shm_name, shutdown_flag,
                 table, victim, doomed, processes, connections, known>>

(* fork, for index i: the next process id, in the child as in the parent.  *)
Forked(p, i) ==
  /\ proc[p] = "unborn" /\ \A q \in 1 .. p - 1 : proc[q] # "unborn"
  /\ proc' = [proc EXCEPT ![p] = "forked"]
  /\ parent' = [parent EXCEPT ![p] = run]
  /\ home' = [home EXCEPT ![p] = i]
  /\ UNCHANGED <<told, shm, sems>>

Missing == {i \in 0 .. min_workers - 1 : i \notin Deployed}

SpawnInitial ==
  /\ server = "spawn"
  /\ \E i \in Missing : \E p \in Pids :
       /\ \A j \in Missing : i <= j
       /\ Forked(p, i)
       /\ table' = [table EXCEPT ![i] = p]
  /\ UNCHANGED <<main, monitoring, names, objects, victim, doomed, connections,
                 known>>

(* initialize cleans up itself; the destructor does so once more, and may  *)
(* get through (Undefined).                                                *)
SpawnFails ==
  /\ Missing # {} /\ Server("spawn", "cleanup")
  /\ UNCHANGED <<run, kills, interrupted, monitoring, names, objects, table,
                 victim, doomed, processes, connections, known>>

StartMonitor ==
  /\ Missing = {} /\ Server("spawn", "bind")
  /\ monitor' = "asleep"
  /\ UNCHANGED <<run, kills, interrupted, should_stop_monitoring, names,
                 objects, table, victim, doomed, processes, connections,
                 known>>

(* The port may be taken: run returns at once, the monitor is not stopped. *)
Bind ==
  /\ \E to \in {"serving", "destroy"} : Server("bind", to)
  /\ UNCHANGED <<run, kills, interrupted, monitoring, names, objects, table,
                 victim, doomed, processes, connections, known>>

-----------------------------------------------------------------------------
(* The accept loop, and the thread of a client.  The loop looks at the     *)
(* flag before it waits, so a client may still come in after Ctrl+C; one   *)
(* that is refused is where it was, and a client may come back.            *)

Thread(c, from, to) == thread[c] = from /\ thread' = [thread EXCEPT ![c] = to]

(* main works out the lesser of it and 20, and does not pass that on.      *)
max_connections_ == MAX_CONNECTIONS

(* Mutant: one more is let in.                                             *)
FullLate == active_connections_ > max_connections_

Full == active_connections_ >= max_connections_

Accept(c) ==
  /\ server = "serving" /\ ~Full
  /\ Thread(c, "away", "reading")
  /\ active_connections_' = active_connections_ + 1
  /\ UNCHANGED <<main, monitoring, names, objects, table, victim, doomed,
                 processes, at, child, known>>

(* Another request than POST /process, or none that can be read.           *)
Dismiss(c) ==
  /\ Thread(c, "reading", "closing")
  /\ UNCHANGED <<main, monitoring, names, objects, table, victim, doomed,
                 processes, active_connections_, at, child, known>>

(* A worker in the table is chosen, or an index where there is none.       *)
Assign(c) ==
  /\ thread[c] = "reading"
  /\ \E i \in Indices :
       /\ at' = [at EXCEPT ![c] = i]
       /\ Thread(c, "reading", IF i \in Deployed THEN "enqueue" ELSE "spawn")
  /\ UNCHANGED <<main, monitoring, names, objects, table, victim, doomed,
                 processes, active_connections_, child, known>>

SpawnByThread(c) ==
  /\ Thread(c, "spawn", "store")
  /\ \E p \in Pids : Forked(p, at[c]) /\ child' = [child EXCEPT ![c] = p]
  /\ UNCHANGED <<main, monitoring, names, objects, table, victim, doomed,
                 active_connections_, at, known>>

StoreByThread(c) ==
  /\ Thread(c, "store", "enqueue")
  /\ table' = [table EXCEPT ![at[c]] = child[c]]
  /\ UNCHANGED <<main, monitoring, names, objects, victim, doomed, processes,
                 active_connections_, at, child, known>>

EnqueueRequest(c) ==
  /\ Thread(c, "enqueue", "queued")
  /\ items' = [items EXCEPT ![run][at[c]] = @ + 1]
  /\ UNCHANGED <<main, monitoring, names, shutdown_flag, table, victim, doomed,
                 processes, active_connections_, at, child, known>>

(* ~ConnectionGuard                                                        *)
Close(c) ==
  /\ Thread(c, "closing", "away")
  /\ at' = [at EXCEPT ![c] = 0] /\ child' = [child EXCEPT ![c] = NoPid]
  /\ active_connections_' = active_connections_ - 1
  /\ UNCHANGED <<main, monitoring, names, objects, table, victim, doomed,
                 processes, known>>

Threads == {c \in Clients : thread[c] # "away"}

ThreadStep(c) ==
  \/ Dismiss(c) \/ Assign(c) \/ SpawnByThread(c) \/ StoreByThread(c)
  \/ EnqueueRequest(c) \/ Close(c)

-----------------------------------------------------------------------------
(* A worker process                                                        *)

Becomes(p, from, to) == proc[p] = from /\ proc' = [proc EXCEPT ![p] = to]
Outside == <<main, monitoring, names, table, victim, doomed,
             active_connections_, at, child, known, parent, home>>

(* exec, then the constructor of TinyLLM, then the handler for SIGTERM.    *)
LoadModel(p) ==
  /\ Becomes(p, "forked", "opening")
  /\ UNCHANGED <<Outside, objects, thread, told, shm, sems>>

OpenShm(p) ==
  /\ Becomes(p, "opening", IF shm_name = Nobody THEN "zombie" ELSE "opened")
  /\ shm' = [shm EXCEPT ![p] = shm_name]
  /\ UNCHANGED <<Outside, objects, thread, told, sems>>

OpenSemaphores(p) ==
  /\ Becomes(p, "opened", IF sem_names = Nobody THEN "zombie" ELSE "loop")
  /\ sems' = [sems EXCEPT ![p] = sem_names]
  /\ UNCHANGED <<Outside, objects, thread, told, shm>>

(* Mutant: only a signal stops a worker.                                   *)
MayGoOnUnlessTold(p) == ~told[p]

MayGoOn(p) == ~told[p] /\ ~shutdown_flag[shm[p]]

LoopHead(p) ==
  /\ Becomes(p, "loop", IF MayGoOn(p) THEN "waiting" ELSE "zombie")
  /\ UNCHANGED <<Outside, objects, thread, told, shm, sems>>

TakeItem(p) ==
  /\ proc[p] = "waiting"
  /\ items[sems[p]][home[p]] > 0
  /\ items' = [items EXCEPT ![sems[p]][home[p]] = @ - 1]

Queued(i) == {c \in Clients : thread[c] = "queued" /\ at[c] = i}
Own(p) == IF shm[p] = run /\ sems[p] = run THEN Queued(home[p]) ELSE {}

TakeRequest(p, c) ==
  /\ TakeItem(p)
  /\ c \in Own(p)
  /\ Becomes(p, "waiting", "serving")
  /\ thread' = [thread EXCEPT ![c] = "taken"]
  /\ child' = [child EXCEPT ![c] = p]
  /\ UNCHANGED <<main, monitoring, names, table, victim, doomed,
                 active_connections_, at, known, parent, home, shutdown_flag,
                 told, shm, sems>>

(* An item without a request: the slot is empty, which is no payload, or   *)
(* has an old request, for which no thread takes the chunks.               *)
TakeNothing(p) ==
  /\ TakeItem(p)
  /\ Own(p) = {}
  /\ \E to \in {"loop", "stuck"} : Becomes(p, "waiting", to)
  /\ UNCHANGED <<Outside, shutdown_flag, thread, told, shm, sems>>

Answer(p, c) ==
  /\ thread[c] = "taken" /\ child[c] = p
  /\ Becomes(p, "serving", "loop")
  /\ thread' = [thread EXCEPT ![c] = "closing"]
  /\ UNCHANGED <<Outside, objects, told, shm, sems>>

(* is_shutdown_requested after a chunk: the request is left as it is.      *)
BreakOff(p) ==
  /\ Becomes(p, "serving", "zombie")
  /\ shutdown_flag[shm[p]]
  /\ UNCHANGED <<Outside, objects, thread, told, shm, sems>>

(* SIGTERM may end a wait where the system does not take it up again: for  *)
(* an item, or to send, which ends the request.                            *)
EndWait(p) ==
  /\ told[p]
  /\ Becomes(p, "waiting", "loop") \/ Becomes(p, "stuck", "zombie")
  /\ UNCHANGED <<Outside, objects, thread, told, shm, sems>>

WorkerStep(p) ==
  \/ LoadModel(p) \/ OpenShm(p) \/ OpenSemaphores(p) \/ LoopHead(p)
  \/ TakeNothing(p) \/ BreakOff(p)
  \/ \E c \in Clients : TakeRequest(p, c) \/ Answer(p, c)

-----------------------------------------------------------------------------
(* Ctrl+C, the monitor                                                     *)

(* SIGINT sets the server's flag, once or again.  From a terminal it goes  *)
(* to the workers too, which have no handler for it; between fork and exec *)
(* they have the server's.                                                 *)
Interrupt ==
  /\ server \notin Down
  /\ interrupted' = TRUE
  /\ \/ UNCHANGED proc
     \/ \E before_exec \in SUBSET {p \in Pids : proc[p] = "forked"} :
          proc' = [p \in Pids |-> IF Alive(p) /\ p \notin before_exec
                                    THEN "zombie" ELSE proc[p]]
  /\ UNCHANGED <<run, server, kills, monitoring, names, objects, table, victim,
                 doomed, parent, home, told, shm, sems, connections, known>>

(* It sleeps four seconds before its first look, which is longer than a    *)
(* server lives that cannot bind.                                          *)
MonitorLooks ==
  /\ server = "serving" /\ monitor = "asleep" /\ ~should_stop_monitoring
  /\ monitor' = "looking"
  /\ UNCHANGED <<main, should_stop_monitoring, names, objects, table, victim,
                 doomed, processes, connections, known>>

MonitorSleeps ==
  /\ \/ monitor = "looking" /\ monitor' = "asleep"
     \/ monitor = "asleep" /\ should_stop_monitoring /\ monitor' = "ended"
  /\ UNCHANGED <<main, should_stop_monitoring, names, objects, table, victim,
                 doomed, processes, connections, known>>

-----------------------------------------------------------------------------
(* The end: stop_monitor_thread, ~TaskDispatcher, ~IPCManager              *)

StopMonitor ==
  /\ interrupted /\ Server("serving", "join")
  /\ should_stop_monitoring' = TRUE
  /\ UNCHANGED <<run, kills, interrupted, monitor, names, objects, table,
                 victim, doomed, processes, connections, known>>

Join ==
  /\ monitor = "ended" /\ monitor' = "none"
  /\ Server("join", "destroy")
  /\ UNCHANGED <<run, kills, interrupted, should_stop_monitoring, names,
                 objects, table, victim, doomed, processes, connections,
                 known>>

RequestShutdown ==
  /\ Server("destroy", "cleanup")
  /\ shutdown_flag' = [shutdown_flag EXCEPT ![run] = TRUE]
  /\ items' = [items EXCEPT ![run] = [i \in Indices |-> @[i] + 1]]
  /\ victim' = 0
  /\ known' = InTable
  /\ UNCHANGED <<run, kills, interrupted, monitoring, names, table, doomed,
                 processes, connections>>

(* SIGTERM ends a process that has no handler for it yet.                  *)
Signal(p) ==
  /\ proc' = [proc EXCEPT ![p] = IF @ = "forked" THEN "zombie" ELSE @]
  /\ told' = [told EXCEPT ![p] = TRUE]
  /\ UNCHANGED <<parent, home, shm, sems>>

(* Mutant: a worker without a request is passed over.                      *)
TerminateServing ==
  /\ server = "cleanup" /\ victim \in Deployed
  /\ IF proc[table[victim]] \in {"serving", "stuck"}
       THEN /\ Server("cleanup", "waitpid")
            /\ doomed' = table[victim] /\ Signal(doomed')
            /\ UNCHANGED victim
       ELSE UNCHANGED <<server, processes, doomed>> /\ victim' = victim + 1
  /\ UNCHANGED <<run, kills, interrupted, monitoring, names, objects, table,
                 connections, known>>

Terminate ==
  /\ victim \in Deployed /\ Server("cleanup", "waitpid")
  /\ doomed' = table[victim] /\ Signal(doomed')
  /\ UNCHANGED <<run, kills, interrupted, monitoring, names, objects, table,
                 victim, connections, known>>

(* Mutant: a worker that does not end is waited for.                       *)
ReapPatiently ==
  /\ Server("waitpid", "cleanup") /\ proc[doomed] \in Ended
  /\ proc' = [proc EXCEPT ![doomed] = "reaped"]
  /\ table' = [table EXCEPT ![victim] = NoPid]
  /\ victim' = victim + 1
  /\ UNCHANGED <<run, kills, interrupted, monitoring, names, objects, doomed,
                 parent, home, told, shm, sems, connections, known>>

(* At once, after 200 ms, or after SIGKILL: the process is waited for, and *)
(* the entry is reset, whatever a thread has stored there meanwhile.       *)
Reap ==
  /\ Server("waitpid", "cleanup")
  /\ proc' = [proc EXCEPT ![doomed] = "reaped"]
  /\ table' = [table EXCEPT ![victim] = NoPid]
  /\ victim' = victim + 1
  /\ UNCHANGED <<run, kills, interrupted, monitoring, names, objects, doomed,
                 parent, home, told, shm, sems, connections, known>>

PassOver ==
  /\ server = "cleanup" /\ victim \in Indices \ Deployed
  /\ victim' = victim + 1
  /\ UNCHANGED <<main, monitoring, names, objects, table, doomed, processes,
                 connections, known>>

(* After 500 ms what threads have put into the table since is killed.      *)
Clear ==
  /\ victim = MAX_WORKERS
  /\ Server("cleanup", IF shutdown_flag[run] THEN "members" ELSE "destroy")
  /\ proc' = [p \in Pids |-> IF p \in InTable THEN "zombie" ELSE proc[p]]
  /\ table' = [i \in Indices |-> NoPid]
  /\ UNCHANGED <<run, kills, interrupted, monitoring, names, objects, victim,
                 doomed, parent, home, told, shm, sems, connections, known>>

(* With the server go its threads.                                         *)
EndsAs(how) ==
  /\ server' = how
  /\ thread' = [c \in Clients |-> "away"]
  /\ at' = [c \in Clients |-> 0] /\ child' = [c \in Clients |-> NoPid]
  /\ monitor' = "none"
  /\ UNCHANGED <<run, interrupted, should_stop_monitoring, objects, table,
                 victim, doomed, processes, active_connections_, known>>

(* A thread that was not joined: std::terminate.                           *)
Abort ==
  /\ server = "members" /\ monitor # "none"
  /\ EndsAs("aborted")
  /\ UNCHANGED <<kills, names>>

UnlinkSems ==
  /\ monitor = "none" /\ Server("members", "unlink_shm")
  /\ sem_names' = Nobody
  /\ UNCHANGED <<run, kills, interrupted, monitoring, shm_name, objects, table,
                 victim, doomed, processes, connections, known>>

Exit ==
  /\ server = "unlink_shm"
  /\ shm_name' = Nobody
  /\ EndsAs("exited")
  /\ UNCHANGED <<kills, sem_names>>

(* initialize has emptied the vector that the destructor's cleanup indexes. *)
NoVector ==
  server = "cleanup" /\ shutdown_flag[run]
    /\ monitor = "none" /\ ~should_stop_monitoring

(* A client's thread goes on while dispatcher and objects are destroyed.   *)
Undefined ==
  /\ NoVector \/ (server \in {"members", "unlink_shm"} /\ Threads # {})
  /\ EndsAs("aborted")
  /\ UNCHANGED <<kills, names>>

Kill ==
  /\ server \notin Down /\ kills < MAX_KILLS
  /\ kills' = kills + 1
  /\ EndsAs("killed")
  /\ UNCHANGED names

ServerStep ==
  \/ Unlink \/ CreateShm \/ CreateSemaphores
  \/ SpawnInitial \/ SpawnFails \/ StartMonitor \/ Bind
  \/ StopMonitor \/ Join \/ RequestShutdown
  \/ Terminate \/ Reap \/ PassOver \/ Clear
  \/ Abort \/ UnlinkSems \/ Exit

Next ==
  \/ Start \/ ServerStep \/ Interrupt \/ Kill \/ Undefined
  \/ \E c \in Clients : Accept(c) \/ ThreadStep(c)
  \/ \E p \in Pids : WorkerStep(p) \/ EndWait(p)
  \/ MonitorLooks \/ MonitorSleeps

Spec == Init /\ [][Next]_vars

(* The main thread, the monitor and the worker processes are scheduled.    *)
FairSpec ==
  /\ Spec
  /\ WF_vars(ServerStep) /\ WF_vars(MonitorSleeps)
  /\ \A p \in Pids : WF_vars(WorkerStep(p))
-----------------------------------------------------------------------------
(* Properties *)

(* The limit of connections holds and none of it is lost: a running server *)
(* counts exactly the clients' threads it has, and has no more than        *)
(* max_connections_, with threads that end on their own at any time.       *)
ConnectionsCounted ==
  server \notin Down =>
    /\ active_connections_ = Cardinality(Threads)
    /\ active_connections_ <= max_connections_

(* "it will bring down all the child processes" (main_server.cpp:190): a   *)
(* server that gets through its clean-up has waited for every worker that  *)
(* was in its table when it requested shutdown, whatever that worker was   *)
(* doing, unless a thread had forked another one for the same index, and   *)
(* then every one that it has told to stop.                                *)
Forgotten(p) ==
  \E q \in Pids \ {p} : parent[q] = parent[p] /\ home[q] = home[p]

KnownReaped ==
  server \in {"members", "unlink_shm", "exited"} =>
    \A p \in known : proc[p] = "reaped" \/ (~told[p] /\ Forgotten(p))

(* However the server before ended, a server begins with objects of its    *)
(* own under the names, its flag is down, and its semaphores count its own *)
(* requests, as long as no worker of the one before has opened them.       *)
Strangers == {p \in Pids : parent[p] # run /\ run \in {shm[p], sems[p]}}

FreshObjects ==
  server \in {"spawn", "bind", "serving", "join", "destroy"} =>
    /\ shm_name = run /\ sem_names = run /\ ~shutdown_flag[run]
    /\ Strangers = {} =>
         \A i \in Indices : items[run][i] = Cardinality(Queued(i))

(* After Ctrl+C the server ends, with clients that never answer, workers   *)
(* that are stuck and a monitor in the middle of its work.                 *)
ShutdownEnds == (interrupted /\ server \notin Down) ~> server \in Down

(* A worker that has not looked at the flag yet when shutdown is requested *)
(* ends without anyone knowing of it, or has come upon the objects of the  *)
(* next server.                                                            *)
StrayEnds ==
  \A p \in Pids :
    (proc[p] \in Early /\ shutdown_flag[parent[p]])
      ~> (proc[p] \in Ended \/ shm[p] > parent[p] \/ sems[p] > parent[p])
=============================================================================
