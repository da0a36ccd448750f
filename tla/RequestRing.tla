---------------------------- MODULE RequestRing ----------------------------
(***************************************************************************)
(* The request half of IPCManager: one ring buffer per worker process in   *)
(* shared memory, written by the server's client threads and read by the   *)
(* worker.  src/src/ipc/ipc_utils.cpp: enqueue_request, dequeue_request,   *)
(* signal_request_handled.                                                 *)
(*                                                                         *)
(* A thread serves one connection and sends one request, so the thread     *)
(* stands for its client and for the client's prompt.  Every access to     *)
(* shared memory or to a semaphore is a step of its own; pc and wpc say    *)
(* which access comes next.                                                *)
(***************************************************************************)
EXTENDS Naturals, FiniteSets

CONSTANTS
  Workers,    \* indices of the worker processes
  Threads,    \* client threads of the server
  Oversized,  \* the threads whose encoded message has CHUNK_SIZE bytes or more
  CAP,        \* RING_CAP_PER_WORKER
  NoWorker,   \* a thread that has no worker yet
  NoMsg       \* data of a slot nobody has written (len = 0)

ASSUME RingAssumption ==
  /\ CAP \in Nat \ {0}
  /\ IsFiniteSet(Threads)
  /\ Oversized \subseteq Threads
  /\ NoWorker \notin Workers
  /\ NoMsg \notin Threads

VARIABLES
  head, tail, req,        \* RequestQueue of each worker
  sem_request_items,
  sem_req_space,
  next_task_id,           \* SharedMem::next_task_id
  pc, worker, task_id, head_val,  \* a thread inside enqueue_request
  wpc, tail_val, slot             \* a worker inside dequeue_request

threadVars == <<pc, worker, task_id, head_val>>
workerVars == <<wpc, tail_val, slot>>
vars == <<head, tail, req, sem_request_items, sem_req_space, next_task_id,
          threadVars, workerVars>>

Messages == Threads \cup {NoMsg}
ReqSlot == [task_id : Nat, data : Messages, is_canceled : BOOLEAN]
SlotOf(id, msg, canceled) ==
  [task_id |-> id, data |-> msg, is_canceled |-> canceled]
EmptySlot == SlotOf(0, NoMsg, FALSE)

Init ==
  /\ head = [w \in Workers |-> 0]
  /\ tail = [w \in Workers |-> 0]
  /\ req = [w \in Workers |-> [i \in 0 .. CAP - 1 |-> EmptySlot]]
  /\ sem_request_items = [w \in Workers |-> 0]
  /\ sem_req_space = [w \in Workers |-> CAP]
  /\ next_task_id = 1
  /\ pc = [t \in Threads |-> "idle"]
  /\ worker = [t \in Threads |-> NoWorker]
  /\ task_id = [t \in Threads |-> 0]
  /\ head_val = [t \in Threads |-> 0]
  /\ wpc = [w \in Workers |-> "idle"]
  /\ tail_val = [w \in Workers |-> 0]
  /\ slot = [w \in Workers |-> EmptySlot]

-----------------------------------------------------------------------------
(* enqueue_request(worker_idx, message, task_id) in thread t               *)

Goto(t, from, to) == pc[t] = from /\ pc' = [pc EXCEPT ![t] = to]

(* The call, and the check of the message's length before anything else.   *)
EnqueueCall(t, w) ==
  /\ Goto(t, "idle", IF t \in Oversized THEN "rejected" ELSE "wait_space")
  /\ worker' = [worker EXCEPT ![t] = w]
  /\ UNCHANGED <<head, tail, req, sem_request_items, sem_req_space,
                 next_task_id, task_id, head_val, workerVars>>

(* Mutant: the result of sem_wait is ignored.                              *)
WaitSpaceSkipped(t) ==
  /\ Goto(t, "wait_space", "take_id")
  /\ UNCHANGED <<head, tail, req, sem_request_items, sem_req_space,
                 next_task_id, worker, task_id, head_val, workerVars>>

WaitSpace(t) ==
  /\ Goto(t, "wait_space", "take_id")
  /\ sem_req_space[worker[t]] > 0
  /\ sem_req_space' = [sem_req_space EXCEPT ![worker[t]] = @ - 1]
  /\ UNCHANGED <<head, tail, req, sem_request_items, next_task_id, worker,
                 task_id, head_val, workerVars>>

(* Mutant: the id is loaded, not fetched and added to.                     *)
TakeTaskIdLoad(t) ==
  /\ Goto(t, "take_id", "load_head")
  /\ task_id' = [task_id EXCEPT ![t] = next_task_id]
  /\ UNCHANGED <<head, tail, req, sem_request_items, sem_req_space,
                 next_task_id, worker, head_val, workerVars>>

(* get_next_task_id: an atomic fetch_add.                                  *)
TakeTaskId(t) ==
  /\ Goto(t, "take_id", "load_head")
  /\ task_id' = [task_id EXCEPT ![t] = next_task_id]
  /\ next_task_id' = next_task_id + 1
  /\ UNCHANGED <<head, tail, req, sem_request_items, sem_req_space, worker,
                 head_val, workerVars>>

LoadHead(t) ==
  /\ Goto(t, "load_head", "write_id")
  /\ head_val' = [head_val EXCEPT ![t] = head[worker[t]]]
  /\ UNCHANGED <<head, tail, req, sem_request_items, sem_req_space,
                 next_task_id, worker, task_id, workerVars>>

WriteId(t) ==
  /\ Goto(t, "write_id", "write_data")
  /\ req' = [req EXCEPT ![worker[t]][head_val[t] % CAP] =
                          SlotOf(task_id[t], @.data, @.is_canceled)]
  /\ UNCHANGED <<head, tail, sem_request_items, sem_req_space, next_task_id,
                 worker, task_id, head_val, workerVars>>

(* len and data; is_canceled keeps the value the slot had.                 *)
WriteData(t) ==
  /\ Goto(t, "write_data", "store_head")
  /\ req' = [req EXCEPT ![worker[t]][head_val[t] % CAP] =
                          SlotOf(@.task_id, t, @.is_canceled)]
  /\ UNCHANGED <<head, tail, sem_request_items, sem_req_space, next_task_id,
                 worker, task_id, head_val, workerVars>>

(* Mutant: head is stored as it was loaded.                                *)
StoreHeadStale(t) ==
  /\ Goto(t, "store_head", "post_item")
  /\ head' = [head EXCEPT ![worker[t]] = head_val[t]]
  /\ UNCHANGED <<tail, req, sem_request_items, sem_req_space, next_task_id,
                 worker, task_id, head_val, workerVars>>

(* A store of the value computed from the earlier load, not a fetch_add.   *)
StoreHead(t) ==
  /\ Goto(t, "store_head", "post_item")
  /\ head' = [head EXCEPT ![worker[t]] = head_val[t] + 1]
  /\ UNCHANGED <<tail, req, sem_request_items, sem_req_space, next_task_id,
                 worker, task_id, head_val, workerVars>>

PostItem(t) ==
  /\ Goto(t, "post_item", "returned")
  /\ sem_request_items' = [sem_request_items EXCEPT ![worker[t]] = @ + 1]
  /\ UNCHANGED <<head, tail, req, sem_req_space, next_task_id, worker,
                 task_id, head_val, workerVars>>

EnqueueStep(t) ==
  \/ WaitSpace(t) \/ TakeTaskId(t) \/ LoadHead(t) \/ WriteId(t)
  \/ WriteData(t) \/ StoreHead(t) \/ PostItem(t)

-----------------------------------------------------------------------------
(* dequeue_request(worker_idx, slot) in worker process w.  "idle" is the   *)
(* worker blocked in sem_wait, "busy" the worker after the call returned.  *)

WGoto(w, from, to) == wpc[w] = from /\ wpc' = [wpc EXCEPT ![w] = to]

(* Mutant: the worker does not block on an empty queue.                    *)
WaitItemUnblocked(w) ==
  /\ WGoto(w, "idle", "fetch_tail")
  /\ sem_request_items' = [sem_request_items EXCEPT ![w] = @ - 1]
  /\ UNCHANGED <<head, tail, req, sem_req_space, next_task_id, threadVars,
                 tail_val, slot>>

WaitItem(w) ==
  /\ WGoto(w, "idle", "fetch_tail")
  /\ sem_request_items[w] > 0
  /\ sem_request_items' = [sem_request_items EXCEPT ![w] = @ - 1]
  /\ UNCHANGED <<head, tail, req, sem_req_space, next_task_id, threadVars,
                 tail_val, slot>>

FetchTail(w) ==
  /\ WGoto(w, "fetch_tail", "copy_id")
  /\ tail_val' = [tail_val EXCEPT ![w] = tail[w]]
  /\ tail' = [tail EXCEPT ![w] = @ + 1]
  /\ UNCHANGED <<head, req, sem_request_items, sem_req_space, next_task_id,
                 threadVars, slot>>

(* Mutant: the slot after the one fetched.                                 *)
ReadNextSlot(w) == req[w][tail[w] % CAP]

ReadSlot(w) == req[w][tail_val[w] % CAP]

CopyId(w) ==
  /\ WGoto(w, "copy_id", "copy_data")
  /\ slot' = [slot EXCEPT ![w] =
                SlotOf(ReadSlot(w).task_id, @.data, @.is_canceled)]
  /\ UNCHANGED <<head, tail, req, sem_request_items, sem_req_space,
                 next_task_id, threadVars, tail_val>>

(* len, data and is_canceled: all but the task_id already copied.          *)
CopyData(w) ==
  /\ WGoto(w, "copy_data", "busy")
  /\ slot' = [slot EXCEPT ![w] =
                SlotOf(@.task_id, ReadSlot(w).data, ReadSlot(w).is_canceled)]
  /\ UNCHANGED <<head, tail, req, sem_request_items, sem_req_space,
                 next_task_id, threadVars, tail_val>>

DequeueStep(w) == WaitItem(w) \/ FetchTail(w) \/ CopyId(w) \/ CopyData(w)

(* signal_request_handled: the worker is done with the request.            *)
Handled(w) ==
  /\ WGoto(w, "busy", "idle")
  /\ sem_req_space' = [sem_req_space EXCEPT ![w] = @ + 1]
  /\ UNCHANGED <<head, tail, req, sem_request_items, next_task_id,
                 threadVars, tail_val, slot>>

-----------------------------------------------------------------------------
Next ==
  \/ \E t \in Threads, w \in Workers : EnqueueCall(t, w)
  \/ \E t \in Threads : EnqueueStep(t)
  \/ \E w \in Workers : DequeueStep(w) \/ Handled(w)

(* The ring as the server uses it: any number of threads at once.          *)
Spec == Init /\ [][Next]_vars

(* The contract of a ring whose head is moved by load and store: at most   *)
(* one thread per worker is between the load of head and its store.        *)
Filling == {"write_id", "write_data", "store_head"}

OneProducer ==
  \A s, t \in Threads :
    s # t /\ pc[s] \in Filling /\ pc[t] \in Filling => worker[s] # worker[t]

SerialNext == Next /\ OneProducer'
SerialSpec == Init /\ [][SerialNext]_vars

-----------------------------------------------------------------------------
(* Properties *)

Enqueuing == {"take_id", "load_head"} \cup Filling \cup {"post_item"}

(* Every variable has its type; ring indices stay inside the array.        *)
TypeOK ==
  /\ head \in [Workers -> Nat]
  /\ tail \in [Workers -> Nat]
  /\ req \in [Workers -> [0 .. CAP - 1 -> ReqSlot]]
  /\ sem_request_items \in [Workers -> Nat]
  /\ sem_req_space \in [Workers -> Nat]
  /\ next_task_id \in Nat \ {0}
  /\ pc \in [Threads -> {"idle", "rejected", "wait_space", "returned"}
                          \cup Enqueuing]
  /\ worker \in [Threads -> Workers \cup {NoWorker}]
  /\ \A t \in Threads : pc[t] # "idle" => worker[t] \in Workers
  /\ task_id \in [Threads -> Nat]
  /\ head_val \in [Threads -> Nat]
  /\ wpc \in [Workers -> {"idle", "fetch_tail", "copy_id", "copy_data", "busy"}]
  /\ tail_val \in [Workers -> Nat]
  /\ slot \in [Workers -> ReqSlot]

Holding(w) == {t \in Threads : worker[t] = w /\ pc[t] \in Enqueuing}
Serving(w) == IF wpc[w] = "idle" THEN 0 ELSE 1

(* A unit of sem_req_space is never lost or made: it is in the semaphore,  *)
(* with a thread inside enqueue_request, an item posted, or with the       *)
(* worker until it signals the request handled.  So there are never more   *)
(* than CAP requests outstanding at a worker, whatever the interleaving.   *)
SpaceConservation ==
  \A w \in Workers :
    sem_req_space[w] + Cardinality(Holding(w)) + sem_request_items[w]
      + Serving(w) = CAP

(* Task ids identify requests: no two threads that went through            *)
(* get_next_task_id hold the same id, and none holds an id still to come.  *)
(* "Unique task, identifier" (shared_mem.hpp:24).                          *)
TaskIdsUnique ==
  /\ \A t \in Threads : task_id[t] < next_task_id
  /\ \A s, t \in Threads :
       s # t /\ task_id[s] # 0 => task_id[s] # task_id[t]

(* sem_request_items counts the requests in the queue (ipc_utils.hpp:20):  *)
(* head - tail is what the semaphore holds, plus the thread that moved     *)
(* head and has not posted, plus the worker that waited and has not moved  *)
(* tail.                                                                   *)
ItemsCountQueue ==
  \A w \in Workers :
    head[w] = tail[w] + sem_request_items[w]
      + Cardinality({t \in Threads : worker[t] = w /\ pc[t] = "post_item"})
      + (IF wpc[w] = "fetch_tail" THEN 1 ELSE 0)

Queued(w) == tail[w] .. head[w] - 1
Reading(w) == IF wpc[w] \in {"copy_id", "copy_data"} THEN {tail_val[w]} ELSE {}

(* A thread never writes a slot that holds a request the worker has not    *)
(* read or is copying (enqueue_request writes without looking at tail).    *)
NoOverwrite ==
  \A t \in Threads :
    pc[t] \in Filling =>
      \A i \in Queued(worker[t]) \cup Reading(worker[t]) :
        i % CAP # head_val[t] % CAP

(* A request a worker serves is one request: its task id is the one of the *)
(* thread whose prompt it carries ("this is client's prompt",              *)
(* shared_mem.hpp:26).                                                     *)
OwnPrompt ==
  \A w \in Workers :
    wpc[w] = "busy" =>
      /\ slot[w].data \in Threads
      /\ slot[w].task_id = task_id[slot[w].data]

(* The ring implements a bounded first-in first-out queue per worker, from *)
(* which each request is taken exactly once.  A request is in the queue    *)
(* from the store of head to the fetch of tail.                            *)
Request(s) == [task_id |-> s.task_id, data |-> s.data]
QueueOf(w) ==
  [i \in 1 .. head[w] - tail[w] |-> Request(req[w][(tail[w] + i - 1) % CAP])]
NoRequest == [task_id |-> 0, data |-> NoMsg]
ServedBy(w) ==
  CASE wpc[w] \in {"copy_id", "copy_data"} -> Request(ReadSlot(w))
    [] wpc[w] = "busy" -> Request(slot[w])
    [] OTHER -> NoRequest

Queue == INSTANCE TaskQueue WITH
  Clients <- Threads,
  TaskIds <- 1 .. Cardinality(Threads),
  Capacity <- CAP,
  queue <- [w \in Workers |-> QueueOf(w)],
  serving <- [w \in Workers |-> ServedBy(w)],
  accepted <- {t \in Threads : pc[t] \in {"post_item", "returned"}}

ImplementsTaskQueue == Queue!Spec
=============================================================================
