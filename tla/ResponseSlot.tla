---------------------------- MODULE ResponseSlot ----------------------------
(***************************************************************************)
(* The response half of IPCManager: one slot per worker in shared memory,  *)
(* guarded by two semaphores, through which the worker hands a chunk of    *)
(* its answer to the thread whose task it is working on.                   *)
(* src/src/ipc/ipc_utils.cpp: send_response_chunk,                         *)
(* wait_for_response_chunk.                                                *)
(*                                                                         *)
(* Several threads wait on one worker's semaphore; a thread woken for a    *)
(* chunk of another task posts the semaphore back.                         *)
(***************************************************************************)
EXTENDS Naturals, FiniteSets

CONSTANTS
  Workers,    \* indices of the worker processes
  Threads,    \* client threads of the server
  NoWorker,   \* a thread that has no worker yet
  TaskIds,    \* what get_next_task_id may return; 0 is no task
  Payloads,   \* contents of a chunk
  NoPayload   \* data of a slot nobody has written

ASSUME SlotAssumption ==
  /\ IsFiniteSet(Threads)
  /\ NoWorker \notin Workers
  /\ NoPayload \notin Payloads
  /\ TaskIds \subseteq Nat \ {0}

VARIABLES
  sem_resp,           \* a chunk is in the slot
  sem_resp_consumed,  \* the slot may be written
  resp_slot,
  spc, chunk,         \* a worker inside send_response_chunk, its arguments
  rpc, got,           \* a thread inside wait_for_response_chunk, its results
  worker, task_id     \* the thread's locals worker_idx and task_id

vars == <<sem_resp, sem_resp_consumed, resp_slot, spc, chunk, rpc, got,
          worker, task_id>>

RespSlot == [task_id : TaskIds \cup {0}, data : Payloads \cup {NoPayload},
             is_last_piece : BOOLEAN]
Chunk == [task_id : TaskIds, data : Payloads, is_last_piece : BOOLEAN]
EmptySlot == [task_id |-> 0, data |-> NoPayload, is_last_piece |-> FALSE]

(* initialize() opens sem_resp at 0 and sem_resp_consumed at 1.            *)
SlotInit ==
  /\ sem_resp = [w \in Workers |-> 0]
  /\ sem_resp_consumed = [w \in Workers |-> 1]
  /\ resp_slot = [w \in Workers |-> EmptySlot]
  /\ spc = [w \in Workers |-> "idle"]
  /\ chunk = [w \in Workers |-> EmptySlot]
  /\ rpc = [t \in Threads |-> "idle"]
  /\ got = [t \in Threads |-> EmptySlot]

Init ==
  /\ SlotInit
  /\ worker = [t \in Threads |-> NoWorker]
  /\ task_id = [t \in Threads |-> 0]

-----------------------------------------------------------------------------
(* send_response_chunk(worker_idx, task_id, chunk, is_last) in worker w    *)

SGoto(w, from, to) == spc[w] = from /\ spc' = [spc EXCEPT ![w] = to]
threadVars == <<rpc, got, worker, task_id>>

SendCall(w, c) ==
  /\ SGoto(w, "idle", "wait_consumed")
  /\ chunk' = [chunk EXCEPT ![w] = c]
  /\ UNCHANGED <<sem_resp, sem_resp_consumed, resp_slot, threadVars>>

(* Mutant: a semaphore that does not block.                                *)
WaitConsumedUnblocked(w) ==
  /\ SGoto(w, "wait_consumed", "write_id")
  /\ sem_resp_consumed' = [sem_resp_consumed EXCEPT ![w] = @ - 1]
  /\ UNCHANGED <<sem_resp, resp_slot, chunk, threadVars>>

WaitConsumed(w) ==
  /\ SGoto(w, "wait_consumed", "write_id")
  /\ sem_resp_consumed[w] > 0
  /\ sem_resp_consumed' = [sem_resp_consumed EXCEPT ![w] = @ - 1]
  /\ UNCHANGED <<sem_resp, resp_slot, chunk, threadVars>>

WriteId(w) ==
  /\ SGoto(w, "write_id", "write_data")
  /\ resp_slot' = [resp_slot EXCEPT ![w].task_id = chunk[w].task_id]
  /\ UNCHANGED <<sem_resp, sem_resp_consumed, chunk, threadVars>>

(* len, is_last_piece and data: all but the task_id already written.       *)
WriteData(w) ==
  /\ SGoto(w, "write_data", "post_resp")
  /\ resp_slot' = [resp_slot EXCEPT
                     ![w] = [chunk[w] EXCEPT !.task_id = resp_slot[w].task_id]]
  /\ UNCHANGED <<sem_resp, sem_resp_consumed, chunk, threadVars>>

PostResp(w) ==
  /\ SGoto(w, "post_resp", "idle")
  /\ sem_resp' = [sem_resp EXCEPT ![w] = @ + 1]
  /\ UNCHANGED <<sem_resp_consumed, resp_slot, chunk, threadVars>>

SendStep(w) == WaitConsumed(w) \/ WriteId(w) \/ WriteData(w) \/ PostResp(w)

-----------------------------------------------------------------------------
(* wait_for_response_chunk(worker_idx, task_id, chunk, is_last) in t       *)

RGoto(t, from, to) == rpc[t] = from /\ rpc' = [rpc EXCEPT ![t] = to]
senderVars == <<spc, chunk>>

ReceiveCall(t) ==
  /\ RGoto(t, "idle", "wait_resp")
  /\ UNCHANGED <<sem_resp, sem_resp_consumed, resp_slot, senderVars, got,
                 worker, task_id>>

WaitResp(t) ==
  /\ RGoto(t, "wait_resp", "load_id")
  /\ sem_resp[worker[t]] > 0
  /\ sem_resp' = [sem_resp EXCEPT ![worker[t]] = @ - 1]
  /\ UNCHANGED <<sem_resp_consumed, resp_slot, senderVars, got, worker, task_id>>

LoadId(t) ==
  /\ RGoto(t, "load_id",
           IF resp_slot[worker[t]].task_id = task_id[t]
             THEN "copy" ELSE "post_back")
  /\ UNCHANGED <<sem_resp, sem_resp_consumed, resp_slot, senderVars, got,
                 worker, task_id>>

Copy(t) ==
  /\ RGoto(t, "copy", "post_consumed")
  /\ got' = [got EXCEPT ![t] = resp_slot[worker[t]]]
  /\ UNCHANGED <<sem_resp, sem_resp_consumed, resp_slot, senderVars, worker,
                 task_id>>

PostConsumed(t) ==
  /\ RGoto(t, "post_consumed", "idle")
  /\ sem_resp_consumed' = [sem_resp_consumed EXCEPT ![worker[t]] = @ + 1]
  /\ UNCHANGED <<sem_resp, resp_slot, senderVars, got, worker, task_id>>

(* Mutant: the thread goes back to wait with the token.                    *)
PostBackSilent(t) ==
  /\ RGoto(t, "post_back", "wait_resp")
  /\ UNCHANGED <<sem_resp, sem_resp_consumed, resp_slot, senderVars, got,
                 worker, task_id>>

(* Mutant: the wrong semaphore is posted, and the chunk is lost.           *)
PostBackConsumed(t) ==
  /\ RGoto(t, "post_back", "wait_resp")
  /\ sem_resp_consumed' = [sem_resp_consumed EXCEPT ![worker[t]] = @ + 1]
  /\ UNCHANGED <<sem_resp, resp_slot, senderVars, got, worker, task_id>>

(* Not this thread's chunk: wake another waiter, sleep, wait again.        *)
PostBack(t) ==
  /\ RGoto(t, "post_back", "wait_resp")
  /\ sem_resp' = [sem_resp EXCEPT ![worker[t]] = @ + 1]
  /\ UNCHANGED <<sem_resp_consumed, resp_slot, senderVars, got, worker, task_id>>

ReceiveStep(t) ==
  \/ WaitResp(t) \/ LoadId(t) \/ Copy(t) \/ PostConsumed(t) \/ PostBack(t)

(* Outside the call the thread's locals are the caller's to set.  No two   *)
(* threads hold the same task id (TaskIdsUnique of RequestRing).           *)
Dispatch(t, w, id) ==
  /\ rpc[t] = "idle"
  /\ id # 0 => \A s \in Threads \ {t} : task_id[s] # id
  /\ worker' = [worker EXCEPT ![t] = w]
  /\ task_id' = [task_id EXCEPT ![t] = id]
  /\ UNCHANGED <<sem_resp, sem_resp_consumed, resp_slot, senderVars, rpc, got>>

-----------------------------------------------------------------------------
Next ==
  \/ \E w \in Workers :
       \/ \E c \in Chunk : SendCall(w, c)
       \/ SendStep(w)
  \/ \E t \in Threads :
       \/ task_id[t] # 0 /\ ReceiveCall(t)
       \/ ReceiveStep(t)
       \/ \E w \in Workers, id \in TaskIds \cup {0} : Dispatch(t, w, id)

Spec == Init /\ [][Next]_vars

(* Threads and workers are scheduled.  Strong fairness on the semaphore: a *)
(* thread that posts back sleeps 25 ms before it waits again, and the      *)
(* kernel wakes futex waiters in order, so no waiter is passed over for    *)
(* ever by others.                                                         *)
Fairness ==
  /\ \A w \in Workers : WF_vars(SendStep(w))
  /\ \A t \in Threads : WF_vars(ReceiveStep(t)) /\ SF_vars(WaitResp(t))

FairSpec == Spec /\ Fairness

-----------------------------------------------------------------------------
(* Properties *)

Writing == {"write_id", "write_data", "post_resp"}
Checking == {"load_id", "copy", "post_back"}
HoldingToken == Checking \cup {"post_consumed"}

(* Every variable has its type; a thread with a task or inside the call    *)
(* has a worker.                                                           *)
TypeOK ==
  /\ sem_resp \in [Workers -> Nat]
  /\ sem_resp_consumed \in [Workers -> Nat]
  /\ resp_slot \in [Workers -> RespSlot]
  /\ spc \in [Workers -> {"idle", "wait_consumed"} \cup Writing]
  /\ chunk \in [Workers -> RespSlot]
  /\ rpc \in [Threads -> {"idle", "wait_resp"} \cup HoldingToken]
  /\ got \in [Threads -> RespSlot]
  /\ worker \in [Threads -> Workers \cup {NoWorker}]
  /\ task_id \in [Threads -> TaskIds \cup {0}]
  /\ \A t \in Threads :
       rpc[t] # "idle" \/ task_id[t] # 0 => worker[t] \in Workers

Holders(w) == {t \in Threads : worker[t] = w /\ rpc[t] \in HoldingToken}
Sending(w) == IF spc[w] \in Writing THEN 1 ELSE 0

(* The two semaphores of a worker carry one token between them: it is in   *)
(* one of them, with the worker that writes the slot, or with exactly one  *)
(* thread that looks at it.  So slot accesses exclude each other although  *)
(* threads post back what they were not meant to get.                      *)
TokenConservation ==
  \A w \in Workers :
    sem_resp[w] + sem_resp_consumed[w] + Sending(w) + Cardinality(Holders(w)) = 1

(* While a chunk waits to be consumed or a thread looks at it, no step     *)
(* changes the slot.                                                       *)
Posted(w) ==
  \/ sem_resp[w] > 0
  \/ \E t \in Threads : worker[t] = w /\ rpc[t] \in Checking

SlotStable == [][\A w \in Workers : Posted(w) => resp_slot'[w] = resp_slot[w]]_vars

(* The slot implements a one-place mailbox: a chunk goes, whole and once,  *)
(* to the thread that holds its task id.                                   *)
Box == INSTANCE Mailbox WITH
  Receivers <- Threads,
  Chunks <- Chunk,
  Empty <- EmptySlot,
  box <- [w \in Workers |-> IF Posted(w) THEN resp_slot[w] ELSE EmptySlot],
  addr <- [t \in Threads |-> [worker |-> worker[t], task_id |-> task_id[t]]]

ImplementsMailbox == Box!Spec

(* A chunk posted for a waiting thread reaches it, however many other      *)
(* threads wait on the same semaphore.                                     *)
EveryChunkDelivered ==
  \A t \in Threads, w \in Workers :
    (/\ rpc[t] = "wait_resp" /\ worker[t] = w
     /\ sem_resp[w] > 0 /\ resp_slot[w].task_id = task_id[t])
      ~> rpc[t] = "idle"
=============================================================================
