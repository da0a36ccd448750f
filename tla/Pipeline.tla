------------------------------ MODULE Pipeline ------------------------------
(***************************************************************************)
(* A request's way through the program: TaskDispatcher::process_message in *)
(* the server's client threads, the request ring, the worker's main loop   *)
(* with llm_process_and_send_chunked_response, and the response slot back. *)
(* Composes RequestRing and ResponseSlot, which share the thread's locals  *)
(* worker and task_id.                                                     *)
(*                                                                         *)
(* The worker a thread is given is any worker: assign_task_to_worker's     *)
(* choice is not restricted here.  A chunk's text is abstracted to the     *)
(* prompt it answers and its place in the answer; place 0 is the echo.     *)
(***************************************************************************)
EXTENDS Naturals, FiniteSets, Sequences

CONSTANTS
  Workers, Threads, Oversized, CAP, NoWorker, NoMsg, NoPayload,
  Budgets,    \* values of max_tokens a client may ask for
  LIMIT       \* the worker's own limit of tokens per answer (50)

TaskIds == 1 .. Cardinality(Threads)
Payloads == [of : Threads, n : 0 .. LIMIT]

ASSUME PipelineAssumption ==
  /\ CAP \in Nat \ {0}
  /\ IsFiniteSet(Threads)
  /\ Oversized \subseteq Threads
  /\ NoWorker \notin Workers
  /\ NoMsg \notin Threads
  /\ NoPayload \notin Payloads
  /\ Budgets \subseteq Nat
  /\ LIMIT \in Nat \ {0}

VARIABLES
  head, tail, req, sem_request_items, sem_req_space, next_task_id,
  pc, worker, task_id, head_val, wpc, tail_val, slot,
  sem_resp, sem_resp_consumed, resp_slot, spc, chunk, rpc, got,
  max_tokens,   \* what the client of a thread asked for
  stage,        \* where a thread is in process_message
  connected,    \* negation of client_disconnected
  delivered,    \* the chunks the client of a thread was sent
  wstage,       \* where a worker is in its loop: idle, generating, finished
  generated     \* generated_tokens of a worker

Ring == INSTANCE RequestRing
Resp == INSTANCE ResponseSlot

ringOwn == <<head, tail, req, sem_request_items, sem_req_space, next_task_id,
             pc, head_val, wpc, tail_val, slot>>
ringVars == <<ringOwn, worker, task_id>>
slotOwn == <<sem_resp, sem_resp_consumed, resp_slot, spc, chunk, rpc, got>>
dispatchVars == <<stage, connected, delivered>>
workerVars == <<wstage, generated>>
vars == <<ringVars, slotOwn, max_tokens, dispatchVars, workerVars>>

Init ==
  /\ Ring!Init
  /\ Resp!SlotInit
  /\ max_tokens \in [Threads -> Budgets]
  /\ stage = [t \in Threads |-> "new"]
  /\ connected = [t \in Threads |-> TRUE]
  /\ delivered = [t \in Threads |-> <<>>]
  /\ wstage = [w \in Workers |-> "idle"]
  /\ generated = [w \in Workers |-> 0]

-----------------------------------------------------------------------------
(* process_message in thread t                                             *)

Dispatch(t, w) ==
  /\ stage[t] = "new"
  /\ Ring!EnqueueCall(t, w)
  /\ stage' = [stage EXCEPT ![t] = "enqueue"]
  /\ UNCHANGED <<slotOwn, max_tokens, connected, delivered, workerVars>>

Enqueue(t) ==
  /\ Ring!EnqueueStep(t)
  /\ UNCHANGED <<slotOwn, max_tokens, dispatchVars, workerVars>>

(* enqueue_request returned false: an error goes to the client.            *)
Rejected(t) ==
  /\ stage[t] = "enqueue" /\ pc[t] = "rejected"
  /\ stage' = [stage EXCEPT ![t] = "failed"]
  /\ UNCHANGED <<ringVars, slotOwn, max_tokens, connected, delivered, workerVars>>

(* Mutant: waiting for chunks starts before the task id is known.          *)
StartReceivingEarly(t) ==
  /\ stage[t] = "enqueue" /\ pc[t] = "take_id"
  /\ Resp!ReceiveCall(t)
  /\ stage' = [stage EXCEPT ![t] = "receive"]
  /\ UNCHANGED <<ringOwn, max_tokens, connected, delivered, workerVars>>

StartReceiving(t) ==
  /\ stage[t] = "enqueue" /\ pc[t] = "returned"
  /\ Resp!ReceiveCall(t)
  /\ stage' = [stage EXCEPT ![t] = "receive"]
  /\ UNCHANGED <<ringOwn, max_tokens, connected, delivered, workerVars>>

Receive(t) ==
  /\ Resp!ReceiveStep(t)
  /\ UNCHANGED <<ringOwn, max_tokens, dispatchVars, workerVars>>

Sent(t) ==
  /\ connected[t]
  /\ delivered' = [delivered EXCEPT ![t] = Append(@, got[t])]
  /\ UNCHANGED connected

Disconnected(t) ==
  /\ connected[t]
  /\ connected' = [connected EXCEPT ![t] = FALSE]
  /\ UNCHANGED delivered

Drained(t) == ~connected[t] /\ UNCHANGED <<connected, delivered>>

(* Mutant: the loop is left when the client is gone.                       *)
CallbackBreak(t) ==
  /\ stage[t] = "receive" /\ rpc[t] = "idle"
  /\ Sent(t) \/ Disconnected(t)
  /\ IF got[t].is_last_piece \/ ~connected'[t]
       THEN /\ stage' = [stage EXCEPT ![t] = "done"]
            /\ UNCHANGED <<slotOwn, worker, task_id>>
       ELSE Resp!ReceiveCall(t) /\ UNCHANGED stage
  /\ UNCHANGED <<ringOwn, max_tokens, workerVars>>

(* A chunk has come: it is sent to the client, or sending fails and the    *)
(* client counts as gone, or the client is gone and the chunk is dropped.  *)
(* The loop goes on until the last piece.                                  *)
Callback(t) ==
  /\ stage[t] = "receive" /\ rpc[t] = "idle"
  /\ Sent(t) \/ Disconnected(t) \/ Drained(t)
  /\ IF got[t].is_last_piece
       THEN /\ stage' = [stage EXCEPT ![t] = "done"]
            /\ UNCHANGED <<slotOwn, worker, task_id>>
       ELSE Resp!ReceiveCall(t) /\ UNCHANGED stage
  /\ UNCHANGED <<ringOwn, max_tokens, workerVars>>

ThreadStep(t) ==
  \/ Enqueue(t) \/ Rejected(t) \/ StartReceiving(t) \/ Receive(t) \/ Callback(t)

-----------------------------------------------------------------------------
(* main() of worker w and llm_process_and_send_chunked_response            *)

Dequeue(w) ==
  /\ Ring!DequeueStep(w)
  /\ UNCHANGED <<slotOwn, max_tokens, dispatchVars, workerVars>>

(* A canceled request, or a payload without separator: no answer is sent.  *)
Unanswered(w) == slot[w].is_canceled \/ slot[w].data = NoMsg

(* Mutant: a request without answer is not signalled.                      *)
SkipSilently(w) ==
  /\ wstage[w] = "idle" /\ Unanswered(w)
  /\ wpc[w] = "busy" /\ wpc' = [wpc EXCEPT ![w] = "idle"]
  /\ UNCHANGED <<head, tail, req, sem_request_items, sem_req_space,
                 next_task_id, pc, head_val, tail_val, slot, worker, task_id,
                 slotOwn, max_tokens, dispatchVars, workerVars>>

Skip(w) ==
  /\ wstage[w] = "idle" /\ Unanswered(w)
  /\ Ring!Handled(w)
  /\ UNCHANGED <<slotOwn, max_tokens, dispatchVars, workerVars>>

Piece(w, n, last) ==
  [task_id |-> slot[w].task_id, data |-> [of |-> slot[w].data, n |-> n],
   is_last_piece |-> last]

(* Mutant: the echo is flagged as the last piece.                          *)
EchoLast(w) ==
  /\ wpc[w] = "busy" /\ wstage[w] = "idle" /\ ~Unanswered(w)
  /\ Resp!SendCall(w, Piece(w, 0, TRUE))
  /\ wstage' = [wstage EXCEPT ![w] = "finished"]
  /\ UNCHANGED <<ringOwn, max_tokens, dispatchVars, generated>>

Echo(w) ==
  /\ wpc[w] = "busy" /\ wstage[w] = "idle" /\ ~Unanswered(w)
  /\ Resp!SendCall(w, Piece(w, 0, FALSE))
  /\ wstage' = [wstage EXCEPT ![w] = "generating"]
  /\ generated' = [generated EXCEPT ![w] = 0]
  /\ UNCHANGED <<ringOwn, max_tokens, dispatchVars>>

Send(w) ==
  /\ Resp!SendStep(w)
  /\ UNCHANGED <<ringOwn, max_tokens, dispatchVars, workerVars>>

(* Mutant: the worker's own limit is not applied.                          *)
BudgetAsAsked(t) == max_tokens[t]

Budget(t) == IF max_tokens[t] > LIMIT THEN LIMIT ELSE max_tokens[t]
MoreToSend(w) == wstage[w] = "generating" /\ generated[w] < Budget(slot[w].data)

(* Mutant: generated_tokens is not incremented.                            *)
TokenUncounted(w) ==
  /\ MoreToSend(w)
  /\ Resp!SendCall(w, Piece(w, generated[w] + 1,
                            generated[w] = Budget(slot[w].data) - 1))
  /\ UNCHANGED <<ringOwn, max_tokens, dispatchVars, workerVars>>

(* One turn of the generation loop; the model may choose the EOS token.    *)
Token(w) ==
  /\ MoreToSend(w)
  /\ Resp!SendCall(w, Piece(w, generated[w] + 1,
                            generated[w] = Budget(slot[w].data) - 1))
  /\ generated' = [generated EXCEPT ![w] = @ + 1]
  /\ UNCHANGED <<ringOwn, max_tokens, dispatchVars, wstage>>

Eos(w) ==
  /\ MoreToSend(w)
  /\ Resp!SendCall(w, Piece(w, generated[w] + 1, TRUE))
  /\ wstage' = [wstage EXCEPT ![w] = "finished"]
  /\ UNCHANGED <<ringOwn, max_tokens, dispatchVars, generated>>

(* Mutant: the request is signalled where EOS is sent and again at the end.*)
FinishTwice(w) ==
  /\ wstage[w] # "idle" /\ ~MoreToSend(w)
  /\ spc[w] = "idle" /\ wpc[w] = "busy"
  /\ wpc' = [wpc EXCEPT ![w] = "idle"]
  /\ sem_req_space' =
       [sem_req_space EXCEPT ![w] = @ + (IF wstage[w] = "finished" THEN 2 ELSE 1)]
  /\ wstage' = [wstage EXCEPT ![w] = "idle"]
  /\ UNCHANGED <<head, tail, req, sem_request_items, next_task_id, pc, head_val,
                 tail_val, slot, worker, task_id, slotOwn, max_tokens,
                 dispatchVars, generated>>

Finish(w) ==
  /\ wstage[w] # "idle" /\ ~MoreToSend(w)
  /\ spc[w] = "idle"
  /\ Ring!Handled(w)
  /\ wstage' = [wstage EXCEPT ![w] = "idle"]
  /\ UNCHANGED <<slotOwn, max_tokens, dispatchVars, generated>>

WorkerStep(w) ==
  Dequeue(w) \/ Skip(w) \/ Echo(w) \/ Send(w) \/ Token(w) \/ Eos(w) \/ Finish(w)

-----------------------------------------------------------------------------
Next ==
  \/ \E t \in Threads : (\E w \in Workers : Dispatch(t, w)) \/ ThreadStep(t)
  \/ \E w \in Workers : WorkerStep(w)

Spec == Init /\ [][Next]_vars

(* As in RequestRing: one thread at a time between load and store of head. *)
SerialSpec == Init /\ [][Next /\ Ring!OneProducer']_vars

(* Connections are handled, threads and workers are scheduled; a chunk     *)
(* posted back is not passed over for ever (see ResponseSlot).  Nothing is *)
(* assumed of the clients or of the token the model chooses.               *)
FairSerialSpec ==
  /\ SerialSpec
  /\ \A t \in Threads :
       /\ WF_vars(\E w \in Workers : Dispatch(t, w))
       /\ WF_vars(ThreadStep(t) /\ Ring!OneProducer')
       /\ SF_vars(Resp!WaitResp(t) /\ Receive(t))
  /\ \A w \in Workers : WF_vars(WorkerStep(w))

-----------------------------------------------------------------------------
(* Properties *)

(* Type of the state the composition adds; the parts keep theirs.          *)
TypeOK ==
  /\ Ring!TypeOK
  /\ Resp!TypeOK
  /\ max_tokens \in [Threads -> Budgets]
  /\ stage \in [Threads -> {"new", "enqueue", "receive", "done", "failed"}]
  /\ connected \in [Threads -> BOOLEAN]
  /\ delivered \in [Threads -> Seq(Resp!Chunk)]
  /\ wstage \in [Workers -> {"idle", "generating", "finished"}]
  /\ generated \in [Workers -> 0 .. LIMIT]

(* Whatever threads do to each other's slots of the ring, the semaphores   *)
(* of ring and response slot keep their account: a request that is torn,   *)
(* lost or served twice neither gains nor loses a unit of them.            *)
SemaphoresSurvive == Ring!SpaceConservation /\ Resp!TokenConservation

(* What a client is sent is its own answer, in order from the echo on,     *)
(* nothing missing or repeated, and nothing after a last piece.            *)
OwnAnswerInOrder ==
  \A t \in Threads :
    \A i \in DOMAIN delivered[t] :
      /\ delivered[t][i].data = [of |-> t, n |-> i - 1]
      /\ delivered[t][i].is_last_piece => i = Len(delivered[t])

(* A request that is answered got at least one token, no more than it      *)
(* asked for or the limit allows, and its last chunk says so.              *)
WholeAnswer ==
  \A t \in Threads :
    stage[t] = "done" /\ connected[t] =>
      /\ Len(delivered[t]) \in 2 .. Budget(t) + 1
      /\ delivered[t][Len(delivered[t])].is_last_piece

(* When no request is under way every semaphore is back at its initial     *)
(* value and the ring is empty: requests, answered, rejected or abandoned  *)
(* by their client, leave nothing behind.                                  *)
Quiescent ==
  /\ \A t \in Threads : stage[t] \in {"new", "done", "failed"}
  /\ \A w \in Workers : wpc[w] = "idle"

NothingLeftBehind ==
  Quiescent =>
    \A w \in Workers :
      /\ sem_request_items[w] = 0 /\ sem_req_space[w] = CAP
      /\ sem_resp[w] = 0 /\ sem_resp_consumed[w] = 1
      /\ head[w] = tail[w]

(* Every connection's request comes to an end, whether its client stays or *)
(* goes.                                                                   *)
EveryRequestEnds == \A t \in Threads : <>(stage[t] \in {"done", "failed"})

(* The dispatcher and the worker keep the protocol of the response slot.   *)
KeepsSlotProtocol == Resp!Spec
=============================================================================
