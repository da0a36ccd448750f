-------------------------- MODULE Pipeline_proofs --------------------------
(***************************************************************************)
(* Ring, response slot and the code that drives them, together: what holds *)
(* for any number of workers and threads and any interleaving, and that    *)
(* the driver keeps the protocols on which the proofs of the parts rest.   *)
(***************************************************************************)
EXTENDS Pipeline, FiniteSetTheorems, TLAPS

RingP == INSTANCE RequestRing_proofs
RespP == INSTANCE ResponseSlot_proofs

-----------------------------------------------------------------------------
(* The parts' proofs are about the composition's own variables.  RingP and *)
(* Ring, RespP and Resp are the same definitions.                          *)
LEMMA SameCardinality ==
  /\ \A S : RingP!Cardinality(S) = Cardinality(S)
  /\ \A S : RespP!Cardinality(S) = Cardinality(S)
  /\ \A S : Ring!Cardinality(S) = Cardinality(S)
  /\ \A S : Resp!Cardinality(S) = Cardinality(S)
BY DEF RingP!Cardinality, RespP!Cardinality, Ring!Cardinality,
       Resp!Cardinality, Cardinality

LEMMA SameFinite ==
  /\ \A S : RingP!IsFiniteSet(S) = IsFiniteSet(S)
  /\ \A S : RespP!IsFiniteSet(S) = IsFiniteSet(S)
BY DEF RingP!IsFiniteSet, RespP!IsFiniteSet, IsFiniteSet

LEMMA ThreadsCounted == Cardinality(Threads) \in Nat
BY PipelineAssumption, FS_CardinalityType

LEMMA RingAssumed == RingP!RingAssumption
BY PipelineAssumption, SameFinite DEF RingP!RingAssumption

LEMMA SlotAssumed == RespP!SlotAssumption
<1>1. TaskIds \subseteq Nat \ {0}
  BY ThreadsCounted DEF TaskIds
<1> QED BY <1>1, PipelineAssumption, SameFinite DEF RespP!SlotAssumption

LEMMA SameRingInit == RingP!Init <=> Ring!Init
BY DEF RingP!Init, RingP!EmptySlot, RingP!SlotOf,
       Ring!Init, Ring!EmptySlot, Ring!SlotOf

LEMMA SameEnqueueCall ==
  \A t \in Threads, w \in Workers :
    RingP!EnqueueCall(t, w) <=> Ring!EnqueueCall(t, w)
BY DEF RingP!EnqueueCall, RingP!Goto, RingP!workerVars,
       Ring!EnqueueCall, Ring!Goto, Ring!workerVars

LEMMA SameEnqueueStep ==
  \A t \in Threads : RingP!EnqueueStep(t) <=> Ring!EnqueueStep(t)
BY DEF RingP!EnqueueStep, RingP!WaitSpace, RingP!TakeTaskId, RingP!LoadHead,
       RingP!WriteId, RingP!WriteData, RingP!StoreHead, RingP!PostItem,
       RingP!Goto, RingP!SlotOf, RingP!workerVars,
       Ring!EnqueueStep, Ring!WaitSpace, Ring!TakeTaskId, Ring!LoadHead,
       Ring!WriteId, Ring!WriteData, Ring!StoreHead, Ring!PostItem,
       Ring!Goto, Ring!SlotOf, Ring!workerVars

LEMMA SameDequeueStep ==
  \A w \in Workers : RingP!DequeueStep(w) <=> Ring!DequeueStep(w)
BY DEF RingP!DequeueStep, RingP!WaitItem, RingP!FetchTail, RingP!CopyId,
       RingP!CopyData, RingP!WGoto, RingP!ReadSlot, RingP!SlotOf,
       RingP!threadVars,
       Ring!DequeueStep, Ring!WaitItem, Ring!FetchTail, Ring!CopyId,
       Ring!CopyData, Ring!WGoto, Ring!ReadSlot, Ring!SlotOf,
       Ring!threadVars

LEMMA SameHandled == \A w \in Workers : RingP!Handled(w) <=> Ring!Handled(w)
BY DEF RingP!Handled, RingP!WGoto, RingP!threadVars,
       Ring!Handled, Ring!WGoto, Ring!threadVars

LEMMA SameRingType == RingP!TypeOK <=> Ring!TypeOK
BY DEF RingP!TypeOK, RingP!ReqSlot, RingP!Messages, RingP!Enqueuing,
       RingP!Filling,
       Ring!TypeOK, Ring!ReqSlot, Ring!Messages, Ring!Enqueuing, Ring!Filling

LEMMA SameSpace == RingP!SpaceConservation <=> Ring!SpaceConservation
BY SameCardinality
   DEF RingP!SpaceConservation, RingP!Holding, RingP!Enqueuing, RingP!Filling,
       RingP!Serving,
       Ring!SpaceConservation, Ring!Holding, Ring!Enqueuing, Ring!Filling,
       Ring!Serving

LEMMA SameSlotSets ==
  /\ RespP!Chunk = Resp!Chunk
  /\ RespP!RespSlot = Resp!RespSlot
  /\ RespP!EmptySlot = Resp!EmptySlot
BY DEF RespP!Chunk, RespP!RespSlot, RespP!EmptySlot,
       Resp!Chunk, Resp!RespSlot, Resp!EmptySlot

LEMMA SameSlotType == RespP!TypeOK <=> Resp!TypeOK
BY SameSlotSets
   DEF RespP!TypeOK, RespP!Writing, RespP!HoldingToken, RespP!Checking,
       Resp!TypeOK, Resp!Writing, Resp!HoldingToken, Resp!Checking

LEMMA SameToken == RespP!TokenConservation <=> Resp!TokenConservation
BY SameCardinality
   DEF RespP!TokenConservation, RespP!Holders, RespP!HoldingToken,
       RespP!Checking, RespP!Sending, RespP!Writing,
       Resp!TokenConservation, Resp!Holders, Resp!HoldingToken,
       Resp!Checking, Resp!Sending, Resp!Writing

LEMMA SameSlotInit ==
  Resp!SlotInit /\ worker = [t \in Threads |-> NoWorker]
    /\ task_id = [t \in Threads |-> 0] => RespP!Init
BY DEF RespP!Init, RespP!SlotInit, RespP!EmptySlot, Resp!SlotInit,
       Resp!EmptySlot

LEMMA SameSendCall ==
  \A w \in Workers : \A c : RespP!SendCall(w, c) <=> Resp!SendCall(w, c)
BY DEF RespP!SendCall, RespP!SGoto, RespP!threadVars,
       Resp!SendCall, Resp!SGoto, Resp!threadVars

LEMMA SameSendStep ==
  \A w \in Workers : RespP!SendStep(w) <=> Resp!SendStep(w)
BY DEF RespP!SendStep, RespP!WaitConsumed, RespP!WriteId, RespP!WriteData,
       RespP!PostResp, RespP!SGoto, RespP!threadVars,
       Resp!SendStep, Resp!WaitConsumed, Resp!WriteId, Resp!WriteData,
       Resp!PostResp, Resp!SGoto, Resp!threadVars

LEMMA SameReceiveCall ==
  \A t \in Threads : RespP!ReceiveCall(t) <=> Resp!ReceiveCall(t)
BY DEF RespP!ReceiveCall, RespP!RGoto, RespP!senderVars,
       Resp!ReceiveCall, Resp!RGoto, Resp!senderVars

LEMMA SameReceiveStep ==
  \A t \in Threads : RespP!ReceiveStep(t) <=> Resp!ReceiveStep(t)
BY DEF RespP!ReceiveStep, RespP!WaitResp, RespP!LoadId, RespP!Copy,
       RespP!PostConsumed, RespP!PostBack, RespP!RGoto, RespP!senderVars,
       Resp!ReceiveStep, Resp!WaitResp, Resp!LoadId, Resp!Copy,
       Resp!PostConsumed, Resp!PostBack, Resp!RGoto, Resp!senderVars

-----------------------------------------------------------------------------
(* Where a thread is in process_message decides where it can be inside     *)
(* enqueue_request and wait_for_response_chunk; a worker that is answering *)
(* has a request that is to be answered.                                   *)
Places ==
  /\ \A t \in Threads :
       /\ stage[t] = "new" <=> pc[t] = "idle"
       /\ stage[t] \in {"receive", "done"} => pc[t] = "returned"
       /\ stage[t] # "receive" => rpc[t] = "idle"
  /\ \A w \in Workers :
       /\ wstage[w] # "idle" => wpc[w] = "busy" /\ ~Unanswered(w)
       /\ spc[w] # "idle" => wstage[w] # "idle"

(* What a thread that returned from the wait was given is a chunk.         *)
GotChunk ==
  \A t \in Threads :
    stage[t] = "receive" /\ rpc[t] \in {"idle", "post_consumed"} =>
      got[t] \in RespP!Chunk

DriverType ==
  /\ max_tokens \in [Threads -> Budgets]
  /\ stage \in [Threads -> {"new", "enqueue", "receive", "done", "failed"}]
  /\ connected \in [Threads -> BOOLEAN]
  /\ delivered \in [Threads -> Seq(Resp!Chunk)]
  /\ wstage \in [Workers -> {"idle", "generating", "finished"}]
  /\ generated \in [Workers -> 0 .. LIMIT]

(* The inductive invariant of the composition as the server runs it.       *)
PipelineInv == RingP!Basics /\ RespP!AnyInv /\ DriverType /\ Places /\ GotChunk

-----------------------------------------------------------------------------
(* Every step is one of the ring's or leaves the ring alone.               *)
LEMMA RingStep == [Next]_vars => [RingP!Next]_(RingP!vars)
<1> SUFFICES ASSUME [Next]_vars PROVE [RingP!Next]_(RingP!vars)
  OBVIOUS
<1>0. UNCHANGED ringVars <=> UNCHANGED RingP!vars
  BY DEF ringVars, ringOwn, RingP!vars, RingP!threadVars, RingP!workerVars
<1>1. ASSUME NEW t \in Threads, NEW w \in Workers, Dispatch(t, w)
      PROVE  RingP!Next
  BY <1>1, SameEnqueueCall DEF Dispatch, RingP!Next
<1>2. ASSUME NEW t \in Threads, Enqueue(t) PROVE RingP!Next
  BY <1>2, SameEnqueueStep DEF Enqueue, RingP!Next
<1>3. ASSUME NEW t \in Threads,
             Rejected(t) \/ StartReceiving(t) \/ Receive(t) \/ Callback(t)
      PROVE  UNCHANGED ringVars
  BY <1>3 DEF Rejected, StartReceiving, Receive, Callback, ringVars, slotOwn,
              Resp!ReceiveCall, Resp!ReceiveStep, Resp!WaitResp, Resp!LoadId,
              Resp!Copy, Resp!PostConsumed, Resp!PostBack
<1>4. ASSUME NEW w \in Workers, Dequeue(w) \/ Skip(w) \/ Finish(w)
      PROVE  RingP!Next
  BY <1>4, SameDequeueStep, SameHandled DEF Dequeue, Skip, Finish, RingP!Next
<1>5. ASSUME NEW w \in Workers, Echo(w) \/ Send(w) \/ Token(w) \/ Eos(w)
      PROVE  UNCHANGED ringVars
  BY <1>5 DEF Echo, Send, Token, Eos, ringVars, Resp!SendCall, Resp!SendStep,
              Resp!WaitConsumed, Resp!WriteId, Resp!WriteData, Resp!PostResp,
              Resp!threadVars
<1>6. CASE UNCHANGED vars
  BY <1>0, <1>6 DEF vars
<1> QED BY <1>0, <1>1, <1>2, <1>3, <1>4, <1>5, <1>6
        DEF Next, ThreadStep, WorkerStep

-----------------------------------------------------------------------------
LEMMA BudgetBound ==
  ASSUME DriverType, NEW t \in Threads
  PROVE  Budget(t) \in 0 .. LIMIT
<1>1. max_tokens[t] \in Nat /\ LIMIT \in Nat
  BY PipelineAssumption DEF DriverType
<1> QED BY <1>1 DEF Budget

(* What a worker sends is a chunk, of a task if its request is one.        *)
LEMMA PieceIsChunk ==
  ASSUME PipelineInv, NEW w \in Workers, ~Unanswered(w),
         NEW n \in 0 .. LIMIT, NEW last \in BOOLEAN
  PROVE  /\ Piece(w, n, last) \in RespP!AnyChunk
         /\ slot[w].task_id # 0 => Piece(w, n, last) \in RespP!Chunk
<1>1. slot[w].data \in Threads
  BY DEF PipelineInv, RingP!Basics, RingP!TypeOK, RingP!ReqSlot,
         RingP!Messages, Unanswered
<1>2. slot[w].task_id \in TaskIds \cup {0}
  BY ThreadsCounted, SameCardinality
     DEF PipelineInv, RingP!Basics, RingP!IdsWithin, RingP!Ids, TaskIds
<1>3. [of |-> slot[w].data, n |-> n] \in Payloads
  BY <1>1 DEF Payloads
<1> QED BY <1>2, <1>3 DEF Piece, RespP!AnyChunk, RespP!Chunk

(* The arguments of the sends of the generation loop.                      *)
LEMMA TokenArguments ==
  ASSUME PipelineInv, NEW w \in Workers, MoreToSend(w)
  PROVE  /\ ~Unanswered(w) /\ wpc[w] = "busy"
         /\ generated[w] + 1 \in 0 .. LIMIT
         /\ (generated[w] = Budget(slot[w].data) - 1) \in BOOLEAN
<1>1. ~Unanswered(w) /\ wpc[w] = "busy"
  BY DEF MoreToSend, PipelineInv, Places
<1>2. slot[w].data \in Threads
  BY <1>1 DEF PipelineInv, RingP!Basics, RingP!TypeOK, RingP!ReqSlot,
              RingP!Messages, Unanswered
<1>3. generated[w] \in 0 .. LIMIT /\ generated[w] < Budget(slot[w].data)
  BY DEF MoreToSend, PipelineInv, DriverType
<1>4. Budget(slot[w].data) \in 0 .. LIMIT
  BY <1>2, BudgetBound DEF PipelineInv
<1> QED BY <1>1, <1>3, <1>4, PipelineAssumption

(* Steps of a worker that call send_response_chunk.                        *)
Answering(w, c) ==
  /\ Resp!SendCall(w, c)
  /\ ~Unanswered(w) /\ wpc[w] = "busy"
  /\ UNCHANGED <<ringOwn, max_tokens, dispatchVars>>
  /\ c \in RespP!AnyChunk
  /\ slot[w].task_id # 0 => c \in RespP!Chunk

LEMMA AnsweringSteps ==
  ASSUME PipelineInv, NEW w \in Workers, Echo(w) \/ Token(w) \/ Eos(w)
  PROVE  \E c : Answering(w, c)
<1>1. CASE Echo(w)
  <2>1. 0 \in 0 .. LIMIT /\ FALSE \in BOOLEAN
    BY PipelineAssumption
  <2>2. ~Unanswered(w) /\ wpc[w] = "busy" /\ Resp!SendCall(w, Piece(w, 0, FALSE))
        /\ UNCHANGED <<ringOwn, max_tokens, dispatchVars>>
    BY <1>1 DEF Echo
  <2>3. Answering(w, Piece(w, 0, FALSE))
    BY <2>1, <2>2, PieceIsChunk DEF Answering
  <2> QED BY <2>3
<1>2. CASE Token(w)
  <2> DEFINE n == generated[w] + 1
             last == generated[w] = Budget(slot[w].data) - 1
  <2>1. MoreToSend(w)
    BY <1>2 DEF Token
  <2>2. ~Unanswered(w) /\ wpc[w] = "busy" /\ n \in 0 .. LIMIT /\ last \in BOOLEAN
    BY <2>1, TokenArguments
  <2>3. Resp!SendCall(w, Piece(w, n, last))
        /\ UNCHANGED <<ringOwn, max_tokens, dispatchVars>>
    BY <1>2 DEF Token
  <2> HIDE DEF n, last
  <2>4. Answering(w, Piece(w, n, last))
    BY <2>2, <2>3, PieceIsChunk DEF Answering
  <2> QED BY <2>4
<1>3. CASE Eos(w)
  <2> DEFINE n == generated[w] + 1
  <2>1. MoreToSend(w)
    BY <1>3 DEF Eos
  <2>2. ~Unanswered(w) /\ wpc[w] = "busy" /\ n \in 0 .. LIMIT
    BY <2>1, TokenArguments
  <2>3. Resp!SendCall(w, Piece(w, n, TRUE))
        /\ UNCHANGED <<ringOwn, max_tokens, dispatchVars>>
    BY <1>3 DEF Eos
  <2> HIDE DEF n
  <2>4. Answering(w, Piece(w, n, TRUE))
    BY <2>2, <2>3, PieceIsChunk DEF Answering
  <2> QED BY <2>4
<1> QED BY <1>1, <1>2, <1>3

(* The ring's steps seen from the slot: process_message sets the locals    *)
(* worker and task_id, and no two threads get the same id.                 *)
LEMMA RingStepForSlot ==
  ASSUME PipelineInv, NEW t \in Threads, UNCHANGED slotOwn,
         \/ Ring!EnqueueStep(t)
         \/ stage[t] = "new" /\ \E w \in Workers : Ring!EnqueueCall(t, w)
  PROVE  [RespP!Next]_(RespP!vars)
<1>0. /\ worker[t] \in Workers \/ pc[t] = "idle"
      /\ pc[t] # "returned" => rpc[t] = "idle"
      /\ task_id \in [Threads -> TaskIds \cup {0}]
  BY DEF PipelineInv, RingP!Basics, RingP!TypeOK, Places, RespP!AnyInv,
         RespP!TypeOK
<1>1. CASE Ring!TakeTaskId(t)
  <2>1. pc[t] = "take_id"
    BY <1>1 DEF Ring!TakeTaskId, Ring!Goto
  <2>2. next_task_id \in TaskIds \cup {0}
    BY <2>1, RingAssumed, RingP!NextIdWithin, ThreadsCounted, SameCardinality
       DEF PipelineInv, RingP!Basics, RingP!Ids, TaskIds
  <2>3. \A s \in Threads : task_id[s] # next_task_id
    BY DEF PipelineInv, RingP!Basics, RingP!TaskIdsUnique, RingP!TypeOK
  <2>4. worker' = [worker EXCEPT ![t] = worker[t]]
    BY <1>1 DEF PipelineInv, RingP!Basics, RingP!TypeOK, Ring!TakeTaskId
  <2>5. RespP!Dispatch(t, worker[t], next_task_id)
    BY <1>0, <1>1, <2>1, <2>3, <2>4
       DEF RespP!Dispatch, RespP!senderVars, Ring!TakeTaskId, slotOwn
  <2> QED BY <1>0, <2>1, <2>2, <2>5 DEF RespP!Next
<1>2. ASSUME NEW w \in Workers, stage[t] = "new", Ring!EnqueueCall(t, w)
      PROVE  RespP!Next
  <2>1. task_id' = [task_id EXCEPT ![t] = task_id[t]]
    BY <1>0, <1>2 DEF Ring!EnqueueCall
  <2>2. task_id[t] # 0 => \A s \in Threads \ {t} : task_id[s] # task_id[t]
    BY DEF PipelineInv, RingP!Basics, RingP!TaskIdsUnique
  <2>3. rpc[t] = "idle"
    BY <1>2 DEF PipelineInv, Places
  <2>4. RespP!Dispatch(t, w, task_id[t])
    BY <1>2, <2>1, <2>2, <2>3
       DEF RespP!Dispatch, RespP!senderVars, Ring!EnqueueCall, slotOwn
  <2> QED BY <1>0, <2>4 DEF RespP!Next
<1>3. ASSUME Ring!EnqueueStep(t), ~Ring!TakeTaskId(t)
      PROVE  UNCHANGED RespP!vars
  BY <1>3 DEF Ring!EnqueueStep, Ring!WaitSpace, Ring!LoadHead, Ring!WriteId,
              Ring!WriteData, Ring!StoreHead, Ring!PostItem, slotOwn,
              RespP!vars
<1> QED BY <1>1, <1>2, <1>3 DEF Ring!EnqueueStep

(* Every step is one of the slot's, its chunk identified if the worker's   *)
(* request is, or leaves the slot alone.                                   *)
Identifying == \A w \in Workers : wpc[w] = "busy" /\ ~Unanswered(w) => slot[w].task_id # 0

LEMMA SlotStep ==
  ASSUME PipelineInv, [Next]_vars
  PROVE  /\ [RespP!AnyNext]_(RespP!vars)
         /\ Identifying => [RespP!Next]_(RespP!vars)
<1>1. ASSUME NEW t \in Threads,
             Enqueue(t) \/ \E w \in Workers : Dispatch(t, w)
      PROVE  [RespP!Next]_(RespP!vars)
  BY <1>1, RingStepForSlot DEF Enqueue, Dispatch
<1>2. ASSUME NEW t \in Threads, StartReceiving(t) \/ Receive(t) \/ Callback(t)
      PROVE  [RespP!Next]_(RespP!vars)
  <2>1. CASE Receive(t)
    BY <2>1, SameReceiveStep DEF Receive, RespP!Next
  <2>2. CASE Resp!ReceiveCall(t)
    <3>1. pc[t] = "returned"
      BY <1>2, <2>2 DEF StartReceiving, Receive, Callback, PipelineInv, Places,
                   Resp!ReceiveCall, Resp!ReceiveStep, Resp!RGoto,
                   Resp!WaitResp, Resp!LoadId, Resp!Copy, Resp!PostConsumed,
                   Resp!PostBack
    <3>2. task_id[t] # 0
      BY <3>1 DEF PipelineInv, RingP!Basics, RingP!IdsCounted, RingP!TookId
    <3> QED BY <2>2, <3>2, SameReceiveCall DEF RespP!Next
  <2>3. CASE UNCHANGED <<slotOwn, worker, task_id>>
    BY <2>3 DEF slotOwn, RespP!vars
  <2> QED BY <1>2, <2>1, <2>2, <2>3 DEF StartReceiving, Callback
<1>3. ASSUME NEW w \in Workers, Echo(w) \/ Token(w) \/ Eos(w)
      PROVE  RespP!AnyNext /\ (Identifying => RespP!Next)
  <2>1. PICK c : Answering(w, c)
    BY <1>3, AnsweringSteps
  <2>2. RespP!SendCall(w, c)
    BY <2>1, SameSendCall DEF Answering
  <2> QED BY <2>1, <2>2
          DEF Answering, Identifying, RespP!AnyNext, RespP!Next
<1>4. ASSUME NEW w \in Workers, Send(w) PROVE RespP!Next
  BY <1>4, SameSendStep DEF Send, RespP!Next
<1>5. ASSUME NEW w \in Workers, Dequeue(w) \/ Skip(w) \/ Finish(w)
      PROVE  UNCHANGED RespP!vars
  BY <1>5 DEF Dequeue, Skip, Finish, slotOwn, RespP!vars, Ring!DequeueStep,
              Ring!WaitItem, Ring!FetchTail, Ring!CopyId, Ring!CopyData,
              Ring!Handled, Ring!threadVars
<1>6. ASSUME NEW t \in Threads, Rejected(t) PROVE UNCHANGED RespP!vars
  BY <1>6 DEF Rejected, ringVars, slotOwn, RespP!vars
<1>7. CASE UNCHANGED vars
  BY <1>7 DEF vars, ringVars, slotOwn, RespP!vars
<1>8. RespP!Next => RespP!AnyNext
  BY DEF RespP!AnyNext
<1> QED BY <1>1, <1>2, <1>3, <1>4, <1>5, <1>6, <1>7, <1>8
        DEF Next, ThreadStep, WorkerStep

-----------------------------------------------------------------------------
(* A slot in which a thread recognised its task id holds a whole chunk.    *)
LEMMA CopiesChunk ==
  ASSUME PipelineInv, NEW t \in Threads, rpc[t] = "copy"
  PROVE  /\ worker[t] \in Workers
         /\ resp_slot[worker[t]] \in RespP!Chunk
<1>1. /\ worker[t] \in Workers
      /\ task_id[t] \in TaskIds
      /\ resp_slot[worker[t]].task_id = task_id[t]
  BY DEF PipelineInv, RespP!AnyInv, RespP!TypeOK, RespP!InFlight
<1>2. RespP!Posted(worker[t])
  BY DEF RespP!Posted, RespP!Checking
<1>3. resp_slot[worker[t]] \in RespP!AnyChunk
  BY <1>1, <1>2 DEF PipelineInv, RespP!AnyInv, RespP!PostedWhole
<1> QED BY <1>1, <1>3 DEF RespP!AnyChunk, RespP!Chunk

LEMMA DriverTypePreserved == PipelineInv /\ [Next]_vars => DriverType'
<1> SUFFICES ASSUME PipelineInv, [Next]_vars PROVE DriverType'
  OBVIOUS
<1>0. DriverType
  BY DEF PipelineInv
<1>1. ASSUME NEW t \in Threads, NEW w \in Workers, Dispatch(t, w)
      PROVE  DriverType'
  BY <1>0, <1>1 DEF Dispatch, DriverType, workerVars
<1>2. ASSUME NEW t \in Threads,
             Enqueue(t) \/ Rejected(t) \/ StartReceiving(t) \/ Receive(t)
      PROVE  DriverType'
  BY <1>0, <1>2 DEF Enqueue, Rejected, StartReceiving, Receive, DriverType,
                    dispatchVars, workerVars
<1>3. ASSUME NEW t \in Threads, Callback(t) PROVE DriverType'
  <2>1. got[t] \in Resp!Chunk
    BY <1>3, SameSlotSets DEF Callback, PipelineInv, GotChunk
  <2>2. connected' \in [Threads -> BOOLEAN]
    BY <1>0, <1>3 DEF Callback, DriverType, Sent, Disconnected, Drained
  <2>3. delivered' \in [Threads -> Seq(Resp!Chunk)]
    <3>1. CASE Sent(t)
      <4>1. Append(delivered[t], got[t]) \in Seq(Resp!Chunk)
        BY <1>0, <2>1 DEF DriverType
      <4> QED BY <1>0, <3>1, <4>1 DEF Sent, DriverType
    <3> QED BY <1>0, <1>3, <3>1 DEF Callback, Disconnected, Drained, DriverType
  <2>4. stage' \in [Threads -> {"new", "enqueue", "receive", "done", "failed"}]
    BY <1>0, <1>3 DEF Callback, DriverType
  <2> QED BY <1>0, <1>3, <2>2, <2>3, <2>4 DEF Callback, DriverType, workerVars
<1>4. ASSUME NEW w \in Workers, Dequeue(w) \/ Skip(w) \/ Send(w)
      PROVE  DriverType'
  BY <1>0, <1>4 DEF Dequeue, Skip, Send, DriverType, dispatchVars, workerVars
<1>5. ASSUME NEW w \in Workers, Echo(w) PROVE DriverType'
  BY <1>0, <1>5, PipelineAssumption DEF Echo, DriverType, dispatchVars
<1>6. ASSUME NEW w \in Workers, Token(w) PROVE DriverType'
  <2>1. generated[w] + 1 \in 0 .. LIMIT
    BY <1>6, TokenArguments DEF Token
  <2> QED BY <1>0, <1>6, <2>1 DEF Token, DriverType, dispatchVars
<1>7. ASSUME NEW w \in Workers, Eos(w) \/ Finish(w) PROVE DriverType'
  BY <1>0, <1>7 DEF Eos, Finish, DriverType, dispatchVars
<1>8. CASE UNCHANGED vars
  BY <1>0, <1>8 DEF vars, dispatchVars, workerVars, DriverType
<1> QED BY <1>1, <1>2, <1>3, <1>4, <1>5, <1>6, <1>7, <1>8
        DEF Next, ThreadStep, WorkerStep

LEMMA PlacesPreserved == PipelineInv /\ [Next]_vars => Places'
<1> SUFFICES ASSUME PipelineInv, [Next]_vars PROVE Places'
  OBVIOUS
<1>0. Places /\ DriverType /\ RingP!TypeOK /\ RespP!TypeOK
  BY DEF PipelineInv, RingP!Basics, RespP!AnyInv
<1> USE DEF Places, DriverType, RingP!TypeOK, RespP!TypeOK, Unanswered
<1>1. ASSUME NEW t \in Threads, NEW w \in Workers, Dispatch(t, w)
      PROVE  Places'
  BY <1>0, <1>1 DEF Dispatch, Ring!EnqueueCall, Ring!Goto, Ring!workerVars,
                    slotOwn, workerVars
<1>2. ASSUME NEW t \in Threads, Enqueue(t) PROVE Places'
  <2>1. UNCHANGED <<stage, rpc, wstage, wpc, spc, slot>>
    BY <1>2 DEF Enqueue, slotOwn, dispatchVars, workerVars, Ring!workerVars,
                Ring!EnqueueStep, Ring!WaitSpace, Ring!TakeTaskId,
                Ring!LoadHead, Ring!WriteId, Ring!WriteData, Ring!StoreHead,
                Ring!PostItem
  <2>2. /\ pc[t] \notin {"idle", "returned"} /\ pc'[t] # "idle"
        /\ \A s \in Threads \ {t} : pc'[s] = pc[s]
    BY <1>0, <1>2
       DEF Enqueue, Ring!Goto, Ring!EnqueueStep, Ring!WaitSpace,
           Ring!TakeTaskId, Ring!LoadHead, Ring!WriteId, Ring!WriteData,
           Ring!StoreHead, Ring!PostItem
  <2> QED BY <1>0, <2>1, <2>2
<1>3. ASSUME NEW t \in Threads, Rejected(t) PROVE Places'
  BY <1>0, <1>3 DEF Rejected, ringVars, ringOwn, slotOwn, workerVars
<1>4. ASSUME NEW t \in Threads, StartReceiving(t) PROVE Places'
  BY <1>0, <1>4 DEF StartReceiving, ringOwn, workerVars, Resp!ReceiveCall,
                    Resp!RGoto, Resp!senderVars
<1>5. ASSUME NEW t \in Threads, Receive(t) PROVE Places'
  BY <1>0, <1>5 DEF Receive, ringOwn, dispatchVars, workerVars,
                    Resp!ReceiveStep, Resp!WaitResp, Resp!LoadId, Resp!Copy,
                    Resp!PostConsumed, Resp!PostBack, Resp!RGoto,
                    Resp!senderVars
<1>6. ASSUME NEW t \in Threads, Callback(t) PROVE Places'
  BY <1>0, <1>6 DEF Callback, ringOwn, slotOwn, workerVars, Resp!ReceiveCall,
                    Resp!RGoto, Resp!senderVars
<1>7. ASSUME NEW w \in Workers, Dequeue(w) PROVE Places'
  <2>1. UNCHANGED <<stage, rpc, pc, wstage, spc>>
    BY <1>7 DEF Dequeue, slotOwn, dispatchVars, workerVars, Ring!threadVars,
                Ring!DequeueStep, Ring!WaitItem, Ring!FetchTail, Ring!CopyId,
                Ring!CopyData
  <2>2. /\ wpc[w] # "busy"
        /\ \A v \in Workers \ {w} : wpc'[v] = wpc[v] /\ slot'[v] = slot[v]
    BY <1>0, <1>7
       DEF Dequeue, Ring!DequeueStep, Ring!WaitItem, Ring!FetchTail,
           Ring!CopyId, Ring!CopyData, Ring!WGoto
  <2> QED BY <1>0, <2>1, <2>2
<1>8. ASSUME NEW w \in Workers, Skip(w) \/ Finish(w) PROVE Places'
  <2>1. UNCHANGED <<stage, rpc, pc, spc, slot>>
    BY <1>8 DEF Skip, Finish, slotOwn, dispatchVars, Ring!threadVars,
                Ring!Handled
  <2>2. /\ wstage'[w] = "idle" /\ spc[w] = "idle"
        /\ \A v \in Workers \ {w} :
             wpc'[v] = wpc[v] /\ wstage'[v] = wstage[v]
    BY <1>0, <1>8 DEF Skip, Finish, workerVars, Ring!Handled, Ring!WGoto
  <2> QED BY <1>0, <2>1, <2>2
<1>9. ASSUME NEW w \in Workers, Echo(w) PROVE Places'
  BY <1>0, <1>9 DEF Echo, ringOwn, dispatchVars, Resp!SendCall, Resp!SGoto,
                    Resp!threadVars
<1>10. ASSUME NEW w \in Workers, Send(w) PROVE Places'
  BY <1>0, <1>10 DEF Send, ringOwn, dispatchVars, workerVars, Resp!SendStep,
                     Resp!WaitConsumed, Resp!WriteId, Resp!WriteData,
                     Resp!PostResp, Resp!SGoto, Resp!threadVars
<1>11. ASSUME NEW w \in Workers, Token(w) \/ Eos(w) PROVE Places'
  <2>1. UNCHANGED <<stage, rpc, pc, wpc, slot>>
    BY <1>11 DEF Token, Eos, ringOwn, dispatchVars, Resp!SendCall,
                 Resp!threadVars
  <2>2. /\ wstage[w] = "generating" /\ wstage'[w] # "idle"
        /\ \A v \in Workers \ {w} :
             spc'[v] = spc[v] /\ wstage'[v] = wstage[v]
    BY <1>0, <1>11 DEF Token, Eos, MoreToSend, Resp!SendCall, Resp!SGoto
  <2> QED BY <1>0, <2>1, <2>2
<1>12. CASE UNCHANGED vars
  BY <1>0, <1>12 DEF vars, ringVars, ringOwn, slotOwn, dispatchVars, workerVars
<1> QED BY <1>1, <1>2, <1>3, <1>4, <1>5, <1>6, <1>7, <1>8, <1>9, <1>10, <1>11,
           <1>12 DEF Next, ThreadStep, WorkerStep

LEMMA GotChunkPreserved == PipelineInv /\ [Next]_vars => GotChunk'
<1> SUFFICES ASSUME PipelineInv, [Next]_vars PROVE GotChunk'
  OBVIOUS
<1>0. Places /\ DriverType /\ RespP!TypeOK /\ GotChunk
  BY DEF PipelineInv, RespP!AnyInv
<1>1. ASSUME NEW t \in Threads, Receive(t) PROVE GotChunk'
  <2>1. CASE Resp!Copy(t)
    <3>1. rpc[t] = "copy"
      BY <2>1 DEF Resp!Copy, Resp!RGoto
    <3>2. resp_slot[worker[t]] \in RespP!Chunk
      BY <3>1, CopiesChunk
    <3> QED BY <1>0, <1>1, <2>1, <3>2
            DEF Resp!Copy, Resp!RGoto, Receive, GotChunk, RespP!TypeOK,
                dispatchVars, RespP!Chunk
  <2>2. ASSUME Resp!ReceiveStep(t), ~Resp!Copy(t) PROVE GotChunk'
    BY <1>0, <1>1, <2>2
       DEF Receive, Resp!ReceiveStep, Resp!WaitResp, Resp!LoadId,
           Resp!PostConsumed, Resp!PostBack, Resp!RGoto, GotChunk,
           RespP!TypeOK, dispatchVars, RespP!Chunk
  <2> QED BY <1>1, <2>1, <2>2 DEF Receive
<1>2. ASSUME NEW t \in Threads, StartReceiving(t) \/ Callback(t)
      PROVE  GotChunk'
  BY <1>0, <1>2 DEF StartReceiving, Callback, Resp!ReceiveCall, Resp!RGoto,
                    GotChunk, RespP!TypeOK, DriverType, slotOwn, RespP!Chunk
<1>3. ASSUME NEW t \in Threads,
             Enqueue(t) \/ Rejected(t) \/ \E w \in Workers : Dispatch(t, w)
      PROVE  GotChunk'
  BY <1>0, <1>3 DEF Enqueue, Rejected, Dispatch, GotChunk, DriverType,
                    slotOwn, dispatchVars, RespP!Chunk
<1>4. ASSUME NEW w \in Workers, WorkerStep(w)
      PROVE  UNCHANGED <<stage, rpc, got>>
  BY <1>4 DEF WorkerStep, Dequeue, Skip, Echo, Send, Token, Eos, Finish,
              slotOwn, dispatchVars, Resp!SendCall, Resp!SendStep,
              Resp!WaitConsumed, Resp!WriteId, Resp!WriteData, Resp!PostResp,
              Resp!threadVars
<1>5. UNCHANGED vars => UNCHANGED <<stage, rpc, got>>
  BY DEF vars, slotOwn, dispatchVars
<1>6. CASE UNCHANGED <<stage, rpc, got>>
  BY <1>0, <1>6 DEF GotChunk, RespP!Chunk
<1> QED BY <1>1, <1>2, <1>3, <1>4, <1>5, <1>6 DEF Next, ThreadStep

LEMMA PipelineInvPreserved == PipelineInv /\ [Next]_vars => PipelineInv'
<1> SUFFICES ASSUME PipelineInv, [Next]_vars PROVE PipelineInv'
  OBVIOUS
<1>1. RingP!Basics'
  BY RingAssumed, RingStep, RingP!BasicsPreserved DEF PipelineInv
<1>2. RespP!AnyInv'
  BY SlotAssumed, SlotStep, RespP!AnyInvPreserved DEF PipelineInv
<1> QED BY <1>1, <1>2, DriverTypePreserved, PlacesPreserved,
           GotChunkPreserved DEF PipelineInv

LEMMA PipelineInvInit == Init => PipelineInv
<1> SUFFICES ASSUME Init PROVE PipelineInv
  OBVIOUS
<1>1. RingP!Basics
  BY RingAssumed, SameRingInit, RingP!BasicsInit DEF Init
<1>2. RespP!Init
  BY SameSlotInit DEF Init, Ring!Init
<1>3. RespP!AnyInv
  BY <1>2, SlotAssumed, RespP!AnyInvInit
<1>4. DriverType
  <2>1. 0 \in 0 .. LIMIT /\ <<>> \in Seq(Resp!Chunk)
    BY PipelineAssumption
  <2> QED BY <2>1 DEF Init, DriverType
<1>5. Places /\ GotChunk
  BY DEF Init, Ring!Init, Resp!SlotInit, Places, GotChunk
<1> QED BY <1>1, <1>3, <1>4, <1>5 DEF PipelineInv

(* Every variable keeps its type, however threads interleave: the          *)
(* invariant TypeOK of the runs.                                           *)
THEOREM PipelineTypeCorrect == Spec => []TypeOK
<1>1. Spec => []PipelineInv
  BY PipelineInvInit, PipelineInvPreserved, PTL DEF Spec
<1>2. PipelineInv => TypeOK
  BY SameRingType, SameSlotType
     DEF PipelineInv, RingP!Basics, RespP!AnyInv, DriverType, TypeOK
<1> QED BY <1>1, <1>2, PTL

(* Torn, lost or doubled requests neither gain nor lose a unit of the      *)
(* semaphores: the invariant SemaphoresSurvive of the runs.                *)
THEOREM SemaphoresAreConserved == Spec => []SemaphoresSurvive
<1>1. Spec => []PipelineInv
  BY PipelineInvInit, PipelineInvPreserved, PTL DEF Spec
<1>2. PipelineInv => SemaphoresSurvive
  BY SameSpace, SameToken
     DEF PipelineInv, RingP!Basics, RespP!AnyInv, SemaphoresSurvive
<1> QED BY <1>1, <1>2, PTL

-----------------------------------------------------------------------------
(* With one thread at a time between load and store of head.               *)
SerialInv == PipelineInv /\ RingP!RingInv

LEMMA SerialRingStep ==
  [Next /\ Ring!OneProducer']_vars => [RingP!SerialNext]_(RingP!vars)
<1>1. RingP!OneProducer' <=> Ring!OneProducer'
  BY DEF RingP!OneProducer, RingP!Filling, Ring!OneProducer, Ring!Filling
<1> QED BY <1>1, RingStep
        DEF RingP!SerialNext, vars, ringVars, ringOwn, RingP!vars,
            RingP!threadVars, RingP!workerVars

LEMMA SerialInvPreserved ==
  SerialInv /\ [Next /\ Ring!OneProducer']_vars => SerialInv'
BY PipelineInvPreserved, SerialRingStep, RingAssumed, RingP!RingInvPreserved
   DEF SerialInv

LEMMA SerialInvInit == Init => SerialInv
BY PipelineInvInit, RingAssumed, SameRingInit, RingP!RingInvInit
   DEF SerialInv, Init

(* A worker serves whole requests, so its chunks carry their tasks' ids.   *)
LEMMA SerialIdentifies == SerialInv => Identifying
<1> SUFFICES ASSUME SerialInv, NEW w \in Workers, wpc[w] = "busy"
             PROVE  slot[w].task_id # 0
  BY DEF Identifying
<1>1. RingP!Published(w, slot[w]) /\ RingP!IdsCounted
  BY DEF SerialInv, RingP!RingInv, RingP!CopiedRequest
<1> QED BY <1>1 DEF RingP!Published, RingP!IdsCounted, RingP!TookId

LEMMA SerialSlotStep ==
  SerialInv /\ [Next /\ Ring!OneProducer']_vars => [RespP!Next]_(RespP!vars)
BY SlotStep, SerialIdentifies DEF SerialInv

LEMMA SameSlotSpec ==
  /\ RespP!Init <=> Resp!Init
  /\ RespP!Next <=> Resp!Next
<1>1. RespP!Init <=> Resp!Init
  BY DEF RespP!Init, RespP!SlotInit, RespP!EmptySlot,
         Resp!Init, Resp!SlotInit, Resp!EmptySlot
<1>2. \A t \in Threads, w \in Workers : \A id :
        RespP!Dispatch(t, w, id) <=> Resp!Dispatch(t, w, id)
  BY DEF RespP!Dispatch, RespP!senderVars, Resp!Dispatch, Resp!senderVars
<1>3. RespP!Next <=> Resp!Next
  BY <1>2, SameSendCall, SameSendStep, SameReceiveCall, SameReceiveStep,
     SameSlotSets DEF RespP!Next, Resp!Next
<1> QED BY <1>1, <1>3

(* The dispatcher and the worker keep the protocol of the response slot:   *)
(* the property KeepsSlotProtocol of the runs.  So what is proved of the   *)
(* slot under its protocol holds of the program.                           *)
THEOREM DriverKeepsSlotProtocol == SerialSpec => KeepsSlotProtocol
<1>1. Init => Resp!Init
  BY DEF Init, Ring!Init, Resp!Init
<1>2. SerialInv /\ [Next /\ Ring!OneProducer']_vars => [Resp!Next]_(Resp!vars)
  BY SerialSlotStep, SameSlotSpec DEF RespP!vars, Resp!vars
<1> QED BY <1>1, <1>2, SerialInvInit, SerialInvPreserved, PTL
        DEF SerialSpec, KeepsSlotProtocol, Resp!Spec

(* In the composition the ring is a queue and the slot a mailbox, as they  *)
(* are on their own: ImplementsTaskQueue of RequestRing and                *)
(* ImplementsMailbox of ResponseSlot.                                      *)
THEOREM PartsImplementTheirs ==
  SerialSpec => RingP!ImplementsTaskQueue /\ RespP!ImplementsMailbox
<1>1. SerialSpec => RingP!SerialSpec
  <2>1. Init => RingP!Init
    BY SameRingInit DEF Init
  <2> QED BY <2>1, SerialRingStep, PTL DEF SerialSpec, RingP!SerialSpec
<1>2. SerialSpec => RespP!Spec
  <2>1. Init => RespP!Init
    BY SameSlotInit DEF Init, Ring!Init
  <2> QED BY <2>1, SerialSlotStep, SerialInvInit, SerialInvPreserved, PTL
          DEF SerialSpec, RespP!Spec
<1> QED BY <1>1, <1>2, RingAssumed, SlotAssumed,
           RingP!RingImplementsTaskQueue, RespP!SlotImplementsMailbox, PTL

-----------------------------------------------------------------------------
(* What clients are sent, with one thread at a time between load and store *)
(* of head: every client its own answer, in order, whole and within its    *)
(* budget, for any number of workers, threads and tokens.                  *)

NoChunk == RespP!EmptySlot
Count(b) == IF b THEN 1 ELSE 0

(* The chunks of its answer a worker has called send_response_chunk for,   *)
(* and those a thread has copied from the slot.                            *)
SentBy(w) ==
  IF wstage[w] = "idle" THEN 0
  ELSE IF wstage[w] = "generating" THEN generated[w] + 1
  ELSE generated[w] + 2
NextOf(t) == IF got[t] = NoChunk THEN 0 ELSE got[t].data.n + 1

PostedTo(w, t) == RespP!Posted(w) /\ resp_slot[w].data.of = t

(* Chunk c is within the budget of its request; the echo is not last.      *)
Fits(c) ==
  /\ c.data.n <= Budget(c.data.of)
  /\ c.is_last_piece => c.data.n >= 1

(* If c is flagged as the last piece, worker w sent nothing after it and   *)
(* is not going to.                                                        *)
Closes(w, c) ==
  c.is_last_piece => c.data.n + 1 = SentBy(w) /\ ~MoreToSend(w)

(* A chunk is with the thread, in the slot, or with the worker that sends  *)
(* it, and these hold consecutive chunks of the answer.                    *)
Account(w, t) ==
  /\ SentBy(w) = NextOf(t) + Count(PostedTo(w, t)) + Count(spc[w] # "idle")
  /\ SentBy(w) <= Budget(t) + 1
  /\ spc[w] # "idle" =>
       /\ chunk[w].task_id = slot[w].task_id
       /\ chunk[w].data.of = t
       /\ chunk[w].data.n + 1 = SentBy(w)
       /\ Fits(chunk[w]) /\ Closes(w, chunk[w])
  /\ PostedTo(w, t) => Closes(w, resp_slot[w])
  /\ Closes(w, got[t])

Serves(w, t) == wpc[w] = "busy" /\ slot[w].data = t

ServingFits ==
  \A w \in Workers, t \in Threads : Serves(w, t) => Account(w, t)

(* A chunk in the slot is the next one of the thread it is for, which may  *)
(* be one whose request the worker has done with.                          *)
PostedFits ==
  \A w \in Workers, t \in Threads : PostedTo(w, t) =>
    /\ worker[t] = w /\ task_id[t] = resp_slot[w].task_id
    /\ resp_slot[w].data.n = NextOf(t) /\ got[t].is_last_piece = FALSE
    /\ Fits(resp_slot[w])

GotFits ==
  \A t \in Threads : got[t] # NoChunk =>
    /\ got[t] \in RespP!Chunk /\ got[t].data.of = t /\ Fits(got[t])
    /\ stage[t] \in {"receive", "done"}

(* A thread whose answer has begun has no request waiting any more.        *)
Begun(t) == got[t] # NoChunk \/ \E w \in Workers : PostedTo(w, t)
BegunGone ==
  \A t \in Threads :
    Begun(t) => pc[t] \in {"post_item", "returned"} /\ RingP!Gone(t)

(* The chunk a thread has is still to be handed to its client.             *)
Pending(t) == stage[t] = "receive" /\ rpc[t] \in {"idle", "post_consumed"}

DeliveredTo(t) ==
  /\ connected[t] => Len(delivered[t]) + Count(Pending(t)) = NextOf(t)
  /\ \A i \in DOMAIN delivered[t] :
       /\ delivered[t][i].data = [of |-> t, n |-> i - 1]
       /\ delivered[t][i].is_last_piece =>
            stage[t] = "done" /\ i = Len(delivered[t])
  /\ stage[t] = "done" =>
       /\ got[t].is_last_piece
       /\ connected[t] => delivered[t][Len(delivered[t])] = got[t]
  /\ stage[t] = "receive" /\ ~Pending(t) => ~got[t].is_last_piece
  /\ stage[t] = "failed" => pc[t] = "rejected"

Delivered == \A t \in Threads : DeliveredTo(t)

(* The inductive invariant of the answers.                                 *)
AnswerInv ==
  /\ SerialInv /\ RespP!Identified /\ RingP!EachOnce /\ RingP!NotCanceled
  /\ ServingFits /\ PostedFits /\ GotFits /\ BegunGone /\ Delivered

-----------------------------------------------------------------------------
LEMMA SamePostResp ==
  \A w \in Workers : RespP!PostResp(w) <=> Resp!PostResp(w)
BY DEF RespP!PostResp, RespP!SGoto, RespP!threadVars,
       Resp!PostResp, Resp!SGoto, Resp!threadVars

LEMMA SameCopy == \A t \in Threads : RespP!Copy(t) <=> Resp!Copy(t)
BY DEF RespP!Copy, RespP!RGoto, RespP!senderVars,
       Resp!Copy, Resp!RGoto, Resp!senderVars

LEMMA SameCopyData == \A w \in Workers : RingP!CopyData(w) <=> Ring!CopyData(w)
BY DEF RingP!CopyData, RingP!WGoto, RingP!ReadSlot, RingP!SlotOf,
       RingP!threadVars, Ring!CopyData, Ring!WGoto, Ring!ReadSlot,
       Ring!SlotOf, Ring!threadVars

(* What the invariants of the parts say, for the proofs below to cite.     *)
LEMMA AnswerFacts ==
  ASSUME AnswerInv
  PROVE  /\ PipelineInv /\ DriverType /\ Places /\ GotChunk
         /\ RingP!RingInv /\ RingP!TypeOK /\ RingP!TaskIdsUnique
         /\ RespP!AnyInv /\ RespP!TypeOK /\ RespP!TokenConservation
         /\ RespP!InFlight /\ RespP!PostedWhole
BY DEF AnswerInv, SerialInv, PipelineInv, RingP!Basics, RespP!AnyInv

(* The request a worker serves is that of a thread that waits for it.      *)
LEMMA ServedThread ==
  ASSUME AnswerInv, NEW w \in Workers, wpc[w] = "busy"
  PROVE  \E t \in Threads : Serves(w, t)
<1>1. RingP!Published(w, slot[w])
  BY AnswerFacts DEF RingP!RingInv, RingP!CopiedRequest
<1> QED BY <1>1 DEF RingP!Published, Serves

LEMMA ServedFacts ==
  ASSUME AnswerInv, NEW w \in Workers, NEW t \in Threads, Serves(w, t)
  PROVE  /\ wpc[w] = "busy" /\ worker[t] = w
         /\ RingP!Settled(t) /\ RingP!Gone(t)
         /\ slot[w].task_id = task_id[t]
<1>1. RingP!Published(w, slot[w])
  BY AnswerFacts DEF RingP!RingInv, RingP!CopiedRequest, Serves
<1>2. RingP!Gone(t)
  BY AnswerFacts, RingAssumed, RingP!ServedIsGone DEF AnswerInv, Serves
<1> QED BY <1>1, <1>2 DEF RingP!Published, RingP!Settled, Serves

LEMMA PostedChunk ==
  ASSUME AnswerInv, NEW w \in Workers, RespP!Posted(w)
  PROVE  /\ resp_slot[w] \in RespP!AnyChunk
         /\ resp_slot[w].data \in Payloads
         /\ resp_slot[w].data.of \in Threads
         /\ resp_slot[w].data.n \in 0 .. LIMIT
BY AnswerFacts DEF RespP!PostedWhole, RespP!AnyChunk, Payloads

LEMMA GotPlace ==
  ASSUME AnswerInv, NEW t \in Threads
  PROVE  /\ NextOf(t) \in Nat
         /\ got[t].is_last_piece => got[t] # NoChunk
         /\ got[t] # NoChunk =>
              /\ got[t].data \in Payloads /\ got[t].is_last_piece \in BOOLEAN
              /\ got[t].data.n \in 0 .. LIMIT /\ NextOf(t) = got[t].data.n + 1
<1>1. NoChunk.is_last_piece = FALSE
  BY DEF NoChunk, RespP!EmptySlot
<1>2. got[t] # NoChunk => got[t].data \in Payloads /\ got[t].is_last_piece \in BOOLEAN
  BY DEF AnswerInv, GotFits, RespP!Chunk
<1>3. got[t] # NoChunk => got[t].data.n \in 0 .. LIMIT
  BY <1>2 DEF Payloads
<1> QED BY <1>1, <1>2, <1>3, PipelineAssumption DEF NextOf

(* A thread copies a chunk that was sent for it.                           *)
LEMMA CopiesOwn ==
  ASSUME AnswerInv, NEW t \in Threads, RespP!Copy(t)
  PROVE  /\ worker[t] \in Workers /\ PostedTo(worker[t], t)
         /\ stage[t] = "receive" /\ rpc[t] = "copy"
         /\ rpc' = [rpc EXCEPT ![t] = "post_consumed"]
         /\ resp_slot[worker[t]] \in RespP!Chunk
         /\ got' = [got EXCEPT ![t] = resp_slot[worker[t]]]
         /\ \A w \in Workers : worker[t] = w => ~RespP!Posted(w)'
<1>1. /\ worker[t] \in Workers /\ RespP!Posted(worker[t])
      /\ resp_slot[worker[t]].task_id = task_id[t] /\ task_id[t] # 0
  BY AnswerFacts, SlotAssumed, RespP!CopyTakes
<1>2. /\ rpc[t] = "copy" /\ got' = [got EXCEPT ![t] = resp_slot[worker[t]]]
      /\ rpc' = [rpc EXCEPT ![t] = "post_consumed"]
  BY DEF RespP!Copy, RespP!RGoto
<1>3. resp_slot[worker[t]] \in RespP!Chunk
  BY <1>2, AnswerFacts, CopiesChunk
<1>4. resp_slot[worker[t]].data.of = t
  <2>1. PICK s \in Threads : s = resp_slot[worker[t]].data.of
    BY <1>1, PostedChunk
  <2>2. task_id[s] = task_id[t]
    BY <1>1, <2>1 DEF AnswerInv, PostedFits, PostedTo
  <2> QED BY <1>1, <2>1, <2>2, AnswerFacts DEF RingP!TaskIdsUnique
<1>5. stage[t] = "receive"
  BY <1>2, AnswerFacts DEF Places
<1>6. ASSUME NEW w \in Workers, worker[t] = w PROVE ~RespP!Posted(w)'
  <2>1. ~RespP!Posted(worker[t])'
    BY AnswerFacts, SlotAssumed, RespP!CopyTakes
  <2>2. worker'[t] = w
    BY <1>6 DEF RespP!Copy
  <2> QED BY <2>1, <2>2
<1> QED BY <1>1, <1>2, <1>3, <1>4, <1>5, <1>6 DEF PostedTo

-----------------------------------------------------------------------------
(* How the pieces of the invariant move in a step.                         *)
LEMMA BudgetsKept ==
  [Next]_vars => max_tokens' = max_tokens
<1>1. ASSUME NEW t \in Threads, ThreadStep(t) \/ \E w \in Workers : Dispatch(t, w)
      PROVE  max_tokens' = max_tokens
  BY <1>1 DEF ThreadStep, Dispatch, Enqueue, Rejected, StartReceiving, Receive,
              Callback
<1>2. ASSUME NEW w \in Workers, WorkerStep(w) PROVE max_tokens' = max_tokens
  BY <1>2 DEF WorkerStep, Dequeue, Skip, Echo, Send, Token, Eos, Finish
<1>3. UNCHANGED vars => max_tokens' = max_tokens
  BY DEF vars
<1> QED BY <1>1, <1>2, <1>3 DEF Next

LEMMA OwnersStay ==
  ASSUME AnswerInv, [Next]_vars, NEW t \in Threads, RingP!Settled(t)
  PROVE  /\ RingP!Settled(t)'
         /\ worker'[t] = worker[t] /\ task_id'[t] = task_id[t]
BY AnswerFacts, RingAssumed, RingStep, RingP!SettledStays

(* Only the copy changes what a thread was given.                          *)
LEMMA GotMoves ==
  ASSUME AnswerInv, [Next]_vars, NEW t \in Threads, ~RespP!Copy(t)
  PROVE  got'[t] = got[t]
<1>0. got \in [Threads -> RespP!RespSlot]
  BY AnswerFacts DEF RespP!TypeOK
<1>1. ASSUME NEW s \in Threads, Receive(s) PROVE got'[t] = got[t]
  <2>1. CASE Resp!Copy(s)
    BY <1>0, <2>1, SameCopy DEF Resp!Copy
  <2>2. CASE Resp!ReceiveStep(s) /\ ~Resp!Copy(s)
    BY <2>2 DEF Resp!ReceiveStep, Resp!WaitResp, Resp!LoadId,
                Resp!PostConsumed, Resp!PostBack
  <2> QED BY <1>1, <2>1, <2>2 DEF Receive
<1>2. ASSUME NEW s \in Threads,
             \/ Enqueue(s) \/ Rejected(s) \/ StartReceiving(s) \/ Callback(s)
             \/ \E w \in Workers : Dispatch(s, w)
      PROVE  got' = got
  BY <1>2 DEF Dispatch, Enqueue, Rejected, StartReceiving, Callback,
              slotOwn, Resp!ReceiveCall
<1>3. ASSUME NEW w \in Workers, WorkerStep(w) PROVE got' = got
  BY <1>3 DEF WorkerStep, Dequeue, Skip, Echo, Send, Token, Eos, Finish,
              slotOwn, Resp!SendCall, Resp!SendStep, Resp!WaitConsumed,
              Resp!WriteId, Resp!WriteData, Resp!PostResp, Resp!threadVars
<1>4. UNCHANGED vars => got' = got
  BY DEF vars, slotOwn
<1> QED BY <1>1, <1>2, <1>3, <1>4 DEF Next, ThreadStep

(* A chunk in the slot was there before or is posted now.                  *)
LEMMA PostedMoves ==
  ASSUME AnswerInv, [Next]_vars, NEW w \in Workers, RespP!Posted(w)'
  PROVE  \/ RespP!Posted(w) /\ resp_slot'[w] = resp_slot[w]
         \/ /\ RespP!PostResp(w) /\ ~RespP!Posted(w)
            /\ resp_slot'[w] = chunk[w]
<1>0. [RespP!AnyNext]_(RespP!vars)
  BY AnswerFacts, SlotStep
<1>1. CASE RespP!Posted(w)
  BY <1>0, <1>1, AnswerFacts, SlotAssumed, RespP!PostedSlotKept
<1>2. CASE RespP!PostResp(w)
  BY <1>2, AnswerFacts, SlotAssumed, RespP!PostRespPuts
<1>3. CASE ~RespP!Posted(w) /\ ~RespP!PostResp(w)
  <2>1. \A t \in Threads : worker[t] = w => ~RespP!Copy(t)
    BY <1>3, CopiesOwn DEF PostedTo
  <2> QED BY <1>0, <1>3, <2>1, AnswerFacts, SlotAssumed, RespP!PostedKeptAt
<1> QED BY <1>1, <1>2, <1>3

(* A chunk leaves the slot only when a thread copies it.                   *)
LEMMA PostedLeaves ==
  ASSUME AnswerInv, [Next]_vars, NEW w \in Workers, RespP!Posted(w),
         \A t \in Threads : worker[t] = w => ~RespP!Copy(t)
  PROVE  RespP!Posted(w)' /\ resp_slot'[w] = resp_slot[w]
<1>0. [RespP!AnyNext]_(RespP!vars)
  BY AnswerFacts, SlotStep
<1>1. ~RespP!PostResp(w)
  BY AnswerFacts, SlotAssumed, RespP!PostRespPuts
<1> QED BY <1>0, <1>1, AnswerFacts, SlotAssumed, RespP!PostedKeptAt,
           RespP!PostedSlotKept

LEMMA PostingWorker ==
  ASSUME AnswerInv, NEW w \in Workers, RespP!PostResp(w)
  PROVE  /\ wpc[w] = "busy" /\ wstage[w] # "idle" /\ spc[w] = "post_resp"
         /\ spc'[w] = "idle"
<1>1. spc[w] = "post_resp" /\ spc' = [spc EXCEPT ![w] = "idle"]
  BY DEF RespP!PostResp, RespP!SGoto
<1> QED BY <1>1, AnswerFacts DEF Places, RespP!TypeOK

(* A worker that serves a request took it now, starts to send a chunk, or  *)
(* goes on as it was.                                                      *)
Unmoved(w) ==
  /\ wpc[w] = "busy" /\ slot'[w] = slot[w]
  /\ wstage'[w] = wstage[w] /\ generated'[w] = generated[w]
  /\ chunk'[w] = chunk[w]
  /\ spc'[w] = "idle" <=> spc[w] = "idle" \/ RespP!PostResp(w)

LEMMA WorkerMoves ==
  ASSUME AnswerInv, [Next]_vars, NEW w \in Workers, wpc'[w] = "busy"
  PROVE  \/ Dequeue(w) /\ RingP!CopyData(w)
         \/ Echo(w) \/ Token(w) \/ Eos(w)
         \/ Unmoved(w)
<1>0. /\ DriverType /\ Places /\ RingP!TypeOK /\ RespP!TypeOK
  BY AnswerFacts
<1>s. spc'[w] = spc[w] => ~RespP!PostResp(w)
  BY <1>0 DEF RespP!PostResp, RespP!SGoto, RespP!TypeOK
<1>1. ASSUME NEW t \in Threads,
             ThreadStep(t) \/ \E v \in Workers : Dispatch(t, v)
      PROVE  Unmoved(w)
  <2>1. UNCHANGED <<wpc, slot, wstage, generated, chunk, spc>>
    BY <1>1 DEF ThreadStep, Dispatch, Enqueue, Rejected, StartReceiving,
                Receive, Callback, ringVars, ringOwn, slotOwn, workerVars,
                Ring!EnqueueCall, Ring!EnqueueStep, Ring!WaitSpace,
                Ring!TakeTaskId, Ring!LoadHead, Ring!WriteId, Ring!WriteData,
                Ring!StoreHead, Ring!PostItem, Ring!workerVars,
                Resp!ReceiveCall, Resp!ReceiveStep, Resp!WaitResp, Resp!LoadId,
                Resp!Copy, Resp!PostConsumed, Resp!PostBack, Resp!senderVars
  <2> QED BY <2>1, <1>s DEF Unmoved
<1>2. ASSUME NEW v \in Workers, Dequeue(v)
      PROVE  (Dequeue(w) /\ RingP!CopyData(w)) \/ Unmoved(w)
  <2>1. UNCHANGED <<wstage, generated, chunk, spc>>
    BY <1>2 DEF Dequeue, slotOwn, workerVars
  <2>2. CASE v = w
    <3>1. Ring!CopyData(w)
      BY <1>0, <1>2, <2>2
         DEF Dequeue, Ring!DequeueStep, Ring!WaitItem, Ring!FetchTail,
             Ring!CopyId, Ring!WGoto, RingP!TypeOK
    <3> QED BY <1>2, <2>2, <3>1, SameCopyData
  <2>3. CASE v # w
    <3>1. wpc'[w] = wpc[w] /\ slot'[w] = slot[w]
      BY <1>0, <1>2, <2>3
         DEF Dequeue, Ring!DequeueStep, Ring!WaitItem, Ring!FetchTail,
             Ring!CopyId, Ring!CopyData, Ring!WGoto, RingP!TypeOK
    <3> QED BY <2>1, <3>1, <1>s DEF Unmoved
  <2> QED BY <2>2, <2>3
<1>3. ASSUME NEW v \in Workers, Skip(v) \/ Finish(v) PROVE Unmoved(w)
  <2>1. UNCHANGED <<generated, chunk, spc, slot>>
    BY <1>3 DEF Skip, Finish, slotOwn, workerVars, Ring!Handled
  <2>2. v # w
    BY <1>0, <1>3 DEF Skip, Finish, Ring!Handled, Ring!WGoto, RingP!TypeOK
  <2>3. wpc'[w] = wpc[w] /\ wstage'[w] = wstage[w]
    BY <1>0, <1>3, <2>2 DEF Skip, Finish, Ring!Handled, Ring!WGoto, workerVars,
                            RingP!TypeOK, DriverType
  <2> QED BY <2>1, <2>3, <1>s DEF Unmoved
<1>4. ASSUME NEW v \in Workers, Echo(v) \/ Token(v) \/ Eos(v), v # w
      PROVE  Unmoved(w)
  <2>1. UNCHANGED <<wpc, slot>>
    BY <1>4 DEF Echo, Token, Eos, ringOwn
  <2>2. /\ wstage'[w] = wstage[w] /\ generated'[w] = generated[w]
        /\ chunk'[w] = chunk[w] /\ spc'[w] = spc[w]
    BY <1>0, <1>4 DEF Echo, Token, Eos, Resp!SendCall, Resp!SGoto, DriverType,
                      RespP!TypeOK
  <2> QED BY <2>1, <2>2, <1>s DEF Unmoved
<1>5. ASSUME NEW v \in Workers, Send(v) PROVE Unmoved(w)
  <2>1. UNCHANGED <<wpc, slot, wstage, generated, chunk>>
    BY <1>5 DEF Send, ringOwn, workerVars, Resp!SendStep, Resp!WaitConsumed,
                Resp!WriteId, Resp!WriteData, Resp!PostResp
  <2>2. spc'[w] = "idle" <=> spc[w] = "idle" \/ RespP!PostResp(w)
    BY <1>0, <1>5
       DEF Send, Resp!SendStep, Resp!WaitConsumed, Resp!WriteId,
           Resp!WriteData, Resp!PostResp, Resp!SGoto, Resp!threadVars,
           RespP!PostResp, RespP!SGoto, RespP!threadVars, RespP!TypeOK
  <2> QED BY <2>1, <2>2 DEF Unmoved
<1>6. CASE UNCHANGED vars
  BY <1>s, <1>6 DEF vars, ringVars, ringOwn, slotOwn, workerVars, Unmoved
<1> QED BY <1>1, <1>2, <1>3, <1>4, <1>5, <1>6 DEF Next, WorkerStep

-----------------------------------------------------------------------------
(* A request that a worker takes from the ring has got no answer yet.      *)
LEMMA TakenIsFresh ==
  ASSUME AnswerInv, [Next]_vars, NEW w \in Workers, NEW t \in Threads,
         Dequeue(w), RingP!CopyData(w), Serves(w, t)'
  PROVE  /\ got'[t] = NoChunk /\ ~PostedTo(w, t)'
         /\ SentBy(w)' = 0 /\ spc'[w] = "idle"
<1>1. ~RingP!Gone(t)
  BY AnswerFacts, RingAssumed, RingP!TakenWasThere DEF Serves
<1>2. ~Begun(t)
  BY <1>1 DEF AnswerInv, BegunGone
<1>3. UNCHANGED <<slotOwn, wstage, rpc, sem_resp, resp_slot, got, spc>>
  BY DEF Dequeue, workerVars, slotOwn
<1>4. worker' = worker
  BY DEF RingP!CopyData, RingP!threadVars
<1>5. wstage[w] = "idle" /\ spc[w] = "idle"
  <2>1. wpc[w] # "busy"
    BY DEF RingP!CopyData, RingP!WGoto
  <2> QED BY <2>1, AnswerFacts DEF Places
<1> QED BY <1>2, <1>3, <1>4, <1>5
        DEF Begun, PostedTo, RespP!Posted, SentBy

(* The chunk a worker starts to send is the next one of its answer.        *)
LEMMA SendsNext ==
  ASSUME AnswerInv, [Next]_vars, NEW w \in Workers, NEW o \in Threads,
         Serves(w, o), Echo(w) \/ Token(w) \/ Eos(w)
  PROVE  /\ wpc[w] = "busy" /\ spc[w] = "idle" /\ spc'[w] # "idle"
         /\ UNCHANGED <<slot, resp_slot, sem_resp, rpc, got, worker>>
         /\ SentBy(w) \in Nat /\ SentBy(w)' = SentBy(w) + 1
         /\ SentBy(w) <= Budget(o)
         /\ SentBy(w) = 0 \/ MoreToSend(w)
         /\ chunk'[w].task_id = slot[w].task_id
         /\ chunk'[w].data.of = o
         /\ chunk'[w].data.n = SentBy(w)
         /\ chunk'[w].is_last_piece => SentBy(w) >= 1 /\ ~MoreToSend(w)'
<1>0. /\ DriverType /\ RespP!TypeOK /\ max_tokens' = max_tokens
        BY AnswerFacts, BudgetsKept
<1>1. /\ wpc[w] = "busy" /\ ~Unanswered(w)
      /\ UNCHANGED <<slot, resp_slot, sem_resp, rpc, got, worker>>
  <2>1. UNCHANGED <<slot, resp_slot, sem_resp, rpc, got, worker>>
    BY DEF Echo, Token, Eos, ringOwn, Resp!SendCall, Resp!threadVars
  <2>2. wpc[w] = "busy" /\ ~Unanswered(w)
    BY AnswerFacts, TokenArguments DEF Echo, Token, Eos
  <2> QED BY <2>1, <2>2
<1>2. o = slot[w].data
  BY DEF Serves
<1>3. Budget(o) \in Nat /\ generated[w] \in Nat /\ Budget(o)' = Budget(o)
  BY <1>0, <1>2, BudgetBound, PipelineAssumption DEF DriverType, Budget
<1>4. spc[w] = "idle" /\ spc'[w] # "idle"
  BY <1>0 DEF Echo, Token, Eos, Resp!SendCall, Resp!SGoto, RespP!TypeOK
<1>5. CASE Echo(w)
  <2>1. chunk'[w] = Piece(w, 0, FALSE)
    BY <1>0, <1>5 DEF Echo, Resp!SendCall, RespP!TypeOK
  <2>2. SentBy(w) = 0 /\ SentBy(w)' = 1
    BY <1>0, <1>5 DEF Echo, DriverType, SentBy
  <2> QED BY <1>1, <1>2, <1>3, <1>4, <2>1, <2>2 DEF Piece
<1>6. CASE Token(w)
  <2>1. /\ MoreToSend(w) /\ generated'[w] = generated[w] + 1
        /\ wstage'[w] = wstage[w]
        /\ chunk'[w] = Piece(w, generated[w] + 1,
                             generated[w] = Budget(slot[w].data) - 1)
    BY <1>0, <1>6 DEF Token, Resp!SendCall, RespP!TypeOK, DriverType
  <2>2. wstage[w] = "generating" /\ generated[w] < Budget(o)
    BY <2>1, <1>2 DEF MoreToSend
  <2>3. SentBy(w) = generated[w] + 1 /\ SentBy(w)' = generated[w] + 2
    BY <1>3, <2>1, <2>2 DEF SentBy
  <2>4. /\ chunk'[w].task_id = slot[w].task_id
        /\ chunk'[w].data.of = o
        /\ chunk'[w].data.n = generated[w] + 1
        /\ chunk'[w].is_last_piece = (generated[w] = Budget(o) - 1)
    BY <2>1, <1>2 DEF Piece
  <2>5. MoreToSend(w)' => generated[w] + 1 < Budget(o)
    BY <1>1, <1>2, <1>3, <2>1 DEF MoreToSend
  <2>6. /\ SentBy(w) \in Nat /\ SentBy(w)' = SentBy(w) + 1
        /\ SentBy(w) <= Budget(o) /\ SentBy(w) >= 1
    BY <1>3, <2>2, <2>3
  <2>7. chunk'[w].is_last_piece => ~MoreToSend(w)'
    <3>1. chunk'[w].is_last_piece => generated[w] = Budget(o) - 1
      BY <2>4, Zenon
    <3> QED BY <1>3, <2>5, <3>1
  <2>8. chunk'[w].data.n = SentBy(w)
    BY <2>3, <2>4
  <2> QED BY <1>1, <1>2, <1>4, <2>1, <2>4, <2>6, <2>7, <2>8
<1>7. CASE Eos(w)
  <2>1. /\ MoreToSend(w) /\ wstage'[w] = "finished"
        /\ generated' = generated
        /\ chunk'[w] = Piece(w, generated[w] + 1, TRUE)
    BY <1>0, <1>7 DEF Eos, Resp!SendCall, RespP!TypeOK, DriverType
  <2>2. wstage[w] = "generating" /\ generated[w] < Budget(o)
    BY <2>1, <1>2 DEF MoreToSend
  <2>3. SentBy(w) = generated[w] + 1 /\ SentBy(w)' = generated[w] + 2
    BY <1>3, <2>1, <2>2 DEF SentBy
  <2>4. /\ chunk'[w].task_id = slot[w].task_id
        /\ chunk'[w].data.of = o
        /\ chunk'[w].data.n = generated[w] + 1
    BY <2>1, <1>2 DEF Piece
  <2>5. ~MoreToSend(w)'
    BY <2>1 DEF MoreToSend
  <2>6. /\ SentBy(w) \in Nat /\ SentBy(w)' = SentBy(w) + 1
        /\ SentBy(w) <= Budget(o) /\ SentBy(w) >= 1
    BY <1>3, <2>2, <2>3
  <2>7. chunk'[w].data.n = SentBy(w)
    BY <2>3, <2>4
  <2> QED BY <1>1, <1>2, <1>4, <2>1, <2>4, <2>5, <2>6, <2>7
<1> QED BY <1>5, <1>6, <1>7

-----------------------------------------------------------------------------
(* A worker's chunks are accounted for after each of its steps.            *)
LEMMA AccountIsNumeric ==
  ASSUME AnswerInv, NEW w \in Workers, NEW t \in Threads
  PROVE  SentBy(w) \in Nat /\ Budget(t) \in Nat /\ NextOf(t) \in Nat
<1>1. generated[w] \in Nat
  BY AnswerFacts, PipelineAssumption DEF DriverType
<1>2. Budget(t) \in 0 .. LIMIT
  BY AnswerFacts, BudgetBound
<1> QED BY <1>1, <1>2, GotPlace, PipelineAssumption DEF SentBy

LEMMA BudgetKept ==
  ASSUME [Next]_vars, NEW t \in Threads
  PROVE  Budget(t)' = Budget(t)
BY BudgetsKept DEF Budget

LEMMA AccountTaken ==
  ASSUME AnswerInv, [Next]_vars, NEW w \in Workers, NEW t \in Threads,
         Dequeue(w), RingP!CopyData(w), Serves(w, t)'
  PROVE  Account(w, t)'
<1>1. /\ got'[t] = NoChunk /\ ~PostedTo(w, t)'
      /\ SentBy(w)' = 0 /\ spc'[w] = "idle"
  BY TakenIsFresh
<1>2. Budget(t)' \in Nat
  BY AccountIsNumeric, BudgetKept
<1>3. NextOf(t)' = 0 /\ ~got'[t].is_last_piece
  BY <1>1 DEF NextOf, NoChunk, RespP!EmptySlot
<1> QED BY <1>1, <1>2, <1>3 DEF Account, Count, Closes

LEMMA AccountSends ==
  ASSUME AnswerInv, [Next]_vars, NEW w \in Workers, NEW t \in Threads,
         Serves(w, t), Echo(w) \/ Token(w) \/ Eos(w)
  PROVE  Account(w, t)'
<1>1. /\ wpc[w] = "busy" /\ spc[w] = "idle" /\ spc'[w] # "idle"
      /\ UNCHANGED <<slot, resp_slot, sem_resp, rpc, got, worker>>
      /\ SentBy(w) \in Nat /\ SentBy(w)' = SentBy(w) + 1
      /\ SentBy(w) <= Budget(t)
      /\ SentBy(w) = 0 \/ MoreToSend(w)
      /\ chunk'[w].task_id = slot[w].task_id
      /\ chunk'[w].data.of = t
      /\ chunk'[w].data.n = SentBy(w)
      /\ chunk'[w].is_last_piece => SentBy(w) >= 1 /\ ~MoreToSend(w)'
  BY SendsNext
<1>2. /\ Budget(t)' = Budget(t) /\ Budget(t) \in Nat
      /\ NextOf(t)' = NextOf(t) /\ NextOf(t) \in Nat
      /\ PostedTo(w, t)' <=> PostedTo(w, t)
  BY <1>1, BudgetKept, AccountIsNumeric DEF NextOf, PostedTo, RespP!Posted
<1>3. Account(w, t)
  BY DEF AnswerInv, ServingFits
<1>4. SentBy(w) = NextOf(t) + Count(PostedTo(w, t))
  BY <1>1, <1>2, <1>3 DEF Account, Count
<1>5. ~got[t].is_last_piece
  <2> SUFFICES ASSUME got[t].is_last_piece PROVE FALSE
    OBVIOUS
  <2>1. got[t].data.n + 1 = SentBy(w) /\ ~MoreToSend(w)
    BY <1>3 DEF Account, Closes
  <2>2. got[t].data.n \in Nat
    BY GotPlace
  <2> QED BY <1>1, <2>1, <2>2
<1>6. PostedTo(w, t) => ~resp_slot[w].is_last_piece
  <2> SUFFICES ASSUME PostedTo(w, t), resp_slot[w].is_last_piece PROVE FALSE
    OBVIOUS
  <2>1. resp_slot[w].data.n + 1 = SentBy(w) /\ ~MoreToSend(w)
    BY <1>3 DEF Account, Closes
  <2>2. resp_slot[w].data.n \in Nat
    BY PostedChunk DEF PostedTo
  <2> QED BY <1>1, <2>1, <2>2
<1>7. Fits(chunk[w])'
  BY <1>1, <1>2 DEF Fits
<1>8. Closes(w, chunk[w])'
  BY <1>1 DEF Closes
<1>9. Closes(w, got[t])' /\ (PostedTo(w, t)' => Closes(w, resp_slot[w])')
  BY <1>1, <1>2, <1>5, <1>6 DEF Closes
<1> QED BY <1>1, <1>2, <1>4, <1>7, <1>8, <1>9 DEF Account, Count

(* Where the worker's own part does not move.                              *)
LEMMA UnmovedKeeps ==
  ASSUME AnswerInv, [Next]_vars, NEW w \in Workers, Unmoved(w),
         NEW t \in Threads, Serves(w, t)'
  PROVE  /\ Serves(w, t) /\ Account(w, t)
         /\ SentBy(w)' = SentBy(w)
         /\ MoreToSend(w)' <=> MoreToSend(w)
         /\ Budget(t)' = Budget(t)
         /\ chunk'[w] = chunk[w] /\ slot'[w] = slot[w]
<1>1. Budget(t)' = Budget(t)
  BY BudgetKept
<1>2. Serves(w, t)
  BY DEF Unmoved, Serves
<1>3. MoreToSend(w)' <=> MoreToSend(w)
  BY <1>1, <1>2 DEF Unmoved, MoreToSend, Serves
<1>4. Account(w, t)
  BY <1>2 DEF AnswerInv, ServingFits
<1> QED BY <1>1, <1>2, <1>3, <1>4 DEF Unmoved, SentBy

LEMMA AccountPosts ==
  ASSUME AnswerInv, [Next]_vars, NEW w \in Workers, Unmoved(w),
         NEW t \in Threads, Serves(w, t)', RespP!PostResp(w)
  PROVE  Account(w, t)'
<1>1. /\ SentBy(w)' = SentBy(w) /\ Budget(t)' = Budget(t)
      /\ MoreToSend(w)' <=> MoreToSend(w)
      /\ Account(w, t) /\ worker[t] = w
      /\ SentBy(w) \in Nat /\ NextOf(t) \in Nat
  BY UnmovedKeeps, ServedFacts, AccountIsNumeric
<1>2. /\ RespP!Posted(w)' /\ ~RespP!Posted(w)
      /\ resp_slot'[w] = chunk[w]
  BY AnswerFacts, SlotAssumed, RespP!PostRespPuts
<1>3. got'[t] = got[t] /\ NextOf(t)' = NextOf(t)
  <2>1. ~RespP!Copy(t)
    BY <1>1, <1>2, CopiesOwn DEF PostedTo
  <2> QED BY <2>1, GotMoves DEF NextOf
<1>4. spc[w] # "idle" /\ spc'[w] = "idle"
  BY PostingWorker
<1>5. /\ SentBy(w) = NextOf(t) + 1
      /\ chunk[w].data.of = t
      /\ Closes(w, chunk[w]) /\ Closes(w, got[t])
  BY <1>1, <1>2, <1>4 DEF Account, PostedTo, Count
<1>6. PostedTo(w, t)'
  BY <1>2, <1>5 DEF PostedTo
<1>7. Closes(w, resp_slot[w])' /\ Closes(w, got[t])'
  BY <1>1, <1>2, <1>3, <1>5 DEF Closes
<1>8. SentBy(w)' <= Budget(t)' + 1
  BY <1>1 DEF Account
<1> QED BY <1>1, <1>3, <1>4, <1>5, <1>6, <1>7, <1>8 DEF Account, Count

LEMMA AccountCopied ==
  ASSUME AnswerInv, [Next]_vars, NEW w \in Workers, Unmoved(w),
         NEW t \in Threads, Serves(w, t)', ~RespP!PostResp(w),
         NEW s \in Threads, worker[s] = w, RespP!Copy(s)
  PROVE  Account(w, t)'
<1>1. /\ SentBy(w)' = SentBy(w) /\ Budget(t)' = Budget(t)
      /\ MoreToSend(w)' <=> MoreToSend(w)
      /\ Account(w, t) /\ chunk'[w] = chunk[w] /\ slot'[w] = slot[w]
      /\ SentBy(w) \in Nat /\ NextOf(t) \in Nat
      /\ spc'[w] = "idle" <=> spc[w] = "idle"
  BY UnmovedKeeps, AccountIsNumeric DEF Unmoved
<1>2. /\ RespP!Posted(w) /\ resp_slot[w].data.of = s
      /\ resp_slot[w] \in RespP!Chunk
      /\ got' = [got EXCEPT ![s] = resp_slot[w]]
  BY CopiesOwn DEF PostedTo
<1>3. ~RespP!Posted(w)'
  BY CopiesOwn
<1>4. ~PostedTo(w, t)'
  BY <1>3 DEF PostedTo
<1>5. spc'[w] # "idle" => Fits(chunk[w])' /\ Closes(w, chunk[w])'
  BY <1>1 DEF Account, Fits, Closes
<1>6. CASE s = t
  <2>1. /\ PostedTo(w, t) /\ resp_slot[w].data.n = NextOf(t)
        /\ Closes(w, resp_slot[w])
    BY <1>1, <1>2, <1>6 DEF AnswerInv, PostedFits, PostedTo, Account
  <2>2. got'[t] = resp_slot[w] /\ got'[t] # NoChunk
    BY <1>2, <1>6, AnswerFacts, SlotAssumed
       DEF RespP!TypeOK, RespP!Chunk, NoChunk, RespP!EmptySlot,
           RespP!SlotAssumption
  <2>3. NextOf(t)' = NextOf(t) + 1
    BY <2>1, <2>2 DEF NextOf
  <2>4. SentBy(w) = NextOf(t) + 1 + Count(spc[w] # "idle")
    BY <1>1, <2>1 DEF Account, Count
  <2>5. Closes(w, got[t])'
    BY <1>1, <2>1, <2>2 DEF Closes
  <2> QED BY <1>1, <1>4, <1>5, <2>3, <2>4, <2>5 DEF Account, Count
<1>7. CASE s # t
  <2>1. got'[t] = got[t] /\ NextOf(t)' = NextOf(t)
    BY <1>2, <1>7, AnswerFacts DEF RespP!TypeOK, NextOf
  <2>2. ~PostedTo(w, t)
    BY <1>2, <1>7 DEF PostedTo
  <2>3. SentBy(w) = NextOf(t) + Count(spc[w] # "idle") /\ Closes(w, got[t])
    BY <1>1, <2>2 DEF Account, Count
  <2>4. Closes(w, got[t])'
    BY <1>1, <2>1, <2>3 DEF Closes
  <2> QED BY <1>1, <1>4, <1>5, <2>1, <2>3, <2>4 DEF Account, Count
<1> QED BY <1>6, <1>7

LEMMA AccountKept ==
  ASSUME AnswerInv, [Next]_vars, NEW w \in Workers, Unmoved(w),
         NEW t \in Threads, Serves(w, t)', ~RespP!PostResp(w),
         \A s \in Threads : worker[s] = w => ~RespP!Copy(s)
  PROVE  Account(w, t)'
<1>1. /\ SentBy(w)' = SentBy(w) /\ Budget(t)' = Budget(t)
      /\ MoreToSend(w)' <=> MoreToSend(w)
      /\ Account(w, t) /\ chunk'[w] = chunk[w] /\ slot'[w] = slot[w]
      /\ spc'[w] = "idle" <=> spc[w] = "idle"
  BY UnmovedKeeps DEF Unmoved
<1>2. got'[t] = got[t] /\ NextOf(t)' = NextOf(t)
  BY UnmovedKeeps, ServedFacts, GotMoves DEF NextOf
<1>3. /\ PostedTo(w, t)' <=> PostedTo(w, t)
      /\ PostedTo(w, t) => resp_slot'[w] = resp_slot[w]
  <2>1. RespP!Posted(w) => RespP!Posted(w)' /\ resp_slot'[w] = resp_slot[w]
    BY PostedLeaves
  <2>2. RespP!Posted(w)' => RespP!Posted(w)
    BY PostedMoves
  <2> QED BY <2>1, <2>2 DEF PostedTo
<1>4. spc'[w] # "idle" => Fits(chunk[w])' /\ Closes(w, chunk[w])'
  BY <1>1 DEF Account, Fits, Closes
<1>5. Closes(w, got[t])' /\ (PostedTo(w, t)' => Closes(w, resp_slot[w])')
  BY <1>1, <1>2, <1>3 DEF Account, Closes
<1> QED BY <1>1, <1>2, <1>3, <1>4, <1>5 DEF Account, Count

LEMMA ServingFitsPreserved == AnswerInv /\ [Next]_vars => ServingFits'
<1> SUFFICES ASSUME AnswerInv, [Next]_vars, NEW w \in Workers,
                    NEW t \in Threads, Serves(w, t)'
             PROVE  Account(w, t)'
  BY DEF ServingFits
<1>1. CASE Dequeue(w) /\ RingP!CopyData(w)
  BY <1>1, AccountTaken
<1>2. CASE Echo(w) \/ Token(w) \/ Eos(w)
  <2>1. slot' = slot /\ wpc' = wpc
    BY <1>2 DEF Echo, Token, Eos, ringOwn
  <2>2. Serves(w, t)
    BY <2>1 DEF Serves
  <2> QED BY <1>2, <2>2, AccountSends
<1>3. CASE Unmoved(w)
  BY <1>3, AccountPosts, AccountCopied, AccountKept
<1> QED BY <1>1, <1>2, <1>3, WorkerMoves DEF Serves

-----------------------------------------------------------------------------
(* A chunk that a worker posts is for the thread it serves.                *)
LEMMA PostsOwn ==
  ASSUME AnswerInv, [Next]_vars, NEW w \in Workers, RespP!PostResp(w)
  PROVE  \E t \in Threads :
           /\ Serves(w, t) /\ Account(w, t) /\ chunk[w].data.of = t
           /\ chunk[w].task_id = slot[w].task_id
           /\ chunk[w].data.n + 1 = SentBy(w) /\ Fits(chunk[w])
           /\ ~RespP!Posted(w) /\ resp_slot'[w] = chunk[w]
<1>1. PICK t \in Threads : Serves(w, t)
  BY PostingWorker, ServedThread
<1>2. Account(w, t) /\ spc[w] # "idle"
  BY <1>1, PostingWorker DEF AnswerInv, ServingFits
<1>3. ~RespP!Posted(w) /\ resp_slot'[w] = chunk[w]
  BY AnswerFacts, SlotAssumed, RespP!PostRespPuts
<1> QED BY <1>1, <1>2, <1>3 DEF Account

LEMMA PostedFitsPreserved == AnswerInv /\ [Next]_vars => PostedFits'
<1> SUFFICES ASSUME AnswerInv, [Next]_vars, NEW w \in Workers,
                    NEW t \in Threads, PostedTo(w, t)'
             PROVE  /\ worker'[t] = w /\ task_id'[t] = resp_slot'[w].task_id
                    /\ resp_slot'[w].data.n = NextOf(t)'
                    /\ got'[t].is_last_piece = FALSE
                    /\ Fits(resp_slot[w])'
  BY DEF PostedFits
<1>0. RespP!Posted(w)' /\ resp_slot'[w].data.of = t
  BY DEF PostedTo
<1>1. CASE RespP!Posted(w) /\ resp_slot'[w] = resp_slot[w]
  <2>1. /\ PostedTo(w, t)
        /\ worker[t] = w /\ task_id[t] = resp_slot[w].task_id
        /\ resp_slot[w].data.n = NextOf(t) /\ got[t].is_last_piece = FALSE
        /\ Fits(resp_slot[w])
    BY <1>0, <1>1 DEF AnswerInv, PostedFits, PostedTo
  <2>2. worker'[t] = worker[t] /\ task_id'[t] = task_id[t]
    BY <2>1, OwnersStay DEF AnswerInv, BegunGone, Begun, RingP!Settled
  <2>3. got'[t] = got[t] /\ NextOf(t)' = NextOf(t)
    <3>1. ~RespP!Copy(t)
      BY <1>0, <2>1, CopiesOwn
    <3> QED BY <2>1, <3>1, GotMoves DEF NextOf
  <2>4. Fits(resp_slot[w])'
    BY <1>0, <1>1, <2>1, BudgetKept DEF Fits
  <2> QED BY <1>1, <2>1, <2>2, <2>3, <2>4
<1>2. CASE RespP!PostResp(w) /\ ~RespP!Posted(w) /\ resp_slot'[w] = chunk[w]
  <2>1. /\ Serves(w, t) /\ Account(w, t)
        /\ chunk[w].task_id = slot[w].task_id
        /\ chunk[w].data.n + 1 = SentBy(w) /\ Fits(chunk[w])
    BY <1>0, <1>2, PostsOwn
  <2>2. /\ worker[t] = w /\ task_id[t] = slot[w].task_id
        /\ worker'[t] = worker[t] /\ task_id'[t] = task_id[t]
    BY <2>1, ServedFacts, OwnersStay
  <2>3. got'[t] = got[t] /\ NextOf(t)' = NextOf(t)
    <3>1. ~RespP!Copy(t)
      BY <1>2, <2>1, <2>2, CopiesOwn DEF PostedTo
    <3> QED BY <2>1, <3>1, GotMoves DEF NextOf
  <2>4. SentBy(w) = NextOf(t) + 1 /\ NextOf(t) \in Nat
    BY <1>2, <2>1, PostingWorker, AccountIsNumeric
       DEF Account, Count, PostedTo
  <2>5. chunk[w].data.n = NextOf(t)
    <3>1. chunk[w] \in RespP!AnyChunk
      BY <1>2, PostingWorker, AnswerFacts DEF RespP!InFlight
    <3>2. chunk[w].data \in Payloads
      BY <3>1 DEF RespP!AnyChunk
    <3>3. chunk[w].data.n \in Nat
      BY <3>2, PipelineAssumption DEF Payloads
    <3> QED BY <2>1, <2>4, <3>3
  <2>6. ~got[t].is_last_piece
    BY <2>1, <2>4, GotPlace DEF Account, Closes
  <2>7. Fits(resp_slot[w])'
    BY <1>0, <1>2, <2>1, BudgetKept DEF Fits
  <2> QED BY <1>2, <2>1, <2>2, <2>3, <2>5, <2>6, <2>7
<1> QED BY <1>0, <1>1, <1>2, PostedMoves

LEMMA GotFitsPreserved == AnswerInv /\ [Next]_vars => GotFits'
<1> SUFFICES ASSUME AnswerInv, [Next]_vars, NEW t \in Threads, got'[t] # NoChunk
             PROVE  /\ got'[t] \in RespP!Chunk /\ got'[t].data.of = t
                    /\ Fits(got[t])'
                    /\ stage'[t] \in {"receive", "done"}
  BY DEF GotFits, NoChunk, RespP!EmptySlot, RespP!Chunk
<1>1. stage[t] \in {"receive", "done"} => stage'[t] \in {"receive", "done"}
  <2>1. ASSUME NEW s \in Threads,
               ThreadStep(s) \/ \E w \in Workers : Dispatch(s, w)
        PROVE  stage[t] \in {"receive", "done"} => stage'[t] \in {"receive", "done"}
    BY <2>1, AnswerFacts
       DEF ThreadStep, Dispatch, Enqueue, Rejected, StartReceiving, Receive,
           Callback, dispatchVars, DriverType
  <2>2. ASSUME NEW w \in Workers, WorkerStep(w) PROVE stage' = stage
    BY <2>2 DEF WorkerStep, Dequeue, Skip, Echo, Send, Token, Eos, Finish,
                dispatchVars
  <2>3. UNCHANGED vars => stage' = stage
    BY DEF vars, dispatchVars
  <2> QED BY <2>1, <2>2, <2>3 DEF Next
<1>2. CASE RespP!Copy(t)
  <2>1. /\ worker[t] \in Workers /\ PostedTo(worker[t], t)
        /\ stage[t] = "receive"
        /\ resp_slot[worker[t]] \in RespP!Chunk
        /\ got' = [got EXCEPT ![t] = resp_slot[worker[t]]]
    BY <1>2, CopiesOwn
  <2>2. got'[t] = resp_slot[worker[t]]
    BY <2>1, AnswerFacts DEF RespP!TypeOK
  <2>3. Fits(resp_slot[worker[t]]) /\ resp_slot[worker[t]].data.of = t
    BY <2>1 DEF AnswerInv, PostedFits, PostedTo
  <2>4. Fits(got[t])'
    BY <2>2, <2>3, BudgetKept DEF Fits
  <2> QED BY <1>1, <2>1, <2>2, <2>3, <2>4
<1>3. CASE ~RespP!Copy(t)
  <2>1. got'[t] = got[t]
    BY <1>3, GotMoves
  <2>2. /\ got[t] \in RespP!Chunk /\ got[t].data.of = t /\ Fits(got[t])
        /\ stage[t] \in {"receive", "done"}
    BY <2>1 DEF AnswerInv, GotFits, NoChunk, RespP!EmptySlot
  <2>3. Fits(got[t])'
    BY <2>1, <2>2, BudgetKept DEF Fits
  <2> QED BY <1>1, <2>1, <2>2, <2>3
<1> QED BY <1>2, <1>3

LEMMA BegunGonePreserved == AnswerInv /\ [Next]_vars => BegunGone'
<1> SUFFICES ASSUME AnswerInv, [Next]_vars, NEW t \in Threads, Begun(t)'
             PROVE  RingP!Settled(t)' /\ RingP!Gone(t)'
  BY DEF BegunGone, RingP!Settled
<1>1. RingP!Settled(t) /\ RingP!Gone(t)
  <2>1. CASE Begun(t)
    BY <2>1 DEF AnswerInv, BegunGone, RingP!Settled
  <2>2. CASE ~Begun(t) /\ got'[t] # NoChunk
    <3>1. ~RespP!Copy(t)
      BY <2>2, CopiesOwn DEF Begun
    <3> QED BY <2>2, <3>1, GotMoves DEF Begun, NoChunk, RespP!EmptySlot
  <2>3. ASSUME ~Begun(t), NEW w \in Workers, PostedTo(w, t)'
        PROVE  RingP!Settled(t) /\ RingP!Gone(t)
    <3>1. /\ RespP!PostResp(w) /\ resp_slot'[w] = chunk[w]
          /\ resp_slot'[w].data.of = t
      BY <2>3, PostedMoves DEF PostedTo, Begun
    <3>2. Serves(w, t)
      BY <3>1, PostsOwn
    <3> QED BY <3>2, ServedFacts
  <2> QED BY <2>1, <2>2, <2>3 DEF Begun, NoChunk, RespP!EmptySlot
<1>2. RingP!Gone(t)'
  BY <1>1, RingStep, RingAssumed, AnswerFacts, RingP!GoneStays
     DEF RingP!Settled
<1> QED BY <1>1, <1>2, OwnersStay

-----------------------------------------------------------------------------
(* What a thread has passed on to its client.                              *)
ThreadAtRest(t) ==
  /\ stage'[t] = stage[t] /\ connected'[t] = connected[t]
  /\ delivered'[t] = delivered[t] /\ rpc'[t] = rpc[t] /\ got'[t] = got[t]
  /\ pc'[t] = pc[t]

LEMMA ThreadMoves ==
  ASSUME AnswerInv, [Next]_vars, NEW t \in Threads
  PROVE  \/ ThreadStep(t) \/ \E w \in Workers : Dispatch(t, w)
         \/ ThreadAtRest(t)
<1>0. DriverType /\ RingP!TypeOK /\ RespP!TypeOK
  BY AnswerFacts
<1>1. ASSUME NEW s \in Threads, s # t,
             Dispatch(s, worker[s]) \/ \E w \in Workers : Dispatch(s, w)
      PROVE  ThreadAtRest(t)
  BY <1>0, <1>1 DEF Dispatch, slotOwn, Ring!EnqueueCall, Ring!Goto,
                    DriverType, RingP!TypeOK, ThreadAtRest
<1>2. ASSUME NEW s \in Threads, s # t, Enqueue(s) PROVE ThreadAtRest(t)
  <2>1. pc'[t] = pc[t]
    BY <1>0, <1>2
       DEF Enqueue, Ring!EnqueueStep, Ring!WaitSpace, Ring!TakeTaskId,
           Ring!LoadHead, Ring!WriteId, Ring!WriteData, Ring!StoreHead,
           Ring!PostItem, Ring!Goto, RingP!TypeOK
  <2> QED BY <1>2, <2>1 DEF Enqueue, slotOwn, dispatchVars, ThreadAtRest
<1>3. ASSUME NEW s \in Threads, s # t,
             Rejected(s) \/ StartReceiving(s) \/ Callback(s)
      PROVE  ThreadAtRest(t)
  <2>1. UNCHANGED <<pc, got>>
    BY <1>3 DEF Rejected, StartReceiving, Callback, ringVars, ringOwn, slotOwn,
                Resp!ReceiveCall
  <2>2. stage'[t] = stage[t]
    BY <1>0, <1>3 DEF Rejected, StartReceiving, Callback, DriverType
  <2>3. rpc'[t] = rpc[t]
    BY <1>0, <1>3 DEF Rejected, StartReceiving, Callback, slotOwn,
                      Resp!ReceiveCall, Resp!RGoto, RespP!TypeOK
  <2>4. connected'[t] = connected[t] /\ delivered'[t] = delivered[t]
    BY <1>0, <1>3 DEF Rejected, StartReceiving, Callback, Sent, Disconnected,
                      Drained, DriverType
  <2> QED BY <2>1, <2>2, <2>3, <2>4 DEF ThreadAtRest
<1>4. ASSUME NEW s \in Threads, s # t, Receive(s) PROVE ThreadAtRest(t)
  <2>1. UNCHANGED <<pc, stage, connected, delivered>>
    BY <1>4 DEF Receive, ringOwn, dispatchVars
  <2>2. rpc'[t] = rpc[t] /\ got'[t] = got[t]
    BY <1>0, <1>4
       DEF Receive, Resp!ReceiveStep, Resp!WaitResp, Resp!LoadId, Resp!Copy,
           Resp!PostConsumed, Resp!PostBack, Resp!RGoto, RespP!TypeOK
  <2> QED BY <2>1, <2>2 DEF ThreadAtRest
<1>5. ASSUME NEW w \in Workers, WorkerStep(w) PROVE ThreadAtRest(t)
  BY <1>5 DEF WorkerStep, Dequeue, Skip, Echo, Send, Token, Eos, Finish,
              ringOwn, slotOwn, dispatchVars, Ring!DequeueStep, Ring!WaitItem,
              Ring!FetchTail, Ring!CopyId, Ring!CopyData, Ring!Handled,
              Ring!threadVars, Resp!SendCall, Resp!SendStep,
              Resp!WaitConsumed, Resp!WriteId, Resp!WriteData, Resp!PostResp,
              Resp!threadVars, ThreadAtRest
<1>6. CASE UNCHANGED vars
  BY <1>6 DEF vars, ringVars, ringOwn, slotOwn, dispatchVars, ThreadAtRest
<1> QED BY <1>1, <1>2, <1>3, <1>4, <1>5, <1>6 DEF Next, ThreadStep

(* Until a chunk is passed on, the account of the client does not change.  *)
LEMMA DeliveredKept ==
  ASSUME AnswerInv, NEW t \in Threads,
         connected'[t] = connected[t], delivered'[t] = delivered[t],
         NextOf(t)' - Count(Pending(t)') = NextOf(t) - Count(Pending(t)),
         NextOf(t)' \in Nat, stage[t] # "done", stage'[t] # "done",
         stage'[t] = "receive" /\ ~Pending(t)' => ~got'[t].is_last_piece,
         stage'[t] = "failed" => pc'[t] = "rejected"
  PROVE  DeliveredTo(t)'
<1>1. DeliveredTo(t) /\ NextOf(t) \in Nat /\ Len(delivered[t]) \in Nat
  BY GotPlace, AnswerFacts DEF AnswerInv, Delivered, DriverType
<1>2. connected[t] => Len(delivered[t]) + Count(Pending(t)) = NextOf(t)
  BY <1>1 DEF DeliveredTo
<1>3. connected'[t] => Len(delivered'[t]) + Count(Pending(t)') = NextOf(t)'
  <2>1. Count(Pending(t)) \in {0, 1} /\ Count(Pending(t)') \in {0, 1}
    BY DEF Count
  <2>2. Len(delivered'[t]) = Len(delivered[t])
    OBVIOUS
  <2> QED BY <1>1, <1>2, <2>1, <2>2
<1>4. ASSUME NEW i \in DOMAIN delivered[t]
      PROVE  /\ delivered[t][i].data = [of |-> t, n |-> i - 1]
             /\ ~delivered[t][i].is_last_piece
  BY <1>1 DEF DeliveredTo
<1> QED BY <1>3, <1>4 DEF DeliveredTo

LEMMA DeliveredBefore ==
  ASSUME AnswerInv, [Next]_vars, NEW t \in Threads,
         \/ Enqueue(t) \/ Rejected(t) \/ StartReceiving(t)
         \/ \E w \in Workers : Dispatch(t, w)
  PROVE  DeliveredTo(t)'
<1>0. DriverType /\ Places /\ RespP!TypeOK
  BY AnswerFacts
<1>1. CASE Enqueue(t)
  <2>1. pc[t] \notin {"idle", "returned", "rejected"}
    BY <1>1 DEF Enqueue, Ring!EnqueueStep, Ring!WaitSpace, Ring!TakeTaskId,
                Ring!LoadHead, Ring!WriteId, Ring!WriteData, Ring!StoreHead,
                Ring!PostItem, Ring!Goto
  <2>2. stage[t] = "enqueue"
    BY <1>0, <2>1 DEF Places, DriverType, AnswerInv, Delivered, DeliveredTo
  <2>3. UNCHANGED <<stage, connected, delivered, rpc, got>>
    BY <1>1 DEF Enqueue, slotOwn, dispatchVars
  <2>4. NextOf(t)' = NextOf(t) /\ (Pending(t)' <=> Pending(t))
    BY <2>3 DEF NextOf, Pending
  <2>5. NextOf(t)' - Count(Pending(t)') = NextOf(t) - Count(Pending(t))
    BY <2>4, GotPlace DEF Count
  <2> QED BY <2>2, <2>3, <2>4, <2>5, GotPlace, DeliveredKept
<1>2. ASSUME Rejected(t) \/ StartReceiving(t) \/ \E w \in Workers : Dispatch(t, w)
      PROVE  DeliveredTo(t)'
  <2>1. /\ stage[t] \in {"new", "enqueue"}
        /\ stage'[t] \in {"enqueue", "failed", "receive"}
        /\ UNCHANGED <<connected, delivered, got>>
    BY <1>0, <1>2 DEF Rejected, StartReceiving, Dispatch, DriverType, slotOwn,
                      Resp!ReceiveCall
  <2>2. stage'[t] = "failed" => pc'[t] = "rejected"
    BY <1>0, <1>2 DEF Rejected, StartReceiving, Dispatch, DriverType, ringVars,
                      ringOwn
  <2>3. stage'[t] = "receive" => rpc'[t] = "wait_resp"
    BY <1>0, <1>2 DEF Rejected, StartReceiving, Dispatch, DriverType,
                      Resp!ReceiveCall, Resp!RGoto, RespP!TypeOK
  <2>4. ~Pending(t) /\ ~Pending(t)'
    BY <2>1, <2>3 DEF Pending
  <2>5. got[t] = NoChunk
    BY <2>1 DEF AnswerInv, GotFits
  <2>6. NextOf(t)' = NextOf(t) /\ ~got'[t].is_last_piece
    BY <2>1, <2>5 DEF NextOf, NoChunk, RespP!EmptySlot
  <2>7. NextOf(t)' - Count(Pending(t)') = NextOf(t) - Count(Pending(t))
    BY <2>4, <2>6, GotPlace DEF Count
  <2> QED BY <2>1, <2>2, <2>6, <2>7, GotPlace, DeliveredKept
<1> QED BY <1>1, <1>2

LEMMA DeliveredReceive ==
  ASSUME AnswerInv, [Next]_vars, NEW t \in Threads, Receive(t)
  PROVE  DeliveredTo(t)'
<1>0. Places /\ RespP!TypeOK /\ DeliveredTo(t)
  BY AnswerFacts DEF AnswerInv, Delivered
<1>1. /\ rpc[t] # "idle" /\ UNCHANGED <<stage, connected, delivered, pc>>
  BY DEF Receive, ringOwn, dispatchVars, Resp!ReceiveStep, Resp!WaitResp,
         Resp!LoadId, Resp!Copy, Resp!PostConsumed, Resp!PostBack, Resp!RGoto
<1>2. stage[t] = "receive"
  BY <1>0, <1>1 DEF Places
<1>3. CASE Resp!Copy(t)
  <2>1. /\ worker[t] \in Workers /\ PostedTo(worker[t], t)
        /\ rpc[t] = "copy" /\ rpc'[t] = "post_consumed"
        /\ resp_slot[worker[t]] \in RespP!Chunk
        /\ got'[t] = resp_slot[worker[t]]
    BY <1>0, <1>3, SameCopy, CopiesOwn DEF RespP!TypeOK
  <2>2. got'[t] # NoChunk
    BY <2>1, SlotAssumed DEF RespP!Chunk, NoChunk, RespP!EmptySlot,
                             RespP!SlotAssumption
  <2>3. resp_slot[worker[t]].data.n = NextOf(t)
    BY <2>1 DEF AnswerInv, PostedFits
  <2>4. NextOf(t)' = NextOf(t) + 1 /\ NextOf(t) \in Nat
    BY <2>1, <2>2, <2>3, GotPlace DEF NextOf
  <2>5. Pending(t)' /\ ~Pending(t)
    BY <1>1, <1>2, <2>1 DEF Pending
  <2>6. NextOf(t)' - Count(Pending(t)') = NextOf(t) - Count(Pending(t))
    BY <2>4, <2>5 DEF Count
  <2>7. NextOf(t)' \in Nat
    BY <2>4
  <2> QED BY <1>1, <1>2, <2>5, <2>6, <2>7, DeliveredKept
<1>4. CASE ~Resp!Copy(t)
  <2>1. got'[t] = got[t]
    BY <1>4, SameCopy, GotMoves
  <2>2. Pending(t)' <=> Pending(t)
    BY <1>0, <1>1, <1>4
       DEF Receive, Resp!ReceiveStep, Resp!WaitResp, Resp!LoadId,
           Resp!PostConsumed, Resp!PostBack, Resp!RGoto, Pending, RespP!TypeOK
  <2>3. NextOf(t)' = NextOf(t) /\ NextOf(t) \in Nat
    BY <2>1, GotPlace DEF NextOf
  <2>4. NextOf(t)' - Count(Pending(t)') = NextOf(t) - Count(Pending(t))
    BY <2>2, <2>3 DEF Count
  <2>5. stage'[t] = "receive" /\ ~Pending(t)' => ~got'[t].is_last_piece
    BY <1>0, <1>1, <2>1, <2>2 DEF DeliveredTo
  <2> QED BY <1>1, <1>2, <2>3, <2>4, <2>5, DeliveredKept
<1> QED BY <1>3, <1>4

(* The chunk passed on is the next one, and a last piece ends the loop.    *)
LEMMA DeliveredCallback ==
  ASSUME AnswerInv, [Next]_vars, NEW t \in Threads, Callback(t)
  PROVE  DeliveredTo(t)'
<1>0. DriverType /\ Places /\ RespP!TypeOK /\ DeliveredTo(t)
  BY AnswerFacts DEF AnswerInv, Delivered
<1>1. stage[t] = "receive" /\ rpc[t] = "idle" /\ got' = got
  BY DEF Callback, slotOwn, Resp!ReceiveCall
<1>2. \/ got[t].is_last_piece /\ stage'[t] = "done"
      \/ /\ ~got[t].is_last_piece
         /\ stage'[t] = "receive" /\ rpc'[t] = "wait_resp"
  BY <1>0, <1>1 DEF Callback, DriverType, Resp!ReceiveCall, Resp!RGoto,
                    RespP!TypeOK
<1>3. /\ got[t] # NoChunk /\ got[t].data.of = t
      /\ NextOf(t) = got[t].data.n + 1 /\ got[t].data.n \in Nat
      /\ NextOf(t)' = NextOf(t)
      /\ got[t].data \in Payloads
  <2>1. got[t] \in RespP!Chunk
    BY <1>1, AnswerFacts DEF GotChunk
  <2>2. got[t] # NoChunk
    BY <2>1, SlotAssumed DEF RespP!Chunk, NoChunk, RespP!EmptySlot,
                             RespP!SlotAssumption
  <2> QED BY <1>1, <2>2, GotPlace, PipelineAssumption
          DEF AnswerInv, GotFits, NextOf
<1>4. Pending(t) /\ ~Pending(t)'
  BY <1>1, <1>2 DEF Pending
<1>5. /\ delivered[t] \in Seq(Resp!Chunk)
      /\ connected[t] => Len(delivered[t]) = got[t].data.n
      /\ \A i \in DOMAIN delivered[t] :
           /\ delivered[t][i].data = [of |-> t, n |-> i - 1]
           /\ ~delivered[t][i].is_last_piece
  BY <1>0, <1>1, <1>3, <1>4 DEF DriverType, DeliveredTo, Count
<1>6. CASE Sent(t)
  <2>1. connected[t] /\ delivered'[t] = Append(delivered[t], got[t])
    BY <1>0, <1>6 DEF Sent, DriverType
  <2>2. /\ Len(delivered[t]) \in Nat
        /\ Len(delivered'[t]) = Len(delivered[t]) + 1
        /\ DOMAIN delivered'[t] = 1 .. Len(delivered[t]) + 1
        /\ DOMAIN delivered[t] = 1 .. Len(delivered[t])
        /\ \A i \in 1 .. Len(delivered[t]) :
             delivered'[t][i] = delivered[t][i]
        /\ delivered'[t][Len(delivered[t]) + 1] = got[t]
    BY <1>5, <2>1
  <2>3. got[t].data = [of |-> t, n |-> Len(delivered[t])]
    BY <1>3, <1>5, <2>1 DEF Payloads
  <2>4. Len(delivered'[t]) + Count(Pending(t)') = NextOf(t)'
    BY <1>3, <1>4, <1>5, <2>1, <2>2 DEF Count
  <2>5. ASSUME NEW i \in DOMAIN delivered'[t]
        PROVE  /\ delivered'[t][i].data = [of |-> t, n |-> i - 1]
               /\ delivered'[t][i].is_last_piece =>
                    stage'[t] = "done" /\ i = Len(delivered'[t])
    <3>1. CASE i \in DOMAIN delivered[t]
      BY <1>5, <2>2, <3>1
    <3>2. CASE i = Len(delivered[t]) + 1
      <4>1. i - 1 = Len(delivered[t]) /\ delivered'[t][i] = got[t]
        BY <2>2, <3>2
      <4> QED BY <1>2, <2>2, <2>3, <3>2, <4>1
    <3> QED BY <2>2, <2>5, <3>1, <3>2
  <2> QED BY <1>1, <1>2, <2>2, <2>4, <2>5 DEF DeliveredTo
<1>7. CASE Disconnected(t) \/ Drained(t)
  <2>1. ~connected'[t] /\ delivered' = delivered
    BY <1>0, <1>7 DEF Disconnected, Drained, DriverType
  <2> QED BY <1>1, <1>2, <1>5, <2>1 DEF DeliveredTo
<1> QED BY <1>6, <1>7 DEF Callback

LEMMA DeliveredPreserved == AnswerInv /\ [Next]_vars => Delivered'
<1> SUFFICES ASSUME AnswerInv, [Next]_vars, NEW t \in Threads
             PROVE  DeliveredTo(t)'
  BY DEF Delivered
<1>1. CASE ThreadAtRest(t)
  <2>1. DeliveredTo(t) /\ (Pending(t)' <=> Pending(t)) /\ NextOf(t)' = NextOf(t)
    BY <1>1 DEF AnswerInv, Delivered, ThreadAtRest, Pending, NextOf
  <2>2. Count(Pending(t)') = Count(Pending(t))
    BY <2>1 DEF Count
  <2> QED BY <1>1, <2>1, <2>2 DEF DeliveredTo, ThreadAtRest
<1> QED BY <1>1, ThreadMoves, DeliveredBefore, DeliveredReceive,
           DeliveredCallback DEF ThreadStep

-----------------------------------------------------------------------------
LEMMA AnswerInvPreserved ==
  AnswerInv /\ [Next /\ Ring!OneProducer']_vars => AnswerInv'
<1> SUFFICES ASSUME AnswerInv, [Next /\ Ring!OneProducer']_vars
             PROVE  AnswerInv'
  OBVIOUS
<1>1. [Next]_vars /\ SerialInv
  BY DEF AnswerInv
<1>2. SerialInv'
  BY <1>1, SerialInvPreserved
<1>3. RespP!Identified'
  BY <1>1, SerialSlotStep, SlotAssumed, AnswerFacts, RespP!IdentifiedPreserved
     DEF AnswerInv
<1>4. RingP!EachOnce' /\ RingP!NotCanceled'
  BY <1>1, RingStep, RingAssumed, AnswerFacts, RingP!EachOncePreserved,
     RingP!NotCanceledPreserved DEF AnswerInv
<1> QED BY <1>1, <1>2, <1>3, <1>4, ServingFitsPreserved, PostedFitsPreserved,
           GotFitsPreserved, BegunGonePreserved, DeliveredPreserved
        DEF AnswerInv

LEMMA AnswerInvInit == Init => AnswerInv
<1> SUFFICES ASSUME Init PROVE AnswerInv
  OBVIOUS
<1>1. SerialInv
  BY SerialInvInit
<1>2. RingP!EachOnce /\ RingP!NotCanceled
  BY RingAssumed, SameRingInit, RingP!EachOnceInit, RingP!NotCanceledInit
     DEF Init
<1>3. \A w \in Workers : ~RespP!Posted(w) /\ wpc[w] # "busy"
  BY DEF Init, Resp!SlotInit, Ring!Init, RespP!Posted, RespP!Checking
<1>4. RespP!Identified
  BY DEF Init, Resp!SlotInit, RespP!Identified
<1>5. ServingFits /\ PostedFits
  BY <1>3 DEF ServingFits, Serves, PostedFits, PostedTo
<1>6. \A t \in Threads : got[t] = NoChunk
  BY SameSlotSets DEF Init, Resp!SlotInit, NoChunk
<1>7. GotFits /\ BegunGone
  BY <1>3, <1>6 DEF GotFits, BegunGone, Begun, PostedTo
<1>8. Delivered
  <2> SUFFICES ASSUME NEW t \in Threads PROVE DeliveredTo(t)
    BY DEF Delivered
  <2>1. stage[t] = "new" /\ delivered[t] = <<>>
    BY DEF Init
  <2>2. ~Pending(t) /\ NextOf(t) = 0
    BY <1>6, <2>1 DEF Pending, NextOf
  <2> QED BY <2>1, <2>2 DEF DeliveredTo, Count
<1> QED BY <1>1, <1>2, <1>4, <1>5, <1>7, <1>8 DEF AnswerInv

LEMMA AnswerInvHolds == SerialSpec => []AnswerInv
BY AnswerInvInit, AnswerInvPreserved, PTL DEF SerialSpec

(* A client is sent its own answer, from the echo on, nothing missing or   *)
(* repeated, and nothing after a last piece: the invariant                 *)
(* OwnAnswerInOrder of the runs.                                           *)
THEOREM AnswersAreOwn == SerialSpec => []OwnAnswerInOrder
<1>1. AnswerInv => OwnAnswerInOrder
  BY DEF AnswerInv, Delivered, DeliveredTo, OwnAnswerInOrder
<1> QED BY <1>1, AnswerInvHolds, PTL

(* An answer has at least one token, no more than asked for or allowed,    *)
(* and its last chunk says so: the invariant WholeAnswer of the runs.      *)
THEOREM AnswersAreWhole == SerialSpec => []WholeAnswer
<1>1. ASSUME AnswerInv, NEW t \in Threads, stage[t] = "done", connected[t]
      PROVE  /\ Len(delivered[t]) \in 2 .. Budget(t) + 1
             /\ delivered[t][Len(delivered[t])].is_last_piece
  <2>1. /\ Len(delivered[t]) + Count(Pending(t)) = NextOf(t)
        /\ got[t].is_last_piece
        /\ delivered[t][Len(delivered[t])] = got[t]
    BY <1>1 DEF AnswerInv, Delivered, DeliveredTo
  <2>2. Len(delivered[t]) \in Nat
    BY <1>1, AnswerFacts DEF DriverType
  <2>3. Len(delivered[t]) = NextOf(t)
    BY <1>1, <2>1, <2>2 DEF Pending, Count
  <2>4. /\ got[t].data.n \in Nat /\ NextOf(t) = got[t].data.n + 1
        /\ got[t].data.n >= 1 /\ got[t].data.n <= Budget(t)
    BY <1>1, <2>1, GotPlace, PipelineAssumption DEF AnswerInv, GotFits, Fits
  <2>5. Budget(t) \in Nat
    BY <1>1, AnswerFacts, BudgetBound, PipelineAssumption
  <2> QED BY <2>1, <2>3, <2>4, <2>5
<1>2. AnswerInv => WholeAnswer
  BY <1>1 DEF WholeAnswer
<1> QED BY <1>2, AnswerInvHolds, PTL

(* A request that was accepted and is at its end has had its answer.       *)
LEMMA EndedIsServed ==
  ASSUME AnswerInv, NEW t \in Threads, RingP!Settled(t),
         stage[t] \in {"new", "done", "failed"}
  PROVE  stage[t] = "done" /\ RingP!Gone(t) /\ got[t].is_last_piece
<1>1. stage[t] = "done"
  BY AnswerFacts DEF RingP!Settled, Places, AnswerInv, Delivered, DeliveredTo
<1>2. got[t].is_last_piece /\ got[t] # NoChunk
  BY <1>1, GotPlace DEF AnswerInv, Delivered, DeliveredTo
<1> QED BY <1>1, <1>2 DEF AnswerInv, BegunGone, Begun

LEMMA QuietSlot ==
  ASSUME AnswerInv, Quiescent, NEW w \in Workers
  PROVE  sem_resp[w] = 0 /\ sem_resp_consumed[w] = 1
<1>1. /\ sem_resp[w] + sem_resp_consumed[w] + RespP!Sending(w)
           + Cardinality(RespP!Holders(w)) = 1
      /\ sem_resp[w] \in Nat /\ sem_resp_consumed[w] \in Nat
  BY AnswerFacts, SameCardinality DEF RespP!TokenConservation, RespP!TypeOK
<1>2. RespP!Sending(w) = 0
  BY AnswerFacts DEF Quiescent, Places, RespP!Sending, RespP!Writing
<1>3. RespP!Holders(w) = {}
  BY AnswerFacts
     DEF Quiescent, Places, RespP!Holders, RespP!HoldingToken, RespP!Checking
<1>4. sem_resp[w] = 0
  <2> SUFFICES ASSUME sem_resp[w] # 0 PROVE FALSE
    OBVIOUS
  <2>1. RespP!Posted(w)
    BY <1>1 DEF RespP!Posted
  <2>2. PICK t \in Threads : PostedTo(w, t)
    BY <2>1, PostedChunk DEF PostedTo
  <2>3. ~got[t].is_last_piece /\ RingP!Settled(t)
    BY <2>2 DEF AnswerInv, PostedFits, BegunGone, Begun, RingP!Settled
  <2> QED BY <2>3, EndedIsServed DEF Quiescent
<1> QED BY <1>1, <1>2, <1>3, <1>4, FS_EmptySet

LEMMA QuietRing ==
  ASSUME AnswerInv, Quiescent, NEW w \in Workers
  PROVE  /\ sem_request_items[w] = 0 /\ sem_req_space[w] = CAP
         /\ head[w] = tail[w]
<1>1. ASSUME NEW t \in Threads
      PROVE  pc[t] \notin RingP!Enqueuing
  <2>1. stage[t] \in {"new", "done", "failed"}
    BY DEF Quiescent
  <2>2. pc[t] \in {"idle", "returned", "rejected"}
    BY <2>1, AnswerFacts DEF Places, AnswerInv, Delivered, DeliveredTo
  <2> QED BY <2>2 DEF RingP!Enqueuing, RingP!Filling
<1>2. RingP!Holding(w) = {} /\ RingP!Posting(w) = {}
  BY <1>1 DEF RingP!Holding, RingP!Posting, RingP!Enqueuing
<1>3. wpc[w] = "idle" /\ RingP!Serving(w) = 0
  BY DEF Quiescent, RingP!Serving
<1>4. /\ sem_req_space[w] + Cardinality(RingP!Holding(w))
           + sem_request_items[w] + RingP!Serving(w) = CAP
      /\ head[w] = tail[w] + sem_request_items[w]
                     + Cardinality(RingP!Posting(w))
                     + (IF wpc[w] = "fetch_tail" THEN 1 ELSE 0)
      /\ sem_request_items[w] \in Nat /\ tail[w] \in Nat /\ head[w] \in Nat
      /\ sem_req_space[w] \in Nat
  BY AnswerFacts, SameCardinality
     DEF RingP!RingInv, RingP!Counted, RingP!SpaceConservation,
         RingP!ItemsCountQueue, RingP!Posting, RingP!TypeOK
<1>5. /\ sem_req_space[w] + sem_request_items[w] = CAP
      /\ head[w] = tail[w] + sem_request_items[w]
  BY <1>2, <1>3, <1>4, FS_EmptySet
<1>6. sem_request_items[w] = 0
  <2> SUFFICES ASSUME sem_request_items[w] # 0 PROVE FALSE
    OBVIOUS
  <2>1. tail[w] \in RingP!Live(w)
    BY <1>4, <1>5 DEF RingP!Live, RingP!Queued
  <2>2. PICK t \in Threads :
          t = req[w][tail[w] % CAP].data /\ RingP!Settled(t)
    BY <2>1, AnswerFacts DEF RingP!RingInv, RingP!LiveRequests,
                             RingP!Published, RingP!Settled
  <2>3. RingP!Gone(t)
    BY <2>2, EndedIsServed DEF Quiescent
  <2> QED BY <2>1, <2>2, <2>3 DEF RingP!Gone
<1> QED BY <1>4, <1>5, <1>6, PipelineAssumption

(* Requests that have come to an end leave every semaphore at its initial  *)
(* value and the ring empty: the invariant NothingLeftBehind of the runs.  *)
THEOREM NothingIsLeftBehind == SerialSpec => []NothingLeftBehind
<1>1. AnswerInv => NothingLeftBehind
  BY QuietSlot, QuietRing DEF NothingLeftBehind
<1> QED BY <1>1, AnswerInvHolds, PTL
=============================================================================
