------------------------- MODULE RequestRing_proofs -------------------------
(***************************************************************************)
(* What holds of the request ring for any number of workers and threads    *)
(* and any capacity, with threads enqueuing concurrently as the server     *)
(* lets them; then, what more holds under the ring's contract.             *)
(***************************************************************************)
EXTENDS RequestRing, FiniteSetTheorems, SequenceTheorems, TLAPS

LEMMA SlotIndex == \A n \in Nat : n % CAP \in 0 .. CAP - 1
BY RingAssumption

-----------------------------------------------------------------------------
(* Every variable keeps its type: the invariant TypeOK of the runs.        *)
LEMMA TypePreserved == TypeOK /\ [Next]_vars => TypeOK'
<1> SUFFICES ASSUME TypeOK, [Next]_vars PROVE TypeOK'
  OBVIOUS
<1> USE RingAssumption
<1>1. ASSUME NEW t \in Threads, NEW w \in Workers, EnqueueCall(t, w)
      PROVE TypeOK'
  BY <1>1 DEF TypeOK, EnqueueCall, Goto, workerVars
<1>2. ASSUME NEW t \in Threads, EnqueueStep(t) PROVE TypeOK'
  <2>0. pc[t] # "idle" => worker[t] \in Workers
    BY DEF TypeOK
  <2>1. CASE WaitSpace(t)
    BY <2>0, <2>1 DEF TypeOK, WaitSpace, Goto, workerVars, Enqueuing
  <2>2. CASE TakeTaskId(t)
    BY <2>2 DEF TypeOK, TakeTaskId, Goto, workerVars, Enqueuing
  <2>3. CASE LoadHead(t)
    BY <2>0, <2>3 DEF TypeOK, LoadHead, Goto, workerVars, Enqueuing, Filling
  <2>4. CASE WriteId(t)
    <3>1. PICK w \in Workers, i \in 0 .. CAP - 1 :
            w = worker[t] /\ i = head_val[t] % CAP
      BY <2>0, <2>4, SlotIndex DEF TypeOK, WriteId, Goto
    <3>2. SlotOf(task_id[t], req[w][i].data, req[w][i].is_canceled) \in ReqSlot
      BY DEF TypeOK, ReqSlot, SlotOf
    <3>4. req' \in [Workers -> [0 .. CAP - 1 -> ReqSlot]]
      BY <2>4, <3>1, <3>2 DEF TypeOK, WriteId
    <3> QED BY <2>4, <3>4 DEF TypeOK, WriteId, Goto, workerVars, Enqueuing, Filling
  <2>5. CASE WriteData(t)
    <3>1. PICK w \in Workers, i \in 0 .. CAP - 1 :
            w = worker[t] /\ i = head_val[t] % CAP
      BY <2>0, <2>5, SlotIndex DEF TypeOK, WriteData, Goto
    <3>2. SlotOf(req[w][i].task_id, t, req[w][i].is_canceled) \in ReqSlot
      BY DEF TypeOK, ReqSlot, SlotOf, Messages
    <3>4. req' \in [Workers -> [0 .. CAP - 1 -> ReqSlot]]
      BY <2>5, <3>1, <3>2 DEF TypeOK, WriteData
    <3> QED BY <2>5, <3>4 DEF TypeOK, WriteData, Goto, workerVars, Enqueuing, Filling
  <2>6. CASE StoreHead(t)
    BY <2>0, <2>6 DEF TypeOK, StoreHead, Goto, workerVars, Enqueuing
  <2>7. CASE PostItem(t)
    BY <2>0, <2>7 DEF TypeOK, PostItem, Goto, workerVars
  <2> QED BY <1>2, <2>1, <2>2, <2>3, <2>4, <2>5, <2>6, <2>7 DEF EnqueueStep
<1>3. ASSUME NEW w \in Workers, DequeueStep(w) \/ Handled(w) PROVE TypeOK'
  <2>0. ReadSlot(w) \in ReqSlot
    <3>1. tail_val[w] % CAP \in 0 .. CAP - 1
      BY SlotIndex DEF TypeOK
    <3> QED BY <3>1 DEF TypeOK, ReadSlot
  <2>1. CASE WaitItem(w)
    BY <2>1 DEF TypeOK, WaitItem, WGoto, threadVars
  <2>2. CASE FetchTail(w)
    BY <2>2 DEF TypeOK, FetchTail, WGoto, threadVars
  <2>3. CASE CopyId(w)
    BY <2>0, <2>3 DEF TypeOK, CopyId, WGoto, threadVars, ReqSlot, SlotOf
  <2>4. CASE CopyData(w)
    BY <2>0, <2>4 DEF TypeOK, CopyData, WGoto, threadVars, ReqSlot, SlotOf
  <2>5. CASE Handled(w)
    BY <2>5 DEF TypeOK, Handled, WGoto, threadVars
  <2> QED BY <1>3, <2>1, <2>2, <2>3, <2>4, <2>5 DEF DequeueStep
<1>4. CASE UNCHANGED vars
  BY <1>4 DEF TypeOK, vars, threadVars, workerVars
<1> QED BY <1>1, <1>2, <1>3, <1>4 DEF Next

LEMMA TypeInit == Init => TypeOK
BY RingAssumption DEF Init, TypeOK, EmptySlot, SlotOf, ReqSlot, Messages

THEOREM TypeCorrect == Spec => []TypeOK
BY TypeInit, TypePreserved, PTL DEF Spec

-----------------------------------------------------------------------------
(* Task ids stay unique and below next_task_id, because the id is taken by *)
(* one atomic step.                                                        *)
LEMMA TaskIdsPreserved == TypeOK /\ TaskIdsUnique /\ [Next]_vars => TaskIdsUnique'
<1> SUFFICES ASSUME TypeOK, TaskIdsUnique, [Next]_vars PROVE TaskIdsUnique'
  OBVIOUS
<1>1. ASSUME NEW t \in Threads, TakeTaskId(t) PROVE TaskIdsUnique'
  BY <1>1 DEF TaskIdsUnique, TypeOK, TakeTaskId
<1>2. CASE UNCHANGED <<task_id, next_task_id>>
  BY <1>2 DEF TaskIdsUnique
<1>3. ASSUME NEW t \in Threads, EnqueueStep(t), ~TakeTaskId(t)
      PROVE  UNCHANGED <<task_id, next_task_id>>
  BY <1>3 DEF EnqueueStep, WaitSpace, LoadHead, WriteId, WriteData, StoreHead,
              PostItem
<1>4. ASSUME NEW w \in Workers, DequeueStep(w) \/ Handled(w)
      PROVE  UNCHANGED <<task_id, next_task_id>>
  BY <1>4 DEF DequeueStep, WaitItem, FetchTail, CopyId, CopyData, Handled,
              threadVars
<1>5. ASSUME NEW t \in Threads, NEW w \in Workers, EnqueueCall(t, w)
      PROVE  UNCHANGED <<task_id, next_task_id>>
  BY <1>5 DEF EnqueueCall
<1>6. UNCHANGED vars => UNCHANGED <<task_id, next_task_id>>
  BY DEF vars, threadVars
<1> QED BY <1>1, <1>2, <1>3, <1>4, <1>5, <1>6 DEF Next

LEMMA TaskIdsInit == Init => TaskIdsUnique
BY DEF Init, TaskIdsUnique

(* The invariant TaskIdsUnique of the runs.                                *)
THEOREM TaskIdsStayUnique == Spec => []TaskIdsUnique
BY TaskIdsInit, TaskIdsPreserved, TypeCorrect, PTL DEF Spec

-----------------------------------------------------------------------------
LEMMA HoldingFinite ==
  ASSUME NEW w \in Workers
  PROVE  IsFiniteSet(Holding(w)) /\ Cardinality(Holding(w)) \in Nat
BY RingAssumption, FS_Subset, FS_CardinalityType DEF Holding

Account(w) ==
  sem_req_space[w] + Cardinality(Holding(w)) + sem_request_items[w] + Serving(w)

(* Each step moves a unit of space from one place of a worker's account to *)
(* another or leaves the account alone.                                    *)
LEMMA SpacePreserved ==
  TypeOK /\ SpaceConservation /\ [Next]_vars => SpaceConservation'
<1> SUFFICES ASSUME TypeOK, SpaceConservation, [Next]_vars, NEW w \in Workers
             PROVE  Account(w)' = CAP
  BY DEF SpaceConservation, Account
<1>0. /\ Account(w) = CAP
      /\ sem_req_space[w] \in Nat /\ sem_request_items[w] \in Nat
      /\ Serving(w) \in {0, 1}
      /\ IsFiniteSet(Holding(w)) /\ Cardinality(Holding(w)) \in Nat
  BY HoldingFinite DEF SpaceConservation, Account, TypeOK, Serving
<1>1. ASSUME NEW t \in Threads, NEW v \in Workers, EnqueueCall(t, v)
      PROVE  Account(w)' = CAP
  <2>1. Holding(w)' = Holding(w)
    BY <1>1 DEF Holding, EnqueueCall, Goto, Enqueuing, Filling, TypeOK
  <2> QED BY <1>0, <1>1, <2>1 DEF EnqueueCall, Account, Serving, workerVars
<1>2. ASSUME NEW t \in Threads, EnqueueStep(t) PROVE Account(w)' = CAP
  <2>0. Serving(w)' = Serving(w)
    BY <1>2 DEF Serving, workerVars, EnqueueStep, WaitSpace, TakeTaskId,
                LoadHead, WriteId, WriteData, StoreHead, PostItem
  <2>1. CASE worker[t] # w
    <3>1. Holding(w)' = Holding(w)
      BY <1>2, <2>1 DEF Holding, Goto, TypeOK, EnqueueStep, WaitSpace,
                        TakeTaskId, LoadHead, WriteId, WriteData, StoreHead,
                        PostItem
    <3>2. /\ sem_req_space'[w] = sem_req_space[w]
          /\ sem_request_items'[w] = sem_request_items[w]
      BY <1>2, <2>1 DEF TypeOK, EnqueueStep, WaitSpace, TakeTaskId, LoadHead,
                        WriteId, WriteData, StoreHead, PostItem
    <3> QED BY <1>0, <2>0, <3>1, <3>2 DEF Account
  <2>2. CASE worker[t] = w /\ WaitSpace(t)
    <3>1. t \notin Holding(w) /\ Holding(w)' = Holding(w) \cup {t}
      BY <2>2 DEF Holding, WaitSpace, Goto, Enqueuing, Filling, TypeOK
    <3>2. Cardinality(Holding(w)') = Cardinality(Holding(w)) + 1
      BY <1>0, <3>1, FS_AddElement
    <3> QED BY <1>0, <2>0, <2>2, <3>2 DEF Account, WaitSpace, TypeOK
  <2>3. CASE worker[t] = w /\ PostItem(t)
    <3>1. t \in Holding(w) /\ Holding(w)' = Holding(w) \ {t}
      BY <2>3 DEF Holding, PostItem, Goto, Enqueuing, Filling, TypeOK
    <3>2. Cardinality(Holding(w)') = Cardinality(Holding(w)) - 1
      BY <1>0, <3>1, FS_RemoveElement
    <3> QED BY <1>0, <2>0, <2>3, <3>2 DEF Account, PostItem, TypeOK
  <2>4. CASE \/ TakeTaskId(t) \/ LoadHead(t) \/ WriteId(t) \/ WriteData(t)
             \/ StoreHead(t)
    <3>1. Holding(w)' = Holding(w)
      BY <2>4 DEF Holding, TakeTaskId, LoadHead, WriteId, WriteData, StoreHead,
                  Goto, Enqueuing, Filling, TypeOK
    <3>2. UNCHANGED <<sem_req_space, sem_request_items>>
      BY <2>4 DEF TakeTaskId, LoadHead, WriteId, WriteData, StoreHead
    <3> QED BY <1>0, <2>0, <3>1, <3>2 DEF Account
  <2> QED BY <1>2, <2>1, <2>2, <2>3, <2>4 DEF EnqueueStep
<1>3. ASSUME NEW v \in Workers, DequeueStep(v) \/ Handled(v)
      PROVE  Account(w)' = CAP
  <2>1. Holding(w)' = Holding(w)
    BY <1>3 DEF Holding, threadVars, DequeueStep, WaitItem, FetchTail, CopyId,
                CopyData, Handled
  <2>2. CASE WaitItem(v)
    BY <1>0, <2>1, <2>2 DEF Account, Serving, WaitItem, WGoto, TypeOK
  <2>3. CASE FetchTail(v) \/ CopyId(v) \/ CopyData(v)
    BY <1>0, <2>1, <2>3 DEF Account, Serving, FetchTail, CopyId, CopyData,
                            WGoto, TypeOK
  <2>4. CASE Handled(v)
    <3>1. CASE v = w
      <4>1. Serving(w) = 1 /\ Serving(w)' = 0
        BY <2>4, <3>1 DEF Serving, Handled, WGoto, TypeOK
      <4>2. sem_req_space'[w] = sem_req_space[w] + 1
        BY <2>4, <3>1 DEF Handled, TypeOK
      <4> QED BY <1>0, <2>1, <2>4, <4>1, <4>2 DEF Account, Handled
    <3>2. CASE v # w
      <4>1. /\ Serving(w)' = Serving(w)
            /\ sem_req_space'[w] = sem_req_space[w]
        BY <2>4, <3>2 DEF Serving, Handled, WGoto, TypeOK
      <4> QED BY <1>0, <2>1, <2>4, <4>1 DEF Account, Handled
    <3> QED BY <3>1, <3>2
  <2> QED BY <1>3, <2>2, <2>3, <2>4 DEF DequeueStep
<1>4. CASE UNCHANGED vars
  <2>1. Holding(w)' = Holding(w) /\ Serving(w)' = Serving(w)
    BY <1>4 DEF vars, threadVars, workerVars, Holding, Serving
  <2> QED BY <1>0, <1>4, <2>1 DEF vars, Account
<1> QED BY <1>1, <1>2, <1>3, <1>4 DEF Next

LEMMA SpaceInit == Init => SpaceConservation
<1> SUFFICES ASSUME Init, NEW w \in Workers PROVE Account(w) = CAP
  BY DEF SpaceConservation, Account
<1>1. Holding(w) = {}
  BY DEF Init, Holding, Enqueuing, Filling
<1>2. Cardinality(Holding(w)) = 0
  BY <1>1, FS_EmptySet
<1> QED BY <1>2, RingAssumption DEF Account, Init, Serving

(* No interleaving makes or loses a unit of space: the invariant           *)
(* SpaceConservation of the runs.                                          *)
THEOREM SpaceIsConserved == Spec => []SpaceConservation
BY SpaceInit, SpacePreserved, TypeCorrect, PTL DEF Spec

-----------------------------------------------------------------------------
(* The ids there are.  A thread takes one, so they run from 1 to the       *)
(* number of threads.                                                      *)
TookId ==
  {t \in Threads : pc[t] \in {"load_head", "post_item", "returned"}
                              \cup Filling}

(* Every thread took one id.                                               *)
IdsCounted ==
  /\ next_task_id = Cardinality(TookId) + 1
  /\ \A t \in TookId : task_id[t] # 0

LEMMA TookIdFinite == IsFiniteSet(TookId) /\ Cardinality(TookId) \in Nat
BY RingAssumption, FS_Subset, FS_CardinalityType DEF TookId

LEMMA IdsCountedPreserved ==
  TypeOK /\ IdsCounted /\ [Next]_vars => IdsCounted'
<1> SUFFICES ASSUME TypeOK, IdsCounted, [Next]_vars PROVE IdsCounted'
  OBVIOUS
<1>1. CASE UNCHANGED <<next_task_id, task_id>> /\ TookId' = TookId
  BY <1>1 DEF IdsCounted
<1>2. ASSUME NEW t \in Threads, TakeTaskId(t) PROVE IdsCounted'
  <2>1. t \notin TookId /\ TookId' = TookId \cup {t}
    BY <1>2 DEF TakeTaskId, Goto, TookId, Filling, TypeOK
  <2>2. Cardinality(TookId') = Cardinality(TookId) + 1
    BY <2>1, TookIdFinite, FS_AddElement
  <2>3. next_task_id' = next_task_id + 1 /\ next_task_id \in Nat \ {0}
    BY <1>2 DEF TakeTaskId, TypeOK
  <2>4. next_task_id' = Cardinality(TookId') + 1
    BY <2>2, <2>3, TookIdFinite DEF IdsCounted
  <2>5. \A s \in TookId' : task_id'[s] # 0
    BY <1>2, <2>1 DEF TakeTaskId, TypeOK, IdsCounted, TookId
  <2> QED BY <2>4, <2>5 DEF IdsCounted
<1>3. ASSUME NEW t \in Threads, NEW v \in Workers, EnqueueCall(t, v)
      PROVE  UNCHANGED <<next_task_id, task_id>> /\ TookId' = TookId
  BY <1>3 DEF EnqueueCall, Goto, TookId, Filling, TypeOK
<1>4. ASSUME NEW t \in Threads, EnqueueStep(t), ~TakeTaskId(t)
      PROVE  UNCHANGED <<next_task_id, task_id>> /\ TookId' = TookId
  BY <1>4 DEF EnqueueStep, WaitSpace, LoadHead, WriteId, WriteData, StoreHead,
              PostItem, Goto, TookId, Filling, TypeOK
<1>5. ASSUME NEW w \in Workers, DequeueStep(w) \/ Handled(w)
      PROVE  UNCHANGED <<next_task_id, task_id>> /\ TookId' = TookId
  BY <1>5 DEF DequeueStep, WaitItem, FetchTail, CopyId, CopyData, Handled,
              threadVars, TookId
<1>6. UNCHANGED vars =>
        UNCHANGED <<next_task_id, task_id>> /\ TookId' = TookId
  BY DEF vars, threadVars, TookId
<1> QED BY <1>1, <1>2, <1>3, <1>4, <1>5, <1>6 DEF Next

LEMMA IdsCountedInit == Init => IdsCounted
<1> SUFFICES ASSUME Init PROVE IdsCounted
  OBVIOUS
<1>1. TookId = {}
  BY DEF Init, TookId, Filling
<1>2. Cardinality(TookId) = 0
  BY <1>1, FS_EmptySet
<1> QED BY <1>1, <1>2 DEF Init, IdsCounted

Ids == 0 .. Cardinality(Threads)

IdsWithin ==
  /\ \A t \in Threads : task_id[t] \in Ids
  /\ \A w \in Workers :
       /\ \A i \in 0 .. CAP - 1 : req[w][i].task_id \in Ids
       /\ slot[w].task_id \in Ids

LEMMA NextIdWithin ==
  ASSUME TypeOK, IdsCounted, NEW t \in Threads, pc[t] = "take_id"
  PROVE  next_task_id \in Ids
<1>1. t \notin TookId /\ TookId \cup {t} \subseteq Threads
  BY DEF TookId, Filling
<1>2. Cardinality(TookId \cup {t}) = Cardinality(TookId) + 1
  BY <1>1, TookIdFinite, FS_AddElement
<1>3. Cardinality(TookId \cup {t}) <= Cardinality(Threads)
  BY <1>1, RingAssumption, FS_Subset
<1>4. Cardinality(Threads) \in Nat
  BY RingAssumption, FS_CardinalityType
<1> QED BY <1>2, <1>3, <1>4, TookIdFinite DEF IdsCounted, Ids

(* What WriteId and WriteData do to the slots.                             *)
LEMMA WriteIdEffect ==
  ASSUME TypeOK, NEW t \in Threads, WriteId(t)
  PROVE  \A w \in Workers, i \in 0 .. CAP - 1 :
           req'[w][i] =
             IF w = worker[t] /\ i = head_val[t] % CAP
               THEN SlotOf(task_id[t], req[w][i].data, req[w][i].is_canceled)
               ELSE req[w][i]
<1>1. PICK v \in Workers, k \in 0 .. CAP - 1 :
        v = worker[t] /\ k = head_val[t] % CAP
  BY SlotIndex DEF TypeOK, WriteId, Goto
<1> QED BY <1>1 DEF TypeOK, WriteId

LEMMA WriteDataEffect ==
  ASSUME TypeOK, NEW t \in Threads, WriteData(t)
  PROVE  \A w \in Workers, i \in 0 .. CAP - 1 :
           req'[w][i] =
             IF w = worker[t] /\ i = head_val[t] % CAP
               THEN SlotOf(req[w][i].task_id, t, req[w][i].is_canceled)
               ELSE req[w][i]
<1>1. PICK v \in Workers, k \in 0 .. CAP - 1 :
        v = worker[t] /\ k = head_val[t] % CAP
  BY SlotIndex DEF TypeOK, WriteData, Goto
<1> QED BY <1>1 DEF TypeOK, WriteData

(* Whatever threads write over each other, an id in the ring was taken.    *)
LEMMA IdsWithinPreserved ==
  TypeOK /\ IdsCounted /\ IdsWithin /\ [Next]_vars => IdsWithin'
<1> SUFFICES ASSUME TypeOK, IdsCounted, IdsWithin, [Next]_vars PROVE IdsWithin'
  OBVIOUS
<1>1. CASE UNCHANGED <<task_id, req, slot>>
  BY <1>1 DEF IdsWithin
<1>2. ASSUME NEW t \in Threads, EnqueueStep(t) PROVE IdsWithin'
  <2>1. CASE TakeTaskId(t)
    <3>1. next_task_id \in Ids
      BY <2>1, NextIdWithin DEF TakeTaskId, Goto
    <3> QED BY <2>1, <3>1 DEF TakeTaskId, IdsWithin, TypeOK, workerVars, Ids
  <2>2. CASE WriteId(t)
    <3>1. \A w \in Workers, i \in 0 .. CAP - 1 : req'[w][i].task_id \in Ids
      <4> SUFFICES ASSUME NEW w \in Workers, NEW i \in 0 .. CAP - 1
                   PROVE  req'[w][i].task_id \in Ids
        OBVIOUS
      <4>1. \/ req'[w][i].task_id = task_id[t]
            \/ req'[w][i] = req[w][i]
        <5>1. req'[w][i] = IF w = worker[t] /\ i = head_val[t] % CAP
                   THEN SlotOf(task_id[t], req[w][i].data,
                               req[w][i].is_canceled)
                   ELSE req[w][i]
          BY <2>2, WriteIdEffect
        <5> QED BY <5>1 DEF SlotOf
      <4> QED BY <4>1 DEF IdsWithin
    <3>2. UNCHANGED <<task_id, slot>>
      BY <2>2 DEF WriteId, workerVars
    <3> QED BY <3>1, <3>2 DEF IdsWithin
  <2>3. CASE WriteData(t)
    <3>1. \A w \in Workers, i \in 0 .. CAP - 1 : req'[w][i].task_id \in Ids
      <4> SUFFICES ASSUME NEW w \in Workers, NEW i \in 0 .. CAP - 1
                   PROVE  req'[w][i].task_id \in Ids
        OBVIOUS
      <4>1. req'[w][i].task_id = req[w][i].task_id
        <5>1. req'[w][i] = IF w = worker[t] /\ i = head_val[t] % CAP
                   THEN SlotOf(req[w][i].task_id, t, req[w][i].is_canceled)
                   ELSE req[w][i]
          BY <2>3, WriteDataEffect
        <5> QED BY <5>1 DEF SlotOf
      <4> QED BY <4>1 DEF IdsWithin
    <3> QED BY <2>3, <3>1 DEF WriteData, IdsWithin, Ids, workerVars
  <2>4. CASE WaitSpace(t) \/ LoadHead(t) \/ StoreHead(t) \/ PostItem(t)
    BY <1>1, <2>4 DEF WaitSpace, LoadHead, StoreHead, PostItem, workerVars
  <2> QED BY <1>2, <2>1, <2>2, <2>3, <2>4 DEF EnqueueStep
<1>3. ASSUME NEW w \in Workers, DequeueStep(w) \/ Handled(w) PROVE IdsWithin'
  <2>1. CASE CopyId(w)
    <3>1. ReadSlot(w).task_id \in Ids
      BY SlotIndex DEF ReadSlot, IdsWithin, TypeOK
    <3> QED BY <2>1, <3>1 DEF CopyId, IdsWithin, SlotOf, TypeOK, threadVars
  <2>2. CASE CopyData(w)
    BY <2>2 DEF CopyData, IdsWithin, SlotOf, TypeOK, threadVars
  <2>3. CASE WaitItem(w) \/ FetchTail(w) \/ Handled(w)
    BY <1>1, <2>3 DEF WaitItem, FetchTail, Handled, threadVars
  <2> QED BY <1>3, <2>1, <2>2, <2>3 DEF DequeueStep
<1>4. ASSUME NEW t \in Threads, NEW w \in Workers, EnqueueCall(t, w)
      PROVE  UNCHANGED <<task_id, req, slot>>
  BY <1>4 DEF EnqueueCall, workerVars
<1>5. UNCHANGED vars => UNCHANGED <<task_id, req, slot>>
  BY DEF vars, threadVars, workerVars
<1> QED BY <1>1, <1>2, <1>3, <1>4, <1>5 DEF Next

LEMMA IdsWithinInit == Init => IdsWithin
<1>1. 0 \in Ids
  BY RingAssumption, FS_CardinalityType DEF Ids
<1> QED BY <1>1 DEF Init, IdsWithin, EmptySlot, SlotOf

(* What holds of the ring whoever fills it, together.                      *)
Basics ==
  TypeOK /\ TaskIdsUnique /\ SpaceConservation /\ IdsCounted /\ IdsWithin

LEMMA BasicsPreserved == Basics /\ [Next]_vars => Basics'
BY TypePreserved, TaskIdsPreserved, SpacePreserved, IdsCountedPreserved,
   IdsWithinPreserved DEF Basics

LEMMA BasicsInit == Init => Basics
BY TypeInit, TaskIdsInit, SpaceInit, IdsCountedInit, IdsWithinInit DEF Basics

-----------------------------------------------------------------------------
(* Under its contract, one thread at a time between load and store of      *)
(* head: the contents of the slots, and that the ring implements a queue.  *)

Copying(w) == wpc[w] \in {"copy_id", "copy_data"}
Live(w) == Queued(w) \cup Reading(w)
Posting(w) == {t \in Threads : worker[t] = w /\ pc[t] = "post_item"}

(* No other thread moves head while one is filling a slot.                 *)
HeadLoaded ==
  \A t \in Threads : pc[t] \in Filling => head_val[t] = head[worker[t]]

TailFetched == \A w \in Workers : Copying(w) => tail[w] = tail_val[w] + 1

(* The semaphores keep the account of the positions.                       *)
Counted ==
  /\ TypeOK /\ TaskIdsUnique /\ SpaceConservation
  /\ OneProducer /\ HeadLoaded /\ TailFetched /\ ItemsCountQueue

(* What a thread has written of its request so far.                        *)
SlotFilled ==
  \A t \in Threads :
    /\ pc[t] \in {"write_data", "store_head"} =>
         req[worker[t]][head_val[t] % CAP].task_id = task_id[t]
    /\ pc[t] = "store_head" => req[worker[t]][head_val[t] % CAP].data = t

(* r is the whole request of a thread that moved the head of worker w.     *)
Published(w, r) ==
  /\ r.data \in Threads
  /\ worker[r.data] = w
  /\ pc[r.data] \in {"post_item", "returned"}
  /\ r.task_id = task_id[r.data]

LiveRequests ==
  \A w \in Workers : \A i \in Live(w) : Published(w, req[w][i % CAP])

CopiedRequest ==
  \A w \in Workers :
    /\ wpc[w] = "copy_data" => slot[w].task_id = ReadSlot(w).task_id
    /\ wpc[w] = "busy" => Published(w, slot[w])

(* The inductive invariant of the ring under its contract.                 *)
RingInv == Counted /\ IdsCounted /\ SlotFilled /\ LiveRequests /\ CopiedRequest

-----------------------------------------------------------------------------
LEMMA PostingFinite ==
  ASSUME NEW w \in Workers
  PROVE  IsFiniteSet(Posting(w)) /\ Cardinality(Posting(w)) \in Nat
BY RingAssumption, FS_Subset, FS_CardinalityType DEF Posting

(* head follows what is in the semaphore, at threads and at the worker.    *)
LEMMA ItemsPreserved ==
  TypeOK /\ OneProducer /\ HeadLoaded /\ ItemsCountQueue /\ [Next]_vars
    => ItemsCountQueue'
<1> DEFINE Items(w) == tail[w] + sem_request_items[w] + Cardinality(Posting(w))
                         + (IF wpc[w] = "fetch_tail" THEN 1 ELSE 0)
<1> SUFFICES ASSUME TypeOK, OneProducer, HeadLoaded, ItemsCountQueue,
                    [Next]_vars, NEW w \in Workers
             PROVE  head'[w] = Items(w)'
  BY DEF ItemsCountQueue, Posting
<1>0. /\ head[w] = Items(w)
      /\ head[w] \in Nat /\ tail[w] \in Nat /\ sem_request_items[w] \in Nat
      /\ IsFiniteSet(Posting(w)) /\ Cardinality(Posting(w)) \in Nat
  BY PostingFinite DEF ItemsCountQueue, Posting, TypeOK
<1>1. ASSUME NEW t \in Threads, NEW v \in Workers, EnqueueCall(t, v)
      PROVE  head'[w] = Items(w)'
  <2>1. Posting(w)' = Posting(w)
    BY <1>1 DEF Posting, EnqueueCall, Goto, TypeOK
  <2> QED BY <1>0, <1>1, <2>1 DEF EnqueueCall, workerVars
<1>2. ASSUME NEW t \in Threads, EnqueueStep(t) PROVE head'[w] = Items(w)'
  <2>0. UNCHANGED <<tail, wpc, worker>>
    BY <1>2 DEF workerVars, EnqueueStep, WaitSpace, TakeTaskId,
                LoadHead, WriteId, WriteData, StoreHead, PostItem
  <2>1. CASE worker[t] # w
    <3>1. Posting(w)' = Posting(w)
      BY <1>2, <2>1 DEF Posting, Goto, TypeOK, EnqueueStep, WaitSpace,
                        TakeTaskId, LoadHead, WriteId, WriteData, StoreHead,
                        PostItem
    <3>2. head'[w] = head[w] /\ sem_request_items'[w] = sem_request_items[w]
      BY <1>2, <2>1 DEF TypeOK, EnqueueStep, WaitSpace, TakeTaskId, LoadHead,
                        WriteId, WriteData, StoreHead, PostItem
    <3> QED BY <1>0, <2>0, <3>1, <3>2
  <2>2. CASE worker[t] = w /\ StoreHead(t)
    <3>1. t \notin Posting(w) /\ Posting(w)' = Posting(w) \cup {t}
      BY <2>2 DEF Posting, StoreHead, Goto, TypeOK
    <3>2. Cardinality(Posting(w)') = Cardinality(Posting(w)) + 1
      BY <1>0, <3>1, FS_AddElement
    <3>3. head'[w] = head[w] + 1
      BY <2>2 DEF StoreHead, Goto, HeadLoaded, Filling, TypeOK
    <3> QED BY <1>0, <2>0, <2>2, <3>2, <3>3 DEF StoreHead
  <2>3. CASE worker[t] = w /\ PostItem(t)
    <3>1. t \in Posting(w) /\ Posting(w)' = Posting(w) \ {t}
      BY <2>3 DEF Posting, PostItem, Goto, TypeOK
    <3>2. Cardinality(Posting(w)') = Cardinality(Posting(w)) - 1
      BY <1>0, <3>1, FS_RemoveElement
    <3> QED BY <1>0, <2>0, <2>3, <3>2 DEF PostItem, TypeOK
  <2>4. CASE \/ WaitSpace(t) \/ TakeTaskId(t) \/ LoadHead(t) \/ WriteId(t)
             \/ WriteData(t)
    <3>1. Posting(w)' = Posting(w)
      BY <2>4 DEF Posting, WaitSpace, TakeTaskId, LoadHead, WriteId, WriteData,
                  Goto, TypeOK
    <3>2. UNCHANGED <<head, sem_request_items>>
      BY <2>4 DEF WaitSpace, TakeTaskId, LoadHead, WriteId, WriteData
    <3> QED BY <1>0, <2>0, <3>1, <3>2
  <2> QED BY <1>2, <2>1, <2>2, <2>3, <2>4 DEF EnqueueStep
<1>3. ASSUME NEW v \in Workers, DequeueStep(v) \/ Handled(v)
      PROVE  head'[w] = Items(w)'
  <2>1. Posting(w)' = Posting(w) /\ head' = head
    BY <1>3 DEF Posting, threadVars, DequeueStep, WaitItem, FetchTail, CopyId,
                CopyData, Handled
  <2>2. CASE WaitItem(v)
    <3>1. /\ tail' = tail
          /\ sem_request_items[v] > 0
          /\ sem_request_items' = [sem_request_items EXCEPT ![v] = @ - 1]
          /\ wpc[v] = "idle" /\ wpc' = [wpc EXCEPT ![v] = "fetch_tail"]
      BY <2>2 DEF WaitItem, WGoto
    <3> QED BY <1>0, <2>1, <3>1 DEF TypeOK
  <2>3. CASE FetchTail(v)
    <3>1. /\ tail' = [tail EXCEPT ![v] = @ + 1]
          /\ sem_request_items' = sem_request_items
          /\ wpc[v] = "fetch_tail" /\ wpc' = [wpc EXCEPT ![v] = "copy_id"]
      BY <2>3 DEF FetchTail, WGoto
    <3> QED BY <1>0, <2>1, <3>1 DEF TypeOK
  <2>4. CASE CopyId(v) \/ CopyData(v) \/ Handled(v)
    <3>1. /\ tail' = tail /\ sem_request_items' = sem_request_items
          /\ wpc'[w] = "fetch_tail" <=> wpc[w] = "fetch_tail"
      BY <2>4 DEF CopyId, CopyData, Handled, WGoto, TypeOK
    <3> QED BY <1>0, <2>1, <3>1
  <2> QED BY <1>3, <2>2, <2>3, <2>4 DEF DequeueStep
<1>4. CASE UNCHANGED vars
  BY <1>0, <1>4 DEF vars, threadVars, workerVars, Posting
<1> QED BY <1>1, <1>2, <1>3, <1>4 DEF Next

(* A thread that loads head is alone at its worker until it has stored it. *)
LEMMA HeadLoadedPreserved ==
  TypeOK /\ OneProducer /\ HeadLoaded /\ [SerialNext]_vars => HeadLoaded'
<1> SUFFICES ASSUME TypeOK, OneProducer, HeadLoaded, [SerialNext]_vars,
                    NEW s \in Threads, pc'[s] \in Filling
             PROVE  head_val'[s] = head'[worker'[s]]
  BY DEF HeadLoaded
<1>1. ASSUME NEW t \in Threads, NEW v \in Workers, EnqueueCall(t, v)
      PROVE  head_val'[s] = head'[worker'[s]]
  BY <1>1 DEF EnqueueCall, Goto, TypeOK, HeadLoaded, Filling
<1>2. ASSUME NEW t \in Threads, EnqueueStep(t), OneProducer'
      PROVE  head_val'[s] = head'[worker'[s]]
  <2>1. CASE LoadHead(t)
    BY <2>1 DEF LoadHead, Goto, TypeOK, HeadLoaded, Filling
  <2>2. CASE StoreHead(t)
    BY <2>2 DEF StoreHead, Goto, TypeOK, HeadLoaded, OneProducer, Filling
  <2>3. CASE \/ WaitSpace(t) \/ TakeTaskId(t) \/ WriteId(t) \/ WriteData(t)
             \/ PostItem(t)
    BY <2>3 DEF WaitSpace, TakeTaskId, WriteId, WriteData, PostItem, Goto,
                TypeOK, HeadLoaded, Filling
  <2> QED BY <1>2, <2>1, <2>2, <2>3 DEF EnqueueStep
<1>3. ASSUME NEW v \in Workers, DequeueStep(v) \/ Handled(v)
      PROVE  head_val'[s] = head'[worker'[s]]
  BY <1>3 DEF threadVars, DequeueStep, WaitItem, FetchTail, CopyId, CopyData,
              Handled, HeadLoaded
<1>4. CASE UNCHANGED vars
  BY <1>4 DEF vars, threadVars, HeadLoaded
<1> QED BY <1>1, <1>2, <1>3, <1>4 DEF SerialNext, Next

LEMMA TailFetchedPreserved ==
  TypeOK /\ TailFetched /\ [Next]_vars => TailFetched'
<1> SUFFICES ASSUME TypeOK, TailFetched, [Next]_vars PROVE TailFetched'
  OBVIOUS
<1>1. CASE UNCHANGED <<wpc, tail, tail_val>>
  BY <1>1 DEF TailFetched, Copying
<1>2. ASSUME NEW w \in Workers, DequeueStep(w) \/ Handled(w) PROVE TailFetched'
  <2>1. CASE FetchTail(w)
    BY <2>1 DEF FetchTail, WGoto, TypeOK, TailFetched, Copying
  <2>2. CASE WaitItem(w) \/ CopyId(w) \/ CopyData(w) \/ Handled(w)
    BY <2>2 DEF WaitItem, CopyId, CopyData, Handled, WGoto, TypeOK,
                TailFetched, Copying
  <2> QED BY <1>2, <2>1, <2>2 DEF DequeueStep
<1>3. ASSUME NEW t \in Threads, EnqueueStep(t) \/ \E w \in Workers : EnqueueCall(t, w)
      PROVE  UNCHANGED <<wpc, tail, tail_val>>
  BY <1>3 DEF workerVars, EnqueueStep, EnqueueCall, WaitSpace, TakeTaskId,
              LoadHead, WriteId, WriteData, StoreHead, PostItem
<1>4. UNCHANGED vars => UNCHANGED <<wpc, tail, tail_val>>
  BY DEF vars, workerVars
<1> QED BY <1>1, <1>2, <1>3, <1>4 DEF Next

LEMMA OneProducerPreserved == OneProducer /\ [SerialNext]_vars => OneProducer'
<1> SUFFICES ASSUME OneProducer, UNCHANGED vars PROVE OneProducer'
  BY DEF SerialNext
<1> QED BY DEF OneProducer, vars, threadVars

LEMMA CountedPreserved == Counted /\ [SerialNext]_vars => Counted'
<1> SUFFICES ASSUME Counted, [SerialNext]_vars PROVE Counted'
  OBVIOUS
<1>1. [Next]_vars
  BY DEF SerialNext
<1> QED BY <1>1, TypePreserved, TaskIdsPreserved, SpacePreserved,
           OneProducerPreserved, HeadLoadedPreserved, TailFetchedPreserved,
           ItemsPreserved DEF Counted

LEMMA CountedInit == Init => Counted
<1> SUFFICES ASSUME Init PROVE Counted
  OBVIOUS
<1>1. OneProducer /\ HeadLoaded /\ TailFetched
  BY DEF Init, OneProducer, HeadLoaded, TailFetched, Copying, Filling
<1>2. ASSUME NEW w \in Workers PROVE Cardinality(Posting(w)) = 0
  <2>1. Posting(w) = {}
    BY DEF Init, Posting
  <2> QED BY <2>1, FS_EmptySet
<1>3. ItemsCountQueue
  BY <1>2 DEF Init, ItemsCountQueue, Posting
<1> QED BY <1>1, <1>3, TypeInit, TaskIdsInit, SpaceInit DEF Counted

-----------------------------------------------------------------------------
(* Two positions less than CAP apart are in different slots.               *)
LEMMA DistinctSlots ==
  ASSUME NEW i \in Nat, NEW h \in Nat, i < h, h - i < CAP
  PROVE  i % CAP # h % CAP
<1> DEFINE p == i \div CAP
           q == h \div CAP
<1>1. /\ p \in Nat /\ i = CAP * p + (i % CAP)
      /\ q \in Nat /\ h = CAP * q + (h % CAP)
  BY RingAssumption
<1>2. ASSUME i % CAP = h % CAP PROVE FALSE
  <2>0. i % CAP \in Nat
    BY RingAssumption
  <2> HIDE DEF p, q
  <2>1. h - i = CAP * q - CAP * p
    BY <1>1, <1>2, <2>0, RingAssumption
  <2>2. CAP * q - CAP * p = CAP * (q - p)
    BY <1>1, RingAssumption
  <2>3. CASE q - p <= 0
    <3>1. CAP * (q - p) <= 0
      BY <2>3, <1>1, RingAssumption
    <3> QED BY <3>1, <2>1, <2>2
  <2>4. CASE q - p >= 1
    <3>1. CAP * (q - p) >= CAP
      BY <2>4, <1>1, RingAssumption
    <3> QED BY <3>1, <2>1, <2>2, RingAssumption
  <2> QED BY <2>3, <2>4, <1>1
<1> QED BY <1>2

(* A thread that fills a slot holds a unit of space that is neither posted *)
(* nor with the worker: the ring has room for its request.                 *)
LEMMA Room ==
  ASSUME Counted, NEW t \in Threads, pc[t] \in Filling
  PROVE  /\ worker[t] \in Workers
         /\ tail[worker[t]] <= head[worker[t]]
         /\ head[worker[t]] - tail[worker[t]]
              + (IF wpc[worker[t]] \in {"copy_id", "copy_data", "busy"}
                   THEN 1 ELSE 0) < CAP
<1>1. PICK w \in Workers : w = worker[t]
  BY DEF Counted, TypeOK, Filling
<1>2. Cardinality(Posting(w)) + 1 <= Cardinality(Holding(w))
  <2>1. /\ t \notin Posting(w)
        /\ Posting(w) \cup {t} \subseteq Holding(w)
    BY <1>1 DEF Posting, Holding, Enqueuing, Filling
  <2>2. Cardinality(Posting(w) \cup {t}) = Cardinality(Posting(w)) + 1
    BY <2>1, PostingFinite, FS_AddElement
  <2> QED BY <2>1, <2>2, HoldingFinite, FS_Subset
<1>3. /\ sem_req_space[w] \in Nat /\ sem_request_items[w] \in Nat
      /\ head[w] \in Nat /\ tail[w] \in Nat
      /\ Cardinality(Posting(w)) \in Nat /\ Cardinality(Holding(w)) \in Nat
      /\ sem_req_space[w] + Cardinality(Holding(w)) + sem_request_items[w]
           + Serving(w) = CAP
      /\ head[w] = tail[w] + sem_request_items[w] + Cardinality(Posting(w))
                     + (IF wpc[w] = "fetch_tail" THEN 1 ELSE 0)
  BY PostingFinite, HoldingFinite
     DEF Counted, TypeOK, SpaceConservation, ItemsCountQueue, Posting
<1> QED BY <1>1, <1>2, <1>3, RingAssumption DEF Serving

(* The positions that are read or still to be read lie between tail_val    *)
(* and head, so none of them shares a slot with the one being filled.      *)
LEMMA NoOverwriteHolds == Counted => NoOverwrite
<1> SUFFICES ASSUME Counted, NEW t \in Threads, pc[t] \in Filling,
                    NEW i \in Live(worker[t])
             PROVE  i % CAP # head_val[t] % CAP
  BY DEF NoOverwrite, Live
<1>1. PICK w \in Workers : w = worker[t]
  BY Room
<1>2. /\ tail[w] \in Nat /\ tail_val[w] \in Nat /\ head[w] \in Nat
      /\ head_val[t] = head[w]
      /\ Copying(w) => tail[w] = tail_val[w] + 1
      /\ tail[w] <= head[w]
      /\ head[w] - tail[w] + (IF Copying(w) THEN 1 ELSE 0) < CAP
  <2>1. /\ tail[w] \in Nat /\ tail_val[w] \in Nat /\ head[w] \in Nat
        /\ head_val[t] = head[w]
        /\ Copying(w) => tail[w] = tail_val[w] + 1
    BY <1>1 DEF Counted, TypeOK, HeadLoaded, TailFetched
  <2>2. /\ tail[w] <= head[w]
        /\ head[w] - tail[w]
             + (IF wpc[w] \in {"copy_id", "copy_data", "busy"} THEN 1 ELSE 0)
             < CAP
    BY <1>1, Room
  <2> QED BY <2>1, <2>2, RingAssumption DEF Copying
<1>3. i \in Nat /\ i < head[w] /\ head[w] - i < CAP
  <2>1. CASE i \in Queued(w)
    BY <1>2, <2>1, RingAssumption DEF Queued
  <2>2. CASE i \in Reading(w)
    BY <1>2, <2>2, RingAssumption DEF Reading, Copying
  <2> QED BY <1>1, <2>1, <2>2 DEF Live
<1> QED BY <1>2, <1>3, DistinctSlots

-----------------------------------------------------------------------------
(* The positions of requests are numbers, so their slots are in the array. *)
LEMMA LivePositions ==
  ASSUME TypeOK, NEW w \in Workers, NEW i \in Live(w)
  PROVE  i \in Nat /\ i % CAP \in 0 .. CAP - 1
<1>1. i \in Nat
  BY DEF Live, Queued, Reading, TypeOK
<1> QED BY <1>1, SlotIndex

(* Writing leaves the requests to be read alone.                           *)
LEMMA WritesSpareLive ==
  ASSUME Counted, NEW t \in Threads, WriteId(t) \/ WriteData(t),
         NEW w \in Workers, NEW i \in Live(w)
  PROVE  req'[w][i % CAP] = req[w][i % CAP]
<1>1. pc[t] \in Filling /\ TypeOK
  BY DEF WriteId, WriteData, Goto, Filling, Counted
<1>2. ~ (w = worker[t] /\ i % CAP = head_val[t] % CAP)
  BY <1>1, NoOverwriteHolds DEF NoOverwrite, Live
<1> QED BY <1>1, <1>2, LivePositions, WriteIdEffect, WriteDataEffect

(* A thread that moved head keeps its worker and its task id.              *)
Settled(t) == pc[t] \in {"post_item", "returned"}

LEMMA SettledStays ==
  TypeOK /\ [Next]_vars =>
    \A t \in Threads :
      Settled(t) =>
        Settled(t)' /\ worker'[t] = worker[t] /\ task_id'[t] = task_id[t]
<1> SUFFICES ASSUME TypeOK, [Next]_vars, NEW t \in Threads, Settled(t)
             PROVE  /\ Settled(t)'
                    /\ worker'[t] = worker[t] /\ task_id'[t] = task_id[t]
  OBVIOUS
<1> DEFINE Stays == /\ Settled(t)'
                    /\ worker'[t] = worker[t] /\ task_id'[t] = task_id[t]
<1>1. ASSUME NEW s \in Threads, NEW v \in Workers, EnqueueCall(s, v)
      PROVE  Stays
  BY <1>1 DEF Settled, EnqueueCall, Goto, TypeOK
<1>2. ASSUME NEW s \in Threads, EnqueueStep(s) PROVE Stays
  BY <1>2 DEF Settled, Goto, TypeOK, EnqueueStep, WaitSpace, TakeTaskId,
              LoadHead, WriteId, WriteData, StoreHead, PostItem
<1>3. ASSUME NEW v \in Workers, DequeueStep(v) \/ Handled(v) PROVE Stays
  BY <1>3 DEF Settled, threadVars, DequeueStep, WaitItem, FetchTail, CopyId,
              CopyData, Handled
<1>4. CASE UNCHANGED vars
  BY <1>4 DEF vars, threadVars, Settled
<1> QED BY <1>1, <1>2, <1>3, <1>4 DEF Next

(* A request that is complete does not change any more.                    *)
LEMMA PublishedStays ==
  TypeOK /\ [Next]_vars =>
    \A w \in Workers : \A r \in ReqSlot : Published(w, r) => Published(w, r)'
BY SettledStays DEF Published, Settled

(* The slot a thread fills belongs to it: whoever else fills one does so   *)
(* in another worker's ring.                                               *)
LEMMA SlotFilledPreserved == Counted /\ SlotFilled /\ [Next]_vars => SlotFilled'
<1> SUFFICES ASSUME Counted, SlotFilled, [Next]_vars,
                    NEW s \in Threads, pc'[s] \in {"write_data", "store_head"}
             PROVE  /\ req'[worker'[s]][head_val'[s] % CAP].task_id = task_id'[s]
                    /\ pc'[s] = "store_head" =>
                         req'[worker'[s]][head_val'[s] % CAP].data = s
  BY DEF SlotFilled
<1> DEFINE Kept == /\ pc'[s] = pc[s]
                   /\ worker'[s] = worker[s] /\ head_val'[s] = head_val[s]
                   /\ task_id'[s] = task_id[s] /\ req'[worker[s]] = req[worker[s]]
<1>0. TypeOK /\ OneProducer
  BY DEF Counted
<1>1. Kept => /\ req'[worker'[s]][head_val'[s] % CAP].task_id = task_id'[s]
              /\ pc'[s] = "store_head" =>
                   req'[worker'[s]][head_val'[s] % CAP].data = s
  BY DEF SlotFilled
<1>2. ASSUME NEW t \in Threads, NEW v \in Workers, EnqueueCall(t, v) PROVE Kept
  BY <1>0, <1>2 DEF EnqueueCall, Goto, TypeOK
<1>3. ASSUME NEW t \in Threads, EnqueueStep(t), t # s PROVE Kept
  <2>1. pc'[s] = pc[s]
    BY <1>0, <1>3 DEF TypeOK, Goto, EnqueueStep, WaitSpace, TakeTaskId,
                      LoadHead, WriteId, WriteData, StoreHead, PostItem
  <2>2. CASE WriteId(t) \/ WriteData(t)
    <3>1. worker[s] # worker[t]
      BY <1>0, <1>3, <2>1, <2>2
         DEF OneProducer, Filling, WriteId, WriteData, Goto
    <3> QED BY <1>0, <2>1, <2>2, <3>1 DEF WriteId, WriteData, TypeOK
  <2>3. CASE \/ WaitSpace(t) \/ TakeTaskId(t) \/ LoadHead(t) \/ StoreHead(t)
             \/ PostItem(t)
    BY <1>0, <1>3, <2>1, <2>3
       DEF WaitSpace, TakeTaskId, LoadHead, StoreHead, PostItem, TypeOK
  <2> QED BY <1>3, <2>2, <2>3 DEF EnqueueStep
<1>4. CASE EnqueueStep(s)
  <2>0. worker[s] \in Workers /\ head_val[s] % CAP \in 0 .. CAP - 1
    BY <1>0, <1>4, SlotIndex
       DEF TypeOK, Goto, EnqueueStep, WaitSpace, TakeTaskId,
           LoadHead, WriteId, WriteData, StoreHead, PostItem
  <2>1. CASE WriteId(s)
    <3>1. req'[worker[s]][head_val[s] % CAP] =
            SlotOf(task_id[s], req[worker[s]][head_val[s] % CAP].data,
                   req[worker[s]][head_val[s] % CAP].is_canceled)
      BY <1>0, <2>0, <2>1, WriteIdEffect
    <3>2. req'[worker[s]][head_val[s] % CAP].task_id = task_id[s]
      BY <3>1 DEF SlotOf
    <3> QED BY <1>0, <2>1, <3>2 DEF WriteId, Goto, TypeOK
  <2>2. CASE WriteData(s)
    <3>1. req'[worker[s]][head_val[s] % CAP] =
            SlotOf(req[worker[s]][head_val[s] % CAP].task_id, s,
                   req[worker[s]][head_val[s] % CAP].is_canceled)
      BY <1>0, <2>0, <2>2, WriteDataEffect
    <3>2. req[worker[s]][head_val[s] % CAP].task_id = task_id[s]
      BY <2>2 DEF SlotFilled, WriteData, Goto
    <3> QED BY <2>2, <3>1, <3>2 DEF WriteData, SlotOf
  <2>3. CASE \/ WaitSpace(s) \/ TakeTaskId(s) \/ LoadHead(s) \/ StoreHead(s)
             \/ PostItem(s)
    BY <1>0, <2>3 DEF WaitSpace, TakeTaskId, LoadHead, StoreHead, PostItem,
                      Goto, TypeOK
  <2> QED BY <1>4, <2>1, <2>2, <2>3 DEF EnqueueStep
<1>5. ASSUME NEW w \in Workers, DequeueStep(w) \/ Handled(w) PROVE Kept
  BY <1>5 DEF DequeueStep, WaitItem, FetchTail, CopyId, CopyData, Handled,
              threadVars
<1>6. UNCHANGED vars => Kept
  BY DEF vars, threadVars
<1> QED BY <1>1, <1>2, <1>3, <1>4, <1>5, <1>6 DEF Next

-----------------------------------------------------------------------------
(* Only the store of head adds a position.                                 *)
LEMMA LiveGrows ==
  ASSUME Counted, [Next]_vars, NEW w \in Workers, NEW i \in Live(w)'
  PROVE  \/ i \in Live(w)
         \/ \E t \in Threads : StoreHead(t) /\ worker[t] = w /\ i = head_val[t]
<1>0. TypeOK /\ TailFetched /\ HeadLoaded /\ ItemsCountQueue
  BY DEF Counted
<1>1. CASE UNCHANGED <<head, tail, wpc, tail_val>>
  BY <1>1 DEF Live, Queued, Reading
<1>2. ASSUME NEW t \in Threads, StoreHead(t)
      PROVE  i \in Live(w) \/ (worker[t] = w /\ i = head_val[t])
  <2>1. CASE worker[t] = w
    <3>1. head_val[t] = head[w] /\ head[w] \in Nat /\ tail[w] \in Nat
      BY <1>0, <1>2, <2>1 DEF HeadLoaded, Filling, StoreHead, Goto, TypeOK
    <3>2. head'[w] = head[w] + 1 /\ UNCHANGED <<tail, wpc, tail_val>>
      BY <1>0, <1>2, <2>1, <3>1 DEF StoreHead, TypeOK, workerVars
    <3> QED BY <2>1, <3>1, <3>2 DEF Live, Queued, Reading
  <2>2. CASE worker[t] # w
    BY <1>0, <1>2, <2>2 DEF StoreHead, workerVars, TypeOK, Live, Queued, Reading
  <2> QED BY <2>1, <2>2
<1>3. ASSUME NEW v \in Workers, DequeueStep(v) \/ Handled(v)
      PROVE  i \in Live(w)
  <2>1. CASE FetchTail(v)
    <3>1. CASE v = w
      <4>1. /\ head'[w] = head[w] /\ tail'[w] = tail[w] + 1
            /\ tail_val'[w] = tail[w] /\ wpc'[w] = "copy_id"
        BY <1>0, <2>1, <3>1 DEF FetchTail, WGoto, TypeOK
      <4>2. tail[w] < head[w] /\ tail[w] \in Nat /\ head[w] \in Nat
        <5>1. /\ head[w] = tail[w] + sem_request_items[w]
                             + Cardinality(Posting(w)) + 1
              /\ tail[w] \in Nat /\ sem_request_items[w] \in Nat
              /\ head[w] \in Nat
          BY <1>0, <2>1, <3>1
             DEF ItemsCountQueue, Posting, FetchTail, WGoto, TypeOK
        <5> QED BY <5>1, PostingFinite
      <4> QED BY <4>1, <4>2 DEF Live, Queued, Reading
    <3>2. CASE v # w
      BY <1>0, <2>1, <3>2 DEF FetchTail, WGoto, TypeOK, Live, Queued, Reading
    <3> QED BY <3>1, <3>2
  <2>2. CASE WaitItem(v) \/ CopyId(v) \/ CopyData(v) \/ Handled(v)
    <3>1. Queued(w)' = Queued(w) /\ Reading(w)' \subseteq Reading(w)
      BY <1>0, <2>2 DEF WaitItem, CopyId, CopyData, Handled, WGoto, TypeOK,
                        Queued, Reading
    <3> QED BY <3>1 DEF Live
  <2> QED BY <1>3, <2>1, <2>2 DEF DequeueStep
<1>4. ASSUME NEW t \in Threads,
             (~StoreHead(t) /\ EnqueueStep(t)) \/ \E v \in Workers : EnqueueCall(t, v)
      PROVE  UNCHANGED <<head, tail, wpc, tail_val>>
  BY <1>4 DEF workerVars, EnqueueStep, EnqueueCall, WaitSpace, TakeTaskId,
              LoadHead, WriteId, WriteData, PostItem
<1>5. UNCHANGED vars => UNCHANGED <<head, tail, wpc, tail_val>>
  BY DEF vars, workerVars
<1> QED BY <1>1, <1>2, <1>3, <1>4, <1>5 DEF Next

(* A slot to be read keeps its contents in every step.                     *)
LEMMA LiveSlotKept ==
  ASSUME Counted, [Next]_vars, NEW w \in Workers, NEW i \in Live(w)
  PROVE  req'[w][i % CAP] = req[w][i % CAP]
<1>1. ASSUME NEW t \in Threads, WriteId(t) \/ WriteData(t)
      PROVE  req'[w][i % CAP] = req[w][i % CAP]
  BY <1>1, WritesSpareLive
<1>2. ASSUME NEW t \in Threads,
             \/ EnqueueStep(t) /\ ~WriteId(t) /\ ~WriteData(t)
             \/ \E v \in Workers : EnqueueCall(t, v)
      PROVE  UNCHANGED req
  BY <1>2 DEF EnqueueStep, EnqueueCall, WaitSpace, TakeTaskId, LoadHead,
              StoreHead, PostItem
<1>3. ASSUME NEW v \in Workers, DequeueStep(v) \/ Handled(v)
      PROVE  UNCHANGED req
  BY <1>3 DEF DequeueStep, WaitItem, FetchTail, CopyId, CopyData, Handled
<1>4. UNCHANGED vars => UNCHANGED req
  BY DEF vars
<1> QED BY <1>1, <1>2, <1>3, <1>4 DEF Next

(* What is to be read are whole requests: those that were, and the one     *)
(* whose thread moves head past it.                                        *)
LEMMA LiveRequestsPreserved ==
  Counted /\ SlotFilled /\ LiveRequests /\ [Next]_vars => LiveRequests'
<1> SUFFICES ASSUME Counted, SlotFilled, LiveRequests, [Next]_vars,
                    NEW w \in Workers, NEW i \in Live(w)'
             PROVE  Published(w, req[w][i % CAP])'
  BY DEF LiveRequests
<1>0. TypeOK
  BY DEF Counted
<1>1. CASE i \in Live(w)
  <2>1. req[w][i % CAP] \in ReqSlot
    BY <1>0, <1>1, LivePositions DEF TypeOK
  <2>2. PICK r \in ReqSlot : r = req[w][i % CAP]
    BY <2>1
  <2>3. Published(w, r)
    BY <1>1, <2>2 DEF LiveRequests
  <2>4. Published(w, r)'
    BY <1>0, <2>3, PublishedStays
  <2>5. req'[w][i % CAP] = r
    BY <1>1, <2>2, LiveSlotKept
  <2> QED BY <2>4, <2>5 DEF Published
<1>2. ASSUME NEW t \in Threads, StoreHead(t), worker[t] = w, i = head_val[t]
      PROVE  Published(w, req[w][i % CAP])'
  <2>1. /\ req'[w][i % CAP].task_id = task_id[t]
        /\ req'[w][i % CAP].data = t
    BY <1>2 DEF SlotFilled, StoreHead, Goto
  <2>2. /\ pc'[t] = "post_item" /\ worker'[t] = w
        /\ task_id'[t] = task_id[t]
    BY <1>0, <1>2 DEF StoreHead, Goto, TypeOK
  <2> QED BY <2>1, <2>2 DEF Published
<1> QED BY <1>1, <1>2, LiveGrows

(* The worker's copy is of one request.                                    *)
LEMMA CopiedRequestPreserved ==
  Counted /\ LiveRequests /\ CopiedRequest /\ [Next]_vars => CopiedRequest'
<1> SUFFICES ASSUME Counted, LiveRequests, CopiedRequest, [Next]_vars,
                    NEW w \in Workers
             PROVE  /\ wpc'[w] = "copy_data" =>
                         slot'[w].task_id = ReadSlot(w)'.task_id
                    /\ wpc'[w] = "busy" => Published(w, slot[w])'
  BY DEF CopiedRequest
<1> DEFINE Copied == /\ wpc'[w] = "copy_data" =>
                          slot'[w].task_id = ReadSlot(w)'.task_id
                     /\ wpc'[w] = "busy" => Published(w, slot[w])'
<1>0. TypeOK
  BY DEF Counted
<1>1. Copying(w) => tail_val[w] \in Live(w)
  BY DEF Copying, Live, Reading
<1>2. CASE wpc'[w] = wpc[w] /\ slot'[w] = slot[w] /\ tail_val'[w] = tail_val[w]
  <2>1. CASE wpc[w] = "copy_data"
    <3>1. ReadSlot(w)' = ReadSlot(w)
      BY <1>1, <1>2, <2>1, LiveSlotKept DEF Copying, ReadSlot
    <3> QED BY <1>2, <2>1, <3>1 DEF CopiedRequest
  <2>2. CASE wpc[w] = "busy"
    <3>1. PICK r \in ReqSlot : r = slot[w]
      BY <1>0 DEF TypeOK
    <3>2. Published(w, r)'
      BY <1>0, <2>2, <3>1, PublishedStays DEF CopiedRequest
    <3> QED BY <1>2, <2>2, <3>1, <3>2 DEF Published
  <2> QED BY <1>2, <2>1, <2>2
<1>3. CASE CopyId(w)
  <2>1. ReadSlot(w)' = ReadSlot(w)
    BY <1>3 DEF CopyId, ReadSlot
  <2> QED BY <1>0, <1>3, <2>1 DEF CopyId, WGoto, TypeOK, SlotOf
<1>4. CASE CopyData(w)
  <2>1. PICK r \in ReqSlot : r = ReadSlot(w)
    BY <1>0, <1>1, <1>4, LivePositions
       DEF Copying, ReadSlot, CopyData, WGoto, TypeOK
  <2>2. Published(w, r)
    BY <1>1, <1>4, <2>1 DEF LiveRequests, Copying, ReadSlot, CopyData, WGoto
  <2>3. Published(w, r)'
    BY <1>0, <2>2, PublishedStays
  <2>4. slot'[w].task_id = r.task_id /\ slot'[w].data = r.data
    BY <1>0, <1>4, <2>1 DEF CopyData, WGoto, TypeOK, SlotOf, CopiedRequest
  <2>5. wpc'[w] = "busy"
    BY <1>0, <1>4 DEF CopyData, WGoto, TypeOK
  <2> QED BY <2>3, <2>4, <2>5 DEF Published
<1>5. CASE WaitItem(w) \/ FetchTail(w) \/ Handled(w)
  BY <1>0, <1>5 DEF WaitItem, FetchTail, Handled, WGoto, TypeOK
<1>6. ASSUME NEW v \in Workers, v # w, DequeueStep(v) \/ Handled(v)
      PROVE  wpc'[w] = wpc[w] /\ slot'[w] = slot[w] /\ tail_val'[w] = tail_val[w]
  BY <1>0, <1>6 DEF DequeueStep, WaitItem, FetchTail, CopyId, CopyData, Handled,
                    WGoto, TypeOK
<1>7. ASSUME NEW t \in Threads, EnqueueStep(t) \/ \E v \in Workers : EnqueueCall(t, v)
      PROVE  UNCHANGED <<wpc, slot, tail_val>>
  BY <1>7 DEF workerVars, EnqueueStep, EnqueueCall, WaitSpace, TakeTaskId,
              LoadHead, WriteId, WriteData, StoreHead, PostItem
<1>8. UNCHANGED vars => UNCHANGED <<wpc, slot, tail_val>>
  BY DEF vars, workerVars
<1> QED BY <1>2, <1>3, <1>4, <1>5, <1>6, <1>7, <1>8 DEF Next, DequeueStep

-----------------------------------------------------------------------------
LEMMA RingInvPreserved == RingInv /\ [SerialNext]_vars => RingInv'
<1> SUFFICES ASSUME RingInv, [SerialNext]_vars PROVE RingInv'
  OBVIOUS
<1>1. [Next]_vars
  BY DEF SerialNext
<1>2. TypeOK
  BY DEF RingInv, Counted
<1> QED BY <1>1, <1>2, CountedPreserved, IdsCountedPreserved,
           SlotFilledPreserved, LiveRequestsPreserved, CopiedRequestPreserved
        DEF RingInv

LEMMA RingInvInit == Init => RingInv
<1> SUFFICES ASSUME Init PROVE RingInv
  OBVIOUS
<1>1. Counted
  BY CountedInit
<1>2. IdsCounted
  BY IdsCountedInit
<1>3. SlotFilled /\ CopiedRequest
  BY DEF Init, SlotFilled, CopiedRequest
<1>4. LiveRequests
  BY DEF Init, LiveRequests, Live, Queued, Reading
<1> QED BY <1>1, <1>2, <1>3, <1>4 DEF RingInv

(* The requests a worker serves are what its clients sent.                 *)
LEMMA OwnPromptHolds == RingInv => OwnPrompt
BY DEF RingInv, CopiedRequest, Published, OwnPrompt

(* sem_request_items counts the queue, no request is overwritten, and a    *)
(* worker serves whole requests, for threads that enqueue one at a time.   *)
THEOREM SerialInvariant ==
  SerialSpec => [](ItemsCountQueue /\ NoOverwrite /\ OwnPrompt)
<1>1. SerialSpec => []RingInv
  BY RingInvInit, RingInvPreserved, PTL DEF SerialSpec
<1>2. RingInv => ItemsCountQueue /\ NoOverwrite /\ OwnPrompt
  BY NoOverwriteHolds, OwnPromptHolds DEF RingInv, Counted
<1> QED BY <1>1, <1>2, PTL

-----------------------------------------------------------------------------
(* No request is in the ring twice, nor there while the worker serves it.  *)
EachOnce ==
  \A w \in Workers : \A i \in Live(w) :
    /\ \A j \in Live(w) :
         req[w][i % CAP].data = req[w][j % CAP].data => i = j
    /\ wpc[w] = "busy" => req[w][i % CAP].data # slot[w].data

(* A thread's request is in no ring.                                       *)
Gone(t) == \A w \in Workers : \A i \in Live(w) : req[w][i % CAP].data # t

LEMMA BusyBegins ==
  ASSUME TypeOK, [Next]_vars, NEW w \in Workers, wpc'[w] = "busy"
  PROVE  CopyData(w) \/ (wpc[w] = "busy" /\ slot'[w] = slot[w])
<1>1. ASSUME NEW v \in Workers, DequeueStep(v) \/ Handled(v)
      PROVE  CopyData(w) \/ (wpc[w] = "busy" /\ slot'[w] = slot[w])
  <2>1. CASE v = w
    BY <1>1, <2>1 DEF DequeueStep, WaitItem, FetchTail, CopyId, Handled,
                      WGoto, TypeOK
  <2>2. CASE v # w
    BY <1>1, <2>2 DEF DequeueStep, WaitItem, FetchTail, CopyId, CopyData,
                      Handled, WGoto, TypeOK
  <2> QED BY <2>1, <2>2
<1>2. ASSUME NEW t \in Threads,
             EnqueueStep(t) \/ \E v \in Workers : EnqueueCall(t, v)
      PROVE  UNCHANGED <<wpc, slot>>
  BY <1>2 DEF workerVars, EnqueueStep, EnqueueCall, WaitSpace, TakeTaskId,
              LoadHead, WriteId, WriteData, StoreHead, PostItem
<1>3. UNCHANGED vars => UNCHANGED <<wpc, slot>>
  BY DEF vars, workerVars
<1> QED BY <1>1, <1>2, <1>3 DEF Next

(* A position of the next state: an old one, its slot as it was, or the    *)
(* one whose thread moves head past it now.                                *)
LEMMA LiveData ==
  ASSUME RingInv, [Next]_vars, NEW w \in Workers, NEW i \in Live(w)'
  PROVE  \/ /\ i \in Live(w)
            /\ req'[w][i % CAP] = req[w][i % CAP]
            /\ pc[req[w][i % CAP].data] \in {"post_item", "returned"}
         \/ /\ i = head[w]
            /\ req'[w][i % CAP].data \in Threads
            /\ pc[req'[w][i % CAP].data] = "store_head"
<1>1. CASE i \in Live(w)
  BY <1>1, LiveSlotKept DEF RingInv, LiveRequests, Published
<1>2. ASSUME NEW t \in Threads, StoreHead(t), worker[t] = w, i = head_val[t]
      PROVE  /\ i = head[w] /\ req'[w][i % CAP].data = t
             /\ pc[t] = "store_head"
  BY <1>2 DEF RingInv, Counted, HeadLoaded, SlotFilled, StoreHead, Goto, Filling
<1> QED BY <1>1, <1>2, LiveGrows DEF RingInv

LEMMA EachOncePreserved == RingInv /\ EachOnce /\ [Next]_vars => EachOnce'
<1> SUFFICES ASSUME RingInv, EachOnce, [Next]_vars,
                    NEW w \in Workers, NEW i \in Live(w)'
             PROVE  /\ \A j \in Live(w)' :
                         req'[w][i % CAP].data = req'[w][j % CAP].data => i = j
                    /\ wpc'[w] = "busy" =>
                         req'[w][i % CAP].data # slot'[w].data
  BY DEF EachOnce
<1>0. TypeOK /\ TailFetched
  BY DEF RingInv, Counted
<1>1. ASSUME NEW j \in Live(w)',
             req'[w][i % CAP].data = req'[w][j % CAP].data
      PROVE  i = j
  <2>1. CASE i \in Live(w) /\ j \in Live(w)
    BY <1>1, <2>1, LiveSlotKept DEF RingInv, EachOnce
  <2>2. CASE i \notin Live(w) \/ j \notin Live(w)
    BY <1>1, <2>2, LiveData
  <2> QED BY <2>1, <2>2
<1>2. ASSUME wpc'[w] = "busy" PROVE req'[w][i % CAP].data # slot'[w].data
  <2>1. CASE wpc[w] = "busy" /\ slot'[w] = slot[w]
    <3>1. pc[slot[w].data] \in {"post_item", "returned"}
      BY <2>1 DEF RingInv, CopiedRequest, Published
    <3>2. CASE i \in Live(w)
      BY <2>1, <3>2, LiveSlotKept DEF RingInv, EachOnce
    <3> QED BY <2>1, <3>1, <3>2, LiveData
  <2>2. CASE CopyData(w)
    <3>1. /\ wpc[w] = "copy_data" /\ UNCHANGED <<head, tail, tail_val, req>>
          /\ slot'[w].data = req[w][tail_val[w] % CAP].data
          /\ wpc'[w] = "busy"
      BY <1>0, <2>2 DEF CopyData, WGoto, TypeOK, SlotOf, ReadSlot
    <3>2. /\ tail_val[w] \in Live(w)
          /\ tail[w] = tail_val[w] + 1 /\ tail_val[w] \in Nat
      BY <1>0, <3>1 DEF Live, Reading, TailFetched, Copying, TypeOK
    <3>3. i \in Live(w) /\ i # tail_val[w]
      BY <1>0, <3>1, <3>2 DEF Live, Queued, Reading, TypeOK
    <3> QED BY <3>1, <3>2, <3>3 DEF EachOnce
  <2> QED BY <1>0, <1>2, <2>1, <2>2, BusyBegins
<1> QED BY <1>1, <1>2

LEMMA EachOnceInit == Init => EachOnce
BY DEF Init, EachOnce, Live, Queued, Reading

(* A request that left the ring does not come back.                        *)
LEMMA GoneStays ==
  ASSUME RingInv, [Next]_vars, NEW t \in Threads,
         pc[t] \in {"post_item", "returned"}, Gone(t)
  PROVE  Gone(t)'
<1> SUFFICES ASSUME NEW w \in Workers, NEW i \in Live(w)'
             PROVE  req'[w][i % CAP].data # t
  BY DEF Gone
<1> QED BY LiveData DEF Gone

LEMMA ServedIsGone ==
  ASSUME RingInv, EachOnce, NEW w \in Workers, wpc[w] = "busy"
  PROVE  Gone(slot[w].data)
<1> SUFFICES ASSUME NEW v \in Workers, NEW i \in Live(v),
                    req[v][i % CAP].data = slot[w].data
             PROVE  FALSE
  BY DEF Gone
<1>1. v = w
  BY DEF RingInv, LiveRequests, CopiedRequest, Published
<1> QED BY <1>1 DEF EachOnce

LEMMA TakenWasThere ==
  ASSUME RingInv, NEW w \in Workers, CopyData(w)
  PROVE  slot'[w].data \in Threads /\ ~Gone(slot'[w].data)
<1>0. TypeOK
  BY DEF RingInv, Counted
<1>1. /\ wpc[w] = "copy_data"
      /\ slot'[w].data = req[w][tail_val[w] % CAP].data
  BY <1>0 DEF CopyData, WGoto, TypeOK, SlotOf, ReadSlot
<1>2. tail_val[w] \in Live(w)
  BY <1>1 DEF Live, Reading
<1> QED BY <1>1, <1>2 DEF Gone, RingInv, LiveRequests, Published

-----------------------------------------------------------------------------
(* Without cancel_request no flag is ever set.                             *)
NotCanceled ==
  \A w \in Workers :
    /\ \A i \in 0 .. CAP - 1 : req[w][i].is_canceled = FALSE
    /\ slot[w].is_canceled = FALSE

LEMMA NotCanceledPreserved == TypeOK /\ NotCanceled /\ [Next]_vars => NotCanceled'
<1> SUFFICES ASSUME TypeOK, NotCanceled, [Next]_vars PROVE NotCanceled'
  OBVIOUS
<1>1. CASE UNCHANGED <<req, slot>>
  BY <1>1 DEF NotCanceled
<1>2. ASSUME NEW t \in Threads, WriteId(t) \/ WriteData(t) PROVE NotCanceled'
  <2>1. slot' = slot
    BY <1>2 DEF WriteId, WriteData, workerVars
  <2>2. ASSUME NEW w \in Workers, NEW i \in 0 .. CAP - 1
        PROVE  req'[w][i].is_canceled = FALSE
    <3>1. CASE WriteId(t)
      <4>1. req'[w][i] =
              IF w = worker[t] /\ i = head_val[t] % CAP
                THEN SlotOf(task_id[t], req[w][i].data, req[w][i].is_canceled)
                ELSE req[w][i]
        BY <3>1, WriteIdEffect
      <4> QED BY <4>1 DEF NotCanceled, SlotOf
    <3>2. CASE WriteData(t)
      <4>1. req'[w][i] =
              IF w = worker[t] /\ i = head_val[t] % CAP
                THEN SlotOf(req[w][i].task_id, t, req[w][i].is_canceled)
                ELSE req[w][i]
        BY <3>2, WriteDataEffect
      <4> QED BY <4>1 DEF NotCanceled, SlotOf
    <3> QED BY <1>2, <3>1, <3>2
  <2> QED BY <2>1, <2>2 DEF NotCanceled
<1>3. ASSUME NEW t \in Threads,
             \/ EnqueueStep(t) /\ ~WriteId(t) /\ ~WriteData(t)
             \/ \E w \in Workers : EnqueueCall(t, w)
      PROVE  UNCHANGED <<req, slot>>
  BY <1>3 DEF EnqueueStep, EnqueueCall, WaitSpace, TakeTaskId, LoadHead,
              StoreHead, PostItem, workerVars
<1>4. ASSUME NEW w \in Workers, DequeueStep(w) \/ Handled(w)
      PROVE  NotCanceled'
  <2>1. CASE CopyId(w)
    BY <2>1 DEF CopyId, NotCanceled, SlotOf, TypeOK
  <2>2. CASE CopyData(w)
    <3>1. ReadSlot(w).is_canceled = FALSE
      BY SlotIndex DEF ReadSlot, NotCanceled, TypeOK
    <3> QED BY <2>2, <3>1 DEF CopyData, NotCanceled, SlotOf, TypeOK
  <2>3. CASE WaitItem(w) \/ FetchTail(w) \/ Handled(w)
    BY <1>1, <2>3 DEF WaitItem, FetchTail, Handled
  <2> QED BY <1>4, <2>1, <2>2, <2>3 DEF DequeueStep
<1>5. UNCHANGED vars => UNCHANGED <<req, slot>>
  BY DEF vars, workerVars
<1> QED BY <1>1, <1>2, <1>3, <1>4, <1>5 DEF Next

LEMMA NotCanceledInit == Init => NotCanceled
BY DEF Init, NotCanceled, EmptySlot, SlotOf

-----------------------------------------------------------------------------
(* The queue the ring implements: its three variables in terms of the ring *)
Queues == [w \in Workers |-> QueueOf(w)]
Served == [w \in Workers |-> ServedBy(w)]
Accepted == {t \in Threads : pc[t] \in {"post_item", "returned"}}

(* There are as many ids as threads.                                       *)
LEMMA TakenId ==
  ASSUME RingInv, NEW t \in TookId
  PROVE  task_id[t] \in 1 .. Cardinality(Threads)
<1>1. Cardinality(TookId) <= Cardinality(Threads) /\ Cardinality(Threads) \in Nat
  BY RingAssumption, FS_Subset, FS_CardinalityType DEF TookId
<1>2. /\ task_id[t] \in Nat /\ task_id[t] # 0
      /\ task_id[t] < Cardinality(TookId) + 1
  BY DEF RingInv, IdsCounted, Counted, TaskIdsUnique, TypeOK, TookId
<1> QED BY <1>1, <1>2, TookIdFinite

LEMMA PublishedIsRequest ==
  ASSUME RingInv, NEW w \in Workers, NEW r \in ReqSlot, Published(w, r)
  PROVE  /\ Request(r) \in Queue!Requests
         /\ Request(r) # NoRequest
<1>1. r.data \in TookId /\ r.task_id = task_id[r.data]
  BY DEF Published, TookId
<1>2. r.task_id \in 1 .. Cardinality(Threads) /\ r.data \in Threads
  BY <1>1, TakenId DEF TookId
<1>3. Request(r).data # NoRequest.data
  BY <1>2, RingAssumption DEF Request, NoRequest
<1> QED BY <1>2, <1>3 DEF Request, Queue!Requests

LEMMA LiveIsRequest ==
  ASSUME RingInv, NEW w \in Workers, NEW i \in Live(w)
  PROVE  /\ Request(req[w][i % CAP]) \in Queue!Requests
         /\ Request(req[w][i % CAP]) # NoRequest
<1>1. TypeOK /\ LiveRequests
  BY DEF RingInv, Counted
<1>2. PICK r \in ReqSlot : r = req[w][i % CAP]
  BY <1>1, LivePositions DEF TypeOK
<1>3. Published(w, r)
  BY <1>1, <1>2 DEF LiveRequests
<1> QED BY <1>2, <1>3, PublishedIsRequest

(* The queue of a worker is a sequence of head - tail requests.            *)
LEMMA QueueIsSeq ==
  ASSUME RingInv, NEW w \in Workers
  PROVE  /\ head[w] \in Nat /\ tail[w] \in Nat /\ tail[w] <= head[w]
         /\ QueueOf(w) \in Seq(Queue!Requests)
         /\ Len(QueueOf(w)) = head[w] - tail[w]
         /\ \A n \in 1 .. head[w] - tail[w] :
              QueueOf(w)[n] = Request(req[w][(tail[w] + n - 1) % CAP])
<1>1. head[w] \in Nat /\ tail[w] \in Nat /\ tail[w] <= head[w]
  <2>1. /\ head[w] \in Nat /\ tail[w] \in Nat /\ sem_request_items[w] \in Nat
        /\ head[w] = tail[w] + sem_request_items[w] + Cardinality(Posting(w))
                       + (IF wpc[w] = "fetch_tail" THEN 1 ELSE 0)
    BY DEF RingInv, Counted, TypeOK, ItemsCountQueue, Posting
  <2> QED BY <2>1, PostingFinite
<1>2. ASSUME NEW n \in 1 .. head[w] - tail[w]
      PROVE  Request(req[w][(tail[w] + n - 1) % CAP]) \in Queue!Requests
  <2>1. tail[w] + n - 1 \in Live(w)
    BY <1>1 DEF Live, Queued
  <2> QED BY <2>1, LiveIsRequest
<1> DEFINE len == head[w] - tail[w]
<1>3. len \in Nat
  BY <1>1
<1>4. QueueOf(w) \in [1 .. len -> Queue!Requests]
  BY <1>2 DEF QueueOf
<1>5. QueueOf(w) \in Seq(Queue!Requests)
  <2> HIDE DEF len
  <2> QED BY <1>3, <1>4, SeqDef
<1>6. Len(QueueOf(w)) = len
  <2>1. DOMAIN QueueOf(w) = 1 .. len
    BY <1>4
  <2>2. /\ Len(QueueOf(w)) \in Nat
        /\ DOMAIN QueueOf(w) = 1 .. Len(QueueOf(w))
    BY <1>5, LenProperties
  <2> HIDE DEF len
  <2> QED BY <1>3, <2>1, <2>2
<1> QED BY <1>1, <1>5, <1>6 DEF QueueOf

-----------------------------------------------------------------------------
(* As long as no position moves, neither the queue nor the request being   *)
(* copied changes.                                                         *)
LEMMA QueueStays ==
  ASSUME RingInv, [Next]_vars, NEW w \in Workers,
         head'[w] = head[w], tail'[w] = tail[w]
  PROVE  QueueOf(w)' = QueueOf(w)
<1>1. Counted
  BY DEF RingInv
<1>2. ASSUME NEW n \in 1 .. head[w] - tail[w]
      PROVE  req'[w][(tail[w] + n - 1) % CAP] = req[w][(tail[w] + n - 1) % CAP]
  <2>1. tail[w] + n - 1 \in Live(w)
    BY QueueIsSeq DEF Live, Queued
  <2> QED BY <1>1, <2>1, LiveSlotKept
<1> QED BY <1>2 DEF QueueOf, Request

LEMMA ServedStays ==
  ASSUME RingInv, [Next]_vars, NEW w \in Workers,
         wpc'[w] = wpc[w], tail_val'[w] = tail_val[w], slot'[w] = slot[w]
  PROVE  ServedBy(w)' = ServedBy(w)
<1>1. Copying(w) => req'[w][tail_val[w] % CAP] = req[w][tail_val[w] % CAP]
  BY LiveSlotKept DEF RingInv, Copying, Live, Reading
<1> QED BY <1>1 DEF ServedBy, ReadSlot, Copying, Request
LEMMA ServedIs ==
  ASSUME NEW w \in Workers
  PROVE  /\ Copying(w) => ServedBy(w) = Request(ReadSlot(w))
         /\ wpc[w] = "busy" => ServedBy(w) = Request(slot[w])
         /\ ~Copying(w) /\ wpc[w] # "busy" => ServedBy(w) = NoRequest
<1>1. ASSUME Copying(w) PROVE ServedBy(w) = Request(ReadSlot(w))
  BY <1>1, Zenon DEF ServedBy, Copying
<1>2. ASSUME wpc[w] = "busy" PROVE ServedBy(w) = Request(slot[w])
  <2>1. wpc[w] \notin {"copy_id", "copy_data"}
    BY <1>2
  <2> QED BY <1>2, <2>1, Zenon DEF ServedBy
<1>3. ASSUME ~Copying(w), wpc[w] # "busy" PROVE ServedBy(w) = NoRequest
  BY <1>3, Zenon DEF ServedBy, Copying
<1> QED BY <1>1, <1>2, <1>3

(* The store of head is the moment a request enters the queue.             *)
LEMMA StoreHeadAccepts ==
  ASSUME RingInv, [Next]_vars, NEW t \in Threads, StoreHead(t)
  PROVE  \E w \in Workers : \E r \in Queue!Requests : Queue!Accept(w, r)
<1>1. PICK w \in Workers : w = worker[t]
  BY DEF RingInv, Counted, TypeOK, StoreHead, Goto
<1>2. /\ head_val[t] = head[w] /\ pc[t] \in Filling
      /\ head' = [head EXCEPT ![w] = head[w] + 1]
      /\ UNCHANGED <<tail, req, wpc, tail_val, slot>>
      /\ pc' = [pc EXCEPT ![t] = "post_item"] /\ pc[t] = "store_head"
  BY <1>1 DEF RingInv, Counted, HeadLoaded, StoreHead, Goto, Filling, workerVars
<1>3. /\ head \in [Workers -> Nat] /\ tail \in [Workers -> Nat]
      /\ DOMAIN pc = Threads
  BY DEF RingInv, Counted, TypeOK
<1> DEFINE r == Request(req[w][head[w] % CAP])
           n == head[w] - tail[w]
<1>4. n \in Nat /\ tail[w] + (n + 1) - 1 = head[w]
  BY <1>3, QueueIsSeq
<1>5. r \in Queue!Requests /\ r.data = t
  <2>1. /\ req[w][head[w] % CAP].task_id = task_id[t]
        /\ req[w][head[w] % CAP].data = t
    BY <1>1, <1>2 DEF RingInv, SlotFilled
  <2>2. task_id[t] \in 1 .. Cardinality(Threads)
    BY <1>2, TakenId DEF TookId
  <2> QED BY <2>1, <2>2 DEF Request, Queue!Requests
<1>6. Served' = Served
  BY <1>2, ServedStays DEF Served
<1>7. Accepted' = Accepted \cup {t} /\ t \notin Accepted
  BY <1>2, <1>3 DEF Accepted
<1>8. \A v \in Workers \ {w} : QueueOf(v)' = QueueOf(v)
  BY <1>2, <1>3, QueueStays
<1>9. QueueOf(w)' = Append(QueueOf(w), r)
  <2>1. /\ QueueOf(w) \in Seq(Queue!Requests) /\ Len(QueueOf(w)) = n
        /\ \A k \in 1 .. n :
             QueueOf(w)[k] = Request(req[w][(tail[w] + k - 1) % CAP])
    BY QueueIsSeq
  <2>2. QueueOf(w)' =
          [k \in 1 .. n + 1 |-> Request(req[w][(tail[w] + k - 1) % CAP])]
    <3>1. head'[w] - tail'[w] = n + 1
      BY <1>2, <1>3
    <3> HIDE DEF n
    <3> QED BY <1>2, <3>1 DEF QueueOf
  <2>3. Append(QueueOf(w), r) =
          [k \in 1 .. n + 1 |-> IF k = n + 1 THEN r ELSE QueueOf(w)[k]]
    <3> DEFINE q == Append(QueueOf(w), r)
    <3> HIDE DEF n, r
    <3>1. /\ q \in Seq(Queue!Requests) /\ Len(q) = n + 1
          /\ \A k \in 1 .. n : q[k] = QueueOf(w)[k]
          /\ q[n + 1] = r
      BY <1>5, <2>1, AppendProperties
    <3> HIDE DEF q
    <3>2. q \in [1 .. n + 1 -> Queue!Requests]
      BY <3>1, LenProperties
    <3>3. \A k \in 1 .. n + 1 : q[k] = IF k = n + 1 THEN r ELSE QueueOf(w)[k]
      BY <1>4, <3>1
    <3>4. q = [k \in 1 .. n + 1 |-> q[k]]
      BY <3>2
    <3>5. q = [k \in 1 .. n + 1 |-> IF k = n + 1 THEN r ELSE QueueOf(w)[k]]
      BY <3>3, <3>4
    <3> QED BY <3>5 DEF q
  <2>4. \A k \in 1 .. n + 1 :
          Request(req[w][(tail[w] + k - 1) % CAP])
            = IF k = n + 1 THEN r ELSE QueueOf(w)[k]
    BY <1>4, <2>1
  <2> HIDE DEF n, r
  <2> QED BY <2>2, <2>3, <2>4
<1>10. Queues' = [Queues EXCEPT ![w] = Append(Queues[w], r)]
  BY <1>8, <1>9 DEF Queues
<1>11. Queue!Occupied(w) < CAP
  <2>1. n + (IF wpc[w] \in {"copy_id", "copy_data", "busy"} THEN 1 ELSE 0) < CAP
    BY <1>1, <1>2, Room DEF RingInv
  <2>2. Served[w] # NoRequest => wpc[w] \in {"copy_id", "copy_data", "busy"}
    BY ServedIs DEF Served, Copying
  <2>3. Len(Queues[w]) = n
    BY QueueIsSeq DEF Queues
  <2>4. Queue!Occupied(w) = Len(Queues[w]) + (IF Served[w] = NoRequest THEN 0 ELSE 1)
    BY DEF Queue!Occupied, Queues, Served
  <2> QED BY <1>4, <2>1, <2>2, <2>3, <2>4, RingAssumption
<1>12. Queue!Accept(w, r)
  <2> HIDE DEF r
  <2> QED BY <1>5, <1>6, <1>7, <1>10, <1>11
          DEF Queue!Accept, Queues, Served, Accepted
<1> HIDE DEF r
<1> QED BY <1>5, <1>12 DEF Queue!Accept

(* The fetch of tail is the moment the worker takes one.                   *)
LEMMA FetchTailTakes ==
  ASSUME RingInv, [Next]_vars, NEW w \in Workers, FetchTail(w)
  PROVE  Queue!Take(w)
<1>1. /\ wpc[w] = "fetch_tail" /\ wpc' = [wpc EXCEPT ![w] = "copy_id"]
      /\ tail_val' = [tail_val EXCEPT ![w] = tail[w]]
      /\ tail' = [tail EXCEPT ![w] = tail[w] + 1]
      /\ UNCHANGED <<head, req, pc, slot>>
      /\ DOMAIN wpc = Workers /\ DOMAIN tail_val = Workers
      /\ DOMAIN tail = Workers
  BY DEF RingInv, Counted, TypeOK, FetchTail, WGoto, threadVars
<1> DEFINE n == head[w] - tail[w]
           r == Request(req[w][tail[w] % CAP])
<1>2. /\ head[w] \in Nat /\ tail[w] \in Nat /\ n \in Nat
      /\ QueueOf(w) \in Seq(Queue!Requests) /\ Len(QueueOf(w)) = n
      /\ \A k \in 1 .. n :
           QueueOf(w)[k] = Request(req[w][(tail[w] + k - 1) % CAP])
  BY QueueIsSeq
<1>3. n > 0
  <2>1. /\ sem_request_items[w] \in Nat
        /\ head[w] = tail[w] + sem_request_items[w] + Cardinality(Posting(w)) + 1
    BY <1>1 DEF RingInv, Counted, TypeOK, ItemsCountQueue, Posting
  <2> QED BY <1>2, <2>1, PostingFinite
<1>4. ServedBy(w) = NoRequest
  BY <1>1, ServedIs DEF Copying
<1>5. QueueOf(w) # <<>>
  BY <1>2, <1>3, EmptySeq
<1>6. Head(QueueOf(w)) = r
  <2>1. Head(QueueOf(w)) = QueueOf(w)[1]
    BY <1>2, <1>5
  <2>2. QueueOf(w)[1] = Request(req[w][(tail[w] + 1 - 1) % CAP])
    BY <1>2, <1>3
  <2>3. tail[w] + 1 - 1 = tail[w]
    BY <1>2
  <2> QED BY <2>1, <2>2, <2>3
<1>7. ServedBy(w)' = r
  BY <1>1 DEF ServedBy, ReadSlot, Request
<1>8. \A v \in Workers \ {w} : ServedBy(v)' = ServedBy(v) /\ QueueOf(v)' = QueueOf(v)
  BY <1>1, ServedStays, QueueStays
<1>9. QueueOf(w)' = Tail(QueueOf(w))
  <2>1. QueueOf(w)' =
          [k \in 1 .. n - 1 |-> Request(req[w][(tail[w] + 1 + k - 1) % CAP])]
    <3>1. head'[w] - tail'[w] = n - 1 /\ tail'[w] = tail[w] + 1
      BY <1>1, <1>2
    <3> HIDE DEF n
    <3> QED BY <1>1, <3>1 DEF QueueOf
  <2> DEFINE q == Tail(QueueOf(w))
  <2>2. /\ q \in Seq(Queue!Requests) /\ Len(q) = n - 1
        /\ \A k \in 1 .. n - 1 : q[k] = QueueOf(w)[k + 1]
    BY <1>2, <1>5, HeadTailProperties
  <2>3. \A k \in 1 .. n - 1 : q[k] = Request(req[w][(tail[w] + 1 + k - 1) % CAP])
    <3> SUFFICES ASSUME NEW k \in 1 .. n - 1
                 PROVE  q[k] = Request(req[w][(tail[w] + 1 + k - 1) % CAP])
      OBVIOUS
    <3>1. k + 1 \in 1 .. n /\ tail[w] + (k + 1) - 1 = tail[w] + 1 + k - 1
      BY <1>2
    <3>2. q[k] = QueueOf(w)[k + 1]
      BY <2>2
    <3>3. QueueOf(w)[k + 1] = Request(req[w][(tail[w] + (k + 1) - 1) % CAP])
      BY <1>2, <3>1
    <3> QED BY <3>1, <3>2, <3>3
  <2> HIDE DEF q, n
  <2>4. q \in [1 .. n - 1 -> Queue!Requests]
    BY <2>2, LenProperties
  <2>5. q = [k \in 1 .. n - 1 |-> q[k]]
    BY <2>4
  <2> QED BY <2>1, <2>3, <2>5 DEF q
<1>10. Queues' = [Queues EXCEPT ![w] = Tail(Queues[w])]
  BY <1>8, <1>9 DEF Queues
<1>11. Served' = [Served EXCEPT ![w] = Head(Queues[w])]
  BY <1>6, <1>7, <1>8 DEF Served, Queues
<1>12. Accepted' = Accepted
  BY <1>1 DEF Accepted
<1>13. Served[w] = NoRequest /\ Queues[w] # <<>>
  BY <1>4, <1>5 DEF Served, Queues
<1> QED BY <1>10, <1>11, <1>12, <1>13
        DEF Queue!Take, Queues, Served, Accepted

LEMMA HandledFinishes ==
  ASSUME RingInv, [Next]_vars, NEW w \in Workers, Handled(w)
  PROVE  Queue!Finish(w)
<1>1. /\ wpc[w] = "busy" /\ wpc' = [wpc EXCEPT ![w] = "idle"]
      /\ UNCHANGED <<head, tail, req, pc, slot, tail_val>>
      /\ DOMAIN wpc = Workers /\ slot[w] \in ReqSlot
  BY DEF RingInv, Counted, TypeOK, Handled, WGoto, threadVars
<1>2. Served[w] # NoRequest
  <2>1. Published(w, slot[w])
    BY <1>1 DEF RingInv, CopiedRequest
  <2>2. Request(slot[w]) # NoRequest
    BY <2>1, RingAssumption DEF Published, Request, NoRequest
  <2> QED BY <1>1, <2>2, ServedIs DEF Served
<1>3. ServedBy(w)' = NoRequest
  BY <1>1 DEF ServedBy
<1>4. \A v \in Workers \ {w} : ServedBy(v)' = ServedBy(v)
  BY <1>1, ServedStays
<1>5. Served' = [Served EXCEPT ![w] = NoRequest]
  BY <1>3, <1>4 DEF Served
<1>6. Queues' = Queues
  BY <1>1, QueueStays DEF Queues
<1>7. Accepted' = Accepted
  BY <1>1 DEF Accepted
<1> QED BY <1>2, <1>5, <1>6, <1>7 DEF Queue!Finish, Queues, Served, Accepted

(* Every other step of a thread or of the worker is invisible.             *)
Invisible == Queues' = Queues /\ Served' = Served /\ Accepted' = Accepted

LEMMA ThreadStepInvisible ==
  ASSUME RingInv, [Next]_vars, NEW t \in Threads,
         \/ EnqueueStep(t) /\ ~StoreHead(t)
         \/ \E v \in Workers : EnqueueCall(t, v)
  PROVE  Invisible
<1>1. UNCHANGED <<head, tail, wpc, tail_val, slot>>
  BY DEF workerVars, EnqueueStep, EnqueueCall, WaitSpace, TakeTaskId,
         LoadHead, WriteId, WriteData, PostItem
<1>2. Accepted' = Accepted
  BY DEF RingInv, Counted, TypeOK, Accepted, Goto, EnqueueStep, EnqueueCall,
         WaitSpace, TakeTaskId, LoadHead, WriteId, WriteData, PostItem
<1> QED BY <1>1, <1>2, QueueStays, ServedStays DEF Invisible, Queues, Served

LEMMA WorkerStepInvisible ==
  ASSUME RingInv, [Next]_vars, NEW w \in Workers,
         WaitItem(w) \/ CopyId(w) \/ CopyData(w)
  PROVE  Invisible
<1>0. TypeOK
  BY DEF RingInv, Counted
<1>1. UNCHANGED <<head, tail, pc, req, tail_val>>
  BY DEF threadVars, WaitItem, CopyId, CopyData
<1>2. \A v \in Workers \ {w} : wpc'[v] = wpc[v] /\ slot'[v] = slot[v]
  BY <1>0 DEF WaitItem, CopyId, CopyData, WGoto, TypeOK
<1>3. ServedBy(w)' = ServedBy(w)
  <2>1. CASE WaitItem(w)
    <3>1. /\ wpc[w] \notin {"copy_id", "copy_data"} /\ wpc[w] # "busy"
          /\ wpc'[w] \notin {"copy_id", "copy_data"} /\ wpc'[w] # "busy"
      BY <1>0, <2>1 DEF WaitItem, WGoto, TypeOK
    <3> QED BY <3>1, Zenon DEF ServedBy
  <2>2. CASE CopyId(w)
    <3>1. /\ wpc[w] \in {"copy_id", "copy_data"}
          /\ wpc'[w] \in {"copy_id", "copy_data"}
          /\ ReadSlot(w)' = ReadSlot(w)
      BY <1>0, <1>1, <2>2 DEF CopyId, WGoto, TypeOK, ReadSlot
    <3> QED BY <3>1, Zenon DEF ServedBy, Request
  <2>3. CASE CopyData(w)
    <3>1. Copying(w) /\ wpc[w] = "copy_data"
      BY <2>3 DEF CopyData, WGoto, Copying
    <3>2. slot[w].task_id = ReadSlot(w).task_id
      BY <3>1 DEF RingInv, CopiedRequest
    <3>3. /\ slot'[w].task_id = ReadSlot(w).task_id
          /\ slot'[w].data = ReadSlot(w).data
          /\ wpc'[w] = "busy"
      BY <1>0, <2>3, <3>2 DEF CopyData, WGoto, TypeOK, SlotOf
    <3>4. Request(slot[w])' = Request(ReadSlot(w))
      BY <3>3 DEF Request
    <3>5. wpc'[w] \notin {"copy_id", "copy_data"}
      BY <3>3
    <3>6. ServedBy(w)' = Request(slot[w])'
      BY <3>3, <3>5, Zenon DEF ServedBy, Request
    <3> QED BY <3>1, <3>4, <3>6, ServedIs
  <2> QED BY <2>1, <2>2, <2>3
<1>4. Queues' = Queues
  BY <1>1, QueueStays DEF Queues
<1>5. Served' = Served
  BY <1>1, <1>2, <1>3, ServedStays DEF Served
<1> QED BY <1>1, <1>4, <1>5 DEF Invisible, Accepted

LEMMA InvisibleStutters == Invisible => UNCHANGED Queue!vars
BY DEF Invisible, Queues, Served, Accepted, Queue!vars

LEMMA RingStepIsQueueStep == RingInv /\ [Next]_vars => [Queue!Next]_Queue!vars
<1> SUFFICES ASSUME RingInv, [Next]_vars PROVE Queue!Next \/ Invisible
  BY InvisibleStutters
<1>1. ASSUME NEW t \in Threads, StoreHead(t) PROVE Queue!Next
  BY <1>1, StoreHeadAccepts DEF Queue!Next
<1>2. ASSUME NEW t \in Threads,
             \/ EnqueueStep(t) /\ ~StoreHead(t)
             \/ \E v \in Workers : EnqueueCall(t, v)
      PROVE  Invisible
  BY <1>2, ThreadStepInvisible
<1>3. ASSUME NEW w \in Workers, FetchTail(w) \/ Handled(w) PROVE Queue!Next
  BY <1>3, FetchTailTakes, HandledFinishes DEF Queue!Next
<1>4. ASSUME NEW w \in Workers, WaitItem(w) \/ CopyId(w) \/ CopyData(w)
      PROVE  Invisible
  BY <1>4, WorkerStepInvisible
<1>5. CASE UNCHANGED vars
  <2>1. \A w \in Workers : QueueOf(w)' = QueueOf(w) /\ ServedBy(w)' = ServedBy(w)
    BY <1>5, QueueStays, ServedStays DEF vars, workerVars
  <2> QED BY <1>5, <2>1 DEF Invisible, Queues, Served, Accepted, vars, threadVars
<1> QED BY <1>1, <1>2, <1>3, <1>4, <1>5 DEF Next, DequeueStep

LEMMA RingStartsAsQueue == Init => Queue!Init
<1> SUFFICES ASSUME Init PROVE Queue!Init
  OBVIOUS
<1>1. ASSUME NEW w \in Workers
      PROVE  QueueOf(w) = <<>> /\ ServedBy(w) = NoRequest
  <2>1. wpc[w] = "idle" /\ head[w] - tail[w] = 0
    BY DEF Init
  <2>2. QueueOf(w) = <<>>
    BY <2>1 DEF QueueOf
  <2> QED BY <2>1, <2>2, ServedIs DEF Copying
<1>2. {t \in Threads : pc[t] \in {"post_item", "returned"}} = {}
  BY DEF Init
<1> QED BY <1>1, <1>2 DEF Queue!Init

(* The ring implements a bounded first-in first-out queue per worker, from *)
(* which each request is taken once: ImplementsTaskQueue of the runs, for  *)
(* threads that enqueue one at a time.                                     *)
THEOREM RingImplementsTaskQueue == SerialSpec => ImplementsTaskQueue
<1>1. SerialSpec => []RingInv
  BY RingInvInit, RingInvPreserved, PTL DEF SerialSpec
<1>2. [SerialNext]_vars => [Next]_vars
  BY DEF SerialNext
<1> QED BY <1>1, <1>2, RingStartsAsQueue, RingStepIsQueueStep, PTL
        DEF SerialSpec, ImplementsTaskQueue, Queue!Spec
=============================================================================
