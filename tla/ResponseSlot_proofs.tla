------------------------ MODULE ResponseSlot_proofs ------------------------
(***************************************************************************)
(* The response slot is a mailbox for any number of workers and threads:   *)
(* its one token is conserved, hence nobody writes the slot while a chunk  *)
(* is in it, hence chunks reach their owners whole and once.               *)
(***************************************************************************)
EXTENDS ResponseSlot, FiniteSetTheorems, TLAPS

(* The protocol with any chunk, one whose task id is 0 included: a request *)
(* that two threads filled at once may be answered under the id its slot   *)
(* had before.  All but the identity of the chunks holds of it too.        *)
AnyChunk == [task_id : TaskIds \cup {0}, data : Payloads,
             is_last_piece : BOOLEAN]

AnyNext ==
  \/ Next
  \/ \E w \in Workers, c \in AnyChunk : SendCall(w, c)

LEMMA ChunkType == Chunk \subseteq AnyChunk /\ AnyChunk \subseteq RespSlot
BY DEF Chunk, AnyChunk, RespSlot

-----------------------------------------------------------------------------
(* Every variable keeps its type.                                          *)
LEMMA TypeInit == Init => TypeOK
BY SlotAssumption DEF Init, SlotInit, TypeOK, EmptySlot, RespSlot

LEMMA TypePreserved == TypeOK /\ [AnyNext]_vars => TypeOK'
<1> SUFFICES ASSUME TypeOK, [AnyNext]_vars PROVE TypeOK'
  OBVIOUS
<1>1. ASSUME NEW w \in Workers, NEW c \in AnyChunk, SendCall(w, c)
      PROVE TypeOK'
  BY <1>1, ChunkType
  DEF TypeOK, SendCall, SGoto, threadVars, Writing, HoldingToken, Checking
<1>2. ASSUME NEW w \in Workers, SendStep(w) PROVE TypeOK'
  <2>1. CASE WaitConsumed(w)
    BY <2>1 DEF TypeOK, WaitConsumed, SGoto, threadVars, Writing
  <2>2. CASE WriteId(w)
    BY <2>2 DEF TypeOK, WriteId, SGoto, threadVars, Writing, RespSlot
  <2>3. CASE WriteData(w)
    BY <2>3 DEF TypeOK, WriteData, SGoto, threadVars, Writing, RespSlot
  <2>4. CASE PostResp(w)
    BY <2>4 DEF TypeOK, PostResp, SGoto, threadVars, Writing
  <2> QED BY <1>2, <2>1, <2>2, <2>3, <2>4 DEF SendStep
<1>3. ASSUME NEW t \in Threads, task_id[t] # 0, ReceiveCall(t) PROVE TypeOK'
  BY <1>3 DEF TypeOK, ReceiveCall, RGoto, senderVars
<1>4. ASSUME NEW t \in Threads, ReceiveStep(t) PROVE TypeOK'
  <2>1. CASE WaitResp(t)
    BY <1>4, <2>1 DEF TypeOK, WaitResp, RGoto, senderVars, HoldingToken, Checking
  <2>2. CASE LoadId(t)
    BY <2>2 DEF TypeOK, LoadId, RGoto, senderVars, HoldingToken, Checking
  <2>3. CASE Copy(t)
    BY <2>3 DEF TypeOK, Copy, RGoto, senderVars, HoldingToken, Checking
  <2>4. CASE PostConsumed(t)
    BY <2>4 DEF TypeOK, PostConsumed, RGoto, senderVars, HoldingToken, Checking
  <2>5. CASE PostBack(t)
    BY <2>5 DEF TypeOK, PostBack, RGoto, senderVars, HoldingToken, Checking
  <2> QED BY <1>4, <2>1, <2>2, <2>3, <2>4, <2>5 DEF ReceiveStep
<1>5. ASSUME NEW t \in Threads, NEW w \in Workers,
             NEW id \in TaskIds \cup {0}, Dispatch(t, w, id)
      PROVE TypeOK'
  BY <1>5 DEF TypeOK, Dispatch, senderVars
<1>6. CASE UNCHANGED vars
  BY <1>6 DEF TypeOK, vars
<1> QED BY ChunkType, <1>1, <1>2, <1>3, <1>4, <1>5, <1>6
       DEF AnyNext, Next

(* The invariant TypeOK of the runs.                                       *)
THEOREM TypeCorrect == Spec => []TypeOK
BY TypeInit, TypePreserved, PTL DEF Spec, AnyNext

-----------------------------------------------------------------------------
LEMMA HoldersFinite ==
  ASSUME NEW w \in Workers
  PROVE  IsFiniteSet(Holders(w)) /\ Cardinality(Holders(w)) \in Nat
BY SlotAssumption, FS_Subset, FS_CardinalityType DEF Holders

LEMMA TokenInit == Init => TokenConservation
<1> SUFFICES ASSUME Init, NEW w \in Workers
             PROVE  sem_resp[w] + sem_resp_consumed[w] + Sending(w)
                      + Cardinality(Holders(w)) = 1
  BY DEF TokenConservation
<1>1. Holders(w) = {}
  BY DEF Holders, Init, SlotInit, HoldingToken, Checking
<1>2. Sending(w) = 0
  BY DEF Sending, Init, SlotInit, Writing
<1> QED BY <1>1, <1>2, FS_EmptySet DEF Init, SlotInit

(* A worker's token stays one when one of its places gains what another    *)
(* loses; the places of the other workers are not touched.                 *)
LEMMA TokenPreserved ==
  TypeOK /\ TokenConservation /\ [AnyNext]_vars => TokenConservation'
<1> SUFFICES ASSUME TypeOK, TokenConservation, [AnyNext]_vars, NEW w \in Workers
             PROVE  sem_resp'[w] + sem_resp_consumed'[w] + Sending(w)'
                      + Cardinality(Holders(w)') = 1
  BY DEF TokenConservation
<1> DEFINE Same == Holders(w)' = Holders(w)
<1>0. /\ sem_resp[w] + sem_resp_consumed[w] + Sending(w)
           + Cardinality(Holders(w)) = 1
      /\ sem_resp[w] \in Nat /\ sem_resp_consumed[w] \in Nat
      /\ Sending(w) \in {0, 1}
      /\ IsFiniteSet(Holders(w)) /\ Cardinality(Holders(w)) \in Nat
  BY HoldersFinite DEF TokenConservation, TypeOK, Sending
<1>1. ASSUME NEW v \in Workers, NEW c \in AnyChunk, SendCall(v, c)
      PROVE  sem_resp'[w] + sem_resp_consumed'[w] + Sending(w)'
               + Cardinality(Holders(w)') = 1
  <2>1. Same
    BY <1>1 DEF Holders, SendCall, threadVars
  <2>2. Sending(w)' = Sending(w)
    BY <1>1 DEF Sending, SendCall, SGoto, Writing, TypeOK
  <2> QED BY <1>0, <1>1, <2>1, <2>2 DEF SendCall
<1>2. ASSUME NEW v \in Workers, SendStep(v)
      PROVE  sem_resp'[w] + sem_resp_consumed'[w] + Sending(w)'
               + Cardinality(Holders(w)') = 1
  <2>1. Same
    BY <1>2 DEF Holders, SendStep, WaitConsumed, WriteId, WriteData, PostResp,
                threadVars
  <2>2. CASE WaitConsumed(v)
    BY <1>0, <2>1, <2>2 DEF WaitConsumed, SGoto, Sending, Writing, TypeOK
  <2>3. CASE WriteId(v)
    BY <1>0, <2>1, <2>3 DEF WriteId, SGoto, Sending, Writing, TypeOK
  <2>4. CASE WriteData(v)
    BY <1>0, <2>1, <2>4 DEF WriteData, SGoto, Sending, Writing, TypeOK
  <2>5. CASE PostResp(v)
    BY <1>0, <2>1, <2>5 DEF PostResp, SGoto, Sending, Writing, TypeOK
  <2> QED BY <1>2, <2>2, <2>3, <2>4, <2>5 DEF SendStep
<1>3. ASSUME NEW t \in Threads, ReceiveCall(t)
      PROVE  sem_resp'[w] + sem_resp_consumed'[w] + Sending(w)'
               + Cardinality(Holders(w)') = 1
  <2>1. Same
    BY <1>3 DEF Holders, ReceiveCall, RGoto, HoldingToken, Checking, TypeOK
  <2> QED BY <1>0, <1>3, <2>1 DEF ReceiveCall, senderVars, Sending
<1>4. ASSUME NEW t \in Threads, ReceiveStep(t)
      PROVE  sem_resp'[w] + sem_resp_consumed'[w] + Sending(w)'
               + Cardinality(Holders(w)') = 1
  <2>0. Sending(w)' = Sending(w)
    BY <1>4 DEF Sending, ReceiveStep, WaitResp, LoadId, Copy, PostConsumed,
                PostBack, senderVars
  <2>1. CASE worker[t] # w
    <3>1. Same
      BY <1>4, <2>1 DEF Holders, ReceiveStep, WaitResp, LoadId, Copy,
                        PostConsumed, PostBack, RGoto, TypeOK
    <3>2. sem_resp'[w] = sem_resp[w] /\ sem_resp_consumed'[w] = sem_resp_consumed[w]
      BY <1>4, <2>1 DEF ReceiveStep, WaitResp, LoadId, Copy,
                        PostConsumed, PostBack, RGoto, TypeOK
    <3> QED BY <1>0, <2>0, <3>1, <3>2
  <2>2. CASE worker[t] = w /\ WaitResp(t)
    <3>1. t \notin Holders(w) /\ Holders(w)' = Holders(w) \cup {t}
      BY <2>2 DEF Holders, WaitResp, RGoto, HoldingToken, Checking, TypeOK
    <3>2. Cardinality(Holders(w)') = Cardinality(Holders(w)) + 1
      BY <1>0, <3>1, FS_AddElement
    <3> QED BY <1>0, <2>0, <2>2, <3>2 DEF WaitResp, TypeOK
  <2>3. CASE worker[t] = w /\ (LoadId(t) \/ Copy(t))
    <3>1. Same
      BY <2>3 DEF Holders, LoadId, Copy, RGoto, HoldingToken, Checking, TypeOK
    <3> QED BY <1>0, <2>0, <2>3, <3>1 DEF LoadId, Copy
  <2>4. CASE worker[t] = w /\ (PostConsumed(t) \/ PostBack(t))
    <3>1. t \in Holders(w) /\ Holders(w)' = Holders(w) \ {t}
      BY <2>4 DEF Holders, PostConsumed, PostBack, RGoto, HoldingToken,
                  Checking, TypeOK
    <3>2. Cardinality(Holders(w)') = Cardinality(Holders(w)) - 1
      BY <1>0, <3>1, FS_RemoveElement
    <3> QED BY <1>0, <2>0, <2>4, <3>2 DEF PostConsumed, PostBack, TypeOK
  <2> QED BY <1>4, <2>1, <2>2, <2>3, <2>4 DEF ReceiveStep
<1>5. ASSUME NEW t \in Threads, NEW v \in Workers,
             NEW id \in TaskIds \cup {0}, Dispatch(t, v, id)
      PROVE  sem_resp'[w] + sem_resp_consumed'[w] + Sending(w)'
               + Cardinality(Holders(w)') = 1
  <2>1. Same
    BY <1>5 DEF Holders, Dispatch, HoldingToken, Checking, TypeOK
  <2> QED BY <1>0, <1>5, <2>1 DEF Dispatch, senderVars, Sending
<1>6. CASE UNCHANGED vars
  BY <1>0, <1>6 DEF vars, Sending, Holders
<1> QED BY ChunkType, <1>1, <1>2, <1>3, <1>4, <1>5, <1>6
       DEF AnyNext, Next

(* The invariant TokenConservation of the runs.                            *)
THEOREM TokenIsConserved == Spec => []TokenConservation
BY TokenInit, TokenPreserved, TypeCorrect, PTL DEF Spec, AnyNext
-----------------------------------------------------------------------------
(* What holding the token means.                                           *)
LEMMA TokenExcludes ==
  ASSUME TypeOK, TokenConservation, NEW w \in Workers
  PROVE  /\ spc[w] \in Writing => ~Posted(w)
         /\ \A t \in Holders(w) :
              sem_resp[w] = 0 /\ spc[w] \notin Writing /\ Holders(w) = {t}
<1>0. /\ sem_resp[w] + sem_resp_consumed[w] + Sending(w)
           + Cardinality(Holders(w)) = 1
      /\ sem_resp[w] \in Nat /\ sem_resp_consumed[w] \in Nat
      /\ Sending(w) \in {0, 1}
      /\ IsFiniteSet(Holders(w)) /\ Cardinality(Holders(w)) \in Nat
  BY HoldersFinite DEF TokenConservation, TypeOK, Sending
<1>1. ASSUME spc[w] \in Writing PROVE ~Posted(w)
  <2>1. sem_resp[w] = 0 /\ Cardinality(Holders(w)) = 0
    BY <1>0, <1>1 DEF Sending
  <2>2. Holders(w) = {}
    BY <1>0, <2>1, FS_EmptySet
  <2> QED BY <2>1, <2>2 DEF Posted, Holders, HoldingToken
<1>2. ASSUME NEW t \in Holders(w)
      PROVE  sem_resp[w] = 0 /\ spc[w] \notin Writing /\ Holders(w) = {t}
  <2>1. Cardinality(Holders(w)) # 0
    BY <1>0, FS_EmptySet
  <2>2. sem_resp[w] = 0 /\ Sending(w) = 0 /\ Cardinality(Holders(w)) = 1
    BY <1>0, <2>1
  <2>3. PICK x : Holders(w) = {x}
    BY <1>0, <2>2, FS_Singleton
  <2> QED BY <2>2, <2>3 DEF Sending
<1> QED BY <1>1, <1>2

(* A chunk that waits or is looked at is not overwritten.                  *)
LEMMA PostedSlotKept ==
  ASSUME TypeOK, TokenConservation, [AnyNext]_vars, NEW w \in Workers, Posted(w)
  PROVE  resp_slot'[w] = resp_slot[w]
<1>1. spc[w] \notin Writing
  BY TokenExcludes
<1>2. ASSUME NEW v \in Workers, NEW c \in AnyChunk, SendCall(v, c)
      PROVE  resp_slot'[w] = resp_slot[w]
  BY <1>2 DEF SendCall
<1>3. ASSUME NEW v \in Workers, SendStep(v)
      PROVE  resp_slot'[w] = resp_slot[w]
  BY <1>1, <1>3 DEF SendStep, WaitConsumed, WriteId, WriteData, PostResp,
                    SGoto, Writing, TypeOK
<1>4. ASSUME NEW t \in Threads, ReceiveCall(t) \/ ReceiveStep(t)
      PROVE  resp_slot'[w] = resp_slot[w]
  BY <1>4 DEF ReceiveCall, ReceiveStep, WaitResp, LoadId, Copy,
              PostConsumed, PostBack
<1>5. ASSUME NEW t \in Threads, NEW v \in Workers,
             NEW id \in TaskIds \cup {0}, Dispatch(t, v, id)
      PROVE  resp_slot'[w] = resp_slot[w]
  BY <1>5 DEF Dispatch
<1>6. CASE UNCHANGED vars
  BY <1>6 DEF vars
<1> QED BY ChunkType, <1>2, <1>3, <1>4, <1>5, <1>6 DEF AnyNext, Next

(* The property SlotStable of the runs.                                    *)
THEOREM SlotIsStable == Spec => SlotStable
<1>1. TypeOK /\ TokenConservation /\ [Next]_vars
        => [\A w \in Workers : Posted(w) => resp_slot'[w] = resp_slot[w]]_vars
  BY PostedSlotKept DEF AnyNext
<1> QED BY <1>1, TypeCorrect, TokenIsConserved, PTL DEF Spec, SlotStable
-----------------------------------------------------------------------------
(* What the slot holds while a worker writes it and while a thread has     *)
(* recognised its task id in it.                                           *)
InFlight ==
  /\ \A w \in Workers :
       /\ spc[w] # "idle" => chunk[w] \in AnyChunk
       /\ spc[w] \in {"write_data", "post_resp"} =>
            resp_slot[w].task_id = chunk[w].task_id
       /\ spc[w] = "post_resp" => resp_slot[w] = chunk[w]
  /\ \A t \in Threads :
       /\ rpc[t] # "idle" => task_id[t] # 0
       /\ rpc[t] = "copy" => resp_slot[worker[t]].task_id = task_id[t]

PostedWhole == \A w \in Workers : Posted(w) => resp_slot[w] \in AnyChunk

(* Under the protocol itself every chunk sent is a task's.                 *)
Identified == \A w \in Workers : spc[w] # "idle" => chunk[w] \in Chunk

(* All but the identity of the chunks.                                     *)
AnyInv == TypeOK /\ TokenConservation /\ InFlight /\ PostedWhole

Inv == AnyInv /\ Identified

LEMMA HolderOf ==
  ASSUME TypeOK, NEW t \in Threads, rpc[t] \in HoldingToken
  PROVE  worker[t] \in Workers /\ t \in Holders(worker[t])
BY DEF TypeOK, Holders, HoldingToken, Checking

LEMMA InFlightPreserved ==
  TypeOK /\ TokenConservation /\ InFlight /\ [AnyNext]_vars => InFlight'
<1> SUFFICES ASSUME TypeOK, TokenConservation, InFlight, [AnyNext]_vars
             PROVE  InFlight'
  OBVIOUS
<1>1. ASSUME NEW w \in Workers, NEW c \in AnyChunk, SendCall(w, c)
      PROVE InFlight'
  BY <1>1 DEF InFlight, TypeOK, SendCall, SGoto, threadVars
<1>2. ASSUME NEW w \in Workers, SendStep(w) PROVE InFlight'
  <2>0. \A t \in Threads : rpc[t] = "copy" => ~ (spc[worker[t]] \in Writing)
    BY HolderOf, TokenExcludes DEF HoldingToken, Checking
  <2>1. CASE WaitConsumed(w)
    BY <2>1 DEF InFlight, TypeOK, WaitConsumed, SGoto, threadVars
  <2>2. CASE WriteId(w)
    BY <2>0, <2>2 DEF InFlight, TypeOK, WriteId, SGoto, threadVars, RespSlot, Writing
  <2>3. CASE WriteData(w)
    BY <2>0, <2>3 DEF InFlight, TypeOK, WriteData, SGoto, threadVars, AnyChunk,
                      RespSlot, Writing
  <2>4. CASE PostResp(w)
    BY <2>4 DEF InFlight, TypeOK, PostResp, SGoto, threadVars
  <2> QED BY <1>2, <2>1, <2>2, <2>3, <2>4 DEF SendStep
<1>3. ASSUME NEW t \in Threads, task_id[t] # 0, ReceiveCall(t) PROVE InFlight'
  BY <1>3 DEF InFlight, TypeOK, ReceiveCall, RGoto, senderVars
<1>4. ASSUME NEW t \in Threads, ReceiveStep(t) PROVE InFlight'
  BY <1>4 DEF InFlight, TypeOK, ReceiveStep, WaitResp, LoadId, Copy, PostConsumed,
              PostBack, RGoto, senderVars
<1>5. ASSUME NEW t \in Threads, NEW w \in Workers,
             NEW id \in TaskIds \cup {0}, Dispatch(t, w, id)
      PROVE InFlight'
  BY <1>5 DEF InFlight, TypeOK, Dispatch, senderVars
<1>6. CASE UNCHANGED vars
  BY <1>6 DEF InFlight, vars
<1> QED BY ChunkType, <1>1, <1>2, <1>3, <1>4, <1>5, <1>6 DEF AnyNext, Next

(* A chunk is in the slot from the worker's sem_post to its owner's copy,  *)
(* whatever other threads do with the semaphore meanwhile.                 *)
LEMMA PostRespPuts ==
  ASSUME TypeOK, TokenConservation, InFlight, NEW w \in Workers, PostResp(w)
  PROVE  /\ ~Posted(w) /\ Posted(w)'
         /\ resp_slot[w] = chunk[w] /\ resp_slot' = resp_slot
         /\ \A v \in Workers \ {w} : Posted(v)' = Posted(v)
<1>1. ~Posted(w)
  BY TokenExcludes DEF PostResp, SGoto, Writing
<1>2. Posted(w)'
  BY DEF PostResp, Posted, TypeOK
<1>3. \A v \in Workers \ {w} : Posted(v)' = Posted(v)
  BY DEF PostResp, threadVars, Posted, TypeOK
<1> QED BY <1>1, <1>2, <1>3 DEF PostResp, SGoto, InFlight

LEMMA CopyTakes ==
  ASSUME TypeOK, TokenConservation, InFlight, NEW t \in Threads, Copy(t)
  PROVE  /\ worker[t] \in Workers
         /\ Posted(worker[t]) /\ ~Posted(worker[t])'
         /\ resp_slot[worker[t]].task_id = task_id[t] /\ task_id[t] # 0
         /\ \A v \in Workers \ {worker[t]} : Posted(v)' = Posted(v)
<1> DEFINE w == worker[t]
<1>1. w \in Workers /\ t \in Holders(w)
  BY HolderOf DEF Copy, RGoto, HoldingToken, Checking
<1>2. sem_resp[w] = 0 /\ Holders(w) = {t}
  BY <1>1, TokenExcludes
<1>3. Posted(w) /\ ~Posted(w)'
  BY <1>1, <1>2 DEF Copy, RGoto, Posted, Holders, HoldingToken, Checking, TypeOK
<1>4. \A v \in Workers \ {w} : Posted(v)' = Posted(v)
  BY DEF Copy, RGoto, Posted, TypeOK
<1> QED BY <1>1, <1>3, <1>4 DEF Copy, RGoto, InFlight

LEMMA PostedKept ==
  ASSUME TypeOK, [AnyNext]_vars,
         \A w \in Workers : ~PostResp(w), \A t \in Threads : ~Copy(t)
  PROVE  \A w \in Workers : Posted(w)' = Posted(w)
<1>1. ASSUME NEW v \in Workers, NEW c \in AnyChunk, SendCall(v, c),
             NEW w \in Workers
      PROVE  Posted(w)' = Posted(w)
  BY <1>1 DEF SendCall, threadVars, Posted
<1>2. ASSUME NEW v \in Workers, SendStep(v), NEW w \in Workers
      PROVE  Posted(w)' = Posted(w)
  BY <1>2 DEF SendStep, WaitConsumed, WriteId, WriteData, threadVars, Posted
<1>3. ASSUME NEW t \in Threads, ReceiveCall(t) \/ PostConsumed(t),
             NEW w \in Workers
      PROVE  Posted(w)' = Posted(w)
  BY <1>3 DEF ReceiveCall, PostConsumed, RGoto, Posted, Checking, TypeOK
<1>4. ASSUME NEW t \in Threads, WaitResp(t) \/ LoadId(t) \/ PostBack(t),
             NEW w \in Workers
      PROVE  Posted(w)' = Posted(w)
  <2>1. PICK v \in Workers : v = worker[t]
    BY <1>4 DEF TypeOK, WaitResp, LoadId, PostBack, RGoto
  <2>2. CASE w = v
    <3>1. Posted(v) /\ Posted(v)'
      BY <1>4, <2>1 DEF WaitResp, LoadId, PostBack, RGoto, Posted, Checking,
                        TypeOK
    <3> QED BY <2>2, <3>1 DEF Posted
  <2>3. CASE w # v
    BY <1>4, <2>1, <2>3 DEF WaitResp, LoadId, PostBack, RGoto, Posted, TypeOK
  <2> QED BY <2>2, <2>3
<1>5. ASSUME NEW t \in Threads, NEW v \in Workers,
             NEW id \in TaskIds \cup {0}, Dispatch(t, v, id), NEW w \in Workers
      PROVE  Posted(w)' = Posted(w)
  BY <1>5 DEF Dispatch, Posted, Checking, TypeOK
<1>6. CASE UNCHANGED vars
  BY <1>6 DEF vars, Posted
<1> QED BY ChunkType, <1>1, <1>2, <1>3, <1>4, <1>5, <1>6
        DEF AnyNext, Next, ReceiveStep

LEMMA PostedKeptAt ==
  ASSUME TypeOK, TokenConservation, InFlight, [AnyNext]_vars,
         NEW w \in Workers, ~PostResp(w),
         \A t \in Threads : worker[t] = w => ~Copy(t)
  PROVE  Posted(w)' = Posted(w)
BY PostedKept, PostRespPuts, CopyTakes

LEMMA PostedWholePreserved == AnyInv /\ [AnyNext]_vars => PostedWhole'
<1> SUFFICES ASSUME AnyInv, [AnyNext]_vars, NEW w \in Workers, Posted(w)'
             PROVE  resp_slot'[w] \in AnyChunk
  BY DEF PostedWhole
<1> USE DEF AnyInv
<1>1. CASE Posted(w)
  BY <1>1, PostedSlotKept DEF PostedWhole
<1>2. ASSUME NEW v \in Workers, PostResp(v), ~Posted(w)
      PROVE  resp_slot'[w] \in AnyChunk
  <2>1. w = v
    BY <1>2, PostRespPuts
  <2>2. resp_slot'[w] = chunk[w] /\ spc[w] # "idle"
    BY <1>2, <2>1, PostRespPuts DEF PostResp, SGoto
  <2> QED BY <2>2 DEF InFlight
<1>3. ASSUME NEW t \in Threads, Copy(t) PROVE Posted(w)
  BY <1>3, CopyTakes
<1> QED BY <1>1, <1>2, <1>3, PostedKept

LEMMA AnyInvPreserved == AnyInv /\ [AnyNext]_vars => AnyInv'
BY TypePreserved, TokenPreserved, InFlightPreserved, PostedWholePreserved
   DEF AnyInv

LEMMA AnyInvInit == Init => AnyInv
<1> SUFFICES ASSUME Init PROVE InFlight /\ PostedWhole
  BY TypeInit, TokenInit DEF AnyInv
<1> QED BY DEF Init, SlotInit, InFlight, PostedWhole, Posted, Checking

LEMMA IdentifiedPreserved == TypeOK /\ Identified /\ [Next]_vars => Identified'
<1> SUFFICES ASSUME TypeOK, Identified, [Next]_vars PROVE Identified'
  OBVIOUS
<1>1. ASSUME NEW w \in Workers, NEW c \in Chunk, SendCall(w, c)
      PROVE Identified'
  BY <1>1 DEF SendCall, SGoto, Identified, TypeOK
<1>2. ASSUME NEW w \in Workers, SendStep(w) PROVE Identified'
  BY <1>2 DEF SendStep, WaitConsumed, WriteId, WriteData, PostResp, SGoto,
              Identified, TypeOK
<1>3. ASSUME NEW t \in Threads, ReceiveCall(t) \/ ReceiveStep(t)
      PROVE  Identified'
  BY <1>3 DEF ReceiveCall, ReceiveStep, WaitResp, LoadId, Copy, PostConsumed,
              PostBack, senderVars, Identified
<1>4. ASSUME NEW t \in Threads, NEW w \in Workers,
             NEW id \in TaskIds \cup {0}, Dispatch(t, w, id)
      PROVE  Identified'
  BY <1>4 DEF Dispatch, senderVars, Identified
<1>5. CASE UNCHANGED vars
  BY <1>5 DEF vars, Identified
<1> QED BY <1>1, <1>2, <1>3, <1>4, <1>5 DEF Next

THEOREM InvariantHolds == Spec => []Inv
<1>1. Init => Identified
  BY DEF Init, SlotInit, Identified
<1>2. [Next]_vars => [AnyNext]_vars
  BY DEF AnyNext
<1> QED BY <1>1, <1>2, AnyInvInit, AnyInvPreserved, IdentifiedPreserved,
           TypeCorrect, PTL DEF Spec, Inv

-----------------------------------------------------------------------------
Boxed == [w \in Workers |-> IF Posted(w) THEN resp_slot[w] ELSE EmptySlot]
Address == [t \in Threads |-> [worker |-> worker[t], task_id |-> task_id[t]]]

(* The slot implements the mailbox: sem_post of the worker puts the chunk, *)
(* the copy made by its owner takes it, and every other step leaves the    *)
(* box as it was.  The property ImplementsMailbox of the runs.             *)
THEOREM SlotImplementsMailbox == Spec => ImplementsMailbox
<1>1. Init => Box!Init
  <2> SUFFICES ASSUME Init PROVE Box!Init
    OBVIOUS
  <2>1. \A w \in Workers : ~Posted(w)
    BY DEF Init, SlotInit, Posted, Checking
  <2> QED BY <2>1 DEF Box!Init, Init, SlotInit
<1>2. Inv /\ Inv' /\ [Next]_vars => [Box!Next]_Box!vars
  <2> SUFFICES ASSUME TypeOK, TokenConservation, InFlight, Identified, TypeOK',
                      [Next]_vars
               PROVE  Box!Next \/ (Boxed' = Boxed /\ Address' = Address /\ got' = got)
    BY DEF Inv, AnyInv, Box!vars, Boxed, Address
  <2> DEFINE Stutter == Boxed' = Boxed /\ Address' = Address /\ got' = got
  <2>0. [AnyNext]_vars
    BY DEF AnyNext
  <2>1. ASSUME UNCHANGED <<worker, task_id, got>>,
               \A w \in Workers : ~PostResp(w), \A t \in Threads : ~Copy(t)
        PROVE  Stutter
    <3>1. ASSUME NEW w \in Workers PROVE Boxed'[w] = Boxed[w]
      <4>1. Posted(w)' = Posted(w)
        BY <2>0, <2>1, PostedKept
      <4>2. Posted(w) => resp_slot'[w] = resp_slot[w]
        BY <2>0, PostedSlotKept
      <4> QED BY <4>1, <4>2 DEF Boxed
    <3> QED BY <2>1, <3>1 DEF Boxed, Address
  <2>2. ASSUME NEW w \in Workers, PostResp(w) PROVE Box!Next
    <3>1. ~Posted(w) /\ Posted(w)' /\ resp_slot[w] = chunk[w]
      BY <2>2, PostRespPuts
    <3>2. \A v \in Workers \ {w} : Posted(v)' = Posted(v)
      BY <2>2, PostRespPuts
    <3>3. Boxed[w] = EmptySlot /\ Boxed' = [Boxed EXCEPT ![w] = chunk[w]]
      BY <2>2, <3>1, <3>2 DEF PostResp, Boxed
    <3>4. Box!Put(w, chunk[w])
      BY <2>2, <3>3 DEF Box!Put, PostResp, threadVars, Boxed
    <3>5. chunk[w] \in Chunk
      BY <2>2 DEF PostResp, SGoto, Identified
    <3>6. \E c \in Chunk : Box!Put(w, c)
      BY <3>4, <3>5 DEF Box!Put
    <3> QED BY <3>6 DEF Box!Next
  <2>3. ASSUME NEW t \in Threads, Copy(t) PROVE Box!Next
    <3> DEFINE w == worker[t]
    <3>1. /\ w \in Workers /\ Posted(w) /\ ~Posted(w)'
          /\ resp_slot[w].task_id = task_id[t] /\ task_id[t] # 0
      BY <2>3, CopyTakes
    <3>2. \A v \in Workers \ {w} : Posted(v)' = Posted(v)
      BY <2>3, CopyTakes
    <3>3. Boxed[w] = resp_slot[w] /\ resp_slot[w] # EmptySlot
      BY <3>1 DEF Boxed, EmptySlot
    <3>4. Boxed' = [Boxed EXCEPT ![w] = EmptySlot]
      BY <2>3, <3>1, <3>2 DEF Copy, Boxed
    <3>5. Address[t] = [worker |-> w, task_id |-> resp_slot[w].task_id]
      BY <3>1 DEF Address
    <3>6. got' = [got EXCEPT ![t] = Boxed[w]] /\ Address' = Address
      BY <2>3, <3>3 DEF Copy, Address
    <3>7. Box!Deliver(w, t)
      BY <3>3, <3>4, <3>5, <3>6 DEF Box!Deliver, Boxed, Address
    <3> QED BY <3>1, <3>7 DEF Box!Next
  <2>4. ASSUME NEW t \in Threads, NEW v \in Workers,
               NEW id \in TaskIds \cup {0}, Dispatch(t, v, id)
        PROVE  Box!Next
    <3>1. \A w \in Workers : Posted(w)' = Posted(w)
      BY <2>4 DEF Dispatch, Posted, Checking, TypeOK
    <3>2. Boxed' = Boxed
      BY <2>4, <3>1 DEF Dispatch, Boxed
    <3>3. \A s \in Threads \ {t} : Address'[s] = Address[s]
      BY <2>4 DEF Dispatch, Address, TypeOK
    <3>4. Box!Readdress(t)
      BY <2>4, <3>2, <3>3 DEF Box!Readdress, Dispatch, Boxed, Address
    <3> QED BY <3>4 DEF Box!Next
  <2>5. ASSUME NEW w \in Workers,
               SendStep(w) \/ \E c \in Chunk : SendCall(w, c)
        PROVE  UNCHANGED <<worker, task_id, got>>
    BY <2>5 DEF SendStep, WaitConsumed, WriteId, WriteData, PostResp, SendCall,
                threadVars
  <2>6. ASSUME NEW t \in Threads, ReceiveCall(t) \/ ReceiveStep(t), ~Copy(t)
        PROVE  UNCHANGED <<worker, task_id, got>>
    BY <2>6 DEF ReceiveCall, ReceiveStep, WaitResp, LoadId, PostConsumed,
                PostBack
  <2>7. UNCHANGED vars => UNCHANGED <<worker, task_id, got>>
    BY DEF vars
  <2> QED BY <2>1, <2>2, <2>3, <2>4, <2>5, <2>6, <2>7 DEF Next
<1> QED BY <1>1, <1>2, InvariantHolds, PTL DEF Spec, ImplementsMailbox, Box!Spec
=============================================================================
