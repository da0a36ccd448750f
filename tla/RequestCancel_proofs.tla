------------------------ MODULE RequestCancel_proofs ------------------------
(***************************************************************************)
(* What holds of the request ring with cancellation going on, for threads  *)
(* that enqueue one at a time: the invariants and the refinement that the  *)
(* run cancel checks, for any number of workers, threads and slots.        *)
(***************************************************************************)
EXTENDS RequestCancel, RequestRing_proofs

CancelTypeOK ==
  /\ cpc \in [Threads -> {"idle", "load_tail", "probe", "mark", "missed",
                          "marked"}]
  /\ scan_end \in [Threads -> Nat]
  /\ scan \in [Threads -> Nat]

(* A search is for a request that is enqueued, below the head it loaded.   *)
SearchInRange ==
  \A t \in Threads :
    /\ cpc[t] # "idle" => pc[t] = "returned" /\ scan_end[t] <= head[worker[t]]
    /\ cpc[t] \in {"mark", "marked"} => scan[t] < scan_end[t]

(* Where the request still is, if it is: in what is left to search.        *)
SearchCovers ==
  \A t \in Threads :
    pc[t] = "returned" =>
      \A i \in Queued(worker[t]) :
        req[worker[t]][i % CAP].data = t =>
          /\ cpc[t] \in {"load_tail", "probe"} => i < scan_end[t]
          /\ cpc[t] = "probe" => scan[t] <= i
          /\ cpc[t] # "missed"

(* What was found stays where it was found until the worker takes it.      *)
FoundStays ==
  \A t \in Threads :
    cpc[t] \in {"mark", "marked"} /\ scan[t] \in Queued(worker[t]) =>
      /\ Scanned(t).task_id = task_id[t]
      /\ cpc[t] = "marked" => Scanned(t).is_canceled

CancelInv ==
  RingInv /\ CancelTypeOK /\ SearchInRange /\ SearchCovers /\ FoundStays

-----------------------------------------------------------------------------
(* Mark changes the flag of one slot.                                      *)
LEMMA MarkEffect ==
  ASSUME TypeOK, CancelTypeOK, SearchInRange, NEW t \in Threads, Mark(t)
  PROVE  /\ worker[t] \in Workers /\ scan[t] % CAP \in 0 .. CAP - 1
         /\ req' \in [Workers -> [0 .. CAP - 1 -> ReqSlot]]
         /\ \A w \in Workers, i \in 0 .. CAP - 1 :
              /\ req'[w][i].task_id = req[w][i].task_id
              /\ req'[w][i].data = req[w][i].data
              /\ req[w][i].is_canceled => req'[w][i].is_canceled
         /\ req'[worker[t]][scan[t] % CAP].is_canceled
<1>1. PICK v \in Workers, k \in 0 .. CAP - 1 :
        v = worker[t] /\ k = scan[t] % CAP
  <2>1. worker[t] \in Workers
    BY DEF Mark, CGoto, SearchInRange, TypeOK
  <2>2. scan[t] % CAP \in 0 .. CAP - 1
    BY SlotIndex DEF CancelTypeOK
  <2> QED BY <2>1, <2>2
<1> DEFINE s == SlotOf(req[v][k].task_id, req[v][k].data, TRUE)
<1>2. s \in ReqSlot
  <2>1. req[v][k] \in ReqSlot
    BY DEF TypeOK
  <2>2. req[v][k].task_id \in Nat /\ req[v][k].data \in Messages
    BY <2>1 DEF ReqSlot
  <2> QED BY <2>2 DEF ReqSlot, SlotOf
<1>3. req' = [req EXCEPT ![v][k] = s]
  BY <1>1 DEF Mark
<1>4. s.task_id = req[v][k].task_id /\ s.data = req[v][k].data /\ s.is_canceled
  BY DEF SlotOf
<1> HIDE DEF s
<1> QED BY <1>1, <1>2, <1>3, <1>4 DEF TypeOK

(* The ring's invariant does not look at the flag.                         *)
LEMMA MarkKeepsRing ==
  ASSUME RingInv, CancelTypeOK, SearchInRange, NEW t \in Threads, Mark(t)
  PROVE  RingInv'
<1>0. TypeOK
  BY DEF RingInv, Counted
<1>1. /\ UNCHANGED <<head, tail, sem_request_items, sem_req_space,
                     next_task_id, threadVars, workerVars>>
      /\ req' \in [Workers -> [0 .. CAP - 1 -> ReqSlot]]
      /\ \A w \in Workers, i \in 0 .. CAP - 1 :
           /\ req'[w][i].task_id = req[w][i].task_id
           /\ req'[w][i].data = req[w][i].data
  BY <1>0, MarkEffect DEF Mark
<1>2. TypeOK'
  BY <1>0, <1>1 DEF TypeOK, threadVars, workerVars
<1>3. Counted'
  <2>1. /\ TaskIdsUnique' /\ OneProducer' /\ HeadLoaded' /\ TailFetched'
    BY <1>1 DEF RingInv, Counted, TaskIdsUnique, OneProducer, HeadLoaded,
                TailFetched, Copying, threadVars, workerVars
  <2>2. SpaceConservation' /\ ItemsCountQueue'
    BY <1>1 DEF RingInv, Counted, SpaceConservation, Holding, Serving,
                ItemsCountQueue, threadVars, workerVars
  <2> QED BY <1>2, <2>1, <2>2 DEF Counted
<1>4. IdsCounted'
  BY <1>1 DEF RingInv, IdsCounted, TookId, threadVars
<1>5. SlotFilled'
  <2> SUFFICES ASSUME NEW s \in Threads, pc[s] \in {"write_data", "store_head"}
               PROVE  /\ req'[worker[s]][head_val[s] % CAP].task_id = task_id[s]
                      /\ pc[s] = "store_head" =>
                           req'[worker[s]][head_val[s] % CAP].data = s
    BY <1>1 DEF SlotFilled, threadVars
  <2>1. worker[s] \in Workers /\ head_val[s] % CAP \in 0 .. CAP - 1
    BY <1>0, SlotIndex DEF TypeOK
  <2> QED BY <1>1, <2>1 DEF RingInv, SlotFilled
<1>6. LiveRequests'
  <2> SUFFICES ASSUME NEW w \in Workers, NEW i \in Live(w)
               PROVE  Published(w, req[w][i % CAP])'
    BY <1>1 DEF LiveRequests, Live, Queued, Reading, workerVars
  <2>1. i % CAP \in 0 .. CAP - 1
    BY <1>0, LivePositions
  <2>2. Published(w, req[w][i % CAP])
    BY DEF RingInv, LiveRequests
  <2> QED BY <1>1, <2>1, <2>2 DEF Published, threadVars
<1>7. CopiedRequest'
  <2> SUFFICES ASSUME NEW w \in Workers
               PROVE  /\ wpc[w] = "copy_data" =>
                           slot[w].task_id = ReadSlot(w)'.task_id
                      /\ wpc[w] = "busy" => Published(w, slot[w])'
    BY <1>1 DEF CopiedRequest, workerVars
  <2>1. tail_val[w] % CAP \in 0 .. CAP - 1
    BY <1>0, SlotIndex DEF TypeOK
  <2>2. ReadSlot(w)'.task_id = ReadSlot(w).task_id
    BY <1>1, <2>1 DEF ReadSlot, workerVars
  <2>3. wpc[w] = "busy" => Published(w, slot[w])'
    BY <1>1 DEF RingInv, CopiedRequest, Published, threadVars, workerVars
  <2> QED BY <2>2, <2>3 DEF RingInv, CopiedRequest
<1> QED BY <1>3, <1>4, <1>5, <1>6, <1>7 DEF RingInv

-----------------------------------------------------------------------------
(* What a step of the ring may do to a request that is enqueued.           *)
LEMMA ReturnedStays ==
  ASSUME TypeOK, [Next]_vars, NEW t \in Threads, pc[t] = "returned"
  PROVE  pc'[t] = "returned" /\ worker'[t] = worker[t] /\ task_id'[t] = task_id[t]
<1>1. ASSUME NEW s \in Threads, EnqueueStep(s) \/ \E v \in Workers : EnqueueCall(s, v)
      PROVE  /\ pc'[t] = "returned" /\ worker'[t] = worker[t]
             /\ task_id'[t] = task_id[t]
  BY <1>1 DEF TypeOK, Goto, EnqueueStep, EnqueueCall, WaitSpace, TakeTaskId,
              LoadHead, WriteId, WriteData, StoreHead, PostItem
<1>2. ASSUME NEW w \in Workers, DequeueStep(w) \/ Handled(w)
      PROVE  UNCHANGED threadVars
  BY <1>2 DEF DequeueStep, WaitItem, FetchTail, CopyId, CopyData, Handled
<1>3. UNCHANGED vars => UNCHANGED threadVars
  BY DEF vars
<1> QED BY <1>1, <1>2, <1>3 DEF Next, threadVars

LEMMA Advances ==
  ASSUME Counted, [Next]_vars, NEW w \in Workers
  PROVE  head[w] <= head'[w] /\ tail[w] <= tail'[w]
<1>0. head \in [Workers -> Nat] /\ tail \in [Workers -> Nat]
  BY DEF Counted, TypeOK
<1>1. ASSUME NEW t \in Threads, StoreHead(t)
      PROVE  head[w] <= head'[w] /\ tail[w] <= tail'[w]
  <2>1. head_val[t] = head[worker[t]]
    BY <1>1 DEF Counted, HeadLoaded, Filling, StoreHead, Goto
  <2> QED BY <1>0, <1>1, <2>1 DEF StoreHead
<1>2. ASSUME NEW v \in Workers, FetchTail(v)
      PROVE  head[w] <= head'[w] /\ tail[w] <= tail'[w]
  BY <1>0, <1>2 DEF FetchTail
<1>3. ASSUME NEW t \in Threads,
             (~StoreHead(t) /\ EnqueueStep(t)) \/ \E v \in Workers : EnqueueCall(t, v)
      PROVE  UNCHANGED <<head, tail>>
  BY <1>3 DEF EnqueueStep, EnqueueCall, WaitSpace, TakeTaskId, LoadHead,
              WriteId, WriteData, PostItem
<1>4. ASSUME NEW v \in Workers, (~FetchTail(v) /\ DequeueStep(v)) \/ Handled(v)
      PROVE  UNCHANGED <<head, tail>>
  BY <1>4 DEF DequeueStep, WaitItem, CopyId, CopyData, Handled
<1>5. UNCHANGED vars => UNCHANGED <<head, tail>>
  BY DEF vars
<1>6. UNCHANGED <<head, tail>> => head[w] <= head'[w] /\ tail[w] <= tail'[w]
  BY <1>0
<1> QED BY <1>1, <1>2, <1>3, <1>4, <1>5, <1>6 DEF Next

(* A position of the queue was there before, with what is in its slot, or  *)
(* a thread that is not back yet just filled it.                           *)
LEMMA QueuedBefore ==
  ASSUME RingInv, [Next]_vars, NEW w \in Workers, NEW i \in Queued(w)'
  PROVE  \/ i \in Queued(w) /\ req'[w][i % CAP] = req[w][i % CAP]
         \/ \E s \in Threads : /\ pc[s] = "store_head"
                               /\ req'[w][i % CAP].data = s
                               /\ i = head[w]
<1>0. Counted /\ TypeOK /\ i \in Nat
  <2>1. Counted /\ TypeOK
    BY DEF RingInv, Counted
  <2>2. tail[w] <= tail'[w] /\ tail'[w] \in Nat
    BY <2>1, TypePreserved, Advances DEF TypeOK
  <2>3. head'[w] \in Nat
    BY <2>1, TypePreserved DEF TypeOK
  <2> QED BY <2>1, <2>2, <2>3 DEF Queued
<1>1. i \in Live(w)'
  BY DEF Live
<1>2. CASE i \in Live(w)
  <2>1. i >= tail'[w] /\ tail[w] <= tail'[w] /\ tail[w] \in Nat /\ tail'[w] \in Nat
    BY <1>0, Advances, TypePreserved DEF Queued, TypeOK
  <2>2. i \notin Reading(w)
    BY <1>0, <2>1 DEF Counted, TailFetched, Copying, Reading, TypeOK
  <2> QED BY <1>0, <1>2, <2>2, LiveSlotKept DEF Live
<1>3. ASSUME NEW s \in Threads, StoreHead(s), worker[s] = w, i = head_val[s]
      PROVE  pc[s] = "store_head" /\ req'[w][i % CAP].data = s /\ i = head[w]
  BY <1>3 DEF StoreHead, Goto, RingInv, SlotFilled, Counted, HeadLoaded, Filling
<1> QED BY <1>0, <1>1, <1>2, <1>3, LiveGrows

(* Steps of the ring leave a search what it has to know.                   *)
LEMMA RingStepKeepsSearch ==
  ASSUME CancelInv, [SerialNext]_vars, UNCHANGED cancelVars
  PROVE  CancelInv'
<1>0. RingInv /\ RingInv' /\ Counted /\ TypeOK /\ TypeOK' /\ [Next]_vars
  BY RingInvPreserved DEF CancelInv, RingInv, Counted, SerialNext
<1>1. CancelTypeOK'
  BY DEF CancelInv, CancelTypeOK, cancelVars
<1>2. SearchInRange'
  <2> SUFFICES ASSUME NEW t \in Threads, cpc[t] # "idle"
               PROVE  pc'[t] = "returned" /\ scan_end[t] <= head'[worker'[t]]
    BY DEF CancelInv, SearchInRange, cancelVars
  <2>1. pc[t] = "returned" /\ scan_end[t] <= head[worker[t]]
    BY DEF CancelInv, SearchInRange
  <2>2. worker[t] \in Workers
    BY <1>0, <2>1 DEF TypeOK
  <2>3. pc'[t] = "returned" /\ worker'[t] = worker[t]
    BY <1>0, <2>1, ReturnedStays
  <2>4. /\ head[worker[t]] <= head'[worker[t]] /\ head[worker[t]] \in Nat
        /\ head'[worker[t]] \in Nat /\ scan_end[t] \in Nat
    BY <1>0, <2>2, Advances DEF TypeOK, CancelInv, CancelTypeOK
  <2> QED BY <2>1, <2>3, <2>4
<1>3. SearchCovers'
  <2> SUFFICES ASSUME NEW t \in Threads, pc'[t] = "returned",
                      NEW i \in Queued(worker[t])', cpc[t] # "idle",
                      req'[worker'[t]][i % CAP].data = t
               PROVE  /\ cpc[t] \in {"load_tail", "probe"} => i < scan_end[t]
                      /\ cpc[t] = "probe" => scan[t] <= i
                      /\ cpc[t] # "missed"
    BY DEF SearchCovers, cancelVars
  <2>1. pc[t] = "returned"
    BY DEF CancelInv, SearchInRange
  <2>2. PICK w \in Workers : w = worker[t] /\ w = worker'[t]
    BY <1>0, <2>1, ReturnedStays DEF TypeOK
  <2>3. i \in Queued(w)'
    BY <2>2 DEF Queued
  <2>4. i \in Queued(w) /\ req[w][i % CAP].data = t
    BY <1>0, <2>1, <2>2, <2>3, QueuedBefore
  <2> QED BY <2>1, <2>2, <2>4 DEF CancelInv, SearchCovers
<1>4. FoundStays'
  <2> SUFFICES ASSUME NEW t \in Threads, cpc[t] \in {"mark", "marked"},
                      scan[t] \in Queued(worker[t])'
               PROVE  /\ req'[worker'[t]][scan[t] % CAP].task_id = task_id'[t]
                      /\ cpc[t] = "marked" =>
                           req'[worker'[t]][scan[t] % CAP].is_canceled
    BY DEF FoundStays, Scanned, cancelVars
  <2>1. /\ pc[t] = "returned" /\ scan[t] < scan_end[t]
        /\ scan_end[t] <= head[worker[t]]
    BY DEF CancelInv, SearchInRange
  <2>2. PICK w \in Workers : w = worker[t] /\ w = worker'[t]
    BY <1>0, <2>1, ReturnedStays DEF TypeOK
  <2>3. scan[t] \in Queued(w)'
    BY <2>2 DEF Queued
  <2>4. scan[t] # head[w]
    <3>1. scan[t] \in Nat /\ scan_end[t] \in Nat /\ head[w] \in Nat
      BY <1>0 DEF CancelInv, CancelTypeOK, TypeOK
    <3> QED BY <2>1, <2>2, <3>1
  <2>5. scan[t] \in Queued(w) /\ req'[w][scan[t] % CAP] = req[w][scan[t] % CAP]
    BY <1>0, <2>3, <2>4, QueuedBefore
  <2>6. task_id'[t] = task_id[t]
    BY <1>0, <2>1, ReturnedStays
  <2> QED BY <2>2, <2>5, <2>6 DEF CancelInv, FoundStays, Scanned
<1> QED BY <1>0, <1>1, <1>2, <1>3, <1>4 DEF CancelInv

(* A step of a search that leaves the ring alone.                          *)
LEMMA SearchStepKeepsInv ==
  ASSUME CancelInv, NEW t \in Threads,
         \/ CancelLoadHead(t) \/ CancelLoadTail(t)
         \/ Found(t) \/ NextPosition(t) \/ NotFound(t)
  PROVE  CancelInv'
<1>0. UNCHANGED vars
  BY DEF CancelLoadHead, CancelLoadTail, Found, NextPosition, NotFound
<1>1. RingInv'
  BY <1>0, RingInvPreserved DEF CancelInv
<1>2. /\ TypeOK /\ CancelTypeOK /\ SearchInRange /\ SearchCovers /\ FoundStays
      /\ worker[t] \in Workers /\ head[worker[t]] \in Nat /\ tail[worker[t]] \in Nat
  <2>1. TypeOK /\ CancelTypeOK /\ SearchInRange /\ SearchCovers /\ FoundStays
    BY DEF CancelInv, RingInv, Counted
  <2>2. pc[t] = "returned"
    BY <2>1 DEF SearchInRange, CancelLoadHead, CancelLoadTail, Found,
                NextPosition, NotFound, CGoto
  <2> QED BY <2>1, <2>2 DEF TypeOK
<1>3. /\ UNCHANGED <<head, tail, req, pc, worker, task_id>>
      /\ \A s \in Threads : /\ Queued(worker[s])' = Queued(worker[s])
                            /\ req'[worker[s]] = req[worker[s]]
  BY <1>0 DEF vars, threadVars, Queued
<1>4. \A s \in Threads \ {t} :
        cpc'[s] = cpc[s] /\ scan'[s] = scan[s] /\ scan_end'[s] = scan_end[s]
  BY <1>2 DEF CancelTypeOK, CancelLoadHead, CancelLoadTail, Found,
              NextPosition, NotFound, CGoto
<1>5. CancelTypeOK'
  BY <1>2 DEF CancelTypeOK, CancelLoadHead, CancelLoadTail, Found,
              NextPosition, NotFound, CGoto
<1>6. SearchInRange'
  <2> SUFFICES ASSUME NEW s \in Threads
               PROVE  /\ cpc'[s] # "idle" => pc[s] = "returned"
                                             /\ scan_end'[s] <= head[worker[s]]
                      /\ cpc'[s] \in {"mark", "marked"} => scan'[s] < scan_end'[s]
    BY <1>3 DEF SearchInRange
  <2>1. CASE s # t
    BY <1>2, <1>4, <2>1 DEF SearchInRange
  <2>2. CASE s = t
    BY <1>2, <2>2 DEF SearchInRange, CancelTypeOK, CancelLoadHead,
                      CancelLoadTail, Found, NextPosition, NotFound, CGoto
  <2> QED BY <2>1, <2>2
<1>7. FoundStays'
  <2> SUFFICES ASSUME NEW s \in Threads, cpc'[s] \in {"mark", "marked"},
                      scan'[s] \in Queued(worker[s])
               PROVE  /\ req[worker[s]][scan'[s] % CAP].task_id = task_id[s]
                      /\ cpc'[s] = "marked" =>
                           req[worker[s]][scan'[s] % CAP].is_canceled
    BY <1>3 DEF FoundStays, Scanned
  <2>1. CASE s # t
    BY <1>2, <1>4, <2>1 DEF FoundStays, Scanned
  <2>2. CASE s = t
    BY <1>2, <2>2 DEF FoundStays, Scanned, CancelTypeOK, CancelLoadHead,
                      CancelLoadTail, Found, NextPosition, NotFound, CGoto
  <2> QED BY <2>1, <2>2
<1>8. SearchCovers'
  <2> SUFFICES ASSUME NEW s \in Threads, pc[s] = "returned",
                      NEW i \in Queued(worker[s]),
                      req[worker[s]][i % CAP].data = s
               PROVE  /\ cpc'[s] \in {"load_tail", "probe"} => i < scan_end'[s]
                      /\ cpc'[s] = "probe" => scan'[s] <= i
                      /\ cpc'[s] # "missed"
    BY <1>3 DEF SearchCovers
  <2>0. /\ cpc[s] \in {"load_tail", "probe"} => i < scan_end[s]
        /\ cpc[s] = "probe" => scan[s] <= i
        /\ cpc[s] # "missed"
    BY <1>2 DEF SearchCovers
  <2>1. CASE s # t
    BY <1>4, <2>0, <2>1
  <2>2. CASE s = t
    <3>0. /\ i \in Nat /\ tail[worker[t]] <= i /\ i < head[worker[t]]
          /\ scan[t] \in Nat /\ scan_end[t] \in Nat
      BY <1>2, <2>2 DEF Queued, CancelTypeOK
    <3>1. CASE CancelLoadHead(t)
      BY <1>2, <2>2, <3>0, <3>1 DEF CancelLoadHead, CGoto, CancelTypeOK
    <3>2. CASE CancelLoadTail(t)
      BY <1>2, <2>0, <2>2, <3>0, <3>2 DEF CancelLoadTail, CGoto, CancelTypeOK
    <3>3. CASE Found(t)
      BY <1>2, <2>0, <2>2, <3>3 DEF Found, CGoto, CancelTypeOK
    <3>4. CASE NextPosition(t)
      <4>1. req[worker[t]][i % CAP].task_id = task_id[t]
        BY <1>2, <2>2 DEF CancelInv, RingInv, LiveRequests, Live, Published
      <4>2. i # scan[t]
        BY <3>4, <4>1 DEF NextPosition, Scanned
      <4> QED BY <1>2, <2>0, <2>2, <3>0, <3>4, <4>2
              DEF NextPosition, CancelTypeOK
    <3>5. CASE NotFound(t)
      BY <1>2, <2>0, <2>2, <3>0, <3>5 DEF NotFound, CGoto, CancelTypeOK
    <3> QED BY <3>1, <3>2, <3>3, <3>4, <3>5
  <2> QED BY <2>1, <2>2
<1> QED BY <1>1, <1>5, <1>6, <1>7, <1>8 DEF CancelInv

(* The store of the flag, whosever request is in the slot by now.          *)
LEMMA MarkKeepsInv ==
  ASSUME CancelInv, NEW t \in Threads, Mark(t)
  PROVE  CancelInv'
<1>0. /\ RingInv /\ TypeOK /\ CancelTypeOK
      /\ SearchInRange /\ SearchCovers /\ FoundStays
  BY DEF CancelInv, RingInv, Counted
<1>1. RingInv'
  BY <1>0, MarkKeepsRing
<1>2. /\ UNCHANGED <<head, tail, pc, worker, task_id, scan, scan_end>>
      /\ cpc[t] = "mark" /\ cpc' = [cpc EXCEPT ![t] = "marked"]
  BY DEF Mark, CGoto, threadVars
<1>3. CancelTypeOK'
  BY <1>0, <1>2 DEF CancelTypeOK
<1>4. SearchInRange'
  BY <1>0, <1>2 DEF SearchInRange, CancelTypeOK
<1>5. \A s \in Threads : pc[s] = "returned" => worker[s] \in Workers
  BY <1>0 DEF TypeOK
<1>6. SearchCovers'
  <2> SUFFICES ASSUME NEW s \in Threads, pc[s] = "returned",
                      NEW i \in Queued(worker[s]),
                      req'[worker[s]][i % CAP].data = s
               PROVE  /\ cpc'[s] \in {"load_tail", "probe"} => i < scan_end[s]
                      /\ cpc'[s] = "probe" => scan[s] <= i
                      /\ cpc'[s] # "missed"
    BY <1>2 DEF SearchCovers, Queued
  <2>1. worker[s] \in Workers /\ i % CAP \in 0 .. CAP - 1
    BY <1>0, <1>5, LivePositions DEF Live
  <2>2. req[worker[s]][i % CAP].data = s
    BY <1>0, <2>1, MarkEffect
  <2> QED BY <1>0, <1>2, <2>2 DEF SearchCovers, CancelTypeOK
<1>7. FoundStays'
  <2> SUFFICES ASSUME NEW s \in Threads, cpc'[s] \in {"mark", "marked"},
                      scan[s] \in Queued(worker[s])
               PROVE  /\ req'[worker[s]][scan[s] % CAP].task_id = task_id[s]
                      /\ cpc'[s] = "marked" =>
                           req'[worker[s]][scan[s] % CAP].is_canceled
    BY <1>2 DEF FoundStays, Scanned, Queued
  <2>1. cpc[s] \in {"mark", "marked"} /\ (cpc[s] = "marked" \/ s = t \/ cpc'[s] = "mark")
    BY <1>0, <1>2 DEF CancelTypeOK
  <2>2. worker[s] \in Workers /\ scan[s] % CAP \in 0 .. CAP - 1
    BY <1>0, <1>5, <2>1, LivePositions DEF Live, SearchInRange
  <2>3. /\ req[worker[s]][scan[s] % CAP].task_id = task_id[s]
        /\ cpc[s] = "marked" => req[worker[s]][scan[s] % CAP].is_canceled
    BY <1>0, <2>1 DEF FoundStays, Scanned
  <2> QED BY <1>0, <2>1, <2>2, <2>3, MarkEffect
<1> QED BY <1>1, <1>3, <1>4, <1>6, <1>7 DEF CancelInv

LEMMA CancelInvPreserved == CancelInv /\ [CancelNext]_allVars => CancelInv'
<1> SUFFICES ASSUME CancelInv, [CancelNext]_allVars PROVE CancelInv'
  OBVIOUS
<1>1. UNCHANGED allVars => UNCHANGED vars /\ UNCHANGED cancelVars
  BY DEF allVars
<1> QED BY <1>1, RingStepKeepsSearch, SearchStepKeepsInv, MarkKeepsInv
        DEF CancelNext

LEMMA CancelInvInit == CancelInit => CancelInv
<1> SUFFICES ASSUME CancelInit PROVE CancelInv
  OBVIOUS
<1>1. RingInv
  BY RingInvInit DEF CancelInit
<1>2. CancelTypeOK /\ SearchInRange /\ FoundStays
  BY DEF CancelInit, CancelTypeOK, SearchInRange, FoundStays
<1>3. SearchCovers
  BY DEF CancelInit, Init, SearchCovers
<1> QED BY <1>1, <1>2, <1>3 DEF CancelInv

(* The inductive invariant holds.                                          *)
THEOREM CancelInvariant == CancelSpec => []CancelInv
BY CancelInvInit, CancelInvPreserved, PTL DEF CancelSpec

-----------------------------------------------------------------------------
(* The invariants of the ring's runs, while requests are being canceled.   *)

(* Types and ids, and the units of space: as without the contract.         *)
THEOREM BasicsHold == CancelSpec => [](TypeOK /\ TaskIdsUnique /\ SpaceConservation)
<1>1. CancelInv => TypeOK /\ TaskIdsUnique /\ SpaceConservation
  BY DEF CancelInv, RingInv, Counted
<1> QED BY <1>1, CancelInvariant, PTL

(* sem_request_items counts the requests in the queue (ipc_utils.hpp:20).  *)
THEOREM ItemsAreCounted == CancelSpec => []ItemsCountQueue
<1>1. CancelInv => ItemsCountQueue
  BY DEF CancelInv, RingInv, Counted
<1> QED BY <1>1, CancelInvariant, PTL

(* enqueue_request, which never looks at tail, does not write a slot that  *)
(* is still to be read.                                                    *)
THEOREM NothingIsOverwritten == CancelSpec => []NoOverwrite
<1>1. CancelInv => NoOverwrite
  BY NoOverwriteHolds DEF CancelInv, RingInv
<1> QED BY <1>1, CancelInvariant, PTL

(* What dequeue_request returns is one client's prompt with its task id.   *)
THEOREM PromptIsOwn == CancelSpec => []OwnPrompt
<1>1. CancelInv => OwnPrompt
  BY OwnPromptHolds DEF CancelInv
<1> QED BY <1>1, CancelInvariant, PTL

(* A flag set by cancel_request while its request is queued stays with the *)
(* request until the worker takes it.                                      *)
THEOREM CancellationIsKept == CancelSpec => []CancelIsKept
<1>1. CancelInv => CancelIsKept
  BY DEF CancelInv, FoundStays, CancelIsKept
<1> QED BY <1>1, CancelInvariant, PTL

(* cancel_request misses its request only if the worker has dequeued it.   *)
THEOREM MissedWasDequeued == CancelSpec => []MissedIsDequeued
<1>1. CancelInv => MissedIsDequeued
  <2> SUFFICES ASSUME CancelInv, NEW t \in Threads, cpc[t] = "missed",
                      NEW w \in Workers, NEW i \in Queued(w),
                      req[w][i % CAP].task_id = task_id[t]
               PROVE  FALSE
    BY DEF MissedIsDequeued
  <2>1. pc[t] = "returned" /\ t \in TookId
    BY DEF CancelInv, SearchInRange, TookId
  <2>2. /\ req[w][i % CAP].data \in Threads
        /\ worker[req[w][i % CAP].data] = w
        /\ task_id[req[w][i % CAP].data] = task_id[t]
    BY DEF CancelInv, RingInv, LiveRequests, Live, Published
  <2>3. task_id[t] # 0
    BY <2>1 DEF CancelInv, RingInv, IdsCounted
  <2>4. req[w][i % CAP].data = t
    BY <2>2, <2>3 DEF CancelInv, RingInv, Counted, TaskIdsUnique
  <2> QED BY <2>1, <2>2, <2>4 DEF CancelInv, SearchCovers
<1> QED BY <1>1, CancelInvariant, PTL

(* The ring is a bounded first-in first-out queue per worker also while    *)
(* requests are being canceled: the property ImplementsTaskQueue.          *)
THEOREM CancelImplementsTaskQueue == CancelSpec => ImplementsTaskQueue
<1>1. CancelInit => Queue!Init
  BY RingStartsAsQueue DEF CancelInit
<1>2. CancelInv /\ [CancelNext]_allVars => [Queue!Next]_Queue!vars
  <2> SUFFICES ASSUME CancelInv, [CancelNext]_allVars
               PROVE  [Queue!Next]_Queue!vars
    OBVIOUS
  <2>1. CASE [Next]_vars
    BY <2>1, RingStepIsQueueStep DEF CancelInv
  <2>2. ASSUME NEW t \in Threads, Mark(t) PROVE Invisible
    <3>1. /\ UNCHANGED <<head, tail, pc, wpc, slot, tail_val>>
          /\ TypeOK /\ RingInv
      BY <2>2 DEF Mark, threadVars, workerVars, CancelInv, RingInv, Counted
    <3>2. ASSUME NEW w \in Workers, NEW i \in Live(w)
          PROVE  Request(req'[w][i % CAP]) = Request(req[w][i % CAP])
      BY <2>2, <3>1, LivePositions, MarkEffect DEF CancelInv, Request
    <3>3. ASSUME NEW w \in Workers PROVE QueueOf(w)' = QueueOf(w)
      <4>1. ASSUME NEW n \in 1 .. head[w] - tail[w]
            PROVE  tail[w] + n - 1 \in Live(w)
        BY <3>1, QueueIsSeq DEF Live, Queued
      <4> QED BY <3>1, <3>2, <4>1 DEF QueueOf
    <3>4. ASSUME NEW w \in Workers PROVE ServedBy(w)' = ServedBy(w)
      <4>1. Copying(w) => Request(ReadSlot(w))' = Request(ReadSlot(w))
        <5>1. Copying(w) => tail_val[w] \in Live(w)
          BY DEF Copying, Live, Reading
        <5> QED BY <3>1, <3>2, <5>1 DEF ReadSlot, Request
      <4>2. Request(slot[w])' = Request(slot[w])
        BY <3>1 DEF Request
      <4> QED BY <3>1, <4>1, <4>2, Zenon DEF ServedBy, Copying
    <3> QED BY <3>1, <3>3, <3>4 DEF Invisible, Queues, Served, Accepted
  <2>3. ASSUME NEW t \in Threads,
               \/ CancelLoadHead(t) \/ CancelLoadTail(t)
               \/ Found(t) \/ NextPosition(t) \/ NotFound(t)
        PROVE  UNCHANGED vars
    BY <2>3 DEF CancelLoadHead, CancelLoadTail, Found, NextPosition, NotFound
  <2>4. UNCHANGED allVars => UNCHANGED vars
    BY DEF allVars
  <2> QED BY <2>1, <2>2, <2>3, <2>4, InvisibleStutters DEF CancelNext, SerialNext
<1> QED BY <1>1, <1>2, CancelInvariant, PTL
        DEF CancelSpec, ImplementsTaskQueue, Queue!Spec
=============================================================================
