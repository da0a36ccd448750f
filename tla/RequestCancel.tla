--------------------------- MODULE RequestCancel ---------------------------
(***************************************************************************)
(* IPCManager::cancel_request on top of the request ring: the thread whose *)
(* client is gone looks for its request in the worker's ring and sets the  *)
(* slot's is_canceled; the worker skips what it dequeues with the flag     *)
(* set.  task_dispatcher.cpp:93 and :107 hold the calls, commented out;    *)
(* the thread makes them after its enqueue_request returned.               *)
(*                                                                         *)
(* The properties of RequestRing under its contract are checked here, with *)
(* cancellation going on.                                                  *)
(***************************************************************************)
EXTENDS RequestRing

VARIABLES
  cpc,       \* where a thread is in cancel_request
  scan_end,  \* its local head
  scan       \* its loop variable i

cancelVars == <<cpc, scan_end, scan>>
allVars == <<vars, cancelVars>>

CancelInit ==
  /\ Init
  /\ cpc = [t \in Threads |-> "idle"]
  /\ scan_end = [t \in Threads |-> 0]
  /\ scan = [t \in Threads |-> 0]

CGoto(t, from, to) == cpc[t] = from /\ cpc' = [cpc EXCEPT ![t] = to]

CancelLoadHead(t) ==
  /\ pc[t] = "returned"
  /\ CGoto(t, "idle", "load_tail")
  /\ scan_end' = [scan_end EXCEPT ![t] = head[worker[t]]]
  /\ UNCHANGED <<vars, scan>>

CancelLoadTail(t) ==
  /\ CGoto(t, "load_tail", "probe")
  /\ scan' = [scan EXCEPT ![t] = tail[worker[t]]]
  /\ UNCHANGED <<vars, scan_end>>

Scanned(t) == req[worker[t]][scan[t] % CAP]

(* One turn of the loop: the task is found, or the next position, or the   *)
(* end of the range.                                                       *)
Found(t) ==
  /\ scan[t] < scan_end[t] /\ Scanned(t).task_id = task_id[t]
  /\ CGoto(t, "probe", "mark")
  /\ UNCHANGED <<vars, scan_end, scan>>

NextPosition(t) ==
  /\ scan[t] < scan_end[t] /\ Scanned(t).task_id # task_id[t]
  /\ cpc[t] = "probe"
  /\ scan' = [scan EXCEPT ![t] = @ + 1]
  /\ UNCHANGED <<vars, cpc, scan_end>>

(* Mutant: the last position of the range is left out.                     *)
NotFoundEarly(t) ==
  /\ scan[t] + 1 >= scan_end[t]
  /\ CGoto(t, "probe", "missed")
  /\ UNCHANGED <<vars, scan_end, scan>>

NotFound(t) ==
  /\ scan[t] >= scan_end[t]
  /\ CGoto(t, "probe", "missed")
  /\ UNCHANGED <<vars, scan_end, scan>>

(* Mutant: the loop variable has moved on when the flag is set.            *)
MarkNext(t) ==
  /\ CGoto(t, "mark", "marked")
  /\ req' = [req EXCEPT ![worker[t]][(scan[t] + 1) % CAP] =
                          SlotOf(@.task_id, @.data, TRUE)]
  /\ UNCHANGED <<head, tail, sem_request_items, sem_req_space, next_task_id,
                 threadVars, workerVars, scan_end, scan>>

(* The slot is stored to as found: no second look at task_id or at tail.   *)
Mark(t) ==
  /\ CGoto(t, "mark", "marked")
  /\ req' = [req EXCEPT ![worker[t]][scan[t] % CAP] =
                          SlotOf(@.task_id, @.data, TRUE)]
  /\ UNCHANGED <<head, tail, sem_request_items, sem_req_space, next_task_id,
                 threadVars, workerVars, scan_end, scan>>

CancelNext ==
  \/ SerialNext /\ UNCHANGED cancelVars
  \/ \E t \in Threads :
       \/ CancelLoadHead(t) \/ CancelLoadTail(t)
       \/ Found(t) \/ NextPosition(t) \/ NotFound(t)
       \/ Mark(t)

CancelSpec == CancelInit /\ [][CancelNext]_allVars

-----------------------------------------------------------------------------
(* Properties *)

(* A cancellation that set the flag while its request was still queued is  *)
(* not lost: until the worker takes the request, its slot carries the flag *)
(* and its task id.                                                        *)
CancelIsKept ==
  \A t \in Threads :
    cpc[t] = "marked" /\ scan[t] \in Queued(worker[t]) =>
      /\ Scanned(t).is_canceled
      /\ Scanned(t).task_id = task_id[t]

(* The search is best-effort in one direction only: it misses a request    *)
(* only if the worker has dequeued it.                                     *)
MissedIsDequeued ==
  \A t \in Threads :
    cpc[t] = "missed" =>
      \A w \in Workers : \A i \in Queued(w) :
        req[w][i % CAP].task_id # task_id[t]
=============================================================================
