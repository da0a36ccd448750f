----------------------------- MODULE TaskQueue -----------------------------
(***************************************************************************)
(* What the request ring promises: each worker has a bounded first-in      *)
(* first-out queue of requests, a client's request enters one queue once,  *)
(* and the worker takes requests in order, one at a time.                  *)
(***************************************************************************)
EXTENDS Naturals, Sequences

CONSTANTS
  Workers,
  Clients,    \* each sends one request
  TaskIds,    \* identifiers of requests
  Capacity,   \* requests a worker may have outstanding
  NoRequest

VARIABLES
  queue,     \* queue[w]: the requests waiting for worker w
  serving,   \* serving[w]: the request worker w has taken, or NoRequest
  accepted   \* the clients whose request entered a queue

vars == <<queue, serving, accepted>>

Requests == [task_id : TaskIds, data : Clients]
Occupied(w) == Len(queue[w]) + (IF serving[w] = NoRequest THEN 0 ELSE 1)

Init ==
  /\ queue = [w \in Workers |-> <<>>]
  /\ serving = [w \in Workers |-> NoRequest]
  /\ accepted = {}

Accept(w, r) ==
  /\ r.data \notin accepted
  /\ Occupied(w) < Capacity
  /\ queue' = [queue EXCEPT ![w] = Append(@, r)]
  /\ accepted' = accepted \cup {r.data}
  /\ UNCHANGED serving

Take(w) ==
  /\ serving[w] = NoRequest
  /\ queue[w] # <<>>
  /\ serving' = [serving EXCEPT ![w] = Head(queue[w])]
  /\ queue' = [queue EXCEPT ![w] = Tail(@)]
  /\ UNCHANGED accepted

Finish(w) ==
  /\ serving[w] # NoRequest
  /\ serving' = [serving EXCEPT ![w] = NoRequest]
  /\ UNCHANGED <<queue, accepted>>

Next ==
  \E w \in Workers :
    \/ \E r \in Requests : Accept(w, r)
    \/ Take(w)
    \/ Finish(w)

Spec == Init /\ [][Next]_vars
=============================================================================
