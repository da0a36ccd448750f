------------------------------ MODULE Mailbox ------------------------------
(***************************************************************************)
(* What the response slot promises: per worker a box for one chunk.  A     *)
(* chunk is put into an empty box and stays there, unchanged, until the    *)
(* receiver it is addressed to takes it, once.                             *)
(***************************************************************************)
CONSTANTS Workers, Receivers, Chunks, Empty

VARIABLES
  box,    \* box[w]: the chunk worker w has sent, or Empty
  addr,   \* addr[r]: where receiver r listens and for which task
  got     \* got[r]: the last chunk receiver r took, or Empty

vars == <<box, addr, got>>

Init ==
  /\ box = [w \in Workers |-> Empty]
  /\ got = [r \in Receivers |-> Empty]

(* A receiver is given another worker or task: the caller's business.      *)
Readdress(r) ==
  /\ \A s \in Receivers \ {r} : addr'[s] = addr[s]
  /\ UNCHANGED <<box, got>>

Put(w, c) ==
  /\ box[w] = Empty
  /\ box' = [box EXCEPT ![w] = c]
  /\ UNCHANGED <<addr, got>>

Deliver(w, r) ==
  /\ box[w] # Empty
  /\ addr[r] = [worker |-> w, task_id |-> box[w].task_id]
  /\ got' = [got EXCEPT ![r] = box[w]]
  /\ box' = [box EXCEPT ![w] = Empty]
  /\ UNCHANGED addr

Next ==
  \/ \E r \in Receivers : Readdress(r)
  \/ \E w \in Workers, c \in Chunks : Put(w, c)
  \/ \E w \in Workers, r \in Receivers : Deliver(w, r)

Spec == Init /\ [][Next]_vars
=============================================================================
