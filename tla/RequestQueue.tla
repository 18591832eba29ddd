---------------------------- MODULE RequestQueue ---------------------------
(***************************************************************************)
(* What a virtio device promises its driver, queue by queue: a request that*)
(* was submitted is served once, after the ones submitted before it, and   *)
(* handed back once, after it was served.  At most Depth requests of a     *)
(* queue are with the device.                                              *)
(***************************************************************************)
EXTENDS Naturals, Sequences

CONSTANTS Queues,     \* the queues of the device
          Requests,   \* the requests a driver can name
          Depth       \* requests of one queue between submission and return

VARIABLES submitted,  \* per queue, what the driver made available
          served,     \* per queue, what the device processed
          returned    \* per queue, what the driver got back

Init ==
    /\ submitted = [q \in Queues |-> << >>]
    /\ served = [q \in Queues |-> << >>]
    /\ returned = [q \in Queues |-> << >>]

Submit(q, r) ==
    /\ Len(submitted[q]) < Len(returned[q]) + Depth
    /\ submitted' = [submitted EXCEPT ![q] = Append(@, r)]
    /\ UNCHANGED <<served, returned>>

Serve(q) ==
    /\ Len(served[q]) < Len(submitted[q])
    /\ served' = [served EXCEPT ![q] = Append(@, submitted[q][Len(served[q]) + 1])]
    /\ UNCHANGED <<submitted, returned>>

Return(q) ==
    /\ Len(returned[q]) < Len(served[q])
    /\ returned' = [returned EXCEPT ![q] = Append(@, served[q][Len(returned[q]) + 1])]
    /\ UNCHANGED <<submitted, served>>

Next ==
    \E q \in Queues :
        \/ \E r \in Requests : Submit(q, r)
        \/ Serve(q)
        \/ Return(q)

Spec == Init /\ [][Next]_<<submitted, served, returned>>
=============================================================================
