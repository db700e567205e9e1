---------------------------- MODULE BoundedFifo ----------------------------
(***************************************************************************)
(* What Common::MPSCQueue promises: a bounded queue. Producers append, the  *)
(* consumer receives the entries in the order in which they were appended.  *)
(***************************************************************************)
EXTENDS Naturals, Sequences

CONSTANTS Entry, NoEntry, Capacity

VARIABLES
    queue,
    received    \* the entry the consumer was given last

vars == <<queue, received>>

Init == queue = <<>> /\ received = NoEntry

Emplace(e) ==
    /\ Len(queue) < Capacity
    /\ queue' = Append(queue, e)
    /\ UNCHANGED received

Pop ==
    /\ queue # <<>>
    /\ received' = Head(queue)
    /\ queue' = Tail(queue)

Next == Pop \/ \E e \in Entry : Emplace(e)

Spec == Init /\ [][Next]_vars

=============================================================================
