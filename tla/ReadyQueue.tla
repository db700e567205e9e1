----------------------------- MODULE ReadyQueue -----------------------------
(***************************************************************************)
(* What the scheduler relies on when it calls a ThreadQueueList: one list   *)
(* of threads for each priority, taken from in the order of the priorities. *)
(* Which levels are linked, and how a pop walks over them, is not seen.     *)
(***************************************************************************)
EXTENDS Lists, Integers

CONSTANTS
    Thread,      \* the thread pointers that are queued
    NumQueues,   \* ThreadQueueList::NUM_QUEUES
    NoThread     \* T(), a null thread pointer

VARIABLES
    queues,      \* the threads of each priority
    result       \* what the last call returned

vars == <<queues, result>>

Priority == 0 .. NumQueues - 1

\* A call returns a priority and a thread; {Priority(), T()} when there is none.
Nothing == <<0, NoThread>>

\* get_first() returns a thread and no priority.
NoPriority == -1

Init == queues = [p \in Priority |-> <<>>] /\ result = Nothing

\* p is the best priority with a thread, among those better than limit.
Best(p, limit) ==
    /\ p < limit /\ queues[p] # <<>>
    /\ \A o \in Priority : o < p => queues[o] = <<>>

AllEmpty(limit) == \A p \in Priority : p < limit => queues[p] = <<>>

pop(limit) ==
    \/ \E p \in Priority :
         /\ Best(p, limit)
         /\ queues' = [queues EXCEPT ![p] = Tail(@)]
         /\ result' = <<p, Head(queues[p])>>
    \/ AllEmpty(limit) /\ result' = Nothing /\ UNCHANGED queues

pop_first == pop(NumQueues)

pop_first_better(limit) == pop(limit)

get_first ==
    /\ \/ \E p \in Priority :
            Best(p, NumQueues) /\ result' = <<NoPriority, Head(queues[p])>>
       \/ AllEmpty(NumQueues) /\ result' = <<NoPriority, NoThread>>
    /\ UNCHANGED queues

push_front(p, t) == queues' = [queues EXCEPT ![p] = <<t>> \o @] /\ UNCHANGED result

push_back(p, t) == queues' = [queues EXCEPT ![p] = Append(@, t)] /\ UNCHANGED result

remove(p, t) == queues' = [queues EXCEPT ![p] = Without(@, t)] /\ UNCHANGED result

move(t, old, new) ==
    LET removed == [queues EXCEPT ![old] = Without(@, t)]
    IN  queues' = [removed EXCEPT ![new] = Append(@, t)] /\ UNCHANGED result

rotate(p) ==
    /\ Len(queues[p]) > 1
    /\ queues' = [queues EXCEPT ![p] = Append(Tail(@), Head(@))]
    /\ UNCHANGED result

clear == queues' = [p \in Priority |-> <<>>] /\ UNCHANGED result

Next ==
    \/ pop_first \/ get_first \/ clear
    \/ \E p \in Priority : pop_first_better(p) \/ rotate(p)
    \/ \E p \in Priority, t \in Thread : push_front(p, t) \/ push_back(p, t) \/ remove(p, t)
    \/ \E t \in Thread, old, new \in Priority : move(t, old, new)

Spec == Init /\ [][Next]_vars

=============================================================================
