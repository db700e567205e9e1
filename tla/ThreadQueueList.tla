--------------------------- MODULE ThreadQueueList ---------------------------
(***************************************************************************)
(* Common::ThreadQueueList (common/thread_queue_list.h): the ready queue of *)
(* a core. Each priority has a Queue; the queues that were ever used are    *)
(* chained by next_nonempty in the order of their addresses. A pop walks    *)
(* the chain one queue per step.                                            *)
(*                                                                         *)
(* A pointer to a Queue is its address. A queue is named by its address     *)
(* too: &queues[p] is Base + p.                                             *)
(***************************************************************************)
EXTENDS Lists, Integers

CONSTANTS
    Thread,      \* the thread pointers that are queued
    NumQueues,   \* NUM_QUEUES
    NoThread,    \* T(), a null thread pointer
    Base         \* the address of queues[0]

Null == 0
UnlinkedTag == 1

\* No queue lies at the null address or at that of the tag.
ASSUME QueueAssumption ==
    /\ NumQueues \in Nat \ {0}
    /\ Base \in Nat /\ Base > UnlinkedTag
    /\ NoThread \notin Thread

VARIABLES
    first,          \* the first queue that was ever used
    next_nonempty,  \* of each queue
    data,           \* of each queue, the threads
    call,           \* the pop that is under way
    cur, stop,      \* its local variables
    result          \* what the last call returned

queueVars == <<first, next_nonempty, data>>
walkVars == <<call, cur, stop>>
vars == <<queueVars, walkVars, result>>

Queue == Base .. Base + NumQueues - 1
Pointer == Queue \cup {Null, UnlinkedTag}

Linked == {q \in Queue : next_nonempty[q] # UnlinkedTag}

Queued(t) == \E q \in Queue : Has(data[q], t)

Nothing == <<0, NoThread>>
NoPriority == -1

TypeOK ==
    /\ first \in Pointer
    /\ next_nonempty \in [Queue -> Pointer]
    /\ data \in [Queue -> Seq(Thread)]
    /\ call \in {"none", "get_first", "pop_first", "pop_first_better"}
    /\ cur \in Pointer /\ stop \in Queue
    /\ result \in ({NoPriority} \cup 0 .. NumQueues - 1) \X (Thread \cup {NoThread})

Init ==
    /\ first = Null
    /\ next_nonempty = [q \in Queue |-> UnlinkedTag]
    /\ data = [q \in Queue |-> <<>>]
    /\ call = "none" /\ cur = Null /\ stop = Base
    /\ result = Nothing

-----------------------------------------------------------------------------
(* Saved states hold indices instead of pointers *)

ToIndex(q) == IF q = Null THEN -2 ELSE IF q = UnlinkedTag THEN -1 ELSE q - Base

\* Mutant: the tag of an unlinked queue is loaded as null.
ToPointerUntagged(idx) == IF idx < 0 THEN Null ELSE Base + idx

ToPointer(idx) == IF idx = -1 THEN UnlinkedTag ELSE IF idx < 0 THEN Null ELSE Base + idx

\* The queue list is saved and then loaded.
SaveLoad ==
    /\ call = "none"
    /\ first' = ToPointer(ToIndex(first))
    /\ next_nonempty' = [q \in Queue |-> ToPointer(ToIndex(next_nonempty[q]))]
    /\ UNCHANGED <<data, walkVars, result>>

-----------------------------------------------------------------------------
(* The pops *)

Start(c, q) ==
    /\ call = "none"
    /\ call' = c /\ cur' = first /\ stop' = q
    /\ UNCHANGED <<queueVars, result>>

get_first == Start("get_first", stop)
pop_first == Start("pop_first", stop)

\* The scheduler passes the priority of a thread, whose queue is linked.
pop_first_better(q) == q \in Linked /\ Start("pop_first_better", q)

\* The condition of the while loop. A null pointer lies before every queue.
Looping == IF call = "pop_first_better" THEN cur < stop ELSE cur # Null

\* Mutant: the walk goes from a queue to the one behind it.
StepOver == cur' = cur + 1

\* cur = cur->next_nonempty
Step == cur' = next_nonempty[cur]

\* An empty queue is passed. (A pointer that is no queue cannot be followed.)
Walk ==
    /\ call # "none" /\ Looping /\ cur \in Queue
    /\ data[cur] = <<>>
    /\ Step
    /\ UNCHANGED <<queueVars, call, stop, result>>

Found ==
    /\ call # "none" /\ Looping /\ cur \in Queue
    /\ data[cur] # <<>>
    /\ IF call = "get_first"
       THEN result' = <<NoPriority, Head(data[cur])>> /\ UNCHANGED data
       ELSE /\ result' = <<ToIndex(cur), Head(data[cur])>>
            /\ data' = [data EXCEPT ![cur] = Tail(@)]
    /\ call' = "none"
    /\ UNCHANGED <<first, next_nonempty, cur, stop>>

NotFound ==
    /\ call # "none" /\ ~Looping
    /\ result' = IF call = "get_first" THEN <<NoPriority, NoThread>> ELSE Nothing
    /\ call' = "none"
    /\ UNCHANGED <<queueVars, cur, stop>>

-----------------------------------------------------------------------------
(* The other calls *)

\* The linked queues before q; the loop of link() finds the last of them.
Before(q) == {x \in Linked : x < q}
LastBefore(q) == CHOOSE x \in Before(q) : \A y \in Before(q) : y <= x

\* Mutant: the queue before q is chained to q, and q to nothing.
LinkCut(q) ==
    IF Before(q) = {}
    THEN first' = q /\ next_nonempty' = [next_nonempty EXCEPT ![q] = first]
    ELSE /\ next_nonempty' = [next_nonempty EXCEPT ![q] = Null, ![LastBefore(q)] = q]
         /\ UNCHANGED first

\* Mutant: q is chained to itself.
LinkSelf(q) ==
    IF Before(q) = {}
    THEN first' = q /\ next_nonempty' = [next_nonempty EXCEPT ![q] = first]
    ELSE /\ next_nonempty' = [next_nonempty EXCEPT ![q] = q, ![LastBefore(q)] = q]
         /\ UNCHANGED first

link(q) ==
    IF Before(q) = {}
    THEN first' = q /\ next_nonempty' = [next_nonempty EXCEPT ![q] = first]
    ELSE /\ next_nonempty' = [next_nonempty EXCEPT ![q] = next_nonempty[LastBefore(q)],
                                                  ![LastBefore(q)] = q]
         /\ UNCHANGED first

prepared(q) == IF q \in Linked THEN UNCHANGED <<first, next_nonempty>> ELSE link(q)

prepare(q) == call = "none" /\ prepared(q) /\ UNCHANGED <<data, walkVars, result>>

\* The scheduler pushes a thread that is in no queue, to a level that is linked
\* (Scheduler: ReadyIffQueued and LevelsLinked).
Pushed(q, t) ==
    /\ call = "none" /\ q \in Linked /\ ~Queued(t)
    /\ UNCHANGED <<first, next_nonempty, walkVars, result>>

push_front(q, t) == Pushed(q, t) /\ data' = [data EXCEPT ![q] = <<t>> \o @]

push_back(q, t) == Pushed(q, t) /\ data' = [data EXCEPT ![q] = Append(@, t)]

remove(q, t) ==
    /\ call = "none"
    /\ data' = [data EXCEPT ![q] = Without(@, t)]
    /\ UNCHANGED <<first, next_nonempty, walkVars, result>>

\* Mutant: the new level is not prepared.
MoveUnprepared(t, old, new) ==
    /\ call = "none" /\ Has(data[old], t)
    /\ LET removed == [data EXCEPT ![old] = Without(@, t)]
       IN  data' = [removed EXCEPT ![new] = Append(@, t)]
    /\ UNCHANGED <<first, next_nonempty, walkVars, result>>

\* SetPriority and BoostPriority move a thread that is in the queue old.
move(t, old, new) ==
    /\ call = "none" /\ Has(data[old], t)
    /\ LET removed == [data EXCEPT ![old] = Without(@, t)]
       IN  data' = [removed EXCEPT ![new] = Append(@, t)]
    /\ prepared(new)
    /\ UNCHANGED <<walkVars, result>>

rotate(q) ==
    /\ call = "none" /\ Len(data[q]) > 1
    /\ data' = [data EXCEPT ![q] = Append(Tail(@), Head(@))]
    /\ UNCHANGED <<first, next_nonempty, walkVars, result>>

clear ==
    /\ call = "none"
    /\ first' = Null
    /\ next_nonempty' = [q \in Queue |-> UnlinkedTag]
    /\ data' = [q \in Queue |-> <<>>]
    /\ UNCHANGED <<walkVars, result>>

WalkStep == Walk \/ Found \/ NotFound

Next ==
    \/ SaveLoad \/ get_first \/ pop_first \/ WalkStep \/ clear
    \/ \E q \in Queue : pop_first_better(q) \/ prepare(q) \/ rotate(q)
    \/ \E q \in Queue, t \in Thread : push_front(q, t) \/ push_back(q, t) \/ remove(q, t)
    \/ \E t \in Thread, old, new \in Queue : move(t, old, new)

Spec == Init /\ [][Next]_vars

\* The loop of a pop is plain code: it does not stop in the middle.
FairSpec == Spec /\ WF_vars(WalkStep)

-----------------------------------------------------------------------------
(* Properties *)

\* n points to the least queue of S, or nowhere when S is empty.
PointsToLeast(n, S) == IF S = {} THEN n = Null ELSE n \in S /\ \A x \in S : n <= x

\* The chain visits exactly the linked queues, each once, in the order of their
\* priorities, whatever the order in which link() met them.
ChainSorted ==
    /\ PointsToLeast(first, Linked)
    /\ \A q \in Linked : PointsToLeast(next_nonempty[q], {x \in Linked : x > q})

\* No walk follows a pointer that is not a queue. pop_first_better compares
\* addresses and has no test for null: it is right only because the queue of the
\* priority it is given is itself on the chain.
WalkStaysInside == call # "none" /\ Looping => cur \in Queue

\* The list behaves like one queue per priority: a pop that walks the chain,
\* linking and a saved state are not seen by the scheduler (ReadyQueue).
Abstract ==
    INSTANCE ReadyQueue WITH queues <- [p \in 0 .. NumQueues - 1 |-> data[Base + p]]

RefinesReadyQueue == Abstract!Spec

\* The walk of every pop ends.
WalkEnds == call # "none" ~> call = "none"

=============================================================================
