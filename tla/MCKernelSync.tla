---------------------------- MODULE MCKernelSync ----------------------------
(***************************************************************************)
(* Instances of KernelSync.                                                *)
(***************************************************************************)
EXTENDS KernelSync, TLC

CONSTANTS t1, t2, t3, m1, m2, s1, e1, e2

Symmetry == Permutations(Thread)

NoEvents == [e \in {} |-> "Sticky"]
NoCounts == [s \in {} |-> 0]

\* Three threads and two mutexes, one at a time or any of the two.
MutexLists == [t \in Thread |-> {<<m1>>, <<m2>>, <<m1, m2>>}]

\* Mutexes one at a time, without wait-all.
SingleLists == [t \in Thread |-> {<<m1>>, <<m2>>}]

\* Everything a thread may wait for: two threads, one of each object.
OneShotPulse == [e \in Event |-> IF e = e1 THEN "OneShot" ELSE "Pulse"]
UpAndDown == {1, -1}
MinusOne == -1
OneSlot == [s \in Semaphore |-> 1]
ObjectLists ==
    [t \in Thread |->
        {<<m1>>, <<s1>>, <<e1>>, <<m1, e1>>, <<s1, m1>>, <<e2>>, <<e2, m1>>, <<e1, e1>>, <<s1, s1>>}
        \cup {<<u>> : u \in Thread} \cup {<<m1, u>> : u \in Thread}]

=============================================================================
