---------------------------- MODULE MCScheduler ----------------------------
EXTENDS Scheduler, TLC
CONSTANTS t1, t2, t3, p1, p2

\* One core: three threads, two of one process, meet in one ready queue.
OneCoreOwner == t1 :> p1 @@ t2 :> p1 @@ t3 :> p2
OneCoreOf == t1 :> 0 @@ t2 :> 0 @@ t3 :> 0

\* The two threads of p1 are interchangeable.
OneCoreSymmetry == Permutations({t1, t2})

\* Two cores, one process with a thread on each.
PairOwner == t1 :> p1 @@ t2 :> p1
TwoCoreOf == t1 :> 0 @@ t2 :> 1
=============================================================================
