-------------------------- MODULE Scheduler_proofs --------------------------
(***************************************************************************)
(* The inductive invariant of Scheduler, lemmas about its operators (what  *)
(* they do to a queue, what PopNextReadyThread returns, what Reschedule    *)
(* and the operations on one thread preserve), that every step preserves   *)
(* the invariant, and what follows, for any number of threads, processes,  *)
(* cores and priorities.                                                   *)
(***************************************************************************)
EXTENDS Scheduler, Lists_lemmas

-----------------------------------------------------------------------------
(* What PopNextReadyThread returns *)

\* When some queued thread can be scheduled, the first one exists.
LEMMA FirstCandidateLemma ==
    ASSUME TypeOK, NEW c \in Core, NEW us, Candidates(c, us) # {}
    PROVE  /\ FirstCandidate(c, us) \in Candidates(c, us)
           /\ \A y \in Candidates(c, us) : Precedes(FirstCandidate(c, us), y)
<1> DEFINE K == Candidates(c, us)
<1>1. \A x \in K : x[1] \in Nat /\ x[2] \in Nat /\ x = <<x[1], x[2]>>
  <2> SUFFICES ASSUME NEW x \in K PROVE x[1] \in Nat /\ x[2] \in Nat /\ x = <<x[1], x[2]>>
    BY Zenon
  <2>1. x[1] \in linked[c] /\ x[2] \in DOMAIN ready_queue[<<c, x[1]>>] /\ x = <<x[1], x[2]>>
    BY DEF Candidates
  <2>2. x[1] \in Priority
    BY Zenon, <2>1 DEF TypeOK
  <2>3. <<c, x[1]>> \in Level
    BY Zenon, <2>2 DEF Level
  <2>4. ready_queue[<<c, x[1]>>] \in Seq(Thread)
    BY Zenon, <2>3 DEF TypeOK
  <2> QED
    BY <2>1, <2>2, <2>4, SchedulerAssumption DEF Priority
<1> HIDE DEF K
<1> DEFINE Ps == {x[1] : x \in K}
<1>2. PICK p \in Ps : \A q \in Ps : p <= q
  <2>1. Ps \subseteq Nat /\ Ps # {}
    BY Zenon, <1>1 DEF K
  <2> QED
    BY Zenon, <2>1, LeastNat
<1> DEFINE Is == {x[2] : x \in {y \in K : y[1] = p}}
<1>3. PICK i \in Is : \A j \in Is : i <= j
  <2>1. Is \subseteq Nat /\ Is # {}
    BY Zenon, <1>1, <1>2
  <2> QED
    BY Zenon, <2>1, LeastNat
<1>4. PICK x \in K : x[1] = p /\ x[2] = i
  BY Zenon, <1>3
<1>5. \A y \in K : Precedes(x, y)
  <2> SUFFICES ASSUME NEW y \in K PROVE Precedes(x, y)
    BY Zenon
  <2>1. y[1] \in Ps /\ (y[1] = p => y[2] \in Is)
    BY Zenon
  <2>2. p <= y[1] /\ (y[1] = p => i <= y[2])
    BY Zenon, <2>1, <1>2, <1>3
  <2>3. p \in Nat /\ y[1] \in Nat
    BY Zenon, <1>1, <1>4
  <2> QED
    BY <2>2, <2>3, <1>4 DEF Precedes
<1> QED
  BY Zenon, <1>4, <1>5 DEF FirstCandidate, K

\* What a thread taken off the queue satisfies.
LEMMA PoppedLemma ==
    ASSUME TypeOK, ReadyIffQueued, NEW c \in Core, NEW us
    PROVE  \/ Candidates(c, us) = {} /\ Popped(c, us) = NoThread
           \/ /\ Candidates(c, us) # {}
              /\ Popped(c, us) \in Thread
              /\ status[Popped(c, us)] = "Ready"
              /\ CoreOf[Popped(c, us)] = c
              /\ Popped(c, us) \notin us
<1>1. CASE Candidates(c, us) = {}
  BY Zenon, <1>1 DEF Popped
<1>2. CASE Candidates(c, us) # {}
  <2> DEFINE x == FirstCandidate(c, us)
             l == <<c, x[1]>>
             t == ready_queue[l][x[2]]
  <2>1. Popped(c, us) = t
    BY Zenon, <1>2 DEF Popped
  <2>2. x \in Candidates(c, us)
    BY Zenon, <1>2, FirstCandidateLemma
  <2> HIDE DEF x
  <2>3. x[1] \in linked[c] /\ x[2] \in DOMAIN ready_queue[l] /\ t \notin us
    BY Zenon, <2>2 DEF Candidates
  <2>4. l \in Level
    BY Zenon, <2>3 DEF TypeOK, Level
  <2>5. ready_queue[l] \in Seq(Thread)
    BY Zenon, <2>4 DEF TypeOK
  <2>6. t \in Thread /\ Has(ready_queue[l], t)
    BY <2>3, <2>5 DEF Has
  <2>7. status[t] = "Ready" /\ l = LevelOf(t)
    BY Zenon, <2>4, <2>6 DEF ReadyIffQueued
  <2>8. CoreOf[t] = c
    BY Zenon, <2>7 DEF LevelOf
  <2> QED
    BY Zenon, <1>2, <2>1, <2>3, <2>6, <2>7, <2>8
<1> QED
  BY Zenon, <1>1, <1>2

\* What the next thread of core c is: the current one, which runs on, or the
\* one that was popped, which is ready, or none.
LEMMA NextLemma ==
    ASSUME TypeOK, ReadyIffQueued, RunningIsCurrent, CurrentSettled, NEW c \in Core, NEW us
    PROVE  LET cur == current_thread[c]
               nx == PopNextReadyThread(c, us)
           IN  /\ nx \in Thread \cup {NoThread}
               /\ nx \in Thread => CoreOf[nx] = c
               /\ Switches(c, us) => /\ nx = Popped(c, us)
                                     /\ nx # NoThread => status[nx] = "Ready"
               /\ ~Switches(c, us) => /\ Popped(c, us) = NoThread
                                      /\ nx = cur
                                      /\ cur # NoThread => status[cur] = "Running"
<1> DEFINE cur == current_thread[c]
           nx == PopNextReadyThread(c, us)
<1>1. cur \in Thread \cup {NoThread}
  BY Zenon DEF TypeOK
<1>2. cur # NoThread => CoreOf[cur] = c /\ status[cur] # "Ready"
  BY Zenon DEF RunningIsCurrent, CurrentSettled
<1>3. CASE Candidates(c, us) = {} /\ KeepsRunning(c, us)
  <2>1. nx = cur /\ ~Switches(c, us)
    BY Zenon, <1>3 DEF PopNextReadyThread, Switches
  <2>2. Popped(c, us) = NoThread
    BY Zenon, <1>3 DEF Popped
  <2>3. cur # NoThread /\ status[cur] = "Running"
    BY Zenon, <1>3 DEF KeepsRunning
  <2> QED
    BY Zenon, <1>1, <1>2, <2>1, <2>2, <2>3
<1>4. CASE Candidates(c, us) = {} /\ ~KeepsRunning(c, us)
  <2>1. nx = NoThread /\ Popped(c, us) = NoThread
    BY Zenon, <1>4 DEF PopNextReadyThread, Popped
  <2>2. Switches(c, us) <=> cur # NoThread
    BY Zenon, <2>1 DEF Switches
  <2> QED
    BY Zenon, <2>1, <2>2, SchedulerAssumption
<1>5. CASE Candidates(c, us) # {}
  <2>1. nx = Popped(c, us)
    BY Zenon, <1>5 DEF PopNextReadyThread
  <2>2. nx \in Thread /\ status[nx] = "Ready" /\ CoreOf[nx] = c
    BY <1>5, <2>1, PoppedLemma
  <2>3. nx # cur /\ Switches(c, us)
    BY Zenon, <1>2, <2>2, SchedulerAssumption DEF Switches
  <2> QED
    BY Zenon, <2>1, <2>2, <2>3, SchedulerAssumption
<1> QED
  BY Zenon, <1>3, <1>4, <1>5

\* The queues of a core that is rescheduled.
LEMMA QueueAfterLemma ==
    ASSUME TypeOK, ReadyIffQueued, RunningIsCurrent, CurrentSettled,
           NEW l \in Level, NEW us, l[1] \in Core
    PROVE  /\ QueueAfter(l, us) \in Seq(Thread)
           /\ Distinct(QueueAfter(l, us))
           /\ \A t \in Thread :
                Has(QueueAfter(l, us), t) <=>
                  \/ Has(ready_queue[l], t) /\ t # Popped(l[1], us)
                  \/ /\ Preempted(l[1], us)
                     /\ t = current_thread[l[1]] /\ l = LevelOf(t)
<1> DEFINE c == l[1]
           cur == current_thread[c]
           q == Without(ready_queue[l], Popped(c, us))
<1>1. ready_queue[l] \in Seq(Thread) /\ Distinct(ready_queue[l])
  BY Zenon DEF TypeOK, ReadyIffQueued
<1>2. /\ q \in Seq(Thread) /\ Distinct(q)
      /\ \A x : Has(q, x) <=> Has(ready_queue[l], x) /\ x # Popped(c, us)
  BY <1>1, WithoutLemma
<1> HIDE DEF q
<1>3. CASE Preempted(c, us) /\ l = LevelOf(cur)
  <2>1. QueueAfter(l, us) = <<cur>> \o q
    BY Zenon, <1>3 DEF QueueAfter, q
  <2>2. cur \in Thread /\ status[cur] = "Running"
    BY Zenon, <1>3 DEF Preempted, TypeOK
  <2>3. ~Has(q, cur)
    BY <1>2, <2>2 DEF ReadyIffQueued
  <2>4. /\ <<cur>> \o q \in Seq(Thread) /\ Distinct(<<cur>> \o q)
        /\ \A x : Has(<<cur>> \o q, x) <=> Has(q, x) \/ x = cur
    BY <1>2, <2>2, <2>3, PrependLemma
  <2> QED
    BY Zenon, <1>2, <1>3, <2>1, <2>4
<1>4. CASE ~(Preempted(c, us) /\ l = LevelOf(cur))
  <2>1. QueueAfter(l, us) = q
    BY Zenon, <1>4 DEF QueueAfter, q
  <2> QED
    BY Zenon, <1>2, <1>4, <2>1
<1> QED
  BY Zenon, <1>3, <1>4

-----------------------------------------------------------------------------
(* The inductive invariant *)

\* A thread that runs has no timeout of its own on any timer.  That no wakeup of a
\* RunAsync job is on its way to it either follows below.
TimersCancelled ==
    \A t \in Thread : status[t] = "Running" => \A c \in Core : <<t, c>> \notin wakeup_event

AsyncTyped == async \in [Thread -> Async]

\* The threads that are listed have been created.
ListedExist == \A t \in thread_list : status[t] # "New"

IInv ==
    /\ TypeOK
    /\ ReadyIffQueued
    /\ LevelsLinked
    /\ RunningIsCurrent
    /\ CurrentSettled
    /\ TimersCancelled
    /\ NoSchedulerFault
    /\ ListedExist

\* The thread that Reschedule leaves alone, switches to or switches from.
LEMMA StatusLemma ==
    ASSUME IInv, NEW cs \in SUBSET Core, NEW us, Reschedule(cs, us), NEW t \in Thread
    PROVE  /\ CoreOf[t] \notin cs => status'[t] = status[t]
           /\ CoreOf[t] \in cs =>
                LET c == CoreOf[t]
                IN  \/ /\ Switches(c, us) /\ t = PopNextReadyThread(c, us)
                       /\ t = Popped(c, us) /\ status[t] = "Ready" /\ status'[t] = "Running"
                       /\ t # current_thread[c]
                    \/ /\ Preempted(c, us) /\ t = current_thread[c]
                       /\ status[t] = "Running" /\ status'[t] = "Ready"
                       /\ t # Popped(c, us)
                    \/ /\ status'[t] = status[t] /\ t # Popped(c, us)
                       /\ ~(Preempted(c, us) /\ t = current_thread[c])
<1>1. CASE CoreOf[t] \notin cs
  BY SMTT(20), <1>1 DEF Reschedule
<1>2. CASE CoreOf[t] \in cs
  <2> DEFINE c == CoreOf[t]
             nx == PopNextReadyThread(c, us)
  <2>1. c \in Core
    BY Zenon, <1>2
  <2>2. /\ Switches(c, us) => nx = Popped(c, us) /\ (nx # NoThread => status[nx] = "Ready")
        /\ ~Switches(c, us) => Popped(c, us) = NoThread
    BY Zenon, <2>1, NextLemma DEF IInv
  <2>3. status'[t] = StatusAfter(t, us)
    BY Zenon, <1>2 DEF Reschedule
  <2>4. Preempted(c, us) => Switches(c, us) /\ status[current_thread[c]] = "Running"
    BY Zenon DEF Preempted
  <2>5. Switches(c, us) => nx # current_thread[c]
    BY Zenon DEF Switches
  <2>6. t # NoThread
    BY Zenon, SchedulerAssumption
  <2>7. status'[t] = IF Switches(c, us) /\ t = nx THEN "Running"
                     ELSE IF Preempted(c, us) /\ t = current_thread[c] THEN "Ready"
                     ELSE status[t]
    BY Zenon, <2>3 DEF StatusAfter
  <2> HIDE DEF c, nx
  <2>8. CASE Switches(c, us) /\ t = nx
    BY <1>2, <2>2, <2>5, <2>6, <2>7, <2>8 DEF c, nx
  <2>9. CASE ~(Switches(c, us) /\ t = nx) /\ Preempted(c, us) /\ t = current_thread[c]
    BY Zenon, <1>2, <2>2, <2>4, <2>5, <2>6, <2>7, <2>9 DEF c, nx
  <2>10. CASE ~(Switches(c, us) /\ t = nx) /\ ~(Preempted(c, us) /\ t = current_thread[c])
    <3>1. status'[t] = status[t]
      BY Zenon, <2>7, <2>10
    <3>2. t # Popped(c, us)
      BY Zenon, <2>2, <2>6, <2>10
    <3> QED
      BY Zenon, <1>2, <2>10, <3>1, <3>2 DEF c
  <2> QED
    BY Zenon, <2>8, <2>9, <2>10
<1> QED
  BY Zenon, <1>1, <1>2

\* What Reschedule of any set of cores establishes and preserves.
LEMMA RescheduleLemma ==
    ASSUME IInv, NEW cs \in SUBSET Core, NEW us, Reschedule(cs, us)
    PROVE  /\ status' \in [Thread -> Status]
           /\ ready_queue' \in [Level -> Seq(Thread)]
           /\ current_thread' \in [Core -> Thread \cup {NoThread}]
           /\ wakeup_event' \in SUBSET (Thread \X Core)
           /\ fault' = fault
           /\ ReadyIffQueued'
           /\ LevelsLinked'
           /\ RunningIsCurrent'
           /\ TimersCancelled'
           /\ \A t \in Thread : status[t] # "New" => status'[t] # "New"
           /\ \A c \in cs : \/ current_thread'[c] = NoThread
                            \/ status'[current_thread'[c]] = "Running"
           /\ \A c \in Core \ cs :
                 /\ current_thread'[c] = current_thread[c]
                 /\ current_thread[c] # NoThread =>
                      status'[current_thread[c]] = status[current_thread[c]]
<1> USE DEF IInv
<1>1. /\ current_priority' = current_priority /\ linked' = linked
      /\ \A t \in Thread : LevelOf(t)' = LevelOf(t)
  BY Zenon DEF Reschedule, LevelOf
<1>2. \A c \in Core : /\ current_thread[c] \in Thread \cup {NoThread}
                      /\ current_thread[c] # NoThread => CoreOf[current_thread[c]] = c
  BY Zenon DEF TypeOK, RunningIsCurrent
<1>3. \A c \in Core : /\ c \in cs => current_thread'[c] = PopNextReadyThread(c, us)
                      /\ c \notin cs => current_thread'[c] = current_thread[c]
  BY Zenon DEF Reschedule
<1>4. status' \in [Thread -> Status]
  <2>1. status' = [t \in Thread |-> status'[t]]
    BY Zenon DEF Reschedule
  <2>2. \A t \in Thread : status'[t] \in Status
    BY Zenon, StatusLemma DEF TypeOK, Status
  <2> QED
    BY Zenon, <2>1, <2>2
<1>5. ASSUME NEW l \in Level
      PROVE  /\ ready_queue'[l] \in Seq(Thread)
             /\ Distinct(ready_queue'[l])
             /\ \A t \in Thread : Has(ready_queue'[l], t) <=>
                                    status'[t] = "Ready" /\ l = LevelOf(t)
  <2>0. l[1] \in Core
    BY Zenon DEF Level
  <2>1. CASE l[1] \notin cs
    <3>1. ready_queue'[l] = ready_queue[l]
      BY Zenon, <2>1 DEF Reschedule
    <3>2. \A t \in Thread : l = LevelOf(t) => status'[t] = status[t]
      BY <2>1, StatusLemma DEF LevelOf
    <3>3. \A t \in Thread : Has(ready_queue[l], t) <=> status[t] = "Ready" /\ l = LevelOf(t)
      BY Zenon DEF ReadyIffQueued
    <3> QED
      BY Zenon, <3>1, <3>2, <3>3 DEF TypeOK, ReadyIffQueued
  <2>2. CASE l[1] \in cs
    <3>1. ready_queue'[l] = QueueAfter(l, us)
      BY Zenon, <2>2 DEF Reschedule
    <3>2. ASSUME NEW t \in Thread
          PROVE  Has(QueueAfter(l, us), t) <=> status'[t] = "Ready" /\ l = LevelOf(t)
      <4>1. Has(QueueAfter(l, us), t) <=>
              \/ Has(ready_queue[l], t) /\ t # Popped(l[1], us)
              \/ Preempted(l[1], us) /\ t = current_thread[l[1]] /\ l = LevelOf(t)
        BY Zenon, <2>0, QueueAfterLemma
      <4>2. Has(ready_queue[l], t) <=> status[t] = "Ready" /\ l = LevelOf(t)
        BY Zenon DEF ReadyIffQueued
      <4>3. CASE l # LevelOf(t)
        BY Zenon, <4>1, <4>2, <4>3
      <4>4. CASE l = LevelOf(t)
        <5>1. l[1] = CoreOf[t]
          BY Zenon, <4>4 DEF LevelOf
        <5> QED
          BY <2>2, <4>1, <4>2, <4>4, <5>1, StatusLemma
      <4> QED
        BY Zenon, <4>3, <4>4
    <3> QED
      BY <2>0, <3>1, <3>2, QueueAfterLemma
  <2> QED
    BY Zenon, <2>1, <2>2
<1>6. ready_queue' \in [Level -> Seq(Thread)]
  <2>1. ready_queue' = [l \in Level |-> ready_queue'[l]]
    BY Zenon DEF Reschedule
  <2> QED
    BY Zenon, <1>5, <2>1
<1>7. ReadyIffQueued'
  BY Zenon, <1>1, <1>5 DEF ReadyIffQueued
<1>8. current_thread' \in [Core -> Thread \cup {NoThread}]
  <2>1. current_thread' = [c \in Core |-> current_thread'[c]]
    BY Zenon DEF Reschedule
  <2>2. \A c \in Core : current_thread'[c] \in Thread \cup {NoThread}
    BY <1>2, <1>3, NextLemma
  <2> QED
    BY Zenon, <2>1, <2>2
<1>9. \A c \in Core : current_thread'[c] # NoThread => CoreOf[current_thread'[c]] = c
  BY <1>2, <1>3, NextLemma
<1>10. \A t \in Thread : status[t] # "New" => status'[t] # "New"
  BY Zenon, StatusLemma
<1>11. LevelsLinked'
  <2>1. \A t \in Thread : status'[t] # "New" => status[t] # "New"
    BY Zenon, StatusLemma
  <2> QED
    BY Zenon, <1>1, <2>1 DEF LevelsLinked
<1>12. ASSUME NEW t \in Thread, status'[t] = "Running"
       PROVE  current_thread'[CoreOf[t]] = t
  <2> DEFINE c == CoreOf[t]
  <2>0. c \in Core
    BY SMTT(20), SchedulerAssumption
  <2>1. CASE c \notin cs
    BY <1>3, <1>12, <2>0, <2>1, StatusLemma DEF RunningIsCurrent, IsCurrent
  <2>2. CASE c \in cs /\ Switches(c, us) /\ t = PopNextReadyThread(c, us)
    BY Zenon, <1>3, <2>0, <2>2
  <2>3. CASE c \in cs /\ ~(Switches(c, us) /\ t = PopNextReadyThread(c, us))
    <3>1. status[t] = "Running" /\ ~(Preempted(c, us) /\ t = current_thread[c])
      BY <1>12, <2>3, StatusLemma
    <3>2. t = current_thread[c]
      BY Zenon, <3>1 DEF RunningIsCurrent, IsCurrent
    <3>3. ~Switches(c, us)
      BY Zenon, <3>1, <3>2, SchedulerAssumption DEF Preempted
    <3> QED
      BY Zenon, <1>3, <2>0, <2>3, <3>2, <3>3, NextLemma
  <2> QED
    BY Zenon, <2>1, <2>2, <2>3
<1>13. RunningIsCurrent'
  BY Zenon, <1>9, <1>12 DEF RunningIsCurrent, IsCurrent
<1>14. ASSUME NEW c \in cs, current_thread'[c] # NoThread
       PROVE  status'[current_thread'[c]] = "Running"
  <2> DEFINE t == current_thread'[c]
  <2>0. t \in Thread /\ CoreOf[t] = c /\ t = PopNextReadyThread(c, us)
    BY SMTT(20), <1>3, <1>8, <1>9, <1>14
  <2> HIDE DEF t
  <2>3. status'[t] = StatusAfter(t, us)
    <3>1. status' = [u \in Thread |-> IF CoreOf[u] \in cs THEN StatusAfter(u, us) ELSE status[u]]
      BY Zenon DEF Reschedule
    <3> QED
      BY Zenon, <2>0, <3>1
  <2>1. CASE Switches(c, us)
    <3>1. status'[t] = "Running"
      BY Zenon, <2>0, <2>1, <2>3 DEF StatusAfter
    <3> QED
      BY Zenon, <3>1 DEF t
  <2>2. CASE ~Switches(c, us)
    <3>1. t = current_thread[c] /\ status[t] = "Running"
      BY <1>14, <2>0, <2>2, NextLemma DEF t
    <3>2. ~Preempted(c, us)
      BY Zenon, <2>2 DEF Preempted
    <3>3. status'[t] = "Running"
      BY Zenon, <2>0, <2>2, <2>3, <3>1, <3>2 DEF StatusAfter
    <3> QED
      BY Zenon, <3>3 DEF t
  <2> QED
    BY Zenon, <2>1, <2>2
<1>15. ASSUME NEW c \in Core \ cs
       PROVE  /\ current_thread'[c] = current_thread[c]
              /\ current_thread[c] # NoThread =>
                   status'[current_thread[c]] = status[current_thread[c]]
  BY <1>2, <1>3, StatusLemma
<1>16. wakeup_event' \subseteq wakeup_event
  BY Zenon DEF Reschedule
<1>17. TimersCancelled'
  <2> SUFFICES ASSUME NEW t \in Thread, status'[t] = "Running", NEW d \in Core,
                      <<t, d>> \in wakeup_event'
               PROVE  FALSE
    BY SMTT(20) DEF TimersCancelled
  <2>1. <<t, d>> \in wakeup_event /\ <<t, d>> \notin Cancelled(cs, us)
    BY Zenon DEF Reschedule
  <2>2. status[t] # "Running"
    BY Zenon, <2>1 DEF TimersCancelled
  <2>3. CoreOf[t] \in cs /\ Switches(CoreOf[t], us) /\ t = PopNextReadyThread(CoreOf[t], us)
    BY <2>2, StatusLemma
  <2> QED
    BY Zenon, <2>1, <2>3 DEF Cancelled
<1>18. fault' = fault
  <2>1. \A c \in cs : ~WalksOffQueue(c, us)
    <3> SUFFICES ASSUME NEW c \in cs, WalksOffQueue(c, us) PROVE FALSE
      BY Zenon
    <3> DEFINE cur == current_thread[c]
    <3>1. /\ cur # NoThread /\ status[cur] = "Running"
          /\ \A p \in linked[c] : p < current_priority[cur]
      BY Zenon DEF WalksOffQueue, KeepsRunning
    <3>2. cur \in Thread /\ CoreOf[cur] = c
      BY Zenon, <1>2, <3>1
    <3>3. current_priority[cur] \in linked[c]
      BY Zenon, <3>1, <3>2 DEF LevelsLinked
    <3>4. current_priority[cur] \in Nat
      BY <3>2, SchedulerAssumption DEF TypeOK, Priority
    <3> QED
      BY <3>1, <3>3, <3>4
  <2>2. \A c \in cs : Switches(c, us) /\ PopNextReadyThread(c, us) # NoThread
                        => status[PopNextReadyThread(c, us)] = "Ready"
    BY Zenon, NextLemma
  <2> QED
    BY Zenon, <2>1, <2>2 DEF Reschedule
<1> QED
  BY Zenon, <1>4, <1>6, <1>7, <1>8, <1>10, <1>11, <1>13, <1>14, <1>15, <1>16, <1>17, <1>18 DEF TypeOK

-----------------------------------------------------------------------------
(* What the operations on a thread preserve *)

\* A thread that waits, and is not the current thread of a core, is woken.
LEMMA ResumeLemma ==
    ASSUME IInv, NEW t \in Thread, status[t] \in {"Wait", "Dormant"}, ~IsCurrent(t),
           ResumeFromWait(t)
    PROVE  /\ status' \in [Thread -> Status]
           /\ ready_queue' \in [Level -> Seq(Thread)]
           /\ reschedule_pending' \in BOOLEAN /\ halted' \in BOOLEAN
           /\ ReadyIffQueued' /\ LevelsLinked' /\ RunningIsCurrent'
           /\ \A u \in Thread : status[u] # "New" => status'[u] # "New"
           /\ \A u \in Thread : status'[u] = "Running" => status[u] = "Running"
           /\ \A c \in Core : current_thread[c] # NoThread =>
                 status'[current_thread[c]] = status[current_thread[c]]
<1> USE DEF IInv
<1>1. /\ status' = [status EXCEPT ![t] = "Ready"]
      /\ ready_queue' = [ready_queue EXCEPT ![LevelOf(t)] = Append(@, t)]
      /\ current_priority' = current_priority /\ linked' = linked
      /\ current_thread' = current_thread
      /\ \A u \in Thread : LevelOf(u)' = LevelOf(u)
  BY Zenon DEF ResumeFromWait, push_back, LevelOf
<1>2. LevelOf(t) \in Level
  BY Zenon, SchedulerAssumption DEF TypeOK, LevelOf, Level
<1>3. \A u \in Thread : status'[u] = IF u = t THEN "Ready" ELSE status[u]
  BY Zenon, <1>1 DEF TypeOK
<1>4. ASSUME NEW l \in Level
      PROVE  /\ ready_queue'[l] \in Seq(Thread) /\ Distinct(ready_queue'[l])
             /\ \A u \in Thread : Has(ready_queue'[l], u) <=>
                                    status'[u] = "Ready" /\ l = LevelOf(u)
  <2>1. ready_queue[l] \in Seq(Thread) /\ Distinct(ready_queue[l]) /\ ~Has(ready_queue[l], t)
    BY Zenon DEF TypeOK, ReadyIffQueued
  <2>2. CASE l = LevelOf(t)
    <3>1. ready_queue'[l] = Append(ready_queue[l], t)
      BY Zenon, <1>1, <1>2, <2>2 DEF TypeOK
    <3>2. /\ Append(ready_queue[l], t) \in Seq(Thread)
          /\ Distinct(Append(ready_queue[l], t))
          /\ \A x : Has(Append(ready_queue[l], t), x) <=> Has(ready_queue[l], x) \/ x = t
      BY Zenon, <2>1, AppendLemma
    <3> QED
      BY <1>3, <2>1, <2>2, <3>1, <3>2 DEF ReadyIffQueued
  <2>3. CASE l # LevelOf(t)
    <3>1. ready_queue'[l] = ready_queue[l]
      BY Zenon, <1>1, <2>3 DEF TypeOK
    <3> QED
      BY Zenon, <1>3, <2>1, <2>3, <3>1 DEF ReadyIffQueued
  <2> QED
    BY Zenon, <2>2, <2>3
<1>5. status' \in [Thread -> Status]
  BY Zenon, <1>1 DEF TypeOK, Status
<1>6. ready_queue' \in [Level -> Seq(Thread)]
  <2>1. ready_queue' = [l \in Level |-> ready_queue'[l]]
    BY Zenon, <1>1 DEF TypeOK
  <2> QED
    BY Zenon, <1>4, <2>1
<1>7. ReadyIffQueued'
  BY Zenon, <1>1, <1>4 DEF ReadyIffQueued
<1>8. LevelsLinked'
  BY Zenon, <1>1, <1>3 DEF LevelsLinked
<1>9. RunningIsCurrent'
  BY <1>1, <1>3 DEF RunningIsCurrent, IsCurrent
<1>10. reschedule_pending' \in BOOLEAN /\ halted' \in BOOLEAN
  BY Zenon DEF ResumeFromWait, PrepareReschedule, TypeOK
<1>11. \A c \in Core : current_thread[c] # NoThread =>
          status'[current_thread[c]] = status[current_thread[c]]
  BY <1>3 DEF TypeOK, RunningIsCurrent, IsCurrent
<1> QED
  BY Zenon, <1>3, <1>5, <1>6, <1>7, <1>8, <1>9, <1>10, <1>11

\* The priority of a thread changes.
LEMMA PriorityLemma ==
    ASSUME IInv, NEW t \in Thread, NEW p \in Priority, SetPriority(t, p)
    PROVE  /\ current_priority' \in [Thread -> Priority]
           /\ ready_queue' \in [Level -> Seq(Thread)]
           /\ linked' \in [Core -> SUBSET Priority]
           /\ ReadyIffQueued' /\ LevelsLinked'
<1> USE DEF IInv
<1>1. /\ status' = status
      /\ current_priority' = [current_priority EXCEPT ![t] = p]
      /\ linked' = [linked EXCEPT ![CoreOf[t]] = @ \cup {p}]
      /\ ready_queue' = IF status[t] = "Ready" THEN move(t, p) ELSE ready_queue
  BY Zenon DEF SetPriority, prepare
<1>2. CoreOf[t] \in Core
  BY Zenon, SchedulerAssumption
<1>3. /\ LevelOf(t)' = <<CoreOf[t], p>>
      /\ \A u \in Thread : u # t => LevelOf(u)' = LevelOf(u)
  BY Zenon, <1>1 DEF TypeOK, LevelOf
<1>4. ASSUME NEW l \in Level
      PROVE  /\ ready_queue'[l] \in Seq(Thread) /\ Distinct(ready_queue'[l])
             /\ \A u \in Thread : Has(ready_queue'[l], u) <=>
                                    status[u] = "Ready" /\ l = LevelOf(u)'
  <2> DEFINE q == ready_queue[l]
             w == Without(q, t)
  <2>1. /\ q \in Seq(Thread) /\ Distinct(q)
        /\ \A u \in Thread : Has(q, u) <=> status[u] = "Ready" /\ l = LevelOf(u)
    BY Zenon DEF TypeOK, ReadyIffQueued
  <2>2. CASE status[t] # "Ready"
    <3>1. ready_queue'[l] = q
      BY Zenon, <1>1, <2>2
    <3> QED
      BY Zenon, <1>3, <2>1, <2>2, <3>1
  <2>3. CASE status[t] = "Ready"
    <3>1. /\ w \in Seq(Thread) /\ Distinct(w)
          /\ \A x : Has(w, x) <=> Has(q, x) /\ x # t
      BY Zenon, <2>1, WithoutLemma
    <3>2. ready_queue'[l] = IF l = <<CoreOf[t], p>> THEN Append(w, t)
                            ELSE IF l = LevelOf(t) THEN w ELSE q
      BY Zenon, <1>1, <2>3 DEF move
    <3> HIDE DEF w, q
    <3>3. CASE l = <<CoreOf[t], p>>
      <4>1. /\ Append(w, t) \in Seq(Thread) /\ Distinct(Append(w, t))
            /\ \A x : Has(Append(w, t), x) <=> Has(w, x) \/ x = t
        BY Zenon, <3>1, AppendLemma
      <4> QED
        BY Zenon, <1>3, <2>1, <2>3, <3>1, <3>2, <3>3, <4>1
    <3>4. CASE l # <<CoreOf[t], p>> /\ l = LevelOf(t)
      BY Zenon, <1>3, <2>1, <2>3, <3>1, <3>2, <3>4
    <3>5. CASE l # <<CoreOf[t], p>> /\ l # LevelOf(t)
      BY Zenon, <1>3, <2>1, <2>3, <3>2, <3>5
    <3> QED
      BY Zenon, <3>3, <3>4, <3>5
  <2> QED
    BY Zenon, <2>2, <2>3
<1>5. ready_queue' \in [Level -> Seq(Thread)]
  <2>1. ready_queue' = [l \in Level |-> ready_queue'[l]]
    BY Zenon, <1>1 DEF TypeOK, move
  <2> QED
    BY Zenon, <1>4, <2>1
<1>6. ReadyIffQueued'
  BY Zenon, <1>1, <1>4 DEF ReadyIffQueued
<1>7. linked' \in [Core -> SUBSET Priority]
  BY Zenon, <1>1, <1>2 DEF TypeOK
<1>8. LevelsLinked'
  BY <1>1, <1>2 DEF LevelsLinked, TypeOK
<1>9. current_priority' \in [Thread -> Priority]
  BY Zenon, <1>1 DEF TypeOK
<1> QED
  BY Zenon, <1>5, <1>6, <1>7, <1>8, <1>9

\* A thread is created.
LEMMA CreateLemma ==
    ASSUME IInv, NEW t \in Thread, NEW p \in Priority, NEW st \in {"Ready", "Dormant", "Wait"},
           CreateThread(t, p, st)
    PROVE  /\ status' \in [Thread -> Status]
           /\ current_priority' \in [Thread -> Priority]
           /\ ready_queue' \in [Level -> Seq(Thread)]
           /\ linked' \in [Core -> SUBSET Priority]
           /\ thread_list' \in SUBSET Thread /\ wakeup_callback_table' \in SUBSET Thread
           /\ ReadyIffQueued' /\ LevelsLinked' /\ RunningIsCurrent' /\ ListedExist'
           /\ status'[t] = st
           /\ \A u \in Thread : u # t => status'[u] = status[u]
           /\ \A c \in Core : current_thread[c] # NoThread =>
                 status'[current_thread[c]] = status[current_thread[c]]
<1> USE DEF IInv
<1>1. /\ status[t] = "New"
      /\ status' = [status EXCEPT ![t] = st]
      /\ current_priority' = [current_priority EXCEPT ![t] = p]
      /\ linked' = [linked EXCEPT ![CoreOf[t]] = @ \cup {p}]
      /\ ready_queue' = IF st = "Ready"
                        THEN [ready_queue EXCEPT ![<<CoreOf[t], p>>] = Append(@, t)]
                        ELSE ready_queue
      /\ thread_list' = thread_list \cup {t}
      /\ wakeup_callback_table' = wakeup_callback_table \cup {t}
      /\ current_thread' = current_thread
  BY Zenon DEF CreateThread, prepare
<1>2. CoreOf[t] \in Core /\ <<CoreOf[t], p>> \in Level
  BY Zenon, SchedulerAssumption DEF Level
<1>3. /\ LevelOf(t)' = <<CoreOf[t], p>>
      /\ \A u \in Thread : u # t => LevelOf(u)' = LevelOf(u)
  BY Zenon, <1>1 DEF TypeOK, LevelOf
<1>4. \A u \in Thread : status'[u] = IF u = t THEN st ELSE status[u]
  BY Zenon, <1>1 DEF TypeOK
<1>5. ASSUME NEW l \in Level
      PROVE  /\ ready_queue'[l] \in Seq(Thread) /\ Distinct(ready_queue'[l])
             /\ \A u \in Thread : Has(ready_queue'[l], u) <=>
                                    status'[u] = "Ready" /\ l = LevelOf(u)'
  <2> DEFINE q == ready_queue[l]
  <2>1. /\ q \in Seq(Thread) /\ Distinct(q)
        /\ \A u \in Thread : Has(q, u) <=> status[u] = "Ready" /\ l = LevelOf(u)
    BY Zenon DEF TypeOK, ReadyIffQueued
  <2>2. ~Has(q, t)
    BY Zenon, <1>1, <2>1
  <2>3. CASE st = "Ready" /\ l = <<CoreOf[t], p>>
    <3>1. ready_queue'[l] = Append(q, t)
      BY Zenon, <1>1, <1>2, <2>3 DEF TypeOK
    <3>2. /\ Append(q, t) \in Seq(Thread) /\ Distinct(Append(q, t))
          /\ \A x : Has(Append(q, t), x) <=> Has(q, x) \/ x = t
      BY <2>1, <2>2, AppendLemma
    <3> QED
      BY Zenon, <1>3, <1>4, <2>1, <2>2, <2>3, <3>1, <3>2
  <2>4. CASE ~(st = "Ready" /\ l = <<CoreOf[t], p>>)
    <3>1. ready_queue'[l] = q
      BY Zenon, <1>1, <2>4 DEF TypeOK
    <3> QED
      BY Zenon, <1>3, <1>4, <2>1, <2>2, <2>4, <3>1
  <2> QED
    BY Zenon, <2>3, <2>4
<1>6. ready_queue' \in [Level -> Seq(Thread)]
  <2>1. ready_queue' = [l \in Level |-> ready_queue'[l]]
    BY Zenon, <1>1 DEF TypeOK
  <2> QED
    BY Zenon, <1>5, <2>1
<1>7. ReadyIffQueued'
  BY Zenon, <1>5 DEF ReadyIffQueued
<1>8. status' \in [Thread -> Status] /\ current_priority' \in [Thread -> Priority]
  BY Zenon, <1>1 DEF TypeOK, Status
<1>9. linked' \in [Core -> SUBSET Priority]
  BY Zenon, <1>1, <1>2 DEF TypeOK
<1>10. LevelsLinked'
  BY <1>1, <1>2, <1>4 DEF LevelsLinked, TypeOK
<1>11. \A c \in Core : current_thread[c] # t
  BY Zenon, <1>1, SchedulerAssumption DEF CurrentSettled
<1>12. RunningIsCurrent'
  BY Zenon, <1>1, <1>4 DEF RunningIsCurrent, IsCurrent
<1>13. ListedExist' /\ thread_list' \in SUBSET Thread /\ wakeup_callback_table' \in SUBSET Thread
  BY Zenon, <1>1, <1>4 DEF ListedExist, TypeOK
<1> QED
  BY Zenon, <1>4, <1>6, <1>7, <1>8, <1>9, <1>10, <1>11, <1>12, <1>13 DEF TypeOK

\* A thread that exists is stopped.
LEMMA StopLemma ==
    ASSUME IInv, NEW t \in Thread, status[t] # "New", StopThread(t)
    PROVE  /\ status' \in [Thread -> Status]
           /\ ready_queue' \in [Level -> Seq(Thread)]
           /\ thread_list' \in SUBSET Thread /\ wakeup_callback_table' \in SUBSET Thread
           /\ wakeup_event' \in SUBSET (Thread \X Core)
           /\ ReadyIffQueued' /\ LevelsLinked' /\ RunningIsCurrent'
           /\ TimersCancelled' /\ ListedExist'
           /\ \A u \in Thread : status'[u] = IF u = t THEN "Dead" ELSE status[u]
<1> USE DEF IInv
<1>1. /\ status' = [status EXCEPT ![t] = "Dead"]
      /\ current_priority' = current_priority /\ linked' = linked
      /\ ready_queue' = IF status[t] = "Ready"
                        THEN [ready_queue EXCEPT ![LevelOf(t)] = Without(@, t)]
                        ELSE ready_queue
      /\ thread_list' = thread_list \ {t}
      /\ wakeup_callback_table' = wakeup_callback_table \ {t}
      /\ wakeup_event' \subseteq wakeup_event
      /\ current_thread' = current_thread
      /\ \A u \in Thread : LevelOf(u)' = LevelOf(u)
  BY Zenon DEF StopThread, remove, LevelOf
<1>2. LevelOf(t) \in Level
  BY Zenon, SchedulerAssumption DEF TypeOK, LevelOf, Level
<1>3. \A u \in Thread : status'[u] = IF u = t THEN "Dead" ELSE status[u]
  BY Zenon, <1>1 DEF TypeOK
<1>4. ASSUME NEW l \in Level
      PROVE  /\ ready_queue'[l] \in Seq(Thread) /\ Distinct(ready_queue'[l])
             /\ \A u \in Thread : Has(ready_queue'[l], u) <=>
                                    status'[u] = "Ready" /\ l = LevelOf(u)
  <2> DEFINE q == ready_queue[l]
  <2>1. /\ q \in Seq(Thread) /\ Distinct(q)
        /\ \A u \in Thread : Has(q, u) <=> status[u] = "Ready" /\ l = LevelOf(u)
    BY Zenon DEF TypeOK, ReadyIffQueued
  <2>2. CASE status[t] = "Ready" /\ l = LevelOf(t)
    <3>1. ready_queue'[l] = Without(q, t)
      BY Zenon, <1>1, <1>2, <2>2 DEF TypeOK
    <3>2. /\ Without(q, t) \in Seq(Thread) /\ Distinct(Without(q, t))
          /\ \A x : Has(Without(q, t), x) <=> Has(q, x) /\ x # t
      BY Zenon, <2>1, WithoutLemma
    <3> QED
      BY Zenon, <1>3, <2>1, <2>2, <3>1, <3>2
  <2>3. CASE ~(status[t] = "Ready" /\ l = LevelOf(t))
    <3>1. ready_queue'[l] = q
      BY Zenon, <1>1, <2>3 DEF TypeOK
    <3> QED
      BY Zenon, <1>3, <2>1, <2>3, <3>1
  <2> QED
    BY Zenon, <2>2, <2>3
<1>5. ready_queue' \in [Level -> Seq(Thread)]
  <2>1. ready_queue' = [l \in Level |-> ready_queue'[l]]
    BY Zenon, <1>1 DEF TypeOK
  <2> QED
    BY Zenon, <1>4, <2>1
<1>6. ReadyIffQueued'
  BY Zenon, <1>1, <1>4 DEF ReadyIffQueued
<1>7. status' \in [Thread -> Status] /\ wakeup_event' \in SUBSET (Thread \X Core)
  BY Zenon, <1>1 DEF TypeOK, Status
<1>8. LevelsLinked'
  BY Zenon, <1>1, <1>3 DEF LevelsLinked
<1>9. RunningIsCurrent'
  BY <1>1, <1>3 DEF RunningIsCurrent, IsCurrent
<1>10. TimersCancelled'
  BY <1>1, <1>3 DEF TimersCancelled
<1>11. ListedExist' /\ thread_list' \in SUBSET Thread /\ wakeup_callback_table' \in SUBSET Thread
  BY Zenon, <1>1, <1>3 DEF ListedExist, TypeOK
<1> QED
  BY Zenon, <1>3, <1>5, <1>6, <1>7, <1>8, <1>9, <1>10, <1>11

-----------------------------------------------------------------------------
(* Every step preserves the invariant *)

\* Core numbers are naturals, and every core but the last has a next one.
LEMMA CoreFacts ==
    /\ NumCores \in Nat /\ 0 \in Core
    /\ \A c \in Core : c # NumCores - 1 => c + 1 \in Core
<1>1. NumCores \in Nat /\ NumCores # 0
  BY Zenon, SchedulerAssumption
<1> QED
  BY <1>1 DEF Core

\* The system starts with nothing queued, running or waiting.
LEMMA InitLemma == Init => IInv
<1> SUFFICES ASSUME Init PROVE IInv
  BY Zenon
<1> USE SchedulerAssumption DEF Init
<1>1. TypeOK
  <2>1. /\ status \in [Thread -> Status] /\ phase \in Phase /\ fault \in Fault
        /\ async \in [Thread -> Async]
    BY Zenon DEF Status, Phase, Fault, Async
  <2>2. current_priority \in [Thread -> Priority]
    BY DEF Priority
  <2>3. ready_queue \in [Level -> Seq(Thread)] /\ linked \in [Core -> SUBSET Priority]
    OBVIOUS
  <2>4. running_core \in Core
    BY Zenon, CoreFacts
  <2> QED
    BY Zenon, <2>1, <2>2, <2>3, <2>4 DEF TypeOK
<1>2. ReadyIffQueued
  <2>1. \A l \in Level : ready_queue[l] = <<>>
    BY Zenon
  <2>2. \A t \in Thread : status[t] # "Ready"
    BY Zenon
  <2> QED
    BY <2>1, <2>2 DEF ReadyIffQueued, Has, Distinct
<1>3. LevelsLinked /\ RunningIsCurrent /\ CurrentSettled /\ TimersCancelled
  BY Zenon DEF LevelsLinked, RunningIsCurrent, CurrentSettled, TimersCancelled
<1>4. NoSchedulerFault /\ ListedExist
  BY Zenon DEF NoSchedulerFault, ListedExist
<1> QED
  BY Zenon, <1>1, <1>2, <1>3, <1>4 DEF IInv

\* While no core executes, every current thread runs or is dead.
LEMMA NotHaltedLemma ==
    ASSUME IInv, ~halted
    PROVE  \A c \in Core : \/ current_thread[c] = NoThread
                           \/ status[current_thread[c]] \in {"Running", "Dead"}
BY Zenon DEF IInv, CurrentSettled

\* The steps of RunLoop that do not touch a thread.
LEMMA SyncLemma ==
    ASSUME IInv, AsyncTyped', NotBehind \/ FoundBehind
    PROVE  IInv'
<1> USE DEF IInv
<1>1. UNCHANGED <<status, current_priority, ready_queue, linked, current_thread, thread_list,
                  wakeup_callback_table, wakeup_event, unscheduled, process_status,
                  terminating, reschedule_pending, halted, fault>>
  BY Zenon DEF NotBehind, FoundBehind, threadVars, tableVars, procVars
<1>2. ~halted
  BY Zenon DEF NotBehind, FoundBehind, CurrentSettled
<1>3. running_core' \in Core /\ behind' \in SUBSET Core /\ phase' \in Phase
  BY Zenon, CoreFacts DEF NotBehind, FoundBehind, TypeOK, LastCore, Phase
<1>4. TypeOK'
  BY Zenon, <1>1, <1>3 DEF TypeOK, AsyncTyped
<1>5. ReadyIffQueued' /\ LevelsLinked' /\ RunningIsCurrent'
  BY Zenon, <1>1 DEF ReadyIffQueued, LevelsLinked, RunningIsCurrent, LevelOf, IsCurrent
<1>6. CurrentSettled'
  BY Zenon, <1>1, <1>2, NotHaltedLemma DEF CurrentSettled
<1>7. TimersCancelled' /\ NoSchedulerFault' /\ ListedExist'
  BY Zenon, <1>1 DEF TimersCancelled, NoSchedulerFault, ListedExist
<1> QED
  BY Zenon, <1>4, <1>5, <1>6, <1>7

\* A reschedule of the cores cs after which no core is halted.
LEMMA RescheduleStepLemma ==
    ASSUME IInv, AsyncTyped', NEW cs \in SUBSET Core, NEW us, Reschedule(cs, us),
           ~halted \/ running_core \in cs, halted' = FALSE,
           UNCHANGED <<thread_list, wakeup_callback_table, procVars>>,
           unscheduled' \in SUBSET Thread, phase' \in Phase, running_core' \in Core,
           behind' \in SUBSET Core, reschedule_pending' \in BOOLEAN
    PROVE  IInv'
<1> USE DEF IInv
<1>1. current_priority' = current_priority /\ linked' = linked
  BY Zenon DEF Reschedule
<1>2. TypeOK'
  BY Zenon, <1>1, RescheduleLemma DEF TypeOK, procVars, AsyncTyped
<1>3. ReadyIffQueued' /\ LevelsLinked' /\ RunningIsCurrent' /\ TimersCancelled'
  BY Zenon, RescheduleLemma
<1>4. CurrentSettled'
  <2> SUFFICES ASSUME NEW c \in Core, current_thread'[c] # NoThread
               PROVE  status'[current_thread'[c]] \in {"Running", "Dead"}
    BY Zenon DEF CurrentSettled
  <2>1. CASE c \in cs
    BY Zenon, <2>1, RescheduleLemma
  <2>2. CASE c \notin cs
    <3>1. /\ current_thread'[c] = current_thread[c]
          /\ status'[current_thread[c]] = status[current_thread[c]]
      BY Zenon, <2>2, RescheduleLemma
    <3>2. status[current_thread[c]] \in {"Running", "Dead"}
      BY Zenon, <2>2, <3>1 DEF CurrentSettled
    <3> QED
      BY Zenon, <3>1, <3>2
  <2> QED
    BY Zenon, <2>1, <2>2
<1>5. NoSchedulerFault'
  BY Zenon, RescheduleLemma DEF NoSchedulerFault
<1>6. ListedExist'
  BY Zenon, RescheduleLemma DEF ListedExist, TypeOK
<1> QED
  BY Zenon, <1>2, <1>3, <1>4, <1>5, <1>6

\* RunLoop reschedules a core, to catch up or after Advance.
LEMMA LoopRescheduleLemma ==
    ASSUME IInv, AsyncTyped', SyncReschedule \/ AdvanceReschedule
    PROVE  IInv'
<1> USE DEF IInv
<1>1. ~halted /\ halted' = FALSE
  BY Zenon DEF SyncReschedule, AdvanceReschedule, CurrentSettled, TypeOK
<1>2. /\ running_core \in Core /\ running_core' \in Core
      /\ phase' \in Phase /\ behind' \in SUBSET Core
  BY Zenon, CoreFacts DEF SyncReschedule, AdvanceReschedule, TypeOK, LastCore, Phase
<1>3. {running_core} \in SUBSET Core /\ Reschedule({running_core}, unscheduled)
  BY Zenon, <1>2 DEF SyncReschedule, AdvanceReschedule
<1>4. /\ UNCHANGED <<thread_list, wakeup_callback_table, procVars>>
      /\ unscheduled' \in SUBSET Thread /\ reschedule_pending' \in BOOLEAN
  BY Zenon DEF SyncReschedule, AdvanceReschedule, TypeOK
<1> HIDE DEF IInv
<1> QED
  BY Zenon, <1>1, <1>2, <1>3, <1>4, RescheduleStepLemma

\* The slice of a core ends: its pending reschedule is done and RunLoop goes on.
LEMMA EndSliceLemma ==
    ASSUME IInv, AsyncTyped', EndSlice
    PROVE  IInv'
<1> USE DEF IInv
<1>1. /\ running_core \in Core /\ running_core' \in Core
      /\ phase' \in Phase /\ behind' \in SUBSET Core
  BY Zenon, CoreFacts DEF EndSlice, TypeOK, LastCore, Phase
<1>2. /\ halted' = FALSE /\ reschedule_pending' \in BOOLEAN
      /\ UNCHANGED <<thread_list, wakeup_callback_table, procVars, unscheduled>>
  BY Zenon DEF EndSlice
<1>3. CASE reschedule_pending \/ current_thread[running_core] = NoThread
  <2>1. Reschedule({running_core}, unscheduled) /\ {running_core} \in SUBSET Core
    BY Zenon, <1>1, <1>3 DEF EndSlice
  <2>2. unscheduled' \in SUBSET Thread
    BY Zenon, <1>2 DEF TypeOK
  <2> HIDE DEF IInv
  <2> QED
    BY Zenon, <1>1, <1>2, <2>1, <2>2, RescheduleStepLemma
<1>4. CASE ~(reschedule_pending \/ current_thread[running_core] = NoThread)
  <2>1. UNCHANGED <<status, current_priority, ready_queue, linked, current_thread,
                    wakeup_event, fault>>
    BY Zenon, <1>4 DEF EndSlice, threadVars
  <2>2. ~halted
    BY Zenon, <1>4 DEF CurrentSettled
  <2>3. TypeOK'
    BY Zenon, <1>1, <1>2, <2>1 DEF TypeOK, procVars, AsyncTyped
  <2>4. ReadyIffQueued' /\ LevelsLinked' /\ RunningIsCurrent'
    BY Zenon, <2>1 DEF ReadyIffQueued, LevelsLinked, RunningIsCurrent, LevelOf, IsCurrent
  <2>5. CurrentSettled'
    BY Zenon, <1>2, <2>1, <2>2, NotHaltedLemma DEF CurrentSettled
  <2>6. TimersCancelled' /\ NoSchedulerFault' /\ ListedExist'
    BY Zenon, <1>2, <2>1 DEF TimersCancelled, NoSchedulerFault, ListedExist
  <2> QED
    BY Zenon, <2>3, <2>4, <2>5, <2>6
<1> QED
  BY Zenon, <1>3, <1>4

\* A wakeup: a timeout, an event or a signal by the running thread.
LEMMA ResumeStepLemma ==
    ASSUME IInv, AsyncTyped', NEW t \in Thread, status[t] \in {"Wait", "Dormant"}, ~IsCurrent(t),
           ResumeFromWait(t), wakeup_event' \subseteq wakeup_event,
           UNCHANGED <<thread_list, wakeup_callback_table, unscheduled, procVars,
                       phase, running_core, behind, fault>>
    PROVE  IInv'
<1> USE DEF IInv
<1>1. /\ current_priority' = current_priority /\ linked' = linked
      /\ current_thread' = current_thread
      /\ reschedule_pending' = TRUE /\ halted' = (halted \/ Executing)
  BY Zenon DEF ResumeFromWait, PrepareReschedule
<1>2. TypeOK'
  BY Zenon, <1>1, ResumeLemma DEF TypeOK, procVars, AsyncTyped
<1>3. ReadyIffQueued' /\ LevelsLinked' /\ RunningIsCurrent'
  BY Zenon, ResumeLemma
<1>4. \A c \in Core : current_thread[c] # NoThread =>
         status'[current_thread[c]] = status[current_thread[c]]
  BY Zenon, ResumeLemma
<1>5. CurrentSettled'
  BY Zenon, <1>1, <1>4 DEF CurrentSettled, Executing
<1>6. TimersCancelled'
  BY Zenon, ResumeLemma DEF TimersCancelled
<1>7. NoSchedulerFault' /\ ListedExist'
  BY Zenon, ResumeLemma DEF NoSchedulerFault, ListedExist, TypeOK
<1> QED
  BY Zenon, <1>2, <1>3, <1>5, <1>6, <1>7

\* No core is halted while events fire.
LEMMA AdvancingLemma ==
    ASSUME IInv, Advancing
    PROVE  ~halted
BY Zenon DEF IInv, CurrentSettled, Advancing

\* A timeout comes due, or the wakeup of a RunAsync job.
LEMMA WakeupLemma ==
    ASSUME IInv, AsyncTyped', NEW t \in Thread, ThreadWakeupCallback(t) \/ AsyncWakeup(t)
    PROVE  IInv'
<1> USE DEF IInv
<1>1. /\ wakeup_event' \subseteq wakeup_event
      /\ UNCHANGED <<thread_list, wakeup_callback_table, unscheduled, procVars,
                     phase, running_core, behind>>
  BY Zenon DEF ThreadWakeupCallback, AsyncWakeup, WakeUp
<1>2. CASE t \in wakeup_callback_table /\ status[t] \in {"Wait", "Dormant"}
  <2>1. ResumeFromWait(t) /\ UNCHANGED fault
    BY Zenon, <1>2 DEF ThreadWakeupCallback, AsyncWakeup, WakeUp
  <2>2. ~halted
    BY Zenon, AdvancingLemma DEF ThreadWakeupCallback, AsyncWakeup, WakeUp
  <2>3. ~IsCurrent(t)
    BY Zenon, <1>2, <2>2, NotHaltedLemma, SchedulerAssumption DEF IsCurrent
  <2> HIDE DEF IInv
  <2> QED
    BY Zenon, <1>1, <1>2, <2>1, <2>3, ResumeStepLemma
<1>3. CASE ~(t \in wakeup_callback_table /\ status[t] \in {"Wait", "Dormant"})
  <2>1. /\ UNCHANGED <<status, current_priority, ready_queue, linked, current_thread,
                       reschedule_pending, halted>>
        /\ fault' \in {fault, "bad_wakeup", "bad_async_wakeup"}
    BY Zenon, <1>3 DEF ThreadWakeupCallback, AsyncWakeup, WakeUp, threadVars
  <2>2. TypeOK'
    BY Zenon, <1>1, <2>1 DEF TypeOK, procVars, Fault, AsyncTyped
  <2>3. ReadyIffQueued' /\ LevelsLinked' /\ RunningIsCurrent'
    BY Zenon, <2>1 DEF ReadyIffQueued, LevelsLinked, RunningIsCurrent, LevelOf, IsCurrent
  <2>4. CurrentSettled' /\ TimersCancelled' /\ ListedExist'
    BY Zenon, <1>1, <2>1 DEF CurrentSettled, TimersCancelled, ListedExist
  <2>5. NoSchedulerFault'
    BY Zenon, <2>1 DEF NoSchedulerFault
  <2> QED
    BY Zenon, <2>2, <2>3, <2>4, <2>5
<1> QED
  BY Zenon, <1>2, <1>3

\* A thread is woken by a service or by a supervisor call.
LEMMA SignalLemma ==
    ASSUME IInv, AsyncTyped', NEW t \in Thread, EventSignal(t) \/ SvcSignal(t)
    PROVE  IInv'
<1>1. /\ status[t] = "Wait" /\ ResumeFromWait(t)
      /\ UNCHANGED <<tableVars, procVars, phase, running_core, behind, fault>>
  BY Zenon DEF EventSignal, SvcSignal
<1>2. ~IsCurrent(t)
  <2>1. CASE EventSignal(t)
    <3>1. ~halted
      BY Zenon, <2>1, AdvancingLemma DEF EventSignal
    <3> QED
      BY Zenon, <1>1, <3>1, NotHaltedLemma, SchedulerAssumption DEF IsCurrent
  <2>2. CASE SvcSignal(t)
    BY Zenon, <1>1, <2>2, SchedulerAssumption DEF SvcSignal, Caller, IsCurrent, IInv, CurrentSettled
  <2> QED
    BY Zenon, <2>1, <2>2
<1>3. /\ wakeup_event' \subseteq wakeup_event
      /\ UNCHANGED <<thread_list, wakeup_callback_table, unscheduled>>
  BY Zenon, <1>1 DEF tableVars
<1> QED
  BY Zenon, <1>1, <1>2, <1>3, ResumeStepLemma

\* The running thread begins to wait, also for a RunAsync job.
LEMMA WaitLemma ==
    ASSUME IInv, AsyncTyped', SvcRunAsync \/ \E timed \in BOOLEAN : SvcWait(timed)
    PROVE  IInv'
<1> USE DEF IInv
<1> DEFINE t == Caller
<1>1. /\ status' = [status EXCEPT ![t] = "Wait"]
      /\ wakeup_event' \subseteq wakeup_event \cup {<<t, running_core>>}
      /\ wakeup_event \subseteq wakeup_event'
      /\ reschedule_pending' = TRUE /\ halted' = TRUE /\ phase \in {"run", "catchup"}
      /\ UNCHANGED <<current_priority, ready_queue, linked, current_thread, thread_list,
                     wakeup_callback_table, unscheduled, procVars, phase, running_core,
                     behind, fault>>
  BY Zenon DEF SvcWait, SvcRunAsync, PrepareReschedule, Executing
<1>2. running_core \in Core /\ t \in Thread /\ t = current_thread[running_core]
  BY Zenon DEF SvcWait, SvcRunAsync, Executing, Caller, TypeOK
<1>3. CoreOf[t] = running_core /\ status[t] \in {"Running", "Dead", "Wait"}
  BY Zenon, <1>2, SchedulerAssumption DEF RunningIsCurrent, CurrentSettled
<1>4. \A u \in Thread : status'[u] = IF u = t THEN "Wait" ELSE status[u]
  BY Zenon, <1>1 DEF TypeOK
<1>5. TypeOK'
  BY <1>1, <1>2 DEF TypeOK, procVars, Status, AsyncTyped
<1> HIDE DEF t
<1>6. ReadyIffQueued'
  <2>1. \A u \in Thread : status'[u] = "Ready" <=> status[u] = "Ready"
    BY Zenon, <1>3, <1>4
  <2>2. \A u \in Thread : LevelOf(u)' = LevelOf(u)
    BY Zenon, <1>1 DEF LevelOf
  <2> QED
    BY Zenon, <1>1, <2>1, <2>2 DEF ReadyIffQueued
<1>7. LevelsLinked' /\ RunningIsCurrent'
  BY <1>1, <1>2, <1>3, <1>4 DEF LevelsLinked, RunningIsCurrent, IsCurrent
<1>8. CurrentSettled'
  <2> SUFFICES ASSUME NEW c \in Core, current_thread[c] # NoThread
               PROVE  \/ status'[current_thread[c]] \in {"Running", "Dead"}
                      \/ status'[current_thread[c]] = "Wait" /\ c = running_core
    BY Zenon, <1>1 DEF CurrentSettled
  <2>1. current_thread[c] \in Thread /\ CoreOf[current_thread[c]] = c
    BY Zenon DEF TypeOK, RunningIsCurrent
  <2> QED
    BY Zenon, <1>2, <1>3, <1>4, <2>1 DEF CurrentSettled
<1>9. TimersCancelled'
  BY <1>1, <1>2, <1>4 DEF TimersCancelled
<1>10. NoSchedulerFault' /\ ListedExist'
  BY Zenon, <1>1, <1>4 DEF NoSchedulerFault, ListedExist, TypeOK
<1> QED
  BY Zenon, <1>5, <1>6, <1>7, <1>8, <1>9, <1>10

\* A thread gets another priority, and another place in the queue if it is ready.
LEMMA SetPriorityLemma ==
    ASSUME IInv, AsyncTyped', NEW t \in Thread, NEW p \in Priority, SetPriority(t, p)
    PROVE  IInv'
<1> USE DEF IInv
<1>1. /\ UNCHANGED <<status, current_thread, thread_list, wakeup_callback_table,
                     wakeup_event, unscheduled, process_status, terminating, phase,
                     running_core, behind, fault>>
      /\ \/ UNCHANGED <<reschedule_pending, halted>>
         \/ /\ reschedule_pending' = TRUE /\ halted' = TRUE
            /\ phase \in {"run", "catchup"}
  BY Zenon DEF SetPriority, PrepareReschedule, Executing, tableVars, procVars, TypeOK
<1>2. TypeOK'
  BY Zenon, <1>1, PriorityLemma DEF TypeOK, AsyncTyped
<1>3. ReadyIffQueued' /\ LevelsLinked'
  BY Zenon, PriorityLemma
<1>4. RunningIsCurrent' /\ TimersCancelled' /\ NoSchedulerFault' /\ ListedExist'
  BY Zenon, <1>1 DEF RunningIsCurrent, IsCurrent, TimersCancelled, NoSchedulerFault, ListedExist
<1>5. CurrentSettled'
  <2>1. CASE UNCHANGED <<reschedule_pending, halted>>
    BY Zenon, <1>1, <2>1 DEF CurrentSettled
  <2>2. CASE reschedule_pending' = TRUE /\ halted' = TRUE /\ phase \in {"run", "catchup"}
    BY Zenon, <1>1, <2>2 DEF CurrentSettled
  <2> QED
    BY Zenon, <1>1, <2>1, <2>2
<1> QED
  BY Zenon, <1>2, <1>3, <1>4, <1>5

\* Creation by a running thread or with a new process.
LEMMA CreateStepLemma ==
    ASSUME IInv, AsyncTyped', NEW t \in Thread, NEW p \in Priority, NEW st \in {"Ready", "Dormant", "Wait"},
           CreateThread(t, p, st),
           wakeup_event' \subseteq wakeup_event \cup {<<t, running_core>>},
           process_status' \in [Process -> {"Created", "Running", "Exited"}],
           \/ UNCHANGED <<reschedule_pending, halted>>
           \/ /\ reschedule_pending' = TRUE /\ halted' = TRUE
              /\ phase \in {"run", "catchup"},
           UNCHANGED <<terminating, phase, running_core, behind, fault>>
    PROVE  IInv'
<1> USE DEF IInv
<1>1. current_thread' = current_thread /\ unscheduled' = unscheduled
  BY Zenon DEF CreateThread
<1>2. reschedule_pending' \in BOOLEAN /\ halted' \in BOOLEAN
  BY Zenon DEF TypeOK
<1>3. wakeup_event' \in SUBSET (Thread \X Core)
  BY DEF TypeOK
<1>4. TypeOK'
  <2>1. /\ status' \in [Thread -> Status] /\ current_priority' \in [Thread -> Priority]
        /\ ready_queue' \in [Level -> Seq(Thread)] /\ linked' \in [Core -> SUBSET Priority]
        /\ thread_list' \in SUBSET Thread /\ wakeup_callback_table' \in SUBSET Thread
    BY Zenon, CreateLemma
  <2> QED
    BY Zenon, <1>1, <1>2, <1>3, <2>1 DEF TypeOK, AsyncTyped
<1>5. ReadyIffQueued' /\ LevelsLinked' /\ RunningIsCurrent' /\ ListedExist'
  BY Zenon, CreateLemma
<1>6. \A c \in Core : current_thread[c] # NoThread =>
         status'[current_thread[c]] = status[current_thread[c]]
  BY Zenon, CreateLemma
<1>7. CurrentSettled'
  BY <1>1, <1>6 DEF CurrentSettled
<1>8. \A u \in Thread : status'[u] = "Running" => status[u] = "Running" /\ u # t
  BY CreateLemma
<1>9. TimersCancelled'
  BY Zenon, <1>8 DEF TimersCancelled
<1>10. NoSchedulerFault'
  BY Zenon DEF NoSchedulerFault
<1> QED
  BY Zenon, <1>4, <1>5, <1>7, <1>9, <1>10

\* svcCreateThread makes a ready or dormant thread.
LEMMA SvcCreateLemma ==
    ASSUME IInv, AsyncTyped', NEW t \in Thread, NEW p \in Priority, NEW st \in {"Ready", "Dormant"},
           SvcCreateThread(t, p, st)
    PROVE  IInv'
<1>1. /\ CreateThread(t, p, st)
      /\ wakeup_event' \subseteq wakeup_event
      /\ UNCHANGED <<process_status, terminating, phase, running_core, behind, fault>>
      /\ \/ UNCHANGED <<reschedule_pending, halted>>
         \/ /\ reschedule_pending' = TRUE /\ halted' = TRUE
            /\ phase \in {"run", "catchup"}
  BY Zenon DEF SvcCreateThread, PrepareReschedule, Executing, procVars
<1>2. process_status' \in [Process -> {"Created", "Running", "Exited"}]
  BY Zenon, <1>1 DEF IInv, TypeOK
<1> QED
  BY Zenon, <1>1, <1>2, CreateStepLemma

\* A process is started with its main thread, at once or after a delay.
LEMMA ProcessRunLemma ==
    ASSUME IInv, AsyncTyped', NEW t \in Thread, NEW p \in Priority, NEW delayed \in BOOLEAN,
           ProcessRun(Owner[t], t, p, delayed)
    PROVE  IInv'
<1> DEFINE st == IF delayed THEN "Wait" ELSE "Ready"
<1>1. /\ CreateThread(t, p, st)
      /\ wakeup_event' \subseteq wakeup_event \cup {<<t, running_core>>}
      /\ process_status' = [process_status EXCEPT ![Owner[t]] = "Running"]
      /\ UNCHANGED <<terminating, phase, running_core, behind, reschedule_pending, halted,
                     fault>>
  BY Zenon DEF ProcessRun, loopVars
<1>2. process_status' \in [Process -> {"Created", "Running", "Exited"}]
  BY Zenon, <1>1 DEF IInv, TypeOK
<1>3. st \in {"Ready", "Dormant", "Wait"}
  BY Zenon
<1> HIDE DEF st
<1> QED
  BY Zenon, <1>1, <1>2, <1>3, CreateStepLemma

\* The end of a thread, by its own call or with its process.
LEMMA StopStepLemma ==
    ASSUME IInv, AsyncTyped', NEW t \in Thread, status[t] # "New", StopThread(t),
           \/ UNCHANGED <<reschedule_pending, halted>>
           \/ PrepareReschedule,
           UNCHANGED <<procVars, phase, running_core, behind, fault>>
    PROVE  IInv'
<1> USE DEF IInv
<1>1. /\ current_thread' = current_thread /\ unscheduled' = unscheduled
      /\ current_priority' = current_priority /\ linked' = linked
  BY Zenon DEF StopThread
<1>2. /\ reschedule_pending' \in BOOLEAN /\ halted' \in BOOLEAN
      /\ halted' => reschedule_pending' /\ phase' \in {"run", "catchup"}
      /\ halted => halted'
  <2>1. CASE UNCHANGED <<reschedule_pending, halted>>
    BY Zenon, <2>1 DEF TypeOK, CurrentSettled
  <2>2. CASE PrepareReschedule
    <3>1. reschedule_pending' = TRUE /\ halted' = (halted \/ Executing)
      BY Zenon, <2>2 DEF PrepareReschedule
    <3>2. Executing => phase' \in {"run", "catchup"}
      BY Zenon DEF Executing
    <3>3. halted => phase' \in {"run", "catchup"}
      BY Zenon DEF CurrentSettled
    <3>4. halted \in BOOLEAN /\ Executing \in BOOLEAN
      BY Zenon DEF TypeOK, Executing
    <3> QED
      BY Zenon, <3>1, <3>2, <3>3, <3>4
  <2> QED
    BY Zenon, <2>1, <2>2
<1>3. TypeOK'
  BY Zenon, <1>1, <1>2, StopLemma DEF TypeOK, procVars, AsyncTyped
<1>4. ReadyIffQueued' /\ LevelsLinked' /\ RunningIsCurrent' /\ TimersCancelled' /\ ListedExist'
  BY Zenon, StopLemma
<1>5. \A u \in Thread : status'[u] = IF u = t THEN "Dead" ELSE status[u]
  BY Zenon, StopLemma
<1>6. CurrentSettled'
  <2>1. \A c \in Core : current_thread[c] \in Thread \cup {NoThread}
    BY Zenon DEF TypeOK
  <2> QED
    BY Zenon, <1>1, <1>2, <1>5, <2>1 DEF CurrentSettled
<1>7. NoSchedulerFault'
  BY Zenon DEF NoSchedulerFault
<1> QED
  BY Zenon, <1>3, <1>4, <1>6, <1>7

\* The current thread stops itself.
LEMMA ExitLemma ==
    ASSUME IInv, AsyncTyped', SvcExitThread
    PROVE  IInv'
<1>1. /\ StopThread(Caller) /\ PrepareReschedule
      /\ UNCHANGED <<procVars, phase, running_core, behind, fault>>
  BY Zenon DEF SvcExitThread
<1>2. running_core \in Core /\ Caller \in Thread /\ Caller = current_thread[running_core]
  BY Zenon DEF SvcExitThread, Executing, Caller, IInv, TypeOK
<1>3. status[Caller] # "New"
  BY Zenon, <1>2, SchedulerAssumption DEF IInv, CurrentSettled
<1> QED
  BY Zenon, <1>1, <1>2, <1>3, StopStepLemma

\* TerminateProcess stops one of the threads of the process.
LEMMA TerminateLemma ==
    ASSUME IInv, AsyncTyped', NEW t \in Thread, TerminateProcessThread(t)
    PROVE  IInv'
<1>1. /\ StopThread(t) /\ t \in Doomed(terminating)
      /\ \/ UNCHANGED <<reschedule_pending, halted>>
         \/ PrepareReschedule
      /\ UNCHANGED <<procVars, phase, running_core, behind, fault>>
  BY Zenon DEF TerminateProcessThread
<1>2. status[t] # "New"
  <2>1. CASE IsCurrent(t)
    <3>1. CoreOf[t] \in Core /\ t # NoThread
      BY Zenon, SchedulerAssumption
    <3> QED
      BY Zenon, <2>1, <3>1 DEF IsCurrent, IInv, CurrentSettled
  <2>2. CASE ~IsCurrent(t)
    BY Zenon, <1>1, <2>2 DEF Doomed, IInv, ListedExist
  <2> QED
    BY Zenon, <2>1, <2>2
<1> QED
  BY Zenon, <1>1, <1>2, StopStepLemma

\* The steps that change neither a thread nor RunLoop.
LEMMA OtherLemma ==
    ASSUME IInv, AsyncTyped', UNCHANGED <<threadVars, thread_list, wakeup_callback_table, wakeup_event,
                             loopVars>>,
           process_status' \in [Process -> {"Created", "Running", "Exited"}],
           terminating' \in Process \cup {NoProcess},
           unscheduled' \in SUBSET Thread,
           fault' = fault \/ fault' = "process_exited"
    PROVE  IInv'
<1> USE DEF IInv, threadVars, loopVars
<1>1. TypeOK'
  BY Zenon DEF TypeOK, Fault, AsyncTyped
<1>2. ReadyIffQueued' /\ LevelsLinked' /\ RunningIsCurrent'
  BY Zenon DEF ReadyIffQueued, LevelsLinked, RunningIsCurrent, LevelOf, IsCurrent
<1>3. CurrentSettled' /\ TimersCancelled' /\ ListedExist' /\ NoSchedulerFault'
  BY Zenon DEF CurrentSettled, TimersCancelled, ListedExist, NoSchedulerFault
<1> QED
  BY Zenon, <1>1, <1>2, <1>3

\* The first and the last step of TerminateProcess.
LEMMA ProcessLemma ==
    ASSUME IInv, AsyncTyped',
           \/ \E pr \in Process : SvcTerminateProcess(pr)
           \/ TerminateProcessDone
           \/ \E t \in Thread : SvcUnschedule(t) \/ AsyncJobEnds(t)
           \/ UNCHANGED vars
    PROVE  IInv'
<1>1. UNCHANGED <<threadVars, thread_list, wakeup_callback_table, wakeup_event, loopVars>>
  BY Zenon DEF SvcTerminateProcess, TerminateProcessDone, SvcUnschedule, AsyncJobEnds, vars, tableVars
<1>2. /\ process_status' \in [Process -> {"Created", "Running", "Exited"}]
      /\ terminating' \in Process \cup {NoProcess}
      /\ unscheduled' \in SUBSET Thread
  <2>1. CASE \E pr \in Process : SvcTerminateProcess(pr)
    BY Zenon, <2>1 DEF SvcTerminateProcess, IInv, TypeOK, procVars, tableVars
  <2>2. CASE TerminateProcessDone
    BY Zenon, <2>2 DEF TerminateProcessDone, IInv, TypeOK, tableVars
  <2>3. CASE \E t \in Thread : SvcUnschedule(t) \/ AsyncJobEnds(t)
    BY Zenon, <2>3 DEF SvcUnschedule, AsyncJobEnds, IInv, TypeOK, procVars
  <2>4. CASE UNCHANGED vars
    BY Zenon, <2>4 DEF vars, IInv, TypeOK, procVars, tableVars
  <2> QED
    BY Zenon, <2>1, <2>2, <2>3, <2>4
<1>3. fault' = fault \/ fault' = "process_exited"
  BY Zenon DEF SvcTerminateProcess, TerminateProcessDone, SvcUnschedule, AsyncJobEnds, vars
<1> QED
  BY Zenon, <1>1, <1>2, <1>3, OtherLemma

\* The unschedule modes of a process change.
LEMMA UnscheduleModeLemma ==
    ASSUME IInv, AsyncTyped', NEW t \in Thread, ChangeUnscheduleMode(t)
    PROVE  IInv'
<1>1. /\ Reschedule(Core, unscheduled')
      /\ UNCHANGED <<thread_list, wakeup_callback_table, procVars, phase, running_core,
                     behind, reschedule_pending, halted>>
  BY Zenon DEF ChangeUnscheduleMode, loopVars
<1>2. unscheduled' \in SUBSET Thread
  BY Zenon DEF ChangeUnscheduleMode, IInv, TypeOK
<1>3. ~halted /\ halted' = FALSE
  BY Zenon, <1>1 DEF ChangeUnscheduleMode, BetweenLoops, IInv, CurrentSettled, TypeOK
<1>4. /\ phase' \in Phase /\ running_core' \in Core /\ behind' \in SUBSET Core
      /\ reschedule_pending' \in BOOLEAN
  BY Zenon, <1>1 DEF IInv, TypeOK
<1>5. Core \in SUBSET Core
  BY Zenon
<1> QED
  BY Zenon, <1>1, <1>2, <1>3, <1>4, <1>5, RescheduleStepLemma

\* MoveEvents and UnscheduleEvent bring no wakeup about.
LEMMA MovedLemma ==
    ASSUME NEW events \in [Thread -> Async], NEW cs
    PROVE  /\ MoveEvents(events, cs) \in [Thread -> Async]
           /\ \A t \in Thread : MoveEvents(events, cs)[t] # "no" => events[t] # "no"
BY DEF MoveEvents, Async

LEMMA UnscheduledLemma ==
    ASSUME AsyncTyped, NEW ts
    PROVE  /\ Unscheduled(ts) \in [Thread -> Async]
           /\ \A t \in Thread : Unscheduled(ts)[t] # "no" => async[t] # "no"
BY DEF Unscheduled, Async, AsyncTyped

\* RunLoop and the operations that stop threads move and drop wakeups of RunAsync.
LEMMA AsyncLoop ==
    ASSUME AsyncTyped,
           \/ NotBehind \/ FoundBehind \/ SyncReschedule \/ AdvanceReschedule \/ EndSlice
           \/ \E t \in Thread : ChangeUnscheduleMode(t) \/ StopThread(t)
    PROVE  /\ AsyncTyped'
           /\ \A t \in Thread : async'[t] # "no" => async[t] # "no"
<1>1. \E events : /\ \/ events = async
                    \/ \E ts : events = Unscheduled(ts)
                 /\ \/ async' = events
                    \/ \E cs : async' = MoveEvents(events, cs)
  BY Zenon DEF NotBehind, FoundBehind, SyncReschedule, AdvanceReschedule, EndSlice,
     ChangeUnscheduleMode, StopThread, AsyncAfter
<1>2. PICK events : /\ \/ events = async
                       \/ \E ts : events = Unscheduled(ts)
                    /\ \/ async' = events
                       \/ \E cs : async' = MoveEvents(events, cs)
  BY Zenon, <1>1
<1>3. events \in [Thread -> Async] /\ \A t \in Thread : events[t] # "no" => async[t] # "no"
  BY Zenon, <1>2, UnscheduledLemma DEF AsyncTyped
<1> QED
  BY Zenon, <1>2, <1>3, MovedLemma DEF AsyncTyped

\* Every step keeps the type of the wakeups of RunAsync.
LEMMA AsyncStep ==
    ASSUME TypeOK, [Next]_vars
    PROVE  AsyncTyped'
<1>1. AsyncTyped
  BY Zenon DEF TypeOK, AsyncTyped
<1>2. CASE \/ NotBehind \/ FoundBehind \/ SyncReschedule \/ AdvanceReschedule \/ EndSlice
           \/ \E t \in Thread : ChangeUnscheduleMode(t) \/ StopThread(t)
  BY Zenon, <1>1, <1>2, AsyncLoop
<1>3. CASE \E t \in Thread : TerminateProcessThread(t)
  BY Zenon, <1>2, <1>3 DEF TerminateProcessThread
<1>4. CASE SvcExitThread
  BY Zenon, <1>2, <1>4 DEF SvcExitThread, Executing, Caller, TypeOK
<1>5. CASE async' = async
  BY Zenon, <1>1, <1>5 DEF AsyncTyped
<1>6. CASE \E t \in Thread : AsyncWakeup(t) \/ AsyncJobEnds(t)
  BY Zenon, <1>1, <1>6 DEF AsyncWakeup, AsyncJobEnds, AsyncTyped, Async
<1>7. CASE SvcRunAsync
  BY Zenon, <1>1, <1>7 DEF SvcRunAsync, AsyncTyped, Async
<1>8. ASSUME \/ TerminateProcessDone \/ UNCHANGED vars
             \/ \E t \in Thread : \/ ThreadWakeupCallback(t) \/ EventSignal(t) \/ SvcSignal(t)
                                  \/ SvcUnschedule(t)
                                  \/ \E p \in Priority :
                                       \/ SetPriority(t, p)
                                       \/ \E st \in {"Ready", "Dormant"} : SvcCreateThread(t, p, st)
                                       \/ \E delayed \in BOOLEAN : ProcessRun(Owner[t], t, p, delayed)
             \/ \E timed \in BOOLEAN : SvcWait(timed)
             \/ \E pr \in Process : SvcTerminateProcess(pr)
      PROVE  async' = async
  BY Zenon, <1>8 DEF TerminateProcessDone, vars, tableVars, ThreadWakeupCallback, EventSignal,
     SvcSignal, SvcUnschedule, SetPriority, SvcCreateThread, ProcessRun, SvcWait, SvcTerminateProcess
<1> QED
  BY Zenon, <1>2, <1>3, <1>4, <1>5, <1>6, <1>7, <1>8 DEF Next, LoopStep, Crashed

\* Every step keeps the inductive invariant.
LEMMA NextStepLemma == IInv /\ [Next]_vars => IInv'
<1> SUFFICES ASSUME IInv, [Next]_vars PROVE IInv'
  BY Zenon
<1>0. AsyncTyped'
  BY Zenon, AsyncStep DEF IInv
<1>1. CASE NotBehind \/ FoundBehind
  BY Zenon, <1>0, <1>1, SyncLemma
<1>2. CASE SyncReschedule \/ AdvanceReschedule
  BY Zenon, <1>0, <1>2, LoopRescheduleLemma
<1>3. CASE EndSlice
  BY Zenon, <1>0, <1>3, EndSliceLemma
<1>4. CASE \E t \in Thread : TerminateProcessThread(t)
  BY Zenon, <1>0, <1>4, TerminateLemma
<1>5. CASE \E t \in Thread : ThreadWakeupCallback(t) \/ AsyncWakeup(t)
  BY Zenon, <1>0, <1>5, WakeupLemma
<1>6. CASE \E t \in Thread : EventSignal(t) \/ SvcSignal(t)
  BY Zenon, <1>0, <1>6, SignalLemma
<1>7. CASE \E t \in Thread : ChangeUnscheduleMode(t)
  BY Zenon, <1>0, <1>7, UnscheduleModeLemma
<1>8. CASE \E t \in Thread, p \in Priority : SetPriority(t, p)
  BY Zenon, <1>0, <1>8, SetPriorityLemma
<1>9. CASE \E t \in Thread, p \in Priority, st \in {"Ready", "Dormant"} :
             SvcCreateThread(t, p, st)
  BY Zenon, <1>0, <1>9, SvcCreateLemma
<1>10. CASE \E t \in Thread, p \in Priority, delayed \in BOOLEAN :
              ProcessRun(Owner[t], t, p, delayed)
  BY Zenon, <1>0, <1>10, ProcessRunLemma
<1>11. CASE SvcRunAsync \/ \E timed \in BOOLEAN : SvcWait(timed)
  BY Zenon, <1>0, <1>11, WaitLemma
<1>12. CASE SvcExitThread
  BY Zenon, <1>0, <1>12, ExitLemma
<1>13. CASE \/ \E pr \in Process : SvcTerminateProcess(pr)
            \/ TerminateProcessDone
            \/ \E t \in Thread : SvcUnschedule(t) \/ AsyncJobEnds(t)
            \/ UNCHANGED vars
  BY Zenon, <1>0, <1>13, ProcessLemma
<1> QED
  BY Zenon, <1>1, <1>2, <1>3, <1>4, <1>5, <1>6, <1>7, <1>8, <1>9, <1>10, <1>11, <1>12, <1>13
     DEF Next, LoopStep, Crashed

-----------------------------------------------------------------------------
(* Theorems *)

\* The inductive invariant holds in every reachable state.
THEOREM InductiveInvariant == Spec => []IInv
<1>1. Init => IInv
  BY Zenon, InitLemma
<1>2. IInv /\ [Next]_vars => IInv'
  BY Zenon, NextStepLemma
<1> QED
  BY <1>1, <1>2, PTL DEF Spec

\* Every variable of the scheduler keeps its type.
THEOREM TypeCorrect == Spec => []TypeOK
<1>1. IInv => TypeOK
  BY Zenon DEF IInv
<1> QED
  BY <1>1, InductiveInvariant, PTL

\* Exactly the Ready threads are in the ready queue, each once and at its
\* level, whatever thread.cpp does with statuses and priorities.
THEOREM ReadyQueueSound == Spec => []ReadyIffQueued
<1>1. IInv => ReadyIffQueued
  BY Zenon DEF IInv
<1> QED
  BY <1>1, InductiveInvariant, PTL

\* pop_first_better never runs past the last linked queue and SwitchContext
\* never meets a thread that is not ready.
THEOREM SchedulerNeverFaults == Spec => []NoSchedulerFault
<1>1. IInv => NoSchedulerFault
  BY Zenon DEF IInv
<1> QED
  BY <1>1, InductiveInvariant, PTL

\* At most one thread runs on a core, and no current thread is lost by the
\* early return of Reschedule.
THEOREM CurrentThreadSound == Spec => [](RunningIsCurrent /\ CurrentSettled)
<1>1. IInv => RunningIsCurrent /\ CurrentSettled
  BY Zenon DEF IInv
<1> QED
  BY <1>1, InductiveInvariant, PTL

-----------------------------------------------------------------------------
(* The best thread is picked *)

\* A ready thread that may be scheduled is a candidate, unless the current
\* thread runs on and is at least as good.
LEMMA CandidateLemma ==
    ASSUME IInv, NEW c \in Core, NEW us, NEW t \in Thread \ us,
           CoreOf[t] = c, status[t] = "Ready",
           KeepsRunning(c, us) => current_priority[t] < current_priority[current_thread[c]]
    PROVE  \E i : <<current_priority[t], i>> \in Candidates(c, us)
<1> DEFINE p == current_priority[t]
<1>1. <<c, p>> \in Level /\ LevelOf(t) = <<c, p>> /\ p \in Priority
  BY Zenon DEF IInv, TypeOK, LevelOf, Level
<1>2. PICK i \in DOMAIN ready_queue[<<c, p>>] : ready_queue[<<c, p>>][i] = t
  BY Zenon, <1>1 DEF IInv, ReadyIffQueued, Has
<1>3. p \in linked[c]
  BY Zenon DEF IInv, LevelsLinked
<1>4. i \in UNION {DOMAIN ready_queue[<<c, r>>] : r \in Priority}
  BY Zenon, <1>1, <1>2
<1> QED
  BY Zenon, <1>2, <1>3, <1>4 DEF Candidates

\* The thread that is taken off the queue is at least as good as any candidate.
LEMMA PoppedPriority ==
    ASSUME IInv, NEW c \in Core, NEW us, NEW y \in Candidates(c, us)
    PROVE  /\ current_priority[Popped(c, us)] <= y[1]
           /\ KeepsRunning(c, us) =>
                current_priority[Popped(c, us)] < current_priority[current_thread[c]]
<1> DEFINE x == FirstCandidate(c, us)
           l == <<c, x[1]>>
           t == ready_queue[l][x[2]]
<1>1. x \in Candidates(c, us) /\ Precedes(x, y)
  BY Zenon, FirstCandidateLemma DEF IInv
<1>2. Popped(c, us) = t
  BY Zenon DEF Popped
<1> HIDE DEF x
<1>3. /\ x[1] \in linked[c] /\ x[2] \in DOMAIN ready_queue[l] /\ y[1] \in linked[c]
      /\ KeepsRunning(c, us) => x[1] < current_priority[current_thread[c]]
  BY Zenon, <1>1 DEF Candidates
<1>4. l \in Level /\ x[1] \in Nat /\ y[1] \in Nat
  BY SMTT(20), <1>3, SchedulerAssumption DEF IInv, TypeOK, Level, Priority
<1>6. t \in Thread /\ Has(ready_queue[l], t)
  <2>1. t \in Thread
    BY <1>2, PoppedLemma DEF IInv
  <2>2. Has(ready_queue[l], t)
    BY Zenon, <1>3 DEF Has
  <2> QED
    BY Zenon, <2>1, <2>2
<1>7. l = LevelOf(t)
  BY Zenon, <1>4, <1>6 DEF IInv, ReadyIffQueued
<1>8. current_priority[t] = x[1]
  BY Zenon, <1>7 DEF LevelOf
<1> QED
  BY <1>1, <1>2, <1>3, <1>4, <1>8 DEF Precedes

\* What Reschedule leaves on a core is not beaten by a ready thread.
LEMMA BestLemma ==
    ASSUME IInv, NEW c \in Core, Reschedule({c}, unscheduled), unscheduled' = unscheduled
    PROVE  BestOfCore(c)'
<1> DEFINE us == unscheduled
           cur == current_thread[c]
           nx == PopNextReadyThread(c, us)
           rivals == {t \in Thread : CoreOf[t] = c /\ status'[t] = "Ready" /\ t \notin us}
<1>1. current_thread'[c] = nx /\ current_priority' = current_priority
  BY Zenon DEF Reschedule
<1>2. \A t \in Thread : current_priority[t] \in Nat
  BY SchedulerAssumption DEF IInv, TypeOK, Priority
<1>3. nx # NoThread => status'[nx] = "Running"
  <2>1. {c} \in SUBSET Core
    BY Zenon
  <2>2. \A d \in {c} : current_thread'[d] = NoThread \/ status'[current_thread'[d]] = "Running"
    BY Zenon, <2>1, RescheduleLemma
  <2> QED
    BY Zenon, <1>1, <2>2
<1>4. cur # NoThread => cur \in Thread /\ CoreOf[cur] = c
  BY Zenon DEF IInv, TypeOK, RunningIsCurrent
<1>5. ASSUME NEW t \in rivals
      PROVE  /\ t \in Thread /\ CoreOf[t] = c /\ t \notin us
             /\ \/ status[t] = "Ready" /\ t # Popped(c, us)
                \/ t = cur /\ KeepsRunning(c, us) /\ Switches(c, us)
  <2>1. t \in Thread /\ CoreOf[t] = c /\ t \notin us /\ status'[t] = "Ready"
    BY Zenon
  <2>2. \/ Preempted(c, us) /\ t = cur /\ status[t] = "Running"
        \/ status[t] = "Ready" /\ t # Popped(c, us)
    BY <2>1, StatusLemma
  <2> QED
    BY Zenon, <2>1, <2>2 DEF Preempted, KeepsRunning
<1>6. CASE Candidates(c, us) = {} /\ KeepsRunning(c, us)
  <2>1. nx = cur /\ ~Switches(c, us)
    BY Zenon, <1>6 DEF PopNextReadyThread, Switches
  <2>2. cur # NoThread /\ cur \notin us
    BY Zenon, <1>6 DEF KeepsRunning
  <2>3. ASSUME NEW t \in rivals PROVE current_priority[cur] <= current_priority[t]
    <3>1. t \in Thread \ us /\ CoreOf[t] = c /\ status[t] = "Ready"
      BY Zenon, <1>5, <2>1
    <3>2. ~(current_priority[t] < current_priority[cur])
      BY Zenon, <1>6, <3>1, CandidateLemma
    <3> QED
      BY SMTT(20), <1>2, <1>4, <2>2, <3>1, <3>2
  <2> QED
    BY Zenon, <1>1, <1>3, <2>1, <2>2, <2>3 DEF BestOfCore
<1>7. CASE Candidates(c, us) = {} /\ ~KeepsRunning(c, us)
  <2>1. nx = NoThread
    BY Zenon, <1>7 DEF PopNextReadyThread, Popped
  <2>2. rivals = {}
    <3> SUFFICES ASSUME NEW t \in rivals PROVE FALSE
      BY Zenon
    <3>1. t \in Thread \ us /\ CoreOf[t] = c /\ status[t] = "Ready"
      BY Zenon, <1>5, <1>7
    <3> QED
      BY Zenon, <1>7, <3>1, CandidateLemma
  <2> QED
    BY Zenon, <1>1, <2>1, <2>2 DEF BestOfCore
<1>8. CASE Candidates(c, us) # {}
  <2>1. nx = Popped(c, us)
    BY Zenon, <1>8 DEF PopNextReadyThread
  <2>2. nx \in Thread /\ nx \notin us
    BY SMTT(20), <1>8, <2>1, PoppedLemma DEF IInv
  <2>3. KeepsRunning(c, us) => current_priority[nx] < current_priority[cur]
    BY Zenon, <1>8, <2>1, PoppedPriority
  <2>4. ASSUME NEW t \in rivals PROVE current_priority[nx] <= current_priority[t]
    <3>1. CASE t = cur /\ KeepsRunning(c, us)
      BY <1>2, <1>5, <2>2, <2>3, <3>1
    <3>2. CASE status[t] = "Ready" /\ KeepsRunning(c, us) /\
               ~(current_priority[t] < current_priority[cur])
      <4>1. cur \in Thread /\ t \in Thread
        BY Zenon, <1>4, <1>5, <3>2 DEF KeepsRunning
      <4> QED
        BY <1>2, <2>2, <2>3, <3>2, <4>1
    <3>3. CASE status[t] = "Ready" /\
               (KeepsRunning(c, us) => current_priority[t] < current_priority[cur])
      <4>1. PICK i : <<current_priority[t], i>> \in Candidates(c, us)
        BY Zenon, <1>5, <3>3, CandidateLemma
      <4>2. current_priority[nx] <= <<current_priority[t], i>>[1]
        BY Zenon, <2>1, <4>1, PoppedPriority
      <4> QED
        BY Zenon, <4>2
    <3> QED
      BY Zenon, <1>5, <3>1, <3>2, <3>3
  <2>5. nx # NoThread
    BY Zenon, <2>2, SchedulerAssumption
  <2> QED
    BY Zenon, <1>1, <1>3, <2>2, <2>4, <2>5 DEF BestOfCore
<1> QED
  BY Zenon, <1>6, <1>7, <1>8

\* After a reschedule by RunLoop no ready thread of the core beats the one it
\* runs, and the core is idle only if it has no thread to run.
THEOREM BestThreadPicked == Spec => PicksBest
<1> DEFINE A == \A c \in Core : c = running_core /\ (SyncReschedule \/ AdvanceReschedule)
                                  => BestOfCore(c)'
<1>1. IInv /\ [Next]_vars => [A]_vars
  <2> SUFFICES ASSUME IInv, NEW c \in Core, c = running_core,
                      SyncReschedule \/ AdvanceReschedule
               PROVE  BestOfCore(c)'
    BY Zenon
  <2>1. Reschedule({c}, unscheduled) /\ unscheduled' = unscheduled
    BY Zenon DEF SyncReschedule, AdvanceReschedule
  <2> QED
    BY Zenon, <2>1, BestLemma
<1> HIDE DEF A
<1>2. PicksBest <=> [][A]_vars
  BY Zenon DEF PicksBest, A
<1> QED
  BY <1>1, <1>2, InductiveInvariant, PTL DEF Spec

-----------------------------------------------------------------------------
(* Wakeups and the threads they are for *)

\* A timeout belongs to a thread that was created and is not dead.
TimersAlive ==
    \A t \in Thread, c \in Core : <<t, c>> \in wakeup_event => status[t] \notin {"New", "Dead"}

\* wakeup_callback_table lists no thread before its creation or after its end.
TableAlive ==
    \A t \in wakeup_callback_table : status[t] \notin {"New", "Dead"}

\* A thread with a RunAsync job waits for it, without a timeout, unless it was stopped.
\* It does not execute: if it is still current, its core has been halted.
AsyncSound ==
    \A t \in Thread : async[t] # "no" =>
        /\ status[t] \in {"Wait", "Dead"}
        /\ \A c \in Core : <<t, c>> \notin wakeup_event
        /\ IsCurrent(t) => CoreOf[t] = running_core /\ halted

\* at() threw for a thread that was taken off the table and waits again.
MissedThread ==
    fault = "bad_wakeup" =>
        \E t \in Thread \ wakeup_callback_table : status[t] \notin {"New", "Dead"}

WakeInv == TimersAlive /\ TableAlive /\ AsyncSound /\ MissedThread

\* A step that gives nobody a RunAsync job and revives no thread with one.
LEMMA WakeFrame ==
    ASSUME TypeOK, WakeInv,
           \A t \in Thread :
              \/ status'[t] = status[t]
              \/ async'[t] = "no" /\ status'[t] \notin {"New", "Dead"}
              \/ /\ status'[t] = "Dead" /\ t \notin wakeup_callback_table'
                 /\ \A c \in Core : <<t, c>> \notin wakeup_event',
           \A t \in Thread, c \in Core : <<t, c>> \in wakeup_event' =>
              \/ <<t, c>> \in wakeup_event
              \/ async'[t] = "no" /\ status'[t] \notin {"New", "Dead"},
           \A t \in wakeup_callback_table' :
              t \in Thread /\ (t \in wakeup_callback_table \/ status'[t] \notin {"New", "Dead"}),
           \A t \in Thread : async'[t] # "no" => async[t] # "no",
           \A t \in Thread : async'[t] # "no" /\ IsCurrent(t)' => CoreOf[t] = running_core' /\ halted',
           MissedThread'
    PROVE  WakeInv'
<1>1. TimersAlive'
  BY Zenon DEF WakeInv, TimersAlive
<1>2. TableAlive'
  BY Zenon DEF WakeInv, TableAlive
<1>3. AsyncSound'
  <2> SUFFICES ASSUME NEW t \in Thread, async'[t] # "no"
               PROVE  /\ status'[t] \in {"Wait", "Dead"}
                      /\ \A c \in Core : <<t, c>> \notin wakeup_event'
    BY Zenon DEF AsyncSound
  <2>1. /\ async[t] # "no" /\ status[t] \in {"Wait", "Dead"}
        /\ \A c \in Core : <<t, c>> \notin wakeup_event
    BY Zenon DEF WakeInv, AsyncSound
  <2> QED
    BY Zenon, <2>1
<1> QED
  BY Zenon, <1>1, <1>2, <1>3 DEF WakeInv

\* While the running core is not halted no current thread has a RunAsync job, so
\* neither has the thread that executes.
LEMMA NotHaltedAsync ==
    ASSUME WakeInv, ~halted, NEW t \in Thread, async[t] # "no"
    PROVE  ~IsCurrent(t)
BY Zenon DEF WakeInv, AsyncSound

\* A fault other than bad_wakeup says nothing of the threads.
LEMMA OtherFault ==
    ASSUME fault = "none", fault' # "bad_wakeup"
    PROVE  MissedThread'
BY Zenon DEF MissedThread

\* A reschedule of the cores cs, after which no current thread has a RunAsync job.
LEMMA RescheduleWake ==
    ASSUME IInv, WakeInv, NEW cs \in SUBSET Core, NEW us, Reschedule(cs, us),
           ~halted \/ running_core \in cs, fault = "none",
           UNCHANGED wakeup_callback_table,
           \A t \in Thread : async'[t] # "no" => async[t] # "no"
    PROVE  WakeInv'
<1>1. \A t \in Thread : \/ status'[t] = status[t]
                        \/ status[t] = "Ready" /\ status'[t] = "Running"
                        \/ status[t] = "Running" /\ status'[t] = "Ready"
  BY Zenon, StatusLemma, SchedulerAssumption
<1>2. \A t \in Thread : async'[t] # "no" => status[t] \in {"Wait", "Dead"} /\ status'[t] = status[t]
  BY Zenon, <1>1 DEF WakeInv, AsyncSound
<1>3. \A t \in Thread : \/ status'[t] = status[t]
                        \/ async'[t] = "no" /\ status'[t] \notin {"New", "Dead"}
  BY Zenon, <1>1, <1>2
<1>4. wakeup_event' \subseteq wakeup_event
  BY Zenon DEF Reschedule
<1>5. ASSUME NEW t \in Thread, async'[t] # "no"
      PROVE  ~IsCurrent(t)'
  <2>1. CoreOf[t] \in Core /\ t # NoThread
    BY Zenon, SchedulerAssumption
  <2>2. CASE CoreOf[t] \in cs
    <3>1. \/ current_thread'[CoreOf[t]] = NoThread
          \/ status'[current_thread'[CoreOf[t]]] = "Running"
      BY Zenon, <2>2, RescheduleLemma
    <3>2. status'[t] # "Running"
      BY Zenon, <1>2, <1>5
    <3> QED
      BY Zenon, <2>1, <3>1, <3>2 DEF IsCurrent
  <2>3. CASE CoreOf[t] \notin cs
    <3>1. current_thread'[CoreOf[t]] = current_thread[CoreOf[t]]
      BY Zenon, <2>1, <2>3, RescheduleLemma
    <3>2. ~IsCurrent(t)
      BY Zenon, <1>5, <2>3 DEF WakeInv, AsyncSound
    <3> QED
      BY Zenon, <3>1, <3>2 DEF IsCurrent
  <2> QED
    BY Zenon, <2>2, <2>3
<1>6. MissedThread'
  BY Zenon, RescheduleLemma, OtherFault
<1>7. \A t \in wakeup_callback_table' : t \in Thread /\ t \in wakeup_callback_table
  BY Zenon DEF IInv, TypeOK
<1> QED
  BY Zenon, <1>3, <1>4, <1>5, <1>6, <1>7, WakeFrame DEF IInv

\* A step that leaves statuses, timers and table alone.
LEMMA QuietWake ==
    ASSUME IInv, WakeInv, UNCHANGED <<status, wakeup_event, wakeup_callback_table, current_thread>>,
           fault = "none", fault' # "bad_wakeup",
           \A t \in Thread : async'[t] # "no" => async[t] # "no",
           ~halted \/ (running_core' = running_core /\ halted')
    PROVE  WakeInv'
<1>1. \A t \in Thread : async'[t] # "no" /\ IsCurrent(t)' => CoreOf[t] = running_core' /\ halted'
  <2> SUFFICES ASSUME NEW t \in Thread, async'[t] # "no", IsCurrent(t)'
               PROVE  CoreOf[t] = running_core' /\ halted'
    BY Zenon
  <2>1. IsCurrent(t) /\ async[t] # "no"
    BY Zenon DEF IsCurrent
  <2> QED
    BY Zenon, <2>1 DEF WakeInv, AsyncSound
<1>2. MissedThread'
  BY Zenon, OtherFault
<1>3. \A t \in wakeup_callback_table' : t \in Thread /\ t \in wakeup_callback_table
  BY Zenon DEF IInv, TypeOK
<1> QED
  BY Zenon, <1>1, <1>2, <1>3, WakeFrame DEF IInv

\* The steps of RunLoop.
LEMMA LoopWake ==
    ASSUME IInv, WakeInv,
           \/ NotBehind \/ FoundBehind \/ SyncReschedule \/ AdvanceReschedule \/ EndSlice
           \/ \E t \in Thread : ChangeUnscheduleMode(t)
    PROVE  WakeInv'
<1>0. AsyncTyped /\ running_core \in Core
  BY Zenon DEF IInv, TypeOK, AsyncTyped
<1>1. \A t \in Thread : async'[t] # "no" => async[t] # "no"
  BY Zenon, <1>0, AsyncLoop
<1>2. CASE NotBehind \/ FoundBehind
  <2>1. /\ UNCHANGED <<status, wakeup_event, wakeup_callback_table, current_thread, fault>>
        /\ fault = "none" /\ fault # "bad_wakeup"
    BY Zenon, <1>2 DEF NotBehind, FoundBehind, threadVars, Quiet
  <2>2. ~halted
    BY Zenon, <1>2 DEF NotBehind, FoundBehind, IInv, CurrentSettled
  <2> QED
    BY Zenon, <1>1, <2>1, <2>2, QuietWake
<1>3. CASE SyncReschedule \/ AdvanceReschedule
  <2>1. /\ Reschedule({running_core}, unscheduled) /\ fault = "none"
        /\ UNCHANGED wakeup_callback_table
    BY Zenon, <1>3 DEF SyncReschedule, AdvanceReschedule, Quiet
  <2> QED
    BY Zenon, <1>0, <1>1, <2>1, RescheduleWake
<1>4. CASE EndSlice /\ (reschedule_pending \/ current_thread[running_core] = NoThread)
  <2>1. /\ Reschedule({running_core}, unscheduled) /\ fault = "none"
        /\ UNCHANGED wakeup_callback_table
    BY Zenon, <1>4 DEF EndSlice, Quiet
  <2> QED
    BY Zenon, <1>0, <1>1, <2>1, RescheduleWake
<1>5. CASE EndSlice /\ ~(reschedule_pending \/ current_thread[running_core] = NoThread)
  <2>1. /\ UNCHANGED <<status, wakeup_event, wakeup_callback_table, current_thread, fault>>
        /\ fault = "none" /\ fault # "bad_wakeup"
    BY Zenon, <1>5 DEF EndSlice, threadVars, Quiet
  <2>2. ~halted
    BY Zenon, <1>5 DEF IInv, CurrentSettled
  <2> QED
    BY Zenon, <1>1, <2>1, <2>2, QuietWake
<1>6. CASE \E t \in Thread : ChangeUnscheduleMode(t)
  <2>1. /\ Reschedule(Core, unscheduled') /\ fault = "none"
        /\ UNCHANGED wakeup_callback_table
    BY Zenon, <1>6 DEF ChangeUnscheduleMode, Quiet
  <2>2. Core \in SUBSET Core /\ running_core \in Core
    BY Zenon, <1>0
  <2> QED
    BY Zenon, <1>1, <2>1, <2>2, RescheduleWake
<1> QED
  BY Zenon, <1>2, <1>3, <1>4, <1>5, <1>6

\* A thread that waits, and is not current, is woken.
LEMMA ResumeWake ==
    ASSUME IInv, WakeInv, NEW t \in Thread, ResumeFromWait(t), async'[t] = "no",
           \A u \in Thread : async'[u] # "no" => async[u] # "no",
           wakeup_event' \subseteq wakeup_event,
           UNCHANGED <<wakeup_callback_table, running_core, fault>>, fault = "none"
    PROVE  WakeInv'
<1>1. \A u \in Thread : \/ status'[u] = status[u]
                        \/ async'[u] = "no" /\ status'[u] \notin {"New", "Dead"}
  BY Zenon DEF ResumeFromWait, IInv, TypeOK
<1>2. \A u \in Thread : async'[u] # "no" /\ IsCurrent(u)' => CoreOf[u] = running_core' /\ halted'
  <2> SUFFICES ASSUME NEW u \in Thread, async'[u] # "no", IsCurrent(u)'
               PROVE  CoreOf[u] = running_core' /\ halted'
    BY Zenon
  <2>1. IsCurrent(u) /\ async[u] # "no" /\ (halted => halted')
    BY Zenon DEF IsCurrent, ResumeFromWait, PrepareReschedule
  <2> QED
    BY Zenon, <2>1 DEF WakeInv, AsyncSound
<1>3. MissedThread'
  BY Zenon, OtherFault
<1>4. \A u \in wakeup_callback_table' : u \in Thread /\ u \in wakeup_callback_table
  BY Zenon DEF IInv, TypeOK
<1> QED
  BY Zenon, <1>1, <1>2, <1>3, <1>4, WakeFrame DEF IInv

\* A timeout is due: its thread was created and is not dead, so at() misses it only
\* if it is one that was stopped and waits again.
LEMMA TimerWake ==
    ASSUME IInv, WakeInv, NEW t \in Thread, ThreadWakeupCallback(t)
    PROVE  WakeInv'
<1>1. /\ running_core \in Core /\ <<t, running_core>> \in wakeup_event
      /\ wakeup_event' \subseteq wakeup_event
      /\ async' = async /\ fault = "none"
      /\ UNCHANGED <<wakeup_callback_table, running_core>>
  BY Zenon DEF ThreadWakeupCallback, WakeUp, IInv, TypeOK, Quiet
<1>2. async[t] = "no" /\ status[t] \notin {"New", "Dead"}
  BY Zenon, <1>1 DEF WakeInv, AsyncSound, TimersAlive
<1>3. CASE t \in wakeup_callback_table /\ status[t] \in {"Wait", "Dormant"}
  <2>1. ResumeFromWait(t) /\ UNCHANGED fault
    BY Zenon, <1>3 DEF ThreadWakeupCallback, WakeUp
  <2> QED
    BY Zenon, <1>1, <1>2, <2>1, ResumeWake
<1>4. CASE ~(t \in wakeup_callback_table /\ status[t] \in {"Wait", "Dormant"})
  <2>1. /\ UNCHANGED <<status, current_thread, halted>>
        /\ fault' = fault \/ t \notin wakeup_callback_table
    BY Zenon, <1>4 DEF ThreadWakeupCallback, WakeUp, threadVars
  <2>2. MissedThread'
    <3>1. CASE fault' = fault
      BY Zenon, <1>1, <3>1, OtherFault
    <3>2. CASE t \notin wakeup_callback_table
      BY Zenon, <1>1, <1>2, <2>1, <3>2 DEF MissedThread
    <3> QED
      BY Zenon, <2>1, <3>1, <3>2
  <2>3. \A u \in Thread : async'[u] # "no" /\ IsCurrent(u)' => CoreOf[u] = running_core' /\ halted'
    BY Zenon, <1>1, <2>1 DEF WakeInv, AsyncSound, IsCurrent
  <2>4. \A u \in wakeup_callback_table' : u \in Thread /\ u \in wakeup_callback_table
    BY Zenon, <1>1 DEF IInv, TypeOK
  <2> QED
    BY Zenon, <1>1, <2>1, <2>2, <2>3, <2>4, WakeFrame DEF IInv
<1> QED
  BY Zenon, <1>3, <1>4

\* The wakeup of a RunAsync job is due.
LEMMA AsyncWake ==
    ASSUME IInv, WakeInv, NEW t \in Thread, AsyncWakeup(t)
    PROVE  WakeInv'
<1>1. /\ UNCHANGED <<wakeup_event, wakeup_callback_table, running_core>> /\ fault = "none"
      /\ async' = [async EXCEPT ![t] = "no"]
  BY Zenon DEF AsyncWakeup, WakeUp, Quiet
<1>2. async'[t] = "no" /\ \A u \in Thread : async'[u] # "no" => async[u] # "no"
  BY Zenon, <1>1 DEF IInv, TypeOK
<1>3. CASE t \in wakeup_callback_table /\ status[t] \in {"Wait", "Dormant"}
  <2>1. ResumeFromWait(t) /\ UNCHANGED fault
    BY Zenon, <1>3 DEF AsyncWakeup, WakeUp
  <2> QED
    BY Zenon, <1>1, <1>2, <2>1, ResumeWake
<1>4. CASE ~(t \in wakeup_callback_table /\ status[t] \in {"Wait", "Dormant"})
  <2>1. UNCHANGED <<status, current_thread, halted>> /\ fault' # "bad_wakeup"
    BY Zenon, <1>1, <1>4 DEF AsyncWakeup, WakeUp, threadVars
  <2>2. ~halted
    BY Zenon, AdvancingLemma DEF AsyncWakeup
  <2> QED
    BY Zenon, <1>1, <1>2, <2>1, <2>2, QuietWake
<1> QED
  BY Zenon, <1>3, <1>4

\* A service or a supervisor call wakes a thread.
LEMMA SignalWake ==
    ASSUME IInv, WakeInv, NEW t \in Thread, EventSignal(t) \/ SvcSignal(t)
    PROVE  WakeInv'
<1>1. /\ ResumeFromWait(t) /\ async[t] = "no" /\ async' = async /\ wakeup_event' = wakeup_event
      /\ UNCHANGED <<wakeup_callback_table, running_core, fault>> /\ fault = "none"
  BY Zenon DEF EventSignal, SvcSignal, tableVars, Quiet
<1> QED
  BY Zenon, <1>1, ResumeWake

\* The thread that executes has no wakeup of any kind on its way.
LEMMA CallerSilent ==
    ASSUME IInv, WakeInv, Executing, ~halted \/ status[Caller] = "Running"
    PROVE  /\ Caller \in Thread /\ CoreOf[Caller] = running_core
           /\ async[Caller] = "no"
           /\ \A c \in Core : <<Caller, c>> \notin wakeup_event
<1>1. /\ running_core \in Core /\ Caller \in Thread /\ Caller # NoThread
      /\ Caller = current_thread[running_core] /\ CoreOf[Caller] = running_core
  BY Zenon, SchedulerAssumption DEF Executing, Caller, IInv, TypeOK, RunningIsCurrent
<1>2. IsCurrent(Caller) /\ status[Caller] \in {"Running", "Dead"}
  BY Zenon, <1>1, NotHaltedLemma DEF IsCurrent
<1>3. async[Caller] = "no"
  BY Zenon, <1>1, <1>2 DEF WakeInv, AsyncSound
<1>4. \A c \in Core : <<Caller, c>> \notin wakeup_event
  BY Zenon, <1>1, <1>2 DEF WakeInv, TimersAlive, IInv, TimersCancelled
<1> QED
  BY Zenon, <1>1, <1>3, <1>4

\* The running thread begins to wait.
LEMMA WaitWake ==
    ASSUME IInv, WakeInv, NEW timed \in BOOLEAN, SvcWait(timed)
    PROVE  WakeInv'
<1> DEFINE t == Caller
<1>1. /\ t \in Thread /\ CoreOf[t] = running_core /\ async[t] = "no"
  BY Zenon, CallerSilent DEF SvcWait
<1>2. /\ status' = [status EXCEPT ![t] = "Wait"] /\ async' = async /\ halted' = TRUE
      /\ wakeup_event' \subseteq wakeup_event \cup {<<t, running_core>>}
      /\ UNCHANGED <<wakeup_callback_table, current_thread, running_core, fault>>
      /\ fault = "none"
  BY Zenon DEF SvcWait, PrepareReschedule, Executing, Quiet
<1> HIDE DEF t
<1>3. \A u \in Thread : status'[u] = IF u = t THEN "Wait" ELSE status[u]
  BY Zenon, <1>2 DEF IInv, TypeOK
<1>4. \A u \in Thread : \/ status'[u] = status[u]
                        \/ async'[u] = "no" /\ status'[u] \notin {"New", "Dead"}
  BY <1>1, <1>2, <1>3
<1>5. ASSUME NEW u \in Thread, NEW c \in Core, <<u, c>> \in wakeup_event'
      PROVE  \/ <<u, c>> \in wakeup_event
             \/ async'[u] = "no" /\ status'[u] \notin {"New", "Dead"}
  <2>1. <<u, c>> \in wakeup_event \/ <<u, c>> = <<t, running_core>>
    BY Zenon, <1>2, <1>5
  <2>2. <<u, c>> \in wakeup_event \/ u = t
    BY <2>1
  <2> QED
    BY <1>1, <1>2, <1>3, <2>2
<1>6. \A u \in Thread : async'[u] # "no" /\ IsCurrent(u)' => CoreOf[u] = running_core' /\ halted'
  BY Zenon, <1>2 DEF WakeInv, AsyncSound, IsCurrent
<1>7. MissedThread'
  BY Zenon, <1>2, OtherFault
<1>8. \A u \in wakeup_callback_table' : u \in Thread /\ u \in wakeup_callback_table
  BY Zenon, <1>2 DEF IInv, TypeOK
<1> QED
  BY Zenon, <1>2, <1>4, <1>5, <1>6, <1>7, <1>8, WakeFrame DEF IInv

\* The running thread begins to wait for a RunAsync job.
LEMMA RunAsyncWake ==
    ASSUME IInv, WakeInv, SvcRunAsync
    PROVE  WakeInv'
<1> DEFINE t == Caller
<1>1. /\ t \in Thread /\ CoreOf[t] = running_core /\ async[t] = "no"
      /\ \A c \in Core : <<t, c>> \notin wakeup_event
  BY Zenon, CallerSilent DEF SvcRunAsync
<1>2. /\ status' = [status EXCEPT ![t] = "Wait"] /\ async' = [async EXCEPT ![t] = "job"]
      /\ halted' = TRUE
      /\ UNCHANGED <<wakeup_event, wakeup_callback_table, current_thread, running_core, fault>>
      /\ fault = "none"
  BY Zenon DEF SvcRunAsync, PrepareReschedule, Executing, Quiet
<1> HIDE DEF t
<1>3. \A u \in Thread : /\ status'[u] = IF u = t THEN "Wait" ELSE status[u]
                        /\ async'[u] = IF u = t THEN "job" ELSE async[u]
  BY Zenon, <1>2 DEF IInv, TypeOK
<1>4. TimersAlive'
  BY <1>2, <1>3 DEF WakeInv, TimersAlive
<1>5. TableAlive'
  BY Zenon, <1>2, <1>3 DEF WakeInv, TableAlive, IInv, TypeOK
<1>6. AsyncSound'
  BY Zenon, <1>1, <1>2, <1>3 DEF WakeInv, AsyncSound, IsCurrent
<1>7. MissedThread'
  BY Zenon, <1>2, OtherFault
<1> QED
  BY Zenon, <1>4, <1>5, <1>6, <1>7 DEF WakeInv

\* A thread is created; it had no wakeup before.
LEMMA CreateWake ==
    ASSUME IInv, WakeInv, NEW t \in Thread, NEW p, NEW st \in {"Ready", "Dormant", "Wait"},
           CreateThread(t, p, st), fault = "none",
           wakeup_event' \subseteq wakeup_event \cup {<<t, running_core>>},
           UNCHANGED <<async, running_core, fault>>, halted => halted'
    PROVE  WakeInv'
<1>1. /\ status[t] = "New" /\ status' = [status EXCEPT ![t] = st]
      /\ wakeup_callback_table' = wakeup_callback_table \cup {t}
      /\ current_thread' = current_thread
  BY Zenon DEF CreateThread
<1>2. async'[t] = "no" /\ st \notin {"New", "Dead"}
  BY Zenon, <1>1 DEF WakeInv, AsyncSound
<1>3. \A u \in Thread : status'[u] = IF u = t THEN st ELSE status[u]
  BY Zenon, <1>1 DEF IInv, TypeOK
<1>4. \A u \in Thread : \/ status'[u] = status[u]
                        \/ async'[u] = "no" /\ status'[u] \notin {"New", "Dead"}
  BY Zenon, <1>2, <1>3
<1>5. ASSUME NEW u \in Thread, NEW c \in Core, <<u, c>> \in wakeup_event'
      PROVE  \/ <<u, c>> \in wakeup_event
             \/ async'[u] = "no" /\ status'[u] \notin {"New", "Dead"}
  <2>1. <<u, c>> \in wakeup_event \/ <<u, c>> = <<t, running_core>>
    BY Zenon, <1>5
  <2>2. <<u, c>> \in wakeup_event \/ u = t
    BY <2>1
  <2> QED
    BY Zenon, <1>2, <1>3, <2>2
<1>6. \A u \in wakeup_callback_table' :
         u \in Thread /\ (u \in wakeup_callback_table \/ status'[u] \notin {"New", "Dead"})
  BY Zenon, <1>1, <1>2, <1>3 DEF IInv, TypeOK
<1>7. \A u \in Thread : async'[u] # "no" /\ IsCurrent(u)' => CoreOf[u] = running_core' /\ halted'
  BY Zenon, <1>1 DEF WakeInv, AsyncSound, IsCurrent
<1>8. MissedThread'
  BY Zenon, OtherFault
<1>9. \A u \in Thread : async'[u] # "no" => async[u] # "no"
  BY Zenon
<1> QED
  BY Zenon, <1>4, <1>5, <1>6, <1>7, <1>8, <1>9, WakeFrame DEF IInv

\* A thread is stopped: it loses its timeouts and its place in the table, not the
\* wakeup of a RunAsync job that is not queued yet.
LEMMA StopWake ==
    ASSUME IInv, WakeInv, NEW t \in Thread, StopThread(t), fault = "none",
           UNCHANGED <<running_core, fault>>, halted => halted'
    PROVE  WakeInv'
<1>1. /\ status' = [status EXCEPT ![t] = "Dead"]
      /\ wakeup_callback_table' = wakeup_callback_table \ {t}
      /\ wakeup_event' = {e \in wakeup_event : e[1] # t}
      /\ current_thread' = current_thread
  BY Zenon DEF StopThread
<1>2. \A u \in Thread : status'[u] = IF u = t THEN "Dead" ELSE status[u]
  BY Zenon, <1>1 DEF IInv, TypeOK
<1>3. \A c \in Core : <<t, c>> \notin wakeup_event'
  BY <1>1
<1>4. \A u \in Thread, c \in Core : <<u, c>> \in wakeup_event' => <<u, c>> \in wakeup_event
  BY Zenon, <1>1
<1>5. \A u \in Thread :
         \/ status'[u] = status[u]
         \/ /\ status'[u] = "Dead" /\ u \notin wakeup_callback_table'
            /\ \A c \in Core : <<u, c>> \notin wakeup_event'
  BY Zenon, <1>1, <1>2, <1>3
<1>6. \A u \in Thread : async'[u] # "no" => async[u] # "no"
  BY Zenon, AsyncLoop DEF IInv, TypeOK, AsyncTyped
<1>7. \A u \in wakeup_callback_table' : u \in Thread /\ u \in wakeup_callback_table
  BY Zenon, <1>1 DEF IInv, TypeOK
<1>8. \A u \in Thread : async'[u] # "no" /\ IsCurrent(u)' => CoreOf[u] = running_core' /\ halted'
  <2> SUFFICES ASSUME NEW u \in Thread, async'[u] # "no", IsCurrent(u)'
               PROVE  CoreOf[u] = running_core' /\ halted'
    BY Zenon
  <2>1. IsCurrent(u) /\ async[u] # "no"
    BY Zenon, <1>1, <1>6 DEF IsCurrent
  <2> QED
    BY Zenon, <2>1 DEF WakeInv, AsyncSound
<1>9. MissedThread'
  BY Zenon, OtherFault
<1> QED
  BY Zenon, <1>4, <1>5, <1>6, <1>7, <1>8, <1>9, WakeFrame DEF IInv

\* Every step keeps the wakeups and their threads consistent.
LEMMA WakeStep ==
    ASSUME IInv, WakeInv, [Next]_vars
    PROVE  WakeInv'
<1>1. CASE \/ NotBehind \/ FoundBehind \/ SyncReschedule \/ AdvanceReschedule \/ EndSlice
           \/ \E t \in Thread : ChangeUnscheduleMode(t)
  BY Zenon, <1>1, LoopWake
<1>2. CASE \E t \in Thread : TerminateProcessThread(t)
  <2>1. PICK t \in Thread : TerminateProcessThread(t)
    BY Zenon, <1>2
  <2>2. /\ StopThread(t) /\ fault = "none" /\ UNCHANGED <<running_core, fault>>
        /\ halted => halted'
    BY Zenon, <2>1 DEF TerminateProcessThread, PrepareReschedule
  <2> QED
    BY Zenon, <2>2, StopWake
<1>3. CASE SvcExitThread
  <2>1. /\ StopThread(Caller) /\ fault = "none" /\ UNCHANGED <<running_core, fault>>
        /\ halted => halted'
    BY Zenon, <1>3 DEF SvcExitThread, PrepareReschedule, Quiet
  <2>2. Caller \in Thread
    BY Zenon, <1>3 DEF SvcExitThread, Executing, Caller, IInv, TypeOK
  <2> QED
    BY Zenon, <2>1, <2>2, StopWake
<1>4. CASE \E t \in Thread : ThreadWakeupCallback(t)
  BY Zenon, <1>4, TimerWake
<1>5. CASE \E t \in Thread : AsyncWakeup(t)
  BY Zenon, <1>5, AsyncWake
<1>6. CASE \E t \in Thread : EventSignal(t) \/ SvcSignal(t)
  BY Zenon, <1>6, SignalWake
<1>7. CASE \E timed \in BOOLEAN : SvcWait(timed)
  BY Zenon, <1>7, WaitWake
<1>8. CASE SvcRunAsync
  BY Zenon, <1>8, RunAsyncWake
<1>9. CASE \E t \in Thread, p \in Priority, st \in {"Ready", "Dormant"} : SvcCreateThread(t, p, st)
  <2>1. PICK t \in Thread, p \in Priority, st \in {"Ready", "Dormant"} : SvcCreateThread(t, p, st)
    BY Zenon, <1>9
  <2>2. /\ CreateThread(t, p, st) /\ fault = "none" /\ wakeup_event' = wakeup_event
        /\ UNCHANGED <<async, running_core, fault>> /\ (halted => halted')
        /\ st \in {"Ready", "Dormant", "Wait"}
    BY Zenon, <2>1 DEF SvcCreateThread, PrepareReschedule, Quiet
  <2> QED
    BY Zenon, <2>2, CreateWake
<1>10. CASE \E t \in Thread, p \in Priority, delayed \in BOOLEAN : ProcessRun(Owner[t], t, p, delayed)
  <2>1. PICK t \in Thread, p \in Priority, delayed \in BOOLEAN : ProcessRun(Owner[t], t, p, delayed)
    BY Zenon, <1>10
  <2> DEFINE st == IF delayed THEN "Wait" ELSE "Ready"
  <2>2. /\ CreateThread(t, p, st) /\ fault = "none"
        /\ wakeup_event' \subseteq wakeup_event \cup {<<t, running_core>>}
        /\ UNCHANGED <<async, running_core, fault>> /\ (halted => halted')
        /\ st \in {"Ready", "Dormant", "Wait"}
    BY Zenon, <2>1 DEF ProcessRun, loopVars, Quiet
  <2> HIDE DEF st
  <2> QED
    BY Zenon, <2>2, CreateWake
<1>11. CASE \E t \in Thread, p \in Priority : SetPriority(t, p)
  <2>1. /\ UNCHANGED <<status, wakeup_event, wakeup_callback_table, current_thread, running_core,
                       async, fault>>
        /\ fault = "none" /\ (halted => halted')
    BY Zenon, <1>11 DEF SetPriority, PrepareReschedule, tableVars
  <2> QED
    BY Zenon, <2>1, QuietWake
<1>12. CASE \/ \E pr \in Process : SvcTerminateProcess(pr)
            \/ TerminateProcessDone
            \/ \E t \in Thread : SvcUnschedule(t) \/ AsyncJobEnds(t)
  <2>1. /\ UNCHANGED <<status, wakeup_event, wakeup_callback_table, current_thread, running_core>>
        /\ fault = "none" /\ fault' # "bad_wakeup" /\ (halted => halted')
    <3>1. CASE \E pr \in Process : SvcTerminateProcess(pr)
      <4>1. fault = "none" /\ fault' \in {fault, "process_exited"}
        BY Zenon, <3>1 DEF SvcTerminateProcess, Quiet
      <4> QED
        BY Zenon, <3>1, <4>1 DEF SvcTerminateProcess, threadVars, tableVars, loopVars
    <3>2. CASE TerminateProcessDone \/ \E t \in Thread : SvcUnschedule(t) \/ AsyncJobEnds(t)
      <4>1. UNCHANGED <<threadVars, wakeup_callback_table, wakeup_event, loopVars, fault>>
        BY Zenon, <3>2 DEF TerminateProcessDone, SvcUnschedule, AsyncJobEnds, tableVars
      <4>2. fault = "none"
        BY Zenon, <3>2 DEF TerminateProcessDone, SvcUnschedule, AsyncJobEnds, Quiet
      <4> QED
        BY Zenon, <4>1, <4>2 DEF threadVars, loopVars
    <3> QED
      BY Zenon, <1>12, <3>1, <3>2
  <2>2. \A t \in Thread : async'[t] # "no" => async[t] # "no"
    BY Zenon, <1>12 DEF SvcTerminateProcess, TerminateProcessDone, SvcUnschedule, AsyncJobEnds,
       tableVars, IInv, TypeOK
  <2> QED
    BY Zenon, <2>1, <2>2, QuietWake
<1>13. CASE UNCHANGED vars
  BY Zenon, <1>13 DEF vars, threadVars, tableVars, loopVars, WakeInv, TimersAlive, TableAlive,
     AsyncSound, MissedThread, IsCurrent
<1> QED
  BY Zenon, <1>1, <1>2, <1>3, <1>4, <1>5, <1>6, <1>7, <1>8, <1>9, <1>10, <1>11, <1>12, <1>13
     DEF Next, LoopStep, Crashed

\* The wakeups and their threads are consistent in every reachable state.
THEOREM WakeupInvariant == Spec => []WakeInv
<1>1. Init => WakeInv
  BY Zenon DEF Init, WakeInv, TimersAlive, TableAlive, AsyncSound, MissedThread
<1>2. IInv /\ WakeInv /\ [Next]_vars => WakeInv'
  BY Zenon, WakeStep
<1> QED
  BY <1>1, <1>2, InductiveInvariant, PTL DEF Spec

\* No timeout of a dead thread is left on a timer, a wakeup of a RunAsync job finds its
\* client in the wait it was posted for or stopped, and at() misses the thread of a
\* timeout only if that thread was stopped from another core and waits again: for any
\* number of threads and cores.
THEOREM TimeoutsFindTheirThread == Spec => []WakeupFindsThread
<1>1. IInv /\ WakeInv => WakeupFindsThread
  <2> SUFFICES ASSUME IInv, WakeInv PROVE WakeupFindsThread
    BY Zenon
  <2>1. \A t \in Thread, c \in Core : <<t, c>> \in wakeup_event => status[t] # "Dead"
    BY Zenon DEF WakeInv, TimersAlive
  <2>2. fault = "bad_wakeup" =>
           \E t \in Thread \ wakeup_callback_table : status[t] \notin {"New", "Dead"}
    BY Zenon DEF WakeInv, MissedThread
  <2>3. \A t \in wakeup_callback_table : async[t] # "no" => status[t] = "Wait"
    BY Zenon DEF IInv, TypeOK, WakeInv, TableAlive, AsyncSound
  <2> QED
    BY Zenon, <2>1, <2>2, <2>3 DEF WakeupFindsThread
<1> QED
  BY <1>1, InductiveInvariant, WakeupInvariant, PTL

\* A thread that runs has no timeout left on any timer, and no wakeup of a RunAsync job
\* is on its way to it.
THEOREM NoStaleTimeout == Spec => []TimeoutCancelled
<1>1. IInv /\ WakeInv => TimeoutCancelled
  BY Zenon DEF IInv, WakeInv, TimersCancelled, AsyncSound, TimeoutCancelled
<1> QED
  BY <1>1, InductiveInvariant, WakeupInvariant, PTL

=============================================================================
