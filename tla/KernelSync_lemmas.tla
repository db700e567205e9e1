-------------------------- MODULE KernelSync_lemmas --------------------------
(***************************************************************************)
(* The inductive invariant of KernelSync, lemmas about its operators, and  *)
(* the steps of a call that is under way, each of which preserves it.      *)
(***************************************************************************)
EXTENDS KernelSync, Lists_lemmas

-----------------------------------------------------------------------------
(* The inductive invariant.  A failed assertion ends the emulation, so most *)
(* of it is claimed only while none has failed.                             *)

\* The lists of the objects, in the middle of a call too.
ListsInv ==
    /\ \A o \in Object : Distinct(waiting_threads[o])
    /\ \A t \in Thread, o \in Object : Has(waiting_threads[o], t) => Has(wait_objects[t], o)
    /\ \A t \in Thread : pending_mutexes[t] = {m \in Mutex : Has(waiting_threads[m], t)}

\* A thread is on the list of an object it waits for, unless the loop that
\* puts it there or takes it away is under way.
ListedInv ==
    \A t \in Thread, o \in Object : Has(wait_objects[t], o) =>
        \/ Has(waiting_threads[o], t)
        \/ subject = t /\ doing = "add" /\ Has(rest, o)
        \/ subject = t /\ doing = "remove"

RemoveInv ==
    doing = "remove" =>
        \A o \in Object : Has(waiting_threads[o], subject) => Has(rest, o)

\* Which loops may be under way, and for whom.
LoopInv ==
    /\ doing = "nothing" => subject = None /\ rest = <<>>
    /\ doing # "nothing" => subject \in Thread /\ updating = {}
    /\ doing = "acquire" /\ waking = None => status[subject] = "Running" /\ stopping = None
    /\ doing = "acquire" /\ waking # None => status[subject] \in Waits
    /\ doing = "add" =>
         /\ waking = None /\ stopping = None /\ status[subject] \in Waits
         /\ \A o \in Object : Has(rest, o) => Has(wait_objects[subject], o)
    /\ doing = "remove" => status[subject] \in Waits \/ (stopping = subject /\ waking = None)
    /\ updating # {} => waking = None /\ stopping = None
    /\ stopping # None => status[stopping] = "Dead"

StatusInv ==
    \A t \in Thread : wait_objects[t] # <<>> => status[t] \in Waits \/ stopping = t

OwnInv ==
    /\ \A m \in Mutex : lock_count[m] > 0 <=> holding_thread[m] # None
    /\ \A m \in Mutex, t \in Thread : holding_thread[m] = t =>
         m \in held_mutexes[t] /\ (status[t] # "Dead" \/ stopping = t)
    /\ \A m \in Mutex, t \in Thread : m \in held_mutexes[t] =>
         holding_thread[m] = t \/ stopping = t

\* Only the object that is being signalled can satisfy a wait that goes on.
WaitGoesOn(t) ==
    status[t] \in Waits /\ ~(subject = t /\ doing \in {"acquire", "remove"})

WakeInv ==
    \A t \in Thread : WaitGoesOn(t) =>
        IF status[t] = "WaitSynchAll"
        THEN \/ \E o \in Object : Has(wait_objects[t], o) /\ ShouldWait(o, t)
             \/ Has(wait_objects[t], waking)
        ELSE \A o \in Object : Has(wait_objects[t], o) /\ ~ShouldWait(o, t) => o = waking

CallInv ==
    ListsInv /\ ListedInv /\ RemoveInv /\ LoopInv /\ StatusInv /\ OwnInv /\ WakeInv

IInv == TypeOK /\ PriorityInherited /\ (fault = "none" => CallInv)

-----------------------------------------------------------------------------
(* Lemmas *)

\* The constants of KernelSync, as the leaves need them.
LEMMA Kinds ==
    /\ \A o \in Mutex : o \in Object /\ o \notin Semaphore /\ o \notin Event /\ o \notin Thread
    /\ \A o \in Semaphore : o \in Object /\ o \notin Event /\ o \notin Thread
    /\ \A o \in Event : o \in Object /\ o \notin Thread
    /\ Thread \subseteq Object
    /\ None \notin Object /\ None \notin Thread /\ None \notin Mutex
  BY Zenon, KernelSyncAssumption DEF Object

LEMMA EmptyList == \A S : <<>> \in Seq(S)
  OBVIOUS

\* The best priority of a set is one of the set.
LEMMA BestPriorityLemma ==
    ASSUME NEW ps, ps \subseteq Priority, ps # {}
    PROVE  /\ BestPriority(ps) \in ps
           /\ \A q \in ps : BestPriority(ps) <= q
<1>1. ps \subseteq Nat
  BY KernelSyncAssumption DEF Priority
<1>2. \E m \in ps : \A x \in ps : m <= x
  BY Zenon, <1>1, LeastNat
<1> QED
  BY Zenon, <1>2 DEF BestPriority

\* An inherited priority is a priority.
LEMMA InheritedType ==
    ASSUME NEW p \in Priority, NEW ms \in SUBSET Mutex, NEW mp \in [Mutex -> Priority]
    PROVE  BestPriority({p} \cup {mp[m] : m \in ms}) \in Priority
<1> DEFINE ps == {p} \cup {mp[m] : m \in ms}
<1>1. ps \subseteq Priority /\ ps # {}
  BY Zenon
<1> HIDE DEF ps
<1>2. BestPriority(ps) \in ps
  BY Zenon, <1>1, BestPriorityLemma
<1> QED
  BY Zenon, <1>1, <1>2 DEF ps

\* The best priority among waiting threads is a priority.
LEMMA BestWaiterType ==
    ASSUME TypeOK, NEW w \in Seq(Thread)
    PROVE  BestWaiter(w) \in Priority
<1> DEFINE ps == {ThreadPrioLowest} \cup {current_priority[w[i]] : i \in DOMAIN w}
<1>1. \A i \in DOMAIN w : w[i] \in Thread
  OBVIOUS
<1>2. ThreadPrioLowest \in Priority
  BY KernelSyncAssumption DEF Priority
<1>3. ps \subseteq Priority /\ ps # {}
  BY <1>1, <1>2 DEF TypeOK
<1> HIDE DEF ps
<1>4. BestPriority(ps) \in ps
  BY Zenon, <1>3, BestPriorityLemma
<1> QED
  BY Zenon, <1>3, <1>4 DEF ps, BestWaiter

\* A thread's inherited priority depends only on the mutexes it holds.
LEMMA InheritedFrame ==
    ASSUME NEW p, NEW ms, NEW f, NEW g, \A m \in ms : f[m] = g[m]
    PROVE  BestPriority({p} \cup {f[m] : m \in ms}) = BestPriority({p} \cup {g[m] : m \in ms})
<1>1. {f[m] : m \in ms} = {g[m] : m \in ms}
  BY Zenon
<1> QED
  BY Zenon, <1>1

\* Priorities stay inherited where neither mutexes nor holders change.
LEMMA PriorityFrame ==
    ASSUME PriorityInherited,
           UNCHANGED <<nominal_priority, current_priority, held_mutexes, priority>>,
           \A t \in Thread : status'[t] # "Dead" => status[t] # "Dead"
    PROVE  PriorityInherited'
  BY Zenon DEF PriorityInherited, InheritedPriority

\* What an object does to a wait that is not over depends on these only.
LEMMA WakeFrame ==
    ASSUME WakeInv, TypeOK,
           waking' = waking,
           \A t \in Thread : WaitGoesOn(t)' =>
               /\ WaitGoesOn(t)
               /\ status'[t] = status[t]
               /\ wait_objects'[t] = wait_objects[t]
               /\ \A o \in Object : ShouldWait(o, t) => ShouldWait(o, t)'
    PROVE  WakeInv'
<1> SUFFICES ASSUME NEW t \in Thread, WaitGoesOn(t)'
             PROVE  IF status'[t] = "WaitSynchAll"
                    THEN \/ \E o \in Object : Has(wait_objects'[t], o) /\ ShouldWait(o, t)'
                         \/ Has(wait_objects'[t], waking')
                    ELSE \A o \in Object :
                            Has(wait_objects'[t], o) /\ ~ShouldWait(o, t)' => o = waking'
  BY Zenon DEF WakeInv
<1> QED
  BY Zenon DEF WakeInv

\* Mutex::UpdatePriority keeps the types and the inherited priorities.
LEMMA UpdatePriorityLemma ==
    ASSUME TypeOK, PriorityInherited, OwnInv, LoopInv,
           NEW m \in Mutex, NEW w \in Seq(Thread), UpdatePriority(m, w),
           UNCHANGED <<nominal_priority, status, held_mutexes>>
    PROVE  /\ priority' \in [Mutex -> Priority]
           /\ current_priority' \in [Thread -> Priority]
           /\ PriorityInherited'
<1> DEFINE h == holding_thread[m]
<1>1. CASE h = None \/ BestWaiter(w) = priority[m]
  <2>1. UNCHANGED <<priority, current_priority>>
    BY Zenon, <1>1 DEF UpdatePriority
  <2> QED
    BY ZenonT(40), <2>1 DEF TypeOK, PriorityInherited, InheritedPriority
<1>2. CASE ~(h = None \/ BestWaiter(w) = priority[m])
  <2>1. h \in Thread /\ m \in held_mutexes[h]
    BY Zenon, <1>2 DEF TypeOK, OwnInv
  <2>2. /\ priority' = [priority EXCEPT ![m] = BestWaiter(w)]
        /\ current_priority' =
             [current_priority EXCEPT ![h] = InheritedPriority(h, held_mutexes[h], priority')]
    BY Zenon, <1>2 DEF UpdatePriority
  <2>3. priority' \in [Mutex -> Priority]
    BY Zenon, <2>2, BestWaiterType DEF TypeOK
  <2>4. InheritedPriority(h, held_mutexes[h], priority') \in Priority
    <3>1. nominal_priority[h] \in Priority /\ held_mutexes[h] \in SUBSET Mutex
      BY Zenon, <2>1 DEF TypeOK
    <3> QED
      BY Zenon, <2>3, <3>1, InheritedType DEF InheritedPriority
  <2>5. current_priority' \in [Thread -> Priority]
    BY Zenon, <2>2, <2>4 DEF TypeOK
  <2>6. ASSUME NEW t \in Thread, status'[t] # "Dead"
        PROVE  current_priority'[t] =
                 BestPriority({nominal_priority'[t]} \cup {priority'[n] : n \in held_mutexes'[t]})
    <3>1. CASE t = h
      BY Zenon, <2>1, <2>2, <3>1 DEF TypeOK, InheritedPriority
    <3>2. CASE t # h
      <4>1. m \notin held_mutexes[t]
        BY Zenon, <2>6, <3>2, Kinds DEF OwnInv, LoopInv
      <4>2. \A n \in held_mutexes[t] : priority[n] = priority'[n]
        BY Zenon, <2>2, <4>1 DEF TypeOK
      <4>3. current_priority'[t] = current_priority[t]
        BY Zenon, <2>2, <3>2 DEF TypeOK
      <4>4. current_priority[t] =
              BestPriority({nominal_priority[t]} \cup {priority[n] : n \in held_mutexes[t]})
        BY Zenon, <2>6 DEF PriorityInherited, InheritedPriority
      <4> QED
        BY Zenon, <4>2, <4>3, <4>4, InheritedFrame
    <3> QED
      BY Zenon, <3>1, <3>2
  <2> QED
    BY Zenon, <2>3, <2>5, <2>6 DEF PriorityInherited, InheritedPriority
<1> QED
  BY Zenon, <1>1, <1>2

\* So does Mutex::Acquire, by a thread that is not dead.
LEMMA AcquireMutexLemma ==
    ASSUME TypeOK, PriorityInherited, OwnInv, LoopInv,
           NEW m \in Mutex, NEW t \in Thread, AcquireMutex(m, t),
           status[t] # "Dead", UNCHANGED <<nominal_priority, status>>
    PROVE  /\ lock_count' \in [Mutex -> Nat]
           /\ holding_thread' \in [Mutex -> Thread \cup {None}]
           /\ held_mutexes' \in [Thread -> SUBSET Mutex]
           /\ priority' \in [Mutex -> Priority]
           /\ current_priority' \in [Thread -> Priority]
           /\ PriorityInherited'
<1>0. lock_count' = [lock_count EXCEPT ![m] = @ + 1]
  BY Zenon DEF AcquireMutex
<1>1. CASE lock_count[m] > 0
  <2>1. UNCHANGED <<priority, held_mutexes, holding_thread, current_priority>>
    BY Zenon, <1>1 DEF AcquireMutex
  <2>2. lock_count' \in [Mutex -> Nat]
    BY <1>0 DEF TypeOK
  <2>3. PriorityInherited'
    BY <2>1 DEF PriorityInherited, InheritedPriority
  <2> QED
    BY Zenon, <2>1, <2>2, <2>3 DEF TypeOK
<1>2. CASE ~(lock_count[m] > 0)
  <2>1. /\ priority' = [priority EXCEPT ![m] = current_priority[t]]
        /\ held_mutexes' = [held_mutexes EXCEPT ![t] = @ \cup {m}]
        /\ holding_thread' = [holding_thread EXCEPT ![m] = t]
        /\ current_priority' =
             [current_priority EXCEPT ![t] = InheritedPriority(t, held_mutexes'[t], priority')]
    BY Zenon, <1>2 DEF AcquireMutex
  <2>2. /\ priority' \in [Mutex -> Priority]
        /\ held_mutexes' \in [Thread -> SUBSET Mutex]
        /\ holding_thread' \in [Mutex -> Thread \cup {None}]
        /\ lock_count' \in [Mutex -> Nat]
    BY <1>0, <2>1 DEF TypeOK
  <2>3. held_mutexes'[t] \in SUBSET Mutex
    BY Zenon, <2>2
  <2>4. InheritedPriority(t, held_mutexes'[t], priority') \in Priority
    <3>1. nominal_priority[t] \in Priority
      BY Zenon DEF TypeOK
    <3> QED
      BY Zenon, <2>2, <2>3, <3>1, InheritedType DEF InheritedPriority
  <2>5. current_priority' \in [Thread -> Priority]
    BY Zenon, <2>1, <2>4 DEF TypeOK
  <2>6. ASSUME NEW u \in Thread, status'[u] # "Dead"
        PROVE  current_priority'[u] =
                 BestPriority({nominal_priority'[u]} \cup {priority'[n] : n \in held_mutexes'[u]})
    <3>1. CASE u = t
      BY Zenon, <2>1, <3>1 DEF TypeOK, InheritedPriority
    <3>2. CASE u # t
      <4>1. m \notin held_mutexes[u]
        BY Zenon, <1>2, <2>6, Kinds DEF OwnInv, LoopInv
      <4>2. held_mutexes'[u] = held_mutexes[u]
        BY Zenon, <2>1, <3>2 DEF TypeOK
      <4>3. \A n \in held_mutexes[u] : priority[n] = priority'[n]
        BY Zenon, <2>1, <4>1 DEF TypeOK
      <4>4. current_priority'[u] = current_priority[u]
        BY Zenon, <2>1, <3>2 DEF TypeOK
      <4>5. current_priority[u] =
              BestPriority({nominal_priority[u]} \cup {priority[n] : n \in held_mutexes[u]})
        BY Zenon, <2>6 DEF PriorityInherited, InheritedPriority
      <4> QED
        BY Zenon, <4>2, <4>3, <4>4, <4>5, InheritedFrame
    <3> QED
      BY Zenon, <3>1, <3>2
  <2> QED
    BY Zenon, <2>2, <2>5, <2>6 DEF PriorityInherited, InheritedPriority
<1> QED
  BY Zenon, <1>1, <1>2

\* A change of the list of one object: the types, the priorities and the
\* ownership are kept, and whether an object is available does not change.
LEMMA RelistLemma ==
    ASSUME IInv, fault = "none",
           NEW o \in Object, NEW t \in Thread, NEW w \in Seq(Thread),
           NEW pending \in SUBSET Mutex, Relist(o, t, w, pending),
           UNCHANGED <<subject, doing, waking, updating, stopping>>,
           rest' \in Seq(Object), done' \in Seq(Object)
    PROVE  /\ TypeOK' /\ PriorityInherited' /\ OwnInv' /\ WakeInv' /\ StatusInv'
           /\ fault' = "none" /\ UNCHANGED <<status, wait_objects>>
           /\ \A x \in Object : waiting_threads'[x] = IF x = o THEN w ELSE waiting_threads[x]
           /\ \A u \in Thread :
                pending_mutexes'[u] = IF u = t /\ o \in Mutex THEN pending ELSE pending_mutexes[u]
<1>1. TypeOK /\ PriorityInherited /\ CallInv
  BY Zenon DEF IInv
<1>2. /\ waiting_threads' = [waiting_threads EXCEPT ![o] = w]
      /\ UNCHANGED <<status, wait_objects, wakeup_event, lock_count, holding_thread, held_mutexes,
                     available_count, signaled, nominal_priority, fault>>
  BY Zenon DEF Relist, threadVars, lockVars, flagVars
<1>3. waiting_threads' \in [Object -> Seq(Thread)]
  BY Zenon, <1>1, <1>2 DEF TypeOK
<1>4. /\ pending_mutexes' \in [Thread -> SUBSET Mutex]
      /\ \A u \in Thread :
           pending_mutexes'[u] = IF u = t /\ o \in Mutex THEN pending ELSE pending_mutexes[u]
  <2>1. CASE o \in Mutex
    <3>1. pending_mutexes' = [pending_mutexes EXCEPT ![t] = pending]
      BY Zenon, <2>1 DEF Relist
    <3> QED
      BY Zenon, <1>1, <2>1, <3>1 DEF TypeOK
  <2>2. CASE o \notin Mutex
    <3>1. pending_mutexes' = pending_mutexes
      BY Zenon, <2>2 DEF Relist
    <3> QED
      BY Zenon, <1>1, <2>2, <3>1 DEF TypeOK
  <2> QED
    BY Zenon, <2>1, <2>2
<1>5. /\ priority' \in [Mutex -> Priority]
      /\ current_priority' \in [Thread -> Priority]
      /\ PriorityInherited'
  <2>1. CASE o \in Mutex
    <3>1. UpdatePriority(o, w)
      BY Zenon, <2>1 DEF Relist
    <3> QED
      BY Zenon, <1>1, <1>2, <2>1, <3>1, UpdatePriorityLemma DEF CallInv
  <2>2. CASE o \notin Mutex
    <3>1. UNCHANGED <<priority, current_priority>>
      BY Zenon, <2>2 DEF Relist
    <3>2. PriorityInherited'
      BY Zenon, <1>1, <1>2, <3>1, PriorityFrame
    <3> QED
      BY Zenon, <1>1, <3>1, <3>2 DEF TypeOK
  <2> QED
    BY Zenon, <2>1, <2>2
<1>6. TypeOK'
  BY Zenon, <1>1, <1>2, <1>3, <1>4, <1>5 DEF TypeOK
<1>7. OwnInv' /\ StatusInv'
  BY Zenon, <1>1, <1>2 DEF CallInv, OwnInv, StatusInv
<1>8. \A x \in Object, u \in Thread : ShouldWait(x, u) => ShouldWait(x, u)'
  BY Zenon, <1>2 DEF ShouldWait
<1>9. WakeInv'
  BY Zenon, <1>1, <1>2, <1>8, WakeFrame DEF CallInv, WaitGoesOn
<1>10. \A x \in Object : waiting_threads'[x] = IF x = o THEN w ELSE waiting_threads[x]
  BY Zenon, <1>1, <1>2 DEF TypeOK
<1> QED
  BY Zenon, <1>2, <1>4, <1>5, <1>6, <1>7, <1>9, <1>10

\* Object x becomes available, nothing else does: only x can satisfy a wait.
LEMMA WakeSignal ==
    ASSUME WakeInv, waking = None, TypeOK,
           NEW x \in Object, waking' = x,
           \A t \in Thread : WaitGoesOn(t)' =>
               /\ WaitGoesOn(t)
               /\ status'[t] = status[t]
               /\ wait_objects'[t] = wait_objects[t]
               /\ \A o \in Object : o # x /\ ShouldWait(o, t) => ShouldWait(o, t)'
    PROVE  WakeInv'
<1> SUFFICES ASSUME NEW t \in Thread, WaitGoesOn(t)'
             PROVE  IF status'[t] = "WaitSynchAll"
                    THEN \/ \E o \in Object : Has(wait_objects'[t], o) /\ ShouldWait(o, t)'
                         \/ Has(wait_objects'[t], waking')
                    ELSE \A o \in Object :
                            Has(wait_objects'[t], o) /\ ~ShouldWait(o, t)' => o = waking'
  BY Zenon DEF WakeInv
<1>1. ~Has(wait_objects[t], None)
  BY Kinds DEF TypeOK, Has
<1>2. CASE status[t] = "WaitSynchAll"
  BY Zenon, <1>1, <1>2 DEF WakeInv
<1>3. CASE status[t] # "WaitSynchAll"
  BY Zenon, <1>1, <1>3, Kinds DEF WakeInv
<1> QED
  BY Zenon, <1>2, <1>3

\* GetHighestPriorityReadyThread returns one of the threads that may be woken.
LEMMA HighestLemma ==
    ASSUME TypeOK, NEW o \in Object, ReadyPlaces(o) # {}
    PROVE  \E i \in ReadyPlaces(o) : HighestPriorityReadyThread(o) = waiting_threads[o][i]
<1> DEFINE R == ReadyPlaces(o)
           P(i) == PriorityAt(o, i)
           ps == {P(i) : i \in R}
<1>1. R \subseteq Nat /\ \A i \in R : waiting_threads[o][i] \in Thread
  BY DEF ReadyPlaces, TypeOK
<1>2. \A i \in R : P(i) \in Nat
  BY <1>1, KernelSyncAssumption DEF PriorityAt, TypeOK, Priority
<1> HIDE DEF R, P
<1>3. PICK p \in ps : \A q \in ps : p <= q
  BY Zenon, <1>2, LeastNat DEF R
<1> DEFINE best == {i \in R : P(i) = p}
<1>4. PICK k \in best : \A j \in best : k <= j
  <2>1. best # {} /\ best \subseteq Nat
    BY Zenon, <1>1, <1>3
  <2> QED
    BY Zenon, <2>1, LeastNat
<1>5. \A j \in R : P(k) < P(j) \/ (P(k) = P(j) /\ k <= j)
  <2> SUFFICES ASSUME NEW j \in R
               PROVE  P(k) < P(j) \/ (P(k) = P(j) /\ k <= j)
    BY Zenon
  <2>1. P(k) <= P(j) /\ P(k) \in Nat /\ P(j) \in Nat
    BY Zenon, <1>2, <1>3, <1>4
  <2>2. P(k) = P(j) => k <= j
    BY Zenon, <1>4
  <2> QED
    BY <2>1, <2>2
<1>6. \E i \in R : \A j \in R : P(i) < P(j) \/ (P(i) = P(j) /\ i <= j)
  BY Zenon, <1>4, <1>5
<1> QED
  BY Zenon, <1>6 DEF HighestPriorityReadyThread, R, P

-----------------------------------------------------------------------------
(* The steps of a call that is under way *)

\* The initial state.
LEMMA InitLemma ==
    ASSUME Init
    PROVE  IInv
<1> USE DEF Init
<1>1. TypeOK
  <2>1. priority \in [Mutex -> Priority]
    BY KernelSyncAssumption DEF Priority
  <2> QED
    BY <2>1, KernelSyncAssumption DEF TypeOK, Status
<1>2. PriorityInherited
  <2> SUFFICES ASSUME NEW t \in Thread
               PROVE  current_priority[t] = InheritedPriority(t, held_mutexes[t], priority)
    BY Zenon DEF PriorityInherited
  <2>1. InheritedPriority(t, held_mutexes[t], priority) = BestPriority({nominal_priority[t]})
    <3>1. {priority[m] : m \in held_mutexes[t]} = {}
      BY Zenon
    <3> QED
      BY Zenon, <3>1 DEF InheritedPriority
  <2>2. nominal_priority[t] \in Priority
    BY Zenon
  <2>3. BestPriority({nominal_priority[t]}) \in {nominal_priority[t]}
    BY Zenon, <2>2, BestPriorityLemma
  <2> QED
    BY Zenon, <2>1, <2>3
<1>3. CallInv
  <2>1. \A t \in Thread : ~WaitGoesOn(t)
    BY Zenon DEF WaitGoesOn, Waits
  <2>2. \A o \in Object, t \in Thread : ~Has(waiting_threads[o], t) /\ ~Has(wait_objects[t], o)
    BY DEF Has
  <2>3. ListsInv
    BY <2>2, Kinds DEF ListsInv, Distinct
  <2>4. OwnInv
    BY Kinds DEF OwnInv
  <2>5. WakeInv
    BY Zenon, <2>1 DEF WakeInv
  <2> QED
    BY Zenon, <2>2, <2>3, <2>4, <2>5 DEF CallInv, ListedInv, RemoveInv, LoopInv, StatusInv
<1> QED
  BY Zenon, <1>1, <1>2, <1>3 DEF IInv

\* A round of the loop that acquires objects.
LEMMA AcquireRoundLemma ==
    ASSUME IInv, fault = "none", rest # <<>>,
           doing = "acquire", Acquire(Head(rest), subject), rest' = Tail(rest),
           done' \in Seq(Object), UNCHANGED <<doing, subject, waking, updating, stopping>>
    PROVE  IInv'
<1> DEFINE o == Head(rest)
           t == subject
<1>1. TypeOK /\ PriorityInherited /\ CallInv
  BY Zenon DEF IInv
<1>2. o \in Object /\ Tail(rest) \in Seq(Object)
  BY <1>1 DEF TypeOK
<1>3. t \in Thread /\ status[t] # "Dead" /\ updating = {}
  BY Zenon, <1>1 DEF CallInv, LoopInv, Waits
<1>4. UNCHANGED <<status, wait_objects, wakeup_event, waiting_threads, pending_mutexes,
                  nominal_priority>>
  BY Zenon DEF Acquire, threadVars, listVars
<1> HIDE DEF o, t
<1>5. Acquire(o, t) /\ doing = "acquire"
  BY Zenon DEF o, t
<1>6. CASE o \in Mutex
  <2>1. AcquireMutex(o, t)
    BY Zenon, <1>5, <1>6 DEF Acquire
  <2>2. UNCHANGED <<available_count, signaled>>
    BY Zenon, <1>5, <1>6, Kinds DEF Acquire
  <2>3. /\ lock_count' \in [Mutex -> Nat]
        /\ holding_thread' \in [Mutex -> Thread \cup {None}]
        /\ held_mutexes' \in [Thread -> SUBSET Mutex]
        /\ priority' \in [Mutex -> Priority]
        /\ current_priority' \in [Thread -> Priority]
        /\ PriorityInherited'
    BY Zenon, <1>1, <1>3, <1>4, <1>6, <2>1, AcquireMutexLemma DEF CallInv
  <2>4. TypeOK'
    BY Zenon, <1>1, <1>2, <1>4, <1>5, <2>2, <2>3 DEF TypeOK, Acquire
  <2>5. ASSUME fault' = "none" PROVE OwnInv' /\ WakeInv'
    <3>1. ~ShouldWait(o, t)
      BY Zenon, <1>5, <1>6, <2>5, Kinds DEF Acquire
    <3>2. lock_count[o] \in Nat /\ (lock_count[o] = 0 \/ holding_thread[o] = t)
      BY <1>1, <1>6, <3>1 DEF TypeOK, ShouldWait
    <3>3. CASE lock_count[o] > 0
      <4>1. /\ UNCHANGED <<held_mutexes, holding_thread>>
            /\ lock_count' = [lock_count EXCEPT ![o] = @ + 1]
        BY Zenon, <2>1, <3>3 DEF AcquireMutex
      <4>2. \A m \in Mutex : lock_count'[m] > 0 <=> lock_count[m] > 0
        BY <1>1, <3>2, <3>3, <4>1 DEF TypeOK
      <4>3. OwnInv'
        BY Zenon, <1>1, <1>4, <4>1, <4>2 DEF CallInv, OwnInv
      <4>4. \A x \in Object, u \in Thread : ShouldWait(x, u) <=> ShouldWait(x, u)'
        BY Zenon, <1>4, <2>2, <4>1, <4>2 DEF ShouldWait
      <4>5. WakeInv'
        BY Zenon, <1>1, <1>4, <4>4, WakeFrame DEF CallInv, WaitGoesOn
      <4> QED
        BY Zenon, <4>3, <4>5
    <3>4. CASE ~(lock_count[o] > 0)
      <4>1. /\ held_mutexes' = [held_mutexes EXCEPT ![t] = @ \cup {o}]
            /\ holding_thread' = [holding_thread EXCEPT ![o] = t]
            /\ lock_count' = [lock_count EXCEPT ![o] = @ + 1]
        BY Zenon, <2>1, <3>4 DEF AcquireMutex
      <4>2. holding_thread[o] = None /\ lock_count'[o] > 0 /\ holding_thread'[o] = t
        BY <1>1, <1>6, <3>2, <3>4, <4>1 DEF CallInv, OwnInv, TypeOK
      <4>3. \A m \in Mutex : m # o =>
              lock_count'[m] = lock_count[m] /\ holding_thread'[m] = holding_thread[m]
        BY Zenon, <1>1, <4>1 DEF TypeOK
      <4>4. /\ \A u \in Thread : u # t => held_mutexes'[u] = held_mutexes[u]
            /\ held_mutexes'[t] = held_mutexes[t] \cup {o}
        BY Zenon, <1>1, <1>3, <4>1 DEF TypeOK
      <4>5. OwnInv'
        BY <1>1, <1>3, <1>4, <4>2, <4>3, <4>4, Kinds DEF CallInv, OwnInv
      <4>6. \A x \in Object, u \in Thread : u # t /\ ShouldWait(x, u) => ShouldWait(x, u)'
        BY Zenon, <1>4, <2>2, <4>2, <4>3 DEF ShouldWait
      <4>7. WakeInv'
        BY Zenon, <1>1, <1>4, <1>5, <4>6, WakeFrame DEF CallInv, WaitGoesOn, t
      <4> QED
        BY <4>5, <4>7
    <3> QED
      BY Zenon, <3>3, <3>4
  <2> QED
    BY Zenon, <2>3, <2>4, <2>5, <1>1, <1>4, <1>5
       DEF IInv, CallInv, ListsInv, ListedInv, RemoveInv, LoopInv, StatusInv
<1>7. CASE o \notin Mutex
  <2>1. UNCHANGED <<lock_count, holding_thread, held_mutexes, priority, current_priority>>
    BY Zenon, <1>5, <1>7 DEF Acquire, lockVars
  <2>2. /\ available_count' \in [Semaphore -> Int]
        /\ signaled' \in [Event -> BOOLEAN]
    BY <1>1, <1>5 DEF Acquire, TypeOK
  <2>3. TypeOK'
    BY Zenon, <1>1, <1>2, <1>4, <1>5, <2>1, <2>2 DEF TypeOK, Acquire
  <2>4. PriorityInherited'
    BY Zenon, <1>1, <1>4, <2>1 DEF PriorityInherited, InheritedPriority
  <2>5. /\ \A s \in Semaphore : available_count[s] <= 0 => available_count'[s] <= 0
        /\ \A e \in Event : ~signaled[e] => ~signaled'[e]
    BY Zenon, <1>1, <1>5 DEF Acquire, TypeOK, ShouldWait
  <2>6. \A x \in Object, u \in Thread : ShouldWait(x, u) => ShouldWait(x, u)'
    BY Zenon, <1>4, <2>1, <2>5 DEF ShouldWait
  <2>7. WakeInv'
    BY Zenon, <1>1, <1>4, <2>6, WakeFrame DEF CallInv, WaitGoesOn
  <2>8. OwnInv'
    BY Zenon, <1>1, <1>4, <2>1 DEF CallInv, OwnInv
  <2> QED
    BY Zenon, <2>3, <2>4, <2>7, <2>8, <1>1, <1>4, <1>5
       DEF IInv, CallInv, ListsInv, ListedInv, RemoveInv, LoopInv, StatusInv
<1> QED
  BY Zenon, <1>6, <1>7

\* A round of the loop that puts the caller on the lists.
LEMMA AddRoundLemma ==
    ASSUME IInv, fault = "none", rest # <<>>,
           doing = "add", AddWaitingThread(Head(rest), subject), rest' = Tail(rest),
           done' \in Seq(Object), UNCHANGED <<doing, subject, waking, updating, stopping>>
    PROVE  IInv'
<1> DEFINE o == Head(rest)
           t == subject
           w == IF Has(waiting_threads[o], t) THEN waiting_threads[o]
                                              ELSE Append(waiting_threads[o], t)
<1>1. TypeOK /\ PriorityInherited /\ CallInv
  BY Zenon DEF IInv
<1>2. /\ Tail(rest) \in Seq(Object) /\ o \in Object
      /\ \A x : Has(rest, x) <=> x = o \/ Has(Tail(rest), x)
  BY Zenon, <1>1, TailLemma DEF TypeOK
<1>3. t \in Thread /\ Has(wait_objects[t], o)
  BY Zenon, <1>1, <1>2 DEF CallInv, LoopInv
<1>4. waiting_threads[o] \in Seq(Thread) /\ Distinct(waiting_threads[o])
  BY Zenon, <1>1, <1>2 DEF TypeOK, CallInv, ListsInv
<1>5. /\ w \in Seq(Thread) /\ Distinct(w)
      /\ \A x : Has(w, x) <=> Has(waiting_threads[o], x) \/ x = t
  BY Zenon, <1>3, <1>4, AppendLemma
<1>6. Relist(o, t, w, pending_mutexes[t] \cup {o})
  BY Zenon DEF AddWaitingThread
<1> HIDE DEF o, t, w
<1>7. CASE o \in Mutex
  <2>1. pending_mutexes[t] \cup {o} \in SUBSET Mutex
    BY Zenon, <1>1, <1>3, <1>7 DEF TypeOK
  <2>2. /\ TypeOK' /\ PriorityInherited' /\ OwnInv' /\ WakeInv' /\ StatusInv'
        /\ fault' = "none" /\ UNCHANGED <<status, wait_objects>>
        /\ \A x \in Object : waiting_threads'[x] = IF x = o THEN w ELSE waiting_threads[x]
        /\ \A u \in Thread :
             pending_mutexes'[u] = IF u = t THEN pending_mutexes[t] \cup {o}
                                            ELSE pending_mutexes[u]
    BY <1>2, <1>3, <1>5, <1>6, <1>7, <2>1, RelistLemma
  <2>3. \A u \in Thread : pending_mutexes'[u] = {m \in Mutex : Has(waiting_threads'[m], u)}
    BY <1>1, <1>3, <1>5, <1>7, <2>2, Kinds DEF CallInv, ListsInv
  <2>4. ListsInv'
    BY Zenon, <1>1, <1>3, <1>5, <2>2, <2>3 DEF CallInv, ListsInv
  <2>5. ListedInv'
    BY Zenon, <1>1, <1>2, <1>3, <1>5, <2>2 DEF CallInv, ListedInv, t, o
  <2>6. RemoveInv' /\ LoopInv'
    BY Zenon, <1>1, <1>2, <2>2 DEF CallInv, RemoveInv, LoopInv, o
  <2> QED
    BY Zenon, <2>2, <2>4, <2>5, <2>6 DEF IInv, CallInv
<1>8. CASE o \notin Mutex
  <2>1. Relist(o, t, w, {})
    BY Zenon, <1>6, <1>8 DEF Relist
  <2>2. /\ TypeOK' /\ PriorityInherited' /\ OwnInv' /\ WakeInv' /\ StatusInv'
        /\ fault' = "none" /\ UNCHANGED <<status, wait_objects>>
        /\ \A x \in Object : waiting_threads'[x] = IF x = o THEN w ELSE waiting_threads[x]
        /\ \A u \in Thread : pending_mutexes'[u] = pending_mutexes[u]
    BY <1>2, <1>3, <1>5, <1>8, <2>1, RelistLemma
  <2>3. \A u \in Thread : pending_mutexes'[u] = {m \in Mutex : Has(waiting_threads'[m], u)}
    BY <1>1, <1>8, <2>2, Kinds DEF CallInv, ListsInv
  <2>4. ListsInv'
    BY Zenon, <1>1, <1>3, <1>5, <2>2, <2>3 DEF CallInv, ListsInv
  <2>5. ListedInv'
    BY Zenon, <1>1, <1>2, <1>3, <1>5, <2>2 DEF CallInv, ListedInv, t, o
  <2>6. RemoveInv' /\ LoopInv'
    BY Zenon, <1>1, <1>2, <2>2 DEF CallInv, RemoveInv, LoopInv, o
  <2> QED
    BY Zenon, <2>2, <2>4, <2>5, <2>6 DEF IInv, CallInv
<1> QED
  BY Zenon, <1>7, <1>8

\* A round of the loop that takes a thread off the lists.
LEMMA RemoveRoundLemma ==
    ASSUME IInv, fault = "none", rest # <<>>,
           doing = "remove", RemoveWaitingThread(Head(rest), subject), rest' = Tail(rest),
           done' \in Seq(Object), UNCHANGED <<doing, subject, waking, updating, stopping>>
    PROVE  IInv'
<1> DEFINE o == Head(rest)
           t == subject
           w == Without(waiting_threads[o], t)
<1>1. TypeOK /\ PriorityInherited /\ CallInv
  BY Zenon DEF IInv
<1>2. /\ Tail(rest) \in Seq(Object) /\ o \in Object
      /\ \A x : Has(rest, x) <=> x = o \/ Has(Tail(rest), x)
  BY Zenon, <1>1, TailLemma DEF TypeOK
<1>3. t \in Thread
  BY Zenon, <1>1, <1>2 DEF CallInv, LoopInv
<1>4. waiting_threads[o] \in Seq(Thread) /\ Distinct(waiting_threads[o])
  BY Zenon, <1>1, <1>2 DEF TypeOK, CallInv, ListsInv
<1>5. /\ w \in Seq(Thread) /\ Distinct(w)
      /\ \A x : Has(w, x) <=> Has(waiting_threads[o], x) /\ x # t
  BY Zenon, <1>4, WithoutLemma
<1>6. Relist(o, t, w, pending_mutexes[t] \ {o})
  BY Zenon DEF RemoveWaitingThread
<1> HIDE DEF o, t, w
<1>7. pending_mutexes[t] \ {o} \in SUBSET Mutex
  BY Zenon, <1>1, <1>3 DEF TypeOK
<1>8. /\ TypeOK' /\ PriorityInherited' /\ OwnInv' /\ WakeInv' /\ StatusInv'
      /\ fault' = "none" /\ UNCHANGED <<status, wait_objects>>
      /\ \A x \in Object : waiting_threads'[x] = IF x = o THEN w ELSE waiting_threads[x]
      /\ \A u \in Thread :
           pending_mutexes'[u] = IF u = t /\ o \in Mutex THEN pending_mutexes[t] \ {o}
                                                         ELSE pending_mutexes[u]
  BY <1>2, <1>3, <1>5, <1>6, <1>7, RelistLemma
<1>9. \A u \in Thread : pending_mutexes'[u] = {m \in Mutex : Has(waiting_threads'[m], u)}
  BY <1>1, <1>3, <1>5, <1>8, Kinds DEF CallInv, ListsInv
<1>10. ListsInv'
  BY <1>1, <1>3, <1>5, <1>8, <1>9 DEF CallInv, ListsInv
<1>11. ListedInv'
  BY Zenon, <1>1, <1>2, <1>3, <1>5, <1>8 DEF CallInv, ListedInv, t
<1>12. RemoveInv' /\ LoopInv'
  BY Zenon, <1>1, <1>2, <1>5, <1>8 DEF CallInv, RemoveInv, LoopInv, t, o
<1> QED
  BY Zenon, <1>8, <1>10, <1>11, <1>12 DEF IInv, CallInv

\* The end of the loop that acquires objects.
LEMMA AcquireDoneLemma ==
    ASSUME IInv, AcquireDone
    PROVE  IInv'
<1> USE DEF AcquireDone, threadVars, prioVars, lockVars, listVars, flagVars
<1>1. TypeOK /\ PriorityInherited /\ CallInv /\ fault' = "none" /\ subject \in Thread
  BY Zenon DEF IInv, CallInv, LoopInv
<1>2. PriorityInherited'
  BY Zenon, <1>1, PriorityFrame
<1>3. ListsInv' /\ StatusInv' /\ OwnInv'
  BY Zenon, <1>1 DEF CallInv, ListsInv, StatusInv, OwnInv
<1>4. \A o \in Object, t \in Thread : ShouldWait(o, t) => ShouldWait(o, t)'
  BY Zenon DEF ShouldWait
<1>5. CASE status[subject] \in Waits
  <2>1. doing' = "remove" /\ subject' = subject /\ rest' = wait_objects[subject] /\ done' = <<>>
    BY Zenon, <1>5 DEF Begin
  <2>2. TypeOK'
    BY Zenon, <1>1, <2>1, EmptyList DEF TypeOK
  <2>3. ListedInv' /\ RemoveInv'
    BY Zenon, <1>1, <2>1 DEF CallInv, ListsInv, ListedInv, RemoveInv
  <2>4. LoopInv'
    BY Zenon, <1>1, <1>5, <2>1 DEF CallInv, LoopInv
  <2>5. WakeInv'
    BY Zenon, <1>1, <1>4, <2>1, WakeFrame DEF CallInv, WaitGoesOn
  <2> QED
    BY Zenon, <1>2, <1>3, <2>2, <2>3, <2>4, <2>5 DEF IInv, CallInv
<1>6. CASE status[subject] \notin Waits
  <2>1. doing' = "nothing" /\ subject' = None /\ rest' = <<>> /\ done' = <<>>
    BY Zenon, <1>6 DEF NoLoop
  <2>2. TypeOK'
    BY Zenon, <1>1, <2>1, EmptyList DEF TypeOK
  <2>3. ListedInv' /\ RemoveInv'
    BY Zenon, <1>1, <2>1 DEF CallInv, ListedInv, RemoveInv
  <2>4. LoopInv'
    BY Zenon, <1>1, <2>1 DEF CallInv, LoopInv
  <2>5. WakeInv'
    BY Zenon, <1>1, <1>4, <1>6, <2>1, WakeFrame DEF CallInv, WaitGoesOn
  <2> QED
    BY <1>2, <1>3, <2>2, <2>3, <2>4, <2>5 DEF IInv, CallInv
<1> QED
  BY Zenon, <1>5, <1>6

\* The end of the loop that adds the caller to the lists.
LEMMA AddDoneLemma ==
    ASSUME IInv, AddDone
    PROVE  IInv'
<1> USE DEF AddDone, NoLoop, threadVars, prioVars, lockVars, listVars, flagVars
<1>1. TypeOK /\ PriorityInherited /\ CallInv /\ fault' = "none"
  BY Zenon DEF IInv
<1>2. PriorityInherited'
  BY Zenon, <1>1, PriorityFrame
<1>3. ListsInv' /\ StatusInv' /\ OwnInv'
  BY Zenon, <1>1 DEF CallInv, ListsInv, StatusInv, OwnInv
<1>4. \A o \in Object, t \in Thread : ShouldWait(o, t) => ShouldWait(o, t)'
  BY Zenon DEF ShouldWait
<1>5. TypeOK'
  BY Zenon, <1>1 DEF TypeOK
<1>6. \A x : ~Has(rest, x)
  BY DEF Has
<1>7. ListedInv' /\ RemoveInv' /\ LoopInv'
  BY Zenon, <1>1, <1>6 DEF CallInv, ListedInv, RemoveInv, LoopInv
<1>8. WakeInv'
  BY Zenon, <1>1, <1>4, WakeFrame DEF CallInv, WaitGoesOn
<1> QED
  BY Zenon, <1>2, <1>3, <1>5, <1>7, <1>8 DEF IInv, CallInv

\* The end of the loop that takes a thread off the lists.
LEMMA RemoveDoneLemma ==
    ASSUME IInv, RemoveDone
    PROVE  IInv'
<1> USE DEF RemoveDone, NoLoop, prioVars, lockVars, listVars, flagVars
<1>1. TypeOK /\ PriorityInherited /\ CallInv /\ fault' = "none" /\ subject \in Thread
  BY Zenon DEF IInv, CallInv, LoopInv
<1>2. \A x : ~Has(rest, x) /\ ~Has(<<>>, x)
  BY DEF Has
<1>3. \A o \in Object : ~Has(waiting_threads[o], subject)
  BY Zenon, <1>1, <1>2 DEF CallInv, RemoveInv
<1>4. /\ \A t \in Thread : t # subject =>
           status'[t] = status[t] /\ wait_objects'[t] = wait_objects[t]
      /\ wait_objects'[subject] = <<>>
      /\ status'[subject] = IF status[subject] \in Waits THEN "Ready" ELSE status[subject]
  BY Zenon, <1>1 DEF TypeOK
<1>5. status'[subject] \notin Waits /\ status'[subject] \in Status
  BY Zenon, <1>1, <1>4 DEF CallInv, LoopInv, TypeOK, Waits, Status
<1>6. \A t \in Thread : status'[t] = "Dead" <=> status[t] = "Dead"
  BY <1>4 DEF Waits
<1>7. TypeOK'
  <2>1. status' \in [Thread -> Status]
    BY Zenon, <1>1, <1>5 DEF TypeOK
  <2>2. wait_objects' \in [Thread -> Seq(Object)]
    BY Zenon, <1>1 DEF TypeOK
  <2> QED
    BY Zenon, <1>1, <2>1, <2>2 DEF TypeOK
<1>8. PriorityInherited'
  BY Zenon, <1>1, <1>6, PriorityFrame
<1>9. ListsInv'
  BY <1>1, <1>3, <1>4 DEF CallInv, ListsInv
<1>10. ListedInv' /\ RemoveInv'
  BY <1>1, <1>2, <1>4 DEF CallInv, ListedInv, RemoveInv
<1>11. LoopInv'
  BY Zenon, <1>1, <1>6 DEF CallInv, LoopInv, TypeOK
<1>12. StatusInv' /\ OwnInv'
  BY Zenon, <1>1, <1>4, <1>6 DEF CallInv, StatusInv, OwnInv
<1>13. \A o \in Object, t \in Thread : ShouldWait(o, t) => ShouldWait(o, t)'
  BY Zenon, <1>6 DEF ShouldWait
<1>14. WakeInv'
  BY Zenon, <1>1, <1>4, <1>5, <1>13, WakeFrame DEF CallInv, WaitGoesOn
<1> QED
  BY Zenon, <1>7, <1>8, <1>9, <1>10, <1>11, <1>12, <1>14 DEF IInv, CallInv

\* A round of WakeupAllWaitingThreads.
LEMMA WakeupOneLemma ==
    ASSUME IInv, WakeupOne
    PROVE  IInv'
<1> DEFINE t == HighestPriorityReadyThread(waking)
<1> USE DEF WakeupOne, Free, Begin, threadVars, prioVars, lockVars, listVars, flagVars
<1>1. TypeOK /\ PriorityInherited /\ CallInv /\ waking \in Object
  BY Zenon DEF IInv, TypeOK
<1>2. PICK i \in ReadyPlaces(waking) : t = waiting_threads[waking][i]
  BY Zenon, <1>1, HighestLemma
<1>3. i \in DOMAIN waiting_threads[waking] /\ waiting_threads[waking] \in Seq(Thread)
  BY Zenon, <1>1 DEF ReadyPlaces, TypeOK
<1>4. t \in Thread
  BY <1>2, <1>3
<1> HIDE DEF t
<1>5. /\ doing' = "acquire" /\ subject' = t /\ done' = <<>>
      /\ rest' = IF status[t] = "WaitSynchAll" THEN wait_objects[t] ELSE <<waking>>
      /\ fault' \in {"none", "not_waiting"}
  BY Zenon DEF t
<1>6. TypeOK'
  <2>1. rest' \in Seq(Object)
    BY <1>1, <1>4, <1>5 DEF TypeOK
  <2> QED
    BY Zenon, <1>1, <1>4, <1>5, <2>1, EmptyList DEF TypeOK
<1>7. PriorityInherited'
  BY Zenon, <1>1, PriorityFrame
<1>8. ASSUME fault' = "none" PROVE CallInv'
  <2>1. status[t] \in Waits
    BY Zenon, <1>2, <1>3, <1>8
  <2>2. ListsInv' /\ StatusInv' /\ OwnInv'
    BY Zenon, <1>1 DEF CallInv, ListsInv, StatusInv, OwnInv
  <2>3. ListedInv' /\ RemoveInv'
    BY Zenon, <1>1, <1>5 DEF CallInv, ListedInv, RemoveInv
  <2>4. LoopInv'
    BY Zenon, <1>1, <1>4, <1>5, <2>1 DEF CallInv, LoopInv
  <2>5. \A x \in Object, u \in Thread : ShouldWait(x, u) => ShouldWait(x, u)'
    BY Zenon DEF ShouldWait
  <2>6. WakeInv'
    BY Zenon, <1>1, <2>5, WakeFrame DEF CallInv, WaitGoesOn
  <2> QED
    BY Zenon, <2>2, <2>3, <2>4, <2>6 DEF CallInv
<1> QED
  BY Zenon, <1>6, <1>7, <1>8 DEF IInv

\* The end of WakeupAllWaitingThreads: the object that was signalled
\* satisfies no wait any more, because every thread that waits for it is on
\* its list and none of them was ready.
LEMMA WakeupDoneLemma ==
    ASSUME IInv, WakeupDone
    PROVE  IInv'
<1> USE DEF WakeupDone, Free, threadVars, prioVars, lockVars, listVars, loopVars
<1>1. TypeOK /\ PriorityInherited /\ CallInv /\ waking \in Object
  BY Zenon DEF IInv, TypeOK
<1>2. TypeOK'
  <2>1. signaled' \in [Event -> BOOLEAN]
    BY Zenon, <1>1 DEF TypeOK
  <2> QED
    BY Zenon, <1>1, <2>1 DEF TypeOK
<1>3. PriorityInherited'
  BY Zenon, <1>1, PriorityFrame
<1>4. ListsInv' /\ StatusInv' /\ OwnInv' /\ ListedInv' /\ RemoveInv' /\ LoopInv'
  BY Zenon, <1>1 DEF CallInv, ListsInv, StatusInv, OwnInv, ListedInv, RemoveInv, LoopInv
<1>5. \A o \in Object, t \in Thread : ShouldWait(o, t) => ShouldWait(o, t)'
  <2>1. \A e \in Event : ~signaled[e] => ~signaled'[e]
    BY Zenon, <1>1 DEF TypeOK
  <2> QED
    BY Zenon, <2>1 DEF ShouldWait
<1>6. ASSUME NEW t \in Thread, WaitGoesOn(t), status[t] = "WaitSynchAll"
      PROVE  \E o \in Object : Has(wait_objects[t], o) /\ ShouldWait(o, t)
  <2> SUFFICES ASSUME \A o \in Object : Has(wait_objects[t], o) => ~ShouldWait(o, t)
               PROVE  FALSE
    BY Zenon
  <2>1. Has(wait_objects[t], waking)
    BY Zenon, <1>1, <1>6 DEF CallInv, WakeInv
  <2>2. Has(waiting_threads[waking], t)
    BY Zenon, <1>1, <2>1 DEF CallInv, ListedInv
  <2>3. \A j \in DOMAIN wait_objects[t] : ~ShouldWait(wait_objects[t][j], t)
    BY <1>1 DEF TypeOK, Has
  <2> QED
    BY Zenon, <1>1, <2>1, <2>2, <2>3 DEF ReadyPlaces, Has
<1>7. ASSUME NEW t \in Thread, WaitGoesOn(t), status[t] # "WaitSynchAll",
             NEW o \in Object, Has(wait_objects[t], o), ~ShouldWait(o, t)
      PROVE  FALSE
  <2>1. o = waking
    BY Zenon, <1>1, <1>7 DEF CallInv, WakeInv
  <2>2. Has(waiting_threads[waking], t)
    BY Zenon, <1>1, <1>7, <2>1 DEF CallInv, ListedInv
  <2> QED
    BY Zenon, <1>7, <2>1, <2>2 DEF ReadyPlaces, Has
<1>8. WakeInv'
  <2>1. \A t \in Thread : WaitGoesOn(t)' => WaitGoesOn(t)
    BY Zenon DEF WaitGoesOn
  <2> SUFFICES ASSUME NEW t \in Thread, WaitGoesOn(t)
               PROVE  IF status[t] = "WaitSynchAll"
                      THEN \E o \in Object : Has(wait_objects[t], o) /\ ShouldWait(o, t)'
                      ELSE \A o \in Object : ~(Has(wait_objects[t], o) /\ ~ShouldWait(o, t)')
    BY Zenon, <2>1 DEF WakeInv
  <2> QED
    BY Zenon, <1>5, <1>6, <1>7
<1> QED
  BY Zenon, <1>2, <1>3, <1>4, <1>8 DEF IInv, CallInv

\* SetThreadPriority visits a mutex the thread waits for.
LEMMA UpdateMutexLemma ==
    ASSUME IInv, UpdateMutex
    PROVE  IInv'
<1> USE DEF threadVars, lockVars, listVars, flagVars, loopVars
<1>1. TypeOK /\ PriorityInherited /\ CallInv /\ fault' = "none"
  BY Zenon DEF IInv, UpdateMutex
<1>2. PICK m \in updating : UpdatePriority(m, waiting_threads[m]) /\ updating' = updating \ {m}
  BY Zenon DEF UpdateMutex
<1>3. m \in Mutex /\ waiting_threads[m] \in Seq(Thread)
  BY Zenon, <1>1, Kinds DEF TypeOK
<1>4. UNCHANGED <<threadVars, nominal_priority, lockVars, listVars, flagVars,
                  loopVars, waking, stopping, fault>>
  BY Zenon DEF UpdateMutex
<1>5. /\ priority' \in [Mutex -> Priority]
      /\ current_priority' \in [Thread -> Priority]
      /\ PriorityInherited'
  BY Zenon, <1>1, <1>2, <1>3, <1>4, UpdatePriorityLemma DEF CallInv
<1>6. TypeOK'
  BY Zenon, <1>1, <1>2, <1>4, <1>5 DEF TypeOK
<1>7. ListsInv' /\ StatusInv' /\ OwnInv' /\ ListedInv' /\ RemoveInv' /\ LoopInv'
  BY Zenon, <1>1, <1>2, <1>4
     DEF CallInv, ListsInv, StatusInv, OwnInv, ListedInv, RemoveInv, LoopInv
<1>8. \A o \in Object, t \in Thread : ShouldWait(o, t) => ShouldWait(o, t)'
  BY Zenon, <1>4 DEF ShouldWait
<1>9. WakeInv'
  BY Zenon, <1>1, <1>4, <1>8, WakeFrame DEF CallInv, WaitGoesOn
<1> QED
  BY Zenon, <1>5, <1>6, <1>7, <1>9 DEF IInv, CallInv

\* Thread::Stop takes the thread off the lists it waits on.
LEMMA StopRemoveLemma ==
    ASSUME IInv, StopRemove
    PROVE  IInv'
<1> USE DEF StopRemove, Stopping, Free, Begin, threadVars, prioVars, lockVars, listVars, flagVars
<1>1. TypeOK /\ PriorityInherited /\ CallInv /\ fault' = "none"
  BY Zenon DEF IInv
<1>2. stopping \in Thread /\ wait_objects[stopping] \in Seq(Object)
  BY Zenon, <1>1 DEF TypeOK
<1>3. status[stopping] = "Dead" /\ updating = {}
  BY Zenon, <1>1 DEF CallInv, LoopInv
<1>4. TypeOK'
  BY Zenon, <1>1, <1>2, EmptyList DEF TypeOK
<1>5. PriorityInherited'
  BY Zenon, <1>1, PriorityFrame
<1>6. ListsInv' /\ StatusInv' /\ OwnInv'
  BY Zenon, <1>1 DEF CallInv, ListsInv, StatusInv, OwnInv
<1>7. ListedInv' /\ RemoveInv' /\ LoopInv'
  BY Zenon, <1>1, <1>2, <1>3 DEF CallInv, ListsInv, ListedInv, RemoveInv, LoopInv
<1>8. \A o \in Object, t \in Thread : ShouldWait(o, t) => ShouldWait(o, t)'
  BY Zenon DEF ShouldWait
<1>9. WakeInv'
  BY Zenon, <1>1, <1>8, WakeFrame DEF CallInv, WaitGoesOn
<1> QED
  BY Zenon, <1>4, <1>5, <1>6, <1>7, <1>9 DEF IInv, CallInv

\* ReleaseThreadMutexes frees one mutex.
LEMMA StopReleaseLemma ==
    ASSUME IInv, StopRelease
    PROVE  IInv'
<1> USE DEF Stopping, Free, threadVars, prioVars, listVars, flagVars, loopVars
<1>1. /\ TypeOK /\ PriorityInherited /\ CallInv /\ fault' = "none"
      /\ doing = "nothing" /\ waking = None /\ stopping \in Thread
  BY Zenon DEF IInv, StopRelease, TypeOK
<1>2. PICK m \in held_mutexes[stopping] :
         /\ holding_thread[m] = stopping
         /\ lock_count' = [lock_count EXCEPT ![m] = 0]
         /\ holding_thread' = [holding_thread EXCEPT ![m] = None]
         /\ waking' = m
  BY Zenon DEF StopRelease
<1>3. m \in Mutex /\ m \in Object
  BY Zenon, <1>1, Kinds DEF TypeOK
<1>4. UNCHANGED <<threadVars, prioVars, held_mutexes, listVars, flagVars,
                  loopVars, updating, stopping, fault>>
  BY Zenon DEF StopRelease
<1>5. TypeOK'
  <2>1. lock_count' \in [Mutex -> Nat] /\ holding_thread' \in [Mutex -> Thread \cup {None}]
    BY Zenon, <1>1, <1>2 DEF TypeOK
  <2> QED
    BY Zenon, <1>1, <1>2, <1>3, <1>4, <2>1 DEF TypeOK
<1>6. PriorityInherited'
  BY Zenon, <1>1, <1>4, PriorityFrame
<1>7. /\ lock_count'[m] = 0 /\ holding_thread'[m] = None
      /\ \A x \in Mutex : x # m =>
           lock_count'[x] = lock_count[x] /\ holding_thread'[x] = holding_thread[x]
  BY Zenon, <1>1, <1>2, <1>3 DEF TypeOK
<1>8. OwnInv'
  BY <1>1, <1>2, <1>3, <1>4, <1>7, Kinds DEF CallInv, OwnInv
<1>9. ListsInv' /\ StatusInv' /\ ListedInv' /\ RemoveInv'
  BY Zenon, <1>1, <1>4 DEF CallInv, ListsInv, StatusInv, ListedInv, RemoveInv
<1>10. LoopInv'
  BY Zenon, <1>1, <1>2, <1>4, Kinds DEF CallInv, LoopInv
<1>11. \A o \in Object, t \in Thread : o # m /\ ShouldWait(o, t) => ShouldWait(o, t)'
  BY Zenon, <1>4, <1>7 DEF ShouldWait
<1>12. WakeInv'
  BY Zenon, <1>1, <1>2, <1>3, <1>4, <1>11, WakeSignal DEF CallInv, WaitGoesOn
<1> QED
  BY Zenon, <1>5, <1>6, <1>8, <1>9, <1>10, <1>12 DEF IInv, CallInv

\* The end of Thread::Stop.
LEMMA StopDoneLemma ==
    ASSUME IInv, StopDone
    PROVE  IInv'
<1> USE DEF StopDone, Stopping, Free, threadVars, prioVars, listVars, flagVars, loopVars
<1>1. TypeOK /\ PriorityInherited /\ CallInv /\ fault' = "none" /\ stopping \in Thread
  BY Zenon DEF IInv, TypeOK
<1>2. status[stopping] = "Dead"
  BY Zenon, <1>1 DEF CallInv, LoopInv
<1>3. TypeOK'
  <2>1. held_mutexes' \in [Thread -> SUBSET Mutex]
    BY Zenon, <1>1 DEF TypeOK
  <2> QED
    BY Zenon, <1>1, <2>1 DEF TypeOK
<1>4. \A t \in Thread : held_mutexes'[t] = IF t = stopping THEN {} ELSE held_mutexes[t]
  BY Zenon, <1>1 DEF TypeOK
<1>5. PriorityInherited'
  <2> SUFFICES ASSUME NEW t \in Thread, status'[t] # "Dead"
               PROVE  current_priority'[t] =
                        BestPriority({nominal_priority'[t]} \cup
                                     {priority'[m] : m \in held_mutexes'[t]})
    BY Zenon DEF PriorityInherited, InheritedPriority
  <2>1. held_mutexes'[t] = held_mutexes[t] /\ status[t] # "Dead"
    BY Zenon, <1>2, <1>4
  <2>2. current_priority[t] =
          BestPriority({nominal_priority[t]} \cup {priority[m] : m \in held_mutexes[t]})
    BY Zenon, <1>1, <2>1 DEF PriorityInherited, InheritedPriority
  <2> QED
    BY Zenon, <2>1, <2>2
<1>6. OwnInv'
  BY <1>1, <1>2, <1>4, Kinds DEF CallInv, OwnInv
<1>7. ListsInv' /\ StatusInv' /\ ListedInv' /\ RemoveInv'
  BY Zenon, <1>1 DEF CallInv, ListsInv, StatusInv, ListedInv, RemoveInv
<1>8. LoopInv'
  BY Zenon, <1>1 DEF CallInv, LoopInv
<1>9. \A o \in Object, t \in Thread : ShouldWait(o, t) => ShouldWait(o, t)'
  BY Zenon DEF ShouldWait
<1>10. WakeInv'
  BY Zenon, <1>1, <1>9, WakeFrame DEF CallInv, WaitGoesOn
<1> QED
  BY Zenon, <1>3, <1>5, <1>6, <1>7, <1>8, <1>10 DEF IInv, CallInv

=============================================================================
