-------------------------- MODULE KernelSync_proofs --------------------------
(***************************************************************************)
(* Proofs about KernelSync, for any threads, objects, handle lists and     *)
(* priorities: the ownership of mutexes, the wait lists and the inherited  *)
(* priorities stay consistent, no wakeup is lost, a holder is boosted, and *)
(* the assertions of the wait objects hold.                                *)
(***************************************************************************)
EXTENDS KernelSync_lemmas

-----------------------------------------------------------------------------
(* The calls *)

\* What an idle kernel looks like.
LEMMA IdleFacts ==
    ASSUME IInv, Idle
    PROVE  /\ TypeOK /\ PriorityInherited /\ CallInv
           /\ doing = "nothing" /\ subject = None /\ rest = <<>> /\ waking = None
           /\ updating = {} /\ stopping = None /\ fault = "none"
  BY Zenon DEF IInv, Idle, Free, CallInv, LoopInv

\* SwitchContext makes a ready thread run.
LEMMA SwitchContextLemma ==
    ASSUME IInv, NEW t \in Thread, SwitchContext(t)
    PROVE  IInv'
<1> USE DEF SwitchContext, prioVars, lockVars, listVars, flagVars, stepVars, loopVars
<1>1. /\ TypeOK /\ PriorityInherited /\ CallInv /\ fault' = "none" /\ stopping = None
      /\ doing = "nothing"
  BY Zenon, IdleFacts
<1>2. /\ \A u \in Thread : u # t => status'[u] = status[u]
      /\ status'[t] = "Running" /\ status[t] = "Ready"
  BY Zenon, <1>1 DEF TypeOK
<1>3. TypeOK'
  <2>1. status' \in [Thread -> Status] /\ wakeup_event' \in SUBSET Thread
    BY Zenon, <1>1 DEF TypeOK, Status
  <2> QED
    BY Zenon, <1>1, <2>1 DEF TypeOK
<1>4. PriorityInherited'
  BY Zenon, <1>1, <1>2, PriorityFrame
<1>5. ListsInv' /\ ListedInv' /\ RemoveInv'
  BY Zenon, <1>1 DEF CallInv, ListsInv, ListedInv, RemoveInv
<1>6. LoopInv'
  BY Zenon, <1>1 DEF CallInv, LoopInv
<1>7. StatusInv' /\ OwnInv'
  BY Zenon, <1>1, <1>2 DEF CallInv, StatusInv, OwnInv, Waits
<1>8. \A o \in Object, u \in Thread : ShouldWait(o, u) => ShouldWait(o, u)'
  BY Zenon, <1>2 DEF ShouldWait
<1>9. WakeInv'
  BY Zenon, <1>1, <1>2, <1>8, WakeFrame DEF CallInv, WaitGoesOn, Waits
<1> QED
  BY Zenon, <1>3, <1>4, <1>5, <1>6, <1>7, <1>9 DEF IInv, CallInv

\* WaitSynchronization that acquires at once.
LEMMA WaitAcquireLemma ==
    ASSUME IInv, NEW t \in Thread, NEW objects \in Seq(Object), NEW wait_all \in BOOLEAN,
           WaitAcquire(t, objects, wait_all)
    PROVE  IInv'
<1> USE DEF threadVars, prioVars, lockVars, listVars, flagVars
<1>1. /\ TypeOK /\ PriorityInherited /\ CallInv /\ stopping = None
      /\ doing = "nothing" /\ waking = None /\ updating = {} /\ fault = "none"
  BY Zenon, IdleFacts DEF WaitAcquire
<1>2. doing' = "acquire" /\ subject' = t /\ rest' \in Seq(Object) /\ done' \in Seq(Object)
  <2>1. \A i \in Available(t, objects) : <<objects[i]>> \in Seq(Object)
    BY DEF Available
  <2>2. \/ Begin("acquire", t, objects)
        \/ \E i \in Available(t, objects) : Begin("acquire", t, <<objects[i]>>)
    BY Zenon DEF WaitAcquire
  <2> QED
    BY Zenon, <2>1, <2>2, EmptyList DEF Begin
<1>3. /\ UNCHANGED <<threadVars, prioVars, lockVars, listVars, flagVars,
                     waking, updating, stopping, fault>>
      /\ status[t] = "Running"
  BY Zenon DEF WaitAcquire
<1>4. TypeOK'
  BY Zenon, <1>1, <1>2, <1>3 DEF TypeOK
<1>5. PriorityInherited'
  BY Zenon, <1>1, <1>3, PriorityFrame
<1>6. ListsInv' /\ StatusInv' /\ OwnInv' /\ ListedInv' /\ RemoveInv'
  BY Zenon, <1>1, <1>2, <1>3 DEF CallInv, ListsInv, StatusInv, OwnInv, ListedInv, RemoveInv
<1>7. LoopInv'
  BY Zenon, <1>1, <1>2, <1>3 DEF CallInv, LoopInv
<1>8. \A o \in Object, u \in Thread : ShouldWait(o, u) => ShouldWait(o, u)'
  BY Zenon, <1>3 DEF ShouldWait
<1>9. WakeInv'
  BY Zenon, <1>1, <1>3, <1>8, WakeFrame DEF CallInv, WaitGoesOn
<1> QED
  BY Zenon, <1>4, <1>5, <1>6, <1>7, <1>9 DEF IInv, CallInv

\* WaitSynchronization that blocks: what it asks for is not there.
LEMMA WaitBlockLemma ==
    ASSUME IInv, NEW t \in Thread, NEW objects \in Seq(Object), NEW wait_all \in BOOLEAN,
           NEW timed \in BOOLEAN, WaitBlock(t, objects, wait_all, timed)
    PROVE  IInv'
<1> USE DEF prioVars, lockVars, listVars, flagVars
<1>1. /\ TypeOK /\ PriorityInherited /\ CallInv /\ stopping = None
      /\ doing = "nothing" /\ waking = None /\ updating = {} /\ fault = "none"
  BY Zenon, IdleFacts DEF WaitBlock
<1>2. /\ doing' = "add" /\ subject' = t /\ rest' = objects /\ done' = <<>>
      /\ status[t] = "Running"
      /\ UNCHANGED <<prioVars, lockVars, listVars, flagVars, waking, updating, stopping, fault>>
  BY Zenon DEF WaitBlock, Begin
<1>3. /\ status' = [status EXCEPT ![t] = IF wait_all THEN "WaitSynchAll" ELSE "WaitSynchAny"]
      /\ wait_objects' = [wait_objects EXCEPT ![t] = objects]
      /\ wakeup_event' \in SUBSET Thread
  BY Zenon, <1>1 DEF WaitBlock, TypeOK
<1>4. /\ \A u \in Thread : u # t =>
           status'[u] = status[u] /\ wait_objects'[u] = wait_objects[u]
      /\ status'[t] = (IF wait_all THEN "WaitSynchAll" ELSE "WaitSynchAny")
      /\ wait_objects'[t] = objects
  BY Zenon, <1>1, <1>3 DEF TypeOK
<1>5. status'[t] \in Waits /\ wait_objects[t] = <<>>
  BY Zenon, <1>1, <1>2, <1>4, Kinds DEF CallInv, StatusInv, Waits
<1>6. \A o \in Object : ~Has(waiting_threads[o], t)
  BY <1>1, <1>5 DEF CallInv, ListsInv, Has
<1>7. TypeOK'
  <2>1. status' \in [Thread -> Status] /\ wait_objects' \in [Thread -> Seq(Object)]
    BY Zenon, <1>1, <1>3 DEF TypeOK, Status
  <2> QED
    BY Zenon, <1>1, <1>2, <1>3, <2>1, EmptyList DEF TypeOK
<1>8. \A u \in Thread : status'[u] = "Dead" <=> status[u] = "Dead"
  BY Zenon, <1>2, <1>4
<1>9. PriorityInherited'
  BY Zenon, <1>1, <1>2, <1>8, PriorityFrame
<1>10. ListsInv' /\ ListedInv' /\ RemoveInv'
  BY Zenon, <1>1, <1>2, <1>4, <1>6 DEF CallInv, ListsInv, ListedInv, RemoveInv
<1>11. LoopInv' /\ StatusInv' /\ OwnInv'
  BY Zenon, <1>1, <1>2, <1>4, <1>5, <1>8 DEF CallInv, LoopInv, StatusInv, OwnInv
<1>12. \A o \in Object, u \in Thread : ShouldWait(o, u) <=> ShouldWait(o, u)'
  BY Zenon, <1>2, <1>8 DEF ShouldWait
<1>13. WakeInv'
  <2> SUFFICES ASSUME NEW u \in Thread, WaitGoesOn(u)'
               PROVE  IF status'[u] = "WaitSynchAll"
                      THEN \/ \E o \in Object : Has(wait_objects'[u], o) /\ ShouldWait(o, u)'
                           \/ Has(wait_objects'[u], waking')
                      ELSE \A o \in Object :
                              Has(wait_objects'[u], o) /\ ~ShouldWait(o, u)' => o = waking'
    BY Zenon DEF WakeInv
  <2>1. CASE u # t
    BY Zenon, <1>1, <1>2, <1>4, <1>12, <2>1 DEF CallInv, WakeInv, WaitGoesOn
  <2>2. CASE u = t /\ wait_all
    <3>1. \E i \in DOMAIN objects : ShouldWait(objects[i], t)
      BY Zenon, <2>2 DEF WaitBlock, Available
    <3> QED
      BY <1>4, <1>12, <2>2, <3>1 DEF Has
  <2>3. CASE u = t /\ ~wait_all
    <3>1. \A i \in DOMAIN objects : ShouldWait(objects[i], t)
      BY Zenon, <2>3 DEF WaitBlock, Available
    <3> QED
      BY Zenon, <1>4, <1>12, <2>3, <3>1 DEF Has
  <2> QED
    BY Zenon, <2>1, <2>2, <2>3
<1> QED
  BY Zenon, <1>7, <1>9, <1>10, <1>11, <1>13 DEF IInv, CallInv

\* The timeout of a wait.
LEMMA ThreadWakeupCallbackLemma ==
    ASSUME IInv, NEW t \in Thread, ThreadWakeupCallback(t)
    PROVE  IInv'
<1> USE DEF prioVars, lockVars, listVars, flagVars, loopVars
<1>1. /\ TypeOK /\ PriorityInherited /\ CallInv /\ stopping = None
      /\ doing = "nothing" /\ waking = None /\ updating = {} /\ fault = "none"
  BY Zenon, IdleFacts DEF ThreadWakeupCallback
<1>2. /\ UNCHANGED <<status, wait_objects, prioVars, lockVars, listVars, flagVars,
                     waking, updating, stopping, fault>>
      /\ wakeup_event' \in SUBSET Thread
  BY Zenon, <1>1 DEF ThreadWakeupCallback, TypeOK
<1>3. PriorityInherited' /\ ListsInv' /\ StatusInv' /\ OwnInv'
  <2>1. PriorityInherited'
    BY Zenon, <1>1, <1>2, PriorityFrame
  <2> QED
    BY Zenon, <1>1, <1>2, <2>1 DEF CallInv, ListsInv, StatusInv, OwnInv
<1>4. \A o \in Object, u \in Thread : ShouldWait(o, u) => ShouldWait(o, u)'
  BY Zenon, <1>2 DEF ShouldWait
<1>5. CASE status[t] \in Waits
  <2>1. doing' = "remove" /\ subject' = t /\ rest' = wait_objects[t] /\ done' = <<>>
    BY Zenon, <1>5 DEF ThreadWakeupCallback, Begin
  <2>2. TypeOK'
    BY Zenon, <1>1, <1>2, <2>1, EmptyList DEF TypeOK
  <2>3. ListedInv' /\ RemoveInv' /\ LoopInv'
    BY Zenon, <1>1, <1>2, <1>5, <2>1 DEF CallInv, ListsInv, ListedInv, RemoveInv, LoopInv
  <2>4. WakeInv'
    BY Zenon, <1>1, <1>2, <1>4, <2>1, WakeFrame DEF CallInv, WaitGoesOn
  <2> QED
    BY Zenon, <1>3, <2>2, <2>3, <2>4 DEF IInv, CallInv
<1>6. CASE status[t] \notin Waits
  <2>1. UNCHANGED <<doing, subject, rest, done>>
    BY Zenon, <1>6 DEF ThreadWakeupCallback
  <2>2. TypeOK'
    BY Zenon, <1>1, <1>2, <2>1 DEF TypeOK
  <2>3. ListedInv' /\ RemoveInv' /\ LoopInv'
    BY Zenon, <1>1, <1>2, <2>1 DEF CallInv, ListedInv, RemoveInv, LoopInv
  <2>4. WakeInv'
    BY Zenon, <1>1, <1>2, <1>4, <2>1, WakeFrame DEF CallInv, WaitGoesOn
  <2> QED
    BY <1>3, <2>2, <2>3, <2>4 DEF IInv, CallInv
<1> QED
  BY Zenon, <1>5, <1>6

\* ReleaseMutex: a recursive lock fewer, or the mutex is free and is signalled.
LEMMA ReleaseMutexLemma ==
    ASSUME IInv, NEW t \in Thread, NEW m \in Mutex, ReleaseMutex(t, m)
    PROVE  IInv'
<1> USE DEF threadVars, listVars, flagVars, loopVars
<1>1. /\ TypeOK /\ PriorityInherited /\ CallInv /\ stopping = None
      /\ doing = "nothing" /\ waking = None /\ updating = {} /\ fault = "none"
  BY Zenon, IdleFacts DEF ReleaseMutex
<1>2. /\ UNCHANGED <<threadVars, nominal_priority, priority, listVars, flagVars,
                     loopVars, updating, stopping, fault>>
      /\ lock_count' = [lock_count EXCEPT ![m] = @ - 1]
      /\ holding_thread[m] = t /\ lock_count[m] > 0 /\ m \in Object
  BY Zenon, Kinds DEF ReleaseMutex
<1>3. lock_count[m] \in Nat /\ lock_count' \in [Mutex -> Nat]
  BY <1>1, <1>2 DEF TypeOK
<1>4. /\ lock_count'[m] = lock_count[m] - 1
      /\ \A x \in Mutex : x # m => lock_count'[x] = lock_count[x]
  BY Zenon, <1>1, <1>2 DEF TypeOK
<1>5. ListsInv' /\ StatusInv' /\ ListedInv' /\ RemoveInv'
  BY Zenon, <1>1, <1>2 DEF CallInv, ListsInv, StatusInv, ListedInv, RemoveInv
<1>6. LoopInv'
  BY Zenon, <1>1, <1>2 DEF CallInv, LoopInv
<1>7. CASE lock_count[m] = 1
  <2>1. /\ held_mutexes' = [held_mutexes EXCEPT ![t] = @ \ {m}]
        /\ current_priority' =
             [current_priority EXCEPT ![t] = InheritedPriority(t, held_mutexes'[t], priority)]
        /\ holding_thread' = [holding_thread EXCEPT ![m] = None]
        /\ waking' = m
    BY Zenon, <1>7 DEF ReleaseMutex
  <2>2. /\ held_mutexes' \in [Thread -> SUBSET Mutex]
        /\ holding_thread' \in [Mutex -> Thread \cup {None}]
        /\ held_mutexes'[t] = held_mutexes[t] \ {m}
        /\ \A u \in Thread : u # t => held_mutexes'[u] = held_mutexes[u]
        /\ holding_thread'[m] = None
        /\ \A x \in Mutex : x # m => holding_thread'[x] = holding_thread[x]
    BY Zenon, <1>1, <2>1 DEF TypeOK
  <2>3. InheritedPriority(t, held_mutexes'[t], priority) \in Priority
    <3>1. nominal_priority[t] \in Priority /\ priority \in [Mutex -> Priority]
      BY Zenon, <1>1 DEF TypeOK
    <3>2. held_mutexes'[t] \in SUBSET Mutex
      BY Zenon, <2>2
    <3> QED
      BY Zenon, <3>1, <3>2, InheritedType DEF InheritedPriority
  <2>4. /\ current_priority' \in [Thread -> Priority]
        /\ current_priority'[t] = InheritedPriority(t, held_mutexes'[t], priority)
        /\ \A u \in Thread : u # t => current_priority'[u] = current_priority[u]
    BY Zenon, <1>1, <2>1, <2>3 DEF TypeOK
  <2>5. TypeOK'
    BY Zenon, <1>1, <1>2, <1>3, <2>1, <2>2, <2>4 DEF TypeOK
  <2>6. PriorityInherited'
    <3> SUFFICES ASSUME NEW u \in Thread, status'[u] # "Dead"
                 PROVE  current_priority'[u] =
                          BestPriority({nominal_priority'[u]} \cup
                                       {priority'[n] : n \in held_mutexes'[u]})
      BY Zenon DEF PriorityInherited, InheritedPriority
    <3>1. CASE u = t
      BY Zenon, <1>2, <2>4, <3>1 DEF InheritedPriority
    <3>2. CASE u # t
      <4>1. /\ held_mutexes'[u] = held_mutexes[u] /\ current_priority'[u] = current_priority[u]
            /\ UNCHANGED <<status, nominal_priority, priority>>
        BY Zenon, <1>2, <2>2, <2>4, <3>2
      <4> QED
        BY <1>1, <4>1 DEF PriorityInherited, InheritedPriority
    <3> QED
      BY Zenon, <3>1, <3>2
  <2>7. OwnInv'
    BY <1>1, <1>2, <1>4, <1>7, <2>2, Kinds DEF CallInv, OwnInv
  <2>8. \A o \in Object, u \in Thread : o # m /\ ShouldWait(o, u) => ShouldWait(o, u)'
    BY Zenon, <1>2, <1>4, <2>2 DEF ShouldWait
  <2>9. WakeInv'
    BY Zenon, <1>1, <1>2, <2>1, <2>8, WakeSignal DEF CallInv, WaitGoesOn
  <2> QED
    BY Zenon, <1>5, <1>6, <2>5, <2>6, <2>7, <2>9 DEF IInv, CallInv
<1>8. CASE lock_count[m] # 1
  <2>1. UNCHANGED <<held_mutexes, current_priority, holding_thread, waking>>
    BY Zenon, <1>8 DEF ReleaseMutex
  <2>2. TypeOK'
    BY Zenon, <1>1, <1>2, <1>3, <2>1 DEF TypeOK
  <2>3. PriorityInherited'
    BY Zenon, <1>1, <1>2, <2>1, PriorityFrame
  <2>4. \A x \in Mutex : lock_count'[x] > 0 <=> lock_count[x] > 0
    BY <1>2, <1>3, <1>4, <1>8
  <2>5. OwnInv'
    BY Zenon, <1>1, <1>2, <2>1, <2>4 DEF CallInv, OwnInv
  <2>6. \A o \in Object, u \in Thread : ShouldWait(o, u) => ShouldWait(o, u)'
    BY Zenon, <1>2, <2>1, <2>4 DEF ShouldWait
  <2>7. WakeInv'
    BY Zenon, <1>1, <1>2, <2>1, <2>6, WakeFrame DEF CallInv, WaitGoesOn
  <2> QED
    BY <1>5, <1>6, <2>2, <2>3, <2>5, <2>7 DEF IInv, CallInv
<1> QED
  BY Zenon, <1>7, <1>8

\* ReleaseSemaphore.
LEMMA ReleaseSemaphoreLemma ==
    ASSUME IInv, NEW s \in Semaphore, NEW n \in ReleaseCount, ReleaseSemaphore(s, n)
    PROVE  IInv'
<1> USE DEF ReleaseSemaphore, threadVars, prioVars, lockVars, listVars, loopVars
<1>1. /\ TypeOK /\ PriorityInherited /\ CallInv /\ stopping = None
      /\ doing = "nothing" /\ waking = None /\ updating = {} /\ fault = "none"
  BY Zenon, IdleFacts
<1>2. s \in Object /\ n \in Int
  BY Zenon, Kinds, KernelSyncAssumption
<1>3. TypeOK'
  <2>1. available_count' \in [Semaphore -> Int]
    BY <1>1, <1>2 DEF TypeOK
  <2> QED
    BY Zenon, <1>1, <1>2, <2>1 DEF TypeOK
<1>4. PriorityInherited'
  BY Zenon, <1>1, PriorityFrame
<1>5. ListsInv' /\ StatusInv' /\ OwnInv' /\ ListedInv' /\ RemoveInv' /\ LoopInv'
  BY Zenon, <1>1 DEF CallInv, ListsInv, StatusInv, OwnInv, ListedInv, RemoveInv, LoopInv
<1>6. \A x \in Semaphore : x # s => available_count'[x] = available_count[x]
  BY Zenon, <1>1 DEF TypeOK
<1>7. \A o \in Object, u \in Thread : o # s /\ ShouldWait(o, u) => ShouldWait(o, u)'
  BY Zenon, <1>6 DEF ShouldWait
<1>8. WakeInv'
  BY Zenon, <1>1, <1>2, <1>7, WakeSignal DEF CallInv, WaitGoesOn
<1> QED
  BY Zenon, <1>3, <1>4, <1>5, <1>8 DEF IInv, CallInv

\* Event::Signal.
LEMMA SignalEventLemma ==
    ASSUME IInv, NEW e \in Event, SignalEvent(e)
    PROVE  IInv'
<1> USE DEF SignalEvent, threadVars, prioVars, lockVars, listVars, loopVars
<1>1. /\ TypeOK /\ PriorityInherited /\ CallInv /\ stopping = None
      /\ doing = "nothing" /\ waking = None /\ updating = {} /\ fault = "none"
  BY Zenon, IdleFacts
<1>2. e \in Object
  BY Zenon, Kinds
<1>3. TypeOK'
  <2>1. signaled' \in [Event -> BOOLEAN]
    BY Zenon, <1>1 DEF TypeOK
  <2> QED
    BY Zenon, <1>1, <1>2, <2>1 DEF TypeOK
<1>4. PriorityInherited'
  BY Zenon, <1>1, PriorityFrame
<1>5. ListsInv' /\ StatusInv' /\ OwnInv' /\ ListedInv' /\ RemoveInv' /\ LoopInv'
  BY Zenon, <1>1 DEF CallInv, ListsInv, StatusInv, OwnInv, ListedInv, RemoveInv, LoopInv
<1>6. \A x \in Event : x # e => signaled'[x] = signaled[x]
  BY Zenon, <1>1 DEF TypeOK
<1>7. \A o \in Object, u \in Thread : o # e /\ ShouldWait(o, u) => ShouldWait(o, u)'
  BY Zenon, <1>6 DEF ShouldWait
<1>8. WakeInv'
  BY Zenon, <1>1, <1>2, <1>7, WakeSignal DEF CallInv, WaitGoesOn
<1> QED
  BY Zenon, <1>3, <1>4, <1>5, <1>8 DEF IInv, CallInv

\* Event::Clear.
LEMMA ClearEventLemma ==
    ASSUME IInv, NEW e \in Event, ClearEvent(e)
    PROVE  IInv'
<1> USE DEF ClearEvent, threadVars, prioVars, lockVars, listVars, stepVars, loopVars
<1>1. TypeOK /\ PriorityInherited /\ CallInv /\ fault = "none"
  BY Zenon, IdleFacts
<1>2. TypeOK'
  <2>1. signaled' \in [Event -> BOOLEAN]
    BY Zenon, <1>1 DEF TypeOK
  <2> QED
    BY Zenon, <1>1, <2>1 DEF TypeOK
<1>3. PriorityInherited'
  BY Zenon, <1>1, PriorityFrame
<1>4. ListsInv' /\ StatusInv' /\ OwnInv' /\ ListedInv' /\ RemoveInv' /\ LoopInv'
  BY Zenon, <1>1 DEF CallInv, ListsInv, StatusInv, OwnInv, ListedInv, RemoveInv, LoopInv
<1>5. \A x \in Event : ~signaled[x] => ~signaled'[x]
  BY Zenon, <1>1 DEF TypeOK
<1>6. \A o \in Object, u \in Thread : ShouldWait(o, u) => ShouldWait(o, u)'
  BY Zenon, <1>5 DEF ShouldWait
<1>7. WakeInv'
  BY Zenon, <1>1, <1>6, WakeFrame DEF CallInv, WaitGoesOn
<1> QED
  BY Zenon, <1>2, <1>3, <1>4, <1>7 DEF IInv, CallInv

\* SetThreadPriority.
LEMMA SetThreadPriorityLemma ==
    ASSUME IInv, NEW t \in Thread, NEW p \in Priority, SetThreadPriority(t, p)
    PROVE  IInv'
<1> DEFINE b == BestPriority({p} \cup {priority[m] : m \in held_mutexes[t]})
<1> USE DEF threadVars, lockVars, listVars, flagVars, loopVars
<1>1. /\ TypeOK /\ PriorityInherited /\ CallInv /\ stopping = None
      /\ doing = "nothing" /\ waking = None /\ fault = "none"
  BY Zenon, IdleFacts DEF SetThreadPriority
<1>2. /\ UNCHANGED <<threadVars, priority, lockVars, listVars, flagVars,
                     loopVars, waking, stopping, fault>>
      /\ nominal_priority' = [nominal_priority EXCEPT ![t] = p]
      /\ current_priority' = [current_priority EXCEPT ![t] = b]
      /\ updating' = pending_mutexes[t]
  BY Zenon DEF SetThreadPriority
<1>3. b \in Priority
  <2>1. held_mutexes[t] \in SUBSET Mutex /\ priority \in [Mutex -> Priority]
    BY Zenon, <1>1 DEF TypeOK
  <2> QED
    BY Zenon, <2>1, InheritedType
<1>4. PriorityInherited'
  <2> SUFFICES ASSUME NEW u \in Thread, status'[u] # "Dead"
               PROVE  current_priority'[u] =
                        BestPriority({nominal_priority'[u]} \cup
                                     {priority'[n] : n \in held_mutexes'[u]})
    BY Zenon DEF PriorityInherited, InheritedPriority
  <2>1. CASE u = t
    BY Zenon, <1>1, <1>2, <2>1 DEF TypeOK
  <2>2. CASE u # t
    <3>1. /\ nominal_priority'[u] = nominal_priority[u]
          /\ current_priority'[u] = current_priority[u]
          /\ UNCHANGED <<status, held_mutexes, priority>>
      BY Zenon, <1>1, <1>2, <2>2 DEF TypeOK
    <3>2. current_priority[u] =
            BestPriority({nominal_priority[u]} \cup {priority[n] : n \in held_mutexes[u]})
      BY Zenon, <1>1, <3>1 DEF PriorityInherited, InheritedPriority
    <3> QED
      BY Zenon, <3>1, <3>2
  <2> QED
    BY Zenon, <2>1, <2>2
<1> HIDE DEF b
<1>5. TypeOK'
  <2>1. nominal_priority' \in [Thread -> Priority] /\ current_priority' \in [Thread -> Priority]
    BY Zenon, <1>1, <1>2, <1>3 DEF TypeOK
  <2>2. updating' \in SUBSET Mutex
    BY Zenon, <1>1, <1>2 DEF TypeOK
  <2> QED
    BY Zenon, <1>1, <1>2, <2>1, <2>2 DEF TypeOK
<1>6. ListsInv' /\ StatusInv' /\ OwnInv' /\ ListedInv' /\ RemoveInv' /\ LoopInv'
  BY Zenon, <1>1, <1>2 DEF CallInv, ListsInv, StatusInv, OwnInv, ListedInv, RemoveInv, LoopInv
<1>7. \A o \in Object, u \in Thread : ShouldWait(o, u) => ShouldWait(o, u)'
  BY Zenon, <1>2 DEF ShouldWait
<1>8. WakeInv'
  BY Zenon, <1>1, <1>2, <1>7, WakeFrame DEF CallInv, WaitGoesOn
<1> QED
  BY Zenon, <1>4, <1>5, <1>6, <1>8 DEF IInv, CallInv

\* Thread::Stop marks the thread dead, and so available to those that join it.
LEMMA StopLemma ==
    ASSUME IInv, NEW t \in Thread, Stop(t)
    PROVE  IInv'
<1> USE DEF Stop, prioVars, lockVars, listVars, flagVars, loopVars
<1>1. /\ TypeOK /\ PriorityInherited /\ CallInv /\ stopping = None
      /\ doing = "nothing" /\ waking = None /\ updating = {} /\ fault = "none"
  BY Zenon, IdleFacts
<1>2. t \in Object
  BY Zenon, Kinds
<1>3. /\ status'[t] = "Dead"
      /\ \A u \in Thread : u # t => status'[u] = status[u]
  BY Zenon, <1>1 DEF TypeOK
<1>4. TypeOK'
  <2>1. status' \in [Thread -> Status] /\ wakeup_event' \in SUBSET Thread
    BY Zenon, <1>1 DEF TypeOK, Status
  <2> QED
    BY Zenon, <1>1, <1>2, <2>1 DEF TypeOK
<1>5. PriorityInherited'
  BY Zenon, <1>1, <1>3, PriorityFrame
<1>6. ListsInv' /\ ListedInv' /\ RemoveInv'
  BY Zenon, <1>1 DEF CallInv, ListsInv, ListedInv, RemoveInv
<1>7. LoopInv' /\ StatusInv'
  BY Zenon, <1>1, <1>3, Kinds DEF CallInv, LoopInv, StatusInv
<1>8. OwnInv'
  BY <1>1, <1>3, Kinds DEF CallInv, OwnInv
<1>9. \A o \in Object, u \in Thread : o # t /\ ShouldWait(o, u) => ShouldWait(o, u)'
  BY Zenon, <1>3 DEF ShouldWait
<1>10. WakeInv'
  BY Zenon, <1>1, <1>2, <1>3, <1>9, WakeSignal DEF CallInv, WaitGoesOn, Waits
<1> QED
  BY Zenon, <1>4, <1>5, <1>6, <1>7, <1>8, <1>10 DEF IInv, CallInv

\* Every step of a call preserves the invariant.
LEMMA CallStepLemma ==
    ASSUME IInv, CallStep
    PROVE  IInv'
<1>1. CASE LoopRound
  <2>1. TypeOK /\ done' = Append(done, Head(rest)) /\ rest # <<>>
    BY Zenon, <1>1 DEF LoopRound, IInv
  <2>2. done' \in Seq(Object)
    BY Zenon, <2>1, TailLemma, PushLemma DEF TypeOK
  <2> QED
    BY Zenon, <1>1, <2>2, AcquireRoundLemma, AddRoundLemma, RemoveRoundLemma DEF LoopRound
<1> QED
  BY Zenon, <1>1, AcquireDoneLemma, AddDoneLemma, RemoveDoneLemma, WakeupOneLemma, WakeupDoneLemma,
     UpdateMutexLemma, StopRemoveLemma, StopReleaseLemma, StopDoneLemma DEF CallStep

\* So does the beginning of every call.
LEMMA CallLemma ==
    ASSUME IInv, Call
    PROVE  IInv'
<1>1. \A t \in Thread : \A objects \in WaitList[t] : objects \in Seq(Object)
  BY Zenon, KernelSyncAssumption
<1>2. ASSUME NEW t \in Thread,
             \/ SwitchContext(t)
             \/ ThreadWakeupCallback(t)
             \/ Stop(t)
             \/ \E p \in Priority : SetThreadPriority(t, p)
             \/ \E m \in Mutex : ReleaseMutex(t, m)
      PROVE  IInv'
  BY Zenon, <1>2, SwitchContextLemma, ThreadWakeupCallbackLemma, StopLemma,
     SetThreadPriorityLemma, ReleaseMutexLemma
<1>3. ASSUME NEW t \in Thread, NEW objects \in WaitList[t], NEW wait_all \in BOOLEAN,
             \/ WaitAcquire(t, objects, wait_all)
             \/ \E timed \in BOOLEAN : WaitBlock(t, objects, wait_all, timed)
      PROVE  IInv'
  BY Zenon, <1>1, <1>3, WaitAcquireLemma, WaitBlockLemma
<1>4. ASSUME \E s \in Semaphore, n \in ReleaseCount : ReleaseSemaphore(s, n)
      PROVE  IInv'
  BY Zenon, <1>4, ReleaseSemaphoreLemma
<1>5. ASSUME \E e \in Event : SignalEvent(e) \/ ClearEvent(e)
      PROVE  IInv'
  BY Zenon, <1>5, SignalEventLemma, ClearEventLemma
<1> QED
  BY Zenon, <1>2, <1>3, <1>4, <1>5 DEF Call

\* A step that changes nothing.
LEMMA StutterLemma ==
    ASSUME IInv, UNCHANGED vars
    PROVE  IInv'
<1> USE DEF vars, threadVars, prioVars, lockVars, listVars, flagVars, stepVars, loopVars
<1>1. TypeOK'
  BY Zenon DEF IInv, TypeOK
<1>2. PriorityInherited'
  BY Zenon, PriorityFrame DEF IInv
<1>3. ASSUME fault' = "none" PROVE CallInv'
  <2>1. CallInv /\ TypeOK
    BY Zenon, <1>3 DEF IInv
  <2>2. ListsInv' /\ StatusInv' /\ OwnInv' /\ ListedInv' /\ RemoveInv' /\ LoopInv'
    BY Zenon, <2>1 DEF CallInv, ListsInv, StatusInv, OwnInv, ListedInv, RemoveInv, LoopInv
  <2>3. \A o \in Object, u \in Thread : ShouldWait(o, u) => ShouldWait(o, u)'
    BY Zenon DEF ShouldWait
  <2>4. WakeInv'
    BY Zenon, <2>1, <2>3, WakeFrame DEF CallInv, WaitGoesOn
  <2> QED
    BY Zenon, <2>2, <2>4 DEF CallInv
<1> QED
  BY Zenon, <1>1, <1>2, <1>3 DEF IInv

\* IInv is an inductive invariant.
THEOREM InductiveInvariant == Spec => []IInv
<1>1. IInv /\ [Next]_vars => IInv'
  BY Zenon, CallStepLemma, CallLemma, StutterLemma DEF Next
<1> QED
  BY InitLemma, <1>1, PTL DEF Spec

-----------------------------------------------------------------------------
(* The theorems *)

\* Every variable keeps its type: in particular a computed priority is always
\* one of the priorities there are.
THEOREM TypeCorrect == Spec => []TypeOK
<1>1. IInv => TypeOK
  BY Zenon DEF IInv
<1> QED
  BY InductiveInvariant, <1>1, PTL

\* Mutex and thread agree on who holds a mutex, and no dead thread holds one.
THEOREM OwnershipCorrect == Spec => []OwnershipAgrees
<1>1. IInv => OwnershipAgrees
  <2> SUFFICES ASSUME IInv, Idle, NEW m \in Mutex
               PROVE  /\ lock_count[m] > 0 <=> holding_thread[m] # None
                      /\ \A t \in Thread : m \in held_mutexes[t] <=> holding_thread[m] = t
                      /\ holding_thread[m] # None => status[holding_thread[m]] # "Dead"
    BY Zenon DEF OwnershipAgrees
  <2>1. OwnInv /\ TypeOK /\ stopping = None
    BY Zenon, IdleFacts DEF CallInv
  <2> QED
    BY <2>1, Kinds DEF OwnInv, TypeOK
<1> QED
  BY InductiveInvariant, <1>1, PTL

\* A thread is on exactly the lists of the objects it waits for.
THEOREM WaitListsCorrect == Spec => []WaitListsAgree
<1>1. IInv => WaitListsAgree
  <2> SUFFICES ASSUME IInv, Idle, NEW t \in Thread
               PROVE  /\ \A o \in Object : Has(waiting_threads[o], t) <=> Has(wait_objects[t], o)
                      /\ pending_mutexes[t] = {m \in Mutex : Has(wait_objects[t], m)}
                      /\ wait_objects[t] # <<>> => status[t] \in Waits
    BY Zenon DEF WaitListsAgree
  <2>1. ListsInv /\ ListedInv /\ StatusInv /\ doing = "nothing" /\ stopping = None
    BY Zenon, IdleFacts DEF CallInv
  <2>2. \A o \in Object : Has(waiting_threads[o], t) <=> Has(wait_objects[t], o)
    BY Zenon, <2>1 DEF ListsInv, ListedInv
  <2>3. pending_mutexes[t] = {m \in Mutex : Has(wait_objects[t], m)}
    BY Zenon, <2>1, <2>2, Kinds DEF ListsInv
  <2> QED
    BY Zenon, <2>1, <2>2, <2>3, Kinds DEF StatusInv
<1> QED
  BY InductiveInvariant, <1>1, PTL

\* No thread is left waiting for what it could have when a call is over.
THEOREM NoWakeupIsLost == Spec => []NoLostWakeup
<1>1. IInv => NoLostWakeup
  <2> SUFFICES ASSUME IInv, Idle, NEW t \in Thread, Satisfied(t)
               PROVE  FALSE
    BY Zenon DEF NoLostWakeup
  <2>1. WakeInv /\ TypeOK /\ doing = "nothing" /\ waking = None
    BY Zenon, IdleFacts DEF CallInv
  <2>2. WaitGoesOn(t)
    BY Zenon, <2>1 DEF Satisfied, WaitGoesOn
  <2>3. \A i \in DOMAIN wait_objects[t] : wait_objects[t][i] \in Object /\ wait_objects[t][i] # None
    BY <2>1, Kinds DEF TypeOK
  <2>4. CASE status[t] = "WaitSynchAll"
    BY Zenon, <2>1, <2>2, <2>3, <2>4 DEF Satisfied, WakeInv, Has
  <2>5. CASE status[t] # "WaitSynchAll"
    BY Zenon, <2>1, <2>2, <2>3, <2>5 DEF Satisfied, WakeInv, Has
  <2> QED
    BY Zenon, <2>4, <2>5
<1> QED
  BY InductiveInvariant, <1>1, PTL

\* Every live thread runs at the priority its own and its mutexes give it.
THEOREM PrioritiesCorrect == Spec => []PriorityInherited
<1>1. IInv => PriorityInherited
  BY Zenon DEF IInv
<1> QED
  BY InductiveInvariant, <1>1, PTL

-----------------------------------------------------------------------------
(* What a waiting thread passes on to the holder of a mutex.  The priority  *)
(* of a mutex covers a simple waiter unless a loop is under way that will   *)
(* compute it again.                                                        *)

\* A thread that is woken acquires what it waits for.
TakesWaited ==
    doing = "acquire" /\ waking # None =>
        \A o \in Object : Has(rest, o) => Has(wait_objects[subject], o)

\* t waits for the held mutex m, and for nothing together with it.
SimpleWaiter(m, t) ==
    /\ holding_thread[m] # None
    /\ Has(waiting_threads[m], t)
    /\ status[t] = "WaitSynchAny"
    /\ held_mutexes[t] = {}

\* The thread that is being woken is still to be taken off the list of m.
Leaving(m) ==
    doing \in {"acquire", "remove"} /\ waking # None /\ Has(waiting_threads[m], subject)

Covered(m, t) == priority[m] <= current_priority[t] \/ m \in updating \/ Leaving(m)

BoostInv == \A m \in Mutex, t \in Thread : SimpleWaiter(m, t) => Covered(m, t)

BInv == fault = "none" => TakesWaited /\ BoostInv

\* Steps that change neither mutexes nor their lists.
LEMMA BoostFrame ==
    ASSUME BoostInv, updating' = updating,
           UNCHANGED <<holding_thread, held_mutexes, priority, current_priority>>,
           \A m \in Mutex : waiting_threads'[m] = waiting_threads[m],
           \A m \in Mutex : Leaving(m) => Leaving(m)',
           \A m \in Mutex, t \in Thread :
               status'[t] = "WaitSynchAny" /\ Has(waiting_threads[m], t) => status[t] = "WaitSynchAny"
    PROVE  BoostInv'
<1> SUFFICES ASSUME NEW m \in Mutex, NEW t \in Thread, SimpleWaiter(m, t)'
             PROVE  Covered(m, t)'
  BY Zenon DEF BoostInv
<1>1. SimpleWaiter(m, t)
  BY Zenon DEF SimpleWaiter
<1>2. Covered(m, t)
  BY Zenon, <1>1 DEF BoostInv
<1> QED
  BY Zenon, <1>2 DEF Covered

\* Mutex::UpdatePriority covers all threads of the list it looks at, and changes
\* no other mutex and no thread without mutexes.
LEMMA UpdateCovers ==
    ASSUME TypeOK, OwnInv, NEW m \in Mutex, NEW w \in Seq(Thread), UpdatePriority(m, w)
    PROVE  /\ \A x \in Mutex : x # m => priority'[x] = priority[x]
           /\ \A t \in Thread : held_mutexes[t] = {} => current_priority'[t] = current_priority[t]
           /\ holding_thread[m] # None =>
                \A t \in Thread : Has(w, t) => priority'[m] <= current_priority[t]
<1> DEFINE h == holding_thread[m]
           ps == {ThreadPrioLowest} \cup {current_priority[w[i]] : i \in DOMAIN w}
<1>1. ASSUME NEW t \in Thread, Has(w, t) PROVE BestWaiter(w) <= current_priority[t]
  <2>1. ps \subseteq Priority /\ ps # {}
    <3>1. \A i \in DOMAIN w : w[i] \in Thread
      OBVIOUS
    <3>2. ThreadPrioLowest \in Priority
      BY KernelSyncAssumption DEF Priority
    <3> QED
      BY <3>1, <3>2 DEF TypeOK
  <2>2. current_priority[t] \in ps
    BY Zenon, <1>1 DEF Has
  <2> HIDE DEF ps
  <2>3. BestPriority(ps) <= current_priority[t]
    BY Zenon, <2>1, <2>2, BestPriorityLemma
  <2> QED
    BY Zenon, <2>3 DEF BestWaiter, ps
<1>2. CASE h = None \/ BestWaiter(w) = priority[m]
  <2>1. UNCHANGED <<priority, current_priority>>
    BY Zenon, <1>2 DEF UpdatePriority
  <2> QED
    BY Zenon, <1>1, <1>2, <2>1
<1>3. CASE ~(h = None \/ BestWaiter(w) = priority[m])
  <2>1. /\ priority' = [priority EXCEPT ![m] = BestWaiter(w)]
        /\ current_priority' =
             [current_priority EXCEPT ![h] = InheritedPriority(h, held_mutexes[h], priority')]
    BY Zenon, <1>3 DEF UpdatePriority
  <2>2. h \in Thread /\ m \in held_mutexes[h]
    BY Zenon, <1>3 DEF TypeOK, OwnInv
  <2>3. /\ priority'[m] = BestWaiter(w)
        /\ \A x \in Mutex : x # m => priority'[x] = priority[x]
    BY Zenon, <2>1 DEF TypeOK
  <2>4. \A t \in Thread : held_mutexes[t] = {} => t # h
    BY Zenon, <2>2
  <2>5. \A t \in Thread : t # h => current_priority'[t] = current_priority[t]
    BY Zenon, <2>1 DEF TypeOK
  <2> QED
    BY Zenon, <1>1, <2>3, <2>4, <2>5
<1> QED
  BY Zenon, <1>2, <1>3

\* A change of the list of an object that keeps the other waiters of a mutex.
LEMMA BoostRelist ==
    ASSUME TypeOK, OwnInv, BoostInv,
           NEW o \in Object, NEW t \in Thread, NEW w \in Seq(Thread), NEW pending,
           Relist(o, t, w, pending),
           UNCHANGED <<subject, doing, waking, updating>>
    PROVE  BoostInv'
<1>1. /\ waiting_threads' = [waiting_threads EXCEPT ![o] = w]
      /\ UNCHANGED <<status, holding_thread, held_mutexes>>
  BY Zenon DEF Relist, threadVars, lockVars
<1>2. /\ waiting_threads'[o] = w
      /\ \A x \in Object : x # o => waiting_threads'[x] = waiting_threads[x]
  BY Zenon, <1>1 DEF TypeOK
<1>3. CASE o \notin Mutex
  <2>1. UNCHANGED <<priority, current_priority>>
    BY Zenon, <1>3 DEF Relist
  <2>2. \A m \in Mutex : waiting_threads'[m] = waiting_threads[m]
    BY Zenon, <1>2, <1>3, Kinds
  <2>3. \A m \in Mutex : Leaving(m) => Leaving(m)'
    BY Zenon, <2>2 DEF Leaving
  <2> QED
    BY Zenon, <1>1, <2>1, <2>2, <2>3, BoostFrame
<1>4. CASE o \in Mutex
  <2>1. UpdatePriority(o, w)
    BY Zenon, <1>4 DEF Relist
  <2>2. /\ \A x \in Mutex : x # o => priority'[x] = priority[x]
        /\ \A u \in Thread : held_mutexes[u] = {} => current_priority'[u] = current_priority[u]
        /\ holding_thread[o] # None =>
             \A u \in Thread : Has(w, u) => priority'[o] <= current_priority[u]
    BY Zenon, <1>4, <2>1, UpdateCovers
  <2> SUFFICES ASSUME NEW m \in Mutex, NEW u \in Thread, SimpleWaiter(m, u)'
               PROVE  Covered(m, u)'
    BY Zenon DEF BoostInv
  <2>3. CASE m = o
    BY Zenon, <1>1, <1>2, <2>2, <2>3 DEF SimpleWaiter, Covered
  <2>4. CASE m # o
    <3>1. waiting_threads'[m] = waiting_threads[m] /\ SimpleWaiter(m, u)
      BY Zenon, <1>1, <1>2, <2>4, Kinds DEF SimpleWaiter
    <3>2. Covered(m, u) /\ held_mutexes[u] = {}
      BY Zenon, <3>1 DEF BoostInv, SimpleWaiter
    <3> QED
      BY Zenon, <2>2, <2>4, <3>1, <3>2 DEF Covered, Leaving
  <2> QED
    BY Zenon, <2>3, <2>4
<1> QED
  BY Zenon, <1>3, <1>4

\* A round of the loop that acquires objects: the mutex that is taken is one the
\* thread leaves, or one that nobody waits for alone.
LEMMA BoostAcquire ==
    ASSUME IInv, BInv, fault = "none", rest # <<>>,
           doing = "acquire", Acquire(Head(rest), subject), rest' = Tail(rest),
           UNCHANGED <<doing, subject, waking, updating, stopping>>
    PROVE  TakesWaited' /\ BoostInv'
<1> DEFINE o == Head(rest)
           t == subject
<1>1. TypeOK /\ CallInv /\ TakesWaited /\ BoostInv
  BY Zenon DEF IInv, BInv
<1>2. /\ o \in Object
      /\ \A x : Has(rest, x) <=> x = o \/ Has(Tail(rest), x)
  BY Zenon, <1>1, TailLemma DEF TypeOK
<1>3. t \in Thread /\ updating = {}
  BY Zenon, <1>1 DEF CallInv, LoopInv
<1>4. UNCHANGED <<status, wait_objects, waiting_threads>>
  BY Zenon DEF Acquire, threadVars, listVars
<1>5. TakesWaited'
  BY Zenon, <1>1, <1>2, <1>4 DEF TakesWaited
<1>6. \A m \in Mutex : Leaving(m) => Leaving(m)'
  BY Zenon, <1>4 DEF Leaving
<1> HIDE DEF o, t
<1>7. Acquire(o, t) /\ t = subject
  BY Zenon DEF o, t
<1>8. CASE o \notin Mutex \/ (o \in Mutex /\ lock_count[o] > 0)
  <2>1. UNCHANGED <<holding_thread, held_mutexes, priority, current_priority>>
    BY Zenon, <1>7, <1>8 DEF Acquire, AcquireMutex, lockVars
  <2>2. BoostInv'
    BY Zenon, <1>1, <1>4, <1>6, <2>1, BoostFrame
  <2> QED
    BY Zenon, <1>5, <2>2
<1>9. CASE o \in Mutex /\ ~(lock_count[o] > 0)
  <2>1. /\ priority' = [priority EXCEPT ![o] = current_priority[t]]
        /\ held_mutexes' = [held_mutexes EXCEPT ![t] = @ \cup {o}]
        /\ holding_thread' = [holding_thread EXCEPT ![o] = t]
        /\ current_priority' =
             [current_priority EXCEPT ![t] = InheritedPriority(t, held_mutexes'[t], priority')]
    BY Zenon, <1>7, <1>9 DEF Acquire, AcquireMutex
  <2>2. /\ o \in held_mutexes'[t]
        /\ \A u \in Thread : u # t => /\ held_mutexes'[u] = held_mutexes[u]
                                      /\ current_priority'[u] = current_priority[u]
        /\ \A m \in Mutex : m # o => /\ holding_thread'[m] = holding_thread[m]
                                     /\ priority'[m] = priority[m]
    BY Zenon, <1>1, <1>3, <2>1 DEF TypeOK
  <2> SUFFICES ASSUME NEW m \in Mutex, NEW u \in Thread, SimpleWaiter(m, u)'
               PROVE  Covered(m, u)'
    BY Zenon, <1>5 DEF BoostInv
  <2>3. u # t
    BY Zenon, <2>2 DEF SimpleWaiter
  <2>4. CASE m # o
    <3>1. SimpleWaiter(m, u)
      BY Zenon, <1>4, <2>2, <2>3, <2>4 DEF SimpleWaiter
    <3> QED
      BY Zenon, <1>1, <1>6, <2>2, <2>3, <2>4, <3>1 DEF BoostInv, Covered
  <2>5. CASE m = o /\ waking # None
    <3>1. Has(wait_objects[t], o)
      BY Zenon, <1>1, <1>2, <1>7, <1>9, <2>5 DEF TakesWaited
    <3>2. Has(waiting_threads[o], t)
      BY Zenon, <1>1, <1>2, <1>3, <1>7, <3>1 DEF CallInv, ListedInv
    <3> QED
      BY Zenon, <1>4, <1>7, <2>5, <3>2 DEF Covered, Leaving
  <2>6. CASE m = o /\ waking = None
    <3>1. Has(waiting_threads[o], u) /\ status[u] = "WaitSynchAny"
      BY Zenon, <1>4, <2>6 DEF SimpleWaiter
    <3>2. Has(wait_objects[u], o) /\ ~ShouldWait(o, u) /\ WaitGoesOn(u)
      BY Zenon, <1>1, <1>2, <1>7, <1>9, <2>3, <3>1, Kinds
         DEF CallInv, ListsInv, ShouldWait, WaitGoesOn, Waits
    <3>3. o = waking
      BY Zenon, <1>1, <1>2, <3>1, <3>2 DEF CallInv, WakeInv
    <3> QED
      BY Zenon, <1>2, <2>6, <3>3, Kinds
  <2> QED
    BY Zenon, <2>4, <2>5, <2>6
<1> QED
  BY Zenon, <1>8, <1>9

\* The other loops over objects change one list at a time.
LEMMA BoostLists ==
    ASSUME IInv, BInv, fault = "none", rest # <<>>,
           \/ doing = "add" /\ AddWaitingThread(Head(rest), subject)
           \/ doing = "remove" /\ RemoveWaitingThread(Head(rest), subject),
           UNCHANGED <<doing, subject, waking, updating, stopping>>
    PROVE  TakesWaited' /\ BoostInv'
<1>1. TypeOK /\ OwnInv /\ ListsInv /\ BoostInv
  BY Zenon DEF IInv, BInv, CallInv
<1>2. subject \in Thread
  BY Zenon DEF IInv, CallInv, LoopInv
<1>3. Head(rest) \in Object
  BY Zenon, <1>1, TailLemma DEF TypeOK
<1>4. TakesWaited'
  BY Zenon DEF TakesWaited
<1> DEFINE q == waiting_threads[Head(rest)]
<1>5. q \in Seq(Thread) /\ Distinct(q)
  BY Zenon, <1>1, <1>3 DEF TypeOK, ListsInv
<1>6. \E w \in Seq(Thread) : \E pending : Relist(Head(rest), subject, w, pending)
  <2>1. Without(q, subject) \in Seq(Thread)
    BY Zenon, <1>5, WithoutLemma
  <2>2. (IF Has(q, subject) THEN q ELSE Append(q, subject)) \in Seq(Thread)
    BY Zenon, <1>2, <1>5, AppendLemma
  <2> QED
    BY Zenon, <2>1, <2>2 DEF AddWaitingThread, RemoveWaitingThread
<1> QED
  BY Zenon, <1>1, <1>2, <1>3, <1>4, <1>6, BoostRelist

\* The steps between the loops.
LEMMA BoostSteps ==
    ASSUME IInv, BInv, fault' = "none",
           AcquireDone \/ AddDone \/ RemoveDone \/ WakeupOne \/ WakeupDone \/ StopRemove
    PROVE  TakesWaited' /\ BoostInv'
<1>1. fault = "none"
  BY Zenon DEF AcquireDone, AddDone, RemoveDone, WakeupOne, WakeupDone, StopRemove, Stopping, Free
<1>2. TypeOK /\ CallInv /\ TakesWaited /\ BoostInv
  BY Zenon, <1>1 DEF IInv, BInv
<1>3. /\ UNCHANGED <<holding_thread, held_mutexes, priority, current_priority, updating,
                     waiting_threads>>
      /\ WakeupDone \/ waking' = waking
  BY Zenon DEF AcquireDone, AddDone, RemoveDone, WakeupOne, WakeupDone, StopRemove, Begin, NoLoop,
     prioVars, lockVars, listVars, loopVars
<1>4. \A t \in Thread : status'[t] = "WaitSynchAny" => status[t] = "WaitSynchAny"
  <2>1. CASE RemoveDone
    <3>1. status' = [status EXCEPT ![subject] = IF @ \in Waits THEN "Ready" ELSE @]
      BY Zenon, <2>1 DEF RemoveDone
    <3> QED
      BY Zenon, <1>2, <3>1 DEF TypeOK
  <2>2. CASE ~RemoveDone
    BY Zenon, <2>2 DEF AcquireDone, AddDone, WakeupOne, WakeupDone, StopRemove, threadVars
  <2> QED
    BY Zenon, <2>1, <2>2
<1>5. \A m \in Mutex : Leaving(m) => Leaving(m)'
  <2>1. CASE AcquireDone
    <3>1. waking # None => doing' = "remove" /\ subject' = subject /\ waking' = waking
      BY Zenon, <1>2, <2>1 DEF AcquireDone, Begin, CallInv, LoopInv
    <3> QED
      BY Zenon, <1>3, <3>1 DEF Leaving
  <2>2. CASE RemoveDone
    <3>1. doing = "remove" /\ \A x : ~Has(rest, x)
      BY <2>2 DEF RemoveDone, Has
    <3> QED
      BY Zenon, <1>2, <3>1, Kinds DEF Leaving, CallInv, RemoveInv
  <2>3. CASE AddDone \/ WakeupOne \/ WakeupDone \/ StopRemove
    BY Zenon, <2>3 DEF AddDone, WakeupOne, WakeupDone, StopRemove, Stopping, Free, Leaving
  <2> QED
    BY Zenon, <2>1, <2>2, <2>3
<1>6. BoostInv'
  BY Zenon, <1>2, <1>3, <1>4, <1>5, BoostFrame
<1>7. TakesWaited'
  <2>1. CASE WakeupOne
    <3> DEFINE t == HighestPriorityReadyThread(waking)
    <3>1. /\ Begin("acquire", t, IF status[t] = "WaitSynchAll" THEN wait_objects[t] ELSE <<waking>>)
          /\ waking \in Object /\ ReadyPlaces(waking) # {} /\ wait_objects' = wait_objects
      BY Zenon, <1>2, <2>1 DEF WakeupOne, TypeOK, threadVars
    <3>2. Has(waiting_threads[waking], t) /\ t \in Thread
      <4>1. PICK i \in ReadyPlaces(waking) : t = waiting_threads[waking][i]
        BY Zenon, <1>2, <3>1, HighestLemma
      <4>2. i \in DOMAIN waiting_threads[waking]
        BY Zenon DEF ReadyPlaces
      <4>3. waiting_threads[waking] \in Seq(Thread)
        BY Zenon, <1>2, <3>1 DEF TypeOK
      <4> HIDE DEF t
      <4> QED
        BY <4>1, <4>2, <4>3 DEF Has
    <3>3. Has(wait_objects[t], waking)
      BY Zenon, <1>2, <3>1, <3>2 DEF CallInv, ListsInv
    <3> HIDE DEF t
    <3>4. \A x : Has(<<waking>>, x) => x = waking
      BY DEF Has
    <3> QED
      BY Zenon, <3>1, <3>3, <3>4 DEF TakesWaited, Begin
  <2>2. CASE ~WakeupOne
    BY Zenon, <2>2 DEF AcquireDone, AddDone, RemoveDone, WakeupDone, StopRemove, Begin, NoLoop,
       TakesWaited
  <2> QED
    BY Zenon, <2>1, <2>2
<1> QED
  BY Zenon, <1>6, <1>7

\* SetThreadPriority visits a mutex that its thread waits for.
LEMMA BoostUpdateMutex ==
    ASSUME IInv, BInv, UpdateMutex
    PROVE  TakesWaited' /\ BoostInv'
<1>1. TypeOK /\ CallInv /\ BoostInv /\ fault = "none"
  BY Zenon DEF IInv, BInv, UpdateMutex
<1>2. PICK m \in updating : UpdatePriority(m, waiting_threads[m]) /\ updating' = updating \ {m}
  BY Zenon DEF UpdateMutex
<1>3. UNCHANGED <<status, holding_thread, held_mutexes, waiting_threads, doing, subject, waking>>
  BY Zenon DEF UpdateMutex, threadVars, lockVars, listVars, loopVars
<1>4. m \in Mutex /\ waiting_threads[m] \in Seq(Thread) /\ waking = None
  BY Zenon, <1>1, Kinds DEF TypeOK, CallInv, LoopInv
<1>5. /\ \A x \in Mutex : x # m => priority'[x] = priority[x]
      /\ \A u \in Thread : held_mutexes[u] = {} => current_priority'[u] = current_priority[u]
      /\ holding_thread[m] # None =>
           \A u \in Thread : Has(waiting_threads[m], u) => priority'[m] <= current_priority[u]
  BY Zenon, <1>1, <1>2, <1>4, UpdateCovers DEF CallInv
<1>6. TakesWaited'
  BY Zenon, <1>3, <1>4 DEF TakesWaited
<1>7. ASSUME NEW x \in Mutex, NEW u \in Thread, SimpleWaiter(x, u)'
      PROVE  Covered(x, u)'
  <2>1. SimpleWaiter(x, u)
    BY Zenon, <1>3, <1>7 DEF SimpleWaiter
  <2>2. CASE x = m
    BY Zenon, <1>5, <2>1, <2>2 DEF SimpleWaiter, Covered
  <2>3. CASE x # m
    BY Zenon, <1>1, <1>2, <1>3, <1>5, <2>1, <2>3 DEF SimpleWaiter, BoostInv, Covered, Leaving
  <2> QED
    BY Zenon, <2>2, <2>3
<1> QED
  BY Zenon, <1>6, <1>7 DEF BoostInv

\* The steps that free mutexes: of the thread that releases one or is stopped,
\* which waits for nothing.
LEMMA BoostFreed ==
    ASSUME BoostInv, doing = "nothing", doing' = "nothing", updating' = updating,
           UNCHANGED <<status, waiting_threads, priority>>,
           NEW t \in Thread, status[t] # "WaitSynchAny",
           \A m \in Mutex : holding_thread'[m] # None => holding_thread[m] # None,
           \A u \in Thread : u # t => /\ held_mutexes'[u] = held_mutexes[u]
                                      /\ current_priority'[u] = current_priority[u]
    PROVE  TakesWaited' /\ BoostInv'
<1>1. TakesWaited'
  BY Zenon DEF TakesWaited
<1>2. ASSUME NEW m \in Mutex, NEW u \in Thread, SimpleWaiter(m, u)'
      PROVE  Covered(m, u)'
  <2>1. SimpleWaiter(m, u) /\ u # t
    BY Zenon, <1>2 DEF SimpleWaiter
  <2> QED
    BY Zenon, <2>1 DEF BoostInv, Covered, Leaving
<1> QED
  BY Zenon, <1>1, <1>2 DEF BoostInv

\* ReleaseThreadMutexes.
LEMMA BoostStop ==
    ASSUME IInv, BInv, StopRelease \/ StopDone
    PROVE  TakesWaited' /\ BoostInv'
<1>1. fault = "none" /\ doing = "nothing" /\ stopping # None
  BY Zenon DEF StopRelease, StopDone, Stopping, Free
<1>2. TypeOK /\ CallInv /\ BoostInv
  BY Zenon, <1>1 DEF IInv, BInv
<1>3. stopping \in Thread /\ status[stopping] # "WaitSynchAny"
  BY Zenon, <1>1, <1>2 DEF TypeOK, CallInv, LoopInv
<1>4. UNCHANGED <<status, waiting_threads, priority, current_priority, doing, updating>>
  BY Zenon DEF StopRelease, StopDone, threadVars, prioVars, listVars, loopVars
<1>5. \A m \in Mutex : holding_thread'[m] # None => holding_thread[m] # None
  <2>1. CASE StopRelease
    <3>1. PICK m \in held_mutexes[stopping] :
            holding_thread' = [holding_thread EXCEPT ![m] = None]
      BY Zenon, <2>1 DEF StopRelease
    <3> QED
      BY Zenon, <1>2, <3>1 DEF TypeOK
  <2>2. CASE StopDone
    BY Zenon, <2>2 DEF StopDone
  <2> QED
    BY Zenon, <2>1, <2>2
<1>6. \A u \in Thread : u # stopping => held_mutexes'[u] = held_mutexes[u]
  <2>1. CASE StopRelease
    BY Zenon, <2>1 DEF StopRelease
  <2>2. CASE StopDone
    BY Zenon, <1>2, <2>2 DEF StopDone, TypeOK
  <2> QED
    BY Zenon, <2>1, <2>2
<1> QED
  BY Zenon, <1>1, <1>2, <1>3, <1>4, <1>5, <1>6, BoostFreed

\* The calls that change neither mutexes nor their lists.
LEMMA BoostCalls ==
    ASSUME IInv, BInv, NEW t \in Thread, NEW objects,
           NEW wait_all \in BOOLEAN, NEW timed \in BOOLEAN,
           \/ SwitchContext(t) \/ ThreadWakeupCallback(t) \/ Stop(t)
           \/ WaitAcquire(t, objects, wait_all) \/ WaitBlock(t, objects, wait_all, timed)
    PROVE  TakesWaited' /\ BoostInv'
<1> USE DEF SwitchContext, ThreadWakeupCallback, Stop, WaitAcquire, WaitBlock
<1>1. Idle
  BY Zenon
<1>2. /\ TypeOK /\ CallInv /\ BoostInv /\ fault = "none"
      /\ doing = "nothing" /\ waking = None
  BY Zenon, <1>1, IdleFacts DEF BInv
<1>3. UNCHANGED <<holding_thread, held_mutexes, priority, current_priority, updating,
                  waiting_threads>>
  BY Zenon DEF prioVars, lockVars, listVars, stepVars, loopVars
<1>4. \A m \in Mutex : ~Leaving(m)
  BY Zenon, <1>2 DEF Leaving
<1>5. TakesWaited'
  BY Zenon, <1>2 DEF TakesWaited, Begin, stepVars, loopVars
<1>6. \A m \in Mutex, u \in Thread :
         status'[u] = "WaitSynchAny" /\ Has(waiting_threads[m], u) => status[u] = "WaitSynchAny"
  <2>1. CASE WaitBlock(t, objects, wait_all, timed)
    <3>1. /\ \A u \in Thread : u # t => status'[u] = status[u]
          /\ status[t] = "Running" /\ stopping = None
      BY Zenon, <1>1, <1>2, <2>1, IdleFacts DEF TypeOK
    <3>2. \A m \in Mutex : ~Has(waiting_threads[m], t)
      <4>1. wait_objects[t] = <<>>
        BY Zenon, <1>2, <3>1, Kinds DEF CallInv, StatusInv, Waits
      <4>2. \A x : ~Has(<<>>, x)
        BY DEF Has
      <4>3. \A o \in Object : Has(waiting_threads[o], t) => Has(wait_objects[t], o)
        BY Zenon, <1>2 DEF CallInv, ListsInv
      <4> QED
        BY Zenon, <4>1, <4>2, <4>3, Kinds
    <3> QED
      BY Zenon, <3>1, <3>2
  <2>2. CASE SwitchContext(t)
    BY Zenon, <1>2, <2>2 DEF TypeOK
  <2>3. CASE Stop(t)
    BY Zenon, <1>2, <2>3 DEF TypeOK
  <2>4. CASE ThreadWakeupCallback(t) \/ WaitAcquire(t, objects, wait_all)
    BY Zenon, <2>4 DEF threadVars
  <2> QED
    BY Zenon, <2>1, <2>2, <2>3, <2>4
<1> QED
  BY Zenon, <1>2, <1>3, <1>4, <1>5, <1>6, BoostFrame

\* Signals, which concern no mutex.
LEMMA BoostSignals ==
    ASSUME IInv, BInv,
           \/ \E s \in Semaphore, n \in ReleaseCount : ReleaseSemaphore(s, n)
           \/ \E e \in Event : SignalEvent(e) \/ ClearEvent(e)
    PROVE  TakesWaited' /\ BoostInv'
<1> USE DEF ReleaseSemaphore, SignalEvent, ClearEvent
<1>1. Idle
  BY Zenon
<1>2. BoostInv /\ doing = "nothing"
  BY Zenon, <1>1, IdleFacts DEF BInv
<1>3. UNCHANGED <<holding_thread, held_mutexes, priority, current_priority, updating,
                  waiting_threads, status, doing>>
  BY Zenon DEF threadVars, prioVars, lockVars, listVars, stepVars, loopVars
<1>4. \A m \in Mutex : ~Leaving(m)
  BY Zenon, <1>2 DEF Leaving
<1>5. TakesWaited'
  BY Zenon, <1>2, <1>3 DEF TakesWaited
<1> QED
  BY Zenon, <1>2, <1>3, <1>4, <1>5, BoostFrame

\* ReleaseMutex.
LEMMA BoostReleaseMutex ==
    ASSUME IInv, BInv, NEW t \in Thread, NEW m \in Mutex, ReleaseMutex(t, m)
    PROVE  TakesWaited' /\ BoostInv'
<1>1. Idle /\ status[t] = "Running"
  BY Zenon DEF ReleaseMutex
<1>2. TypeOK /\ BoostInv /\ doing = "nothing"
  BY Zenon, <1>1, IdleFacts DEF BInv
<1>3. UNCHANGED <<status, waiting_threads, priority, doing, updating>>
  BY Zenon DEF ReleaseMutex, threadVars, listVars, loopVars
<1>4. /\ \A x \in Mutex : holding_thread'[x] # None => holding_thread[x] # None
      /\ \A u \in Thread : u # t => /\ held_mutexes'[u] = held_mutexes[u]
                                    /\ current_priority'[u] = current_priority[u]
  BY Zenon, <1>2 DEF ReleaseMutex, TypeOK
<1>5. status[t] # "WaitSynchAny"
  BY Zenon, <1>1
<1> QED
  BY Zenon, <1>2, <1>3, <1>4, <1>5, BoostFreed

\* SetThreadPriority has still to visit every mutex its thread waits for.
LEMMA BoostSetPriority ==
    ASSUME IInv, BInv, NEW t \in Thread, NEW p \in Priority, SetThreadPriority(t, p)
    PROVE  TakesWaited' /\ BoostInv'
<1>1. Idle
  BY Zenon DEF SetThreadPriority
<1>2. TypeOK /\ CallInv /\ BoostInv /\ doing = "nothing" /\ updating = {}
  BY Zenon, <1>1, IdleFacts DEF BInv
<1>3. /\ UNCHANGED <<status, priority, waiting_threads, holding_thread, held_mutexes, doing>>
      /\ updating' = pending_mutexes[t]
  BY Zenon DEF SetThreadPriority, threadVars, lockVars, listVars, loopVars
<1>4. \A u \in Thread : u # t => current_priority'[u] = current_priority[u]
  BY Zenon, <1>2 DEF SetThreadPriority, TypeOK
<1>5. TakesWaited'
  BY Zenon, <1>2, <1>3 DEF TakesWaited
<1>6. ASSUME NEW m \in Mutex, NEW u \in Thread, SimpleWaiter(m, u)'
      PROVE  Covered(m, u)'
  <2>1. SimpleWaiter(m, u)
    BY Zenon, <1>3, <1>6 DEF SimpleWaiter
  <2>2. CASE u = t
    <3>1. m \in pending_mutexes[t]
      BY Zenon, <1>2, <2>1, <2>2 DEF SimpleWaiter, CallInv, ListsInv
    <3> QED
      BY Zenon, <1>3, <3>1 DEF Covered
  <2>3. CASE u # t
    <3>1. Covered(m, u) /\ ~Leaving(m)
      BY Zenon, <1>2, <2>1 DEF BoostInv, Leaving
    <3> QED
      BY Zenon, <1>2, <1>3, <1>4, <2>3, <3>1 DEF Covered
  <2> QED
    BY Zenon, <2>2, <2>3
<1> QED
  BY Zenon, <1>5, <1>6 DEF BoostInv

\* A holder runs at least at the priority of a thread that waits for this mutex
\* alone and holds none itself (Mutex::UpdatePriority, Thread::UpdatePriority).
THEOREM WaitersBoost == Spec => []WaiterBoosts
<1>1. Init => BInv
  <2>1. ASSUME Init PROVE TakesWaited /\ BoostInv
    BY Zenon, <2>1 DEF Init, TakesWaited, BoostInv, SimpleWaiter
  <2> QED
    BY Zenon, <2>1 DEF BInv
<1>2. IInv /\ BInv /\ [Next]_vars => BInv'
  <2> SUFFICES ASSUME IInv, BInv, [Next]_vars, fault' = "none"
               PROVE  TakesWaited' /\ BoostInv'
    BY Zenon DEF BInv
  <2>1. CASE LoopRound
    <3>1. fault = "none" /\ rest # <<>> /\ rest' = Tail(rest)
          /\ UNCHANGED <<doing, subject, waking, updating, stopping>>
      BY Zenon, <2>1 DEF LoopRound
    <3>2. CASE doing = "acquire" /\ Acquire(Head(rest), subject)
      BY Zenon, <3>1, <3>2, BoostAcquire
    <3>3. CASE \/ doing = "add" /\ AddWaitingThread(Head(rest), subject)
               \/ doing = "remove" /\ RemoveWaitingThread(Head(rest), subject)
      BY Zenon, <3>1, <3>3, BoostLists
    <3> QED
      BY Zenon, <2>1, <3>2, <3>3 DEF LoopRound
  <2>2. CASE CallStep
    BY Zenon, <2>1, <2>2, BoostSteps, BoostUpdateMutex, BoostStop DEF CallStep
  <2>3. CASE Call
    BY Zenon, <2>3, BoostCalls, BoostSignals, BoostReleaseMutex, BoostSetPriority DEF Call
  <2>4. CASE UNCHANGED vars
    <3> USE DEF vars, threadVars, prioVars, lockVars, listVars, stepVars, loopVars
    <3>1. TakesWaited /\ BoostInv
      BY Zenon, <2>4 DEF BInv
    <3>2. TakesWaited' /\ \A m \in Mutex : Leaving(m) => Leaving(m)'
      BY Zenon, <2>4, <3>1 DEF TakesWaited, Leaving
    <3> QED
      BY Zenon, <2>4, <3>1, <3>2, BoostFrame
  <2> QED
    BY Zenon, <2>2, <2>3, <2>4 DEF Next
<1>3. IInv /\ BInv => WaiterBoosts
  <2> SUFFICES ASSUME IInv, BInv, Idle, NEW m \in Mutex, NEW t \in Thread,
                      Has(waiting_threads[m], t), status[t] = "WaitSynchAny",
                      held_mutexes[t] = {}, holding_thread[m] # None
               PROVE  current_priority[holding_thread[m]] <= current_priority[t]
    BY Zenon DEF WaiterBoosts
  <2> DEFINE h == holding_thread[m]
             ps == {nominal_priority[h]} \cup {priority[x] : x \in held_mutexes[h]}
  <2>1. /\ TypeOK /\ PriorityInherited /\ CallInv /\ BoostInv
        /\ doing = "nothing" /\ updating = {} /\ stopping = None
    BY Zenon, IdleFacts DEF BInv
  <2>2. priority[m] <= current_priority[t]
    BY Zenon, <2>1 DEF BoostInv, SimpleWaiter, Covered, Leaving
  <2>3. h \in Thread /\ m \in held_mutexes[h] /\ status[h] # "Dead"
    BY Zenon, <2>1, Kinds DEF TypeOK, CallInv, OwnInv
  <2>4. ps \subseteq Priority /\ ps # {} /\ priority[m] \in ps
    <3>1. nominal_priority[h] \in Priority /\ held_mutexes[h] \in SUBSET Mutex
      BY Zenon, <2>1, <2>3 DEF TypeOK
    <3>2. \A x \in Mutex : priority[x] \in Priority
      BY Zenon, <2>1 DEF TypeOK
    <3> QED
      BY Zenon, <2>3, <3>1, <3>2
  <2>5. current_priority[h] = BestPriority(ps)
    BY Zenon, <2>1, <2>3 DEF PriorityInherited, InheritedPriority
  <2>6. {current_priority[h], priority[m], current_priority[t]} \subseteq Nat
    BY <2>1, <2>3, KernelSyncAssumption DEF TypeOK, Priority
  <2> HIDE DEF ps, h
  <2>7. current_priority[h] <= priority[m]
    <3>1. BestPriority(ps) <= priority[m]
      BY Zenon, <2>4, BestPriorityLemma
    <3> QED
      BY Zenon, <2>5, <3>1
  <2> QED
    BY <2>2, <2>6, <2>7 DEF h
<1> QED
  BY InductiveInvariant, <1>1, <1>2, <1>3, PTL DEF Spec

-----------------------------------------------------------------------------
(* The assertions of the wait objects, for any lists of handles: svc.cpp    *)
(* checks neither that an object is named once nor that it is another       *)
(* thread that is joined.                                                   *)

OneShot(o) == o \in Event /\ ResetType[o] = "OneShot"

\* What is left to acquire is available unless it has been acquired before, and
\* what has been acquired is still available unless acquiring uses it up.
AvailableInv ==
    doing = "acquire" =>
        /\ \A o \in Object : Has(rest, o) /\ ~Has(done, o) => ~ShouldWait(o, subject)
        /\ \A o \in Object :
              Has(done, o) /\ o \notin Semaphore /\ ~OneShot(o) => ~ShouldWait(o, subject)

\* The object whose assertion failed.
UnavailableInv ==
    fault = "unavailable" => OneShot(back(done)) /\ Has(pop_back(done), back(done))

AInv == AvailableInv /\ UnavailableInv

\* A thread that is being stopped wakes those that join it, and is on no list
\* any more when it frees its mutexes.
StoppedInv ==
    stopping # None /\ waking # None => waking = stopping \/ wait_objects[stopping] = <<>>

SInv == OnlyWaitersListed /\ (fault = "none" => StoppedInv)

\* A round of the loop that acquires objects takes none of the others away from
\* the thread, and finds its own unavailable only if it is a one-shot event that
\* the thread has just had.
LEMMA AvailableRound ==
    ASSUME IInv, AInv, fault = "none", rest # <<>>,
           doing = "acquire", Acquire(Head(rest), subject), rest' = Tail(rest),
           done' = Append(done, Head(rest)), UNCHANGED <<doing, subject>>
    PROVE  AInv'
<1> DEFINE o == Head(rest)
           t == subject
<1>1. TypeOK /\ CallInv /\ AvailableInv
  BY Zenon DEF IInv, AInv
<1>2. /\ o \in Object
      /\ \A x : Has(rest, x) <=> x = o \/ Has(Tail(rest), x)
  BY Zenon, <1>1, TailLemma DEF TypeOK
<1>3. /\ \A x : Has(done', x) <=> Has(done, x) \/ x = o
      /\ back(done') = o /\ pop_back(done') = done
  <2>1. done \in Seq(Object) /\ done' = Append(done, o)
    BY Zenon, <1>1 DEF TypeOK
  <2>2. /\ \A x : Has(Append(done, o), x) <=> Has(done, x) \/ x = o
        /\ back(Append(done, o)) = o /\ pop_back(Append(done, o)) = done
    BY Zenon, <1>2, <2>1, PushLemma
  <2> QED
    BY Zenon, <2>1, <2>2
<1>4. t \in Thread
  BY Zenon, <1>1 DEF CallInv, LoopInv
<1>5. UNCHANGED <<status, wait_objects>>
  BY Zenon DEF Acquire, threadVars
<1>6. /\ ~Has(done, o) => ~ShouldWait(o, t)
      /\ o \notin Semaphore /\ ~OneShot(o) => ~ShouldWait(o, t)
  BY Zenon, <1>1, <1>2 DEF AvailableInv
<1>7. UnavailableInv'
  <2>1. fault' = "unavailable" => o \notin Semaphore /\ ShouldWait(o, t)
    BY Zenon DEF Acquire
  <2> QED
    BY Zenon, <1>3, <1>6, <2>1 DEF UnavailableInv
<1>8. ASSUME NEW x \in Object, ~ShouldWait(x, t), x = o => x \notin Semaphore /\ ~OneShot(x)
      PROVE  ~ShouldWait(x, t)'
  <2>1. CASE x \in Mutex /\ o \in Mutex
    <3>1. AcquireMutex(o, t)
      BY Zenon, <2>1 DEF Acquire
    <3>2. CASE x = o
      <4>1. holding_thread'[x] = t
        BY ZenonT(40), <1>1, <1>8, <2>1, <3>1, <3>2, Kinds DEF AcquireMutex, ShouldWait, TypeOK
      <4> QED
        BY Zenon, <2>1, <4>1, Kinds DEF ShouldWait, t
    <3>3. CASE x # o
      <4>1. lock_count'[x] = lock_count[x] /\ holding_thread'[x] = holding_thread[x]
        BY Zenon, <1>1, <2>1, <3>1, <3>3 DEF AcquireMutex, TypeOK
      <4> QED
        BY Zenon, <1>8, <2>1, <4>1, Kinds DEF ShouldWait
    <3> QED
      BY Zenon, <3>2, <3>3
  <2>2. CASE x \in Mutex /\ o \notin Mutex
    <3>1. UNCHANGED <<lock_count, holding_thread>>
      BY Zenon, <2>2 DEF Acquire, lockVars
    <3> QED
      BY Zenon, <1>8, <2>2, <3>1, Kinds DEF ShouldWait
  <2>3. CASE x \in Event
    <3>1. signaled'[x] = signaled[x]
      <4>1. CASE OneShot(o)
        <5>1. x # o
          BY Zenon, <1>8, <4>1
        <5>2. signaled' = [signaled EXCEPT ![o] = FALSE]
          BY Zenon, <4>1 DEF Acquire, OneShot
        <5> QED
          BY Zenon, <1>1, <2>3, <5>1, <5>2 DEF TypeOK
      <4>2. CASE ~OneShot(o)
        BY Zenon, <4>2 DEF Acquire, OneShot
      <4> QED
        BY Zenon, <4>1, <4>2
    <3> QED
      BY Zenon, <1>8, <2>3, <3>1, Kinds DEF ShouldWait
  <2>4. CASE x \in Thread
    BY Zenon, <1>5, <1>8, <2>4, Kinds DEF ShouldWait
  <2>5. CASE x \in Semaphore
    <3>1. x # o
      BY Zenon, <1>8, <2>5
    <3>2. available_count'[x] = available_count[x]
      BY Zenon, <1>1, <2>5, <3>1 DEF Acquire, TypeOK
    <3> QED
      BY Zenon, <1>8, <2>5, <3>2, Kinds DEF ShouldWait
  <2> QED
    BY Zenon, <2>1, <2>2, <2>3, <2>4, <2>5 DEF Object
<1>9. AvailableInv'
  <2>1. ASSUME NEW x \in Object, Has(rest', x), ~Has(done', x)
        PROVE  ~ShouldWait(x, t)'
    BY Zenon, <1>1, <1>2, <1>3, <1>8, <2>1 DEF AvailableInv
  <2>2. ASSUME NEW x \in Object, Has(done', x), x \notin Semaphore, ~OneShot(x)
        PROVE  ~ShouldWait(x, t)'
    BY Zenon, <1>1, <1>3, <1>6, <1>8, <2>2 DEF AvailableInv
  <2> QED
    BY Zenon, <2>1, <2>2 DEF AvailableInv, ShouldWait
<1> QED
  BY Zenon, <1>7, <1>9 DEF AInv

\* The thread that is woken finds what it waits for available.
LEMMA AvailableWakeup ==
    ASSUME IInv, AInv, WakeupOne
    PROVE  AInv'
<1>1. TypeOK /\ CallInv /\ waking \in Object /\ ReadyPlaces(waking) # {}
  BY Zenon DEF IInv, WakeupOne, Free, TypeOK
<1>2. PICK i \in ReadyPlaces(waking) : HighestPriorityReadyThread(waking) = waiting_threads[waking][i]
  BY Zenon, <1>1, HighestLemma
<1>3. i \in DOMAIN waiting_threads[waking] /\ waiting_threads[waking] \in Seq(Thread)
  BY Zenon, <1>1 DEF ReadyPlaces, TypeOK
<1>4. PICK t \in Thread : t = waiting_threads[waking][i]
  BY <1>3
<1>5. /\ Begin("acquire", t, IF status[t] = "WaitSynchAll" THEN wait_objects[t] ELSE <<waking>>)
      /\ UNCHANGED <<status, wait_objects, lock_count, holding_thread, available_count, signaled>>
      /\ fault' # "unavailable"
      /\ ~ShouldWait(waking, t)
      /\ status[t] = "WaitSynchAll" =>
           \A j \in DOMAIN wait_objects[t] : ~ShouldWait(wait_objects[t][j], t)
  BY Zenon, <1>2, <1>4 DEF WakeupOne, Free, threadVars, lockVars, flagVars, ReadyPlaces
<1>6. (\A x : Has(<<waking>>, x) => x = waking) /\ (\A x : ~Has(<<>>, x))
  BY DEF Has
<1>7. \A o \in Object : ShouldWait(o, t)' <=> ShouldWait(o, t)
  BY Zenon, <1>5 DEF ShouldWait
<1>8. \A o \in Object : Has(rest', o) => ~ShouldWait(o, t)'
  <2>1. CASE status[t] = "WaitSynchAll"
    BY Zenon, <1>5, <1>7, <2>1 DEF Begin, Has
  <2>2. CASE status[t] # "WaitSynchAll"
    BY Zenon, <1>5, <1>6, <1>7, <2>2 DEF Begin
  <2> QED
    BY Zenon, <2>1, <2>2
<1>9. subject' = t /\ \A o \in Object : ~Has(done', o)
  BY Zenon, <1>5, <1>6 DEF Begin
<1>10. AvailableInv'
  BY Zenon, <1>8, <1>9 DEF AvailableInv, ShouldWait
<1> QED
  BY Zenon, <1>5, <1>10 DEF AInv, UnavailableInv

\* WaitSynchronization acquires what it found available.
LEMMA AvailableCall ==
    ASSUME AInv, NEW t \in Thread, NEW objects \in Seq(Object),
           NEW wait_all \in BOOLEAN, WaitAcquire(t, objects, wait_all)
    PROVE  AInv'
<1>1. /\ UNCHANGED <<status, wait_objects, lock_count, holding_thread, available_count, signaled,
                     fault>>
      /\ fault = "none"
      /\ \/ Available(t, objects) = DOMAIN objects /\ Begin("acquire", t, objects)
         \/ \E i \in Available(t, objects) : Begin("acquire", t, <<objects[i]>>)
  BY Zenon DEF WaitAcquire, threadVars, lockVars, flagVars, Idle, Free
<1>2. (\A x, y : Has(<<x>>, y) => y = x) /\ (\A x : ~Has(<<>>, x))
  BY DEF Has
<1>3. /\ subject' = t /\ done' = <<>>
      /\ \A o \in Object : Has(rest', o) => ~ShouldWait(o, t)
  <2>1. CASE Available(t, objects) = DOMAIN objects /\ Begin("acquire", t, objects)
    BY Zenon, <2>1 DEF Begin, Available, Has
  <2>2. ASSUME NEW i \in Available(t, objects), Begin("acquire", t, <<objects[i]>>)
        PROVE  /\ subject' = t /\ done' = <<>>
               /\ \A o \in Object : Has(rest', o) => ~ShouldWait(o, t)
    BY Zenon, <1>2, <2>2 DEF Begin, Available
  <2> QED
    BY Zenon, <1>1, <2>1, <2>2
<1>4. AvailableInv'
  BY Zenon, <1>1, <1>2, <1>3 DEF AvailableInv, ShouldWait
<1> QED
  BY Zenon, <1>1, <1>4 DEF AInv, UnavailableInv

\* The assertions "object unavailable!" of Mutex, Event and Thread: what is found
\* available is still so when its turn to be acquired comes, for every list but
\* those that name a one-shot event twice, and it is that event that fails.
THEOREM AcquiresAreAvailable == Spec => []AcquireAvailable
<1>1. Init => AInv
  BY Zenon DEF Init, AInv, AvailableInv, UnavailableInv
<1>2. IInv /\ AInv /\ [Next]_vars => AInv'
  <2> SUFFICES ASSUME IInv, AInv, [Next]_vars PROVE AInv'
    OBVIOUS
  <2>1. \A t \in Thread : \A objects \in WaitList[t] : objects \in Seq(Object)
    BY Zenon, KernelSyncAssumption
  <2>2. fault' # "unavailable" /\ doing' # "acquire" => AInv'
    BY Zenon DEF AInv, AvailableInv, UnavailableInv
  <2>3. CASE LoopRound
    <3>1. CASE doing = "acquire"
      BY Zenon, <2>3, <3>1, AvailableRound DEF LoopRound
    <3>2. CASE doing # "acquire"
      BY Zenon, <2>2, <2>3, <3>2 DEF LoopRound, AddWaitingThread, RemoveWaitingThread, Relist
    <3> QED
      BY Zenon, <3>1, <3>2
  <2>4. CASE AcquireDone \/ AddDone \/ RemoveDone \/ WakeupDone \/ StopRemove \/ StopRelease \/ StopDone
    BY Zenon, <2>2, <2>4 DEF AcquireDone, AddDone, RemoveDone, WakeupDone, StopRemove, StopRelease,
       StopDone, Stopping, Free, Begin, NoLoop, loopVars
  <2>5. CASE UpdateMutex
    <3>1. fault = "none" /\ fault' = fault /\ doing' = doing /\ updating # {}
      BY Zenon, <2>5 DEF UpdateMutex, loopVars
    <3>2. doing' # "acquire"
      BY Zenon, <3>1 DEF IInv, CallInv, LoopInv
    <3> QED
      BY Zenon, <2>2, <3>1, <3>2
  <2>6. CASE CallStep
    BY Zenon, <2>3, <2>4, <2>5, <2>6, AvailableWakeup DEF CallStep
  <2>7. ASSUME NEW t \in Thread,
               \/ SwitchContext(t)
               \/ ThreadWakeupCallback(t)
               \/ Stop(t)
               \/ \E p \in Priority : SetThreadPriority(t, p)
               \/ \E m \in Mutex : ReleaseMutex(t, m)
               \/ \E objects \in WaitList[t], wait_all, timed \in BOOLEAN :
                    WaitBlock(t, objects, wait_all, timed)
        PROVE  AInv'
    BY Zenon, <2>2, <2>7 DEF SwitchContext, ThreadWakeupCallback, Stop, SetThreadPriority, ReleaseMutex,
       WaitBlock, Idle, Free, Begin, stepVars, loopVars
  <2>8. CASE \/ \E s \in Semaphore, n \in ReleaseCount : ReleaseSemaphore(s, n)
             \/ \E e \in Event : SignalEvent(e) \/ ClearEvent(e)
    BY Zenon, <2>2, <2>8 DEF ReleaseSemaphore, SignalEvent, ClearEvent, Idle, Free, stepVars, loopVars
  <2>9. CASE Call
    BY Zenon, <2>1, <2>7, <2>8, <2>9, AvailableCall DEF Call
  <2>10. CASE UNCHANGED vars
    BY Zenon, <2>10 DEF AInv, AvailableInv, UnavailableInv, ShouldWait, vars, threadVars, lockVars,
       flagVars, stepVars, loopVars
  <2> QED
    BY Zenon, <2>6, <2>9, <2>10 DEF Next
<1>3. IInv /\ AInv => AcquireAvailable
  <2> SUFFICES ASSUME IInv, AInv PROVE AcquireAvailable
    OBVIOUS
  <2>1. \A i \in DOMAIN rest : rest[i] \in Object /\ Has(rest, rest[i])
    BY DEF IInv, TypeOK, Has
  <2> QED
    BY Zenon, <2>1 DEF AInv, AvailableInv, UnavailableInv, OneShot, AcquireAvailable
<1> QED
  BY InductiveInvariant, <1>1, <1>2, <1>3, PTL DEF Spec

\* Steps that signal nothing new and start no wait.
LEMMA StoppedFrame ==
    ASSUME SInv, fault = "none",
           fault' = "not_waiting" => stopping' # None /\ Has(waiting_threads'[stopping'], stopping'),
           stopping' # None /\ waking' # None =>
               \/ waking' = stopping' \/ wait_objects'[stopping'] = <<>>
               \/ /\ stopping' = stopping /\ waking' = waking
                  /\ wait_objects'[stopping'] = wait_objects[stopping'] \/ wait_objects'[stopping'] = <<>>
    PROVE  SInv'
<1>1. StoppedInv
  BY Zenon DEF SInv
<1>2. StoppedInv'
  BY Zenon, <1>1 DEF StoppedInv
<1> QED
  BY Zenon, <1>2 DEF SInv, OnlyWaitersListed

\* A thread on the list of a signalled object waits, unless it is the one that is
\* being stopped and that waits for its own end.
LEMMA ListedWait ==
    ASSUME IInv, SInv, fault = "none", waking # None,
           NEW i \in DOMAIN waiting_threads[waking],
           status[waiting_threads[waking][i]] \notin Waits
    PROVE  stopping # None /\ Has(waiting_threads[stopping], stopping)
<1>1. TypeOK /\ CallInv /\ StoppedInv
  BY Zenon DEF IInv, SInv
<1>2. waking \in Object /\ waiting_threads[waking] \in Seq(Thread)
  BY Zenon, <1>1 DEF TypeOK
<1>3. PICK t \in Thread : t = waiting_threads[waking][i]
  BY <1>2
<1>4. Has(wait_objects[t], waking)
  BY Zenon, <1>1, <1>2, <1>3 DEF CallInv, ListsInv, Has
<1>5. wait_objects[t] # <<>>
  BY <1>4 DEF Has
<1>6. stopping = t
  BY Zenon, <1>1, <1>3, <1>5 DEF CallInv, StatusInv
<1> QED
  BY Zenon, <1>1, <1>3, <1>5, <1>6, Kinds DEF StoppedInv, Has

\* "The list of waiting threads must not contain threads that are not waiting to be
\* awakened" (wait_object.cpp:55) fails for no lists but those where a thread waits for
\* its own end: a thread that is stopped leaves its lists before its mutexes are signalled.
THEOREM OnlyWaitersAreListed == Spec => []OnlyWaitersListed
<1>1. Init => SInv
  BY Zenon DEF Init, SInv, StoppedInv, OnlyWaitersListed
<1>2. IInv /\ SInv /\ [Next]_vars => SInv'
  <2> SUFFICES ASSUME IInv, SInv, [Next]_vars PROVE SInv'
    OBVIOUS
  <2>1. CASE LoopRound
    <3>1. /\ fault = "none" /\ fault' # "not_waiting"
          /\ UNCHANGED <<wait_objects, waking, stopping>>
      BY Zenon, <2>1 DEF LoopRound, Acquire, AddWaitingThread, RemoveWaitingThread, Relist, threadVars
    <3> QED
      BY Zenon, <3>1, StoppedFrame
  <2>2. CASE RemoveDone
    <3>1. /\ TypeOK /\ wait_objects' = [wait_objects EXCEPT ![subject] = <<>>]
          /\ fault = "none" /\ fault' # "not_waiting" /\ UNCHANGED <<waking, stopping>>
      BY Zenon, <2>2 DEF RemoveDone, IInv
    <3>2. \A t \in Thread : wait_objects'[t] = wait_objects[t] \/ wait_objects'[t] = <<>>
      BY Zenon, <3>1 DEF TypeOK
    <3>3. stopping' # None => stopping' \in Thread
      BY Zenon, <3>1 DEF TypeOK
    <3> QED
      BY Zenon, <3>1, <3>2, <3>3, StoppedFrame
  <2>3. CASE WakeupOne \/ WakeupDone
    <3>1. /\ fault = "none" /\ waking # None /\ waking' \in {waking, None}
          /\ UNCHANGED <<wait_objects, stopping, waiting_threads>>
          /\ fault' = "not_waiting" => \E i \in DOMAIN waiting_threads[waking] :
                                          status[waiting_threads[waking][i]] \notin Waits
      BY Zenon, <2>3 DEF WakeupOne, WakeupDone, Free, threadVars, listVars
    <3>2. fault' = "not_waiting" => stopping' # None /\ Has(waiting_threads'[stopping'], stopping')
      BY Zenon, <3>1, ListedWait
    <3> QED
      BY Zenon, <3>1, <3>2, StoppedFrame
  <2>4. CASE AcquireDone \/ AddDone \/ UpdateMutex \/ StopRemove \/ StopDone
    <3>1. /\ fault = "none" /\ fault' = fault /\ UNCHANGED <<wait_objects, waking>>
          /\ stopping' \in {stopping, None}
      BY Zenon, <2>4 DEF AcquireDone, AddDone, UpdateMutex, StopRemove, StopDone, Stopping, Free,
         threadVars
    <3> QED
      BY Zenon, <3>1, StoppedFrame
  <2>5. CASE StopRelease
    <3>1. /\ fault = "none" /\ fault' = fault /\ UNCHANGED <<wait_objects, stopping>>
          /\ wait_objects[stopping] = <<>>
      BY Zenon, <2>5 DEF StopRelease, Stopping, Free, threadVars
    <3> QED
      BY Zenon, <3>1, StoppedFrame
  <2>6. CASE CallStep
    BY Zenon, <2>1, <2>2, <2>3, <2>4, <2>5, <2>6 DEF CallStep
  <2>7. ASSUME NEW t \in Thread,
               \/ SwitchContext(t)
               \/ ThreadWakeupCallback(t)
               \/ Stop(t)
               \/ \E p \in Priority : SetThreadPriority(t, p)
               \/ \E m \in Mutex : ReleaseMutex(t, m)
               \/ \E objects \in WaitList[t], wait_all \in BOOLEAN :
                    \/ WaitAcquire(t, objects, wait_all)
                    \/ \E timed \in BOOLEAN : WaitBlock(t, objects, wait_all, timed)
        PROVE  SInv'
    <3>1. /\ fault = "none" /\ fault' = fault
          /\ stopping' = None \/ stopping' = waking'
      BY Zenon, <2>7 DEF SwitchContext, ThreadWakeupCallback, Stop, SetThreadPriority, ReleaseMutex,
         WaitAcquire, WaitBlock, Idle, Free, stepVars
    <3> QED
      BY Zenon, <3>1, StoppedFrame
  <2>8. CASE \/ \E s \in Semaphore, n \in ReleaseCount : ReleaseSemaphore(s, n)
             \/ \E e \in Event : SignalEvent(e) \/ ClearEvent(e)
    <3>1. fault = "none" /\ fault' = fault /\ stopping' = None
      BY Zenon, <2>8 DEF ReleaseSemaphore, SignalEvent, ClearEvent, Idle, Free, stepVars
    <3> QED
      BY Zenon, <3>1, StoppedFrame
  <2>9. CASE Call
    BY Zenon, <2>7, <2>8, <2>9 DEF Call
  <2>10. CASE UNCHANGED vars
    BY Zenon, <2>10 DEF SInv, StoppedInv, OnlyWaitersListed, vars, threadVars, listVars, stepVars
  <2> QED
    BY Zenon, <2>6, <2>9, <2>10 DEF Next
<1>3. SInv => OnlyWaitersListed
  BY Zenon DEF SInv
<1> QED
  BY InductiveInvariant, <1>1, <1>2, <1>3, PTL DEF Spec

=============================================================================
