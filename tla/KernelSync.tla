----------------------------- MODULE KernelSync -----------------------------
(***************************************************************************)
(* The wait objects of the HLE kernel and the calls that wait for them and *)
(* signal them: WaitObject (wait_object.cpp), Mutex with its priority      *)
(* inheritance (mutex.cpp), Semaphore, Event, Thread as an object to join, *)
(* WaitSynchronization1 and N, the timeout of a wait, Thread::Stop and     *)
(* SetThreadPriority.                                                      *)
(*                                                                         *)
(* The kernel is sequential: a call runs to its end before another begins. *)
(* Its loops are unrolled into steps here: doing and rest say which loop   *)
(* over the objects of the thread subject is under way and what is left of *)
(* it, done what it has been through, waking is the object whose           *)
(* WakeupAllWaitingThreads is under way, updating the mutexes              *)
(* SetThreadPriority has still to visit, and stopping the thread whose     *)
(* Stop is under way.  No call begins before all of them are over (Idle).  *)
(*                                                                         *)
(* Which ready thread runs is the Scheduler's affair: here any may, on a   *)
(* core of its own, and one that was preempted is one that makes no call.  *)
(***************************************************************************)
EXTENDS Integers, Sequences, Lists

CONSTANTS
    Thread, Mutex, Semaphore, Event,
    ResetType,         \* of each event: "OneShot", "Sticky" or "Pulse"
    MaxCount,          \* Semaphore::max_count
    InitialCount,
    ReleaseCount,      \* the counts ReleaseSemaphore is called with, negative ones too
    MinCount,          \* bound on the slots such calls take away
    WaitList,          \* [Thread -> SUBSET Seq(Object)]: the lists a thread waits for
    ThreadPrioLowest,  \* priorities are 0 (highest) .. ThreadPrioLowest
    MaxLock,           \* bound on the recursive locks of a mutex
    None               \* nullptr

Object == Mutex \cup Semaphore \cup Event \cup Thread
Priority == 0 .. ThreadPrioLowest

ASSUME KernelSyncAssumption ==
    /\ ThreadPrioLowest \in Nat
    /\ MaxLock \in Nat
    /\ ResetType \in [Event -> {"OneShot", "Sticky", "Pulse"}]
    /\ MaxCount \in [Semaphore -> Int]
    /\ InitialCount \in [Semaphore -> Int]
    /\ \A s \in Semaphore : InitialCount[s] <= MaxCount[s]
    /\ ReleaseCount \subseteq Int
    /\ MinCount \in Int
    /\ WaitList \in [Thread -> SUBSET Seq(Object)]
    /\ None \notin Object
    /\ Mutex \cap (Semaphore \cup Event \cup Thread) = {}
    /\ Semaphore \cap (Event \cup Thread) = {}
    /\ Event \cap Thread = {}

VARIABLES
    status,
    nominal_priority,
    current_priority,
    wait_objects,      \* [Thread -> Seq(Object)]
    held_mutexes,
    pending_mutexes,
    wakeup_event,      \* threads with a ThreadWakeupEvent scheduled
    waiting_threads,   \* [Object -> Seq(Thread)]
    lock_count,
    holding_thread,
    priority,          \* Mutex::priority
    available_count,
    signaled,
    doing,             \* "acquire", "add", "remove" or "nothing"
    subject,
    rest,
    done,              \* the objects the loop has been through
    waking,
    updating,
    stopping,
    fault              \* the assertion that failed

threadVars == <<status, wait_objects, wakeup_event>>
prioVars == <<nominal_priority, current_priority, priority>>
lockVars == <<lock_count, holding_thread, held_mutexes>>
listVars == <<waiting_threads, pending_mutexes>>
flagVars == <<available_count, signaled>>
loopVars == <<doing, subject, rest, done>>
stepVars == <<loopVars, waking, updating, stopping>>
vars == <<threadVars, prioVars, lockVars, listVars, flagVars, stepVars, fault>>

Status == {"Ready", "Running", "WaitSynchAny", "WaitSynchAll", "Dead"}
Waits == {"WaitSynchAny", "WaitSynchAll"}

TypeOK ==
    /\ status \in [Thread -> Status]
    /\ nominal_priority \in [Thread -> Priority]
    /\ current_priority \in [Thread -> Priority]
    /\ wait_objects \in [Thread -> Seq(Object)]
    /\ held_mutexes \in [Thread -> SUBSET Mutex]
    /\ pending_mutexes \in [Thread -> SUBSET Mutex]
    /\ wakeup_event \in SUBSET Thread
    /\ waiting_threads \in [Object -> Seq(Thread)]
    /\ lock_count \in [Mutex -> Nat]
    /\ holding_thread \in [Mutex -> Thread \cup {None}]
    /\ priority \in [Mutex -> Priority]
    /\ available_count \in [Semaphore -> Int]
    /\ signaled \in [Event -> BOOLEAN]
    /\ doing \in {"nothing", "acquire", "add", "remove"}
    /\ subject \in Thread \cup {None}
    /\ rest \in Seq(Object)
    /\ done \in Seq(Object)
    /\ waking \in Object \cup {None}
    /\ updating \in SUBSET Mutex
    /\ stopping \in Thread \cup {None}
    /\ fault \in {"none", "unavailable", "not_waiting"}

Init ==
    /\ status = [t \in Thread |-> "Ready"]
    /\ nominal_priority \in [Thread -> Priority]
    /\ current_priority = nominal_priority
    /\ wait_objects = [t \in Thread |-> <<>>]
    /\ held_mutexes = [t \in Thread |-> {}]
    /\ pending_mutexes = [t \in Thread |-> {}]
    /\ wakeup_event = {}
    /\ waiting_threads = [o \in Object |-> <<>>]
    /\ lock_count = [m \in Mutex |-> 0]
    /\ holding_thread = [m \in Mutex |-> None]
    /\ priority = [m \in Mutex |-> ThreadPrioLowest]
    /\ available_count = InitialCount
    /\ signaled = [e \in Event |-> FALSE]
    /\ doing = "nothing"
    /\ subject = None
    /\ rest = <<>>
    /\ done = <<>>
    /\ waking = None
    /\ updating = {}
    /\ stopping = None
    /\ fault = "none"

Free == doing = "nothing" /\ fault = "none"

Idle == Free /\ waking = None /\ updating = {} /\ stopping = None

-----------------------------------------------------------------------------
(* Priorities *)

BestPriority(ps) == CHOOSE p \in ps : \A q \in ps : p <= q

\* Thread::UpdatePriority: the best of its own and of the mutexes ms it holds.
InheritedPriority(t, ms, mp) == BestPriority({nominal_priority[t]} \cup {mp[m] : m \in ms})

\* Mutant: starts one above the lowest priority.
BestWaiterOffByOne(w) ==
    BestPriority({ThreadPrioLowest + 1} \cup {current_priority[w[i]] : i \in DOMAIN w})

\* What Mutex::UpdatePriority computes when the threads in w wait for it.
BestWaiter(w) == BestPriority({ThreadPrioLowest} \cup {current_priority[w[i]] : i \in DOMAIN w})

\* Mutant: the holder is not told.
UpdateMutexOnly(m, w) ==
    /\ priority' = IF holding_thread[m] = None THEN priority
                   ELSE [priority EXCEPT ![m] = BestWaiter(w)]
    /\ UNCHANGED current_priority

\* Mutex::UpdatePriority: of the mutex and of its holder, and no further.
UpdatePriority(m, w) ==
    LET h == holding_thread[m]
    IN  IF h = None \/ BestWaiter(w) = priority[m]
        THEN UNCHANGED <<priority, current_priority>>
        ELSE /\ priority' = [priority EXCEPT ![m] = BestWaiter(w)]
             /\ current_priority' =
                  [current_priority EXCEPT ![h] = InheritedPriority(h, held_mutexes[h], priority')]

-----------------------------------------------------------------------------
(* The wait objects *)

ShouldWait(o, t) ==
    \/ o \in Mutex /\ lock_count[o] > 0 /\ holding_thread[o] # t
    \/ o \in Semaphore /\ available_count[o] <= 0
    \/ o \in Event /\ ~signaled[o]
    \/ o \in Thread /\ status[o] # "Dead"

AcquireMutex(m, t) ==
    /\ lock_count' = [lock_count EXCEPT ![m] = @ + 1]
    /\ IF lock_count[m] > 0
       THEN UNCHANGED <<priority, held_mutexes, holding_thread, current_priority>>
       ELSE /\ priority' = [priority EXCEPT ![m] = current_priority[t]]
            /\ held_mutexes' = [held_mutexes EXCEPT ![t] = @ \cup {m}]
            /\ holding_thread' = [holding_thread EXCEPT ![m] = t]
            /\ current_priority' =
                 [current_priority EXCEPT ![t] = InheritedPriority(t, held_mutexes'[t], priority')]

\* WaitObject::Acquire.  All but the semaphore assert that the object is available.
Acquire(o, t) ==
    /\ fault' = IF o \notin Semaphore /\ ShouldWait(o, t) THEN "unavailable" ELSE fault
    /\ IF o \in Mutex THEN AcquireMutex(o, t)
       ELSE UNCHANGED <<lockVars, priority, current_priority>>
    /\ available_count' = IF o \in Semaphore /\ ~ShouldWait(o, t)
                          THEN [available_count EXCEPT ![o] = @ - 1] ELSE available_count
    /\ signaled' = IF o \in Event /\ ResetType[o] = "OneShot"
                   THEN [signaled EXCEPT ![o] = FALSE] ELSE signaled
    /\ UNCHANGED <<threadVars, listVars, nominal_priority>>

\* Changes the list of o to w: for a mutex, the pending set of t and the priorities follow.
Relist(o, t, w, pending) ==
    /\ waiting_threads' = [waiting_threads EXCEPT ![o] = w]
    /\ IF o \in Mutex
       THEN /\ pending_mutexes' = [pending_mutexes EXCEPT ![t] = pending]
            /\ UpdatePriority(o, w)
       ELSE UNCHANGED <<pending_mutexes, priority, current_priority>>
    /\ UNCHANGED <<threadVars, lockVars, flagVars, nominal_priority, fault>>

AddWaitingThread(o, t) ==
    LET w == waiting_threads[o]
    IN  Relist(o, t, IF Has(w, t) THEN w ELSE Append(w, t), pending_mutexes[t] \cup {o})

\* Mutant: the mutex stays pending.
RemoveKeepsPending(o, t) ==
    Relist(o, t, Without(waiting_threads[o], t), pending_mutexes[t])

\* Mutant: the thread stays on the list.
RemoveNothing(o, t) == Relist(o, t, waiting_threads[o], pending_mutexes[t] \ {o})

RemoveWaitingThread(o, t) ==
    Relist(o, t, Without(waiting_threads[o], t), pending_mutexes[t] \ {o})

-----------------------------------------------------------------------------
(* The steps of a call *)

Begin(loop, t, objects) == doing' = loop /\ subject' = t /\ rest' = objects /\ done' = <<>>

NoLoop == doing' = "nothing" /\ subject' = None /\ rest' = <<>> /\ done' = <<>>

\* One round of a loop over objects.
LoopRound ==
    /\ fault = "none" /\ rest # <<>>
    /\ \/ doing = "acquire" /\ Acquire(Head(rest), subject)
       \/ doing = "add" /\ AddWaitingThread(Head(rest), subject)
       \/ doing = "remove" /\ RemoveWaitingThread(Head(rest), subject)
    /\ rest' = Tail(rest)
    /\ done' = Append(done, Head(rest))
    /\ UNCHANGED <<doing, subject, waking, updating, stopping>>

\* WakeupAllWaitingThreads has acquired what the thread waits for, and takes
\* it off the lists; a call that found it available is over.
AcquireDone ==
    /\ fault = "none" /\ doing = "acquire" /\ rest = <<>>
    /\ IF status[subject] \in Waits THEN Begin("remove", subject, wait_objects[subject])
                                    ELSE NoLoop
    /\ UNCHANGED <<threadVars, prioVars, lockVars, listVars, flagVars,
                   waking, updating, stopping, fault>>

AddDone ==
    /\ fault = "none" /\ doing = "add" /\ rest = <<>>
    /\ NoLoop
    /\ UNCHANGED <<threadVars, prioVars, lockVars, listVars, flagVars,
                   waking, updating, stopping, fault>>

\* Off every list: ResumeFromWait, unless the thread is being stopped.
RemoveDone ==
    /\ fault = "none" /\ doing = "remove" /\ rest = <<>>
    /\ wait_objects' = [wait_objects EXCEPT ![subject] = <<>>]
    /\ status' = [status EXCEPT ![subject] = IF @ \in Waits THEN "Ready" ELSE @]
    /\ NoLoop
    /\ UNCHANGED <<wakeup_event, prioVars, lockVars, listVars, flagVars,
                   waking, updating, stopping, fault>>

\* Mutant: wait-all is not looked at.
ReadyPlacesAny(o) ==
    {i \in DOMAIN waiting_threads[o] : ~ShouldWait(o, waiting_threads[o][i])}

\* GetHighestPriorityReadyThread: the places of the list of o whose thread may be woken.
ReadyPlaces(o) ==
    {i \in DOMAIN waiting_threads[o] :
        LET t == waiting_threads[o][i]
        IN  /\ ~ShouldWait(o, t)
            /\ status[t] = "WaitSynchAll" =>
                 \A j \in DOMAIN wait_objects[t] : ~ShouldWait(wait_objects[t][j], t)}

PriorityAt(o, i) == current_priority[waiting_threads[o][i]]

HighestPriorityReadyThread(o) ==
    waiting_threads[o][CHOOSE i \in ReadyPlaces(o) :
        \A j \in ReadyPlaces(o) :
            \/ PriorityAt(o, i) < PriorityAt(o, j)
            \/ PriorityAt(o, i) = PriorityAt(o, j) /\ i <= j]

\* Mutant: no loop.
WakeupOnlyOne ==
    /\ Free /\ waking # None
    /\ ReadyPlaces(waking) # {}
    /\ LET t == HighestPriorityReadyThread(waking)
           taken == IF status[t] = "WaitSynchAll" THEN wait_objects[t] ELSE <<waking>>
       IN  Begin("acquire", t, taken)
    /\ waking' = None
    /\ UNCHANGED <<threadVars, prioVars, lockVars, listVars, flagVars, updating, stopping, fault>>

\* WakeupAllWaitingThreads: one round of its loop, or its end (Event's own
\* version then clears a pulse).
WakeupOne ==
    /\ Free /\ waking # None
    /\ ReadyPlaces(waking) # {}
    /\ LET t == HighestPriorityReadyThread(waking)
           taken == IF status[t] = "WaitSynchAll" THEN wait_objects[t] ELSE <<waking>>
       IN  Begin("acquire", t, taken)
    /\ fault' = IF \E i \in DOMAIN waiting_threads[waking] :
                       status[waiting_threads[waking][i]] \notin Waits
                THEN "not_waiting" ELSE fault
    /\ UNCHANGED <<threadVars, prioVars, lockVars, listVars, flagVars, waking, updating, stopping>>

WakeupDone ==
    /\ Free /\ waking # None
    /\ ReadyPlaces(waking) = {}
    /\ signaled' = IF waking \in Event /\ ResetType[waking] = "Pulse"
                   THEN [signaled EXCEPT ![waking] = FALSE] ELSE signaled
    /\ waking' = None
    /\ fault' = IF \E i \in DOMAIN waiting_threads[waking] :
                       status[waiting_threads[waking][i]] \notin Waits
                THEN "not_waiting" ELSE fault
    /\ UNCHANGED <<threadVars, prioVars, lockVars, listVars, available_count,
                   loopVars, updating, stopping>>

\* SetThreadPriority visits the mutexes the thread waits for, in any order.
UpdateMutex ==
    /\ fault = "none"
    /\ \E m \in updating :
         /\ UpdatePriority(m, waiting_threads[m])
         /\ updating' = updating \ {m}
    /\ UNCHANGED <<threadVars, nominal_priority, lockVars, listVars, flagVars,
                   loopVars, waking, stopping, fault>>

\* Thread::Stop, once the threads that join it are awake: off the lists it
\* waits on, then its mutexes are freed one by one (ReleaseThreadMutexes).
Stopping == Free /\ stopping # None /\ waking = None

StopRemove ==
    /\ Stopping /\ wait_objects[stopping] # <<>>
    /\ Begin("remove", stopping, wait_objects[stopping])
    /\ UNCHANGED <<threadVars, prioVars, lockVars, listVars, flagVars,
                   waking, updating, stopping, fault>>

\* Mutant: the mutex is freed and nobody is told.
StopReleaseSilent ==
    /\ Stopping /\ wait_objects[stopping] = <<>>
    /\ \E m \in held_mutexes[stopping] :
         /\ holding_thread[m] = stopping
         /\ lock_count' = [lock_count EXCEPT ![m] = 0]
         /\ holding_thread' = [holding_thread EXCEPT ![m] = None]
    /\ UNCHANGED <<threadVars, prioVars, held_mutexes, listVars, flagVars, stepVars, fault>>

\* Mutant: the loop over the mutexes does not advance.
StopReleaseAgain ==
    /\ Stopping /\ wait_objects[stopping] = <<>>
    /\ \E m \in held_mutexes[stopping] :
         /\ lock_count' = [lock_count EXCEPT ![m] = 0]
         /\ holding_thread' = [holding_thread EXCEPT ![m] = None]
         /\ waking' = m
    /\ UNCHANGED <<threadVars, prioVars, held_mutexes, listVars, flagVars,
                   loopVars, updating, stopping, fault>>

StopRelease ==
    /\ Stopping /\ wait_objects[stopping] = <<>>
    /\ \E m \in held_mutexes[stopping] :
         /\ holding_thread[m] = stopping
         /\ lock_count' = [lock_count EXCEPT ![m] = 0]
         /\ holding_thread' = [holding_thread EXCEPT ![m] = None]
         /\ waking' = m
    /\ UNCHANGED <<threadVars, prioVars, held_mutexes, listVars, flagVars,
                   loopVars, updating, stopping, fault>>

\* Mutant: ReleaseThreadMutexes does nothing but clear the set.
StopDoneLocked ==
    /\ Stopping /\ wait_objects[stopping] = <<>>
    /\ held_mutexes' = [held_mutexes EXCEPT ![stopping] = {}]
    /\ stopping' = None
    /\ UNCHANGED <<threadVars, prioVars, lock_count, holding_thread, listVars, flagVars,
                   loopVars, waking, updating, fault>>

StopDone ==
    /\ Stopping /\ wait_objects[stopping] = <<>>
    /\ \A m \in held_mutexes[stopping] : holding_thread[m] # stopping
    /\ held_mutexes' = [held_mutexes EXCEPT ![stopping] = {}]
    /\ stopping' = None
    /\ UNCHANGED <<threadVars, prioVars, lock_count, holding_thread, listVars, flagVars,
                   loopVars, waking, updating, fault>>

CallStep ==
    \/ LoopRound \/ AcquireDone \/ AddDone \/ RemoveDone
    \/ WakeupOne \/ WakeupDone
    \/ UpdateMutex
    \/ StopRemove \/ StopRelease \/ StopDone

-----------------------------------------------------------------------------
(* The calls *)

\* SwitchContext to t cancels its timeout.
SwitchContext(t) ==
    /\ Idle /\ status[t] = "Ready"
    /\ status' = [status EXCEPT ![t] = "Running"]
    /\ wakeup_event' = wakeup_event \ {t}
    /\ UNCHANGED <<wait_objects, prioVars, lockVars, listVars, flagVars, stepVars, fault>>

Available(t, objects) == {i \in DOMAIN objects : ~ShouldWait(objects[i], t)}

\* WaitSynchronization1 and N when what they ask for is there.
WaitAcquire(t, objects, wait_all) ==
    /\ Idle /\ status[t] = "Running"
    /\ \A m \in held_mutexes[t] : Has(objects, m) => lock_count[m] < MaxLock
    /\ \/ /\ wait_all
          /\ Available(t, objects) = DOMAIN objects
          /\ Begin("acquire", t, objects)
       \/ /\ ~wait_all
          /\ \E i \in Available(t, objects) :
               /\ \A j \in Available(t, objects) : i <= j
               /\ Begin("acquire", t, <<objects[i]>>)
    /\ UNCHANGED <<threadVars, prioVars, lockVars, listVars, flagVars,
                   waking, updating, stopping, fault>>

\* When it is not: the thread waits, for ever or with a timeout.  With a
\* timeout of zero the call returns and nothing changes.
WaitBlock(t, objects, wait_all, timed) ==
    /\ Idle /\ status[t] = "Running"
    /\ \A m \in held_mutexes[t] : Has(objects, m) => lock_count[m] < MaxLock
    /\ IF wait_all THEN Available(t, objects) # DOMAIN objects ELSE Available(t, objects) = {}
    /\ status' = [status EXCEPT ![t] = IF wait_all THEN "WaitSynchAll" ELSE "WaitSynchAny"]
    /\ wait_objects' = [wait_objects EXCEPT ![t] = objects]
    /\ wakeup_event' = IF timed THEN wakeup_event \cup {t} ELSE wakeup_event
    /\ Begin("add", t, objects)
    /\ UNCHANGED <<prioVars, lockVars, listVars, flagVars, waking, updating, stopping, fault>>

\* ThreadWakeupCallback: the timeout of t is due.
ThreadWakeupCallback(t) ==
    /\ Idle /\ t \in wakeup_event
    /\ wakeup_event' = wakeup_event \ {t}
    /\ IF status[t] \in Waits THEN Begin("remove", t, wait_objects[t]) ELSE UNCHANGED loopVars
    /\ UNCHANGED <<status, wait_objects, prioVars, lockVars, listVars, flagVars,
                   waking, updating, stopping, fault>>

\* Mutant: the boost is not taken back.
ReleaseMutexBoosted(t, m) ==
    /\ Idle /\ status[t] = "Running"
    /\ holding_thread[m] = t /\ lock_count[m] = 1
    /\ lock_count' = [lock_count EXCEPT ![m] = 0]
    /\ held_mutexes' = [held_mutexes EXCEPT ![t] = @ \ {m}]
    /\ holding_thread' = [holding_thread EXCEPT ![m] = None]
    /\ waking' = m
    /\ UNCHANGED <<threadVars, prioVars, listVars, flagVars, loopVars, updating, stopping, fault>>

\* ReleaseMutex by its holder; anyone else gets an error.
ReleaseMutex(t, m) ==
    /\ Idle /\ status[t] = "Running"
    /\ holding_thread[m] = t /\ lock_count[m] > 0
    /\ lock_count' = [lock_count EXCEPT ![m] = @ - 1]
    /\ IF lock_count[m] = 1
       THEN /\ held_mutexes' = [held_mutexes EXCEPT ![t] = @ \ {m}]
            /\ current_priority' =
                 [current_priority EXCEPT ![t] = InheritedPriority(t, held_mutexes'[t], priority)]
            /\ holding_thread' = [holding_thread EXCEPT ![m] = None]
            /\ waking' = m
       ELSE UNCHANGED <<held_mutexes, current_priority, holding_thread, waking>>
    /\ UNCHANGED <<threadVars, nominal_priority, priority, listVars, flagVars,
                   loopVars, updating, stopping, fault>>

ReleaseSemaphore(s, n) ==
    /\ Idle /\ \E t \in Thread : status[t] = "Running"
    /\ MaxCount[s] >= n + available_count[s]
    /\ MinCount <= n + available_count[s]
    /\ available_count' = [available_count EXCEPT ![s] = @ + n]
    /\ waking' = s
    /\ UNCHANGED <<threadVars, prioVars, lockVars, listVars, signaled,
                   loopVars, updating, stopping, fault>>

\* Event::Signal, by a thread or by an HLE service.
SignalEvent(e) ==
    /\ Idle
    /\ signaled' = [signaled EXCEPT ![e] = TRUE]
    /\ waking' = e
    /\ UNCHANGED <<threadVars, prioVars, lockVars, listVars, available_count,
                   loopVars, updating, stopping, fault>>

ClearEvent(e) ==
    /\ Idle /\ signaled[e]
    /\ signaled' = [signaled EXCEPT ![e] = FALSE]
    /\ UNCHANGED <<threadVars, prioVars, lockVars, listVars, available_count, stepVars, fault>>

\* SetPriority, then UpdatePriority of the thread.
SetThreadPriority(t, p) ==
    /\ Idle /\ \E r \in Thread : status[r] = "Running"
    /\ nominal_priority' = [nominal_priority EXCEPT ![t] = p]
    /\ current_priority' =
         [current_priority EXCEPT ![t] = BestPriority({p} \cup {priority[m] : m \in held_mutexes[t]})]
    /\ updating' = pending_mutexes[t]
    /\ UNCHANGED <<threadVars, priority, lockVars, listVars, flagVars,
                   loopVars, waking, stopping, fault>>

\* Thread::Stop of a thread that exits (ExitThread) or whose process is
\* terminated by a running thread.
Stop(t) ==
    /\ Idle /\ status[t] # "Dead"
    /\ \E r \in Thread : status[r] = "Running"
    /\ wakeup_event' = wakeup_event \ {t}
    /\ status' = [status EXCEPT ![t] = "Dead"]
    /\ waking' = t
    /\ stopping' = t
    /\ UNCHANGED <<wait_objects, prioVars, lockVars, listVars, flagVars, loopVars, updating, fault>>

Call ==
    \/ \E t \in Thread :
         \/ SwitchContext(t)
         \/ ThreadWakeupCallback(t)
         \/ Stop(t)
         \/ \E p \in Priority : SetThreadPriority(t, p)
         \/ \E m \in Mutex : ReleaseMutex(t, m)
         \/ \E objects \in WaitList[t], wait_all \in BOOLEAN :
              \/ WaitAcquire(t, objects, wait_all)
              \/ \E timed \in BOOLEAN : WaitBlock(t, objects, wait_all, timed)
    \/ \E s \in Semaphore, n \in ReleaseCount : ReleaseSemaphore(s, n)
    \/ \E e \in Event : SignalEvent(e) \/ ClearEvent(e)

Next == CallStep \/ Call

Spec == Init /\ [][Next]_vars

\* The host thread runs a call to its end.
FairSpec == Spec /\ WF_vars(CallStep)

-----------------------------------------------------------------------------
(* Properties *)

\* The two sides of the ownership of a mutex agree (Mutex::holding_thread and
\* lock_count, Thread::held_mutexes): while no call is under way a mutex is
\* locked exactly when one live thread holds it.  In particular the end of a
\* thread leaves no mutex locked, whoever waits for it and in whatever order
\* ReleaseThreadMutexes hands them over.
OwnershipAgrees ==
    Idle => \A m \in Mutex :
        /\ lock_count[m] > 0 <=> holding_thread[m] # None
        /\ \A t \in Thread : m \in held_mutexes[t] <=> holding_thread[m] = t
        /\ holding_thread[m] # None => status[holding_thread[m]] # "Dead"

\* The two sides of a wait agree (WaitObject::waiting_threads, Thread::wait_objects
\* and pending_mutexes) while no call is under way: a thread is on the lists of
\* exactly the objects it waits for, once, and only a waiting thread is.
WaitListsAgree ==
    Idle => \A t \in Thread :
        /\ \A o \in Object : Has(waiting_threads[o], t) <=> Has(wait_objects[t], o)
        /\ pending_mutexes[t] = {m \in Mutex : Has(wait_objects[t], m)}
        /\ wait_objects[t] # <<>> => status[t] \in Waits

\* The wait of t could end now.
Satisfied(t) ==
    /\ status[t] \in Waits
    /\ IF status[t] = "WaitSynchAll"
       THEN \A i \in DOMAIN wait_objects[t] : ~ShouldWait(wait_objects[t][i], t)
       ELSE \E i \in DOMAIN wait_objects[t] : ~ShouldWait(wait_objects[t][i], t)

\* No wakeup is lost: when a call is over, no thread waits for something it
\* could have, whichever object, timeout, exit or hand over came first.
NoLostWakeup == Idle => \A t \in Thread : ~Satisfied(t)

\* The priority of a thread is never better or worse than its own priority
\* and those of the mutexes it holds make it (Thread::UpdatePriority is called
\* wherever one of them changes).
PriorityInherited ==
    \A t \in Thread : status[t] # "Dead" =>
        current_priority[t] = InheritedPriority(t, held_mutexes[t], priority)

\* The inheritance that the code guarantees: a holder runs at least at the
\* priority of a thread that waits for this mutex, and not for all of several
\* objects, and that holds no mutex itself.
WaiterBoosts ==
    Idle => \A m \in Mutex, t \in Thread :
        /\ Has(waiting_threads[m], t)
        /\ status[t] = "WaitSynchAny"
        /\ held_mutexes[t] = {}
        /\ holding_thread[m] # None
        => current_priority[holding_thread[m]] <= current_priority[t]

\* A mutex is all that keeps t waiting.
BlockedOnlyBy(m, t) ==
    /\ Has(waiting_threads[m], t)
    /\ ShouldWait(m, t)
    /\ status[t] = "WaitSynchAll" =>
         \A i \in DOMAIN wait_objects[t] :
            wait_objects[t][i] # m => ~ShouldWait(wait_objects[t][i], t)

\* What thread.h:284-288 promises: no thread is kept waiting by a mutex whose
\* holder runs at a worse priority.
NoPriorityInversion ==
    Idle => \A m \in Mutex, t \in Thread :
        BlockedOnlyBy(m, t) => current_priority[holding_thread[m]] <= current_priority[t]

\* Acquiring one object takes no other away: what a call has found available and
\* still has to acquire stays so, unless it has acquired the same object already.
\* The assertions "object unavailable!" of Mutex, Event and Thread fail only for a
\* one-shot event that the list of handles names twice.
AcquireAvailable ==
    /\ doing = "acquire" =>
         \A i \in DOMAIN rest : ShouldWait(rest[i], subject) => Has(done, rest[i])
    /\ fault = "unavailable" =>
         /\ back(done) \in Event /\ ResetType[back(done)] = "OneShot"
         /\ Has(pop_back(done), back(done))

\* "The list of waiting threads must not contain threads that are not waiting
\* to be awakened" (wait_object.cpp:55): the assertion fails only where a thread is
\* stopped that waits for its own end. It is dead then, and has not yet left the list.
OnlyWaitersListed ==
    fault = "not_waiting" => stopping # None /\ Has(waiting_threads[stopping], stopping)

\* Every call ends, or at an assertion: the loop of WakeupAllWaitingThreads takes
\* each thread it wakes off the list, so it runs dry.
CallEnds ==
    (doing # "nothing" \/ waking # None \/ updating # {} \/ stopping # None)
       ~> Idle \/ fault # "none"

=============================================================================
