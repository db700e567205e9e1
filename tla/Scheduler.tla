----------------------------- MODULE Scheduler -----------------------------
(***************************************************************************)
(* The thread scheduler of the HLE kernel and the loop that drives it:     *)
(* ThreadManager and Thread (core/hle/kernel/thread.cpp), its ready queue  *)
(* (common/thread_queue_list.h) and System::RunLoop (core/core.cpp).       *)
(*                                                                         *)
(* The emulated cores share one host thread.  RunLoop lets the timer of    *)
(* each core fire its events, reschedules the core, and then runs the      *)
(* cores one after the other.  Why a thread waits (mutex, event, sleep,    *)
(* IPC, arbiter) does not matter here: every wait status is "Wait", a      *)
(* signal is a call of ResumeFromWait, and Core 1's CPU limiter is off     *)
(* (DoTimeLimit answers false).  Time is abstracted: an event that is      *)
(* scheduled may be due at any Advance of the timer that holds it.  A      *)
(* thread may also wait for a job that a service runs on another host      *)
(* thread (RunAsync in hle_ipc.h), which posts the wakeup when it is done. *)
(***************************************************************************)
EXTENDS Naturals, Sequences, Lists

CONSTANTS
    Thread,            \* every Thread object the run may create
    Process,
    NumCores,
    ThreadPrioLowest,  \* priorities are 0 (highest) .. ThreadPrioLowest
    Owner,             \* Thread::owner_process
    CoreOf,            \* Thread::core_id
    AsyncThread,       \* the threads that make requests a service runs with RunAsync
    NoThread,          \* nullptr
    NoProcess

Core == 0 .. (NumCores - 1)
Priority == 0 .. ThreadPrioLowest
Level == Core \X Priority

ASSUME SchedulerAssumption ==
    /\ NumCores \in Nat \ {0}
    /\ ThreadPrioLowest \in Nat
    /\ Owner \in [Thread -> Process]
    /\ CoreOf \in [Thread -> Core]
    /\ AsyncThread \subseteq Thread
    /\ NoThread \notin Thread
    /\ NoProcess \notin Process

VARIABLES
    status,            \* "New" before CreateThread
    current_priority,
    ready_queue,       \* [Level -> Seq(Thread)]: ThreadQueueList::queues of each core
    linked,            \* the levels of each core that prepare() has linked
    current_thread,
    thread_list,       \* the threads of all ThreadManager::thread_lists
    wakeup_callback_table,
    wakeup_event,      \* <<t, c>>: a ThreadWakeupEvent of t is on the timer of core c
    async,             \* where the wakeup of a RunAsync job of a thread is, see Async
    unscheduled,       \* threads whose unschedule_mode is not empty
    process_status,
    terminating,       \* the process whose TerminateProcess loop is under way
    phase,             \* the part of RunLoop: "sync", "catchup", "advance", "run"
    running_core,
    behind,            \* cores found behind the global time in this RunLoop
    reschedule_pending,\* System::curr_core_reschedule_pending
    halted,            \* the running core was told to stop executing
    fault              \* the assertion or exception that ended the emulation

threadVars == <<status, current_priority, ready_queue, linked, current_thread>>
tableVars == <<thread_list, wakeup_callback_table, wakeup_event, async, unscheduled>>
procVars == <<process_status, terminating>>
loopVars == <<phase, running_core, behind, reschedule_pending, halted>>
vars == <<threadVars, tableVars, procVars, loopVars, fault>>

Status == {"New", "Dormant", "Ready", "Running", "Wait", "Dead"}
Phase == {"sync", "catchup", "advance", "run"}
\* "job": the host thread is at work; "posted": the wakeup is in the ts_queue of the
\* thread's core; "queued": it was moved to the event queue of that timer.
Async == {"no", "job", "posted", "queued"}
Fault == {"none", "null_queue", "not_ready", "bad_wakeup", "bad_async_wakeup",
          "process_exited"}

TypeOK ==
    /\ status \in [Thread -> Status]
    /\ current_priority \in [Thread -> Priority]
    /\ ready_queue \in [Level -> Seq(Thread)]
    /\ linked \in [Core -> SUBSET Priority]
    /\ current_thread \in [Core -> Thread \cup {NoThread}]
    /\ thread_list \in SUBSET Thread
    /\ wakeup_callback_table \in SUBSET Thread
    /\ wakeup_event \in SUBSET (Thread \X Core)
    /\ async \in [Thread -> Async]
    /\ unscheduled \in SUBSET Thread
    /\ process_status \in [Process -> {"Created", "Running", "Exited"}]
    /\ terminating \in Process \cup {NoProcess}
    /\ phase \in Phase
    /\ running_core \in Core
    /\ behind \in SUBSET Core
    /\ reschedule_pending \in BOOLEAN
    /\ halted \in BOOLEAN
    /\ fault \in Fault

Init ==
    /\ status = [t \in Thread |-> "New"]
    /\ current_priority = [t \in Thread |-> ThreadPrioLowest]
    /\ ready_queue = [l \in Level |-> <<>>]
    /\ linked = [c \in Core |-> {}]
    /\ current_thread = [c \in Core |-> NoThread]
    /\ thread_list = {}
    /\ wakeup_callback_table = {}
    /\ wakeup_event = {}
    /\ async = [t \in Thread |-> "no"]
    /\ unscheduled = {}
    /\ process_status = [p \in Process |-> "Created"]
    /\ terminating = NoProcess
    /\ phase = "sync"
    /\ running_core = 0
    /\ behind = {}
    /\ reschedule_pending = FALSE
    /\ halted = FALSE
    /\ fault = "none"

-----------------------------------------------------------------------------
(* ThreadQueueList *)

LevelOf(t) == <<CoreOf[t], current_priority[t]>>

push_back(t) == [ready_queue EXCEPT ![LevelOf(t)] = Append(@, t)]

\* A thread is queued at most once, see ReadyIffQueued.
remove(t) == [ready_queue EXCEPT ![LevelOf(t)] = Without(@, t)]

prepare(c, p) == [linked EXCEPT ![c] = @ \cup {p}]

\* move(): off the old level, link the new one, to its back.
move(t, p) ==
    [l \in Level |->
        IF l = <<CoreOf[t], p>> THEN Append(Without(ready_queue[l], t), t)
        ELSE IF l = LevelOf(t) THEN Without(ready_queue[l], t)
        ELSE ready_queue[l]]

\* The operators below take the set us of the threads whose CanSchedule is
\* false.  The current thread keeps running unless it is beaten (pop_first_better)
\* or it does not run any more (pop_first).
\* Mutant: CanSchedule of the current thread is not looked at.
KeepsRunningUnscheduled(c, us) ==
    LET cur == current_thread[c]
    IN  cur # NoThread /\ status[cur] = "Running"

KeepsRunning(c, us) ==
    LET cur == current_thread[c]
    IN  cur # NoThread /\ status[cur] = "Running" /\ cur \notin us

\* The places of core c that these visit and that hold a thread to schedule.
Candidates(c, us) ==
    {x \in linked[c] \X (UNION {DOMAIN ready_queue[<<c, p>>] : p \in Priority}) :
        /\ x[2] \in DOMAIN ready_queue[<<c, x[1]>>]
        /\ ready_queue[<<c, x[1]>>][x[2]] \notin us
        /\ KeepsRunning(c, us) => x[1] < current_priority[current_thread[c]]}

Precedes(x, y) == x[1] < y[1] \/ (x[1] = y[1] /\ x[2] <= y[2])

FirstCandidate(c, us) ==
    CHOOSE x \in Candidates(c, us) : \A y \in Candidates(c, us) : Precedes(x, y)

\* The thread taken off the queue, if any.  Threads that are skipped because
\* they cannot be scheduled go back to the front in their old order.
Popped(c, us) ==
    IF Candidates(c, us) = {} THEN NoThread
    ELSE LET x == FirstCandidate(c, us) IN ready_queue[<<c, x[1]>>][x[2]]

\* pop_first_better walks past the last linked level.
WalksOffQueue(c, us) ==
    /\ KeepsRunning(c, us)
    /\ Candidates(c, us) = {}
    /\ \A p \in linked[c] : p < current_priority[current_thread[c]]

PopNextReadyThread(c, us) ==
    IF Candidates(c, us) = {} /\ KeepsRunning(c, us) THEN current_thread[c] ELSE Popped(c, us)

-----------------------------------------------------------------------------
(* ThreadManager::Reschedule and SwitchContext, for every core in cs. *)

Switches(c, us) == PopNextReadyThread(c, us) # current_thread[c]

\* SwitchContext puts a thread that was interrupted back at the front.
Preempted(c, us) ==
    /\ Switches(c, us)
    /\ current_thread[c] # NoThread
    /\ status[current_thread[c]] = "Running"

QueueAfter(l, us) ==
    LET c == l[1]
        q == Without(ready_queue[l], Popped(c, us))
    IN  IF Preempted(c, us) /\ l = LevelOf(current_thread[c])
        THEN <<current_thread[c]>> \o q ELSE q

StatusAfter(t, us) ==
    LET c == CoreOf[t]
    IN  IF Switches(c, us) /\ t = PopNextReadyThread(c, us) THEN "Running"
        ELSE IF Preempted(c, us) /\ t = current_thread[c] THEN "Ready"
        ELSE status[t]

\* Mutant: SwitchContext cancels nothing.
CancelledNone(cs, us) == {}

\* Mutant: it cancels the events of the thread it switches from.
CancelledPrevious(cs, us) ==
    {e \in wakeup_event : \E c \in cs : Switches(c, us) /\ e[1] = current_thread[c]}

\* SwitchContext cancels the wakeup events of the thread it switches to.
Cancelled(cs, us) ==
    {e \in wakeup_event :
        \E c \in cs : Switches(c, us) /\ e[1] = PopNextReadyThread(c, us)}

\* UnscheduleEvent searches the event queues for the wakeups of the threads in ts,
\* not the ts_queues.
Unscheduled(ts) ==
    [t \in Thread |-> IF t \in ts /\ async[t] = "queued" THEN "no" ELSE async[t]]

\* Timer::MoveEvents, where the Advance of the cores in cs begins.
MoveEvents(events, cs) ==
    [t \in Thread |-> IF events[t] = "posted" /\ CoreOf[t] \in cs THEN "queued" ELSE events[t]]

\* The wakeups of RunAsync after the cores in cs were rescheduled.
AsyncAfter(cs, us) ==
    Unscheduled({PopNextReadyThread(c, us) : c \in {d \in cs : Switches(d, us)}})

Reschedule(cs, us) ==
    /\ ready_queue' = [l \in Level |-> IF l[1] \in cs THEN QueueAfter(l, us) ELSE ready_queue[l]]
    /\ status' = [t \in Thread |-> IF CoreOf[t] \in cs THEN StatusAfter(t, us) ELSE status[t]]
    /\ current_thread' =
         [c \in Core |-> IF c \in cs THEN PopNextReadyThread(c, us) ELSE current_thread[c]]
    /\ wakeup_event' = wakeup_event \ Cancelled(cs, us)
    /\ fault' =
         IF \E c \in cs : WalksOffQueue(c, us) THEN "null_queue"
         ELSE IF \E c \in cs : /\ Switches(c, us)
                               /\ PopNextReadyThread(c, us) # NoThread
                               /\ status[PopNextReadyThread(c, us)] # "Ready"
              THEN "not_ready"
              ELSE fault
    /\ UNCHANGED <<current_priority, linked>>

-----------------------------------------------------------------------------
(* System::RunLoop *)

\* Mutant: off by one.
LastCoreOffByOne == running_core = NumCores

\* Mutant: the loop over the cores stops one core early.
LastCoreEarly == running_core + 2 >= NumCores

LastCore == running_core = NumCores - 1

Quiet == fault = "none" /\ terminating = NoProcess

\* Core running_core is at the global time (core.cpp:210), or it is not.
NotBehind ==
    /\ Quiet /\ phase = "sync" /\ running_core \notin behind
    /\ \/ /\ ~LastCore
          /\ running_core' = running_core + 1
          /\ UNCHANGED <<phase, async>>
       \/ /\ LastCore
          /\ phase' = "advance"
          /\ running_core' = 0
          /\ async' = MoveEvents(async, {0})
       \/ /\ LastCore
          /\ phase' = "catchup"
          /\ running_core' \in behind
          /\ UNCHANGED async
    /\ UNCHANGED <<threadVars, thread_list, wakeup_callback_table, wakeup_event, unscheduled,
                   procVars, behind, reschedule_pending, halted, fault>>

FoundBehind ==
    /\ Quiet /\ phase = "sync" /\ running_core \notin behind
    /\ behind' = behind \cup {running_core}
    /\ async' = MoveEvents(async, {running_core})
    /\ UNCHANGED <<threadVars, thread_list, wakeup_callback_table, wakeup_event, unscheduled,
                   procVars, phase, running_core, reschedule_pending, halted, fault>>

\* Advance has fired the events of a core that is behind: reschedule it.
\* After the last core the most delayed one catches up, unless the delays
\* are below min_delay.
SyncReschedule ==
    /\ Quiet /\ phase = "sync" /\ running_core \in behind
    /\ Reschedule({running_core}, unscheduled)
    /\ \/ /\ ~LastCore
          /\ running_core' = running_core + 1
          /\ UNCHANGED phase
          /\ async' = AsyncAfter({running_core}, unscheduled)
       \/ /\ LastCore
          /\ phase' = "advance"
          /\ running_core' = 0
          /\ async' = MoveEvents(AsyncAfter({running_core}, unscheduled), {0})
       \/ /\ LastCore
          /\ phase' = "catchup"
          /\ running_core' \in behind
          /\ async' = AsyncAfter({running_core}, unscheduled)
    /\ UNCHANGED <<thread_list, wakeup_callback_table, unscheduled, procVars,
                   behind, reschedule_pending, halted>>

AdvanceReschedule ==
    /\ Quiet /\ phase = "advance"
    /\ Reschedule({running_core}, unscheduled)
    /\ phase' = IF LastCore THEN "run" ELSE "advance"
    /\ running_core' = IF LastCore THEN 0 ELSE running_core + 1
    /\ async' = MoveEvents(AsyncAfter({running_core}, unscheduled),
                           IF LastCore THEN {} ELSE {running_core + 1})
    /\ UNCHANGED <<thread_list, wakeup_callback_table, unscheduled, procVars,
                   behind, reschedule_pending, halted>>

\* The slice of the running core ends (or it idled, which asks for a
\* reschedule): System::Reschedule, then the next core or the next RunLoop.
EndSlice ==
    /\ Quiet /\ phase \in {"run", "catchup"}
    /\ IF reschedule_pending \/ current_thread[running_core] = NoThread
       THEN /\ Reschedule({running_core}, unscheduled)
            /\ async' = AsyncAfter({running_core}, unscheduled)
       ELSE UNCHANGED <<threadVars, wakeup_event, async, fault>>
    /\ reschedule_pending' = FALSE
    /\ halted' = FALSE
    /\ IF phase = "catchup" \/ LastCore
       THEN phase' = "sync" /\ running_core' = 0 /\ behind' = {}
       ELSE running_core' = running_core + 1 /\ UNCHANGED <<phase, behind>>
    /\ UNCHANGED <<thread_list, wakeup_callback_table, unscheduled, procVars>>

-----------------------------------------------------------------------------
(* Operations on threads.  PrepareReschedule halts the running core only    *)
(* while it executes.                                                        *)

Executing == phase \in {"run", "catchup"} /\ current_thread[running_core] # NoThread

BetweenLoops == phase = "sync" /\ running_core = 0 /\ behind = {}

Advancing == phase = "advance" \/ (phase = "sync" /\ running_core \in behind)

Caller == current_thread[running_core]

\* Mutant: the core goes on executing.
PrepareWithoutHalt ==
    /\ reschedule_pending' = TRUE
    /\ UNCHANGED halted

PrepareReschedule ==
    /\ reschedule_pending' = TRUE
    /\ halted' = (halted \/ Executing)

\* Thread::ResumeFromWait of a thread that waits.
ResumeFromWait(t) ==
    /\ ready_queue' = push_back(t)
    /\ status' = [status EXCEPT ![t] = "Ready"]
    /\ PrepareReschedule
    /\ UNCHANGED <<current_priority, linked, current_thread>>

\* ThreadWakeupCallback for thread t: wakeup_callback_table.at() throws for a thread
\* that is not in the table, and a thread that is not waiting any more (it was
\* signalled first) is left alone.
WakeUp(t, exception) ==
    /\ IF t \notin wakeup_callback_table
       THEN /\ fault' = exception
            /\ UNCHANGED <<threadVars, reschedule_pending, halted>>
       ELSE /\ IF status[t] \in {"Wait", "Dormant"}
               THEN ResumeFromWait(t)
               ELSE UNCHANGED <<threadVars, reschedule_pending, halted>>
            /\ UNCHANGED fault
    /\ UNCHANGED <<thread_list, wakeup_callback_table, unscheduled, procVars,
                   phase, running_core, behind>>

\* The timeout of t is due on the running core's timer ...
ThreadWakeupCallback(t) ==
    /\ Quiet /\ Advancing
    /\ <<t, running_core>> \in wakeup_event
    /\ wakeup_event' = wakeup_event \ {<<t, running_core>>}
    /\ WakeUp(t, "bad_wakeup")
    /\ UNCHANGED async

\* ... or the wakeup that its RunAsync job has posted.
AsyncWakeup(t) ==
    /\ Quiet /\ Advancing
    /\ async[t] = "queued" /\ CoreOf[t] = running_core
    /\ async' = [async EXCEPT ![t] = "no"]
    /\ WakeUp(t, "bad_async_wakeup")
    /\ UNCHANGED wakeup_event

\* Another event (a timer, an interrupt) signals an object t waits for.  Nobody
\* signals the event that RunAsync makes its client wait for.
EventSignal(t) ==
    /\ Quiet /\ Advancing
    /\ status[t] = "Wait" /\ async[t] = "no"
    /\ ResumeFromWait(t)
    /\ UNCHANGED <<tableVars, procVars, phase, running_core, behind, fault>>

\* One wakeup made by the supervisor call of the running thread (a signal, a
\* release, a reply, the end of a thread others wait for).  A call may wake
\* several threads, so the core may be halted already, and it may be in the
\* middle of TerminateProcess; it never wakes the caller itself.
SvcSignal(t) ==
    /\ fault = "none" /\ Executing
    /\ t # Caller /\ status[t] = "Wait" /\ async[t] = "no"
    /\ ResumeFromWait(t)
    /\ UNCHANGED <<tableVars, procVars, phase, running_core, behind, fault>>

\* The caller waits, with or without a timeout.  No call looks at the status
\* of its caller, so a thread stopped from another core can get here too.
SvcWait(timed) ==
    /\ Quiet /\ Executing
    /\ ~halted \/ status[Caller] = "Running"
    /\ status' = [status EXCEPT ![Caller] = "Wait"]
    /\ wakeup_event' = IF timed THEN wakeup_event \cup {<<Caller, running_core>>}
                                ELSE wakeup_event
    /\ PrepareReschedule
    /\ UNCHANGED <<current_priority, ready_queue, linked, current_thread, thread_list,
                   wakeup_callback_table, async, unscheduled, procVars, phase, running_core,
                   behind, fault>>

\* RunAsync and RunOnThreadWorker: the caller waits without a timeout for a job on
\* another host thread ...
SvcRunAsync ==
    /\ Quiet /\ Executing
    /\ ~halted \/ status[Caller] = "Running"
    /\ Caller \in AsyncThread
    /\ status' = [status EXCEPT ![Caller] = "Wait"]
    /\ async' = [async EXCEPT ![Caller] = "job"]
    /\ PrepareReschedule
    /\ UNCHANGED <<current_priority, ready_queue, linked, current_thread, thread_list,
                   wakeup_callback_table, wakeup_event, unscheduled, procVars, phase,
                   running_core, behind, fault>>

\* ... which ends at any time, whatever has become of the thread, with
\* WakeAfterDelay(sleep_for, true).
AsyncJobEnds(t) ==
    /\ fault = "none"
    /\ async[t] = "job"
    /\ async' = [async EXCEPT ![t] = "posted"]
    /\ UNCHANGED <<threadVars, thread_list, wakeup_callback_table, wakeup_event, unscheduled,
                   procVars, loopVars, fault>>

\* Mutant: a ready thread stays where it is queued.
SetPriorityInPlace(t, p) ==
    /\ fault = "none" /\ (Executing \/ Advancing)
    /\ status[t] # "New"
    /\ linked' = prepare(CoreOf[t], p)
    /\ current_priority' = [current_priority EXCEPT ![t] = p]
    /\ IF Executing THEN PrepareReschedule ELSE UNCHANGED <<reschedule_pending, halted>>
    /\ UNCHANGED <<status, ready_queue, current_thread, tableVars, procVars, phase,
                   running_core, behind, fault>>

\* Thread::SetPriority and BoostPriority: by a call of the running thread, or
\* because a timeout takes a waiter off a mutex.
SetPriority(t, p) ==
    /\ fault = "none" /\ (Executing \/ Advancing)
    /\ status[t] # "New"
    /\ ready_queue' = IF status[t] = "Ready" THEN move(t, p) ELSE ready_queue
    /\ linked' = prepare(CoreOf[t], p)
    /\ current_priority' = [current_priority EXCEPT ![t] = p]
    /\ IF Executing THEN PrepareReschedule ELSE UNCHANGED <<reschedule_pending, halted>>
    /\ UNCHANGED <<status, current_thread, tableVars, procVars, phase, running_core,
                   behind, fault>>

-----------------------------------------------------------------------------
(* Creation and end of threads and processes *)

\* KernelSystem::CreateThread: st is "Ready", or "Dormant" when no thread-local
\* storage is left after the thread was listed, or "Wait" for the delayed main
\* thread of a process.
CreateThread(t, p, st) ==
    /\ status[t] = "New"
    /\ status' = [status EXCEPT ![t] = st]
    /\ current_priority' = [current_priority EXCEPT ![t] = p]
    /\ linked' = prepare(CoreOf[t], p)
    /\ ready_queue' = IF st = "Ready"
                      THEN [ready_queue EXCEPT ![<<CoreOf[t], p>>] = Append(@, t)]
                      ELSE ready_queue
    /\ thread_list' = thread_list \cup {t}
    /\ wakeup_callback_table' = wakeup_callback_table \cup {t}
    /\ UNCHANGED <<current_thread, unscheduled>>

\* svcCreateThread returns before PrepareReschedule when the creation fails.
SvcCreateThread(t, p, st) ==
    /\ Quiet /\ Executing /\ ~halted
    /\ Owner[t] = Owner[Caller]
    /\ CreateThread(t, p, st)
    /\ IF st = "Ready" THEN PrepareReschedule
                       ELSE UNCHANGED <<reschedule_pending, halted>>
    /\ UNCHANGED <<wakeup_event, async, procVars, phase, running_core, behind, fault>>

\* Process::Run and SetupMainThread, at boot or from a service called by the
\* running thread.
ProcessRun(pr, t, p, delayed) ==
    /\ Quiet /\ (BetweenLoops \/ Executing)
    /\ process_status[pr] = "Created" /\ Owner[t] = pr
    /\ CreateThread(t, p, IF delayed THEN "Wait" ELSE "Ready")
    /\ wakeup_event' = IF delayed THEN wakeup_event \cup {<<t, running_core>>}
                                  ELSE wakeup_event
    /\ process_status' = [process_status EXCEPT ![pr] = "Running"]
    /\ UNCHANGED <<async, terminating, loopVars, fault>>

\* Mutant: Stop leaves a ready thread in the queue.
StopThreadQueued(t) ==
    /\ wakeup_event' = {e \in wakeup_event : e[1] # t}
    /\ async' = Unscheduled({t})
    /\ wakeup_callback_table' = wakeup_callback_table \ {t}
    /\ thread_list' = thread_list \ {t}
    /\ status' = [status EXCEPT ![t] = "Dead"]
    /\ UNCHANGED <<current_priority, ready_queue, linked, current_thread, unscheduled>>

\* Mutant: Stop does not cancel the timeout of the thread.
StopThreadTimed(t) ==
    /\ wakeup_callback_table' = wakeup_callback_table \ {t}
    /\ thread_list' = thread_list \ {t}
    /\ ready_queue' = IF status[t] = "Ready" THEN remove(t) ELSE ready_queue
    /\ status' = [status EXCEPT ![t] = "Dead"]
    /\ UNCHANGED <<wakeup_event, async, current_priority, linked, current_thread, unscheduled>>

\* Thread::Stop and the erasure from the list.  The wakeups it causes are
\* SvcSignal steps.
StopThread(t) ==
    /\ wakeup_event' = {e \in wakeup_event : e[1] # t}
    /\ async' = Unscheduled({t})
    /\ wakeup_callback_table' = wakeup_callback_table \ {t}
    /\ thread_list' = thread_list \ {t}
    /\ ready_queue' = IF status[t] = "Ready" THEN remove(t) ELSE ready_queue
    /\ status' = [status EXCEPT ![t] = "Dead"]
    /\ UNCHANGED <<current_priority, linked, current_thread, unscheduled>>

SvcExitThread ==
    /\ Quiet /\ Executing /\ ~halted
    /\ StopThread(Caller)
    /\ PrepareReschedule
    /\ UNCHANGED <<procVars, phase, running_core, behind, fault>>

\* svcExitProcess and svcTerminateProcess enter the loop over the threads ...
SvcTerminateProcess(pr) ==
    /\ Quiet /\ Executing /\ ~halted
    /\ process_status[pr] # "Created"
    /\ IF process_status[pr] = "Running"
       THEN /\ process_status' = [process_status EXCEPT ![pr] = "Exited"]
            /\ terminating' = pr
            /\ UNCHANGED fault
       ELSE fault' = "process_exited" /\ UNCHANGED procVars
    /\ UNCHANGED <<threadVars, tableVars, loopVars>>

IsCurrent(t) == current_thread[CoreOf[t]] = t

\* TerminateProcessThreads goes over the cores in order; on each one it stops
\* the listed threads and, last, the current thread, listed or not.
Doomed(pr) ==
    {t \in Thread : Owner[t] = pr /\ (IF IsCurrent(t) THEN status[t] # "Dead"
                                                      ELSE t \in thread_list)}

StopsBefore(t, u) ==
    \/ CoreOf[t] < CoreOf[u]
    \/ CoreOf[t] = CoreOf[u] /\ ~IsCurrent(t) /\ IsCurrent(u)

\* Mutant: the core that runs the terminated thread is not asked to reschedule.
TerminateProcessThreadQuietly(t) ==
    /\ fault = "none" /\ terminating # NoProcess
    /\ t \in Doomed(terminating)
    /\ \A u \in Doomed(terminating) : ~StopsBefore(u, t)
    /\ StopThread(t)
    /\ UNCHANGED <<procVars, loopVars, fault>>

\* ... and nothing else happens until it has stopped them all.
TerminateProcessThread(t) ==
    /\ fault = "none" /\ terminating # NoProcess
    /\ t \in Doomed(terminating)
    /\ \A u \in Doomed(terminating) : ~StopsBefore(u, t)
    /\ StopThread(t)
    /\ IF IsCurrent(t) THEN PrepareReschedule
                       ELSE UNCHANGED <<reschedule_pending, halted>>
    /\ UNCHANGED <<procVars, phase, running_core, behind, fault>>

TerminateProcessDone ==
    /\ fault = "none" /\ terminating # NoProcess
    /\ Doomed(terminating) = {}
    /\ terminating' = NoProcess
    /\ UNCHANGED <<threadVars, tableVars, process_status, loopVars, fault>>

-----------------------------------------------------------------------------
(* Unschedule modes *)

\* Process::ChangeUnscheduleMode, by the debugger or the frontend between two
\* RunLoops: every core is rescheduled when the mode of a thread changes.
ChangeUnscheduleMode(t) ==
    /\ Quiet /\ BetweenLoops
    /\ t \in thread_list
    /\ unscheduled' = IF t \in unscheduled THEN unscheduled \ {t} ELSE unscheduled \cup {t}
    /\ Reschedule(Core, unscheduled')
    /\ async' = AsyncAfter(Core, unscheduled')
    /\ UNCHANGED <<thread_list, wakeup_callback_table, procVars, loopVars>>

\* svcControlProcess changes the modes of other threads and does not reschedule.
SvcUnschedule(t) ==
    /\ Quiet /\ Executing /\ ~halted
    /\ t \in thread_list \ {Caller}
    /\ unscheduled' = IF t \in unscheduled THEN unscheduled \ {t} ELSE unscheduled \cup {t}
    /\ UNCHANGED <<threadVars, thread_list, wakeup_callback_table, wakeup_event, async,
                   procVars, loopVars, fault>>

-----------------------------------------------------------------------------
LoopStep ==
    \/ NotBehind \/ SyncReschedule \/ AdvanceReschedule \/ EndSlice
    \/ (\E t \in Thread : TerminateProcessThread(t)) \/ TerminateProcessDone

\* The emulator has stopped.
Crashed == fault # "none" /\ UNCHANGED vars

Next ==
    \/ LoopStep
    \/ FoundBehind
    \/ \E t \in Thread :
         \/ ThreadWakeupCallback(t) \/ AsyncWakeup(t) \/ AsyncJobEnds(t)
         \/ EventSignal(t) \/ SvcSignal(t)
         \/ ChangeUnscheduleMode(t) \/ SvcUnschedule(t)
         \/ \E p \in Priority :
              \/ SetPriority(t, p)
              \/ \E st \in {"Ready", "Dormant"} : SvcCreateThread(t, p, st)
              \/ \E delayed \in BOOLEAN : ProcessRun(Owner[t], t, p, delayed)
    \/ \E timed \in BOOLEAN : SvcWait(timed)
    \/ SvcRunAsync
    \/ SvcExitThread
    \/ \E pr \in Process : SvcTerminateProcess(pr)
    \/ Crashed

Spec == Init /\ [][Next]_vars

\* Fairness.  The host thread keeps looping; each core that is behind catches
\* up within one slice, so sync cannot lead to catchup for ever; and every
\* timer passes the time of its events, which Advance then fires.
EndSync == (NotBehind \/ SyncReschedule) /\ phase' = "advance"

FairSpec ==
    /\ Spec
    /\ WF_vars(LoopStep)
    /\ SF_vars(EndSync)
    /\ \A t \in Thread : SF_vars(ThreadWakeupCallback(t)) /\ SF_vars(AsyncWakeup(t))

-----------------------------------------------------------------------------
(* Properties *)

\* The ready queue and the thread status, which every operation of thread.cpp
\* updates by hand, agree: exactly the Ready threads are queued, once, at the
\* level of their current priority on their own core.  Otherwise remove() and
\* move() miss the thread and it is lost or scheduled after its end.
ReadyIffQueued ==
    /\ \A l \in Level, t \in Thread :
          Has(ready_queue[l], t) <=> status[t] = "Ready" /\ l = LevelOf(t)
    /\ \A l \in Level : Distinct(ready_queue[l])

\* prepare() has linked the level of every thread that exists.  push_back and
\* push_front do not link: a thread pushed to a level that is not linked is
\* never found, and pop_first_better follows a null pointer when the level of
\* the current thread is not linked.
LevelsLinked ==
    \A t \in Thread : status[t] # "New" => current_priority[t] \in linked[CoreOf[t]]

\* A thread with status Running is the current thread of its core, and a
\* current thread belongs to the core it is current on: SwitchContext never
\* leaves a second Running thread behind.
RunningIsCurrent ==
    /\ \A t \in Thread : status[t] = "Running" => IsCurrent(t)
    /\ \A c \in Core : current_thread[c] # NoThread => CoreOf[current_thread[c]] = c

\* The early return of Reschedule (thread.cpp:514) would drop a current thread
\* that is Ready: it has been popped and is not switched to.  It is safe
\* because no current thread is ever woken before its core is rescheduled: a
\* current thread runs or is dead, or it has just begun to wait on the running
\* core, which is then halted with a reschedule pending.
CurrentSettled ==
    /\ halted => reschedule_pending /\ phase \in {"run", "catchup"}
    /\ \A c \in Core :
          \/ current_thread[c] = NoThread
          \/ status[current_thread[c]] \in {"Running", "Dead"}
          \/ status[current_thread[c]] = "Wait" /\ c = running_core /\ halted

\* PopNextReadyThread never follows a null queue (thread_queue_list.h:74) and
\* SwitchContext never meets a thread that is not ready (thread.cpp:168).
NoSchedulerFault == fault \notin {"null_queue", "not_ready"}

\* A thread that runs has no timeout left on any timer, and no wakeup of a RunAsync
\* job is on its way to it: the wakeup of an earlier wait cannot end a later one.
TimeoutCancelled ==
    \A t \in Thread : status[t] = "Running" =>
        async[t] = "no" /\ \A c \in Core : <<t, c>> \notin wakeup_event

\* "Cancel any outstanding wakeup events for this thread" (thread.cpp:109): no timeout
\* of a dead thread is left on a timer, so wakeup_callback_table.at() (thread.cpp:279)
\* misses the thread of a timeout only if another core has stopped it and it went on
\* executing into a wait.  The wakeup of a RunAsync job, which Stop does not see while it
\* is not queued, finds its client in the wait it was posted for, or stopped.
WakeupFindsThread ==
    /\ \A t \in Thread, c \in Core : <<t, c>> \in wakeup_event => status[t] # "Dead"
    /\ \A t \in wakeup_callback_table : async[t] # "no" => status[t] = "Wait"
    /\ fault = "bad_wakeup" =>
          \E t \in Thread \ wakeup_callback_table : status[t] \notin {"New", "Dead"}

\* The assertion of CallSVC (svc.cpp:2437): the process of a thread that makes
\* a supervisor call is running.
SvcProcessRunning ==
    Quiet /\ Executing /\ ~halted => process_status[Owner[Caller]] = "Running"

\* After RunLoop has rescheduled a core, the core is idle only if no thread of
\* it is ready and may be scheduled, and the thread it runs may be scheduled and
\* is not beaten by a ready one.
BestOfCore(c) ==
    LET cur == current_thread[c]
        rivals == {t \in Thread : CoreOf[t] = c /\ status[t] = "Ready" /\ t \notin unscheduled}
    IN  /\ cur = NoThread => rivals = {}
        /\ cur # NoThread =>
             /\ status[cur] = "Running" /\ cur \notin unscheduled
             /\ \A t \in rivals : current_priority[cur] <= current_priority[t]

PicksBest ==
    [][\A c \in Core :
         c = running_core /\ (SyncReschedule \/ AdvanceReschedule) => BestOfCore(c)']_vars

\* A ready thread that stays the one the scheduler would pick next is picked,
\* whatever its core runs and however the other cores wake it.
Best(t) == fault = "none" /\ status[t] = "Ready" /\ Popped(CoreOf[t], unscheduled) = t

BestIsPicked == \A t \in Thread : Best(t) ~> ~Best(t)

\* A wait with a timeout ends, and so does the wait for a RunAsync job that is done:
\* no cancellation meant for another wait or another thread loses the wakeup event.
TimedWait(t) ==
    /\ fault = "none" /\ status[t] = "Wait"
    /\ async[t] \in {"posted", "queued"} \/ \E c \in Core : <<t, c>> \in wakeup_event

TimedWaitEnds == \A t \in Thread : TimedWait(t) ~> (status[t] # "Wait" \/ fault # "none")

=============================================================================
