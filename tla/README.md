# TLA+ models of the azahar emulator

The emulator runs a 3DS guest on one host thread: several emulated cores take turns,
an HLE kernel schedules the guest's threads and gives them mutexes, events and IPC, and
a timing module decides when events happen. Around it are host threads that log, load
and draw. These modules model the parts of which the correctness is a matter of
*order*: the scheduler, the kernel's wait objects, IPC sessions, core timing and the
queue behind the log. Small instances are checked with TLC, and in each of these parts the
main invariants are proved with TLAPS for every value of the constants.

## The parts and how they fit together

| Code | Module | Relies on / is relied on by |
| --- | --- | --- |
| `core/hle/kernel/thread.cpp`, `thread.h`; thread side of `System::RunLoop` (`core/core.cpp`) | `Scheduler` | calls the ready queue; waits are abstract |
| `common/thread_queue_list.h` | `ThreadQueueList`, abstract `ReadyQueue` | the scheduler calls it only as `Scheduler` shows |
| `wait_object.cpp`, `mutex.cpp`, `semaphore.cpp`, `event.cpp`, the waiting calls of `svc.cpp` | `KernelSync` | says when a wait ends; who runs is the scheduler's affair |
| `client_port.cpp`, `server_port.cpp`, `client_session.cpp`, `server_session.cpp`, `hle_ipc.cpp`, the IPC calls of `svc.cpp` | `IpcSession` | the wait lists are `KernelSync`'s affair |
| `core/core_timing.cpp`; the timing side of `RunLoop` | `CoreTiming` | fires the events that are timeouts in `Scheduler` |
| `common/bounded_threadsafe_queue.h`, `common/polyfill_thread.h` | `BoundedQueue`, abstract `BoundedFifo` | |
| `common/logging/backend.cpp` | `LogBackend` (extends `BoundedQueue`) | |

`Lists` has the operators on sequences that the kernel modules share (`std::erase`,
`back`, `pop_back`, membership). `MC*` modules
give constants their values. `*_lemmas` and `*_proofs` hold the theorems.

Two interfaces are split by assume and guarantee. `ThreadQueueList` lets threads be pushed
only to linked levels and only when they are not queued; that the scheduler does so
is `ReadyIffQueued` and `LevelsLinked` of `Scheduler`, both part of its inductive invariant.
`Scheduler` in turn uses the queue as one list per priority; that the linked chain
behaves so is the refinement `RefinesReadyQueue`.

## The modules

**Scheduler.** State: status and priority of each thread, the ready queue and its linked
levels per core, the current threads, the pending timeouts, the part of `RunLoop` that is
under way and `reschedule_pending`. A supervisor call is a step of the running thread;
`TerminateProcess`, which stops threads of several cores one after the other, is one step
per thread. Every kind of wait is `Wait`. A thread of `AsyncThread` may also wait for a job
on another host thread (`RunAsync`, `RunOnThreadWorker`): `async` follows the wakeup that the job
posts, from the host thread (`job`) to the `ts_queue` of the thread's core (`posted`), where
`UnscheduleEvent` does not look for it, to that timer's event queue (`queued`). Time is abstract: an
event may be due at any `Advance` of the timer that holds it. `fault` records the assertion, null pointer
or exception that would end the emulator. The CPU limiter of core 1 is off.

**ThreadQueueList.** Pointers are addresses (null 0, the unlinked tag 1, `queues[p]` at
`Base + p`), so the address comparison of `pop_first_better` is modelled as it is. A pop
walks one queue per step. `SaveLoad` converts to indices and back.

**KernelSync.** All kernel objects a thread can wait for, with wait lists, ownership and
inherited priorities. The kernel is sequential, but its loops change what they loop over,
so each round of `WakeupAllWaitingThreads`, of the acquisition of several objects, of
`ReleaseThreadMutexes` and of the mutex updates of `SetThreadPriority` is a step; no
call begins while one is under way. A failed assertion is recorded in `fault` and ends the run. The
lists of handles are whatever `WaitList` gives a thread: they may name an object twice, and the thread itself.

**IpcSession.** Sessions live as long as something refers to them (a handle, the pending
list of a port, a waiting thread, an HLE handler, the context of a request that an HLE
service answers later); `DestroySessions` ends every operation that may drop a
reference. A call is one step. A client process can be terminated while its threads
wait for replies, and its handles stay open until the last handle to the process goes. A reply
to a thread that was stopped meanwhile is recorded in `fault`: the assertion of
`ResumeFromWait` is a `DEBUG_ASSERT`, so a release build goes on without a word.

**CoreTiming.** Timers with their heap of events and the queue other threads post to,
slices, `Advance` with one step per callback, and the loop that lets a core catch up or
runs all. Guest code, callbacks and other host threads schedule and unschedule events at
any point of it. A host thread reads the fields of the clock one by one without a lock and posts
its event some time later, so what it read is any member of `ClockReads` and need not be the
time of any moment. The jit may overshoot a slice. `SaveLoad` saves what `serialize` saves.

**BoundedQueue and LogBackend.** A step is what one thread does up to its next access to
shared state. Indices wrap at `IndexRange`. Mutexes follow from where the threads are: a
thread between the predicate and the sleep holds the mutex of the condition
variable. Condition variables may wake up spuriously. Memory accesses are sequentially
consistent: the indices are atomics, and the slot is published by the index.

Definitions keep the names of the code; `PROJECT.json` maps each to its lines.
Definitions marked "Mutant" are deliberate mistakes that are not part of any
specification: each property of a passing run is violated when its mutant is put in.

## What is checked

| Run | Instance | Shows |
| --- | --- | --- |
| `scheduler_one_core` | 3 threads, 2 processes, 1 core, 2 priorities, 1 thread with `RunAsync` requests | queue, status and wakeups agree (`ReadyIffQueued`, `TimeoutCancelled`), no null pointer or failed assertion (`NoSchedulerFault`, `SvcProcessRunning`), the best thread is picked (`PicksBest`) |
| `scheduler_live` | 2 threads on 2 cores, 1 priority, 1 thread with `RunAsync` requests | no current thread is lost by the early return of `Reschedule` (`CurrentSettled`); when a wakeup may miss its thread (`WakeupFindsThread`); under fairness the next thread is picked and a timed wait ends (`BestIsPicked`, `TimedWaitEnds`) |
| `scheduler_exited` | 2 threads on 2 cores | **finding 1** |
| `thread_queue_list` | 2 threads, 4 levels | the chain is sorted (`ChainSorted`), no wild pointer (`WalkStaysInside`), every pop ends (`WalkEnds`), refinement of `ReadyQueue` |
| `sync_mutex` | 3 threads, 2 mutexes, 2 priorities, waits for one, any or all | `OwnershipAgrees`, `WaitListsAgree`, `NoLostWakeup`, `PriorityInherited`, `WaiterBoosts` |
| `sync_objects` | 2 threads and a mutex, a semaphore, a one-shot and a pulse event, threads to join; lists that name an event or a semaphore twice, or the thread itself | `NoLostWakeup`, the only ways in which assertions of the code fail (`AcquireAvailable`, `OnlyWaitersListed`), every call ends (`CallEnds`) |
| `sync_inversion` | 3 threads, 2 mutexes | **finding 2** |
| `core_timing` | 2 cores, slices of 2, 2 events, 1 cycle of overshoot, clock reads of 0 and 3 | slices end by the next event (`SliceEndsByNextEvent`), no event is due when a slice is chosen (`NextEventAhead`, the assertion of `GetMaxSliceLength`), the cores stay together, only running takes time |
| `log_queue` | 3 producers, 2 slots, indices modulo 4, 7 entries | refinement of `BoundedFifo`, `LogFaithful`, `PushReturns`, `StopReturns` |
| `log_repeat` | the same | **finding 3** |
| `ipc_sessions` | 3 client and 2 server threads, 2 sessions, a port of each kind with limits 2 and 1 | `ConnectionsCounted`, `RequestsAgree`, `WakeupsKept` |
| `ipc_dead` | the same | **finding 4** |

### Bounds

* Three threads on one core are one that runs, one that is preempted and one that is woken
  or stopped, in two levels; two cores need one thread each for the effects of one on the
  other. Threads are not created again after their end.
* Three threads and two mutexes are the least for a chain of nested mutexes and for a hand
  over with a waiter left. Recursive locks are bounded by `MaxLock`. Semaphore counts are
  bounded from below by `MinCount` (a negative `ReleaseSemaphore` may take it below zero).
* Four levels let `link` insert at the front, in the middle and at the end of a chain.
* `MaxTicks` and `MaxEvents` bound a run of `CoreTiming`; several rounds fit in, with a
  core that catches up. Clock reads of 0 and 3 post events (at least two slices after what was read) that are
  late already, due at once, and ahead of everything: a core starts its last slice before `MaxTicks` and may end it past 4.
* Seven entries fill two slots and wrap the indices (range 4) with entries to spare; three are
  drained at most, so that the limit is met.
* Two sessions let a server thread wait for two, and one be reused after it is closed; three
  clients give a request in hand and two pending.

Symmetry is used only where no liveness is checked. Deadlock is not checked where
the system may end: all threads of `sync_mutex` may be dead, `sync_objects` ends at a failed assertion,
and the log may be stopped.

### Fairness

* `Scheduler`: the host thread keeps looping (weak fairness of `LoopStep`). A core that is
  behind catches up, so `RunLoop` does not choose to catch up for ever (strong fairness of
  `EndSync`; `CoresStayTogether` bounds the distance until a state is loaded). Time passes, so a wakeup that stays
  on a timer fires (strong fairness of `ThreadWakeupCallback` and `AsyncWakeup`). That a `RunAsync` job ends
  is not assumed.
* `ThreadQueueList`, `KernelSync`: a loop of the code does not stop in the middle.
* `LogBackend`: the host runs every thread that can run (weak fairness), and a thread that
  tries to lock a mutex that becomes free again and again gets it (strong fairness of the
  two notifications). Pushing, stopping and spurious wakeups are not fair: they need not happen.

## Findings

1. *A terminated thread goes on on another core* (`scheduler_exited`, `process.cpp:128`).
   `TerminateProcess` stops the current threads of all cores, but only the running core is asked
   to reschedule. The other core is run with the stopped thread, whose next supervisor call
   meets the assertion of `svc.cpp:2437`. With one core `SvcProcessRunning` holds.
2. *Priority inheritance is one level deep* (`sync_inversion`, `mutex.cpp:117`). A holder that
   itself waits for a mutex does not pass an inherited priority on, against `thread.h:284-288`.
   What the code does guarantee is `WaiterBoosts`.
3. *A stop writes the last entry again* (`log_repeat`, `backend.cpp:461`). `PopWait` returns without
   an entry when a stop is requested, but `entry.filename` is still that of the entry before, so the test
   that "only write the log if something was actually popped" (`backend.cpp:459`) describes passes. `LogFaithful` says what does
   hold: one repetition, by a stop, and nothing missing or out of order.
4. *A dead thread is resumed* (`ipc_dead`, `thread.cpp:340`). A process is terminated while
   another one keeps a handle to it and one of its threads waits for a reply. Its session stays open,
   the server takes the request and answers it, and `ResumeFromWait` meets the
   dead thread: "This should never happen, as threads must complete before being stopped".

Met while modelling, and stated in properties as the code has it:

* The wakeup of a `RunAsync` job misses its thread when the client was stopped before the wakeup was moved to the
  event queue: `wakeup_callback_table.at()` (`thread.cpp:279`) throws, where the next lines expect a null pointer and log it.
  The same happens to the timeout of a thread that was stopped from another core, went on (finding 1)
  and began a timed wait. `scheduler_live` reaches both; `WakeupFindsThread` says that there is no other way.
* A host thread's event may be late, although `core_timing.cpp:79-83` delays it by two
  slices to prevent this: the thread can read the clock long before it pushes the event. `NextEventAhead` says that
  a late event does not break the next slice.
* A loaded state forgets how far a core got: `is_timer_sane` is not saved (`core_timing.h:241`). The
  cores may then be run from times further apart than `min_delay`, against `core.cpp:250`, so
  `CoresStayTogether` and `RunsFromSameTimeUnlessLoaded` speak of runs without a load.
* A stop can be slept through with the polyfill of `CondvarWait` (`polyfill_thread.h:347`): it notifies without the
  mutex, so a stop between the predicate and the sleep wakes nobody and `Stop()` does not return.
  `StopReturns` is checked with the standard library's stop token; with `HasJthread = FALSE` it fails.
* After the stop of the log nobody pops, and threads that go on logging block when the queue is full.
* A reply frees a session and wakes no other server thread, although a request may be pending
  (`svc.cpp:1004-1028`). It is the one exception in `WakeupsKept`.
* Clients that wait for a reply are forgotten when either end of their session is closed
  (`server_session.cpp:42`, a TODO there). They are `orphaned` in `RequestsAgree`.
* A server can hold the request of a thread that was killed. `RequestsAgree` restricts
  this to a process that was terminated while another process keeps a handle to it; what comes of it is finding 4.
* A list for "wait for all" that names a one-shot event twice passes the check and fails the
  assertion of `Event::Acquire` (`event.cpp:39`) at the second acquisition. `AcquireAvailable` says that
  nothing else does.
* A thread that waits for its own end and is stopped finds itself, dead, in the list it wakes, and fails the
  assertion of `wait_object.cpp:55`. `OnlyWaitersListed` says that nothing else does.
* `UnscheduleEvent` does not find events that were posted to another core (`core_timing.cpp:120`).

## What is proved

Proofs are for all values of the constants that satisfy the assumptions named in the modules
(`SchedulerAssumption`, `KernelSyncAssumption`, `QueueAssumption`, `TimingAssumption`,
`LogAssumption`, `IpcAssumption`). These only give types and say that null values are no
objects; the ring buffer also needs the range of its indices to be a multiple of the capacity, as
2^64 is of the code's, and `IpcSession`, which counts sessions, needs finitely many of them.

No theorem has a hypothesis besides these.

| Module | Theorems | Inductive invariant |
| --- | --- | --- |
| `Scheduler_proofs` | `TypeCorrect`, `ReadyQueueSound`, `SchedulerNeverFaults`, `CurrentThreadSound`, `BestThreadPicked`, `TimeoutsFindTheirThread`, `NoStaleTimeout` | `IInv`, `WakeInv` |
| `ThreadQueueList_proofs` | `TypeCorrect`, `ChainIsSorted`, `NoWildWalk`, `ImplementsReadyQueue` | `Inv` |
| `KernelSync_proofs` | `TypeCorrect`, `OwnershipCorrect`, `WaitListsCorrect`, `NoWakeupIsLost`, `PrioritiesCorrect`, `WaitersBoost`, `AcquiresAreAvailable`, `OnlyWaitersAreListed` | `IInv`, `BInv`, `AInv`, `SInv` |
| `CoreTiming_proofs` | `TypeCorrect`, `SlicesEndByNextEvent`, `OnlyRunningMovesTime`, `NextEventsAhead`, `CoresStayClose`, `RoundsStartTogether` | `Inv`, `PacedUnlessLoaded` |
| `LogBackend_proofs` | `TypeCorrect`, `LogIsFaithful`, `ImplementsFifo` | `Inv` |
| `IpcSession_proofs` | `TypeCorrect`, `CountsAreRight`, `RequestsAreHeldOnce`, `WakeupsAreKept` | `IInv` |

* **Scheduler.** `ReadyIffQueued` alone is not inductive: `Reschedule` switches to what it pops,
  which is right only if the current thread is not itself queued. That is `CurrentSettled`, which
  needs `RunningIsCurrent`. That no null queue is followed needs `LevelsLinked`. `PicksBest`
  follows from the invariant and a lemma on what `Reschedule` leaves. What is said of wakeups
  rests on `WakeInv`, for any number of cores: timers and callback table know only threads that are alive
  (`TimersAlive`, `TableAlive`), and a thread with a `RunAsync` job waits or was stopped, has no
  timeout, and, if it is still current, is on the running core, which is halted (`AsyncSound`). The last part is
  what keeps such a thread from beginning another wait: the thread that executes has no wakeup
  on its way (`CallerSilent`), even one that another core has stopped.
* **ThreadQueueList.** `DataLinked` (only linked levels hold threads) and `WalkSound` (everything
  before the place of the walk is empty) make the last step of a walk the pop of `ReadyQueue`, and all others
  stutters. That `pop_first_better` never meets null follows from its stop being linked.
* **KernelSync.** The invariants hold when no call is under way; `CallInv` says for each loop what
  is left to do: which lists still name the thread, which mutexes are not yet handed over, which
  threads may be satisfied because their object is still being woken. `PriorityInherited` holds in
  the middle of calls too. `WaiterBoosts` does not: `BInv` excepts a mutex whose new priority
  is still to be computed, or from whose list the thread being woken is still to be taken. `AInv` says that what is left to acquire
  is available, or was acquired before, which an acquisition keeps for every other object; `SInv` that a thread that
  is stopped has left all lists before its mutexes are signalled.
* **CoreTiming.** What holds of the slice depends on where `RunLoop` is: `AdvanceSound`, `SyncSound` and
  `RunSound` say that a core is given its slice after its due events have fired, and
  from an empty slice. The distance of the cores needs more. The bound of `CoresStayTogether` is not
  kept when the core furthest behind catches up and overshoots, as it may then be the furthest ahead. `Spread` is kept:
  a core is ahead of `d` by a slice, `min_delay` and one overshoot for each core that is ahead of `d`.
  A round establishes it, since each core's slice is as long as the one before it ran
  (`Stepped`). `Paced` puts it together with the exactness of the clocks, the delays and the chosen core,
  which is what a load destroys. `NextEventAhead` is proved separately (`AheadStep`): `Advance` leaves nothing that is due, and until
  the slice is chosen events are only added to other timers' posted events or ahead of the time.
* **LogBackend.** Entries are numbered in the order of the queue. `ProducersSound` and `ConsumerSound`
  say who is where with which index, and `Numbered` that slot by slot the ring holds the numbers
  between what was popped and what was pushed; then the abstract queue is a run of numbers,
  and each step is an `Emplace`, a `Pop` or a stutter. `WrittenSound` and `StopSound` do the
  same for the log and the drain.

* **IpcSession.** That a port counts its sessions is inductive only with `Kept` (a session exists
  exactly as long as something refers to it), `Placed` (it is pending at its own port) and `Idle` (a thread
  that runs refers to nothing, so the next wait drops no reference unseen). `RequestInv` adds
  for the requests that the lists of different sessions are disjoint (`Apart`), that a session without one of
  its ends has none (`Silent`), and who waits for what (`Waiting`). What `DestroySessions` does is proved
  once (`DestroyStep`) and used by every operation that ends in it.

`Lists_lemmas` has what the proofs of the kernel's lists share, `KernelSync_lemmas` the first half of
`KernelSync`'s.

### Only model-checked

Liveness (`BestIsPicked`, `TimedWaitEnds`, `WalkEnds`, `CallEnds`, `PushReturns`,
`StopReturns`): fairness is out of the prover's reach. Every safety property that a passing run checks
is also proved, except `SvcProcessRunning`, which holds on one core and not on several (finding 1).

## Not modelled

The models cover a small part of the repository's lines, as most of these are not about
order: emulated hardware (CPU, GPU, DSP), file formats, services that answer one
request at a time, frontends and bundled libraries. For these a model would
repeat the code. `PROJECT.json` lists every part with its reason. Parts that would repay a model and have none:

* the address arbiter, kernel timers and the CPU limiter of core 1. To `Scheduler` they are waits
  and wakeups; their own lists are not modelled. Stopping a thread leaves it on the list
  of an arbiter (`address_arbiter.cpp:35`);
* resource limits and the handle table, which are sequential bookkeeping;
* the applet manager, GSP interrupts, local wireless and the room network: protocols with
  their own state, not modelled so far;
* `thread_worker.h` and `threadsafe_queue.h`, which use condition variables like `BoundedQueue`.

Within the modelled parts:

* `Scheduler`: the reason of a wait, the CPU limiter, registers and thread-local storage.
* `KernelSync`: creation of objects (they are the initial state), results of calls, widths of counters.
* `IpcSession`: contents and translation of messages, handles that are duplicated or sent, sessions
  without a port, the end of a server process as one step (its handles are closed one by one).
* `CoreTiming`: a negative `cycles_into_future`, `RemoveEvent` (without a caller), the queue lock at
  shutdown. The scaling of the CPU clock is part of the free choice of ticks.
* `LogBackend`: filters, `instant_debug_log`, the signal handler; `TryEmplace`, `PopWait` without a
  token and `MPMCQueue`.

## Running

    tlc -workers 2 -config SchedulerOneCore.cfg MCScheduler
    tlapm Scheduler_proofs.tla

Each run takes from seconds to a few minutes; `PROJECT.json` names module and configuration of each.
The runs that end in a finding report a violation.
