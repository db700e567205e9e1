----------------------------- MODULE CoreTiming -----------------------------
(***************************************************************************)
(* Core::Timing (core/core_timing.cpp) and the part of System::RunLoop      *)
(* (core/core.cpp) that keeps the cores in step. Every core has a timer     *)
(* with a queue of events. RunLoop first lets the core that is furthest     *)
(* behind catch up; when all are close together it advances every timer     *)
(* and runs the cores one after the other, for slices of one length.        *)
(*                                                                         *)
(* What a callback, the guest and other host threads do is left open: they *)
(* schedule and unschedule events. Ticks are integers; the host keeps them *)
(* far from the bounds of s64.                                              *)
(***************************************************************************)
EXTENDS Integers, Sequences

CONSTANTS
    NumCores,
    EventType,       \* an event type together with its user data
    MAX_SLICE_LENGTH,
    MinDelay,        \* min_delay of RunLoop
    Overshoot,       \* how far the jit may run past the end of a slice
    Delays,          \* the values of cycles_into_future
    ClockReads,      \* what GetTicks() may yield on another host thread
    MaxTicks,        \* bound: no core runs further
    MaxEvents        \* bound: events that are ever scheduled

Core == 0 .. NumCores - 1

ASSUME TimingAssumption ==
    /\ NumCores \in Nat \ {0}
    /\ MAX_SLICE_LENGTH \in Nat \ {0}
    /\ MinDelay \in Nat /\ Overshoot \in Nat
    /\ Delays \subseteq Nat /\ ClockReads \subseteq Int
    /\ MaxTicks \in Nat /\ MaxEvents \in Nat

VARIABLES
    executed_ticks, slice_length, downcount, is_timer_sane,   \* of each timer
    event_queue, event_fifo_id, ts_queue,
    current_timer,
    pc,              \* where RunLoop is
    core,            \* the core its loop is at
    global_ticks, delay, max_delay, current_core_to_execute, max_slice, start_ticks,
    catching_up,     \* in the first branch of RunLoop, or on the way to it
    loaded           \* history: a state has been loaded

clockVars == <<executed_ticks, slice_length, downcount, is_timer_sane>>
queueVars == <<event_queue, event_fifo_id, ts_queue>>
delayVars == <<global_ticks, delay, max_delay, current_core_to_execute>>
sliceVars == <<max_slice, start_ticks>>
loopVars == <<core, delayVars, sliceVars, catching_up, loaded>>
vars == <<clockVars, queueVars, current_timer, pc, loopVars>>

Event == [time : Int, fifo_order : Nat, type : EventType]
Posted == [time : Int, type : EventType]
nullptr == -1

TypeOK ==
    /\ executed_ticks \in [Core -> Nat]
    /\ slice_length \in [Core -> Nat]
    /\ downcount \in [Core -> Int]
    /\ is_timer_sane \in [Core -> BOOLEAN]
    /\ event_queue \in [Core -> SUBSET Event]
    /\ event_fifo_id \in [Core -> Nat]
    /\ ts_queue \in [Core -> Seq(Posted)]
    /\ current_timer \in Core
    /\ pc \in {"start", "sync", "choose", "advance", "events", "callback", "slice", "run"}
    /\ core \in Core /\ current_core_to_execute \in Core \cup {nullptr}
    /\ global_ticks \in Nat /\ delay \in Nat /\ max_delay \in Nat
    /\ max_slice \in Nat /\ start_ticks \in Nat
    /\ catching_up \in BOOLEAN /\ loaded \in BOOLEAN

Init ==
    /\ executed_ticks = [c \in Core |-> 0]
    /\ slice_length = [c \in Core |-> MAX_SLICE_LENGTH]
    /\ downcount = [c \in Core |-> MAX_SLICE_LENGTH]
    /\ is_timer_sane = [c \in Core |-> TRUE]
    /\ event_queue = [c \in Core |-> {}]
    /\ event_fifo_id = [c \in Core |-> 0]
    /\ ts_queue = [c \in Core |-> <<>>]
    /\ current_timer = 0
    /\ pc = "start" /\ core = 0
    /\ global_ticks = 0 /\ delay = 0 /\ max_delay = 0 /\ current_core_to_execute = nullptr
    /\ max_slice = MAX_SLICE_LENGTH /\ start_ticks = 0
    /\ catching_up = TRUE /\ loaded = FALSE

-----------------------------------------------------------------------------
(* The timers *)

GetTicks(c) == executed_ticks[c] + IF is_timer_sane[c] THEN 0 ELSE slice_length[c] - downcount[c]

GetGlobalTicks == CHOOSE n \in {GetTicks(c) : c \in Core} : \A c \in Core : GetTicks(c) <= n

LesserOf(a, b) == IF a <= b THEN a ELSE b
GreaterOf(a, b) == IF a >= b THEN a ELSE b

\* The order of the heap of events.
Before(e, f) == e.time < f.time \/ (e.time = f.time /\ e.fifo_order < f.fifo_order)

IsFront(c, e) == e \in event_queue[c] /\ \A f \in event_queue[c] : f = e \/ Before(e, f)

\* What MoveEvents() makes of the events that were posted to the timer of c.
Moved(c) ==
    {[time |-> ts_queue[c][i].time, fifo_order |-> event_fifo_id[c] + i - 1,
      type |-> ts_queue[c][i].type] : i \in DOMAIN ts_queue[c]}

\* GetMaxSliceLength(), also of a timer that has no event to wait for.
NextEventIn(c, otherwise) ==
    IF event_queue[c] = {} THEN otherwise
    ELSE (CHOOSE e \in event_queue[c] : \A f \in event_queue[c] : e.time <= f.time).time
         - executed_ticks[c]

GetMaxSliceLength(c) == NextEventIn(c, MAX_SLICE_LENGTH)

\* The slice of at most limit that ends with the next event.
UpToNextEvent(c, limit) == LesserOf(NextEventIn(c, limit), limit)

SetNextSlice(c, limit) ==
    /\ slice_length' = [slice_length EXCEPT ![c] = UpToNextEvent(c, limit)]
    /\ downcount' = [downcount EXCEPT ![c] = UpToNextEvent(c, limit)]

ForceExceptionCheck(c, cycles) ==
    LET cut == downcount[c] - GreaterOf(0, cycles)
    IN  IF cut > 0
        THEN /\ slice_length' = [slice_length EXCEPT ![c] = @ - cut]
             /\ downcount' = [downcount EXCEPT ![c] = @ - cut]
        ELSE UNCHANGED <<slice_length, downcount>>

\* Mutant: the slice is counted and not reset.
BeginAdvanceNoReset(c) ==
    /\ event_queue' = [event_queue EXCEPT ![c] = @ \cup Moved(c)]
    /\ event_fifo_id' = [event_fifo_id EXCEPT ![c] = @ + Len(ts_queue[c])]
    /\ ts_queue' = [ts_queue EXCEPT ![c] = <<>>]
    /\ executed_ticks' = [executed_ticks EXCEPT ![c] = @ + slice_length[c] - downcount[c]]
    /\ is_timer_sane' = [is_timer_sane EXCEPT ![c] = TRUE]
    /\ UNCHANGED <<slice_length, downcount>>

\* The first half of Advance(): the posted events are moved and the cycles of
\* the slice are counted.
BeginAdvance(c) ==
    /\ event_queue' = [event_queue EXCEPT ![c] = @ \cup Moved(c)]
    /\ event_fifo_id' = [event_fifo_id EXCEPT ![c] = @ + Len(ts_queue[c])]
    /\ ts_queue' = [ts_queue EXCEPT ![c] = <<>>]
    /\ executed_ticks' = [executed_ticks EXCEPT ![c] = @ + slice_length[c] - downcount[c]]
    /\ slice_length' = [slice_length EXCEPT ![c] = 0]
    /\ downcount' = [downcount EXCEPT ![c] = 0]
    /\ is_timer_sane' = [is_timer_sane EXCEPT ![c] = TRUE]

-----------------------------------------------------------------------------
(* Scheduling *)

\* Code that runs on the emulation thread: a callback, or the guest and the
\* services it calls.
Inside == pc \in {"callback", "run"}

Room ==
    LET scheduled[n \in 0 .. NumCores] ==
            IF n = 0 THEN 0 ELSE scheduled[n - 1] + event_fifo_id[n - 1] + Len(ts_queue[n - 1])
    IN  scheduled[NumCores] < MaxEvents

Post(c, time, ty) ==
    ts_queue' = [ts_queue EXCEPT ![c] = Append(@, [time |-> time, type |-> ty])]

\* Mutant: the slice that is running is not cut short.
ScheduleEventUncut(c, cycles_into_future, ty) ==
    LET timeout == GetTicks(c) + cycles_into_future
    IN  /\ Inside
        /\ IF current_timer = c
           THEN /\ event_queue' = [event_queue EXCEPT ![c] = @ \cup
                     {[time |-> timeout, fifo_order |-> event_fifo_id[c], type |-> ty]}]
                /\ event_fifo_id' = [event_fifo_id EXCEPT ![c] = @ + 1]
                /\ UNCHANGED ts_queue
           ELSE Post(c, timeout, ty) /\ UNCHANGED <<event_queue, event_fifo_id>>
        /\ UNCHANGED <<clockVars, current_timer, pc, loopVars>>

\* ScheduleEvent() without thread_safe_mode: an event of the current timer goes
\* to its queue, an event of another one is posted to it.
ScheduleEvent(c, cycles_into_future, ty) ==
    LET timeout == GetTicks(c) + cycles_into_future
    IN  /\ Inside
        /\ IF current_timer = c
           THEN /\ IF is_timer_sane[c] THEN UNCHANGED <<slice_length, downcount>>
                   ELSE ForceExceptionCheck(c, cycles_into_future)
                /\ event_queue' = [event_queue EXCEPT ![c] = @ \cup
                     {[time |-> timeout, fifo_order |-> event_fifo_id[c], type |-> ty]}]
                /\ event_fifo_id' = [event_fifo_id EXCEPT ![c] = @ + 1]
                /\ UNCHANGED ts_queue
           ELSE /\ Post(c, timeout, ty)
                /\ UNCHANGED <<event_queue, event_fifo_id, slice_length, downcount>>
        /\ UNCHANGED <<executed_ticks, is_timer_sane, current_timer, pc, loopVars>>

\* ScheduleEvent() in thread_safe_mode, by another host thread, at any moment. The
\* thread reads executed_ticks, is_timer_sane, slice_length and downcount one after
\* the other and without a lock while Advance() and the jit write them, and pushes
\* the event afterwards: the clock it goes by may be torn, and slices old.
ScheduleThreadSafe(c, read, cycles_into_future, ty) ==
    /\ Post(c, read + GreaterOf(2 * MAX_SLICE_LENGTH, cycles_into_future), ty)
    /\ UNCHANGED <<clockVars, event_queue, event_fifo_id, current_timer, pc, loopVars>>

\* UnscheduleEvent(): a posted event is not found. Reschedule() calls it too.
UnscheduleEvent(ty) ==
    /\ Inside \/ pc = "slice"
    /\ event_queue' = [c \in Core |-> {e \in event_queue[c] : e.type # ty}]
    /\ UNCHANGED <<clockVars, event_fifo_id, ts_queue, current_timer, pc, loopVars>>

-----------------------------------------------------------------------------
(* System::RunLoop *)

\* A state is saved and loaded between two rounds. serialize() moves the posted
\* events; is_timer_sane is not saved and gets its initial value.
SaveLoad ==
    /\ pc = "start"
    /\ event_queue' = [c \in Core |-> event_queue[c] \cup Moved(c)]
    /\ event_fifo_id' = [c \in Core |-> event_fifo_id[c] + Len(ts_queue[c])]
    /\ ts_queue' = [c \in Core |-> <<>>]
    /\ is_timer_sane' = [c \in Core |-> TRUE]
    /\ loaded' = TRUE
    /\ UNCHANGED <<executed_ticks, slice_length, downcount, current_timer, pc, core,
                   delayVars, sliceVars, catching_up>>

Start ==
    /\ pc = "start"
    /\ global_ticks' = GetGlobalTicks
    /\ pc' = "sync"
    /\ UNCHANGED <<clockVars, queueVars, current_timer, core, delay, max_delay,
                   current_core_to_execute, sliceVars, catching_up, loaded>>

\* The locals are not used any more and get their initial values.
SyncOver == global_ticks' = 0 /\ max_delay' = 0 /\ current_core_to_execute' = nullptr

RoundOver ==
    /\ core' = 0 /\ catching_up' = TRUE
    /\ max_slice' = MAX_SLICE_LENGTH /\ start_ticks' = 0

\* The next core of the loop, or what comes after the loop.
NextCore(again, after) ==
    IF core = NumCores - 1 THEN pc' = after /\ core' = 0
                           ELSE pc' = again /\ core' = core + 1

\* A core that is not behind is left alone.
SyncSkip ==
    /\ pc = "sync" /\ GetTicks(core) >= global_ticks
    /\ NextCore("sync", "choose")
    /\ UNCHANGED <<clockVars, queueVars, current_timer, delayVars, sliceVars, catching_up, loaded>>

\* Mutant: the difference is taken the other way round.
SyncAdvanceSwapped ==
    /\ pc = "sync" /\ GetTicks(core) < global_ticks
    /\ delay' = GetTicks(core) - global_ticks
    /\ current_timer' = core
    /\ BeginAdvance(core)
    /\ pc' = "events"
    /\ UNCHANGED <<core, global_ticks, max_delay, current_core_to_execute, sliceVars,
                   catching_up, loaded>>

\* A core that is behind is advanced.
SyncAdvance ==
    /\ pc = "sync" /\ GetTicks(core) < global_ticks
    /\ delay' = global_ticks - GetTicks(core)
    /\ current_timer' = core
    /\ BeginAdvance(core)
    /\ pc' = "events"
    /\ UNCHANGED <<core, global_ticks, max_delay, current_core_to_execute, sliceVars,
                   catching_up, loaded>>

\* Mutant: cores that are far behind are not waited for.
ChooseRun ==
    /\ pc = "choose"
    /\ pc' = "advance" /\ catching_up' = FALSE
    /\ SyncOver
    /\ UNCHANGED <<clockVars, queueVars, current_timer, core, delay, sliceVars, loaded>>

\* The core that is furthest behind runs alone, unless all are close together.
Choose ==
    /\ pc = "choose"
    /\ IF max_delay > MinDelay
       THEN /\ pc' = "run" /\ core' = current_core_to_execute
            /\ current_timer' = current_core_to_execute
            /\ UNCHANGED catching_up
       ELSE /\ pc' = "advance" /\ catching_up' = FALSE
            /\ UNCHANGED <<core, current_timer>>
    /\ SyncOver
    /\ UNCHANGED <<clockVars, queueVars, delay, sliceVars, loaded>>

AdvanceCore ==
    /\ pc = "advance"
    /\ current_timer' = core
    /\ BeginAdvance(core)
    /\ pc' = "events"
    /\ UNCHANGED <<core, delayVars, sliceVars, catching_up, loaded>>

\* Mutant: an event that is due exactly now is left in the queue.
DueBefore(e) == e.time < executed_ticks[core]

Due(e) == e.time <= executed_ticks[core]

\* The loop of Advance(): the first event is taken out and its callback runs.
FireEvent ==
    /\ pc = "events"
    /\ \E e \in event_queue[core] :
          /\ IsFront(core, e) /\ Due(e)
          /\ event_queue' = [event_queue EXCEPT ![core] = @ \ {e}]
    /\ pc' = "callback"
    /\ UNCHANGED <<clockVars, event_fifo_id, ts_queue, current_timer, loopVars>>

CallbackReturns ==
    /\ pc = "callback"
    /\ pc' = "events"
    /\ UNCHANGED <<clockVars, queueVars, current_timer, loopVars>>

EndAdvance ==
    /\ pc = "events"
    /\ \A e \in event_queue[core] : ~Due(e)
    /\ is_timer_sane' = [is_timer_sane EXCEPT ![core] = FALSE]
    /\ pc' = "slice"
    /\ UNCHANGED <<executed_ticks, slice_length, downcount, queueVars, current_timer, loopVars>>

\* After Reschedule(), in the loop over the cores that are behind.
SyncSlice ==
    /\ pc = "slice" /\ catching_up
    /\ SetNextSlice(core, delay)
    /\ IF max_delay < delay
       THEN max_delay' = delay /\ current_core_to_execute' = core
       ELSE UNCHANGED <<max_delay, current_core_to_execute>>
    /\ delay' = 0
    /\ NextCore("sync", "choose")
    /\ UNCHANGED <<executed_ticks, is_timer_sane, queueVars, current_timer, global_ticks,
                   sliceVars, catching_up, loaded>>

\* A core of the last loop of RunLoop gets its slice. It has executed nothing of
\* it: GetTicks() is executed_ticks.
StartCore(c, length) ==
    /\ SetNextSlice(c, length)
    /\ start_ticks' = executed_ticks[c]
    /\ current_timer' = c
    /\ UNCHANGED <<executed_ticks, is_timer_sane>>

\* The advance of one core. After that of the last one, core 0 starts to run.
RunSlice ==
    /\ pc = "slice" /\ ~catching_up
    /\ max_slice' = LesserOf(max_slice, GetMaxSliceLength(core))
    /\ NextCore("advance", "run")
    /\ IF pc' = "run" THEN StartCore(0, LesserOf(max_slice, GetMaxSliceLength(core)))
                      ELSE UNCHANGED <<clockVars, current_timer, start_ticks>>
    /\ UNCHANGED <<queueVars, delayVars, catching_up, loaded>>

Progress(c) == executed_ticks[c] + slice_length[c] - downcount[c]

\* AddTicks(): the guest executes.
AddTicks ==
    /\ pc = "run" /\ Progress(core) < MaxTicks
    /\ \E left \in -Overshoot .. downcount[core] - 1 :
          downcount' = [downcount EXCEPT ![core] = left]
    /\ UNCHANGED <<executed_ticks, slice_length, is_timer_sane, queueVars, current_timer, pc, loopVars>>

\* Idle(): a core without a thread.
Idle ==
    /\ pc = "run" /\ Progress(core) < MaxTicks
    /\ downcount[core] = slice_length[core]
    /\ downcount' = [downcount EXCEPT ![core] = 0]
    /\ UNCHANGED <<executed_ticks, slice_length, is_timer_sane, queueVars, current_timer, pc, loopVars>>

\* The core returns to RunLoop, at the end of its slice or because its thread
\* has to be changed. The cores that follow run as long as this one did.
RunReturns ==
    /\ pc = "run"
    /\ IF catching_up \/ core = NumCores - 1
       THEN pc' = "start" /\ RoundOver /\ UNCHANGED <<clockVars, current_timer>>
       ELSE /\ core' = core + 1
            /\ max_slice' = GetTicks(core) - start_ticks
            /\ StartCore(core + 1, GetTicks(core) - start_ticks)
            /\ UNCHANGED <<pc, catching_up>>
    /\ UNCHANGED <<queueVars, delayVars, loaded>>

Next ==
    \/ /\ Room
       /\ \E c \in Core, cycles \in Delays, ty \in EventType :
             \/ ScheduleEvent(c, cycles, ty)
             \/ \E read \in ClockReads : ScheduleThreadSafe(c, read, cycles, ty)
    \/ \E ty \in EventType : UnscheduleEvent(ty)
    \/ SaveLoad
    \/ Start \/ SyncSkip \/ SyncAdvance \/ Choose \/ AdvanceCore
    \/ FireEvent \/ CallbackReturns \/ EndAdvance
    \/ SyncSlice \/ RunSlice
    \/ AddTicks \/ Idle \/ RunReturns

Spec == Init /\ [][Next]_vars

-----------------------------------------------------------------------------
(* Properties *)

\* A slice never reaches past an event of the timer's own queue, whoever queued
\* it and when: an event that is scheduled while the core runs cuts the slice
\* short (ForceExceptionCheck), so no event is later than the jit overshoots.
SliceEndsByNextEvent ==
    \A c \in Core : ~is_timer_sane[c] =>
        \A e \in event_queue[c] : executed_ticks[c] + slice_length[c] <= e.time

\* The timers that have been advanced and will be asked for the length of their
\* next slice, by GetMaxSliceLength() or SetNextSlice().
AwaitsSlice(c) ==
    \/ pc = "slice" /\ c = core
    \/ ~catching_up /\ pc \in {"advance", "events", "callback", "slice"} /\ c < core
    \/ ~catching_up /\ pc = "run" /\ c > core

\* ASSERT(next_event->time - executed_ticks > 0) (core_timing.cpp:205) never fails, and
\* the next slice is not empty: Advance() leaves no event that is due, however late a
\* host thread or another core posted it, and until the slice is chosen none is
\* added by the callbacks and the cores that run in between.
NextEventAhead ==
    \A c \in Core : AwaitsSlice(c) =>
        \A e \in event_queue[c] : e.time - executed_ticks[c] > 0

\* The most by which a core gets ahead in a round: each of the others has run at
\* most Overshoot longer than the one before it.
Lead == MAX_SLICE_LENGTH + (NumCores - 1) * Overshoot

\* The time of two cores never differs by more than one slice, what the jit
\* overshoots, and min_delay, as long as no state has been loaded.
CoresStayTogether ==
    ~loaded => \A c, d \in Core : Progress(c) - Progress(d) <= MinDelay + Lead

\* When the cores are run one after the other they are at the same time up to
\* min_delay ("Now all cores are at the same global time").
RunsFromSameTime ==
    pc = "advance" /\ core = 0 => \A c, d \in Core : Progress(c) - Progress(d) <= MinDelay

\* The same as long as no state has been loaded.
RunsFromSameTimeUnlessLoaded == ~loaded => RunsFromSameTime

\* The time of a timer moves only forward and only while its core runs; Advance()
\* and the events it handles take no time, and a load loses none.
OnlyRunningTakesTime ==
    [][\A c \in Core : Progress(c)' # Progress(c) =>
          pc = "run" /\ c = current_timer /\ Progress(c)' > Progress(c)]_vars

=============================================================================
