-------------------------- MODULE CoreTiming_proofs --------------------------
(***************************************************************************)
(* Proofs about CoreTiming, for any number of cores and any lengths: slices *)
(* end with the next event, which is never due when a slice is chosen, only  *)
(* a running core takes time, and until a state is loaded the cores stay     *)
(* together.                                                                *)
(***************************************************************************)
EXTENDS CoreTiming, FiniteSetTheorems, WellFoundedInduction, TLAPS

\* Where RunLoop is determines which timers have been advanced in this round.
Advanced(c) == ~is_timer_sane[c]

\* ... and which have executed nothing since.
Fresh(c) == Advanced(c) /\ downcount[c] = slice_length[c]

\* The timer that is being advanced.
AdvanceSound ==
    /\ pc \in {"events", "callback", "slice", "run"} => current_timer = core
    /\ pc \in {"events", "callback"} => is_timer_sane[core]
    /\ pc \in {"slice", "run"} => Advanced(core)
    /\ pc \in {"events", "callback", "slice"} => slice_length[core] = 0 /\ downcount[core] = 0

\* The first loop, and the core it has found to be furthest behind.
SyncSound ==
    /\ pc \in {"start", "sync", "choose"} => catching_up
    /\ pc \in {"start", "choose"} => core = 0
    /\ pc = "advance" => ~catching_up
    /\ pc \in {"start", "advance", "run"} \/ ~catching_up =>
          max_delay = 0 /\ current_core_to_execute = nullptr
    /\ max_delay > 0 => current_core_to_execute # nullptr
    /\ current_core_to_execute # nullptr =>
          /\ Advanced(current_core_to_execute)
          /\ pc = "choose" \/ current_core_to_execute < core

\* The loops of the other branch: all timers are advanced before a core runs.
RunSound ==
    ~catching_up =>
        /\ pc \in {"advance", "events", "callback", "slice"} => \A c \in Core : c < core => Fresh(c)
        /\ pc = "run" =>
              /\ start_ticks = executed_ticks[core]
              /\ \A c \in Core : Advanced(c) /\ (core < c => Fresh(c))

\* The inductive invariant.
Inv ==
    /\ TypeOK
    /\ SliceEndsByNextEvent
    /\ \A c \in Core : downcount[c] <= slice_length[c]
    /\ AdvanceSound /\ SyncSound /\ RunSound

-----------------------------------------------------------------------------
(* Least and greatest elements *)

\* A set of naturals that is not empty has a least element.
LEMMA LeastNatural ==
    ASSUME NEW T, T \subseteq Nat, T # {}
    PROVE  \E x \in T : \A y \in T : x <= y
<1>1. PICK x \in T : \A y \in T : ~(<<y, x>> \in OpToRel(<, Nat))
  BY Zenon, NatLessThanWellFounded, WFMin
<1>2. \A y \in T : ~(y < x)
  BY Zenon, <1>1 DEF OpToRel
<1> QED BY <1>2

\* Of the events of a queue one has the least time: front() of the heap.
LEMMA NextEvent ==
    ASSUME TypeOK, NEW c \in Core, NEW other \in Nat, event_queue[c] # {},
           \A e \in event_queue[c] : executed_ticks[c] <= e.time
    PROVE  /\ NextEventIn(c, other) \in Int
           /\ \A e \in event_queue[c] : executed_ticks[c] + NextEventIn(c, other) <= e.time
           /\ \E e \in event_queue[c] : executed_ticks[c] + NextEventIn(c, other) = e.time
<1> DEFINE Q == event_queue[c]
           Times == {e.time : e \in Q}
<1>1. Q \subseteq Event /\ executed_ticks[c] \in Nat
  BY Zenon DEF TypeOK
<1>2. \A e \in Q : e.time \in Nat
  BY <1>1 DEF Event
<1>3. PICK t \in Times : \A u \in Times : t <= u
  <2>1. Times \subseteq Nat /\ Times # {}
    BY Zenon, <1>2
  <2> QED BY Zenon, <2>1, LeastNatural
<1>4. \E e \in Q : \A f \in Q : e.time <= f.time
  BY Zenon, <1>3
<1> DEFINE front == CHOOSE e \in Q : \A f \in Q : e.time <= f.time
<1>5. front \in Q /\ \A f \in Q : front.time <= f.time
  BY Zenon, <1>4
<1>6. NextEventIn(c, other) = front.time - executed_ticks[c]
  BY Zenon DEF NextEventIn
<1> QED BY SMTT(20), <1>1, <1>2, <1>5, <1>6

\* A slice that SetNextSlice() gives a timer without due events is not
\* negative, not longer than asked for, and ends with the next event.
LEMMA SliceFits ==
    ASSUME TypeOK, NEW c \in Core, NEW limit \in Nat,
           \A e \in event_queue[c] : executed_ticks[c] <= e.time
    PROVE  /\ UpToNextEvent(c, limit) \in Nat
           /\ UpToNextEvent(c, limit) <= limit
           /\ \A e \in event_queue[c] : executed_ticks[c] + UpToNextEvent(c, limit) <= e.time
<1>0. executed_ticks[c] \in Nat /\ \A e \in event_queue[c] : e.time \in Int
  BY DEF TypeOK, Event
<1>1. CASE event_queue[c] = {}
  BY <1>1 DEF UpToNextEvent, NextEventIn, LesserOf
<1>2. CASE event_queue[c] # {}
  <2>1. /\ NextEventIn(c, limit) \in Int
        /\ \A e \in event_queue[c] : executed_ticks[c] + NextEventIn(c, limit) <= e.time
        /\ \E e \in event_queue[c] : executed_ticks[c] + NextEventIn(c, limit) = e.time
    BY Zenon, <1>2, NextEvent
  <2> DEFINE n == NextEventIn(c, limit)
  <2> HIDE DEF n
  <2>2. n \in Int /\ n >= 0 /\ \A e \in event_queue[c] : executed_ticks[c] + n <= e.time
    BY <2>1, <1>0 DEF n
  <2>3. UpToNextEvent(c, limit) = IF n <= limit THEN n ELSE limit
    BY Zenon DEF UpToNextEvent, LesserOf, n
  <2> QED BY <2>2, <2>3, <1>0
<1> QED BY Zenon, <1>1, <1>2

\* One of the timers is the furthest ahead: max_element() finds it.
LEMMA GlobalTicks ==
    ASSUME TypeOK, \A c \in Core : downcount[c] <= slice_length[c]
    PROVE  /\ GetGlobalTicks \in Nat
           /\ \A c \in Core : GetTicks(c) \in Nat /\ GetTicks(c) <= GetGlobalTicks
           /\ \E c \in Core : GetTicks(c) = GetGlobalTicks
<1> DEFINE T == {n \in Core : ~\E m \in 0 .. n : \A c \in 0 .. n : GetTicks(c) <= GetTicks(m)}
<1>1. ASSUME NEW c \in Core PROVE GetTicks(c) \in Nat
  <2>1. /\ executed_ticks[c] \in Nat /\ slice_length[c] \in Nat /\ downcount[c] \in Int
        /\ downcount[c] <= slice_length[c]
    BY Zenon DEF TypeOK
  <2>2. slice_length[c] - downcount[c] \in Nat
    BY <2>1
  <2> QED BY <2>1, <2>2 DEF GetTicks
<1>2. NumCores \in Nat \ {0} /\ Core = 0 .. NumCores - 1
  BY Zenon, TimingAssumption DEF Core
<1>3. T = {}
  <2> SUFFICES ASSUME T # {} PROVE FALSE
    BY Zenon
  <2>1. T \subseteq Nat
    BY <1>2
  <2>2. PICK x \in T : \A y \in T : x <= y
    BY Zenon, <2>1, LeastNatural
  <2>3. x \in Core /\ x \in Nat
    BY Zenon, <2>1
  <2>4. CASE x = 0
    <3>1. GetTicks(0) <= GetTicks(0)
      BY <2>3, <2>4, <1>1
    <3> QED BY <3>1, <2>4
  <2>5. CASE x # 0
    <3>1. x - 1 \in Core /\ ~(x <= x - 1)
      BY <2>3, <2>5, <1>2
    <3>1a. x - 1 \notin T
      BY Zenon, <3>1, <2>2
    <3>2. PICK m \in 0 .. x - 1 : \A c \in 0 .. x - 1 : GetTicks(c) <= GetTicks(m)
      BY Zenon, <3>1, <3>1a
    <3>3. m \in Core /\ \A c \in 0 .. x : c \in Core /\ (c = x \/ c \in 0 .. x - 1)
      BY SMTT(20), <1>2, <2>3
    <3>4. CASE GetTicks(x) <= GetTicks(m)
      <4>1. m \in 0 .. x /\ \A c \in 0 .. x : GetTicks(c) <= GetTicks(m)
        BY <3>2, <3>3, <3>4
      <4> QED BY Zenon, <4>1
    <3>5. CASE ~(GetTicks(x) <= GetTicks(m))
      <4>1. GetTicks(x) \in Nat /\ GetTicks(m) \in Nat
        BY Zenon, <1>1, <2>3, <3>3
      <4>2. \A c \in 0 .. x : GetTicks(c) <= GetTicks(x)
        BY <3>2, <3>3, <3>5, <4>1, <1>1
      <4> QED BY <4>2, <2>3
    <3> QED BY Zenon, <3>4, <3>5
  <2> QED BY Zenon, <2>4, <2>5
<1>4. NumCores - 1 \in Core
  BY <1>2
<1>5. PICK m \in 0 .. NumCores - 1 : \A c \in 0 .. NumCores - 1 : GetTicks(c) <= GetTicks(m)
  BY Zenon, <1>3, <1>4
<1> DEFINE Ticks == {GetTicks(c) : c \in Core}
<1>6. \E n \in Ticks : \A c \in Core : GetTicks(c) <= n
  BY Zenon, <1>2, <1>5
<1>7. GetGlobalTicks \in Ticks /\ \A c \in Core : GetTicks(c) <= GetGlobalTicks
  BY Zenon, <1>6 DEF GetGlobalTicks
<1> QED BY Zenon, <1>1, <1>7

-----------------------------------------------------------------------------
(* What the parts of an action do to the timers *)

\* The clocks and queues of the timers: their types and what a slice covers.
TimersSound ==
    /\ executed_ticks \in [Core -> Nat] /\ slice_length \in [Core -> Nat]
    /\ downcount \in [Core -> Int] /\ is_timer_sane \in [Core -> BOOLEAN]
    /\ event_queue \in [Core -> SUBSET Event]
    /\ event_fifo_id \in [Core -> Nat] /\ ts_queue \in [Core -> Seq(Posted)]
    /\ SliceEndsByNextEvent
    /\ \A c \in Core : downcount[c] <= slice_length[c]

\* The rest of the type invariant.
LoopTyped ==
    /\ current_timer \in Core
    /\ pc \in {"start", "sync", "choose", "advance", "events", "callback", "slice", "run"}
    /\ core \in Core /\ current_core_to_execute \in Core \cup {nullptr}
    /\ global_ticks \in Nat /\ delay \in Nat /\ max_delay \in Nat
    /\ max_slice \in Nat /\ start_ticks \in Nat
    /\ catching_up \in BOOLEAN /\ loaded \in BOOLEAN

\* The invariant in the parts that the steps are proved for.
LEMMA InvParts ==
    /\ Inv => TimersSound /\ LoopTyped /\ AdvanceSound /\ SyncSound /\ RunSound
    /\ TimersSound' /\ LoopTyped' /\ AdvanceSound' /\ SyncSound' /\ RunSound' => Inv'
BY Zenon DEF Inv, TimersSound, LoopTyped, TypeOK

\* Posted events become events of the queue.
LEMMA MovedTyped ==
    ASSUME TimersSound, NEW c \in Core
    PROVE  Moved(c) \subseteq Event
<1>1. /\ ts_queue[c] \in Seq(Posted) /\ event_fifo_id[c] \in Nat
  BY Zenon DEF TimersSound
<1>2. ASSUME NEW i \in DOMAIN ts_queue[c]
      PROVE  ts_queue[c][i] \in Posted /\ event_fifo_id[c] + i - 1 \in Nat
  <2>1. i \in 1 .. Len(ts_queue[c]) /\ ts_queue[c][i] \in Posted
    BY <1>1
  <2> QED BY <2>1, <1>1
<1> QED BY <1>2 DEF Moved, Event, Posted

\* BeginAdvance() keeps the timers sound: the timer it is for claims nothing of
\* its slice until its due events have been handled.
LEMMA BeginAdvanceSound ==
    ASSUME TimersSound, NEW c \in Core, BeginAdvance(c)
    PROVE  /\ TimersSound'
           /\ is_timer_sane'[c] /\ slice_length'[c] = 0 /\ downcount'[c] = 0
           /\ \A d \in Core : d # c => /\ is_timer_sane'[d] = is_timer_sane[d]
                                       /\ slice_length'[d] = slice_length[d]
                                       /\ downcount'[d] = downcount[d]
<1>1. /\ executed_ticks \in [Core -> Nat] /\ slice_length \in [Core -> Nat]
      /\ downcount \in [Core -> Int] /\ is_timer_sane \in [Core -> BOOLEAN]
      /\ event_queue \in [Core -> SUBSET Event]
      /\ event_fifo_id \in [Core -> Nat] /\ ts_queue \in [Core -> Seq(Posted)]
      /\ \A d \in Core : downcount[d] <= slice_length[d]
  BY Zenon DEF TimersSound
<1>2. executed_ticks[c] + slice_length[c] - downcount[c] \in Nat
  BY <1>1
<1>3. executed_ticks' \in [Core -> Nat] /\ slice_length' \in [Core -> Nat] /\ downcount' \in [Core -> Int]
  BY <1>1, <1>2 DEF BeginAdvance
<1>4. is_timer_sane' \in [Core -> BOOLEAN]
  BY Zenon, <1>1 DEF BeginAdvance
<1>5. event_queue' \in [Core -> SUBSET Event]
  BY Zenon, <1>1, MovedTyped DEF BeginAdvance
<1>6. event_fifo_id' \in [Core -> Nat] /\ ts_queue' \in [Core -> Seq(Posted)]
  BY <1>1 DEF BeginAdvance
<1>7. ASSUME NEW d \in Core
      PROVE  /\ d = c => is_timer_sane'[d] /\ slice_length'[d] = 0 /\ downcount'[d] = 0
             /\ d # c => /\ is_timer_sane'[d] = is_timer_sane[d] /\ slice_length'[d] = slice_length[d]
                         /\ downcount'[d] = downcount[d] /\ event_queue'[d] = event_queue[d]
                         /\ executed_ticks'[d] = executed_ticks[d]
  BY Zenon, <1>1 DEF BeginAdvance
<1>8. ASSUME NEW d \in Core PROVE downcount'[d] <= slice_length'[d]
  <2>1. CASE d = c
    BY <2>1, <1>7
  <2>2. CASE d # c
    BY Zenon, <2>2, <1>1, <1>7
  <2> QED BY Zenon, <2>1, <2>2
<1>9. SliceEndsByNextEvent'
  BY Zenon, <1>7 DEF TimersSound, SliceEndsByNextEvent
<1> QED BY Zenon, <1>3, <1>4, <1>5, <1>6, <1>7, <1>8, <1>9 DEF TimersSound

\* SetNextSlice() keeps them sound for a timer that has been advanced and has
\* executed nothing since.
LEMMA SetNextSliceSound ==
    ASSUME TypeOK, TimersSound, NEW c \in Core, NEW limit \in Nat, ~is_timer_sane[c],
           SetNextSlice(c, limit), UNCHANGED <<executed_ticks, is_timer_sane, queueVars>>
    PROVE  /\ TimersSound'
           /\ \A d \in Core : d # c => slice_length'[d] = slice_length[d] /\ downcount'[d] = downcount[d]
<1>1. /\ executed_ticks \in [Core -> Nat] /\ slice_length \in [Core -> Nat]
      /\ downcount \in [Core -> Int] /\ is_timer_sane \in [Core -> BOOLEAN]
      /\ event_queue \in [Core -> SUBSET Event]
      /\ \A d \in Core : downcount[d] <= slice_length[d]
  BY Zenon DEF TimersSound
<1>2. \A e \in event_queue[c] : e.time \in Int /\ executed_ticks[c] <= e.time
  BY <1>1 DEF TimersSound, SliceEndsByNextEvent, Event
<1> DEFINE n == UpToNextEvent(c, limit)
<1>3. n \in Nat /\ \A e \in event_queue[c] : executed_ticks[c] + n <= e.time
  BY Zenon, <1>2, SliceFits
<1> HIDE DEF n
<1>4. /\ slice_length' = [slice_length EXCEPT ![c] = n]
      /\ downcount' = [downcount EXCEPT ![c] = n]
      /\ executed_ticks' = executed_ticks /\ is_timer_sane' = is_timer_sane
      /\ event_queue' = event_queue /\ event_fifo_id' = event_fifo_id /\ ts_queue' = ts_queue
  BY Zenon DEF SetNextSlice, queueVars, n
<1>5. slice_length' \in [Core -> Nat] /\ downcount' \in [Core -> Int]
  BY <1>1, <1>3, <1>4
<1>6. ASSUME NEW d \in Core
      PROVE  /\ d = c => slice_length'[d] = n /\ downcount'[d] = n
             /\ d # c => slice_length'[d] = slice_length[d] /\ downcount'[d] = downcount[d]
  BY Zenon, <1>1, <1>4
<1>7. \A d \in Core : downcount'[d] <= slice_length'[d]
  BY <1>1, <1>3, <1>6
<1>8. SliceEndsByNextEvent'
  <2> SUFFICES ASSUME NEW d \in Core, ~is_timer_sane[d], NEW e \in event_queue[d]
               PROVE  executed_ticks[d] + slice_length'[d] <= e.time
    BY Zenon, <1>4 DEF SliceEndsByNextEvent
  <2>1. CASE d = c
    BY Zenon, <2>1, <1>3, <1>6
  <2>2. CASE d # c
    BY Zenon, <2>2, <1>6 DEF TimersSound, SliceEndsByNextEvent
  <2> QED BY Zenon, <2>1, <2>2
<1> QED BY Zenon, <1>4, <1>5, <1>6, <1>7, <1>8 DEF TimersSound

-----------------------------------------------------------------------------
(* The actions, one by one *)

\* An event of the current timer that is scheduled while its core runs cuts the
\* slice; one of another timer is posted.
LEMMA ScheduleEventStep ==
    ASSUME Inv, NEW c \in Core, NEW cycles \in Delays, NEW ty \in EventType,
           ScheduleEvent(c, cycles, ty)
    PROVE  Inv'
<1>1. /\ TimersSound /\ LoopTyped /\ AdvanceSound /\ SyncSound /\ RunSound
      /\ pc \in {"callback", "run"}
  BY Zenon, InvParts DEF ScheduleEvent, Inside
<1>2. /\ executed_ticks \in [Core -> Nat] /\ slice_length \in [Core -> Nat]
      /\ downcount \in [Core -> Int] /\ is_timer_sane \in [Core -> BOOLEAN]
      /\ event_queue \in [Core -> SUBSET Event]
      /\ event_fifo_id \in [Core -> Nat] /\ ts_queue \in [Core -> Seq(Posted)]
      /\ \A d \in Core : downcount[d] <= slice_length[d]
      /\ cycles \in Nat
  BY Zenon, <1>1, TimingAssumption DEF TimersSound
<1>3. GetTicks(c) \in Nat
  BY Zenon, GlobalTicks, TimingAssumption DEF Inv
<1> DEFINE timeout == GetTicks(c) + cycles
           event == [time |-> timeout, fifo_order |-> event_fifo_id[c], type |-> ty]
<1>4. timeout \in Nat /\ event \in Event
  BY <1>2, <1>3 DEF Event
<1>5. /\ executed_ticks' = executed_ticks /\ is_timer_sane' = is_timer_sane
      /\ current_timer' = current_timer /\ pc' = pc /\ core' = core
      /\ global_ticks' = global_ticks /\ delay' = delay /\ max_delay' = max_delay
      /\ current_core_to_execute' = current_core_to_execute
      /\ max_slice' = max_slice /\ start_ticks' = start_ticks
      /\ catching_up' = catching_up /\ loaded' = loaded
  BY Zenon DEF ScheduleEvent, loopVars, delayVars, sliceVars
<1>6. LoopTyped' /\ SyncSound'
  BY Zenon, <1>1, <1>5 DEF LoopTyped, SyncSound, Advanced
<1>7. CASE current_timer # c
  <2>1. /\ event_queue' = event_queue /\ event_fifo_id' = event_fifo_id
        /\ slice_length' = slice_length /\ downcount' = downcount
        /\ ts_queue' = [ts_queue EXCEPT ![c] =
                Append(@, [time |-> timeout, type |-> ty])]
    BY Zenon, <1>7 DEF ScheduleEvent, Post
  <2>2. [time |-> timeout, type |-> ty] \in Posted
    BY <1>4 DEF Posted
  <2>3. ts_queue' \in [Core -> Seq(Posted)]
    BY <1>2, <2>1, <2>2
  <2>4. TimersSound'
    BY Zenon, <1>1, <1>5, <2>1, <2>3 DEF TimersSound, SliceEndsByNextEvent
  <2>5. AdvanceSound' /\ RunSound'
    BY Zenon, <1>1, <1>5, <2>1 DEF AdvanceSound, RunSound, Advanced, Fresh
  <2> QED BY Zenon, <1>6, <2>4, <2>5, InvParts
<1>8. CASE current_timer = c
  <2>0. c = core
    BY Zenon, <1>1, <1>8 DEF AdvanceSound
  <2>1. /\ event_queue' = [event_queue EXCEPT ![c] = @ \cup {event}]
        /\ event_fifo_id' = [event_fifo_id EXCEPT ![c] = @ + 1]
        /\ ts_queue' = ts_queue
    BY Zenon, <1>8 DEF ScheduleEvent
  <2>2. event_queue' \in [Core -> SUBSET Event] /\ event_fifo_id' \in [Core -> Nat]
    BY <1>2, <1>4, <2>1
  <2>3. CASE is_timer_sane[c]
    <3>1. slice_length' = slice_length /\ downcount' = downcount
      BY Zenon, <1>8, <2>3 DEF ScheduleEvent
    <3>2. SliceEndsByNextEvent'
      BY Zenon, <1>1, <1>2, <1>5, <2>1, <2>3, <3>1 DEF SliceEndsByNextEvent, TimersSound
    <3>3. TimersSound'
      BY Zenon, <1>1, <1>5, <2>1, <2>2, <3>1, <3>2 DEF TimersSound
    <3>4. AdvanceSound' /\ RunSound'
      BY Zenon, <1>1, <1>5, <3>1 DEF AdvanceSound, RunSound, Advanced, Fresh
    <3> QED BY Zenon, <1>6, <3>3, <3>4, InvParts
  <2>4. CASE ~is_timer_sane[c]
    <3>1. ForceExceptionCheck(c, cycles) /\ pc = "run"
      BY Zenon, <1>1, <1>8, <2>0, <2>4 DEF ScheduleEvent, AdvanceSound
    <3>2. timeout = executed_ticks[c] + (slice_length[c] - downcount[c]) + cycles
      BY Zenon, <2>4 DEF GetTicks
    <3>3. GreaterOf(0, cycles) = cycles
      BY <1>2 DEF GreaterOf
    <3>4. /\ slice_length' \in [Core -> Nat] /\ downcount' \in [Core -> Int]
          /\ slice_length'[c] <= slice_length[c] /\ downcount'[c] <= slice_length'[c]
          /\ executed_ticks[c] + slice_length'[c] <= timeout
          /\ \A d \in Core : d # c => slice_length'[d] = slice_length[d] /\ downcount'[d] = downcount[d]
      <4>1. CASE downcount[c] - cycles > 0
        <5>1. /\ slice_length' = [slice_length EXCEPT ![c] = slice_length[c] - (downcount[c] - cycles)]
              /\ downcount' = [downcount EXCEPT ![c] = downcount[c] - (downcount[c] - cycles)]
          BY Zenon, <1>2, <3>1, <3>3, <4>1 DEF ForceExceptionCheck
        <5>2. slice_length[c] - (downcount[c] - cycles) \in Nat
          BY <1>2
        <5> QED BY SMTT(20), <5>1, <5>2, <1>2, <3>2, <4>1
      <4>2. CASE ~(downcount[c] - cycles > 0)
        <5>1. slice_length' = slice_length /\ downcount' = downcount
          BY Zenon, <3>1, <3>3, <4>2 DEF ForceExceptionCheck
        <5> QED BY <5>1, <1>2, <3>2, <4>2
      <4> QED BY Zenon, <4>1, <4>2
    <3>5. SliceEndsByNextEvent'
      <4> SUFFICES ASSUME NEW d \in Core, ~is_timer_sane[d], NEW e \in event_queue'[d]
                   PROVE  executed_ticks[d] + slice_length'[d] <= e.time
        BY Zenon, <1>5 DEF SliceEndsByNextEvent
      <4>1. CASE d # c
        BY Zenon, <4>1, <1>1, <1>2, <2>1, <3>4 DEF TimersSound, SliceEndsByNextEvent
      <4>2. CASE d = c /\ e = event
        BY Zenon, <4>2, <3>4
      <4>3. CASE d = c /\ e \in event_queue[c]
        <5>1. executed_ticks[c] + slice_length[c] <= e.time /\ e.time \in Int
          BY <4>3, <1>1, <1>2, <2>4 DEF TimersSound, SliceEndsByNextEvent, Event
        <5> QED BY <5>1, <4>3, <3>4, <1>2
      <4> QED BY Zenon, <4>1, <4>2, <4>3, <1>2, <2>1
    <3>6. \A d \in Core : downcount'[d] <= slice_length'[d]
      BY Zenon, <1>2, <3>4
    <3>7. TimersSound'
      BY SMTT(30), <1>1, <1>5, <2>1, <2>2, <3>4, <3>5, <3>6 DEF TimersSound
    <3>8. AdvanceSound'
      BY Zenon, <1>1, <1>5, <3>1 DEF AdvanceSound, Advanced
    <3>9. RunSound'
      BY <1>1, <1>5, <2>0, <3>1, <3>4 DEF RunSound, Advanced, Fresh, Core
    <3> QED BY Zenon, <1>6, <3>7, <3>8, <3>9, InvParts
  <2> QED BY Zenon, <2>3, <2>4
<1> QED BY Zenon, <1>7, <1>8

\* A posted event waits in ts_queue.
LEMMA ScheduleThreadSafeStep ==
    ASSUME Inv, NEW c \in Core, NEW read \in ClockReads, NEW cycles \in Delays, NEW ty \in EventType,
           ScheduleThreadSafe(c, read, cycles, ty)
    PROVE  Inv'
<1>1. TimersSound /\ LoopTyped /\ AdvanceSound /\ SyncSound /\ RunSound
  BY Zenon, InvParts
<1>2. read \in Int /\ cycles \in Nat /\ MAX_SLICE_LENGTH \in Nat
  BY Zenon, TimingAssumption
<1> DEFINE time == read + GreaterOf(2 * MAX_SLICE_LENGTH, cycles)
           posted == [time |-> time, type |-> ty]
<1>3. posted \in Posted
  BY <1>2 DEF Posted, GreaterOf
<1>4. ts_queue' = [ts_queue EXCEPT ![c] = Append(@, posted)]
  BY Zenon DEF ScheduleThreadSafe, Post
<1>5. ts_queue' \in [Core -> Seq(Posted)]
  BY <1>1, <1>3, <1>4 DEF TimersSound
<1>6. UNCHANGED <<executed_ticks, slice_length, downcount, is_timer_sane, event_queue,
                  event_fifo_id, current_timer, pc, core, global_ticks, delay, max_delay,
                  current_core_to_execute, max_slice, start_ticks, catching_up, loaded>>
  BY Zenon DEF ScheduleThreadSafe, clockVars, loopVars, delayVars, sliceVars
<1>7. TimersSound'
  BY Zenon, <1>1, <1>5, <1>6 DEF TimersSound, SliceEndsByNextEvent
<1>8. LoopTyped' /\ AdvanceSound' /\ SyncSound' /\ RunSound'
  BY Zenon, <1>1, <1>6 DEF LoopTyped, AdvanceSound, SyncSound, RunSound, Advanced, Fresh
<1> QED BY Zenon, <1>7, <1>8, InvParts

\* Taking events out of a queue makes no slice too long.
LEMMA UnscheduleEventStep ==
    ASSUME Inv, NEW ty \in EventType, UnscheduleEvent(ty)
    PROVE  Inv'
<1>1. TimersSound /\ LoopTyped /\ AdvanceSound /\ SyncSound /\ RunSound
  BY Zenon, InvParts
<1>2. UNCHANGED <<executed_ticks, slice_length, downcount, is_timer_sane, ts_queue,
                  event_fifo_id, current_timer, pc, core, global_ticks, delay, max_delay,
                  current_core_to_execute, max_slice, start_ticks, catching_up, loaded>>
  BY Zenon DEF UnscheduleEvent, clockVars, loopVars, delayVars, sliceVars
<1>3. /\ event_queue' = [c \in Core |-> {e \in event_queue[c] : e.type # ty}]
      /\ \A c \in Core : event_queue'[c] \subseteq event_queue[c]
  BY Zenon DEF UnscheduleEvent
<1>4. event_queue' \in [Core -> SUBSET Event]
  BY Zenon, <1>1, <1>3 DEF TimersSound
<1>5. TimersSound'
  BY Zenon, <1>1, <1>2, <1>3, <1>4 DEF TimersSound, SliceEndsByNextEvent
<1>6. LoopTyped' /\ AdvanceSound' /\ SyncSound' /\ RunSound'
  BY <1>1, <1>2 DEF LoopTyped, AdvanceSound, SyncSound, RunSound, Advanced, Fresh
<1> QED BY Zenon, <1>5, <1>6, InvParts

\* After a load all timers are at a slice boundary for GetTicks().
LEMMA SaveLoadStep ==
    ASSUME Inv, SaveLoad
    PROVE  Inv'
<1>1. TimersSound /\ LoopTyped /\ AdvanceSound /\ SyncSound /\ RunSound
  BY Zenon, InvParts
<1>2. UNCHANGED <<executed_ticks, slice_length, downcount, current_timer, pc, core, global_ticks,
                  delay, max_delay, current_core_to_execute, max_slice, start_ticks, catching_up>>
  BY Zenon DEF SaveLoad, delayVars, sliceVars
<1>3. /\ pc = "start" /\ loaded' = TRUE
      /\ is_timer_sane' = [c \in Core |-> TRUE]
      /\ ts_queue' = [c \in Core |-> <<>>]
      /\ event_queue' = [c \in Core |-> event_queue[c] \cup Moved(c)]
      /\ event_fifo_id' = [c \in Core |-> event_fifo_id[c] + Len(ts_queue[c])]
  BY Zenon DEF SaveLoad
<1>4. event_queue' \in [Core -> SUBSET Event]
  BY Zenon, <1>1, <1>3, MovedTyped DEF TimersSound
<1>5. event_fifo_id' \in [Core -> Nat] /\ ts_queue' \in [Core -> Seq(Posted)]
  BY <1>1, <1>3 DEF TimersSound
<1>6. is_timer_sane' \in [Core -> BOOLEAN] /\ SliceEndsByNextEvent'
  BY Zenon, <1>3 DEF SliceEndsByNextEvent
<1>7. TimersSound'
  BY Zenon, <1>1, <1>2, <1>4, <1>5, <1>6 DEF TimersSound
<1>8. LoopTyped' /\ AdvanceSound' /\ SyncSound' /\ RunSound'
  BY Zenon, <1>1, <1>2, <1>3 DEF LoopTyped, AdvanceSound, SyncSound, RunSound
<1> QED BY Zenon, <1>7, <1>8, InvParts

\* Steps that leave the timers alone.
LEMMA TimersUnchanged ==
    ASSUME TimersSound, UNCHANGED <<clockVars, queueVars>>
    PROVE  TimersSound'
BY Zenon DEF TimersSound, SliceEndsByNextEvent, clockVars, queueVars

\* RunLoop begins.
LEMMA StartStep ==
    ASSUME Inv, Start
    PROVE  Inv'
<1>1. TimersSound /\ LoopTyped /\ AdvanceSound /\ SyncSound /\ RunSound
  BY Zenon, InvParts
<1>2. TimersSound'
  BY Zenon, <1>1, TimersUnchanged DEF Start
<1>3. global_ticks' \in Nat
  BY Zenon, GlobalTicks DEF Inv, Start
<1>4. /\ pc = "start" /\ pc' = "sync"
      /\ UNCHANGED <<is_timer_sane, slice_length, downcount, executed_ticks, current_timer, core,
                     delay, max_delay, current_core_to_execute, max_slice, start_ticks,
                     catching_up, loaded>>
  BY Zenon DEF Start, clockVars, sliceVars
<1>5. LoopTyped' /\ AdvanceSound' /\ SyncSound' /\ RunSound'
  BY Zenon, <1>1, <1>3, <1>4 DEF LoopTyped, AdvanceSound, SyncSound, RunSound, Advanced, Fresh
<1> QED BY Zenon, <1>2, <1>5, InvParts

\* The next core of a loop.
LEMMA NextCoreTyped ==
    ASSUME core \in Core, NEW again, NEW after, NextCore(again, after)
    PROVE  /\ core' \in Core
           /\ core = NumCores - 1 => pc' = after /\ core' = 0
           /\ core # NumCores - 1 => pc' = again /\ core' = core + 1
BY TimingAssumption DEF NextCore, Core

\* A core that is not behind.
LEMMA SyncSkipStep ==
    ASSUME Inv, SyncSkip
    PROVE  Inv'
<1>1. TimersSound /\ LoopTyped /\ AdvanceSound /\ SyncSound /\ RunSound
  BY Zenon, InvParts
<1>2. TimersSound'
  BY Zenon, <1>1, TimersUnchanged DEF SyncSkip
<1>3. /\ pc = "sync" /\ core' \in Core
      /\ core = NumCores - 1 => pc' = "choose" /\ core' = 0
      /\ core # NumCores - 1 => pc' = "sync" /\ core' = core + 1
      /\ UNCHANGED <<is_timer_sane, slice_length, downcount, executed_ticks, current_timer,
                     global_ticks, delay, max_delay, current_core_to_execute, max_slice,
                     start_ticks, catching_up, loaded>>
  BY Zenon, <1>1, NextCoreTyped DEF SyncSkip, LoopTyped, clockVars, delayVars, sliceVars
<1>4. LoopTyped' /\ AdvanceSound' /\ RunSound'
  BY Zenon, <1>1, <1>3 DEF LoopTyped, AdvanceSound, SyncSound, RunSound
<1>5. SyncSound'
  BY <1>1, <1>3 DEF LoopTyped, SyncSound, Advanced, Core, nullptr
<1> QED BY Zenon, <1>2, <1>4, <1>5, InvParts

\* A core that is behind is advanced; the one found before is another one.
LEMMA SyncAdvanceStep ==
    ASSUME Inv, SyncAdvance
    PROVE  Inv'
<1>1. TimersSound /\ LoopTyped /\ AdvanceSound /\ SyncSound /\ RunSound /\ core \in Core
  BY Zenon, InvParts DEF LoopTyped
<1>2. /\ TimersSound'
      /\ is_timer_sane'[core] /\ slice_length'[core] = 0 /\ downcount'[core] = 0
      /\ \A d \in Core : d # core => /\ is_timer_sane'[d] = is_timer_sane[d]
                                     /\ slice_length'[d] = slice_length[d]
                                     /\ downcount'[d] = downcount[d]
  BY Zenon, <1>1, BeginAdvanceSound DEF SyncAdvance
<1>3. delay' \in Nat
  <2>1. GetTicks(core) \in Nat /\ global_ticks \in Nat /\ GetTicks(core) < global_ticks
    BY Zenon, <1>1, GlobalTicks DEF Inv, LoopTyped, SyncAdvance
  <2>2. delay' = global_ticks - GetTicks(core)
    BY Zenon DEF SyncAdvance
  <2> QED BY <2>1, <2>2
<1>4. /\ pc = "sync" /\ pc' = "events" /\ current_timer' = core
      /\ UNCHANGED <<core, global_ticks, max_delay, current_core_to_execute, max_slice,
                     start_ticks, catching_up, loaded>>
  BY Zenon DEF SyncAdvance, sliceVars
<1>5. LoopTyped' /\ AdvanceSound' /\ RunSound'
  BY Zenon, <1>1, <1>2, <1>3, <1>4 DEF LoopTyped, AdvanceSound, SyncSound, RunSound
<1>6. SyncSound'
  BY <1>1, <1>2, <1>4 DEF LoopTyped, SyncSound, Advanced, Core, nullptr
<1> QED BY Zenon, <1>2, <1>5, <1>6, InvParts

\* A core runs only after its timer has been advanced in this round.
LEMMA ChooseStep ==
    ASSUME Inv, Choose
    PROVE  Inv'
<1>1. TimersSound /\ LoopTyped /\ AdvanceSound /\ SyncSound /\ RunSound
  BY Zenon, InvParts
<1>2. TimersSound'
  BY Zenon, <1>1, TimersUnchanged DEF Choose
<1>3. /\ pc = "choose" /\ catching_up /\ core = 0
      /\ global_ticks' = 0 /\ max_delay' = 0 /\ current_core_to_execute' = nullptr
      /\ UNCHANGED <<is_timer_sane, slice_length, downcount, executed_ticks, delay, max_slice,
                     start_ticks, loaded>>
  BY Zenon, <1>1 DEF Choose, SyncOver, SyncSound, clockVars, sliceVars
<1>4. CASE max_delay > MinDelay
  <2>1. /\ pc' = "run" /\ core' = current_core_to_execute
        /\ current_timer' = current_core_to_execute /\ catching_up' = catching_up
    BY Zenon, <1>4 DEF Choose
  <2>2. max_delay > 0
    BY <1>1, <1>4, TimingAssumption DEF LoopTyped
  <2>3. current_core_to_execute \in Core /\ Advanced(current_core_to_execute)
    BY Zenon, <1>1, <2>2 DEF SyncSound, LoopTyped
  <2>4. LoopTyped' /\ AdvanceSound' /\ SyncSound' /\ RunSound'
    BY <1>1, <1>3, <2>1, <2>3 DEF LoopTyped, AdvanceSound, SyncSound, RunSound, Advanced, Fresh
  <2> QED BY Zenon, <1>2, <2>4, InvParts
<1>5. CASE ~(max_delay > MinDelay)
  <2>1. pc' = "advance" /\ catching_up' = FALSE /\ core' = core /\ current_timer' = current_timer
    BY Zenon, <1>5 DEF Choose
  <2>2. LoopTyped' /\ AdvanceSound'
    BY Zenon, <1>1, <1>3, <2>1 DEF LoopTyped, AdvanceSound
  <2>3. SyncSound'
    BY <1>3, <2>1 DEF SyncSound
  <2>4. RunSound'
    BY <1>3, <2>1 DEF RunSound, Core
  <2> QED BY Zenon, <1>2, <2>2, <2>3, <2>4, InvParts
<1> QED BY Zenon, <1>4, <1>5

\* The loop that advances all timers.
LEMMA AdvanceCoreStep ==
    ASSUME Inv, AdvanceCore
    PROVE  Inv'
<1>1. TimersSound /\ LoopTyped /\ AdvanceSound /\ SyncSound /\ RunSound /\ core \in Core
  BY Zenon, InvParts DEF LoopTyped
<1>2. /\ TimersSound'
      /\ is_timer_sane'[core] /\ slice_length'[core] = 0 /\ downcount'[core] = 0
      /\ \A d \in Core : d # core => /\ is_timer_sane'[d] = is_timer_sane[d]
                                     /\ slice_length'[d] = slice_length[d]
                                     /\ downcount'[d] = downcount[d]
  BY Zenon, <1>1, BeginAdvanceSound DEF AdvanceCore
<1>3. /\ pc = "advance" /\ pc' = "events" /\ current_timer' = core
      /\ UNCHANGED <<core, global_ticks, delay, max_delay, current_core_to_execute, max_slice,
                     start_ticks, catching_up, loaded>>
  BY Zenon DEF AdvanceCore, delayVars, sliceVars
<1>4. LoopTyped' /\ AdvanceSound' /\ SyncSound'
  BY Zenon, <1>1, <1>2, <1>3 DEF LoopTyped, AdvanceSound, SyncSound
<1>5. RunSound'
  BY <1>1, <1>2, <1>3 DEF RunSound, Advanced, Fresh, Core
<1> QED BY Zenon, <1>2, <1>4, <1>5, InvParts

\* An event is taken out.
LEMMA FireEventStep ==
    ASSUME Inv, FireEvent
    PROVE  Inv'
<1>1. TimersSound /\ LoopTyped /\ AdvanceSound /\ SyncSound /\ RunSound /\ core \in Core
  BY Zenon, InvParts DEF LoopTyped
<1>2. PICK e \in event_queue[core] : event_queue' = [event_queue EXCEPT ![core] = @ \ {e}]
  BY Zenon DEF FireEvent
<1>3. /\ pc = "events" /\ pc' = "callback"
      /\ UNCHANGED <<executed_ticks, slice_length, downcount, is_timer_sane, ts_queue,
                     event_fifo_id, current_timer, core, global_ticks, delay, max_delay,
                     current_core_to_execute, max_slice, start_ticks, catching_up, loaded>>
  BY Zenon DEF FireEvent, clockVars, loopVars, delayVars, sliceVars
<1>4. event_queue' \in [Core -> SUBSET Event] /\ \A c \in Core : event_queue'[c] \subseteq event_queue[c]
  BY Zenon, <1>1, <1>2 DEF TimersSound
<1>5. TimersSound'
  BY Zenon, <1>1, <1>3, <1>4 DEF TimersSound, SliceEndsByNextEvent
<1>6. LoopTyped' /\ AdvanceSound' /\ SyncSound' /\ RunSound'
  BY Zenon, <1>1, <1>3 DEF LoopTyped, AdvanceSound, SyncSound, RunSound, Advanced, Fresh
<1> QED BY Zenon, <1>5, <1>6, InvParts

\* A callback returns.
LEMMA CallbackReturnsStep ==
    ASSUME Inv, CallbackReturns
    PROVE  Inv'
<1>1. TimersSound /\ LoopTyped /\ AdvanceSound /\ SyncSound /\ RunSound
  BY Zenon, InvParts
<1>2. TimersSound'
  BY Zenon, <1>1, TimersUnchanged DEF CallbackReturns
<1>3. /\ pc = "callback" /\ pc' = "events"
      /\ UNCHANGED <<executed_ticks, slice_length, downcount, is_timer_sane, current_timer, core,
                     global_ticks, delay, max_delay, current_core_to_execute, max_slice,
                     start_ticks, catching_up, loaded>>
  BY Zenon DEF CallbackReturns, clockVars, loopVars, delayVars, sliceVars
<1>4. LoopTyped' /\ AdvanceSound' /\ SyncSound' /\ RunSound'
  BY SMTT(30), <1>1, <1>3 DEF LoopTyped, AdvanceSound, SyncSound, RunSound, Advanced, Fresh
<1> QED BY Zenon, <1>2, <1>4, InvParts

\* No event is due any more: an empty slice covers the queue.
LEMMA EndAdvanceStep ==
    ASSUME Inv, EndAdvance
    PROVE  Inv'
<1>1. TimersSound /\ LoopTyped /\ AdvanceSound /\ SyncSound /\ RunSound /\ core \in Core
  BY Zenon, InvParts DEF LoopTyped
<1>2. /\ pc = "events" /\ pc' = "slice"
      /\ is_timer_sane' = [is_timer_sane EXCEPT ![core] = FALSE]
      /\ \A e \in event_queue[core] : ~(e.time <= executed_ticks[core])
      /\ UNCHANGED <<executed_ticks, slice_length, downcount, event_queue, ts_queue,
                     event_fifo_id, current_timer, core, global_ticks, delay, max_delay,
                     current_core_to_execute, max_slice, start_ticks, catching_up, loaded>>
  BY Zenon DEF EndAdvance, Due, queueVars, loopVars, delayVars, sliceVars
<1>3. /\ is_timer_sane' \in [Core -> BOOLEAN] /\ ~is_timer_sane'[core]
      /\ \A c \in Core : ~is_timer_sane[c] => ~is_timer_sane'[c]
      /\ \A c \in Core : c # core => is_timer_sane'[c] = is_timer_sane[c]
  BY Zenon, <1>1, <1>2 DEF TimersSound
<1>4. SliceEndsByNextEvent'
  <2> SUFFICES ASSUME NEW c \in Core, ~is_timer_sane'[c], NEW e \in event_queue[c]
               PROVE  executed_ticks[c] + slice_length[c] <= e.time
    BY Zenon, <1>2 DEF SliceEndsByNextEvent
  <2>1. CASE c = core
    <3>1. slice_length[core] = 0 /\ executed_ticks[core] \in Nat /\ e.time \in Int
      BY <1>1, <1>2 DEF AdvanceSound, TimersSound, Event
    <3> QED BY <3>1, <2>1, <1>2
  <2>2. CASE c # core
    BY Zenon, <2>2, <1>1, <1>3 DEF TimersSound, SliceEndsByNextEvent
  <2> QED BY Zenon, <2>1, <2>2
<1>5. TimersSound'
  BY Zenon, <1>1, <1>2, <1>3, <1>4 DEF TimersSound
<1>6. LoopTyped' /\ AdvanceSound' /\ SyncSound' /\ RunSound'
  BY SMTT(30), <1>1, <1>2, <1>3 DEF LoopTyped, AdvanceSound, SyncSound, RunSound, Advanced, Fresh
<1> QED BY Zenon, <1>5, <1>6, InvParts

\* A core that is behind gets a slice that ends where the others are.
LEMMA SyncSliceStep ==
    ASSUME Inv, SyncSlice
    PROVE  Inv'
<1>1. /\ TypeOK /\ TimersSound /\ LoopTyped /\ AdvanceSound /\ SyncSound /\ RunSound
      /\ core \in Core /\ delay \in Nat
  BY Zenon, InvParts DEF LoopTyped, Inv
<1>2. /\ pc = "slice" /\ catching_up /\ delay' = 0 /\ core' \in Core
      /\ core = NumCores - 1 => pc' = "choose" /\ core' = 0
      /\ core # NumCores - 1 => pc' = "sync" /\ core' = core + 1
      /\ UNCHANGED <<executed_ticks, is_timer_sane, queueVars, current_timer, global_ticks,
                     max_slice, start_ticks, catching_up, loaded>>
  BY Zenon, <1>1, NextCoreTyped DEF SyncSlice, sliceVars
<1>3. TimersSound'
  <2>1. ~is_timer_sane[core] /\ SetNextSlice(core, delay)
    BY Zenon, <1>1, <1>2 DEF AdvanceSound, Advanced, SyncSlice
  <2> QED BY Zenon, <1>1, <1>2, <2>1, SetNextSliceSound
<1>4. \/ /\ max_delay < delay /\ max_delay' = delay /\ current_core_to_execute' = core
      \/ /\ max_delay' = max_delay /\ current_core_to_execute' = current_core_to_execute
  BY Zenon DEF SyncSlice
<1>5. LoopTyped' /\ AdvanceSound' /\ RunSound'
  BY Zenon, <1>1, <1>2, <1>4 DEF LoopTyped, AdvanceSound, SyncSound, RunSound
<1>6. Advanced(core)
  BY Zenon, <1>1, <1>2 DEF AdvanceSound
<1>7. SyncSound'
  <2>1. CASE max_delay < delay /\ max_delay' = delay /\ current_core_to_execute' = core
    BY <1>1, <1>2, <1>6, <2>1 DEF SyncSound, Advanced, Core, nullptr
  <2>2. CASE max_delay' = max_delay /\ current_core_to_execute' = current_core_to_execute
    BY <1>1, <1>2, <2>2 DEF LoopTyped, SyncSound, Advanced, Core, nullptr
  <2> QED BY Zenon, <1>4, <2>1, <2>2
<1> QED BY Zenon, <1>3, <1>5, <1>7, InvParts

\* All timers are advanced when core 0 starts to run.
LEMMA RunSliceStep ==
    ASSUME Inv, RunSlice
    PROVE  Inv'
<1>1. /\ TypeOK /\ TimersSound /\ LoopTyped /\ AdvanceSound /\ SyncSound /\ RunSound
      /\ core \in Core /\ max_slice \in Nat
  BY Zenon, InvParts DEF LoopTyped, Inv
<1>2. /\ pc = "slice" /\ ~catching_up /\ core' \in Core
      /\ core = NumCores - 1 => pc' = "run" /\ core' = 0
      /\ core # NumCores - 1 => pc' = "advance" /\ core' = core + 1
      /\ max_slice' = LesserOf(max_slice, GetMaxSliceLength(core))
      /\ UNCHANGED <<queueVars, global_ticks, delay, max_delay, current_core_to_execute,
                     catching_up, loaded>>
  BY Zenon, <1>1, NextCoreTyped DEF RunSlice, delayVars
<1>3. Advanced(core) /\ \A c \in Core : c <= core => Fresh(c)
  BY <1>1, <1>2 DEF AdvanceSound, RunSound, Core, Fresh
<1> DEFINE n == LesserOf(max_slice, GetMaxSliceLength(core))
<1>4. n \in Nat
  <2>1. \A e \in event_queue[core] : executed_ticks[core] \in Nat /\ executed_ticks[core] <= e.time
                                     /\ e.time \in Int
    BY <1>1, <1>3 DEF TimersSound, SliceEndsByNextEvent, Advanced, Event
  <2>2. MAX_SLICE_LENGTH \in Nat
    BY SMTT(30), TimingAssumption
  <2>3. CASE event_queue[core] = {}
    BY Zenon, <2>2, <2>3, <1>1 DEF GetMaxSliceLength, NextEventIn, LesserOf
  <2>4. CASE event_queue[core] # {}
    <3> DEFINE m == NextEventIn(core, MAX_SLICE_LENGTH)
    <3>1. m \in Int /\ \E e \in event_queue[core] : executed_ticks[core] + m = e.time
      BY Zenon, <1>1, <2>1, <2>2, <2>4, NextEvent
    <3> HIDE DEF m
    <3>2. m \in Nat
      BY <2>1, <3>1
    <3> QED BY Zenon, <3>2, <1>1 DEF m, GetMaxSliceLength, LesserOf
  <2> QED BY Zenon, <2>3, <2>4
<1> HIDE DEF n
<1>5. max_slice' = n
  BY Zenon, <1>2 DEF n
<1>6. CASE core # NumCores - 1
  <2>1. UNCHANGED <<executed_ticks, slice_length, downcount, is_timer_sane, current_timer, start_ticks>>
    BY Zenon, <1>2, <1>6 DEF RunSlice, clockVars
  <2>2. TimersSound'
    BY Zenon, <1>1, <1>2, <2>1, TimersUnchanged DEF clockVars
  <2>3. LoopTyped' /\ AdvanceSound' /\ SyncSound'
    BY Zenon, <1>1, <1>2, <1>4, <1>5, <1>6, <2>1 DEF LoopTyped, AdvanceSound, SyncSound
  <2>4. RunSound'
    BY <1>1, <1>2, <1>3, <1>6, <2>1 DEF RunSound, Advanced, Fresh, Core
  <2> QED BY Zenon, <2>2, <2>3, <2>4, InvParts
<1>7. CASE core = NumCores - 1
  <2>1. 0 \in Core /\ \A c \in Core : Fresh(c) /\ Advanced(c)
    BY <1>3, <1>7, TimingAssumption DEF Core, Fresh
  <2>2. StartCore(0, n)
    BY Zenon, <1>2, <1>7 DEF RunSlice, n
  <2>3. /\ SetNextSlice(0, n) /\ start_ticks' = executed_ticks[0] /\ current_timer' = 0
        /\ UNCHANGED <<executed_ticks, is_timer_sane>>
    BY Zenon, <2>2 DEF StartCore
  <2>4. /\ TimersSound'
        /\ \A d \in Core : d # 0 => slice_length'[d] = slice_length[d] /\ downcount'[d] = downcount[d]
    BY Zenon, <1>1, <1>2, <1>4, <2>1, <2>3, SetNextSliceSound DEF Advanced
  <2>5. executed_ticks[0] \in Nat
    BY Zenon, <1>1, <2>1 DEF TimersSound
  <2>6. LoopTyped' /\ SyncSound'
    BY Zenon, <1>1, <1>2, <1>4, <1>5, <1>7, <2>1, <2>3, <2>5 DEF LoopTyped, SyncSound
  <2>7. AdvanceSound' /\ RunSound'
    BY <1>2, <1>7, <2>1, <2>3, <2>4 DEF AdvanceSound, RunSound, Advanced, Fresh
  <2> QED BY Zenon, <2>4, <2>6, <2>7, InvParts
<1> QED BY Zenon, <1>6, <1>7

\* The guest executes: a running timer's downcount only decreases.
LEMMA ExecuteStep ==
    ASSUME Inv, AddTicks \/ Idle
    PROVE  Inv'
<1>1. TimersSound /\ LoopTyped /\ AdvanceSound /\ SyncSound /\ RunSound /\ core \in Core
  BY Zenon, InvParts DEF LoopTyped
<1>2. /\ pc = "run"
      /\ UNCHANGED <<executed_ticks, slice_length, is_timer_sane, event_queue, ts_queue,
                     event_fifo_id, current_timer, pc, core, global_ticks, delay, max_delay,
                     current_core_to_execute, max_slice, start_ticks, catching_up, loaded>>
  BY Zenon DEF AddTicks, Idle, queueVars, loopVars, delayVars, sliceVars
<1>3. /\ slice_length[core] \in Nat /\ downcount[core] \in Int /\ downcount[core] <= slice_length[core]
      /\ Overshoot \in Nat
  BY SMTT(30), <1>1, TimingAssumption DEF TimersSound
<1>4. PICK left \in Int : /\ downcount' = [downcount EXCEPT ![core] = left]
                          /\ left <= slice_length[core]
  <2>1. CASE AddTicks
    <3>1. PICK left \in -Overshoot .. downcount[core] - 1 :
             downcount' = [downcount EXCEPT ![core] = left]
      BY Zenon, <2>1 DEF AddTicks
    <3>2. left \in Int /\ left <= slice_length[core]
      BY <3>1, <1>3
    <3> QED BY Zenon, <3>1, <3>2
  <2>2. CASE Idle
    <3>1. downcount' = [downcount EXCEPT ![core] = 0]
      BY Zenon, <2>2 DEF Idle
    <3>2. 0 \in Int /\ 0 <= slice_length[core]
      BY <1>3
    <3> QED BY Zenon, <3>1, <3>2
  <2> QED BY Zenon, <2>1, <2>2
<1>5. downcount' \in [Core -> Int] /\ \A c \in Core : downcount'[c] <= slice_length[c]
  BY Zenon, <1>1, <1>4 DEF TimersSound
<1>6. TimersSound'
  BY Zenon, <1>1, <1>2, <1>5 DEF TimersSound, SliceEndsByNextEvent
<1>7. LoopTyped' /\ AdvanceSound' /\ SyncSound'
  BY Zenon, <1>1, <1>2 DEF LoopTyped, AdvanceSound, SyncSound, Advanced
<1>8. \A c \in Core : core < c => downcount'[c] = downcount[c]
  BY <1>1, <1>4 DEF TimersSound, Core
<1>9. RunSound'
  BY Zenon, <1>1, <1>2, <1>8 DEF RunSound, Advanced, Fresh
<1> QED BY Zenon, <1>6, <1>7, <1>9, InvParts

\* The round is over, or the next core gets a slice as long as this one ran.
LEMMA RunReturnsStep ==
    ASSUME Inv, RunReturns
    PROVE  Inv'
<1>1. /\ TypeOK /\ TimersSound /\ LoopTyped /\ AdvanceSound /\ SyncSound /\ RunSound
      /\ core \in Core
  BY Zenon, InvParts DEF LoopTyped, Inv
<1>2. /\ pc = "run"
      /\ UNCHANGED <<queueVars, global_ticks, delay, max_delay, current_core_to_execute, loaded>>
  BY Zenon DEF RunReturns, delayVars
<1>3. CASE catching_up \/ core = NumCores - 1
  <2>1. /\ pc' = "start" /\ core' = 0 /\ catching_up' = TRUE
        /\ max_slice' = MAX_SLICE_LENGTH /\ start_ticks' = 0
        /\ UNCHANGED <<executed_ticks, slice_length, downcount, is_timer_sane, current_timer>>
    BY Zenon, <1>3 DEF RunReturns, RoundOver, clockVars
  <2>2. TimersSound'
    BY Zenon, <1>1, <1>2, <2>1, TimersUnchanged DEF clockVars
  <2>3. 0 \in Core /\ MAX_SLICE_LENGTH \in Nat
    BY TimingAssumption DEF Core
  <2>4. LoopTyped'
    BY Zenon, <1>1, <1>2, <2>1, <2>3 DEF LoopTyped
  <2>5. AdvanceSound' /\ SyncSound' /\ RunSound'
    BY Zenon, <1>1, <1>2, <2>1 DEF AdvanceSound, SyncSound, RunSound
  <2> QED BY Zenon, <2>2, <2>4, <2>5, InvParts
<1>4. CASE ~catching_up /\ core # NumCores - 1
  <2> DEFINE n == GetTicks(core) - start_ticks
  <2>1. /\ core' = core + 1 /\ max_slice' = n /\ StartCore(core + 1, n)
        /\ UNCHANGED <<pc, catching_up>>
    BY Zenon, <1>4 DEF RunReturns
  <2>2. PICK c \in Core : c = core + 1
    BY <1>1, <1>4, TimingAssumption DEF Core
  <2>3. \A d \in Core : Advanced(d) /\ (core < d => Fresh(d))
    BY Zenon, <1>1, <1>2, <1>4 DEF RunSound
  <2>4. n \in Nat
    <3>1. start_ticks = executed_ticks[core]
      BY Zenon, <1>1, <1>2, <1>4 DEF RunSound
    <3>2. /\ executed_ticks[core] \in Nat /\ slice_length[core] \in Nat /\ downcount[core] \in Int
          /\ downcount[core] <= slice_length[core]
      BY Zenon, <1>1 DEF TimersSound
    <3>3. GetTicks(core) = executed_ticks[core] + (slice_length[core] - downcount[core])
      BY Zenon, <1>1, <2>3 DEF GetTicks, Advanced
    <3> QED BY <3>1, <3>2, <3>3
  <2> HIDE DEF n
  <2>5. StartCore(c, n)
    BY Zenon, <2>1, <2>2
  <2>6. /\ SetNextSlice(c, n) /\ start_ticks' = executed_ticks[c] /\ current_timer' = c
        /\ UNCHANGED <<executed_ticks, is_timer_sane>>
    BY Zenon, <2>5 DEF StartCore
  <2>7. /\ TimersSound'
        /\ \A d \in Core : d # c => slice_length'[d] = slice_length[d] /\ downcount'[d] = downcount[d]
    BY Zenon, <1>1, <1>2, <2>3, <2>4, <2>6, SetNextSliceSound DEF Advanced
  <2>8. executed_ticks[c] \in Nat
    BY Zenon, <1>1 DEF TimersSound
  <2>9. LoopTyped' /\ SyncSound'
    BY Zenon, <1>1, <1>2, <1>4, <2>1, <2>2, <2>4, <2>6, <2>8 DEF LoopTyped, SyncSound
  <2>10. AdvanceSound'
    BY Zenon, <1>2, <2>1, <2>2, <2>3, <2>6 DEF AdvanceSound, Advanced
  <2>11. RunSound'
    BY <1>1, <1>2, <1>4, <2>1, <2>2, <2>3, <2>6, <2>7 DEF RunSound, Advanced, Fresh, Core
  <2> QED BY Zenon, <2>7, <2>9, <2>10, <2>11, InvParts
<1> QED BY Zenon, <1>3, <1>4

-----------------------------------------------------------------------------
(* The theorems *)

\* At the start no timer has been advanced and no event is queued.
LEMMA InitInv == Init => Inv
<1> SUFFICES ASSUME Init PROVE Inv
  BY Zenon
<1>1. 0 \in Core /\ MAX_SLICE_LENGTH \in Nat
  BY TimingAssumption DEF Core
<1>2. TypeOK
  BY <1>1 DEF Init, TypeOK
<1>3. SliceEndsByNextEvent /\ \A c \in Core : downcount[c] <= slice_length[c]
  BY <1>1 DEF Init, SliceEndsByNextEvent
<1>4. AdvanceSound /\ SyncSound /\ RunSound
  BY DEF Init, AdvanceSound, SyncSound, RunSound
<1> QED BY Zenon, <1>2, <1>3, <1>4 DEF Inv

\* Every step of the timers, of RunLoop and of what it calls keeps the invariant.
LEMMA NextInv == Inv /\ [Next]_vars => Inv'
<1> SUFFICES ASSUME Inv, [Next]_vars PROVE Inv'
  BY Zenon
<1>1. ASSUME NEW c \in Core, NEW cycles \in Delays, NEW ty \in EventType,
             \/ ScheduleEvent(c, cycles, ty)
             \/ \E read \in ClockReads : ScheduleThreadSafe(c, read, cycles, ty)
      PROVE  Inv'
  BY Zenon, <1>1, ScheduleEventStep, ScheduleThreadSafeStep
<1>2. ASSUME NEW ty \in EventType, UnscheduleEvent(ty)
      PROVE  Inv'
  BY Zenon, <1>2, UnscheduleEventStep
<1>3. CASE SaveLoad \/ Start \/ SyncSkip \/ SyncAdvance \/ Choose \/ AdvanceCore
  BY Zenon, <1>3, SaveLoadStep, StartStep, SyncSkipStep, SyncAdvanceStep, ChooseStep, AdvanceCoreStep
<1>4. CASE FireEvent \/ CallbackReturns \/ EndAdvance
  BY Zenon, <1>4, FireEventStep, CallbackReturnsStep, EndAdvanceStep
<1>5. CASE SyncSlice \/ RunSlice \/ AddTicks \/ Idle \/ RunReturns
  BY SMTT(30), <1>5, SyncSliceStep, RunSliceStep, ExecuteStep, RunReturnsStep
<1>6. CASE UNCHANGED vars
  BY <1>6 DEF vars, clockVars, queueVars, loopVars, delayVars, sliceVars, Inv, TypeOK,
              SliceEndsByNextEvent, AdvanceSound, SyncSound, RunSound, Advanced, Fresh
<1> QED BY Zenon, <1>1, <1>2, <1>3, <1>4, <1>5, <1>6 DEF Next

\* The invariant holds in every state.
THEOREM InductiveInvariant == Spec => []Inv
BY InitInv, NextInv, PTL DEF Spec

\* The ticks, slices and delays of RunLoop never become negative, and the core
\* that RunLoop chooses to run exists: the variables keep their types.
THEOREM TypeCorrect == Spec => []TypeOK
<1>1. Inv => TypeOK
  BY Zenon DEF Inv
<1> QED BY <1>1, InductiveInvariant, PTL

\* No slice reaches past the next event of its timer (SetNextSlice and
\* ForceExceptionCheck of core_timing.cpp), for any number of cores and events.
THEOREM SlicesEndByNextEvent == Spec => []SliceEndsByNextEvent
<1>1. Inv => SliceEndsByNextEvent
  BY Zenon DEF Inv
<1> QED BY <1>1, InductiveInvariant, PTL

\* What the steps must keep: the events of a timer that awaits its slice.
Ahead(c) == \A e \in event_queue[c] : e.time - executed_ticks[c] > 0

\* A timer that already awaited its slice and got no new event.
LEMMA AheadFrame ==
    ASSUME NextEventAhead, NEW c \in Core, AwaitsSlice(c),
           event_queue'[c] \subseteq event_queue[c], executed_ticks'[c] = executed_ticks[c]
    PROVE  Ahead(c)'
  BY Zenon DEF NextEventAhead, Ahead

\* Every step keeps the events of those timers ahead.
LEMMA AheadStep ==
    ASSUME Inv, NextEventAhead, [Next]_vars, NEW c \in Core, AwaitsSlice(c)'
    PROVE  Ahead(c)'
<1>1. /\ TimersSound /\ AdvanceSound /\ SyncSound /\ core \in Core /\ core \in Nat /\ c \in Nat
      /\ c <= NumCores - 1 /\ 0 <= c /\ NumCores \in Nat
  <2>1. TimersSound /\ AdvanceSound /\ SyncSound /\ core \in Core
    BY Zenon, InvParts DEF LoopTyped
  <2> QED BY <2>1, TimingAssumption DEF Core
<1>2. CASE UNCHANGED vars
  <2>1. UNCHANGED <<pc, core, catching_up, event_queue, executed_ticks>>
    BY Zenon, <1>2 DEF vars, clockVars, queueVars, loopVars
  <2> QED BY Zenon, <2>1, AheadFrame DEF AwaitsSlice
<1>3. ASSUME NEW d \in Core, NEW cycles \in Delays, NEW ty \in EventType, ScheduleEvent(d, cycles, ty)
      PROVE  Ahead(c)'
  <2>1. /\ pc \in {"callback", "run"} /\ current_timer = core
        /\ UNCHANGED <<pc, core, catching_up, executed_ticks>>
    BY Zenon, <1>1, <1>3 DEF ScheduleEvent, Inside, loopVars, AdvanceSound
  <2>2. AwaitsSlice(c) /\ c # core
    BY <1>1, <2>1 DEF AwaitsSlice
  <2>3. event_queue'[c] = event_queue[c]
    BY Zenon, <1>1, <1>3, <2>1, <2>2 DEF ScheduleEvent, TimersSound
  <2> QED BY Zenon, <2>1, <2>2, <2>3, AheadFrame
<1>4. ASSUME \/ \E d \in Core, read \in ClockReads, cycles \in Delays, ty \in EventType :
                  ScheduleThreadSafe(d, read, cycles, ty)
             \/ \E ty \in EventType : UnscheduleEvent(ty)
             \/ AddTicks \/ Idle
      PROVE  Ahead(c)'
  <2>1. UNCHANGED <<pc, core, catching_up, executed_ticks>> /\ event_queue'[c] \subseteq event_queue[c]
    BY Zenon, <1>4 DEF ScheduleThreadSafe, UnscheduleEvent, AddTicks, Idle, clockVars, queueVars, loopVars
  <2> QED BY Zenon, <2>1, AheadFrame DEF AwaitsSlice
<1>5. CASE SaveLoad \/ Start \/ SyncSkip
  <2>1. catching_up' /\ pc' \in {"start", "sync", "choose"}
    BY Zenon, <1>1, <1>5 DEF SaveLoad, Start, SyncSkip, NextCore, SyncSound
  <2> QED BY Zenon, <2>1 DEF AwaitsSlice
<1>6. CASE SyncAdvance \/ AdvanceCore
  <2>1. /\ BeginAdvance(core) /\ pc' = "events" /\ core' = core /\ catching_up' = catching_up
        /\ pc = "sync" => catching_up
        /\ pc \in {"sync", "advance"}
    BY Zenon, <1>1, <1>6 DEF SyncAdvance, AdvanceCore, SyncSound
  <2>2. AwaitsSlice(c) /\ c # core
    BY <1>1, <2>1 DEF AwaitsSlice
  <2>3. event_queue'[c] = event_queue[c] /\ executed_ticks'[c] = executed_ticks[c]
    BY Zenon, <1>1, <2>1, <2>2 DEF BeginAdvance, TimersSound
  <2> QED BY Zenon, <2>2, <2>3, AheadFrame
<1>7. CASE Choose
  <2>1. \/ pc' = "run" /\ catching_up'
        \/ pc' = "advance" /\ core' = 0
    BY Zenon, <1>1, <1>7 DEF Choose, SyncSound
  <2> QED BY <1>1, <2>1 DEF AwaitsSlice
<1>8. CASE FireEvent \/ CallbackReturns
  <2>1. /\ pc \in {"events", "callback"} /\ pc' \in {"events", "callback"}
        /\ UNCHANGED <<core, catching_up, executed_ticks>>
    BY Zenon, <1>8 DEF FireEvent, CallbackReturns, clockVars, loopVars
  <2>2. event_queue'[c] \subseteq event_queue[c]
    BY Zenon, <1>1, <1>8 DEF FireEvent, CallbackReturns, queueVars, TimersSound
  <2> QED BY Zenon, <2>1, <2>2, AheadFrame DEF AwaitsSlice
<1>9. CASE EndAdvance
  <2>1. /\ pc = "events" /\ pc' = "slice" /\ \A e \in event_queue[core] : ~(e.time <= executed_ticks[core])
        /\ UNCHANGED <<core, catching_up, executed_ticks, event_queue>>
    BY Zenon, <1>9 DEF EndAdvance, Due, queueVars, loopVars
  <2>2. CASE c = core
    <3>1. executed_ticks[core] \in Nat /\ \A e \in event_queue[core] : e.time \in Int
      BY <1>1 DEF TimersSound, Event
    <3> QED BY <2>1, <2>2, <3>1 DEF Ahead
  <2>3. CASE c # core
    BY Zenon, <2>1, <2>3, AheadFrame DEF AwaitsSlice
  <2> QED BY Zenon, <2>2, <2>3
<1>10. CASE SyncSlice
  <2>1. catching_up' /\ pc' \in {"sync", "choose"}
    BY Zenon, <1>10 DEF SyncSlice, NextCore
  <2> QED BY Zenon, <2>1 DEF AwaitsSlice
<1>11. CASE RunSlice
  <2>1. /\ pc = "slice" /\ ~catching_up /\ UNCHANGED <<executed_ticks, event_queue>>
        /\ core = NumCores - 1 => pc' = "run" /\ core' = 0
        /\ core # NumCores - 1 => pc' = "advance" /\ core' = core + 1
    BY Zenon, <1>11 DEF RunSlice, StartCore, NextCore, clockVars, queueVars
  <2>2. c <= core
    BY <1>1, <2>1 DEF AwaitsSlice
  <2>3. AwaitsSlice(c)
    BY <1>1, <2>1, <2>2 DEF AwaitsSlice
  <2> QED BY Zenon, <2>1, <2>3, AheadFrame
<1>12. CASE RunReturns
  <2>1. /\ pc = "run" /\ UNCHANGED <<executed_ticks, event_queue>>
        /\ \/ pc' = "start" /\ catching_up'
           \/ pc' = pc /\ core' = core + 1 /\ catching_up' = catching_up
    BY Zenon, <1>12 DEF RunReturns, RoundOver, StartCore, clockVars, queueVars
  <2>2. AwaitsSlice(c)
    BY <1>1, <2>1 DEF AwaitsSlice
  <2> QED BY Zenon, <2>1, <2>2, AheadFrame
<1> QED BY Zenon, <1>2, <1>3, <1>4, <1>5, <1>6, <1>7, <1>8, <1>9, <1>10, <1>11, <1>12 DEF Next

\* The assertion of GetMaxSliceLength (core_timing.cpp:205) holds for any number of
\* cores, whatever time host threads and other cores post their events for: a timer
\* whose slice is chosen has no event that is due.
THEOREM NextEventsAhead == Spec => []NextEventAhead
<1>1. Init => NextEventAhead
  BY Zenon DEF Init, NextEventAhead, AwaitsSlice
<1>2. Inv /\ NextEventAhead /\ [Next]_vars => NextEventAhead'
  BY Zenon, AheadStep DEF NextEventAhead, Ahead
<1> QED BY <1>1, <1>2, InductiveInvariant, PTL DEF Spec

\* The time of a timer stays as it is, or moves forward while its core runs.
TimeStep(c) ==
    Progress(c)' # Progress(c) => pc = "run" /\ c = current_timer /\ Progress(c)' > Progress(c)

\* Advance() counts what has been executed before it resets the slice.
LEMMA BeginAdvanceTime ==
    ASSUME TimersSound, NEW d \in Core, BeginAdvance(d), NEW c \in Core
    PROVE  Progress(c)' = Progress(c)
<1>1. /\ executed_ticks \in [Core -> Nat] /\ slice_length \in [Core -> Nat] /\ downcount \in [Core -> Int]
  BY Zenon DEF TimersSound
<1>2. CASE c = d
  BY <1>1, <1>2 DEF BeginAdvance, Progress
<1>3. CASE c # d
  BY Zenon, <1>1, <1>3 DEF BeginAdvance, Progress
<1> QED BY Zenon, <1>2, <1>3

\* A new slice takes no time from a timer that has executed nothing of the old one.
LEMMA SetNextSliceTime ==
    ASSUME TypeOK, TimersSound, NEW d \in Core, NEW limit \in Nat, Fresh(d),
           SetNextSlice(d, limit), executed_ticks' = executed_ticks, NEW c \in Core
    PROVE  Progress(c)' = Progress(c)
<1>1. /\ executed_ticks \in [Core -> Nat] /\ slice_length \in [Core -> Nat] /\ downcount \in [Core -> Int]
      /\ \A e \in event_queue[d] : e.time \in Int
  BY DEF TimersSound, Event
<1>2. \A e \in event_queue[d] : executed_ticks[d] <= e.time
  BY <1>1 DEF TimersSound, SliceEndsByNextEvent, Fresh, Advanced
<1> DEFINE n == UpToNextEvent(d, limit)
<1>3. n \in Nat
  BY Zenon, <1>2, SliceFits
<1> HIDE DEF n
<1>4. /\ slice_length' = [slice_length EXCEPT ![d] = n]
      /\ downcount' = [downcount EXCEPT ![d] = n]
  BY Zenon DEF SetNextSlice, n
<1>5. CASE c = d
  BY <1>1, <1>3, <1>4, <1>5 DEF Progress, Fresh
<1>6. CASE c # d
  BY Zenon, <1>1, <1>4, <1>6 DEF Progress
<1> QED BY Zenon, <1>5, <1>6

\* Cutting a slice short leaves the time as it is.
LEMMA ForceExceptionCheckTime ==
    ASSUME TimersSound, NEW d \in Core, NEW cycles \in Nat, ForceExceptionCheck(d, cycles),
           executed_ticks' = executed_ticks, NEW c \in Core
    PROVE  Progress(c)' = Progress(c)
<1>1. /\ executed_ticks \in [Core -> Nat] /\ slice_length \in [Core -> Nat] /\ downcount \in [Core -> Int]
  BY Zenon DEF TimersSound
<1>2. GreaterOf(0, cycles) = cycles
  BY DEF GreaterOf
<1>3. CASE downcount[d] - cycles > 0
  <2>1. /\ slice_length' = [slice_length EXCEPT ![d] = slice_length[d] - (downcount[d] - cycles)]
        /\ downcount' = [downcount EXCEPT ![d] = downcount[d] - (downcount[d] - cycles)]
    BY Zenon, <1>1, <1>2, <1>3 DEF ForceExceptionCheck
  <2>2. CASE c = d
    BY <1>1, <2>1, <2>2 DEF Progress
  <2>3. CASE c # d
    BY Zenon, <1>1, <2>1, <2>3 DEF Progress
  <2> QED BY Zenon, <2>2, <2>3
<1>4. CASE ~(downcount[d] - cycles > 0)
  <2>1. slice_length' = slice_length /\ downcount' = downcount
    BY Zenon, <1>2, <1>4 DEF ForceExceptionCheck
  <2> QED BY Zenon, <2>1 DEF Progress
<1> QED BY Zenon, <1>3, <1>4

\* Every step is a TimeStep of every timer.
LEMMA NextTime ==
    ASSUME Inv, [Next]_vars, NEW c \in Core
    PROVE  TimeStep(c)
<1>1. TypeOK /\ TimersSound /\ LoopTyped /\ AdvanceSound /\ SyncSound /\ RunSound /\ core \in Core
  BY Zenon, InvParts DEF Inv, LoopTyped
<1>2. ASSUME NEW d \in Core, NEW cycles \in Delays, NEW ty \in EventType, ScheduleEvent(d, cycles, ty)
      PROVE  TimeStep(c)
  <2>1. \/ UNCHANGED <<slice_length, downcount>>
        \/ ForceExceptionCheck(d, cycles)
    BY Zenon, <1>2 DEF ScheduleEvent
  <2>2. executed_ticks' = executed_ticks /\ cycles \in Nat
    BY Zenon, <1>2, TimingAssumption DEF ScheduleEvent
  <2>3. Progress(c)' = Progress(c)
    BY Zenon, <1>1, <2>1, <2>2, ForceExceptionCheckTime DEF Progress
  <2> QED BY SMTT(30), <2>3 DEF TimeStep
<1>3. CASE UNCHANGED <<executed_ticks, slice_length, downcount>>
  BY Zenon, <1>3 DEF TimeStep, Progress
<1>4. CASE SyncAdvance \/ AdvanceCore
  <2>1. BeginAdvance(core)
    BY Zenon, <1>4 DEF SyncAdvance, AdvanceCore
  <2> QED BY Zenon, <1>1, <2>1, BeginAdvanceTime DEF TimeStep
<1>5. CASE SyncSlice
  <2>1. SetNextSlice(core, delay) /\ executed_ticks' = executed_ticks /\ pc = "slice"
    BY Zenon, <1>5 DEF SyncSlice
  <2>2. Fresh(core) /\ delay \in Nat
    BY Zenon, <1>1, <2>1 DEF AdvanceSound, Fresh, LoopTyped
  <2> QED BY Zenon, <1>1, <2>1, <2>2, SetNextSliceTime DEF TimeStep
<1>6. CASE RunSlice
  <2>1. CASE pc' # "run"
    BY Zenon, <1>3, <1>6, <2>1 DEF RunSlice, clockVars
  <2>2. CASE pc' = "run"
    <3>1. /\ SetNextSlice(0, max_slice') /\ executed_ticks' = executed_ticks
          /\ NextCore("advance", "run") /\ pc = "slice" /\ ~catching_up
      BY Zenon, <1>6, <2>2 DEF RunSlice, StartCore
    <3>2. core = NumCores - 1
      BY <1>1, <2>2, <3>1, NextCoreTyped
    <3>3. 0 \in Core /\ Fresh(0)
      BY <1>1, <3>1, <3>2, TimingAssumption DEF RunSound, AdvanceSound, Fresh, Core
    <3>4. PICK n \in Nat : n = max_slice'
      BY Zenon, <1>6, RunSliceStep DEF Inv, TypeOK
    <3> QED BY Zenon, <1>1, <3>1, <3>3, <3>4, SetNextSliceTime DEF TimeStep
  <2> QED BY Zenon, <2>1, <2>2
<1>7. CASE AddTicks \/ Idle
  <2>1. /\ pc = "run" /\ current_timer = core
        /\ executed_ticks' = executed_ticks /\ slice_length' = slice_length
    BY Zenon, <1>1, <1>7 DEF AddTicks, Idle, AdvanceSound
  <2>2. /\ executed_ticks \in [Core -> Nat] /\ slice_length \in [Core -> Nat]
        /\ downcount \in [Core -> Int] /\ Overshoot \in Nat
        /\ downcount[core] <= slice_length[core]
    BY Zenon, <1>1, TimingAssumption DEF TimersSound
  <2>3. PICK left \in Int : downcount' = [downcount EXCEPT ![core] = left] /\ left <= downcount[core]
    <3>1. CASE AddTicks
      <4>1. PICK left \in -Overshoot .. downcount[core] - 1 :
               downcount' = [downcount EXCEPT ![core] = left]
        BY Zenon, <3>1 DEF AddTicks
      <4>2. downcount[core] \in Int
        BY Zenon, <1>1, <2>2
      <4>3. left \in Int /\ left <= downcount[core]
        BY <4>1, <4>2, <2>2
      <4> QED BY Zenon, <4>1, <4>3
    <3>2. CASE Idle
      <4>1. downcount' = [downcount EXCEPT ![core] = 0] /\ downcount[core] = slice_length[core]
        BY Zenon, <3>2 DEF Idle
      <4>2. 0 \in Int /\ 0 <= downcount[core]
        BY <4>1, <1>1 DEF TimersSound
      <4> QED BY Zenon, <4>1, <4>2
    <3> QED BY Zenon, <1>7, <3>1, <3>2
  <2>4. CASE c = core
    BY <2>1, <2>2, <2>3, <2>4, <1>1 DEF TimeStep, Progress
  <2>5. CASE c # core
    BY Zenon, <2>1, <2>2, <2>3, <2>5 DEF TimeStep, Progress
  <2> QED BY Zenon, <2>4, <2>5
<1>8. CASE RunReturns
  <2>1. CASE catching_up \/ core = NumCores - 1
    BY Zenon, <1>3, <1>8, <2>1 DEF RunReturns, clockVars
  <2>2. CASE ~catching_up /\ core # NumCores - 1
    <3>1. /\ pc = "run" /\ SetNextSlice(core + 1, max_slice') /\ executed_ticks' = executed_ticks
      BY Zenon, <1>8, <2>2 DEF RunReturns, StartCore
    <3>2. PICK d \in Core : d = core + 1
      BY <1>1, <2>2, TimingAssumption DEF Core
    <3>3. Fresh(d)
      BY <1>1, <2>2, <3>1, <3>2 DEF RunSound, Core
    <3>4. PICK n \in Nat : n = max_slice'
      BY Zenon, <1>8, RunReturnsStep DEF Inv, TypeOK
    <3>5. SetNextSlice(d, n)
      BY Zenon, <3>1, <3>2, <3>4
    <3> QED BY Zenon, <1>1, <3>1, <3>3, <3>5, SetNextSliceTime DEF TimeStep
  <2> QED BY Zenon, <2>1, <2>2
<1>9. ASSUME NEW d \in Core, NEW read \in ClockReads, NEW cycles \in Delays, NEW ty \in EventType,
             ScheduleThreadSafe(d, read, cycles, ty)
      PROVE  TimeStep(c)
  BY Zenon, <1>3, <1>9 DEF ScheduleThreadSafe, clockVars
<1>10. ASSUME NEW ty \in EventType, UnscheduleEvent(ty)
       PROVE  TimeStep(c)
  BY Zenon, <1>3, <1>10 DEF UnscheduleEvent, clockVars
<1>11. CASE SaveLoad \/ Start \/ SyncSkip \/ Choose \/ FireEvent \/ CallbackReturns \/ EndAdvance
  BY Zenon, <1>3, <1>11 DEF SaveLoad, Start, SyncSkip, Choose, FireEvent, CallbackReturns, EndAdvance, clockVars
<1>12. CASE UNCHANGED vars
  BY Zenon, <1>3, <1>12 DEF vars, clockVars
<1> QED BY SMTT(30), <1>2, <1>4, <1>5, <1>6, <1>7, <1>8, <1>9, <1>10, <1>11, <1>12 DEF Next

\* Advance(), the events it handles, new slices and a load take no time: the
\* time of a timer moves only forward and only while its core runs.
THEOREM OnlyRunningMovesTime == Spec => OnlyRunningTakesTime
<1>1. Inv /\ [Next]_vars => \A c \in Core : TimeStep(c)
  BY Zenon, NextTime
<1>2. Inv /\ [Next]_vars =>
        [\A c \in Core : Progress(c)' # Progress(c) =>
            pc = "run" /\ c = current_timer /\ Progress(c)' > Progress(c)]_vars
  BY Zenon, <1>1 DEF TimeStep
<1> QED BY <1>2, InductiveInvariant, PTL DEF Spec, OnlyRunningTakesTime

-----------------------------------------------------------------------------
(* How far the cores drift apart. T and U give each core a time. *)

\* The cores that are ahead of d.
Above(T, d) == {e \in Core : T[e] > T[d]}

\* A core that is ahead of d is so by at most one slice, min_delay, and what the
\* jit overshoots on each of the cores that are ahead of d. Unlike the bound of
\* CoresStayTogether this one is kept when the last core catches up.
Spread(T) ==
    \A c, d \in Core :
        T[c] - T[d] <= MinDelay + MAX_SLICE_LENGTH + Overshoot * Cardinality(Above(T, d))

\* The arithmetic of multiples.
LEMMA Products ==
    ASSUME NEW v \in Nat, NEW a \in Nat, NEW b \in Nat
    PROVE  /\ v * a \in Nat /\ v * (a + 1) = v * a + v
           /\ a <= b => v * a <= v * b
<1>1. v * a \in Nat /\ v * (a + 1) = v * a + v
  OBVIOUS
<1>2. ASSUME a <= b PROVE v * a <= v * b
  <2>1. PICK k \in Nat : b = a + k
    <3>1. b - a \in Nat /\ b = a + (b - a)
      BY <1>2
    <3> QED BY Zenon, <3>1
  <2>2. v * b = v * a + v * k /\ v * k \in Nat
    BY <2>1
  <2> QED BY <1>1, <2>2
<1> QED BY Zenon, <1>1, <1>2

\* At most all cores but one are ahead of a core.
LEMMA CountAbove ==
    ASSUME NEW T \in [Core -> Nat], NEW d \in Core
    PROVE  /\ IsFiniteSet(Above(T, d)) /\ Cardinality(Above(T, d)) \in Nat
           /\ Cardinality(Above(T, d)) <= NumCores - 1
<1>1. /\ IsFiniteSet(Core) /\ Cardinality(Core) = NumCores /\ NumCores \in Nat \ {0}
  <2>1. NumCores \in Nat \ {0} /\ 0 \in Int /\ NumCores - 1 \in Int /\ ~(0 > NumCores - 1)
    BY TimingAssumption
  <2>2. IsFiniteSet(0 .. NumCores - 1) /\ Cardinality(0 .. NumCores - 1) = NumCores - 1 - 0 + 1
    BY Zenon, <2>1, FS_Interval
  <2> QED BY <2>1, <2>2 DEF Core
<1>2. IsFiniteSet(Core \ {d}) /\ Cardinality(Core \ {d}) = NumCores - 1
  BY Zenon, <1>1, FS_RemoveElement
<1>3. Above(T, d) \subseteq Core \ {d}
  BY DEF Above
<1>4. IsFiniteSet(Above(T, d)) /\ Cardinality(Above(T, d)) <= Cardinality(Core \ {d})
  BY Zenon, <1>2, <1>3, FS_Subset
<1>5. Cardinality(Above(T, d)) \in Nat
  BY Zenon, <1>4, FS_CardinalityType
<1> QED BY Zenon, <1>2, <1>4, <1>5

\* The core e that is furthest behind runs alone, to at most Overshoot past the
\* time of another core: the times stay spread.
LEMMA CatchUpSpread ==
    ASSUME NEW T \in [Core -> Nat], NEW U \in [Core -> Nat], Spread(T),
           NEW e \in Core, NEW g \in Core, \A d \in Core : T[e] <= T[d],
           \A d \in Core : d # e => U[d] = T[d],
           T[e] <= U[e], U[e] <= T[g] + Overshoot
    PROVE  Spread(U)
<1> DEFINE B == MinDelay + MAX_SLICE_LENGTH
           k(d) == Cardinality(Above(T, d))
           n(d) == Cardinality(Above(U, d))
<1>1. B \in Nat /\ Overshoot \in Nat
  BY TimingAssumption
<1>2. ASSUME NEW d \in Core
      PROVE  /\ k(d) \in Nat /\ n(d) \in Nat /\ T[d] \in Nat /\ U[d] \in Nat
             /\ IsFiniteSet(Above(T, d)) /\ IsFiniteSet(Above(U, d))
  BY Zenon, CountAbove
<1>3. ASSUME NEW c \in Core, NEW d \in Core PROVE T[c] - T[d] <= B + Overshoot * k(d)
  BY Zenon DEF Spread
<1> HIDE DEF B
<1> SUFFICES ASSUME NEW c \in Core, NEW d \in Core PROVE U[c] - U[d] <= B + Overshoot * n(d)
  BY Zenon DEF Spread, B
<1>4. CASE d # e
  <2>1. Above(T, d) \subseteq Above(U, d) /\ e \notin Above(T, d) /\ U[d] = T[d]
    BY <1>2, <1>4 DEF Above
  <2>2. CASE c # e
    <3>1. k(d) <= n(d)
      BY Zenon, <1>2, <2>1, FS_Subset
    <3>2. T[c] - T[d] <= B + Overshoot * k(d) /\ Overshoot * k(d) <= Overshoot * n(d)
          /\ Overshoot * k(d) \in Nat /\ Overshoot * n(d) \in Nat /\ U[c] = T[c]
      BY Zenon, <1>1, <1>2, <1>3, <2>2, <3>1, Products
    <3> HIDE DEF k, n
    <3> QED BY <1>1, <1>2, <2>1, <3>2
  <2>3. CASE c = e /\ U[e] > U[d]
    <3>1. Above(T, d) \cup {e} \subseteq Above(U, d)
      BY Zenon, <2>1, <2>3 DEF Above
    <3>2. Cardinality(Above(T, d) \cup {e}) = k(d) + 1
      BY Zenon, <1>2, <2>1, FS_AddElement
    <3>3. k(d) + 1 <= n(d)
      BY <1>2, <3>1, <3>2, FS_Subset
    <3>4. k(d) + 1 \in Nat
      BY <1>2
    <3>5. /\ T[g] - T[d] <= B + Overshoot * k(d)
          /\ Overshoot * (k(d) + 1) <= Overshoot * n(d)
          /\ Overshoot * k(d) \in Nat /\ Overshoot * n(d) \in Nat
          /\ Overshoot * (k(d) + 1) = Overshoot * k(d) + Overshoot
      BY Zenon, <1>1, <1>2, <1>3, <3>3, <3>4, Products
    <3> HIDE DEF k, n
    <3> QED BY <1>1, <1>2, <2>1, <2>3, <3>5
  <2>4. CASE c = e /\ ~(U[e] > U[d])
    <3>1. Overshoot * n(d) \in Nat
      BY Zenon, <1>1, <1>2, Products
    <3> HIDE DEF n
    <3> QED BY <1>1, <1>2, <2>4, <3>1
  <2> QED BY Zenon, <2>2, <2>3, <2>4
<1>5. CASE d = e
  <2>1. CASE c = e
    <3>1. Overshoot * n(d) \in Nat
      BY Zenon, <1>1, <1>2, Products
    <3> HIDE DEF n
    <3> QED BY SMTT(20), <1>1, <1>2, <1>5, <2>1, <3>1
  <2>2. CASE c # e
    <3> DEFINE V == {U[e] - T[f] : f \in {x \in Core : T[x] <= U[e]}}
    <3>1. V \subseteq Nat /\ V # {}
      <4>1. ASSUME NEW f \in Core, T[f] <= U[e] PROVE U[e] - T[f] \in Nat
        <5>1. U[e] \in Nat /\ T[f] \in Nat
          BY Zenon, <1>2
        <5> QED BY <4>1, <5>1
      <4>2. U[e] - T[e] \in V
        BY Zenon
      <4> QED BY Zenon, <4>1, <4>2
    <3>2. PICK v \in V : \A w \in V : v <= w
      BY Zenon, <3>1, LeastNatural
    <3>3. PICK f \in Core : T[f] <= U[e] /\ \A x \in Core : T[x] <= U[e] => U[e] - T[f] <= U[e] - T[x]
      BY <3>2
    <3>4. Above(T, f) \subseteq Above(U, e)
      <4> SUFFICES ASSUME NEW x \in Core, T[x] > T[f] PROVE U[x] > U[e]
        BY Zenon DEF Above
      <4>1. T[e] <= T[f] /\ T[e] \in Nat /\ T[f] \in Nat
        BY Zenon, <1>2
      <4>1a. x # e
        BY <4>1
      <4>2. ~(T[x] <= U[e])
        BY <1>2, <3>3
      <4> QED BY <1>2, <4>1a, <4>2
    <3>5. k(f) <= n(e)
      BY Zenon, <1>2, <3>4, FS_Subset
    <3>6. /\ T[c] - T[f] <= B + Overshoot * k(f) /\ Overshoot * k(f) <= Overshoot * n(e)
          /\ Overshoot * k(f) \in Nat /\ Overshoot * n(e) \in Nat /\ U[c] = T[c]
      BY Zenon, <1>1, <1>2, <1>3, <2>2, <3>5, Products
    <3> HIDE DEF k, n
    <3> QED BY <1>1, <1>2, <1>5, <3>3, <3>6
  <2> QED BY Zenon, <2>1, <2>2
<1> QED BY Zenon, <1>4, <1>5

\* A round in which cores 0 to last have run, from times T to U: they started
\* within min_delay, and each has run at most Overshoot longer than the one
\* before it, since its slice is as long as that one ran.
Stepped(T, U, last) ==
    /\ \A c, d \in Core : T[c] - T[d] <= MinDelay
    /\ \A c \in Core : T[c] <= U[c] /\ (last < c => U[c] = T[c])
    /\ \A c \in Core : c <= last => U[c] - T[c] <= MAX_SLICE_LENGTH + (c + 1) * Overshoot
    /\ \A b, c \in Core :
          b < c /\ c <= last => U[c] - T[c] <= U[b] - T[b] + (c - b) * Overshoot

\* What Stepped says of two cores.
LEMMA SteppedFacts ==
    ASSUME NEW T \in [Core -> Nat], NEW U \in [Core -> Nat], NEW last \in Core, Stepped(T, U, last),
           NEW c \in Core, NEW d \in Core
    PROVE  /\ T[c] \in Nat /\ U[c] \in Nat /\ T[d] \in Nat /\ U[d] \in Nat
           /\ c \in Nat /\ d \in Nat /\ last \in Nat /\ c <= NumCores - 1 /\ d <= NumCores - 1
           /\ T[c] - T[d] <= MinDelay /\ T[d] <= U[d] /\ T[c] <= U[c]
           /\ last < c => U[c] = T[c]
           /\ c <= last =>
                 /\ Overshoot * (c + 1) \in Nat
                 /\ U[c] - T[c] <= MAX_SLICE_LENGTH + Overshoot * (c + 1)
           /\ d < c /\ c <= last =>
                 /\ c - d \in Nat /\ Overshoot * (c - d) \in Nat
                 /\ U[c] - T[c] <= U[d] - T[d] + Overshoot * (c - d)
<1>1. /\ T[c] \in Nat /\ U[c] \in Nat /\ T[d] \in Nat /\ U[d] \in Nat
  BY Zenon
<1>2. c \in Nat /\ d \in Nat /\ last \in Nat /\ c <= NumCores - 1 /\ d <= NumCores - 1
  BY TimingAssumption DEF Core
<1>3. T[c] - T[d] <= MinDelay /\ T[d] <= U[d] /\ T[c] <= U[c] /\ (last < c => U[c] = T[c])
  BY Zenon DEF Stepped
<1>4. ASSUME c <= last
      PROVE  /\ Overshoot * (c + 1) \in Nat
             /\ U[c] - T[c] <= MAX_SLICE_LENGTH + Overshoot * (c + 1)
  <2>1. U[c] - T[c] <= MAX_SLICE_LENGTH + (c + 1) * Overshoot
    BY Zenon, <1>4 DEF Stepped
  <2>2. Overshoot \in Nat
    BY Zenon, TimingAssumption
  <2>3. Overshoot * (c + 1) = (c + 1) * Overshoot /\ Overshoot * (c + 1) \in Nat
    BY <1>2, <2>2
  <2> QED BY Zenon, <2>1, <2>3
<1>5. ASSUME d < c, c <= last
      PROVE  /\ c - d \in Nat /\ Overshoot * (c - d) \in Nat
             /\ U[c] - T[c] <= U[d] - T[d] + Overshoot * (c - d)
  <2>1. U[c] - T[c] <= U[d] - T[d] + (c - d) * Overshoot
    BY Zenon, <1>5 DEF Stepped
  <2>2. Overshoot \in Nat /\ c - d \in Nat
    BY <1>2, <1>5, TimingAssumption
  <2>3. Overshoot * (c - d) = (c - d) * Overshoot /\ Overshoot * (c - d) \in Nat
    BY <2>2
  <2> QED BY Zenon, <2>1, <2>2, <2>3
<1> QED BY Zenon, <1>1, <1>2, <1>3, <1>4, <1>5

\* After a whole round the times are spread.
LEMMA RoundSpread ==
    ASSUME NEW T \in [Core -> Nat], NEW U \in [Core -> Nat], Stepped(T, U, NumCores - 1)
    PROVE  Spread(U)
<1> DEFINE B == MinDelay + MAX_SLICE_LENGTH
           n(d) == Cardinality(Above(U, d))
<1>1. B \in Nat /\ Overshoot \in Nat /\ MAX_SLICE_LENGTH \in Nat /\ MinDelay \in Nat
  BY TimingAssumption
<1>2. ASSUME NEW d \in Core
      PROVE  n(d) \in Nat /\ U[d] \in Nat /\ IsFiniteSet(Above(U, d)) /\ Overshoot * n(d) \in Nat
  <2>1. n(d) \in Nat /\ U[d] \in Nat /\ IsFiniteSet(Above(U, d))
    BY Zenon, CountAbove
  <2> QED BY Zenon, <1>1, <2>1, Products
<1> HIDE DEF n
<1> SUFFICES ASSUME NEW c \in Core, NEW d \in Core PROVE U[c] - U[d] <= B + Overshoot * n(d)
  BY Zenon DEF Spread, n
<1>3. CASE U[c] <= U[d]
  BY <1>1, <1>2, <1>3
<1>4. CASE U[c] > U[d]
  <2>0. NumCores - 1 \in Core /\ c \in 0 .. NumCores - 1 /\ c \in Nat
    BY TimingAssumption DEF Core
  <2> DEFINE A == {a \in 0 .. c : \A x \in a .. c : U[x] > U[d]}
  <2>1. A \subseteq Nat /\ c \in A
    BY <1>4, <2>0
  <2>2. PICK a \in A : \A y \in A : a <= y
    BY Zenon, <2>1, LeastNatural
  <2>3. a \in Nat /\ a <= c /\ a .. c \subseteq Core /\ \A x \in a .. c : U[x] > U[d]
    BY <2>0, <2>2, TimingAssumption DEF Core
  <2>4. c - a + 1 \in Nat
    BY <2>0, <2>3
  <2>5. c - a + 1 <= n(d)
    <3>1. a .. c \subseteq Above(U, d)
      BY Zenon, <2>3 DEF Above
    <3>2. a \in Int /\ c \in Int /\ ~(a > c)
      BY <2>0, <2>3
    <3>3. Cardinality(a .. c) = c - a + 1
      BY Zenon, <3>2, FS_Interval
    <3>4. Cardinality(a .. c) <= Cardinality(Above(U, d))
      BY Zenon, <1>2, <3>1, FS_Subset
    <3> QED BY Zenon, <3>3, <3>4 DEF n
  <2>6. /\ Overshoot * (c - a + 1) <= Overshoot * n(d)
        /\ Overshoot * n(d) \in Nat /\ Overshoot * (c - a + 1) \in Nat
    BY Zenon, <1>1, <1>2, <2>4, <2>5, Products
  <2>7. /\ T[c] \in Nat /\ U[c] \in Nat /\ T[d] \in Nat /\ U[d] \in Nat
        /\ T[c] - T[d] <= MinDelay /\ T[d] <= U[d] /\ T[c] <= U[c]
        /\ c <= NumCores - 1
        /\ c <= NumCores - 1 => U[c] - T[c] <= MAX_SLICE_LENGTH + Overshoot * (c + 1)
    BY Zenon, <2>0, SteppedFacts
  <2>8. CASE a = 0
    <3>1. c - a + 1 = c + 1
      BY <2>0, <2>8
    <3> DEFINE p == Overshoot * (c - a + 1)
               q == Overshoot * n(d)
    <3>2. p \in Nat /\ q \in Nat /\ p <= q /\ U[c] - T[c] <= MAX_SLICE_LENGTH + p
      BY Zenon, <2>6, <2>7, <3>1
    <3> HIDE DEF p
    <3> SUFFICES U[c] - U[d] <= B + q
      BY Zenon
    <3> HIDE DEF q
    <3> QED BY <1>1, <2>7, <3>2
  <2>9. CASE a # 0
    <3>1. PICK b \in Core : b = a - 1
      BY <2>0, <2>3, <2>9, TimingAssumption DEF Core
    <3>2. b < c /\ c - b = c - a + 1
      BY <2>0, <2>3, <3>1
    <3>3. U[b] <= U[d]
      <4>1. ~(a <= b) /\ b \in 0 .. c /\ \A x \in b .. c : x = b \/ x \in a .. c
        BY <2>0, <2>3, <2>9, <3>1
      <4>2. b \notin A
        BY Zenon, <2>2, <4>1
      <4>3. ~(U[b] > U[d])
        BY Zenon, <4>1, <4>2, <2>3
      <4> QED BY <1>2, <4>3
    <3>4. /\ T[b] \in Nat /\ U[b] \in Nat /\ T[c] - T[b] <= MinDelay
          /\ U[c] - T[c] <= U[b] - T[b] + Overshoot * (c - b)
      BY Zenon, <2>0, <2>7, <3>2, SteppedFacts
    <3> DEFINE p == Overshoot * (c - a + 1)
               q == Overshoot * n(d)
    <3>5. p \in Nat /\ q \in Nat /\ p <= q /\ U[c] - T[c] <= U[b] - T[b] + p
      BY Zenon, <2>6, <3>2, <3>4
    <3> HIDE DEF p
    <3> SUFFICES U[c] - U[d] <= B + q
      BY Zenon
    <3> HIDE DEF q
    <3> QED BY <1>1, <2>7, <3>3, <3>4, <3>5
  <2> QED BY Zenon, <2>8, <2>9
<1> QED BY <1>2, <1>3, <1>4

\* Times that are spread are as close as CoresStayTogether says...
LEMMA SpreadTogether ==
    ASSUME NEW U \in [Core -> Nat], Spread(U), NEW c \in Core, NEW d \in Core
    PROVE  U[c] - U[d] <= MinDelay + Lead
<1> DEFINE n == Cardinality(Above(U, d))
<1>1. n \in Nat /\ n <= NumCores - 1 /\ U[c] \in Nat /\ U[d] \in Nat
  BY Zenon, CountAbove
<1>2. U[c] - U[d] <= MinDelay + MAX_SLICE_LENGTH + Overshoot * n
  BY Zenon DEF Spread
<1> HIDE DEF n
<1>3. /\ MinDelay \in Nat /\ MAX_SLICE_LENGTH \in Nat /\ Overshoot \in Nat /\ NumCores - 1 \in Nat
  BY TimingAssumption
<1>4. /\ Overshoot * n <= Overshoot * (NumCores - 1) /\ Overshoot * n \in Nat
      /\ Overshoot * (NumCores - 1) \in Nat
  BY Zenon, <1>1, <1>3, Products
<1>5. (NumCores - 1) * Overshoot = Overshoot * (NumCores - 1)
  BY <1>3
<1> QED BY <1>1, <1>2, <1>3, <1>4, <1>5 DEF Lead

\* ... and so are the times during a round.
LEMMA RoundTogether ==
    ASSUME NEW T \in [Core -> Nat], NEW U \in [Core -> Nat], NEW last \in Core, Stepped(T, U, last),
           NEW c \in Core, NEW d \in Core
    PROVE  U[c] - U[d] <= MinDelay + Lead
<1>1. /\ MinDelay \in Nat /\ MAX_SLICE_LENGTH \in Nat /\ Overshoot \in Nat /\ NumCores - 1 \in Nat
  BY TimingAssumption
<1>2. /\ T[c] \in Nat /\ U[c] \in Nat /\ T[d] \in Nat /\ U[d] \in Nat
      /\ c \in Nat /\ d \in Nat /\ last \in Nat /\ c <= NumCores - 1 /\ d <= NumCores - 1
      /\ T[c] - T[d] <= MinDelay /\ T[d] <= U[d] /\ T[c] <= U[c]
  BY Zenon, SteppedFacts
<1> DEFINE q == Overshoot * (NumCores - 1)
<1>3. q \in Nat /\ Lead = MAX_SLICE_LENGTH + q
  BY <1>1 DEF Lead
<1>4. ASSUME NEW k \in Nat, k <= NumCores - 1 PROVE Overshoot * k <= q /\ Overshoot * k \in Nat
  BY Zenon, <1>1, <1>4, Products
<1> HIDE DEF q
<1>5. CASE last < c \/ c = d
  <2>1. last < c => U[c] = T[c]
    BY SteppedFacts
  <2> QED BY <1>1, <1>2, <1>3, <1>5, <2>1
<1>6. CASE c <= last /\ d < c
  <2> DEFINE p == Overshoot * (c - d)
  <2>1. U[c] - T[c] <= U[d] - T[d] + p
    BY Zenon, <1>6, SteppedFacts
  <2>2. c - d \in Nat /\ c - d <= NumCores - 1
    BY <1>1, <1>2, <1>6
  <2>3. p <= q /\ p \in Nat
    BY Zenon, <1>4, <2>2
  <2> HIDE DEF p
  <2> QED BY <1>1, <1>2, <1>3, <2>1, <2>3
<1>7. CASE c <= last /\ c < d
  <2> DEFINE p == Overshoot * (c + 1)
  <2>1. U[c] - T[c] <= MAX_SLICE_LENGTH + p
    BY Zenon, <1>7, SteppedFacts
  <2>2. c + 1 \in Nat /\ c + 1 <= NumCores - 1
    BY <1>1, <1>2, <1>7
  <2>3. p <= q /\ p \in Nat
    BY Zenon, <1>4, <2>2
  <2> HIDE DEF p
  <2> QED BY <1>1, <1>2, <1>3, <2>1, <2>3
<1> QED BY <1>2, <1>5, <1>6, <1>7

-----------------------------------------------------------------------------
(* The invariant that keeps the cores together *)

\* The time of each core.
Times == [c \in Core |-> Progress(c)]

\* The times before the core that runs started.
Bases == [c \in Core |-> IF pc = "run" /\ c = core THEN executed_ticks[c] ELSE Progress(c)]

\* The times if the core that runs uses its slice up and overshoots.
Peaks ==
    [c \in Core |-> IF c = core THEN executed_ticks[c] + slice_length[c] + Overshoot
                                ELSE Progress(c)]

\* A timer that is_timer_sane has executed nothing of its slice, so GetTicks()
\* tells its time. This is what is lost when a state is loaded.
ClocksExact ==
    \A c \in Core :
        /\ is_timer_sane[c] => downcount[c] = slice_length[c]
        /\ -Overshoot <= downcount[c]

\* The first loop: some core is at global_ticks, and those the loop has passed
\* are at most max_delay behind.
DelaysExact ==
    catching_up /\ pc \in {"sync", "choose", "events", "callback", "slice"} =>
        /\ \A c \in Core : Progress(c) <= global_ticks
        /\ \E g \in Core : Progress(g) = global_ticks
        /\ \A c \in Core : c < core \/ pc = "choose" => global_ticks - Progress(c) <= max_delay
        /\ pc \in {"events", "callback", "slice"} => delay = global_ticks - Progress(core)

\* The core chosen so far is max_delay behind and its slice ends no later than
\* global_ticks.
ChosenExact ==
    catching_up /\ current_core_to_execute # nullptr =>
        /\ max_delay = global_ticks - Progress(current_core_to_execute)
        /\ slice_length[current_core_to_execute] <= max_delay
        /\ downcount[current_core_to_execute] = slice_length[current_core_to_execute]

\* While cores catch up the times are spread; the one that runs was the furthest
\* behind and its slice reaches no further than some other core.
CatchUp ==
    catching_up =>
        /\ Spread(Bases)
        /\ pc = "run" =>
              /\ \A d \in Core : Bases[core] <= Bases[d]
              /\ \E g \in Core : executed_ticks[core] + slice_length[core] <= Bases[g]

\* A round starts within min_delay and with slices of at most MAX_SLICE_LENGTH.
Round ==
    /\ catching_up \/ pc # "run" => max_slice <= MAX_SLICE_LENGTH
    /\ ~catching_up /\ pc # "run" => \A c, d \in Core : Progress(c) - Progress(d) <= MinDelay
    /\ ~catching_up /\ pc = "run" => Stepped(executed_ticks, Peaks, core)

Paced == ClocksExact /\ DelaysExact /\ ChosenExact /\ CatchUp /\ Round

\* The last core may have run shorter...
LEMMA SteppedDown ==
    ASSUME NEW T \in [Core -> Nat], NEW U \in [Core -> Nat], NEW W \in [Core -> Nat],
           NEW last \in Core, Stepped(T, U, last),
           \A c \in Core : c # last => W[c] = U[c], T[last] <= W[last], W[last] <= U[last]
    PROVE  Stepped(T, W, last)
<1>1. \A c \in Core : T[c] \in Nat /\ U[c] \in Nat /\ W[c] \in Nat /\ c \in Nat
  BY TimingAssumption DEF Core
<1>2. \A c, d \in Core : T[c] - T[d] <= MinDelay
  BY Zenon DEF Stepped
<1>3. ASSUME NEW c \in Core PROVE T[c] <= W[c] /\ (last < c => W[c] = T[c]) /\ W[c] <= U[c]
  <2>1. T[c] <= U[c] /\ (last < c => U[c] = T[c])
    BY Zenon DEF Stepped
  <2> QED BY <1>1, <2>1
<1>4. ASSUME NEW c \in Core, c <= last
      PROVE  W[c] - T[c] <= MAX_SLICE_LENGTH + (c + 1) * Overshoot
  <2> DEFINE p == MAX_SLICE_LENGTH + (c + 1) * Overshoot
  <2>1. U[c] - T[c] <= p
    BY Zenon, <1>4 DEF Stepped
  <2>2. p \in Int
    BY <1>1, TimingAssumption
  <2> HIDE DEF p
  <2>3. W[c] - T[c] <= p
    BY <1>1, <1>3, <2>1, <2>2
  <2> QED BY Zenon, <2>3 DEF p
<1>5. ASSUME NEW b \in Core, NEW c \in Core, b < c, c <= last
      PROVE  W[c] - T[c] <= W[b] - T[b] + (c - b) * Overshoot
  <2> DEFINE p == (c - b) * Overshoot
  <2>1. U[c] - T[c] <= U[b] - T[b] + p
    BY Zenon, <1>5 DEF Stepped
  <2>2. p \in Int
    BY <1>1, TimingAssumption
  <2>3. b # last
    BY <1>1, <1>5
  <2> HIDE DEF p
  <2>4. W[c] - T[c] <= W[b] - T[b] + p
    BY <1>1, <1>3, <2>1, <2>2, <2>3
  <2> QED BY Zenon, <2>4 DEF p
<1> QED BY Zenon, <1>2, <1>3, <1>4, <1>5 DEF Stepped

\* ... and the next one may run, for as long and what it overshoots.
LEMMA SteppedUp ==
    ASSUME NEW T \in [Core -> Nat], NEW U \in [Core -> Nat], NEW W \in [Core -> Nat],
           NEW last \in Core, NEW next \in Core, next = last + 1, Stepped(T, U, last),
           \A c \in Core : c # next => W[c] = U[c], T[next] <= W[next],
           W[next] - T[next] <= U[last] - T[last] + Overshoot
    PROVE  Stepped(T, W, next)
<1>1. /\ \A c \in Core : T[c] \in Nat /\ U[c] \in Nat /\ W[c] \in Nat /\ c \in Nat
      /\ Overshoot \in Nat /\ MAX_SLICE_LENGTH \in Nat
  BY SMTT(20), TimingAssumption DEF Core
<1>2. \A c, d \in Core : T[c] - T[d] <= MinDelay
  BY Zenon DEF Stepped
<1>3. ASSUME NEW c \in Core PROVE T[c] <= W[c] /\ (next < c => W[c] = T[c])
  <2>1. T[c] <= U[c] /\ (last < c => U[c] = T[c])
    BY Zenon DEF Stepped
  <2> QED BY <1>1, <2>1
<1>4. ASSUME NEW c \in Core, c <= next
      PROVE  W[c] - T[c] <= MAX_SLICE_LENGTH + (c + 1) * Overshoot
  <2>1. CASE c # next
    <3>1. c <= last /\ W[c] = U[c]
      BY <1>1, <1>4, <2>1
    <3> QED BY Zenon, <3>1 DEF Stepped
  <2>2. CASE c = next
    <3> DEFINE p == (last + 1) * Overshoot
               q == (c + 1) * Overshoot
    <3>1. last <= last
      BY <1>1
    <3>2. U[last] - T[last] <= MAX_SLICE_LENGTH + p
      BY Zenon, <3>1 DEF Stepped
    <3>3. p \in Nat /\ q = p + Overshoot
      BY <1>1, <2>2
    <3> HIDE DEF p, q
    <3>4. W[c] - T[c] <= MAX_SLICE_LENGTH + q
      BY <1>1, <2>2, <3>2, <3>3
    <3> QED BY Zenon, <3>4 DEF q
  <2> QED BY Zenon, <2>1, <2>2
<1>5. ASSUME NEW b \in Core, NEW c \in Core, b < c, c <= next
      PROVE  W[c] - T[c] <= W[b] - T[b] + (c - b) * Overshoot
  <2>0. b # next /\ W[b] = U[b] /\ b <= last
    BY <1>1, <1>5
  <2>1. CASE c # next
    <3>1. c <= last /\ W[c] = U[c]
      BY <1>1, <1>5, <2>1
    <3>2. U[c] - T[c] <= U[b] - T[b] + (c - b) * Overshoot
      BY Zenon, <1>5, <3>1 DEF Stepped
    <3> QED BY Zenon, <2>0, <3>1, <3>2
  <2>2. CASE c = next
    <3> DEFINE p == (last - b) * Overshoot
               q == (c - b) * Overshoot
    <3>1. U[last] - T[last] <= U[b] - T[b] + p
      <4>1. CASE b = last
        <5>1. p = 0
          BY <1>1, <4>1
        <5> HIDE DEF p
        <5> QED BY <1>1, <4>1, <5>1
      <4>2. CASE b # last
        <5>1. b < last /\ last <= last
          BY <1>1, <2>0, <4>2
        <5> QED BY Zenon, <5>1 DEF Stepped
      <4> QED BY Zenon, <4>1, <4>2
    <3>2. p \in Int /\ q = p + Overshoot
      BY <1>1, <2>0, <2>2
    <3> HIDE DEF p, q
    <3>3. W[c] - T[c] <= W[b] - T[b] + q
      BY <1>1, <2>0, <2>2, <3>1, <3>2
    <3> QED BY Zenon, <3>3 DEF q
  <2> QED BY Zenon, <2>1, <2>2
<1> QED BY Zenon, <1>2, <1>3, <1>4, <1>5 DEF Stepped

\* The types of the clocks and of the times.
LEMMA TimeFacts ==
    ASSUME Inv, NEW c \in Core
    PROVE  /\ executed_ticks[c] \in Nat /\ slice_length[c] \in Nat /\ downcount[c] \in Int
           /\ downcount[c] <= slice_length[c] /\ slice_length[c] - downcount[c] \in Nat
           /\ Progress(c) = executed_ticks[c] + (slice_length[c] - downcount[c])
           /\ Progress(c) \in Nat /\ executed_ticks[c] <= Progress(c)
           /\ Times \in [Core -> Nat] /\ Bases \in [Core -> Nat] /\ Times[c] = Progress(c)
           /\ Bases[c] = IF pc = "run" /\ c = core THEN executed_ticks[c] ELSE Progress(c)
<1>1. ASSUME NEW d \in Core
      PROVE  /\ executed_ticks[d] \in Nat /\ slice_length[d] \in Nat /\ downcount[d] \in Int
             /\ downcount[d] <= slice_length[d]
  BY Zenon DEF Inv, TypeOK
<1>2. ASSUME NEW d \in Core
      PROVE  /\ slice_length[d] - downcount[d] \in Nat /\ Progress(d) \in Nat
             /\ executed_ticks[d] <= Progress(d)
             /\ Progress(d) = executed_ticks[d] + (slice_length[d] - downcount[d])
  BY <1>1 DEF Progress
<1>3. Times \in [Core -> Nat] /\ Bases \in [Core -> Nat]
  BY Zenon, <1>1, <1>2 DEF Times, Bases
<1> QED BY Zenon, <1>1, <1>2, <1>3 DEF Times, Bases

\* The same for the times that may be reached.
LEMMA PeaksTyped == Inv => /\ Peaks \in [Core -> Nat] /\ executed_ticks \in [Core -> Nat]
                           /\ core \in Core
<1> SUFFICES ASSUME Inv PROVE Peaks \in [Core -> Nat]
  BY Zenon DEF Inv, TypeOK
<1>1. Overshoot \in Nat
  BY Zenon, TimingAssumption
<1> QED BY <1>1, TimeFacts DEF Peaks

\* GetTicks() tells the time of a core.
LEMMA TicksExact ==
    ASSUME Inv, ClocksExact, NEW c \in Core
    PROVE  GetTicks(c) = Progress(c)
<1>1. is_timer_sane[c] => downcount[c] = slice_length[c]
  BY Zenon DEF ClocksExact
<1> QED BY <1>1, TimeFacts DEF GetTicks

\* A step of the loops during which no core runs keeps the times.
LEMMA LoopFrame ==
    ASSUME Inv, Inv', [Next]_vars, CatchUp, Round, pc # "run", pc' # "run",
           catching_up' = catching_up, max_slice' \in Nat, max_slice' <= max_slice
    PROVE  CatchUp' /\ Round'
<1>1. ASSUME NEW c \in Core PROVE Progress(c)' = Progress(c)
  BY Zenon, NextTime DEF TimeStep
<1>2. Bases' = Bases
  BY Zenon, <1>1 DEF Bases
<1>3. CatchUp'
  BY Zenon, <1>2 DEF CatchUp
<1>4. max_slice' <= MAX_SLICE_LENGTH
  <2>1. max_slice <= MAX_SLICE_LENGTH /\ max_slice \in Nat /\ MAX_SLICE_LENGTH \in Nat
    BY Zenon, TimingAssumption DEF Round, Inv, TypeOK
  <2> QED BY <2>1
<1>5. ASSUME ~catching_up PROVE \A c, d \in Core : Progress(c)' - Progress(d)' <= MinDelay
  BY Zenon, <1>1, <1>5 DEF Round
<1>6. Round'
  BY Zenon, <1>4, <1>5 DEF Round
<1> QED BY Zenon, <1>3, <1>6

\* A step of the core that runs which does not lengthen its slice.
LEMMA RunFrame ==
    ASSUME Inv, Inv', CatchUp, Round, pc = "run", pc' = "run", core' = core,
           catching_up' = catching_up, max_slice' = max_slice, executed_ticks' = executed_ticks,
           slice_length'[core] <= slice_length[core],
           \A c \in Core : c # core => /\ slice_length'[c] = slice_length[c]
                                       /\ downcount'[c] = downcount[c]
    PROVE  CatchUp' /\ Round'
<1>1. ASSUME NEW c \in Core, c # core PROVE Progress(c)' = Progress(c)
  BY Zenon, <1>1 DEF Progress
<1>2. core \in Core /\ executed_ticks \in [Core -> Nat] /\ Peaks \in [Core -> Nat] /\ Overshoot \in Nat
  BY Zenon, PeaksTyped, TimingAssumption
<1>3. /\ executed_ticks[core] \in Nat /\ slice_length[core] \in Nat /\ slice_length'[core] \in Nat
      /\ \A g \in Core : Bases[g] \in Nat /\ Progress(g) \in Nat
  <2>1. slice_length'[core] \in Nat
    BY Zenon, <1>2 DEF Inv, TypeOK
  <2> QED BY Zenon, <1>2, <2>1, TimeFacts
<1>4. Peaks' \in [Core -> Nat] /\ Bases' = Bases
  <2>1. Peaks' \in [Core -> Nat]
    BY <1>1, <1>2, <1>3 DEF Peaks
  <2>2. Bases' = Bases
    BY Zenon, <1>1 DEF Bases
  <2> QED BY Zenon, <2>1, <2>2
<1>5. CatchUp'
  <2> SUFFICES ASSUME catching_up PROVE CatchUp'
    BY Zenon DEF CatchUp
  <2>1. /\ Spread(Bases) /\ \A d \in Core : Bases[core] <= Bases[d]
    BY Zenon DEF CatchUp
  <2>2. PICK g \in Core : executed_ticks[core] + slice_length[core] <= Bases[g]
    BY Zenon DEF CatchUp
  <2>3. executed_ticks[core] + slice_length'[core] <= Bases[g]
    BY <1>3, <2>2
  <2> QED BY Zenon, <1>4, <2>1, <2>3 DEF CatchUp
<1>6. Round'
  <2>1. CASE catching_up
    BY Zenon, <2>1 DEF Round
  <2>2. CASE ~catching_up
    <3>1. Stepped(executed_ticks, Peaks, core)
      BY Zenon, <2>2 DEF Round
    <3>2. \A c \in Core : c # core => Peaks'[c] = Peaks[c]
      BY Zenon, <1>1 DEF Peaks
    <3>3. /\ Peaks[core] = executed_ticks[core] + slice_length[core] + Overshoot
          /\ Peaks'[core] = executed_ticks[core] + slice_length'[core] + Overshoot
      BY Zenon, <1>2 DEF Peaks
    <3>4. executed_ticks[core] <= Peaks'[core] /\ Peaks'[core] <= Peaks[core]
      BY <1>2, <1>3, <3>3
    <3>5. Stepped(executed_ticks, Peaks', core)
      BY Zenon, <1>2, <1>4, <3>1, <3>2, <3>4, SteppedDown
    <3> QED BY Zenon, <2>2, <3>5 DEF Round
  <2> QED BY Zenon, <2>1, <2>2
<1> QED BY Zenon, <1>5, <1>6

-----------------------------------------------------------------------------
(* The steps keep the cores paced *)

\* RunLoop takes the time of the core that is furthest ahead.
LEMMA PacedStart ==
    ASSUME Inv, Inv', [Next]_vars, Paced, Start
    PROVE  Paced'
<1>1. /\ pc = "start" /\ pc' = "sync" /\ catching_up /\ core = 0 /\ current_core_to_execute = nullptr
      /\ global_ticks' = GetGlobalTicks
      /\ UNCHANGED <<executed_ticks, slice_length, downcount, is_timer_sane, ts_queue, core,
                     max_delay, current_core_to_execute, max_slice, catching_up>>
  BY Zenon DEF Start, clockVars, queueVars, sliceVars, Inv, SyncSound
<1>2. ClocksExact'
  BY Zenon, <1>1 DEF Paced, ClocksExact
<1>3. CatchUp' /\ Round'
  <2>1. max_slice \in Nat /\ max_slice <= max_slice
    BY DEF Inv, TypeOK
  <2> QED BY Zenon, <1>1, <2>1, LoopFrame DEF Paced
<1>4. \A c \in Core : Progress(c)' = Progress(c) /\ GetTicks(c) = Progress(c) /\ ~(c < 0)
  BY <1>1, TicksExact, TimingAssumption DEF Paced, Progress, Core
<1>5. /\ \A c \in Core : GetTicks(c) <= GetGlobalTicks
      /\ \E c \in Core : GetTicks(c) = GetGlobalTicks
  BY Zenon, GlobalTicks DEF Inv
<1>6. DelaysExact'
  BY Zenon, <1>1, <1>4, <1>5 DEF DelaysExact
<1>7. ChosenExact'
  BY <1>1 DEF ChosenExact
<1> QED BY <1>2, <1>3, <1>6, <1>7 DEF Paced

\* A core that is not behind.
LEMMA PacedSkip ==
    ASSUME Inv, Inv', [Next]_vars, Paced, SyncSkip
    PROVE  Paced'
<1>1. /\ pc = "sync" /\ catching_up /\ GetTicks(core) >= global_ticks
      /\ core = NumCores - 1 => pc' = "choose" /\ core' = 0
      /\ core # NumCores - 1 => pc' = "sync" /\ core' = core + 1
      /\ UNCHANGED <<executed_ticks, slice_length, downcount, is_timer_sane, ts_queue, global_ticks,
                     delay, max_delay, current_core_to_execute, max_slice, catching_up>>
  BY Zenon DEF SyncSkip, NextCore, clockVars, queueVars, delayVars, sliceVars, Inv, SyncSound
<1>2. ClocksExact'
  BY Zenon, <1>1 DEF Paced, ClocksExact
<1>3. CatchUp' /\ Round'
  <2>1. max_slice \in Nat /\ max_slice <= max_slice
    BY DEF Inv, TypeOK
  <2> QED BY <1>1, <2>1, LoopFrame DEF Paced
<1>4. \A c \in Core : Progress(c)' = Progress(c)
  BY Zenon, <1>1 DEF Progress
<1>5. core \in Core /\ core \in Nat /\ global_ticks \in Nat /\ max_delay \in Nat
  BY TimingAssumption DEF Inv, TypeOK, Core
<1>6. /\ \A c \in Core : Progress(c) <= global_ticks
      /\ \E g \in Core : Progress(g) = global_ticks
      /\ \A c \in Core : c < core => global_ticks - Progress(c) <= max_delay
  BY Zenon, <1>1 DEF Paced, DelaysExact
<1>7. \A c \in Core : Progress(c) \in Nat /\ c \in 0 .. NumCores - 1
  BY Zenon, TimeFacts DEF Core
<1>8. Progress(core) >= global_ticks
  BY Zenon, <1>1, <1>5, TicksExact DEF Paced
<1>9. \A c \in Core : c <= core => global_ticks - Progress(c) <= max_delay
  <2> SUFFICES ASSUME NEW c \in Core, c <= core PROVE global_ticks - Progress(c) <= max_delay
    BY Zenon
  <2>1. CASE c = core
    BY <1>5, <1>7, <1>8, <2>1
  <2>2. CASE c # core
    BY SMTT(20), <1>5, <1>6, <1>7, <2>2
  <2> QED BY Zenon, <2>1, <2>2
<1>10. DelaysExact'
  <2>1. \A c \in Core : c < core' \/ pc' = "choose" => c <= core
    BY <1>1, <1>5, <1>7, TimingAssumption
  <2>2. pc' \notin {"events", "callback", "slice"}
    BY Zenon, <1>1
  <2> QED BY <1>1, <1>4, <1>6, <1>9, <2>1, <2>2 DEF DelaysExact
<1>11. ChosenExact'
  <2>1. current_core_to_execute # nullptr => current_core_to_execute \in Core
    BY Zenon DEF Inv, TypeOK
  <2> QED BY <1>1, <1>4, <2>1 DEF Paced, ChosenExact
<1> QED BY Zenon, <1>2, <1>3, <1>10, <1>11 DEF Paced

\* Advance() counts what was executed: the time stays.
LEMMA PacedBegin ==
    ASSUME Inv, Inv', Paced, BeginAdvance(core)
    PROVE  ClocksExact' /\ \A c \in Core : Progress(c)' = Progress(c)
<1>1. TimersSound /\ core \in Core
  BY Zenon, InvParts DEF Inv, TypeOK
<1>2. /\ slice_length'[core] = 0 /\ downcount'[core] = 0
      /\ \A d \in Core : d # core => /\ is_timer_sane'[d] = is_timer_sane[d]
                                     /\ slice_length'[d] = slice_length[d]
                                     /\ downcount'[d] = downcount[d]
  BY Zenon, <1>1, BeginAdvanceSound
<1>3. \A c \in Core : Progress(c)' = Progress(c)
  BY Zenon, <1>1, BeginAdvanceTime
<1>4. ClocksExact'
  <2> SUFFICES ASSUME NEW c \in Core
               PROVE  /\ is_timer_sane'[c] => downcount'[c] = slice_length'[c]
                      /\ -Overshoot <= downcount'[c]
    BY Zenon DEF ClocksExact
  <2>1. CASE c = core
    <3>1. Overshoot \in Nat
      BY Zenon, TimingAssumption
    <3> QED BY <1>2, <2>1, <3>1
  <2>2. CASE c # core
    BY Zenon, <1>2, <2>2 DEF Paced, ClocksExact
  <2> QED BY Zenon, <2>1, <2>2
<1> QED BY Zenon, <1>3, <1>4

\* A core that is behind is advanced.
LEMMA PacedSyncAdvance ==
    ASSUME Inv, Inv', [Next]_vars, Paced, SyncAdvance
    PROVE  Paced'
<1>1. /\ pc = "sync" /\ pc' = "events" /\ catching_up
      /\ delay' = global_ticks - GetTicks(core) /\ BeginAdvance(core)
      /\ UNCHANGED <<core, global_ticks, max_delay, current_core_to_execute, max_slice, catching_up>>
  BY Zenon DEF SyncAdvance, sliceVars, Inv, SyncSound
<1>2. ClocksExact' /\ \A c \in Core : Progress(c)' = Progress(c)
  BY Zenon, <1>1, PacedBegin
<1>3. CatchUp' /\ Round'
  <2>1. max_slice \in Nat /\ max_slice <= max_slice
    BY DEF Inv, TypeOK
  <2> QED BY <1>1, <2>1, LoopFrame DEF Paced
<1>4. core \in Core /\ GetTicks(core) = Progress(core)
  BY Zenon, TicksExact DEF Inv, TypeOK, Paced
<1>5. DelaysExact'
  BY <1>1, <1>2, <1>4 DEF Paced, DelaysExact
<1>6. ChosenExact'
  <2> SUFFICES ASSUME current_core_to_execute # nullptr PROVE ChosenExact'
    BY Zenon, <1>1 DEF ChosenExact
  <2>1. current_core_to_execute \in Core /\ current_core_to_execute < core
    BY Zenon, <1>1 DEF Inv, TypeOK, SyncSound
  <2>2. current_core_to_execute # core
    BY <1>4, <2>1, TimingAssumption DEF Core
  <2>3. /\ slice_length'[current_core_to_execute] = slice_length[current_core_to_execute]
        /\ downcount'[current_core_to_execute] = downcount[current_core_to_execute]
    BY <1>1, <1>4, <2>1, <2>2, InvParts, BeginAdvanceSound
  <2> QED BY <1>1, <1>2, <2>1, <2>3 DEF Paced, ChosenExact
<1> QED BY <1>2, <1>3, <1>5, <1>6 DEF Paced

\* All cores are advanced before a round.
LEMMA PacedAdvanceCore ==
    ASSUME Inv, Inv', [Next]_vars, Paced, AdvanceCore
    PROVE  Paced'
<1>1. /\ pc = "advance" /\ pc' = "events" /\ ~catching_up /\ BeginAdvance(core)
      /\ UNCHANGED <<max_slice, catching_up>>
  BY Zenon DEF AdvanceCore, sliceVars, Inv, SyncSound
<1>2. ClocksExact'
  BY Zenon, <1>1, PacedBegin
<1>3. CatchUp' /\ Round'
  <2>1. max_slice \in Nat /\ max_slice <= max_slice
    BY DEF Inv, TypeOK
  <2> QED BY <1>1, <2>1, LoopFrame DEF Paced
<1>4. DelaysExact' /\ ChosenExact'
  BY Zenon, <1>1 DEF DelaysExact, ChosenExact
<1> QED BY Zenon, <1>2, <1>3, <1>4 DEF Paced

\* The events that Advance() handles.
LEMMA PacedEvents ==
    ASSUME Inv, Inv', [Next]_vars, Paced, FireEvent \/ CallbackReturns \/ EndAdvance
    PROVE  Paced'
<1>1. /\ pc \in {"events", "callback"} /\ pc' \in {"events", "callback", "slice"}
      /\ UNCHANGED <<executed_ticks, slice_length, downcount, ts_queue, core, global_ticks,
                     delay, max_delay, current_core_to_execute, max_slice, catching_up>>
  BY Zenon DEF FireEvent, CallbackReturns, EndAdvance, clockVars, queueVars, loopVars, delayVars, sliceVars
<1>2. \A c \in Core : is_timer_sane'[c] => is_timer_sane[c]
  BY Zenon DEF FireEvent, CallbackReturns, EndAdvance, clockVars, Inv, TypeOK
<1>3. ClocksExact'
  BY Zenon, <1>1, <1>2 DEF Paced, ClocksExact
<1>4. CatchUp' /\ Round'
  <2>1. max_slice \in Nat /\ max_slice <= max_slice
    BY DEF Inv, TypeOK
  <2> QED BY Zenon, <1>1, <2>1, LoopFrame DEF Paced
<1>5. \A c \in Core : Progress(c)' = Progress(c)
  BY Zenon, <1>1 DEF Progress
<1>6. core \in Core /\ (current_core_to_execute # nullptr => current_core_to_execute \in Core)
  BY Zenon DEF Inv, TypeOK
<1>7. DelaysExact'
  BY <1>1, <1>5, <1>6 DEF Paced, DelaysExact
<1>8. ChosenExact'
  BY Zenon, <1>1, <1>5, <1>6 DEF Paced, ChosenExact
<1> QED BY <1>3, <1>4, <1>7, <1>8 DEF Paced

\* The core that is furthest behind runs, or all are within min_delay.
LEMMA PacedChoose ==
    ASSUME Inv, Inv', Paced, Choose
    PROVE  Paced'
<1>1. /\ pc = "choose" /\ catching_up /\ global_ticks \in Nat /\ max_delay \in Nat
      /\ current_core_to_execute' = nullptr
      /\ UNCHANGED <<executed_ticks, slice_length, downcount, is_timer_sane, ts_queue, max_slice>>
  BY Zenon DEF Choose, SyncOver, clockVars, queueVars, sliceVars, Inv, SyncSound, TypeOK
<1>2. ClocksExact' /\ ChosenExact'
  BY Zenon, <1>1 DEF Paced, ClocksExact, ChosenExact
<1>3. \A c \in Core : /\ Progress(c)' = Progress(c) /\ Progress(c) \in Nat
                      /\ Progress(c) <= global_ticks /\ global_ticks - Progress(c) <= max_delay
  BY Zenon, <1>1, TimeFacts DEF Progress, Paced, DelaysExact
<1>4. MinDelay \in Nat /\ Spread(Bases) /\ max_slice <= MAX_SLICE_LENGTH
  BY Zenon, <1>1, TimingAssumption DEF Paced, CatchUp, Round
<1>5. CASE max_delay > MinDelay
  <2>1. pc' = "run" /\ core' = current_core_to_execute /\ catching_up'
    BY Zenon, <1>1, <1>5 DEF Choose
  <2>2. max_delay > 0
    BY <1>1, <1>4, <1>5
  <2>3. PICK e \in Core : e = current_core_to_execute
    BY Zenon, <2>2 DEF Inv, SyncSound, TypeOK
  <2>4. /\ max_delay = global_ticks - Progress(e) /\ slice_length[e] <= max_delay
        /\ downcount[e] = slice_length[e]
    BY <1>1, <2>3 DEF Paced, ChosenExact, nullptr, Core
  <2>5. executed_ticks[e] = Progress(e) /\ executed_ticks[e] \in Nat /\ slice_length[e] \in Nat
    BY SMTT(20), <2>4, TimeFacts
  <2>6. \A c \in Core : Bases'[c] = Progress(c)
    BY SMTT(20), <1>1, <1>3, <2>1, <2>3, <2>5 DEF Bases
  <2>7. Bases' = Bases
    BY SMTT(20), <1>1, <1>3, <2>1, <2>3, <2>5 DEF Bases
  <2>8. \A d \in Core : Bases'[e] <= Bases'[d]
    BY <1>1, <1>3, <2>4, <2>6
  <2>9. PICK g \in Core : Progress(g) = global_ticks
    BY Zenon, <1>1 DEF Paced, DelaysExact
  <2>10. executed_ticks[e] + slice_length[e] <= Bases'[g]
    BY SMTT(20), <1>1, <1>3, <2>4, <2>5, <2>6, <2>9
  <2>11. CatchUp'
    BY SMTT(20), <1>1, <1>4, <2>1, <2>3, <2>7, <2>8, <2>10 DEF CatchUp
  <2>12. Round' /\ DelaysExact'
    BY <1>1, <1>4, <2>1 DEF Round, DelaysExact
  <2> QED BY Zenon, <1>2, <2>11, <2>12 DEF Paced
<1>6. CASE ~(max_delay > MinDelay)
  <2>1. pc' = "advance" /\ ~catching_up'
    BY Zenon, <1>1, <1>6 DEF Choose
  <2>2. ASSUME NEW c \in Core, NEW d \in Core PROVE Progress(c)' - Progress(d)' <= MinDelay
    <3>1. /\ Progress(c)' = Progress(c) /\ Progress(d)' = Progress(d) /\ Progress(c) \in Nat
          /\ Progress(d) \in Nat /\ Progress(c) <= global_ticks
          /\ global_ticks - Progress(d) <= max_delay
      BY Zenon, <1>3
    <3> QED BY <1>1, <1>4, <1>6, <3>1
  <2>3. CatchUp' /\ Round' /\ DelaysExact'
    BY Zenon, <1>1, <1>4, <2>1, <2>2 DEF CatchUp, Round, DelaysExact
  <2> QED BY Zenon, <1>2, <2>3 DEF Paced
<1> QED BY <1>5, <1>6

\* An event after the end of a slice is after its beginning.
LEMMA SumBelow ==
    ASSUME NEW a \in Nat, NEW b \in Nat, NEW z \in Int, a + b <= z
    PROVE  a <= z
OBVIOUS

\* SetNextSlice() gives a timer that has executed nothing a slice of at most the
\* length asked for, and leaves the time and the other timers alone...
LEMMA SetNextSliceBounds ==
    ASSUME Inv, NEW d \in Core, NEW limit \in Nat, Fresh(d), SetNextSlice(d, limit),
           executed_ticks' = executed_ticks
    PROVE  /\ slice_length'[d] \in Nat /\ slice_length'[d] <= limit
           /\ downcount'[d] = slice_length'[d]
           /\ \A c \in Core : c # d => slice_length'[c] = slice_length[c] /\ downcount'[c] = downcount[c]
           /\ \A c \in Core : Progress(c)' = Progress(c)
<1>1. TypeOK /\ TimersSound
  BY Zenon, InvParts DEF Inv
<1>2. /\ slice_length \in [Core -> Nat] /\ downcount \in [Core -> Int]
      /\ \A e \in event_queue[d] : executed_ticks[d] <= e.time
  <2>1. \A e \in event_queue[d] : executed_ticks[d] + slice_length[d] <= e.time
    BY Zenon DEF Inv, SliceEndsByNextEvent, Fresh, Advanced
  <2>2. executed_ticks[d] \in Nat /\ slice_length[d] \in Nat /\ \A e \in event_queue[d] : e.time \in Int
    BY SMTT(20), <1>1 DEF TypeOK, Event
  <2>3. ASSUME NEW e \in event_queue[d] PROVE executed_ticks[d] <= e.time
    <3>1. /\ executed_ticks[d] + slice_length[d] <= e.time
          /\ executed_ticks[d] \in Nat /\ slice_length[d] \in Nat /\ e.time \in Int
      BY Zenon, <2>1, <2>2
    <3> QED BY Zenon, <3>1, SumBelow
  <2> QED BY Zenon, <1>1, <2>3 DEF TypeOK
<1> DEFINE n == UpToNextEvent(d, limit)
<1>3. n \in Nat /\ n <= limit
  BY Zenon, <1>1, <1>2, SliceFits
<1> HIDE DEF n
<1>4. /\ slice_length' = [slice_length EXCEPT ![d] = n]
      /\ downcount' = [downcount EXCEPT ![d] = n]
  BY Zenon DEF SetNextSlice, n
<1>5. \A c \in Core : Progress(c)' = Progress(c)
  BY Zenon, <1>1, SetNextSliceTime
<1> QED BY <1>2, <1>3, <1>4, <1>5

\* ... so the clocks stay exact.
LEMMA NewSliceClocks ==
    ASSUME Inv, ClocksExact, NEW d \in Core, slice_length'[d] \in Nat,
           downcount'[d] = slice_length'[d], is_timer_sane' = is_timer_sane,
           \A c \in Core : c # d => slice_length'[c] = slice_length[c] /\ downcount'[c] = downcount[c]
    PROVE  ClocksExact'
<1> SUFFICES ASSUME NEW c \in Core
             PROVE  /\ is_timer_sane'[c] => downcount'[c] = slice_length'[c]
                    /\ -Overshoot <= downcount'[c]
  BY Zenon DEF ClocksExact
<1>1. CASE c = d
  <2>1. Overshoot \in Nat
    BY Zenon, TimingAssumption
  <2> QED BY <1>1, <2>1
<1>2. CASE c # d
  BY <1>2 DEF ClocksExact
<1> QED BY Zenon, <1>1, <1>2

\* A core that is behind gets a slice up to global_ticks, and may be the one that
\* is furthest behind.
LEMMA PacedSyncSlice ==
    ASSUME Inv, Inv', [Next]_vars, Paced, SyncSlice
    PROVE  Paced'
<1>1. /\ pc = "slice" /\ catching_up /\ delay' = 0 /\ SetNextSlice(core, delay)
      /\ core = NumCores - 1 => pc' = "choose" /\ core' = 0
      /\ core # NumCores - 1 => pc' = "sync" /\ core' = core + 1
      /\ UNCHANGED <<executed_ticks, is_timer_sane, ts_queue, global_ticks, max_slice, catching_up>>
  BY Zenon DEF SyncSlice, NextCore, queueVars, sliceVars
<1>2. \/ /\ max_delay < delay /\ max_delay' = delay /\ current_core_to_execute' = core
      \/ /\ ~(max_delay < delay) /\ max_delay' = max_delay
         /\ current_core_to_execute' = current_core_to_execute
  BY Zenon DEF SyncSlice
<1>3. /\ core \in Core /\ core \in Nat /\ global_ticks \in Nat /\ delay \in Nat /\ max_delay \in Nat
      /\ Fresh(core)
  BY <1>1, TimingAssumption DEF Inv, TypeOK, Core, AdvanceSound, Fresh, Advanced
<1>4. /\ slice_length'[core] \in Nat /\ slice_length'[core] <= delay
      /\ downcount'[core] = slice_length'[core]
      /\ \A c \in Core : c # core => slice_length'[c] = slice_length[c] /\ downcount'[c] = downcount[c]
      /\ \A c \in Core : Progress(c)' = Progress(c)
  BY Zenon, <1>1, <1>3, SetNextSliceBounds
<1>5. ClocksExact'
  BY Zenon, <1>1, <1>3, <1>4, NewSliceClocks DEF Paced
<1>6. CatchUp' /\ Round'
  <2>1. max_slice \in Nat /\ max_slice <= max_slice
    BY DEF Inv, TypeOK
  <2> QED BY <1>1, <2>1, LoopFrame DEF Paced
<1>7. /\ \A c \in Core : Progress(c) <= global_ticks
      /\ \E g \in Core : Progress(g) = global_ticks
      /\ \A c \in Core : c < core => global_ticks - Progress(c) <= max_delay
      /\ delay = global_ticks - Progress(core)
  BY <1>1 DEF Paced, DelaysExact
<1>8. \A c \in Core : Progress(c) \in Nat /\ c \in 0 .. NumCores - 1
  BY Zenon, TimeFacts DEF Core
<1>9. max_delay <= max_delay' /\ delay <= max_delay' /\ max_delay' \in Nat
  BY <1>2, <1>3
<1>10. ASSUME NEW c \in Core, c <= core PROVE global_ticks - Progress(c) <= max_delay'
  <2>1. CASE c = core
    BY Zenon, <1>7, <1>9, <2>1
  <2>2. CASE c # core
    <3>1. global_ticks - Progress(c) <= max_delay
      BY SMTT(20), <1>3, <1>7, <1>8, <1>10, <2>2
    <3> QED BY <1>3, <1>8, <1>9, <3>1
  <2> QED BY Zenon, <2>1, <2>2
<1>11. DelaysExact'
  <2>1. \A c \in Core : c < core' \/ pc' = "choose" => c <= core
    BY <1>1, <1>3, <1>8, TimingAssumption
  <2>2. pc' \notin {"events", "callback", "slice"}
    BY Zenon, <1>1
  <2> QED BY SMTT(20), <1>1, <1>4, <1>7, <1>10, <2>1, <2>2 DEF DelaysExact
<1>12. ChosenExact'
  <2>1. CASE max_delay' = delay /\ current_core_to_execute' = core
    BY SMTT(20), <1>1, <1>3, <1>4, <1>7, <2>1 DEF ChosenExact
  <2>2. CASE max_delay' = max_delay /\ current_core_to_execute' = current_core_to_execute
    <3> SUFFICES ASSUME current_core_to_execute # nullptr PROVE ChosenExact'
      BY Zenon, <2>2 DEF ChosenExact
    <3>1. current_core_to_execute \in Core /\ current_core_to_execute < core
      BY Zenon, <1>1 DEF Inv, TypeOK, SyncSound
    <3>2. current_core_to_execute # core
      BY <1>3, <1>8, <3>1
    <3> QED BY <1>1, <1>4, <2>2, <3>1, <3>2 DEF Paced, ChosenExact
  <2> QED BY Zenon, <1>2, <2>1, <2>2
<1> QED BY Zenon, <1>5, <1>6, <1>11, <1>12 DEF Paced

\* The slices of a round are as long as the time to the next event of any core;
\* then core 0 starts.
LEMMA PacedRunSlice ==
    ASSUME Inv, Inv', [Next]_vars, Paced, RunSlice
    PROVE  Paced'
<1>1. /\ pc = "slice" /\ ~catching_up /\ catching_up' = catching_up /\ core \in Core
      /\ core = NumCores - 1 => pc' = "run" /\ core' = 0
      /\ core # NumCores - 1 => pc' = "advance"
      /\ ts_queue' = ts_queue
  BY Zenon DEF RunSlice, NextCore, queueVars, Inv, TypeOK
<1> DEFINE n == LesserOf(max_slice, GetMaxSliceLength(core))
<1>2. max_slice' = n /\ n \in Nat /\ n <= max_slice /\ max_slice <= MAX_SLICE_LENGTH
      /\ max_slice \in Nat /\ MAX_SLICE_LENGTH \in Nat
  <2>1. max_slice' = n /\ max_slice' \in Nat /\ max_slice \in Nat
    BY Zenon DEF RunSlice, Inv, TypeOK
  <2>2. n = max_slice \/ (n = GetMaxSliceLength(core) /\ ~(max_slice <= GetMaxSliceLength(core)))
    BY Zenon DEF LesserOf
  <2> HIDE DEF n
  <2>3. n <= max_slice
    BY <2>1, <2>2
  <2> QED BY <1>1, <2>1, <2>3, TimingAssumption DEF Paced, Round
<1> HIDE DEF n
<1>3. DelaysExact' /\ ChosenExact' /\ CatchUp'
  BY Zenon, <1>1 DEF DelaysExact, ChosenExact, CatchUp
<1>4. CASE core # NumCores - 1
  <2>1. UNCHANGED <<executed_ticks, slice_length, downcount, is_timer_sane>>
    BY Zenon, <1>1, <1>4 DEF RunSlice, clockVars
  <2>2. ClocksExact'
    BY Zenon, <1>1, <2>1 DEF Paced, ClocksExact
  <2>3. Round'
    BY SMTT(20), <1>1, <1>2, <1>4, LoopFrame DEF Paced
  <2> QED BY Zenon, <1>3, <2>2, <2>3 DEF Paced
<1>5. CASE core = NumCores - 1
  <2>1. 0 \in Core /\ \A c \in Core : Fresh(c)
    BY <1>1, <1>5, TimingAssumption DEF Inv, RunSound, AdvanceSound, Fresh, Core
  <2>2. SetNextSlice(0, n) /\ UNCHANGED <<executed_ticks, is_timer_sane>>
    BY Zenon, <1>1, <1>5 DEF RunSlice, StartCore, n
  <2>3. /\ slice_length'[0] \in Nat /\ slice_length'[0] <= n
        /\ downcount'[0] = slice_length'[0]
        /\ \A c \in Core : c # 0 => slice_length'[c] = slice_length[c] /\ downcount'[c] = downcount[c]
        /\ \A c \in Core : Progress(c)' = Progress(c)
    BY Zenon, <1>2, <2>1, <2>2, SetNextSliceBounds
  <2>4. ClocksExact'
    BY <2>1, <2>2, <2>3, NewSliceClocks DEF Paced
  <2>5. \A c \in Core : Progress(c) = executed_ticks[c] /\ executed_ticks[c] \in Nat
    BY <2>1, TimeFacts DEF Fresh
  <2>6. /\ \A c, d \in Core : executed_ticks[c] - executed_ticks[d] <= MinDelay
    BY Zenon, <1>1, <2>5 DEF Paced, Round
  <2>7. Overshoot \in Nat
    BY Zenon, TimingAssumption
  <2>8. /\ \A c \in Core : c # 0 => Peaks'[c] = executed_ticks[c]
        /\ Peaks'[0] = executed_ticks[0] + slice_length'[0] + Overshoot
    BY SMTT(20), <1>1, <1>5, <2>1, <2>2, <2>3, <2>5 DEF Peaks
  <2>9. /\ Peaks'[0] - executed_ticks[0] <= MAX_SLICE_LENGTH + (0 + 1) * Overshoot
        /\ executed_ticks[0] <= Peaks'[0]
    <3>1. executed_ticks[0] \in Nat /\ (0 + 1) * Overshoot = Overshoot
      BY <2>1, <2>5, <2>7
    <3> QED BY <1>2, <2>3, <2>7, <2>8, <3>1
  <2>10. Stepped(executed_ticks, Peaks', 0)
    <3>1. \A c \in Core : (c <= 0 => c = 0) /\ c \in Nat
      BY TimingAssumption DEF Core
    <3>2. \A c \in Core : executed_ticks[c] <= Peaks'[c] /\ (0 < c => Peaks'[c] = executed_ticks[c])
      BY <2>5, <2>8, <2>9, <3>1
    <3>3. \A b, c \in Core : ~(b < c /\ c <= 0)
      BY <3>1
    <3>4. \A c \in Core : c <= 0 => Peaks'[c] - executed_ticks[c] <= MAX_SLICE_LENGTH + (c + 1) * Overshoot
      BY Zenon, <2>9, <3>1
    <3> QED BY Zenon, <2>6, <3>2, <3>3, <3>4 DEF Stepped
  <2>11. Round'
    BY <1>1, <1>5, <2>2, <2>10 DEF Round
  <2> QED BY Zenon, <1>3, <2>4, <2>11 DEF Paced
<1> QED BY Zenon, <1>4, <1>5

\* Steps that leave the clocks and the loop alone.
LEMMA PacedQuiet ==
    ASSUME Inv, Inv', [Next]_vars, Paced, UNCHANGED <<clockVars, pc, loopVars>>
    PROVE  Paced'
<1>1. UNCHANGED <<executed_ticks, slice_length, downcount, is_timer_sane, pc, core, global_ticks,
                  delay, max_delay, current_core_to_execute, max_slice, catching_up>>
  BY Zenon DEF clockVars, loopVars, delayVars, sliceVars
<1>2. \A d \in Core : Progress(d)' = Progress(d)
  BY Zenon, <1>1 DEF Progress
<1>3. core \in Core /\ (current_core_to_execute # nullptr => current_core_to_execute \in Core)
  BY Zenon DEF Inv, TypeOK
<1>4. ClocksExact' /\ DelaysExact' /\ ChosenExact'
  BY <1>1, <1>2, <1>3 DEF Paced, ClocksExact, DelaysExact, ChosenExact
<1>5. CatchUp' /\ Round'
  <2>1. CASE pc = "run"
    <3>1. slice_length[core] \in Nat
      BY Zenon, <1>3, TimeFacts
    <3>2. slice_length'[core] <= slice_length[core]
      BY <1>1, <3>1
    <3>3. \A c \in Core : c # core => slice_length'[c] = slice_length[c] /\ downcount'[c] = downcount[c]
      BY Zenon, <1>1
    <3> QED BY Zenon, <1>1, <2>1, <3>2, <3>3, RunFrame DEF Paced
  <2>2. CASE pc # "run"
    <3>1. max_slice \in Nat
      BY Zenon DEF Inv, TypeOK
    <3>2. max_slice <= max_slice
      BY <3>1
    <3>3. max_slice' \in Nat /\ max_slice' <= max_slice /\ pc' # "run"
      BY ZenonT(40), <1>1, <2>2, <3>1, <3>2
    <3> QED BY Zenon, <1>1, <2>2, <3>3, LoopFrame DEF Paced
  <2> QED BY Zenon, <2>1, <2>2
<1> QED BY Zenon, <1>4, <1>5 DEF Paced

\* ForceExceptionCheck() shortens a slice by what is left of it, so it takes no
\* time.
LEMMA SliceCut ==
    ASSUME slice_length \in [Core -> Nat], downcount \in [Core -> Int],
           NEW c \in Core, NEW cycles \in Nat, ForceExceptionCheck(c, cycles),
           ~(slice_length' = slice_length /\ downcount' = downcount)
    PROVE  /\ slice_length'[c] <= slice_length[c] /\ downcount'[c] >= 0 /\ downcount'[c] \in Int
           /\ slice_length'[c] - downcount'[c] = slice_length[c] - downcount[c]
           /\ \A d \in Core : d # c => slice_length'[d] = slice_length[d] /\ downcount'[d] = downcount[d]
<1> DEFINE cut == downcount[c] - GreaterOf(0, cycles)
<1>1. downcount[c] \in Int /\ slice_length[c] \in Nat
  BY Zenon
<1>2. cut \in Int /\ cut > 0 /\ downcount[c] - cut >= 0
  BY <1>1 DEF ForceExceptionCheck, GreaterOf
<1>3. /\ slice_length' = [slice_length EXCEPT ![c] = @ - cut]
      /\ downcount' = [downcount EXCEPT ![c] = @ - cut]
  BY Zenon, <1>2 DEF ForceExceptionCheck
<1> HIDE DEF cut
<1>4. /\ slice_length'[c] = slice_length[c] - cut /\ downcount'[c] = downcount[c] - cut
      /\ \A d \in Core : d # c => slice_length'[d] = slice_length[d] /\ downcount'[d] = downcount[d]
  BY Zenon, <1>3
<1>5. /\ slice_length'[c] <= slice_length[c] /\ downcount'[c] >= 0 /\ downcount'[c] \in Int
      /\ slice_length'[c] - downcount'[c] = slice_length[c] - downcount[c]
  BY SMTT(20), <1>1, <1>2, <1>4
<1> QED BY Zenon, <1>4, <1>5

\* An event that is scheduled while its core runs may shorten the slice.
LEMMA PacedSchedule ==
    ASSUME Inv, Inv', [Next]_vars, Paced, NEW c \in Core, NEW cycles \in Delays, NEW ty \in EventType,
           ScheduleEvent(c, cycles, ty)
    PROVE  Paced'
<1>1. /\ pc \in {"callback", "run"} /\ current_timer = core /\ core \in Core
      /\ pc = "callback" => is_timer_sane[core]
      /\ pc' = pc /\ executed_ticks' = executed_ticks /\ is_timer_sane' = is_timer_sane
      /\ core' = core /\ catching_up' = catching_up /\ max_slice' = max_slice
      /\ UNCHANGED <<global_ticks, delay, max_delay, current_core_to_execute>>
  BY Zenon DEF ScheduleEvent, Inside, loopVars, delayVars, sliceVars, Inv, AdvanceSound, TypeOK
<1>2. \/ slice_length' = slice_length /\ downcount' = downcount
      \/ pc = "run" /\ c = core /\ ForceExceptionCheck(core, cycles)
  BY Zenon, <1>1 DEF ScheduleEvent
<1>3. CASE slice_length' = slice_length /\ downcount' = downcount
  <2>1. UNCHANGED <<clockVars, pc, loopVars>>
    BY Zenon, <1>3 DEF ScheduleEvent, clockVars
  <2> QED BY Zenon, <2>1, PacedQuiet
<1>4. CASE pc = "run" /\ ForceExceptionCheck(core, cycles) /\ ~(slice_length' = slice_length /\ downcount' = downcount)
  <2>0. cycles \in Nat /\ Overshoot \in Nat
    BY TimingAssumption
  <2>1. slice_length \in [Core -> Nat] /\ downcount \in [Core -> Int]
    BY Zenon DEF Inv, TypeOK
  <2>2. /\ slice_length'[core] <= slice_length[core] /\ downcount'[core] >= 0
        /\ slice_length'[core] - downcount'[core] = slice_length[core] - downcount[core]
        /\ downcount'[core] \in Int
    BY Zenon, <1>1, <1>4, <2>0, <2>1, SliceCut
  <2>3. \A d \in Core : d # core => slice_length'[d] = slice_length[d] /\ downcount'[d] = downcount[d]
    BY Zenon, <1>1, <1>4, <2>0, <2>1, SliceCut
  <2>4. -Overshoot <= downcount'[core]
    BY <2>0, <2>2
  <2>5. CatchUp' /\ Round'
    BY Zenon, <1>1, <1>4, <2>2, <2>3, RunFrame DEF Paced
  <2>6. ~is_timer_sane[core] /\ current_core_to_execute = nullptr
    BY Zenon, <1>4 DEF Inv, AdvanceSound, SyncSound, Advanced
  <2>7. ClocksExact'
    <3> SUFFICES ASSUME NEW d \in Core
                 PROVE  /\ is_timer_sane[d] => downcount'[d] = slice_length'[d]
                        /\ -Overshoot <= downcount'[d]
      BY Zenon, <1>1 DEF ClocksExact
    <3>1. CASE d = core
      BY Zenon, <2>2, <2>4, <2>6, <3>1 DEF Paced, ClocksExact
    <3>2. CASE d # core
      BY Zenon, <2>3, <3>2 DEF Paced, ClocksExact
    <3> QED BY Zenon, <3>1, <3>2
  <2>8. DelaysExact' /\ ChosenExact'
    BY Zenon, <1>1, <1>4, <2>6 DEF DelaysExact, ChosenExact
  <2> QED BY Zenon, <2>5, <2>7, <2>8 DEF Paced
<1> QED BY <1>2, <1>3, <1>4

\* Another host thread posts an event, or events are removed from the queues.
LEMMA PacedQueues ==
    ASSUME Inv, Inv', [Next]_vars, Paced,
           \/ \E c \in Core, read \in ClockReads, cycles \in Delays, ty \in EventType :
                 ScheduleThreadSafe(c, read, cycles, ty)
           \/ \E ty \in EventType : UnscheduleEvent(ty)
    PROVE  Paced'
  BY Zenon, PacedQuiet DEF ScheduleThreadSafe, UnscheduleEvent

\* The core that runs executes, or is idle until the end of its slice.
LEMMA PacedExecute ==
    ASSUME Inv, Inv', [Next]_vars, Paced, AddTicks \/ Idle
    PROVE  Paced'
<1>1. /\ pc = "run" /\ pc' = "run" /\ core \in Core
      /\ UNCHANGED <<executed_ticks, slice_length, is_timer_sane, ts_queue, core, global_ticks,
                     delay, max_delay, current_core_to_execute, max_slice, catching_up>>
  BY Zenon DEF AddTicks, Idle, queueVars, loopVars, delayVars, sliceVars, Inv, TypeOK
<1>2. ~is_timer_sane[core] /\ current_core_to_execute = nullptr
  BY Zenon, <1>1 DEF Inv, AdvanceSound, SyncSound, Advanced
<1>3. PICK left \in Int : left >= -Overshoot /\ downcount' = [downcount EXCEPT ![core] = left]
  <2>1. Overshoot \in Nat /\ downcount[core] \in Int
    BY Zenon, <1>1, TimeFacts, TimingAssumption
  <2>2. CASE AddTicks
    <3>1. PICK left \in -Overshoot .. downcount[core] - 1 : downcount' = [downcount EXCEPT ![core] = left]
      BY Zenon, <2>2 DEF AddTicks
    <3>2. left \in Int /\ left >= -Overshoot
      BY <2>1
    <3> QED BY Zenon, <3>1, <3>2
  <2>3. CASE Idle
    <3>1. 0 \in Int /\ 0 >= -Overshoot
      BY <2>1
    <3> QED BY Zenon, <2>3, <3>1 DEF Idle
  <2> QED BY Zenon, <2>2, <2>3
<1>4. downcount'[core] = left /\ \A d \in Core : d # core => downcount'[d] = downcount[d]
  BY ZenonT(40), <1>1, <1>3 DEF Inv, TypeOK
<1>5. DelaysExact' /\ ChosenExact'
  BY SMTT(20), <1>1, <1>2 DEF DelaysExact, ChosenExact
<1>6. CatchUp' /\ Round'
  <2>1. slice_length'[core] <= slice_length[core]
    BY SMTT(20), <1>1, TimeFacts
  <2> QED BY SMTT(20), <1>1, <1>4, <2>1, RunFrame DEF Paced
<1>7. ClocksExact'
  <2> SUFFICES ASSUME NEW d \in Core
               PROVE  /\ is_timer_sane[d] => downcount'[d] = slice_length[d]
                      /\ -Overshoot <= downcount'[d]
    BY Zenon, <1>1 DEF ClocksExact
  <2>1. CASE d = core
    <3>1. Overshoot \in Nat
      BY Zenon, TimingAssumption
    <3> QED BY <1>2, <1>3, <1>4, <2>1, <3>1
  <2>2. CASE d # core
    BY Zenon, <1>4, <2>2 DEF Paced, ClocksExact
  <2> QED BY <2>1, <2>2
<1> QED BY Zenon, <1>5, <1>6, <1>7 DEF Paced

\* What the core that runs has reached.
LEMMA RunReached ==
    ASSUME Inv, ClocksExact, pc = "run"
    PROVE  /\ core \in Core /\ Progress(core) <= executed_ticks[core] + slice_length[core] + Overshoot
           /\ executed_ticks[core] <= Progress(core) /\ Progress(core) \in Nat
           /\ executed_ticks[core] \in Nat
<1>1. core \in Core
  BY Zenon DEF Inv, TypeOK
<1>2. -Overshoot <= downcount[core] /\ Overshoot \in Nat
  BY <1>1, TimingAssumption DEF ClocksExact
<1> QED BY <1>1, <1>2, TimeFacts

\* The round up to the core that runs, at the time it has reached.
LEMMA StoppedStepped ==
    ASSUME Inv, ClocksExact, Round, pc = "run", ~catching_up
    PROVE  Stepped(executed_ticks, Times, core)
<1>1. /\ Peaks \in [Core -> Nat] /\ executed_ticks \in [Core -> Nat] /\ core \in Core
      /\ Times \in [Core -> Nat]
  BY Zenon, PeaksTyped, TimeFacts
<1>2. Stepped(executed_ticks, Peaks, core)
  BY Zenon DEF Round
<1>3. \A c \in Core : c # core => Times[c] = Peaks[c]
  BY Zenon DEF Times, Peaks
<1>4. executed_ticks[core] <= Times[core] /\ Times[core] <= Peaks[core]
  BY Zenon, <1>1, RunReached DEF Times, Peaks
<1> QED BY Zenon, <1>1, <1>2, <1>3, <1>4, SteppedDown

\* The times are spread also while a core catches up.
LEMMA CatchUpTimes ==
    ASSUME Inv, ClocksExact, CatchUp, catching_up
    PROVE  Spread(Times)
<1>1. core \in Core /\ Times \in [Core -> Nat] /\ Bases \in [Core -> Nat]
  BY Zenon, PeaksTyped, TimeFacts
<1>2. CASE pc = "run"
  <2>1. Spread(Bases) /\ \A d \in Core : Bases[core] <= Bases[d]
    BY Zenon, <1>2 DEF CatchUp
  <2>2. PICK g \in Core : executed_ticks[core] + slice_length[core] <= Bases[g]
    BY Zenon, <1>2 DEF CatchUp
  <2>3. \A d \in Core : d # core => Times[d] = Bases[d]
    BY Zenon DEF Times, Bases
  <2>4. Bases[core] = executed_ticks[core] /\ Times[core] = Progress(core)
    BY SMTT(20), <1>1, <1>2 DEF Bases, Times
  <2>5. Bases[core] <= Times[core] /\ Times[core] <= Bases[g] + Overshoot
    <3>1. /\ Progress(core) <= executed_ticks[core] + slice_length[core] + Overshoot
          /\ executed_ticks[core] <= Progress(core)
      BY Zenon, <1>2, RunReached
    <3>2. /\ Progress(core) \in Nat /\ executed_ticks[core] \in Nat /\ slice_length[core] \in Nat
          /\ Bases[g] \in Nat /\ Overshoot \in Nat
      BY Zenon, <1>1, TimeFacts, TimingAssumption
    <3> QED BY <2>2, <2>4, <3>1, <3>2
  <2> QED BY Zenon, <1>1, <2>1, <2>3, <2>5, CatchUpSpread
<1>3. CASE pc # "run"
  <2>1. Bases = Times
    BY Zenon, <1>3 DEF Bases, Times
  <2> QED BY Zenon, <2>1 DEF CatchUp
<1> QED BY Zenon, <1>2, <1>3

\* The core that caught up returns, or the last core of a round.
LEMMA PacedRoundOver ==
    ASSUME Inv, Inv', Paced, RunReturns, catching_up \/ core = NumCores - 1
    PROVE  Paced'
<1>1. /\ pc = "run" /\ pc' = "start" /\ core' = 0 /\ catching_up' = TRUE /\ max_slice' = MAX_SLICE_LENGTH
      /\ UNCHANGED <<executed_ticks, slice_length, downcount, is_timer_sane, ts_queue,
                     current_core_to_execute>>
      /\ current_core_to_execute = nullptr
  BY Zenon DEF RunReturns, RoundOver, clockVars, queueVars, delayVars, Inv, SyncSound
<1>2. ClocksExact' /\ ChosenExact' /\ DelaysExact'
  BY Zenon, <1>1 DEF Paced, ClocksExact, ChosenExact, DelaysExact
<1>3. Round'
  <2>1. MAX_SLICE_LENGTH <= MAX_SLICE_LENGTH
    BY TimingAssumption
  <2> QED BY Zenon, <1>1, <2>1 DEF Round
<1>4. core \in Core /\ Times \in [Core -> Nat] /\ Bases \in [Core -> Nat] /\ executed_ticks \in [Core -> Nat]
  BY Zenon, PeaksTyped, TimeFacts
<1>5. Bases' = Times
  BY Zenon, <1>1 DEF Bases, Times, Progress
<1>6. Spread(Times)
  <2>1. CASE catching_up
    BY Zenon, <2>1, CatchUpTimes DEF Paced
  <2>2. CASE ~catching_up
    <3>1. Stepped(executed_ticks, Times, core) /\ core = NumCores - 1
      BY <1>1, <2>2, StoppedStepped DEF Paced
    <3> QED BY Zenon, <1>4, <3>1, RoundSpread
  <2> QED BY Zenon, <2>1, <2>2
<1>7. CatchUp'
  BY <1>1, <1>5, <1>6 DEF CatchUp
<1> QED BY Zenon, <1>2, <1>3, <1>7 DEF Paced

\* Another core of a round returns, and the next one runs as long as it did.
LEMMA PacedNextRuns ==
    ASSUME Inv, Inv', Paced, RunReturns, ~(catching_up \/ core = NumCores - 1)
    PROVE  Paced'
<1> DEFINE n == GetTicks(core) - start_ticks
           next == core + 1
<1>1. /\ pc = "run" /\ pc' = "run" /\ core' = next /\ ~catching_up /\ catching_up' = catching_up
      /\ SetNextSlice(next, n)
      /\ UNCHANGED <<executed_ticks, is_timer_sane, ts_queue>>
      /\ start_ticks = executed_ticks[core] /\ \A c \in Core : core < c => Fresh(c)
  BY Zenon DEF RunReturns, StartCore, queueVars, Inv, RunSound
<1>2. /\ core \in Core /\ next \in Core /\ core < next /\ core \in Nat /\ core # next
      /\ executed_ticks \in [Core -> Nat]
  <2>1. core \in Core /\ executed_ticks \in [Core -> Nat]
    BY Zenon DEF Inv, TypeOK
  <2> QED BY <2>1, TimingAssumption DEF Core
<1>3. n = Progress(core) - executed_ticks[core] /\ n \in Nat
  BY <1>1, <1>2, TicksExact, TimeFacts DEF Paced
<1>4. Fresh(next)
  BY Zenon, <1>1, <1>2
<1> HIDE DEF n, next
<1>5. /\ slice_length'[next] \in Nat /\ slice_length'[next] <= n
      /\ downcount'[next] = slice_length'[next]
      /\ \A c \in Core : c # next => slice_length'[c] = slice_length[c] /\ downcount'[c] = downcount[c]
      /\ \A c \in Core : Progress(c)' = Progress(c)
  BY <1>1, <1>2, <1>3, <1>4, SetNextSliceBounds
<1>6. ClocksExact' /\ DelaysExact' /\ ChosenExact' /\ CatchUp'
  <2>1. ClocksExact'
    BY <1>1, <1>2, <1>5, NewSliceClocks DEF Paced
  <2>2. DelaysExact' /\ ChosenExact' /\ CatchUp'
    BY Zenon, <1>1 DEF Paced, DelaysExact, ChosenExact, CatchUp
  <2> QED BY Zenon, <2>1, <2>2
<1>7. Stepped(executed_ticks, Times, core)
  BY Zenon, <1>1, StoppedStepped DEF Paced
<1>8. /\ Times \in [Core -> Nat] /\ Times[core] = Progress(core)
      /\ Overshoot \in Nat /\ executed_ticks[core] \in Nat /\ executed_ticks[next] \in Nat
      /\ \A c \in Core : Progress(c) \in Nat /\ Times[c] = Progress(c)
  BY SMTT(20), <1>2, TimeFacts, TimingAssumption
<1>9. /\ \A c \in Core : c # next => Peaks'[c] = Times[c]
      /\ Peaks'[next] = executed_ticks[next] + slice_length'[next] + Overshoot
  BY <1>1, <1>2, <1>5, <1>8 DEF Peaks
<1>10. Peaks' \in [Core -> Nat]
  <2>1. \A c \in Core : Peaks'[c] \in Nat
    BY SMTT(20), <1>5, <1>8, <1>9
  <2> QED BY Zenon, <2>1 DEF Peaks
<1>11. /\ executed_ticks[next] <= Peaks'[next]
       /\ Peaks'[next] - executed_ticks[next] <= Times[core] - executed_ticks[core] + Overshoot
  BY <1>2, <1>3, <1>5, <1>8, <1>9
<1>12. next = core + 1
  BY Zenon DEF next
<1>13. Stepped(executed_ticks, Peaks', next)
  BY Zenon, <1>2, <1>7, <1>8, <1>9, <1>10, <1>11, <1>12, SteppedUp
<1>14. Round'
  BY Zenon, <1>1, <1>13 DEF Round
<1> QED BY Zenon, <1>6, <1>14 DEF Paced

\* All cores start at time 0.
LEMMA PacedInit == Init => Paced
<1> SUFFICES ASSUME Init PROVE Paced
  BY Zenon
<1>1. /\ MAX_SLICE_LENGTH \in Nat /\ Overshoot \in Nat /\ MinDelay \in Nat /\ NumCores \in Nat
      /\ 0 * 1 = 0
  BY TimingAssumption
<1>2. ClocksExact /\ DelaysExact /\ ChosenExact
  <2>1. \A c \in Core : downcount[c] = MAX_SLICE_LENGTH /\ slice_length[c] = MAX_SLICE_LENGTH
    BY Zenon DEF Init
  <2>2. -Overshoot <= MAX_SLICE_LENGTH
    BY <1>1
  <2>3. ClocksExact
    BY Zenon, <2>1, <2>2 DEF ClocksExact
  <2> QED BY Zenon, <2>3 DEF Init, DelaysExact, ChosenExact
<1>3. \A c \in Core : Progress(c) = 0
  BY <1>1 DEF Init, Progress
<1>4. Round
  BY <1>1 DEF Init, Round
<1>5. Bases = [c \in Core |-> 0] /\ Bases \in [Core -> Nat]
  BY <1>3 DEF Init, Bases
<1>6. Spread(Bases)
  <2> SUFFICES ASSUME NEW c \in Core, NEW d \in Core
               PROVE  0 <= MinDelay + MAX_SLICE_LENGTH + Overshoot * Cardinality(Above(Bases, d))
    BY <1>5 DEF Spread
  <2> DEFINE k == Cardinality(Above(Bases, d))
  <2>1. k \in Nat
    BY <1>5, CountAbove
  <2>2. Overshoot * k \in Nat
    BY <1>1, <2>1, Products
  <2> HIDE DEF k
  <2>3. 0 <= MinDelay + MAX_SLICE_LENGTH + Overshoot * k
    BY <1>1, <2>2
  <2> QED BY Zenon, <2>3 DEF k
<1>7. CatchUp
  BY Zenon, <1>6 DEF CatchUp, Init
<1> QED BY <1>2, <1>4, <1>7 DEF Paced

\* The invariant: on top of Inv it is inductive.
PacedUnlessLoaded == ~loaded => Paced

\* Every step keeps it; SaveLoad ends what it claims.
LEMMA PacedNext ==
    ASSUME Inv, Inv', PacedUnlessLoaded, [Next]_vars
    PROVE  PacedUnlessLoaded'
<1> SUFFICES ASSUME ~loaded' PROVE Paced'
  BY Zenon DEF PacedUnlessLoaded
<1>1. ~SaveLoad
  BY SMTT(20) DEF SaveLoad
<1>2. loaded' = loaded
  BY Zenon, <1>1 DEF Next, vars, ScheduleEvent, ScheduleThreadSafe, UnscheduleEvent, Start, SyncSkip,
              SyncAdvance, Choose, AdvanceCore, FireEvent, CallbackReturns, EndAdvance, SyncSlice,
              RunSlice, AddTicks, Idle, RunReturns, loopVars
<1>3. Paced
  BY Zenon, <1>2 DEF PacedUnlessLoaded
<1>4. CASE UNCHANGED vars
  BY SMTT(20), <1>3, <1>4, PacedQuiet DEF vars
<1>5. CASE \E c \in Core, cycles \in Delays, ty \in EventType : ScheduleEvent(c, cycles, ty)
  BY Zenon, <1>3, <1>5, PacedSchedule
<1>6. CASE \/ \E c \in Core, read \in ClockReads, cycles \in Delays, ty \in EventType :
                  ScheduleThreadSafe(c, read, cycles, ty)
           \/ \E ty \in EventType : UnscheduleEvent(ty)
  BY Zenon, <1>3, <1>6, PacedQueues
<1>7. CASE Start \/ SyncSkip \/ SyncAdvance \/ AdvanceCore \/ FireEvent \/ CallbackReturns \/ EndAdvance
  BY Zenon, <1>3, <1>7, PacedStart, PacedSkip, PacedSyncAdvance, PacedAdvanceCore, PacedEvents
<1>8. CASE Choose \/ SyncSlice \/ RunSlice \/ AddTicks \/ Idle \/ RunReturns
  BY Zenon, <1>3, <1>8, PacedChoose, PacedSyncSlice, PacedRunSlice, PacedExecute, PacedRoundOver,
     PacedNextRuns
<1> QED BY Zenon, <1>1, <1>4, <1>5, <1>6, <1>7, <1>8 DEF Next

\* The cores of RunLoop are paced until a state is loaded, for any number of
\* cores, any slice length, min_delay and overshoot.
THEOREM CoresArePaced == Spec => []PacedUnlessLoaded
<1>1. Init => PacedUnlessLoaded
  BY Zenon, PacedInit DEF PacedUnlessLoaded
<1>2. Spec => []Inv
  BY InductiveInvariant
<1> QED BY <1>1, <1>2, PacedNext, PTL DEF Spec

\* Two cores are never further apart than one slice, min_delay and the overshoot
\* of the others, as long as no state has been loaded: RunLoop lets the last core
\* catch up before it starts another round.
THEOREM CoresStayClose == Spec => []CoresStayTogether
<1>1. ASSUME Inv, PacedUnlessLoaded PROVE CoresStayTogether
  <2> SUFFICES ASSUME ~loaded, NEW c \in Core, NEW d \in Core
               PROVE  Progress(c) - Progress(d) <= MinDelay + Lead
    BY Zenon DEF CoresStayTogether
  <2>1. Paced /\ ClocksExact /\ Round
    BY Zenon, <1>1 DEF PacedUnlessLoaded, Paced
  <2>2. /\ Times \in [Core -> Nat] /\ Bases \in [Core -> Nat] /\ executed_ticks \in [Core -> Nat]
        /\ Times[c] = Progress(c) /\ Times[d] = Progress(d) /\ core \in Core
    BY <1>1, TimeFacts, PeaksTyped
  <2>3. CASE catching_up
    <3>1. Spread(Times)
      BY <1>1, <2>1, <2>3, CatchUpTimes DEF Paced
    <3> QED BY Zenon, <2>2, <3>1, SpreadTogether
  <2>4. CASE ~catching_up /\ pc = "run"
    <3>1. Stepped(executed_ticks, Times, core)
      BY <1>1, <2>1, <2>4, StoppedStepped
    <3> QED BY Zenon, <2>2, <3>1, RoundTogether
  <2>5. CASE ~catching_up /\ pc # "run"
    <3>1. Progress(c) - Progress(d) <= MinDelay
      BY Zenon, <2>1, <2>5 DEF Round
    <3> DEFINE q == (NumCores - 1) * Overshoot
    <3>2. q \in Nat /\ MinDelay \in Nat /\ MAX_SLICE_LENGTH \in Nat
      BY SMTT(20), TimingAssumption
    <3>3. Lead = MAX_SLICE_LENGTH + q /\ Progress(c) \in Nat /\ Progress(d) \in Nat
      BY SMTT(20), <1>1, TimeFacts DEF Lead
    <3> HIDE DEF q
    <3> QED BY <3>1, <3>2, <3>3
  <2> QED BY Zenon, <2>3, <2>4, <2>5
<1> QED BY <1>1, InductiveInvariant, CoresArePaced, PTL

\* A round of RunLoop starts with all cores within min_delay of each other, as
\* long as no state has been loaded ("Now all cores are at the same global
\* time").
THEOREM RoundsStartTogether == Spec => []RunsFromSameTimeUnlessLoaded
<1>1. ASSUME Inv, PacedUnlessLoaded PROVE RunsFromSameTimeUnlessLoaded
  BY Zenon, <1>1 DEF RunsFromSameTimeUnlessLoaded, RunsFromSameTime, PacedUnlessLoaded, Paced, Round, Inv, SyncSound
<1> QED BY <1>1, InductiveInvariant, CoresArePaced, PTL

=============================================================================
