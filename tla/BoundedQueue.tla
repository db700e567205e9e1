---------------------------- MODULE BoundedQueue ----------------------------
(***************************************************************************)
(* Common::MPSCQueue and the SPSCQueue in it (bounded_threadsafe_queue.h),  *)
(* as the logging backend uses them: EmplaceWait() by any thread, and by    *)
(* one consumer PopWait() with a stop token and TryPop().                   *)
(*                                                                         *)
(* A step is what one thread does up to its next access to something        *)
(* another thread changes. The mutexes follow from where the threads are:   *)
(* write_mutex is held during the whole of EmplaceWait(), a mutex of a      *)
(* condition variable between the predicate and the wait ("block"). Where   *)
(* such a mutex is taken and released in one step, the step needs it free.  *)
(***************************************************************************)
EXTENDS Integers, Sequences

CONSTANTS
    Producer,
    Capacity,
    IndexRange,      \* the number of values of a std::size_t
    Entry, NoEntry,  \* NoEntry: a slot, or an Entry, that was moved from or never assigned
    HasJthread       \* __cpp_lib_jthread: the stop token of the standard library

ASSUME QueueAssumption ==
    /\ Capacity \in Nat \ {0}
    /\ IndexRange \in Nat /\ IndexRange > Capacity /\ IndexRange % Capacity = 0
    /\ NoEntry \notin Entry
    /\ HasJthread \in BOOLEAN

VARIABLES
    m_read_index, m_write_index, m_data,
    producer,        \* where each producer is in EmplaceWait()
    write_index,     \* of the producer that is in EmplaceWait()
    consumer,        \* where the consumer is in Pop()
    read_index,      \* its local variable
    entry,           \* what it popped last
    stop_requested

queueVars == <<m_read_index, m_write_index, m_data>>
localVars == <<write_index, read_index, entry>>
queueState == <<queueVars, producer, consumer, localVars, stop_requested>>

Index == 0 .. IndexRange - 1
Slot == 0 .. Capacity - 1

QueueTypeOK ==
    /\ m_read_index \in Index /\ m_write_index \in Index
    /\ m_data \in [Slot -> Entry \cup {NoEntry}]
    /\ producer \in [Producer ->
          {"idle", "check", "block", "waiting", "emplace", "publish", "notify"}]
    /\ consumer \in {"idle", "check", "block", "waiting", "move", "advance", "notify", "returned"}
    /\ write_index \in Index /\ read_index \in Index
    /\ entry \in Entry \cup {NoEntry}
    /\ stop_requested \in BOOLEAN

QueueInit ==
    /\ m_read_index = 0 /\ m_write_index = 0
    /\ m_data = [s \in Slot |-> NoEntry]
    /\ producer = [p \in Producer |-> "idle"]
    /\ consumer = "idle"
    /\ write_index = 0 /\ read_index = 0
    /\ entry = NoEntry
    /\ stop_requested = FALSE

\* The indices are unsigned and wrap around.
Distance(from, to) == (to - from) % IndexRange
Incremented(index) == (index + 1) % IndexRange
SlotOf(index) == index % Capacity

ProducerAt(p, here, there) ==
    producer[p] = here /\ producer' = [producer EXCEPT ![p] = there]

ConsumerAt(here, there) == consumer = here /\ consumer' = there

-----------------------------------------------------------------------------
(* EmplaceWait(), under write_mutex *)

LockWrite(p) ==
    /\ \A q \in Producer : producer[q] = "idle"
    /\ ProducerAt(p, "idle", "check")
    /\ write_index' = m_write_index
    /\ UNCHANGED <<queueVars, consumer, read_index, entry, stop_requested>>

\* Mutant: one entry too many.
HasRoomForOneMore(index) == Distance(m_read_index, index) <= Capacity

HasRoom(index) == Distance(m_read_index, index) < Capacity

\* The predicate of producer_cv, evaluated under producer_cv_mutex.
CheckRoom(p) ==
    /\ ProducerAt(p, "check", IF HasRoom(write_index) THEN "emplace" ELSE "block")
    /\ UNCHANGED <<queueVars, consumer, localVars, stop_requested>>

\* wait() releases producer_cv_mutex.
ProducerBlocks(p) ==
    /\ ProducerAt(p, "block", "waiting")
    /\ UNCHANGED <<queueVars, consumer, localVars, stop_requested>>

EmplaceEntry(p, e) ==
    /\ ProducerAt(p, "emplace", "publish")
    /\ m_data' = [m_data EXCEPT ![SlotOf(write_index)] = e]
    /\ UNCHANGED <<m_read_index, m_write_index, consumer, localVars, stop_requested>>

\* Mutant: the index does not wrap.
PublishNoWrap(p) ==
    /\ ProducerAt(p, "publish", "notify")
    /\ m_write_index' = m_write_index + 1
    /\ UNCHANGED <<m_read_index, m_data, consumer, localVars, stop_requested>>

Publish(p) ==
    /\ ProducerAt(p, "publish", "notify")
    /\ m_write_index' = Incremented(m_write_index)
    /\ UNCHANGED <<m_read_index, m_data, consumer, localVars, stop_requested>>

\* notify_one() under consumer_cv_mutex; then EmplaceWait() returns.
NotifyConsumer(p) ==
    /\ consumer # "block"
    /\ ProducerAt(p, "notify", "idle")
    /\ consumer' = IF consumer = "waiting" THEN "check" ELSE consumer
    /\ UNCHANGED <<queueVars, localVars, stop_requested>>

-----------------------------------------------------------------------------
(* Pop() *)

PopWait ==
    /\ ConsumerAt("idle", "check")
    /\ read_index' = m_read_index
    /\ UNCHANGED <<queueVars, producer, write_index, entry, stop_requested>>

TryPop ==
    /\ m_read_index # m_write_index
    /\ ConsumerAt("idle", "move")
    /\ read_index' = m_read_index
    /\ UNCHANGED <<queueVars, producer, write_index, entry, stop_requested>>

\* The predicate of consumer_cv and the test of the stop token, under
\* consumer_cv_mutex. After a stop nothing is popped.
CheckEntry ==
    /\ ConsumerAt("check", IF stop_requested THEN "returned"
                           ELSE IF read_index # m_write_index THEN "move" ELSE "block")
    /\ UNCHANGED <<queueVars, producer, localVars, stop_requested>>

\* Mutant: a stop after the predicate was evaluated is not seen.
ConsumerBlocksUnseen ==
    /\ ConsumerAt("block", "waiting")
    /\ UNCHANGED <<queueVars, producer, localVars, stop_requested>>

\* CondvarWait() releases consumer_cv_mutex and waits. The wait() of the
\* standard library looks at the stop token again before it sleeps; the
\* CondvarWait() of polyfill_thread.h does not.
ConsumerBlocks ==
    /\ ConsumerAt("block", IF HasJthread /\ stop_requested THEN "check" ELSE "waiting")
    /\ UNCHANGED <<queueVars, producer, localVars, stop_requested>>

MoveEntry ==
    /\ ConsumerAt("move", "advance")
    /\ entry' = m_data[SlotOf(read_index)]
    /\ m_data' = [m_data EXCEPT ![SlotOf(read_index)] = NoEntry]
    /\ UNCHANGED <<m_read_index, m_write_index, producer, write_index, read_index, stop_requested>>

Advance ==
    /\ ConsumerAt("advance", "notify")
    /\ m_read_index' = Incremented(m_read_index)
    /\ UNCHANGED <<m_write_index, m_data, producer, localVars, stop_requested>>

\* Mutant: notify_one() without producer_cv_mutex.
NotifyProducerUnlocked ==
    /\ ConsumerAt("notify", "returned")
    /\ producer' = [p \in Producer |-> IF producer[p] = "waiting" THEN "check" ELSE producer[p]]
    /\ UNCHANGED <<queueVars, localVars, stop_requested>>

\* notify_one() under producer_cv_mutex; at most one producer waits. Then Pop()
\* returns.
NotifyProducer ==
    /\ \A p \in Producer : producer[p] # "block"
    /\ ConsumerAt("notify", "returned")
    /\ producer' = [p \in Producer |-> IF producer[p] = "waiting" THEN "check" ELSE producer[p]]
    /\ UNCHANGED <<queueVars, localVars, stop_requested>>

\* request_stop(): the callback of the waiting consumer notifies it.
RequestStop ==
    /\ stop_requested' = TRUE
    /\ consumer' = IF consumer = "waiting" THEN "check" ELSE consumer
    /\ UNCHANGED <<queueVars, producer, localVars>>

\* A condition variable may wake up for no reason.
SpuriousWakeup ==
    \/ /\ ConsumerAt("waiting", "check")
       /\ UNCHANGED <<queueVars, producer, localVars, stop_requested>>
    \/ \E p \in Producer :
          /\ ProducerAt(p, "waiting", "check")
          /\ UNCHANGED <<queueVars, consumer, localVars, stop_requested>>

-----------------------------------------------------------------------------
(* The queue it implements *)

Size == Distance(m_read_index, m_write_index)

\* The slot that is d entries after that of an index.
Place(index, d) == SlotOf((index + d) % IndexRange)

\* The entries that wait for the consumer; the one it has moved out is gone.
Pending ==
    LET moved == IF consumer = "advance" THEN 1 ELSE 0
    IN  [i \in 1 .. Size - moved |-> m_data[Place(m_read_index, moved + i - 1)]]

Fifo == INSTANCE BoundedFifo WITH queue <- Pending, received <- entry

\* Whatever the threads do, the ring buffer is a bounded queue: no entry is
\* lost, overwritten, read before it is complete or given out twice, also where
\* the indices wrap around.
RefinesFifo == Fifo!Spec

=============================================================================
