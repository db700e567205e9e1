----------------------------- MODULE LogBackend -----------------------------
(***************************************************************************)
(* The logging backend (common/logging/backend.cpp): threads push entries   *)
(* to a bounded queue, the backend thread pops and writes them, and Stop()  *)
(* makes it drain the queue and ends it.                                    *)
(*                                                                         *)
(* Entries are numbered in the order of the queue. Not modelled: the        *)
(* filters, instant_debug_log (which bypasses the queue) and the handler of *)
(* fatal signals.                                                           *)
(***************************************************************************)
EXTENDS BoundedQueue

CONSTANTS
    MaxLogs,         \* what is drained at most: 100, or INT_MAX
    MaxEntries       \* bound: entries that are ever pushed

ASSUME LogAssumption ==
    /\ MaxLogs \in Nat
    /\ Entry = 1 .. MaxEntries /\ MaxEntries \in Nat
    /\ NoEntry = 0

VARIABLES
    backend,         \* where the backend thread is
    max_logs_to_write,
    stop,            \* where the thread is that calls Stop()
    pushed,          \* history: how many entries were pushed
    written,         \* history: what was written
    before_stop      \* history: how many of them when the stop was requested

logVars == <<backend, max_logs_to_write, stop>>
history == <<pushed, written, before_stop>>
vars == <<queueState, logVars, history>>

TypeOK ==
    /\ QueueTypeOK
    /\ backend \in {"new", "running", "draining", "ended"}
    /\ max_logs_to_write \in -1 .. MaxLogs
    /\ stop \in {"no", "joining", "stopped"}
    /\ pushed \in 0 .. MaxEntries
    /\ written \in Seq(Entry)
    /\ before_stop \in 0 .. MaxEntries

Init ==
    /\ QueueInit
    /\ backend = "new" /\ max_logs_to_write = 0
    /\ stop = "no"
    /\ pushed = 0 /\ written = <<>> /\ before_stop = 0

\* PushEntry(), by any thread.
PushEntry(p) ==
    \/ /\ pushed < MaxEntries
       /\ LockWrite(p)
       /\ UNCHANGED <<logVars, history>>
    \/ /\ \/ CheckRoom(p) \/ ProducerBlocks(p)
          \/ EmplaceEntry(p, pushed + 1)
          \/ NotifyConsumer(p)
       /\ UNCHANGED <<logVars, history>>
    \/ /\ Publish(p)
       /\ pushed' = pushed + 1
       /\ UNCHANGED <<logVars, written, before_stop>>

StartBackendThread ==
    /\ backend = "new" /\ backend' = "running"
    /\ UNCHANGED <<queueState, max_logs_to_write, stop, history>>

\* The loop of the backend thread.
PopEntry ==
    /\ backend = "running"
    /\ \/ ~stop_requested /\ PopWait
       \/ CheckEntry \/ ConsumerBlocks
    /\ UNCHANGED <<logVars, history>>

TakeEntry ==
    /\ MoveEntry \/ Advance \/ NotifyProducer
    /\ UNCHANGED <<logVars, history>>

\* Mutant: the entry is written only when the loop goes on.
WriteLogsUnlessStopped ==
    /\ ConsumerAt("returned", "idle")
    /\ written' = IF entry # NoEntry /\ ~stop_requested THEN Append(written, entry) ELSE written
    /\ UNCHANGED <<queueVars, producer, localVars, stop_requested, logVars, pushed, before_stop>>

\* Whether something was popped is told from entry.filename, which keeps the
\* value of the entry that was popped before.
WriteLogs ==
    /\ ConsumerAt("returned", "idle")
    /\ written' = IF entry # NoEntry THEN Append(written, entry) ELSE written
    /\ UNCHANGED <<queueVars, producer, localVars, stop_requested, logVars, pushed, before_stop>>

LeaveLoop ==
    /\ backend = "running" /\ consumer = "idle" /\ stop_requested
    /\ backend' = "draining" /\ max_logs_to_write' = MaxLogs
    /\ UNCHANGED <<queueState, stop, history>>

\* while (max_logs_to_write-- && message_queue.TryPop(entry))
Drain ==
    /\ backend = "draining" /\ consumer = "idle"
    /\ max_logs_to_write' = max_logs_to_write - 1
    /\ IF max_logs_to_write # 0 /\ m_read_index # m_write_index
       THEN TryPop /\ UNCHANGED backend
       ELSE backend' = "ended" /\ UNCHANGED queueState
    /\ UNCHANGED <<stop, history>>

\* StopBackendThread(), by another thread.
Stop ==
    /\ stop = "no" /\ backend # "new"
    /\ RequestStop
    /\ stop' = "joining"
    /\ before_stop' = pushed
    /\ UNCHANGED <<backend, max_logs_to_write, pushed, written>>

Join ==
    /\ stop = "joining" /\ backend = "ended"
    /\ stop' = "stopped"
    /\ UNCHANGED <<queueState, backend, max_logs_to_write, history>>

BackendThread == PopEntry \/ TakeEntry \/ WriteLogs \/ LeaveLoop \/ Drain

Next ==
    \/ \E p \in Producer : PushEntry(p)
    \/ StartBackendThread \/ BackendThread
    \/ Stop \/ Join
    \/ SpuriousWakeup /\ UNCHANGED <<logVars, history>>

Spec == Init /\ [][Next]_vars

\* The host runs every thread that can run. A mutex that becomes free again and
\* again is obtained, which only matters if waits wake up spuriously for ever.
Fairness ==
    /\ WF_vars(BackendThread) /\ WF_vars(Join)
    /\ \A p \in Producer :
          /\ WF_vars(PushEntry(p) /\ producer[p] # "idle")
          /\ SF_vars(NotifyConsumer(p) /\ UNCHANGED <<logVars, history>>)
    /\ SF_vars(NotifyProducer /\ UNCHANGED <<logVars, history>>)

FairSpec == Spec /\ Fairness

-----------------------------------------------------------------------------
(* Properties *)

\* The log has the entries in the order in which they were pushed, with none
\* missing. An entry is repeated at most once in the whole log, and only by a stop
\* (that it is repeated at all is against WrittenOnce). When the backend thread has
\* drained the queue, everything pushed before the stop is in the log.
LogFaithful ==
    /\ written # <<>> =>
          /\ written[1] = 1
          /\ Len(written) <= written[Len(written)] + IF stop_requested THEN 1 ELSE 0
    /\ \A i \in 1 .. Len(written) - 1 : written[i + 1] - written[i] \in {0, 1}
    /\ backend = "ended" /\ max_logs_to_write >= 0 /\ before_stop > 0 =>
          written # <<>> /\ written[Len(written)] >= before_stop

\* "Only write the log if something was actually popped" (the comment in the loop of
\* the backend thread): no entry is in the log twice. Violated: a PopWait that a stop
\* ends pops nothing, and entry.filename is that of the entry before.
WrittenOnce == \A i, j \in 1 .. Len(written) : written[i] = written[j] => i = j

\* A thread that pushes is not held up for ever while the backend thread runs:
\* no wakeup of producer_cv is missed.
PushReturns ==
    \A p \in Producer : producer[p] # "idle" /\ backend = "running"
                           ~> producer[p] = "idle" \/ backend # "running"

\* Stop() returns: the backend thread notices the stop wherever it is.
StopReturns == stop = "joining" ~> stop = "stopped"

=============================================================================
