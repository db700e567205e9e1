----------------------------- MODULE IpcSession -----------------------------
(***************************************************************************)
(* Ports and sessions of the HLE kernel: ClientPort, ServerPort,           *)
(* ClientSession and ServerSession, the calls that connect, send, reply    *)
(* and close, and the end of the client process.                           *)
(*                                                                         *)
(* The client threads are those of one process and so are the server       *)
(* threads. A port has an emulated server, or an HLE service answers its   *)
(* sessions at once or after a while. A call is one step: the kernel runs   *)
(* on one host thread. A thread that is ready counts as running. The wait   *)
(* lists and the priorities are KernelSync's affair: a thread is on the     *)
(* lists of its wait_objects, and of several threads any may go first. As a *)
(* list of handles has any order, so may any ready object of it.            *)
(*                                                                         *)
(* Not modelled: handles that are duplicated or sent in messages, sessions  *)
(* without a port, the translation of messages and its errors, waits for a  *)
(* session by WaitSynchronization, the end of the server process (its       *)
(* handles are closed one by one here).                                     *)
(***************************************************************************)
EXTENDS Naturals, FiniteSets, Lists

CONSTANTS
    Client, Server,   \* threads
    Session, Port,
    HlePort,          \* the ports that have an hle_handler
    MaxSessions,      \* ClientPort::max_sessions
    None              \* nullptr

ASSUME IpcAssumption ==
    /\ HlePort \subseteq Port
    /\ MaxSessions \in [Port -> Nat]
    /\ None \notin Client \cup Session
    /\ Client \cap Server = {}
    /\ Session \cap Port = {}
    /\ IsFiniteSet(Session)

VARIABLES
    status,
    process,                     \* of the clients
    client,                      \* Session::client is not null: its handle is open
    server,                      \* Session::server is not null
    port,                        \* Session::port
    accepted,                    \* the server has a handle
    hle_handler,                 \* ServerSession::hle_handler, which keeps the session
    pending_requesting_threads,
    currently_handling,
    pending_sessions,            \* of a ServerPort
    active_sessions,             \* of a ClientPort
    wait_objects,                \* of a server thread
    wakeup_event,                \* clients that sleep for the IPC overhead
    context,                     \* the session of a request an HLE service answers later
    orphaned,                    \* history: waits whose session was closed under them
    fault                        \* history: an assertion of the code failed

sessionVars == <<client, server, port, accepted, hle_handler>>
requestVars == <<pending_requesting_threads, currently_handling, orphaned, fault>>
threadVars == <<status, process, wakeup_event, context>>
vars == <<sessionVars, requestVars, threadVars, pending_sessions, active_sessions, wait_objects>>

Object == Session \cup (Port \ HlePort)

TypeOK ==
    /\ status \in [Client \cup Server -> {"Running", "WaitIPC", "WaitHleEvent", "WaitSynchAny", "Dead"}]
    /\ process \in {"Running", "Exited"}
    /\ client \in [Session -> BOOLEAN]
    /\ server \in [Session -> BOOLEAN]
    /\ port \in [Session -> Port \cup {None}]
    /\ accepted \in [Session -> BOOLEAN]
    /\ hle_handler \in [Session -> BOOLEAN]
    /\ pending_requesting_threads \in [Session -> Seq(Client)]
    /\ currently_handling \in [Session -> Client \cup {None}]
    /\ pending_sessions \in [Port -> Seq(Session)]
    /\ active_sessions \in [Port -> Nat] /\ \A p \in Port : active_sessions[p] <= MaxSessions[p]
    /\ wait_objects \in [Server -> SUBSET Object]
    /\ wakeup_event \subseteq Client
    /\ context \in [Client -> Session \cup {None}]
    /\ orphaned \subseteq Client
    /\ fault \in {"none", "dead_resumed"}

Init ==
    /\ status = [t \in Client \cup Server |-> "Running"]
    /\ process = "Running"
    /\ client = [s \in Session |-> FALSE] /\ server = client
    /\ port = [s \in Session |-> None]
    /\ accepted = client /\ hle_handler = client
    /\ pending_requesting_threads = [s \in Session |-> <<>>]
    /\ currently_handling = port
    /\ pending_sessions = [p \in Port |-> <<>>]
    /\ active_sessions = [p \in Port |-> 0]
    /\ wait_objects = [t \in Server |-> {}]
    /\ wakeup_event = {}
    /\ context = [c \in Client |-> None]
    /\ orphaned = {} /\ fault = "none"

-----------------------------------------------------------------------------
(* The life of a session *)

\* What holds a shared_ptr to the ServerSession.
Referenced(s) ==
    \/ accepted[s] \/ hle_handler[s]
    \/ \E p \in Port : Has(pending_sessions[p], s)
    \/ \E t \in Server : s \in wait_objects[t]
    \/ \E c \in Client : context[c] = s

Requests(s) == Elements(pending_requesting_threads[s]) \cup ({currently_handling[s]} \ {None})

\* The sessions of alive that lost their last reference are destroyed, with what
\* is left of the requests pend and curr; their ports count them off.
DestroySessions(alive, count, pend, curr) ==
    LET gone == {s \in Session : alive[s] /\ ~Referenced(s)'}
        closed == {s \in Session : s \in gone \/ (client[s] /\ ~client'[s])}
    IN  /\ server' = [s \in Session |-> alive[s] /\ s \notin gone]
        /\ active_sessions' =
             [p \in Port |-> count[p] - Cardinality({s \in gone : port[s] = p})]
        /\ pending_requesting_threads' = [s \in Session |-> IF s \in gone THEN <<>> ELSE pend[s]]
        /\ currently_handling' = [s \in Session |-> IF s \in gone THEN None ELSE curr[s]]
        /\ orphaned' = {c \in Client : /\ status'[c] = "WaitIPC"
                                       /\ \/ c \in orphaned
                                          \/ \E s \in closed : c \in Requests(s) \/ c = curr[s]}
        /\ UNCHANGED fault

\* The threads in ts stop waiting.
Wake(ts) ==
    /\ status' = [t \in Client \cup Server |-> IF t \in ts THEN "Running" ELSE status[t]]
    /\ wait_objects' = [t \in Server |-> IF t \in ts THEN {} ELSE wait_objects[t]]

Waiters(o) == {t \in Server : o \in wait_objects[t]}

-----------------------------------------------------------------------------
(* The calls of the clients *)

\* Mutant: max_sessions is not looked at.
MayConnectAlways(p) == TRUE

MayConnect(p) == active_sessions[p] < MaxSessions[p]

\* Connect, for ConnectToPort and CreateSessionToPort. All that wait for the port
\* wake up. Without room in the handle table the session is closed at once.
Connect(c, p, s) ==
    /\ status[c] = "Running"
    /\ MayConnect(p)
    /\ ~client[s] /\ ~server[s]
    /\ client' = [client EXCEPT ![s] = TRUE]
    /\ port' = [port EXCEPT ![s] = p]
    /\ IF p \in HlePort
       THEN /\ hle_handler' = [hle_handler EXCEPT ![s] = TRUE]
            /\ UNCHANGED pending_sessions
       ELSE /\ pending_sessions' = [pending_sessions EXCEPT ![p] = Append(@, s)]
            /\ UNCHANGED hle_handler
    /\ Wake(Waiters(p))
    /\ UNCHANGED <<process, accepted, wakeup_event, context>>
    /\ DestroySessions([server EXCEPT ![s] = TRUE], [active_sessions EXCEPT ![p] = @ + 1],
                       pending_requesting_threads, currently_handling)

\* SendSyncRequest to an HLE service: it answers, and the thread sleeps for the
\* time this takes, or it makes the thread wait for an event.
SendToHle(c, s) ==
    /\ status[c] = "Running" /\ client[s] /\ server[s] /\ hle_handler[s]
    /\ \/ /\ status' = [status EXCEPT ![c] = "WaitIPC"]
          /\ wakeup_event' = wakeup_event \cup {c}
          /\ UNCHANGED context
       \/ /\ status' = [status EXCEPT ![c] = "WaitHleEvent"]
          /\ context' = [context EXCEPT ![c] = s]
          /\ UNCHANGED wakeup_event
    /\ UNCHANGED <<process, sessionVars, requestVars, pending_sessions, active_sessions, wait_objects>>

\* SendSyncRequest to an emulated server. If the session handles no request, one
\* of the threads that wait for it takes this one. When the server has closed the
\* session the call fails.
SendSyncRequest(c, s) ==
    /\ status[c] = "Running" /\ client[s] /\ server[s] /\ ~hle_handler[s]
    /\ IF currently_handling[s] = None /\ Waiters(s) # {}
       THEN \E t \in Waiters(s) :
              /\ status' = [status EXCEPT ![c] = "WaitIPC", ![t] = "Running"]
              /\ wait_objects' = [wait_objects EXCEPT ![t] = {}]
              /\ UNCHANGED <<process, client, port, accepted, hle_handler, wakeup_event, context,
                             pending_sessions>>
              /\ DestroySessions(server, active_sessions, pending_requesting_threads,
                                 [currently_handling EXCEPT ![s] = c])
       ELSE /\ status' = [status EXCEPT ![c] = "WaitIPC"]
            /\ pending_requesting_threads' = [pending_requesting_threads EXCEPT ![s] = Append(@, c)]
            /\ UNCHANGED <<process, sessionVars, wakeup_event, context, currently_handling, orphaned,
                           fault, pending_sessions, active_sessions, wait_objects>>

\* The IPC overhead is over.
IpcDelayOver(c) ==
    /\ c \in wakeup_event
    /\ wakeup_event' = wakeup_event \ {c}
    /\ status' = [status EXCEPT ![c] = "Running"]
    /\ UNCHANGED <<process, context, sessionVars, requestVars, pending_sessions, active_sessions,
                   wait_objects>>

\* The event of an HLE service, or its timeout. The context goes with the callback.
HleAnswers(c) ==
    /\ status[c] = "WaitHleEvent"
    /\ Wake({c})
    /\ context' = [context EXCEPT ![c] = None]
    /\ UNCHANGED <<process, client, port, accepted, hle_handler, wakeup_event, pending_sessions>>
    /\ DestroySessions(server, active_sessions, pending_requesting_threads, currently_handling)

\* Mutant: ClientDisconnected keeps the session.
StaysConnected(ss) == hle_handler

\* ClientDisconnected for the sessions in ss.
Disconnected(ss) == [s \in Session |-> hle_handler[s] /\ s \notin ss]

\* Mutant: the server threads are told while Session::client is still set.
WokenTooEarly(ss) == {}

\* The client end is null by now, so all threads that wait for the session wake up.
WokenByClose(ss) == {t \in Server : wait_objects[t] \cap ss # {}}

\* The destructor of the ClientSessions in ss.
CloseClientSessions(ss) ==
    /\ client' = [s \in Session |-> client[s] /\ s \notin ss]
    /\ hle_handler' = Disconnected(ss)
    /\ UNCHANGED <<port, accepted, pending_sessions>>
    /\ DestroySessions(server, active_sessions,
                       [s \in Session |-> IF s \in ss THEN <<>> ELSE pending_requesting_threads[s]],
                       [s \in Session |-> IF s \in ss THEN None ELSE currently_handling[s]])

\* CloseHandle by a client.
CloseClient(c, s) ==
    /\ status[c] = "Running" /\ client[s]
    /\ Wake(WokenByClose({s}))
    /\ UNCHANGED <<process, wakeup_event, context>>
    /\ CloseClientSessions({s})

\* TerminateProcess of the clients' process stops its threads and forgets some of
\* them, but its handles stay open as long as another process has a handle to it.
TerminateProcess ==
    /\ process = "Running" /\ process' = "Exited"
    /\ status' = [t \in Client \cup Server |-> IF t \in Client THEN "Dead" ELSE status[t]]
    /\ wakeup_event' = {}
    /\ \E kept \in SUBSET Client :
         context' = [c \in Client |-> IF c \in kept THEN context[c] ELSE None]
    /\ UNCHANGED <<client, port, accepted, hle_handler, pending_sessions, wait_objects>>
    /\ DestroySessions(server, active_sessions, pending_requesting_threads, currently_handling)

\* The last handle to the process is closed: the destructor clears its handle
\* table. Another process is started then.
DestroyProcess ==
    LET ss == {s \in Session : client[s]}
    IN  /\ process = "Exited" /\ process' = "Running"
        /\ Wake(Client \cup WokenByClose(ss))
        /\ context' = [c \in Client |-> None]
        /\ UNCHANGED wakeup_event
        /\ CloseClientSessions(ss)

-----------------------------------------------------------------------------
(* The calls of the server *)

AcceptSession(t, p) ==
    /\ status[t] = "Running"
    /\ pending_sessions[p] # <<>>
    /\ pending_sessions' = [pending_sessions EXCEPT ![p] = pop_back(@)]
    /\ accepted' = [accepted EXCEPT ![back(pending_sessions[p])] = TRUE]
    /\ UNCHANGED <<client, server, port, hle_handler, requestVars, threadVars, active_sessions,
                   wait_objects>>

\* CloseHandle by a server thread. A thread that waits for the session keeps it.
CloseServer(t, s) ==
    /\ status[t] = "Running" /\ accepted[s]
    /\ accepted' = [accepted EXCEPT ![s] = FALSE]
    /\ UNCHANGED <<client, port, hle_handler, threadVars, pending_sessions, wait_objects>>
    /\ DestroySessions(server, active_sessions, pending_requesting_threads, currently_handling)

\* Mutant: a session that handles a request takes another one.
ShouldWaitEmpty(o, handling) ==
    IF o \in Port THEN pending_sessions[o] = <<>>
    ELSE client[o] /\ pending_requesting_threads[o] = <<>>

ShouldWait(o, handling) ==
    IF o \in Port THEN pending_sessions[o] = <<>>
    ELSE client[o] /\ (pending_requesting_threads[o] = <<>> \/ handling[o] # None)

\* The receiving half of ReplyAndReceive, with the statuses and the handled
\* requests the reply has left. A session whose client is gone gives an error.
Receive(t, objects, st, handling) ==
    \/ /\ objects = {}
       /\ status' = st /\ currently_handling' = handling
       /\ UNCHANGED <<pending_requesting_threads, wait_objects>>
    \/ \E o \in objects :
       /\ ~ShouldWait(o, handling)
       /\ IF o \in Session /\ client[o]
          THEN /\ currently_handling' = [handling EXCEPT ![o] = back(pending_requesting_threads[o])]
               /\ pending_requesting_threads' = [pending_requesting_threads EXCEPT ![o] = pop_back(@)]
          ELSE currently_handling' = handling /\ UNCHANGED pending_requesting_threads
       /\ status' = st
       /\ UNCHANGED wait_objects
    \/ /\ objects # {} /\ \A o \in objects : ShouldWait(o, handling)
       /\ status' = [st EXCEPT ![t] = "WaitSynchAny"]
       /\ wait_objects' = [wait_objects EXCEPT ![t] = objects]
       /\ currently_handling' = handling
       /\ UNCHANGED pending_requesting_threads

\* ReplyAndReceive without a reply, or with one to the request that the session
\* target handles; without such a request, or without its client, the call fails.
\* ResumeFromWait leaves a dead thread as it is, after an assertion that only a
\* debug build has.
ReplyAndReceive(t, target, objects) ==
    /\ status[t] = "Running"
    /\ \/ /\ target = None
          /\ Receive(t, objects, status, currently_handling)
          /\ UNCHANGED fault
       \/ /\ target # None /\ accepted[target] /\ client[target]
          /\ LET c == currently_handling[target]
             IN  /\ c # None
                 /\ Receive(t, objects,
                            [status EXCEPT ![c] = IF @ = "Dead" THEN @ ELSE "Running"],
                            [currently_handling EXCEPT ![target] = None])
                 /\ fault' = IF status[c] = "Dead" THEN "dead_resumed" ELSE fault
    /\ UNCHANGED <<sessionVars, process, wakeup_event, context, orphaned, pending_sessions,
                   active_sessions>>

ServerHandles == {s \in Session : accepted[s]} \cup (Port \ HlePort)

Next ==
    \/ \E c \in Client :
         \/ \E s \in Session :
              \/ \E p \in Port : Connect(c, p, s)
              \/ SendToHle(c, s) \/ SendSyncRequest(c, s) \/ CloseClient(c, s)
         \/ IpcDelayOver(c) \/ HleAnswers(c)
    \/ TerminateProcess \/ DestroyProcess
    \/ \E t \in Server :
         \/ \E p \in Port : AcceptSession(t, p)
         \/ \E s \in Session : CloseServer(t, s)
         \/ \E target \in Session \cup {None}, objects \in SUBSET ServerHandles :
              ReplyAndReceive(t, target, objects)

Spec == Init /\ [][Next]_vars

-----------------------------------------------------------------------------
(* Properties *)

\* A port counts exactly the ServerSessions that exist, and none exists that
\* nobody can use any more: however the two ends are closed, while threads wait
\* for them or an HLE service still works on a request, the place is given back.
ConnectionsCounted ==
    /\ \A p \in Port : active_sessions[p] = Cardinality({s \in Session : server[s] /\ port[s] = p})
    /\ \A s \in Session : server[s] =>
          client[s] \/ accepted[s] \/ Has(pending_sessions[port[s]], s)
          \/ Waiters(s) # {} \/ \E c \in Client : context[c] = s

\* The requests a session has: at 0 the one it handles, then the pending ones.
Held(s) ==
    [i \in 0 .. Len(pending_requesting_threads[s]) |->
        IF i = 0 THEN currently_handling[s] ELSE pending_requesting_threads[s][i]]

\* Some server has a request of c.
Known(c) == \E s \in Session : c \in Requests(s)

\* No request is held twice and none is overwritten: a thread that waits for a reply
\* is known to exactly one session, unless it sleeps until the overhead is over or an
\* end of its session was closed under it ("TODO(Subv): Wake up all the ClientSession's
\* waiting threads"). A server never has the request of a thread that goes on already.
RequestsAgree ==
    /\ \A s, r \in Session : \A i \in DOMAIN Held(s), j \in DOMAIN Held(r) :
          Held(s)[i] = Held(r)[j] /\ Held(s)[i] # None => s = r /\ i = j
    /\ \A c \in Client :
          /\ status[c] = "WaitIPC" =>
                /\ Known(c) \/ c \in wakeup_event \/ c \in orphaned
                /\ ~(Known(c) /\ (c \in wakeup_event \/ c \in orphaned))
                /\ ~(c \in wakeup_event /\ c \in orphaned)
          /\ Known(c) => status[c] = "WaitIPC" \/ (status[c] = "Dead" /\ process = "Exited")

\* The server threads that sleep although an object they wait for is ready.
Overlooked ==
    {x \in Server \X Object : x[2] \in wait_objects[x[1]] /\ ~ShouldWait(x[2], currently_handling)}

\* The request that s handles is answered: it is gone, and s has both ends still.
Replied(s) ==
    client'[s] /\ server'[s] /\ currently_handling[s] # None /\ currently_handling'[s] = None

\* No request, connection or end of a client is slept through. The one step that
\* may leave a thread asleep although its session has a request is the reply of
\* another thread for this session: it frees the session, and nobody is told.
WakeupsKept ==
    [][\A x \in Overlooked' \ Overlooked : x[2] \in Session /\ Replied(x[2])]_vars

\* "This should never happen, as threads must complete before being stopped"
\* (ResumeFromWait of a dead thread): no reply resumes a thread that was stopped.
\* Violated: TerminateProcess leaves the request with the server.
NoDeadResumed == fault # "dead_resumed"

=============================================================================
