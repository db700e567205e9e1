------------------------- MODULE IpcSession_proofs --------------------------
(***************************************************************************)
(* The inductive invariant of IpcSession, that every step preserves it,    *)
(* and what follows, for any number of threads, sessions and ports.        *)
(***************************************************************************)
EXTENDS IpcSession, FiniteSetTheorems, TLAPS

-----------------------------------------------------------------------------
(* The inductive invariant *)

\* A ServerSession exists exactly as long as something refers to it.
Kept == \A s \in Session : server[s] <=> Referenced(s)

\* The sessions a port has to count.
Connected(p) == {s \in Session : server[s] /\ port[s] = p}

Counted == \A p \in Port : active_sessions[p] = Cardinality(Connected(p))

\* A session is pending at its own port, and an HLE handler goes with the client.
Placed ==
    /\ \A p \in Port, s \in Session : Has(pending_sessions[p], s) => port[s] = p
    /\ \A s \in Session : hle_handler[s] => client[s]

\* A server thread that runs waits for nothing, and only a client that waits for
\* an HLE service, or was stopped then, has a context.
Idle ==
    /\ \A t \in Server : status[t] = "Running" => wait_objects[t] = {}
    /\ \A c \in Client : status[c] \in {"Running", "WaitIPC"} => context[c] = None

\* What the lists pend and the handled requests curr hold for s.
Holds(pend, curr, s) == Elements(pend[s]) \cup ({curr[s]} \ {None})

\* The requests s had, and the one a step gives it in curr.
Had(curr, s) == Requests(s) \cup ({curr[s]} \ {None})

\* No list has a thread twice, or the thread whose request is handled.
NoRepeat(pend, curr) ==
    \A s \in Session : \A i \in 1 .. Len(pend[s]) :
        /\ pend[s][i] # curr[s]
        /\ \A j \in 1 .. Len(pend[s]) : pend[s][i] = pend[s][j] => i = j

\* No thread has requests at two sessions.
Apart == \A s, r \in Session : s # r => Requests(s) \cap Requests(r) = {}

\* A session that lost an end has no requests.
Silent == \A s \in Session : ~client[s] \/ ~server[s] => Requests(s) = {}

\* What RequestsAgree says of each thread, and who sleeps or is orphaned waits.
Waiting ==
    /\ \A c \in Client :
          /\ status[c] = "WaitIPC" =>
                /\ Known(c) \/ c \in wakeup_event \/ c \in orphaned
                /\ ~(Known(c) /\ (c \in wakeup_event \/ c \in orphaned))
                /\ ~(c \in wakeup_event /\ c \in orphaned)
          /\ Known(c) => status[c] = "WaitIPC" \/ (status[c] = "Dead" /\ process = "Exited")
    /\ \A c \in wakeup_event \cup orphaned : status[c] = "WaitIPC"
    /\ process = "Exited" => \A c \in Client : status[c] = "Dead"

RequestInv ==
    /\ NoRepeat(pending_requesting_threads, currently_handling)
    /\ Apart /\ Silent /\ Waiting

IInv == TypeOK /\ Kept /\ Counted /\ Placed /\ Idle /\ RequestInv

-----------------------------------------------------------------------------
(* Lists *)

LEMMA AppendFacts ==
    ASSUME NEW S, NEW q \in Seq(S), NEW x \in S
    PROVE  /\ Append(q, x) \in Seq(S)
           /\ \A y : Has(Append(q, x), y) <=> Has(q, y) \/ y = x
           /\ Elements(Append(q, x)) = Elements(q) \cup {x}
           /\ Len(Append(q, x)) = Len(q) + 1
           /\ \A i \in 1 .. Len(q) : Append(q, x)[i] = q[i]
           /\ Append(q, x)[Len(q) + 1] = x
<1>1. /\ Append(q, x) \in Seq(S) /\ Len(q) \in Nat
      /\ Len(Append(q, x)) = Len(q) + 1
      /\ \A i \in 1 .. Len(q) : Append(q, x)[i] = q[i]
      /\ Append(q, x)[Len(q) + 1] = x
      /\ DOMAIN q = 1 .. Len(q) /\ DOMAIN Append(q, x) = 1 .. (Len(q) + 1)
  OBVIOUS
<1>2. \A i : i \in 1 .. (Len(q) + 1) <=> i \in 1 .. Len(q) \/ i = Len(q) + 1
  BY <1>1
<1>3. \A y : Has(Append(q, x), y) <=> Has(q, y) \/ y = x
  BY Zenon, <1>1, <1>2 DEF Has
<1>4. Elements(Append(q, x)) = Elements(q) \cup {x}
  BY Zenon, <1>1, <1>2 DEF Elements
<1> QED
  BY Zenon, <1>1, <1>3, <1>4

LEMMA PopBackFacts ==
    ASSUME NEW S, NEW q \in Seq(S), q # <<>>
    PROVE  /\ pop_back(q) \in Seq(S) /\ back(q) \in S
           /\ \A y : Has(q, y) <=> Has(pop_back(q), y) \/ y = back(q)
           /\ Elements(q) = Elements(pop_back(q)) \cup {back(q)}
           /\ Len(q) \in Nat /\ Len(q) > 0
           /\ Len(pop_back(q)) = Len(q) - 1
           /\ \A i \in 1 .. Len(pop_back(q)) : pop_back(q)[i] = q[i]
           /\ back(q) = q[Len(q)]
<1>1. Len(q) \in Nat /\ Len(q) > 0 /\ DOMAIN q = 1 .. Len(q) /\ back(q) \in S /\ back(q) = q[Len(q)]
  BY DEF back
<1>2. /\ pop_back(q) \in Seq(S) /\ Len(pop_back(q)) = Len(q) - 1
      /\ \A i \in 1 .. Len(pop_back(q)) : pop_back(q)[i] = q[i]
      /\ DOMAIN pop_back(q) = 1 .. (Len(q) - 1)
  BY <1>1 DEF pop_back
<1>3. \A i : i \in 1 .. Len(q) <=> i \in 1 .. (Len(q) - 1) \/ i = Len(q)
  BY <1>1
<1>4. \A y : Has(q, y) <=> Has(pop_back(q), y) \/ y = back(q)
  BY Zenon, <1>1, <1>2, <1>3 DEF Has
<1>5. Elements(q) = Elements(pop_back(q)) \cup {back(q)}
  BY Zenon, <1>1, <1>2, <1>3 DEF Elements
<1> QED
  BY Zenon, <1>1, <1>2, <1>4, <1>5

LEMMA EmptyFacts ==
    /\ \A S : <<>> \in Seq(S)
    /\ Elements(<<>>) = {} /\ Len(<<>>) = 0
    /\ \A y : ~Has(<<>>, y)
BY DEF Elements, Has

-----------------------------------------------------------------------------
(* What DestroySessions does *)

\* What is left for a step to show of the lists pend and curr it passes on.
RequestsReady(alive, pend, curr) ==
    /\ pend \in [Session -> Seq(Client)] /\ curr \in [Session -> Client \cup {None}]
    /\ NoRepeat(pend, curr)
    /\ \A s, r \in Session : s # r => Had(curr, s) \cap Had(curr, r) = {}
    /\ \A s \in Session : Holds(pend, curr, s) \subseteq Had(curr, s)
    /\ \A s \in Session : ~(client[s] /\ ~client'[s]) => Holds(pend, curr, s) = Had(curr, s)
    /\ \A s \in Session : ~alive[s] \/ ~client'[s] => Holds(pend, curr, s) = {}
    /\ \A c \in Client : status'[c] = "WaitIPC" =>
          /\ (\E s \in Session : c \in Had(curr, s)) \/ c \in wakeup_event' \/ c \in orphaned
          /\ ~((\E s \in Session : c \in Had(curr, s)) /\ (c \in wakeup_event' \/ c \in orphaned))
          /\ ~(c \in wakeup_event' /\ c \in orphaned)
    /\ \A s \in Session : \A c \in Holds(pend, curr, s) :
          status'[c] = "WaitIPC" \/ (status'[c] = "Dead" /\ process' = "Exited")
    /\ \A c \in wakeup_event' : status'[c] = "WaitIPC"
    /\ process' = "Exited" => \A c \in Client : status'[c] = "Dead"

\* The types, and which sessions and requests are left.
LEMMA DestroyTypes ==
    ASSUME NEW alive \in [Session -> BOOLEAN], NEW count, NEW pend, NEW curr,
           DestroySessions(alive, count, pend, curr), RequestsReady(alive, pend, curr)
    PROVE  /\ server' \in [Session -> BOOLEAN]
           /\ pending_requesting_threads' \in [Session -> Seq(Client)]
           /\ currently_handling' \in [Session -> Client \cup {None}]
           /\ orphaned' \subseteq Client
           /\ \A s \in Session : server'[s] <=> alive[s] /\ Referenced(s)'
           /\ \A s \in Session :
                 \/ /\ pending_requesting_threads'[s] = pend[s]
                    /\ currently_handling'[s] = curr[s]
                 \/ /\ alive[s] /\ ~server'[s]
                    /\ pending_requesting_threads'[s] = <<>>
                    /\ currently_handling'[s] = None
<1> DEFINE gone == {s \in Session : alive[s] /\ ~Referenced(s)'}
<1>1. /\ server' = [s \in Session |-> alive[s] /\ s \notin gone]
      /\ pending_requesting_threads' = [s \in Session |-> IF s \in gone THEN <<>> ELSE pend[s]]
      /\ currently_handling' = [s \in Session |-> IF s \in gone THEN None ELSE curr[s]]
      /\ orphaned' \subseteq Client
  BY Zenon DEF DestroySessions
<1>2. \A s \in Session : s \in gone <=> alive[s] /\ ~Referenced(s)'
  BY Zenon
<1> HIDE DEF gone
<1>3. /\ server' \in [Session -> BOOLEAN]
      /\ pending_requesting_threads' \in [Session -> Seq(Client)]
      /\ currently_handling' \in [Session -> Client \cup {None}]
  <2>1. pend \in [Session -> Seq(Client)] /\ curr \in [Session -> Client \cup {None}]
    BY Zenon DEF RequestsReady
  <2> QED
    BY Zenon, <1>1, <2>1, EmptyFacts
<1>4. \A s \in Session : server'[s] <=> alive[s] /\ Referenced(s)'
  BY Zenon, <1>1, <1>2
<1>5. ASSUME NEW s \in Session
      PROVE  \/ pending_requesting_threads'[s] = pend[s] /\ currently_handling'[s] = curr[s]
             \/ /\ alive[s] /\ ~server'[s]
                /\ pending_requesting_threads'[s] = <<>> /\ currently_handling'[s] = None
  BY Zenon, <1>1, <1>2
<1> QED
  BY Zenon, <1>1, <1>3, <1>4, <1>5

\* What is left for a step to show of the sessions and counts it passes on.
ConnectionsReady(alive, count) ==
    /\ alive \in [Session -> BOOLEAN] /\ count \in [Port -> Nat]
    /\ \A p \in Port : count[p] <= MaxSessions[p]
    /\ \A p \in Port : count[p] = Cardinality({s \in Session : alive[s] /\ port'[s] = p})
    /\ \A s \in Session : alive[s] /\ ~Referenced(s)' => port'[s] = port[s]
    /\ \A s \in Session : Referenced(s)' => alive[s]

\* The places that are given back are those of the sessions that are destroyed.
LEMMA DestroyCounts ==
    ASSUME NEW alive, NEW count, NEW pend, NEW curr,
           DestroySessions(alive, count, pend, curr),
           ConnectionsReady(alive, count)
    PROVE  /\ Counted'
           /\ active_sessions' \in [Port -> Nat]
           /\ \A p \in Port : active_sessions'[p] <= MaxSessions[p]
<1> USE DEF ConnectionsReady
<1> DEFINE gone == {s \in Session : alive[s] /\ ~Referenced(s)'}
           before(p) == {s \in Session : alive[s] /\ port'[s] = p}
           lost(p) == {s \in gone : port[s] = p}
<1>1. /\ server' = [s \in Session |-> alive[s] /\ s \notin gone]
      /\ active_sessions' = [p \in Port |-> count[p] - Cardinality(lost(p))]
  BY Zenon DEF DestroySessions
<1>2. ASSUME NEW p \in Port
      PROVE  /\ Connected(p)' = before(p) \ lost(p)
             /\ before(p) \cap lost(p) = lost(p)
  BY Zenon, <1>1 DEF Connected
<1>3. ASSUME NEW p \in Port
      PROVE  /\ active_sessions'[p] = Cardinality(Connected(p)')
             /\ active_sessions'[p] \in Nat /\ active_sessions'[p] <= MaxSessions[p]
  <2>1. IsFiniteSet(before(p))
    <3>1. before(p) \in SUBSET Session
      BY Zenon
    <3> QED
      BY Zenon, <3>1, FS_Subset, IpcAssumption
  <2>2. /\ IsFiniteSet(before(p) \ lost(p))
        /\ Cardinality(before(p) \ lost(p)) = Cardinality(before(p)) - Cardinality(before(p) \cap lost(p))
    BY Zenon, <2>1, FS_Difference
  <2>3. IsFiniteSet(before(p) \cap lost(p))
    BY Zenon, <2>1, FS_Intersection
  <2>4. /\ Cardinality(before(p) \ lost(p)) \in Nat
        /\ Cardinality(before(p) \cap lost(p)) \in Nat
    BY Zenon, <2>2, <2>3, FS_CardinalityType
  <2>5. active_sessions'[p] = count[p] - Cardinality(lost(p))
    BY Zenon, <1>1
  <2>6. count[p] = Cardinality(before(p)) /\ count[p] \in Nat /\ count[p] <= MaxSessions[p]
    BY Zenon
  <2>7. MaxSessions[p] \in Nat
    BY Zenon, IpcAssumption
  <2> HIDE DEF before, lost, ConnectionsReady
  <2>8. /\ Cardinality(Connected(p)') = Cardinality(before(p)) - Cardinality(lost(p))
        /\ Cardinality(Connected(p)') \in Nat /\ Cardinality(lost(p)) \in Nat
    BY Zenon, <1>2, <2>2, <2>4
  <2> QED
    BY <2>5, <2>6, <2>7, <2>8
<1> HIDE DEF gone, before, lost
<1>4. Counted'
  BY Zenon, <1>3 DEF Counted
<1>5. active_sessions' \in [Port -> Nat]
  BY Zenon, <1>1, <1>3
<1> QED
  BY Zenon, <1>3, <1>4, <1>5

\* Requests of sessions that lose an end are forgotten and their threads orphaned;
\* all others stay as they are in pend and curr.
LEMMA DestroyRequests ==
    ASSUME NEW alive \in [Session -> BOOLEAN], NEW count, NEW pend, NEW curr,
           DestroySessions(alive, count, pend, curr),
           RequestsReady(alive, pend, curr)
    PROVE  RequestInv'
<1> DEFINE closed == {s \in Session : (alive[s] /\ ~Referenced(s)') \/ (client[s] /\ ~client'[s])}
           H(s) == Holds(pend, curr, s)
<1>1. /\ \A s \in Session : server'[s] <=> alive[s] /\ Referenced(s)'
      /\ \A s \in Session :
            \/ /\ pending_requesting_threads'[s] = pend[s]
               /\ currently_handling'[s] = curr[s]
            \/ /\ alive[s] /\ ~server'[s]
               /\ pending_requesting_threads'[s] = <<>>
               /\ currently_handling'[s] = None
  BY Zenon, DestroyTypes
<1> USE DEF RequestsReady
<1>2. \A s \in Session :
        /\ Requests(s)' = H(s) \/ Requests(s)' = {}
        /\ s \notin closed => Requests(s)' = Had(curr, s)
        /\ s \in closed => Requests(s)' = {}
  <2> SUFFICES ASSUME NEW s \in Session
               PROVE  /\ Requests(s)' = H(s) \/ Requests(s)' = {}
                      /\ s \notin closed => Requests(s)' = Had(curr, s)
                      /\ s \in closed => Requests(s)' = {}
    BY Zenon
  <2>1. Requests(s)' = Elements(pending_requesting_threads'[s]) \cup ({currently_handling'[s]} \ {None})
    BY Zenon DEF Requests
  <2>2. CASE pending_requesting_threads'[s] = pend[s] /\ currently_handling'[s] = curr[s]
             /\ ~(alive[s] /\ ~server'[s])
    <3>1. Requests(s)' = H(s)
      BY Zenon, <2>1, <2>2 DEF Holds
    <3>2. s \in closed => H(s) = {}
      BY Zenon, <1>1, <2>2
    <3>3. s \notin closed => H(s) = Had(curr, s)
      BY Zenon, <1>1, <2>2
    <3> QED
      BY Zenon, <3>1, <3>2, <3>3
  <2>3. CASE alive[s] /\ ~server'[s] /\ pending_requesting_threads'[s] = <<>>
             /\ currently_handling'[s] = None
    <3>1. Requests(s)' = {}
      BY Zenon, <2>1, <2>3, EmptyFacts
    <3>2. s \in closed
      BY Zenon, <1>1, <2>3
    <3> QED
      BY Zenon, <3>1, <3>2
  <2>4. alive[s] /\ ~server'[s] => pending_requesting_threads'[s] = <<>> /\ currently_handling'[s] = None
    BY Zenon, <1>1 DEF DestroySessions
  <2> QED
    BY Zenon, <1>1, <2>2, <2>3, <2>4
<1>3. orphaned' = {c \in Client : /\ status'[c] = "WaitIPC"
                                  /\ \/ c \in orphaned
                                     \/ \E s \in closed : c \in Had(curr, s)}
  <2>1. orphaned' = {c \in Client : /\ status'[c] = "WaitIPC"
                                    /\ \/ c \in orphaned
                                       \/ \E s \in closed : c \in Requests(s) \/ c = curr[s]}
    BY Zenon DEF DestroySessions
  <2>2. \A c \in Client, s \in Session : c \in Had(curr, s) <=> c \in Requests(s) \/ c = curr[s]
    BY Zenon, IpcAssumption DEF Had
  <2> HIDE DEF closed
  <2>3. closed \subseteq Session
    BY Zenon DEF closed
  <2> QED
    BY Zenon, <2>1, <2>2, <2>3
<1>4. closed \subseteq Session
  BY Zenon
<1>5. NoRepeat(pending_requesting_threads, currently_handling)'
  BY <1>1, EmptyFacts DEF NoRepeat
<1>6. Silent'
  <2> SUFFICES ASSUME NEW s \in Session, ~client'[s] \/ ~server'[s]
               PROVE  Requests(s)' = {}
    BY Zenon DEF Silent
  <2>1. CASE s \in closed
    BY Zenon, <1>2, <2>1
  <2>2. CASE s \notin closed
    <3>1. ~client'[s] \/ ~alive[s]
      BY Zenon, <1>1, <2>2
    <3>2. H(s) = {}
      BY Zenon, <3>1
    <3> QED
      BY Zenon, <1>2, <3>2
  <2> QED
    BY Zenon, <2>1, <2>2
<1>7. Apart'
  <2> HIDE DEF closed, H
  <2> QED
    BY Zenon, <1>2 DEF Apart
<1>8. Waiting'
  <2> SUFFICES ASSUME NEW c \in Client
               PROVE  /\ status'[c] = "WaitIPC" =>
                           /\ Known(c)' \/ c \in wakeup_event' \/ c \in orphaned'
                           /\ ~(Known(c)' /\ (c \in wakeup_event' \/ c \in orphaned'))
                           /\ ~(c \in wakeup_event' /\ c \in orphaned')
                      /\ Known(c)' => status'[c] = "WaitIPC" \/ (status'[c] = "Dead" /\ process' = "Exited")
    BY Zenon, <1>3 DEF Waiting
  <2>1. Known(c)' <=> \E s \in Session : c \in Requests(s)'
    BY Zenon DEF Known
  <2> HIDE DEF closed, H
  <2>2. Known(c)' => \E s \in Session : s \notin closed /\ c \in Had(curr, s)
    BY <1>2, <2>1
  <2>3. (\E s \in Session : s \notin closed /\ c \in Had(curr, s)) => Known(c)'
    BY <1>2, <2>1
  <2>4. Known(c)' => \E s \in Session : c \in H(s)
    BY <1>2, <2>1
  <2>5. Known(c)' => status'[c] = "WaitIPC" \/ (status'[c] = "Dead" /\ process' = "Exited")
    BY Zenon, <2>4 DEF H
  <2>6. ASSUME status'[c] = "WaitIPC"
        PROVE  /\ Known(c)' \/ c \in wakeup_event' \/ c \in orphaned'
               /\ ~(Known(c)' /\ (c \in wakeup_event' \/ c \in orphaned'))
               /\ ~(c \in wakeup_event' /\ c \in orphaned')
    <3>1. c \in orphaned' <=> c \in orphaned \/ \E s \in closed : c \in Had(curr, s)
      BY Zenon, <1>3, <2>6
    <3> QED
      BY Zenon, <1>4, <2>2, <2>3, <2>6, <3>1
  <2> QED
    BY Zenon, <2>5, <2>6
<1> QED
  BY Zenon, <1>5, <1>6, <1>7, <1>8 DEF RequestInv

\* The usual step: requests are only forgotten, with the client's end, and no
\* thread begins to wait.
OnlyForgets(alive, pend, curr) ==
    /\ pend \in [Session -> Seq(Client)] /\ curr \in [Session -> Client \cup {None}]
    /\ \A s \in Session :
          IF client[s] /\ ~client'[s]
          THEN pend[s] = <<>> /\ curr[s] = None
          ELSE pend[s] = pending_requesting_threads[s] /\ curr[s] = currently_handling[s]
    /\ \A s \in Session : server[s] => alive[s]
    /\ \A c \in Client : status'[c] = "WaitIPC" =>
          status[c] = "WaitIPC" /\ (c \in wakeup_event' <=> c \in wakeup_event)
    /\ \A s \in Session : \A c \in Holds(pend, curr, s) :
          status'[c] = "WaitIPC" \/ (status'[c] = "Dead" /\ process' = "Exited")
    /\ \A c \in wakeup_event' : status'[c] = "WaitIPC"
    /\ process' = "Exited" => \A c \in Client : status'[c] = "Dead"

LEMMA UsualRequests ==
    ASSUME RequestInv, NEW alive \in [Session -> BOOLEAN], NEW pend, NEW curr,
           OnlyForgets(alive, pend, curr)
    PROVE  RequestsReady(alive, pend, curr)
<1> USE DEF OnlyForgets
<1>1. \A s \in Session : Had(curr, s) = Requests(s)
  BY Zenon DEF Had, Requests
<1>2. NoRepeat(pend, curr)
  BY EmptyFacts DEF RequestInv, NoRepeat
<1>3. \A s \in Session :
        IF client[s] /\ ~client'[s] THEN Holds(pend, curr, s) = {}
                                    ELSE Holds(pend, curr, s) = Requests(s)
  BY Zenon, EmptyFacts DEF Holds, Requests
<1>4. \A s, r \in Session : s # r => Had(curr, s) \cap Had(curr, r) = {}
  BY Zenon, <1>1 DEF RequestInv, Apart
<1>5. \A s \in Session : ~alive[s] \/ ~client'[s] => Holds(pend, curr, s) = {}
  BY <1>3 DEF RequestInv, Silent
<1>6. \A c \in Client : Known(c) <=> \E s \in Session : c \in Had(curr, s)
  BY Zenon, <1>1 DEF Known
<1>7. \A c \in Client : status'[c] = "WaitIPC" =>
        /\ (\E s \in Session : c \in Had(curr, s)) \/ c \in wakeup_event' \/ c \in orphaned
        /\ ~((\E s \in Session : c \in Had(curr, s)) /\ (c \in wakeup_event' \/ c \in orphaned))
        /\ ~(c \in wakeup_event' /\ c \in orphaned)
  BY Zenon, <1>6 DEF RequestInv, Waiting
<1>8. \A s \in Session : Holds(pend, curr, s) \subseteq Had(curr, s)
  BY <1>1, <1>3
<1>9. \A s \in Session : ~(client[s] /\ ~client'[s]) => Holds(pend, curr, s) = Had(curr, s)
  BY Zenon, <1>1, <1>3
<1> QED
  BY Zenon, <1>2, <1>4, <1>5, <1>7, <1>8, <1>9 DEF RequestsReady

\* The types of what DestroySessions does not touch.
RestOK ==
    /\ status \in [Client \cup Server -> {"Running", "WaitIPC", "WaitHleEvent", "WaitSynchAny", "Dead"}]
    /\ process \in {"Running", "Exited"}
    /\ client \in [Session -> BOOLEAN]
    /\ port \in [Session -> Port \cup {None}]
    /\ accepted \in [Session -> BOOLEAN]
    /\ hle_handler \in [Session -> BOOLEAN]
    /\ pending_sessions \in [Port -> Seq(Session)]
    /\ wait_objects \in [Server -> SUBSET Object]
    /\ wakeup_event \subseteq Client
    /\ context \in [Client -> Session \cup {None}]

\* A step that ends in DestroySessions preserves the invariant.
LEMMA DestroyStep ==
    ASSUME IInv, NEW alive, NEW count, NEW pend, NEW curr,
           DestroySessions(alive, count, pend, curr),
           ConnectionsReady(alive, count), RequestsReady(alive, pend, curr),
           RestOK', Placed', Idle'
    PROVE  IInv'
<1>1. /\ alive \in [Session -> BOOLEAN]
      /\ \A s \in Session : Referenced(s)' => alive[s]
  BY Zenon DEF ConnectionsReady
<1>2. RequestInv'
  BY <1>1, Zenon, DestroyRequests
<1>3. /\ server' \in [Session -> BOOLEAN]
      /\ pending_requesting_threads' \in [Session -> Seq(Client)]
      /\ currently_handling' \in [Session -> Client \cup {None}]
      /\ orphaned' \subseteq Client
      /\ \A s \in Session : server'[s] <=> alive[s] /\ Referenced(s)'
  BY <1>1, Zenon, DestroyTypes
<1>4. /\ Counted'
      /\ active_sessions' \in [Port -> Nat]
      /\ \A p \in Port : active_sessions'[p] <= MaxSessions[p]
  BY Zenon, DestroyCounts
<1>5. Kept'
  BY Zenon, <1>1, <1>3 DEF Kept
<1>6. fault' \in {"none", "dead_resumed"}
  BY Zenon DEF DestroySessions, IInv, TypeOK
<1>7. TypeOK'
  BY Zenon, <1>3, <1>4, <1>6 DEF TypeOK, RestOK
<1> QED
  BY Zenon, <1>2, <1>4, <1>5, <1>7 DEF IInv

\* References are only dropped, and sessions keep their ports.
OnlyDrops ==
    /\ port' = port /\ pending_sessions' = pending_sessions
    /\ \A s \in Session : (accepted'[s] => accepted[s]) /\ (hle_handler'[s] => hle_handler[s])
    /\ \A t \in Server : wait_objects'[t] \subseteq wait_objects[t]
    /\ \A c \in Client : context'[c] \in {context[c], None}

LEMMA UsualConnections ==
    ASSUME IInv, OnlyDrops
    PROVE  ConnectionsReady(server, active_sessions)
<1>1. \A s \in Session : Referenced(s)' => Referenced(s)
  BY Zenon, IpcAssumption DEF OnlyDrops, Referenced
<1>2. \A s \in Session : Referenced(s)' => server[s]
  BY Zenon, <1>1 DEF IInv, Kept
<1>3. \A p \in Port : active_sessions[p] = Cardinality({s \in Session : server[s] /\ port'[s] = p})
  BY Zenon DEF IInv, Counted, Connected, OnlyDrops
<1> QED
  BY Zenon, <1>2, <1>3 DEF ConnectionsReady, IInv, TypeOK, OnlyDrops

\* A step in which references and requests are only dropped preserves the invariant.
LEMMA UsualStep ==
    ASSUME IInv, OnlyDrops, NEW pend, NEW curr, OnlyForgets(server, pend, curr),
           DestroySessions(server, active_sessions, pend, curr), RestOK', Placed', Idle'
    PROVE  IInv'
<1>1. ConnectionsReady(server, active_sessions)
  BY Zenon, UsualConnections
<1>2. server \in [Session -> BOOLEAN] /\ RequestInv
  BY Zenon DEF IInv, TypeOK
<1>3. RequestsReady(server, pend, curr)
  BY <1>2, Zenon, UsualRequests
<1> QED
  BY <1>1, <1>3, Zenon, DestroyStep

-----------------------------------------------------------------------------
(* Every step preserves the invariant *)

LEMMA InitInv ==
    ASSUME Init
    PROVE  IInv
<1>1. TypeOK
  BY EmptyFacts, IpcAssumption DEF Init, TypeOK
<1>2. \A s \in Session : ~Referenced(s) /\ ~server[s]
  BY Zenon, EmptyFacts, IpcAssumption DEF Init, Referenced
<1>3. Kept
  BY Zenon, <1>2 DEF Kept
<1>4. Counted
  <2>1. \A p \in Port : Connected(p) = {}
    BY Zenon, <1>2 DEF Connected
  <2> QED
    BY Zenon, <2>1, FS_EmptySet DEF Counted, Init
<1>5. Placed /\ Idle
  BY Zenon, EmptyFacts DEF Placed, Idle, Init
<1>6. \A s \in Session : Requests(s) = {}
  BY Zenon, EmptyFacts DEF Requests, Init
<1>7. NoRepeat(pending_requesting_threads, currently_handling)
  BY EmptyFacts DEF NoRepeat, Init
<1>8. Apart /\ Silent
  BY Zenon, <1>6 DEF Apart, Silent
<1>9. Waiting
  BY Zenon, <1>6 DEF Waiting, Known, Init
<1> QED
  BY Zenon, <1>1, <1>3, <1>4, <1>5, <1>7, <1>8, <1>9 DEF IInv, RequestInv

\* The threads whose requests a session has.
LEMMA RequestFacts ==
    ASSUME TypeOK, RequestInv, NEW s \in Session
    PROVE  /\ Holds(pending_requesting_threads, currently_handling, s) = Requests(s)
           /\ Requests(s) \subseteq Client
           /\ \A c \in Requests(s) :
                 status[c] = "WaitIPC" \/ (status[c] = "Dead" /\ process = "Exited")
<1>1. Holds(pending_requesting_threads, currently_handling, s) = Requests(s)
  BY Zenon DEF Holds, Requests
<1>2. Requests(s) \subseteq Client
  BY DEF Requests, Elements, TypeOK
<1> QED
  BY Zenon, <1>1, <1>2 DEF RequestInv, Waiting, Known

LEMMA HleAnswersInv ==
    ASSUME IInv, NEW c \in Client, HleAnswers(c)
    PROVE  IInv'
<1>1. TypeOK /\ Placed /\ Idle /\ RequestInv
  BY Zenon DEF IInv
<1>2. c \notin Server
  BY Zenon, IpcAssumption
<1>3. RestOK'
  BY Zenon, <1>1, <1>2 DEF TypeOK, RestOK, HleAnswers, Wake
<1>4. Placed' /\ Idle'
  BY Zenon, <1>1, <1>2 DEF Placed, Idle, HleAnswers, Wake, TypeOK
<1>5. OnlyDrops
  BY Zenon, <1>1, <1>2 DEF OnlyDrops, HleAnswers, Wake, TypeOK
<1>6. \A s \in Session : c \notin Requests(s)
  BY Zenon, <1>1 DEF RequestInv, Waiting, Known, HleAnswers
<1>7. OnlyForgets(server, pending_requesting_threads, currently_handling)
  <2>1. \A s \in Session : \A d \in Holds(pending_requesting_threads, currently_handling, s) :
           status'[d] = "WaitIPC" \/ (status'[d] = "Dead" /\ process' = "Exited")
    BY Zenon, <1>1, <1>6, RequestFacts DEF HleAnswers, Wake
  <2>2. /\ \A d \in wakeup_event' : status'[d] = "WaitIPC"
        /\ process' = "Exited" => \A d \in Client : status'[d] = "Dead"
    BY Zenon, <1>1 DEF HleAnswers, Wake, TypeOK, RequestInv, Waiting
  <2> QED
    BY Zenon, <1>1, <2>1, <2>2 DEF OnlyForgets, HleAnswers, Wake, TypeOK
<1> QED
  BY <1>3, <1>4, <1>5, <1>7, Zenon, UsualStep DEF HleAnswers

LEMMA CloseServerInv ==
    ASSUME IInv, NEW t \in Server, NEW s \in Session, CloseServer(t, s)
    PROVE  IInv'
<1>1. TypeOK /\ Placed /\ Idle /\ RequestInv
  BY Zenon DEF IInv
<1>2. RestOK'
  BY Zenon, <1>1 DEF TypeOK, RestOK, CloseServer, threadVars
<1>3. Placed' /\ Idle'
  BY Zenon, <1>1 DEF Placed, Idle, CloseServer, threadVars
<1>4. OnlyDrops
  BY Zenon, <1>1 DEF OnlyDrops, CloseServer, threadVars, TypeOK
<1>5. OnlyForgets(server, pending_requesting_threads, currently_handling)
  <2>1. \A r \in Session : \A d \in Holds(pending_requesting_threads, currently_handling, r) :
           status'[d] = "WaitIPC" \/ (status'[d] = "Dead" /\ process' = "Exited")
    BY Zenon, <1>1, RequestFacts DEF CloseServer, threadVars
  <2>2. /\ \A d \in wakeup_event' : status'[d] = "WaitIPC"
        /\ process' = "Exited" => \A d \in Client : status'[d] = "Dead"
    BY Zenon, <1>1 DEF CloseServer, threadVars, RequestInv, Waiting
  <2> QED
    BY Zenon, <1>1, <2>1, <2>2 DEF OnlyForgets, CloseServer, threadVars, TypeOK
<1> QED
  BY <1>2, <1>3, <1>4, <1>5, Zenon, UsualStep DEF CloseServer

LEMMA TerminateProcessInv ==
    ASSUME IInv, TerminateProcess
    PROVE  IInv'
<1>1. TypeOK /\ Placed /\ Idle /\ RequestInv
  BY Zenon DEF IInv
<1>2. RestOK'
  BY Zenon, <1>1 DEF TypeOK, RestOK, TerminateProcess
<1>3. Placed' /\ Idle'
  BY Zenon, <1>1, IpcAssumption DEF Placed, Idle, TerminateProcess
<1>4. OnlyDrops
  BY Zenon, <1>1 DEF OnlyDrops, TerminateProcess, TypeOK
<1>5. \A s \in Session : Holds(pending_requesting_threads, currently_handling, s) \subseteq Client
  BY <1>1 DEF Holds, Elements, TypeOK
<1>6. OnlyForgets(server, pending_requesting_threads, currently_handling)
  BY Zenon, <1>1, <1>5 DEF OnlyForgets, TerminateProcess, TypeOK
<1> QED
  BY <1>2, <1>3, <1>4, <1>6, Zenon, UsualStep DEF TerminateProcess

\* The destructors of the ClientSessions in ss, once the threads are dealt with.
LEMMA CloseClientSessionsInv ==
    ASSUME IInv, NEW ss \in SUBSET Session, \A s \in ss : client[s], CloseClientSessions(ss),
           status' \in [Client \cup Server -> {"Running", "WaitIPC", "WaitHleEvent", "WaitSynchAny", "Dead"}],
           process' \in {"Running", "Exited"}, wakeup_event' = wakeup_event,
           context' \in [Client -> Session \cup {None}],
           wait_objects' \in [Server -> SUBSET Object], Idle',
           \A t \in Server : wait_objects'[t] \subseteq wait_objects[t],
           \A c \in Client : context'[c] \in {context[c], None},
           \A c \in Client : status'[c] = "WaitIPC" => status[c] = "WaitIPC",
           \A s \in Session \ ss : \A c \in Requests(s) :
              status'[c] = "WaitIPC" \/ (status'[c] = "Dead" /\ process' = "Exited"),
           \A c \in wakeup_event : status'[c] = "WaitIPC",
           process' = "Exited" => \A c \in Client : status'[c] = "Dead"
    PROVE  IInv'
<1> DEFINE pend == [s \in Session |-> IF s \in ss THEN <<>> ELSE pending_requesting_threads[s]]
           curr == [s \in Session |-> IF s \in ss THEN None ELSE currently_handling[s]]
<1>1. TypeOK /\ Placed /\ Idle /\ RequestInv
  BY Zenon DEF IInv
<1>2. /\ client' = [s \in Session |-> client[s] /\ s \notin ss]
      /\ hle_handler' = [s \in Session |-> hle_handler[s] /\ s \notin ss]
      /\ port' = port /\ accepted' = accepted /\ pending_sessions' = pending_sessions
      /\ DestroySessions(server, active_sessions, pend, curr)
  BY Zenon DEF CloseClientSessions, Disconnected
<1>3. /\ pend \in [Session -> Seq(Client)] /\ curr \in [Session -> Client \cup {None}]
      /\ \A s \in Session :
            IF s \in ss THEN pend[s] = <<>> /\ curr[s] = None
            ELSE pend[s] = pending_requesting_threads[s] /\ curr[s] = currently_handling[s]
  BY Zenon, <1>1, EmptyFacts DEF TypeOK
<1> HIDE DEF pend, curr
<1>4. RestOK'
  BY Zenon, <1>1, <1>2 DEF TypeOK, RestOK
<1>5. Placed'
  BY Zenon, <1>1, <1>2 DEF Placed
<1>6. OnlyDrops
  BY Zenon, <1>2 DEF OnlyDrops
<1>7. \A s \in Session : s \in ss <=> client[s] /\ ~client'[s]
  BY Zenon, <1>2
<1>8. ASSUME NEW s \in Session, NEW c \in Holds(pend, curr, s)
      PROVE  status'[c] = "WaitIPC" \/ (status'[c] = "Dead" /\ process' = "Exited")
  <2>1. s \notin ss
    BY Zenon, <1>3, EmptyFacts, <1>8 DEF Holds
  <2>2. c \in Requests(s)
    BY Zenon, <1>3, <1>8, <2>1 DEF Holds, Requests
  <2> QED
    BY Zenon, <2>1, <2>2
<1>9. OnlyForgets(server, pend, curr)
  BY Zenon, <1>3, <1>7, <1>8 DEF OnlyForgets
<1> QED
  BY <1>2, <1>4, <1>5, <1>6, <1>9, Zenon, UsualStep

LEMMA CloseClientInv ==
    ASSUME IInv, NEW c \in Client, NEW s \in Session, CloseClient(c, s)
    PROVE  IInv'
<1>1. TypeOK /\ Idle /\ RequestInv
  BY Zenon DEF IInv
<1> DEFINE ts == WokenByClose({s})
<1>2. ts \subseteq Server /\ Client \cap Server = {}
  BY Zenon, IpcAssumption DEF WokenByClose
<1>3. /\ status' = [t \in Client \cup Server |-> IF t \in ts THEN "Running" ELSE status[t]]
      /\ wait_objects' = [t \in Server |-> IF t \in ts THEN {} ELSE wait_objects[t]]
      /\ process' = process /\ wakeup_event' = wakeup_event /\ context' = context
      /\ CloseClientSessions({s}) /\ client[s]
  BY Zenon DEF CloseClient, Wake
<1> HIDE DEF ts
<1>4. \A d \in Client : status'[d] = status[d]
  BY Zenon, <1>2, <1>3
<1>5. /\ status' \in [Client \cup Server -> {"Running", "WaitIPC", "WaitHleEvent", "WaitSynchAny", "Dead"}]
      /\ wait_objects' \in [Server -> SUBSET Object] /\ Idle'
      /\ \A t \in Server : wait_objects'[t] \subseteq wait_objects[t]
  BY Zenon, <1>1, <1>3, <1>4 DEF TypeOK, Idle
<1>6. /\ process' \in {"Running", "Exited"} /\ context' \in [Client -> Session \cup {None}]
      /\ \A d \in Client : context'[d] \in {context[d], None}
  BY Zenon, <1>1, <1>3 DEF TypeOK
<1>7. \A r \in Session : \A d \in Requests(r) :
         status'[d] = "WaitIPC" \/ (status'[d] = "Dead" /\ process' = "Exited")
  BY Zenon, <1>1, <1>3, <1>4, RequestFacts
<1>8. /\ \A d \in wakeup_event : status'[d] = "WaitIPC"
      /\ process' = "Exited" => \A d \in Client : status'[d] = "Dead"
  BY Zenon, <1>1, <1>3, <1>4 DEF RequestInv, Waiting, TypeOK
<1> QED
  BY ZenonT(40), <1>3, <1>4, <1>5, <1>6, <1>7, <1>8, CloseClientSessionsInv

LEMMA DestroyProcessInv ==
    ASSUME IInv, DestroyProcess
    PROVE  IInv'
<1>1. TypeOK /\ Idle /\ RequestInv
  BY Zenon DEF IInv
<1> DEFINE ss == {s \in Session : client[s]}
           ts == Client \cup WokenByClose(ss)
<1>2. /\ status' = [t \in Client \cup Server |-> IF t \in ts THEN "Running" ELSE status[t]]
      /\ wait_objects' = [t \in Server |-> IF t \in ts THEN {} ELSE wait_objects[t]]
      /\ process = "Exited" /\ process' = "Running"
      /\ wakeup_event' = wakeup_event /\ context' = [c \in Client |-> None]
      /\ CloseClientSessions(ss)
  BY Zenon DEF DestroyProcess, Wake
<1>3. Client \subseteq ts /\ ss \in SUBSET Session /\ \A s \in ss : client[s]
  BY Zenon
<1>4. \A s \in Session \ ss : Requests(s) = {}
  BY Zenon, <1>1 DEF RequestInv, Silent
<1> HIDE DEF ss, ts
<1>5. /\ status' \in [Client \cup Server -> {"Running", "WaitIPC", "WaitHleEvent", "WaitSynchAny", "Dead"}]
      /\ wait_objects' \in [Server -> SUBSET Object] /\ Idle'
      /\ \A t \in Server : wait_objects'[t] \subseteq wait_objects[t]
  BY Zenon, <1>1, <1>2 DEF TypeOK, Idle
<1>6. wakeup_event = {}
  BY Zenon, <1>1, <1>2 DEF RequestInv, Waiting, TypeOK
<1>7. \A c \in Client : status'[c] = "Running"
  BY Zenon, <1>2, <1>3
<1>8. /\ process' \in {"Running", "Exited"} /\ context' \in [Client -> Session \cup {None}]
      /\ \A d \in Client : context'[d] \in {context[d], None}
  BY Zenon, <1>1, <1>2
<1> QED
  BY <1>2, <1>3, <1>4, <1>5, <1>6, <1>7, <1>8, CloseClientSessionsInv

LEMMA ConnectInv ==
    ASSUME IInv, NEW c \in Client, NEW p \in Port, NEW s \in Session, Connect(c, p, s)
    PROVE  IInv'
<1> DEFINE alive == [server EXCEPT ![s] = TRUE]
           count == [active_sessions EXCEPT ![p] = @ + 1]
           ts == Waiters(p)
<1>1. TypeOK /\ Placed /\ Idle /\ RequestInv /\ Kept /\ Counted
  BY Zenon DEF IInv
<1>2. /\ active_sessions[p] < MaxSessions[p] /\ ~client[s] /\ ~server[s]
      /\ client' = [client EXCEPT ![s] = TRUE] /\ port' = [port EXCEPT ![s] = p]
      /\ accepted' = accepted /\ context' = context
      /\ process' = process /\ wakeup_event' = wakeup_event
      /\ \/ /\ hle_handler' = [hle_handler EXCEPT ![s] = TRUE]
            /\ pending_sessions' = pending_sessions
         \/ /\ pending_sessions' = [pending_sessions EXCEPT ![p] = Append(@, s)]
            /\ hle_handler' = hle_handler
      /\ status' = [t \in Client \cup Server |-> IF t \in ts THEN "Running" ELSE status[t]]
      /\ wait_objects' = [t \in Server |-> IF t \in ts THEN {} ELSE wait_objects[t]]
      /\ DestroySessions(alive, count, pending_requesting_threads, currently_handling)
  BY Zenon DEF Connect, MayConnect, Wake
<1>3. ts \subseteq Server /\ Client \cap Server = {}
  BY Zenon, IpcAssumption DEF Waiters
<1> HIDE DEF ts
<1>4. ~Referenced(s)
  BY Zenon, <1>1, <1>2 DEF Kept
<1>5. /\ pending_sessions' \in [Port -> Seq(Session)]
      /\ \A q \in Port, r \in Session : r # s =>
            (Has(pending_sessions'[q], r) <=> Has(pending_sessions[q], r))
      /\ \A q \in Port : Has(pending_sessions'[q], s) => q = p
      /\ hle_handler'[s] \/ Has(pending_sessions'[p], s)
  <2>1. \A q \in Port : pending_sessions[q] \in Seq(Session) /\ ~Has(pending_sessions[q], s)
    BY Zenon, <1>1, <1>4 DEF TypeOK, Referenced
  <2>2. CASE /\ hle_handler' = [hle_handler EXCEPT ![s] = TRUE]
             /\ pending_sessions' = pending_sessions
    BY Zenon, <1>1, <2>1, <2>2 DEF TypeOK
  <2>3. CASE pending_sessions' = [pending_sessions EXCEPT ![p] = Append(@, s)]
    <3>1. /\ Append(pending_sessions[p], s) \in Seq(Session)
          /\ \A y : Has(Append(pending_sessions[p], s), y)
                       <=> Has(pending_sessions[p], y) \/ y = s
      BY <2>1, AppendFacts
    <3>2. /\ pending_sessions'[p] = Append(pending_sessions[p], s)
          /\ \A q \in Port : q # p => pending_sessions'[q] = pending_sessions[q]
      BY Zenon, <1>1, <2>3 DEF TypeOK
    <3>3. pending_sessions' \in [Port -> Seq(Session)]
      BY Zenon, <1>1, <2>3, <3>1 DEF TypeOK
    <3> QED
      BY Zenon, <2>1, <3>1, <3>2, <3>3
  <2> QED
    BY Zenon, <1>2, <2>2, <2>3
<1>6. RestOK'
  BY Zenon, <1>1, <1>2, <1>5 DEF TypeOK, RestOK
<1>7. Idle'
  BY Zenon, <1>1, <1>2, <1>3 DEF Idle
<1>8. Placed'
  <2>1. \A q \in Port, r \in Session : Has(pending_sessions'[q], r) => port'[r] = q
    BY <1>1, <1>2, <1>5 DEF Placed, TypeOK
  <2>2. \A r \in Session : hle_handler'[r] => client'[r]
    BY Zenon, <1>1, <1>2 DEF Placed, TypeOK
  <2> QED
    BY Zenon, <2>1, <2>2 DEF Placed
<1>9. ConnectionsReady(alive, count)
  <2>1. alive \in [Session -> BOOLEAN] /\ count \in [Port -> Nat]
    BY <1>1 DEF TypeOK
  <2>2. \A q \in Port : count[q] <= MaxSessions[q]
    BY <1>1, <1>2, IpcAssumption DEF TypeOK
  <2>3. \A q \in Port : count[q] = Cardinality({r \in Session : alive[r] /\ port'[r] = q})
    <3> SUFFICES ASSUME NEW q \in Port
                 PROVE  count[q] = Cardinality({r \in Session : alive[r] /\ port'[r] = q})
      BY Zenon
    <3>1. active_sessions[q] = Cardinality(Connected(q)) /\ active_sessions[q] \in Nat
      BY Zenon, <1>1 DEF Counted, TypeOK
    <3>2. CASE q # p
      <4>1. {r \in Session : alive[r] /\ port'[r] = q} = Connected(q)
        BY Zenon, <1>1, <1>2, <3>2 DEF Connected, TypeOK
      <4> QED
        BY Zenon, <1>1, <3>1, <3>2, <4>1 DEF TypeOK
    <3>3. CASE q = p
      <4>1. {r \in Session : alive[r] /\ port'[r] = q} = Connected(p) \cup {s}
        BY <1>1, <1>2, <3>3 DEF Connected, TypeOK
      <4>2. s \notin Connected(p) /\ Connected(p) \in SUBSET Session
        BY Zenon, <1>2 DEF Connected
      <4>3. IsFiniteSet(Connected(p))
        BY Zenon, <4>2, FS_Subset, IpcAssumption
      <4>4. Cardinality(Connected(p) \cup {s}) = Cardinality(Connected(p)) + 1
        BY Zenon, <4>2, <4>3, FS_AddElement
      <4>5. count[p] = active_sessions[p] + 1
        BY Zenon, <1>1 DEF TypeOK
      <4> QED
        BY Zenon, <3>1, <3>3, <4>1, <4>4, <4>5
    <3> QED
      BY Zenon, <3>2, <3>3
  <2>4. Referenced(s)'
    BY Zenon, <1>5 DEF Referenced
  <2>5. ASSUME NEW r \in Session, r # s, Referenced(r)' PROVE alive[r]
    <3>1. /\ accepted'[r] = accepted[r] /\ (hle_handler'[r] <=> hle_handler[r])
          /\ \A q \in Port : Has(pending_sessions'[q], r) <=> Has(pending_sessions[q], r)
      BY Zenon, <1>1, <1>2, <1>5, <2>5 DEF TypeOK
    <3>2. \A t \in Server : wait_objects'[t] \subseteq wait_objects[t]
      BY Zenon, <1>2
    <3>3. Referenced(r)
      BY Zenon, <1>2, <2>5, <3>1, <3>2 DEF Referenced
    <3> QED
      BY Zenon, <1>1, <2>5, <3>3 DEF Kept, TypeOK
  <2>6. alive[s] /\ \A r \in Session : r # s => port'[r] = port[r]
    BY Zenon, <1>1, <1>2 DEF TypeOK
  <2> HIDE DEF alive, count
  <2> QED
    BY Zenon, <2>1, <2>2, <2>3, <2>4, <2>5, <2>6 DEF ConnectionsReady
<1>10. OnlyForgets(alive, pending_requesting_threads, currently_handling)
  <2>1. \A d \in Client : status'[d] = status[d]
    BY Zenon, <1>2, <1>3
  <2>2. \A r \in Session : \A d \in Holds(pending_requesting_threads, currently_handling, r) :
           status'[d] = "WaitIPC" \/ (status'[d] = "Dead" /\ process' = "Exited")
    BY Zenon, <1>1, <1>2, <2>1, RequestFacts
  <2>3. /\ \A d \in wakeup_event' : status'[d] = "WaitIPC"
        /\ process' = "Exited" => \A d \in Client : status'[d] = "Dead"
    BY Zenon, <1>1, <1>2, <2>1 DEF RequestInv, Waiting, TypeOK
  <2>4. \A r \in Session : (server[r] => alive[r]) /\ (client[r] => client'[r])
    BY Zenon, <1>1, <1>2 DEF TypeOK
  <2> QED
    BY Zenon, <1>1, <1>2, <2>1, <2>2, <2>3, <2>4 DEF OnlyForgets, TypeOK
<1>11. alive \in [Session -> BOOLEAN]
  BY Zenon, <1>1 DEF TypeOK
<1> HIDE DEF alive, count
<1>12. RequestsReady(alive, pending_requesting_threads, currently_handling)
  BY <1>1, <1>10, <1>11, Zenon, UsualRequests
<1> QED
  BY <1>2, <1>6, <1>7, <1>8, <1>9, <1>12, Zenon, DestroyStep

\* A thread that runs has no request anywhere.
LEMMA RunningFacts ==
    ASSUME IInv, NEW c \in Client, status[c] = "Running"
    PROVE  /\ \A s \in Session : c \notin Requests(s)
           /\ c \notin wakeup_event /\ c \notin orphaned /\ c \notin Server
           /\ process # "Exited"
BY Zenon, IpcAssumption DEF IInv, RequestInv, Waiting, Known

\* A server thread takes the request at once.
LEMMA SendTakenInv ==
    ASSUME IInv, NEW c \in Client, NEW s \in Session, SendSyncRequest(c, s),
           currently_handling[s] = None, Waiters(s) # {}
    PROVE  IInv'
<1> DEFINE curr == [currently_handling EXCEPT ![s] = c]
           pend == pending_requesting_threads
<1>1. TypeOK /\ Placed /\ Idle /\ RequestInv
  BY Zenon DEF IInv
<1>2. status[c] = "Running" /\ client[s] /\ server[s]
  BY Zenon DEF SendSyncRequest
<1>3. /\ \A r \in Session : c \notin Requests(r)
      /\ c \notin wakeup_event /\ c \notin orphaned /\ c \notin Server /\ process # "Exited"
  BY Zenon, <1>2, RunningFacts
<1>4. PICK t \in Waiters(s) :
        /\ status' = [status EXCEPT ![c] = "WaitIPC", ![t] = "Running"]
        /\ wait_objects' = [wait_objects EXCEPT ![t] = {}]
        /\ UNCHANGED <<process, client, port, accepted, hle_handler, wakeup_event, context,
                       pending_sessions>>
        /\ DestroySessions(server, active_sessions, pend, curr)
  BY Zenon DEF SendSyncRequest
<1>5. t \in Server /\ t \notin Client
  BY Zenon, IpcAssumption DEF Waiters
<1>6. status'[c] = "WaitIPC" /\ \A d \in Client : d # c => status'[d] = status[d]
  BY Zenon, <1>1, <1>4, <1>5 DEF TypeOK
<1>7. RestOK'
  BY Zenon, <1>1, <1>4, <1>5 DEF TypeOK, RestOK
<1>8. Placed' /\ Idle'
  <2>1. Placed'
    BY Zenon, <1>1, <1>4 DEF Placed
  <2>2. \A u \in Server : status'[u] = "Running" => wait_objects'[u] = {}
    BY Zenon, <1>1, <1>3, <1>4, <1>5 DEF Idle, TypeOK
  <2>3. \A d \in Client : status'[d] \in {"Running", "WaitIPC"} => context'[d] = None
    BY Zenon, <1>1, <1>2, <1>4, <1>6 DEF Idle
  <2> QED
    BY Zenon, <2>1, <2>2, <2>3 DEF Idle
<1>9. OnlyDrops
  BY Zenon, <1>1, <1>4, <1>5 DEF OnlyDrops, TypeOK
<1>10. ConnectionsReady(server, active_sessions)
  BY Zenon, <1>9, UsualConnections
<1>11. /\ pend \in [Session -> Seq(Client)] /\ curr \in [Session -> Client \cup {None}]
       /\ curr[s] = c /\ \A r \in Session : r # s => curr[r] = currently_handling[r]
  BY Zenon, <1>1 DEF TypeOK
<1>12. /\ \A r \in Session : r # s => /\ Had(curr, r) = Requests(r)
                                      /\ Holds(pend, curr, r) = Requests(r)
       /\ Had(curr, s) = Requests(s) \cup {c}
       /\ Holds(pend, curr, s) = Requests(s) \cup {c}
  BY Zenon, <1>11, IpcAssumption DEF Had, Holds, Requests
<1>13. NoRepeat(pend, curr)
  <2>1. \A i \in 1 .. Len(pend[s]) : pend[s][i] # c
    <3>1. \A i \in 1 .. Len(pend[s]) : pend[s][i] \in Requests(s)
      BY <1>11 DEF Requests, Elements
    <3> QED
      BY Zenon, <1>3, <3>1
  <2> HIDE DEF curr
  <2> QED
    BY Zenon, <1>1, <1>11, <2>1 DEF RequestInv, NoRepeat
<1> HIDE DEF curr, pend
<1>14. \A q, r \in Session : q # r => Had(curr, q) \cap Had(curr, r) = {}
  BY <1>1, <1>3, <1>12 DEF RequestInv, Apart
<1>15. \A r \in Session : Holds(pend, curr, r) = Had(curr, r)
  BY Zenon, <1>12
<1>16. \A r \in Session : ~server[r] \/ ~client'[r] => Holds(pend, curr, r) = {}
  BY Zenon, <1>1, <1>2, <1>4, <1>12 DEF RequestInv, Silent
<1>17. \A d \in Client : status'[d] = "WaitIPC" =>
         /\ (\E r \in Session : d \in Had(curr, r)) \/ d \in wakeup_event' \/ d \in orphaned
         /\ ~((\E r \in Session : d \in Had(curr, r)) /\ (d \in wakeup_event' \/ d \in orphaned))
         /\ ~(d \in wakeup_event' /\ d \in orphaned)
  <2> SUFFICES ASSUME NEW d \in Client, status'[d] = "WaitIPC"
               PROVE  /\ (\E r \in Session : d \in Had(curr, r)) \/ d \in wakeup_event' \/ d \in orphaned
                      /\ ~((\E r \in Session : d \in Had(curr, r)) /\ (d \in wakeup_event' \/ d \in orphaned))
                      /\ ~(d \in wakeup_event' /\ d \in orphaned)
    BY Zenon
  <2>1. CASE d = c
    BY Zenon, <1>3, <1>4, <1>12, <2>1
  <2>2. CASE d # c
    <3>1. (\E r \in Session : d \in Had(curr, r)) <=> Known(d)
      BY Zenon, <1>12, <2>2 DEF Known
    <3> QED
      BY Zenon, <1>1, <1>4, <1>6, <2>2, <3>1 DEF RequestInv, Waiting
  <2> QED
    BY Zenon, <2>1, <2>2
<1>18. \A r \in Session : \A d \in Holds(pend, curr, r) :
         status'[d] = "WaitIPC" \/ (status'[d] = "Dead" /\ process' = "Exited")
  <2>1. \A r \in Session : \A d \in Requests(r) : d # c /\ d \in Client /\ status[d] = "WaitIPC"
    BY Zenon, <1>1, <1>3, RequestFacts
  <2> QED
    BY Zenon, <1>6, <1>12, <2>1
<1>19. /\ \A d \in wakeup_event' : status'[d] = "WaitIPC"
       /\ process' = "Exited" => \A d \in Client : status'[d] = "Dead"
  BY Zenon, <1>1, <1>3, <1>4, <1>6 DEF RequestInv, Waiting, TypeOK
<1>20. RequestsReady(server, pend, curr)
  BY Zenon, <1>11, <1>13, <1>14, <1>15, <1>16, <1>17, <1>18, <1>19 DEF RequestsReady
<1> QED
  BY <1>4, <1>7, <1>8, <1>10, <1>20, Zenon, DestroyStep

\* Steps after which the same sessions are referred to.
LEMMA SameConnections ==
    ASSUME Kept, Counted, server' = server, active_sessions' = active_sessions, port' = port,
           \A s \in Session : Referenced(s)' <=> Referenced(s)
    PROVE  Kept' /\ Counted'
BY Zenon DEF Kept, Counted, Connected

\* The request is put on the list.
LEMMA SendQueuedInv ==
    ASSUME IInv, NEW c \in Client, NEW s \in Session, SendSyncRequest(c, s),
           ~(currently_handling[s] = None /\ Waiters(s) # {})
    PROVE  IInv'
<1> DEFINE new == pending_requesting_threads'
           old == pending_requesting_threads
<1>1. TypeOK /\ Placed /\ Idle /\ RequestInv /\ Kept /\ Counted
  BY Zenon DEF IInv
<1>2. status[c] = "Running" /\ client[s] /\ server[s]
  BY Zenon DEF SendSyncRequest
<1>3. /\ status' = [status EXCEPT ![c] = "WaitIPC"]
      /\ new = [old EXCEPT ![s] = Append(@, c)]
      /\ UNCHANGED <<process, sessionVars, wakeup_event, context, currently_handling, orphaned,
                     fault, pending_sessions, active_sessions, wait_objects>>
  BY Zenon DEF SendSyncRequest
<1>4. /\ \A r \in Session : c \notin Requests(r)
      /\ c \notin wakeup_event /\ c \notin orphaned /\ c \notin Server /\ process # "Exited"
  BY Zenon, <1>2, RunningFacts
<1>5. /\ old[s] \in Seq(Client) /\ new[s] = Append(old[s], c)
      /\ \A r \in Session : r # s => new[r] = old[r]
  BY Zenon, <1>1, <1>3 DEF TypeOK
<1>6. /\ new[s] \in Seq(Client) /\ Elements(new[s]) = Elements(old[s]) \cup {c}
      /\ Len(old[s]) \in Nat /\ Len(new[s]) = Len(old[s]) + 1
      /\ \A i \in 1 .. Len(old[s]) : new[s][i] = old[s][i]
      /\ new[s][Len(old[s]) + 1] = c
  <2>1. old[s] \in Seq(Client) /\ Len(old[s]) \in Nat
    BY <1>5
  <2> HIDE DEF old, new
  <2>2. /\ Append(old[s], c) \in Seq(Client)
        /\ Elements(Append(old[s], c)) = Elements(old[s]) \cup {c}
        /\ Len(Append(old[s], c)) = Len(old[s]) + 1
        /\ \A i \in 1 .. Len(old[s]) : Append(old[s], c)[i] = old[s][i]
        /\ Append(old[s], c)[Len(old[s]) + 1] = c
    BY <2>1, AppendFacts, SMT
  <2> QED
    BY Zenon, <1>5, <2>1, <2>2
<1>7. /\ Requests(s)' = Requests(s) \cup {c}
      /\ \A r \in Session : r # s => Requests(r)' = Requests(r)
  BY <1>3, <1>5, <1>6 DEF Requests
<1>8. status'[c] = "WaitIPC" /\ \A d \in Client \cup Server : d # c => status'[d] = status[d]
  BY Zenon, <1>1, <1>3 DEF TypeOK
<1>9. TypeOK'
  BY Zenon, <1>1, <1>3, <1>5, <1>6 DEF TypeOK, sessionVars
<1>10. Placed' /\ Idle'
  <2>1. Placed'
    BY Zenon, <1>1, <1>3 DEF Placed, sessionVars
  <2>2. \A d \in Client : status'[d] \in {"Running", "WaitIPC"} => context'[d] = None
    BY Zenon, <1>1, <1>2, <1>3, <1>8 DEF Idle
  <2> QED
    BY Zenon, <1>1, <1>3, <1>4, <1>8, <2>1, <2>2 DEF Idle
<1>11. Kept' /\ Counted'
  <2>1. \A r \in Session : Referenced(r)' <=> Referenced(r)
    BY Zenon, <1>3 DEF Referenced, sessionVars
  <2> QED
    BY Zenon, <1>1, <1>3, <2>1, SameConnections DEF sessionVars
<1>12. NoRepeat(new, currently_handling')
  <2> SUFFICES ASSUME NEW r \in Session, NEW i \in 1 .. Len(new[r])
               PROVE  /\ new[r][i] # currently_handling[r]
                      /\ \A j \in 1 .. Len(new[r]) : new[r][i] = new[r][j] => i = j
    BY Zenon, <1>3 DEF NoRepeat
  <2>1. CASE r # s
    BY Zenon, <1>1, <1>5, <2>1 DEF RequestInv, NoRepeat
  <2>2. CASE r = s
    <3>1. \A j \in 1 .. Len(old[s]) : old[s][j] # c
      <4>1. \A j \in 1 .. Len(old[s]) : old[s][j] \in Requests(s)
        BY <1>5 DEF Requests, Elements
      <4> QED
        BY Zenon, <1>4, <4>1
    <3>2. c # currently_handling[s]
      BY Zenon, <1>4, IpcAssumption DEF Requests
    <3>3. \A j \in 1 .. Len(new[s]) : j \in 1 .. Len(old[s]) \/ j = Len(old[s]) + 1
      BY <1>6
    <3>4. \A k, j \in 1 .. Len(old[s]) : /\ old[s][k] # currently_handling[s]
                                         /\ old[s][k] = old[s][j] => k = j
      BY Zenon, <1>1 DEF RequestInv, NoRepeat
    <3> HIDE DEF new, old
    <3> QED
      BY Zenon, <1>6, <2>2, <3>1, <3>2, <3>3, <3>4
  <2> QED
    BY Zenon, <2>1, <2>2
<1> HIDE DEF new, old
<1>13. Apart'
  BY <1>1, <1>4, <1>7 DEF RequestInv, Apart
<1>14. Silent'
  BY Zenon, <1>1, <1>2, <1>3, <1>7 DEF RequestInv, Silent, sessionVars
<1>15. Waiting'
  <2>1. \A d \in Client : Known(d)' <=> Known(d) \/ d = c
    BY Zenon, <1>7 DEF Known
  <2>2. ~Known(c)
    BY Zenon, <1>4 DEF Known
  <2>3. \A d \in wakeup_event \cup orphaned : d \in Client /\ d # c
    BY Zenon, <1>1, <1>4 DEF TypeOK
  <2> QED
    BY Zenon, <1>1, <1>3, <1>4, <1>8, <2>1, <2>2, <2>3 DEF RequestInv, Waiting
<1> QED
  BY <1>9, <1>10, <1>11, <1>12, <1>13, <1>14, <1>15 DEF IInv, RequestInv, new

\* Steps that leave the lists and the ends of the sessions alone.
LEMMA SameRequests ==
    ASSUME RequestInv, UNCHANGED <<client, server, requestVars, process>>,
           \A c \in Client : Known(c) => status'[c] = status[c],
           \A c \in Client : status'[c] = "WaitIPC" => status[c] = "WaitIPC" \/ c \in wakeup_event',
           \A c \in Client : status'[c] # status[c] => c \notin orphaned,
           \A c \in wakeup_event' : c \in Client /\ (c \in wakeup_event \/ status[c] = "Running"),
           \A c \in wakeup_event : c \in wakeup_event' \/ status'[c] # "WaitIPC",
           \A c \in wakeup_event' : status'[c] = "WaitIPC",
           orphaned \subseteq Client,
           process = "Exited" => \A c \in Client : status'[c] = status[c]
    PROVE  RequestInv'
<1>1. \A s \in Session : Requests(s)' = Requests(s)
  BY Zenon DEF Requests, requestVars
<1>2. \A c \in Client : Known(c)' <=> Known(c)
  BY Zenon, <1>1 DEF Known
<1>3. NoRepeat(pending_requesting_threads, currently_handling)' /\ Apart' /\ Silent'
  BY <1>1 DEF RequestInv, NoRepeat, Apart, Silent, requestVars
<1>4. Waiting'
  <2>1. orphaned' = orphaned /\ process' = process
    BY Zenon DEF requestVars
  <2>2. \A c \in wakeup_event' \cup orphaned' : status'[c] = "WaitIPC"
    BY Zenon, <2>1 DEF RequestInv, Waiting
  <2>3. process' = "Exited" => \A c \in Client : status'[c] = "Dead"
    BY Zenon, <2>1 DEF RequestInv, Waiting
  <2>4. ASSUME NEW c \in Client
        PROVE  Known(c)' => status'[c] = "WaitIPC" \/ (status'[c] = "Dead" /\ process' = "Exited")
    BY Zenon, <1>2, <2>1 DEF RequestInv, Waiting
  <2>5. ASSUME NEW c \in Client, status'[c] = "WaitIPC"
        PROVE  /\ Known(c)' \/ c \in wakeup_event' \/ c \in orphaned'
               /\ ~(Known(c)' /\ (c \in wakeup_event' \/ c \in orphaned'))
               /\ ~(c \in wakeup_event' /\ c \in orphaned')
    BY Zenon, <1>2, <2>1, <2>5 DEF RequestInv, Waiting
  <2> QED
    BY Zenon, <2>2, <2>3, <2>4, <2>5 DEF Waiting
<1> QED
  BY Zenon, <1>3, <1>4 DEF RequestInv

LEMMA SendToHleInv ==
    ASSUME IInv, NEW c \in Client, NEW s \in Session, SendToHle(c, s)
    PROVE  IInv'
<1>1. TypeOK /\ Placed /\ Idle /\ RequestInv /\ Kept /\ Counted
  BY Zenon DEF IInv
<1>2. /\ status[c] = "Running" /\ hle_handler[s] /\ context[c] = None
      /\ UNCHANGED <<process, sessionVars, requestVars, pending_sessions, active_sessions, wait_objects>>
  BY Zenon, <1>1 DEF SendToHle, Idle
<1>3. /\ \A r \in Session : c \notin Requests(r)
      /\ c \notin wakeup_event /\ c \notin orphaned /\ c \notin Server /\ process # "Exited"
  BY Zenon, <1>2, RunningFacts
<1>4. \/ /\ status' = [status EXCEPT ![c] = "WaitIPC"]
         /\ wakeup_event' = wakeup_event \cup {c} /\ context' = context
      \/ /\ status' = [status EXCEPT ![c] = "WaitHleEvent"]
         /\ context' = [context EXCEPT ![c] = s] /\ wakeup_event' = wakeup_event
  BY Zenon DEF SendToHle
<1>5. TypeOK'
  <2>1. /\ status' \in [Client \cup Server -> {"Running", "WaitIPC", "WaitHleEvent", "WaitSynchAny", "Dead"}]
        /\ wakeup_event' \subseteq Client /\ context' \in [Client -> Session \cup {None}]
    BY ZenonT(40), <1>1, <1>4 DEF TypeOK
  <2> QED
    BY Zenon, <1>1, <1>2, <2>1 DEF TypeOK, sessionVars, requestVars
<1>6. Placed' /\ Idle'
  <2>1. Placed'
    BY Zenon, <1>1, <1>2 DEF Placed, sessionVars
  <2>2. \A t \in Server : status'[t] = status[t]
    BY Zenon, <1>1, <1>3, <1>4 DEF TypeOK
  <2>3. \A d \in Client : status'[d] \in {"Running", "WaitIPC"} => context'[d] = None
    BY Zenon, <1>1, <1>2, <1>4 DEF Idle, TypeOK
  <2> QED
    BY Zenon, <1>1, <1>2, <2>1, <2>2, <2>3 DEF Idle
<1>7. Kept' /\ Counted'
  <2>1. \A r \in Session : Referenced(r)' <=> Referenced(r)
    <3>1. \A r \in Session : r # s =>
            ((\E d \in Client : context'[d] = r) <=> \E d \in Client : context[d] = r)
      BY <1>1, <1>2, <1>4, IpcAssumption DEF TypeOK
    <3> QED
      BY Zenon, <1>2, <3>1 DEF Referenced, sessionVars
  <2> QED
    BY Zenon, <1>1, <1>2, <2>1, SameConnections DEF sessionVars
<1>8. RequestInv'
  <2>1. UNCHANGED <<client, server, requestVars, process>>
    BY Zenon, <1>2 DEF sessionVars
  <2>2. ~Known(c)
    BY Zenon, <1>3 DEF Known
  <2>3. \A d \in Client : d # c => status'[d] = status[d]
    BY Zenon, <1>1, <1>4 DEF TypeOK
  <2>4. \/ status'[c] = "WaitIPC" /\ wakeup_event' = wakeup_event \cup {c}
        \/ status'[c] = "WaitHleEvent" /\ wakeup_event' = wakeup_event
    BY Zenon, <1>1, <1>4 DEF TypeOK
  <2>5. wakeup_event \subseteq Client /\ orphaned \subseteq Client
    BY Zenon, <1>1 DEF TypeOK
  <2>6. \A d \in wakeup_event : status[d] = "WaitIPC"
    BY Zenon, <1>1 DEF RequestInv, Waiting
  <2> QED
    BY Zenon, <1>1, <1>2, <1>3, <2>1, <2>2, <2>3, <2>4, <2>5, <2>6, SameRequests
<1> QED
  BY Zenon, <1>5, <1>6, <1>7, <1>8 DEF IInv

LEMMA IpcDelayOverInv ==
    ASSUME IInv, NEW c \in Client, IpcDelayOver(c)
    PROVE  IInv'
<1>1. TypeOK /\ Placed /\ Idle /\ RequestInv /\ Kept /\ Counted
  BY Zenon DEF IInv
<1>2. /\ c \in wakeup_event /\ wakeup_event' = wakeup_event \ {c}
      /\ status' = [status EXCEPT ![c] = "Running"]
      /\ UNCHANGED <<process, context, sessionVars, requestVars, pending_sessions, active_sessions,
                     wait_objects>>
  BY Zenon DEF IpcDelayOver
<1>3. status[c] = "WaitIPC" /\ c \notin orphaned /\ ~Known(c) /\ c \notin Server /\ process # "Exited"
  BY Zenon, <1>1, <1>2, IpcAssumption DEF RequestInv, Waiting
<1>4. status'[c] = "Running" /\ \A d \in Client \cup Server : d # c => status'[d] = status[d]
  BY Zenon, <1>1, <1>2 DEF TypeOK
<1>5. TypeOK'
  BY Zenon, <1>1, <1>2 DEF TypeOK, sessionVars, requestVars
<1>6. Placed' /\ Idle'
  <2>1. Placed'
    BY Zenon, <1>1, <1>2 DEF Placed, sessionVars
  <2>2. \A d \in Client : status'[d] \in {"Running", "WaitIPC"} => context'[d] = None
    BY Zenon, <1>1, <1>2, <1>3, <1>4 DEF Idle
  <2> QED
    BY Zenon, <1>1, <1>2, <1>3, <1>4, <2>1, <2>2 DEF Idle
<1>7. Kept' /\ Counted'
  <2>1. \A r \in Session : Referenced(r)' <=> Referenced(r)
    BY Zenon, <1>2 DEF Referenced, sessionVars
  <2> QED
    BY Zenon, <1>1, <1>2, <2>1, SameConnections DEF sessionVars
<1>8. RequestInv'
  <2>1. UNCHANGED <<client, server, requestVars, process>>
    BY Zenon, <1>2 DEF sessionVars
  <2>2. wakeup_event \subseteq Client /\ orphaned \subseteq Client
    BY Zenon, <1>1 DEF TypeOK
  <2>3. \A d \in wakeup_event : status[d] = "WaitIPC"
    BY Zenon, <1>1 DEF RequestInv, Waiting
  <2> QED
    BY <1>1, <1>2, <1>3, <1>4, <2>1, <2>2, <2>3, SameRequests
<1> QED
  BY Zenon, <1>5, <1>6, <1>7, <1>8 DEF IInv

LEMMA AcceptSessionInv ==
    ASSUME IInv, NEW t \in Server, NEW p \in Port, AcceptSession(t, p)
    PROVE  IInv'
<1>1. TypeOK /\ Placed /\ Idle /\ RequestInv /\ Kept /\ Counted
  BY Zenon DEF IInv
<1>2. pending_sessions[p] # <<>> /\ pending_sessions[p] \in Seq(Session)
  BY Zenon, <1>1 DEF AcceptSession, TypeOK
<1> PICK s \in Session : s = back(pending_sessions[p])
  BY Zenon, <1>2, PopBackFacts
<1>3. /\ pending_sessions[p] # <<>> /\ pending_sessions[p] \in Seq(Session)
      /\ pending_sessions' = [pending_sessions EXCEPT ![p] = pop_back(@)]
      /\ accepted' = [accepted EXCEPT ![s] = TRUE]
      /\ UNCHANGED <<client, server, port, hle_handler, requestVars, threadVars, active_sessions,
                     wait_objects>>
  BY Zenon, <1>1 DEF AcceptSession, TypeOK
<1>4. /\ pop_back(pending_sessions[p]) \in Seq(Session)
      /\ \A r : Has(pending_sessions[p], r) <=> Has(pop_back(pending_sessions[p]), r) \/ r = s
  BY Zenon, <1>3, PopBackFacts
<1>5. /\ pending_sessions'[p] = pop_back(pending_sessions[p])
      /\ \A q \in Port : q # p => pending_sessions'[q] = pending_sessions[q]
      /\ accepted'[s] /\ \A r \in Session : r # s => accepted'[r] = accepted[r]
  BY Zenon, <1>1, <1>3, <1>4 DEF TypeOK
<1>6. TypeOK'
  BY <1>1, <1>3, <1>4 DEF TypeOK, requestVars, threadVars
<1>7. Placed' /\ Idle'
  <2>1. \A q \in Port, r \in Session : Has(pending_sessions'[q], r) => Has(pending_sessions[q], r)
    BY Zenon, <1>4, <1>5
  <2> QED
    BY Zenon, <1>1, <1>3, <2>1 DEF Placed, Idle, threadVars
<1>8. Kept' /\ Counted'
  <2>1. ASSUME NEW r \in Session, r # s PROVE Referenced(r)' <=> Referenced(r)
    <3>1. \A q \in Port : Has(pending_sessions'[q], r) <=> Has(pending_sessions[q], r)
      BY Zenon, <1>4, <1>5, <2>1
    <3> QED
      BY Zenon, <1>3, <1>5, <2>1, <3>1 DEF Referenced, threadVars
  <2>2. Referenced(s)' /\ Referenced(s)
    BY Zenon, <1>4, <1>5 DEF Referenced
  <2> QED
    BY Zenon, <1>1, <1>3, <2>1, <2>2, SameConnections
<1>9. RequestInv'
  <2>1. UNCHANGED <<client, server, requestVars, process, status, wakeup_event>>
    BY Zenon, <1>3 DEF threadVars
  <2>2. wakeup_event \subseteq Client /\ orphaned \subseteq Client
    BY Zenon, <1>1 DEF TypeOK
  <2>3. \A d \in wakeup_event : status[d] = "WaitIPC"
    BY Zenon, <1>1 DEF RequestInv, Waiting
  <2> QED
    BY <1>1, <2>1, <2>2, <2>3, SameRequests
<1> QED
  BY Zenon, <1>6, <1>7, <1>8, <1>9 DEF IInv

\* What the reply leaves: the statuses st and the handled requests h. A thread
\* that was answered runs, or is dead as before.
ReplyDone(st, h) ==
    /\ st \in [Client \cup Server -> {"Running", "WaitIPC", "WaitHleEvent", "WaitSynchAny", "Dead"}]
    /\ h \in [Session -> Client \cup {None}]
    /\ \A u \in Server : st[u] = status[u]
    /\ NoRepeat(pending_requesting_threads, h)
    /\ \A r \in Session : Holds(pending_requesting_threads, h, r) \subseteq Requests(r)
    /\ \A d \in Client :
          \/ /\ st[d] = status[d]
             /\ \A r \in Session : d \in Requests(r) => d \in Holds(pending_requesting_threads, h, r)
          \/ /\ st[d] = "Running" \/ (st[d] = "Dead" /\ status[d] = "Dead")
             /\ d \notin wakeup_event /\ d \notin orphaned
             /\ \A r \in Session : d \notin Holds(pending_requesting_threads, h, r)
    /\ \A d \in Client : st[d] \in {"Running", "WaitIPC"} => context[d] = None
    /\ process = "Exited" => \A d \in Client : st[d] = "Dead"

LEMMA NoReply ==
    ASSUME IInv
    PROVE  ReplyDone(status, currently_handling)
<1>1. TypeOK /\ Idle /\ RequestInv
  BY Zenon DEF IInv
<1>2. \A r \in Session : Holds(pending_requesting_threads, currently_handling, r) = Requests(r)
  BY Zenon, <1>1, RequestFacts
<1> QED
  BY Zenon, <1>1, <1>2 DEF ReplyDone, TypeOK, Idle, RequestInv, Waiting

LEMMA ReplyFacts ==
    ASSUME IInv, NEW s \in Session, NEW c \in Client, currently_handling[s] = c
    PROVE  ReplyDone([status EXCEPT ![c] = IF @ = "Dead" THEN @ ELSE "Running"],
                     [currently_handling EXCEPT ![s] = None])
<1> DEFINE st == [status EXCEPT ![c] = IF @ = "Dead" THEN @ ELSE "Running"]
           h == [currently_handling EXCEPT ![s] = None]
           pend == pending_requesting_threads
<1>1. TypeOK /\ Idle /\ RequestInv
  BY Zenon DEF IInv
<1>2. c # None /\ c \notin Server
  BY Zenon, IpcAssumption
<1>3. c \in Requests(s)
  BY Zenon, <1>2 DEF Requests
<1>4. /\ status[c] = "WaitIPC" \/ (status[c] = "Dead" /\ process = "Exited")
      /\ c \notin wakeup_event /\ c \notin orphaned
  BY Zenon, <1>1, <1>3 DEF RequestInv, Waiting, Known
<1>5. /\ st \in [Client \cup Server -> {"Running", "WaitIPC", "WaitHleEvent", "WaitSynchAny", "Dead"}]
      /\ h \in [Session -> Client \cup {None}]
      /\ \A u \in Client \cup Server : u # c => st[u] = status[u]
      /\ st[c] = IF status[c] = "Dead" THEN "Dead" ELSE "Running"
      /\ h[s] = None /\ \A r \in Session : r # s => h[r] = currently_handling[r]
  BY Zenon, <1>1 DEF TypeOK
<1> HIDE DEF st, h
<1>6. NoRepeat(pend, h)
  <2>1. \A i \in 1 .. Len(pend[s]) : pend[s][i] # None
    BY <1>1, IpcAssumption DEF TypeOK
  <2> QED
    BY Zenon, <1>1, <1>5, <2>1 DEF RequestInv, NoRepeat
<1>7. \A r \in Session : r # s => Holds(pend, h, r) = Requests(r)
  BY Zenon, <1>5 DEF Holds, Requests
<1>8. Holds(pend, h, s) = Requests(s) \ {c}
  <2>1. c \notin Elements(pend[s])
    <3>1. pend[s] \in Seq(Client) /\ DOMAIN pend[s] = 1 .. Len(pend[s])
      BY <1>1 DEF TypeOK
    <3> QED
      BY Zenon, <1>1, <3>1 DEF RequestInv, NoRepeat, Elements
  <2> QED
    BY Zenon, <1>5, <2>1 DEF Holds, Requests
<1>9. \A r \in Session : c \notin Holds(pend, h, r)
  BY <1>1, <1>3, <1>7, <1>8 DEF RequestInv, Apart
<1>10. \A d \in Client : d # c => \A r \in Session : d \in Requests(r) => d \in Holds(pend, h, r)
  BY Zenon, <1>7, <1>8
<1>11. \A d \in Client : st[d] \in {"Running", "WaitIPC"} => context[d] = None
  BY Zenon, <1>1, <1>4, <1>5 DEF Idle
<1>12. process = "Exited" => \A d \in Client : st[d] = "Dead"
  BY Zenon, <1>1, <1>5 DEF RequestInv, Waiting
<1>13. \A u \in Server : st[u] = status[u]
  BY Zenon, <1>2, <1>5
<1>14. \A r \in Session : Holds(pend, h, r) \subseteq Requests(r)
  BY Zenon, <1>7, <1>8
<1>15. \A d \in Client :
         \/ /\ st[d] = status[d]
            /\ \A r \in Session : d \in Requests(r) => d \in Holds(pend, h, r)
         \/ /\ st[d] = "Running" \/ (st[d] = "Dead" /\ status[d] = "Dead")
            /\ d \notin wakeup_event /\ d \notin orphaned
            /\ \A r \in Session : d \notin Holds(pend, h, r)
  BY <1>4, <1>5, <1>9, <1>10
<1>16. ReplyDone(st, h)
  BY Zenon, <1>5, <1>6, <1>11, <1>12, <1>13, <1>14, <1>15 DEF ReplyDone
<1> QED
  BY Zenon, <1>16 DEF st, h

\* Receiving moves a request from the list to currently_handling, or waits.
LEMMA ReceiveFacts ==
    ASSUME IInv, NEW t \in Server, NEW objects \in SUBSET ServerHandles, NEW st, NEW h,
           status[t] = "Running", ReplyDone(st, h), Receive(t, objects, st, h)
    PROVE  /\ status' \in [Client \cup Server -> {"Running", "WaitIPC", "WaitHleEvent", "WaitSynchAny", "Dead"}]
           /\ pending_requesting_threads' \in [Session -> Seq(Client)]
           /\ currently_handling' \in [Session -> Client \cup {None}]
           /\ wait_objects' \in [Server -> SUBSET Object]
           /\ NoRepeat(pending_requesting_threads', currently_handling')
           /\ \A r \in Session : Requests(r)' = Holds(pending_requesting_threads, h, r)
           /\ \A d \in Client : status'[d] = st[d]
           /\ \A u \in Server : status'[u] = "Running" => wait_objects'[u] = {}
           /\ \A u \in Server : wait_objects[u] \subseteq wait_objects'[u]
           /\ \A u \in Server, s \in Session : s \in wait_objects'[u] => s \in wait_objects[u] \/ accepted[s]
<1> DEFINE pend == pending_requesting_threads
           S == {"Running", "WaitIPC", "WaitHleEvent", "WaitSynchAny", "Dead"}
<1>1. TypeOK /\ Idle
  BY Zenon DEF IInv
<1>2. /\ st \in [Client \cup Server -> S] /\ h \in [Session -> Client \cup {None}]
      /\ \A u \in Server : st[u] = status[u]
      /\ NoRepeat(pend, h)
  BY Zenon DEF ReplyDone
<1>3. t \notin Client /\ wait_objects[t] = {}
  BY Zenon, <1>1, IpcAssumption DEF Idle
<1>4. CASE status' = st /\ currently_handling' = h /\ UNCHANGED <<pending_requesting_threads, wait_objects>>
  <2>1. \A r \in Session : Requests(r)' = Holds(pend, h, r)
    BY Zenon, <1>4 DEF Requests, Holds
  <2> QED
    BY Zenon, <1>1, <1>2, <1>4, <2>1 DEF TypeOK, Idle
<1>5. ASSUME NEW o \in objects, ~ShouldWait(o, h), o \in Session, client[o],
             currently_handling' = [h EXCEPT ![o] = back(pend[o])],
             pending_requesting_threads' = [pend EXCEPT ![o] = pop_back(@)],
             status' = st, UNCHANGED wait_objects
      PROVE  /\ pending_requesting_threads' \in [Session -> Seq(Client)]
             /\ currently_handling' \in [Session -> Client \cup {None}]
             /\ NoRepeat(pending_requesting_threads', currently_handling')
             /\ \A r \in Session : Requests(r)' = Holds(pend, h, r)
  <2>1. pend[o] # <<>> /\ h[o] = None /\ pend[o] \in Seq(Client)
    BY Zenon, <1>1, <1>5, IpcAssumption DEF ShouldWait, TypeOK
  <2>2. /\ pop_back(pend[o]) \in Seq(Client) /\ back(pend[o]) \in Client
        /\ Elements(pend[o]) = Elements(pop_back(pend[o])) \cup {back(pend[o])}
        /\ Len(pend[o]) \in Nat /\ Len(pend[o]) > 0 /\ Len(pop_back(pend[o])) = Len(pend[o]) - 1
        /\ \A i \in 1 .. Len(pop_back(pend[o])) : pop_back(pend[o])[i] = pend[o][i]
        /\ back(pend[o]) = pend[o][Len(pend[o])]
    BY Zenon, <2>1, PopBackFacts
  <2>3. /\ currently_handling'[o] = back(pend[o]) /\ pending_requesting_threads'[o] = pop_back(pend[o])
        /\ \A r \in Session : r # o => /\ currently_handling'[r] = h[r]
                                       /\ pending_requesting_threads'[r] = pend[r]
        /\ pending_requesting_threads' \in [Session -> Seq(Client)]
        /\ currently_handling' \in [Session -> Client \cup {None}]
    BY Zenon, <1>1, <1>2, <1>5, <2>2 DEF TypeOK
  <2>4. \A r \in Session : r # o => Requests(r)' = Holds(pend, h, r)
    BY Zenon, <2>3 DEF Requests, Holds
  <2>5. Requests(o)' = Holds(pend, h, o)
    <3>1. back(pend[o]) # None
      BY Zenon, <2>2, IpcAssumption
    <3>2. Requests(o)' = Elements(pending_requesting_threads'[o]) \cup ({currently_handling'[o]} \ {None})
      BY Zenon, <1>5 DEF Requests
    <3> QED
      BY Zenon, <2>1, <2>2, <2>3, <3>1, <3>2 DEF Holds
  <2>6. NoRepeat(pending_requesting_threads', currently_handling')
    <3> SUFFICES ASSUME NEW r \in Session, NEW i \in 1 .. Len(pending_requesting_threads'[r])
                 PROVE  /\ pending_requesting_threads'[r][i] # currently_handling'[r]
                        /\ \A j \in 1 .. Len(pending_requesting_threads'[r]) :
                              pending_requesting_threads'[r][i] = pending_requesting_threads'[r][j] => i = j
      BY Zenon DEF NoRepeat
    <3>1. CASE r # o
      BY <1>2, <2>3, <3>1 DEF NoRepeat
    <3>2. CASE r = o
      <4>1. \A j \in 1 .. Len(pop_back(pend[o])) : j \in 1 .. Len(pend[o]) /\ j # Len(pend[o])
        <5> HIDE DEF pend
        <5>1. Len(pend[o]) \in Nat /\ Len(pop_back(pend[o])) = Len(pend[o]) - 1
          BY Zenon, <2>2
        <5> QED
          BY <5>1, SMT
      <4>2. \A k, j \in 1 .. Len(pend[o]) : pend[o][k] = pend[o][j] => k = j
        BY Zenon, <1>2, <1>5 DEF NoRepeat
      <4>3. Len(pend[o]) \in 1 .. Len(pend[o])
        <5>1. Len(pend[o]) \in Nat /\ Len(pend[o]) > 0
          BY Zenon, <2>2
        <5> QED
          BY <5>1, SMT
      <4>4. /\ i \in 1 .. Len(pop_back(pend[o]))
            /\ pending_requesting_threads'[r] = pop_back(pend[o]) /\ currently_handling'[r] = back(pend[o])
        BY Zenon, <2>3, <3>2
      <4>5. pop_back(pend[o])[i] = pend[o][i] /\ pend[o][i] # pend[o][Len(pend[o])]
        BY Zenon, <2>2, <4>1, <4>2, <4>3, <4>4
      <4>6. ASSUME NEW j \in 1 .. Len(pop_back(pend[o])), pop_back(pend[o])[i] = pop_back(pend[o])[j]
            PROVE  i = j
        BY Zenon, <2>2, <4>1, <4>2, <4>4, <4>6
      <4> HIDE DEF pend
      <4> QED
        BY Zenon, <2>2, <4>4, <4>5, <4>6
    <3> QED
      BY Zenon, <3>1, <3>2
  <2> QED
    BY Zenon, <2>3, <2>4, <2>5, <2>6
<1>6. CASE /\ status' = [st EXCEPT ![t] = "WaitSynchAny"]
           /\ wait_objects' = [wait_objects EXCEPT ![t] = objects]
           /\ currently_handling' = h
           /\ UNCHANGED pending_requesting_threads
  <2>1. \A r \in Session : Requests(r)' = Holds(pend, h, r)
    BY Zenon, <1>6 DEF Requests, Holds
  <2>2. objects \subseteq Object /\ \A s \in Session : s \in objects => accepted[s]
    BY Zenon, IpcAssumption DEF ServerHandles, Object
  <2>3. /\ status' \in [Client \cup Server -> S] /\ wait_objects' \in [Server -> SUBSET Object]
        /\ status'[t] = "WaitSynchAny" /\ wait_objects'[t] = objects
        /\ \A u \in Client \cup Server : u # t => status'[u] = st[u]
        /\ \A u \in Server : u # t => wait_objects'[u] = wait_objects[u]
    BY Zenon, <1>1, <1>2, <1>6, <2>2 DEF TypeOK
  <2>4. \A u \in Server : status'[u] = "Running" => wait_objects'[u] = {}
    BY Zenon, <1>1, <1>2, <2>3 DEF Idle
  <2>5. \A u \in Server : wait_objects[u] \subseteq wait_objects'[u]
    BY Zenon, <1>3, <2>3
  <2>6. \A u \in Server, s \in Session : s \in wait_objects'[u] => s \in wait_objects[u] \/ accepted[s]
    BY Zenon, <2>2, <2>3
  <2>7. \A d \in Client : status'[d] = st[d]
    BY Zenon, <1>3, <2>3
  <2>8. /\ pending_requesting_threads' \in [Session -> Seq(Client)]
        /\ currently_handling' \in [Session -> Client \cup {None}]
        /\ NoRepeat(pending_requesting_threads', currently_handling')
    BY Zenon, <1>1, <1>2, <1>6 DEF TypeOK
  <2> QED
    BY Zenon, <2>1, <2>3, <2>4, <2>5, <2>6, <2>7, <2>8
<1>7. ASSUME status' = st, UNCHANGED wait_objects
      PROVE  /\ status' \in [Client \cup Server -> S] /\ wait_objects' \in [Server -> SUBSET Object]
             /\ \A d \in Client : status'[d] = st[d]
             /\ \A u \in Server : status'[u] = "Running" => wait_objects'[u] = {}
             /\ \A u \in Server : wait_objects[u] \subseteq wait_objects'[u]
             /\ \A u \in Server, s \in Session : s \in wait_objects'[u] => s \in wait_objects[u] \/ accepted[s]
  BY Zenon, <1>1, <1>2, <1>7 DEF TypeOK, Idle
<1>8. CASE \E o \in objects :
             /\ ~ShouldWait(o, h) /\ o \in Session /\ client[o]
             /\ currently_handling' = [h EXCEPT ![o] = back(pend[o])]
             /\ pending_requesting_threads' = [pend EXCEPT ![o] = pop_back(@)]
             /\ status' = st /\ UNCHANGED wait_objects
  <2>1. PICK o \in objects :
             /\ ~ShouldWait(o, h) /\ o \in Session /\ client[o]
             /\ currently_handling' = [h EXCEPT ![o] = back(pend[o])]
             /\ pending_requesting_threads' = [pend EXCEPT ![o] = pop_back(@)]
             /\ status' = st /\ UNCHANGED wait_objects
    BY Zenon, <1>8
  <2>2. /\ pending_requesting_threads' \in [Session -> Seq(Client)]
        /\ currently_handling' \in [Session -> Client \cup {None}]
        /\ NoRepeat(pending_requesting_threads', currently_handling')
        /\ \A r \in Session : Requests(r)' = Holds(pend, h, r)
    BY Zenon, <1>5, <2>1
  <2> QED
    BY Zenon, <1>7, <2>1, <2>2
<1> QED
  BY Zenon, <1>4, <1>6, <1>8 DEF Receive

\* ReplyAndReceive is a reply, or none, and then the receiving half.
LEMMA ReplyLeaves ==
    ASSUME IInv, NEW t \in Server, NEW target \in Session \cup {None},
           NEW objects \in SUBSET ServerHandles, ReplyAndReceive(t, target, objects)
    PROVE  \E st, h : ReplyDone(st, h) /\ Receive(t, objects, st, h)
<1>1. CASE target = None
  BY Zenon, <1>1, NoReply DEF ReplyAndReceive
<1>2. CASE target # None
  <2>1. target \in Session /\ currently_handling[target] \in Client
    BY Zenon, <1>2 DEF ReplyAndReceive, IInv, TypeOK
  <2> QED
    BY Zenon, <1>2, <2>1, ReplyFacts DEF ReplyAndReceive
<1> QED
  BY Zenon, <1>1, <1>2

LEMMA ReplyAndReceiveInv ==
    ASSUME IInv, NEW t \in Server, NEW target \in Session \cup {None},
           NEW objects \in SUBSET ServerHandles, ReplyAndReceive(t, target, objects)
    PROVE  IInv'
<1>1. TypeOK /\ Placed /\ Idle /\ RequestInv /\ Kept /\ Counted
  BY Zenon DEF IInv
<1>2. /\ status[t] = "Running"
      /\ UNCHANGED <<sessionVars, process, wakeup_event, context, orphaned, pending_sessions,
                     active_sessions>>
  BY Zenon DEF ReplyAndReceive
<1>3. PICK st, h : ReplyDone(st, h) /\ Receive(t, objects, st, h)
  BY Zenon, ReplyLeaves
<1> DEFINE pend == pending_requesting_threads
<1>4. /\ status' \in [Client \cup Server -> {"Running", "WaitIPC", "WaitHleEvent", "WaitSynchAny", "Dead"}]
      /\ pending_requesting_threads' \in [Session -> Seq(Client)]
      /\ currently_handling' \in [Session -> Client \cup {None}]
      /\ wait_objects' \in [Server -> SUBSET Object]
      /\ NoRepeat(pending_requesting_threads', currently_handling')
      /\ \A r \in Session : Requests(r)' = Holds(pend, h, r)
      /\ \A d \in Client : status'[d] = st[d]
      /\ \A u \in Server : status'[u] = "Running" => wait_objects'[u] = {}
      /\ \A u \in Server : wait_objects[u] \subseteq wait_objects'[u]
      /\ \A u \in Server, s \in Session : s \in wait_objects'[u] => s \in wait_objects[u] \/ accepted[s]
  BY <1>2, <1>3, Zenon, ReceiveFacts
<1>5. TypeOK'
  <2>1. fault' \in {fault, "dead_resumed"}
    BY Zenon DEF ReplyAndReceive
  <2> QED
    BY Zenon, <1>1, <1>2, <1>4, <2>1 DEF TypeOK, sessionVars
<1>6. Placed'
  BY Zenon, <1>1, <1>2 DEF Placed, sessionVars
<1>7. Idle'
  BY Zenon, <1>2, <1>3, <1>4 DEF Idle, ReplyDone
<1>8. Kept' /\ Counted'
  <2>1. \A s \in Session : Referenced(s)' <=> Referenced(s)
    BY Zenon, <1>2, <1>4 DEF Referenced, sessionVars
  <2> QED
    BY <1>1, <1>2, <2>1, SameConnections DEF sessionVars
<1>9. \A r \in Session : Requests(r)' \subseteq Requests(r)
  BY Zenon, <1>3, <1>4 DEF ReplyDone
<1>10. Apart' /\ Silent'
  BY Zenon, <1>1, <1>2, <1>9 DEF RequestInv, Apart, Silent, sessionVars
<1>11. Waiting'
  <2>1. \A d \in Client :
          \/ status'[d] = status[d] /\ (Known(d)' <=> Known(d))
          \/ /\ status'[d] = "Running" \/ (status'[d] = "Dead" /\ status[d] = "Dead")
             /\ d \notin wakeup_event /\ d \notin orphaned /\ ~Known(d)'
    <3> SUFFICES ASSUME NEW d \in Client
                 PROVE  \/ status'[d] = status[d] /\ (Known(d)' <=> Known(d))
                        \/ /\ status'[d] = "Running" \/ (status'[d] = "Dead" /\ status[d] = "Dead")
                           /\ d \notin wakeup_event /\ d \notin orphaned /\ ~Known(d)'
      BY Zenon
    <3> HIDE DEF pend
    <3>1. Known(d)' <=> \E r \in Session : d \in Holds(pend, h, r)
      BY Zenon, <1>4 DEF Known
    <3>2. \/ /\ st[d] = status[d]
             /\ \A r \in Session : d \in Requests(r) => d \in Holds(pend, h, r)
          \/ /\ st[d] = "Running" \/ (st[d] = "Dead" /\ status[d] = "Dead")
             /\ d \notin wakeup_event /\ d \notin orphaned
             /\ \A r \in Session : d \notin Holds(pend, h, r)
      BY Zenon, <1>3 DEF ReplyDone, pend
    <3>3. status'[d] = st[d] /\ (Known(d)' => Known(d))
      BY Zenon, <1>4, <1>9 DEF Known
    <3>4. CASE st[d] = status[d] /\ \A r \in Session : d \in Requests(r) => d \in Holds(pend, h, r)
      <4>1. Known(d) => Known(d)'
        BY Zenon, <3>1, <3>4 DEF Known
      <4> QED
        BY Zenon, <3>3, <3>4, <4>1
    <3> QED
      BY Zenon, <3>1, <3>2, <3>3, <3>4
  <2>2. wakeup_event' = wakeup_event /\ orphaned' = orphaned /\ process' = process
    BY Zenon, <1>2
  <2>3. \A d \in wakeup_event \cup orphaned : d \in Client
    BY Zenon, <1>1 DEF TypeOK
  <2>4. process = "Exited" => \A d \in Client : status'[d] = "Dead"
    BY Zenon, <1>3, <1>4 DEF ReplyDone
  <2> QED
    BY Zenon, <1>1, <2>1, <2>2, <2>3, <2>4 DEF RequestInv, Waiting
<1> QED
  BY Zenon, <1>4, <1>5, <1>6, <1>7, <1>8, <1>10, <1>11 DEF IInv, RequestInv

LEMMA NextInv ==
    ASSUME IInv, [Next]_vars
    PROVE  IInv'
<1>1. CASE UNCHANGED vars
  <2>1. UNCHANGED <<status, process, client, server, port, accepted, hle_handler,
                    pending_requesting_threads, currently_handling, pending_sessions,
                    active_sessions, wait_objects, wakeup_event, context, orphaned, fault>>
    BY Zenon, <1>1 DEF vars, sessionVars, requestVars, threadVars
  <2>2. TypeOK' /\ Placed' /\ Idle'
    BY Zenon, <2>1 DEF IInv, TypeOK, Placed, Idle
  <2>3. Kept' /\ Counted'
    BY Zenon, <2>1 DEF IInv, Kept, Counted, Connected, Referenced
  <2>4. RequestInv'
    BY Zenon, <2>1 DEF IInv, RequestInv, NoRepeat, Apart, Silent, Waiting, Known, Requests
  <2> QED
    BY Zenon, <2>2, <2>3, <2>4 DEF IInv
<1>2. ASSUME NEW c \in Client, NEW s \in Session, SendSyncRequest(c, s) PROVE IInv'
  BY Zenon, <1>2, SendTakenInv, SendQueuedInv
<1>3. CASE Next
  BY Zenon, <1>2, <1>3, ConnectInv, SendToHleInv, CloseClientInv, IpcDelayOverInv, HleAnswersInv,
     TerminateProcessInv, DestroyProcessInv, AcceptSessionInv, CloseServerInv, ReplyAndReceiveInv
     DEF Next
<1> QED
  BY Zenon, <1>1, <1>3

-----------------------------------------------------------------------------
(* The theorems *)

\* The inductive invariant holds in every reachable state.
THEOREM Invariance == Spec => []IInv
<1>1. Init => IInv
  BY Zenon, InitInv
<1>2. IInv /\ [Next]_vars => IInv'
  BY Zenon, NextInv
<1> QED
  BY <1>1, <1>2, PTL DEF Spec

\* The variables keep their types; in particular no port ever has more sessions
\* than max_sessions, nor gives back a place twice.
THEOREM TypeCorrect == Spec => []TypeOK
<1>1. IInv => TypeOK
  BY Zenon DEF IInv
<1> QED
  BY <1>1, Invariance, PTL

\* active_sessions counts exactly the ServerSessions that exist, and each of them
\* can still be used by somebody, for any number of sessions, ports and threads.
THEOREM CountsAreRight == Spec => []ConnectionsCounted
<1>1. ASSUME IInv PROVE ConnectionsCounted
  <2>1. Kept /\ Counted /\ Placed
    BY Zenon, <1>1 DEF IInv
  <2>2. \A p \in Port : active_sessions[p] = Cardinality({s \in Session : server[s] /\ port[s] = p})
    BY Zenon, <2>1 DEF Counted, Connected
  <2>3. ASSUME NEW s \in Session, server[s]
        PROVE  \/ client[s] \/ accepted[s] \/ Has(pending_sessions[port[s]], s)
               \/ Waiters(s) # {} \/ \E c \in Client : context[c] = s
    BY <2>1, <2>3 DEF Kept, Referenced, Placed, Waiters
  <2> QED
    BY Zenon, <2>2, <2>3 DEF ConnectionsCounted
<1> QED
  BY <1>1, Invariance, PTL

\* No request is held twice, none is lost unless an end of its session is closed,
\* and no server has the request of a thread that goes on already.
THEOREM RequestsAreHeldOnce == Spec => []RequestsAgree
<1>1. ASSUME IInv PROVE RequestsAgree
  <2>1. TypeOK /\ RequestInv
    BY Zenon, <1>1 DEF IInv
  <2>2. ASSUME NEW s \in Session, NEW r \in Session, NEW i \in DOMAIN Held(s), NEW j \in DOMAIN Held(r),
               Held(s)[i] = Held(r)[j], Held(s)[i] # None
        PROVE  s = r /\ i = j
    <3>1. ASSUME NEW q \in Session, NEW k \in DOMAIN Held(q), Held(q)[k] # None
          PROVE  /\ Held(q)[k] \in Requests(q)
                 /\ \/ k = 0 /\ Held(q)[k] = currently_handling[q]
                    \/ /\ k \in 1 .. Len(pending_requesting_threads[q])
                       /\ Held(q)[k] = pending_requesting_threads[q][k]
      <4>1. pending_requesting_threads[q] \in Seq(Client)
        BY Zenon, <2>1 DEF TypeOK
      <4>2. Held(q) = [n \in 0 .. Len(pending_requesting_threads[q]) |->
                         IF n = 0 THEN currently_handling[q] ELSE pending_requesting_threads[q][n]]
        BY Zenon DEF Held
      <4>3. k \in 0 .. Len(pending_requesting_threads[q])
        BY Zenon, <4>2
      <4>4. /\ k \in 0 .. Len(pending_requesting_threads[q]) /\ Len(pending_requesting_threads[q]) \in Nat
            /\ Held(q)[k] = IF k = 0 THEN currently_handling[q] ELSE pending_requesting_threads[q][k]
        <5>1. Len(pending_requesting_threads[q]) \in Nat
          BY <4>1
        <5>2. Held(q)[k] = IF k = 0 THEN currently_handling[q] ELSE pending_requesting_threads[q][k]
          BY Zenon, <4>2, <4>3
        <5> QED
          BY Zenon, <4>3, <5>1, <5>2
      <4>5. CASE k = 0
        BY Zenon, <3>1, <4>4, <4>5 DEF Requests
      <4>6. CASE k # 0
        <5>1. k \in 1 .. Len(pending_requesting_threads[q])
          BY <4>4, <4>6
        <5> QED
          BY <4>1, <4>4, <4>6, <5>1 DEF Requests, Elements
      <4> QED
        BY Zenon, <4>5, <4>6
    <3>2. s = r
      BY Zenon, <2>1, <2>2, <3>1 DEF RequestInv, Apart
    <3> QED
      BY <2>1, <2>2, <3>1, <3>2 DEF RequestInv, NoRepeat
  <2>3. \A c \in Client :
          /\ status[c] = "WaitIPC" =>
                /\ Known(c) \/ c \in wakeup_event \/ c \in orphaned
                /\ ~(Known(c) /\ (c \in wakeup_event \/ c \in orphaned))
                /\ ~(c \in wakeup_event /\ c \in orphaned)
          /\ Known(c) => status[c] = "WaitIPC" \/ (status[c] = "Dead" /\ process = "Exited")
    BY Zenon, <2>1 DEF RequestInv, Waiting
  <2> QED
    BY Zenon, <2>2, <2>3 DEF RequestsAgree
<1> QED
  BY <1>1, Invariance, PTL

\* No thread is left asleep on an object that got ready, but by another's reply.
LEMMA StepWakes ==
    ASSUME IInv, IInv', [Next]_vars
    PROVE  \A x \in Overlooked' \ Overlooked : x[2] \in Session /\ Replied(x[2])
<1>1. TypeOK /\ TypeOK' /\ Kept'
  BY Zenon DEF IInv
<1> SUFFICES ASSUME NEW t \in Server, NEW o \in Object, o \in wait_objects'[t],
                    ~ShouldWait(o, currently_handling)',
                    o \in wait_objects[t] => ShouldWait(o, currently_handling)
             PROVE  o \in Session /\ Replied(o)
  <2>1. ASSUME NEW x \in Overlooked' \ Overlooked
        PROVE  /\ x[1] \in Server /\ x[2] \in Object /\ x[2] \in wait_objects'[x[1]]
               /\ ~ShouldWait(x[2], currently_handling)'
               /\ x[2] \in wait_objects[x[1]] => ShouldWait(x[2], currently_handling)
    BY Zenon, <2>1 DEF Overlooked
  <2> QED
    BY Zenon, <2>1
<1>2. \/ o \in Port /\ o \notin Session
      \/ o \in Session /\ o \notin Port
  BY Zenon, IpcAssumption DEF Object
<1>3. /\ o \in Port => (ShouldWait(o, currently_handling) <=> pending_sessions[o] = <<>>)
      /\ o \in Port => (ShouldWait(o, currently_handling)' <=> pending_sessions'[o] = <<>>)
      /\ o \in Session =>
           (ShouldWait(o, currently_handling) <=>
              client[o] /\ (pending_requesting_threads[o] = <<>> \/ currently_handling[o] # None))
      /\ o \in Session =>
           (ShouldWait(o, currently_handling)' <=>
              client'[o] /\ (pending_requesting_threads'[o] = <<>> \/ currently_handling'[o] # None))
  BY Zenon, <1>2 DEF ShouldWait
<1>4. o \in Session => server'[o]
  BY Zenon, <1>1 DEF Kept, Referenced
<1>5. ASSUME NEW alive, NEW count, NEW pend, NEW curr, DestroySessions(alive, count, pend, curr),
             o \in Session
      PROVE  pending_requesting_threads'[o] = pend[o] /\ currently_handling'[o] = curr[o]
  <2>1. ~(alive[o] /\ ~Referenced(o)')
    BY Zenon, <1>1, <1>4, <1>5 DEF Kept
  <2> QED
    BY Zenon, <1>5, <2>1 DEF DestroySessions
<1>6. ASSUME o \in wait_objects[t], pending_sessions' = pending_sessions,
             o \in Session => /\ client'[o] = client[o]
                              /\ pending_requesting_threads'[o] = pending_requesting_threads[o]
                              /\ currently_handling'[o] = currently_handling[o]
      PROVE  FALSE
  BY Zenon, <1>2, <1>3, <1>6
<1>7. CASE UNCHANGED vars
  BY Zenon, <1>6, <1>7 DEF vars, sessionVars, requestVars
<1>8. ASSUME NEW c \in Client, NEW p \in Port, NEW s \in Session, Connect(c, p, s) PROVE FALSE
  <2>1. /\ wait_objects' = [u \in Server |-> IF u \in Waiters(p) THEN {} ELSE wait_objects[u]]
        /\ client' = [client EXCEPT ![s] = TRUE]
        /\ \A q \in Port : q # p => pending_sessions'[q] = pending_sessions[q]
        /\ ~client[s] /\ ~server[s]
    BY Zenon, <1>1, <1>8 DEF Connect, Wake, TypeOK
  <2>2. o \in wait_objects[t] /\ o # p
    BY Zenon, <2>1 DEF Waiters
  <2>3. o \in Session => /\ pending_requesting_threads'[o] = pending_requesting_threads[o]
                         /\ currently_handling'[o] = currently_handling[o]
    BY Zenon, <1>5, <1>8 DEF Connect
  <2>4. o \in Session => o # s
    BY Zenon, <2>1, <2>2 DEF IInv, Kept, Referenced
  <2>5. o \in Session => client'[o] = client[o]
    BY Zenon, <1>1, <2>1, <2>4 DEF TypeOK
  <2> QED
    BY Zenon, <1>2, <1>3, <2>1, <2>2, <2>3, <2>5
<1>9. ASSUME NEW c \in Client, NEW s \in Session, SendToHle(c, s) PROVE FALSE
  BY Zenon, <1>6, <1>9 DEF SendToHle, sessionVars, requestVars
<1>10. ASSUME NEW c \in Client, NEW s \in Session, SendSyncRequest(c, s) PROVE FALSE
  <2>1. CASE currently_handling[s] = None /\ Waiters(s) # {}
    <3>1. PICK u \in Waiters(s) :
            /\ wait_objects' = [wait_objects EXCEPT ![u] = {}]
            /\ UNCHANGED <<client, pending_sessions>>
            /\ DestroySessions(server, active_sessions, pending_requesting_threads,
                               [currently_handling EXCEPT ![s] = c])
      BY Zenon, <1>10, <2>1 DEF SendSyncRequest
    <3>2. u \in Server /\ o \in wait_objects[t]
      BY Zenon, <1>1, <3>1 DEF Waiters, TypeOK
    <3>3. o \in Session => /\ pending_requesting_threads'[o] = pending_requesting_threads[o]
                           /\ currently_handling'[o] = [currently_handling EXCEPT ![s] = c][o]
      BY Zenon, <1>5, <3>1
    <3>4. o \in Session /\ o = s => currently_handling'[o] # None
      BY <1>1, <3>3, IpcAssumption DEF TypeOK
    <3>5. o \in Session /\ o # s => currently_handling'[o] = currently_handling[o]
      BY Zenon, <1>1, <3>3 DEF TypeOK
    <3>6. client' = client /\ pending_sessions' = pending_sessions
      BY Zenon, <3>1
    <3> QED
      BY Zenon, <1>2, <1>3, <3>2, <3>3, <3>4, <3>5, <3>6
  <2>2. CASE ~(currently_handling[s] = None /\ Waiters(s) # {})
    <3>1. /\ pending_requesting_threads' = [pending_requesting_threads EXCEPT ![s] = Append(@, c)]
          /\ UNCHANGED <<sessionVars, currently_handling, pending_sessions, wait_objects>>
      BY Zenon, <1>10, <2>2 DEF SendSyncRequest
    <3>2. o = s => currently_handling[s] # None
      BY Zenon, <2>2, <3>1 DEF Waiters
    <3>3. o \in Session /\ o # s => pending_requesting_threads'[o] = pending_requesting_threads[o]
      BY Zenon, <1>1, <3>1 DEF TypeOK
    <3> QED
      BY Zenon, <1>2, <1>3, <3>1, <3>2, <3>3 DEF sessionVars
  <2> QED
    BY Zenon, <2>1, <2>2
<1>11. ASSUME NEW ss \in SUBSET Session, NEW ts, WokenByClose(ss) \subseteq ts,
              Wake(ts), CloseClientSessions(ss)
       PROVE  FALSE
  <2>1. /\ o \in wait_objects[t] /\ t \notin ts
        /\ client' = [s \in Session |-> client[s] /\ s \notin ss]
        /\ pending_sessions' = pending_sessions
    BY Zenon, <1>11 DEF Wake, CloseClientSessions
  <2>2. o \notin ss
    BY Zenon, <1>11, <2>1 DEF WokenByClose
  <2>3. o \in Session => /\ pending_requesting_threads'[o] = pending_requesting_threads[o]
                         /\ currently_handling'[o] = currently_handling[o]
    <3> DEFINE pend == [s \in Session |-> IF s \in ss THEN <<>> ELSE pending_requesting_threads[s]]
               curr == [s \in Session |-> IF s \in ss THEN None ELSE currently_handling[s]]
    <3>1. DestroySessions(server, active_sessions, pend, curr)
      BY Zenon, <1>11 DEF CloseClientSessions
    <3>2. o \in Session => pend[o] = pending_requesting_threads[o] /\ curr[o] = currently_handling[o]
      BY Zenon, <2>2
    <3> HIDE DEF pend, curr
    <3> QED
      BY Zenon, <1>5, <3>1, <3>2
  <2>4. o \in Session => client'[o] = client[o]
    BY Zenon, <1>1, <2>1, <2>2 DEF TypeOK
  <2> QED
    BY Zenon, <1>6, <2>1, <2>3, <2>4
<1>12. ASSUME NEW c \in Client, NEW s \in Session, CloseClient(c, s) PROVE FALSE
  BY Zenon, <1>11, <1>12 DEF CloseClient
<1>13. ASSUME DestroyProcess PROVE FALSE
  BY Zenon, <1>11, <1>13 DEF DestroyProcess
<1>14. ASSUME NEW c \in Client, IpcDelayOver(c) PROVE FALSE
  BY Zenon, <1>6, <1>14 DEF IpcDelayOver, sessionVars, requestVars
<1>15. ASSUME NEW c \in Client, HleAnswers(c) PROVE FALSE
  <2>1. o \in wait_objects[t] /\ UNCHANGED <<client, pending_sessions>>
    BY Zenon, <1>15 DEF HleAnswers, Wake
  <2>2. o \in Session => /\ pending_requesting_threads'[o] = pending_requesting_threads[o]
                         /\ currently_handling'[o] = currently_handling[o]
    BY Zenon, <1>5, <1>15 DEF HleAnswers
  <2> QED
    BY Zenon, <1>6, <2>1, <2>2
<1>16. ASSUME TerminateProcess PROVE FALSE
  <2>1. o \in wait_objects[t] /\ UNCHANGED <<client, pending_sessions>>
    BY Zenon, <1>16 DEF TerminateProcess
  <2>2. o \in Session => /\ pending_requesting_threads'[o] = pending_requesting_threads[o]
                         /\ currently_handling'[o] = currently_handling[o]
    BY Zenon, <1>5, <1>16 DEF TerminateProcess
  <2> QED
    BY Zenon, <1>6, <2>1, <2>2
<1>17. ASSUME NEW u \in Server, NEW p \in Port, AcceptSession(u, p) PROVE FALSE
  <2>1. /\ pending_sessions[p] # <<>> /\ UNCHANGED <<client, requestVars, wait_objects>>
        /\ \A q \in Port : q # p => pending_sessions'[q] = pending_sessions[q]
    BY Zenon, <1>1, <1>17 DEF AcceptSession, TypeOK
  <2> QED
    BY <1>2, <1>3, <2>1 DEF requestVars
<1>18. ASSUME NEW u \in Server, NEW s \in Session, CloseServer(u, s) PROVE FALSE
  <2>1. o \in wait_objects[t] /\ UNCHANGED <<client, pending_sessions>>
    BY Zenon, <1>18 DEF CloseServer
  <2>2. o \in Session => /\ pending_requesting_threads'[o] = pending_requesting_threads[o]
                         /\ currently_handling'[o] = currently_handling[o]
    BY Zenon, <1>5, <1>18 DEF CloseServer
  <2> QED
    BY Zenon, <1>6, <2>1, <2>2
<1>19. ASSUME NEW u \in Server, NEW target \in Session \cup {None},
              NEW objects \in SUBSET ServerHandles, ReplyAndReceive(u, target, objects)
       PROVE  o \in Session /\ Replied(o)
  <2>1. PICK st, h : ReplyDone(st, h) /\ Receive(u, objects, st, h)
    BY Zenon, <1>19, ReplyLeaves
  <2>2. client' = client /\ pending_sessions' = pending_sessions
    BY Zenon, <1>19 DEF ReplyAndReceive, sessionVars
  <2>3. h \in [Session -> Client \cup {None}]
    BY Zenon, <2>1 DEF ReplyDone
  <2>4. ASSUME NEW s \in Session, currently_handling'[s] = None
        PROVE  pending_requesting_threads'[s] = pending_requesting_threads[s]
    <3>1. CASE UNCHANGED pending_requesting_threads
      BY Zenon, <3>1
    <3>2. ASSUME NEW r \in objects, ~ShouldWait(r, h), r \in Session, client[r],
                 currently_handling' = [h EXCEPT ![r] = back(pending_requesting_threads[r])],
                 pending_requesting_threads' = [pending_requesting_threads EXCEPT ![r] = pop_back(@)]
          PROVE  pending_requesting_threads'[s] = pending_requesting_threads[s]
      <4>1. pending_requesting_threads[r] # <<>> /\ pending_requesting_threads[r] \in Seq(Client)
        BY Zenon, <1>1, <3>2, IpcAssumption DEF ShouldWait, TypeOK
      <4>2. back(pending_requesting_threads[r]) # None
        <5>1. back(pending_requesting_threads[r]) \in Client
          BY Zenon, <4>1, PopBackFacts
        <5> QED
          BY Zenon, <5>1, IpcAssumption
      <4>3. s # r
        BY Zenon, <2>3, <2>4, <3>2, <4>2
      <4> QED
        BY <1>1, <3>2, <4>3 DEF TypeOK
    <3> QED
      BY Zenon, <2>1, <3>1, <3>2 DEF Receive
  <2>5. \/ o \in wait_objects[t]
        \/ /\ ShouldWait(o, h) /\ currently_handling' = h
           /\ UNCHANGED pending_requesting_threads
    BY Zenon, <1>1, <2>1 DEF Receive, TypeOK
  <2>6. o \in wait_objects[t]
    BY Zenon, <1>2, <1>3, <2>2, <2>5 DEF ShouldWait
  <2>7. o \in Session /\ currently_handling[o] # None /\ client'[o] /\ currently_handling'[o] = None
    BY Zenon, <1>2, <1>3, <2>2, <2>4, <2>6
  <2> QED
    BY Zenon, <1>4, <2>7 DEF Replied
<1> QED
  BY Zenon, <1>7, <1>8, <1>9, <1>10, <1>12, <1>13, <1>14, <1>15, <1>16, <1>17, <1>18, <1>19 DEF Next

\* A request, a connection and the end of a client wake the server threads that
\* wait for them; only the reply of another thread can leave one asleep.
THEOREM WakeupsAreKept == Spec => WakeupsKept
<1>1. IInv /\ IInv' /\ [Next]_vars =>
        [\A x \in Overlooked' \ Overlooked : x[2] \in Session /\ Replied(x[2])]_vars
  BY Zenon, StepWakes
<1> QED
  BY <1>1, Invariance, PTL DEF Spec, WakeupsKept

=============================================================================
