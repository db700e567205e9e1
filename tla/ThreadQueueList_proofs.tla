----------------------- MODULE ThreadQueueList_proofs -----------------------
(***************************************************************************)
(* Proofs about ThreadQueueList: the chain of the queues is sorted, a walk  *)
(* stays on it, and the list implements ReadyQueue, for any number of       *)
(* priorities and threads and wherever the array of queues lies.            *)
(***************************************************************************)
EXTENDS ThreadQueueList, Lists_lemmas

\* Only linked queues hold threads.
DataLinked == \A q \in Queue : data[q] # <<>> => q \in Linked

\* What a walk has passed is empty, and a walk that looks for something better
\* than stop has not passed stop.
WalkSound ==
    call # "none" =>
        /\ cur \in Linked \cup {Null}
        /\ \A q \in Linked : cur = Null \/ q < cur => data[q] = <<>>
        /\ call = "pop_first_better" => cur \in Linked /\ stop \in Linked /\ cur <= stop

Inv == TypeOK /\ ChainSorted /\ DataLinked /\ WalkSound

-----------------------------------------------------------------------------

\* Addresses of queues are naturals above the tag; indices go back and forth.
LEMMA Addresses ==
    /\ Queue \subseteq Nat /\ Base \in Queue /\ Null \notin Queue /\ UnlinkedTag \notin Queue
    /\ Null # UnlinkedTag
    /\ \A q \in Queue : q > UnlinkedTag /\ q - Base \in 0 .. NumQueues - 1 /\ Base + (q - Base) = q
    /\ \A p \in 0 .. NumQueues - 1 : Base + p \in Queue /\ Base + p - Base = p
  BY QueueAssumption DEF Queue, Null, UnlinkedTag

\* A pointer that is saved as an index and loaded again is the same pointer.
LEMMA PointerRoundTrip ==
    ASSUME NEW q \in Pointer
    PROVE  ToPointer(ToIndex(q)) = q
<1>1. CASE q \in Queue
  BY <1>1, Addresses, QueueAssumption DEF ToPointer, ToIndex, Queue, Null, UnlinkedTag
<1> QED
  BY <1>1 DEF Pointer, ToPointer, ToIndex, Null, UnlinkedTag

\* A nonempty set of naturals with an upper bound has a greatest element.
LEMMA GreatestNat ==
    ASSUME NEW S, S \subseteq Nat, S # {}, NEW n \in Nat, \A x \in S : x <= n
    PROVE  \E m \in S : \A x \in S : x <= m
<1> DEFINE U == {k \in Nat : \A x \in S : x <= k}
<1>1. PICK m \in U : \A k \in U : m <= k
  BY Zenon, LeastNat
<1>2. CASE m \in S
  BY Zenon, <1>1, <1>2
<1>3. CASE m \notin S
  <2>1. PICK x \in S : TRUE
    BY Zenon
  <2>2. x \in Nat /\ m \in Nat /\ x <= m /\ x # m
    BY Zenon, <1>1, <1>3, <2>1
  <2>3. m - 1 \in Nat
    BY <2>2
  <2>4. \A y \in S : y <= m - 1
    <3> SUFFICES ASSUME NEW y \in S PROVE y <= m - 1
      BY Zenon
    <3>1. y \in Nat /\ y <= m /\ y # m
      BY Zenon, <1>1, <1>3
    <3> QED
      BY <3>1, <2>2
  <2>5. m - 1 \in U
    BY Zenon, <2>3, <2>4
  <2>6. m <= m - 1
    BY Zenon, <1>1, <2>5
  <2> QED
    BY <2>2, <2>6
<1> QED
  BY Zenon, <1>2, <1>3

\* The loop of link() finds the last linked queue before q.
LEMMA LastBeforeLemma ==
    ASSUME NEW q \in Queue, Before(q) # {}
    PROVE  LastBefore(q) \in Before(q) /\ \A y \in Before(q) : y <= LastBefore(q)
<1>1. q \in Nat /\ \A x \in Before(q) : x \in Queue /\ x < q
  BY Zenon, Addresses DEF Before, Linked
<1>2. ASSUME NEW x \in Before(q) PROVE x \in Nat /\ x <= q
  <2>1. x \in Queue /\ x < q
    BY Zenon, <1>1, <1>2
  <2>2. x \in Nat
    BY Zenon, <2>1, Addresses
  <2> QED
    BY <1>1, <2>1, <2>2
<1>3. Before(q) \subseteq Nat
  BY Zenon, <1>2
<1>4. \E m \in Before(q) : \A x \in Before(q) : x <= m
  BY Zenon, <1>1, <1>2, <1>3, GreatestNat
<1> QED
  BY Zenon, <1>4 DEF LastBefore

\* Taking a thread out of a list: the rest is a list, and empty lists stay empty.
LEMMA WithoutType ==
    ASSUME NEW S, NEW q \in Seq(S), NEW t
    PROVE  Without(q, t) \in Seq(S) /\ (q = <<>> => Without(q, t) = <<>>)
<1>1. CASE ~ \E i \in 1 .. Len(q) : q[i] = t
  BY Zenon, <1>1 DEF Without
<1>2. CASE \E i \in 1 .. Len(q) : q[i] = t
  <2> DEFINE k == CHOOSE i \in 1 .. Len(q) : q[i] = t
             w == [j \in 1 .. (Len(q) - 1) |-> IF j < k THEN q[j] ELSE q[j + 1]]
  <2>1. k \in 1 .. Len(q)
    BY Zenon, <1>2
  <2>2. Without(q, t) = w
    BY Zenon, <1>2 DEF Without
  <2> HIDE DEF k
  <2>3. Len(q) \in Nat /\ Len(q) - 1 \in Nat /\ \A j \in 1 .. Len(q) : q[j] \in S
    BY <2>1
  <2>4. w \in [1 .. (Len(q) - 1) -> S]
    BY <2>1, <2>3
  <2>5. w \in Seq(S)
    BY <2>3, <2>4
  <2>6. q # <<>>
    BY <2>1
  <2> QED
    BY Zenon, <2>2, <2>5, <2>6
<1> QED
  BY Zenon, <1>1, <1>2

\* link() puts q into the chain at its place.
LEMMA LinkLemma ==
    ASSUME TypeOK, ChainSorted, NEW q \in Queue, q \notin Linked, link(q)
    PROVE  /\ first' \in Pointer /\ next_nonempty' \in [Queue -> Pointer]
           /\ Linked' = Linked \cup {q}
           /\ ChainSorted'
<1>1. Linked \subseteq Queue /\ Queue \subseteq Nat /\ q \in Nat /\ \A x \in Linked : x \in Nat /\ x # q
  BY Zenon, Addresses DEF Linked
<1>2. first \in Linked \cup {Null}
  BY Zenon DEF ChainSorted, PointsToLeast
<1>3. \A x \in Linked : next_nonempty[x] \in Linked \cup {Null}
  BY Zenon DEF ChainSorted, PointsToLeast
<1>4. CASE Before(q) = {}
  <2>1. first' = q /\ next_nonempty' = [next_nonempty EXCEPT ![q] = first]
    BY Zenon, <1>4 DEF link
  <2>2. first' \in Pointer /\ next_nonempty' \in [Queue -> Pointer]
    BY Zenon, <2>1 DEF TypeOK, Pointer
  <2>3. next_nonempty'[q] = first /\ \A x \in Queue : x # q => next_nonempty'[x] = next_nonempty[x]
    BY Zenon, <2>1 DEF TypeOK
  <2>4. first # UnlinkedTag
    BY Zenon, <1>1, <1>2, Addresses
  <2>5. Linked' = Linked \cup {q}
    BY Zenon, <1>1, <2>3, <2>4 DEF Linked
  <2>6. \A x \in Linked : q < x
    BY <1>1, <1>4 DEF Before
  <2>7. PointsToLeast(first', Linked')
    BY <2>1, <2>5, <2>6, <1>1 DEF PointsToLeast
  <2>8. {x \in Linked' : x > q} = Linked
    <3>1. ~(q > q) /\ \A x \in Linked : x > q
      BY <2>6, <1>1
    <3> QED
      BY Zenon, <3>1, <2>5
  <2>9. ASSUME NEW x \in Linked PROVE {y \in Linked' : y > x} = {y \in Linked : y > x}
    BY <2>5, <2>6, <1>1
  <2>10. ASSUME NEW x \in Linked' PROVE PointsToLeast(next_nonempty'[x], {y \in Linked' : y > x})
    <3>1. CASE x = q
      <4>1. PointsToLeast(first, Linked)
        BY Zenon DEF ChainSorted
      <4> QED
        BY Zenon, <4>1, <2>3, <2>8, <3>1
    <3>2. CASE x # q
      <4>1. x \in Linked /\ x \in Queue
        BY Zenon, <2>5, <2>10, <3>2, <1>1
      <4>2. PointsToLeast(next_nonempty[x], {y \in Linked : y > x})
        BY Zenon, <4>1 DEF ChainSorted
      <4> QED
        BY Zenon, <4>1, <4>2, <2>3, <2>9, <3>2
    <3> QED
      BY Zenon, <3>1, <3>2
  <2> QED
    BY Zenon, <2>2, <2>5, <2>7, <2>10 DEF ChainSorted
<1>5. CASE Before(q) # {}
  <2> DEFINE b == LastBefore(q)
  <2>1. b \in Before(q) /\ \A y \in Before(q) : y <= b
    BY Zenon, <1>5, LastBeforeLemma
  <2>2. first' = first
        /\ next_nonempty' = [next_nonempty EXCEPT ![q] = next_nonempty[b], ![b] = q]
    BY Zenon, <1>5 DEF link
  <2> HIDE DEF b
  <2>3. b \in Linked /\ b \in Queue /\ b < q /\ b \in Nat
    BY Zenon, <1>1, <2>1 DEF Before
  <2>4. next_nonempty'[q] = next_nonempty[b] /\ next_nonempty'[b] = q
        /\ \A x \in Queue : x # q /\ x # b => next_nonempty'[x] = next_nonempty[x]
    BY Zenon, <2>2, <2>3, <1>1 DEF TypeOK
  <2>5. first' \in Pointer /\ next_nonempty' \in [Queue -> Pointer]
    BY Zenon, <2>2, <2>3 DEF TypeOK, Pointer
  <2>6. next_nonempty[b] # UnlinkedTag /\ q # UnlinkedTag
    BY Zenon, <2>3, Addresses DEF Linked
  <2>7. Linked' = Linked \cup {q}
    BY Zenon, <2>3, <2>4, <2>6, <1>1 DEF Linked
  <2>8. \A x \in Linked : x <= b \/ q < x
    BY <1>1, <2>1 DEF Before
  <2>9. PointsToLeast(first', Linked')
    <3>1. first \in Linked /\ \A x \in Linked : first <= x
      BY Zenon, <2>3 DEF ChainSorted, PointsToLeast
    <3>2. first <= q
      BY <3>1, <2>3, <1>1
    <3> QED
      BY Zenon, <2>2, <2>7, <3>1, <3>2 DEF PointsToLeast
  <2>10. {y \in Linked' : y > q} = {y \in Linked : y > b}
    <3>1. ~(q > q) /\ \A y \in Linked : y > q <=> y > b
      BY <2>8, <2>3, <1>1
    <3> QED
      BY Zenon, <3>1, <2>7
  <2>11. ASSUME NEW x \in Linked' PROVE PointsToLeast(next_nonempty'[x], {y \in Linked' : y > x})
    <3>1. CASE x = q
      <4>1. PointsToLeast(next_nonempty[b], {y \in Linked : y > b})
        BY Zenon, <2>3 DEF ChainSorted
      <4> QED
        BY Zenon, <4>1, <2>4, <2>10, <3>1
    <3>2. CASE x = b
      <4>1. q \in {y \in Linked' : y > b}
        BY Zenon, <2>3, <2>7, <1>1
      <4>2. \A y \in {z \in Linked' : z > b} : q <= y
        BY <2>7, <2>8, <2>3, <1>1
      <4> QED
        BY Zenon, <4>1, <4>2, <2>4, <3>2 DEF PointsToLeast
    <3>3. CASE x # q /\ x # b
      <4>1. x \in Linked /\ x \in Queue /\ x \in Nat
        BY Zenon, <2>7, <2>11, <3>3, <1>1
      <4>2. PointsToLeast(next_nonempty[x], {y \in Linked : y > x})
        BY Zenon, <4>1 DEF ChainSorted
      <4>3. CASE q < x
        <5>1. {y \in Linked' : y > x} = {y \in Linked : y > x}
          BY <2>7, <4>1, <4>3, <1>1
        <5> QED
          BY Zenon, <4>1, <4>2, <5>1, <2>4, <3>3
      <4>4. CASE x < b
        <5>1. b \in {y \in Linked : y > x}
          BY Zenon, <2>3, <4>4, <4>1
        <5>2. next_nonempty[x] \in {y \in Linked : y > x}
              /\ \A y \in {z \in Linked : z > x} : next_nonempty[x] <= y
          BY Zenon, <4>2, <5>1 DEF PointsToLeast
        <5>3. next_nonempty[x] <= q
          <6>1. next_nonempty[x] \in Nat /\ next_nonempty[x] <= b
            BY Zenon, <5>1, <5>2, <1>1
          <6> QED
            BY <6>1, <2>3, <1>1
        <5>4. {y \in Linked' : y > x} = {y \in Linked : y > x} \cup {q}
          BY <2>7, <2>3, <4>1, <4>4, <1>1
        <5> QED
          BY Zenon, <4>1, <5>2, <5>3, <5>4, <2>4, <3>3 DEF PointsToLeast
      <4> QED
        BY <4>1, <4>3, <4>4, <2>8, <2>3, <3>3
    <3> QED
      BY Zenon, <3>1, <3>2, <3>3
  <2> QED
    BY <2>5, <2>7, <2>9, <2>11 DEF ChainSorted
<1> QED
  BY Zenon, <1>4, <1>5

-----------------------------------------------------------------------------
(* The inductive invariant *)

\* The list starts empty, with nothing linked.
LEMMA InitLemma == Init => Inv
<1> SUFFICES ASSUME Init PROVE Inv
  BY Zenon
<1>1. Linked = {}
  BY Zenon DEF Init, Linked
<1>2. TypeOK
  <2>1. result \in ({NoPriority} \cup 0 .. NumQueues - 1) \X (Thread \cup {NoThread})
    BY QueueAssumption DEF Init, Nothing
  <2> QED
    BY <2>1, Addresses DEF Init, TypeOK, Pointer
<1>3. ChainSorted
  BY Zenon, <1>1 DEF Init, ChainSorted, PointsToLeast
<1>4. DataLinked
  BY Zenon DEF Init, DataLinked
<1>5. WalkSound
  BY Zenon DEF Init, WalkSound
<1> QED
  BY Zenon, <1>2, <1>3, <1>4, <1>5 DEF Inv

\* Between two pops, prepare() keeps the chain sorted and unlinks no queue.
LEMMA PreparedLemma ==
    ASSUME Inv, NEW q \in Queue, prepared(q)
    PROVE  /\ first' \in Pointer /\ next_nonempty' \in [Queue -> Pointer]
           /\ Linked' = Linked \cup {q}
           /\ ChainSorted'
<1>1. CASE q \in Linked
  <2>1. first' = first /\ next_nonempty' = next_nonempty
    BY Zenon, <1>1 DEF prepared
  <2>2. Linked' = Linked
    BY Zenon, <2>1 DEF Linked
  <2>3. ChainSorted'
    BY Zenon, <2>1, <2>2 DEF Inv, ChainSorted
  <2> QED
    BY Zenon, <1>1, <2>1, <2>2, <2>3 DEF Inv, TypeOK
<1>2. CASE q \notin Linked
  BY Zenon, <1>2, LinkLemma DEF prepared, Inv
<1> QED
  BY Zenon, <1>1, <1>2

\* A call that changes the threads of linked queues only.
LEMMA DataLemma ==
    ASSUME Inv, call = "none", UNCHANGED <<first, next_nonempty, walkVars, result>>,
           data' \in [Queue -> Seq(Thread)],
           \A q \in Queue : data'[q] # <<>> => q \in Linked
    PROVE  Inv'
<1>1. Linked' = Linked
  BY Zenon DEF Linked
<1>2. ChainSorted'
  BY Zenon, <1>1 DEF Inv, ChainSorted
<1>3. TypeOK'
  BY Zenon DEF Inv, TypeOK, walkVars
<1>4. DataLinked'
  BY Zenon, <1>1 DEF DataLinked
<1>5. WalkSound'
  BY Zenon DEF WalkSound, walkVars
<1> QED
  BY Zenon, <1>2, <1>3, <1>4, <1>5 DEF Inv

\* A pop begins at the head of the chain.
LEMMA StartLemma ==
    ASSUME Inv, NEW c \in {"get_first", "pop_first", "pop_first_better"}, NEW q \in Queue,
           c = "pop_first_better" => q \in Linked, Start(c, q)
    PROVE  Inv'
<1>1. UNCHANGED <<first, next_nonempty, data, result>> /\ call' = c /\ cur' = first /\ stop' = q
  BY Zenon DEF Start, queueVars
<1>2. Linked' = Linked
  BY Zenon, <1>1 DEF Linked
<1>3. ChainSorted' /\ DataLinked'
  BY Zenon, <1>1, <1>2 DEF Inv, ChainSorted, DataLinked
<1>4. TypeOK'
  BY Zenon, <1>1 DEF Inv, TypeOK
<1>5. PointsToLeast(first, Linked)
  BY Zenon DEF Inv, ChainSorted
<1>6. Linked \subseteq Nat
  BY Zenon, Addresses DEF Linked
<1>7. first \in Linked \cup {Null} /\ \A x \in Linked : first \in Linked /\ first <= x
  BY Zenon, <1>5 DEF PointsToLeast
<1>8. \A x \in Linked : ~(first = Null \/ x < first)
  BY <1>6, <1>7, Addresses DEF Linked
<1>9. WalkSound'
  BY Zenon, <1>1, <1>2, <1>7, <1>8 DEF WalkSound
<1> QED
  BY Zenon, <1>3, <1>4, <1>9 DEF Inv

\* The walk passes an empty queue and stays on the chain.
LEMMA WalkLemma == ASSUME Inv, Walk PROVE Inv'
<1>1. /\ UNCHANGED <<first, next_nonempty, data, result, call, stop>>
      /\ call # "none" /\ Looping /\ cur \in Queue /\ data[cur] = <<>>
      /\ cur' = next_nonempty[cur]
  BY Zenon DEF Walk, Step, queueVars
<1>2. Linked' = Linked
  BY Zenon, <1>1 DEF Linked
<1>3. ChainSorted' /\ DataLinked'
  BY Zenon, <1>1, <1>2 DEF Inv, ChainSorted, DataLinked
<1>4. TypeOK'
  BY Zenon, <1>1 DEF Inv, TypeOK
<1>5. cur \in Linked /\ \A x \in Linked : x < cur => data[x] = <<>>
  BY Zenon, <1>1, Addresses DEF Inv, WalkSound
<1>6. PointsToLeast(next_nonempty[cur], {x \in Linked : x > cur})
  BY Zenon, <1>5 DEF Inv, ChainSorted
<1>7. \A x \in Linked : x \in Nat /\ cur \in Nat
  BY Zenon, <1>1, Addresses DEF Linked
<1>8. cur' \in Linked \cup {Null}
  BY Zenon, <1>1, <1>6 DEF PointsToLeast
<1>9. ASSUME NEW x \in Linked, cur' = Null \/ x < cur' PROVE data[x] = <<>>
  <2>1. CASE x < cur
    BY Zenon, <2>1, <1>5
  <2>2. CASE x = cur
    BY Zenon, <2>2, <1>1
  <2>3. CASE x > cur
    <3>1. cur' \in Linked /\ cur' <= x
      BY Zenon, <2>3, <1>1, <1>6 DEF PointsToLeast
    <3>2. cur' \in Nat /\ cur' # Null
      BY Zenon, <3>1, <1>7, Addresses DEF Linked
    <3> QED
      BY <3>1, <3>2, <1>7, <1>9
  <2> QED
    BY <2>1, <2>2, <2>3, <1>7
<1>10. ASSUME call = "pop_first_better" PROVE cur' \in Linked /\ stop \in Linked /\ cur' <= stop
  <2>1. stop \in Linked /\ cur < stop
    BY Zenon, <1>1, <1>10 DEF Inv, WalkSound, Looping
  <2>2. stop \in {x \in Linked : x > cur}
    BY Zenon, <2>1, <1>7
  <2> QED
    BY Zenon, <2>1, <2>2, <1>1, <1>6 DEF PointsToLeast
<1>11. WalkSound'
  BY Zenon, <1>1, <1>2, <1>8, <1>9, <1>10 DEF WalkSound
<1> QED
  BY Zenon, <1>3, <1>4, <1>11 DEF Inv

\* A pop that has found a thread takes it.
LEMMA FoundLemma == ASSUME Inv, Found PROVE Inv'
<1>1. /\ UNCHANGED <<first, next_nonempty, cur, stop>> /\ call' = "none"
      /\ cur \in Queue /\ data[cur] # <<>>
  BY Zenon DEF Found
<1>2. Linked' = Linked
  BY Zenon, <1>1 DEF Linked
<1>3. ChainSorted'
  BY Zenon, <1>1, <1>2 DEF Inv, ChainSorted
<1>4. data[cur] \in Seq(Thread) /\ Head(data[cur]) \in Thread /\ Tail(data[cur]) \in Seq(Thread)
  BY Zenon, <1>1, TailLemma DEF Inv, TypeOK
<1>5. data' = data \/ data' = [data EXCEPT ![cur] = Tail(data[cur])]
  BY Zenon DEF Found
<1>6. data' \in [Queue -> Seq(Thread)]
  BY Zenon, <1>1, <1>4, <1>5 DEF Inv, TypeOK
<1>7. cur \in Linked
  BY Zenon, <1>1 DEF Inv, DataLinked
<1>8. DataLinked'
  BY Zenon, <1>1, <1>2, <1>5, <1>7 DEF Inv, DataLinked, TypeOK
<1>9. ToIndex(cur) \in 0 .. NumQueues - 1
  BY Zenon, <1>1, Addresses DEF ToIndex
<1>10. result' = <<NoPriority, Head(data[cur])>> \/ result' = <<ToIndex(cur), Head(data[cur])>>
  BY Zenon DEF Found
<1>11. TypeOK'
  BY <1>1, <1>4, <1>6, <1>9, <1>10 DEF Inv, TypeOK
<1>12. WalkSound'
  BY Zenon, <1>1 DEF WalkSound
<1> QED
  BY Zenon, <1>3, <1>8, <1>11, <1>12 DEF Inv

\* A pop that has found nothing changes no queue.
LEMMA NotFoundLemma == ASSUME Inv, NotFound PROVE Inv'
<1>1. UNCHANGED <<first, next_nonempty, data, cur, stop>> /\ call' = "none"
  BY Zenon DEF NotFound, queueVars
<1>2. Linked' = Linked
  BY Zenon, <1>1 DEF Linked
<1>3. ChainSorted' /\ DataLinked'
  BY Zenon, <1>1, <1>2 DEF Inv, ChainSorted, DataLinked
<1>4. result' = <<NoPriority, NoThread>> \/ result' = <<0, NoThread>>
  BY Zenon DEF NotFound, Nothing
<1>5. TypeOK'
  BY <1>1, <1>4, QueueAssumption DEF Inv, TypeOK
<1>6. WalkSound'
  BY Zenon, <1>1 DEF WalkSound
<1> QED
  BY Zenon, <1>3, <1>5, <1>6 DEF Inv

\* Every step keeps the invariant.
LEMMA StepLemma == Inv /\ [Next]_vars => Inv'
<1> SUFFICES ASSUME Inv, [Next]_vars PROVE Inv'
  BY Zenon
<1> USE DEF Next
<1>1. CASE SaveLoad
  <2>1. first' = first
    BY Zenon, <1>1, PointerRoundTrip DEF SaveLoad, Inv, TypeOK
  <2>2. \A q \in Queue : ToPointer(ToIndex(next_nonempty[q])) = next_nonempty[q]
    BY Zenon, PointerRoundTrip DEF Inv, TypeOK
  <2>3. next_nonempty' = next_nonempty
    BY Zenon, <1>1, <2>2 DEF SaveLoad, Inv, TypeOK
  <2> QED
    BY Zenon, <1>1, <2>1, <2>3, DataLemma DEF SaveLoad, Inv, TypeOK, DataLinked
<1>2. CASE get_first \/ pop_first
  <2>1. stop \in Queue
    BY Zenon DEF Inv, TypeOK
  <2> QED
    BY Zenon, <1>2, <2>1, StartLemma DEF get_first, pop_first
<1>3. CASE WalkStep
  BY Zenon, <1>3, WalkLemma, FoundLemma, NotFoundLemma DEF WalkStep
<1>4. CASE clear
  <2>1. Linked' = {}
    BY Zenon, <1>4 DEF clear, Linked
  <2>2. TypeOK'
    BY <1>4 DEF clear, Inv, TypeOK, Pointer, walkVars
  <2>3. ChainSorted'
    BY Zenon, <1>4, <2>1 DEF clear, ChainSorted, PointsToLeast
  <2>4. DataLinked' /\ WalkSound'
    BY Zenon, <1>4 DEF clear, DataLinked, WalkSound, walkVars
  <2> QED
    BY Zenon, <2>2, <2>3, <2>4 DEF Inv
<1>5. ASSUME NEW q \in Queue, pop_first_better(q) PROVE Inv'
  BY Zenon, <1>5, StartLemma DEF pop_first_better
<1>6. ASSUME NEW q \in Queue, prepare(q) PROVE Inv'
  <2>1. prepared(q) /\ UNCHANGED <<data, walkVars, result>> /\ call = "none"
    BY Zenon, <1>6 DEF prepare
  <2>2. /\ first' \in Pointer /\ next_nonempty' \in [Queue -> Pointer]
        /\ Linked' = Linked \cup {q} /\ ChainSorted'
    BY Zenon, <2>1, PreparedLemma
  <2>3. TypeOK'
    BY Zenon, <2>1, <2>2 DEF Inv, TypeOK, walkVars
  <2>4. DataLinked' /\ WalkSound'
    BY Zenon, <2>1, <2>2 DEF Inv, DataLinked, WalkSound, walkVars
  <2> QED
    BY Zenon, <2>2, <2>3, <2>4 DEF Inv
<1>7. ASSUME NEW q \in Queue, rotate(q) PROVE Inv'
  <2>1. /\ UNCHANGED <<first, next_nonempty, walkVars, result>> /\ call = "none"
        /\ Len(data[q]) > 1 /\ data' = [data EXCEPT ![q] = Append(Tail(data[q]), Head(data[q]))]
    BY Zenon, <1>7 DEF rotate
  <2>2. data[q] \in Seq(Thread) /\ data[q] # <<>>
    BY <2>1 DEF Inv, TypeOK
  <2>3. Append(Tail(data[q]), Head(data[q])) \in Seq(Thread) /\ q \in Linked
    BY <2>2, TailLemma DEF Inv, DataLinked
  <2>4. data' \in [Queue -> Seq(Thread)] /\ \A x \in Queue : data'[x] # <<>> => x \in Linked
    BY Zenon, <2>1, <2>3 DEF Inv, TypeOK, DataLinked
  <2> QED
    BY Zenon, <2>1, <2>4, DataLemma
<1>8. ASSUME NEW q \in Queue, NEW t \in Thread, push_front(q, t) \/ push_back(q, t) PROVE Inv'
  <2>1. /\ UNCHANGED <<first, next_nonempty, walkVars, result>> /\ call = "none" /\ q \in Linked
        /\ \/ data' = [data EXCEPT ![q] = <<t>> \o data[q]]
           \/ data' = [data EXCEPT ![q] = Append(data[q], t)]
    BY Zenon, <1>8 DEF push_front, push_back, Pushed
  <2>2. <<t>> \o data[q] \in Seq(Thread) /\ Append(data[q], t) \in Seq(Thread)
    BY DEF Inv, TypeOK
  <2>3. data' \in [Queue -> Seq(Thread)] /\ \A x \in Queue : data'[x] # <<>> => x \in Linked
    BY Zenon, <2>1, <2>2 DEF Inv, TypeOK, DataLinked
  <2> QED
    BY Zenon, <2>1, <2>3, DataLemma
<1>9. ASSUME NEW q \in Queue, NEW t \in Thread, remove(q, t) PROVE Inv'
  <2>1. /\ UNCHANGED <<first, next_nonempty, walkVars, result>> /\ call = "none"
        /\ data' = [data EXCEPT ![q] = Without(data[q], t)]
    BY Zenon, <1>9 DEF remove
  <2>2. Without(data[q], t) \in Seq(Thread) /\ (data[q] = <<>> => Without(data[q], t) = <<>>)
    BY Zenon, WithoutType DEF Inv, TypeOK
  <2>3. data' \in [Queue -> Seq(Thread)] /\ \A x \in Queue : data'[x] # <<>> => x \in Linked
    BY Zenon, <2>1, <2>2 DEF Inv, TypeOK, DataLinked
  <2> QED
    BY Zenon, <2>1, <2>3, DataLemma
<1>10. ASSUME NEW t \in Thread, NEW old \in Queue, NEW new \in Queue, move(t, old, new) PROVE Inv'
  <2> DEFINE removed == [data EXCEPT ![old] = Without(data[old], t)]
  <2>1. /\ prepared(new) /\ UNCHANGED <<walkVars, result>> /\ call = "none"
        /\ data' = [removed EXCEPT ![new] = Append(removed[new], t)]
    BY Zenon, <1>10 DEF move
  <2>2. Without(data[old], t) \in Seq(Thread) /\ (data[old] = <<>> => Without(data[old], t) = <<>>)
    BY Zenon, WithoutType DEF Inv, TypeOK
  <2>3. removed \in [Queue -> Seq(Thread)] /\ \A x \in Queue : removed[x] # <<>> => x \in Linked
    BY Zenon, <2>2 DEF Inv, TypeOK, DataLinked
  <2> HIDE DEF removed
  <2>4. Append(removed[new], t) \in Seq(Thread)
    BY <2>3
  <2>5. data' \in [Queue -> Seq(Thread)] /\ \A x \in Queue : data'[x] # <<>> => x = new \/ x \in Linked
    BY Zenon, <2>1, <2>3, <2>4
  <2>6. /\ first' \in Pointer /\ next_nonempty' \in [Queue -> Pointer]
        /\ Linked' = Linked \cup {new} /\ ChainSorted'
    BY Zenon, <2>1, PreparedLemma
  <2>7. TypeOK'
    BY Zenon, <2>1, <2>5, <2>6 DEF Inv, TypeOK, walkVars
  <2>8. DataLinked' /\ WalkSound'
    BY Zenon, <2>1, <2>5, <2>6 DEF DataLinked, WalkSound, walkVars
  <2> QED
    BY Zenon, <2>6, <2>7, <2>8 DEF Inv
<1>11. CASE UNCHANGED vars
  <2>1. Linked' = Linked
    BY Zenon, <1>11 DEF vars, queueVars, Linked
  <2>2. ChainSorted' /\ DataLinked'
    BY Zenon, <1>11, <2>1 DEF vars, queueVars, Inv, ChainSorted, DataLinked
  <2>3. TypeOK'
    BY Zenon, <1>11 DEF vars, queueVars, walkVars, Inv, TypeOK
  <2>4. WalkSound'
    BY Zenon, <1>11, <2>1 DEF vars, queueVars, walkVars, Inv, WalkSound
  <2> QED
    BY Zenon, <2>2, <2>3, <2>4 DEF Inv
<1> QED
  BY Zenon, <1>1, <1>2, <1>3, <1>4, <1>5, <1>6, <1>7, <1>8, <1>9, <1>10, <1>11

\* Inv holds in every reachable state.
THEOREM InductiveInvariant == Spec => []Inv
<1> QED
  BY InitLemma, StepLemma, PTL DEF Spec

\* Pointers, lists and results keep their types.
THEOREM TypeCorrect == Spec => []TypeOK
<1>1. Inv => TypeOK
  BY Zenon DEF Inv
<1> QED
  BY <1>1, InductiveInvariant, PTL

\* However the levels are linked, the chain stays sorted and complete.
THEOREM ChainIsSorted == Spec => []ChainSorted
<1>1. Inv => ChainSorted
  BY Zenon DEF Inv
<1> QED
  BY <1>1, InductiveInvariant, PTL

\* No pop follows a null pointer or the tag of an unlinked queue.
THEOREM NoWildWalk == Spec => []WalkStaysInside
<1>1. Inv => WalkStaysInside
  <2> SUFFICES ASSUME Inv, call # "none", Looping PROVE cur \in Queue
    BY Zenon DEF WalkStaysInside
  <2> QED
    BY Zenon, Addresses DEF Inv, WalkSound, Looping, Linked
<1> QED
  BY <1>1, InductiveInvariant, PTL

-----------------------------------------------------------------------------
(* Refinement *)

\* The queues as the scheduler sees them.
Queues == [p \in 0 .. NumQueues - 1 |-> data[Base + p]]

\* A change of one queue is a change of the list of one priority.
LEMMA OneQueue ==
    ASSUME data \in [Queue -> Seq(Thread)], NEW q \in Queue, NEW v,
           data' = [data EXCEPT ![q] = v]
    PROVE  /\ Queues' = [Queues EXCEPT ![q - Base] = v]
           /\ Queues[q - Base] = data[q]
           /\ q - Base \in 0 .. NumQueues - 1
<1>1. q - Base \in 0 .. NumQueues - 1 /\ Base + (q - Base) = q
  BY Zenon, Addresses
<1>2. \A p \in 0 .. NumQueues - 1 : Base + p \in Queue /\ (Base + p = q <=> p = q - Base)
  BY Addresses, QueueAssumption DEF Queue
<1>3. \A p \in 0 .. NumQueues - 1 : data'[Base + p] = IF p = q - Base THEN v ELSE data[Base + p]
  BY Zenon, <1>2
<1> QED
  BY Zenon, <1>1, <1>3 DEF Queues

\* All priorities better than the queue x are empty when the linked queues
\* before x are.
LEMMA EmptyBefore ==
    ASSUME Inv, NEW x \in Int, \A q \in Linked : q < x => data[q] = <<>>
    PROVE  \A p \in 0 .. NumQueues - 1 : Base + p < x => Queues[p] = <<>>
<1> SUFFICES ASSUME NEW p \in 0 .. NumQueues - 1, Base + p < x PROVE data[Base + p] = <<>>
  BY Zenon DEF Queues
<1>1. Base + p \in Queue
  BY Zenon, Addresses
<1> QED
  BY Zenon, <1>1 DEF Inv, DataLinked

\* The last step of a walk that found a thread is a pop of the best thread.
LEMMA FoundRefines == ASSUME Inv, Found PROVE Abstract!Next
<1> DEFINE p == cur - Base
<1>1. call # "none" /\ Looping /\ cur \in Queue /\ data[cur] # <<>>
  BY Zenon DEF Found
<1>2. p \in 0 .. NumQueues - 1 /\ Base + p = cur /\ ToIndex(cur) = p /\ cur \in Int
  <2>1. p \in 0 .. NumQueues - 1 /\ Base + p = cur /\ cur \in Int
    BY <1>1, Addresses
  <2>2. cur # Null /\ cur # UnlinkedTag
    BY Zenon, <1>1, Addresses
  <2> QED
    BY Zenon, <2>1, <2>2 DEF ToIndex
<1>3. Queues[p] = data[cur]
  BY Zenon, <1>2 DEF Queues
<1>4. \A q \in Linked : q < cur => data[q] = <<>>
  BY Zenon, <1>1, Addresses DEF Inv, WalkSound
<1>5. \A o \in 0 .. NumQueues - 1 : o < p => Queues[o] = <<>>
  <2> SUFFICES ASSUME NEW o \in 0 .. NumQueues - 1, o < p PROVE Queues[o] = <<>>
    BY Zenon
  <2>1. Base + o < cur
    BY <1>2, QueueAssumption
  <2> QED
    BY Zenon, <2>1, <1>2, <1>4, EmptyBefore
<1>6. p < NumQueues /\ (call = "pop_first_better" => p < stop - Base)
  <2>1. ASSUME call = "pop_first_better" PROVE p < stop - Base
    <3>1. cur < stop /\ stop \in Queue
      BY Zenon, <1>1, <2>1 DEF Looping, Inv, TypeOK
    <3> QED
      BY <3>1, <1>1, QueueAssumption DEF Queue
  <2> QED
    BY <2>1, <1>2, QueueAssumption
<1>7. ASSUME NEW limit, p < limit PROVE Abstract!Best(p, limit)
  BY Zenon, <1>1, <1>3, <1>5, <1>7 DEF Abstract!Best, Abstract!Priority, Queues
<1>8. CASE call = "get_first"
  <2>1. result' = <<NoPriority, Head(Queues[p])>> /\ data' = data
    BY Zenon, <1>3, <1>8 DEF Found
  <2>2. Queues' = Queues
    BY Zenon, <2>1 DEF Queues
  <2>3. Abstract!Best(p, NumQueues)
    BY Zenon, <1>6, <1>7
  <2>4. Abstract!get_first
    BY Zenon, <1>2, <2>1, <2>2, <2>3 DEF Abstract!get_first, Abstract!NoPriority, NoPriority, Abstract!Priority, Queues
  <2> QED
    BY Zenon, <2>4 DEF Abstract!Next
<1>9. CASE call # "get_first"
  <2>1. result' = <<p, Head(Queues[p])>> /\ data' = [data EXCEPT ![cur] = Tail(data[cur])]
    BY Zenon, <1>2, <1>3, <1>9 DEF Found
  <2>2. Queues' = [Queues EXCEPT ![p] = Tail(Queues[p])]
    BY Zenon, <1>1, <1>3, <2>1, OneQueue DEF Inv, TypeOK
  <2>3. ASSUME NEW limit, p < limit PROVE Abstract!pop(limit)
    <3>1. Abstract!Best(p, limit)
      BY Zenon, <1>7, <2>3
    <3> QED
      BY Zenon, <1>2, <2>1, <2>2, <3>1 DEF Abstract!pop, Abstract!Priority, Queues
  <2>4. CASE call = "pop_first_better"
    <3>1. PICK limit \in Abstract!Priority : limit = stop - Base
      BY Zenon, Addresses DEF Inv, TypeOK, Abstract!Priority
    <3>2. Abstract!pop_first_better(limit)
      BY Zenon, <1>6, <2>3, <2>4, <3>1 DEF Abstract!pop_first_better
    <3> QED
      BY Zenon, <3>2 DEF Abstract!Next
  <2>5. CASE call # "pop_first_better"
    <3>1. Abstract!pop_first
      BY Zenon, <1>6, <2>3 DEF Abstract!pop_first
    <3> QED
      BY Zenon, <3>1 DEF Abstract!Next
  <2> QED
    BY Zenon, <2>4, <2>5
<1> QED
  BY Zenon, <1>8, <1>9

\* The last step of a walk that found nothing is a pop of an empty queue.
LEMMA NotFoundRefines == ASSUME Inv, NotFound PROVE Abstract!Next
<1>1. call # "none" /\ ~Looping /\ data' = data
  BY Zenon DEF NotFound, queueVars
<1>2. Queues' = Queues
  BY Zenon, <1>1 DEF Queues
<1>3. CASE call = "pop_first_better"
  <2>1. stop \in Queue /\ stop \in Int /\ cur \in Queue /\ cur \in Int
    BY <1>1, <1>3, Addresses DEF Inv, TypeOK, WalkSound, Linked, Queue
  <2>0. PICK limit \in Abstract!Priority : limit = stop - Base
    BY Zenon, <2>1, Addresses DEF Abstract!Priority
  <2>2. \A q \in Linked : q < stop => data[q] = <<>>
    <3> SUFFICES ASSUME NEW q \in Linked, q < stop PROVE data[q] = <<>>
      BY Zenon
    <3>1. q \in Nat /\ stop <= cur
      BY <1>1, <1>3, <2>1, Addresses DEF Looping, Linked
    <3>2. q < cur
      BY <3>1, <2>1
    <3> QED
      BY Zenon, <3>2, <1>1 DEF Inv, WalkSound
  <2>3. \A p \in 0 .. NumQueues - 1 : p < limit => Queues[p] = <<>>
    <3> SUFFICES ASSUME NEW p \in 0 .. NumQueues - 1, p < limit PROVE Queues[p] = <<>>
      BY Zenon
    <3>1. Base + p < stop
      BY <2>0, <2>1, QueueAssumption
    <3> QED
      BY Zenon, <3>1, <2>1, <2>2, EmptyBefore
  <2>4. Abstract!AllEmpty(limit)
    BY Zenon, <2>3 DEF Abstract!AllEmpty, Abstract!Priority, Queues
  <2>5. result' = <<0, NoThread>>
    BY Zenon, <1>3 DEF NotFound, Nothing
  <2>6. Abstract!pop_first_better(limit)
    BY Zenon, <1>2, <2>4, <2>5 DEF Abstract!pop_first_better, Abstract!pop, Abstract!Nothing, Queues
  <2> QED
    BY Zenon, <2>6 DEF Abstract!Next
<1>4. CASE call # "pop_first_better"
  <2>1. cur = Null
    BY Zenon, <1>1, <1>4 DEF Looping
  <2>2. \A q \in Linked : data[q] = <<>>
    BY Zenon, <1>1, <2>1 DEF Inv, WalkSound
  <2>3. \A p \in 0 .. NumQueues - 1 : Queues[p] = <<>>
    <3>1. \A p \in 0 .. NumQueues - 1 : Base + p \in Queue
      BY Zenon, Addresses
    <3> QED
      BY Zenon, <2>2, <3>1 DEF Queues, Inv, DataLinked
  <2>4. Abstract!AllEmpty(NumQueues)
    BY Zenon, <2>3 DEF Abstract!AllEmpty, Abstract!Priority, Queues
  <2>5. CASE call = "get_first"
    <3>1. result' = <<NoPriority, NoThread>>
      BY Zenon, <2>5 DEF NotFound
    <3>2. Abstract!get_first
      BY Zenon, <1>2, <2>4, <3>1 DEF Abstract!get_first, Abstract!NoPriority, NoPriority, Queues
    <3> QED
      BY <3>2 DEF Abstract!Next
  <2>6. CASE call # "get_first"
    <3>1. result' = <<0, NoThread>>
      BY Zenon, <2>6 DEF NotFound, Nothing
    <3>2. Abstract!pop_first
      BY Zenon, <1>2, <2>4, <3>1 DEF Abstract!pop_first, Abstract!pop, Abstract!Nothing, Queues
    <3> QED
      BY <3>2 DEF Abstract!Next
  <2> QED
    BY <2>5, <2>6
<1> QED
  BY <1>3, <1>4

\* The list implements one queue per priority: a pop takes effect with the last
\* step of its walk; walking, linking and a saved state change nothing.
THEOREM ImplementsReadyQueue == Spec => RefinesReadyQueue
<1>1. Init => Abstract!Init
  <2> SUFFICES ASSUME Init PROVE Abstract!Init
    OBVIOUS
  <2>1. Queues = [p \in 0 .. NumQueues - 1 |-> <<>>]
    BY Zenon, Addresses DEF Init, Queues
  <2> QED
    BY Zenon, <2>1 DEF Init, Nothing, Abstract!Init, Abstract!Nothing, Abstract!Priority, Queues
<1>2. Inv /\ [Next]_vars => [Abstract!Next]_(Abstract!vars)
  <2> SUFFICES ASSUME Inv, [Next]_vars PROVE Abstract!Next \/ UNCHANGED <<Queues, result>>
    BY Zenon DEF Abstract!vars, Queues
  <2> USE DEF Next
  <2>0. data \in [Queue -> Seq(Thread)]
    BY Zenon DEF Inv, TypeOK
  <2>12. \A list, t : Abstract!Without(list, t) = Without(list, t)
    BY Zenon DEF Without, Abstract!Without
  <2>1. ASSUME UNCHANGED <<data, result>> PROVE UNCHANGED <<Queues, result>>
    BY Zenon, <2>1 DEF Queues
  <2>2. CASE SaveLoad \/ get_first \/ pop_first \/ Walk \/ UNCHANGED vars
    BY Zenon, <2>1, <2>2 DEF SaveLoad, get_first, pop_first, Start, Walk, vars, queueVars
  <2>3. CASE Found \/ NotFound
    BY Zenon, <2>3, FoundRefines, NotFoundRefines
  <2>4. CASE clear
    <3>1. Queues' = [p \in 0 .. NumQueues - 1 |-> <<>>] /\ result' = result
      BY Zenon, <2>4, Addresses DEF clear, Queues
    <3>2. Abstract!clear
      BY Zenon, <3>1 DEF Abstract!clear, Abstract!Priority, Queues
    <3> QED
      BY Zenon, <3>2 DEF Abstract!Next
  <2>5. ASSUME NEW q \in Queue, pop_first_better(q) \/ prepare(q) PROVE UNCHANGED <<Queues, result>>
    BY Zenon, <2>1, <2>5 DEF pop_first_better, Start, prepare, queueVars
  <2>6. ASSUME NEW q \in Queue, NEW v, data' = [data EXCEPT ![q] = v]
        PROVE  \E p \in Abstract!Priority :
                  p = q - Base /\ Queues[p] = data[q] /\ Queues' = [Queues EXCEPT ![p] = v]
    BY Zenon, <2>0, <2>6, OneQueue DEF Abstract!Priority
  <2>7. ASSUME NEW q \in Queue, rotate(q) PROVE Abstract!Next
    <3>1. Len(data[q]) > 1 /\ result' = result
          /\ data' = [data EXCEPT ![q] = Append(Tail(data[q]), Head(data[q]))]
      BY Zenon, <2>7 DEF rotate
    <3>2. PICK p \in Abstract!Priority :
             /\ Queues[p] = data[q]
             /\ Queues' = [Queues EXCEPT ![p] = Append(Tail(data[q]), Head(data[q]))]
      BY Zenon, <2>6, <3>1
    <3>3. Abstract!rotate(p)
      BY Zenon, <3>1, <3>2 DEF Abstract!rotate, Queues
    <3> QED
      BY Zenon, <3>3 DEF Abstract!Next
  <2>8. ASSUME NEW q \in Queue, NEW t \in Thread, push_front(q, t) PROVE Abstract!Next
    <3>1. result' = result /\ data' = [data EXCEPT ![q] = <<t>> \o data[q]]
      BY Zenon, <2>8 DEF push_front, Pushed
    <3>2. PICK p \in Abstract!Priority :
             Queues[p] = data[q] /\ Queues' = [Queues EXCEPT ![p] = <<t>> \o data[q]]
      BY Zenon, <2>6, <3>1
    <3>3. Abstract!push_front(p, t)
      BY Zenon, <3>1, <3>2 DEF Abstract!push_front, Queues
    <3> QED
      BY Zenon, <3>3 DEF Abstract!Next
  <2>9. ASSUME NEW q \in Queue, NEW t \in Thread, push_back(q, t) PROVE Abstract!Next
    <3>1. result' = result /\ data' = [data EXCEPT ![q] = Append(data[q], t)]
      BY Zenon, <2>9 DEF push_back, Pushed
    <3>2. PICK p \in Abstract!Priority :
             Queues[p] = data[q] /\ Queues' = [Queues EXCEPT ![p] = Append(data[q], t)]
      BY Zenon, <2>6, <3>1
    <3>3. Abstract!push_back(p, t)
      BY Zenon, <3>1, <3>2 DEF Abstract!push_back, Queues
    <3> QED
      BY Zenon, <3>3 DEF Abstract!Next
  <2>10. ASSUME NEW q \in Queue, NEW t \in Thread, remove(q, t) PROVE Abstract!Next
    <3>1. result' = result /\ data' = [data EXCEPT ![q] = Without(data[q], t)]
      BY Zenon, <2>10 DEF remove
    <3>2. PICK p \in Abstract!Priority :
             Queues[p] = data[q] /\ Queues' = [Queues EXCEPT ![p] = Without(data[q], t)]
      BY Zenon, <2>6, <3>1
    <3>3. Abstract!remove(p, t)
      BY Zenon, <2>12, <3>1, <3>2 DEF Abstract!remove, Queues
    <3> QED
      BY Zenon, <3>3 DEF Abstract!Next
  <2>11. ASSUME NEW t \in Thread, NEW old \in Queue, NEW new \in Queue, move(t, old, new)
         PROVE  Abstract!Next
    <3> DEFINE removed == [data EXCEPT ![old] = Without(data[old], t)]
    <3>1. result' = result /\ data' = [removed EXCEPT ![new] = Append(removed[new], t)]
      BY Zenon, <2>11 DEF move
    <3>2. PICK o \in Abstract!Priority : o = old - Base
      BY Zenon, Addresses DEF Abstract!Priority
    <3>3. PICK n \in Abstract!Priority : n = new - Base
      BY Zenon, Addresses DEF Abstract!Priority
    <3>4. \A p \in 0 .. NumQueues - 1 :
             Base + p \in Queue /\ (Base + p = old <=> p = o) /\ (Base + p = new <=> p = n)
      BY <3>2, <3>3, Addresses, QueueAssumption DEF Queue
    <3>5. \A p \in 0 .. NumQueues - 1 :
             removed[Base + p] = IF p = o THEN Without(data[old], t) ELSE data[Base + p]
      BY Zenon, <2>0, <3>4
    <3>6. removed \in [Queue -> Seq(Thread)]
      BY Zenon, <2>0, WithoutType
    <3> HIDE DEF removed
    <3>7. \A p \in 0 .. NumQueues - 1 :
             data'[Base + p] = IF p = n THEN Append(removed[new], t) ELSE removed[Base + p]
      BY Zenon, <3>1, <3>4, <3>6
    <3>8. o \in 0 .. NumQueues - 1 /\ n \in 0 .. NumQueues - 1 /\ Base + o = old /\ Base + n = new
      BY Zenon, <3>2, <3>3, Addresses DEF Abstract!Priority
    <3> DEFINE after == [Queues EXCEPT ![o] = Without(Queues[o], t)]
    <3>9. after = [p \in 0 .. NumQueues - 1 |-> removed[Base + p]]
      BY Zenon, <3>5, <3>8 DEF Queues
    <3>10. Queues' = [after EXCEPT ![n] = Append(after[n], t)]
      BY Zenon, <3>7, <3>8, <3>9 DEF Queues
    <3>11. Abstract!move(t, o, n)
      BY Zenon, <2>12, <3>1, <3>10 DEF Abstract!move, Queues
    <3> QED
      BY Zenon, <3>11 DEF Abstract!Next
  <2> QED
    BY Zenon, <2>2, <2>3, <2>4, <2>5, <2>7, <2>8, <2>9, <2>10, <2>11 DEF WalkStep
<1> QED
  BY <1>1, <1>2, InductiveInvariant, PTL DEF Spec, RefinesReadyQueue, Abstract!Spec

=============================================================================
