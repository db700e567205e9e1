-------------------------- MODULE LogBackend_proofs --------------------------
(***************************************************************************)
(* The queue of the logging backend is a bounded queue, and the log is      *)
(* faithful, for any number of threads, any capacity and any width of the   *)
(* indices that the capacity divides.                                       *)
(***************************************************************************)
EXTENDS LogBackend, TLAPS

-----------------------------------------------------------------------------
(* Remainders *)

\* Division with remainder has one result.
LEMMA DivisionUnique ==
  ASSUME NEW b \in Nat \ {0}, NEW q \in Int, NEW p \in Int,
         NEW r \in 0 .. b - 1, NEW s \in 0 .. b - 1,
         (b * q) + r = (b * p) + s
  PROVE  r = s
<1>1. b * (q - p) = s - r
  BY SMT
<1>2. CASE q - p >= 1
  <2>1. b * (q - p) >= b * 1
    BY <1>2, SMT
  <2> QED BY <2>1, <1>1, SMT
<1>3. CASE q - p <= -1
  <2>1. b * (q - p) <= b * (-1)
    BY <1>3, SMT
  <2> QED BY <2>1, <1>1, SMT
<1>4. CASE q = p
  BY <1>4, <1>1, SMT
<1> QED BY <1>2, <1>3, <1>4, SMT

\* A number is a multiple of the divisor and a remainder.
LEMMA Division ==
  ASSUME NEW a \in Int, NEW b \in Nat \ {0}
  PROVE  a % b \in 0 .. b - 1 /\ \E q \in Int : a = (b * q) + (a % b)
<1>1. a \div b \in Int
  BY SMT
<1>2. a % b \in 0 .. b - 1
  BY SMT
<1>3. a = (b * (a \div b)) + (a % b)
  BY SMT
<1> QED BY Zenon, <1>1, <1>2, <1>3

\* A multiple of the divisor does not change the remainder.
LEMMA RemainderOfSum ==
  ASSUME NEW a \in Int, NEW b \in Nat \ {0}, NEW k \in Int
  PROVE  (a + (k * b)) % b = a % b
<1>1. PICK r \in 0 .. b - 1 : r = a % b
  BY Division, Zenon
<1>2. PICK q \in Int : a = (b * q) + r
  BY Zenon, <1>1, Division
<1>3. PICK c \in Int : c = a + (k * b)
  BY SMT
<1>4. PICK s \in 0 .. b - 1 : s = c % b
  BY Division, Zenon
<1>5. PICK p \in Int : c = (b * p) + s
  BY Zenon, <1>4, Division
<1>6. PICK o \in Int : o = q + k
  BY SMT
<1>7. (b * p) + s = (b * o) + r
  BY <1>2, <1>3, <1>5, <1>6, SMT
<1>8. s = r
  BY <1>7, DivisionUnique, Zenon
<1> QED BY <1>1, <1>3, <1>4, <1>8, Zenon

\* Numbers that are less than the divisor apart have different remainders.
LEMMA RemaindersDiffer ==
  ASSUME NEW x \in Int, NEW y \in Int, NEW b \in Nat \ {0}, x < y, y < x + b
  PROVE  x % b # y % b
<1> SUFFICES ASSUME x % b = y % b PROVE FALSE
  OBVIOUS
<1>1. PICK q \in Int : x = (b * q) + (x % b)
  BY Zenon, Division
<1>2. PICK p \in Int : y = (b * p) + (y % b)
  BY Zenon, Division
<1>3. y - x \in 0 .. b - 1 /\ 0 \in 0 .. b - 1
  BY SMT
<1>4. (b * q) + (y - x) = (b * p) + 0
  BY <1>1, <1>2, SMT
<1>5. y - x = 0
  BY DivisionUnique, <1>3, <1>4, SMT
<1> QED BY <1>5, SMT

-----------------------------------------------------------------------------
(* The ring *)

\* A remainder of a number that is less than twice the divisor, or negative.
LEMMA Wrapped ==
  ASSUME NEW a \in Int, NEW b \in Nat \ {0}, -b <= a, a < 2 * b
  PROVE  a % b = IF a < 0 THEN a + b ELSE IF a < b THEN a ELSE a - b
<1>1. CASE a < 0
  BY <1>1, SMT
<1>2. CASE 0 <= a /\ a < b
  BY <1>2, SMT
<1>3. CASE b <= a
  BY <1>3, SMT
<1> QED BY <1>1, <1>2, <1>3, SMT

\* What the operations on the indices compute.
LEMMA Indices ==
  /\ IndexRange \in Nat \ {0} /\ Capacity \in Nat \ {0} /\ Capacity < IndexRange
  /\ \A i \in Index, d \in 0 .. IndexRange :
        /\ (i + d) % IndexRange \in Index
        /\ (i + d) % IndexRange = IF i + d < IndexRange THEN i + d ELSE i + d - IndexRange
  /\ \A i, j \in Index :
        /\ Distance(i, j) \in 0 .. IndexRange - 1
        /\ Distance(i, j) = IF i <= j THEN j - i ELSE j - i + IndexRange
<1>1. IndexRange \in Nat \ {0} /\ Capacity \in Nat \ {0} /\ Capacity < IndexRange
  BY QueueAssumption, SMT
<1>2. ASSUME NEW i \in Index, NEW d \in 0 .. IndexRange
      PROVE  /\ (i + d) % IndexRange \in Index
             /\ (i + d) % IndexRange = IF i + d < IndexRange THEN i + d ELSE i + d - IndexRange
  <2>1. i + d \in Int /\ -IndexRange <= i + d /\ i + d < 2 * IndexRange /\ ~(i + d < 0)
    BY <1>1, SMT DEF Index
  <2>2. PICK a \in Int : a = i + d
    BY <2>1
  <2>3. a % IndexRange = IF a < IndexRange THEN a ELSE a - IndexRange
    <3>1. -IndexRange <= a /\ a < 2 * IndexRange /\ ~(a < 0)
      BY <1>1, <2>1, <2>2, SMT
    <3> QED BY <1>1, <3>1, Wrapped, Zenon
  <2>4. (i + d) % IndexRange = IF i + d < IndexRange THEN i + d ELSE i + d - IndexRange
    BY <1>1, <2>2, <2>3, SMT DEF Index
  <2> QED BY <1>1, <2>1, <2>4, SMT DEF Index
<1>3. ASSUME NEW i \in Index, NEW j \in Index
      PROVE  /\ Distance(i, j) \in 0 .. IndexRange - 1
             /\ Distance(i, j) = IF i <= j THEN j - i ELSE j - i + IndexRange
  <2>1. j - i \in Int /\ -IndexRange <= j - i /\ j - i < 2 * IndexRange
        /\ j - i < IndexRange /\ (i <= j <=> ~(j - i < 0))
    BY <1>1, SMT DEF Index
  <2>2. Distance(i, j) = IF i <= j THEN j - i ELSE j - i + IndexRange
    BY <1>1, <2>1, Wrapped, Zenon DEF Distance
  <2> QED BY <1>1, <2>1, <2>2, SMT DEF Index
<1> QED BY <1>1, <1>2, <1>3, Zenon

\* The slot of an index is the remainder of the unwrapped index too: the capacity
\* divides the range of the indices.
LEMMA SlotUnwrapped ==
  ASSUME NEW i \in Index, NEW d \in 0 .. IndexRange
  PROVE  SlotOf((i + d) % IndexRange) = (i + d) % Capacity
<1>1. /\ IndexRange \in Int /\ Capacity \in Nat \ {0} /\ Capacity \in Int
      /\ IndexRange % Capacity = 0
  BY QueueAssumption, SMT
<1>2. PICK k \in Int : IndexRange = (Capacity * k) + (IndexRange % Capacity)
  BY <1>1, Division, Zenon
<1>3. IndexRange = Capacity * k
  BY <1>1, <1>2, SMT
<1>4. i + d \in Int /\ i + d - IndexRange \in Int
  BY <1>1, SMT DEF Index
<1>5. CASE i + d < IndexRange
  <2>1. (i + d) % IndexRange = i + d
    BY <1>5, Indices, Zenon
  <2> QED BY <2>1 DEF SlotOf
<1>6. CASE ~(i + d < IndexRange)
  <2>1. (i + d) % IndexRange = i + d - IndexRange
    BY <1>6, Indices, Zenon
  <2>2. PICK x \in Int : x = i + d - IndexRange
    BY <1>4, Zenon
  <2>3. x + (k * Capacity) = i + d
    <3>1. PICK y \in Int : y = i + d
      BY <1>4, Zenon
    <3>2. x = y - IndexRange
      BY <1>1, <2>2, <3>1, SMT DEF Index
    <3>3. x + (k * Capacity) = y
      BY <1>1, <1>3, <3>2, SMT
    <3> QED BY <3>1, <3>3
  <2>4. (x + (k * Capacity)) % Capacity = x % Capacity
    BY <1>1, RemainderOfSum, Zenon
  <2> QED BY <2>1, <2>2, <2>3, <2>4, Zenon DEF SlotOf
<1> QED BY <1>5, <1>6, Zenon

\* The slots from an index on: the first Capacity of them are different, and they
\* are numbered from the next index on by one less.
LEMMA Places ==
  ASSUME NEW i \in Index
  PROVE  /\ Incremented(i) \in Index
         /\ \A d \in 0 .. Capacity : Place(i, d) \in Slot
         /\ Place(i, 0) = SlotOf(i)
         /\ \A j \in Index : Place(i, Distance(i, j)) = SlotOf(j)
         /\ \A d, f \in 0 .. Capacity - 1 : d # f => Place(i, d) # Place(i, f)
         /\ \A d \in 0 .. Capacity - 1 : Place(Incremented(i), d) = Place(i, d + 1)
<1>1. i \in Int /\ Capacity \in Nat \ {0} /\ IndexRange \in Int /\ Capacity < IndexRange
      /\ 1 \in 0 .. IndexRange /\ 0 \in 0 .. IndexRange
  BY Indices, SMT DEF Index
<1>2. Incremented(i) \in Index
  BY <1>1, Indices, Zenon DEF Incremented
<1>3. \A d \in 0 .. IndexRange : Place(i, d) = (i + d) % Capacity
  BY SlotUnwrapped, Zenon DEF Place
<1>4. \A d \in 0 .. Capacity : d \in 0 .. IndexRange /\ i + d \in Int
  BY <1>1, SMT
<1>5. ASSUME NEW d \in 0 .. Capacity PROVE Place(i, d) \in Slot
  <2>1. (i + d) % Capacity \in 0 .. Capacity - 1
    BY <1>1, <1>4, Division, Zenon
  <2> QED BY <1>3, <1>4, <2>1, Zenon DEF Slot
<1>6. Place(i, 0) = SlotOf(i)
  <2>1. i + 0 = i
    BY <1>1, SMT
  <2> QED BY <1>1, <1>3, <2>1, Zenon DEF SlotOf
<1>7. ASSUME NEW j \in Index PROVE Place(i, Distance(i, j)) = SlotOf(j)
  <2>1. PICK n \in 0 .. IndexRange - 1 : /\ n = Distance(i, j)
                                        /\ n = IF i <= j THEN j - i ELSE j - i + IndexRange
    BY Indices, Zenon
  <2>2. n \in 0 .. IndexRange
    BY <1>1, SMT
  <2>3. PICK k \in Index : /\ k = (i + n) % IndexRange
                          /\ k = IF i + n < IndexRange THEN i + n ELSE i + n - IndexRange
    BY <2>2, Indices, Zenon
  <2>4. k = j
    BY <1>1, <2>1, <2>3, SMT DEF Index
  <2> QED BY <2>1, <2>3, <2>4, Zenon DEF Place
<1>8. ASSUME NEW d \in 0 .. Capacity - 1, NEW f \in 0 .. Capacity - 1, d < f
      PROVE  Place(i, d) # Place(i, f)
  <2>1. /\ d \in 0 .. Capacity /\ f \in 0 .. Capacity
        /\ i + d < i + f /\ i + f < i + d + Capacity
    BY <1>1, <1>8, SMT
  <2> QED BY <1>1, <1>3, <1>4, <2>1, RemaindersDiffer, Zenon
<1>9. ASSUME NEW d \in 0 .. Capacity - 1, NEW f \in 0 .. Capacity - 1, d # f
      PROVE  Place(i, d) # Place(i, f)
  <2>1. d < f \/ f < d
    BY <1>1, <1>9, SMT
  <2> QED BY <1>8, <2>1, Zenon
<1>10. ASSUME NEW d \in 0 .. Capacity - 1 PROVE Place(Incremented(i), d) = Place(i, d + 1)
  <2>1. d \in 0 .. IndexRange /\ d + 1 \in 0 .. IndexRange
    BY <1>1, SMT
  <2>2. PICK k \in Index : /\ k = Incremented(i)
                          /\ k = IF i + 1 < IndexRange THEN i + 1 ELSE i + 1 - IndexRange
    BY <1>1, <1>2, Indices, Zenon DEF Incremented
  <2>3. PICK a \in Index : /\ a = (k + d) % IndexRange
                          /\ a = IF k + d < IndexRange THEN k + d ELSE k + d - IndexRange
    BY <2>1, Indices, Zenon
  <2>4. PICK b \in Index :
          /\ b = (i + (d + 1)) % IndexRange
          /\ b = IF i + (d + 1) < IndexRange THEN i + (d + 1) ELSE i + (d + 1) - IndexRange
    BY <2>1, Indices, Zenon
  <2>5. a = b
    BY <1>1, <2>2, <2>3, <2>4, SMT DEF Index
  <2> QED BY <2>2, <2>3, <2>4, <2>5, Zenon DEF Place
<1> QED BY <1>2, <1>5, <1>6, <1>7, <1>9, <1>10, Zenon

\* What a push and a pop do to the number of entries.
LEMMA Distances ==
  ASSUME NEW i \in Index, NEW j \in Index
  PROVE  /\ Distance(i, j) < Capacity => Distance(i, Incremented(j)) = Distance(i, j) + 1
         /\ Distance(i, j) > 0 => Distance(Incremented(i), j) = Distance(i, j) - 1
         /\ Distance(i, j) = 0 <=> i = j
<1>1. 1 \in 0 .. IndexRange /\ Capacity \in Nat \ {0} /\ IndexRange \in Nat /\ Capacity < IndexRange
  BY Indices, SMT
<1>2. /\ Incremented(i) \in Index /\ Incremented(j) \in Index
      /\ Incremented(i) = IF i + 1 < IndexRange THEN i + 1 ELSE i + 1 - IndexRange
      /\ Incremented(j) = IF j + 1 < IndexRange THEN j + 1 ELSE j + 1 - IndexRange
  BY <1>1, Indices, Zenon DEF Incremented
<1>3. \A a, b \in Index : Distance(a, b) = IF a <= b THEN b - a ELSE b - a + IndexRange
  BY Indices
<1>4. /\ Distance(i, j) = IF i <= j THEN j - i ELSE j - i + IndexRange
      /\ Distance(i, Incremented(j)) =
            IF i <= Incremented(j) THEN Incremented(j) - i ELSE Incremented(j) - i + IndexRange
      /\ Distance(Incremented(i), j) =
            IF Incremented(i) <= j THEN j - Incremented(i) ELSE j - Incremented(i) + IndexRange
  BY <1>2, <1>3
<1> QED BY <1>1, <1>2, <1>4, SMT DEF Index

-----------------------------------------------------------------------------
(* The inductive invariant *)

LastWritten == IF written = <<>> THEN 0 ELSE written[Len(written)]
MovedOut == IF consumer = "advance" THEN 1 ELSE 0

\* At most one producer is in EmplaceWait(). What it has read of m_write_index is
\* up to date, and the room it has seen is still there.
ProducersSound ==
    /\ \A p, q \in Producer : producer[p] # "idle" /\ producer[q] # "idle" => p = q
    /\ \A p \in Producer :
          /\ producer[p] \in {"check", "block", "waiting", "emplace", "publish"} =>
                write_index = m_write_index /\ pushed < MaxEntries
          /\ producer[p] \in {"emplace", "publish"} => Size < Capacity
          /\ producer[p] = "publish" => m_data[SlotOf(m_write_index)] = pushed + 1

\* The same for the consumer, and which thread it is.
ConsumerSound ==
    /\ consumer \in {"check", "block", "waiting", "move", "advance"} => read_index = m_read_index
    /\ consumer \in {"move", "advance"} => Size > 0
    /\ consumer \in {"check", "block", "waiting"} => backend = "running"
    /\ consumer # "idle" => backend \in {"running", "draining"}

\* The entries of the queue are the last Size of those that were pushed.
Numbered ==
    /\ Size <= Capacity
    /\ entry = pushed - Size + MovedOut
    /\ \A d \in MovedOut .. Size - 1 : m_data[Place(m_read_index, d)] = pushed - Size + d + 1

\* The log ends with the entry that was popped last, or the one before it.
WrittenSound ==
    /\ consumer \in {"advance", "notify"} => LastWritten = entry - 1
    /\ consumer \in {"idle", "check", "block", "waiting", "move"} => LastWritten = entry
    /\ consumer = "returned" =>
          \/ LastWritten = entry - 1
          \/ LastWritten = entry /\ stop_requested /\ backend = "running"
    /\ \/ Len(written) = LastWritten
       \/ /\ Len(written) = LastWritten + 1 /\ stop_requested
          /\ backend = "running" => consumer = "idle"
    /\ written # <<>> => written[1] = 1
    /\ \A i \in 1 .. Len(written) - 1 : written[i + 1] - written[i] \in {0, 1}

\* After a stop.
StopSound ==
    /\ stop = "no" <=> ~stop_requested
    /\ backend \in {"draining", "ended"} => stop_requested
    /\ backend = "draining" => max_logs_to_write >= 0
    /\ before_stop <= pushed
    /\ backend = "ended" /\ max_logs_to_write >= 0 => LastWritten >= before_stop

Inv == TypeOK /\ ProducersSound /\ ConsumerSound /\ Numbered /\ WrittenSound /\ StopSound

\* The types of what the invariant computes.
LEMMA Typed ==
  ASSUME TypeOK
  PROVE  /\ Size \in 0 .. IndexRange - 1 /\ m_read_index \in Index /\ m_write_index \in Index
         /\ Capacity \in Nat \ {0} /\ IndexRange \in Nat \ {0} /\ Capacity < IndexRange
         /\ Entry = 1 .. MaxEntries /\ NoEntry = 0 /\ MaxEntries \in Nat /\ MaxLogs \in Nat
         /\ entry \in 0 .. MaxEntries /\ pushed \in Nat /\ written \in Seq(Nat)
         /\ LastWritten \in Nat
<1>1. m_read_index \in Index /\ m_write_index \in Index
  BY DEF TypeOK, QueueTypeOK
<1>2. /\ Size \in 0 .. IndexRange - 1
      /\ Capacity \in Nat \ {0} /\ IndexRange \in Nat \ {0} /\ Capacity < IndexRange
  BY <1>1, Indices, Zenon DEF Size
<1>3. Entry = 1 .. MaxEntries /\ NoEntry = 0 /\ MaxEntries \in Nat /\ MaxLogs \in Nat
  BY LogAssumption
<1>4. /\ entry \in 0 .. MaxEntries /\ pushed \in Nat /\ written \in Seq(Nat)
  BY <1>3, SMT DEF TypeOK, QueueTypeOK
<1>5. LastWritten \in Nat
  BY <1>4, SMT DEF LastWritten
<1> QED BY <1>1, <1>2, <1>3, <1>4, <1>5

\* The invariant holds at the start.
LEMMA InitInv ==
  ASSUME Init
  PROVE  Inv
<1>1. 0 \in Index /\ Size = 0 /\ Capacity \in Nat \ {0}
  <2>1. 0 \in Index /\ Capacity \in Nat \ {0}
    BY Indices, SMT DEF Index
  <2> QED BY <2>1, Distances, Zenon DEF Init, QueueInit, Size
<1>2. NoEntry = 0 /\ MaxEntries \in Nat /\ MaxLogs \in Nat
  BY LogAssumption
<1>3. TypeOK
  <2>1. QueueTypeOK
    BY <1>1, Zenon DEF Init, QueueInit, QueueTypeOK
  <2>2. /\ 0 \in -1 .. MaxLogs /\ 0 \in 0 .. MaxEntries
    BY <1>2, SMT
  <2>3. <<>> \in Seq(Entry)
    BY SMT
  <2> QED BY <2>1, <2>2, <2>3, Zenon DEF Init, TypeOK
<1>4. ProducersSound /\ ConsumerSound
  BY Zenon DEF Init, QueueInit, ProducersSound, ConsumerSound
<1>5. Numbered
  BY <1>1, <1>2, SMT DEF Init, QueueInit, Numbered, MovedOut
<1>6. WrittenSound /\ StopSound
  BY <1>2, SMT DEF Init, QueueInit, WrittenSound, StopSound, LastWritten
<1> QED BY <1>3, <1>4, <1>5, <1>6 DEF Inv

-----------------------------------------------------------------------------
(* The producers *)

\* A producer takes write_mutex, looks for room or waits.
LEMMA ProducerWaitsStep ==
  ASSUME Inv, NEW p \in Producer, UNCHANGED <<logVars, history>>,
         \/ pushed < MaxEntries /\ LockWrite(p)
         \/ CheckRoom(p) \/ ProducerBlocks(p)
  PROVE  Inv'
<1>1. /\ UNCHANGED <<queueVars, consumer, read_index, entry, stop_requested>>
      /\ producer' \in [Producer ->
            {"idle", "check", "block", "waiting", "emplace", "publish", "notify"}]
      /\ write_index' \in Index
      /\ \A q \in Producer : q # p => producer'[q] = producer[q]
  BY Zenon DEF Inv, TypeOK, QueueTypeOK, LockWrite, CheckRoom, ProducerBlocks, ProducerAt, queueVars, localVars
<1>2. TypeOK'
  BY <1>1, Zenon DEF Inv, TypeOK, QueueTypeOK, queueVars, logVars, history
<1>3. ProducersSound'
  <2>1. \A q \in Producer : q # p => producer[q] = "idle"
    BY SMT DEF Inv, ProducersSound, LockWrite, CheckRoom, ProducerBlocks, ProducerAt
  <2>2. /\ write_index' = m_write_index /\ pushed < MaxEntries
        /\ producer'[p] \in {"check", "block", "waiting", "emplace"}
        /\ producer'[p] = "emplace" => HasRoom(m_write_index)
    BY SMT DEF Inv, TypeOK, QueueTypeOK, ProducersSound, LockWrite, CheckRoom, ProducerBlocks, ProducerAt, localVars
  <2> QED BY <1>1, <2>1, <2>2, SMT DEF ProducersSound, HasRoom, Size, queueVars, history
<1>4. ConsumerSound' /\ Numbered' /\ WrittenSound' /\ StopSound'
  BY <1>1, Zenon DEF Inv, ConsumerSound, Numbered, WrittenSound, StopSound, Size, MovedOut, LastWritten,
       queueVars, logVars, history
<1> QED BY <1>2, <1>3, <1>4 DEF Inv

\* A producer fills a slot: it is none of those that hold an entry.
LEMMA EmplaceEntryStep ==
  ASSUME Inv, NEW p \in Producer, UNCHANGED <<logVars, history>>, EmplaceEntry(p, pushed + 1)
  PROVE  Inv'
<1> DEFINE s == SlotOf(m_write_index)
<1>1. /\ producer[p] = "emplace" /\ producer' = [producer EXCEPT ![p] = "publish"]
      /\ m_data' = [m_data EXCEPT ![s] = pushed + 1]
      /\ UNCHANGED <<m_read_index, m_write_index, consumer, write_index, read_index, entry, stop_requested>>
      /\ write_index = m_write_index /\ pushed < MaxEntries /\ Size < Capacity
  <2>1. producer[p] = "emplace"
    BY DEF EmplaceEntry, ProducerAt
  <2>2. write_index = m_write_index /\ pushed < MaxEntries /\ Size < Capacity
    BY <2>1, Zenon DEF Inv, ProducersSound
  <2> QED BY <2>1, <2>2, Zenon DEF EmplaceEntry, ProducerAt, localVars
<1>2. /\ Size \in 0 .. Capacity - 1 /\ Capacity \in Nat \ {0} /\ Size' = Size
      /\ m_read_index \in Index /\ m_write_index \in Index
  BY <1>1, Typed, SMT DEF Inv, Size
<1>3. /\ s \in Slot /\ s = Place(m_read_index, Size)
      /\ \A d \in 0 .. Size - 1 : Place(m_read_index, d) \in Slot /\ Place(m_read_index, d) # s
  <2>1. Place(m_read_index, Size) = s
    BY <1>2, Places, Zenon DEF Size
  <2>2. /\ Size \in 0 .. Capacity
        /\ \A d \in 0 .. Size - 1 : d \in 0 .. Capacity - 1 /\ d \in 0 .. Capacity /\ d # Size
    BY <1>2, SMT
  <2>3. \A d \in 0 .. Size - 1 : Place(m_read_index, d) # Place(m_read_index, Size)
    BY <1>2, <2>2, Places, Zenon
  <2>4. \A d \in 0 .. Capacity : Place(m_read_index, d) \in Slot
    BY <1>2, Places, Zenon
  <2> QED BY <2>1, <2>2, <2>3, <2>4, Zenon
<1> HIDE DEF s
<1>4. m_data \in [Slot -> Entry \cup {NoEntry}] /\ pushed + 1 \in Entry
  BY <1>1, Typed, SMTT(20) DEF Inv, TypeOK, QueueTypeOK
<1>5. TypeOK'
  <2>1. m_data' \in [Slot -> Entry \cup {NoEntry}]
    BY <1>1, <1>4, Zenon
  <2>2. producer' \in [Producer ->
            {"idle", "check", "block", "waiting", "emplace", "publish", "notify"}]
    BY <1>1, Zenon DEF Inv, TypeOK, QueueTypeOK
  <2> QED BY <1>1, <2>1, <2>2, Zenon DEF Inv, TypeOK, QueueTypeOK, logVars, history
<1>6. ProducersSound'
  <2>1. producer \in [Producer -> {"idle", "check", "block", "waiting", "emplace", "publish", "notify"}]
    BY DEF Inv, TypeOK, QueueTypeOK
  <2>2. m_data'[SlotOf(m_write_index)] = pushed + 1
    BY <1>1, <1>3, <1>4, Zenon DEF s
  <2>3. \A q \in Producer : q # p => producer[q] = "idle" /\ producer'[q] = "idle"
    BY <1>1, <2>1, Zenon DEF Inv, ProducersSound
  <2>4. producer'[p] = "publish"
    BY <1>1, <2>1, Zenon
  <2> QED BY <1>1, <1>2, <2>2, <2>3, <2>4, SMT DEF ProducersSound, history
<1>7. Numbered'
  <2>1. MovedOut' = MovedOut /\ MovedOut \in {0, 1}
    BY <1>1 DEF MovedOut
  <2>2. \A d \in 0 .. Size - 1 : m_data'[Place(m_read_index, d)] = m_data[Place(m_read_index, d)]
    BY <1>1, <1>3, <1>4, Zenon
  <2>3. \A d \in MovedOut .. Size - 1 : d \in 0 .. Size - 1
    BY <1>2, <2>1, SMT
  <2>4. \A d \in MovedOut .. Size - 1 : m_data'[Place(m_read_index, d)] = pushed - Size + d + 1
    BY <2>2, <2>3, Zenon DEF Inv, Numbered
  <2> QED BY <1>1, <1>2, <2>1, <2>4, Zenon DEF Inv, Numbered, history
<1>8. ConsumerSound' /\ WrittenSound' /\ StopSound'
  BY <1>1, <1>2, Zenon DEF Inv, ConsumerSound, WrittenSound, StopSound, LastWritten, logVars, history
<1> QED BY <1>5, <1>6, <1>7, <1>8 DEF Inv

\* A producer publishes the entry it has emplaced.
LEMMA PublishStep ==
  ASSUME Inv, NEW p \in Producer, Publish(p), pushed' = pushed + 1,
         UNCHANGED <<logVars, written, before_stop>>
  PROVE  Inv'
<1>1. /\ producer[p] = "publish" /\ producer' = [producer EXCEPT ![p] = "notify"]
      /\ m_write_index' = Incremented(m_write_index)
      /\ UNCHANGED <<m_read_index, m_data, consumer, write_index, read_index, entry, stop_requested>>
      /\ pushed < MaxEntries /\ Size < Capacity
      /\ m_data[SlotOf(m_write_index)] = pushed + 1
  BY SMT DEF Inv, TypeOK, QueueTypeOK, ProducersSound, Publish, ProducerAt, localVars
<1>2. /\ Size \in 0 .. Capacity - 1 /\ Capacity \in Nat \ {0}
      /\ m_read_index \in Index /\ m_write_index \in Index
      /\ pushed \in Nat /\ MaxEntries \in Nat /\ before_stop \in Nat
  BY <1>1, Typed, SMT DEF Inv, TypeOK
<1>3. /\ Size' = Size + 1 /\ m_write_index' \in Index
      /\ Place(m_read_index, Size) = SlotOf(m_write_index)
  BY <1>1, <1>2, Distances, Places, ZenonT(40) DEF Size
<1>4. producer \in [Producer -> {"idle", "check", "block", "waiting", "emplace", "publish", "notify"}]
  BY DEF Inv, TypeOK, QueueTypeOK
<1>5. TypeOK'
  <2>1. pushed' \in 0 .. MaxEntries
    BY <1>1, <1>2, SMT
  <2>2. producer' \in [Producer ->
            {"idle", "check", "block", "waiting", "emplace", "publish", "notify"}]
    BY <1>1, <1>4, Zenon
  <2> QED BY <1>1, <1>3, <2>1, <2>2, Zenon DEF Inv, TypeOK, QueueTypeOK, logVars
<1>6. ProducersSound'
  <2>1. \A q \in Producer : q # p => producer[q] = "idle" /\ producer'[q] = "idle"
    BY <1>1, <1>4, Zenon DEF Inv, ProducersSound
  <2>2. producer'[p] = "notify"
    BY <1>1, <1>4, Zenon
  <2> QED BY <2>1, <2>2, SMT DEF ProducersSound
<1>7. Numbered'
  <2>1. MovedOut' = MovedOut /\ MovedOut \in {0, 1}
    BY <1>1 DEF MovedOut
  <2>2. ASSUME NEW d \in MovedOut .. Size' - 1
        PROVE  m_data[Place(m_read_index, d)] = pushed' - Size' + d + 1
    <3>1. CASE d = Size
      BY <1>1, <1>2, <1>3, <3>1, SMT
    <3>2. CASE d # Size
      <4>1. d \in MovedOut .. Size - 1
        BY <1>2, <1>3, <2>1, <3>2, SMT
      <4>2. m_data[Place(m_read_index, d)] = pushed - Size + d + 1
        BY <4>1, Zenon DEF Inv, Numbered
      <4> QED BY <1>2, <1>3, <2>1, <4>2, SMT
    <3> QED BY <3>1, <3>2
  <2>3. entry = pushed - Size + MovedOut
    BY DEF Inv, Numbered
  <2>4. Size' <= Capacity /\ entry' = pushed' - Size' + MovedOut'
    BY <1>1, <1>2, <1>3, <2>1, <2>3, SMT
  <2> QED BY <1>1, <2>1, <2>2, <2>4, Zenon DEF Numbered
<1>8. ConsumerSound'
  BY <1>1, <1>2, <1>3, SMT DEF Inv, ConsumerSound, logVars
<1>9. WrittenSound'
  BY <1>1, Zenon DEF Inv, WrittenSound, LastWritten, logVars
<1>10. StopSound'
  BY <1>1, <1>2, SMT DEF Inv, StopSound, LastWritten, logVars
<1> QED BY <1>5, <1>6, <1>7, <1>8, <1>9, <1>10 DEF Inv

\* A producer notifies the consumer and leaves; or another thread requests a
\* stop, or a wait wakes up for no reason.
LEMMA WakeupStep ==
  ASSUME Inv, UNCHANGED <<queueVars, localVars, backend, max_logs_to_write, pushed, written>>,
         consumer' = consumer \/ (consumer = "waiting" /\ consumer' = "check"),
         \/ UNCHANGED producer
         \/ \E p \in Producer :
               \/ producer[p] = "notify" /\ producer' = [producer EXCEPT ![p] = "idle"]
               \/ producer[p] = "waiting" /\ producer' = [producer EXCEPT ![p] = "check"],
         \/ UNCHANGED <<stop, stop_requested, before_stop>>
         \/ stop = "no" /\ stop' = "joining" /\ stop_requested' = TRUE /\ before_stop' = pushed
  PROVE  Inv'
<1>1. /\ Size' = Size /\ MovedOut' = MovedOut /\ LastWritten' = LastWritten
      /\ UNCHANGED <<m_read_index, m_write_index, m_data, write_index, read_index, entry>>
  BY DEF queueVars, localVars, Size, MovedOut, LastWritten
<1>2. producer \in [Producer -> {"idle", "check", "block", "waiting", "emplace", "publish", "notify"}]
  BY DEF Inv, TypeOK, QueueTypeOK
<1>3. TypeOK'
  <2>1. producer' \in [Producer ->
            {"idle", "check", "block", "waiting", "emplace", "publish", "notify"}]
    BY <1>2, Zenon
  <2>2. /\ consumer' \in {"idle", "check", "block", "waiting", "move", "advance", "notify", "returned"}
        /\ stop' \in {"no", "joining", "stopped"} /\ stop_requested' \in BOOLEAN
        /\ before_stop' \in 0 .. MaxEntries
    BY Zenon DEF Inv, TypeOK, QueueTypeOK
  <2> QED BY <1>1, <2>1, <2>2, Zenon DEF Inv, TypeOK, QueueTypeOK
<1>4. ProducersSound'
  <2>1. \A p \in Producer :
           \/ producer'[p] = producer[p]
           \/ producer'[p] = "idle"
           \/ producer[p] = "waiting" /\ producer'[p] = "check"
    BY <1>2, Zenon
  <2> QED BY <1>1, <2>1, SMT DEF Inv, ProducersSound
<1>5. ConsumerSound' /\ Numbered'
  BY <1>1, Zenon DEF Inv, ConsumerSound, Numbered
<1>6. WrittenSound'
  BY <1>1, SMT DEF Inv, WrittenSound
<1>7. StopSound'
  <2>1. pushed \in Nat
    BY Typed DEF Inv
  <2> QED BY <1>1, <2>1, SMT DEF Inv, StopSound
<1> QED BY <1>3, <1>4, <1>5, <1>6, <1>7 DEF Inv

-----------------------------------------------------------------------------
(* The backend thread *)

\* It starts to wait for an entry, or looks for one.
LEMMA PopEntryStep ==
  ASSUME Inv, PopEntry
  PROVE  Inv'
<1>1. /\ UNCHANGED <<m_read_index, m_write_index, m_data, producer, write_index, entry, stop_requested,
                     logVars, history>>
      /\ backend = "running"
      /\ \/ /\ consumer = "idle" /\ consumer' = "check" /\ ~stop_requested
            /\ read_index' = m_read_index
         \/ /\ consumer = "check" /\ consumer' = "returned" /\ stop_requested
            /\ UNCHANGED read_index
         \/ /\ consumer = "check" /\ consumer' = "move" /\ read_index # m_write_index
            /\ UNCHANGED read_index
         \/ /\ consumer = "check" /\ consumer' = "block" /\ UNCHANGED read_index
         \/ /\ consumer = "block" /\ consumer' \in {"check", "waiting"} /\ UNCHANGED read_index
  BY SMT DEF Inv, TypeOK, QueueTypeOK, PopEntry, PopWait, CheckEntry, ConsumerBlocks, ConsumerAt, queueVars, localVars
<1>2. Size' = Size /\ MovedOut' = MovedOut /\ LastWritten' = LastWritten
  BY <1>1, Zenon DEF Size, MovedOut, LastWritten, history
<1>3. TypeOK'
  BY <1>1, SMT DEF Inv, TypeOK, QueueTypeOK, logVars, history
<1>4. ProducersSound'
  BY <1>1, <1>2, Zenon DEF Inv, ProducersSound, history
<1>5. ConsumerSound'
  <2>1. m_read_index # m_write_index => Size > 0
    <3>1. m_read_index # m_write_index => Size # 0
      BY Typed, Distances, Zenon DEF Inv, Size
    <3> QED BY <3>1, Typed, SMT DEF Inv
  <2> QED BY <1>1, <1>2, <2>1, SMT DEF Inv, ConsumerSound, logVars
<1>6. Numbered'
  BY <1>1, <1>2, Zenon DEF Inv, Numbered, history
<1>7. WrittenSound'
  BY <1>1, <1>2, SMT DEF Inv, WrittenSound, logVars, history
<1>8. StopSound'
  BY <1>1, <1>2, Zenon DEF Inv, StopSound, logVars, history
<1> QED BY <1>3, <1>4, <1>5, <1>6, <1>7, <1>8 DEF Inv

\* It moves the first entry out of its slot. It is the one after the last one.
LEMMA MoveEntryStep ==
  ASSUME Inv, MoveEntry, UNCHANGED <<logVars, history>>
  PROVE  /\ Inv' /\ entry' = entry + 1 /\ consumer' = "advance" /\ consumer = "move"
         /\ Size' = Size /\ Size > 0
<1> DEFINE s == SlotOf(m_read_index)
<1>1. /\ consumer = "move" /\ consumer' = "advance" /\ read_index = m_read_index
      /\ entry' = m_data[s] /\ m_data' = [m_data EXCEPT ![s] = NoEntry]
      /\ UNCHANGED <<m_read_index, m_write_index, producer, write_index, read_index, stop_requested>>
  <2>1. consumer = "move" /\ read_index = m_read_index
    BY Zenon DEF Inv, ConsumerSound, MoveEntry, ConsumerAt
  <2> QED BY <2>1, Zenon DEF MoveEntry, ConsumerAt
<1>2. /\ Size \in 1 .. Capacity /\ Capacity \in Nat \ {0} /\ Size' = Size
      /\ m_read_index \in Index /\ m_write_index \in Index
      /\ MovedOut = 0 /\ MovedOut' = 1 /\ LastWritten' = LastWritten
      /\ pushed \in Nat /\ entry \in Nat
  <2>1. Size > 0 /\ Size <= Capacity
    BY <1>1 DEF Inv, ConsumerSound, Numbered
  <2> QED BY <1>1, <2>1, Typed, SMT DEF Inv, Size, MovedOut, LastWritten, history
<1>3. /\ s = Place(m_read_index, 0)
      /\ \A d \in 1 .. Size - 1 : Place(m_read_index, d) \in Slot /\ Place(m_read_index, d) # s
      /\ s \in Slot
  <2>1. Place(m_read_index, 0) = s
    BY <1>2, Places, Zenon
  <2>2. /\ 0 \in 0 .. Capacity - 1 /\ 0 \in 0 .. Capacity
        /\ \A d \in 1 .. Size - 1 : d \in 0 .. Capacity - 1 /\ d \in 0 .. Capacity /\ d # 0
    BY <1>2, SMT
  <2>3. \A d \in 1 .. Size - 1 : Place(m_read_index, d) # Place(m_read_index, 0)
    BY <1>2, <2>2, Places, Zenon
  <2>4. \A d \in 0 .. Capacity : Place(m_read_index, d) \in Slot
    BY <1>2, Places, Zenon
  <2> QED BY <2>1, <2>2, <2>3, <2>4, Zenon
<1> HIDE DEF s
<1>4. m_data \in [Slot -> Entry \cup {NoEntry}]
  BY DEF Inv, TypeOK, QueueTypeOK
<1>5. entry' = pushed - Size + 1 /\ entry = pushed - Size
  <2>1. m_data[Place(m_read_index, 0)] = pushed - Size + 0 + 1
    <3>1. 0 \in MovedOut .. Size - 1
      BY <1>2, SMT
    <3> QED BY <3>1, Zenon DEF Inv, Numbered
  <2>2. entry = pushed - Size + MovedOut
    BY DEF Inv, Numbered
  <2> QED BY <1>1, <1>2, <1>3, <2>1, <2>2, SMT
<1>6. TypeOK'
  <2>1. m_data' \in [Slot -> Entry \cup {NoEntry}] /\ entry' \in Entry \cup {NoEntry}
    BY <1>1, <1>3, <1>4, Zenon
  <2> QED BY <1>1, <2>1, Zenon DEF Inv, TypeOK, QueueTypeOK, logVars, history
<1>7. ProducersSound'
  <2>1. ASSUME NEW p \in Producer, producer[p] = "publish"
        PROVE  m_data'[SlotOf(m_write_index)] = pushed + 1
    <3>1. Size < Capacity /\ m_data[SlotOf(m_write_index)] = pushed + 1
      BY <2>1, Zenon DEF Inv, ProducersSound
    <3>2. Size \in 0 .. Capacity - 1 /\ Size # 0 /\ 0 \in 0 .. Capacity - 1 /\ Size \in 0 .. Capacity
      BY <1>2, <3>1, SMT
    <3>3. Place(m_read_index, Size) = SlotOf(m_write_index) /\ Place(m_read_index, Size) \in Slot
      BY <1>2, <3>2, Places, Zenon DEF Size
    <3>4. Place(m_read_index, Size) # Place(m_read_index, 0)
      BY <1>2, <3>2, Places, Zenon
    <3> QED BY <1>1, <1>3, <1>4, <3>1, <3>3, <3>4, Zenon
  <2> QED BY <1>1, <1>2, <2>1, Zenon DEF Inv, ProducersSound, history
<1>8. Numbered'
  <2>1. ASSUME NEW d \in 1 .. Size - 1
        PROVE  m_data'[Place(m_read_index, d)] = pushed - Size + d + 1
    <3>1. d \in MovedOut .. Size - 1
      BY <1>2, SMT
    <3>2. m_data[Place(m_read_index, d)] = pushed - Size + d + 1
      BY <3>1, Zenon DEF Inv, Numbered
    <3> QED BY <1>1, <1>3, <1>4, <3>2, Zenon
  <2>2. Size <= Capacity
    BY DEF Inv, Numbered
  <2> QED BY <1>1, <1>2, <1>5, <2>1, <2>2, Zenon DEF Numbered, history
<1>9. ConsumerSound'
  <2>1. Size' > 0
    BY <1>2, SMT
  <2> QED BY <1>1, <2>1, Zenon DEF Inv, ConsumerSound, logVars
<1>10. WrittenSound'
  <2>1. LastWritten = entry
    BY <1>1 DEF Inv, WrittenSound
  <2>2. LastWritten' = entry' - 1
    BY <1>2, <1>5, <2>1, SMT
  <2> QED BY <1>1, <1>2, <2>2, Zenon DEF Inv, WrittenSound, logVars, history
<1>11. StopSound'
  BY <1>1, <1>2, Zenon DEF Inv, StopSound, logVars, history
<1>12. entry' = entry + 1 /\ Size > 0
  BY <1>2, <1>5, SMT
<1> QED BY <1>1, <1>2, <1>6, <1>7, <1>8, <1>9, <1>10, <1>11, <1>12 DEF Inv

\* It releases the slot.
LEMMA AdvanceStep ==
  ASSUME Inv, Advance, UNCHANGED <<logVars, history>>
  PROVE  Inv'
<1>1. /\ consumer = "advance" /\ consumer' = "notify"
      /\ m_read_index' = Incremented(m_read_index)
      /\ UNCHANGED <<m_write_index, m_data, producer, write_index, read_index, entry, stop_requested>>
  BY DEF Advance, ConsumerAt, localVars
<1>2. /\ Size \in 1 .. Capacity /\ Capacity \in Nat \ {0}
      /\ m_read_index \in Index /\ m_write_index \in Index
      /\ MovedOut = 1 /\ MovedOut' = 0 /\ LastWritten' = LastWritten
      /\ pushed \in Nat
  <2>1. Size > 0 /\ Size <= Capacity
    BY <1>1 DEF Inv, ConsumerSound, Numbered
  <2> QED BY <1>1, <2>1, Typed, SMT DEF Inv, MovedOut, LastWritten, history
<1>3. m_read_index' \in Index /\ Size' = Size - 1
  <2>1. Size > 0
    BY <1>2, SMT
  <2> QED BY <1>1, <1>2, <2>1, Places, Distances, Zenon DEF Size
<1>4. TypeOK'
  BY <1>1, <1>3, Zenon DEF Inv, TypeOK, QueueTypeOK, logVars, history
<1>5. ProducersSound'
  <2>1. Size < Capacity => Size' < Capacity
    BY <1>2, <1>3, SMT
  <2> QED BY <1>1, <2>1, Zenon DEF Inv, ProducersSound, history
<1>6. Numbered'
  <2>1. ASSUME NEW d \in 0 .. Size' - 1
        PROVE  m_data[Place(m_read_index', d)] = pushed - Size' + d + 1
    <3>1. d \in 0 .. Capacity - 1 /\ d + 1 \in MovedOut .. Size - 1
      BY <1>2, <1>3, SMT
    <3>2. Place(m_read_index', d) = Place(m_read_index, d + 1)
      BY <1>1, <1>2, <3>1, Places, Zenon
    <3>3. m_data[Place(m_read_index, d + 1)] = pushed - Size + (d + 1) + 1
      BY <3>1, Zenon DEF Inv, Numbered
    <3>4. pushed - Size + (d + 1) + 1 = pushed - Size' + d + 1
      BY <1>2, <1>3, SMT
    <3> QED BY <3>2, <3>3, <3>4, Zenon
  <2>2. entry = pushed - Size + MovedOut
    BY DEF Inv, Numbered
  <2>3. Size' <= Capacity /\ entry' = pushed' - Size' + MovedOut'
    BY <1>1, <1>2, <1>3, <2>2, SMT DEF history
  <2> QED BY <1>1, <1>2, <2>1, <2>3, Zenon DEF Numbered, history
<1>7. ConsumerSound'
  BY <1>1, Zenon DEF Inv, ConsumerSound, logVars
<1>8. WrittenSound' /\ StopSound'
  BY <1>1, <1>2, Zenon DEF Inv, WrittenSound, StopSound, logVars, history
<1> QED BY <1>4, <1>5, <1>6, <1>7, <1>8 DEF Inv

\* It notifies a producer, and Pop() returns.
LEMMA NotifyProducerStep ==
  ASSUME Inv, NotifyProducer, UNCHANGED <<logVars, history>>
  PROVE  Inv'
<1>1. /\ consumer = "notify" /\ consumer' = "returned"
      /\ producer' = [p \in Producer |-> IF producer[p] = "waiting" THEN "check" ELSE producer[p]]
      /\ UNCHANGED <<m_read_index, m_write_index, m_data, write_index, read_index, entry, stop_requested>>
  BY DEF NotifyProducer, ConsumerAt, queueVars, localVars
<1>2. Size' = Size /\ MovedOut' = MovedOut /\ LastWritten' = LastWritten
  BY <1>1, Zenon DEF Size, MovedOut, LastWritten, history
<1>3. \A p \in Producer : producer'[p] = IF producer[p] = "waiting" THEN "check" ELSE producer[p]
  BY <1>1, Zenon
<1>4. TypeOK'
  BY <1>1, <1>3, SMT DEF Inv, TypeOK, QueueTypeOK, logVars, history
<1>5. ProducersSound'
  BY <1>1, <1>2, <1>3, SMT DEF Inv, ProducersSound, history
<1>6. ConsumerSound' /\ Numbered' /\ WrittenSound' /\ StopSound'
  BY <1>1, <1>2, Zenon DEF Inv, ConsumerSound, Numbered, WrittenSound, StopSound, logVars, history
<1> QED BY <1>4, <1>5, <1>6 DEF Inv

\* It writes the entry to the log: the next one, or after a stop the last again.
LEMMA WriteLogsStep ==
  ASSUME Inv, WriteLogs
  PROVE  Inv'
<1>1. /\ consumer = "returned" /\ consumer' = "idle"
      /\ written' = IF entry # NoEntry THEN Append(written, entry) ELSE written
      /\ UNCHANGED <<m_read_index, m_write_index, m_data, producer, write_index, read_index, entry,
                     stop_requested, backend, max_logs_to_write, stop, pushed, before_stop>>
  BY DEF WriteLogs, ConsumerAt, queueVars, localVars, logVars
<1>2. Size' = Size /\ MovedOut' = MovedOut
  BY <1>1, Zenon DEF Size, MovedOut
<1>3. /\ written \in Seq(Nat) /\ LastWritten \in Nat /\ entry \in Nat /\ NoEntry = 0
      /\ backend \in {"running", "draining"}
      /\ LastWritten = entry - 1 \/ (LastWritten = entry /\ stop_requested /\ backend = "running")
  <2>1. written \in Seq(Nat) /\ LastWritten \in Nat /\ entry \in Nat /\ NoEntry = 0
    BY Typed, SMT DEF Inv
  <2>2. LastWritten = entry - 1 \/ (LastWritten = entry /\ stop_requested /\ backend = "running")
    BY <1>1 DEF Inv, WrittenSound
  <2> QED BY <1>1, <2>1, <2>2, Zenon DEF Inv, ConsumerSound
<1>4. LastWritten' = entry
  <2>1. CASE entry = 0
    BY <1>1, <1>3, <2>1, SMT DEF LastWritten
  <2>2. CASE entry # 0
    BY <1>1, <1>3, <2>2, SMT DEF LastWritten
  <2> QED BY <2>1, <2>2
<1>5. TypeOK'
  <2>1. written \in Seq(Entry) /\ (entry # NoEntry => entry \in Entry)
    BY DEF Inv, TypeOK, QueueTypeOK
  <2>2. written' \in Seq(Entry)
    BY <1>1, <2>1, SMT
  <2> QED BY <1>1, <2>2, Zenon DEF Inv, TypeOK, QueueTypeOK
<1>6. ProducersSound' /\ ConsumerSound' /\ Numbered'
  BY <1>1, <1>2, Zenon DEF Inv, ProducersSound, ConsumerSound, Numbered
<1>7. WrittenSound'
  <2>1. \/ Len(written) = LastWritten
        \/ /\ Len(written) = LastWritten + 1 /\ stop_requested
           /\ backend = "running" => consumer = "idle"
    BY DEF Inv, WrittenSound
  <2>2. \/ Len(written') = LastWritten'
        \/ Len(written') = LastWritten' + 1 /\ stop_requested'
    BY <1>1, <1>3, <1>4, <2>1, SMT
  <2>3. /\ written # <<>> => written[1] = 1
        /\ \A i \in 1 .. Len(written) - 1 : written[i + 1] - written[i] \in {0, 1}
    BY DEF Inv, WrittenSound
  <2>4. written' # <<>> => written'[1] = 1
    <3>1. CASE written = <<>> /\ entry # 0
      <4>1. LastWritten = 0 /\ entry = 1
        BY <1>3, <3>1, SMT DEF LastWritten
      <4> QED BY <1>1, <1>3, <3>1, <4>1, SMT
    <3>2. CASE written # <<>>
      BY <1>1, <1>3, <2>3, <3>2, SMT
    <3>3. CASE entry = 0
      BY <1>1, <1>3, <2>3, <3>3
    <3> QED BY <3>1, <3>2, <3>3
  <2>5. ASSUME NEW i \in 1 .. Len(written') - 1
        PROVE  written'[i + 1] - written'[i] \in {0, 1}
    <3>1. CASE entry = 0
      BY <1>1, <1>3, <2>3, <3>1, Zenon
    <3>2. CASE entry # 0 /\ i < Len(written)
      <4>1. i \in 1 .. Len(written) - 1 /\ written'[i + 1] = written[i + 1] /\ written'[i] = written[i]
        BY <1>1, <1>3, <3>2, SMT
      <4> QED BY <2>3, <4>1, Zenon
    <3>3. CASE entry # 0 /\ ~(i < Len(written))
      <4>1. /\ i = Len(written) /\ Len(written) > 0
            /\ written'[i + 1] = entry /\ written'[i] = written[Len(written)]
        BY <1>1, <1>3, <3>3, SMT
      <4>2. written[Len(written)] = LastWritten
        BY <1>3, <4>1, SMT DEF LastWritten
      <4> QED BY <1>3, <4>1, <4>2, SMT
    <3> QED BY <3>1, <3>2, <3>3
  <2> QED BY <1>1, <1>4, <2>2, <2>4, <2>5, Zenon DEF WrittenSound
<1>8. StopSound'
  BY <1>1, <1>3, Zenon DEF Inv, StopSound
<1> QED BY <1>5, <1>6, <1>7, <1>8 DEF Inv

\* It leaves the loop, drains the queue and ends, and Stop() returns.
LEMMA DrainStep ==
  ASSUME Inv, StartBackendThread \/ LeaveLoop \/ Drain \/ Join
  PROVE  Inv'
<1>1. MaxLogs \in Nat /\ max_logs_to_write \in -1 .. MaxLogs
  BY LogAssumption DEF Inv, TypeOK
<1>2. CASE StartBackendThread \/ LeaveLoop \/ Join
  <2>1. /\ UNCHANGED <<m_read_index, m_write_index, m_data, producer, consumer, write_index, read_index,
                       entry, stop_requested, pushed, written, before_stop>>
        /\ \/ /\ backend = "new" /\ backend' = "running" /\ UNCHANGED <<max_logs_to_write, stop>>
           \/ /\ backend = "running" /\ consumer = "idle" /\ stop_requested
              /\ backend' = "draining" /\ max_logs_to_write' = MaxLogs /\ UNCHANGED stop
           \/ /\ stop = "joining" /\ stop' = "stopped" /\ UNCHANGED <<max_logs_to_write, backend>>
    BY <1>2, Zenon DEF StartBackendThread, LeaveLoop, Join, queueState, queueVars, localVars, history
  <2>2. Size' = Size /\ MovedOut' = MovedOut /\ LastWritten' = LastWritten
    BY <2>1, Zenon DEF Size, MovedOut, LastWritten
  <2>3. TypeOK'
    <3>1. max_logs_to_write' \in -1 .. MaxLogs
      BY <1>1, <2>1, SMT
    <3> QED BY <2>1, <3>1, Zenon DEF Inv, TypeOK, QueueTypeOK
  <2>4. ProducersSound' /\ Numbered'
    BY <2>1, <2>2, Zenon DEF Inv, ProducersSound, Numbered
  <2>5. ConsumerSound' /\ WrittenSound'
    BY <2>1, <2>2, SMT DEF Inv, ConsumerSound, WrittenSound
  <2>6. StopSound'
    BY <1>1, <2>1, <2>2, SMT DEF Inv, StopSound
  <2> QED BY <2>3, <2>4, <2>5, <2>6 DEF Inv
<1>3. CASE Drain
  <2>1. /\ backend = "draining" /\ consumer = "idle"
        /\ max_logs_to_write' = max_logs_to_write - 1 /\ max_logs_to_write >= 0
        /\ UNCHANGED <<m_read_index, m_write_index, m_data, producer, write_index, entry,
                       stop_requested, stop, pushed, written, before_stop>>
        /\ \/ /\ max_logs_to_write # 0 /\ m_read_index # m_write_index
              /\ consumer' = "move" /\ read_index' = m_read_index /\ UNCHANGED backend
           \/ /\ max_logs_to_write = 0 \/ m_read_index = m_write_index
              /\ backend' = "ended" /\ UNCHANGED <<consumer, read_index>>
    <3>1. backend = "draining" /\ max_logs_to_write >= 0
      BY <1>3 DEF Inv, StopSound, Drain
    <3>2. CASE max_logs_to_write # 0 /\ m_read_index # m_write_index
      BY <1>3, <3>1, <3>2, Zenon DEF Drain, TryPop, ConsumerAt, queueState, queueVars, localVars, history
    <3>3. CASE ~(max_logs_to_write # 0 /\ m_read_index # m_write_index)
      BY <1>3, <3>1, <3>3, Zenon DEF Drain, queueState, queueVars, localVars, history
    <3> QED BY <3>2, <3>3
  <2>2. Size' = Size /\ MovedOut' = MovedOut /\ MovedOut = 0 /\ LastWritten' = LastWritten
    BY <2>1, Zenon DEF Size, MovedOut, LastWritten
  <2>3. /\ m_read_index # m_write_index => Size > 0
        /\ m_read_index = m_write_index => Size = 0
    <3>1. /\ m_read_index # m_write_index => Size # 0
          /\ m_read_index = m_write_index => Size = 0
      BY Typed, Distances, Zenon DEF Inv, Size
    <3> QED BY <3>1, Typed, SMT DEF Inv
  <2>4. TypeOK'
    <3>1. max_logs_to_write' \in -1 .. MaxLogs
      BY <1>1, <2>1, SMT
    <3> QED BY <2>1, <3>1, SMT DEF Inv, TypeOK, QueueTypeOK
  <2>5. ProducersSound' /\ Numbered'
    BY <2>1, <2>2, Zenon DEF Inv, ProducersSound, Numbered
  <2>6. ConsumerSound'
    BY <2>1, <2>2, <2>3, SMT DEF Inv, ConsumerSound
  <2>7. WrittenSound'
    BY <2>1, <2>2, SMT DEF Inv, WrittenSound
  <2>8. StopSound'
    <3>1. /\ LastWritten = entry /\ entry = pushed - Size + MovedOut /\ before_stop <= pushed
          /\ stop_requested /\ (stop = "no" <=> ~stop_requested)
      BY <2>1 DEF Inv, Numbered, WrittenSound, StopSound
    <3>2. pushed \in Nat /\ before_stop \in Nat /\ entry \in Nat /\ Size \in Nat /\ max_logs_to_write \in Int
      BY Typed, <1>1, SMT DEF Inv, TypeOK
    <3>3. backend' = "draining" => max_logs_to_write' >= 0
      BY <2>1, <3>2, SMT
    <3>4. backend' = "ended" /\ max_logs_to_write' >= 0 => LastWritten >= before_stop
      BY <2>1, <2>2, <2>3, <3>1, <3>2, SMT
    <3> QED BY <2>1, <2>2, <3>1, <3>3, <3>4, Zenon DEF StopSound
  <2> QED BY <2>4, <2>5, <2>6, <2>7, <2>8 DEF Inv
<1> QED BY <1>2, <1>3

\* Every step preserves the invariant. The steps that the abstract queue sees
\* are the ones that publish an entry or move one out.
LEMMA NextInv ==
  ASSUME Inv, [Next]_vars
  PROVE  /\ Inv'
         /\ \/ pushed' = pushed /\ entry' = entry
            \/ /\ pushed' = pushed + 1 /\ entry' = entry
               /\ Size < Capacity /\ MovedOut' = MovedOut /\ pushed < MaxEntries
            \/ pushed' = pushed /\ entry' = entry + 1 /\ consumer = "move" /\ Size > 0
<1>1. CASE UNCHANGED vars
  <2>1. UNCHANGED <<queueVars, localVars, consumer, producer, stop_requested, logVars, history>>
    BY <1>1, Zenon DEF vars, queueState, queueVars, localVars
  <2>2. Inv'
    BY <2>1, WakeupStep, Zenon DEF logVars, history
  <2> QED BY <2>1, <2>2, Zenon DEF history, localVars
<1>2. ASSUME NEW p \in Producer, PushEntry(p)
      PROVE  /\ Inv'
             /\ \/ pushed' = pushed /\ entry' = entry
                \/ /\ pushed' = pushed + 1 /\ entry' = entry
                   /\ Size < Capacity /\ MovedOut' = MovedOut /\ pushed < MaxEntries
  <2>1. CASE /\ UNCHANGED <<logVars, history>>
             /\ \/ pushed < MaxEntries /\ LockWrite(p)
                \/ CheckRoom(p) \/ ProducerBlocks(p)
    <3>1. Inv'
      BY <2>1, ProducerWaitsStep, Zenon
    <3>2. pushed' = pushed /\ entry' = entry
      BY <2>1, Zenon DEF history, LockWrite, CheckRoom, ProducerBlocks, localVars
    <3> QED BY <3>1, <3>2
  <2>2. CASE EmplaceEntry(p, pushed + 1) /\ UNCHANGED <<logVars, history>>
    <3>1. Inv'
      BY <2>2, EmplaceEntryStep, Zenon
    <3>2. pushed' = pushed /\ entry' = entry
      BY <2>2, Zenon DEF history, EmplaceEntry, localVars
    <3> QED BY <3>1, <3>2
  <2>3. CASE NotifyConsumer(p) /\ UNCHANGED <<logVars, history>>
    <3>1. /\ UNCHANGED <<queueVars, localVars, stop_requested, logVars, history>>
          /\ consumer' = consumer \/ (consumer = "waiting" /\ consumer' = "check")
          /\ producer[p] = "notify" /\ producer' = [producer EXCEPT ![p] = "idle"]
      BY <2>3, Zenon DEF NotifyConsumer, ProducerAt
    <3>2. Inv'
      BY <3>1, WakeupStep, Zenon DEF logVars, history
    <3> QED BY <3>1, <3>2, Zenon DEF localVars, history
  <2>4. CASE Publish(p) /\ pushed' = pushed + 1 /\ UNCHANGED <<logVars, written, before_stop>>
    <3>1. Inv'
      BY <2>4, PublishStep, Zenon
    <3>2. producer[p] = "publish" /\ UNCHANGED <<consumer, entry>>
      BY <2>4, Zenon DEF Publish, ProducerAt, localVars
    <3>3. Size < Capacity /\ pushed < MaxEntries
      BY <3>2, Zenon DEF Inv, ProducersSound
    <3> QED BY <2>4, <3>1, <3>2, <3>3, Zenon DEF MovedOut
  <2> QED BY <1>2, <2>1, <2>2, <2>3, <2>4, Zenon DEF PushEntry
<1>3. CASE StartBackendThread \/ LeaveLoop \/ Drain \/ Join
  <2>1. pushed' = pushed /\ entry' = entry
    BY <1>3, Zenon DEF StartBackendThread, LeaveLoop, Drain, TryPop, Join, queueState, localVars, history
  <2> QED BY <1>3, <2>1, DrainStep
<1>4. CASE PopEntry
  <2>1. pushed' = pushed /\ entry' = entry
    BY <1>4, Zenon DEF PopEntry, PopWait, CheckEntry, ConsumerBlocks, localVars, history
  <2> QED BY <1>4, <2>1, PopEntryStep
<1>5. CASE TakeEntry
  <2>1. CASE MoveEntry
    <3>1. UNCHANGED <<logVars, history>>
      BY <1>5 DEF TakeEntry
    <3> QED BY <2>1, <3>1, MoveEntryStep, Zenon DEF history
  <2>2. CASE Advance \/ NotifyProducer
    <3>1. UNCHANGED <<logVars, history>>
      BY <1>5 DEF TakeEntry
    <3>2. Inv'
      BY <2>2, <3>1, AdvanceStep, NotifyProducerStep, Zenon
    <3>3. pushed' = pushed /\ entry' = entry
      BY <2>2, <3>1, Zenon DEF Advance, NotifyProducer, localVars, history
    <3> QED BY <3>2, <3>3
  <2> QED BY <1>5, <2>1, <2>2 DEF TakeEntry
<1>6. CASE WriteLogs
  <2>1. pushed' = pushed /\ entry' = entry
    BY <1>6, Zenon DEF WriteLogs, localVars
  <2> QED BY <1>6, <2>1, WriteLogsStep
<1>7. CASE Stop
  <2>1. /\ UNCHANGED <<queueVars, producer, localVars, backend, max_logs_to_write, pushed, written>>
        /\ consumer' = consumer \/ (consumer = "waiting" /\ consumer' = "check")
        /\ stop = "no" /\ stop' = "joining" /\ stop_requested' = TRUE /\ before_stop' = pushed
    BY <1>7, Zenon DEF Stop, RequestStop
  <2>2. Inv'
    BY <2>1, WakeupStep, Zenon
  <2> QED BY <2>1, <2>2, Zenon DEF localVars
<1>8. CASE SpuriousWakeup /\ UNCHANGED <<logVars, history>>
  <2>1. /\ UNCHANGED <<queueVars, localVars, stop_requested, logVars, history>>
        /\ \/ UNCHANGED producer /\ consumer = "waiting" /\ consumer' = "check"
           \/ /\ UNCHANGED consumer
              /\ \E p \in Producer :
                    producer[p] = "waiting" /\ producer' = [producer EXCEPT ![p] = "check"]
    BY <1>8, Zenon DEF SpuriousWakeup, ConsumerAt, ProducerAt
  <2>2. Inv'
    BY <2>1, WakeupStep, Zenon DEF logVars, history
  <2> QED BY <2>1, <2>2, Zenon DEF localVars, history
<1> QED BY <1>1, <1>2, <1>3, <1>4, <1>5, <1>6, <1>7, <1>8, Zenon DEF Next, BackendThread

\* The queue holds the entries that were pushed and not moved out.
LEMMA PendingEntries ==
  ASSUME Inv
  PROVE  /\ Pending = [i \in 1 .. pushed - entry |-> entry + i]
         /\ pushed - entry = Size - MovedOut
         /\ pushed \in Nat /\ entry \in Nat /\ Size \in Nat /\ Capacity \in Nat /\ MaxEntries \in Nat
         /\ MovedOut \in {0, 1} /\ pushed >= entry
<1>1. /\ pushed \in Nat /\ entry \in Nat /\ Size \in Nat /\ Capacity \in Nat /\ MaxEntries \in Nat
      /\ MovedOut \in {0, 1} /\ (MovedOut = 1 => Size > 0)
  BY Typed, SMT DEF Inv, MovedOut, ConsumerSound
<1>2. entry = pushed - Size + MovedOut
  BY DEF Inv, Numbered
<1>3. pushed - entry = Size - MovedOut /\ pushed >= entry
  BY <1>1, <1>2, SMT
<1>4. Pending = [i \in 1 .. Size - MovedOut |-> m_data[Place(m_read_index, MovedOut + i - 1)]]
  BY Zenon DEF Pending, MovedOut
<1>5. ASSUME NEW i \in 1 .. Size - MovedOut
      PROVE  m_data[Place(m_read_index, MovedOut + i - 1)] = entry + i
  <2>1. MovedOut + i - 1 \in MovedOut .. Size - 1
    BY <1>1, SMT
  <2>2. m_data[Place(m_read_index, MovedOut + i - 1)] = pushed - Size + (MovedOut + i - 1) + 1
    BY <2>1, Zenon DEF Inv, Numbered
  <2> QED BY <1>1, <1>2, <2>2, SMT
<1>6. Pending = [i \in 1 .. Size - MovedOut |-> entry + i]
  BY <1>4, <1>5, Zenon
<1> QED BY <1>1, <1>3, <1>6, Zenon

\* The indices stay unsigned numbers and the slots hold entries: nothing is
\* stored outside the ring, for any capacity and number of threads.
THEOREM TypeCorrect == Spec => []TypeOK
<1>1. Inv /\ [Next]_vars => Inv'
  BY NextInv
<1>2. Inv => TypeOK
  BY DEF Inv
<1> QED BY InitInv, <1>1, <1>2, PTL DEF Spec

\* The log has every entry in order, a stop repeats at most the last one, and
\* what was pushed before the stop is written if it is drained.
THEOREM LogIsFaithful == Spec => []LogFaithful
<1>1. Inv /\ [Next]_vars => Inv'
  BY NextInv
<1>2. Inv => LogFaithful
  <2> SUFFICES ASSUME Inv PROVE LogFaithful
    OBVIOUS
  <2>1. /\ written # <<>> => written[1] = 1
        /\ \A i \in 1 .. Len(written) - 1 : written[i + 1] - written[i] \in {0, 1}
        /\ Len(written) = LastWritten \/ (Len(written) = LastWritten + 1 /\ stop_requested)
        /\ backend = "ended" /\ max_logs_to_write >= 0 => LastWritten >= before_stop
    <3>1. WrittenSound /\ StopSound
      BY DEF Inv
    <3>2. Len(written) = LastWritten \/ (Len(written) = LastWritten + 1 /\ stop_requested)
      BY <3>1, Zenon DEF WrittenSound
    <3>3. /\ written # <<>> => written[1] = 1
          /\ \A i \in 1 .. Len(written) - 1 : written[i + 1] - written[i] \in {0, 1}
      BY <3>1, Zenon DEF WrittenSound
    <3> QED BY <3>1, <3>2, <3>3, Zenon DEF StopSound
  <2>2. written \in Seq(Nat) /\ LastWritten \in Nat /\ before_stop \in Int /\ stop_requested \in BOOLEAN
    BY Typed, SMT DEF Inv, TypeOK, QueueTypeOK
  <2>3. written # <<>> => Len(written) <= written[Len(written)] + IF stop_requested THEN 1 ELSE 0
    BY <2>1, <2>2, SMT DEF LastWritten
  <2>4. backend = "ended" /\ max_logs_to_write >= 0 /\ before_stop > 0 =>
           written # <<>> /\ written[Len(written)] >= before_stop
    BY <2>1, <2>2, SMT DEF LastWritten
  <2> QED BY <2>1, <2>3, <2>4, Zenon DEF LogFaithful
<1> QED BY InitInv, <1>1, <1>2, PTL DEF Spec

\* The ring buffer with its two condition variables is a bounded queue, for any
\* number of producers, any capacity and any range of the indices.
THEOREM ImplementsFifo == Spec => RefinesFifo
<1>0. Inv => Pending = [i \in 1 .. pushed - entry |-> entry + i]
  BY PendingEntries
<1>1. Init => Fifo!Init
  <2> SUFFICES ASSUME Init PROVE Fifo!Init
    OBVIOUS
  <2>1. Inv /\ pushed = 0 /\ entry = NoEntry /\ NoEntry = 0
    BY Zenon, InitInv, LogAssumption DEF Init, QueueInit
  <2>2. Pending = [i \in 1 .. pushed - entry |-> entry + i]
    BY <2>1, PendingEntries, Zenon
  <2>3. Pending = <<>>
    BY <2>1, <2>2, SMT
  <2> QED BY <2>1, <2>3, Zenon DEF Fifo!Init
<1>2. Inv /\ [Next]_vars => Inv' /\ [Fifo!Next]_(Fifo!vars)
  <2> SUFFICES ASSUME Inv, [Next]_vars PROVE Inv' /\ [Fifo!Next]_(Fifo!vars)
    OBVIOUS
  <2>1. Inv'
    BY NextInv
  <2>2. /\ Pending = [i \in 1 .. pushed - entry |-> entry + i]
        /\ pushed - entry = Size - MovedOut
        /\ pushed \in Nat /\ entry \in Nat /\ Size \in Nat /\ Capacity \in Nat /\ MaxEntries \in Nat
        /\ MovedOut \in {0, 1} /\ pushed >= entry
    BY PendingEntries, Zenon
  <2>3. Pending' = [i \in 1 .. pushed' - entry' |-> entry' + i]
    <3>1. (Pending = [i \in 1 .. pushed - entry |-> entry + i])'
      BY <2>1, <1>0, PTL
    <3> QED BY <3>1
  <2>4. CASE pushed' = pushed /\ entry' = entry
    BY <2>1, <2>2, <2>3, <2>4, Zenon DEF Fifo!vars
  <2>5. CASE /\ pushed' = pushed + 1 /\ entry' = entry
             /\ Size < Capacity /\ MovedOut' = MovedOut /\ pushed < MaxEntries
    <3>1. Len(Pending) = pushed - entry
      BY <2>2, SMT
    <3>2. Len(Pending) < Capacity
      BY <2>2, <2>5, <3>1, SMT
    <3>3. Pending' = Append(Pending, pushed + 1)
      BY <2>2, <2>3, <2>5, SMT
    <3>4. pushed + 1 \in Entry
      BY <2>2, <2>5, LogAssumption, SMT
    <3>5. Fifo!Emplace(pushed + 1)
      BY <2>5, <3>2, <3>3, Zenon DEF Fifo!Emplace
    <3> QED BY <2>1, <3>4, <3>5, Zenon DEF Fifo!Next
  <2>6. CASE pushed' = pushed /\ entry' = entry + 1 /\ consumer = "move" /\ Size > 0
    <3>1. MovedOut = 0 /\ pushed - entry > 0
      BY <2>2, <2>6, SMT DEF MovedOut
    <3>2. Pending # <<>> /\ Head(Pending) = entry + 1
      BY <2>2, <3>1, SMT
    <3>3. Pending' = Tail(Pending)
      BY <2>2, <2>3, <2>6, <3>1, SMT
    <3> QED BY <2>1, <2>6, <3>2, <3>3, Zenon DEF Fifo!Next, Fifo!Pop
  <2> QED BY <2>4, <2>5, <2>6, NextInv, Zenon
<1> QED BY InitInv, <1>1, <1>2, PTL DEF Spec, RefinesFifo, Fifo!Spec
=============================================================================
