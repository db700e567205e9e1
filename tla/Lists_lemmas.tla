---------------------------- MODULE Lists_lemmas ----------------------------
(***************************************************************************)
(* Lemmas about the lists of Lists, and the least element of a set of      *)
(* naturals.                                                               *)
(***************************************************************************)
EXTENDS Lists, Naturals, WellFoundedInduction, TLAPS

\* Every nonempty set of naturals has a least element.
LEMMA LeastNat ==
    ASSUME NEW S, S \subseteq Nat, S # {}
    PROVE  \E m \in S : \A x \in S : m <= x
<1> DEFINE R == {ss \in Nat \X Nat : ss[1] < ss[2]}
<1>1. IsWellFoundedOn(R, Nat)
  BY NatLessThanWellFounded DEF OpToRel
<1>2. \A x, y \in Nat : <<x, y>> \in R <=> x < y
  OBVIOUS
<1> HIDE DEF R
<1>3. PICK m \in S : \A x \in S : ~(<<x, m>> \in R)
  BY Zenon, <1>1, WFMin
<1>4. \A x \in S : ~(x < m)
  BY Zenon, <1>2, <1>3
<1> QED
  BY <1>4

\* Without takes exactly t out of a queue that holds an element once at most.
LEMMA WithoutLemma ==
    ASSUME NEW S, NEW q \in Seq(S), NEW t, Distinct(q)
    PROVE  /\ Without(q, t) \in Seq(S)
           /\ Distinct(Without(q, t))
           /\ \A x : Has(Without(q, t), x) <=> Has(q, x) /\ x # t
<1>1. CASE ~ \E i \in 1 .. Len(q) : q[i] = t
  BY <1>1 DEF Without, Has
<1>2. CASE \E i \in 1 .. Len(q) : q[i] = t
  <2> DEFINE k == CHOOSE i \in 1 .. Len(q) : q[i] = t
             w == [j \in 1 .. (Len(q) - 1) |-> IF j < k THEN q[j] ELSE q[j + 1]]
  <2>1. k \in 1 .. Len(q) /\ q[k] = t
    BY <1>2
  <2>2. Without(q, t) = w
    BY <1>2 DEF Without
  <2> HIDE DEF k
  <2>3. Len(q) \in Nat /\ Len(q) - 1 \in Nat /\ k \in Nat
    BY <2>1
  <2>4. \A j \in 1 .. (Len(q) - 1) : w[j] = IF j < k THEN q[j] ELSE q[j + 1]
    OBVIOUS
  <2>5. DOMAIN w = 1 .. (Len(q) - 1) /\ DOMAIN q = 1 .. Len(q)
    OBVIOUS
  <2>6. \A j \in 1 .. Len(q) : q[j] \in S
    OBVIOUS
  <2>7. \A j \in 1 .. (Len(q) - 1) : w[j] \in S
    BY <2>1, <2>3, <2>4, <2>6
  <2>8. w \in Seq(S)
    <3>1. w \in [1 .. (Len(q) - 1) -> S]
      BY <2>7
    <3> QED
      BY <3>1, <2>3
  <2> HIDE DEF w
  <2>9. Distinct(w)
    BY SMTT(20), <2>1, <2>3, <2>4, <2>5 DEF Distinct
  <2>10. ASSUME NEW x PROVE Has(w, x) <=> Has(q, x) /\ x # t
    <3>1. ASSUME NEW j \in DOMAIN w, w[j] = x PROVE Has(q, x) /\ x # t
      <4>1. CASE j < k
        <5>1. j \in DOMAIN q /\ q[j] = x /\ j # k
          BY <2>3, <2>4, <2>5, <3>1, <4>1
        <5> QED
          BY <5>1, <2>1, <2>5 DEF Has, Distinct
      <4>2. CASE ~(j < k)
        <5>1. j + 1 \in DOMAIN q /\ q[j + 1] = x /\ j + 1 # k
          BY <2>1, <2>3, <2>4, <2>5, <3>1, <4>2
        <5> QED
          BY <5>1, <2>1, <2>5 DEF Has, Distinct
      <4> QED
        BY <4>1, <4>2
    <3>2. ASSUME NEW j \in DOMAIN q, q[j] = x, x # t PROVE Has(w, x)
      <4>1. j # k
        BY <2>1, <3>2
      <4>2. CASE j < k
        <5>1. j \in DOMAIN w /\ w[j] = x
          BY <2>1, <2>3, <2>4, <2>5, <3>2, <4>2
        <5> QED
          BY <5>1 DEF Has
      <4>3. CASE j > k
        <5>1. j - 1 \in DOMAIN w /\ w[j - 1] = x
          BY <2>1, <2>3, <2>4, <2>5, <3>2, <4>3
        <5> QED
          BY <5>1 DEF Has
      <4> QED
        BY <4>1, <4>2, <4>3, <2>3, <2>5
    <3> QED
      BY <3>1, <3>2 DEF Has
  <2> QED
    BY <2>2, <2>8, <2>9, <2>10
<1> QED
  BY <1>1, <1>2

\* Append of an element that is not listed.
LEMMA AppendLemma ==
    ASSUME NEW S, NEW q \in Seq(S), NEW t \in S, Distinct(q), ~Has(q, t)
    PROVE  /\ Append(q, t) \in Seq(S)
           /\ Distinct(Append(q, t))
           /\ \A x : Has(Append(q, t), x) <=> Has(q, x) \/ x = t
<1> DEFINE w == Append(q, t)
<1>1. w \in Seq(S) /\ Len(w) = Len(q) + 1 /\ Len(q) \in Nat
  OBVIOUS
<1>2. DOMAIN w = 1 .. (Len(q) + 1) /\ DOMAIN q = 1 .. Len(q)
  OBVIOUS
<1>3. \A i \in 1 .. Len(q) : w[i] = q[i]
  OBVIOUS
<1>4. w[Len(q) + 1] = t
  OBVIOUS
<1> HIDE DEF w
<1>5. Distinct(w)
  BY <1>1, <1>2, <1>3, <1>4 DEF Distinct, Has
<1>6. ASSUME NEW x PROVE Has(w, x) <=> Has(q, x) \/ x = t
  BY <1>1, <1>2, <1>3, <1>4 DEF Has
<1> QED
  BY <1>1, <1>5, <1>6 DEF w

\* push_back, and what back and pop_back then give.
LEMMA PushLemma ==
    ASSUME NEW S, NEW q \in Seq(S), NEW t \in S
    PROVE  /\ Append(q, t) \in Seq(S)
           /\ \A x : Has(Append(q, t), x) <=> Has(q, x) \/ x = t
           /\ back(Append(q, t)) = t
           /\ pop_back(Append(q, t)) = q
<1> DEFINE w == Append(q, t)
<1>1. w \in Seq(S) /\ Len(w) = Len(q) + 1 /\ Len(q) \in Nat
  OBVIOUS
<1>2. DOMAIN w = 1 .. (Len(q) + 1) /\ DOMAIN q = 1 .. Len(q)
  OBVIOUS
<1>3. \A i \in 1 .. Len(q) : w[i] = q[i]
  OBVIOUS
<1>4. w[Len(q) + 1] = t
  OBVIOUS
<1> HIDE DEF w
<1>5. ASSUME NEW x PROVE Has(w, x) <=> Has(q, x) \/ x = t
  BY <1>1, <1>2, <1>3, <1>4 DEF Has
<1>6. SubSeq(w, 1, Len(q)) = q
  <2>1. SubSeq(w, 1, Len(q)) = [i \in 1 .. Len(q) |-> w[i]]
    BY <1>1
  <2> QED
    BY <1>2, <1>3, <2>1
<1> QED
  BY <1>1, <1>4, <1>5, <1>6 DEF w, back, pop_back

\* Putting an element that is not listed in front.
LEMMA PrependLemma ==
    ASSUME NEW S, NEW q \in Seq(S), NEW t \in S, Distinct(q), ~Has(q, t)
    PROVE  /\ <<t>> \o q \in Seq(S)
           /\ Distinct(<<t>> \o q)
           /\ \A x : Has(<<t>> \o q, x) <=> Has(q, x) \/ x = t
<1> DEFINE w == <<t>> \o q
<1>1. w \in Seq(S) /\ Len(w) = Len(q) + 1 /\ Len(q) \in Nat
  OBVIOUS
<1>2. DOMAIN w = 1 .. (Len(q) + 1) /\ DOMAIN q = 1 .. Len(q)
  OBVIOUS
<1>3. \A i \in 1 .. Len(q) : w[i + 1] = q[i]
  OBVIOUS
<1>4. w[1] = t
  OBVIOUS
<1> HIDE DEF w
<1>5. \A i \in DOMAIN w : i = 1 \/ (i - 1 \in DOMAIN q /\ w[i] = q[i - 1])
  BY <1>1, <1>2, <1>3
<1>6. Distinct(w)
  BY <1>1, <1>2, <1>4, <1>5 DEF Distinct, Has
<1>7. ASSUME NEW x PROVE Has(w, x) <=> Has(q, x) \/ x = t
  BY <1>1, <1>2, <1>3, <1>4, <1>5 DEF Has
<1> QED
  BY <1>1, <1>6, <1>7 DEF w

\* The elements of a list are its head and those of its tail.
LEMMA TailLemma ==
    ASSUME NEW S, NEW q \in Seq(S), q # <<>>
    PROVE  /\ Tail(q) \in Seq(S)
           /\ Head(q) \in S
           /\ \A x : Has(q, x) <=> x = Head(q) \/ Has(Tail(q), x)
<1>1. Len(q) \in Nat /\ Len(q) > 0 /\ DOMAIN q = 1 .. Len(q)
  OBVIOUS
<1>2. Tail(q) \in Seq(S) /\ DOMAIN Tail(q) = 1 .. (Len(q) - 1)
  BY <1>1
<1>3. \A i \in 1 .. (Len(q) - 1) : Tail(q)[i] = q[i + 1]
  BY <1>1
<1>4. Head(q) = q[1] /\ Head(q) \in S
  BY <1>1
<1>5. ASSUME NEW x PROVE Has(q, x) <=> x = Head(q) \/ Has(Tail(q), x)
  <2>1. ASSUME NEW i \in DOMAIN q, q[i] = x, x # Head(q) PROVE Has(Tail(q), x)
    <3>1. i - 1 \in DOMAIN Tail(q) /\ Tail(q)[i - 1] = x
      BY <1>1, <1>2, <1>3, <1>4, <2>1
    <3> QED
      BY <3>1 DEF Has
  <2>2. ASSUME NEW i \in DOMAIN Tail(q), Tail(q)[i] = x PROVE Has(q, x)
    <3>1. i + 1 \in DOMAIN q /\ q[i + 1] = x
      BY <1>1, <1>2, <1>3, <2>2
    <3> QED
      BY <3>1 DEF Has
  <2>3. Has(q, Head(q))
    BY <1>1, <1>4 DEF Has
  <2> QED
    BY <2>1, <2>2, <2>3 DEF Has
<1> QED
  BY <1>2, <1>4, <1>5

=============================================================================
