------------------------------- MODULE Lists -------------------------------
(***************************************************************************)
(* The lists that the kernel keeps (std::deque of a ready queue,           *)
(* std::vector of the threads that wait for an object, of the requests of  *)
(* a session and of the sessions of a port).                               *)
(***************************************************************************)
EXTENDS Naturals, Sequences

Has(q, t) == \E i \in DOMAIN q : q[i] = t

Elements(q) == {q[i] : i \in DOMAIN q}

Distinct(q) == \A i, j \in DOMAIN q : q[i] = q[j] => i = j

\* std::vector::back and pop_back.
back(q) == q[Len(q)]

pop_back(q) == SubSeq(q, 1, Len(q) - 1)

\* std::erase(q, t) and q.erase(std::find(q, t)) of a list that holds t once at most.
Without(q, t) ==
    IF \E i \in 1 .. Len(q) : q[i] = t
    THEN LET k == CHOOSE i \in 1 .. Len(q) : q[i] = t
         IN  [j \in 1 .. (Len(q) - 1) |-> IF j < k THEN q[j] ELSE q[j + 1]]
    ELSE q

=============================================================================
