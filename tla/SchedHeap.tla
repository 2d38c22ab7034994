----------------------------- MODULE SchedHeap -----------------------------
(***************************************************************************)
(* The array heap of nsd/sched.c: queue[1..nqueue], ordered by the field   *)
(* nextqueue of the events.  key is nextqueue as a function of the event.  *)
(* An event's qid is its index in the array; Exchange keeps it so.         *)
(***************************************************************************)
EXTENDS Naturals, Sequences

Exchange(q, i, j) == [q EXCEPT ![i] = q[j], ![j] = q[i]]

RECURSIVE HeapUp(_, _, _)
HeapUp(q, k, key) ==
    LET j == k \div 2
    IN IF k > 1 /\ key[q[j]] > key[q[k]] THEN HeapUp(Exchange(q, j, k), j, key) ELSE q

RECURSIVE HeapDown(_, _, _)
HeapDown(q, i, key) ==
    LET left  == 2 * i
        child == IF left < Len(q) /\ key[q[left]] > key[q[left + 1]] THEN left + 1 ELSE left
    IN IF left > Len(q) \/ key[q[child]] > key[q[i]]
       THEN q
       ELSE HeapDown(Exchange(q, i, child), child, key)

\* Mutant: heaps up one level only.
HeapInsertOnce(q, e, key) ==
    LET r == Append(q, e)
        k == Len(r)
    IN IF k > 1 /\ key[r[k \div 2]] > key[e] THEN Exchange(r, k \div 2, k) ELSE r

\* The end of QueueEvent: place the event at the end and heap it up.
HeapInsert(q, e, key) == HeapUp(Append(q, e), Len(q) + 1, key)

\* DeQueueEvent: swap the event out and heap down what took its place.
HeapDelete(q, i, key) ==
    HeapDown(SubSeq(Exchange(q, i, Len(q)), 1, Len(q) - 1), i, key)

\* The order the array is meant to be in.
HeapOrdered(q, key) == \A k \in 2..Len(q) : key[q[k \div 2]] <= key[q[k]]

=============================================================================
