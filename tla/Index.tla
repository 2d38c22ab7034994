------------------------------- MODULE Index --------------------------------
(***************************************************************************)
(* The ordered pointer lists of nsd/index.c: the operations take what the  *)
(* comparison callbacks answer.                                            *)
(***************************************************************************)
EXTENDS Integers, Sequences, SequencesExt

\* BinSearch and BinSearchKey: positions count from 0; conds holds what the
\* comparison callback says of the key and each element.
BinSearch(conds) ==
    LET search[low \in 0 .. Len(conds), high \in 0 .. Len(conds)] ==
            LET mid == (low + high) \div 2
                cond == conds[mid + 1]
            IN  CASE cond < 0 -> IF mid - 1 < low THEN mid ELSE search[low, mid - 1]
                  [] cond > 0 -> IF mid + 1 > high THEN mid + 1 ELSE search[mid + 1, high]
                  [] OTHER    -> mid
    IN  IF conds = <<>> THEN 0 ELSE search[0, Len(conds) - 1]

Ns_IndexAdd(list, el, conds) == InsertAt(list, BinSearch(conds) + 1, el)

\* The first pointer equal to el leaves the list.
Ns_IndexDel(list, el) ==
    IF Contains(list, el) THEN RemoveAt(list, SelectInSeq(list, LAMBDA e : e = el)) ELSE list

CmpInts(l, r) == IF l = r THEN 0 ELSE IF l < r THEN -1 ELSE 1
CompareInts(key, list) == [i \in DOMAIN list |-> CmpInts(key, list[i])]

\* Mutant: a key between two elements is answered with the right one.
FindInfNext(list, key) ==
    LET i == BinSearch(CompareInts(key, list))
    IN  IF i >= Len(list) THEN 0 ELSE list[i + 1]

\* The element with the key, else its neighbour to the left; 0 stands for NULL.
Ns_IndexFindInf(list, key) ==
    LET i == BinSearch(CompareInts(key, list))
    IN  IF i >= Len(list) THEN 0
        ELSE IF i > 0 /\ list[i + 1] # key THEN list[i] ELSE list[i + 1]

\* bsearch may hit any of the equal elements: hit is its position.
Ns_IndexFindMultiple(list, key, hit) ==
    LET first[i \in 1 .. Len(list)] == IF i > 1 /\ list[i - 1] = key THEN first[i - 1] ELSE i
        last[i \in 1 .. Len(list)] == IF i < Len(list) /\ list[i + 1] = key THEN last[i + 1] ELSE i
    IN  SubSeq(list, first[hit], last[first[hit]])
=============================================================================
