--------------------------- MODULE ThreadsProofs ----------------------------
(***************************************************************************)
(* What threads are built on keeps its promises for every number of        *)
(* threads.  The reader/writer lock: the counters rwlock.c decides by are  *)
(* the threads they stand for, a writer is alone, and no wake-up is lost.  *)
(* Critical sections and semaphores, thread-local storage, and the locks   *)
(* of Tcl scripts follow.                                                  *)
(***************************************************************************)
EXTENDS RWLock, Threads, FiniteSetTheorems, WellFoundedInduction, TLAPS

\* Most leaves are first-order; the ones that need arithmetic or sequences cite SMT.
USE Zenon

-----------------------------------------------------------------------------
(* The reader/writer lock.                                                  *)

\* The types of the lock, and that only a waiting thread has been woken.
RwTypeOK ==
    /\ rwState \in [RwThreads -> {"idle", "null", "rd", "wr", "reading", "writing"}]
    /\ rwWoken \subseteq RwAre("rd") \cup RwAre("wr")
    /\ rwMade \in Nat
    /\ lockcnt \in Int /\ lockcnt >= -1
    /\ nreaders \in Nat /\ nwriters \in Nat
    /\ rwTurn \in [RwThreads -> Nat]

\* The inductive invariant.
RwIInv == RwTypeOK /\ RwInv

\* The threads in a state are finitely many, and their number is a natural.
LEMMA RwAreFinite ==
    \A x : IsFiniteSet(RwAre(x)) /\ Cardinality(RwAre(x)) \in Nat
<1>1. ASSUME NEW x PROVE IsFiniteSet(RwAre(x))
  <2>1. RwAre(x) \subseteq RwThreads
    BY DEF RwAre
  <2> QED
    BY <2>1, FS_Subset, RwAssumption
<1> QED
  BY <1>1, FS_CardinalityType

\* The threads in a state but for t: one less when t is among them.
LEMMA OneLess ==
    ASSUME NEW t \in RwThreads, NEW x
    PROVE  /\ Cardinality(RwAre(x) \ {t}) \in Nat
           /\ Cardinality(RwAre(x) \ {t}) =
                  IF rwState[t] = x THEN Cardinality(RwAre(x)) - 1 ELSE Cardinality(RwAre(x))
<1>1. t \in RwAre(x) <=> rwState[t] = x
  BY DEF RwAre
<1>2. IsFiniteSet(RwAre(x))
  BY RwAreFinite
<1>3. Cardinality(RwAre(x) \ {t}) \in Nat
  BY <1>2, FS_Subset, FS_CardinalityType
<1>4. CASE rwState[t] = x
  BY <1>1, <1>2, <1>3, <1>4, FS_RemoveElement
<1>5. CASE rwState[t] # x
  <2>1. RwAre(x) \ {t} = RwAre(x)
    BY <1>1, <1>5
  <2> QED
    BY <2>1, <1>3, <1>5
<1> QED
  BY <1>4, <1>5

\* A number of threads is 0 just when there are none.
LEMMA RwNone ==
    \A x : Cardinality(RwAre(x)) = 0 <=> RwAre(x) = {}
BY RwAreFinite, FS_EmptySet

\* A thread that reads, or one that waits and is back under the mutex, tries to read.
LEMMA ReadKeeps ==
    ASSUME RwIInv, NEW t \in RwThreads,
           \/ Ns_RWLockRdLock(t)
           \/ RdWakes(t)
    PROVE  RwIInv'
<1> DEFINE r == IF rwState[t] = "rd" THEN nreaders - 1 ELSE nreaders
<1>1. /\ rwState[t] \in {"idle", "rd"} /\ TryRead(t, r)
      /\ rwWoken' = rwWoken \ {t} /\ rwTurn' \in [RwThreads -> Nat]
      /\ UNCHANGED <<rwMade, nwriters>>
  BY SMT DEF Ns_RWLockRdLock, RdWakes, Turn, Wakes, TryRead, RwIInv, RwTypeOK, RwAre
<1>2. RwTypeOK /\ RwExclusive /\ RwCounts /\ RwNoneForgotten /\ rwMade <= 1
  BY DEF RwIInv, RwInv
<1>3. \A x : Cardinality(RwAre(x)) \in Nat
  BY RwAreFinite
<1>4. r = Cardinality(RwAre("rd") \ {t}) /\ r \in Nat
  BY <1>2, OneLess DEF RwCounts
<1> HIDE DEF r
<1>5. CASE lockcnt < 0 \/ nwriters > 0
  <2>1. /\ nreaders' = r + 1 /\ rwState' = [rwState EXCEPT ![t] = "rd"] /\ lockcnt' = lockcnt
    BY <1>1, <1>5 DEF TryRead
  <2>2. /\ RwAre("rd")' = RwAre("rd") \cup {t} /\ RwAre("wr")' = RwAre("wr")
        /\ RwAre("reading")' = RwAre("reading") /\ RwAre("writing")' = RwAre("writing")
    BY <2>1, <1>1, <1>2 DEF RwAre, RwTypeOK
  <2>3. Cardinality(RwAre("rd")') = r + 1
    <3>1. RwAre("rd")' = (RwAre("rd") \ {t}) \cup {t}
      BY <2>2
    <3>2. IsFiniteSet(RwAre("rd") \ {t})
      BY RwAreFinite, FS_Subset
    <3> QED
      BY <3>1, <3>2, <1>4, FS_AddElement
  <2>4. RwTypeOK'
    BY <2>1, <2>2, <1>1, <1>2, <1>4, SMT DEF RwTypeOK
  <2>5. RwExclusive'
    BY <2>1, <2>2, <1>2 DEF RwExclusive
  <2>6. RwCounts'
    BY <2>1, <2>2, <2>3, <1>1, <1>2 DEF RwCounts
  <2>7. RwNoneForgotten'
    <3>1. nwriters > 0 => RwAre("wr") # {}
      BY RwNone, <1>2, <1>3, SMT DEF RwCounts
    <3>2. t \notin RwAre("wr")
      BY <1>1 DEF RwAre
    <3> QED
      BY <3>1, <3>2, <2>1, <2>2, <1>1, <1>2, <1>5 DEF RwNoneForgotten, RwTypeOK
  <2> QED
    BY <2>4, <2>5, <2>6, <2>7, <1>1, <1>2 DEF RwIInv, RwInv
<1>6. CASE lockcnt >= 0 /\ nwriters = 0
  <2>1. /\ nreaders' = r /\ rwState' = [rwState EXCEPT ![t] = "reading"] /\ lockcnt' = lockcnt + 1
    BY <1>1, <1>2, <1>6, SMT DEF TryRead, RwTypeOK
  <2>2. /\ RwAre("rd")' = RwAre("rd") \ {t} /\ RwAre("wr")' = RwAre("wr")
        /\ RwAre("reading")' = RwAre("reading") \cup {t} /\ RwAre("writing")' = RwAre("writing")
    BY <2>1, <1>1, <1>2 DEF RwAre, RwTypeOK
  <2>3. Cardinality(RwAre("reading")') = Cardinality(RwAre("reading")) + 1
    <3>1. t \notin RwAre("reading") /\ IsFiniteSet(RwAre("reading"))
      BY <1>1, RwAreFinite DEF RwAre
    <3> QED
      BY <2>2, <3>1, FS_AddElement
  <2>4. RwAre("wr") = {}
    BY <1>2, <1>6, RwNone DEF RwCounts
  <2>5. RwTypeOK'
    BY <2>1, <2>2, <1>1, <1>2, <1>4, SMT DEF RwTypeOK
  <2>6. RwExclusive'
    BY <2>1, <2>2, <2>3, <1>2, <1>3, <1>6, SMT DEF RwExclusive, RwTypeOK
  <2>7. RwCounts'
    BY <2>1, <2>2, <1>1, <1>2, <1>4 DEF RwCounts
  <2>8. RwNoneForgotten'
    BY <2>1, <2>2, <2>4, <1>1, <1>2, <1>6, SMT DEF RwNoneForgotten, RwTypeOK
  <2> QED
    BY <2>5, <2>6, <2>7, <2>8, <1>1, <1>2 DEF RwIInv, RwInv
<1> QED
  BY <1>2, <1>5, <1>6, SMT DEF RwTypeOK

\* A writer, new or back from its wait, tries to write.
LEMMA WriteKeeps ==
    ASSUME RwIInv, NEW t \in RwThreads,
           \/ Ns_RWLockWrLock(t)
           \/ WrWakes(t)
    PROVE  RwIInv'
<1> DEFINE w == IF rwState[t] = "wr" THEN nwriters - 1 ELSE nwriters
<1>1. /\ rwState[t] \in {"idle", "wr"} /\ TryWrite(t, w)
      /\ rwWoken' = rwWoken \ {t} /\ rwTurn' \in [RwThreads -> Nat]
      /\ UNCHANGED <<rwMade, nreaders>>
  BY SMT DEF Ns_RWLockWrLock, WrWakes, Turn, Wakes, TryWrite, RwIInv, RwTypeOK, RwAre
<1>2. RwTypeOK /\ RwExclusive /\ RwCounts /\ RwNoneForgotten /\ rwMade <= 1
  BY DEF RwIInv, RwInv
<1>3. \A x : Cardinality(RwAre(x)) \in Nat
  BY RwAreFinite
<1>4. w = Cardinality(RwAre("wr") \ {t}) /\ w \in Nat
  BY <1>2, OneLess DEF RwCounts
<1> HIDE DEF w
<1>5. CASE lockcnt # 0
  <2>1. nwriters' = w + 1 /\ rwState' = [rwState EXCEPT ![t] = "wr"] /\ lockcnt' = lockcnt
    BY <1>1, <1>5 DEF TryWrite
  <2>2. /\ RwAre("wr")' = RwAre("wr") \cup {t} /\ RwAre("rd")' = RwAre("rd")
        /\ RwAre("reading")' = RwAre("reading") /\ RwAre("writing")' = RwAre("writing")
    BY <2>1, <1>1, <1>2 DEF RwAre, RwTypeOK
  <2>3. Cardinality(RwAre("wr")') = w + 1
    <3>1. RwAre("wr")' = (RwAre("wr") \ {t}) \cup {t}
      BY <2>2
    <3>2. IsFiniteSet(RwAre("wr") \ {t})
      BY RwAreFinite, FS_Subset
    <3> QED
      BY <3>1, <3>2, <1>4, FS_AddElement
  <2>4. RwTypeOK'
    BY <2>1, <2>2, <1>1, <1>2, <1>4, SMT DEF RwTypeOK
  <2>5. RwExclusive'
    BY <2>1, <2>2, <1>2 DEF RwExclusive
  <2>6. RwCounts'
    BY <2>1, <2>2, <2>3, <1>1, <1>2 DEF RwCounts
  <2>7. RwNoneForgotten'
    BY <2>1, <2>2, <1>5 DEF RwNoneForgotten
  <2> QED
    BY <2>4, <2>5, <2>6, <2>7, <1>1, <1>2 DEF RwIInv, RwInv
<1>6. CASE lockcnt = 0
  <2>1. nwriters' = w /\ rwState' = [rwState EXCEPT ![t] = "writing"] /\ lockcnt' = -1
    BY <1>1, <1>6 DEF TryWrite
  <2>2. /\ RwAre("wr")' = RwAre("wr") \ {t} /\ RwAre("rd")' = RwAre("rd")
        /\ RwAre("reading")' = RwAre("reading") /\ RwAre("writing")' = RwAre("writing") \cup {t}
    BY <2>1, <1>1, <1>2 DEF RwAre, RwTypeOK
  <2>3. RwAre("reading") = {} /\ RwAre("writing") = {}
    BY <1>2, <1>6, RwNone, SMT DEF RwExclusive
  <2>4. RwTypeOK'
    BY <2>1, <2>2, <1>1, <1>2, <1>4, SMT DEF RwTypeOK
  <2>5. RwExclusive'
    BY <2>1, <2>2, <2>3 DEF RwExclusive
  <2>6. RwCounts'
    BY <2>1, <2>2, <1>1, <1>2, <1>4 DEF RwCounts
  <2>7. RwNoneForgotten'
    BY <2>1, SMT DEF RwNoneForgotten
  <2> QED
    BY <2>4, <2>5, <2>6, <2>7, <1>1, <1>2 DEF RwIInv, RwInv
<1> QED
  BY <1>5, <1>6

\* Ns_RWLockUnlock: a holder leaves, and wakes whoever has to go on.
LEMMA UnlockKeeps ==
    ASSUME RwIInv, NEW t \in RwThreads, Ns_RWLockUnlock(t)
    PROVE  RwIInv'
<1>1. /\ rwState[t] \in {"reading", "writing"}
      /\ rwState' = [rwState EXCEPT ![t] = "idle"]
      /\ lockcnt' = IF lockcnt - 1 < 0 THEN 0 ELSE lockcnt - 1
      /\ UNCHANGED <<rwMade, nreaders, nwriters, rwTurn>>
  BY DEF Ns_RWLockUnlock
<1>2. RwTypeOK /\ RwExclusive /\ RwCounts /\ RwNoneForgotten /\ rwMade <= 1
  BY DEF RwIInv, RwInv
<1>3. \A x : Cardinality(RwAre(x)) \in Nat
  BY RwAreFinite
<1>4. /\ RwAre("wr")' = RwAre("wr") /\ RwAre("rd")' = RwAre("rd")
      /\ RwAre("reading")' = RwAre("reading") \ {t} /\ RwAre("writing")' = RwAre("writing") \ {t}
  BY <1>1, <1>2 DEF RwAre, RwTypeOK
<1>5. /\ rwWoken \subseteq rwWoken' /\ rwWoken' \subseteq RwAre("rd") \cup RwAre("wr")
      /\ RwAre("wr") # {} => RwAre("wr") \cap rwWoken' # {}
      /\ RwAre("wr") = {} => RwAre("rd") \subseteq rwWoken'
  <2>1. CASE nwriters # 0
    <3>1. RwAre("wr") # {} /\ RwSignal
      BY <2>1, <1>2, RwNone DEF RwCounts, Ns_RWLockUnlock
    <3> QED
      BY <3>1, <1>2 DEF RwSignal, RwTypeOK
  <2>2. CASE nwriters = 0
    <3>1. RwAre("wr") = {} /\ (nreaders = 0 => RwAre("rd") = {})
      BY <2>2, <1>2, RwNone DEF RwCounts
    <3>2. CASE nreaders # 0
      BY <2>2, <3>1, <3>2, <1>2 DEF Ns_RWLockUnlock, RwTypeOK
    <3>3. CASE nreaders = 0
      BY <2>2, <3>1, <3>3, <1>2 DEF Ns_RWLockUnlock, RwTypeOK
    <3> QED
      BY <3>2, <3>3
  <2> QED
    BY <2>1, <2>2
<1>6. RwTypeOK'
  BY <1>1, <1>2, <1>4, <1>5, SMT DEF RwTypeOK
<1>7. RwExclusive'
  <2>1. CASE lockcnt = -1
    <3>1. RwAre("writing")' = {} /\ RwAre("reading")' = {}
      BY <2>1, <1>1, <1>2, <1>4, SMT DEF RwExclusive, RwAre
    <3>2. lockcnt' = 0
      BY <2>1, <1>1, SMT
    <3>3. Cardinality(RwAre("reading")') = 0
      BY <3>1, FS_EmptySet
    <3> QED
      BY <3>1, <3>2, <3>3, SMT DEF RwExclusive
  <2>2. CASE lockcnt # -1
    <3>1. RwAre("writing") = {} /\ t \in RwAre("reading") /\ lockcnt = Cardinality(RwAre("reading"))
      BY <2>2, <1>1, <1>2 DEF RwExclusive, RwAre
    <3>2. Cardinality(RwAre("reading") \ {t}) = lockcnt - 1
      BY <3>1, RwAreFinite, FS_RemoveElement
    <3>3. Cardinality(RwAre("reading") \ {t}) \in Nat
      BY RwAreFinite, FS_Subset, FS_CardinalityType
    <3>4. lockcnt' = lockcnt - 1 /\ lockcnt' # -1
      BY <3>2, <3>3, <1>1, <1>2, SMT DEF RwTypeOK
    <3> QED
      BY <3>1, <3>2, <3>4, <1>4 DEF RwExclusive
  <2> QED
    BY <2>1, <2>2
<1>8. RwCounts'
  BY <1>1, <1>2, <1>4 DEF RwCounts
<1>9. RwNoneForgotten'
  BY <1>4, <1>5 DEF RwNoneForgotten
<1> QED
  BY <1>1, <1>2, <1>6, <1>7, <1>8, <1>9 DEF RwIInv, RwInv

\* Seeing or making the lock structure, and a spurious wake-up, change no count.
LEMMA OtherRwKeeps ==
    ASSUME RwIInv, NEW t \in RwThreads, SeesNoLock(t) \/ MakesLock(t) \/ SpuriousWake(t)
    PROVE  RwIInv'
<1>1. RwTypeOK /\ RwExclusive /\ RwCounts /\ RwNoneForgotten /\ rwMade <= 1
  BY DEF RwIInv, RwInv
<1>2. /\ UNCHANGED <<lockcnt, nreaders, nwriters, rwTurn>>
      /\ rwState' \in [RwThreads -> {"idle", "null", "rd", "wr", "reading", "writing"}]
      /\ rwMade' \in {0, 1}
      /\ rwWoken \subseteq rwWoken' /\ rwWoken' \subseteq RwAre("rd") \cup RwAre("wr")
  BY <1>1, SMT DEF SeesNoLock, MakesLock, SpuriousWake, RwTypeOK
<1>3. /\ RwAre("wr")' = RwAre("wr") /\ RwAre("rd")' = RwAre("rd")
      /\ RwAre("reading")' = RwAre("reading") /\ RwAre("writing")' = RwAre("writing")
  BY <1>1 DEF SeesNoLock, MakesLock, SpuriousWake, RwAre, RwTypeOK
<1>4. RwTypeOK'
  BY <1>1, <1>2, <1>3, SMT DEF RwTypeOK
<1>5. RwExclusive' /\ RwCounts'
  BY <1>1, <1>2, <1>3 DEF RwExclusive, RwCounts
<1>6. RwNoneForgotten'
  BY <1>1, <1>2, <1>3 DEF RwNoneForgotten
<1> QED
  BY <1>2, <1>4, <1>5, <1>6, SMT DEF RwIInv, RwInv

\* Exclusion, exact counters, no lost wake-up and one allocation, for every
\* number of threads that lock, wait, are woken and unlock (rwlock.c).
THEOREM RwLockKept == RwSpec => []RwInv
<1>1. RwInit => RwIInv
  <2> SUFFICES ASSUME RwInit PROVE RwIInv
    OBVIOUS
  <2>1. \A x \in {"rd", "wr", "reading", "writing"} : RwAre(x) = {} /\ Cardinality(RwAre(x)) = 0
    BY RwNone DEF RwInit, RwAre
  <2>2. RwTypeOK
    BY SMT DEF RwInit, RwTypeOK
  <2> QED
    BY <2>1, <2>2, SMT DEF RwInit, RwIInv, RwInv, RwExclusive, RwCounts, RwNoneForgotten
<1>2. RwIInv /\ [RwNext]_rwVars => RwIInv'
  <2>1. ASSUME RwIInv, RwNext PROVE RwIInv'
    BY <2>1, ReadKeeps, WriteKeeps, UnlockKeeps, OtherRwKeeps DEF RwNext, RwStep
  <2>2. ASSUME RwIInv, UNCHANGED rwVars PROVE RwIInv'
    BY <2>2 DEF rwVars, RwIInv, RwInv, RwTypeOK, RwExclusive, RwCounts, RwNoneForgotten, RwAre
  <2> QED
    BY <2>1, <2>2
<1>3. RwIInv => RwInv
  BY DEF RwIInv
<1> QED
  BY <1>1, <1>2, <1>3, PTL DEF RwSpec

-----------------------------------------------------------------------------
(* Critical sections and semaphores.                                        *)

\* The inductive invariant of the critical section: the owner is the one
\* thread inside, and only it has entries to leave.
CsIInv ==
    /\ csState \in [CsThreads -> {"out", "wait", "woken", "in"}]
    /\ csNest \in [CsThreads -> Nat] /\ csCount \in Nat
    /\ \A t \in CsThreads : csState[t] = "in" => csCount > 0
    /\ csCount > 0 => \E t \in CsThreads : csState[t] = "in"
    /\ \A t \in CsThreads : csState[t] # "in" => csNest[t] = 0
    /\ CsInv

\* Taking the section, at once or after a wake-up, keeps it.
LEMMA CsTakeKeeps ==
    ASSUME CsIInv, NEW t \in CsThreads, CsTake(t)
    PROVE  CsIInv'
<1>1. CASE csCount > 0 /\ csTid # t
  BY <1>1, SMT DEF CsIInv, CsInv, CsTake
<1>2. CASE ~(csCount > 0 /\ csTid # t)
  <2>1. csTid' = t /\ csCount' = csCount + 1 /\ csState' = [csState EXCEPT ![t] = "in"]
        /\ csNest' = [csNest EXCEPT ![t] = @ + 1]
    BY <1>2 DEF CsTake
  <2>2. \A u \in CsThreads : u # t => csState[u] # "in"
    BY <1>2, SMT DEF CsIInv, CsInv
  <2>3. csNest[t] = csCount
    BY <1>2, SMT DEF CsIInv, CsInv
  <2> QED
    BY <2>1, <2>2, <2>3, SMT DEF CsIInv, CsInv
<1> QED
  BY <1>1, <1>2

\* Leaving it wakes a waiting thread when the section is empty.
LEMMA CsLeaveKeeps ==
    ASSUME CsIInv, NEW t \in CsThreads, Ns_CsLeave(t)
    PROVE  CsIInv'
<1> DEFINE left == IF csNest[t] = 1 THEN [csState EXCEPT ![t] = "out"] ELSE csState
           sleeping == {u \in CsThreads : csState[u] = "wait"}
<1>1. /\ csState[t] = "in" /\ csTid = t /\ csCount = csNest[t] /\ csCount > 0 /\ csCount \in Nat
      /\ csCount' = csCount - 1 /\ csNest' = [csNest EXCEPT ![t] = @ - 1] /\ csTid' = csTid
      /\ \A u \in CsThreads : u # t => csState[u] # "in"
  BY SMT DEF Ns_CsLeave, CsIInv, CsInv
<1>2. CASE csCount = 1 /\ sleeping # {}
  <2>1. PICK u \in sleeping : csState' = [left EXCEPT ![u] = "woken"]
    BY <1>2 DEF Ns_CsLeave
  <2>2. /\ u # t /\ u \in CsThreads
        /\ csState' \in [CsThreads -> {"out", "wait", "woken", "in"}]
        /\ \A v \in CsThreads : csState'[v] # "in"
        /\ csState'[u] = "woken"
    BY <2>1, <1>1, <1>2, SMT DEF CsIInv
  <2>3. csCount' = 0 /\ csNest' \in [CsThreads -> Nat] /\ \A v \in CsThreads : csNest'[v] = 0
    BY <1>1, <1>2, SMT DEF CsIInv
  <2> QED
    BY <2>2, <2>3, SMT DEF CsIInv, CsInv
<1>3. CASE ~(csCount = 1 /\ sleeping # {})
  <2>1. csState' = left
    BY <1>3 DEF Ns_CsLeave
  <2>2. CASE csCount = 1
    BY <2>1, <2>2, <1>1, <1>3, SMT DEF CsIInv, CsInv
  <2>3. CASE csCount # 1
    BY <2>1, <2>3, <1>1, <1>3, SMT DEF CsIInv, CsInv
  <2> QED
    BY <2>2, <2>3
<1> QED
  BY <1>2, <1>3

\* The threads in a state of the semaphore.
SemaAre(s) == {t \in SemaWaiters : semaState[t] = s}

\* They are finitely many.
LEMMA SemaFinite == \A x : IsFiniteSet(SemaAre(x)) /\ Cardinality(SemaAre(x)) \in Nat
<1>1. ASSUME NEW x PROVE IsFiniteSet(SemaAre(x))
  <2>1. SemaAre(x) \subseteq SemaWaiters
    BY DEF SemaAre
  <2> QED
    BY <2>1, FS_Subset, SemaAssumption
<1> QED
  BY <1>1, FS_CardinalityType

\* The invariant of the semaphore with its types.
SemaIInv ==
    /\ semaState \in [SemaWaiters -> {"new", "wait", "woken", "passed"}]
    /\ semaCount \in Nat /\ semaNext \in Nat \ {0}
    /\ SemaAre("wait") # {} => Cardinality(SemaAre("woken")) >= semaCount

\* It implies that no thread sleeps on while something is left for it.
LEMMA SemaIInvImplies == SemaIInv => SemaInv
<1> SUFFICES ASSUME SemaIInv PROVE SemaInv
  OBVIOUS
<1>1. Cardinality(SemaAre("wait")) > 0 => SemaAre("wait") # {}
  <2>1. Cardinality({}) = 0
    BY FS_EmptySet
  <2> QED
    BY <2>1, SMT
<1>2. Cardinality(SemaAre("wait")) > 0 => Cardinality(SemaAre("woken")) >= semaCount
  BY <1>1 DEF SemaIInv
<1> QED
  BY <1>2 DEF SemaInv, SemaAre

\* A thread that tries uses up one of the count, or sleeps when there is none.
LEMMA SemaTryKeeps ==
    ASSUME SemaIInv, NEW t \in SemaWaiters, Ns_SemaWait(t) \/ SemaWakes(t)
    PROVE  SemaIInv'
<1>1. semaState[t] \in {"new", "woken"} /\ SemaTry(t)
  BY DEF Ns_SemaWait, SemaWakes
<1>2. CASE semaCount = 0
  <2>1. semaCount' = 0 /\ semaState' \in [SemaWaiters -> {"new", "wait", "woken", "passed"}] /\ semaNext' = semaNext
    BY <1>1, <1>2 DEF SemaTry, SemaIInv
  <2>2. Cardinality(SemaAre("woken")') \in Nat
    <3>1. SemaAre("woken")' \subseteq SemaWaiters
      BY DEF SemaAre
    <3> QED
      BY <3>1, FS_Subset, FS_CardinalityType, SemaAssumption
  <2>3. Cardinality(SemaAre("woken")') >= semaCount'
    BY <2>1, <2>2, SMT
  <2> QED
    BY <2>1, <2>3, SMT DEF SemaIInv
<1>3. CASE semaCount # 0
  <2>1. /\ semaCount' = semaCount - 1 /\ semaState' = [semaState EXCEPT ![t] = "passed"] /\ semaNext' = semaNext
        /\ semaState' \in [SemaWaiters -> {"new", "wait", "woken", "passed"}]
    BY <1>1, <1>3 DEF SemaTry, SemaIInv
  <2>2. SemaAre("wait")' = SemaAre("wait") /\ SemaAre("woken")' = SemaAre("woken") \ {t}
    BY <2>1, <1>1 DEF SemaAre, SemaIInv
  <2>3. Cardinality(SemaAre("woken") \ {t}) >= Cardinality(SemaAre("woken")) - 1
    <3>1. /\ IsFiniteSet(SemaAre("woken")) /\ Cardinality(SemaAre("woken")) \in Nat
      BY SemaFinite
    <3>2. Cardinality(SemaAre("woken") \ {t}) =
            IF t \in SemaAre("woken") THEN Cardinality(SemaAre("woken")) - 1 ELSE Cardinality(SemaAre("woken"))
      BY <3>1, FS_RemoveElement
    <3> QED
      BY <3>1, <3>2, SMT
  <2>4. Cardinality(SemaAre("woken")) \in Nat /\ Cardinality(SemaAre("woken") \ {t}) \in Nat
    <3>1. IsFiniteSet(SemaAre("woken") \ {t})
      BY SemaFinite, FS_Difference
    <3> QED
      BY <3>1, SemaFinite, FS_CardinalityType
  <2>5. SemaAre("wait")' # {} => Cardinality(SemaAre("woken")') >= semaCount'
    <3> SUFFICES ASSUME SemaAre("wait")' # {} PROVE Cardinality(SemaAre("woken")') >= semaCount'
      OBVIOUS
    <3>1. Cardinality(SemaAre("woken")) >= semaCount
      BY <2>2 DEF SemaIInv
    <3>2. Cardinality(SemaAre("woken")') = Cardinality(SemaAre("woken") \ {t})
      BY <2>2
    <3>3. semaCount \in Nat /\ semaCount' = semaCount - 1
      BY <2>1 DEF SemaIInv
    <3> QED
      BY <3>1, <3>2, <3>3, <2>3, <2>4, SMT
  <2>6. semaCount' \in Nat
    BY <2>1, <1>3, SMT DEF SemaIInv
  <2> QED
    BY <2>1, <2>5, <2>6 DEF SemaIInv
<1> QED
  BY <1>2, <1>3

\* A post of one wakes one sleeper, any other post wakes them all.
LEMMA SemaPostKeeps ==
    ASSUME SemaIInv, Ns_SemaPost
    PROVE  SemaIInv'
<1> DEFINE sleeping == {t \in SemaWaiters : semaState[t] = "wait"}
           n == SemaPosts[semaNext]
<1>1. semaNext \in 1 .. Len(SemaPosts) /\ n \in Nat
  <2>1. semaNext \in 1 .. Len(SemaPosts)
    BY SemaAssumption, SMT DEF Ns_SemaPost, SemaIInv
  <2> QED
    BY <2>1, SemaAssumption, SMT
<1>2. semaCount' = semaCount + n /\ semaNext' = semaNext + 1
  BY DEF Ns_SemaPost
<1>3. semaCount' \in Nat /\ semaNext' \in Nat \ {0}
  BY <1>1, <1>2, SMT DEF SemaIInv
<1>4. CASE n = 1 /\ sleeping # {}
  <2>1. PICK t \in sleeping : semaState' = [semaState EXCEPT ![t] = "woken"]
    BY <1>4 DEF Ns_SemaPost
  <2>2. SemaAre("woken")' = SemaAre("woken") \cup {t} /\ t \notin SemaAre("woken") /\ t \in SemaAre("wait")
    BY <2>1 DEF SemaAre, SemaIInv
  <2>3. Cardinality(SemaAre("woken")') = Cardinality(SemaAre("woken")) + 1
    BY <2>2, SemaFinite, FS_AddElement
  <2>4. Cardinality(SemaAre("woken")') >= semaCount'
    <3>1. Cardinality(SemaAre("woken")) >= semaCount
      BY <2>2 DEF SemaIInv
    <3>2. Cardinality(SemaAre("woken")) \in Nat
      BY SemaFinite
    <3> QED
      BY <3>1, <3>2, <2>3, <1>2, <1>4, SMT DEF SemaIInv
  <2>5. semaState' \in [SemaWaiters -> {"new", "wait", "woken", "passed"}]
    BY <2>1 DEF SemaIInv
  <2> QED
    BY <1>3, <2>4, <2>5 DEF SemaIInv
<1>5. CASE ~(n = 1 /\ sleeping # {})
  <2>1. semaState' = [t \in SemaWaiters |-> IF t \in sleeping THEN "woken" ELSE semaState[t]]
    BY <1>5 DEF Ns_SemaPost
  <2>2. semaState' \in [SemaWaiters -> {"new", "wait", "woken", "passed"}]
    BY <2>1 DEF SemaIInv
  <2>3. SemaAre("wait")' = {}
    BY <2>1 DEF SemaAre
  <2> QED
    BY <1>3, <2>2, <2>3 DEF SemaIInv
<1> QED
  BY <1>4, <1>5

\* The inductive invariant of both locks.
CritIInv == CsIInv /\ SemaIInv

\* It holds at the start, and every step of either lock keeps it (cslock.c, sema.c).
LEMMA CritStart == CritInit => CritIInv
<1> SUFFICES ASSUME CritInit PROVE CritIInv
  OBVIOUS
<1>1. CsIInv
  BY SMT DEF CritInit, CsIInv, CsInv
<1>2. SemaAre("wait") = {}
  BY DEF CritInit, SemaAre
<1>3. SemaIInv
  BY <1>2, SMT DEF CritInit, SemaIInv
<1> QED
  BY <1>1, <1>3 DEF CritIInv

\* Every step of either lock keeps both.
LEMMA CritStep == CritIInv /\ CritNext => CritIInv'
<1> SUFFICES ASSUME CritIInv, CritNext PROVE CritIInv'
  OBVIOUS
<1>1. CsIInv /\ SemaIInv
  BY DEF CritIInv
<1>2. ASSUME NEW t \in CsThreads, Ns_CsEnter(t) \/ CsStep(t) PROVE CritIInv'
  <2>1. CsTake(t) \/ Ns_CsLeave(t)
    BY <1>2 DEF Ns_CsEnter, CsStep, CsWakes
  <2>2. CsIInv'
    BY <1>1, <2>1, CsTakeKeeps, CsLeaveKeeps
  <2>3. UNCHANGED semaVars
    BY <1>2 DEF Ns_CsEnter, CsStep, CsWakes, Ns_CsLeave
  <2>4. SemaIInv'
    BY <1>1, <2>3 DEF semaVars, SemaIInv, SemaAre
  <2> QED
    BY <2>2, <2>4 DEF CritIInv
<1>3. CASE UNCHANGED csVars /\ SemaIInv'
  <2>1. CsIInv'
    BY <1>1, <1>3 DEF csVars, CsIInv, CsInv
  <2> QED
    BY <1>3, <2>1 DEF CritIInv
<1>4. ASSUME NEW t \in SemaWaiters, Ns_SemaWait(t) \/ SemaWakes(t) PROVE CritIInv'
  BY <1>1, <1>3, <1>4, SemaTryKeeps DEF Ns_SemaWait, SemaWakes, SemaTry
<1>5. CASE Ns_SemaPost
  BY <1>1, <1>3, <1>5, SemaPostKeeps DEF Ns_SemaPost
<1> QED
  BY <1>2, <1>4, <1>5 DEF CritNext

-----------------------------------------------------------------------------
(* Threads and thread-local storage.                                        *)

\* The keys are 1 .. MaxKey, and the passes that set slots again end in time.
LEMMA KeyFacts ==
    /\ TlsKeys = 1 .. MaxKey /\ MaxKey \in Nat /\ 1 \in TlsKeys /\ 1 \in 1 .. MaxKey
    /\ TlsTrys \in Nat /\ ResetPasses \in Nat /\ ResetPasses <= TlsTrys
<1>1. /\ TlsKeys = 1 .. MaxKey /\ MaxKey \in Nat \ {0}
      /\ TlsTrys \in Nat /\ ResetPasses \in Nat /\ ResetPasses <= TlsTrys
  BY TlsAssumption DEF MaxKey
<1> QED
  BY <1>1, SMT

\* Does thread t have a structure on the list?
HasStructure(t) == 1 \in tlsSlots[t] \/ osState[t] = "created"

\* The list holds the last structure of every thread that has one.
ListExact == thrList = {<<t, thrNumber[t]>> : t \in {u \in LibThreads : HasStructure(u)}}

\* The list stays exact when nobody's structure comes or goes, ...
LEMMA ListSame ==
    ASSUME ListExact, UNCHANGED <<thrList, thrNumber>>,
           \A u \in LibThreads : HasStructure(u)' <=> HasStructure(u)
    PROVE  ListExact'
<1>1. {u \in LibThreads : HasStructure(u)}' = {u \in LibThreads : HasStructure(u)}
  OBVIOUS
<1> QED
  BY <1>1 DEF ListExact

\* ... when a thread without one gets its next, ...
LEMMA ListAdds ==
    ASSUME ListExact, thrNumber \in [LibThreads -> Nat], NEW t \in LibThreads, NewThread(t), ~HasStructure(t),
           \A u \in LibThreads : HasStructure(u)' <=> (HasStructure(u) \/ u = t)
    PROVE  ListExact'
<1>1. \A u \in LibThreads : thrNumber'[u] = IF u = t THEN thrNumber[t] + 1 ELSE thrNumber[u]
  BY DEF NewThread
<1>2. thrList' = thrList \cup {<<t, thrNumber'[t]>>}
  BY <1>1 DEF NewThread
<1>3. ASSUME NEW x PROVE x \in thrList' <=> \E u \in LibThreads : HasStructure(u)' /\ x = <<u, thrNumber'[u]>>
  <2>1. x \in thrList <=> \E u \in LibThreads : HasStructure(u) /\ x = <<u, thrNumber[u]>>
    BY DEF ListExact
  <2> QED
    BY <1>1, <1>2, <2>1
<1> QED
  BY <1>3 DEF ListExact

\* ... and when CleanupThread takes one off.
LEMMA ListRemoves ==
    ASSUME ListExact, NEW t \in LibThreads, thrList' = thrList \ {<<t, thrNumber[t]>>}, UNCHANGED thrNumber,
           \A u \in LibThreads : HasStructure(u)' <=> (HasStructure(u) /\ u # t)
    PROVE  ListExact'
<1>3. ASSUME NEW x PROVE x \in thrList' <=> \E u \in LibThreads : HasStructure(u)' /\ x = <<u, thrNumber'[u]>>
  <2>1. x \in thrList <=> \E u \in LibThreads : HasStructure(u) /\ x = <<u, thrNumber[u]>>
    BY DEF ListExact
  <2>2. x # <<t, thrNumber[t]>> => (x \in thrList' <=> x \in thrList)
    OBVIOUS
  <2>3. \A u \in LibThreads : u # t => <<u, thrNumber[u]>> # <<t, thrNumber[t]>>
    BY SMT
  <2> QED
    BY <2>1, <2>2, <2>3
<1> QED
  BY <1>3 DEF ListExact

\* The cleanup of an ending thread has emptied the slots it is past, or
\* something was set again in a pass after which there is another; only ending
\* threads are flagged; nothing is set before a thread starts.
LibRest ==
    /\ osState \in [LibThreads -> {"none", "created", "running", "ending", "gone"}]
    /\ thrNumber \in [LibThreads -> Nat]
    /\ tlsSlots \in [LibThreads -> SUBSET TlsKeys]
    /\ clPass \in [LibThreads -> Nat] /\ clKey \in [LibThreads -> 0 .. MaxKey]
    /\ clRetry \in [LibThreads -> BOOLEAN]
    /\ \A t \in LibThreads : osState[t] \in {"none", "created", "gone"} => tlsSlots[t] = {}
    /\ \A t \in LibThreads : osState[t] = "ending" =>
          tlsSlots[t] \subseteq 1 .. clKey[t] \/ (clRetry[t] /\ clPass[t] <= ResetPasses)
    /\ \A t \in LibThreads : \A n : <<t, n>> \in exitedFlag => osState[t] \in {"ending", "gone"}

\* The inductive invariant.
LibIInv == LibRest /\ ListExact

\* It implies that the list is exact and gone threads left nothing behind.
LEMMA LibIInvImplies == LibIInv => ThreadLibInv
<1> SUFFICES ASSUME LibIInv PROVE ThreadLibInv
  OBVIOUS
<1>1. TlsAllCleaned
  BY DEF LibIInv, LibRest, TlsAllCleaned
<1>2. ASSUME NEW t \in LibThreads, osState[t] = "running", 1 \in tlsSlots[t]
      PROVE  <<t, thrNumber[t]>> \in Ns_ThreadList
  <2>1. <<t, thrNumber[t]>> \in thrList
    BY <1>2 DEF LibIInv, LibRest, ListExact, HasStructure
  <2>2. <<t, thrNumber[t]>> \notin exitedFlag
    BY <1>2 DEF LibIInv, LibRest, ListExact, HasStructure
  <2> QED
    BY <2>1, <2>2 DEF Ns_ThreadList
<1> QED
  BY <1>1, <1>2 DEF ThreadLibInv, ThreadListExact, LibIInv, ListExact, HasStructure

\* GetThread makes the missing structure, ...
LEMMA LibGets ==
    ASSUME LibRest, ListExact, NEW t \in LibThreads, GetThread(t)
    PROVE  LibRest' /\ ListExact'
<1>1. LibRest'
  BY KeyFacts, SMTT(30) DEF LibRest, GetThread, NewThread, NeedsThread
<1>2. ~HasStructure(t) /\ \A u \in LibThreads : HasStructure(u)' <=> (HasStructure(u) \/ u = t)
  BY DEF GetThread, NeedsThread, HasStructure, LibRest
<1> QED
  BY <1>1, <1>2, ListAdds DEF GetThread, LibRest

\* ... Ns_ThreadCreate that of the new thread, ...
LEMMA LibCreates ==
    ASSUME LibRest, ListExact, NEW t \in LibThreads, NEW p \in LibThreads, Ns_ThreadCreate(p, t)
    PROVE  LibRest' /\ ListExact'
<1>1. LibRest'
  BY KeyFacts, SMTT(30) DEF LibRest, Ns_ThreadCreate, NewThread
<1>2. ~HasStructure(t) /\ \A u \in LibThreads : HasStructure(u)' <=> (HasStructure(u) \/ u = t)
  BY DEF Ns_ThreadCreate, HasStructure, LibRest
<1> QED
  BY <1>1, <1>2, ListAdds DEF Ns_ThreadCreate, LibRest

\* ... which the thread finds when it starts; values are set, and the thread ends.
LEMMA LibStartsSets ==
    ASSUME LibRest, ListExact, NEW t \in LibThreads,
           NsThreadMain(t) \/ (\E k \in TlsKeys : Ns_TlsSet(t, k)) \/ (\E flag \in BOOLEAN : Ns_ThreadExit(t, flag))
    PROVE  LibRest' /\ ListExact'
<1>1. CASE NsThreadMain(t)
  <2>1. LibRest'
    BY <1>1, KeyFacts, SMT DEF LibRest, NsThreadMain
  <2>2. \A u \in LibThreads : HasStructure(u)' <=> HasStructure(u)
    BY <1>1 DEF NsThreadMain, HasStructure, LibRest
  <2> QED
    BY <1>1, <2>1, <2>2, ListSame DEF NsThreadMain
<1>2. ASSUME NEW k \in TlsKeys, Ns_TlsSet(t, k) PROVE LibRest' /\ ListExact'
  <2>1. LibRest'
    BY <1>2, KeyFacts, SMT DEF LibRest, Ns_TlsSet
  <2>2. \A u \in LibThreads : HasStructure(u)' <=> HasStructure(u)
    BY <1>2 DEF Ns_TlsSet, HasStructure, LibRest
  <2> QED
    BY <1>2, <2>1, <2>2, ListSame DEF Ns_TlsSet
<1>3. ASSUME NEW flag \in BOOLEAN, Ns_ThreadExit(t, flag) PROVE LibRest' /\ ListExact'
  <2>1. \A u \in LibThreads : HasStructure(u)' <=> HasStructure(u)
    BY <1>3 DEF Ns_ThreadExit, HasStructure, LibRest
  <2>2. \A u \in LibThreads : \A n : <<u, n>> \in exitedFlag' => osState'[u] \in {"ending", "gone"}
    BY <1>3 DEF Ns_ThreadExit, LibRest
  <2>3. /\ osState' = [osState EXCEPT ![t] = "ending"] /\ clPass' = [clPass EXCEPT ![t] = 1]
        /\ clKey' = [clKey EXCEPT ![t] = MaxKey] /\ clRetry' = [clRetry EXCEPT ![t] = FALSE]
        /\ UNCHANGED <<thrNumber, tlsSlots>>
    BY <1>3 DEF Ns_ThreadExit
  <2>4. LibRest'
    BY <2>2, <2>3, KeyFacts, SMT DEF LibRest
  <2> QED
    BY <1>3, <2>1, <2>4, ListSame DEF Ns_ThreadExit
<1> QED
  BY <1>1, <1>2, <1>3

\* NsCleanupTls empties a slot, whose procedure may set others again, ...
LEMMA LibCleans ==
    ASSUME LibRest, ListExact, NEW t \in LibThreads, CleanupKey(t)
    PROVE  LibRest' /\ ListExact'
<1> DEFINE k == clKey[t]
<1>1. /\ osState[t] = "ending" /\ k \in tlsSlots[t] /\ k \in 1 .. MaxKey
      /\ clKey' = [clKey EXCEPT ![t] = k - 1] /\ clRetry' = [clRetry EXCEPT ![t] = TRUE]
      /\ UNCHANGED <<osState, clPass, exitedFlag>>
  BY KeyFacts DEF CleanupKey, LibRest
<1>2. clKey' \in [LibThreads -> 0 .. MaxKey] /\ clRetry' \in [LibThreads -> BOOLEAN]
  BY <1>1, KeyFacts, SMT DEF LibRest
<1>3. CASE k = 1
  <2>1. /\ thrList' = thrList \ {<<t, thrNumber[t]>>} /\ tlsSlots' = [tlsSlots EXCEPT ![t] = @ \ {1}]
        /\ UNCHANGED thrNumber
    BY <1>3 DEF CleanupKey
  <2>2. \A u \in LibThreads : HasStructure(u)' <=> (HasStructure(u) /\ u # t)
    BY <1>1, <2>1 DEF HasStructure, LibRest
  <2>3. LibRest'
    BY <1>1, <1>2, <1>3, <2>1, KeyFacts, SMT DEF LibRest
  <2> QED
    BY <2>1, <2>2, <2>3, ListRemoves
<1>4. CASE k # 1
  <2>1. PICK set \in Resets(t) :
          /\ tlsSlots' = [tlsSlots EXCEPT ![t] = (@ \ {k}) \cup set]
          /\ IF 1 \in set /\ NeedsThread(t) THEN NewThread(t) ELSE UNCHANGED <<thrNumber, thrList>>
    BY <1>4 DEF CleanupKey
  <2>2. set \subseteq TlsKeys /\ (set = {} \/ clPass[t] <= ResetPasses)
    BY <2>1 DEF Resets
  <2>3. thrNumber' \in [LibThreads -> Nat]
    BY <2>1, SMT DEF NewThread, LibRest
  <2>4. LibRest'
    <3>1. tlsSlots' \in [LibThreads -> SUBSET TlsKeys]
      BY <2>1, <2>2 DEF LibRest
    <3>2. \A u \in LibThreads : osState'[u] \in {"none", "created", "gone"} => tlsSlots'[u] = {}
      BY <1>1, <2>1 DEF LibRest
    <3>3. CASE set = {}
      <4>1. \A u \in LibThreads : osState'[u] = "ending" =>
              tlsSlots'[u] \subseteq 1 .. clKey'[u] \/ (clRetry'[u] /\ clPass'[u] <= ResetPasses)
        BY <1>1, <2>1, <3>3, KeyFacts, SMTT(30) DEF LibRest
      <4> QED
        BY <1>1, <1>2, <2>3, <3>1, <3>2, <4>1 DEF LibRest
    <3>4. CASE clPass[t] <= ResetPasses
      <4>1. \A u \in LibThreads : osState'[u] = "ending" =>
              tlsSlots'[u] \subseteq 1 .. clKey'[u] \/ (clRetry'[u] /\ clPass'[u] <= ResetPasses)
        BY <1>1, <2>1, <3>4, KeyFacts, SMT DEF LibRest
      <4> QED
        BY <1>1, <1>2, <2>3, <3>1, <3>2, <4>1 DEF LibRest
    <3> QED
      BY <2>2, <3>3, <3>4
  <2>5. CASE 1 \in set /\ NeedsThread(t)
    <3>1. NewThread(t) /\ ~HasStructure(t)
      BY <1>1, <2>1, <2>5 DEF NeedsThread, HasStructure
    <3>2. \A u \in LibThreads : HasStructure(u)' <=> (HasStructure(u) \/ u = t)
      BY <1>1, <1>4, <2>1, <2>5 DEF HasStructure, LibRest
    <3> QED
      BY <2>4, <3>1, <3>2, ListAdds DEF LibRest
  <2>6. CASE ~(1 \in set /\ NeedsThread(t))
    <3>1. \A u \in LibThreads : HasStructure(u)' <=> HasStructure(u)
      BY <1>1, <1>4, <2>1, <2>6 DEF HasStructure, LibRest, NeedsThread
    <3> QED
      BY <2>1, <2>4, <2>6, <3>1, ListSame
  <2> QED
    BY <2>5, <2>6
<1> QED
  BY <1>3, <1>4

\* ... passes over an empty one, starts another pass or is done.
LEMMA LibPasses ==
    ASSUME LibRest, ListExact, NEW t \in LibThreads, SkipKey(t) \/ NsCleanupTls(t)
    PROVE  LibRest' /\ ListExact'
<1>1. UNCHANGED <<thrList, thrNumber, tlsSlots, exitedFlag>>
  BY DEF SkipKey, NsCleanupTls
<1>2. \A u \in LibThreads : HasStructure(u)' <=> HasStructure(u)
  BY <1>1 DEF SkipKey, NsCleanupTls, HasStructure, LibRest
<1>3. CASE SkipKey(t)
  <2>1. LibRest'
    BY <1>1, <1>3, KeyFacts, SMT DEF SkipKey, LibRest
  <2> QED
    BY <1>1, <1>2, <2>1, ListSame
<1>4. CASE NsCleanupTls(t) /\ AnotherPass(t)
  <2>1. /\ clPass' = [clPass EXCEPT ![t] = @ + 1] /\ clKey' = [clKey EXCEPT ![t] = MaxKey]
        /\ clRetry' = [clRetry EXCEPT ![t] = FALSE] /\ UNCHANGED osState
    BY <1>4 DEF NsCleanupTls
  <2>2. LibRest'
    BY <1>1, <2>1, KeyFacts, SMTT(30) DEF LibRest
  <2> QED
    BY <1>1, <1>2, <2>2, ListSame
<1>5. CASE NsCleanupTls(t) /\ ~AnotherPass(t)
  <2>1. tlsSlots[t] = {}
    BY <1>5, KeyFacts, SMT DEF NsCleanupTls, AnotherPass, LibRest
  <2>2. osState' = [osState EXCEPT ![t] = "gone"] /\ osState[t] = "ending" /\ UNCHANGED <<clPass, clKey, clRetry>>
    BY <1>5 DEF NsCleanupTls
  <2>3. LibRest'
    BY <1>1, <2>1, <2>2, SMT DEF LibRest
  <2> QED
    BY <1>1, <1>2, <2>3, ListSame
<1> QED
  BY <1>3, <1>4, <1>5

\* The invariant holds at the start, and every step keeps it (thread.c, tls.c).
LEMMA LibStart == LibInit => LibIInv
<1> SUFFICES ASSUME LibInit PROVE LibIInv
  OBVIOUS
<1>1. LibRest
  BY KeyFacts, SMT DEF LibInit, LibRest
<1>2. \A u \in LibThreads : ~HasStructure(u)
  BY DEF LibInit, HasStructure
<1>3. ListExact
  BY <1>2 DEF LibInit, ListExact
<1> QED
  BY <1>1, <1>3 DEF LibIInv

\* One lemma for each kind of step.
LEMMA LibStep == LibIInv /\ LibNext => LibIInv'
BY LibGets, LibCreates, LibStartsSets, LibCleans, LibPasses DEF LibIInv, LibNext

-----------------------------------------------------------------------------
(* The Tcl commands for locks.                                              *)

\* The table gives every name an object of its own.
TableOK ==
    /\ locks \in [table : Seq([name : Nat, addr : Nat]), held : Seq(SyThreads \cup {None})]
    /\ TableOneToOne
    /\ \A k \in DOMAIN locks.table : locks.table[k].addr \in DOMAIN locks.held

\* A step that does not touch the table and the locks leaves TableOK alone.
LEMMA TableFrame == ASSUME TableOK, UNCHANGED locks PROVE TableOK'
<1>1. TableOneToOne'
  BY SMT DEF TableOK, TableOneToOne
<1>2. \A k \in DOMAIN locks'.table : locks'.table[k].addr \in DOMAIN locks'.held
  BY DEF TableOK
<1>3. locks' \in [table : Seq([name : Nat, addr : Nat]), held : Seq(SyThreads \cup {None})]
  BY DEF TableOK
<1> QED
  BY <1>1, <1>2, <1>3 DEF TableOK

\* u is the sequence s over S with e after its last element.
IsAppended(u, s, e, S) ==
    /\ u \in Seq(S)
    /\ DOMAIN u = 1 .. (Len(s) + 1) /\ DOMAIN s = 1 .. Len(s)
    /\ u[Len(s) + 1] = e
    /\ \A k \in DOMAIN s : k \in DOMAIN u /\ u[k] = s[k]

\* What Append does to a sequence.
LEMMA Appended ==
    ASSUME NEW S, NEW s \in Seq(S), NEW e \in S
    PROVE  IsAppended(Append(s, e), s, e, S)
BY SMT DEF IsAppended

\* What a thread does, and on which object under which name.
SyPlace == [at : {"idle", "created", "lock", "evallock", "holds", "eval", "cond"}, obj : Nat, name : Int]

\* Thread t works on the object that the table has under its name.
OnNamed(t) ==
    \E k \in DOMAIN locks.table : locks.table[k].name = syThread[t].name /\ locks.table[k].addr = syThread[t].obj

\* A thread that holds a lock is written into the lock it works on.
SyOK(t) ==
    /\ syThread[t].at \in {"lock", "holds", "cond"} => OnNamed(t)
    /\ syThread[t].at \in {"lock", "holds", "cond", "evallock", "eval"} => syThread[t].obj \in DOMAIN locks.held
    /\ syThread[t].at \in {"holds", "eval"} => locks.held[syThread[t].obj] = t

\* The inductive invariant.
SynchIInv ==
    /\ TableOK /\ ScriptsAfterStart
    /\ lockId \in Nat /\ upAndRunning \in BOOLEAN
    /\ syThread \in [SyThreads -> SyPlace]
    /\ \A t \in SyThreads : SyOK(t)

\* It implies that no two threads hold the lock of one name.
LEMMA SynchIInvImplies == SynchIInv => SynchInv
<1> SUFFICES ASSUME SynchIInv PROVE SynchInv
  OBVIOUS
<1>1. SynchTypeOK
  BY SMT DEF SynchIInv, TableOK, SynchTypeOK
<1>2. ASSUME NEW t \in SyThreads, NEW u \in SyThreads, t # u,
             syThread[t].at = "holds", syThread[u].at = "holds", syThread[t].name = syThread[u].name
      PROVE  FALSE
  <2>1. PICK k \in DOMAIN locks.table :
          locks.table[k].name = syThread[t].name /\ locks.table[k].addr = syThread[t].obj
    BY <1>2 DEF SynchIInv, SyOK, OnNamed
  <2>2. PICK l \in DOMAIN locks.table :
          locks.table[l].name = syThread[u].name /\ locks.table[l].addr = syThread[u].obj
    BY <1>2 DEF SynchIInv, SyOK, OnNamed
  <2>3. k = l
    BY <1>2, <2>1, <2>2 DEF SynchIInv, TableOK, TableOneToOne
  <2>4. locks.held[syThread[t].obj] = t /\ locks.held[syThread[u].obj] = u
    BY <1>2 DEF SynchIInv, SyOK
  <2> QED
    BY <1>2, <2>1, <2>2, <2>3, <2>4
<1>3. LockExcludes
  BY <1>2 DEF LockExcludes
<1> QED
  BY <1>1, <1>3 DEF SynchInv, SynchIInv, TableOK

\* What a lookup finds: the table has one entry for a name.
LEMMA TableAtIs ==
    ASSUME TableOK, NEW k \in DOMAIN locks.table
    PROVE  TableAt(locks, locks.table[k].name) = locks.table[k].addr
BY DEF TableAt, TableOK, TableOneToOne

\* The same after a step.
LEMMA TableAtIsNext == \A k \in DOMAIN locks.table' : TableOK' => TableAt(locks', locks.table[k]'.name) = locks.table[k]'.addr
<1>1. TableOK => \A k \in DOMAIN locks.table : TableAt(locks, locks.table[k].name) = locks.table[k].addr
  BY TableAtIs
<1>2. (TableOK => \A k \in DOMAIN locks.table : TableAt(locks, locks.table[k].name) = locks.table[k].addr)'
  BY <1>1, PTL
<1> QED
  BY <1>2

\* A made-up name is new, and a natural.
LEMMA FreshNameNew ==
    ASSUME NEW L, L.table \in Seq([name : Nat, addr : Nat]), NEW id \in Nat
    PROVE  FreshName(L, id) \in Nat /\ FreshName(L, id) \notin NamesOf(L)
<1> DEFINE N == NamesOf(L)
           D == DOMAIN L.table
<1>1. IsFiniteSet(N) /\ Cardinality(N) \in Nat
  <2> DEFINE f == [k \in D |-> L.table[k].name]
  <2>1. f \in Surjection(D, N)
    BY DEF NamesOf, Surjection
  <2>2. IsFiniteSet(D)
    <3>1. D = 1 .. Len(L.table) /\ Len(L.table) \in Nat
      BY SMT
    <3> QED
      BY <3>1, FS_Interval, SMT
  <2>3. IsFiniteSet(N)
    BY <2>1, <2>2, FS_Surjection
  <2> QED
    BY <2>3, FS_CardinalityType
<1> DEFINE R == id .. (id + Cardinality(N))
           Free == R \ N
<1>2. Free # {}
  <2> SUFFICES ASSUME Free = {} PROVE FALSE
    OBVIOUS
  <2>1. R \in SUBSET N
    OBVIOUS
  <2>2. Cardinality(R) <= Cardinality(N)
    BY <2>1, <1>1, FS_Subset
  <2>3. id \in Int /\ id + Cardinality(N) \in Int /\ ~(id > id + Cardinality(N))
    BY <1>1, SMT
  <2>4. Cardinality(R) = (id + Cardinality(N)) - id + 1
    BY <2>3, FS_Interval
  <2> QED
    BY <1>1, <2>2, <2>4, SMT
<1>3. R \subseteq Nat
  BY <1>1, SMT
<1>4. \E n \in Free : \A m \in Free : ~(m < n)
  <2>1. PICK n \in Free : \A m \in Free : ~(<<m, n>> \in OpToRel(<, Nat))
    BY <1>2, <1>3, NatLessThanWellFounded, WFMin
  <2>2. \A m \in Free : m \in Nat /\ n \in Nat
    BY <1>3
  <2> QED
    BY <2>1, <2>2 DEF OpToRel
<1>5. PICK n \in Free : \A m \in Free : ~(m < n)
  BY <1>4
<1>6. n \in R /\ n \notin N /\ \A m \in id .. (n - 1) : m \in N
  BY <1>1, <1>5, SMT
<1>7. FreshName(L, id) \in R /\ FreshName(L, id) \notin N
  BY <1>6 DEF FreshName
<1> QED
  BY <1>3, <1>7

\* Nothing that was in the table or held changes when a name is entered.
Grown(n) ==
    /\ n \in NamesOf(locks')
    /\ \A k \in DOMAIN locks.table : k \in DOMAIN locks'.table /\ locks'.table[k] = locks.table[k]
    /\ \A a \in DOMAIN locks.held : a \in DOMAIN locks'.held /\ locks'.held[a] = locks.held[a]

\* CreateSynchObject leaves a good table with the name in it.
LEMMA TableGrows ==
    ASSUME TableOK, NEW n \in Nat, locks' = NamedObject(locks, n)
    PROVE  /\ TableOK' /\ Grown(n)
           /\ n \notin NamesOf(locks) => TableAt(locks', n) \notin DOMAIN locks.held
<1>1. CASE n \in NamesOf(locks)
  BY <1>1 DEF NamedObject, TableOK, TableOneToOne, Grown
<1>2. CASE n \notin NamesOf(locks)
  <2> DEFINE e == [name |-> n, addr |-> Len(locks.held) + 1]
             m == Len(locks.table) + 1
  <2>1. /\ locks'.table = Append(locks.table, e) /\ locks'.held = Append(locks.held, None)
        /\ locks' = [table |-> locks'.table, held |-> locks'.held]
    BY <1>2 DEF NamedObject, Entered
  <2>2. /\ locks.table \in Seq([name : Nat, addr : Nat]) /\ locks.held \in Seq(SyThreads \cup {None})
        /\ Len(locks.held) \in Nat /\ Len(locks.table) \in Nat
    BY SMT DEF TableOK
  <2>3. e \in [name : Nat, addr : Nat] /\ None \in SyThreads \cup {None}
    BY <2>2, SMTT(30)
  <2>4. /\ DOMAIN locks'.table = 1 .. m /\ locks'.table[m] = e
        /\ \A k \in DOMAIN locks.table : k \in DOMAIN locks'.table /\ locks'.table[k] = locks.table[k]
        /\ DOMAIN locks.table = 1 .. (m - 1)
        /\ locks'.table \in Seq([name : Nat, addr : Nat])
    <3>1. /\ DOMAIN locks'.table = 1 .. m /\ locks'.table[m] = e /\ DOMAIN locks.table = 1 .. Len(locks.table)
          /\ \A k \in DOMAIN locks.table : k \in DOMAIN locks'.table /\ locks'.table[k] = locks.table[k]
          /\ locks'.table \in Seq([name : Nat, addr : Nat])
      <4> HIDE DEF e
      <4>1. IsAppended(locks'.table, locks.table, e, [name : Nat, addr : Nat])
        BY <2>1, <2>2, <2>3, Appended
      <4> QED
        BY <4>1 DEF IsAppended
    <3>2. m - 1 = Len(locks.table)
      BY <2>2, SMT
    <3> QED
      BY <3>1, <3>2
  <2>5. /\ DOMAIN locks'.held = 1 .. (Len(locks.held) + 1) /\ DOMAIN locks.held = 1 .. Len(locks.held)
        /\ \A a \in DOMAIN locks.held : a \in DOMAIN locks'.held /\ locks'.held[a] = locks.held[a]
        /\ locks'.held \in Seq(SyThreads \cup {None})
    BY <2>1, <2>2, <2>3, SMT
  <2>6. \A k \in DOMAIN locks.table : locks.table[k].name # n /\ locks.table[k].addr # Len(locks.held) + 1
    <3>1. \A k \in DOMAIN locks.table : locks.table[k].addr \in 1 .. Len(locks.held)
      BY <2>5 DEF TableOK
    <3> QED
      BY <3>1, <2>2, <1>2, SMTT(30) DEF NamesOf
  <2>7. \A k \in DOMAIN locks'.table : k = m \/ k \in DOMAIN locks.table
    BY <2>4, <2>2, SMTT(30)
  <2>11. m \in DOMAIN locks'.table /\ locks'.table[m].name = n /\ locks'.table[m].addr = Len(locks.held) + 1
    BY <2>2, <2>4, SMT
  <2>8. TableOneToOne'
    <3> SUFFICES ASSUME NEW j \in DOMAIN locks'.table, NEW k \in DOMAIN locks'.table, j # k
                 PROVE  locks'.table[j].name # locks'.table[k].name /\ locks'.table[j].addr # locks'.table[k].addr
      BY DEF TableOneToOne
    <3>1. CASE j \in DOMAIN locks.table /\ k \in DOMAIN locks.table
      BY <2>4, <3>1, ZenonT(30) DEF TableOneToOne, TableOK
    <3>2. CASE j = m /\ k \in DOMAIN locks.table
      BY <2>4, <2>6, <2>11, <3>2
    <3>3. CASE j \in DOMAIN locks.table /\ k = m
      BY <2>4, <2>6, <2>11, <3>3
    <3> QED
      BY <2>7, <3>1, <3>2, <3>3
  <2>9. \A k \in DOMAIN locks'.table : locks'.table[k].addr \in DOMAIN locks'.held
    <3>1. Len(locks.held) + 1 \in DOMAIN locks'.held
      BY <2>2, <2>5, SMT
    <3>2. ASSUME NEW k \in DOMAIN locks.table PROVE locks'.table[k].addr \in DOMAIN locks'.held
      BY <2>4, <2>5 DEF TableOK
    <3> QED
      BY <2>7, <2>11, <3>1, <3>2
  <2>10. TableOK'
    BY <2>1, <2>4, <2>5, <2>8, <2>9 DEF TableOK
  <2>12. Grown(n)
    BY <2>4, <2>5, <2>11 DEF Grown, NamesOf
  <2>13. TableAt(locks', n) = Len(locks.held) + 1
    BY <2>10, <2>11, TableAtIsNext
  <2>14. Len(locks.held) + 1 \notin DOMAIN locks.held
    BY <2>2, <2>5, SMT
  <2> QED
    BY <2>10, <2>12, <2>13, <2>14
<1> QED
  BY <1>1, <1>2

\* A thread that does not move stays right when a name is entered.
LEMMA GrownKeeps ==
    ASSUME NEW n, Grown(n), NEW u \in SyThreads, SyOK(u), syThread'[u] = syThread[u]
    PROVE  SyOK(u)'
<1>1. OnNamed(u) => OnNamed(u)'
  BY DEF OnNamed, Grown
<1> QED
  BY <1>1 DEF SyOK, Grown

\* A thread that goes to the object of a name it looked up is on that object.
LEMMA LookedUp ==
    ASSUME TableOK', NEW n \in NamesOf(locks')
    PROVE  \E k \in DOMAIN locks'.table :
              /\ locks'.table[k].name = n /\ locks'.table[k].addr = TableAt(locks', n)
              /\ TableAt(locks', n) \in DOMAIN locks'.held /\ TableAt(locks', n) \in Nat
<1>1. PICK k \in DOMAIN locks'.table : locks'.table[k].name = n
  BY DEF NamesOf
<1>2. locks'.table[k].addr = TableAt(locks', n)
  BY <1>1, TableAtIsNext
<1>3. locks'.table[k].addr \in DOMAIN locks'.held /\ locks'.table[k].addr \in Nat
  BY SMT DEF TableOK
<1> QED
  BY <1>1, <1>2, <1>3

\* The other threads, and what a step that touches no thread has to keep.
SynchFrame == ScriptsAfterStart' /\ lockId' \in Nat /\ upAndRunning' \in BOOLEAN

\* create, eval, a lookup and a lock: a name is entered if need be, and at
\* most the thread itself moves, to the object of that name or of its own.
LEMMA EntersKeeps ==
    ASSUME SynchIInv, NEW t \in SyThreads, NEW n \in Nat, locks' = NamedObject(locks, n), SynchFrame,
           NEW at \in {"created", "lock", "evallock"}, NEW m \in Int, at = "lock" => m = n,
           syThread' = syThread \/ SyAt(t, at, TableAt(locks', n), m)
    PROVE  SynchIInv'
<1>1. TableOK' /\ Grown(n)
  BY TableGrows DEF SynchIInv
<1>2. CASE syThread' = syThread
  <2>1. \A u \in SyThreads : SyOK(u)'
    BY <1>1, <1>2, GrownKeeps DEF SynchIInv
  <2> QED
    BY <1>1, <1>2, <2>1 DEF SynchIInv, SynchFrame
<1>3. CASE SyAt(t, at, TableAt(locks', n), m)
  <2>1. PICK k \in DOMAIN locks'.table :
              /\ locks'.table[k].name = n /\ locks'.table[k].addr = TableAt(locks', n)
              /\ TableAt(locks', n) \in DOMAIN locks'.held /\ TableAt(locks', n) \in Nat
    BY <1>1, LookedUp DEF Grown
  <2>2. /\ syThread' \in [SyThreads -> SyPlace]
        /\ syThread'[t].at = at /\ syThread'[t].obj = TableAt(locks', n) /\ syThread'[t].name = m
        /\ \A u \in SyThreads : u # t => syThread'[u] = syThread[u]
    BY <1>3, <2>1, SMT DEF SyAt, SynchIInv, SyPlace
  <2>3. SyOK(t)'
    <3>1. at = "lock" => OnNamed(t)'
      BY <2>1, <2>2 DEF OnNamed
    <3>2. at # "holds" /\ at # "eval" /\ at # "cond"
      OBVIOUS
    <3> QED
      BY <2>1, <2>2, <3>1, <3>2 DEF SyOK
  <2>4. \A u \in SyThreads : SyOK(u)'
    BY <1>1, <2>2, <2>3, GrownKeeps DEF SynchIInv
  <2> QED
    BY <1>1, <2>2, <2>4 DEF SynchIInv, SynchFrame
<1> QED
  BY <1>2, <1>3

\* Writing a thread into a free lock, or nobody into one's own lock: the other
\* holders are in other locks.
LEMMA HeldKeeps ==
    ASSUME SynchIInv, NEW t \in SyThreads, SynchFrame,
           NEW a \in DOMAIN locks.held, NEW v \in SyThreads \cup {None},
           locks' = [locks EXCEPT !.held[a] = v], locks.held[a] \in {None, t},
           syThread' \in [SyThreads -> SyPlace], \A u \in SyThreads : u # t => syThread'[u] = syThread[u],
           SyOK(t)'
    PROVE  SynchIInv'
<1>1. /\ locks'.table = locks.table /\ DOMAIN locks'.held = DOMAIN locks.held
      /\ \A b \in DOMAIN locks.held : b # a => locks'.held[b] = locks.held[b]
      /\ locks' \in [table : Seq([name : Nat, addr : Nat]), held : Seq(SyThreads \cup {None})]
  <2>1. locks \in [table : Seq([name : Nat, addr : Nat]), held : Seq(SyThreads \cup {None})]
    BY DEF SynchIInv, TableOK
  <2>2. locks'.table = locks.table /\ locks'.held = [locks.held EXCEPT ![a] = v]
    BY <2>1
  <2>3. locks' = [table |-> locks.table, held |-> [locks.held EXCEPT ![a] = v]]
    BY <2>1
  <2>4. [locks.held EXCEPT ![a] = v] \in Seq(SyThreads \cup {None})
    BY <2>1, SMT
  <2> QED
    BY <2>1, <2>2, <2>3, <2>4
<1>2. TableOK'
  <2>1. TableOneToOne'
    BY <1>1, SMT DEF SynchIInv, TableOK, TableOneToOne
  <2>2. \A k \in DOMAIN locks'.table : locks'.table[k].addr \in DOMAIN locks'.held
    BY <1>1 DEF SynchIInv, TableOK
  <2> QED
    BY <1>1, <2>1, <2>2 DEF TableOK
<1>3. ASSUME NEW u \in SyThreads, u # t PROVE SyOK(u)'
  <2>1. syThread'[u] = syThread[u] /\ SyOK(u)
    BY <1>3 DEF SynchIInv
  <2>2. OnNamed(u)' <=> OnNamed(u)
    BY <2>1, <1>1 DEF OnNamed
  <2>3. syThread[u].at \in {"holds", "eval"} => syThread[u].obj # a
    BY <1>3, <2>1, SyAssumption DEF SyOK
  <2> QED
    BY <1>1, <2>1, <2>2, <2>3 DEF SyOK
<1> QED
  BY <1>2, <1>3 DEF SynchIInv, SynchFrame

\* The object of a made-up name is new.
LEMMA MadeUpIs ==
    ASSUME TableOK, lockId \in Nat
    PROVE  /\ FreshName(locks, lockId) \in Nat /\ FreshName(locks, lockId) \notin NamesOf(locks)
           /\ MadeUp = NamedObject(locks, FreshName(locks, lockId))
<1>1. locks.table \in Seq([name : Nat, addr : Nat])
  BY DEF TableOK
<1> QED
  BY <1>1, FreshNameNew DEF MadeUp, NamedObject

\* The commands that enter a name (CreateSynchObject).
LEMMA EnteringKeeps ==
    ASSUME SynchIInv, NEW t \in SyThreads,
           LockCreate(t) \/ \E n \in SyNames : LockNamed(t, n) \/ LockWait(t, n) \/ LockEval(t, n)
    PROVE  SynchIInv'
<1> DEFINE new == FreshName(locks, lockId)
<1>1. new \in Nat /\ MadeUp = NamedObject(locks, new)
  BY MadeUpIs DEF SynchIInv
<1>2. new \in Int /\ new + 1 \in Nat /\ \A n \in SyNames : n \in Nat /\ n \in Int
  BY <1>1, SyAssumption, SMT
<1>3. SynchFrame
  BY <1>2 DEF LockCreate, LockNamed, LockWait, LockEval, GetNamed, SynchFrame, SynchIInv, ScriptsAfterStart
<1>4. CASE LockCreate(t)
  <2>1. locks' = NamedObject(locks, new) /\ SyAt(t, "created", TableAt(locks', new), new)
    BY <1>1, <1>4 DEF LockCreate
  <2> QED
    BY <1>1, <1>2, <1>3, <2>1, EntersKeeps
<1>5. ASSUME NEW n \in SyNames, LockNamed(t, n) PROVE SynchIInv'
  <2>1. locks' = NamedObject(locks, n) /\ syThread' = syThread
    BY <1>5 DEF LockNamed, GetNamed
  <2> QED
    BY <1>2, <1>3, <2>1, EntersKeeps
<1>6. ASSUME NEW n \in SyNames, LockWait(t, n) PROVE SynchIInv'
  <2>1. locks' = NamedObject(locks, n) /\ SyAt(t, "lock", TableAt(locks', n), n)
    BY <1>6 DEF LockWait, GetNamed
  <2> QED
    BY <1>2, <1>3, <2>1, EntersKeeps
<1>7. ASSUME NEW n \in SyNames, LockEval(t, n) PROVE SynchIInv'
  <2>1. locks' = NamedObject(locks, new) /\ SyAt(t, "evallock", TableAt(locks', new), n)
    BY <1>1, <1>7 DEF LockEval
  <2> QED
    BY <1>1, <1>2, <1>3, <2>1, EntersKeeps
<1> QED
  BY <1>4, <1>5, <1>6, <1>7

\* Getting a lock that was waited for.
LEMMA LockedKeeps ==
    ASSUME SynchIInv, NEW t \in SyThreads, Locked(t)
    PROVE  SynchIInv'
<1> DEFINE a == syThread[t].obj
<1>1. /\ a \in DOMAIN locks.held /\ locks.held[a] = None /\ locks' = [locks EXCEPT !.held[a] = t]
      /\ syThread[t].at \in {"lock", "evallock"} /\ syThread \in [SyThreads -> SyPlace]
      /\ syThread[t].at = "lock" => OnNamed(t)
  BY DEF Locked, SynchIInv, SyOK
<1>2. /\ syThread' \in [SyThreads -> SyPlace] /\ \A u \in SyThreads : u # t => syThread'[u] = syThread[u]
      /\ syThread'[t].obj = a /\ syThread'[t].name = syThread[t].name
      /\ syThread'[t].at = IF syThread[t].at = "lock" THEN "holds" ELSE "eval"
  BY <1>1, SMT DEF Locked, SyPlace
<1>3. locks'.table = locks.table /\ a \in DOMAIN locks'.held /\ locks'.held[a] = t
  BY <1>1, SMT DEF SynchIInv, TableOK
<1>4. OnNamed(t) => OnNamed(t)'
  BY <1>2, <1>3 DEF OnNamed
<1>5. SyOK(t)'
  BY <1>1, <1>2, <1>3, <1>4 DEF SyOK
<1>6. SynchFrame
  BY DEF Locked, SynchFrame, SynchIInv, ScriptsAfterStart
<1> QED
  BY <1>1, <1>2, <1>5, <1>6, HeldKeeps

\* Getting a free lock at once.
LEMMA TryKeeps ==
    ASSUME SynchIInv, NEW t \in SyThreads, NEW n \in SyNames, LockTry(t, n)
    PROVE  SynchIInv'
<1> DEFINE a == TableAt(locks, n)
<1>1. PICK k \in DOMAIN locks.table : locks.table[k].name = n /\ locks.table[k].addr = a
  BY TableAtIs DEF LockTry, NamesOf, SynchIInv
<1>2. /\ a \in DOMAIN locks.held /\ locks.held[a] = None /\ locks' = [locks EXCEPT !.held[a] = t]
      /\ SyAt(t, "holds", a, n)
  BY <1>1 DEF LockTry, SynchIInv, TableOK
<1>3. a \in Nat /\ n \in Int
  BY <1>1, SyAssumption, SMTT(30) DEF SynchIInv, TableOK
<1>4. /\ syThread' \in [SyThreads -> SyPlace] /\ \A u \in SyThreads : u # t => syThread'[u] = syThread[u]
      /\ syThread'[t].obj = a /\ syThread'[t].name = n /\ syThread'[t].at = "holds"
  BY <1>2, <1>3, SMT DEF SyAt, SyPlace, SynchIInv
<1>5. locks'.table = locks.table /\ a \in DOMAIN locks'.held /\ locks'.held[a] = t
  BY <1>2, SMT DEF SynchIInv, TableOK
<1>6. OnNamed(t)'
  BY <1>1, <1>4, <1>5 DEF OnNamed
<1>7. SyOK(t)'
  BY <1>4, <1>5, <1>6 DEF SyOK
<1>8. SynchFrame
  BY DEF LockTry, SynchFrame, SynchIInv, ScriptsAfterStart
<1> QED
  BY <1>2, <1>4, <1>7, <1>8, HeldKeeps

\* Giving the lock back, and letting it go while waiting for a condition.
LEMMA UnlockedKeeps ==
    ASSUME SynchIInv, NEW t \in SyThreads, Unlocked(t) \/ CondWait(t)
    PROVE  SynchIInv'
<1> DEFINE a == syThread[t].obj
<1>1. /\ syThread[t].at \in {"holds", "eval"} /\ syThread \in [SyThreads -> SyPlace]
      /\ a \in DOMAIN locks.held /\ locks.held[a] = t
      /\ syThread[t].at = "holds" => OnNamed(t)
  BY DEF Unlocked, CondWait, SynchIInv, SyOK
<1>2. locks' = [locks EXCEPT !.held[a] = None]
  <2>1. CASE CondWait(t) \/ syThread[t].at = "eval"
    BY <2>1, <1>1 DEF CondWait, Unlocked
  <2>2. CASE Unlocked(t) /\ syThread[t].at = "holds"
    <3>1. TableAt(locks, syThread[t].name) = a
      BY <1>1, <2>2, TableAtIs DEF OnNamed, SynchIInv
    <3> QED
      BY <2>2, <3>1 DEF Unlocked
  <2> QED
    BY <1>1, <2>1, <2>2
<1>3. SynchFrame
  BY DEF Unlocked, CondWait, SynchFrame, SynchIInv, ScriptsAfterStart
<1>4. locks'.table = locks.table /\ a \in DOMAIN locks'.held
  BY <1>1, <1>2, SMT DEF SynchIInv, TableOK
<1>5. CASE Unlocked(t)
  <2>1. /\ syThread' \in [SyThreads -> SyPlace] /\ \A u \in SyThreads : u # t => syThread'[u] = syThread[u]
        /\ syThread'[t].at = "idle"
    BY <1>1, <1>5, SMT DEF Unlocked, SyAt, SyPlace, None
  <2>2. SyOK(t)'
    BY <2>1 DEF SyOK
  <2> QED
    BY <1>1, <1>2, <1>3, <2>1, <2>2, HeldKeeps
<1>6. CASE CondWait(t)
  <2>1. /\ syThread' \in [SyThreads -> SyPlace] /\ \A u \in SyThreads : u # t => syThread'[u] = syThread[u]
        /\ syThread'[t].obj = a /\ syThread'[t].name = syThread[t].name /\ syThread'[t].at = "cond"
        /\ syThread[t].at = "holds"
    BY <1>1, <1>6, SMT DEF CondWait, SyPlace
  <2>2. OnNamed(t)'
    BY <1>1, <1>4, <2>1 DEF OnNamed
  <2>3. SyOK(t)'
    BY <1>4, <2>1, <2>2 DEF SyOK
  <2> QED
    BY <1>1, <1>2, <1>3, <2>1, <2>3, HeldKeeps
<1> QED
  BY <1>5, <1>6

\* Waking waiters of a condition: they have to get their lock again.
LEMMA SignalKeeps ==
    ASSUME SynchIInv, NEW t \in SyThreads, CondSignal(t)
    PROVE  SynchIInv'
<1>1. PICK S : S \subseteq {u \in SyThreads : syThread[u].at = "cond"} /\ CondWoken(S)
  BY DEF CondSignal
<1>2. UNCHANGED <<locks, lockId, upAndRunning, kid>> /\ syThread \in [SyThreads -> SyPlace]
  BY DEF CondSignal, SynchIInv
<1>3. /\ syThread' \in [SyThreads -> SyPlace]
      /\ \A u \in SyThreads : /\ syThread'[u].obj = syThread[u].obj /\ syThread'[u].name = syThread[u].name
                               /\ syThread'[u].at = IF u \in S THEN "lock" ELSE syThread[u].at
  BY <1>1, <1>2, SMT DEF CondWoken, SyPlace
<1>4. ASSUME NEW u \in SyThreads PROVE SyOK(u)'
  <2>1. OnNamed(u)' <=> OnNamed(u)
    BY <1>2, <1>3 DEF OnNamed
  <2>2. SyOK(u) /\ (u \in S => syThread[u].at = "cond")
    BY <1>1 DEF SynchIInv
  <2> QED
    BY <1>2, <1>3, <2>1, <2>2 DEF SyOK
<1>5. TableOK'
  BY <1>2, TableFrame DEF SynchIInv
<1> QED
  BY <1>2, <1>3, <1>4, <1>5 DEF SynchIInv, ScriptsAfterStart

\* Starting the server and ns_thread leave the locks alone.
LEMMA StartKeeps ==
    ASSUME SynchIInv, ServerStarts \/ NsTclThread \/ \E t \in SyThreads : ThreadNext(t)
    PROVE  SynchIInv'
<1>1. UNCHANGED <<locks, lockId, syThread>>
  BY DEF ServerStarts, NsTclThread, ThreadNext, ThreadBegin, ThreadWait
<1>2. upAndRunning' \in BOOLEAN
  BY DEF SynchIInv, ServerStarts, NsTclThread, ThreadNext, ThreadBegin, ThreadWait
<1>3. ScriptsAfterStart'
  BY DEF SynchIInv, ScriptsAfterStart, ServerStarts, NsTclThread, MayRun, ThreadNext, ThreadBegin, ThreadWait
<1>4. TableOK'
  BY <1>1, TableFrame DEF SynchIInv
<1>5. \A t \in SyThreads : SyOK(t)'
  BY <1>1 DEF SynchIInv, SyOK, OnNamed
<1> QED
  BY <1>1, <1>2, <1>3, <1>4, <1>5 DEF SynchIInv

\* The invariant holds at the start, and every command keeps it (tclthread.c).
LEMMA SynchStart == SynchInit => SynchIInv
<1> SUFFICES ASSUME SynchInit PROVE SynchIInv
  OBVIOUS
<1>1. /\ locks = [table |-> <<>>, held |-> <<>>] /\ lockId = 0 /\ upAndRunning = FALSE /\ kid = "none"
      /\ syThread = [t \in SyThreads |-> SyIdle]
  BY DEF SynchInit
<1>2. TableOK
  BY <1>1, SMT DEF TableOK, TableOneToOne
<1>3. syThread \in [SyThreads -> SyPlace] /\ \A t \in SyThreads : syThread[t].at = "idle"
  BY <1>1, SMT DEF SyIdle, SyPlace, None
<1>4. \A t \in SyThreads : SyOK(t)
  BY <1>3 DEF SyOK
<1>5. lockId \in Nat
  BY <1>1, SMT
<1> QED
  BY <1>1, <1>2, <1>3, <1>4, <1>5 DEF SynchIInv, ScriptsAfterStart

\* One lemma for each kind of command.
LEMMA SynchStep == SynchIInv /\ SynchNext => SynchIInv'
BY StartKeeps, EnteringKeeps, LockedKeeps, TryKeeps, UnlockedKeeps, SignalKeeps DEF SynchNext, LockNext

\* Steps of the others leave it alone.
LEMMA SynchStutter == SynchIInv /\ UNCHANGED synchVars => SynchIInv'
<1> SUFFICES ASSUME SynchIInv, UNCHANGED synchVars PROVE SynchIInv'
  OBVIOUS
<1>1. UNCHANGED <<locks, lockId, syThread, upAndRunning, kid>>
  BY DEF synchVars
<1>2. TableOK'
  BY <1>1, TableFrame DEF SynchIInv
<1>3. \A t \in SyThreads : SyOK(t)'
  BY <1>1 DEF SynchIInv, SyOK, OnNamed
<1> QED
  BY <1>1, <1>2, <1>3 DEF SynchIInv, ScriptsAfterStart

\* "create" without a name returns a lock that nobody could have used before,
\* although scripts may use names of the form it makes up (CreateSynchObject).
THEOREM MadeUpNameFresh == SynchSpec => CreatedFresh
<1> DEFINE Fresh == \A t \in SyThreads : syThread[t].at = "idle" /\ syThread'[t].at = "created"
                        => syThread'[t].obj \notin DOMAIN locks.held
<1>1. SynchIInv /\ [SynchNext]_synchVars => SynchIInv'
  BY SynchStep, SynchStutter
<1>2. SynchIInv /\ [SynchNext]_synchVars => [Fresh]_synchVars
  <2> SUFFICES ASSUME SynchIInv, SynchNext, NEW t \in SyThreads,
                      syThread[t].at = "idle", syThread'[t].at = "created"
               PROVE  syThread'[t].obj \notin DOMAIN locks.held
    OBVIOUS
  <2>1. syThread \in [SyThreads -> SyPlace] /\ TableOK /\ lockId \in Nat
    BY DEF SynchIInv
  <2>2. CASE ServerStarts \/ NsTclThread \/ \E u \in SyThreads : ThreadNext(u)
    BY <2>2 DEF ServerStarts, NsTclThread, ThreadNext, ThreadBegin, ThreadWait
  <2>3. ASSUME NEW u \in SyThreads, LockCreate(u) PROVE syThread'[t].obj \notin DOMAIN locks.held
    <3> DEFINE new == FreshName(locks, lockId)
    <3>1. new \in Nat /\ new \notin NamesOf(locks) /\ locks' = NamedObject(locks, new)
      BY <2>1, <2>3, MadeUpIs DEF LockCreate
    <3>2. TableAt(locks', new) \notin DOMAIN locks.held
      BY <2>1, <3>1, TableGrows
    <3>3. u = t
      BY <2>1, <2>3 DEF LockCreate, SyAt
    <3>4. syThread'[t].obj = TableAt(locks', new)
      BY <2>1, <2>3, <3>3, SMT DEF LockCreate, SyAt
    <3> QED
      BY <3>2, <3>4
  <2>4. ASSUME NEW u \in SyThreads, Locked(u) \/ Unlocked(u) \/ CondWait(u) \/ CondSignal(u)
        PROVE  syThread'[t].at # "created"
    <3>1. CASE Locked(u)
      BY <2>1, <3>1, SMT DEF Locked, SyPlace
    <3>2. CASE Unlocked(u)
      BY <2>1, <3>2, SMT DEF Unlocked, SyAt
    <3>3. CASE CondWait(u)
      BY <2>1, <3>3, SMT DEF CondWait, SyPlace
    <3>4. CASE CondSignal(u)
      <4>1. PICK S : CondWoken(S)
        BY <3>4 DEF CondSignal
      <4> QED
        BY <2>1, <4>1, SMT DEF CondWoken, SyPlace
    <3> QED
      BY <2>4, <3>1, <3>2, <3>3, <3>4
  <2>5. ASSUME NEW u \in SyThreads, NEW n \in SyNames, LockNamed(u, n) \/ LockWait(u, n) \/ LockEval(u, n) \/ LockTry(u, n)
        PROVE  syThread'[t].at # "created"
    BY <2>1, <2>5, SMT DEF LockNamed, LockWait, LockEval, LockTry, SyAt
  <2> QED
    BY <2>2, <2>3, <2>4, <2>5 DEF SynchNext, LockNext
<1> QED
  BY <1>1, <1>2, SynchStart, PTL DEF SynchSpec, CreatedFresh

-----------------------------------------------------------------------------
(* The three together.                                                      *)

\* Critical sections, semaphores, thread-local storage and the Tcl locks keep
\* what they promise, for any number of threads, keys, names and posts.
THEOREM ThreadLibraryKept == ThreadsSpec => []ThreadInv
<1> DEFINE I == CritIInv /\ LibIInv /\ SynchIInv
<1>1. ThreadsInit => I
  BY CritStart, LibStart, SynchStart DEF ThreadsInit
<1>2. CritIInv /\ UNCHANGED critVars => CritIInv'
  BY DEF critVars, CritIInv, CsIInv, CsInv, SemaIInv, SemaAre
<1>3. LibIInv /\ UNCHANGED libVars => LibIInv'
  <2> SUFFICES ASSUME LibIInv, UNCHANGED libVars PROVE LibIInv'
    OBVIOUS
  <2>1. LibRest'
    BY DEF libVars, LibIInv, LibRest
  <2>2. ListExact'
    BY DEF libVars, LibIInv, ListExact, HasStructure
  <2> QED
    BY <2>1, <2>2 DEF LibIInv
<1>4. I /\ [ThreadsNext]_<<critVars, libVars, synchVars>> => I'
  BY <1>2, <1>3, SynchStutter, CritStep, LibStep, SynchStep DEF ThreadsNext
<1>5. I => ThreadInv
  BY SemaIInvImplies, LibIInvImplies, SynchIInvImplies DEF ThreadInv, CritInv, CritIInv, CsIInv
<1> QED
  BY <1>1, <1>4, <1>5, PTL DEF ThreadsSpec
=============================================================================
