------------------------------- MODULE RWLock -------------------------------
(***************************************************************************)
(* The reader/writer lock of the thread library (nsthread/rwlock.c).  Each *)
(* action is one critical section of the lock's mutex; a thread that waits *)
(* on a condition variable leaves it only after a signal, a broadcast or,  *)
(* as POSIX allows, a spurious wake-up.                                    *)
(***************************************************************************)
EXTENDS Integers, FiniteSets

CONSTANTS
    RwThreads,
    RwTurns         \* how often a thread takes the lock

ASSUME RwAssumption == IsFiniteSet(RwThreads) /\ RwTurns \in Nat

VARIABLES
    rwState,        \* thread -> idle, null (saw no lock yet), rd, wr (waiting), reading, writing
    rwWoken,        \* the threads that wait and have been woken
    rwMade,         \* number of lock structures that were allocated
    lockcnt, nreaders, nwriters,
    rwTurn          \* thread -> turns it has started

rwVars == <<rwState, rwWoken, rwMade, lockcnt, nreaders, nwriters, rwTurn>>

RwAre(s) == {t \in RwThreads : rwState[t] = s}

RwInit ==
    /\ rwState = [t \in RwThreads |-> "idle"]
    /\ rwWoken = {} /\ rwMade = 0
    /\ lockcnt = 0 /\ nreaders = 0 /\ nwriters = 0
    /\ rwTurn = [t \in RwThreads |-> 0]

\* GetRwLock: a lock in static storage is allocated by the first user.
SeesNoLock(t) ==
    /\ rwState[t] = "idle" /\ rwTurn[t] < RwTurns /\ rwMade = 0
    /\ rwState' = [rwState EXCEPT ![t] = "null"]
    /\ UNCHANGED <<rwWoken, rwMade, lockcnt, nreaders, nwriters, rwTurn>>

\* Mutant: the pointer is not looked at again under the master lock.
MakesAnyLock(t) ==
    /\ rwState[t] = "null"
    /\ rwMade' = rwMade + 1
    /\ rwState' = [rwState EXCEPT ![t] = "idle"]
    /\ UNCHANGED <<rwWoken, lockcnt, nreaders, nwriters, rwTurn>>

MakesLock(t) ==
    /\ rwState[t] = "null"
    /\ rwMade' = IF rwMade = 0 THEN 1 ELSE rwMade
    /\ rwState' = [rwState EXCEPT ![t] = "idle"]
    /\ UNCHANGED <<rwWoken, lockcnt, nreaders, nwriters, rwTurn>>

\* The loop of Ns_RWLockRdLock, with r readers waiting besides t.
TryRead(t, r) ==
    /\ IF lockcnt < 0 \/ nwriters > 0
       THEN /\ nreaders' = r + 1
            /\ rwState' = [rwState EXCEPT ![t] = "rd"]
            /\ UNCHANGED lockcnt
       ELSE /\ nreaders' = r
            /\ lockcnt' = lockcnt + 1
            /\ rwState' = [rwState EXCEPT ![t] = "reading"]
    /\ UNCHANGED <<nwriters, rwMade>>

\* Mutant: a writer waits only for a writer.
TryWriteShared(t, w) ==
    /\ IF lockcnt < 0
       THEN /\ nwriters' = w + 1
            /\ rwState' = [rwState EXCEPT ![t] = "wr"]
            /\ UNCHANGED lockcnt
       ELSE /\ nwriters' = w
            /\ lockcnt' = -1
            /\ rwState' = [rwState EXCEPT ![t] = "writing"]
    /\ UNCHANGED <<nreaders, rwMade>>

TryWrite(t, w) ==
    /\ IF lockcnt # 0
       THEN /\ nwriters' = w + 1
            /\ rwState' = [rwState EXCEPT ![t] = "wr"]
            /\ UNCHANGED lockcnt
       ELSE /\ nwriters' = w
            /\ lockcnt' = -1
            /\ rwState' = [rwState EXCEPT ![t] = "writing"]
    /\ UNCHANGED <<nreaders, rwMade>>

Turn(t) ==
    /\ rwState[t] = "idle" /\ rwMade > 0 /\ rwTurn[t] < RwTurns
    /\ rwTurn' = [rwTurn EXCEPT ![t] = @ + 1]
    /\ UNCHANGED rwWoken

Ns_RWLockRdLock(t) == Turn(t) /\ TryRead(t, nreaders)
Ns_RWLockWrLock(t) == Turn(t) /\ TryWrite(t, nwriters)

Wakes(t) == t \in rwWoken /\ rwWoken' = rwWoken \ {t} /\ UNCHANGED rwTurn

RdWakes(t) == rwState[t] = "rd" /\ Wakes(t) /\ TryRead(t, nreaders - 1)
WrWakes(t) == rwState[t] = "wr" /\ Wakes(t) /\ TryWrite(t, nwriters - 1)

\* Signals are for one of the threads that still sleep, a broadcast for all.
RwSignal == LET sleeping == RwAre("wr") \ rwWoken IN
    IF sleeping = {} THEN UNCHANGED rwWoken ELSE \E w \in sleeping : rwWoken' = rwWoken \cup {w}

\* Mutant: only the last reader looks for waiting writers, readers are left out.
UnlockForWriters(t) ==
    /\ rwState[t] \in {"reading", "writing"}
    /\ lockcnt' = IF lockcnt - 1 < 0 THEN 0 ELSE lockcnt - 1
    /\ IF nwriters # 0 THEN RwSignal ELSE UNCHANGED rwWoken
    /\ rwState' = [rwState EXCEPT ![t] = "idle"]
    /\ UNCHANGED <<rwMade, nreaders, nwriters, rwTurn>>

Ns_RWLockUnlock(t) ==
    /\ rwState[t] \in {"reading", "writing"}
    /\ lockcnt' = IF lockcnt - 1 < 0 THEN 0 ELSE lockcnt - 1
    /\ CASE nwriters # 0 -> RwSignal
         [] nwriters = 0 /\ nreaders # 0 -> rwWoken' = rwWoken \cup RwAre("rd")
         [] OTHER -> UNCHANGED rwWoken
    /\ rwState' = [rwState EXCEPT ![t] = "idle"]
    /\ UNCHANGED <<rwMade, nreaders, nwriters, rwTurn>>

SpuriousWake(t) ==
    /\ t \in (RwAre("rd") \cup RwAre("wr")) \ rwWoken
    /\ rwWoken' = rwWoken \cup {t}
    /\ UNCHANGED <<rwState, rwMade, lockcnt, nreaders, nwriters, rwTurn>>

\* What a thread that is in the lock's code or holds it goes on to do.
RwStep(t) == MakesLock(t) \/ RdWakes(t) \/ WrWakes(t) \/ Ns_RWLockUnlock(t)

RwNext == \E t \in RwThreads :
    \/ SeesNoLock(t) \/ Ns_RWLockRdLock(t) \/ Ns_RWLockWrLock(t)
    \/ RwStep(t) \/ SpuriousWake(t)

RwSpec == RwInit /\ [][RwNext]_rwVars

(***************************************************************************)
(* A writer is alone, readers are with readers only, and the counter says  *)
(* which of the two it is.                                                 *)
(***************************************************************************)
RwExclusive ==
    /\ lockcnt = -1 => \E t \in RwThreads : RwAre("writing") = {t} /\ RwAre("reading") = {}
    /\ lockcnt # -1 => RwAre("writing") = {} /\ lockcnt = Cardinality(RwAre("reading"))

(***************************************************************************)
(* The counters that Ns_RWLockUnlock decides by are the waiting threads,   *)
(* woken ones included, although threads come and go while a woken thread  *)
(* is on its way back to the mutex.                                        *)
(***************************************************************************)
RwCounts == nreaders = Cardinality(RwAre("rd")) /\ nwriters = Cardinality(RwAre("wr"))

(***************************************************************************)
(* No wake-up is lost: as long as somebody waits the lock is held or a     *)
(* woken thread is on its way; readers left behind have a writer to wait   *)
(* for.                                                                    *)
(***************************************************************************)
RwNoneForgotten ==
    /\ RwAre("wr") # {} /\ lockcnt = 0 => RwAre("wr") \cap rwWoken # {}
    /\ RwAre("rd") \ rwWoken # {} => lockcnt < 0 \/ RwAre("wr") # {}

(***************************************************************************)
(* What the lock promises: exclusion, exact counters, no lost wake-up, and *)
(* a lock in static storage that is allocated once.                        *)
(***************************************************************************)
RwInv == RwExclusive /\ RwCounts /\ RwNoneForgotten /\ rwMade <= 1

(***************************************************************************)
(* Every thread that wants the lock gets it and gives it back, if holders  *)
(* unlock and woken threads run.                                           *)
(***************************************************************************)
RwServed == \A t \in RwThreads : (rwState[t] \in {"rd", "wr"}) ~> (rwState[t] = "idle")
=============================================================================
