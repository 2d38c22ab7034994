--------------------------- MODULE ConnPoolProofs ---------------------------
(***************************************************************************)
(* PoolInv holds initially and every step of a connection thread, of a     *)
(* driver and of the main thread preserves it, for any number of drivers,  *)
(* connections and threads: every Conn has at most one holder.             *)
(***************************************************************************)
EXTENDS ConnPool, SequenceTheorems, TLAPS

\* Most leaves are first-order; the ones that need arithmetic or sequences cite SMT.
USE Zenon

\* Unlinking a slot from tqueue leaves a sequence of slots.
LEMMA UnlinkedType ==
    ASSUME NEW t \in Slots, tqueue \in Seq(Slots)
    PROVE  Unlinked(t) \in Seq(Slots)
<1>1. CASE argConn[t] = None /\ \E i \in DOMAIN tqueue : tqueue[i] = t
    <2>1. Len(tqueue) - 1 \in Nat
        BY <1>1, SMT
    <2>2. \A j \in 1..(Len(tqueue) - 1) : tqueue[j] \in Slots /\ tqueue[j + 1] \in Slots
        BY SMT
    <2> QED  BY <1>1, <2>1, <2>2, SMT DEF Unlinked
<1>2. CASE ~(argConn[t] = None /\ \E i \in DOMAIN tqueue : tqueue[i] = t)
    BY <1>2 DEF Unlinked
<1> QED  BY <1>1, <1>2

\* What the proofs use of the constants.
LEMMA ConstantFacts ==
    /\ None \notin Conns /\ None \notin Slots
    /\ MaxConns \in Nat \ {0} /\ Slots = 1..MaxConns
    /\ MaxThreads \in 1..MaxConns /\ MinThreads \in 1..MaxThreads
    /\ ConnsPerThread \in Nat
BY PoolAssumption DEF Slots

\* The initial state satisfies the inductive invariant: all Conns are free
\* and the first minthreads slots have a thread that is starting.
LEMMA InitPool == Init => PoolInv
<1> SUFFICES ASSUME Init PROVE PoolInv
    OBVIOUS
<1> USE ConstantFacts
<1>1. QueueTypes
    BY SMT DEF Init, QueueTypes
<1>2. SlotTypes
    BY DEF Init, SlotTypes, ThreadLabels, ArgStates
<1>3. CounterTypes
    BY SMT DEF Init, CounterTypes
<1>4. MainTypes
    BY DEF Init, MainTypes, MainLabels
<1>5. DriverTypes
    BY DEF Init, DriverTypes, DriverLabels
<1>6. ThreadStates
    BY DEF Init, ThreadStates, ThreadState
<1>7. ConnInOnePlace
    BY SMT DEF Init, ConnInOnePlace, FreeUnused, WaitingUnused, DriverExclusive, ThreadExclusive,
           ThreadHas
<1> QED  BY <1>1, <1>2, <1>3, <1>4, <1>5, <1>6, <1>7 DEF PoolInv, TypeOK

-----------------------------------------------------------------------------
(* Frames: what a step has to show when it moves no connection, or touches *)
(* one slot only.                                                          *)

\* A step that moves no connection keeps every Conn in its place.
LEMMA OwnershipFrame ==
    ASSUME ConnInOnePlace, UNCHANGED <<freeConns, waitQ, dConn, argConn, connPtr>>
    PROVE  ConnInOnePlace'
BY DEF ConnInOnePlace, FreeUnused, WaitingUnused, DriverExclusive, ThreadExclusive, ThreadHas

\* Nor can a step violate it in which connection threads only let go of
\* connections, or rename the ones they hold.
LEMMA FewerHolders ==
    ASSUME PoolInv, UNCHANGED <<freeConns, waitQ, dConn>>,
           \A u \in Slots : \A c \in Conns : ThreadHas(u, c)' => ThreadHas(u, c)
    PROVE  ConnInOnePlace'
<1>1. FreeUnused'
    BY DEF PoolInv, TypeOK, QueueTypes, ConnInOnePlace, FreeUnused
<1>2. WaitingUnused'
    BY SMT DEF PoolInv, TypeOK, QueueTypes, ConnInOnePlace, WaitingUnused
<1>3. DriverExclusive'
    BY DEF PoolInv, ConnInOnePlace, DriverExclusive
<1>4. ThreadExclusive'
    BY DEF PoolInv, ConnInOnePlace, ThreadExclusive
<1> QED  BY <1>1, <1>2, <1>3, <1>4 DEF ConnInOnePlace

\* A step that leaves a slot alone keeps its thread's state.
LEMMA SlotFrame ==
    ASSUME NEW u \in Slots, ThreadState(u), shutdown => shutdown',
           argState'[u] = argState[u], argConn'[u] = argConn[u], pc'[u] = pc[u],
           connPtr'[u] = connPtr[u], status'[u] = status[u]
    PROVE  ThreadState(u)'
BY DEF ThreadState

\* A step that touches only slot t.
Others(t) ==
    \A u \in Slots : u # t =>
        /\ argState'[u] = argState[u] /\ argConn'[u] = argConn[u] /\ pc'[u] = pc[u]
        /\ connPtr'[u] = connPtr[u] /\ status'[u] = status[u]

\* It keeps the states of all threads if it keeps that of t.
LEMMA ThreadStatesFrame ==
    ASSUME PoolInv, NEW t \in Slots, ThreadState(t)', Others(t), UNCHANGED shutdown
    PROVE  ThreadStates'
<1> SUFFICES ASSUME NEW u \in Slots, u # t PROVE ThreadState(u)'
    BY DEF ThreadStates
<1> QED  BY SlotFrame DEF PoolInv, ThreadStates, Others

\* A step of a connection thread that moves no connection.
LEMMA LocalStep ==
    ASSUME PoolInv, NEW t \in Slots, ThreadState(t)', Others(t),
           UNCHANGED <<freeConns, waitQ, argConn, connPtr, shutdown, drivers>>,
           tqueue' \in Seq(Slots), SlotTypes', CounterTypes', MainTypes'
    PROVE  PoolInv'
<1>1. QueueTypes' /\ DriverTypes'
    BY DEF PoolInv, TypeOK, QueueTypes, DriverTypes, drivers
<1>2. ThreadStates'
    BY ThreadStatesFrame
<1>3. ConnInOnePlace'
    BY OwnershipFrame DEF PoolInv, drivers
<1> QED  BY <1>1, <1>2, <1>3 DEF PoolInv, TypeOK

\* A step of a connection thread that changes its program counter only.
LEMMA PcStep ==
    ASSUME PoolInv, NEW t \in Slots, NEW l \in ThreadLabels, Goto(t, l), ThreadState(t)',
           UNCHANGED <<freeConns, waitQ, tqueue, args, counters, limits, shutdown, joinThread,
                       crashed, locals, drivers, main>>
    PROVE  PoolInv'
<1>1. SlotTypes' /\ Others(t)
    BY DEF PoolInv, TypeOK, SlotTypes, Goto, args, locals, Others
<1>2. tqueue' \in Seq(Slots) /\ CounterTypes' /\ MainTypes'
    BY DEF PoolInv, TypeOK, QueueTypes, CounterTypes, MainTypes, counters, limits, main
<1> QED  BY <1>1, <1>2, LocalStep DEF args, locals

-----------------------------------------------------------------------------
(* Connection threads.                                                     *)

\* Control steps: looking at the queue, falling asleep, waking up.
LEMMA ControlSteps ==
    ASSUME PoolInv, NEW t \in Slots,
           \/ ThreadLook(t) \/ ThreadArmed(t) \/ ThreadSleep(t)
           \/ ThreadExpires(t) \/ ThreadSpurious(t) \/ ThreadSignaled(t)
    PROVE  PoolInv'
<1> USE DEF ThreadLabels, IdleRegion
<1>0. ThreadState(t) /\ pc \in [Slots -> ThreadLabels]
    BY DEF PoolInv, TypeOK, SlotTypes, ThreadStates
<1>1. CASE ThreadLook(t)
    <2>1. PICK l \in ThreadLabels : Goto(t, l) /\ l = "take"
        BY <1>1 DEF ThreadLook
    <2>2. ThreadState(t)'
        BY <1>0, <1>1, <2>1 DEF ThreadLook, ThreadState, Goto, args, locals
    <2> QED  BY <1>1, <2>1, <2>2, PcStep DEF ThreadLook
<1>2. CASE ThreadArmed(t)
    <2>1. PICK l \in ThreadLabels : Goto(t, l) /\ l = IF shutdown THEN "unwait" ELSE "sleep"
        BY <1>2 DEF ThreadArmed
    <2>2. ThreadState(t)'
        BY <1>0, <1>2, <2>1 DEF ThreadArmed, ThreadState, Goto, args, locals
    <2> QED  BY <1>2, <2>1, <2>2, PcStep DEF ThreadArmed
<1>3. CASE ThreadSleep(t)
    <2>1. PICK l \in ThreadLabels : Goto(t, l) /\ l = "waiting"
        BY <1>3 DEF ThreadSleep
    <2>2. ThreadState(t)'
        BY <1>0, <1>3, <2>1 DEF ThreadSleep, ThreadState, Goto, args, locals
    <2> QED  BY <1>3, <2>1, <2>2, PcStep DEF ThreadSleep
<1>4. CASE ThreadExpires(t)
    <2>1. PICK l \in ThreadLabels : Goto(t, l) /\ l = "timedout"
        BY <1>4 DEF ThreadExpires
    <2>2. ThreadState(t)'
        BY <1>0, <1>4, <2>1 DEF ThreadExpires, ThreadState, Goto, args, locals
    <2> QED  BY <1>4, <2>1, <2>2, PcStep DEF ThreadExpires
<1>5. CASE ThreadSpurious(t)
    <2>1. PICK l \in ThreadLabels : Goto(t, l) /\ l = "signaled"
        BY <1>5 DEF ThreadSpurious
    <2>2. ThreadState(t)'
        BY <1>0, <1>5, <2>1 DEF ThreadSpurious, ThreadState, Goto, args, locals
    <2> QED  BY <1>5, <2>1, <2>2, PcStep DEF ThreadSpurious
<1>6. CASE ThreadSignaled(t)
    <2>1. PICK l \in ThreadLabels : Goto(t, l) /\ l = IF argConn[t] # None THEN "unwait" ELSE "armed"
        BY <1>6 DEF ThreadSignaled
    <2>2. ThreadState(t)'
        BY <1>0, <1>6, <2>1 DEF ThreadSignaled, ThreadState, Goto, args, locals
    <2> QED  BY <1>6, <2>1, <2>2, PcStep DEF ThreadSignaled
<1> QED  BY <1>1, <1>2, <1>3, <1>4, <1>5, <1>6

\* Start-up.
LEMMA ReadyStep ==
    ASSUME PoolInv, NEW t \in Slots, ThreadReady(t) PROVE PoolInv'
<1> USE DEF PoolInv, TypeOK
<1>1. SlotTypes'
    BY ConstantFacts DEF ThreadReady, SlotTypes, MainTypes, ThreadLabels, IdleRegion,
           ExitRegion, ArgStates, Goto, args, locals
<1>2. ThreadState(t)'
    BY DEF ThreadReady, SlotTypes, ThreadStates, ThreadState, Goto, args, locals
<1>3. Others(t)
    BY DEF ThreadReady, SlotTypes, Others, Goto, args, locals
<1>4. CounterTypes' /\ MainTypes'
    BY SMT DEF ThreadReady, CounterTypes, MainTypes, MainLabels, Slots, counters, limits, main
<1>5. tqueue' \in Seq(Slots)
    BY DEF ThreadReady, QueueTypes
<1> QED
    BY <1>1, <1>2, <1>3, <1>4, <1>5, LocalStep DEF ThreadReady, args, locals

\* Becoming idle.
LEMMA GoIdleStep ==
    ASSUME PoolInv, NEW t \in Slots, ThreadGoIdle(t) PROVE PoolInv'
<1> USE DEF PoolInv, TypeOK
<1>1. SlotTypes'
    BY ConstantFacts DEF ThreadGoIdle, SlotTypes, MainTypes, ThreadLabels, IdleRegion,
           ExitRegion, ArgStates, Goto, args, locals
<1>2. ThreadState(t)'
    BY DEF ThreadGoIdle, SlotTypes, ThreadStates, ThreadState, Goto, args, locals
<1>3. Others(t)
    BY DEF ThreadGoIdle, SlotTypes, Others, Goto, args, locals
<1>4. CounterTypes' /\ MainTypes'
    BY DEF ThreadGoIdle, CounterTypes, MainTypes, MainLabels, Slots, counters, limits, main
<1>5. tqueue' \in Seq(Slots)
    BY ConcatProperties, SMT DEF ThreadGoIdle, QueueTypes
<1> QED
    BY <1>1, <1>2, <1>3, <1>4, <1>5, LocalStep DEF ThreadGoIdle, args, locals

\* A timed-out wait: is there a connection after all?
LEMMA TimedOutStep ==
    ASSUME PoolInv, NEW t \in Slots, ThreadTimedOut(t) PROVE PoolInv'
<1> USE DEF PoolInv, TypeOK
<1>1. SlotTypes'
    BY ConstantFacts DEF ThreadTimedOut, SlotTypes, MainTypes, ThreadLabels, IdleRegion,
           ExitRegion, ArgStates, Goto, args, locals
<1>2. ThreadState(t)'
    BY DEF ThreadTimedOut, SlotTypes, ThreadStates, ThreadState, Goto, args, locals
<1>3. Others(t)
    BY DEF ThreadTimedOut, SlotTypes, Others, Goto, args, locals
<1>4. CounterTypes' /\ MainTypes'
    BY DEF ThreadTimedOut, CounterTypes, MainTypes, MainLabels, Slots, counters, limits,
           main
<1>5. tqueue' \in Seq(Slots)
    BY DEF ThreadTimedOut, QueueTypes
<1> QED
    BY <1>1, <1>2, <1>3, <1>4, <1>5, LocalStep DEF ThreadTimedOut, args, locals

\* A timed-out wait: may the thread leave?
LEMMA JudgeStep ==
    ASSUME PoolInv, NEW t \in Slots, ThreadJudge(t) PROVE PoolInv'
<1> USE DEF PoolInv, TypeOK
<1>1. SlotTypes'
    BY ConstantFacts DEF ThreadJudge, SlotTypes, MainTypes, ThreadLabels, IdleRegion,
           ExitRegion, ArgStates, Goto, args, locals
<1>2. ThreadState(t)'
    BY DEF ThreadJudge, SlotTypes, ThreadStates, ThreadState, Goto, args, locals
<1>3. Others(t)
    BY DEF ThreadJudge, SlotTypes, Others, Goto, args, locals
<1>4. CounterTypes' /\ MainTypes'
    BY DEF ThreadJudge, CounterTypes, MainTypes, MainLabels, Slots, counters, limits, main
<1>5. tqueue' \in Seq(Slots)
    BY DEF ThreadJudge, QueueTypes
<1> QED
    BY <1>1, <1>2, <1>3, <1>4, <1>5, LocalStep DEF ThreadJudge, args, locals

\* Leaving the idle state.
LEMMA UnwaitStep ==
    ASSUME PoolInv, NEW t \in Slots, ThreadUnwait(t) PROVE PoolInv'
<1> USE DEF PoolInv, TypeOK
<1>1. SlotTypes'
    BY ConstantFacts DEF ThreadUnwait, SlotTypes, MainTypes, ThreadLabels, IdleRegion,
           ExitRegion, ArgStates, Goto, args, locals
<1>2. ThreadState(t)'
    BY DEF ThreadUnwait, SlotTypes, ThreadStates, ThreadState, Goto, args, locals
<1>3. Others(t)
    BY DEF ThreadUnwait, SlotTypes, Others, Goto, args, locals
<1>4. CounterTypes' /\ MainTypes'
    BY SMT DEF ThreadUnwait, CounterTypes, MainTypes, MainLabels, Slots, counters, limits, main
<1>5. tqueue' \in Seq(Slots)
    BY UnlinkedType DEF ThreadUnwait, QueueTypes
<1> QED
    BY <1>1, <1>2, <1>3, <1>4, <1>5, LocalStep DEF ThreadUnwait, args, locals

\* Stay or expire.
LEMMA SnapshotStep ==
    ASSUME PoolInv, NEW t \in Slots, ThreadSnapshot(t) PROVE PoolInv'
<1> USE DEF PoolInv, TypeOK
<1>1. SlotTypes'
    <2>1. PICK n \in Nat : ncons' = [ncons EXCEPT ![t] = n]
        <3>1. ncons[t] \in Nat
            BY DEF SlotTypes
        <3>2. (IF ncons[t] > 0 THEN ncons[t] - 1 ELSE 0) \in Nat
            BY <3>1, SMT
        <3> QED  BY <3>2 DEF ThreadSnapshot
    <2>2. PICK l \in {"loop", "dead"} : pc' = [pc EXCEPT ![t] = l]
        BY DEF ThreadSnapshot, Goto
    <2>3. UNCHANGED <<argState, argConn, status, connPtr, oldJoin>>
        BY DEF ThreadSnapshot, args
    <2> QED
        BY <2>1, <2>2, <2>3 DEF SlotTypes, ThreadLabels, ExitRegion
<1>2. ThreadState(t)'
    BY DEF ThreadSnapshot, SlotTypes, ThreadStates, ThreadState, Goto, args, locals
<1>3. Others(t)
    BY DEF ThreadSnapshot, SlotTypes, Others, Goto, args, locals
<1>4. CounterTypes' /\ MainTypes'
    BY DEF ThreadSnapshot, CounterTypes, MainTypes, MainLabels, Slots, counters, limits,
           main
<1>5. tqueue' \in Seq(Slots)
    BY DEF ThreadSnapshot, QueueTypes
<1> QED
    BY <1>1, <1>2, <1>3, <1>4, <1>5, LocalStep DEF ThreadSnapshot, args, locals

\* Exit path: shutdown flag.
LEMMA DeadStep ==
    ASSUME PoolInv, NEW t \in Slots, ThreadDead(t) PROVE PoolInv'
<1> USE DEF PoolInv, TypeOK
<1>1. SlotTypes'
    BY ConstantFacts DEF ThreadDead, SlotTypes, MainTypes, ThreadLabels, IdleRegion,
           ExitRegion, ArgStates, Goto, args, locals
<1>2. ThreadState(t)'
    BY DEF ThreadDead, SlotTypes, ThreadStates, ThreadState, Goto, args, locals
<1>3. Others(t)
    BY DEF ThreadDead, SlotTypes, Others, Goto, args, locals
<1>4. CounterTypes' /\ MainTypes'
    BY DEF ThreadDead, CounterTypes, MainTypes, MainLabels, Slots, counters, limits, main
<1>5. tqueue' \in Seq(Slots)
    BY DEF ThreadDead, QueueTypes
<1> QED
    BY <1>1, <1>2, <1>3, <1>4, <1>5, LocalStep DEF ThreadDead, args, locals

\* Exit path: uncounted.
LEMMA ExitStep ==
    ASSUME PoolInv, NEW t \in Slots, ThreadExit(t) PROVE PoolInv'
<1> USE DEF PoolInv, TypeOK
<1>1. SlotTypes'
    BY ConstantFacts DEF ThreadExit, SlotTypes, MainTypes, ThreadLabels, IdleRegion,
           ExitRegion, ArgStates, Goto, args, locals
<1>2. ThreadState(t)'
    BY DEF ThreadExit, SlotTypes, ThreadStates, ThreadState, Goto, args, locals
<1>3. Others(t)
    BY DEF ThreadExit, SlotTypes, Others, Goto, args, locals
<1>4. CounterTypes' /\ MainTypes'
    BY SMT DEF ThreadExit, CounterTypes, MainTypes, MainLabels, Slots, counters, limits, main
<1>5. tqueue' \in Seq(Slots)
    BY DEF ThreadExit, QueueTypes
<1> QED
    BY <1>1, <1>2, <1>3, <1>4, <1>5, LocalStep DEF ThreadExit, args, locals

\* Exit path: signal to the main thread.
LEMMA SignalMainStep ==
    ASSUME PoolInv, NEW t \in Slots, ThreadSignalMain(t) PROVE PoolInv'
<1> USE DEF PoolInv, TypeOK
<1>1. SlotTypes'
    BY ConstantFacts DEF ThreadSignalMain, SlotTypes, MainTypes, ThreadLabels, IdleRegion,
           ExitRegion, ArgStates, Goto, args, locals
<1>2. ThreadState(t)'
    BY DEF ThreadSignalMain, SlotTypes, ThreadStates, ThreadState, Goto, args, locals
<1>3. Others(t)
    BY DEF ThreadSignalMain, SlotTypes, Others, Goto, args, locals
<1>4. CounterTypes' /\ MainTypes'
    BY DEF ThreadSignalMain, CounterTypes, MainTypes, MainLabels, Slots, counters, limits,
           main
<1>5. tqueue' \in Seq(Slots)
    BY DEF ThreadSignalMain, QueueTypes
<1> QED
    BY <1>1, <1>2, <1>3, <1>4, <1>5, LocalStep DEF ThreadSignalMain, args, locals

\* Exit path: predecessor read.
LEMMA JoinReadStep ==
    ASSUME PoolInv, NEW t \in Slots, ThreadJoinRead(t) PROVE PoolInv'
<1> USE DEF PoolInv, TypeOK
<1>1. SlotTypes'
    BY ConstantFacts DEF ThreadJoinRead, SlotTypes, MainTypes, ThreadLabels, IdleRegion,
           ExitRegion, ArgStates, Goto, args, locals
<1>2. ThreadState(t)'
    BY DEF ThreadJoinRead, SlotTypes, ThreadStates, ThreadState, Goto, args, locals
<1>3. Others(t)
    BY DEF ThreadJoinRead, SlotTypes, Others, Goto, args, locals
<1>4. CounterTypes' /\ MainTypes'
    BY DEF ThreadJoinRead, CounterTypes, MainTypes, MainLabels, Slots, counters, limits,
           main
<1>5. tqueue' \in Seq(Slots)
    BY DEF ThreadJoinRead, QueueTypes
<1> QED
    BY <1>1, <1>2, <1>3, <1>4, <1>5, LocalStep DEF ThreadJoinRead, args, locals

\* Exit path: successor announced.
LEMMA JoinSetStep ==
    ASSUME PoolInv, NEW t \in Slots, ThreadJoinSet(t) PROVE PoolInv'
<1> USE DEF PoolInv, TypeOK
<1>1. SlotTypes'
    BY ConstantFacts DEF ThreadJoinSet, SlotTypes, MainTypes, ThreadLabels, IdleRegion,
           ExitRegion, ArgStates, Goto, args, locals
<1>2. ThreadState(t)'
    BY DEF ThreadJoinSet, SlotTypes, ThreadStates, ThreadState, Goto, args, locals
<1>3. Others(t)
    BY DEF ThreadJoinSet, SlotTypes, Others, Goto, args, locals
<1>4. CounterTypes' /\ MainTypes'
    BY DEF ThreadJoinSet, CounterTypes, MainTypes, MainLabels, Slots, counters, limits, main
<1>5. tqueue' \in Seq(Slots)
    BY DEF ThreadJoinSet, QueueTypes
<1> QED
    BY <1>1, <1>2, <1>3, <1>4, <1>5, LocalStep DEF ThreadJoinSet, args, locals

\* Exit path: predecessor joined, slot freed.
LEMMA FreeStep ==
    ASSUME PoolInv, NEW t \in Slots, ThreadFree(t) PROVE PoolInv'
<1> USE DEF PoolInv, TypeOK
<1>1. SlotTypes'
    BY ConstantFacts DEF ThreadFree, Bury, SlotTypes, MainTypes, ThreadLabels, IdleRegion,
           ExitRegion, ArgStates, Goto, args, locals
<1>2. ThreadState(t)'
    BY DEF ThreadFree, Bury, SlotTypes, ThreadStates, ThreadState, Goto, args, locals
<1>3. Others(t)
    BY DEF ThreadFree, Bury, SlotTypes, Others, Goto, args, locals
<1>4. CounterTypes' /\ MainTypes'
    BY DEF ThreadFree, Bury, CounterTypes, MainTypes, MainLabels, Slots, counters, limits,
           main
<1>5. tqueue' \in Seq(Slots)
    BY DEF ThreadFree, QueueTypes
<1> QED
    BY <1>1, <1>2, <1>3, <1>4, <1>5, LocalStep DEF ThreadFree, args, locals

\* A step of a connection thread that may move a connection.
LEMMA MovingStep ==
    ASSUME PoolInv, NEW t \in Slots, ThreadState(t)', Others(t), UNCHANGED <<shutdown, drivers>>,
           QueueTypes', SlotTypes', CounterTypes', MainTypes', ConnInOnePlace'
    PROVE  PoolInv'
<1>1. DriverTypes'
    BY DEF PoolInv, TypeOK, DriverTypes, drivers
<1>2. ThreadStates'
    BY ThreadStatesFrame
<1> QED  BY <1>1, <1>2 DEF PoolInv, TypeOK

\* The first waiting connection moves to the thread.
LEMMA TakeFirstStep ==
    ASSUME PoolInv, NEW t \in Slots, ThreadTake(t), waitQ # <<>> PROVE PoolInv'
<1>1. waitQ \in Seq(Conns) /\ Len(waitQ) \in Nat \ {0}
    BY SMT DEF PoolInv, TypeOK, QueueTypes
<1>2. Head(waitQ) \in Conns /\ Head(waitQ) = waitQ[1] /\ 1 \in DOMAIN waitQ
    BY <1>1, SMT
<1>3. PICK c \in Conns : c = Head(waitQ)
    BY <1>2
<1>4. /\ argConn' = [argConn EXCEPT ![t] = c] /\ connPtr' = [connPtr EXCEPT ![t] = c]
      /\ waitQ' = Tail(waitQ) /\ pc' = [pc EXCEPT ![t] = "run"]
      /\ UNCHANGED <<freeConns, tqueue, argState, status, ncons, oldJoin, dConn>>
    BY <1>3 DEF ThreadTake, Goto, drivers
<1>5. /\ waitQ' \in Seq(Conns) /\ Len(waitQ') = Len(waitQ) - 1
      /\ \A i \in 1..Len(waitQ') : waitQ'[i] = waitQ[i + 1]
    BY <1>1, <1>4, HeadTailProperties
<1>6. \A i \in DOMAIN waitQ' : i + 1 \in DOMAIN waitQ /\ waitQ'[i] = waitQ[i + 1] /\ i + 1 # 1
    BY <1>1, <1>5, SMT
<1>7. /\ c \notin freeConns
      /\ \A e \in Drivers : dConn[e] # c
      /\ \A u \in Slots : ~ThreadHas(u, c)
      /\ \A i \in DOMAIN waitQ : waitQ[i] = c => i = 1
    BY <1>2, <1>3 DEF PoolInv, ConnInOnePlace, FreeUnused, WaitingUnused
<1>8. \A u \in Slots : \A b \in Conns : ThreadHas(u, b)' <=>
         IF u = t THEN b = c ELSE ThreadHas(u, b)
    BY <1>4 DEF PoolInv, TypeOK, SlotTypes, ThreadHas
<1>9. QueueTypes' /\ CounterTypes' /\ MainTypes'
    BY <1>4, <1>5 DEF ThreadTake, PoolInv, TypeOK, QueueTypes, CounterTypes, MainTypes, limits, main
<1>10. SlotTypes' /\ Others(t)
    BY <1>4 DEF PoolInv, TypeOK, SlotTypes, ThreadLabels, Others
<1>11. ThreadState(t)'
    BY <1>4, ConstantFacts DEF ThreadTake, PoolInv, TypeOK, SlotTypes, ThreadStates, ThreadState
<1>12. FreeUnused'
    BY <1>4, <1>6, <1>7, <1>8, SMT DEF PoolInv, TypeOK, QueueTypes, ConnInOnePlace, FreeUnused
<1>13. WaitingUnused'
    <2>1. ASSUME NEW i \in DOMAIN waitQ', NEW j \in DOMAIN waitQ', waitQ'[i] = waitQ'[j]
          PROVE  i = j
        <3>1. i + 1 = j + 1
            BY <1>6, <2>1, SMT DEF PoolInv, ConnInOnePlace, WaitingUnused
        <3> QED  BY <1>5, <3>1, SMT
    <2>2. ASSUME NEW i \in DOMAIN waitQ'
          PROVE  /\ \A e \in Drivers : dConn'[e] # waitQ'[i]
                 /\ \A u \in Slots : ~ThreadHas(u, waitQ[i])'
        <3>1. PICK k \in DOMAIN waitQ : k # 1 /\ waitQ'[i] = waitQ[k]
            BY <1>6
        <3>2. /\ waitQ[k] # c /\ \A e \in Drivers : dConn[e] # waitQ[k]
              /\ \A u \in Slots : ~ThreadHas(u, waitQ[k])
            BY <1>7, <3>1 DEF PoolInv, ConnInOnePlace, WaitingUnused
        <3> QED  BY <1>4, <3>1, <3>2 DEF PoolInv, TypeOK, SlotTypes, ThreadHas
    <2> QED  BY <2>1, <2>2 DEF WaitingUnused
<1>14. DriverExclusive' /\ ThreadExclusive'
    BY <1>4, <1>7, <1>8, SMT DEF PoolInv, ConnInOnePlace, DriverExclusive, ThreadExclusive
<1> QED
    BY <1>9, <1>10, <1>11, <1>12, <1>13, <1>14, MovingStep DEF ConnInOnePlace, ThreadTake

\* Another thread was faster: back to idling.
LEMMA TakeNothingStep ==
    ASSUME PoolInv, NEW t \in Slots, ThreadTake(t), waitQ = <<>> PROVE PoolInv'
<1>1. /\ argConn' = [argConn EXCEPT ![t] = None] /\ idle' = idle + 1
      /\ pc' = [pc EXCEPT ![t] = "goidle"]
      /\ UNCHANGED <<freeConns, waitQ, tqueue, argState, status, connPtr, ncons, oldJoin, dConn>>
    BY DEF ThreadTake, Goto, drivers
<1>2. QueueTypes' /\ CounterTypes' /\ MainTypes'
    BY <1>1, SMT DEF ThreadTake, PoolInv, TypeOK, QueueTypes, CounterTypes, MainTypes, limits, main
<1>3. SlotTypes' /\ Others(t)
    BY <1>1 DEF PoolInv, TypeOK, SlotTypes, ThreadLabels, Others
<1>4. ThreadState(t)'
    BY <1>1 DEF ThreadTake, PoolInv, TypeOK, SlotTypes, ThreadStates, ThreadState
<1>5. \A u \in Slots : \A c \in Conns : ThreadHas(u, c)' => ThreadHas(u, c)
    BY <1>1, ConstantFacts DEF PoolInv, TypeOK, SlotTypes, ThreadHas
<1>6. ConnInOnePlace'
    BY <1>1, <1>5, FewerHolders
<1> QED  BY <1>2, <1>3, <1>4, <1>6, MovingStep DEF ThreadTake

\* The thread becomes idle, or runs what it was given.
LEMMA NothingWaitingStep ==
    ASSUME PoolInv, NEW t \in Slots, ThreadNothingWaiting(t) PROVE PoolInv'
<1>1. /\ UNCHANGED <<freeConns, waitQ, tqueue, argState, argConn, status, ncons, oldJoin, dConn>>
      /\ pc[t] = "loop"
      /\ \/ /\ argConn[t] = None /\ idle' = idle + 1 /\ pc' = [pc EXCEPT ![t] = "goidle"]
            /\ UNCHANGED connPtr
         \/ /\ argConn[t] # None /\ UNCHANGED idle /\ pc' = [pc EXCEPT ![t] = "run"]
            /\ connPtr' = [connPtr EXCEPT ![t] = argConn[t]]
    BY DEF ThreadNothingWaiting, Goto, drivers, args
<1>2. QueueTypes' /\ CounterTypes' /\ MainTypes'
    BY <1>1, SMT DEF ThreadNothingWaiting, PoolInv, TypeOK, QueueTypes, CounterTypes, MainTypes,
           limits, main
<1>3. SlotTypes' /\ Others(t)
    BY <1>1 DEF PoolInv, TypeOK, SlotTypes, ThreadLabels, Others
<1>4. ThreadState(t)'
    BY <1>1 DEF PoolInv, TypeOK, SlotTypes, ThreadStates, ThreadState
<1>5. \A u \in Slots : \A c \in Conns : ThreadHas(u, c)' => ThreadHas(u, c)
    BY <1>1, SMT DEF PoolInv, TypeOK, SlotTypes, ThreadHas
<1>6. ConnInOnePlace'
    BY <1>1, <1>5, FewerHolders
<1> QED  BY <1>2, <1>3, <1>4, <1>6, MovingStep DEF ThreadNothingWaiting

\* The thread runs the connection it was given, or leaves.
LEMMA DecideStep ==
    ASSUME PoolInv, NEW t \in Slots, ThreadDecide(t) PROVE PoolInv'
<1>1. /\ UNCHANGED <<freeConns, waitQ, tqueue, argState, argConn, status, ncons, oldJoin, dConn>>
      /\ pc[t] = "decide"
      /\ \/ /\ MustLeave(t) /\ pc' = [pc EXCEPT ![t] = "dead"] /\ UNCHANGED connPtr
         \/ /\ ~MustLeave(t) /\ pc' = [pc EXCEPT ![t] = "run"]
            /\ connPtr' = [connPtr EXCEPT ![t] = argConn[t]]
    BY DEF ThreadDecide, Goto, drivers, args
<1>2. QueueTypes' /\ CounterTypes' /\ MainTypes'
    BY <1>1 DEF ThreadDecide, PoolInv, TypeOK, QueueTypes, CounterTypes, MainTypes, counters,
           limits, main
<1>3. SlotTypes' /\ Others(t)
    BY <1>1 DEF PoolInv, TypeOK, SlotTypes, ThreadLabels, ExitRegion, Others
<1>4. ThreadState(t)'
    <2>1. ThreadState(t) /\ (~MustLeave(t) => argConn[t] \in Conns)
        BY <1>1 DEF PoolInv, TypeOK, SlotTypes, MustLeave, ThreadStates, ThreadState
    <2>2. \/ pc'[t] = "dead" /\ connPtr'[t] = connPtr[t]
          \/ pc'[t] = "run" /\ status[t] = "ok" /\ connPtr'[t] \in Conns
        BY <1>1, <2>1 DEF PoolInv, TypeOK, SlotTypes, MustLeave
    <2> QED  BY <1>1, <2>1, <2>2 DEF ThreadState
<1>5. \A u \in Slots : \A c \in Conns : ThreadHas(u, c)' => ThreadHas(u, c)
    BY <1>1, SMT DEF PoolInv, TypeOK, SlotTypes, ThreadHas
<1>6. ConnInOnePlace'
    BY <1>1, <1>5, FewerHolders
<1> QED  BY <1>2, <1>3, <1>4, <1>6, MovingStep DEF ThreadDecide

\* The connection is finished and no longer the thread's assignment.
LEMMA RunStep ==
    ASSUME PoolInv, NEW t \in Slots, ThreadRun(t) PROVE PoolInv'
<1>1. /\ argConn' = [argConn EXCEPT ![t] = None] /\ pc[t] = "run"
      /\ pc' = [pc EXCEPT ![t] = "release"]
      /\ UNCHANGED <<freeConns, waitQ, tqueue, argState, status, connPtr, ncons, oldJoin, dConn>>
    BY DEF ThreadRun, Goto, drivers, locals
<1>2. QueueTypes' /\ CounterTypes' /\ MainTypes'
    BY <1>1 DEF ThreadRun, PoolInv, TypeOK, QueueTypes, CounterTypes, MainTypes, counters,
           limits, main
<1>3. SlotTypes' /\ Others(t)
    BY <1>1 DEF PoolInv, TypeOK, SlotTypes, ThreadLabels, Others
<1>4. ThreadState(t)'
    <2>1. ThreadState(t) /\ None \notin Conns
        BY ConstantFacts DEF PoolInv, ThreadStates
    <2>2. pc'[t] = "release" /\ argConn'[t] = None
        BY <1>1 DEF PoolInv, TypeOK, SlotTypes
    <2> QED  BY <1>1, <2>1, <2>2 DEF ThreadState
<1>5. \A u \in Slots : \A c \in Conns : ThreadHas(u, c)' => ThreadHas(u, c)
    BY <1>1, ConstantFacts DEF PoolInv, TypeOK, SlotTypes, ThreadHas
<1>6. ConnInOnePlace'
    BY <1>1, <1>5, FewerHolders
<1> QED  BY <1>2, <1>3, <1>4, <1>6, MovingStep DEF ThreadRun

\* The connection moves to the free list.
LEMMA ReleaseStep ==
    ASSUME PoolInv, NEW t \in Slots, ThreadRelease(t) PROVE PoolInv'
<1>0. pc[t] = "release" /\ connPtr[t] \in Conns /\ argConn[t] # connPtr[t]
    BY DEF ThreadRelease, PoolInv, ThreadStates, ThreadState
<1>1. PICK c \in Conns : c = connPtr[t]
    BY <1>0
<1>2. /\ freeConns' = freeConns \cup {c} /\ connPtr' = [connPtr EXCEPT ![t] = None]
      /\ argState' = [argState EXCEPT ![t] = "ready"] /\ pc' = [pc EXCEPT ![t] = "snapshot"]
      /\ UNCHANGED <<waitQ, tqueue, argConn, status, ncons, oldJoin, dConn>>
    BY <1>1 DEF ThreadRelease, Goto, drivers
<1>3. QueueTypes' /\ CounterTypes' /\ MainTypes'
    BY <1>2 DEF ThreadRelease, PoolInv, TypeOK, QueueTypes, CounterTypes, MainTypes, counters,
           limits, main
<1>4. SlotTypes' /\ Others(t)
    BY <1>2 DEF PoolInv, TypeOK, SlotTypes, ThreadLabels, ArgStates, Others
<1>5. ThreadState(t)'
    BY <1>0, <1>2, ConstantFacts DEF PoolInv, TypeOK, SlotTypes, ThreadStates, ThreadState
<1>6. ThreadHas(t, c) /\ \A u \in Slots : ThreadHas(u, c) => u = t
    BY <1>1 DEF PoolInv, ConnInOnePlace, ThreadExclusive, ThreadHas
<1>7. \A u \in Slots : \A b \in Conns : ThreadHas(u, b)' => ThreadHas(u, b) /\ b # c
    BY <1>0, <1>1, <1>2, <1>6, ConstantFacts DEF PoolInv, TypeOK, SlotTypes, ThreadHas
<1>8. /\ \A i \in DOMAIN waitQ : waitQ[i] # c
      /\ \A e \in Drivers : dConn[e] # c
    BY <1>1, <1>6 DEF PoolInv, ConnInOnePlace, WaitingUnused, DriverExclusive
<1>9. FreeUnused'
    BY <1>2, <1>7, <1>8 DEF PoolInv, TypeOK, QueueTypes, ConnInOnePlace, FreeUnused
<1>10. WaitingUnused'
    <2>1. \A i \in DOMAIN waitQ : waitQ[i] \in Conns
        BY SMT DEF PoolInv, TypeOK, QueueTypes
    <2>2. \A i \in DOMAIN waitQ : \A u \in Slots : ~ThreadHas(u, waitQ[i])
        BY DEF PoolInv, ConnInOnePlace, WaitingUnused
    <2>3. \A i \in DOMAIN waitQ : \A u \in Slots : ~ThreadHas(u, waitQ[i])'
        BY <1>2, <1>7, <2>1, <2>2
    <2> QED  BY <1>2, <2>3 DEF PoolInv, ConnInOnePlace, WaitingUnused
<1>11. DriverExclusive' /\ ThreadExclusive'
    BY <1>2, <1>7 DEF PoolInv, ConnInOnePlace, DriverExclusive, ThreadExclusive
<1> QED
    BY <1>3, <1>4, <1>5, <1>9, <1>10, <1>11, MovingStep DEF ConnInOnePlace, ThreadRelease

\* Every step of NsConnThread preserves the invariant.
LEMMA ThreadPool ==
    ASSUME PoolInv, NEW t \in Slots, ThreadStep(t) \/ ThreadExpires(t) \/ ThreadSpurious(t)
    PROVE  PoolInv'
BY ControlSteps, ReadyStep, GoIdleStep, TimedOutStep, JudgeStep, UnwaitStep, SnapshotStep,
   DeadStep, ExitStep, SignalMainStep, JoinReadStep, JoinSetStep, FreeStep, TakeFirstStep,
   TakeNothingStep,
   NothingWaitingStep, DecideStep, RunStep, ReleaseStep DEF ThreadStep

-----------------------------------------------------------------------------
(* Drivers.                                                                *)

\* A step of a driver that touches no slot.
LEMMA DriverFrame ==
    ASSUME PoolInv, UNCHANGED <<args, pc, locals, limits, shutdown, joinThread, crashed, main>>,
           QueueTypes', CounterTypes', DriverTypes', ConnInOnePlace'
    PROVE  PoolInv'
<1>1. SlotTypes' /\ MainTypes'
    BY DEF PoolInv, TypeOK, SlotTypes, MainTypes, args, locals, main
<1>2. ThreadStates'
    BY SlotFrame DEF PoolInv, ThreadStates, args, locals
<1> QED  BY <1>1, <1>2 DEF PoolInv, TypeOK

\* A free connection moves to the driver.
LEMMA TakeFreeStep ==
    ASSUME PoolInv, NEW d \in Drivers, QueueTake(d), freeConns # {} PROVE PoolInv'
<1>1. PICK c \in freeConns :
         /\ freeConns' = freeConns \ {c} /\ dConn' = [dConn EXCEPT ![d] = c]
         /\ dpc[d] = "take" /\ dpc' = [dpc EXCEPT ![d] = "dequeue"]
         /\ UNCHANGED <<waitQ, tqueue, argConn, connPtr, dArg, dCreate>>
    BY DEF QueueTake, DriverGoto, args, locals
<1>2. c \in Conns /\ QueueTypes'
    BY <1>1 DEF PoolInv, TypeOK, QueueTypes
<1>3. DriverTypes'
    BY <1>1, <1>2 DEF PoolInv, TypeOK, DriverTypes, DriverLabels
<1>4. CounterTypes'
    BY DEF QueueTake, PoolInv, TypeOK, CounterTypes, counters, limits
<1>5. FreeUnused' /\ WaitingUnused'
    BY <1>1, <1>2 DEF PoolInv, TypeOK, DriverTypes, ConnInOnePlace, FreeUnused,
           WaitingUnused, ThreadHas
<1>6. DriverExclusive' /\ ThreadExclusive'
    BY <1>1, <1>2, SMT DEF PoolInv, TypeOK, DriverTypes, ConnInOnePlace, FreeUnused,
           DriverExclusive, ThreadExclusive, ThreadHas
<1> QED  BY <1>2, <1>3, <1>4, <1>5, <1>6, DriverFrame DEF QueueTake, ConnInOnePlace

\* The test of the shutdown flag, and finding no free connection.
LEMMA NoConnStep ==
    ASSUME PoolInv, NEW d \in Drivers, QueueCheck(d) \/ (QueueTake(d) /\ freeConns = {})
    PROVE  PoolInv'
<1>1. PICK l \in {"take", "loop"} : dpc' = [dpc EXCEPT ![d] = l]
    BY DEF QueueCheck, QueueTake, DriverGoto
<1>2. /\ dpc[d] \in {"take", "loop"}
      /\ UNCHANGED <<freeConns, waitQ, tqueue, args, counters, limits, shutdown, joinThread,
                     crashed, pc, locals, dConn, dArg, dCreate, main>>
    BY DEF QueueCheck, QueueTake
<1>3. QueueTypes' /\ CounterTypes'
    BY <1>2 DEF PoolInv, TypeOK, QueueTypes, CounterTypes, counters, limits
<1>4. DriverTypes'
    BY <1>1, <1>2 DEF PoolInv, TypeOK, DriverTypes, DriverLabels
<1>5. ConnInOnePlace'
    BY <1>2, OwnershipFrame DEF PoolInv, args, locals
<1> QED  BY <1>2, <1>3, <1>4, <1>5, DriverFrame

\* An idle thread is popped, if there is one.
LEMMA QueueDequeueStep ==
    ASSUME PoolInv, NEW d \in Drivers, QueueDequeue(d) PROVE PoolInv'
<1>1. tqueue \in Seq(Slots)
    BY DEF PoolInv, TypeOK, QueueTypes
<1>2. tqueue # <<>> => Head(tqueue) \in Slots /\ Tail(tqueue) \in Seq(Slots)
    BY <1>1, HeadTailProperties
<1>3. dpc[d] = "dequeue" /\ UNCHANGED <<dConn, dCreate>>
    BY DEF QueueDequeue
<1>4. QueueTypes'
    BY <1>1, <1>2 DEF PoolInv, TypeOK, QueueTypes, QueueDequeue, PopIdle
<1>5. DriverTypes'
    <2>1. CASE tqueue # <<>>
        <3>1. /\ dpc' = [dpc EXCEPT ![d] = "assign"]
              /\ dArg' = [dArg EXCEPT ![d] = Head(tqueue)]
            BY <2>1 DEF QueueDequeue, DriverGoto
        <3> QED  BY <1>2, <1>3, <2>1, <3>1 DEF PoolInv, TypeOK, DriverTypes, DriverLabels
    <2>2. CASE tqueue = <<>>
        <3>1. dpc' = [dpc EXCEPT ![d] = "append"] /\ UNCHANGED dArg
            BY <2>2 DEF QueueDequeue, DriverGoto
        <3> QED  BY <1>3, <3>1 DEF PoolInv, TypeOK, DriverTypes, DriverLabels
    <2> QED  BY <2>1, <2>2
<1>6. CounterTypes'
    BY DEF QueueDequeue, PoolInv, TypeOK, CounterTypes, counters, limits
<1>7. ConnInOnePlace'
    BY OwnershipFrame DEF PoolInv, QueueDequeue, args, locals
<1> QED  BY <1>4, <1>5, <1>6, <1>7, DriverFrame DEF QueueDequeue

\* The connection moves to the idle thread.
LEMMA QueueAssignStep ==
    ASSUME PoolInv, NEW d \in Drivers, QueueAssign(d) PROVE PoolInv'
<1>0. dConn[d] \in Conns /\ dArg[d] \in Slots /\ dpc[d] = "assign"
    BY DEF PoolInv, TypeOK, DriverTypes, QueueAssign
<1>1. PICK t \in Slots, c \in Conns : t = dArg[d] /\ c = dConn[d]
    BY <1>0
<1>2. /\ argConn' = [argConn EXCEPT ![t] = c] /\ dConn' = [dConn EXCEPT ![d] = None]
      /\ dpc' = [dpc EXCEPT ![d] = "need"]
      /\ UNCHANGED <<freeConns, waitQ, tqueue, argState, pc, status, connPtr, ncons, oldJoin,
                     dArg, dCreate, shutdown>>
    BY <1>1 DEF QueueAssign, DriverGoto, locals
<1>3. None \notin Conns
    BY ConstantFacts
<1>4. (QueueTypes /\ CounterTypes /\ MainTypes)'
    BY DEF QueueAssign, PoolInv, TypeOK, QueueTypes, CounterTypes, MainTypes, counters, limits,
           main
<1>5. SlotTypes'
    BY <1>1, <1>2 DEF PoolInv, TypeOK, SlotTypes
<1>6. DriverTypes'
    BY <1>0, <1>2, <1>3 DEF PoolInv, TypeOK, DriverTypes, DriverLabels
<1>7. /\ \A u \in Slots : ~ThreadHas(u, c) /\ c \notin freeConns
      /\ \A i \in DOMAIN waitQ : waitQ[i] # c
      /\ \A e \in Drivers : e # d => dConn[e] # c
    BY <1>1 DEF PoolInv, ConnInOnePlace, FreeUnused, WaitingUnused, DriverExclusive
<1>8. ThreadStates'
    <2>1. ThreadState(t) /\ connPtr[t] # c
        BY <1>1, <1>7 DEF PoolInv, ThreadStates, ThreadHas
    <2>2. ThreadState(t)' /\ Others(t)
        BY <1>1, <1>2, <1>3, <2>1 DEF PoolInv, TypeOK, SlotTypes, ThreadState, Others
    <2> QED  BY <1>1, <1>2, <2>2, ThreadStatesFrame
<1>9. ConnInOnePlace'
    <2>1. \A u \in Slots : \A b \in Conns :
             ThreadHas(u, b)' => ThreadHas(u, b) \/ (u = t /\ b = c)
        BY <1>1, <1>2 DEF PoolInv, TypeOK, SlotTypes, ThreadHas
    <2>2. \A e \in Drivers : dConn'[e] \in Conns => e # d /\ dConn'[e] = dConn[e]
        BY <1>2, <1>3 DEF PoolInv, TypeOK, DriverTypes
    <2>3. \A e \in Drivers : dConn'[e] = dConn[e] \/ dConn'[e] = None
        BY <1>2 DEF PoolInv, TypeOK, DriverTypes
    <2>4. FreeUnused'
        BY <1>2, <1>3, <1>7, <2>1, <2>3 DEF PoolInv, TypeOK, QueueTypes, ConnInOnePlace,
               FreeUnused
    <2>5. WaitingUnused'
        BY <1>2, <1>3, <1>7, <2>1, <2>3, SMTT(30) DEF PoolInv, TypeOK, QueueTypes, ConnInOnePlace,
               WaitingUnused
    <2>6. DriverExclusive'
        BY <1>7, <2>1, <2>2 DEF PoolInv, ConnInOnePlace, DriverExclusive
    <2>7. ThreadExclusive'
        BY <1>7, <2>1 DEF PoolInv, ConnInOnePlace, ThreadExclusive
    <2> QED  BY <2>4, <2>5, <2>6, <2>7 DEF ConnInOnePlace
<1> QED  BY <1>4, <1>5, <1>6, <1>8, <1>9 DEF PoolInv, TypeOK

\* The need for another thread is computed.
LEMMA QueueNeedStep ==
    ASSUME PoolInv, NEW d \in Drivers, QueueNeed(d) PROVE PoolInv'
<1>1. Needed(Len(waitQ)) \in BOOLEAN
    BY DEF Needed
<1>2. /\ dpc[d] = "need" /\ dpc' = [dpc EXCEPT ![d] = "signal"]
      /\ dCreate' = [dCreate EXCEPT ![d] = Needed(Len(waitQ))]
      /\ UNCHANGED <<dConn, dArg>>
    BY DEF QueueNeed, DriverGoto
<1>3. DriverTypes'
    BY <1>1, <1>2 DEF PoolInv, TypeOK, DriverTypes, DriverLabels
<1>4. QueueTypes' /\ CounterTypes'
    BY DEF QueueNeed, PoolInv, TypeOK, QueueTypes, CounterTypes, counters, limits
<1>5. ConnInOnePlace'
    BY OwnershipFrame DEF PoolInv, QueueNeed, args, locals
<1> QED  BY <1>3, <1>4, <1>5, DriverFrame DEF QueueNeed

\* The idle thread is signaled.
LEMMA QueueSignalStep ==
    ASSUME PoolInv, NEW d \in Drivers, QueueSignal(d) PROVE PoolInv'
<1>0. dArg[d] \in Slots /\ dpc[d] = "signal" /\ UNCHANGED dConn
    BY DEF PoolInv, TypeOK, DriverTypes, QueueSignal
<1>1. PICK t \in Slots : t = dArg[d]
    BY <1>0
<1>2. \/ pc[t] = "waiting" /\ pc' = [pc EXCEPT ![t] = "signaled"]
      \/ UNCHANGED pc
    BY <1>1 DEF QueueSignal, Goto
<1>3. DriverTypes'
    <2>1. PICK l \in {"count", "loop"} : dpc' = [dpc EXCEPT ![d] = l]
        BY DEF QueueSignal, DriverGoto
    <2>2. dArg' = [dArg EXCEPT ![d] = None] /\ dCreate' = [dCreate EXCEPT ![d] = FALSE]
        BY DEF QueueSignal
    <2>3. None \notin Slots
        BY ConstantFacts
    <2> QED  BY <1>0, <2>1, <2>2, <2>3 DEF PoolInv, TypeOK, DriverTypes, DriverLabels
<1>4. (QueueTypes /\ CounterTypes /\ MainTypes)'
    BY DEF QueueSignal, PoolInv, TypeOK, QueueTypes, CounterTypes, MainTypes, counters, limits,
           main
<1>5. UNCHANGED <<argState, argConn, status, connPtr, ncons, oldJoin, shutdown>>
    BY DEF QueueSignal, args, locals
<1>6. SlotTypes'
    BY <1>1, <1>2, <1>5, SMT DEF PoolInv, TypeOK, SlotTypes, ThreadLabels, IdleRegion
<1>7. ThreadStates'
    <2>1. ThreadState(t)' /\ Others(t)
        BY <1>1, <1>2, <1>5, SMTT(30) DEF PoolInv, TypeOK, SlotTypes, ThreadStates, ThreadState, Others
    <2> QED  BY <1>1, <1>5, <2>1, ThreadStatesFrame
<1>8. ConnInOnePlace'
    BY OwnershipFrame DEF PoolInv, QueueSignal, args, locals
<1> QED  BY <1>3, <1>4, <1>6, <1>7, <1>8 DEF PoolInv, TypeOK

\* The connection moves to the end of the waiting queue.
LEMMA QueueAppendStep ==
    ASSUME PoolInv, NEW d \in Drivers, QueueAppend(d) PROVE PoolInv'
<1>0. dConn[d] \in Conns /\ waitQ \in Seq(Conns) /\ dpc[d] = "append" /\ None \notin Conns
    BY ConstantFacts DEF PoolInv, TypeOK, QueueTypes, DriverTypes, QueueAppend
<1>1. PICK c \in Conns, n \in Nat \ {0} : c = dConn[d] /\ n = Len(waitQ) + 1
    BY <1>0, SMT
<1>2. PICK l \in {"count", "loop"} : dpc' = [dpc EXCEPT ![d] = l]
    BY DEF QueueAppend, DriverGoto
<1>3. /\ waitQ' = Append(waitQ, c) /\ dConn' = [dConn EXCEPT ![d] = None]
      /\ UNCHANGED <<freeConns, tqueue, argConn, connPtr, dArg, dCreate>>
    BY <1>1 DEF QueueAppend, args, locals
<1>5. /\ waitQ' \in Seq(Conns) /\ DOMAIN waitQ' = 1..n /\ DOMAIN waitQ = 1..(n - 1)
      /\ \A i \in 1..(n - 1) : waitQ'[i] = waitQ[i]
      /\ waitQ'[n] = c
    BY <1>0, <1>1, <1>3, AppendProperties, SMT
<1>6. \A i \in DOMAIN waitQ' : waitQ'[i] = c \/ (i \in DOMAIN waitQ /\ waitQ'[i] = waitQ[i])
    BY <1>5, SMT
<1>7. \A i \in DOMAIN waitQ' : waitQ'[i] = c => i = n \/ (i \in DOMAIN waitQ /\ waitQ[i] = c)
    BY <1>5, SMT
<1>8. QueueTypes' /\ CounterTypes'
    BY <1>3, <1>5 DEF QueueAppend, PoolInv, TypeOK, QueueTypes, CounterTypes, counters, limits
<1>9. DriverTypes'
    BY <1>0, <1>2, <1>3 DEF PoolInv, TypeOK, DriverTypes, DriverLabels
<1>10. /\ c \notin freeConns
       /\ \A u \in Slots : ~ThreadHas(u, c)
       /\ \A i \in DOMAIN waitQ : waitQ[i] # c
       /\ \A e \in Drivers : e # d => dConn[e] # c
    BY <1>1 DEF PoolInv, ConnInOnePlace, FreeUnused, WaitingUnused, DriverExclusive
<1>11. \A e \in Drivers : dConn'[e] = None \/ (e # d /\ dConn'[e] = dConn[e])
    BY <1>3 DEF PoolInv, TypeOK, DriverTypes
<1>12. \A u \in Slots : \A b \in Conns : ThreadHas(u, b)' <=> ThreadHas(u, b)
    BY <1>3 DEF ThreadHas
<1>13. FreeUnused'
    <2> SUFFICES ASSUME NEW b \in freeConns'
                 PROVE  /\ \A i \in DOMAIN waitQ' : waitQ'[i] # b
                        /\ \A e \in Drivers : dConn'[e] # b
                        /\ \A u \in Slots : ~ThreadHas(u, b)'
        BY DEF FreeUnused
    <2>1. b \in freeConns /\ b # c /\ b \in Conns
        BY <1>3, <1>10 DEF PoolInv, TypeOK, QueueTypes
    <2>2. /\ \A i \in DOMAIN waitQ : waitQ[i] # b
          /\ \A e \in Drivers : dConn[e] # b
          /\ \A u \in Slots : ~ThreadHas(u, b)
        BY <2>1 DEF PoolInv, ConnInOnePlace, FreeUnused
    <2>3. \A i \in DOMAIN waitQ' : waitQ'[i] # b
        BY <1>6, <2>1, <2>2
    <2>4. \A e \in Drivers : dConn'[e] # b
        BY <1>0, <1>11, <2>1, <2>2
    <2> QED  BY <1>12, <2>1, <2>2, <2>3, <2>4
<1>14. WaitingUnused'
    <2>1. ASSUME NEW i \in DOMAIN waitQ', NEW j \in DOMAIN waitQ', waitQ'[i] = waitQ'[j]
          PROVE  i = j
        <3>1. CASE waitQ'[i] = c
            BY <1>7, <1>10, <2>1, <3>1
        <3>2. CASE waitQ'[i] # c
            BY <1>6, <2>1, <3>2 DEF PoolInv, ConnInOnePlace, WaitingUnused
        <3> QED  BY <3>1, <3>2
    <2>2. ASSUME NEW i \in DOMAIN waitQ'
          PROVE  /\ \A e \in Drivers : dConn'[e] # waitQ'[i]
                 /\ \A u \in Slots : ~ThreadHas(u, waitQ[i])'
        <3>1. waitQ'[i] \in Conns
            BY <1>5, SMT
        <3> QED  BY <1>0, <1>3, <1>6, <1>10, <1>11, <3>1, SMTT(30)
                 DEF PoolInv, ConnInOnePlace, WaitingUnused, ThreadHas
    <2> QED  BY <2>1, <2>2 DEF WaitingUnused
<1>15. DriverExclusive' /\ ThreadExclusive'
    BY <1>0, <1>11, <1>12 DEF PoolInv, ConnInOnePlace, DriverExclusive, ThreadExclusive
<1> QED  BY <1>8, <1>9, <1>13, <1>14, <1>15, DriverFrame DEF QueueAppend, ConnInOnePlace

\* A thread to be created is counted, by NsQueueConn or by
\* NsEnsureRunningConnectionThreads.
LEMMA CountStep ==
    ASSUME PoolInv, NEW d \in Drivers, QueueCount(d) \/ EnsureRunning(d) PROVE PoolInv'
<1>1. /\ dpc[d] \in {"count", "loop"} /\ dpc' = [dpc EXCEPT ![d] = "spawn"]
      /\ current' = current + 1 /\ creating' = creating + 1
      /\ UNCHANGED <<freeConns, waitQ, tqueue, args, idle, limits, shutdown, joinThread, crashed,
                     pc, locals, dConn, dArg, dCreate, main>>
    BY DEF QueueCount, EnsureRunning, DriverGoto
<1>2. DriverTypes'
    BY <1>1 DEF PoolInv, TypeOK, DriverTypes, DriverLabels
<1>3. QueueTypes' /\ CounterTypes'
    BY <1>1, SMT DEF PoolInv, TypeOK, QueueTypes, CounterTypes, limits
<1>4. ConnInOnePlace'
    BY <1>1, OwnershipFrame DEF PoolInv, args, locals
<1> QED  BY <1>1, <1>2, <1>3, <1>4, DriverFrame

\* A thread is created in a free slot.
LEMMA CreateConnThreadStep ==
    ASSUME PoolInv, NEW d \in Drivers, CreateConnThread(d) PROVE PoolInv'
<1> USE ConstantFacts DEF PoolInv
<1>1. (QueueTypes /\ CounterTypes)'
    BY DEF TypeOK, CreateConnThread, QueueTypes, CounterTypes, counters, limits
<1>2. MainTypes'
    BY DEF TypeOK, CreateConnThread, main, MainTypes
<1>3. CASE UNCHANGED <<args, pc, locals, dpc>>
    <2>1. SlotTypes' /\ DriverTypes'
        BY <1>3 DEF TypeOK, CreateConnThread, SlotTypes, DriverTypes, args, locals
    <2>2. ThreadStates'
        BY <1>3, SlotFrame DEF CreateConnThread, ThreadStates, args, locals
    <2>3. ConnInOnePlace'
        BY <1>3, OwnershipFrame DEF CreateConnThread, args, locals
    <2> QED  BY <1>1, <1>2, <2>1, <2>2, <2>3 DEF TypeOK
<1>4. ASSUME NEW t \in FreeSlots,
             argState' = [argState EXCEPT ![t] = "initial"],
             argConn' = [argConn EXCEPT ![t] = None],
             ncons' = [ncons EXCEPT ![t] = ConnsPerThread],
             status' = [status EXCEPT ![t] = "ok"],
             pc' = [pc EXCEPT ![t] = "start"],
             dpc' = [dpc EXCEPT ![d] = "loop"],
             UNCHANGED <<connPtr, oldJoin>>
      PROVE  PoolInv'
    <2>1. t \in Slots /\ argState[t] = "free" /\ dpc[d] = "spawn"
        BY SMT DEF TypeOK, CounterTypes, FreeSlots, Slots, CreateConnThread
    <2>2. SlotTypes'
        BY <1>4, <2>1 DEF TypeOK, SlotTypes, ArgStates, ThreadLabels
    <2>3. DriverTypes'
        BY <1>4, <2>1 DEF TypeOK, CreateConnThread, DriverTypes, DriverLabels
    <2>4. ThreadStates'
        <3> SUFFICES ASSUME NEW u \in Slots PROVE ThreadState(u)'
            BY DEF ThreadStates
        <3>1. ThreadState(u)
            BY DEF ThreadStates
        <3>2. CASE u = t
            BY <1>4, <2>1, <3>1, <3>2 DEF TypeOK, SlotTypes, ThreadState
        <3>3. CASE u # t
            BY <1>4, <3>1, <3>3, SlotFrame, SMTT(30) DEF TypeOK, SlotTypes, CreateConnThread
        <3> QED  BY <3>2, <3>3
    <2>5. ASSUME NEW u \in Slots, NEW c \in Conns, ThreadHas(u, c)'
          PROVE  ThreadHas(u, c)
        BY <1>4, <2>1, <2>5 DEF TypeOK, SlotTypes, ThreadHas
    <2>6. ConnInOnePlace'
        BY <2>5, FewerHolders DEF CreateConnThread
    <2> QED  BY <1>1, <1>2, <2>2, <2>3, <2>4, <2>6 DEF TypeOK
<1> QED  BY <1>3, <1>4 DEF CreateConnThread, Goto, DriverGoto

\* Every step of NsQueueConn, NsEnsureRunningConnectionThreads and
\* CreateConnThread preserves the invariant.
LEMMA DriverPool ==
    ASSUME PoolInv, NEW d \in Drivers, QueueCheck(d) \/ EnsureRunning(d) \/ DriverStep(d)
    PROVE  PoolInv'
BY TakeFreeStep, NoConnStep, QueueDequeueStep, QueueAssignStep, QueueNeedStep, QueueSignalStep,
   QueueAppendStep, CountStep, CreateConnThreadStep DEF DriverStep

-----------------------------------------------------------------------------
(* Tuning and the main thread.                                             *)

\* Steps that touch neither slots nor connections.
LEMMA OutsideStep ==
    ASSUME PoolInv, CounterTypes', MainTypes', shutdown => shutdown',
           UNCHANGED <<freeConns, waitQ, tqueue, args, pc, locals, drivers>>
    PROVE  PoolInv'
<1>1. QueueTypes' /\ SlotTypes' /\ DriverTypes'
    BY DEF PoolInv, TypeOK, QueueTypes, SlotTypes, DriverTypes, args, locals, drivers
<1>2. ThreadStates'
    BY SlotFrame DEF PoolInv, ThreadStates, args, locals
<1>3. ConnInOnePlace'
    BY OwnershipFrame DEF PoolInv, args, locals, drivers
<1> QED  BY <1>1, <1>2, <1>3 DEF PoolInv, TypeOK

\* The main thread wakes the idle threads.
LEMMA WakeupConnThreadsStep ==
    ASSUME PoolInv, WakeupConnThreads PROVE PoolInv'
<1> USE ConstantFacts DEF PoolInv
<1>1. (QueueTypes /\ CounterTypes /\ DriverTypes)'
    BY DEF TypeOK, WakeupConnThreads, QueueTypes, CounterTypes, DriverTypes, args,
           counters, limits, locals, drivers, main
<1>2. SlotTypes'
    BY DEF TypeOK, WakeupConnThreads, WakeTargets, args, counters, limits, locals,
           drivers, main, QueueTypes, SlotTypes, ThreadLabels, IdleRegion, ExitRegion,
           ArgStates, Slots, DriverTypes, Goto, DriverGoto
<1>3. MainTypes'
    BY DEF TypeOK, WakeupConnThreads, WakeTargets, args, counters, limits, locals,
           drivers, main, QueueTypes, MainTypes, MainLabels, Slots, SlotTypes
<1>4. ThreadStates'
    BY DEF TypeOK, ThreadStates, ThreadState, DriverTypes, WakeupConnThreads,
           WakeTargets, SlotTypes, ThreadLabels, IdleRegion, ExitRegion, ArgStates, Slots,
           args, counters, limits, locals, drivers, main, Goto, QueueTypes
<1>5. ConnInOnePlace'
    BY OwnershipFrame DEF WakeupConnThreads, args, counters, limits, locals, drivers,
           main
<1> QED  BY <1>1, <1>2, <1>3, <1>4, <1>5 DEF TypeOK

\* So do ns_server maxthreads/minthreads and the main thread's steps.
LEMMA MainPool ==
    ASSUME PoolInv, SetMaxThreads \/ SetMinThreads \/ StopServer \/ WaitServerTimeout \/ MainStep
    PROVE  PoolInv'
<1> USE ConstantFacts DEF CounterTypes, MainTypes, MainLabels, counters, limits, main
<1>0. CounterTypes /\ MainTypes
    BY DEF PoolInv, TypeOK
<1>1. CASE SetMaxThreads
    <2>1. CounterTypes' /\ MainTypes' /\ (shutdown => shutdown')
        BY <1>0, <1>1, SMT DEF SetMaxThreads
    <2> QED  BY <1>1, <2>1, OutsideStep DEF SetMaxThreads
<1>2. CASE SetMinThreads
    <2>1. CounterTypes' /\ MainTypes' /\ (shutdown => shutdown')
        BY <1>0, <1>2 DEF SetMinThreads
    <2> QED  BY <1>2, <2>1, OutsideStep DEF SetMinThreads
<1>3. CASE StopServer
    <2>1. CounterTypes' /\ MainTypes' /\ (shutdown => shutdown')
        BY <1>0, <1>3 DEF StopServer
    <2> QED  BY <1>3, <2>1, OutsideStep DEF StopServer
<1>4. CASE WaitServerCheck
    <2>1. CounterTypes' /\ MainTypes' /\ (shutdown => shutdown')
        BY <1>0, <1>4 DEF WaitServerCheck
    <2> QED  BY <1>4, <2>1, OutsideStep DEF WaitServerCheck
<1>5. CASE WaitServerWait
    <2>1. CounterTypes' /\ MainTypes' /\ (shutdown => shutdown')
        BY <1>0, <1>5 DEF WaitServerWait
    <2> QED  BY <1>5, <2>1, OutsideStep DEF WaitServerWait
<1>6. CASE WaitServerTimeout
    <2>1. CounterTypes' /\ MainTypes' /\ (shutdown => shutdown')
        BY <1>0, <1>6 DEF WaitServerTimeout
    <2> QED  BY <1>6, <2>1, OutsideStep DEF WaitServerTimeout
<1>7. CASE WaitServerJoin
    <2>1. CounterTypes' /\ MainTypes' /\ (shutdown => shutdown')
        BY <1>0, <1>7 DEF WaitServerJoin
    <2> QED  BY <1>7, <2>1, OutsideStep DEF WaitServerJoin
<1> QED
    BY <1>1, <1>2, <1>3, <1>4, <1>5, <1>6, <1>7, WakeupConnThreadsStep DEF MainStep

\* Whatever the sizes and parameters of a pool and however many drivers
\* feed it, the variables keep their types and a connection thread's state
\* agrees with its program counter.
THEOREM PoolInvariant == Spec => []PoolInv
<1>1. PoolInv /\ [Next]_vars => PoolInv'
    <2> SUFFICES ASSUME PoolInv, [Next]_vars PROVE PoolInv'
        OBVIOUS
    <2>1. CASE Next
        BY <2>1, DriverPool, ThreadPool, MainPool DEF Next
    <2>2. CASE UNCHANGED vars
        <3>1. CounterTypes' /\ MainTypes'
            BY <2>2 DEF PoolInv, TypeOK, CounterTypes, MainTypes, vars, counters, limits, main
        <3> QED  BY <2>2, <3>1, OutsideStep DEF vars
    <2> QED  BY <2>1, <2>2
<1> QED  BY InitPool, <1>1, PTL DEF Spec

\* A Conn is never in two places at once: NsQueueConn hands out no Conn that
\* is in use, and no Conn is run by two connection threads.
THEOREM ExclusiveConnections == Spec => []ConnInOnePlace
<1>1. PoolInv => ConnInOnePlace
    BY DEF PoolInv
<1> QED  BY PoolInvariant, <1>1, PTL

=============================================================================
