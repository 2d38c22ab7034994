------------------------ MODULE ConnPoolCountProofs ------------------------
(***************************************************************************)
(* The thread counters of a connection pool count what they say; with one  *)
(* driver the stack of idle threads is exact and threads.max is respected; *)
(* and a shutdown leaves no thread asleep.                                 *)
(***************************************************************************)
EXTENDS ConnPoolProofs, FiniteSetTheorems

\* Most leaves are first-order; the ones that need arithmetic or sequences cite SMT.
USE Zenon

\* The control flow of NsConnThread.
ThreadEdge(a, b) ==
    \/ a = "start" /\ b = "loop"
    \/ a = "loop" /\ b \in {"take", "goidle", "run"}
    \/ a = "take" /\ b \in {"run", "goidle"}
    \/ a = "goidle" /\ b = "armed"
    \/ a = "armed" /\ b \in {"unwait", "sleep"}
    \/ a = "sleep" /\ b = "waiting"
    \/ a = "waiting" /\ b \in {"timedout", "signaled"}
    \/ a = "signaled" /\ b \in {"unwait", "armed"}
    \/ a = "timedout" /\ b = "judge"
    \/ a = "judge" /\ b \in {"armed", "unwait"}
    \/ a = "unwait" /\ b = "decide"
    \/ a = "decide" /\ b \in {"dead", "run"}
    \/ a = "run" /\ b = "release"
    \/ a = "release" /\ b = "snapshot"
    \/ a = "snapshot" /\ b \in {"loop", "dead"}
    \/ a = "dead" /\ b \in {"exit", "exitstop"}
    \/ a = "exit" /\ b = "jread"
    \/ a = "exitstop" /\ b = "sig"
    \/ a = "sig" /\ b = "jread"
    \/ a = "jread" /\ b = "jset"
    \/ a = "jset" /\ b = "jwait"
    \/ a = "jwait" /\ b = "none"

\* Every step of a connection thread follows an edge, and changes the
\* counters only where the code does.
LEMMA ThreadMoves ==
    ASSUME PoolInv, NEW t \in Slots, ThreadStep(t) \/ ThreadExpires(t) \/ ThreadSpurious(t)
    PROVE  /\ ThreadEdge(pc[t], pc'[t]) /\ pc' = [pc EXCEPT ![t] = pc'[t]]
           /\ current' = IF pc[t] \in {"exit", "exitstop"} THEN current - 1 ELSE current
           /\ creating' = IF pc[t] = "start" /\ creating > 0 THEN creating - 1 ELSE creating
           /\ idle' = IF pc'[t] = "goidle" THEN idle + 1
                      ELSE IF pc[t] = "unwait" THEN idle - 1 ELSE idle
           /\ UNCHANGED <<limits, shutdown, drivers>>
<1>0. pc \in [Slots -> ThreadLabels]
  BY DEF PoolInv, TypeOK, SlotTypes
<1> USE DEF Goto, ThreadEdge, counters
<1>1. CASE ThreadReady(t) \/ ThreadLook(t)
  BY <1>0, <1>1 DEF ThreadReady, ThreadLook
<1>2. CASE ThreadTake(t) \/ ThreadNothingWaiting(t)
  BY <1>0, <1>2 DEF ThreadTake, ThreadNothingWaiting
<1>3. CASE ThreadGoIdle(t) \/ ThreadArmed(t) \/ ThreadSleep(t)
  BY <1>0, <1>3 DEF ThreadGoIdle, ThreadArmed, ThreadSleep
<1>4. CASE ThreadSignaled(t) \/ ThreadTimedOut(t) \/ ThreadExpires(t) \/ ThreadSpurious(t)
  BY <1>0, <1>4 DEF ThreadSignaled, ThreadTimedOut, ThreadExpires, ThreadSpurious
<1>5. CASE ThreadJudge(t) \/ ThreadUnwait(t) \/ ThreadDecide(t)
  BY <1>0, <1>5 DEF ThreadJudge, ThreadUnwait, ThreadDecide
<1>6. CASE ThreadRun(t) \/ ThreadRelease(t) \/ ThreadSnapshot(t)
  BY <1>0, <1>6 DEF ThreadRun, ThreadRelease, ThreadSnapshot
<1>7. CASE ThreadDead(t) \/ ThreadExit(t) \/ ThreadSignalMain(t)
  BY <1>0, <1>7 DEF ThreadDead, ThreadExit, ThreadSignalMain, drivers
<1>8. CASE ThreadJoinRead(t) \/ ThreadJoinSet(t) \/ ThreadFree(t)
  BY <1>0, <1>8 DEF ThreadJoinRead, ThreadJoinSet, ThreadFree, drivers
<1> QED
  BY <1>1, <1>2, <1>3, <1>4, <1>5, <1>6, <1>7, <1>8 DEF ThreadStep

-----------------------------------------------------------------------------
(* Counting threads and drivers.                                           *)

\* The threads at one of the labels L, and the drivers at label l.
Among(L) == {t \in Slots : pc[t] \in L}
\* The drivers at a label of NsQueueConn.
DriversAt(l) == {d \in Drivers : dpc[d] = l}

\* Labels of the threads that are counted in threads.current and threads.idle.
AliveLabels == ThreadLabels \ {"none", "sig", "jread", "jset", "jwait"}
\* The labels at which a thread counts as idle.
IdleLabels == IdleRegion \cup {"goidle"}

\* Counters, in these terms.
ExactCounters ==
    /\ current = Cardinality(Among(AliveLabels)) + Cardinality(DriversAt("spawn"))
    /\ creating = Cardinality(Among({"start"})) + Cardinality(DriversAt("spawn"))
    /\ idle = Cardinality(Among(IdleLabels))

\* The counters as cardinalities of the sets above.
LEMMA CountersForm == PoolInv => (Counters <=> ExactCounters)
<1> HAVE PoolInv
<1>1. pc \in [Slots -> ThreadLabels]
  BY DEF PoolInv, TypeOK, SlotTypes
<1>2. {t \in Slots : pc[t] \notin {"none", "sig", "jread", "jset", "jwait"}} = Among(AliveLabels)
  BY <1>1 DEF Among, AliveLabels
<1>3. {t \in Slots : pc[t] = "start"} = Among({"start"})
  BY DEF Among
<1>4. {t \in Slots : pc[t] \in IdleRegion \cup {"goidle"}} = Among(IdleLabels)
  BY DEF Among, IdleLabels
<1>5. {d \in Drivers : dpc[d] = "spawn"} = DriversAt("spawn")
  BY DEF DriversAt
<1> QED
  BY <1>2, <1>3, <1>4, <1>5 DEF Counters, ExactCounters

\* The same of the next state.
LEMMA CountersFormNext == (PoolInv => (Counters <=> ExactCounters))'
BY CountersForm, PTL

\* A number of threads is a natural number.
LEMMA AmongFinite == \A L : IsFiniteSet(Among(L)) /\ Cardinality(Among(L)) \in Nat
<1>1. IsFiniteSet(Slots)
  BY ConstantFacts, FS_Interval, SMT
<1>2. ASSUME NEW L PROVE IsFiniteSet(Among(L))
  <2>1. Among(L) \subseteq Slots
    BY DEF Among
  <2> QED
    BY <1>1, <2>1, FS_Subset
<1> QED
  BY <1>2, FS_CardinalityType

\* One thread moves: the number at L grows by one, falls by one, or neither.
LEMMA AmongMoves ==
    ASSUME pc \in [Slots -> ThreadLabels], NEW t \in Slots, NEW L,
           pc' = [pc EXCEPT ![t] = pc'[t]]
    PROVE  Cardinality(Among(L)') =
               IF (pc'[t] \in L) = (pc[t] \in L) THEN Cardinality(Among(L))
               ELSE IF pc'[t] \in L THEN Cardinality(Among(L)) + 1 ELSE Cardinality(Among(L)) - 1
<1>1. IsFiniteSet(Among(L)) /\ Cardinality(Among(L)) \in Nat
  BY AmongFinite
<1>2. t \in Among(L) <=> pc[t] \in L
  BY DEF Among
<1>3. CASE (pc'[t] \in L) = (pc[t] \in L)
  <2>1. Among(L)' = Among(L)
    BY <1>3 DEF Among
  <2> QED
    BY <1>3, <2>1
<1>4. CASE pc'[t] \in L /\ pc[t] \notin L
  <2>1. Among(L)' = Among(L) \cup {t}
    BY <1>4 DEF Among
  <2> QED
    BY <1>1, <1>2, <1>4, <2>1, FS_AddElement
<1>5. CASE pc'[t] \notin L /\ pc[t] \in L
  <2>1. Among(L)' = Among(L) \ {t}
    BY <1>5 DEF Among
  <2> QED
    BY <1>1, <1>2, <1>5, <2>1, FS_RemoveElement
<1> QED
  BY <1>3, <1>4, <1>5, SMT

\* One driver moves: so does the number of drivers about to create a thread.
LEMMA DriversMove ==
    ASSUME IsFiniteSet(Drivers), dpc \in [Drivers -> DriverLabels], NEW d \in Drivers,
           dpc' = [dpc EXCEPT ![d] = dpc'[d]]
    PROVE  /\ Cardinality(DriversAt("spawn")) \in Nat
           /\ Cardinality(DriversAt("spawn")') =
               IF (dpc'[d] = "spawn") = (dpc[d] = "spawn") THEN Cardinality(DriversAt("spawn"))
               ELSE IF dpc'[d] = "spawn" THEN Cardinality(DriversAt("spawn")) + 1 ELSE Cardinality(DriversAt("spawn")) - 1
<1>1. IsFiniteSet(DriversAt("spawn")) /\ Cardinality(DriversAt("spawn")) \in Nat
  <2>1. DriversAt("spawn") \subseteq Drivers
    BY DEF DriversAt
  <2> QED
    BY <2>1, FS_Subset, FS_CardinalityType
<1>2. d \in DriversAt("spawn") <=> dpc[d] = "spawn"
  BY DEF DriversAt
<1>3. CASE (dpc'[d] = "spawn") = (dpc[d] = "spawn")
  <2>1. DriversAt("spawn")' = DriversAt("spawn")
    BY <1>3 DEF DriversAt
  <2> QED
    BY <1>1, <1>3, <2>1
<1>4. CASE dpc'[d] = "spawn" /\ dpc[d] # "spawn"
  <2>1. DriversAt("spawn")' = DriversAt("spawn") \cup {d}
    BY <1>4 DEF DriversAt
  <2>2. Cardinality(DriversAt("spawn") \cup {d}) = Cardinality(DriversAt("spawn")) + 1
    BY <1>1, <1>2, <1>4, FS_AddElement
  <2> QED
    BY <1>1, <1>4, <2>1, <2>2
<1>5. CASE dpc'[d] # "spawn" /\ dpc[d] = "spawn"
  <2>1. DriversAt("spawn")' = DriversAt("spawn") \ {d}
    BY <1>5 DEF DriversAt
  <2> QED
    BY <1>1, <1>2, <1>5, <2>1, FS_RemoveElement
<1> QED
  BY <1>3, <1>4, <1>5

\* Neither threads nor drivers move between the counted groups.
LEMMA CountersFrame ==
    ASSUME PoolInv, PoolInv', Counters, UNCHANGED counters,
           Among(AliveLabels)' = Among(AliveLabels), Among({"start"})' = Among({"start"}),
           Among(IdleLabels)' = Among(IdleLabels), DriversAt("spawn")' = DriversAt("spawn")
    PROVE  Counters'
<1>1. /\ current' = Cardinality(Among(AliveLabels)') + Cardinality(DriversAt("spawn")')
      /\ creating' = Cardinality(Among({"start"})') + Cardinality(DriversAt("spawn")')
      /\ idle' = Cardinality(Among(IdleLabels)')
  BY CountersForm DEF counters, ExactCounters
<1> QED
  BY <1>1, CountersFormNext DEF ExactCounters

\* A connection thread's step.
LEMMA ThreadCounts ==
    ASSUME PoolInv, PoolInv', Counters, IsFiniteSet(Drivers), NEW t \in Slots,
           ThreadStep(t) \/ ThreadExpires(t) \/ ThreadSpurious(t)
    PROVE  Counters'
<1>1. /\ ThreadEdge(pc[t], pc'[t]) /\ pc' = [pc EXCEPT ![t] = pc'[t]]
      /\ current' = IF pc[t] \in {"exit", "exitstop"} THEN current - 1 ELSE current
      /\ creating' = IF pc[t] = "start" /\ creating > 0 THEN creating - 1 ELSE creating
      /\ idle' = IF pc'[t] = "goidle" THEN idle + 1
                 ELSE IF pc[t] = "unwait" THEN idle - 1 ELSE idle
      /\ dpc' = dpc
  BY ThreadMoves DEF drivers
<1>2. pc \in [Slots -> ThreadLabels] /\ dpc \in [Drivers -> DriverLabels]
  BY DEF PoolInv, TypeOK, SlotTypes, DriverTypes
<1>3. /\ current = Cardinality(Among(AliveLabels)) + Cardinality(DriversAt("spawn"))
      /\ creating = Cardinality(Among({"start"})) + Cardinality(DriversAt("spawn"))
      /\ idle = Cardinality(Among(IdleLabels))
  BY CountersForm DEF ExactCounters
<1>4. DriversAt("spawn")' = DriversAt("spawn") /\ Cardinality(DriversAt("spawn")) \in Nat
  <2>1. DriversAt("spawn") \subseteq Drivers
    BY DEF DriversAt
  <2> QED
    BY <1>1, <2>1, FS_Subset, FS_CardinalityType DEF DriversAt
<1>5. \A L : Cardinality(Among(L)) \in Nat
  BY AmongFinite
<1>6. Cardinality(Among(AliveLabels)') =
          IF pc[t] \in {"exit", "exitstop"} THEN Cardinality(Among(AliveLabels)) - 1
                                             ELSE Cardinality(Among(AliveLabels))
  <2>1. /\ (pc'[t] \in AliveLabels) = (pc[t] \in AliveLabels) <=> pc[t] \notin {"exit", "exitstop"}
        /\ pc[t] \in {"exit", "exitstop"} => pc[t] \in AliveLabels /\ pc'[t] \notin AliveLabels
    BY <1>1, SMT DEF ThreadEdge, AliveLabels, ThreadLabels, IdleRegion, ExitRegion
  <2> QED
    BY <1>1, <1>2, <2>1, AmongMoves
<1>7. Cardinality(Among({"start"})') =
          IF pc[t] = "start" THEN Cardinality(Among({"start"})) - 1 ELSE Cardinality(Among({"start"}))
  <2>1. pc'[t] \notin {"start"}
    BY <1>1 DEF ThreadEdge
  <2> QED
    BY <1>1, <1>2, <2>1, AmongMoves, SMTT(30)
<1>8. Cardinality(Among(IdleLabels)') =
          IF pc'[t] = "goidle" THEN Cardinality(Among(IdleLabels)) + 1
          ELSE IF pc[t] = "unwait" THEN Cardinality(Among(IdleLabels)) - 1
                                   ELSE Cardinality(Among(IdleLabels))
  <2>1. /\ pc'[t] = "goidle" => pc'[t] \in IdleLabels /\ pc[t] \notin IdleLabels
        /\ pc[t] = "unwait" => pc'[t] \notin IdleLabels /\ pc[t] \in IdleLabels
        /\ pc'[t] # "goidle" /\ pc[t] # "unwait" => (pc'[t] \in IdleLabels) = (pc[t] \in IdleLabels)
    BY <1>1, SMT DEF ThreadEdge, IdleLabels, IdleRegion
  <2> QED
    BY <1>1, <1>2, <2>1, AmongMoves
<1>9. pc[t] = "start" => creating > 0
  <2> SUFFICES ASSUME pc[t] = "start" PROVE creating > 0
    OBVIOUS
  <2>1. Cardinality(Among({"start"})) # 0
    <3>1. t \in Among({"start"})
      BY DEF Among
    <3> QED
      BY <3>1, AmongFinite, FS_EmptySet
  <2> QED
    BY <2>1, <1>3, <1>4, <1>5, SMT
<1>10. /\ current' = Cardinality(Among(AliveLabels)') + Cardinality(DriversAt("spawn"))
       /\ creating' = Cardinality(Among({"start"})') + Cardinality(DriversAt("spawn"))
       /\ idle' = Cardinality(Among(IdleLabels)')
  BY <1>1, <1>3, <1>4, <1>5, <1>6, <1>7, <1>8, <1>9, SMTT(30)
<1> QED
  BY <1>4, <1>10, CountersFormNext DEF ExactCounters

\* A driver's step: a thread is counted before it exists, from the point
\* where the counters are raised to the one where its slot is occupied.
LEMMA DriverCounts ==
    ASSUME PoolInv, PoolInv', Counters, IsFiniteSet(Drivers), NEW d \in Drivers,
           QueueCheck(d) \/ EnsureRunning(d) \/ DriverStep(d)
    PROVE  Counters'
<1>1. pc \in [Slots -> ThreadLabels] /\ dpc \in [Drivers -> DriverLabels]
  BY DEF PoolInv, TypeOK, SlotTypes, DriverTypes
<1>2. /\ current = Cardinality(Among(AliveLabels)) + Cardinality(DriversAt("spawn"))
      /\ creating = Cardinality(Among({"start"})) + Cardinality(DriversAt("spawn"))
      /\ idle = Cardinality(Among(IdleLabels))
      /\ \A L : Cardinality(Among(L)) \in Nat
  BY CountersForm, AmongFinite DEF ExactCounters
<1>3. CASE QueueCheck(d) \/ QueueTake(d) \/ QueueDequeue(d) \/ QueueAssign(d) \/ QueueNeed(d)
               \/ QueueSignal(d) \/ QueueAppend(d)
  <2>1. /\ UNCHANGED counters
        /\ \E l \in DriverLabels : l # "spawn" /\ dpc[d] # "spawn" /\ dpc' = [dpc EXCEPT ![d] = l]
    <3>1. CASE QueueCheck(d) \/ QueueTake(d) \/ QueueDequeue(d)
      BY <3>1 DEF QueueCheck, QueueTake, QueueDequeue, DriverGoto, DriverLabels
    <3>2. CASE QueueAssign(d) \/ QueueNeed(d) \/ QueueSignal(d) \/ QueueAppend(d)
      BY <3>2 DEF QueueAssign, QueueNeed, QueueSignal, QueueAppend, DriverGoto, DriverLabels
    <3> QED
      BY <1>3, <3>1, <3>2
  <2>2. DriversAt("spawn")' = DriversAt("spawn")
    BY <1>1, <2>1 DEF DriversAt
  <2>3. \/ pc' = pc
        \/ \E t \in Slots : pc[t] = "waiting" /\ pc' = [pc EXCEPT ![t] = "signaled"]
    <3>1. CASE QueueSignal(d)
      BY <1>1, <3>1 DEF QueueSignal, Goto, PoolInv, TypeOK, DriverTypes
    <3>2. CASE QueueCheck(d) \/ QueueTake(d) \/ QueueDequeue(d) \/ QueueAssign(d) \/ QueueNeed(d)
                   \/ QueueAppend(d)
      BY <3>2 DEF QueueCheck, QueueTake, QueueDequeue, QueueAssign, QueueNeed, QueueAppend
    <3> QED
      BY <1>3, <3>1, <3>2
  <2>4. /\ Among(AliveLabels)' = Among(AliveLabels) /\ Among({"start"})' = Among({"start"})
        /\ Among(IdleLabels)' = Among(IdleLabels)
    BY <1>1, <2>3, SMTT(30) DEF Among, AliveLabels, IdleLabels, ThreadLabels, IdleRegion, ExitRegion
  <2> QED
    BY <2>1, <2>2, <2>4, CountersFrame
<1>4. CASE QueueCount(d) \/ EnsureRunning(d)
  <2>1. /\ dpc[d] # "spawn" /\ dpc' = [dpc EXCEPT ![d] = "spawn"]
        /\ current' = current + 1 /\ creating' = creating + 1 /\ UNCHANGED <<idle, pc>>
    BY <1>4 DEF QueueCount, EnsureRunning, DriverGoto
  <2>2. /\ Cardinality(DriversAt("spawn")') = Cardinality(DriversAt("spawn")) + 1
        /\ Cardinality(DriversAt("spawn")) \in Nat
    BY <1>1, <2>1, DriversMove
  <2>3. \A L : Among(L)' = Among(L)
    BY <2>1 DEF Among
  <2>4. /\ current' = Cardinality(Among(AliveLabels)') + Cardinality(DriversAt("spawn")')
        /\ creating' = Cardinality(Among({"start"})') + Cardinality(DriversAt("spawn")')
        /\ idle' = Cardinality(Among(IdleLabels)')
    BY <1>2, <2>1, <2>2, <2>3, SMTT(30)
  <2> QED
    BY <2>4, CountersFormNext DEF ExactCounters
<1>5. CASE CreateConnThread(d)
  <2>1. UNCHANGED counters /\ dpc[d] = "spawn"
    BY <1>5 DEF CreateConnThread
  <2>2. CASE FreeSlots = {}
    <3>1. UNCHANGED <<pc, dpc>>
      BY <1>5, <2>2 DEF CreateConnThread
    <3> QED
      BY <2>1, <3>1, CountersFrame DEF Among, DriversAt
  <2>3. CASE FreeSlots # {}
    <3>1. PICK t \in FreeSlots : pc' = [pc EXCEPT ![t] = "start"] /\ dpc' = [dpc EXCEPT ![d] = "loop"]
      BY <1>5, <2>3 DEF CreateConnThread, Goto, DriverGoto
    <3>2. t \in Slots /\ argState[t] = "free"
      BY ConstantFacts, SMTT(30) DEF FreeSlots, Slots, PoolInv, TypeOK, CounterTypes
    <3>3. pc[t] = "none"
      BY <3>2 DEF PoolInv, ThreadStates, ThreadState
    <3>4. /\ Cardinality(DriversAt("spawn")') = Cardinality(DriversAt("spawn")) - 1
          /\ Cardinality(DriversAt("spawn")) \in Nat
      BY <1>1, <2>1, <3>1, DriversMove
    <3>5. Cardinality(Among(AliveLabels)') = Cardinality(Among(AliveLabels)) + 1
      <4>1. pc[t] \notin AliveLabels /\ "start" \in AliveLabels
        BY <3>3 DEF AliveLabels, ThreadLabels
      <4> QED
        BY <1>1, <3>1, <3>2, <4>1, AmongMoves
    <3>6. Cardinality(Among({"start"})') = Cardinality(Among({"start"})) + 1
      <4>1. /\ pc[t] \notin {"start"} /\ pc'[t] \in {"start"}
            /\ pc' = [pc EXCEPT ![t] = pc'[t]]
        BY <1>1, <3>1, <3>2, <3>3
      <4> QED
        BY <1>1, <3>2, <4>1, AmongMoves
    <3>7. Cardinality(Among(IdleLabels)') = Cardinality(Among(IdleLabels))
      <4>1. /\ pc[t] \notin IdleLabels /\ pc'[t] \notin IdleLabels
            /\ pc' = [pc EXCEPT ![t] = pc'[t]]
        BY <1>1, <3>1, <3>2, <3>3 DEF IdleLabels, IdleRegion
      <4>2. (pc'[t] \in IdleLabels) = (pc[t] \in IdleLabels)
        BY <4>1, SMTT(30)
      <4> QED
        BY <1>1, <3>2, <4>1, <4>2, AmongMoves
    <3>8. /\ current' = Cardinality(Among(AliveLabels)') + Cardinality(DriversAt("spawn")')
          /\ creating' = Cardinality(Among({"start"})') + Cardinality(DriversAt("spawn")')
          /\ idle' = Cardinality(Among(IdleLabels)')
      BY <1>2, <2>1, <3>4, <3>5, <3>6, <3>7, SMTT(30) DEF counters
    <3> QED
      BY <3>8, CountersFormNext DEF ExactCounters
  <2> QED
    BY <2>2, <2>3
<1> QED
  BY <1>3, <1>4, <1>5 DEF DriverStep

\* The main thread and ns_server: sleeping threads are woken, nobody else moves.
LEMMA MainCounts ==
    ASSUME PoolInv, PoolInv', Counters,
           \/ SetMaxThreads \/ SetMinThreads \/ StopServer \/ WaitServerTimeout \/ MainStep
           \/ UNCHANGED vars
    PROVE  Counters'
<1>1. UNCHANGED <<counters, dpc>>
  BY DEF SetMaxThreads, SetMinThreads, StopServer, WaitServerTimeout, MainStep,
         WakeupConnThreads, WaitServerCheck, WaitServerWait, WaitServerJoin, vars, drivers
<1>2. \A t \in Slots : pc'[t] = pc[t] \/ (pc[t] = "waiting" /\ pc'[t] = "signaled")
  BY DEF SetMaxThreads, SetMinThreads, StopServer, WaitServerTimeout, MainStep,
         WakeupConnThreads, WaitServerCheck, WaitServerWait, WaitServerJoin, vars
<1>3. /\ Among(AliveLabels)' = Among(AliveLabels) /\ Among({"start"})' = Among({"start"})
      /\ Among(IdleLabels)' = Among(IdleLabels)
  BY <1>2 DEF Among, AliveLabels, IdleLabels, ThreadLabels, IdleRegion, ExitRegion
<1> QED
  BY <1>1, <1>3, CountersFrame DEF DriversAt

\* At the start the first minthreads threads are being created.
LEMMA InitCounts ==
    ASSUME Init PROVE Counters
<1>1. PoolInv
  BY InitPool
<1>2. Among(AliveLabels) = 1..MinThreads /\ Among({"start"}) = 1..MinThreads
  BY ConstantFacts, SMT DEF Init, Among, AliveLabels, ThreadLabels, IdleRegion, ExitRegion
<1>3. Among(IdleLabels) = {} /\ DriversAt("spawn") = {}
  BY DEF Init, Among, DriversAt, IdleLabels, IdleRegion
<1>4. Cardinality(1..MinThreads) = MinThreads /\ MinThreads \in Nat
  BY ConstantFacts, FS_Interval, SMT
<1>5. Cardinality(Among(IdleLabels)) = 0 /\ Cardinality(DriversAt("spawn")) = 0
  BY <1>3, FS_EmptySet
<1>6. ExactCounters
  BY <1>2, <1>4, <1>5, SMT DEF Init, ExactCounters
<1> QED
  BY <1>1, <1>6, CountersForm

\* threads.current, threads.creating and threads.idle are exact at every
\* point of NsQueueConn, NsEnsureRunningConnectionThreads and NsConnThread,
\* for any number of drivers, with timeouts, tuning and shutdown.
THEOREM CountersExact == IsFiniteSet(Drivers) => (Spec => []Counters)
<1> SUFFICES ASSUME IsFiniteSet(Drivers) PROVE Spec => []Counters
  OBVIOUS
<1>1. PoolInv /\ PoolInv' /\ Counters /\ [Next]_vars => Counters'
  BY ThreadCounts, DriverCounts, MainCounts DEF Next
<1>2. Init => Counters
  BY InitCounts
<1> QED
  BY <1>1, <1>2, PoolInvariant, PTL DEF Spec

-----------------------------------------------------------------------------
(* Shutdown wakes everybody.                                               *)

\* A thread in its wait is marked idle and sits in a slot that
\* NsWakeupConnThreads looks at; once it has looked, nobody falls asleep again.
WokenInv ==
    /\ mpc # "serving" => shutdown
    /\ \A t \in Slots : pc[t] \in IdleRegion => argState[t] = "idle"
    /\ \A t \in Slots : pc[t] # "none" => t <= max
    /\ mpc \notin {"serving", "wakeup"} => \A t \in Slots : pc[t] \notin {"sleep", "waiting"}

\* A step of a connection thread keeps WokenInv: it leaves the wait it is in, or
\* enters one only before the shutdown.
LEMMA ThreadWoken ==
    ASSUME PoolInv, WokenInv, NEW t \in Slots,
           ThreadStep(t) \/ ThreadExpires(t) \/ ThreadSpurious(t)
    PROVE  WokenInv'
<1>1. ThreadEdge(pc[t], pc'[t]) /\ pc' = [pc EXCEPT ![t] = pc'[t]] /\ UNCHANGED <<limits, shutdown>>
  BY ThreadMoves
<1>2. pc \in [Slots -> ThreadLabels] /\ argState \in [Slots -> ArgStates]
  BY DEF PoolInv, TypeOK, SlotTypes
<1>3. mpc' = mpc \/ (ThreadSignalMain(t) /\ mpc = "waiting" /\ mpc' = "check")
  BY DEF ThreadStep, ThreadReady, ThreadLook, ThreadTake, ThreadNothingWaiting, ThreadGoIdle,
         ThreadArmed, ThreadSleep, ThreadSignaled, ThreadTimedOut, ThreadJudge, ThreadUnwait,
         ThreadDecide, ThreadRun, ThreadRelease, ThreadSnapshot, ThreadDead, ThreadExit,
         ThreadSignalMain, ThreadJoinRead, ThreadJoinSet, ThreadFree, ThreadExpires,
         ThreadSpurious, main
<1>4. pc[t] = "armed" /\ shutdown => pc'[t] # "sleep"
  <2> SUFFICES ASSUME pc[t] = "armed", shutdown PROVE pc'[t] # "sleep"
    OBVIOUS
  <2>1. ThreadArmed(t)
    BY DEF ThreadStep, ThreadReady, ThreadLook, ThreadTake, ThreadNothingWaiting, ThreadGoIdle,
         ThreadSleep, ThreadSignaled, ThreadTimedOut, ThreadJudge, ThreadUnwait,
         ThreadDecide, ThreadRun, ThreadRelease, ThreadSnapshot, ThreadDead, ThreadExit,
         ThreadSignalMain, ThreadJoinRead, ThreadJoinSet, ThreadFree, ThreadExpires,
         ThreadSpurious
  <2> QED
    BY <1>2, <2>1 DEF ThreadArmed, Goto
<1>5. /\ \A u \in Slots : u # t => argState'[u] = argState[u]
      /\ pc[t] = "goidle" => argState'[t] = "idle"
      /\ pc[t] \in IdleRegion /\ pc'[t] \in IdleRegion => argState'[t] = argState[t]
  <2>1. CASE ThreadGoIdle(t) \/ ThreadReady(t) \/ ThreadUnwait(t) \/ ThreadRelease(t)
    BY <1>2, <2>1 DEF ThreadGoIdle, ThreadReady, ThreadUnwait, ThreadRelease, Goto, IdleRegion
  <2>2. CASE ThreadDead(t) \/ ThreadFree(t)
    BY <1>2, <2>2 DEF ThreadDead, ThreadFree, Goto, IdleRegion
  <2>3. CASE ThreadLook(t) \/ ThreadTake(t) \/ ThreadNothingWaiting(t) \/ ThreadRun(t)
    BY <2>3 DEF ThreadLook, ThreadTake, ThreadNothingWaiting, ThreadRun, args
  <2>4. CASE ThreadArmed(t) \/ ThreadSleep(t) \/ ThreadSignaled(t) \/ ThreadTimedOut(t)
                 \/ ThreadJudge(t) \/ ThreadExpires(t) \/ ThreadSpurious(t) \/ ThreadDecide(t)
    BY <2>4 DEF ThreadArmed, ThreadSleep, ThreadSignaled, ThreadTimedOut, ThreadJudge,
           ThreadExpires, ThreadSpurious, ThreadDecide, args
  <2>5. CASE ThreadSnapshot(t) \/ ThreadExit(t) \/ ThreadSignalMain(t) \/ ThreadJoinRead(t)
                 \/ ThreadJoinSet(t)
    BY <2>5 DEF ThreadSnapshot, ThreadExit, ThreadSignalMain, ThreadJoinRead, ThreadJoinSet, args
  <2> QED
    BY <2>1, <2>2, <2>3, <2>4, <2>5 DEF ThreadStep
<1>6. (mpc # "serving" => shutdown)'
  BY <1>1, <1>3 DEF WokenInv
<1>7. (\A u \in Slots : pc[u] \in IdleRegion => argState[u] = "idle")'
  <2>1. pc'[t] \in IdleRegion => pc[t] = "goidle" \/ pc[t] \in IdleRegion
    BY <1>1 DEF ThreadEdge, IdleRegion
  <2> QED
    BY <1>1, <1>2, <1>5, <2>1 DEF WokenInv
<1>8. (\A u \in Slots : pc[u] # "none" => u <= max)'
  <2>1. pc[t] # "none"
    BY <1>1 DEF ThreadEdge
  <2> QED
    BY <1>1, <1>2, <2>1 DEF WokenInv, limits
<1>9. (mpc \notin {"serving", "wakeup"} => \A u \in Slots : pc[u] \notin {"sleep", "waiting"})'
  <2> SUFFICES ASSUME mpc' \notin {"serving", "wakeup"}, NEW u \in Slots
               PROVE  pc'[u] \notin {"sleep", "waiting"}
    OBVIOUS
  <2>1. mpc \notin {"serving", "wakeup"} /\ shutdown /\ \A v \in Slots : pc[v] \notin {"sleep", "waiting"}
    BY <1>3 DEF WokenInv
  <2>2. pc'[t] \notin {"sleep", "waiting"}
    BY <1>1, <1>4, <2>1 DEF ThreadEdge
  <2> QED
    BY <1>1, <1>2, <2>1, <2>2
<1> QED
  BY <1>6, <1>7, <1>8, <1>9 DEF WokenInv

\* Drivers: a signal wakes, a new thread starts in a slot below threads.max.
LEMMA DriverWoken ==
    ASSUME PoolInv, WokenInv, NEW d \in Drivers, QueueCheck(d) \/ EnsureRunning(d) \/ DriverStep(d)
    PROVE  WokenInv'
<1>1. UNCHANGED <<mpc, shutdown, max>>
  <2>1. CASE QueueCheck(d) \/ EnsureRunning(d) \/ QueueTake(d) \/ QueueDequeue(d) \/ QueueAssign(d)
    BY <2>1 DEF QueueCheck, EnsureRunning, QueueTake, QueueDequeue, QueueAssign, main, limits
  <2>2. CASE QueueNeed(d) \/ QueueSignal(d) \/ QueueAppend(d) \/ QueueCount(d) \/ CreateConnThread(d)
    BY <2>2 DEF QueueNeed, QueueSignal, QueueAppend, QueueCount, CreateConnThread, main, limits
  <2> QED
    BY <2>1, <2>2 DEF DriverStep
<1>2. pc \in [Slots -> ThreadLabels] /\ argState \in [Slots -> ArgStates]
  BY DEF PoolInv, TypeOK, SlotTypes
<1>3. \A u \in Slots : \/ pc'[u] = pc[u] /\ argState'[u] = argState[u]
                       \/ pc[u] = "waiting" /\ pc'[u] = "signaled" /\ argState'[u] = argState[u]
                       \/ pc'[u] = "start" /\ u <= max
  <2>1. CASE CreateConnThread(d)
    <3>1. CASE FreeSlots = {}
      BY <2>1, <3>1 DEF CreateConnThread, args
    <3>2. CASE FreeSlots # {}
      <4>1. PICK t \in FreeSlots : /\ pc' = [pc EXCEPT ![t] = "start"]
                                   /\ argState' = [argState EXCEPT ![t] = "initial"]
        BY <2>1, <3>2 DEF CreateConnThread, Goto
      <4>2. t <= max
        BY SMT DEF FreeSlots, PoolInv, TypeOK, CounterTypes
      <4> QED
        BY <1>2, <4>1, <4>2
    <3> QED
      BY <3>1, <3>2
  <2>2. CASE QueueSignal(d)
    BY <1>2, <2>2 DEF QueueSignal, Goto, args
  <2>3. CASE QueueCheck(d) \/ EnsureRunning(d) \/ QueueTake(d) \/ QueueDequeue(d)
    BY <2>3 DEF QueueCheck, EnsureRunning, QueueTake, QueueDequeue, args
  <2>4. CASE QueueAssign(d) \/ QueueNeed(d) \/ QueueAppend(d) \/ QueueCount(d)
    BY <2>4 DEF QueueAssign, QueueNeed, QueueAppend, QueueCount, args
  <2> QED
    BY <2>1, <2>2, <2>3, <2>4 DEF DriverStep
<1> QED
  BY <1>1, <1>3 DEF WokenInv, IdleRegion

\* The main thread: NsWakeupConnThreads waits for the lock of every slot it
\* signals, so a thread on its way to sleep is signaled when it sleeps.
LEMMA MainWoken ==
    ASSUME PoolInv, WokenInv, ~Tunable,
           \/ SetMaxThreads \/ SetMinThreads \/ StopServer \/ WaitServerTimeout \/ MainStep
           \/ UNCHANGED vars
    PROVE  WokenInv'
<1>1. UNCHANGED <<max, argState>>
  BY DEF SetMaxThreads, SetMinThreads, StopServer, WaitServerTimeout, MainStep,
         WakeupConnThreads, WaitServerCheck, WaitServerWait, WaitServerJoin, vars, limits, args
<1>2. CASE WakeupConnThreads
  <2>1. /\ mpc = "wakeup" /\ UNCHANGED shutdown
        /\ \A t \in Slots : t <= max /\ argState[t] = "idle" =>
              pc[t] # "sleep" /\ pc'[t] = IF pc[t] = "waiting" THEN "signaled" ELSE pc[t]
        /\ \A t \in Slots : pc'[t] = pc[t] \/ (pc[t] = "waiting" /\ pc'[t] = "signaled")
    <3>1. \A t \in Slots : t <= max /\ argState[t] = "idle" => t \in WakeTargets
      BY ConstantFacts, SMTT(30) DEF WakeTargets, Slots, PoolInv, TypeOK, CounterTypes
    <3> QED
      BY <1>2, <3>1 DEF WakeupConnThreads, ArgLockFree
  <2> QED
    BY <1>1, <2>1 DEF WokenInv, IdleRegion
<1>3. CASE ~WakeupConnThreads
  <2>1. pc' = pc
    BY <1>3 DEF SetMaxThreads, SetMinThreads, StopServer, WaitServerTimeout, MainStep,
           WaitServerCheck, WaitServerWait, WaitServerJoin, vars
  <2>2. /\ mpc' \notin {"serving", "wakeup"} => mpc \notin {"serving", "wakeup"}
        /\ mpc' # "serving" => shutdown'
    BY <1>3 DEF SetMaxThreads, SetMinThreads, StopServer, WaitServerTimeout, MainStep,
           WaitServerCheck, WaitServerWait, WaitServerJoin, vars, main, WokenInv
  <2> QED
    BY <1>1, <2>1, <2>2 DEF WokenInv
<1> QED
  BY <1>2, <1>3

\* After NsWakeupConnThreads no connection thread sleeps in its timed wait,
\* unless ns_server maxthreads lowered the bound up to which it looks.
THEOREM WokenForShutdown == ~Tunable => (Spec => []WokenAtShutdown)
<1> SUFFICES ASSUME ~Tunable PROVE Spec => []WokenAtShutdown
  OBVIOUS
<1>1. Init => WokenInv
  BY ConstantFacts, SMT DEF Init, WokenInv, IdleRegion
<1>2. PoolInv /\ WokenInv /\ [Next]_vars => WokenInv'
  BY ThreadWoken, DriverWoken, MainWoken DEF Next
<1>3. WokenInv => WokenAtShutdown
  BY DEF WokenInv, WokenAtShutdown
<1> QED
  BY <1>1, <1>2, <1>3, PoolInvariant, PTL DEF Spec

-----------------------------------------------------------------------------
(* One driver: threads.max is respected.                                   *)

\* The server's usual case: one driver thread, and no spooler threads.
OneDriver == \A d, e \in Drivers : d = e

\* A driver that has decided on another thread has room for it.
MaxInv ==
    /\ current <= max
    /\ \A d \in Drivers : dCreate[d] => dpc[d] = "signal"
    /\ \A d \in Drivers : dpc[d] = "count" \/ dCreate[d] => current < max

\* Every step keeps the number of threads within maxthreads.
LEMMA MaxStep ==
    ASSUME OneDriver, ~Tunable, PoolInv, MaxInv, [Next]_vars
    PROVE  MaxInv'
<1>1. /\ dpc \in [Drivers -> DriverLabels] /\ dCreate \in [Drivers -> BOOLEAN]
      /\ current \in Int /\ max \in Nat
  BY ConstantFacts, SMTT(30) DEF PoolInv, TypeOK, DriverTypes, CounterTypes
<1>2. ASSUME NEW t \in Slots, ThreadStep(t) \/ ThreadExpires(t) \/ ThreadSpurious(t)
      PROVE  MaxInv'
  <2>1. current' \in {current, current - 1} /\ UNCHANGED <<max, dpc, dCreate>>
    BY <1>2, ThreadMoves DEF limits, drivers
  <2> QED
    BY <1>1, <2>1, SMTT(30) DEF MaxInv
<1>3. ASSUME NEW d \in Drivers, QueueCheck(d) \/ EnsureRunning(d) \/ DriverStep(d)
      PROVE  MaxInv'
  <2>1. \A e \in Drivers : e = d
    BY DEF OneDriver
  <2>2. CASE QueueCheck(d) \/ QueueTake(d) \/ QueueDequeue(d) \/ QueueAssign(d) \/ CreateConnThread(d)
    <3>1. UNCHANGED <<current, max, dCreate>> /\ dpc'[d] # "count" /\ dpc[d] # "signal"
      BY <1>1, <2>2 DEF QueueCheck, QueueTake, QueueDequeue, QueueAssign, CreateConnThread,
             counters, limits, DriverGoto
    <3> QED
      BY <2>1, <3>1 DEF MaxInv
  <2>3. CASE QueueNeed(d)
    BY <1>1, <2>1, <2>3 DEF QueueNeed, Needed, WantThread, MaxInv, counters, limits, DriverGoto
  <2>4. CASE QueueSignal(d)
    BY <1>1, <2>1, <2>4 DEF QueueSignal, MaxInv, counters, limits, DriverGoto
  <2>5. CASE QueueAppend(d)
    BY <1>1, <2>1, <2>5 DEF QueueAppend, Needed, WantThread, MaxInv, counters, limits, DriverGoto
  <2>6. CASE QueueCount(d)
    BY <1>1, <2>1, <2>6, SMTT(30) DEF QueueCount, MaxInv, limits, DriverGoto
  <2>7. CASE EnsureRunning(d)
    BY <1>1, <2>1, <2>7, SMTT(30) DEF EnsureRunning, Needed, WantThread, MaxInv, limits, DriverGoto
  <2> QED
    BY <1>3, <2>2, <2>3, <2>4, <2>5, <2>6, <2>7 DEF DriverStep
<1>4. CASE \/ SetMaxThreads \/ SetMinThreads \/ StopServer \/ WaitServerTimeout \/ MainStep
           \/ UNCHANGED vars
  <2>1. UNCHANGED <<current, max, dpc, dCreate>>
    BY <1>4 DEF SetMaxThreads, SetMinThreads, StopServer, WaitServerTimeout, MainStep,
           WakeupConnThreads, WaitServerCheck, WaitServerWait, WaitServerJoin, vars, limits,
           counters, drivers
  <2> QED
    BY <2>1 DEF MaxInv
<1> QED
  BY <1>2, <1>3, <1>4 DEF Next

\* With one driver threads.current never exceeds threads.max, although the
\* test in NsQueueConn and the increment are in different critical sections.
THEOREM MaxThreadsRespected == OneDriver /\ ~Tunable => (Spec => []MaxRespected)
<1> SUFFICES ASSUME OneDriver, ~Tunable PROVE Spec => []MaxRespected
  OBVIOUS
<1>1. Init => MaxInv
  BY ConstantFacts, SMT DEF Init, MaxInv
<1>2. PoolInv /\ MaxInv /\ [Next]_vars => MaxInv'
  BY MaxStep
<1>3. MaxInv => MaxRespected
  BY DEF MaxInv, MaxRespected
<1> QED
  BY <1>1, <1>2, <1>3, PoolInvariant, PTL DEF Spec

-----------------------------------------------------------------------------
(* One driver: the stack of idle threads is exact.                         *)

\* A thread is on the stack, or a driver took it off and has not yet given
\* it the connection.
OnStack(t) == \E i \in DOMAIN tqueue : tqueue[i] = t
\* A driver has taken t from the stack and is about to assign a connection.
Popped(t) == \E d \in Drivers : dpc[d] = "assign" /\ dArg[d] = t

\* Where argPtr->connPtr is NULL, and where a popped thread can be: it may
\* time out, leave and even terminate before the driver sees it.
CleanRegion == {"start", "loop", "take", "goidle", "release", "snapshot"}
\* Where a thread can be that was taken from the stack.
PoppedRegion == IdleRegion \cup {"decide"} \cup ExitRegion \cup {"none"}

\* The inductive invariant behind IdleStack, slot by slot.
SlotIdle(t) ==
    /\ OnStack(t) => pc[t] \in IdleRegion /\ argConn[t] = None
    /\ pc[t] \in IdleRegion => OnStack(t) \/ Popped(t) \/ argConn[t] # None
    /\ pc[t] \in CleanRegion => argConn[t] = None
    /\ Popped(t) => ~OnStack(t) /\ argConn[t] = None /\ pc[t] \in PoppedRegion
\* Inductive: no slot is on the stack twice, and each agrees with its place.
IdleInv == NoDuplicates(tqueue) /\ \A t \in Slots : SlotIdle(t)

\* Unlinking takes exactly the slot off the stack.
LEMMA UnlinkedExact ==
    ASSUME tqueue \in Seq(Slots), NoDuplicates(tqueue), NEW t \in Slots, argConn[t] = None
    PROVE  /\ NoDuplicates(Unlinked(t))
           /\ \A u \in Slots : (\E i \in DOMAIN Unlinked(t) : Unlinked(t)[i] = u)
                                  <=> OnStack(u) /\ u # t
<1>1. CASE ~OnStack(t)
  BY <1>1 DEF OnStack, Unlinked
<1>2. CASE OnStack(t)
  <2>1. PICK k \in DOMAIN tqueue : tqueue[k] = t
    BY <1>2 DEF OnStack
  <2> DEFINE n == Len(tqueue)
             r == [j \in 1..(n - 1) |-> IF j >= k THEN tqueue[j + 1] ELSE tqueue[j]]
  <2>2. n \in Nat /\ DOMAIN tqueue = 1..n /\ k \in 1..n
    BY <2>1, SMT
  <2>3. \A i \in 1..n : tqueue[i] = t <=> i = k
    BY <2>1, <2>2 DEF NoDuplicates
  <2>4. \A j \in 1..(n - 1) : (\E i \in 1..j : tqueue[i] = t) <=> j >= k
    BY <2>2, <2>3, SMTT(30)
  <2>5. Unlinked(t) = r
    BY <1>2, <2>4 DEF Unlinked, OnStack
  <2> HIDE DEF n
  <2>6. \A i, j \in 1..n : tqueue[i] = tqueue[j] => i = j
    BY <2>2 DEF NoDuplicates
  <2>7. NoDuplicates(r)
    BY <2>2, <2>6, SMT DEF NoDuplicates
  <2>8. \A j \in 1..(n - 1) : r[j] # t /\ \E i \in 1..n : tqueue[i] = r[j]
    <3> SUFFICES ASSUME NEW j \in 1..(n - 1) PROVE r[j] # t /\ \E i \in 1..n : tqueue[i] = r[j]
      OBVIOUS
    <3>1. j \in 1..n /\ j + 1 \in 1..n
      BY <2>2, SMT
    <3>2. CASE j >= k
      BY <2>2, <2>3, <3>1, <3>2, SMTT(30)
    <3>3. CASE ~(j >= k)
      BY <2>2, <2>3, <3>1, <3>3, SMTT(30)
    <3> QED
      BY <3>2, <3>3
  <2>9. \A i \in 1..n : i # k => \E j \in 1..(n - 1) : r[j] = tqueue[i]
    <3> SUFFICES ASSUME NEW i \in 1..n, i # k PROVE \E j \in 1..(n - 1) : r[j] = tqueue[i]
      OBVIOUS
    <3>1. CASE i < k
      <4>1. i \in 1..(n - 1) /\ r[i] = tqueue[i]
        BY <2>2, <3>1, SMTT(30)
      <4> QED
        BY <4>1
    <3>2. CASE i > k
      <4>1. i - 1 \in 1..(n - 1) /\ r[i - 1] = tqueue[i]
        BY <2>2, <3>2, SMTT(30)
      <4> QED
        BY <4>1
    <3> QED
      BY <2>2, <3>1, <3>2, SMTT(30)
  <2>10. DOMAIN r = 1..(n - 1)
    OBVIOUS
  <2> HIDE DEF r
  <2>11. ASSUME NEW u \in Slots
         PROVE  (\E i \in DOMAIN r : r[i] = u) <=> OnStack(u) /\ u # t
    <3>1. (\E i \in DOMAIN r : r[i] = u) => OnStack(u) /\ u # t
      BY <2>2, <2>8, <2>10 DEF OnStack
    <3>2. OnStack(u) /\ u # t => \E i \in DOMAIN r : r[i] = u
      <4> SUFFICES ASSUME NEW i \in 1..n, tqueue[i] = u, u # t PROVE \E j \in DOMAIN r : r[j] = u
        BY <2>2 DEF OnStack
      <4> QED
        BY <2>3, <2>9, <2>10
    <3> QED
      BY <3>1, <3>2
  <2> QED
    BY <2>5, <2>7, <2>11
<1> QED
  BY <1>1, <1>2

\* A slot whose thread, connection and place on the stack stay as they are.
LEMMA IdleFrame ==
    ASSUME NEW u \in Slots, SlotIdle(u), OnStack(u)' <=> OnStack(u), Popped(u)' <=> Popped(u),
           pc'[u] = pc[u], argConn'[u] = argConn[u]
    PROVE  SlotIdle(u)'
BY DEF SlotIdle

\* What no step of a connection thread does to the drivers.
LEMMA PoppedFrame ==
    ASSUME NEW u \in Slots, UNCHANGED <<dpc, dArg>>
    PROVE  Popped(u)' <=> Popped(u)
BY DEF Popped

\* Steps of a connection thread that leave the stack and argPtr->connPtr
\* alone.
LEMMA IdleMove ==
    ASSUME PoolInv, IdleInv, NEW t \in Slots, UNCHANGED <<tqueue, argConn, dpc, dArg>>,
           pc' = [pc EXCEPT ![t] = pc'[t]], pc[t] \in IdleRegion <=> pc'[t] \in IdleRegion,
           pc'[t] \in CleanRegion => argConn[t] = None,
           pc[t] \in PoppedRegion => pc'[t] \in PoppedRegion \/ argConn[t] # None
    PROVE  IdleInv'
<1>1. pc \in [Slots -> ThreadLabels]
  BY DEF PoolInv, TypeOK, SlotTypes
<1>2. \A u \in Slots : (OnStack(u)' <=> OnStack(u)) /\ (Popped(u)' <=> Popped(u))
  BY PoppedFrame DEF OnStack
<1>3. NoDuplicates(tqueue)'
  BY DEF IdleInv, NoDuplicates
<1>4. SlotIdle(t)'
  <2>1. SlotIdle(t)
    BY DEF IdleInv
  <2> QED
    BY <1>2, <2>1 DEF SlotIdle
<1>5. ASSUME NEW u \in Slots, u # t PROVE SlotIdle(u)'
  <2>1. SlotIdle(u) /\ pc'[u] = pc[u]
    BY <1>1, <1>5 DEF IdleInv
  <2> QED
    BY <1>2, <2>1, IdleFrame
<1> QED
  BY <1>3, <1>4, <1>5 DEF IdleInv

\* The steps of NsConnThread.
LEMMA ThreadIdle ==
    ASSUME PoolInv, IdleInv, NEW t \in Slots,
           ThreadStep(t) \/ ThreadExpires(t) \/ ThreadSpurious(t)
    PROVE  IdleInv'
<1>0. /\ pc \in [Slots -> ThreadLabels] /\ argConn \in [Slots -> Conns \cup {None}]
      /\ tqueue \in Seq(Slots)
  BY DEF PoolInv, TypeOK, SlotTypes, QueueTypes
<1>1. /\ pc' = [pc EXCEPT ![t] = pc'[t]] /\ UNCHANGED <<dpc, dArg>>
      /\ \A u \in Slots : u # t => pc'[u] = pc[u]
      /\ \A u \in Slots : Popped(u)' <=> Popped(u)
  <2>1. pc' = [pc EXCEPT ![t] = pc'[t]] /\ UNCHANGED <<dpc, dArg>>
    BY ThreadMoves DEF drivers
  <2>2. \A u \in Slots : Popped(u)' <=> Popped(u)
    BY <2>1, PoppedFrame
  <2> QED
    BY <1>0, <2>1, <2>2
<1>2. SlotIdle(t) /\ NoDuplicates(tqueue)
  BY DEF IdleInv
<1> USE DEF CleanRegion, PoppedRegion, IdleRegion, ExitRegion
<1>3. CASE ThreadReady(t) \/ ThreadLook(t) \/ ThreadNothingWaiting(t) \/ ThreadRelease(t)
              \/ ThreadSnapshot(t)
  <2>1. UNCHANGED <<tqueue, argConn>>
    BY <1>3 DEF ThreadReady, ThreadLook, ThreadNothingWaiting, ThreadRelease, ThreadSnapshot, args
  <2>2. /\ pc[t] \in {"start", "loop", "release", "snapshot"}
        /\ pc'[t] \in {"loop", "take", "goidle", "run", "snapshot", "dead"}
    BY <1>0, <1>3 DEF ThreadReady, ThreadLook, ThreadNothingWaiting, ThreadRelease,
           ThreadSnapshot, Goto
  <2> QED
    BY <1>1, <1>2, <2>1, <2>2, IdleMove DEF SlotIdle
<1>4. CASE ThreadArmed(t) \/ ThreadSleep(t) \/ ThreadSignaled(t) \/ ThreadTimedOut(t)
              \/ ThreadJudge(t) \/ ThreadExpires(t) \/ ThreadSpurious(t)
  <2>1. UNCHANGED <<tqueue, argConn>>
    BY <1>4 DEF ThreadArmed, ThreadSleep, ThreadSignaled, ThreadTimedOut, ThreadJudge,
           ThreadExpires, ThreadSpurious, args
  <2>2. pc[t] \in IdleRegion /\ pc'[t] \in IdleRegion
    BY <1>0, <1>4 DEF ThreadArmed, ThreadSleep, ThreadSignaled, ThreadTimedOut, ThreadJudge,
           ThreadExpires, ThreadSpurious, Goto
  <2> QED
    BY <1>1, <2>1, <2>2, IdleMove
<1>5. CASE ThreadDead(t) \/ ThreadExit(t) \/ ThreadSignalMain(t) \/ ThreadJoinRead(t)
              \/ ThreadJoinSet(t) \/ ThreadFree(t)
  <2>1. UNCHANGED <<tqueue, argConn>>
    BY <1>5 DEF ThreadDead, ThreadExit, ThreadSignalMain, ThreadJoinRead, ThreadJoinSet,
           ThreadFree, args
  <2>2. pc[t] \in ExitRegion /\ pc'[t] \in ExitRegion \cup {"none"}
    BY <1>0, <1>5 DEF ThreadDead, ThreadExit, ThreadSignalMain, ThreadJoinRead, ThreadJoinSet,
           ThreadFree, Goto
  <2> QED
    BY <1>1, <2>1, <2>2, IdleMove
<1>6. CASE ThreadDecide(t)
  <2>1. UNCHANGED <<tqueue, argConn>> /\ pc[t] = "decide" /\ pc'[t] \in {"dead", "run"}
    BY <1>0, <1>6 DEF ThreadDecide, Goto, args
  <2>2. pc'[t] = "run" => argConn[t] # None
    <3>1. ThreadState(t) /\ status[t] \in {"ok", "timeout"}
      BY DEF PoolInv, ThreadStates, TypeOK, SlotTypes
    <3> QED
      BY <1>0, <1>6, <3>1, ZenonT(30) DEF ThreadDecide, Goto, MustLeave, ThreadState
  <2> QED
    BY <1>1, <2>1, <2>2, IdleMove
<1>7. CASE ThreadTake(t) \/ ThreadRun(t)
  <2>1. /\ UNCHANGED tqueue /\ pc[t] \in {"take", "run"} /\ pc'[t] \in {"run", "goidle", "release"}
        /\ pc'[t] # "run" => argConn'[t] = None
        /\ \A u \in Slots : u # t => argConn'[u] = argConn[u]
    BY <1>0, <1>7 DEF ThreadTake, ThreadRun, Goto
  <2>2. \A u \in Slots : OnStack(u)' <=> OnStack(u)
    BY <2>1 DEF OnStack
  <2>3. SlotIdle(t)'
    BY <1>1, <1>2, <2>1, <2>2 DEF SlotIdle
  <2>4. \A u \in Slots : u # t => SlotIdle(u)'
    BY <1>1, <2>1, <2>2, IdleFrame DEF IdleInv
  <2>5. NoDuplicates(tqueue)'
    BY <1>2, <2>1 DEF NoDuplicates
  <2> QED
    BY <2>3, <2>4, <2>5 DEF IdleInv
<1>8. CASE ThreadGoIdle(t)
  <2>1. /\ tqueue' = <<t>> \o tqueue /\ UNCHANGED argConn
        /\ pc[t] = "goidle" /\ pc'[t] = "armed"
    BY <1>0, <1>8 DEF ThreadGoIdle, Goto
  <2>2. ~OnStack(t) /\ argConn[t] = None /\ ~Popped(t)
    BY <1>2, <2>1 DEF SlotIdle
  <2>3. /\ DOMAIN tqueue = 1..Len(tqueue) /\ DOMAIN tqueue' = 1..(Len(tqueue) + 1)
        /\ Len(tqueue) \in Nat /\ tqueue'[1] = t
        /\ \A i \in 1..Len(tqueue) : tqueue'[i + 1] = tqueue[i]
        /\ \A i \in 1..(Len(tqueue) + 1) : i # 1 => tqueue'[i] = tqueue[i - 1]
    BY <1>0, <2>1, SMTT(30)
  <2>4. NoDuplicates(tqueue)'
    <3>1. \A i \in 1..(Len(tqueue) + 1) : i # 1 => i - 1 \in 1..Len(tqueue) /\ tqueue'[i] # t
      BY <2>2, <2>3, SMTT(30) DEF OnStack
    <3>2. ASSUME NEW i \in 1..(Len(tqueue) + 1), NEW j \in 1..(Len(tqueue) + 1),
                 tqueue'[i] = tqueue'[j]
          PROVE  i = j
      <4>1. CASE i = 1 \/ j = 1
        BY <2>3, <3>1, <3>2, <4>1
      <4>2. CASE i # 1 /\ j # 1
        <5>1. i - 1 \in DOMAIN tqueue /\ j - 1 \in DOMAIN tqueue
          BY <2>3, <3>1, <4>2
        <5>2. tqueue[i - 1] = tqueue[j - 1]
          BY <2>3, <3>2, <4>2
        <5>3. i - 1 = j - 1
          BY <1>2, <5>1, <5>2 DEF NoDuplicates
        <5> QED
          BY <2>3, <5>3, SMTT(30)
      <4> QED
        BY <4>1, <4>2
    <3> QED
      BY <2>3, <3>2 DEF NoDuplicates
  <2>5. ASSUME NEW u \in Slots PROVE OnStack(u)' <=> OnStack(u) \/ u = t
    <3>1. OnStack(u)' => OnStack(u) \/ u = t
      <4> SUFFICES ASSUME NEW i \in DOMAIN tqueue', tqueue'[i] = u, u # t PROVE OnStack(u)
        BY DEF OnStack
      <4>1. i - 1 \in DOMAIN tqueue /\ tqueue[i - 1] = u
        BY <2>3, SMTT(30)
      <4> QED
        BY <4>1 DEF OnStack
    <3>2. OnStack(u) => OnStack(u)'
      <4> SUFFICES ASSUME NEW i \in DOMAIN tqueue, tqueue[i] = u PROVE OnStack(u)'
        BY DEF OnStack
      <4>1. i + 1 \in DOMAIN tqueue' /\ tqueue'[i + 1] = u
        BY <2>3, SMT
      <4> QED
        BY <4>1 DEF OnStack
    <3>3. OnStack(t)'
      <4>1. 1 \in DOMAIN tqueue' /\ tqueue'[1] = t
        BY <2>3, SMT
      <4> QED
        BY <4>1 DEF OnStack
    <3> QED
      BY <3>1, <3>2, <3>3
  <2>6. SlotIdle(t)'
    BY <1>1, <2>1, <2>2, <2>5 DEF SlotIdle
  <2>7. \A u \in Slots : u # t => SlotIdle(u)'
    BY <1>1, <2>1, <2>5, IdleFrame DEF IdleInv
  <2> QED
    BY <2>4, <2>6, <2>7 DEF IdleInv
<1>9. CASE ThreadUnwait(t)
  <2>1. tqueue' = Unlinked(t) /\ UNCHANGED argConn /\ pc[t] = "unwait" /\ pc'[t] = "decide"
    BY <1>0, <1>9 DEF ThreadUnwait, Goto
  <2>2. NoDuplicates(tqueue') /\ \A u \in Slots : OnStack(u)' <=> OnStack(u) /\ u # t
    <3>1. CASE argConn[t] = None
      BY <1>0, <1>2, <2>1, <3>1, UnlinkedExact, SMTT(30) DEF OnStack
    <3>2. CASE argConn[t] # None
      BY <1>2, <2>1, <3>2 DEF Unlinked, OnStack, SlotIdle
    <3> QED
      BY <3>1, <3>2
  <2>3. SlotIdle(t)'
    BY <1>1, <1>2, <2>1, <2>2 DEF SlotIdle
  <2>4. \A u \in Slots : u # t => SlotIdle(u)'
    BY <1>1, <2>1, <2>2, IdleFrame DEF IdleInv
  <2> QED
    BY <2>2, <2>3, <2>4 DEF IdleInv, NoDuplicates
<1> QED
  BY <1>3, <1>4, <1>5, <1>6, <1>7, <1>8, <1>9, ZenonT(30) DEF ThreadStep

\* The steps of the only driver.
LEMMA DriverIdle ==
    ASSUME OneDriver, PoolInv, IdleInv, NEW d \in Drivers,
           QueueCheck(d) \/ EnsureRunning(d) \/ DriverStep(d)
    PROVE  IdleInv'
<1>0. /\ pc \in [Slots -> ThreadLabels] /\ argConn \in [Slots -> Conns \cup {None}]
      /\ tqueue \in Seq(Slots) /\ dpc \in [Drivers -> DriverLabels]
      /\ dArg \in [Drivers -> Slots \cup {None}] /\ dConn \in [Drivers -> Conns \cup {None}]
      /\ dpc[d] = "assign" => dConn[d] \in Conns
      /\ dArg[d] \in Slots <=> dpc[d] \in {"assign", "need", "signal"}
  BY DEF PoolInv, TypeOK, SlotTypes, QueueTypes, DriverTypes
<1>1. \A u \in Slots : Popped(u) <=> dpc[d] = "assign" /\ dArg[d] = u
  BY DEF OneDriver, Popped
<1>2. \A u \in Slots : Popped(u)' <=> dpc'[d] = "assign" /\ dArg'[d] = u
  BY DEF OneDriver, Popped
<1>3. \A u \in Slots : SlotIdle(u)
  BY DEF IdleInv
<1>4. CASE QueueCheck(d) \/ QueueTake(d) \/ QueueNeed(d) \/ QueueAppend(d) \/ QueueCount(d)
              \/ EnsureRunning(d)
  <2>1. UNCHANGED <<tqueue, argConn, pc>> /\ dpc[d] # "assign" /\ dpc'[d] # "assign"
    BY <1>0, <1>4 DEF QueueCheck, QueueTake, QueueNeed, QueueAppend, QueueCount, EnsureRunning,
           DriverGoto, args
  <2>2. \A u \in Slots : (OnStack(u)' <=> OnStack(u)) /\ (Popped(u)' <=> Popped(u))
    BY <1>1, <1>2, <2>1 DEF OnStack
  <2> QED
    BY <1>3, <2>1, <2>2, IdleFrame DEF IdleInv, NoDuplicates
<1>5. CASE QueueDequeue(d)
  <2>1. UNCHANGED <<argConn, pc>> /\ dpc[d] = "dequeue"
    BY <1>5 DEF QueueDequeue, args
  <2>2. CASE tqueue = <<>>
    <3>1. tqueue' = tqueue /\ dpc'[d] # "assign"
      BY <1>0, <1>5, <2>2 DEF QueueDequeue, DriverGoto
    <3>2. \A u \in Slots : (OnStack(u)' <=> OnStack(u)) /\ (Popped(u)' <=> Popped(u))
      BY <1>1, <1>2, <2>1, <3>1 DEF OnStack
    <3> QED
      BY <1>3, <2>1, <3>1, <3>2, IdleFrame DEF IdleInv, NoDuplicates
  <2>3. CASE tqueue # <<>>
    <3>1. dpc'[d] = "assign" /\ dArg'[d] = Head(tqueue) /\ tqueue' = Tail(tqueue)
      BY <1>0, <1>5, <2>3 DEF QueueDequeue, DriverGoto, PopIdle
    <3>2. PICK t \in Slots : t = Head(tqueue) /\ t = tqueue[1]
      BY <1>0, <2>3, SMTT(30)
    <3>3. /\ DOMAIN tqueue = 1..Len(tqueue) /\ DOMAIN tqueue' = 1..(Len(tqueue) - 1)
          /\ Len(tqueue) \in Nat \ {0}
          /\ \A i \in 1..(Len(tqueue) - 1) : tqueue'[i] = tqueue[i + 1]
      BY <1>0, <2>3, <3>1, SMTT(30)
    <3>4. \A i, j \in 1..Len(tqueue) : tqueue[i] = tqueue[j] => i = j
      BY <3>3 DEF IdleInv, NoDuplicates
    <3>5. NoDuplicates(tqueue')
      <4>1. ASSUME NEW i \in 1..(Len(tqueue) - 1), NEW j \in 1..(Len(tqueue) - 1),
                   tqueue'[i] = tqueue'[j]
            PROVE  i = j
        <5>1. i + 1 \in 1..Len(tqueue) /\ j + 1 \in 1..Len(tqueue)
          BY <3>3, SMTT(30)
        <5>2. i + 1 = j + 1
          BY <3>3, <3>4, <4>1, <5>1
        <5> QED
          BY <5>2, SMTT(30)
      <4> QED
        BY <3>3, <4>1 DEF NoDuplicates
    <3>6. ASSUME NEW u \in Slots PROVE OnStack(u)' <=> OnStack(u) /\ u # t
      <4>1. OnStack(u)' => OnStack(u) /\ u # t
        <5> SUFFICES ASSUME NEW i \in 1..(Len(tqueue) - 1), tqueue'[i] = u
                     PROVE  OnStack(u) /\ u # t
          BY <3>3 DEF OnStack
        <5>1. i + 1 \in 1..Len(tqueue) /\ 1 \in 1..Len(tqueue) /\ i + 1 # 1
          BY <3>3, SMTT(30)
        <5>2. tqueue[i + 1] = u
          BY <3>3
        <5> QED
          BY <3>2, <3>3, <3>4, <5>1, <5>2, ZenonT(30) DEF OnStack
      <4>2. OnStack(u) /\ u # t => OnStack(u)'
        <5> SUFFICES ASSUME NEW i \in 1..Len(tqueue), tqueue[i] = u, u # t PROVE OnStack(u)'
          BY <3>3 DEF OnStack
        <5>1. i - 1 \in DOMAIN tqueue' /\ tqueue'[i - 1] = u
          BY <3>2, <3>3, SMTT(30)
        <5> QED
          BY <5>1 DEF OnStack
      <4> QED
        BY <4>1, <4>2
    <3>7. OnStack(t)
      <4>1. 1 \in DOMAIN tqueue
        BY <3>3, SMT
      <4> QED
        BY <3>2, <4>1 DEF OnStack
    <3>8. SlotIdle(t)'
      <4>1. SlotIdle(t) /\ Popped(t)'
        BY <1>2, <1>3, <3>1, <3>2
      <4> QED
        BY <2>1, <3>6, <3>7, <4>1 DEF SlotIdle, PoppedRegion, IdleRegion, CleanRegion
    <3>9. \A u \in Slots : u # t => SlotIdle(u)'
      BY <1>1, <1>2, <1>3, <2>1, <3>1, <3>2, <3>6, IdleFrame, ZenonT(30)
    <3> QED
      BY <3>5, <3>8, <3>9 DEF IdleInv
  <2> QED
    BY <2>2, <2>3
<1>6. CASE QueueAssign(d)
  <2>1. PICK t \in Slots : t = dArg[d]
    BY <1>0, <1>6 DEF QueueAssign
  <2>2. /\ UNCHANGED <<tqueue, pc>> /\ dpc[d] = "assign" /\ dpc'[d] = "need"
        /\ argConn'[t] # None /\ \A u \in Slots : u # t => argConn'[u] = argConn[u]
    BY <1>0, <1>6, <2>1, ConstantFacts DEF QueueAssign, DriverGoto
  <2>3. \A u \in Slots : OnStack(u)' <=> OnStack(u)
    BY <2>2 DEF OnStack
  <2>4. SlotIdle(t)'
    <3>1. SlotIdle(t) /\ Popped(t) /\ ~Popped(t)'
      BY <1>1, <1>2, <1>3, <2>1, <2>2
    <3> QED
      BY <2>2, <2>3, <3>1 DEF SlotIdle, PoppedRegion, IdleRegion, CleanRegion, ExitRegion
  <2>5. \A u \in Slots : u # t => SlotIdle(u)'
    BY <1>1, <1>2, <1>3, <2>1, <2>2, <2>3, IdleFrame, ZenonT(30)
  <2> QED
    BY <2>2, <2>4, <2>5 DEF IdleInv, NoDuplicates
<1>7. CASE QueueSignal(d)
  <2>1. PICK t \in Slots : t = dArg[d]
    BY <1>0, <1>7 DEF QueueSignal
  <2>2. /\ UNCHANGED <<tqueue, argConn>> /\ dpc[d] # "assign" /\ dpc'[d] # "assign"
        /\ \A u \in Slots : pc'[u] = pc[u] \/ (pc[u] = "waiting" /\ pc'[u] = "signaled")
    BY <1>0, <1>7, <2>1 DEF QueueSignal, DriverGoto, Goto, args
  <2>3. \A u \in Slots : (OnStack(u)' <=> OnStack(u)) /\ ~Popped(u)' /\ ~Popped(u)
    BY <1>1, <1>2, <2>2 DEF OnStack
  <2>4. \A u \in Slots : SlotIdle(u)'
    BY <1>3, <2>2, <2>3 DEF SlotIdle, IdleRegion, CleanRegion
  <2> QED
    BY <2>2, <2>4 DEF IdleInv, NoDuplicates
<1>8. CASE CreateConnThread(d)
  <2>1. UNCHANGED tqueue /\ dpc[d] # "assign" /\ dpc'[d] # "assign"
    BY <1>0, <1>8 DEF CreateConnThread, DriverGoto
  <2>2. \A u \in Slots : (OnStack(u)' <=> OnStack(u)) /\ ~Popped(u)' /\ ~Popped(u)
    BY <1>1, <1>2, <2>1 DEF OnStack
  <2>3. ASSUME NEW u \in Slots
        PROVE  \/ pc'[u] = pc[u] /\ argConn'[u] = argConn[u]
               \/ pc[u] = "none" /\ pc'[u] = "start" /\ argConn'[u] = None
    <3>1. CASE crashed' # crashed
      BY <1>8, <3>1 DEF CreateConnThread, args
    <3>2. CASE crashed' = crashed
      <4>1. ThreadStates
        BY DEF PoolInv
      <4>2. FreeSlots \subseteq Slots
        BY ConstantFacts, SMTT(30) DEF FreeSlots, PoolInv, TypeOK, CounterTypes
      <4> QED
        BY <1>0, <1>8, <3>2, <4>1, <4>2, SMTT(30) DEF CreateConnThread, args, Goto, FreeSlots,
           ThreadStates, ThreadState
    <3> QED
      BY <3>1, <3>2
  <2>4. \A u \in Slots : SlotIdle(u)'
    BY <1>3, <2>2, <2>3 DEF SlotIdle, IdleRegion, CleanRegion
  <2> QED
    BY <2>1, <2>4 DEF IdleInv, NoDuplicates
<1> QED
  BY <1>4, <1>5, <1>6, <1>7, <1>8, ZenonT(30) DEF DriverStep

\* The steps of the main thread and of ns_server.
LEMMA MainIdle ==
    ASSUME PoolInv, IdleInv,
           \/ SetMaxThreads \/ SetMinThreads \/ StopServer \/ WaitServerTimeout \/ MainStep
           \/ UNCHANGED vars
    PROVE  IdleInv'
<1>1. UNCHANGED <<tqueue, argConn, dpc, dArg>>
  BY DEF SetMaxThreads, SetMinThreads, StopServer, WaitServerTimeout, MainStep,
         WakeupConnThreads, WaitServerCheck, WaitServerWait, WaitServerJoin, vars, args, drivers
<1>2. \A u \in Slots : pc'[u] = pc[u] \/ (pc[u] = "waiting" /\ pc'[u] = "signaled")
  <2>1. CASE WakeupConnThreads
    BY <2>1 DEF WakeupConnThreads
  <2>2. CASE ~WakeupConnThreads
    BY <2>2 DEF SetMaxThreads, SetMinThreads, StopServer, WaitServerTimeout, MainStep,
           WaitServerCheck, WaitServerWait, WaitServerJoin, vars
  <2> QED
    BY <2>1, <2>2
<1>3. \A u \in Slots : (OnStack(u)' <=> OnStack(u)) /\ (Popped(u)' <=> Popped(u))
  BY <1>1, PoppedFrame DEF OnStack
<1>4. \A u \in Slots : SlotIdle(u)'
  BY <1>2, <1>1, <1>3 DEF IdleInv, SlotIdle, IdleRegion, CleanRegion, PoppedRegion
<1> QED
  BY <1>1, <1>4 DEF IdleInv, NoDuplicates

\* With one driver the stack of idle threads holds exactly the idle threads
\* without a connection, and the counters are exact, whatever ns_server
\* does to the limits and whichever waits time out.
THEOREM PoolCountsExact == OneDriver => (Spec => []PoolCounts)
<1> SUFFICES ASSUME OneDriver PROVE Spec => []PoolCounts
  OBVIOUS
<1>1. IsFiniteSet(Drivers)
  <2>1. CASE Drivers = {}
    BY <2>1, FS_EmptySet
  <2>2. CASE Drivers # {}
    <3>1. PICK d \in Drivers : Drivers = {d}
      BY <2>2 DEF OneDriver
    <3> QED
      BY <3>1, FS_Singleton
  <2> QED
    BY <2>1, <2>2
<1>2. Init => IdleInv
  BY ConstantFacts, SMTT(30) DEF Init, IdleInv, SlotIdle, OnStack, Popped, NoDuplicates, IdleRegion
<1>3. PoolInv /\ IdleInv /\ [Next]_vars => IdleInv'
  BY ThreadIdle, DriverIdle, MainIdle DEF Next
<1>4. PoolInv /\ IdleInv => IdleStack
  <2> SUFFICES ASSUME PoolInv, IdleInv PROVE IdleStack
    OBVIOUS
  <2>1. \A i \in DOMAIN tqueue : tqueue[i] \in Slots
    BY SMT DEF PoolInv, TypeOK, QueueTypes
  <2> QED
    BY <2>1 DEF IdleInv, SlotIdle, OnStack, Popped, IdleStack
<1>5. Spec => []Counters
  BY <1>1, CountersExact
<1> QED
  BY <1>2, <1>3, <1>4, <1>5, PoolInvariant, PTL DEF Spec, PoolCounts
=============================================================================
