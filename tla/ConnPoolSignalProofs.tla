------------------------ MODULE ConnPoolSignalProofs ------------------------
(***************************************************************************)
(* The hand-over of connections to idle threads.  As long as no            *)
(* threadtimeout expires, a thread that sleeps with a connection is about  *)
(* to be signaled, and no Conn is lost before shutdown.                    *)
(***************************************************************************)
EXTENDS ConnPoolProofs

\* Most leaves are first-order; the ones that need arithmetic or sequences cite SMT.
USE Zenon

-----------------------------------------------------------------------------
(* SignalInv, in the two parts in which steps disturb it.                  *)

\* What SignalInv says of one thread ...
SlotSignal(t) ==
    /\ pc[t] \notin {"timedout", "judge"} /\ status[t] = "ok"
    /\ pc[t] \in {"sleep", "waiting"} /\ argConn[t] # None => BeingSignaled(t)
    /\ pc[t] = "armed" /\ argConn[t] # None => shutdown \/ BeingSignaled(t)
    /\ pc[t] = "goidle" => shutdown \/ argConn[t] = None

\* ... of a thread that is on the stack or popped: it sleeps or is about to ...
ParkedEmpty(t) == pc[t] \in Parked /\ argConn[t] = None

\* ... and of the stack and the drivers that popped from it.
StackSignal ==
    /\ NoDuplicates(tqueue)
    /\ \A i \in DOMAIN tqueue : ParkedEmpty(tqueue[i])
    /\ \A d \in Drivers : dpc[d] = "assign" =>
          /\ ParkedEmpty(dArg[d])
          /\ \A i \in DOMAIN tqueue : tqueue[i] # dArg[d]
          /\ \A e \in Drivers : dpc[e] = "assign" /\ dArg[e] = dArg[d] => e = d

\* SignalInv slot by slot.
LEMMA SignalParts == SignalInv <=> (\A t \in Slots : SlotSignal(t)) /\ (~shutdown => StackSignal)
BY DEF SignalInv, SlotSignal, StackSignal, ParkedEmpty

\* A step that touches only slot t, and neither the stack nor a driver.
LEMMA SlotSignalFrame ==
    ASSUME SignalInv, PoolInv, NEW t \in Slots, SlotSignal(t)', UNCHANGED <<tqueue, shutdown, dpc, dArg>>,
           \A u \in Slots : u # t => /\ pc'[u] = pc[u] /\ status'[u] = status[u]
                                     /\ argConn'[u] = argConn[u],
           shutdown \/ ~ParkedEmpty(t) \/ ParkedEmpty(t)'
    PROVE  SignalInv'
<1>1. \A u \in Slots : SlotSignal(u)
  BY SignalParts
<1>2. ASSUME NEW u \in Slots PROVE SlotSignal(u)'
  <2>1. BeingSignaled(u)' <=> BeingSignaled(u)
    BY DEF BeingSignaled
  <2> QED
    BY <1>1, <2>1 DEF SlotSignal
<1>3. ASSUME ~shutdown PROVE StackSignal'
  <2>1. StackSignal
    BY <1>3, SignalParts
  <2>2. \A u \in Slots : ParkedEmpty(u) => ParkedEmpty(u)'
    BY <1>3 DEF ParkedEmpty
  <2>3. \A i \in DOMAIN tqueue : tqueue[i] \in Slots
    BY SMT DEF PoolInv, TypeOK, QueueTypes
  <2>4. \A d \in Drivers : dpc[d] = "assign" => dArg[d] \in Slots
    BY DEF PoolInv, TypeOK, DriverTypes
  <2>5. \A i \in DOMAIN tqueue : ParkedEmpty(tqueue[i])'
    BY <2>1, <2>2, <2>3 DEF StackSignal
  <2>6. \A d \in Drivers : dpc[d] = "assign" => ParkedEmpty(dArg[d])'
    BY <2>1, <2>2, <2>4 DEF StackSignal
  <2>7. NoDuplicates(tqueue)' <=> NoDuplicates(tqueue)
    BY DEF NoDuplicates
  <2> QED
    BY <2>1, <2>5, <2>6, <2>7 DEF StackSignal, ParkedEmpty
<1>4. (\A u \in Slots : SlotSignal(u)') /\ (~shutdown' => StackSignal')
  BY <1>2, <1>3
<1> QED
  BY <1>4 DEF SignalInv, SlotSignal, StackSignal, ParkedEmpty

-----------------------------------------------------------------------------
(* Connection threads.                                                     *)

\* Every step of a connection thread but pushing and removing its own slot.
LEMMA QuietThreadSignal ==
    ASSUME PoolInv, SignalInv, ~ThreadTimeout, NEW t \in Slots,
           ThreadStep(t) \/ ThreadExpires(t) \/ ThreadSpurious(t),
           ~ThreadGoIdle(t), ~ThreadUnwait(t)
    PROVE  SignalInv'
<1>1. SlotSignal(t) /\ ThreadState(t)
  BY SignalParts DEF PoolInv, ThreadStates
<1>2. /\ pc \in [Slots -> ThreadLabels] /\ status \in [Slots -> {"ok", "timeout"}]
      /\ argConn \in [Slots -> Conns \cup {None}]
  BY DEF PoolInv, TypeOK, SlotTypes
<1>3. UNCHANGED <<tqueue, shutdown, dpc, dArg>>
  BY DEF ThreadStep, ThreadReady, ThreadLook, ThreadTake, ThreadNothingWaiting, ThreadArmed,
         ThreadSleep, ThreadSignaled, ThreadTimedOut, ThreadJudge, ThreadDecide, ThreadRun,
         ThreadRelease, ThreadSnapshot, ThreadDead, ThreadExit, ThreadSignalMain,
         ThreadJoinRead, ThreadJoinSet, ThreadFree, ThreadExpires, ThreadSpurious, drivers
<1>4. BeingSignaled(t)' <=> BeingSignaled(t)
  BY <1>3 DEF BeingSignaled
<1> DEFINE Only == \A u \in Slots : u # t => /\ pc'[u] = pc[u] /\ status'[u] = status[u]
                                              /\ argConn'[u] = argConn[u]
           Kept == shutdown \/ ~ParkedEmpty(t) \/ ParkedEmpty(t)'
<1> SUFFICES Only /\ SlotSignal(t)' /\ Kept
  BY <1>3, SlotSignalFrame
<1> USE DEF Goto, args, locals, ParkedEmpty, Parked
<1>5. CASE ThreadReady(t) \/ ThreadLook(t) \/ ThreadSnapshot(t) \/ ThreadExit(t)
               \/ ThreadJoinRead(t) \/ ThreadJoinSet(t) \/ ThreadSignalMain(t)
  BY <1>1, <1>2, <1>3, <1>5 DEF ThreadReady, ThreadLook, ThreadSnapshot, ThreadExit,
         ThreadJoinRead, ThreadJoinSet, ThreadSignalMain, SlotSignal
<1>6. CASE ThreadTake(t) \/ ThreadNothingWaiting(t)
  BY <1>1, <1>2, <1>3, <1>6 DEF ThreadTake, ThreadNothingWaiting, SlotSignal
<1>7. CASE ThreadArmed(t) \/ ThreadSleep(t) \/ ThreadSignaled(t) \/ ThreadSpurious(t)
  BY <1>1, <1>2, <1>3, <1>4, <1>7 DEF ThreadArmed, ThreadSleep, ThreadSignaled, ThreadSpurious,
         SlotSignal
<1>8. CASE ThreadTimedOut(t) \/ ThreadJudge(t) \/ ThreadExpires(t)
  BY <1>1, <1>8 DEF ThreadTimedOut, ThreadJudge, ThreadExpires, SlotSignal
<1>9. CASE ThreadDecide(t) \/ ThreadRun(t) \/ ThreadRelease(t) \/ ThreadDead(t) \/ ThreadFree(t)
  BY <1>1, <1>2, <1>3, <1>9 DEF ThreadDecide, ThreadRun, ThreadRelease, ThreadDead, ThreadFree,
         SlotSignal
<1> QED
  BY <1>5, <1>6, <1>7, <1>8, <1>9 DEF ThreadStep

\* ThreadGoIdle: the slot that is pushed is not on the stack yet, and no
\* driver has popped it.
LEMMA GoIdleSignal ==
    ASSUME PoolInv, SignalInv, NEW t \in Slots, ThreadGoIdle(t)
    PROVE  SignalInv'
<1>1. /\ pc[t] = "goidle" /\ pc' = [pc EXCEPT ![t] = "armed"] /\ tqueue' = <<t>> \o tqueue
      /\ UNCHANGED <<argConn, status, shutdown, dpc, dArg>>
  BY DEF ThreadGoIdle, Goto, locals, drivers
<1>2. pc \in [Slots -> ThreadLabels] /\ tqueue \in Seq(Slots)
  BY DEF PoolInv, TypeOK, SlotTypes, QueueTypes
<1>3. \A u \in Slots : SlotSignal(u)
  BY SignalParts
<1>4. ASSUME NEW u \in Slots PROVE SlotSignal(u)'
  <2>1. BeingSignaled(u)' <=> BeingSignaled(u)
    BY <1>1 DEF BeingSignaled
  <2> QED
    BY <1>1, <1>2, <1>3, <2>1 DEF SlotSignal
<1>5. ASSUME ~shutdown PROVE StackSignal'
  <2>1. StackSignal /\ argConn[t] = None
    BY <1>1, <1>3, <1>5, SignalParts DEF SlotSignal
  <2>2. /\ Len(tqueue') = Len(tqueue) + 1 /\ Len(tqueue) \in Nat
        /\ DOMAIN tqueue' = 1..(Len(tqueue) + 1) /\ DOMAIN tqueue = 1..Len(tqueue)
        /\ tqueue'[1] = t
        /\ \A i \in 2..(Len(tqueue) + 1) : i - 1 \in 1..Len(tqueue) /\ tqueue'[i] = tqueue[i - 1]
    BY <1>1, <1>2, SMT
  <2>3. \A u : ParkedEmpty(u) => u # t
    BY <1>1 DEF ParkedEmpty, Parked
  <2>4. \A i \in 1..Len(tqueue) : ParkedEmpty(tqueue[i]) /\ tqueue[i] # t /\ tqueue[i] \in Slots
    BY <2>1, <2>2, <2>3, <1>2, SMT DEF StackSignal
  <2>5. \A u \in Slots : ParkedEmpty(u) => pc'[u] \in Parked /\ argConn'[u] = None
    BY <1>1, <1>2 DEF ParkedEmpty, Parked
  <2>6. pc'[t] \in Parked /\ argConn'[t] = None
    BY <1>1, <1>2, <2>1 DEF Parked
  <2>7. \A i \in DOMAIN tqueue' : pc'[tqueue'[i]] \in Parked /\ argConn'[tqueue'[i]] = None
    <3> SUFFICES ASSUME NEW i \in 1..(Len(tqueue) + 1)
                 PROVE  pc'[tqueue'[i]] \in Parked /\ argConn'[tqueue'[i]] = None
      BY <2>2
    <3>1. CASE i = 1
      BY <3>1, <2>2, <2>6
    <3>2. CASE i # 1
      <4>1. i \in 2..(Len(tqueue) + 1)
        BY <3>2, <2>2, SMT
      <4> QED
        BY <4>1, <2>2, <2>4, <2>5
    <3> QED
      BY <3>1, <3>2
  <2>8. \A d \in Drivers : dpc[d] = "assign" =>
           dArg[d] \in Slots /\ ParkedEmpty(dArg[d]) /\ dArg[d] # t
    BY <2>1, <2>3 DEF StackSignal, PoolInv, TypeOK, DriverTypes
  <2>9. ASSUME NEW d \in Drivers, dpc[d] = "assign", NEW i \in DOMAIN tqueue'
        PROVE  tqueue'[i] # dArg[d]
    <3>1. CASE i = 1
      BY <3>1, <2>2, <2>8, <2>9
    <3>2. CASE i # 1
      <4>1. i \in 2..(Len(tqueue) + 1)
        BY <3>2, <2>2, <2>9, SMT
      <4> QED
        BY <4>1, <2>1, <2>2, <2>9 DEF StackSignal
    <3> QED
      BY <3>1, <3>2
  <2>10. NoDuplicates(tqueue)'
    <3> SUFFICES ASSUME NEW i \in 1..(Len(tqueue) + 1), NEW j \in 1..(Len(tqueue) + 1),
                        tqueue'[i] = tqueue'[j]
                 PROVE  i = j
      BY <2>2 DEF NoDuplicates
    <3>1. \A k \in 1..(Len(tqueue) + 1) : k # 1 => k \in 2..(Len(tqueue) + 1)
      BY <2>2, SMT
    <3>2. CASE i = 1 \/ j = 1
      BY <3>1, <3>2, <2>2, <2>4
    <3>3. CASE i # 1 /\ j # 1
      <4>1. i - 1 \in DOMAIN tqueue /\ j - 1 \in DOMAIN tqueue /\ tqueue[i - 1] = tqueue[j - 1]
        BY <3>1, <3>3, <2>2
      <4>2. i - 1 = j - 1
        BY <4>1, <2>1 DEF StackSignal, NoDuplicates
      <4> QED
        BY <4>2, <2>2, SMT
    <3> QED
      BY <3>2, <3>3
  <2> QED
    BY <1>1, <2>1, <2>5, <2>7, <2>8, <2>9, <2>10 DEF StackSignal, ParkedEmpty
<1> QED
  BY <1>1, <1>4, <1>5 DEF SignalInv, SlotSignal, StackSignal, ParkedEmpty

\* ThreadUnwait: before shutdown a thread that leaves its wait was popped,
\* so its slot is not on the stack and nothing is unlinked.
LEMMA UnwaitSignal ==
    ASSUME PoolInv, SignalInv, NEW t \in Slots, ThreadUnwait(t)
    PROVE  SignalInv'
<1>1. /\ pc[t] = "unwait" /\ pc' = [pc EXCEPT ![t] = "decide"] /\ tqueue' = Unlinked(t)
      /\ UNCHANGED <<argConn, status, shutdown, dpc, dArg>>
  BY DEF ThreadUnwait, Goto, locals, drivers
<1>2. pc \in [Slots -> ThreadLabels] /\ tqueue \in Seq(Slots)
  BY DEF PoolInv, TypeOK, SlotTypes, QueueTypes
<1>3. CASE ~shutdown
  <2>1. StackSignal
    BY <1>3, SignalParts
  <2>2. tqueue' = tqueue
    BY <1>1, <2>1 DEF Unlinked, StackSignal, ParkedEmpty, Parked
  <2>3. SlotSignal(t)'
    BY <1>1, <1>2, SignalParts DEF SlotSignal
  <2>4. ~ParkedEmpty(t)
    BY <1>1 DEF ParkedEmpty, Parked
  <2> QED
    BY <1>1, <1>2, <2>2, <2>3, <2>4, SlotSignalFrame
<1>4. CASE shutdown
  <2>1. ASSUME NEW u \in Slots PROVE SlotSignal(u)'
    <3>1. BeingSignaled(u)' <=> BeingSignaled(u)
      BY <1>1 DEF BeingSignaled
    <3>2. SlotSignal(u)
      BY SignalParts
    <3> QED
      BY <1>1, <1>2, <3>1, <3>2 DEF SlotSignal
  <2> QED
    BY <1>1, <1>4, <2>1 DEF SignalInv, SlotSignal
<1> QED
  BY <1>3, <1>4

-----------------------------------------------------------------------------
(* Drivers and the main thread.                                            *)

\* Steps that leave the slots and the stack alone and take no driver to or
\* from the points that SignalInv speaks of.
LEMMA AsideSignal ==
    ASSUME SignalInv, UNCHANGED <<tqueue, argConn, pc, status>>, shutdown => shutdown',
           \A d \in Drivers : dpc'[d] = "assign" => dpc[d] = "assign" /\ dArg'[d] = dArg[d],
           \A d \in Drivers : dpc[d] \in {"need", "signal"} =>
               dpc'[d] \in {"need", "signal"} /\ dArg'[d] = dArg[d]
    PROVE  SignalInv'
<1>1. \A u : BeingSignaled(u) => BeingSignaled(u)'
  BY DEF BeingSignaled
<1>2. \A u \in Slots : SlotSignal(u)'
  BY <1>1, SignalParts DEF SlotSignal
<1>3. ~shutdown' => StackSignal'
  <2> SUFFICES ASSUME ~shutdown' PROVE StackSignal'
    OBVIOUS
  <2>1. StackSignal
    BY SignalParts
  <2>2. NoDuplicates(tqueue)' /\ \A i \in DOMAIN tqueue' : ParkedEmpty(tqueue[i])'
    BY <2>1 DEF StackSignal, NoDuplicates, ParkedEmpty
  <2> QED
    BY <2>1, <2>2, SMT DEF StackSignal, ParkedEmpty
<1> QED
  BY <1>2, <1>3 DEF SignalInv, SlotSignal, StackSignal, ParkedEmpty

\* Taking a Conn, queueing it, deciding about a thread and counting it.
LEMMA QuietDriverSignal ==
    ASSUME PoolInv, SignalInv, NEW d \in Drivers,
           \/ QueueCheck(d) \/ QueueTake(d) \/ QueueNeed(d) \/ QueueAppend(d) \/ QueueCount(d)
           \/ EnsureRunning(d)
    PROVE  SignalInv'
<1>1. dpc \in [Drivers -> DriverLabels]
  BY DEF PoolInv, TypeOK, DriverTypes
<1>2. UNCHANGED <<tqueue, argConn, pc, status, shutdown, dArg>>
  BY DEF QueueCheck, QueueTake, QueueNeed, QueueAppend, QueueCount, EnsureRunning, args, locals
<1>3. PICK l \in {"take", "loop", "dequeue", "signal", "count", "spawn"} :
         /\ dpc' = [dpc EXCEPT ![d] = l]
         /\ dpc[d] \in {"need", "signal"} => l = "signal"
  BY DEF QueueCheck, QueueTake, QueueNeed, QueueAppend, QueueCount, EnsureRunning, DriverGoto
<1> QED
  BY <1>1, <1>2, <1>3, AsideSignal

\* QueueDequeue: the popped thread is parked, on no other driver's hands and,
\* the stack having no duplicates, no longer on the stack.
LEMMA DequeueSignal ==
    ASSUME PoolInv, SignalInv, NEW d \in Drivers, QueueDequeue(d)
    PROVE  SignalInv'
<1>1. /\ dpc[d] = "dequeue"
      /\ UNCHANGED <<argConn, pc, status, shutdown>>
      /\ dpc \in [Drivers -> DriverLabels] /\ dArg \in [Drivers -> Slots \cup {None}]
      /\ tqueue \in Seq(Slots)
  BY DEF QueueDequeue, args, locals, PoolInv, TypeOK, DriverTypes, QueueTypes
<1>2. CASE tqueue = <<>>
  <2>1. UNCHANGED <<tqueue, dArg>> /\ dpc' = [dpc EXCEPT ![d] = "append"]
    BY <1>2 DEF QueueDequeue, DriverGoto
  <2> QED
    BY <1>1, <2>1, AsideSignal
<1>3. CASE tqueue # <<>>
  <2>1. /\ dArg' = [dArg EXCEPT ![d] = Head(tqueue)] /\ tqueue' = Tail(tqueue)
        /\ dpc' = [dpc EXCEPT ![d] = "assign"]
    BY <1>3 DEF QueueDequeue, PopIdle, DriverGoto
  <2>2. /\ Len(tqueue) \in Nat \ {0} /\ DOMAIN tqueue = 1..Len(tqueue)
        /\ Head(tqueue) = tqueue[1] /\ DOMAIN tqueue' = 1..(Len(tqueue) - 1)
        /\ \A i \in 1..(Len(tqueue) - 1) : tqueue'[i] = tqueue[i + 1] /\ i + 1 \in 1..Len(tqueue)
    BY <1>1, <1>3, <2>1, SMT
  <2>3. \A u : BeingSignaled(u) => BeingSignaled(u)'
    BY <1>1, <2>1 DEF BeingSignaled
  <2>4. \A u \in Slots : SlotSignal(u)'
    BY <1>1, <2>3, SignalParts DEF SlotSignal
  <2>5. ASSUME ~shutdown PROVE StackSignal'
    <3>1. StackSignal
      BY <2>5, SignalParts
    <3>2. \A i, j \in 1..Len(tqueue) : tqueue[i] = tqueue[j] => i = j
      BY <3>1, <2>2 DEF StackSignal, NoDuplicates
    <3>3. NoDuplicates(tqueue)'
      <4> SUFFICES ASSUME NEW i \in 1..(Len(tqueue) - 1), NEW j \in 1..(Len(tqueue) - 1),
                          tqueue'[i] = tqueue'[j]
                   PROVE  i = j
        BY <2>2 DEF NoDuplicates
      <4>1. i + 1 = j + 1
        BY <2>2, <3>2, SMT
      <4> QED
        BY <4>1, <2>2, SMT
    <3>4. \A i \in DOMAIN tqueue' : ParkedEmpty(tqueue'[i])
      BY <2>2, <3>1 DEF StackSignal
    <3>5. ParkedEmpty(Head(tqueue))
      BY <2>2, <3>1, SMT DEF StackSignal
    <3>6. \A i \in DOMAIN tqueue' : tqueue'[i] # Head(tqueue)
      <4> SUFFICES ASSUME NEW i \in 1..(Len(tqueue) - 1), tqueue[i + 1] = tqueue[1] PROVE FALSE
        BY <2>2
      <4>1. i + 1 = 1
        BY <2>2, <3>2, SMT
      <4> QED
        BY <4>1, <2>2, SMT
    <3>7. ASSUME NEW e \in Drivers, dpc'[e] = "assign"
          PROVE  /\ ParkedEmpty(dArg'[e])
                 /\ \A i \in DOMAIN tqueue' : tqueue'[i] # dArg'[e]
      <4>1. CASE e = d
        BY <4>1, <3>5, <3>6, <2>1, <1>1
      <4>2. CASE e # d
        BY <4>2, <3>1, <3>7, <2>1, <2>2, <1>1, SMT DEF StackSignal
      <4> QED
        BY <4>1, <4>2
    <3>8. ASSUME NEW e \in Drivers, dpc'[e] = "assign",
                 NEW f \in Drivers, dpc'[f] = "assign", dArg'[f] = dArg'[e]
          PROVE  f = e
      <4>1. \A g \in Drivers : g # d /\ dpc'[g] = "assign" => dArg'[g] # Head(tqueue)
        BY <3>1, <2>1, <2>2, <1>1, SMT DEF StackSignal
      <4>2. dArg'[d] = Head(tqueue)
        BY <2>1, <1>1
      <4>3. CASE e = d \/ f = d
        BY <4>1, <4>2, <4>3, <3>8
      <4>4. CASE e # d /\ f # d
        BY <4>4, <3>1, <3>8, <2>1, <1>1 DEF StackSignal
      <4> QED
        BY <4>3, <4>4
    <3> QED
      BY <1>1, <3>3, <3>4, <3>7, <3>8 DEF StackSignal, ParkedEmpty
  <2> QED
    BY <1>1, <2>4, <2>5 DEF SignalInv, SlotSignal, StackSignal, ParkedEmpty
<1> QED
  BY <1>2, <1>3

\* QueueAssign: the thread gets its connection, and the driver that gave it
\* goes on to signal.
LEMMA AssignSignal ==
    ASSUME PoolInv, SignalInv, NEW d \in Drivers, QueueAssign(d)
    PROVE  SignalInv'
<1>1. /\ dpc[d] = "assign" /\ argConn' = [argConn EXCEPT ![dArg[d]] = dConn[d]]
      /\ dpc' = [dpc EXCEPT ![d] = "need"]
      /\ UNCHANGED <<pc, status, shutdown, dArg, tqueue>>
  BY DEF QueueAssign, DriverGoto, locals
<1>2. /\ dpc \in [Drivers -> DriverLabels] /\ argConn \in [Slots -> Conns \cup {None}]
      /\ dArg[d] \in Slots /\ tqueue \in Seq(Slots)
      /\ \A e \in Drivers : dpc[e] = "assign" => dArg[e] \in Slots
  BY <1>1 DEF PoolInv, TypeOK, DriverTypes, SlotTypes, QueueTypes
<1>3. BeingSignaled(dArg[d])' /\ \A u : BeingSignaled(u) => BeingSignaled(u)'
  BY <1>1, <1>2 DEF BeingSignaled
<1>4. ASSUME NEW u \in Slots PROVE SlotSignal(u)'
  <2>1. SlotSignal(u)
    BY SignalParts
  <2>2. CASE u # dArg[d]
    BY <2>1, <2>2, <1>1, <1>2, <1>3 DEF SlotSignal
  <2>3. CASE u = dArg[d]
    <3>1. ~shutdown => pc[u] # "goidle"
      BY <2>3, <1>1, SignalParts DEF StackSignal, ParkedEmpty, Parked
    <3> QED
      BY <2>1, <2>3, <3>1, <1>1, <1>3 DEF SlotSignal
  <2> QED
    BY <2>2, <2>3
<1>5. ASSUME ~shutdown PROVE StackSignal'
  <2>1. StackSignal
    BY <1>5, SignalParts
  <2>2. \A u \in Slots : u # dArg[d] /\ ParkedEmpty(u) => ParkedEmpty(u)'
    BY <1>1, <1>2 DEF ParkedEmpty
  <2>3. \A i \in DOMAIN tqueue : tqueue[i] \in Slots /\ tqueue[i] # dArg[d] /\ ParkedEmpty(tqueue[i])
    BY <1>1, <1>2, <2>1, SMT DEF StackSignal
  <2>4. \A e \in Drivers : dpc'[e] = "assign" =>
           e # d /\ dpc[e] = "assign" /\ dArg[e] \in Slots /\ dArg[e] # dArg[d] /\ ParkedEmpty(dArg[e])
    BY <1>1, <1>2, <2>1 DEF StackSignal
  <2>5. NoDuplicates(tqueue)'
    BY <1>1, <2>1 DEF StackSignal, NoDuplicates
  <2> QED
    BY <1>1, <2>1, <2>2, <2>3, <2>4, <2>5 DEF StackSignal, ParkedEmpty
<1> QED
  BY <1>1, <1>4, <1>5 DEF SignalInv, SlotSignal, StackSignal, ParkedEmpty

\* QueueSignal: under argPtr->lock the thread is either asleep, and woken, or
\* not yet armed or already awake.
LEMMA QueueSignalSignal ==
    ASSUME PoolInv, SignalInv, NEW d \in Drivers, QueueSignal(d)
    PROVE  SignalInv'
<1>1. /\ dpc[d] = "signal" /\ ArgLockFree(dArg[d])
      /\ pc' = IF pc[dArg[d]] = "waiting" THEN [pc EXCEPT ![dArg[d]] = "signaled"] ELSE pc
      /\ UNCHANGED <<argConn, status, shutdown, tqueue>>
      /\ dArg' = [dArg EXCEPT ![d] = None]
  BY DEF QueueSignal, Goto, args, locals
<1>2. /\ dpc \in [Drivers -> DriverLabels] /\ pc \in [Slots -> ThreadLabels]
      /\ dArg \in [Drivers -> Slots \cup {None}]
      /\ dArg[d] \in Slots /\ tqueue \in Seq(Slots)
      /\ \A e \in Drivers : dpc[e] = "assign" => dArg[e] \in Slots
  BY <1>1 DEF PoolInv, TypeOK, DriverTypes, SlotTypes, QueueTypes
<1>3. PICK l \in {"count", "loop"} : dpc' = [dpc EXCEPT ![d] = l]
  BY DEF QueueSignal, DriverGoto
<1>4. \A u : u # dArg[d] /\ BeingSignaled(u) => BeingSignaled(u)'
  BY <1>1, <1>2, <1>3 DEF BeingSignaled
<1>5. ASSUME NEW u \in Slots PROVE SlotSignal(u)'
  <2>1. SlotSignal(u)
    BY SignalParts
  <2>2. CASE u # dArg[d]
    BY <2>1, <2>2, <1>1, <1>2, <1>4 DEF SlotSignal
  <2>3. CASE u = dArg[d]
    BY <2>1, <2>3, <1>1, <1>2 DEF SlotSignal, ArgLockFree
  <2> QED
    BY <2>2, <2>3
<1>6. ASSUME ~shutdown PROVE StackSignal'
  <2>1. StackSignal
    BY <1>6, SignalParts
  <2>2. \A u \in Slots : ParkedEmpty(u) => ParkedEmpty(u)'
    BY <1>1, <1>2 DEF ParkedEmpty, Parked
  <2>3. \A i \in DOMAIN tqueue : tqueue[i] \in Slots /\ ParkedEmpty(tqueue[i])
    BY <1>2, <2>1, SMT DEF StackSignal
  <2>4. \A e \in Drivers : dpc'[e] = "assign" =>
           dpc[e] = "assign" /\ dArg'[e] = dArg[e] /\ dArg[e] \in Slots /\ ParkedEmpty(dArg[e])
    BY <1>1, <1>2, <1>3, <2>1 DEF StackSignal
  <2>5. NoDuplicates(tqueue)'
    BY <1>1, <2>1 DEF StackSignal, NoDuplicates
  <2> QED
    BY <1>1, <2>1, <2>2, <2>3, <2>4, <2>5, SMT DEF StackSignal, ParkedEmpty
<1> QED
  BY <1>1, <1>5, <1>6 DEF SignalInv, SlotSignal, StackSignal, ParkedEmpty

\* CreateConnThread: a slot without a thread is neither on the stack nor popped.
LEMMA CreateSignal ==
    ASSUME PoolInv, SignalInv, NEW d \in Drivers, CreateConnThread(d)
    PROVE  SignalInv'
<1>1. dpc \in [Drivers -> DriverLabels] /\ dpc[d] = "spawn"
  BY DEF CreateConnThread, PoolInv, TypeOK, DriverTypes
<1>2. UNCHANGED <<tqueue, shutdown, dArg>>
  BY DEF CreateConnThread
<1>3. CASE FreeSlots = {}
  <2>1. UNCHANGED <<argConn, pc, status, dpc>>
    BY <1>3 DEF CreateConnThread, args, locals
  <2> QED
    BY <1>2, <2>1, AsideSignal
<1>4. CASE FreeSlots # {}
  <2>1. PICK t \in FreeSlots :
           /\ argConn' = [argConn EXCEPT ![t] = None] /\ status' = [status EXCEPT ![t] = "ok"]
           /\ pc' = [pc EXCEPT ![t] = "start"] /\ dpc' = [dpc EXCEPT ![d] = "loop"]
    BY <1>4 DEF CreateConnThread, Goto, DriverGoto
  <2>2. /\ pc \in [Slots -> ThreadLabels] /\ status \in [Slots -> {"ok", "timeout"}]
        /\ argConn \in [Slots -> Conns \cup {None}] /\ tqueue \in Seq(Slots)
        /\ \A e \in Drivers : dpc[e] = "assign" => dArg[e] \in Slots
    BY DEF PoolInv, TypeOK, SlotTypes, QueueTypes, DriverTypes
  <2>3. t \in Slots /\ argState[t] = "free"
    BY ConstantFacts, SMT DEF FreeSlots, Slots, PoolInv, TypeOK, CounterTypes
  <2>4. pc[t] = "none"
    BY <2>3 DEF PoolInv, ThreadStates, ThreadState
  <2>5. \A u : BeingSignaled(u) => BeingSignaled(u)'
    BY <1>1, <1>2, <2>1 DEF BeingSignaled
  <2>6. \A u \in Slots : SlotSignal(u)'
    BY <1>2, <2>1, <2>2, <2>3, <2>4, <2>5, SignalParts DEF SlotSignal
  <2>7. ASSUME ~shutdown PROVE StackSignal'
    <3>1. StackSignal
      BY <2>7, SignalParts
    <3>2. \A u \in Slots : ParkedEmpty(u) => ParkedEmpty(u)'
      BY <2>1, <2>2, <2>3, <2>4 DEF ParkedEmpty, Parked
    <3>3. \A i \in DOMAIN tqueue : tqueue[i] \in Slots /\ ParkedEmpty(tqueue[i])
      BY <2>2, <2>3, <2>4, <3>1, SMT DEF StackSignal
    <3>4. \A e \in Drivers : dpc'[e] = "assign" =>
             dpc[e] = "assign" /\ dArg[e] \in Slots /\ ParkedEmpty(dArg[e])
      BY <1>1, <2>1, <2>2, <2>3, <2>4, <3>1 DEF StackSignal
    <3>5. NoDuplicates(tqueue)'
      BY <1>2, <3>1 DEF StackSignal, NoDuplicates
    <3> QED
      BY <1>2, <3>1, <3>2, <3>3, <3>4, <3>5 DEF StackSignal, ParkedEmpty
  <2> QED
    BY <1>2, <2>6, <2>7 DEF SignalInv, SlotSignal, StackSignal, ParkedEmpty
<1> QED
  BY <1>3, <1>4

\* NsWakeupConnThreads: sleeping threads are woken, parked they remain.
LEMMA WakeupSignal ==
    ASSUME PoolInv, SignalInv, WakeupConnThreads
    PROVE  SignalInv'
<1>1. UNCHANGED <<tqueue, argConn, status, shutdown, dpc, dArg>>
  BY DEF WakeupConnThreads, args, locals, drivers
<1>2. /\ pc \in [Slots -> ThreadLabels]
      /\ \A u \in Slots : pc'[u] = pc[u] \/ (pc[u] = "waiting" /\ pc'[u] = "signaled")
  BY DEF WakeupConnThreads, PoolInv, TypeOK, SlotTypes
<1>3. \A u : BeingSignaled(u)' <=> BeingSignaled(u)
  BY <1>1 DEF BeingSignaled
<1>4. ASSUME NEW u \in Slots PROVE SlotSignal(u)'
  <2>1. SlotSignal(u)
    BY SignalParts
  <2> QED
    BY <1>1, <1>2, <1>3, <2>1 DEF SlotSignal
<1>5. ASSUME ~shutdown PROVE StackSignal'
  <2>1. StackSignal
    BY <1>5, SignalParts
  <2>2. \A u \in Slots : ParkedEmpty(u) => ParkedEmpty(u)'
    BY <1>1, <1>2 DEF ParkedEmpty, Parked
  <2>3. \A i \in DOMAIN tqueue : tqueue[i] \in Slots
    BY SMT DEF PoolInv, TypeOK, QueueTypes
  <2>4. \A e \in Drivers : dpc[e] = "assign" => dArg[e] \in Slots
    BY DEF PoolInv, TypeOK, DriverTypes
  <2>5. NoDuplicates(tqueue)'
    BY <1>1, <2>1 DEF StackSignal, NoDuplicates
  <2>6. \A i \in DOMAIN tqueue : ParkedEmpty(tqueue[i])'
    BY <2>1, <2>2, <2>3, <1>1 DEF StackSignal
  <2> QED
    BY <1>1, <2>1, <2>2, <2>4, <2>5, <2>6 DEF StackSignal, ParkedEmpty
<1> QED
  BY <1>1, <1>4, <1>5 DEF SignalInv, SlotSignal, StackSignal, ParkedEmpty

\* The other steps of the main thread, and ns_server minthreads/maxthreads.
LEMMA OutsideSignal ==
    ASSUME SignalInv,
           \/ SetMaxThreads \/ SetMinThreads \/ StopServer \/ WaitServerTimeout
           \/ WaitServerCheck \/ WaitServerWait \/ WaitServerJoin
           \/ UNCHANGED vars
    PROVE  SignalInv'
<1>1. UNCHANGED <<tqueue, argConn, pc, status, dpc, dArg>> /\ (shutdown => shutdown')
  BY SMT DEF SetMaxThreads, SetMinThreads, StopServer, WaitServerTimeout, WaitServerCheck,
         WaitServerWait, WaitServerJoin, vars, args, locals, drivers
<1> QED
  BY <1>1, AsideSignal

\* Every step, when no threadtimeout expires.
LEMMA SignalStep ==
    ASSUME ~ThreadTimeout, PoolInv, SignalInv, [Next]_vars
    PROVE  SignalInv'
<1>1. ASSUME NEW d \in Drivers, QueueCheck(d) \/ EnsureRunning(d) \/ DriverStep(d)
      PROVE  SignalInv'
  BY <1>1, QuietDriverSignal, DequeueSignal, AssignSignal, QueueSignalSignal, CreateSignal
     DEF DriverStep
<1>2. ASSUME NEW t \in Slots, ThreadStep(t) \/ ThreadExpires(t) \/ ThreadSpurious(t)
      PROVE  SignalInv'
  BY <1>2, QuietThreadSignal, GoIdleSignal, UnwaitSignal
<1> QED
  BY <1>1, <1>2, WakeupSignal, OutsideSignal DEF Next, MainStep

\* It holds at the start: nobody sleeps and the stack is empty.
LEMMA InitSignal == Init => SignalInv
<1> SUFFICES ASSUME Init PROVE SignalInv
  OBVIOUS
<1>1. \A t \in Slots : SlotSignal(t)
  BY DEF Init, SlotSignal
<1>2. StackSignal
  BY SMT DEF Init, StackSignal, NoDuplicates
<1> QED
  BY <1>1, <1>2, SignalParts

\* As long as no threadtimeout expires, a popped thread sleeps or is about to
\* and has no other connection, and a thread that sleeps with a connection is
\* about to be signaled: NsQueueConn and NsConnThread lose no signal,
\* whatever the number of drivers, threads and connections.
THEOREM SignalKept == ~ThreadTimeout => (Spec => []SignalInv)
<1> SUFFICES ASSUME ~ThreadTimeout PROVE Spec => []SignalInv
  OBVIOUS
<1>1. PoolInv /\ SignalInv /\ [Next]_vars => SignalInv'
  BY SignalStep
<1> QED
  BY <1>1, InitSignal, PoolInvariant, PTL DEF Spec

\* In particular every sleeping thread with a connection has a driver on the
\* way to signal it (the comment on argPtr->lock in NsConnThread).
THEOREM NoSignalLost == ~ThreadTimeout => (Spec => []SignalComing)
<1> SUFFICES ASSUME ~ThreadTimeout PROVE Spec => []SignalComing
  OBVIOUS
<1>1. SignalInv => SignalComing
  BY DEF SignalInv, SignalComing, BeingSignaled
<1> QED
  BY <1>1, SignalKept, PTL

-----------------------------------------------------------------------------
(* No Conn is lost.                                                        *)

\* Before shutdown a thread between two connections has none assigned, so
\* that taking one overwrites nothing, and a thread that runs a connection
\* has no other one assigned: argPtr->connPtr and connPtr of NsConnThread agree.
SlotHand(t) ==
    ~shutdown =>
        /\ pc[t] \in {"start", "loop", "take", "goidle", "release", "snapshot"} => argConn[t] = None
        /\ pc[t] = "run" => argConn[t] = connPtr[t]
\* Inductive: what every slot says of the connection it was handed.
HandInv == \A t \in Slots : SlotHand(t)

\* The thread of slot t has c and will return it; c is in some place.
Holds(t, c) == ThreadHas(t, c) /\ pc[t] \notin {"none"} \cup ExitRegion
\* A connection is free, waiting, or in the hands of somebody.
Located(c) ==
    \/ c \in freeConns
    \/ \E i \in DOMAIN waitQ : waitQ[i] = c
    \/ \E d \in Drivers : dConn[d] = c
    \/ \E t \in Slots : Holds(t, c)

\* ConnNotLost, connection by connection.
LEMMA NotLostParts == ConnNotLost <=> (~shutdown => \A c \in Conns : Located(c))
BY DEF ConnNotLost, Located, Holds

\* A thread's step that moves no Conn from or to the free list and the queue.
LEMMA ThreadHands ==
    ASSUME PoolInv, SignalInv, HandInv, ConnNotLost, ~ThreadTimeout, NEW t \in Slots,
           ThreadStep(t) \/ ThreadExpires(t) \/ ThreadSpurious(t),
           ~(ThreadTake(t) /\ waitQ # <<>>), ~ThreadRelease(t)
    PROVE  HandInv' /\ ConnNotLost'
<1>1. SlotSignal(t) /\ ThreadState(t) /\ SlotHand(t)
  BY SignalParts DEF PoolInv, ThreadStates, HandInv
<1>2. /\ pc \in [Slots -> ThreadLabels] /\ status \in [Slots -> {"ok", "timeout"}]
      /\ argConn \in [Slots -> Conns \cup {None}] /\ connPtr \in [Slots -> Conns \cup {None}]
  BY DEF PoolInv, TypeOK, SlotTypes
<1>3. UNCHANGED <<shutdown, freeConns, waitQ, dConn>>
  BY DEF ThreadStep, ThreadReady, ThreadLook, ThreadTake, ThreadNothingWaiting, ThreadGoIdle,
         ThreadArmed, ThreadSleep, ThreadSignaled, ThreadTimedOut, ThreadJudge, ThreadUnwait,
         ThreadDecide, ThreadRun, ThreadSnapshot, ThreadDead, ThreadExit, ThreadSignalMain,
         ThreadJoinRead, ThreadJoinSet, ThreadFree, ThreadExpires, ThreadSpurious, drivers
<1> DEFINE Only == \A u \in Slots : u # t => /\ pc'[u] = pc[u] /\ argConn'[u] = argConn[u]
                                              /\ connPtr'[u] = connPtr[u]
           Kept == \A c \in Conns : shutdown \/ (Holds(t, c) => Holds(t, c)')
<1> SUFFICES Only /\ SlotHand(t)' /\ Kept
  <2>1. HandInv'
    BY <1>3 DEF HandInv, SlotHand
  <2>2. ASSUME ~shutdown, NEW c \in Conns PROVE Located(c)'
    <3>1. Located(c)
      BY <2>2, NotLostParts
    <3>2. \A u \in Slots : Holds(u, c) => Holds(u, c)'
      BY <2>2 DEF Holds, ThreadHas
    <3> QED
      BY <1>3, <3>1, <3>2 DEF Located
  <2> QED
    BY <1>3, <2>1, <2>2 DEF ConnNotLost, Located, Holds
<1> USE ConstantFacts DEF Goto, args, locals, Holds, ThreadHas, ExitRegion
<1>4. CASE ThreadReady(t) \/ ThreadLook(t) \/ ThreadGoIdle(t)
  BY <1>1, <1>2, <1>3, <1>4 DEF ThreadReady, ThreadLook, ThreadGoIdle, SlotHand
<1>5. CASE ThreadTake(t) \/ ThreadNothingWaiting(t)
  BY <1>1, <1>2, <1>3, <1>5, ZenonT(30) DEF ThreadTake, ThreadNothingWaiting, SlotHand, ThreadState
<1>6. CASE ThreadArmed(t) \/ ThreadSleep(t) \/ ThreadSignaled(t) \/ ThreadSpurious(t) \/ ThreadUnwait(t)
  BY <1>1, <1>2, <1>3, <1>6, SMT DEF ThreadArmed, ThreadSleep, ThreadSignaled, ThreadSpurious,
         ThreadUnwait, SlotHand
<1>7. CASE ThreadTimedOut(t) \/ ThreadJudge(t) \/ ThreadExpires(t)
  BY <1>1, <1>7 DEF ThreadTimedOut, ThreadJudge, ThreadExpires, SlotSignal
<1>8. CASE ThreadDecide(t)
  BY <1>1, <1>2, <1>3, <1>8, SMTT(30) DEF ThreadDecide, MustLeave, SlotSignal, SlotHand, ThreadState
<1>9. CASE ThreadRun(t) \/ ThreadSnapshot(t)
  BY <1>1, <1>2, <1>3, <1>9, SMT DEF ThreadRun, ThreadSnapshot, SlotHand, ThreadState
<1>10. CASE ThreadDead(t) \/ ThreadExit(t) \/ ThreadSignalMain(t) \/ ThreadJoinRead(t)
               \/ ThreadJoinSet(t) \/ ThreadFree(t)
  BY <1>1, <1>2, <1>3, <1>10 DEF ThreadDead, ThreadExit, ThreadSignalMain, ThreadJoinRead,
         ThreadJoinSet, ThreadFree, SlotHand
<1> QED
  BY <1>4, <1>5, <1>6, <1>7, <1>8, <1>9, <1>10 DEF ThreadStep

\* ThreadTake: the first waiting Conn goes to the thread, which has none.
LEMMA TakeHands ==
    ASSUME PoolInv, SignalInv, HandInv, ConnNotLost, NEW t \in Slots, ThreadTake(t), waitQ # <<>>
    PROVE  HandInv' /\ ConnNotLost'
<1>1. /\ pc[t] = "take" /\ argConn' = [argConn EXCEPT ![t] = Head(waitQ)]
      /\ connPtr' = [connPtr EXCEPT ![t] = Head(waitQ)] /\ waitQ' = Tail(waitQ)
      /\ pc' = [pc EXCEPT ![t] = "run"] /\ UNCHANGED <<shutdown, freeConns, dConn>>
  BY DEF ThreadTake, Goto, drivers
<1>2. /\ pc \in [Slots -> ThreadLabels] /\ argConn \in [Slots -> Conns \cup {None}]
      /\ connPtr \in [Slots -> Conns \cup {None}] /\ waitQ \in Seq(Conns)
      /\ ThreadState(t) /\ SlotHand(t)
  BY DEF PoolInv, TypeOK, SlotTypes, QueueTypes, ThreadStates, HandInv
<1>3. HandInv'
  BY <1>1, <1>2 DEF HandInv, SlotHand
<1>4. ASSUME ~shutdown, NEW c \in Conns PROVE Located(c)'
  <2>1. Located(c)
    BY <1>4, NotLostParts
  <2>2. ~Holds(t, c)
    BY <1>1, <1>2, <1>4, ConstantFacts DEF Holds, ThreadHas, SlotHand, ThreadState
  <2>3. \A u \in Slots : Holds(u, c) => Holds(u, c)'
    BY <1>1, <1>2, <2>2 DEF Holds, ThreadHas
  <2>4. ASSUME NEW i \in DOMAIN waitQ, waitQ[i] = c PROVE Located(c)'
    <3>1. CASE i = 1
      <4>1. Holds(t, c)'
        BY <3>1, <2>4, <1>1, <1>2, SMT DEF Holds, ThreadHas, ExitRegion
      <4> QED
        BY <4>1 DEF Located
    <3>2. CASE i # 1
      <4>1. i - 1 \in DOMAIN waitQ' /\ waitQ'[i - 1] = c
        BY <3>2, <2>4, <1>1, <1>2, SMT
      <4> QED
        BY <4>1 DEF Located
    <3> QED
      BY <3>1, <3>2
  <2> QED
    BY <1>1, <2>1, <2>3, <2>4 DEF Located
<1> QED
  BY <1>1, <1>3, <1>4 DEF ConnNotLost, Located, Holds

\* ThreadRelease: the Conn goes back to the free list.
LEMMA ReleaseHands ==
    ASSUME PoolInv, HandInv, ConnNotLost, NEW t \in Slots, ThreadRelease(t)
    PROVE  HandInv' /\ ConnNotLost'
<1>1. /\ pc[t] = "release" /\ freeConns' = freeConns \cup {connPtr[t]}
      /\ connPtr' = [connPtr EXCEPT ![t] = None] /\ pc' = [pc EXCEPT ![t] = "snapshot"]
      /\ UNCHANGED <<shutdown, waitQ, dConn, argConn>>
  BY DEF ThreadRelease, Goto, drivers
<1>2. /\ pc \in [Slots -> ThreadLabels] /\ connPtr \in [Slots -> Conns \cup {None}] /\ SlotHand(t)
  BY DEF PoolInv, TypeOK, SlotTypes, HandInv
<1>3. HandInv'
  BY <1>1, <1>2 DEF HandInv, SlotHand
<1>4. ASSUME ~shutdown, NEW c \in Conns PROVE Located(c)'
  <2>1. Located(c)
    BY <1>4, NotLostParts
  <2>2. \A u \in Slots : u # t /\ Holds(u, c) => Holds(u, c)'
    BY <1>1, <1>2 DEF Holds, ThreadHas
  <2>3. Holds(t, c) => c \in freeConns'
    BY <1>1, <1>2, <1>4, ConstantFacts DEF Holds, ThreadHas, SlotHand
  <2> QED
    BY <1>1, <2>1, <2>2, <2>3 DEF Located
<1> QED
  BY <1>1, <1>3, <1>4 DEF ConnNotLost, Located, Holds

\* Steps that move no Conn and leave the slots alone but for waking sleepers.
LEMMA AsideHands ==
    ASSUME HandInv, ConnNotLost, UNCHANGED <<freeConns, waitQ, dConn, argConn, connPtr>>,
           \A u \in Slots : pc'[u] = pc[u] \/ (pc[u] = "waiting" /\ pc'[u] = "signaled"),
           shutdown => shutdown'
    PROVE  HandInv' /\ ConnNotLost'
<1>1. HandInv'
  BY DEF HandInv, SlotHand
<1>2. ASSUME ~shutdown', NEW c \in Conns PROVE Located(c)'
  <2>1. Located(c)
    BY <1>2, NotLostParts
  <2>2. \A u \in Slots : Holds(u, c) => Holds(u, c)'
    BY DEF Holds, ThreadHas, ExitRegion
  <2> QED
    BY <2>1, <2>2 DEF Located
<1> QED
  BY <1>1, <1>2 DEF ConnNotLost, Located, Holds

\* Taking, assigning and queueing: the Conn goes to or leaves the driver.
LEMMA DriverHands ==
    ASSUME PoolInv, SignalInv, HandInv, ConnNotLost, NEW d \in Drivers,
           QueueTake(d) \/ QueueAssign(d) \/ QueueAppend(d)
    PROVE  HandInv' /\ ConnNotLost'
<1>1. /\ dConn \in [Drivers -> Conns \cup {None}] /\ argConn \in [Slots -> Conns \cup {None}]
      /\ waitQ \in Seq(Conns) /\ UNCHANGED <<shutdown, pc, connPtr>>
  BY DEF PoolInv, TypeOK, DriverTypes, SlotTypes, QueueTypes, QueueTake, QueueAssign, QueueAppend,
         locals
<1>2. CASE QueueTake(d)
  <2>1. UNCHANGED <<waitQ, argConn>>
    BY <1>2 DEF QueueTake, args
  <2>2. HandInv'
    BY <1>1, <2>1 DEF HandInv, SlotHand
  <2>3. dConn[d] \notin Conns
    BY <1>2 DEF QueueTake, PoolInv, TypeOK, DriverTypes
  <2>4. ASSUME ~shutdown, NEW c \in Conns PROVE Located(c)'
    <3>1. Located(c)
      BY <2>4, NotLostParts
    <3>2. \A u \in Slots : Holds(u, c) => Holds(u, c)'
      BY <1>1, <2>1 DEF Holds, ThreadHas
    <3>3. c \in freeConns => c \in freeConns' \/ dConn'[d] = c
      BY <1>1, <1>2 DEF QueueTake
    <3>4. \A e \in Drivers : dConn[e] = c => dConn'[e] = c
      BY <1>1, <1>2, <2>3, <2>4 DEF QueueTake
    <3> QED
      BY <2>1, <3>1, <3>2, <3>3, <3>4 DEF Located
  <2> QED
    BY <1>1, <2>2, <2>4 DEF ConnNotLost, Located, Holds
<1>3. CASE QueueAssign(d)
  <2>1. /\ dpc[d] = "assign" /\ argConn' = [argConn EXCEPT ![dArg[d]] = dConn[d]]
        /\ dConn' = [dConn EXCEPT ![d] = None] /\ UNCHANGED <<freeConns, waitQ>>
    BY <1>3 DEF QueueAssign
  <2>2. PICK t \in Slots : t = dArg[d]
    BY <2>1 DEF PoolInv, TypeOK, DriverTypes
  <2>3. ~shutdown => ParkedEmpty(t)
    BY <2>1, <2>2, SignalParts DEF StackSignal
  <2>4. HandInv'
    BY <1>1, <2>1, <2>2, <2>3 DEF HandInv, SlotHand, ParkedEmpty, Parked
  <2>5. ASSUME ~shutdown, NEW c \in Conns PROVE Located(c)'
    <3>1. Located(c)
      BY <2>5, NotLostParts
    <3>2. \A u \in Slots : u # t /\ Holds(u, c) => Holds(u, c)'
      BY <1>1, <2>1, <2>2 DEF Holds, ThreadHas
    <3>3. Holds(t, c) => Holds(t, c)'
      BY <1>1, <2>1, <2>2, <2>3, <2>5, ConstantFacts DEF Holds, ThreadHas, ParkedEmpty
    <3>4. dConn[d] = c => Holds(t, c)'
      BY <1>1, <2>1, <2>2, <2>3, <2>5 DEF Holds, ThreadHas, ParkedEmpty, Parked, ExitRegion
    <3>5. \A e \in Drivers : e # d /\ dConn[e] = c => dConn'[e] = c
      BY <1>1, <2>1
    <3>6. \A u \in Slots : Holds(u, c) => Holds(u, c)'
      BY <3>2, <3>3
    <3>7. dConn[d] = c => \E u \in Slots : Holds(u, c)'
      BY <3>4, <2>2
    <3> QED
      BY <2>1, <2>2, <3>1, <3>5, <3>6, <3>7 DEF Located
  <2> QED
    BY <1>1, <2>4, <2>5 DEF ConnNotLost, Located, Holds
<1>4. CASE QueueAppend(d)
  <2>1. /\ dpc[d] = "append" /\ waitQ' = Append(waitQ, dConn[d])
        /\ dConn' = [dConn EXCEPT ![d] = None] /\ UNCHANGED <<freeConns, argConn>>
    BY <1>4 DEF QueueAppend, args
  <2>2. dConn[d] \in Conns
    BY <2>1 DEF PoolInv, TypeOK, DriverTypes
  <2>3. HandInv'
    BY <1>1, <2>1 DEF HandInv, SlotHand
  <2>4. ASSUME ~shutdown, NEW c \in Conns PROVE Located(c)'
    <3>1. Located(c)
      BY <2>4, NotLostParts
    <3>2. \A u \in Slots : Holds(u, c) => Holds(u, c)'
      BY <1>1, <2>1 DEF Holds, ThreadHas
    <3>3. \A i \in DOMAIN waitQ : i \in DOMAIN waitQ' /\ waitQ'[i] = waitQ[i]
      BY <1>1, <2>1, <2>2, SMT
    <3>4. Len(waitQ) + 1 \in DOMAIN waitQ' /\ waitQ'[Len(waitQ) + 1] = dConn[d]
      BY <1>1, <2>1, <2>2, SMT
    <3>5. \A e \in Drivers : e # d /\ dConn[e] = c => dConn'[e] = c
      BY <1>1, <2>1
    <3>6. ASSUME NEW i \in DOMAIN waitQ, waitQ[i] = c PROVE Located(c)'
      BY <3>3, <3>6 DEF Located
    <3>7. dConn[d] = c => Located(c)'
      BY <3>4 DEF Located
    <3> QED
      BY <2>1, <3>1, <3>2, <3>5, <3>6, <3>7 DEF Located
  <2> QED
    BY <1>1, <2>3, <2>4 DEF ConnNotLost, Located, Holds
<1> QED
  BY <1>2, <1>3, <1>4

\* CreateConnThread: the slot it resets held no Conn that was still wanted.
LEMMA CreateHands ==
    ASSUME PoolInv, HandInv, ConnNotLost, NEW d \in Drivers, CreateConnThread(d)
    PROVE  HandInv' /\ ConnNotLost'
<1>1. UNCHANGED <<freeConns, waitQ, dConn, connPtr, shutdown>>
  BY DEF CreateConnThread, locals
<1>2. CASE FreeSlots = {}
  <2>1. UNCHANGED <<argConn, pc>>
    BY <1>2 DEF CreateConnThread, args
  <2> QED
    BY <1>1, <2>1, AsideHands
<1>3. CASE FreeSlots # {}
  <2>1. PICK t \in FreeSlots :
           argConn' = [argConn EXCEPT ![t] = None] /\ pc' = [pc EXCEPT ![t] = "start"]
    BY <1>3 DEF CreateConnThread, Goto
  <2>2. t \in Slots /\ argState[t] = "free"
    BY ConstantFacts, SMT DEF FreeSlots, Slots, PoolInv, TypeOK, CounterTypes
  <2>3. /\ pc[t] = "none" /\ pc \in [Slots -> ThreadLabels]
        /\ argConn \in [Slots -> Conns \cup {None}]
    BY <2>2 DEF PoolInv, ThreadStates, ThreadState, TypeOK, SlotTypes
  <2>4. HandInv'
    BY <1>1, <2>1, <2>2, <2>3 DEF HandInv, SlotHand
  <2>5. ASSUME ~shutdown, NEW c \in Conns PROVE Located(c)'
    <3>1. Located(c)
      BY <2>5, NotLostParts
    <3>2. \A u \in Slots : Holds(u, c) => Holds(u, c)'
      BY <1>1, <2>1, <2>2, <2>3 DEF Holds, ThreadHas
    <3> QED
      BY <1>1, <3>1, <3>2 DEF Located
  <2> QED
    BY <1>1, <2>4, <2>5 DEF ConnNotLost, Located, Holds
<1> QED
  BY <1>2, <1>3

\* The steps of a driver that hand over no connection.
LEMMA DriverMovesNone ==
    ASSUME NEW d \in Drivers,
           \/ QueueCheck(d) \/ EnsureRunning(d) \/ QueueDequeue(d) \/ QueueNeed(d)
           \/ QueueSignal(d) \/ QueueCount(d)
    PROVE  UNCHANGED <<freeConns, waitQ, dConn, argConn, connPtr>> /\ (shutdown => shutdown')
<1>1. CASE QueueCheck(d)
  BY <1>1 DEF QueueCheck, args, locals, drivers
<1>2. CASE EnsureRunning(d)
  BY <1>2 DEF EnsureRunning, args, locals, drivers
<1>3. CASE QueueDequeue(d)
  BY <1>3 DEF QueueDequeue, args, locals, drivers
<1>4. CASE QueueNeed(d)
  BY <1>4 DEF QueueNeed, args, locals, drivers
<1>5. CASE QueueSignal(d)
  BY <1>5 DEF QueueSignal, args, locals, drivers
<1>6. CASE QueueCount(d)
  BY <1>6 DEF QueueCount, args, locals, drivers
<1> QED
  BY <1>1, <1>2, <1>3, <1>4, <1>5, <1>6

\* Nor do those of the commands and of the main thread.
LEMMA MainMovesNone ==
    ASSUME \/ SetMaxThreads \/ SetMinThreads \/ StopServer \/ WaitServerTimeout
           \/ WakeupConnThreads \/ WaitServerCheck \/ WaitServerWait \/ WaitServerJoin
           \/ UNCHANGED vars
    PROVE  UNCHANGED <<freeConns, waitQ, dConn, argConn, connPtr>> /\ (shutdown => shutdown')
<1>1. CASE SetMaxThreads
  BY <1>1 DEF SetMaxThreads, args, locals, drivers
<1>2. CASE SetMinThreads
  BY <1>2 DEF SetMinThreads, args, locals, drivers
<1>3. CASE StopServer
  BY <1>3 DEF StopServer, args, locals, drivers
<1>4. CASE WaitServerTimeout
  BY <1>4 DEF WaitServerTimeout, args, locals, drivers
<1>5. CASE WakeupConnThreads
  BY <1>5 DEF WakeupConnThreads, args, locals, drivers
<1>6. CASE WaitServerCheck
  BY <1>6 DEF WaitServerCheck, args, locals, drivers
<1>7. CASE WaitServerWait
  BY <1>7 DEF WaitServerWait, args, locals, drivers
<1>8. CASE WaitServerJoin
  BY <1>8 DEF WaitServerJoin, args, locals, drivers
<1>9. CASE UNCHANGED vars
  BY <1>9 DEF vars, args, locals, drivers
<1> QED
  BY <1>1, <1>2, <1>3, <1>4, <1>5, <1>6, <1>7, <1>8, <1>9

\* Everything else moves no Conn.
LEMMA OtherHands ==
    ASSUME PoolInv, HandInv, ConnNotLost,
           \/ \E d \in Drivers : \/ QueueCheck(d) \/ EnsureRunning(d) \/ QueueDequeue(d) \/ QueueNeed(d)
                                 \/ QueueSignal(d) \/ QueueCount(d)
           \/ SetMaxThreads \/ SetMinThreads \/ StopServer \/ WaitServerTimeout \/ MainStep
           \/ UNCHANGED vars
    PROVE  HandInv' /\ ConnNotLost'
<1>1. UNCHANGED <<freeConns, waitQ, dConn, argConn, connPtr>> /\ (shutdown => shutdown')
  <2>1. CASE \E d \in Drivers : \/ QueueCheck(d) \/ EnsureRunning(d) \/ QueueDequeue(d) \/ QueueNeed(d)
                                \/ QueueSignal(d) \/ QueueCount(d)
    BY <2>1, DriverMovesNone
  <2>2. CASE SetMaxThreads \/ SetMinThreads \/ StopServer \/ WaitServerTimeout \/ UNCHANGED vars
    BY <2>2, MainMovesNone
  <2>3. CASE MainStep
    BY <2>3, MainMovesNone DEF MainStep
  <2> QED
    BY <2>1, <2>2, <2>3
<1>2. \A u \in Slots : pc'[u] = pc[u] \/ (pc[u] = "waiting" /\ pc'[u] = "signaled")
  <2>1. pc \in [Slots -> ThreadLabels]
    BY DEF PoolInv, TypeOK, SlotTypes
  <2>2. CASE \E d \in Drivers : QueueSignal(d)
    BY <2>1, <2>2 DEF QueueSignal, Goto
  <2>3. CASE WakeupConnThreads
    BY <2>3 DEF WakeupConnThreads
  <2>4. CASE ~(\E d \in Drivers : QueueSignal(d)) /\ ~WakeupConnThreads
    BY <2>4 DEF QueueCheck, EnsureRunning, QueueDequeue, QueueNeed, QueueCount, SetMaxThreads,
           SetMinThreads, StopServer, WaitServerTimeout, MainStep, WaitServerCheck,
           WaitServerWait, WaitServerJoin, vars
  <2> QED
    BY <2>2, <2>3, <2>4
<1> QED
  BY <1>1, <1>2, AsideHands

\* As long as no threadtimeout expires, no Conn is lost before shutdown: each
\* is free, waiting, with a driver of NsQueueConn, or with a thread that will
\* give it back.  (With threadtimeout this is false, see the run conn_lost.)
THEOREM NoConnLost == ~ThreadTimeout => (Spec => []ConnNotLost)
<1> SUFFICES ASSUME ~ThreadTimeout PROVE Spec => []ConnNotLost
  OBVIOUS
<1>1. Init => HandInv /\ ConnNotLost
  BY SMT DEF Init, HandInv, SlotHand, ConnNotLost
<1>2. PoolInv /\ SignalInv /\ HandInv /\ ConnNotLost /\ [Next]_vars => HandInv' /\ ConnNotLost'
  <2> SUFFICES ASSUME PoolInv, SignalInv, HandInv, ConnNotLost, [Next]_vars
               PROVE  HandInv' /\ ConnNotLost'
    OBVIOUS
  <2>1. ASSUME NEW t \in Slots, ThreadStep(t) \/ ThreadExpires(t) \/ ThreadSpurious(t)
        PROVE  HandInv' /\ ConnNotLost'
    BY <2>1, ThreadHands, TakeHands, ReleaseHands
  <2>2. ASSUME NEW d \in Drivers, QueueCheck(d) \/ EnsureRunning(d) \/ DriverStep(d)
        PROVE  HandInv' /\ ConnNotLost'
    BY <2>2, DriverHands, CreateHands, OtherHands DEF DriverStep
  <2> QED
    BY <2>1, <2>2, OtherHands DEF Next
<1> QED
  BY <1>1, <1>2, SignalKept, PoolInvariant, PTL DEF Spec

=============================================================================
