------------------------------ MODULE ConnPool ------------------------------
(***************************************************************************)
(* One connection pool of a NaviServer virtual server (nsd/queue.c): the   *)
(* pre-allocated Conn structures, the FIFO of waiting connections          *)
(* (wqueue), the LIFO of idle connection threads (tqueue), the thread      *)
(* counters, and the shutdown handshake with the main thread.              *)
(*                                                                         *)
(* Actors: Drivers (driver and spooler threads that call NsQueueConn and   *)
(* NsEnsureRunningConnectionThreads), the connection threads (one per      *)
(* occupied ConnThreadArg slot, NsConnThread), and the main thread         *)
(* (NsStopServer, NsWaitServer).  One action is one critical section, or   *)
(* one unlocked access that another actor can observe.                     *)
(*                                                                         *)
(* Left out: connection ids, statistics and log messages, which steer      *)
(* nothing, and the asserts, which the default build compiles away         *)
(* (-DNDEBUG); those worth checking are properties at the end.             *)
(***************************************************************************)
EXTENDS Integers, Sequences, FiniteSets

CONSTANTS
    Drivers,         \* threads that queue connections
    Conns,           \* the Conn structures of the pool (connBufPtr)
    MaxConns,        \* maxconnections: number of Conns and of ConnThreadArgs
    MinThreads,      \* minthreads at startup
    MaxThreads,      \* maxthreads at startup
    LowPct, HighPct, \* lowwatermark and highwatermark, in percent
    ConnsPerThread,  \* connsperthread
    ThreadTimeout,   \* does threadtimeout expire within the run?
    Tunable,         \* is ns_server minthreads/maxthreads used at runtime?
    DefaultPool,     \* is this pools.defaultPtr?
    None,            \* the NULL pointer
    Zombie           \* the handle of a thread that has terminated

ASSUME PoolAssumption ==
    /\ IsFiniteSet(Conns) /\ Cardinality(Conns) = MaxConns
    /\ MaxConns \in Nat \ {0}
    /\ MaxThreads \in 1..MaxConns
    /\ MinThreads \in 1..MaxThreads
    /\ LowPct \in 0..100 /\ HighPct \in 0..100
    /\ ConnsPerThread \in Nat
    /\ ThreadTimeout \in BOOLEAN /\ Tunable \in BOOLEAN /\ DefaultPool \in BOOLEAN
    /\ None \notin Conns \cup (1..MaxConns)
    /\ Zombie \notin {None} \cup (1..MaxConns)

Slots == 1..MaxConns                            \* tqueue.args
QueueLength == MaxConns - MaxThreads
LowWater  == (QueueLength * LowPct) \div 100    \* wqueue.lowwatermark
HighWater == (QueueLength * HighPct) \div 100   \* wqueue.highwatermark

VARIABLES
    freeConns,   \* wqueue.freePtr, as a set: its order is never observed
    waitQ,       \* wqueue.wait: firstPtr..lastPtr; wait.num is its length
    tqueue,      \* tqueue.nextPtr: stack of idle thread slots, top first
    argState,    \* ConnThreadArg.state
    argConn,     \* ConnThreadArg.connPtr
    current,     \* threads.current
    creating,    \* threads.creating
    idle,        \* threads.idle
    min, max,    \* threads.min, threads.max
    shutdown,    \* pools.shutdown
    joinThread,  \* pools.joinThread: a slot stands for the thread in it
    crashed      \* the process died in CreateConnThread

\* Local state of the connection threads, per slot.
VARIABLES
    pc,          \* where the thread is; "none": the slot has no thread
    status,      \* result of the last Ns_CondTimedWait: "ok" or "timeout"
    connPtr,     \* the connection being run
    ncons,       \* connections left before the thread expires
    oldJoin      \* joinThread as read on the exit path

\* Local state of the drivers, and of the main thread.
VARIABLES
    dpc, dConn, dArg, dCreate,
    mpc, mJoin

args      == <<argState, argConn>>
counters  == <<current, creating, idle>>
limits    == <<min, max>>
locals    == <<status, connPtr, ncons, oldJoin>>
drivers   == <<dpc, dConn, dArg, dCreate>>
main      == <<mpc, mJoin>>

vars == <<freeConns, waitQ, tqueue, args, counters, limits, shutdown, joinThread, crashed,
          pc, locals, drivers, main>>

Goto(t, label)       == pc' = [pc EXCEPT ![t] = label]
DriverGoto(d, label) == dpc' = [dpc EXCEPT ![d] = label]

\* argPtr->lock is held from the insertion into tqueue until the thread
\* waits on argPtr->cond, and again while a timeout is being judged.
ArgLockFreeBeforeWait(t) == pc[t] \notin {"armed", "judge"}
ArgLockFree(t) == pc[t] \notin {"armed", "sleep", "judge"}

\* pools.lock is held by NsWaitServer from its test until it waits.
PoolsLockFree == mpc # "gowait"

\* Regions of a thread's life, in terms of its program counter.
IdleRegion    == {"armed", "sleep", "waiting", "signaled", "timedout", "judge", "unwait"}
ExitRegion    == {"dead", "exit", "exitstop", "sig", "jread", "jset", "jwait"}
ThreadLabels  == {"none", "start", "loop", "take", "goidle", "decide", "run", "release", "snapshot"}
                     \cup IdleRegion \cup ExitRegion
DriverLabels  == {"loop", "take", "dequeue", "assign", "need", "signal", "append", "count",
                  "spawn"}
MainLabels    == {"serving", "wakeup", "check", "gowait", "waiting", "timedout", "join",
                  "stopped"}
ArgStates     == {"free", "initial", "ready", "idle", "busy", "dead"}

-----------------------------------------------------------------------------

\* CreatePool and NsStartServer: min threads created, all Conns free.
Init ==
    /\ freeConns = Conns /\ waitQ = <<>> /\ tqueue = <<>>
    /\ argState = [t \in Slots |-> IF t <= MinThreads THEN "initial" ELSE "free"]
    /\ argConn = [t \in Slots |-> None]
    /\ current = MinThreads /\ creating = MinThreads /\ idle = 0
    /\ min = MinThreads /\ max = MaxThreads
    /\ shutdown = FALSE /\ joinThread = None /\ crashed = FALSE
    /\ pc = [t \in Slots |-> IF t <= MinThreads THEN "start" ELSE "none"]
    /\ status = [t \in Slots |-> "ok"]
    /\ connPtr = [t \in Slots |-> None]
    /\ ncons = [t \in Slots |-> ConnsPerThread]
    /\ oldJoin = [t \in Slots |-> None]
    /\ dpc = [d \in Drivers |-> "loop"]
    /\ dConn = [d \in Drivers |-> None]
    /\ dArg = [d \in Drivers |-> None]
    /\ dCreate = [d \in Drivers |-> FALSE]
    /\ mpc = "serving" /\ mJoin = None

-----------------------------------------------------------------------------
(* Drivers: NsQueueConn and NsEnsureRunningConnectionThreads.              *)

\* The counters' side of neededAdditionalConnectionThreads.
WantThreadBeyondMax(waiting) ==
    (creating = 0 \/ waiting > HighWater) /\ (current < min \/ waiting > LowWater)
WantThread(waiting) ==
    /\ creating = 0 \/ waiting > HighWater
    /\ current < min \/ waiting > LowWater
    /\ current < max

\* pools.lock is taken, to read the shutdown flag, only if a thread is wanted.
Needed(waiting) == WantThread(waiting) /\ ~shutdown
MayDecide(waiting) == WantThread(waiting) => PoolsLockFree

\* NsQueueConn reads the shutdown flag under no lock ...
QueueCheck(d) ==
    /\ dpc[d] = "loop" /\ ~shutdown
    /\ DriverGoto(d, "take")
    /\ UNCHANGED <<freeConns, waitQ, tqueue, args, counters, limits, shutdown, joinThread,
                   crashed, pc, locals, dConn, dArg, dCreate, main>>

\* ... and takes a free Conn.  With no free Conn, or during shutdown, it
\* returns 0 and has changed nothing; the driver keeps the socket, to retry.
QueueTake(d) ==
    /\ dpc[d] = "take"
    /\ \/ /\ freeConns = {}
          /\ DriverGoto(d, "loop")
          /\ UNCHANGED <<freeConns, dConn>>
       \/ \E c \in freeConns :
          /\ freeConns' = freeConns \ {c}
          /\ dConn' = [dConn EXCEPT ![d] = c]
          /\ DriverGoto(d, "dequeue")
    /\ UNCHANGED <<waitQ, tqueue, args, counters, limits, shutdown, joinThread, crashed, pc,
                   locals, dArg, dCreate, main>>

\* Pop an idle thread, if there is one.
PeekIdle == tqueue
PopIdle == Tail(tqueue)

QueueDequeue(d) ==
    /\ dpc[d] = "dequeue"
    /\ \/ /\ tqueue # <<>>
          /\ dArg' = [dArg EXCEPT ![d] = Head(tqueue)]
          /\ tqueue' = PopIdle
          /\ DriverGoto(d, "assign")
       \/ /\ tqueue = <<>>
          /\ DriverGoto(d, "append")
          /\ UNCHANGED <<dArg, tqueue>>
    /\ UNCHANGED <<freeConns, waitQ, args, counters, limits, shutdown, joinThread, crashed, pc,
                   locals, dConn, dCreate, main>>

\* argPtr->connPtr = connPtr, under no lock.
QueueAssign(d) ==
    /\ dpc[d] = "assign"
    /\ argConn' = [argConn EXCEPT ![dArg[d]] = dConn[d]]
    /\ dConn' = [dConn EXCEPT ![d] = None]
    /\ DriverGoto(d, "need")
    /\ UNCHANGED <<freeConns, waitQ, tqueue, argState, counters, limits, shutdown, joinThread,
                   crashed, pc, locals, dArg, dCreate, main>>

QueueNeed(d) ==
    /\ dpc[d] = "need" /\ MayDecide(Len(waitQ))
    /\ dCreate' = [dCreate EXCEPT ![d] = Needed(Len(waitQ))]
    /\ DriverGoto(d, "signal")
    /\ UNCHANGED <<freeConns, waitQ, tqueue, args, counters, limits, shutdown, joinThread,
                   crashed, pc, locals, dConn, dArg, main>>

\* Ns_CondSignal(&argPtr->cond) under argPtr->lock.
QueueSignal(d) ==
    /\ dpc[d] = "signal" /\ ArgLockFree(dArg[d])
    /\ IF pc[dArg[d]] = "waiting" THEN Goto(dArg[d], "signaled") ELSE UNCHANGED pc
    /\ DriverGoto(d, IF dCreate[d] THEN "count" ELSE "loop")
    /\ dArg' = [dArg EXCEPT ![d] = None]
    /\ dCreate' = [dCreate EXCEPT ![d] = FALSE]
    /\ UNCHANGED <<freeConns, waitQ, tqueue, args, counters, limits, shutdown, joinThread,
                   crashed, locals, dConn, main>>

\* No idle thread: append to the waiting queue, in the same critical
\* section in which the need for another thread is computed.
QueueAppend(d) ==
    /\ dpc[d] = "append" /\ MayDecide(Len(waitQ) + 1)
    /\ waitQ' = Append(waitQ, dConn[d])
    /\ dConn' = [dConn EXCEPT ![d] = None]
    /\ DriverGoto(d, IF Needed(Len(waitQ) + 1) THEN "count" ELSE "loop")
    /\ UNCHANGED <<freeConns, tqueue, args, counters, limits, shutdown, joinThread, crashed, pc,
                   locals, dArg, dCreate, main>>

\* The counters are raised in a critical section of their own.
QueueCountCurrentOnly(d) ==
    /\ dpc[d] = "count"
    /\ current' = current + 1
    /\ DriverGoto(d, "spawn")
    /\ UNCHANGED <<freeConns, waitQ, tqueue, args, creating, idle, limits, shutdown, joinThread,
                   crashed, pc, locals, dConn, dArg, dCreate, main>>
QueueCount(d) ==
    /\ dpc[d] = "count"
    /\ current' = current + 1 /\ creating' = creating + 1
    /\ DriverGoto(d, "spawn")
    /\ UNCHANGED <<freeConns, waitQ, tqueue, args, idle, limits, shutdown, joinThread, crashed,
                   pc, locals, dConn, dArg, dCreate, main>>

\* NsEnsureRunningConnectionThreads, on a trigger byte or a poll timeout:
\* here test and increment share the critical section.
EnsureRunning(d) ==
    /\ DefaultPool /\ dpc[d] = "loop"
    /\ MayDecide(Len(waitQ)) /\ Needed(Len(waitQ))
    /\ current' = current + 1 /\ creating' = creating + 1
    /\ DriverGoto(d, "spawn")
    /\ UNCHANGED <<freeConns, waitQ, tqueue, args, idle, limits, shutdown, joinThread, crashed,
                   pc, locals, dConn, dArg, dCreate, main>>

\* CreateConnThread: occupy the first free slot below threads.max.  Without
\* one argPtr stays NULL and the process dies (assert, or NULL access).
FreeSlots == {t \in 1..max : argState[t] = "free"}

CreateConnThread(d) ==
    /\ dpc[d] = "spawn"
    /\ \/ /\ FreeSlots = {}
          /\ crashed' = TRUE
          /\ UNCHANGED <<args, pc, locals, dpc>>
       \/ \E t \in FreeSlots :
          /\ \A u \in FreeSlots : t <= u
          /\ argState' = [argState EXCEPT ![t] = "initial"]
          /\ argConn' = [argConn EXCEPT ![t] = None]
          /\ ncons' = [ncons EXCEPT ![t] = ConnsPerThread]
          /\ status' = [status EXCEPT ![t] = "ok"]
          /\ Goto(t, "start")
          /\ DriverGoto(d, "loop")
          /\ UNCHANGED <<crashed, connPtr, oldJoin>>
    /\ UNCHANGED <<freeConns, waitQ, tqueue, counters, limits, shutdown, joinThread,
                   dConn, dArg, dCreate, main>>

-----------------------------------------------------------------------------
(* Connection threads: NsConnThread.                                       *)

\* Start-up, up to the service loop.  connThread_warmup, which nothing
\* tests, is folded into connThread_initial.
ThreadReady(t) ==
    /\ pc[t] = "start"
    /\ argState' = [argState EXCEPT ![t] = "ready"]
    /\ creating' = IF creating > 0 THEN creating - 1 ELSE creating
    /\ Goto(t, "loop")
    /\ UNCHANGED <<freeConns, waitQ, tqueue, argConn, current, idle, limits, shutdown,
                   joinThread, crashed, locals, drivers, main>>

\* Head of the service loop.  wait.firstPtr is tested without the lock ...
ThreadLook(t) ==
    /\ pc[t] = "loop" /\ waitQ # <<>>
    /\ Goto(t, "take")
    /\ UNCHANGED <<freeConns, waitQ, tqueue, args, counters, limits, shutdown, joinThread,
                   crashed, locals, drivers, main>>

\* ... and again with it: take the first waiting connection, unless another
\* thread was faster; then argPtr->connPtr is cleared and the thread idles.
ThreadTake(t) ==
    /\ pc[t] = "take"
    /\ \/ /\ waitQ # <<>>
          /\ argConn' = [argConn EXCEPT ![t] = Head(waitQ)]
          /\ connPtr' = [connPtr EXCEPT ![t] = Head(waitQ)]
          /\ waitQ' = Tail(waitQ)
          /\ Goto(t, "run")
          /\ UNCHANGED idle
       \/ /\ waitQ = <<>>
          /\ argConn' = [argConn EXCEPT ![t] = None]
          /\ idle' = idle + 1
          /\ Goto(t, "goidle")
          /\ UNCHANGED <<connPtr, waitQ>>
    /\ UNCHANGED <<freeConns, tqueue, argState, current, creating, limits, shutdown, joinThread,
                   crashed, status, ncons, oldJoin, drivers, main>>

\* Nothing is waiting: the thread goes idle unless argPtr->connPtr is set.
ThreadNothingWaiting(t) ==
    /\ pc[t] = "loop" /\ waitQ = <<>>
    /\ \/ /\ argConn[t] = None
          /\ idle' = idle + 1
          /\ Goto(t, "goidle")
          /\ UNCHANGED connPtr
       \/ /\ argConn[t] # None
          /\ connPtr' = [connPtr EXCEPT ![t] = argConn[t]]
          /\ Goto(t, "run")
          /\ UNCHANGED idle
    /\ UNCHANGED <<freeConns, waitQ, tqueue, args, current, creating, limits, shutdown,
                   joinThread, crashed, status, ncons, oldJoin, drivers, main>>

\* Push the slot on tqueue; argPtr->lock is taken before tqueue.lock is
\* released and kept until the wait.
ThreadGoIdle(t) ==
    /\ pc[t] = "goidle"
    /\ argState' = [argState EXCEPT ![t] = "idle"]
    /\ tqueue' = <<t>> \o tqueue
    /\ Goto(t, "armed")
    /\ UNCHANGED <<freeConns, waitQ, argConn, counters, limits, shutdown, joinThread, crashed,
                   locals, drivers, main>>

\* while (shutdown == NS_FALSE): the flag is read under argPtr->lock only.
ThreadArmed(t) ==
    /\ pc[t] = "armed"
    /\ Goto(t, IF shutdown THEN "unwait" ELSE "sleep")
    /\ UNCHANGED <<freeConns, waitQ, tqueue, args, counters, limits, shutdown, joinThread,
                   crashed, locals, drivers, main>>

\* Ns_CondTimedWait releases argPtr->lock and sleeps.
ThreadSleep(t) ==
    /\ pc[t] = "sleep"
    /\ Goto(t, "waiting")
    /\ UNCHANGED <<freeConns, waitQ, tqueue, args, counters, limits, shutdown, joinThread,
                   crashed, locals, drivers, main>>

\* The wait times out ...
ThreadExpires(t) ==
    /\ ThreadTimeout /\ pc[t] = "waiting"
    /\ Goto(t, "timedout")
    /\ UNCHANGED <<freeConns, waitQ, tqueue, args, counters, limits, shutdown, joinThread,
                   crashed, locals, drivers, main>>

\* ... or returns without a signal, as POSIX allows.
ThreadSpurious(t) ==
    /\ pc[t] = "waiting"
    /\ Goto(t, "signaled")
    /\ UNCHANGED <<freeConns, waitQ, tqueue, args, counters, limits, shutdown, joinThread,
                   crashed, locals, drivers, main>>

\* Ns_CondTimedWait returned NS_OK, with argPtr->lock held again.
ThreadSignaled(t) ==
    /\ pc[t] = "signaled"
    /\ Goto(t, IF argConn[t] # None THEN "unwait" ELSE "armed")
    /\ UNCHANGED <<freeConns, waitQ, tqueue, args, counters, limits, shutdown, joinThread,
                   crashed, locals, drivers, main>>

\* Ns_CondTimedWait returned NS_TIMEOUT: with a connection assigned the
\* status is turned into NS_OK ("signal lost, resuming after timeout") ...
ThreadTimedOut(t) ==
    /\ pc[t] = "timedout"
    /\ status' = [status EXCEPT ![t] = IF argConn[t] # None THEN "ok" ELSE "timeout"]
    /\ Goto(t, "judge")
    /\ UNCHANGED <<freeConns, waitQ, tqueue, args, counters, limits, shutdown, joinThread,
                   crashed, connPtr, ncons, oldJoin, drivers, main>>

\* ... and in both cases the thread waits again unless current > min.  A
\* thread that waits again has its status overwritten before it is read.
ThreadJudge(t) ==
    /\ pc[t] = "judge"
    /\ \/ /\ current <= min
          /\ status' = [status EXCEPT ![t] = "ok"]
          /\ Goto(t, "armed")
       \/ /\ current > min
          /\ Goto(t, "unwait")
          /\ UNCHANGED status
    /\ UNCHANGED <<freeConns, waitQ, tqueue, args, counters, limits, shutdown, joinThread,
                   crashed, connPtr, ncons, oldJoin, drivers, main>>

\* Leave the idle state; a thread nobody assigned a connection to removes
\* its slot from tqueue.
NotUnlinked(t) == tqueue
Unlinked(t) ==
    IF argConn[t] = None /\ \E i \in DOMAIN tqueue : tqueue[i] = t
    THEN [j \in 1..(Len(tqueue) - 1) |->
            IF \E i \in 1..j : tqueue[i] = t THEN tqueue[j + 1] ELSE tqueue[j]]
    ELSE tqueue

ThreadUnwait(t) ==
    /\ pc[t] = "unwait"
    /\ tqueue' = Unlinked(t)
    /\ argState' = [argState EXCEPT ![t] = "busy"]
    /\ idle' = idle - 1
    /\ Goto(t, "decide")
    /\ UNCHANGED <<freeConns, waitQ, argConn, current, creating, limits, shutdown, joinThread,
                   crashed, locals, drivers, main>>

\* Awake again: leave the service loop, or run the connection.
MustLeaveIgnoringTimeout(t) == shutdown
MustLeave(t) == shutdown \/ status[t] = "timeout"

ThreadDecide(t) ==
    /\ pc[t] = "decide"
    /\ \/ /\ MustLeave(t)
          /\ Goto(t, "dead")
          /\ UNCHANGED connPtr
       \/ /\ ~MustLeave(t)
          /\ connPtr' = [connPtr EXCEPT ![t] = argConn[t]]
          /\ Goto(t, "run")
    /\ UNCHANGED <<freeConns, waitQ, tqueue, args, counters, limits, shutdown, joinThread,
                   crashed, status, ncons, oldJoin, drivers, main>>

\* ConnRun returns; argPtr->connPtr = NULL.
ThreadRunNoReset(t) ==
    /\ pc[t] = "run"
    /\ Goto(t, "release")
    /\ UNCHANGED <<freeConns, waitQ, tqueue, args, counters, limits, shutdown, joinThread,
                   crashed, locals, drivers, main>>
ThreadRun(t) ==
    /\ pc[t] = "run"
    /\ argConn' = [argConn EXCEPT ![t] = None]
    /\ Goto(t, "release")
    /\ UNCHANGED <<freeConns, waitQ, tqueue, argState, counters, limits, shutdown, joinThread,
                   crashed, locals, drivers, main>>

\* The Conn returns to the free list.
ThreadRelease(t) ==
    /\ pc[t] = "release"
    /\ freeConns' = freeConns \cup {connPtr[t]}
    /\ connPtr' = [connPtr EXCEPT ![t] = None]
    /\ argState' = [argState EXCEPT ![t] = "ready"]
    /\ Goto(t, "snapshot")
    /\ UNCHANGED <<waitQ, tqueue, argConn, counters, limits, shutdown, joinThread, crashed,
                   status, ncons, oldJoin, drivers, main>>

\* Stay, perhaps only for the waiting connections, or expire.
Stays(left, waiting) ==
    \/ left > 0
    \/ ConnsPerThread # 0 /\ waiting > 0 /\ (waiting > LowWater \/ current <= 1)

\* ncons stops at 0 here: the code only tells positive from not positive.
ThreadSnapshot(t) ==
    /\ pc[t] = "snapshot"
    /\ LET left == IF ncons[t] > 0 THEN ncons[t] - 1 ELSE 0
       IN  /\ ncons' = [ncons EXCEPT ![t] = left]
           /\ Goto(t, IF Stays(left, Len(waitQ)) THEN "loop" ELSE "dead")
    /\ UNCHANGED <<freeConns, waitQ, tqueue, args, counters, limits, shutdown, joinThread,
                   crashed, status, connPtr, oldJoin, drivers, main>>

\* Exit path: the shutdown flag is read under pools.lock ...
ThreadDead(t) ==
    /\ pc[t] = "dead" /\ PoolsLockFree
    /\ argState' = [argState EXCEPT ![t] = "dead"]
    /\ status' = [status EXCEPT ![t] = "ok"]
    /\ Goto(t, IF shutdown THEN "exitstop" ELSE "exit")
    /\ UNCHANGED <<freeConns, waitQ, tqueue, argConn, counters, limits, shutdown, joinThread,
                   crashed, connPtr, ncons, oldJoin, drivers, main>>

\* ... and the thread is no longer counted.  The driver wakeup that follows
\* is subsumed by EnsureRunning, always enabled in the driver's loop.
ThreadExit(t) ==
    /\ pc[t] \in {"exit", "exitstop"}
    /\ current' = current - 1
    /\ Goto(t, IF pc[t] = "exitstop" THEN "sig" ELSE "jread")
    /\ UNCHANGED <<freeConns, waitQ, tqueue, args, creating, idle, limits, shutdown, joinThread,
                   crashed, locals, drivers, main>>

\* Ns_CondSignal(&wqueue.cond), under no lock.
ThreadSignalMain(t) ==
    /\ pc[t] = "sig"
    /\ mpc' = IF mpc = "waiting" THEN "check" ELSE mpc
    /\ Goto(t, "jread")
    /\ UNCHANGED <<freeConns, waitQ, tqueue, args, counters, limits, shutdown, joinThread,
                   crashed, locals, drivers, mJoin>>

\* joinThread is read and replaced under no lock.
ThreadJoinReadOwn(t) ==
    /\ pc[t] = "jread"
    /\ oldJoin' = [oldJoin EXCEPT ![t] = t]
    /\ Goto(t, "jset")
    /\ UNCHANGED <<freeConns, waitQ, tqueue, args, counters, limits, shutdown, joinThread,
                   crashed, status, connPtr, ncons, drivers, main>>
ThreadJoinRead(t) ==
    /\ pc[t] = "jread"
    /\ oldJoin' = [oldJoin EXCEPT ![t] = joinThread]
    /\ Goto(t, "jset")
    /\ UNCHANGED <<freeConns, waitQ, tqueue, args, counters, limits, shutdown, joinThread,
                   crashed, status, connPtr, ncons, drivers, main>>

ThreadJoinSet(t) ==
    /\ pc[t] = "jset"
    /\ joinThread' = t
    /\ Goto(t, "jwait")
    /\ UNCHANGED <<freeConns, waitQ, tqueue, args, counters, limits, shutdown, crashed, locals,
                   drivers, main>>

\* JoinConnThread of the predecessor returns, the slot becomes free and the
\* thread terminates: from now on its handle is Zombie.
Bury(t, handle) == IF handle = t THEN Zombie ELSE handle

ThreadFree(t) ==
    /\ pc[t] = "jwait" /\ oldJoin[t] \in {None, Zombie}
    /\ argState' = [argState EXCEPT ![t] = "free"]
    /\ oldJoin' = [u \in Slots |-> IF u = t THEN None ELSE Bury(t, oldJoin[u])]
    /\ joinThread' = Bury(t, joinThread)
    /\ mJoin' = Bury(t, mJoin)
    /\ Goto(t, "none")
    /\ UNCHANGED <<freeConns, waitQ, tqueue, argConn, counters, limits, shutdown, crashed,
                   status, connPtr, ncons, drivers, mpc>>

-----------------------------------------------------------------------------
(* ns_server maxthreads / minthreads, from any interpreter.                *)

SetMaxThreadsBelowMin ==
    /\ Tunable
    /\ max' \in 1..MaxConns
    /\ UNCHANGED <<freeConns, waitQ, tqueue, args, counters, min, shutdown, joinThread, crashed,
                   pc, locals, drivers, main>>
SetMaxThreads ==
    /\ Tunable
    /\ max' \in min..MaxConns
    /\ UNCHANGED <<freeConns, waitQ, tqueue, args, counters, min, shutdown, joinThread, crashed,
                   pc, locals, drivers, main>>

SetMinThreads ==
    /\ Tunable
    /\ min' \in 1..max
    /\ UNCHANGED <<freeConns, waitQ, tqueue, args, counters, max, shutdown, joinThread, crashed,
                   pc, locals, drivers, main>>

-----------------------------------------------------------------------------
(* Main thread: NsStopServer, then NsWaitServer.                           *)

StopServer ==
    /\ mpc = "serving"
    /\ shutdown' = TRUE
    /\ mpc' = "wakeup"
    /\ UNCHANGED <<freeConns, waitQ, tqueue, args, counters, limits, joinThread, crashed, pc,
                   locals, drivers, mJoin>>

\* NsWakeupConnThreads holds tqueue.lock, so no thread leaves the idle state
\* meanwhile; the signals are sent once every argPtr->lock is available.
WakeTargetsButLast == {t \in 1..(max - 1) : argState[t] = "idle"}
WakeTargets == {t \in 1..max : argState[t] = "idle"}

WakeupConnThreads ==
    /\ mpc = "wakeup"
    /\ \A t \in WakeTargets : ArgLockFree(t)
    /\ pc' = [t \in Slots |-> IF t \in WakeTargets /\ pc[t] = "waiting" THEN "signaled"
                                                                        ELSE pc[t]]
    /\ mpc' = "check"
    /\ UNCHANGED <<freeConns, waitQ, tqueue, args, counters, limits, shutdown, joinThread,
                   crashed, locals, drivers, mJoin>>

\* The test of NsWaitServer reads the queue and the counter without their
\* locks, but under pools.lock, which is kept until the wait.
WaitServerCheck ==
    /\ mpc = "check"
    /\ \/ /\ waitQ # <<>> \/ current > 0
          /\ mpc' = "gowait"
          /\ UNCHANGED <<joinThread, mJoin>>
       \/ /\ waitQ = <<>> /\ current <= 0
          /\ mpc' = "join"
          /\ mJoin' = joinThread
          /\ joinThread' = None
    /\ UNCHANGED <<freeConns, waitQ, tqueue, args, counters, limits, shutdown, crashed, pc,
                   locals, drivers>>

WaitServerWait ==
    /\ mpc = "gowait"
    /\ mpc' = "waiting"
    /\ UNCHANGED <<freeConns, waitQ, tqueue, args, counters, limits, shutdown, joinThread,
                   crashed, pc, locals, drivers, mJoin>>

\* The shutdown timeout expires.
WaitServerTimeout ==
    /\ mpc = "waiting"
    /\ mpc' = "timedout"
    /\ joinThread' = None
    /\ UNCHANGED <<freeConns, waitQ, tqueue, args, counters, limits, shutdown, crashed, pc,
                   locals, drivers, mJoin>>

WaitServerJoin ==
    /\ mpc = "join" /\ mJoin \in {None, Zombie}
    /\ mpc' = "stopped"
    /\ mJoin' = None
    /\ UNCHANGED <<freeConns, waitQ, tqueue, args, counters, limits, shutdown, joinThread,
                   crashed, pc, locals, drivers>>

-----------------------------------------------------------------------------

\* The part of NsQueueConn that follows its first test.
DriverStep(d) ==
    \/ QueueTake(d) \/ QueueDequeue(d) \/ QueueAssign(d) \/ QueueNeed(d) \/ QueueSignal(d)
    \/ QueueAppend(d) \/ QueueCount(d) \/ CreateConnThread(d)

\* Steps a connection thread takes by itself, not by the clock or by chance.
ThreadStep(t) ==
    \/ ThreadReady(t) \/ ThreadLook(t) \/ ThreadTake(t) \/ ThreadNothingWaiting(t)
    \/ ThreadGoIdle(t) \/ ThreadArmed(t) \/ ThreadSleep(t) \/ ThreadSignaled(t)
    \/ ThreadTimedOut(t) \/ ThreadJudge(t) \/ ThreadUnwait(t) \/ ThreadDecide(t)
    \/ ThreadRun(t) \/ ThreadRelease(t) \/ ThreadSnapshot(t)
    \/ ThreadDead(t) \/ ThreadExit(t) \/ ThreadSignalMain(t)
    \/ ThreadJoinRead(t) \/ ThreadJoinSet(t) \/ ThreadFree(t)

MainStep ==
    WakeupConnThreads \/ WaitServerCheck \/ WaitServerWait \/ WaitServerJoin

Next ==
    /\ ~crashed
    /\ \/ \E d \in Drivers : QueueCheck(d) \/ EnsureRunning(d) \/ DriverStep(d)
       \/ \E t \in Slots : ThreadStep(t) \/ ThreadExpires(t) \/ ThreadSpurious(t)
       \/ SetMaxThreads \/ SetMinThreads
       \/ StopServer \/ WaitServerTimeout \/ MainStep

Spec == Init /\ [][Next]_vars

\* The scheduler runs every thread that can run; a driver comes back to
\* NsEnsureRunningConnectionThreads (its poll has a timeout); a timed wait
\* ends; a mutex released again and again is finally obtained.
Fairness ==
    /\ \A d \in Drivers :
          /\ WF_vars(~crashed /\ DriverStep(d))
          /\ SF_vars(~crashed /\ QueueSignal(d))
          /\ WF_vars(~crashed /\ EnsureRunning(d))
    /\ \A t \in Slots :
          /\ WF_vars(~crashed /\ ThreadStep(t))
          /\ WF_vars(~crashed /\ ThreadExpires(t))
    /\ WF_vars(~crashed /\ MainStep)

FairSpec == Spec /\ Fairness

-----------------------------------------------------------------------------
(* Properties.                                                             *)

\* Every variable stays in its range; a driver that holds a connection or a
\* thread slot (NsQueueConn's connPtr, argPtr) holds a real one.
QueueTypes ==
    /\ freeConns \subseteq Conns
    /\ waitQ \in Seq(Conns) /\ tqueue \in Seq(Slots)
SlotTypes ==
    /\ argState \in [Slots -> ArgStates]
    /\ argConn \in [Slots -> Conns \cup {None}]
    /\ pc \in [Slots -> ThreadLabels]
    /\ status \in [Slots -> {"ok", "timeout"}]
    /\ connPtr \in [Slots -> Conns \cup {None}]
    /\ ncons \in [Slots -> Nat]
    /\ oldJoin \in [Slots -> Slots \cup {None, Zombie}]
CounterTypes ==
    /\ current \in Int /\ creating \in Nat /\ idle \in Int
    /\ max \in 1..MaxConns /\ min \in 1..max
MainTypes ==
    /\ shutdown \in BOOLEAN /\ crashed \in BOOLEAN
    /\ mpc \in MainLabels
    /\ {joinThread, mJoin} \subseteq Slots \cup {None, Zombie}
DriverTypes ==
    /\ dpc \in [Drivers -> DriverLabels]
    /\ dConn \in [Drivers -> Conns \cup {None}]
    /\ dArg \in [Drivers -> Slots \cup {None}]
    /\ dCreate \in [Drivers -> BOOLEAN]
    /\ \A d \in Drivers :
          /\ dConn[d] \in Conns <=> dpc[d] \in {"dequeue", "assign", "append"}
          /\ dArg[d] \in Slots <=> dpc[d] \in {"assign", "need", "signal"}
TypeOK == QueueTypes /\ SlotTypes /\ CounterTypes /\ MainTypes /\ DriverTypes

\* The thread of slot t has connection c, assigned to it or running.
ThreadHas(t, c) == c \in {argConn[t], connPtr[t]}

\* A Conn is in at most one place: free, waiting, with one driver, or with
\* one connection thread.  So no connection is run by two threads, and none
\* is handed out while it is in use, whatever races occur in NsQueueConn
\* and NsConnThread.
FreeUnused ==
    \A c \in freeConns :
        /\ \A i \in DOMAIN waitQ : waitQ[i] # c
        /\ \A d \in Drivers : dConn[d] # c
        /\ \A t \in Slots : ~ThreadHas(t, c)
WaitingUnused ==
    \A i \in DOMAIN waitQ :
        /\ \A j \in DOMAIN waitQ : waitQ[i] = waitQ[j] => i = j
        /\ \A d \in Drivers : dConn[d] # waitQ[i]
        /\ \A t \in Slots : ~ThreadHas(t, waitQ[i])
DriverExclusive ==
    \A d \in Drivers : dConn[d] \in Conns =>
        /\ \A e \in Drivers : dConn[e] = dConn[d] => e = d
        /\ \A t \in Slots : ~ThreadHas(t, dConn[d])
ThreadExclusive ==
    \A t, u \in Slots : \A c \in Conns : ThreadHas(t, c) /\ ThreadHas(u, c) => t = u
ConnInOnePlace == FreeUnused /\ WaitingUnused /\ DriverExclusive /\ ThreadExclusive

\* The program counter of a connection thread determines the rest of its
\* state: the slot is free exactly when it has no thread, connPtr is set
\* exactly while a connection is run, and a thread that woke up without a
\* timeout has a connection or leaves because of the shutdown.
ThreadState(t) ==
    /\ argState[t] = "free" <=> pc[t] = "none"
    /\ connPtr[t] \in Conns <=> pc[t] \in {"run", "release"}
    /\ pc[t] = "release" => argConn[t] # connPtr[t]
    /\ status[t] = "timeout" => pc[t] \in {"judge", "unwait", "decide", "dead"}
    /\ pc[t] \in {"judge", "unwait", "decide"} /\ status[t] = "ok"
          => argConn[t] # None \/ shutdown
ThreadStates == \A t \in Slots : ThreadState(t)

\* The inductive invariant behind ConnInOnePlace: at every control point of
\* NsQueueConn and NsConnThread each Conn has one holder.
PoolInv == TypeOK /\ ThreadStates /\ ConnInOnePlace

\* Until shutdown every Conn is in some place from which it returns to the
\* free list: the pool never shrinks (NsQueueConn / NsConnThread hand-over).
ConnNotLost ==
    ~shutdown => \A c \in Conns :
        \/ c \in freeConns
        \/ \E i \in DOMAIN waitQ : waitQ[i] = c
        \/ \E d \in Drivers : dConn[d] = c
        \/ \E t \in Slots : ThreadHas(t, c) /\ pc[t] \notin {"none"} \cup ExitRegion

NoDuplicates(q) == \A i, j \in DOMAIN q : q[i] = q[j] => i = j

\* The stack of idle threads has no duplicates and only threads that are on
\* their way into, in, or out of the timed wait; and an idle thread that is
\* not on the stack was taken off by a driver for a connection.
IdleStack ==
    /\ NoDuplicates(tqueue)
    /\ \A i \in DOMAIN tqueue : pc[tqueue[i]] \in IdleRegion
    /\ \A t \in Slots : pc[t] \in IdleRegion =>
          \/ \E i \in DOMAIN tqueue : tqueue[i] = t
          \/ argConn[t] # None
          \/ \E d \in Drivers : dpc[d] = "assign" /\ dArg[d] = t

\* No signal is lost: a thread that sleeps with a connection assigned is
\* about to be signaled by the driver that assigned it, because both sides
\* use argPtr->lock as the comment in NsConnThread explains.
SignalComing ==
    \A t \in Slots : pc[t] = "waiting" /\ argConn[t] # None =>
        \E d \in Drivers : dpc[d] \in {"need", "signal"} /\ dArg[d] = t

\* The inductive invariant behind SignalComing, for a run in which no
\* threadtimeout expires.  Before shutdown, a thread on tqueue or popped by
\* a driver is asleep or about to be, and has no connection yet; a thread
\* that holds argPtr->lock on its way to sleep is signaled only afterwards.
Parked == {"armed", "sleep", "waiting", "signaled"}
BeingSignaled(t) == \E d \in Drivers : dpc[d] \in {"need", "signal"} /\ dArg[d] = t
SignalInv ==
    /\ \A t \in Slots :
          /\ pc[t] \notin {"timedout", "judge"} /\ status[t] = "ok"
          /\ pc[t] \in {"sleep", "waiting"} /\ argConn[t] # None => BeingSignaled(t)
          /\ pc[t] = "armed" /\ argConn[t] # None => shutdown \/ BeingSignaled(t)
          /\ pc[t] = "goidle" => shutdown \/ argConn[t] = None
    /\ ~shutdown =>
          /\ NoDuplicates(tqueue)
          /\ \A i \in DOMAIN tqueue :
                pc[tqueue[i]] \in Parked /\ argConn[tqueue[i]] = None
          /\ \A d \in Drivers : dpc[d] = "assign" =>
                /\ pc[dArg[d]] \in Parked /\ argConn[dArg[d]] = None
                /\ \A i \in DOMAIN tqueue : tqueue[i] # dArg[d]
                /\ \A e \in Drivers : dpc[e] = "assign" /\ dArg[e] = dArg[d] => e = d

\* threads.current, .creating and .idle count what they say: threads that
\* exist or are about to be created, threads not yet serving, idle threads.
Counters ==
    LET spawning == {d \in Drivers : dpc[d] = "spawn"}
        alive == {t \in Slots : pc[t] \notin {"none", "sig", "jread", "jset", "jwait"}}
    IN  /\ current = Cardinality(alive) + Cardinality(spawning)
        /\ creating = Cardinality({t \in Slots : pc[t] = "start"}) + Cardinality(spawning)
        /\ idle = Cardinality({t \in Slots : pc[t] \in IdleRegion \cup {"goidle"}})

\* There are never more than maxthreads connection threads.
MaxRespected == current <= max

\* Once NsWakeupConnThreads has run, no connection thread sleeps in its
\* timed wait: a shutdown never has to wait for threadtimeout.
WokenAtShutdown ==
    mpc \notin {"serving", "wakeup"} => \A t \in Slots : pc[t] # "waiting"

\* Shutdown ends: once the main thread stops the server every connection
\* thread leaves its loop, joins its predecessor and terminates.
ShutdownDrains == (shutdown ~> crashed \/ \A t \in Slots : pc[t] = "none")

\* A connection handed to an idle thread is run by it, unless the server is
\* shut down meanwhile.
AssignedRuns ==
    \A t \in Slots : \A c \in Conns :
        (pc[t] \in IdleRegion /\ argConn[t] = c) ~> (shutdown \/ crashed \/ connPtr[t] = c)

\* The stack of idle threads and the thread counters agree with the threads,
\* at every point of NsQueueConn and NsConnThread.
PoolCounts == IdleStack /\ Counters

\* Connections handed to idle threads are run, and a shutdown ends every
\* connection thread.
PoolLive == AssignedRuns /\ ShutdownDrains

-----------------------------------------------------------------------------
(* What comments and assertions of nsd/queue.c say, and races contradict.  *)

\* CreateConnThread: assert(argPtr != NULL).
SlotFound == ~crashed

\* NsQueueConn: "Conneciton will run shortly."
QueuedRuns ==
    \A c \in Conns :
        (\E i \in DOMAIN waitQ : waitQ[i] = c)
            ~> (shutdown \/ crashed \/ \E t \in Slots : connPtr[t] = c)
=============================================================================
