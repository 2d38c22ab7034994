------------------------------- MODULE Sched --------------------------------
(***************************************************************************)
(* The scheduler of nsd/sched.c: SchedThread, which keeps the heap of      *)
(* events and runs the ones without NS_SCHED_THREAD itself; the            *)
(* EventThreads, which run the others; the callers of Ns_ScheduleProcEx,   *)
(* Ns_Cancel, Ns_Pause and Ns_Resume; and the main thread at shutdown.     *)
(*                                                                         *)
(* Everything is guarded by one mutex.  A critical section with no inner   *)
(* loop is one step; a thread that holds the mutex over several steps has  *)
(* its name in schedLock.  Time is read at the step that uses it, and      *)
(* passes while the mutex is free.  An event is scheduled once, so that    *)
(* an event and its id are the same thing.                                 *)
(***************************************************************************)
EXTENDS SchedHeap, FiniteSets

CONSTANTS
    Events,         \* events, by id
    EventThreads,   \* threads SchedThread may create
    JobsPerThread,  \* nsconf.sched.jobsperthread, 0 for no limit
    EventKinds,     \* flags and times events are scheduled with
    ResumesRunning, \* does a caller resume an event while it runs
    SchedNone,
    MaxTime         \* bound: the last second modelled

Never == MaxTime + 10

VARIABLES
    clock,
    kind,           \* flags, interval of an event; SchedNone before it is scheduled
    eventsTable,    \* ids in the hash table: hPtr # NULL
    queue,          \* the heap
    nextqueue,
    paused,         \* events with NS_SCHED_PAUSED
    freedEvents,    \* events given to FreeEvent
    firstEventPtr,  \* list of events for the EventThreads
    readyPtr,       \* SchedThread's list of events to run itself
    schedpc, schedEv, schedUntil,   \* SchedThread: place, event it runs, end of its timed wait
    schedLock,      \* thread that holds the mutex between two steps
    nThreads, nIdleThreads,
    evpc, evEv, njobs,              \* EventThreads: place, event, jobs left
    schedRunning,   \* running
    schedShutdown,  \* shutdownPending
    schedMain       \* main thread: "up", "waiting" in NsWaitSchedShutdown, "down"

schedEvs   == <<kind, eventsTable, queue, nextqueue, paused, freedEvents>>
schedLists == <<firstEventPtr, readyPtr>>
schedThr   == <<schedEv, schedUntil>>
eventThr   == <<nThreads, nIdleThreads, evpc, evEv, njobs>>
schedVars  == <<clock, schedEvs, schedLists, schedThr, schedpc, schedLock, eventThr,
                schedRunning, schedShutdown, schedMain>>

SchedInit ==
    /\ clock = 0
    /\ kind = [e \in Events |-> SchedNone]
    /\ eventsTable = {} /\ queue = <<>> /\ paused = {} /\ freedEvents = {}
    /\ nextqueue = [e \in Events |-> 0]
    /\ firstEventPtr = <<>> /\ readyPtr = <<>>
    /\ schedpc = "off" /\ schedEv = SchedNone /\ schedUntil = 0 /\ schedLock = SchedNone
    /\ nThreads = 0 /\ nIdleThreads = 0
    /\ evpc = [t \in EventThreads |-> "none"]
    /\ evEv = [t \in EventThreads |-> SchedNone]
    /\ njobs = [t \in EventThreads |-> 0]
    /\ schedRunning = FALSE /\ schedShutdown = FALSE /\ schedMain = "up"

LockFree == schedLock = SchedNone

\* ePtr->qid: 0 when the event is not in the heap.
Qid(e) == IF \E i \in DOMAIN queue : queue[i] = e THEN CHOOSE i \in DOMAIN queue : queue[i] = e ELSE 0

\* ns_sched_daily and ns_sched_weekly give a time of the day or week, the
\* others the distance from now.
NextTime(k) ==
    LET today == clock - (clock % k.period) + k.interval
    IN IF k.period = 0 THEN clock + k.interval
       ELSE IF today <= clock THEN today + k.period ELSE today

\* QueueEvent up to the signal.
QueueEvent(e, k) ==
    IF e \in paused'
    THEN UNCHANGED <<queue, nextqueue>>
    ELSE /\ nextqueue' = [nextqueue EXCEPT ![e] = NextTime(k)]
         /\ queue' = HeapInsert(queue, e, nextqueue')

\* Variant of SignalSched for mutation: nobody is woken.
SignalSchedNot == schedpc' = schedpc

\* Ns_CondSignal(&schedcond) wakes SchedThread or the waiting main thread.
SignalSched ==
    schedpc' \in IF schedpc # "wait" THEN {schedpc}
                 ELSE IF schedMain = "waiting" THEN {"wait", "woken"} ELSE {"woken"}

\* The end of QueueEvent, called by another thread: signal or create SchedThread.
WakeOrCreate(e) ==
    IF e \in paused' THEN UNCHANGED <<schedpc, schedRunning>>
    ELSE IF schedRunning THEN SignalSched /\ UNCHANGED schedRunning
    ELSE schedRunning' = TRUE /\ schedpc' = "start"

\* Ns_CondSignal(&eventcond) wakes one of the waiting EventThreads.
SignalEvent ==
    LET waiting == {t \in EventThreads : evpc[t] = "wait"}
    IN IF waiting = {} THEN {evpc} ELSE {[evpc EXCEPT ![t] = "woken"] : t \in waiting}

DeQueueEvent(e) == queue' = HeapDelete(queue, Qid(e), nextqueue)

-----------------------------------------------------------------------------
(* Callers.                                                                 *)

\* Ns_ScheduleProcEx, and Ns_After, Ns_ScheduleProc, Ns_ScheduleDaily,
\* Ns_ScheduleWeekly, which call it.
Ns_ScheduleProcEx(e, k) ==
    /\ LockFree /\ kind[e] = SchedNone
    /\ kind' = [kind EXCEPT ![e] = k]
    /\ IF schedShutdown
       THEN /\ freedEvents' = freedEvents \cup {e}
            /\ UNCHANGED <<eventsTable, queue, nextqueue, paused, schedpc, schedRunning>>
       ELSE /\ eventsTable' = eventsTable \cup {e}
            /\ UNCHANGED <<paused, freedEvents>>
            /\ QueueEvent(e, k) /\ WakeOrCreate(e)
    /\ UNCHANGED <<clock, schedLists, schedThr, schedLock, eventThr, schedShutdown, schedMain>>

\* Variant of Ns_Cancel for mutation: an event is freed even when it is not
\* in the heap but on its way to a thread.
Ns_CancelFrees(e) ==
    /\ LockFree /\ ~schedShutdown /\ e \in eventsTable
    /\ eventsTable' = eventsTable \ {e}
    /\ IF Qid(e) > 0 THEN DeQueueEvent(e) ELSE UNCHANGED queue
    /\ freedEvents' = freedEvents \cup {e}
    /\ UNCHANGED <<clock, kind, nextqueue, paused, schedLists, schedThr, schedpc, schedLock,
                   eventThr, schedRunning, schedShutdown, schedMain>>

\* Ns_Cancel.  An event that is not in the heap is only taken out of the
\* table: the thread that has it frees it.
Ns_Cancel(e) ==
    /\ LockFree /\ ~schedShutdown /\ e \in eventsTable
    /\ eventsTable' = eventsTable \ {e}
    /\ IF Qid(e) > 0
       THEN DeQueueEvent(e) /\ freedEvents' = freedEvents \cup {e}
       ELSE UNCHANGED <<queue, freedEvents>>
    /\ UNCHANGED <<clock, kind, nextqueue, paused, schedLists, schedThr, schedpc, schedLock,
                   eventThr, schedRunning, schedShutdown, schedMain>>

Ns_Pause(e) ==
    /\ LockFree /\ ~schedShutdown /\ e \in eventsTable \ paused
    /\ paused' = paused \cup {e}
    /\ IF Qid(e) > 0 THEN DeQueueEvent(e) ELSE UNCHANGED queue
    /\ UNCHANGED <<clock, kind, eventsTable, nextqueue, freedEvents, schedLists, schedThr, schedpc,
                   schedLock, eventThr, schedRunning, schedShutdown, schedMain>>

\* Events on their way from the heap through a thread back to the heap.
InFlight == {firstEventPtr[i] : i \in DOMAIN firstEventPtr}
            \cup {readyPtr[i] : i \in DOMAIN readyPtr}
            \cup (({schedEv} \cup {evEv[t] : t \in EventThreads}) \ {SchedNone})

Ns_Resume(e) ==
    /\ LockFree /\ ~schedShutdown /\ e \in eventsTable \cap paused
    /\ ResumesRunning \/ e \notin InFlight
    /\ paused' = paused \ {e}
    /\ QueueEvent(e, kind[e]) /\ WakeOrCreate(e)
    /\ UNCHANGED <<clock, kind, eventsTable, freedEvents, schedLists, schedThr, schedLock, eventThr,
                   schedShutdown, schedMain>>

NsStartSchedShutdown ==
    /\ LockFree /\ schedMain = "up"
    /\ IF schedRunning
       THEN schedShutdown' = TRUE /\ SignalSched
       ELSE UNCHANGED <<schedShutdown, schedpc>>
    /\ schedMain' = "waiting"
    /\ UNCHANGED <<clock, schedEvs, schedLists, schedThr, schedLock, eventThr, schedRunning>>

\* It waits until the thread has stopped or the time is up.
NsWaitSchedShutdown ==
    /\ LockFree /\ schedMain = "waiting"
    /\ schedMain' = "down"
    /\ UNCHANGED <<clock, schedEvs, schedLists, schedThr, schedpc, schedLock, eventThr, schedRunning, schedShutdown>>

-----------------------------------------------------------------------------
(* SchedThread.                                                             *)

SchedTakesLock ==
    /\ LockFree
    /\ schedpc \in {"start", "woken"} \/ (schedpc = "wait" /\ clock >= schedUntil)
    /\ schedLock' = "sched" /\ schedpc' = "top"
    /\ UNCHANGED <<clock, schedEvs, schedLists, schedThr, eventThr, schedRunning, schedShutdown, schedMain>>

\* while (shutdownPending == 0)
SchedTop ==
    /\ schedpc = "top"
    /\ schedpc' = IF schedShutdown THEN "stop" ELSE "collect"
    /\ UNCHANGED <<clock, schedEvs, schedLists, schedThr, schedLock, eventThr, schedRunning, schedShutdown, schedMain>>

HeadDue == queue # <<>> /\ nextqueue[queue[1]] <= clock

\* One round of the loop over the events that are due.
SchedCollect ==
    /\ schedpc = "collect" /\ HeadDue
    /\ LET e == queue[1]
       IN /\ DeQueueEvent(e)
          /\ eventsTable' = IF kind[e].once THEN eventsTable \ {e} ELSE eventsTable
          /\ IF kind[e].thread
             THEN firstEventPtr' = <<e>> \o firstEventPtr /\ UNCHANGED readyPtr
             ELSE readyPtr' = <<e>> \o readyPtr /\ UNCHANGED firstEventPtr
    /\ UNCHANGED <<clock, kind, nextqueue, paused, freedEvents, schedThr, schedpc, schedLock, eventThr,
                   schedRunning, schedShutdown, schedMain>>

\* Its end: dispatch the threaded events, with a new thread if none is idle.
SchedDispatch ==
    /\ schedpc = "collect" /\ ~HeadDue
    /\ schedpc' = "ready"
    /\ IF firstEventPtr = <<>> THEN UNCHANGED eventThr
       ELSE IF nIdleThreads > 0
       THEN evpc' \in SignalEvent /\ UNCHANGED <<nThreads, nIdleThreads, evEv, njobs>>
       ELSE \E t \in EventThreads :
                /\ evpc[t] = "none"
                /\ evpc' = [evpc EXCEPT ![t] = "start"]
                /\ njobs' = [njobs EXCEPT ![t] = JobsPerThread]
                /\ nIdleThreads' = nIdleThreads + 1 /\ nThreads' = nThreads + 1
                /\ UNCHANGED evEv
    /\ UNCHANGED <<clock, schedEvs, schedLists, schedThr, schedLock, schedRunning, schedShutdown, schedMain>>

\* Take a ready event and run it without the mutex.
SchedRun ==
    /\ schedpc = "ready" /\ readyPtr # <<>>
    /\ schedEv' = Head(readyPtr) /\ readyPtr' = Tail(readyPtr)
    /\ schedLock' = SchedNone /\ schedpc' = "run"
    /\ UNCHANGED <<clock, schedEvs, firstEventPtr, schedUntil, eventThr, schedRunning, schedShutdown, schedMain>>

\* The procedure returns; hPtr is read, still without the mutex, and an
\* event that is no longer in the table is freed.
SchedProcDone ==
    /\ schedpc = "run"
    /\ IF schedEv \in eventsTable
       THEN schedpc' = "requeue" /\ UNCHANGED <<freedEvents, schedEv>>
       ELSE schedpc' = "relock" /\ freedEvents' = freedEvents \cup {schedEv} /\ schedEv' = SchedNone
    /\ UNCHANGED <<clock, kind, eventsTable, queue, nextqueue, paused, schedLists, schedUntil, schedLock,
                   eventThr, schedRunning, schedShutdown, schedMain>>

\* Variant of SchedRequeue for mutation: the event is forgotten.
SchedRequeueNot ==
    /\ schedpc \in {"requeue", "relock"} /\ LockFree
    /\ schedLock' = "sched" /\ schedpc' = "ready" /\ schedEv' = SchedNone
    /\ UNCHANGED <<clock, schedEvs, schedLists, schedUntil, eventThr, schedRunning, schedShutdown, schedMain>>

SchedRequeue ==
    /\ schedpc \in {"requeue", "relock"} /\ LockFree
    /\ schedLock' = "sched" /\ schedpc' = "ready" /\ schedEv' = SchedNone
    /\ UNCHANGED paused
    /\ IF schedpc = "requeue" THEN QueueEvent(schedEv, kind[schedEv]) ELSE UNCHANGED <<queue, nextqueue>>
    /\ UNCHANGED <<clock, kind, eventsTable, freedEvents, schedLists, schedUntil, eventThr,
                   schedRunning, schedShutdown, schedMain>>

\* SchedWait: wait for the next event; with an empty heap for a signal, even
\* when the shutdown is pending.
SchedWait ==
    /\ schedpc = "ready" /\ readyPtr = <<>>
    /\ IF queue # <<>> /\ schedShutdown
       THEN schedpc' = "top" /\ UNCHANGED <<schedUntil, schedLock>>
       ELSE /\ schedpc' = "wait" /\ schedLock' = SchedNone
            /\ schedUntil' = IF queue = <<>> THEN Never ELSE nextqueue[queue[1]]
    /\ UNCHANGED <<clock, schedEvs, schedLists, schedEv, eventThr, schedRunning, schedShutdown, schedMain>>

\* Shutdown: wake the event threads and wait, with a timeout that makes the
\* thread look again, until all have exited.
SchedStop ==
    /\ schedpc = "stop"
    /\ evpc' = [t \in EventThreads |-> IF nThreads > 0 /\ evpc[t] = "wait" THEN "woken" ELSE evpc[t]]
    /\ schedpc' = "join" /\ schedLock' = SchedNone
    /\ UNCHANGED <<clock, schedEvs, schedLists, schedThr, nThreads, nIdleThreads, evEv, njobs,
                   schedRunning, schedShutdown, schedMain>>

\* Then, without the mutex, free what is in the heap and delete the table.
SchedDrain ==
    /\ schedpc = "join" /\ LockFree /\ nThreads = 0
    /\ schedpc' = "drained"
    /\ freedEvents' = freedEvents \cup {queue[i] : i \in DOMAIN queue}
    /\ queue' = <<>> /\ eventsTable' = {}
    /\ UNCHANGED <<clock, kind, nextqueue, paused, schedLists, schedThr, schedLock, eventThr,
                   schedRunning, schedShutdown, schedMain>>

SchedExit ==
    /\ schedpc = "drained" /\ LockFree
    /\ schedpc' = "off" /\ schedRunning' = FALSE
    /\ UNCHANGED <<clock, schedEvs, schedLists, schedThr, schedLock, eventThr, schedShutdown, schedMain>>

-----------------------------------------------------------------------------
(* EventThread.                                                             *)

EventTakesLock(t) ==
    /\ evpc[t] \in {"start", "woken", "freed"} /\ LockFree
    /\ evpc' = [evpc EXCEPT ![t] = IF @ = "freed" THEN "count" ELSE "loop"]
    /\ schedLock' = t
    /\ UNCHANGED <<clock, schedEvs, schedLists, schedThr, schedpc, nThreads, nIdleThreads, evEv, njobs,
                   schedRunning, schedShutdown, schedMain>>

\* Wait for an event, or take the first one and run it without the mutex.
EventLoop(t) ==
    /\ evpc[t] = "loop"
    /\ IF firstEventPtr = <<>> /\ schedShutdown
       THEN evpc' = [evpc EXCEPT ![t] = "exit"] /\ UNCHANGED <<firstEventPtr, evEv, nIdleThreads, schedLock>>
       ELSE IF firstEventPtr = <<>>
       THEN /\ evpc' = [evpc EXCEPT ![t] = "wait"]
            /\ schedLock' = SchedNone /\ UNCHANGED <<firstEventPtr, evEv, nIdleThreads>>
       ELSE /\ evEv' = [evEv EXCEPT ![t] = Head(firstEventPtr)]
            /\ firstEventPtr' = Tail(firstEventPtr)
            /\ \E pcs \in IF Tail(firstEventPtr) = <<>> THEN {evpc} ELSE SignalEvent :
                   evpc' = [pcs EXCEPT ![t] = "run"]
            /\ nIdleThreads' = nIdleThreads - 1
            /\ schedLock' = SchedNone
    /\ UNCHANGED <<clock, schedEvs, readyPtr, schedThr, schedpc, nThreads, njobs, schedRunning, schedShutdown,
                   schedMain>>

\* Variant of EventProcDone for mutation: a cancelled event goes back to the heap.
EventProcDoneRequeues(t) ==
    /\ evpc[t] = "run" /\ LockFree
    /\ nIdleThreads' = nIdleThreads + 1
    /\ evEv' = [evEv EXCEPT ![t] = SchedNone]
    /\ UNCHANGED paused
    /\ QueueEvent(evEv[t], kind[evEv[t]])
    /\ SignalSched
    /\ evpc' = [evpc EXCEPT ![t] = "count"]
    /\ schedLock' = t
    /\ UNCHANGED <<clock, kind, eventsTable, freedEvents, schedLists, schedThr, nThreads, njobs,
                   schedRunning, schedShutdown, schedMain>>

\* The procedure returns: free a cancelled event, without the mutex, or
\* queue it again.
EventProcDone(t) ==
    LET e == evEv[t]
    IN /\ evpc[t] = "run" /\ LockFree
       /\ nIdleThreads' = nIdleThreads + 1
       /\ evEv' = [evEv EXCEPT ![t] = SchedNone]
       /\ UNCHANGED paused
       /\ IF e \in eventsTable
          THEN /\ QueueEvent(e, kind[e]) /\ WakeOrCreate(e)
               /\ evpc' = [evpc EXCEPT ![t] = "count"] /\ schedLock' = t
               /\ UNCHANGED freedEvents
          ELSE /\ freedEvents' = freedEvents \cup {e}
               /\ evpc' = [evpc EXCEPT ![t] = "freed"]
               /\ UNCHANGED <<queue, nextqueue, schedpc, schedRunning, schedLock>>
       /\ UNCHANGED <<clock, kind, eventsTable, schedLists, schedThr, nThreads, njobs, schedShutdown, schedMain>>

\* if (jpt != 0 && --njobs <= 0) break;
EventCount(t) ==
    /\ evpc[t] = "count"
    /\ njobs' = [njobs EXCEPT ![t] = IF JobsPerThread = 0 THEN 0 ELSE @ - 1]
    /\ evpc' = [evpc EXCEPT ![t] = IF JobsPerThread # 0 /\ njobs'[t] <= 0 THEN "exit" ELSE "loop"]
    /\ UNCHANGED <<clock, schedEvs, schedLists, schedThr, schedpc, schedLock, nThreads, nIdleThreads, evEv,
                   schedRunning, schedShutdown, schedMain>>

EventExit(t) ==
    /\ evpc[t] = "exit"
    /\ nThreads' = nThreads - 1 /\ nIdleThreads' = nIdleThreads - 1
    /\ evpc' = [evpc EXCEPT ![t] = "none"]
    /\ SignalSched /\ schedLock' = SchedNone
    /\ UNCHANGED <<clock, schedEvs, schedLists, schedThr, evEv, njobs, schedRunning, schedShutdown, schedMain>>

\* A second passes.
SchedTick ==
    /\ clock < MaxTime /\ LockFree
    /\ clock' = clock + 1
    /\ UNCHANGED <<schedEvs, schedLists, schedThr, schedpc, schedLock, eventThr, schedRunning, schedShutdown, schedMain>>

SchedThread ==
    \/ SchedTakesLock \/ SchedTop \/ SchedCollect \/ SchedDispatch \/ SchedRun
    \/ SchedProcDone \/ SchedRequeue \/ SchedWait \/ SchedStop \/ SchedDrain \/ SchedExit

EventThread(t) ==
    EventTakesLock(t) \/ EventLoop(t) \/ EventProcDone(t) \/ EventCount(t) \/ EventExit(t)

SchedNext ==
    \/ SchedThread
    \/ \E t \in EventThreads : EventThread(t)
    \/ \E e \in Events :
          \/ \E k \in EventKinds : Ns_ScheduleProcEx(e, k)
          \/ Ns_Cancel(e) \/ Ns_Pause(e) \/ Ns_Resume(e)
    \/ NsStartSchedShutdown \/ NsWaitSchedShutdown
    \/ SchedTick

\* SchedThread and the EventThreads run and the procedures return; a thread
\* that asks for the mutex again and again gets it (strong fairness).
SchedFair ==
    /\ SF_schedVars(SchedThread)
    /\ \A t \in EventThreads : SF_schedVars(EventThread(t))

SchedSpec == SchedInit /\ [][SchedNext]_schedVars /\ SchedFair

-----------------------------------------------------------------------------
(* Properties.                                                              *)

InHeap == {queue[i] : i \in DOMAIN queue}

\* FreeEvent: an event that was freed is in no list, no table and in no
\* thread's hands, whatever order cancel, pause, resume, the threads and the
\* shutdown come in.
SchedNoDangling == freedEvents \cap (eventsTable \cup InHeap \cup InFlight) = {}

Uses(e) == Cardinality({i \in DOMAIN queue : queue[i] = e})
           + Cardinality({i \in DOMAIN firstEventPtr : firstEventPtr[i] = e})
           + Cardinality({i \in DOMAIN readyPtr : readyPtr[i] = e})
           + Cardinality({t \in EventThreads : evEv[t] = e})
           + (IF schedEv = e THEN 1 ELSE 0)

\* An event is in one place at a time: heap, list or thread, each of which
\* uses the one nextPtr and qid; and no event is lost: one that is neither
\* freed nor paused is in its place.
SchedOnePlace ==
    \A e \in Events :
        /\ Uses(e) <= 1
        /\ kind[e] # SchedNone /\ e \notin freedEvents \cup paused => Uses(e) = 1
        /\ e \in InHeap => e \notin paused

\* nThreads and nIdleThreads, by which SchedThread decides to create a thread
\* and to end the shutdown, agree with the threads there are.
SchedCounts ==
    /\ nThreads = Cardinality({t \in EventThreads : evpc[t] # "none"})
    /\ nIdleThreads = Cardinality({t \in EventThreads : evpc[t] \notin {"none", "run"}})

\* An NS_SCHED_ONCE event that has started never comes back to the heap.
OnceOnly == [][\A e \in InFlight : kind[e].once => e \notin InHeap']_schedVars

\* A due event leaves the heap: SchedThread, asleep until an older time or
\* busy with a procedure, does not miss it, unless the server is stopping.
DueLeavesHeap ==
    \A e \in Events : (e \in InHeap /\ nextqueue[e] <= clock) ~> (e \notin InHeap \/ schedMain # "up")

\* A threaded event that was dispatched is taken by a thread.
DispatchedRuns ==
    \A e \in Events : (\E i \in DOMAIN firstEventPtr : firstEventPtr[i] = e)
                      ~> ~(\E i \in DOMAIN firstEventPtr : firstEventPtr[i] = e)

\* The pending shutdown of the scheduler completes.
ShutdownCompletes == schedShutdown ~> ~schedRunning

-----------------------------------------------------------------------------
(***************************************************************************)
(* The order in which nsd/sched.c fires its events: the heap of SchedHeap  *)
(* under every sequence of QueueEvent, of DeQueueEvent(1) by SchedThread   *)
(* and of DeQueueEvent(ePtr->qid) by Ns_Cancel and Ns_Pause: of the last   *)
(* event of the array, or of any if CancelsInside.  An event is its time   *)
(* nextqueue.                                                              *)
(***************************************************************************)

CONSTANTS
    CancelsInside,   \* are events cancelled or paused in the middle of the heap
    Times,           \* values of nextqueue
    MaxHeap          \* bound: events in the heap

VARIABLE heap

Time == [t \in Times |-> t]

OrderInit == heap = <<>>

OrderQueue(t) == Len(heap) < MaxHeap /\ heap' = HeapInsert(heap, t, Time)

OrderFire == heap # <<>> /\ heap' = HeapDelete(heap, 1, Time)

OrderCancel(i) == (CancelsInside \/ i = Len(heap)) /\ heap' = HeapDelete(heap, i, Time)

OrderNext ==
    \/ \E t \in Times : OrderQueue(t)
    \/ OrderFire
    \/ \E i \in DOMAIN heap : OrderCancel(i)

OrderSpec == OrderInit /\ [][OrderNext]_heap

\* The comment in DeQueueEvent, "heap down to restore the order of events to
\* be fired": the event at the root is the next one to fire.
RootIsEarliest == \A i \in DOMAIN heap : heap[1] <= heap[i]
=============================================================================
