----------------------------- MODULE TaskQueue -----------------------------
(***************************************************************************)
(* A task queue of nsd/task.c with its TaskThread, used by the ns_http     *)
(* command of nsd/tclhttp.c: a caller creates a task, runs it itself or    *)
(* enqueues it, and then waits for it, perhaps with a timeout, or cancels  *)
(* it.                                                                     *)
(*                                                                         *)
(* sigFlags are the bits the callers and the thread exchange under the     *)
(* queue's lock, tkFlags the ones private to the thread.  The list of      *)
(* waiting tasks is linked through nextWaitPtr, as in the code, since one  *)
(* of the questions is whether it stays a list.  What the callback         *)
(* HttpProc finds on the socket is an input.  A read of a task that was    *)
(* freed finds the value last stored.                                      *)
(***************************************************************************)
EXTENDS Naturals, FiniteSets, Sequences

CONSTANTS
    Tasks,
    TaskRaces,  \* may a cancel meet a task that is just done or timing out
    Nil

VARIABLES
    tkClient,    \* what the caller of each task is doing
    tkQueued,    \* taskPtr->queuePtr is not NULL
    tkFreed,     \* tasks given to Ns_TaskFree
    sigFlags,    \* taskPtr->signalFlags
    firstSignal, \* queuePtr->firstSignalPtr, a list
    tkOwed,      \* callers between the unlock and TriggerQueue of SignalQueue, and StopQueue
    tkTrig,      \* bytes in the trigger pipe
    tkShutdown, tkStopped,
    tkFlags, nextWait, firstWait,
    tkpc, tkHand, tkNextPtr, tkShut, tkBroadcast, \* TaskThread and its local variables
    tkInits, tkDones, \* how often a task's NS_SOCK_INIT and NS_SOCK_DONE callbacks were made
    tkMain

tkCaller == <<tkClient, tkQueued, tkFreed>>
tkShared == <<sigFlags, firstSignal, tkShutdown, tkStopped>>
tkPipe   == <<tkOwed, tkTrig>>
tkThread == <<tkFlags, nextWait, firstWait, tkpc, tkHand, tkNextPtr, tkShut, tkBroadcast, tkInits, tkDones>>
tkVars   == <<tkCaller, tkShared, tkPipe, tkThread, tkMain>>

TaskInit ==
    /\ tkClient = [t \in Tasks |-> "new"]
    /\ tkQueued = [t \in Tasks |-> FALSE]
    /\ tkFreed = {}
    /\ sigFlags = [t \in Tasks |-> {}]
    /\ firstSignal = <<>>
    /\ tkOwed = 0 /\ tkTrig = 0
    /\ tkShutdown = FALSE /\ tkStopped = FALSE
    /\ tkFlags = [t \in Tasks |-> {}]
    /\ nextWait = [t \in Tasks |-> Nil] /\ firstWait = Nil
    /\ tkpc = "top" /\ tkHand = Nil /\ tkNextPtr = Nil /\ tkShut = FALSE /\ tkBroadcast = FALSE
    /\ tkInits = [t \in Tasks |-> 0] /\ tkDones = [t \in Tasks |-> 0]
    /\ tkMain = "up"

QueueLockFree == tkpc # "signals"
Completed(t) == "done" \in sigFlags[t]

\* The tasks of the list that starts at t.
RECURSIVE ListFrom(_, _)
ListFrom(t, seen) == IF t = Nil \/ t \in seen THEN seen ELSE ListFrom(nextWait[t], seen \cup {t})
WaitList == ListFrom(firstWait, {})

-----------------------------------------------------------------------------
(* The callers: HttpQueueCmd, HttpWaitCmd, HttpAbort.                       *)

\* SignalQueue up to the unlock, when the queue is not shutting down.
SignalQueue(t, bit) ==
    /\ sigFlags' = [sigFlags EXCEPT ![t] = @ \cup {bit, "pending"}]
    /\ IF "pending" \in sigFlags[t]
       THEN UNCHANGED <<firstSignal, tkOwed>>
       ELSE firstSignal' = <<t>> \o firstSignal /\ tkOwed' = tkOwed + 1

\* HttpQueueCmd: Ns_TaskCreate and Ns_TaskEnqueue; a task that cannot be
\* queued is closed.
Ns_TaskEnqueue(t) ==
    /\ tkClient[t] = "new" /\ QueueLockFree /\ tkMain # "joined"
    /\ tkQueued' = [tkQueued EXCEPT ![t] = TRUE]
    /\ IF tkShutdown
       THEN /\ tkClient' = [tkClient EXCEPT ![t] = "closed"]
            /\ tkFreed' = tkFreed \cup {t}
            /\ UNCHANGED <<sigFlags, firstSignal, tkOwed>>
       ELSE /\ tkClient' = [tkClient EXCEPT ![t] = "listed"]
            /\ SignalQueue(t, "init")
            /\ UNCHANGED tkFreed
    /\ UNCHANGED <<tkTrig, tkShutdown, tkStopped, tkThread, tkMain>>

\* HttpQueueCmd for ns_http run: the caller itself polls until the callback
\* calls Ns_TaskDone.
Ns_TaskRun(t) ==
    /\ tkClient[t] = "new"
    /\ tkClient' = [tkClient EXCEPT ![t] = "listed"]
    /\ sigFlags' = [sigFlags EXCEPT ![t] = @ \cup {"done"}]
    /\ tkInits' = [tkInits EXCEPT ![t] = @ + 1] /\ tkDones' = [tkDones EXCEPT ![t] = @ + 1]
    /\ UNCHANGED <<tkQueued, tkFreed, firstSignal, tkShutdown, tkStopped, tkPipe, tkFlags, nextWait,
                   firstWait, tkpc, tkHand, tkNextPtr, tkShut, tkBroadcast, tkMain>>

\* TriggerQueue, after the unlock of SignalQueue or StopQueue.
TriggerQueue ==
    /\ tkOwed > 0
    /\ tkOwed' = tkOwed - 1 /\ tkTrig' = tkTrig + 1
    /\ UNCHANGED <<tkCaller, tkShared, tkThread, tkMain>>

\* HttpWaitCmd takes the request out of the interpreter's table and calls
\* Ns_TaskWait; HttpAbort calls HttpCancel, which waits without a timeout.
\* "wait" and "abort" are asleep in Ns_TaskWait, "timeout" in the second wait
\* after a timeout.
Waits == {"wait", "abort", "timeout"}

\* Variant of HttpWait for mutation: the caller does not wait.
HttpWaitNot(t) ==
    /\ tkClient[t] = "listed" /\ QueueLockFree
    /\ tkClient' = [tkClient EXCEPT ![t] = "waited"]
    /\ tkQueued' = [tkQueued EXCEPT ![t] = FALSE]
    /\ UNCHANGED <<tkFreed, tkShared, tkPipe, tkThread, tkMain>>

\* Ns_TaskWait: done already, or sleep on the condition.
HttpWait(t) ==
    /\ tkClient[t] = "listed" /\ QueueLockFree
    /\ tkClient' = [tkClient EXCEPT ![t] = IF Completed(t) THEN "waited" ELSE "wait"]
    /\ tkQueued' = [tkQueued EXCEPT ![t] = @ /\ ~Completed(t)]
    /\ UNCHANGED <<tkFreed, tkShared, tkPipe, tkThread, tkMain>>

\* The condition's broadcast wakes a waiter, which finds the task done.
WaitDone(t) ==
    /\ tkClient[t] \in {"woken", "wokenAbort", "wokenTimeout"} /\ QueueLockFree
    /\ IF Completed(t)
       THEN /\ tkClient' = [tkClient EXCEPT ![t] = IF @ = "wokenTimeout" THEN "lost" ELSE "waited"]
            /\ tkQueued' = [tkQueued EXCEPT ![t] = FALSE]
       ELSE /\ tkClient' = [tkClient EXCEPT ![t] = CASE @ = "woken" -> "wait" [] @ = "wokenAbort" -> "abort"
                                                     [] @ = "wokenTimeout" -> "timeout"]
            /\ UNCHANGED tkQueued
    /\ UNCHANGED <<tkFreed, tkShared, tkPipe, tkThread, tkMain>>

\* HttpClose: the task is freed.
HttpClose(t) ==
    /\ tkClient[t] = "waited"
    /\ tkClient' = [tkClient EXCEPT ![t] = "closed"]
    /\ tkFreed' = tkFreed \cup {t}
    /\ UNCHANGED <<tkQueued, tkShared, tkPipe, tkThread, tkMain>>

\* A cancel of t that the thread has not yet seen meets no other end of t.
Listed == WaitList \cup ListFrom(tkHand, {}) \cup ListFrom(tkNextPtr, {})
CancelInTime(t) ==
    ~Completed(t) /\ (t \in Listed => "wait" \in tkFlags[t] /\ "done" \notin tkFlags[t])

\* HttpCancel, of a listed request (HttpAbort) or of one whose Ns_TaskWait
\* timed out (HttpWaitCmd, which then forgets it): Ns_TaskCancel, and
\* Ns_TaskWait without a timeout.
HttpCancel(t) ==
    /\ tkClient[t] \in {"listed", "wait"} /\ QueueLockFree /\ tkMain # "joined"
    /\ TaskRaces \/ (tkQueued[t] => CancelInTime(t))
    /\ IF ~tkQueued[t]
       THEN sigFlags' = [sigFlags EXCEPT ![t] = @ \cup {"cancel"}] /\ UNCHANGED <<firstSignal, tkOwed>>
       ELSE IF tkShutdown THEN UNCHANGED <<sigFlags, firstSignal, tkOwed>>
       ELSE SignalQueue(t, "cancel")
    /\ tkClient' = [tkClient EXCEPT ![t] =
                      IF Completed(t) THEN (IF @ = "wait" THEN "lost" ELSE "waited")
                      ELSE (IF @ = "wait" THEN "timeout" ELSE "abort")]
    /\ tkQueued' = [tkQueued EXCEPT ![t] = @ /\ ~Completed(t)]
    /\ UNCHANGED <<tkFreed, tkTrig, tkShutdown, tkStopped, tkThread, tkMain>>

-----------------------------------------------------------------------------
(* The main thread.                                                         *)

StopQueue ==
    /\ tkMain = "up" /\ QueueLockFree
    /\ tkShutdown' = TRUE /\ tkOwed' = tkOwed + 1 /\ tkMain' = "waiting"
    /\ UNCHANGED <<tkCaller, sigFlags, firstSignal, tkStopped, tkTrig, tkThread>>

\* NsWaitTaskQueueShutdown: when the thread has stopped the queue is joined
\* and freed.  (A timeout leaves it as it is.)
JoinQueue ==
    /\ tkMain = "waiting" /\ tkStopped
    /\ tkMain' = "joined"
    /\ UNCHANGED <<tkCaller, tkShared, tkPipe, tkThread>>

-----------------------------------------------------------------------------
(* TaskThread.                                                              *)

TaskLocks ==
    /\ tkpc = "top"
    /\ tkpc' = "signals" /\ tkShut' = tkShutdown
    /\ UNCHANGED <<tkCaller, tkShared, tkPipe, tkFlags, nextWait, firstWait, tkHand, tkNextPtr, tkBroadcast,
                   tkInits, tkDones, tkMain>>

\* Variant of TaskSignal for mutation: TASK_PENDING stays set.
TaskSignalPending ==
    /\ tkpc = "signals" /\ firstSignal # <<>>
    /\ LET t == Head(firstSignal)
       IN /\ firstSignal' = Tail(firstSignal)
          /\ tkFlags' = [tkFlags EXCEPT ![t] = @ \cup {"wait"} \cup (sigFlags[t] \cap {"init", "cancel"})]
          /\ IF "wait" \in tkFlags[t] THEN UNCHANGED <<nextWait, firstWait>>
             ELSE nextWait' = [nextWait EXCEPT ![t] = firstWait] /\ firstWait' = t
          /\ sigFlags' = [sigFlags EXCEPT ![t] = @ \ {"init", "cancel"}]
    /\ UNCHANGED <<tkCaller, tkShutdown, tkStopped, tkPipe, tkpc, tkHand, tkNextPtr, tkShut, tkBroadcast,
                   tkInits, tkDones, tkMain>>

\* One round of the loop over the signals.
TaskSignal ==
    /\ tkpc = "signals" /\ firstSignal # <<>>
    /\ LET t == Head(firstSignal)
       IN /\ firstSignal' = Tail(firstSignal)
          /\ tkFlags' = [tkFlags EXCEPT ![t] = @ \cup {"wait"} \cup (sigFlags[t] \cap {"init", "cancel"})]
          /\ IF "wait" \in tkFlags[t] THEN UNCHANGED <<nextWait, firstWait>>
             ELSE nextWait' = [nextWait EXCEPT ![t] = firstWait] /\ firstWait' = t
          /\ sigFlags' = [sigFlags EXCEPT ![t] = @ \ {"init", "cancel", "pending"}]
    /\ UNCHANGED <<tkCaller, tkShutdown, tkStopped, tkPipe, tkpc, tkHand, tkNextPtr, tkShut, tkBroadcast,
                   tkInits, tkDones, tkMain>>

TaskSignalsEnd ==
    /\ tkpc = "signals" /\ firstSignal = <<>>
    /\ tkpc' = "pre" /\ tkHand' = firstWait /\ firstWait' = Nil /\ tkBroadcast' = FALSE
    /\ UNCHANGED <<tkCaller, tkShared, tkPipe, tkFlags, nextWait, tkNextPtr, tkShut, tkInits, tkDones, tkMain>>

\* Variant of AfterInit for mutation: TASK_INIT stays set.
AfterInitAgain(fl) == IF "init" \in fl THEN fl \cup {"wait", "timeout"} ELSE fl

\* What the callbacks of the pre-poll loop do to the flags: NS_SOCK_INIT calls
\* Ns_TaskCallback, NS_SOCK_CANCEL calls Ns_TaskDone.
AfterInit(fl) == IF "init" \in fl THEN (fl \ {"init"}) \cup {"wait", "timeout"} ELSE fl
AfterCancel(fl) == IF "cancel" \in fl THEN (fl \ {"cancel", "wait"}) \cup {"done"} ELSE fl

\* The callbacks for one task of the pre-poll loop, until it is published as
\* done.
TaskPre ==
    /\ tkpc = "pre" /\ tkHand # Nil
    /\ LET fl == AfterCancel(AfterInit(tkFlags[tkHand]))
       IN /\ tkFlags' = [tkFlags EXCEPT ![tkHand] = IF "done" \in fl THEN fl \ {"done", "wait"} ELSE fl]
          /\ tkInits' = [tkInits EXCEPT ![tkHand] = IF "init" \in tkFlags[tkHand] THEN @ + 1 ELSE @]
          /\ tkDones' = [tkDones EXCEPT ![tkHand] = IF "done" \in fl THEN @ + 1 ELSE @]
          /\ sigFlags' = [sigFlags EXCEPT ![tkHand] = IF "done" \in fl THEN @ \cup {"done"} ELSE @]
          /\ tkBroadcast' = (tkBroadcast \/ "done" \in fl)
    /\ tkNextPtr' = nextWait[tkHand] /\ tkpc' = "link"
    /\ UNCHANGED <<tkCaller, firstSignal, tkShutdown, tkStopped, tkPipe, nextWait, firstWait, tkHand, tkShut, tkMain>>

\* The rest of the round: a task that still waits is linked again.
TaskLink ==
    /\ tkpc = "link"
    /\ IF "wait" \in tkFlags[tkHand]
       THEN nextWait' = [nextWait EXCEPT ![tkHand] = firstWait] /\ firstWait' = tkHand
       ELSE UNCHANGED <<nextWait, firstWait>>
    /\ tkHand' = tkNextPtr /\ tkNextPtr' = Nil /\ tkpc' = "pre"
    /\ UNCHANGED <<tkCaller, tkShared, tkPipe, tkFlags, tkShut, tkBroadcast, tkInits, tkDones, tkMain>>

Woken == [t \in Tasks |-> CASE tkClient[t] = "wait" -> "woken" [] tkClient[t] = "abort" -> "wokenAbort"
                            [] tkClient[t] = "timeout" -> "wokenTimeout" [] OTHER -> tkClient[t]]

\* Variant of TaskPreEnd for mutation: no broadcast.
TaskPreEndSilent ==
    /\ tkpc = "pre" /\ tkHand = Nil
    /\ tkpc' = IF tkShut THEN "exit" ELSE "poll"
    /\ UNCHANGED <<tkCaller, tkShared, tkPipe, tkFlags, nextWait, firstWait, tkHand, tkNextPtr, tkShut,
                   tkBroadcast, tkInits, tkDones, tkMain>>

TaskPreEnd ==
    /\ tkpc = "pre" /\ tkHand = Nil
    /\ tkClient' = IF tkBroadcast THEN Woken ELSE tkClient
    /\ tkpc' = IF tkShut THEN "exit" ELSE "poll"
    /\ UNCHANGED <<tkQueued, tkFreed, tkShared, tkPipe, tkFlags, nextWait, firstWait, tkHand, tkNextPtr, tkShut,
                   tkBroadcast, tkInits, tkDones, tkMain>>

\* NsPoll returns on a trigger, on sockets that are ready or on a timeout, and
\* RunTask calls the callbacks: HttpProc goes on, or calls Ns_TaskDone at the
\* end of the reply, on an error or (without TASK_WAIT) on the timeout.
TaskPoll ==
    /\ tkpc = "poll"
    /\ \E what \in [WaitList -> {"nothing", "progress", "end", "timeout"}] :
          /\ tkTrig > 0 \/ \E t \in WaitList : what[t] # "nothing"
          /\ TaskRaces \/ \A t \in WaitList : what[t] = "timeout" => "pending" \notin sigFlags[t]
          /\ tkFlags' = [t \in Tasks |->
                IF t \notin WaitList THEN tkFlags[t]
                ELSE CASE what[t] = "end" -> tkFlags[t] \cup {"done"}
                       [] what[t] = "timeout" -> (tkFlags[t] \ {"wait"}) \cup {"done"}
                       [] OTHER -> tkFlags[t]]
    /\ tkTrig' = IF tkTrig > 0 THEN tkTrig - 1 ELSE 0
    /\ tkpc' = "top"
    /\ UNCHANGED <<tkCaller, tkShared, tkOwed, nextWait, firstWait, tkHand, tkNextPtr, tkShut, tkBroadcast,
                   tkInits, tkDones, tkMain>>

\* Shutdown: exit callbacks, all remaining tasks done, broadcast.
TaskExit ==
    /\ tkpc = "exit"
    /\ sigFlags' = [t \in Tasks |-> IF t \in WaitList THEN sigFlags[t] \cup {"done"} ELSE sigFlags[t]]
    /\ tkStopped' = TRUE /\ tkpc' = "stopped" /\ firstWait' = Nil /\ tkClient' = Woken
    /\ UNCHANGED <<tkQueued, tkFreed, firstSignal, tkShutdown, tkPipe, tkFlags, nextWait,
                   tkHand, tkNextPtr, tkShut, tkBroadcast, tkInits, tkDones, tkMain>>

TaskThread ==
    \/ TaskLocks \/ TaskSignal \/ TaskSignalsEnd \/ TaskPre \/ TaskLink \/ TaskPreEnd \/ TaskPoll \/ TaskExit

TaskNext ==
    \/ TaskThread
    \/ \E t \in Tasks : \/ Ns_TaskEnqueue(t) \/ Ns_TaskRun(t) \/ HttpWait(t) \/ WaitDone(t)
                        \/ HttpClose(t) \/ HttpCancel(t)
    \/ TriggerQueue \/ StopQueue \/ JoinQueue

\* The thread runs, the tasks' sockets become ready or time out (TaskPoll is
\* enabled while a task waits), and the callers go on.
TaskFair ==
    /\ WF_tkVars(TaskThread)
    /\ WF_tkVars(TriggerQueue)
    /\ \A t \in Tasks : SF_tkVars(WaitDone(t))

TaskSpec == TaskInit /\ [][TaskNext]_tkVars /\ TaskFair

-----------------------------------------------------------------------------
(* Properties.                                                              *)

SignalList == {firstSignal[i] : i \in DOMAIN firstSignal}

\* The comment of Ns_TaskFree, "The caller is responsible for ensuring the task
\* is no longer being run or monitored": a freed task is in neither list and
\* not in the thread's hand.
TaskNotFreedInUse == tkFreed \cap (SignalList \cup Listed) = {}

\* The same of the two lists only, while the thread may still look at the task
\* it has just published as done.
TaskListsLive == tkFreed \cap (SignalList \cup WaitList \cup ListFrom(tkNextPtr, {})) = {}

\* SignalQueue: a task is in the list of signals once, exactly while it has
\* TASK_PENDING; with a signal pending the thread is awake, or a byte is in the
\* trigger pipe or about to be written.
TaskSignalsSeen ==
    /\ \A t \in Tasks : Cardinality({i \in DOMAIN firstSignal : firstSignal[i] = t})
                        = IF "pending" \in sigFlags[t] THEN 1 ELSE 0
    /\ firstSignal # <<>> \/ (tkShutdown /\ ~tkShut) =>
           tkTrig + tkOwed > 0 \/ tkpc \in {"top", "signals"}

\* The callback sees NS_SOCK_INIT once, before NS_SOCK_DONE, and that once.
TaskCallbacksOnce ==
    \A t \in Tasks : tkInits[t] <= 1 /\ tkDones[t] <= tkInits[t]

\* A caller that cancels a request, and waits without a timeout, returns.
CancelReturns == \A t \in Tasks : tkClient[t] \in {"abort", "timeout"} ~> tkClient[t] \in {"waited", "lost", "closed"}

\* At shutdown every caller asleep in Ns_TaskWait returns.
TaskShutdownWakes == \A t \in Tasks : (tkShutdown /\ tkClient[t] = "wait") ~> (tkClient[t] # "wait")

=============================================================================
