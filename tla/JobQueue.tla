------------------------------ MODULE JobQueue ------------------------------
(***************************************************************************)
(* ns_job, nsd/tcljob.c: queues of jobs, the one thread pool that serves   *)
(* them, and the callers of the command.                                   *)
(*                                                                         *)
(* tpLock is tp.queuelock, qLock[q] the lock of a queue.  What a thread    *)
(* does under locks it holds together is one step.  With SplitLookup a     *)
(* thread takes tp.queuelock in a step of its own and then waits, holding  *)
(* it, for the queue's lock, as LookupQueue does; without it both are      *)
(* taken at once.  ReleaseQueue takes them in the other order when it has  *)
(* to delete a queue.  A job is queued once; scripts end, and their        *)
(* results are left out.                                                   *)
(***************************************************************************)
EXTENDS Integers, FiniteSets, Sequences

CONSTANTS
    JobQueues, Jobs,
    JobClients,      \* threads that call ns_job
    JobThreads,      \* threads JobThread may run in
    QueueMax,        \* maxThreads of a queue
    JobsPerThread_,  \* tp.jobsPerThread, 0 for no limit
    IdleTimeout,     \* is tp.timeout set
    SplitLookup,
    JobNone

ASSUME JobAssumption ==
    /\ IsFiniteSet(Jobs) /\ IsFiniteSet(JobClients) /\ IsFiniteSet(JobThreads)
    /\ QueueMax \in [JobQueues -> Nat]
    /\ JobNone \notin Jobs \cup JobQueues \cup JobClients

VARIABLES
    tpLock, qLock,
    jobQs,           \* tp.queues
    qDelete,         \* queues with QUEUE_REQ_DELETE
    qRef, qRunning,  \* refCount, nRunning
    jobsOf,          \* queue->jobs, the table of each queue
    firstPtr,        \* tp.firstPtr, the list of jobs to run
    jobState, jobQueue, jobDetached, jobWaited, jobCancel,
    jobFreed,
    tpMax, tpThreads, tpIdle, tpStop,
    wpc, wjob, wleft,      \* JobThreads: place, job, jobs left
    cpc, cq, cj            \* callers: place, queue, job

jobLocks == <<tpLock, qLock>>
jobQVars == <<jobQs, qDelete, qRef, qRunning, jobsOf>>
jobData  == <<jobState, jobQueue, jobDetached, jobWaited, jobCancel, jobFreed>>
jobPool  == <<firstPtr, tpMax, tpThreads, tpIdle, tpStop>>
jobWork  == <<wpc, wjob, wleft>>
jobCall  == <<cpc, cq, cj>>
jobVars  == <<jobLocks, jobQVars, jobData, jobPool, jobWork, jobCall>>

JobInit ==
    /\ tpLock = JobNone /\ qLock = [q \in JobQueues |-> JobNone]
    /\ jobQs = {} /\ qDelete = {}
    /\ qRef = [q \in JobQueues |-> 0] /\ qRunning = [q \in JobQueues |-> 0]
    /\ jobsOf = [q \in JobQueues |-> {}]
    /\ firstPtr = <<>>
    /\ jobState = [j \in Jobs |-> "new"] /\ jobQueue = [j \in Jobs |-> JobNone]
    /\ jobDetached = {} /\ jobWaited = {} /\ jobCancel = {} /\ jobFreed = {}
    /\ tpMax = 0 /\ tpThreads = 0 /\ tpIdle = 0 /\ tpStop = FALSE
    /\ wpc = [w \in JobThreads |-> "none"] /\ wjob = [w \in JobThreads |-> JobNone]
    /\ wleft = [w \in JobThreads |-> 0]
    /\ cpc = [c \in JobClients |-> "idle"]
    /\ cq = [c \in JobClients |-> JobNone] /\ cj = [c \in JobClients |-> JobNone]

\* p has tp.queuelock, or, without SplitLookup, gets it with the next lock.
HasTp(p) == tpLock = p \/ (~SplitLookup /\ tpLock = JobNone)

\* A caller of ns_job starts on queue q.
Enters(c, q) == cpc[c] = "idle" /\ HasTp(c) /\ (SplitLookup => cq[c] = q)
QFree(q) == qLock[q] = JobNone

\* Ns_MutexLock(&tp.queuelock) as a step of its own.
TakeTp(p) ==
    /\ SplitLookup /\ tpLock = JobNone
    /\ \/ p \in JobClients /\ cpc[p] = "idle" /\ \E q \in JobQueues : cq' = [cq EXCEPT ![p] = q]
       \/ p \in JobThreads /\ wpc[p] \in {"start", "woken", "timedout", "run"} /\ UNCHANGED cq
    /\ tpLock' = p
    /\ UNCHANGED <<qLock, jobQVars, jobData, jobPool, jobWork, cpc, cj>>

\* Ns_CondBroadcast(&tp.cond): idle threads look for a job again.
TpBroadcast == [w \in JobThreads |-> IF wpc[w] = "wait" THEN "woken" ELSE wpc[w]]

\* Ns_CondBroadcast(&queue->cond).
QBroadcast(q) ==
    [c \in JobClients |->
        IF cq[c] = q /\ cpc[c] = "waiting" THEN "woken"
        ELSE IF cq[c] = q /\ cpc[c] = "waitany" THEN "wokenany" ELSE cpc[c]]

\* Variant of Deletable for mutation: the reference count is not looked at.
DeletableInUse(q, ref, jobs, del) == q \in del /\ jobs = {}

\* ReleaseQueue by a thread with tp.queuelock: ref is the count before.
\* The queue is deleted when that was asked for and nobody uses it.
Deletable(q, ref, jobs, del) == q \in del /\ ref <= 0 /\ jobs = {}

DeleteQueue(q) ==
    /\ jobQs' = jobQs \ {q} /\ qDelete' = qDelete \ {q}
    /\ tpMax' = tpMax - QueueMax[q]

-----------------------------------------------------------------------------
(* The command.                                                             *)

JobCreate(c, q) ==
    /\ Enters(c, q) /\ q \notin jobQs
    /\ jobQs' = jobQs \cup {q}
    /\ tpMax' = tpMax + QueueMax[q]
    /\ qRef' = [qRef EXCEPT ![q] = 0]
    /\ tpLock' = JobNone
    /\ UNCHANGED <<qLock, qDelete, qRunning, jobsOf, jobData, firstPtr, tpThreads, tpIdle, tpStop,
                   jobWork, jobCall>>

\* ns_job queue, with both locks: refused when the queue is being deleted or
\* the server stops, otherwise listed, with a new thread if none is idle and
\* the pool may grow.  (A refused job is freed, and ReleaseQueue may delete
\* the queue.)
JobAdd(c, q, j, detached, head) ==
    /\ Enters(c, q) /\ q \in jobQs /\ QFree(q) /\ jobState[j] = "new"
    /\ tpLock' = JobNone
    /\ IF tpStop \/ q \in qDelete
       THEN /\ jobState' = [jobState EXCEPT ![j] = "refused"]
            /\ jobFreed' = jobFreed \cup {j}
            /\ IF Deletable(q, qRef[q], jobsOf[q], qDelete)
               THEN DeleteQueue(q) ELSE UNCHANGED <<jobQs, qDelete, tpMax>>
            /\ UNCHANGED <<jobQueue, jobDetached, jobsOf, firstPtr, tpThreads, wpc>>
       ELSE /\ jobState' = [jobState EXCEPT ![j] = "scheduled"]
            /\ jobQueue' = [jobQueue EXCEPT ![j] = q]
            /\ jobDetached' = IF detached THEN jobDetached \cup {j} ELSE jobDetached
            /\ jobsOf' = [jobsOf EXCEPT ![q] = @ \cup {j}]
            /\ firstPtr' = IF head THEN <<j>> \o firstPtr ELSE Append(firstPtr, j)
            /\ IF tpIdle = 0 /\ tpThreads < tpMax
               THEN /\ tpThreads' = tpThreads + 1
                    /\ \E w \in JobThreads : wpc[w] = "none" /\ wpc' = [TpBroadcast EXCEPT ![w] = "start"]
               ELSE wpc' = TpBroadcast /\ UNCHANGED tpThreads
            /\ UNCHANGED <<jobQs, qDelete, tpMax, jobFreed>>
    /\ UNCHANGED <<qLock, qRef, qRunning, jobWaited, jobCancel, tpIdle, tpStop, wjob, wleft, jobCall>>

\* LookupQueue, then something under the queue's lock that leaves `jobs` in
\* its table and `del` asked for, then ReleaseQueue: a caller that has to
\* delete the queue goes on, with the queue's lock, to take tp.queuelock.
Release(c, q, ref, jobs, del) ==
    IF Deletable(q, ref, jobs, del)
    THEN /\ cpc' = [cpc EXCEPT ![c] = "deleting"] /\ cq' = [cq EXCEPT ![c] = q]
         /\ qLock' = [qLock EXCEPT ![q] = c]
    ELSE /\ cpc' = [cpc EXCEPT ![c] = "idle"] /\ cq' = [cq EXCEPT ![c] = JobNone]
         /\ UNCHANGED qLock

\* The end of ReleaseQueue(queue, 0): tp.queuelock after the queue's lock.
ReleaseDelete(c) ==
    LET q == cq[c]
    IN /\ cpc[c] = "deleting" /\ tpLock = JobNone
       /\ DeleteQueue(q)
       /\ qLock' = [qLock EXCEPT ![q] = JobNone]
       /\ cpc' = [cpc EXCEPT ![c] = "idle"] /\ cq' = [cq EXCEPT ![c] = JobNone]
       /\ UNCHANGED <<tpLock, qRef, qRunning, jobsOf, jobData, firstPtr, tpThreads, tpIdle, tpStop, jobWork, cj>>

\* ns_job delete.
JobDelete(c, q) ==
    /\ Enters(c, q) /\ q \in jobQs /\ QFree(q)
    /\ tpLock' = JobNone
    /\ qDelete' = qDelete \cup {q}
    /\ Release(c, q, qRef[q], jobsOf[q], qDelete')
    /\ wpc' = TpBroadcast
    /\ UNCHANGED <<jobQs, qRef, qRunning, jobsOf, jobData, jobPool, wjob, wleft, cj>>

\* ns_job exists, jobs, joblist: they only look, but they too release.
JobExists(c, q) ==
    /\ Enters(c, q) /\ q \in jobQs /\ QFree(q)
    /\ tpLock' = JobNone
    /\ Release(c, q, qRef[q], jobsOf[q], qDelete)
    /\ UNCHANGED <<jobQVars, jobData, jobPool, jobWork, cj>>

\* ns_job cancel: not while someone waits for the job.  A running script is
\* aborted, one that has not started will be.
JobCancel(c, q, j) ==
    /\ Enters(c, q) /\ q \in jobQs /\ QFree(q)
    /\ j \in jobsOf[q] \ jobWaited
    /\ tpLock' = JobNone
    /\ jobCancel' = jobCancel \cup {j}
    /\ cpc' = QBroadcast(q)
    /\ wpc' = TpBroadcast
    /\ UNCHANGED <<qLock, jobQVars, jobState, jobQueue, jobDetached, jobWaited, jobFreed, jobPool,
                   wjob, wleft, cq, cj>>

\* The job's waiter takes it out of the table and frees it.
TakeResult(c, q, j, ref) ==
    /\ jobsOf' = [jobsOf EXCEPT ![q] = @ \ {j}]
    /\ jobFreed' = jobFreed \cup {j}
    /\ Release(c, q, ref, jobsOf[q] \ {j}, qDelete)
    /\ cj' = [cj EXCEPT ![c] = JobNone]

\* ns_job wait: one waiter for a job, and none for a detached one.
JobWait(c, q, j) ==
    /\ Enters(c, q) /\ q \in jobQs /\ QFree(q)
    /\ j \in jobsOf[q] \ (jobDetached \cup jobWaited)
    /\ tpLock' = JobNone
    /\ jobWaited' = jobWaited \cup {j}
    /\ IF jobState[j] = "done"
       THEN TakeResult(c, q, j, qRef[q]) /\ UNCHANGED qRef
       ELSE /\ cpc' = [cpc EXCEPT ![c] = "waiting"]
            /\ cq' = [cq EXCEPT ![c] = q] /\ cj' = [cj EXCEPT ![c] = j]
            /\ qRef' = [qRef EXCEPT ![q] = @ + 1]
            /\ UNCHANGED <<qLock, jobsOf, jobFreed>>
    /\ UNCHANGED <<jobQs, qDelete, qRunning, jobState, jobQueue, jobDetached, jobCancel, jobPool, jobWork>>

JobWaitWakes(c) ==
    LET q == cq[c]
    IN /\ cpc[c] = "woken" /\ QFree(q)
       /\ IF jobState[cj[c]] = "done"
          THEN /\ qRef' = [qRef EXCEPT ![q] = @ - 1]
               /\ TakeResult(c, q, cj[c], qRef'[q])
          ELSE cpc' = [cpc EXCEPT ![c] = "waiting"] /\ UNCHANGED <<qLock, qRef, jobsOf, jobFreed, cq, cj>>
       /\ UNCHANGED <<tpLock, jobQs, qDelete, qRunning, jobState, jobQueue, jobDetached, jobWaited, jobCancel,
                      jobPool, jobWork>>

JobWaitTimeout(c) ==
    LET q == cq[c]
    IN /\ cpc[c] = "waiting" /\ QFree(q)
       /\ jobWaited' = jobWaited \ {cj[c]}
       /\ qRef' = [qRef EXCEPT ![q] = @ - 1]
       /\ Release(c, q, qRef'[q], jobsOf[q], qDelete)
       /\ cj' = [cj EXCEPT ![c] = JobNone]
       /\ UNCHANGED <<tpLock, jobQs, qDelete, qRunning, jobsOf, jobState, jobQueue, jobDetached, jobCancel,
                      jobFreed, jobPool, jobWork>>

AnyDone(q) == jobsOf[q] = {} \/ \E j \in jobsOf[q] : jobState[j] = "done"

\* ns_job waitany, with a timeout or without.
JobWaitAny(c, q) ==
    /\ Enters(c, q) /\ q \in jobQs /\ QFree(q)
    /\ tpLock' = JobNone
    /\ IF AnyDone(q)
       THEN Release(c, q, qRef[q], jobsOf[q], qDelete) /\ UNCHANGED qRef
       ELSE /\ cpc' = [cpc EXCEPT ![c] = "waitany"] /\ cq' = [cq EXCEPT ![c] = q]
            /\ qRef' = [qRef EXCEPT ![q] = @ + 1] /\ UNCHANGED qLock
    /\ UNCHANGED <<jobQs, qDelete, qRunning, jobsOf, jobData, jobPool, jobWork, cj>>

JobWaitAnyEnds(c, timeout) ==
    LET q == cq[c]
    IN /\ IF timeout THEN cpc[c] = "waitany" ELSE cpc[c] = "wokenany"
       /\ QFree(q)
       /\ IF timeout \/ AnyDone(q)
          THEN /\ qRef' = [qRef EXCEPT ![q] = @ - 1]
               /\ Release(c, q, qRef'[q], jobsOf[q], qDelete)
          ELSE cpc' = [cpc EXCEPT ![c] = "waitany"] /\ UNCHANGED <<qLock, qRef, cq>>
       /\ UNCHANGED <<tpLock, jobQs, qDelete, qRunning, jobsOf, jobData, jobPool, jobWork, cj>>

\* NsStartJobsShutdown: nothing is stopped when there is no queue.
JobStop ==
    /\ tpLock = JobNone /\ ~tpStop /\ jobQs # {}
    /\ tpStop' = TRUE /\ wpc' = TpBroadcast
    /\ UNCHANGED <<jobLocks, jobQVars, jobData, firstPtr, tpMax, tpThreads, tpIdle, wjob, wleft, jobCall>>

-----------------------------------------------------------------------------
(* JobThread.                                                               *)

Runnable(i) == qRunning[jobQueue[firstPtr[i]]] < QueueMax[jobQueue[firstPtr[i]]]

\* GetNextJob: the first job whose queue runs fewer than maxThreads; 0 if none.
GetNextJob ==
    LET able == {i \in DOMAIN firstPtr : Runnable(i)}
    IN IF able = {} THEN 0 ELSE CHOOSE i \in able : \A k \in able : i <= k

\* GetNextJob locks the queue of every job it looks at.
ScanFree == \A i \in DOMAIN firstPtr : QFree(jobQueue[firstPtr[i]])

\* Variant of ThreadExits for mutation: the thread stays counted as idle.
ThreadExitsIdle(w, idle) ==
    /\ tpThreads' = tpThreads - 1 /\ tpIdle' = tpIdle
    /\ wpc' = [TpBroadcast EXCEPT ![w] = "none"]
    /\ tpLock' = JobNone
    /\ UNCHANGED <<firstPtr, qRef, qRunning, jobState, wjob, wleft>>

ThreadExits(w, idle) ==
    /\ tpThreads' = tpThreads - 1 /\ tpIdle' = idle
    /\ wpc' = [TpBroadcast EXCEPT ![w] = "none"]
    /\ tpLock' = JobNone
    /\ UNCHANGED <<firstPtr, qRef, qRunning, jobState, wjob, wleft>>

\* Look for a job, from the start of the loop (the thread counts itself idle)
\* or after a wait.
JobLook(w) ==
    /\ wpc[w] \in {"start", "again", "woken"} /\ HasTp(w) /\ ScanFree
    /\ LET idle == IF wpc[w] = "woken" THEN tpIdle ELSE tpIdle + 1
           i    == GetNextJob
       IN IF tpStop THEN ThreadExits(w, idle - 1)
          ELSE IF i = 0
          THEN /\ wpc' = [wpc EXCEPT ![w] = "wait"] /\ tpIdle' = idle
               /\ wleft' = [wleft EXCEPT ![w] = IF wpc[w] = "start" THEN JobsPerThread_ ELSE @]
               /\ tpLock' = JobNone
               /\ UNCHANGED <<firstPtr, tpThreads, qRef, qRunning, jobState, wjob>>
          ELSE LET j == firstPtr[i]
               IN /\ firstPtr' = SubSeq(firstPtr, 1, i - 1) \o SubSeq(firstPtr, i + 1, Len(firstPtr))
                  /\ wpc' = [wpc EXCEPT ![w] = "run"] /\ wjob' = [wjob EXCEPT ![w] = j]
                  /\ wleft' = [wleft EXCEPT ![w] = IF wpc[w] = "start" THEN JobsPerThread_ ELSE @]
                  /\ tpIdle' = idle - 1
                  /\ jobState' = [jobState EXCEPT ![j] = "running"]
                  /\ qRef' = [qRef EXCEPT ![jobQueue[j]] = @ + 1]
                  /\ qRunning' = [qRunning EXCEPT ![jobQueue[j]] = @ + 1]
                  /\ tpLock' = JobNone
                  /\ UNCHANGED tpThreads
    /\ UNCHANGED <<qLock, jobQs, qDelete, jobsOf, jobQueue, jobDetached, jobWaited, jobCancel, jobFreed,
                   tpMax, tpStop, jobCall>>

\* The wait ends by its timeout, and the thread exits without another look.
JobIdleTimeout(w) ==
    /\ IdleTimeout /\ wpc[w] = "wait"
    /\ wpc' = [wpc EXCEPT ![w] = "timedout"]
    /\ UNCHANGED <<jobLocks, jobQVars, jobData, jobPool, wjob, wleft, jobCall>>

JobIdleExit(w) ==
    /\ wpc[w] = "timedout" /\ HasTp(w)
    /\ ThreadExits(w, tpIdle - 1)
    /\ UNCHANGED <<qLock, jobQs, qDelete, jobsOf, jobQueue, jobDetached, jobWaited, jobCancel, jobFreed,
                   tpMax, tpStop, jobCall>>

\* Variant of JobDone for mutation: a finished job's waiters are not woken.
JobDoneSilent(w) ==
    LET j == wjob[w]
        q == jobQueue[j]
    IN /\ wpc[w] = "run" /\ HasTp(w) /\ QFree(q)
       /\ qRunning' = [qRunning EXCEPT ![q] = @ - 1] /\ qRef' = [qRef EXCEPT ![q] = @ - 1]
       /\ jobState' = [jobState EXCEPT ![j] = "done"]
       /\ jobsOf' = [jobsOf EXCEPT ![q] = IF j \in jobDetached THEN @ \ {j} ELSE @]
       /\ jobFreed' = IF j \in jobDetached THEN jobFreed \cup {j} ELSE jobFreed
       /\ IF Deletable(q, qRef'[q], jobsOf'[q], qDelete)
          THEN DeleteQueue(q) ELSE UNCHANGED <<jobQs, qDelete, tpMax>>
       /\ wjob' = [wjob EXCEPT ![w] = JobNone]
       /\ wleft' = [wleft EXCEPT ![w] = IF JobsPerThread_ = 0 THEN 0 ELSE @ - 1]
       /\ wpc' = [wpc EXCEPT ![w] = IF JobsPerThread_ # 0 /\ wleft'[w] <= 0 THEN "over" ELSE "again"]
       /\ tpLock' = w
       /\ UNCHANGED <<qLock, jobQueue, jobDetached, jobWaited, jobCancel, firstPtr, tpThreads, tpIdle, tpStop,
                      jobCall>>

\* The script is over; a detached job is removed here.  The thread keeps
\* tp.queuelock for its next look.
JobDone(w) ==
    LET j == wjob[w]
        q == jobQueue[j]
    IN /\ wpc[w] = "run" /\ HasTp(w) /\ QFree(q)
       /\ qRunning' = [qRunning EXCEPT ![q] = @ - 1] /\ qRef' = [qRef EXCEPT ![q] = @ - 1]
       /\ jobState' = [jobState EXCEPT ![j] = "done"]
       /\ jobsOf' = [jobsOf EXCEPT ![q] = IF j \in jobDetached THEN @ \ {j} ELSE @]
       /\ jobFreed' = IF j \in jobDetached THEN jobFreed \cup {j} ELSE jobFreed
       /\ cpc' = QBroadcast(q)
       /\ IF Deletable(q, qRef'[q], jobsOf'[q], qDelete)
          THEN DeleteQueue(q) ELSE UNCHANGED <<jobQs, qDelete, tpMax>>
       /\ wjob' = [wjob EXCEPT ![w] = JobNone]
       /\ wleft' = [wleft EXCEPT ![w] = IF JobsPerThread_ = 0 THEN 0 ELSE @ - 1]
       /\ wpc' = [wpc EXCEPT ![w] = IF JobsPerThread_ # 0 /\ wleft'[w] <= 0 THEN "over" ELSE "again"]
       /\ tpLock' = w
       /\ UNCHANGED <<qLock, jobQueue, jobDetached, jobWaited, jobCancel, firstPtr, tpThreads, tpIdle, tpStop,
                      cq, cj>>

\* A thread that has served its number of jobs exits.
JobOver(w) ==
    /\ wpc[w] = "over"
    /\ ThreadExits(w, tpIdle)
    /\ UNCHANGED <<qLock, jobQs, qDelete, jobsOf, jobQueue, jobDetached, jobWaited, jobCancel, jobFreed,
                   tpMax, tpStop, jobCall>>

JobThread(w) == JobLook(w) \/ JobIdleExit(w) \/ JobDone(w) \/ JobOver(w)

JobCallerWakes(c) == ReleaseDelete(c) \/ JobWaitWakes(c) \/ JobWaitAnyEnds(c, FALSE)

JobNext ==
    \/ \E p \in JobClients \cup JobThreads : TakeTp(p)
    \/ \E w \in JobThreads : JobThread(w) \/ JobIdleTimeout(w)
    \/ \E c \in JobClients :
          \/ JobCallerWakes(c) \/ JobWaitTimeout(c) \/ JobWaitAnyEnds(c, TRUE)
          \/ \E q \in JobQueues :
                \/ JobCreate(c, q) \/ JobDelete(c, q) \/ JobExists(c, q) \/ JobWaitAny(c, q)
                \/ \E j \in Jobs : \/ \E detached, head \in BOOLEAN : JobAdd(c, q, j, detached, head)
                                   \/ JobWait(c, q, j) \/ JobCancel(c, q, j)
    \/ JobStop

JobFair ==
    /\ \A w \in JobThreads : SF_jobVars(JobThread(w))
    /\ \A c \in JobClients : SF_jobVars(JobCallerWakes(c))

JobSpec == JobInit /\ [][JobNext]_jobVars /\ JobFair

-----------------------------------------------------------------------------
(* Properties.                                                              *)

\* What the lock rule of the file's head is for ("to avoid deadlock, when
\* locking both the queuelock and queue's lock lock the queuelock first"): no
\* caller waits for tp.queuelock with the lock of a queue that the holder of
\* tp.queuelock is waiting for.
NoLockCycle ==
    ~ \E c, d \in JobClients : cpc[c] = "deleting" /\ tpLock = d /\ cpc[d] = "idle" /\ cq[d] = cq[c]

\* "Only when a queue is empty and its reference count is zero can it be
\* deleted": every queue with a job, a waiter or a running thread exists, and
\* the thread pool never meets a job whose queue is gone (a fatal error).
JobQueueInUse ==
    /\ \A q \in JobQueues : jobsOf[q] # {} \/ qRef[q] > 0 => q \in jobQs
    /\ \A i \in DOMAIN firstPtr : firstPtr[i] \in jobsOf[jobQueue[firstPtr[i]]]
    /\ \A q \in JobQueues : qRef[q] = Cardinality({w \in JobThreads : wjob[w] # JobNone /\ jobQueue[wjob[w]] = q})
                                      + Cardinality({c \in JobClients : cq[c] = q /\ cpc[c] \notin {"idle", "deleting"}})

\* FreeJob: a freed job is in no table and no list, and in no thread's hands.
JobNoDangling ==
    /\ \A q \in JobQueues : jobsOf[q] \cap jobFreed = {}
    /\ \A i \in DOMAIN firstPtr : firstPtr[i] \notin jobFreed
    /\ \A w \in JobThreads : wjob[w] \notin jobFreed
    /\ \A c \in JobClients : cj[c] \notin jobFreed

\* A queue runs at most maxThreads jobs, and the pool has at most as many
\* threads as it ever could; tp.nidle counts the threads that wait.
JobLimits ==
    /\ \A q \in JobQueues :
          Cardinality({j \in Jobs : jobState[j] = "running" /\ jobQueue[j] = q}) <= QueueMax[q]
    /\ tpThreads = Cardinality({w \in JobThreads : wpc[w] # "none"})
    /\ tpIdle = Cardinality({w \in JobThreads : wpc[w] \in {"wait", "woken", "timedout"}})

\* Queues in use are not deleted, jobs are not used after they are freed, and
\* limits are kept.
QueueInv == JobQueueInUse /\ JobNoDangling /\ JobLimits

\* A caller in ns_job wait for a job that is done gets its result.
JobWaitReturns ==
    \A c \in JobClients : (cj[c] # JobNone /\ jobState[cj[c]] = "done") ~> (cj[c] = JobNone)

\* A job that was queued runs, unless the server stops.
JobRuns == \A j \in Jobs : jobState[j] = "scheduled" ~> (jobState[j] # "scheduled" \/ tpStop)

=============================================================================
