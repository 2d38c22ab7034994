----------------------------- MODULE MCServices -----------------------------
(***************************************************************************)
(* What the threads of the server share, side by side: the scheduler, the  *)
(* job queues, a cache, a database pool, the process and its watchdog,     *)
(* locks and threads, the logs, and the data of Tcl scripts.               *)
(* They share no state, so a behaviour exercises one of them, the part     *)
(* chosen in the initial state.                                            *)
(***************************************************************************)
EXTENDS
    Sched, JobQueue, TclCache, DbPool, Process, RWLock, Threads, Logs, TclData, TclInterps, TLC

CONSTANT ServicesParts
VARIABLE part

servicesVars ==
  <<part,
    schedVars, heap, jobVars, cacheVars, dbVars, wdVars, binderVars, lfVars, rwVars, critVars,
    libVars, synchVars, logVars, rollVars, accessVars, setVars, nsvVars, tclVars>>

ServicesInit ==
    /\ part \in ServicesParts
    /\ SchedInit
    /\ OrderInit
    /\ JobInit
    /\ CacheInit
    /\ DbInit
    /\ WdInit
    /\ BinderInit
    /\ LifeInit /\ (part # "lifecycle" => mode = "f" /\ rootStart)
    /\ RwInit
    /\ CritInit
    /\ LibInit
    /\ SynchInit
    /\ LogInit
    /\ RollInit
    /\ AccessInit
    /\ SetInit
    /\ NsvInit
    /\ TclInit

OnlySched ==
    part = "sched" /\ UNCHANGED
      <<part, heap, jobVars, cacheVars, dbVars, wdVars, binderVars, lfVars, rwVars, critVars,
        libVars, synchVars, logVars, rollVars, accessVars, setVars, nsvVars, tclVars>>

OnlyOrder ==
    part = "schedorder" /\ UNCHANGED
      <<part, schedVars, jobVars, cacheVars, dbVars, wdVars, binderVars, lfVars, rwVars, critVars,
        libVars, synchVars, logVars, rollVars, accessVars, setVars, nsvVars, tclVars>>

OnlyJob ==
    part = "job" /\ UNCHANGED
      <<part, schedVars, heap, cacheVars, dbVars, wdVars, binderVars, lfVars, rwVars, critVars,
        libVars, synchVars, logVars, rollVars, accessVars, setVars, nsvVars, tclVars>>

OnlyCache ==
    part = "cache" /\ UNCHANGED
      <<part, schedVars, heap, jobVars, dbVars, wdVars, binderVars, lfVars, rwVars, critVars,
        libVars, synchVars, logVars, rollVars, accessVars, setVars, nsvVars, tclVars>>

OnlyDb ==
    part = "db" /\ UNCHANGED
      <<part, schedVars, heap, jobVars, cacheVars, wdVars, binderVars, lfVars, rwVars, critVars,
        libVars, synchVars, logVars, rollVars, accessVars, setVars, nsvVars, tclVars>>

OnlyWatchdog ==
    part = "watchdog" /\ UNCHANGED
      <<part, schedVars, heap, jobVars, cacheVars, dbVars, binderVars, lfVars, rwVars, critVars,
        libVars, synchVars, logVars, rollVars, accessVars, setVars, nsvVars, tclVars>>

OnlyBinder ==
    part = "binder" /\ UNCHANGED
      <<part, schedVars, heap, jobVars, cacheVars, dbVars, wdVars, lfVars, rwVars, critVars,
        libVars, synchVars, logVars, rollVars, accessVars, setVars, nsvVars, tclVars>>

OnlyLife ==
    part = "lifecycle" /\ UNCHANGED
      <<part, schedVars, heap, jobVars, cacheVars, dbVars, wdVars, binderVars, rwVars, critVars,
        libVars, synchVars, logVars, rollVars, accessVars, setVars, nsvVars, tclVars>>

OnlyRWLock ==
    part = "rwlock" /\ UNCHANGED
      <<part, schedVars, heap, jobVars, cacheVars, dbVars, wdVars, binderVars, lfVars, critVars,
        libVars, synchVars, logVars, rollVars, accessVars, setVars, nsvVars, tclVars>>

OnlyCritSec ==
    part = "critsec" /\ UNCHANGED
      <<part, schedVars, heap, jobVars, cacheVars, dbVars, wdVars, binderVars, lfVars, rwVars,
        libVars, synchVars, logVars, rollVars, accessVars, setVars, nsvVars, tclVars>>

OnlyThreadLib ==
    part = "threadlib" /\ UNCHANGED
      <<part, schedVars, heap, jobVars, cacheVars, dbVars, wdVars, binderVars, lfVars, rwVars,
        critVars, synchVars, logVars, rollVars, accessVars, setVars, nsvVars, tclVars>>

OnlySy ==
    part = "tclsynch" /\ UNCHANGED
      <<part, schedVars, heap, jobVars, cacheVars, dbVars, wdVars, binderVars, lfVars, rwVars,
        critVars, libVars, logVars, rollVars, accessVars, setVars, nsvVars, tclVars>>

OnlyServerLog ==
    part = "serverlog" /\ UNCHANGED
      <<part, schedVars, heap, jobVars, cacheVars, dbVars, wdVars, binderVars, lfVars, rwVars,
        critVars, libVars, synchVars, rollVars, accessVars, setVars, nsvVars, tclVars>>

OnlyRollFile ==
    part = "rollfile" /\ UNCHANGED
      <<part, schedVars, heap, jobVars, cacheVars, dbVars, wdVars, binderVars, lfVars, rwVars,
        critVars, libVars, synchVars, logVars, accessVars, setVars, nsvVars, tclVars>>

OnlyAccessLog ==
    part = "accesslog" /\ UNCHANGED
      <<part, schedVars, heap, jobVars, cacheVars, dbVars, wdVars, binderVars, lfVars, rwVars,
        critVars, libVars, synchVars, logVars, rollVars, setVars, nsvVars, tclVars>>

OnlyNsSet ==
    part = "nsset" /\ UNCHANGED
      <<part, schedVars, heap, jobVars, cacheVars, dbVars, wdVars, binderVars, lfVars, rwVars,
        critVars, libVars, synchVars, logVars, rollVars, accessVars, nsvVars, tclVars>>

OnlyNsv ==
    part = "nsv" /\ UNCHANGED
      <<part, schedVars, heap, jobVars, cacheVars, dbVars, wdVars, binderVars, lfVars, rwVars,
        critVars, libVars, synchVars, logVars, rollVars, accessVars, setVars, tclVars>>

OnlyTclInterps ==
    part = "tclinterps" /\ UNCHANGED
      <<part, schedVars, heap, jobVars, cacheVars, dbVars, wdVars, binderVars, lfVars, rwVars,
        critVars, libVars, synchVars, logVars, rollVars, accessVars, setVars, nsvVars>>

ServicesNext ==
    \/ OnlySched /\ SchedNext
    \/ OnlyOrder /\ OrderNext
    \/ OnlyJob /\ JobNext
    \/ OnlyCache /\ CacheNext
    \/ OnlyDb /\ DbNext
    \/ OnlyWatchdog /\ WdNext
    \/ OnlyBinder /\ BinderNext
    \/ OnlyLife /\ LifeNext
    \/ OnlyRWLock /\ RwNext
    \/ OnlyCritSec /\ CritNext
    \/ OnlyThreadLib /\ LibNext
    \/ OnlySy /\ SynchNext
    \/ OnlyServerLog /\ LogNext
    \/ OnlyRollFile /\ RollNext
    \/ OnlyAccessLog /\ AccessNext
    \/ OnlyNsSet /\ SetNext
    \/ OnlyNsv /\ NsvNext
    \/ OnlyTclInterps /\ TclNext

ServicesSpec == ServicesInit /\ [][ServicesNext]_servicesVars

\* The fairness that each component states, for the part that runs.  One strong
\* fairness condition per process: the i-th process of the part.
JobThreadsInOrder == SetToSeq(JobThreads)
DbThreadsInOrder == SetToSeq(DbThreads)

ServicesProcess(i) ==
    \/ part = "sched" /\ UNCHANGED <<jobVars, dbVars>> /\ CASE i = 1 -> SchedThread
          [] i = 2 -> \E t \in EventThreads : EventThread(t)
          [] OTHER -> FALSE
    \/ part = "job" /\ UNCHANGED <<schedVars, dbVars>> /\ CASE i = 1 -> \E c \in JobClients : JobCallerWakes(c)
          [] i = 2 -> JobThread(JobThreadsInOrder[1])
          [] i = 3 -> JobThread(JobThreadsInOrder[2])
          [] OTHER -> FALSE
    \/ part = "db" /\ UNCHANGED <<schedVars, jobVars>> /\ CASE i = 1 -> dbList # <<>> /\ DbGetWakes(DbThreadsInOrder[1])
          [] i = 2 -> dbList # <<>> /\ DbGetWakes(DbThreadsInOrder[2])
          [] OTHER -> FALSE

ServicesLiveSpec ==
    /\ ServicesSpec
    /\ \A i \in 1..3 : SF_<<schedVars, jobVars, dbVars>>(ServicesProcess(i))
    /\ \A t \in DbThreads : WF_dbVars(part = "db" /\ DbThreadRuns(t))
    /\ \A t \in DbThreads : WF_dbVars(part = "db" /\ DbPut(t))
    /\ \A k \in DbCheckers : WF_dbVars(part = "db" /\ DbCheckerRuns(k))
    /\ WF_wdVars(part = "watchdog" /\ WdStep)
    /\ WF_wdVars(part = "watchdog" /\ ToldServerEnds)
    /\ \A t \in RwThreads : WF_rwVars(part = "rwlock" /\ RwStep(t))
    /\ WF_logVars(part = "serverlog" /\ UnlinkFilter)
    /\ \A t \in LogThreads : WF_logVars(part = "serverlog" /\ FlushStep(t))

\* The kinds of events: every hour or so, once, daily in a thread, once in a thread.
MCEventKinds ==
    {[once |-> FALSE, thread |-> FALSE, period |-> 0, interval |-> 1],
     [once |-> TRUE, thread |-> FALSE, period |-> 0, interval |-> 0],
     [once |-> FALSE, thread |-> TRUE, period |-> 2, interval |-> 1],
     [once |-> TRUE, thread |-> TRUE, period |-> 0, interval |-> 1]}

MCFewEventKinds ==
    {[once |-> FALSE, thread |-> FALSE, period |-> 0, interval |-> 1],
     [once |-> FALSE, thread |-> TRUE, period |-> 2, interval |-> 1]}

MCQueueMax == [q \in JobQueues |-> 1]

McSemaPosts == <<1, 2, 1>>

McLower(k) == IF k = "A" THEN "a" ELSE k
\* The separator of ns_set split is "A".
McPrefix(k) == IF k = "A" THEN "" ELSE NoName
McRest(k) == IF k = "A" THEN "" ELSE k

McNsvNames == {<<97>>, <<98>>}
McNsvOps == {"unset", "incr", "array reset", "array get"}
McNsvNames1 == {<<97>>}

\* The scheduler: an event is in one place and freed by nobody else, the
\* thread counters are exact, and the heap fires the earliest event first.
SchedInv ==
    /\ part = "sched" => SchedNoDangling /\ SchedOnePlace /\ SchedCounts
    /\ part = "schedorder" => RootIsEarliest

\* Caches and database pools: sizes are exact, nothing dangles, a handle has
\* one owner, and every waiting thread has a signal coming.
StoreInv ==
    /\ part = "cache" => CacheSizeExact /\ CacheNoDangling
    /\ part = "db" =>
          DbHandleOnce /\ DbNoMissedSignal /\ DbBounceSticks /\ DbConnectedFirst

\* The process: the watchdog forks one server at a time and backs off, every
\* bound socket goes to whom it was bound for, and start and shutdown
\* procedures run once, in their order.
ProcessInv ==
    /\ part = "watchdog" => WatchdogInv
    /\ part = "binder" => BinderInv
    /\ part = "lifecycle" => LifecycleInv

\* The logs: a message is written once, rolling never deletes a file that
\* should be kept, and access lines are not mixed or repeated.
LogInv ==
    /\ part = "serverlog" => LogOnce
    /\ part = "rollfile" => RollInv
    /\ part = "accesslog" => AccessInv

\* Sets, shared arrays and interpreters: operations on fields agree with what
\* they promise, names are true, and an interpreter has one user.
TclDataInv ==
    /\ part = "nsset" => SetInv
    /\ part = "nsv" => NamesTruthful
    /\ part = "tclinterps" => InterpInv

\* An event that is scheduled once is not queued again after it ran, and a
\* name that a Tcl synchronization command makes up is not in use.
NothingTwice ==
    /\ OnceOnly
    /\ CreatedFresh

\* What holds as long as the races that the modules name are left out: a
\* cache entry under construction
\* belongs to one thread, log filters are not called once removed, access
\* lines are complete, and nothing shared is freed in use.
ServiceCalmInv ==
    /\ part = "cache" => CacheUpdateOwned /\ CacheWaitersCovered
    /\ part = "serverlog" => LogCalm
    /\ part = "accesslog" => AccessComplete
    /\ part = "nsv" => NsvNotFreedInUse
    /\ part = "tclinterps" => AtCloseOwn

\* Due events are fired, jobs run and return to their waiters, database handles and locks reach the threads that wait, the
\* watchdog stops, and each access to a shared array is one step.
ServicesLive ==
    /\ DueLeavesHeap /\ DispatchedRuns
    /\ JobRuns /\ JobWaitReturns
    /\ DbGetterServed
    /\ WatchdogStops
    /\ RwServed
    /\ LogRemoverReturns
    /\ NsvAtomic
=============================================================================
