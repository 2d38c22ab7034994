-------------------------------- MODULE MCIo --------------------------------
(***************************************************************************)
(* What moves bytes, side by side: the writer threads, the asynchronous    *)
(* file writer, the proxies of nsproxy with their slave processes and      *)
(* reaper thread, the socket callbacks, the driver, the task queue, HTTP   *)
(* client requests, CGI, the control port and the driver for PostgreSQL.   *)
(* They share no state, so a behaviour exercises one of them, the part     *)
(* chosen in the initial state.                                            *)
(***************************************************************************)
EXTENDS
    Background, ProxyPool, ProxySlave, ProxyReaper, SockDriver, TaskQueue, HttpTask,
    Cgi, Nscp, Postgres

CONSTANT IoParts
VARIABLE part

ioVars ==
  <<part,
    writerVars, asyncVars, proxyVars, handleVars, reaperVars, wireVars, sockcbVars, vars, tkVars,
    htVars, cgiVars, cgiTextVars, nscpVars, pgVars, dtVars>>

IoInit ==
    /\ part \in IoParts
    /\ WriterInit
    /\ AsyncInit
    /\ PxInit
    /\ HInit
    /\ ReaperInit
    /\ WireInit /\ (part # "wire" => wlen = 0 /\ rspace = 1)
    /\ ScInit
    /\ Init
    /\ TaskInit
    /\ HtInit
    /\ CgiRunInit
    /\ CgiTextInit
    /\ CpInit
    /\ PgInit
    /\ DtInit

OnlyWriter ==
    part = "writer" /\ UNCHANGED
      <<part, asyncVars, proxyVars, handleVars, reaperVars, wireVars, sockcbVars, vars, tkVars,
        htVars, cgiVars, cgiTextVars, nscpVars, pgVars, dtVars>>

OnlyAsync ==
    part = "async" /\ UNCHANGED
      <<part, writerVars, proxyVars, handleVars, reaperVars, wireVars, sockcbVars, vars, tkVars,
        htVars, cgiVars, cgiTextVars, nscpVars, pgVars, dtVars>>

OnlyProxies ==
    part = "proxies" /\ UNCHANGED
      <<part, writerVars, asyncVars, handleVars, reaperVars, wireVars, sockcbVars, vars, tkVars,
        htVars, cgiVars, cgiTextVars, nscpVars, pgVars, dtVars>>

OnlySlave ==
    part = "slave" /\ UNCHANGED
      <<part, writerVars, asyncVars, proxyVars, reaperVars, wireVars, sockcbVars, vars, tkVars,
        htVars, cgiVars, cgiTextVars, nscpVars, pgVars, dtVars>>

OnlyReaper ==
    part = "reaper" /\ UNCHANGED
      <<part, writerVars, asyncVars, proxyVars, handleVars, wireVars, sockcbVars, vars, tkVars,
        htVars, cgiVars, cgiTextVars, nscpVars, pgVars, dtVars>>

OnlyWire ==
    part = "wire" /\ UNCHANGED
      <<part, writerVars, asyncVars, proxyVars, handleVars, reaperVars, sockcbVars, vars, tkVars,
        htVars, cgiVars, cgiTextVars, nscpVars, pgVars, dtVars>>

OnlySockCb ==
    part = "sockcb" /\ UNCHANGED
      <<part, writerVars, asyncVars, proxyVars, handleVars, reaperVars, wireVars, vars, tkVars,
        htVars, cgiVars, cgiTextVars, nscpVars, pgVars, dtVars>>

OnlySock ==
    part = "sock" /\ UNCHANGED
      <<part, writerVars, asyncVars, proxyVars, handleVars, reaperVars, wireVars, sockcbVars,
        tkVars, htVars, cgiVars, cgiTextVars, nscpVars, pgVars, dtVars>>

OnlyTask ==
    part = "task" /\ UNCHANGED
      <<part, writerVars, asyncVars, proxyVars, handleVars, reaperVars, wireVars, sockcbVars, vars,
        htVars, cgiVars, cgiTextVars, nscpVars, pgVars, dtVars>>

OnlyHt ==
    part = "httptask" /\ UNCHANGED
      <<part, writerVars, asyncVars, proxyVars, handleVars, reaperVars, wireVars, sockcbVars, vars,
        tkVars, cgiVars, cgiTextVars, nscpVars, pgVars, dtVars>>

OnlyCg ==
    part = "cgi" /\ UNCHANGED
      <<part, writerVars, asyncVars, proxyVars, handleVars, reaperVars, wireVars, sockcbVars, vars,
        tkVars, htVars, cgiTextVars, nscpVars, pgVars, dtVars>>

OnlyCgT ==
    part = "cgitext" /\ UNCHANGED
      <<part, writerVars, asyncVars, proxyVars, handleVars, reaperVars, wireVars, sockcbVars, vars,
        tkVars, htVars, cgiVars, nscpVars, pgVars, dtVars>>

OnlyCp ==
    part = "nscp" /\ UNCHANGED
      <<part, writerVars, asyncVars, proxyVars, handleVars, reaperVars, wireVars, sockcbVars, vars,
        tkVars, htVars, cgiVars, cgiTextVars, pgVars, dtVars>>

OnlyPg ==
    part = "pghandle" /\ UNCHANGED
      <<part, writerVars, asyncVars, proxyVars, handleVars, reaperVars, wireVars, sockcbVars, vars,
        tkVars, htVars, cgiVars, cgiTextVars, nscpVars, dtVars>>

OnlyDbText ==
    part = "dbtext" /\ UNCHANGED
      <<part, writerVars, asyncVars, proxyVars, handleVars, reaperVars, wireVars, sockcbVars, vars,
        tkVars, htVars, cgiVars, cgiTextVars, nscpVars, pgVars>>

IoNext ==
    \/ OnlyWriter /\ WriterNext
    \/ OnlyAsync /\ AsyncNext
    \/ OnlyProxies /\ PxNext
    \/ OnlySlave /\ HNext
    \/ OnlyReaper /\ ReaperNext
    \/ OnlyWire /\ WireNext
    \/ OnlySockCb /\ ScNext
    \/ OnlySock /\ Next
    \/ OnlyTask /\ TaskNext
    \/ OnlyHt /\ HtNext
    \/ OnlyCg /\ CgiRunNext
    \/ OnlyCgT /\ CgiTextNext
    \/ OnlyCp /\ CpNext
    \/ OnlyPg /\ PgNext
    \/ OnlyDbText /\ DtNext

IoSpec == IoInit /\ [][IoNext]_ioVars

\* The fairness that each component states, for the part that runs.  One strong
\* fairness condition per process: the i-th process of the part.
PxThreadsInOrder == SetToSeq(PxThreads)
ReapThreadsInOrder == SetToSeq(ReapThreads)
CgiThreadsInOrder == SetToSeq(CgiThreads)

IoProcess(i) ==
    \/ part = "proxies" /\ UNCHANGED <<reaperVars, tkVars, cgiVars>> /\ CASE i = 1 -> ~pxwaiting /\ PxGateWakes(PxThreadsInOrder[1])
          [] i = 2 -> ~pxwaiting /\ PxGateWakes(PxThreadsInOrder[2])
          [] OTHER -> FALSE
    \/ part = "reaper" /\ UNCHANGED <<proxyVars, tkVars, cgiVars>> /\ CASE i = 1 -> ShutdownRuns
          [] i = 2 -> ReapRuns(ReapThreadsInOrder[1])
          [] OTHER -> FALSE
    \/ part = "task" /\ UNCHANGED <<proxyVars, reaperVars, cgiVars>> /\ CASE i = 1 -> \E t \in Tasks : WaitDone(t)
          [] OTHER -> FALSE
    \/ part = "cgi" /\ UNCHANGED <<proxyVars, reaperVars, tkVars>> /\ CASE i = 1 -> CgiWaitEnds(CgiThreadsInOrder[1])
          [] i = 2 -> CgiWaitEnds(CgiThreadsInOrder[2])
          [] OTHER -> FALSE

IoLiveSpec ==
    /\ IoSpec
    /\ \A i \in 1..2 : SF_<<proxyVars, reaperVars, tkVars, cgiVars>>(IoProcess(i))
    /\ WF_writerVars(part = "writer" /\ WriterThread)
    /\ WF_asyncVars(part = "async" /\ AsyncThread)
    /\ \A t \in PxThreads : WF_proxyVars(part = "proxies" /\ PxThreadRuns(t))
    /\ WF_handleVars(part = "slave" /\ HThread)
    /\ WF_handleVars(part = "slave" /\ HAnswer)
    /\ WF_reaperVars(part = "reaper" /\ ReaperThread)
    /\ WF_reaperVars(part = "reaper" /\ rexpired # {} /\ ReaperTimeout)
    /\ \A s \in Slaves : WF_reaperVars(part = "reaper" /\ ProcExits(s))
    /\ \A s \in Slaves : WF_reaperVars(part = "reaper" /\ SlaveExpires(s))
    /\ WF_sockcbVars(part = "sockcb" /\ SockThread)
    /\ WF_sockcbVars(part = "sockcb" /\ CallbackTrigger)
    /\ WF_sockcbVars(part = "sockcb" /\ SockCreate)
    /\ WF_vars(part = "sock" /\ DriverThread)
    /\ \A p \in Spoolers : WF_vars(part = "sock" /\ SpoolerThread(p))
    /\ \A s \in Socks : WF_vars(part = "sock" /\ NsSockClose(s))
    /\ WF_vars(part = "sock" /\ SockTrigger)
    /\ WF_tkVars(part = "task" /\ TaskThread)
    /\ WF_tkVars(part = "task" /\ TriggerQueue)
    /\ WF_htVars(part = "httptask" /\ HttpTaskThread)
    /\ WF_htVars(part = "httptask" /\ Interpreter)
    /\ \A t \in CgiThreads : WF_cgiVars(part = "cgi" /\ CgiThreadSteps(t))
    /\ \A t \in CgiThreads : WF_cgiVars(part = "cgi" /\ CgiScriptEnds(t))

McLimits == {-1, 1, 2}
McReplies == [good : BOOLEAN, clen : {FALSE}, gz : BOOLEAN, n : {1}]
McRepliesCalm == [good : {TRUE}, clen : BOOLEAN, gz : BOOLEAN, n : {0, 2}]

McCpUsers == [u |-> "pw"]
McCpWords == {"u", "pw", "{", "}"}

\* What nsproxy keeps in every interleaving: a proxy is in one place and is
\* counted there, answers belong to the script that was sent, the reaper is
\* alone and its close list exact, and messages arrive whole and in order.
ProxyInv ==
    /\ part = "proxies" => PxOnePlace /\ PxCounts /\ PxGate
    /\ part = "slave" => HResultMatches /\ HFreeClean /\ HRunList /\ HRunsBounded
    /\ part = "reaper" => OneReaper /\ CloseListExact
    /\ part = "wire" => WireInOrder /\ WireWhole

\* The task queue, HTTP tasks, CGI and the control port: no signal to a
\* task is overlooked, its answer is stored once and by a live task, CGI slots
\* and descriptors are given back, headers and bodies of scripts come through,
\* and only users who logged in run commands.
ClientInv ==
    /\ part = "task" => TaskSignalsSeen /\ TaskListsLive /\ TaskCallbacksOnce
    /\ part = "httptask" => HttpInv
    /\ part = "cgi" => CgiRunInv
    /\ part = "cgitext" => CgiTextInv
    /\ part = "nscp" => NscpInv

\* The PostgreSQL driver: a statement is sent again only when that is safe,
\* rows come once and in order, and every text that is quoted, escaped or
\* split is read back as it was.
DatabaseInv ==
    /\ part = "pghandle" => PgInv
    /\ part = "dbtext" => DbTextInv

\* What holds as long as the races that the modules name are left out: data
\* goes out complete and in order, nothing that is in use is freed, every
\* waiting proxy getter has a wake-up coming, an HTTP task returns the whole
\* answer, and a database handle knows whether it is in a transaction.
CalmInv ==
    /\ part = "writer" =>
          WriterTriggerComing /\ WriterDataInOrder /\ WriterNotFreedInUse
    /\ part = "async" => AsyncNotLost
    /\ part = "sockcb" => ScCallbackLive /\ ScAllClosed
    /\ part = "proxies" => PxNoMissedSignal /\ PxTotal
    /\ part = "slave" => HRecvHasSlave
    /\ part = "httptask" => HttpCalm
    /\ part = "pghandle" => PgCalm

\* Streams finish, registered sockets are served, cancelled tasks, HTTP and
\* CGI requests end, and the threads stop when they are told to.
BackgroundLive ==
    /\ WriterFinishes /\ WriterStops
    /\ ScStops /\ ScServed
    /\ SockLive
    /\ CancelReturns /\ TaskShutdownWakes
    /\ HttpReturns
    /\ CgiDone

\* Proxy getters are served, commands end, closed slaves are collected and
\* the reaper stops.
ProxyLive ==
    /\ PxServed
    /\ HCommandEnds
    /\ ReapReturns /\ ClosedCollected /\ ReaperStops
=============================================================================
