------------------------------ MODULE Process -------------------------------
(***************************************************************************)
(* The process of the server: the watchdog that restarts it, the helper    *)
(* that binds its ports, and its life from the options to the exit.        *)
(***************************************************************************)
EXTENDS Integers, Sequences, FiniteSets

-----------------------------------------------------------------------------
(***************************************************************************)
(* The watchdog process of nsd -w (nsd/watchdog.c): it forks the server,   *)
(* waits for it, and forks it again, later each time, unless it ended      *)
(* cleanly.  SIGTERM and SIGALRM interrupt the loop at any point.          *)
(***************************************************************************)

CONSTANTS
    MaxRestarts,      \* MAX_NUM_RESTARTS
    MaxRestartWait,   \* MAX_RESTART_SECONDS
    SignalsInSleep    \* do SIGTERM and SIGALRM also come between two servers

VARIABLES
    wdpc,         \* NsForkWatchedProcess: loop sleep fork arm wait, exited or killed
    restartWait, numRestarts, watchdogExit, processDied,
    wdHandler,    \* is WatchdogSIGTERMHandler installed
    wdServer,     \* the forked process: none, up, told (to stop), ok, failed
    wdTerm        \* has a SIGTERM been sent

wdVars == <<wdpc, restartWait, numRestarts, watchdogExit, processDied, wdHandler, wdServer, wdTerm>>

WdInit ==
    /\ wdpc = "loop" /\ restartWait = 0 /\ numRestarts = 0
    /\ watchdogExit = FALSE /\ processDied = FALSE /\ wdHandler = FALSE
    /\ wdServer = "none" /\ wdTerm = FALSE

\* The loop condition, and the pause before a restart.
WdLoop ==
    /\ wdpc = "loop"
    /\ wdpc' = IF watchdogExit THEN "exited" ELSE IF restartWait # 0 THEN "sleep" ELSE "fork"
    /\ UNCHANGED <<restartWait, numRestarts, watchdogExit, processDied, wdHandler, wdServer, wdTerm>>

WdSleep ==
    /\ wdpc = "sleep"
    /\ wdpc' = "fork"
    /\ UNCHANGED <<restartWait, numRestarts, watchdogExit, processDied, wdHandler, wdServer, wdTerm>>

\* Both signals get their default action back before the fork.
WdFork ==
    /\ wdpc = "fork"
    /\ wdHandler' = FALSE /\ wdServer' = "up" /\ wdpc' = "arm"
    /\ UNCHANGED <<restartWait, numRestarts, watchdogExit, processDied, wdTerm>>

WdArm ==
    /\ wdpc = "arm"
    /\ wdHandler' = TRUE /\ wdpc' = "wait"
    /\ UNCHANGED <<restartWait, numRestarts, watchdogExit, processDied, wdServer, wdTerm>>

BackOff(w) == IF 2 * w > MaxRestartWait THEN MaxRestartWait ELSE IF w = 0 THEN 1 ELSE 2 * w

\* Mutant: the wait does not start over after a server that worked.
RestartKeepsWait(worked) ==
    /\ numRestarts' = (IF worked THEN 0 ELSE numRestarts) + 1
    /\ restartWait' = BackOff(restartWait)

\* The server died: start over if it had worked for MIN_WORK_SECONDS.
Restart(worked) ==
    /\ numRestarts' = (IF worked THEN 0 ELSE numRestarts) + 1
    /\ restartWait' = BackOff(IF worked THEN 0 ELSE restartWait)

\* WaitForServer returns when waitpid has reported the end of the server; a
\* wait that a signal interrupts is repeated.
WaitForServer(worked) ==
    /\ wdpc = "wait" /\ wdServer \in {"ok", "failed"}
    /\ IF wdServer = "ok" /\ ~processDied
       THEN wdpc' = "exited" /\ UNCHANGED <<restartWait, numRestarts>>
       ELSE IF (IF worked THEN 0 ELSE numRestarts) + 1 > MaxRestarts
       THEN /\ numRestarts' = (IF worked THEN 0 ELSE numRestarts) + 1
            /\ restartWait' = IF worked THEN 0 ELSE restartWait
            /\ wdpc' = "exited"
       ELSE Restart(worked) /\ wdpc' = "loop"
    /\ UNCHANGED <<watchdogExit, processDied, wdHandler, wdServer, wdTerm>>

BetweenServers == wdpc \in {"loop", "sleep", "fork"} /\ wdServer # "none"

\* Mutant: the signal is not passed on.
SigtermKept ==
    /\ ~wdTerm /\ wdTerm' = TRUE
    /\ wdHandler /\ (BetweenServers => SignalsInSleep)
    /\ watchdogExit' = TRUE
    /\ wdpc' = IF wdpc = "sleep" THEN "fork" ELSE wdpc
    /\ UNCHANGED <<wdServer, restartWait, numRestarts, processDied, wdHandler>>

\* WatchdogSIGTERMHandler passes the signal on and ends the loop; the signal
\* also ends the pause.
WatchdogSIGTERMHandler ==
    /\ ~wdTerm /\ wdTerm' = TRUE
    /\ wdHandler /\ (BetweenServers => SignalsInSleep)
    /\ wdServer' = IF wdServer = "up" THEN "told" ELSE wdServer
    /\ watchdogExit' = TRUE
    /\ wdpc' = IF wdpc = "sleep" THEN "fork" ELSE wdpc
    /\ UNCHANGED <<restartWait, numRestarts, processDied, wdHandler>>

\* SIGTERM with its default action.
WatchdogKilled ==
    /\ ~wdTerm /\ wdTerm' = TRUE
    /\ ~wdHandler /\ wdpc \notin {"exited", "killed"} /\ SignalsInSleep
    /\ wdpc' = "killed"
    /\ UNCHANGED <<restartWait, numRestarts, watchdogExit, processDied, wdHandler, wdServer>>

\* WatchdogSIGALRMHandler: no such process once waitpid has reported it.
WatchdogSIGALRMHandler ==
    /\ SignalsInSleep /\ wdHandler /\ BetweenServers /\ ~processDied
    /\ processDied' = TRUE
    /\ wdpc' = IF wdpc = "sleep" THEN "fork" ELSE wdpc
    /\ UNCHANGED <<restartWait, numRestarts, watchdogExit, wdHandler, wdServer, wdTerm>>

\* The server ends by itself, or because it was told to: Ns_Main returns 0
\* after SIGTERM.
ServerEnds(how) ==
    /\ wdServer \in {"up", "told"}
    /\ wdServer' = how
    /\ UNCHANGED <<wdpc, restartWait, numRestarts, watchdogExit, processDied, wdHandler, wdTerm>>

WdStep ==
    \/ WdLoop \/ WdSleep \/ WdFork \/ WdArm
    \/ \E worked \in BOOLEAN : WaitForServer(worked)

WdNext ==
    \/ WdStep
    \/ WatchdogSIGTERMHandler \/ WatchdogKilled \/ WatchdogSIGALRMHandler
    \/ \E how \in {"ok", "failed"} : ServerEnds(how)

ToldServerEnds == wdServer = "told" /\ \E how \in {"ok", "failed"} : ServerEnds(how)

WdSpec == WdInit /\ [][WdNext]_wdVars

WdFair == WF_wdVars(WdStep) /\ WF_wdVars(ToldServerEnds)

-----------------------------------------------------------------------------
\* The pause follows from the number of restarts in a row: none before the
\* first, then doubled up to MAX_RESTART_SECONDS; and a watchdog that returns
\* leaves no server behind (NsForkWatchedProcess, WaitForServer).
WatchdogInv ==
    /\ wdpc # "exited" =>
          \/ numRestarts = 0 /\ restartWait = 0
          \/ numRestarts \in 1..MaxRestarts
             /\ restartWait = IF 2^(numRestarts - 1) > MaxRestartWait
                              THEN MaxRestartWait ELSE 2^(numRestarts - 1)
    /\ wdpc = "exited" => wdServer \in {"ok", "failed"}

\* After SIGTERM the watchdog comes to its end, and the server with it.  It
\* does when the signal finds a server: one that comes between two servers
\* ends the pause only, and the next server runs without having been told.
WatchdogStops == watchdogExit ~> wdpc = "exited"

-----------------------------------------------------------------------------
(***************************************************************************)
(* Listening sockets during start-up (nsd/binder.c): sockets bound before  *)
(* the server gives up root, and the binder process that it leaves behind  *)
(* to bind what was not.  The binder is a fork: it has its own copy of the *)
(* table of prebound sockets, and keeps those sockets open.                *)
(***************************************************************************)

CONSTANTS
    Addrs,        \* addresses, Unix-domain paths and raw protocols
    RootAddrs,    \* those that only root can bind
    Listeners,    \* threads that open listening sockets
    SharedAddrs,  \* may two threads ask for one address
    NoAddr

VARIABLES
    bphase,      \* the main thread: prebind, start, closed, stopped
    prebound,    \* the server's table of prebound sockets
    forkbound,   \* the binder's copy
    holds,       \* who has a descriptor of the socket bound to an address
    lpc, lAddr, lGot,          \* a listener: idle, asked or done
    binderReq, binderResp,     \* the two socket pairs
    binderProc   \* none, running, exited

binderVars ==
    <<bphase, prebound, forkbound, holds, lpc, lAddr, lGot, binderReq, binderResp, binderProc>>

BinderInit ==
    /\ bphase = "prebind" /\ prebound = {} /\ forkbound = {}
    /\ holds = [a \in Addrs |-> {}]
    /\ lpc = [l \in Listeners |-> "idle"]
    /\ lAddr = [l \in Listeners |-> NoAddr] /\ lGot = [l \in Listeners |-> NoAddr]
    /\ binderReq = <<>> /\ binderResp = <<>> /\ binderProc = "none"

MayBind(a, root) == holds[a] = {} /\ (a \in RootAddrs => root)

\* One entry of -b or of the -B file: bound and entered, or reported.
PreBind(a) ==
    /\ bphase = "prebind"
    /\ a \notin prebound /\ MayBind(a, TRUE)
    /\ prebound' = prebound \cup {a}
    /\ holds' = [holds EXCEPT ![a] = {"table"}]
    /\ UNCHANGED <<bphase, forkbound, lpc, lAddr, lGot, binderReq, binderResp, binderProc>>

\* The fork duplicates the table and its descriptors; then the server calls
\* Ns_SetUser and starts its threads.
NsForkBinder ==
    /\ bphase = "prebind"
    /\ bphase' = "start" /\ binderProc' = "running"
    /\ forkbound' = prebound
    /\ holds' = [a \in Addrs |-> holds[a] \cup (IF a \in prebound THEN {"binder"} ELSE {})]
    /\ UNCHANGED <<prebound, lpc, lAddr, lGot, binderReq, binderResp>>

\* The server starts its drivers one after the other.
NobodyAsks == \A l \in Listeners : lpc[l] # "asked"

BinderDone(l, a) ==
    lpc' = [lpc EXCEPT ![l] = "done"] /\ lGot' = [lGot EXCEPT ![l] = a]

\* Ns_SockListenEx, -Udp, -Raw, -Unix: the prebound socket, else a new one,
\* else (only as long as the binder runs) a request to the binder.
SockListen(l, a) ==
    /\ bphase # "prebind" /\ lpc[l] = "idle" /\ NobodyAsks
    /\ SharedAddrs \/ \A m \in Listeners : lAddr[m] # a
    /\ lAddr' = [lAddr EXCEPT ![l] = a]
    /\ \/ /\ a \in prebound
          /\ prebound' = prebound \ {a}
          /\ holds' = [holds EXCEPT ![a] = (@ \ {"table"}) \cup {l}]
          /\ BinderDone(l, a)
          /\ UNCHANGED binderReq
       \/ /\ a \notin prebound /\ MayBind(a, FALSE)
          /\ holds' = [holds EXCEPT ![a] = {l}]
          /\ BinderDone(l, a)
          /\ UNCHANGED <<prebound, binderReq>>
       \/ /\ a \notin prebound /\ ~MayBind(a, FALSE)
          /\ IF bphase = "stopped"
             THEN BinderDone(l, NoAddr) /\ UNCHANGED binderReq
             ELSE /\ lpc' = [lpc EXCEPT ![l] = "asked"]
                  /\ binderReq' = Append(binderReq, a)
                  /\ UNCHANGED lGot
          /\ UNCHANGED <<prebound, holds>>
    /\ UNCHANGED <<bphase, forkbound, binderResp, binderProc>>

\* Mutant: the binder keeps its descriptor after it was sent.
BinderKeeps ==
    /\ binderProc = "running" /\ binderReq # <<>>
    /\ LET a == Head(binderReq)
           ok == a \in forkbound \/ MayBind(a, TRUE)
       IN /\ binderReq' = Tail(binderReq)
          /\ forkbound' = forkbound \ {a}
          /\ holds' = IF ok THEN [holds EXCEPT ![a] = @ \cup {"binder", "message"}] ELSE holds
          /\ binderResp' = Append(binderResp, IF ok THEN a ELSE NoAddr)
    /\ UNCHANGED <<bphase, prebound, lpc, lAddr, lGot, binderProc>>

\* One round of the binder: it listens as root with its own table, sends the
\* descriptor and closes its own.
Binder ==
    /\ binderProc = "running" /\ binderReq # <<>>
    /\ LET a == Head(binderReq)
           ok == a \in forkbound \/ MayBind(a, TRUE)
       IN /\ binderReq' = Tail(binderReq)
          /\ forkbound' = forkbound \ {a}
          /\ holds' = IF ok THEN [holds EXCEPT ![a] = (@ \ {"binder"}) \cup {"message"}] ELSE holds
          /\ binderResp' = Append(binderResp, IF ok THEN a ELSE NoAddr)
    /\ UNCHANGED <<bphase, prebound, lpc, lAddr, lGot, binderProc>>

\* The rest of Ns_SockBinderListen: the descriptor of the next answer.
SockBinderListen(l) ==
    /\ lpc[l] = "asked" /\ binderResp # <<>>
    /\ LET a == Head(binderResp)
       IN /\ BinderDone(l, a)
          /\ holds' = IF a = NoAddr THEN holds
                      ELSE [holds EXCEPT ![a] = (@ \ {"message"}) \cup {l}]
    /\ binderResp' = Tail(binderResp)
    /\ UNCHANGED <<bphase, prebound, forkbound, lAddr, binderReq, binderProc>>

NsClosePreBound ==
    /\ bphase = "start" /\ NobodyAsks
    /\ bphase' = "closed" /\ prebound' = {}
    /\ holds' = [a \in Addrs |-> holds[a] \ {"table"}]
    /\ UNCHANGED <<forkbound, lpc, lAddr, lGot, binderReq, binderResp, binderProc>>

NsStopBinder ==
    /\ bphase = "closed" /\ NobodyAsks
    /\ bphase' = "stopped"
    /\ UNCHANGED <<prebound, forkbound, holds, lpc, lAddr, lGot, binderReq, binderResp, binderProc>>

\* The binder reads the end of file and exits; its descriptors are closed.
BinderExit ==
    /\ binderProc = "running" /\ bphase = "stopped" /\ binderReq = <<>>
    /\ binderProc' = "exited"
    /\ holds' = [a \in Addrs |-> IF a \in forkbound THEN holds[a] \ {"binder"} ELSE holds[a]]
    /\ forkbound' = {}
    /\ UNCHANGED <<bphase, prebound, lpc, lAddr, lGot, binderReq, binderResp>>

BinderNext ==
    \/ \E a \in Addrs : PreBind(a) \/ \E l \in Listeners : SockListen(l, a)
    \/ NsForkBinder \/ Binder
    \/ \E l \in Listeners : SockBinderListen(l)
    \/ NsClosePreBound \/ NsStopBinder \/ BinderExit

BinderSpec == BinderInit /\ [][BinderNext]_binderVars

-----------------------------------------------------------------------------
\* A listener gets the socket of the address it asked for, no other thread
\* gets it too, and before NsStopBinder it gets it although only root may bind
\* the address; what nobody asked for is closed by both processes in the end
\* (NsClosePreBound, Binder, Ns_SockBinderListen).
BinderInv ==
    /\ \A l \in Listeners : lpc[l] = "done" =>
          /\ lGot[l] \in {lAddr[l], NoAddr}
          /\ lGot[l] # NoAddr => l \in holds[lAddr[l]]
          /\ bphase # "stopped" => lGot[l] # NoAddr
    /\ \A a \in Addrs : Cardinality(holds[a] \cap Listeners) <= 1
    /\ binderProc = "exited" => \A a \in Addrs : holds[a] \subseteq Listeners

-----------------------------------------------------------------------------
(***************************************************************************)
(* The life of the server process: Ns_Main (nsd/nsmain.c) from its options *)
(* to its return, the procedures registered for the points of that life    *)
(* (nsd/callbacks.c), the signals (nsd/unix.c) and the pid file            *)
(* (nsd/pidfile.c).  Other threads register procedures meanwhile.          *)
(***************************************************************************)

CONSTANTS
    Procs,         \* procedures that modules and scripts register
    RegisterMax    \* bound: registrations

Lists == {"prestartup", "startup", "signal", "ready", "shutdown", "exit"}

VARIABLES
    lfpc,        \* the step of Ns_Main
    mode,        \* -c, -f, -i, -w, or none
    lfUser,      \* root, or the user of -u
    rootStart,   \* was the server started as root
    lists,       \* the callback lists of callbacks.c
    calls,       \* the calls made, in order: <<list or pass, procedure>>
    lcRegistered,  \* registrations that succeeded, in order
    shutdownPending, shutdownComplete,
    sthread,     \* ShutdownThread: none, the rest of its list, or done
    lcStarted,     \* nsconf.state.started
    cmdThread,   \* CmdThread of -c: none, waiting, running
    pidFile,     \* does the pid file exist
    lfSig        \* pending signal

lfVars == <<lfpc, mode, lfUser, rootStart, lists, calls, lcRegistered, shutdownPending,
            shutdownComplete, sthread, lcStarted, cmdThread, pidFile, lfSig>>

LifeInit ==
    /\ lfpc = "args" /\ mode \in {"c", "f", "w"} /\ rootStart \in BOOLEAN
    /\ lfUser = IF rootStart THEN "root" ELSE "user"
    /\ lists = [l \in Lists |-> <<>>] /\ calls = <<>> /\ lcRegistered = <<>>
    /\ shutdownPending = FALSE /\ shutdownComplete = FALSE /\ sthread = "none"
    /\ lcStarted = FALSE /\ cmdThread = "none" /\ pidFile = FALSE /\ lfSig = "none"

lfCallbacks == <<lists, calls, lcRegistered, shutdownPending, shutdownComplete, sthread>>
lfProcess == <<mode, rootStart>>

\* Options, and the thread of -c; without a user the server does not run as
\* root.  Then the forks of the background modes, and the signal mask.
MainArgs(uarg) ==
    /\ lfpc = "args"
    /\ cmdThread' = IF mode = "c" THEN "waiting" ELSE "none"
    /\ lfpc' = IF rootStart /\ ~uarg THEN "fatal" ELSE "prebind"
    /\ UNCHANGED <<lfProcess, lfUser, lfCallbacks, lcStarted, pidFile, lfSig>>

\* NsPreBind as root, chroot, Ns_SetGroup, NsForkBinder, Ns_SetUser; any of
\* them may be fatal.  Only then is the configuration evaluated.
MainSetUser ==
    /\ lfpc = "prebind"
    /\ \/ lfUser' = "user" /\ lfpc' = "config"
       \/ rootStart /\ lfpc' = "fatal" /\ UNCHANGED lfUser
    /\ UNCHANGED <<lfProcess, lfCallbacks, lcStarted, cmdThread, pidFile, lfSig>>

MainConfig ==
    /\ lfpc = "config"
    /\ \/ lfpc' = "pidfile" \/ lfpc' = "fatal"
    /\ UNCHANGED <<lfProcess, lfUser, lfCallbacks, lcStarted, cmdThread, pidFile, lfSig>>

\* NsCreatePidFile; a failure is logged only.  Then NsInitServer.
NsCreatePidFile ==
    /\ lfpc = "pidfile"
    /\ pidFile' \in BOOLEAN /\ lfpc' = "init"
    /\ UNCHANGED <<lfProcess, lfUser, lfCallbacks, lcStarted, cmdThread, lfSig>>

Calls(tag, ps) == [i \in DOMAIN ps |-> <<tag, ps[i]>>]

\* RunCallbacks, one list after the other in the thread of Ns_Main.
RunCallbacks(from, list, to) ==
    /\ lfpc = from /\ lfpc' = to
    /\ calls' = calls \o Calls(list, lists[list])
    /\ UNCHANGED <<lfProcess, lfUser, lists, lcRegistered, shutdownPending, shutdownComplete,
                   sthread, lcStarted, cmdThread, pidFile, lfSig>>

NsRunPreStartupProcs == RunCallbacks("init", "prestartup", "started")

\* The servers and drivers run; the threads in Ns_WaitForStartup go on.
MainStarted ==
    /\ lfpc = "started" /\ lfpc' = "startup"
    /\ lcStarted' = TRUE
    /\ UNCHANGED <<lfProcess, lfUser, lfCallbacks, cmdThread, pidFile, lfSig>>

NsRunStartupProcs == RunCallbacks("startup", "startup", "running")

\* NsHandleSignals: SIGHUP runs the signal procedures, any other signal ends
\* the wait.
NsHandleSignals ==
    /\ lfpc = "running" /\ lfSig # "none"
    /\ IF lfSig = "HUP"
       THEN calls' = calls \o Calls("signal", lists["signal"]) /\ lfpc' = "running"
       ELSE lfpc' = "stopping" /\ UNCHANGED calls
    /\ lfSig' = "none"
    /\ UNCHANGED <<lfProcess, lfUser, lists, lcRegistered, shutdownPending, shutdownComplete,
                   sthread, lcStarted, cmdThread, pidFile>>

NsSendSignal(sig) ==
    /\ lfpc = "running" /\ lfSig = "none"
    /\ sig = "HUP" => Len(calls) < 2 * RegisterMax
    /\ lfSig' = sig
    /\ UNCHANGED <<lfpc, lfProcess, lfUser, lfCallbacks, lcStarted, cmdThread, pidFile>>

\* Drivers, servers and spoolers are stopped, the other threads told to stop.
NsStartShutdownProcs ==
    /\ lfpc = "stopping" /\ lfpc' = "wait"
    /\ shutdownPending' = TRUE
    /\ sthread' = IF lists["shutdown"] # <<>> THEN "start" ELSE "none"
    /\ UNCHANGED <<lfProcess, lfUser, lists, calls, lcRegistered, shutdownComplete, lcStarted,
                   cmdThread, pidFile, lfSig>>

\* The first pass of the shutdown procedures, with no timeout.
ShutdownThread ==
    /\ sthread = "start" /\ sthread' = "done"
    /\ calls' = calls \o Calls("first", lists["shutdown"])
    /\ shutdownComplete' = TRUE
    /\ UNCHANGED <<lfpc, lfProcess, lfUser, lists, lcRegistered, shutdownPending, lcStarted,
                   cmdThread, pidFile, lfSig>>

\* The second pass, after the first or not at all if the timeout comes first.
NsWaitShutdownProcs ==
    /\ lfpc = "wait" /\ lfpc' = "exit"
    /\ \/ sthread = "none" /\ UNCHANGED calls
       \/ sthread # "none" /\ shutdownComplete
          /\ calls' = calls \o Calls("second", lists["shutdown"])
       \/ sthread # "none" /\ ~shutdownComplete /\ UNCHANGED calls
    /\ UNCHANGED <<lfProcess, lfUser, lists, lcRegistered, shutdownPending, shutdownComplete,
                   sthread, lcStarted, cmdThread, pidFile, lfSig>>

NsRunAtExitProcs == RunCallbacks("exit", "exit", "remove")

\* A failure is logged only.
NsRemovePidFile ==
    /\ lfpc = "remove" /\ lfpc' = "returned"
    /\ pidFile' \in {FALSE, pidFile}
    /\ UNCHANGED <<lfProcess, lfUser, lfCallbacks, lcStarted, cmdThread, lfSig>>

\* CmdThread: Ns_WaitForStartup, then the interpreter.
CmdThread ==
    /\ cmdThread = "waiting" /\ lcStarted /\ cmdThread' = "running"
    /\ UNCHANGED <<lfpc, lfProcess, lfUser, lfCallbacks, lcStarted, pidFile, lfSig>>

\* The lists that grow at their end.
Fifo == {"prestartup", "startup", "signal"}

Inserted(s, l, p) == IF l \in Fifo THEN Append(s, p) ELSE <<p>> \o s

\* Mutant: registers during the shutdown too.
RegisterAtAlways(l, p) ==
    /\ lfpc \notin {"args", "prebind", "fatal", "returned"} /\ Len(lcRegistered) < RegisterMax
    /\ lists' = [lists EXCEPT ![l] = Inserted(@, l, p)]
    /\ lcRegistered' = Append(lcRegistered, <<l, p>>)
    /\ UNCHANGED <<lfpc, lfProcess, lfUser, calls, shutdownPending, shutdownComplete, sthread,
                   lcStarted, cmdThread, pidFile, lfSig>>

\* RegisterAt, by any thread once the configuration is read; refused when the
\* shutdown has begun.
RegisterAt(l, p) ==
    /\ lfpc \notin {"args", "prebind", "fatal", "returned"} /\ Len(lcRegistered) < RegisterMax
    /\ ~shutdownPending
    /\ lists' = [lists EXCEPT ![l] = Inserted(@, l, p)]
    /\ lcRegistered' = Append(lcRegistered, <<l, p>>)
    /\ UNCHANGED <<lfpc, lfProcess, lfUser, calls, shutdownPending, shutdownComplete, sthread,
                   lcStarted, cmdThread, pidFile, lfSig>>

MainStep ==
    \/ \E uarg \in BOOLEAN : MainArgs(uarg)
    \/ MainSetUser \/ MainConfig \/ NsCreatePidFile \/ NsRunPreStartupProcs \/ MainStarted
    \/ NsRunStartupProcs \/ NsHandleSignals \/ NsStartShutdownProcs \/ NsWaitShutdownProcs
    \/ NsRunAtExitProcs \/ NsRemovePidFile

LifeNext ==
    \/ MainStep \/ ShutdownThread \/ CmdThread
    \/ \E sig \in {"HUP", "TERM"} : NsSendSignal(sig)
    \/ \E l \in Lists, p \in Procs : RegisterAt(l, p)

LifecycleSpec == LifeInit /\ [][LifeNext]_lfVars

-----------------------------------------------------------------------------
Called(tag) ==
    LET mine == SelectSeq(calls, LAMBDA c : c[1] = tag) IN [i \in DOMAIN mine |-> mine[i][2]]

\* The registrations of a list, in the order in which they were made.
LcMade(l) ==
    LET mine == SelectSeq(lcRegistered, LAMBDA r : r[1] = l) IN [i \in DOMAIN mine |-> mine[i][2]]

Backwards(s) == [i \in DOMAIN s |-> s[Len(s) + 1 - i]]

\* A server that returns has called every shutdown procedure twice, in the
\* reverse order of registration and the second time only after the first
\* round was complete, unless that took too long; every exit procedure once, in
\* reverse order, after them.  A procedure that was accepted is never forgotten
\* (callbacks.c, the end of Ns_Main).
ShutdownCalls ==
    lfpc = "returned" =>
        /\ Called("exit") = Backwards(LcMade("exit"))
        /\ Called("second") # <<>> =>
              /\ Called("second") = Backwards(LcMade("shutdown"))
              /\ Called("first") = Called("second")
              /\ \A i, j \in DOMAIN calls : calls[i][1] = "first" /\ calls[j][1] = "second" => i < j
        /\ \A i, j \in DOMAIN calls :
              calls[i][1] = "second" /\ calls[j][1] = "exit" => i < j

\* No procedure that modules or scripts register runs as root.
NothingAsRoot == calls # <<>> \/ lcRegistered # <<>> => lfUser # "root"

\* Both: what Ns_Main and callbacks.c promise to those who register procedures.
LifecycleInv == ShutdownCalls /\ NothingAsRoot
=============================================================================
