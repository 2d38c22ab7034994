---------------------------- MODULE ProxyReaper -----------------------------
(***************************************************************************)
(* The reaper of nsproxy/nsproxylib.c: threads close slave processes and   *)
(* call ReapProxies, which wakes the reaper thread and waits until it      *)
(* sleeps again; the reaper signals the slaves that do not exit and        *)
(* collects those that did; Shutdown stops it.                             *)
(*                                                                         *)
(* plock is held from the moment the reaper wakes until it sleeps again,   *)
(* so every other action needs rth to be outside a pass.  Timers are a     *)
(* set: the closed slaves whose expire time has passed.  BigResults lets a *)
(* slave write more than the pipe holds, ReapsInShutdown lets threads call *)
(* ReapProxies while Shutdown stops the reaper.                            *)
(***************************************************************************)
EXTENDS Integers, FiniteSets, Sequences

CONSTANTS Slaves, ReapThreads, BigResults, ReapsInShutdown

\* The threads are told from the reaper and from Shutdown by their names.
ASSUME ReaperAssumption ==
    IsFiniteSet(Slaves) /\ \A w \in {"reaper", "shutdown", "none"} : w \notin ReapThreads

VARIABLES
    reaperState,    \* the state that the threads agree on
    rth,            \* ReaperThread: "none", "start", "sleep", "woken", "pass", "waitpid"
    rleft,          \* the slaves it has yet to look at in this pass
    closeList,      \* firstClosePtr
    rsig, rsent,    \* signal and sigsent of a closed slave
    rexpired,       \* closed slaves whose expire time has passed
    rfate,          \* slaves: "open", "closed", "reaped", "zombie"
    proc,           \* the processes: "idle", "eval", "blocked", "exited"
    rout,           \* slaves with output in the pipe
    rpc,            \* threads in ReapProxies: "idle", "reap", "wait", "woken"
    rshut           \* Shutdown: "no", "reap", "reapwait", "reapwoken", "stop", "wait", "woken", "done", "late"

rlVars == <<closeList, rsig, rsent, rexpired, rfate, rout>>
reaperVars == <<reaperState, rth, rleft, rlVars, proc, rpc, rshut>>

ReaperInit ==
    /\ reaperState = "Stopped" /\ rth = "none" /\ rleft = <<>> /\ closeList = <<>>
    /\ rsig = [s \in Slaves |-> "0"] /\ rsent = [s \in Slaves |-> "0"] /\ rexpired = {}
    /\ rfate = [s \in Slaves |-> "open"] /\ proc = [s \in Slaves |-> "idle"] /\ rout = {}
    /\ rpc = [t \in ReapThreads |-> "idle"] /\ rshut = "no"

PlockFree == rth \notin {"pass", "waitpid"}

\* Who waits on pcond, and who is woken by a signal (one of them) or a broadcast.
Waiters == (IF rth = "sleep" THEN {"reaper"} ELSE {})
           \cup {t \in ReapThreads : rpc[t] = "wait"}
           \cup (IF rshut \in {"reapwait", "wait"} THEN {"shutdown"} ELSE {})

Wakes(W, r, p, sh) ==
    /\ rth' = IF "reaper" \in W THEN "woken" ELSE r
    /\ rpc' = [t \in ReapThreads |-> IF t \in W THEN "woken" ELSE p[t]]
    /\ rshut' = CASE "shutdown" \in W /\ rshut = "reapwait" -> "reapwoken"
                  [] "shutdown" \in W /\ rshut = "wait" -> "woken"
                  [] OTHER -> sh

CondSignal(r, p, sh) ==
    IF Waiters = {} THEN Wakes({}, r, p, sh) ELSE \E w \in Waiters : Wakes({w}, r, p, sh)

-----------------------------------------------------------------------------
(* Slave processes: Ns_ProxyMain, seen from the server.                     *)

WfdOpen(s) == rfate[s] = "open"

ProcStarts(s) ==
    /\ WfdOpen(s) /\ proc[s] = "idle" /\ s \notin rout
    /\ proc' = [proc EXCEPT ![s] = "eval"]
    /\ UNCHANGED <<reaperState, rth, rleft, rlVars, rpc, rshut>>

ProcAnswers(s) ==
    /\ proc[s] = "eval"
    /\ proc' \in {[proc EXCEPT ![s] = p] : p \in {"idle"} \cup (IF BigResults THEN {"blocked"} ELSE {})}
    /\ rout' = rout \cup {s}
    /\ UNCHANGED <<reaperState, rth, rleft, closeList, rsig, rsent, rexpired, rfate, rpc, rshut>>

\* RecvBuf of the thread that uses the proxy.
ProcRead(s) ==
    /\ s \in rout /\ rfate[s] = "open"
    /\ rout' = rout \ {s}
    /\ proc' = [proc EXCEPT ![s] = IF @ = "blocked" THEN "idle" ELSE @]
    /\ UNCHANGED <<reaperState, rth, rleft, closeList, rsig, rsent, rexpired, rfate, rpc, rshut>>

\* A process ends when it reads the end of its input or is killed; it may
\* also end by SIGTERM or by itself.
ProcExits(s) ==
    /\ \/ proc[s] = "idle" /\ ~WfdOpen(s)
       \/ proc[s] # "exited" /\ rsent[s] = "KILL"
    /\ proc' = [proc EXCEPT ![s] = "exited"]
    /\ UNCHANGED <<reaperState, rth, rleft, rlVars, rpc, rshut>>

ProcDies(s) ==
    /\ proc[s] # "exited"
    /\ proc' = [proc EXCEPT ![s] = "exited"]
    /\ UNCHANGED <<reaperState, rth, rleft, rlVars, rpc, rshut>>

-----------------------------------------------------------------------------
(* Threads that close proxies.                                              *)

CloseSlaves(S, list) ==
    /\ closeList' = list \o closeList
    /\ rfate' = [s \in Slaves |-> IF s \in S THEN "closed" ELSE rfate[s]]
    /\ rsig' = [s \in Slaves |-> IF s \in S THEN "0" ELSE rsig[s]]
    /\ rsent' = [s \in Slaves |-> IF s \in S THEN "0" ELSE rsent[s]]
    /\ rexpired' = rexpired \ S
    /\ UNCHANGED rout

\* CloseProxy: CloseSlave under plock, then ReapProxies.
ReapClose(t, s) ==
    /\ rpc[t] = "idle" /\ PlockFree /\ rfate[s] = "open"
    /\ rshut = "no" \/ ReapsInShutdown
    /\ CloseSlaves({s}, <<s>>)
    /\ rpc' = [rpc EXCEPT ![t] = "reap"]
    /\ UNCHANGED <<reaperState, rth, rleft, proc, rshut>>

\* CreateSlave and ConfigureObjCmd call ReapProxies without closing a slave.
ReapCall(t) ==
    /\ rpc[t] = "idle"
    /\ rshut = "no" \/ ReapsInShutdown
    /\ rpc' = [rpc EXCEPT ![t] = "reap"]
    /\ UNCHANGED <<reaperState, rth, rleft, rlVars, proc, rshut>>

\* ReapProxies up to its first wait; p and sh are the caller's next positions.
Awake(p, sh) ==
    IF reaperState = "Stopped"
    THEN reaperState' = "Starting" /\ rth' = "start" /\ rpc' = p /\ rshut' = sh
    ELSE reaperState' = "Awaken" /\ CondSignal(rth, p, sh)

ReapProxies(t) ==
    /\ rpc[t] = "reap" /\ PlockFree
    /\ Awake([rpc EXCEPT ![t] = "wait"], rshut)
    /\ UNCHANGED <<rleft, rlVars, proc>>

ReapWakes(t) ==
    /\ rpc[t] = "woken" /\ PlockFree
    /\ rpc' = [rpc EXCEPT ![t] = IF reaperState = "Sleeping" THEN "idle" ELSE "wait"]
    /\ UNCHANGED <<reaperState, rth, rleft, rlVars, proc, rshut>>

-----------------------------------------------------------------------------
(* ReaperThread.                                                            *)

\* Locks plock and looks at the list; idle slaves of the pools that expire
\* are added to it (S in the order of list).
ReaperPass ==
    /\ \/ rth = "start" /\ reaperState' = "Running"
          /\ \E w \in Waiters \cup {"none"} : (w = "none" => Waiters = {}) /\ Wakes({w}, "pass", rpc, rshut)
       \/ rth = "woken" /\ reaperState # "Stopping" /\ reaperState' = "Running"
          /\ rth' = "pass" /\ UNCHANGED <<rpc, rshut>>
    /\ \E S \in SUBSET {s \in Slaves : rfate[s] = "open" /\ proc[s] \in {"idle", "exited"} /\ s \notin rout} :
         \E list \in [1 .. Cardinality(S) -> S] :
            /\ {list[i] : i \in DOMAIN list} = S
            /\ CloseSlaves(S, list)
            /\ rleft' = list \o closeList
    /\ UNCHANGED proc

ReaperExit ==
    /\ rth = "woken" /\ reaperState = "Stopping"
    /\ reaperState' = "Stopped"
    /\ CondSignal("none", rpc, rshut)
    /\ UNCHANGED <<rleft, rlVars, proc>>

\* Mutant: SIGTERM is skipped.
EscalateKill(sig) == CASE sig = "0" -> "KILL" [] sig = "TERM" -> "KILL" [] OTHER -> "-1"

Escalate(sig) == CASE sig = "0" -> "TERM" [] sig = "TERM" -> "KILL" [] OTHER -> "-1"

\* Mutant: the slaves before it leave too.
UnlinkFirst(s) ==
    /\ closeList' = Tail(rleft)
    /\ rleft' = Tail(rleft)
    /\ rexpired' = rexpired \ {s} /\ rout' = rout \ {s}

\* The slave at hand, s, leaves the list: prevSlavePtr is the one before it.
Unlink(s) ==
    /\ LET at == Len(closeList) - Len(rleft) + 1
       IN  closeList' = [i \in 1 .. Len(closeList) - 1 |-> closeList[IF i < at THEN i ELSE i + 1]]
    /\ rleft' = Tail(rleft)
    /\ rexpired' = rexpired \ {s} /\ rout' = rout \ {s}

\* One slave of the list.  Output in the pipe makes rfd readable as the end
\* of the process does, and Ns_WaitProcess then waits for that end.
ReaperSlave ==
    /\ rth = "pass" /\ rleft # <<>>
    /\ LET s == Head(rleft)
           sig == IF s \in rexpired THEN Escalate(rsig[s]) ELSE rsig[s]
       IN  /\ rsig' = [rsig EXCEPT ![s] = sig]
           /\ IF sig = "-1"
              THEN /\ Unlink(s) /\ rfate' = [rfate EXCEPT ![s] = "zombie"]
                   /\ UNCHANGED <<rth, rsent>>
              ELSE IF proc[s] = "exited" \/ s \in rout
              THEN rth' = "waitpid" /\ UNCHANGED <<rsent, closeList, rleft, rexpired, rout, rfate>>
              ELSE /\ rleft' = Tail(rleft) /\ rexpired' = rexpired \ {s}
                   /\ rsent' = [rsent EXCEPT ![s] = sig]
                   /\ UNCHANGED <<rth, closeList, rout, rfate>>
    /\ UNCHANGED <<reaperState, proc, rpc, rshut>>

ReaperWaited ==
    /\ rth = "waitpid"
    /\ LET s == Head(rleft)
       IN  /\ proc[s] = "exited"
           /\ Unlink(s) /\ rfate' = [rfate EXCEPT ![s] = "reaped"]
    /\ rth' = "pass"
    /\ UNCHANGED <<reaperState, rsig, rsent, proc, rpc, rshut>>

\* The pass ends: broadcast to the callers and sleep, or go round again when
\* a timer has passed meanwhile.
ReaperSleepsSilent ==
    /\ rth = "pass" /\ rleft = <<>>
    /\ reaperState' = "Sleeping" /\ Wakes({}, "sleep", rpc, rshut)
    /\ UNCHANGED <<rleft, rlVars, proc>>

ReaperSleeps ==
    /\ rth = "pass" /\ rleft = <<>>
    /\ reaperState' = "Sleeping" /\ Wakes(Waiters, "sleep", rpc, rshut)
    /\ UNCHANGED <<rleft, rlVars, proc>>

ReaperAgain ==
    /\ rth = "pass" /\ rleft = <<>> /\ rexpired # {}
    /\ rleft' = closeList
    /\ UNCHANGED <<reaperState, rth, rlVars, proc, rpc, rshut>>

\* The end of Ns_CondTimedWait, and the clock.
ReaperTimeout ==
    /\ rth = "sleep"
    /\ rth' = "woken"
    /\ UNCHANGED <<reaperState, rleft, rlVars, proc, rpc, rshut>>

SlaveExpires(s) ==
    /\ rfate[s] = "closed" /\ s \notin rexpired
    /\ rexpired' = rexpired \cup {s}
    /\ UNCHANGED <<reaperState, rth, rleft, closeList, rsig, rsent, rfate, rout, proc, rpc, rshut>>

-----------------------------------------------------------------------------
(* Shutdown, first without and then with a timeout.                         *)

ShutdownPools(S) ==
    /\ rshut = "no" /\ PlockFree
    /\ \A t \in ReapThreads : rpc[t] = "idle" \/ ReapsInShutdown
    /\ \E list \in [1 .. Cardinality(S) -> S] :
         {list[i] : i \in DOMAIN list} = S /\ CloseSlaves(S, list)
    /\ rshut' = "reap"
    /\ UNCHANGED <<reaperState, rth, rleft, proc, rpc>>

ShutdownReap ==
    /\ rshut = "reap" /\ PlockFree
    /\ IF closeList # <<>> \/ reaperState # "Stopped"
       THEN Awake(rpc, "reapwait")
       ELSE rshut' = "done" /\ UNCHANGED <<reaperState, rth, rpc>>
    /\ UNCHANGED <<rleft, rlVars, proc>>

ShutdownReaped ==
    /\ rshut = "reapwoken" /\ PlockFree
    /\ rshut' = IF reaperState = "Sleeping" THEN "stop" ELSE "reapwait"
    /\ UNCHANGED <<reaperState, rth, rleft, rlVars, proc, rpc>>

\* Mutant: Shutdown takes the reaper for stopped.
ShutdownStopDone ==
    /\ rshut = "stop" /\ PlockFree
    /\ reaperState' = "Stopped"
    /\ CondSignal(rth, rpc, "wait")
    /\ UNCHANGED <<rleft, rlVars, proc>>

ShutdownStop ==
    /\ rshut = "stop" /\ PlockFree
    /\ reaperState' = "Stopping"
    /\ CondSignal(rth, rpc, "wait")
    /\ UNCHANGED <<rleft, rlVars, proc>>

ShutdownWakes ==
    /\ rshut = "woken" /\ PlockFree
    /\ rshut' = IF reaperState = "Stopped" THEN "done" ELSE "wait"
    /\ UNCHANGED <<reaperState, rth, rleft, rlVars, proc, rpc>>

ShutdownTimeout ==
    /\ rshut = "wait" /\ PlockFree
    /\ rshut' = IF reaperState = "Stopped" THEN "done" ELSE "late"
    /\ UNCHANGED <<reaperState, rth, rleft, rlVars, proc, rpc>>

ReaperThread == ReaperPass \/ ReaperExit \/ ReaperSlave \/ ReaperWaited \/ ReaperSleeps

\* The steps that bring a caller on.
ReapRuns(t) == ReapProxies(t) \/ (reaperState = "Sleeping" /\ ReapWakes(t))

ShutdownRuns == ShutdownReap \/ (reaperState = "Sleeping" /\ ShutdownReaped) \/ ShutdownStop \/ ShutdownWakes

ReaperNext ==
    \/ \E s \in Slaves : ProcStarts(s) \/ ProcAnswers(s) \/ ProcRead(s) \/ ProcExits(s) \/ ProcDies(s) \/ SlaveExpires(s)
    \/ \E t \in ReapThreads : ReapCall(t) \/ ReapProxies(t) \/ ReapWakes(t) \/ \E s \in Slaves : ReapClose(t, s)
    \/ ReaperThread \/ ReaperAgain \/ ReaperTimeout
    \/ \E S \in SUBSET {s \in Slaves : rfate[s] = "open"} : ShutdownPools(S)
    \/ ShutdownReap \/ ShutdownReaped \/ ShutdownStop \/ ShutdownWakes \/ ShutdownTimeout

\* The threads run, one that finds plock free and the reaper asleep again and
\* again in the end gets the lock, a process that has read the end of its input or got a
\* signal ends, and the clock runs.
ReaperFair ==
    /\ WF_reaperVars(ReaperThread) /\ SF_reaperVars(ShutdownRuns)
    /\ WF_reaperVars(rexpired # {} /\ ReaperTimeout)
    /\ \A t \in ReapThreads : SF_reaperVars(ReapRuns(t))
    /\ \A s \in Slaves : WF_reaperVars(ProcExits(s)) /\ WF_reaperVars(SlaveExpires(s))

ReaperSpec == ReaperInit /\ [][ReaperNext]_reaperVars /\ ReaperFair

-----------------------------------------------------------------------------
(* Properties.                                                              *)

\* ReapProxies starts a reaper whenever reaperState is Stopped: there is never
\* one already, and whatever the threads write into reaperState, a thread
\* that waits in ReapProxies has a reaper to wait for or one to come.
OneReaper == reaperState = "Stopped" => rth = "none"

\* The close list is the slaves that are closed and not collected, each once.
CloseListExact ==
    /\ {closeList[i] : i \in DOMAIN closeList} = {s \in Slaves : rfate[s] = "closed"}
    /\ \A i, j \in DOMAIN closeList : closeList[i] = closeList[j] => i = j

\* "the reaper will send a SIGTERM signal and finally a SIGKILL signal": only a
\* process that has been sent SIGKILL is given up as a zombie, and SIGKILL
\* follows SIGTERM.
EscalatesInOrder(s) ==
    /\ rfate[s] = "closed" /\ rsent'[s] = "KILL" => rsent[s] \in {"TERM", "KILL"}
    /\ rfate'[s] = "zombie" => rsent'[s] = "KILL"
SignalsInOrder == [][\A s \in Slaves : EscalatesInOrder(s)]_reaperVars

\* ReapProxies "waits until it does it's job and goes sleeping again".
ReapReturns == \A t \in ReapThreads : rpc[t] = "wait" ~> rpc[t] = "idle"

\* "to ensure the process eventually exits": a closed slave leaves the list,
\* unless the reaper is stopped.
ClosedCollected ==
    \A s \in Slaves : rfate[s] = "closed" ~> (rfate[s] \in {"reaped", "zombie"} \/ reaperState = "Stopped")

\* Shutdown ends, and not by its timeout alone: the reaper stops.
ReaperStops == rshut = "wait" ~> reaperState = "Stopped"

=============================================================================
