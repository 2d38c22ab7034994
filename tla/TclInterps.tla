----------------------------- MODULE TclInterps -----------------------------
(***************************************************************************)
(* The Tcl interpreters of a virtual server (nsd/tclinit.c): every thread  *)
(* keeps one, which its callers allocate in a nested way and its           *)
(* connection takes for the time of a request.  Traces tell Tcl code when  *)
(* an interpreter is created, allocated, given a connection, and so on.    *)
(* The server's script has an epoch: an interpreter runs the script again  *)
(* when the epoch has moved on.                                            *)
(***************************************************************************)
EXTENDS Integers, Sequences, FiniteSets

CONSTANTS
    TclThreads,      \* threads; each has its own cache of interpreters
    MaxUsers,        \* nested allocations in a thread
    MaxRequests,     \* connections handled altogether
    MaxSaves,        \* scripts saved
    EpochRange,      \* number of values of the epoch, an int
    MaxScripts,      \* at-close scripts and deferred procs of an interpreter
    LateAtClose      \* do scripts that run when the connection is closed register more

VARIABLES
    interpStarted,         \* Ns_InfoStarted: no more traces
    epoch,           \* servPtr->tcl.epoch
    version,         \* number of the saved script
    interp,          \* thread -> its interpreter, NoInterp if the cache has none
    interpUsers,           \* thread -> nested allocations that are not yet given back
    request,         \* thread -> [id, state]: the connection it runs
    requests,        \* connections so far
    ended,           \* threads that exited
    ranFor           \* pairs <<connection that registered, connection whose close ran it>>

tclVars == <<interpStarted, epoch, version, interp, interpUsers, request, requests, ended, ranFor>>

NoInterp == [refcnt |-> -1]
NoConn == [id |-> 0, state |-> "none"]

\* phase: what the traces said last, {} after the create traces.
NewInterpData == [refcnt |-> 0, epoch |-> 0, tried |-> 0, conn |-> 0, deleteInterp |-> FALSE,
                  atClose |-> <<>>, defers |-> 0, phase |-> {}]

\* RunTraces: opening traces begin a phase, closing ones end it.
RunTraces(it, why) ==
    [it EXCEPT !.phase =
        CASE why = "allocate" -> @ \cup {"allocated"}
          [] why = "getconn" -> @ \cup {"conn"}
          [] why = "deallocate" -> @ \ {"allocated"}
          [] why = "freeconn" -> @ \ {"conn"}
          [] OTHER -> @]

\* UpdateInterp: the script may fail, the epoch is taken all the same.
UpdateInterp(it) == IF it.epoch # epoch THEN [it EXCEPT !.epoch = epoch, !.tried = version] ELSE it

\* PopInterp: a thread without an interpreter creates one.
PopInterp(t) ==
    LET it == IF interp[t] = NoInterp THEN UpdateInterp(RunTraces(NewInterpData, "create")) ELSE interp[t]
        up == [it EXCEPT !.refcnt = @ + 1]
    IN IF up.refcnt = 1 THEN RunTraces(up, "allocate") ELSE up

\* Mutant: every return of an allocation ends the phase.
PushAlways(it) ==
    LET idle == RunTraces(it, "deallocate")
    IN IF it.refcnt = 1 /\ it.deleteInterp THEN NoInterp ELSE [idle EXCEPT !.refcnt = @ - 1]

\* PushInterp: the last user runs the traces, and deletes an interpreter that
\* is marked (Ns_TclDestroyInterp).
PushInterp(it) ==
    IF it.refcnt = 1
    THEN IF it.deleteInterp THEN NoInterp ELSE [RunTraces(it, "deallocate") EXCEPT !.refcnt = 0]
    ELSE [it EXCEPT !.refcnt = @ - 1]

-----------------------------------------------------------------------------
TclInit ==
    /\ interpStarted = FALSE
    /\ epoch = 0
    /\ version = 0
    /\ interp = [t \in TclThreads |-> NoInterp]
    /\ interpUsers = [t \in TclThreads |-> 0]
    /\ request = [t \in TclThreads |-> NoConn]
    /\ requests = 0
    /\ ended = {}
    /\ ranFor = {}

\* Ns_TclRegisterTrace, with a trace that runs at once in the interpreter of the thread.
Ns_TclRegisterTrace(t) ==
    /\ ~interpStarted /\ t \notin ended
    /\ interp' = [interp EXCEPT ![t] = PushInterp(PopInterp(t))]
    /\ UNCHANGED <<interpStarted, epoch, version, interpUsers, request, requests, ended, ranFor>>

ServerStarted ==
    /\ ~interpStarted
    /\ interpStarted' = TRUE
    /\ UNCHANGED <<epoch, version, interp, interpUsers, request, requests, ended, ranFor>>

Ns_TclAllocateInterp(t) ==
    /\ t \notin ended /\ interpUsers[t] < MaxUsers
    /\ interp' = [interp EXCEPT ![t] = PopInterp(t)]
    /\ interpUsers' = [interpUsers EXCEPT ![t] = @ + 1]
    /\ UNCHANGED <<interpStarted, epoch, version, request, requests, ended, ranFor>>

\* Mutant: the connection's part is overlooked.
DeAllocatePush(t) ==
    /\ interpUsers[t] > 0
    /\ interpUsers' = [interpUsers EXCEPT ![t] = @ - 1]
    /\ interp' = [interp EXCEPT ![t] = IF @.conn = 0 THEN [@ EXCEPT !.refcnt = @ - 1] ELSE PushInterp(@)]
    /\ UNCHANGED <<interpStarted, epoch, version, request, requests, ended, ranFor>>

\* Ns_TclDeAllocateInterp: with a connection the interpreter stays in use.
Ns_TclDeAllocateInterp(t) ==
    /\ interpUsers[t] > 0
    /\ interpUsers' = [interpUsers EXCEPT ![t] = @ - 1]
    /\ interp' = [interp EXCEPT ![t] = IF @.conn = 0 THEN PushInterp(@) ELSE [@ EXCEPT !.refcnt = @ - 1]]
    /\ UNCHANGED <<interpStarted, epoch, version, request, requests, ended, ranFor>>

-----------------------------------------------------------------------------
\* ConnRun begins a connection.
RequestBegin(t) ==
    /\ interpStarted /\ t \notin ended /\ request[t] = NoConn /\ requests < MaxRequests
    /\ requests' = requests + 1
    /\ request' = [request EXCEPT ![t] = [id |-> requests + 1, state |-> "open"]]
    /\ UNCHANGED <<interpStarted, epoch, version, interp, interpUsers, ended, ranFor>>

\* Does the connection have its interpreter (connPtr->itPtr)?
HasInterp(t) == request[t] # NoConn /\ interp[t] # NoInterp /\ interp[t].conn = request[t].id

Ns_GetConnInterp(t) ==
    /\ request[t] # NoConn /\ ~HasInterp(t)
    /\ interp' = [interp EXCEPT ![t] = RunTraces([PopInterp(t) EXCEPT !.conn = request[t].id], "getconn")]
    /\ UNCHANGED <<interpStarted, epoch, version, interpUsers, request, requests, ended, ranFor>>

\* ns_atclose; after the close only if scripts do that.
NsTclAtCloseObjCmd(t) ==
    /\ HasInterp(t) /\ Len(interp[t].atClose) < MaxScripts
    /\ request[t].state = "open" \/ LateAtClose
    /\ interp' = [interp EXCEPT ![t].atClose = <<request[t].id>> \o @]
    /\ UNCHANGED <<interpStarted, epoch, version, interpUsers, request, requests, ended, ranFor>>

\* Mutant: the list of scripts is kept.
RunAtCloseKeeps(it) == it

\* NsTclRunAtClose: all scripts run and the list is reset.
NsTclRunAtClose(it) == [it EXCEPT !.atClose = <<>>]

Ran(t) == {<<interp[t].atClose[i], request[t].id>> : i \in DOMAIN interp[t].atClose}

\* Ns_ConnClose
RequestClose(t) ==
    /\ request[t].state = "open"
    /\ request' = [request EXCEPT ![t].state = "closed"]
    /\ interp' = IF HasInterp(t) THEN [interp EXCEPT ![t] = NsTclRunAtClose(@)] ELSE interp
    /\ ranFor' = IF HasInterp(t) THEN ranFor \cup Ran(t) ELSE ranFor
    /\ UNCHANGED <<interpStarted, epoch, version, interpUsers, requests, ended>>

\* NsFreeConnInterp, at the end of ConnRun.
NsFreeConnInterp(t) ==
    /\ request[t].state = "closed"
    /\ interp' = IF HasInterp(t)
                 THEN [interp EXCEPT ![t] = PushInterp([RunTraces(@, "freeconn") EXCEPT !.conn = 0])]
                 ELSE interp
    /\ request' = [request EXCEPT ![t] = NoConn]
    /\ UNCHANGED <<interpStarted, epoch, version, interpUsers, requests, ended, ranFor>>

-----------------------------------------------------------------------------
\* Code that runs in an interpreter.
InUse(t) == interp[t] # NoInterp /\ interp[t].refcnt > 0

Ns_TclMarkForDelete(t) ==
    /\ InUse(t)
    /\ interp' = [interp EXCEPT ![t].deleteInterp = TRUE]
    /\ UNCHANGED <<interpStarted, epoch, version, interpUsers, request, requests, ended, ranFor>>

Ns_TclRegisterDeferred(t) ==
    /\ InUse(t) /\ interp[t].defers < MaxScripts
    /\ interp' = [interp EXCEPT ![t].defers = @ + 1]
    /\ UNCHANGED <<interpStarted, epoch, version, interpUsers, request, requests, ended, ranFor>>

\* ns_ictl cleanup: the deferred procs run.
ICleanup(t) ==
    /\ InUse(t)
    /\ interp' = [interp EXCEPT ![t].defers = 0]
    /\ UNCHANGED <<interpStarted, epoch, version, interpUsers, request, requests, ended, ranFor>>

\* Mutant: the epoch becomes 0 when it wraps around.
SaveWraps(t) ==
    /\ InUse(t) /\ version < MaxSaves
    /\ version' = version + 1
    /\ epoch' = (epoch + 1) % EpochRange
    /\ UNCHANGED <<interpStarted, interp, interpUsers, request, requests, ended, ranFor>>

\* ns_ictl save: epoch 0 is left to interpreters that did not run a script yet.
ISave(t) ==
    /\ InUse(t) /\ version < MaxSaves
    /\ version' = version + 1
    /\ epoch' = IF epoch + 1 = EpochRange THEN 1 ELSE epoch + 1
    /\ UNCHANGED <<interpStarted, interp, interpUsers, request, requests, ended, ranFor>>

\* ns_ictl update, an allocate trace of init.tcl
IUpdate(t) ==
    /\ InUse(t)
    /\ interp' = [interp EXCEPT ![t] = UpdateInterp(@)]
    /\ UNCHANGED <<interpStarted, epoch, version, interpUsers, request, requests, ended, ranFor>>

\* DeleteInterps: the thread exits.
ThreadExit(t) ==
    /\ t \notin ended /\ interpUsers[t] = 0 /\ request[t] = NoConn
    /\ ended' = ended \cup {t}
    /\ interp' = [interp EXCEPT ![t] = NoInterp]
    /\ UNCHANGED <<interpStarted, epoch, version, interpUsers, request, requests, ranFor>>

TclNext ==
    \/ ServerStarted
    \/ \E t \in TclThreads :
          \/ Ns_TclRegisterTrace(t) \/ Ns_TclAllocateInterp(t) \/ Ns_TclDeAllocateInterp(t)
          \/ RequestBegin(t) \/ Ns_GetConnInterp(t) \/ NsTclAtCloseObjCmd(t) \/ RequestClose(t) \/ NsFreeConnInterp(t)
          \/ Ns_TclMarkForDelete(t) \/ Ns_TclRegisterDeferred(t) \/ ICleanup(t)
          \/ ISave(t) \/ IUpdate(t) \/ ThreadExit(t)

-----------------------------------------------------------------------------
\* However allocations and the connection are nested, an interpreter counts
\* exactly its users, Tcl code was told that it is allocated as long as there
\* are some, and that it has a connection as long as it has one (PopInterp,
\* PushInterp, NsFreeConnInterp).  In particular an interpreter marked for
\* deletion does not go while it is used.
InterpBalanced ==
    \A t \in TclThreads :
        IF interp[t] = NoInterp THEN interpUsers[t] = 0
        ELSE /\ interp[t].refcnt = interpUsers[t] + (IF HasInterp(t) THEN 1 ELSE 0)
             /\ ("allocated" \in interp[t].phase) <=> (interp[t].refcnt > 0)
             /\ ("conn" \in interp[t].phase) <=> HasInterp(t)
             /\ interp[t].conn # 0 => HasInterp(t)

\* An interpreter that agrees with the server about the epoch ran the last
\* script saved, unless it missed as many scripts as there are epochs; one that
\* never ran a script does not agree with a server that has one (ns_ictl save,
\* UpdateInterp).
InterpCurrent ==
    \A t \in TclThreads :
        LET it == interp[t]
        IN /\ it # NoInterp /\ it.epoch = epoch /\ version - it.tried < EpochRange - 1 => it.tried = version
           /\ it # NoInterp /\ it.tried = 0 /\ version > 0 => it.epoch # epoch

\* An at-close script runs when the connection closes that registered it, not
\* for a later connection of the same thread (NsTclRunAtClose).
AtCloseOwn ==
    /\ \A p \in ranFor : p[1] = p[2]
    /\ \A t \in TclThreads : interp[t] # NoInterp /\ interp[t].conn = 0 => interp[t].atClose = <<>>

InterpInv == InterpBalanced /\ InterpCurrent
=============================================================================
