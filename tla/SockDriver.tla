----------------------------- MODULE SockDriver -----------------------------
(***************************************************************************)
(* One driver of nsd/driver.c: its DriverThread, its spooler threads, the  *)
(* threads that hold a socket of it while a request runs (connection and   *)
(* writer threads, connection channels), which give the socket back with   *)
(* NsSockClose, and the main thread that stops it.                         *)
(*                                                                         *)
(* A Sock is linked through its one nextPtr into one list at a time.  The  *)
(* lists are the sets at[<<owner, name>>]; the order of a list is not kept *)
(* (an inner loop takes its elements in any order).                        *)
(*   <<Driver, "free">>     drvPtr->sockPtr, and structures not yet        *)
(*                          allocated                                      *)
(*   <<Driver, "closed">>   drvPtr->closePtr, the sockets given back       *)
(*   <<t, "read">>          readPtr of the thread t                        *)
(*   <<t, "wait">>          waitPtr of t: read, but the pool is full       *)
(*   <<t, "work">>          the rest of the list t's inner loop walks      *)
(*   <<t, "rel">>           the socket t is in SockRelease with            *)
(*   <<Driver, "close">>    closePtr of DriverThread: draining             *)
(*   <<Driver, "fresh">>    the socket SockAccept works on                 *)
(*   <<p, "queue">>         queuePtr->sockPtr of the spooler p             *)
(*   <<Pool, "queued">>, <<Pool, "running">>, <<Pool, "closing">>          *)
(*                          accepted by NsQueueConn; in the hands of a     *)
(*                          connection thread; in NsSockClose before the   *)
(*                          lock                                           *)
(*                                                                         *)
(* What poll() and the clients do is an input: each result is chosen when  *)
(* the code looks at it.  The same holds for the expiry of a timeout.      *)
(* drvPtr->queuesize is updated under no lock by the driver and by its     *)
(* spoolers; an update is a load and, later, a store.                      *)
(***************************************************************************)
EXTENDS Integers, FiniteSets

CONSTANTS
    Socks,        \* Sock structures
    Driver, Pool, \* owners of lists, see above
    Spoolers,     \* spooler threads (parameter spoolerthreads)
    None,
    Async,        \* the driver module sets NS_DRIVER_ASYNC
    ClosesFd,     \* its closeProc closes the descriptor (nssock does)
    MaxConns,     \* Conn structures of the pool
    NThreads,     \* threads that can hold a socket at a time
    MaxQueue,     \* parameter maxqueuesize
    AcceptSize,   \* parameter acceptsize
    TrigCap,      \* bound: bytes in the trigger pipe NsWakeupDriver adds to
    DriftCap      \* bound: how far queuesize may fall below zero

ASSUME OwnersDiffer == Driver \notin Spoolers /\ Pool \notin Spoolers \cup {Driver}
ASSUME NoneIsNoSpooler == None \notin Spoolers
ASSUME SwitchesBoolean == Async \in BOOLEAN /\ ClosesFd \in BOOLEAN
ASSUME BoundsAreNumbers == {MaxConns, NThreads, MaxQueue, AcceptSize, TrigCap, DriftCap} \subseteq Nat

Threads == {Driver} \cup Spoolers

Places == (Threads \X {"read", "wait", "work", "rel"})
          \cup ({Driver} \X {"free", "closed", "close", "fresh"})
          \cup (Spoolers \X {"queue"})
          \cup ({Pool} \X {"queued", "running", "closing"})

VARIABLES
    at,         \* the lists
    open,       \* Sock.sock is a valid descriptor
    keep,       \* Sock.keep
    req,        \* Sock.reqPtr is not NULL
    queuesize,  \* drvPtr->queuesize
    tmp,        \* queuesize as loaded by a thread that will store it (0 otherwise)
    trig,       \* bytes in the driver's trigger pipe
    pend,       \* threads between the unlock and SockTrigger of NsSockClose or NsStopDrivers
    shutdown,   \* DRIVER_SHUTDOWN
    dpc,        \* where DriverThread is in its loop
    accepted,   \* local variables of DriverThread (accepted is 0 outside its loop)
    stopping,
    toTrig,     \* spooler the driver is about to trigger, or None
    spc,        \* where each SpoolerThread is in its loop
    strig,      \* bytes in its pipe
    sshut,      \* queuePtr->shutdown
    mpc         \* main thread: has it called NsStopDrivers

sock == <<open, keep, req>>
drv  == <<dpc, accepted, stopping, toTrig>>
wake == <<trig, pend>>
spool == <<spc, strig, sshut>>
vars == <<at, sock, queuesize, tmp, wake, shutdown, drv, spool, mpc>>

Free    == at[<<Driver, "free">>]
Closed  == at[<<Driver, "closed">>]
Queued  == at[<<Pool, "queued">>]
Running == at[<<Pool, "running">>]
Closing == at[<<Pool, "closing">>]
Work(t) == at[<<t, "work">>]

Init ==
    /\ at = [p \in Places |-> IF p = <<Driver, "free">> THEN Socks ELSE {}]
    /\ open = [s \in Socks |-> FALSE]
    /\ keep = [s \in Socks |-> FALSE]
    /\ req = [s \in Socks |-> FALSE]
    /\ queuesize = 0
    /\ tmp = [t \in Threads |-> 0]
    /\ trig = 0 /\ pend = 0
    /\ shutdown = FALSE
    /\ dpc = "start" /\ accepted = 0 /\ stopping = FALSE /\ toTrig = None
    /\ spc = [p \in Spoolers |-> "off"]
    /\ strig = [p \in Spoolers |-> 0]
    /\ sshut = [p \in Spoolers |-> FALSE]
    /\ mpc = "up"

Move(s, from, to) == [at EXCEPT ![from] = @ \ {s}, ![to] = @ \cup {s}]

\* sockPtr = list; list = NULL: the inner loop takes over a whole list.
Take(from, t) == [at EXCEPT ![<<t, "work">>] = at[from], ![from] = {}]

Drained(bytes) == IF bytes > 0 THEN bytes - 1 ELSE 0

-----------------------------------------------------------------------------
(* Shared by DriverThread and SpoolerThread.                                *)

\* A thread inside SockRelease or before SockTrigger does nothing else.
Busy(t) == at[<<t, "rel">>] # {} \/ (t = Driver /\ toTrig # None)

\* SockClose, and the load of queuesize--.
SockRelease(t, s, from) ==
    /\ at' = Move(s, from, <<t, "rel">>)
    /\ open' = [open EXCEPT ![s] = @ /\ ~ClosesFd]
    /\ keep' = [keep EXCEPT ![s] = FALSE]
    /\ tmp' = [tmp EXCEPT ![t] = queuesize]
    /\ UNCHANGED <<req, queuesize>>

\* Variant of SockReleaseEnd for mutation: queuesize is not decremented.
SockReleaseEndUncounted(t) ==
    \E s \in at[<<t, "rel">>] :
        /\ req' = [req EXCEPT ![s] = FALSE]
        /\ at' = Move(s, <<t, "rel">>, <<Driver, "free">>)
        /\ tmp' = [tmp EXCEPT ![t] = 0]
        /\ UNCHANGED <<open, keep, queuesize, wake, shutdown, drv, spool, mpc>>

\* The store of queuesize--, NsFreeRequest, and the return to the free list.
SockReleaseEnd(t) ==
    \E s \in at[<<t, "rel">>] :
        /\ queuesize' = tmp[t] - 1
        /\ req' = [req EXCEPT ![s] = FALSE]
        /\ at' = Move(s, <<t, "rel">>, <<Driver, "free">>)
        /\ tmp' = [tmp EXCEPT ![t] = 0]
        /\ UNCHANGED <<open, keep, wake, shutdown, drv, spool, mpc>>

\* NsQueueConn takes the socket while the pool has a free Conn.  Once the
\* drivers are being stopped the pool may be shutting down too, and refuse it.
SockQueue(t, s, from) ==
    LET conns == Cardinality(Queued \cup Running \cup Closing)
    IN \/ conns < MaxConns /\ at' = Move(s, from, <<Pool, "queued">>)
       \/ (conns >= MaxConns \/ shutdown) /\ at' = Move(s, from, <<t, "wait">>)

LeaveSock == UNCHANGED <<sock, queuesize, tmp>>

\* SockRead, and SockAccept for NS_DRIVER_ACCEPT_QUEUE, allocate the Request
\* if the socket has none.
SockPrepare(s) == /\ req' = [req EXCEPT ![s] = TRUE]
                  /\ UNCHANGED <<open, keep, queuesize, tmp>>

-----------------------------------------------------------------------------
(* DriverThread.                                                            *)

At(pc) == dpc = pc /\ ~Busy(Driver)

\* The thread opens the listening socket and starts the spoolers, or fails
\* and is stopped before its first round.
DriverStart ==
    /\ dpc = "start"
    /\ \/ /\ dpc' = "poll"
          /\ spc' = [p \in Spoolers |-> "poll"]
          /\ UNCHANGED shutdown
       \/ /\ dpc' = "stopped"
          /\ shutdown' = TRUE
          /\ UNCHANGED spc
    /\ UNCHANGED <<at, sock, queuesize, tmp, wake, accepted, stopping, toTrig, strig, sshut, mpc>>

\* Variant of DriverPoll for mutation: closePtr is not reset.
DriverPollNoReset ==
    /\ At("poll")
    /\ trig' = Drained(trig)
    /\ at' = [at EXCEPT ![<<Driver, "work">>] = at[<<Driver, "close">>]]
    /\ dpc' = "drain"
    /\ LeaveSock /\ UNCHANGED <<pend, shutdown, accepted, stopping, toTrig, spool, mpc>>

\* PollWait returns: a byte, an event, or a timeout (ten seconds, or the
\* earliest timeout of the sockets it polls).
DriverPoll ==
    /\ At("poll")
    /\ trig' = Drained(trig)
    /\ at' = Take(<<Driver, "close">>, Driver)
    /\ dpc' = "drain"
    /\ LeaveSock /\ UNCHANGED <<pend, shutdown, accepted, stopping, toTrig, spool, mpc>>

\* A closing socket: hung up, end of data or expired; or it stays.
DriverDrain(s) ==
    /\ At("drain") /\ s \in Work(Driver)
    /\ \/ SockRelease(Driver, s, <<Driver, "work">>)
       \/ at' = Move(s, <<Driver, "work">>, <<Driver, "close">>) /\ LeaveSock
    /\ UNCHANGED <<wake, shutdown, drv, spool, mpc>>

DriverDrainEnd ==
    /\ At("drain") /\ Work(Driver) = {}
    /\ at' = Take(<<Driver, "read">>, Driver)
    /\ dpc' = "read"
    /\ LeaveSock /\ UNCHANGED <<wake, shutdown, accepted, stopping, toTrig, spool, mpc>>

\* Variant of SockSpoolerQueue for mutation: its caller pushes the socket on
\* readPtr as well.
SockSpoolerQueueTwice(s, from) ==
    /\ req[s]
    /\ \E p \in Spoolers :
        /\ at' = [Move(s, from, <<p, "queue">>) EXCEPT ![<<Driver, "read">>] = @ \cup {s}]
        /\ toTrig' = IF at[<<p, "queue">>] = {} THEN p ELSE None

\* Push on queuePtr->sockPtr of some spooler, and SockTrigger later if the
\* list was empty.  SockRead asks for it only after it has seen the headers.
SockSpoolerQueue(s, from) ==
    /\ req[s]
    /\ \E p \in Spoolers :
        /\ at' = Move(s, from, <<p, "queue">>)
        /\ toTrig' = IF at[<<p, "queue">>] = {} THEN p ELSE None

\* A reading socket: released (hung up, expired, read error), left without
\* data, or read.
DriverRead(s) ==
    /\ At("read") /\ s \in Work(Driver)
    /\ \/ /\ SockRelease(Driver, s, <<Driver, "work">>)
          /\ UNCHANGED toTrig
       \/ /\ at' = Move(s, <<Driver, "work">>, <<Driver, "read">>)
          /\ LeaveSock /\ UNCHANGED toTrig
       \/ /\ Async /\ SockPrepare(s)
          /\ at' = Move(s, <<Driver, "work">>, <<Driver, "read">>)
          /\ UNCHANGED toTrig
       \/ /\ Async /\ SockPrepare(s)
          /\ SockQueue(Driver, s, <<Driver, "work">>)
          /\ UNCHANGED toTrig
       \/ /\ Async /\ SockSpoolerQueue(s, <<Driver, "work">>)
          /\ LeaveSock
       \/ /\ ~Async /\ SockQueue(Driver, s, <<Driver, "work">>)
          /\ LeaveSock /\ UNCHANGED toTrig
    /\ UNCHANGED <<wake, shutdown, dpc, accepted, stopping, spool, mpc>>

SpoolerTrigger ==
    /\ toTrig # None
    /\ strig' = [strig EXCEPT ![toTrig] = @ + 1]
    /\ toTrig' = None
    /\ LeaveSock /\ UNCHANGED <<at, wake, shutdown, dpc, accepted, stopping, spc, sshut, mpc>>

DriverReadEnd ==
    /\ At("read") /\ Work(Driver) = {}
    /\ at' = Take(<<Driver, "wait">>, Driver)
    /\ dpc' = "wait"
    /\ LeaveSock /\ UNCHANGED <<wake, shutdown, accepted, stopping, toTrig, spool, mpc>>

DriverWait(s) ==
    /\ At("wait") /\ s \in Work(Driver)
    /\ SockQueue(Driver, s, <<Driver, "work">>)
    /\ LeaveSock /\ UNCHANGED <<wake, shutdown, drv, spool, mpc>>

\* New connections are accepted only while none is waiting for the pool.
DriverWaitEnd ==
    /\ At("wait") /\ Work(Driver) = {}
    /\ dpc' = IF at[<<Driver, "wait">>] = {} THEN "accept" ELSE "collect"
    /\ LeaveSock /\ UNCHANGED <<at, wake, shutdown, accepted, stopping, toTrig, spool, mpc>>

\* Variant of SockAccept for mutation: the test against maxqueuesize is off by
\* one.
SockAcceptOneMore(s) ==
    /\ At("accept") /\ s \in Free
    /\ accepted < AcceptSize
    /\ queuesize <= MaxQueue
    /\ queuesize >= -DriftCap
    /\ at' = Move(s, <<Driver, "free">>, <<Driver, "fresh">>)
    /\ open' = [open EXCEPT ![s] = TRUE]
    /\ keep' = [keep EXCEPT ![s] = FALSE]
    /\ tmp' = [tmp EXCEPT ![Driver] = queuesize]
    /\ dpc' = "count"
    /\ UNCHANGED <<req, queuesize, wake, shutdown, accepted, stopping, toTrig, spool, mpc>>

\* SockAccept up to the load of queuesize++.
SockAccept(s) ==
    /\ At("accept") /\ s \in Free
    /\ accepted < AcceptSize
    /\ queuesize < MaxQueue
    /\ queuesize >= -DriftCap
    /\ at' = Move(s, <<Driver, "free">>, <<Driver, "fresh">>)
    /\ open' = [open EXCEPT ![s] = TRUE]
    /\ keep' = [keep EXCEPT ![s] = FALSE]
    /\ tmp' = [tmp EXCEPT ![Driver] = queuesize]
    /\ dpc' = "count"
    /\ UNCHANGED <<req, queuesize, wake, shutdown, accepted, stopping, toTrig, spool, mpc>>

SockAcceptCount ==
    /\ At("count")
    /\ queuesize' = tmp[Driver] + 1
    /\ tmp' = [tmp EXCEPT ![Driver] = 0]
    /\ dpc' = "fresh"
    /\ UNCHANGED <<at, sock, wake, shutdown, accepted, stopping, toTrig, spool, mpc>>

\* What the driver does with the accepted socket: wait for data; with data
\* present, read it (async), or queue it unread; queue it with an empty
\* Request (NS_DRIVER_ACCEPT_QUEUE); a failed read ends the accept loop.
SockAcceptEnd(s) ==
    /\ At("fresh") /\ s \in at[<<Driver, "fresh">>]
    /\ \/ /\ at' = Move(s, <<Driver, "fresh">>, <<Driver, "read">>)
          /\ LeaveSock \/ (Async /\ SockPrepare(s))
          /\ accepted' = accepted + 1 /\ dpc' = "accept"
       \/ /\ SockQueue(Driver, s, <<Driver, "fresh">>)
          /\ SockPrepare(s) \/ (~Async /\ LeaveSock)
          /\ accepted' = accepted + 1 /\ dpc' = "accept"
       \/ /\ Async /\ SockRelease(Driver, s, <<Driver, "fresh">>)
          /\ accepted' = 0 /\ dpc' = "collect"
    /\ UNCHANGED <<wake, shutdown, stopping, toTrig, spool, mpc>>

\* Nothing to accept, accept() failed, or a limit is reached.
DriverAcceptEnd ==
    /\ At("accept")
    /\ accepted' = 0 /\ dpc' = "collect"
    /\ LeaveSock /\ UNCHANGED <<at, wake, shutdown, stopping, toTrig, spool, mpc>>

\* Variant of DriverCollect for mutation: flags is not read again.
DriverCollectOnly ==
    /\ At("collect")
    /\ at' = Take(<<Driver, "closed">>, Driver)
    /\ dpc' = "return"
    /\ LeaveSock /\ UNCHANGED <<wake, shutdown, accepted, stopping, toTrig, spool, mpc>>

\* Under drvPtr->lock: take the sockets given back and read the flags.
DriverCollect ==
    /\ At("collect")
    /\ at' = Take(<<Driver, "closed">>, Driver)
    /\ stopping' = shutdown
    /\ dpc' = "return"
    /\ LeaveSock /\ UNCHANGED <<wake, shutdown, accepted, toTrig, spool, mpc>>

\* Variant of DriverReturn for mutation: keep is not tested.
DriverReturnKept(s) ==
    /\ At("return") /\ s \in Work(Driver)
    /\ at' = Move(s, <<Driver, "work">>, <<Driver, "read">>)
    /\ LeaveSock /\ UNCHANGED <<wake, shutdown, drv, spool, mpc>>

\* A kept socket is read again.  For the others shutdown(SHUT_WR) fails on a
\* descriptor that is closed already; one that is open is drained.
DriverReturn(s) ==
    /\ At("return") /\ s \in Work(Driver)
    /\ \/ /\ keep[s]
          /\ at' = Move(s, <<Driver, "work">>, <<Driver, "read">>)
          /\ LeaveSock
       \/ /\ ~keep[s]
          /\ SockRelease(Driver, s, <<Driver, "work">>)
       \/ /\ ~keep[s] /\ open[s]
          /\ at' = Move(s, <<Driver, "work">>, <<Driver, "close">>)
          /\ LeaveSock
    /\ UNCHANGED <<wake, shutdown, drv, spool, mpc>>

\* The next round, or DRIVER_STOPPED.
DriverReturnEnd ==
    /\ At("return") /\ Work(Driver) = {}
    /\ dpc' = IF stopping THEN "stopped" ELSE "poll"
    /\ LeaveSock /\ UNCHANGED <<at, wake, shutdown, accepted, stopping, toTrig, spool, mpc>>

DriverThread ==
    \/ DriverStart \/ DriverPoll \/ DriverDrainEnd \/ SpoolerTrigger
    \/ DriverReadEnd \/ DriverWaitEnd \/ SockAcceptCount \/ DriverAcceptEnd
    \/ DriverCollect \/ DriverReturnEnd \/ SockReleaseEnd(Driver)
    \/ \E s \in Socks : \/ DriverDrain(s) \/ DriverRead(s) \/ DriverWait(s)
                        \/ SockAcceptEnd(s) \/ DriverReturn(s)

-----------------------------------------------------------------------------
(* SpoolerThread.                                                           *)

SpoolerAt(p, pc) == spc[p] = pc /\ ~Busy(p)

SpoolerRound(p) ==
    /\ SpoolerAt(p, "poll")
    /\ strig' = [strig EXCEPT ![p] = Drained(@)]
    /\ at' = Take(<<p, "read">>, p)
    /\ spc' = [spc EXCEPT ![p] = "read"]
    /\ LeaveSock /\ UNCHANGED <<wake, shutdown, drv, sshut, mpc>>

\* PollWait returns for a byte in the pipe or, with nothing to read, after
\* thirty seconds.
SpoolerPoll(p) == (strig[p] > 0 \/ at[<<p, "read">>] = {}) /\ SpoolerRound(p)

\* With sockets to read there is no timeout: a client has to send or hang up.
SpoolerEvent(p) == at[<<p, "read">>] # {} /\ SpoolerRound(p)

\* Released (hung up, expired, failed), left for more data, or complete.
SpoolerRead(p, s) ==
    /\ SpoolerAt(p, "read") /\ s \in Work(p)
    /\ \/ SockRelease(p, s, <<p, "work">>)
       \/ at' = Move(s, <<p, "work">>, <<p, "read">>) /\ LeaveSock
       \/ at' = Move(s, <<p, "work">>, <<p, "wait">>) /\ LeaveSock
    /\ UNCHANGED <<wake, shutdown, drv, spool, mpc>>

SpoolerReadEnd(p) ==
    /\ SpoolerAt(p, "read") /\ Work(p) = {}
    /\ at' = Take(<<p, "wait">>, p)
    /\ spc' = [spc EXCEPT ![p] = "wait"]
    /\ LeaveSock /\ UNCHANGED <<wake, shutdown, drv, strig, sshut, mpc>>

SpoolerWait(p, s) ==
    /\ SpoolerAt(p, "wait") /\ s \in Work(p)
    /\ SockQueue(p, s, <<p, "work">>)
    /\ LeaveSock /\ UNCHANGED <<wake, shutdown, drv, spool, mpc>>

\* Variant of SpoolerCollect for mutation: tests readPtr instead of waitPtr.
SpoolerCollectIdle(p) ==
    /\ SpoolerAt(p, "wait") /\ Work(p) = {}
    /\ at' = IF at[<<p, "read">>] = {}
             THEN [at EXCEPT ![<<p, "read">>] = @ \cup at[<<p, "queue">>],
                             ![<<p, "queue">>] = {}]
             ELSE at
    /\ spc' = [spc EXCEPT ![p] = IF sshut[p] THEN "stopped" ELSE "poll"]
    /\ LeaveSock /\ UNCHANGED <<wake, shutdown, drv, strig, sshut, mpc>>

\* Under queuePtr->lock: take the submitted sockets unless requests are
\* waiting for the pool, and look for the shutdown flag.
SpoolerCollect(p) ==
    /\ SpoolerAt(p, "wait") /\ Work(p) = {}
    /\ at' = IF at[<<p, "wait">>] = {}
             THEN [at EXCEPT ![<<p, "read">>] = @ \cup at[<<p, "queue">>],
                             ![<<p, "queue">>] = {}]
             ELSE at
    /\ spc' = [spc EXCEPT ![p] = IF sshut[p] THEN "stopped" ELSE "poll"]
    /\ LeaveSock /\ UNCHANGED <<wake, shutdown, drv, strig, sshut, mpc>>

SpoolerThread(p) ==
    \/ SpoolerPoll(p) \/ SpoolerReadEnd(p) \/ SpoolerCollect(p) \/ SockReleaseEnd(p)
    \/ \E s \in Socks : SpoolerRead(p, s) \/ SpoolerWait(p, s)

-----------------------------------------------------------------------------
(* The threads that hold a socket.                                          *)

\* Variant of NsGetRequest for mutation: the socket keeps its Request.
NsGetRequestShared(s) ==
    /\ s \in Queued
    /\ Cardinality(Running \cup Closing) + pend < NThreads
    /\ at' = Move(s, <<Pool, "queued">>, <<Pool, "running">>)
    /\ UNCHANGED <<sock, queuesize, tmp, wake, shutdown, drv, spool, mpc>>

\* A connection thread starts on a queued socket; NsGetRequest takes its
\* Request, reading it first if there is none.
NsGetRequest(s) ==
    /\ s \in Queued
    /\ Cardinality(Running \cup Closing) + pend < NThreads
    /\ at' = Move(s, <<Pool, "queued">>, <<Pool, "running">>)
    /\ req' = [req EXCEPT ![s] = FALSE]
    /\ UNCHANGED <<open, keep, queuesize, tmp, wake, shutdown, drv, spool, mpc>>

\* Variant of SockClose for mutation: the connection thread itself puts the
\* socket back on readPtr.
SockCloseReads(s, k) ==
    /\ s \in Running
    /\ at' = Move(s, <<Pool, "running">>, <<Driver, "read">>)
    /\ keep' = [keep EXCEPT ![s] = k]
    /\ open' = [open EXCEPT ![s] = k \/ ~ClosesFd]
    /\ UNCHANGED <<req, queuesize, tmp, wake, shutdown, drv, spool, mpc>>

\* NsSockClose before the lock.  k is what the connection and keepProc want.
SockClose(s, k) ==
    /\ s \in Running
    /\ at' = Move(s, <<Pool, "running">>, <<Pool, "closing">>)
    /\ keep' = [keep EXCEPT ![s] = k]
    /\ open' = [open EXCEPT ![s] = k \/ ~ClosesFd]
    /\ UNCHANGED <<req, queuesize, tmp, wake, shutdown, drv, spool, mpc>>

\* Variant of NsSockClose for mutation: the test for an empty list is inverted.
NsSockCloseLate(s) ==
    /\ s \in Closing
    /\ pend' = IF Closed # {} THEN pend + 1 ELSE pend
    /\ at' = Move(s, <<Pool, "closing">>, <<Driver, "closed">>)
    /\ LeaveSock /\ UNCHANGED <<trig, shutdown, drv, spool, mpc>>

\* Under drvPtr->lock.  Only the first socket on the list triggers the driver.
NsSockClose(s) ==
    /\ s \in Closing
    /\ pend' = IF Closed = {} THEN pend + 1 ELSE pend
    /\ at' = Move(s, <<Pool, "closing">>, <<Driver, "closed">>)
    /\ LeaveSock /\ UNCHANGED <<trig, shutdown, drv, spool, mpc>>

SockTrigger ==
    /\ pend > 0
    /\ pend' = pend - 1
    /\ trig' = trig + 1
    /\ LeaveSock /\ UNCHANGED <<at, shutdown, drv, spool, mpc>>

\* An exiting connection thread wakes the driver.
NsWakeupDriver ==
    /\ trig < TrigCap
    /\ trig' = trig + 1
    /\ LeaveSock /\ UNCHANGED <<at, pend, shutdown, drv, spool, mpc>>

-----------------------------------------------------------------------------
(* The main thread.                                                         *)

NsStopDrivers ==
    /\ mpc = "up" /\ dpc # "start"
    /\ mpc' = "stopping"
    /\ shutdown' = TRUE
    /\ pend' = pend + 1
    /\ LeaveSock /\ UNCHANGED <<at, trig, drv, spool>>

\* Variant of NsStopSpoolers for mutation: the spooler is not triggered.
NsStopSpoolersQuiet(p) ==
    /\ mpc = "stopping" /\ ~sshut[p] /\ spc[p] # "stopped"
    /\ sshut' = [sshut EXCEPT ![p] = TRUE]
    /\ LeaveSock /\ UNCHANGED <<at, wake, shutdown, drv, spc, strig, mpc>>

\* SpoolerQueueStop.  If the spooler was never started there is no pipe.
NsStopSpoolers(p) ==
    /\ mpc = "stopping" /\ ~sshut[p] /\ spc[p] # "stopped"
    /\ sshut' = [sshut EXCEPT ![p] = TRUE]
    /\ strig' = IF spc[p] = "off" THEN strig ELSE [strig EXCEPT ![p] = @ + 1]
    /\ LeaveSock /\ UNCHANGED <<at, wake, shutdown, drv, spc, mpc>>

Next ==
    \/ DriverThread
    \/ \E p \in Spoolers : SpoolerThread(p) \/ SpoolerEvent(p) \/ NsStopSpoolers(p)
    \/ \E s \in Socks : \/ SockAccept(s) \/ NsGetRequest(s) \/ NsSockClose(s)
                        \/ \E k \in BOOLEAN : SockClose(s, k)
    \/ SockTrigger \/ NsWakeupDriver \/ NsStopDrivers

Spec == Init /\ [][Next]_vars

\* Every thread that can go on does.  PollWait of the driver has a
\* timeout; that of a spooler may wait for a client for ever
\* (SpoolerEvent).  Nothing is assumed of clients and of the requests' code.
FairSpec ==
    /\ Spec
    /\ WF_vars(DriverThread)
    /\ \A p \in Spoolers : WF_vars(SpoolerThread(p))
    /\ \A s \in Socks : WF_vars(NsSockClose(s))
    /\ WF_vars(SockTrigger)

-----------------------------------------------------------------------------
(* Properties.                                                              *)

\* The values the variables take.
TypeOK ==
    /\ at \in [Places -> SUBSET Socks]
    /\ open \in [Socks -> BOOLEAN] /\ keep \in [Socks -> BOOLEAN] /\ req \in [Socks -> BOOLEAN]
    /\ queuesize \in Int /\ tmp \in [Threads -> Int]
    /\ trig \in Nat /\ pend \in Nat /\ shutdown \in BOOLEAN
    /\ dpc \in {"start", "poll", "drain", "read", "wait", "accept", "count", "fresh",
                "collect", "return", "stopped"}
    /\ accepted \in Nat /\ stopping \in BOOLEAN /\ toTrig \in Spoolers \cup {None}
    /\ spc \in [Spoolers -> {"off", "poll", "read", "wait", "stopped"}]
    /\ strig \in [Spoolers -> Nat] /\ sshut \in [Spoolers -> BOOLEAN]
    /\ mpc \in {"up", "stopping"}

\* A Sock is in exactly one list at any time, whichever of the threads moves
\* it: nextPtr is shared by all lists, so a socket in two of them, or in none,
\* would corrupt them or be lost (DriverThread, SpoolerThread, NsSockClose,
\* SockSpoolerQueue, SockRelease).
OneOwner == \A s \in Socks : \E p \in Places : \A q \in Places : s \in at[q] <=> q = p

\* An inner loop starts on an empty list of its own, or the rest of the list
\* it walked before would be lost; and only the driver starts the spoolers.
NoLeftover ==
    /\ dpc \notin {"drain", "read", "wait", "return"} => Work(Driver) = {}
    /\ \A p \in Spoolers : spc[p] \notin {"read", "wait"} => Work(p) = {}
    /\ dpc = "start" => \A p \in Spoolers : spc[p] = "off"

\* Inductive: with NoLeftover, no step puts a socket in two lists.
OwnerInv == TypeOK /\ OneOwner /\ NoLeftover

\* A driver that waits in poll() while sockets have been given back, or while
\* it has been told to stop, has a byte in its trigger pipe or is about to get
\* one, although only the first socket on the list sends one (NsSockClose).
TriggerComing == dpc = "poll" /\ (Closed # {} \/ shutdown) => trig + pend > 0

\* The same for a spooler, unless it holds requests the pool has refused:
\* then it leaves new sockets in the queue (SockSpoolerQueue, SpoolerThread).
SpoolerTriggerComing ==
    \A p \in Spoolers :
        spc[p] = "poll" =>
            /\ sshut[p] => strig[p] > 0
            /\ at[<<p, "queue">>] # {} =>
                    strig[p] > 0 \/ toTrig = p \/ at[<<p, "wait">>] # {}

\* The Request of a socket is handed over once: a socket that waits for the
\* pool or is queued has a complete one in async mode, and one that a thread
\* has taken, given back or released has none, so the next request of a
\* kept connection starts with a buffer of its own (NsGetRequest, SockRelease).
RequestHandedOver ==
    /\ \A s \in Free \cup Running \cup Closing \cup Closed : ~req[s]
    /\ Async => \A s \in Queued \cup UNION {at[<<t, "wait">>] : t \in Threads} : req[s]

\* drvPtr->queuesize counts the sockets in use whenever no thread is in the
\* middle of changing it (SockAccept, SockRelease).
QueueSizeExact ==
    dpc # "count" /\ (\A t \in Threads : at[<<t, "rel">>] = {})
        => queuesize = Cardinality(Socks \ Free)

\* maxqueuesize bounds the sockets in use (DriverThread, accept loop).
QueueBound == Cardinality(Socks \ Free) <= MaxQueue

\* drvPtr->queuesize is exact and keeps the sockets in use within
\* maxqueuesize (DriverThread's accept loop, SockAccept, SockRelease).
QueueSize == QueueSizeExact /\ QueueBound

\* Stages of the life of a Sock.
life ==
    [s \in Socks |->
        IF s \in Free THEN "free"
        ELSE IF s \in Queued \cup Running THEN "queued"
        ELSE IF \/ s \in Closing \cup Closed \cup at[<<Driver, "close">>]
                \/ \E t \in Threads : s \in at[<<t, "rel">>]
                \/ dpc \in {"drain", "return"} /\ s \in Work(Driver)
             THEN "closing"
        ELSE "reading"]

Life == INSTANCE SockLife WITH life <- life, open <- open, Socks <- Socks

\* The threads together implement the life cycle of SockLife: for instance a
\* connection thread never frees a socket, and a socket is queued or read
\* again only while its connection is open (SockClose, DriverReturn).
LifeSpec == Life!Spec

\* Once NsStopDrivers has set DRIVER_SHUTDOWN the driver ends, whatever
\* clients do and however many sockets it holds (DriverThread).
DriverStops == mpc = "stopping" ~> dpc = "stopped"

\* A running spooler told to stop by NsStopSpoolers ends, whatever clients do,
\* although its poll() has no timeout while it reads sockets: the byte in its
\* pipe is not used up before the flag is seen (SpoolerThread).
SpoolersStop == \A p \in Spoolers : sshut[p] /\ spc[p] # "off" ~> spc[p] = "stopped"

\* A shutdown ends the driver thread and its spoolers.
SockLive == DriverStops /\ SpoolersStop
=============================================================================
