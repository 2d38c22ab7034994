---------------------------- MODULE SockCallback ----------------------------
(***************************************************************************)
(* Socket callbacks (nsd/sockcallback.c) and the detached connections that *)
(* use them (nsd/connchan.c): threads queue registrations and              *)
(* cancellations, SockCallbackThread keeps the table of callbacks, polls   *)
(* the sockets and calls NsTclConnChanProc, whose script may close the     *)
(* channel or register another callback.                                   *)
(*                                                                         *)
(* A socket number stands for its connection channel: it is used again     *)
(* once the channel is closed.  A Callback of connchan.c is the argument   *)
(* of the registration; freeing it does not take it out of the table.      *)
(* ChanRaces lets other threads, and the script of a callback that is told *)
(* of several events at once or runs during shutdown, close channels whose *)
(* callback is registered.                                                 *)
(***************************************************************************)
EXTENDS Integers, FiniteSets, Sequences

CONSTANTS Fds, Cbs, TimedCbs, NoCb, ChanRaces, ReqMax

VARIABLES
    schan,          \* channels: "none", "open"
    schcb,          \* connChanPtr->cbPtr
    slive,          \* the Callbacks of connchan.c that exist
    squeue,         \* firstQueuePtr
    stable, szero,  \* the table: socket -> callback, and the entries with no events left (when = 0)
    srunning, cbShut,
    sthr,           \* SockCallbackThread: "none", "made", "drain", "time", "poll", "dispatch", "exits", "done"
    sstop, sready,  \* stop, and the events of the last poll not dispatched yet
    sexit,          \* sockets still to be told of the exit
    cbTrig, ssend,   \* bytes in the trigger pipe, threads about to write one
    screate,        \* a thread is about to make the pipe and the thread
    sregister       \* sockets whose new callback is to be queued after the cancellation

scVars == <<schan, schcb, slive>>
stVars == <<stable, szero, sthr, sstop, sready, sexit>>
sockcbVars == <<scVars, squeue, srunning, cbShut, stVars, cbTrig, ssend, screate, sregister>>

ScInit ==
    /\ schan = [f \in Fds |-> "none"] /\ schcb = [f \in Fds |-> NoCb] /\ slive = {}
    /\ squeue = <<>> /\ stable = [f \in Fds |-> NoCb] /\ szero = {} /\ srunning = FALSE /\ cbShut = FALSE
    /\ sthr = "none" /\ sstop = FALSE /\ sready = {} /\ sexit = {}
    /\ cbTrig = 0 /\ ssend = 0 /\ screate = FALSE /\ sregister = {}

-----------------------------------------------------------------------------
(* Queue, and the commands of ns_connchan.                                  *)

\* Mutant: the thread is not woken.
QueueSilent(req) ==
    /\ squeue' = Append(squeue, req)
    /\ IF ~srunning
       THEN srunning' = TRUE /\ screate' = TRUE /\ UNCHANGED ssend
       ELSE UNCHANGED <<ssend, srunning, screate>>

\* Mutant: a request is put at the head of the queue.
QueueFirst(req) ==
    /\ squeue' = <<req>> \o squeue
    /\ IF ~srunning
       THEN srunning' = TRUE /\ screate' = TRUE /\ UNCHANGED ssend
       ELSE ssend' = (IF squeue = <<>> THEN ssend + 1 ELSE ssend) /\ UNCHANGED <<srunning, screate>>

\* A request is added under the lock; the first one of an empty queue
\* makes the thread, or has it woken, after the lock is released.
Queue(req) ==
    /\ squeue' = Append(squeue, req)
    /\ IF ~srunning
       THEN srunning' = TRUE /\ screate' = TRUE /\ UNCHANGED ssend
       ELSE ssend' = (IF squeue = <<>> THEN ssend + 1 ELSE ssend) /\ UNCHANGED <<srunning, screate>>

Unqueued == UNCHANGED <<squeue, srunning, screate, ssend>>

CallbackTrigger ==
    /\ ssend > 0
    /\ ssend' = ssend - 1 /\ cbTrig' = cbTrig + 1
    /\ UNCHANGED <<scVars, squeue, srunning, cbShut, stVars, screate, sregister>>

SockCreate ==
    /\ screate
    /\ screate' = FALSE /\ sthr' = "made"
    /\ UNCHANGED <<scVars, squeue, srunning, cbShut, stable, szero, sstop, sready, sexit, cbTrig, ssend, sregister>>

\* Bounds: requests in the queue, and bytes that are or will be in the pipe.
Room == Len(squeue) < ReqMax /\ cbTrig + ssend < ReqMax

Reg(f, cb) == [sock |-> f, cb |-> cb]

Cancel(f) == Reg(f, NoCb)

\* ns_connchan detach.
ChanDetach(f) ==
    /\ schan[f] = "none" /\ sthr # "done" /\ f \notin sregister
    /\ schan' = [schan EXCEPT ![f] = "open"]
    /\ UNCHANGED <<schcb, slive, squeue, srunning, cbShut, stVars, cbTrig, ssend, screate, sregister>>

\* ConnChanFree: the entry, the callback (CallbackFree queues a cancellation
\* that Queue refuses during shutdown) and the socket.
ConnChanFree(f) ==
    /\ schan' = [schan EXCEPT ![f] = "none"]
    /\ IF schcb[f] = NoCb
       THEN UNCHANGED <<schcb, slive>> /\ Unqueued
       ELSE /\ slive' = slive \ {schcb[f]} /\ schcb' = [schcb EXCEPT ![f] = NoCb]
            /\ IF cbShut THEN Unqueued ELSE Queue(Cancel(f))

ChanClose(f) ==
    /\ schan[f] = "open" /\ f \notin sregister
    /\ ChanRaces \/ schcb[f] = NoCb
    /\ Room
    /\ ConnChanFree(f)
    /\ UNCHANGED <<cbShut, stVars, cbTrig, sregister>>

\* SockCallbackRegister: the callback before is freed and cancelled, ...
CallbackFree(f) ==
    /\ slive' = slive \ {schcb[f]} /\ schcb' = [schcb EXCEPT ![f] = NoCb] /\ UNCHANGED schan
    /\ IF schcb[f] = NoCb \/ cbShut THEN Unqueued ELSE Queue(Cancel(f))

ChanCallback(f) ==
    /\ schan[f] = "open" /\ f \notin sregister
    /\ ChanRaces \/ schcb[f] = NoCb
    /\ Room
    /\ CallbackFree(f)
    /\ sregister' = sregister \cup {f}
    /\ UNCHANGED <<cbShut, stVars, cbTrig>>

\* ... and the new one queued; if that fails the channel is freed.
ChanRegister(f, cb) ==
    /\ f \in sregister /\ Room
    /\ cb \notin slive /\ \A i \in DOMAIN squeue : squeue[i].cb # cb
    /\ \A g \in Fds : stable[g] # cb
    /\ sregister' = sregister \ {f}
    /\ IF cbShut
       THEN schan' = [schan EXCEPT ![f] = "none"] /\ UNCHANGED <<schcb, slive>> /\ Unqueued
       ELSE /\ slive' = slive \cup {cb} /\ schcb' = [schcb EXCEPT ![f] = cb] /\ UNCHANGED schan
            /\ Queue(Reg(f, cb))
    /\ UNCHANGED <<cbShut, stVars, cbTrig>>

-----------------------------------------------------------------------------
(* SockCallbackThread.                                                      *)

Requests(f) == {i \in DOMAIN squeue : squeue[i].sock = f}

\* The entry of f after the requests of the queue, in order.
EntryOf(f) ==
    IF Requests(f) = {} THEN stable[f]
    ELSE squeue[CHOOSE i \in Requests(f) : \A j \in Requests(f) : j <= i].cb

\* Mutant: a thread that is to stop leaves the queue alone.
ThreadDrainStops ==
    /\ sthr \in {"made", "drain"}
    /\ sstop' = cbShut
    /\ squeue' = (IF cbShut THEN squeue ELSE <<>>)
    /\ stable' = (IF cbShut THEN stable ELSE [f \in Fds |-> EntryOf(f)])
    /\ szero' = {f \in szero : Requests(f) = {}}
    /\ sthr' = "time"
    /\ UNCHANGED <<scVars, srunning, cbShut, sready, sexit, cbTrig, ssend, screate, sregister>>

ThreadDrain ==
    /\ sthr \in {"made", "drain"}
    /\ squeue' = <<>> /\ sstop' = cbShut
    /\ stable' = [f \in Fds |-> EntryOf(f)] /\ szero' = {f \in szero : Requests(f) = {}}
    /\ sthr' = "time"
    /\ UNCHANGED <<scVars, srunning, cbShut, sready, sexit, cbTrig, ssend, screate, sregister>>

Calm == UNCHANGED <<scVars, sregister>> /\ Unqueued

\* Mutant: the entry of a freed channel keeps its events.
ConnChanProcAgain(f, more) ==
    \/ Calm /\ UNCHANGED szero
    \/ /\ stable[f] \in slive
       /\ ConnChanFree(f) /\ UNCHANGED <<szero, sregister>>

\* What NsTclConnChanProc does: the script returns true, or the channel is
\* freed; the script may have closed it or registered another callback.
\* (A callback that was freed leads nowhere.)
ConnChanProc(f, more) ==
    \/ Calm /\ UNCHANGED szero
    \/ /\ stable[f] \in slive
       /\ ConnChanFree(f) /\ szero' = szero \cup {f} /\ UNCHANGED sregister
    \/ /\ stable[f] \in slive
       /\ ChanRaces \/ (~more /\ ~cbShut)
       /\ f \notin sregister /\ Room
       /\ \/ ConnChanFree(f) /\ UNCHANGED sregister
          \/ CallbackFree(f) /\ sregister' = sregister \cup {f}
       /\ UNCHANGED szero

\* Timeouts: the callback is told and its entry deleted, whatever it answers.
ThreadTimeout(f) ==
    /\ sthr = "time" /\ stable[f] \in TimedCbs
    /\ \/ Calm
       \/ stable[f] \in slive /\ ConnChanFree(f) /\ UNCHANGED sregister
    /\ stable' = [stable EXCEPT ![f] = NoCb] /\ szero' = szero \ {f}
    /\ UNCHANGED <<cbShut, sthr, sstop, sready, sexit, cbTrig>>

\* Entries without events are deleted, and the thread stops or polls.
ThreadPrepare ==
    /\ sthr = "time"
    /\ stable' = [f \in Fds |-> IF f \in szero THEN NoCb ELSE stable[f]] /\ szero' = {}
    /\ sthr' = IF sstop THEN "exits" ELSE "poll"
    /\ sexit' = {f \in Fds : sstop /\ stable'[f] # NoCb}
    /\ UNCHANGED <<scVars, squeue, srunning, cbShut, sstop, sready, cbTrig, ssend, screate, sregister>>

\* poll: one trigger byte is read; it ends without events after 30 seconds.
ThreadPoll(events) ==
    /\ sthr = "poll"
    /\ \A e \in events : stable[e[1]] # NoCb
    /\ cbTrig' = IF cbTrig > 0 THEN cbTrig - 1 ELSE 0
    /\ sready' = events /\ sthr' = "dispatch"
    /\ UNCHANGED <<scVars, squeue, srunning, cbShut, stable, szero, sstop, sexit, ssend, screate, sregister>>

\* The callback is called once for each event, read before write; when it
\* returned false the others are not looked at.
ThreadDispatch(f, e) ==
    /\ sthr = "dispatch" /\ <<f, e>> \in sready
    /\ e = "w" => <<f, "r">> \notin sready
    /\ sready' = sready \ {<<f, e>>}
    /\ IF f \in szero
       THEN Calm /\ UNCHANGED szero
       ELSE ConnChanProc(f, \E g \in sready' : g[1] = f)
    /\ UNCHANGED <<cbShut, stable, sthr, sstop, sexit, cbTrig>>

ThreadAgain ==
    /\ sthr = "dispatch" /\ sready = {}
    /\ sthr' = "drain"
    /\ UNCHANGED <<scVars, squeue, srunning, cbShut, stable, szero, sstop, sready, sexit, cbTrig, ssend, screate, sregister>>

\* NS_SOCK_EXIT: NsTclConnChanProc frees the channel.
ThreadExitCall(f) ==
    /\ sthr = "exits" /\ f \in sexit
    /\ sexit' = sexit \ {f}
    /\ IF stable[f] \in slive THEN ConnChanFree(f) /\ UNCHANGED sregister ELSE Calm
    /\ UNCHANGED <<cbShut, stable, szero, sthr, sstop, sready, cbTrig>>

ThreadExit ==
    /\ sthr = "exits" /\ sexit = {}
    /\ sthr' = "done" /\ srunning' = FALSE /\ stable' = [f \in Fds |-> NoCb]
    /\ UNCHANGED <<scVars, squeue, cbShut, szero, sstop, sready, sexit, cbTrig, ssend, screate, sregister>>

\* Mutant: the thread is not woken to stop.
NsStartSockShutdownSilent ==
    /\ ~cbShut /\ ~screate /\ srunning
    /\ cbShut' = TRUE
    /\ UNCHANGED <<scVars, squeue, srunning, stVars, cbTrig, ssend, screate, sregister>>

\* NsStartSockShutdown writes the byte under the lock, to a pipe that the
\* thread which starts the callbacks has made by then.
NsStartSockShutdown ==
    /\ ~cbShut /\ ~screate
    /\ srunning
    /\ cbShut' = TRUE /\ cbTrig' = cbTrig + 1
    /\ UNCHANGED <<scVars, squeue, srunning, stVars, ssend, screate, sregister>>

SockThread ==
    \/ ThreadDrain \/ ThreadPrepare \/ ThreadAgain \/ ThreadExit
    \/ cbTrig > 0 /\ ThreadPoll({})
    \/ \E f \in Fds : ThreadExitCall(f) \/ \E e \in {"r", "w"} : ThreadDispatch(f, e)

ScNext ==
    \/ \E f \in Fds :
          \/ ChanDetach(f) \/ ChanClose(f) \/ ChanCallback(f) \/ ThreadTimeout(f)
          \/ \E cb \in Cbs : ChanRegister(f, cb)
    \/ \E events \in SUBSET (Fds \X {"r", "w"}) : ThreadPoll(events)
    \/ CallbackTrigger \/ SockCreate \/ NsStartSockShutdown
    \/ SockThread

\* The thread runs, and a thread that left Queue with something to do does it.
ScFair == WF_sockcbVars(SockThread) /\ WF_sockcbVars(CallbackTrigger) /\ WF_sockcbVars(SockCreate)

ScSpec == ScInit /\ [][ScNext]_sockcbVars /\ ScFair

-----------------------------------------------------------------------------
(* Properties.                                                              *)

\* Nobody's request waits for the 30 seconds of an idle poll: while the
\* thread polls and requests are queued, or it is to stop, there is a byte in
\* the trigger pipe or a thread about to write one (Queue, CallbackTrigger).
ScTriggerComing == sthr = "poll" /\ (squeue # <<>> \/ (cbShut /\ ~sstop)) => cbTrig > 0 \/ ssend > 0

\* The table and the queue agree with what the channels were told: once the
\* queue is worked off, an open channel with a callback has it in the table,
\* although requests for one socket number come from one channel after another.
ScRegistered ==
    \A f \in Fds :
        schcb[f] # NoCb /\ ~cbShut => EntryOf(f) = schcb[f] \/ (EntryOf(f) = NoCb /\ schcb[f] \in TimedCbs)

\* A callback that the thread is about to call has an argument that exists:
\* closing a channel frees it while the table still refers to it.
ScCallbackLive ==
    /\ sthr = "dispatch" => \A e \in sready : e[1] \notin szero => stable[e[1]] \in slive
    /\ sthr = "exits" => \A f \in sexit : stable[f] \in slive

\* After shutdown no channel with a registered callback is left, those queued
\* last included: the exit callbacks have closed them, except the ones whose
\* timeout took them out of the table without closing them.
ScAllClosed == sthr = "done" => \A f \in Fds : schcb[f] \in TimedCbs \cup {NoCb}

\* NsStartSockShutdown stops the thread.
ScStops == cbShut ~> sthr = "done"

\* A queued request is carried out.
ScServed == squeue # <<>> ~> squeue = <<>>

=============================================================================
