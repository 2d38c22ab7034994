----------------------------- MODULE ProxySlave -----------------------------
(***************************************************************************)
(* A proxy handle and its slave process (nsproxy/nsproxylib.c): scripts go *)
(* to the slave over a pipe and results come back, with Send, Wait and     *)
(* Recv as separate commands or together as Eval; get checks the slave     *)
(* with a ping or starts a new one; put resets the handle.                 *)
(*                                                                         *)
(* hdo is what is left to do of the command in progress, in the order of   *)
(* the calls: CreateSlave evaluates an init script and a ping, Send starts *)
(* a new slave after maxruns scripts.  A script is known by a tag that is  *)
(* used again only when its answer cannot be under way any more.  A slave  *)
(* that has been closed is of no further interest (module ProxyReaper).    *)
(* HStops lets another thread run ns_proxy stop.                           *)
(***************************************************************************)
EXTENDS Integers, Sequences, FiniteSets

CONSTANTS
    HMaxRuns,       \* maxruns, 0 for no limit
    HInits,         \* whether the pool has init and reinit scripts
    HStops

VARIABLES
    hplace,         \* "free" (in the pool) or "used"
    hstate,         \* proxyPtr->state: "Idle", "Busy", "Done"
    hslave,         \* proxyPtr->slavePtr # NULL
    hrun,           \* in the list of running proxies
    numruns,
    hdo,            \* calls to come
    herr,           \* the call before failed
    hscript,        \* tag of the script in proxyPtr->in
    hin, hout,      \* scripts and results in the pipes
    hup,            \* the process of the slave lives
    hserved,        \* scripts the slave has been sent
    hgot,           \* "none", "right" or "wrong": the last result received
    hcrash          \* RecvBuf has been called without a slave

hpVars == <<hin, hout, hup>>
handleVars == <<hplace, hstate, hslave, hrun, numruns, hdo, herr, hscript, hpVars, hserved, hgot, hcrash>>

\* Tags of scripts, and what is left of one that was not sent to its end.
HTags == 4

Half == HTags

HInit ==
    /\ hplace = "free" /\ hstate = "Idle" /\ hslave = FALSE /\ hrun = FALSE /\ numruns = 0
    /\ hdo = <<>> /\ herr = FALSE /\ hscript = 0 /\ hin = <<>> /\ hout = <<>> /\ hup = FALSE
    /\ hserved = 0 /\ hgot = "none" /\ hcrash = FALSE

\* Without the calls that Eval leaves out after a failure.
RECURSIVE Skip(_, _)
Skip(todo, calls) == IF todo # <<>> /\ Head(todo) \in calls THEN Skip(Tail(todo), calls) ELSE todo

HEval == <<"send", "wait", "recv">>

CloseProxy(runs) == hslave' = FALSE /\ hup' = FALSE /\ hin' = <<>> /\ hout' = <<>> /\ numruns' = IF hslave THEN 0 ELSE runs

-----------------------------------------------------------------------------
(* Commands: what they have to do.                                          *)

Begin(todo) == /\ hdo' = todo /\ herr' = FALSE

\* GetObjCmd: CheckProxy on a proxy just taken from the pool.
HGet ==
    /\ hplace = "free"
    /\ hplace' = "used"
    /\ Begin(IF hslave THEN HEval \o <<"checked", "got">> ELSE <<"exec", "got">>)
    /\ UNCHANGED <<hstate, hslave, hrun, numruns, hscript, hpVars, hserved, hgot, hcrash>>

\* ns_proxy send, wait, recv, eval and ping on a handle in use.
HCommand ==
    /\ hplace = "used" /\ hdo = <<>>
    /\ \E todo \in {<<"send">>, <<"wait">>, <<"recv">>, HEval} : Begin(todo)
    /\ UNCHANGED <<hplace, hstate, hslave, hrun, numruns, hscript, hpVars, hserved, hgot, hcrash>>

\* ReleaseProxy: the reinit script, if idle, then PushProxy.
HPut ==
    /\ hplace = "used" /\ hdo = <<>>
    /\ Begin(IF hstate = "Idle" /\ HInits THEN HEval \o <<"push">> ELSE <<"push">>)
    /\ UNCHANGED <<hplace, hstate, hslave, hrun, numruns, hscript, hpVars, hserved, hgot, hcrash>>

-----------------------------------------------------------------------------
(* Send, Wait and Recv.                                                     *)

Fails(skip) == herr' = TRUE /\ hdo' = Skip(Tail(hdo), skip)

HSend ==
    /\ hdo # <<>> /\ Head(hdo) = "send"
    /\ IF ~hslave \/ hstate # "Idle"
       THEN /\ Fails({"wait", "recv"})
            /\ UNCHANGED <<hslave, numruns, hpVars>>
       ELSE IF HMaxRuns > 0 /\ numruns + 1 > HMaxRuns
       THEN /\ CloseProxy(numruns) /\ herr' = FALSE
            /\ hdo' = <<"exec", "sendbuf">> \o Tail(hdo)
       ELSE /\ numruns' = numruns + 1 /\ herr' = FALSE
            /\ hdo' = <<"sendbuf">> \o Tail(hdo)
            /\ UNCHANGED <<hslave, hpVars>>
    /\ UNCHANGED <<hplace, hstate, hrun, hscript, hserved, hgot, hcrash>>

\* The rest of Send: the proxy is busy and running, then SendBuf writes the
\* script, fails (the process is gone, or a new one could not be started)
\* or times out half way.
HSendBuf ==
    /\ hdo # <<>> /\ Head(hdo) = "sendbuf"
    /\ IF herr
       THEN /\ Fails({"wait", "recv"})
            /\ UNCHANGED <<hstate, hrun, hscript, hin, hserved>>
       ELSE /\ hstate' = "Busy" /\ hrun' = TRUE
            /\ hscript' = (hscript + 1) % HTags
            /\ \/ hup /\ hin' = Append(hin, hscript') /\ herr' = FALSE /\ hdo' = Tail(hdo) /\ hserved' = hserved + 1
               \/ hup /\ hin' = Append(hin, Half) /\ Fails({"wait", "recv"}) /\ UNCHANGED hserved
               \/ ~hup /\ Fails({"wait", "recv"}) /\ UNCHANGED <<hin, hserved>>
    /\ UNCHANGED <<hplace, hslave, numruns, hout, hup, hgot, hcrash>>

\* Wait up to its poll of rfd, and the end of that poll.
HWait ==
    /\ hdo # <<>> /\ Head(hdo) = "wait"
    /\ IF hstate = "Idle" \/ ~hslave
       THEN Fails({"recv"})
       ELSE /\ herr' = FALSE
            /\ hdo' = IF hstate = "Done" THEN Tail(hdo) ELSE <<"poll">> \o Tail(hdo)
    /\ UNCHANGED <<hplace, hstate, hslave, hrun, numruns, hscript, hpVars, hserved, hgot, hcrash>>

\* Mutant: the poll has no timeout and does not see the end of the slave.
HPollBlocks ==
    /\ hdo # <<>> /\ Head(hdo) = "poll"
    /\ hout # <<>> /\ hstate' = "Done" /\ hdo' = Tail(hdo)
    /\ UNCHANGED <<herr, hplace, hslave, hrun, numruns, hscript, hpVars, hserved, hgot, hcrash>>

HPoll ==
    /\ hdo # <<>> /\ Head(hdo) = "poll"
    /\ \/ /\ hout # <<>> \/ ~hup
          /\ hstate' = "Done" /\ hdo' = Tail(hdo) /\ UNCHANGED herr
       \/ Fails({"recv"}) /\ UNCHANGED hstate
    /\ UNCHANGED <<hplace, hslave, hrun, numruns, hscript, hpVars, hserved, hgot, hcrash>>

\* Mutant: the slave is kept although its answer is outstanding.
ResetProxyKeeps(state) ==
    /\ hstate' = "Idle" /\ hrun' = FALSE
    /\ UNCHANGED <<hslave, numruns, hup, hin>>
    /\ hout' = hout \/ state = "Idle"

\* Mutant: the state is not reset.
ResetProxyDone(state) ==
    /\ IF state # "Idle"
       THEN CloseProxy(numruns) /\ hstate' = state
       ELSE hstate' = "Idle" /\ UNCHANGED <<hslave, numruns, hup, hin>>
    /\ hrun' = FALSE

\* Mutant: an idle proxy stays in the list of running ones.
ResetProxyRuns(state) ==
    /\ IF state # "Idle"
       THEN CloseProxy(numruns) /\ hrun' = FALSE
       ELSE UNCHANGED <<hrun, hslave, numruns, hup, hin>>
    /\ hstate' = "Idle"

\* ResetProxy: a proxy that is not idle loses its slave.
ResetProxy(state) ==
    /\ IF state # "Idle"
       THEN CloseProxy(numruns)
       ELSE UNCHANGED <<hslave, numruns, hup, hin>>
    /\ hstate' = "Idle" /\ hrun' = FALSE

\* Recv: RecvBuf gets a whole result, or it fails or times out; the proxy is
\* reset in any case.
HRecv ==
    /\ hdo # <<>> /\ Head(hdo) = "recv"
    /\ IF hstate # "Done"
       THEN /\ Fails({})
            /\ UNCHANGED <<hstate, hslave, hrun, numruns, hpVars, hgot, hcrash>>
       ELSE IF ~hslave
       THEN /\ hcrash' = TRUE /\ Fails({})
            /\ UNCHANGED <<hstate, hslave, hrun, numruns, hpVars, hgot>>
       ELSE /\ \/ /\ hout # <<>>
                  /\ hgot' = IF Head(hout) = hscript THEN "right" ELSE "wrong"
                  /\ ResetProxy("Idle") /\ hout' = Tail(hout)
                  /\ herr' = FALSE /\ hdo' = Tail(hdo)
               \/ ResetProxy("Done") /\ Fails({}) /\ UNCHANGED hgot
            /\ UNCHANGED hcrash
    /\ UNCHANGED <<hplace, hscript, hserved>>

-----------------------------------------------------------------------------
(* CheckProxy, CreateSlave and PushProxy.                                   *)

\* CheckProxy after the ping: a slave that did not answer is replaced.
HChecked ==
    /\ hdo # <<>> /\ Head(hdo) = "checked"
    /\ IF herr THEN CloseProxy(numruns) ELSE UNCHANGED <<hslave, hup, hin, hout, numruns>>
    /\ herr' = FALSE
    /\ hdo' = IF herr \/ ~hslave THEN <<"exec">> \o Tail(hdo) ELSE Tail(hdo)
    /\ UNCHANGED <<hplace, hstate, hrun, hscript, hserved, hgot, hcrash>>

\* CreateSlave: ExecSlave, then the init script and a ping.
HExec ==
    /\ hdo # <<>> /\ Head(hdo) = "exec"
    /\ \/ /\ hslave' = TRUE /\ hup' = TRUE /\ hin' = <<>> /\ hout' = <<>> /\ hserved' = 0
          /\ herr' = FALSE
          /\ hdo' = HEval \o (IF HInits THEN <<"inited">> ELSE <<"created">>) \o Tail(hdo)
       \/ /\ herr' = TRUE /\ hdo' = Tail(hdo)
          /\ UNCHANGED <<hslave, hpVars, hserved>>
    /\ UNCHANGED <<hplace, hstate, hrun, numruns, hscript, hgot, hcrash>>

HInited ==
    /\ hdo # <<>> /\ Head(hdo) = "inited"
    /\ IF herr
       THEN CloseProxy(numruns) /\ hdo' = Tail(hdo)
       ELSE hdo' = HEval \o <<"created">> \o Tail(hdo) /\ UNCHANGED <<hslave, hpVars, numruns>>
    /\ UNCHANGED <<hplace, hstate, hrun, herr, hscript, hserved, hgot, hcrash>>

HCreated ==
    /\ hdo # <<>> /\ Head(hdo) = "created"
    /\ hdo' = Tail(hdo)
    /\ IF herr THEN CloseProxy(numruns) ELSE UNCHANGED <<hslave, hpVars, numruns>>
    /\ UNCHANGED <<hplace, hstate, hrun, herr, hscript, hserved, hgot, hcrash>>

\* The end of a get: the handle is the thread's, or goes back.
HGot ==
    /\ hdo # <<>> /\ Head(hdo) = "got"
    /\ hdo' = IF herr THEN <<"push">> ELSE <<>>
    /\ UNCHANGED <<hplace, hstate, hslave, hrun, numruns, herr, hscript, hpVars, hserved, hgot, hcrash>>

HPush ==
    /\ hdo # <<>> /\ Head(hdo) = "push"
    /\ ResetProxy(hstate) /\ hout' = (IF hstate # "Idle" THEN <<>> ELSE hout)
    /\ hplace' = "free" /\ hdo' = <<>> /\ hgot' = "none"
    /\ UNCHANGED <<herr, hscript, hserved, hcrash>>

-----------------------------------------------------------------------------
(* The slave (Ns_ProxyMain), the reaper and other threads.                  *)

HAnswer ==
    /\ hup /\ hin # <<>> /\ Head(hin) # Half
    /\ hin' = Tail(hin) /\ hout' = Append(hout, Head(hin))
    /\ UNCHANGED <<hplace, hstate, hslave, hrun, numruns, hdo, herr, hscript, hup, hserved, hgot, hcrash>>

HDies ==
    /\ hup
    /\ hup' = FALSE
    /\ UNCHANGED <<hplace, hstate, hslave, hrun, numruns, hdo, herr, hscript, hin, hout, hserved, hgot, hcrash>>

\* ns_proxy clear and the idle timeout take the slave of a free proxy.
HClear ==
    /\ hplace = "free" /\ hslave
    /\ hslave' = FALSE /\ hup' = FALSE /\ hin' = <<>> /\ hout' = <<>>
    /\ UNCHANGED <<hplace, hstate, hrun, numruns, hdo, herr, hscript, hserved, hgot, hcrash>>

\* ns_proxy stop takes the slave of a running one.
HStop ==
    /\ HStops /\ hrun /\ hslave
    /\ hslave' = FALSE /\ hup' = FALSE /\ hin' = <<>> /\ hout' = <<>>
    /\ UNCHANGED <<hplace, hstate, hrun, numruns, hdo, herr, hscript, hserved, hgot, hcrash>>

HThread == HSend \/ HSendBuf \/ HWait \/ HPoll \/ HRecv \/ HChecked \/ HExec \/ HInited \/ HCreated \/ HGot \/ HPush

HNext == HGet \/ HCommand \/ HPut \/ HThread \/ HAnswer \/ HDies \/ HClear \/ HStop

HFair == WF_handleVars(HThread) /\ WF_handleVars(HAnswer)

HSpec == HInit /\ [][HNext]_handleVars /\ HFair

-----------------------------------------------------------------------------
(* Properties.                                                              *)

\* Recv returns the answer to the script that was sent last, never that of
\* one whose evaluation had timed out or of somebody who had the proxy before.
HResultMatches == hgot # "wrong"

\* What goes back to the pool can be used by the next thread: idle, not in
\* the list of running proxies, and with no script, half of a script or
\* result of the last user in the pipes of its slave (ResetProxy).
HFreeClean == hplace = "free" => hstate = "Idle" /\ ~hrun /\ hin = <<>> /\ hout = <<>>

\* poolPtr->runPtr, which ns_proxy active and stop walk, holds the proxies
\* that are not idle, through all failures of Send, Wait, Recv and CreateSlave.
HRunList == hrun <=> hstate # "Idle"

\* "maxruns: the maximum number of activation of the proxy slave process": a
\* slave is sent at most one script more, the one its start was for.
HRunsBounded == HMaxRuns > 0 => hserved <= HMaxRuns + 1

\* Recv reads from the slave it waited for: the slave is there.
HRecvHasSlave == ~hcrash

\* Every command ends, nested starts of slaves included, as long as the slave
\* dies or answers and the pool's timeouts run.
HCommandEnds == hdo # <<>> ~> hdo = <<>>

-----------------------------------------------------------------------------
(***************************************************************************)
(* How nsproxy/nsproxylib.c moves a message over a pipe: SendBuf writes a  *)
(* length and a body with writev, RecvBuf reads them with readv into a     *)
(* buffer that may be too small and with read for the rest, both in pieces *)
(* of any size and with a timeout.                                         *)
(*                                                                         *)
(* A message is a sequence of bytes: WHead bytes that give the length of   *)
(* the body, then the body, byte i of the stream being the number i.       *)
(***************************************************************************)

CONSTANTS
    WHead,          \* sizeof(uint32)
    BodyMax,        \* longest body
    PipeMax,        \* what the pipe holds
    SpaceMax        \* largest space available in the receiver's dstring

VARIABLES
    wlen,           \* length of the body
    siov, riov,     \* lengths of the two pieces left to send, and to receive
    wpipe,          \* bytes in the pipe
    rspace,         \* avail: the space the dstring had
    rbuf,           \* bytes received: header and body
    rest,           \* bytes that read() has still to get, after readv
    wsend, wrecv    \* "run", "rest", "ok", "failed"

wireVars == <<wlen, siov, riov, wpipe, rspace, rbuf, rest, wsend, wrecv>>

WireInit ==
    /\ wlen \in 0 .. BodyMax /\ rspace \in 1 .. SpaceMax
    /\ siov = <<WHead, wlen>> /\ riov = <<WHead, rspace>>
    /\ wpipe = <<>> /\ rbuf = <<>> /\ rest = 0
    /\ wsend = "run" /\ wrecv = "run"

\* Mutant: the bytes of the header are taken off the body too.
UpdateIovTwice(iov, n) == IF n >= iov[1] THEN <<0, iov[2] - n>> ELSE <<iov[1] - n, iov[2]>>

UpdateIov(iov, n) == IF n >= iov[1] THEN <<0, iov[2] - (n - iov[1])>> ELSE <<iov[1] - n, iov[2]>>

\* The n bytes of the stream that follow what has been written: the pieces of
\* siov end where the header and the body end.
NextBytes(n) ==
    [i \in 1 .. n |-> IF i <= siov[1] THEN WHead - siov[1] + i
                      ELSE WHead + wlen - siov[2] + (i - siov[1])]

\* One writev of the loop; when all is written SendBuf returns.
SendBuf ==
    /\ wsend = "run"
    /\ IF siov[1] + siov[2] = 0
       THEN wsend' = "ok" /\ UNCHANGED <<siov, wpipe>>
       ELSE \E n \in 1 .. siov[1] + siov[2] :
              /\ n <= PipeMax - Len(wpipe)
              /\ wpipe' = wpipe \o NextBytes(n)
              /\ siov' = UpdateIov(siov, n)
              /\ UNCHANGED wsend
    /\ UNCHANGED <<wlen, riov, rspace, rbuf, rest, wrecv>>

\* GetTimeDiff is negative, or WaitFd times out.
SendTimeout ==
    /\ wsend = "run" /\ siov[1] + siov[2] > 0 /\ Len(wpipe) = PipeMax
    /\ wsend' = "failed"
    /\ UNCHANGED <<wlen, siov, riov, wpipe, rspace, rbuf, rest, wrecv>>

Drain(n) == /\ wpipe' = SubSeq(wpipe, n + 1, Len(wpipe))
            /\ rbuf' = rbuf \o SubSeq(wpipe, 1, n)

\* One readv: it fills the header and the space of the dstring.
RecvHead ==
    /\ wrecv = "run" /\ riov[1] > 0
    /\ \E n \in 1 .. Len(wpipe) :
         /\ n <= riov[1] + riov[2]
         /\ Drain(n) /\ riov' = UpdateIov(riov, n)
    /\ UNCHANGED <<wlen, siov, rspace, rest, wsend, wrecv>>

\* The header is there: the dstring is given its length, the rest is read.
RecvLength ==
    /\ wrecv = "run" /\ riov[1] = 0
    /\ rest' = wlen - (rspace - riov[2])
    /\ wrecv' = "rest"
    /\ UNCHANGED <<wlen, siov, riov, wpipe, rspace, rbuf, wsend>>

\* Mutant: one read is taken for the whole rest.
RecvRestOnce ==
    /\ wrecv = "rest"
    /\ \E n \in 0 .. Len(wpipe) : n <= rest /\ Drain(n) /\ rest' = rest - n /\ wrecv' = "ok"
    /\ UNCHANGED <<wlen, siov, riov, rspace, wsend>>

RecvRest ==
    /\ wrecv = "rest"
    /\ IF rest <= 0
       THEN wrecv' = "ok" /\ UNCHANGED <<wpipe, rbuf, rest>>
       ELSE \E n \in 1 .. Len(wpipe) : n <= rest /\ Drain(n) /\ rest' = rest - n /\ UNCHANGED wrecv
    /\ UNCHANGED <<wlen, siov, riov, rspace, wsend>>

\* A timeout, or the end of the stream once the sender has given up.
RecvFails ==
    /\ wrecv \in {"run", "rest"} /\ wpipe = <<>>
    /\ wrecv = "rest" => rest > 0
    /\ wrecv = "run" => riov[1] > 0
    /\ wrecv' = "failed"
    /\ UNCHANGED <<wlen, siov, riov, wpipe, rspace, rbuf, rest, wsend>>

WireNext == SendBuf \/ SendTimeout \/ RecvHead \/ RecvLength \/ RecvRest \/ RecvFails

WireSpec == WireInit /\ [][WireNext]_wireVars

\* The bytes of the stream reach the receiver in order, none twice and none
\* left out, however the pipe cuts them (SendBuf, RecvBuf, UpdateIov).
WireInOrder == LET got == rbuf \o wpipe IN \A i \in DOMAIN got : got[i] = i

\* RecvBuf returns success with the whole message, header and body, and
\* nothing else, and only then; SendBuf does not report success before the
\* whole message is in the pipe.
WireWhole ==
    /\ wrecv = "ok" => Len(rbuf) = WHead + wlen
    /\ wsend = "ok" => Len(rbuf) + Len(wpipe) = WHead + wlen
=============================================================================
