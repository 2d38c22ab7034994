------------------------------- MODULE HttpTask -------------------------------
(***************************************************************************)
(* One request of ns_http (nsd/tclhttp.c).  The thread of the task queue   *)
(* sends the request and collects the reply in HttpProc; the interpreter   *)
(* queues the request, waits for it, and may call Ns_HttpCheckSpool at the *)
(* same time as that thread.  The reply starts in memory and moves to a    *)
(* file, or through the decompression, once the headers are known.         *)
(***************************************************************************)
EXTENDS Integers, Sequences

CONSTANTS
    HtReplies,      \* what the peer sends: [good, clen, gz : BOOLEAN, n : number of body units]
    HtLimits,       \* values of -spoolsize; -1 for none
    HtRaces,        \* do the two threads run Ns_HttpCheckSpool at the same time?
    HtSpoolFails,   \* may the spool file fail?
    HtWaitsShort    \* may the timeout of "ns_http wait" come first?

VARIABLES
    ht,             \* the Ns_HttpTask
    htPeer,         \* the reply, what is left of it
    htTask,         \* where the task is
    htCmd,          \* where the interpreter is
    htSize          \* contentSize of the two threads
htVars == <<ht, htPeer, htTask, htCmd, htSize>>

HeaderLine == [u |-> 0, z |-> 0]
Blank == [u |-> 0, z |-> 1]
BodyOf(r, z) == [k \in 1..r.n |-> [u |-> k, z |-> z]]
ReplyOf(r) == <<HeaderLine, Blank>> \o BodyOf(r, 0)

\* HttpConnect: the task as it is after ns_calloc.
HtNew == [unsent |-> 2, ds |-> <<>>, hsize |-> 0, status |-> 0, headers |-> FALSE, limit |-> -1,
          fd |-> "none", file |-> <<>>, decompress |-> FALSE, gzip |-> FALSE, error |-> FALSE,
          parses |-> 0]

HtInit ==
    /\ ht = HtNew /\ htTask = "none" /\ htCmd = "idle"
    /\ htPeer = [reply |-> CHOOSE r \in HtReplies : TRUE, left |-> <<>>]
    /\ htSize = [task |-> 0, cmd |-> 0]

\* HttpQueueCmd: "run" stays in the interpreter until the task is done, "queue" does not.
\* A queue that is shut down refuses the task, which is closed at once.
HttpQueueCmd ==
    /\ htCmd = "idle"
    /\ \E r \in HtReplies : htPeer' = [reply |-> r, left |-> ReplyOf(r)]
    /\ \/ htTask' = "write" /\ htCmd' \in {"running", "listed"}
       \/ htTask' = "none" /\ htCmd' = "closed"
    /\ UNCHANGED <<ht, htSize>>
RunReturns ==
    /\ htCmd = "running" /\ htTask = "done"
    /\ htCmd' = "listed"
    /\ UNCHANGED <<ht, htPeer, htTask, htSize>>

----------------------------------------------------------------------------
(* Appending, and the move out of the memory *)

Inflated(s) == [k \in DOMAIN s |-> [s[k] EXCEPT !.z = @ + 1]]

\* HttpAppendRawBuffer: the outcomes of writing s.  A failed write loses it.
HttpAppendRawBuffer(h, s) ==
    IF h.fd = "open"
    THEN {[h EXCEPT !.file = @ \o s]} \cup (IF HtSpoolFails THEN {h} ELSE {})
    ELSE {[h EXCEPT !.ds = @ \o s]}

\* Mutant: the data that came before the headers were known stays as it is.
AppendRawOnly(h, s) == HttpAppendRawBuffer(h, s)

\* Ns_HttpAppendBuffer: NS_HTTP_FLAG_GUNZIP is both flags.
AppendBuffer(h, s) == HttpAppendRawBuffer(h, IF h.decompress /\ h.gzip THEN Inflated(s) ELSE s)

\* Ns_HttpCheckHeader, which tests again under the lock.
CheckHeader(h) ==
    IF h.hsize = 0 /\ \E k \in DOMAIN h.ds : h.ds[k] = Blank
    THEN [h EXCEPT !.hsize = CHOOSE k \in DOMAIN h.ds : h.ds[k] = Blank]
    ELSE h

\* The n bytes behind the headers; behind the end of the buffer there are old ones.
OldBytes == [u |-> 0, z |-> 2]
ContentAt(h, n) == [k \in 1..n |-> IF h.hsize + k <= Len(h.ds) THEN h.ds[h.hsize + k] ELSE OldBytes]

\* Mutant: no second look under the lock.
ParseAgain(h) == h.hsize > 0

\* Ns_HttpCheckSpool, the test before the lock and the one under it.
ParseDue(h) == h.hsize > 0 /\ h.status = 0

\* HttpParseHeaders and ProcessReplyHeaderFields.
Parsed(h) ==
    [h EXCEPT !.status = IF htPeer.reply.good THEN 200 ELSE 0, !.gzip = htPeer.reply.gz,
              !.parses = @ + 1]

\* Mutant: the length the peer announces is not looked at.
SpoolWantedLate(h, n) == h.limit > -1 /\ n >= h.limit

SpoolWanted(h, n) ==
    /\ h.limit > -1
    /\ \/ htPeer.reply.clen /\ htPeer.reply.n > 0 /\ htPeer.reply.n >= h.limit
       \/ n >= h.limit

\* The file: what is there goes to it.  Without a file spoolFd is -1, and what is there is
\* appended to itself.
ToFile(h, n) ==
    LET opened == {[h EXCEPT !.fd = "open"]} \cup (IF HtSpoolFails THEN {[h EXCEPT !.fd = "bad"]} ELSE {})
    IN UNION {AppendBuffer(g, ContentAt(h, n)) : g \in opened}

\* The part under the lock.
SpoolLocked(h, n) ==
    IF ~ParseDue(h) THEN {h}
    ELSE LET g == Parsed(h)
         IN IF SpoolWanted(g, n) THEN ToFile(g, n) ELSE {g}

\* The part after it: the content is taken out and appended as the headers say.
SpoolMove(h, n) ==
    IF n > 0 /\ h.fd = "none"
    THEN AppendBuffer([h EXCEPT !.ds = SubSeq(@, 1, h.hsize)], ContentAt(h, n))
    ELSE {h}

\* The steps of Ns_HttpCheckSpool in one of the threads, at "spool1", "spool2", "spool3".
InSpool == {"spool2", "spool3"}
SpoolStep(pc, me, next) ==
    \/ /\ pc = "spool1"
       /\ IF ParseDue(ht) /\ ht.headers
          THEN htSize' = [htSize EXCEPT ![me] = Len(ht.ds) - ht.hsize] /\ next' = "spool2"
          ELSE UNCHANGED htSize /\ next' = "after"
       /\ UNCHANGED ht
    \/ /\ pc = "spool2"
       /\ ht' \in SpoolLocked(ht, htSize[me])
       /\ next' = "spool3" /\ UNCHANGED htSize
    \/ /\ pc = "spool3"
       /\ ht' \in SpoolMove(ht, htSize[me])
       /\ next' = "after" /\ htSize' = [htSize EXCEPT ![me] = 0]

----------------------------------------------------------------------------
(* The thread of the task *)

TaskAlone == HtRaces \/ htCmd \notin InSpool
CmdAlone == HtRaces \/ htTask \notin InSpool

\* NS_SOCK_WRITE
HttpSend ==
    /\ htTask = "write"
    /\ \/ /\ ht' = [ht EXCEPT !.unsent = @ - 1]
          /\ htTask' = IF ht.unsent = 1 THEN "read" ELSE "write"
       \/ ht' = [ht EXCEPT !.error = TRUE] /\ htTask' = "done"
    /\ UNCHANGED <<htPeer, htCmd, htSize>>

\* NS_SOCK_READ: a piece of the reply, its end, or a failure.
HttpRecv ==
    /\ htTask = "read" /\ TaskAlone
    /\ \/ \E n \in 1..Len(htPeer.left) :
             /\ ht' \in AppendBuffer(ht, SubSeq(htPeer.left, 1, n))
             /\ htPeer' = [htPeer EXCEPT !.left = SubSeq(@, n + 1, Len(@))]
             /\ htTask' = IF ht.fd = "open" THEN "read" ELSE "header"
       \/ /\ htPeer.left = <<>> /\ htTask' = "done"
          /\ UNCHANGED <<ht, htPeer>>
       \/ /\ ht' = [ht EXCEPT !.error = TRUE] /\ htTask' = "done"
          /\ UNCHANGED htPeer
    /\ UNCHANGED <<htCmd, htSize>>
HttpRecvHeader ==
    /\ htTask = "header"
    /\ ht' = CheckHeader(ht) /\ htTask' = "spool1"
    /\ UNCHANGED <<htPeer, htCmd, htSize>>
HttpRecvSpool ==
    /\ TaskAlone
    /\ SpoolStep(htTask, "task", htTask)
    /\ UNCHANGED <<htPeer, htCmd>>
HttpRecvReturns ==
    /\ htTask = "after" /\ htTask' = "read"
    /\ UNCHANGED <<ht, htPeer, htCmd, htSize>>

\* NS_SOCK_TIMEOUT, NS_SOCK_EXIT, NS_SOCK_EXCEPTION, and NS_SOCK_CANCEL once it is asked for.
HttpEnds ==
    /\ htTask \in {"write", "read"}
    /\ ht' = [ht EXCEPT !.error = TRUE] /\ htTask' = "done"
    /\ UNCHANGED <<htPeer, htCmd, htSize>>

HttpTaskThread == HttpSend \/ HttpRecv \/ HttpRecvHeader \/ HttpRecvSpool \/ HttpRecvReturns \/ HttpEnds

----------------------------------------------------------------------------
(* The interpreter *)

\* HttpWaitCmd: the request leaves the table; the options are stored, the headers last.
StoreOptions(h, lim, dec) == [h EXCEPT !.decompress = dec, !.limit = lim]
OfferHeaders(h) == [h EXCEPT !.headers = TRUE]
HttpWaitCmd ==
    /\ htCmd = "listed"
    /\ \E lim \in HtLimits, dec \in BOOLEAN : ht' = StoreOptions(ht, lim, dec)
    /\ htCmd' = "offer"
    /\ UNCHANGED <<htPeer, htTask, htSize>>
WaitOffers ==
    /\ htCmd = "offer" /\ CmdAlone
    /\ ht' = OfferHeaders(ht) /\ htCmd' = "spool1"
    /\ UNCHANGED <<htPeer, htTask, htSize>>
WaitSpools ==
    /\ CmdAlone
    /\ SpoolStep(htCmd, "cmd", htCmd)
    /\ UNCHANGED <<htPeer, htTask>>

\* Ns_TaskWait: done, or too late.  Then the task is cancelled and waited for, and nothing
\* is closed.
HttpWaitDone ==
    /\ htCmd = "after" /\ htTask = "done"
    /\ IF ht.error THEN htCmd' = "failed" /\ UNCHANGED ht
       ELSE ht' = CheckHeader(ht) /\ htCmd' = "last1"
    /\ UNCHANGED <<htPeer, htTask, htSize>>
WaitTooLate ==
    /\ HtWaitsShort /\ htCmd = "after" /\ htTask # "done"
    /\ htCmd' = "cancelled"
    /\ UNCHANGED <<ht, htPeer, htTask, htSize>>
WaitCancelled ==
    /\ htCmd = "cancelled" /\ htTask = "done"
    /\ htCmd' = "left"
    /\ UNCHANGED <<ht, htPeer, htTask, htSize>>

\* The second Ns_HttpCheckSpool, after the task.
WaitResult ==
    /\ htCmd = "last1"
    /\ LET n == Len(ht.ds) - ht.hsize
       IN ht' \in IF ParseDue(ht) THEN UNION {SpoolMove(h, n) : h \in SpoolLocked(ht, n)} ELSE {ht}
    /\ htCmd' = "result"
    /\ UNCHANGED <<htPeer, htTask, htSize>>

\* HttpClose, after the result or the error is set.
HttpRequestClose ==
    /\ htCmd \in {"result", "failed"}
    /\ htCmd' = IF htCmd = "result" THEN "answered" ELSE "closed"
    /\ UNCHANGED <<ht, htPeer, htTask, htSize>>

\* Mutant: the task is told, and not waited for.
AbortedAtOnce == TRUE

\* Mutant: the end of the task is not seen.
AbortedNever == FALSE

\* HttpAbort: HttpCancel waits for the task before HttpClose.
Aborted == htTask = "done"
HttpCleanup ==
    /\ htCmd = "listed" /\ htCmd' = "cleanup"
    /\ UNCHANGED <<ht, htPeer, htTask, htSize>>
HttpAbort ==
    /\ htCmd = "cleanup" /\ Aborted
    /\ htCmd' = "closed"
    /\ UNCHANGED <<ht, htPeer, htTask, htSize>>

Interpreter ==
    \/ HttpQueueCmd \/ RunReturns \/ HttpWaitCmd \/ WaitOffers \/ WaitSpools \/ HttpWaitDone \/ WaitTooLate
    \/ WaitCancelled \/ WaitResult \/ HttpRequestClose \/ HttpCleanup \/ HttpAbort
HtNext == HttpTaskThread \/ Interpreter
HtSpec == HtInit /\ [][HtNext]_htVars

----------------------------------------------------------------------------
(* Properties *)

HtTypeOK ==
    /\ ht.unsent \in 0..2 /\ ht.hsize \in {0, 2} /\ ht.fd \in {"none", "open", "bad"}
    /\ htSize.task \in Nat /\ htSize.cmd \in Nat

\* HttpClose frees the task only when its thread is done with it, whichever command ends it.
HttpNotFreedInUse == htCmd \in {"answered", "closed"} => htTask \in {"none", "done"}

\* The headers of a reply are parsed once, although both threads look whether that is due.
HttpParsedOnce == htPeer.reply.good => ht.parses <= 1

\* A reply that is not cut short: what "ns_http wait" returns, or leaves in the file, is the
\* body, once, in order, and decompressed if that was asked for and it was compressed.
HttpReplyWhole ==
    htCmd = "answered" /\ htPeer.reply.good =>
        (IF ht.fd = "open" THEN ht.file ELSE SubSeq(ht.ds, ht.hsize + 1, Len(ht.ds)))
            = BodyOf(htPeer.reply, IF htPeer.reply.gz /\ ht.decompress THEN 1 ELSE 0)

\* -spoolsize: a body whose length is announced is in the file iff it is that long, however
\* the reply came in pieces and whenever the command started to wait.
HttpSpooledWhenBig ==
    htCmd = "answered" /\ htPeer.reply.good /\ htPeer.reply.clen /\ htPeer.reply.n > 0
        => (ht.fd = "open" <=> ht.limit > -1 /\ htPeer.reply.n >= ht.limit)

\* A request that left the table of the interpreter is closed by the command that took it.
HttpNothingLeft == htCmd # "left"

HttpInv == HtTypeOK /\ HttpNotFreedInUse /\ HttpParsedOnce
HttpCalm == HttpReplyWhole /\ HttpSpooledWhenBig /\ HttpNothingLeft

\* Every "ns_http wait" and "ns_http cleanup" returns: the deadline of the task is fixed when
\* it is queued.
HttpReturns == (htCmd \in {"offer", "cleanup"}) ~> (htCmd \in {"answered", "closed", "left"})
=============================================================================
