------------------------------- MODULE Writer -------------------------------
(***************************************************************************)
(* The writer threads of a driver (nsd/driver.c): connection threads hand  *)
(* a response to a WriterThread, as a file or as a stream that they go on  *)
(* writing to a spool file while the writer sends it.                      *)
(*                                                                         *)
(* A job is a WriterSock.  Its bytes are numbered in the order in which    *)
(* the client is to get them, a header first.  The thread's list of jobs   *)
(* is a set, as the order in which it serves them does not matter;         *)
(* queuesize and queuePtr->curPtr, which feed only ns_writer list, are     *)
(* left out.  WriterRaces, ConnReuse and StreamPartial name what the code  *)
(* leaves unprotected: a release that another thread can overtake, the     *)
(* connection structure of an unfinished stream being used again, and      *)
(* partial sends of a stream.                                              *)
(***************************************************************************)
EXTENDS Integers, FiniteSets, Sequences

CONSTANTS
    WConns, WJobs, NoJob,
    WBufMax,         \* bufsize of the writer
    WBytes,          \* bound on the bytes of a job
    WHeaders,        \* sizes of the header of a file response
    WriterRaces, ConnReuse, StreamPartial

ASSUME WriterAssumption == NoJob \notin WConns \cup WJobs

VARIABLES
    wconn,           \* connections: "idle", "run", "sent", "require", "append", "appended"
    strWriter,       \* connPtr->strWriter
    strFd,           \* connPtr->fd # 0
    wapp,            \* the job a connection thread holds a reference to
    wcur,            \* jobs: "new", "queued", "listed", "dropped", "freeing", "freed"
    wkind,           \* "file", "stream"
    doStream,        \* "no", "active", "finish"
    wown,            \* wrSockPtr->connPtr
    refCount, wsize, toRead, wfile, woff, wbuf, nsent,
    wtimer,          \* sockPtr->timeout is set
    wtp,             \* WriterThread: "collect", "wait", "serve", "exit"
    wtodo, wpoll, wready, whup, wtrigger, wshut

wcVars == <<wconn, strWriter, strFd, wapp>>
wjVars == <<wcur, wkind, doStream, wown, refCount, wsize, toRead, wfile, woff, wbuf, nsent, wtimer>>
wtVars == <<wtp, wtodo, wpoll, wready, whup, wtrigger, wshut>>
writerVars == <<wcVars, wjVars, wtVars>>

WriterInit ==
    /\ wconn = [c \in WConns |-> "idle"] /\ strWriter = [c \in WConns |-> NoJob]
    /\ strFd = [c \in WConns |-> FALSE] /\ wapp = [c \in WConns |-> NoJob]
    /\ wcur = [w \in WJobs |-> "new"] /\ wkind = [w \in WJobs |-> "file"]
    /\ doStream = [w \in WJobs |-> "no"] /\ wown = [w \in WJobs |-> NoJob]
    /\ refCount = [w \in WJobs |-> 0] /\ wsize = [w \in WJobs |-> 0]
    /\ toRead = [w \in WJobs |-> 0] /\ wfile = [w \in WJobs |-> 0]
    /\ woff = [w \in WJobs |-> 0] /\ wbuf = [w \in WJobs |-> <<>>]
    /\ nsent = [w \in WJobs |-> 0] /\ wtimer = [w \in WJobs |-> FALSE]
    /\ wtp = "collect" /\ wtodo = {} /\ wpoll = {} /\ wready = {} /\ whup = {}
    /\ wtrigger = 0 /\ wshut = FALSE

Bytes(a, b) == [i \in 1 .. b - a |-> a + i]
InState(s) == {w \in WJobs : wcur[w] = s}

-----------------------------------------------------------------------------
(* Connection threads.                                                      *)

\* A request starts on a connection structure.  Without ConnReuse it has no
\* earlier stream that the writer is still sending.
WConnRun(c) ==
    /\ wconn[c] = "idle"
    /\ ConnReuse \/ \A w \in WJobs : wown[w] = c => wcur[w] = "freed"
    /\ wconn' = [wconn EXCEPT ![c] = "run"]
    /\ UNCHANGED <<strWriter, strFd, wapp, wjVars, wtVars>>

\* The tail of NsWriterQueue: a new job in the queue, and a trigger if the
\* queue was empty.
Enqueue(w, size, buf) ==
    /\ wcur' = [wcur EXCEPT ![w] = "queued"]
    /\ refCount' = [refCount EXCEPT ![w] = 1]
    /\ wsize' = [wsize EXCEPT ![w] = size]
    /\ wbuf' = [wbuf EXCEPT ![w] = buf]
    /\ woff' = [woff EXCEPT ![w] = Len(buf)]
    /\ toRead' = [toRead EXCEPT ![w] = size - Len(buf)]
    /\ wfile' = [wfile EXCEPT ![w] = size]
    /\ wtrigger' = IF InState("queued") = {} THEN wtrigger + 1 ELSE wtrigger
    /\ UNCHANGED <<nsent, wtimer, wtp, wtodo, wpoll, wready, whup, wshut>>

\* NsWriterQueue of a file: the connection gives its socket away.
WriterFile(c, w, size, header) ==
    /\ wconn[c] = "run" /\ ~ strFd[c] /\ wcur[w] = "new" /\ header <= size
    /\ wconn' = [wconn EXCEPT ![c] = "sent"]
    /\ wkind' = [wkind EXCEPT ![w] = "file"] /\ doStream' = [doStream EXCEPT ![w] = "no"]
    /\ Enqueue(w, size, Bytes(0, header))
    /\ UNCHANGED <<strWriter, strFd, wapp, wown>>

\* The first NsWriterQueue of a stream: a spool file and the link between the
\* connection and the job.
WriterStream(c, w, size) ==
    /\ wconn[c] = "run" /\ ~ strFd[c] /\ wcur[w] = "new"
    /\ strFd' = [strFd EXCEPT ![c] = TRUE]
    /\ strWriter' = [strWriter EXCEPT ![c] = w] /\ wown' = [wown EXCEPT ![w] = c]
    /\ wkind' = [wkind EXCEPT ![w] = "stream"] /\ doStream' = [doStream EXCEPT ![w] = "active"]
    /\ Enqueue(w, size, <<>>)
    /\ UNCHANGED <<wconn, wapp>>

\* A later one: WriterSockRequire; the job may have been cancelled.
WriterSockRequire(c) ==
    /\ wconn[c] = "run" /\ strFd[c]
    /\ IF strWriter[c] = NoJob
       THEN UNCHANGED <<wconn, wapp, refCount>>
       ELSE /\ refCount' = [refCount EXCEPT ![strWriter[c]] = @ + 1]
            /\ wapp' = [wapp EXCEPT ![c] = strWriter[c]]
            /\ wconn' = [wconn EXCEPT ![c] = "append"]
    /\ UNCHANGED <<strWriter, strFd, wcur, wkind, doStream, wown, wsize, toRead, wfile, woff, wbuf, nsent, wtimer, wtVars>>

\* The data goes to the end of the spool file, under fdlock.
WriterAppend(c, n) ==
    LET w == wapp[c]
    IN /\ wconn[c] = "append" /\ wfile[w] + n <= WBytes
       /\ wfile' = [wfile EXCEPT ![w] = @ + n] /\ wsize' = [wsize EXCEPT ![w] = @ + n]
       /\ toRead' = [toRead EXCEPT ![w] = @ + n]
       /\ wconn' = [wconn EXCEPT ![c] = "appended"]
       /\ UNCHANGED <<strWriter, strFd, wapp, wcur, wkind, doStream, wown, refCount, woff, wbuf, nsent, wtimer, wtVars>>

\* Variant of LinkCleared for mutation: the connection keeps its pointer.
LinkKept(w) == strWriter' = strWriter

\* WriterSockRelease: the last reference frees the job, and a stream clears
\* the link of its connection.  With WriterRaces other threads run between
\* the two; s is the state of a job that is still referenced.
LinkCleared(w) ==
    strWriter' = IF doStream[w] # "no" THEN [strWriter EXCEPT ![wown[w]] = NoJob] ELSE strWriter

ReleaseJob(w, s) ==
    /\ refCount' = [refCount EXCEPT ![w] = @ - 1]
    /\ IF refCount[w] > 1 THEN wcur' = [wcur EXCEPT ![w] = s] /\ UNCHANGED strWriter
       ELSE IF WriterRaces THEN wcur' = [wcur EXCEPT ![w] = "freeing"] /\ UNCHANGED strWriter
       ELSE wcur' = [wcur EXCEPT ![w] = "freed"] /\ LinkCleared(w)

\* Variant of WriterAppended for mutation: the writer is not triggered.
WriterAppendedSilent(c) ==
    /\ wconn[c] = "appended"
    /\ ReleaseJob(wapp[c], wcur[wapp[c]])
    /\ wapp' = [wapp EXCEPT ![c] = NoJob] /\ wconn' = [wconn EXCEPT ![c] = "run"]
    /\ UNCHANGED <<strFd, wkind, doStream, wown, wsize, toRead, wfile, woff, wbuf, nsent, wtimer, wtVars>>

WriterAppended(c) ==
    /\ wconn[c] = "appended"
    /\ wtrigger' = wtrigger + 1
    /\ ReleaseJob(wapp[c], wcur[wapp[c]])
    /\ wapp' = [wapp EXCEPT ![c] = NoJob] /\ wconn' = [wconn EXCEPT ![c] = "run"]
    /\ UNCHANGED <<strFd, wkind, doStream, wown, wsize, toRead, wfile, woff, wbuf, nsent, wtimer,
                   wtp, wtodo, wpoll, wready, whup, wshut>>

\* The rest of a release that WriterRaces split.
WriterFree(w) ==
    /\ wcur[w] = "freeing"
    /\ wcur' = [wcur EXCEPT ![w] = "freed"] /\ LinkCleared(w)
    /\ UNCHANGED <<wconn, strFd, wapp, wkind, doStream, wown, refCount, wsize, toRead, wfile, woff, wbuf, nsent, wtimer,
                   wtVars>>

\* Variant of WConnClose for mutation: the stream is not marked as finished.
WConnCloseUnfinished(c) ==
    /\ wconn[c] \in {"run", "sent"}
    /\ wconn' = [wconn EXCEPT ![c] = "idle"] /\ strFd' = [strFd EXCEPT ![c] = FALSE]
    /\ strWriter' = [strWriter EXCEPT ![c] = NoJob]
    /\ UNCHANGED <<wapp, wjVars, wtVars>>

\* Variant of WConnClose for mutation: the writer is not triggered.
WConnCloseSilent(c) ==
    /\ wconn[c] \in {"run", "sent"}
    /\ wconn' = [wconn EXCEPT ![c] = "idle"] /\ strFd' = [strFd EXCEPT ![c] = FALSE]
    /\ doStream' = [w \in WJobs |-> IF strWriter[c] = w THEN "finish" ELSE doStream[w]]
    /\ strWriter' = [strWriter EXCEPT ![c] = NoJob]
    /\ UNCHANGED <<wapp, wcur, wkind, wown, refCount, wsize, toRead, wfile, woff, wbuf, nsent, wtimer, wtVars>>

\* NsConnClose with NsWriterFinish.
WConnClose(c) ==
    /\ wconn[c] \in {"run", "sent"}
    /\ wconn' = [wconn EXCEPT ![c] = "idle"] /\ strFd' = [strFd EXCEPT ![c] = FALSE]
    /\ IF strWriter[c] = NoJob THEN UNCHANGED <<strWriter, doStream, wtrigger>>
       ELSE /\ doStream' = [doStream EXCEPT ![strWriter[c]] = "finish"]
            /\ wtrigger' = wtrigger + 1
            /\ strWriter' = [strWriter EXCEPT ![c] = NoJob]
    /\ UNCHANGED <<wapp, wcur, wkind, wown, refCount, wsize, toRead, wfile, woff, wbuf, nsent, wtimer,
                   wtp, wtodo, wpoll, wready, whup, wshut>>

\* SpoolerQueueStop.
WriterStop ==
    /\ ~ wshut /\ wshut' = TRUE /\ wtrigger' = wtrigger + 1
    /\ UNCHANGED <<wcVars, wjVars, wtp, wtodo, wpoll, wready, whup>>

-----------------------------------------------------------------------------
(* WriterThread.                                                            *)

\* What to poll for: jobs with something to send.
WriterCollect ==
    /\ wtp = "collect"
    /\ wpoll' = {w \in InState("listed") : wsize[w] > 0}
    /\ wtp' = "wait"
    /\ UNCHANGED <<wcVars, wjVars, wtodo, wready, whup, wtrigger, wshut>>

\* poll() returns: a trigger, which is read, events or a timeout.  There is
\* no timeout when only a finished stream is listed.  A socket that was not
\* polled keeps its old index into the poll results, and so may show the
\* hang-up of another.
PollTimesOut ==
    \/ wpoll # {}
    \/ ~ \E w \in InState("listed") : wsize[w] = 0 /\ doStream[w] = "finish"

WriterPoll ==
    /\ wtp = "wait"
    /\ \E r \in SUBSET wpoll, h \in SUBSET wpoll :
          /\ (wtrigger > 0 \/ r \cup h # {} \/ PollTimesOut)
          /\ wready' = r
          /\ \E x \in SUBSET (InState("listed") \ wpoll) : (h = {} => x = {}) /\ whup' = h \cup x
    /\ wtrigger' = IF wtrigger > 0 THEN wtrigger - 1 ELSE 0
    /\ wtodo' = InState("listed") /\ wtp' = "serve"
    /\ UNCHANGED <<wcVars, wjVars, wpoll, wshut>>

\* Variant of ReadPos for mutation: a file is read from the start again.
ReadPosSent(w) == nsent[w]

\* Where the next read starts: a stream's position is set after what was
\* sent last, a file's goes on.
ReadPos(w) == IF wkind[w] = "stream" THEN nsent[w] ELSE woff[w]

\* WriterReadFromSpool after leftovers were moved to the front of the buffer.
ReadSize(w) == LET room == WBufMax - Len(wbuf[w]) IN IF toRead[w] < room THEN toRead[w] ELSE room
Filled(w) == IF ReadSize(w) <= 0 THEN wbuf[w] ELSE wbuf[w] \o Bytes(ReadPos(w), ReadPos(w) + ReadSize(w))

\* A job is kept in the list while it has something to send or may get more.
Kept(w, size) == size > 0 \/ doStream[w] = "active"

\* WriterReadFromSpool and WriterSend.
WriterSends(w) ==
    LET buf == Filled(w)
        got == Len(buf) - Len(wbuf[w])
    IN \E n \in 0 .. Len(buf) :
          /\ wkind[w] = "stream" /\ ~ StreamPartial => n = Len(buf)
          /\ wbuf' = [wbuf EXCEPT ![w] = SubSeq(buf, n + 1, Len(buf))]
          /\ woff' = [woff EXCEPT ![w] = @ + got] /\ toRead' = [toRead EXCEPT ![w] = @ - got]
          /\ wsize' = [wsize EXCEPT ![w] = @ - n] /\ nsent' = [nsent EXCEPT ![w] = @ + n]
          /\ wtimer' = [wtimer EXCEPT ![w] = FALSE]
          /\ IF Kept(w, wsize[w] - n) THEN UNCHANGED <<wcur, refCount, strWriter>> ELSE ReleaseJob(w, "dropped")

\* An error on the socket or the file, a hang-up, or a timeout.
WriterGivesUp(w) == ReleaseJob(w, "dropped") /\ UNCHANGED <<wsize, toRead, woff, wbuf, nsent, wtimer>>

WriterServe(w) ==
    /\ wtp = "serve" /\ w \in wtodo
    /\ wtodo' = wtodo \ {w}
    /\ \/ w \in whup /\ WriterGivesUp(w)
       \/ /\ w \notin whup /\ (w \in wready \/ doStream[w] = "finish")
          /\ \/ wsize[w] < 1 /\ doStream[w] # "active" /\ WriterGivesUp(w)
             \/ /\ wsize[w] < 1 /\ doStream[w] = "active"
                /\ UNCHANGED <<wcur, refCount, strWriter, wsize, toRead, woff, wbuf, nsent, wtimer>>
             \/ wsize[w] >= 1 /\ (WriterSends(w) \/ WriterGivesUp(w))
       \/ /\ w \notin whup \cup wready /\ doStream[w] # "finish"
          /\ \/ /\ ~ wtimer[w] /\ wtimer' = [wtimer EXCEPT ![w] = TRUE]
                /\ IF Kept(w, wsize[w])
                   THEN UNCHANGED <<wcur, refCount, strWriter, wsize, toRead, woff, wbuf, nsent>>
                   ELSE ReleaseJob(w, "dropped") /\ UNCHANGED <<wsize, toRead, woff, wbuf, nsent>>
             \/ wtimer[w] /\ WriterGivesUp(w)
             \/ wtimer[w] /\ IF Kept(w, wsize[w])
                             THEN UNCHANGED <<wcur, refCount, strWriter, wsize, toRead, woff, wbuf, nsent, wtimer>>
                             ELSE WriterGivesUp(w)
    /\ UNCHANGED <<wconn, strFd, wapp, wkind, doStream, wown, wfile, wtp, wpoll, wready, whup, wtrigger, wshut>>

\* New jobs are listed, with a fresh timeout; then the shutdown flag decides.
WriterAccept ==
    /\ wtp = "serve" /\ wtodo = {} /\ ~ \E w \in WJobs : wcur[w] = "freeing"
    /\ wcur' = [w \in WJobs |-> IF wcur[w] = "queued" THEN "listed" ELSE wcur[w]]
    /\ wtimer' = [w \in WJobs |-> wtimer[w] \/ wcur[w] = "queued"]
    /\ wtp' = IF wshut THEN "exit" ELSE "collect"
    /\ wpoll' = {} /\ wready' = {} /\ whup' = {}
    /\ UNCHANGED <<wcVars, wkind, doStream, wown, refCount, wsize, toRead, wfile, woff, wbuf, nsent,
                   wtodo, wtrigger, wshut>>

WriterThread == WriterCollect \/ WriterPoll \/ (\E w \in WJobs : WriterServe(w)) \/ WriterAccept

WriterNext ==
    \/ \E c \in WConns :
          \/ WConnRun(c) \/ WConnClose(c) \/ WriterSockRequire(c) \/ WriterAppended(c)
          \/ \E n \in 1 .. WBytes : WriterAppend(c, n)
          \/ \E w \in WJobs, size \in 1 .. WBytes :
                WriterStream(c, w, size) \/ \E header \in WHeaders : WriterFile(c, w, size, header)
    \/ \E w \in WJobs : WriterFree(w)
    \/ WriterStop
    \/ WriterThread

WriterFair == WF_writerVars(WriterThread)

WriterSpec == WriterInit /\ [][WriterNext]_writerVars /\ WriterFair

-----------------------------------------------------------------------------
(* Properties.                                                              *)

\* WriterReadFromSpool "handles leftovers from previous send attempts": what
\* is in the buffer is what the client gets next, byte by byte, and size and
\* toRead account for what is still to be sent and to be read.
WriterDataInOrder ==
    \A w \in WJobs :
        /\ \A i \in DOMAIN wbuf[w] : wbuf[w][i] = nsent[w] + i
        /\ wcur[w] \in {"queued", "listed"} =>
              wsize[w] = wfile[w] - nsent[w] /\ toRead[w] = wsize[w] - Len(wbuf[w])

\* WriterSock reference counts: a job that a connection points to, appends
\* to or has in the writer's hands is not freed.
WriterNotFreedInUse ==
    \A w \in WJobs : wcur[w] = "freed" =>
        \A c \in WConns : wapp[c] # w /\ strWriter[c] # w

\* The link of a stream, "needed to clear the reference to the writer in case
\* the writer is deleted": as long as its connection runs and the writer has
\* not given it up, an active stream is the one its connection points to.
WriterLinkKept ==
    \A w \in WJobs : wcur[w] \in {"queued", "listed"} /\ doStream[w] = "active" => strWriter[wown[w]] = w

\* SockTrigger: no job waits unseen.  While the writer waits in poll, a job
\* in the queue, data of a stream that is not polled for, and the end of an
\* idle stream have a trigger in the pipe or a thread about to send it.
WriterTriggerComing ==
    wtp = "wait" =>
        \/ wtrigger > 0
        \/ \E c \in WConns : wconn[c] = "appended"
        \/ /\ InState("queued") = {}
           /\ \A w \in InState("listed") \ wpoll : wsize[w] = 0 /\ doStream[w] = "active"

\* A finished stream with nothing left to send is released, or the server
\* stops.
WriterFinishes ==
    \A w \in WJobs : (wcur[w] = "listed" /\ doStream[w] = "finish" /\ wsize[w] = 0) ~> (wcur[w] # "listed" \/ wshut)

\* SpoolerQueueStop: the writer thread exits.
WriterStops == wshut ~> wtp = "exit"

-----------------------------------------------------------------------------
(***************************************************************************)
(* The asynchronous log writer of nsd/driver.c: threads queue log lines    *)
(* with NsAsyncWrite, AsyncWriterThread writes them, and a log roll (or    *)
(* the shutdown) disables the writer, which drains it.                     *)
(*                                                                         *)
(* A line is written whole or in part; aleft counts the parts left.  With  *)
(* AsyncRaces a drain walks the queue in one step and empties it in        *)
(* another, as it does both without the queue's lock, and the thread that  *)
(* disables the writer can be overtaken before it waits.                   *)
(***************************************************************************)

CONSTANTS
    Lines,
    LineParts,       \* parts a line may be written in
    AsyncRaces,
    PipeBytes        \* bound on the triggers in the pipe

VARIABLES
    asyncOn,         \* asyncWriter # NULL
    astopped, ashutdown, afreed,
    aqueue,          \* queuePtr->sockPtr
    alist,           \* writePtr
    atrigger,
    apc,             \* AsyncWriterThread
    adis,            \* NsAsyncWriterQueueDisable: "no", "set", "wait", "woken"
    line,            \* lines: "new", "checked", "async", "sync", "failed"
    aleft

asyncVars == <<asyncOn, astopped, ashutdown, afreed, aqueue, alist, atrigger, apc, adis, line, aleft>>

AsyncInit ==
    /\ asyncOn = FALSE /\ astopped = FALSE /\ ashutdown = FALSE /\ afreed = FALSE
    /\ aqueue = {} /\ alist = {} /\ atrigger = 0
    /\ apc = "none" /\ adis = "no"
    /\ line = [m \in Lines |-> "new"] /\ aleft = [m \in Lines |-> LineParts]

\* NsAsyncWriterQueueEnable: the first call starts the thread.
AsyncEnable ==
    /\ adis = "no" /\ ~ afreed /\ (~ asyncOn \/ astopped)
    /\ asyncOn' = TRUE /\ astopped' = FALSE
    /\ apc' = IF asyncOn THEN apc ELSE "poll"
    /\ UNCHANGED <<ashutdown, afreed, aqueue, alist, atrigger, adis, line, aleft>>

\* NsAsyncWriterQueueDisable: its trigger, its wait and, for a shutdown, the
\* release of the queue.
AsyncDisable(shutdown) ==
    /\ adis = "no" /\ asyncOn /\ ~ astopped /\ atrigger < PipeBytes
    /\ astopped' = TRUE /\ ashutdown' = shutdown
    /\ atrigger' = atrigger + 1
    /\ adis' = IF AsyncRaces THEN "set" ELSE "wait"
    /\ UNCHANGED <<asyncOn, afreed, aqueue, alist, apc, line, aleft>>

AsyncDisableWaits ==
    /\ adis = "set" /\ adis' = "wait"
    /\ UNCHANGED <<asyncOn, astopped, ashutdown, afreed, aqueue, alist, atrigger, apc, line, aleft>>

\* DisableWoken, or after the shutdown timeout.
AsyncDisabled ==
    /\ adis \in {"wait", "woken"}
    /\ adis' = "no"
    /\ asyncOn' = ~ ashutdown /\ afreed' = ashutdown
    /\ UNCHANGED <<astopped, ashutdown, aqueue, alist, atrigger, apc, line, aleft>>

\* NsAsyncWrite: the unlocked look at the writer, with a write of its own if
\* it is off; then the line goes into the queue.
AsyncCheck(m) ==
    /\ line[m] = "new"
    /\ IF asyncOn /\ ~ astopped
       THEN line' = [line EXCEPT ![m] = "checked"] /\ UNCHANGED aleft
       ELSE /\ line' = [line EXCEPT ![m] = "sync"]
            /\ aleft' = [aleft EXCEPT ![m] = 0]
    /\ UNCHANGED <<asyncOn, astopped, ashutdown, afreed, aqueue, alist, atrigger, apc, adis>>

\* Variant of AsyncPut for mutation: no trigger.
AsyncPutSilent(m) ==
    /\ line[m] = "checked" /\ ~ afreed
    /\ line' = [line EXCEPT ![m] = "async"]
    /\ aqueue' = aqueue \cup {m}
    /\ UNCHANGED <<asyncOn, astopped, ashutdown, afreed, alist, atrigger, apc, adis, aleft>>

AsyncPut(m) ==
    /\ line[m] = "checked" /\ ~ afreed
    /\ line' = [line EXCEPT ![m] = "async"]
    /\ aqueue' = aqueue \cup {m}
    /\ atrigger' = IF aqueue = {} THEN atrigger + 1 ELSE atrigger
    /\ UNCHANGED <<asyncOn, astopped, ashutdown, afreed, alist, apc, adis, aleft>>

-----------------------------------------------------------------------------
(* AsyncWriterThread.                                                       *)

\* poll: without a trigger it times out, at once when there are lines left.
AsyncPoll ==
    /\ apc = "poll"
    /\ atrigger' = IF atrigger > 0 THEN atrigger - 1 ELSE 0
    /\ apc' = IF atrigger > 0 /\ astopped THEN "drain" ELSE "write"
    /\ UNCHANGED <<asyncOn, astopped, ashutdown, afreed, aqueue, alist, adis, line, aleft>>

DisableWoken == IF adis = "wait" THEN "woken" ELSE adis

\* Variant of AsyncDrain for mutation: the thread's own lines are forgotten.
AsyncDrainQueue ==
    /\ apc = "drain"
    /\ alist' = {}
    /\ aleft' = [m \in Lines |-> IF m \in aqueue THEN 0 ELSE aleft[m]]
    /\ aqueue' = {} /\ adis' = DisableWoken /\ apc' = "write"
    /\ UNCHANGED <<asyncOn, astopped, ashutdown, afreed, atrigger, line>>

\* Disabled: what is left of the thread's lines and the queue is written, the
\* queue emptied, and the thread that disabled it woken.
AsyncDrain ==
    /\ apc = "drain"
    /\ alist' = {}
    /\ aleft' = [m \in Lines |-> IF m \in alist \cup aqueue THEN 0 ELSE aleft[m]]
    /\ IF AsyncRaces
       THEN apc' = "clear" /\ UNCHANGED <<aqueue, adis>>
       ELSE aqueue' = {} /\ adis' = DisableWoken /\ apc' = "write"
    /\ UNCHANGED <<asyncOn, astopped, ashutdown, afreed, atrigger, line>>

AsyncClear ==
    /\ apc = "clear"
    /\ aqueue' = {} /\ adis' = DisableWoken /\ apc' = "write"
    /\ UNCHANGED <<asyncOn, astopped, ashutdown, afreed, alist, atrigger, line, aleft>>

\* A write per line: all of what is left, a part, or an error.
AsyncWriteLines ==
    /\ apc = "write"
    /\ \E fails \in SUBSET alist, part \in SUBSET alist :
          /\ fails \cap part = {}
          /\ \A m \in part : aleft[m] > 1
          /\ aleft' = [m \in Lines |-> IF m \in part THEN aleft[m] - 1
                                       ELSE IF m \in alist \ fails THEN 0 ELSE aleft[m]]
          /\ line' = [m \in Lines |-> IF m \in fails THEN "failed" ELSE line[m]]
          /\ alist' = part
    /\ apc' = "accept"
    /\ UNCHANGED <<asyncOn, astopped, ashutdown, afreed, aqueue, atrigger, adis>>

\* New lines are taken over; at shutdown those in the queue are written.
AsyncAccept ==
    /\ apc = "accept"
    /\ IF ashutdown
       THEN /\ aleft' = [m \in Lines |-> IF m \in aqueue THEN 0 ELSE aleft[m]]
            /\ astopped' = TRUE /\ apc' = "exit"
            /\ UNCHANGED <<aqueue, alist>>
       ELSE /\ alist' = alist \cup aqueue /\ aqueue' = {} /\ apc' = "poll"
            /\ UNCHANGED <<astopped, aleft>>
    /\ UNCHANGED <<asyncOn, ashutdown, afreed, atrigger, adis, line>>

AsyncThread == AsyncPoll \/ AsyncDrain \/ AsyncClear \/ AsyncWriteLines \/ AsyncAccept

AsyncNext ==
    \/ AsyncEnable \/ AsyncDisableWaits \/ AsyncDisabled
    \/ \E shutdown \in BOOLEAN : AsyncDisable(shutdown)
    \/ \E m \in Lines : AsyncCheck(m) \/ AsyncPut(m)
    \/ AsyncThread

AsyncFair == WF_asyncVars(AsyncThread)

AsyncSpec == AsyncInit /\ [][AsyncNext]_asyncVars /\ AsyncFair

-----------------------------------------------------------------------------
(* Properties.                                                              *)

\* No line that the queue took is lost between the queue, the thread and the
\* file, whatever drains run between; only a write error or the shutdown
\* drops one.
AsyncNotLost ==
    \A m \in Lines : line[m] = "async" /\ aleft[m] > 0 => m \in aqueue \cup alist \/ ashutdown

\* A line in the queue has its trigger in the pipe or the thread on its way,
\* so that it does not sit there for the half minute of the thread's poll.
AsyncTriggerComing == aqueue # {} /\ apc = "poll" => atrigger > 0

\* The queue is not freed under the thread that works on it.
AsyncQueueNotFreed == afreed => apc \in {"none", "exit"}

=============================================================================
