------------------------------ MODULE Requests ------------------------------
(***************************************************************************)
(* A request from its bytes to its answer: the driver reads and parses it, *)
(* then the connection thread runs its filters, its authorization and its  *)
(* procedure.                                                              *)
(***************************************************************************)
EXTENDS Integers, Sequences, SequencesExt, FiniteSets

-----------------------------------------------------------------------------
(***************************************************************************)
(* How the bytes of a request are read and taken apart (SockRead,          *)
(* SockParse, ChunkedDecode of nsd/driver.c): the client's bytes come in   *)
(* pieces of any size; header lines are parsed as they are complete, the   *)
(* content is kept in the buffer, or written to a temporary file or an     *)
(* upload file, by the driver, a spooler or a connection thread.           *)
(*                                                                         *)
(* What the client sends is a shape: its lines, of two bytes each (the     *)
(* blank line of one), and then the content, whose bytes are numbered      *)
(* by their place in all that is sent.                                     *)
(***************************************************************************)

CONSTANTS
    Shapes,          \* [line, headers, declared, chunks, body]
    ReadBufSize, ReadAhead, MaxInput, MaxUpload, MaxHeaders,
    Spoolers,        \* number of spooler threads
    Async,           \* does the driver read requests, or the connection threads
    Fails            \* can files not be made or written

ASSUME DriverConfig ==
    /\ {ReadBufSize, ReadAhead, MaxInput, MaxUpload, MaxHeaders, Spoolers} \subseteq Nat
    /\ ReadBufSize <= ReadAhead /\ ReadAhead <= MaxInput /\ MaxUpload <= MaxInput

VARIABLES
    client,          \* the shape that is being sent
    rq,              \* the Sock and its Request
    rphase           \* "idle", "read", "parse", "content", or the SockState of the result
rqVars == <<client, rq, rphase>>

NoClient == [line |-> "ok", headers |-> <<>>, declared |-> 0, chunks |-> <<>>, body |-> 0]
\* NsFreeRequest leaves a Request for the next use, SockClose a Sock.
Clean == [woff |-> 0, roff |-> 0, avail |-> 0, coff |-> 0, length |-> 0, contentLength |-> 0, chunkStart |-> 0, expected |-> 0,
          decoded |-> <<>>, buf |-> 0, lines |-> 0, line |-> FALSE, headers |-> 0, tfd |-> "none", file |-> <<>>, who |-> "none",
          flags |-> {}, keep |-> TRUE, content |-> <<>>]

RqInit == client = NoClient /\ rq = Clean /\ rphase = "idle"

\* The place of the newline that ends line i, and of the end of the headers
LineEnd(i) == IF i <= 1 + Len(client.headers) THEN 2 * i ELSE 2 * i - 1
HeadEnd(c) == IF c.line = "old" THEN 2 ELSE 2 * (1 + Len(c.headers)) + 1
HasPiece(kind) == \E i \in 1..Len(client.headers) : client.headers[i] = kind
\* Chunks are a byte for the length, and the data.
ChunkEnd(k) == LET Ends[n \in 0..k] == IF n = 0 THEN HeadEnd(client) ELSE Ends[n - 1] + client.chunks[n] + 1 IN Ends[k]
ChunkData(k) == [i \in 1..client.chunks[k] |-> ChunkEnd(k - 1) + 1 + i]
\* The data of chunks i to k
Data(i, k) == LET D[n \in i - 1..k] == IF n < i THEN <<>> ELSE D[n - 1] \o ChunkData(n) IN D[k]
AllData == Data(1, Len(client.chunks))
ReadTotal == HeadEnd(client) + client.body

\* A request begins on a connection: DriverThread reads it, or it is queued unread.
SockPrepare(c) ==
    /\ rphase = "idle"
    /\ client' = c
    /\ rq' = [rq EXCEPT !.who = IF Async THEN "driver" ELSE "conn"]
    /\ rphase' = "read"

-----------------------------------------------------------------------------
Answer(r, state) == rq' = r /\ rphase' = state /\ UNCHANGED client

\* Mutant: the content that was read with the headers is not written to the file.
SpoolStartNone == <<>>

\* What is behind the headers in the buffer is written to the file.
SpoolStart == [i \in 1..rq.buf - rq.coff |-> rq.coff + i]

SpoolDue == rq.coff > 0 /\ rq.chunkStart = 0 /\ rq.length > ReadAhead /\ rq.tfd = "none"
NRead == LET want == IF rq.length = 0 THEN ReadBufSize ELSE rq.length - rq.avail
         IN IF rq.buf + want > MaxInput THEN MaxInput - rq.buf ELSE want

\* SockRead of n bytes; -1 when the client is gone
SockRead(n) ==
    LET spool == SpoolDue
        r == IF spool THEN [rq EXCEPT !.tfd = IF MaxUpload > 0 /\ rq.length > MaxUpload THEN "upload" ELSE "temp",
                                      !.file = SpoolStart, !.buf = 0]
             ELSE rq
        got == [i \in 1..n |-> rq.woff + i]
    IN /\ rphase = "read"
       /\ \/ /\ NRead = 0 /\ n = 0
             /\ Answer(rq, "ERROR")
          \/ /\ NRead > 0 /\ spool /\ Spoolers > 0 /\ rq.who # "spooler" /\ n = 0
             /\ Answer(rq, "SPOOL")
          \/ /\ NRead > 0 /\ ~(spool /\ Spoolers > 0 /\ rq.who # "spooler")
             /\ n <= NRead /\ rq.woff + n <= ReadTotal
             /\ IF n = -1 THEN rq.woff = ReadTotal /\ Answer(r, "READERROR")
                ELSE IF n = 0 THEN Answer(r, "read")
                ELSE Answer([r EXCEPT !.woff = @ + n, !.avail = @ + n,
                                      !.buf = IF r.tfd = "none" THEN @ + n ELSE @,
                                      !.file = IF r.tfd = "none" THEN @ ELSE @ \o got], "parse")

\* The file cannot be made, or be written to.
SpoolFails ==
    /\ Fails /\ rphase = "read" /\ NRead > 0
    /\ \/ SpoolDue /\ ~(Spoolers > 0 /\ rq.who # "spooler") /\ \E s \in {"ERROR", "WRITEERROR"} : Answer(rq, s)
       \/ rq.tfd # "none" /\ Answer(rq, "WRITEERROR")

\* SockSpoolerQueue: a spooler thread goes on with the request.
SockSpoolerQueue == rphase = "SPOOL" /\ rq.who = "driver" /\ Answer([rq EXCEPT !.who = "spooler"], "read")

\* strnchr(s, avail, '\n')
LineComplete(i) == LineEnd(i) <= rq.roff + rq.avail

\* The blank line: where the content begins and how long it will be
BlankLine(r) ==
    LET chunked == HasPiece("chunked") /\ ~HasPiece("length")
        length == IF HasPiece("length") THEN client.declared ELSE 0
        r1 == [r EXCEPT !.coff = r.roff, !.chunkStart = IF chunked THEN r.roff ELSE 0, !.length = length, !.contentLength = length,
                        !.expected = IF chunked /\ HasPiece("expect") THEN client.declared ELSE 0]
    IN IF length > MaxInput THEN [r1 EXCEPT !.flags = {"entitytoolarge"}, !.keep = FALSE] ELSE r1

\* The request line, or a header
FullLine(r, i, kind) ==
    CASE i = 1 /\ kind = "bad" -> Answer(r, "BADREQUEST")
      [] i = 1 /\ kind = "old" -> Answer([r EXCEPT !.line = TRUE, !.coff = r.roff], "content")
      [] i = 1 /\ kind \notin {"bad", "old"} -> Answer([r EXCEPT !.line = TRUE], "parse")
      [] i > 1 /\ kind = "bad" -> Answer(r, "BADHEADER")
      [] i > 1 /\ kind # "bad" -> Answer([r EXCEPT !.headers = @ + 1], IF r.headers + 1 > MaxHeaders THEN "TOOMANYHEADERS" ELSE "parse")

\* SockParse, one line.  Of a line that is too long a note is taken.
SockParse ==
    LET i == rq.lines + 1
        end == LineEnd(i)
        kind == IF i = 1 THEN client.line ELSE IF i <= 1 + Len(client.headers) THEN client.headers[i - 1] ELSE "blank"
        r == [rq EXCEPT !.roff = end, !.avail = @ - (end - rq.roff), !.lines = i]
        noted == IF kind = "long" THEN [r EXCEPT !.keep = FALSE, !.flags = {IF i = 1 THEN "uritoolong" ELSE "linetoolong"}] ELSE r
    IN /\ rphase = "parse" /\ rq.coff = 0
       /\ CASE ~LineComplete(i) -> Answer(rq, "read")
            [] LineComplete(i) /\ kind = "blank" -> Answer(BlankLine(noted), "content")
            [] LineComplete(i) /\ kind # "blank" -> FullLine(noted, i, kind)

ChunksAt(r) == {k \in 1..Len(client.chunks) : ChunkEnd(k - 1) >= r.chunkStart /\ ChunkEnd(k) <= r.woff}

\* Mutant: decoding starts from the first chunk again.
ChunkedDecodeAgain(r) ==
    LET done == {k \in 1..Len(client.chunks) : ChunkEnd(k) <= r.woff}
        last == IF done = {} THEN 0 ELSE CHOOSE k \in done : \A j \in done : j <= k
    IN [r EXCEPT !.decoded = @ \o Data(1, last)]

\* ChunkedDecode: the chunks from chunkStart on that are complete in the buffer
ChunkedDecode(r) ==
    LET new == ChunksAt(r)
        first == CHOOSE k \in new : \A j \in new : k <= j
        last == CHOOSE k \in new : \A j \in new : j <= k
    IN IF new = {} THEN r
       ELSE [r EXCEPT !.decoded = @ \o Data(first, last), !.chunkStart = ChunkEnd(last)]

\* SockParse, behind the headers: is the content complete, and where is it
SockContent ==
    LET r0 == IF rq.contentLength # 0 THEN [rq EXCEPT !.length = rq.contentLength] ELSE rq
        r1 == IF r0.chunkStart # 0 THEN ChunkedDecode(r0) ELSE r0
        short == r1.chunkStart # 0 /\ r1.expected # 0 /\ Len(r1.decoded) < r1.expected
        r2 == IF r1.chunkStart # 0 THEN [r1 EXCEPT !.length = Len(r1.decoded)] ELSE r1
        content == CASE r2.tfd = "upload" -> <<>>
                     [] r2.tfd = "temp" -> [i \in 1..r2.length |-> IF i <= Len(r2.file) THEN r2.file[i] ELSE 0]
                     [] r2.tfd = "none" /\ r2.chunkStart # 0 -> r2.decoded
                     [] r2.tfd = "none" /\ r2.chunkStart = 0 -> [i \in 1..r2.length |-> r2.coff + i]
    IN /\ rphase \in {"content", "parse"} /\ rq.coff > 0
       /\ IF short THEN Answer(r1, "read")
          ELSE IF r2.length > r2.avail THEN Answer(r2, "read")
          ELSE Answer([r2 EXCEPT !.content = content, !.avail = IF r2.tfd = "upload" THEN 0 ELSE r2.length],
                      IF r2.line THEN "READY" ELSE "ERROR")

\* NsFreeRequest, SockClose
ReadFreed == Clean

\* The request was served, or refused by SockError, or could not be read by NsGetRequest.
RequestDone ==
    /\ \/ rphase \in {"READY", "ERROR", "READERROR", "WRITEERROR", "BADREQUEST", "BADHEADER", "TOOMANYHEADERS"}
       \/ rphase = "SPOOL" /\ rq.who = "conn"
    /\ rq' = ReadFreed /\ rphase' = "idle" /\ client' = NoClient

RqNext ==
    \/ \E c \in Shapes : SockPrepare(c)
    \/ \E n \in -1..MaxInput : SockRead(n)
    \/ SpoolFails \/ SockSpoolerQueue \/ SockParse \/ SockContent \/ RequestDone

-----------------------------------------------------------------------------
\* The counters of the buffer agree: until the content goes to a file, the buffer
\* holds all that was read, and the bytes that are available are those behind
\* the last line; the buffer never outgrows maxinput (SockRead, SockParse).
BufferSound ==
    rphase \in {"read", "parse", "content"} =>
      /\ rq.buf <= MaxInput /\ rq.avail = rq.woff - rq.roff
      /\ IF rq.tfd = "none" THEN rq.buf = rq.woff ELSE rq.buf = 0 /\ Len(rq.file) = rq.woff - rq.coff

\* The file has the content from its first byte on, none missing, doubled or out
\* of order, whichever thread wrote it and however it arrived.
FileExact == \A i \in 1..Len(rq.file) : rq.file[i] = rq.coff + i

\* The data of the chunks, as far as they were decoded, are in the content in their order.
ChunksInOrder ==
    Len(rq.decoded) <= Len(AllData) /\ rq.decoded = SubSeq(AllData, 1, Len(rq.decoded))

\* What becomes of a shape, whatever the pieces it arrives in.
BadLine == {i \in 1..Len(client.headers) : client.headers[i] = "bad"}
Outcome ==
    IF client.line = "bad" THEN "BADREQUEST"
    ELSE IF client.line = "old" THEN "READY"
    ELSE IF \E i \in BadLine : i <= MaxHeaders + 1 THEN "BADHEADER"
    ELSE IF Len(client.headers) > MaxHeaders THEN "TOOMANYHEADERS"
    ELSE "READY"
Content ==
    IF client.line = "old" THEN <<>>
    ELSE IF HasPiece("length") THEN IF rq.tfd = "upload" THEN <<>> ELSE [i \in 1..client.declared |-> HeadEnd(client) + i]
    ELSE IF HasPiece("chunked") THEN AllData
    ELSE <<>>

\* The result of reading a request and the content it hands over depend on what the
\* client sent and not on how it arrived in pieces (SockRead, SockParse).
PiecesDoNotMatter ==
    /\ rphase = "READY" => Outcome = "READY" /\ rq.content = Content /\ (rq.tfd = "upload" => rq.file = [i \in 1..client.declared |-> HeadEnd(client) + i])
    /\ rphase \in {"BADREQUEST", "BADHEADER", "TOOMANYHEADERS"} => rphase = Outcome
    /\ rphase # "ERROR" /\ ~(rphase = "SPOOL" /\ rq.who = "conn")

\* What holds for all requests.
ReadInv == BufferSound /\ FileExact /\ ChunksInOrder

-----------------------------------------------------------------------------
(***************************************************************************)
(* How a connection thread runs a request (ConnRun in nsd/queue.c): driver *)
(* check, proxy requests, filters (filter.c, tclrequest.c), authorization  *)
(* (auth.c), the registered request procedure (op.c), traces and cleanups, *)
(* while other threads register and remove procedures and filters.  One    *)
(* URL is modelled: which registration speaks for a URL is UrlSpace's      *)
(* subject.                                                                *)
(***************************************************************************)

CONSTANTS
    ReqConns,        \* connection threads, each with one request
    MaxRegs,         \* how many request procedures and filters are registered
    PostErrors       \* do post-authorization filters fail

VARIABLES
    reqCurrent,      \* the Req in the URL space, 0 for none
    reqCount,        \* number of Reqs allocated so far
    refcnt,          \* Req -> refcnt
    reqDeleted,      \* Req -> how often it has been freed
    filters,         \* the server's filters in list order: [id, when, shortcut]
    rc               \* thread -> the state of its connection

reqVars == <<reqCurrent, reqCount, refcnt, reqDeleted, filters, rc>>

Whens == {"preauth", "postauth", "trace", "void"}

ReqInit ==
    /\ reqCurrent = 0 /\ reqCount = 0
    /\ refcnt = [r \in 1 .. MaxRegs |-> 0] /\ reqDeleted = [r \in 1 .. MaxRegs |-> 0]
    /\ filters = <<>>
    /\ rc = [c \in ReqConns |-> [pc |-> "new", status |-> "ok", fptr |-> 0, base |-> {}, hist |-> <<>>,
                                 req |-> 0, sent |-> FALSE, traced |-> FALSE]]

\* Mutant: the procedure is freed at once.
FreeReqAtOnce(r) ==
    /\ refcnt' = [refcnt EXCEPT ![r] = 0]
    /\ reqDeleted' = [reqDeleted EXCEPT ![r] = @ + 1]

\* FreeReq: the last reference frees the Req.
FreeReq(r) ==
    /\ refcnt' = [refcnt EXCEPT ![r] = @ - 1]
    /\ reqDeleted' = [reqDeleted EXCEPT ![r] = IF refcnt[r] = 1 THEN @ + 1 ELSE @]

\* A new registration for the URL replaces the old one (TrieAdd calls FreeReq).
Ns_RegisterRequest ==
    /\ reqCount + Len(filters) < MaxRegs
    /\ reqCount' = reqCount + 1 /\ reqCurrent' = reqCount + 1
    /\ IF reqCurrent = 0
       THEN refcnt' = [refcnt EXCEPT ![reqCount + 1] = 1] /\ UNCHANGED reqDeleted
       ELSE /\ refcnt' = [refcnt EXCEPT ![reqCount + 1] = 1, ![reqCurrent] = @ - 1]
            /\ reqDeleted' = [reqDeleted EXCEPT ![reqCurrent] = IF refcnt[reqCurrent] = 1 THEN @ + 1 ELSE @]
    /\ UNCHANGED <<filters, rc>>

Ns_UnRegisterRequest ==
    /\ reqCurrent # 0
    /\ FreeReq(reqCurrent) /\ reqCurrent' = 0
    /\ UNCHANGED <<reqCount, filters, rc>>

\* Ns_RegisterFilter: at the end, or with -first at the front of the list.
Ns_RegisterFilter(when, first, shortcut) ==
    LET f == [id |-> Len(filters) + 1, when |-> when, shortcut |-> shortcut] IN
    /\ reqCount + Len(filters) < MaxRegs
    /\ filters' = IF first THEN <<f>> \o filters ELSE Append(filters, f)
    /\ UNCHANGED <<reqCurrent, reqCount, refcnt, reqDeleted, rc>>

\* The Tcl commands: ns_register_filter, ns_shortcut_filter, ns_register_trace, ns_register_proc
\* (or ns_register_fastpath) and ns_unregister_op.
NsTclRegisterFilterObjCmd(when, first) == when # "void" /\ Ns_RegisterFilter(when, first, FALSE)
NsTclShortcutFilterObjCmd(when) == when # "void" /\ Ns_RegisterFilter(when, FALSE, TRUE)
NsTclRegisterTraceObjCmd == Ns_RegisterFilter("void", FALSE, FALSE)
NsTclRegisterProcObjCmd == Ns_RegisterRequest
NsTclUnRegisterOpObjCmd == Ns_UnRegisterRequest

FilterIds(when) == {f.id : f \in {g \in Range(filters) : g.when = when}}
PlaceOf(id) == SelectInSeq(filters, LAMBDA f : f.id = id)

\* Mutant: the next filter is counted, not followed.
NextCounted(after, when) ==
    LET from == after
        later == SelectSeq(SubSeq(filters, from + 1, Len(filters)), LAMBDA f : f.when = when)
    IN  IF later = <<>> THEN 0 ELSE later[1].id

\* The next filter of a kind in the list, after the filter `after' (0 for the head).
NextFilter(after, when) ==
    LET from == IF after = 0 THEN 0 ELSE PlaceOf(after)
        later == SelectSeq(SubSeq(filters, from + 1, Len(filters)), LAMBDA f : f.when = when)
    IN  IF later = <<>> THEN 0 ELSE later[1].id

Enter(c, when) ==
    rc' = [rc EXCEPT ![c].pc = when, ![c].status = "ok", ![c].fptr = NextFilter(0, when),
                     ![c].base = FilterIds(when), ![c].hist = <<>>]

\* On to a step outside the filters.
Go(c, pc, status, sent) ==
    rc' = [rc EXCEPT ![c] = [@ EXCEPT !.pc = pc, !.status = status, !.sent = @ \/ sent, !.req = 0,
                                      !.fptr = 0, !.base = {}, !.hist = <<>>]]

\* ConnRun up to the filters: the driver's check, and requests to a proxy.
ConnRun(c, driverOk, proxy) ==
    /\ rc[c].pc = "new"
    /\ IF proxy THEN Go(c, "close", "ok", TRUE)
       ELSE IF driverOk THEN Enter(c, "preauth") ELSE Go(c, "close", "return", TRUE)
    /\ UNCHANGED <<reqCurrent, reqCount, refcnt, reqDeleted, filters>>

\* The results of NsTclFilterProc, where a timeout has been answered and counts as a return and
\* the results of void traces do not count, and of NsShortcutFilterProc.
FilterResults(f) ==
    IF f.shortcut THEN {"break"}
    ELSE (IF f.when = "void" THEN {"ok", "return"} ELSE {"ok", "break", "return"})
         \cup IF f.when = "postauth" /\ ~PostErrors THEN {} ELSE {"error"}

\* A filter that ran without the lock is done; the list may have grown meanwhile.
RunFilter(c, result) ==
    LET r == rc[c] IN
    /\ r.pc \in Whens /\ r.fptr # 0 /\ r.status = "ok"
    /\ result \in FilterResults(filters[PlaceOf(r.fptr)])
    /\ rc' = [rc EXCEPT ![c].status = result,
                        ![c].hist = Append(@, r.fptr), ![c].fptr = NextFilter(r.fptr, r.pc),
                        ![c].sent = r.sent \/ (result = "return" /\ r.pc \in {"preauth", "postauth"})]
    /\ UNCHANGED <<reqCurrent, reqCount, refcnt, reqDeleted, filters>>

\* What NsRunFilters returns.
FilterStatus(r) ==
    IF r.status = "break" \/ (r.pc = "trace" /\ r.status = "return") THEN "ok" ELSE r.status
FiltersDone(c) == rc[c].pc \in Whens /\ (rc[c].fptr = 0 \/ rc[c].status # "ok")

\* Mutant: the error page is left to the filter.
PreauthErrorSilent(c, auth) ==
    LET status == FilterStatus(rc[c]) IN
    /\ rc[c].pc = "preauth" /\ FiltersDone(c)
    /\ IF status = "ok" /\ auth = "ok" THEN Enter(c, "postauth")
       ELSE Go(c, "close", "return", status = "ok")
    /\ UNCHANGED <<reqCurrent, reqCount, refcnt, reqDeleted, filters>>

\* Ns_ConnReturnInternalError for a failed filter, so that something is sent.
AfterPreauth(c, auth) ==
    LET status == FilterStatus(rc[c]) IN
    /\ rc[c].pc = "preauth" /\ FiltersDone(c)
    /\ CASE status = "ok" /\ auth = "ok" -> Enter(c, "postauth")
         [] status = "ok" /\ auth # "ok" -> Go(c, "close", auth, TRUE)
         [] OTHER -> Go(c, "close", "return", status # "return")
    /\ UNCHANGED <<reqCurrent, reqCount, refcnt, reqDeleted, filters>>

\* Ns_ConnRunRequest: look the procedure up and keep it from being freed.
AfterPostauth(c) ==
    LET status == FilterStatus(rc[c]) IN
    /\ rc[c].pc = "postauth" /\ FiltersDone(c)
    /\ CASE status # "ok" -> Go(c, "close", status, FALSE) /\ UNCHANGED refcnt
         [] status = "ok" /\ reqCurrent = 0 -> Go(c, "close", "ok", TRUE) /\ UNCHANGED refcnt
         [] OTHER -> /\ rc' = [rc EXCEPT ![c].pc = "run", ![c].req = reqCurrent, ![c].base = {}, ![c].hist = <<>>]
                     /\ refcnt' = [refcnt EXCEPT ![reqCurrent] = @ + 1]
    /\ UNCHANGED <<reqCurrent, reqCount, reqDeleted, filters>>

\* NsTclRequestProc answers, if need be with an error page; its status is that of the answer.
RequestProcDone(c, status) ==
    /\ rc[c].pc = "run"
    /\ FreeReq(rc[c].req)
    /\ Go(c, "close", status, TRUE)
    /\ UNCHANGED <<reqCurrent, reqCount, filters>>

\* Mutant: a request that a filter answered is not traced.
IsTracedOk(status) == status = "ok"

IsTraced(status) == status \in {"ok", "return"}

\* Ns_ConnClose, then the trace filters if the status lets them run.
CloseConn(c) ==
    /\ rc[c].pc = "close"
    /\ IF IsTraced(rc[c].status) THEN Enter(c, "trace") ELSE Go(c, "done", rc[c].status, FALSE)
    /\ UNCHANGED <<reqCurrent, reqCount, refcnt, reqDeleted, filters>>

\* Void traces run if no trace filter failed, then in any case the server traces (the access log).
AfterTrace(c) ==
    /\ rc[c].pc = "trace" /\ FiltersDone(c)
    /\ IF FilterStatus(rc[c]) = "ok" THEN Enter(c, "void") ELSE Go(c, "done", "error", FALSE)
    /\ UNCHANGED <<reqCurrent, reqCount, refcnt, reqDeleted, filters>>

\* The void traces' own status is dropped.
NsRunTraces(c) ==
    /\ rc[c].pc = "void" /\ FiltersDone(c)
    /\ rc' = [rc EXCEPT ![c].pc = "done", ![c].traced = TRUE, ![c].base = {}, ![c].hist = <<>>, ![c].fptr = 0]
    /\ UNCHANGED <<reqCurrent, reqCount, refcnt, reqDeleted, filters>>

ReqNext ==
    \/ NsTclRegisterProcObjCmd \/ NsTclUnRegisterOpObjCmd \/ NsTclRegisterTraceObjCmd
    \/ \E when \in Whens : NsTclShortcutFilterObjCmd(when) \/ \E first \in BOOLEAN : NsTclRegisterFilterObjCmd(when, first)
    \/ \E c \in ReqConns :
         \/ \E driverOk, proxy \in BOOLEAN : ConnRun(c, driverOk, proxy)
         \/ \E result \in {"ok", "break", "return", "error"} : RunFilter(c, result)
         \/ \E auth \in {"ok", "forbidden", "unauthorized", "error"} : AfterPreauth(c, auth)
         \/ AfterPostauth(c)
         \/ \E status \in {"ok", "error"} : RequestProcDone(c, status)
         \/ CloseConn(c) \/ AfterTrace(c) \/ NsRunTraces(c)

ReqSpec == ReqInit /\ [][ReqNext]_reqVars

(***************************************************************************)
(* A request procedure is freed when it is neither registered nor run by   *)
(* any thread any more, and once (FreeReq, op.c:573).                      *)
(***************************************************************************)
ReqRefs == \A r \in 1 .. reqCount :
    /\ refcnt[r] = Cardinality({c \in ReqConns : rc[c].req = r}) + IF reqCurrent = r THEN 1 ELSE 0
    /\ reqDeleted[r] = IF refcnt[r] = 0 THEN 1 ELSE 0

(***************************************************************************)
(* Filters that are registered while a thread is in a filter, even at the  *)
(* front, make it neither repeat nor skip one: those that ran are in list  *)
(* order, and if none objected they include all that were there when the   *)
(* phase began.                                                            *)
(***************************************************************************)
FiltersInOrder == \A c \in ReqConns : LET r == rc[c] IN
    /\ \A i, j \in 1 .. Len(r.hist) : i < j => PlaceOf(r.hist[i]) < PlaceOf(r.hist[j])
    /\ r.pc \in Whens /\ r.fptr = 0 /\ r.status = "ok" => r.base \subseteq Range(r.hist)

(***************************************************************************)
(* The server traces, the access log among them, miss a request only if it *)
(* was refused, its procedure or a filter after authorization failed, or a *)
(* trace filter failed (last to run).                                      *)
(***************************************************************************)
TracedIfServed == \A c \in ReqConns : rc[c].pc = "done" /\ ~rc[c].traced =>
    rc[c].status \in {"forbidden", "unauthorized", "error"}

(***************************************************************************)
(* Procedures, filters and traces in every interleaving.                   *)
(***************************************************************************)
RequestInv == ReqRefs /\ FiltersInOrder /\ TracedIfServed

(***************************************************************************)
(* Every request gets an answer: with PostErrors a post-authorization      *)
(* filter that fails leaves the client without one (queue.c:1510), unlike  *)
(* a pre-authorization filter.                                             *)
(***************************************************************************)
EveryoneAnswered == \A c \in ReqConns : rc[c].pc = "done" => rc[c].sent
=============================================================================
