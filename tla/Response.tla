------------------------------ MODULE Response ------------------------------
(***************************************************************************)
(* The response of a connection as it goes out on the socket: headers,     *)
(* content length, chunks, compression, ranges, and whether the socket is  *)
(* kept for another request (nsd/connio.c, return.c, returnresp.c,         *)
(* tclresp.c).  Data are numbers of bytes.  Small responses are sent by    *)
(* the connection thread itself (Writer.tla has the writer threads).       *)
(***************************************************************************)
EXTENDS Integers, FiniteSets, Sequences, SequencesExt

CONSTANTS
    Versions,        \* HTTP versions of requests: 9, 10, 11
    ConnHdrs,        \* "Connection" request headers: "none", "close", "keep-alive"
    Uploads,         \* request bodies: "ok", "nolength", "large" (over keepmaxuploadsize)
    Sizes,           \* lengths of data written
    MinSize,         \* compress.minsize
    MaxDownload,     \* keepmaxdownloadsize
    MaxPieces,       \* writes of a handler
    MaxRecursion,    \* MAX_RECURSION of error redirects
    ZipLevel,        \* compression level of the server
    ZipStreams,      \* are streams and data of announced length compressed too
    Dishonest,       \* do handlers send something else than they announced, or force keep-alive
    SendFails,       \* can sending fail halfway
    HeadRanges       \* do HEAD requests come with a Range header

VARIABLES
    req,             \* request: [ver, hdr, head, zip, upload]
    rsp,             \* the connection's response state
    wire             \* what went out: header, bytes outside chunks, bytes in chunks, last chunks

rspVars == <<req, rsp, wire>>

NoReq == [ver |-> 0, hdr |-> "none", head |-> FALSE, zip |-> FALSE, upload |-> "ok"]
NoHeader == [cl |-> -2, chunked |-> FALSE, keep |-> FALSE, gzip |-> FALSE]
NewRsp == [phase |-> "handler", skiphdrs |-> FALSE, senthdrs |-> FALSE, stream |-> FALSE, chunk |-> FALSE,
           keep |-> -1, length |-> -1, cl |-> -1, multipart |-> FALSE, compress |-> -1, gzip |-> FALSE,
           tclhttp |-> FALSE, pieces |-> 0, recursion |-> 0, sock |-> "open"]
NoWire == [hdr |-> NoHeader, raw |-> 0, chunks |-> 0, last |-> 0, broken |-> FALSE, zopen |-> FALSE]

RspInit ==
    /\ req = NoReq
    /\ rsp = [NewRsp EXCEPT !.phase = "idle"]
    /\ wire = NoWire

-----------------------------------------------------------------------------
\* Ns_ConnSetLengthHeader
SetLength(r, n) == [r EXCEPT !.cl = n, !.length = n]

\* Mutant: a response without length is kept open too.
CheckKeepAny(r) ==
    \/ r.keep > 0
    \/ /\ r.keep = -1
       /\ \/ req.ver = 10 /\ req.hdr = "keep-alive"
          \/ req.ver = 11 /\ req.hdr # "close"
       /\ req.upload = "ok"
       /\ r.length <= MaxDownload

\* CheckKeep (with keepwait > 0)
CheckKeep(r) ==
    \/ r.keep > 0
    \/ /\ r.keep = -1
       /\ \/ req.ver = 10 /\ req.hdr = "keep-alive"
          \/ req.ver = 11 /\ req.hdr # "close"
       /\ req.upload = "ok"
       /\ r.length <= MaxDownload
       /\ r.chunk \/ r.cl # -1 \/ r.multipart

\* Mutant: chunks for HTTP/1.0 clients too.
ChunkedAny(r, stream) == stream /\ r.length < 0 /\ r.keep # 0 /\ ~r.multipart

Chunked(r, stream) == stream /\ r.length < 0 /\ req.ver > 10 /\ r.keep # 0 /\ ~r.multipart

\* Ns_CompleteHeaders
Ns_CompleteHeaders(r, n, stream) ==
    LET str == [r EXCEPT !.stream = @ \/ stream, !.chunk = @ \/ Chunked(r, stream)]
        len == IF ~stream /\ r.length < 0 THEN SetLength(str, n) ELSE str
    IN [len EXCEPT !.keep = IF CheckKeep(len) THEN 1 ELSE 0]

\* Ns_ConnWriteVData: data of n bytes, plus the last chunk when the stream is closed.
Ns_ConnWriteVData(r, w, n, stream, close) ==
    LET r1 == [r EXCEPT !.stream = @ \/ stream]
        heads == ~r1.senthdrs /\ ~r1.skiphdrs
        r2 == IF heads THEN Ns_CompleteHeaders(r1, n, stream) ELSE r1
        r3 == [r2 EXCEPT !.senthdrs = TRUE]
        w1 == IF heads
              THEN [w EXCEPT !.hdr = [cl |-> r3.cl, chunked |-> r3.chunk, keep |-> r3.keep = 1, gzip |-> r3.gzip]]
              ELSE w
    IN IF req.head THEN [r |-> r3, w |-> w1]
       ELSE IF ~r3.chunk THEN [r |-> r3, w |-> [w1 EXCEPT !.raw = @ + n]]
       ELSE [r |-> IF close THEN [r3 EXCEPT !.stream = FALSE] ELSE r3,
             w |-> [w1 EXCEPT !.chunks = @ + n, !.last = IF close THEN @ + 1 ELSE @]]

\* CheckCompress
CheckCompress(r, n, stream) ==
    IF /\ ZipLevel > 0
       /\ stream \/ n >= MinSize \/ r.length >= MinSize
       /\ ~r.senthdrs /\ ~req.head /\ req.zip
    THEN 1 ELSE 0

\* Ns_ConnWriteVChars: z is the size of the n bytes when they are compressed.
Ns_ConnWriteVChars(r, w, n, z, stream, close) ==
    LET c == IF r.compress < 0 THEN CheckCompress(r, n, stream) ELSE r.compress
        r1 == [r EXCEPT !.compress = c, !.gzip = @ \/ c > 0]
        zips == c > 0 /\ n > 0
        w1 == IF zips THEN [w EXCEPT !.zopen = stream] ELSE w
    IN Ns_ConnWriteVData(r1, w1, IF zips THEN z ELSE n, stream, close)

\* Sizes after compression: a stream may hold everything back.
Zipped(n, stream) == IF stream THEN {0, 1} ELSE {1}

\* Mutant: the stream is not finished.
ConnCloseStream(r, w) ==
    IF r.sock # "open" THEN [r |-> r, w |-> w]
    ELSE [r |-> [r EXCEPT !.sock = IF r.keep > 0 THEN "kept" ELSE "closed", !.phase = "done"], w |-> w]

\* Ns_ConnClose
Ns_ConnClose(r, w) ==
    LET end == IF r.stream /\ (r.chunk \/ r.compress > 0)
               THEN Ns_ConnWriteVChars(r, w, 0, 0, FALSE, TRUE)
               ELSE [r |-> r, w |-> w]
    IN IF r.sock # "open" THEN [r |-> r, w |-> w]
       ELSE [r |-> [end.r EXCEPT !.sock = IF end.r.keep > 0 THEN "kept" ELSE "closed", !.phase = "done"],
             w |-> end.w]

\* Sending may fail: the client gets a part only, the state is the same.
Sent(res) ==
    /\ rsp' = res.r
    /\ wire' = res.w \/ (SendFails /\ wire' = [res.w EXCEPT !.broken = TRUE])

-----------------------------------------------------------------------------
\* ConnRun: the request is there.
RspBegin(ver, hdr, head, zip, upload) ==
    /\ rsp.phase = "idle"
    /\ req' = [ver |-> ver, hdr |-> hdr, head |-> head, zip |-> zip, upload |-> upload]
    /\ rsp' = [NewRsp EXCEPT !.skiphdrs = ver < 10]
    /\ wire' = NoWire

Handler == rsp.phase = "handler"
Piece(r) == [r EXCEPT !.pieces = @ + 1]
Announced == rsp.length >= 0
Written == wire.raw + wire.chunks

\* ns_headers, with or without a length
NsTclHeadersObjCmd(n) ==
    /\ Handler /\ ~rsp.tclhttp /\ (Dishonest \/ ~rsp.senthdrs)
    /\ rsp' = [(IF n >= 0 THEN SetLength(rsp, n) ELSE rsp) EXCEPT !.tclhttp = TRUE]
    /\ UNCHANGED <<req, wire>>

\* ns_write of text or binary data; an honest handler keeps to the announced length.
NsTclWriteObjCmd(n, binary) ==
    LET stream == rsp.length < 0
        r == Piece([rsp EXCEPT !.skiphdrs = @ \/ (~rsp.senthdrs /\ ~rsp.tclhttp)])
    IN /\ Handler /\ rsp.pieces < MaxPieces
       /\ Dishonest \/ ~Announced \/ (rsp.pieces = 0 /\ rsp.length = n)
       /\ IF binary THEN Sent(Ns_ConnWriteVData(r, wire, n, stream, FALSE))
          ELSE /\ ZipStreams \/ ~(CheckCompress(rsp, n, stream) > 0 /\ (stream \/ Announced))
               /\ \E z \in Zipped(n, stream) : Sent(Ns_ConnWriteVChars(r, wire, n, z, stream, FALSE))
       /\ UNCHANGED req

\* Ns_ConnPuts, Ns_ConnSendDString: streamed whatever was announced.
Ns_ConnPuts(n) ==
    /\ Handler /\ rsp.pieces < MaxPieces
    /\ Dishonest \/ ~Announced \/ (rsp.pieces = 0 /\ rsp.length = n)
    /\ Sent(Ns_ConnWriteVData(Piece(rsp), wire, n, TRUE, FALSE))
    /\ UNCHANGED req

\* A handler that answers with one of the functions below did not answer before.
Fresh == Handler /\ (Dishonest \/ ~(rsp.senthdrs \/ rsp.tclhttp))

\* Ns_ConnReturnCharData, and all notices: the connection is closed behind the data.
Ns_ConnReturnCharData(r, n) ==
    \E z \in Zipped(n, FALSE) :
        LET res == Ns_ConnWriteVChars(r, wire, n, z, FALSE, FALSE)
        IN Sent(Ns_ConnClose(res.r, res.w))

ReturnChars(n) == Fresh /\ Ns_ConnReturnCharData(rsp, n) /\ UNCHANGED req

\* Mutant: a single range is announced with the length of the whole file.
ReturnRangeWhole(r, n, ranges) ==
    IF ranges < 0 THEN Ns_ConnWriteVData(r, wire, 0, FALSE, FALSE)
    ELSE LET r1 == SetLength(r, n)
             res == Ns_ConnWriteVData(r1, wire, 0, TRUE, FALSE)
             sent == IF req.head THEN 0 ELSE IF ranges = 1 THEN n - 1 ELSE n
         IN [r |-> res.r, w |-> [res.w EXCEPT !.raw = @ + sent]]

\* ReturnRange: no ranges (0), one that leaves out a byte (1), several (2) or an
\* unsatisfiable one (-1), which is answered with 416.  The data follow the headers as they are.
ReturnRange(r, n, ranges) ==
    IF ranges < 0 THEN Ns_ConnWriteVData(r, wire, 0, FALSE, FALSE)
    ELSE LET body == CASE ranges = 0 -> n [] ranges = 1 -> n - 1 [] ranges = 2 -> n + 1
             r1 == [SetLength(r, body) EXCEPT !.multipart = ranges = 2]
             res == Ns_ConnWriteVData(r1, wire, 0, TRUE, FALSE)
             sent == IF ranges = 0 /\ req.head THEN 0 ELSE body
         IN [r |-> res.r, w |-> [res.w EXCEPT !.raw = @ + sent]]

\* Ns_ConnReturnData and Ns_ConnReturnOpenFd
Ns_ConnReturnData(n, ranges) ==
    LET res == ReturnRange(rsp, n, ranges)
    IN /\ Fresh
       /\ ranges = 0 \/ ~req.head \/ HeadRanges
       /\ Sent(Ns_ConnClose(res.r, res.w))
       /\ UNCHANGED req

\* Ns_ConnReturnOpenChannel, Ns_ConnReturnOpenFile: ConnSend copies; the file may be shorter than n.
ReturnOpen(n, got) ==
    LET res == Ns_ConnWriteVData(SetLength(rsp, n), wire, got, FALSE, FALSE)
    IN /\ Fresh /\ got <= n
       /\ got = n \/ SendFails
       /\ Sent(Ns_ConnClose(res.r, res.w))
       /\ UNCHANGED req

\* Ns_ConnReturnStatus: headers only.
Ns_ConnReturnStatus ==
    /\ Fresh
    /\ Sent(Ns_ConnWriteVData([rsp EXCEPT !.tclhttp = TRUE], wire, 0, FALSE, FALSE))
    /\ UNCHANGED req

\* ReturnRedirect: an error page of the server, another handler for the same connection.
ReturnRedirect ==
    /\ Handler /\ rsp.recursion < MaxRecursion
    /\ rsp' = [rsp EXCEPT !.recursion = @ + 1]
    /\ UNCHANGED <<req, wire>>

\* Ns_ConnReturnInternalError, Ns_ConnReturnUnavailable: the headers are emptied, responseLength stays.
Ns_ConnReturnInternalError(n) ==
    /\ Handler
    /\ Dishonest \/ ~rsp.senthdrs
    /\ Ns_ConnReturnCharData([rsp EXCEPT !.cl = -1, !.multipart = FALSE], n)
    /\ UNCHANGED req

\* ns_conn keepalive
KeepAlive(k) ==
    /\ Handler /\ (Dishonest \/ k = 0)
    /\ rsp' = [rsp EXCEPT !.keep = k]
    /\ UNCHANGED <<req, wire>>

\* The handler is done, the end of ConnRun; honest handlers have sent what they announced.
RspEnd ==
    LET res == Ns_ConnClose(rsp, wire)
    IN /\ Handler
       /\ Dishonest \/ ~Announced \/ ~rsp.senthdrs \/ req.head \/ rsp.length = Written
       /\ Sent(res)
       /\ UNCHANGED req

\* The socket gets its next request, or the connection is gone.
RspNextRequest ==
    /\ rsp.phase = "done"
    /\ req' = NoReq /\ rsp' = [NewRsp EXCEPT !.phase = "idle"] /\ wire' = NoWire

RspNext ==
    \/ \E v \in Versions, h \in ConnHdrs, d, z \in BOOLEAN, u \in Uploads : RspBegin(v, h, d, z, u)
    \/ \E n \in Sizes \cup {-1} : NsTclHeadersObjCmd(n)
    \/ \E n \in Sizes, b \in BOOLEAN : NsTclWriteObjCmd(n, b)
    \/ \E n \in Sizes : Ns_ConnPuts(n) \/ ReturnChars(n) \/ Ns_ConnReturnInternalError(n)
    \/ \E n \in Sizes, k \in -1..2 : Ns_ConnReturnData(n, k)
    \/ \E n \in Sizes, g \in Sizes : ReturnOpen(n, g)
    \/ \E k \in {0, 1} : KeepAlive(k)
    \/ Ns_ConnReturnStatus \/ ReturnRedirect \/ RspEnd \/ RspNextRequest

-----------------------------------------------------------------------------
\* A socket is kept for the next request only if the client can tell where this
\* response ends: the headers were sent and announced it, and the body has as
\* many bytes as they say or is a sequence of chunks with one last chunk; a HEAD
\* request gets no body (Ns_ConnWriteVData, CheckKeep, Ns_ConnClose).
FramingKept ==
    rsp.sock = "kept" =>
        /\ wire.hdr # NoHeader /\ wire.hdr.keep /\ ~wire.broken
        /\ IF req.head THEN wire.raw = 0 /\ wire.chunks = 0 /\ wire.last = 0
           ELSE IF wire.hdr.chunked THEN wire.last = 1 /\ wire.raw = 0
           ELSE wire.raw = wire.hdr.cl /\ wire.chunks = 0 /\ wire.last = 0

\* A body that is announced as compressed is a complete one when the response is done (Ns_ConnClose).
GzipComplete == rsp.phase = "done" /\ wire.hdr.gzip => ~wire.zopen

\* Chunks go to HTTP/1.1 clients only and with no length announced; nothing
\* follows the last one, whatever the handler does (Ns_CompleteHeaders).
ChunksSound ==
    /\ wire.hdr.chunked => req.ver = 11
    /\ wire.chunks + wire.last > 0 => wire.hdr.chunked
    /\ wire.last <= 1
    /\ wire.last = 1 => rsp.phase = "done"

\* What a client may rely on when handlers keep to the rules.
RspCalm == FramingKept /\ GzipComplete

-----------------------------------------------------------------------------
(***************************************************************************)
(* The Range header of a request for a file (nsd/range.c): parsed range by *)
(* range, merged, and turned into the vector of buffers that is sent.      *)
(***************************************************************************)

CONSTANTS
    MaxObjLength,    \* lengths of the object
    MaxRanges        \* maxranges of NsConnParseRange

VARIABLES
    objLength, ranges, rangeCount,
    asked            \* history: the bytes asked for so far, those of the object only
rngVars == <<objLength, ranges, rangeCount, asked>>

Absent == -1
Syntax == 0
Unsatisfiable == -1
Parsing == -2        \* rangeCount while the header is being parsed
Offsets == Absent..(MaxObjLength + 1)

RngInit == objLength = 0 /\ ranges = <<>> /\ rangeCount = Syntax /\ asked = {}

\* NsMatchRange: a Range header without If-Range, or the file is not newer than it says.
NsMatchRange(mtime, ifRange) == ifRange = Absent \/ mtime <= ifRange

\* A request comes; without a matching header there is nothing to parse.
RngRequest(len, mtime, ifRange) ==
    /\ rangeCount # Parsing
    /\ objLength' = len /\ ranges' = <<>> /\ asked' = {}
    /\ rangeCount' = IF NsMatchRange(mtime, ifRange) THEN Parsing ELSE Syntax

\* "first-last", "first-", "-last": the offsets meant, of the last bytes if first is absent.
Start(first, last) ==
    IF first # Absent THEN first ELSE objLength - (IF last >= objLength THEN objLength ELSE last)
End(first, last) ==
    IF first # Absent /\ last # Absent /\ last < objLength THEN last ELSE objLength - 1

\* Mutant: only ranges behind the previous one are told apart from it.
DisjointAfter(prev, this) == this.start > prev.end + 1

\* The condition for a new range instead of a longer previous one.
Disjoint(prev, this) ==
    \/ this.start > prev.end + 1
    \/ prev.start # 0 /\ this.end < prev.start - 1

\* Mutant: the end of the merged range is that of the last one.
MergeLast(prev, this) ==
    [start |-> IF this.start < prev.start THEN this.start ELSE prev.start, end |-> this.end]

Merge(prev, this) ==
    [start |-> IF this.start < prev.start THEN this.start ELSE prev.start,
     end   |-> IF this.end > prev.end THEN this.end ELSE prev.end]

\* Mutant: the array may be overrun by one.
RoomOneMore == Len(ranges) <= MaxRanges

Room == Len(ranges) < MaxRanges

\* ParseRangeOffsets, one turn of its loop.
ParseRangeOffsets(first, last) ==
    LET this == [start |-> Start(first, last), end |-> End(first, last)]
        new == ranges = <<>> \/ Disjoint(Last(ranges), this)
    IN /\ rangeCount = Parsing /\ Room
       /\ CASE first = Absent /\ last = Absent -> rangeCount' = Syntax /\ UNCHANGED <<ranges, asked>>
            [] this.start >= objLength -> rangeCount' = Unsatisfiable /\ UNCHANGED <<ranges, asked>>
            [] this.start < objLength /\ this.end < this.start ->
                 rangeCount' = Syntax /\ UNCHANGED <<ranges, asked>>
            [] OTHER ->
                 /\ ranges' = IF new THEN Append(ranges, this)
                              ELSE Front(ranges) \o <<Merge(Last(ranges), this)>>
                 /\ asked' = asked \cup this.start..this.end
                 /\ UNCHANGED rangeCount
       /\ UNCHANGED objLength

\* The end of the header, or the array is full.
RangesParsed ==
    /\ rangeCount = Parsing
    /\ rangeCount' = Len(ranges)
    /\ UNCHANGED <<objLength, ranges, asked>>

RngNext ==
    \/ \E len \in 0..MaxObjLength, m \in 0..1, f \in Absent..1 : RngRequest(len, m, f)
    \/ \E first \in Offsets \ {MaxObjLength + 1}, last \in Offsets : ParseRangeOffsets(first, last)
    \/ RangesParsed

-----------------------------------------------------------------------------
\* Lengths of AppendMultipartRangeHeader, of "\r\n" and of AppendMultipartRangeTrailer
HeaderLength(r) == 3 + r.start
Crlf == 2
TrailerLength == 4

Buffer(kind, offset, length) == [kind |-> kind, offset |-> offset, length |-> length]
Length(r) == r.end - r.start + 1

\* Mutant: the line end behind a range is forgotten.
TextLengthShort(rs, i) ==
    IF i > Len(rs) THEN TrailerLength ELSE HeaderLength(rs[i])

\* The text before range i, or behind the last one.
TextLength(rs, i) ==
    (IF i > 1 THEN Crlf ELSE 0) + (IF i > Len(rs) THEN TrailerLength ELSE HeaderLength(rs[i]))

TextOffset(rs, i) == FoldLeftDomain(LAMBDA sum, j : sum + (IF j < i THEN TextLength(rs, j) ELSE 0), 0, rs)

\* NsConnParseRange: one range of the file, or text and ranges by turns.
Buffers(rs) ==
    IF Len(rs) = 1 THEN <<Buffer("file", rs[1].start, Length(rs[1]))>>
    ELSE [v \in 1..(2 * Len(rs) + 1) |->
            LET i == (v + 1) \div 2
            IN IF v % 2 = 1 THEN Buffer("text", TextOffset(rs, i), TextLength(rs, i))
               ELSE Buffer("file", rs[i].start, Length(rs[i]))]

Total(bufs) == FoldLeft(LAMBDA sum, b : sum + b.length, 0, bufs)
ResponseLength(rs) == Total(Buffers(rs))

-----------------------------------------------------------------------------
Bytes(r) == r.start..r.end

\* The ranges are ranges of the object and hold exactly the bytes that were asked
\* for: merging, in whatever order they come, neither loses nor adds one, and
\* there are never more than the array has room for (ParseRangeOffsets).
RangesCover ==
    /\ \A i \in 1..Len(ranges) : 0 <= ranges[i].start /\ ranges[i].start <= ranges[i].end /\ ranges[i].end < objLength
    /\ UNION {Bytes(ranges[i]) : i \in 1..Len(ranges)} = asked
    /\ Len(ranges) <= MaxRanges

\* The text built for a multipart answer, computed part by part as it was appended.
TextBuilt(rs) ==
    FoldLeft(LAMBDA sum, r : sum + HeaderLength(r) + Crlf, 0, rs) + TrailerLength

\* The buffers of a multipart answer fit the caller's vector, are the whole text in
\* order without gaps, and the announced length is the length of text and ranges
\* together (NsConnParseRange).
BuffersSound ==
    rangeCount > 1 =>
        LET bufs == Buffers(ranges)
            text == SelectSeq(bufs, LAMBDA b : b.kind = "text")
        IN /\ Len(bufs) <= 2 * (MaxRanges + 1)
           /\ text[1].offset = 0
           /\ \A i \in 1..(Len(text) - 1) : text[i + 1].offset = text[i].offset + text[i].length
           /\ Last(text).offset + Last(text).length = TextBuilt(ranges)
           /\ ResponseLength(ranges) = TextBuilt(ranges) + FoldLeft(LAMBDA sum, r : sum + Length(r), 0, ranges)

\* Both, for every header of a request.
RangesInv == RangesCover /\ BuffersSound
=============================================================================
