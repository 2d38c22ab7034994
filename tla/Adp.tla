-------------------------------- MODULE Adp ---------------------------------
(***************************************************************************)
(* ADP pages: the cache of compiled pages, the execution of a page, and    *)
(* the parser.                                                             *)
(***************************************************************************)
EXTENDS Integers, Sequences, SequencesExt, FiniteSets, FiniteSetsExt

-----------------------------------------------------------------------------
(***************************************************************************)
(* ADP pages (nsd/adpeval.c): the server's table of parsed pages, shared   *)
(* by the interpreters and counted, each interpreter's own cache of the    *)
(* pages it uses, and the results of pages included with a lifetime.       *)
(* A page is its version on disk.                                          *)
(***************************************************************************)

CONSTANTS
    AdpInterps,      \* interpreters, each with its thread
    AdpFiles,        \* page files
    CachedFiles,     \* those included with -cache
    InterpRoom,      \* adp.cachesize, in pages
    MaxDepth,        \* includes inside includes
    MaxSources, MaxAdpWrites,
    SelfInclude,     \* may a page include itself
    MixedUse         \* are pages included both with and without -cache, and do refreshes fail

VARIABLES
    adpDisk,         \* file -> version on disk, 0 if it is gone
    pageTable,       \* adp.pages: file -> Absent_, Parsing_ or a page
    page,            \* pages
    result,          \* cached results (AdpCache): [refcnt, gen]
    ipages,          \* interp -> its cache: sequence of [file, page, gen], most recently used first
    frames,          \* interp -> calls of AdpSource, the innermost last
    sources,
    adpCrashed          \* FreeObjs of a null pointer
adpVars == <<adpDisk, pageTable, page, result, ipages, frames, sources, adpCrashed>>

Absent_ == -1
Parsing_ == 0
NoResult == 0
PageIds == 1..(2 * Cardinality(AdpInterps) + 1)
FreePage == [refcnt |-> 0, version |-> 0, hPtr |-> FALSE, cache |-> NoResult, locked |-> FALSE, gen |-> 0]
FreeResult == [refcnt |-> 0, gen |-> 0]

AdpInit ==
    /\ adpDisk = [f \in AdpFiles |-> 1]
    /\ pageTable = [f \in AdpFiles |-> Absent_]
    /\ page = [p \in PageIds |-> FreePage] /\ result = [c \in PageIds |-> FreeResult]
    /\ ipages = [i \in AdpInterps |-> <<>>] /\ frames = [i \in AdpInterps |-> <<>>]
    /\ sources = 0 /\ adpCrashed = FALSE

Top(i) == Last(frames[i])
InFrame(i, pc) == frames[i] # <<>> /\ Top(i).pc = pc
SetTop(i, fr) == frames' = [frames EXCEPT ![i] = Append(Front(@), fr)]
Pop(i) == frames' = [frames EXCEPT ![i] = Front(@)]
Has(i, f) == \E k \in 1..Len(ipages[i]) : ipages[i][k].file = f
Ipage(i, f) == ipages[i][CHOOSE k \in 1..Len(ipages[i]) : ipages[i][k].file = f]
Others(i, f) == SelectSeq(ipages[i], LAMBDA x : x.file # f)

-----------------------------------------------------------------------------
AdpWrite(f, gone) ==
    /\ adpDisk[f] > 0 /\ adpDisk[f] < MaxAdpWrites
    /\ adpDisk' = [adpDisk EXCEPT ![f] = IF gone THEN 0 ELSE @ + 1]
    /\ UNCHANGED <<pageTable, page, result, ipages, frames, sources, adpCrashed>>

\* DecrCache
DecrCache(res, c) ==
    IF c = NoResult THEN res
    ELSE [res EXCEPT ![c] = IF @.refcnt = 1 THEN FreeResult ELSE [@ EXCEPT !.refcnt = @ - 1]]

\* Mutant: the entry of the last user's page stays in the table.
FreeInterpPageKeep(st, ip) ==
    LET p == st.page[ip.page]
        last == p.refcnt = 1
    IN [page   |-> [st.page EXCEPT ![ip.page] = IF last THEN FreePage ELSE [p EXCEPT !.refcnt = @ - 1]],
        table  |-> st.table,
        result |-> IF last THEN DecrCache(st.result, p.cache) ELSE st.result,
        crash  |-> st.crash]

\* FreeInterpPage, under the page lock: the page goes with its last interpreter;
\* the cached objects of this interpreter are freed if the page has a result.
FreeInterpPage(st, ip) ==
    LET p == st.page[ip.page]
        last == p.refcnt = 1
    IN [page   |-> [st.page EXCEPT ![ip.page] = IF last THEN FreePage ELSE [p EXCEPT !.refcnt = @ - 1]],
        table  |-> IF last /\ p.hPtr THEN [st.table EXCEPT ![ip.file] = Absent_] ELSE st.table,
        result |-> IF last THEN DecrCache(st.result, p.cache) ELSE st.result,
        crash  |-> st.crash \/ (last /\ p.cache # NoResult /\ ip.gen = 0)]

Shared == [page |-> page, table |-> pageTable, result |-> result, crash |-> adpCrashed]
SetShared(st) == page' = st.page /\ pageTable' = st.table /\ result' = st.result /\ adpCrashed' = st.crash

\* A page is asked for, or included by one that is being executed.
AdpSource(i, f, cached) ==
    /\ sources < MaxSources /\ Len(frames[i]) < MaxDepth
    /\ (frames[i] # <<>>) => Top(i).pc \in {"refresh", "exec"}
    /\ SelfInclude \/ \A k \in 1..Len(frames[i]) : frames[i][k].file # f
    /\ MixedUse \/ cached = (f \in CachedFiles)
    /\ sources' = sources + 1
    /\ frames' = [frames EXCEPT ![i] = Append(@, [pc |-> "stat", file |-> f, cached |-> cached, seen |-> 0,
                                                  page |-> 0, result |-> NoResult])]
    /\ UNCHANGED <<adpDisk, pageTable, page, result, ipages, adpCrashed>>

\* Mutant: the interpreter's own copy is taken as it is.
OutdatedNever(p, version) == FALSE

Outdated(p, version) == page[p].version # version

\* stat and Ns_CacheFindEntry; a page that changed is flushed from the interpreter's cache.
AdpStat(i) ==
    LET f == Top(i).file
        v == adpDisk[f]
        hit == Has(i, f) /\ ~Outdated(Ipage(i, f).page, v)
    IN /\ InFrame(i, "stat")
       /\ IF v = 0 THEN Pop(i) /\ UNCHANGED <<ipages, page, pageTable, result, adpCrashed>>
          ELSE /\ SetTop(i, [Top(i) EXCEPT !.pc = IF hit THEN "page" ELSE "lookup", !.seen = v,
                                           !.page = IF hit THEN Ipage(i, f).page ELSE 0])
               /\ ipages' = [ipages EXCEPT ![i] = IF hit THEN <<Ipage(i, f)>> \o Others(i, f) ELSE Others(i, f)]
               /\ IF Has(i, f) /\ ~hit THEN SetShared(FreeInterpPage(Shared, Ipage(i, f)))
                  ELSE UNCHANGED <<page, pageTable, result, adpCrashed>>
       /\ UNCHANGED <<adpDisk, sources>>

\* The server's table: wait while another thread parses the file, take the page,
\* or become the one that parses, leaving an outdated page to its users.
AdpLookup(i) ==
    LET f == Top(i).file
        p == pageTable[f]
        fresh == p > 0 /\ ~Outdated(p, Top(i).seen)
    IN /\ InFrame(i, "lookup") /\ p # Parsing_
       /\ IF fresh
          THEN /\ page' = [page EXCEPT ![p].refcnt = @ + 1]
               /\ SetTop(i, [Top(i) EXCEPT !.pc = "enter", !.page = p])
               /\ UNCHANGED pageTable
          ELSE /\ page' = IF p > 0 THEN [page EXCEPT ![p].hPtr = FALSE] ELSE page
               /\ pageTable' = [pageTable EXCEPT ![f] = Parsing_]
               /\ SetTop(i, [Top(i) EXCEPT !.pc = "parse"])
       /\ UNCHANGED <<adpDisk, result, ipages, sources, adpCrashed>>

NewPage == CHOOSE p \in PageIds : page[p] = FreePage
                 /\ \A i \in AdpInterps : \A k \in 1..Len(frames[i]) : frames[i][k].page # p

\* Mutant: a failure leaves the mark of the parser in the table.
PublishFailKeeps(f) == pageTable

PublishFail(f) == [pageTable EXCEPT ![f] = Absent_]

\* ParseFile reads the file as it is now, without the lock; then the table gets
\* the page, or loses its entry, and all waiters are woken.
ParseFile(i) ==
    LET f == Top(i).file
        v == adpDisk[f]
        p == NewPage
    IN /\ InFrame(i, "parse")
       /\ \/ /\ v > 0
             /\ page' = [page EXCEPT ![p] = [FreePage EXCEPT !.version = v, !.refcnt = 1, !.hPtr = TRUE]]
             /\ pageTable' = [pageTable EXCEPT ![f] = p]
             /\ SetTop(i, [Top(i) EXCEPT !.pc = "enter", !.page = p])
          \/ /\ v = 0
             /\ pageTable' = PublishFail(f)
             /\ Pop(i)
             /\ UNCHANGED page
       /\ UNCHANGED <<adpDisk, result, ipages, sources, adpCrashed>>

\* The interpreter's cache gets the page; the least recently used ones are dropped.
AdpEnter(i) ==
    LET f == Top(i).file
        all == <<[file |-> f, page |-> Top(i).page, gen |-> 0]>> \o Others(i, f)
        kept == SubSeq(all, 1, Min({Len(all), InterpRoom}))
        dropped == SubSeq(all, Len(kept) + 1, Len(all))
    IN /\ InFrame(i, "enter")
       /\ ipages' = [ipages EXCEPT ![i] = kept]
       /\ SetShared(FoldLeft(FreeInterpPage, Shared, dropped))
       /\ SetTop(i, [Top(i) EXCEPT !.pc = "page"])
       /\ UNCHANGED <<adpDisk, sources>>

\* The objects of the cached result, made anew for a new generation.
CacheObjs(i, f, gen) ==
    [ipages EXCEPT ![i] = [k \in 1..Len(@) |-> IF @[k].file = f THEN [@[k] EXCEPT !.gen = gen] ELSE @[k]]]

\* With a lifetime: wait for a first result that is being made, make a new one if
\* it expired, or use it.  A page without result and lock is executed by all who ask.
AdpUseCache(i, expired) ==
    LET p == Top(i).page
        c == page[p].cache
        stale == c # NoResult /\ ~page[p].locked /\ expired
    IN /\ InFrame(i, "page") /\ Top(i).cached
       /\ ~(c = NoResult /\ page[p].locked)
       /\ IF c = NoResult \/ stale
          THEN /\ page' = [page EXCEPT ![p].locked = @ \/ stale]
               /\ SetTop(i, [Top(i) EXCEPT !.pc = "refresh"])
               /\ UNCHANGED <<result, ipages>>
          ELSE /\ result' = [result EXCEPT ![c].refcnt = @ + 1]
               /\ ipages' = CacheObjs(i, Top(i).file, page[p].gen)
               /\ SetTop(i, [Top(i) EXCEPT !.pc = "exec", !.result = c])
               /\ UNCHANGED page
       /\ UNCHANGED <<adpDisk, pageTable, sources, adpCrashed>>

AdpNoCache(i) ==
    /\ InFrame(i, "page") /\ ~Top(i).cached
    /\ SetTop(i, [Top(i) EXCEPT !.pc = "exec"])
    /\ UNCHANGED <<adpDisk, pageTable, page, result, ipages, sources, adpCrashed>>

NewResult == CHOOSE c \in PageIds : result[c].refcnt = 0

Replace(old) == DecrCache(result, old)

\* AdpExec for a new result; if that fails the page is executed once more as it is.
AdpRefreshed(i, ok) ==
    LET p == Top(i).page
        c == NewResult
        gen == page[p].gen + 1
    IN /\ InFrame(i, "refresh")
       /\ ok \/ MixedUse
       /\ IF ok
          THEN /\ page' = [page EXCEPT ![p].cache = c, ![p].gen = gen, ![p].locked = FALSE]
               /\ result' = [Replace(page[p].cache) EXCEPT ![c] = [refcnt |-> 2, gen |-> gen]]
               /\ ipages' = CacheObjs(i, Top(i).file, gen)
               /\ SetTop(i, [Top(i) EXCEPT !.pc = "exec", !.result = c])
          ELSE /\ page' = [page EXCEPT ![p].locked = FALSE]
               /\ SetTop(i, [Top(i) EXCEPT !.pc = "exec"])
               /\ UNCHANGED <<result, ipages>>
       /\ UNCHANGED <<adpDisk, pageTable, sources, adpCrashed>>

\* AdpExec is done.
AdpExecuted(i) ==
    /\ InFrame(i, "exec")
    /\ result' = DecrCache(result, Top(i).result)
    /\ Pop(i)
    /\ UNCHANGED <<adpDisk, pageTable, page, ipages, sources, adpCrashed>>

\* NsAdpFree: the interpreter goes, with its cache.
NsAdpFree(i) ==
    /\ frames[i] = <<>> /\ ipages[i] # <<>>
    /\ SetShared(FoldLeft(FreeInterpPage, Shared, ipages[i]))
    /\ ipages' = [ipages EXCEPT ![i] = <<>>]
    /\ UNCHANGED <<adpDisk, frames, sources>>

AdpStep(i) ==
    \/ AdpStat(i) \/ AdpLookup(i) \/ ParseFile(i) \/ AdpEnter(i) \/ AdpNoCache(i) \/ AdpExecuted(i)
    \/ \E b \in BOOLEAN : AdpUseCache(i, b) \/ AdpRefreshed(i, b)

AdpPagesNext ==
    \/ \E f \in AdpFiles, b \in BOOLEAN : AdpWrite(f, b)
    \/ \E i \in AdpInterps : AdpStep(i) \/ NsAdpFree(i) \/ \E f \in AdpFiles, b \in BOOLEAN : AdpSource(i, f, b)

-----------------------------------------------------------------------------
AllFrames == {<<i, k>> \in AdpInterps \X (1..MaxDepth) : k <= Len(frames[i])}
Fr(x) == frames[x[1]][x[2]]
Executing == {x \in AllFrames : Fr(x).pc \in {"page", "refresh", "exec"}}

\* A page is counted once for each interpreter that has it and for each that is
\* about to; it is in the table or in nobody's way; nobody executes a page or a
\* result that was freed, and the objects compiled for a result are used with
\* that result only (AdpSource, FreeInterpPage).
PagesCounted ==
    /\ \A p \in PageIds :
         page[p].refcnt = Cardinality({<<i, k>> \in AdpInterps \X (1..InterpRoom) : k <= Len(ipages[i]) /\ ipages[i][k].page = p})
                          + Cardinality({x \in AllFrames : Fr(x).pc = "enter" /\ Fr(x).page = p})
    /\ \A f \in AdpFiles : pageTable[f] > 0 => page[pageTable[f]].refcnt > 0 /\ page[pageTable[f]].hPtr
    /\ \A f \in AdpFiles : pageTable[f] = Parsing_ <=> \E x \in AllFrames : Fr(x).pc = "parse" /\ Fr(x).file = f
    /\ \A x \in Executing : page[Fr(x).page].refcnt > 0
    /\ \A c \in PageIds :
         result[c].refcnt = Cardinality({p \in PageIds : page[p].cache = c}) + Cardinality({x \in AllFrames : Fr(x).result = c})
    /\ \A x \in AllFrames : Fr(x).result # NoResult =>
         Has(x[1], Fr(x).file) /\ Ipage(x[1], Fr(x).file).gen = result[Fr(x).result].gen
    /\ ~adpCrashed

\* What is executed is not older than the file was when the page was asked for (AdpSource).
AdpFresh == \A x \in Executing : page[Fr(x).page].version >= Fr(x).seen

\* Both.
AdpPagesInv == PagesCounted /\ AdpFresh

\* Everyone gets their page in the end: whoever waits for a parser or for a first result is woken.
AdpServed == \A i \in AdpInterps : frames[i] # <<>> ~> frames[i] = <<>>

-----------------------------------------------------------------------------
(***************************************************************************)
(* One request for an ADP page (nsd/adpeval.c, adpcmds.c, adprequest.c):   *)
(* the frames of pages that include or evaluate others, the exceptions     *)
(* that unwind them, the flags, error pages, and the output that is        *)
(* buffered and flushed.  A page is a number of blocks, texts or scripts,  *)
(* a script a number of commands, a text one byte.                         *)
(***************************************************************************)

CONSTANTS
    ServerFlags,     \* flags of the server, a subset of AdpFlags
    ErrorPage,       \* does the server have an error page
    BufSize,         \* adp.bufsize
    Blocks,          \* blocks of a page
    MaxFrames, MaxCommands,
    Commands,        \* what scripts do
    ScriptsGoOn,     \* do scripts go on after the page they included was stopped
    FlushFails       \* can writing to the client fail

VARIABLES
    adp,             \* the interpreter's adp structure, with the stack of frames
    out              \* history: [appended, sent, dropped, whole, stopped, late, unstored, status]
axVars == <<adp, out>>

AdpFlags == {"cache", "safe", "strict", "stream", "autoabort", "display", "flushed", "errlogged"}
NoOut == [appended |-> 0, sent |-> 0, dropped |-> 0, whole |-> 0, stopped |-> FALSE, late |-> FALSE, unstored |-> FALSE, status |-> "none"]
\* A frame: its output is adp.output (0) or the buffer of a frame; saved are the flags to be restored.
Frame(kind, dest, flags, off) ==
    [kind |-> kind, dest |-> dest, local |-> 0, left |-> Blocks, saved |-> flags, res |-> TRUE, script |-> FALSE, off |-> off]

AxInit ==
    /\ adp = [phase |-> "idle", exc |-> "ok", flags |-> ServerFlags, output |-> 0, errorLevel |-> 0, refresh |-> 0,
              frames |-> <<>>, cmds |-> 0]
    /\ out = NoOut

TopF(s) == Last(s.frames)
PutTop(s, f) == [s EXCEPT !.frames = Append(Front(@), f)]
Push(s, f) == [s EXCEPT !.frames = Append(@, f)]
\* A state is the pair of the interpreter and what became of the output.
St(s, o) == [s |-> s, o |-> o]
Become(st) == adp' = st.s /\ out' = st.o

-----------------------------------------------------------------------------
\* NsAdpReset
NsAdpReset(s) == [s EXCEPT !.exc = "ok", !.flags = ServerFlags, !.output = 0]

\* Mutant: the buffer is kept after it was written.
FlushKeeps(st, stream, fails) ==
    LET s == st.s
        wrote == [st.o EXCEPT !.sent = @ + s.output, !.whole = IF stream THEN @ ELSE @ + 1]
        end(t) == IF stream THEN t ELSE [NsAdpReset(t) EXCEPT !.output = t.output]
    IN [s |-> end([s EXCEPT !.flags = @ \cup {"flushed"}]), o |-> wrote, ok |-> TRUE]

\* NsAdpFlush: write the buffered output, as a stream or as the whole response.
\* An error page that is run for a failed write adds to the output that is thrown away.
NsAdpFlush(st, stream, fails) ==
    LET s == st.s
        end(t) == IF stream THEN [t EXCEPT !.output = 0] ELSE NsAdpReset(t)
        drop == [st.o EXCEPT !.dropped = @ + s.output]
        wrote == [st.o EXCEPT !.sent = @ + s.output, !.whole = IF stream THEN @ ELSE @ + 1]
        marked == [s EXCEPT !.flags = @ \cup {"flushed"}]
    IN CASE s.output = 0 /\ "flushed" \in s.flags ->
              [s |-> IF stream THEN s ELSE NsAdpReset(s), o |-> st.o, ok |-> TRUE]
         [] s.output = 0 /\ stream /\ "flushed" \notin s.flags /\ s.exc # "abort" -> [s |-> s, o |-> st.o, ok |-> TRUE]
         [] s.exc = "abort" /\ ~(s.output = 0 /\ "flushed" \in s.flags) -> [s |-> end(s), o |-> drop, ok |-> FALSE]
         [] fails /\ s.exc # "abort" /\ s.output > 0 ->
              [s |-> end([marked EXCEPT !.exc = IF "autoabort" \in s.flags THEN "abort" ELSE @]), o |-> drop, ok |-> FALSE]
         [] OTHER -> [s |-> end(marked), o |-> wrote, ok |-> TRUE]

\* NsAdpAppend of one byte to the frame's output, flushed when streaming or when it is too long.
NsAdpAppend(st, fails) ==
    LET s == st.s
        d == TopF(s).dest
        s1 == IF d = 0 THEN [s EXCEPT !.output = @ + 1] ELSE [s EXCEPT !.frames[d].local = @ + 1]
        o1 == [st.o EXCEPT !.appended = IF d = 0 THEN @ + 1 ELSE @, !.late = @ \/ st.o.stopped]
        length == IF d = 0 THEN s1.output ELSE s1.frames[d].local
    IN IF "stream" \in s.flags \/ length > BufSize THEN NsAdpFlush(St(s1, o1), TRUE, fails)
       ELSE [s |-> s1, o |-> o1, ok |-> TRUE]

\* Mutant: an error in an error page has an error page.
ErrorPageRuns(s) == ErrorPage /\ Len(s.frames) < MaxFrames

\* NsAdpLogError runs the error page unless it is in one.
ErrorPageDue(s) == ErrorPage /\ s.errorLevel = 0

NsAdpLogError(st, fails) ==
    LET shown == IF "display" \in st.s.flags THEN NsAdpAppend(st, fails) ELSE st
        s == shown.s
    IN IF ErrorPageDue(s)
       THEN St(Push([s EXCEPT !.errorLevel = @ + 1], Frame("error", TopF(s).dest, s.flags, TopF(s).off)), shown.o)
       ELSE St(s, shown.o)

\* AdpExec, the end of a block: errors are logged; with "stricterror" they end the page.
EndBlock(st, ok, fails) ==
    LET s == st.s
        f == [TopF(s) EXCEPT !.left = @ - 1, !.script = FALSE, !.res = ok]
        strict == "strict" \in s.flags
        err == ~ok /\ s.exc = "ok"
        s1 == PutTop(s, IF err /\ strict THEN [f EXCEPT !.left = 0] ELSE f)
        s2 == IF err /\ strict THEN [s1 EXCEPT !.flags = @ \cup {"errlogged"}] ELSE s1
    IN IF err /\ "errlogged" \notin s.flags THEN NsAdpLogError(St(s2, st.o), fails) ELSE St(s2, st.o)

-----------------------------------------------------------------------------
\* AdpSource: with a lifetime the page is executed into a buffer of its own first.
Source(s, cached, saved, off) ==
    LET dest == IF s.frames = <<>> THEN 0 ELSE TopF(s).dest
    IN IF cached /\ "cache" \in s.flags
       THEN Push([s EXCEPT !.refresh = @ + 1], Frame("refresh", Len(s.frames) + 1, saved, off))
       ELSE Push(s, Frame("include", dest, saved, off))

\* PageRequest of a new connection, with the adp structure as the last request left it
PageRequest(cached) ==
    /\ adp.phase = "idle"
    /\ adp' = Source([adp EXCEPT !.phase = "page", !.cmds = 0], cached, adp.flags, "cache" \notin ServerFlags)
    /\ out' = [NoOut EXCEPT !.appended = adp.output]

\* Mutant: pages go on after a break.
BlocksLeftAny == adp.phase = "page" /\ TopF(adp).left > 0 /\ ~TopF(adp).script

\* Blocks are executed until there is an exception.
BlocksLeft == adp.phase = "page" /\ TopF(adp).left > 0 /\ ~TopF(adp).script /\ adp.exc = "ok"

TextBlock(fails) ==
    LET res == NsAdpAppend(St(adp, out), fails)
    IN BlocksLeft /\ Become(EndBlock(St(res.s, res.o), res.ok, fails))

ScriptBlock ==
    /\ BlocksLeft
    /\ adp' = PutTop(adp, [TopF(adp) EXCEPT !.script = TRUE]) /\ UNCHANGED out

InScript(c) ==
    /\ adp.phase = "page" /\ TopF(adp).script
    /\ c \in Commands /\ adp.cmds < MaxCommands
    /\ adp.exc = "ok" \/ ScriptsGoOn
Cmd(s) == [s EXCEPT !.cmds = @ + 1]
Result(res, fails) == IF res.ok THEN Become(St(res.s, res.o)) ELSE Become(EndBlock(St(res.s, res.o), FALSE, fails))

ScriptEnds(fails) ==
    /\ adp.phase = "page" /\ TopF(adp).script
    /\ Become(EndBlock(St(adp, out), TRUE, fails))

\* Mutant: the flags of a -nocache include stay.
IncludeFlags(nocache) == IF nocache THEN adp.flags \ {"cache"} ELSE adp.flags
IncludeSavedLate(nocache) == IncludeFlags(nocache)

\* The flags are saved before the options change them.
IncludeSaved(nocache) == adp.flags

\* ns_adp_include.  With -nocache inside the making of a cached result the
\* command itself goes to the output and is executed later; the flags stay as they are then.
NsTclAdpIncludeObjCmd(nocache, cached) ==
    LET s == [Cmd(adp) EXCEPT !.flags = IncludeFlags(nocache)]
    IN /\ InScript(IF nocache /\ adp.refresh > 0 THEN "nocache" ELSE "include")
       /\ Len(adp.frames) < MaxFrames
       /\ IF nocache /\ adp.refresh > 0
          THEN LET d == TopF(s).dest
               IN /\ adp' = IF d = 0 THEN [s EXCEPT !.output = @ + 1] ELSE [s EXCEPT !.frames[d].local = @ + 1]
                  /\ UNCHANGED out
          ELSE LET off == TopF(adp).off \/ nocache
               IN /\ adp' = Source(s, cached, IncludeSaved(nocache), off)
                  /\ out' = [out EXCEPT !.unstored = @ \/ (cached /\ "cache" \notin s.flags /\ ~off)]

\* ns_adp_eval, ns_adp_safeeval, ns_adp_parse -string: a page of its own buffer, whose
\* output is the result; ns_adp_parse restores the flags, ns_adp_safeeval leaves "safe".
AdpEval(kind) ==
    LET n == Len(adp.frames) + 1
        flags == CASE kind = "eval" -> adp.flags [] kind = "safeeval" -> adp.flags \cup {"safe"}
                   [] kind = "parse" -> adp.flags \ {"safe"}
    IN /\ InScript(kind) /\ n <= MaxFrames
       /\ adp' = Push([Cmd(adp) EXCEPT !.flags = flags], Frame(kind, n, adp.flags, TopF(adp).off))
       /\ UNCHANGED out

\* ns_adp_puts, ns_adp_append
NsTclAdpPutsObjCmd(fails) == InScript("puts") /\ Result(NsAdpAppend(St(Cmd(adp), out), fails), fails)

\* ns_adp_return, ns_adp_break, ns_adp_abort: the command fails and the exception is noted.
\* A timeout is one of the script.
ExceptionObjCmd(e, fails) ==
    /\ InScript(IF e = "timeout" THEN e ELSE "exception")
    /\ Become(EndBlock(St([Cmd(adp) EXCEPT !.exc = e], [out EXCEPT !.stopped = @ \/ e # "return"]), FALSE, fails))

ScriptError(fails) == InScript("error") /\ Become(EndBlock(St(Cmd(adp), out), FALSE, fails))

\* ns_adp_trunc, ns_adp_dump: the frame's output is taken away.
NsTclAdpTruncObjCmd ==
    LET d == TopF(adp).dest
    IN /\ InScript("trunc")
       /\ adp' = IF d = 0 THEN [Cmd(adp) EXCEPT !.output = 0] ELSE [Cmd(adp) EXCEPT !.frames[d].local = 0]
       /\ out' = IF d = 0 THEN [out EXCEPT !.dropped = @ + adp.output] ELSE out

\* ns_adp_ctl
NsTclAdpCtlObjCmd(flag, on) ==
    /\ InScript("ctl")
    /\ adp' = [Cmd(adp) EXCEPT !.flags = IF on THEN @ \cup {flag} ELSE @ \ {flag},
                               !.frames = [k \in 1..Len(@) |-> [@[k] EXCEPT !.off = @ \/ (flag = "cache" /\ ~on)]]]
    /\ UNCHANGED out

\* ns_adp_flush, ns_adp_close
AdpFlushObjCmd(stream, fails) ==
    /\ InScript(IF stream THEN "flush" ELSE "close")
    /\ Result(NsAdpFlush(St(Cmd(adp), out), stream, fails), fails)

\* Mutant: a break ends the page it is in only.
UnwoundBreak(e) == IF e = "abort" THEN e ELSE "ok"

\* A return ends one page, the others all.
Unwound(e) == IF e = "return" THEN "ok" ELSE e

\* The end of AdpExec, and what its callers do then.
FrameDone(fails) ==
    LET f == TopF(adp)
        res == adp.exc # "ok" \/ f.res
        s == [adp EXCEPT !.exc = Unwound(@)]
        popped == [s EXCEPT !.frames = Front(@)]
        restored == [popped EXCEPT !.flags = f.saved]
        stored == res /\ "cache" \in s.flags
        callerDest == IF Len(s.frames) = 1 THEN 0 ELSE s.frames[Len(s.frames) - 1].dest
        back(t) == IF res THEN Become(St(t, out)) ELSE Become(EndBlock(St(t, out), FALSE, fails))
    IN /\ adp.phase = "page" /\ ~f.script
       /\ f.left = 0 \/ adp.exc # "ok"
       /\ CASE f.kind = "error" -> Become(St([popped EXCEPT !.errorLevel = @ - 1], out))
            [] f.kind = "refresh" ->
                 /\ adp' = PutTop([s EXCEPT !.refresh = @ - 1],
                                  [Frame("include", callerDest, f.saved, f.off) EXCEPT !.left = IF stored THEN 1 ELSE Blocks])
                 /\ out' = [out EXCEPT !.unstored = @ \/ (f.res /\ adp.exc = "ok" /\ ~stored /\ ~f.off)]
            [] f.kind = "include" /\ Len(s.frames) > 1 -> back(restored)
            [] f.kind = "parse" -> back(restored)
            [] f.kind \in {"eval", "safeeval"} -> back(popped)
            [] OTHER -> \* the page of the request: NsAdpFlush, or Ns_ConnReturnUnavailable
                 LET fl == NsAdpFlush(St(popped, out), FALSE, fails)
                 IN IF s.exc = "timeout"
                    THEN adp' = [popped EXCEPT !.phase = "idle"] /\ out' = [out EXCEPT !.status = "unavailable"]
                    ELSE /\ adp' = [fl.s EXCEPT !.phase = "idle"]
                         /\ out' = [fl.o EXCEPT !.status = IF fl.ok /\ res THEN "ok" ELSE "error"]

AxNext ==
    \/ \E b \in BOOLEAN : PageRequest(b)
    \/ ScriptBlock \/ NsTclAdpTruncObjCmd
    \/ \E b, c \in BOOLEAN : NsTclAdpIncludeObjCmd(b, c)
    \/ \E k \in {"eval", "safeeval", "parse"} : AdpEval(k)
    \/ \E flag \in {"cache", "strict", "stream"}, on \in BOOLEAN : NsTclAdpCtlObjCmd(flag, on)
    \/ \E fails \in {FALSE, FlushFails} :
         \/ TextBlock(fails) \/ ScriptEnds(fails) \/ NsTclAdpPutsObjCmd(fails) \/ ScriptError(fails) \/ FrameDone(fails)
         \/ \E e \in {"return", "break", "abort", "timeout"} : ExceptionObjCmd(e, fails)
         \/ \E b \in BOOLEAN : AdpFlushObjCmd(b, fails)

-----------------------------------------------------------------------------
Kinds(k) == Cardinality({i \in 1..Len(adp.frames) : adp.frames[i].kind = k})

\* Error pages do not run inside error pages, however pages include each other and
\* whatever fails in them, and the counters of error pages and of results that
\* are being made are those of the pages on the stack (NsAdpLogError, AdpSource).
ErrorPageOnce == adp.errorLevel = Kinds("error") /\ Kinds("error") <= 1 /\ adp.refresh = Kinds("refresh")

\* Every byte that pages wrote for the client is sent once, still buffered, or was
\* taken away by a truncation, an abort or a failed write (NsAdpAppend, NsAdpFlush).
OutputOnce == out.sent + out.dropped + adp.output = out.appended

\* After a break, an abort or a timeout no page writes anything until the request is done (AdpExec).
StopStops == ~out.late

\* A request has one response that is not streamed (PageRequest).
OneWhole == out.whole <= 1

\* A page that was made to be cached without an error, and did not switch caching
\* off, is cached (AdpSource).
ResultStored == ~out.unstored

\* Between two requests the interpreter holds no output, exception or flag of the
\* last (NsAdpFlush; nothing else resets the adp structure).
FreshPage == adp.phase = "idle" => adp.exc = "ok" /\ adp.output = 0 /\ adp.flags = ServerFlags /\ adp.frames = <<>>

\* What holds whatever scripts do.
AdpExecInv == ErrorPageOnce /\ OutputOnce

\* What holds for scripts that end with the page they included, do not close the
\* page themselves, have no timeouts, and use no
\* -nocache inside a page that is being cached.
AdpExecCalm == StopStops /\ OneWhole /\ ResultStored /\ FreshPage

-----------------------------------------------------------------------------
(***************************************************************************)
(* How an ADP file becomes blocks of text and scripts (nsd/adpparse.c).    *)
(* A page is a sequence of tokens: text "x", "<%" and "%>", "<s>" a        *)
(* <script runat=server>, "<st>" one with stream=on, "</s>", a tag "<r>"   *)
(* registered with an end tag "</r>", and a tag "<e>" registered without.  *)
(* A block [type, from, to] has the tokens from..to-1.                     *)
(***************************************************************************)

CONSTANT
    MaxTokens        \* length of pages

VARIABLES
    parse,           \* [page, safe, state, adp, text, level, start, stream, blocks]
    registered       \* have the tags been registered
apVars == <<parse, registered>>

Tokens == {"x", "<%", "%>", "<s>", "<st>", "</s>", "<r>", "</r>", "<e>"}
\* <script> tags for the server, as their attributes say
Opens == {"<s>", "<st>"}
NoParse == [page |-> <<>>, safe |-> FALSE, state |-> "idle", adp |-> 1, text |-> 1, level |-> 0, start |-> 0,
            stream |-> FALSE, streamDone |-> FALSE, blocks |-> <<>>]

ApInit == parse = NoParse /\ registered = FALSE

\* RegisterObjCmd takes the lock that NsAdpParse holds for reading.
RegisterObjCmd == parse.state = "idle" /\ ~registered /\ registered' = TRUE /\ UNCHANGED parse

\* The first index from i on that satisfies the set, 0 if there is none
NextIn(text, i, S) == LET J == {j \in i..Len(text) : text[j] \in S} IN IF J = {} THEN 0 ELSE CHOOSE j \in J : \A k \in J : j <= k

\* Mutant: the first %> ends a script.
ScriptEndFirst(text, s) == NextIn(text, s + 1, {"%>"})

\* The %> that ends the <% at s: one later for each <% that begins before it; 0 if there is none.
ScriptEnd(text, s) ==
    LET Find[e \in 0..Len(text), n \in 1..Len(text) + 1] ==
          IF e = 0 THEN 0
          ELSE LET m == NextIn(text, n, {"<%"})
               IN IF m # 0 /\ m < e THEN Find[NextIn(text, e + 1, {"%>"}), m + 1] ELSE e
    IN Find[NextIn(text, s + 1, {"%>"}), s + 1]

AppendBlock(p, type, from, to) == IF from = to THEN p ELSE [p EXCEPT !.blocks = Append(@, [type |-> type, from |-> from, to |-> to])]

\* AppendTag: a registered tag becomes a script that calls its procedure.
AppendTag(p, from, to) == AppendBlock(p, "tag", from, to)

\* NsAdpParse is called with a page.
NsAdpParse(text, safe) ==
    /\ parse.state = "idle" /\ parse.page = <<>>
    /\ parse' = [NoParse EXCEPT !.page = text, !.safe = safe, !.state = "TagNext"]
    /\ UNCHANGED registered

\* The next '<' that has a '>' after it
NextTag(p) ==
    LET s == NextIn(p.page, p.adp, Tokens \ {"x", "%>"})
    IN IF s = 0 THEN 0
       ELSE IF p.page[s] = "<%" /\ NextIn(p.page, s + 1, Tokens \ {"x", "<%"}) = 0 THEN 0 ELSE s

\* Mutant: one too many is skipped after a script.
AfterScriptLate(e) == e + 2

\* Text goes on after the %>.
AfterScript(e) == e + 1

\* case TagNext, <% ... %>
Percent(p, s) ==
    LET e == ScriptEnd(p.page, s)
        p1 == AppendBlock(p, "t", p.text, s)
        p2 == IF p.safe THEN p1 ELSE AppendBlock(p1, "s", s + 1, e)
    IN IF e = 0 THEN [AppendBlock(p, "t", p.text, s + 1) EXCEPT !.text = s + 1, !.adp = s + 1]
       ELSE [p2 EXCEPT !.text = AfterScript(e), !.adp = e + 1]

\* case TagNext, the other tags
OtherTag(p, s) ==
    LET tok == p.page[s]
        p1 == [AppendBlock(p, "t", p.text, s) EXCEPT !.adp = s + 1]
    IN CASE tok \in Opens -> [p1 EXCEPT !.state = "TagScript", !.level = 1, !.start = s, !.stream = (tok = "<st>")]
         [] tok = "<e>" /\ registered -> [AppendTag(p1, s, s + 1) EXCEPT !.text = s + 1]
         [] tok = "<r>" /\ registered -> [p1 EXCEPT !.state = "TagReg", !.level = 1, !.start = s]
         [] OTHER -> [p EXCEPT !.adp = s + 1]

\* case TagScript: the script ends with the </script> of its own.
InScriptTag(p, s) ==
    LET tok == p.page[s]
        level == IF tok \in Opens THEN p.level + 1 ELSE IF tok = "</s>" THEN p.level - 1 ELSE p.level
        ctl == p.stream /\ ~p.streamDone
        p1 == IF ctl THEN [p EXCEPT !.blocks = Append(@, [type |-> "ctl", from |-> p.start, to |-> p.start + 1]), !.streamDone = TRUE] ELSE p
        p2 == IF p.safe THEN p ELSE AppendBlock(p1, "s", p.start + 1, s)
    IN IF level > 0 THEN [p EXCEPT !.level = level, !.adp = s + 1]
       ELSE [p2 EXCEPT !.level = 0, !.text = s + 1, !.state = "TagNext", !.adp = s + 1]

\* case TagReg: the end tag of its own ends it.
InRegTag(p, s) ==
    LET tok == p.page[s]
        level == IF tok = "<r>" THEN p.level + 1 ELSE IF tok = "</r>" THEN p.level - 1 ELSE p.level
    IN IF level > 0 THEN [p EXCEPT !.level = level, !.adp = s + 1]
       ELSE [AppendTag(p, p.start, s + 1) EXCEPT !.level = 0, !.text = s + 1, !.state = "TagNext", !.adp = s + 1]

ParseTag ==
    LET s == NextTag(parse)
    IN /\ parse.state # "idle" /\ s # 0
       /\ parse' = CASE parse.state = "TagNext" /\ parse.page[s] = "<%" -> Percent(parse, s)
                     [] parse.state = "TagNext" /\ parse.page[s] # "<%" -> OtherTag(parse, s)
                     [] parse.state = "TagScript" -> InScriptTag(parse, s)
                     [] parse.state = "TagReg" -> InRegTag(parse, s)
       /\ UNCHANGED registered

\* The rest is text.
ParseRest ==
    /\ parse.state # "idle" /\ NextTag(parse) = 0
    /\ parse' = [AppendBlock(parse, "t", parse.text, Len(parse.page) + 1) EXCEPT !.state = "idle"]
    /\ UNCHANGED registered

\* NsAdpFreeCode
NsAdpFreeCode == parse.state = "idle" /\ parse.page # <<>> /\ parse' = NoParse /\ UNCHANGED registered

ApNext ==
    \/ RegisterObjCmd \/ ParseTag \/ ParseRest \/ NsAdpFreeCode
    \/ /\ parse.page = <<>>
       /\ \E n \in 1..MaxTokens : \E text \in [1..n -> Tokens], safe \in BOOLEAN : NsAdpParse(text, safe)

-----------------------------------------------------------------------------
In(b) == b.from..b.to - 1
Of(types) == {i \in 1..Len(parse.blocks) : parse.blocks[i].type \in types}

\* No text is lost: text that is in no block was in a script, and scripts are left out
\* only of pages in safe mode (AppendBlock).
TextKept ==
    parse.state = "idle" => \A i \in 1..Len(parse.page) :
      parse.page[i] = "x" /\ (\A k \in Of({"t", "s", "tag"}) : i \notin In(parse.blocks[k])) =>
        /\ parse.safe
        /\ \E s \in 1..i - 1 : \E e \in i + 1..Len(parse.page) :
             \/ parse.page[s] = "<%" /\ parse.page[e] = "%>"
             \/ parse.page[s] \in Opens /\ parse.page[e] = "</s>"

\* A script has as many <% as %>, none of them closed before it was opened: it
\* ends at the %> that belongs to it (NsAdpParse).
ScriptsNest ==
    \A k \in Of({"s"}) :
      LET b == parse.blocks[k]
          Count(t, j) == Cardinality({i \in b.from..j : parse.page[i] = t})
      IN parse.page[b.from - 1] = "<%" => Count("<%", b.to - 1) = Count("%>", b.to - 1)

\* Pages in safe mode run no scripts of their own (ADP_SAFE).
SafeRunsNothing == parse.safe => Of({"s", "ctl"}) = {}

\* Streaming is switched on once, before the first script that asks for it.
StreamOnce == Cardinality(Of({"ctl"})) <= 1

\* The pages in which server scripts and registered tags end and hold only text
Ended(text) ==
    /\ \A s \in Opens : \A i \in 1..Len(text) : text[i] = s =>
         \E j \in i + 1..Len(text) : text[j] = "</s>" /\ \A k \in i + 1..j : text[k] \in {"x", "</s>"}
    /\ \A i \in 1..Len(text) : text[i] = "<r>" =>
         \E j \in i + 1..Len(text) : text[j] = "</r>" /\ \A k \in i + 1..j : text[k] \in {"x", "</r>"}

\* Texts, scripts and tags come out in the order of such a page, each once.
BlocksInOrder ==
    Ended(parse.page) => \A k \in 1..Len(parse.blocks) - 1 : parse.blocks[k].type # "ctl" => parse.blocks[k].to <= parse.blocks[k + 1].from

\* Every page is taken apart completely, and in order if its scripts and tags end.
AdpParseInv == TextKept /\ ScriptsNest /\ SafeRunsNothing /\ StreamOnce /\ BlocksInOrder
=============================================================================
