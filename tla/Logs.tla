-------------------------------- MODULE Logs --------------------------------
(***************************************************************************)
(* The logs: the server log with its filters, the rolling of log files,    *)
(* and the access log.                                                     *)
(***************************************************************************)
EXTENDS Integers, Sequences, SequencesExt, FiniteSets

-----------------------------------------------------------------------------
(***************************************************************************)
(* The server log (nsd/log.c): every thread has a cache of log entries,    *)
(* held back with ns_logctl hold, that LogFlush hands to the list of log   *)
(* filters, newest first and LogToFile last.  The list is locked only      *)
(* between two filter calls; Ns_RemoveLogFilter waits for a filter that is *)
(* being called.  Filters that log themselves are left out.                *)
(***************************************************************************)

CONSTANTS
    LogThreads,      \* threads that log
    MaxFilters,      \* number of filters registered besides LogToFile
    MaxMsgs,         \* number of messages logged
    RemovesHead,     \* is the newest filter removed while a thread flushes
    EmptyMsgs        \* are empty messages logged

VARIABLES
    flist,           \* the list `filters' from the newest on; 0 is LogToFile
    fmade,           \* filters registered so far
    fref,            \* filter -> refcnt
    remover,         \* the filter Ns_RemoveLogFilter waits for, 0 for none
    lcache,          \* thread -> [hold, count, entries]; an entry is [id, len]
    lt,              \* thread -> the state of its LogFlush
    logged,          \* messages logged so far
    logfile,         \* the messages in the server log
    taken            \* messages taken out by ns_logctl get and truncate

logVars == <<flist, fmade, fref, remover, lcache, lt, logged, logfile, taken>>

File == 0
NoFlush == [pc |-> "idle", head |-> 0, cur |-> 0, idx |-> 0, exit |-> FALSE]
EmptyCache == [hold |-> FALSE, count |-> 0, entries |-> <<>>]

LogInit ==
    /\ flist = <<File>> /\ fmade = 0 /\ fref = [f \in 0 .. MaxFilters |-> 0] /\ remover = 0
    /\ lcache = [t \in LogThreads |-> EmptyCache] /\ lt = [t \in LogThreads |-> NoFlush]
    /\ logged = 0 /\ logfile = <<>> /\ taken = {}

\* LogFlush of a cache: the head of the list is read here, without the lock.
StartFlush(t, entries, exit) ==
    IF entries = <<>>
    THEN lt' = [lt EXCEPT ![t] = [NoFlush EXCEPT !.pc = IF exit THEN "gone" ELSE "idle"]]
    ELSE lt' = [lt EXCEPT ![t] = [NoFlush EXCEPT !.pc = "entry", !.head = flist[1], !.idx = 1, !.exit = exit]]

\* Ns_VALog: a new entry, flushed at once unless the thread holds its entries.
Ns_VALog(t, len) ==
    LET entries == Append(lcache[t].entries, [id |-> logged + 1, len |-> len]) IN
    /\ lt[t].pc = "idle" /\ logged < MaxMsgs
    /\ logged' = logged + 1
    /\ lcache' = [lcache EXCEPT ![t].entries = entries, ![t].count = @ + 1]
    /\ IF lcache[t].hold THEN UNCHANGED lt ELSE StartFlush(t, entries, FALSE)
    /\ UNCHANGED <<flist, fmade, fref, remover, logfile, taken>>

\* The next entry of the flush: the filters from the remembered head on.  A head that was freed
\* meanwhile is used all the same.
FlushEntry(t) ==
    /\ lt[t].pc = "entry"
    /\ IF Contains(flist, lt[t].head)
       THEN /\ fref' = [fref EXCEPT ![lt[t].head] = @ + 1]
            /\ lt' = [lt EXCEPT ![t].pc = "call", ![t].cur = lt[t].head]
       ELSE lt' = [lt EXCEPT ![t].pc = "freed"] /\ UNCHANGED fref
    /\ UNCHANGED <<flist, fmade, remover, lcache, logged, logfile, taken>>

\* Behind the last entry the cache is emptied.
EntryDone(t) ==
    IF lt[t].idx = Len(lcache[t].entries)
    THEN /\ lt' = [lt EXCEPT ![t] = [NoFlush EXCEPT !.pc = IF lt[t].exit THEN "gone" ELSE "idle"]]
         /\ lcache' = [lcache EXCEPT ![t].entries = <<>>, ![t].count = 0]
    ELSE /\ lt' = [lt EXCEPT ![t].pc = "entry", ![t].idx = @ + 1, ![t].cur = 0]
         /\ UNCHANGED lcache

PrevFilter(f) == LET i == SelectInSeq(flist, LAMBDA g : g = f) IN IF i = Len(flist) THEN -1 ELSE flist[i + 1]

\* Mutant: the filters behind one that failed are called as well.
CallDoneNoBreak(t, ok) ==
    LET f == lt[t].cur
        id == lcache[t].entries[lt[t].idx].id
    IN  /\ lt[t].pc = "call" /\ (f = File => ok)
        /\ logfile' = IF f = File \/ ~ok THEN Append(logfile, id) ELSE logfile
        /\ IF f = File
           THEN fref' = [fref EXCEPT ![f] = @ - 1] /\ EntryDone(t)
           ELSE /\ fref' = [fref EXCEPT ![f] = @ - 1, ![PrevFilter(f)] = @ + 1]
                /\ lt' = [lt EXCEPT ![t].cur = PrevFilter(f)] /\ UNCHANGED lcache
        /\ UNCHANGED <<flist, fmade, remover, logged, taken>>

\* A filter returns.  When it failed LogFlush writes the message to the log itself and calls no
\* older filter; LogToFile does not fail.
CallDone(t, ok) ==
    LET f == lt[t].cur
        id == lcache[t].entries[lt[t].idx].id
    IN  /\ lt[t].pc = "call" /\ (f = File => ok)
        /\ logfile' = IF f = File \/ ~ok THEN Append(logfile, id) ELSE logfile
        /\ IF f = File \/ ~ok
           THEN fref' = [fref EXCEPT ![f] = @ - 1] /\ EntryDone(t)
           ELSE /\ fref' = [fref EXCEPT ![f] = @ - 1, ![PrevFilter(f)] = @ + 1]
                /\ lt' = [lt EXCEPT ![t].cur = PrevFilter(f)] /\ UNCHANGED lcache
        /\ UNCHANGED <<flist, fmade, remover, logged, taken>>

\* ns_logctl hold, release and flush; NsTclLogCtlObjCmd.
CtlHold(t) ==
    /\ lt[t].pc = "idle" /\ ~lcache[t].hold
    /\ lcache' = [lcache EXCEPT ![t].hold = TRUE]
    /\ UNCHANGED <<flist, fmade, fref, remover, lt, logged, logfile, taken>>

CtlFlush(t, release) ==
    /\ lt[t].pc = "idle" /\ (release \/ lcache[t].entries # <<>>)
    /\ StartFlush(t, lcache[t].entries, FALSE)
    /\ lcache' = [lcache EXCEPT ![t].hold = @ /\ ~release]
    /\ UNCHANGED <<flist, fmade, fref, remover, logged, logfile, taken>>

\* ns_logctl get: the entries go to the caller and leave the cache (peek leaves them there).
CtlGet(t) ==
    /\ lt[t].pc = "idle" /\ lcache[t].entries # <<>>
    /\ taken' = taken \cup {e.id : e \in Range(lcache[t].entries)}
    /\ lcache' = [lcache EXCEPT ![t].entries = <<>>, ![t].count = 0]
    /\ UNCHANGED <<flist, fmade, fref, remover, lt, logged, logfile>>

\* Mutant: the count of a truncated cache is the requested one.
TruncCountAsked(entries, n) == n

\* The count after a truncation: 0 when no text is left.
TruncCount(entries, n) ==
    IF \A i \in 1 .. Len(entries) : entries[i].len = 0 THEN 0 ELSE Len(entries)

\* ns_logctl truncate n: the first n entries stay, with n = 0 none.
CtlTruncate(t, n) ==
    LET old == lcache[t].entries
        kept == IF n >= Len(old) THEN old ELSE SubSeq(old, 1, n)
    IN  /\ lt[t].pc = "idle" /\ old # <<>>
        /\ taken' = taken \cup ({e.id : e \in Range(old)} \ {e.id : e \in Range(kept)})
        /\ lcache' = [lcache EXCEPT ![t].entries = kept, ![t].count = IF n = 0 THEN 0 ELSE TruncCount(kept, n)]
        /\ UNCHANGED <<flist, fmade, fref, remover, lt, logged, logfile>>

\* FreeCache: a thread that ends flushes what it holds.
FreeCache(t) ==
    /\ lt[t].pc = "idle"
    /\ StartFlush(t, lcache[t].entries, TRUE)
    /\ UNCHANGED <<flist, fmade, fref, remover, lcache, logged, logfile, taken>>

\* Ns_AddLogFilter, called by ns_logctl register with LogToTcl.
Ns_AddLogFilter ==
    /\ fmade < MaxFilters
    /\ fmade' = fmade + 1 /\ flist' = <<fmade + 1>> \o flist
    /\ UNCHANGED <<fref, remover, lcache, lt, logged, logfile, taken>>

MayRemove(f) == RemovesHead \/ \A t \in LogThreads : lt[t].pc \in {"entry", "call"} => lt[t].head # f

\* Ns_RemoveLogFilter: finds the filter and waits for the threads that call it.
Ns_RemoveLogFilter(f) ==
    /\ remover = 0 /\ f # File /\ Contains(flist, f) /\ MayRemove(f)
    /\ remover' = f
    /\ UNCHANGED <<flist, fmade, fref, lcache, lt, logged, logfile, taken>>

\* Mutant: nobody is waited for.
UnlinkAtOnce ==
    /\ remover # 0 /\ MayRemove(remover)
    /\ flist' = SelectSeq(flist, LAMBDA g : g # remover) /\ remover' = 0
    /\ UNCHANGED <<fmade, fref, lcache, lt, logged, logfile, taken>>

\* Nobody calls it any more: the filter is unlinked and freed.
UnlinkFilter ==
    /\ remover # 0 /\ fref[remover] = 0 /\ MayRemove(remover)
    /\ flist' = SelectSeq(flist, LAMBDA g : g # remover) /\ remover' = 0
    /\ UNCHANGED <<fmade, fref, lcache, lt, logged, logfile, taken>>

FlushStep(t) == FlushEntry(t) \/ \E ok \in BOOLEAN : CallDone(t, ok)

LogNext ==
    \/ \E t \in LogThreads :
        \/ \E len \in IF EmptyMsgs THEN {0, 1} ELSE {1} : Ns_VALog(t, len)
        \/ FlushStep(t)
        \/ CtlHold(t)
        \/ \E release \in BOOLEAN : CtlFlush(t, release)
        \/ CtlGet(t)
        \/ \E n \in 0 .. MaxMsgs : CtlTruncate(t, n)
        \/ FreeCache(t)
    \/ Ns_AddLogFilter
    \/ \E f \in 1 .. MaxFilters : Ns_RemoveLogFilter(f)
    \/ UnlinkFilter

LogSpec == LogInit /\ [][LogNext]_logVars

-----------------------------------------------------------------------------
\* Entries of a cache that the flush has not passed yet, and the one it is at.
Waiting(t) == {lcache[t].entries[i].id : i \in lt[t].idx + 1 .. Len(lcache[t].entries)}
At(t) == IF lt[t].idx = 0 THEN {} ELSE {lcache[t].entries[lt[t].idx].id}

LogTypeOK ==
    /\ logged \in 0 .. MaxMsgs /\ fmade \in 0 .. MaxFilters
    /\ \A f \in 0 .. MaxFilters : fref[f] >= 0
    /\ flist[Len(flist)] = File

\* Whatever filters fail, come and go, LogFlush writes a message to the server log exactly once:
\* it waits in its thread's cache, is being flushed, was taken out, or is in the log once.
LogOnce ==
    /\ LogTypeOK
    /\ IsInjective(logfile)
    /\ \A i \in 1 .. logged :
        Cardinality({w \in {"wait", "at", "file", "taken"} :
            CASE w = "wait" -> \E t \in LogThreads : i \in Waiting(t)
              [] w = "at" -> \E t \in LogThreads : i \in At(t)
              [] w = "file" -> Contains(logfile, i)
              [] OTHER -> i \in taken}) = 1

\* A filter is called only while it is registered, and LogFlush keeps count of the calls, so that
\* Ns_RemoveLogFilter frees no filter that a thread is in or will go back to.
LogFilterInUse ==
    /\ \A t \in LogThreads : lt[t].pc # "freed" /\ (lt[t].pc = "call" => Contains(flist, lt[t].cur))
    /\ \A f \in 0 .. MaxFilters : fref[f] = Cardinality({t \in LogThreads : lt[t].pc = "call" /\ lt[t].cur = f})

\* ns_logctl count tells how many entries a thread holds.
LogCounts == \A t \in LogThreads : lcache[t].count = Len(lcache[t].entries)

LogCalm == LogFilterInUse /\ LogCounts

\* Ns_RemoveLogFilter returns: the calls it waits for end.
LogRemoverReturns == remover # 0 ~> remover = 0

-----------------------------------------------------------------------------
(***************************************************************************)
(* Rolling a log file (nsd/rollfile.c, Ns_LogRoll in nsd/log.c): the       *)
(* backups file.000, file.001, ... move up one place, the oldest is        *)
(* deleted when there are too many, and the file becomes file.000; or the  *)
(* backups have dates in their names and Ns_PurgeFiles deletes the oldest. *)
(* Every operation of the file system is a step and may fail.              *)
(***************************************************************************)

CONSTANTS
    Rollers,         \* threads that roll the log
    MaxBackup,       \* logmaxbackup
    MaxRolls         \* number of log files opened

VARIABLES
    backup,          \* number -> the generation of the log kept there, 0 for none
    current,         \* generation of the log file, 0 for none
    rolledFiles,     \* log files opened so far
    deleted,         \* generations deleted by Unlink or overwritten by Rename
    dated,           \* generations kept under a dated name
    rl               \* thread -> [pc, num]

rollVars == <<backup, current, rolledFiles, deleted, dated, rl>>

Numbers == 0 .. MaxBackup
RollReady == [pc |-> "idle", num |-> 0]

RollInit ==
    /\ backup = [n \in Numbers |-> 0] /\ current = 1 /\ rolledFiles = 1 /\ deleted = {} /\ dated = {}
    /\ rl = [t \in Rollers |-> RollReady]

\* Ns_LogRoll: a log file that is there is rolled; Ns_RollFile first looks for file.000.
Ns_LogRoll(t) ==
    /\ rl[t] = RollReady /\ rolledFiles < MaxRolls /\ dated = {}
    /\ rl' = [rl EXCEPT ![t].pc = IF current = 0 THEN "open" ELSE IF backup[0] # 0 THEN "scan" ELSE "last"]
    /\ UNCHANGED <<backup, current, rolledFiles, deleted, dated>>

\* Mutant: the scan counts one version too few.
ScanShort(t) ==
    LET n == rl[t].num IN
    /\ rl[t].pc = "scan"
    /\ rl' = [rl EXCEPT ![t] = IF backup[n] = 0 THEN [pc |-> "shift", num |-> IF n > 0 THEN n - 1 ELSE n]
                               ELSE IF n + 1 < MaxBackup THEN [pc |-> "scan", num |-> n + 1]
                               ELSE [pc |-> "unlink", num |-> n]]
    /\ UNCHANGED <<backup, current, rolledFiles, deleted, dated>>

\* The scan for the highest version, up to the first gap or the maximum.
RollScan(t) ==
    LET n == rl[t].num IN
    /\ rl[t].pc = "scan"
    /\ rl' = [rl EXCEPT ![t] = IF backup[n] = 0 THEN [pc |-> "shift", num |-> n]
                               ELSE IF n + 1 < MaxBackup THEN [pc |-> "scan", num |-> n + 1]
                               ELSE [pc |-> "unlink", num |-> n]]
    /\ UNCHANGED <<backup, current, rolledFiles, deleted, dated>>

\* Unlink of the excessive version.
RollUnlink(t) ==
    LET n == rl[t].num IN
    /\ rl[t].pc = "unlink" /\ backup[n] # 0
    /\ backup' = [backup EXCEPT ![n] = 0] /\ deleted' = deleted \cup {backup[n]}
    /\ rl' = [rl EXCEPT ![t].pc = "shift"]
    /\ UNCHANGED <<current, rolledFiles, dated>>

\* Rename of version num - 1 to num, from the highest on.
RollShift(t) ==
    LET n == rl[t].num - 1 IN
    /\ rl[t].pc = "shift" /\ rl[t].num > 0 /\ backup[n] # 0
    /\ backup' = [backup EXCEPT ![n + 1] = backup[n], ![n] = 0]
    /\ deleted' = deleted \cup ({backup[n + 1]} \ {0})
    /\ rl' = [rl EXCEPT ![t].num = n]
    /\ UNCHANGED <<current, rolledFiles, dated>>

\* Rename of the log file to file.000, if it is still there.
RollLast(t) ==
    /\ rl[t].pc = "last" \/ (rl[t].pc = "shift" /\ rl[t].num = 0)
    /\ IF current = 0 THEN UNCHANGED <<backup, current, deleted>>
       ELSE /\ backup' = [backup EXCEPT ![0] = current] /\ current' = 0
            /\ deleted' = deleted \cup ({backup[0]} \ {0})
    /\ rl' = [rl EXCEPT ![t] = [pc |-> "open", num |-> 0]]
    /\ UNCHANGED <<rolledFiles, dated>>

\* Unlink, Rename or Exists fails and ends Ns_RollFile; Ns_LogRoll goes on all the same.
FsError(t) ==
    /\ rl[t].pc \in {"scan", "unlink", "shift", "last"}
    /\ rl' = [rl EXCEPT ![t] = [pc |-> "open", num |-> 0]]
    /\ UNCHANGED <<backup, current, rolledFiles, deleted, dated>>

\* LogOpen: creates the file, or appends to the one that is there, or fails.
RollOpen(t, ok) ==
    /\ rl[t].pc = "open"
    /\ IF ok /\ current = 0 THEN rolledFiles' = rolledFiles + 1 /\ current' = rolledFiles + 1 ELSE UNCHANGED <<rolledFiles, current>>
    /\ rl' = [rl EXCEPT ![t] = RollReady]
    /\ UNCHANGED <<backup, deleted, dated>>

\* LogRoll of nslog with a rollfmt: the log file gets a dated name (a log has one kind of backups).
DatedRename(t) ==
    /\ rl[t] = RollReady /\ rolledFiles < MaxRolls /\ current # 0 /\ \A n \in Numbers : backup[n] = 0
    /\ dated' = dated \cup {current} /\ current' = 0
    /\ rl' = [rl EXCEPT ![t].pc = "purge"]
    /\ UNCHANGED <<backup, rolledFiles, deleted>>

\* Mutant: the files are sorted the wrong way round.
PurgedNewest(files) == {f \in files : Cardinality({g \in files : g < f}) >= MaxBackup}

\* What Ns_PurgeFiles deletes: all but the MaxBackup newest (CmpFile sorts the newest first).
Purged(files) == {f \in files : Cardinality({g \in files : g > f}) >= MaxBackup}

\* Ns_PurgeFiles; an Unlink that fails ends it, having deleted the newer part of the surplus.
Ns_PurgeFiles(t, done) ==
    /\ rl[t].pc = "purge"
    /\ done \in SUBSET Purged(dated) /\ \A f \in done, g \in Purged(dated) \ done : f > g
    /\ dated' = dated \ done /\ deleted' = deleted \cup done
    /\ rl' = [rl EXCEPT ![t].pc = "open"]
    /\ UNCHANGED <<backup, current, rolledFiles>>

RollNext ==
    \E t \in Rollers :
        \/ Ns_LogRoll(t) \/ RollScan(t) \/ RollUnlink(t) \/ RollShift(t) \/ RollLast(t) \/ FsError(t)
        \/ \E ok \in BOOLEAN : RollOpen(t, ok)
        \/ DatedRename(t)
        \/ \E done \in SUBSET dated : Ns_PurgeFiles(t, done)

RollSpec == RollInit /\ [][RollNext]_rollVars

-----------------------------------------------------------------------------
\* A backup with a higher number is older, whatever step of Ns_RollFile failed in this roll or an
\* earlier one.
RollOrder ==
    \A m, n \in Numbers : m < n /\ backup[m] # 0 /\ backup[n] # 0 => backup[m] > backup[n]

\* Rolling deletes the oldest backups only: no Rename overwrites a newer one, there are never more
\* than the maximum (one when it is 0), and whatever was logged is in the log, in a backup, or
\* older than every backup.
RollKeeps ==
    /\ Cardinality({n \in Numbers : backup[n] # 0}) <= IF MaxBackup = 0 THEN 1 ELSE MaxBackup
    /\ \A d \in deleted, n \in Numbers : backup[n] # 0 => d < backup[n]
    /\ \A d \in deleted : d # current /\ d \notin dated
    /\ \A d \in deleted : Cardinality({g \in 1 .. rolledFiles : g > d /\ g \notin deleted}) >= IF MaxBackup = 0 THEN 1 ELSE MaxBackup
    /\ \A g \in 1 .. rolledFiles : \/ g = current \/ g \in dated \/ g \in deleted \/ \E n \in Numbers : backup[n] = g

RollInv == RollOrder /\ RollKeeps

-----------------------------------------------------------------------------
(***************************************************************************)
(* The access log (nslog/nslog.c): LogTrace puts a line for every request  *)
(* into a buffer of maxbuffer lines under the lock and writes full buffers *)
(* to the log after it released the lock, while rolls, a new file name,    *)
(* write errors and shutdown close and open the file.                      *)
(***************************************************************************)

CONSTANTS
    LogConns,        \* connection threads that trace requests
    MaxLines,        \* number of requests traced
    BufferSizes,     \* values of maxbuffer
    AccessRaces,     \* is the log closed while a thread is about to write
    FileTrouble      \* do writes and opens fail, or the file vanish

VARIABLES
    afd,             \* the open log file's number, 0 for NS_INVALID_FD
    afiles,          \* log files opened so far
    abuffer,         \* the lines in the buffer
    curlines,        \* counter of buffered lines
    maxlines,        \* maxbuffer
    traced,          \* requests traced so far
    awritten,        \* the lines in all log files, in the order they were written
    alost,           \* lines dropped
    al,              \* thread -> lines it is about to write, and whether it has checked the file
    lastRoll         \* did the last roll succeed

accessVars == <<afd, afiles, abuffer, curlines, maxlines, traced, awritten, alost, al, lastRoll>>

Free == [lines |-> <<>>, checked |-> FALSE]

\* Ns_ModuleInit: the log is opened, or the module does not load.
AccessInit ==
    /\ afd = 1 /\ afiles = 1 /\ abuffer = <<>> /\ curlines = 0
    /\ maxlines = CHOOSE n \in BufferSizes : \A m \in BufferSizes : n >= m
    /\ traced = 0 /\ awritten = <<>> /\ alost = {} /\ al = [t \in LogConns |-> Free] /\ lastRoll = TRUE

\* LogFlush: written, or the log is disabled; either way the lines are gone from the buffer.
\* A record of the changes.
AccessFlush(lines, ok) ==
    IF lines = <<>> THEN [fd |-> afd, out |-> awritten, lost |-> alost]
    ELSE IF afd # 0 /\ ok THEN [fd |-> afd, out |-> awritten \o lines, lost |-> alost]
    ELSE [fd |-> 0, out |-> awritten, lost |-> alost \cup Range(lines)]

WriteOk == IF FileTrouble THEN BOOLEAN ELSE {TRUE}

\* Mutant: a full buffer is written and not emptied.
NewBufferKept(buf, full) == IF maxlines = 0 THEN abuffer ELSE buf

\* The buffer after a line: unused without maxbuffer, emptied when it is full.
NewBuffer(buf, full) == IF maxlines = 0 THEN abuffer ELSE IF full THEN <<>> ELSE buf

\* LogTrace: small batches are written after the lock is released, big ones by LogFlush under it.
LogTrace(t, big, ok) ==
    LET buf == Append(abuffer, traced + 1)
        batch == IF maxlines = 0 THEN <<traced + 1>> ELSE buf
        full == maxlines = 0 \/ curlines + 1 > maxlines
        f == AccessFlush(batch, ok)
    IN  /\ al[t] = Free /\ traced < MaxLines
        /\ traced' = traced + 1
        /\ abuffer' = NewBuffer(buf, full)
        /\ curlines' = IF maxlines = 0 THEN curlines ELSE IF full THEN 0 ELSE curlines + 1
        /\ IF full /\ big
           THEN afd' = f.fd /\ awritten' = f.out /\ alost' = f.lost /\ UNCHANGED al
           ELSE /\ al' = [al EXCEPT ![t].lines = IF full THEN batch ELSE <<>>]
                /\ UNCHANGED <<afd, awritten, alost>>
        /\ UNCHANGED <<afiles, maxlines, lastRoll>>

\* LogTrace after the lock: the file is looked at, and then written to.
CheckFd(t) ==
    /\ al[t].lines # <<>> /\ ~al[t].checked
    /\ IF afd # 0
       THEN al' = [al EXCEPT ![t].checked = TRUE] /\ UNCHANGED alost
       ELSE al' = [al EXCEPT ![t] = Free] /\ alost' = alost \cup Range(al[t].lines)
    /\ UNCHANGED <<afd, afiles, abuffer, curlines, maxlines, traced, awritten, lastRoll>>

NsAsyncWrite(t) ==
    /\ al[t].checked
    /\ IF afd # 0 THEN awritten' = awritten \o al[t].lines /\ UNCHANGED alost
       ELSE alost' = alost \cup Range(al[t].lines) /\ UNCHANGED awritten
    /\ al' = [al EXCEPT ![t] = Free]
    /\ UNCHANGED <<afd, afiles, abuffer, curlines, maxlines, traced, lastRoll>>

MayClose == AccessRaces \/ \A t \in LogConns : al[t] = Free

\* Mutant: the buffer is dropped when the log is closed.
LogCloseDrops(ok) ==
    IF afd = 0 THEN [fd |-> 0, out |-> awritten, lost |-> alost, buf |-> abuffer]
    ELSE [fd |-> 0, out |-> awritten, lost |-> alost \cup Range(abuffer), buf |-> <<>>]

\* LogClose: an open log is flushed and closed; a disabled one keeps its buffer.
LogClose(ok) ==
    IF afd = 0 THEN [fd |-> 0, out |-> awritten, lost |-> alost, buf |-> abuffer]
    ELSE LET f == AccessFlush(abuffer, ok) IN [fd |-> 0, out |-> f.out, lost |-> f.lost, buf |-> <<>>]

\* LogRoll behind LogClose: the file must exist, be renamed, and the new one be opened.
RollResult(exists, renamed, open) == [ok |-> exists /\ renamed /\ open, opens |-> exists /\ renamed /\ open]

\* LogRoll: by the schedule, a signal or ns_accesslog roll; and ns_accesslog file, which opens
\* the new name whatever happened (exists and renamed are then TRUE).
LogRoll(ok, exists, renamed, open) ==
    LET c == LogClose(ok)
        r == RollResult(exists, renamed, open)
    IN  /\ MayClose /\ afiles <= MaxLines
        /\ FileTrouble \/ (exists /\ renamed /\ open)
        /\ awritten' = c.out /\ alost' = c.lost /\ abuffer' = c.buf
        /\ afd' = IF r.opens THEN afiles + 1 ELSE 0
        /\ afiles' = afiles + 1 /\ lastRoll' = r.ok
        /\ UNCHANGED <<curlines, maxlines, traced, al>>

\* ns_accesslog maxbuffer
SetMaxBuffer(n) ==
    /\ n # maxlines /\ maxlines' = n
    /\ UNCHANGED <<afd, afiles, abuffer, curlines, traced, awritten, alost, al, lastRoll>>

AccessNext ==
    \/ \E t \in LogConns :
        \/ \E big \in BOOLEAN, ok \in WriteOk : LogTrace(t, big, ok)
        \/ CheckFd(t) \/ NsAsyncWrite(t)
    \/ \E ok \in WriteOk, exists, renamed, open \in BOOLEAN : LogRoll(ok, exists, renamed, open)
    \/ \E n \in BufferSizes : SetMaxBuffer(n)

AccessSpec == AccessInit /\ [][AccessNext]_accessVars

-----------------------------------------------------------------------------
Pending(t) == Range(al[t].lines)

\* The line of a traced request is in one place: in the buffer, in the hands of the thread that
\* took the buffer, in a log file once, or dropped; no two threads write the same lines.
AccessOnce ==
    /\ IsInjective(awritten) /\ IsInjective(abuffer)
    /\ \A s, t \in LogConns : s # t => Pending(s) \cap Pending(t) = {}
    /\ \A i \in 1 .. traced :
        Cardinality({w \in {"buffer", "pending", "file", "lost"} :
            CASE w = "buffer" -> Contains(abuffer, i)
              [] w = "pending" -> \E t \in LogConns : i \in Pending(t)
              [] w = "file" -> Contains(awritten, i)
              [] OTHER -> i \in alost}) = 1

\* The counter never falls behind the buffer, so that the buffer is written in time: it is not
\* reset by a roll that empties the buffer, which only writes the next batch early.
AccessBuffer ==
    /\ Len(abuffer) <= curlines
    /\ \E n \in BufferSizes : curlines <= n

AccessInv == AccessOnce /\ AccessBuffer

\* As long as the file system works no line is dropped and the log is open, also
\* when it is closed and opened again while a thread is about to write.
AccessComplete == alost = {} /\ afd # 0
=============================================================================
