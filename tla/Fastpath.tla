------------------------------ MODULE Fastpath ------------------------------
(***************************************************************************)
(* Serving files (nsd/fastpath.c): connection threads that find, cache and *)
(* return files while these change on disk.  Cached files are shared and   *)
(* counted; the cache has room for CacheRoom of them and drops the least   *)
(* recently used.  Times are seconds; a file's content is its version.     *)
(***************************************************************************)
EXTENDS Integers, Sequences, SequencesExt, FiniteSets, FiniteSetsExt

CONSTANTS
    FpThreads,       \* connection threads
    Pages,           \* files under the page root
    Dirc,            \* the "directoryfile" names, a sequence of Pages
    CacheRoom,       \* cachemaxsize, in files
    Changing,        \* the pages that are written while the server runs
    FirstSecond, MaxSeconds, MaxWrites, MaxServed,
    UseGzip,         \* gzip_static and gzip_refresh
    GzRaces,         \* is a page written in the second its .gz file was made
    MtimeKept        \* may a page be replaced by one with the same mtime

VARIABLES
    seconds, disk, gz, \* the time; page -> what is on disk; page -> its .gz file
    cached,          \* keys of the page cache, most recently used first
    slot,            \* key -> File object, or NoFile while it is being read
    fileObj,         \* objects -> [refcnt, version, mtime]
    th,              \* threads
    served
fpVars == <<seconds, disk, gz, cached, slot, fileObj, th, served>>

NoFile == 0
NoPage == [there |-> FALSE, version |-> 0, mtime |-> 0]
FreeObj == [refcnt |-> 0, version |-> 0, mtime |-> 0]
Objects == 1..(CacheRoom + Cardinality(FpThreads) + 1)
Resting == [pc |-> "idle", page |-> NoFile, accept |-> 0, seen |-> 0, info |-> NoPage, key |-> NoFile,
            obj |-> NoFile, got |-> -1]
\* Keys: pages and their .gz files
Gz(p) == -p
FpKeys == Pages \cup {Gz(p) : p \in Pages}
FileOf(k) == IF k > 0 THEN disk[k] ELSE gz[-k]

FpInit ==
    /\ seconds = FirstSecond /\ served = 0
    /\ disk = [p \in Pages |-> [there |-> TRUE, version |-> 1, mtime |-> 0]]
    /\ gz = [p \in Pages |-> [there |-> UseGzip, version |-> 1, mtime |-> 0]]
    /\ cached = <<>> /\ slot = [k \in FpKeys |-> NoFile]
    /\ fileObj = [o \in Objects |-> FreeObj]
    /\ th = [t \in FpThreads |-> Resting]

FpAt(t, pc) == th[t].pc = pc
FpStay == UNCHANGED <<seconds, disk, gz>>
CacheStay == UNCHANGED <<cached, slot, fileObj>>

-----------------------------------------------------------------------------
\* The world: time passes, files are written, replaced and removed.
Second == seconds < MaxSeconds /\ seconds' = seconds + 1 /\ UNCHANGED <<disk, gz, cached, slot, fileObj, th, served>>

WritePage(p, keep) ==
    /\ disk[p].version < MaxWrites
    /\ GzRaces \/ ~UseGzip \/ gz[p].mtime < seconds
    /\ keep => MtimeKept
    /\ disk' = [disk EXCEPT ![p] = [there |-> TRUE, version |-> @.version + 1,
                                    mtime |-> IF keep THEN @.mtime ELSE seconds]]
    /\ UNCHANGED <<seconds, gz, cached, slot, fileObj, th, served>>

RemovePage(p) ==
    /\ disk[p].there /\ disk[p].version = MaxWrites
    /\ disk' = [disk EXCEPT ![p].there = FALSE] /\ gz' = [gz EXCEPT ![p].there = FALSE]
    /\ UNCHANGED <<seconds, cached, slot, fileObj, th, served>>

-----------------------------------------------------------------------------
Answered(t) == th' = [th EXCEPT ![t] = Resting]

\* A request for a page is accepted.
FpRequest(t, p) ==
    /\ FpAt(t, "idle") /\ served < MaxServed
    /\ served' = served + 1
    /\ th' = [th EXCEPT ![t] = [Resting EXCEPT !.pc = "stat", !.page = p, !.accept = seconds]]
    /\ FpStay /\ CacheStay

\* Ns_FastPathProc of a directory: the first directory file there is, by an internal
\* redirect (FastGetRestart) or, without a trailing slash, by one of the client; or a listing.
FpDirectory(t, slash) ==
    LET there == {i \in 1..Len(Dirc) : disk[Dirc[i]].there}
    IN /\ FpAt(t, "idle") /\ served < MaxServed
       /\ served' = served + 1
       /\ th' = IF there # {} /\ slash
                THEN [th EXCEPT ![t] = [Resting EXCEPT !.pc = "stat", !.page = Dirc[Min(there)], !.accept = seconds]]
                ELSE th
       /\ FpStay /\ CacheStay

\* FastStat, Ns_ConnModifiedSince: not found, not modified, or the file is to be returned.
FpStat(t) ==
    LET p == th[t].page
    IN /\ FpAt(t, "stat")
       /\ \/ ~disk[p].there /\ Answered(t)
          \/ /\ disk[p].there
             /\ \/ Answered(t)
                \/ th' = [th EXCEPT ![t].pc = IF UseGzip THEN "gzip" ELSE "choose", ![t].info = disk[p],
                                    ![t].seen = disk[p].version, ![t].key = p]
       /\ FpStay /\ CacheStay /\ UNCHANGED served

\* Mutant: a .gz file is used however old it is.
GzUsableAny(t) == gz[th[t].page].there

GzUsable(t) == gz[th[t].page].there /\ gz[th[t].page].mtime >= th[t].info.mtime

\* The .gz file beside the page, made anew when it is older (GzipFile, which may fail).
FpGzip(t) ==
    LET p == th[t].page
    IN /\ FpAt(t, "gzip")
       /\ \/ /\ gz[p].there /\ gz[p].mtime < th[t].info.mtime /\ disk[p].there
             /\ gz' = [gz EXCEPT ![p].version = disk[p].version, ![p].mtime = seconds]
             /\ UNCHANGED th
          \/ /\ th' = [th EXCEPT ![t].pc = "choose", ![t].key = IF GzUsable(t) THEN Gz(p) ELSE p,
                                 ![t].info = IF GzUsable(t) THEN gz[p] ELSE @]
             /\ UNCHANGED gz
       /\ CacheStay /\ UNCHANGED <<seconds, disk, served>>

\* Mutant: files are cached however new they are.
MayCacheNew(t) == TRUE

\* Files that may still change within the second of their mtime are not cached.
MayCache(t) == th[t].info.mtime < th[t].accept - 1

\* The file is read and sent as it is, or is gone.
FpUncached(t) ==
    LET f == FileOf(th[t].key)
    IN /\ FpAt(t, "choose") /\ ~MayCache(t)
       /\ IF f.there THEN th' = [th EXCEPT ![t].pc = "sent", ![t].got = f.version] ELSE Answered(t)
       /\ FpStay /\ CacheStay /\ UNCHANGED served

\* Delink and Push of an entry, created if need be
Used(k) == <<k>> \o SelectSeq(cached, LAMBDA x : x # k)

\* DecrEntry
DecrEntry(objs, o) ==
    IF o = NoFile THEN objs
    ELSE [objs EXCEPT ![o] = IF @.refcnt = 1 THEN FreeObj ELSE [@ EXCEPT !.refcnt = @ - 1]]

\* Mutant: a file with another mtime is used all the same.
StaleNever(t, o) == FALSE

Stale(t, o) == fileObj[o].mtime # th[t].info.mtime

\* Mutant: the file is returned without a reference of its own.
TakeShared(objs, o) == objs

Take(objs, o) == [objs EXCEPT ![o].refcnt = @ + 1]

\* Ns_CacheLock, Ns_CacheWaitCreateEntry: wait while another thread reads the
\* file; take it, or drop it when stale and read it.
FpCacheEntry(t) ==
    LET k == th[t].key
        there == Contains(cached, k)
        o == slot[k]
    IN /\ FpAt(t, "choose") /\ MayCache(t)
       /\ there => o # NoFile
       /\ cached' = Used(k)
       /\ IF there /\ ~Stale(t, o)
          THEN /\ fileObj' = Take(fileObj, o)
               /\ th' = [th EXCEPT ![t].pc = "return", ![t].obj = o]
               /\ UNCHANGED slot
          ELSE /\ fileObj' = DecrEntry(fileObj, o)
               /\ slot' = [slot EXCEPT ![k] = NoFile]
               /\ th' = [th EXCEPT ![t].pc = "read"]
       /\ FpStay /\ UNCHANGED served

NewObj == CHOOSE o \in Objects : fileObj[o].refcnt = 0

\* The file is read into an object of its own, without the cache's lock.
FpRead(t) ==
    LET f == FileOf(th[t].key)
    IN /\ FpAt(t, "read")
       /\ IF f.there
          THEN /\ fileObj' = [fileObj EXCEPT ![NewObj] = [refcnt |-> 1, version |-> f.version, mtime |-> th[t].info.mtime]]
               /\ th' = [th EXCEPT ![t].pc = "store", ![t].obj = NewObj]
          ELSE th' = [th EXCEPT ![t].pc = "store", ![t].obj = NoFile] /\ UNCHANGED fileObj
       /\ FpStay /\ UNCHANGED <<cached, slot, served>>

\* Ns_CacheSetValueSz drops files from the end of the list while there are too
\* many, up to one that is being read.
Pruned(order, vals) ==
    LET filled(n) == {i \in 1..n : vals[order[i]] # NoFile}
        ok(n) == Cardinality(filled(n)) <= CacheRoom \/ n = 1 \/ vals[order[n]] = NoFile
    IN SubSeq(order, 1, Max({n \in 1..Len(order) : ok(n)}))

DropRefs(objs, keys, vals) ==
    [o \in Objects |-> IF \E k \in keys : vals[k] = o THEN DecrEntry(objs, o)[o] ELSE objs[o]]

\* Mutant: the entry of a file that could not be read stays.
ForgetNot(k) == cached

\* Ns_CacheDeleteEntry
Forget(k) == SelectSeq(cached, LAMBDA x : x # k)

\* Back under the lock: the entry gets the file or is deleted, all waiters are woken.
FpStore(t) ==
    LET k == th[t].key
        o == th[t].obj
        vals == [slot EXCEPT ![k] = o]
        order == Pruned(Used(k), vals)
        gone == {x \in FpKeys : Contains(cached, x) /\ ~Contains(order, x)}
    IN /\ FpAt(t, "store")
       /\ IF o = NoFile
          THEN /\ cached' = Forget(k)
               /\ slot' = vals
               /\ Answered(t)
               /\ UNCHANGED fileObj
          ELSE /\ cached' = order
               /\ slot' = [x \in FpKeys |-> IF x \in gone THEN NoFile ELSE vals[x]]
               /\ fileObj' = DropRefs(Take(fileObj, o), gone, vals)
               /\ th' = [th EXCEPT ![t].pc = "return"]
       /\ FpStay /\ UNCHANGED served

\* Ns_ConnReturnData, without the lock
FpReturn(t) ==
    /\ FpAt(t, "return")
    /\ th' = [th EXCEPT ![t].pc = "release", ![t].got = fileObj[th[t].obj].version]
    /\ FpStay /\ CacheStay /\ UNCHANGED served

\* The reference is given back under the lock.
FpRelease(t) ==
    /\ FpAt(t, "release")
    /\ fileObj' = DecrEntry(fileObj, th[t].obj)
    /\ Answered(t)
    /\ FpStay /\ UNCHANGED <<cached, slot, served>>

FpSent(t) == FpAt(t, "sent") /\ Answered(t) /\ FpStay /\ CacheStay /\ UNCHANGED served

FpStep(t) ==
    FpStat(t) \/ FpGzip(t) \/ FpUncached(t) \/ FpCacheEntry(t) \/ FpRead(t) \/ FpStore(t) \/ FpReturn(t) \/ FpRelease(t)
        \/ FpSent(t)

FpNext ==
    \/ Second
    \/ \E p \in Changing : RemovePage(p) \/ \E k \in BOOLEAN : WritePage(p, k)
    \/ \E t \in FpThreads : FpStep(t) \/ (\E p \in Pages : FpRequest(t, p)) \/ (\E b \in BOOLEAN : FpDirectory(t, b))

-----------------------------------------------------------------------------
Holders(o) ==
    Cardinality({k \in FpKeys : slot[k] = o}) + Cardinality({t \in FpThreads : th[t].obj = o /\ th[t].pc \in {"return", "release"}})
        + Cardinality({t \in FpThreads : th[t].obj = o /\ FpAt(t, "store")})

\* A cached file is shared by the cache and the threads that are sending it: its
\* count is the number of these, so that it is neither freed under a thread nor
\* kept for ever, whatever is dropped from the cache meanwhile (FastReturn,
\* DecrEntry); and a file is read by one thread at a time.
FilesCounted ==
    /\ \A o \in Objects : fileObj[o].refcnt = Holders(o)
    /\ \A t \in FpThreads : th[t].obj # NoFile => fileObj[th[t].obj].refcnt > 0
    /\ \A k \in FpKeys : Cardinality({t \in FpThreads : th[t].key = k /\ th[t].pc \in {"read", "store"}}) =
           (IF Contains(cached, k) /\ slot[k] = NoFile THEN 1 ELSE 0)
    /\ Cardinality({k \in FpKeys : slot[k] # NoFile}) <= CacheRoom + Cardinality(FpThreads)

\* What a request gets is not older than the page was when the request looked at
\* it, even if the page is written several times in a second (FastReturn).
PageFresh == \A t \in FpThreads : th[t].got >= 0 => th[t].got >= th[t].seen

\* No request waits for ever for a file another thread reads.
FpServed == \A t \in FpThreads : ~FpAt(t, "idle") ~> FpAt(t, "idle")
=============================================================================
