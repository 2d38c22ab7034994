-------------------------- MODULE BackgroundProofs --------------------------
(***************************************************************************)
(* The threads of Background for any number of connections, jobs, lines    *)
(* and sockets: the writer threads, the log writer and the socket callback *)
(* thread keep BackgroundInv, each with an inductive invariant of its own. *)
(***************************************************************************)
EXTENDS Background, WellFoundedInduction, TLAPS

\* Most leaves are first-order; the ones that need arithmetic or sequences cite SMT.
USE Zenon

-----------------------------------------------------------------------------
(* The inductive invariant of the writer threads.                           *)

JobStates == {"new", "queued", "listed", "dropped", "freeing", "freed"}

WriterTypes ==
    /\ strWriter \in [WConns -> WJobs \cup {NoJob}] /\ wapp \in [WConns -> WJobs \cup {NoJob}]
    /\ strFd \in [WConns -> BOOLEAN]
    /\ wconn \in [WConns -> {"idle", "run", "sent", "append", "appended"}]
    /\ wcur \in [WJobs -> JobStates] /\ doStream \in [WJobs -> {"no", "active", "finish"}]
    /\ wown \in [WJobs -> WConns \cup {NoJob}] /\ refCount \in [WJobs -> Int]

Held(w) == wcur[w] \in {"queued", "listed"}
Appended(w) == \E c \in WConns : wapp[c] = w

\* A reference for the writer's lists and one for the thread that appends.
RefsCounted ==
    \A w \in WJobs : refCount[w] = (IF Held(w) THEN 1 ELSE 0) + (IF Appended(w) THEN 1 ELSE 0)

\* What a job knows: one that is to be served is listed, and a stream has a connection.
JobLinks ==
    /\ wtodo \subseteq WJobs /\ \A w \in wtodo : wcur[w] = "listed"
    /\ \A w \in WJobs : doStream[w] # "no" => wown[w] \in WConns
    /\ \A w \in WJobs : wcur[w] = "new" => wown[w] = NoJob /\ doStream[w] = "no"

\* What a connection points to or appends to is its own.
LinkOwned == \A c \in WConns : strWriter[c] # NoJob => wown[strWriter[c]] = c /\ strFd[c]
Appending == \A c \in WConns : wconn[c] \in {"append", "appended"} <=> wapp[c] # NoJob
AppOwned ==
    \A c \in WConns : wapp[c] # NoJob => wown[wapp[c]] = c /\ strFd[c] /\ strWriter[c] \in {wapp[c], NoJob}

\* No other job of a connection is left, before its first stream and during one.
RunsFresh == \A c \in WConns, w \in WJobs : wown[w] = c /\ wconn[c] = "run" /\ ~ strFd[c] => wcur[w] = "freed"
OthersFreed ==
    \A c \in WConns, w \in WJobs : wown[w] = c /\ strWriter[c] # NoJob /\ w # strWriter[c] => wcur[w] = "freed"

ConnLinks == LinkOwned /\ Appending /\ AppOwned /\ RunsFresh /\ OthersFreed

WriterIInv == WriterTypes /\ RefsCounted /\ JobLinks /\ ConnLinks /\ WriterLinkKept

-----------------------------------------------------------------------------
(* The inductive invariant of the log writer.                               *)

\* Before the writer is on nobody is about to queue a line.
AsyncIInv ==
    /\ atrigger \in Nat /\ line \in [Lines -> {"new", "checked", "async", "sync", "failed"}]
    /\ asyncOn \/ afreed \/ (aqueue = {} /\ \A m \in Lines : line[m] # "checked")
    /\ AsyncTriggerComing

-----------------------------------------------------------------------------
(* The inductive invariant of the socket callback thread.                   *)

ScTypes ==
    /\ squeue \in Seq([sock : Fds, cb : Cbs \cup {NoCb}])
    /\ stable \in [Fds -> Cbs \cup {NoCb}] /\ schcb \in [Fds -> Cbs \cup {NoCb}]
    /\ szero \subseteq Fds
    /\ cbTrig \in Nat /\ ssend \in Nat
    /\ sthr \in {"none", "made", "drain", "time", "poll", "dispatch", "exits", "done"}

\* The thread that is to be made or runs is known to Queue, and it ends after a shutdown only.
ThreadKnown ==
    /\ screate => srunning /\ sthr \in {"none", "done"}
    /\ sthr \in {"made", "drain", "time", "poll", "dispatch", "exits"} => srunning
    /\ sstop => cbShut
    /\ sthr = "exits" => sstop

\* From the drain of the queue to the next poll, a new request has its trigger.
WakeComing ==
    sthr \in {"time", "poll"} /\ (squeue # <<>> \/ (cbShut /\ ~ sstop)) => cbTrig > 0 \/ ssend > 0

\* An entry that lost its events belongs to no callback but one that is queued.
ZeroUnused ==
    \A f \in szero : ~ cbShut => Requests(f) # {} \/ schcb[f] = NoCb

ScIInv == ScTypes /\ ThreadKnown /\ WakeComing /\ ZeroUnused /\ ScRegistered


-----------------------------------------------------------------------------
(* The log writer.                                                          *)

LEMMA AsyncInitInv == AsyncInit => AsyncIInv
BY SMT DEF AsyncInit, AsyncIInv, AsyncTriggerComing

\* Every step of NsAsyncWrite, of AsyncWriterThread and of the threads that
\* turn the writer on and off keeps AsyncIInv.
LEMMA AsyncNextInv == AsyncIInv /\ [AsyncNext]_asyncVars => AsyncIInv'
<1> SUFFICES ASSUME AsyncIInv, [AsyncNext]_asyncVars PROVE AsyncIInv'
  OBVIOUS
<1> USE DEF AsyncIInv, AsyncTriggerComing
<1>1. CASE AsyncEnable
  BY <1>1, SMT DEF AsyncEnable
<1>2. ASSUME NEW shutdown \in BOOLEAN, AsyncDisable(shutdown) PROVE AsyncIInv'
  BY <1>2, SMT DEF AsyncDisable
<1>3. CASE AsyncDisableWaits
  BY <1>3, SMT DEF AsyncDisableWaits
<1>4. CASE AsyncDisabled
  BY <1>4 DEF AsyncDisabled
<1>5. ASSUME NEW m \in Lines, AsyncCheck(m) PROVE AsyncIInv'
  BY <1>5, SMT DEF AsyncCheck
<1>6. ASSUME NEW m \in Lines, AsyncPut(m) PROVE AsyncIInv'
  BY <1>6, SMT DEF AsyncPut
<1>7. CASE AsyncPoll
  BY <1>7, SMT DEF AsyncPoll
<1>8. CASE AsyncDrain \/ AsyncClear
  BY <1>8, SMT DEF AsyncDrain, AsyncClear
<1>9. CASE AsyncWriteLines
  BY <1>9, SMT DEF AsyncWriteLines
<1>10. CASE AsyncAccept
  BY <1>10, SMT DEF AsyncAccept
<1>11. CASE UNCHANGED asyncVars
  BY <1>11, SMT DEF asyncVars
<1> QED
  BY <1>1, <1>2, <1>3, <1>4, <1>5, <1>6, <1>7, <1>8, <1>9, <1>10, <1>11 DEF AsyncNext, AsyncThread

-----------------------------------------------------------------------------
(* The queue of the socket callback thread.                                 *)

\* A set of positions has a last one.
LEMMA LastOf ==
    ASSUME NEW n \in Nat, NEW R \in SUBSET (1 .. n), R # {} PROVE \E i \in R : \A j \in R : j <= i
<1>1. PICK T : T = {m \in Nat : n - m \in R}
  OBVIOUS
<1>2. T \in SUBSET Nat /\ \A i \in R : n - i \in T
  BY <1>1, SMT
<1>3. T # {}
  BY <1>2
<1>4. PICK m \in T : \A k \in T : ~(<<k, m>> \in OpToRel(<, Nat))
  BY <1>2, <1>3, NatLessThanWellFounded, WFMin
<1>5. \A k \in T : ~(k < m)
  BY <1>2, <1>4 DEF OpToRel
<1>6. n - m \in R
  BY <1>1, <1>4
<1>7. ASSUME NEW j \in R PROVE j <= n - m
  <2>1. PICK k : k = n - j
    OBVIOUS
  <2>2. k \in T /\ ~(k < m)
    BY <1>2, <1>5, <2>1
  <2>3. m \in Nat /\ k \in Nat
    BY <1>2, <1>4, <2>2
  <2>4. j \in 1 .. n
    OBVIOUS
  <2> QED
    BY <2>1, <2>2, <2>3, <2>4, SMT
<1> QED
  BY <1>6, <1>7

\* Requests and EntryOf for any queue and any table.
ReqsIn(q, f) == {i \in DOMAIN q : q[i].sock = f}
LastIn(R) == CHOOSE i \in R : \A j \in R : j <= i
EntryIn(q, tab, f) == IF ReqsIn(q, f) = {} THEN tab[f] ELSE q[LastIn(ReqsIn(q, f))].cb

LEMMA EntriesIn ==
    \A f : /\ Requests(f) = ReqsIn(squeue, f) /\ Requests(f)' = ReqsIn(squeue', f)
           /\ EntryOf(f) = EntryIn(squeue, stable, f) /\ EntryOf(f)' = EntryIn(squeue', stable', f)
BY DEF Requests, ReqsIn, EntryOf, EntryIn, LastIn

Appends(S, q, r, p) == q \in Seq(S) /\ r \in S /\ p = Append(q, r)

\* The last request for a socket decides, ...
LEMMA EntryTold ==
    ASSUME NEW S, NEW q, NEW r, NEW p, Appends(S, q, r, p), NEW tab
    PROVE  ReqsIn(p, r.sock) # {} /\ EntryIn(p, tab, r.sock) = r.cb
<1>1. PICK n : n = Len(q)
  OBVIOUS
<1>2. PICK R : R = ReqsIn(p, r.sock)
  OBVIOUS
<1>3. n \in Nat /\ DOMAIN p = 1 .. n + 1 /\ p[n + 1] = r
  BY <1>1, SMT DEF Appends
<1>4. n + 1 \in R /\ R \subseteq 1 .. n + 1
  BY <1>2, <1>3, SMT DEF ReqsIn
<1>5. \A j \in R : j <= n + 1
  BY <1>3, <1>4, SMT
<1>6. PICK k : k = LastIn(R)
  OBVIOUS
<1>7. k \in R /\ n + 1 <= k
  BY <1>4, <1>5, <1>6 DEF LastIn
<1>8. k = n + 1
  BY <1>3, <1>4, <1>7, SMT
<1> QED
  BY <1>2, <1>3, <1>4, <1>6, <1>8 DEF EntryIn

\* ... and a request for another socket does not matter.
LEMMA EntryOther ==
    ASSUME NEW S, NEW q, NEW r, NEW p, Appends(S, q, r, p), NEW tab, NEW g, r.sock # g
    PROVE  ReqsIn(p, g) = ReqsIn(q, g) /\ EntryIn(p, tab, g) = EntryIn(q, tab, g)
<1>1. PICK n : n = Len(q)
  OBVIOUS
<1>2. /\ n \in Nat /\ DOMAIN q = 1 .. n /\ DOMAIN p = 1 .. n + 1
      /\ p[n + 1] = r /\ \A i \in 1 .. n : p[i] = q[i]
  BY <1>1, SMT DEF Appends
<1>3. ReqsIn(p, g) = ReqsIn(q, g)
  BY <1>2, SMT DEF ReqsIn
<1>4. PICK R : R = ReqsIn(q, g)
  OBVIOUS
<1>5. R \in SUBSET (1 .. n)
  BY <1>2, <1>4 DEF ReqsIn
<1>6. R # {} => LastIn(R) \in R
  BY <1>2, <1>5, LastOf DEF LastIn
<1>7. R # {} => p[LastIn(R)] = q[LastIn(R)]
  BY <1>2, <1>5, <1>6
<1> QED
  BY <1>3, <1>4, <1>7 DEF EntryIn

LEMMA EntryEmpty == \A tab, f : EntryIn(<<>>, tab, f) = tab[f] /\ ReqsIn(<<>>, f) = {}
BY SMT DEF EntryIn, ReqsIn

-----------------------------------------------------------------------------
(* The socket callback thread.                                              *)

LEMMA ScInitInv == ScInit => ScIInv
<1> SUFFICES ASSUME ScInit PROVE ScIInv
  OBVIOUS
<1>1. ScTypes
  BY SMT DEF ScInit, ScTypes
<1>2. ThreadKnown /\ WakeComing /\ ZeroUnused /\ ScRegistered
  BY DEF ScInit, ThreadKnown, WakeComing, ZeroUnused, ScRegistered
<1> QED
  BY <1>1, <1>2 DEF ScIInv

\* A request is queued for a socket whose channel has the callback x now: the
\* thread knows of it or will be woken, and the entry will be x.
LEMMA QueueKeeps ==
    ASSUME ScIInv, NEW f \in Fds, NEW x \in Cbs \cup {NoCb}, ~ cbShut, Queue(Reg(f, x)),
           schcb' = [schcb EXCEPT ![f] = x], UNCHANGED <<cbShut, sthr, sstop, cbTrig>>,
           stable' = stable \/ stable' = [stable EXCEPT ![f] = NoCb], szero' \subseteq szero \cup {f}
    PROVE  ScIInv'
<1> USE DEF ScIInv
<1>1. PICK S : S = [sock : Fds, cb : Cbs \cup {NoCb}]
  OBVIOUS
<1>2. PICK r : r = Reg(f, x)
  OBVIOUS
<1>3. r \in S /\ r.sock = f /\ r.cb = x /\ squeue \in Seq(S) /\ squeue' = Append(squeue, r)
  BY <1>1, <1>2, SMT DEF Reg, ScTypes, Queue
<1>4. squeue' \in Seq(S) /\ squeue' # <<>>
  BY <1>3, SMT
<1>5. /\ Requests(f)' # {} /\ EntryOf(f)' = x
      /\ \A g \in Fds \ {f} : Requests(g)' = Requests(g) /\ EntryOf(g)' = EntryOf(g)
  <2>q. PICK q : q = squeue
    OBVIOUS
  <2>p. PICK p : p = squeue'
    OBVIOUS
  <2>o. PICK old : old = stable
    OBVIOUS
  <2>n. PICK new : new = stable'
    OBVIOUS
  <2>0. Appends(S, q, r, p)
    BY <1>3, <2>q, <2>p DEF Appends
  <2>1. ReqsIn(p, f) # {} /\ EntryIn(p, new, f) = x
    <3>1. ReqsIn(p, r.sock) # {} /\ EntryIn(p, new, r.sock) = r.cb
      BY <2>0, EntryTold
    <3> QED
      BY <1>3, <3>1
  <2>2. ASSUME NEW g \in Fds \ {f}
        PROVE  ReqsIn(p, g) = ReqsIn(q, g) /\ EntryIn(p, new, g) = EntryIn(q, old, g)
    <3>1. new[g] = old[g]
      BY <2>o, <2>n DEF ScTypes
    <3>2. EntryIn(p, new, g) = EntryIn(p, old, g)
      BY <3>1 DEF EntryIn
    <3>3. r.sock # g
      BY <1>3
    <3>4. ReqsIn(p, g) = ReqsIn(q, g) /\ EntryIn(p, old, g) = EntryIn(q, old, g)
      BY <2>0, <3>3, EntryOther, SMT
    <3> QED
      BY <3>2, <3>4
  <2> QED
    BY <2>q, <2>p, <2>o, <2>n, <2>1, <2>2, EntriesIn
<1>6. schcb'[f] = x /\ \A g \in Fds \ {f} : schcb'[g] = schcb[g]
  BY DEF ScTypes
<1>7. ssend' \in Nat /\ (srunning /\ squeue = <<>> => ssend' > 0) /\ (ssend > 0 => ssend' > 0)
  BY SMT DEF Queue, ScTypes
<1>8. (srunning => UNCHANGED <<srunning, screate>>) /\ (~ srunning => srunning')
  BY DEF Queue
<1>9. ScTypes'
  <2>1. schcb' \in [Fds -> Cbs \cup {NoCb}] /\ stable' \in [Fds -> Cbs \cup {NoCb}]
    BY SMT DEF ScTypes
  <2> QED
    BY <1>1, <1>4, <1>7, <2>1 DEF ScTypes
<1>10. ThreadKnown'
  <2>1. ~ srunning => sthr \in {"none", "done"}
    BY DEF ThreadKnown, ScTypes
  <2> QED
    BY <1>8, <2>1, SMT DEF ThreadKnown
<1>12. WakeComing'
  BY <1>7, <1>8 DEF ThreadKnown, WakeComing
<1>11. ZeroUnused' /\ ScRegistered'
  BY <1>5, <1>6 DEF ZeroUnused, ScRegistered, ScTypes
<1> QED
  BY <1>9, <1>10, <1>11, <1>12

\* Nothing is queued: entries leave the table whose time is over, whose
\* channel has no callback, or for which a request is queued.
LEMMA RegisteredKept ==
    ASSUME ScIInv, UNCHANGED <<squeue, cbShut>>,
           cbShut \/
             /\ UNCHANGED schcb
             /\ \A g \in Fds : \/ stable'[g] = stable[g]
                               \/ /\ stable'[g] = NoCb
                                  /\ stable[g] \in TimedCbs \/ schcb[g] = NoCb \/ Requests(g) # {}
    PROVE  ScRegistered'
<1> SUFFICES ASSUME NEW g \in Fds, schcb'[g] # NoCb, ~ cbShut'
             PROVE  EntryOf(g)' = schcb'[g] \/ (EntryOf(g)' = NoCb /\ schcb'[g] \in TimedCbs)
  BY DEF ScRegistered
<1>1. EntryOf(g) = schcb[g] \/ (EntryOf(g) = NoCb /\ schcb[g] \in TimedCbs)
  BY DEF ScIInv, ScRegistered
<1>2. CASE stable'[g] = stable[g] \/ Requests(g) # {}
  <2>1. EntryOf(g)' = EntryOf(g)
    BY <1>2, EntriesIn DEF EntryIn
  <2> QED
    BY <1>1, <2>1
<1>3. CASE Requests(g) = {} /\ stable'[g] = NoCb /\ stable[g] \in TimedCbs
  <2>1. EntryOf(g) = stable[g] /\ EntryOf(g)' = NoCb
    BY <1>3, EntriesIn DEF EntryIn
  <2> QED
    BY <1>1, <1>3, <2>1
<1> QED
  BY <1>2, <1>3

\* A step that queues nothing.
LEMMA IdleKeeps ==
    ASSUME ScIInv, Unqueued, UNCHANGED <<cbShut, sthr, sstop, cbTrig>>,
           schcb' \in [Fds -> Cbs \cup {NoCb}], stable' \in [Fds -> Cbs \cup {NoCb}], szero' \subseteq Fds,
           cbShut \/
             /\ UNCHANGED schcb
             /\ \A g \in Fds : \/ stable'[g] = stable[g]
                               \/ stable'[g] = NoCb /\ (stable[g] \in TimedCbs \/ schcb[g] = NoCb)
             /\ \A g \in szero' : g \in szero \/ schcb[g] = NoCb
    PROVE  ScIInv'
<1> USE DEF ScIInv, Unqueued
<1>1. ScTypes' /\ ThreadKnown' /\ WakeComing'
  BY DEF ScTypes, ThreadKnown, WakeComing
<1>2. ScRegistered'
  BY RegisteredKept
<1>3. ZeroUnused'
  BY EntriesIn DEF ZeroUnused
<1> QED
  BY <1>1, <1>2, <1>3

\* ConnChanFree and CallbackFree: the callback of the channel is gone, and a
\* cancellation is queued unless the thread is to stop.
LEMMA FreeKeeps ==
    ASSUME ScIInv, NEW f \in Fds, ConnChanFree(f) \/ CallbackFree(f), UNCHANGED <<cbShut, sthr, sstop, cbTrig>>,
           stable' = stable \/ stable' = [stable EXCEPT ![f] = NoCb], szero' \subseteq szero \cup {f}
    PROVE  ScIInv'
<1>1. schcb \in [Fds -> Cbs \cup {NoCb}] /\ stable' \in [Fds -> Cbs \cup {NoCb}] /\ szero' \subseteq Fds
  BY SMT DEF ScIInv, ScTypes
<1>2. \A g \in Fds \ {f} : stable'[g] = stable[g]
  BY DEF ScIInv, ScTypes
<1>3. stable'[f] = stable[f] \/ stable'[f] = NoCb
  BY DEF ScIInv, ScTypes
<1>4. CASE schcb[f] = NoCb
  <2>1. Unqueued
    BY <1>4 DEF ConnChanFree, CallbackFree
  <2>2. UNCHANGED schcb
    BY <1>1, <1>4, SMT DEF ConnChanFree, CallbackFree
  <2> QED
    BY <1>1, <1>2, <1>3, <1>4, <2>1, <2>2, IdleKeeps
<1>5. CASE schcb[f] # NoCb
  <2>1. schcb' = [schcb EXCEPT ![f] = NoCb]
    BY <1>5 DEF ConnChanFree, CallbackFree
  <2>2. CASE cbShut
    <3>1. Unqueued
      BY <1>5, <2>2 DEF ConnChanFree, CallbackFree
    <3>2. schcb' \in [Fds -> Cbs \cup {NoCb}]
      BY <1>1, <2>1, SMT
    <3> QED
      BY <1>1, <2>2, <3>1, <3>2, IdleKeeps
  <2>3. CASE ~ cbShut
    <3>1. Queue(Reg(f, NoCb))
      BY <1>5, <2>3 DEF ConnChanFree, CallbackFree, Cancel
    <3> QED
      BY <2>1, <2>3, <3>1, QueueKeeps
  <2> QED
    BY <2>2, <2>3
<1> QED
  BY <1>4, <1>5

\* ThreadDrain: the table takes over what the queue says, and the flag of the
\* shutdown is read under the same lock.
LEMMA DrainKeeps == ASSUME ScIInv, ThreadDrain PROVE ScIInv'
<1> USE DEF ScIInv, ThreadDrain
<1>1. \A f \in Fds : EntryOf(f) \in Cbs \cup {NoCb}
  <2> SUFFICES ASSUME NEW f \in Fds PROVE EntryOf(f) \in Cbs \cup {NoCb}
    OBVIOUS
  <2>1. CASE Requests(f) = {}
    BY <2>1 DEF EntryOf, ScTypes
  <2>2. CASE Requests(f) # {}
    <3>1. PICK n : n = Len(squeue)
      OBVIOUS
    <3>7. PICK S : S = [sock : Fds, cb : Cbs \cup {NoCb}]
      OBVIOUS
    <3>8. squeue \in Seq(S)
      BY <3>7 DEF ScTypes
    <3>9. n \in Nat /\ DOMAIN squeue = 1 .. n /\ \A i \in 1 .. n : squeue[i] \in S
      BY <3>1, <3>8, SMT
    <3>10. \A r \in S : r.cb \in Cbs \cup {NoCb}
      BY <3>7, SMT
    <3>2. n \in Nat /\ DOMAIN squeue = 1 .. n /\ \A i \in 1 .. n : squeue[i].cb \in Cbs \cup {NoCb}
      BY <3>9, <3>10
    <3>3. PICK R : R = Requests(f)
      OBVIOUS
    <3>4. R \in SUBSET (1 .. n)
      BY <3>2, <3>3 DEF Requests
    <3>5. LastIn(R) \in R
      BY <2>2, <3>2, <3>3, <3>4, LastOf DEF LastIn
    <3>6. EntryOf(f) = squeue[LastIn(R)].cb
      BY <2>2, <3>3 DEF EntryOf, LastIn
    <3> QED
      BY <3>2, <3>4, <3>5, <3>6
  <2> QED
    BY <2>1, <2>2
<1>2. ScTypes'
  <2>1. stable' \in [Fds -> Cbs \cup {NoCb}] /\ szero' \subseteq Fds
    BY <1>1 DEF ScTypes
  <2>2. squeue' \in Seq([sock : Fds, cb : Cbs \cup {NoCb}])
    BY SMT
  <2> QED
    BY <2>1, <2>2 DEF ScTypes, scVars
<1>3. ThreadKnown' /\ WakeComing'
  BY DEF ThreadKnown, WakeComing, scVars
<1>4. \A f \in Fds : Requests(f)' = {} /\ EntryOf(f)' = EntryOf(f)
  <2>1. squeue' = <<>> /\ \A f \in Fds : stable'[f] = EntryOf(f)
    OBVIOUS
  <2> QED
    BY <2>1, EntriesIn, EntryEmpty
<1>5. ScRegistered'
  BY <1>4 DEF ScRegistered, scVars
<1>6. ZeroUnused'
  BY <1>4 DEF ZeroUnused, scVars, ScTypes
<1> QED
  BY <1>2, <1>3, <1>5, <1>6

\* ThreadPrepare: entries without events leave the table.
LEMMA PrepareKeeps == ASSUME ScIInv, ThreadPrepare PROVE ScIInv'
<1> USE DEF ScIInv
<1>1. stable' \in [Fds -> Cbs \cup {NoCb}] /\ \A f \in Fds : stable'[f] = IF f \in szero THEN NoCb ELSE stable[f]
  BY SMT DEF ThreadPrepare, ScTypes
<1>2. UNCHANGED <<squeue, schcb, cbShut, srunning, screate, sstop, cbTrig, ssend>> /\ szero' = {} /\ sthr = "time"
  BY DEF ThreadPrepare, scVars
<1>3. (sstop => sthr' = "exits") /\ (~ sstop => sthr' = "poll")
  BY DEF ThreadPrepare
<1>4. ScTypes'
  BY <1>1, <1>2, <1>3 DEF ScTypes
<1>5. ThreadKnown' /\ WakeComing'
  BY <1>2, <1>3 DEF ThreadKnown, WakeComing
<1>6. ScRegistered'
  BY <1>1, <1>2, RegisteredKept DEF ZeroUnused
<1>7. ZeroUnused'
  BY <1>2 DEF ZeroUnused
<1> QED
  BY <1>4, <1>5, <1>6, <1>7

\* A step that changes neither the table nor the queue, nor what a channel was told.
LEMMA MoveKeeps ==
    ASSUME ScIInv, UNCHANGED <<squeue, stable, schcb, szero>>, cbShut => cbShut', ScTypes', ThreadKnown', WakeComing'
    PROVE  ScIInv'
<1>1. \A f : Requests(f)' = Requests(f) /\ EntryOf(f)' = EntryOf(f)
  BY EntriesIn
<1>2. ScRegistered' /\ ZeroUnused'
  BY <1>1 DEF ScIInv, ScRegistered, ZeroUnused
<1> QED
  BY <1>2 DEF ScIInv

\* What the thread's callback does to the channel and the queue keeps ScIInv.
LEMMA DispatchKeeps ==
    ASSUME ScIInv, NEW f \in Fds, NEW e \in {"r", "w"}, ThreadDispatch(f, e) PROVE ScIInv'
<1>1. UNCHANGED <<cbShut, sthr, sstop, cbTrig, stable>>
  BY DEF ThreadDispatch
<1>2. CASE Calm /\ UNCHANGED szero
  <2>1. Unqueued /\ UNCHANGED schcb
    BY <1>2 DEF Calm, scVars
  <2> QED
    BY <1>1, <1>2, <2>1, IdleKeeps DEF ScIInv, ScTypes
<1>3. CASE (ConnChanFree(f) \/ CallbackFree(f)) /\ szero' \subseteq szero \cup {f}
  BY <1>1, <1>3, FreeKeeps
<1> QED
  BY <1>2, <1>3 DEF ThreadDispatch, ConnChanProc

\* Every step of the threads that register callbacks and of SockCallbackThread
\* keeps ScIInv.
LEMMA ScNextInv == ScIInv /\ [ScNext]_sockcbVars => ScIInv'
<1> SUFFICES ASSUME ScIInv, [ScNext]_sockcbVars PROVE ScIInv'
  OBVIOUS
<1>t. ScTypes /\ ThreadKnown /\ WakeComing
  BY DEF ScIInv
<1>1. ASSUME NEW f \in Fds, ChanDetach(f) PROVE ScIInv'
  BY <1>1, <1>t, IdleKeeps DEF ChanDetach, stVars, Unqueued, ScTypes
<1>2. ASSUME NEW f \in Fds, ChanClose(f) PROVE ScIInv'
  BY <1>2, FreeKeeps DEF ChanClose, stVars
<1>3. ASSUME NEW f \in Fds, ChanCallback(f) PROVE ScIInv'
  BY <1>3, FreeKeeps DEF ChanCallback, stVars
<1>4. ASSUME NEW f \in Fds, NEW cb \in Cbs, ChanRegister(f, cb) PROVE ScIInv'
  <2>1. CASE cbShut
    BY <1>4, <1>t, <2>1, IdleKeeps DEF ChanRegister, stVars, ScTypes
  <2>2. CASE ~ cbShut
    BY <1>4, <2>2, QueueKeeps DEF ChanRegister, stVars
  <2> QED
    BY <2>1, <2>2
<1>5. ASSUME NEW f \in Fds, ThreadTimeout(f) PROVE ScIInv'
  <2>1. UNCHANGED <<cbShut, sthr, sstop, cbTrig>> /\ stable[f] \in TimedCbs
    BY <1>5 DEF ThreadTimeout
  <2>2. stable' = [stable EXCEPT ![f] = NoCb] /\ szero' \subseteq szero
    BY <1>5 DEF ThreadTimeout
  <2>3. CASE Calm
    <3>1. Unqueued /\ UNCHANGED schcb
      BY <2>3 DEF Calm, scVars
    <3>2. stable' \in [Fds -> Cbs \cup {NoCb}] /\ stable'[f] = NoCb /\ \A g \in Fds \ {f} : stable'[g] = stable[g]
      BY <1>t, <2>2, SMT DEF ScTypes
    <3> QED
      BY <1>t, <2>1, <2>2, <3>1, <3>2, IdleKeeps DEF ScTypes
  <2>4. CASE ConnChanFree(f)
    BY <2>1, <2>2, <2>4, FreeKeeps
  <2> QED
    BY <1>5, <2>3, <2>4 DEF ThreadTimeout
<1>6. ASSUME NEW events \in SUBSET (Fds \X {"r", "w"}), ThreadPoll(events) PROVE ScIInv'
  <2>1. ScTypes'
    BY <1>6, <1>t, SMT DEF ThreadPoll, ScTypes, scVars
  <2>2. ThreadKnown' /\ WakeComing'
    BY <1>6, <1>t DEF ThreadPoll, ThreadKnown, WakeComing
  <2> QED
    BY <1>6, <2>1, <2>2, MoveKeeps DEF ThreadPoll, scVars
<1>7. CASE CallbackTrigger
  <2>1. ScTypes' /\ cbTrig' > 0
    BY <1>7, <1>t, SMT DEF CallbackTrigger, ScTypes, scVars, stVars
  <2>2. ThreadKnown' /\ WakeComing'
    BY <1>7, <1>t, <2>1 DEF CallbackTrigger, ThreadKnown, WakeComing, stVars
  <2> QED
    BY <1>7, <2>1, <2>2, MoveKeeps DEF CallbackTrigger, scVars, stVars
<1>8. CASE SockCreate
  <2>1. ScTypes' /\ ThreadKnown' /\ WakeComing'
    BY <1>8, <1>t DEF SockCreate, ThreadKnown, WakeComing, ScTypes, scVars
  <2> QED
    BY <1>8, <2>1, MoveKeeps DEF SockCreate, scVars
<1>9. CASE NsStartSockShutdown
  <2>1. ScTypes' /\ cbTrig' > 0
    BY <1>9, <1>t, SMT DEF NsStartSockShutdown, ScTypes, scVars, stVars
  <2>2. ThreadKnown' /\ WakeComing'
    BY <1>9, <1>t, <2>1 DEF NsStartSockShutdown, ThreadKnown, WakeComing, stVars
  <2> QED
    BY <1>9, <2>1, <2>2, MoveKeeps DEF NsStartSockShutdown, scVars, stVars
<1>10. CASE ThreadAgain
  <2>1. ScTypes' /\ ThreadKnown' /\ WakeComing'
    BY <1>10, <1>t DEF ThreadAgain, ThreadKnown, WakeComing, ScTypes, scVars
  <2> QED
    BY <1>10, <2>1, MoveKeeps DEF ThreadAgain, scVars
<1>11. CASE ThreadExit
  <2>1. cbShut /\ UNCHANGED <<squeue, schcb, szero, cbShut>> /\ stable' \in [Fds -> Cbs \cup {NoCb}]
    BY <1>11, <1>t DEF ThreadExit, ThreadKnown, scVars
  <2>4. ~ screate
    BY <1>11, <1>t DEF ThreadExit, ThreadKnown
  <2>5. ScTypes'
    BY <1>11, <1>t, <2>1 DEF ThreadExit, ScTypes
  <2>6. sthr' = "done" /\ UNCHANGED <<screate, sstop, cbShut>>
    BY <1>11 DEF ThreadExit
  <2>7. ThreadKnown' /\ WakeComing'
    BY <1>t, <2>4, <2>6 DEF ThreadKnown, WakeComing
  <2>3. ScRegistered' /\ ZeroUnused'
    BY <2>1 DEF ScRegistered, ZeroUnused
  <2> QED
    BY <2>3, <2>5, <2>7 DEF ScIInv
<1>12. ASSUME NEW f \in Fds, ThreadExitCall(f) PROVE ScIInv'
  <2>1. UNCHANGED <<cbShut, sthr, sstop, cbTrig, stable, szero>>
    BY <1>12 DEF ThreadExitCall
  <2>2. CASE Calm
    <3>1. Unqueued /\ UNCHANGED schcb
      BY <2>2 DEF Calm, scVars
    <3> QED
      BY <1>t, <2>1, <3>1, IdleKeeps DEF ScTypes
  <2>3. CASE ConnChanFree(f)
    BY <2>1, <2>3, FreeKeeps
  <2> QED
    BY <1>12, <2>2, <2>3 DEF ThreadExitCall
<1>13. CASE UNCHANGED sockcbVars
  <2>1. ScTypes' /\ ThreadKnown' /\ WakeComing'
    BY <1>13, <1>t DEF sockcbVars, ThreadKnown, WakeComing, ScTypes, scVars, stVars
  <2> QED
    BY <1>13, <2>1, MoveKeeps DEF sockcbVars, scVars, stVars
<1>14. CASE SockThread
  <2>1. CASE cbTrig > 0 /\ ThreadPoll({})
    <3>1. {} \in SUBSET (Fds \X {"r", "w"})
      OBVIOUS
    <3> QED
      BY <1>6, <2>1, <3>1
  <2> QED
    BY <1>10, <1>11, <1>12, <1>14, <2>1, DrainKeeps, PrepareKeeps, DispatchKeeps DEF SockThread
<1> QED
  BY <1>1, <1>2, <1>3, <1>4, <1>5, <1>6, <1>7, <1>8, <1>9, <1>13, <1>14 DEF ScNext

-----------------------------------------------------------------------------
(* The writer threads.                                                      *)

LEMMA WriterInitInv == WriterInit => WriterIInv
<1> SUFFICES ASSUME WriterInit PROVE WriterIInv
  OBVIOUS
<1> USE DEF WriterInit
<1>1. WriterTypes
  BY SMT DEF WriterTypes, JobStates
<1>2. \A w \in WJobs : refCount[w] = 0 /\ ~ Held(w) /\ ~ Appended(w)
  BY WriterAssumption DEF Held, Appended
<1>3. RefsCounted
  BY <1>2, SMT DEF RefsCounted
<1>4. JobLinks /\ ConnLinks /\ WriterLinkKept
  BY DEF JobLinks, ConnLinks, LinkOwned, Appending, AppOwned, RunsFresh, OthersFreed, WriterLinkKept
<1> QED
  BY <1>1, <1>3, <1>4 DEF WriterIInv

\* Nothing of what the invariant speaks of changes but the jobs to be served.
LEMMA WriterFrame ==
    ASSUME WriterIInv, UNCHANGED <<strWriter, strFd, wapp, wconn, wcur, doStream, wown, refCount>>,
           wtodo' \subseteq wtodo \cup InState("listed")
    PROVE  WriterIInv'
<1> USE DEF WriterIInv
<1>1. WriterTypes' /\ WriterLinkKept'
  BY DEF WriterTypes, WriterLinkKept
<1>2. JobLinks'
  BY DEF JobLinks, InState
<1>3. RefsCounted'
  BY DEF RefsCounted, Held, Appended
<1>4. LinkOwned' /\ Appending'
  BY DEF ConnLinks, LinkOwned, Appending
<1>5. AppOwned' /\ RunsFresh'
  BY DEF ConnLinks, AppOwned, RunsFresh
<1>6. OthersFreed'
  BY DEF ConnLinks, OthersFreed
<1> QED
  BY <1>1, <1>2, <1>3, <1>4, <1>5, <1>6 DEF ConnLinks

\* WConnRun and WriterAppend: only the place of the connection changes.
LEMMA ConnMoves ==
    ASSUME WriterIInv, NEW c \in WConns, NEW p \in {"run", "appended"},
           wconn' = [wconn EXCEPT ![c] = p], UNCHANGED <<strWriter, strFd, wapp, wcur, doStream, wown, refCount, wtodo>>,
           p = "run" => wconn[c] = "idle" /\ \A w \in WJobs : wown[w] = c => wcur[w] = "freed",
           p = "appended" => wconn[c] = "append"
    PROVE  WriterIInv'
<1> USE DEF WriterIInv
<1>1. wconn'[c] = p /\ \A d \in WConns \ {c} : wconn'[d] = wconn[d]
  BY DEF WriterTypes
<1>2. WriterTypes'
  BY SMT DEF WriterTypes
<1>3. WriterLinkKept' /\ JobLinks'
  BY DEF JobLinks, WriterLinkKept
<1>4. RefsCounted'
  BY DEF RefsCounted, Held, Appended
<1>5. Appending'
  BY <1>1 DEF ConnLinks, Appending
<1>6. LinkOwned' /\ AppOwned'
  BY DEF ConnLinks, LinkOwned, AppOwned
<1>7. RunsFresh'
  BY <1>1 DEF ConnLinks, RunsFresh
<1>8. OthersFreed'
  BY DEF ConnLinks, OthersFreed
<1> QED
  BY <1>2, <1>3, <1>4, <1>5, <1>6, <1>7, <1>8 DEF ConnLinks

\* The tail of NsWriterQueue: a new job and the first reference to it.
LEMMA EnqueueRefs ==
    ASSUME WriterIInv, NEW w \in WJobs, wcur[w] = "new", UNCHANGED wapp,
           wcur' = [wcur EXCEPT ![w] = "queued"], refCount' = [refCount EXCEPT ![w] = 1]
    PROVE  /\ wcur'[w] = "queued" /\ \A v \in WJobs \ {w} : wcur'[v] = wcur[v]
           /\ ~ Appended(w)
           /\ RefsCounted'
<1> USE DEF WriterIInv
<1>1. wcur'[w] = "queued" /\ refCount'[w] = 1
  BY DEF WriterTypes
<1>2. \A v \in WJobs \ {w} : wcur'[v] = wcur[v] /\ refCount'[v] = refCount[v]
  BY DEF WriterTypes
<1>3. ~ Appended(w)
  <2> SUFFICES ASSUME NEW c \in WConns, wapp[c] = w PROVE FALSE
    BY DEF Appended
  <2>1. wown[w] = NoJob /\ w # NoJob /\ c # NoJob
    BY WriterAssumption DEF JobLinks
  <2>2. wown[w] = c
    BY <2>1 DEF ConnLinks, AppOwned
  <2> QED
    BY <2>1, <2>2
<1>4. Held(w)' /\ ~ Appended(w)'
  BY <1>1, <1>3 DEF Held, Appended
<1>5. \A v \in WJobs \ {w} : (Held(v)' <=> Held(v)) /\ (Appended(v)' <=> Appended(v))
  BY <1>2 DEF Held, Appended
<1>6. RefsCounted'
  BY <1>1, <1>2, <1>4, <1>5, SMT DEF RefsCounted
<1> QED
  BY <1>1, <1>2, <1>3, <1>6

LEMMA FileKeeps ==
    ASSUME WriterIInv, NEW c \in WConns, NEW w \in WJobs, NEW n, NEW h, WriterFile(c, w, n, h)
    PROVE  WriterIInv'
<1> USE DEF WriterIInv
<1>1. wconn[c] = "run" /\ wconn'[c] = "sent" /\ \A d \in WConns \ {c} : wconn'[d] = wconn[d]
  BY DEF WriterTypes, WriterFile
<1>2. wcur'[w] = "queued" /\ (\A v \in WJobs \ {w} : wcur'[v] = wcur[v]) /\ RefsCounted'
  BY EnqueueRefs DEF WriterFile, Enqueue
<1>3. wcur[w] = "new" /\ doStream[w] = "no" /\ wown[w] = NoJob
  BY DEF WriterFile, JobLinks
<1>4. doStream' = doStream
  BY <1>3, SMT DEF WriterFile, WriterTypes
<1>5. UNCHANGED <<strWriter, strFd, wapp, wown, wtodo>>
  BY DEF WriterFile, Enqueue
<1>6. WriterTypes'
  BY <1>4, <1>5, SMT DEF WriterTypes, WriterFile, Enqueue, JobStates
<1>7. JobLinks'
  BY <1>2, <1>3, <1>4, <1>5 DEF JobLinks
<1>8. WriterLinkKept'
  BY <1>2, <1>3, <1>4, <1>5 DEF WriterLinkKept
<1>9. LinkOwned' /\ AppOwned'
  BY <1>5 DEF ConnLinks, LinkOwned, AppOwned
<1>10. Appending'
  BY <1>1, <1>5 DEF ConnLinks, Appending
<1>11. RunsFresh'
  BY <1>1, <1>2, <1>3, <1>5, WriterAssumption DEF ConnLinks, RunsFresh
<1>12. OthersFreed'
  BY <1>2, <1>3, <1>5, WriterAssumption DEF ConnLinks, OthersFreed
<1> QED
  BY <1>2, <1>6, <1>7, <1>8, <1>9, <1>10, <1>11, <1>12 DEF ConnLinks

LEMMA StreamKeeps ==
    ASSUME WriterIInv, NEW c \in WConns, NEW w \in WJobs, NEW n, WriterStream(c, w, n)
    PROVE  WriterIInv'
<1> USE DEF WriterIInv
<1>1. wconn[c] = "run" /\ ~ strFd[c] /\ strWriter[c] = NoJob /\ wapp[c] = NoJob
  BY DEF WriterStream, ConnLinks, LinkOwned, Appending
<1>2. wcur'[w] = "queued" /\ (\A v \in WJobs \ {w} : wcur'[v] = wcur[v]) /\ ~ Appended(w) /\ RefsCounted'
  BY EnqueueRefs DEF WriterStream, Enqueue
<1>3. wcur[w] = "new" /\ doStream[w] = "no" /\ wown[w] = NoJob
  BY DEF WriterStream, JobLinks
<1>4. strFd'[c] /\ strWriter'[c] = w /\ \A d \in WConns \ {c} : strFd'[d] = strFd[d] /\ strWriter'[d] = strWriter[d]
  BY DEF WriterStream, WriterTypes
<1>5. wown'[w] = c /\ doStream'[w] = "active" /\ \A v \in WJobs \ {w} : wown'[v] = wown[v] /\ doStream'[v] = doStream[v]
  BY DEF WriterStream, WriterTypes
<1>6. UNCHANGED <<wconn, wapp, wtodo>>
  BY DEF WriterStream, Enqueue
<1>7. WriterTypes'
  <2>1. strFd' \in [WConns -> BOOLEAN]
    BY DEF WriterStream, WriterTypes
  <2> QED
    BY <1>6, <2>1, SMT DEF WriterTypes, WriterStream, Enqueue, JobStates
<1>8. JobLinks'
  BY <1>2, <1>3, <1>5, <1>6 DEF JobLinks
<1>9. \A v \in WJobs : wown[v] = c => wcur[v] = "freed"
  BY <1>1 DEF ConnLinks, RunsFresh
<1>10. WriterLinkKept'
  <2> SUFFICES ASSUME NEW v \in WJobs, wcur'[v] \in {"queued", "listed"}, doStream'[v] = "active"
               PROVE  strWriter'[wown'[v]] = v
    BY DEF WriterLinkKept
  <2>1. CASE v = w
    BY <2>1, <1>4, <1>5
  <2>2. CASE v # w
    <3>1. wcur[v] \in {"queued", "listed"} /\ doStream[v] = "active" /\ wown'[v] = wown[v]
      BY <2>2, <1>2, <1>5
    <3>2. strWriter[wown[v]] = v /\ wown[v] \in WConns
      BY <3>1 DEF WriterLinkKept, JobLinks
    <3>3. wown[v] # c
      BY <3>1, <1>9
    <3> QED
      BY <3>1, <3>2, <3>3, <1>4
  <2> QED
    BY <2>1, <2>2
<1>11. LinkOwned'
  <2> SUFFICES ASSUME NEW d \in WConns, strWriter'[d] # NoJob
               PROVE  wown'[strWriter'[d]] = d /\ strFd'[d]
    BY DEF LinkOwned
  <2>1. CASE d = c
    BY <2>1, <1>4, <1>5
  <2>2. CASE d # c
    <3>1. strWriter'[d] = strWriter[d] /\ strFd'[d] = strFd[d] /\ strWriter[d] \in WJobs
      BY <2>2, <1>4 DEF WriterTypes
    <3>2. wown[strWriter[d]] = d /\ strFd[d]
      BY <3>1 DEF ConnLinks, LinkOwned
    <3>3. strWriter[d] # w
      BY <3>2, <1>3, WriterAssumption
    <3> QED
      BY <3>1, <3>2, <3>3, <1>5
  <2> QED
    BY <2>1, <2>2
<1>12. Appending'
  BY <1>6 DEF ConnLinks, Appending
<1>13. AppOwned'
  <2> SUFFICES ASSUME NEW d \in WConns, wapp[d] # NoJob
               PROVE  wown'[wapp[d]] = d /\ strFd'[d] /\ strWriter'[d] \in {wapp[d], NoJob}
    BY <1>6 DEF AppOwned
  <2>1. d # c /\ wapp[d] \in WJobs /\ wapp[d] # w
    BY <1>1, <1>2 DEF WriterTypes, Appended
  <2>2. wown[wapp[d]] = d /\ strFd[d] /\ strWriter[d] \in {wapp[d], NoJob}
    BY DEF ConnLinks, AppOwned
  <2> QED
    BY <2>1, <2>2, <1>4, <1>5
<1>14. RunsFresh'
  <2> SUFFICES ASSUME NEW d \in WConns, NEW v \in WJobs, wown'[v] = d, wconn[d] = "run", ~ strFd'[d]
               PROVE  wcur'[v] = "freed"
    BY <1>6 DEF RunsFresh
  <2>1. d # c /\ v # w
    BY <1>4, <1>5
  <2>2. wown[v] = d /\ ~ strFd[d] /\ wcur'[v] = wcur[v]
    BY <2>1, <1>2, <1>4, <1>5
  <2> QED
    BY <2>2 DEF ConnLinks, RunsFresh
<1>15. OthersFreed'
  <2> SUFFICES ASSUME NEW d \in WConns, NEW v \in WJobs, wown'[v] = d, strWriter'[d] # NoJob, v # strWriter'[d]
               PROVE  wcur'[v] = "freed"
    BY DEF OthersFreed
  <2>1. v # w
    BY <1>4, <1>5
  <2>2. wown[v] = d /\ wcur'[v] = wcur[v]
    BY <2>1, <1>2, <1>5
  <2>3. CASE d = c
    BY <2>2, <2>3, <1>9
  <2>4. CASE d # c
    BY <2>2, <2>4, <1>4 DEF ConnLinks, OthersFreed
  <2> QED
    BY <2>3, <2>4
<1> QED
  BY <1>2, <1>7, <1>8, <1>10, <1>11, <1>12, <1>13, <1>14, <1>15 DEF ConnLinks

\* WriterSockRequire: the thread that appends holds a reference of its own.
LEMMA RequireKeeps ==
    ASSUME WriterIInv, NEW c \in WConns, WriterSockRequire(c), strWriter[c] # NoJob
    PROVE  WriterIInv'
<1> USE DEF WriterIInv
<1>1. PICK w : w = strWriter[c]
  OBVIOUS
<1>2. w \in WJobs /\ wown[w] = c /\ strFd[c] /\ w # NoJob
  BY <1>1 DEF WriterTypes, ConnLinks, LinkOwned
<1>3. wconn[c] = "run" /\ wapp[c] = NoJob
  BY DEF WriterSockRequire, ConnLinks, Appending
<1>4. UNCHANGED <<strWriter, strFd, wcur, doStream, wown, wtodo>>
  BY DEF WriterSockRequire, wtVars
<1>5. wapp'[c] = w /\ wconn'[c] = "append" /\ \A d \in WConns \ {c} : wapp'[d] = wapp[d] /\ wconn'[d] = wconn[d]
  <2>1. wapp' = [wapp EXCEPT ![c] = w] /\ wconn' = [wconn EXCEPT ![c] = "append"]
    BY <1>1 DEF WriterSockRequire
  <2> QED
    BY <2>1 DEF WriterTypes
<1>6. refCount'[w] = refCount[w] + 1 /\ \A v \in WJobs \ {w} : refCount'[v] = refCount[v]
  <2>1. refCount' = [refCount EXCEPT ![w] = @ + 1]
    BY <1>1 DEF WriterSockRequire
  <2> QED
    BY <1>2, <2>1 DEF WriterTypes
<1>7. WriterTypes'
  BY <1>1, <1>2, <1>4, SMT DEF WriterTypes, WriterSockRequire
<1>8. ~ Appended(w)
  BY <1>2, <1>3 DEF Appended, ConnLinks, AppOwned
<1>9. Appended(w)' /\ \A v \in WJobs \ {w} : Appended(v)' <=> Appended(v)
  <2>1. Appended(w)'
    BY <1>5 DEF Appended
  <2>2. ASSUME NEW v \in WJobs \ {w}, Appended(v)' PROVE Appended(v)
    BY <2>2, <1>5 DEF Appended
  <2>3. ASSUME NEW v \in WJobs \ {w}, Appended(v) PROVE Appended(v)'
    <3>1. PICK d \in WConns : wapp[d] = v
      BY <2>3 DEF Appended
    <3>2. d # c
      BY <3>1, <1>3, WriterAssumption
    <3> QED
      BY <3>1, <3>2, <1>5 DEF Appended
  <2> QED
    BY <2>1, <2>2, <2>3
<1>10. \A v \in WJobs : Held(v)' <=> Held(v)
  BY <1>4 DEF Held
<1>11. RefsCounted'
  BY <1>2, <1>6, <1>8, <1>9, <1>10, SMT DEF RefsCounted, WriterTypes
<1>12. JobLinks' /\ WriterLinkKept'
  BY <1>4 DEF JobLinks, WriterLinkKept
<1>13. LinkOwned' /\ OthersFreed'
  BY <1>4 DEF ConnLinks, LinkOwned, OthersFreed
<1>14. Appending'
  BY <1>2, <1>5 DEF ConnLinks, Appending
<1>15. AppOwned'
  BY <1>1, <1>2, <1>4, <1>5 DEF ConnLinks, AppOwned
<1>16. RunsFresh'
  BY <1>4, <1>5 DEF ConnLinks, RunsFresh
<1> QED
  BY <1>7, <1>11, <1>12, <1>13, <1>14, <1>15, <1>16 DEF ConnLinks

\* WriterSockRelease: what a release leaves of the job and of the link.  No
\* other job that the writer holds loses its link, as it is the only one of
\* its connection.
LEMMA ReleaseLinks ==
    ASSUME WriterIInv, NEW w \in WJobs,
           wcur' \in [WJobs -> JobStates], wcur'[w] \notin {"new", "queued", "listed"},
           \A v \in WJobs \ {w} : wcur'[v] = wcur[v],
           UNCHANGED strWriter \/ LinkCleared(w),
           wcur[w] # "freed" \/ strWriter[wown[w]] \in {w, NoJob},
           UNCHANGED <<strFd, doStream, wown>>
    PROVE  /\ strWriter' \in [WConns -> WJobs \cup {NoJob}]
           /\ \A c \in WConns : strWriter'[c] \in {strWriter[c], NoJob}
           /\ WriterLinkKept' /\ LinkOwned' /\ OthersFreed'
<1> USE DEF WriterIInv
<1>1. UNCHANGED strWriter \/ (wown[w] \in WConns /\ strWriter' = [strWriter EXCEPT ![wown[w]] = NoJob])
  BY DEF LinkCleared, JobLinks
<1>2. strWriter' \in [WConns -> WJobs \cup {NoJob}]
  BY <1>1, SMT DEF WriterTypes
<1>3. \A c \in WConns : strWriter'[c] = strWriter[c] \/ (c = wown[w] /\ strWriter'[c] = NoJob)
  BY <1>1 DEF WriterTypes
<1>4. WriterLinkKept'
  <2> SUFFICES ASSUME NEW v \in WJobs, wcur'[v] \in {"queued", "listed"}, doStream[v] = "active"
               PROVE  strWriter'[wown[v]] = v
    BY DEF WriterLinkKept
  <2>1. v # w
    OBVIOUS
  <2>2. wcur[v] \in {"queued", "listed"}
    BY <2>1
  <2>3. strWriter[wown[v]] = v /\ wown[v] \in WConns /\ v # NoJob
    BY <2>2, WriterAssumption DEF WriterLinkKept, JobLinks
  <2>4. CASE UNCHANGED strWriter
    BY <2>3, <2>4
  <2>5. CASE wown[w] \in WConns
    <3>0. strWriter[wown[w]] \in {w, NoJob}
      BY <2>5 DEF ConnLinks, OthersFreed
    <3>1. wown[v] # wown[w]
      BY <2>1, <2>3, <3>0
    <3> QED
      BY <3>1, <2>3, <1>3
  <2> QED
    BY <2>4, <2>5, <1>1
<1>5. LinkOwned'
  BY <1>3 DEF ConnLinks, LinkOwned
<1>6. OthersFreed'
  <2> SUFFICES ASSUME NEW d \in WConns, NEW v \in WJobs, wown[v] = d, strWriter'[d] # NoJob, v # strWriter'[d]
               PROVE  wcur'[v] = "freed"
    BY DEF OthersFreed
  <2>1. strWriter'[d] = strWriter[d]
    BY <1>3
  <2>2. wcur[v] = "freed"
    BY <2>1 DEF ConnLinks, OthersFreed
  <2>3. v # w
    BY <2>1, <2>2
  <2> QED
    BY <2>2, <2>3
<1> QED
  BY <1>2, <1>3, <1>4, <1>5, <1>6

\* A release of the thread that appends leaves one reference less.
LEMMA AppendedKeeps ==
    ASSUME WriterIInv, NEW c \in WConns, WriterAppended(c)
    PROVE  WriterIInv'
<1> USE DEF WriterIInv
<1>1. PICK w : w = wapp[c]
  OBVIOUS
<1>2. w \in WJobs /\ wown[w] = c /\ strFd[c] /\ strWriter[c] \in {w, NoJob} /\ w # NoJob
  <2>1. w # NoJob
    BY <1>1 DEF WriterAppended, ConnLinks, Appending
  <2> QED
    BY <1>1, <2>1, ZenonT(30) DEF WriterTypes, ConnLinks, AppOwned
<1>3. UNCHANGED <<strFd, doStream, wown, wtodo>>
  BY DEF WriterAppended
<1>4. wapp'[c] = NoJob /\ wconn'[c] = "run" /\ \A d \in WConns \ {c} : wapp'[d] = wapp[d] /\ wconn'[d] = wconn[d]
  BY DEF WriterAppended, WriterTypes
<1>5. ReleaseJob(w, wcur[w])
  BY <1>1 DEF WriterAppended
<1>6. refCount' = [refCount EXCEPT ![w] = @ - 1]
  BY <1>5 DEF ReleaseJob
<1>7. refCount'[w] = refCount[w] - 1 /\ \A v \in WJobs \ {w} : refCount'[v] = refCount[v]
  BY <1>2, <1>6 DEF WriterTypes
<1>8. Appended(w) /\ ~ Appended(w)' /\ \A v \in WJobs \ {w} : Appended(v)' <=> Appended(v)
  <2>1. Appended(w)
    BY <1>1 DEF Appended
  <2>2. ~ Appended(w)'
    <3> SUFFICES ASSUME NEW d \in WConns, wapp'[d] = w PROVE FALSE
      BY DEF Appended
    <3>1. d # c /\ wapp[d] = w
      BY <1>2, <1>4
    <3>2. wown[w] = d
      BY <3>1, <1>2 DEF ConnLinks, AppOwned
    <3> QED
      BY <3>1, <3>2, <1>2
  <2>3. ASSUME NEW v \in WJobs \ {w}, Appended(v)' PROVE Appended(v)
    <3>1. PICK d \in WConns : wapp'[d] = v
      BY <2>3 DEF Appended
    <3>2. d # c
      BY <3>1, <1>4, WriterAssumption
    <3> QED
      BY <3>1, <3>2, <1>4 DEF Appended
  <2>4. ASSUME NEW v \in WJobs \ {w}, Appended(v) PROVE Appended(v)'
    BY <2>4, <1>1, <1>4 DEF Appended
  <2> QED
    BY <2>1, <2>2, <2>3, <2>4
<1>9. (wapp' \in [WConns -> WJobs \cup {NoJob}]) /\ (refCount' \in [WJobs -> Int])
  <2>1. wapp' \in [WConns -> WJobs \cup {NoJob}]
    BY SMT DEF WriterTypes, WriterAppended
  <2>2. (refCount \in [WJobs -> Int]) /\ refCount[w] - 1 \in Int
    BY <1>2, SMTT(30) DEF WriterTypes
  <2>3. refCount' \in [WJobs -> Int]
    BY <1>2, <1>6, <2>2, SMT
  <2> QED
    BY <2>1, <2>3
<1>10. wconn' \in [WConns -> {"idle", "run", "sent", "append", "appended"}]
  BY SMT DEF WriterTypes, WriterAppended
<1>11. Appending'
  BY <1>4 DEF ConnLinks, Appending
<1>12. CASE Held(w)
  <2>1. refCount[w] > 1
    BY <1>2, <1>8, <1>12, SMTT(30) DEF RefsCounted
  <2>2. wcur' = wcur /\ strWriter' = strWriter
    BY <1>5, <2>1, SMT DEF ReleaseJob, WriterTypes
  <2>3. \A v \in WJobs : Held(v)' <=> Held(v)
    BY <2>2 DEF Held
  <2>4. RefsCounted'
    BY <1>2, <1>7, <1>8, <2>3, SMT DEF RefsCounted, WriterTypes
  <2>5. WriterTypes'
    BY <1>3, <1>9, <1>10, <2>2 DEF WriterTypes
  <2>6. JobLinks' /\ WriterLinkKept'
    BY <1>3, <2>2 DEF JobLinks, WriterLinkKept
  <2>7. LinkOwned' /\ OthersFreed'
    BY <1>3, <2>2 DEF ConnLinks, LinkOwned, OthersFreed
  <2>8. AppOwned'
    BY <1>3, <1>4, <2>2 DEF ConnLinks, AppOwned
  <2>9. RunsFresh'
    <3> SUFFICES ASSUME NEW d \in WConns, NEW v \in WJobs, wown[v] = d, wconn'[d] = "run", ~ strFd[d]
                 PROVE  wcur[v] = "freed"
      BY <1>3, <2>2 DEF RunsFresh
    <3>1. wconn[d] = "run"
      BY <1>2, <1>4
    <3> QED
      BY <3>1 DEF ConnLinks, RunsFresh
  <2> QED
    BY <1>11, <2>4, <2>5, <2>6, <2>7, <2>8, <2>9 DEF ConnLinks
<1>13. CASE ~ Held(w)
  <2>1. refCount[w] = 1
    BY <1>2, <1>8, <1>13, SMT DEF RefsCounted
  <2>2. (UNCHANGED strWriter \/ LinkCleared(w)) /\ \E s \in {"freeing", "freed"} : wcur' = [wcur EXCEPT ![w] = s]
    BY <1>5, <2>1, SMT DEF ReleaseJob
  <2>3. PICK s \in {"freeing", "freed"} : wcur' = [wcur EXCEPT ![w] = s]
    BY <2>2
  <2>4. wcur'[w] = s /\ (\A v \in WJobs \ {w} : wcur'[v] = wcur[v])
    BY <1>2, <2>3 DEF WriterTypes
  <2>5. wcur' \in [WJobs -> JobStates]
    <3>1. s \in JobStates /\ (wcur \in [WJobs -> JobStates])
      BY DEF WriterTypes, JobStates
    <3> QED
      BY <1>2, <2>3, <3>1, SMT
  <2>6. wcur'[w] \notin {"new", "queued", "listed"}
    BY <2>4
  <2>7. strWriter' \in [WConns -> WJobs \cup {NoJob}] /\ (\A d \in WConns : strWriter'[d] \in {strWriter[d], NoJob})
        /\ WriterLinkKept' /\ LinkOwned' /\ OthersFreed'
    BY <1>2, <1>3, <2>2, <2>4, <2>5, <2>6, ReleaseLinks
  <2>8. ~ Held(w)' /\ \A v \in WJobs \ {w} : Held(v)' <=> Held(v)
    BY <2>4, <2>6 DEF Held
  <2>9. RefsCounted'
    BY <1>2, <1>7, <1>8, <1>13, <2>8, SMT DEF RefsCounted, WriterTypes
  <2>10. WriterTypes'
    BY <1>3, <1>9, <1>10, <2>5, <2>7 DEF WriterTypes
  <2>11. JobLinks'
    BY <1>3, <1>13, <2>4, <2>6 DEF JobLinks, Held
  <2>12. AppOwned'
    BY <1>3, <1>4, <2>7 DEF ConnLinks, AppOwned
  <2>13. RunsFresh'
    <3> SUFFICES ASSUME NEW d \in WConns, NEW v \in WJobs, wown[v] = d, wconn'[d] = "run", ~ strFd[d]
                 PROVE  wcur'[v] = "freed"
      BY <1>3 DEF RunsFresh
    <3>1. d # c /\ v # w
      BY <1>2
    <3>2. wconn[d] = "run" /\ wcur'[v] = wcur[v]
      BY <3>1, <1>4, <2>4
    <3> QED
      BY <3>2 DEF ConnLinks, RunsFresh
  <2> QED
    BY <1>11, <2>7, <2>9, <2>10, <2>11, <2>12, <2>13 DEF ConnLinks
<1> QED
  BY <1>12, <1>13

\* WriterThread lets a job go that it has served.
LEMMA ServedKeeps ==
    ASSUME WriterIInv, NEW w \in WJobs, wcur[w] = "listed", ReleaseJob(w, "dropped"),
           wtodo' = wtodo \ {w}, UNCHANGED <<wconn, strFd, wapp, doStream, wown>>
    PROVE  WriterIInv'
<1> USE DEF WriterIInv
<1>1. refCount' = [refCount EXCEPT ![w] = @ - 1]
  BY DEF ReleaseJob
<1>2. refCount'[w] = refCount[w] - 1 /\ \A v \in WJobs \ {w} : refCount'[v] = refCount[v]
  BY <1>1 DEF WriterTypes
<1>3. \A v \in WJobs : Appended(v)' <=> Appended(v)
  BY DEF Appended
<1>4. Held(w)
  BY DEF Held
<1>5. /\ UNCHANGED strWriter \/ LinkCleared(w)
      /\ \E s \in {"dropped", "freeing", "freed"} : wcur' = [wcur EXCEPT ![w] = s]
  BY SMT DEF ReleaseJob
<1>6. PICK s \in {"dropped", "freeing", "freed"} : wcur' = [wcur EXCEPT ![w] = s]
  BY <1>5
<1>7. wcur'[w] = s /\ (\A v \in WJobs \ {w} : wcur'[v] = wcur[v])
  BY <1>6 DEF WriterTypes
<1>8. wcur' \in [WJobs -> JobStates]
  <2>1. s \in JobStates /\ (wcur \in [WJobs -> JobStates])
    BY DEF WriterTypes, JobStates
  <2> QED
    BY <1>6, <2>1, SMT
<1>9. wcur'[w] \notin {"new", "queued", "listed"} /\ wcur[w] # "freed"
  BY <1>7
<1>10. strWriter' \in [WConns -> WJobs \cup {NoJob}] /\ (\A d \in WConns : strWriter'[d] \in {strWriter[d], NoJob})
       /\ WriterLinkKept' /\ LinkOwned' /\ OthersFreed'
  BY <1>5, <1>7, <1>8, <1>9, ReleaseLinks
<1>11. ~ Held(w)' /\ \A v \in WJobs \ {w} : Held(v)' <=> Held(v)
  BY <1>7, <1>9 DEF Held
<1>12. RefsCounted'
  BY <1>2, <1>3, <1>4, <1>11, SMT DEF RefsCounted, WriterTypes
<1>13. WriterTypes'
  <2>1. (refCount \in [WJobs -> Int]) /\ refCount[w] - 1 \in Int
    BY SMT DEF WriterTypes
  <2>2. refCount' \in [WJobs -> Int]
    BY <1>1, <2>1, SMT
  <2> QED
    BY <1>8, <1>10, <2>2 DEF WriterTypes
<1>14. JobLinks'
  BY <1>7, <1>9 DEF JobLinks
<1>15. Appending'
  BY DEF ConnLinks, Appending
<1>16. AppOwned'
  BY <1>10 DEF ConnLinks, AppOwned
<1>17. RunsFresh'
  <2> SUFFICES ASSUME NEW d \in WConns, NEW v \in WJobs, wown[v] = d, wconn[d] = "run", ~ strFd[d]
               PROVE  wcur'[v] = "freed"
    BY DEF RunsFresh
  <2>1. wcur[v] = "freed"
    BY DEF ConnLinks, RunsFresh
  <2> QED
    BY <2>1, <1>7
<1> QED
  BY <1>10, <1>12, <1>13, <1>14, <1>15, <1>16, <1>17 DEF ConnLinks

\* The rest of a release that another thread could overtake.
LEMMA FreedKeeps ==
    ASSUME WriterIInv, NEW w \in WJobs, WriterFree(w)
    PROVE  WriterIInv'
<1> USE DEF WriterIInv
<1>1. wcur[w] = "freeing" /\ wcur' = [wcur EXCEPT ![w] = "freed"] /\ LinkCleared(w)
  BY DEF WriterFree
<1>2. UNCHANGED <<wconn, strFd, wapp, doStream, wown, refCount, wtodo>>
  BY DEF WriterFree, wtVars
<1>3. wcur'[w] = "freed" /\ (\A v \in WJobs \ {w} : wcur'[v] = wcur[v])
  BY <1>1 DEF WriterTypes
<1>4. wcur' \in [WJobs -> JobStates]
  BY <1>1, SMT DEF WriterTypes, JobStates
<1>5. wcur'[w] \notin {"new", "queued", "listed"} /\ wcur[w] # "freed"
  BY <1>1, <1>3
<1>6. strWriter' \in [WConns -> WJobs \cup {NoJob}] /\ (\A d \in WConns : strWriter'[d] \in {strWriter[d], NoJob})
      /\ WriterLinkKept' /\ LinkOwned' /\ OthersFreed'
  BY <1>1, <1>2, <1>3, <1>4, <1>5, ReleaseLinks
<1>7. RefsCounted'
  <2>1. \A v \in WJobs : (Held(v)' <=> Held(v)) /\ (Appended(v)' <=> Appended(v)) /\ refCount'[v] = refCount[v]
    BY <1>1, <1>2, <1>3 DEF Held, Appended
  <2> QED
    BY <2>1, SMT DEF RefsCounted
<1>8. WriterTypes'
  BY <1>2, <1>4, <1>6 DEF WriterTypes
<1>9. JobLinks'
  BY <1>1, <1>2, <1>3 DEF JobLinks
<1>10. Appending'
  BY <1>2 DEF ConnLinks, Appending
<1>11. AppOwned'
  BY <1>2, <1>6 DEF ConnLinks, AppOwned
<1>12. RunsFresh'
  BY <1>2, <1>3 DEF ConnLinks, RunsFresh
<1> QED
  BY <1>6, <1>7, <1>8, <1>9, <1>10, <1>11, <1>12 DEF ConnLinks

\* NsConnClose with NsWriterFinish: the stream is marked before its link goes.
LEMMA CloseKeeps ==
    ASSUME WriterIInv, NEW c \in WConns, WConnClose(c)
    PROVE  WriterIInv'
<1> USE DEF WriterIInv
<1>1. wconn[c] \in {"run", "sent"} /\ wapp[c] = NoJob
  BY DEF WConnClose, ConnLinks, Appending
<1>2. UNCHANGED <<wapp, wcur, wown, refCount, wtodo>>
  BY DEF WConnClose
<1>3. wconn'[c] = "idle" /\ \A d \in WConns \ {c} : wconn'[d] = wconn[d] /\ strFd'[d] = strFd[d]
  BY DEF WConnClose, WriterTypes
<1>4. strWriter'[c] = NoJob /\ \A d \in WConns \ {c} : strWriter'[d] = strWriter[d]
  <2>1. (strWriter' = strWriter /\ strWriter[c] = NoJob) \/ strWriter' = [strWriter EXCEPT ![c] = NoJob]
    BY DEF WConnClose
  <2> QED
    BY <2>1 DEF WriterTypes
<1>5. PICK w : w = strWriter[c]
  OBVIOUS
<1>6. \/ w = NoJob /\ doStream' = doStream
      \/ w # NoJob /\ w \in WJobs /\ doStream' = [doStream EXCEPT ![w] = "finish"]
  BY <1>5 DEF WConnClose, WriterTypes
<1>7. \A v \in WJobs : (v = w => doStream'[v] = "finish") /\ (v # w => doStream'[v] = doStream[v])
  <2>1. CASE w = NoJob
    BY <2>1, <1>6, WriterAssumption
  <2>2. CASE w # NoJob
    BY <2>2, <1>6 DEF WriterTypes
  <2> QED
    BY <2>1, <2>2
<1>8. WriterTypes'
  <2>1. strFd' \in [WConns -> BOOLEAN]
    BY DEF WConnClose, WriterTypes
  <2>2. wconn' \in [WConns -> {"idle", "run", "sent", "append", "appended"}]
    BY SMT DEF WConnClose, WriterTypes
  <2>3. strWriter' \in [WConns -> WJobs \cup {NoJob}]
    BY SMT DEF WConnClose, WriterTypes
  <2>4. doStream' \in [WJobs -> {"no", "active", "finish"}]
    BY <1>6, SMT DEF WriterTypes
  <2> QED
    BY <1>2, <2>1, <2>2, <2>3, <2>4 DEF WriterTypes
<1>9. RefsCounted'
  BY <1>2 DEF RefsCounted, Held, Appended
<1>10. \A v \in WJobs : (doStream'[v] # "no" => wown[v] \in WConns) /\ (wcur[v] = "new" => doStream'[v] = "no")
  <2> TAKE v \in WJobs
  <2>1. CASE v = w
    <3>1. wown[v] = c
      BY <2>1, <1>5, WriterAssumption DEF ConnLinks, LinkOwned
    <3> QED
      BY <3>1, WriterAssumption DEF JobLinks
  <2>2. CASE v # w
    BY <2>2, <1>7 DEF JobLinks
  <2> QED
    BY <2>1, <2>2
<1>11. JobLinks'
  BY <1>2, <1>10 DEF JobLinks
<1>12. WriterLinkKept'
  <2> SUFFICES ASSUME NEW v \in WJobs, wcur[v] \in {"queued", "listed"}, doStream'[v] = "active"
               PROVE  strWriter'[wown[v]] = v
    BY <1>2 DEF WriterLinkKept
  <2>1. v # w /\ doStream[v] = "active"
    BY <1>7
  <2>2. strWriter[wown[v]] = v /\ wown[v] \in WConns
    BY <2>1 DEF WriterLinkKept, JobLinks
  <2>3. wown[v] # c
    BY <2>1, <2>2, <1>5
  <2> QED
    BY <2>2, <2>3, <1>4
<1>13. LinkOwned'
  BY <1>2, <1>3, <1>4 DEF ConnLinks, LinkOwned
<1>14. Appending'
  BY <1>1, <1>2, <1>3 DEF ConnLinks, Appending
<1>15. AppOwned'
  BY <1>1, <1>2, <1>3, <1>4 DEF ConnLinks, AppOwned
<1>16. RunsFresh'
  BY <1>2, <1>3 DEF ConnLinks, RunsFresh
<1>17. OthersFreed'
  BY <1>2, <1>4 DEF ConnLinks, OthersFreed
<1> QED
  BY <1>8, <1>9, <1>11, <1>12, <1>13, <1>14, <1>15, <1>16, <1>17 DEF ConnLinks

\* WriterThread takes over the jobs that were queued.
LEMMA AcceptKeeps ==
    ASSUME WriterIInv, WriterAccept
    PROVE  WriterIInv'
<1> USE DEF WriterIInv
<1>1. UNCHANGED <<strWriter, strFd, wapp, wconn, doStream, wown, refCount, wtodo>>
  BY DEF WriterAccept, wcVars
<1>2. \A w \in WJobs : (wcur[w] = "queued" /\ wcur'[w] = "listed") \/ (wcur[w] # "queued" /\ wcur'[w] = wcur[w])
  BY SMTT(30) DEF WriterAccept
<1>3. wcur' \in [WJobs -> JobStates]
  BY SMT DEF WriterAccept, WriterTypes, JobStates
<1>4. WriterTypes'
  BY <1>1, <1>3 DEF WriterTypes
<1>5. RefsCounted'
  <2>1. \A v \in WJobs : (Held(v)' <=> Held(v)) /\ (Appended(v)' <=> Appended(v)) /\ refCount'[v] = refCount[v]
    BY <1>1, <1>2 DEF Held, Appended
  <2> QED
    BY <2>1, SMT DEF RefsCounted
<1>6. JobLinks'
  BY <1>1, <1>2 DEF JobLinks
<1>7. WriterLinkKept'
  BY <1>1, <1>2 DEF WriterLinkKept
<1>8. LinkOwned' /\ Appending'
  BY <1>1 DEF ConnLinks, LinkOwned, Appending
<1>9. AppOwned'
  BY <1>1 DEF ConnLinks, AppOwned
<1>10. RunsFresh'
  BY <1>1, <1>2 DEF ConnLinks, RunsFresh
<1>11. OthersFreed'
  BY <1>1, <1>2 DEF ConnLinks, OthersFreed
<1> QED
  BY <1>4, <1>5, <1>6, <1>7, <1>8, <1>9, <1>10, <1>11 DEF ConnLinks

LEMMA ServeKeeps ==
    ASSUME WriterIInv, NEW w \in WJobs, WriterServe(w)
    PROVE  WriterIInv'
<1>1. wtodo' = wtodo \ {w} /\ UNCHANGED <<wconn, strFd, wapp, doStream, wown>> /\ w \in wtodo
  BY DEF WriterServe
<1>2. wcur[w] = "listed"
  BY <1>1 DEF WriterIInv, JobLinks
<1>3. UNCHANGED <<wcur, refCount, strWriter>> \/ ReleaseJob(w, "dropped")
  BY DEF WriterServe, WriterSends, WriterGivesUp
<1>4. CASE UNCHANGED <<wcur, refCount, strWriter>>
  <2>1. wtodo' \subseteq wtodo \cup InState("listed")
    BY <1>1
  <2> QED
    BY <1>1, <1>4, <2>1, WriterFrame
<1>5. CASE ReleaseJob(w, "dropped")
  BY <1>1, <1>2, <1>5, ServedKeeps
<1> QED
  BY <1>3, <1>4, <1>5

LEMMA WriterNextInv ==
    ASSUME ~ ConnReuse, WriterIInv, [WriterNext]_writerVars
    PROVE  WriterIInv'
<1> DEFINE Same == UNCHANGED <<strWriter, strFd, wapp, wconn, wcur, doStream, wown, refCount>>
<1>1. CASE UNCHANGED writerVars
  <2>1. Same /\ wtodo' \subseteq wtodo \cup InState("listed")
    BY <1>1 DEF writerVars, wcVars, wjVars, wtVars
  <2> QED
    BY <2>1, WriterFrame
<1>2. ASSUME NEW c \in WConns, WConnRun(c) PROVE WriterIInv'
  <2>1. UNCHANGED <<strWriter, strFd, wapp, wcur, doStream, wown, refCount, wtodo>>
    BY <1>2 DEF WConnRun, wjVars, wtVars
  <2>2. /\ wconn' = [wconn EXCEPT ![c] = "run"] /\ wconn[c] = "idle"
        /\ \A w \in WJobs : wown[w] = c => wcur[w] = "freed"
    BY <1>2 DEF WConnRun
  <2> QED
    BY <2>1, <2>2, ConnMoves
<1>3. ASSUME NEW c \in WConns, WConnClose(c) PROVE WriterIInv'
  BY <1>3, CloseKeeps
<1>4. ASSUME NEW c \in WConns, WriterSockRequire(c) PROVE WriterIInv'
  <2>1. CASE strWriter[c] = NoJob
    <3>1. Same /\ wtodo' \subseteq wtodo \cup InState("listed")
      BY <1>4, <2>1 DEF WriterSockRequire, wtVars
    <3> QED
      BY <3>1, WriterFrame
  <2>2. CASE strWriter[c] # NoJob
    BY <1>4, <2>2, RequireKeeps
  <2> QED
    BY <2>1, <2>2
<1>5. ASSUME NEW c \in WConns, WriterAppended(c) PROVE WriterIInv'
  BY <1>5, AppendedKeeps
<1>6. ASSUME NEW c \in WConns, NEW n \in 1 .. WBytes, WriterAppend(c, n) PROVE WriterIInv'
  <2>1. UNCHANGED <<strWriter, strFd, wapp, wcur, doStream, wown, refCount, wtodo>>
    BY <1>6 DEF WriterAppend, wtVars
  <2>2. wconn' = [wconn EXCEPT ![c] = "appended"] /\ wconn[c] = "append"
    BY <1>6 DEF WriterAppend
  <2> QED
    BY <2>1, <2>2, ConnMoves
<1>7. ASSUME NEW c \in WConns, NEW w \in WJobs, NEW n \in 1 .. WBytes, WriterStream(c, w, n) PROVE WriterIInv'
  BY <1>7, StreamKeeps
<1>8. ASSUME NEW c \in WConns, NEW w \in WJobs, NEW n \in 1 .. WBytes, NEW h \in WHeaders, WriterFile(c, w, n, h)
      PROVE  WriterIInv'
  BY <1>8, FileKeeps
<1>9. ASSUME NEW w \in WJobs, WriterFree(w) PROVE WriterIInv'
  BY <1>9, FreedKeeps
<1>10. CASE WriterStop \/ WriterCollect \/ WriterPoll
  <2>1. Same
    BY <1>10 DEF WriterStop, WriterCollect, WriterPoll, wcVars, wjVars
  <2>2. wtodo' \subseteq wtodo \cup InState("listed")
    BY <1>10 DEF WriterStop, WriterCollect, WriterPoll
  <2> QED
    BY <2>1, <2>2, WriterFrame
<1>11. ASSUME NEW w \in WJobs, WriterServe(w) PROVE WriterIInv'
  BY <1>11, ServeKeeps
<1>12. CASE WriterAccept
  BY <1>12, AcceptKeeps
<1> QED
  BY <1>1, <1>2, <1>3, <1>4, <1>5, <1>6, <1>7, <1>8, <1>9, <1>10, <1>11, <1>12 DEF WriterNext, WriterThread

-----------------------------------------------------------------------------
(* The three together.                                                      *)

\* What the writer threads, the log writer and the socket callback thread of
\* nsd/driver.c and nsd/sockcallback.c promise, whatever the number of
\* connections, jobs, lines and sockets, and whatever the threads may overtake
\* within a release: an active stream is the one its connection points to, and
\* queued log lines and socket callbacks have a trigger and a registration.
\* It is assumed that a connection structure is not used again while a stream
\* of it is unfinished.
THEOREM BackgroundKept == ASSUME ~ ConnReuse PROVE BackgroundSpec => []BackgroundInv
<1> DEFINE IInv == WriterIInv /\ AsyncIInv /\ ScIInv
<1>1. BackgroundInit => IInv
  BY WriterInitInv, AsyncInitInv, ScInitInv DEF BackgroundInit
<1>2. IInv /\ [BackgroundNext]_<<writerVars, asyncVars, sockcbVars>> => IInv'
  BY WriterNextInv, AsyncNextInv, ScNextInv DEF BackgroundNext
<1>3. IInv => BackgroundInv
  <2>1. ScIInv => ScTriggerComing
    BY DEF ScIInv, WakeComing, ScTriggerComing
  <2> QED
    BY <2>1 DEF BackgroundInv, WriterIInv, AsyncIInv, ScIInv
<1> QED
  BY <1>1, <1>2, <1>3, PTL DEF BackgroundSpec

-----------------------------------------------------------------------------
(* What holds besides if a release and a drain are not overtaken.           *)

\* A job of a connection is a stream, and a release frees it at once.
UseInv ==
    /\ \A w \in WJobs : wcur[w] # "freeing" /\ (wown[w] \in WConns => doStream[w] # "no")
    /\ WriterNotFreedInUse

\* WriterSockRelease without races: a job is freed when nobody appends to it,
\* and its connection's link goes with it.
LEMMA ReleaseUse ==
    ASSUME ~ WriterRaces, WriterIInv, UseInv, NEW w \in WJobs, wcur[w] # "freed", NEW s, ReleaseJob(w, s),
           s \notin {"freed", "freeing"}, UNCHANGED <<doStream, wown>>,
           \A c \in WConns : wapp'[c] \in {wapp[c], NoJob}, refCount[w] = 1 => ~ Appended(w)', refCount[w] \in {1, 2}
    PROVE  UseInv'
<1> USE DEF UseInv
<1>1. CASE refCount[w] = 2
  <2>1. wcur' = [wcur EXCEPT ![w] = s] /\ strWriter' = strWriter
    BY <1>1, SMT DEF ReleaseJob
  <2>2. wcur'[w] = s /\ \A v \in WJobs \ {w} : wcur'[v] = wcur[v]
    BY <2>1 DEF WriterIInv, WriterTypes
  <2>3. WriterNotFreedInUse'
    <3> SUFFICES ASSUME NEW v \in WJobs, wcur'[v] = "freed", NEW c \in WConns PROVE wapp'[c] # v /\ strWriter[c] # v
      BY <2>1 DEF WriterNotFreedInUse
    <3>1. wcur[v] = "freed" /\ v # NoJob
      BY <2>2, WriterAssumption
    <3> QED
      BY <3>1 DEF WriterNotFreedInUse
  <2> QED
    BY <2>2, <2>3
<1>2. CASE refCount[w] = 1
  <2>1. wcur' = [wcur EXCEPT ![w] = "freed"] /\ LinkCleared(w)
    BY <1>2, SMT DEF ReleaseJob
  <2>2. wcur'[w] = "freed" /\ \A v \in WJobs \ {w} : wcur'[v] = wcur[v]
    BY <2>1 DEF WriterIInv, WriterTypes
  <2>3. /\ \A c \in WConns : strWriter'[c] \in {strWriter[c], NoJob}
        /\ wown[w] \in WConns => strWriter'[wown[w]] = NoJob
    <3>1. CASE doStream[w] = "no"
      BY <2>1, <3>1 DEF LinkCleared
    <3>2. CASE doStream[w] # "no"
      <4>1. strWriter' = [strWriter EXCEPT ![wown[w]] = NoJob] /\ wown[w] \in WConns
        BY <2>1, <3>2 DEF LinkCleared, WriterIInv, JobLinks
      <4> QED
        BY <4>1 DEF WriterIInv, WriterTypes
    <3> QED
      BY <3>1, <3>2
  <2>4. WriterNotFreedInUse'
    <3> SUFFICES ASSUME NEW v \in WJobs, wcur'[v] = "freed", NEW c \in WConns PROVE wapp'[c] # v /\ strWriter'[c] # v
      BY DEF WriterNotFreedInUse
    <3>0. v # NoJob
      BY WriterAssumption
    <3>1. CASE v = w
      <4>1. wapp'[c] # w
        BY <1>2 DEF Appended
      <4>2. ASSUME strWriter'[c] = w PROVE FALSE
        <5>1. strWriter[c] = w
          BY <2>3, <3>0, <3>1, <4>2
        <5>2. wown[w] = c
          BY <5>1, <3>0, <3>1 DEF WriterIInv, ConnLinks, LinkOwned
        <5> QED
          BY <5>2, <2>3, <4>2, <3>0, <3>1
      <4> QED
        BY <4>1, <4>2, <3>1
    <3>2. CASE v # w
      <4>1. wcur[v] = "freed"
        BY <2>2, <3>2
      <4> QED
        BY <4>1, <2>3, <3>0 DEF WriterNotFreedInUse
    <3> QED
      BY <3>1, <3>2
  <2> QED
    BY <2>2, <2>4
<1> QED
  BY <1>1, <1>2

\* Every step of the connection threads and of WriterThread keeps UseInv.
LEMMA UseNextInv ==
    ASSUME ~ WriterRaces, WriterIInv, UseInv, [WriterNext]_writerVars
    PROVE  UseInv'
<1> DEFINE Same == UNCHANGED <<strWriter, wapp, wcur, doStream, wown>>
<1>s. Same => UseInv'
  BY DEF UseInv, WriterNotFreedInUse
<1>t. /\ (wcur \in [WJobs -> JobStates]) /\ (wapp \in [WConns -> WJobs \cup {NoJob}])
      /\ (strWriter \in [WConns -> WJobs \cup {NoJob}]) /\ (wown \in [WJobs -> WConns \cup {NoJob}])
      /\ (doStream \in [WJobs -> {"no", "active", "finish"}])
  BY DEF WriterIInv, WriterTypes
<1>1. CASE UNCHANGED writerVars
  BY <1>1, <1>s DEF writerVars, wcVars, wjVars
<1>2. ASSUME NEW c \in WConns, WConnRun(c) PROVE UseInv'
  BY <1>2, <1>s DEF WConnRun, wjVars
<1>3. ASSUME NEW c \in WConns, WConnClose(c) PROVE UseInv'
  <2>1. UNCHANGED <<wapp, wcur, wown>>
    BY <1>3 DEF WConnClose
  <2>2. \A d \in WConns : strWriter'[d] \in {strWriter[d], NoJob}
    BY <1>3, <1>t DEF WConnClose
  <2>3. \A v \in WJobs : doStream[v] # "no" => doStream'[v] # "no"
    BY <1>3, <1>t DEF WConnClose
  <2>4. WriterNotFreedInUse'
    BY <2>1, <2>2, WriterAssumption DEF UseInv, WriterNotFreedInUse
  <2> QED
    BY <2>1, <2>3, <2>4 DEF UseInv
<1>4. ASSUME NEW c \in WConns, WriterSockRequire(c) PROVE UseInv'
  <2>1. UNCHANGED <<strWriter, wcur, doStream, wown>>
    BY <1>4 DEF WriterSockRequire
  <2>2. \A d \in WConns : wapp'[d] \in {wapp[d], strWriter[d]}
    BY <1>4, <1>t DEF WriterSockRequire
  <2>3. WriterNotFreedInUse'
    BY <2>1, <2>2 DEF UseInv, WriterNotFreedInUse
  <2> QED
    BY <2>1, <2>3 DEF UseInv
<1>5. ASSUME NEW c \in WConns, WriterAppended(c) PROVE UseInv'
  <2>1. PICK w : w = wapp[c]
    OBVIOUS
  <2>2. w # NoJob
    BY <1>5, <2>1 DEF WriterAppended, WriterIInv, ConnLinks, Appending
  <2>3. w \in WJobs /\ wown[w] = c
    BY <2>1, <2>2, <1>t, ZenonT(30) DEF WriterIInv, ConnLinks, AppOwned
  <2>4. wcur[w] \notin {"freed", "freeing"}
    BY <2>1, <2>3 DEF UseInv, WriterNotFreedInUse
  <2>5. ReleaseJob(w, wcur[w]) /\ UNCHANGED <<doStream, wown>>
    BY <1>5, <2>1 DEF WriterAppended
  <2>6. wapp'[c] = NoJob /\ \A d \in WConns \ {c} : wapp'[d] = wapp[d]
    BY <1>5, <1>t DEF WriterAppended
  <2>7. ~ Appended(w)'
    <3> SUFFICES ASSUME NEW d \in WConns, wapp'[d] = w PROVE FALSE
      BY DEF Appended
    <3>1. d # c /\ wapp[d] = w
      BY <2>2, <2>6
    <3> QED
      BY <3>1, <2>2, <2>3 DEF WriterIInv, ConnLinks, AppOwned
  <2>8. Appended(w)
    BY <2>1 DEF Appended
  <2>9. refCount[w] \in {1, 2}
    BY <2>3, <2>8, SMT DEF WriterIInv, RefsCounted
  <2> QED
    BY <2>3, <2>4, <2>5, <2>6, <2>7, <2>9, ReleaseUse
<1>6. ASSUME NEW c \in WConns, NEW n \in 1 .. WBytes, WriterAppend(c, n) PROVE UseInv'
  BY <1>6, <1>s DEF WriterAppend
<1>7. ASSUME NEW c \in WConns, NEW w \in WJobs, NEW n \in 1 .. WBytes, WriterStream(c, w, n) PROVE UseInv'
  <2>1. wcur'[w] = "queued" /\ doStream'[w] = "active" /\ strWriter'[c] = w /\ UNCHANGED wapp
    BY <1>7, <1>t DEF WriterStream, Enqueue
  <2>2. \A v \in WJobs \ {w} : wcur'[v] = wcur[v] /\ doStream'[v] = doStream[v] /\ wown'[v] = wown[v]
    BY <1>7, <1>t DEF WriterStream, Enqueue
  <2>3. \A d \in WConns \ {c} : strWriter'[d] = strWriter[d]
    BY <1>7, <1>t DEF WriterStream
  <2>4. WriterNotFreedInUse'
    <3> SUFFICES ASSUME NEW v \in WJobs, wcur'[v] = "freed", NEW d \in WConns PROVE wapp[d] # v /\ strWriter'[d] # v
      BY <2>1 DEF WriterNotFreedInUse
    <3>1. v # w /\ wcur[v] = "freed"
      BY <2>1, <2>2
    <3>2. wapp[d] # v /\ strWriter[d] # v
      BY <3>1 DEF UseInv, WriterNotFreedInUse
    <3> QED
      BY <3>1, <3>2, <2>1, <2>3
  <2> QED
    BY <2>1, <2>2, <2>4 DEF UseInv
<1>8. ASSUME NEW c \in WConns, NEW w \in WJobs, NEW n \in 1 .. WBytes, NEW h \in WHeaders, WriterFile(c, w, n, h)
      PROVE  UseInv'
  <2>1. wcur'[w] = "queued" /\ UNCHANGED <<wapp, strWriter, wown>>
    BY <1>8, <1>t DEF WriterFile, Enqueue
  <2>2. wown[w] = NoJob
    BY <1>8 DEF WriterFile, WriterIInv, JobLinks
  <2>3. \A v \in WJobs \ {w} : wcur'[v] = wcur[v] /\ doStream'[v] = doStream[v]
    BY <1>8, <1>t DEF WriterFile, Enqueue
  <2>4. WriterNotFreedInUse'
    BY <2>1, <2>3 DEF UseInv, WriterNotFreedInUse
  <2> QED
    BY <2>1, <2>2, <2>3, <2>4, WriterAssumption DEF UseInv
<1>9. ASSUME NEW w \in WJobs, WriterFree(w) PROVE UseInv'
  BY <1>9 DEF WriterFree, UseInv
<1>10. CASE WriterStop \/ WriterCollect \/ WriterPoll
  BY <1>10, <1>s DEF WriterStop, WriterCollect, WriterPoll, wcVars, wjVars
<1>11. ASSUME NEW w \in WJobs, WriterServe(w) PROVE UseInv'
  <2>1. UNCHANGED <<wapp, doStream, wown>> /\ w \in wtodo
    BY <1>11 DEF WriterServe
  <2>2. wcur[w] = "listed"
    BY <2>1 DEF WriterIInv, JobLinks
  <2>3. UNCHANGED <<wcur, strWriter>> \/ ReleaseJob(w, "dropped")
    BY <1>11 DEF WriterServe, WriterSends, WriterGivesUp
  <2>4. CASE ReleaseJob(w, "dropped")
    <3>1. Held(w) /\ (Appended(w)' <=> Appended(w))
      BY <2>1, <2>2 DEF Held, Appended
    <3>2. refCount[w] \in {1, 2} /\ (refCount[w] = 1 => ~ Appended(w)')
      BY <3>1, SMT DEF WriterIInv, RefsCounted
    <3>3. \A c \in WConns : wapp'[c] \in {wapp[c], NoJob}
      BY <2>1
    <3> QED
      BY <2>1, <2>2, <2>4, <3>2, <3>3, ReleaseUse
  <2> QED
    BY <2>1, <2>3, <2>4, <1>s
<1>12. CASE WriterAccept
  <2>1. UNCHANGED <<strWriter, wapp, doStream, wown>>
    BY <1>12 DEF WriterAccept, wcVars
  <2>2. ASSUME NEW w \in WJobs
        PROVE  (wcur[w] = "queued" /\ wcur'[w] = "listed") \/ (wcur[w] # "queued" /\ wcur'[w] = wcur[w])
    <3>1. wcur' = [v \in WJobs |-> IF wcur[v] = "queued" THEN "listed" ELSE wcur[v]]
      BY <1>12 DEF WriterAccept
    <3>2. wcur'[w] = IF wcur[w] = "queued" THEN "listed" ELSE wcur[w]
      BY <3>1
    <3>3. CASE wcur[w] = "queued"
      BY <3>2, <3>3
    <3>4. CASE wcur[w] # "queued"
      BY <3>2, <3>4
    <3> QED
      BY <3>3, <3>4
  <2>3. WriterNotFreedInUse'
    BY <2>1, <2>2 DEF UseInv, WriterNotFreedInUse
  <2> QED
    BY <2>1, <2>2, <2>3 DEF UseInv
<1> QED
  BY <1>1, <1>2, <1>3, <1>4, <1>5, <1>6, <1>7, <1>8, <1>9, <1>10, <1>11, <1>12 DEF WriterNext, WriterThread

\* The reference counts of nsd/driver.c: if no thread comes between the two
\* steps of WriterSockRelease, a job that a connection points to or appends
\* to is not freed, for any number of connections and jobs.
THEOREM NotFreedInUse ==
    ASSUME ~ ConnReuse, ~ WriterRaces PROVE BackgroundSpec => []WriterNotFreedInUse
<1> DEFINE IInv == WriterIInv /\ UseInv
<1>1. BackgroundInit => IInv
  <2>1. WriterInit => UseInv
    BY WriterAssumption, ZenonT(30) DEF WriterInit, UseInv, WriterNotFreedInUse
  <2> QED
    BY <2>1, WriterInitInv DEF BackgroundInit
<1>2. IInv /\ [BackgroundNext]_<<writerVars, asyncVars, sockcbVars>> => IInv'
  BY WriterNextInv, UseNextInv DEF BackgroundNext
<1>3. IInv => WriterNotFreedInUse
  BY DEF UseInv
<1> QED
  BY <1>1, <1>2, <1>3, PTL DEF BackgroundSpec

\* A shutdown of the log writer is not taken back.
LineInv ==
    /\ apc # "clear" /\ adis # "set" /\ ashutdown \in BOOLEAN /\ DOMAIN aleft = Lines
    /\ (ashutdown => adis # "no" \/ afreed) /\ (afreed => ~ asyncOn)
    /\ AsyncNotLost

LEMMA LineNextInv ==
    ASSUME ~ AsyncRaces, AsyncIInv, LineInv, [AsyncNext]_asyncVars
    PROVE  LineInv'
<1> USE DEF LineInv, AsyncNotLost, AsyncIInv
<1>1. CASE AsyncEnable
  BY <1>1 DEF AsyncEnable
<1>2. ASSUME NEW shutdown \in BOOLEAN, AsyncDisable(shutdown) PROVE LineInv'
  BY <1>2 DEF AsyncDisable
<1>3. CASE AsyncDisableWaits
  BY <1>3 DEF AsyncDisableWaits
<1>4. CASE AsyncDisabled
  BY <1>4 DEF AsyncDisabled
<1>5. ASSUME NEW m \in Lines, AsyncCheck(m) PROVE LineInv'
  <2>1. line'[m] \in {"checked", "sync"}
    BY <1>5 DEF AsyncCheck
  <2>2. \A k \in Lines \ {m} : line'[k] = line[k] /\ aleft'[k] = aleft[k]
    BY <1>5 DEF AsyncCheck
  <2>3. DOMAIN aleft' = Lines
    BY <1>5 DEF AsyncCheck
  <2>4. UNCHANGED <<asyncOn, astopped, ashutdown, afreed, aqueue, alist, apc, adis>>
    BY <1>5 DEF AsyncCheck
  <2>5. AsyncNotLost'
    BY <2>1, <2>2, <2>4
  <2> QED
    BY <2>3, <2>4, <2>5
<1>6. ASSUME NEW m \in Lines, AsyncPut(m) PROVE LineInv'
  BY <1>6, SMT DEF AsyncPut
<1>7. CASE AsyncPoll
  BY <1>7, SMT DEF AsyncPoll
<1>8. CASE AsyncDrain \/ AsyncClear
  BY <1>8, SMT DEF AsyncDrain, AsyncClear, DisableWoken
<1>9. CASE AsyncWriteLines
  BY <1>9, SMT DEF AsyncWriteLines
<1>10. CASE AsyncAccept
  BY <1>10, SMT DEF AsyncAccept
<1>11. CASE UNCHANGED asyncVars
  BY <1>11 DEF asyncVars
<1> QED
  BY <1>1, <1>2, <1>3, <1>4, <1>5, <1>6, <1>7, <1>8, <1>9, <1>10, <1>11 DEF AsyncNext, AsyncThread

\* NsAsyncWrite and AsyncWriterThread: if a drain is not overtaken, a line
\* that the queue took is in the queue or with the thread until it is written,
\* whatever drains run between, or the writer shuts down.
THEOREM LinesNotLost == ASSUME ~ AsyncRaces PROVE BackgroundSpec => []AsyncNotLost
<1> DEFINE IInv == AsyncIInv /\ LineInv
<1>1. BackgroundInit => IInv
  <2>1. AsyncInit => LineInv
    BY DEF AsyncInit, LineInv, AsyncNotLost
  <2> QED
    BY <2>1, AsyncInitInv DEF BackgroundInit
<1>2. IInv /\ [BackgroundNext]_<<writerVars, asyncVars, sockcbVars>> => IInv'
  BY AsyncNextInv, LineNextInv DEF BackgroundNext
<1>3. IInv => AsyncNotLost
  BY DEF LineInv
<1> QED
  BY <1>1, <1>2, <1>3, PTL DEF BackgroundSpec

=============================================================================
