------------------------------ MODULE Threads -------------------------------
(***************************************************************************)
(* What threads are built on: critical sections and semaphores, thread     *)
(* creation and thread-local storage, and the Tcl commands for locks and   *)
(* threads.                                                                *)
(***************************************************************************)
EXTENDS Integers, FiniteSets, Sequences

-----------------------------------------------------------------------------
(***************************************************************************)
(* The recursive critical section and the counting semaphore of the thread *)
(* library (nsthread/cslock.c, sema.c); the master lock (master.c) is a    *)
(* critical section that exists before the first thread.                   *)
(***************************************************************************)

CONSTANTS
    CsThreads,
    CsDepth,       \* how deep a thread nests Ns_CsEnter
    SemaPosts,     \* the counts given to Ns_SemaPost, in this order
    SemaWaiters    \* the threads that wait for the semaphore

ASSUME SemaAssumption == SemaPosts \in Seq(Nat) /\ IsFiniteSet(SemaWaiters)

VARIABLES
    csState,       \* thread -> out, wait, woken, in
    csNest,        \* thread -> how many Ns_CsEnter it has not left
    csTid, csCount,
    semaCount, semaState, \* thread -> new, wait, woken, passed
    semaNext       \* the next element of SemaPosts

csVars == <<csState, csNest, csTid, csCount>>
semaVars == <<semaCount, semaState, semaNext>>
critVars == <<csState, csNest, csTid, csCount, semaCount, semaState, semaNext>>

CritInit ==
    /\ csState = [t \in CsThreads |-> "out"] /\ csNest = [t \in CsThreads |-> 0]
    /\ csTid = "none" /\ csCount = 0
    /\ semaCount = 0 /\ semaState = [t \in SemaWaiters |-> "new"] /\ semaNext = 1

\* Mutant: a thread does not look at the owner, only at the count, after a wake-up.
CsTakeAny(t) ==
    IF csCount > 0 /\ csTid # t /\ csState[t] # "woken"
    THEN csState' = [csState EXCEPT ![t] = "wait"] /\ UNCHANGED <<csNest, csTid, csCount>>
    ELSE /\ csTid' = t /\ csCount' = csCount + 1
         /\ csState' = [csState EXCEPT ![t] = "in"]
         /\ csNest' = [csNest EXCEPT ![t] = @ + 1]

\* The loop of Ns_CsEnter, under the section's mutex.
CsTake(t) ==
    IF csCount > 0 /\ csTid # t
    THEN csState' = [csState EXCEPT ![t] = "wait"] /\ UNCHANGED <<csNest, csTid, csCount>>
    ELSE /\ csTid' = t /\ csCount' = csCount + 1
         /\ csState' = [csState EXCEPT ![t] = "in"]
         /\ csNest' = [csNest EXCEPT ![t] = @ + 1]

Ns_CsEnter(t) == csState[t] \in {"out", "in"} /\ csNest[t] < CsDepth /\ CsTake(t) /\ UNCHANGED semaVars
CsWakes(t) == csState[t] = "woken" /\ CsTake(t) /\ UNCHANGED semaVars

Ns_CsLeave(t) ==
    /\ csState[t] = "in"
    /\ csCount' = csCount - 1
    /\ csNest' = [csNest EXCEPT ![t] = @ - 1]
    /\ LET left == IF csNest[t] = 1 THEN [csState EXCEPT ![t] = "out"] ELSE csState
           sleeping == {u \in CsThreads : csState[u] = "wait"}
       IN  IF csCount = 1 /\ sleeping # {}
           THEN \E u \in sleeping : csState' = [left EXCEPT ![u] = "woken"]
           ELSE csState' = left
    /\ UNCHANGED csTid /\ UNCHANGED semaVars

\* The loop of Ns_SemaWait.
SemaTry(t) ==
    /\ IF semaCount = 0
       THEN semaState' = [semaState EXCEPT ![t] = "wait"] /\ UNCHANGED semaCount
       ELSE semaState' = [semaState EXCEPT ![t] = "passed"] /\ semaCount' = semaCount - 1
    /\ UNCHANGED semaNext /\ UNCHANGED csVars

Ns_SemaWait(t) == semaState[t] = "new" /\ SemaTry(t)
SemaWakes(t) == semaState[t] = "woken" /\ SemaTry(t)

\* Mutant: one waiting thread is woken whatever the count.
PostSignals ==
    /\ semaNext <= Len(SemaPosts)
    /\ semaCount' = semaCount + SemaPosts[semaNext] /\ semaNext' = semaNext + 1
    /\ LET sleeping == {t \in SemaWaiters : semaState[t] = "wait"}
       IN  IF sleeping = {} THEN UNCHANGED semaState
           ELSE \E t \in sleeping : semaState' = [semaState EXCEPT ![t] = "woken"]
    /\ UNCHANGED csVars

Ns_SemaPost ==
    /\ semaNext <= Len(SemaPosts)
    /\ semaCount' = semaCount + SemaPosts[semaNext] /\ semaNext' = semaNext + 1
    /\ LET sleeping == {t \in SemaWaiters : semaState[t] = "wait"}
       IN  IF SemaPosts[semaNext] = 1 /\ sleeping # {}
           THEN \E t \in sleeping : semaState' = [semaState EXCEPT ![t] = "woken"]
           ELSE semaState' = [t \in SemaWaiters |-> IF t \in sleeping THEN "woken" ELSE semaState[t]]
    /\ UNCHANGED csVars

CsStep(t) == CsWakes(t) \/ Ns_CsLeave(t)

CritNext ==
    \/ \E t \in CsThreads : Ns_CsEnter(t) \/ CsStep(t)
    \/ \E t \in SemaWaiters : Ns_SemaWait(t) \/ SemaWakes(t)
    \/ Ns_SemaPost

CritSpec == CritInit /\ [][CritNext]_critVars

(***************************************************************************)
(* At most one thread is in the section, the count is how deep it nests,   *)
(* and waiting threads are woken when the section is empty (cslock.c:208). *)
(***************************************************************************)
CsInv ==
    /\ \A t \in CsThreads : csState[t] = "in" => csTid = t /\ csCount = csNest[t]
    /\ csCount = 0 =>
         /\ \A t \in CsThreads : csState[t] # "in"
         /\ (\E t \in CsThreads : csState[t] = "wait") => \E t \in CsThreads : csState[t] = "woken"

(***************************************************************************)
(* No thread sleeps on at a semaphore while something is left for it:      *)
(* those that were woken and are not back at the mutex yet account for the *)
(* whole count (Ns_SemaPost, sema.c:178).                                  *)
(***************************************************************************)
SemaInv ==
    LET are(s) == Cardinality({t \in SemaWaiters : semaState[t] = s})
    IN  are("wait") > 0 => are("woken") >= semaCount

(***************************************************************************)
(* The two kinds of lock that the library builds from a mutex and a        *)
(* condition variable besides the reader/writer lock.                      *)
(***************************************************************************)
CritInv == CsInv /\ SemaInv

-----------------------------------------------------------------------------
(***************************************************************************)
(* The life of a thread of the thread library (nsthread/thread.c, tls.c,   *)
(* pthread.c): the list of Thread structures, the thread local slots and   *)
(* their cleanup when a thread ends.  Slot 1 belongs to thread.c itself.   *)
(* What runs under the master lock is one action.                          *)
(***************************************************************************)

CONSTANTS
    LibThreads,
    MainThread,       \* a thread the library did not create
    TlsKeys,          \* 1 .. the number of keys allocated
    TlsTrys,          \* the 5 of NsCleanupTls
    ResetPasses       \* in how many passes cleanup procs set slots again

ASSUME TlsAssumption ==
    /\ MainThread \in LibThreads
    /\ TlsKeys = 1 .. Cardinality(TlsKeys) /\ Cardinality(TlsKeys) \in Nat \ {0}
    /\ TlsTrys \in Nat /\ ResetPasses \in Nat /\ ResetPasses <= TlsTrys

VARIABLES
    osState,      \* thread -> none, created, running, ending, gone
    thrList,      \* the structures on firstThreadPtr's list: <<thread, number>>
    thrNumber,    \* thread -> number of structures it had
    tlsSlots,     \* thread -> the keys whose slot is not NULL
    clPass, clKey, clRetry,  \* NsCleanupTls: pass, next key, and does something ask for a retry
    exitedFlag    \* the structures with NS_THREAD_EXITED

libVars == <<osState, thrList, thrNumber, tlsSlots, clPass, clKey, clRetry, exitedFlag>>

MaxKey == Cardinality(TlsKeys)

LibInit ==
    /\ osState = [t \in LibThreads |-> IF t = MainThread THEN "running" ELSE "none"]
    /\ thrList = {} /\ exitedFlag = {}
    /\ thrNumber = [t \in LibThreads |-> 0] /\ tlsSlots = [t \in LibThreads |-> {}]
    /\ clPass = [t \in LibThreads |-> 0] /\ clKey = [t \in LibThreads |-> 0]
    /\ clRetry = [t \in LibThreads |-> FALSE]

\* NewThread: the next structure of t goes to the list.
NewThread(t) ==
    /\ thrNumber' = [thrNumber EXCEPT ![t] = @ + 1]
    /\ thrList' = thrList \cup {<<t, thrNumber[t] + 1>>}

\* GetThread: a thread that has no structure (any more) gets one.
NeedsThread(t) == 1 \notin tlsSlots[t]

GetThread(t) ==
    /\ osState[t] = "running" /\ NeedsThread(t)
    /\ NewThread(t)
    /\ tlsSlots' = [tlsSlots EXCEPT ![t] = @ \cup {1}]
    /\ UNCHANGED <<osState, clPass, clKey, clRetry, exitedFlag>>

\* Ns_ThreadCreate asks for the creator's name, so the creator has a structure.
Ns_ThreadCreate(p, t) ==
    /\ osState[p] = "running" /\ ~NeedsThread(p) /\ osState[t] = "none"
    /\ NewThread(t)
    /\ osState' = [osState EXCEPT ![t] = "created"]
    /\ UNCHANGED <<tlsSlots, clPass, clKey, clRetry, exitedFlag>>

NsThreadMain(t) ==
    /\ osState[t] = "created"
    /\ osState' = [osState EXCEPT ![t] = "running"]
    /\ tlsSlots' = [tlsSlots EXCEPT ![t] = @ \cup {1}]
    /\ UNCHANGED <<thrList, thrNumber, clPass, clKey, clRetry, exitedFlag>>

Ns_TlsSet(t, k) ==
    /\ osState[t] = "running" /\ k \notin tlsSlots[t] /\ k # 1
    /\ tlsSlots' = [tlsSlots EXCEPT ![t] = @ \cup {k}]
    /\ UNCHANGED <<osState, thrList, thrNumber, clPass, clKey, clRetry, exitedFlag>>

\* Ns_ThreadExit flags the structure, a return from the start routine does not.
Ns_ThreadExit(t, flag) ==
    /\ osState[t] = "running" /\ ~NeedsThread(t)
    /\ osState' = [osState EXCEPT ![t] = "ending"]
    /\ exitedFlag' = IF flag THEN exitedFlag \cup {<<t, thrNumber[t]>>} ELSE exitedFlag
    /\ clPass' = [clPass EXCEPT ![t] = 1] /\ clKey' = [clKey EXCEPT ![t] = MaxKey]
    /\ clRetry' = [clRetry EXCEPT ![t] = FALSE]
    /\ UNCHANGED <<thrList, thrNumber, tlsSlots>>

\* What the cleanup procedure of a key may set again: slot 1 by asking for its name.
Resets(t) == IF clPass[t] <= ResetPasses THEN SUBSET TlsKeys ELSE {{}}

\* CleanupThread for key 1, the owner's procedure for the others.
CleanupKey(t) ==
    LET k == clKey[t] IN
    /\ osState[t] = "ending" /\ k \in tlsSlots[t]
    /\ IF k = 1
       THEN /\ thrList' = thrList \ {<<t, thrNumber[t]>>}
            /\ tlsSlots' = [tlsSlots EXCEPT ![t] = @ \ {1}]
            /\ UNCHANGED thrNumber
       ELSE \E set \in Resets(t) :
            /\ tlsSlots' = [tlsSlots EXCEPT ![t] = (@ \ {k}) \cup set]
            /\ IF 1 \in set /\ NeedsThread(t) THEN NewThread(t) ELSE UNCHANGED <<thrNumber, thrList>>
    /\ clKey' = [clKey EXCEPT ![t] = k - 1] /\ clRetry' = [clRetry EXCEPT ![t] = TRUE]
    /\ UNCHANGED <<osState, clPass, exitedFlag>>

SkipKey(t) ==
    /\ osState[t] = "ending" /\ clKey[t] > 0 /\ clKey[t] \notin tlsSlots[t]
    /\ clKey' = [clKey EXCEPT ![t] = @ - 1]
    /\ UNCHANGED <<osState, thrList, thrNumber, tlsSlots, clPass, clRetry, exitedFlag>>

\* Mutant: one pass less.
AnotherPassShort(t) == clRetry[t] /\ clPass[t] < TlsTrys

\* while (retry && trys++ < 5): the first pass and five more.
AnotherPass(t) == clRetry[t] /\ clPass[t] - 1 < TlsTrys

NsCleanupTls(t) ==
    /\ osState[t] = "ending" /\ clKey[t] = 0
    /\ IF AnotherPass(t)
       THEN /\ clPass' = [clPass EXCEPT ![t] = @ + 1] /\ clKey' = [clKey EXCEPT ![t] = MaxKey]
            /\ clRetry' = [clRetry EXCEPT ![t] = FALSE] /\ UNCHANGED osState
       ELSE osState' = [osState EXCEPT ![t] = "gone"] /\ UNCHANGED <<clPass, clKey, clRetry>>
    /\ UNCHANGED <<thrList, thrNumber, tlsSlots, exitedFlag>>

LibNext == \E t \in LibThreads :
    \/ GetThread(t) \/ NsThreadMain(t)
    \/ CleanupKey(t) \/ SkipKey(t) \/ NsCleanupTls(t)
    \/ \E p \in LibThreads : Ns_ThreadCreate(p, t)
    \/ \E k \in TlsKeys : Ns_TlsSet(t, k)
    \/ \E flag \in BOOLEAN : Ns_ThreadExit(t, flag)

LibSpec == LibInit /\ [][LibNext]_libVars

\* What Ns_ThreadList shows.
Ns_ThreadList == thrList \ exitedFlag

(***************************************************************************)
(* The list holds the structure of every thread that has one and of the    *)
(* threads that are about to start, and no others, although cleanup        *)
(* procedures that ask for the thread's name bring the structure back      *)
(* after CleanupThread: so CleanupThread's walk always finds what it looks *)
(* for, and Ns_ThreadList shows no freed memory and every running thread.  *)
(***************************************************************************)
ThreadListExact ==
    /\ \A t \in LibThreads : osState[t] = "running" /\ 1 \in tlsSlots[t] => <<t, thrNumber[t]>> \in Ns_ThreadList
    /\ thrList = {<<t, thrNumber[t]>> : t \in {u \in LibThreads : 1 \in tlsSlots[u] \/ osState[u] = "created"}}

(***************************************************************************)
(* A thread that is gone has left nothing behind, if its cleanup           *)
(* procedures stop setting slots after as many passes as NsCleanupTls      *)
(* repeats.                                                                *)
(***************************************************************************)
TlsAllCleaned == \A t \in LibThreads : osState[t] = "gone" => tlsSlots[t] = {}

(***************************************************************************)
(* Thread list and thread local storage together.                          *)
(***************************************************************************)
ThreadLibInv == ThreadListExact /\ TlsAllCleaned

-----------------------------------------------------------------------------
(***************************************************************************)
(* The Tcl commands for locks and threads (nsd/tclthread.c): ns_mutex,     *)
(* ns_cond and ns_thread.  The objects live in a table of the server,      *)
(* under a name the script gives or one that is made up; every command     *)
(* looks its object up, and creates it if there is none.                   *)
(***************************************************************************)

CONSTANTS
    SyThreads,      \* threads that run Tcl
    SyNames,        \* names scripts use: numbers, since ns:mutex:tcl:<n> is a name like any other
    SyMade          \* bound: objects of a kind

None == 0           \* nobody, nothing

ASSUME SyAssumption == None \notin SyThreads /\ SyNames \subseteq Nat

VARIABLES
    locks,          \* mutexTable and the objects in it: [table : name -> address, held : address -> thread]
    lockId,         \* servPtr->tcl.synch.mutexId
    syThread,       \* what each thread does
    upAndRunning,        \* has the server started? (Ns_WaitForStartup)
    kid             \* a thread of ns_thread begin
synchVars == <<locks, lockId, syThread, upAndRunning, kid>>

SyIdle == [at |-> "idle", obj |-> None, name |-> -1]
SynchInit ==
    /\ locks = [table |-> <<>>, held |-> <<>>] /\ lockId = 0
    /\ syThread = [t \in SyThreads |-> SyIdle]
    /\ upAndRunning = FALSE
    /\ kid = "none"

----------------------------------------------------------------------------
(* CreateSynchObject *)

TableAt(L, n) == L.table[CHOOSE k \in DOMAIN L.table : L.table[k].name = n].addr
NamesOf(L) == {L.table[k].name : k \in DOMAIN L.table}
Entered(L, n) ==
    [table |-> Append(L.table, [name |-> n, addr |-> Len(L.held) + 1]), held |-> Append(L.held, None)]

\* Mutant: the made-up name is taken even if a script used it before.
FreshNameNoLoop(L, id) == id

\* The loop that makes up a name that is not in the table; the next number comes after it.
FreshName(L, id) == CHOOSE n \in id..(id + Cardinality(NamesOf(L))) :
                        n \notin NamesOf(L) /\ \A m \in id..(n - 1) : m \in NamesOf(L)

\* Mutant: every command gets an object of its own.
NamedObjectOwn(L, n) == Entered(L, n)

\* With a name, the object there is or a new one.
NamedObject(L, n) == IF n \in NamesOf(L) THEN L ELSE Entered(L, n)

\* The argument of the command when it has three words; the commands with a script have four,
\* and CreateSynchObject gets no name.
GetNamed(n) ==
    /\ n \in NamesOf(locks) \/ Len(locks.held) < SyMade
    /\ locks' = NamedObject(locks, n) /\ UNCHANGED lockId
MadeUp == IF FreshName(locks, lockId) \in NamesOf(locks) THEN locks ELSE Entered(locks, FreshName(locks, lockId))

----------------------------------------------------------------------------
(* ns_mutex, ns_critsec, ns_rwlock *)

SyAt(t, at, obj, n) == syThread' = [syThread EXCEPT ![t] = [at |-> at, obj |-> obj, name |-> n]]

\* "create" without and with a name; "destroy" only looks the object up.
LockCreate(t) ==
    /\ syThread[t].at = "idle" /\ Len(locks.held) < SyMade
    /\ locks' = MadeUp /\ lockId' = FreshName(locks, lockId) + 1
    /\ SyAt(t, "created", TableAt(locks', FreshName(locks, lockId)), FreshName(locks, lockId))
    /\ UNCHANGED <<upAndRunning, kid>>
LockNamed(t, n) ==
    /\ syThread[t].at = "idle"
    /\ GetNamed(n)
    /\ UNCHANGED <<syThread, upAndRunning, kid>>

\* "lock", "enter", "writelock": the object is looked up, then waited for.
LockWait(t, n) ==
    /\ syThread[t].at \in {"idle", "created"}
    /\ GetNamed(n) /\ SyAt(t, "lock", TableAt(locks', n), n)
    /\ UNCHANGED <<upAndRunning, kid>>
\* "eval": the same with a name that nobody gave, and a script after it.
LockEval(t, n) ==
    /\ syThread[t].at = "idle" /\ Len(locks.held) < SyMade
    /\ locks' = MadeUp /\ lockId' = FreshName(locks, lockId) + 1
    /\ SyAt(t, "evallock", TableAt(locks', FreshName(locks, lockId)), n)
    /\ UNCHANGED <<upAndRunning, kid>>
Locked(t) ==
    /\ syThread[t].at \in {"lock", "evallock"} /\ locks.held[syThread[t].obj] = None
    /\ locks' = [locks EXCEPT !.held[syThread[t].obj] = t]
    /\ syThread' = [syThread EXCEPT ![t].at = IF @ = "lock" THEN "holds" ELSE "eval"]
    /\ UNCHANGED <<lockId, upAndRunning, kid>>
LockTry(t, n) ==
    /\ syThread[t].at = "idle"
    /\ n \in NamesOf(locks)
    /\ LET a == TableAt(locks, n)
       IN /\ locks.held[a] = None
          /\ locks' = [locks EXCEPT !.held[a] = t] /\ SyAt(t, "holds", a, n)
    /\ UNCHANGED <<lockId, upAndRunning, kid>>

\* "unlock" by its name, and the end of "eval", whatever the script returned.
Unlocked(t) ==
    /\ syThread[t].at \in {"holds", "eval"}
    /\ LET a == IF syThread[t].at = "eval" THEN syThread[t].obj ELSE TableAt(locks, syThread[t].name)
       IN locks' = [locks EXCEPT !.held[a] = None]
    /\ SyAt(t, "idle", None, -1)
    /\ UNCHANGED <<lockId, upAndRunning, kid>>

----------------------------------------------------------------------------
(* ns_cond wait, with a mutex the thread holds *)

CondWait(t) ==
    /\ syThread[t].at = "holds"
    /\ locks' = [locks EXCEPT !.held[syThread[t].obj] = None]
    /\ syThread' = [syThread EXCEPT ![t].at = "cond"]
    /\ UNCHANGED <<lockId, upAndRunning, kid>>
\* "signal" wakes one, "broadcast" all; a timeout wakes as well.  The mutex is taken again.
CondWoken(S) ==
    syThread' = [t \in SyThreads |-> IF t \in S THEN [syThread[t] EXCEPT !.at = "lock"] ELSE syThread[t]]
CondSignal(t) ==
    LET waiting == {u \in SyThreads : syThread[u].at = "cond"}
    IN /\ syThread[t].at \in {"idle", "holds"} /\ waiting # {}
       /\ (\E u \in waiting : CondWoken({u})) \/ CondWoken(waiting)
       /\ UNCHANGED <<locks, lockId, upAndRunning, kid>>

----------------------------------------------------------------------------
(* ns_thread: a thread that "begin" starts and "wait" joins *)

ServerStarts ==
    /\ ~upAndRunning /\ upAndRunning' = TRUE
    /\ UNCHANGED <<locks, lockId, syThread, kid>>
ThreadBegin(t) ==
    /\ syThread[t].at = "idle" /\ kid = "none"
    /\ kid' = "created"
    /\ UNCHANGED <<locks, lockId, syThread, upAndRunning>>

\* Mutant: the thread does not wait for the server.
MayRunAtOnce == TRUE

\* Ns_WaitForStartup in NsTclThread
MayRun == upAndRunning
NsTclThread ==
    /\ \/ kid = "created" /\ MayRun /\ kid' = "runs"
       \/ kid = "runs" /\ kid' = "exited"
    /\ UNCHANGED <<locks, lockId, syThread, upAndRunning>>
ThreadWait(t) ==
    /\ syThread[t].at = "idle" /\ kid = "exited"
    /\ kid' = "joined"
    /\ UNCHANGED <<locks, lockId, syThread, upAndRunning>>

LockNext(t) ==
    \/ LockCreate(t) \/ Locked(t) \/ Unlocked(t) \/ CondWait(t) \/ CondSignal(t)
    \/ \E n \in SyNames : LockNamed(t, n) \/ LockWait(t, n) \/ LockEval(t, n) \/ LockTry(t, n)
ThreadNext(t) == ThreadBegin(t) \/ ThreadWait(t)
SynchNext == ServerStarts \/ NsTclThread \/ \E t \in SyThreads : LockNext(t) \/ ThreadNext(t)
SynchSpec == SynchInit /\ [][SynchNext]_synchVars

----------------------------------------------------------------------------
(* Properties *)

SynchTypeOK ==
    /\ lockId \in Nat /\ upAndRunning \in BOOLEAN
    /\ \A k \in DOMAIN locks.held : locks.held[k] \in SyThreads \cup {None}

\* The table gives every name one object, and no two names the same one.
TableOneToOne ==
    \A j, k \in DOMAIN locks.table :
        j # k => locks.table[j].name # locks.table[k].name /\ locks.table[j].addr # locks.table[k].addr

\* "lock": no two threads hold the lock of one name, however the name got its object, also
\* around a wait for a condition.
LockExcludes ==
    \A t, u \in SyThreads : t # u /\ syThread[t].at = "holds" /\ syThread[u].at = "holds"
                                => syThread[t].name # syThread[u].name

\* No script of ns_thread runs before the server has started, and a thread is joined after it.
ScriptsAfterStart == kid \in {"runs", "exited", "joined"} => upAndRunning

SynchInv == SynchTypeOK /\ TableOneToOne /\ LockExcludes /\ ScriptsAfterStart

\* "create" without a name returns a lock that nobody could have used before.
CreatedFresh ==
    [][\A t \in SyThreads : syThread[t].at = "idle" /\ syThread'[t].at = "created"
                                => syThread'[t].obj \notin DOMAIN locks.held]_synchVars

\* "eval": the script runs while the lock of that name is held, so no two threads run one.
EvalExcludes ==
    \A t, u \in SyThreads : t # u /\ syThread[t].at \in {"eval", "holds"} /\ syThread[u].at \in {"eval", "holds"}
                                => syThread[t].name # syThread[u].name

-----------------------------------------------------------------------------
(***************************************************************************)
(* The three side by side: they share no state.                            *)
(***************************************************************************)

ThreadsInit == CritInit /\ LibInit /\ SynchInit
ThreadsNext ==
    \/ CritNext /\ UNCHANGED <<libVars, synchVars>>
    \/ LibNext /\ UNCHANGED <<critVars, synchVars>>
    \/ SynchNext /\ UNCHANGED <<critVars, libVars>>
ThreadsSpec == ThreadsInit /\ [][ThreadsNext]_<<critVars, libVars, synchVars>>

\* Critical sections exclude and semaphores lose no post; the list of threads
\* is exact and thread-local values are cleaned up; a Tcl lock has one holder
\* and is found under one name.
ThreadInv == CritInv /\ ThreadLibInv /\ SynchInv
=============================================================================
