------------------------------- MODULE DbPool --------------------------------
(***************************************************************************)
(* A database pool of nsdb (nsdb/dbinit.c) and the Tcl interpreters that   *)
(* use it (nsdb/dbtcl.c): threads take one or several handles at once,     *)
(* give them back, and a periodic check or a bounce closes stale ones.     *)
(*                                                                         *)
(* Times are left out: a connected handle may be found too old or too long *)
(* idle at any check.  opened is a history variable: the bounce count of   *)
(* the pool when the handle's connection was opened.                       *)
(***************************************************************************)
EXTENDS Integers, FiniteSets, SequencesExt

CONSTANTS
    DbHandles,
    DbThreads,
    DbCheckers,      \* threads in CheckPool: the scheduler's, those of ns_db bouncepool
    DbTimedWait,     \* TRUE: callers give a timeout
    DbBounces        \* bound on the bounces

VARIABLES
    dbList,          \* firstPtr .. lastPtr
    waiting,
    connected, hstale, hgen,   \* a handle's connected, stale, stale_on_close
    pgen,            \* the pool's stale_on_close
    opened,
    dpc,             \* threads: "out", "gate", "gateUp", "get", "getUp", "connect", "own", "put"
    nwant,
    dbs,             \* handles of a thread: being collected, or in its interpreter's table
    dput,            \* a thread's handles between their check and their return
    kpc,             \* checkers: "no", "took", "checked"
    ktook            \* handles a checker took

dbHandle == <<connected, hstale, hgen, opened>>
dbVars == <<dbList, waiting, connected, hstale, hgen, pgen, opened, dpc, nwant, dbs, dput, kpc, ktook>>

\* CreatePool: all handles in the list, none connected.
DbInit ==
    /\ dbList = SetToSeq(DbHandles) /\ waiting = FALSE
    /\ connected = [h \in DbHandles |-> FALSE] /\ hstale = connected
    /\ hgen = [h \in DbHandles |-> 0] /\ opened = hgen /\ pgen = 0
    /\ dpc = [t \in DbThreads |-> "out"] /\ nwant = [t \in DbThreads |-> 0]
    /\ dbs = [t \in DbThreads |-> <<>>] /\ dput = [t \in DbThreads |-> {}]
    /\ kpc = [k \in DbCheckers |-> "no"] /\ ktook = [k \in DbCheckers |-> <<>>]

\* Variant of ReturnHandle for mutation: always to the end of the list.
ReturnHandleLast(list, h) == Append(list, h)

\* ReturnHandle, for each handle of a sequence: connected ones to the front.
ReturnHandle(list, h) == IF connected'[h] THEN <<h>> \o list ELSE Append(list, h)

ReturnHandles(list, hs) == FoldLeft(ReturnHandle, list, hs)

\* IsStale; old: the handle has been idle or open for too long.
IsStale(h, old) == connected[h] /\ (h \in old \/ hstale[h] \/ pgen > hgen[h])

\* NsDbDisconnect.
NsDbDisconnect(hs) ==
    /\ connected' = [h \in DbHandles |-> connected[h] /\ h \notin hs]
    /\ hstale' = [h \in DbHandles |-> hstale[h] /\ h \notin hs]

\* Ns_CondSignal(&getCond): at most one thread waits there.
GetSignalled == [t \in DbThreads |-> IF waiting /\ dpc[t] = "get" THEN "getUp" ELSE dpc[t]]

\* Ns_CondSignal(&waitCond), after a move of thread t to state s.
WaitSignalled(t, s) ==
    LET gates == {u \in DbThreads : dpc[u] = "gate"}
        moved == [dpc EXCEPT ![t] = s]
    IN  IF gates = {} THEN dpc' = moved
        ELSE \E u \in gates : dpc' = [moved EXCEPT ![u] = "gateUp"]

\* The loop over the list with the lock held: take what there is, wait on
\* getCond for the rest.
DbTake(t, n) ==
    LET need == n - Len(dbs[t])
        k    == IF Len(dbList) < need THEN Len(dbList) ELSE need
    IN  /\ dbs' = [dbs EXCEPT ![t] = @ \o SubSeq(dbList, 1, k)]
        /\ dbList' = SubSeq(dbList, k + 1, Len(dbList))
        /\ nwant' = [nwant EXCEPT ![t] = n]
        /\ IF k = need
           THEN waiting' = FALSE /\ WaitSignalled(t, "connect")
           ELSE waiting' = TRUE /\ dpc' = [dpc EXCEPT ![t] = "get"]

\* Ns_DbPoolTimedGetMultipleHandles by a thread that owns no handle (IncrCount).
DbGet(t, n) ==
    /\ dpc[t] = "out"
    /\ IF waiting
       THEN /\ dpc' = [dpc EXCEPT ![t] = "gate"] /\ nwant' = [nwant EXCEPT ![t] = n]
            /\ UNCHANGED <<dbList, waiting, dbs>>
       ELSE DbTake(t, n)
    /\ UNCHANGED <<dbHandle, pgen, dput, kpc, ktook>>

\* Woken at the gate: the exclusive getter, unless another thread was faster.
DbGateWakes(t) ==
    /\ dpc[t] = "gateUp"
    /\ IF waiting
       THEN dpc' = [dpc EXCEPT ![t] = "gate"] /\ UNCHANGED <<dbList, waiting, nwant, dbs>>
       ELSE DbTake(t, nwant[t])
    /\ UNCHANGED <<dbHandle, pgen, dput, kpc, ktook>>

\* Woken with handles in the list.
DbGetWakes(t) ==
    /\ dpc[t] = "getUp"
    /\ DbTake(t, nwant[t])
    /\ UNCHANGED <<dbHandle, pgen, dput, kpc, ktook>>

\* The timeout at the gate.
DbGateTimeout(t) ==
    /\ DbTimedWait /\ dpc[t] = "gate"
    /\ dpc' = [GetSignalled EXCEPT ![t] = "out"]
    /\ nwant' = [nwant EXCEPT ![t] = 0]
    /\ UNCHANGED <<dbList, waiting, dbHandle, pgen, dbs, dput, kpc, ktook>>

\* The timeout of the getter: it takes one handle more if there is one, leaves
\* the gate, and with all handles in hand goes on after all.
DbGetTimeout(t) ==
    /\ DbTimedWait /\ dpc[t] \in {"get", "getUp"}
    /\ LET k == IF dbList = <<>> THEN 0 ELSE 1
       IN  /\ dbs' = [dbs EXCEPT ![t] = @ \o SubSeq(dbList, 1, k)]
           /\ dbList' = SubSeq(dbList, k + 1, Len(dbList))
           /\ WaitSignalled(t, IF Len(dbs[t]) + k = nwant[t] THEN "connect" ELSE "giveup")
    /\ waiting' = FALSE
    /\ nwant' = [nwant EXCEPT ![t] = 0]
    /\ UNCHANGED <<dbHandle, pgen, dput, kpc, ktook>>

\* Connect of the handles that have no connection, outside the lock; a failure
\* makes the thread give all of them back.
DbConnect(t) ==
    /\ dpc[t] = "connect"
    /\ LET closed == {h \in Range(dbs[t]) : ~ connected[h]}
       IN  \/ /\ connected' = [h \in DbHandles |-> connected[h] \/ h \in closed]
              /\ opened' = [h \in DbHandles |-> IF h \in closed THEN pgen ELSE opened[h]]
              /\ dpc' = [dpc EXCEPT ![t] = "own"]
           \/ \E bad \in closed :
                LET before == {h \in closed : \E i, j \in 1..Len(dbs[t]) :
                                  i < j /\ dbs[t][i] = h /\ dbs[t][j] = bad}
                IN  /\ connected' = [h \in DbHandles |-> connected[h] \/ h \in before]
                    /\ opened' = [h \in DbHandles |-> IF h \in before THEN pgen ELSE opened[h]]
                    /\ dpc' = [dpc EXCEPT ![t] = "giveup"]
    /\ nwant' = [nwant EXCEPT ![t] = 0]
    /\ UNCHANGED <<dbList, waiting, hstale, hgen, pgen, dbs, dput, kpc, ktook>>

\* Variant of DbGiveUp for mutation: the getter is not told of the handles.
DbGiveUpSilent(t) ==
    /\ dpc[t] = "giveup"
    /\ UNCHANGED <<dbHandle, waiting, pgen, nwant, dput, kpc, ktook>>
    /\ dbList' = ReturnHandles(dbList, Reverse(dbs[t]))
    /\ dbs' = [dbs EXCEPT ![t] = <<>>]
    /\ dpc' = [dpc EXCEPT ![t] = "out"]

\* The handles of a failed call go back, last one first.
DbGiveUp(t) ==
    /\ dpc[t] = "giveup"
    /\ UNCHANGED <<dbHandle, waiting, pgen, nwant, dput, kpc, ktook>>
    /\ dbList' = ReturnHandles(dbList, Reverse(dbs[t]))
    /\ dbs' = [dbs EXCEPT ![t] = <<>>]
    /\ dpc' = [GetSignalled EXCEPT ![t] = "out"]

\* ns_db disconnect on a handle of the thread.
DbDisconnect(t) ==
    /\ dpc[t] = "own"
    /\ \E h \in Range(dbs[t]) : connected[h] /\ NsDbDisconnect({h})
    /\ UNCHANGED <<dbList, waiting, hgen, pgen, opened, dpc, nwant, dbs, dput, kpc, ktook>>

\* Variant of DbPut for mutation: the handle stays in the interpreter's table.
DbPutKeepsId(t) ==
    /\ dpc[t] = "own"
    /\ \E h \in Range(dbs[t]) : dput' = [dput EXCEPT ![t] = {h}]
    /\ dpc' = [dpc EXCEPT ![t] = "put"]
    /\ UNCHANGED <<dbList, waiting, dbHandle, pgen, dbs, nwant, kpc, ktook>>

\* Ns_DbPoolPutHandle (ns_db releasehandle, NsDbReleaseHandles): the check of
\* the handle, without the lock, then its return.
DbPut(t) ==
    /\ dpc[t] = "own"
    /\ \E h \in Range(dbs[t]), old \in BOOLEAN :
         /\ NsDbDisconnect({g \in {h} : IsStale(g, {x \in {h} : old})})
         /\ dput' = [dput EXCEPT ![t] = {h}]
         /\ dbs' = [dbs EXCEPT ![t] = SelectSeq(@, LAMBDA g : g # h)]
    /\ dpc' = [dpc EXCEPT ![t] = "put"]
    /\ UNCHANGED <<dbList, waiting, hgen, pgen, opened, nwant, kpc, ktook>>

\* Variant of DbPutReturn for mutation: no signal.
DbPutReturnSilent(t) ==
    /\ dpc[t] = "put"
    /\ UNCHANGED <<dbHandle, waiting, pgen, nwant, dbs, kpc, ktook>>
    /\ \E h \in dput[t] : dbList' = ReturnHandle(dbList, h)
    /\ dput' = [dput EXCEPT ![t] = {}]
    /\ dpc' = [dpc EXCEPT ![t] = IF dbs[t] = <<>> THEN "out" ELSE "own"]

DbPutReturn(t) ==
    /\ dpc[t] = "put"
    /\ UNCHANGED <<dbHandle, waiting, pgen, nwant, dbs, kpc, ktook>>
    /\ \E h \in dput[t] : dbList' = ReturnHandle(dbList, h)
    /\ dput' = [dput EXCEPT ![t] = {}]
    /\ dpc' = [GetSignalled EXCEPT ![t] = IF dbs[t] = <<>> THEN "out" ELSE "own"]

\* CheckPool: the whole list is taken, checked without the lock and returned.
DbCheckTake(k) ==
    /\ kpc[k] = "no" /\ dbList # <<>>
    /\ kpc' = [kpc EXCEPT ![k] = "took"] /\ ktook' = [ktook EXCEPT ![k] = dbList]
    /\ dbList' = <<>>
    /\ UNCHANGED <<waiting, dbHandle, pgen, dpc, nwant, dbs, dput>>

DbCheckStale(k) ==
    /\ kpc[k] = "took"
    /\ \E old \in SUBSET Range(ktook[k]) : NsDbDisconnect({h \in Range(ktook[k]) : IsStale(h, old)})
    /\ kpc' = [kpc EXCEPT ![k] = "checked"]
    /\ UNCHANGED <<dbList, waiting, hgen, pgen, opened, dpc, nwant, dbs, dput, ktook>>

DbCheckReturn(k) ==
    /\ kpc[k] = "checked"
    /\ UNCHANGED <<waiting, dbHandle, pgen, nwant, dbs, dput>>
    /\ dbList' = ReturnHandles(dbList, Reverse(ktook[k]))
    /\ dpc' = GetSignalled
    /\ kpc' = [kpc EXCEPT ![k] = "no"] /\ ktook' = [ktook EXCEPT ![k] = <<>>]

\* Variant of DbBounceMark for mutation: the listed handles are taken for new.
DbBounceMarkNone(listed) ==
    /\ hstale' = hstale
    /\ hgen' = [h \in DbHandles |-> IF h \in listed THEN pgen + 1 ELSE hgen[h]]

DbBounceMark(listed) ==
    /\ hstale' = [h \in DbHandles |-> hstale[h] \/ (h \in listed /\ connected[h])]
    /\ hgen' = [h \in DbHandles |-> IF h \in listed THEN pgen + 1 ELSE hgen[h]]

\* Ns_DbBouncePool marks the handles of the list; its CheckPool follows.
DbBounce(k) ==
    /\ kpc[k] = "no" /\ pgen < DbBounces
    /\ pgen' = pgen + 1
    /\ DbBounceMark(Range(dbList))
    /\ kpc' = [kpc EXCEPT ![k] = "bounce"]
    /\ UNCHANGED <<dbList, waiting, connected, opened, dpc, nwant, dbs, dput, ktook>>

DbBounceTake(k) ==
    /\ kpc[k] = "bounce"
    /\ kpc' = [kpc EXCEPT ![k] = IF dbList = <<>> THEN "no" ELSE "took"]
    /\ ktook' = [ktook EXCEPT ![k] = dbList]
    /\ dbList' = <<>>
    /\ UNCHANGED <<waiting, dbHandle, pgen, dpc, nwant, dbs, dput>>

DbNext ==
    \/ \E t \in DbThreads, n \in 1..Cardinality(DbHandles) : DbGet(t, n)
    \/ \E t \in DbThreads :
         \/ DbGateWakes(t) \/ DbGetWakes(t) \/ DbGateTimeout(t) \/ DbGetTimeout(t)
         \/ DbConnect(t) \/ DbGiveUp(t) \/ DbDisconnect(t) \/ DbPut(t) \/ DbPutReturn(t)
    \/ \E k \in DbCheckers :
         \/ DbCheckTake(k) \/ DbCheckStale(k) \/ DbCheckReturn(k) \/ DbBounce(k) \/ DbBounceTake(k)

DbThreadRuns(t) ==
    DbGateWakes(t) \/ DbGetWakes(t) \/ DbConnect(t) \/ DbGiveUp(t) \/ DbPutReturn(t)

DbCheckerRuns(k) == DbCheckStale(k) \/ DbCheckReturn(k) \/ DbBounceTake(k)

\* A thread that can run does, and gives its handles back in the end: the
\* interpreter's deallocation does that (NsDbReleaseHandles).  A check takes the
\* list once in a checkinterval, so a woken getter finds it full in the end.
DbFair ==
    /\ \A t \in DbThreads :
         /\ WF_dbVars(DbThreadRuns(t))
         /\ WF_dbVars(DbPut(t))
         /\ SF_dbVars(dbList # <<>> /\ DbGetWakes(t))
    /\ \A k \in DbCheckers : WF_dbVars(DbCheckerRuns(k))

DbSpec == DbInit /\ [][DbNext]_dbVars /\ DbFair

------------------------------------------------------------------------------
Places(h) ==
    Cardinality({i \in DOMAIN dbList : dbList[i] = h})
    + Cardinality({<<t, i>> \in DbThreads \X (1..Cardinality(DbHandles)) :
                     i <= Len(dbs[t]) /\ dbs[t][i] = h})
    + Cardinality({t \in DbThreads : h \in dput[t]})
    + Cardinality({<<k, i>> \in DbCheckers \X (1..Cardinality(DbHandles)) :
                     i <= Len(ktook[k]) /\ ktook[k][i] = h})

\* Every handle is in exactly one place: in the list, with one thread, or with
\* one checker.  Timeouts, failed connects and overlapping checks neither lose
\* a handle nor hand it to two threads.
DbHandleOnce == \A h \in DbHandles : Places(h) = 1

\* No signal is missed: the getter asleep on getCond has an empty list, it is
\* the only one, and threads asleep at the gate have a getter that will signal
\* them or one of them is already woken.
DbNoMissedSignal ==
    /\ \A t \in DbThreads : dpc[t] = "get" => waiting /\ dbList = <<>>
    /\ Cardinality({t \in DbThreads : dpc[t] \in {"get", "getUp"}}) = (IF waiting THEN 1 ELSE 0)
    /\ (\E t \in DbThreads : dpc[t] = "gate") => waiting \/ \E t \in DbThreads : dpc[t] = "gateUp"

\* A connection opened before a bounce is found stale at the next check of its
\* handle, wherever the handle was during the bounce (ns_db bouncepool).
DbBounceSticks ==
    \A h \in DbHandles :
        connected[h] /\ opened[h] < pgen => hstale[h] \/ hgen[h] < pgen

\* ReturnHandle keeps the connected handles before the others, so that a call
\* opens a connection only when no connected handle is free.
DbConnectedFirst ==
    \A i, j \in DOMAIN dbList : i < j /\ connected[dbList[j]] => connected[dbList[i]]

\* The exclusive getter gets its handles, however many it wants and whatever
\* the other threads do, provided threads give their handles back.
DbGetterServed == \A t \in DbThreads : dpc[t] \in {"get", "getUp"} ~> dpc[t] = "connect"
=============================================================================
