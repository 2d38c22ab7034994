----------------------------- MODULE ProxyPool ------------------------------
(***************************************************************************)
(* A pool of proxies (nsproxy/nsproxylib.c): ns_proxy get takes one or     *)
(* several proxies from the free list or waits for them, put gives them    *)
(* back, configure changes maxslaves, the reaper thread trims the list and *)
(* closes slave processes that were idle for too long, and Shutdown        *)
(* empties it.                                                             *)
(*                                                                         *)
(* Every action but the checks of a proxy is one critical section of the   *)
(* pool's lock.  What a check finds (CheckProxy: a ping, or a new slave)   *)
(* is left open here; PxConfigures says whether maxslaves changes and the  *)
(* pool is shut down.                                                      *)
(***************************************************************************)
EXTENDS Integers, FiniteSets, Sequences, SequencesExt

CONSTANTS
    PxIds,          \* Proxy structures
    PxThreads,
    PxMax,          \* maxslaves in the configuration file
    PxMaxes,        \* the values configure gives to maxslaves
    PxTimed,        \* gets have a timeout
    PxConfigures

VARIABLES
    pxfree,         \* firstPtr: the list of available proxies
    nfree, nused, maxslaves,
    pxwaiting,      \* poolPtr->waiting
    pxlive,         \* the Proxy structures that exist
    pxslave,        \* their slaves: "none", "idle", "expired"
    pxpc,           \* threads: "idle", "gate", "gatewoken", "get", "getwoken", "check", "have", "push"
    pxwant,         \* handles asked for
    pxhas,          \* handles a thread has in its hands
    pxcnt,          \* the count of its interpreter for this pool
    pxdown          \* Shutdown has been called

pxtVars == <<pxpc, pxwant, pxhas, pxcnt>>
proxyVars == <<pxfree, nfree, nused, maxslaves, pxwaiting, pxlive, pxslave, pxtVars, pxdown>>

\* GetPool.
PxInit ==
    /\ pxfree = SubSeq(SetToSeq(PxIds), 1, PxMax)
    /\ nfree = PxMax /\ nused = 0 /\ maxslaves = PxMax /\ pxwaiting = FALSE
    /\ pxlive = {pxfree[i] : i \in 1 .. PxMax} /\ pxslave = [p \in PxIds |-> "none"]
    /\ pxpc = [t \in PxThreads |-> "idle"] /\ pxwant = [t \in PxThreads |-> 0]
    /\ pxhas = [t \in PxThreads |-> {}] /\ pxcnt = [t \in PxThreads |-> 0] /\ pxdown = FALSE

\* Ns_CondBroadcast(&poolPtr->cond) for threads at the positions of pc.
PxBroadcast(pc) ==
    [t \in PxThreads |-> IF pc[t] = "gate" THEN "gatewoken" ELSE IF pc[t] = "get" THEN "getwoken" ELSE pc[t]]

-----------------------------------------------------------------------------
(* PopProxy.                                                                *)

\* From waiting = 1 on: wait for enough proxies, fail, or take them.
PxTake(t, n) ==
    IF nfree < n /\ maxslaves >= n
    THEN /\ pxwaiting' = TRUE /\ pxpc' = [pxpc EXCEPT ![t] = "get"]
         /\ UNCHANGED <<pxfree, nfree, nused, pxhas, pxcnt>>
    ELSE /\ pxwaiting' = FALSE
         /\ IF maxslaves < n
            THEN /\ pxpc' = PxBroadcast([pxpc EXCEPT ![t] = "idle"])
                 /\ UNCHANGED <<pxfree, nfree, nused, pxhas, pxcnt>>
            ELSE /\ nfree' = nfree - n /\ nused' = nused + n
                 /\ pxfree' = SubSeq(pxfree, n + 1, Len(pxfree))
                 /\ pxhas' = [pxhas EXCEPT ![t] = @ \cup {pxfree[i] : i \in 1 .. n}]
                 /\ pxcnt' = [pxcnt EXCEPT ![t] = n]
                 /\ pxpc' = PxBroadcast([pxpc EXCEPT ![t] = "check"])

\* Mutant: a thread that has proxies may ask for more.
PxGetAgain(t, n) ==
    /\ pxpc[t] \in {"idle", "have"} /\ ~pxdown
    /\ pxwant' = [pxwant EXCEPT ![t] = n]
    /\ IF pxwaiting
       THEN pxpc' = [pxpc EXCEPT ![t] = "gate"] /\ UNCHANGED <<pxfree, nfree, nused, pxwaiting, pxhas, pxcnt>>
       ELSE PxTake(t, n)
    /\ UNCHANGED <<maxslaves, pxlive, pxslave, pxdown>>

\* GetObjCmd: an interpreter that has handles of the pool gets no more.
PxGet(t, n) ==
    /\ pxpc[t] = "idle" /\ pxcnt[t] = 0 /\ ~pxdown
    /\ pxwant' = [pxwant EXCEPT ![t] = n]
    /\ IF pxwaiting
       THEN pxpc' = [pxpc EXCEPT ![t] = "gate"] /\ UNCHANGED <<pxfree, nfree, nused, pxwaiting, pxhas, pxcnt>>
       ELSE PxTake(t, n)
    /\ UNCHANGED <<maxslaves, pxlive, pxslave, pxdown>>

PxGateWakes(t) ==
    /\ pxpc[t] = "gatewoken"
    /\ IF pxwaiting
       THEN pxpc' = [pxpc EXCEPT ![t] = "gate"] /\ UNCHANGED <<pxfree, nfree, nused, pxwaiting, pxhas, pxcnt>>
       ELSE PxTake(t, pxwant[t])
    /\ UNCHANGED <<maxslaves, pxlive, pxslave, pxwant, pxdown>>

PxGetWakes(t) ==
    /\ pxpc[t] = "getwoken"
    /\ PxTake(t, pxwant[t])
    /\ UNCHANGED <<maxslaves, pxlive, pxslave, pxwant, pxdown>>

\* Mutant: a getter that times out leaves the gate closed.
PxTimeoutShut(t) ==
    /\ PxTimed
    /\ pxpc[t] \in {"gate", "gatewoken", "get", "getwoken"}
    /\ pxpc' = [pxpc EXCEPT ![t] = "idle"]
    /\ UNCHANGED <<pxfree, nfree, nused, maxslaves, pxwaiting, pxlive, pxslave, pxwant, pxhas, pxcnt, pxdown>>

\* Ns_CondTimedWait times out: at the gate nothing is held, past it the gate
\* is opened again.
PxTimeout(t) ==
    /\ PxTimed
    /\ \/ /\ pxpc[t] \in {"gate", "gatewoken"}
          /\ pxpc' = [pxpc EXCEPT ![t] = "idle"] /\ UNCHANGED pxwaiting
       \/ /\ pxpc[t] \in {"get", "getwoken"}
          /\ pxwaiting' = FALSE /\ pxpc' = PxBroadcast([pxpc EXCEPT ![t] = "idle"])
    /\ UNCHANGED <<pxfree, nfree, nused, maxslaves, pxlive, pxslave, pxwant, pxhas, pxcnt, pxdown>>

\* CheckProxy of all handles: each has a slave, or the first one that could
\* not be started makes the command give all of them back.
PxCheck(t) ==
    /\ pxpc[t] = "check"
    /\ pxpc' \in {[pxpc EXCEPT ![t] = "have"], [pxpc EXCEPT ![t] = "push"]}
    /\ pxslave' \in [PxIds -> {"none", "idle", "expired"}]
    /\ \A p \in PxIds \ pxhas[t] : pxslave'[p] = pxslave[p]
    /\ \A p \in pxhas[t] : pxslave'[p] # "expired"
    /\ pxpc'[t] = "have" => \A p \in pxhas[t] : pxslave'[p] = "idle"
    /\ pxpc'[t] = "push" => \E p \in pxhas[t] : pxslave'[p] = "none"
    /\ UNCHANGED <<pxfree, nfree, nused, maxslaves, pxwaiting, pxlive, pxwant, pxhas, pxcnt, pxdown>>

-----------------------------------------------------------------------------
(* PushProxy.                                                               *)

PushKept(p) ==
    /\ pxfree' = <<p>> \o pxfree /\ nfree' = nfree + 1
    /\ UNCHANGED <<pxlive, pxslave>>

PushFreed(p) ==
    /\ pxlive' = pxlive \ {p} /\ pxslave' = [pxslave EXCEPT ![p] = "none"]
    /\ UNCHANGED <<pxfree, nfree>>

\* Mutant: a proxy comes back without waking the getters.
PushProxySilent(t, p) ==
    LET pc == [pxpc EXCEPT ![t] = IF pxhas[t] = {p} THEN "idle" ELSE @]
    IN  /\ pxhas' = [pxhas EXCEPT ![t] = @ \ {p}] /\ pxcnt' = [pxcnt EXCEPT ![t] = @ - 1]
        /\ nused' = nused - 1
        /\ IF nused - 1 + nfree <= maxslaves THEN PushKept(p) /\ pxpc' = pc ELSE PushFreed(p) /\ pxpc' = pc

\* Mutant: a proxy that is freed is still counted as used.
PushProxyUncounted(t, p) ==
    LET pc == [pxpc EXCEPT ![t] = IF pxhas[t] = {p} THEN "idle" ELSE @]
    IN  /\ pxhas' = [pxhas EXCEPT ![t] = @ \ {p}] /\ pxcnt' = [pxcnt EXCEPT ![t] = @ - 1]
        /\ IF nused - 1 + nfree <= maxslaves
           THEN PushKept(p) /\ pxpc' = PxBroadcast(pc) /\ nused' = nused - 1
           ELSE PushFreed(p) /\ pxpc' = pc /\ nused' = nused

\* Mutant: off by one, a proxy that just fits is freed.
PushProxyStrict(t, p) ==
    LET pc == [pxpc EXCEPT ![t] = IF pxhas[t] = {p} THEN "idle" ELSE @]
    IN  /\ pxhas' = [pxhas EXCEPT ![t] = @ \ {p}] /\ pxcnt' = [pxcnt EXCEPT ![t] = @ - 1]
        /\ nused' = nused - 1
        /\ IF nused + nfree < maxslaves THEN PushKept(p) /\ pxpc' = PxBroadcast(pc) ELSE PushFreed(p) /\ pxpc' = pc

\* Another proxy than those in use fits, or the proxy is closed and freed
\* (the count is compared before the proxy is added to nfree).
PushProxy(t, p) ==
    LET pc == [pxpc EXCEPT ![t] = IF pxhas[t] = {p} THEN "idle" ELSE @]
    IN  /\ pxhas' = [pxhas EXCEPT ![t] = @ \ {p}] /\ pxcnt' = [pxcnt EXCEPT ![t] = @ - 1]
        /\ nused' = nused - 1
        /\ IF nused - 1 + nfree <= maxslaves THEN PushKept(p) /\ pxpc' = PxBroadcast(pc) ELSE PushFreed(p) /\ pxpc' = pc

\* ns_proxy put, cleanup, the end of the interpreter, and a failed get.
PxPut(t, p) ==
    /\ pxpc[t] \in {"have", "push"} /\ p \in pxhas[t]
    /\ PushProxy(t, p)
    /\ UNCHANGED <<maxslaves, pxwaiting, pxwant, pxdown>>

-----------------------------------------------------------------------------
(* ConfigureObjCmd, ns_proxy clear, ReaperThread and Shutdown.              *)

PxConfigure(m) ==
    /\ PxConfigures /\ ~pxdown
    /\ maxslaves' = m
    /\ LET n == IF nfree + nused < m THEN m - nfree - nused ELSE 0
           new == CHOOSE S \in SUBSET (PxIds \ pxlive) : Cardinality(S) = n
       IN  /\ n <= Cardinality(PxIds \ pxlive)
           /\ pxfree' = SetToSeq(new) \o pxfree /\ nfree' = nfree + n /\ pxlive' = pxlive \cup new
    /\ UNCHANGED <<nused, pxwaiting, pxslave, pxtVars, pxdown>>

PxClear ==
    /\ \E p \in PxIds : p \in {pxfree[i] : i \in DOMAIN pxfree} /\ pxslave[p] # "none"
    /\ ~pxdown
    /\ pxslave' = [p \in PxIds |-> IF p \in {pxfree[i] : i \in DOMAIN pxfree} THEN "none" ELSE pxslave[p]]
    /\ UNCHANGED <<pxfree, nfree, nused, maxslaves, pxwaiting, pxlive, pxtVars, pxdown>>

PxExpires(p) ==
    /\ pxslave[p] = "idle" /\ p \in {pxfree[i] : i \in DOMAIN pxfree}
    /\ pxslave' = [pxslave EXCEPT ![p] = "expired"]
    /\ UNCHANGED <<pxfree, nfree, nused, maxslaves, pxwaiting, pxlive, pxtVars, pxdown>>

\* Mutant: a freed proxy stays in the list.
ReapOneKeeps(r, p) ==
    LET expire == pxslave[p] # "none" /\ (r.expire \/ pxslave[p] = "expired")
    IN  IF maxslaves < r.nfree + nused
        THEN [r EXCEPT !.expire = expire, !.nfree = @ - 1, !.freed = @ \cup {p}, !.kept = Append(@, p)]
        ELSE [r EXCEPT !.expire = expire, !.kept = Append(@, p),
                       !.closed = IF expire THEN @ \cup {p} ELSE @]

\* One turn of the loop over the free list: r is what has been done so far.
\* The flag expire is kept from one proxy to the next until one without slave.
ReapOne(r, p) ==
    LET expire == pxslave[p] # "none" /\ (r.expire \/ pxslave[p] = "expired")
    IN  IF maxslaves < r.nfree + nused
        THEN [r EXCEPT !.expire = expire, !.nfree = @ - 1, !.freed = @ \cup {p}]
        ELSE [r EXCEPT !.expire = expire, !.kept = Append(@, p),
                       !.closed = IF expire THEN @ \cup {p} ELSE @]

PxReap ==
    LET r == FoldLeft(ReapOne, [expire |-> FALSE, nfree |-> nfree, freed |-> {}, closed |-> {}, kept |-> <<>>], pxfree)
    IN  /\ ~pxdown
        /\ r.freed \cup r.closed # {}
        /\ pxfree' = r.kept /\ nfree' = r.nfree /\ pxlive' = pxlive \ r.freed
        /\ pxslave' = [p \in PxIds |-> IF p \in r.freed \cup r.closed THEN "none" ELSE pxslave[p]]
        /\ UNCHANGED <<nused, maxslaves, pxwaiting, pxtVars, pxdown>>

\* Shutdown without a timeout: the free proxies are closed and freed, but
\* stay in the list and in nfree.
PxShutdown ==
    /\ PxConfigures /\ ~pxdown
    /\ pxdown' = TRUE /\ maxslaves' = 0
    /\ pxlive' = pxlive \ {pxfree[i] : i \in DOMAIN pxfree}
    /\ pxslave' = [p \in PxIds |-> IF p \in {pxfree[i] : i \in DOMAIN pxfree} THEN "none" ELSE pxslave[p]]
    /\ UNCHANGED <<pxfree, nfree, nused, pxwaiting, pxtVars>>

PxThreadRuns(t) == PxGetWakes(t) \/ PxCheck(t) \/ \E p \in PxIds : PxPut(t, p)

PxNext ==
    \/ \E t \in PxThreads : PxGateWakes(t) \/ PxTimeout(t) \/ PxThreadRuns(t) \/ \E n \in 1 .. 2 : PxGet(t, n)
    \/ \E m \in PxMaxes : PxConfigure(m)
    \/ PxClear \/ PxReap \/ PxShutdown \/ \E p \in PxIds : PxExpires(p)

\* Threads run and give their handles back in the end (the trace that releases
\* all handles when an interpreter is deallocated), and a thread is not kept
\* from a gate that opens again and again.
PxFair ==
    \A t \in PxThreads : WF_proxyVars(PxThreadRuns(t)) /\ SF_proxyVars(~pxwaiting /\ PxGateWakes(t))

PxSpec == PxInit /\ [][PxNext]_proxyVars /\ PxFair

-----------------------------------------------------------------------------
(* Properties.                                                              *)

\* "Only the thread that obtained the proxy can use it": a proxy is in the
\* hands of one thread or once in the free list, and nobody, not even a get
\* that outlives Shutdown, has one that has been freed.
PxOnePlace ==
    /\ \A t \in PxThreads : pxhas[t] \subseteq pxlive
    /\ \A t, u \in PxThreads : t # u => pxhas[t] \cap pxhas[u] = {}
    /\ ~pxdown =>
         /\ \A i, j \in DOMAIN pxfree : pxfree[i] = pxfree[j] => i = j
         /\ pxlive = {pxfree[i] : i \in DOMAIN pxfree} \cup UNION {pxhas[t] : t \in PxThreads}
         /\ \A i \in DOMAIN pxfree, t \in PxThreads : pxfree[i] \notin pxhas[t]

\* nfree and nused, which decide who waits and who is freed, count the list
\* and the handles out, through failed gets, configure and the reaper.
PxCounts ==
    /\ nused = Cardinality(UNION {pxhas[t] : t \in PxThreads})
    /\ ~pxdown => nfree = Len(pxfree)

\* poolPtr->waiting is the gate that one thread at a time is past: it is shut
\* exactly while that thread waits for handles.
PxGate ==
    /\ pxwaiting <=> \E t \in PxThreads : pxpc[t] \in {"get", "getwoken"}
    /\ Cardinality({t \in PxThreads : pxpc[t] \in {"get", "getwoken"}}) <= 1

\* Nobody sleeps without need: a thread waits at the gate only while it is
\* shut and past it only while there are not enough handles.  (Configure
\* makes handles, or takes the hope of them, without waking anyone.)
PxNoMissedSignal ==
    \A t \in PxThreads :
        /\ pxpc[t] = "gate" => pxwaiting
        /\ pxpc[t] = "get" => nfree < pxwant[t] /\ maxslaves >= pxwant[t]

\* maxslaves bounds the proxies, free and out, and they do not get fewer.
PxTotal == Cardinality(pxlive) = maxslaves

\* Everyone who waits for handles gets them, as nobody waits for handles of a
\* pool while holding some ("implemented to avoid possible deadlock").
PxServed == \A t \in PxThreads : pxpc[t] \in {"gate", "get"} ~> pxpc[t] \in {"have", "push", "idle"}

=============================================================================
