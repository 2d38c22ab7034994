------------------------------ MODULE TclCache ------------------------------
(***************************************************************************)
(* One ns_cache: the entry table and its least-recently-used list          *)
(* (nsd/cache.c) under the ns_cache_* commands of any number of threads    *)
(* (nsd/tclcache.c).                                                       *)
(*                                                                         *)
(* A command is one step while it holds the cache's lock.  ns_cache_eval   *)
(* lets the lock go to run its script and keeps the pointer to its entry;  *)
(* a command that meets an entry somebody is updating waits.  A pointer to *)
(* an entry is its key, and stale holds the threads whose entry was freed  *)
(* under them.  Values are their sizes; the statistics are left out.       *)
(***************************************************************************)
EXTENDS Integers, Sequences, SequencesExt

CONSTANTS
    CacheKeys, CacheThreads,
    CacheMax,        \* maxSize of the cache, 0 for no limit
    CacheEntryMax,   \* -maxentry, 0 for no limit
    CacheSizes,      \* sizes of the values scripts return
    CacheTTLs,       \* times to live, 0 for none
    CacheForces,     \* is ns_cache_eval called with -force
    CacheTimeouts,   \* can a timed out wait lose the race for the lock
    CacheTime,       \* bound on the clock
    NoKey

VARIABLES
    lru,             \* the entries, from firstEntryPtr to lastEntryPtr
    cval,            \* value of an entry, CNull while it is being computed
    cexp,            \* expires, 0 for never
    currentSize,
    tpc, tkey, tcmd, \* threads: place, key of its entry, command
    stale,
    now

cacheVars == <<lru, cval, cexp, currentSize, tpc, tkey, tcmd, stale, now>>

CNull == -1

CacheInit ==
    /\ lru = <<>> /\ currentSize = 0 /\ stale = {} /\ now = 1
    /\ cval = [k \in CacheKeys |-> CNull] /\ cexp = [k \in CacheKeys |-> 0]
    /\ tpc = [t \in CacheThreads |-> "idle"] /\ tkey = [t \in CacheThreads |-> NoKey]
    /\ tcmd = [t \in CacheThreads |-> "none"]

Entries == {lru[i] : i \in DOMAIN lru}
Expired(k) == cexp[k] > 0 /\ cexp[k] < now

\* Delink and Push.
Pushed(k) == <<k>> \o SelectSeq(lru, LAMBDA x : x # k)

\* A cache is a record in what follows: list, values, expiry times and size.
TheCache == [l |-> lru, v |-> cval, x |-> cexp, s |-> currentSize]

CacheIs(c) == lru' = c.l /\ cval' = c.v /\ cexp' = c.x /\ currentSize' = c.s

\* Variant of UnsetValue for mutation: the size of the old value stays.
UnsetValueKeepsSize(c, k) ==
    IF c.v[k] = CNull THEN c
    ELSE [c EXCEPT !.v[k] = CNull, !.x[k] = 0]

UnsetValue(c, k) ==
    IF c.v[k] = CNull THEN c
    ELSE [c EXCEPT !.s = @ - c.v[k], !.v[k] = CNull, !.x[k] = 0]

DeleteEntry(c, k) == [UnsetValue(c, k) EXCEPT !.l = SelectSeq(@, LAMBDA x : x # k)]

DeleteAll(c, keys) == FoldSet(LAMBDA k, d : DeleteEntry(d, k), c, keys)

\* Variant of Prune for mutation: entries under update are pruned too.
PruneAny(c, k) ==
    LET n    == Len(c.l)
        ok(i) == \A j \in i .. n : c.l[j] # k
        cut  == {i \in 1 .. n + 1 :
                    /\ ok(i)
                    /\ LET d == DeleteAll(c, {c.l[j] : j \in i .. n})
                       IN CacheMax = 0 \/ d.s <= CacheMax \/ i = 1 \/ ~ ok(i - 1)}
        i    == CHOOSE m \in cut : \A j \in cut : j <= m
    IN DeleteAll(c, {c.l[j] : j \in i .. n})

\* The loop of Ns_CacheSetValueExpires: from the tail, entries are deleted
\* until the cache fits, down to the entry just set or one under update.
Prune(c, k) ==
    LET n    == Len(c.l)
        ok(i) == \A j \in i .. n : c.l[j] # k /\ c.v[c.l[j]] # CNull
        cut  == {i \in 1 .. n + 1 :
                    /\ ok(i)
                    /\ LET d == DeleteAll(c, {c.l[j] : j \in i .. n})
                       IN CacheMax = 0 \/ d.s <= CacheMax \/ i = 1 \/ ~ ok(i - 1)}
        i    == CHOOSE m \in cut : \A j \in cut : j <= m
    IN DeleteAll(c, {c.l[j] : j \in i .. n})

\* SetEntry: a value that is too large is not kept.
SetEntry(c, k, size, ttl) ==
    IF CacheEntryMax > 0 /\ size > CacheEntryMax THEN DeleteEntry(c, k)
    ELSE LET u == UnsetValue(c, k)
         IN Prune([u EXCEPT !.v[k] = size, !.s = @ + size,
                            !.x[k] = IF ttl = 0 THEN @ ELSE now + ttl], k)

\* Threads with a pointer to an entry that the step deletes.
Stales(c) == {t \in CacheThreads : tpc[t] = "eval" /\ tkey[t] \in Entries /\ tkey[t] \notin {c.l[i] : i \in DOMAIN c.l}}

\* Ns_CacheCreateEntry: the entry of k at the head of the list, without its
\* value if that expired; and whether the caller has to compute it.
CreatedNew(k) == k \notin Entries \/ Expired(k)
Created(k) ==
    [(IF k \in Entries /\ Expired(k) THEN UnsetValue(TheCache, k) ELSE TheCache) EXCEPT !.l = Pushed(k)]

\* What the command does with its entry: waits for an update, returns the
\* value, goes to run its script, or sets the value at once (ns_cache_incr,
\* append, lappend).
Continue(t, k, cmd) ==
    /\ \/ /\ ~ CreatedNew(k) /\ cval[k] = CNull
          /\ CacheIs(Created(k))
          /\ tpc' = [tpc EXCEPT ![t] = "wait"]
       \/ /\ ~ CreatedNew(k) /\ cval[k] # CNull /\ cmd = "eval"
          /\ CacheIs(Created(k))
          /\ tpc' = [tpc EXCEPT ![t] = "idle"]
       \/ /\ CreatedNew(k) \/ (cval[k] # CNull /\ cmd = "force")
          /\ cmd \in {"eval", "force"}
          /\ CacheIs(Created(k))
          /\ tpc' = [tpc EXCEPT ![t] = "eval"]
       \/ /\ CreatedNew(k) \/ cval[k] # CNull
          /\ cmd = "set"
          /\ \E size \in CacheSizes, ttl \in CacheTTLs : CacheIs(SetEntry(Created(k), k, size, ttl))
          /\ tpc' = [tpc EXCEPT ![t] = "idle"]
    /\ tkey' = [tkey EXCEPT ![t] = IF tpc'[t] = "idle" THEN NoKey ELSE k]
    /\ tcmd' = [tcmd EXCEPT ![t] = IF tpc'[t] = "idle" THEN "none" ELSE cmd]
    /\ stale' = stale \cup Stales([l |-> lru'])
    /\ UNCHANGED now

\* ns_cache_eval, with and without -force, and ns_cache_incr, append, lappend.
CacheCommand(t, k, cmd) ==
    /\ tpc[t] = "idle" /\ (cmd = "force" => CacheForces)
    /\ Continue(t, k, cmd)

\* A waiting command goes on: CreateEntry again.
CacheWakes(t) == tpc[t] = "woken" /\ Continue(t, tkey[t], tcmd[t])

\* The wait times out.  The command looks at the entry once more, with the
\* lock, and then fails: an entry it creates there has no value.
CacheTimesOut(t) ==
    /\ CacheTimeouts /\ tpc[t] = "wait"
    /\ tpc' = [tpc EXCEPT ![t] = "timedout"]
    /\ UNCHANGED <<lru, cval, cexp, currentSize, tkey, tcmd, stale, now>>

CacheGivesUp(t) ==
    /\ tpc[t] = IF CacheTimeouts THEN "timedout" ELSE "wait"
    /\ CacheIs(Created(tkey[t]))
    /\ tpc' = [tpc EXCEPT ![t] = "idle"] /\ tkey' = [tkey EXCEPT ![t] = NoKey]
    /\ tcmd' = [tcmd EXCEPT ![t] = "none"]
    /\ UNCHANGED <<stale, now>>

\* Ns_CacheBroadcast.
Broadcast(t) ==
    [u \in CacheThreads |-> IF u = t THEN "idle" ELSE IF tpc[u] = "wait" THEN "woken" ELSE tpc[u]]

\* Variant of CacheEvalEnds for mutation: the entry of a failed script is
\* deleted, and nobody is woken.
CacheEvalFailsSilent(t, ok, size, ttl) ==
    /\ tpc[t] = "eval"
    /\ CacheIs(IF ok THEN SetEntry(TheCache, tkey[t], size, ttl) ELSE DeleteEntry(TheCache, tkey[t]))
    /\ tpc' = IF ok THEN Broadcast(t) ELSE [tpc EXCEPT ![t] = "idle"]
    /\ tkey' = [tkey EXCEPT ![t] = NoKey] /\ tcmd' = [tcmd EXCEPT ![t] = "none"]
    /\ stale' = stale \cup (Stales([l |-> lru']) \ {t})
    /\ UNCHANGED now

\* The script is over and the lock taken again.  (A thread whose entry was
\* freed writes to freed memory: stale has recorded it, and the step is left
\* out.)
CacheEvalEnds(t, ok, size, ttl) ==
    /\ tpc[t] = "eval" /\ t \notin stale
    /\ CacheIs(IF ok THEN SetEntry(TheCache, tkey[t], size, ttl) ELSE DeleteEntry(TheCache, tkey[t]))
    /\ tpc' = Broadcast(t)
    /\ tkey' = [tkey EXCEPT ![t] = NoKey] /\ tcmd' = [tcmd EXCEPT ![t] = "none"]
    /\ stale' = stale \cup (Stales([l |-> lru']) \ {t})
    /\ UNCHANGED now

\* Ns_CacheFindEntry, for ns_cache_get and ns_cache_keys of one key: an entry
\* under update is not found, one that expired is deleted.
CacheGet(k) ==
    /\ k \in Entries /\ cval[k] # CNull
    /\ CacheIs(IF Expired(k) THEN DeleteEntry(TheCache, k) ELSE [TheCache EXCEPT !.l = Pushed(k)])
    /\ stale' = stale \cup Stales([l |-> lru'])
    /\ UNCHANGED <<tpc, tkey, tcmd, now>>

Valued == {k \in Entries : cval[k] # CNull}

\* Variant of CacheFlush for mutation: entries under update are flushed.
CacheFlushAll(keys) ==
    /\ CacheIs(DeleteAll(TheCache, keys \cup {k \in Entries : Expired(k)}))
    /\ stale' = stale \cup Stales([l |-> lru'])
    /\ UNCHANGED <<tpc, tkey, tcmd, now>>

\* A walk over the table: ns_cache_flush (all, keys, -glob), and with keys
\* empty ns_cache_keys and ns_cache_stats.  Entries under update are passed
\* over, expired ones deleted.
CacheFlush(keys) ==
    /\ CacheIs(DeleteAll(TheCache, (keys \cap Valued) \cup {k \in Valued : Expired(k)}))
    /\ stale' = stale \cup Stales([l |-> lru'])
    /\ UNCHANGED <<tpc, tkey, tcmd, now>>

CacheTick == now < CacheTime /\ now' = now + 1
             /\ UNCHANGED <<lru, cval, cexp, currentSize, tpc, tkey, tcmd, stale>>

CacheNext ==
    \/ \E t \in CacheThreads :
          \/ \E k \in CacheKeys, cmd \in {"eval", "force", "set"} : CacheCommand(t, k, cmd)
          \/ CacheWakes(t) \/ CacheTimesOut(t) \/ CacheGivesUp(t)
          \/ \E ok \in BOOLEAN, size \in CacheSizes, ttl \in CacheTTLs : CacheEvalEnds(t, ok, size, ttl)
    \/ \E k \in CacheKeys : CacheGet(k)
    \/ \E keys \in SUBSET CacheKeys : CacheFlush(keys)
    \/ CacheTick

CacheSpec == CacheInit /\ [][CacheNext]_cacheVars

-----------------------------------------------------------------------------
(* Properties.                                                              *)

\* Delink, Push and currentSize: an entry is in the list once, an entry that
\* is gone has no value left behind, and currentSize is what the values of
\* the entries add up to, whatever was pruned, expired, flushed or replaced.
CacheSizeExact ==
    /\ \A i, j \in DOMAIN lru : lru[i] = lru[j] => i = j
    /\ \A k \in CacheKeys \ Entries : cval[k] = CNull
    /\ currentSize = FoldSet(LAMBDA k, s : s + cval[k], 0, Valued)

\* Concurrent updates of ns_cache_eval: an entry without a value has exactly
\* one thread that is computing it, and no two threads compute one key.
CacheUpdateOwned ==
    \A k \in CacheKeys :
        LET by == {t \in CacheThreads : tpc[t] = "eval" /\ tkey[t] = k}
        IN /\ \A t, u \in by : t = u
           /\ k \in Entries /\ cval[k] = CNull => by # {}

\* A command that waits for an update waits for one that is going on: it is
\* woken whenever an update ends, in success or in error.
CacheWaitersCovered ==
    \A t \in CacheThreads : tpc[t] = "wait" => \E u \in CacheThreads : tpc[u] = "eval" /\ tkey[u] = tkey[t]

\* ns_cache_eval uses its entry after its script ran without the lock: the
\* entry is still there, whatever was flushed, pruned or expired meanwhile.
CacheNoDangling == stale = {}

=============================================================================
