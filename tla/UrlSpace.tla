------------------------------ MODULE UrlSpace ------------------------------
(***************************************************************************)
(* URL-specific data (nsd/urlspace.c): a junction is a list of channels,   *)
(* one for each filter, and a channel is a trie.  A trie is modelled as a  *)
(* function from the paths that have a node to the nodes; a path is the    *)
(* sequence MkSeq makes of a method and a URL.  The order byname is total  *)
(* and only used to find a filter's channel; the order byuse is the one    *)
(* that lookups follow.                                                    *)
(***************************************************************************)
EXTENDS Index, FiniteSets

CONSTANTS
    RegSeqs,        \* the sequences that are registered and removed
    AskSeqs,        \* the sequences that are looked up
    Wild,           \* the words that have a wildcard
    StringMatch,    \* Tcl_StringMatch: the pairs <<word, filter>> that match
    MaxUrlData,     \* how many data items are registered
    AnyDestroy      \* are registrations removed that JunctionDeleteNode does not know

VARIABLES
    byuse,          \* the channels: [filter, trie]
    urlFreed,       \* data item -> how often its delete procedure has been called
    urlData,        \* number of data items registered so far
    urlReg          \* what has been registered and not been removed or replaced

urlVars == <<byuse, urlFreed, urlData, urlReg>>

\* Mutant: the order is the other way round.
CmpChannelsReversed(l, r) ==
    IF <<r.filter, l.filter>> \in StringMatch THEN -1 ELSE IF <<l.filter, r.filter>> \in StringMatch THEN 1 ELSE 0

\* CmpChannels: a filter that contains the other one is greater.
CmpChannels(l, r) ==
    LET lcontainsr == <<r.filter, l.filter>> \in StringMatch
        rcontainsl == <<l.filter, r.filter>> \in StringMatch
    IN  IF lcontainsr = rcontainsl THEN 0 ELSE IF lcontainsr THEN 1 ELSE -1

UrlInit == byuse = <<>> /\ urlFreed = [d \in 1 .. MaxUrlData |-> 0] /\ urlData = 0 /\ urlReg = {}

HasWildcard(seq) == Len(seq) > 1 /\ Last(seq) \in Wild

\* JunctionAdd: the last word is the filter, and not part of the path, if it has a wildcard.
FilterOf(seq) == IF HasWildcard(seq) THEN Last(seq) ELSE "*"
PathOf(seq) == IF HasWildcard(seq) THEN Front(seq) ELSE seq

NoNode == [inherit |-> 0, noinherit |-> 0]
NodeOf(trie, path) == IF path \in DOMAIN trie THEN trie[path] ELSE NoNode

\* Called for a slot whose data leaves the trie (0 is no data).
NodeFreed(data) == [d \in 1 .. MaxUrlData |-> urlFreed[d] + IF d \in data \ {0} THEN 1 ELSE 0]

\* TrieAdd for a path: the delete procedure of the data that is replaced runs.
TrieAdd(trie, path, slot, data) ==
    [p \in DOMAIN trie \cup {path} |->
        IF p = path THEN [NodeOf(trie, path) EXCEPT ![slot] = data] ELSE trie[p]]

TrieFindExact(trie, path, slot) == NodeOf(trie, path)[slot]

TrieDelete(trie, path, slot) ==
    IF path \in DOMAIN trie THEN [trie EXCEPT ![path][slot] = 0] ELSE trie

\* TrieFind: the deepest node on the way that has data; <<data, depth>>.
TrieFind(trie, seq) ==
    LET data(n) == LET node == NodeOf(trie, SubSeq(seq, 1, n))
                   IN  IF n = Len(seq) /\ node.noinherit # 0 THEN node.noinherit ELSE node.inherit
        found[n \in 0 .. Len(seq)] ==
            IF data(n) # 0 THEN <<data(n), n>> ELSE IF n = 0 THEN <<0, 0>> ELSE found[n - 1]
    IN  found[Len(seq)]

\* Ns_UrlSpecificSet: a filter's first registration adds its channel.
Ns_UrlSpecificSet(seq, slot, nodelete) ==
    LET filter == FilterOf(seq)
        path == PathOf(seq)
        channel == [filter |-> filter, trie |-> << >>]
        conds == [i \in DOMAIN byuse |-> CmpChannels(channel, byuse[i])]
        channels == IF \E c \in Range(byuse) : c.filter = filter THEN byuse
                    ELSE Ns_IndexAdd(byuse, channel, conds)
        at == SelectInSeq(channels, LAMBDA c : c.filter = filter)
        old == NodeOf(channels[at].trie, path)[slot]
    IN  /\ urlData < MaxUrlData
        /\ urlData' = urlData + 1
        /\ byuse' = [channels EXCEPT ![at].trie = TrieAdd(@, path, slot, urlData + 1)]
        /\ urlFreed' = IF nodelete THEN urlFreed ELSE NodeFreed({old})
        /\ urlReg' = {r \in urlReg : ~(r.filter = filter /\ r.path = path /\ r.slot = slot)}
                       \cup {[filter |-> filter, path |-> path, slot |-> slot, data |-> urlData + 1]}

\* Mutant: the first channel that has data decides, however deep.
FindFirst(channels, seq) ==
    LET matching == SelectSeq(channels, LAMBDA c : <<Last(seq), c.filter>> \in StringMatch /\ TrieFind(c.trie, seq)[1] # 0)
    IN  IF matching = <<>> THEN <<0, 0>> ELSE TrieFind(matching[1].trie, seq)

\* JunctionFind: a later channel wins only with a deeper node.
JunctionFind(channels, seq) ==
    LET step(best, c) ==
            LET found == TrieFind(c.trie, seq) IN
            IF <<Last(seq), c.filter>> \notin StringMatch THEN best
            ELSE IF best[1] = 0 THEN found
            ELSE IF found[1] # 0 /\ found[2] > best[2] THEN found ELSE best
    IN  FoldLeft(step, <<0, 0>>, channels)

\* JunctionFindExact: the channel of the last word's filter, else that of "*".
JunctionFindExact(seq, slot) ==
    LET own == SelectSeq(byuse, LAMBDA c : c.filter = Last(seq))
        all == SelectSeq(byuse, LAMBDA c : c.filter = "*")
    IN  IF own # <<>> THEN TrieFindExact(own[1].trie, Front(seq), slot)
        ELSE IF all # <<>> THEN TrieFindExact(all[1].trie, seq, slot) ELSE 0

\* The loop of JunctionDeleteNode: which channel and path it settles on.  Once a filter was
\* equal to the last word, the sequence stays cut and its last word is empty.
DeletePlace(seq, slot) ==
    LET step(s, i) ==
            LET c == byuse[i]
                own == Len(seq) = 3 /\ s.last = c.filter
                path == IF own THEN Front(seq) ELSE s.path
                hit == own \/ <<s.last, c.filter>> \in StringMatch
            IN  IF s.at # 0 THEN s
                ELSE [path |-> path, last |-> IF own THEN "" ELSE s.last,
                      at |-> IF hit /\ TrieFindExact(c.trie, path, slot) # 0 THEN i ELSE 0]
    IN  FoldLeft(step, [path |-> seq, last |-> Last(seq), at |-> 0], [i \in 1 .. Len(byuse) |-> i])

\* Ns_UrlSpecificDestroy without NS_OP_RECURSE.
DestroyNode(seq, slot, nodelete) ==
    LET place == DeletePlace(seq, slot)
        data == JunctionFindExact(seq, slot)
    IN  /\ AnyDestroy \/ (data # 0 /\ (Last(seq) \in Wild => Len(seq) = 3))
        /\ IF place.at = 0 THEN UNCHANGED <<byuse, urlFreed>>
           ELSE /\ byuse' = [byuse EXCEPT ![place.at].trie = TrieDelete(@, place.path, slot)]
                /\ urlFreed' = IF nodelete THEN urlFreed
                               ELSE NodeFreed({TrieFindExact(byuse[place.at].trie, place.path, slot)})
        /\ urlReg' = {r \in urlReg : ~(r.filter = FilterOf(seq) /\ r.path = PathOf(seq) /\ r.slot = slot)}
        /\ UNCHANGED urlData

\* Mutant: TrieTruncBranch in the filter's own channel only.
UnderOwn(seq, c, path) == c.filter = FilterOf(seq) /\ IsPrefix(seq, path)

Under(seq, c, path) == IsPrefix(seq, path)

\* NS_OP_RECURSE: the nodes under the sequence go, in every channel.
DestroyBranch(seq) ==
    LET gone(c) == {p \in DOMAIN c.trie : Under(seq, c, p)} IN
    /\ byuse' = [i \in 1 .. Len(byuse) |->
                    [byuse[i] EXCEPT !.trie = [p \in DOMAIN @ \ gone(byuse[i]) |-> @[p]]]]
    /\ urlFreed' = NodeFreed(UNION {{c.trie[p].inherit, c.trie[p].noinherit} : <<c, p>> \in
                         {<<x, q>> \in Range(byuse) \X UNION {DOMAIN y.trie : y \in Range(byuse)} :
                             q \in gone(x)}})
    /\ urlReg' = {r \in urlReg : ~IsPrefix(seq, r.path)}
    /\ UNCHANGED urlData

UrlNext ==
    \/ \E seq \in RegSeqs, slot \in {"inherit", "noinherit"}, nodelete \in BOOLEAN :
         Ns_UrlSpecificSet(seq, slot, nodelete) \/ DestroyNode(seq, slot, nodelete)
    \/ \E seq \in RegSeqs : DestroyBranch(seq)

UrlSpec == UrlInit /\ [][UrlNext]_urlVars

\* What Ns_UrlSpecificWalk lists.
Ns_UrlSpecificWalk ==
    UNION {{[filter |-> c.filter, path |-> p, slot |-> s, data |-> c.trie[p][s]] :
              p \in DOMAIN c.trie, s \in {"inherit", "noinherit"}} : c \in Range(byuse)}
UrlListed == {r \in Ns_UrlSpecificWalk : r.data # 0}

\* Does a registration speak for a sequence, and where does its channel stand?
SpeaksFor(r, seq) ==
    /\ <<Last(seq), r.filter>> \in StringMatch
    /\ IF r.slot = "inherit" THEN IsPrefix(r.path, seq) ELSE r.path = seq
ChannelOf(r) == SelectInSeq(byuse, LAMBDA c : c.filter = r.filter)

(***************************************************************************)
(* Ns_UrlSpecificGet returns the data of the registration that speaks for  *)
(* the URL with the longest path, at equal length that of the earlier      *)
(* channel, and there the one that does not inherit; and it never returns  *)
(* data whose delete procedure has run, which happens at most once.        *)
(***************************************************************************)
UrlFindBest ==
    /\ \A seq \in AskSeqs :
         LET speak == {r \in UrlListed : SpeaksFor(r, seq)}
             better(r, s) == \/ Len(r.path) > Len(s.path)
                             \/ Len(r.path) = Len(s.path) /\ ChannelOf(r) < ChannelOf(s)
                             \/ Len(r.path) = Len(s.path) /\ ChannelOf(r) = ChannelOf(s) /\ r.slot = "noinherit"
             best == {r \in speak : \A s \in speak \ {r} : better(r, s)}
         IN  JunctionFind(byuse, seq)[1] = IF speak = {} THEN 0 ELSE (CHOOSE r \in best : TRUE).data
    /\ \A d \in 1 .. MaxUrlData : urlFreed[d] <= IF \E r \in UrlListed : r.data = d THEN 0 ELSE 1

(***************************************************************************)
(* What is listed is what was registered and not removed or replaced: with *)
(* AnyDestroy removing a filter that has no data at the path, or one that  *)
(* is not exactly one directory deep, removes nothing or the data of "*".  *)
(***************************************************************************)
UrlListExact == UrlListed = urlReg

(***************************************************************************)
(* Lookups check the filters from most restrictive to least restrictive,   *)
(* which the binary insertion by a partial order gives for "*" and filters *)
(* that do not contain each other.                                         *)
(***************************************************************************)
MostRestrictiveFirst == \A i, j \in 1 .. Len(byuse) :
    i < j /\ <<byuse[j].filter, byuse[i].filter>> \in StringMatch => <<byuse[i].filter, byuse[j].filter>> \in StringMatch

(***************************************************************************)
(* Both, for the calls and filters for which they hold.                    *)
(***************************************************************************)
UrlCalmInv == UrlListExact /\ MostRestrictiveFirst

-----------------------------------------------------------------------------
(***************************************************************************)
(* An index of integers (Ns_IndexIntInit), in which elements may repeat.   *)
(***************************************************************************)

CONSTANTS IndexKeys, IndexMax   \* the integers stored and searched, and the bound on the length

VARIABLE indexList

IndexInit == indexList = <<>>

IndexAddOne(k) == Len(indexList) < IndexMax /\ indexList' = Ns_IndexAdd(indexList, k, CompareInts(k, indexList))
IndexDelOne(k) == Contains(indexList, k) /\ indexList' = Ns_IndexDel(indexList, k)

IndexNext == \E k \in IndexKeys : IndexAddOne(k) \/ IndexDelOne(k)

IndexSpec == IndexInit /\ [][IndexNext]_indexList

(***************************************************************************)
(* The binary insertion keeps the list in order, so that a search that     *)
(* starts anywhere among equal elements returns all of them, and the       *)
(* search for the nearest element returns the greatest one that is not     *)
(* above the key, the least one if there is none, and nothing beyond the   *)
(* last.                                                                   *)
(***************************************************************************)
IndexInv ==
    /\ \A i \in 1 .. Len(indexList) - 1 : indexList[i] <= indexList[i + 1]
    /\ \A k \in IndexKeys :
         LET below == {i \in 1 .. Len(indexList) : indexList[i] <= k}
             found == Ns_IndexFindInf(indexList, k)
         IN  /\ \A hit \in {i \in below : indexList[i] = k} :
                  Ns_IndexFindMultiple(indexList, k, hit) = SelectSeq(indexList, LAMBDA e : e = k)
             /\ found = IF indexList = <<>> \/ \A i \in 1 .. Len(indexList) : indexList[i] < k THEN 0
                        ELSE IF below = {} THEN indexList[1]
                        ELSE CHOOSE e \in {indexList[i] : i \in below} : \A i \in below : indexList[i] <= e
=============================================================================
