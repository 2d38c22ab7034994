------------------------------ MODULE TclData -------------------------------
(***************************************************************************)
(* Data of Tcl scripts: sets, and the arrays that all interpreters share.  *)
(***************************************************************************)
EXTENDS Integers, Sequences, SequencesExt, FiniteSets

-----------------------------------------------------------------------------
(***************************************************************************)
(* The ns_set of nsd/set.c, a list of keyed fields, as operators on        *)
(* sequences, and the table of set ids of an interpreter (nsd/tclset.c),   *)
(* with dynamic sets that the interpreter owns and static ones (request    *)
(* headers, forms) that belong to the connection.                          *)
(***************************************************************************)

CONSTANTS
    SetKeys,         \* field keys
    SetValues,       \* field values
    Lower(_),        \* what strcasecmp compares
    Prefix(_),       \* the part of a key before the separator, NoName without one
    Rest(_),         \* the part behind it
    NoName,          \* a name that is NULL
    MaxSetObjs,      \* number of sets created
    MaxFields,       \* number of fields of all sets together
    SelfMoves        \* is a set moved into itself

VARIABLES
    setTable,        \* the interpreter's table: id -> set object; an id is <<type, number>>
    sets,            \* set object -> [state, type, fields]
    setCount         \* set objects so far

setVars == <<setTable, sets, setCount>>

-----------------------------------------------------------------------------
\* Fields: [key, val]; indexes start at 0 and -1 is none, as in the code.

\* Ns_SetFindCmp: same says of each field whether the comparison finds it equal.
IndexIn(same) == SelectInSeq(same, LAMBDA equal : equal) - 1

Ns_SetFind(fields, key) == IndexIn([i \in DOMAIN fields |-> fields[i].key = key])
Ns_SetIFind(fields, key) == IndexIn([i \in DOMAIN fields |-> Lower(fields[i].key) = Lower(key)])
Ns_SetUnique(fields, key) == Len(SelectSeq(fields, LAMBDA f : f.key = key)) <= 1
Ns_SetPut(fields, key, val) == Append(fields, [key |-> key, val |-> val])
Ns_SetGet(fields, key) == LET i == Ns_SetFind(fields, key) IN IF i = -1 THEN NoName ELSE fields[i + 1].val

Ns_SetDelete(fields, index) ==
    IF index # -1 /\ index < Len(fields) THEN RemoveAt(fields, index + 1) ELSE fields

\* Mutant: the deletion ignores case.
DeleteKeyAnyCase(fields, key) == Ns_SetDelete(fields, Ns_SetIFind(fields, key))

Ns_SetDeleteKey(fields, key) == Ns_SetDelete(fields, Ns_SetFind(fields, key))
Ns_SetIDeleteKey(fields, key) == Ns_SetDelete(fields, Ns_SetIFind(fields, key))
Ns_SetUpdate(fields, key, val) == Ns_SetPut(Ns_SetDeleteKey(fields, key), key, val)
Ns_SetTrunc(fields, size) == IF size < Len(fields) THEN SubSeq(fields, 1, size) ELSE fields

\* Mutant: merging looks at the keys that were there at the start only.
MergeAppends(high, low) == high \o SelectSeq(low, LAMBDA f : Ns_SetFind(high, f.key) = -1)

\* Ns_SetMerge: a field of low is added when its key is not there, from high or from low.
Ns_SetMerge(high, low) ==
    FoldLeft(LAMBDA acc, f : IF Ns_SetFind(acc, f.key) = -1 THEN Append(acc, f) ELSE acc, high, low)

\* Mutant: fields without a prefix join the first set.
SplitFirst(fields) ==
    LET add(acc, f) ==
            LET i == IF Prefix(f.key) = NoName /\ acc # <<>> THEN 1 ELSE SelectInSeq(acc, LAMBDA s : s.name = Prefix(f.key))
            IN  IF i = 0 THEN Append(acc, [name |-> Prefix(f.key), fields |-> <<[key |-> Rest(f.key), val |-> f.val]>>])
                ELSE [acc EXCEPT ![i].fields = Ns_SetPut(@, Rest(f.key), f.val)]
    IN  FoldLeft(add, <<>>, fields)

\* Ns_SetSplit with Ns_SetListFind: a set for every prefix, in the order they turn up.
Ns_SetSplit(fields) ==
    LET add(acc, f) ==
            LET i == SelectInSeq(acc, LAMBDA s : s.name = Prefix(f.key))
            IN  IF i = 0 THEN Append(acc, [name |-> Prefix(f.key), fields |-> <<[key |-> Rest(f.key), val |-> f.val]>>])
                ELSE [acc EXCEPT ![i].fields = Ns_SetPut(@, Rest(f.key), f.val)]
    IN  FoldLeft(add, <<>>, fields)

-----------------------------------------------------------------------------
SetInit ==
    /\ setTable = [id \in {} |-> 0]
    /\ sets = [s \in 1 .. MaxSetObjs |-> [state |-> "none", type |-> "d", fields |-> <<>>]]
    /\ setCount = 0

\* Mutant: the next id is the number of sets in the table.
NextIdCounted(type) == <<type, Cardinality(DOMAIN setTable)>>

\* EnterSet: counts up from the number of sets until the id is free.
NextId(type) ==
    LET from == Cardinality(DOMAIN setTable)
        n == CHOOSE i \in from .. from + Cardinality(DOMAIN setTable) :
                /\ <<type, i>> \notin DOMAIN setTable
                /\ \A j \in from .. i - 1 : <<type, j>> \in DOMAIN setTable
    IN  <<type, n>>

FieldCount == FoldFunctionOnSet(+, 0, [s \in DOMAIN sets |-> Len(sets[s].fields)], DOMAIN sets)

\* A set object that enters the table: ns_set new and copy, or a set of the connection.
EnterSet(type, fields) ==
    /\ setCount < MaxSetObjs /\ FieldCount + Len(fields) <= MaxFields
    /\ setCount' = setCount + 1
    /\ sets' = [sets EXCEPT ![setCount + 1] = [state |-> "live", type |-> type, fields |-> fields]]
    /\ setTable' = [id \in DOMAIN setTable \cup {NextId(type)} |-> IF id = NextId(type) THEN setCount + 1 ELSE setTable[id]]

SNew == EnterSet("d", <<>>)
Ns_TclEnterSet(fields) == EnterSet("t", fields)
SCopy(id) == EnterSet("d", sets[setTable[id]].fields)

\* ns_set split for a set with one or two prefixes; every part becomes a dynamic set.
SSplit(id) ==
    LET parts == Ns_SetSplit(sets[setTable[id]].fields) IN
    /\ Len(parts) = 1
    /\ EnterSet("d", parts[1].fields)

Fields(id) == sets[setTable[id]].fields

\* A command that changes the fields of a set.
Change(id, fields) ==
    /\ FieldCount + Len(fields) - Len(Fields(id)) <= MaxFields
    /\ sets' = [sets EXCEPT ![setTable[id]].fields = fields]
    /\ UNCHANGED <<setTable, setCount>>

SPut(id, key, val) == Change(id, Ns_SetPut(Fields(id), key, val))
SUpdate(id, key, val) == Change(id, Ns_SetUpdate(Fields(id), key, val))
SCPut(id, key, val) == Ns_SetFind(Fields(id), key) < 0 /\ SPut(id, key, val)
SICPut(id, key, val) == Ns_SetIFind(Fields(id), key) < 0 /\ SPut(id, key, val)
SDelkey(id, key) == Change(id, Ns_SetDeleteKey(Fields(id), key))
SIDelkey(id, key) == Change(id, Ns_SetIDeleteKey(Fields(id), key))
SDelete(id, i) == i < Len(Fields(id)) /\ Change(id, Ns_SetDelete(Fields(id), i))
STruncate(id, i) == i < Len(Fields(id)) /\ Change(id, Ns_SetTrunc(Fields(id), i))
SMerge(id, from) == Change(id, Ns_SetMerge(Fields(id), Fields(from)))

\* Ns_SetMove: a set moved into itself is copied to its end for ever.
SMove(id, from) ==
    LET to == setTable[id]
        fr == setTable[from]
        all == sets[to].fields \o sets[fr].fields
    IN  /\ SelfMoves \/ to # fr
        /\ sets' = IF to = fr THEN [sets EXCEPT ![to].state = "endless"]
                   ELSE [sets EXCEPT ![to].fields = all, ![fr].fields = <<>>]
        /\ UNCHANGED <<setTable, setCount>>

Without(ids) == [id \in DOMAIN setTable \ ids |-> setTable[id]]
Freed(ids) == [s \in DOMAIN sets |-> IF \E id \in ids : id[1] = "d" /\ setTable[id] = s
                                     THEN [sets[s] EXCEPT !.state = "freed", !.fields = <<>>] ELSE sets[s]]

\* Ns_TclFreeSet: the id goes, and the set with it when it is dynamic.
Ns_TclFreeSet(id) ==
    /\ setTable' = Without({id}) /\ sets' = Freed({id}) /\ UNCHANGED setCount

\* Mutant: the cleanup frees the static sets too.
CleanupAll ==
    /\ DOMAIN setTable # {}
    /\ setTable' = Without(DOMAIN setTable)
    /\ sets' = [s \in DOMAIN sets |-> IF \E id \in DOMAIN setTable : setTable[id] = s
                                      THEN [sets[s] EXCEPT !.state = "freed", !.fields = <<>>] ELSE sets[s]]
    /\ UNCHANGED setCount

\* ns_set cleanup, when the interpreter is given back: dynamic sets are freed.
SCleanup ==
    /\ DOMAIN setTable # {}
    /\ setTable' = Without(DOMAIN setTable) /\ sets' = Freed(DOMAIN setTable) /\ UNCHANGED setCount

SetNext ==
    \/ SNew \/ SCleanup
    \/ \E k \in SetKeys : Ns_TclEnterSet(<<[key |-> k, val |-> 1]>>)
    \/ \E id \in DOMAIN setTable :
        \/ SCopy(id) \/ SSplit(id) \/ Ns_TclFreeSet(id)
        \/ \E k \in SetKeys, v \in SetValues : SPut(id, k, v) \/ SUpdate(id, k, v) \/ SCPut(id, k, v) \/ SICPut(id, k, v)
        \/ \E k \in SetKeys : SDelkey(id, k) \/ SIDelkey(id, k)
        \/ \E i \in 0 .. MaxFields : SDelete(id, i) \/ STruncate(id, i)
        \/ \E from \in DOMAIN setTable : SMerge(id, from) \/ SMove(id, from)

SetSpec == SetInit /\ [][SetNext]_setVars

-----------------------------------------------------------------------------
\* The table names live sets only, every set once, and every dynamic set that was not freed is in
\* it, so that the cleanup of the interpreter frees each exactly once and no static set.
SetTableOwned ==
    /\ \A id \in DOMAIN setTable : sets[setTable[id]].state = "live"
    /\ \A i, j \in DOMAIN setTable : setTable[i] = setTable[j] => i = j
    /\ \A s \in 1 .. setCount :
        /\ sets[s].type = "d" => (sets[s].state = "live" <=> \E id \in DOMAIN setTable : setTable[id] = s)
        /\ sets[s].type = "t" => sets[s].state = "live"

AllFields == {sets[s].fields : s \in 1 .. setCount}

\* Ns_SetUpdate of a key that was there at most once leaves it there once, with the new value, and
\* the other fields as they were.
UpdateExact ==
    \A f \in AllFields, k \in SetKeys, v \in SetValues :
        Ns_SetUnique(f, k) =>
            LET g == Ns_SetUpdate(f, k, v) IN
            /\ Ns_SetUnique(g, k) /\ Ns_SetGet(g, k) = v
            /\ SelectSeq(g, LAMBDA x : x.key # k) = SelectSeq(f, LAMBDA x : x.key # k)

\* Ns_SetMerge never changes what a key of the first set is, takes the others from the second, and
\* merging again changes nothing.
MergeExact ==
    \A f, g \in AllFields :
        LET m == Ns_SetMerge(f, g) IN
        /\ \A k \in SetKeys : Ns_SetGet(m, k) = IF Ns_SetFind(f, k) # -1 THEN Ns_SetGet(f, k) ELSE Ns_SetGet(g, k)
        /\ \A k \in SetKeys : Ns_SetFind(f, k) = -1 => Ns_SetUnique(m, k)
        /\ Ns_SetMerge(m, g) = m

\* Ns_SetSplit distributes the fields: every set has one prefix, no two the same, and the fields of
\* a prefix keep their order.
SplitExact ==
    \A f \in AllFields :
        LET parts == Ns_SetSplit(f) IN
        /\ \A i, j \in 1 .. Len(parts) : parts[i].name = parts[j].name => i = j
        /\ \A i \in 1 .. Len(parts) :
            parts[i].fields = LET mine == SelectSeq(f, LAMBDA x : Prefix(x.key) = parts[i].name)
                              IN  [j \in 1 .. Len(mine) |-> [key |-> Rest(mine[j].key), val |-> mine[j].val]]
        /\ \A x \in Range(f) : \E i \in 1 .. Len(parts) : parts[i].name = Prefix(x.key)

SetInv == SetTableOwned /\ UpdateExact /\ MergeExact /\ SplitExact

-----------------------------------------------------------------------------
(***************************************************************************)
(* The arrays of variables that all threads of a server share (nsv_*       *)
(* commands and Ns_Var* functions, nsd/tclvar.c).  Arrays are kept in      *)
(* buckets with a lock each.  The Tcl object that names an array remembers *)
(* the array it was resolved to, and the next command on that object locks *)
(* that array's bucket without a search.                                   *)
(***************************************************************************)

CONSTANTS
    Interps,         \* interpreters, each run by a thread, one name object per array
    ApiThreads,      \* threads that call Ns_Var*: they have no name objects
    NsvNames,        \* array names: sequences of character codes
    NsvKeys,
    Nbuckets,
    MaxNsvArrays,    \* arrays created
    MaxNsvValue,     \* largest number stored
    Walkers,         \* interpreters that list arrays
    NsvOps,          \* commands on arrays that interpreters run
    SharedUnset      \* is an array unset while another interpreter remembers it

VARIABLES
    nsvTable,        \* name -> array object, 0 if there is none
    nsvArray,        \* array object -> its variables
    nsvCount,        \* array objects so far
    nsvFreed,        \* freed array objects
    nsvCache,        \* interpreter -> name -> array object the name object remembers, or 0
    nsvCall,         \* thread -> command in progress [op, name, key, ptr], or NoCall
    nsvWalk          \* interpreter -> walk through the buckets

nsvVars == <<nsvTable, nsvArray, nsvCount, nsvFreed, nsvCache, nsvCall, nsvWalk>>

NoCall == [op |-> "none"]
NoWalk == [at |-> 0]
Unbound == -1      \* a key that is not there
Text == -2         \* a value that is not a number
\* Results of commands.
Failed == <<"error">>
Nothing == <<"nothing">>
Value(v) == <<"value", v>>
Flag(b) == <<"flag", b>>
List(s) == <<"list", s>>
NoVars == [k \in NsvKeys |-> Unbound]
NsvThreads == Interps \cup ApiThreads

\* BucketIndex; names here are too short for the index to wrap around.
BucketIndex(name) == FoldLeft(LAMBDA index, i : index + 8 * index + i, 0, name)
BucketOf(name) == BucketIndex(name) % Nbuckets

-----------------------------------------------------------------------------
\* What a command does to the variables of its array and what it returns.

Keys(vars) == {k \in NsvKeys : vars[k] # Unbound}

NsvGet(vars, key) == [vars |-> vars, res |-> IF vars[key] = Unbound THEN Failed ELSE Value(vars[key])]
NsvExists(vars, key) == [vars |-> vars, res |-> Flag(vars[key] # Unbound)]
SetVar(vars, key) == [vars |-> [vars EXCEPT ![key] = 0], res |-> Value(0)]

IncrVar(vars, key) ==
    LET counter == IF vars[key] = Unbound THEN 0 ELSE vars[key]
    IN IF counter = Text THEN [vars |-> vars, res |-> Failed]
       ELSE [vars |-> [vars EXCEPT ![key] = counter + 1], res |-> Value(counter + 1)]

\* nsv_append and nsv_lappend
NsvAppend(vars, key) == [vars |-> [vars EXCEPT ![key] = Text], res |-> Value(Text)]

Unset(vars, key) ==
    [vars |-> [vars EXCEPT ![key] = Unbound], res |-> IF vars[key] = Unbound THEN Failed ELSE Nothing]

\* nsv_array set, reset (Flush first), size and get of an array.
ArraySet(vars, key) == [vars |-> [vars EXCEPT ![key] = 0], res |-> Nothing]
ArrayReset(vars, key) == [vars |-> [NoVars EXCEPT ![key] = 0], res |-> Nothing]
ArraySize(vars) == [vars |-> vars, res |-> Value(Cardinality(Keys(vars)))]
ArrayGet(vars) == [vars |-> vars, res |-> List({<<k, vars[k]>> : k \in Keys(vars)})]

Body(op, vars, key) ==
    CASE op = "get" -> NsvGet(vars, key)
      [] op = "exists" -> NsvExists(vars, key)
      [] op = "set" -> SetVar(vars, key)
      [] op = "incr" -> IncrVar(vars, key)
      [] op = "append" -> NsvAppend(vars, key)
      [] op = "unsetkey" -> Unset(vars, key)
      [] op = "unset" -> [vars |-> NoVars, res |-> Nothing]
      [] op = "array set" -> ArraySet(vars, key)
      [] op = "array reset" -> ArrayReset(vars, key)
      [] op = "array size" -> ArraySize(vars)
      [] op = "array get" -> ArrayGet(vars)

ApiOps == {"get", "exists", "set", "incr", "append", "unsetkey"}
\* All commands of interpreters.
TclOps == ApiOps \cup {"unset", "array set", "array reset", "array size", "array get"}
Creates(op) == op \in {"set", "incr", "append", "array set", "array reset"}

\* Result of a command on an array that does not exist and is not created.
NoArray(op) ==
    CASE op = "exists" -> Flag(FALSE)
      [] op = "array size" -> Value(0)
      [] op = "array get" -> List({})
      [] OTHER -> Failed

-----------------------------------------------------------------------------
NsvInit ==
    /\ nsvTable = [n \in NsvNames |-> 0]
    /\ nsvArray = [a \in 1..MaxNsvArrays |-> NoVars]
    /\ nsvCount = 0
    /\ nsvFreed = {}
    /\ nsvCache = [i \in Interps |-> [n \in NsvNames |-> 0]]
    /\ nsvCall = [t \in NsvThreads |-> NoCall]
    /\ nsvWalk = [i \in Interps |-> NoWalk]

Ready(t) == nsvCall[t] = NoCall /\ (t \in Interps => nsvWalk[t] = NoWalk)

\* A command of an interpreter: the name object's array is read, without a lock.
NsvCommand(t, op, n, k) ==
    /\ t \in Interps /\ Ready(t)
    /\ nsvCall' = [nsvCall EXCEPT ![t] = [op |-> op, name |-> n, key |-> k, ptr |-> nsvCache[t][n]]]
    /\ UNCHANGED <<nsvTable, nsvArray, nsvCount, nsvFreed, nsvCache, nsvWalk>>

\* A call of Ns_VarGet, Ns_VarExists, Ns_VarSet, Ns_VarIncr, Ns_VarAppend or Ns_VarUnset.
VarCall(t, op, n, k) ==
    /\ t \in ApiThreads /\ Ready(t) /\ op \in ApiOps
    /\ nsvCall' = [nsvCall EXCEPT ![t] = [op |-> op, name |-> n, key |-> k, ptr |-> 0]]
    /\ UNCHANGED <<nsvTable, nsvArray, nsvCount, nsvFreed, nsvCache, nsvWalk>>

\* LockArray: the array that a locked bucket has under a name, a new one if asked for.
LockArray(c) ==
    IF nsvTable[c.name] # 0 THEN nsvTable[c.name] ELSE IF Creates(c.op) THEN nsvCount + 1 ELSE 0

\* Mutant: an array is created although the name has one.
LockArrayObjNew(c) == IF c.ptr # 0 THEN c.ptr ELSE IF Creates(c.op) THEN nsvCount + 1 ELSE nsvTable[c.name]

\* LockArrayObj: a remembered array is taken as it is.
LockArrayObj(c) == IF c.ptr # 0 THEN c.ptr ELSE LockArray(c)

\* Would another interpreter be left with a pointer to this array?
Remembered(t, a) == \E u \in Interps \ {t} : a \in Range(nsvCache[u]) \/ (nsvCall[u] # NoCall /\ nsvCall[u].ptr = a)

\* Walks note what appears and what goes: see NamesTruthful.
Watch(table) ==
    nsvWalk' = [i \in Interps |->
        IF nsvWalk[i] = NoWalk THEN NoWalk
        ELSE [nsvWalk[i] EXCEPT !.always = {n \in @ : table[n] # 0}, !.once = @ \cup {n \in NsvNames : table[n] # 0}]]

\* Mutant: the name object of the unset array still remembers it.
RememberAlways(t, c, a) ==
    nsvCache' = IF t \in Interps /\ a # 0 THEN [nsvCache EXCEPT ![t][c.name] = a] ELSE nsvCache

\* The name object remembers the array (Ns_TclSetOpaqueObj), or forgets it with nsv_unset.
Remember(t, c, a) ==
    nsvCache' = IF t \in Interps /\ a # 0
                THEN [nsvCache EXCEPT ![t][c.name] = IF c.op = "unset" THEN 0 ELSE a]
                ELSE nsvCache

\* What the command in progress of a thread returns when it gets the lock.
NsvResult(t) ==
    LET a == LockArrayObj(nsvCall[t])
    IN IF a = 0 THEN NoArray(nsvCall[t].op) ELSE Body(nsvCall[t].op, nsvArray[a], nsvCall[t].key).res

\* The command under the lock of the bucket.
NsvRun(t) ==
    LET c == nsvCall[t]
        a == LockArrayObj(c)
        new == a > nsvCount
        done == Body(c.op, nsvArray[a], c.key)
    IN /\ c # NoCall
       /\ nsvCall' = [nsvCall EXCEPT ![t] = NoCall]
       /\ IF a = 0
          THEN UNCHANGED <<nsvTable, nsvArray, nsvCount, nsvFreed, nsvCache, nsvWalk>>
          ELSE /\ a <= MaxNsvArrays
               /\ c.op = "unset" => SharedUnset \/ ~Remembered(t, a)
               /\ c.op = "incr" => nsvArray[a][c.key] < MaxNsvValue
               /\ nsvCount' = IF new THEN a ELSE nsvCount
               /\ nsvArray' = [nsvArray EXCEPT ![a] = done.vars]
               /\ nsvTable' = IF c.op = "unset" /\ nsvTable[c.name] = a THEN [nsvTable EXCEPT ![c.name] = 0]
                              ELSE IF new THEN [nsvTable EXCEPT ![c.name] = a]
                              ELSE nsvTable
               /\ nsvFreed' = IF c.op = "unset" THEN nsvFreed \cup {a} ELSE nsvFreed
               /\ Remember(t, c, a)
               /\ Watch(nsvTable')

-----------------------------------------------------------------------------
Alive == {n \in NsvNames : nsvTable[n] # 0}

\* nsv_names and nsv_bucket, which may be asked for one bucket.
WalkBegin(t, buckets) ==
    /\ t \in Interps /\ Ready(t)
    /\ nsvWalk' = [nsvWalk EXCEPT ![t] =
           [at |-> 1, buckets |-> buckets, got |-> {}, always |-> Alive, once |-> Alive]]
    /\ UNCHANGED <<nsvTable, nsvArray, nsvCount, nsvFreed, nsvCache, nsvCall>>

\* Mutant: the last bucket is left out.
WalkBucketShort(t) ==
    LET w == nsvWalk[t]
    IN /\ w # NoWalk /\ w.at <= Nbuckets
       /\ nsvWalk' = [nsvWalk EXCEPT ![t].at = @ + 1,
              ![t].got = IF w.at < Nbuckets THEN @ \cup {n \in Alive : BucketOf(n) = w.at - 1} ELSE @]
       /\ UNCHANGED <<nsvTable, nsvArray, nsvCount, nsvFreed, nsvCache, nsvCall>>

\* The arrays of one bucket are listed while it is locked.
WalkBucket(t) ==
    LET w == nsvWalk[t]
    IN /\ w # NoWalk /\ w.at <= Nbuckets
       /\ nsvWalk' = [nsvWalk EXCEPT ![t].at = @ + 1,
              ![t].got = IF w.at - 1 \in w.buckets THEN @ \cup {n \in Alive : BucketOf(n) = w.at - 1} ELSE @]
       /\ UNCHANGED <<nsvTable, nsvArray, nsvCount, nsvFreed, nsvCache, nsvCall>>

WalkEnd(t) ==
    /\ nsvWalk[t] # NoWalk /\ nsvWalk[t].at > Nbuckets
    /\ nsvWalk' = [nsvWalk EXCEPT ![t] = NoWalk]
    /\ UNCHANGED <<nsvTable, nsvArray, nsvCount, nsvFreed, nsvCache, nsvCall>>

NsvNext ==
    \/ \E t \in Interps, op \in NsvOps, n \in NsvNames, k \in NsvKeys : NsvCommand(t, op, n, k)
    \/ \E t \in ApiThreads, op \in ApiOps, n \in NsvNames, k \in NsvKeys : VarCall(t, op, n, k)
    \/ \E t \in NsvThreads : NsvRun(t)
    \/ \E t \in Interps : WalkBucket(t) \/ WalkEnd(t)
    \/ \E t \in Walkers : WalkBegin(t, 0..(Nbuckets - 1)) \/ \E b \in 0..(Nbuckets - 1) : WalkBegin(t, {b})

-----------------------------------------------------------------------------
\* The shared variables as a program sees them: name -> key -> value.
Seen(n) == IF nsvTable[n] = 0 THEN {} ELSE {nsvArray[nsvTable[n]]}

\* Every command acts at one moment on the array that has the name then, and
\* on nothing else: what it returns and what it leaves is what it would do on
\* a plain map, whatever array the name object remembers (LockArrayObj).
NsvAtomic ==
    [][\A t \in NsvThreads :
          LET c == nsvCall[t]
              vars == IF nsvTable[c.name] = 0 THEN NoVars ELSE nsvArray[nsvTable[c.name]]
              refused == nsvTable[c.name] = 0 /\ ~Creates(c.op)
          IN c # NoCall /\ nsvCall'[t] = NoCall =>
                /\ NsvResult(t) = IF refused THEN NoArray(c.op) ELSE Body(c.op, vars, c.key).res
                /\ \A n \in NsvNames :
                       Seen(n)' = IF n # c.name THEN Seen(n)
                                  ELSE IF refused \/ c.op = "unset" THEN {}
                                  ELSE {Body(c.op, vars, c.key).vars}]_nsvVars

\* No command is about to use an array that was freed (NsTclNsvUnsetObjCmd
\* frees it without telling the name objects of other interpreters).
NsvNotFreedInUse == \A t \in NsvThreads : nsvCall[t] # NoCall => nsvCall[t].ptr \notin nsvFreed

\* nsv_names takes the buckets one after the other.  Still it lists every
\* array that was there all the time, and none that was never there.
NamesTruthful ==
    \A t \in Interps : nsvWalk[t] # NoWalk /\ nsvWalk[t].at > Nbuckets =>
        /\ {n \in nsvWalk[t].always : BucketOf(n) \in nsvWalk[t].buckets} \subseteq nsvWalk[t].got
        /\ nsvWalk[t].got \subseteq nsvWalk[t].once
=============================================================================
