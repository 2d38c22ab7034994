------------------------------ MODULE Postgres ------------------------------
(***************************************************************************)
(* The driver for PostgreSQL: handles with their connections, transactions *)
(* and results, and the texts of statements, values and lists.             *)
(***************************************************************************)
EXTENDS Integers, Sequences, SequencesExt, FiniteSets

-----------------------------------------------------------------------------
(***************************************************************************)
(* One database handle under ns_db: the driver interface (nsdb/dbdrv.c),   *)
(* the row helpers (nsdb/dbutil.c), the Tcl command (nsdb/dbtcl.c) and the *)
(* PostgreSQL driver (nspostgres/nspostgres.c), with the server's session  *)
(* at the other end of the connection.  The connection may die at any      *)
(* statement; the driver reopens it and, in some cases, sends the          *)
(* statement again.  The pool of handles is the subject of DbPool.         *)
(*                                                                         *)
(* An operation is a function of a configuration c: the handle c.h, the    *)
(* server c.s, c.ret, what the last call returned, and c.reopened, whether *)
(* the last statement took a new connection.                               *)
(***************************************************************************)

CONSTANTS
    PgThreads,        \* interpreters that take the handle in turn
    MaxStatements,  \* bound on the statements sent
    MaxRows,        \* most rows of a select
    BlobSegments,   \* segments of a blob
    ReopenFails,    \* may the server refuse the new connection?
    OddSql,         \* may begin and rollback come after a newline, unseen by the driver?
    PgUnbound,        \* may a script release a handle with a result it never bound?
    DiesInBlob      \* may the connection be replaced while a blob is read?

VARIABLES pgH, pgS, pgHolder, pgSent, pgTx, pgGot, pgCrashed
pgVars == <<pgH, pgS, pgHolder, pgSent, pgTx, pgGot, pgCrashed>>

NoOne == "none"
NoPgResult == [kind |-> "none", by |-> NoOne, n |-> 0]
NoAnswer == [cmd |-> "none", ret |-> "none", n |-> 0, by |-> NoOne]
Statements == {"begin", "commit", "rollback", "dml", "select"} \cup (IF OddSql THEN {"nl_begin", "nl_rollback"} ELSE {})
NotBegun == [on |-> FALSE, acked |-> <<>>]

\* The session at the server: staged is what its transaction did, done what is committed.
NewSession(s) == [s EXCEPT !.alive = TRUE, !.tx = "no", !.staged = <<>>]
PgInit ==
    /\ pgH = [connected |-> FALSE, conn |-> "none", intx |-> FALSE, res |-> NoPgResult, cols |-> FALSE, cur |-> 0, n |-> 0, fetching |-> FALSE]
    /\ pgS = [alive |-> FALSE, tx |-> "no", staged |-> <<>>, done |-> <<>>]
    /\ pgHolder = NoOne /\ pgSent = 0 /\ pgTx = NotBegun /\ pgGot = NoAnswer /\ pgCrashed = FALSE

Conf == [h |-> pgH, s |-> pgS, ret |-> "none", reopened |-> FALSE]

-----------------------------------------------------------------------------
\* The server executes a statement q (a number and a segment): [s, kind].
Served(s, sql, q) ==
    CASE sql \in {"rollback", "nl_rollback"} -> {[s |-> [s EXCEPT !.tx = "no", !.staged = <<>>], kind |-> "command"]}
      [] sql = "commit" -> {[s |-> [s EXCEPT !.tx = "no", !.staged = <<>>, !.done = IF s.tx = "open" THEN @ \o s.staged ELSE @], kind |-> "command"]}
      [] s.tx = "aborted" -> {[s |-> s, kind |-> "error"]}
      [] sql \in {"begin", "nl_begin"} -> {[s |-> [s EXCEPT !.tx = "open"], kind |-> "command"]}
      [] sql = "dml" -> {[s |-> IF s.tx = "open" THEN [s EXCEPT !.staged = Append(@, q)] ELSE [s EXCEPT !.done = Append(@, q)], kind |-> "command"],
                         [s |-> IF s.tx = "open" THEN [s EXCEPT !.tx = "aborted"] ELSE s, kind |-> "error"]}
      [] OTHER -> {[s |-> s, kind |-> "rows"]}

\* PQexec: the session may end instead.  A session closed because another backend crashed
\* ends with a non-fatal error before the statement is executed; after a crash of its own
\* the statement may be done or not.
Dead(s) == [s EXCEPT !.alive = FALSE, !.tx = "no", !.staged = <<>>]
PQexec(s, sql, q) ==
    IF ~s.alive THEN {[s |-> s, kind |-> k] : k \in {"fatal", "null"}}
    ELSE Served(s, sql, q) \cup {[s |-> Dead(s), kind |-> k] : k \in {"nonfatal", "fatal"}}
         \cup {[s |-> Dead(o.s), kind |-> "fatal"] : o \in Served(s, sql, q)}

PgSent(c, sql, q, n) ==
    {[c EXCEPT !.s = o.s, !.h.res = [kind |-> o.kind, by |-> IF o.kind = "rows" THEN pgHolder ELSE NoOne, n |-> IF o.kind = "rows" THEN n ELSE 0]] : o \in PQexec(c.s, sql, q)}

\* Ns_PgOpenDb, called with a datasource that is well formed and no datestyle.
Ns_PgOpenDb(c) == [c EXCEPT !.reopened = TRUE, !.s = NewSession(c.s), !.h.conn = "open", !.h.intx = FALSE, !.h.res = NoPgResult, !.h.cols = FALSE, !.h.cur = 0, !.h.n = 0]

\* Mutants: the statement is sent again whatever the transaction, or whatever the error.
RetryInTransaction(h) == h.res.kind = "nonfatal"
RetryAlways(h) == ~h.intx

\* Ns_PgExec, the loop: the statement is sent again only outside a transaction and if the
\* server closed the session with a non-fatal error.
RetryQuery(h) == h.res.kind = "nonfatal" /\ ~h.intx
Reopened(c, sql, q, n) ==
    IF c.s.alive \/ c.ret = "error" THEN {c}
    ELSE (IF ReopenFails THEN {[c EXCEPT !.h.conn = "finished", !.ret = "error"]} ELSE {})
         \cup (IF RetryQuery(c.h) THEN PgSent(Ns_PgOpenDb(c), sql, q, n) ELSE {[Ns_PgOpenDb(c) EXCEPT !.ret = "error"]})

\* Mutant: the end of a transaction is not noticed.
BeginsOnly(h, sql) == IF sql = "begin" THEN TRUE ELSE h.intx

\* set_transaction_state: the first word of the statement, after blanks only.
set_transaction_state(h, sql) == IF sql = "begin" THEN TRUE ELSE IF sql \in {"commit", "rollback"} THEN FALSE ELSE h.intx

\* Ns_PgExec, the result
PgEnded(c, sql) ==
    LET e == [c EXCEPT !.h.cols = FALSE, !.h.cur = 0, !.h.n = 0] IN
    CASE c.ret = "error" -> c
      [] c.h.res.kind = "null" -> [c EXCEPT !.ret = "error"]
      [] c.h.res.kind = "rows" -> [e EXCEPT !.h.fetching = TRUE, !.ret = "rows"]
      [] c.h.res.kind = "command" -> [e EXCEPT !.h.intx = set_transaction_state(c.h, sql), !.h.n = IF sql = "dml" THEN 1 ELSE 0, !.ret = "dml"]
      [] OTHER -> [e EXCEPT !.ret = "error"]

\* Ns_PgExec: up to two new connections.  A finished connection is used after it was freed.
Ns_PgExec(c, sql, q, n) ==
    IF c.h.conn = "none" THEN {[c EXCEPT !.ret = "error"]}
    ELSE IF c.h.conn = "finished" THEN {[c EXCEPT !.ret = "crash"]}
    ELSE {PgEnded(d, sql) : d \in UNION {Reopened(e, sql, q, n) : e \in UNION {Reopened(f, sql, q, n) : f \in PgSent([c EXCEPT !.ret = "none", !.reopened = FALSE], sql, q, n)}}}

Ns_DbExec(c, sql, q, n) == IF c.h.connected THEN Ns_PgExec(c, sql, q, n) ELSE {[c EXCEPT !.ret = "error"]}

\* Ns_PgFlush and Ns_DbFlush: only a bound result is dropped.
PgClosed(c) == [c EXCEPT !.h.res = NoPgResult, !.h.cols = FALSE, !.h.cur = 0, !.h.n = 0]
Ns_PgFlush(c) == IF c.h.conn = "none" THEN [c EXCEPT !.ret = "error"] ELSE [(IF c.h.cols THEN PgClosed(c) ELSE c) EXCEPT !.ret = "ok"]
Ns_DbFlush(c) == IF c.h.connected THEN Ns_PgFlush(c) ELSE [c EXCEPT !.ret = "error"]

\* Ns_PgBindRow and Ns_DbBindRow
Ns_PgBindRow(c) ==
    IF c.h.conn = "none" \/ ~c.h.fetching THEN [c EXCEPT !.ret = "error"]
    ELSE [c EXCEPT !.h.fetching = FALSE, !.ret = "ok",
                   !.h.cols = IF c.h.res.kind = "rows" THEN TRUE ELSE @,
                   !.h.cur = IF c.h.res.kind = "rows" THEN 0 ELSE @,
                   !.h.n = IF c.h.res.kind = "rows" THEN c.h.res.n ELSE @]
Ns_DbBindRow(c) == IF c.h.connected THEN Ns_PgBindRow(c) ELSE [c EXCEPT !.ret = "error"]

\* Mutant: one row too many.
GetRowPastEnd(c) ==
    IF c.h.conn = "none" \/ ~c.h.cols THEN [c EXCEPT !.ret = "error"]
    ELSE IF c.h.cur > c.h.n THEN [PgClosed(c) EXCEPT !.ret = "end"]
    ELSE [c EXCEPT !.h.cur = @ + 1, !.ret = "ok"]

\* Ns_PgGetRow and Ns_DbGetRow
Ns_PgGetRow(c) ==
    IF c.h.conn = "none" \/ ~c.h.cols THEN [c EXCEPT !.ret = "error"]
    ELSE IF c.h.cur = c.h.n THEN [PgClosed(c) EXCEPT !.ret = "end"]
    ELSE [c EXCEPT !.h.cur = @ + 1, !.ret = "ok"]
Ns_DbGetRow(c) == IF c.h.connected THEN Ns_PgGetRow(c) ELSE [c EXCEPT !.ret = "error"]

\* Ns_DbDML: a result with rows is an error.
Ns_DbDML(c, sql, q, n) ==
    {CASE d.ret = "dml" -> [d EXCEPT !.ret = "ok"]
       [] d.ret = "rows" -> [Ns_DbFlush(d) EXCEPT !.ret = "error"]
       [] OTHER -> d : d \in Ns_DbExec(c, sql, q, n)}

Ns_DbSelect(c, sql, q, n) ==
    {IF d.ret = "rows" THEN Ns_DbBindRow(d) ELSE IF d.ret = "crash" THEN d ELSE [d EXCEPT !.ret = "error"] : d \in Ns_DbExec(c, sql, q, n)}

\* Ns_Db0or1Row and Ns_Db1Row: "zero", "one" or an error
SecondRow(c) == CASE c.ret = "end" -> [c EXCEPT !.ret = "one"] [] c.ret = "ok" -> [Ns_DbFlush(c) EXCEPT !.ret = "error"] [] OTHER -> c
FirstRow(c) == IF c.ret = "end" THEN [c EXCEPT !.ret = "zero"] ELSE SecondRow(Ns_DbGetRow(c))
Ns_Db0or1Row(c, sql, q, n) == {IF d.ret = "ok" THEN FirstRow(Ns_DbGetRow(d)) ELSE d : d \in Ns_DbSelect(c, sql, q, n)}
Ns_Db1Row(c, sql, q, n) == {IF d.ret = "zero" THEN [d EXCEPT !.ret = "error"] ELSE d : d \in Ns_Db0or1Row(c, sql, q, n)}

\* Mutant: the handle is not reset.
ResetNothing(c) == {[c EXCEPT !.ret = "ok"]}

\* Ns_PgResetHandle and Ns_DbResetHandle: an error when there was a transaction, even if it
\* is rolled back.
Ns_PgResetHandle(c) ==
    IF c.h.conn = "none" THEN {[c EXCEPT !.ret = "error"]}
    ELSE IF c.h.intx THEN {IF d.ret = "crash" THEN d ELSE [d EXCEPT !.ret = "error"] : d \in Ns_PgExec(c, "rollback", <<0, 0>>, 0)}
    ELSE {[c EXCEPT !.ret = "ok"]}
Ns_DbResetHandle(c) == IF c.h.connected THEN Ns_PgResetHandle(c) ELSE {[c EXCEPT !.ret = "error"]}

\* NsDbDisconnect, NsDbClose, Ns_PgCloseDb: fetchingRows is left as it was.
NsDbDisconnect(c) ==
    IF ~c.h.connected THEN c
    ELSE IF c.h.conn = "finished" THEN [c EXCEPT !.ret = "crash"]
    ELSE [PgClosed(c) EXCEPT !.h.conn = "none", !.h.intx = FALSE, !.h.connected = FALSE, !.s = Dead(c.s), !.ret = "ok"]

-----------------------------------------------------------------------------
\* blob_put, blob_dml_file: one insert per segment, as long as they succeed; the connection
\* was looked at before.
RECURSIVE blob_put(_, _, _)
blob_put(c, q, k) ==
    IF k > BlobSegments THEN {[c EXCEPT !.ret = "ok"]}
    ELSE UNION {IF d.ret = "dml" THEN blob_put(d, q, k + 1) ELSE {d} : d \in Ns_PgExec(c, "dml", <<q, k>>, 0)}

\* Mutant: a blob is stored without a transaction.
BlobAllowedAlways(h) == TRUE

\* PgCmd: a blob is only stored in a transaction.
BlobAllowed(h) == h.intx

\* blob_get, blob_send_to_stream: segments are asked for until one has no row.  The number
\* of rows is that of the connection found at the beginning: after a reconnection it is the
\* old one, whose result is an error without rows.
Stored(s, q) == {e[2] : e \in {x \in ToSet(s.done \o s.staged) : x[1] = q}}
RECURSIVE blob_get(_, _, _)
blob_get(c, q, k) ==
    UNION {CASE d.ret # "rows" -> IF d.ret = "crash" THEN {[c |-> d, n |-> 0]} ELSE {[c |-> [d EXCEPT !.ret = "error"], n |-> k - 1]}
             [] d.reopened -> IF DiesInBlob THEN {[c |-> [d EXCEPT !.ret = "ok"], n |-> k - 1]} ELSE {}
             [] d.h.res.n = 0 -> {[c |-> [d EXCEPT !.h.res = NoPgResult, !.ret = "ok"], n |-> k - 1]}
             [] OTHER -> blob_get(d, q, k + 1)
           : d \in Ns_PgExec(c, "select", <<0, 0>>, IF k \in Stored(c.s, q) THEN 1 ELSE 0)}

-----------------------------------------------------------------------------
\* What the script was told of its transaction: the statements acknowledged since the begin
\* that started it, until one fails.
Told(t, sql, q, ret) ==
    IF ret \in {"error", "crash"} THEN NotBegun
    ELSE CASE sql = "begin" -> IF pgS.tx = "no" THEN [on |-> TRUE, acked |-> <<>>] ELSE t
           [] sql \in {"commit", "rollback", "nl_rollback", "nl_begin"} -> NotBegun
           [] sql = "dml" /\ t.on -> [t EXCEPT !.acked = Append(@, q)]
           [] OTHER -> t

\* A command ends with the configuration d.
Becomes(d, cmd, n) ==
    /\ pgH' = d.h /\ pgS' = d.s /\ pgCrashed' = (d.ret = "crash")
    /\ pgGot' = [cmd |-> cmd, ret |-> d.ret, n |-> n, by |-> d.h.res.by]

\* EnterDbHandle and DbGetHandle: only the interpreter that has the handle knows it.
Uses(i) == pgHolder = i /\ ~pgCrashed

\* ns_db gethandle: a handle that is not connected is connected (Connect, NsDbOpen).
GetHandle(i) ==
    /\ pgHolder = NoOne /\ ~pgCrashed
    /\ \/ pgH.connected /\ pgHolder' = i /\ UNCHANGED <<pgH, pgS>>
       \/ /\ ~pgH.connected
          /\ \/ LET d == Ns_PgOpenDb(Conf) IN pgH' = [d.h EXCEPT !.connected = TRUE] /\ pgS' = d.s /\ pgHolder' = i
             \/ ReopenFails /\ UNCHANGED <<pgH, pgS, pgHolder>>
    /\ pgGot' = [NoAnswer EXCEPT !.cmd = "gethandle"]
    /\ UNCHANGED <<pgSent, pgTx, pgCrashed>>

\* ns_db exec, dml, select, 0or1row and 1row
Execute(cmd, c, sql, q, n) ==
    CASE cmd = "exec" -> Ns_DbExec(c, sql, q, n)
      [] cmd = "dml" -> Ns_DbDML(c, sql, q, n)
      [] cmd = "select" -> Ns_DbSelect(c, sql, q, n)
      [] cmd = "0or1row" -> Ns_Db0or1Row(c, sql, q, n)
      [] OTHER -> Ns_Db1Row(c, sql, q, n)
SendStatement(i, cmd, sql, n) ==
    /\ Uses(i) /\ pgSent < MaxStatements
    /\ sql # "select" => n = 0
    /\ pgSent' = pgSent + 1
    /\ \E d \in Execute(cmd, Conf, sql, <<pgSent + 1, 0>>, n) :
         Becomes(d, cmd, n) /\ pgTx' = Told(pgTx, sql, <<pgSent + 1, 0>>, d.ret)
    /\ UNCHANGED pgHolder

\* ns_db bindrow, getrow, flush and disconnect
Fetch(cmd, c) == CASE cmd = "bindrow" -> Ns_DbBindRow(c) [] cmd = "getrow" -> Ns_DbGetRow(c) [] cmd = "flush" -> Ns_DbFlush(c) [] OTHER -> NsDbDisconnect(c)
FetchRow(i, cmd) ==
    /\ Uses(i)
    /\ LET d == Fetch(cmd, Conf) IN
         /\ Becomes(d, cmd, d.h.cur)
         /\ pgTx' = IF cmd = "disconnect" THEN NotBegun ELSE pgTx
    /\ UNCHANGED <<pgHolder, pgSent>>

\* ns_db resethandle
ResetHandle(i) ==
    /\ Uses(i)
    /\ \E d \in Ns_DbResetHandle(Conf) : Becomes(d, "resethandle", 0)
    /\ pgTx' = NotBegun
    /\ UNCHANGED <<pgHolder, pgSent>>

\* ns_db releasehandle, NsDbReleaseHandles: Ns_DbPoolPutHandle; a stale handle is closed.
ReleaseHandle(i, stale) ==
    /\ Uses(i)
    /\ ~PgUnbound => ~(pgH.fetching /\ pgH.res.kind = "rows")
    /\ \E d \in Ns_DbResetHandle(Ns_DbFlush(Conf)) : Becomes(IF stale /\ d.ret # "crash" THEN NsDbDisconnect(d) ELSE d, "releasehandle", 0)
    /\ pgHolder' = NoOne /\ pgTx' = NotBegun
    /\ UNCHANGED pgSent

\* ns_pg blob_put and blob_dml_file; the connection is used without a test.
PutBlob(i) ==
    /\ Uses(i) /\ pgSent < MaxStatements
    /\ IF pgH.conn = "none" THEN Becomes([Conf EXCEPT !.ret = "crash"], "blob_put", 0) /\ UNCHANGED <<pgSent, pgTx>>
       ELSE IF ~BlobAllowed(pgH) THEN Becomes([Conf EXCEPT !.ret = "error"], "blob_put", 0) /\ UNCHANGED <<pgSent, pgTx>>
       ELSE /\ pgSent' = pgSent + 1
            /\ \E d \in blob_put(Conf, pgSent + 1, 1) :
                 /\ Becomes(d, "blob_put", 0)
                 /\ pgTx' = IF d.ret # "ok" THEN NotBegun ELSE IF pgTx.on THEN [pgTx EXCEPT !.acked = @ \o [k \in 1..BlobSegments |-> <<pgSent + 1, k>>]] ELSE pgTx
    /\ UNCHANGED pgHolder

\* ns_pg blob_get, blob_write and blob_select_file
GetBlob(i, q) ==
    /\ Uses(i) /\ q \in 1..pgSent
    /\ \E o \in blob_get(Conf, q, 1) : Becomes(o.c, "blob_get", o.n - Cardinality(Stored(pgS, q) \cap 1..BlobSegments))
    /\ pgTx' = IF pgGot'.ret = "ok" /\ pgS'.alive /\ pgS'.tx = pgS.tx THEN pgTx ELSE NotBegun
    /\ UNCHANGED <<pgHolder, pgSent>>

PgNext ==
    \E i \in PgThreads :
      \/ GetHandle(i)
      \/ \E cmd \in {"exec", "dml", "select", "0or1row", "1row"}, sql \in Statements, n \in 0..MaxRows : SendStatement(i, cmd, sql, n)
      \/ \E cmd \in {"bindrow", "getrow", "flush", "disconnect"} : FetchRow(i, cmd)
      \/ ResetHandle(i)
      \/ \E stale \in BOOLEAN : ReleaseHandle(i, stale)
      \/ PutBlob(i)
      \/ \E q \in 1..MaxStatements : GetBlob(i, q)

-----------------------------------------------------------------------------
Effects == pgS.done \o pgS.staged

\* No statement takes effect twice, however often the connection dies while it is sent: it is
\* sent again only if the server closed the session before executing it (Ns_PgExec).
SentOnce == \A i, j \in 1..Len(Effects) : i # j => Effects[i] # Effects[j]

\* A row is only handed out of a result that has it, and a bound result is not dropped
\* (Ns_PgBindRow, Ns_PgGetRow).
RowsThere == pgGot.cmd = "getrow" /\ pgGot.ret = "ok" /\ pgH.conn = "open" => pgH.res.kind = "rows" /\ pgH.cur <= pgH.res.n

PgInv == SentOnce /\ RowsThere

\* What the driver believes of the transaction is what the server does (in_transaction).
TransactionKnown == pgH.conn = "open" /\ pgS.alive => (pgH.intx <=> pgS.tx # "no")

\* As long as every statement since begin was acknowledged, all of them wait for the commit,
\* in order and with nothing lost: after a reconnection the rest of a transaction is not
\* carried out as if nothing had happened ("you'd blow transaction semantics", Ns_PgExec).
TransactionWhole == pgTx.on => pgS.tx = "open" /\ pgS.staged = pgTx.acked

\* A handle goes back to the pool without a transaction.
ReturnedClean == pgHolder = NoOne /\ pgH.connected => pgS.tx = "no" /\ ~pgH.intx /\ ~pgH.cols

\* Rows that are bound or read are those of the interpreter's own query, and 0or1row says
\* how many there were.
RowsOwn ==
    /\ pgH.cols => pgH.res.by = pgHolder
    /\ pgGot.cmd = "0or1row" /\ pgGot.ret # "error" => pgGot.ret = (IF pgGot.n = 0 THEN "zero" ELSE "one") /\ pgGot.n <= 1

\* A blob is stored whole or not at all, and read whole.
BlobsWhole ==
    /\ \A q \in 1..pgSent : LET segs == {e[2] : e \in {x \in ToSet(pgS.done) : x[1] = q /\ x[2] > 0}} IN segs \in {{}, 1..BlobSegments}
    /\ pgGot.cmd = "blob_get" /\ pgGot.ret = "ok" => pgGot.n = 0

PgCalm == TransactionKnown /\ TransactionWhole /\ ReturnedClean /\ RowsOwn /\ BlobsWhole /\ RowsThere

-----------------------------------------------------------------------------
(***************************************************************************)
(* The texts the database modules read and write: bind variables and their *)
(* quoting, the encoding of blobs (nspostgres/nspostgres.c), lists with    *)
(* quotes, lines of comma separated values (nsdb/dbtcl.c) and files of SQL *)
(* (nsdb/dbutil.c).  A text is a sequence of characters: "q" is the        *)
(* single, "d" the double quote, "b" the backslash, "n" the newline.       *)
(***************************************************************************)

CONSTANTS
    MaxSql, MaxFile,    \* lengths of the statements and of the files
    MaxElement,         \* length of a list element, of which there are up to two
    BlobBytes           \* bytes a blob is made of

VARIABLES dtInput       \* what is being read: [kind, s, v]
dtVars == <<dtInput>>

NoText == [kind |-> "none", s |-> <<>>, v |-> <<>>]
Texts(S, n) == UNION {[1..k -> S] : k \in 0..n}
DtInit == dtInput = NoText
IsSpace(c) == c \in {" ", "n"}
IsName(c) == c \in {"a", "x"}     \* _ $ # and alphanumerics

-----------------------------------------------------------------------------
\* Mutant: a cast, ::, starts a bind variable.
StartsBindAny(s, i, last) == s[i] = ":" /\ (i = Len(s) \/ s[i + 1] # ":")

\* parse_bind_variables: is there a bind variable at i?
StartsBind(s, i, last) == s[i] = ":" /\ (i = Len(s) \/ s[i + 1] # ":") /\ last # ":"

\* parse_bind_variables: the automaton, from position i in state r.st.  "=" ends a variable
\* without taking it, and drops it.
RECURSIVE BindScan(_, _, _, _)
BindScan(s, i, last, r) ==
    IF i > Len(s) THEN IF r.st = "bind" THEN [r EXCEPT !.vars = Append(@, r.name)] ELSE [r EXCEPT !.frags = Append(@, r.frag)]
    ELSE LET c == s[i] IN
      CASE r.st = "base" /\ c = "q" -> BindScan(s, i + 1, c, [r EXCEPT !.st = "instr", !.len = 0, !.frag = Append(@, c)])
        [] r.st = "base" /\ StartsBind(s, i, last) -> BindScan(s, i + 1, c, [r EXCEPT !.st = "bind", !.name = <<>>, !.frags = Append(@, r.frag)])
        [] r.st = "base" -> BindScan(s, i + 1, c, [r EXCEPT !.frag = Append(@, c)])
        [] r.st = "instr" -> BindScan(s, i + 1, c, [r EXCEPT !.st = IF c = "q" /\ (last # "q" \/ r.len = 0) THEN "base" ELSE "instr", !.len = @ + 1, !.frag = Append(@, c)])
        [] r.st = "bind" /\ c = "=" -> BindScan(s, i + 1, c, [r EXCEPT !.st = "base", !.frag = <<>>])
        [] r.st = "bind" /\ IsName(c) -> BindScan(s, i + 1, c, [r EXCEPT !.name = Append(@, c)])
        [] OTHER -> BindScan(s, i, s[i - 1], [r EXCEPT !.st = "base", !.frag = <<>>, !.vars = Append(@, r.name)])
parse_bind_variables(s) == BindScan(s, 1, "0", [st |-> "base", frag |-> <<>>, name |-> <<>>, len |-> 0, frags |-> <<>>, vars |-> <<>>])

\* Mutant: a backslash is not doubled.
DoubledQuote(v) == FlattenSeq([i \in 1..Len(v) |-> IF v[i] = "q" THEN <<"q", "q">> ELSE <<v[i]>>])

\* PgBindCmd: the value as it is put into the statement
Doubled(v) == FlattenSeq([i \in 1..Len(v) |-> IF v[i] \in {"q", "b"} THEN <<v[i], v[i]>> ELSE <<v[i]>>])
BoundValue(v) == IF v = <<>> THEN <<"N">> ELSE <<"q">> \o Doubled(v) \o <<"q">>

\* PgBindCmd: fragments and variables in turn; only the variable a is defined, as v.
PgBindCmd(s, v) ==
    LET r == parse_bind_variables(s)
        n == IF Len(r.frags) > Len(r.vars) THEN Len(r.frags) ELSE Len(r.vars)
        frag(i) == IF i <= Len(r.frags) THEN r.frags[i] ELSE <<>>
        var(i) == IF i <= Len(r.vars) THEN BoundValue(v) ELSE <<>>
    IN IF r.vars = <<>> THEN [ok |-> TRUE, sql |-> s]
       ELSE IF \E i \in 1..Len(r.vars) : r.vars[i] # <<"a">> THEN [ok |-> FALSE, sql |-> <<>>]
       ELSE [ok |-> TRUE, sql |-> FlattenSeq([i \in 1..n |-> frag(i) \o var(i)])]

\* Ns_DbQuoteValue
Ns_DbQuoteValue(v) == FlattenSeq([i \in 1..Len(v) |-> IF v[i] = "q" THEN <<"q", "q">> ELSE <<v[i]>>])

-----------------------------------------------------------------------------
\* Mutant: a backslash is written as it is.
enc_quote(c) == LET e == (c % 64) + 32 IN IF e = 39 THEN 97 ELSE e

\* enc_one: 97 and 98 are a and b, 39 and 92 the quote and the backslash.
enc_one(c) == LET e == (c % 64) + 32 IN IF e = 39 THEN 97 ELSE IF e = 92 THEN 98 ELSE e
encode3(p) ==
    <<enc_one(p[1] \div 4), enc_one(((p[1] * 16) % 64) + (p[2] \div 16)),
      enc_one(((p[2] * 4) % 64) + (p[3] \div 64)), enc_one(p[3] % 64)>>
get_one(c) == IF c = 97 THEN 39 ELSE IF c = 98 THEN 92 ELSE c
decode3(e, n) ==
    LET d(i) == (get_one(e[i]) - 32) % 64
        b == <<(d(1) * 4 + d(2) \div 16) % 256, (d(2) * 16 + d(3) \div 4) % 256, (d(3) * 64 + d(4)) % 256>>
    IN SubSeq(b, 1, n)

-----------------------------------------------------------------------------
\* Mutant: the backslash is kept.
UnescapedNot(s, i) == <<s[i]>>

\* QuoteListToListObjCmd: what a backslash at i stands for
Unescaped(s, i) == <<s[i + 1]>>
RECURSIVE QuoteScan(_, _, _, _, _)
QuoteScan(s, i, inquotes, ds, list) ==
    LET out == IF ds # <<>> THEN Append(list, ds) ELSE list
        J == {j \in i..Len(s) : ~IsSpace(s[j])}
        past == IF J = {} THEN Len(s) + 1 ELSE CHOOSE j \in J : \A k \in J : j <= k
    IN IF i > Len(s) THEN out
       ELSE CASE IsSpace(s[i]) /\ ~inquotes -> QuoteScan(s, past, inquotes, <<>>, out)
              [] s[i] = "b" /\ i < Len(s) -> QuoteScan(s, i + 2, inquotes, ds \o Unescaped(s, i), list)
              [] s[i] = "q" -> IF inquotes THEN QuoteScan(s, i + 1, FALSE, <<>>, Append(list, ds)) ELSE QuoteScan(s, i + 1, TRUE, ds, list)
              [] OTHER -> QuoteScan(s, i + 1, inquotes, Append(ds, s[i]), list)
QuoteListToListObjCmd(s) == QuoteScan(s, 1, FALSE, <<>>, <<>>)

\* Ns_StrTrimRight
TrimRight(e) == LET K == {i \in 1..Len(e) : ~IsSpace(e[i])} IN IF K = {} THEN <<>> ELSE SubSeq(e, 1, CHOOSE i \in K : \A j \in K : i >= j)

\* Mutant: quoted elements are trimmed as well.
ElementTrimmed(r) == TrimRight(r.elem)

\* GetCsvObjCmd: the line from i on; r holds the element, and whether a quote is open
Element(r) == IF r.quoted THEN r.elem ELSE TrimRight(r.elem)
RECURSIVE CsvScan(_, _, _)
CsvScan(s, i, r) ==
    IF i > Len(s) THEN IF r.blank THEN r.cols ELSE Append(r.cols, Element(r))
    ELSE LET c == s[i] IN
      CASE r.inquote /\ c = "d" /\ i = Len(s) -> CsvScan(s, i + 1, r)
        [] r.inquote /\ c = "d" /\ s[i + 1] = "d" -> CsvScan(s, i + 2, [r EXCEPT !.elem = Append(@, "d")])
        [] r.inquote /\ c = "d" -> CsvScan(s, i + 1, [r EXCEPT !.inquote = FALSE])
        [] r.inquote -> CsvScan(s, i + 1, [r EXCEPT !.elem = Append(@, c)])
        [] c = "d" -> CsvScan(s, i + 1, [r EXCEPT !.inquote = TRUE, !.quoted = TRUE, !.blank = FALSE])
        [] r.elem = <<>> /\ IsSpace(c) -> CsvScan(s, i + 1, r)
        [] c = "," -> CsvScan(s, i + 1, [r EXCEPT !.cols = Append(@, Element(r)), !.elem = <<>>, !.quoted = FALSE])
        [] OTHER -> CsvScan(s, i + 1, [r EXCEPT !.blank = FALSE, !.elem = Append(@, c)])
GetCsvObjCmd(s) == CsvScan(s, 1, [inquote |-> FALSE, quoted |-> FALSE, blank |-> TRUE, elem |-> <<>>, cols |-> <<>>])

\* Mutant: a comment may begin anywhere.
CommentAnywhere(c, lastc) == c = "-"

\* Ns_DbInterpretSqlFile: a comment begins at the start of a line.
CommentHere(c, lastc) == c = "-" /\ lastc = "n"
NextLine(s, i) == LET J == {j \in i..Len(s) : s[j] = "n"} IN IF J = {} THEN Len(s) + 1 ELSE (CHOOSE j \in J : \A k \in J : j <= k) + 1

\* The file from i on, and what was executed; the statement number fail is refused.
RECURSIVE SqlScan(_, _, _, _, _)
SqlScan(s, i, lastc, r, fail) ==
    IF i > Len(s) THEN [r EXCEPT !.ok = \A k \in 1..Len(r.sql) : IsSpace(r.sql[k])]
    ELSE LET c == s[i] IN
      CASE r.inquote /\ c # "q" -> SqlScan(s, i + 1, c, [r EXCEPT !.sql = Append(@, c)], fail)
        [] r.inquote /\ i = Len(s) -> SqlScan(s, i + 1, c, r, fail)
        [] r.inquote /\ s[i + 1] = "q" -> SqlScan(s, i + 2, "q", [r EXCEPT !.sql = @ \o <<"q", "q">>], fail)
        [] r.inquote -> SqlScan(s, i + 1, "q", [r EXCEPT !.sql = Append(@, "q"), !.inquote = FALSE], fail)
        [] CommentHere(c, lastc) -> IF i = Len(s) THEN SqlScan(s, i + 1, c, r, fail)
                                    ELSE IF s[i + 1] # "-" THEN SqlScan(s, i + 1, c, [r EXCEPT !.sql = Append(@, c)], fail)
                                    ELSE SqlScan(s, NextLine(s, i + 2), "n", r, fail)
        [] c = ";" -> IF Len(r.done) + 1 = fail THEN [r EXCEPT !.done = Append(@, r.sql), !.ok = FALSE]
                      ELSE SqlScan(s, i + 1, c, [r EXCEPT !.done = Append(@, r.sql), !.sql = <<>>], fail)
        [] OTHER -> SqlScan(s, i + 1, c, [r EXCEPT !.sql = Append(@, c), !.inquote = (c = "q")], fail)
Ns_DbInterpretSqlFile(s, fail) == SqlScan(s, 1, "n", [inquote |-> FALSE, sql |-> <<>>, done |-> <<>>, ok |-> TRUE], fail)

-----------------------------------------------------------------------------
\* The client asks: a statement with a value for its variables, a blob, a list as a text
\* with quotes or as a line of a file, a file of statements of which one may be refused.
Asked(kind, s, v) == dtInput' = [kind |-> kind, s |-> s, v |-> v]
Element2 == Texts({"a", "d", ",", " ", "q", "b"}, MaxElement)
DtNext ==
    \/ /\ dtInput = NoText
       /\ \/ \E s \in Texts({"a", "x", "q", ":", "=", " "}, MaxSql), v \in {<<>>, <<"q">>, <<"a", "b">>} : Asked("bind", s, v)
          \/ \E p \in [1..3 -> BlobBytes] : Asked("blob", p, <<>>)
          \/ \E e, f \in Element2 : Asked("list", e, f)
          \/ \E s \in Texts({"a", "q", "-", ";", "n"}, MaxFile), k \in 0..2 : Asked("file", Append(s, "n"), <<k>>)
    \/ dtInput # NoText /\ dtInput' = NoText

-----------------------------------------------------------------------------
Quotes(s, i) == Len(SelectSeq(SubSeq(s, 1, i - 1), LAMBDA c : c = "q"))
Outside(s, i) == Quotes(s, i) % 2 = 0
CharAt(s, i) == IF i \in 1..Len(s) THEN s[i] ELSE "0"
IsBindAt(s, i) == s[i] = ":" /\ Outside(s, i) /\ CharAt(s, i - 1) # ":" /\ CharAt(s, i + 1) # ":"
NameOf(s, i) == LET J == {j \in i..Len(s) : \A k \in (i + 1)..j : IsName(s[k])} IN SubSeq(s, i + 1, CHOOSE j \in J : \A k \in J : j >= k)
BoundReference(s, v) ==
    LET B == {i \in 1..Len(s) : IsBindAt(s, i)}
        Within(j) == \E i \in B : j \in (i + 1)..(i + Len(NameOf(s, i)))
    IN FlattenSeq([j \in 1..Len(s) |-> IF j \in B THEN BoundValue(v) ELSE IF Within(j) THEN <<>> ELSE <<s[j]>>])

\* A statement is sent with each of its variables replaced by its value, and nothing else
\* changed: a colon in a string or in a cast is no variable.  A statement where "=" follows
\* a variable or a colon is not read this way (parse_bind_variables).
BindsExact ==
    dtInput.kind = "bind" =>
      LET s == dtInput.s
          B == {i \in 1..Len(s) : IsBindAt(s, i)}
          r == PgBindCmd(s, dtInput.v)
      IN (\A i \in B : CharAt(s, i + Len(NameOf(s, i)) + 1) # "=") =>
           /\ r.ok <=> \A i \in B : NameOf(s, i) = <<"a">>
           /\ r.ok => r.sql = BoundReference(s, dtInput.v)

\* A literal as the server reads it: a doubled quote and a character after a backslash
\* stand for themselves, the first other quote ends it.
RECURSIVE LiteralRead(_, _, _)
LiteralRead(s, i, v) ==
    CASE i > Len(s) -> [ends |-> 0, v |-> v]
      [] s[i] = "q" /\ CharAt(s, i + 1) # "q" -> [ends |-> i, v |-> v]
      [] s[i] \in {"q", "b"} -> LiteralRead(s, i + 2, Append(v, CharAt(s, i + 1)))
      [] OTHER -> LiteralRead(s, i + 1, Append(v, s[i]))

\* Whatever the value of a bind variable, the server reads that value and nothing after it.
ValuesExact ==
    /\ dtInput.kind = "list" /\ dtInput.s # <<>> =>
         LET b == BoundValue(dtInput.s) IN LiteralRead(b, 2, <<>>) = [ends |-> Len(b), v |-> dtInput.s]
    /\ dtInput.kind = "list" /\ "b" \notin ToSet(dtInput.s) =>
         LET b == <<"q">> \o Ns_DbQuoteValue(dtInput.s) \o <<"q">> IN LiteralRead(b, 2, <<>>) = [ends |-> Len(b), v |-> dtInput.s]

\* A blob is read back as it was written, to the byte, and its encoding can stand in a
\* literal as it is (encode3, decode3).
BlobsExact ==
    dtInput.kind = "blob" =>
      LET e == encode3(dtInput.s) IN
        /\ \A n \in 1..3 : decode3(e, n) = SubSeq(dtInput.s, 1, n)
        /\ \A i \in 1..4 : e[i] \notin {39, 92} /\ e[i] \in 32..126

QuoteElement(e) == <<"q">> \o FlattenSeq([i \in 1..Len(e) |-> IF e[i] \in {"q", "b"} THEN <<"b", e[i]>> ELSE <<e[i]>>]) \o <<"q">>
CsvElement(e) == <<"d">> \o FlattenSeq([i \in 1..Len(e) |-> IF e[i] = "d" THEN <<"d", "d">> ELSE <<e[i]>>]) \o <<"d">>

\* A list written with quotes is read back, element by element (QuoteListToListObjCmd,
\* GetCsvObjCmd).
ListsExact ==
    dtInput.kind = "list" =>
      LET e == dtInput.s
          f == dtInput.v
      IN /\ QuoteListToListObjCmd(QuoteElement(e) \o <<" ">> \o QuoteElement(f)) = <<e, f>>
         /\ GetCsvObjCmd(CsvElement(e) \o <<",">> \o CsvElement(f)) = <<e, f>>

\* The file without its comments: the lines that begin with -- outside a string are left out.
RECURSIVE Uncommented(_, _)
Uncommented(s, before) ==
    IF s = <<>> THEN before
    ELSE LET k == NextLine(s, 1)
             line == SubSeq(s, 1, k - 1)
             rest == SubSeq(s, k, Len(s))
         IN Uncommented(rest, IF Outside(before, Len(before) + 1) /\ IsPrefix(<<"-", "-">>, line) THEN before ELSE before \o line)

\* Every statement of a file that ends in ; outside a string and a comment is executed once
\* and in order, up to the first that is refused, and a file that ends in the middle of a
\* statement is an error (Ns_DbInterpretSqlFile).
FilesExact ==
    dtInput.kind = "file" =>
      LET u == Uncommented(dtInput.s, <<>>)
          Stops == {i \in 1..Len(u) : u[i] = ";" /\ Outside(u, i)}
          stop(k) == CHOOSE i \in Stops : Len(SelectSeq(SubSeq(u, 1, i), LAMBDA c : c = ";")) >= k /\ Cardinality({j \in Stops : j <= i}) = k
          from(k) == IF k = 1 THEN 1 ELSE stop(k - 1) + 1
          all == [k \in 1..Cardinality(Stops) |-> SubSeq(u, from(k), stop(k) - 1)]
          fail == dtInput.v[1]
          refused == fail \in 1..Len(all)
          r == Ns_DbInterpretSqlFile(dtInput.s, fail)
          tail == SubSeq(u, from(Len(all) + 1), Len(u))
      IN /\ r.done = IF refused THEN SubSeq(all, 1, fail) ELSE all
         /\ r.ok <=> ~refused /\ \A i \in 1..Len(tail) : IsSpace(tail[i])

DbTextInv == BindsExact /\ ValuesExact /\ BlobsExact /\ ListsExact /\ FilesExact
=============================================================================
