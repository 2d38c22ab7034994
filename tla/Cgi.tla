-------------------------------- MODULE Cgi ---------------------------------
(***************************************************************************)
(* Connection threads that run CGI scripts (nscgi/nscgi.c, CgiRequest):    *)
(* at most maxCgi at a time, the others wait for maxwait seconds.  Each    *)
(* request holds a temporary file with the content, a pipe from the        *)
(* script and the script's process, all of which must be given back on     *)
(* every path.                                                             *)
(***************************************************************************)
EXTENDS Integers, FiniteSets, Sequences, SequencesExt

CONSTANTS
    CgiThreads,     \* connection threads
    MaxCgi          \* limit; 0 for none

VARIABLES
    cpc,            \* where each thread is
    active,         \* modPtr->activeCgi
    cifd, cofd,     \* the temporary file and the pipe: are they open?
    cproc           \* the script: none, runs (its output is open), silent (closed), over (not waited for)
cgiVars == <<cpc, active, cifd, cofd, cproc>>

CgiRunInit ==
    /\ cpc = [t \in CgiThreads |-> "idle"] /\ active = 0
    /\ cifd = [t \in CgiThreads |-> FALSE] /\ cofd = [t \in CgiThreads |-> FALSE]
    /\ cproc = [t \in CgiThreads |-> "none"]

CgGo(t, pc) == cpc' = [cpc EXCEPT ![t] = pc]

\* A request that is not refused for the size of its content or because CgiInit finds no
\* script.  A file that is not executable, and has no interpreter, is returned as it is.
CgiBegin(t) ==
    /\ cpc[t] = "idle"
    /\ CgGo(t, "spool") \/ CgGo(t, "free")
    /\ UNCHANGED <<active, cifd, cofd, cproc>>

\* CgiSpool, if there is content.  A temporary file that cannot be written is closed.
CgiSpool(t) ==
    /\ cpc[t] = "spool"
    /\ \/ CgGo(t, "limit") /\ UNCHANGED cifd
       \/ cifd' = [cifd EXCEPT ![t] = TRUE] /\ CgGo(t, "limit")
       \/ CgGo(t, "free") /\ UNCHANGED cifd
    /\ UNCHANGED <<active, cofd, cproc>>

\* Mutant: one too many.
NoRoomStrict == active > MaxCgi

\* The limit: the wait goes on as long as there is no room.
NoRoom == active >= MaxCgi
TakeSlot(t) ==
    IF NoRoom THEN CgGo(t, "wait") /\ UNCHANGED active
    ELSE CgGo(t, "exec") /\ active' = active + 1
CgiLimit(t) ==
    /\ cpc[t] \in {"limit", "woken"}
    /\ IF MaxCgi = 0 THEN CgGo(t, "exec") /\ UNCHANGED active ELSE TakeSlot(t)
    /\ UNCHANGED <<cifd, cofd, cproc>>

\* maxwait is over: 503, whether there is room now or not.
CgiWaitEnds(t) ==
    /\ cpc[t] = "wait"
    /\ CgGo(t, "free")
    /\ UNCHANGED <<active, cifd, cofd, cproc>>

\* CgiExec: a string, a pipe and a process, or neither of them
CgiExec(t) ==
    /\ cpc[t] = "exec"
    /\ \/ cproc' = [cproc EXCEPT ![t] = "runs"] /\ cofd' = [cofd EXCEPT ![t] = TRUE] /\ CgGo(t, "copy")
       \/ CgGo(t, "leave") /\ UNCHANGED <<cproc, cofd>>
    /\ UNCHANGED <<active, cifd>>

\* CgiCopy: to the end of the script's output, or until the client is gone
CgiCopied(t) ==
    /\ cpc[t] = "copy" /\ cproc[t] # "runs"
    /\ CgGo(t, "leave")
    /\ UNCHANGED <<active, cifd, cofd, cproc>>
CgiClientGone(t) ==
    /\ cpc[t] = "copy"
    /\ CgGo(t, "leave")
    /\ UNCHANGED <<active, cifd, cofd, cproc>>

\* Mutant: nobody is told.
Wake(t) == cpc' = [cpc EXCEPT ![t] = "free"]

\* Ns_CondSignal: one of those that wait
Signalled(t) ==
    LET W == {u \in CgiThreads : cpc[u] = "wait"} IN
    IF W = {} THEN cpc' = [cpc EXCEPT ![t] = "free"]
    ELSE \E u \in W : cpc' = [cpc EXCEPT ![t] = "free", ![u] = "woken"]

\* The slot is given back before the process is waited for.
CgiLeave(t) ==
    /\ cpc[t] = "leave"
    /\ IF MaxCgi = 0 THEN CgGo(t, "free") /\ UNCHANGED active ELSE active' = active - 1 /\ Signalled(t)
    /\ UNCHANGED <<cifd, cofd, cproc>>

\* Mutant: the temporary file is kept.
ClosedPipe(t) == cofd' = [cofd EXCEPT ![t] = FALSE] /\ UNCHANGED cifd

\* CgiFree: the files are closed, then the process is waited for.  A script whose pipe is
\* closed ends when it writes, or on its own.
ClosedFiles(t) == cofd' = [cofd EXCEPT ![t] = FALSE] /\ cifd' = [cifd EXCEPT ![t] = FALSE]
CgiFree(t) ==
    /\ cpc[t] = "free"
    /\ ClosedFiles(t)
    /\ CgGo(t, "reap")
    /\ UNCHANGED <<active, cproc>>
\* Mutant: a request without a process waits for one.
WaitedAlways(t) == cproc[t] = "over"

\* Ns_WaitProcess, if there is a process
Waited(t) == cproc[t] \in {"none", "over"}
CgiReap(t) ==
    /\ cpc[t] = "reap"
    /\ Waited(t)
    /\ cproc' = [cproc EXCEPT ![t] = "none"]
    /\ CgGo(t, "idle")
    /\ UNCHANGED <<active, cifd, cofd>>

\* The script closes its output, and ends, on its own or killed by a write to the closed pipe.
ScriptCloses(t) ==
    /\ cproc[t] = "runs"
    /\ cproc' = [cproc EXCEPT ![t] = "silent"]
    /\ UNCHANGED <<cpc, active, cifd, cofd>>
CgiScriptEnds(t) ==
    /\ cproc[t] \in {"runs", "silent"}
    /\ cproc' = [cproc EXCEPT ![t] = "over"]
    /\ UNCHANGED <<cpc, active, cifd, cofd>>

CgiThreadSteps(t) == CgiSpool(t) \/ CgiLimit(t) \/ CgiExec(t) \/ CgiCopied(t) \/ CgiLeave(t) \/ CgiFree(t) \/ CgiReap(t)
CgiRunNext == \E t \in CgiThreads : CgiBegin(t) \/ CgiClientGone(t) \/ CgiThreadSteps(t) \/ CgiWaitEnds(t) \/ ScriptCloses(t) \/ CgiScriptEnds(t)

-----------------------------------------------------------------------------
\* A slot is held exactly by the requests that start, copy from or leave a script, on every
\* path, and never by more than the limit.
SlotsHeld ==
    MaxCgi > 0 => /\ active = Cardinality({t \in CgiThreads : cpc[t] \in {"exec", "copy", "leave"}})
                  /\ active <= MaxCgi

\* Nobody waits beside a free slot without being about to look: as many threads are woken
\* or on their way as there are slots that those who wait could take.
SlotNotMissed ==
    MaxCgi > 0 /\ active < MaxCgi /\ (\E t \in CgiThreads : cpc[t] = "wait") => \E t \in CgiThreads : cpc[t] = "woken"

\* A request that is over has left nothing behind: no file, no pipe and no process.
NothingLeft == \A t \in CgiThreads : cpc[t] = "idle" => ~cifd[t] /\ ~cofd[t] /\ cproc[t] = "none"

CgiRunInv == SlotsHeld /\ SlotNotMissed /\ NothingLeft

\* Every request is over at some time, if scripts end: those that wait are woken or give up.
CgiDone == \A t \in CgiThreads : cpc[t] # "idle" ~> cpc[t] = "idle"

-----------------------------------------------------------------------------
(***************************************************************************)
(* What a CGI request is given and what becomes of its output              *)
(* (nscgi/nscgi.c): the script a url leads to (CgiInit), its environment   *)
(* (CgiExec), and the headers and the body it writes (CgiCopy).            *)
(*                                                                         *)
(* A url is a sequence of characters.  The output is a sequence of lines:  *)
(* "h" and "i" are headers, "s" a status, "l" a location, "c" a line that  *)
(* begins with a space, "g" one without a colon, "e" an empty one.         *)
(***************************************************************************)

CONSTANTS
    MaxCgiUrl, MaxOutput,   \* lengths of the urls and of the output
    NDSTRINGS               \* strings of a request

VARIABLES cgiInput          \* what is asked: [kind, s, k]
cgiTextVars == <<cgiInput>>

NoCgi == [kind |-> "none", s |-> <<>>, k |-> "none"]
CgiTextInit == cgiInput = NoCgi
Maps == {"root", "gone", "dir", "file", "other"}
MapUrl == <<"/", "c">>

\* Mutant: the slash is lost.
AfterSlash(url, e) == SubSeq(url, e + 1, Len(url))

\* CgiInit: what follows the script in the url
PathInfo(url, e) == SubSeq(url, e, Len(url))

\* CgiInit: the script of a url, with what the map leads to: a place below the pages, a
\* directory, a file.  A url that the map's url is no prefix of comes from a pattern.
NoScript == [ok |-> FALSE, name |-> <<>>, path |-> <<>>, info |-> <<>>, strings |-> 0]
Script(name, path, info, n) == [ok |-> TRUE, name |-> name, path |-> path, info |-> info, strings |-> n]
CgiScript(url, map) ==
    LET plen == Len(MapUrl)
        under == IsPrefix(MapUrl, url) /\ (Len(url) = plen \/ url[plen + 1] = "/")
        J == {j \in (plen + 2)..Len(url) : url[j] = "/"}
        e == IF J = {} THEN Len(url) + 1 ELSE CHOOSE j \in J : \A k \in J : j <= k
    IN CASE ~under -> Script(url, <<"R">> \o url, <<>>, 1)
         [] under /\ map = "root" -> Script(MapUrl, <<"R">> \o MapUrl, PathInfo(url, plen + 1), 2)
         [] under /\ map = "dir" /\ Len(url) > plen -> Script(SubSeq(url, 1, e - 1), <<"D", "/">> \o SubSeq(url, plen + 2, e - 1), PathInfo(url, e), 2)
         [] under /\ map = "file" -> Script(MapUrl, <<"F">>, PathInfo(url, plen + 1), 2)
         [] OTHER -> NoScript

\* CgiDs: the strings of a request: those of the script, its directory, its interpreter, its
\* environment
CgiInit(url, map, interp) ==
    LET s == CgiScript(url, map) IN IF s.ok THEN [s EXCEPT !.strings = @ + 1 + (IF interp THEN 1 ELSE 0) + 1] ELSE s

-----------------------------------------------------------------------------
\* CgiExec: the environment.  A configured set maps names to values; the interpreter's goes
\* first, then the module's, then the system's.
Names == {"PATH", "X", "SCRIPT_NAME", "HTTP_X_A"}
UnsetVar == <<>>
Given(set, v) == [n \in Names |-> IF n \in set THEN <<v>> ELSE UnsetVar]

\* Mutant: the module's environment is written over the interpreter's.
MergeOver(env, other) == [n \in Names |-> IF other[n] # UnsetVar THEN other[n] ELSE env[n]]

\* Ns_SetMerge, and the loop over the system's environment
Merged(env, other) == [n \in Names |-> IF env[n] # UnsetVar THEN env[n] ELSE other[n]]

\* SetUpdate and SetAppend
SetUpdate(env, n, v) == [env EXCEPT ![n] = <<v>>]
SetAppend(env, n, v) == [env EXCEPT ![n] = Append(@, v)]

\* The headers: X-A and x_a both become HTTP_X_A, and are joined.
HeaderVar(h) == "HTTP_X_A"
CgiEnv(interp, module, system, hdrs) ==
    LET env == Merged(Merged(Given(interp, "interp"), Given(module, "module")), Given(system, "system"))
        pathed == IF env["PATH"] = UnsetVar THEN SetUpdate(env, "PATH", "server") ELSE env
        scripted == SetUpdate(pathed, "SCRIPT_NAME", "request")
    IN FoldLeft(LAMBDA e, h : SetAppend(e, HeaderVar(h), h), scripted, hdrs)

-----------------------------------------------------------------------------
HasColon(ds) == \E i \in 1..Len(ds) : ds[i] \in {"h", "i", "s", "l"}

\* Mutant: a location does not change the status.
LocationKept(st, kind) == IF kind = "s" THEN "given" ELSE st

\* CgiCopy: the status after a header
StatusAfter(st, kind) == IF kind = "s" THEN "given" ELSE IF kind = "l" THEN "302" ELSE st

\* CgiReadLine: line i is appended to what is in ds; nothing at the end of the output.
CgiReadLine(lines, i, ds) == IF i <= Len(lines) /\ lines[i] # "e" THEN Append(ds, lines[i]) ELSE ds

\* CgiCopy: the headers, from line i on.  ds is only emptied after a good header: a bad one
\* stays in front of the next line.
RECURSIVE CgiHeaders(_, _, _, _)
CgiHeaders(lines, i, ds, r) ==
    LET d == CgiReadLine(lines, i, ds) IN
    IF i > Len(lines) \/ d = <<>> THEN [r EXCEPT !.next = i + 1]
    ELSE CASE d[1] = "c" /\ r.hdrs = <<>> -> CgiHeaders(lines, i + 1, d, r)
           [] d[1] = "c" -> CgiHeaders(lines, i + 1, <<>>, [r EXCEPT !.hdrs[Len(r.hdrs)] = @ \o d])
           [] ~HasColon(d) -> CgiHeaders(lines, i + 1, d, r)
           [] d = <<"s">> -> CgiHeaders(lines, i + 1, <<>>, [r EXCEPT !.status = StatusAfter(@, "s")])
           [] d = <<"l">> -> CgiHeaders(lines, i + 1, <<>>, [r EXCEPT !.status = StatusAfter(@, "l"), !.hdrs = Append(@, d)])
           [] OTHER -> CgiHeaders(lines, i + 1, <<>>, [r EXCEPT !.hdrs = Append(@, d)])

\* Mutant: what was read along with the headers is not sent.
BodyFrom(lines, i, k) == SubSeq(lines, IF i <= k THEN k + 1 ELSE i, Len(lines))

\* CgiCopy, the body from line i on, if the first read returned k lines and the second the
\* rest: what is left in the buffer goes first.
CgiBody(lines, i, k) == IF i <= k THEN SubSeq(lines, i, k) \o SubSeq(lines, k + 1, Len(lines)) ELSE SubSeq(lines, i, Len(lines))
CgiCopy(lines, nph, k) ==
    LET r == IF nph THEN [hdrs |-> <<>>, status |-> "none", next |-> 1]
             ELSE CgiHeaders(lines, 1, <<>>, [hdrs |-> <<>>, status |-> "200", next |-> 1])
    IN [hdrs |-> r.hdrs, status |-> r.status, body |-> CgiBody(lines, r.next, k)]

-----------------------------------------------------------------------------
CgiAsk(kind, s, k) == cgiInput' = [kind |-> kind, s |-> s, k |-> k]
CgiTextNext ==
    \/ /\ cgiInput.kind = "none"
       /\ \/ \E n \in 1..MaxCgiUrl : \E s \in [1..n -> {"/", "c", "a"}], map \in Maps : s[1] = "/" /\ CgiAsk("url", s, map)
          \/ \E i, m, y \in SUBSET Names, hdrs \in {<<>>, <<"x-a">>, <<"x-a", "X_A">>} : CgiAsk("env", <<i, m, y, hdrs>>, "none")
          \/ \E n \in 0..MaxOutput : \E s \in [1..n -> {"h", "s", "l", "c", "g", "e"}], k \in 0..n : CgiAsk("output", s, k)
    \/ cgiInput.kind # "none" /\ cgiInput' = NoCgi

-----------------------------------------------------------------------------
\* SCRIPT_NAME and PATH_INFO together are the url, whatever the map, and PATH_INFO is empty
\* or begins with a slash; a script of a directory is one of its files; a request has a
\* string for all it keeps (CgiInit, CgiDs).
ScriptsNamed ==
    cgiInput.kind = "url" =>
      \A interp \in BOOLEAN :
        LET s == CgiInit(cgiInput.s, cgiInput.k, interp) IN
        s.ok => /\ s.name \o s.info = cgiInput.s
                /\ s.info # <<>> => s.info[1] = "/"
                /\ s.path[1] = "D" => Len(SelectSeq(s.path, LAMBDA c : c = "/")) = 1
                /\ s.strings <= NDSTRINGS

\* No configured variable hides one of the request; the interpreter's environment goes
\* before the module's and that before the system's; the headers of one name are all there,
\* in order (CgiExec).
EnvironmentRight ==
    cgiInput.kind = "env" =>
      LET i == cgiInput.s[1]
          m == cgiInput.s[2]
          y == cgiInput.s[3]
          hdrs == cgiInput.s[4]
          env == CgiEnv(i, m, y, hdrs)
          first(n) == IF n \in i THEN <<"interp">> ELSE IF n \in m THEN <<"module">> ELSE IF n \in y THEN <<"system">> ELSE <<>>
      IN /\ env["SCRIPT_NAME"] = <<"request">>
         /\ env["X"] = first("X")
         /\ env["PATH"] = IF first("PATH") = <<>> THEN <<"server">> ELSE first("PATH")
         /\ env["HTTP_X_A"] = first("HTTP_X_A") \o hdrs

\* The output after the first empty line is sent once and in order, however it was read, and
\* all of it for a script that writes its own headers; the headers before it are taken with
\* their continuations, and the last of status and location says the status.  A script that
\* writes a line that is no header is left out: it ends up in the next header, and hides the
\* empty line if that comes next (CgiCopy, whose comment says "Silently ignore bad header").
OutputCopied ==
    cgiInput.kind = "output" =>
      LET s == cgiInput.s
          E == {i \in 1..Len(s) : s[i] = "e"}
          end == IF E = {} THEN Len(s) + 1 ELSE CHOOSE i \in E : \A j \in E : i <= j
          head == SubSeq(s, 1, end - 1)
          bad == \E i \in 1..Len(head) : head[i] = "g" \/ (head[i] = "c" /\ \A j \in 1..(i - 1) : head[j] \notin {"h", "l"})
          St == {i \in 1..Len(head) : head[i] \in {"s", "l"}}
          r == CgiCopy(s, FALSE, cgiInput.k)
      IN /\ CgiCopy(s, TRUE, cgiInput.k).body = s
         /\ IsSuffix(r.body, s)
         /\ ~bad => /\ r.body = SubSeq(s, end + 1, Len(s))
                    /\ FlattenSeq(r.hdrs) = SelectSeq(head, LAMBDA l : l # "s")
                    /\ Len(r.hdrs) = Len(SelectSeq(head, LAMBDA l : l \in {"h", "l"}))
                    /\ r.status = IF St = {} THEN "200" ELSE IF head[CHOOSE i \in St : \A j \in St : i >= j] = "s" THEN "given" ELSE "302"

CgiTextInv == ScriptsNamed /\ EnvironmentRight /\ OutputCopied
=============================================================================
