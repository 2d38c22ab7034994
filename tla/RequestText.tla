---------------------------- MODULE RequestText -----------------------------
(***************************************************************************)
(* What is read out of the text of a request: paths and urls, the file of  *)
(* a url, forms, and cookies.                                              *)
(***************************************************************************)
EXTENDS Integers, Sequences, SequencesExt, FiniteSets

-----------------------------------------------------------------------------
(***************************************************************************)
(* What a request names: the request line and its url (nsd/request.c), how *)
(* urls are decoded and encoded (urlencode.c), normalised and mapped to    *)
(* files below the page root of a host (pathname.c, url2file.c), and the   *)
(* encodings a client accepts.  All are functions of their input, checked  *)
(* for every short input against what they are to compute.  Strings are    *)
(* sequences of characters; "e/" and "e." are %2f and %2e, "W" is "www.",  *)
(* "H" is "HTTP/1.1".                                                      *)
(***************************************************************************)

CONSTANTS
    MaxUrl, MaxHost, MaxLine, MaxText,   \* lengths of the inputs
    HashLevels                           \* the largest vhost.hosthashlevel

VARIABLES
    input            \* what the functions are asked about: [kind, s]
urlsVars == <<input>>

NoInput == [kind |-> "none", s |-> <<>>]
Strings(S, n) == UNION {[1..k -> S] : k \in 0..n}
UrlsInit == input = NoInput

-----------------------------------------------------------------------------
\* The index of the first c in s from i on, or one past the end
FirstIn(s, c, i) == LET J == {j \in i..Len(s) : s[j] = c} IN IF J = {} THEN Len(s) + 1 ELSE CHOOSE j \in J : \A k \in J : j <= k
FindLast(s, c) == LET J == {j \in 1..Len(s) : s[j] = c} IN IF J = {} THEN 0 ELSE CHOOSE j \in J : \A k \in J : j >= k
Onwards(s, i) == SubSeq(s, i, Len(s))

\* Ns_UrlPathDecode of the characters that matter here
Ns_UrlPathDecode(s) == [i \in 1..Len(s) |-> CASE s[i] = "e/" -> "/" [] s[i] = "e." -> "." [] OTHER -> s[i]]

\* Mutant: .. at the beginning is kept.
DotDotKept(dest) == LET slash == FindLast(dest, "/") IN IF slash > 0 THEN SubSeq(dest, 1, slash - 1) ELSE <<"/", ".", ".">>

\* The last part of what was written so far is taken away again.
DotDot(dest) == LET slash == FindLast(dest, "/") IN IF slash > 0 THEN SubSeq(dest, 1, slash - 1) ELSE dest

\* One part of a path after the other is added to dest.
RECURSIVE AddParts(_, _)
AddParts(dest, s) ==
    LET k == FirstIn(s, "/", 1)
        part == SubSeq(s, 1, k - 1)
        next == CASE part = <<".", ".">> -> DotDot(dest)
                  [] part \in {<<>>, <<".">>} -> dest
                  [] OTHER -> dest \o <<"/">> \o part
    IN IF k > Len(s) THEN next ELSE AddParts(next, Onwards(s, k + 1))

Ns_NormalizePath(dest, s) == LET d == AddParts(dest, s) IN IF d = <<>> THEN <<"/">> ELSE d

\* Mutant: the url is decoded after it was normalised.
SetUrlLate(s) == Ns_UrlPathDecode(Ns_NormalizePath(<<>>, s))

\* SetUrl: the url of a request, with the slash at its end if it had one.
SetUrl(s) ==
    LET J == {j \in 1..Len(s) : s[j] # "/"}
        bare == IF J = {} THEN <<>> ELSE Onwards(s, CHOOSE j \in J : \A k \in J : j <= k)
        normal == Ns_NormalizePath(<<>>, Ns_UrlPathDecode(s))
    IN IF bare # <<>> /\ Last(bare) = "/" THEN Append(normal, "/") ELSE normal

\* SetUrl: the parts of the url
RECURSIVE UrlParts(_)
UrlParts(p) ==
    LET k == FirstIn(p, "/", 1)
    IN IF k >= Len(p) THEN <<SubSeq(p, 1, k - 1)>> ELSE <<SubSeq(p, 1, k - 1)>> \o UrlParts(Onwards(p, k + 1))
UrlV(s) == UrlParts(Tail(SetUrl(s)))

\* Ns_SkipUrl
Ns_SkipUrl(s, n) ==
    LET Skip[k \in 0..n] == IF k = 0 THEN 0 ELSE Skip[k - 1] + Len(UrlV(s)[k]) + 1
    IN Onwards(SetUrl(s), Skip[n] + 1)

\* MakePath: the parts of s, each after a slash
RECURSIVE Ns_MakePath(_, _)
Ns_MakePath(dest, s) ==
    LET k == FirstIn(s, "/", 1)
        part == SubSeq(s, 1, k - 1)
        next == IF part = <<>> THEN dest ELSE dest \o <<"/">> \o part
    IN IF k > Len(s) THEN next ELSE Ns_MakePath(next, Onwards(s, k + 1))

RECURSIVE Stripped(_)
Stripped(s) == IF s # <<>> /\ Last(s) = "/" THEN Stripped(Front(s)) ELSE s

\* Ns_FastUrl2FileProc, the page root being root
Ns_FastUrl2FileProc(root, url) == Ns_MakePath(root, url)

\* Mutant: the mounted url stays in the path.
MountUrl2FileWhole(mount, base, url) == Ns_MakePath(base, url)

\* NsMountUrl2FileProc: what the url has in common with the mounted one is taken off.
NsMountUrl2FileProc(mount, base, url) ==
    LET I == {i \in 1..Len(url) : i > Len(mount) \/ mount[i] # url[i]}
        same == IF I = {} THEN Len(url) ELSE (CHOOSE i \in I : \A k \in I : i <= k) - 1
    IN Ns_MakePath(base, Onwards(url, same + 1))

\* NsUrlToFile with either of them
NsUrlToFile(file) == Stripped(file)

-----------------------------------------------------------------------------
\* Mutant: two dots in a host are let through.
IsHostDots(s) == \A i \in 1..Len(s) : s[i] # "/"

\* Ns_StrIsHost
Ns_StrIsHost(s) ==
    \A i \in 1..Len(s) : s[i] # "/" /\ ~(s[i] = "." /\ i < Len(s) /\ s[i + 1] = ".") /\ ~(s[i] = "W" /\ i < Len(s) /\ s[i + 1] = ".")

\* Ns_HashPath
RECURSIVE Ns_HashPath(_, _, _)
Ns_HashPath(dest, s, levels) ==
    LET J == {j \in 1..Len(s) : s[j] \notin {".", "/"}}
        j == CHOOSE m \in J : \A k \in J : m <= k
    IN IF levels = 0 THEN dest
       ELSE IF J = {} THEN Ns_HashPath(dest \o <<"/", "_">>, <<>>, levels - 1)
       ELSE Ns_HashPath(dest \o <<"/", s[j]>>, Onwards(s, j + 1), levels - 1)

\* ServerRoot: a virtual host's directory below "/v/h", or "/v"
ServerRoot(host, levels) ==
    LET bare == IF host # <<>> /\ host[1] = "W" THEN Tail(host) ELSE host
        colon == FindLast(bare, ":")
        safehost == IF colon > 0 THEN SubSeq(bare, 1, colon - 1) ELSE bare
    IN IF host = <<>> \/ ~Ns_StrIsHost(host) THEN <<"/", "v">>
       ELSE Ns_NormalizePath(Ns_HashPath(<<"/", "v", "/", "h">>, safehost, levels), safehost)

\* NsPageRoot, Ns_PagePath and ns_pagepath (page) or Ns_ServerPath and ns_serverpath;
\* the page directory is "p" or, absolute, "/r".
NsPageRoot(host, levels, absolute) ==
    IF absolute THEN <<"/", "r">> ELSE Ns_MakePath(ServerRoot(host, levels), <<"p">>)
PathObjCmd(page, host, levels, absolute, path) ==
    Ns_MakePath(IF page THEN NsPageRoot(host, levels, absolute) ELSE ServerRoot(host, levels), path)

-----------------------------------------------------------------------------
RECURSIVE Trimmed(_)
Trimmed(s) == IF s = <<>> THEN s ELSE IF s[1] = " " THEN Trimmed(Tail(s)) ELSE IF Last(s) = " " THEN Trimmed(Front(s)) ELSE s

BadRequest == [ok |-> FALSE, method |-> <<>>, url |-> <<>>, version |-> FALSE]

\* Mutant: an empty url is let through.
EmptyUrlOk(url) == FALSE

EmptyUrl(url) == url = <<>>

\* Ns_ParseRequest
Ns_ParseRequest(line) ==
    LET l == Trimmed(line)
        k == FirstIn(l, " ", 1)
        rest == Trimmed(Onwards(l, k))
        version == rest # <<>> /\ Last(rest) = "H"
        url == Trimmed(IF version THEN Front(rest) ELSE rest)
    IN IF l = <<>> \/ k > Len(l) \/ rest = <<>> \/ EmptyUrl(url) THEN BadRequest
       ELSE [ok |-> TRUE, method |-> SubSeq(l, 1, k - 1), url |-> url, version |-> version]

\* What a character is encoded as: queryenc, pathenc; "b" is hex 11.
CodeOf(c, part) ==
    CASE c = "%" -> <<"2", "5">>
      [] c = " " -> <<"2", "0">>
      [] c = "+" /\ part = "q" -> <<"2", "b">>
      [] c = "/" -> <<"2", "f">>
      [] OTHER -> <<>>
Hex == {"0", "2", "5", "b", "f"}

\* Mutant: % is not encoded.
EncodeCharOpen(c, part) ==
    IF c = "%" \/ CodeOf(c, part) = <<>> THEN <<c>> ELSE IF c = " " /\ part = "q" THEN <<"+">> ELSE <<"%">> \o CodeOf(c, part)

\* UrlEncode
EncodeChar(c, part) ==
    IF CodeOf(c, part) = <<>> THEN <<c>> ELSE IF c = " " /\ part = "q" THEN <<"+">> ELSE <<"%">> \o CodeOf(c, part)
RECURSIVE UrlEncode(_, _)
UrlEncode(s, part) == IF s = <<>> THEN <<>> ELSE EncodeChar(s[1], part) \o UrlEncode(Tail(s), part)

\* UrlDecode
RECURSIVE UrlDecode(_, _)
UrlDecode(s, part) ==
    IF s = <<>> THEN <<>>
    ELSE IF s[1] = "%" /\ Len(s) >= 3 /\ s[2] \in Hex /\ s[3] \in Hex
         THEN LET C == {c \in {"%", " ", "+", "/"} : CodeOf(c, "q") = <<s[2], s[3]>>}
              IN <<IF C = {} THEN "?" ELSE CHOOSE c \in C : TRUE>> \o UrlDecode(Onwards(s, 4), part)
    ELSE IF s[1] = "+" /\ part = "q" THEN <<" ">> \o UrlDecode(Tail(s), part)
    ELSE <<s[1]>> \o UrlDecode(Tail(s), part)

\* Mutant: gzip is sent to clients that refuse it.
AcceptLax(gzip, identity, star, http11) ==
    IF gzip >= 0 THEN TRUE ELSE star > 0 /\ http11

\* NsParseAcceptEncoding.  The qvalues are in tenths, -1 if there is none.
NsParseAcceptEncoding(gzip, identity, star, http11) ==
    CASE gzip = 10 -> TRUE
      [] gzip = 0 -> FALSE
      [] gzip > 0 /\ gzip < 10 -> IF identity >= 0 THEN gzip >= identity ELSE IF star >= 0 THEN gzip >= star ELSE TRUE
      [] gzip = -1 -> star > 0 /\ http11 /\ (identity >= 0 => star >= identity)

-----------------------------------------------------------------------------
Ask(kind, s) == input = NoInput /\ input' = [kind |-> kind, s |-> s]
UrlsAsked == input # NoInput /\ input' = NoInput
UrlsNext ==
    \/ /\ input = NoInput
       /\ \/ \E s \in Strings({"/", ".", "a", "e/", "e."}, MaxUrl) : Ask("url", s)
          \/ \E s \in Strings({"/", ".", "a", "W", ":"}, MaxHost) : Ask("host", s)
          \/ \E s \in Strings({"w", " ", "H"}, MaxLine) : Ask("line", s)
          \/ \E s \in Strings({"%", "2", "5", " ", "+", "/"}, MaxText) : Ask("text", s)
          \/ \E q \in [1..3 -> {-1, 0, 5, 10}] : Ask("accept", q)
    \/ UrlsAsked

-----------------------------------------------------------------------------
\* Where a path leads in the file system: the directories from the root down.
RECURSIVE Walk(_, _)
Walk(dirs, s) ==
    LET k == FirstIn(s, "/", 1)
        part == SubSeq(s, 1, k - 1)
        next == CASE part = <<".", ".">> -> IF dirs = <<>> THEN dirs ELSE Front(dirs)
                  [] part \in {<<>>, <<".">>} -> dirs
                  [] OTHER -> Append(dirs, part)
    IN IF k > Len(s) THEN next ELSE Walk(next, Onwards(s, k + 1))
Below(dirs, path) == IsPrefix(dirs, Walk(<<>>, path))
IsDots(part) == part \in {<<".">>, <<".", ".">>}

\* Every url leads to a file below the page root, to the one it names when .. stops at
\* the root, and below a mounted directory in the same way; its parts hold no dots and
\* name the same file (SetUrl, NsUrlToFile, NsMountUrl2FileProc).
UrlsBelowRoot ==
    input.kind = "url" =>
      LET url == SetUrl(input.s)
          v == UrlV(input.s)
          file == NsUrlToFile(Ns_FastUrl2FileProc(<<"/", "r">>, url))
          mounted == NsUrlToFile(NsMountUrl2FileProc(<<"/", "a">>, <<"/", "m">>, url))
      IN /\ Walk(<<>>, file) = <<<<"r">>>> \o Walk(<<>>, Ns_UrlPathDecode(input.s))
         /\ v[1] = <<"a">> => Walk(<<>>, mounted) = <<<<"m">>>> \o Tail(v)
         /\ \A i \in 1..Len(v) : ~IsDots(v[i])
         /\ v # <<<<>>>> => v = Walk(<<>>, url)
         /\ Ns_SkipUrl(input.s, 0) = url

\* Every host header leads to a directory below that of the virtual hosts, or is
\* refused and leads to the server's own (ServerRoot).
HostsBelowRoot ==
    input.kind = "host" =>
      \A levels \in 0..HashLevels :
        IF Ns_StrIsHost(input.s) /\ input.s # <<>> THEN Below(<<<<"v">>, <<"h">>>>, ServerRoot(input.s, levels))
        ELSE ServerRoot(input.s, levels) = <<"/", "v">>

\* The page directory of a host is below its root, whatever the host (NsPageRoot).
PagesBelowHost ==
    input.kind = "host" =>
      \A levels \in 0..HashLevels :
        /\ PathObjCmd(TRUE, input.s, levels, TRUE, <<"a">>) = <<"/", "r", "/", "a">>
        /\ Walk(<<>>, PathObjCmd(TRUE, input.s, levels, FALSE, <<"a">>))
             = Walk(<<>>, PathObjCmd(FALSE, input.s, levels, FALSE, <<>>)) \o <<<<"p">>, <<"a">>>>

\* A request line has a method and a url, whatever its blanks (Ns_ParseRequest).
LinesParsed ==
    input.kind = "line" =>
      LET r == Ns_ParseRequest(input.s)
          words == SelectSeq(input.s, LAMBDA c : c # " ")
      IN IF r.ok
         THEN /\ r.method # <<>> /\ r.url # <<>>
              /\ \A i \in 1..Len(r.method) : r.method[i] # " "
              /\ words = r.method \o SelectSeq(r.url, LAMBDA c : c # " ") \o (IF r.version THEN <<"H">> ELSE <<>>)
         ELSE \/ FirstIn(Trimmed(input.s), " ", 1) > Len(Trimmed(input.s))
              \/ Len(words) >= 2 /\ Last(words) = "H"

\* What is encoded is decoded to itself, in queries and in paths (UrlEncode, UrlDecode).
EncodingExact == input.kind = "text" => \A part \in {"p", "q"} : UrlDecode(UrlEncode(input.s, part), part) = input.s

\* Compressed replies are not sent to clients that refuse them (NsParseAcceptEncoding).
RefusalsRespected ==
    input.kind = "accept" =>
      LET gzip == input.s[1] identity == input.s[2] star == input.s[3]
          wish == IF gzip >= 0 THEN gzip ELSE star
      IN \A http11 \in BOOLEAN : NsParseAcceptEncoding(gzip, identity, star, http11) => wish > 0 /\ (gzip < 10 => identity <= wish)

\* What requests name is what is served.
UrlInv == UrlsBelowRoot /\ HostsBelowRoot /\ PagesBelowHost /\ LinesParsed /\ EncodingExact /\ RefusalsRespected

-----------------------------------------------------------------------------
(***************************************************************************)
(* Which procedure maps a url to a file (nsd/url2file.c): procedures are   *)
(* registered for a url and what is below it, replaced and removed while   *)
(* threads run them outside of the lock.  Two urls are modelled, "/" and   *)
(* "/a"; what the procedures compute is the subject of Urls.               *)
(***************************************************************************)

CONSTANTS
    Lookers,         \* threads that look up files
    MaxU2f           \* procedures registered in a run

VARIABLES
    u2fLegacy,       \* servPtr->fastpath.url2file is set
    u2fSpace,        \* the url space: [url, noinherit] -> the Url2File, 0 for none
    u2f,             \* Url2File -> [refcnt, freed], freed counts delete callbacks
    u2fCount,        \* Url2Files registered so far
    looker,          \* thread -> [pc, url, mine, due]: what it runs, and what was due
    u2fCrashed       \* a null pointer has been called
u2fVars == <<u2fLegacy, u2fSpace, u2f, u2fCount, looker, u2fCrashed>>

U2fUrls == {"/", "/a"}
Spots == U2fUrls \X BOOLEAN
IdleLooker == [pc |-> "idle", url |-> "/", mine |-> 0, due |-> {}]

\* ConfigServerUrl2File registers Ns_FastUrl2FileProc for "/" and sets url2file.
U2fInit ==
    /\ u2fLegacy = TRUE
    /\ u2fSpace = [s \in Spots |-> IF s = <<"/", FALSE>> THEN 1 ELSE 0]
    /\ u2f = [n \in 1..MaxU2f |-> [refcnt |-> IF n = 1 THEN 1 ELSE 0, freed |-> 0]]
    /\ u2fCount = 1
    /\ looker = [t \in Lookers |-> IdleLooker]
    /\ u2fCrashed = FALSE

\* Mutant: whoever runs the procedure does not count.
FreeUrl2FileNow(U, N) ==
    [n \in DOMAIN U |-> IF n \in N THEN [refcnt |-> 0, freed |-> U[n].freed + 1] ELSE U[n]]

\* FreeUrl2File of every one in N: the last reference runs the delete callback.
FreeUrl2File(U, N) ==
    [n \in DOMAIN U |->
        IF n \in N THEN [refcnt |-> U[n].refcnt - 1, freed |-> U[n].freed + (IF U[n].refcnt = 1 THEN 1 ELSE 0)] ELSE U[n]]

\* NsUrlSpecificGet
Lookup(space, url) ==
    IF space[<<url, TRUE>>] # 0 THEN space[<<url, TRUE>>]
    ELSE IF space[<<url, FALSE>>] # 0 THEN space[<<url, FALSE>>]
    ELSE space[<<"/", FALSE>>]

\* While a thread looks a url up, every procedure that comes to speak for it is due.
Due(space) == [t \in Lookers |-> IF looker[t].pc = "idle" THEN looker[t] ELSE [looker[t] EXCEPT !.due = @ \cup {Lookup(space, looker[t].url)}]]

\* Ns_RegisterUrl2FileProc: url2file is reset first, outside of the lock.
ResetUrl2File ==
    /\ u2fLegacy /\ u2fCount < MaxU2f
    /\ u2fLegacy' = FALSE
    /\ UNCHANGED <<u2fSpace, u2f, u2fCount, looker, u2fCrashed>>

\* Then the procedure takes its place in the url space; a mounted directory or a script
\* (ns_register_fasturl2file, ns_register_url2file) has a delete callback.
Ns_RegisterUrl2FileProc(url, noinherit) ==
    LET new == u2fCount + 1
        old == u2fSpace[<<url, noinherit>>]
        space == [u2fSpace EXCEPT ![<<url, noinherit>>] = new]
    IN /\ ~u2fLegacy /\ new <= MaxU2f
       /\ u2fCount' = new
       /\ u2fSpace' = space
       /\ u2f' = [FreeUrl2File(u2f, {old} \ {0}) EXCEPT ![new].refcnt = 1]
       /\ looker' = Due(space)
       /\ UNCHANGED <<u2fLegacy, u2fCrashed>>

\* Ns_UnRegisterUrl2FileProc
Ns_UnRegisterUrl2FileProc(url, noinherit, recurse) ==
    LET spots == {s \in Spots : IF recurse THEN url = "/" \/ s[1] = url ELSE s = <<url, noinherit>>}
        space == [s \in Spots |-> IF s \in spots THEN 0 ELSE u2fSpace[s]]
    IN /\ \E s \in spots : u2fSpace[s] # 0
       /\ u2fSpace' = space
       /\ u2f' = FreeUrl2File(u2f, {u2fSpace[s] : s \in spots} \ {0})
       /\ looker' = Due(space)
       /\ UNCHANGED <<u2fLegacy, u2fCount, u2fCrashed>>

\* Ns_SetUrlToFileProc overrides the procedures that are registered.
Ns_SetUrlToFileProc ==
    /\ ~u2fLegacy /\ u2fCount = MaxU2f
    /\ u2fLegacy' = TRUE
    /\ UNCHANGED <<u2fSpace, u2f, u2fCount, looker, u2fCrashed>>

\* NsUrlToFile: url2file is tested ...
Lookup2File(t, url) ==
    /\ looker[t].pc = "idle"
    /\ looker' = [looker EXCEPT ![t] = [pc |-> IF u2fLegacy THEN "legacy" ELSE "lookup", url |-> url, mine |-> 0, due |-> {Lookup(u2fSpace, url)}]]
    /\ UNCHANGED <<u2fLegacy, u2fSpace, u2f, u2fCount, u2fCrashed>>

\* ... and read again for the call, ...
CallLegacy(t) ==
    /\ looker[t].pc = "legacy"
    /\ looker' = [looker EXCEPT ![t] = IdleLooker]
    /\ u2fCrashed' = ~u2fLegacy
    /\ UNCHANGED <<u2fLegacy, u2fSpace, u2f, u2fCount>>

\* ... or a procedure is looked up and referenced under the lock, ...
Reference(t) ==
    LET n == Lookup(u2fSpace, looker[t].url)
    IN /\ looker[t].pc = "lookup"
       /\ looker' = [looker EXCEPT ![t] = IF n = 0 THEN IdleLooker ELSE [@ EXCEPT !.pc = "run", !.mine = n]]
       /\ u2f' = IF n = 0 THEN u2f ELSE [u2f EXCEPT ![n].refcnt = @ + 1]
       /\ UNCHANGED <<u2fLegacy, u2fSpace, u2fCount, u2fCrashed>>

\* ... run outside of it, and released.
Release(t) ==
    /\ looker[t].pc = "run"
    /\ looker' = [looker EXCEPT ![t] = IdleLooker]
    /\ u2f' = FreeUrl2File(u2f, {looker[t].mine})
    /\ UNCHANGED <<u2fLegacy, u2fSpace, u2fCount, u2fCrashed>>

\* ns_url2file, ns_register_url2file and ns_register_fasturl2file, ns_unregister_url2file
NsTclUrl2FileObjCmd(t, url) == Lookup2File(t, url)
NsTclRegisterUrl2FileObjCmd(url, noinherit) == Ns_RegisterUrl2FileProc(url, noinherit)
NsTclUnRegisterUrl2FileObjCmd(url, noinherit, recurse) == Ns_UnRegisterUrl2FileProc(url, noinherit, recurse)

U2fNext ==
    /\ ~u2fCrashed
    /\ \/ ResetUrl2File
       \/ Ns_SetUrlToFileProc
       \/ \E url \in U2fUrls, noinherit \in BOOLEAN : NsTclRegisterUrl2FileObjCmd(url, noinherit)
       \/ \E url \in U2fUrls, noinherit, recurse \in BOOLEAN : NsTclUnRegisterUrl2FileObjCmd(url, noinherit, recurse)
       \/ \E t \in Lookers, url \in U2fUrls : NsTclUrl2FileObjCmd(t, url)
       \/ \E t \in Lookers : CallLegacy(t) \/ Reference(t) \/ Release(t)

-----------------------------------------------------------------------------
References(n) == Cardinality({s \in Spots : u2fSpace[s] = n}) + Cardinality({t \in Lookers : looker[t].mine = n})

\* A procedure's argument is freed once, when neither the url space nor a thread has the
\* procedure any more, and a thread runs one that spoke for its url while it asked.
U2fInv ==
    /\ \A n \in 1..u2fCount : u2f[n].refcnt = References(n) /\ u2f[n].freed = (IF References(n) = 0 THEN 1 ELSE 0)
    /\ \A t \in Lookers : looker[t].pc = "run" => looker[t].mine \in looker[t].due

-----------------------------------------------------------------------------
(***************************************************************************)
(* The form of a request (nsd/form.c): the query of the url or the content *)
(* of a POST, which is either such a query or a multipart message.  The    *)
(* content is a sequence of characters; "B" is the boundary, "n" and "r"   *)
(* are newline and return, "N", "F" and "R" a content-disposition with the *)
(* attributes name, name and filename, filename and name, "0" is the null  *)
(* character, "q" a quote.                                                 *)
(***************************************************************************)

CONSTANTS
    MaxQuery, MaxContent, MaxParts, MaxName    \* lengths of the inputs

VARIABLES
    form,       \* the request: [kind, s], kind none, get, post, multi or name
    formQuery,  \* connPtr->query: [asked, set], the fields <<key, value>> once it was asked for
    formFiles,  \* connPtr->files: [key, off, len]
    formClosed  \* NS_CONN_CLOSED
formVars == <<form, formQuery, formFiles, formClosed>>

Find(s, c, i) == LET J == {j \in i..Len(s) : s[j] = c} IN IF J = {} THEN Len(s) + 1 ELSE CHOOSE j \in J : \A k \in J : j <= k
From(s, i) == SubSeq(s, i, Len(s))
Null == <<"null">>     \* no value
FormStrings(S, n) == UNION {[1..k -> S] : k \in 0..n}
NoForm == [kind |-> "none", s |-> <<>>]
NoQuery == [asked |-> FALSE, set |-> <<>>]
Query(set) == [asked |-> TRUE, set |-> set]
FormInit == form = NoForm /\ formQuery = NoQuery /\ formFiles = {} /\ formClosed = FALSE

\* strchr from i on: the string ends at the null character, 0 is not found.
Strchr(s, c, i) ==
    LET E == {j \in i..Len(s) : s[j] \in {c, "0"}}
        j == CHOOSE k \in E : \A m \in E : k <= m
    IN IF E = {} \/ s[j] = "0" THEN 0 ELSE j
Upto(s, i) == LET E == {j \in i..Len(s) : s[j] = "0"} IN IF E = {} THEN From(s, i) ELSE SubSeq(s, i, (CHOOSE k \in E : \A m \in E : k <= m) - 1)
Ns_UrlQueryDecode(s) == [i \in 1..Len(s) |-> IF s[i] = "+" THEN " " ELSE s[i]]

\* Mutant: a field is not cut off from the rest.
CutNever(s, i) == s

\* A null character is written over a separator, and the separator written back later.
Cut(s, i) == IF i = 0 THEN s ELSE [s EXCEPT ![i] = "0"]
Uncut(s, i, c) == IF i = 0 THEN s ELSE [s EXCEPT ![i] = c]

\* ParseQuery from k on: the form as it leaves it, and the fields it adds.
RECURSIVE ParseQuery(_, _, _)
ParseQuery(s, k, set) ==
    LET p == Strchr(s, "&", k)
        s1 == Cut(s, p)
        v == Strchr(s1, "=", k)
        s2 == Cut(s1, v)
        key == Ns_UrlQueryDecode(Upto(s2, k))
        value == IF v = 0 THEN Null ELSE Ns_UrlQueryDecode(Upto(s2, v + 1))
        s3 == Uncut(Uncut(s2, v, "="), p, "&")
        fields == Append(set, <<key, value>>)
    IN IF p = 0 THEN [form |-> s3, set |-> fields] ELSE ParseQuery(s3, p + 1, fields)

\* GetValue in a content-disposition: "name=" is also found at the end of "filename=".
GetValue(disp, att) ==
    CASE disp = "N" -> IF att = "name=" THEN <<"name">> ELSE Null
      [] disp = "F" -> IF att = "name=" THEN <<"name">> ELSE <<"file">>
      [] disp = "R" -> <<"file">>
      [] OTHER -> Null

\* The lines up to an empty one; start is where the value begins.
RECURSIVE HeaderLines(_, _, _)
HeaderLines(s, start, disp) ==
    LET e == Strchr(s, "n", start)
        end == IF e > start /\ s[e - 1] = "r" THEN e - 1 ELSE e
        line == SubSeq(s, start, end - 1)
    IN IF e = 0 THEN [start |-> start, disp |-> disp]
       ELSE IF line = <<>> THEN [start |-> e + 1, disp |-> disp]
       ELSE HeaderLines(s, e + 1, IF disp = "" /\ line[1] \in {"N", "F", "R"} THEN line[1] ELSE disp)

\* Mutant: the newline before the boundary is taken for data.
TrimmedNot(s, start, end) == end

\* The newline before a boundary belongs to the boundary.
TrimmedEnd(s, start, end) ==
    LET e == IF end > start /\ s[end - 1] = "n" THEN end - 1 ELSE end
    IN IF e > start /\ s[e - 1] = "r" THEN e - 1 ELSE e

\* ParseMultiInput of the part from start up to end.
ParseMultiInput(s, start, end, q) ==
    LET e == TrimmedEnd(s, start, end)
        h == HeaderLines([s EXCEPT ![e] = "0"], start, "")
        key == GetValue(h.disp, "name=")
        data == SubSeq(s, h.start, e - 1)
    IN IF key = Null THEN q
       ELSE IF GetValue(h.disp, "filename=") = Null THEN [q EXCEPT !.set = Append(@, <<key, data>>)]
       ELSE [set |-> Append(q.set, <<key, <<"file">>>>),
             files |-> IF \E f \in q.files : f.key = key THEN q.files
                       ELSE q.files \cup {[key |-> key, off |-> h.start - 1, len |-> e - h.start]}]

NextBoundry(s, i) == LET E == {j \in i..Len(s) : s[j] = "B"} IN IF E = {} THEN 0 ELSE CHOOSE k \in E : \A m \in E : k <= m

\* The loop of Ns_ConnGetQuery over the parts
RECURSIVE Parts(_, _, _)
Parts(s, b, q) ==
    LET s1 == IF b < Len(s) /\ s[b + 1] = "r" THEN b + 2 ELSE b + 1
        s2 == IF s1 <= Len(s) /\ s[s1] = "n" THEN s1 + 1 ELSE s1
        e == NextBoundry(s, s2)
    IN IF b = 0 \/ e = 0 THEN q ELSE Parts(s, e, ParseMultiInput(s, s2, e, q))
Multipart(s) == Parts(s, NextBoundry(s, 1), [set |-> <<>>, files |-> {}])

\* The content may be unmapped once the connection is closed.
ContentThere == ~formClosed

\* Ns_ConnGetQuery: parsed once; "get" is the query of the url.
Ns_ConnGetQuery ==
    /\ form.kind \in {"get", "post", "multi"}
    /\ IF formQuery.asked THEN UNCHANGED formVars
       ELSE /\ IF form.kind = "get" \/ (form.kind = "post" /\ ContentThere)
               THEN LET q == ParseQuery(form.s, 1, <<>>) IN formQuery' = Query(q.set) /\ form' = [form EXCEPT !.s = q.form] /\ UNCHANGED formFiles
               ELSE IF form.kind = "multi" /\ ContentThere
               THEN LET q == Multipart(form.s) IN formQuery' = Query(q.set) /\ formFiles' = q.files /\ UNCHANGED form
               ELSE formQuery' = Query(<<>>) /\ UNCHANGED <<form, formFiles>>
            /\ UNCHANGED formClosed

\* Ns_ConnClearQuery
Ns_ConnClearQuery ==
    /\ formQuery.asked
    /\ formQuery' = NoQuery /\ formFiles' = {}
    /\ UNCHANGED <<form, formClosed>>

\* GetValue of a quoted name that begins at s[1]: the name and whether it is to be unescaped
RECURSIVE Quoted(_, _, _, _)
Quoted(s, e, escaped, unescape) ==
    IF e > Len(s) \/ (~escaped /\ s[e] = "q") THEN [name |-> SubSeq(s, 2, e - 1), unescape |-> unescape]
    ELSE Quoted(s, e + 1, ~escaped /\ s[e] = "\\", unescape \/ (~escaped /\ s[e] = "\\"))

\* Ext2Utf: a backslash before a quote goes.
RECURSIVE Ext2Utf(_, _)
Ext2Utf(s, unescape) ==
    IF ~unescape \/ s = <<>> THEN s
    ELSE IF Len(s) > 1 /\ s[1] = "\\" /\ s[2] = "q" THEN <<"q">> \o Ext2Utf(From(s, 3), unescape)
    ELSE <<s[1]>> \o Ext2Utf(Tail(s), unescape)

\* What a client sends for a name, and for a list of parts <<disposition, data>>
RECURSIVE Escape(_)
Escape(s) == IF s = <<>> THEN <<>> ELSE (IF s[1] = "q" THEN <<"\\", "q">> ELSE <<s[1]>>) \o Escape(Tail(s))
RECURSIVE Render(_)
Render(parts) == IF parts = <<>> THEN <<"B", "-">> ELSE <<"B", "r", "n", parts[1][1], "r", "n", "r", "n">> \o parts[1][2] \o <<"r", "n">> \o Render(Tail(parts))

Request(kind, s) == form = NoForm /\ form' = [kind |-> kind, s |-> s] /\ UNCHANGED <<formQuery, formFiles, formClosed>>
Close == form.kind \in {"post", "multi"} /\ ~formClosed /\ formClosed' = TRUE /\ UNCHANGED <<form, formQuery, formFiles>>
Done == form # NoForm /\ form' = NoForm /\ formQuery' = NoQuery /\ formFiles' = {} /\ formClosed' = FALSE
PartLists == FormStrings({"N", "F"} \X FormStrings({"x", "r", "n"}, 2), MaxParts)
FormNext ==
    \/ /\ form = NoForm
       /\ \/ \E s \in FormStrings({"a", "=", "&", "+"}, MaxQuery), kind \in {"get", "post"} : Request(kind, s)
          \/ \E s \in FormStrings({"B", "n", "r", "N", "R"}, MaxContent) : Request("multi", s)
          \/ \E p \in PartLists : Request("multi", Render(p))
          \/ \E s \in FormStrings({"a", "q", "\\"}, MaxName) : Request("name", s)
    \/ Ns_ConnGetQuery \/ Ns_ConnClearQuery \/ Close \/ Done

-----------------------------------------------------------------------------
\* The fields of a query: what is between the separators
RECURSIVE Split(_, _)
Split(s, c) == LET k == Find(s, c, 1) IN IF k > Len(s) THEN <<s>> ELSE <<SubSeq(s, 1, k - 1)>> \o Split(From(s, k + 1), c)
FieldOf(f) ==
    LET k == Find(f, "=", 1)
    IN <<Ns_UrlQueryDecode(SubSeq(f, 1, k - 1)), IF k > Len(f) THEN Null ELSE Ns_UrlQueryDecode(From(f, k + 1))>>
\* The parts <<disposition, data, offset>> of a message that is made of them
Expected(parts) == [i \in 1..Len(parts) |-> IF parts[i][1] = "N" THEN <<<<"name">>, parts[i][2]>> ELSE <<<<"name">>, <<"file">>>>]

\* The form is the one the client sent, and asking leaves the content as it was: the fields
\* between the separators, the parts between the boundaries with the newlines they end in,
\* and for a file its place in the content (Ns_ConnGetQuery).
FormExact ==
    formQuery.set # <<>> =>
      IF form.kind = "multi"
      THEN /\ \A p \in PartLists : form.s = Render(p) =>
                 /\ formQuery.set = Expected(p)
                 /\ \A f \in formFiles : \E i \in 1..Len(p) : p[i][1] = "F" /\ (\A j \in 1..(i - 1) : p[j][1] # "F")
                                                            /\ SubSeq(form.s, f.off + 1, f.off + f.len) = p[i][2]
           /\ \A f \in formFiles : f.off >= 0 /\ f.len >= 0 /\ f.off + f.len <= Len(form.s)
      ELSE formQuery.set = [i \in 1..Len(Split(form.s, "&")) |-> FieldOf(Split(form.s, "&")[i])]

\* Every name that does not have a backslash at its end or before a quote is read as it
\* was (GetValue, Ext2Utf).
NamesUnescaped ==
    form.kind = "name" =>
      LET s == form.s
          got == Quoted(<<"q">> \o Escape(s) \o <<"q">>, 2, FALSE, FALSE)
      IN (\A i \in 1..Len(s) : s[i] = "\\" => i < Len(s) /\ s[i + 1] = "a") => Ext2Utf(got.name, got.unescape) = s

\* The form is the one the client sent.
FormInv == FormExact /\ NamesUnescaped

-----------------------------------------------------------------------------
(***************************************************************************)
(* The cookies of a connection (nsd/cookies.c): those the client sent in   *)
(* the Cookie header, and the Set-Cookie headers of the reply.  A header   *)
(* is a sequence of characters and the search is that of the code, which   *)
(* looks for the first place of the name in the header, whatever it is     *)
(* part of.                                                                *)
(***************************************************************************)

CONSTANTS
    CkNames,        \* names of cookies, sequences of characters
    CkValues,       \* values, sequences of characters that need no encoding
    MaxCookies      \* Set-Cookie headers of a reply

VARIABLES
    ckSent,         \* the Cookie header
    ckOut,          \* the Set-Cookie headers, in order
    ckJar,          \* what was set, in order: [name, value]
    ckGot           \* the last ns_getcookie: [name, found, value], or NoGet
ckVars == <<ckSent, ckOut, ckJar, ckGot>>

NoGet == [name |-> <<>>, found |-> FALSE, value |-> <<>>]
CkPairs == [name : CkNames, value : CkValues]
CookieText(c) == c.name \o <<"=">> \o c.value
CkInit == ckSent = <<>> /\ ckOut = <<>> /\ ckJar = <<>> /\ ckGot = NoGet

\* strstr: where name begins in s, or 0.
Strstr(s, name) ==
    LET P == {i \in 1..(Len(s) - Len(name) + 1) : SubSeq(s, i, i + Len(name) - 1) = name}
    IN IF P = {} THEN 0 ELSE CHOOSE i \in P : \A j \in P : i <= j

\* SearchFirstCookie in one header: the value, up to a quote or a semicolon
HasCookie(s, name) == LET p == Strstr(s, name) IN p > 0 /\ p + Len(name) <= Len(s) /\ s[p + Len(name)] = "="
CookieValue(s, name) ==
    LET p == Strstr(s, name) + Len(name) + 1
        b == IF p <= Len(s) /\ s[p] = "q" THEN p + 1 ELSE p
        E == {i \in b..Len(s) : s[i] \in {"q", ";"}}
        e == IF E = {} THEN Len(s) + 1 ELSE CHOOSE i \in E : \A j \in E : i <= j
    IN SubSeq(s, b, e - 1)

\* SearchFirstCookie: the first header that has it, 0 if none does
SearchFirstCookie(hdrs, name) ==
    LET H == {i \in 1..Len(hdrs) : HasCookie(hdrs[i], name)}
    IN IF H = {} THEN 0 ELSE CHOOSE i \in H : \A j \in H : i <= j

\* Mutant: only the first one is deleted.
DeleteFirstCookie(hdrs, name) ==
    LET i == SearchFirstCookie(hdrs, name) IN IF i = 0 THEN hdrs ELSE SubSeq(hdrs, 1, i - 1) \o SubSeq(hdrs, i + 1, Len(hdrs))

\* DeleteNamedCookies
DeleteNamedCookies(hdrs, name) == SelectSeq(hdrs, LAMBDA h : ~HasCookie(h, name))

\* The Set-Cookie header: the quoted value and the attributes
SetCookieText(name, value) == name \o <<"=", "q">> \o value \o <<"q", ";", "P", "=", "/">>

\* Ns_ConnSetCookieEx; a cookie is deleted by one without a value that has expired.
Ns_ConnSetCookieEx(name, value, replace) ==
    /\ Len(ckJar) < MaxCookies
    /\ ckOut' = Append(IF replace THEN DeleteNamedCookies(ckOut, name) ELSE ckOut, SetCookieText(name, value))
    /\ ckJar' = Append(IF replace THEN SelectSeq(ckJar, LAMBDA c : c.name # name) ELSE ckJar, [name |-> name, value |-> value])
    /\ ckGot' = NoGet
    /\ UNCHANGED ckSent

\* ns_setcookie and ns_deletecookie
NsTclSetCookieObjCmd(name, value, replace) == Ns_ConnSetCookieEx(name, value, replace)
NsTclDeleteCookieObjCmd(name, replace) == Ns_ConnSetCookieEx(name, <<>>, replace)

\* Mutant: the client's cookie goes first.
WhereOther(name, included) == IF HasCookie(ckSent, name) THEN "sent" ELSE IF included /\ SearchFirstCookie(ckOut, name) > 0 THEN "out" ELSE "none"

\* NsTclGetCookieObjCmd: a cookie of the reply goes first if -include_set_cookies is given.
Where(name, included) == IF included /\ SearchFirstCookie(ckOut, name) > 0 THEN "out" ELSE IF HasCookie(ckSent, name) THEN "sent" ELSE "none"
NsTclGetCookieObjCmd(name, included) ==
    /\ ckGot' = [name |-> name, found |-> Where(name, included) # "none",
                 value |-> CASE Where(name, included) = "out" -> CookieValue(ckOut[SearchFirstCookie(ckOut, name)], name)
                             [] Where(name, included) = "sent" -> CookieValue(ckSent, name)
                             [] OTHER -> <<>>]
    /\ UNCHANGED <<ckSent, ckOut, ckJar>>

\* The request: up to two cookies in the header.
CkRequest ==
    /\ ckSent = <<>> /\ ckOut = <<>>
    /\ \E a, b \in CkPairs : a.name # b.name /\ ckSent' = CookieText(a) \o <<";", " ">> \o CookieText(b)
    /\ ckGot' = NoGet
    /\ UNCHANGED <<ckOut, ckJar>>

CkNext ==
    \/ CkRequest
    \/ \E name \in CkNames, value \in CkValues, replace \in BOOLEAN : NsTclSetCookieObjCmd(name, value, replace)
    \/ \E name \in CkNames, replace \in BOOLEAN : NsTclDeleteCookieObjCmd(name, replace)
    \/ \E name \in CkNames, included \in BOOLEAN : NsTclGetCookieObjCmd(name, included)

-----------------------------------------------------------------------------
TextOf(c) == SetCookieText(c.name, c.value)
SentPairs == {c \in CkPairs : \E o \in CkPairs : ckSent \in {CookieText(c) \o <<";", " ">> \o CookieText(o), CookieText(o) \o <<";", " ">> \o CookieText(c)}}

\* A cookie that was set before and is set with -replace is in the reply once, whatever the
\* names have in common (DeleteNamedCookies).
ReplacedOnce ==
    \A name \in CkNames :
      Len(SelectSeq(ckOut, LAMBDA h : IsPrefix(Append(name, "="), h))) <= Len(SelectSeq(ckJar, LAMBDA c : c.name = name))

\* The reply sets exactly the cookies that were set and not replaced, in that order, and a
\* cookie is found with its own value: names that are not part of each other.
CookiesOwn ==
    /\ ckOut = [i \in 1..Len(ckJar) |-> TextOf(ckJar[i])]
    /\ ckGot.name # <<>> =>
         LET set == SelectSeq(ckJar, LAMBDA c : c.name = ckGot.name)
             sent == {c \in SentPairs : c.name = ckGot.name}
         IN IF ckGot.found THEN (set # <<>> /\ ckGot.value = set[1].value) \/ \E c \in sent : ckGot.value = c.value
            ELSE sent = {}
    /\ \A name \in CkNames : SelectSeq(ckJar, LAMBDA c : c.name = name) # <<>> => Where(name, TRUE) = "out"
=============================================================================
