-------------------------------- MODULE Nscp --------------------------------
(***************************************************************************)
(* A session of the control port (nscp/nscp.c): AcceptProc starts a thread *)
(* that asks for a user and a password and then evaluates what is typed,   *)
(* command by command.  The socket gives pieces, not lines, and the telnet *)
(* client mixes its own codes into them.                                   *)
(***************************************************************************)
EXTENDS Integers, Sequences, FiniteSets

CONSTANTS
    CpUsers,        \* [user -> password], modPtr->users
    CpWords,        \* words that may be typed; "{" and "}" open and close
    CpTyped,        \* bound: pieces per session
    CpEcho          \* echopasswd

VARIABLES
    cpAt,           \* where the session is
    cpDs,           \* the words in ds, "nl" for a newline
    cpUser,         \* the user that was given, and the one that is logged in
    cpRetry,        \* telnet WONT codes in this line
    cpRan,          \* commands evaluated
    cpOpen,         \* what the session holds: {"sock", "interp"}
    cpSeen          \* the pieces that came so far, and how many of them are in executed commands
nscpVars == <<cpAt, cpDs, cpUser, cpRetry, cpRan, cpOpen, cpSeen>>

NoCpUser == "nobody"
CpInit ==
    /\ cpAt = "none" /\ cpDs = <<>> /\ cpUser = [given |-> NoCpUser, name |-> NoCpUser]
    /\ cpRetry = 0 /\ cpRan = <<>> /\ cpOpen = {} /\ cpSeen = <<>>

\* AcceptProc
CpAccept ==
    /\ cpAt = "none"
    /\ cpAt' = "login" /\ cpOpen' = {"sock"}
    /\ UNCHANGED <<cpDs, cpUser, cpRetry, cpRan, cpSeen>>

----------------------------------------------------------------------------
(* GetLine *)

\* A piece: words, perhaps a newline at its end, or something of the telnet client.
Pieces == [kind : {"text"}, word : CpWords, nl : BOOLEAN] \cup [kind : {"text"}, word : {"nl"}, nl : {TRUE}]
            \cup [kind : {"wont", "end"}, word : {"nl"}, nl : {FALSE}]
TextOfPiece(p) ==
    (IF p.word = "nl" THEN <<>> ELSE <<p.word>>) \o (IF p.nl THEN <<"nl">> ELSE <<>>)

Reading == {"login", "password", "command"}

\* The end of the session on any failure.
CpDone == cpAt' = "done" /\ cpOpen' = {} /\ UNCHANGED <<cpDs, cpUser, cpRetry, cpRan>>

\* Without echo the answers of the client are read and dropped, whatever they are.
Flushing == cpAt \in {"flush", "flushed"}
CpFlush(p) ==
    /\ Flushing
    /\ cpAt' = IF cpAt = "flush" THEN "password" ELSE "check"
    /\ UNCHANGED <<cpDs, cpUser, cpRetry, cpRan, cpOpen>>

\* Mutant: a piece ends the line, with or without a newline.
LineEndsAlways(ds) == TRUE

LineEnds(ds) == ds # <<>> /\ ds[Len(ds)] = "nl"

----------------------------------------------------------------------------
(* Login and EvalThread *)

CpTrim(ds) == SelectSeq(ds, LAMBDA w : w # "nl")

\* Mutant: a user that is known needs no password.
PasswordKnownUser(u, ds) == u \in DOMAIN CpUsers

\* The user is in the table, and what was typed is its password.
PasswordRight(u, ds) == u \in DOMAIN CpUsers /\ CpTrim(ds) = <<CpUsers[u]>>

\* Mutant: the command is evaluated at the end of the line, complete or not.
CompleteAlways(ds) == TRUE

\* Tcl_CommandComplete
CountWord(ds, w) == Cardinality({k \in DOMAIN ds : ds[k] = w})
Complete(ds) == CountWord(ds, "{") <= CountWord(ds, "}")

TrimmedCommand(ds) ==
    LET last == {k \in 0..Len(ds) : k = 0 \/ ds[k] # "nl"}
    IN SubSeq(ds, 1, CHOOSE k \in last : \A j \in last : j <= k)

\* Login: the user is known after the first line, the password after the second.
LoginLine(ds) ==
    CASE cpAt = "login" ->
            /\ cpUser' = [cpUser EXCEPT !.given = IF Len(CpTrim(ds)) = 1 THEN CpTrim(ds)[1] ELSE NoCpUser]
            /\ cpAt' = IF CpEcho THEN "password" ELSE "flush"
            /\ cpDs' = <<>> /\ UNCHANGED <<cpRan, cpOpen>>
      [] cpAt = "password" ->
            /\ cpAt' = IF CpEcho THEN "check" ELSE "flushed"
            /\ cpDs' = ds /\ UNCHANGED <<cpUser, cpRan, cpOpen>>

\* EvalThread: the loop over commands.  An empty one is asked for again.
CommandLine(ds) ==
    /\ UNCHANGED <<cpUser, cpOpen>>
    /\ IF ~Complete(ds) THEN cpDs' = ds /\ UNCHANGED <<cpAt, cpRan>>
       ELSE IF TrimmedCommand(ds) = <<>> THEN cpDs' = <<>> /\ UNCHANGED <<cpAt, cpRan>>
       ELSE /\ cpRan' = Append(cpRan, TrimmedCommand(ds))
            /\ cpDs' = <<>>
            /\ cpAt' = IF TrimmedCommand(ds) = <<"exit">> THEN "stop" ELSE "answer"

\* One ns_recv of GetLine.
CpPiece(p) ==
    /\ Len(cpSeen) < CpTyped
    /\ cpSeen' = Append(cpSeen, p)
    /\ \/ CpFlush(p)
       \/ /\ cpAt \in Reading
          /\ CASE p.kind = "end" \/ (p.kind = "wont" /\ cpRetry = 2) -> CpDone
               [] p.kind = "wont" -> cpRetry' = cpRetry + 1 /\ UNCHANGED <<cpAt, cpDs, cpUser, cpRan, cpOpen>>
               [] OTHER -> LET ds == cpDs \o TextOfPiece(p)
                           IN IF ~LineEnds(TextOfPiece(p))
                              THEN cpDs' = ds /\ UNCHANGED <<cpAt, cpUser, cpRetry, cpRan, cpOpen>>
                              ELSE /\ cpRetry' = 0
                                   /\ IF cpAt = "command" THEN CommandLine(ds) ELSE LoginLine(ds)

\* The client is gone, or a prompt or an answer cannot be sent.
CpGone ==
    /\ cpAt \in Reading \cup {"answer"} /\ CpDone /\ UNCHANGED cpSeen
CpAnswered ==
    /\ cpAt = "answer" /\ cpAt' = "command"
    /\ UNCHANGED <<cpDs, cpUser, cpRetry, cpRan, cpOpen, cpSeen>>
CpStops == cpAt = "stop" /\ CpDone /\ UNCHANGED cpSeen

\* The end of Login: an interpreter, or "Access denied!".
CpLogin ==
    /\ cpAt = "check"
    /\ IF PasswordRight(cpUser.given, cpDs)
       THEN /\ cpUser' = [cpUser EXCEPT !.name = cpUser.given] /\ cpOpen' = cpOpen \cup {"interp"}
            /\ cpAt' = "command" /\ cpDs' = <<>> /\ UNCHANGED <<cpRetry, cpRan>>
       ELSE CpDone
    /\ UNCHANGED cpSeen

CpNext == CpAccept \/ CpGone \/ CpAnswered \/ CpStops \/ CpLogin \/ \E p \in Pieces : CpPiece(p)
CpSpec == CpInit /\ [][CpNext]_nscpVars

----------------------------------------------------------------------------
(* Properties *)

CpTypeOK ==
    /\ cpAt \in Reading \cup {"none", "flush", "flushed", "check", "answer", "stop", "done"}
    /\ cpRetry \in 0..2 /\ cpOpen \subseteq {"sock", "interp"}

\* Some piece that came is the text w and ends its line, after an earlier one that is v.
CameInOrder(v, w) ==
    \E i, j \in DOMAIN cpSeen : i < j /\ cpSeen[i].word = v /\ cpSeen[j].word = w

\* A command is evaluated only in a session whose client gave a user of the table and, after
\* it, the password of that user, in whatever pieces and with whatever codes in between.
CpAuthorized ==
    cpRan # <<>> => /\ cpUser.name \in DOMAIN CpUsers
                    /\ CameInOrder(cpUser.name, CpUsers[cpUser.name])

\* Every command evaluated is a complete one, is not empty and has no newline at its end; each
\* has a line of its own that was ended, as have the user and the password.
CpCommandsWhole ==
    /\ cpRan # <<>> => Len(cpRan) + 2 <= Cardinality({k \in DOMAIN cpSeen : cpSeen[k].nl})
    /\ \A k \in DOMAIN cpRan : /\ cpRan[k] # <<>> /\ cpRan[k][Len(cpRan[k])] # "nl"
                               /\ CountWord(cpRan[k], "{") <= CountWord(cpRan[k], "}")

\* Nothing typed is lost or evaluated twice: the words in commands and in ds are the words
\* that came after the login, in order.
CpWordsKept ==
    cpAt \in {"command", "answer"} /\ CpEcho =>
        LET ran == [k \in DOMAIN cpRan |-> CpTrim(cpRan[k])]
            RECURSIVE Joined(_)
            Joined(n) == IF n = 0 THEN <<>> ELSE Joined(n - 1) \o ran[n]
            words == CpTrim([k \in DOMAIN cpSeen |-> cpSeen[k].word])
            all == Joined(Len(ran)) \o CpTrim(cpDs)
        IN Len(all) <= Len(words) /\ all = SubSeq(words, Len(words) - Len(all) + 1, Len(words))
           /\ (cpUser.name # NoCpUser => Len(all) = Len(words) - 2)

\* The interpreter and the socket go with the session, on every path.
CpNothingHeld == (cpAt = "done" => cpOpen = {}) /\ (cpAt \in {"command", "answer"} => "interp" \in cpOpen)

NscpInv == CpTypeOK /\ CpAuthorized /\ CpCommandsWhole /\ CpWordsKept /\ CpNothingHeld
=============================================================================
