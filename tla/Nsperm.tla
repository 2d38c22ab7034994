------------------------------- MODULE Nsperm -------------------------------
(***************************************************************************)
(* The permission module (nsperm/nsperm.c): users, groups and per-URL      *)
(* permission records behind one read-write lock, the ns_perm commands     *)
(* that change them, and the decision AuthProc takes from them.  Users and *)
(* groups are linked both ways, and some of the linking is done outside    *)
(* the lock.  The URL space has two levels, "/" and "/sub" below it.       *)
(***************************************************************************)
EXTENDS Integers, FiniteSets

CONSTANTS
    PermUsers,       \* user names, "" (no user given) among them
    UserKinds,       \* what adduser is given: [pwd, crypt, clear, allow, hosts]
    NewPwds,         \* what setpass is given
    Admins,          \* threads that run ns_perm commands
    MaxUserObjs, MaxGroupObjs,
    MaxPermCmds,     \* number of allow and deny commands
    MaxMade,         \* number of these together
    PermRaces,       \* do two commands overlap
    Redefines,       \* is addgroup called again for a group, with a member of it
    DelInherited     \* is delperm called for a URL whose permissions are its parent's

VARIABLES
    userTab,         \* the hash table users: name -> User object, 0 for none
    users,           \* User object -> [live, pwd, crypt, clear, allow, hosts, group]
    groupTab,        \* the hash table groups, for the one group name used: Group object or 0
    groups,          \* Group object -> [live, members]: name -> User object or 0
    permTab,         \* the URL space: URL -> Perm object, 0 for none
    perms,           \* Perm object -> [live, base, implicit, allowuser, denyuser, allowgroup, denygroup]
    uCount, gCount,  \* objects allocated so far
    pCount,          \* allow and deny commands so far
    adm              \* thread -> the state of its command

permVars == <<userTab, users, groupTab, groups, permTab, perms, uCount, gCount, pCount, adm>>

Urls == {"/", "/sub"}
Idle == [pc |-> "idle", user |-> 0, group |-> 0, todo |-> {}]
NoUser == [live |-> FALSE, name |-> "", pwd |-> "", crypt |-> FALSE, clear |-> FALSE, allow |-> FALSE, hosts |-> {}, group |-> 0]
NoPerm == [live |-> FALSE, base |-> "/", implicit |-> FALSE, allowuser |-> {}, denyuser |-> {},
           allowgroup |-> FALSE, denygroup |-> FALSE]

PermInit ==
    /\ userTab = [n \in PermUsers |-> 0] /\ users = [u \in 1 .. MaxUserObjs |-> NoUser] /\ uCount = 0
    /\ groupTab = 0 /\ gCount = 0
    /\ groups = [g \in 1 .. MaxGroupObjs |-> [live |-> FALSE, members |-> [n \in PermUsers |-> 0]]]
    /\ permTab = [l \in Urls |-> 0] /\ perms = [p \in 1 .. MaxPermCmds |-> NoPerm] /\ pCount = 0
    /\ adm = [a \in Admins |-> Idle]

Made == uCount + gCount + pCount

MayStart(a) == adm[a] = Idle /\ (PermRaces \/ \A b \in Admins : adm[b] = Idle)

\* AddUserObjCmd: a user whose name or host list is refused is freed again.
AddUserObjCmd(a, name, kind) ==
    /\ MayStart(a) /\ Made < MaxMade /\ uCount < MaxUserObjs /\ userTab[name] = 0
    /\ users' = [users EXCEPT ![uCount + 1] =
                    [live |-> TRUE, name |-> name, pwd |-> kind.pwd, crypt |-> kind.crypt,
                     clear |-> kind.clear /\ ~kind.crypt, allow |-> kind.allow, hosts |-> kind.hosts, group |-> 0]]
    /\ uCount' = uCount + 1
    /\ userTab' = [userTab EXCEPT ![name] = uCount + 1]
    /\ UNCHANGED <<groupTab, groups, permTab, perms, gCount, pCount, adm>>

\* Mutant: the deleted user stays in the table until its groups are cleaned up.
DelUserKept(a, name) ==
    /\ MayStart(a) /\ userTab[name] # 0
    /\ adm' = [adm EXCEPT ![a] = [Idle EXCEPT !.pc = "deluser", !.user = userTab[name]]]
    /\ UNCHANGED <<userTab, users, groupTab, groups, permTab, perms, uCount, gCount, pCount>>

\* DelUserObjCmd, under the lock: the user leaves the table.
DelUserObjCmd(a, name) ==
    /\ MayStart(a) /\ userTab[name] # 0
    /\ adm' = [adm EXCEPT ![a] = [Idle EXCEPT !.pc = "deluser", !.user = userTab[name]]]
    /\ userTab' = [userTab EXCEPT ![name] = 0]
    /\ UNCHANGED <<users, groupTab, groups, permTab, perms, uCount, gCount, pCount>>

\* Mutant: the groups of a deleted user are forgotten.
DelUserKeepsGroup(a) ==
    /\ adm[a].pc = "deluser"
    /\ users' = [users EXCEPT ![adm[a].user] = NoUser]
    /\ adm' = [adm EXCEPT ![a] = Idle]
    /\ UNCHANGED <<userTab, groupTab, groups, permTab, perms, uCount, gCount, pCount>>

\* DelUserObjCmd, after the lock: the user leaves its groups and is freed.
DelUserCleanup(a) ==
    LET u == adm[a].user
        g == users[u].group
    IN  /\ adm[a].pc = "deluser"
        /\ groups' = IF g = 0 THEN groups ELSE [groups EXCEPT ![g].members[users[u].name] = 0]
        /\ users' = [users EXCEPT ![u] = NoUser]
        /\ adm' = [adm EXCEPT ![a] = Idle]
        /\ UNCHANGED <<userTab, groupTab, permTab, perms, uCount, gCount, pCount>>

\* AddGroupObjCmd, the group object before the lock is taken.
AddGroupObjCmd(a, names) ==
    /\ MayStart(a) /\ Made < MaxMade /\ gCount < MaxGroupObjs /\ names # {}
    /\ Redefines \/ groupTab = 0
    /\ groups' = [groups EXCEPT ![gCount + 1].live = TRUE]
    /\ gCount' = gCount + 1
    /\ adm' = [adm EXCEPT ![a] = [Idle EXCEPT !.pc = "addgroup", !.group = gCount + 1, !.todo = names]]
    /\ UNCHANGED <<userTab, users, groupTab, permTab, perms, uCount, pCount>>

\* One user of the list: linked both ways, without the lock.  An unknown user, or one that has a
\* group of this name, ends the command.
AddGroupUser(a, name) ==
    LET u == userTab[name]
        g == adm[a].group
    IN  /\ adm[a].pc = "addgroup" /\ name \in adm[a].todo
        /\ IF u = 0
           THEN /\ adm' = [adm EXCEPT ![a].pc = "addfail"]
                /\ UNCHANGED <<users, groups>>
           ELSE /\ groups' = [groups EXCEPT ![g].members[name] = u]
                /\ IF users[u].group # 0
                   THEN adm' = [adm EXCEPT ![a].pc = "addfail"] /\ UNCHANGED users
                   ELSE /\ users' = [users EXCEPT ![u].group = g]
                        /\ adm' = [adm EXCEPT ![a].todo = @ \ {name}]
        /\ UNCHANGED <<userTab, groupTab, permTab, perms, uCount, gCount, pCount>>

\* The group enters the table under the lock, unless the name is taken.
AddGroupInsert(a) ==
    /\ adm[a].pc = "addgroup" /\ adm[a].todo = {}
    /\ IF groupTab # 0
       THEN adm' = [adm EXCEPT ![a].pc = "addfail"] /\ UNCHANGED groupTab
       ELSE groupTab' = adm[a].group /\ adm' = [adm EXCEPT ![a] = Idle]
    /\ UNCHANGED <<userTab, users, groups, permTab, perms, uCount, gCount, pCount>>

\* The users of a group object, as its hash table has them.
Members(g) == {groups[g].members[n] : n \in PermUsers} \ {0}

Unlink(g) ==
    /\ users' = [u \in DOMAIN users |-> IF u \in Members(g) THEN [users[u] EXCEPT !.group = 0] ELSE users[u]]
    /\ groups' = [groups EXCEPT ![g] = [live |-> FALSE, members |-> [n \in PermUsers |-> 0]]]

\* Mutant: the failed command frees the group object and leaves its users pointing at it.
AddGroupFailLinked(a) ==
    /\ adm[a].pc = "addfail"
    /\ groups' = [groups EXCEPT ![adm[a].group].live = FALSE]
    /\ adm' = [adm EXCEPT ![a] = Idle]
    /\ UNCHANGED <<userTab, users, groupTab, permTab, perms, uCount, gCount, pCount>>

\* The fail label: every user met so far loses its group of this name, and the object is freed.
AddGroupFail(a) ==
    /\ adm[a].pc = "addfail"
    /\ Unlink(adm[a].group)
    /\ adm' = [adm EXCEPT ![a] = Idle]
    /\ UNCHANGED <<userTab, groupTab, permTab, perms, uCount, gCount, pCount>>

DelGroupObjCmd(a) ==
    /\ MayStart(a) /\ groupTab # 0
    /\ adm' = [adm EXCEPT ![a] = [Idle EXCEPT !.pc = "delgroup", !.group = groupTab]]
    /\ groupTab' = 0
    /\ UNCHANGED <<userTab, users, groups, permTab, perms, uCount, gCount, pCount>>

\* DelGroupObjCmd, after the lock: its users forget the group, which is freed.
DelGroupCleanup(a) ==
    /\ adm[a].pc = "delgroup"
    /\ Unlink(adm[a].group)
    /\ adm' = [adm EXCEPT ![a] = Idle]
    /\ UNCHANGED <<userTab, groupTab, permTab, perms, uCount, gCount, pCount>>

\* Ns_UrlSpecificGet: the URL's own record, or the one it inherits.
UrlSpecificGet(url) == IF permTab[url] # 0 THEN permTab[url] ELSE permTab["/"]

\* The record AllowDenyObjCmd changes: the one found, if it was registered for this very URL.
OwnPerm(url) ==
    LET p == UrlSpecificGet(url)
    IN  IF p # 0 /\ perms[p].base = url THEN p ELSE 0

\* AllowDenyObjCmd: ns_perm allowuser, denyuser, allowgroup and denygroup.
AllowDenyObjCmd(a, url, allow, name) ==
    LET old == OwnPerm(url)
        p == IF old = 0 THEN pCount + 1 ELSE old
        was == IF old = 0 THEN [NoPerm EXCEPT !.live = TRUE, !.base = url] ELSE perms[old]
        now == IF name = "group"
               THEN IF allow THEN [was EXCEPT !.allowgroup = TRUE] ELSE [was EXCEPT !.denygroup = TRUE]
               ELSE IF allow THEN [was EXCEPT !.allowuser = @ \cup {name}] ELSE [was EXCEPT !.denyuser = @ \cup {name}]
    IN  /\ MayStart(a) /\ Made < MaxMade /\ pCount < MaxPermCmds
        /\ perms' = [perms EXCEPT ![p] = [now EXCEPT !.implicit = @ \/ ~allow]]
        /\ permTab' = IF old = 0 THEN [permTab EXCEPT ![url] = p] ELSE permTab
        /\ pCount' = pCount + 1
        /\ UNCHANGED <<userTab, users, groupTab, groups, uCount, gCount, adm>>

\* Ns_UrlSpecificDestroy with NS_OP_RECURSE: the URL and all below it.
Destroyed(url) == IF url = "/" THEN Urls ELSE {url}

\* DelPermObjCmd: the record found for the URL is freed; what is registered at or below the URL
\* leaves the URL space (records below are not freed).
DelPermObjCmd(a, url) ==
    LET p == UrlSpecificGet(url) IN
    /\ MayStart(a) /\ p # 0
    /\ DelInherited \/ permTab[url] # 0
    /\ permTab' = [l \in Urls |-> IF l \in Destroyed(url) THEN 0 ELSE permTab[l]]
    /\ perms' = [perms EXCEPT ![p] = NoPerm]
    /\ UNCHANGED <<userTab, users, groupTab, groups, uCount, gCount, pCount, adm>>

\* SetPassObjCmd: the new password, encrypted when a salt is given; the flags stay.
SetPassObjCmd(a, name, pwd, salt) ==
    /\ MayStart(a) /\ userTab[name] # 0
    /\ users' = [users EXCEPT ![userTab[name]].pwd = pwd, ![userTab[name]].crypt = salt]
    /\ UNCHANGED <<userTab, groupTab, groups, permTab, perms, uCount, gCount, pCount, adm>>

PermDo(a) ==
    \/ \E n \in PermUsers, k \in UserKinds : AddUserObjCmd(a, n, k)
    \/ \E n \in PermUsers : DelUserObjCmd(a, n)
    \/ DelUserCleanup(a)
    \/ \E S \in SUBSET PermUsers : AddGroupObjCmd(a, S)
    \/ \E n \in PermUsers : AddGroupUser(a, n)
    \/ AddGroupInsert(a) \/ AddGroupFail(a)
    \/ DelGroupObjCmd(a) \/ DelGroupCleanup(a)
    \/ \E l \in Urls, allow \in BOOLEAN, n \in PermUsers \cup {"group"} : AllowDenyObjCmd(a, l, allow, n)
    \/ \E l \in Urls : DelPermObjCmd(a, l)
    \/ \E n \in PermUsers, pwd \in NewPwds, salt \in BOOLEAN : SetPassObjCmd(a, n, pwd, salt)

PermNext == \E a \in Admins : PermDo(a)

PermSpec == PermInit /\ [][PermNext]_permVars

-----------------------------------------------------------------------------
\* What AuthProc decides in a state; it holds the read lock throughout.

\* ValidateUserAddr: the peer is on the user's list of networks and hosts, or not.
ValidateUserAddr(u, peer) ==
    CASE peer = "none" -> TRUE
      [] peer = "bad" -> FALSE
      [] OTHER -> (peer \in users[u].hosts) = users[u].allow

\* The password check of AuthProc for basic authentication.
PasswordOk(u, pwd) ==
    \/ users[u].pwd = ""
    \/ pwd # "" /\ pwd = users[u].pwd /\ users[u].crypt = ~users[u].clear

\* CheckPassObjCmd: ns_perm checkpass always encrypts before it compares.
CheckPassObjCmd(name, pwd) ==
    /\ userTab[name] # 0
    /\ LET u == users[userTab[name]] IN u.pwd = "" \/ (pwd # "" /\ u.crypt /\ pwd = u.pwd)

\* Mutant: the allow list is looked at before the deny list.
AuthAllowFirst(url, name, pwd, peer) ==
    LET p == perms[UrlSpecificGet(url)]
        u == userTab[name]
        refused == IF name = "" THEN "unauthorized" ELSE "forbidden"
    IN  CASE UrlSpecificGet(url) = 0 -> "ok"
          [] UrlSpecificGet(url) # 0 /\ (u = 0 \/ ~PasswordOk(u, pwd)) -> "unauthorized"
          [] OTHER -> IF ~ValidateUserAddr(u, peer) THEN refused
                      ELSE IF name \in p.allowuser \/ (p.allowgroup /\ users[u].group # 0) THEN "ok"
                      ELSE IF name \in p.denyuser \/ (p.denygroup /\ users[u].group # 0) THEN refused
                      ELSE IF p.implicit THEN "ok" ELSE "unauthorized"

\* AuthProc: the record of the URL, the user, the password, the address, deny before allow, and
\* the default for users on no list.
AuthProc(url, name, pwd, peer) ==
    IF UrlSpecificGet(url) = 0 THEN "ok"
    ELSE LET p == perms[UrlSpecificGet(url)]
             u == userTab[name]
             refused == IF name = "" THEN "unauthorized" ELSE "forbidden"
         IN  IF u = 0 THEN "unauthorized"
             ELSE IF ~PasswordOk(u, pwd) THEN "unauthorized"
             ELSE IF ~ValidateUserAddr(u, peer) THEN refused
             ELSE IF name \in p.denyuser \/ (p.denygroup /\ users[u].group # 0) THEN refused
             ELSE IF name \in p.allowuser \/ (p.allowgroup /\ users[u].group # 0) THEN "ok"
             ELSE IF p.implicit THEN "ok" ELSE "unauthorized"

PermTypeOK ==
    /\ \A n \in PermUsers : userTab[n] \in 0 .. uCount
    /\ groupTab \in 0 .. gCount
    /\ \A l \in Urls : permTab[l] \in 0 .. pCount

\* What the lock protects: in every interleaving of commands the tables hold live objects only, so
\* that AuthProc, which takes no references, never follows a freed user, and no user object is in
\* the table under another name.
PermTables ==
    /\ PermTypeOK
    /\ \A n \in PermUsers : userTab[n] # 0 => users[userTab[n]].live /\ users[userTab[n]].name = n
    /\ groupTab # 0 => groups[groupTab].live
    /\ \A u, v \in PermUsers : userTab[u] # 0 /\ u # v => userTab[u] # userTab[v]

\* Users and groups agree: between commands a user knows a group exactly when the group in the
\* table knows the user, whatever was deleted, re-added or refused before.
PermLinked ==
    (\A a \in Admins : adm[a] = Idle) =>
        \A n \in PermUsers :
            userTab[n] # 0 =>
                /\ (users[userTab[n]].group # 0) <=> (groupTab # 0 /\ groups[groupTab].members[n] = userTab[n])
                /\ users[userTab[n]].group \in {0, groupTab}

\* A group in the table has live users only, each under its own name.
GroupMembersLive ==
    (\A a \in Admins : adm[a] = Idle) =>
        (groupTab # 0 => \A n \in PermUsers : groups[groupTab].members[n] \in {0, userTab[n]})

\* Every record of the URL space is alive and sits at the URL it was made for.
PermsLive == \A l \in Urls : permTab[l] # 0 => perms[permTab[l]].live /\ perms[permTab[l]].base = l

\* Who is denied for a URL, or is in a group that is, gets no access to it however the user is
\* also allowed, and nobody gets in whose password ns_perm checkpass refuses, clear text aside.
DenyWins ==
    \A l \in Urls, n \in PermUsers, pwd \in {"", "p", "x"}, peer \in {"none", "bad", "h"} :
        LET p == perms[permTab[l]] IN
        permTab[l] # 0 /\ AuthProc(l, n, pwd, peer) = "ok" =>
            /\ n \notin p.denyuser
            /\ ~(p.denygroup /\ groupTab # 0 /\ groups[groupTab].members[n] # 0 /\ \A a \in Admins : adm[a] = Idle)
            /\ users[userTab[n]].clear \/ CheckPassObjCmd(n, pwd)

PermCalm == PermLinked /\ GroupMembersLive /\ PermsLive /\ DenyWins
=============================================================================
