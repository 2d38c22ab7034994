------------------------- MODULE ProxyReaperProofs --------------------------
(***************************************************************************)
(* The reaper of nsproxy for any finite number of slave processes and any  *)
(* threads that close them: there is one reaper thread, its close list is  *)
(* exact, and the signals to a slave that does not exit come in order.     *)
(***************************************************************************)
EXTENDS ProxyReaper, FiniteSetTheorems, SequenceTheorems, TLAPS

\* Most leaves are first-order; the ones that need arithmetic or sequences cite SMT.
USE Zenon

\* The labels inside a pass over the close list.
Passing == {"pass", "waitpid"}

\* The values the variables of the list take.
ListTypes ==
    /\ rleft \in Seq(Slaves) /\ closeList \in Seq(Slaves) /\ rexpired \subseteq Slaves
    /\ rsig \in [Slaves -> {"0", "TERM", "KILL", "-1"}]
    /\ rsent \in [Slaves -> {"0", "TERM", "KILL"}]
    /\ rfate \in [Slaves -> {"open", "closed", "reaped", "zombie"}]

\* The reaper walks the close list: what it has yet to look at is the end of
\* the list, and nothing outside a pass.
WalkInv ==
    /\ rth \notin Passing => rleft = <<>>
    /\ rth = "waitpid" => rleft # <<>>
    /\ Len(rleft) <= Len(closeList)
    /\ \A i \in 1..Len(rleft) : rleft[i] = closeList[Len(closeList) - Len(rleft) + i]

\* The signal of a closed slave is the one it was sent, except for the slave
\* whose exit the reaper is waiting for; a zombie was sent SIGKILL.
SignalOK(s) ==
    /\ rfate[s] = "closed" => rsig[s] = rsent[s] \/ (rth = "waitpid" /\ s = Head(rleft))
    /\ rfate[s] = "zombie" => rsent[s] = "KILL"

\* The inductive invariant.
ReaperInv == ListTypes /\ CloseListExact /\ WalkInv /\ \A s \in Slaves : SignalOK(s)

-----------------------------------------------------------------------------
(* One reaper thread.                                                      *)

\* Ns_CondSignal wakes the reaper only when it sleeps.
LEMMA CondSignalReaper ==
    ASSUME NEW r, NEW p, NEW sh, CondSignal(r, p, sh)
    PROVE  rth' = r \/ (rth = "sleep" /\ rth' = "woken")
<1>1. CASE Waiters = {}
  BY <1>1 DEF CondSignal, Wakes
<1>2. CASE Waiters # {}
  <2>1. PICK w \in Waiters : Wakes({w}, r, p, sh)
    BY <1>2 DEF CondSignal
  <2>2. w = "reaper" => rth = "sleep"
    BY ReaperAssumption DEF Waiters
  <2> QED
    BY <2>1, <2>2 DEF Wakes
<1> QED
  BY <1>1, <1>2

\* ReapProxies starts the reaper or signals it.
LEMMA AwakeReaper ==
    ASSUME NEW p, NEW sh, Awake(p, sh)
    PROVE  /\ reaperState' \in {"Starting", "Awaken"}
           /\ \/ rth' = rth
              \/ rth = "sleep" /\ rth' = "woken"
              \/ reaperState = "Stopped" /\ rth' = "start"
BY CondSignalReaper DEF Awake

\* ReapProxies creates a reaper thread when reaperState is Stopped: there is
\* none then, whatever the threads in ReapProxies and Shutdown write to it.
THEOREM OneReaperAlways == ReaperSpec => []OneReaper
<1>1. ReaperInit => OneReaper
  BY DEF ReaperInit, OneReaper
<1>2. OneReaper /\ [ReaperNext]_reaperVars => OneReaper'
  <2> SUFFICES ASSUME OneReaper, [ReaperNext]_reaperVars PROVE OneReaper'
    OBVIOUS
  <2>1. CASE UNCHANGED reaperVars
    BY <2>1 DEF reaperVars, OneReaper
  <2>2. ASSUME NEW s \in Slaves,
               \/ ProcStarts(s) \/ ProcAnswers(s) \/ ProcRead(s) \/ ProcExits(s) \/ ProcDies(s)
               \/ SlaveExpires(s)
        PROVE  OneReaper'
    BY <2>2 DEF ProcStarts, ProcAnswers, ProcRead, ProcExits, ProcDies, SlaveExpires, OneReaper
  <2>3. ASSUME NEW t \in ReapThreads,
               ReapCall(t) \/ ReapProxies(t) \/ ReapWakes(t) \/ \E s \in Slaves : ReapClose(t, s)
        PROVE  OneReaper'
    BY <2>3, AwakeReaper DEF ReapCall, ReapProxies, ReapWakes, ReapClose, OneReaper
  <2>4. CASE ReaperPass \/ ReaperSleeps \/ ReaperSlave \/ ReaperWaited \/ ReaperAgain \/ ReaperTimeout
    BY <2>4 DEF ReaperPass, ReaperSleeps, ReaperSlave, ReaperWaited, ReaperAgain, ReaperTimeout,
           OneReaper
  <2>5. CASE ReaperExit
    BY <2>5, CondSignalReaper DEF ReaperExit, OneReaper
  <2>6. ASSUME NEW S \in SUBSET Slaves, ShutdownPools(S) PROVE OneReaper'
    BY <2>6 DEF ShutdownPools, OneReaper
  <2>7. CASE ShutdownReap \/ ShutdownReaped \/ ShutdownStop \/ ShutdownWakes \/ ShutdownTimeout
    BY <2>7, AwakeReaper DEF ShutdownReap, ShutdownReaped, ShutdownStop, ShutdownWakes,
           ShutdownTimeout, OneReaper
  <2> QED
    BY <2>1, <2>2, <2>3, <2>4, <2>5, <2>6, <2>7 DEF ReaperNext, ReaperThread
<1> QED
  BY <1>1, <1>2, PTL DEF ReaperSpec

-----------------------------------------------------------------------------
(* The close list and the signals.                                         *)

\* Steps that leave the close list alone, and the reaper in or out of a pass.
LEMMA ListFrame ==
    ASSUME ReaperInv, UNCHANGED <<rleft, closeList, rsig, rsent, rfate>>, rexpired' \subseteq Slaves,
           \/ rth' = rth
           \/ (rth \in Passing => rleft = <<>>) /\ rth' \notin Passing
    PROVE  ReaperInv'
<1>1. ListTypes' /\ CloseListExact'
  BY SMT DEF ReaperInv, ListTypes, CloseListExact
<1>2. WalkInv'
  BY DEF ReaperInv, WalkInv, Passing
<1>3. \A s \in Slaves : SignalOK(s)'
  BY DEF ReaperInv, WalkInv, SignalOK, Passing
<1> QED
  BY <1>1, <1>2, <1>3 DEF ReaperInv

\* Slaves that are closed together get a list in which each is once.
LEMMA ListOnce ==
    ASSUME NEW S \in SUBSET Slaves, NEW list \in [1..Cardinality(S) -> S],
           {list[i] : i \in DOMAIN list} = S
    PROVE  /\ Cardinality(S) \in Nat /\ list \in Seq(Slaves) /\ Len(list) = Cardinality(S)
           /\ \A i, j \in 1..Cardinality(S) : list[i] = list[j] => i = j
<1>1. IsFiniteSet(S) /\ Cardinality(S) \in Nat
  BY ReaperAssumption, FS_Subset, FS_CardinalityType
<1>2. IsFiniteSet(1..Cardinality(S)) /\ Cardinality(1..Cardinality(S)) = Cardinality(S)
  <2> DEFINE m == Cardinality(S)
  <2>1. 1 \in Int /\ m \in Int /\ m \in Nat
    BY <1>1, SMT
  <2> HIDE DEF m
  <2>2. IsFiniteSet(1..m) /\ Cardinality(1..m) = IF 1 > m THEN 0 ELSE m - 1 + 1
    BY <2>1, FS_Interval
  <2>3. IsFiniteSet(1..m) /\ Cardinality(1..m) = m
    BY <2>1, <2>2, SMT
  <2> QED
    BY <2>3 DEF m
<1>3. list \in Surjection(1..Cardinality(S), S)
  BY DEF Surjection
<1>4. list \in Injection(1..Cardinality(S), S)
  BY <1>2, <1>3, FS_SurjSameCardinalityImpliesInj
<1>5. list \in Seq(Slaves) /\ Len(list) = Cardinality(S)
  BY <1>1, SMT
<1> QED
  BY <1>1, <1>4, <1>5 DEF Injection, IsInjective

\* CloseSlave puts open slaves in front of the close list.
LEMMA CloseSlavesList ==
    ASSUME ReaperInv, rth \notin Passing, NEW S \in SUBSET {s \in Slaves : rfate[s] = "open"},
           NEW list \in [1..Cardinality(S) -> S], {list[i] : i \in DOMAIN list} = S,
           CloseSlaves(S, list)
    PROVE  /\ closeList' = list \o closeList /\ closeList' \in Seq(Slaves)
           /\ CloseListExact'
           /\ rleft' \in Seq(Slaves) => ListTypes'
           /\ rth' # "waitpid" => \A s \in Slaves : SignalOK(s)'
<1>1. closeList' = list \o closeList
  BY DEF CloseSlaves
<1> DEFINE m == Cardinality(S)
           n == Len(closeList)
<1>2. /\ S \subseteq Slaves /\ m \in Nat /\ list \in Seq(Slaves) /\ Len(list) = m
      /\ \A i, j \in 1..m : list[i] = list[j] => i = j
  BY ListOnce
<1>3. closeList \in Seq(Slaves) /\ n \in Nat /\ DOMAIN closeList = 1..n
  BY SMT DEF ReaperInv, ListTypes
<1>4. /\ closeList' \in Seq(Slaves) /\ DOMAIN closeList' = 1..(m + n)
      /\ \A i \in 1..m : closeList'[i] = list[i]
      /\ \A i \in 1..(m + n) : i > m => i - m \in 1..n /\ closeList'[i] = closeList[i - m]
      /\ \A i \in 1..n : closeList'[i + m] = closeList[i]
  BY <1>1, <1>2, <1>3, SMTT(30)
<1>5. /\ \A i \in 1..n : closeList[i] \in Slaves /\ rfate[closeList[i]] = "closed"
      /\ \A s \in Slaves : rfate[s] = "closed" => \E i \in 1..n : closeList[i] = s
      /\ \A i, j \in 1..n : closeList[i] = closeList[j] => i = j
  BY <1>3, SMT DEF ReaperInv, CloseListExact
<1>6. /\ rfate' = [s \in Slaves |-> IF s \in S THEN "closed" ELSE rfate[s]]
      /\ rsig' = [s \in Slaves |-> IF s \in S THEN "0" ELSE rsig[s]]
      /\ rsent' = [s \in Slaves |-> IF s \in S THEN "0" ELSE rsent[s]]
      /\ rexpired' = rexpired \ S
  BY DEF CloseSlaves
<1>7. \A s \in S : rfate[s] = "open" /\ \E i \in 1..m : list[i] = s
  BY <1>2
<1> HIDE DEF m, n
<1>8. \A i \in 1..(m + n) : closeList'[i] \in Slaves /\ rfate'[closeList'[i]] = "closed"
  <2> SUFFICES ASSUME NEW i \in 1..(m + n)
               PROVE  closeList'[i] \in Slaves /\ rfate'[closeList'[i]] = "closed"
    OBVIOUS
  <2>0. m \in Nat /\ n \in Nat
    BY <1>2, <1>3
  <2>1. CASE i > m
    BY <1>4, <1>5, <1>6, <2>1, SMT
  <2>2. CASE ~(i > m)
    <3>1. i \in 1..m
      BY <2>0, <2>2, SMT
    <3>2. list[i] \in S
      BY <3>1 DEF m
    <3> QED
      BY <1>2, <1>4, <1>6, <3>1, <3>2
  <2> QED
    BY <2>1, <2>2
<1>9. ASSUME NEW s \in Slaves, rfate'[s] = "closed" PROVE \E i \in 1..(m + n) : closeList'[i] = s
  <2>0. m \in Nat /\ n \in Nat
    BY <1>2, <1>3
  <2>1. CASE s \in S
    <3>1. PICK i \in 1..m : list[i] = s
      BY <1>7, <2>1
    <3>2. i \in 1..(m + n)
      BY <2>0, SMT
    <3> QED
      BY <1>4, <3>1, <3>2
  <2>2. CASE s \notin S
    <3>1. PICK i \in 1..n : closeList[i] = s
      BY <1>5, <1>6, <1>9, <2>2
    <3>2. i + m \in 1..(m + n)
      BY <2>0, SMT
    <3> QED
      BY <1>4, <3>1, <3>2
  <2> QED
    BY <2>1, <2>2
<1>10. ASSUME NEW i \in 1..(m + n), NEW j \in 1..(m + n), closeList'[i] = closeList'[j]
       PROVE  i = j
  <2>0. m \in Nat /\ n \in Nat
    BY <1>2, <1>3
  <2>1. \A k \in 1..(m + n) : k <= m => k \in 1..m /\ closeList'[k] \in S
    BY <1>4, <2>0, SMT DEF m
  <2>2. \A k \in 1..(m + n) : k > m => closeList'[k] \notin S
    <3> SUFFICES ASSUME NEW k \in 1..(m + n), k > m, closeList'[k] \in S PROVE FALSE
      OBVIOUS
    <3>1. rfate[closeList'[k]] = "closed"
      BY <1>4, <1>5, SMT
    <3> QED
      BY <1>7, <3>1
  <2>3. CASE i <= m /\ j <= m
    BY <1>2, <1>4, <1>10, <2>1, <2>3, SMT
  <2>4. CASE i > m /\ j > m
    <3>1. i - m \in 1..n /\ j - m \in 1..n /\ closeList[i - m] = closeList[j - m]
      BY <1>4, <1>10, <2>4
    <3>2. i - m = j - m
      BY <1>5, <3>1
    <3> QED
      BY <2>0, <3>2, SMT
  <2> QED
    BY <1>10, <2>0, <2>1, <2>2, <2>3, <2>4, SMT
<1>11. CloseListExact'
  BY <1>4, <1>8, <1>9, <1>10, SMT DEF CloseListExact
<1>12. rleft' \in Seq(Slaves) => ListTypes'
  BY <1>4, <1>6 DEF ReaperInv, ListTypes
<1>13. rth' # "waitpid" => \A s \in Slaves : SignalOK(s)'
  <2> SUFFICES ASSUME NEW s \in Slaves, rth' # "waitpid" PROVE SignalOK(s)'
    OBVIOUS
  <2>1. SignalOK(s) /\ rth # "waitpid"
    BY DEF ReaperInv, Passing
  <2> QED
    BY <1>6, <2>1 DEF SignalOK
<1> QED
  BY <1>1, <1>4, <1>11, <1>12, <1>13

\* The slave at hand is closed, and is not met again in the pass.
LEMMA HeadOfPass ==
    ASSUME ReaperInv, rleft # <<>>
    PROVE  /\ Head(rleft) \in Slaves /\ rfate[Head(rleft)] = "closed"
           /\ Head(rleft) = closeList[Len(closeList) - Len(rleft) + 1]
           /\ Tail(rleft) \in Seq(Slaves) /\ Len(Tail(rleft)) = Len(rleft) - 1
           /\ \A i \in 1..(Len(rleft) - 1) : Tail(rleft)[i] = rleft[i + 1]
           /\ Len(rleft) \in 1..Len(closeList) /\ Len(closeList) \in Nat
<1>1. rleft \in Seq(Slaves) /\ closeList \in Seq(Slaves)
  BY DEF ReaperInv, ListTypes
<1>2. Head(rleft) = rleft[1] /\ Len(rleft) \in Nat \ {0} /\ 1 \in 1..Len(rleft)
  BY <1>1, SMT
<1>3. Len(rleft) <= Len(closeList) /\ rleft[1] = closeList[Len(closeList) - Len(rleft) + 1]
  BY <1>2 DEF ReaperInv, WalkInv
<1>4. Len(closeList) - Len(rleft) + 1 \in DOMAIN closeList
  BY <1>1, <1>2, <1>3, SMT
<1>5. closeList[Len(closeList) - Len(rleft) + 1] \in {s \in Slaves : rfate[s] = "closed"}
  BY <1>4, SMT DEF ReaperInv, CloseListExact
<1> QED
  BY <1>1, <1>2, <1>3, <1>5, SMT

\* Splicing the slave at hand out of the close list removes exactly it, and
\* the rest of the walk goes on where it was.
LEMMA UnlinkList ==
    ASSUME ReaperInv, rleft # <<>>, NEW s, s = Head(rleft), Unlink(s),
           NEW fate \in {"reaped", "zombie"}, rfate' = [rfate EXCEPT ![s] = fate],
           rth' = "pass", rsig' \in [Slaves -> {"0", "TERM", "KILL", "-1"}], rsent' = rsent
    PROVE  ListTypes' /\ CloseListExact' /\ WalkInv'
<1> DEFINE n == Len(closeList)
           k == Len(rleft)
           at == n - k + 1
<1>1. /\ s \in Slaves /\ rfate[s] = "closed" /\ s = closeList[at] /\ k \in 1..n /\ n \in Nat
      /\ Tail(rleft) \in Seq(Slaves) /\ Len(Tail(rleft)) = k - 1
      /\ \A i \in 1..(k - 1) : Tail(rleft)[i] = rleft[i + 1]
  BY HeadOfPass
<1>2. /\ closeList' = [i \in 1..(n - 1) |-> closeList[IF i < at THEN i ELSE i + 1]]
      /\ rleft' = Tail(rleft) /\ rexpired' \subseteq rexpired
  BY DEF Unlink
<1>3. closeList \in Seq(Slaves) /\ DOMAIN closeList = 1..n
  BY SMT DEF ReaperInv, ListTypes
<1>4. /\ \A i \in 1..n : closeList[i] \in Slaves /\ rfate[closeList[i]] = "closed"
      /\ \A u \in Slaves : rfate[u] = "closed" => \E i \in 1..n : closeList[i] = u
      /\ \A i, j \in 1..n : closeList[i] = closeList[j] => i = j
  BY <1>3, SMT DEF ReaperInv, CloseListExact
<1>5. \A i \in 1..k : rleft[i] = closeList[n - k + i]
  BY DEF ReaperInv, WalkInv
<1>6. \A i \in 1..(n - 1) : i \in 1..n /\ i + 1 \in 1..n
  BY <1>1, SMT
<1>7. closeList' \in Seq(Slaves) /\ Len(closeList') = n - 1 /\ DOMAIN closeList' = 1..(n - 1)
  <2>1. n - 1 \in Nat /\ \A i \in 1..(n - 1) : closeList[IF i < at THEN i ELSE i + 1] \in Slaves
    BY <1>1, <1>4, <1>6, SMT
  <2> QED
    BY <1>2, <2>1, SMT
<1> HIDE DEF n, k
<1>8. at \in 1..n
  BY <1>1, SMT
<1>9. \A i \in 1..(n - 1) : closeList'[i] = IF i < at THEN closeList[i] ELSE closeList[i + 1]
  BY <1>2
<1> HIDE DEF at
<1>10. \A i \in 1..(n - 1) : closeList'[i] \in Slaves /\ rfate'[closeList'[i]] = "closed"
  <2> SUFFICES ASSUME NEW i \in 1..(n - 1)
               PROVE  closeList'[i] \in Slaves /\ rfate'[closeList'[i]] = "closed"
    OBVIOUS
  <2>1. PICK j \in 1..n : j # at /\ closeList'[i] = closeList[j]
    <3>1. CASE i < at
      BY <1>1, <1>6, <1>8, <1>9, <3>1, SMT
    <3>2. CASE ~(i < at)
      <4>1. i + 1 \in 1..n /\ i + 1 # at
        BY <1>1, <1>6, <1>8, <3>2, SMT
      <4> QED
        BY <1>9, <3>2, <4>1
    <3> QED
      BY <3>1, <3>2
  <2>2. closeList[j] # s
    BY <1>1, <1>4, <1>8, <2>1
  <2> QED
    BY <1>4, <2>1, <2>2 DEF ReaperInv, ListTypes
<1>11. ASSUME NEW u \in Slaves, rfate'[u] = "closed" PROVE \E i \in 1..(n - 1) : closeList'[i] = u
  <2>1. u # s /\ rfate[u] = "closed"
    BY <1>11 DEF ReaperInv, ListTypes
  <2>2. PICK j \in 1..n : closeList[j] = u
    BY <1>4, <2>1
  <2>3. j # at
    BY <1>1, <2>1, <2>2
  <2>4. CASE j < at
    <3>1. j \in 1..(n - 1)
      BY <1>1, <1>8, <2>4, SMT
    <3> QED
      BY <1>9, <2>2, <2>4, <3>1
  <2>5. CASE j > at
    <3>1. j - 1 \in 1..(n - 1) /\ ~(j - 1 < at) /\ (j - 1) + 1 = j
      BY <1>1, <1>8, <2>5, SMT
    <3>2. closeList'[j - 1] = u
      BY <1>9, <2>2, <3>1
    <3> QED
      BY <3>1, <3>2
  <2> QED
    BY <1>1, <1>8, <2>3, <2>4, <2>5, SMT
<1>12. ASSUME NEW i \in 1..(n - 1), NEW j \in 1..(n - 1), closeList'[i] = closeList'[j]
       PROVE  i = j
  <2>1. CASE i < at /\ j < at
    <3>1. closeList[i] = closeList[j]
      BY <1>9, <1>12, <2>1
    <3> QED
      BY <1>4, <1>6, <3>1
  <2>2. CASE ~(i < at) /\ ~(j < at)
    <3>1. closeList[i + 1] = closeList[j + 1]
      BY <1>9, <1>12, <2>2
    <3>2. i + 1 = j + 1
      BY <1>4, <1>6, <3>1, ZenonT(30)
    <3> QED
      BY <1>1, <3>2, SMT
  <2>3. CASE i < at /\ ~(j < at)
    <3>1. closeList[i] = closeList[j + 1]
      BY <1>9, <1>12, <2>3
    <3>2. i = j + 1
      BY <1>4, <1>6, <3>1
    <3> QED
      BY <1>1, <1>8, <2>3, <3>2, SMT
  <2>4. CASE ~(i < at) /\ j < at
    <3>1. closeList[i + 1] = closeList[j]
      BY <1>9, <1>12, <2>4
    <3>2. i + 1 = j
      BY <1>4, <1>6, <3>1
    <3> QED
      BY <1>1, <1>8, <2>4, <3>2, SMT
  <2> QED
    BY <2>1, <2>2, <2>3, <2>4
<1>13. CloseListExact'
  BY <1>7, <1>10, <1>11, <1>12, SMT DEF CloseListExact
<1>14. ListTypes'
  BY <1>1, <1>2, <1>7 DEF ReaperInv, ListTypes
<1>15. WalkInv'
  <2>1. rleft' = Tail(rleft) /\ Len(rleft') = k - 1 /\ Len(closeList') = n - 1
    BY <1>1, <1>2, <1>7
  <2>2. ASSUME NEW i \in 1..(k - 1) PROVE rleft'[i] = closeList'[(n - 1) - (k - 1) + i]
    <3>1. /\ i + 1 \in 1..k /\ (n - 1) - (k - 1) + i \in 1..(n - 1)
          /\ ~((n - 1) - (k - 1) + i < at) /\ (n - 1) - (k - 1) + i + 1 = n - k + (i + 1)
      BY <1>1, SMT DEF at
    <3>2. closeList'[(n - 1) - (k - 1) + i] = closeList[n - k + (i + 1)]
      BY <1>9, <3>1
    <3> QED
      BY <1>1, <1>2, <1>5, <3>1, <3>2
  <2>3. Len(rleft') <= Len(closeList')
    BY <1>1, <2>1, SMT
  <2> QED
    BY <2>1, <2>2, <2>3 DEF WalkInv, Passing
<1> QED
  BY <1>13, <1>14, <1>15

\* The reaper looks at a slave: it is given up, waited for, or signaled.
LEMMA ReaperSlaveList ==
    ASSUME ReaperInv, ReaperSlave
    PROVE  ReaperInv' /\ \A s \in Slaves : EscalatesInOrder(s)
<1> DEFINE s == Head(rleft)
           sig == IF s \in rexpired THEN Escalate(rsig[s]) ELSE rsig[s]
<1>1. rth = "pass" /\ rleft # <<>> /\ s \in Slaves /\ rfate[s] = "closed"
  BY HeadOfPass DEF ReaperSlave
<1>2. /\ rsig \in [Slaves -> {"0", "TERM", "KILL", "-1"}] /\ rexpired \subseteq Slaves
      /\ rsent \in [Slaves -> {"0", "TERM", "KILL"}] /\ rsig[s] = rsent[s]
      /\ rfate \in [Slaves -> {"open", "closed", "reaped", "zombie"}]
      /\ \A u \in Slaves : SignalOK(u)
  BY <1>1 DEF ReaperInv, ListTypes, SignalOK
<1>3. /\ sig \in {"0", "TERM", "KILL", "-1"}
      /\ sig = "-1" => rsent[s] = "KILL"
      /\ sig = "KILL" => rsent[s] \in {"TERM", "KILL"}
  BY <1>1, <1>2 DEF Escalate
<1>4. rsig' = [rsig EXCEPT ![s] = sig]
  BY DEF ReaperSlave
<1> HIDE DEF sig
<1>5. CASE sig = "-1"
  <2>1. /\ Unlink(s) /\ rfate' = [rfate EXCEPT ![s] = "zombie"]
        /\ UNCHANGED <<rth, rsent>>
    BY <1>5 DEF ReaperSlave, sig
  <2>2. ListTypes' /\ CloseListExact' /\ WalkInv'
    <3>1. rsig' \in [Slaves -> {"0", "TERM", "KILL", "-1"}] /\ rth' = "pass"
      BY <1>1, <1>2, <1>3, <1>4, <2>1
    <3> HIDE DEF s
    <3>2. "zombie" \in {"reaped", "zombie"}
      OBVIOUS
    <3> QED
      BY <1>1, <2>1, <3>1, <3>2, UnlinkList DEF s
  <2>3. \A u \in Slaves : SignalOK(u)' /\ EscalatesInOrder(u)
    BY <1>1, <1>2, <1>3, <1>4, <1>5, <2>1 DEF SignalOK, EscalatesInOrder
  <2> QED
    BY <2>2, <2>3 DEF ReaperInv
<1>6. CASE sig # "-1" /\ (proc[s] = "exited" \/ s \in rout)
  <2>1. rth' = "waitpid" /\ UNCHANGED <<rsent, closeList, rleft, rexpired, rout, rfate>>
    BY <1>6 DEF ReaperSlave, sig
  <2>2. ListTypes' /\ CloseListExact'
    <3>1. rsig' \in [Slaves -> {"0", "TERM", "KILL", "-1"}]
      BY <1>2, <1>3, <1>4
    <3>2. ListTypes'
      BY <2>1, <3>1 DEF ReaperInv, ListTypes
    <3> QED
      BY <2>1, <3>2, SMT DEF ReaperInv, CloseListExact
  <2>3. WalkInv'
    BY <1>1, <2>1 DEF ReaperInv, WalkInv, Passing
  <2>4. \A u \in Slaves : SignalOK(u)' /\ EscalatesInOrder(u)
    BY <1>1, <1>2, <1>4, <2>1 DEF SignalOK, EscalatesInOrder
  <2> QED
    BY <2>2, <2>3, <2>4 DEF ReaperInv
<1>7. CASE sig # "-1" /\ ~(proc[s] = "exited" \/ s \in rout)
  <2>1. /\ rleft' = Tail(rleft) /\ rexpired' = rexpired \ {s}
        /\ rsent' = [rsent EXCEPT ![s] = sig]
        /\ UNCHANGED <<rth, closeList, rout, rfate>>
    BY <1>7 DEF ReaperSlave, sig
  <2>2. /\ Tail(rleft) \in Seq(Slaves) /\ Len(Tail(rleft)) = Len(rleft) - 1
        /\ \A i \in 1..(Len(rleft) - 1) : Tail(rleft)[i] = rleft[i + 1]
        /\ Len(rleft) \in 1..Len(closeList) /\ Len(closeList) \in Nat
    BY <1>1, HeadOfPass
  <2>3. ListTypes' /\ CloseListExact'
    BY <1>2, <1>3, <1>4, <1>7, <2>1, <2>2, SMTT(30) DEF ReaperInv, ListTypes, CloseListExact
  <2>4. WalkInv'
    <3>1. ASSUME NEW i \in 1..(Len(rleft) - 1)
          PROVE  Tail(rleft)[i] = closeList[Len(closeList) - (Len(rleft) - 1) + i]
      <4>1. i + 1 \in 1..Len(rleft)
        BY <2>2, SMT
      <4>2. rleft[i + 1] = closeList[Len(closeList) - Len(rleft) + (i + 1)]
        BY <4>1 DEF ReaperInv, WalkInv
      <4>3. Len(closeList) - Len(rleft) + (i + 1) = Len(closeList) - (Len(rleft) - 1) + i
        BY <2>2, SMT
      <4> QED
        BY <2>2, <4>2, <4>3
    <3>2. Len(rleft) - 1 <= Len(closeList)
      BY <2>2, SMT
    <3> QED
      BY <1>1, <2>1, <2>2, <3>1, <3>2 DEF WalkInv, Passing
  <2>5. \A u \in Slaves : SignalOK(u)' /\ EscalatesInOrder(u)
    BY <1>1, <1>2, <1>3, <1>4, <1>7, <2>1 DEF SignalOK, EscalatesInOrder
  <2> QED
    BY <2>3, <2>4, <2>5 DEF ReaperInv
<1> QED
  BY <1>5, <1>6, <1>7

\* The slave that the reaper waited for has exited.
LEMMA ReaperWaitedList ==
    ASSUME ReaperInv, ReaperWaited
    PROVE  ReaperInv' /\ \A s \in Slaves : EscalatesInOrder(s)
<1> DEFINE s == Head(rleft)
<1>1. rth = "waitpid" /\ rleft # <<>>
  BY DEF ReaperWaited, ReaperInv, WalkInv
<1>2. s \in Slaves
  BY <1>1, HeadOfPass
<1>3. /\ Unlink(s) /\ rfate' = [rfate EXCEPT ![s] = "reaped"] /\ rth' = "pass"
      /\ UNCHANGED <<rsig, rsent>>
  BY DEF ReaperWaited
<1>4. ListTypes' /\ CloseListExact' /\ WalkInv'
  <2>1. rsig' \in [Slaves -> {"0", "TERM", "KILL", "-1"}]
    BY <1>3 DEF ReaperInv, ListTypes
  <2>2. "reaped" \in {"reaped", "zombie"}
    OBVIOUS
  <2> HIDE DEF s
  <2> QED
    BY <1>1, <1>3, <2>1, <2>2, UnlinkList DEF s
<1>5. \A u \in Slaves : SignalOK(u) /\ rfate[u] \in {"open", "closed", "reaped", "zombie"}
  BY DEF ReaperInv, ListTypes
<1>6. rfate \in [Slaves -> {"open", "closed", "reaped", "zombie"}]
  BY DEF ReaperInv, ListTypes
<1> HIDE DEF s
<1>7. \A u \in Slaves : SignalOK(u)' /\ EscalatesInOrder(u)
  <2> SUFFICES ASSUME NEW u \in Slaves PROVE SignalOK(u)' /\ EscalatesInOrder(u)
    OBVIOUS
  <2>1. CASE u = s
    BY <1>2, <1>3, <1>6, <2>1 DEF SignalOK, EscalatesInOrder
  <2>2. CASE u # s
    BY <1>2, <1>3, <1>5, <1>6, <2>2 DEF SignalOK, EscalatesInOrder, s
  <2> QED
    BY <2>1, <2>2
<1> QED
  BY <1>4, <1>7 DEF ReaperInv

\* A pass begins, with the slaves that expired in front of the list.
LEMMA ReaperPassList ==
    ASSUME ReaperInv, ReaperPass
    PROVE  ReaperInv' /\ \A s \in Slaves : EscalatesInOrder(s)
<1>1. rth \notin Passing /\ rth' = "pass"
  <2>1. CASE rth = "woken"
    BY <2>1 DEF ReaperPass, Passing
  <2>2. CASE rth = "start"
    <3>1. PICK w \in Waiters \cup {"none"} : Wakes({w}, "pass", rpc, rshut)
      BY <2>2 DEF ReaperPass
    <3>2. w # "reaper"
      BY <2>2, ReaperAssumption DEF Waiters
    <3> QED
      BY <2>2, <3>1, <3>2 DEF Wakes, Passing
  <2> QED
    BY <2>1, <2>2 DEF ReaperPass
<1> DEFINE Closes(S, list) == /\ {list[i] : i \in DOMAIN list} = S
                              /\ CloseSlaves(S, list) /\ rleft' = list \o closeList
<1>a. PICK S \in SUBSET {s \in Slaves : rfate[s] = "open"} :
         \E list \in [1..Cardinality(S) -> S] : Closes(S, list)
  <2>1. PICK S \in SUBSET {s \in Slaves : rfate[s] = "open" /\ proc[s] \in {"idle", "exited"} /\ s \notin rout} :
            \E list \in [1..Cardinality(S) -> S] : Closes(S, list)
    BY DEF ReaperPass
  <2>2. S \in SUBSET {s \in Slaves : rfate[s] = "open"}
    OBVIOUS
  <2> HIDE DEF Closes
  <2> QED
    BY <2>1, <2>2
<1>2. PICK list \in [1..Cardinality(S) -> S] : Closes(S, list)
  BY <1>a
<1>3. /\ closeList' = list \o closeList /\ closeList' \in Seq(Slaves) /\ CloseListExact'
      /\ rleft' \in Seq(Slaves) => ListTypes'
      /\ rth' # "waitpid" => \A s \in Slaves : SignalOK(s)'
  BY <1>1, <1>2, CloseSlavesList
<1>4. rleft' = closeList'
  BY <1>2, <1>3
<1>5. WalkInv'
  BY <1>1, <1>3, <1>4, SMT DEF WalkInv, Passing
<1>6. \A s \in Slaves : EscalatesInOrder(s)
  BY <1>2 DEF CloseSlaves, EscalatesInOrder, ReaperInv, SignalOK
<1> QED
  BY <1>1, <1>3, <1>4, <1>5, <1>6 DEF ReaperInv

\* CloseProxy and Shutdown close slaves outside a pass.
LEMMA OutsideClose ==
    ASSUME ReaperInv, PlockFree, UNCHANGED <<rth, rleft>>,
           NEW S \in SUBSET {s \in Slaves : rfate[s] = "open"},
           NEW list \in [1..Cardinality(S) -> S], {list[i] : i \in DOMAIN list} = S,
           CloseSlaves(S, list)
    PROVE  ReaperInv' /\ \A s \in Slaves : EscalatesInOrder(s)
<1>1. rth \notin Passing /\ rleft = <<>> /\ rleft \in Seq(Slaves)
  BY DEF PlockFree, Passing, ReaperInv, WalkInv, ListTypes
<1>2. /\ closeList' \in Seq(Slaves) /\ CloseListExact'
      /\ rleft' \in Seq(Slaves) => ListTypes'
      /\ rth' # "waitpid" => \A s \in Slaves : SignalOK(s)'
  BY <1>1, CloseSlavesList
<1>3. WalkInv'
  BY <1>1, <1>2, SMT DEF WalkInv, Passing
<1>4. \A s \in Slaves : EscalatesInOrder(s)
  BY DEF CloseSlaves, EscalatesInOrder, ReaperInv, SignalOK
<1> QED
  BY <1>1, <1>2, <1>3, <1>4 DEF ReaperInv, Passing

\* Every step keeps the close list exact and sends the signals in order.
LEMMA ReaperStep ==
    ASSUME ReaperInv, [ReaperNext]_reaperVars
    PROVE  ReaperInv' /\ \A s \in Slaves : EscalatesInOrder(s)
<1> DEFINE Goal == ReaperInv' /\ \A s \in Slaves : EscalatesInOrder(s)
<1>0. rexpired \subseteq Slaves /\ \A s \in Slaves : SignalOK(s)
  BY DEF ReaperInv, ListTypes
<1>1. ASSUME UNCHANGED <<rleft, closeList, rsig, rsent, rfate>>, rexpired' \subseteq Slaves,
             \/ rth' = rth
             \/ (rth \in Passing => rleft = <<>>) /\ rth' \notin Passing
      PROVE  Goal
  BY <1>0, <1>1, ListFrame DEF EscalatesInOrder, SignalOK
<1> HIDE DEF Goal
<1>2. CASE UNCHANGED reaperVars
  BY <1>0, <1>1, <1>2 DEF reaperVars, rlVars, Goal
<1>3. ASSUME NEW s \in Slaves,
             \/ ProcStarts(s) \/ ProcAnswers(s) \/ ProcRead(s) \/ ProcExits(s) \/ ProcDies(s)
             \/ SlaveExpires(s)
      PROVE  Goal
  BY <1>0, <1>1, <1>3 DEF ProcStarts, ProcAnswers, ProcRead, ProcExits, ProcDies, SlaveExpires, rlVars
<1>4. ASSUME NEW t \in ReapThreads, ReapCall(t) \/ ReapProxies(t) \/ ReapWakes(t)
      PROVE  Goal
  <2>1. UNCHANGED <<rleft, rlVars>>
    BY <1>4 DEF ReapCall, ReapProxies, ReapWakes
  <2>2. rth' = rth \/ (rth \notin Passing /\ rth' \notin Passing)
    BY <1>4, AwakeReaper DEF ReapCall, ReapProxies, ReapWakes, Passing, PlockFree
  <2> QED
    BY <1>0, <1>1, <2>1, <2>2 DEF rlVars, Goal
<1>5. ASSUME NEW t \in ReapThreads, NEW s \in Slaves, ReapClose(t, s) PROVE Goal
  <2>1. /\ PlockFree /\ rfate[s] = "open" /\ CloseSlaves({s}, <<s>>)
        /\ UNCHANGED <<rth, rleft>>
    BY <1>5 DEF ReapClose
  <2>2. Cardinality({s}) = 1
    BY FS_Singleton
  <2>3. <<s>> \in [1..Cardinality({s}) -> {s}] /\ {<<s>>[i] : i \in DOMAIN <<s>>} = {s}
    BY <2>2, SMT
  <2>4. {s} \in SUBSET {u \in Slaves : rfate[u] = "open"}
    BY <2>1
  <2> QED
    BY <2>1, <2>3, <2>4, OutsideClose DEF Goal
<1>6. ASSUME NEW S \in SUBSET {s \in Slaves : rfate[s] = "open"}, ShutdownPools(S) PROVE Goal
  BY <1>6, OutsideClose DEF ShutdownPools, Goal
<1>7. CASE ReaperPass \/ ReaperSlave \/ ReaperWaited
  BY <1>7, ReaperPassList, ReaperSlaveList, ReaperWaitedList DEF Goal
<1>8. CASE ReaperSleeps
  <2>1. rth = "pass" /\ rleft = <<>> /\ rth' \in {"sleep", "woken"} /\ UNCHANGED <<rleft, rlVars>>
    BY <1>8 DEF ReaperSleeps, Wakes
  <2> QED
    BY <1>0, <1>1, <2>1 DEF rlVars, Passing, Goal
<1>9. CASE ReaperExit \/ ReaperTimeout
  <2>1. /\ UNCHANGED <<rleft, rlVars>> /\ rth \notin Passing /\ rth' \notin Passing
    BY <1>9, CondSignalReaper DEF ReaperExit, ReaperTimeout, Passing
  <2> QED
    BY <1>0, <1>1, <2>1 DEF rlVars, Goal
<1>10. CASE ReaperAgain
  <2>1. rth = "pass" /\ rth' = "pass" /\ rleft' = closeList /\ UNCHANGED rlVars
    BY <1>10 DEF ReaperAgain
  <2>2. closeList \in Seq(Slaves)
    BY DEF ReaperInv, ListTypes
  <2>3. ListTypes' /\ CloseListExact'
    BY <2>1, <2>2, SMT DEF ReaperInv, ListTypes, CloseListExact, rlVars
  <2>4. WalkInv'
    BY <2>1, <2>2, SMT DEF WalkInv, Passing, rlVars
  <2>5. \A s \in Slaves : SignalOK(s)' /\ EscalatesInOrder(s)
    BY <1>0, <2>1 DEF SignalOK, EscalatesInOrder, rlVars
  <2> QED
    BY <2>3, <2>4, <2>5 DEF Goal, ReaperInv
<1>11. CASE ShutdownReap \/ ShutdownReaped \/ ShutdownStop \/ ShutdownWakes \/ ShutdownTimeout
  <2>1. UNCHANGED <<rleft, rlVars>>
    BY <1>11 DEF ShutdownReap, ShutdownReaped, ShutdownStop, ShutdownWakes, ShutdownTimeout
  <2>2. rth' = rth \/ (rth \notin Passing /\ rth' \notin Passing)
    BY <1>11, AwakeReaper, CondSignalReaper DEF ShutdownReap, ShutdownReaped, ShutdownStop,
           ShutdownWakes, ShutdownTimeout, Passing, PlockFree
  <2> QED
    BY <1>0, <1>1, <2>1, <2>2 DEF rlVars, Goal
<1> QED
  BY <1>2, <1>3, <1>4, <1>5, <1>6, <1>7, <1>8, <1>9, <1>10, <1>11
     DEF ReaperNext, ReaperThread, Goal

\* The walk starts with an empty list.
LEMMA ReaperStart == ReaperInit => ReaperInv
BY SMT DEF ReaperInit, ReaperInv, ListTypes, CloseListExact, WalkInv, SignalOK, Passing

\* firstClosePtr's list is exactly the closed slaves that are not collected,
\* each once: none is lost and none is freed twice by ReaperThread.
THEOREM CloseListKept == ReaperSpec => []CloseListExact
<1>1. ReaperInv /\ [ReaperNext]_reaperVars => ReaperInv'
  BY ReaperStep
<1>2. ReaperInv => CloseListExact
  BY DEF ReaperInv
<1> QED
  BY <1>1, <1>2, ReaperStart, PTL DEF ReaperSpec

\* ReaperThread sends SIGKILL only after SIGTERM, and gives a process up as a
\* zombie only after SIGKILL.
THEOREM SignalsEscalate == ReaperSpec => SignalsInOrder
<1>1. ReaperInv /\ [ReaperNext]_reaperVars => ReaperInv'
  BY ReaperStep
<1>2. ReaperInv /\ [ReaperNext]_reaperVars => [\A s \in Slaves : EscalatesInOrder(s)]_reaperVars
  BY ReaperStep
<1> QED
  BY <1>1, <1>2, ReaperStart, PTL DEF ReaperSpec, SignalsInOrder
=============================================================================
