-------------------------- MODULE SockDriverProofs --------------------------
(***************************************************************************)
(* Spec => []OwnerInv: a Sock is in exactly one list, for any number of    *)
(* sockets and spoolers.  A step changes the lists with Move, Take or the  *)
(* merge of SpoolerCollect; one lemma for each says that it keeps          *)
(* OneOwner.  Take needs that the list it fills is empty (NoLeftover).     *)
(* The refinement of SockLife follows at the end.                          *)
(***************************************************************************)
EXTENDS SockDriver, FiniteSetTheorems, TLAPS

\* Most leaves are first-order; the ones that need arithmetic or sequences cite SMT.
USE Zenon

\* The parts of OwnerInv that steps change separately.
DataOK ==
    /\ open \in [Socks -> BOOLEAN] /\ keep \in [Socks -> BOOLEAN] /\ req \in [Socks -> BOOLEAN]
    /\ queuesize \in Int /\ tmp \in [Threads -> Int]

\* Control state of the threads.
ControlOK ==
    /\ trig \in Nat /\ pend \in Nat /\ shutdown \in BOOLEAN
    /\ dpc \in {"start", "poll", "drain", "read", "wait", "accept", "count", "fresh",
                "collect", "return", "stopped"}
    /\ accepted \in Nat /\ stopping \in BOOLEAN /\ toTrig \in Spoolers \cup {None}
    /\ spc \in [Spoolers -> {"off", "poll", "read", "wait", "stopped"}]
    /\ strig \in [Spoolers -> Nat] /\ sshut \in [Spoolers -> BOOLEAN]
    /\ mpc \in {"up", "stopping"}

\* The lists.
ListsOK == at \in [Places -> SUBSET Socks] /\ OneOwner

\* A step of the lists that fills no work list.
ListStep == ListsOK' /\ \A t \in Threads : Work(t) = {} => Work(t)' = {}

\* A step of the lists in which only t's work list may become nonempty.
TakeStep(t) == ListsOK' /\ \A u \in Threads : u # t /\ Work(u) = {} => Work(u)' = {}

\* The lists the code names are among the places.
LEMMA PlaceNames ==
    /\ \A t \in Threads : {<<t, "read">>, <<t, "wait">>, <<t, "work">>, <<t, "rel">>} \subseteq Places
    /\ {<<Driver, "free">>, <<Driver, "closed">>, <<Driver, "close">>, <<Driver, "fresh">>} \subseteq Places
    /\ \A p \in Spoolers : <<p, "queue">> \in Places
    /\ {<<Pool, "queued">>, <<Pool, "running">>, <<Pool, "closing">>} \subseteq Places
BY SMT DEF Places

\* The owners of lists.
LEMMA ThreadNames == Driver \in Threads /\ (\A p \in Spoolers : p \in Threads /\ p # Driver)
BY OwnersDiffer DEF Threads

\* OwnerInv in the parts that steps change.
LEMMA Parts == OwnerInv <=> ListsOK /\ DataOK /\ ControlOK /\ NoLeftover
BY DEF OwnerInv, TypeOK, ListsOK, DataOK, ControlOK

\* Unlinking a socket from one list and linking it into another (Push).
LEMMA MoveStep ==
    ASSUME ListsOK, NEW s \in Socks, NEW from \in Places, NEW to \in Places,
           s \in at[from], from # to, \A t \in Threads : to # <<t, "work">>,
           at' = Move(s, from, to)
    PROVE  ListStep
<1>1. /\ at' \in [Places -> SUBSET Socks]
      /\ at'[from] = at[from] \ {s}
      /\ at'[to] = at[to] \cup {s}
      /\ \A q \in Places : q # from /\ q # to => at'[q] = at[q]
  BY DEF ListsOK, Move
<1>2. OneOwner'
  <2> SUFFICES ASSUME NEW r \in Socks
               PROVE  \E p \in Places : \A q \in Places : r \in at'[q] <=> q = p
    BY DEF OneOwner
  <2>1. PICK p \in Places : \A q \in Places : r \in at[q] <=> q = p
    BY DEF ListsOK, OneOwner
  <2>2. CASE r = s
    <3>1. p = from
      BY <2>1, <2>2
    <3>2. \A q \in Places : r \in at'[q] <=> q = to
      BY <1>1, <2>1, <2>2, <3>1
    <3> QED
      BY <3>2
  <2>3. CASE r # s
    <3>1. \A q \in Places : r \in at'[q] <=> r \in at[q]
      BY <1>1, <2>3
    <3> QED
      BY <2>1, <3>1
  <2> QED
    BY <2>2, <2>3
<1>3. \A t \in Threads : Work(t) = {} => Work(t)' = {}
  BY <1>1, PlaceNames DEF Work
<1> QED
  BY <1>1, <1>2, <1>3 DEF ListStep, ListsOK

\* An inner loop takes over a list; its own work list was empty.
LEMMA TakeList ==
    ASSUME ListsOK, NEW t \in Threads, NEW from \in Places,
           \A u \in Threads : from # <<u, "work">>,
           Work(t) = {}, at' = Take(from, t)
    PROVE  TakeStep(t)
<1> DEFINE w == <<t, "work">>
<1>0. w \in Places /\ from # w /\ at[w] = {}
  BY PlaceNames DEF Work
<1>1. /\ at' \in [Places -> SUBSET Socks]
      /\ at'[from] = {}
      /\ at'[w] = at[from]
      /\ \A q \in Places : q # from /\ q # w => at'[q] = at[q]
  BY <1>0 DEF ListsOK, Take
<1> HIDE DEF w
<1>2. OneOwner'
  <2> SUFFICES ASSUME NEW r \in Socks
               PROVE  \E p \in Places : \A q \in Places : r \in at'[q] <=> q = p
    BY DEF OneOwner
  <2>1. PICK p \in Places : \A q \in Places : r \in at[q] <=> q = p
    BY DEF ListsOK, OneOwner
  <2>2. CASE p = from
    <3>1. \A q \in Places : r \in at'[q] <=> q = w
      BY <1>0, <1>1, <2>1, <2>2
    <3> QED
      BY <1>0, <3>1
  <2>3. CASE p # from
    <3>1. \A q \in Places : r \in at'[q] <=> r \in at[q]
      BY <1>0, <1>1, <2>1, <2>3
    <3> QED
      BY <2>1, <3>1
  <2> QED
    BY <2>2, <2>3
<1>3. ASSUME NEW u \in Threads, u # t, Work(u) = {}
      PROVE  Work(u)' = {}
  <2>1. <<u, "work">> # w /\ <<u, "work">> # from /\ <<u, "work">> \in Places
    BY <1>3, PlaceNames DEF w
  <2> QED
    BY <1>1, <1>3, <2>1 DEF Work
<1> QED
  BY <1>1, <1>2, <1>3 DEF TakeStep, ListsOK

\* SpoolerCollect appends the submitted sockets to readPtr.
LEMMA MergeStep ==
    ASSUME ListsOK, NEW into \in Places, NEW from \in Places, into # from,
           \A t \in Threads : into # <<t, "work">>,
           at' = [at EXCEPT ![into] = @ \cup at[from], ![from] = {}]
    PROVE  ListStep
<1>1. /\ at' \in [Places -> SUBSET Socks]
      /\ at'[from] = {}
      /\ at'[into] = at[into] \cup at[from]
      /\ \A q \in Places : q # from /\ q # into => at'[q] = at[q]
  BY DEF ListsOK
<1>2. OneOwner'
  <2> SUFFICES ASSUME NEW r \in Socks
               PROVE  \E p \in Places : \A q \in Places : r \in at'[q] <=> q = p
    BY DEF OneOwner
  <2>1. PICK p \in Places : \A q \in Places : r \in at[q] <=> q = p
    BY DEF ListsOK, OneOwner
  <2>2. CASE p = from
    <3>1. \A q \in Places : r \in at'[q] <=> q = into
      BY <1>1, <2>1, <2>2
    <3> QED
      BY <3>1
  <2>3. CASE p # from
    <3>1. \A q \in Places : r \in at'[q] <=> r \in at[q]
      BY <1>1, <2>1, <2>3
    <3> QED
      BY <2>1, <3>1
  <2> QED
    BY <2>2, <2>3
<1>3. \A t \in Threads : Work(t) = {} => Work(t)' = {}
  BY <1>1, PlaceNames DEF Work
<1> QED
  BY <1>1, <1>2, <1>3 DEF ListStep, ListsOK

\* Lists that do not change.
LEMMA SameLists == ListsOK /\ UNCHANGED at => ListStep
BY DEF ListStep, ListsOK, OneOwner, Work

\* NoLeftover is kept when no thread leaves or enters an inner loop.
LEMMA SameLoops == NoLeftover /\ ListStep /\ UNCHANGED <<dpc, spc>> => NoLeftover'
BY ThreadNames DEF NoLeftover, ListStep

\* NoLeftover when the driver moves on with its work list empty.
LEMMA DriverLeaves ==
    NoLeftover /\ ListStep /\ UNCHANGED spc /\ Work(Driver) = {} /\ dpc' # "start"
        => NoLeftover'
BY ThreadNames DEF NoLeftover, ListStep

\* NoLeftover when the driver starts an inner loop.
LEMMA DriverEnters ==
    NoLeftover /\ TakeStep(Driver) /\ UNCHANGED spc
        /\ dpc' \in {"drain", "read", "wait", "return"} => NoLeftover'
BY ThreadNames DEF NoLeftover, TakeStep

\* SockRelease up to the load of queuesize.
LEMMA ReleaseStep ==
    ASSUME ListsOK, DataOK, NEW t \in Threads, NEW s \in Socks, NEW from \in Places,
           s \in at[from], from # <<t, "rel">>, SockRelease(t, s, from)
    PROVE  ListStep /\ DataOK'
<1>1. at' = Move(s, from, <<t, "rel">>) /\ <<t, "rel">> \in Places
  BY PlaceNames DEF SockRelease
<1>2. \A u \in Threads : <<t, "rel">> # <<u, "work">>
  OBVIOUS
<1>3. ListStep
  BY <1>1, <1>2, MoveStep
<1>4. DataOK'
  BY SwitchesBoolean DEF SockRelease, DataOK
<1> QED
  BY <1>3, <1>4

\* SockQueue hands the socket to the pool or keeps it on waitPtr.
LEMMA QueueStep ==
    ASSUME ListsOK, NEW t \in Threads, NEW s \in Socks, NEW from \in Places,
           s \in at[from], from # <<t, "wait">>, from # <<Pool, "queued">>,
           SockQueue(t, s, from)
    PROVE  ListStep
<1> DEFINE a == <<Pool, "queued">>
           b == <<t, "wait">>
<1>1. a \in Places /\ b \in Places /\ \A u \in Threads : a # <<u, "work">> /\ b # <<u, "work">>
  BY PlaceNames
<1>2. at' = Move(s, from, a) \/ at' = Move(s, from, b)
  BY DEF SockQueue
<1> QED
  BY <1>1, <1>2, MoveStep

-----------------------------------------------------------------------------
(* One lemma for each action, or for each group of like actions.           *)

\* The parts make up OwnerInv in the next state too.
LEMMA PartsNext == ListsOK' /\ DataOK' /\ ControlOK' /\ NoLeftover' => OwnerInv'
BY DEF OwnerInv, TypeOK, ListsOK, DataOK, ControlOK

\* The driver starts on closePtr.
LEMMA DriverPollKeeps ==
    ASSUME OwnerInv, DriverPoll
    PROVE  OwnerInv'
<1>1. ListsOK /\ DataOK /\ ControlOK /\ NoLeftover
  BY Parts
<1>2. Work(Driver) = {}
  BY <1>1 DEF DriverPoll, At, NoLeftover
<1>3. at' = Take(<<Driver, "close">>, Driver)
  BY DEF DriverPoll
<1>4. <<Driver, "close">> \in Places /\ Driver \in Threads
      /\ \A u \in Threads : <<Driver, "close">> # <<u, "work">>
  BY PlaceNames, ThreadNames
<1>5. TakeStep(Driver)
  BY <1>1, <1>2, <1>3, <1>4, TakeList
<1>6. DataOK'
  BY <1>1 DEF DriverPoll, DataOK, LeaveSock, sock
<1>7. ControlOK'
  BY <1>1, SMT DEF DriverPoll, ControlOK, Drained, spool, wake
<1>8. NoLeftover'
  BY <1>1, <1>5, DriverEnters DEF DriverPoll, spool
<1> QED
  BY <1>5, <1>6, <1>7, <1>8, PartsNext DEF TakeStep

\* The driver starts on readPtr.
LEMMA DriverDrainEndKeeps ==
    ASSUME OwnerInv, DriverDrainEnd
    PROVE  OwnerInv'
<1>1. ListsOK /\ DataOK /\ ControlOK /\ NoLeftover
  BY Parts
<1>2. Work(Driver) = {}
  BY DEF DriverDrainEnd
<1>3. at' = Take(<<Driver, "read">>, Driver)
  BY DEF DriverDrainEnd
<1>4. <<Driver, "read">> \in Places /\ Driver \in Threads
      /\ \A u \in Threads : <<Driver, "read">> # <<u, "work">>
  BY PlaceNames, ThreadNames
<1>5. TakeStep(Driver)
  BY <1>1, <1>2, <1>3, <1>4, TakeList
<1>6. DataOK'
  BY <1>1 DEF DriverDrainEnd, DataOK, LeaveSock, sock
<1>7. ControlOK'
  BY <1>1 DEF DriverDrainEnd, ControlOK, Drained, spool, wake
<1>8. NoLeftover'
  BY <1>1, <1>5, DriverEnters DEF DriverDrainEnd, spool
<1> QED
  BY <1>5, <1>6, <1>7, <1>8, PartsNext DEF TakeStep

\* The driver starts on waitPtr.
LEMMA DriverReadEndKeeps ==
    ASSUME OwnerInv, DriverReadEnd
    PROVE  OwnerInv'
<1>1. ListsOK /\ DataOK /\ ControlOK /\ NoLeftover
  BY Parts
<1>2. Work(Driver) = {}
  BY DEF DriverReadEnd
<1>3. at' = Take(<<Driver, "wait">>, Driver)
  BY DEF DriverReadEnd
<1>4. <<Driver, "wait">> \in Places /\ Driver \in Threads
      /\ \A u \in Threads : <<Driver, "wait">> # <<u, "work">>
  BY PlaceNames, ThreadNames
<1>5. TakeStep(Driver)
  BY <1>1, <1>2, <1>3, <1>4, TakeList
<1>6. DataOK'
  BY <1>1 DEF DriverReadEnd, DataOK, LeaveSock, sock
<1>7. ControlOK'
  BY <1>1 DEF DriverReadEnd, ControlOK, Drained, spool, wake
<1>8. NoLeftover'
  BY <1>1, <1>5, DriverEnters DEF DriverReadEnd, spool
<1> QED
  BY <1>5, <1>6, <1>7, <1>8, PartsNext DEF TakeStep

\* The driver starts on the sockets given back.
LEMMA DriverCollectKeeps ==
    ASSUME OwnerInv, DriverCollect
    PROVE  OwnerInv'
<1>1. ListsOK /\ DataOK /\ ControlOK /\ NoLeftover
  BY Parts
<1>2. Work(Driver) = {}
  BY <1>1 DEF DriverCollect, At, NoLeftover
<1>3. at' = Take(<<Driver, "closed">>, Driver)
  BY DEF DriverCollect
<1>4. <<Driver, "closed">> \in Places /\ Driver \in Threads
      /\ \A u \in Threads : <<Driver, "closed">> # <<u, "work">>
  BY PlaceNames, ThreadNames
<1>5. TakeStep(Driver)
  BY <1>1, <1>2, <1>3, <1>4, TakeList
<1>6. DataOK'
  BY <1>1 DEF DriverCollect, DataOK, LeaveSock, sock
<1>7. ControlOK'
  BY <1>1 DEF DriverCollect, ControlOK, Drained, spool, wake
<1>8. NoLeftover'
  BY <1>1, <1>5, DriverEnters DEF DriverCollect, spool
<1> QED
  BY <1>5, <1>6, <1>7, <1>8, PartsNext DEF TakeStep

\* The driver starts, and with it the spoolers.
LEMMA DriverStartKeeps ==
    ASSUME OwnerInv, DriverStart
    PROVE  OwnerInv'
<1>1. ListsOK /\ DataOK /\ ControlOK /\ NoLeftover
  BY Parts
<1>2. ListStep
  BY <1>1, SameLists DEF DriverStart
<1>3. DataOK'
  BY <1>1 DEF DriverStart, DataOK, sock
<1>4. ControlOK'
  BY <1>1 DEF DriverStart, ControlOK, wake
<1>5. NoLeftover'
  BY <1>1, <1>2, ThreadNames DEF DriverStart, NoLeftover, ListStep, ControlOK
<1> QED
  BY <1>2, <1>3, <1>4, <1>5, PartsNext DEF ListStep

\* The driver goes on to another part of its loop; no list changes.
LEMMA DriverGoesOnKeeps ==
    ASSUME OwnerInv, DriverWaitEnd \/ SockAcceptCount \/ DriverAcceptEnd \/ DriverReturnEnd
    PROVE  OwnerInv'
<1>1. ListsOK /\ DataOK /\ ControlOK /\ NoLeftover
  BY Parts
<1>2. ListStep
  BY <1>1, SameLists DEF DriverWaitEnd, SockAcceptCount, DriverAcceptEnd, DriverReturnEnd
<1>3. DataOK'
  BY <1>1, ThreadNames, SMT
     DEF DriverWaitEnd, SockAcceptCount, DriverAcceptEnd, DriverReturnEnd, DataOK, LeaveSock, sock
<1>4. ControlOK'
  BY <1>1, SMT DEF DriverWaitEnd, SockAcceptCount, DriverAcceptEnd, DriverReturnEnd, ControlOK, wake, spool
<1>5. Work(Driver) = {} /\ dpc' # "start" /\ UNCHANGED spc
  BY <1>1 DEF DriverWaitEnd, SockAcceptCount, DriverAcceptEnd, DriverReturnEnd, At, NoLeftover, spool
<1>6. NoLeftover'
  BY <1>1, <1>2, <1>5, DriverLeaves
<1> QED
  BY <1>2, <1>3, <1>4, <1>6, PartsNext DEF ListStep

\* Trigger bytes and stop flags; no list changes and no thread moves on.
LEMMA TriggerKeeps ==
    ASSUME OwnerInv, SpoolerTrigger \/ SockTrigger \/ NsWakeupDriver \/ NsStopDrivers
                        \/ (\E p \in Spoolers : NsStopSpoolers(p))
    PROVE  OwnerInv'
<1>1. ListsOK /\ DataOK /\ ControlOK /\ NoLeftover
  BY Parts
<1>2. ListStep
  BY <1>1, SameLists DEF SpoolerTrigger, SockTrigger, NsWakeupDriver, NsStopDrivers, NsStopSpoolers
<1>3. DataOK'
  BY <1>1 DEF SpoolerTrigger, SockTrigger, NsWakeupDriver, NsStopDrivers, NsStopSpoolers,
              DataOK, LeaveSock, sock
<1>4. ControlOK'
  <2>1. CASE SpoolerTrigger
    BY <1>1, <2>1, SMT DEF SpoolerTrigger, ControlOK, wake
  <2>2. CASE SockTrigger
    BY <1>1, <2>2, SMT DEF SockTrigger, ControlOK, drv, spool
  <2>3. CASE NsWakeupDriver
    BY <1>1, <2>3, SMT DEF NsWakeupDriver, ControlOK, drv, spool
  <2>4. CASE NsStopDrivers
    BY <1>1, <2>4, SMT DEF NsStopDrivers, ControlOK, drv, spool
  <2>5. CASE \E p \in Spoolers : NsStopSpoolers(p)
    BY <1>1, <2>5, SMT DEF NsStopSpoolers, ControlOK, wake, drv
  <2> QED
    BY <2>1, <2>2, <2>3, <2>4, <2>5
<1>5. UNCHANGED <<dpc, spc>>
  BY DEF SpoolerTrigger, SockTrigger, NsWakeupDriver, NsStopDrivers, NsStopSpoolers, drv, spool
<1>6. NoLeftover'
  BY <1>1, <1>2, <1>5, SameLoops
<1> QED
  BY <1>2, <1>3, <1>4, <1>6, PartsNext DEF ListStep

\* A connection thread takes a socket from the queue.
LEMMA NsGetRequestKeeps ==
    ASSUME OwnerInv, NEW s \in Socks, NsGetRequest(s)
    PROVE  OwnerInv'
<1>1. ListsOK /\ DataOK /\ ControlOK /\ NoLeftover
  BY Parts
<1>2. /\ <<Pool, "queued">> \in Places /\ <<Pool, "running">> \in Places /\ <<Pool, "queued">> # <<Pool, "running">>
      /\ \A t \in Threads : <<Pool, "running">> # <<t, "work">>
  BY PlaceNames
<1>3. s \in at[<<Pool, "queued">>] /\ at' = Move(s, <<Pool, "queued">>, <<Pool, "running">>)
  BY DEF NsGetRequest, Queued, Running, Closing
<1>4. ListStep
  BY <1>1, <1>2, <1>3, MoveStep
<1>5. DataOK'
  BY <1>1, SwitchesBoolean DEF NsGetRequest, DataOK, LeaveSock, sock
<1>6. ControlOK'
  BY <1>1 DEF NsGetRequest, ControlOK, wake, drv, spool
<1>7. NoLeftover'
  BY <1>1, <1>4, SameLoops DEF NsGetRequest, drv, spool
<1> QED
  BY <1>4, <1>5, <1>6, <1>7, PartsNext DEF ListStep

\* A connection thread closes or keeps the connection.
LEMMA SockCloseKeeps ==
    ASSUME OwnerInv, NEW s \in Socks, NEW k \in BOOLEAN, SockClose(s, k)
    PROVE  OwnerInv'
<1>1. ListsOK /\ DataOK /\ ControlOK /\ NoLeftover
  BY Parts
<1>2. /\ <<Pool, "running">> \in Places /\ <<Pool, "closing">> \in Places /\ <<Pool, "running">> # <<Pool, "closing">>
      /\ \A t \in Threads : <<Pool, "closing">> # <<t, "work">>
  BY PlaceNames
<1>3. s \in at[<<Pool, "running">>] /\ at' = Move(s, <<Pool, "running">>, <<Pool, "closing">>)
  BY DEF SockClose, Queued, Running, Closing
<1>4. ListStep
  BY <1>1, <1>2, <1>3, MoveStep
<1>5. DataOK'
  BY <1>1, SwitchesBoolean DEF SockClose, DataOK, LeaveSock, sock
<1>6. ControlOK'
  BY <1>1 DEF SockClose, ControlOK, wake, drv, spool
<1>7. NoLeftover'
  BY <1>1, <1>4, SameLoops DEF SockClose, drv, spool
<1> QED
  BY <1>4, <1>5, <1>6, <1>7, PartsNext DEF ListStep

\* A connection thread gives the socket back.
LEMMA NsSockCloseKeeps ==
    ASSUME OwnerInv, NEW s \in Socks, NsSockClose(s)
    PROVE  OwnerInv'
<1>1. ListsOK /\ DataOK /\ ControlOK /\ NoLeftover
  BY Parts
<1>2. /\ <<Pool, "closing">> \in Places /\ <<Driver, "closed">> \in Places /\ <<Pool, "closing">> # <<Driver, "closed">>
      /\ \A t \in Threads : <<Driver, "closed">> # <<t, "work">>
  BY PlaceNames
<1>3. s \in at[<<Pool, "closing">>] /\ at' = Move(s, <<Pool, "closing">>, <<Driver, "closed">>)
  BY DEF NsSockClose, Queued, Running, Closing
<1>4. ListStep
  BY <1>1, <1>2, <1>3, MoveStep
<1>5. DataOK'
  BY <1>1, SwitchesBoolean DEF NsSockClose, DataOK, LeaveSock, sock
<1>6. ControlOK'
  BY <1>1, SMT DEF NsSockClose, ControlOK, wake, drv, spool
<1>7. NoLeftover'
  BY <1>1, <1>4, SameLoops DEF NsSockClose, drv, spool
<1> QED
  BY <1>4, <1>5, <1>6, <1>7, PartsNext DEF ListStep

\* A draining socket is released or stays.
LEMMA DriverDrainKeeps ==
    ASSUME OwnerInv, NEW s \in Socks, DriverDrain(s)
    PROVE  OwnerInv'
<1>1. ListsOK /\ DataOK /\ ControlOK /\ NoLeftover
  BY Parts
<1>2. /\ <<Driver, "work">> \in Places /\ Driver \in Threads
      /\ <<Driver, "close">> \in Places /\ <<Driver, "work">> # <<Driver, "close">> /\ \A t \in Threads : <<Driver, "close">> # <<t, "work">>
      /\ <<Driver, "rel">> \in Places /\ <<Driver, "work">> # <<Driver, "rel">> /\ \A t \in Threads : <<Driver, "rel">> # <<t, "work">>
  BY PlaceNames, ThreadNames
<1>3. s \in at[<<Driver, "work">>]
  BY DEF DriverDrain, Work
<1>4. ListStep /\ DataOK'
  <2>1. CASE SockRelease(Driver, s, <<Driver, "work">>)
    BY <1>1, <1>2, <1>3, <2>1, ReleaseStep
  <2>2. CASE at' = Move(s, <<Driver, "work">>, <<Driver, "close">>) /\ LeaveSock
    <3>1. ListStep
      BY <1>1, <1>2, <1>3, <2>2, MoveStep
    <3>2. DataOK'
      BY <1>1, <2>2 DEF DataOK, LeaveSock, sock
    <3> QED
      BY <3>1, <3>2
  <2> QED
    BY <2>1, <2>2 DEF DriverDrain
<1>5. ControlOK'
  BY <1>1 DEF DriverDrain, ControlOK, wake, drv, spool
<1>6. NoLeftover'
  BY <1>1, <1>4, SameLoops DEF DriverDrain, drv, spool
<1> QED
  BY <1>4, <1>5, <1>6, PartsNext DEF ListStep

\* A reading socket is released, stays, is queued or goes to a spooler.
LEMMA DriverReadKeeps ==
    ASSUME OwnerInv, NEW s \in Socks, DriverRead(s)
    PROVE  OwnerInv'
<1>1. ListsOK /\ DataOK /\ ControlOK /\ NoLeftover
  BY Parts
<1>2. /\ <<Driver, "work">> \in Places /\ Driver \in Threads
      /\ <<Driver, "read">> \in Places /\ <<Driver, "work">> # <<Driver, "read">> /\ \A t \in Threads : <<Driver, "read">> # <<t, "work">>
      /\ <<Driver, "wait">> \in Places /\ <<Driver, "work">> # <<Driver, "wait">> /\ \A t \in Threads : <<Driver, "wait">> # <<t, "work">>
      /\ <<Pool, "queued">> \in Places /\ <<Driver, "work">> # <<Pool, "queued">> /\ \A t \in Threads : <<Pool, "queued">> # <<t, "work">>
      /\ <<Driver, "rel">> \in Places /\ <<Driver, "work">> # <<Driver, "rel">> /\ \A t \in Threads : <<Driver, "rel">> # <<t, "work">>
  BY PlaceNames, ThreadNames
<1>3. s \in at[<<Driver, "work">>]
  BY DEF DriverRead, Work
<1>4. ListStep
  <2>1. CASE SockRelease(Driver, s, <<Driver, "work">>)
    BY <1>1, <1>2, <1>3, <2>1, ReleaseStep
  <2>2. CASE at' = Move(s, <<Driver, "work">>, <<Driver, "read">>)
    BY <1>1, <1>2, <1>3, <2>2, MoveStep
  <2>3. CASE SockQueue(Driver, s, <<Driver, "work">>)
    BY <1>1, <1>2, <1>3, <2>3, QueueStep
  <2>4. CASE SockSpoolerQueue(s, <<Driver, "work">>)
    <3>1. PICK p \in Spoolers : at' = Move(s, <<Driver, "work">>, <<p, "queue">>)
      BY <2>4 DEF SockSpoolerQueue
    <3>2. /\ <<p, "queue">> \in Places /\ <<Driver, "work">> # <<p, "queue">>
          /\ \A t \in Threads : <<p, "queue">> # <<t, "work">>
      BY PlaceNames
    <3> QED
      BY <1>1, <1>2, <1>3, <3>1, <3>2, MoveStep
  <2> QED
    BY <2>1, <2>2, <2>3, <2>4 DEF DriverRead
<1>5. DataOK'
  <2>1. CASE SockRelease(Driver, s, <<Driver, "work">>)
    BY <1>1, <1>2, <1>3, <2>1, ReleaseStep
  <2>2. CASE LeaveSock
    BY <1>1, <2>2 DEF DataOK, LeaveSock, sock
  <2>3. CASE SockPrepare(s)
    BY <1>1, <2>3 DEF DataOK, SockPrepare
  <2> QED
    BY <2>1, <2>2, <2>3 DEF DriverRead
<1>6. toTrig' \in Spoolers \cup {None}
  BY <1>1 DEF DriverRead, SockSpoolerQueue, ControlOK
<1>7. ControlOK'
  BY <1>1, <1>6 DEF DriverRead, ControlOK, wake, spool
<1>8. NoLeftover'
  BY <1>1, <1>4, SameLoops DEF DriverRead, spool
<1> QED
  BY <1>4, <1>5, <1>7, <1>8, PartsNext DEF ListStep

\* A waiting socket is offered to the pool again.
LEMMA DriverWaitKeeps ==
    ASSUME OwnerInv, NEW s \in Socks, DriverWait(s)
    PROVE  OwnerInv'
<1>1. ListsOK /\ DataOK /\ ControlOK /\ NoLeftover
  BY Parts
<1>2. /\ <<Driver, "work">> \in Places /\ Driver \in Threads
      /\ <<Driver, "wait">> \in Places /\ <<Driver, "work">> # <<Driver, "wait">> /\ \A t \in Threads : <<Driver, "wait">> # <<t, "work">>
      /\ <<Pool, "queued">> \in Places /\ <<Driver, "work">> # <<Pool, "queued">> /\ \A t \in Threads : <<Pool, "queued">> # <<t, "work">>
  BY PlaceNames, ThreadNames
<1>3. s \in at[<<Driver, "work">>] /\ SockQueue(Driver, s, <<Driver, "work">>)
  BY DEF DriverWait, Work
<1>4. ListStep
  BY <1>1, <1>2, <1>3, QueueStep
<1>5. DataOK'
  BY <1>1 DEF DriverWait, DataOK, LeaveSock, sock
<1>6. ControlOK'
  BY <1>1 DEF DriverWait, ControlOK, wake, drv, spool
<1>7. NoLeftover'
  BY <1>1, <1>4, SameLoops DEF DriverWait, drv, spool
<1> QED
  BY <1>4, <1>5, <1>6, <1>7, PartsNext DEF ListStep

\* A connection is accepted into a free Sock.
LEMMA SockAcceptKeeps ==
    ASSUME OwnerInv, NEW s \in Socks, SockAccept(s)
    PROVE  OwnerInv'
<1>1. ListsOK /\ DataOK /\ ControlOK /\ NoLeftover
  BY Parts
<1>2. /\ <<Driver, "free">> \in Places /\ Driver \in Threads
      /\ <<Driver, "fresh">> \in Places /\ <<Driver, "free">> # <<Driver, "fresh">> /\ \A t \in Threads : <<Driver, "fresh">> # <<t, "work">>
  BY PlaceNames, ThreadNames
<1>3. s \in at[<<Driver, "free">>] /\ at' = Move(s, <<Driver, "free">>, <<Driver, "fresh">>)
  BY DEF SockAccept, Free
<1>4. ListStep
  BY <1>1, <1>2, <1>3, MoveStep
<1>5. DataOK'
  BY <1>1 DEF SockAccept, DataOK
<1>6. ControlOK'
  BY <1>1 DEF SockAccept, ControlOK, wake, spool
<1>7. Work(Driver) = {} /\ dpc' # "start" /\ UNCHANGED spc
  BY <1>1 DEF SockAccept, At, NoLeftover, spool
<1>8. NoLeftover'
  BY <1>1, <1>4, <1>7, DriverLeaves
<1> QED
  BY <1>4, <1>5, <1>6, <1>8, PartsNext DEF ListStep

\* The accepted socket is read, queued or released.
LEMMA SockAcceptEndKeeps ==
    ASSUME OwnerInv, NEW s \in Socks, SockAcceptEnd(s)
    PROVE  OwnerInv'
<1>1. ListsOK /\ DataOK /\ ControlOK /\ NoLeftover
  BY Parts
<1>2. /\ <<Driver, "fresh">> \in Places /\ Driver \in Threads
      /\ <<Driver, "read">> \in Places /\ <<Driver, "fresh">> # <<Driver, "read">> /\ \A t \in Threads : <<Driver, "read">> # <<t, "work">>
      /\ <<Driver, "wait">> \in Places /\ <<Driver, "fresh">> # <<Driver, "wait">> /\ \A t \in Threads : <<Driver, "wait">> # <<t, "work">>
      /\ <<Pool, "queued">> \in Places /\ <<Driver, "fresh">> # <<Pool, "queued">> /\ \A t \in Threads : <<Pool, "queued">> # <<t, "work">>
      /\ <<Driver, "rel">> \in Places /\ <<Driver, "fresh">> # <<Driver, "rel">> /\ \A t \in Threads : <<Driver, "rel">> # <<t, "work">>
  BY PlaceNames, ThreadNames
<1>3. s \in at[<<Driver, "fresh">>]
  BY DEF SockAcceptEnd
<1>4. ListStep
  <2>1. CASE at' = Move(s, <<Driver, "fresh">>, <<Driver, "read">>)
    BY <1>1, <1>2, <1>3, <2>1, MoveStep
  <2>2. CASE SockQueue(Driver, s, <<Driver, "fresh">>)
    BY <1>1, <1>2, <1>3, <2>2, QueueStep
  <2>3. CASE SockRelease(Driver, s, <<Driver, "fresh">>)
    BY <1>1, <1>2, <1>3, <2>3, ReleaseStep
  <2> QED
    BY <2>1, <2>2, <2>3 DEF SockAcceptEnd
<1>5. DataOK'
  <2>1. CASE SockRelease(Driver, s, <<Driver, "fresh">>)
    BY <1>1, <1>2, <1>3, <2>1, ReleaseStep
  <2>2. CASE LeaveSock
    BY <1>1, <2>2 DEF DataOK, LeaveSock, sock
  <2>3. CASE SockPrepare(s)
    BY <1>1, <2>3 DEF DataOK, SockPrepare
  <2> QED
    BY <2>1, <2>2, <2>3 DEF SockAcceptEnd
<1>6. ControlOK'
  BY <1>1, SMT DEF SockAcceptEnd, ControlOK, wake, spool
<1>7. Work(Driver) = {} /\ dpc' # "start" /\ UNCHANGED spc
  BY <1>1 DEF SockAcceptEnd, At, NoLeftover, spool
<1>8. NoLeftover'
  BY <1>1, <1>4, <1>7, DriverLeaves
<1> QED
  BY <1>4, <1>5, <1>6, <1>8, PartsNext DEF ListStep

\* A socket given back is read again, released or drained.
LEMMA DriverReturnKeeps ==
    ASSUME OwnerInv, NEW s \in Socks, DriverReturn(s)
    PROVE  OwnerInv'
<1>1. ListsOK /\ DataOK /\ ControlOK /\ NoLeftover
  BY Parts
<1>2. /\ <<Driver, "work">> \in Places /\ Driver \in Threads
      /\ <<Driver, "read">> \in Places /\ <<Driver, "work">> # <<Driver, "read">> /\ \A t \in Threads : <<Driver, "read">> # <<t, "work">>
      /\ <<Driver, "close">> \in Places /\ <<Driver, "work">> # <<Driver, "close">> /\ \A t \in Threads : <<Driver, "close">> # <<t, "work">>
      /\ <<Driver, "rel">> \in Places /\ <<Driver, "work">> # <<Driver, "rel">> /\ \A t \in Threads : <<Driver, "rel">> # <<t, "work">>
  BY PlaceNames, ThreadNames
<1>3. s \in at[<<Driver, "work">>]
  BY DEF DriverReturn, Work
<1>4. ListStep /\ DataOK'
  <2>1. CASE SockRelease(Driver, s, <<Driver, "work">>)
    BY <1>1, <1>2, <1>3, <2>1, ReleaseStep
  <2>2. CASE /\ LeaveSock
             /\ \/ at' = Move(s, <<Driver, "work">>, <<Driver, "read">>)
                \/ at' = Move(s, <<Driver, "work">>, <<Driver, "close">>)
    <3>1. ListStep
      BY <1>1, <1>2, <1>3, <2>2, MoveStep
    <3>2. DataOK'
      BY <1>1, <2>2 DEF DataOK, LeaveSock, sock
    <3> QED
      BY <3>1, <3>2
  <2> QED
    BY <2>1, <2>2 DEF DriverReturn
<1>5. ControlOK'
  BY <1>1 DEF DriverReturn, ControlOK, wake, drv, spool
<1>6. NoLeftover'
  BY <1>1, <1>4, SameLoops DEF DriverReturn, drv, spool
<1> QED
  BY <1>4, <1>5, <1>6, PartsNext DEF ListStep

\* A released socket goes back to the free list.
LEMMA SockReleaseEndKeeps ==
    ASSUME OwnerInv, NEW t \in Threads, SockReleaseEnd(t)
    PROVE  OwnerInv'
<1>1. ListsOK /\ DataOK /\ ControlOK /\ NoLeftover
  BY Parts
<1>2. /\ <<t, "rel">> \in Places /\ <<Driver, "free">> \in Places /\ <<t, "rel">> # <<Driver, "free">>
      /\ \A u \in Threads : <<Driver, "free">> # <<u, "work">>
  BY PlaceNames
<1>3. PICK s \in at[<<t, "rel">>] :
          /\ queuesize' = tmp[t] - 1
          /\ req' = [req EXCEPT ![s] = FALSE]
          /\ at' = Move(s, <<t, "rel">>, <<Driver, "free">>)
          /\ tmp' = [tmp EXCEPT ![t] = 0]
          /\ UNCHANGED <<open, keep, wake, shutdown, drv, spool, mpc>>
  BY DEF SockReleaseEnd
<1>4. s \in Socks
  BY <1>1, <1>2, <1>3 DEF ListsOK
<1>5. ListStep
  BY <1>1, <1>2, <1>3, <1>4, MoveStep
<1>6. DataOK'
  <2>1. tmp[t] \in Int
    BY <1>1 DEF DataOK
  <2>2. queuesize' \in Int
    BY <1>3, <2>1, SMT
  <2>3. tmp' \in [Threads -> Int]
    BY <1>1, <1>3, SMT DEF DataOK
  <2>4. req' \in [Socks -> BOOLEAN]
    BY <1>1, <1>3 DEF DataOK
  <2>5. UNCHANGED <<open, keep>>
    BY <1>3
  <2> QED
    BY <1>1, <2>2, <2>3, <2>4, <2>5 DEF DataOK
<1>7. ControlOK'
  BY <1>1, <1>3 DEF ControlOK, wake, drv, spool
<1>8. NoLeftover'
  BY <1>1, <1>3, <1>5, SameLoops DEF drv, spool
<1> QED
  BY <1>5, <1>6, <1>7, <1>8, PartsNext DEF ListStep

\* The spooler starts on readPtr.
LEMMA SpoolerRoundKeeps ==
    ASSUME OwnerInv, NEW p \in Spoolers, SpoolerRound(p)
    PROVE  OwnerInv'
<1>1. ListsOK /\ DataOK /\ ControlOK /\ NoLeftover
  BY Parts
<1>2. Work(p) = {}
  BY <1>1 DEF SpoolerRound, SpoolerAt, NoLeftover
<1>3. at' = Take(<<p, "read">>, p)
  BY DEF SpoolerRound
<1>4. <<p, "read">> \in Places /\ p \in Threads
      /\ \A u \in Threads : <<p, "read">> # <<u, "work">>
  BY PlaceNames, ThreadNames
<1>5. TakeStep(p)
  BY <1>1, <1>2, <1>3, <1>4, TakeList
<1>6. DataOK'
  BY <1>1 DEF SpoolerRound, DataOK, LeaveSock, sock
<1>7. ControlOK'
  BY <1>1, SMT DEF SpoolerRound, ControlOK, wake, drv, Drained
<1>8. NoLeftover'
  BY <1>1, <1>5, ThreadNames DEF SpoolerRound, SpoolerAt, NoLeftover, TakeStep, ControlOK, drv
<1> QED
  BY <1>5, <1>6, <1>7, <1>8, PartsNext DEF TakeStep

\* The spooler starts on waitPtr.
LEMMA SpoolerReadEndKeeps ==
    ASSUME OwnerInv, NEW p \in Spoolers, SpoolerReadEnd(p)
    PROVE  OwnerInv'
<1>1. ListsOK /\ DataOK /\ ControlOK /\ NoLeftover
  BY Parts
<1>2. Work(p) = {}
  BY DEF SpoolerReadEnd
<1>3. at' = Take(<<p, "wait">>, p)
  BY DEF SpoolerReadEnd
<1>4. <<p, "wait">> \in Places /\ p \in Threads
      /\ \A u \in Threads : <<p, "wait">> # <<u, "work">>
  BY PlaceNames, ThreadNames
<1>5. TakeStep(p)
  BY <1>1, <1>2, <1>3, <1>4, TakeList
<1>6. DataOK'
  BY <1>1 DEF SpoolerReadEnd, DataOK, LeaveSock, sock
<1>7. ControlOK'
  BY <1>1 DEF SpoolerReadEnd, ControlOK, wake, drv
<1>8. NoLeftover'
  BY <1>1, <1>5, ThreadNames DEF SpoolerReadEnd, SpoolerAt, NoLeftover, TakeStep, ControlOK, drv
<1> QED
  BY <1>5, <1>6, <1>7, <1>8, PartsNext DEF TakeStep

\* A socket of the spooler is released, stays or is complete.
LEMMA SpoolerReadKeeps ==
    ASSUME OwnerInv, NEW p \in Spoolers, NEW s \in Socks, SpoolerRead(p, s)
    PROVE  OwnerInv'
<1>1. ListsOK /\ DataOK /\ ControlOK /\ NoLeftover
  BY Parts
<1>2. /\ <<p, "work">> \in Places /\ p \in Threads
      /\ <<p, "read">> \in Places /\ <<p, "work">> # <<p, "read">> /\ \A t \in Threads : <<p, "read">> # <<t, "work">>
      /\ <<p, "wait">> \in Places /\ <<p, "work">> # <<p, "wait">> /\ \A t \in Threads : <<p, "wait">> # <<t, "work">>
      /\ <<p, "rel">> \in Places /\ <<p, "work">> # <<p, "rel">> /\ \A t \in Threads : <<p, "rel">> # <<t, "work">>
  BY PlaceNames, ThreadNames
<1>3. s \in at[<<p, "work">>]
  BY DEF SpoolerRead, Work
<1>4. ListStep /\ DataOK'
  <2>1. CASE SockRelease(p, s, <<p, "work">>)
    BY <1>1, <1>2, <1>3, <2>1, ReleaseStep
  <2>2. CASE /\ LeaveSock
             /\ \/ at' = Move(s, <<p, "work">>, <<p, "read">>)
                \/ at' = Move(s, <<p, "work">>, <<p, "wait">>)
    <3>1. ListStep
      BY <1>1, <1>2, <1>3, <2>2, MoveStep
    <3>2. DataOK'
      BY <1>1, <2>2 DEF DataOK, LeaveSock, sock
    <3> QED
      BY <3>1, <3>2
  <2> QED
    BY <2>1, <2>2 DEF SpoolerRead
<1>5. ControlOK'
  BY <1>1 DEF SpoolerRead, ControlOK, wake, drv, spool
<1>6. NoLeftover'
  BY <1>1, <1>4, SameLoops DEF SpoolerRead, drv, spool
<1> QED
  BY <1>4, <1>5, <1>6, PartsNext DEF ListStep

\* A complete request of the spooler is offered to the pool.
LEMMA SpoolerWaitKeeps ==
    ASSUME OwnerInv, NEW p \in Spoolers, NEW s \in Socks, SpoolerWait(p, s)
    PROVE  OwnerInv'
<1>1. ListsOK /\ DataOK /\ ControlOK /\ NoLeftover
  BY Parts
<1>2. /\ <<p, "work">> \in Places /\ p \in Threads
      /\ <<p, "wait">> \in Places /\ <<p, "work">> # <<p, "wait">> /\ \A t \in Threads : <<p, "wait">> # <<t, "work">>
      /\ <<Pool, "queued">> \in Places /\ <<p, "work">> # <<Pool, "queued">> /\ \A t \in Threads : <<Pool, "queued">> # <<t, "work">>
  BY PlaceNames, ThreadNames
<1>3. s \in at[<<p, "work">>] /\ SockQueue(p, s, <<p, "work">>)
  BY DEF SpoolerWait, Work
<1>4. ListStep
  BY <1>1, <1>2, <1>3, QueueStep
<1>5. DataOK'
  BY <1>1 DEF SpoolerWait, DataOK, LeaveSock, sock
<1>6. ControlOK'
  BY <1>1 DEF SpoolerWait, ControlOK, wake, drv, spool
<1>7. NoLeftover'
  BY <1>1, <1>4, SameLoops DEF SpoolerWait, drv, spool
<1> QED
  BY <1>4, <1>5, <1>6, <1>7, PartsNext DEF ListStep

\* The spooler takes the submitted sockets, or leaves them.
LEMMA SpoolerCollectKeeps ==
    ASSUME OwnerInv, NEW p \in Spoolers, SpoolerCollect(p)
    PROVE  OwnerInv'
<1>1. ListsOK /\ DataOK /\ ControlOK /\ NoLeftover
  BY Parts
<1>2. /\ <<p, "read">> \in Places /\ <<p, "queue">> \in Places /\ <<p, "read">> # <<p, "queue">>
      /\ \A t \in Threads : <<p, "read">> # <<t, "work">>
  BY PlaceNames, ThreadNames
<1>3. ListStep
  <2>1. CASE UNCHANGED at
    BY <1>1, <2>1, SameLists
  <2>2. CASE at' = [at EXCEPT ![<<p, "read">>] = @ \cup at[<<p, "queue">>], ![<<p, "queue">>] = {}]
    BY <1>1, <1>2, <2>2, MergeStep
  <2> QED
    BY <2>1, <2>2 DEF SpoolerCollect
<1>4. DataOK'
  BY <1>1 DEF SpoolerCollect, DataOK, LeaveSock, sock
<1>5. ControlOK'
  BY <1>1 DEF SpoolerCollect, ControlOK, wake, drv
<1>6. Work(p) = {}
  BY DEF SpoolerCollect
<1>7. NoLeftover'
  BY <1>1, <1>3, <1>6, ThreadNames
     DEF SpoolerCollect, SpoolerAt, NoLeftover, ListStep, ControlOK, drv
<1> QED
  BY <1>3, <1>4, <1>5, <1>7, PartsNext DEF ListStep

-----------------------------------------------------------------------------

\* OwnerInv holds when the driver is created: every Sock is free.
LEMMA OwnerInit == Init => OwnerInv
<1> SUFFICES ASSUME Init PROVE OwnerInv
  OBVIOUS
<1>1. <<Driver, "free">> \in Places /\ Driver \in Threads
  BY PlaceNames, ThreadNames
<1>2. ListsOK
  BY <1>1 DEF Init, ListsOK, OneOwner
<1>3. DataOK
  BY SMT DEF Init, DataOK
<1>4. ControlOK
  BY DEF Init, ControlOK
<1>5. NoLeftover
  BY PlaceNames, ThreadNames DEF Init, NoLeftover, Work
<1> QED
  BY <1>2, <1>3, <1>4, <1>5, Parts

\* A step that changes no variable keeps OwnerInv.
LEMMA OwnerStutter == OwnerInv /\ UNCHANGED vars => OwnerInv'
BY SMT DEF vars, sock, drv, wake, spool, OwnerInv, TypeOK, OneOwner, NoLeftover, Work

\* OwnerInv is inductive.
LEMMA OwnerStep == OwnerInv /\ Next => OwnerInv'
<1> SUFFICES ASSUME OwnerInv, Next PROVE OwnerInv'
  OBVIOUS
<1>1. CASE DriverThread
  <2>1. CASE DriverStart \/ DriverPoll \/ DriverDrainEnd \/ DriverReadEnd \/ DriverCollect
    BY <2>1, DriverStartKeeps, DriverPollKeeps, DriverDrainEndKeeps, DriverReadEndKeeps,
       DriverCollectKeeps
  <2>2. CASE DriverWaitEnd \/ SockAcceptCount \/ DriverAcceptEnd \/ DriverReturnEnd
    BY <2>2, DriverGoesOnKeeps
  <2>3. CASE SpoolerTrigger
    BY <2>3, TriggerKeeps
  <2>4. CASE SockReleaseEnd(Driver)
    BY <2>4, SockReleaseEndKeeps, ThreadNames
  <2>5. ASSUME NEW s \in Socks,
               \/ DriverDrain(s) \/ DriverRead(s) \/ DriverWait(s)
               \/ SockAcceptEnd(s) \/ DriverReturn(s)
        PROVE  OwnerInv'
    BY <2>5, DriverDrainKeeps, DriverReadKeeps, DriverWaitKeeps, SockAcceptEndKeeps,
       DriverReturnKeeps
  <2> QED
    BY <1>1, <2>1, <2>2, <2>3, <2>4, <2>5 DEF DriverThread
<1>2. ASSUME NEW p \in Spoolers, SpoolerThread(p) \/ SpoolerEvent(p) \/ NsStopSpoolers(p)
      PROVE  OwnerInv'
  <2>1. CASE SpoolerPoll(p) \/ SpoolerEvent(p)
    BY <2>1, SpoolerRoundKeeps DEF SpoolerPoll, SpoolerEvent
  <2>2. CASE SpoolerReadEnd(p) \/ SpoolerCollect(p)
    BY <2>2, SpoolerReadEndKeeps, SpoolerCollectKeeps
  <2>3. CASE SockReleaseEnd(p)
    BY <2>3, SockReleaseEndKeeps, ThreadNames
  <2>4. ASSUME NEW s \in Socks, SpoolerRead(p, s) \/ SpoolerWait(p, s)
        PROVE  OwnerInv'
    BY <2>4, SpoolerReadKeeps, SpoolerWaitKeeps
  <2>5. CASE NsStopSpoolers(p)
    BY <2>5, TriggerKeeps
  <2> QED
    BY <1>2, <2>1, <2>2, <2>3, <2>4, <2>5 DEF SpoolerThread
<1>3. ASSUME NEW s \in Socks,
             \/ SockAccept(s) \/ NsGetRequest(s) \/ NsSockClose(s)
             \/ \E k \in BOOLEAN : SockClose(s, k)
      PROVE  OwnerInv'
  BY <1>3, SockAcceptKeeps, NsGetRequestKeeps, NsSockCloseKeeps, SockCloseKeeps
<1>4. CASE SockTrigger \/ NsWakeupDriver \/ NsStopDrivers
  BY <1>4, TriggerKeeps
<1> QED
  BY <1>1, <1>2, <1>3, <1>4 DEF Next

\* For any number of sockets and spoolers, any limits, and driver modules of
\* either kind: a Sock is always in exactly one list of the driver, a spooler
\* or the pool, so nextPtr is never shared by two lists and no socket is lost
\* (DriverThread, SpoolerThread, SockSpoolerQueue, NsSockClose, SockRelease).
THEOREM OneOwnerAlways == Spec => []OwnerInv
<1>1. Init => OwnerInv
  BY OwnerInit
<1>2. OwnerInv /\ [Next]_vars => OwnerInv'
  BY OwnerStep, OwnerStutter
<1> QED
  BY <1>1, <1>2, PTL DEF Spec

-----------------------------------------------------------------------------
(***************************************************************************)
(* Spec => []TriggerComing: the driver never sleeps on sockets that were   *)
(* given back, or on a request to stop, without a byte on its way.         *)
(* Spec => []SpoolerTriggerComing: nor does a spooler on what it was sent. *)
(* Spec => []QueueSize without spoolers: the count of sockets is exact.    *)
(***************************************************************************)

\* TriggerComing must hold from the moment the driver has taken the list and
\* read the flags (DriverCollect), not only in poll().  A driver that has read
\* the stop flag will not poll again.
TriggerInv ==
    /\ dpc \in {"poll", "return"} /\ (Closed # {} \/ (shutdown /\ ~(dpc = "return" /\ stopping)))
            => trig + pend > 0
    /\ dpc = "start" => /\ ~shutdown
                        /\ \A q \in Places : q # <<Driver, "free">> => at[q] = {}

\* Nothing to show while the driver is in another part of its loop.
LEMMA Elsewhere == dpc' \notin {"start", "poll", "return"} => TriggerInv'
BY DEF TriggerInv

\* A step that neither moves the driver on nor takes a byte away.
LEMMA TriggerFrame ==
    /\ TriggerInv /\ UNCHANGED <<dpc, shutdown, stopping, Closed>>
    /\ {trig, pend, trig', pend'} \subseteq Nat /\ trig' + pend' >= trig + pend
    /\ (dpc = "start" => UNCHANGED at)
    => TriggerInv'
BY SMT DEF TriggerInv, Closed

\* Lists other than closePtr of the driver structure.
LEMMA ClosedMove ==
    ASSUME ListsOK, NEW s, NEW from \in Places, NEW to \in Places,
           from # <<Driver, "closed">>, to # <<Driver, "closed">>, at' = Move(s, from, to)
    PROVE  UNCHANGED Closed
BY PlaceNames DEF ListsOK, Move, Closed

\* The part of OwnerInv that the steps below use.
LEMMA Numbers == OwnerInv => trig \in Nat /\ pend \in Nat /\ ListsOK /\ NoLeftover
BY DEF OwnerInv, TypeOK, ListsOK

\* The driver anywhere between poll() and DriverCollect.
LEMMA BusyRound ==
    \/ DriverPoll \/ DriverDrainEnd \/ DriverReadEnd \/ DriverWaitEnd \/ SockAcceptCount
    \/ DriverAcceptEnd
    \/ \E s \in Socks : \/ DriverDrain(s) \/ DriverRead(s) \/ DriverWait(s)
                        \/ SockAccept(s) \/ SockAcceptEnd(s)
    => TriggerInv'
<1>1. DriverPoll \/ DriverDrainEnd \/ DriverReadEnd \/ DriverWaitEnd \/ SockAcceptCount
      \/ DriverAcceptEnd => TriggerInv'
  BY Elsewhere DEF DriverPoll, DriverDrainEnd, DriverReadEnd, DriverWaitEnd, SockAcceptCount,
                   DriverAcceptEnd
<1>2. ASSUME NEW s \in Socks, DriverDrain(s) \/ DriverRead(s) \/ DriverWait(s)
      PROVE  TriggerInv'
  BY <1>2, Elsewhere DEF DriverDrain, DriverRead, DriverWait, At, drv
<1>3. ASSUME NEW s \in Socks, SockAccept(s) \/ SockAcceptEnd(s)
      PROVE  TriggerInv'
  BY <1>3, Elsewhere DEF SockAccept, SockAcceptEnd
<1> QED
  BY <1>1, <1>2, <1>3

\* The first round: nothing has been given back and nobody told it to stop.
LEMMA FirstRound == TriggerInv /\ DriverStart => TriggerInv'
BY PlaceNames, SMT DEF DriverStart, TriggerInv, Closed

\* DriverCollect empties the list and reads the flags under one lock.
LEMMA CollectTriggers == OwnerInv /\ DriverCollect => TriggerInv'
<1> SUFFICES ASSUME OwnerInv, DriverCollect PROVE TriggerInv'
  OBVIOUS
<1>1. Closed' = {}
  BY Numbers, PlaceNames, ThreadNames DEF DriverCollect, Take, Closed, ListsOK
<1> QED
  BY <1>1 DEF DriverCollect, TriggerInv

\* The driver goes back to poll() only if it has not read the stop flag.
LEMMA ReturnEndTriggers == TriggerInv /\ DriverReturnEnd => TriggerInv'
BY SMT DEF DriverReturnEnd, At, TriggerInv, Closed, wake

\* Sockets that return to the driver's own lists.
LEMMA ReturnTriggers ==
    ASSUME OwnerInv, TriggerInv, NEW s \in Socks, DriverReturn(s)
    PROVE  TriggerInv'
<1>1. PICK to \in {<<Driver, "read">>, <<Driver, "rel">>, <<Driver, "close">>} :
          at' = Move(s, <<Driver, "work">>, to)
  BY DEF DriverReturn, SockRelease
<1>2. to \in Places /\ to # <<Driver, "closed">> /\ <<Driver, "work">> \in Places
  <2>1. to = <<Driver, "read">> \/ to = <<Driver, "rel">> \/ to = <<Driver, "close">>
    BY <1>1
  <2>2. {<<Driver, "read">>, <<Driver, "rel">>, <<Driver, "close">>, <<Driver, "work">>} \subseteq Places
    BY PlaceNames, ThreadNames
  <2> QED
    BY <2>1, <2>2, SMT
<1>3. UNCHANGED Closed
  BY <1>1, <1>2, ClosedMove, Numbers
<1>4. UNCHANGED <<dpc, shutdown, stopping, trig, pend>> /\ dpc # "start"
  BY DEF DriverReturn, At, wake, drv
<1> QED
  BY <1>3, <1>4, TriggerFrame, Numbers, SMT

\* The end of SockRelease, in the driver or in a spooler.
LEMMA ReleaseEndTriggers ==
    ASSUME OwnerInv, TriggerInv, NEW t \in Threads, SockReleaseEnd(t)
    PROVE  TriggerInv'
<1>1. <<t, "rel">> \in Places /\ <<Driver, "free">> \in Places
  BY PlaceNames
<1>2. PICK s \in at[<<t, "rel">>] :
          at' = Move(s, <<t, "rel">>, <<Driver, "free">>) /\ UNCHANGED <<wake, shutdown, drv>>
  BY DEF SockReleaseEnd
<1>3. UNCHANGED Closed
  BY <1>1, <1>2, ClosedMove, Numbers
<1>4. dpc # "start"
  BY <1>1, <1>2 DEF TriggerInv
<1>5. UNCHANGED <<dpc, shutdown, stopping, trig, pend>>
  BY <1>2 DEF wake, drv
<1> QED
  BY <1>3, <1>4, <1>5, TriggerFrame, Numbers, SMT

\* Steps of a spooler: it runs only once the driver has started it, and its
\* lists are not the driver's.
LEMMA SpoolerTriggers ==
    ASSUME OwnerInv, TriggerInv, NEW p \in Spoolers,
           \/ SpoolerRound(p) \/ SpoolerReadEnd(p) \/ SpoolerCollect(p)
           \/ \E s \in Socks : SpoolerRead(p, s) \/ SpoolerWait(p, s)
    PROVE  TriggerInv'
<1>1. dpc # "start"
  BY Numbers DEF NoLeftover, SpoolerRound, SpoolerReadEnd, SpoolerCollect, SpoolerRead,
                 SpoolerWait, SpoolerAt
<1>2. UNCHANGED <<dpc, shutdown, stopping, trig, pend>>
  BY DEF SpoolerRound, SpoolerReadEnd, SpoolerCollect, SpoolerRead, SpoolerWait, wake, drv
<1>3. UNCHANGED Closed
  <2>1. CASE SpoolerRound(p)
    BY <2>1, Numbers, PlaceNames, ThreadNames DEF SpoolerRound, Take, Closed, ListsOK
  <2>2. CASE SpoolerReadEnd(p)
    BY <2>2, Numbers, PlaceNames, ThreadNames DEF SpoolerReadEnd, Take, Closed, ListsOK
  <2>3. CASE SpoolerCollect(p)
    BY <2>3, Numbers, PlaceNames, ThreadNames DEF SpoolerCollect, Closed, ListsOK
  <2>4. ASSUME NEW s \in Socks, SpoolerRead(p, s) \/ SpoolerWait(p, s)
        PROVE  UNCHANGED Closed
    <3>1. PICK to \in {<<p, "read">>, <<p, "wait">>, <<p, "rel">>, <<Pool, "queued">>} :
              at' = Move(s, <<p, "work">>, to)
      BY <2>4 DEF SpoolerRead, SpoolerWait, SockRelease, SockQueue
    <3>2. to \in Places /\ to # <<Driver, "closed">> /\ <<p, "work">> \in Places
      <4>1. to = <<p, "read">> \/ to = <<p, "wait">> \/ to = <<p, "rel">> \/ to = <<Pool, "queued">>
        BY <3>1
      <4>2. {<<p, "read">>, <<p, "wait">>, <<p, "rel">>, <<p, "work">>, <<Pool, "queued">>} \subseteq Places
        BY PlaceNames, ThreadNames
      <4> QED
        BY <4>1, <4>2, SMT
    <3> QED
      BY <3>1, <3>2, ClosedMove, Numbers
  <2> QED
    BY <2>1, <2>2, <2>3, <2>4
<1> QED
  BY <1>1, <1>2, <1>3, TriggerFrame, Numbers, SMT

\* A connection thread takes a socket, and closes or keeps it.
LEMMA HolderTriggers ==
    ASSUME OwnerInv, TriggerInv, NEW s \in Socks,
           NsGetRequest(s) \/ \E k \in BOOLEAN : SockClose(s, k)
    PROVE  TriggerInv'
<1>1. PICK from \in {<<Pool, "queued">>, <<Pool, "running">>},
           to \in {<<Pool, "running">>, <<Pool, "closing">>} :
          s \in at[from] /\ at' = Move(s, from, to)
  BY DEF NsGetRequest, SockClose, Queued, Running
<1>2. /\ from \in Places /\ from # <<Driver, "closed">> /\ from # <<Driver, "free">>
      /\ to \in Places /\ to # <<Driver, "closed">>
  BY PlaceNames, SMT
<1>3. UNCHANGED Closed
  BY <1>1, <1>2, ClosedMove, Numbers
<1>4. dpc # "start"
  BY <1>1, <1>2 DEF TriggerInv
<1>5. UNCHANGED <<dpc, shutdown, stopping, trig, pend>>
  BY DEF NsGetRequest, SockClose, wake, drv
<1> QED
  BY <1>3, <1>4, <1>5, TriggerFrame, Numbers, SMT

\* A socket is given back: the first one on the list announces a byte, and
\* the byte of an earlier one is still to come or to be read.
LEMMA GiveBackTriggers ==
    ASSUME OwnerInv, TriggerInv, NEW s \in Socks, NsSockClose(s)
    PROVE  TriggerInv'
<1>1. dpc # "start"
  BY PlaceNames DEF NsSockClose, Closing, TriggerInv
<1>2. UNCHANGED <<dpc, shutdown, stopping, trig>> /\ pend' = IF Closed = {} THEN pend + 1 ELSE pend
  BY DEF NsSockClose, drv
<1>3. dpc \in {"poll", "return"} => trig' + pend' > 0
  BY <1>2, Numbers, SMT DEF TriggerInv
<1> QED
  BY <1>1, <1>2, <1>3 DEF TriggerInv

\* Bytes that are sent, and requests to stop.
LEMMA ByteTriggers ==
    ASSUME OwnerInv, TriggerInv,
           \/ SpoolerTrigger \/ SockTrigger \/ NsWakeupDriver \/ NsStopDrivers
           \/ \E p \in Spoolers : NsStopSpoolers(p)
    PROVE  TriggerInv'
<1>1. CASE NsStopDrivers
  <2>1. trig' + pend' > 0 /\ dpc' # "start"
    BY <1>1, Numbers, SMT DEF NsStopDrivers, drv
  <2> QED
    BY <2>1 DEF TriggerInv
<1>2. CASE SpoolerTrigger \/ SockTrigger \/ NsWakeupDriver \/ \E p \in Spoolers : NsStopSpoolers(p)
  <2>1. UNCHANGED <<dpc, shutdown, stopping, at>>
    BY <1>2 DEF SpoolerTrigger, SockTrigger, NsWakeupDriver, NsStopSpoolers, drv
  <2>2. {trig', pend'} \subseteq Nat /\ trig' + pend' >= trig + pend
    BY <1>2, Numbers, SMT DEF SpoolerTrigger, SockTrigger, NsWakeupDriver, NsStopSpoolers, wake
  <2> QED
    BY <2>1, <2>2, TriggerFrame, Numbers DEF Closed
<1> QED
  BY <1>1, <1>2

-----------------------------------------------------------------------------

\* TriggerInv is inductive relative to OwnerInv.
LEMMA TriggerStep == OwnerInv /\ TriggerInv /\ Next => TriggerInv'
<1> SUFFICES ASSUME OwnerInv, TriggerInv, Next PROVE TriggerInv'
  OBVIOUS
<1>1. CASE DriverThread
  <2>1. CASE DriverStart \/ DriverCollect \/ DriverReturnEnd \/ SpoolerTrigger
    BY <2>1, FirstRound, CollectTriggers, ReturnEndTriggers, ByteTriggers
  <2>2. CASE SockReleaseEnd(Driver)
    BY <2>2, ReleaseEndTriggers, ThreadNames
  <2>3. CASE \E s \in Socks : DriverReturn(s)
    BY <2>3, ReturnTriggers
  <2> QED
    BY <1>1, <2>1, <2>2, <2>3, BusyRound DEF DriverThread
<1>2. ASSUME NEW p \in Spoolers, SpoolerThread(p) \/ SpoolerEvent(p) \/ NsStopSpoolers(p)
      PROVE  TriggerInv'
  <2>1. CASE SockReleaseEnd(p)
    BY <2>1, ReleaseEndTriggers, ThreadNames
  <2>2. CASE NsStopSpoolers(p)
    BY <2>2, ByteTriggers
  <2> QED
    BY <1>2, <2>1, <2>2, SpoolerTriggers DEF SpoolerThread, SpoolerPoll, SpoolerEvent
<1>3. ASSUME NEW s \in Socks,
             \/ SockAccept(s) \/ NsGetRequest(s) \/ NsSockClose(s)
             \/ \E k \in BOOLEAN : SockClose(s, k)
      PROVE  TriggerInv'
  BY <1>3, BusyRound, HolderTriggers, GiveBackTriggers
<1>4. CASE SockTrigger \/ NsWakeupDriver \/ NsStopDrivers
  BY <1>4, ByteTriggers
<1> QED
  BY <1>1, <1>2, <1>3, <1>4 DEF Next

\* TriggerInv holds in every state.
LEMMA TriggerInvAlways == Spec => []TriggerInv
<1>1. Init => TriggerInv
  BY PlaceNames DEF Init, TriggerInv
<1>2. OwnerInv /\ TriggerInv /\ [Next]_vars => TriggerInv'
  <2>1. TriggerInv /\ UNCHANGED vars => TriggerInv'
    BY SMT DEF TriggerInv, vars, wake, drv, Closed
  <2> QED
    BY <2>1, TriggerStep
<1> QED
  BY <1>1, <1>2, OneOwnerAlways, PTL DEF Spec

\* For any number of sockets, spoolers and connection threads: a driver that
\* is in poll() while sockets are on its close list, or after NsStopDrivers,
\* has a trigger byte or a thread about to send one, although only the first
\* socket on the list sends a byte and does so after the unlock (NsSockClose,
\* SockTrigger, DriverThread).
THEOREM NoMissedTrigger == Spec => []TriggerComing
<1>1. TriggerInv => TriggerComing
  BY DEF TriggerInv, TriggerComing
<1> QED
  BY <1>1, TriggerInvAlways, PTL

-----------------------------------------------------------------------------
(* The trigger bytes of the spoolers.                                       *)

\* A spooler is told to stop only after the driver has started, and so has a
\* pipe, or will never run.
SpoolInv ==
    /\ SpoolerTriggerComing
    /\ dpc = "start" => mpc = "up"
    /\ mpc = "up" => \A p \in Spoolers : ~sshut[p]

\* A step after which every spooler in poll() finds what it found before.
LEMMA SpoolFrame ==
    ASSUME SpoolInv, UNCHANGED <<sshut, strig, toTrig, mpc>>, dpc' = "start" => dpc = "start",
           \A p \in Spoolers : spc'[p] = "poll" =>
                /\ spc[p] = "poll"
                /\ at'[<<p, "queue">>] = at[<<p, "queue">>]
                /\ at'[<<p, "wait">>] = at[<<p, "wait">>]
    PROVE  SpoolInv'
BY DEF SpoolInv, SpoolerTriggerComing

\* A socket moves between lists that are no queue or wait list of p.
LEMMA SpoolMove ==
    ASSUME ListsOK, NEW p \in Spoolers, NEW s, NEW from \in Places, NEW to \in Places,
           from # <<p, "queue">>, from # <<p, "wait">>, to # <<p, "queue">>, to # <<p, "wait">>,
           at' = Move(s, from, to)
    PROVE  at'[<<p, "queue">>] = at[<<p, "queue">>] /\ at'[<<p, "wait">>] = at[<<p, "wait">>]
BY PlaceNames, ThreadNames DEF ListsOK, Move

\* The driver starts the spoolers: nobody has sent them anything yet.
LEMMA StartSpools == TriggerInv /\ SpoolInv /\ DriverStart => SpoolInv'
<1> SUFFICES ASSUME TriggerInv, SpoolInv, DriverStart PROVE SpoolInv'
  OBVIOUS
<1>1. \A p \in Spoolers : at'[<<p, "queue">>] = {} /\ ~sshut'[p]
  BY PlaceNames, OwnersDiffer DEF DriverStart, TriggerInv, SpoolInv
<1> QED
  BY <1>1 DEF DriverStart, SpoolInv, SpoolerTriggerComing

\* The driver moves sockets between its own lists and to the pool.
LEMMA DriverMovesSpool ==
    ASSUME OwnerInv, SpoolInv, NEW s \in Socks,
           \/ DriverDrain(s) \/ DriverWait(s) \/ SockAccept(s) \/ SockAcceptEnd(s)
           \/ DriverReturn(s)
    PROVE  SpoolInv'
<1>1. UNCHANGED <<spc, sshut, strig, toTrig, mpc>> /\ dpc' # "start"
  BY DEF DriverDrain, DriverWait, SockAccept, SockAcceptEnd, DriverReturn, At, drv, spool
<1>2. PICK from \in {<<Driver, "work">>, <<Driver, "free">>, <<Driver, "fresh">>},
           to \in {<<Driver, "rel">>, <<Driver, "close">>, <<Driver, "wait">>,
                   <<Driver, "fresh">>, <<Driver, "read">>, <<Pool, "queued">>} :
          at' = Move(s, from, to)
  BY DEF DriverDrain, DriverWait, SockAccept, SockAcceptEnd, DriverReturn, SockRelease, SockQueue
<1>3. from \in Places /\ to \in Places
  <2>1. {<<Driver, "work">>, <<Driver, "free">>, <<Driver, "fresh">>, <<Driver, "rel">>,
         <<Driver, "close">>, <<Driver, "wait">>, <<Driver, "read">>, <<Pool, "queued">>}
           \subseteq Places
    BY PlaceNames, ThreadNames
  <2> QED
    BY <1>2, <2>1
<1>4. \A p \in Spoolers : /\ from # <<p, "queue">> /\ from # <<p, "wait">>
                          /\ to # <<p, "queue">> /\ to # <<p, "wait">>
  BY <1>2, ThreadNames, SMT
<1>5. \A p \in Spoolers : /\ at'[<<p, "queue">>] = at[<<p, "queue">>]
                          /\ at'[<<p, "wait">>] = at[<<p, "wait">>]
  BY <1>2, <1>3, <1>4, SpoolMove, Numbers
<1> QED
  BY <1>1, <1>5, SpoolFrame

\* The driver's inner loops start, or end.
LEMMA DriverGoesOnSpool ==
    ASSUME OwnerInv, SpoolInv,
           \/ DriverPoll \/ DriverDrainEnd \/ DriverReadEnd \/ DriverCollect
           \/ DriverWaitEnd \/ SockAcceptCount \/ DriverAcceptEnd \/ DriverReturnEnd
    PROVE  SpoolInv'
<1>1. UNCHANGED <<spc, sshut, strig, toTrig, mpc>> /\ dpc' # "start"
  BY DEF DriverPoll, DriverDrainEnd, DriverReadEnd, DriverCollect, DriverWaitEnd, SockAcceptCount,
         DriverAcceptEnd, DriverReturnEnd, At, drv, spool
<1>2. CASE UNCHANGED at
  BY <1>1, <1>2, SpoolFrame
<1>3. CASE \E name \in {"close", "read", "wait", "closed"} : at' = Take(<<Driver, name>>, Driver)
  <2>1. \A p \in Spoolers : /\ at'[<<p, "queue">>] = at[<<p, "queue">>]
                            /\ at'[<<p, "wait">>] = at[<<p, "wait">>]
    BY <1>3, PlaceNames, ThreadNames, Numbers DEF Take, ListsOK
  <2> QED
    BY <1>1, <2>1, SpoolFrame
<1> QED
  BY <1>2, <1>3 DEF DriverPoll, DriverDrainEnd, DriverReadEnd, DriverCollect, DriverWaitEnd,
                    SockAcceptCount, DriverAcceptEnd, DriverReturnEnd

\* The driver hands a socket to a spooler; only the first one in the queue is
\* announced, which the driver does before anything else.
LEMMA DriverReadSpool ==
    ASSUME OwnerInv, SpoolInv, NEW s \in Socks, DriverRead(s)
    PROVE  SpoolInv'
<1>1. UNCHANGED <<spc, sshut, strig, mpc>> /\ dpc' # "start" /\ toTrig = None
  BY ThreadNames DEF DriverRead, At, Busy, spool
<1>2. <<Driver, "work">> \in Places
  BY PlaceNames, ThreadNames
<1>3. CASE /\ UNCHANGED toTrig
           /\ \E to \in {<<Driver, "rel">>, <<Driver, "read">>, <<Driver, "wait">>, <<Pool, "queued">>} :
                 at' = Move(s, <<Driver, "work">>, to)
  <2>1. PICK to \in {<<Driver, "rel">>, <<Driver, "read">>, <<Driver, "wait">>, <<Pool, "queued">>} :
            at' = Move(s, <<Driver, "work">>, to)
    BY <1>3
  <2>2. to \in Places
    <3>1. {<<Driver, "rel">>, <<Driver, "read">>, <<Driver, "wait">>, <<Pool, "queued">>} \subseteq Places
      BY PlaceNames, ThreadNames
    <3> QED
      BY <2>1, <3>1
  <2>3. \A p \in Spoolers : to # <<p, "queue">> /\ to # <<p, "wait">>
    BY <2>1, ThreadNames, SMT
  <2>4. \A p \in Spoolers : /\ at'[<<p, "queue">>] = at[<<p, "queue">>]
                            /\ at'[<<p, "wait">>] = at[<<p, "wait">>]
    BY <1>2, <2>1, <2>2, <2>3, SpoolMove, Numbers
  <2> QED
    BY <1>1, <1>3, <2>4, SpoolFrame
<1>4. CASE SockSpoolerQueue(s, <<Driver, "work">>)
  <2>1. PICK q \in Spoolers :
            /\ at' = Move(s, <<Driver, "work">>, <<q, "queue">>)
            /\ toTrig' = IF at[<<q, "queue">>] = {} THEN q ELSE None
    BY <1>4 DEF SockSpoolerQueue
  <2>2. \A p \in Spoolers : at'[<<p, "wait">>] = at[<<p, "wait">>]
                            /\ (p # q => at'[<<p, "queue">>] = at[<<p, "queue">>])
    BY <1>2, <2>1, PlaceNames, ThreadNames, Numbers DEF ListsOK, Move
  <2>3. ASSUME NEW p \in Spoolers, spc'[p] = "poll", at'[<<p, "queue">>] # {}
        PROVE  strig'[p] > 0 \/ toTrig' = p \/ at'[<<p, "wait">>] # {}
    BY <1>1, <2>1, <2>2, <2>3, NoneIsNoSpooler DEF SpoolInv, SpoolerTriggerComing
  <2> QED
    BY <1>1, <2>3 DEF SpoolInv, SpoolerTriggerComing
<1> QED
  BY <1>3, <1>4 DEF DriverRead, SockRelease, SockQueue

\* The spooler looks at its lists between two polls; it goes back to poll()
\* with an empty queue or requests that wait, and without the stop flag.
LEMMA SpoolerSpool ==
    ASSUME OwnerInv, SpoolInv, NEW p \in Spoolers,
           \/ SpoolerRound(p) \/ SpoolerReadEnd(p) \/ SpoolerCollect(p)
           \/ \E s \in Socks : SpoolerRead(p, s) \/ SpoolerWait(p, s)
    PROVE  SpoolInv'
<1>1. UNCHANGED <<sshut, toTrig, mpc, dpc>> /\ spc[p] \in {"poll", "read", "wait"}
  BY DEF SpoolerRound, SpoolerReadEnd, SpoolerCollect, SpoolerRead, SpoolerWait, SpoolerAt, drv, spool
<1>2. /\ spc \in [Spoolers -> {"off", "poll", "read", "wait", "stopped"}]
      /\ strig \in [Spoolers -> Nat] /\ ListsOK
  BY Numbers DEF OwnerInv, TypeOK
<1>3. \A q \in Spoolers : q # p => /\ spc'[q] = spc[q] /\ strig'[q] = strig[q]
                                   /\ at'[<<q, "queue">>] = at[<<q, "queue">>]
                                   /\ at'[<<q, "wait">>] = at[<<q, "wait">>]
  <2>1. \A q \in Spoolers : q # p => spc'[q] = spc[q] /\ strig'[q] = strig[q]
    BY <1>2 DEF SpoolerRound, SpoolerReadEnd, SpoolerCollect, SpoolerRead, SpoolerWait, spool
  <2>2. CASE SpoolerRound(p)
    BY <2>1, <2>2, <1>2, PlaceNames, ThreadNames DEF SpoolerRound, Take, ListsOK
  <2>3. CASE SpoolerReadEnd(p)
    BY <2>1, <2>3, <1>2, PlaceNames, ThreadNames DEF SpoolerReadEnd, Take, ListsOK
  <2>4. CASE SpoolerCollect(p)
    BY <2>1, <2>4, <1>2, PlaceNames, ThreadNames DEF SpoolerCollect, ListsOK
  <2>5. ASSUME NEW s \in Socks, SpoolerRead(p, s) \/ SpoolerWait(p, s),
               NEW q \in Spoolers, q # p
        PROVE  at'[<<q, "queue">>] = at[<<q, "queue">>] /\ at'[<<q, "wait">>] = at[<<q, "wait">>]
    BY <2>5, <1>2, PlaceNames, ThreadNames
       DEF SpoolerRead, SpoolerWait, SockRelease, SockQueue, Move, ListsOK
  <2> QED
    BY <2>1, <2>2, <2>3, <2>4, <2>5
<1>4. spc'[p] = "poll" => /\ ~sshut'[p]
                          /\ at'[<<p, "queue">>] # {} => at'[<<p, "wait">>] # {}
  <2>1. CASE SpoolerCollect(p)
    <3>1. at' = IF at[<<p, "wait">>] = {}
                THEN [at EXCEPT ![<<p, "read">>] = @ \cup at[<<p, "queue">>], ![<<p, "queue">>] = {}]
                ELSE at
      BY <2>1 DEF SpoolerCollect
    <3>2. at'[<<p, "queue">>] # {} => at'[<<p, "wait">>] # {}
      BY <3>1, <1>2, PlaceNames, ThreadNames DEF ListsOK
    <3> QED
      BY <1>2, <2>1, <3>2 DEF SpoolerCollect
  <2>2. CASE spc'[p] # "poll"
    BY <2>2
  <2> QED
    BY <1>2, <2>1, <2>2
       DEF SpoolerRound, SpoolerReadEnd, SpoolerRead, SpoolerWait, SpoolerAt, spool
<1> QED
  BY <1>1, <1>3, <1>4 DEF SpoolInv, SpoolerTriggerComing

\* The end of SockRelease, and the steps of the threads that hold a socket.
LEMMA OthersSpool ==
    ASSUME OwnerInv, TriggerInv, SpoolInv,
           \/ \E t \in Threads : SockReleaseEnd(t)
           \/ \E s \in Socks : \/ NsGetRequest(s) \/ NsSockClose(s)
                               \/ \E k \in BOOLEAN : SockClose(s, k)
    PROVE  SpoolInv'
<1>1. UNCHANGED <<spc, sshut, strig, toTrig, mpc, dpc>>
  BY DEF SockReleaseEnd, NsGetRequest, NsSockClose, SockClose, drv, spool
<1>2. ASSUME NEW p \in Spoolers
      PROVE  at'[<<p, "queue">>] = at[<<p, "queue">>] /\ at'[<<p, "wait">>] = at[<<p, "wait">>]
  <2>1. ASSUME NEW t \in Threads, SockReleaseEnd(t)
        PROVE  at'[<<p, "queue">>] = at[<<p, "queue">>] /\ at'[<<p, "wait">>] = at[<<p, "wait">>]
    <3>1. PICK s \in at[<<t, "rel">>] : at' = Move(s, <<t, "rel">>, <<Driver, "free">>)
      BY <2>1 DEF SockReleaseEnd
    <3>2. <<t, "rel">> \in Places /\ <<Driver, "free">> \in Places
      BY PlaceNames
    <3> QED
      BY <3>1, <3>2, SpoolMove, Numbers
  <2>2. ASSUME NEW s \in Socks,
               NsGetRequest(s) \/ NsSockClose(s) \/ \E k \in BOOLEAN : SockClose(s, k)
        PROVE  at'[<<p, "queue">>] = at[<<p, "queue">>] /\ at'[<<p, "wait">>] = at[<<p, "wait">>]
    <3>1. PICK from, to \in {<<Pool, "queued">>, <<Pool, "running">>, <<Pool, "closing">>,
                             <<Driver, "closed">>} : at' = Move(s, from, to)
      BY <2>2 DEF NsGetRequest, NsSockClose, SockClose
    <3>2. /\ from \in Places /\ to \in Places
          /\ from # <<p, "queue">> /\ from # <<p, "wait">> /\ to # <<p, "queue">> /\ to # <<p, "wait">>
      BY <3>1, PlaceNames, SMTT(30)
    <3> QED
      BY <3>1, <3>2, SpoolMove, Numbers
  <2> QED
    BY <2>1, <2>2
<1> QED
  BY <1>1, <1>2, SpoolFrame

\* Bytes and stop flags.
LEMMA BytesSpool ==
    ASSUME OwnerInv, SpoolInv,
           \/ SpoolerTrigger \/ SockTrigger \/ NsWakeupDriver \/ NsStopDrivers
           \/ \E p \in Spoolers : NsStopSpoolers(p)
    PROVE  SpoolInv'
<1>1. UNCHANGED <<at, spc, dpc>> /\ strig \in [Spoolers -> Nat] /\ sshut \in [Spoolers -> BOOLEAN]
  BY DEF SpoolerTrigger, SockTrigger, NsWakeupDriver, NsStopDrivers, NsStopSpoolers, drv, spool,
         OwnerInv, TypeOK
<1>2. CASE SockTrigger \/ NsWakeupDriver
  BY <1>1, <1>2, SpoolFrame DEF SockTrigger, NsWakeupDriver, drv, spool
<1>3. CASE NsStopDrivers
  BY <1>1, <1>3 DEF NsStopDrivers, drv, spool, SpoolInv, SpoolerTriggerComing
<1>4. CASE SpoolerTrigger
  BY <1>1, <1>4, SMTT(30) DEF SpoolerTrigger, SpoolInv, SpoolerTriggerComing, OwnerInv, TypeOK
<1>5. CASE \E p \in Spoolers : NsStopSpoolers(p)
  BY <1>1, <1>5, SMT DEF NsStopSpoolers, drv, SpoolInv, SpoolerTriggerComing
<1> QED
  BY <1>2, <1>3, <1>4, <1>5

\* SpoolInv is inductive relative to OwnerInv and TriggerInv.
LEMMA SpoolStep == OwnerInv /\ TriggerInv /\ SpoolInv /\ Next => SpoolInv'
<1> SUFFICES ASSUME OwnerInv, TriggerInv, SpoolInv, Next PROVE SpoolInv'
  OBVIOUS
<1>1. CASE DriverThread
  BY <1>1, StartSpools, DriverGoesOnSpool, DriverMovesSpool, DriverReadSpool, OthersSpool,
     BytesSpool, ThreadNames DEF DriverThread
<1>2. ASSUME NEW p \in Spoolers, SpoolerThread(p) \/ SpoolerEvent(p) \/ NsStopSpoolers(p)
      PROVE  SpoolInv'
  BY <1>2, SpoolerSpool, OthersSpool, BytesSpool, ThreadNames
     DEF SpoolerThread, SpoolerPoll, SpoolerEvent
<1>3. ASSUME NEW s \in Socks,
             \/ SockAccept(s) \/ NsGetRequest(s) \/ NsSockClose(s)
             \/ \E k \in BOOLEAN : SockClose(s, k)
      PROVE  SpoolInv'
  BY <1>3, DriverMovesSpool, OthersSpool
<1>4. CASE SockTrigger \/ NsWakeupDriver \/ NsStopDrivers
  BY <1>4, BytesSpool
<1> QED
  BY <1>1, <1>2, <1>3, <1>4 DEF Next

\* For any number of sockets and spoolers: a spooler in poll() that was told to
\* stop, or was sent a socket while it holds no refused requests, has a byte in
\* its pipe or the driver is about to send one, although only the first socket
\* in the queue is announced (SockSpoolerQueue, SpoolerThread, NsStopSpoolers).
THEOREM NoMissedSpoolerTrigger == Spec => []SpoolerTriggerComing
<1>1. Init => SpoolInv
  BY DEF Init, SpoolInv, SpoolerTriggerComing
<1>2. OwnerInv /\ TriggerInv /\ SpoolInv /\ [Next]_vars => SpoolInv'
  <2>1. SpoolInv /\ UNCHANGED vars => SpoolInv'
    BY DEF SpoolInv, SpoolerTriggerComing, vars, drv, spool
  <2> QED
    BY <2>1, SpoolStep
<1>3. SpoolInv => SpoolerTriggerComing
  BY DEF SpoolInv
<1> QED
  BY <1>1, <1>2, <1>3, OneOwnerAlways, TriggerInvAlways, PTL DEF Spec

-----------------------------------------------------------------------------
(* The count of sockets in use.                                             *)

\* The socket the driver is releasing.
Rel == at[<<Driver, "rel">>]

\* The sockets that count.
InUse == Socks \ Free

\* What QueueSize needs between the load and the store of queuesize: the
\* driver is in at most one of them, what it loaded is still current, and an
\* accepted socket is in use one step before it is counted.
SizeInv ==
    /\ \A s, u \in Rel : s = u
    /\ dpc = "count" => Rel = {}
    /\ Rel # {} \/ dpc = "count" => tmp[Driver] = queuesize
    /\ Cardinality(InUse) = IF dpc = "count" THEN queuesize + 1 ELSE queuesize
    /\ Cardinality(InUse) <= MaxQueue

\* The part of OwnerInv that the steps below use.
LEMMA SizeTypes ==
    OwnerInv => ListsOK /\ queuesize \in Int /\ tmp \in [Threads -> Int] /\ Driver \in Threads
BY ThreadNames DEF OwnerInv, TypeOK, ListsOK

\* A step that neither touches the free list nor is part of SockRelease or of
\* the accept loop's count.
LEMMA SizeQuiet ==
    /\ SizeInv /\ UNCHANGED <<Free, Rel, queuesize, tmp>>
    /\ (dpc' = "count" <=> dpc = "count")
    => SizeInv'
BY DEF SizeInv, InUse, Free, Rel

\* Unlinking a socket from one list and linking it into another.
LEMMA SizeMove ==
    ASSUME ListsOK, NEW s, NEW from \in Places, NEW to \in Places,
           {from, to} \cap {<<Driver, "free">>, <<Driver, "rel">>} = {}, at' = Move(s, from, to)
    PROVE  UNCHANGED <<Free, Rel>>
BY PlaceNames, ThreadNames DEF ListsOK, Move, Free, Rel

\* Taking over a whole list.
LEMMA SizeTake ==
    ASSUME ListsOK, NEW from \in Places,
           from \notin {<<Driver, "free">>, <<Driver, "rel">>}, at' = Take(from, Driver)
    PROVE  UNCHANGED <<Free, Rel>>
BY PlaceNames, ThreadNames DEF ListsOK, Take, Free, Rel

\* SockRelease up to the load: the socket is still in use.
LEMMA SizeRelease ==
    ASSUME OwnerInv, SizeInv, NEW s, NEW from \in Places,
           {from} \cap {<<Driver, "free">>, <<Driver, "rel">>} = {}, ~Busy(Driver),
           SockRelease(Driver, s, from), dpc # "count", dpc' # "count"
    PROVE  SizeInv'
<1>1. Rel = {} /\ Rel' = {s} /\ UNCHANGED Free
  BY SizeTypes, PlaceNames, ThreadNames DEF ListsOK, SockRelease, Move, Free, Rel, Busy
<1>2. queuesize' = queuesize /\ tmp'[Driver] = queuesize
  BY SizeTypes DEF SockRelease
<1> QED
  BY <1>1, <1>2 DEF SizeInv, InUse

\* SockReleaseEnd: one socket fewer in use, and the count follows.
LEMMA SizeReleaseEnd ==
    ASSUME OwnerInv, SizeInv, IsFiniteSet(Socks), SockReleaseEnd(Driver)
    PROVE  SizeInv'
<1>1. PICK s \in Rel : queuesize' = tmp[Driver] - 1 /\ at' = Move(s, <<Driver, "rel">>, <<Driver, "free">>)
  BY DEF SockReleaseEnd, Rel
<1>2. s \in Socks /\ s \notin Free
  <2>1. <<Driver, "rel">> \in Places /\ <<Driver, "free">> \in Places /\ "rel" # "free"
    BY PlaceNames, ThreadNames
  <2>2. at \in [Places -> SUBSET Socks] /\ OneOwner
    BY SizeTypes DEF ListsOK
  <2>3. s \in Socks
    BY <1>1, <2>1, <2>2 DEF Rel
  <2>4. PICK p \in Places : \A q \in Places : s \in at[q] <=> q = p
    BY <2>2, <2>3 DEF OneOwner
  <2> QED
    BY <1>1, <2>1, <2>3, <2>4, SMT DEF Rel, Free
<1>3. Rel' = {} /\ Free' = Free \cup {s}
  BY <1>1, SizeTypes, PlaceNames, ThreadNames DEF ListsOK, Move, Free, Rel, SizeInv
<1>4. dpc # "count" /\ dpc' = dpc /\ tmp[Driver] = queuesize
  BY <1>1 DEF SizeInv, SockReleaseEnd, drv
<1>5. InUse' = InUse \ {s} /\ s \in InUse /\ IsFiniteSet(InUse)
  BY <1>2, <1>3, FS_Subset DEF InUse
<1>6. Cardinality(InUse') = Cardinality(InUse) - 1 /\ Cardinality(InUse) \in Nat
  BY <1>5, FS_RemoveElement, FS_CardinalityType
<1>7. /\ Cardinality(InUse') = queuesize'
      /\ Cardinality(InUse') <= MaxQueue
  BY <1>1, <1>4, <1>6, SizeTypes, BoundsAreNumbers, SMT DEF SizeInv
<1> QED
  BY <1>3, <1>4, <1>7 DEF SizeInv

\* SockAccept: one socket more in use, within the limit.
LEMMA SizeAccept ==
    ASSUME OwnerInv, SizeInv, IsFiniteSet(Socks), NEW s \in Socks, SockAccept(s)
    PROVE  SizeInv'
<1>1. dpc = "accept" /\ Rel = {} /\ s \in Free /\ queuesize < MaxQueue /\ dpc' = "count"
  BY DEF SockAccept, At, Busy, Rel
<1>2. Rel' = {} /\ Free' = Free \ {s}
  BY <1>1, SizeTypes, PlaceNames, ThreadNames DEF ListsOK, SockAccept, Move, Free, Rel
<1>3. queuesize' = queuesize /\ tmp'[Driver] = queuesize
  BY SizeTypes DEF SockAccept
<1>4. InUse' = InUse \cup {s} /\ s \notin InUse /\ IsFiniteSet(InUse)
  BY <1>1, <1>2, FS_Subset DEF InUse
<1>5. Cardinality(InUse') = Cardinality(InUse) + 1
  BY <1>4, FS_AddElement
<1>6. Cardinality(InUse) = queuesize
  BY <1>1 DEF SizeInv
<1>7. /\ Cardinality(InUse') = queuesize' + 1
      /\ Cardinality(InUse') <= MaxQueue
  BY <1>1, <1>3, <1>5, <1>6, SizeTypes, BoundsAreNumbers, SMT
<1> QED
  BY <1>1, <1>2, <1>3, <1>7 DEF SizeInv

\* The store of queuesize++.
LEMMA SizeCount ==
    ASSUME OwnerInv, SizeInv, SockAcceptCount
    PROVE  SizeInv'
<1>1. /\ dpc = "count" /\ dpc' = "fresh" /\ Rel = {} /\ UNCHANGED <<Free, Rel>>
      /\ queuesize' = queuesize + 1
  BY DEF SockAcceptCount, At, SizeInv, Free, Rel
<1> QED
  BY <1>1 DEF SizeInv, InUse

\* The lists SockQueue moves between.
LEMMA SizeQueue ==
    ASSUME ListsOK, NEW s, NEW from \in Places,
           {from} \cap {<<Driver, "free">>, <<Driver, "rel">>} = {}, SockQueue(Driver, s, from)
    PROVE  UNCHANGED <<Free, Rel>>
<1>1. \E to \in {<<Pool, "queued">>, <<Driver, "wait">>} : at' = Move(s, from, to)
  BY DEF SockQueue
<1>2. <<Pool, "queued">> \in Places /\ <<Driver, "wait">> \in Places
  BY PlaceNames, ThreadNames
<1>3. /\ <<Pool, "queued">> \notin {<<Driver, "free">>, <<Driver, "rel">>}
      /\ <<Driver, "wait">> \notin {<<Driver, "free">>, <<Driver, "rel">>}
  OBVIOUS
<1> QED
  BY <1>1, <1>2, <1>3, SizeMove

\* A step of the driver with one socket of the list it walks.
LEMMA SizeDriverSock ==
    ASSUME OwnerInv, SizeInv, Spoolers = {}, NEW s \in Socks,
           \/ DriverDrain(s) \/ DriverRead(s) \/ DriverWait(s) \/ SockAcceptEnd(s) \/ DriverReturn(s)
    PROVE  SizeInv'
<1> DEFINE Loop == {<<Driver, "work">>, <<Driver, "fresh">>}
           Lists == {<<Driver, "read">>, <<Driver, "close">>}
<1>1. dpc # "count" /\ dpc' # "count" /\ ~Busy(Driver)
  BY DEF DriverDrain, DriverRead, DriverWait, SockAcceptEnd, DriverReturn, At, drv
<1>2. \/ \E from \in Loop : SockRelease(Driver, s, from)
      \/ /\ UNCHANGED <<queuesize, tmp>>
         /\ \E from \in Loop : \/ \E to \in Lists : at' = Move(s, from, to)
                               \/ SockQueue(Driver, s, from)
  <2>1. CASE DriverDrain(s)
    BY <2>1 DEF DriverDrain, LeaveSock
  <2>2. CASE DriverRead(s)
    <3>1. ~SockSpoolerQueue(s, <<Driver, "work">>)
      BY DEF SockSpoolerQueue
    <3> QED
      BY <2>2, <3>1 DEF DriverRead, LeaveSock, SockPrepare
  <2>3. CASE DriverWait(s)
    BY <2>3 DEF DriverWait, LeaveSock
  <2>4. CASE SockAcceptEnd(s)
    BY <2>4 DEF SockAcceptEnd, LeaveSock, SockPrepare
  <2>5. CASE DriverReturn(s)
    BY <2>5 DEF DriverReturn, LeaveSock
  <2> QED
    BY <2>1, <2>2, <2>3, <2>4, <2>5
<1>3. /\ Loop \cup Lists \subseteq Places
      /\ \A q \in Loop \cup Lists : q # <<Driver, "free">> /\ q # <<Driver, "rel">>
  <2>1. \A q \in Loop \cup Lists : q # <<Driver, "free">> /\ q # <<Driver, "rel">>
    BY SMT
  <2>2. /\ <<Driver, "work">> \in Places /\ <<Driver, "read">> \in Places
        /\ <<Driver, "fresh">> \in Places /\ <<Driver, "close">> \in Places
    BY PlaceNames, ThreadNames
  <2> QED
    BY <2>1, <2>2
<1> HIDE DEF Loop, Lists
<1>4. CASE \E from \in Loop : SockRelease(Driver, s, from)
  BY <1>1, <1>3, <1>4, SizeRelease
<1>5. CASE /\ UNCHANGED <<queuesize, tmp>>
           /\ \E from \in Loop : \/ \E to \in Lists : at' = Move(s, from, to)
                                 \/ SockQueue(Driver, s, from)
  BY <1>1, <1>3, <1>5, SizeTypes, SizeMove, SizeQueue, SizeQuiet
<1> QED
  BY <1>2, <1>4, <1>5

\* The other steps of the driver.
LEMMA SizeDriver ==
    ASSUME OwnerInv, SizeInv,
           \/ DriverStart \/ DriverPoll \/ DriverDrainEnd \/ SpoolerTrigger
           \/ DriverReadEnd \/ DriverWaitEnd \/ DriverAcceptEnd
           \/ DriverCollect \/ DriverReturnEnd
    PROVE  SizeInv'
<1>1. CASE DriverStart \/ SpoolerTrigger \/ DriverWaitEnd \/ DriverAcceptEnd \/ DriverReturnEnd
  BY <1>1, SizeQuiet
     DEF DriverStart, SpoolerTrigger, DriverWaitEnd, DriverAcceptEnd, DriverReturnEnd, At, LeaveSock,
         Free, Rel
<1>2. CASE DriverPoll \/ DriverDrainEnd \/ DriverReadEnd \/ DriverCollect
  <2>1. /\ dpc # "count" /\ dpc' # "count" /\ UNCHANGED <<queuesize, tmp>>
        /\ \E from \in {<<Driver, "close">>, <<Driver, "read">>, <<Driver, "wait">>, <<Driver, "closed">>} :
                at' = Take(from, Driver)
    BY <1>2 DEF DriverPoll, DriverDrainEnd, DriverReadEnd, DriverCollect, At, LeaveSock
  <2> QED
    BY <2>1, SizeTypes, SizeTake, SizeQuiet, PlaceNames, ThreadNames
<1> QED
  BY <1>1, <1>2

\* The steps of the other threads.
LEMMA SizeOthers ==
    ASSUME OwnerInv, SizeInv,
           \/ SockTrigger \/ NsWakeupDriver \/ NsStopDrivers
           \/ \E s \in Socks : \/ NsGetRequest(s) \/ NsSockClose(s)
                               \/ \E k \in BOOLEAN : SockClose(s, k)
    PROVE  SizeInv'
<1>1. CASE SockTrigger \/ NsWakeupDriver \/ NsStopDrivers
  BY <1>1, SizeQuiet DEF SockTrigger, NsWakeupDriver, NsStopDrivers, LeaveSock, drv, Free, Rel
<1>2. ASSUME NEW s \in Socks, NsGetRequest(s) \/ NsSockClose(s) \/ \E k \in BOOLEAN : SockClose(s, k)
      PROVE  SizeInv'
  <2> DEFINE Lists == {<<Pool, "queued">>, <<Pool, "running">>, <<Pool, "closing">>, <<Driver, "closed">>}
  <2>1. /\ UNCHANGED <<queuesize, tmp, dpc>>
        /\ \E from, to \in Lists : at' = Move(s, from, to)
    BY <1>2 DEF NsGetRequest, NsSockClose, SockClose, LeaveSock, drv
  <2>2. /\ Lists \subseteq Places
        /\ \A q \in Lists : q # <<Driver, "free">> /\ q # <<Driver, "rel">>
    BY PlaceNames, SMT
  <2> HIDE DEF Lists
  <2> QED
    BY <2>1, <2>2, SizeTypes, SizeMove, SizeQuiet
<1> QED
  BY <1>1, <1>2

\* SizeInv is inductive relative to OwnerInv for a driver without spoolers.
LEMMA SizeStep ==
    ASSUME IsFiniteSet(Socks), Spoolers = {}, OwnerInv, SizeInv, Next
    PROVE  SizeInv'
<1>1. CASE DriverThread
  BY <1>1, SizeDriver, SizeDriverSock, SizeCount, SizeReleaseEnd DEF DriverThread
<1>2. CASE \E s \in Socks : SockAccept(s)
  BY <1>2, SizeAccept
<1>3. CASE \/ SockTrigger \/ NsWakeupDriver \/ NsStopDrivers
           \/ \E s \in Socks : \/ NsGetRequest(s) \/ NsSockClose(s)
                               \/ \E k \in BOOLEAN : SockClose(s, k)
  BY <1>3, SizeOthers
<1> QED
  BY <1>1, <1>2, <1>3 DEF Next

\* For a driver without spoolers and any number of sockets: queuesize, which
\* is read and written under no lock, is exact whenever the driver is not
\* changing it, and never are more than maxqueuesize sockets in use
\* (DriverThread's accept loop, SockAccept, SockRelease).
THEOREM QueueSizeKept == IsFiniteSet(Socks) /\ Spoolers = {} => (Spec => []QueueSize)
<1> SUFFICES ASSUME IsFiniteSet(Socks), Spoolers = {} PROVE Spec => []QueueSize
  OBVIOUS
<1>1. Init => SizeInv
  <2> SUFFICES ASSUME Init PROVE SizeInv
    OBVIOUS
  <2>1. Rel = {} /\ InUse = {} /\ dpc = "start" /\ queuesize = 0
    BY PlaceNames, ThreadNames DEF Init, Rel, InUse, Free
  <2> QED
    BY <2>1, FS_EmptySet, BoundsAreNumbers, SMT DEF SizeInv
<1>2. OwnerInv /\ SizeInv /\ [Next]_vars => SizeInv'
  <2>1. SizeInv /\ UNCHANGED vars => SizeInv'
    BY SizeQuiet DEF vars, drv, Free, Rel
  <2> QED
    BY <2>1, SizeStep
<1>3. SizeInv => QueueSize
  BY ZenonT(30) DEF SizeInv, QueueSize, QueueSizeExact, QueueBound, InUse
<1> QED
  BY <1>1, <1>2, <1>3, OneOwnerAlways, PTL DEF Spec

-----------------------------------------------------------------------------
(***************************************************************************)
(* SockDriver implements SockLife, and the Request of a socket is handed   *)
(* over once.  Both follow from SockInv, which says of every socket what   *)
(* the list it is in promises about its Request and its descriptor.        *)
(***************************************************************************)

\* The stage of life of the sockets in the list p.
Stage(p) ==
    IF p = <<Driver, "free">> THEN "free"
    ELSE IF p \in {<<Pool, "queued">>, <<Pool, "running">>} THEN "queued"
    ELSE IF \/ p \in {<<Pool, "closing">>, <<Driver, "closed">>, <<Driver, "close">>}
            \/ \E t \in Threads : p = <<t, "rel">>
            \/ p = <<Driver, "work">> /\ dpc \in {"drain", "return"}
         THEN "closing"
    ELSE "reading"

\* A thread has taken the Request and the socket is given back, or not used.
NoRequest(p) ==
    \/ p \in {<<Driver, "free">>, <<Driver, "fresh">>, <<Driver, "closed">>,
              <<Pool, "running">>, <<Pool, "closing">>}
    \/ p = <<Driver, "work">> /\ dpc = "return"

\* The headers have been read.
HasRequest(p) ==
    \/ \E q \in Spoolers : p \in {<<q, "read">>, <<q, "wait">>, <<q, "work">>, <<q, "queue">>}
    \/ Async /\ p \in {<<Pool, "queued">>, <<Driver, "wait">>}
    \/ Async /\ p = <<Driver, "work">> /\ dpc = "wait"

\* The decision to keep the connection has been made and not yet used.
KeepDecided(p) ==
    \/ p \in {<<Pool, "closing">>, <<Driver, "closed">>}
    \/ p = <<Driver, "work">> /\ dpc = "return"

\* What the list p promises about a socket s in it.
SockOK(s, p) ==
    /\ NoRequest(p) => ~req[s]
    /\ HasRequest(p) => req[s]
    /\ Stage(p) \in {"reading", "queued"} => open[s]
    /\ KeepDecided(p) /\ keep[s] => open[s]

\* Inductive: every socket keeps the promises of the list it is in.
SockInv == \A p \in Places : \A s \in at[p] : SockOK(s, p)

\* The promises list by list.
Promises ==
    \A s \in Socks :
        /\ SockOK(s, <<Driver, "free">>) <=> ~req[s]
        /\ SockOK(s, <<Driver, "fresh">>) <=> ~req[s] /\ open[s]
        /\ SockOK(s, <<Driver, "read">>) <=> open[s]
        /\ SockOK(s, <<Driver, "wait">>) <=> (Async => req[s]) /\ open[s]
        /\ SockOK(s, <<Driver, "close">>)
        /\ SockOK(s, <<Driver, "closed">>) <=> ~req[s] /\ (keep[s] => open[s])
        /\ SockOK(s, <<Pool, "queued">>) <=> (Async => req[s]) /\ open[s]
        /\ SockOK(s, <<Pool, "running">>) <=> ~req[s] /\ open[s]
        /\ SockOK(s, <<Pool, "closing">>) <=> ~req[s] /\ (keep[s] => open[s])
        /\ \A t \in Threads : SockOK(s, <<t, "rel">>)

\* The same for the lists of a spooler.
SpoolerPromises ==
    \A s \in Socks, p \in Spoolers :
        /\ SockOK(s, <<p, "read">>) <=> req[s] /\ open[s]
        /\ SockOK(s, <<p, "wait">>) <=> req[s] /\ open[s]
        /\ SockOK(s, <<p, "work">>) <=> req[s] /\ open[s]
        /\ SockOK(s, <<p, "queue">>) <=> req[s] /\ open[s]

\* The same for the list the driver's inner loop walks.
WorkPromises ==
    \A s \in Socks :
        /\ dpc = "drain" => SockOK(s, <<Driver, "work">>)
        /\ dpc = "read" => (SockOK(s, <<Driver, "work">>) <=> open[s])
        /\ dpc = "wait" => (SockOK(s, <<Driver, "work">>) <=> (Async => req[s]) /\ open[s])
        /\ dpc = "return" => (SockOK(s, <<Driver, "work">>) <=> ~req[s] /\ (keep[s] => open[s]))

\* The promises are names for the conjuncts of SockOK.
LEMMA PromisesHold == Promises
<1> SUFFICES ASSUME NEW s \in Socks
             PROVE  /\ SockOK(s, <<Driver, "free">>) <=> ~req[s]
                    /\ SockOK(s, <<Driver, "fresh">>) <=> ~req[s] /\ open[s]
                    /\ SockOK(s, <<Driver, "read">>) <=> open[s]
                    /\ SockOK(s, <<Driver, "wait">>) <=> (Async => req[s]) /\ open[s]
                    /\ SockOK(s, <<Driver, "close">>)
                    /\ SockOK(s, <<Driver, "closed">>) <=> ~req[s] /\ (keep[s] => open[s])
                    /\ SockOK(s, <<Pool, "queued">>) <=> (Async => req[s]) /\ open[s]
                    /\ SockOK(s, <<Pool, "running">>) <=> ~req[s] /\ open[s]
                    /\ SockOK(s, <<Pool, "closing">>) <=> ~req[s] /\ (keep[s] => open[s])
                    /\ \A t \in Threads : SockOK(s, <<t, "rel">>)
  BY DEF Promises
<1> USE OwnersDiffer, ThreadNames DEF SockOK, Stage, NoRequest, HasRequest, KeepDecided
<1>1. /\ SockOK(s, <<Driver, "free">>) <=> ~req[s]
      /\ SockOK(s, <<Driver, "fresh">>) <=> ~req[s] /\ open[s]
  BY SMT
<1>2. /\ SockOK(s, <<Driver, "read">>) <=> open[s]
      /\ SockOK(s, <<Driver, "wait">>) <=> (Async => req[s]) /\ open[s]
  BY SMT
<1>3. /\ SockOK(s, <<Driver, "close">>)
      /\ SockOK(s, <<Driver, "closed">>) <=> ~req[s] /\ (keep[s] => open[s])
  BY SMT
<1>4. /\ SockOK(s, <<Pool, "queued">>) <=> (Async => req[s]) /\ open[s]
      /\ SockOK(s, <<Pool, "running">>) <=> ~req[s] /\ open[s]
      /\ SockOK(s, <<Pool, "closing">>) <=> ~req[s] /\ (keep[s] => open[s])
  BY SMT
<1>5. \A t \in Threads : SockOK(s, <<t, "rel">>)
  BY SMT
<1> HIDE OwnersDiffer, ThreadNames DEF SockOK, Stage, NoRequest, HasRequest, KeepDecided
<1> QED
  BY <1>1, <1>2, <1>3, <1>4, <1>5

\* The same for a spooler's lists.
LEMMA SpoolerPromisesHold == SpoolerPromises
BY OwnersDiffer, ThreadNames, SMT
   DEF SpoolerPromises, SockOK, Stage, NoRequest, HasRequest, KeepDecided, Threads

\* The same for the lists the loops walk.
LEMMA WorkPromisesHold == WorkPromises
BY OwnersDiffer, ThreadNames
   DEF WorkPromises, SockOK, Stage, NoRequest, HasRequest, KeepDecided, Threads

\* And in the next state.
LEMMA PromisesHoldNext == Promises' /\ SpoolerPromises' /\ WorkPromises'
BY PromisesHold, SpoolerPromisesHold, WorkPromisesHold, PTL

\* Only the promise of the driver's work list depends on where the driver is.
LEMMA SamePromise ==
    ASSUME NEW s \in Socks, NEW p \in Places,
           dpc' = dpc \/ p # <<Driver, "work">>,
           req'[s] = req[s], keep'[s] = keep[s], open'[s] = open[s]
    PROVE  Stage(p)' = Stage(p) /\ (SockOK(s, p) => SockOK(s, p)')
BY DEF SockOK, Stage, NoRequest, HasRequest, KeepDecided

\* Where the sockets are after Move.
LEMMA MoveAt ==
    ASSUME ListsOK, NEW s \in Socks, NEW from \in Places, NEW to \in Places,
           s \in at[from], from # to, at' = Move(s, from, to)
    PROVE  \A r \in Socks, q \in Places : r \in at'[q] <=> IF r = s THEN q = to ELSE r \in at[q]
<1>1. /\ at'[from] = at[from] \ {s}
      /\ at'[to] = at[to] \cup {s}
      /\ \A q \in Places : q # from /\ q # to => at'[q] = at[q]
  BY DEF ListsOK, Move
<1>2. \A q \in Places : s \in at[q] => q = from
  BY DEF ListsOK, OneOwner
<1> QED
  BY <1>1, <1>2

\* Where the sockets are after Take.
LEMMA TakeAt ==
    ASSUME ListsOK, NEW t \in Threads, NEW from \in Places, from # <<t, "work">>,
           Work(t) = {}, at' = Take(from, t)
    PROVE  \A q \in Places : at'[q] = IF q = <<t, "work">> THEN at[from]
                                      ELSE IF q = from THEN {} ELSE at[q]
BY PlaceNames DEF ListsOK, Take

-----------------------------------------------------------------------------
(* Stages of life.                                                          *)

\* The stages of SockLife for the lists.
StageNames ==
    /\ Stage(<<Driver, "free">>) = "free"
    /\ \A t \in Threads : Stage(<<t, "read">>) = "reading" /\ Stage(<<t, "wait">>) = "reading"
                          /\ Stage(<<t, "rel">>) = "closing"
    /\ Stage(<<Driver, "fresh">>) = "reading"
    /\ \A p \in Spoolers : Stage(<<p, "work">>) = "reading" /\ Stage(<<p, "queue">>) = "reading"
    /\ Stage(<<Driver, "work">>) = IF dpc \in {"drain", "return"} THEN "closing" ELSE "reading"
    /\ Stage(<<Driver, "close">>) = "closing" /\ Stage(<<Driver, "closed">>) = "closing"
    /\ Stage(<<Pool, "queued">>) = "queued" /\ Stage(<<Pool, "running">>) = "queued"
    /\ Stage(<<Pool, "closing">>) = "closing"

\* They follow from the definition of Stage.
LEMMA StageNamesHold == StageNames
BY OwnersDiffer, ThreadNames DEF StageNames, Stage, Threads

\* And in the next state.
LEMMA StageNamesNext == StageNames'
BY StageNamesHold, PTL

\* The refinement mapping reads the stage off the list a socket is in.
LifeIsStage == ListsOK => \A p \in Places : \A s \in at[p] : life[s] = Stage(p)

\* life is the stage of the list a socket is in.
LEMMA LifeIsStageHolds == LifeIsStage
<1> SUFFICES ASSUME ListsOK, NEW p \in Places, NEW s \in at[p]
             PROVE  life[s] = Stage(p)
  BY DEF LifeIsStage
<1>1. s \in Socks
  BY DEF ListsOK
<1>2. \A q \in Places : s \in at[q] <=> q = p
  BY <1>1 DEF ListsOK, OneOwner
<1>3. /\ s \in Free <=> p = <<Driver, "free">>
      /\ s \in Queued \cup Running <=> p \in {<<Pool, "queued">>, <<Pool, "running">>}
      /\ s \in Closing \cup Closed \cup at[<<Driver, "close">>]
            <=> p \in {<<Pool, "closing">>, <<Driver, "closed">>, <<Driver, "close">>}
      /\ s \in Work(Driver) <=> p = <<Driver, "work">>
  BY <1>2, PlaceNames, ThreadNames DEF Free, Queued, Running, Closing, Closed, Work
<1>4. (\E t \in Threads : s \in at[<<t, "rel">>]) <=> \E t \in Threads : p = <<t, "rel">>
  BY <1>2, PlaceNames
<1> QED
  BY <1>1, <1>3, <1>4 DEF life, Stage

\* And in the next state.
LEMMA LifeIsStageNext == LifeIsStage'
BY LifeIsStageHolds, PTL

\* One socket moves to another list, and the list keeps its promise.
LEMMA MoveLife ==
    ASSUME OwnerInv, OwnerInv', SockInv,
           NEW s \in Socks, NEW from \in Places, NEW to \in Places,
           s \in at[from], from # to, at' = Move(s, from, to),
           dpc' = dpc \/ Work(Driver) = {},
           \A r \in Socks : r # s => /\ req'[r] = req[r] /\ keep'[r] = keep[r]
                                     /\ open'[r] = open[r],
           SockOK(s, to)'
    PROVE  /\ SockInv' /\ SockOK(s, from)
           /\ life[s] = Stage(from)
           /\ life' = [life EXCEPT ![s] = Stage(to)']
<1>1. ListsOK /\ ListsOK'
  BY Parts DEF OwnerInv, TypeOK, ListsOK
<1>2. \A r \in Socks, q \in Places : r \in at'[q] <=> IF r = s THEN q = to ELSE r \in at[q]
  BY <1>1, MoveAt
<1>3. ASSUME NEW q \in Places, NEW r \in Socks, r # s, r \in at[q]
      PROVE  SockOK(r, q)' /\ Stage(q)' = Stage(q)
  <2>1. dpc' = dpc \/ q # <<Driver, "work">>
    BY <1>3 DEF Work
  <2>2. SockOK(r, q)
    BY <1>3 DEF SockInv
  <2> QED
    BY <1>3, <2>1, <2>2, SamePromise
<1>4. SockInv'
  <2> SUFFICES ASSUME NEW q \in Places, NEW r \in at'[q] PROVE SockOK(r, q)'
    BY DEF SockInv
  <2>1. r \in Socks
    BY <1>1 DEF ListsOK
  <2>2. CASE r = s
    BY <1>2, <2>1, <2>2
  <2>3. CASE r # s
    BY <1>2, <1>3, <2>1, <2>3
  <2> QED
    BY <2>2, <2>3
<1>5. life[s] = Stage(from) /\ SockOK(s, from)
  BY <1>1, LifeIsStageHolds DEF LifeIsStage, SockInv
<1>6. life'[s] = Stage(to)'
  BY <1>1, <1>2, LifeIsStageNext DEF LifeIsStage
<1>7. ASSUME NEW r \in Socks, r # s PROVE life'[r] = life[r]
  <2>1. PICK q \in Places : r \in at[q]
    BY <1>1 DEF ListsOK, OneOwner
  <2>2. life[r] = Stage(q)
    BY <1>1, <2>1, LifeIsStageHolds DEF LifeIsStage
  <2>3. r \in at'[q]
    BY <1>2, <1>7, <2>1
  <2>4. life'[r] = Stage(q)'
    BY <1>1, <2>3, LifeIsStageNext DEF LifeIsStage
  <2> QED
    BY <1>3, <1>7, <2>1, <2>2, <2>4
<1>8. life' = [life EXCEPT ![s] = Stage(to)']
  <2>1. life = [r \in Socks |-> life[r]] /\ life' = [r \in Socks |-> life'[r]]
    BY DEF life
  <2> HIDE DEF life
  <2> QED
    BY <1>6, <1>7, <2>1
<1> QED
  BY <1>4, <1>5, <1>8

\* What the driver layer may do to one socket, in the terms of SockLife.
LEMMA AbstractStep ==
    ASSUME OwnerInv, NEW s \in Socks, NEW a, NEW b,
           life[s] = a, life' = [life EXCEPT ![s] = b],
           \/ a = b /\ UNCHANGED open
           \/ a = "free" /\ b = "reading" /\ open' = [open EXCEPT ![s] = TRUE]
           \/ a = "reading" /\ b = "queued" /\ open[s] /\ UNCHANGED open
           \/ /\ a \in {"reading", "queued", "closing"} /\ b = "closing"
              /\ UNCHANGED open \/ open' = [open EXCEPT ![s] = FALSE]
           \/ a = "closing" /\ b = "reading" /\ open[s] /\ UNCHANGED open
           \/ a = "closing" /\ b = "free" /\ UNCHANGED open
    PROVE  [Life!Next]_<<life, open>>
<1>1. life = [r \in Socks |-> life[r]]
  BY DEF life
<1>2. open \in [Socks -> BOOLEAN]
  BY DEF OwnerInv, TypeOK
<1> HIDE DEF life
<1>3. CASE life'[s] = life[s] /\ open'[s] = open[s]
  <2>1. life' = life
    BY <1>1, <1>3
  <2>2. open' = open
    BY <1>2, <1>3, SMT
  <2> QED
    BY <2>1, <2>2
<1>4. CASE life'[s] # life[s] \/ open'[s] # open[s]
  <2>1. \/ Life!Accept(s) \/ Life!Queue(s) \/ Life!GiveBack(s) \/ Life!Reuse(s)
        \/ Life!Abort(s) \/ Life!Shut(s) \/ Life!Free(s)
    BY <1>1, <1>2, <1>4
       DEF Life!Accept, Life!Queue, Life!GiveBack, Life!Reuse, Life!Abort, Life!Shut, Life!Free,
           Life!Step, Life!MayClose
  <2>2. Life!Next
    BY <1>4, <2>1 DEF Life!Next
  <2> QED
    BY <2>2
<1> QED
  BY <1>3, <1>4

\* What a step has to show.
LifeStep == SockInv' /\ [Life!Next]_<<life, open>>

\* SockRelease closes the connection or leaves that to others.
LEMMA ReleaseLife ==
    ASSUME OwnerInv, OwnerInv', SockInv, NEW t \in Threads, NEW s \in Socks, NEW from \in Places,
           s \in at[from], from # <<t, "rel">>, Stage(from) \in {"reading", "closing"},
           dpc' = dpc \/ Work(Driver) = {}, SockRelease(t, s, from)
    PROVE  LifeStep
<1>1. /\ <<t, "rel">> \in Places /\ at' = Move(s, from, <<t, "rel">>)
      /\ open' = [open EXCEPT ![s] = @ /\ ~ClosesFd]
      /\ keep' = [keep EXCEPT ![s] = FALSE] /\ UNCHANGED req
  BY PlaceNames DEF SockRelease
<1>2. open \in [Socks -> BOOLEAN] /\ keep \in [Socks -> BOOLEAN]
  BY DEF OwnerInv, TypeOK
<1>3. SockOK(s, <<t, "rel">>)'
  BY PromisesHoldNext DEF Promises
<1>4. \A r \in Socks : r # s => req'[r] = req[r] /\ keep'[r] = keep[r] /\ open'[r] = open[r]
  BY <1>1, <1>2
<1>5. SockInv' /\ life[s] = Stage(from) /\ life' = [life EXCEPT ![s] = Stage(<<t, "rel">>)']
  BY <1>1, <1>3, <1>4, MoveLife
<1>6. Stage(<<t, "rel">>)' = "closing"
  BY StageNamesNext DEF StageNames
<1>7. UNCHANGED open \/ open' = [open EXCEPT ![s] = FALSE]
  BY <1>1, <1>2, SwitchesBoolean
<1>8. [Life!Next]_<<life, open>>
  BY <1>5, <1>6, <1>7, AbstractStep
<1> QED
  BY <1>5, <1>8 DEF LifeStep

\* A socket of which only the Request may change moves to a list of the same
\* stage, or from reading to the pool.
LEMMA ReadLife ==
    ASSUME OwnerInv, OwnerInv', SockInv, NEW s \in Socks, NEW from \in Places, NEW to \in Places,
           s \in at[from], from # to, at' = Move(s, from, to),
           dpc' = dpc \/ Work(Driver) = {}, UNCHANGED <<open, keep>>,
           UNCHANGED req \/ \E b \in BOOLEAN : req' = [req EXCEPT ![s] = b],
           SockOK(s, to)',
           \/ Stage(to)' = Stage(from)
           \/ Stage(from) = "reading" /\ Stage(to)' = "queued"
    PROVE  LifeStep
<1>1. req \in [Socks -> BOOLEAN]
  BY DEF OwnerInv, TypeOK
<1>2. \A r \in Socks : r # s => req'[r] = req[r] /\ keep'[r] = keep[r] /\ open'[r] = open[r]
  BY <1>1
<1>3. /\ SockInv' /\ SockOK(s, from) /\ life[s] = Stage(from)
      /\ life' = [life EXCEPT ![s] = Stage(to)']
  BY <1>2, MoveLife
<1>4. Stage(from) = "reading" => open[s]
  BY <1>3 DEF SockOK
<1>5. [Life!Next]_<<life, open>>
  BY <1>3, <1>4, AbstractStep
<1> QED
  BY <1>3, <1>5 DEF LifeStep

\* SockQueue hands over a socket whose Request is there if it must be.
LEMMA QueueLife ==
    ASSUME OwnerInv, OwnerInv', SockInv, NEW t \in Threads, NEW s \in Socks, NEW from \in Places,
           s \in at[from], from # <<Pool, "queued">>, from # <<t, "wait">>,
           Stage(from) = "reading", SockQueue(t, s, from),
           dpc' = dpc \/ Work(Driver) = {}, UNCHANGED <<open, keep>>,
           UNCHANGED req \/ req' = [req EXCEPT ![s] = TRUE],
           Async \/ t # Driver => req'[s]
    PROVE  LifeStep
<1>1. PICK to \in {<<Pool, "queued">>, <<t, "wait">>} : at' = Move(s, from, to)
  BY DEF SockQueue
<1>2. to = <<Pool, "queued">> \/ to = <<t, "wait">>
  BY <1>1
<1>3. to \in Places /\ from # to
  BY <1>2, PlaceNames
<1>4. open'[s]
  BY DEF SockInv, SockOK
<1>5. SockOK(s, to)'
  BY <1>2, <1>4, PromisesHoldNext DEF Promises, SpoolerPromises, Threads
<1>6. Stage(to)' = "queued" \/ Stage(to)' = "reading"
  BY <1>2, StageNamesNext DEF StageNames
<1> QED
  BY <1>1, <1>3, <1>5, <1>6, ReadLife

-----------------------------------------------------------------------------
(* The steps that move one socket.                                          *)

\* A draining socket is released or stays.
LEMMA DriverDrainLife ==
    ASSUME OwnerInv, OwnerInv', SockInv, NEW s \in Socks, DriverDrain(s)
    PROVE  LifeStep
<1>1. /\ <<Driver, "work">> \in Places /\ <<Driver, "close">> \in Places /\ Driver \in Threads
      /\ s \in at[<<Driver, "work">>]
  BY PlaceNames, ThreadNames DEF DriverDrain, Work
<1>2. dpc = "drain" /\ dpc' = dpc
  BY DEF DriverDrain, At, drv
<1>3. Stage(<<Driver, "work">>) = "closing" /\ Stage(<<Driver, "close">>)' = "closing"
  BY <1>2, StageNamesHold, StageNamesNext DEF StageNames
<1>4. CASE SockRelease(Driver, s, <<Driver, "work">>)
  BY <1>1, <1>2, <1>3, <1>4, ReleaseLife
<1>5. CASE at' = Move(s, <<Driver, "work">>, <<Driver, "close">>) /\ LeaveSock
  <2>1. SockOK(s, <<Driver, "close">>)'
    BY PromisesHoldNext DEF Promises
  <2> QED
    BY <1>1, <1>2, <1>3, <1>5, <2>1, ReadLife DEF LeaveSock, sock
<1> QED
  BY <1>4, <1>5 DEF DriverDrain

\* A reading socket is released, stays, is queued or goes to a spooler.
LEMMA DriverReadLife ==
    ASSUME OwnerInv, OwnerInv', SockInv, NEW s \in Socks, DriverRead(s)
    PROVE  LifeStep
<1>1. /\ <<Driver, "work">> \in Places /\ <<Driver, "read">> \in Places /\ Driver \in Threads
      /\ s \in at[<<Driver, "work">>]
  BY PlaceNames, ThreadNames DEF DriverRead, Work
<1>2. dpc = "read" /\ dpc' = dpc
  BY DEF DriverRead, At
<1>3. Stage(<<Driver, "work">>) = "reading" /\ Stage(<<Driver, "read">>)' = "reading"
  BY <1>1, <1>2, StageNamesHold, StageNamesNext DEF StageNames
<1>4. open[s] /\ req \in [Socks -> BOOLEAN]
  BY <1>1, <1>3 DEF SockInv, SockOK, OwnerInv, TypeOK
<1>5. CASE SockRelease(Driver, s, <<Driver, "work">>)
  BY <1>1, <1>2, <1>3, <1>5, ReleaseLife
<1>6. CASE /\ at' = Move(s, <<Driver, "work">>, <<Driver, "read">>)
           /\ LeaveSock \/ SockPrepare(s)
  <2>1. UNCHANGED <<open, keep>> /\ (UNCHANGED req \/ req' = [req EXCEPT ![s] = TRUE])
    BY <1>6 DEF LeaveSock, SockPrepare, sock
  <2>2. SockOK(s, <<Driver, "read">>)'
    BY <1>4, <2>1, PromisesHoldNext DEF Promises
  <2> QED
    BY <1>1, <1>2, <1>3, <1>6, <2>1, <2>2, ReadLife
<1>7. CASE /\ SockQueue(Driver, s, <<Driver, "work">>)
           /\ (Async /\ SockPrepare(s)) \/ (~Async /\ LeaveSock)
  <2>1. UNCHANGED <<open, keep>> /\ (UNCHANGED req \/ req' = [req EXCEPT ![s] = TRUE])
    BY <1>7 DEF LeaveSock, SockPrepare, sock
  <2>2. Async => req'[s]
    BY <1>4, <1>7 DEF SockPrepare
  <2> QED
    BY <1>1, <1>2, <1>3, <1>7, <2>1, <2>2, QueueLife
<1>8. CASE SockSpoolerQueue(s, <<Driver, "work">>) /\ LeaveSock
  <2>1. PICK p \in Spoolers : at' = Move(s, <<Driver, "work">>, <<p, "queue">>)
    BY <1>8 DEF SockSpoolerQueue
  <2>2. <<p, "queue">> \in Places /\ Stage(<<p, "queue">>)' = "reading"
    BY PlaceNames, StageNamesNext DEF StageNames
  <2>3. req[s] /\ UNCHANGED <<open, keep, req>>
    BY <1>8 DEF SockSpoolerQueue, LeaveSock, sock
  <2>4. SockOK(s, <<p, "queue">>)'
    BY <1>4, <2>3, PromisesHoldNext DEF SpoolerPromises
  <2> QED
    BY <1>1, <1>2, <1>3, <2>1, <2>2, <2>3, <2>4, ReadLife
<1> QED
  BY <1>5, <1>6, <1>7, <1>8 DEF DriverRead

\* A waiting socket is offered to the pool again.
LEMMA DriverWaitLife ==
    ASSUME OwnerInv, OwnerInv', SockInv, NEW s \in Socks, DriverWait(s)
    PROVE  LifeStep
<1>1. <<Driver, "work">> \in Places /\ Driver \in Threads /\ s \in at[<<Driver, "work">>]
  BY PlaceNames, ThreadNames DEF DriverWait, Work
<1>2. /\ dpc = "wait" /\ dpc' = dpc /\ UNCHANGED <<open, keep, req>>
      /\ SockQueue(Driver, s, <<Driver, "work">>)
  BY DEF DriverWait, At, drv, LeaveSock, sock
<1>3. Stage(<<Driver, "work">>) = "reading"
  BY <1>2, StageNamesHold DEF StageNames
<1>4. Async => req'[s]
  BY <1>1, <1>2, WorkPromisesHold DEF SockInv, WorkPromises
<1> QED
  BY <1>1, <1>2, <1>3, <1>4, QueueLife

\* A connection is accepted into a free Sock.
LEMMA SockAcceptLife ==
    ASSUME OwnerInv, OwnerInv', SockInv, NEW s \in Socks, SockAccept(s)
    PROVE  LifeStep
<1>1. /\ <<Driver, "free">> \in Places /\ <<Driver, "fresh">> \in Places
      /\ s \in at[<<Driver, "free">>] /\ at' = Move(s, <<Driver, "free">>, <<Driver, "fresh">>)
  BY PlaceNames DEF SockAccept, Free
<1>2. Work(Driver) = {}
  BY DEF SockAccept, At, OwnerInv, NoLeftover
<1>3. open \in [Socks -> BOOLEAN] /\ keep \in [Socks -> BOOLEAN]
  BY DEF OwnerInv, TypeOK
<1>4. /\ open' = [open EXCEPT ![s] = TRUE] /\ keep' = [keep EXCEPT ![s] = FALSE]
      /\ UNCHANGED req
  BY DEF SockAccept
<1>5. ~req[s]
  BY <1>1, PromisesHold DEF SockInv, Promises
<1>6. SockOK(s, <<Driver, "fresh">>)'
  BY <1>3, <1>4, <1>5, PromisesHoldNext DEF Promises
<1>7. \A r \in Socks : r # s => req'[r] = req[r] /\ keep'[r] = keep[r] /\ open'[r] = open[r]
  BY <1>3, <1>4
<1>8. /\ SockInv' /\ life[s] = Stage(<<Driver, "free">>)
      /\ life' = [life EXCEPT ![s] = Stage(<<Driver, "fresh">>)']
  BY <1>1, <1>2, <1>6, <1>7, MoveLife
<1>9. Stage(<<Driver, "free">>) = "free" /\ Stage(<<Driver, "fresh">>)' = "reading"
  BY StageNamesHold, StageNamesNext DEF StageNames
<1>10. [Life!Next]_<<life, open>>
  BY <1>4, <1>8, <1>9, AbstractStep
<1> QED
  BY <1>8, <1>10 DEF LifeStep

\* The accepted socket is read, queued or released.
LEMMA SockAcceptEndLife ==
    ASSUME OwnerInv, OwnerInv', SockInv, NEW s \in Socks, SockAcceptEnd(s)
    PROVE  LifeStep
<1>1. /\ <<Driver, "fresh">> \in Places /\ <<Driver, "read">> \in Places /\ Driver \in Threads
      /\ s \in at[<<Driver, "fresh">>]
  BY PlaceNames, ThreadNames DEF SockAcceptEnd
<1>2. Work(Driver) = {}
  BY DEF SockAcceptEnd, At, OwnerInv, NoLeftover
<1>3. Stage(<<Driver, "fresh">>) = "reading" /\ Stage(<<Driver, "read">>)' = "reading"
  BY <1>1, StageNamesHold, StageNamesNext DEF StageNames
<1>4. open[s] /\ req \in [Socks -> BOOLEAN]
  BY <1>1, <1>3 DEF SockInv, SockOK, OwnerInv, TypeOK
<1>5. CASE SockRelease(Driver, s, <<Driver, "fresh">>)
  BY <1>1, <1>2, <1>3, <1>5, ReleaseLife
<1>6. CASE /\ at' = Move(s, <<Driver, "fresh">>, <<Driver, "read">>)
           /\ LeaveSock \/ SockPrepare(s)
  <2>1. UNCHANGED <<open, keep>> /\ (UNCHANGED req \/ req' = [req EXCEPT ![s] = TRUE])
    BY <1>6 DEF LeaveSock, SockPrepare, sock
  <2>2. SockOK(s, <<Driver, "read">>)'
    BY <1>4, <2>1, PromisesHoldNext DEF Promises
  <2> QED
    BY <1>1, <1>2, <1>3, <1>6, <2>1, <2>2, ReadLife
<1>7. CASE /\ SockQueue(Driver, s, <<Driver, "fresh">>)
           /\ SockPrepare(s) \/ (~Async /\ LeaveSock)
  <2>1. UNCHANGED <<open, keep>> /\ (UNCHANGED req \/ req' = [req EXCEPT ![s] = TRUE])
    BY <1>7 DEF LeaveSock, SockPrepare, sock
  <2>2. Async => req'[s]
    BY <1>4, <1>7 DEF SockPrepare
  <2> QED
    BY <1>1, <1>2, <1>3, <1>7, <2>1, <2>2, QueueLife
<1> QED
  BY <1>5, <1>6, <1>7 DEF SockAcceptEnd

\* A socket given back is read again only if its connection is open; else it
\* is released or drained.
LEMMA DriverReturnLife ==
    ASSUME OwnerInv, OwnerInv', SockInv, NEW s \in Socks, DriverReturn(s)
    PROVE  LifeStep
<1>1. /\ <<Driver, "work">> \in Places /\ <<Driver, "read">> \in Places
      /\ <<Driver, "close">> \in Places /\ Driver \in Threads /\ s \in at[<<Driver, "work">>]
  BY PlaceNames, ThreadNames DEF DriverReturn, Work
<1>2. dpc = "return" /\ dpc' = dpc
  BY DEF DriverReturn, At, drv
<1>3. /\ Stage(<<Driver, "work">>) = "closing" /\ Stage(<<Driver, "close">>)' = "closing"
      /\ Stage(<<Driver, "read">>)' = "reading"
  BY <1>1, <1>2, StageNamesHold, StageNamesNext DEF StageNames
<1>4. CASE SockRelease(Driver, s, <<Driver, "work">>)
  BY <1>1, <1>2, <1>3, <1>4, ReleaseLife
<1>5. CASE at' = Move(s, <<Driver, "work">>, <<Driver, "close">>) /\ LeaveSock
  <2>1. SockOK(s, <<Driver, "close">>)'
    BY PromisesHoldNext DEF Promises
  <2> QED
    BY <1>1, <1>2, <1>3, <1>5, <2>1, ReadLife DEF LeaveSock, sock
<1>6. CASE keep[s] /\ at' = Move(s, <<Driver, "work">>, <<Driver, "read">>) /\ LeaveSock
  <2>1. open[s]
    BY <1>1, <1>2, <1>6, WorkPromisesHold DEF SockInv, WorkPromises
  <2>2. UNCHANGED <<open, keep, req>>
    BY <1>6 DEF LeaveSock, sock
  <2>3. SockOK(s, <<Driver, "read">>)'
    BY <2>1, <2>2, PromisesHoldNext DEF Promises
  <2>4. /\ SockInv' /\ life[s] = Stage(<<Driver, "work">>)
        /\ life' = [life EXCEPT ![s] = Stage(<<Driver, "read">>)']
    BY <1>1, <1>2, <1>6, <2>2, <2>3, MoveLife
  <2>5. [Life!Next]_<<life, open>>
    BY <1>3, <2>1, <2>2, <2>4, AbstractStep
  <2> QED
    BY <2>4, <2>5 DEF LifeStep
<1> QED
  BY <1>4, <1>5, <1>6 DEF DriverReturn

\* A released socket goes back to the free list without its Request.
LEMMA SockReleaseEndLife ==
    ASSUME OwnerInv, OwnerInv', SockInv, NEW t \in Threads, SockReleaseEnd(t)
    PROVE  LifeStep
<1>1. <<t, "rel">> \in Places /\ <<Driver, "free">> \in Places
  BY PlaceNames
<1>2. PICK s \in at[<<t, "rel">>] :
          /\ req' = [req EXCEPT ![s] = FALSE] /\ UNCHANGED <<open, keep, drv>>
          /\ at' = Move(s, <<t, "rel">>, <<Driver, "free">>)
  BY DEF SockReleaseEnd
<1>3. s \in Socks /\ req \in [Socks -> BOOLEAN] /\ dpc' = dpc
  BY <1>1, <1>2 DEF OwnerInv, TypeOK, drv
<1>4. SockOK(s, <<Driver, "free">>)'
  BY <1>2, <1>3, PromisesHoldNext DEF Promises
<1>5. \A r \in Socks : r # s => req'[r] = req[r] /\ keep'[r] = keep[r] /\ open'[r] = open[r]
  BY <1>2, <1>3
<1>6. /\ SockInv' /\ life[s] = Stage(<<t, "rel">>)
      /\ life' = [life EXCEPT ![s] = Stage(<<Driver, "free">>)']
  BY <1>1, <1>2, <1>3, <1>4, <1>5, MoveLife
<1>7. Stage(<<t, "rel">>) = "closing" /\ Stage(<<Driver, "free">>)' = "free"
  BY StageNamesHold, StageNamesNext DEF StageNames
<1>8. [Life!Next]_<<life, open>>
  BY <1>2, <1>3, <1>6, <1>7, AbstractStep
<1> QED
  BY <1>6, <1>8 DEF LifeStep

\* A socket of a spooler is released, stays or is complete.
LEMMA SpoolerReadLife ==
    ASSUME OwnerInv, OwnerInv', SockInv, NEW p \in Spoolers, NEW s \in Socks, SpoolerRead(p, s)
    PROVE  LifeStep
<1>1. /\ <<p, "work">> \in Places /\ <<p, "read">> \in Places /\ <<p, "wait">> \in Places
      /\ p \in Threads /\ s \in at[<<p, "work">>]
  BY PlaceNames, ThreadNames DEF SpoolerRead, Work
<1>2. dpc' = dpc
  BY DEF SpoolerRead, drv
<1>3. /\ Stage(<<p, "work">>) = "reading" /\ Stage(<<p, "read">>)' = "reading"
      /\ Stage(<<p, "wait">>)' = "reading"
  BY <1>1, StageNamesHold, StageNamesNext DEF StageNames
<1>4. CASE SockRelease(p, s, <<p, "work">>)
  BY <1>1, <1>2, <1>3, <1>4, ReleaseLife
<1>5. CASE /\ LeaveSock
           /\ \/ at' = Move(s, <<p, "work">>, <<p, "read">>)
              \/ at' = Move(s, <<p, "work">>, <<p, "wait">>)
  <2>1. req[s] /\ open[s]
    BY <1>1, SpoolerPromisesHold DEF SockInv, SpoolerPromises
  <2>2. UNCHANGED <<open, keep, req>>
    BY <1>5 DEF LeaveSock, sock
  <2>3. SockOK(s, <<p, "read">>)' /\ SockOK(s, <<p, "wait">>)'
    BY <2>1, <2>2, PromisesHoldNext DEF SpoolerPromises
  <2> QED
    BY <1>1, <1>2, <1>3, <1>5, <2>2, <2>3, ReadLife
<1> QED
  BY <1>4, <1>5 DEF SpoolerRead

\* A complete request of the spooler is offered to the pool.
LEMMA SpoolerWaitLife ==
    ASSUME OwnerInv, OwnerInv', SockInv, NEW p \in Spoolers, NEW s \in Socks, SpoolerWait(p, s)
    PROVE  LifeStep
<1>1. <<p, "work">> \in Places /\ p \in Threads /\ s \in at[<<p, "work">>]
  BY PlaceNames, ThreadNames DEF SpoolerWait, Work
<1>2. dpc' = dpc /\ UNCHANGED <<open, keep, req>> /\ SockQueue(p, s, <<p, "work">>)
  BY DEF SpoolerWait, drv, LeaveSock, sock
<1>3. Stage(<<p, "work">>) = "reading"
  BY StageNamesHold DEF StageNames
<1>4. req'[s]
  BY <1>1, <1>2, SpoolerPromisesHold DEF SockInv, SpoolerPromises
<1> QED
  BY <1>1, <1>2, <1>3, <1>4, QueueLife

\* A connection thread takes the socket and its Request.
LEMMA NsGetRequestLife ==
    ASSUME OwnerInv, OwnerInv', SockInv, NEW s \in Socks, NsGetRequest(s)
    PROVE  LifeStep
<1>1. /\ <<Pool, "queued">> \in Places /\ <<Pool, "running">> \in Places
      /\ s \in at[<<Pool, "queued">>] /\ at' = Move(s, <<Pool, "queued">>, <<Pool, "running">>)
  BY PlaceNames DEF NsGetRequest, Queued
<1>2. dpc' = dpc /\ UNCHANGED <<open, keep>> /\ req' = [req EXCEPT ![s] = FALSE]
  BY DEF NsGetRequest, drv
<1>3. open[s] /\ req \in [Socks -> BOOLEAN]
  BY <1>1, PromisesHold DEF SockInv, Promises, OwnerInv, TypeOK
<1>4. SockOK(s, <<Pool, "running">>)'
  BY <1>2, <1>3, PromisesHoldNext DEF Promises
<1>5. Stage(<<Pool, "queued">>) = "queued" /\ Stage(<<Pool, "running">>)' = "queued"
  BY StageNamesHold, StageNamesNext DEF StageNames
<1> QED
  BY <1>1, <1>2, <1>4, <1>5, ReadLife

\* A connection thread closes the connection unless it keeps it.
LEMMA SockCloseLife ==
    ASSUME OwnerInv, OwnerInv', SockInv, NEW s \in Socks, NEW k \in BOOLEAN, SockClose(s, k)
    PROVE  LifeStep
<1>1. /\ <<Pool, "running">> \in Places /\ <<Pool, "closing">> \in Places
      /\ s \in at[<<Pool, "running">>] /\ at' = Move(s, <<Pool, "running">>, <<Pool, "closing">>)
  BY PlaceNames DEF SockClose, Running
<1>2. /\ dpc' = dpc /\ UNCHANGED req
      /\ keep' = [keep EXCEPT ![s] = k] /\ open' = [open EXCEPT ![s] = k \/ ~ClosesFd]
  BY DEF SockClose, drv
<1>3. open \in [Socks -> BOOLEAN] /\ keep \in [Socks -> BOOLEAN]
  BY DEF OwnerInv, TypeOK
<1>4. ~req[s] /\ open[s]
  BY <1>1, PromisesHold DEF SockInv, Promises
<1>5. SockOK(s, <<Pool, "closing">>)'
  BY <1>2, <1>3, <1>4, PromisesHoldNext DEF Promises
<1>6. \A r \in Socks : r # s => req'[r] = req[r] /\ keep'[r] = keep[r] /\ open'[r] = open[r]
  BY <1>2, <1>3
<1>7. /\ SockInv' /\ life[s] = Stage(<<Pool, "running">>)
      /\ life' = [life EXCEPT ![s] = Stage(<<Pool, "closing">>)']
  BY <1>1, <1>2, <1>5, <1>6, MoveLife
<1>8. Stage(<<Pool, "running">>) = "queued" /\ Stage(<<Pool, "closing">>)' = "closing"
  BY StageNamesHold, StageNamesNext DEF StageNames
<1>9. UNCHANGED open \/ open' = [open EXCEPT ![s] = FALSE]
  BY <1>2, <1>3, <1>4, SwitchesBoolean
<1>10. [Life!Next]_<<life, open>>
  BY <1>7, <1>8, <1>9, AbstractStep
<1> QED
  BY <1>7, <1>10 DEF LifeStep

\* A connection thread gives the socket back.
LEMMA NsSockCloseLife ==
    ASSUME OwnerInv, OwnerInv', SockInv, NEW s \in Socks, NsSockClose(s)
    PROVE  LifeStep
<1>1. /\ <<Pool, "closing">> \in Places /\ <<Driver, "closed">> \in Places
      /\ s \in at[<<Pool, "closing">>] /\ at' = Move(s, <<Pool, "closing">>, <<Driver, "closed">>)
  BY PlaceNames DEF NsSockClose, Closing
<1>2. dpc' = dpc /\ UNCHANGED <<open, keep, req>>
  BY DEF NsSockClose, drv, LeaveSock, sock
<1>3. SockOK(s, <<Driver, "closed">>)'
  BY <1>1, <1>2, PromisesHold, PromisesHoldNext DEF SockInv, Promises
<1>4. Stage(<<Pool, "closing">>) = "closing" /\ Stage(<<Driver, "closed">>)' = "closing"
  BY StageNamesHold, StageNamesNext DEF StageNames
<1> QED
  BY <1>1, <1>2, <1>3, <1>4, ReadLife

-----------------------------------------------------------------------------
(* The steps that move whole lists, and those that move nothing.  In the    *)
(* terms of SockLife nothing happens.                                       *)

\* Every socket is in a list of the stage it was in.
LEMMA SameLife ==
    ASSUME ListsOK, ListsOK', SockInv', UNCHANGED open,
           \A q \in Places : \A r \in at[q] :
                \E p \in Places : r \in at'[p] /\ Stage(p)' = Stage(q)
    PROVE  LifeStep
<1>1. ASSUME NEW r \in Socks PROVE life'[r] = life[r]
  <2>1. PICK q \in Places : r \in at[q]
    BY DEF ListsOK, OneOwner
  <2>2. PICK p \in Places : r \in at'[p] /\ Stage(p)' = Stage(q)
    BY <2>1
  <2>3. life[r] = Stage(q)
    BY <2>1, LifeIsStageHolds DEF LifeIsStage
  <2>4. life'[r] = Stage(p)'
    BY <2>2, LifeIsStageNext DEF LifeIsStage
  <2> QED
    BY <2>2, <2>3, <2>4
<1>2. life' = life
  <2>1. life = [r \in Socks |-> life[r]] /\ life' = [r \in Socks |-> life'[r]]
    BY DEF life
  <2> HIDE DEF life
  <2> QED
    BY <1>1, <2>1
<1> QED
  BY <1>2 DEF LifeStep

\* An inner loop takes over a list whose promise is the one of its own.
LEMMA TakeLife ==
    ASSUME OwnerInv, OwnerInv', SockInv, NEW t \in Threads, NEW from \in Places,
           \A u \in Threads : from # <<u, "work">>,
           Work(t) = {}, at' = Take(from, t), UNCHANGED <<open, keep, req>>,
           dpc' = dpc \/ t = Driver,
           Stage(<<t, "work">>)' = Stage(from),
           \A s \in Socks : SockOK(s, from) => SockOK(s, <<t, "work">>)'
    PROVE  LifeStep
<1>1. ListsOK /\ ListsOK'
  BY DEF OwnerInv, TypeOK, ListsOK
<1>2. <<t, "work">> \in Places /\ at[<<t, "work">>] = {} /\ from # <<t, "work">>
  BY PlaceNames DEF Work
<1>3. \A q \in Places : at'[q] = IF q = <<t, "work">> THEN at[from]
                                 ELSE IF q = from THEN {} ELSE at[q]
  BY <1>1, <1>2, TakeAt
<1>4. ASSUME NEW q \in Places, q # from, NEW r \in at[q]
      PROVE  r \in at'[q] /\ SockOK(r, q)' /\ Stage(q)' = Stage(q)
  <2>1. q # <<t, "work">> /\ r \in Socks
    BY <1>1, <1>2, <1>4 DEF ListsOK
  <2>2. dpc' = dpc \/ q # <<Driver, "work">>
    BY <2>1
  <2>3. SockOK(r, q)
    BY <1>4 DEF SockInv
  <2> QED
    BY <1>3, <1>4, <2>1, <2>2, <2>3, SamePromise
<1>5. SockInv'
  <2> SUFFICES ASSUME NEW q \in Places, NEW r \in at'[q] PROVE SockOK(r, q)'
    BY DEF SockInv
  <2>1. r \in Socks
    BY <1>1 DEF ListsOK
  <2>2. CASE q = <<t, "work">>
    BY <1>3, <2>1, <2>2 DEF SockInv
  <2>3. CASE q # <<t, "work">>
    BY <1>3, <1>4, <2>3
  <2> QED
    BY <2>2, <2>3
<1>6. \A q \in Places : \A r \in at[q] : \E p \in Places : r \in at'[p] /\ Stage(p)' = Stage(q)
  BY <1>2, <1>3, <1>4
<1> QED
  BY <1>1, <1>5, <1>6, SameLife

\* No list changes.
LEMMA StillLife ==
    ASSUME OwnerInv, OwnerInv', SockInv, UNCHANGED <<at, open, keep, req>>,
           dpc' = dpc \/ Work(Driver) = {}
    PROVE  LifeStep
<1>1. ListsOK /\ ListsOK'
  BY DEF OwnerInv, TypeOK, ListsOK
<1>2. ASSUME NEW q \in Places, NEW r \in at[q]
      PROVE  SockOK(r, q)' /\ Stage(q)' = Stage(q)
  <2>1. r \in Socks /\ SockOK(r, q) /\ (dpc' = dpc \/ q # <<Driver, "work">>)
    BY <1>1, <1>2 DEF ListsOK, SockInv, Work
  <2> QED
    BY <2>1, SamePromise
<1>3. SockInv'
  BY <1>2 DEF SockInv
<1>4. \A q \in Places : \A r \in at[q] : \E p \in Places : r \in at'[p] /\ Stage(p)' = Stage(q)
  BY <1>2
<1> QED
  BY <1>1, <1>3, <1>4, SameLife

\* The driver's inner loops start.
LEMMA DriverTakesLife ==
    ASSUME OwnerInv, OwnerInv', SockInv,
           DriverPoll \/ DriverDrainEnd \/ DriverReadEnd \/ DriverCollect
    PROVE  LifeStep
<1>1. UNCHANGED <<open, keep, req>> /\ Work(Driver) = {}
  BY DEF DriverPoll, DriverDrainEnd, DriverReadEnd, DriverCollect, LeaveSock, sock, At,
         OwnerInv, NoLeftover
<1>2. PICK name \in {"close", "read", "wait", "closed"} :
          /\ at' = Take(<<Driver, name>>, Driver)
          /\ dpc' = CASE name = "close" -> "drain" [] name = "read" -> "read"
                      [] name = "wait" -> "wait" [] name = "closed" -> "return"
  BY DEF DriverPoll, DriverDrainEnd, DriverReadEnd, DriverCollect
<1>3. <<Driver, name>> \in Places /\ Driver \in Threads
  BY PlaceNames, ThreadNames
<1>4. Stage(<<Driver, "work">>)' = Stage(<<Driver, name>>)
  BY <1>2, <1>3, StageNamesHold, StageNamesNext DEF StageNames
<1>5. ASSUME NEW s \in Socks, SockOK(s, <<Driver, name>>)
      PROVE  SockOK(s, <<Driver, "work">>)'
  BY <1>1, <1>2, <1>5, PromisesHold, PromisesHoldNext DEF Promises, WorkPromises
<1> QED
  BY <1>1, <1>2, <1>3, <1>4, <1>5, TakeLife

\* A spooler's inner loops start.
LEMMA SpoolerTakesLife ==
    ASSUME OwnerInv, OwnerInv', SockInv, NEW p \in Spoolers, SpoolerRound(p) \/ SpoolerReadEnd(p)
    PROVE  LifeStep
<1>1. UNCHANGED <<open, keep, req, dpc>> /\ Work(p) = {}
  BY DEF SpoolerRound, SpoolerReadEnd, LeaveSock, sock, drv, SpoolerAt, OwnerInv, NoLeftover
<1>2. PICK name \in {"read", "wait"} : at' = Take(<<p, name>>, p)
  BY DEF SpoolerRound, SpoolerReadEnd
<1>3. <<p, name>> \in Places /\ p \in Threads
  BY PlaceNames, ThreadNames
<1>4. Stage(<<p, "work">>)' = Stage(<<p, name>>)
  BY <1>2, <1>3, StageNamesHold, StageNamesNext DEF StageNames
<1>5. ASSUME NEW s \in Socks, SockOK(s, <<p, name>>)
      PROVE  SockOK(s, <<p, "work">>)'
  BY <1>1, <1>2, <1>5, SpoolerPromisesHold, PromisesHoldNext DEF SpoolerPromises
<1> QED
  BY <1>1, <1>2, <1>3, <1>4, <1>5, TakeLife, ZenonT(30)

\* A spooler appends the submitted sockets to readPtr, or leaves them.
LEMMA SpoolerCollectLife ==
    ASSUME OwnerInv, OwnerInv', SockInv, NEW p \in Spoolers, SpoolerCollect(p)
    PROVE  LifeStep
<1>1. UNCHANGED <<open, keep, req, dpc>>
  BY DEF SpoolerCollect, LeaveSock, sock, drv
<1>2. CASE UNCHANGED at
  BY <1>1, <1>2, StillLife
<1>3. CASE at' = [at EXCEPT ![<<p, "read">>] = @ \cup at[<<p, "queue">>], ![<<p, "queue">>] = {}]
  <2> DEFINE into == <<p, "read">>
             from == <<p, "queue">>
  <2>1. into \in Places /\ from \in Places /\ into # from /\ p \in Threads
    BY PlaceNames, ThreadNames
  <2>2. Stage(into)' = "reading" /\ Stage(from) = "reading"
    BY <2>1, StageNamesHold, StageNamesNext DEF StageNames
  <2>3. \A s \in Socks : SockOK(s, from) => SockOK(s, into)'
    BY <1>1, SpoolerPromisesHold, PromisesHoldNext DEF SpoolerPromises
  <2>4. ListsOK /\ ListsOK'
    BY DEF OwnerInv, TypeOK, ListsOK
  <2>5. /\ at'[from] = {} /\ at'[into] = at[into] \cup at[from]
        /\ \A q \in Places : q # from /\ q # into => at'[q] = at[q]
    BY <1>3, <2>1, <2>4 DEF ListsOK
  <2> HIDE DEF into, from
  <2>6. ASSUME NEW q \in Places, NEW r \in at[q]
        PROVE  r \in Socks /\ SockOK(r, q)' /\ Stage(q)' = Stage(q) /\ SockOK(r, q)
    BY <1>1, <2>4, SamePromise DEF ListsOK, SockInv
  <2>7. SockInv'
    BY <2>1, <2>3, <2>5, <2>6 DEF SockInv
  <2>8. \A q \in Places : \A r \in at[q] : \E u \in Places : r \in at'[u] /\ Stage(u)' = Stage(q)
    BY <2>1, <2>2, <2>5, <2>6
  <2> QED
    BY <1>1, <2>4, <2>7, <2>8, SameLife
<1> QED
  BY <1>2, <1>3 DEF SpoolerCollect

\* Steps that change neither lists nor sockets.
LEMMA OtherStepsLife ==
    ASSUME OwnerInv, OwnerInv', SockInv,
           \/ DriverStart \/ DriverWaitEnd \/ SockAcceptCount \/ DriverAcceptEnd \/ DriverReturnEnd
           \/ SpoolerTrigger \/ SockTrigger \/ NsWakeupDriver \/ NsStopDrivers
           \/ \E p \in Spoolers : NsStopSpoolers(p)
    PROVE  LifeStep
<1>1. UNCHANGED <<at, open, keep, req>>
  BY DEF DriverStart, DriverWaitEnd, SockAcceptCount, DriverAcceptEnd, DriverReturnEnd,
         SpoolerTrigger, SockTrigger, NsWakeupDriver, NsStopDrivers, NsStopSpoolers,
         LeaveSock, sock
<1>2. dpc' = dpc \/ Work(Driver) = {}
  BY DEF DriverStart, DriverWaitEnd, SockAcceptCount, DriverAcceptEnd, DriverReturnEnd,
         SpoolerTrigger, SockTrigger, NsWakeupDriver, NsStopDrivers, NsStopSpoolers,
         drv, At, OwnerInv, NoLeftover
<1> QED
  BY <1>1, <1>2, StillLife

-----------------------------------------------------------------------------

\* Every step keeps SockInv and is a step of SockLife or none.
LEMMA EveryStepLife == OwnerInv /\ SockInv /\ Next => LifeStep
<1> SUFFICES ASSUME OwnerInv, SockInv, Next PROVE LifeStep
  OBVIOUS
<1>0. OwnerInv'
  BY OwnerStep
<1>1. CASE DriverThread
  <2>1. CASE DriverPoll \/ DriverDrainEnd \/ DriverReadEnd \/ DriverCollect
    BY <1>0, <2>1, DriverTakesLife
  <2>2. CASE \/ DriverStart \/ DriverWaitEnd \/ SockAcceptCount \/ DriverAcceptEnd
             \/ DriverReturnEnd \/ SpoolerTrigger
    BY <1>0, <2>2, OtherStepsLife
  <2>3. CASE SockReleaseEnd(Driver)
    BY <1>0, <2>3, SockReleaseEndLife, ThreadNames
  <2>4. ASSUME NEW s \in Socks,
               \/ DriverDrain(s) \/ DriverRead(s) \/ DriverWait(s)
               \/ SockAcceptEnd(s) \/ DriverReturn(s)
        PROVE  LifeStep
    BY <1>0, <2>4, DriverDrainLife, DriverReadLife, DriverWaitLife, SockAcceptEndLife,
       DriverReturnLife
  <2> QED
    BY <1>1, <2>1, <2>2, <2>3, <2>4 DEF DriverThread
<1>2. ASSUME NEW p \in Spoolers, SpoolerThread(p) \/ SpoolerEvent(p) \/ NsStopSpoolers(p)
      PROVE  LifeStep
  <2>1. CASE SpoolerPoll(p) \/ SpoolerEvent(p) \/ SpoolerReadEnd(p)
    BY <1>0, <2>1, SpoolerTakesLife DEF SpoolerPoll, SpoolerEvent
  <2>2. CASE SpoolerCollect(p)
    BY <1>0, <2>2, SpoolerCollectLife
  <2>3. CASE SockReleaseEnd(p)
    BY <1>0, <2>3, SockReleaseEndLife, ThreadNames
  <2>4. ASSUME NEW s \in Socks, SpoolerRead(p, s) \/ SpoolerWait(p, s)
        PROVE  LifeStep
    BY <1>0, <2>4, SpoolerReadLife, SpoolerWaitLife
  <2>5. CASE NsStopSpoolers(p)
    BY <1>0, <2>5, OtherStepsLife
  <2> QED
    BY <1>2, <2>1, <2>2, <2>3, <2>4, <2>5 DEF SpoolerThread
<1>3. ASSUME NEW s \in Socks,
             \/ SockAccept(s) \/ NsGetRequest(s) \/ NsSockClose(s)
             \/ \E k \in BOOLEAN : SockClose(s, k)
      PROVE  LifeStep
  BY <1>0, <1>3, SockAcceptLife, NsGetRequestLife, NsSockCloseLife, SockCloseLife
<1>4. CASE SockTrigger \/ NsWakeupDriver \/ NsStopDrivers
  BY <1>0, <1>4, OtherStepsLife, ZenonT(30)
<1> QED
  BY <1>1, <1>2, <1>3, <1>4 DEF Next

\* A step that changes no variable.
LEMMA StutterLife == SockInv /\ UNCHANGED vars => LifeStep
BY SMT DEF LifeStep, vars, sock, drv, wake, spool, SockInv, SockOK, Stage, NoRequest, HasRequest,
       KeepDecided, life, Free, Queued, Running, Closing, Closed, Work

\* At the start every Sock is free, has no Request and no connection.
LEMMA LifeInit == Init => SockInv /\ Life!Init
<1> SUFFICES ASSUME Init PROVE SockInv /\ Life!Init
  OBVIOUS
<1>1. SockInv
  BY PromisesHold DEF Init, SockInv, Promises
<1>2. Life!Init
  BY PlaceNames DEF Init, Life!Init, life, Free
<1> QED
  BY <1>1, <1>2

\* The promises of the lists hold in every state.
LEMMA SockInvAlways == Spec => []SockInv
<1>1. OwnerInv /\ SockInv /\ [Next]_vars => SockInv'
  BY EveryStepLife, StutterLife DEF LifeStep
<1>2. Init => SockInv
  BY LifeInit
<1> QED
  BY <1>1, <1>2, OneOwnerAlways, PTL DEF Spec

\* For any number of sockets and spoolers: the Request of a socket is handed
\* over once.  A free, running or given back socket has none; in async mode
\* one that is queued or waits for the pool has a complete one (NsGetRequest,
\* SockRelease, SockQueue, SockSpoolerQueue).
THEOREM RequestsHandedOver == Spec => []RequestHandedOver
<1>1. OwnerInv /\ SockInv => RequestHandedOver
  <2> SUFFICES ASSUME OwnerInv, SockInv PROVE RequestHandedOver
    OBVIOUS
  <2>1. \A p \in Places : at[p] \subseteq Socks
    BY DEF OwnerInv, TypeOK
  <2>2. \A s \in Free \cup Running \cup Closing \cup Closed : ~req[s]
    BY <2>1, PlaceNames, PromisesHold DEF SockInv, Promises, Free, Running, Closing, Closed
  <2>3. ASSUME Async, NEW s \in Queued PROVE req[s]
    BY <2>1, <2>3, PlaceNames, PromisesHold DEF SockInv, Promises, Queued
  <2>4. ASSUME Async, NEW t \in Threads, NEW s \in at[<<t, "wait">>] PROVE req[s]
    <3>1. <<t, "wait">> \in Places /\ s \in Socks /\ SockOK(s, <<t, "wait">>)
      BY <2>1, <2>4, PlaceNames DEF SockInv
    <3> QED
      BY <2>4, <3>1, PromisesHold, SpoolerPromisesHold DEF Promises, SpoolerPromises, Threads
  <2> QED
    BY <2>2, <2>3, <2>4 DEF RequestHandedOver
<1> QED
  BY <1>1, OneOwnerAlways, SockInvAlways, PTL

\* For any number of sockets and spoolers, and driver modules of either kind,
\* the threads together implement the life cycle of SockLife: no socket is
\* queued or read again after its connection was closed before it has been
\* through the free list, and only SockRelease frees it (DriverThread,
\* SpoolerThread, NsSockClose, SockClose).
THEOREM ImplementsSockLife == Spec => LifeSpec
<1>1. Init => Life!Init
  BY LifeInit
<1>2. OwnerInv /\ SockInv /\ [Next]_vars => [Life!Next]_<<life, open>>
  BY EveryStepLife, StutterLife DEF LifeStep
<1> QED
  BY <1>1, <1>2, OneOwnerAlways, SockInvAlways, PTL DEF Spec, LifeSpec, Life!Spec

=============================================================================
