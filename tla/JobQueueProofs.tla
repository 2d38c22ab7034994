--------------------------- MODULE JobQueueProofs ---------------------------
(***************************************************************************)
(* ns_job keeps its queues and jobs for every number of queues, jobs,      *)
(* callers and threads: a queue in use is not deleted, its reference count *)
(* is exact, no job is used after it is freed, and the limits are kept.    *)
(***************************************************************************)
EXTENDS JobQueue, FiniteSetTheorems, SequenceTheorems, WellFoundedInduction, TLAPS

\* Most leaves are first-order; the ones that need arithmetic or sequences cite SMT.
USE Zenon

\* The types.
JobTypes ==
    /\ qLock \in [JobQueues -> JobClients \cup {JobNone}]
    /\ jobQs \subseteq JobQueues /\ qDelete \subseteq jobQs
    /\ qRef \in [JobQueues -> Int] /\ qRunning \in [JobQueues -> Int]
    /\ jobsOf \in [JobQueues -> SUBSET Jobs]
    /\ firstPtr \in Seq(Jobs)
    /\ jobState \in [Jobs -> {"new", "refused", "scheduled", "running", "done"}]
    /\ jobQueue \in [Jobs -> JobQueues \cup {JobNone}]
    /\ jobFreed \subseteq Jobs
    /\ tpThreads \in Int /\ tpIdle \in Int
    /\ wpc \in [JobThreads -> {"none", "start", "again", "wait", "woken", "timedout", "run", "over"}]
    /\ wjob \in [JobThreads -> Jobs \cup {JobNone}]
    /\ cpc \in [JobClients -> {"idle", "waiting", "woken", "waitany", "wokenany", "deleting"}]
    /\ cq \in [JobClients -> JobQueues \cup {JobNone}]
    /\ cj \in [JobClients -> Jobs \cup {JobNone}]

\* A job that waits or runs is in its queue's table; one that is in a table
\* is not freed.
JobOK(j) ==
    /\ jobState[j] = "new" => j \notin jobFreed
    /\ jobState[j] \in {"scheduled", "running"} => jobQueue[j] \in JobQueues /\ j \in jobsOf[jobQueue[j]]
    /\ \A q \in JobQueues : j \in jobsOf[q] =>
          jobQueue[j] = q /\ j \notin jobFreed /\ jobState[j] \in {"scheduled", "running", "done"}

\* The list holds scheduled jobs, each once.
ListOK ==
    /\ \A i \in DOMAIN firstPtr : jobState[firstPtr[i]] = "scheduled"
    /\ \A i, k \in DOMAIN firstPtr : firstPtr[i] = firstPtr[k] => i = k

\* A thread that runs has a running job of its own.
ThreadOK(w) ==
    /\ wjob[w] # JobNone <=> wpc[w] = "run"
    /\ wpc[w] = "run" => jobState[wjob[w]] = "running"
    /\ wpc[w] = "run" => \A v \in JobThreads : wjob[v] = wjob[w] => v = w

\* A caller that waits for a job has it to itself; one that deletes a queue
\* has its lock, and nobody uses the queue.
CallerOK(c) ==
    /\ cj[c] # JobNone <=> cpc[c] \in {"waiting", "woken"}
    /\ cpc[c] # "idle" => cq[c] \in JobQueues
    /\ cpc[c] \in {"waiting", "woken"} =>
          /\ cj[c] \in jobsOf[cq[c]] /\ cj[c] \in jobWaited \ jobDetached
          /\ \A d \in JobClients : cj[d] = cj[c] => d = c
    /\ cpc[c] = "deleting" =>
          qLock[cq[c]] = c /\ cq[c] \in qDelete /\ qRef[cq[c]] <= 0 /\ jobsOf[cq[c]] = {}

\* Threads and callers that use a queue, and its running jobs.
WOn(q) == {w \in JobThreads : wjob[w] # JobNone /\ jobQueue[wjob[w]] = q}
COn(q) == {c \in JobClients : cq[c] = q /\ cpc[c] \notin {"idle", "deleting"}}
JOn(q) == {j \in Jobs : jobState[j] = "running" /\ jobQueue[j] = q}

QueueOK(q) ==
    /\ jobsOf[q] # {} \/ qRef[q] > 0 => q \in jobQs
    /\ qRef[q] = Cardinality(WOn(q)) + Cardinality(COn(q))
    /\ qRunning[q] = Cardinality(JOn(q)) /\ qRunning[q] <= QueueMax[q]

\* The threads of the pool, and those that are idle.
WAlive == {w \in JobThreads : wpc[w] # "none"}
WIdle == {w \in JobThreads : wpc[w] \in {"wait", "woken", "timedout"}}
PoolOK == tpThreads = Cardinality(WAlive) /\ tpIdle = Cardinality(WIdle)

\* The inductive invariant.
JobIInv ==
    /\ JobTypes /\ ListOK /\ PoolOK
    /\ \A j \in Jobs : JobOK(j)
    /\ \A w \in JobThreads : ThreadOK(w)
    /\ \A c \in JobClients : CallerOK(c)
    /\ \A q \in JobQueues : QueueOK(q)

\* What the counts of a queue change by.
LEMMA IntStep ==
    /\ \A n \in Int : n + 1 \in Int /\ n - 1 \in Int
    /\ \A m, n \in Nat : (m + n) + 1 = (m + 1) + n /\ (m + n) - 1 = (m - 1) + n
    /\ \A m, n \in Int : m < n => m + 1 <= n
    /\ \A m, n \in Int : m <= n => m - 1 <= n
  BY SMT

\* The list holds jobs that wait to run.
LEMMA ListedJobs ==
    ASSUME JobIInv
    PROVE  \A i \in DOMAIN firstPtr : i \in Nat /\ firstPtr[i] \in Jobs /\ jobState[firstPtr[i]] = "scheduled"
<1>1. \A i \in DOMAIN firstPtr : i \in Nat /\ firstPtr[i] \in Jobs
  BY SMT DEF JobIInv, JobTypes
<1> QED
  BY <1>1 DEF JobIInv, ListOK

\* It implies what the runs check.
LEMMA JobIInvImplies == JobIInv => QueueInv
<1> SUFFICES ASSUME JobIInv PROVE QueueInv
  OBVIOUS
<1>1. \A i \in DOMAIN firstPtr : firstPtr[i] \in Jobs
  BY ListedJobs
<1>2. JobQueueInUse
  <2>1. \A i \in DOMAIN firstPtr : firstPtr[i] \in jobsOf[jobQueue[firstPtr[i]]]
    BY <1>1 DEF JobIInv, ListOK, JobOK
  <2>2. \A q \in JobQueues : jobsOf[q] # {} \/ qRef[q] > 0 => q \in jobQs
    BY DEF JobIInv, QueueOK
  <2>3. \A q \in JobQueues : qRef[q] = Cardinality(WOn(q)) + Cardinality(COn(q))
    BY DEF JobIInv, QueueOK
  <2> QED
    BY <2>1, <2>2, <2>3 DEF WOn, COn, JobQueueInUse
<1>3. JobNoDangling
  <2>1. \A q \in JobQueues : jobsOf[q] \cap jobFreed = {}
    BY DEF JobIInv, JobTypes, JobOK
  <2>2. \A i \in DOMAIN firstPtr : firstPtr[i] \notin jobFreed
    BY <1>1 DEF JobIInv, ListOK, JobOK
  <2>3. \A j \in Jobs : jobState[j] \in {"scheduled", "running"} => j \notin jobFreed
    BY DEF JobIInv, JobOK
  <2>4. jobFreed \subseteq Jobs
    BY DEF JobIInv, JobTypes
  <2>5. \A w \in JobThreads : wjob[w] \notin jobFreed
    BY <2>3, <2>4, JobAssumption, ZenonT(30) DEF JobIInv, JobTypes, ThreadOK
  <2>6. \A c \in JobClients : cj[c] \notin jobFreed
    <3> SUFFICES ASSUME NEW c \in JobClients, cj[c] \in jobFreed PROVE FALSE
      OBVIOUS
    <3>1. cj[c] # JobNone /\ CallerOK(c)
      BY <2>4, JobAssumption DEF JobIInv
    <3>2. cpc[c] \in {"waiting", "woken"} /\ cq[c] \in JobQueues /\ cj[c] \in jobsOf[cq[c]]
      BY <3>1 DEF CallerOK
    <3> QED
      BY <2>1, <3>2
  <2> QED
    BY <2>1, <2>2, <2>5, <2>6 DEF JobNoDangling
<1>4. JobLimits
  <2>1. \A q \in JobQueues : Cardinality(JOn(q)) <= QueueMax[q]
    BY DEF JobIInv, QueueOK
  <2>2. tpThreads = Cardinality(WAlive) /\ tpIdle = Cardinality(WIdle)
    BY DEF JobIInv, PoolOK
  <2> QED
    BY <2>1, <2>2 DEF JOn, WAlive, WIdle, JobLimits
<1> QED
  BY <1>2, <1>3, <1>4 DEF QueueInv

\* The sets that are counted are finite.
LEMMA CountsFinite ==
    /\ \A q : /\ IsFiniteSet(WOn(q)) /\ Cardinality(WOn(q)) \in Nat
              /\ IsFiniteSet(COn(q)) /\ Cardinality(COn(q)) \in Nat
              /\ IsFiniteSet(JOn(q)) /\ Cardinality(JOn(q)) \in Nat
    /\ IsFiniteSet(WAlive) /\ Cardinality(WAlive) \in Nat
    /\ IsFiniteSet(WIdle) /\ Cardinality(WIdle) \in Nat
<1>1. /\ WAlive \subseteq JobThreads /\ WIdle \subseteq JobThreads
      /\ \A q : WOn(q) \subseteq JobThreads /\ COn(q) \subseteq JobClients /\ JOn(q) \subseteq Jobs
  BY DEF WAlive, WIdle, WOn, COn, JOn
<1>2. /\ IsFiniteSet(WAlive) /\ IsFiniteSet(WIdle)
      /\ \A q : IsFiniteSet(WOn(q)) /\ IsFiniteSet(COn(q)) /\ IsFiniteSet(JOn(q))
  BY <1>1, FS_Subset, JobAssumption
<1> QED
  BY <1>2, FS_CardinalityType

\* A thread that waits, woken by a broadcast or not, is as good as before.
LEMMA WorkersSame ==
    ASSUME JobIInv, UNCHANGED <<wjob, jobState, jobQueue, firstPtr, tpThreads, tpIdle>>,
           wpc' = wpc \/ wpc' = TpBroadcast
    PROVE  /\ ListOK' /\ PoolOK' /\ \A w \in JobThreads : ThreadOK(w)'
           /\ \A q : WOn(q)' = WOn(q) /\ JOn(q)' = JOn(q)
           /\ wpc' \in [JobThreads -> {"none", "start", "again", "wait", "woken", "timedout", "run", "over"}]
<1>1. /\ wpc' \in [JobThreads -> {"none", "start", "again", "wait", "woken", "timedout", "run", "over"}]
      /\ \A w \in JobThreads : /\ wpc'[w] = "run" <=> wpc[w] = "run"
                               /\ wpc'[w] # "none" <=> wpc[w] # "none"
                               /\ wpc'[w] \in {"wait", "woken", "timedout"} <=> wpc[w] \in {"wait", "woken", "timedout"}
  BY SMT DEF JobIInv, JobTypes, TpBroadcast
<1>2. ListOK'
  BY DEF JobIInv, ListOK
<1>3. WAlive' = WAlive /\ WIdle' = WIdle
  BY <1>1, SMT DEF WAlive, WIdle
<1>4. PoolOK'
  BY <1>3 DEF JobIInv, PoolOK
<1>5. \A w \in JobThreads : ThreadOK(w)'
  <2> SUFFICES ASSUME NEW w \in JobThreads PROVE ThreadOK(w)'
    OBVIOUS
  <2>1. ThreadOK(w) /\ (wpc'[w] = "run" <=> wpc[w] = "run")
    BY <1>1 DEF JobIInv
  <2> QED
    BY <2>1 DEF ThreadOK
<1>6. \A q : WOn(q)' = WOn(q) /\ JOn(q)' = JOn(q)
  BY DEF WOn, JOn
<1> QED
  BY <1>1, <1>2, <1>4, <1>5, <1>6

\* A caller leaves queue q by ReleaseQueue: it is idle, or, with the queue's
\* lock, about to delete a queue that nobody uses.
LEMMA CallerLeaves ==
    ASSUME JobIInv, NEW c \in JobClients, NEW q \in JobQueues, QFree(q),
           Release(c, q, qRef'[q], jobsOf'[q], qDelete'),
           cj' = [cj EXCEPT ![c] = JobNone],
           \A r \in JobQueues \ {q} : qRef'[r] = qRef[r] /\ jobsOf'[r] = jobsOf[r],
           \A d \in JobClients : d # c /\ cj[d] \in jobsOf[q] => cj[d] \in jobsOf'[q],
           \A d \in JobClients : d # c /\ cj[d] \in jobWaited => cj[d] \in jobWaited',
           UNCHANGED jobDetached, qDelete \subseteq qDelete',
           cpc[c] \notin {"idle", "deleting"} => cq[c] = q, cpc[c] # "deleting"
    PROVE  /\ \A d \in JobClients : CallerOK(d)'
           /\ cpc' \in [JobClients -> {"idle", "waiting", "woken", "waitany", "wokenany", "deleting"}]
           /\ cq' \in [JobClients -> JobQueues \cup {JobNone}]
           /\ cj' \in [JobClients -> Jobs \cup {JobNone}]
           /\ qLock' \in [JobQueues -> JobClients \cup {JobNone}]
           /\ \A r \in JobQueues : COn(r)' = COn(r) \ {c}
<1> DEFINE del == Deletable(q, qRef'[q], jobsOf'[q], qDelete')
<1>1. /\ cpc' = [cpc EXCEPT ![c] = IF del THEN "deleting" ELSE "idle"]
      /\ cq' = [cq EXCEPT ![c] = IF del THEN q ELSE JobNone]
      /\ qLock' = IF del THEN [qLock EXCEPT ![q] = c] ELSE qLock
  BY DEF Release
<1>2. /\ cpc \in [JobClients -> {"idle", "waiting", "woken", "waitany", "wokenany", "deleting"}]
      /\ cq \in [JobClients -> JobQueues \cup {JobNone}] /\ cj \in [JobClients -> Jobs \cup {JobNone}]
      /\ qLock \in [JobQueues -> JobClients \cup {JobNone}]
  BY DEF JobIInv, JobTypes
<1>3. /\ cpc' \in [JobClients -> {"idle", "waiting", "woken", "waitany", "wokenany", "deleting"}]
      /\ cq' \in [JobClients -> JobQueues \cup {JobNone}] /\ cj' \in [JobClients -> Jobs \cup {JobNone}]
      /\ qLock' \in [JobQueues -> JobClients \cup {JobNone}]
  BY <1>1, <1>2
<1>4. /\ cpc'[c] = (IF del THEN "deleting" ELSE "idle") /\ cj'[c] = JobNone
      /\ cq'[c] = (IF del THEN q ELSE JobNone)
  BY <1>1, <1>2
<1>5. CallerOK(c)'
  <2>1. CASE del
    <3>1. cpc'[c] = "deleting" /\ cq'[c] = q /\ qLock'[q] = c
      BY <1>1, <1>2, <1>4, <2>1
    <3> QED
      BY <3>1, <1>4, <2>1 DEF CallerOK, Deletable
  <2>2. CASE ~del
    BY <1>4, <2>2 DEF CallerOK
  <2> QED
    BY <2>1, <2>2
<1>6. ASSUME NEW d \in JobClients, d # c PROVE CallerOK(d)'
  <2>1. CallerOK(d) /\ cpc'[d] = cpc[d] /\ cq'[d] = cq[d] /\ cj'[d] = cj[d]
    BY <1>1, <1>2, <1>6 DEF JobIInv
  <2>2. cpc[d] \in {"waiting", "woken"} => cj[d] \in jobsOf'[cq[d]] /\ cj[d] \in jobWaited' \ jobDetached'
    <3> SUFFICES ASSUME cpc[d] \in {"waiting", "woken"}
                 PROVE  cj[d] \in jobsOf'[cq[d]] /\ cj[d] \in jobWaited' \ jobDetached'
      OBVIOUS
    <3>1. cq[d] \in JobQueues /\ cj[d] \in jobsOf[cq[d]] /\ cj[d] \in jobWaited \ jobDetached
      BY <2>1 DEF CallerOK
    <3>2. cj[d] \in jobsOf'[cq[d]]
      BY <1>6, <3>1
    <3> QED
      BY <1>6, <3>1, <3>2
  <2>3. cpc[d] \in {"waiting", "woken"} => \A e \in JobClients : cj'[e] = cj[d] => e = d
    <3> SUFFICES ASSUME cpc[d] \in {"waiting", "woken"}, NEW e \in JobClients, cj'[e] = cj[d] PROVE e = d
      OBVIOUS
    <3>1. cj[d] # JobNone
      BY <2>1 DEF CallerOK
    <3>2. e # c
      BY <3>1, <1>4
    <3>3. cj[e] = cj[d]
      BY <3>2, <1>2
    <3> QED
      BY <2>1, <3>3 DEF CallerOK
  <2>4. cpc[d] = "deleting" =>
          qLock'[cq[d]] = d /\ cq[d] \in qDelete' /\ qRef'[cq[d]] <= 0 /\ jobsOf'[cq[d]] = {}
    <3> SUFFICES ASSUME cpc[d] = "deleting"
                 PROVE  qLock'[cq[d]] = d /\ cq[d] \in qDelete' /\ qRef'[cq[d]] <= 0 /\ jobsOf'[cq[d]] = {}
      OBVIOUS
    <3>1. cq[d] \in JobQueues /\ qLock[cq[d]] = d /\ cq[d] \in qDelete /\ qRef[cq[d]] <= 0 /\ jobsOf[cq[d]] = {}
      BY <2>1 DEF CallerOK
    <3>2. cq[d] # q
      BY <3>1, JobAssumption DEF QFree
    <3> QED
      BY <3>1, <3>2, <1>1, <1>2
  <2> QED
    BY <2>1, <2>2, <2>3, <2>4 DEF CallerOK
<1>7. ASSUME NEW r \in JobQueues PROVE COn(r)' = COn(r) \ {c}
  <2>1. c \notin COn(r)'
    BY <1>4 DEF COn
  <2>2. \A d \in JobClients : d # c => (d \in COn(r)' <=> d \in COn(r))
    BY <1>1, <1>2 DEF COn
  <2> QED
    BY <2>1, <2>2 DEF COn
<1> QED
  BY <1>3, <1>5, <1>6, <1>7

\* Taking finished jobs that nobody else has out of a table and freeing them.
LEMMA JobsTaken ==
    ASSUME JobIInv, NEW q \in JobQueues, NEW X \in SUBSET Jobs, \A j \in X : jobState[j] = "done",
           jobsOf' = [jobsOf EXCEPT ![q] = @ \ X], jobFreed' = jobFreed \cup X,
           UNCHANGED <<jobState, jobQueue>>,
           \A j \in X, r \in JobQueues : j \in jobsOf[r] => r = q
    PROVE  /\ \A j \in Jobs : JobOK(j)'
           /\ jobsOf' \in [JobQueues -> SUBSET Jobs] /\ jobFreed' \subseteq Jobs
<1>1. jobsOf \in [JobQueues -> SUBSET Jobs] /\ jobFreed \subseteq Jobs
  BY DEF JobIInv, JobTypes
<1>2. \A r \in JobQueues : \A j : j \in jobsOf'[r] <=> j \in jobsOf[r] /\ ~(r = q /\ j \in X)
  BY <1>1
<1>3. ASSUME NEW j \in Jobs PROVE JobOK(j)'
  <2>1. JobOK(j)
    BY DEF JobIInv
  <2>2. jobState[j] = "new" => j \notin jobFreed'
    BY <2>1 DEF JobOK
  <2>3. jobState[j] \in {"scheduled", "running"} => jobQueue[j] \in JobQueues /\ j \in jobsOf'[jobQueue[j]]
    <3> SUFFICES ASSUME jobState[j] \in {"scheduled", "running"}
                 PROVE  jobQueue[j] \in JobQueues /\ j \in jobsOf'[jobQueue[j]]
      OBVIOUS
    <3>1. jobQueue[j] \in JobQueues /\ j \in jobsOf[jobQueue[j]] /\ j \notin X
      BY <2>1 DEF JobOK
    <3> QED
      BY <3>1, <1>2
  <2>4. ASSUME NEW r \in JobQueues, j \in jobsOf'[r]
        PROVE  jobQueue[j] = r /\ j \notin jobFreed' /\ jobState[j] \in {"scheduled", "running", "done"}
    <3>1. j \in jobsOf[r] /\ j \notin X
      BY <2>4, <1>2
    <3>2. jobQueue[j] = r /\ j \notin jobFreed /\ jobState[j] \in {"scheduled", "running", "done"}
      BY <3>1, <2>1 DEF JobOK
    <3> QED
      BY <3>1, <3>2
  <2> QED
    BY <2>2, <2>3, <2>4 DEF JobOK
<1> QED
  BY <1>1, <1>3

\* A caller leaves a queue, perhaps with a finished job that it frees.
LEMMA LeavesKeeps ==
    ASSUME JobIInv, NEW c \in JobClients, NEW q \in JobQueues, QFree(q),
           Release(c, q, qRef'[q], jobsOf'[q], qDelete'), cj' = [cj EXCEPT ![c] = JobNone],
           NEW X \in SUBSET Jobs, \A j \in X : jobState[j] = "done",
           \A j \in X, r \in JobQueues : j \in jobsOf[r] => r = q,
           \A d \in JobClients : d # c => cj[d] \notin X,
           jobsOf' = [jobsOf EXCEPT ![q] = @ \ X], jobFreed' = jobFreed \cup X,
           \A d \in JobClients : d # c /\ cj[d] \in jobWaited => cj[d] \in jobWaited',
           UNCHANGED <<jobQs, qRunning, jobState, jobQueue, jobDetached, firstPtr, tpThreads, tpIdle, wjob>>,
           wpc' = wpc \/ wpc' = TpBroadcast,
           qDelete \subseteq qDelete', qDelete' \subseteq jobQs,
           cpc[c] # "deleting", cpc[c] # "idle" => cq[c] = q,
           qRef' = [qRef EXCEPT ![q] = IF cpc[c] = "idle" THEN @ ELSE @ - 1]
    PROVE  JobIInv'
<1>1. /\ jobsOf \in [JobQueues -> SUBSET Jobs] /\ qRef \in [JobQueues -> Int]
      /\ qRunning \in [JobQueues -> Int]
  BY DEF JobIInv, JobTypes
<1>2. /\ qRef' \in [JobQueues -> Int]
      /\ qRef'[q] = IF cpc[c] = "idle" THEN qRef[q] ELSE qRef[q] - 1
      /\ \A r \in JobQueues \ {q} : qRef'[r] = qRef[r]
  BY <1>1, SMT
<1>3. \A r \in JobQueues \ {q} : jobsOf'[r] = jobsOf[r]
  BY <1>1
<1>4. jobsOf'[q] = jobsOf[q] \ X
  BY <1>1
<1>5. /\ \A d \in JobClients : CallerOK(d)'
      /\ cpc' \in [JobClients -> {"idle", "waiting", "woken", "waitany", "wokenany", "deleting"}]
      /\ cq' \in [JobClients -> JobQueues \cup {JobNone}]
      /\ cj' \in [JobClients -> Jobs \cup {JobNone}]
      /\ qLock' \in [JobQueues -> JobClients \cup {JobNone}]
      /\ \A r \in JobQueues : COn(r)' = COn(r) \ {c}
  BY <1>2, <1>3, <1>4, CallerLeaves
<1>6. /\ ListOK' /\ PoolOK' /\ \A w \in JobThreads : ThreadOK(w)'
      /\ \A r : WOn(r)' = WOn(r) /\ JOn(r)' = JOn(r)
      /\ wpc' \in [JobThreads -> {"none", "start", "again", "wait", "woken", "timedout", "run", "over"}]
  BY WorkersSame
<1>7. /\ \A j \in Jobs : JobOK(j)'
      /\ jobsOf' \in [JobQueues -> SUBSET Jobs] /\ jobFreed' \subseteq Jobs
  BY JobsTaken
<1>8. JobTypes'
  BY <1>2, <1>5, <1>6, <1>7 DEF JobIInv, JobTypes
<1>9. ASSUME NEW r \in JobQueues PROVE QueueOK(r)'
  <2>1. /\ jobsOf[r] # {} \/ qRef[r] > 0 => r \in jobQs
        /\ qRef[r] = Cardinality(WOn(r)) + Cardinality(COn(r))
        /\ qRunning[r] = Cardinality(JOn(r)) /\ qRunning[r] <= QueueMax[r]
    BY DEF JobIInv, QueueOK
  <2>2. c \in COn(r) <=> r = q /\ cpc[c] # "idle"
    BY DEF COn
  <2>3. IsFiniteSet(COn(r)) /\ Cardinality(COn(r)) \in Nat /\ Cardinality(WOn(r)) \in Nat
    BY CountsFinite
  <2>4. /\ c \in COn(r) => Cardinality(COn(r)') = Cardinality(COn(r)) - 1
        /\ c \notin COn(r) => Cardinality(COn(r)') = Cardinality(COn(r))
    <3>1. COn(r)' = COn(r) \ {c}
      BY <1>5
    <3>2. c \in COn(r) => Cardinality(COn(r) \ {c}) = Cardinality(COn(r)) - 1
      BY <2>3, FS_RemoveElement
    <3>3. c \notin COn(r) => COn(r) \ {c} = COn(r)
      OBVIOUS
    <3> QED
      BY <3>1, <3>2, <3>3
  <2>5. qRef'[r] = IF r = q /\ cpc[c] # "idle" THEN qRef[r] - 1 ELSE qRef[r]
    BY <1>2
  <2>6. qRef'[r] = Cardinality(WOn(r)') + Cardinality(COn(r)')
    <3>1. Cardinality(WOn(r)') = Cardinality(WOn(r))
      BY <1>6
    <3> QED
      BY <3>1, <2>1, <2>2, <2>3, <2>4, <2>5, SMTT(30)
  <2>7. qRef'[r] > 0 => qRef[r] > 0
    BY <1>1, <2>5, SMT
  <2>8. jobsOf'[r] # {} => jobsOf[r] # {}
    BY <1>3, <1>4
  <2>9. JOn(r)' = JOn(r)
    BY <1>6
  <2> QED
    BY <2>1, <2>6, <2>7, <2>8, <2>9 DEF QueueOK
<1> QED
  BY <1>5, <1>6, <1>7, <1>8, <1>9 DEF JobIInv

\* The same for a caller that takes nothing out.
LEMMA LeavesEmptyHanded ==
    ASSUME JobIInv, NEW c \in JobClients, NEW q \in JobQueues, QFree(q),
           Release(c, q, qRef'[q], jobsOf[q], qDelete'),
           cj' = [cj EXCEPT ![c] = JobNone] \/ (cj' = cj /\ cpc[c] \notin {"waiting", "woken"}),
           \A d \in JobClients : d # c /\ cj[d] \in jobWaited => cj[d] \in jobWaited',
           UNCHANGED <<jobQs, qRunning, jobsOf, jobFreed, jobState, jobQueue, jobDetached, firstPtr, tpThreads,
                       tpIdle, wjob>>,
           wpc' = wpc \/ wpc' = TpBroadcast,
           qDelete \subseteq qDelete', qDelete' \subseteq jobQs,
           cpc[c] # "deleting", cpc[c] # "idle" => cq[c] = q,
           IF cpc[c] = "idle" THEN UNCHANGED qRef ELSE qRef' = [qRef EXCEPT ![q] = @ - 1]
    PROVE  JobIInv'
<1>1. /\ jobsOf \in [JobQueues -> SUBSET Jobs] /\ qRef \in [JobQueues -> Int]
      /\ cj \in [JobClients -> Jobs \cup {JobNone}]
  BY DEF JobIInv, JobTypes
<1>2. cpc[c] \notin {"waiting", "woken"} => cj[c] = JobNone
  BY DEF JobIInv, CallerOK
<1> DEFINE X == {}
<1>3. jobsOf' = [jobsOf EXCEPT ![q] = @ \ X] /\ jobFreed' = jobFreed \cup X
  BY <1>1, SMT
<1>4. qRef' = [qRef EXCEPT ![q] = IF cpc[c] = "idle" THEN @ ELSE @ - 1]
  BY <1>1, SMT
<1>5. cj' = [cj EXCEPT ![c] = JobNone]
  BY <1>1, <1>2
<1>6. /\ X \in SUBSET Jobs /\ \A j \in X : jobState[j] = "done"
      /\ \A j \in X, r \in JobQueues : j \in jobsOf[r] => r = q
      /\ \A d \in JobClients : d # c => cj[d] \notin X
  OBVIOUS
<1>7. Release(c, q, qRef'[q], jobsOf'[q], qDelete')
  OBVIOUS
<1> HIDE DEF X
<1> QED
  BY <1>3, <1>4, <1>5, <1>6, <1>7, LeavesKeeps

\* The commands that enter a queue and leave it at once.
LEMMA VisitKeeps ==
    ASSUME JobIInv, NEW c \in JobClients, NEW q \in JobQueues,
           JobDelete(c, q) \/ JobExists(c, q) \/ (JobWaitAny(c, q) /\ AnyDone(q))
    PROVE  JobIInv'
<1>1. /\ cpc[c] = "idle" /\ q \in jobQs /\ QFree(q)
      /\ UNCHANGED <<jobQs, qRef, qRunning, jobsOf, jobState, jobQueue, jobDetached, jobWaited, jobFreed,
                     firstPtr, tpThreads, tpIdle, wjob, cj>>
      /\ wpc' = wpc \/ wpc' = TpBroadcast
  BY DEF JobDelete, JobExists, JobWaitAny, Enters, jobQVars, jobData, jobPool, jobWork
<1>2. qDelete' = qDelete \/ qDelete' = qDelete \cup {q}
  BY DEF JobDelete, JobExists, JobWaitAny, jobQVars
<1>3. Release(c, q, qRef'[q], jobsOf[q], qDelete')
  <2>1. CASE JobDelete(c, q)
    BY <1>1, <2>1 DEF JobDelete
  <2>2. CASE JobExists(c, q)
    BY <1>1, <2>2 DEF JobExists, jobQVars
  <2>3. CASE JobWaitAny(c, q) /\ AnyDone(q)
    BY <1>1, <2>3 DEF JobWaitAny
  <2> QED
    BY <2>1, <2>2, <2>3
<1>4. qDelete \subseteq qDelete' /\ qDelete' \subseteq jobQs
  BY <1>1, <1>2 DEF JobIInv, JobTypes
<1>5. /\ \A d \in JobClients : d # c /\ cj[d] \in jobWaited => cj[d] \in jobWaited'
      /\ cpc[c] # "deleting" /\ cpc[c] \notin {"waiting", "woken"}
      /\ cpc[c] # "idle" => cq[c] = q
  BY <1>1
<1> QED
  BY <1>1, <1>3, <1>4, <1>5, LeavesEmptyHanded

\* ns_job wait for a job that is done, at once or after a wait.
LEMMA ResultKeeps ==
    ASSUME JobIInv, NEW c \in JobClients,
           \/ \E q \in JobQueues, j \in Jobs : JobWait(c, q, j) /\ jobState[j] = "done"
           \/ JobWaitWakes(c) /\ jobState[cj[c]] = "done"
    PROVE  JobIInv'
<1>1. ASSUME NEW q \in JobQueues, NEW j \in Jobs, jobState[j] = "done", j \in jobsOf[q], QFree(q),
             jobsOf' = [jobsOf EXCEPT ![q] = @ \ {j}], jobFreed' = jobFreed \cup {j},
             Release(c, q, qRef'[q], jobsOf[q] \ {j}, qDelete), cj' = [cj EXCEPT ![c] = JobNone],
             \A d \in JobClients : d # c => cj[d] # j, jobWaited \subseteq jobWaited',
             UNCHANGED <<jobQs, qDelete, qRunning, jobState, jobQueue, jobDetached, firstPtr, tpThreads, tpIdle,
                         wjob, wpc>>,
             cpc[c] # "deleting", cpc[c] # "idle" => cq[c] = q,
             qRef' = [qRef EXCEPT ![q] = IF cpc[c] = "idle" THEN @ ELSE @ - 1]
      PROVE  JobIInv'
  <2>1. jobsOf'[q] = jobsOf[q] \ {j} /\ qDelete \subseteq jobQs
    BY <1>1 DEF JobIInv, JobTypes
  <2>2. Release(c, q, qRef'[q], jobsOf'[q], qDelete')
    BY <1>1, <2>1
  <2>3. \A r \in JobQueues : j \in jobsOf[r] => r = q
    BY <1>1, ZenonT(30) DEF JobIInv, JobOK
  <2>4. /\ {j} \in SUBSET Jobs /\ \A k \in {j} : jobState[k] = "done"
        /\ \A k \in {j}, r \in JobQueues : k \in jobsOf[r] => r = q
        /\ \A d \in JobClients : d # c => cj[d] \notin {j}
    BY <1>1, <2>3
  <2>5. /\ \A d \in JobClients : d # c /\ cj[d] \in jobWaited => cj[d] \in jobWaited'
        /\ qDelete \subseteq qDelete' /\ qDelete' \subseteq jobQs
    BY <1>1, <2>1
  <2> QED
    BY <1>1, <2>2, <2>4, <2>5, LeavesKeeps
<1>2. ASSUME NEW q \in JobQueues, NEW j \in Jobs, JobWait(c, q, j), jobState[j] = "done" PROVE JobIInv'
  <2>1. /\ cpc[c] = "idle" /\ q \in jobQs /\ QFree(q) /\ j \in jobsOf[q] /\ j \notin jobWaited
        /\ jobWaited' = jobWaited \cup {j} /\ TakeResult(c, q, j, qRef[q]) /\ UNCHANGED qRef
        /\ UNCHANGED <<jobQs, qDelete, qRunning, jobState, jobQueue, jobDetached, firstPtr, tpThreads, tpIdle,
                       wjob, wpc>>
    BY <1>2 DEF JobWait, Enters, jobPool, jobWork
  <2>2. \A d \in JobClients : cj[d] # j
    <3> SUFFICES ASSUME NEW d \in JobClients, cj[d] = j PROVE FALSE
      OBVIOUS
    <3>1. CallerOK(d) /\ cj[d] # JobNone
      BY JobAssumption DEF JobIInv
    <3> QED
      BY <2>1, <3>1 DEF CallerOK
  <2>3. qRef' = [qRef EXCEPT ![q] = IF cpc[c] = "idle" THEN @ ELSE @ - 1]
    <3>1. qRef \in [JobQueues -> Int]
      BY DEF JobIInv, JobTypes
    <3> QED
      BY <2>1, <3>1, SMT
  <2> QED
    BY <1>1, <1>2, <2>1, <2>2, <2>3 DEF TakeResult
<1>3. ASSUME JobWaitWakes(c), jobState[cj[c]] = "done" PROVE JobIInv'
  <2> DEFINE q == cq[c]
             j == cj[c]
  <2>1. /\ cpc[c] = "woken" /\ QFree(q)
        /\ qRef' = [qRef EXCEPT ![q] = @ - 1] /\ TakeResult(c, q, j, qRef'[q])
        /\ UNCHANGED <<jobQs, qDelete, qRunning, jobState, jobQueue, jobDetached, jobWaited, firstPtr, tpThreads,
                       tpIdle, wjob, wpc>>
    BY <1>3 DEF JobWaitWakes, jobPool, jobWork
  <2>2. /\ q \in JobQueues /\ j \in jobsOf[q] /\ \A d \in JobClients : d # c => cj[d] # j
    BY <2>1 DEF JobIInv, CallerOK
  <2>3. j \in Jobs
    BY <2>2 DEF JobIInv, JobTypes
  <2> HIDE DEF q, j
  <2>4. cpc[c] # "deleting" /\ cpc[c] # "idle" /\ cq[c] = q /\ jobState[j] = "done"
    BY <1>3, <2>1 DEF q, j
  <2> QED
    BY <1>1, <2>1, <2>2, <2>3, <2>4 DEF TakeResult
<1> QED
  BY <1>2, <1>3

\* A wait that times out, and the end of ns_job waitany.
LEMMA EndsKeeps ==
    ASSUME JobIInv, NEW c \in JobClients,
           \/ JobWaitTimeout(c)
           \/ \E timeout \in BOOLEAN : JobWaitAnyEnds(c, timeout) /\ (timeout \/ AnyDone(cq[c]))
    PROVE  JobIInv'
<1> DEFINE q == cq[c]
<1>1. /\ cpc[c] \in {"waiting", "waitany", "wokenany"} /\ QFree(q)
      /\ qRef' = [qRef EXCEPT ![q] = @ - 1] /\ Release(c, q, qRef'[q], jobsOf[q], qDelete)
      /\ UNCHANGED <<jobQs, qDelete, qRunning, jobsOf, jobState, jobQueue, jobDetached, jobFreed, firstPtr,
                     tpThreads, tpIdle, wjob, wpc>>
  <2>1. CASE JobWaitTimeout(c)
    BY <2>1 DEF JobWaitTimeout, jobPool, jobWork
  <2>2. CASE \E timeout \in BOOLEAN : JobWaitAnyEnds(c, timeout) /\ (timeout \/ AnyDone(cq[c]))
    BY <2>2 DEF JobWaitAnyEnds, jobPool, jobWork, jobData
  <2> QED
    BY <2>1, <2>2
<1>2. q \in JobQueues /\ CallerOK(c) /\ qDelete \subseteq jobQs
  BY <1>1 DEF JobIInv, CallerOK, JobTypes
<1>3. /\ cj' = [cj EXCEPT ![c] = JobNone] \/ (cj' = cj /\ cpc[c] \notin {"waiting", "woken"})
      /\ jobWaited' = jobWaited \/ (jobWaited' = jobWaited \ {cj[c]} /\ cpc[c] = "waiting")
  <2>1. CASE JobWaitTimeout(c)
    BY <2>1 DEF JobWaitTimeout
  <2>2. CASE \E timeout \in BOOLEAN : JobWaitAnyEnds(c, timeout) /\ (timeout \/ AnyDone(cq[c]))
    BY <2>2 DEF JobWaitAnyEnds, jobData
  <2> QED
    BY <2>1, <2>2
<1>4. \A d \in JobClients : d # c /\ cj[d] \in jobWaited => cj[d] \in jobWaited'
  BY <1>2, <1>3 DEF CallerOK
<1> HIDE DEF q
<1>5. cpc[c] # "deleting" /\ cpc[c] # "idle" /\ cq[c] = q
  BY <1>1 DEF q
<1>6. qDelete \subseteq qDelete' /\ qDelete' \subseteq jobQs /\ Release(c, q, qRef'[q], jobsOf[q], qDelete')
  BY <1>1, <1>2
<1> QED
  BY <1>1, <1>2, <1>3, <1>4, <1>5, <1>6, LeavesEmptyHanded

\* Callers that stay where they are, woken or waiting again: what they rely
\* on is the job they wait for and the queue they have locked.
LEMMA CallersKept ==
    ASSUME JobIInv, UNCHANGED <<cj, qLock>>,
           \A d \in JobClients : cj[d] # JobNone /\ cj[d] \notin jobDetached => cj[d] \notin jobDetached',
           cpc' \in [JobClients -> {"idle", "waiting", "woken", "waitany", "wokenany", "deleting"}],
           cq' \in [JobClients -> JobQueues \cup {JobNone}],
           \A d \in JobClients : /\ cpc'[d] = "idle" <=> cpc[d] = "idle"
                                 /\ cpc'[d] = "deleting" <=> cpc[d] = "deleting"
                                 /\ cpc'[d] \in {"waiting", "woken"} <=> cpc[d] \in {"waiting", "woken"}
                                 /\ cpc[d] # "idle" => cq'[d] = cq[d],
           \A d \in JobClients : cj[d] # JobNone =>
               cj[d] \in jobWaited' /\ (cj[d] \in jobsOf[cq[d]] => cj[d] \in jobsOf'[cq[d]]),
           \A q \in JobQueues : qLock[q] # JobNone =>
               (q \in qDelete => q \in qDelete') /\ qRef'[q] = qRef[q] /\ jobsOf'[q] = jobsOf[q]
    PROVE  /\ \A d \in JobClients : CallerOK(d)'
           /\ \A r \in JobQueues : COn(r)' = COn(r)
<1>1. ASSUME NEW d \in JobClients PROVE CallerOK(d)'
  <2>1. CallerOK(d)
    BY DEF JobIInv
  <2>2. /\ cj'[d] # JobNone <=> cpc'[d] \in {"waiting", "woken"}
        /\ cpc'[d] # "idle" => cq'[d] \in JobQueues
    BY <1>1, <2>1 DEF CallerOK
  <2>3. ASSUME cpc'[d] \in {"waiting", "woken"}
        PROVE  /\ cj'[d] \in jobsOf'[cq'[d]] /\ cj'[d] \in jobWaited' \ jobDetached'
               /\ \A e \in JobClients : cj'[e] = cj'[d] => e = d
    <3>1. cpc[d] \in {"waiting", "woken"} /\ cpc[d] # "idle" /\ cq'[d] = cq[d]
      BY <1>1, <2>3
    <3>2. cj[d] # JobNone /\ cj[d] \in jobsOf[cq[d]] /\ cj[d] \notin jobDetached
      BY <2>1, <3>1 DEF CallerOK
    <3>3. \A e \in JobClients : cj[e] = cj[d] => e = d
      BY <2>1, <3>1 DEF CallerOK
    <3>4. cj[d] \in jobWaited' /\ cj[d] \in jobsOf'[cq[d]] /\ cj[d] \notin jobDetached'
      BY <1>1, <3>2
    <3> QED
      BY <3>1, <3>2, <3>3, <3>4
  <2>4. ASSUME cpc'[d] = "deleting"
        PROVE  qLock'[cq'[d]] = d /\ cq'[d] \in qDelete' /\ qRef'[cq'[d]] <= 0 /\ jobsOf'[cq'[d]] = {}
    <3>1. cpc[d] = "deleting" /\ cq'[d] = cq[d]
      BY <1>1, <2>4
    <3>2. /\ qLock[cq[d]] = d /\ cq[d] \in qDelete /\ qRef[cq[d]] <= 0 /\ jobsOf[cq[d]] = {}
          /\ cq[d] \in JobQueues
      BY <2>1, <3>1 DEF CallerOK
    <3>3. qLock[cq[d]] # JobNone
      BY <3>2, JobAssumption, SMT
    <3> QED
      BY <3>1, <3>2, <3>3
  <2> QED
    BY <2>2, <2>3, <2>4 DEF CallerOK
<1>2. ASSUME NEW r \in JobQueues PROVE COn(r)' = COn(r)
  BY DEF COn
<1> QED
  BY <1>1, <1>2

\* A broadcast on a queue's condition keeps every caller's place but for
\* that, and a caller that is not served waits again.
LEMMA PlacesKept ==
    ASSUME JobIInv,
           \/ cpc' = cpc
           \/ \E q \in JobQueues : cpc' = QBroadcast(q)
           \/ \E c \in JobClients : cpc[c] = "woken" /\ cpc' = [cpc EXCEPT ![c] = "waiting"]
           \/ \E c \in JobClients : cpc[c] \in {"waitany", "wokenany"} /\ cpc' = [cpc EXCEPT ![c] = "waitany"]
    PROVE  /\ cpc' \in [JobClients -> {"idle", "waiting", "woken", "waitany", "wokenany", "deleting"}]
           /\ \A d \in JobClients : /\ cpc'[d] = "idle" <=> cpc[d] = "idle"
                                    /\ cpc'[d] = "deleting" <=> cpc[d] = "deleting"
                                    /\ cpc'[d] \in {"waiting", "woken"} <=> cpc[d] \in {"waiting", "woken"}
<1>1. cpc \in [JobClients -> {"idle", "waiting", "woken", "waitany", "wokenany", "deleting"}]
  BY DEF JobIInv, JobTypes
<1> QED
  BY <1>1, SMT DEF QBroadcast

\* Steps that change no job, no count and no queue: a caller waits again, a
\* job is cancelled, the pool is told to stop, tp.queuelock is taken.
LEMMA QuietKeeps ==
    ASSUME JobIInv, UNCHANGED <<jobQVars, jobState, jobQueue, jobDetached, jobWaited, jobFreed, firstPtr,
                                tpThreads, tpIdle, wjob, qLock, cj>>,
           wpc' = wpc \/ wpc' = TpBroadcast,
           \/ cpc' = cpc
           \/ \E q \in JobQueues : cpc' = QBroadcast(q)
           \/ \E c \in JobClients : cpc[c] = "woken" /\ cpc' = [cpc EXCEPT ![c] = "waiting"]
           \/ \E c \in JobClients : cpc[c] \in {"waitany", "wokenany"} /\ cpc' = [cpc EXCEPT ![c] = "waitany"],
           cq' \in [JobClients -> JobQueues \cup {JobNone}],
           \A d \in JobClients : cpc[d] # "idle" => cq'[d] = cq[d]
    PROVE  JobIInv'
<1>1. /\ cpc' \in [JobClients -> {"idle", "waiting", "woken", "waitany", "wokenany", "deleting"}]
      /\ \A d \in JobClients : /\ cpc'[d] = "idle" <=> cpc[d] = "idle"
                               /\ cpc'[d] = "deleting" <=> cpc[d] = "deleting"
                               /\ cpc'[d] \in {"waiting", "woken"} <=> cpc[d] \in {"waiting", "woken"}
  BY PlacesKept
<1>2. UNCHANGED <<jobQs, qDelete, qRef, qRunning, jobsOf>>
  BY DEF jobQVars
<1>3. \A d \in JobClients : cj[d] # JobNone =>
          cj[d] \in jobWaited' /\ (cj[d] \in jobsOf[cq[d]] => cj[d] \in jobsOf'[cq[d]])
  BY <1>2 DEF JobIInv, CallerOK
<1>4. /\ \A d \in JobClients : CallerOK(d)'
      /\ \A r \in JobQueues : COn(r)' = COn(r)
  BY <1>1, <1>2, <1>3, CallersKept
<1>5. /\ ListOK' /\ PoolOK' /\ \A w \in JobThreads : ThreadOK(w)'
      /\ \A q : WOn(q)' = WOn(q) /\ JOn(q)' = JOn(q)
      /\ wpc' \in [JobThreads -> {"none", "start", "again", "wait", "woken", "timedout", "run", "over"}]
  BY WorkersSame
<1>6. JobTypes'
  BY <1>1, <1>2, <1>5 DEF JobIInv, JobTypes
<1>7. \A j \in Jobs : JobOK(j)'
  BY <1>2 DEF JobIInv, JobOK
<1>8. \A q \in JobQueues : QueueOK(q)'
  BY <1>2, <1>4, <1>5 DEF JobIInv, QueueOK
<1> QED
  BY <1>4, <1>5, <1>6, <1>7, <1>8 DEF JobIInv

\* A caller begins to wait, for a job or for any job of the queue.
LEMMA ArrivesKeeps ==
    ASSUME JobIInv, NEW c \in JobClients, NEW q \in JobQueues,
           \/ \E j \in Jobs : JobWait(c, q, j) /\ jobState[j] # "done"
           \/ JobWaitAny(c, q) /\ ~AnyDone(q)
    PROVE  JobIInv'
<1>1. /\ cpc[c] = "idle" /\ q \in jobQs /\ QFree(q)
      /\ cq' = [cq EXCEPT ![c] = q] /\ qRef' = [qRef EXCEPT ![q] = @ + 1]
      /\ UNCHANGED <<jobQs, qDelete, qRunning, jobsOf, jobState, jobQueue, jobDetached, jobFreed, firstPtr,
                     tpThreads, tpIdle, wjob, wpc, qLock>>
  BY DEF JobWait, JobWaitAny, Enters, jobData, jobPool, jobWork
<1>2. PICK J \in Jobs \cup {JobNone} :
        /\ cj' = [cj EXCEPT ![c] = J]
        /\ cpc' = [cpc EXCEPT ![c] = IF J = JobNone THEN "waitany" ELSE "waiting"]
        /\ J # JobNone => J \in jobsOf[q] \ jobDetached /\ J \notin jobWaited /\ J \in jobWaited'
        /\ jobWaited \subseteq jobWaited'
  <2>1. ASSUME NEW j \in Jobs, JobWait(c, q, j), jobState[j] # "done"
        PROVE  /\ j # JobNone /\ cj' = [cj EXCEPT ![c] = j] /\ cpc' = [cpc EXCEPT ![c] = "waiting"]
               /\ j \in jobsOf[q] \ jobDetached /\ j \notin jobWaited /\ jobWaited' = jobWaited \cup {j}
    BY <2>1, JobAssumption DEF JobWait
  <2>2. ASSUME JobWaitAny(c, q), ~AnyDone(q)
        PROVE  /\ cj' = [cj EXCEPT ![c] = JobNone] /\ cpc' = [cpc EXCEPT ![c] = "waitany"]
               /\ jobWaited' = jobWaited
    <3>1. cj[c] = JobNone /\ cj \in [JobClients -> Jobs \cup {JobNone}]
      BY <1>1 DEF JobIInv, JobTypes, CallerOK
    <3> QED
      BY <2>2, <3>1 DEF JobWaitAny, jobData
  <2> QED
    BY <2>1, <2>2
<1>3. /\ cpc \in [JobClients -> {"idle", "waiting", "woken", "waitany", "wokenany", "deleting"}]
      /\ cq \in [JobClients -> JobQueues \cup {JobNone}] /\ cj \in [JobClients -> Jobs \cup {JobNone}]
      /\ qRef \in [JobQueues -> Int] /\ qRunning \in [JobQueues -> Int]
  BY DEF JobIInv, JobTypes
<1>4. /\ cpc'[c] = IF J = JobNone THEN "waitany" ELSE "waiting"
      /\ cq'[c] = q /\ cj'[c] = J /\ qRef'[q] = qRef[q] + 1
      /\ \A d \in JobClients : d # c => cpc'[d] = cpc[d] /\ cq'[d] = cq[d] /\ cj'[d] = cj[d]
      /\ \A r \in JobQueues : r # q => qRef'[r] = qRef[r]
  BY <1>1, <1>2, <1>3, SMTT(30)
<1>5. /\ J = JobNone => cpc'[c] = "waitany"
      /\ J # JobNone => cpc'[c] = "waiting"
  BY <1>4
<1>6. \A d \in JobClients : CallerOK(d)'
  <2>1. CallerOK(c)'
    <3>1. ASSUME NEW d \in JobClients, J # JobNone, cj'[d] = J PROVE d = c
      <4> SUFFICES ASSUME d # c PROVE FALSE
        OBVIOUS
      <4>1. cj[d] = J /\ CallerOK(d)
        BY <1>4, <3>1 DEF JobIInv
      <4> QED
        BY <1>2, <3>1, <4>1 DEF CallerOK
    <3>2. J # JobNone => cj'[c] \in jobsOf'[cq'[c]] /\ cj'[c] \in jobWaited' \ jobDetached'
      BY <1>1, <1>2, <1>4, SMT
    <3> QED
      BY <1>4, <1>5, <3>1, <3>2 DEF CallerOK
  <2>2. ASSUME NEW d \in JobClients, d # c PROVE CallerOK(d)'
    <3>1. CallerOK(d) /\ cpc'[d] = cpc[d] /\ cq'[d] = cq[d] /\ cj'[d] = cj[d]
      BY <1>4, <2>2 DEF JobIInv
    <3>2. ASSUME cpc[d] \in {"waiting", "woken"}
          PROVE  /\ cj'[d] \in jobsOf'[cq'[d]] /\ cj'[d] \in jobWaited' \ jobDetached'
                 /\ \A e \in JobClients : cj'[e] = cj'[d] => e = d
      <4>1. /\ cj[d] \in jobsOf[cq[d]] /\ cj[d] \in jobWaited \ jobDetached
            /\ \A e \in JobClients : cj[e] = cj[d] => e = d
            /\ cj[d] # JobNone
        BY <3>1, <3>2 DEF CallerOK
      <4>2. cj'[c] # cj[d]
        BY <1>2, <1>4, <4>1, ZenonT(30)
      <4> QED
        BY <1>1, <1>2, <1>4, <3>1, <4>1, <4>2, SMTT(30)
    <3>3. ASSUME cpc[d] = "deleting"
          PROVE  qLock'[cq'[d]] = d /\ cq'[d] \in qDelete' /\ qRef'[cq'[d]] <= 0 /\ jobsOf'[cq'[d]] = {}
      <4>1. /\ qLock[cq[d]] = d /\ cq[d] \in qDelete /\ qRef[cq[d]] <= 0 /\ jobsOf[cq[d]] = {}
            /\ cq[d] \in JobQueues
        BY <3>1, <3>3 DEF CallerOK
      <4>2. cq[d] # q
        BY <1>1, <4>1, JobAssumption DEF QFree
      <4> QED
        BY <1>1, <1>4, <3>1, <4>1, <4>2, SMT
    <3> QED
      BY <3>1, <3>2, <3>3 DEF CallerOK
  <2> QED
    BY <2>1, <2>2
<1>7. COn(q)' = COn(q) \cup {c} /\ c \notin COn(q)
  <2>1. c \notin COn(q) /\ c \in COn(q)'
    BY <1>1, <1>4, <1>5 DEF COn
  <2>2. \A d \in JobClients : d # c => (d \in COn(q)' <=> d \in COn(q))
    BY <1>4 DEF COn
  <2>3. COn(q) \subseteq JobClients /\ COn(q)' \subseteq JobClients
    BY DEF COn
  <2> QED
    BY <2>1, <2>2, <2>3
<1>8. ASSUME NEW r \in JobQueues, r # q PROVE COn(r)' = COn(r)
  <2>1. c \notin COn(r) /\ c \notin COn(r)'
    BY <1>1, <1>4, <1>8 DEF COn
  <2>2. \A d \in JobClients : d # c => (d \in COn(r)' <=> d \in COn(r))
    BY <1>4 DEF COn
  <2>3. COn(r) \subseteq JobClients /\ COn(r)' \subseteq JobClients
    BY DEF COn
  <2> QED
    BY <2>1, <2>2, <2>3, SMTT(30)
<1>9. /\ ListOK' /\ PoolOK' /\ \A w \in JobThreads : ThreadOK(w)'
      /\ \A r : WOn(r)' = WOn(r) /\ JOn(r)' = JOn(r)
      /\ wpc' \in [JobThreads -> {"none", "start", "again", "wait", "woken", "timedout", "run", "over"}]
  BY <1>1, WorkersSame
<1>10. JobTypes'
  <2>1. /\ cpc' \in [JobClients -> {"idle", "waiting", "woken", "waitany", "wokenany", "deleting"}]
        /\ cq' \in [JobClients -> JobQueues \cup {JobNone}] /\ cj' \in [JobClients -> Jobs \cup {JobNone}]
        /\ qRef' \in [JobQueues -> Int]
    BY <1>1, <1>2, <1>3, SMTT(30)
  <2> QED
    BY <1>1, <1>9, <2>1 DEF JobIInv, JobTypes
<1>11. \A j \in Jobs : JobOK(j)'
  BY <1>1 DEF JobIInv, JobOK
<1>12. ASSUME NEW r \in JobQueues PROVE QueueOK(r)'
  <2>1. QueueOK(r) /\ qRunning'[r] = qRunning[r] /\ jobsOf'[r] = jobsOf[r] /\ jobQs' = jobQs
    BY <1>1 DEF JobIInv
  <2>2. CASE r # q
    BY <1>4, <1>8, <1>9, <2>1, <2>2 DEF QueueOK
  <2>3. CASE r = q
    <3>1. Cardinality(COn(q)') = Cardinality(COn(q)) + 1
      BY <1>7, CountsFinite, FS_AddElement
    <3>2. /\ Cardinality(WOn(q)) \in Nat /\ Cardinality(COn(q)) \in Nat
          /\ qRef[q] = Cardinality(WOn(q)) + Cardinality(COn(q))
      BY <2>1, <2>3, CountsFinite DEF QueueOK
    <3>3. qRef'[q] = Cardinality(WOn(q)') + Cardinality(COn(q)')
      <4>1. Cardinality(WOn(q)') = Cardinality(WOn(q))
        BY <1>9
      <4> QED
        BY <1>4, <3>1, <3>2, <4>1, SMTT(30)
    <3> QED
      BY <1>1, <1>9, <2>1, <2>3, <3>3 DEF QueueOK
  <2> QED
    BY <2>2, <2>3
<1> QED
  BY <1>6, <1>9, <1>10, <1>11, <1>12 DEF JobIInv

\* A step that leaves callers, threads and jobs alone, and the counts of the
\* queues, keeps them when a queue in use stays in the table.
LEMMA TableKeeps ==
    ASSUME JobIInv, UNCHANGED <<qRef, qRunning, jobsOf, jobState, jobQueue, jobDetached, jobWaited, jobFreed,
                                firstPtr, tpThreads, tpIdle, wjob, wpc>>,
           qLock' \in [JobQueues -> JobClients \cup {JobNone}],
           cpc' \in [JobClients -> {"idle", "waiting", "woken", "waitany", "wokenany", "deleting"}],
           cq' \in [JobClients -> JobQueues \cup {JobNone}], cj' = cj,
           jobQs' \subseteq JobQueues, qDelete' \subseteq jobQs',
           \A d \in JobClients : CallerOK(d)', \A r \in JobQueues : COn(r)' = COn(r),
           \A r \in JobQueues : r \in jobQs /\ r \notin jobQs' => jobsOf[r] = {} /\ qRef[r] <= 0
    PROVE  JobIInv'
<1>1. /\ ListOK' /\ PoolOK' /\ \A w \in JobThreads : ThreadOK(w)'
      /\ \A q : WOn(q)' = WOn(q) /\ JOn(q)' = JOn(q)
  BY WorkersSame
<1>2. JobTypes'
  BY DEF JobIInv, JobTypes
<1>3. \A j \in Jobs : JobOK(j)'
  BY DEF JobIInv, JobOK
<1>4. ASSUME NEW r \in JobQueues PROVE QueueOK(r)'
  <2>1. QueueOK(r) /\ qRef[r] \in Int
    BY DEF JobIInv, JobTypes
  <2>2. jobsOf'[r] # {} \/ qRef'[r] > 0 => r \in jobQs'
    BY <2>1, SMT DEF QueueOK
  <2> QED
    BY <1>1, <2>1, <2>2 DEF QueueOK
<1> QED
  BY <1>1, <1>2, <1>3, <1>4 DEF JobIInv

\* The end of ReleaseQueue: the queue goes, and with it its lock.
LEMMA ReleaseDeleteKeeps ==
    ASSUME JobIInv, NEW c \in JobClients, ReleaseDelete(c) PROVE JobIInv'
<1> DEFINE q == cq[c]
<1>1. /\ cpc[c] = "deleting" /\ jobQs' = jobQs \ {q} /\ qDelete' = qDelete \ {q}
      /\ qLock' = [qLock EXCEPT ![q] = JobNone]
      /\ cpc' = [cpc EXCEPT ![c] = "idle"] /\ cq' = [cq EXCEPT ![c] = JobNone]
      /\ UNCHANGED <<qRef, qRunning, jobsOf, jobState, jobQueue, jobDetached, jobWaited, jobFreed,
                     firstPtr, tpThreads, tpIdle, wjob, wpc, cj>>
  BY DEF ReleaseDelete, DeleteQueue, jobData, jobWork
<1>2. /\ q \in JobQueues /\ qLock[q] = c /\ q \in qDelete /\ qRef[q] <= 0 /\ jobsOf[q] = {} /\ cj[c] = JobNone
  BY <1>1 DEF JobIInv, CallerOK
<1> HIDE DEF q
<1>3. /\ cpc \in [JobClients -> {"idle", "waiting", "woken", "waitany", "wokenany", "deleting"}]
      /\ cq \in [JobClients -> JobQueues \cup {JobNone}] /\ cj \in [JobClients -> Jobs \cup {JobNone}]
      /\ qLock \in [JobQueues -> JobClients \cup {JobNone}]
      /\ jobQs \subseteq JobQueues /\ qDelete \subseteq jobQs
  BY DEF JobIInv, JobTypes
<1>4. /\ cpc' \in [JobClients -> {"idle", "waiting", "woken", "waitany", "wokenany", "deleting"}]
      /\ cq' \in [JobClients -> JobQueues \cup {JobNone}]
      /\ qLock' \in [JobQueues -> JobClients \cup {JobNone}]
      /\ jobQs' \subseteq JobQueues /\ qDelete' \subseteq jobQs'
  <2>1. cpc' \in [JobClients -> {"idle", "waiting", "woken", "waitany", "wokenany", "deleting"}]
    BY <1>1, <1>3
  <2>2. /\ cq' \in [JobClients -> JobQueues \cup {JobNone}]
        /\ qLock' \in [JobQueues -> JobClients \cup {JobNone}]
    BY <1>1, <1>3
  <2>3. jobQs' \subseteq JobQueues /\ qDelete' \subseteq jobQs'
    BY <1>1, <1>3
  <2> QED
    BY <2>1, <2>2, <2>3
<1>5. /\ cpc'[c] = "idle" /\ cq'[c] = JobNone
      /\ \A d \in JobClients : d # c => cpc'[d] = cpc[d] /\ cq'[d] = cq[d]
      /\ \A r \in JobQueues : r # q => qLock'[r] = qLock[r]
  BY <1>1, <1>3
<1>6. ASSUME NEW d \in JobClients PROVE CallerOK(d)'
  <2>1. CASE d = c
    BY <1>1, <1>2, <1>5, <2>1 DEF CallerOK
  <2>2. CASE d # c
    <3>1. CallerOK(d) /\ cpc'[d] = cpc[d] /\ cq'[d] = cq[d]
      BY <1>5, <2>2 DEF JobIInv
    <3>2. ASSUME cpc[d] = "deleting" PROVE qLock'[cq[d]] = d /\ cq[d] \in qDelete'
      <4>1. qLock[cq[d]] = d /\ cq[d] \in JobQueues /\ cq[d] \in qDelete
        BY <3>1, <3>2 DEF CallerOK
      <4>2. cq[d] # q
        BY <1>2, <2>2, <4>1
      <4> QED
        BY <1>1, <1>5, <4>1, <4>2
    <3> QED
      BY <1>1, <3>1, <3>2 DEF CallerOK
  <2> QED
    BY <2>1, <2>2
<1>7. ASSUME NEW r \in JobQueues PROVE COn(r)' = COn(r)
  <2>1. c \notin COn(r) /\ c \notin COn(r)'
    BY <1>1, <1>5 DEF COn
  <2>2. \A d \in JobClients : d # c => (d \in COn(r)' <=> d \in COn(r))
    BY <1>5 DEF COn
  <2>3. COn(r) \subseteq JobClients /\ COn(r)' \subseteq JobClients
    BY DEF COn
  <2> QED
    BY <2>1, <2>2, <2>3, SMTT(30)
<1>8. \A r \in JobQueues : r \in jobQs /\ r \notin jobQs' => jobsOf[r] = {} /\ qRef[r] <= 0
  BY <1>1, <1>2
<1> QED
  BY <1>1, <1>4, <1>6, <1>7, <1>8, TableKeeps

\* A queue that is not in the table has no user, so that its new reference
\* count is right.
LEMMA CreateKeeps ==
    ASSUME JobIInv, NEW c \in JobClients, NEW q \in JobQueues, JobCreate(c, q) PROVE JobIInv'
<1>1. /\ q \notin jobQs /\ jobQs' = jobQs \cup {q} /\ qRef' = [qRef EXCEPT ![q] = 0]
      /\ UNCHANGED <<qRunning, jobsOf, jobState, jobQueue, jobDetached, jobWaited, jobFreed, qLock, qDelete,
                     firstPtr, tpThreads, tpIdle, wjob, wpc, cpc, cq, cj>>
  BY DEF JobCreate, jobData, jobWork, jobCall
<1>2. /\ qRef \in [JobQueues -> Int] /\ jobQs \subseteq JobQueues /\ qDelete \subseteq jobQs
      /\ cpc \in [JobClients -> {"idle", "waiting", "woken", "waitany", "wokenany", "deleting"}]
      /\ cq \in [JobClients -> JobQueues \cup {JobNone}]
      /\ qLock \in [JobQueues -> JobClients \cup {JobNone}]
  BY DEF JobIInv, JobTypes
<1>3. qRef[q] = 0
  <2>1. QueueOK(q) /\ Cardinality(WOn(q)) \in Nat /\ Cardinality(COn(q)) \in Nat /\ qRef[q] \in Int
    BY <1>2, CountsFinite DEF JobIInv
  <2>2. ~ (qRef[q] > 0) /\ qRef[q] = Cardinality(WOn(q)) + Cardinality(COn(q))
    BY <1>1, <2>1 DEF QueueOK
  <2> QED
    BY <2>1, <2>2, SMT
<1>4. qRef' = qRef
  BY <1>1, <1>2, <1>3
<1>5. \A d \in JobClients : cj[d] # JobNone =>
          cj[d] \in jobWaited' /\ (cj[d] \in jobsOf[cq[d]] => cj[d] \in jobsOf'[cq[d]])
  BY <1>1 DEF JobIInv, CallerOK
<1>6. /\ \A d \in JobClients : CallerOK(d)'
      /\ \A r \in JobQueues : COn(r)' = COn(r)
  BY <1>1, <1>2, <1>4, <1>5, CallersKept
<1>7. jobQs' \subseteq JobQueues /\ qDelete' \subseteq jobQs'
  BY <1>1, <1>2
<1>8. \A r \in JobQueues : r \in jobQs /\ r \notin jobQs' => jobsOf[r] = {} /\ qRef[r] <= 0
  BY <1>1
<1> QED
  BY <1>1, <1>2, <1>4, <1>6, <1>7, <1>8, TableKeeps

\* One thread of the pool moves, the others are woken or not: the counts stay
\* exact when they change by what the thread was and is.
LEMMA ThreadMoves ==
    ASSUME JobIInv, NEW w \in JobThreads,
           NEW p \in {"none", "start", "again", "wait", "woken", "timedout", "run", "over"},
           wpc' = [wpc EXCEPT ![w] = p] \/ wpc' = [TpBroadcast EXCEPT ![w] = p],
           tpThreads' = tpThreads + (IF p # "none" THEN 1 ELSE 0) - (IF wpc[w] # "none" THEN 1 ELSE 0),
           tpIdle' = tpIdle + (IF p \in {"wait", "woken", "timedout"} THEN 1 ELSE 0)
                            - (IF wpc[w] \in {"wait", "woken", "timedout"} THEN 1 ELSE 0)
    PROVE  /\ wpc' \in [JobThreads -> {"none", "start", "again", "wait", "woken", "timedout", "run", "over"}]
           /\ wpc'[w] = p /\ \A v \in JobThreads : v # w => (wpc'[v] = "run" <=> wpc[v] = "run")
           /\ tpThreads' \in Int /\ tpIdle' \in Int /\ PoolOK'
<1>1. /\ wpc \in [JobThreads -> {"none", "start", "again", "wait", "woken", "timedout", "run", "over"}]
      /\ tpThreads \in Int /\ tpIdle \in Int
      /\ tpThreads = Cardinality(WAlive) /\ tpIdle = Cardinality(WIdle)
  BY DEF JobIInv, JobTypes, PoolOK
<1>2. /\ wpc' \in [JobThreads -> {"none", "start", "again", "wait", "woken", "timedout", "run", "over"}]
      /\ wpc'[w] = p
      /\ \A v \in JobThreads : v # w => /\ wpc'[v] = "run" <=> wpc[v] = "run"
                                        /\ wpc'[v] # "none" <=> wpc[v] # "none"
                                        /\ wpc'[v] \in {"wait", "woken", "timedout"}
                                              <=> wpc[v] \in {"wait", "woken", "timedout"}
  <2>1. CASE wpc' = [wpc EXCEPT ![w] = p]
    BY <1>1, <2>1, SMT
  <2>2. CASE wpc' = [TpBroadcast EXCEPT ![w] = p]
    <3>1. /\ TpBroadcast \in [JobThreads -> {"none", "start", "again", "wait", "woken", "timedout", "run", "over"}]
          /\ \A v \in JobThreads : /\ TpBroadcast[v] = "run" <=> wpc[v] = "run"
                                   /\ TpBroadcast[v] # "none" <=> wpc[v] # "none"
                                   /\ TpBroadcast[v] \in {"wait", "woken", "timedout"}
                                         <=> wpc[v] \in {"wait", "woken", "timedout"}
      BY <1>1, SMT DEF TpBroadcast
    <3>2. wpc' \in [JobThreads -> {"none", "start", "again", "wait", "woken", "timedout", "run", "over"}]
      BY <2>2, <3>1
    <3>3. wpc'[w] = p /\ \A v \in JobThreads : v # w => wpc'[v] = TpBroadcast[v]
      BY <2>2, <3>1
    <3> QED
      BY <3>1, <3>2, <3>3
  <2> QED
    BY <2>1, <2>2
<1>3. /\ WAlive' = IF p # "none" THEN WAlive \cup {w} ELSE WAlive \ {w}
      /\ w \in WAlive <=> wpc[w] # "none"
  BY <1>2, SMT DEF WAlive
<1>4. /\ WIdle' = IF p \in {"wait", "woken", "timedout"} THEN WIdle \cup {w} ELSE WIdle \ {w}
      /\ w \in WIdle <=> wpc[w] \in {"wait", "woken", "timedout"}
  BY <1>2, SMT DEF WIdle
<1>5. /\ IsFiniteSet(WAlive) /\ Cardinality(WAlive) \in Nat
      /\ IsFiniteSet(WIdle) /\ Cardinality(WIdle) \in Nat
  BY CountsFinite
<1>6. /\ Cardinality(WAlive \cup {w}) = IF w \in WAlive THEN Cardinality(WAlive) ELSE Cardinality(WAlive) + 1
      /\ Cardinality(WAlive \ {w}) = IF w \in WAlive THEN Cardinality(WAlive) - 1 ELSE Cardinality(WAlive)
  BY <1>5, FS_AddElement, FS_RemoveElement
<1>7. /\ Cardinality(WIdle \cup {w}) = IF w \in WIdle THEN Cardinality(WIdle) ELSE Cardinality(WIdle) + 1
      /\ Cardinality(WIdle \ {w}) = IF w \in WIdle THEN Cardinality(WIdle) - 1 ELSE Cardinality(WIdle)
  BY <1>5, FS_AddElement, FS_RemoveElement
<1>8. tpThreads' = Cardinality(WAlive')
  BY <1>1, <1>3, <1>5, <1>6, SMTT(30)
<1>9. tpIdle' = Cardinality(WIdle')
  BY <1>1, <1>4, <1>5, <1>7, SMTT(30)
<1>10. tpThreads' \in Int /\ tpIdle' \in Int
  BY <1>1, SMT
<1> QED
  BY <1>2, <1>8, <1>9, <1>10 DEF PoolOK

\* No element is twice among the first n of s.
OnceEach(s, n) == \A m, k \in 1..n : s[m] = s[k] => m = k

\* t has the first n elements of s but the one at i, in their order.
TakenOut(s, t, i, n) ==
    /\ \A m \in 1..(i - 1) : t[m] = s[m]
    /\ \A m \in i..(n - 1) : t[m] = s[m + 1]

\* Every element of t is one of s, and none is the one at i.
OthersOf(s, t, i, n) == \A m \in 1..(n - 1) : t[m] # s[i] /\ \E k \in 1..n : t[m] = s[k]

\* What is at the positions of a list that one element is taken out of.
LEMMA PositionsShrink ==
    ASSUME NEW n \in Nat, NEW i \in 1..n, NEW s, NEW t, OnceEach(s, n), TakenOut(s, t, i, n)
    PROVE  OnceEach(t, n - 1) /\ OthersOf(s, t, i, n)
<1> USE DEF OnceEach, TakenOut, OthersOf
<1> DEFINE pos(m) == IF m < i THEN m ELSE m + 1
<1>1. \A m \in 1..(n - 1) : pos(m) \in 1..n /\ pos(m) # i
  BY SMT
<1>2. \A m \in 1..(n - 1) : t[m] = s[pos(m)]
  <2> SUFFICES ASSUME NEW m \in 1..(n - 1) PROVE t[m] = s[pos(m)]
    OBVIOUS
  <2>1. CASE m < i
    <3>1. m \in 1..(i - 1)
      BY <2>1, SMT
    <3> QED
      BY <2>1, <3>1
  <2>2. CASE ~(m < i)
    <3>1. m \in i..(n - 1)
      BY <2>2, SMT
    <3> QED
      BY <2>2, <3>1
  <2> QED
    BY <2>1, <2>2
<1>3. \A m, k \in 1..(n - 1) : pos(m) = pos(k) => m = k
  BY SMT
<1> HIDE DEF pos
<1>4. ASSUME NEW m \in 1..(n - 1), NEW k \in 1..(n - 1), t[m] = t[k] PROVE m = k
  <2>1. s[pos(m)] = s[pos(k)] /\ pos(m) \in 1..n /\ pos(k) \in 1..n
    BY <1>1, <1>2, <1>4
  <2>2. pos(m) = pos(k)
    BY <2>1
  <2> QED
    BY <1>3, <2>2
<1>5. ASSUME NEW m \in 1..(n - 1) PROVE t[m] # s[i] /\ \E k \in 1..n : t[m] = s[k]
  <2>1. t[m] = s[pos(m)] /\ pos(m) \in 1..n /\ pos(m) # i
    BY <1>1, <1>2
  <2>2. s[pos(m)] # s[i]
    BY <2>1
  <2> QED
    BY <2>1, <2>2
<1> QED
  BY <1>4, <1>5

\* A job is put at an end of the list of jobs to run.
LEMMA ListGrows ==
    ASSUME NEW s \in Seq(Jobs), NEW j \in Jobs, NEW t, t = <<j>> \o s \/ t = Append(s, j),
           \A i \in DOMAIN s : s[i] # j, \A i, k \in DOMAIN s : s[i] = s[k] => i = k
    PROVE  /\ t \in Seq(Jobs) /\ \A i, k \in DOMAIN t : t[i] = t[k] => i = k
           /\ \A i \in DOMAIN t : t[i] = j \/ \E k \in DOMAIN s : t[i] = s[k]
<1>1. Len(s) \in Nat /\ DOMAIN s = 1..Len(s)
  BY SMT
<1>2. CASE t = <<j>> \o s
  <2>1. t \in Seq(Jobs) /\ DOMAIN t = 1..(Len(s) + 1)
    BY <1>2, SMT
  <2> DEFINE pos(i) == i - 1
  <2>2. 1 \in DOMAIN t /\ t[1] = j
    BY <1>2, <2>1, SMTT(30)
  <2>3. \A i \in DOMAIN t : i # 1 => pos(i) \in DOMAIN s /\ t[i] = s[pos(i)]
    BY <1>1, <1>2, <2>1, SMTT(30)
  <2>4. \A i, k \in DOMAIN t : pos(i) = pos(k) => i = k
    BY <2>1, SMT
  <2> HIDE DEF pos
  <2>5. ASSUME NEW i \in DOMAIN t, i # 1 PROVE t[i] # j
    <3>1. pos(i) \in DOMAIN s /\ t[i] = s[pos(i)]
      BY <2>3, <2>5
    <3>2. s[pos(i)] # j
      BY <3>1
    <3> QED
      BY <3>1, <3>2
  <2>6. ASSUME NEW i \in DOMAIN t, NEW k \in DOMAIN t, t[i] = t[k] PROVE i = k
    <3>1. CASE i = 1 \/ k = 1
      BY <2>2, <2>5, <2>6, <3>1
    <3>2. CASE i # 1 /\ k # 1
      <4>1. s[pos(i)] = s[pos(k)] /\ pos(i) \in DOMAIN s /\ pos(k) \in DOMAIN s
        BY <2>3, <2>6, <3>2
      <4>2. pos(i) = pos(k)
        BY <4>1
      <4> QED
        BY <2>4, <4>2
    <3> QED
      BY <3>1, <3>2
  <2>7. \A i \in DOMAIN t : t[i] = j \/ \E k \in DOMAIN s : t[i] = s[k]
    BY <2>2, <2>3
  <2> QED
    BY <2>1, <2>6, <2>7
<1>3. CASE t = Append(s, j)
  <2>1. t \in Seq(Jobs) /\ DOMAIN t = 1..(Len(s) + 1)
    BY <1>3, SMTT(30)
  <2>2. t[Len(s) + 1] = j /\ \A i \in 1..Len(s) : t[i] = s[i]
    BY <1>3, SMT
  <2>3. \A i \in 1..(Len(s) + 1) : i = Len(s) + 1 \/ i \in 1..Len(s)
    BY <1>1, SMT
  <2>4. \A i, k \in DOMAIN t : t[i] = t[k] => i = k
    BY <1>1, <2>1, <2>2, <2>3
  <2>5. \A i \in DOMAIN t : t[i] = j \/ \E k \in DOMAIN s : t[i] = s[k]
    BY <1>1, <2>1, <2>2, <2>3
  <2> QED
    BY <2>1, <2>4, <2>5
<1> QED
  BY <1>2, <1>3

\* A job is taken out of the list.
LEMMA ListShrinks ==
    ASSUME NEW s \in Seq(Jobs), NEW i \in DOMAIN s, \A m, k \in DOMAIN s : s[m] = s[k] => m = k
    PROVE  LET t == SubSeq(s, 1, i - 1) \o SubSeq(s, i + 1, Len(s))
           IN /\ t \in Seq(Jobs) /\ \A m, k \in DOMAIN t : t[m] = t[k] => m = k
              /\ \A m \in DOMAIN t : t[m] # s[i] /\ \E k \in DOMAIN s : t[m] = s[k]
<1> DEFINE u == SubSeq(s, 1, i - 1)
           v == SubSeq(s, i + 1, Len(s))
           n == Len(s)
           t == u \o v
<1>1. n \in Nat /\ DOMAIN s = 1..n /\ i \in 1..n /\ \A m \in 1..n : s[m] \in Jobs
  BY SMT
<1>2. /\ i - 1 \in Int /\ i + 1 \in Int /\ 1 \in Int /\ n \in Int
      /\ \A m \in 1..(i - 1) : s[m] \in Jobs
      /\ \A m \in (i + 1)..n : s[m] \in Jobs
  BY <1>1, SMT
<1>3. /\ u \in Seq(Jobs) /\ Len(u) = IF 1 <= i - 1 THEN i - 1 - 1 + 1 ELSE 0
      /\ \A m \in 1..(i - 1 - 1 + 1) : u[m] = s[1 + m - 1]
  BY <1>2, SubSeqProperties, SMT
<1>4. /\ v \in Seq(Jobs) /\ Len(v) = IF i + 1 <= n THEN n - (i + 1) + 1 ELSE 0
      /\ \A m \in 1..(n - (i + 1) + 1) : v[m] = s[i + 1 + m - 1]
  BY <1>2, SubSeqProperties, SMTT(30)
<1>5. t \in Seq(Jobs) /\ Len(t) = Len(u) + Len(v)
      /\ \A m \in 1..(Len(u) + Len(v)) : t[m] = IF m <= Len(u) THEN u[m] ELSE v[m - Len(u)]
  BY <1>3, <1>4, ConcatProperties, SMTT(30)
<1> HIDE DEF u, v, n, t
<1>6. Len(u) = i - 1 /\ Len(v) = n - i /\ Len(t) = n - 1
  <2>1. i \in Int /\ i <= n /\ i >= 1
    BY <1>1, SMT
  <2>2. Len(u) = i - 1
    BY <1>3, <2>1, SMTT(30)
  <2>3. Len(v) = n - i
    BY <1>1, <1>4, <2>1, SMTT(30)
  <2> QED
    BY <1>1, <1>5, <2>1, <2>2, <2>3, SMTT(30)
<1>7. /\ \A m \in 1..(i - 1) : t[m] = s[m]
      /\ \A m \in i..(n - 1) : t[m] = s[m + 1]
  <2>1. ASSUME NEW m \in 1..(i - 1) PROVE t[m] = s[m]
    <3>1. t[m] = u[m]
      BY <1>1, <1>5, <1>6, SMTT(30)
    <3> QED
      BY <1>1, <1>3, <3>1, SMTT(30)
  <2>2. ASSUME NEW m \in i..(n - 1) PROVE t[m] = s[m + 1]
    <3>1. t[m] = v[m - (i - 1)]
      BY <1>1, <1>5, <1>6, SMTT(30)
    <3>2. m - (i - 1) \in 1..(n - (i + 1) + 1) /\ i + 1 + (m - (i - 1)) - 1 = m + 1
      BY <1>1, SMTT(30)
    <3> QED
      BY <1>4, <3>1, <3>2
  <2> QED
    BY <2>1, <2>2
<1>8. DOMAIN t = 1..(n - 1)
  BY <1>5, <1>6, SMTT(30)
<1>9. /\ \A m, k \in 1..(n - 1) : t[m] = t[k] => m = k
      /\ \A m \in 1..(n - 1) : t[m] # s[i] /\ \E k \in 1..n : t[m] = s[k]
  <2>1. OnceEach(s, n)
    BY <1>1 DEF OnceEach
  <2>2. TakenOut(s, t, i, n)
    BY <1>7 DEF TakenOut
  <2>3. OnceEach(t, n - 1) /\ OthersOf(s, t, i, n)
    BY <1>1, <2>1, <2>2, PositionsShrink
  <2> QED
    BY <2>3 DEF OnceEach, OthersOf
<1>10. /\ t \in Seq(Jobs) /\ \A m, k \in DOMAIN t : t[m] = t[k] => m = k
       /\ \A m \in DOMAIN t : t[m] # s[i] /\ \E k \in DOMAIN s : t[m] = s[k]
  BY <1>1, <1>5, <1>8, <1>9
<1> QED
  BY <1>10 DEF t, u, v, n

\* A new job is in no table, no list, and nobody's hands.
LEMMA NewJobUnknown ==
    ASSUME JobIInv, NEW j \in Jobs, jobState[j] = "new"
    PROVE  /\ \A q \in JobQueues : j \notin jobsOf[q]
           /\ \A i \in DOMAIN firstPtr : firstPtr[i] # j
           /\ \A w \in JobThreads : wjob[w] # j
           /\ \A c \in JobClients : cj[c] # j
<1>1. \A q \in JobQueues : j \notin jobsOf[q]
  BY DEF JobIInv, JobOK
<1>2. \A i \in DOMAIN firstPtr : firstPtr[i] # j
  BY DEF JobIInv, ListOK
<1>3. ASSUME NEW w \in JobThreads, wjob[w] = j PROVE FALSE
  <2>1. ThreadOK(w) /\ wjob[w] # JobNone
    BY <1>3, JobAssumption DEF JobIInv
  <2> QED
    BY <1>3, <2>1 DEF ThreadOK
<1>4. ASSUME NEW c \in JobClients, cj[c] = j PROVE FALSE
  <2>1. CallerOK(c) /\ cj[c] # JobNone
    BY <1>4, JobAssumption DEF JobIInv
  <2> QED
    BY <1>1, <1>4, <2>1 DEF CallerOK
<1> QED
  BY <1>1, <1>2, <1>3, <1>4

\* ns_job queue when the queue is being deleted or the server stops.
LEMMA RefusedKeeps ==
    ASSUME JobIInv, NEW c \in JobClients, NEW q \in JobQueues, NEW j \in Jobs, NEW detached, NEW head,
           JobAdd(c, q, j, detached, head), tpStop \/ q \in qDelete
    PROVE  JobIInv'
<1>1. /\ QFree(q) /\ jobState[j] = "new" /\ jobState' = [jobState EXCEPT ![j] = "refused"]
      /\ jobFreed' = jobFreed \cup {j}
      /\ UNCHANGED <<jobQueue, jobDetached, jobsOf, firstPtr, tpThreads, wpc, qLock, qRef, qRunning, jobWaited,
                     tpIdle, wjob, cpc, cq, cj>>
  BY DEF JobAdd, jobCall
<1>2. \/ UNCHANGED <<jobQs, qDelete>>
      \/ jobQs' = jobQs \ {q} /\ qDelete' = qDelete \ {q} /\ qRef[q] <= 0 /\ jobsOf[q] = {}
  <2>1. IF Deletable(q, qRef[q], jobsOf[q], qDelete) THEN DeleteQueue(q) ELSE UNCHANGED <<jobQs, qDelete, tpMax>>
    BY DEF JobAdd
  <2> QED
    BY <2>1 DEF Deletable, DeleteQueue
<1>3. JobTypes
  BY DEF JobIInv
<1>4. jobState'[j] = "refused" /\ \A k \in Jobs : k # j => jobState'[k] = jobState[k]
  BY <1>1, <1>3 DEF JobTypes
<1>5. JobTypes'
  <2>1. jobState' \in [Jobs -> {"new", "refused", "scheduled", "running", "done"}]
    BY <1>1, <1>3 DEF JobTypes
  <2>2. jobQs' \subseteq JobQueues /\ qDelete' \subseteq jobQs' /\ jobFreed' \subseteq Jobs
    BY <1>1, <1>2, <1>3 DEF JobTypes
  <2> QED
    BY <1>1, <1>3, <2>1, <2>2 DEF JobTypes
<1>6. /\ \A r \in JobQueues : j \notin jobsOf[r]
      /\ \A i \in DOMAIN firstPtr : firstPtr[i] # j
      /\ \A w \in JobThreads : wjob[w] # j
      /\ \A d \in JobClients : cj[d] # j
  BY <1>1, NewJobUnknown
<1>7. ListOK'
  <2>1. \A i \in DOMAIN firstPtr : firstPtr[i] \in Jobs
    BY ListedJobs
  <2>2. \A i \in DOMAIN firstPtr : jobState'[firstPtr[i]] = jobState[firstPtr[i]]
    BY <1>4, <1>6, <2>1
  <2> QED
    BY <1>1, <2>2 DEF JobIInv, ListOK
<1>8. PoolOK'
  BY <1>1 DEF JobIInv, PoolOK, WAlive, WIdle
<1>9. ASSUME NEW k \in Jobs PROVE JobOK(k)'
  <2>1. JobOK(k)
    BY DEF JobIInv
  <2>2. CASE k = j
    BY <1>1, <1>4, <1>6, <2>2 DEF JobOK
  <2>3. CASE k # j
    <3>1. jobState'[k] = jobState[k] /\ (k \in jobFreed' <=> k \in jobFreed)
      BY <1>1, <1>4, <2>3
    <3> QED
      BY <1>1, <2>1, <3>1 DEF JobOK
  <2> QED
    BY <2>2, <2>3
<1>10. ASSUME NEW w \in JobThreads PROVE ThreadOK(w)'
  <2>1. ThreadOK(w)
    BY DEF JobIInv
  <2>2. wpc[w] = "run" => jobState'[wjob[w]] = "running"
    <3>1. wpc[w] = "run" => wjob[w] \in Jobs
      BY <1>3, <2>1 DEF JobTypes, ThreadOK
    <3> QED
      BY <1>4, <1>6, <2>1, <3>1 DEF ThreadOK
  <2> QED
    BY <1>1, <2>1, <2>2 DEF ThreadOK
<1>11. \A d \in JobClients : cj[d] # JobNone =>
          cj[d] \in jobWaited' /\ (cj[d] \in jobsOf[cq[d]] => cj[d] \in jobsOf'[cq[d]])
  BY <1>1 DEF JobIInv, CallerOK
<1>12. \A r \in JobQueues : qLock[r] # JobNone =>
           (r \in qDelete => r \in qDelete') /\ qRef'[r] = qRef[r] /\ jobsOf'[r] = jobsOf[r]
  BY <1>1, <1>2 DEF QFree
<1>13. /\ \A d \in JobClients : CallerOK(d)'
       /\ \A r \in JobQueues : COn(r)' = COn(r)
  BY <1>1, <1>5, <1>11, <1>12, CallersKept DEF JobTypes
<1>14. ASSUME NEW r \in JobQueues PROVE QueueOK(r)'
  <2>1. QueueOK(r) /\ qRef[r] \in Int
    BY <1>3 DEF JobIInv, JobTypes
  <2>2. WOn(r)' = WOn(r)
    BY <1>1 DEF WOn
  <2>3. JOn(r)' = JOn(r)
    <3>1. \A k \in Jobs : jobState'[k] = "running" <=> jobState[k] = "running"
      BY <1>1, <1>4
    <3> QED
      BY <1>1, <3>1 DEF JOn
  <2>4. jobsOf'[r] # {} \/ qRef'[r] > 0 => r \in jobQs'
    BY <1>1, <1>2, <2>1, SMTT(30) DEF QueueOK
  <2> QED
    BY <1>1, <1>13, <2>1, <2>2, <2>3, <2>4 DEF QueueOK
<1> QED
  BY <1>5, <1>7, <1>8, <1>9, <1>10, <1>13, <1>14 DEF JobIInv

\* ns_job queue lists the job, and may start a thread for it.
LEMMA AcceptedKeeps ==
    ASSUME JobIInv, NEW c \in JobClients, NEW q \in JobQueues, NEW j \in Jobs, NEW detached, NEW head,
           JobAdd(c, q, j, detached, head), ~ (tpStop \/ q \in qDelete)
    PROVE  JobIInv'
<1>1. /\ q \in jobQs /\ QFree(q) /\ jobState[j] = "new" /\ jobState' = [jobState EXCEPT ![j] = "scheduled"]
      /\ jobQueue' = [jobQueue EXCEPT ![j] = q] /\ jobsOf' = [jobsOf EXCEPT ![q] = @ \cup {j}]
      /\ jobDetached' = jobDetached \/ jobDetached' = jobDetached \cup {j}
      /\ firstPtr' = <<j>> \o firstPtr \/ firstPtr' = Append(firstPtr, j)
      /\ UNCHANGED <<jobQs, qDelete, jobFreed, qLock, qRef, qRunning, jobWaited, tpIdle, wjob, cpc, cq, cj>>
  BY DEF JobAdd, jobCall
<1>2. JobTypes
  BY DEF JobIInv
<1>3. /\ jobState'[j] = "scheduled" /\ \A k \in Jobs : k # j => jobState'[k] = jobState[k]
      /\ jobQueue'[j] = q /\ \A k \in Jobs : k # j => jobQueue'[k] = jobQueue[k]
      /\ jobsOf'[q] = jobsOf[q] \cup {j} /\ \A r \in JobQueues : r # q => jobsOf'[r] = jobsOf[r]
  BY <1>1, <1>2 DEF JobTypes
<1>4. /\ \A r \in JobQueues : j \notin jobsOf[r]
      /\ \A i \in DOMAIN firstPtr : firstPtr[i] # j
      /\ \A w \in JobThreads : wjob[w] # j
      /\ \A d \in JobClients : cj[d] # j
  BY <1>1, NewJobUnknown
<1>5. /\ firstPtr' \in Seq(Jobs) /\ \A i, k \in DOMAIN firstPtr' : firstPtr'[i] = firstPtr'[k] => i = k
      /\ \A i \in DOMAIN firstPtr' : firstPtr'[i] = j \/ \E k \in DOMAIN firstPtr : firstPtr'[i] = firstPtr[k]
  <2>1. firstPtr \in Seq(Jobs) /\ \A i, k \in DOMAIN firstPtr : firstPtr[i] = firstPtr[k] => i = k
    BY <1>2 DEF JobIInv, JobTypes, ListOK
  <2> DEFINE s == firstPtr
             t == firstPtr'
  <2>2. /\ s \in Seq(Jobs) /\ (t = <<j>> \o s \/ t = Append(s, j))
        /\ \A i \in DOMAIN s : s[i] # j
        /\ \A i, k \in DOMAIN s : s[i] = s[k] => i = k
    BY <1>1, <1>4, <2>1, ZenonT(30)
  <2> HIDE DEF s, t
  <2>3. /\ t \in Seq(Jobs) /\ \A i, k \in DOMAIN t : t[i] = t[k] => i = k
        /\ \A i \in DOMAIN t : t[i] = j \/ \E k \in DOMAIN s : t[i] = s[k]
    BY <2>2, ListGrows, SMTT(30)
  <2> QED
    BY <2>3 DEF s, t
<1>6. ListOK'
  <2>1. \A i \in DOMAIN firstPtr : firstPtr[i] \in Jobs
    BY ListedJobs
  <2>2. \A i \in DOMAIN firstPtr : jobState'[firstPtr[i]] = "scheduled"
    BY <1>3, <1>4, <2>1 DEF JobIInv, ListOK
  <2>3. ASSUME NEW i \in DOMAIN firstPtr' PROVE jobState'[firstPtr'[i]] = "scheduled"
    <3>1. CASE firstPtr'[i] = j
      BY <1>3, <3>1
    <3>2. CASE \E k \in DOMAIN firstPtr : firstPtr'[i] = firstPtr[k]
      BY <2>2, <3>2
    <3> QED
      BY <1>5, <3>1, <3>2
  <2> QED
    BY <1>5, <2>3 DEF ListOK
<1>7. /\ wpc' \in [JobThreads -> {"none", "start", "again", "wait", "woken", "timedout", "run", "over"}]
      /\ \A v \in JobThreads : wpc'[v] = "run" <=> wpc[v] = "run"
      /\ tpThreads' \in Int /\ PoolOK'
  <2>1. ASSUME NEW w \in JobThreads, wpc[w] = "none", wpc' = [TpBroadcast EXCEPT ![w] = "start"],
               tpThreads' = tpThreads + 1
        PROVE  <1>7!:
    <3>1. /\ tpThreads' = tpThreads + (IF "start" # "none" THEN 1 ELSE 0) - (IF wpc[w] # "none" THEN 1 ELSE 0)
          /\ tpIdle' = tpIdle + (IF "start" \in {"wait", "woken", "timedout"} THEN 1 ELSE 0)
                              - (IF wpc[w] \in {"wait", "woken", "timedout"} THEN 1 ELSE 0)
      BY <1>1, <1>2, <2>1, SMTT(30) DEF JobTypes
    <3>2. /\ wpc' \in [JobThreads -> {"none", "start", "again", "wait", "woken", "timedout", "run", "over"}]
          /\ wpc'[w] = "start" /\ \A v \in JobThreads : v # w => (wpc'[v] = "run" <=> wpc[v] = "run")
          /\ tpThreads' \in Int /\ tpIdle' \in Int /\ PoolOK'
      BY <2>1, <3>1, ThreadMoves
    <3> QED
      BY <2>1, <3>2
  <2>2. ASSUME wpc' = TpBroadcast, tpThreads' = tpThreads
        PROVE  <1>7!:
    <3>1. /\ wpc' \in [JobThreads -> {"none", "start", "again", "wait", "woken", "timedout", "run", "over"}]
          /\ \A v \in JobThreads : /\ wpc'[v] = "run" <=> wpc[v] = "run"
                                   /\ wpc'[v] # "none" <=> wpc[v] # "none"
                                   /\ wpc'[v] \in {"wait", "woken", "timedout"}
                                         <=> wpc[v] \in {"wait", "woken", "timedout"}
      BY <1>2, <2>2, SMTT(30) DEF JobTypes, TpBroadcast
    <3>2. WAlive' = WAlive /\ WIdle' = WIdle
      BY <3>1, SMT DEF WAlive, WIdle
    <3>3. PoolOK' /\ tpThreads' \in Int
      BY <1>1, <1>2, <2>2, <3>2 DEF JobIInv, JobTypes, PoolOK
    <3> QED
      BY <3>1, <3>3
  <2>3. \/ wpc' = TpBroadcast /\ tpThreads' = tpThreads
        \/ tpThreads' = tpThreads + 1 /\ \E w \in JobThreads : wpc[w] = "none" /\ wpc' = [TpBroadcast EXCEPT ![w] = "start"]
    BY DEF JobAdd
  <2> QED
    BY <2>1, <2>2, <2>3
<1>8. JobTypes'
  <2>1. /\ jobState' \in [Jobs -> {"new", "refused", "scheduled", "running", "done"}]
        /\ jobQueue' \in [Jobs -> JobQueues \cup {JobNone}]
    BY <1>1, <1>2 DEF JobTypes
  <2>2. jobsOf' \in [JobQueues -> SUBSET Jobs]
    BY <1>1, <1>2, SMTT(30) DEF JobTypes
  <2> QED
    BY <1>1, <1>2, <1>5, <1>7, <2>1, <2>2 DEF JobTypes
<1>9. ASSUME NEW k \in Jobs PROVE JobOK(k)'
  <2>1. JobOK(k)
    BY DEF JobIInv
  <2>2. CASE k = j
    <3>1. j \notin jobFreed' /\ j \in jobsOf'[q] /\ \A r \in JobQueues : j \in jobsOf'[r] => r = q
      BY <1>1, <1>3, <1>4, <2>1, <2>2 DEF JobOK
    <3> QED
      BY <1>3, <2>2, <3>1 DEF JobOK
  <2>3. CASE k # j
    <3>1. /\ jobState'[k] = jobState[k] /\ jobQueue'[k] = jobQueue[k] /\ jobFreed' = jobFreed
          /\ \A r \in JobQueues : k \in jobsOf'[r] <=> k \in jobsOf[r]
      <4>1. \A r \in JobQueues : k \in jobsOf'[r] <=> k \in jobsOf[r]
        BY <1>3, <2>3, SMTT(30)
      <4> QED
        BY <1>1, <1>3, <2>3, <4>1
    <3> QED
      BY <2>1, <3>1 DEF JobOK
  <2> QED
    BY <2>2, <2>3
<1>10. ASSUME NEW w \in JobThreads PROVE ThreadOK(w)'
  <2>1. ThreadOK(w)
    BY DEF JobIInv
  <2>2. wpc[w] = "run" => jobState'[wjob[w]] = "running"
    <3>1. wpc[w] = "run" => wjob[w] \in Jobs
      BY <1>2, <2>1 DEF JobTypes, ThreadOK
    <3> QED
      BY <1>3, <1>4, <2>1, <3>1 DEF ThreadOK
  <2> QED
    BY <1>1, <1>7, <2>1, <2>2 DEF ThreadOK
<1>11. \A d \in JobClients : cj[d] # JobNone =>
          cj[d] \in jobWaited' /\ (cj[d] \in jobsOf[cq[d]] => cj[d] \in jobsOf'[cq[d]])
  <2> SUFFICES ASSUME NEW d \in JobClients, cj[d] # JobNone
               PROVE  cj[d] \in jobWaited' /\ (cj[d] \in jobsOf[cq[d]] => cj[d] \in jobsOf'[cq[d]])
    OBVIOUS
  <2>1. cj[d] \in jobWaited /\ cq[d] \in JobQueues
    BY DEF JobIInv, CallerOK
  <2>2. jobsOf[cq[d]] \subseteq jobsOf'[cq[d]]
    BY <1>3, <2>1
  <2> QED
    BY <1>1, <2>1, <2>2
<1>12. \A r \in JobQueues : qLock[r] # JobNone =>
           (r \in qDelete => r \in qDelete') /\ qRef'[r] = qRef[r] /\ jobsOf'[r] = jobsOf[r]
  BY <1>1, <1>3 DEF QFree
<1>13. /\ \A d \in JobClients : CallerOK(d)'
       /\ \A r \in JobQueues : COn(r)' = COn(r)
  <2>1. \A d \in JobClients : cj[d] # JobNone /\ cj[d] \notin jobDetached => cj[d] \notin jobDetached'
    BY <1>1, <1>4
  <2> QED
    BY <1>1, <1>8, <1>11, <1>12, <2>1, CallersKept DEF JobTypes
<1>14. ASSUME NEW r \in JobQueues PROVE QueueOK(r)'
  <2>1. QueueOK(r)
    BY DEF JobIInv
  <2>2. WOn(r)' = WOn(r)
    <3>1. ASSUME NEW w \in JobThreads, wjob[w] # JobNone PROVE jobQueue'[wjob[w]] = jobQueue[wjob[w]]
      <4>1. wjob[w] \in Jobs /\ wjob[w] # j
        BY <1>2, <1>4, <3>1 DEF JobTypes
      <4> QED
        BY <1>3, <4>1
    <3> QED
      BY <1>1, <3>1 DEF WOn
  <2>3. JOn(r)' = JOn(r)
    <3>1. \A k \in Jobs : jobState'[k] = "running" /\ jobQueue'[k] = r <=> jobState[k] = "running" /\ jobQueue[k] = r
      BY <1>1, <1>3
    <3> QED
      BY <3>1 DEF JOn
  <2>4. jobsOf'[r] # {} \/ qRef'[r] > 0 => r \in jobQs'
    BY <1>1, <1>3, <2>1 DEF QueueOK
  <2> QED
    BY <1>1, <1>13, <2>1, <2>2, <2>3, <2>4 DEF QueueOK
<1> QED
  BY <1>6, <1>7, <1>8, <1>9, <1>10, <1>13, <1>14 DEF JobIInv

\* A thread without a job moves, and gets none.
LEMMA RestKeeps ==
    ASSUME JobIInv, NEW w \in JobThreads,
           NEW p \in {"none", "start", "again", "wait", "woken", "timedout", "run", "over"},
           p # "run", wpc[w] # "run",
           wpc' = [wpc EXCEPT ![w] = p] \/ wpc' = [TpBroadcast EXCEPT ![w] = p],
           tpThreads' = tpThreads + (IF p # "none" THEN 1 ELSE 0) - (IF wpc[w] # "none" THEN 1 ELSE 0),
           tpIdle' = tpIdle + (IF p \in {"wait", "woken", "timedout"} THEN 1 ELSE 0)
                            - (IF wpc[w] \in {"wait", "woken", "timedout"} THEN 1 ELSE 0),
           UNCHANGED <<qLock, jobQs, qDelete, qRef, qRunning, jobsOf, firstPtr, jobState, jobQueue, jobDetached,
                       jobWaited, jobFreed, wjob, cpc, cq, cj>>
    PROVE  JobIInv'
<1>1. /\ wpc' \in [JobThreads -> {"none", "start", "again", "wait", "woken", "timedout", "run", "over"}]
      /\ wpc'[w] = p /\ \A v \in JobThreads : v # w => (wpc'[v] = "run" <=> wpc[v] = "run")
      /\ tpThreads' \in Int /\ tpIdle' \in Int /\ PoolOK'
  BY ThreadMoves
<1>2. \A v \in JobThreads : wpc'[v] = "run" <=> wpc[v] = "run"
  BY <1>1
<1>3. JobTypes'
  BY <1>1 DEF JobIInv, JobTypes
<1>4. ListOK' /\ \A j \in Jobs : JobOK(j)'
  BY DEF JobIInv, ListOK, JobOK
<1>5. ASSUME NEW v \in JobThreads PROVE ThreadOK(v)'
  <2>1. ThreadOK(v)
    BY DEF JobIInv
  <2> QED
    BY <1>2, <2>1 DEF ThreadOK
<1>6. \A c \in JobClients : CallerOK(c)'
  BY DEF JobIInv, CallerOK
<1>7. \A q \in JobQueues : QueueOK(q)'
  <2>1. \A q \in JobQueues : COn(q)' = COn(q) /\ WOn(q)' = WOn(q) /\ JOn(q)' = JOn(q)
    BY DEF COn, WOn, JOn
  <2> QED
    BY <2>1 DEF JobIInv, QueueOK
<1> QED
  BY <1>1, <1>3, <1>4, <1>5, <1>6, <1>7 DEF JobIInv

\* JobThread waits, times out, or exits, with or without a last job.
LEMMA RestsKeep ==
    ASSUME JobIInv, NEW w \in JobThreads,
           \/ JobIdleTimeout(w) \/ JobIdleExit(w) \/ JobOver(w)
           \/ JobLook(w) /\ (tpStop \/ GetNextJob = 0)
    PROVE  JobIInv'
<1>1. /\ wpc \in [JobThreads -> {"none", "start", "again", "wait", "woken", "timedout", "run", "over"}]
      /\ tpThreads \in Int /\ tpIdle \in Int
  BY DEF JobIInv, JobTypes
<1>2. UNCHANGED <<qLock, jobQs, qDelete, qRef, qRunning, jobsOf, firstPtr, jobState, jobQueue, jobDetached,
                  jobWaited, jobFreed, wjob, cpc, cq, cj>>
  <2>1. CASE JobIdleTimeout(w)
    BY <2>1 DEF JobIdleTimeout, jobLocks, jobQVars, jobData, jobPool, jobCall
  <2>2. CASE JobIdleExit(w)
    BY <2>2 DEF JobIdleExit, ThreadExits, jobCall
  <2>3. CASE JobOver(w)
    BY <2>3 DEF JobOver, ThreadExits, jobCall
  <2>4. CASE JobLook(w) /\ (tpStop \/ GetNextJob = 0)
    BY <2>4 DEF JobLook, ThreadExits, jobCall
  <2> QED
    BY <2>1, <2>2, <2>3, <2>4
<1>3. PICK p \in {"none", "wait", "timedout"} :
        /\ wpc[w] # "run"
        /\ wpc' = [wpc EXCEPT ![w] = p] \/ wpc' = [TpBroadcast EXCEPT ![w] = p]
        /\ tpThreads' = tpThreads + (IF p # "none" THEN 1 ELSE 0) - (IF wpc[w] # "none" THEN 1 ELSE 0)
        /\ tpIdle' = tpIdle + (IF p \in {"wait", "woken", "timedout"} THEN 1 ELSE 0)
                            - (IF wpc[w] \in {"wait", "woken", "timedout"} THEN 1 ELSE 0)
  <2>1. CASE JobIdleTimeout(w)
    BY <1>1, <2>1, SMTT(30) DEF JobIdleTimeout, jobPool
  <2>2. CASE JobIdleExit(w)
    BY <1>1, <2>2, SMTT(30) DEF JobIdleExit, ThreadExits
  <2>3. CASE JobOver(w)
    BY <1>1, <2>3, SMTT(30) DEF JobOver, ThreadExits
  <2>4. CASE JobLook(w) /\ tpStop
    <3>1. /\ wpc[w] \in {"start", "again", "woken"}
          /\ ThreadExits(w, (IF wpc[w] = "woken" THEN tpIdle ELSE tpIdle + 1) - 1)
      BY <2>4 DEF JobLook
    <3> QED
      BY <1>1, <3>1, SMTT(30) DEF ThreadExits
  <2>5. CASE JobLook(w) /\ ~tpStop /\ GetNextJob = 0
    <3>1. /\ wpc[w] \in {"start", "again", "woken"} /\ wpc' = [wpc EXCEPT ![w] = "wait"]
          /\ tpIdle' = IF wpc[w] = "woken" THEN tpIdle ELSE tpIdle + 1
          /\ tpThreads' = tpThreads
      BY <2>5 DEF JobLook
    <3> QED
      BY <1>1, <3>1, SMTT(30)
  <2> QED
    BY <2>1, <2>2, <2>3, <2>4, <2>5
<1>4. p # "run" /\ p \in {"none", "start", "again", "wait", "woken", "timedout", "run", "over"}
  OBVIOUS
<1> QED
  BY <1>2, <1>3, <1>4, RestKeeps

\* GetNextJob finds a job of the list whose queue may run one more.
LEMMA NextJobRunnable ==
    ASSUME JobIInv, GetNextJob # 0 PROVE GetNextJob \in DOMAIN firstPtr /\ Runnable(GetNextJob)
<1> DEFINE able == {i \in DOMAIN firstPtr : Runnable(i)}
<1>1. able # {} /\ GetNextJob = CHOOSE i \in able : \A k \in able : i <= k
  BY DEF GetNextJob
<1>2. \A i \in DOMAIN firstPtr : i \in Nat
  BY ListedJobs
<1>3. able \subseteq Nat
  BY <1>2
<1>4. able \subseteq DOMAIN firstPtr /\ \A i \in able : Runnable(i)
  OBVIOUS
<1> HIDE DEF able
<1>5. PICK n \in able : \A m \in able : ~(<<m, n>> \in OpToRel(<, Nat))
  BY <1>1, <1>3, NatLessThanWellFounded, WFMin
<1>6. \A m \in able : ~(m < n)
  BY <1>3, <1>5 DEF OpToRel
<1>7. \A m \in able : n <= m
  BY <1>3, <1>6, SMTT(30)
<1>8. GetNextJob \in able
  BY <1>1, <1>7
<1> QED
  BY <1>4, <1>8

\* A thread takes the job: it is off the list, it runs, and its queue counts
\* one more user and one more running job.
LEMMA TakesKeeps ==
    ASSUME JobIInv, NEW w \in JobThreads, JobLook(w), ~tpStop, GetNextJob # 0 PROVE JobIInv'
<1>i. PICK i : i = GetNextJob
  OBVIOUS
<1>j. PICK j : j = firstPtr[i]
  OBVIOUS
<1>q. PICK q : q = jobQueue[j]
  OBVIOUS
<1>1. /\ wpc[w] \in {"start", "again", "woken"} /\ ScanFree
      /\ firstPtr' = SubSeq(firstPtr, 1, i - 1) \o SubSeq(firstPtr, i + 1, Len(firstPtr))
      /\ wpc' = [wpc EXCEPT ![w] = "run"] /\ wjob' = [wjob EXCEPT ![w] = j]
      /\ tpIdle' = (IF wpc[w] = "woken" THEN tpIdle ELSE tpIdle + 1) - 1
      /\ jobState' = [jobState EXCEPT ![j] = "running"]
      /\ qRef' = [qRef EXCEPT ![q] = @ + 1] /\ qRunning' = [qRunning EXCEPT ![q] = @ + 1]
      /\ UNCHANGED <<qLock, jobQs, qDelete, jobsOf, jobQueue, jobDetached, jobWaited, jobFreed, tpThreads,
                     cpc, cq, cj>>
  BY <1>i, <1>j, <1>q DEF JobLook, jobCall
<1>2. JobTypes /\ ListOK
  BY DEF JobIInv
<1>3. i \in DOMAIN firstPtr /\ qRunning[q] < QueueMax[q]
  BY <1>i, <1>j, <1>q, NextJobRunnable DEF Runnable
<1>4. j \in Jobs /\ jobState[j] = "scheduled"
  BY <1>j, <1>3, ListedJobs
<1>5. q \in JobQueues /\ j \in jobsOf[q] /\ qLock[q] = JobNone
  BY <1>j, <1>q, <1>1, <1>3, <1>4 DEF JobIInv, JobOK, ScanFree, QFree
<1>6. /\ firstPtr' \in Seq(Jobs) /\ \A m, k \in DOMAIN firstPtr' : firstPtr'[m] = firstPtr'[k] => m = k
      /\ \A m \in DOMAIN firstPtr' : firstPtr'[m] # j /\ \E k \in DOMAIN firstPtr : firstPtr'[m] = firstPtr[k]
  <2> DEFINE s == firstPtr
             t == SubSeq(s, 1, i - 1) \o SubSeq(s, i + 1, Len(s))
  <2>1. s \in Seq(Jobs) /\ \A m, k \in DOMAIN s : s[m] = s[k] => m = k
    BY <1>2 DEF JobTypes, ListOK
  <2>2. /\ t \in Seq(Jobs) /\ \A m, k \in DOMAIN t : t[m] = t[k] => m = k
        /\ \A m \in DOMAIN t : t[m] # s[i] /\ \E k \in DOMAIN s : t[m] = s[k]
    BY <1>3, <2>1, ListShrinks
  <2> QED
    BY <1>j, <1>1, <2>2
<1>7. /\ jobState'[j] = "running" /\ \A k \in Jobs : k # j => jobState'[k] = jobState[k]
      /\ wjob'[w] = j /\ \A v \in JobThreads : v # w => wjob'[v] = wjob[v]
      /\ qRef'[q] = qRef[q] + 1 /\ \A r \in JobQueues : r # q => qRef'[r] = qRef[r]
      /\ qRunning'[q] = qRunning[q] + 1 /\ \A r \in JobQueues : r # q => qRunning'[r] = qRunning[r]
  BY <1>1, <1>2, <1>4, <1>5 DEF JobTypes
<1>8. q = jobQueue[j]
  BY <1>q
<1>9. /\ wpc' \in [JobThreads -> {"none", "start", "again", "wait", "woken", "timedout", "run", "over"}]
      /\ wpc'[w] = "run" /\ \A v \in JobThreads : v # w => (wpc'[v] = "run" <=> wpc[v] = "run")
      /\ tpThreads' \in Int /\ tpIdle' \in Int /\ PoolOK'
  <2>1. /\ tpThreads' = tpThreads + (IF "run" # "none" THEN 1 ELSE 0) - (IF wpc[w] # "none" THEN 1 ELSE 0)
        /\ tpIdle' = tpIdle + (IF "run" \in {"wait", "woken", "timedout"} THEN 1 ELSE 0)
                            - (IF wpc[w] \in {"wait", "woken", "timedout"} THEN 1 ELSE 0)
    BY <1>1, <1>2, SMT DEF JobTypes
  <2> QED
    BY <1>1, <2>1, ThreadMoves
<1>10. JobTypes'
  <2>1. jobState' \in [Jobs -> {"new", "refused", "scheduled", "running", "done"}]
    BY <1>1, <1>2 DEF JobTypes
  <2>2. wjob' \in [JobThreads -> Jobs \cup {JobNone}]
    BY <1>1, <1>2, <1>4 DEF JobTypes
  <2>3. qRef' \in [JobQueues -> Int] /\ qRunning' \in [JobQueues -> Int]
    <3>1. qRef \in [JobQueues -> Int] /\ qRunning \in [JobQueues -> Int]
      BY <1>2 DEF JobTypes
    <3>2. qRef[q] + 1 \in Int /\ qRunning[q] + 1 \in Int
      BY <1>5, <3>1, IntStep
    <3> QED
      BY <1>1, <3>1, <3>2
  <2> QED
    BY <1>1, <1>2, <1>6, <1>9, <2>1, <2>2, <2>3 DEF JobTypes
<1>11. ListOK'
  <2>1. \A k \in DOMAIN firstPtr : firstPtr[k] \in Jobs /\ jobState[firstPtr[k]] = "scheduled"
    BY ListedJobs
  <2>2. ASSUME NEW m \in DOMAIN firstPtr' PROVE jobState'[firstPtr'[m]] = "scheduled"
    <3>1. firstPtr'[m] \in Jobs /\ jobState[firstPtr'[m]] = "scheduled" /\ firstPtr'[m] # j
      BY <1>6, <2>1, ZenonT(30)
    <3> QED
      BY <1>7, <3>1
  <2> QED
    BY <1>6, <2>2 DEF ListOK
<1>12. ASSUME NEW k \in Jobs PROVE JobOK(k)'
  <2>1. JobOK(k)
    BY DEF JobIInv
  <2>2. CASE k = j
    BY <1>1, <1>4, <1>5, <1>7, <1>8, <2>1, <2>2 DEF JobOK
  <2>3. CASE k # j
    <3>1. jobState'[k] = jobState[k]
      BY <1>7, <2>3
    <3> QED
      BY <1>1, <2>1, <3>1 DEF JobOK
  <2> QED
    BY <2>2, <2>3
<1>13. \A v \in JobThreads : wjob[v] # j
  <2> SUFFICES ASSUME NEW v \in JobThreads, wjob[v] = j PROVE FALSE
    OBVIOUS
  <2>1. ThreadOK(v) /\ wjob[v] # JobNone
    BY <1>4, JobAssumption DEF JobIInv
  <2> QED
    BY <1>4, <2>1 DEF ThreadOK
<1>14. ASSUME NEW v \in JobThreads PROVE ThreadOK(v)'
  <2>1. ThreadOK(v)
    BY DEF JobIInv
  <2>2. CASE v = w
    <3>1. j # JobNone /\ \A u \in JobThreads : wjob'[u] = j => u = w
      BY <1>4, <1>7, <1>13, JobAssumption
    <3> QED
      BY <1>7, <1>9, <2>2, <3>1 DEF ThreadOK
  <2>3. CASE v # w
    <3>1. wjob'[v] = wjob[v] /\ (wpc'[v] = "run" <=> wpc[v] = "run") /\ wjob[v] # j
      BY <1>7, <1>9, <1>13, <2>3
    <3>2. wpc[v] = "run" => jobState'[wjob[v]] = "running"
      <4>1. wpc[v] = "run" => wjob[v] \in Jobs
        BY <1>2, <2>1 DEF JobTypes, ThreadOK
      <4> QED
        BY <1>7, <2>1, <3>1, <4>1 DEF ThreadOK
    <3>3. wpc[v] = "run" => \A u \in JobThreads : wjob'[u] = wjob[v] => u = v
      BY <1>7, <2>1, <3>1 DEF ThreadOK
    <3> QED
      BY <2>1, <3>1, <3>2, <3>3 DEF ThreadOK
  <2> QED
    BY <2>2, <2>3
<1>15. \A d \in JobClients : cj[d] # JobNone =>
          cj[d] \in jobWaited' /\ (cj[d] \in jobsOf[cq[d]] => cj[d] \in jobsOf'[cq[d]])
  BY <1>1 DEF JobIInv, CallerOK
<1>16. \A r \in JobQueues : qLock[r] # JobNone =>
           (r \in qDelete => r \in qDelete') /\ qRef'[r] = qRef[r] /\ jobsOf'[r] = jobsOf[r]
  BY <1>1, <1>5, <1>7
<1>17. /\ \A d \in JobClients : CallerOK(d)'
       /\ \A r \in JobQueues : COn(r)' = COn(r)
  BY <1>1, <1>10, <1>15, <1>16, CallersKept DEF JobTypes
<1>18. \A v \in JobThreads : v # w => wjob'[v] = wjob[v]
  BY <1>7
<1>19. wjob[w] = JobNone
  BY <1>1 DEF JobIInv, ThreadOK
<1>20. QueueOK(q)'
  <2>1. QueueOK(q) /\ qRef[q] \in Int /\ qRunning[q] \in Int /\ QueueMax[q] \in Int
    BY <1>2, <1>5, JobAssumption, SMTT(30) DEF JobIInv, JobTypes
  <2>2. WOn(q)' = WOn(q) \cup {w} /\ w \notin WOn(q)
    <3>1. w \notin WOn(q) /\ w \in WOn(q)'
      BY <1>1, <1>4, <1>7, <1>8, <1>19, JobAssumption, ZenonT(30) DEF WOn
    <3>2. \A v \in JobThreads : v # w => (v \in WOn(q)' <=> v \in WOn(q))
      BY <1>1, <1>7 DEF WOn
    <3>3. WOn(q) \subseteq JobThreads /\ WOn(q)' \subseteq JobThreads
      BY DEF WOn
    <3> QED
      BY <3>1, <3>2, <3>3, SMTT(30)
  <2>3. JOn(q)' = JOn(q) \cup {j} /\ j \notin JOn(q)
    <3>1. j \notin JOn(q) /\ j \in JOn(q)'
      BY <1>1, <1>4, <1>7, <1>8 DEF JOn
    <3>2. \A k \in Jobs : k # j => (k \in JOn(q)' <=> k \in JOn(q))
      BY <1>1, <1>7 DEF JOn
    <3>3. JOn(q) \subseteq Jobs /\ JOn(q)' \subseteq Jobs
      BY DEF JOn
    <3> QED
      BY <3>1, <3>2, <3>3, SMTT(30)
  <2>4. Cardinality(WOn(q)') = Cardinality(WOn(q)) + 1
    BY <2>2, CountsFinite, FS_AddElement
  <2>5. Cardinality(JOn(q)') = Cardinality(JOn(q)) + 1
    BY <2>3, CountsFinite, FS_AddElement
  <2>6. /\ Cardinality(WOn(q)) \in Nat /\ Cardinality(COn(q)) \in Nat /\ Cardinality(JOn(q)) \in Nat
        /\ qRef[q] = Cardinality(WOn(q)) + Cardinality(COn(q)) /\ qRunning[q] = Cardinality(JOn(q))
        /\ q \in jobQs
    BY <1>5, <2>1, CountsFinite DEF QueueOK
  <2>7. Cardinality(COn(q)') = Cardinality(COn(q))
    BY <1>5, <1>17
  <2>8. qRef'[q] = Cardinality(WOn(q)') + Cardinality(COn(q)')
    BY <1>7, <2>4, <2>6, <2>7, IntStep, ZenonT(30)
  <2>9. qRunning'[q] = Cardinality(JOn(q)') /\ qRunning'[q] <= QueueMax[q]
    <3>1. qRunning[q] < QueueMax[q]
      BY <1>3
    <3> QED
      BY <1>7, <2>1, <2>5, <2>6, <3>1, IntStep
  <2> QED
    BY <1>1, <2>6, <2>8, <2>9 DEF QueueOK
<1>21. ASSUME NEW r \in JobQueues, r # q PROVE QueueOK(r)'
  <2>1. QueueOK(r)
    BY DEF JobIInv
  <2>2. WOn(r)' = WOn(r)
    <3>1. w \notin WOn(r) /\ w \notin WOn(r)'
      BY <1>1, <1>7, <1>8, <1>19, <1>21 DEF WOn
    <3>2. \A v \in JobThreads : v # w => (v \in WOn(r)' <=> v \in WOn(r))
      BY <1>1, <1>7 DEF WOn
    <3>3. WOn(r) \subseteq JobThreads /\ WOn(r)' \subseteq JobThreads
      BY DEF WOn
    <3> QED
      BY <3>1, <3>2, <3>3, SMTT(30)
  <2>3. JOn(r)' = JOn(r)
    <3>1. \A k \in Jobs : k \in JOn(r)' <=> k \in JOn(r)
      BY <1>1, <1>7, <1>8, <1>21 DEF JOn
    <3>2. JOn(r) \subseteq Jobs /\ JOn(r)' \subseteq Jobs
      BY DEF JOn
    <3> QED
      BY <3>1, <3>2, SMTT(30)
  <2> QED
    BY <1>1, <1>7, <1>17, <1>21, <2>1, <2>2, <2>3 DEF QueueOK
<1> QED
  BY <1>9, <1>10, <1>11, <1>12, <1>14, <1>17, <1>20, <1>21, ZenonT(30) DEF JobIInv

\* The script is over: the job is done, its waiters are woken, and the queue
\* counts one user and one running job less; a detached job is freed, and the
\* queue goes when that was asked for and it is the last to leave.
LEMMA DoneKeeps ==
    ASSUME JobIInv, NEW w \in JobThreads, JobDone(w) PROVE JobIInv'
<1>j. PICK j : j = wjob[w]
  OBVIOUS
<1>q. PICK q : q = jobQueue[j]
  OBVIOUS
<1>p. PICK p \in {"over", "again"} : wpc' = [wpc EXCEPT ![w] = p]
  BY DEF JobDone
<1>1. /\ wpc[w] = "run" /\ QFree(q)
      /\ qRunning' = [qRunning EXCEPT ![q] = @ - 1] /\ qRef' = [qRef EXCEPT ![q] = @ - 1]
      /\ jobState' = [jobState EXCEPT ![j] = "done"]
      /\ jobsOf' = [jobsOf EXCEPT ![q] = IF j \in jobDetached THEN @ \ {j} ELSE @]
      /\ jobFreed' = IF j \in jobDetached THEN jobFreed \cup {j} ELSE jobFreed
      /\ cpc' = QBroadcast(q) /\ wjob' = [wjob EXCEPT ![w] = JobNone]
      /\ UNCHANGED <<qLock, jobQueue, jobDetached, jobWaited, firstPtr, tpThreads, tpIdle, cq, cj>>
  BY <1>j, <1>q DEF JobDone
<1>2. \/ UNCHANGED <<jobQs, qDelete>>
      \/ jobQs' = jobQs \ {q} /\ qDelete' = qDelete \ {q} /\ qRef'[q] <= 0 /\ jobsOf'[q] = {}
  <2>1. IF Deletable(q, qRef'[q], jobsOf'[q], qDelete) THEN DeleteQueue(q) ELSE UNCHANGED <<jobQs, qDelete, tpMax>>
    BY <1>j, <1>q DEF JobDone
  <2> QED
    BY <2>1 DEF Deletable, DeleteQueue
<1>3. JobTypes /\ ThreadOK(w)
  BY DEF JobIInv
<1>4. j \in Jobs /\ jobState[j] = "running" /\ j # JobNone /\ \A v \in JobThreads : wjob[v] = j => v = w
  BY <1>j, <1>1, <1>3, JobAssumption DEF JobTypes, ThreadOK
<1>5. q \in JobQueues /\ j \in jobsOf[q] /\ \A r \in JobQueues : j \in jobsOf[r] => r = q
  BY <1>q, <1>4 DEF JobIInv, JobOK
<1>6. /\ jobState'[j] = "done" /\ \A k \in Jobs : k # j => jobState'[k] = jobState[k]
      /\ wjob'[w] = JobNone /\ \A v \in JobThreads : v # w => wjob'[v] = wjob[v]
      /\ qRef'[q] = qRef[q] - 1 /\ \A r \in JobQueues : r # q => qRef'[r] = qRef[r]
      /\ qRunning'[q] = qRunning[q] - 1 /\ \A r \in JobQueues : r # q => qRunning'[r] = qRunning[r]
  BY <1>1, <1>3, <1>4, <1>5 DEF JobTypes
<1>7. /\ jobsOf'[q] = IF j \in jobDetached THEN jobsOf[q] \ {j} ELSE jobsOf[q]
      /\ \A r \in JobQueues : r # q => jobsOf'[r] = jobsOf[r]
  BY <1>1, <1>3, <1>5 DEF JobTypes
<1>8. /\ \A k \in Jobs, r \in JobQueues : k # j => (k \in jobsOf'[r] <=> k \in jobsOf[r])
      /\ \A k \in Jobs : k # j => (k \in jobFreed' <=> k \in jobFreed)
      /\ \A r \in JobQueues : j \in jobsOf'[r] => r = q /\ j \notin jobDetached
      /\ j \in jobFreed' => j \in jobFreed \/ j \in jobDetached
      /\ \A r \in JobQueues : jobsOf'[r] \subseteq jobsOf[r]
  BY <1>1, <1>5, <1>7, SMTT(30)
<1>9. /\ wpc' \in [JobThreads -> {"none", "start", "again", "wait", "woken", "timedout", "run", "over"}]
      /\ wpc'[w] = p /\ \A v \in JobThreads : v # w => (wpc'[v] = "run" <=> wpc[v] = "run")
      /\ tpThreads' \in Int /\ tpIdle' \in Int /\ PoolOK'
  <2>1. /\ tpThreads' = tpThreads + (IF p # "none" THEN 1 ELSE 0) - (IF wpc[w] # "none" THEN 1 ELSE 0)
        /\ tpIdle' = tpIdle + (IF p \in {"wait", "woken", "timedout"} THEN 1 ELSE 0)
                            - (IF wpc[w] \in {"wait", "woken", "timedout"} THEN 1 ELSE 0)
    BY <1>1, <1>3, SMTT(30) DEF JobTypes
  <2>2. p \in {"none", "start", "again", "wait", "woken", "timedout", "run", "over"}
    OBVIOUS
  <2> QED
    BY <1>p, <2>1, <2>2, ThreadMoves
<1>10. /\ cpc' \in [JobClients -> {"idle", "waiting", "woken", "waitany", "wokenany", "deleting"}]
       /\ \A d \in JobClients : /\ cpc'[d] = "idle" <=> cpc[d] = "idle"
                                /\ cpc'[d] = "deleting" <=> cpc[d] = "deleting"
                                /\ cpc'[d] \in {"waiting", "woken"} <=> cpc[d] \in {"waiting", "woken"}
  BY <1>1, <1>5, PlacesKept
<1>11. JobTypes'
  <2>1. jobState' \in [Jobs -> {"new", "refused", "scheduled", "running", "done"}]
    BY <1>1, <1>3 DEF JobTypes
  <2>2. wjob' \in [JobThreads -> Jobs \cup {JobNone}]
    BY <1>1, <1>3 DEF JobTypes
  <2>3. qRef' \in [JobQueues -> Int] /\ qRunning' \in [JobQueues -> Int]
    <3>1. qRef \in [JobQueues -> Int] /\ qRunning \in [JobQueues -> Int]
      BY <1>3 DEF JobTypes
    <3>2. qRef[q] - 1 \in Int /\ qRunning[q] - 1 \in Int
      BY <1>5, <3>1, IntStep
    <3> QED
      BY <1>1, <3>1, <3>2
  <2>4. jobsOf' \in [JobQueues -> SUBSET Jobs] /\ jobFreed' \subseteq Jobs
    <3>1. jobsOf \in [JobQueues -> SUBSET Jobs] /\ jobFreed \subseteq Jobs
      BY <1>3 DEF JobTypes
    <3>2. CASE j \in jobDetached
      BY <1>1, <1>4, <1>5, <3>1, <3>2, SMTT(30)
    <3>3. CASE j \notin jobDetached
      <4>1. jobsOf' = jobsOf /\ jobFreed' = jobFreed
        BY <1>1, <3>1, <3>3
      <4> QED
        BY <3>1, <4>1
    <3> QED
      BY <3>2, <3>3
  <2>5. jobQs' \subseteq JobQueues /\ qDelete' \subseteq jobQs'
    BY <1>2, <1>3 DEF JobTypes
  <2> QED
    BY <1>1, <1>3, <1>9, <1>10, <2>1, <2>2, <2>3, <2>4, <2>5, ZenonT(30) DEF JobTypes
<1>12. ListOK'
  <2>1. \A k \in DOMAIN firstPtr : firstPtr[k] \in Jobs /\ jobState[firstPtr[k]] = "scheduled"
    BY ListedJobs
  <2>2. \A k \in DOMAIN firstPtr : jobState'[firstPtr[k]] = "scheduled"
    BY <1>4, <1>6, <2>1
  <2> QED
    BY <1>1, <2>2 DEF JobIInv, ListOK
<1>13. ASSUME NEW k \in Jobs PROVE JobOK(k)'
  <2>1. JobOK(k)
    BY DEF JobIInv
  <2>2. CASE k = j
    <3>1. \A r \in JobQueues : j \in jobsOf'[r] => r = q /\ j \notin jobFreed'
      BY <1>5, <1>8, <2>1, <2>2 DEF JobOK
    <3> QED
      BY <1>q, <1>1, <1>6, <2>2, <3>1 DEF JobOK
  <2>3. CASE k # j
    <3>1. /\ jobState'[k] = jobState[k] /\ jobQueue'[k] = jobQueue[k] /\ (k \in jobFreed' <=> k \in jobFreed)
          /\ \A r \in JobQueues : k \in jobsOf'[r] <=> k \in jobsOf[r]
      BY <1>1, <1>6, <1>8, <2>3
    <3> QED
      BY <2>1, <3>1 DEF JobOK
  <2> QED
    BY <2>2, <2>3
<1>14. ASSUME NEW v \in JobThreads PROVE ThreadOK(v)'
  <2>1. ThreadOK(v)
    BY DEF JobIInv
  <2>2. CASE v = w
    BY <1>6, <1>9, <2>2 DEF ThreadOK
  <2>3. CASE v # w
    <3>1. wjob'[v] = wjob[v] /\ (wpc'[v] = "run" <=> wpc[v] = "run") /\ wjob[v] # j
      BY <1>4, <1>6, <1>9, <2>3
    <3>2. wpc[v] = "run" => jobState'[wjob[v]] = "running" /\ wjob[v] # JobNone
      <4>1. wpc[v] = "run" => wjob[v] \in Jobs /\ wjob[v] # JobNone
        BY <1>3, <2>1 DEF JobTypes, ThreadOK
      <4> QED
        BY <1>6, <2>1, <3>1, <4>1 DEF ThreadOK
    <3>3. wpc[v] = "run" => \A u \in JobThreads : wjob'[u] = wjob[v] => u = v
      BY <1>6, <2>1, <3>1, <3>2 DEF ThreadOK
    <3> QED
      BY <2>1, <3>1, <3>2, <3>3 DEF ThreadOK
  <2> QED
    BY <2>2, <2>3
<1>15. ASSUME NEW d \in JobClients, cj[d] # JobNone
       PROVE  cj[d] \in jobWaited' /\ (cj[d] \in jobsOf[cq[d]] => cj[d] \in jobsOf'[cq[d]])
  <2>1. cj[d] \in jobWaited /\ cj[d] \notin jobDetached /\ cq[d] \in JobQueues /\ cj[d] \in Jobs
    BY <1>3, <1>15, ZenonT(30) DEF JobIInv, CallerOK, JobTypes
  <2>2. CASE cj[d] = j
    <3>1. jobsOf'[q] = jobsOf[q]
      BY <1>7, <2>1, <2>2
    <3>2. jobsOf'[cq[d]] = jobsOf[cq[d]]
      BY <1>7, <2>1, <3>1
    <3> QED
      BY <1>1, <2>1, <3>2
  <2>3. CASE cj[d] # j
    <3>1. cj[d] \in jobsOf'[cq[d]] <=> cj[d] \in jobsOf[cq[d]]
      BY <1>8, <2>1, <2>3
    <3> QED
      BY <1>1, <2>1, <3>1
  <2> QED
    BY <2>2, <2>3
<1>16. \A r \in JobQueues : qLock[r] # JobNone =>
           (r \in qDelete => r \in qDelete') /\ qRef'[r] = qRef[r] /\ jobsOf'[r] = jobsOf[r]
  <2>1. qLock[q] = JobNone
    BY <1>1 DEF QFree
  <2> QED
    BY <1>2, <1>6, <1>7, <2>1
<1>17. /\ \A d \in JobClients : CallerOK(d)'
       /\ \A r \in JobQueues : COn(r)' = COn(r)
  <2>1. cq' \in [JobClients -> JobQueues \cup {JobNone}]
    BY <1>11 DEF JobTypes
  <2>2. \A d \in JobClients : /\ cpc'[d] = "idle" <=> cpc[d] = "idle"
                              /\ cpc'[d] = "deleting" <=> cpc[d] = "deleting"
                              /\ cpc'[d] \in {"waiting", "woken"} <=> cpc[d] \in {"waiting", "woken"}
                              /\ cpc[d] # "idle" => cq'[d] = cq[d]
    BY <1>1, <1>10
  <2>3. \A d \in JobClients : cj[d] # JobNone =>
            cj[d] \in jobWaited' /\ (cj[d] \in jobsOf[cq[d]] => cj[d] \in jobsOf'[cq[d]])
    BY <1>15
  <2>4. /\ UNCHANGED <<cj, qLock>>
        /\ \A d \in JobClients : cj[d] # JobNone /\ cj[d] \notin jobDetached => cj[d] \notin jobDetached'
    BY <1>1
  <2> QED
    BY <1>10, <1>16, <2>1, <2>2, <2>3, <2>4, CallersKept
<1>18. QueueOK(q)'
  <2>1. QueueOK(q) /\ qRef[q] \in Int /\ qRunning[q] \in Int /\ QueueMax[q] \in Int
    BY <1>3, <1>5, JobAssumption, SMTT(30) DEF JobIInv, JobTypes
  <2>2. WOn(q)' = WOn(q) \ {w} /\ w \in WOn(q)
    <3>1. w \in WOn(q) /\ w \notin WOn(q)'
      BY <1>j, <1>q, <1>4, <1>6 DEF WOn
    <3>2. \A v \in JobThreads : v # w => (v \in WOn(q)' <=> v \in WOn(q))
      BY <1>1, <1>6 DEF WOn
    <3>3. WOn(q) \subseteq JobThreads /\ WOn(q)' \subseteq JobThreads
      BY DEF WOn
    <3> QED
      BY <3>1, <3>2, <3>3, SMTT(30)
  <2>3. JOn(q)' = JOn(q) \ {j} /\ j \in JOn(q)
    <3>1. j \in JOn(q) /\ j \notin JOn(q)'
      BY <1>q, <1>4, <1>6 DEF JOn
    <3>2. \A k \in Jobs : k # j => (k \in JOn(q)' <=> k \in JOn(q))
      BY <1>1, <1>6 DEF JOn
    <3>3. JOn(q) \subseteq Jobs /\ JOn(q)' \subseteq Jobs
      BY DEF JOn
    <3> QED
      BY <3>1, <3>2, <3>3, SMTT(30)
  <2>4. Cardinality(WOn(q)') = Cardinality(WOn(q)) - 1
    BY <2>2, CountsFinite, FS_RemoveElement
  <2>5. Cardinality(JOn(q)') = Cardinality(JOn(q)) - 1
    BY <2>3, CountsFinite, FS_RemoveElement
  <2>6. /\ Cardinality(WOn(q)) \in Nat /\ Cardinality(COn(q)) \in Nat /\ Cardinality(JOn(q)) \in Nat
        /\ qRef[q] = Cardinality(WOn(q)) + Cardinality(COn(q)) /\ qRunning[q] = Cardinality(JOn(q))
        /\ q \in jobQs /\ qRunning[q] <= QueueMax[q]
    BY <1>5, <2>1, CountsFinite DEF QueueOK
  <2>7. Cardinality(COn(q)') = Cardinality(COn(q))
    BY <1>5, <1>17
  <2>8. qRef'[q] = Cardinality(WOn(q)') + Cardinality(COn(q)')
    BY <1>6, <2>4, <2>6, <2>7, IntStep, ZenonT(30)
  <2>9. qRunning'[q] = Cardinality(JOn(q)') /\ qRunning'[q] <= QueueMax[q]
    BY <1>6, <2>1, <2>5, <2>6, IntStep
  <2>10. jobsOf'[q] # {} \/ qRef'[q] > 0 => q \in jobQs'
    <3>1. qRef'[q] \in Int
      BY <1>6, <2>1, IntStep
    <3>2. CASE UNCHANGED <<jobQs, qDelete>>
      BY <2>6, <3>2
    <3>3. CASE qRef'[q] <= 0 /\ jobsOf'[q] = {}
      BY <3>1, <3>3, SMT
    <3> QED
      BY <1>2, <3>2, <3>3
  <2> QED
    BY <2>8, <2>9, <2>10 DEF QueueOK
<1>19. ASSUME NEW r \in JobQueues, r # q PROVE QueueOK(r)'
  <2>1. QueueOK(r)
    BY DEF JobIInv
  <2>2. WOn(r)' = WOn(r)
    <3>1. w \notin WOn(r) /\ w \notin WOn(r)'
      BY <1>j, <1>q, <1>6, <1>19 DEF WOn
    <3>2. \A v \in JobThreads : v # w => (v \in WOn(r)' <=> v \in WOn(r))
      BY <1>1, <1>6 DEF WOn
    <3>3. WOn(r) \subseteq JobThreads /\ WOn(r)' \subseteq JobThreads
      BY DEF WOn
    <3> QED
      BY <3>1, <3>2, <3>3, SMTT(30)
  <2>3. JOn(r)' = JOn(r)
    <3>1. \A k \in Jobs : k \in JOn(r)' <=> k \in JOn(r)
      BY <1>q, <1>1, <1>6, <1>19 DEF JOn
    <3>2. JOn(r) \subseteq Jobs /\ JOn(r)' \subseteq Jobs
      BY DEF JOn
    <3> QED
      BY <3>1, <3>2, SMT
  <2>4. jobsOf'[r] = jobsOf[r] /\ qRef'[r] = qRef[r] /\ qRunning'[r] = qRunning[r] /\ (r \in jobQs => r \in jobQs')
    BY <1>2, <1>6, <1>7, <1>19
  <2>5. COn(r)' = COn(r)
    BY <1>17
  <2> QED
    BY <2>1, <2>2, <2>3, <2>4, <2>5 DEF QueueOK
<1> QED
  BY <1>9, <1>11, <1>12, <1>13, <1>14, <1>17, <1>18, <1>19, ZenonT(30) DEF JobIInv

\* The invariant holds at first.
LEMMA JobInitInv == JobInit => JobIInv
<1> SUFFICES ASSUME JobInit PROVE JobIInv
  OBVIOUS
<1>1. JobTypes
  BY SMT DEF JobInit, JobTypes
<1>2. ListOK
  BY SMT DEF JobInit, ListOK
<1>3. /\ WAlive = {} /\ WIdle = {}
      /\ \A q : WOn(q) = {} /\ COn(q) = {} /\ JOn(q) = {}
  BY DEF JobInit, WAlive, WIdle, WOn, COn, JOn
<1>4. Cardinality({}) = 0
  BY FS_EmptySet
<1>5. PoolOK
  BY <1>3, <1>4 DEF JobInit, PoolOK
<1>6. \A j \in Jobs : JobOK(j)
  BY DEF JobInit, JobOK
<1>7. \A w \in JobThreads : ThreadOK(w)
  BY DEF JobInit, ThreadOK
<1>8. \A c \in JobClients : CallerOK(c)
  BY DEF JobInit, CallerOK
<1>9. ASSUME NEW q \in JobQueues PROVE QueueOK(q)
  <2>1. jobsOf[q] = {} /\ qRef[q] = 0 /\ qRunning[q] = 0 /\ QueueMax[q] \in Nat
    BY JobAssumption DEF JobInit
  <2>2. Cardinality(WOn(q)) = 0 /\ Cardinality(COn(q)) = 0 /\ Cardinality(JOn(q)) = 0
    BY <1>3, <1>4
  <2> QED
    BY <2>1, <2>2, SMT DEF QueueOK
<1> QED
  BY <1>1, <1>2, <1>5, <1>6, <1>7, <1>8, <1>9 DEF JobIInv

\* Every step keeps it.
LEMMA JobNextInv == JobIInv /\ [JobNext]_jobVars => JobIInv'
<1> SUFFICES ASSUME JobIInv, [JobNext]_jobVars PROVE JobIInv'
  OBVIOUS
<1>1. cq \in [JobClients -> JobQueues \cup {JobNone}]
  BY DEF JobIInv, JobTypes
<1>2. CASE UNCHANGED jobVars
  BY <1>1, <1>2, QuietKeeps DEF jobVars, jobLocks, jobData, jobPool, jobWork, jobCall
<1>3. ASSUME NEW p \in JobClients \cup JobThreads, TakeTp(p) PROVE JobIInv'
  <2>1. /\ UNCHANGED <<jobQVars, jobState, jobQueue, jobDetached, jobWaited, jobFreed, firstPtr, tpThreads, tpIdle,
                       wjob, wpc, qLock, cpc, cj>>
        /\ UNCHANGED cq \/ (p \in JobClients /\ cpc[p] = "idle" /\ \E q \in JobQueues : cq' = [cq EXCEPT ![p] = q])
    BY <1>3 DEF TakeTp, jobData, jobPool, jobWork
  <2>2. /\ cq' \in [JobClients -> JobQueues \cup {JobNone}]
        /\ \A d \in JobClients : cpc[d] # "idle" => cq'[d] = cq[d]
    BY <1>1, <2>1
  <2> QED
    BY <2>1, <2>2, QuietKeeps
<1>4. ASSUME NEW w \in JobThreads, JobThread(w) \/ JobIdleTimeout(w) PROVE JobIInv'
  BY <1>4, RestsKeep, TakesKeeps, DoneKeeps DEF JobThread
<1>5. ASSUME NEW c \in JobClients, JobWaitWakes(c), jobState[cj[c]] # "done" PROVE JobIInv'
  <2>1. /\ UNCHANGED <<jobQVars, jobState, jobQueue, jobDetached, jobWaited, jobFreed, firstPtr, tpThreads, tpIdle,
                       wjob, wpc, qLock, cq, cj>>
        /\ cpc[c] = "woken" /\ cpc' = [cpc EXCEPT ![c] = "waiting"]
    BY <1>5 DEF JobWaitWakes, jobQVars, jobPool, jobWork
  <2> QED
    BY <1>1, <2>1, QuietKeeps
<1>6. ASSUME NEW c \in JobClients, NEW timeout \in BOOLEAN, JobWaitAnyEnds(c, timeout), ~ (timeout \/ AnyDone(cq[c]))
      PROVE  JobIInv'
  <2>1. /\ UNCHANGED <<jobQVars, jobState, jobQueue, jobDetached, jobWaited, jobFreed, firstPtr, tpThreads, tpIdle,
                       wjob, wpc, qLock, cq, cj>>
        /\ cpc[c] = "wokenany" /\ cpc' = [cpc EXCEPT ![c] = "waitany"]
    BY <1>6 DEF JobWaitAnyEnds, jobQVars, jobData, jobPool, jobWork
  <2> QED
    BY <1>1, <2>1, QuietKeeps
<1>7. ASSUME NEW c \in JobClients, NEW q \in JobQueues, NEW j \in Jobs, JobCancel(c, q, j) PROVE JobIInv'
  <2>1. /\ UNCHANGED <<jobQVars, jobState, jobQueue, jobDetached, jobWaited, jobFreed, firstPtr, tpThreads, tpIdle,
                       wjob, qLock, cq, cj>>
        /\ cpc' = QBroadcast(q) /\ wpc' = TpBroadcast
    BY <1>7 DEF JobCancel, jobPool
  <2> QED
    BY <1>1, <2>1, QuietKeeps
<1>8. CASE JobStop
  BY <1>1, <1>8, QuietKeeps DEF JobStop, jobLocks, jobData, jobCall
<1>9. ASSUME NEW c \in JobClients,
             JobCallerWakes(c) \/ JobWaitTimeout(c) \/ JobWaitAnyEnds(c, TRUE)
      PROVE  JobIInv'
  BY <1>5, <1>6, <1>9, ReleaseDeleteKeeps, ResultKeeps, EndsKeeps DEF JobCallerWakes
<1>10. ASSUME NEW c \in JobClients, NEW q \in JobQueues,
              JobCreate(c, q) \/ JobDelete(c, q) \/ JobExists(c, q) \/ JobWaitAny(c, q)
       PROVE  JobIInv'
  BY <1>10, CreateKeeps, VisitKeeps, ArrivesKeeps
<1>11. ASSUME NEW c \in JobClients, NEW q \in JobQueues, NEW j \in Jobs,
              (\E detached, head \in BOOLEAN : JobAdd(c, q, j, detached, head)) \/ JobWait(c, q, j)
       PROVE  JobIInv'
  BY <1>11, RefusedKeeps, AcceptedKeeps, ResultKeeps, ArrivesKeeps
<1> QED
  BY <1>2, <1>3, <1>4, <1>7, <1>8, <1>9, <1>10, <1>11 DEF JobNext

\* nsd/tcljob.c, for any queues, jobs, callers and threads, and however the
\* two locks are taken: a queue with a job, a waiter or a running thread is
\* not deleted and its reference count is exact; a freed job is in no table,
\* no list and nobody's hands; no queue runs more than its maxThreads, and
\* the pool counts its threads and its idle threads.
THEOREM QueuesKept == JobSpec => []QueueInv
<1>1. JobInit => JobIInv
  BY JobInitInv
<1>2. JobIInv /\ [JobNext]_jobVars => JobIInv'
  BY JobNextInv
<1>3. JobIInv => QueueInv
  BY JobIInvImplies
<1> QED
  BY <1>1, <1>2, <1>3, PTL DEF JobSpec
=============================================================================
