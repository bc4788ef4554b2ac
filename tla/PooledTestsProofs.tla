-------------------------- MODULE PooledTestsProofs --------------------------
(***************************************************************************)
(* For every number of targets and of workers, and whatever the work       *)
(* function does, the worker pool loses no result, counts none twice and   *)
(* never makes a worker wait to hand one in.  The tests built on it use it *)
(* that way, and for any configuration give a target its marks, or give it *)
(* up, only for the requests that justify it (TestInv).                    *)
(***************************************************************************)
EXTENDS PooledTests, FiniteSetTheorems, TLAPS

\* Where PerformTest is tells how far it is.
Phase ==
    /\ ppc = "add" => added < NJobs
    /\ ppc # "add" => added = NJobs
    /\ ppc \in {"add", "collect"} => i < NJobs
    /\ ppc \in {"stop", "returned"} => i = NJobs

\* Every job that was taken is with a worker, in ResultChan or collected.
Count ==
    /\ taken <= added
    /\ Len(resultChan) + i + Cardinality(Busy) = taken
    /\ Cardinality(collected) = i

\* It is in one of these places only, and there once.
Once ==
    /\ \A j \in collected : j <= taken
    /\ \A w \in Busy : job[w] <= taken /\ job[w] \notin collected
    /\ \A u \in Busy, w \in Busy : job[u] = job[w] => u = w
    /\ \A k \in 1..Len(resultChan) :
          /\ resultChan[k].job <= taken /\ resultChan[k].job \notin collected
          /\ \A w \in Busy : job[w] # resultChan[k].job
    /\ \A k \in 1..Len(resultChan), l \in 1..Len(resultChan) :
          resultChan[k].job = resultChan[l].job => k = l

\* The inductive invariant.
PoolInv == PoolTypeOK /\ Phase /\ Count /\ Once /\ MarksWithinMax
-----------------------------------------------------------------------------
\* The busy workers are finitely many.
LEMMA BusyFinite == IsFiniteSet(Busy) /\ Cardinality(Busy) \in Nat
  <1>1. IsFiniteSet(Busy)
    BY FS_Subset, PoolAssumption DEF Busy
  <1> QED BY <1>1, FS_CardinalityType

\* So are the collected jobs; when there are NJobs of them they are all the jobs.
LEMMA CollectedFinite ==
  ASSUME collected \in SUBSET Jobs
  PROVE  /\ IsFiniteSet(collected) /\ Cardinality(collected) \in Nat
         /\ Cardinality(collected) = NJobs => collected = Jobs
  <1>1. IsFiniteSet(Jobs) /\ Cardinality(Jobs) = NJobs
    BY FS_Interval, PoolAssumption, 1 \in Int, NJobs \in Int, 1 <= NJobs + 1 DEF Jobs
  <1>2. IsFiniteSet(collected) /\ (Cardinality(collected) = Cardinality(Jobs) => collected = Jobs)
    BY <1>1, FS_Subset
  <1> QED BY <1>1, <1>2, FS_CardinalityType

\* The first element of ResultChan, and what is left without it.
LEMMA ChanTail ==
  ASSUME NEW c \in Seq(JobResults), c # <<>>
  PROVE  /\ Head(c) = c[1] /\ Head(c) \in JobResults
         /\ Tail(c) \in Seq(JobResults) /\ Len(c) \in Nat \ {0} /\ Len(Tail(c)) = Len(c) - 1
         /\ \A k \in 1..Len(Tail(c)) : Tail(c)[k] = c[k + 1] /\ k + 1 \in 1..Len(c)
  OBVIOUS

\* A record is a job result.
LEMMA JobResultType ==
  ASSUME NEW n \in Jobs, NEW o \in Outcomes
  PROVE  [job |-> n, marks |-> o.marks, err |-> o.err] \in JobResults
  BY Zenon DEF JobResults, Outcomes
-----------------------------------------------------------------------------
\* The pool starts in the invariant.
LEMMA PoolInvInit == PoolInit => PoolInv
  <1> SUFFICES ASSUME PoolInit PROVE PoolInv OBVIOUS
  <1>1. Busy = {} BY DEF PoolInit, Busy
  <1>2. Cardinality({}) = 0 BY FS_EmptySet
  <1>3. [marks |-> 0, err |-> FALSE] \in Outcomes
    BY PoolAssumption DEF Outcomes
  <1>4. PoolTypeOK
    <2>1. resultChan \in Seq(JobResults) BY DEF PoolInit
    <2>2. outcome \in [Workers -> Outcomes] BY <1>3 DEF PoolInit
    <2>3. job \in [Workers -> Jobs] BY PoolAssumption DEF PoolInit, Jobs
    <2>4. wpc \in [Workers -> {"select", "work", "send", "returned"}] BY DEF PoolInit
    <2>5. closed \in BOOLEAN /\ ppc \in {"add", "collect", "stop", "returned"} /\ collected \in SUBSET Jobs
      BY DEF PoolInit
    <2>6. added \in 0..NJobs /\ taken \in 0..NJobs /\ i \in 0..NJobs /\ marks \in Nat
      BY PoolAssumption DEF PoolInit
    <2> QED BY <2>1, <2>2, <2>3, <2>4, <2>5, <2>6 DEF PoolTypeOK
  <1>5. Phase /\ Count /\ Once BY <1>1, <1>2, PoolAssumption DEF PoolInit, Phase, Count, Once
  <1>6. MarksWithinMax BY PoolAssumption DEF PoolInit, MarksWithinMax
  <1> QED BY <1>4, <1>5, <1>6 DEF PoolInv

\* Adding a job keeps the invariant.
LEMMA AddJobKeeps == PoolInv /\ AddJob => PoolInv'
  <1> SUFFICES ASSUME PoolInv, AddJob PROVE PoolInv' OBVIOUS
  <1> USE PoolAssumption
  <1>1. PoolTypeOK' BY DEF PoolInv, PoolTypeOK, Phase, AddJob, workerVars
  <1>2. Phase' BY DEF PoolInv, PoolTypeOK, Phase, AddJob
  <1>3. Busy' = Busy BY DEF AddJob, Busy, workerVars
  <1>4. Count' BY <1>3 DEF PoolInv, PoolTypeOK, Count, AddJob
  <1>5. Once' BY <1>3 DEF PoolInv, Once, AddJob, workerVars
  <1>6. MarksWithinMax' BY DEF PoolInv, MarksWithinMax, AddJob
  <1> QED BY <1>1, <1>2, <1>4, <1>5, <1>6 DEF PoolInv

\* Collecting a result keeps it: the result is of a job that was not collected before.
LEMMA CollectKeeps == PoolInv /\ Collect => PoolInv'
  <1> SUFFICES ASSUME PoolInv, Collect PROVE PoolInv' OBVIOUS
  <1> USE PoolAssumption
  <1> DEFINE h == Head(resultChan)
  <1>1. /\ resultChan \in Seq(JobResults) /\ resultChan # <<>> /\ resultChan' = Tail(resultChan)
        /\ i \in Nat /\ i' = i + 1 /\ i < NJobs /\ marks \in Nat /\ collected \in SUBSET Jobs
        /\ collected' = collected \cup {h.job} /\ ppc = "collect"
        /\ ppc' = (IF i + 1 = NJobs THEN "stop" ELSE "collect")
        /\ added' = added /\ taken' = taken /\ closed' = closed /\ wpc' = wpc /\ job' = job /\ outcome' = outcome
    BY DEF PoolInv, PoolTypeOK, Phase, Collect, workerVars
  <1>2. h \in JobResults /\ h = resultChan[1] BY <1>1, ChanTail
  <1>3. h.job \in Jobs /\ h.marks \in 0..JobMarks BY <1>2 DEF JobResults
  <1>4. marks' \in Nat /\ marks' <= marks + JobMarks
    <2>1. marks' = marks + h.marks \/ marks' = marks + 0 BY <1>1 DEF Collect
    <2>2. marks \in Nat /\ JobMarks \in Nat BY <1>1
    <2> QED BY <2>1, <2>2, <1>3
  <1>5. PoolTypeOK'
    <2>1. resultChan' \in Seq(JobResults) BY <1>1, ChanTail
    <2>2. collected' \in SUBSET Jobs BY <1>1, <1>3
    <2> QED BY <1>1, <1>4, <2>1, <2>2 DEF PoolInv, PoolTypeOK
  <1>6. Phase' BY <1>1 DEF PoolInv, Phase
  <1>7. Busy' = Busy BY <1>1 DEF Busy
  <1>8. h.job \notin collected /\ h.job <= taken /\ 1 \in 1..Len(resultChan)
    BY <1>1, <1>2, ChanTail DEF PoolInv, Once
  <1>9. Count'
    <2>1. Cardinality(collected') = Cardinality(collected) + 1
      BY <1>1, <1>8, CollectedFinite, FS_AddElement
    <2>2. Len(resultChan') = Len(resultChan) - 1 /\ Len(resultChan) \in Nat BY <1>1, ChanTail
    <2> QED BY <1>1, <1>7, <2>1, <2>2, BusyFinite DEF PoolInv, PoolTypeOK, Count
  <1>10. Once'
    <2>1. \A k \in 1..Len(resultChan') : resultChan'[k] = resultChan[k + 1] /\ k + 1 \in 1..Len(resultChan) /\ k \in Int
      BY <1>1, ChanTail
    <2>2. \A j \in collected' : j <= taken' BY <1>1, <1>8 DEF PoolInv, Once
    <2>3. \A w \in Busy' : job'[w] <= taken' /\ job'[w] \notin collected'
      BY <1>1, <1>2, <1>7, <1>8 DEF PoolInv, Once
    <2>4. \A u \in Busy', w \in Busy' : job'[u] = job'[w] => u = w BY <1>1, <1>7 DEF PoolInv, Once
    <2>5. \A k \in 1..Len(resultChan') :
             /\ resultChan'[k].job <= taken' /\ resultChan'[k].job \notin collected'
             /\ \A w \in Busy' : job'[w] # resultChan'[k].job
      <3> TAKE k \in 1..Len(resultChan')
      <3>1. resultChan[k + 1].job # h.job
        <4>1. k + 1 # 1 BY <2>1
        <4> QED BY <4>1, <2>1, <1>2, <1>8 DEF PoolInv, Once
      <3> QED BY <3>1, <2>1, <1>1, <1>7 DEF PoolInv, Once
    <2>6. \A k \in 1..Len(resultChan'), l \in 1..Len(resultChan') :
             resultChan'[k].job = resultChan'[l].job => k = l
      <3> TAKE k \in 1..Len(resultChan'), l \in 1..Len(resultChan')
      <3>1. resultChan'[k].job = resultChan'[l].job => k + 1 = l + 1
        BY <2>1 DEF PoolInv, Once
      <3>2. k \in Int /\ l \in Int BY <2>1
      <3> QED BY <3>1, <3>2
    <2> QED BY <2>2, <2>3, <2>4, <2>5, <2>6 DEF Once
  <1>11. MarksWithinMax'
    <2>1. i * JobMarks \in Nat /\ (i + 1) * JobMarks = i * JobMarks + JobMarks BY <1>1
    <2>2. marks <= i * JobMarks BY DEF PoolInv, MarksWithinMax
    <2>3. marks' <= (i + 1) * JobMarks BY <2>1, <2>2, <1>1, <1>4
    <2> QED BY <2>3, <1>1 DEF MarksWithinMax
  <1> QED BY <1>5, <1>6, <1>9, <1>10, <1>11 DEF PoolInv

\* The answer keeps it.
LEMMA StopKeeps == PoolInv /\ Stop => PoolInv'
  <1> SUFFICES ASSUME PoolInv, Stop PROVE PoolInv' OBVIOUS
  <1>1. PoolTypeOK' BY DEF PoolInv, PoolTypeOK, Stop, workerVars
  <1>2. Phase' BY DEF PoolInv, Phase, Stop
  <1>3. Busy' = Busy BY DEF Stop, Busy, workerVars
  <1>4. Count' BY <1>3 DEF PoolInv, Count, Stop
  <1>5. Once' BY <1>3 DEF PoolInv, Once, Stop, workerVars
  <1>6. MarksWithinMax' BY DEF PoolInv, MarksWithinMax, Stop
  <1> QED BY <1>1, <1>2, <1>4, <1>5, <1>6 DEF PoolInv

\* Taking a job keeps it: the job is a new one.
LEMMA TakeJobKeeps == ASSUME NEW w \in Workers, PoolInv, TakeJob(w) PROVE PoolInv'
  <1> USE PoolAssumption
  <1>1. /\ wpc \in [Workers -> {"select", "work", "send", "returned"}] /\ job \in [Workers -> Jobs]
        /\ wpc[w] = "select" /\ taken < added /\ taken' = taken + 1 /\ taken + 1 \in Jobs
        /\ job' = [job EXCEPT ![w] = taken + 1] /\ wpc' = [wpc EXCEPT ![w] = "work"]
        /\ added \in 0..NJobs /\ taken \in 0..NJobs /\ added' = added /\ closed' = closed
        /\ resultChan' = resultChan /\ outcome' = outcome
        /\ ppc' = ppc /\ i' = i /\ marks' = marks /\ collected' = collected
    BY DEF PoolInv, PoolTypeOK, TakeJob, callerVars, Jobs
  <1>2. PoolTypeOK'
    <2>1. job' \in [Workers -> Jobs] /\ wpc' \in [Workers -> {"select", "work", "send", "returned"}]
      BY <1>1
    <2>2. taken' \in 0..NJobs BY <1>1
    <2> QED BY <2>1, <2>2, <1>1 DEF PoolInv, PoolTypeOK
  <1>3. Phase' BY <1>1 DEF PoolInv, Phase
  <1>4. Busy' = Busy \cup {w} /\ w \notin Busy BY <1>1 DEF Busy
  <1>5. Count'
    <2>1. Cardinality(Busy') = Cardinality(Busy) + 1 BY <1>4, BusyFinite, FS_AddElement
    <2>2. Len(resultChan) \in Nat /\ i \in Nat BY DEF PoolInv, PoolTypeOK
    <2> QED BY <1>1, <2>1, <2>2, BusyFinite DEF PoolInv, Count
  <1>6. Once'
    <2>1. /\ collected \in SUBSET Jobs /\ \A j \in Jobs : j \in Int
          /\ \A k \in 1..Len(resultChan) : resultChan[k] \in JobResults
      BY DEF PoolInv, PoolTypeOK, Jobs
    <2>2. \A k \in 1..Len(resultChan) : resultChan[k].job \in Int BY <2>1 DEF JobResults
    <2>3. job'[w] = taken + 1 /\ \A u \in Busy : job'[u] = job[u] /\ job[u] \in Int
      BY <1>1, <1>4, <2>1 DEF Busy
    <2>4. \A j \in collected' : j <= taken' BY <1>1, <2>1 DEF PoolInv, Once
    <2>5. \A u \in Busy' : job'[u] <= taken' /\ job'[u] \notin collected'
      BY <1>1, <1>4, <2>1, <2>3 DEF PoolInv, Once
    <2>6. \A u \in Busy', v \in Busy' : job'[u] = job'[v] => u = v
      BY <1>1, <1>4, <2>3 DEF PoolInv, Once
    <2>7. \A k \in 1..Len(resultChan') :
             /\ resultChan'[k].job <= taken' /\ resultChan'[k].job \notin collected'
             /\ \A u \in Busy' : job'[u] # resultChan'[k].job
      BY <1>1, <1>4, <2>2, <2>3 DEF PoolInv, Once
    <2>8. \A k \in 1..Len(resultChan'), l \in 1..Len(resultChan') :
             resultChan'[k].job = resultChan'[l].job => k = l
      BY <1>1 DEF PoolInv, Once
    <2> QED BY <2>4, <2>5, <2>6, <2>7, <2>8 DEF Once
  <1>7. MarksWithinMax' BY <1>1 DEF PoolInv, MarksWithinMax
  <1> QED BY <1>2, <1>3, <1>5, <1>6, <1>7 DEF PoolInv

\* The return of the work function keeps it.
LEMMA FinishJobKeeps ==
  ASSUME NEW w \in Workers, NEW o \in Outcomes, PoolInv, FinishJob(w, o) PROVE PoolInv'
  <1>1. /\ wpc \in [Workers -> {"select", "work", "send", "returned"}] /\ wpc[w] = "work"
        /\ wpc' = [wpc EXCEPT ![w] = "send"] /\ outcome' = [outcome EXCEPT ![w] = o]
        /\ outcome \in [Workers -> Outcomes]
        /\ added' = added /\ taken' = taken /\ closed' = closed /\ resultChan' = resultChan
        /\ job' = job /\ ppc' = ppc /\ i' = i /\ marks' = marks /\ collected' = collected
    BY DEF PoolInv, PoolTypeOK, FinishJob, chanVars, callerVars
  <1>2. PoolTypeOK'
    <2>1. wpc' \in [Workers -> {"select", "work", "send", "returned"}] BY <1>1
    <2>2. outcome' \in [Workers -> Outcomes] BY <1>1, Zenon
    <2> QED BY <2>1, <2>2, <1>1 DEF PoolInv, PoolTypeOK
  <1>3. Phase' BY <1>1 DEF PoolInv, Phase
  <1>4. Busy' = Busy BY <1>1 DEF Busy
  <1>5. Count' BY <1>1, <1>4 DEF PoolInv, Count
  <1>6. Once' BY <1>1, <1>4 DEF PoolInv, Once
  <1>7. MarksWithinMax' BY <1>1 DEF PoolInv, MarksWithinMax
  <1> QED BY <1>2, <1>3, <1>5, <1>6, <1>7 DEF PoolInv

\* Handing in a result keeps it: the job moves from the worker to ResultChan.
LEMMA SendResultKeeps == ASSUME NEW w \in Workers, PoolInv, SendResult(w) PROVE PoolInv'
  <1> DEFINE r == [job |-> job[w], marks |-> outcome[w].marks, err |-> outcome[w].err]
  <1>1. /\ wpc \in [Workers -> {"select", "work", "send", "returned"}] /\ wpc[w] = "send"
        /\ wpc' = [wpc EXCEPT ![w] = "select"] /\ job[w] \in Jobs /\ outcome[w] \in Outcomes
        /\ resultChan \in Seq(JobResults) /\ resultChan' = Append(resultChan, r)
        /\ added' = added /\ taken' = taken /\ closed' = closed /\ job' = job /\ outcome' = outcome
        /\ ppc' = ppc /\ i' = i /\ marks' = marks /\ collected' = collected
    BY DEF PoolInv, PoolTypeOK, SendResult, callerVars
  <1>2. r \in JobResults /\ r.job = job[w] BY <1>1, JobResultType
  <1> HIDE DEF r
  <1>3. /\ resultChan' \in Seq(JobResults) /\ Len(resultChan) \in Nat
        /\ Len(resultChan') = Len(resultChan) + 1 /\ resultChan'[Len(resultChan) + 1] = r
        /\ \A k \in 1..Len(resultChan) : resultChan'[k] = resultChan[k]
    BY <1>1, <1>2
  <1>4. PoolTypeOK'
    <2>1. wpc' \in [Workers -> {"select", "work", "send", "returned"}] BY <1>1
    <2> QED BY <2>1, <1>1, <1>3 DEF PoolInv, PoolTypeOK
  <1>5. Phase' BY <1>1 DEF PoolInv, Phase
  <1>6. Busy' = Busy \ {w} /\ w \in Busy BY <1>1 DEF Busy
  <1>7. Count'
    <2>1. Cardinality(Busy') = Cardinality(Busy) - 1 BY <1>6, BusyFinite, FS_RemoveElement
    <2>2. i \in Nat /\ taken \in Nat BY DEF PoolInv, PoolTypeOK
    <2> QED BY <1>1, <1>3, <2>1, <2>2, BusyFinite DEF PoolInv, Count
  <1>8. Once'
    <2>1. \A k \in 1..Len(resultChan') : k \in 1..Len(resultChan) \/ k = Len(resultChan) + 1
      BY <1>3
    <2>2. \A k \in 1..Len(resultChan') :
             /\ resultChan'[k].job <= taken' /\ resultChan'[k].job \notin collected'
             /\ \A u \in Busy' : job'[u] # resultChan'[k].job
      <3> TAKE k \in 1..Len(resultChan')
      <3>1. CASE k \in 1..Len(resultChan) BY <3>1, <1>1, <1>3, <1>6 DEF PoolInv, Once
      <3>2. CASE k = Len(resultChan) + 1 BY <3>2, <1>1, <1>2, <1>3, <1>6 DEF PoolInv, Once
      <3> QED BY <2>1, <3>1, <3>2
    <2>3. \A k \in 1..Len(resultChan'), l \in 1..Len(resultChan') :
             resultChan'[k].job = resultChan'[l].job => k = l
      <3> TAKE k \in 1..Len(resultChan'), l \in 1..Len(resultChan')
      <3>1. \A n \in 1..Len(resultChan) : resultChan[n].job # r.job
        BY <1>2, <1>6 DEF PoolInv, Once
      <3> QED BY <2>1, <3>1, <1>3 DEF PoolInv, Once
    <2>4. \A u \in Busy' : job'[u] <= taken' /\ job'[u] \notin collected' BY <1>1, <1>6 DEF PoolInv, Once
    <2>5. \A u \in Busy', v \in Busy' : job'[u] = job'[v] => u = v BY <1>1, <1>6 DEF PoolInv, Once
    <2>6. \A j \in collected' : j <= taken' BY <1>1 DEF PoolInv, Once
    <2> QED BY <2>2, <2>3, <2>4, <2>5, <2>6 DEF Once
  <1>9. MarksWithinMax' BY <1>1 DEF PoolInv, MarksWithinMax
  <1> QED BY <1>4, <1>5, <1>7, <1>8, <1>9 DEF PoolInv

\* The end of a worker keeps it.
LEMMA WorkerReturnsKeeps == ASSUME NEW w \in Workers, PoolInv, WorkerReturns(w) PROVE PoolInv'
  <1>1. /\ wpc \in [Workers -> {"select", "work", "send", "returned"}] /\ wpc[w] = "select"
        /\ wpc' = [wpc EXCEPT ![w] = "returned"]
        /\ added' = added /\ taken' = taken /\ closed' = closed /\ resultChan' = resultChan
        /\ job' = job /\ outcome' = outcome
        /\ ppc' = ppc /\ i' = i /\ marks' = marks /\ collected' = collected
    BY DEF PoolInv, PoolTypeOK, WorkerReturns, chanVars, callerVars
  <1>2. PoolTypeOK'
    <2>1. wpc' \in [Workers -> {"select", "work", "send", "returned"}] BY <1>1
    <2> QED BY <2>1, <1>1 DEF PoolInv, PoolTypeOK
  <1>3. Phase' BY <1>1 DEF PoolInv, Phase
  <1>4. Busy' = Busy BY <1>1 DEF Busy
  <1>5. Count' BY <1>1, <1>4 DEF PoolInv, Count
  <1>6. Once' BY <1>1, <1>4 DEF PoolInv, Once
  <1>7. MarksWithinMax' BY <1>1 DEF PoolInv, MarksWithinMax
  <1> QED BY <1>2, <1>3, <1>5, <1>6, <1>7 DEF PoolInv
-----------------------------------------------------------------------------
\* Every step keeps the invariant.
LEMMA PoolInvStep == PoolInv /\ [PoolNext]_pvars => PoolInv'
  <1> SUFFICES ASSUME PoolInv, [PoolNext]_pvars PROVE PoolInv' OBVIOUS
  <1>1. CASE CallerStep BY <1>1, AddJobKeeps, CollectKeeps, StopKeeps DEF CallerStep
  <1>2. ASSUME NEW w \in Workers, WorkerStep(w) PROVE PoolInv'
    BY <1>2, TakeJobKeeps, SendResultKeeps, WorkerReturnsKeeps, FinishJobKeeps DEF WorkerStep
  <1>3. CASE UNCHANGED pvars
    <2>1. Busy' = Busy BY <1>3 DEF pvars, workerVars, Busy
    <2>2. PoolTypeOK' /\ Phase'
      BY <1>3 DEF PoolInv, PoolTypeOK, Phase, pvars, chanVars, workerVars, callerVars
    <2>3. Count' /\ Once' /\ MarksWithinMax'
      BY <1>3, <2>1 DEF PoolInv, Count, Once, MarksWithinMax, pvars, chanVars, workerVars, callerVars
    <2> QED BY <2>2, <2>3 DEF PoolInv
  <1> QED BY <1>1, <1>2, <1>3 DEF PoolNext

\* The inductive invariant always holds.
THEOREM PoolInvariant == PoolSpec => []PoolInv
  BY PoolInvInit, PoolInvStep, PTL DEF PoolSpec

\* In a state of the invariant a worker that has a result finds room in ResultChan.
LEMMA RoomLemma == PoolInv => RoomForResults
  <1> SUFFICES ASSUME PoolInv, NEW w \in Workers, wpc[w] = "send" PROVE Len(resultChan) < JobBuffer
    BY DEF RoomForResults
  <1>1. Cardinality(Busy) # 0
    BY BusyFinite, FS_EmptySet DEF Busy
  <1>2. Len(resultChan) \in Nat /\ i \in Nat /\ taken \in Nat /\ added \in Nat /\ added <= NJobs
    BY PoolAssumption DEF PoolInv, PoolTypeOK
  <1> QED BY <1>1, <1>2, BusyFinite, PoolAssumption DEF PoolInv, Count, JobBuffer

\* No worker ever waits to hand in a result, however many targets and workers there are:
\* PerformTest may add all its jobs before it collects the first result.
THEOREM WorkersNeverWait == PoolSpec => []RoomForResults
  BY PoolInvariant, RoomLemma, PTL

\* The marks never exceed what the collected targets are worth.
THEOREM MarksBounded == PoolSpec => []MarksWithinMax
  <1>1. PoolInv => MarksWithinMax BY DEF PoolInv
  <1> QED BY <1>1, PoolInvariant, PTL
-----------------------------------------------------------------------------
\* A collected result is one evaluation of one target that was pending.
LEMMA CollectEvaluates == PoolInv /\ Collect => \E t \in Jobs : Score!Evaluate(t)
  <1> SUFFICES ASSUME PoolInv, Collect PROVE \E t \in Jobs : Score!Evaluate(t) OBVIOUS
  <1> DEFINE h == Head(resultChan)
  <1>1. /\ resultChan \in Seq(JobResults) /\ resultChan # <<>> /\ collected' = collected \cup {h.job}
        /\ ppc = "collect" /\ ppc' # "returned"
    BY DEF PoolInv, PoolTypeOK, Collect
  <1>2. h \in JobResults /\ h = resultChan[1] /\ 1 \in 1..Len(resultChan) BY <1>1, ChanTail
  <1>3. h.job \in Jobs /\ h.marks \in 0..JobMarks /\ 0 \in 0..JobMarks
    BY <1>2, PoolAssumption DEF JobResults
  <1>4. h.job \notin collected BY <1>2 DEF PoolInv, Once
  <1>5. Jobs \ collected' = (Jobs \ collected) \ {h.job} BY <1>1
  <1>6. \E m \in 0..JobMarks : marks' = marks + m BY <1>3 DEF Collect
  <1>7. (ppc' = "returned") = (ppc = "returned") BY <1>1
  <1>8. Score!Evaluate(h.job) BY <1>3, <1>4, <1>5, <1>6, <1>7 DEF Score!Evaluate
  <1> QED BY <1>3, <1>8

\* PerformTest answers when every target is evaluated.
LEMMA StopReports == PoolInv /\ Stop => Score!Report
  <1> SUFFICES ASSUME PoolInv, Stop PROVE Score!Report OBVIOUS
  <1>1. collected = Jobs BY CollectedFinite DEF PoolInv, PoolTypeOK, Phase, Count, Stop
  <1> QED BY <1>1 DEF Stop, Score!Report

\* All other steps are invisible.
LEMMA OthersStutter ==
  ASSUME PoolInv, AddJob \/ (\E w \in Workers : WorkerStep(w)) \/ UNCHANGED pvars
  PROVE  UNCHANGED Score!svars
  <1>1. collected' = collected /\ marks' = marks /\ (ppc' = "returned") = (ppc = "returned")
    <2>1. CASE AddJob BY <2>1 DEF AddJob
    <2>2. CASE \E w \in Workers : WorkerStep(w)
      BY <2>2 DEF WorkerStep, TakeJob, FinishJob, SendResult, WorkerReturns, callerVars
    <2>3. CASE UNCHANGED pvars BY <2>3 DEF pvars, callerVars
    <2> QED BY <2>1, <2>2, <2>3
  <1> QED BY <1>1 DEF Score!svars

\* The pool and PerformTest implement TestScore: for every number of targets and workers
\* and every interleaving each target is evaluated exactly once, and the marks are
\* reported when all of them are.
THEOREM ScoreRefinement == PoolSpec => ScoreImplemented
  <1>1. PoolInit => Score!ScoreInit BY DEF PoolInit, Score!ScoreInit
  <1>2. PoolInv /\ [PoolNext]_pvars => [Score!ScoreNext]_(Score!svars)
    <2> SUFFICES ASSUME PoolInv, [PoolNext]_pvars PROVE [Score!ScoreNext]_(Score!svars) OBVIOUS
    <2>1. CASE Collect BY <2>1, CollectEvaluates DEF Score!ScoreNext
    <2>2. CASE Stop BY <2>2, StopReports DEF Score!ScoreNext
    <2>3. CASE AddJob \/ (\E w \in Workers : WorkerStep(w)) \/ UNCHANGED pvars BY <2>3, OthersStutter
    <2> QED BY <2>1, <2>2, <2>3 DEF PoolNext, CallerStep
  <1> QED BY <1>1, <1>2, PoolInvariant, PTL DEF PoolSpec, ScoreImplemented, Score!ScoreSpec
-----------------------------------------------------------------------------
(* The tests on the pool. *)

\* The requests of w before its n-th all gave the answer a.
AllBefore(w, n, a) == \A k \in DOMAIN Tried(w) : k < n => Tried(w)[k] = a

\* repeatsWithoutFail: every request before this one matched, and i counts them.
Repeating(w) ==
    /\ ping[w].step = "ping" =>
          /\ ping[w].i = Len(Tried(w)) + 1 /\ ping[w].i <= ConfigOf(w).repeats
          /\ All(w, "match")
    /\ ping[w].step = "check" =>
          /\ Len(Tried(w)) > 0
          /\ ping[w].i = Len(Tried(w)) /\ ping[w].i <= ConfigOf(w).repeats
          /\ AllBefore(w, Len(Tried(w)), "match")

\* retries: every request before this one failed, and i is the number of the retry.
Retrying(w) ==
    /\ ping[w].step = "ping" =>
          /\ ping[w].i = Len(Tried(w))
          /\ Len(Tried(w)) > 0 => ping[w].i <= ConfigOf(w).retries
          /\ All(w, "error")
    /\ ping[w].step = "check" =>
          /\ Len(Tried(w)) > 0
          /\ ping[w].i = Len(Tried(w)) - 1 /\ ping[w].i <= ConfigOf(w).retries
          /\ AllBefore(w, Len(Tried(w)), "error")

InLoop(w) ==
    plugin = "httpPing" /\ Working(w) =>
        IF ConfigOf(w).repeats > 0 THEN Repeating(w) ELSE Retrying(w)

TestTypes ==
    plugin \in Plugins /\ config \in [Jobs -> Configs \cup {NoConfig}] /\ ping \in [Workers -> Pings]

WorkerInv(w) == InLoop(w) /\ ScoreJustified(w) /\ ErrorJustified(w)

\* The inductive invariant of the tests.
TestInv == TestTypes /\ \A w \in Workers : WorkerInv(w)
-----------------------------------------------------------------------------
\* The configuration of a job is one of integers.
LEMMA ConfigType ==
  ASSUME PoolTypeOK, TestTypes, NEW w \in Workers
  PROVE  /\ ConfigOf(w).repeats \in Int /\ ConfigOf(w).retries \in Int
         /\ ConfigOf(w).timeoutRetries \in Int
  <1>1. job[w] \in Jobs BY DEF PoolTypeOK
  <1>2. config[job[w]] \in Configs \cup {NoConfig} BY <1>1 DEF TestTypes
  <1>3. ASSUME NEW c \in Configs PROVE c.repeats \in Int /\ c.retries \in Int /\ c.timeoutRetries \in Int
    BY ConfigsAssumption
  <1>4. NoConfig.repeats \in Int /\ NoConfig.retries \in Int /\ NoConfig.timeoutRetries \in Int
    BY DEF NoConfig
  <1> QED BY <1>2, <1>3, <1>4 DEF ConfigOf

\* A worker that nothing happens to keeps its part of the invariant.
LEMMA SameWorker ==
  ASSUME NEW w \in Workers, WorkerInv(w),
         plugin' = plugin, config' = config, ping'[w] = ping[w],
         wpc'[w] = wpc[w], job'[w] = job[w], outcome'[w] = outcome[w]
  PROVE  WorkerInv(w)'
  <1>1. ConfigOf(w)' = ConfigOf(w) /\ Tried(w)' = Tried(w) BY DEF ConfigOf, Tried
  <1>2. InLoop(w)' BY <1>1 DEF WorkerInv, InLoop, Working, Repeating, Retrying, AllBefore, All
  <1>3. ScoreJustified(w)' BY <1>1 DEF WorkerInv, ScoreJustified, Finished, Answer, All, Tried
  <1>4. ErrorJustified(w)' BY <1>1 DEF WorkerInv, ErrorJustified, GivenUp, Finished, All
  <1> QED BY <1>2, <1>3, <1>4 DEF WorkerInv

\* A worker without a job has nothing to keep, nor has one of another test.
LEMMA IdleWorker ==
  ASSUME NEW w \in Workers, plugin' # "httpPing" \/ wpc'[w] \in {"select", "returned"}
  PROVE  WorkerInv(w)'
  BY DEF WorkerInv, InLoop, Working, ScoreJustified, ErrorJustified, GivenUp, Finished

\* When the work function returns, only its worker changes.
LEMMA ReturnChanges ==
  ASSUME NEW w \in Workers, NEW o, PoolTypeOK, FinishJob(w, o), UNCHANGED <<plugin, config, ping>>
  PROVE  /\ wpc'[w] = "send" /\ outcome'[w] = o
         /\ ConfigOf(w)' = ConfigOf(w) /\ Tried(w)' = Tried(w) /\ Answer(w)' = Answer(w)
         /\ \A v \in Workers : v # w => wpc'[v] = wpc[v] /\ outcome'[v] = outcome[v]
         /\ job' = job /\ plugin' = plugin /\ config' = config /\ ping' = ping
  BY DEF PoolTypeOK, FinishJob, chanVars, callerVars, ConfigOf, Tried, Answer

\* What is left to show of a return: the result is justified.
LEMMA ReturnKeeps ==
  ASSUME NEW w \in Workers, NEW o, PoolTypeOK, TestInv,
         FinishJob(w, o), UNCHANGED <<plugin, config, ping>>,
         ScoreJustified(w)', ErrorJustified(w)'
  PROVE  TestInv'
  <1>1. TestTypes' BY ReturnChanges DEF TestInv, TestTypes
  <1>2. InLoop(w)' BY ReturnChanges DEF InLoop, Working
  <1>3. ASSUME NEW v \in Workers, v # w PROVE WorkerInv(v)'
    <2>1. WorkerInv(v) BY DEF TestInv
    <2>2. /\ plugin' = plugin /\ config' = config /\ ping'[v] = ping[v]
          /\ wpc'[v] = wpc[v] /\ job'[v] = job[v] /\ outcome'[v] = outcome[v]
      BY <1>3, ReturnChanges
    <2> QED BY <2>1, <2>2, SameWorker
  <1>4. \A v \in Workers : WorkerInv(v)' BY <1>2, <1>3 DEF WorkerInv
  <1> QED BY <1>1, <1>4 DEF TestInv

\* When httpPingTest goes on, only its worker's locals change.
LEMMA PingKeeps ==
  ASSUME NEW w \in Workers, NEW p \in Pings, PoolTypeOK, TestInv, Working(w),
         ping' = [ping EXCEPT ![w] = p], UNCHANGED <<pvars, plugin, config>>, InLoop(w)'
  PROVE  TestInv'
  <1>1. TestTypes' BY DEF TestInv, TestTypes
  <1>2. /\ wpc' = wpc /\ job' = job /\ outcome' = outcome /\ plugin' = plugin /\ config' = config
        /\ \A v \in Workers : v # w => ping'[v] = ping[v]
    BY DEF pvars, workerVars, TestInv, TestTypes
  <1>3. ScoreJustified(w)' /\ ErrorJustified(w)'
    BY <1>2 DEF ScoreJustified, ErrorJustified, GivenUp, Finished, Working
  <1>4. ASSUME NEW v \in Workers, v # w PROVE WorkerInv(v)'
    BY <1>2, <1>4, SameWorker DEF TestInv
  <1>5. \A v \in Workers : WorkerInv(v)' BY <1>3, <1>4 DEF WorkerInv
  <1> QED BY <1>1, <1>5 DEF TestInv
-----------------------------------------------------------------------------
\* A request answers: it is one more that was tried.
LEMMA RunHttpPingKeeps ==
  ASSUME NEW w \in Workers, PoolTypeOK, TestInv, runHttpPing(w) PROVE TestInv'
  <1>1. PICK a \in Answers : ping' = [ping EXCEPT ![w].step = "check", ![w].tried = Append(@, a)]
    BY DEF runHttpPing, Answers
  <1> DEFINE t == Tried(w)
  <1> DEFINE p == [ping[w] EXCEPT !.step = "check", !.tried = Append(@, a)]
  <1>2. /\ plugin = "httpPing" /\ Working(w) /\ ping[w].step = "ping" /\ UNCHANGED <<pvars, plugin, config>>
        /\ ping[w] \in Pings /\ ping \in [Workers -> Pings] /\ InLoop(w)
        /\ t = <<>> => MayStart(w)
    BY DEF runHttpPing, Pinging, TestInv, TestTypes, WorkerInv, Tried
  <1>3. p \in Pings
    <2>1. Append(ping[w].tried, a) \in Seq(Answers) BY <1>2 DEF Pings
    <2> QED BY <2>1, <1>2, Zenon DEF Pings
  <1>4. ping' = [ping EXCEPT ![w] = p] /\ ping'[w] = p
    BY <1>1, <1>2
  <1>5. /\ t \in Seq(Answers) /\ Tried(w)' = Append(t, a) /\ ConfigOf(w)' = ConfigOf(w)
        /\ ping'[w].step = "check" /\ ping'[w].i = ping[w].i /\ ping[w].i \in Nat
    BY <1>2, <1>4 DEF Tried, Pings, ConfigOf, pvars, workerVars
  <1> HIDE DEF p, t
  <1>6. /\ Len(t) \in Nat /\ Len(Tried(w)') = Len(t) + 1 /\ DOMAIN t = 1..Len(t)
        /\ \A k \in DOMAIN (Tried(w)') : k < Len(t) + 1 => k \in DOMAIN t /\ Tried(w)'[k] = t[k]
    BY <1>5
  <1>7. /\ ping'[w].i = ping[w].i /\ ping[w].i \in Nat /\ Len(Tried(w)') = Len(t) + 1 /\ Len(t) \in Nat
        /\ ConfigOf(w)' = ConfigOf(w)
    BY <1>5, <1>6
  <1>8. InLoop(w)'
    <2>1. CASE ConfigOf(w).repeats > 0
      <3>1. ping[w].i = Len(t) + 1 /\ ping[w].i <= ConfigOf(w).repeats /\ \A k \in DOMAIN t : t[k] = "match"
        BY <2>1, <1>2 DEF InLoop, Repeating, All, t
      <3>a. /\ ping'[w].i = Len(Tried(w)') /\ ping'[w].i <= ConfigOf(w)'.repeats
            /\ Len(Tried(w)') > 0
        BY <3>1, <1>7
      <3>b. AllBefore(w, Len(Tried(w)), "match")' BY <3>1, <1>6 DEF AllBefore
      <3>2. Repeating(w)' BY <3>a, <3>b, <1>5 DEF Repeating
      <3> QED BY <2>1, <3>2, <1>5 DEF InLoop
    <2>2. CASE ~(ConfigOf(w).repeats > 0)
      <3>1. /\ ping[w].i = Len(t) /\ \A k \in DOMAIN t : t[k] = "error"
            /\ Len(t) > 0 => ping[w].i <= ConfigOf(w).retries
        BY <2>2, <1>2 DEF InLoop, Retrying, All, t
      <3>2. ping[w].i <= ConfigOf(w).retries
        <4>1. CASE Len(t) > 0 BY <4>1, <3>1
        <4>2. CASE ~(Len(t) > 0)
          <5>1. t = <<>> BY <4>2, <1>5, <1>6
          <5>2. 0 <= ConfigOf(w).retries BY <5>1, <1>2, <2>2 DEF MayStart, MayRetry
          <5> QED BY <5>2, <3>1, <4>2, <1>6
        <4> QED BY <4>1, <4>2
      <3>a. /\ ping'[w].i = Len(Tried(w)') - 1 /\ ping'[w].i <= ConfigOf(w)'.retries
            /\ Len(Tried(w)') > 0
        BY <3>1, <3>2, <1>7
      <3>b. AllBefore(w, Len(Tried(w)), "error")' BY <3>1, <1>6 DEF AllBefore
      <3>3. Retrying(w)' BY <3>a, <3>b, <1>5 DEF Retrying
      <3> QED BY <2>2, <3>3, <1>5 DEF InLoop
    <2> QED BY <2>1, <2>2
  <1> QED BY <1>2, <1>3, <1>4, <1>8, PingKeeps

\* What httpPingTest knows when it looks at an answer.
LEMMA AtCheck ==
  ASSUME NEW w \in Workers, PoolTypeOK, TestInv, Pinging(w, "check")
  PROVE  /\ Len(Tried(w)) \in Nat \ {0} /\ DOMAIN Tried(w) = 1..Len(Tried(w)) /\ Tried(w) # <<>>
         /\ Answer(w) = Tried(w)[Len(Tried(w))] /\ ping[w].i \in Nat
  <1>1. ping[w] \in Pings /\ InLoop(w) BY DEF TestInv, TestTypes, WorkerInv
  <1>2. Tried(w) \in Seq(Answers) /\ ping[w].i \in Nat BY <1>1 DEF Tried, Pings
  <1>3. Len(Tried(w)) > 0 BY <1>1 DEF Pinging, InLoop, Repeating, Retrying
  <1>4. Answer(w) = Tried(w)[Len(Tried(w))] BY DEF Answer, Tried
  <1>5. Len(Tried(w)) \in Nat \ {0} /\ DOMAIN Tried(w) = 1..Len(Tried(w)) /\ Tried(w) # <<>>
    BY <1>2, <1>3
  <1> QED BY <1>2, <1>4, <1>5

\* If every request before the last one gave an answer and the last one too, all did.
LEMMA LastAnswer ==
  ASSUME NEW w \in Workers, PoolTypeOK, TestInv, Pinging(w, "check"), NEW a,
         AllBefore(w, Len(Tried(w)), a), Answer(w) = a
  PROVE  All(w, a)
  <1>1. /\ Len(Tried(w)) \in Nat /\ DOMAIN Tried(w) = 1..Len(Tried(w))
        /\ Tried(w)[Len(Tried(w))] = a
    BY AtCheck
  <1>2. ASSUME NEW k \in DOMAIN Tried(w) PROVE Tried(w)[k] = a
    <2>1. k < Len(Tried(w)) \/ k = Len(Tried(w)) BY <1>1, <1>2
    <2> QED BY <1>1, <2>1 DEF AllBefore
  <1> QED BY <1>2 DEF All

\* What it knows then of the repeats ...
LEMMA AtRepeat ==
  ASSUME NEW w \in Workers, PoolTypeOK, TestInv, Pinging(w, "check"), ConfigOf(w).repeats > 0
  PROVE  ping[w].i = Len(Tried(w)) /\ AllBefore(w, Len(Tried(w)), "match")
  <1>1. InLoop(w) BY DEF TestInv, WorkerInv
  <1> QED BY <1>1 DEF Pinging, InLoop, Repeating

\* ... and of the retries.
LEMMA AtRetry ==
  ASSUME NEW w \in Workers, PoolTypeOK, TestInv, Pinging(w, "check"), ~(ConfigOf(w).repeats > 0)
  PROVE  /\ ping[w].i = Len(Tried(w)) - 1 /\ ping[w].i <= ConfigOf(w).retries
         /\ AllBefore(w, Len(Tried(w)), "error")
  <1>1. InLoop(w) BY DEF TestInv, WorkerInv
  <1> QED BY <1>1 DEF Pinging, InLoop, Retrying

\* The loop goes round.
LEMMA AgainKeeps ==
  ASSUME NEW w \in Workers, PoolTypeOK, TestInv, Pinging(w, "check"), Again(w),
         IF ConfigOf(w).repeats > 0
         THEN Answer(w) = "match" /\ ping[w].i < ConfigOf(w).repeats
         ELSE Answer(w) = "error" /\ ping[w].i + 1 <= ConfigOf(w).retries
  PROVE  TestInv'
  <1> DEFINE t == Tried(w)
  <1> DEFINE p == [ping[w] EXCEPT !.step = "ping", !.i = @ + 1]
  <1>2. /\ plugin = "httpPing" /\ Working(w) /\ ping[w].step = "check" /\ UNCHANGED <<pvars, plugin, config>>
        /\ ping[w] \in Pings /\ ping \in [Workers -> Pings] /\ InLoop(w)
        /\ ping' = [ping EXCEPT ![w].step = "ping", ![w].i = @ + 1]
    BY DEF Again, Pinging, TestInv, TestTypes, WorkerInv
  <1>3. p \in Pings
    <2>1. ping[w].i + 1 \in Nat BY <1>2 DEF Pings
    <2> QED BY <2>1, <1>2, Zenon DEF Pings
  <1>4. ping' = [ping EXCEPT ![w] = p] /\ ping'[w] = p BY <1>2 DEF Pings, Tried
  <1>5. /\ t \in Seq(Answers) /\ Tried(w)' = t /\ ConfigOf(w)' = ConfigOf(w)
        /\ ping'[w].step = "ping" /\ ping'[w].i = ping[w].i + 1 /\ ping[w].i \in Nat
    BY <1>2, <1>4 DEF Tried, Pings, ConfigOf, pvars, workerVars
  <1>7. ConfigOf(w).repeats \in Int /\ ConfigOf(w).retries \in Int BY ConfigType DEF TestInv
  <1> HIDE DEF p, t
  <1>8. Len(t) \in Nat /\ DOMAIN t = 1..Len(t) BY <1>5
  <1>9. /\ ping'[w].i = ping[w].i + 1 /\ ping[w].i \in Nat /\ Len(Tried(w)') = Len(t) /\ Len(t) \in Nat
        /\ ConfigOf(w)' = ConfigOf(w)
    BY <1>5, <1>8
  <1>10. InLoop(w)'
    <2>1. CASE ConfigOf(w).repeats > 0
      <3>1. ping[w].i = Len(t) /\ AllBefore(w, Len(t), "match") BY <2>1, AtRepeat DEF t
      <3>2. All(w, "match") BY <2>1, <3>1, LastAnswer DEF t
      <3>3. All(w, "match")' BY <3>2, <1>5 DEF All, t
      <3>4. ping'[w].i = Len(Tried(w)') + 1 /\ ping'[w].i <= ConfigOf(w)'.repeats
        <4>1. ping[w].i < ConfigOf(w).repeats BY <2>1
        <4> QED BY <3>1, <4>1, <1>7, <1>9
      <3>5. ping'[w].step = "ping" BY <1>5
      <3>6. Repeating(w)' BY <3>3, <3>4, <3>5 DEF Repeating
      <3> QED BY <2>1, <3>6, <1>5 DEF InLoop
    <2>2. CASE ~(ConfigOf(w).repeats > 0)
      <3>1. ping[w].i = Len(t) - 1 /\ AllBefore(w, Len(t), "error") BY <2>2, AtRetry DEF t
      <3>2. All(w, "error") BY <2>2, <3>1, LastAnswer DEF t
      <3>3. All(w, "error")' BY <3>2, <1>5 DEF All, t
      <3>4. ping'[w].i = Len(Tried(w)') /\ ping'[w].i <= ConfigOf(w)'.retries
        <4>1. ping[w].i + 1 <= ConfigOf(w).retries BY <2>2
        <4> QED BY <3>1, <4>1, <1>7, <1>9
      <3>5. ping'[w].step = "ping" BY <1>5
      <3>6. Retrying(w)' BY <3>3, <3>4, <3>5 DEF Retrying
      <3> QED BY <2>2, <3>6, <1>5 DEF InLoop
    <2> QED BY <2>1, <2>2
  <1> QED BY <1>2, <1>3, <1>4, <1>10, PingKeeps

\* The deadline changes nothing of what was tried.
LEMMA DeadlineKeeps ==
  ASSUME NEW w \in Workers, PoolTypeOK, TestInv, DeadlineExceeded(w) PROVE TestInv'
  <1> DEFINE p == [ping[w] EXCEPT !.expired = TRUE]
  <1>2. /\ Working(w) /\ UNCHANGED <<pvars, plugin, config>>
        /\ ping[w] \in Pings /\ ping \in [Workers -> Pings] /\ InLoop(w)
        /\ ping' = [ping EXCEPT ![w].expired = TRUE]
    BY DEF DeadlineExceeded, TestInv, TestTypes, WorkerInv
  <1>3. p \in Pings BY <1>2 DEF Pings
  <1>4. ping' = [ping EXCEPT ![w] = p] /\ ping'[w] = p
    BY <1>2
  <1>5. /\ Tried(w)' = Tried(w) /\ ConfigOf(w)' = ConfigOf(w)
        /\ ping'[w].step = ping[w].step /\ ping'[w].i = ping[w].i
        /\ Working(w)' = Working(w) /\ plugin' = plugin
    BY <1>2, <1>4 DEF Tried, ConfigOf, Working, pvars, workerVars
  <1> HIDE DEF p
  <1>6. InLoop(w)' BY <1>2, <1>5 DEF InLoop, Repeating, Retrying, All, AllBefore
  <1> QED BY <1>2, <1>3, <1>4, <1>6, PingKeeps

\* A result of no marks needs no reason but, if it is an error, the retries.
LEMMA ScorelessKeeps ==
  ASSUME NEW w \in Workers, NEW o, PoolTypeOK, TestInv, o.marks = 0,
         FinishJob(w, o), UNCHANGED <<plugin, config, ping>>,
         o.err /\ ~ping[w].expired /\ ConfigOf(w).repeats <= 0 /\ Tried(w) # <<>> =>
             Len(Tried(w)) = ConfigOf(w).retries + 1 /\ All(w, "error")
  PROVE  TestInv'
  <1>0. outcome'[w] = o /\ ConfigOf(w)' = ConfigOf(w) /\ Tried(w)' = Tried(w) /\ ping' = ping
    BY ReturnChanges
  <1>1. ScoreJustified(w)'
    <2>1. ~(outcome'[w].marks > 0) BY <1>0
    <2> QED BY <2>1 DEF ScoreJustified
  <1>2. ASSUME GivenUp(w)', ~ping'[w].expired
        PROVE  Len(Tried(w))' = ConfigOf(w).retries' + 1 /\ All(w, "error")'
    <2>1. o.err /\ ConfigOf(w).repeats <= 0 /\ Tried(w) # <<>> BY <1>0, <1>2 DEF GivenUp
    <2>2. Len(Tried(w)) = ConfigOf(w).retries + 1 /\ All(w, "error") BY <1>0, <1>2, <2>1
    <2> QED BY <1>0, <2>2 DEF All
  <1>3. ErrorJustified(w)' BY <1>2 DEF ErrorJustified
  <1> QED BY <1>1, <1>3, ReturnKeeps

\* The same for a return without an error.
LEMMA NoMarksKeeps ==
  ASSUME NEW w \in Workers, PoolTypeOK, TestInv, Return(w, 0) PROVE TestInv'
  <1> DEFINE o == [marks |-> 0, err |-> FALSE]
  <1>1. FinishJob(w, o) /\ UNCHANGED <<plugin, config, ping>> BY DEF Return
  <1>2. o.marks = 0 /\ ~o.err OBVIOUS
  <1> HIDE DEF o
  <1> QED BY <1>1, <1>2, ScorelessKeeps

\* The return of a mark needs the reasons of the mark.
LEMMA MarkKeeps ==
  ASSUME NEW w \in Workers, PoolTypeOK, TestInv, Return(w, 1),
         IF ConfigOf(w).repeats > 0
         THEN Len(Tried(w)) = ConfigOf(w).repeats /\ ~ping[w].expired /\ All(w, "match")
         ELSE Tried(w) # <<>> /\ Answer(w) = "match"
  PROVE  TestInv'
  <1> DEFINE o == [marks |-> 1, err |-> FALSE]
  <1>1. FinishJob(w, o) /\ UNCHANGED <<plugin, config, ping>> BY DEF Return
  <1>2. o.marks = 1 /\ ~o.err OBVIOUS
  <1> HIDE DEF o
  <1>3. ScoreJustified(w)' BY <1>1, ReturnChanges DEF ScoreJustified, All
  <1>4. ErrorJustified(w)' BY <1>1, <1>2, ReturnChanges DEF ErrorJustified, GivenUp
  <1> QED BY <1>1, <1>3, <1>4, ReturnKeeps

\* The return of an error needs the reasons of the error.
LEMMA ErrorKeeps ==
  ASSUME NEW w \in Workers, PoolTypeOK, TestInv, ReturnError(w),
         ~ping[w].expired /\ ConfigOf(w).repeats <= 0 /\ Tried(w) # <<>> =>
             Len(Tried(w)) = ConfigOf(w).retries + 1 /\ All(w, "error")
  PROVE  TestInv'
  <1> DEFINE o == [marks |-> 0, err |-> TRUE]
  <1>1. FinishJob(w, o) /\ UNCHANGED <<plugin, config, ping>> BY DEF ReturnError
  <1>2. o.marks = 0 OBVIOUS
  <1> HIDE DEF o
  <1> QED BY <1>1, <1>2, ScorelessKeeps

\* The repeats keep the invariant: the mark is given for the last of them.
LEMMA CheckRepeatKeeps ==
  ASSUME NEW w \in Workers, PoolTypeOK, TestInv, CheckRepeat(w) PROVE TestInv'
  <1>1. Pinging(w, "check") /\ ConfigOf(w).repeats > 0 BY DEF CheckRepeat
  <1>c. ConfigOf(w).repeats \in Int BY ConfigType DEF TestInv
  <1>2. CASE ReturnError(w)
    <2>1. ~(ConfigOf(w).repeats <= 0) BY <1>1, <1>c
    <2> QED BY <1>2, <2>1, ErrorKeeps
  <1>3. CASE Return(w, 0) BY <1>3, NoMarksKeeps
  <1>4. CASE Answer(w) = "match" /\ ping[w].i < ConfigOf(w).repeats /\ Again(w)
    BY <1>1, <1>4, AgainKeeps
  <1>5. CASE ~ping[w].expired /\ Answer(w) = "match" /\ ping[w].i = ConfigOf(w).repeats /\ Return(w, 1)
    <2>1. ping[w].i = Len(Tried(w)) /\ AllBefore(w, Len(Tried(w)), "match") BY <1>1, AtRepeat
    <2>2. All(w, "match") /\ Len(Tried(w)) = ConfigOf(w).repeats BY <1>1, <1>5, <2>1, LastAnswer
    <2> QED BY <1>1, <1>5, <2>2, MarkKeeps
  <1> QED BY <1>2, <1>3, <1>4, <1>5 DEF CheckRepeat

\* The retries keep it: an error is returned when there are none left.
LEMMA CheckRetryKeeps ==
  ASSUME NEW w \in Workers, PoolTypeOK, TestInv, CheckRetry(w) PROVE TestInv'
  <1> DEFINE again == MayRetry(ConfigOf(w), ping[w].i + 1, ping[w].expired)
  <1>1. Pinging(w, "check") /\ ConfigOf(w).repeats <= 0 BY DEF CheckRetry
  <1>c. ConfigOf(w).repeats \in Int /\ ConfigOf(w).retries \in Int BY ConfigType DEF TestInv
  <1>2. ~(ConfigOf(w).repeats > 0) BY <1>1, <1>c
  <1>3. CASE Answer(w) # "error" /\ Return(w, IF Answer(w) = "match" THEN 1 ELSE 0)
    <2>1. CASE Answer(w) = "match"
      <3>1. Tried(w) # <<>> BY <1>1, AtCheck
      <3> QED BY <1>2, <1>3, <2>1, <3>1, MarkKeeps
    <2>2. CASE Answer(w) # "match" BY <1>3, <2>2, NoMarksKeeps
    <2> QED BY <2>1, <2>2
  <1>4. CASE Answer(w) = "error" /\ again /\ Again(w)
    <2>1. ping[w].i + 1 <= ConfigOf(w).retries BY <1>4 DEF MayRetry
    <2> QED BY <1>1, <1>2, <1>4, <2>1, AgainKeeps
  <1>5. CASE Answer(w) = "error" /\ ~again /\ ReturnError(w)
    <2>0. /\ ping[w].i = Len(Tried(w)) - 1 /\ ping[w].i <= ConfigOf(w).retries
          /\ AllBefore(w, Len(Tried(w)), "error")
      BY <1>1, <1>2, AtRetry
    <2>1. All(w, "error") BY <1>1, <1>5, <2>0, LastAnswer
    <2>2. ASSUME ~ping[w].expired PROVE Len(Tried(w)) = ConfigOf(w).retries + 1
      <3>1. ~(ping[w].i + 1 <= ConfigOf(w).retries) BY <1>5, <2>2 DEF MayRetry
      <3>2. ping[w].i \in Nat /\ Len(Tried(w)) \in Nat BY <1>1, AtCheck
      <3> QED BY <1>c, <2>0, <3>1, <3>2
    <2> QED BY <1>5, <2>1, <2>2, ErrorKeeps
  <1> QED BY <1>3, <1>4, <1>5 DEF CheckRetry

\* A new job starts with nothing tried.
LEMMA BeginJobKeeps ==
  ASSUME NEW w \in Workers, PoolInv, TestInv, BeginJob(w) PROVE TestInv'
  <1> DEFINE c == config[taken + 1]
  <1>1. /\ wpc \in [Workers -> {"select", "work", "send", "returned"}] /\ job \in [Workers -> Jobs]
        /\ job' = [job EXCEPT ![w] = taken + 1] /\ wpc' = [wpc EXCEPT ![w] = "work"] /\ outcome' = outcome
        /\ ping \in [Workers -> Pings] /\ ping' = [ping EXCEPT ![w] = StartOf(c)]
        /\ plugin' = plugin /\ config' = config
    BY DEF PoolInv, PoolTypeOK, TestInv, TestTypes, BeginJob, TakeJob
  <1>2. taken + 1 \in Jobs
    <2>1. taken \in 0..NJobs /\ added \in 0..NJobs /\ taken < added
      BY DEF PoolInv, PoolTypeOK, BeginJob, TakeJob
    <2> QED BY <2>1, PoolAssumption DEF Jobs
  <1>3. c.repeats \in Int /\ c.retries \in Int
    <2>1. c \in Configs \cup {NoConfig} BY <1>2 DEF TestInv, TestTypes
    <2>2. ASSUME NEW d \in Configs PROVE d.repeats \in Int /\ d.retries \in Int BY ConfigsAssumption
    <2>3. NoConfig.repeats \in Int /\ NoConfig.retries \in Int BY DEF NoConfig
    <2> QED BY <2>1, <2>2, <2>3
  <1>4. ConfigOf(w)' = c /\ ping'[w] = StartOf(c) /\ Tried(w)' = <<>> BY <1>1 DEF ConfigOf, Tried, StartOf
  <1> HIDE DEF c
  <1>5. StartOf(c) \in Pings
    <2>1. <<>> \in Seq(Answers) OBVIOUS
    <2>2. (IF c.repeats > 0 THEN 1 ELSE 0) \in Nat OBVIOUS
    <2> QED BY <2>1, <2>2, Zenon DEF StartOf, Pings
  <1>6. TestTypes' BY <1>1, <1>5 DEF TestInv, TestTypes
  <1>7. /\ ping'[w].step = "ping" /\ ping'[w].i = (IF c.repeats > 0 THEN 1 ELSE 0)
        /\ Len(Tried(w)') = 0 /\ DOMAIN (Tried(w)') = {}
    <2>1. Len(<<>>) = 0 /\ DOMAIN <<>> = {} OBVIOUS
    <2>2. ping'[w].step = "ping" /\ ping'[w].i = (IF c.repeats > 0 THEN 1 ELSE 0)
      BY <1>4 DEF StartOf
    <2> QED BY <2>1, <2>2, <1>4
  <1>8. InLoop(w)'
    <2>1. CASE c.repeats > 0
      <3>a. ping'[w].i = Len(Tried(w)') + 1 /\ ping'[w].i <= ConfigOf(w)'.repeats
        BY <1>3, <1>4, <1>7, <2>1
      <3>b. All(w, "match")' BY <1>7 DEF All
      <3>1. Repeating(w)' BY <1>7, <3>a, <3>b DEF Repeating
      <3> QED BY <3>1, <1>4, <2>1 DEF InLoop
    <2>2. CASE ~(c.repeats > 0)
      <3>a. ping'[w].i = Len(Tried(w)') /\ ~(Len(Tried(w)') > 0) BY <1>7, <2>2
      <3>b. All(w, "error")' BY <1>7 DEF All
      <3>1. Retrying(w)' BY <1>7, <3>a, <3>b DEF Retrying
      <3> QED BY <3>1, <1>4, <2>2 DEF InLoop
    <2> QED BY <2>1, <2>2
  <1>9. WorkerInv(w)' BY <1>1, <1>8 DEF WorkerInv, ScoreJustified, ErrorJustified, GivenUp, Finished
  <1>10. ASSUME NEW v \in Workers, v # w PROVE WorkerInv(v)'
    <2>1. /\ ping'[v] = ping[v] /\ wpc'[v] = wpc[v] /\ job'[v] = job[v] /\ outcome'[v] = outcome[v]
      BY <1>1, <1>10
    <2> QED BY <2>1, <1>1, SameWorker DEF TestInv
  <1> QED BY <1>6, <1>9, <1>10 DEF TestInv

\* A worker that hands in a result or returns forgets the job.
LEMMA LeaveJobKeeps ==
  ASSUME NEW w \in Workers, PoolInv, TestInv,
         EndJob(w) \/ (WorkerReturns(w) /\ UNCHANGED <<plugin, config, ping>>)
  PROVE  TestInv'
  <1>1. /\ wpc \in [Workers -> {"select", "work", "send", "returned"}]
        /\ wpc'[w] \in {"select", "returned"} /\ \A v \in Workers : v # w => wpc'[v] = wpc[v]
        /\ job' = job /\ outcome' = outcome /\ plugin' = plugin /\ config' = config
    BY DEF PoolInv, PoolTypeOK, EndJob, SendResult, WorkerReturns
  <1>2. ping' \in [Workers -> Pings] /\ \A v \in Workers : v # w => ping'[v] = ping[v]
    <2>1. CASE UNCHANGED ping BY <2>1 DEF TestInv, TestTypes
    <2>2. CASE ping' = [ping EXCEPT ![w] = StartOf(NoConfig)]
      <3>1. <<>> \in Seq(Answers) OBVIOUS
      <3>2. StartOf(NoConfig) \in Pings BY <3>1 DEF StartOf, NoConfig, Pings
      <3> QED BY <2>2, <3>2 DEF TestInv, TestTypes
    <2> QED BY <2>1, <2>2 DEF EndJob
  <1>3. TestTypes' BY <1>1, <1>2 DEF TestInv, TestTypes
  <1>4. WorkerInv(w)' BY <1>1, IdleWorker
  <1>5. ASSUME NEW v \in Workers, v # w PROVE WorkerInv(v)' BY <1>1, <1>2, <1>5, SameWorker DEF TestInv
  <1> QED BY <1>3, <1>4, <1>5 DEF TestInv

\* A step that changes no worker keeps the invariant, and so does a step of another test.
LEMMA QuietKeeps ==
  ASSUME TestInv, UNCHANGED <<plugin, config, ping>>,
         plugin # "httpPing" \/ UNCHANGED <<wpc, job, outcome>>
  PROVE  TestInv'
  <1>1. TestTypes' BY DEF TestInv, TestTypes
  <1>2. CASE plugin # "httpPing" BY <1>1, <1>2, IdleWorker DEF TestInv
  <1>3. CASE UNCHANGED <<wpc, job, outcome>>
    <2>1. ASSUME NEW w \in Workers PROVE WorkerInv(w)' BY <1>3, SameWorker DEF TestInv
    <2> QED BY <1>1, <2>1 DEF TestInv
  <1> QED BY <1>2, <1>3

\* Every step of the tests keeps the invariant.
LEMMA TestInvStep == PoolInv /\ TestInv /\ [PooledNext]_tvars => TestInv'
  <1> SUFFICES ASSUME PoolInv, TestInv, [PooledNext]_tvars PROVE TestInv' OBVIOUS
  <1>1. PoolTypeOK BY DEF PoolInv
  <1>2. CASE PerformTest
    BY <1>2, QuietKeeps DEF PerformTest, CallerStep, AddJob, Collect, Stop, workerVars
  <1>3. CASE UNCHANGED tvars BY <1>3, QuietKeeps DEF tvars, pvars, workerVars
  <1>4. ASSUME NEW w \in Workers, PoolStep(w) PROVE TestInv'
    <2>1. CASE BeginJob(w) BY <2>1, BeginJobKeeps
    <2>2. CASE EndJob(w) \/ (WorkerReturns(w) /\ UNCHANGED <<plugin, config, ping>>) BY <2>2, LeaveJobKeeps
    <2>3. CASE dnsTest(w) \/ netDialTest(w)
      BY <2>3, QuietKeeps DEF dnsTest, netDialTest, Return, ReturnError
    <2>4. CASE BadRequest(w)
      <3>1. ReturnError(w) /\ Tried(w) = <<>> BY <2>4 DEF BadRequest, Tried
      <3> QED BY <3>1, <1>1, ErrorKeeps
    <2>5. CASE NoRequest(w) BY <2>5, <1>1, NoMarksKeeps DEF NoRequest
    <2>6. CASE runHttpPing(w) BY <2>6, <1>1, RunHttpPingKeeps
    <2>7. CASE CheckRepeat(w) BY <2>7, <1>1, CheckRepeatKeeps
    <2>8. CASE CheckRetry(w) BY <2>8, <1>1, CheckRetryKeeps
    <2> QED BY <1>4, <2>1, <2>2, <2>3, <2>4, <2>5, <2>6, <2>7, <2>8 DEF PoolStep, httpPingTest
  <1>5. ASSUME NEW w \in Workers, DeadlineExceeded(w) PROVE TestInv' BY <1>5, <1>1, DeadlineKeeps
  <1> QED BY <1>2, <1>3, <1>4, <1>5 DEF PooledNext

\* The tests start in the invariant.
LEMMA TestInvInit == PooledInit => TestInv
  <1> SUFFICES ASSUME PooledInit PROVE TestInv OBVIOUS
  <1>1. <<>> \in Seq(Answers) OBVIOUS
  <1>2. StartOf(NoConfig) \in Pings BY <1>1 DEF StartOf, NoConfig, Pings
  <1>3. ping \in [Workers -> Pings] BY <1>2 DEF PooledInit
  <1>4. config \in [Jobs -> Configs \cup {NoConfig}] BY DEF PooledInit
  <1>5. \A w \in Workers : wpc[w] = "select" BY DEF PooledInit, PoolInit
  <1>6. \A w \in Workers : WorkerInv(w)
    BY <1>5 DEF WorkerInv, InLoop, Working, ScoreJustified, ErrorJustified, GivenUp, Finished
  <1> QED BY <1>3, <1>4, <1>6 DEF TestInv, TestTypes, PooledInit
-----------------------------------------------------------------------------
\* What a work function returns is an outcome the pool expects.
LEMMA PooledStepIsPoolStep == TestTypes /\ [PooledNext]_tvars => [PoolNext]_pvars
  <1> SUFFICES ASSUME TestTypes, [PooledNext]_tvars PROVE [PoolNext]_pvars OBVIOUS
  <1>1. CASE PerformTest BY <1>1 DEF PerformTest, PoolNext
  <1>2. CASE UNCHANGED tvars BY <1>2 DEF tvars
  <1>3. ASSUME NEW w \in Workers, PoolStep(w) \/ DeadlineExceeded(w) PROVE [PoolNext]_pvars
    <2>1. ASSUME NEW m \in 0..JobMarks, Return(w, m) PROVE PoolNext
      <3>1. [marks |-> m, err |-> FALSE] \in Outcomes BY DEF Outcomes
      <3> QED BY <2>1, <3>1 DEF Return, PoolNext, WorkerStep
    <2>2. ASSUME ReturnError(w) PROVE PoolNext
      <3>1. [marks |-> 0, err |-> TRUE] \in Outcomes BY PoolAssumption DEF Outcomes
      <3> QED BY <2>2, <3>1 DEF ReturnError, PoolNext, WorkerStep
    <2>3. plugin # "dns" => 1 \in 0..JobMarks
      BY MarksAssumption, PoolAssumption DEF TestTypes
    <2>4. 0 \in 0..JobMarks BY PoolAssumption
    <2>5. CASE BeginJob(w) \/ EndJob(w) \/ WorkerReturns(w)
      BY <2>5 DEF BeginJob, EndJob, PoolNext, WorkerStep
    <2>6. CASE dnsTest(w) BY <2>6, <2>1 DEF dnsTest
    <2>7. CASE netDialTest(w) BY <2>7, <2>1, <2>2, <2>3 DEF netDialTest
    <2>8. CASE BadRequest(w) \/ NoRequest(w) BY <2>8, <2>1, <2>2, <2>4 DEF BadRequest, NoRequest
    <2>9. CASE runHttpPing(w) \/ DeadlineExceeded(w) BY <2>9 DEF runHttpPing, DeadlineExceeded
    <2>10. CASE CheckRepeat(w)
      BY <2>10, <2>1, <2>2, <2>3, <2>4 DEF CheckRepeat, Pinging, Again
    <2>11. CASE CheckRetry(w)
      BY <2>11, <2>1, <2>2, <2>3, <2>4 DEF CheckRetry, Pinging, Again
    <2> QED BY <1>3, <2>5, <2>6, <2>7, <2>8, <2>9, <2>10, <2>11 DEF PoolStep, httpPingTest
  <1> QED BY <1>1, <1>2, <1>3 DEF PooledNext

\* The inductive invariants of the pool and of the tests hold together.
LEMMA PooledInvariant == PooledSpec => [](PoolInv /\ TestInv)
  <1>1. PooledInit => PoolInv BY PoolInvInit DEF PooledInit
  <1>2. PoolInv /\ TestInv /\ [PooledNext]_tvars => PoolInv'
    BY PooledStepIsPoolStep, PoolInvStep DEF TestInv
  <1> QED BY <1>1, <1>2, TestInvInit, TestInvStep, PTL DEF PooledSpec

\* The three tests use the pool as the pool expects, so that everything proved of the
\* pool holds of them: no worker waits to hand in a result, and every target is scored
\* exactly once.
THEOREM TestsUsePool == PooledSpec => PoolSpec
  <1>1. PooledInit => PoolInit BY DEF PooledInit
  <1>2. TestInv => TestTypes BY DEF TestInv
  <1> QED BY <1>1, <1>2, PooledInvariant, PooledStepIsPoolStep, PTL DEF PooledSpec, PoolSpec

\* A target of httpPing scores only if its last request matched and, with
\* repeatsWithoutFail, only if every repeat did, in time: for every configuration and
\* every number of targets and workers.
THEOREM ScoreAlwaysMeansMatch == PooledSpec => []ScoreMeansMatch
  <1>1. TestInv => ScoreMeansMatch BY DEF TestInv, WorkerInv, ScoreMeansMatch
  <1> QED BY <1>1, PooledInvariant, PTL

\* A target of httpPing is given up in time only when exactly the configured number of
\* retries has failed.
THEOREM RetriesAlwaysUsedUp == PooledSpec => []RetriesUsedUp
  <1>1. TestInv => RetriesUsedUp BY DEF TestInv, WorkerInv, RetriesUsedUp
  <1> QED BY <1>1, PooledInvariant, PTL

\* In each of the three tests no worker ever waits to hand in a result, every target is
\* evaluated exactly once and the marks are reported when all of them are.
THEOREM TestsScore == PooledSpec => []RoomForResults /\ ScoreImplemented
  <1>1. PooledSpec => ScoreImplemented BY TestsUsePool, ScoreRefinement, PTL
  <1> QED BY <1>1, TestsUsePool, WorkersNeverWait, PTL
=============================================================================
