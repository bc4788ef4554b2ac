----------------------------- MODULE WorkerPool -----------------------------
(***************************************************************************)
(* The pool of goroutines that the httpPing, dns and netDial tests share   *)
(* their targets out to, and the PerformTest that fills it, collects the   *)
(* results and stops it.  The jobs are numbered in the order in which they *)
(* are added; both channels are FIFO, so the job channel is known by how   *)
(* many jobs went in and came out.                                         *)
(***************************************************************************)
EXTENDS Integers, Sequences, FiniteSets

CONSTANTS
    NJobs,     \* the number of targets of the test
    JobMarks,  \* the marks one of them is worth
    Workers    \* the goroutines that Start creates

ASSUME PoolAssumption ==
    /\ NJobs \in Nat \ {0} /\ JobMarks \in Nat
    /\ IsFiniteSet(Workers) /\ Workers # {}

VARIABLES
    added, taken,  \* jobs sent to jobChan and received from it
    closed,        \* is jobChan closed?
    wpc,           \* where each worker is
    job,           \* the job it has
    outcome,       \* what its work function returned
    resultChan,    \* ResultChan
    ppc,           \* where PerformTest is
    i,             \* the results it has collected
    marks,         \* testResult.Marks
    collected      \* the jobs those results are of (only the properties use it)

chanVars == <<added, taken, closed, resultChan>>
workerVars == <<wpc, job, outcome>>
callerVars == <<ppc, i, marks, collected>>
pvars == <<chanVars, workerVars, callerVars>>

Jobs == 1..NJobs
Outcomes == [marks : 0..JobMarks, err : BOOLEAN]
JobResults == [job : Jobs, marks : 0..JobMarks, err : BOOLEAN]

\* The types of the variables.
PoolTypeOK ==
    /\ added \in 0..NJobs /\ taken \in 0..NJobs /\ closed \in BOOLEAN
    /\ wpc \in [Workers -> {"select", "work", "send", "returned"}]
    /\ job \in [Workers -> Jobs] /\ outcome \in [Workers -> Outcomes]
    /\ resultChan \in Seq(JobResults)
    /\ ppc \in {"add", "collect", "stop", "returned"}
    /\ i \in 0..NJobs /\ marks \in Nat /\ collected \in SUBSET Jobs

PoolInit ==
    /\ added = 0 /\ taken = 0 /\ closed = FALSE /\ resultChan = <<>>
    /\ wpc = [w \in Workers |-> "select"]
    /\ job = [w \in Workers |-> 1]
    /\ outcome = [w \in Workers |-> [marks |-> 0, err |-> FALSE]]
    /\ ppc = "add" /\ i = 0 /\ marks = 0 /\ collected = {}

\* Faulty variant: unbuffered but for one element.
OneBuffer == 1

\* The capacity of both channels: every caller asks for the number of its targets.
JobBuffer == NJobs
-----------------------------------------------------------------------------
(* PerformTest *)

\* Blocks while jobChan is full.
AddJob ==
    /\ ppc = "add" /\ added - taken < JobBuffer
    /\ added' = added + 1
    /\ ppc' = IF added + 1 = NJobs THEN "collect" ELSE "add"
    /\ UNCHANGED <<taken, closed, resultChan, workerVars, i, marks, collected>>

\* Faulty variant: a failed job stops the collection early.
CollectUntilError ==
    /\ ppc = "collect" /\ resultChan # <<>>
    /\ resultChan' = Tail(resultChan)
    /\ collected' = collected \cup {Head(resultChan).job}
    /\ marks' = marks + (IF Head(resultChan).err THEN 0 ELSE Head(resultChan).marks)
    /\ i' = i + 1
    /\ ppc' = IF i + 1 = NJobs \/ Head(resultChan).err THEN "stop" ELSE "collect"
    /\ UNCHANGED <<added, taken, closed, workerVars>>

\* A job that ended in an error scores nothing.
Collect ==
    /\ ppc = "collect" /\ resultChan # <<>>
    /\ resultChan' = Tail(resultChan)
    /\ collected' = collected \cup {Head(resultChan).job}
    /\ marks' = marks + (IF Head(resultChan).err THEN 0 ELSE Head(resultChan).marks)
    /\ i' = i + 1
    /\ ppc' = IF i + 1 = NJobs THEN "stop" ELSE "collect"
    /\ UNCHANGED <<added, taken, closed, workerVars>>

\* The deferred Stop, which closes jobChan, and PerformTest's answer.
Stop ==
    /\ ppc = "stop" /\ ppc' = "returned"
    /\ closed' = TRUE
    /\ UNCHANGED <<added, taken, resultChan, workerVars, i, marks, collected>>
-----------------------------------------------------------------------------
(* A worker *)

TakeJob(w) ==
    /\ wpc[w] = "select" /\ taken < added
    /\ taken' = taken + 1
    /\ job' = [job EXCEPT ![w] = taken + 1]
    /\ wpc' = [wpc EXCEPT ![w] = "work"]
    /\ UNCHANGED <<added, closed, resultChan, outcome, callerVars>>

\* The work function returns.
FinishJob(w, o) ==
    /\ wpc[w] = "work"
    /\ outcome' = [outcome EXCEPT ![w] = o]
    /\ wpc' = [wpc EXCEPT ![w] = "send"]
    /\ UNCHANGED <<chanVars, job, callerVars>>

\* Blocks while ResultChan is full.
SendResult(w) ==
    /\ wpc[w] = "send" /\ Len(resultChan) < JobBuffer
    /\ resultChan' = Append(resultChan,
                            [job |-> job[w], marks |-> outcome[w].marks, err |-> outcome[w].err])
    /\ wpc' = [wpc EXCEPT ![w] = "select"]
    /\ UNCHANGED <<added, taken, closed, job, outcome, callerVars>>

\* Faulty variant: a worker that finds no job waiting ends, as with a default in its select.
WorkerReturnsIfIdle(w) ==
    /\ wpc[w] = "select" /\ taken = added
    /\ wpc' = [wpc EXCEPT ![w] = "returned"]
    /\ UNCHANGED <<chanVars, job, outcome, callerVars>>

\* A receive from the closed and empty jobChan gives nil.
WorkerReturns(w) ==
    /\ wpc[w] = "select" /\ closed /\ taken = added
    /\ wpc' = [wpc EXCEPT ![w] = "returned"]
    /\ UNCHANGED <<chanVars, job, outcome, callerVars>>
-----------------------------------------------------------------------------
CallerStep == AddJob \/ Collect \/ Stop
WorkerStep(w) ==
    TakeJob(w) \/ SendResult(w) \/ WorkerReturns(w) \/ \E o \in Outcomes : FinishJob(w, o)

PoolNext == CallerStep \/ \E w \in Workers : WorkerStep(w)

\* Whatever the work function is and does.
PoolSpec == PoolInit /\ [][PoolNext]_pvars
-----------------------------------------------------------------------------
Busy == {w \in Workers : wpc[w] \in {"work", "send"}}

\* A worker that has a result never waits to hand it in: ResultChan has room for it
\* though PerformTest collects nothing before every job is added (workerPool.go,
\* results <- result).
RoomForResults == (\E w \in Workers : wpc[w] = "send") => Len(resultChan) < JobBuffer

\* What PerformTest reports lies within the MaxMarks it reports with it.
MarksWithinMax == marks <= i * JobMarks

Score == INSTANCE TestScore WITH
    Targets <- Jobs, TargetMarks <- JobMarks,
    pending <- Jobs \ collected, total <- marks, reported <- ppc = "returned"

\* Whatever the interleaving of the workers, every target is scored exactly once, with
\* at most the marks it is worth, and the total is reported only when all of them are: the
\* pool and PerformTest implement TestScore.
ScoreImplemented == Score!ScoreSpec
=============================================================================
