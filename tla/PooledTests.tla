----------------------------- MODULE PooledTests ----------------------------
(***************************************************************************)
(* The three tests that run on the worker pool.  A dns job is a number of  *)
(* lookups, a netDial job one connection; an httpPing job is a loop of     *)
(* requests under one deadline, which retries failed requests or repeats   *)
(* good ones.  Which test this is, and its configuration, are fixed when   *)
(* the plugin has been initialised.                                        *)
(***************************************************************************)
EXTENDS WorkerPool

CONSTANTS
    Plugins,  \* which of "httpPing", "dns" and "netDial" to consider
    Configs   \* httpPing configurations to consider, accepted by Initialise or not

ASSUME ConfigsAssumption == Configs \subseteq [retries: Int, timeoutRetries: Int, repeats: Int]

\* A target of httpPing or netDial is worth a mark.
ASSUME MarksAssumption == Plugins \subseteq {"dns"} \/ JobMarks >= 1

VARIABLES
    plugin,  \* the test
    config,  \* the configuration of each job
    ping     \* httpPingTest in each worker: its next step, its loop counter, whether its
             \* deadline has passed and what its requests gave

tvars == <<pvars, plugin, config, ping>>

Answers == {"match", "nomatch", "error"}

\* Initialise refuses a configuration that asks both for retries and for repeats.
Initialise(c) == ~((c.retries > 0 \/ c.timeoutRetries > 0) /\ c.repeats > 0)

\* The tests that have no such configuration.
NoConfig == [retries |-> 0, timeoutRetries |-> 0, repeats |-> 0]

StartOf(c) == [step |-> "ping", i |-> IF c.repeats > 0 THEN 1 ELSE 0, expired |-> FALSE, tried |-> <<>>]

Pings == [step: {"ping", "check"}, i: Nat, expired: BOOLEAN, tried: Seq(Answers)]

\* The types of the variables.
PooledTypeOK ==
    /\ PoolTypeOK
    /\ plugin \in Plugins /\ config \in [Jobs -> Configs \cup {NoConfig}]
    /\ ping \in [Workers -> Pings]

PooledInit ==
    /\ PoolInit
    /\ plugin \in Plugins
    /\ config \in [Jobs -> IF plugin = "httpPing" THEN {c \in Configs : Initialise(c)} ELSE {NoConfig}]
    /\ ping = [w \in Workers |-> StartOf(NoConfig)]

ConfigOf(w) == config[job[w]]
Working(w) == wpc[w] = "work"

\* The work function returns m marks, or an error.
Return(w, m) == FinishJob(w, [marks |-> m, err |-> FALSE]) /\ UNCHANGED <<plugin, config, ping>>
ReturnError(w) == FinishJob(w, [marks |-> 0, err |-> TRUE]) /\ UNCHANGED <<plugin, config, ping>>
-----------------------------------------------------------------------------
(* dnsTest and netDialTest *)

\* One mark for each lookup that resolved; a lookup that did not is no error.
dnsTest(w) == plugin = "dns" /\ Working(w) /\ \E m \in 0..JobMarks : Return(w, m)

netDialTest(w) == plugin = "netDial" /\ Working(w) /\ (Return(w, 1) \/ ReturnError(w))
-----------------------------------------------------------------------------
(* httpPingTest *)

Pinging(w, step) == plugin = "httpPing" /\ Working(w) /\ ping[w].step = step

\* The duration or the address of the configuration does not parse.
BadRequest(w) == Pinging(w, "ping") /\ ping[w].tried = <<>> /\ ReturnError(w)

\* The deadline of the context that all requests of the job share passes.
DeadlineExceeded(w) ==
    /\ plugin = "httpPing" /\ Working(w) /\ ~ping[w].expired
    /\ ping' = [ping EXCEPT ![w].expired = TRUE]
    /\ UNCHANGED <<pvars, plugin, config>>

\* Faulty variant: the last retry is left out.
MayRetryLess(c, n, expired) == n < c.retries /\ ~(n > c.timeoutRetries /\ expired)

\* May the loop go round for the n-th retry?
MayRetry(c, n, expired) == n <= c.retries /\ ~(n > c.timeoutRetries /\ expired)

\* Is the first request sent?  Not so if the number of retries is negative.
MayStart(w) == ConfigOf(w).repeats > 0 \/ MayRetry(ConfigOf(w), 0, ping[w].expired)

NoRequest(w) == Pinging(w, "ping") /\ ping[w].tried = <<>> /\ ~MayStart(w) /\ Return(w, 0)

\* Once the deadline has passed no request succeeds.
runHttpPing(w) ==
    /\ Pinging(w, "ping")
    /\ ping[w].tried = <<>> => MayStart(w)
    /\ \E a \in (IF ping[w].expired THEN {"error"} ELSE Answers) :
          ping' = [ping EXCEPT ![w].step = "check", ![w].tried = Append(@, a)]
    /\ UNCHANGED <<pvars, plugin, config>>

Answer(w) == ping[w].tried[Len(ping[w].tried)]

\* Round again.
Again(w) ==
    /\ ping' = [ping EXCEPT ![w].step = "ping", ![w].i = @ + 1]
    /\ UNCHANGED <<pvars, plugin, config>>

\* Faulty variant: the deadline is not looked at after the request.
CheckRepeatLate(w) ==
    /\ Pinging(w, "check") /\ ConfigOf(w).repeats > 0
    /\ \/ Answer(w) = "error" /\ ReturnError(w)
       \/ Answer(w) # "error" /\ ping[w].i < ConfigOf(w).repeats /\ Again(w)
       \/ Answer(w) # "error" /\ ping[w].i = ConfigOf(w).repeats
            /\ Return(w, IF Answer(w) = "match" THEN 1 ELSE 0)

\* repeatsWithoutFail: one request that fails, is late or does not match ends the job.
CheckRepeat(w) ==
    /\ Pinging(w, "check") /\ ConfigOf(w).repeats > 0
    /\ LET late == ping[w].expired \/ Answer(w) = "error" IN
          \/ late /\ ReturnError(w)
          \/ ~late /\ Answer(w) = "nomatch" /\ Return(w, 0)
          \/ ~late /\ Answer(w) = "match" /\ ping[w].i < ConfigOf(w).repeats /\ Again(w)
          \/ ~late /\ Answer(w) = "match" /\ ping[w].i = ConfigOf(w).repeats /\ Return(w, 1)

\* retries: only a failed request is retried, one with an unexpected code is not.
CheckRetry(w) ==
    /\ Pinging(w, "check") /\ ConfigOf(w).repeats <= 0
    /\ LET again == MayRetry(ConfigOf(w), ping[w].i + 1, ping[w].expired) IN
          \/ Answer(w) # "error" /\ Return(w, IF Answer(w) = "match" THEN 1 ELSE 0)
          \/ Answer(w) = "error" /\ again /\ Again(w)
          \/ Answer(w) = "error" /\ ~again /\ ReturnError(w)

httpPingTest(w) == BadRequest(w) \/ NoRequest(w) \/ runHttpPing(w) \/ CheckRepeat(w) \/ CheckRetry(w)
-----------------------------------------------------------------------------
BeginJob(w) ==
    /\ TakeJob(w)
    /\ ping' = [ping EXCEPT ![w] = StartOf(config[taken + 1])]
    /\ UNCHANGED <<plugin, config>>

\* What httpPingTest knew of the job goes with it.
EndJob(w) ==
    /\ SendResult(w)
    /\ ping' = [ping EXCEPT ![w] = StartOf(NoConfig)]
    /\ UNCHANGED <<plugin, config>>

PoolStep(w) ==
    \/ BeginJob(w) \/ EndJob(w)
    \/ WorkerReturns(w) /\ UNCHANGED <<plugin, config, ping>>
    \/ dnsTest(w) \/ netDialTest(w) \/ httpPingTest(w)

\* The caller of the pool.  An error of AddPrometheusMetricsToResults is returned with the
\* same result.
PerformTest == CallerStep /\ UNCHANGED <<plugin, config, ping>>

PooledNext == PerformTest \/ \E w \in Workers : PoolStep(w) \/ DeadlineExceeded(w)

\* Goroutines are scheduled; every lookup, dial and request ends, the requests by their
\* deadline at the latest.
PooledSpec ==
    /\ PooledInit /\ [][PooledNext]_tvars
    /\ WF_tvars(PerformTest) /\ \A w \in Workers : WF_tvars(PoolStep(w))
-----------------------------------------------------------------------------
Finished(w) == plugin = "httpPing" /\ wpc[w] = "send"
Tried(w) == ping[w].tried

All(w, answer) == \A k \in DOMAIN Tried(w) : Tried(w)[k] = answer

ScoreJustified(w) ==
    Finished(w) /\ outcome[w].marks > 0 =>
        IF ConfigOf(w).repeats > 0
        THEN Len(Tried(w)) = ConfigOf(w).repeats /\ ~ping[w].expired /\ All(w, "match")
        ELSE Tried(w) # <<>> /\ Answer(w) = "match"

GivenUp(w) == Finished(w) /\ outcome[w].err /\ ConfigOf(w).repeats <= 0 /\ Tried(w) # <<>>

ErrorJustified(w) ==
    GivenUp(w) /\ ~ping[w].expired => Len(Tried(w)) = ConfigOf(w).retries + 1 /\ All(w, "error")

\* A target of httpPing scores only if its last request matched, and with
\* repeatsWithoutFail only if each of the repeats did, in time: "successful only if all
\* repeated tests pass" (httpPing/README.md).
ScoreMeansMatch == \A w \in Workers : ScoreJustified(w)

\* While there is time, a target of httpPing is given up only when the configured number
\* of retries is used up, each of them after a failed request.
RetriesUsedUp == \A w \in Workers : ErrorJustified(w)

\* A request that exceeded its timeout is retried timeoutRetries times: "the number of
\* max retry times only when http request exceeded timeout" (httpPing/README.md).
TimedOutRetried ==
    \A w \in Workers : GivenUp(w) /\ ping[w].expired => Len(Tried(w)) > ConfigOf(w).timeoutRetries

\* PerformTest answers, and every goroutine of the pool ends with it: a test that runs
\* for ever leaves none behind.
PoolDrains == <>[](ppc = "returned" /\ \A w \in Workers : wpc[w] = "returned")
=============================================================================
