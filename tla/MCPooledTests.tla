---------------------------- MODULE MCPooledTests ---------------------------
(* The model-checking instances of PooledTests. *)
EXTENDS PooledTests

AllPlugins == {"httpPing", "dns", "netDial"}
HttpOnly == {"httpPing"}

Config(r, t, n) == [retries |-> r, timeoutRetries |-> t, repeats |-> n]

\* One retry and a negative number of them after a timeout, so that a late job sends no
\* request; repeats; and two that Initialise refuses.
MixedConfigs == {Config(1, -1, 0), Config(0, 0, 2), Config(1, 0, 2), Config(0, 1, 2)}

\* No retries, but for timeouts.
TimeoutConfigs == {Config(0, 1, 0)}
=============================================================================
