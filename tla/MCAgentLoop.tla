----------------------------- MODULE MCAgentLoop -----------------------------
(* Instances of AgentLoop for TLC: t1 runs on a timer, t2 after other      *)
(* tests; every result channel holds one run.                              *)
EXTENDS AgentLoop

CONSTANTS t1, t2, ce, cp, ct1, ct2

MCChanSize == [c \in Chans |-> 1]
MCDependsOn == [t \in Tests |-> t = t2]
MCChanOf == [g \in Goroutines |-> CASE g = Esh -> ce [] g = Prom -> cp
                                     [] g = t1 -> ct1 [] g = t2 -> ct2]
=============================================================================
