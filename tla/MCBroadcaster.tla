---------------------------- MODULE MCBroadcaster ----------------------------
(* Instances of Broadcaster for TLC: every result channel holds one run.   *)
EXTENDS Broadcaster

MCChanSize == [c \in Chans |-> 1]
=============================================================================
