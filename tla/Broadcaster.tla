----------------------------- MODULE Broadcaster -----------------------------
(***************************************************************************)
(* The agent's broadcaster of test runs: one goroutine that owns the set   *)
(* of subscriptions and serves three channels.  Subscribing, unsubscribing *)
(* and publishing send on a buffered channel and block when it is full;    *)
(* a subscriber whose own channel is full loses the run.                   *)
(*                                                                         *)
(* A subscription is named by the channel SubscribeToTestRuns makes for it *)
(* and is used once.  A test run is the number of its publication.         *)
(***************************************************************************)
EXTENDS Naturals, Sequences, FiniteSets

CONSTANTS
    Chans,       \* the result channels clients may make
    PubSize,     \* BroadcasterPublishChannelSize
    ChanSize,    \* the capacity of each result channel
    MaxRuns      \* bound: how many test runs are published

RequestSize == 1  \* of testRunSubCh and testRunUnsubCh

ASSUME SizeAssumption == PubSize \in Nat \ {0} /\ ChanSize \in [Chans -> Nat] /\ MaxRuns \in Nat

VARIABLES
    testRunSubCh, testRunUnsubCh, testRunPubCh, stopCh,
    testRunSubs,   \* the subscriptions the broadcaster knows
    sending,       \* the subscriptions the run it is delivering has not reached yet
    bpc,           \* "select", "deliver" or "returned"
    resCh,         \* the buffer of each result channel
    used,          \* how far the client of a channel is with it
    published,     \* how many runs were published
    received       \* the last run each channel's client received

requests == <<testRunSubCh, testRunUnsubCh, testRunPubCh, stopCh>>
clients == <<used, published, received>>
bvars == <<requests, testRunSubs, sending, bpc, resCh, clients>>

Runs == 1..MaxRuns
ChanStates == {"new", "subscribed", "unsubscribed"}

\* The types of the variables, and the capacity of each channel.
BroadcasterTypeOK ==
    /\ testRunSubCh \in Seq(Chans) /\ Len(testRunSubCh) <= RequestSize
    /\ testRunUnsubCh \in Seq(Chans) /\ Len(testRunUnsubCh) <= RequestSize
    /\ testRunPubCh \in Seq(Runs) /\ Len(testRunPubCh) <= PubSize
    /\ stopCh \in BOOLEAN
    /\ testRunSubs \in SUBSET Chans
    /\ sending \in [run: Runs \cup {0}, left: SUBSET Chans]
    /\ bpc \in {"select", "deliver", "returned"}
    /\ resCh \in [Chans -> Seq(Runs)]
    /\ used \in [Chans -> ChanStates]
    /\ published \in 0..MaxRuns
    /\ received \in [Chans -> 0..MaxRuns]

BroadcasterInit ==
    /\ testRunSubCh = <<>> /\ testRunUnsubCh = <<>> /\ testRunPubCh = <<>>
    /\ stopCh = FALSE
    /\ testRunSubs = {}
    /\ sending = [run |-> 0, left |-> {}]
    /\ bpc = "select"
    /\ resCh = [c \in Chans |-> <<>>]
    /\ used = [c \in Chans |-> "new"]
    /\ published = 0
    /\ received = [c \in Chans |-> 0]
-----------------------------------------------------------------------------
(* What clients do. *)

\* Faulty variant: the request is put into the channel whether there is room or not.
SubscribeUnbounded(c) ==
    /\ used[c] = "new"
    /\ testRunSubCh' = Append(testRunSubCh, c)
    /\ used' = [used EXCEPT ![c] = "subscribed"]
    /\ UNCHANGED <<testRunUnsubCh, testRunPubCh, stopCh, testRunSubs, sending, bpc, resCh,
                   published, received>>

SubscribeToTestRuns(c) ==
    /\ used[c] = "new"
    /\ Len(testRunSubCh) < RequestSize
    /\ testRunSubCh' = Append(testRunSubCh, c)
    /\ used' = [used EXCEPT ![c] = "subscribed"]
    /\ UNCHANGED <<testRunUnsubCh, testRunPubCh, stopCh, testRunSubs, sending, bpc, resCh,
                   published, received>>

UnsubscribeFromTestRuns(c) ==
    /\ used[c] = "subscribed"
    /\ Len(testRunUnsubCh) < RequestSize
    /\ testRunUnsubCh' = Append(testRunUnsubCh, c)
    /\ used' = [used EXCEPT ![c] = "unsubscribed"]
    /\ UNCHANGED <<testRunSubCh, testRunPubCh, stopCh, testRunSubs, sending, bpc, resCh,
                   published, received>>

PublishTestRun ==
    /\ published < MaxRuns
    /\ Len(testRunPubCh) < PubSize
    /\ testRunPubCh' = Append(testRunPubCh, published + 1)
    /\ published' = published + 1
    /\ UNCHANGED <<testRunSubCh, testRunUnsubCh, stopCh, testRunSubs, sending, bpc, resCh,
                   used, received>>

Receive(c) ==
    /\ used[c] = "subscribed"
    /\ resCh[c] # <<>>
    /\ received' = [received EXCEPT ![c] = Head(resCh[c])]
    /\ resCh' = [resCh EXCEPT ![c] = Tail(@)]
    /\ UNCHANGED <<requests, testRunSubs, sending, bpc, used, published>>

Stop ==
    /\ ~stopCh
    /\ stopCh' = TRUE
    /\ UNCHANGED <<testRunSubCh, testRunUnsubCh, testRunPubCh, testRunSubs, sending, bpc, resCh,
                   clients>>
-----------------------------------------------------------------------------
(* Broadcaster.Start: a select picks any of the cases that are ready. *)

\* Faulty variant: the goroutine first serves what waits.
ReturnWhenDrained ==
    /\ bpc = "select" /\ stopCh
    /\ testRunPubCh = <<>> /\ Len(testRunSubCh) = 0 /\ testRunSubs = {}
    /\ bpc' = "returned"
    /\ UNCHANGED <<requests, testRunSubs, sending, resCh, clients>>

ReturnOnStop ==
    /\ bpc = "select" /\ stopCh
    /\ bpc' = "returned"
    /\ UNCHANGED <<requests, testRunSubs, sending, resCh, clients>>

AddListener ==
    /\ bpc = "select" /\ testRunSubCh # <<>>
    /\ testRunSubs' = testRunSubs \cup {Head(testRunSubCh)}
    /\ testRunSubCh' = Tail(testRunSubCh)
    /\ UNCHANGED <<testRunUnsubCh, testRunPubCh, stopCh, sending, bpc, resCh, clients>>

DeleteListener ==
    /\ bpc = "select" /\ testRunUnsubCh # <<>>
    /\ testRunSubs' = testRunSubs \ {Head(testRunUnsubCh)}
    /\ testRunUnsubCh' = Tail(testRunUnsubCh)
    /\ UNCHANGED <<testRunSubCh, testRunPubCh, stopCh, sending, bpc, resCh, clients>>

\* Faulty variant: the run published last is taken first.
TakeNewest ==
    /\ bpc = "select" /\ testRunPubCh # <<>>
    /\ sending' = [run |-> testRunPubCh[Len(testRunPubCh)], left |-> testRunSubs]
    /\ testRunPubCh' = SubSeq(testRunPubCh, 1, Len(testRunPubCh) - 1)
    /\ bpc' = "deliver"
    /\ UNCHANGED <<testRunSubCh, testRunUnsubCh, stopCh, testRunSubs, resCh, clients>>

TakeTestRun ==
    /\ bpc = "select" /\ testRunPubCh # <<>>
    /\ sending' = [run |-> Head(testRunPubCh), left |-> testRunSubs]
    /\ testRunPubCh' = Tail(testRunPubCh)
    /\ bpc' = "deliver"
    /\ UNCHANGED <<testRunSubCh, testRunUnsubCh, stopCh, testRunSubs, resCh, clients>>

\* Faulty variants of Deliver: the send waits for room, or the run stays to be sent.
DeliverBlocks(c) ==
    /\ bpc = "deliver" /\ c \in sending.left
    /\ Len(resCh[c]) < ChanSize[c]
    /\ resCh' = [resCh EXCEPT ![c] = Append(@, sending.run)]
    /\ sending' = [sending EXCEPT !.left = @ \ {c}]
    /\ UNCHANGED <<requests, testRunSubs, bpc, clients>>

DeliverRetries(c) ==
    /\ bpc = "deliver" /\ c \in sending.left
    /\ resCh' = IF Len(resCh[c]) < ChanSize[c]
                THEN [resCh EXCEPT ![c] = Append(@, sending.run)] ELSE resCh
    /\ sending' \in {sending, [sending EXCEPT !.left = @ \ {c}]}
    /\ UNCHANGED <<requests, testRunSubs, bpc, clients>>

\* The map is iterated in any order; a full channel drops the run.
Deliver(c) ==
    /\ bpc = "deliver" /\ c \in sending.left
    /\ resCh' = IF Len(resCh[c]) < ChanSize[c]
                THEN [resCh EXCEPT ![c] = Append(@, sending.run)] ELSE resCh
    /\ sending' = [sending EXCEPT !.left = @ \ {c}]
    /\ UNCHANGED <<requests, testRunSubs, bpc, clients>>

Delivered ==
    /\ bpc = "deliver" /\ sending.left = {}
    /\ bpc' = "select"
    /\ sending' = [run |-> 0, left |-> {}]
    /\ UNCHANGED <<requests, testRunSubs, resCh, clients>>

Delivery == Delivered \/ \E c \in Chans : Deliver(c)

BroadcasterStep == ReturnOnStop \/ AddListener \/ DeleteListener \/ TakeTestRun \/ Delivery

ClientStep ==
    \/ PublishTestRun \/ Stop
    \/ \E c \in Chans : SubscribeToTestRuns(c) \/ UnsubscribeFromTestRuns(c) \/ Receive(c)

BroadcasterNext == BroadcasterStep \/ ClientStep

BroadcasterSpec == BroadcasterInit /\ [][BroadcasterNext]_bvars

\* A select chooses at random among the ready cases, so none is passed over for ever.
\* Nothing is assumed of the clients: a subscriber may never receive.
BroadcasterFairness ==
    /\ WF_bvars(Delivery)
    /\ SF_bvars(ReturnOnStop) /\ SF_bvars(AddListener)
    /\ SF_bvars(DeleteListener) /\ SF_bvars(TakeTestRun)

FairBroadcasterSpec == BroadcasterSpec /\ BroadcasterFairness
-----------------------------------------------------------------------------
Increasing(s) == \A i, j \in DOMAIN s : i < j => s[i] < s[j]

Precede(s, run) == \A i \in DOMAIN s : s[i] < run

\* What a channel's client has received last, what waits for it in the channel, the run
\* that is being delivered to it and the runs still to be taken follow one another in the
\* order of publication, whatever is dropped and whoever subscribes or leaves meanwhile.
BroadcastOrder ==
    /\ Increasing(testRunPubCh)
    /\ \A c \in Chans :
           /\ Increasing(resCh[c])
           /\ \A i \in DOMAIN resCh[c] : received[c] < resCh[c][i]
           /\ \A k \in DOMAIN testRunPubCh :
                  received[c] < testRunPubCh[k] /\ Precede(resCh[c], testRunPubCh[k])
           /\ c \in sending.left =>
                  /\ received[c] < sending.run /\ Precede(resCh[c], sending.run)
                  /\ \A k \in DOMAIN testRunPubCh : sending.run < testRunPubCh[k]

Feed == INSTANCE LossyFeed WITH Subscribers <- Chans, sent <- published, seen <- received

\* To its subscribers the broadcaster is a lossy feed: none ever goes back to an older
\* run or receives one that was not published, though the runs pass through two channels
\* and a delivery that subscriptions, cancellations and full channels interrupt.
FeedImplemented == Feed!FeedSpec

\* A test routine that publishes, subscribes or unsubscribes is not held up for ever by a
\* subscriber that does not read: until Stop every request channel has room again and again.
RequestsServed ==
    []<>(stopCh \/ (/\ Len(testRunPubCh) < PubSize
                    /\ testRunSubCh = <<>> /\ testRunUnsubCh = <<>>))

\* Stop ends the goroutine, also in the middle of a delivery and with requests waiting.
StopReturns == stopCh ~> bpc = "returned"
=============================================================================
