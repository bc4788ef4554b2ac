--------------------------- MODULE AgentLoopProofs ---------------------------
(***************************************************************************)
(* Proofs about AgentLoop and the Broadcaster it is built on, for any      *)
(* tests, channels, capacities and number of test runs.                    *)
(*                                                                         *)
(* First the broadcaster with arbitrary clients: what is on its way to a   *)
(* client is in the order of publication (FeedInv), from which the types   *)
(* and the refinement of LossyFeed follow.  Then the agent: its steps are  *)
(* steps of the broadcaster and its clients, so all of that carries over;  *)
(* and its shutdown leaves behind it only what has ended (ShutdownInv).    *)
(***************************************************************************)
EXTENDS AgentLoop, TLAPS

\* One channel's part of BroadcastOrder; nothing on its way to the client is newer than
\* the last publication.
ChanOrder(c) ==
    /\ Increasing(resCh[c])
    /\ \A i \in DOMAIN resCh[c] : received[c] < resCh[c][i] /\ resCh[c][i] <= published
    /\ \A k \in DOMAIN testRunPubCh :
           received[c] < testRunPubCh[k] /\ Precede(resCh[c], testRunPubCh[k])
    /\ c \in sending.left =>
           /\ received[c] < sending.run /\ Precede(resCh[c], sending.run)
           /\ \A k \in DOMAIN testRunPubCh : sending.run < testRunPubCh[k]
    /\ received[c] <= published

\* The same for the publications, and between two deliveries nobody is left to deliver to.
PubOrder ==
    /\ Increasing(testRunPubCh)
    /\ \A k \in DOMAIN testRunPubCh : testRunPubCh[k] <= published
    /\ sending.run <= published
    /\ bpc # "deliver" => sending.left = {}

FeedInv == PubOrder /\ \A c \in Chans : ChanOrder(c)

\* The initial state has the types.
LEMMA InitTypes == BroadcasterInit => BroadcasterTypeOK
<1> SUFFICES ASSUME BroadcasterInit PROVE BroadcasterTypeOK
  OBVIOUS
<1> USE SizeAssumption DEF BroadcasterInit
<1>1. /\ testRunSubCh \in Seq(Chans) /\ Len(testRunSubCh) <= RequestSize
      /\ testRunUnsubCh \in Seq(Chans) /\ Len(testRunUnsubCh) <= RequestSize
      /\ testRunPubCh \in Seq(Runs) /\ Len(testRunPubCh) <= PubSize
  BY DEF RequestSize
<1>2. stopCh \in BOOLEAN /\ testRunSubs \in SUBSET Chans /\ bpc \in {"select", "deliver", "returned"}
  OBVIOUS
<1>3. sending \in [run: Runs \cup {0}, left: SUBSET Chans]
  OBVIOUS
<1>4. resCh \in [Chans -> Seq(Runs)] /\ used \in [Chans -> ChanStates]
  BY DEF ChanStates
<1>5. published \in 0..MaxRuns /\ received \in [Chans -> 0..MaxRuns]
  OBVIOUS
<1> QED BY <1>1, <1>2, <1>3, <1>4, <1>5 DEF BroadcasterTypeOK

\* The steps of clients keep the types and the capacities.
LEMMA ClientTypes == BroadcasterTypeOK /\ ClientStep => BroadcasterTypeOK'
<1> SUFFICES ASSUME BroadcasterTypeOK, ClientStep PROVE BroadcasterTypeOK'
  OBVIOUS
<1> USE SizeAssumption DEF BroadcasterTypeOK, requests, clients
<1>1. CASE PublishTestRun
  <2>1. published' \in 0..MaxRuns /\ published + 1 \in Runs
    BY <1>1 DEF PublishTestRun, Runs
  <2>2. testRunPubCh' \in Seq(Runs) /\ Len(testRunPubCh') <= PubSize
    BY <1>1, <2>1 DEF PublishTestRun
  <2> QED BY <1>1, <2>1, <2>2 DEF PublishTestRun
<1>2. CASE Stop
  BY <1>2 DEF Stop
<1>3. ASSUME NEW c \in Chans, SubscribeToTestRuns(c) PROVE BroadcasterTypeOK'
  <2>1. testRunSubCh' \in Seq(Chans) /\ Len(testRunSubCh') <= RequestSize
    BY <1>3 DEF SubscribeToTestRuns, RequestSize
  <2>2. used' \in [Chans -> ChanStates]
    BY <1>3 DEF SubscribeToTestRuns, ChanStates
  <2> QED BY <1>3, <2>1, <2>2 DEF SubscribeToTestRuns
<1>4. ASSUME NEW c \in Chans, UnsubscribeFromTestRuns(c) PROVE BroadcasterTypeOK'
  <2>1. testRunUnsubCh' \in Seq(Chans) /\ Len(testRunUnsubCh') <= RequestSize
    BY <1>4 DEF UnsubscribeFromTestRuns, RequestSize
  <2>2. used' \in [Chans -> ChanStates]
    BY <1>4 DEF UnsubscribeFromTestRuns, ChanStates
  <2> QED BY <1>4, <2>1, <2>2 DEF UnsubscribeFromTestRuns
<1>5. ASSUME NEW c \in Chans, Receive(c) PROVE BroadcasterTypeOK'
  <2>1. Head(resCh[c]) \in Runs /\ Tail(resCh[c]) \in Seq(Runs)
    BY <1>5 DEF Receive
  <2>2. resCh' \in [Chans -> Seq(Runs)]
    BY <1>5, <2>1 DEF Receive
  <2>3. Head(resCh[c]) \in 0..MaxRuns
    BY <2>1 DEF Runs
  <2>4. received' \in [Chans -> 0..MaxRuns]
    BY <1>5, <2>3 DEF Receive
  <2> QED BY <1>5, <2>2, <2>4 DEF Receive
<1> QED BY <1>1, <1>2, <1>3, <1>4, <1>5 DEF ClientStep

\* The steps of the goroutine keep them too.
LEMMA StepTypes == BroadcasterTypeOK /\ FeedInv /\ BroadcasterStep => BroadcasterTypeOK'
<1> SUFFICES ASSUME BroadcasterTypeOK, FeedInv, BroadcasterStep PROVE BroadcasterTypeOK'
  OBVIOUS
<1> USE SizeAssumption DEF BroadcasterTypeOK, requests, clients
<1>1. CASE ReturnOnStop
  BY <1>1 DEF ReturnOnStop
<1>2. CASE AddListener
  <2>1. Head(testRunSubCh) \in Chans /\ Tail(testRunSubCh) \in Seq(Chans)
        /\ Len(Tail(testRunSubCh)) <= RequestSize
    BY <1>2 DEF AddListener, RequestSize
  <2> QED BY <1>2, <2>1 DEF AddListener
<1>3. CASE DeleteListener
  <2>1. Tail(testRunUnsubCh) \in Seq(Chans) /\ Len(Tail(testRunUnsubCh)) <= RequestSize
    BY <1>3 DEF DeleteListener, RequestSize
  <2> QED BY <1>3, <2>1 DEF DeleteListener
<1>4. CASE TakeTestRun
  <2>1. Head(testRunPubCh) \in Runs /\ Tail(testRunPubCh) \in Seq(Runs)
        /\ Len(Tail(testRunPubCh)) <= PubSize
    BY <1>4 DEF TakeTestRun
  <2> QED BY <1>4, <2>1 DEF TakeTestRun
<1>5. CASE Delivered
  BY <1>5 DEF Delivered
<1>6. ASSUME NEW c \in Chans, Deliver(c) PROVE BroadcasterTypeOK'
  <2>1. received[c] < sending.run
    BY <1>6 DEF Deliver, ChanOrder, FeedInv
  <2>2. sending.run \in Runs
    BY <2>1 DEF Runs
  <2>3. resCh' \in [Chans -> Seq(Runs)]
    BY <1>6, <2>2 DEF Deliver
  <2>4. sending' \in [run: Runs \cup {0}, left: SUBSET Chans]
    BY <1>6 DEF Deliver
  <2> QED BY <1>6, <2>3, <2>4 DEF Deliver
<1> QED BY <1>1, <1>2, <1>3, <1>4, <1>5, <1>6 DEF BroadcasterStep, Delivery

\* The numbers and the sequences BroadcastOrder compares are typed.
LEMMA FeedTypes ==
  ASSUME BroadcasterTypeOK
  PROVE  /\ testRunPubCh \in Seq(Nat) /\ resCh \in [Chans -> Seq(Nat)]
         /\ received \in [Chans -> Nat] /\ published \in Nat /\ sending.run \in Nat
         /\ sending \in [run: Nat, left: SUBSET Chans]
<1> USE SizeAssumption DEF BroadcasterTypeOK, Runs
<1>1. Runs \subseteq Nat
  OBVIOUS
<1>2. testRunPubCh \in Seq(Nat)
  BY <1>1
<1>3. resCh \in [Chans -> Seq(Nat)]
  BY <1>1
<1>4. received \in [Chans -> Nat] /\ published \in Nat /\ sending.run \in Nat
  OBVIOUS
<1>5. sending \in [run: Nat, left: SUBSET Chans]
  BY <1>1
<1> QED BY <1>2, <1>3, <1>4, <1>5

\* Initially nothing is on its way.
LEMMA InitFeed == BroadcasterInit => FeedInv
BY DEF BroadcasterInit, FeedInv, ChanOrder, PubOrder, Increasing, Precede

\* A step of a client keeps what is on its way in order.
LEMMA ClientFeed ==
  ASSUME BroadcasterTypeOK, FeedInv, ClientStep
  PROVE  FeedInv'
<1>t. /\ testRunPubCh \in Seq(Nat) /\ resCh \in [Chans -> Seq(Nat)]
      /\ received \in [Chans -> Nat] /\ published \in Nat /\ sending.run \in Nat
  BY FeedTypes
<1>f. PubOrder /\ \A c \in Chans : ChanOrder(c)
  BY DEF FeedInv
<1>c. \A c \in Chans : resCh[c] \in Seq(Nat) /\ received[c] \in Nat
  BY <1>t
<1>1. CASE PublishTestRun
  <2>1. /\ UNCHANGED <<resCh, received, sending, bpc>> /\ published' = published + 1
        /\ testRunPubCh' = Append(testRunPubCh, published + 1)
    BY <1>1 DEF PublishTestRun
  <2>2. /\ DOMAIN testRunPubCh' = 1..(Len(testRunPubCh) + 1)
        /\ DOMAIN testRunPubCh = 1..Len(testRunPubCh) /\ Len(testRunPubCh) \in Nat
        /\ \A k \in DOMAIN testRunPubCh : testRunPubCh'[k] = testRunPubCh[k] /\ testRunPubCh[k] \in Nat
        /\ testRunPubCh'[Len(testRunPubCh) + 1] = published + 1
    BY <1>t, <2>1
  <2>3. PubOrder'
    BY <1>f, <1>t, <2>1, <2>2 DEF PubOrder, Increasing
  <2>4. ASSUME NEW c \in Chans PROVE ChanOrder(c)'
    BY <1>f, <1>t, <1>c, <2>1, <2>2, <2>4, SMTT(30) DEF ChanOrder, PubOrder, Increasing, Precede
  <2> QED BY <2>3, <2>4 DEF FeedInv
<1>2. CASE Stop \/ (\E c \in Chans : SubscribeToTestRuns(c) \/ UnsubscribeFromTestRuns(c))
  <2>1. UNCHANGED <<testRunPubCh, resCh, received, published, sending, bpc>>
    BY <1>2 DEF Stop, SubscribeToTestRuns, UnsubscribeFromTestRuns, clients
  <2> QED BY <1>f, <2>1 DEF FeedInv, PubOrder, ChanOrder, Increasing, Precede
<1>3. ASSUME NEW c \in Chans, Receive(c) PROVE FeedInv'
  <2>1. /\ UNCHANGED <<testRunPubCh, published, sending, bpc>>
        /\ received'[c] = Head(resCh[c]) /\ resCh'[c] = Tail(resCh[c])
        /\ \A d \in Chans : d # c => received'[d] = received[d] /\ resCh'[d] = resCh[d]
    BY <1>t, <1>3 DEF Receive, requests
  <2>2. PubOrder'
    BY <1>f, <2>1 DEF PubOrder, Increasing
  <2>3. ASSUME NEW d \in Chans, d # c PROVE ChanOrder(d)'
    BY <1>f, <2>1, <2>3 DEF ChanOrder, Increasing, Precede
  <2>4. ChanOrder(c)'
    <3>1. /\ 1 \in DOMAIN resCh[c] /\ Head(resCh[c]) = resCh[c][1]
          /\ \A i \in DOMAIN Tail(resCh[c]) :
                i \in Nat /\ 1 < i + 1 /\ i + 1 \in DOMAIN resCh[c] /\ Tail(resCh[c])[i] = resCh[c][i + 1]
          /\ \A i \in DOMAIN resCh[c] : resCh[c][i] \in Nat
      BY <1>c, <1>3 DEF Receive
    <3> QED BY <1>f, <1>t, <2>1, <3>1 DEF ChanOrder, Increasing, Precede
  <2> QED BY <2>2, <2>3, <2>4 DEF FeedInv
<1> QED BY <1>1, <1>2, <1>3 DEF ClientStep

\* So does a step of the goroutine: a run is taken behind all earlier ones and delivered
\* behind what waits in the channel.
LEMMA StepFeed ==
  ASSUME BroadcasterTypeOK, FeedInv, BroadcasterStep
  PROVE  FeedInv'
<1>t. /\ testRunPubCh \in Seq(Nat) /\ resCh \in [Chans -> Seq(Nat)]
      /\ received \in [Chans -> Nat] /\ published \in Nat /\ sending.run \in Nat
      /\ sending \in [run: Nat, left: SUBSET Chans]
  BY FeedTypes
<1>f. PubOrder /\ \A c \in Chans : ChanOrder(c)
  BY DEF FeedInv
<1>c. \A c \in Chans : resCh[c] \in Seq(Nat) /\ received[c] \in Nat
  BY <1>t
<1>1. CASE ReturnOnStop \/ AddListener \/ DeleteListener
  <2>1. UNCHANGED <<testRunPubCh, resCh, received, published, sending>> /\ bpc # "deliver"
    BY <1>1 DEF ReturnOnStop, AddListener, DeleteListener, requests, clients
  <2> QED BY <1>f, <2>1 DEF FeedInv, PubOrder, ChanOrder, Increasing, Precede
<1>2. CASE TakeTestRun
  <2>1. /\ UNCHANGED <<resCh, received, published>> /\ bpc' = "deliver"
        /\ sending' = [run |-> Head(testRunPubCh), left |-> testRunSubs]
        /\ testRunPubCh' = Tail(testRunPubCh) /\ testRunPubCh # <<>>
    BY <1>2 DEF TakeTestRun, clients
  <2>2. /\ 1 \in DOMAIN testRunPubCh /\ sending'.run = testRunPubCh[1]
        /\ \A k \in DOMAIN testRunPubCh' :
              k \in Nat /\ 1 < k + 1 /\ k + 1 \in DOMAIN testRunPubCh /\ testRunPubCh'[k] = testRunPubCh[k + 1]
        /\ \A k \in DOMAIN testRunPubCh : testRunPubCh[k] \in Nat
    BY <1>t, <2>1
  <2>3. PubOrder'
    BY <1>f, <2>1, <2>2 DEF PubOrder, Increasing
  <2>4. ASSUME NEW c \in Chans PROVE ChanOrder(c)'
    BY <1>f, <1>c, <2>1, <2>2, <2>4 DEF ChanOrder, PubOrder, Increasing, Precede
  <2> QED BY <2>3, <2>4 DEF FeedInv
<1>3. ASSUME NEW c \in Chans, Deliver(c) PROVE FeedInv'
  <2>1. /\ UNCHANGED <<testRunPubCh, received, published, bpc>> /\ bpc = "deliver"
        /\ sending'.run = sending.run /\ sending'.left = sending.left \ {c} /\ c \in sending.left
        /\ resCh'[c] \in {resCh[c], Append(resCh[c], sending.run)}
        /\ \A d \in Chans : d # c => resCh'[d] = resCh[d]
    BY <1>t, <1>3 DEF Deliver, requests, clients
  <2>2. PubOrder'
    BY <1>f, <2>1 DEF PubOrder, Increasing
  <2>3. ASSUME NEW d \in Chans, d # c PROVE ChanOrder(d)'
    BY <1>f, <2>1, <2>3 DEF ChanOrder, Increasing, Precede
  <2>4. ChanOrder(c)'
    <3>1. CASE resCh'[c] = resCh[c]
      BY <1>f, <2>1, <3>1 DEF ChanOrder, Increasing, Precede
    <3>2. CASE resCh'[c] = Append(resCh[c], sending.run)
      <4>1. /\ DOMAIN resCh'[c] = 1..(Len(resCh[c]) + 1)
            /\ DOMAIN resCh[c] = 1..Len(resCh[c]) /\ Len(resCh[c]) \in Nat
            /\ \A i \in DOMAIN resCh[c] : resCh'[c][i] = resCh[c][i] /\ resCh[c][i] \in Nat
            /\ resCh'[c][Len(resCh[c]) + 1] = sending.run
        BY <1>c, <1>t, <3>2
      <4>a. /\ received[c] \in Nat /\ published \in Nat /\ sending.run \in Nat
            /\ received[c] < sending.run /\ sending.run <= published
            /\ \A i, j \in DOMAIN resCh[c] : i < j => resCh[c][i] < resCh[c][j]
            /\ \A i \in DOMAIN resCh[c] :
                  /\ received[c] < resCh[c][i] /\ resCh[c][i] <= published
                  /\ resCh[c][i] < sending.run
            /\ \A k \in DOMAIN testRunPubCh :
                  /\ received[c] < testRunPubCh[k] /\ sending.run < testRunPubCh[k]
                  /\ \A i \in DOMAIN resCh[c] : resCh[c][i] < testRunPubCh[k]
        BY <1>f, <1>t, <1>c, <2>1 DEF ChanOrder, PubOrder, Increasing, Precede
      <4>2. \A i, j \in DOMAIN resCh'[c] : i < j => resCh'[c][i] < resCh'[c][j]
        <5> SUFFICES ASSUME NEW i \in DOMAIN resCh'[c], NEW j \in DOMAIN resCh'[c], i < j
                     PROVE  resCh'[c][i] < resCh'[c][j]
          OBVIOUS
        <5>1. i \in DOMAIN resCh[c] /\ i \in Nat /\ j \in Nat
          BY <4>1
        <5>2. CASE j \in DOMAIN resCh[c]
          BY <4>1, <4>a, <5>1, <5>2
        <5>3. CASE j = Len(resCh[c]) + 1
          BY <4>1, <4>a, <5>1, <5>3
        <5> QED BY <4>1, <5>1, <5>2, <5>3
      <4>3. \A i \in DOMAIN resCh'[c] : received[c] < resCh'[c][i] /\ resCh'[c][i] <= published
        BY <4>1, <4>a, SMTT(30)
      <4>4. \A k \in DOMAIN testRunPubCh :
               /\ received[c] < testRunPubCh[k]
               /\ \A i \in DOMAIN resCh'[c] : resCh'[c][i] < testRunPubCh[k]
        BY <4>1, <4>a, SMTT(30)
      <4>5. received[c] <= published
        BY <4>a
      <4> QED BY <2>1, <4>2, <4>3, <4>4, <4>5 DEF ChanOrder, Increasing, Precede
    <3> QED BY <2>1, <3>1, <3>2
  <2> QED BY <2>2, <2>3, <2>4 DEF FeedInv
<1>4. CASE Delivered
  <2>1. /\ UNCHANGED <<testRunPubCh, resCh, received, published>>
        /\ sending' = [run |-> 0, left |-> {}]
    BY <1>4 DEF Delivered, requests, clients
  <2> QED BY <1>f, <1>t, <2>1 DEF FeedInv, PubOrder, ChanOrder, Increasing, Precede
<1> QED BY <1>1, <1>2, <1>3, <1>4 DEF BroadcasterStep, Delivery
-----------------------------------------------------------------------------
\* The invariant holds for any channels, capacities, subscribers and publishers.
LEMMA FeedInvariant == BroadcasterSpec => [](BroadcasterTypeOK /\ FeedInv)
<1>1. BroadcasterInit => BroadcasterTypeOK /\ FeedInv
  BY InitTypes, InitFeed
<1>2. BroadcasterTypeOK /\ FeedInv /\ [BroadcasterNext]_bvars => (BroadcasterTypeOK /\ FeedInv)'
  <2> SUFFICES ASSUME BroadcasterTypeOK, FeedInv, [BroadcasterNext]_bvars
               PROVE  (BroadcasterTypeOK /\ FeedInv)'
    OBVIOUS
  <2>1. CASE BroadcasterStep
    BY <2>1, StepTypes, StepFeed
  <2>2. CASE ClientStep
    BY <2>2, ClientTypes, ClientFeed
  <2>3. CASE UNCHANGED bvars
    <3>1. BroadcasterTypeOK'
      BY <2>3 DEF bvars, requests, clients, BroadcasterTypeOK
    <3>2. FeedInv'
      BY <2>3 DEF bvars, requests, clients, FeedInv, PubOrder, ChanOrder, Increasing, Precede
    <3> QED BY <3>1, <3>2
  <2> QED BY <2>1, <2>2, <2>3 DEF BroadcasterNext
<1> QED BY <1>1, <1>2, PTL DEF BroadcasterSpec

\* No channel of the broadcaster ever holds more than its capacity or anything but what
\* clients sent, for any channels, capacities and number of runs.
THEOREM BroadcasterTypeCorrect == BroadcasterSpec => []BroadcasterTypeOK
BY FeedInvariant, PTL

\* What a client has received, what waits for it and what is still to be delivered are in
\* the order of publication, for any channels, capacities and number of runs.
THEOREM BroadcastOrderHolds == BroadcasterSpec => []BroadcastOrder
<1>1. FeedInv => BroadcastOrder
  BY DEF FeedInv, PubOrder, ChanOrder, BroadcastOrder
<1> QED BY <1>1, FeedInvariant, PTL

\* The broadcaster implements the lossy feed: a step either publishes the next run, or
\* takes one subscriber to a later published run, or changes nothing they can see.
THEOREM FeedRefinement == BroadcasterSpec => FeedImplemented
<1>1. BroadcasterInit => Feed!FeedInit
  BY DEF BroadcasterInit, Feed!FeedInit
<1>2. BroadcasterTypeOK /\ FeedInv /\ [BroadcasterNext]_bvars
         => [Feed!FeedNext]_<<published, received>>
  <2> SUFFICES ASSUME BroadcasterTypeOK, FeedInv, [BroadcasterNext]_bvars
               PROVE  [Feed!FeedNext]_<<published, received>>
    OBVIOUS
  <2>t. /\ resCh \in [Chans -> Seq(Nat)] /\ received \in [Chans -> Nat] /\ published \in Nat
    BY FeedTypes
  <2>1. CASE PublishTestRun
    BY <2>1 DEF PublishTestRun, Feed!FeedNext, Feed!Send
  <2>2. ASSUME NEW c \in Chans, Receive(c) PROVE Feed!See(c)
    <3>1. /\ 1 \in DOMAIN resCh[c] /\ Head(resCh[c]) = resCh[c][1] /\ resCh[c][1] \in Nat
      BY <2>t, <2>2 DEF Receive
    <3>2. resCh[c][1] \in (received[c] + 1)..published
      BY <2>t, <3>1 DEF FeedInv, ChanOrder
    <3> QED BY <2>2, <3>1, <3>2 DEF Receive, Feed!See
  <2>3. CASE BroadcasterStep \/ Stop \/ UNCHANGED bvars
             \/ (\E c \in Chans : SubscribeToTestRuns(c) \/ UnsubscribeFromTestRuns(c))
    BY <2>3 DEF BroadcasterStep, ReturnOnStop, AddListener, DeleteListener, TakeTestRun, Delivery,
                Delivered, Deliver, Stop, SubscribeToTestRuns, UnsubscribeFromTestRuns, bvars, clients
  <2> QED BY <2>1, <2>2, <2>3 DEF BroadcasterNext, ClientStep, Feed!FeedNext
<1> QED BY <1>1, <1>2, FeedInvariant, PTL DEF BroadcasterSpec, FeedImplemented, Feed!FeedSpec
-----------------------------------------------------------------------------
(* The agent *)

\* Every goroutine has a channel of its own.
LEMMA ChannelOf == ASSUME NEW g \in Goroutines PROVE ChanOf[g] \in Chans
  BY ChanOfAssumption

\* Esh and Prom are goroutines of the agent, other than each other and any test.
LEMMA Exporters == Esh \in Goroutines /\ Prom \in Goroutines /\ Esh # Prom /\ Esh \notin Tests /\ Prom \notin Tests
  BY TestsAssumption DEF Goroutines, Esh, Prom

\* What a routine does to the broadcaster is what one of its clients may do.
LEMMA RoutineIsClient ==
  ASSUME NEW g \in Goroutines, RoutineStep(g)
  PROVE  ClientStep \/ UNCHANGED bvars
  <1>1. ChanOf[g] \in Chans BY ChannelOf
  <1>2. CASE g = Prom /\ PromStep
    BY <1>1, <1>2 DEF PromStep, Subscribe, ExportTestRun, CleanupGauges, StopPrometheus, ClientStep
  <1>3. CASE g = Esh /\ EshStep
    BY <1>1, <1>3 DEF EshStep, Subscribe, ExportTestRun, StopExporter, LeaveBroadcaster, ClientStep
  <1>4. CASE g \in Tests /\ TestStep(g)
    <2>1. CASE RunTest(g) BY <1>1, <2>1 DEF RunTest, Subscribe, ClientStep
    <2>2. CASE TriggerOnTestRun(g) BY <1>1, <2>2 DEF TriggerOnTestRun, ClientStep
    <2>3. CASE Publish(g) BY <1>1, <2>3 DEF Publish, ClientStep
    <2>4. CASE LeaveRun(g) BY <1>1, <2>4 DEF LeaveRun, ClientStep
    <2>5. CASE Trigger(g) \/ RunReturns(g) \/ TestPlugin(g) \/ Restart(g) \/ StartPluginReturns(g)
      BY <2>5 DEF Trigger, RunReturns, TestPlugin, Restart, StartPluginReturns
    <2> QED BY <1>4, <2>1, <2>2, <2>3, <2>4, <2>5 DEF TestStep
  <1> QED BY <1>2, <1>3, <1>4 DEF RoutineStep

\* Only StopBroadcaster, of the main goroutine's steps, touches the broadcaster.
LEMMA MainIsClient == ASSUME MainStep PROVE StopBroadcaster \/ UNCHANGED bvars
  BY DEF MainStep, SendInit, OnSignal, OnTick, BeginSync, FetchSummaries, SyncFails, EndSync, NotifyPrometheus,
         LeaveTest, CancelTest, DeleteTest, StartTest, OnDone, WaitForTests, GracePeriod, WaitForPrometheus,
         CleanupAndUnregister, WaitForStorage, WaitForBroadcaster

\* Every step of the agent is a step of the broadcaster or of one of its clients, or leaves
\* the broadcaster alone.
LEMMA AgentStepsBroadcaster == [AgentNext]_avars => [BroadcasterNext]_bvars
  <1> SUFFICES ASSUME [AgentNext]_avars PROVE [BroadcasterNext]_bvars OBVIOUS
  <1>1. CASE MainStep BY <1>1, MainIsClient DEF StopBroadcaster, BroadcasterNext, ClientStep
  <1>2. ASSUME NEW g \in Goroutines, RoutineStep(g) PROVE [BroadcasterNext]_bvars
    BY <1>2, RoutineIsClient DEF BroadcasterNext
  <1>3. CASE Broadcast BY <1>3 DEF Broadcast, BroadcasterNext
  <1>4. CASE KillSignal \/ HandleSignal \/ ConfigEvent \/ SubscriberStep
    BY <1>4 DEF KillSignal, HandleSignal, ConfigEvent, SubscriberStep, TakeEvent, ForwardEvent, SubscriberReturns
  <1>5. CASE UNCHANGED avars BY <1>5 DEF avars
  <1> QED BY <1>1, <1>2, <1>3, <1>4, <1>5 DEF AgentNext

\* The agent uses its broadcaster as module Broadcaster says clients may: the theorems
\* about it hold in every agent, with its test routines, exporters and shutdown.
THEOREM AgentUsesBroadcaster == AgentSpec => BroadcasterSpec
  <1>1. AgentInit => BroadcasterInit BY DEF AgentInit
  <1> QED BY <1>1, AgentStepsBroadcaster, PTL DEF AgentSpec, BroadcasterSpec

\* In every agent the runs reach the exporters and the tests that depend on others in the
\* order of their publication, and never twice.
THEOREM AgentFeedsInOrder == AgentSpec => []BroadcastOrder /\ FeedImplemented
  BY AgentUsesBroadcaster, BroadcastOrderHolds, FeedRefinement
-----------------------------------------------------------------------------
\* The types of the agent's own variables; no more events wait than there were.
LoopTypes ==
    /\ signalled \in BOOLEAN /\ cancelled \in BOOLEAN /\ configChanged \in BOOLEAN
    /\ mpc \in MainSteps
    /\ configChan \in 0..ConfigChanSize /\ promConfigChange \in 0..PromChanSize
    /\ subscriber \in {"wait", "send", "returned"}
    /\ eventCount \in 0..MaxEvents /\ events \in 0..eventCount /\ changeCount \in 0..MaxChanges
    /\ gpc \in [Goroutines -> RoutineSteps]
    /\ running \in SUBSET Tests /\ visit \in SUBSET Tests /\ testCancelled \in SUBSET Tests

\* The steps of Start from a given step of its shutdown on.
FromReturn == {"waitBroadcaster", "returned"}
FromStop == {"stopBroadcaster"} \cup FromReturn
FromStorage == {"waitEsh"} \cup FromStop
FromCleanup == {"cleanup"} \cup FromStorage
FromGrace == {"grace", "waitProm"} \cup FromCleanup

\* What the shutdown has waited for has ended; the broadcaster is stopped last.
ShutdownInv ==
    /\ mpc \in FromGrace => \A t \in running : gpc[t] = "returned"
    /\ mpc \in FromCleanup => gpc[Prom] = "returned"
    /\ mpc \in FromStorage => running = {}
    /\ mpc \in FromStop => gpc[Esh] = "returned"
    /\ stopCh => mpc \in FromReturn

\* The inductive invariant.
LoopInv == LoopTypes /\ RoutineHasEntry /\ ShutdownInv

\* Initially there are no tests and nothing is shut down.
LEMMA LoopInvInit == AgentInit => LoopInv
  <1> SUFFICES ASSUME AgentInit PROVE LoopInv OBVIOUS
  <1> USE DEF AgentInit
  <1>1. gpc \in [Goroutines -> RoutineSteps]
    BY DEF Goroutines, RoutineSteps
  <1>2. LoopTypes
    <2>1. /\ configChan \in 0..ConfigChanSize /\ promConfigChange \in 0..PromChanSize
          /\ eventCount \in 0..MaxEvents /\ events \in 0..eventCount /\ changeCount \in 0..MaxChanges
      BY LoopBoundsAssumption DEF ConfigChanSize, PromChanSize
    <2>2. signalled \in BOOLEAN /\ cancelled \in BOOLEAN /\ configChanged \in BOOLEAN OBVIOUS
    <2>3. mpc \in MainSteps /\ subscriber \in {"wait", "send", "returned"} BY DEF MainSteps
    <2> QED BY <1>1, <2>1, <2>2, <2>3 DEF LoopTypes
  <1>3. RoutineHasEntry
    <2>1. \A t \in Tests : t \in Goroutines /\ t # Esh /\ t # Prom BY Exporters DEF Goroutines
    <2>2. \A t \in Tests : gpc[t] = "none" BY <2>1
    <2> QED BY <2>2 DEF RoutineHasEntry
  <1>4. ShutdownInv
    BY DEF ShutdownInv, FromGrace, FromCleanup, FromStorage, FromStop, FromReturn, BroadcasterInit
  <1> QED BY <1>2, <1>3, <1>4 DEF LoopInv

\* Only Stop closes the broadcaster's stop channel.
LEMMA StopChOnlyByStop ==
  /\ BroadcasterStep => stopCh' = stopCh
  /\ PublishTestRun => stopCh' = stopCh
  /\ \A c \in Chans : SubscribeToTestRuns(c) \/ UnsubscribeFromTestRuns(c) \/ Receive(c) => stopCh' = stopCh
  /\ UNCHANGED bvars => stopCh' = stopCh
  BY DEF BroadcasterStep, ReturnOnStop, AddListener, DeleteListener, TakeTestRun, Delivery, Delivered, Deliver,
         PublishTestRun, SubscribeToTestRuns, UnsubscribeFromTestRuns, Receive, bvars, requests

\* A step of a routine is one of a routine that is running, and leaves it with an entry;
\* no other routine moves, and of Start's state only a panic changes something.
LEMMA RoutineMoves ==
  ASSUME LoopTypes, NEW g \in Goroutines, RoutineStep(g)
  PROVE  /\ gpc[g] \notin {"none", "returned"} /\ gpc'[g] # "none"
         /\ gpc' \in [Goroutines -> RoutineSteps] /\ \A h \in Goroutines : h # g => gpc'[h] = gpc[h]
         /\ UNCHANGED <<signalled, cancelled, running, testCancelled, visit, configChanged, changeCount,
                        configChan, subscriber, events, eventCount>>
         /\ mpc' = mpc \/ (g = Prom /\ mpc' = "panicked")
         /\ promConfigChange' \in 0..PromChanSize
  <1>1. /\ gpc \in [Goroutines -> RoutineSteps]
        /\ promConfigChange \in 0..PromChanSize
    BY DEF LoopTypes
  <1>2. ASSUME NEW from \in RoutineSteps, NEW to \in RoutineSteps, MoveRoutine(g, from, to),
               from \notin {"none", "returned"}, to # "none"
        PROVE  /\ gpc[g] \notin {"none", "returned"} /\ gpc'[g] # "none"
               /\ gpc' \in [Goroutines -> RoutineSteps] /\ \A h \in Goroutines : h # g => gpc'[h] = gpc[h]
    BY <1>1, <1>2 DEF MoveRoutine
  <1>3. ASSUME gpc[g] \notin {"none", "returned"}, UNCHANGED gpc
        PROVE  /\ gpc'[g] # "none"
               /\ gpc' \in [Goroutines -> RoutineSteps] /\ \A h \in Goroutines : h # g => gpc'[h] = gpc[h]
    BY <1>1, <1>3
  <1>4. CASE g = Prom /\ PromStep
    <2>1. CASE (Subscribe(Prom) \/ ExportTestRun(Prom)) /\ UNCHANGED <<mainVars, chanVars>>
      <3>1. UNCHANGED <<mainVars, chanVars>> /\ promConfigChange' = promConfigChange
        BY <2>1 DEF chanVars
      <3>2. CASE Subscribe(Prom)
        <4>1. MoveRoutine(g, "start", "select") BY <1>4, <3>2 DEF Subscribe
        <4> QED BY <1>1, <1>2, <3>1, <4>1 DEF RoutineSteps, mainVars, chanVars
      <3>3. CASE ExportTestRun(Prom)
        BY <1>1, <1>3, <1>4, <3>1, <3>3 DEF ExportTestRun, mainVars, chanVars
      <3> QED BY <2>1, <3>2, <3>3
    <2>2. CASE CleanupGauges
      <3>1. promConfigChange' \in 0..PromChanSize BY <1>1, <2>2 DEF CleanupGauges, PromChanSize
      <3> QED BY <1>1, <1>3, <1>4, <2>2, <3>1 DEF CleanupGauges, mainVars
    <2>3. CASE StopPrometheus
      <3>1. gpc[g] = "select" BY <1>4, <2>3 DEF StopPrometheus
      <3>2. \/ PromMode = "push" /\ mpc' = "panicked" /\ UNCHANGED gpc
            \/ PromMode # "push" /\ UNCHANGED mpc /\ MoveRoutine(g, "select", "returned")
        BY <1>4, <2>3, <3>1 DEF StopPrometheus, MoveRoutine
      <3>3. UNCHANGED <<signalled, cancelled, running, testCancelled, visit, configChanged, changeCount, chanVars>>
        BY <2>3 DEF StopPrometheus
      <3>4. CASE PromMode = "push" BY <1>1, <1>3, <1>4, <3>1, <3>2, <3>3, <3>4 DEF chanVars
      <3>5. CASE PromMode # "push" BY <1>1, <1>2, <1>4, <3>2, <3>3, <3>5 DEF chanVars, RoutineSteps
      <3> QED BY <3>4, <3>5
    <2> QED BY <1>4, <2>1, <2>2, <2>3 DEF PromStep
  <1>5. CASE g = Esh /\ EshStep /\ UNCHANGED <<mainVars, chanVars>>
    <2>1. UNCHANGED <<mainVars, chanVars>> BY <1>5
    <2>2. CASE ExportTestRun(Esh)
      BY <1>1, <1>3, <1>5, <2>1, <2>2 DEF ExportTestRun, mainVars, chanVars
    <2>3. CASE Subscribe(Esh) \/ StopExporter \/ LeaveBroadcaster(Esh)
      <3>1. \/ MoveRoutine(g, "start", "select") \/ MoveRoutine(g, "select", "leave")
            \/ MoveRoutine(g, "leave", "returned")
        BY <1>5, <2>3 DEF Subscribe, StopExporter, LeaveBroadcaster
      <3> QED BY <1>1, <1>2, <2>1, <3>1 DEF RoutineSteps, mainVars, chanVars
    <2> QED BY <1>5, <2>2, <2>3 DEF EshStep
  <1>6. CASE g \in Tests /\ TestStep(g) /\ UNCHANGED <<mainVars, chanVars>>
    <2>1. PICK from \in RoutineSteps \ {"none", "returned"}, to \in RoutineSteps \ {"none"} : MoveRoutine(g, from, to)
      <3> USE DEF RoutineSteps
      <3>1. CASE RunTest(g) BY <3>1 DEF RunTest, Subscribe
      <3>2. CASE TriggerOnTestRun(g) BY <3>2 DEF TriggerOnTestRun
      <3>3. CASE Publish(g) BY <3>3 DEF Publish
      <3>4. CASE LeaveRun(g) BY <3>4 DEF LeaveRun
      <3>5. CASE Trigger(g) \/ RunReturns(g) BY <3>5 DEF Trigger, RunReturns
      <3>6. CASE TestPlugin(g) BY <3>6 DEF TestPlugin
      <3>7. CASE Restart(g) \/ StartPluginReturns(g) BY <3>7 DEF Restart, StartPluginReturns
      <3> QED BY <1>6, <3>1, <3>2, <3>3, <3>4, <3>5, <3>6, <3>7 DEF TestStep
    <2> QED BY <1>1, <1>2, <1>6, <2>1 DEF mainVars, chanVars
  <1> QED BY <1>4, <1>5, <1>6 DEF RoutineStep

\* No step of a routine closes the stop channel.
LEMMA RoutineNeverStops == ASSUME NEW g \in Goroutines, RoutineStep(g) PROVE stopCh' = stopCh
  <1>1. ChanOf[g] \in Chans BY ChannelOf
  <1>2. CASE g = Prom /\ PromStep
    BY <1>1, <1>2, StopChOnlyByStop DEF PromStep, Subscribe, ExportTestRun, CleanupGauges, StopPrometheus
  <1>3. CASE g = Esh /\ EshStep
    BY <1>1, <1>3, StopChOnlyByStop DEF EshStep, Subscribe, ExportTestRun, StopExporter, LeaveBroadcaster
  <1>4. CASE g \in Tests /\ TestStep(g)
    BY <1>1, <1>4, StopChOnlyByStop
       DEF TestStep, RunTest, Subscribe, TriggerOnTestRun, Publish, LeaveRun, Trigger, RunReturns, TestPlugin,
           Restart, StartPluginReturns
  <1> QED BY <1>2, <1>3, <1>4 DEF RoutineStep

\* A step of a routine keeps the invariant: what the shutdown waited for does not move.
LEMMA RoutineKeeps == ASSUME LoopInv, NEW g \in Goroutines, RoutineStep(g) PROVE LoopInv'
  <1>1. LoopTypes /\ RoutineHasEntry /\ ShutdownInv BY DEF LoopInv
  <1>2. /\ gpc[g] \notin {"none", "returned"} /\ gpc'[g] # "none"
        /\ gpc' \in [Goroutines -> RoutineSteps] /\ \A h \in Goroutines : h # g => gpc'[h] = gpc[h]
        /\ UNCHANGED <<signalled, cancelled, running, testCancelled, visit, configChanged, changeCount,
                       configChan, subscriber, events, eventCount>>
        /\ mpc' = mpc \/ (g = Prom /\ mpc' = "panicked")
        /\ promConfigChange' \in 0..PromChanSize
    BY <1>1, RoutineMoves
  <1>3. stopCh' = stopCh BY RoutineNeverStops
  <1>4. LoopTypes' BY <1>1, <1>2 DEF LoopTypes, MainSteps
  <1>5. Tests \subseteq Goroutines /\ running \subseteq Tests BY <1>1 DEF Goroutines, LoopTypes
  <1>6. RoutineHasEntry' BY <1>1, <1>2, <1>5 DEF RoutineHasEntry
  <1>7. ShutdownInv'
    <2>1. CASE mpc' = mpc
      BY <1>1, <1>2, <1>3, <1>5, <2>1, Exporters DEF ShutdownInv
    <2>2. CASE g = Prom /\ mpc' = "panicked"
      <3>1. mpc \notin FromCleanup BY <1>1, <1>2, <2>2 DEF ShutdownInv
      <3>2. ~stopCh BY <1>1, <3>1 DEF ShutdownInv, FromCleanup, FromStorage, FromStop
      <3> QED BY <1>3, <2>2, <3>2 DEF ShutdownInv, FromGrace, FromCleanup, FromStorage, FromStop, FromReturn
    <2> QED BY <1>2, <2>1, <2>2
  <1> QED BY <1>4, <1>6, <1>7 DEF LoopInv

\* Signals and config events touch neither the routines nor the shutdown.
LEMMA EventsKeep ==
  ASSUME LoopInv, KillSignal \/ HandleSignal \/ ConfigEvent \/ SubscriberStep
  PROVE  LoopInv'
  <1>1. /\ UNCHANGED <<mpc, running, gpc, stopCh, visit, testCancelled, configChanged, changeCount, promConfigChange>>
        /\ signalled' \in {signalled, TRUE} /\ cancelled' \in {cancelled, TRUE}
    BY DEF KillSignal, HandleSignal, ConfigEvent, SubscriberStep, TakeEvent, ForwardEvent, SubscriberReturns,
           mainVars, chanVars, bvars, requests
  <1>2. RoutineHasEntry' /\ ShutdownInv' BY <1>1 DEF LoopInv, RoutineHasEntry, ShutdownInv
  <1>3. /\ configChan' \in 0..ConfigChanSize /\ eventCount' \in 0..MaxEvents /\ events' \in 0..eventCount'
        /\ subscriber' \in {"wait", "send", "returned"}
    <2>1. /\ configChan \in 0..ConfigChanSize /\ eventCount \in 0..MaxEvents /\ events \in 0..eventCount
          /\ subscriber \in {"wait", "send", "returned"}
      BY DEF LoopInv, LoopTypes
    <2>2. CASE KillSignal \/ HandleSignal BY <2>1, <2>2 DEF KillSignal, HandleSignal, chanVars
    <2>3. CASE ConfigEvent BY <2>1, <2>3, LoopBoundsAssumption DEF ConfigEvent
    <2>4. CASE TakeEvent BY <2>1, <2>4, LoopBoundsAssumption DEF TakeEvent
    <2>5. CASE ForwardEvent BY <2>1, <2>5 DEF ForwardEvent, ConfigChanSize
    <2>6. CASE SubscriberReturns BY <2>1, <2>6 DEF SubscriberReturns
    <2> QED BY <2>2, <2>3, <2>4, <2>5, <2>6 DEF SubscriberStep
  <1>4. signalled' \in BOOLEAN /\ cancelled' \in BOOLEAN BY <1>1 DEF LoopInv, LoopTypes
  <1>5. LoopTypes' BY <1>1, <1>3, <1>4 DEF LoopInv, LoopTypes
  <1> QED BY <1>2, <1>5 DEF LoopInv

\* The main goroutine outside the shutdown: it has waited for nothing yet.
LEMMA LoopMainKeeps ==
  ASSUME LoopInv, LoopTypes', UNCHANGED stopCh, mpc \notin FromGrace, mpc' \notin FromGrace, RoutineHasEntry'
  PROVE  LoopInv'
  <1>1. ~stopCh BY DEF LoopInv, ShutdownInv, FromGrace, FromCleanup, FromStorage, FromStop
  <1>2. ShutdownInv' BY <1>1 DEF ShutdownInv, FromGrace, FromCleanup, FromStorage, FromStop
  <1> QED BY <1>2 DEF LoopInv

\* The steps of the config loop that start and stop no test.
LEMMA ConfigLoopKeeps ==
  ASSUME LoopInv,
         \/ SendInit \/ OnSignal \/ OnTick \/ FetchSummaries \/ SyncFails \/ EndSync \/ NotifyPrometheus \/ OnDone
         \/ \E t \in Tests : LeaveTest(t)
  PROVE  LoopInv'
  <1> USE DEF MoveMain
  <1>1. /\ UNCHANGED <<running, gpc, stopCh, testCancelled, cancelled, changeCount, subscriber, events, eventCount>>
        /\ mpc \in {"start", "select", "fetch", "sync", "notify"}
        /\ mpc' \in {"select", "fetch", "sync", "notify", "waitTests"}
        /\ visit' \in {visit, Tests} \/ \E t \in Tests : visit' = visit \ {t}
        /\ signalled' \in {signalled, TRUE} /\ configChanged' \in {configChanged, FALSE}
    BY DEF SendInit, OnSignal, OnTick, BeginSync, FetchSummaries, SyncFails, EndSync, NotifyPrometheus, OnDone,
           Shutdown, LeaveTest, chanVars, bvars, requests
  <1>2. configChan' \in 0..ConfigChanSize /\ promConfigChange' \in 0..PromChanSize
    <2>1. configChan \in 0..ConfigChanSize /\ promConfigChange \in 0..PromChanSize BY DEF LoopInv, LoopTypes
    <2>2. \/ UNCHANGED <<configChan, promConfigChange>>
          \/ configChan < ConfigChanSize /\ configChan' = configChan + 1 /\ UNCHANGED promConfigChange
          \/ configChan > 0 /\ configChan' = configChan - 1 /\ UNCHANGED promConfigChange
          \/ promConfigChange < PromChanSize /\ promConfigChange' = promConfigChange + 1 /\ UNCHANGED configChan
      BY DEF SendInit, OnSignal, OnTick, BeginSync, FetchSummaries, SyncFails, EndSync, NotifyPrometheus, OnDone,
             Shutdown, LeaveTest, chanVars
    <2> QED BY <2>1, <2>2 DEF ConfigChanSize, PromChanSize
  <1>3. visit' \in SUBSET Tests /\ signalled' \in BOOLEAN /\ configChanged' \in BOOLEAN
    BY <1>1 DEF LoopInv, LoopTypes
  <1>4. LoopTypes' BY <1>1, <1>2, <1>3 DEF LoopInv, LoopTypes, MainSteps
  <1>5. RoutineHasEntry' BY <1>1 DEF LoopInv, RoutineHasEntry
  <1>6. mpc \notin FromGrace /\ mpc' \notin FromGrace
    BY <1>1 DEF FromGrace, FromCleanup, FromStorage, FromStop, FromReturn
  <1> QED BY <1>1, <1>4, <1>5, <1>6, LoopMainKeeps

\* Starting and stopping a test: an entry comes with a routine and goes when it has ended.
LEMMA SyncKeeps ==
  ASSUME LoopInv, NEW t \in Tests, CancelTest(t) \/ DeleteTest(t) \/ StartTest(t)
  PROVE  LoopInv'
  <1>1. /\ UNCHANGED <<stopCh, signalled, cancelled, chanVars>>
        /\ mpc \in {"sync", "stopping"} /\ mpc' \in {"sync", "stopping"}
    BY DEF CancelTest, DeleteTest, StartTest, MoveMain, bvars, requests
  <1>2. LoopTypes BY DEF LoopInv
  <1>3. changeCount' \in 0..MaxChanges /\ configChanged' \in BOOLEAN
    <2>1. changeCount \in 0..MaxChanges /\ configChanged \in BOOLEAN BY <1>2 DEF LoopTypes
    <2>2. CASE CancelTest(t) \/ StartTest(t)
      <3>1. CountChange BY <2>2 DEF CancelTest, StartTest
      <3>2. CASE configChanged BY <2>1, <3>1, <3>2 DEF CountChange
      <3>3. CASE ~configChanged
        <4>1. changeCount < MaxChanges /\ changeCount' = changeCount + 1 /\ configChanged' = TRUE
          BY <3>1, <3>3 DEF CountChange, MayChange
        <4>2. changeCount' \in 0..MaxChanges BY <2>1, <4>1, LoopBoundsAssumption
        <4> QED BY <4>1, <4>2
      <3> QED BY <3>2, <3>3
    <2>3. CASE DeleteTest(t) BY <2>1, <2>3 DEF DeleteTest
    <2> QED BY <2>2, <2>3
  <1>4. t \in Goroutines BY DEF Goroutines
  <1>5. /\ gpc' \in [Goroutines -> RoutineSteps]
        /\ running' \in SUBSET Tests /\ visit' \in SUBSET Tests /\ testCancelled' \in SUBSET Tests
    BY <1>2 DEF LoopTypes, CancelTest, DeleteTest, StartTest, RoutineSteps
  <1>6. LoopTypes' BY <1>1, <1>2, <1>3, <1>5 DEF LoopTypes, MainSteps, chanVars
  <1>7. RoutineHasEntry'
    <2>1. gpc \in [Goroutines -> RoutineSteps] /\ Tests \subseteq Goroutines BY <1>2 DEF LoopTypes, Goroutines
    <2>2. RoutineHasEntry BY DEF LoopInv
    <2>3. CASE CancelTest(t) BY <2>2, <2>3 DEF CancelTest, RoutineHasEntry
    <2>4. CASE DeleteTest(t) BY <2>1, <2>2, <2>4 DEF DeleteTest, RoutineHasEntry
    <2>5. CASE StartTest(t) BY <2>1, <2>2, <2>5 DEF StartTest, RoutineHasEntry
    <2> QED BY <2>3, <2>4, <2>5
  <1>8. mpc \notin FromGrace /\ mpc' \notin FromGrace
    BY <1>1 DEF FromGrace, FromCleanup, FromStorage, FromStop, FromReturn
  <1> QED BY <1>1, <1>6, <1>7, <1>8, LoopMainKeeps

\* Each step of the shutdown leaves what it waited for behind it.
LEMMA ShutdownKeeps ==
  ASSUME LoopInv,
         \/ WaitForTests \/ GracePeriod \/ WaitForPrometheus \/ CleanupAndUnregister
         \/ WaitForStorage \/ StopBroadcaster \/ WaitForBroadcaster
  PROVE  LoopInv'
  <1> USE DEF Shutdown, MoveMain
  <1>1. LoopTypes /\ RoutineHasEntry /\ ShutdownInv BY DEF LoopInv
  <1>2. /\ UNCHANGED <<signalled, cancelled, testCancelled, visit, configChanged, changeCount, chanVars>>
        /\ mpc' \in MainSteps
    BY DEF WaitForTests, GracePeriod, WaitForPrometheus, CleanupAndUnregister, WaitForStorage, StopBroadcaster,
           WaitForBroadcaster, MainSteps
  <1>3. CASE CleanupAndUnregister
    <2>1. /\ mpc = "cleanup" /\ mpc' = "waitEsh" /\ running' = {} /\ stopCh' = stopCh
          /\ gpc' = [g \in Goroutines |-> IF g \in running THEN "none" ELSE gpc[g]]
      BY <1>3 DEF CleanupAndUnregister, bvars, requests
    <2>2. gpc \in [Goroutines -> RoutineSteps] /\ running \subseteq Tests /\ Tests \subseteq Goroutines
      BY <1>1 DEF LoopTypes, Goroutines
    <2>3. gpc' \in [Goroutines -> RoutineSteps] BY <2>1, <2>2 DEF RoutineSteps
    <2>4. LoopTypes' BY <1>1, <1>2, <2>1, <2>3 DEF LoopTypes, chanVars
    <2>5. RoutineHasEntry' BY <1>1, <2>1, <2>2 DEF RoutineHasEntry
    <2>6. gpc[Prom] = "returned" /\ ~stopCh
      BY <1>1, <2>1 DEF ShutdownInv, FromCleanup, FromReturn
    <2>7. gpc'[Prom] = "returned" BY <2>1, <2>2, <2>6, Exporters
    <2>8. ShutdownInv' BY <2>1, <2>6, <2>7 DEF ShutdownInv, FromStop, FromReturn
    <2> QED BY <2>4, <2>5, <2>8 DEF LoopInv
  <1>4. CASE \/ WaitForTests \/ GracePeriod \/ WaitForPrometheus \/ WaitForStorage \/ StopBroadcaster
             \/ WaitForBroadcaster
    <2>1. UNCHANGED <<running, gpc>>
      BY <1>4 DEF WaitForTests, GracePeriod, WaitForPrometheus, WaitForStorage, StopBroadcaster, WaitForBroadcaster
    <2>2. LoopTypes' BY <1>1, <1>2, <2>1 DEF LoopTypes, chanVars
    <2>3. RoutineHasEntry' BY <1>1, <2>1 DEF RoutineHasEntry
    <2>4. ShutdownInv'
      <3> USE DEF ShutdownInv, FromGrace, FromCleanup, FromStorage, FromStop, FromReturn
      <3>1. CASE WaitForTests BY <1>1, <3>1 DEF WaitForTests, bvars, requests
      <3>2. CASE GracePeriod BY <1>1, <3>2 DEF GracePeriod, bvars, requests
      <3>3. CASE WaitForPrometheus BY <1>1, <3>3 DEF WaitForPrometheus, bvars, requests
      <3>4. CASE WaitForStorage BY <1>1, <3>4 DEF WaitForStorage, bvars, requests
      <3>5. CASE StopBroadcaster BY <1>1, <3>5 DEF StopBroadcaster
      <3>6. CASE WaitForBroadcaster BY <1>1, <3>6 DEF WaitForBroadcaster, bvars, requests
      <3> QED BY <1>4, <3>1, <3>2, <3>3, <3>4, <3>5, <3>6
    <2> QED BY <2>2, <2>3, <2>4 DEF LoopInv
  <1> QED BY <1>3, <1>4

\* The invariant holds in every agent.
LEMMA LoopInvariant == AgentSpec => []LoopInv
  <1>1. ASSUME LoopInv, [AgentNext]_avars PROVE LoopInv'
    <2>1. CASE MainStep BY <1>1, <2>1, ConfigLoopKeeps, SyncKeeps, ShutdownKeeps DEF MainStep
    <2>2. ASSUME NEW g \in Goroutines, RoutineStep(g) PROVE LoopInv' BY <1>1, <2>2, RoutineKeeps
    <2>3. CASE KillSignal \/ HandleSignal \/ ConfigEvent \/ SubscriberStep BY <1>1, <2>3, EventsKeep
    <2>4. CASE Broadcast
      <3>1. stopCh' = stopCh BY <2>4, StopChOnlyByStop DEF Broadcast
      <3>2. UNCHANGED <<mainVars, chanVars, gpc>> BY <2>4 DEF Broadcast
      <3>3. LoopTypes' BY <1>1, <3>2 DEF LoopInv, LoopTypes, mainVars, chanVars
      <3>4. RoutineHasEntry' BY <1>1, <3>2 DEF LoopInv, RoutineHasEntry, mainVars
      <3>5. ShutdownInv' BY <1>1, <3>1, <3>2 DEF LoopInv, ShutdownInv, mainVars, chanVars
      <3> QED BY <3>3, <3>4, <3>5 DEF LoopInv
    <2>5. CASE UNCHANGED avars
      BY <1>1, <2>5 DEF avars, LoopInv, LoopTypes, RoutineHasEntry, ShutdownInv, mainVars, chanVars, bvars, requests
    <2> QED BY <1>1, <2>1, <2>2, <2>3, <2>4, <2>5 DEF AgentNext
  <1> QED BY <1>1, LoopInvInit, PTL DEF AgentSpec

\* The variables keep their types and no channel of the agent ever exceeds its capacity,
\* for any tests, channels and bounds.
THEOREM AgentTypeCorrect == AgentSpec => []AgentTypeOK
  <1>1. LoopInv /\ BroadcasterTypeOK => AgentTypeOK
    <2> SUFFICES ASSUME LoopInv, BroadcasterTypeOK PROVE AgentTypeOK OBVIOUS
    <2>1. events \in 0..MaxEvents BY LoopBoundsAssumption DEF LoopInv, LoopTypes
    <2> QED BY <2>1 DEF LoopInv, LoopTypes, AgentTypeOK
  <1> QED BY <1>1, LoopInvariant, AgentUsesBroadcaster, BroadcasterTypeCorrect, PTL

\* However tests are started, stopped and restarted, and wherever their routines are, a
\* test has a routine if and only if it has an entry in SyntheticTests.
THEOREM RoutineAlwaysHasEntry == AgentSpec => []RoutineHasEntry
  BY LoopInvariant, PTL DEF LoopInv

\* The broadcaster is stopped after every routine and both exporters, with any number of
\* tests and in every prometheus mode.
THEOREM BroadcasterAlwaysOutlives == AgentSpec => []BroadcasterOutlivesClients
  <1>1. LoopInv => BroadcasterOutlivesClients
    <2> SUFFICES ASSUME LoopInv, stopCh, NEW g \in Goroutines PROVE gpc[g] \in {"none", "returned"}
      BY DEF BroadcasterOutlivesClients
    <2>1. gpc[Prom] = "returned" /\ gpc[Esh] = "returned" /\ running = {}
      BY DEF LoopInv, ShutdownInv, FromCleanup, FromStorage, FromStop
    <2>2. \A t \in Tests : gpc[t] = "none" BY <2>1 DEF LoopInv, RoutineHasEntry
    <2> QED BY <2>1, <2>2 DEF Goroutines
  <1> QED BY <1>1, LoopInvariant, PTL
=============================================================================
