------------------------------- MODULE RestPing -------------------------------
(***************************************************************************)
(* The REST API's ping page.  Every refresh fetches the pass ratios of all *)
(* plugins, folds them into an overall status and the failed tests, and    *)
(* replaces the response under a mutex; GetPing encodes the response under *)
(* the same mutex.  Agents write and remove pass ratios meanwhile.         *)
(*                                                                         *)
(* A pass ratio is stored with five decimals; here it is a number of       *)
(* 1/Scale, together with the marks it was computed from, which only the   *)
(* properties read.  The wording of the response is left out.              *)
(***************************************************************************)
EXTENDS Naturals, FiniteSets

CONSTANTS
    Nil,
    NaN,         \* what a division by no MaxMarks gives (NaN or +Inf)
    Plugins,     \* plugin ids: a test on an agent
    NameOf,      \* the name of a plugin's test
    Readers,     \* requests of the ping page
    Results,     \* the [marks, max] of test runs
    Scale,       \* 10^5 in the code
    MaxWrites    \* bound: how often agents change a status while the API runs

ASSUME ScaleAssumption == Scale \in Nat \ {0} /\ Results \subseteq [marks: Nat, max: Nat]

ASSUME BoundsAssumption == MaxWrites \in Nat

\* What is absent or not a number is no number, no record and no request.
ASSUME AbsentAssumption ==
    /\ NaN \notin Nat
    /\ Nil \notin Nat \cup Readers \cup {"refresh"} \cup [ratio: Nat \cup {NaN}, marks: Nat, max: Nat]
    /\ "refresh" \notin Readers

VARIABLES
    runStatus,      \* the hash AllTestRunStatus
    writes,
    PingResponse,
    mutex,          \* who holds pingRespMutex, or Nil
    upc, allStatus, left, overallStatus, failedTests,  \* the refresh and its locals
    rpc, copy       \* the requests and the bytes they have encoded

refresh == <<upc, allStatus, left, overallStatus, failedTests>>
requests == <<rpc, copy>>
pingVars == <<runStatus, writes, PingResponse, mutex, refresh, requests>>

Names == {NameOf[p] : p \in Plugins}
NoFailed == [n \in Names |-> Nil]
NoResponse == [status |-> 0, failed |-> NoFailed]
NoStatus == [p \in Plugins |-> Nil]

\* Faulty variant: the ratio is written without decimals.
CoarseRatios(r) ==
    IF r.max = 0 THEN {NaN} ELSE {IF 2 * r.marks < r.max THEN 0 ELSE Scale}

\* "%.5f" rounds to the nearest; which way half a unit goes depends on the binary fraction.
PassRatios(r) ==
    IF r.max = 0 THEN {NaN}
    ELSE LET below == (r.marks * Scale) \div r.max
             rest == (r.marks * Scale) % r.max
         IN  (IF 2 * rest <= r.max THEN {below} ELSE {}) \cup
             (IF 2 * rest >= r.max THEN {below + 1} ELSE {})

Stored == UNION {{[ratio |-> n, marks |-> r.marks, max |-> r.max] : n \in PassRatios(r)} : r \in Results}
Snapshots == [Plugins -> Stored \cup {Nil}]
Responses == [status: 0..3, failed: [Names -> 0..3 \cup {Nil}]]

\* The types of the variables.
PingTypeOK ==
    /\ runStatus \in Snapshots /\ allStatus \in Snapshots /\ writes \in 0..MaxWrites
    /\ PingResponse \in Responses /\ copy \in [Readers -> Responses]
    /\ mutex \in Readers \cup {"refresh", Nil}
    /\ upc \in {"idle", "summaries", "scan", "status", "failed", "unlock"}
    /\ left \subseteq Plugins /\ overallStatus \in 1..3 /\ failedTests \in [Names -> 0..2 \cup {Nil}]
    /\ rpc \in [Readers -> {"lock", "status", "failed", "unlock"}]

\* The API starts beside agents that have been running; its first response is the zero value.
PingInit ==
    /\ runStatus \in Snapshots /\ writes = 0
    /\ PingResponse = NoResponse
    /\ mutex = Nil
    /\ upc = "idle" /\ allStatus = NoStatus /\ left = {}
    /\ overallStatus = 3 /\ failedTests = NoFailed
    /\ rpc = [r \in Readers |-> "lock"] /\ copy = [r \in Readers |-> NoResponse]
-----------------------------------------------------------------------------
(* The agents and the controller. *)

UpdateTestRunStatus(p) ==
    /\ writes < MaxWrites
    /\ \E r \in Results : \E n \in PassRatios(r) :
           runStatus' = [runStatus EXCEPT ![p] = [ratio |-> n, marks |-> r.marks, max |-> r.max]]
    /\ writes' = writes + 1
    /\ UNCHANGED <<PingResponse, mutex, refresh, requests>>

DeleteTestRunStatus(p) ==
    /\ writes < MaxWrites /\ runStatus[p] # Nil
    /\ runStatus' = [runStatus EXCEPT ![p] = Nil]
    /\ writes' = writes + 1
    /\ UNCHANGED <<PingResponse, mutex, refresh, requests>>

Store == \E p \in Plugins : UpdateTestRunStatus(p) \/ DeleteTestRunStatus(p)
-----------------------------------------------------------------------------
(* UpdatePingResponse, once per tick. *)

\* The locals end with the call.
ReturnFromUpdate ==
    /\ upc' = "idle" /\ allStatus' = NoStatus /\ left' = {}
    /\ overallStatus' = 3 /\ failedTests' = NoFailed

\* A refresh that cannot read the statuses or the summaries leaves the old response.
FetchAllTestRunStatus ==
    /\ upc = "idle"
    /\ upc' = "summaries" /\ allStatus' = runStatus
    /\ UNCHANGED <<runStatus, writes, PingResponse, mutex, left, overallStatus, failedTests, requests>>

FetchFails ==
    /\ upc = "summaries" /\ ReturnFromUpdate
    /\ UNCHANGED <<runStatus, writes, PingResponse, mutex, requests>>

FetchAllTestConfigSummary ==
    /\ upc = "summaries" /\ upc' = "scan"
    /\ left' = {p \in Plugins : allStatus[p] # Nil}
    /\ UNCHANGED <<runStatus, writes, PingResponse, mutex, allStatus, overallStatus, failedTests, requests>>

GetLegacyStatus(ratio) ==
    CASE ratio = NaN   -> 0
      [] ratio = Scale -> 3
      [] ratio = 0     -> 1
      [] ratio # NaN /\ ratio < Scale /\ 2 * ratio > Scale -> 2
      [] OTHER -> 0

Failed(ratio) == ratio # NaN /\ ratio < Scale

\* Faulty variant: the last failed test decides.
OverallUnchecked(status) == status

\* The overall status after a failed test of the given status: an unknown one is a warning.
Overall(status) ==
    IF status >= overallStatus THEN overallStatus ELSE IF status # 0 THEN status ELSE 2

\* The map is iterated in any order.  The ratios and ids were written by UpdateTestRunStatus,
\* so they parse ("NaN" does too) and nothing is skipped.  A test is listed with the status
\* of its plugin that comes first.
Scan(p) ==
    LET ratio == allStatus[p].ratio IN
    /\ upc = "scan" /\ p \in left
    /\ left' = left \ {p}
    /\ IF Failed(ratio)
       THEN /\ failedTests' = [failedTests EXCEPT ![NameOf[p]] =
                                 IF @ = Nil THEN GetLegacyStatus(ratio) ELSE @]
            /\ overallStatus' = Overall(GetLegacyStatus(ratio))
       ELSE UNCHANGED <<failedTests, overallStatus>>
    /\ UNCHANGED <<runStatus, writes, PingResponse, mutex, upc, allStatus, requests>>

\* Faulty variant: a refresh that found no failed test has nothing to publish.
LockResponseIfFailed ==
    /\ upc = "scan" /\ left = {} /\ mutex = Nil
    /\ IF failedTests = NoFailed THEN ReturnFromUpdate /\ UNCHANGED mutex
       ELSE /\ upc' = "status" /\ mutex' = "refresh"
            /\ UNCHANGED <<allStatus, left, overallStatus, failedTests>>
    /\ UNCHANGED <<runStatus, writes, PingResponse, requests>>

LockResponse ==
    /\ upc = "scan" /\ left = {} /\ mutex = Nil
    /\ upc' = "status" /\ mutex' = "refresh"
    /\ UNCHANGED <<runStatus, writes, PingResponse, allStatus, left, overallStatus, failedTests, requests>>

\* The struct is assigned field by field.
SetStatus ==
    /\ upc = "status" /\ upc' = "failed"
    /\ PingResponse' = [PingResponse EXCEPT !.status = overallStatus]
    /\ UNCHANGED <<runStatus, writes, mutex, allStatus, left, overallStatus, failedTests, requests>>

SetFailed ==
    /\ upc = "failed" /\ upc' = "unlock"
    /\ PingResponse' = [PingResponse EXCEPT !.failed = failedTests]
    /\ UNCHANGED <<runStatus, writes, mutex, allStatus, left, overallStatus, failedTests, requests>>

UnlockResponse ==
    /\ upc = "unlock" /\ mutex' = Nil /\ ReturnFromUpdate
    /\ UNCHANGED <<runStatus, writes, PingResponse, requests>>

UpdatePingResponse ==
    \/ FetchAllTestRunStatus \/ FetchFails \/ FetchAllTestConfigSummary
    \/ \E p \in Plugins : Scan(p)
    \/ LockResponse \/ SetStatus \/ SetFailed \/ UnlockResponse
-----------------------------------------------------------------------------
(* GetPing: a request locks, encodes field by field and unlocks. *)

\* Faulty variant: the request does not wait for the refresh.
GetPingUnlocked(r) ==
    /\ rpc[r] = "lock" /\ rpc' = [rpc EXCEPT ![r] = "status"]
    /\ UNCHANGED <<runStatus, writes, PingResponse, mutex, refresh, copy>>

LockPing(r) ==
    /\ rpc[r] = "lock" /\ mutex = Nil
    /\ mutex' = r /\ rpc' = [rpc EXCEPT ![r] = "status"]
    /\ UNCHANGED <<runStatus, writes, PingResponse, refresh, copy>>

EncodeStatus(r) ==
    /\ rpc[r] = "status" /\ rpc' = [rpc EXCEPT ![r] = "failed"]
    /\ copy' = [copy EXCEPT ![r].status = PingResponse.status]
    /\ UNCHANGED <<runStatus, writes, PingResponse, mutex, refresh>>

EncodeFailed(r) ==
    /\ rpc[r] = "failed" /\ rpc' = [rpc EXCEPT ![r] = "unlock"]
    /\ copy' = [copy EXCEPT ![r].failed = PingResponse.failed]
    /\ UNCHANGED <<runStatus, writes, PingResponse, mutex, refresh>>

UnlockPing(r) ==
    /\ rpc[r] = "unlock" /\ rpc' = [rpc EXCEPT ![r] = "lock"] /\ mutex' = Nil
    /\ copy' = [copy EXCEPT ![r] = NoResponse]
    /\ UNCHANGED <<runStatus, writes, PingResponse, refresh>>

Encode(r) == EncodeStatus(r) \/ EncodeFailed(r) \/ UnlockPing(r)
GetPing(r) == LockPing(r) \/ Encode(r)

PingNext == Store \/ UpdatePingResponse \/ \E r \in Readers : GetPing(r)
PingSpec == PingInit /\ [][PingNext]_pingVars

\* The ticker never stops and the store answers now and then, and Go's mutex hands itself
\* over to who waits longest.  A request that holds the mutex finishes its encoding: the
\* server sets no WriteTimeout, so this supposes clients that read or hang up.  Nothing is
\* assumed of the agents, or that anyone asks for the page.
PingFairness ==
    /\ WF_pingVars(UpdatePingResponse)
    /\ SF_pingVars(FetchAllTestConfigSummary) /\ SF_pingVars(LockResponse)
    /\ \A r \in Readers : WF_pingVars(Encode(r))

FairPingSpec == PingSpec /\ PingFairness
-----------------------------------------------------------------------------
LostMarks(st) == {p \in Plugins : st[p] # Nil /\ st[p].marks < st[p].max}
WithoutMarks(st) == {p \in LostMarks(st) : st[p].marks = 0}

\* The runs that are less than half a unit of the stored ratio away from full or no marks may
\* be rounded there; exactly half a unit may go either way.
NotNearFull(st) == {p \in LostMarks(st) : 2 * Scale * st[p].marks + st[p].max < 2 * Scale * st[p].max}
NearNone(st) == {p \in LostMarks(st) : 2 * Scale * st[p].marks <= st[p].max}
NotNearNone(st) == {p \in LostMarks(st) : st[p].max <= 2 * Scale * st[p].marks}

\* Does a response say what the statuses st say?  Only tests of which a run lost marks are
\* listed, and all of them but for runs that are rounded to full marks; the status is 3 if
\* none is listed, 1 only if some run got no marks, or next to none, and 2 only if some run
\* lost some of its marks and not all.
Explains(st, status, failed) ==
    LET listed == {n \in Names : failed[n] # Nil} IN
    /\ {NameOf[p] : p \in NotNearFull(st)} \subseteq listed
    /\ listed \subseteq {NameOf[p] : p \in LostMarks(st)}
    /\ status = 3 <=> listed = {}
    /\ status = 1 => NearNone(st) # {}
    /\ status = 2 => NotNearNone(st) # {}

\* What a refresh is about to publish is what the statuses it fetched say, in whatever
\* order the plugins were scanned, with tests of one name on several agents, ratios that
\* were rounded, and runs that had no MaxMarks (which count as passed).
RefreshExplained == upc = "scan" /\ left = {} => Explains(allStatus, overallStatus, failedTests)

\* No request returns the status of one refresh with the failed tests of another:
\* the page says 3, or the initial 0, if and only if it lists no failed test.
PingNotTorn ==
    \A r \in Readers : rpc[r] = "unlock" =>
        (copy[r].status \in {0, 3} <=> copy[r].failed = NoFailed)

\* A run without any marks makes the overall status 1.
WorstRunDecides ==
    upc = "scan" /\ left = {} /\ WithoutMarks(allStatus) # {} => overallStatus = 1

\* Once the agents' statuses no longer change, the page comes to say what they say and
\* goes on saying so, though refreshes fail and requests hold the mutex.
PingSettles ==
    <>[][FALSE]_runStatus => <>[]Explains(runStatus, PingResponse.status, PingResponse.failed)
=============================================================================
