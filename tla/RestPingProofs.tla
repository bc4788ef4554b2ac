--------------------------- MODULE RestPingProofs ---------------------------
(***************************************************************************)
(* Proofs about RestPing, for every set of plugins, results and requests.  *)
(* Two arguments meet here.  One is arithmetic: what a ratio rounded to      *)
(* 1/Scale still tells of the marks, which is all but the last half unit.  *)
(* The other is the mutex: a response is torn only while the refresh       *)
(* holds it.                                                               *)
(***************************************************************************)
EXTENDS RestPing, TLAPS

\* A product of naturals is one, and keeps their order.
LEMMA Products ==
  ASSUME NEW a \in Nat, NEW b \in Nat, NEW c \in Nat
  PROVE  a * b \in Nat /\ (a <= c => a * b <= c * b)
  OBVIOUS

\* Division with remainder.
LEMMA Division ==
  ASSUME NEW x \in Nat, NEW m \in Nat, m > 0
  PROVE  /\ x \div m \in Nat /\ x % m \in Nat /\ x % m < m
         /\ x = m * (x \div m) + (x % m)
  <1>1. x \div m \in Nat OBVIOUS
  <1>2. x % m \in 0..m - 1 OBVIOUS
  <1>3. x = m * (x \div m) + (x % m) OBVIOUS
  <1> QED BY <1>1, <1>2, <1>3

\* Rounding a quotient to a multiple of 1/s moves it by at most half a unit.
LEMMA Rounded ==
  ASSUME NEW x \in Nat, NEW m \in Nat, NEW q \in Nat, NEW rest \in Nat, NEW n \in Nat,
         x = m * q + rest, rest < m,
         (n = q /\ 2 * rest <= m) \/ (n = q + 1 /\ 2 * rest >= m)
  PROVE  2 * (m * n) <= 2 * x + m /\ 2 * x <= 2 * (m * n) + m
  <1>1. m * q \in Nat BY Products
  <1>2. CASE n = q /\ 2 * rest <= m BY <1>1, <1>2
  <1>3. CASE n = q + 1 /\ 2 * rest >= m
    <2>1. m * n = m * q + m BY <1>3
    <2> QED BY <1>1, <1>3, <2>1
  <1> QED BY <1>2, <1>3

\* A quotient that is more than half a unit below one stays below one ...
LEMMA RoundedBelow ==
  ASSUME NEW x \in Nat, NEW m \in Nat, NEW s \in Nat, NEW n \in Nat,
         2 * (m * n) <= 2 * x + m, 2 * x + m < 2 * (m * s)
  PROVE  n < s
  <1>1. m * n \in Nat /\ m * s \in Nat BY Products
  <1>2. n >= s => m * n >= m * s OBVIOUS
  <1> QED BY <1>1, <1>2

\* ... one that is not below one does not get there ...
LEMMA RoundedFull ==
  ASSUME NEW a \in Nat, NEW m \in Nat, NEW s \in Nat, NEW q \in Nat, NEW rest \in Nat, NEW n \in Nat,
         a >= m, m > 0, a * s = m * q + rest, rest < m, n = q \/ n = q + 1
  PROVE  n >= s
  <1>1. a * s >= m * s OBVIOUS
  <1>2. m * s < m * (q + 1) BY <1>1
  <1>3. q + 1 <= s => m * (q + 1) <= m * s OBVIOUS
  <1> QED BY <1>2, <1>3

\* ... and only half a unit or less gives 0, which more than that does not.
LEMMA RoundedZero ==
  ASSUME NEW x \in Nat, NEW m \in Nat, NEW n \in Nat,
         2 * (m * n) <= 2 * x + m, 2 * x <= 2 * (m * n) + m
  PROVE  (n = 0 => 2 * x <= m) /\ (n # 0 => m <= 2 * x)
  <1>1. m * n \in Nat BY Products
  <1>2. n = 0 => m * n = 0 OBVIOUS
  <1>3. n # 0 => m * n >= m OBVIOUS
  <1> QED BY <1>1, <1>2, <1>3

\* What a stored ratio tells of the marks.
Tells(n, marks, max) ==
    /\ Failed(n) => n \in Nat /\ marks < max
    /\ marks < max /\ 2 * Scale * marks + max < 2 * Scale * max => Failed(n)
    /\ Failed(n) /\ n = 0 => 2 * Scale * marks <= max
    /\ Failed(n) /\ n # 0 => max <= 2 * Scale * marks

\* PassRatios: a run counts as failed only if it lost marks, and does if it lost more than
\* half a unit; its ratio is 0 only if it got at most half a unit.
LEMMA RatioTells ==
  ASSUME NEW r \in Results, NEW n \in PassRatios(r)
  PROVE  /\ r.marks \in Nat /\ r.max \in Nat /\ n \in Nat \cup {NaN}
         /\ Tells(n, r.marks, r.max)
  <1>1. r.marks \in Nat /\ r.max \in Nat /\ Scale \in Nat /\ Scale # 0 BY ScaleAssumption
  <1>2. CASE r.max = 0
    <2>1. n = NaN BY <1>2 DEF PassRatios
    <2> QED BY <1>1, <1>2, <2>1 DEF Failed, Tells
  <1>3. CASE r.max > 0
    <2> DEFINE x == r.marks * Scale
    <2> DEFINE q == x \div r.max
    <2> DEFINE rest == x % r.max
    <2>1. x \in Nat BY <1>1, Products
    <2>2. (n = q /\ 2 * rest <= r.max) \/ (n = q + 1 /\ 2 * rest >= r.max)
      BY <1>1, <1>3 DEF PassRatios
    <2>3. r.marks * Scale = x /\ 2 * Scale * r.marks = 2 * x /\ 2 * Scale * r.max = 2 * (r.max * Scale)
      BY <1>1
    <2> HIDE DEF x
    <2>4. q \in Nat /\ rest \in Nat /\ rest < r.max /\ x = r.max * q + rest
      BY <1>1, <1>3, <2>1, Division
    <2> HIDE DEF q, rest
    <2>5. n \in Nat BY <2>2, <2>4
    <2>6. 2 * (r.max * n) <= 2 * x + r.max /\ 2 * x <= 2 * (r.max * n) + r.max
      BY <1>1, <2>1, <2>2, <2>4, <2>5, Rounded
    <2>7. r.marks >= r.max => n >= Scale
      BY <1>1, <1>3, <2>2, <2>3, <2>4, <2>5, RoundedFull
    <2>8. 2 * x + r.max < 2 * (r.max * Scale) => n < Scale BY <1>1, <2>1, <2>5, <2>6, RoundedBelow
    <2>9. (n = 0 => 2 * x <= r.max) /\ (n # 0 => r.max <= 2 * x) BY <1>1, <2>1, <2>5, <2>6, RoundedZero
    <2>10. n # NaN BY <2>5, AbsentAssumption
    <2>11. Failed(n) <=> n < Scale BY <2>10 DEF Failed
    <2>12. Failed(n) => r.marks < r.max BY <1>1, <2>5, <2>7, <2>11
    <2>13. 2 * Scale * r.marks + r.max < 2 * Scale * r.max => Failed(n) BY <2>3, <2>8, <2>11
    <2> QED BY <1>1, <2>3, <2>5, <2>9, <2>12, <2>13 DEF Tells
  <1> QED BY <1>1, <1>2, <1>3

\* The same of a status in Redis, which is not absent.
LEMMA StoredTells ==
  ASSUME NEW st \in Stored
  PROVE  st.marks \in Nat /\ st.max \in Nat /\ st # Nil /\ Tells(st.ratio, st.marks, st.max)
  <1>0. PICK r \in Results : \E n \in PassRatios(r) : st = [ratio |-> n, marks |-> r.marks, max |-> r.max]
    BY DEF Stored
  <1>1. PICK n \in PassRatios(r) : st = [ratio |-> n, marks |-> r.marks, max |-> r.max]
    BY <1>0
  <1>2. st.ratio = n /\ st.marks = r.marks /\ st.max = r.max BY <1>1
  <1>3. r.marks \in Nat /\ r.max \in Nat /\ n \in Nat \cup {NaN} BY RatioTells
  <1>4. st # Nil
    <2>1. st \in [ratio: Nat \cup {NaN}, marks: Nat, max: Nat] BY <1>1, <1>3
    <2> QED BY <2>1, AbsentAssumption
  <1>5. Tells(n, r.marks, r.max) BY RatioTells
  <1> QED BY <1>2, <1>3, <1>4, <1>5
-----------------------------------------------------------------------------
\* Who is between Lock and Unlock holds the mutex.
Holder ==
    /\ mutex = "refresh" <=> upc \in {"status", "failed", "unlock"}
    /\ \A r \in Readers : mutex = r <=> rpc[r] # "lock"

\* What has been scanned of the statuses that were fetched.
Scanned == [p \in Plugins |-> IF p \in left THEN Nil ELSE allStatus[p]]

\* At every point of the scan the locals say what the part that was scanned says.
ScanInv ==
    /\ upc \in {"idle", "summaries"} => overallStatus = 3 /\ failedTests = NoFailed /\ left = {}
    /\ upc = "scan" =>
          /\ \A p \in left : allStatus[p] # Nil
          /\ Explains(Scanned, overallStatus, failedTests)
    /\ overallStatus = 3 <=> failedTests = NoFailed

Consistent(resp) == resp.status \in {0, 3} <=> resp.failed = NoFailed

\* The response is torn only while the refresh, which then holds the mutex, is between
\* its two assignments; a request that holds it has encoded part of the response there is.
ResponseInv ==
    /\ IF upc = "failed" THEN PingResponse.status = overallStatus ELSE Consistent(PingResponse)
    /\ \A r \in Readers :
          /\ rpc[r] = "failed" => copy[r].status = PingResponse.status
          /\ rpc[r] = "unlock" => Consistent(copy[r])

\* The inductive invariant.
PingInv == PingTypeOK /\ Holder /\ ScanInv /\ ResponseInv
-----------------------------------------------------------------------------
\* A failed ratio is unknown, a failure or a warning; a ratio of 0, and only that, is a
\* failure.
LEMMA LegacyStatus ==
  ASSUME NEW ratio \in Nat, Failed(ratio)
  PROVE  GetLegacyStatus(ratio) \in 0..2 /\ (GetLegacyStatus(ratio) = 1 <=> ratio = 0)
  <1>1. ratio # NaN /\ ratio < Scale /\ Scale \in Nat BY ScaleAssumption DEF Failed
  <1> QED BY <1>1 DEF GetLegacyStatus

\* The zero values and the empty snapshot have their types.
LEMMA Empties == NoStatus \in Snapshots /\ NoResponse \in Responses /\ NoFailed \in [Names -> 0..2 \cup {Nil}]
  <1>1. NoStatus \in Snapshots BY DEF NoStatus, Snapshots
  <1>2. NoFailed \in [Names -> 0..2 \cup {Nil}] /\ NoFailed \in [Names -> 0..3 \cup {Nil}] BY DEF NoFailed
  <1>3. NoResponse \in Responses BY <1>2 DEF NoResponse, Responses
  <1> QED BY <1>1, <1>2, <1>3

\* No test is listed if and only if the list is the empty one.
LEMMA NoneListed ==
  ASSUME NEW f \in [Names -> 0..2 \cup {Nil}]
  PROVE  f = NoFailed <=> {n \in Names : f[n] # Nil} = {}
  BY DEF NoFailed

\* A snapshot without failed runs is explained by status 3 and the empty list.
LEMMA ExplainsNothing ==
  ASSUME NEW st, \A p \in Plugins : st[p] = Nil
  PROVE  Explains(st, 3, NoFailed)
  <1>1. NotNearFull(st) = {} BY DEF LostMarks, NotNearFull
  <1>2. {n \in Names : NoFailed[n] # Nil} = {} BY DEF NoFailed
  <1> QED BY <1>1, <1>2 DEF Explains

\* An explanation lists no test if and only if its status is 3.
LEMMA ExplainsConsistent ==
  ASSUME NEW st, NEW status, NEW f \in [Names -> 0..2 \cup {Nil}], Explains(st, status, f)
  PROVE  status = 3 <=> f = NoFailed
  BY NoneListed DEF Explains
-----------------------------------------------------------------------------
\* The API starts in the invariant.
LEMMA PingInvInit == PingInit => PingInv
  <1> SUFFICES ASSUME PingInit PROVE PingInv OBVIOUS
  <1>1. PingTypeOK
    BY Empties, BoundsAssumption DEF PingInit, PingTypeOK
  <1>2. Holder BY AbsentAssumption DEF PingInit, Holder
  <1>3. ScanInv BY DEF PingInit, ScanInv
  <1>4. ResponseInv BY DEF PingInit, ResponseInv, Consistent, NoResponse
  <1> QED BY <1>1, <1>2, <1>3, <1>4 DEF PingInv

\* A step that leaves the refresh and its locals alone keeps what is known of the scan.
LEMMA SameRefresh == ASSUME ScanInv, UNCHANGED refresh PROVE ScanInv'
  <1>1. Scanned' = Scanned BY DEF Scanned, refresh
  <1> QED BY <1>1 DEF ScanInv, refresh, Explains

\* What happens to the statuses in Redis matters to the refresh only when it fetches them.
LEMMA StoreKeeps == PingInv /\ Store => PingInv'
  <1> SUFFICES ASSUME PingInv, NEW p \in Plugins, UpdateTestRunStatus(p) \/ DeleteTestRunStatus(p)
               PROVE  PingInv'
    BY DEF Store
  <1>1. /\ writes \in 0..MaxWrites /\ writes < MaxWrites /\ writes' = writes + 1
        /\ UNCHANGED <<PingResponse, mutex, refresh, requests>> /\ runStatus \in Snapshots
    BY DEF PingInv, PingTypeOK, UpdateTestRunStatus, DeleteTestRunStatus
  <1>2. runStatus' \in Snapshots
    <2>1. CASE UpdateTestRunStatus(p)
      <3>1. PICK r \in Results : \E n \in PassRatios(r) :
               runStatus' = [runStatus EXCEPT ![p] = [ratio |-> n, marks |-> r.marks, max |-> r.max]]
        BY <2>1 DEF UpdateTestRunStatus
      <3>2. PICK n \in PassRatios(r) :
               runStatus' = [runStatus EXCEPT ![p] = [ratio |-> n, marks |-> r.marks, max |-> r.max]]
        BY <3>1
      <3>3. [ratio |-> n, marks |-> r.marks, max |-> r.max] \in Stored BY DEF Stored
      <3> QED BY <1>1, <3>2, <3>3 DEF Snapshots
    <2>2. CASE DeleteTestRunStatus(p) BY <2>2, <1>1 DEF DeleteTestRunStatus, Snapshots
    <2> QED BY <2>1, <2>2
  <1>3. writes' \in 0..MaxWrites BY <1>1, BoundsAssumption
  <1>4. PingTypeOK' BY <1>1, <1>2, <1>3 DEF PingInv, PingTypeOK, refresh, requests
  <1>5. Holder' /\ ResponseInv'
    BY <1>1 DEF PingInv, Holder, ResponseInv, Consistent, refresh, requests
  <1>6. ScanInv' BY <1>1, SameRefresh DEF PingInv
  <1> QED BY <1>4, <1>5, <1>6 DEF PingInv
-----------------------------------------------------------------------------
(* The refresh *)

\* The return of the refresh keeps the invariant when it does not hold the mutex any more.
LEMMA ReturnKeeps ==
  ASSUME PingInv, ReturnFromUpdate, UNCHANGED <<runStatus, writes, PingResponse, requests>>,
         upc # "failed", mutex' = IF mutex = "refresh" THEN Nil ELSE mutex
  PROVE  PingInv'
  <1>1. /\ upc' = "idle" /\ allStatus' = NoStatus /\ left' = {} /\ overallStatus' = 3 /\ failedTests' = NoFailed
        /\ rpc' = rpc /\ copy' = copy
    BY DEF ReturnFromUpdate, requests
  <1>2. mutex' \in Readers \cup {Nil} BY DEF PingInv, PingTypeOK
  <1>3. PingTypeOK' BY <1>1, <1>2, Empties DEF PingInv, PingTypeOK
  <1>4. Holder'
    <2>1. mutex' # "refresh" BY <1>2, AbsentAssumption
    <2>2. \A r \in Readers : mutex' = r <=> mutex = r BY AbsentAssumption
    <2> QED BY <1>1, <2>1, <2>2 DEF PingInv, Holder
  <1>5. ScanInv' BY <1>1 DEF ScanInv
  <1>6. ResponseInv' BY <1>1 DEF PingInv, ResponseInv, Consistent
  <1> QED BY <1>3, <1>4, <1>5, <1>6 DEF PingInv

\* The two fetches: the scan starts with nothing scanned and nothing said.
LEMMA FetchKeeps == ASSUME PingInv, FetchAllTestRunStatus \/ FetchAllTestConfigSummary PROVE PingInv'
  <1>1. /\ upc' \in {"summaries", "scan"} /\ upc \in {"idle", "summaries"}
        /\ UNCHANGED <<runStatus, writes, PingResponse, mutex, overallStatus, failedTests, requests>>
        /\ allStatus' \in Snapshots /\ left' \subseteq Plugins
    BY DEF PingInv, PingTypeOK, FetchAllTestRunStatus, FetchAllTestConfigSummary
  <1>2. PingTypeOK' BY <1>1 DEF PingInv, PingTypeOK, requests
  <1>3. Holder' BY <1>1 DEF PingInv, Holder, requests
  <1>4. ResponseInv' BY <1>1 DEF PingInv, ResponseInv, Consistent, requests
  <1>5. overallStatus' = 3 /\ failedTests' = NoFailed BY <1>1 DEF PingInv, ScanInv
  <1>6. ScanInv'
    <2>1. CASE FetchAllTestRunStatus
      BY <1>5, <2>1 DEF PingInv, ScanInv, FetchAllTestRunStatus
    <2>2. CASE FetchAllTestConfigSummary
      <3>1. upc' = "scan" /\ left' = {p \in Plugins : allStatus[p] # Nil} /\ allStatus' = allStatus
        BY <2>2 DEF FetchAllTestConfigSummary
      <3>2. \A p \in Plugins : Scanned'[p] = Nil BY <3>1 DEF Scanned
      <3>3. Explains(Scanned', 3, NoFailed) BY <3>2, ExplainsNothing
      <3>4. Explains(Scanned, overallStatus, failedTests)' BY <3>3, <1>5 DEF Explains, LostMarks, NotNearFull, NearNone, NotNearNone
      <3> QED BY <3>1, <3>4, <1>5 DEF ScanInv
    <2> QED BY <2>1, <2>2
  <1> QED BY <1>2, <1>3, <1>4, <1>6 DEF PingInv

\* The overall status after a failed test is never 3: it is 1 if the test's status is, and
\* otherwise what it was or 2.
LEMMA OverallStatus ==
  ASSUME NEW status \in 0..2, overallStatus \in 1..3
  PROVE  /\ Overall(status) \in 1..2
         /\ status = 1 => Overall(status) = 1
         /\ status # 1 => Overall(status) \in {overallStatus, 2}
  BY DEF Overall

\* One more run has been scanned: what was found before is still there, and only that run is
\* new.
LEMMA ScanAdds ==
  ASSUME PingInv, NEW p \in Plugins, Scan(p)
  PROVE  /\ allStatus[p] \in Stored /\ allStatus[p] # Nil
         /\ LostMarks(Scanned) \subseteq LostMarks(Scanned')
         /\ NearNone(Scanned) \subseteq NearNone(Scanned')
         /\ NotNearNone(Scanned) \subseteq NotNearNone(Scanned')
         /\ NotNearFull(Scanned') \subseteq NotNearFull(Scanned) \cup {p}
         /\ Scanned'[p] = allStatus[p]
  <1>1. /\ p \in left /\ left' = left \ {p} /\ left \subseteq Plugins /\ allStatus' = allStatus
        /\ allStatus \in Snapshots /\ allStatus[p] # Nil
    BY DEF PingInv, PingTypeOK, ScanInv, Scan
  <1>2. allStatus[p] \in Stored BY <1>1 DEF Snapshots
  <1>3. \A x \in Plugins : x # p => Scanned'[x] = Scanned[x] BY <1>1 DEF Scanned
  <1>4. Scanned'[p] = allStatus[p] /\ Scanned[p] = Nil BY <1>1 DEF Scanned
  <1>5. LostMarks(Scanned) \subseteq LostMarks(Scanned') BY <1>3, <1>4 DEF LostMarks
  <1>6. NearNone(Scanned) \subseteq NearNone(Scanned') BY <1>3, <1>4, <1>5 DEF NearNone, LostMarks
  <1>7. NotNearNone(Scanned) \subseteq NotNearNone(Scanned') BY <1>3, <1>4, <1>5 DEF NotNearNone, LostMarks
  <1>8. NotNearFull(Scanned') \subseteq NotNearFull(Scanned) \cup {p} BY <1>3 DEF NotNearFull, LostMarks
  <1> QED BY <1>1, <1>2, <1>4, <1>5, <1>6, <1>7, <1>8

\* Scanning a run that has not failed: it did not lose more than half a unit.
LEMMA ScanPassed ==
  ASSUME PingInv, NEW p \in Plugins, Scan(p), ~Failed(allStatus[p].ratio)
  PROVE  Explains(Scanned, overallStatus, failedTests)'
  <1>1. /\ overallStatus' = overallStatus /\ failedTests' = failedTests
        /\ Explains(Scanned, overallStatus, failedTests)
    BY DEF PingInv, ScanInv, Scan
  <1>2. p \notin NotNearFull(Scanned')
    <2>1. Tells(allStatus[p].ratio, allStatus[p].marks, allStatus[p].max) BY ScanAdds, StoredTells
    <2> QED BY <2>1, ScanAdds DEF Tells, NotNearFull, LostMarks
  <1>3. NotNearFull(Scanned') \subseteq NotNearFull(Scanned) BY <1>2, ScanAdds
  <1>4. Explains(Scanned', overallStatus', failedTests') BY <1>1, <1>3, ScanAdds DEF Explains
  <1> QED BY <1>4 DEF Explains, LostMarks, NotNearFull, NearNone, NotNearNone

\* Scanning a failed one lists its test, and the status is explained by it or as before.
LEMMA ScanFailed ==
  ASSUME PingInv, NEW p \in Plugins, Scan(p), Failed(allStatus[p].ratio)
  PROVE  /\ Explains(Scanned, overallStatus, failedTests)'
         /\ overallStatus' \in 1..3 /\ failedTests' \in [Names -> 0..2 \cup {Nil}]
  <1> DEFINE legacy == GetLegacyStatus(allStatus[p].ratio)
  <1> DEFINE listed == {n \in Names : failedTests[n] # Nil}
  <1>1. /\ overallStatus \in 1..3 /\ overallStatus' = Overall(legacy)
        /\ failedTests' = [failedTests EXCEPT ![NameOf[p]] = IF @ = Nil THEN legacy ELSE @]
        /\ failedTests \in [Names -> 0..2 \cup {Nil}] /\ NameOf[p] \in Names
        /\ Explains(Scanned, overallStatus, failedTests)
    BY DEF PingInv, PingTypeOK, ScanInv, Scan, Names
  <1>2. Tells(allStatus[p].ratio, allStatus[p].marks, allStatus[p].max) BY ScanAdds, StoredTells
  <1>3. p \in LostMarks(Scanned') BY <1>2, ScanAdds DEF Tells, LostMarks
  <1>4. legacy \in 0..2 /\ (legacy = 1 <=> allStatus[p].ratio = 0) BY <1>2, LegacyStatus DEF Tells
  <1>5. legacy = 1 => p \in NearNone(Scanned') BY <1>2, <1>3, <1>4, ScanAdds DEF Tells, NearNone
  <1>6. legacy # 1 => p \in NotNearNone(Scanned') BY <1>2, <1>3, <1>4, ScanAdds DEF Tells, NotNearNone
  <1> HIDE DEF legacy
  <1>7. /\ overallStatus' \in 1..2 /\ (legacy = 1 => overallStatus' = 1)
        /\ legacy # 1 => overallStatus' \in {overallStatus, 2}
    BY <1>1, <1>4, OverallStatus
  <1>8. failedTests' \in [Names -> 0..2 \cup {Nil}]
    <2>1. failedTests'[NameOf[p]] \in 0..2 \cup {Nil} BY <1>1, <1>4
    <2> QED BY <2>1, <1>1
  <1>9. listed' = listed \cup {NameOf[p]}
    <2>1. legacy # Nil BY <1>4, AbsentAssumption
    <2> QED BY <2>1, <1>1
  <1>10. {NameOf[x] : x \in NotNearFull(Scanned')} \subseteq listed'
    <2>1. {NameOf[x] : x \in NotNearFull(Scanned)} \subseteq listed BY <1>1 DEF Explains
    <2> QED BY <2>1, <1>9, ScanAdds
  <1>11. listed' \subseteq {NameOf[x] : x \in LostMarks(Scanned')}
    <2>1. listed \subseteq {NameOf[x] : x \in LostMarks(Scanned)} BY <1>1 DEF Explains
    <2> QED BY <2>1, <1>3, <1>9, ScanAdds
  <1>12. overallStatus' # 3 /\ listed' # {} BY <1>7, <1>9
  <1>13. overallStatus' = 1 => NearNone(Scanned') # {}
    <2>1. CASE legacy = 1 BY <2>1, <1>5
    <2>2. CASE legacy # 1 BY <2>2, <1>1, <1>7, ScanAdds DEF Explains
    <2> QED BY <2>1, <2>2
  <1>14. overallStatus' = 2 => NotNearNone(Scanned') # {} BY <1>6, <1>7
  <1>15. Explains(Scanned', overallStatus', failedTests')
    BY <1>10, <1>11, <1>12, <1>13, <1>14 DEF Explains
  <1>16. Explains(Scanned, overallStatus, failedTests)'
    BY <1>15 DEF Explains, LostMarks, NotNearFull, NearNone, NotNearNone
  <1> QED BY <1>7, <1>8, <1>16

\* A step of the scan, of either kind.
LEMMA ScanKeeps == ASSUME PingInv, NEW p \in Plugins, Scan(p) PROVE PingInv'
  <1>1. /\ upc = "scan" /\ left' = left \ {p} /\ left \subseteq Plugins
        /\ UNCHANGED <<runStatus, writes, PingResponse, mutex, upc, allStatus, requests>>
    BY DEF Scan, PingInv, PingTypeOK
  <1>2. /\ Explains(Scanned, overallStatus, failedTests)'
        /\ overallStatus' \in 1..3 /\ failedTests' \in [Names -> 0..2 \cup {Nil}]
    <2>1. CASE Failed(allStatus[p].ratio) BY <2>1, ScanFailed
    <2>2. CASE ~Failed(allStatus[p].ratio)
      <3>1. overallStatus' = overallStatus /\ failedTests' = failedTests BY <2>2 DEF Scan
      <3> QED BY <2>2, <3>1, ScanPassed DEF PingInv, PingTypeOK
    <2> QED BY <2>1, <2>2
  <1>3. PingTypeOK' BY <1>1, <1>2 DEF PingInv, PingTypeOK, requests
  <1>4. Holder' BY <1>1 DEF PingInv, Holder, requests
  <1>5. ResponseInv' BY <1>1 DEF PingInv, ResponseInv, Consistent, requests
  <1>6. ScanInv'
    <2>1. Explains(Scanned', overallStatus', failedTests')
      BY <1>2 DEF Explains, LostMarks, NotNearFull, NearNone, NotNearNone
    <2>2. overallStatus' = 3 <=> failedTests' = NoFailed BY <1>2, <2>1, ExplainsConsistent
    <2>3. \A q \in left' : allStatus'[q] # Nil BY <1>1 DEF PingInv, ScanInv
    <2> QED BY <1>1, <1>2, <2>2, <2>3 DEF ScanInv
  <1> QED BY <1>3, <1>4, <1>5, <1>6 DEF PingInv

\* The refresh takes the mutex.
LEMMA LockResponseKeeps == ASSUME PingInv, LockResponse PROVE PingInv'
  <1>1. /\ upc = "scan" /\ mutex = Nil /\ upc' = "status" /\ mutex' = "refresh"
        /\ UNCHANGED <<runStatus, writes, PingResponse, allStatus, left, overallStatus, failedTests, requests>>
    BY DEF LockResponse
  <1>2. PingTypeOK' BY <1>1 DEF PingInv, PingTypeOK, requests
  <1>3. Holder' BY <1>1, AbsentAssumption DEF PingInv, Holder, requests
  <1>4. ScanInv' BY <1>1 DEF PingInv, ScanInv
  <1>5. ResponseInv' BY <1>1 DEF PingInv, ResponseInv, Consistent, requests
  <1> QED BY <1>2, <1>3, <1>4, <1>5 DEF PingInv

\* While the refresh assigns, no request is between its lock and its unlock.
LEMMA NobodyReads ==
  ASSUME Holder, upc \in {"status", "failed", "unlock"}
  PROVE  \A r \in Readers : rpc[r] = "lock"
  BY AbsentAssumption DEF Holder

\* The two assignments: after the first the response has the new status, after the
\* second also the tests that go with it.
LEMMA AssignKeeps == ASSUME PingInv, SetStatus \/ SetFailed PROVE PingInv'
  <1>1. /\ upc \in {"status", "failed"} /\ upc' \in {"failed", "unlock"}
        /\ UNCHANGED <<runStatus, writes, mutex, allStatus, left, overallStatus, failedTests, requests>>
    BY DEF SetStatus, SetFailed
  <1>2. PingResponse' \in Responses
    <2>1. PingResponse \in Responses /\ overallStatus \in 0..3 /\ failedTests \in [Names -> 0..3 \cup {Nil}]
      BY DEF PingInv, PingTypeOK
    <2>2. CASE SetStatus BY <2>1, <2>2 DEF SetStatus, Responses
    <2>3. CASE SetFailed BY <2>1, <2>3 DEF SetFailed, Responses
    <2> QED BY <2>2, <2>3
  <1>3. PingTypeOK' BY <1>1, <1>2 DEF PingInv, PingTypeOK, requests
  <1>4. Holder' BY <1>1 DEF PingInv, Holder, requests
  <1>5. ScanInv' BY <1>1 DEF PingInv, ScanInv
  <1>6. \A r \in Readers : rpc[r] = "lock" BY <1>1, NobodyReads DEF PingInv
  <1>7. IF upc' = "failed" THEN PingResponse'.status = overallStatus' ELSE Consistent(PingResponse)'
    <2>1. PingResponse \in Responses /\ overallStatus \in 1..3 BY DEF PingInv, PingTypeOK
    <2>2. CASE SetStatus BY <2>1, <2>2, <1>1 DEF SetStatus, Responses
    <2>3. CASE SetFailed
      <3>1. upc' = "unlock" /\ PingResponse'.status = overallStatus /\ PingResponse'.failed = failedTests
        BY <2>1, <2>3 DEF SetFailed, Responses, PingInv, ResponseInv
      <3> QED BY <3>1, <2>1 DEF Consistent, PingInv, ScanInv
    <2> QED BY <2>2, <2>3
  <1>8. ResponseInv' BY <1>1, <1>6, <1>7 DEF ResponseInv, requests
  <1> QED BY <1>3, <1>4, <1>5, <1>8 DEF PingInv

\* Every step of the refresh keeps the invariant.
LEMMA UpdateKeeps == ASSUME PingInv, UpdatePingResponse PROVE PingInv'
  <1>1. CASE FetchAllTestRunStatus \/ FetchAllTestConfigSummary BY <1>1, FetchKeeps
  <1>2. CASE FetchFails
    <2>1. upc = "summaries" /\ ReturnFromUpdate /\ UNCHANGED <<runStatus, writes, PingResponse, mutex, requests>>
      BY <1>2 DEF FetchFails
    <2>2. mutex # "refresh" BY <2>1 DEF PingInv, Holder
    <2> QED BY <2>1, <2>2, ReturnKeeps
  <1>3. CASE \E p \in Plugins : Scan(p) BY <1>3, ScanKeeps
  <1>4. CASE LockResponse BY <1>4, LockResponseKeeps
  <1>5. CASE SetStatus \/ SetFailed BY <1>5, AssignKeeps
  <1>6. CASE UnlockResponse
    <2>1. upc = "unlock" /\ mutex' = Nil /\ ReturnFromUpdate /\ UNCHANGED <<runStatus, writes, PingResponse, requests>>
      BY <1>6 DEF UnlockResponse
    <2>2. mutex = "refresh" BY <2>1 DEF PingInv, Holder
    <2> QED BY <2>1, <2>2, ReturnKeeps
  <1> QED BY <1>1, <1>2, <1>3, <1>4, <1>5, <1>6 DEF UpdatePingResponse
-----------------------------------------------------------------------------
(* The requests *)

\* What a step of a request leaves alone, and what it may change.
LEMMA RequestKeeps ==
  ASSUME PingInv, NEW r \in Readers, UNCHANGED <<runStatus, writes, PingResponse, refresh>>,
         rpc' \in [Readers -> {"lock", "status", "failed", "unlock"}], copy' \in [Readers -> Responses],
         mutex' \in Readers \cup {Nil}, mutex # "refresh",
         \A q \in Readers : q # r => rpc'[q] = "lock" /\ mutex' # q,
         mutex' = r <=> rpc'[r] # "lock",
         rpc'[r] = "failed" => copy'[r].status = PingResponse.status,
         rpc'[r] = "unlock" => Consistent(copy'[r])
  PROVE  PingInv'
  <1>1. PingTypeOK' BY DEF PingInv, PingTypeOK, refresh
  <1>2. mutex' # "refresh" BY AbsentAssumption
  <1>3. Holder'
    <2>1. \A q \in Readers : mutex' = q <=> rpc'[q] # "lock" OBVIOUS
    <2> QED BY <1>2, <2>1 DEF PingInv, Holder, refresh
  <1>4. ScanInv' BY SameRefresh DEF PingInv
  <1>5. \A q \in Readers : /\ rpc'[q] = "failed" => copy'[q].status = PingResponse'.status
                           /\ rpc'[q] = "unlock" => Consistent(copy'[q])
    OBVIOUS
  <1>6. ResponseInv' BY <1>5 DEF PingInv, ResponseInv, Consistent, refresh
  <1> QED BY <1>1, <1>3, <1>4, <1>6 DEF PingInv

\* A step of a request: it holds the mutex from its lock to its unlock, so that no other
\* request and no refresh is in between.
LEMMA GetPingKeeps == ASSUME PingInv, NEW r \in Readers, GetPing(r) PROVE PingInv'
  <1>1. /\ rpc \in [Readers -> {"lock", "status", "failed", "unlock"}] /\ copy \in [Readers -> Responses]
        /\ PingResponse \in Responses /\ copy[r] \in Responses
        /\ UNCHANGED <<runStatus, writes, PingResponse, refresh>>
    BY DEF PingInv, PingTypeOK, GetPing, Encode, LockPing, EncodeStatus, EncodeFailed, UnlockPing
  <1>2. mutex = r \/ mutex = Nil
    BY DEF PingInv, Holder, GetPing, Encode, LockPing, EncodeStatus, EncodeFailed, UnlockPing
  <1>3. mutex # "refresh" /\ r # Nil /\ r # "refresh" /\ Nil \notin Readers BY <1>2, AbsentAssumption
  <1>4. \A q \in Readers : q # r => mutex # q /\ rpc[q] = "lock"
    BY <1>2, <1>3 DEF PingInv, Holder
  <1>5. CASE LockPing(r)
    <2>1. mutex' = r /\ rpc' = [rpc EXCEPT ![r] = "status"] /\ copy' = copy BY <1>5 DEF LockPing
    <2> QED BY <1>1, <1>3, <1>4, <2>1, RequestKeeps
  <1>6. CASE EncodeStatus(r)
    <2>1. /\ rpc[r] = "status" /\ mutex' = mutex /\ rpc' = [rpc EXCEPT ![r] = "failed"]
          /\ copy' = [copy EXCEPT ![r].status = PingResponse.status]
      BY <1>6 DEF EncodeStatus
    <2>2. mutex = r BY <2>1 DEF PingInv, Holder
    <2>3. copy' \in [Readers -> Responses] /\ copy'[r].status = PingResponse.status
      BY <1>1, <2>1 DEF Responses
    <2> QED BY <1>1, <1>3, <1>4, <2>1, <2>2, <2>3, RequestKeeps
  <1>7. CASE EncodeFailed(r)
    <2>1. /\ rpc[r] = "failed" /\ mutex' = mutex /\ rpc' = [rpc EXCEPT ![r] = "unlock"]
          /\ copy' = [copy EXCEPT ![r].failed = PingResponse.failed]
      BY <1>7 DEF EncodeFailed
    <2>2. mutex = r /\ copy[r].status = PingResponse.status BY <2>1 DEF PingInv, Holder, ResponseInv
    <2>3. copy' \in [Readers -> Responses] /\ copy'[r].status = PingResponse.status
          /\ copy'[r].failed = PingResponse.failed
      BY <1>1, <2>1, <2>2 DEF Responses
    <2>4. Consistent(PingResponse)
      BY <1>3 DEF PingInv, Holder, ResponseInv
    <2>5. Consistent(copy'[r]) BY <2>3, <2>4 DEF Consistent
    <2> QED BY <1>1, <1>3, <1>4, <2>1, <2>2, <2>3, <2>5, RequestKeeps
  <1>8. CASE UnlockPing(r)
    <2>1. mutex' = Nil /\ rpc' = [rpc EXCEPT ![r] = "lock"] /\ copy' = [copy EXCEPT ![r] = NoResponse]
      BY <1>8 DEF UnlockPing
    <2>2. copy' \in [Readers -> Responses] BY <1>1, <2>1, Empties
    <2> QED BY <1>1, <1>3, <1>4, <2>1, <2>2, RequestKeeps
  <1> QED BY <1>5, <1>6, <1>7, <1>8 DEF GetPing, Encode
-----------------------------------------------------------------------------
\* The invariant is one.
THEOREM PingInvariant == PingSpec => []PingInv
  <1>1. ASSUME PingInv, [PingNext]_pingVars PROVE PingInv'
    <2>1. CASE Store BY <1>1, <2>1, StoreKeeps
    <2>2. CASE UpdatePingResponse BY <1>1, <2>2, UpdateKeeps
    <2>3. CASE \E r \in Readers : GetPing(r) BY <1>1, <2>3, GetPingKeeps
    <2>4. CASE UNCHANGED pingVars
      <3>1. ScanInv' BY <1>1, <2>4, SameRefresh DEF PingInv, pingVars
      <3> QED BY <1>1, <2>4, <3>1 DEF PingInv, PingTypeOK, Holder, ResponseInv, Consistent, pingVars, refresh, requests
    <2> QED BY <1>1, <2>1, <2>2, <2>3, <2>4 DEF PingNext
  <1> QED BY <1>1, PingInvInit, PTL DEF PingSpec

\* The variables keep their types, for any agents, plugins, results and requests.
THEOREM PingTypeCorrect == PingSpec => []PingTypeOK
  BY PingInvariant, PTL DEF PingInv

\* What UpdatePingResponse is about to publish is what the statuses it fetched say, for
\* any plugins with any results, in every order of the scan, but for what rounding hides.
THEOREM RefreshAlwaysExplained == PingSpec => []RefreshExplained
  <1>1. PingInv => RefreshExplained
    <2> SUFFICES ASSUME PingInv, upc = "scan", left = {}
                 PROVE  Explains(allStatus, overallStatus, failedTests)
      BY DEF RefreshExplained
    <2>1. Scanned = allStatus BY DEF PingInv, PingTypeOK, Snapshots, Scanned
    <2> QED BY <2>1 DEF PingInv, ScanInv
  <1> QED BY <1>1, PingInvariant, PTL

\* GetPing never returns one refresh's status with another's failed tests, however many
\* requests there are.
THEOREM PingNeverTorn == PingSpec => []PingNotTorn
  <1>1. PingInv => PingNotTorn BY DEF PingInv, ResponseInv, Consistent, PingNotTorn
  <1> QED BY <1>1, PingInvariant, PTL
=============================================================================
