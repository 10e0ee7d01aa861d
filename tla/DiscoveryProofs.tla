--------------------------- MODULE DiscoveryProofs ---------------------------
(***************************************************************************)
(* Theorems about Discovery, for any number of targets, workers and        *)
(* faults, and about Schedules, for any number of rows, edits and sweeps.  *)
(***************************************************************************)
EXTENDS MCDiscovery, FiniteSetTheorems, TLAPS

\* Sets of targets, counted.
LEMMA Targeting ==
  ASSUME NEW S \in SUBSET Targets
  PROVE  /\ IsFiniteSet(S) /\ Cardinality(S) \in 0 .. Total
         /\ Cardinality(S) >= Total => S = Targets
         /\ \A t \in Targets \ S : Cardinality(S \cup {t}) = Cardinality(S) + 1
<1>1. IsFiniteSet(Targets) /\ Cardinality(Targets) = Total
  <2>1. Total \in Nat \ {0} /\ 1 \in Int /\ Total \in Int
    BY DiscoveryAssumption
  <2>2. IsFiniteSet(1 .. Total) /\ Cardinality(1 .. Total) = IF 1 > Total THEN 0 ELSE Total - 1 + 1
    BY <2>1, FS_Interval, Zenon
  <2>. QED
    BY <2>1, <2>2 DEF Targets
<1>2. IsFiniteSet(S) /\ Cardinality(S) <= Cardinality(Targets)
      /\ (Cardinality(S) = Cardinality(Targets) => S = Targets)
  BY <1>1, FS_Subset
<1>3. Cardinality(S) \in Nat
  BY <1>2, FS_CardinalityType
<1>4. \A t \in Targets \ S : Cardinality(S \cup {t}) = Cardinality(S) + 1
  BY <1>2, FS_AddElement
<1>. QED
  BY <1>1, <1>2, <1>3, <1>4, DiscoveryAssumption

-----------------------------------------------------------------------------
(* The inductive invariant.                                                   *)

Busy(w) == worker[w].at \in {"probe", "lock", "store", "count"}

\* Whoever handles a result holds the mutex.
Exclusive == \A w \in Workers : worker[w].at \in {"store", "count"} => mutex = w

\* The workers have different targets, all of them fed, and store each once.
Assigned ==
  /\ \A w \in Workers : Busy(w) => worker[w].target < feed
  /\ \A w, x \in Workers : Busy(w) /\ Busy(x) /\ w # x => worker[w].target # worker[x].target
  /\ \A w \in Workers : Busy(w) => (worker[w].target \in stored <=> worker[w].at = "count")
  /\ \A t \in stored : t < feed

\* What is stored is counted, but for the result that is just being counted, and those whose
\* count was lost to a panic.
Uncounted == IF \E w \in Workers : worker[w].at = "count" THEN 1 ELSE 0

Counted ==
  /\ \A w \in Workers : worker[w].at = "count" => worker[w].read = scanned
  /\ scanned + Uncounted <= Cardinality(stored)
  /\ ~ wedged => scanned + Uncounted = Cardinality(stored)

\* Nothing that was fed gets lost, and everything is fed, unless the scan is canceled.
Accounted ==
  ~ canceled =>
    /\ \A t \in Targets : t < feed => t \in stored \/ t \in dropped \/ \E w \in Workers : Busy(w) /\ worker[w].target = t
    /\ closed => feed = Total + 1
    /\ \A w \in Workers : worker[w].at = "done" => closed

\* How far run has come, and what the row says of it.
Progress ==
  /\ main = "none" => stored = {}
  /\ status = "none" <=> main = "none"
  /\ main \in {"start", "probe", "finish"} => status \in Unfinished
  /\ main \in {"finish", "audit"} => \A w \in Workers : worker[w].at = "done"
  /\ ~ up => main \in {"none", "ended"}
  /\ up /\ main \in {"audit", "ended"} /\ status \in Unfinished => unwritten

DiscoveryInv ==
  /\ DiscoveryTypeOK
  /\ main # "ended" => Exclusive /\ Assigned /\ Counted /\ Accounted
  /\ Progress
  /\ SummaryMatchesResults
  /\ NoTargetLost

LEMMA InvImplies == DiscoveryInv => OrphansExplained
BY DEF DiscoveryInv, Progress, OrphansExplained

LEMMA NoneStored ==
  ASSUME stored = {}, scanned = 0, feed = 1, closed = FALSE, \A w \in Workers : worker[w].at = "take"
  PROVE  Exclusive /\ Assigned /\ Counted /\ Accounted
<1>1. Cardinality(stored) = 0
  BY FS_EmptySet
<1>2. Uncounted = 0
  BY DEF Uncounted
<1>3. Exclusive /\ Assigned
  BY DEF Exclusive, Assigned, Busy
<1>4. Counted
  BY <1>1, <1>2 DEF Counted
<1>5. Accounted
  BY DEF Accounted, Targets
<1>. QED
  BY <1>3, <1>4, <1>5

Worker == [at: {"take", "probe", "lock", "store", "count", "done"}, target: Targets, read: 0 .. Total]

LEMMA InitInv == DiscoveryInit => DiscoveryInv
<1> SUFFICES ASSUME DiscoveryInit PROVE DiscoveryInv
  OBVIOUS
<1>1. Idle("take") \in Worker
  BY DiscoveryAssumption DEF Idle, Worker, Targets
<1>2. DiscoveryTypeOK
  <2>1. worker \in [Workers -> Worker]
    BY <1>1 DEF DiscoveryInit
  <2>2. feed \in 1 .. Total + 1 /\ scanned \in 0 .. Total /\ count \in 0 .. Total /\ faults \in 0 .. MaxFaults
    BY DiscoveryAssumption DEF DiscoveryInit
  <2>3. up \in BOOLEAN /\ canceled \in BOOLEAN /\ closed \in BOOLEAN /\ wedged \in BOOLEAN /\ unwritten \in BOOLEAN
    BY Zenon DEF DiscoveryInit
  <2>4. status = "none" /\ main = "none" /\ stored = {} /\ dropped = {} /\ mutex = Free
    BY DEF DiscoveryInit
  <2>. QED
    BY <2>1, <2>2, <2>3, <2>4 DEF DiscoveryTypeOK, Worker
<1>3. Exclusive /\ Assigned /\ Counted /\ Accounted
  BY NoneStored DEF DiscoveryInit, Idle
<1>4. Progress /\ SummaryMatchesResults /\ NoTargetLost
  BY DEF DiscoveryInit, Progress, SummaryMatchesResults, NoTargetLost, Unfinished, Finished
<1>. QED
  BY <1>2, <1>3, <1>4 DEF DiscoveryInv

-----------------------------------------------------------------------------
(* Steps of the pool.                                                         *)

\* Such a step keeps the invariant if it keeps the parts about the pool.
LEMMA PoolStep ==
  ASSUME DiscoveryInv, ProbeSteps, Exclusive', Assigned', Counted', Accounted',
         worker' \in [Workers -> Worker], stored' \in SUBSET Targets, feed' \in 1 .. Total + 1, closed' \in BOOLEAN,
         mutex' \in Workers \cup {Free}, Fault \/ faults' = faults, dropped' \in SUBSET Targets, wedged' \in BOOLEAN,
         scanned' \in Nat
  PROVE  DiscoveryInv'
<1>1. Cardinality(stored') \in 0 .. Total
  BY Targeting
<1>2. Uncounted' \in {0, 1}
  BY DEF Uncounted
<1>3. scanned' \in 0 .. Total
  BY <1>1, <1>2, DiscoveryAssumption DEF Counted
<1>4. faults' \in 0 .. MaxFaults
  BY DiscoveryAssumption DEF Fault, DiscoveryInv, DiscoveryTypeOK
<1>5. status \in Unfinished /\ status' = status /\ main = "probe" /\ main' = "probe" /\ up' = up
  BY DEF ProbeSteps, DiscoveryInv, Progress
<1>6. DiscoveryTypeOK'
  <2>1. /\ status' \in {"none"} \cup Unfinished \cup Finished /\ count' \in 0 .. Total
        /\ main' \in {"none", "start", "probe", "finish", "audit", "ended"}
    BY DEF ProbeSteps, DiscoveryInv, DiscoveryTypeOK
  <2>2. up' \in BOOLEAN /\ canceled' \in BOOLEAN /\ unwritten' \in BOOLEAN
    BY Zenon DEF ProbeSteps, DiscoveryInv, DiscoveryTypeOK
  <2>. QED
    BY <1>3, <1>4, <2>1, <2>2 DEF DiscoveryTypeOK, Worker, Targets
<1>7. Progress' /\ SummaryMatchesResults' /\ NoTargetLost'
  BY <1>5 DEF DiscoveryInv, Progress, SummaryMatchesResults, NoTargetLost, Unfinished, Finished
<1>. QED
  BY <1>6, <1>7 DEF DiscoveryInv

\* What the invariant says while probing.
LEMMA Probing ==
  ASSUME DiscoveryInv, ProbeSteps
  PROVE  /\ Exclusive /\ Assigned /\ Counted /\ Accounted
         /\ worker \in [Workers -> Worker] /\ stored \in SUBSET Targets /\ dropped \in SUBSET Targets
         /\ feed \in 1 .. Total + 1 /\ closed \in BOOLEAN /\ wedged \in BOOLEAN
         /\ mutex \in Workers \cup {Free} /\ scanned \in 0 .. Total /\ canceled' = canceled
<1>1. Exclusive /\ Assigned /\ Counted /\ Accounted
  BY DEF DiscoveryInv, ProbeSteps
<1>2. closed \in BOOLEAN /\ wedged \in BOOLEAN
  BY Zenon DEF DiscoveryInv, DiscoveryTypeOK
<1>. QED
  BY <1>1, <1>2 DEF DiscoveryInv, DiscoveryTypeOK, ProbeSteps, Worker

LEMMA StopFeedingInv ==
  ASSUME DiscoveryInv, StopFeeding PROVE DiscoveryInv'
<1>1. /\ ProbeSteps /\ closed' = TRUE /\ (canceled \/ feed > Total)
      /\ UNCHANGED <<stored, feed, worker, mutex, scanned, faults, dropped, wedged>>
  BY DEF StopFeeding
<1>2. Exclusive' /\ Assigned' /\ Counted'
  BY <1>1, Probing DEF Exclusive, Assigned, Busy, Counted, Uncounted
<1>3. Accounted'
  <2> SUFFICES ASSUME ~ canceled PROVE Accounted'
    BY <1>1, Probing DEF Accounted
  <2>1. feed = Total + 1
    BY <1>1, Probing, DiscoveryAssumption
  <2>. QED
    BY <1>1, <2>1, Probing DEF Accounted, Busy
<1>. QED
  BY <1>1, <1>2, <1>3, Probing, PoolStep

\* A worker moves on with its target, without touching results.
LEMMA MoveInv ==
  ASSUME DiscoveryInv, NEW w \in Workers, NoMoreTargets(w) \/ Probe(w) \/ Lock(w) PROVE DiscoveryInv'
<1>1. PICK stage \in {"done", "lock", "store"} : worker' = [worker EXCEPT ![w].at = stage]
  BY DEF NoMoreTargets, Probe, Lock, Put
<1>2. /\ ProbeSteps /\ UNCHANGED <<stored, feed, closed, scanned, faults, dropped, wedged>>
      /\ mutex' = mutex \/ (mutex = Free /\ mutex' = w)
      /\ stage = "store" => mutex' = w
      /\ IF stage = "done" THEN worker[w].at = "take" /\ closed ELSE worker[w].at \in {"probe", "lock"}
  BY <1>1, Probing DEF NoMoreTargets, Probe, Lock, Put, Worker
<1>3. /\ worker' \in [Workers -> Worker] /\ worker'[w].at = stage /\ worker'[w].target = worker[w].target
      /\ \A x \in Workers : x # w => worker'[x] = worker[x]
  BY <1>1, <1>2, Probing DEF Worker
<1>4. \A x \in Workers : /\ worker'[x].target = worker[x].target
                         /\ Busy(x)' <=> Busy(x)
                         /\ worker'[x].at = "count" <=> worker[x].at = "count"
  BY <1>2, <1>3 DEF Busy
<1>5. Exclusive'
  BY <1>2, <1>3, Probing, DiscoveryAssumption DEF Exclusive
<1>6. Assigned'
  BY <1>2, <1>4, Probing DEF Assigned
<1>7. Counted'
  <2>1. Uncounted' = Uncounted
    BY <1>4 DEF Uncounted
  <2>2. \A x \in Workers : worker'[x].at = "count" => worker'[x] = worker[x]
    BY <1>2, <1>3
  <2>. QED
    BY <1>2, <2>1, <2>2, Probing DEF Counted
<1>8. Accounted'
  <2>1. \A x \in Workers : worker'[x].at = "done" => worker[x].at = "done" \/ closed
    BY <1>2, <1>3
  <2>. QED
    BY <1>2, <1>4, <2>1, Probing DEF Accounted
<1>. QED
  BY <1>2, <1>3, <1>5, <1>6, <1>7, <1>8, Probing, PoolStep

LEMMA FeedInv ==
  ASSUME DiscoveryInv, NEW w \in Workers, Feed(w) PROVE DiscoveryInv'
<1> DEFINE stage == IF canceled THEN "done" ELSE "probe"
           r == [worker[w] EXCEPT !.at = stage, !.target = feed]
<1>1. /\ ProbeSteps /\ UNCHANGED <<stored, closed, mutex, scanned, faults, dropped, wedged>>
      /\ ~ closed /\ feed' = feed + 1 /\ feed \in Targets /\ feed' \in 1 .. Total + 1 /\ worker[w].at = "take"
      /\ worker' = [worker EXCEPT ![w] = r]
  BY Probing, DiscoveryAssumption DEF Feed, Targets
<1>2. worker[w] \in Worker
  BY <1>1, Probing
<1>3. r \in Worker /\ r.at = stage /\ r.target = feed
  BY <1>1, <1>2 DEF Worker
<1>4. /\ worker' \in [Workers -> Worker] /\ worker'[w].at = stage /\ worker'[w].target = feed
      /\ \A x \in Workers : x # w => worker'[x] = worker[x]
  <2> HIDE DEF r
  <2>. QED
    BY <1>1, <1>3, Probing
<1>5. \A x \in Workers : /\ worker'[x].at = "count" <=> worker[x].at = "count"
                         /\ worker'[x].at \in {"store", "count"} => worker'[x] = worker[x]
                         /\ x # w => (Busy(x)' <=> Busy(x))
  BY <1>1, <1>4 DEF Busy
<1>6. Exclusive'
  BY <1>1, <1>5, Probing DEF Exclusive
<1>7. Assigned'
  <2>1. feed \notin stored /\ \A t \in stored : t < feed'
    BY <1>1, Probing, DiscoveryAssumption DEF Assigned, Targets
  <2>2. ASSUME NEW x \in Workers, x # w, Busy(x)'
        PROVE  Busy(x) /\ worker'[x].target = worker[x].target /\ worker'[x].at = worker[x].at /\ worker'[x].target < feed
    <3>1. Busy(x) /\ worker'[x] = worker[x]
      BY <2>2, <1>4, <1>5
    <3>. QED
      BY <3>1, <1>1, Probing DEF Assigned
  <2>3. \A x \in Workers : Busy(x)' => worker'[x].target < feed' /\ (worker'[x].target \in stored <=> worker'[x].at = "count")
    <3>1. \A x \in Workers : worker'[x].target \in Int
      BY <1>4 DEF Worker, Targets
    <3>2. feed \in Int /\ feed < feed'
      BY <1>1, Probing DEF Targets
    <3>. QED
      BY <1>1, <1>4, <2>1, <2>2, <3>1, <3>2, Probing DEF Assigned
  <2>4. \A x, y \in Workers : Busy(x)' /\ Busy(y)' /\ x # y => worker'[x].target # worker'[y].target
    <3>1. \A x \in Workers : x # w /\ Busy(x)' => worker'[x].target # feed
      BY <1>1, <2>2, Probing DEF Worker, Targets
    <3>2. \A x, y \in Workers \ {w} : Busy(x)' /\ Busy(y)' /\ x # y => worker'[x].target # worker'[y].target
      BY <1>1, <2>2, Probing DEF Assigned
    <3>. QED
      BY <1>4, <3>1, <3>2
  <2>. QED
    BY <1>1, <2>1, <2>3, <2>4 DEF Assigned
<1>8. Counted'
  <2>1. Uncounted' = Uncounted
    BY <1>5 DEF Uncounted
  <2>. QED
    BY <1>1, <1>5, <2>1, Probing DEF Counted
<1>9. Accounted'
  <2> SUFFICES ASSUME ~ canceled PROVE Accounted'
    BY <1>1, Probing DEF Accounted
  <2>1. Busy(w)' /\ worker'[w].target = feed
    BY <1>4 DEF Busy
  <2>2. ASSUME NEW t \in Targets, t < feed'
        PROVE  t \in stored \/ t \in dropped \/ \E x \in Workers : Busy(x)' /\ worker'[x].target = t
    <3>1. CASE t = feed
      BY <2>1, <3>1
    <3>2. CASE t # feed
      <4>1. t < feed
        BY <1>1, <2>2, <3>2, Probing DEF Targets
      <4>2. ASSUME NEW x \in Workers, Busy(x) PROVE Busy(x)' /\ worker'[x] = worker[x]
        BY <1>1, <1>4, <1>5, <4>2 DEF Busy
      <4>3. t \in stored \/ t \in dropped \/ \E x \in Workers : Busy(x) /\ worker[x].target = t
        BY <4>1, <1>1, Probing DEF Accounted
      <4>. QED
        BY <4>2, <4>3
    <3>. QED
      BY <3>1, <3>2
  <2>3. \A x \in Workers : worker'[x].at # "done"
    BY <1>1, <1>4, Probing DEF Accounted
  <2>. QED
    BY <1>1, <2>2, <2>3, Probing DEF Accounted
<1>. QED
  BY <1>1, <1>4, <1>6, <1>7, <1>8, <1>9, Probing, PoolStep

LEMMA AddResultInv ==
  ASSUME DiscoveryInv, NEW w \in Workers, AddResult(w) PROVE DiscoveryInv'
<1> DEFINE t == worker[w].target
           r == [worker[w] EXCEPT !.at = "count", !.read = scanned]
<1>1. /\ ProbeSteps /\ UNCHANGED <<feed, closed, mutex, scanned, faults, dropped, wedged>>
      /\ worker[w].at = "store" /\ worker[w] \in Worker /\ t \in Targets /\ t \notin stored /\ t < feed /\ Busy(w)
      /\ stored' = stored \cup {t} /\ worker' = [worker EXCEPT ![w] = r]
  BY Probing DEF AddResult, Assigned, Busy, Worker
<1>2. r \in Worker /\ r.at = "count" /\ r.target = t /\ r.read = scanned
  BY <1>1, Probing DEF Worker
<1>3. /\ worker' \in [Workers -> Worker] /\ worker'[w].at = "count" /\ worker'[w].target = t /\ worker'[w].read = scanned
      /\ \A x \in Workers : x # w => worker'[x] = worker[x]
  <2> HIDE DEF r, t
  <2>. QED
    BY <1>1, <1>2, Probing
<1>4. \A x \in Workers : x # w => worker[x].at \notin {"store", "count"}
  BY <1>1, Probing DEF Exclusive
<1>5. \A x \in Workers : (Busy(x)' <=> Busy(x)) /\ worker'[x].target = worker[x].target
  BY <1>1, <1>3 DEF Busy
<1>6. Exclusive'
  BY <1>1, <1>3, Probing DEF Exclusive
<1>7. Assigned'
  <2>1. ASSUME NEW x \in Workers, Busy(x)' PROVE worker'[x].target \in stored' <=> worker'[x].at = "count"
    <3>1. CASE x = w
      BY <3>1, <1>1, <1>3
    <3>2. CASE x # w
      <4>1. Busy(x) /\ worker'[x] = worker[x] /\ worker[x].at # "count"
        BY <2>1, <3>2, <1>3, <1>4, <1>5
      <4>2. worker[x].target \notin stored /\ worker[x].target # t
        BY <3>2, <4>1, <1>1, Probing DEF Assigned
      <4>. QED
        BY <4>1, <4>2, <1>1
    <3>. QED
      BY <3>1, <3>2
  <2>2. \A u \in stored' : u < feed
    BY <1>1, Probing DEF Assigned
  <2>. QED
    BY <1>1, <1>5, <2>1, <2>2, Probing DEF Assigned
<1>8. Counted'
  <2>1. Uncounted = 0 /\ Uncounted' = 1
    BY <1>1, <1>3, <1>4 DEF Uncounted
  <2>2. Cardinality(stored') = Cardinality(stored) + 1 /\ Cardinality(stored) \in Nat
    BY <1>1, Probing, Targeting, DiscoveryAssumption
  <2>3. \A x \in Workers : worker'[x].at = "count" => worker'[x].read = scanned'
    BY <1>1, <1>3, <1>4
  <2>. QED
    BY <1>1, <2>1, <2>2, <2>3, Probing DEF Counted
<1>9. Accounted'
  <2>1. \A x \in Workers : worker'[x].at = "done" => worker[x].at = "done"
    BY <1>3
  <2>. QED
    BY <1>1, <1>5, <2>1, Probing DEF Accounted
<1>10. stored' \in SUBSET Targets
  BY <1>1, Probing
<1>. QED
  BY <1>1, <1>3, <1>6, <1>7, <1>8, <1>9, <1>10, Probing, PoolStep

LEMMA CountInv ==
  ASSUME DiscoveryInv, NEW w \in Workers, Count(w) PROVE DiscoveryInv'
<1>1. /\ ProbeSteps /\ UNCHANGED <<stored, feed, closed, faults, dropped, wedged>> /\ mutex' = Free
      /\ worker[w].at = "count" /\ worker[w] \in Worker /\ scanned' = scanned + 1
      /\ worker' = [worker EXCEPT ![w].at = "take"]
  BY Probing DEF Count, Put, Counted
<1>2. /\ worker' \in [Workers -> Worker] /\ worker'[w].at = "take"
      /\ \A x \in Workers : x # w => worker'[x] = worker[x]
  BY <1>1, Probing DEF Worker
<1>3. \A x \in Workers : x # w => worker[x].at \notin {"store", "count"}
  BY <1>1, Probing DEF Exclusive
<1>4. \A x \in Workers : Busy(x)' => x # w /\ Busy(x) /\ worker'[x].target = worker[x].target /\ worker'[x].at = worker[x].at
  BY <1>2 DEF Busy
<1>5. Exclusive'
  BY <1>2, <1>3 DEF Exclusive
<1>6. Assigned'
  BY <1>1, <1>4, Probing DEF Assigned
<1>7. Counted'
  <2>1. Uncounted = 1 /\ Uncounted' = 0
    BY <1>1, <1>2, <1>3 DEF Uncounted
  <2>2. Cardinality(stored) \in Nat
    BY Probing, <1>1, Targeting, DiscoveryAssumption
  <2>3. \A x \in Workers : worker'[x].at # "count"
    BY <1>2, <1>3
  <2>. QED
    BY <1>1, <2>1, <2>2, <2>3, Probing DEF Counted
<1>8. Accounted'
  <2> SUFFICES ASSUME ~ canceled PROVE Accounted'
    BY <1>1, Probing DEF Accounted
  <2>1. ASSUME NEW x \in Workers, Busy(x) PROVE worker[x].target \in stored \/ (Busy(x)' /\ worker'[x].target = worker[x].target)
    <3>1. CASE x = w
      BY <2>1, <3>1, <1>1, Probing DEF Assigned
    <3>2. CASE x # w
      BY <2>1, <3>2, <1>2 DEF Busy
    <3>. QED
      BY <3>1, <3>2
  <2>. QED
    BY <1>1, <1>2, <2>1, Probing DEF Accounted
<1>9. scanned' \in Nat
  BY <1>1, Probing
<1>. QED
  BY <1>1, <1>2, <1>5, <1>6, <1>7, <1>8, <1>9, Probing, PoolStep

\* A panic, or an insert that fails: the target is dropped, or it is stored and its count lost.
LEMMA DropInv ==
  ASSUME DiscoveryInv, NEW w \in Workers, ProbePanics(w) \/ AddResultFails(w) \/ OnResultPanics(w) PROVE DiscoveryInv'
<1> DEFINE t == worker[w].target
<1>1. /\ ProbeSteps /\ Fault /\ UNCHANGED <<stored, feed, closed, scanned>>
      /\ worker[w].at \in {"probe", "store", "count"} /\ worker[w] \in Worker /\ t \in Targets
      /\ worker' = [worker EXCEPT ![w].at = "take"]
  BY Probing DEF ProbePanics, AddResultFails, OnResultPanics, Put, Worker
<1>2. /\ worker' \in [Workers -> Worker] /\ worker'[w].at = "take"
      /\ \A x \in Workers : x # w => worker'[x] = worker[x]
  BY <1>1, Probing DEF Worker
<1>3. /\ worker[w].at \in {"store", "count"} => \A x \in Workers : x # w => worker[x].at \notin {"store", "count"}
      /\ mutex' = mutex \/ (mutex' = Free /\ worker[w].at = "store")
  BY <1>1, Probing DEF Exclusive, ProbePanics, AddResultFails, OnResultPanics
<1>4. \A x \in Workers : Busy(x)' => x # w /\ Busy(x) /\ worker'[x].target = worker[x].target /\ worker'[x].at = worker[x].at
  BY <1>2 DEF Busy
<1>5. /\ dropped \subseteq dropped' /\ dropped' \in SUBSET Targets
      /\ worker[w].at # "count" => t \in dropped'
  BY <1>1, Probing DEF ProbePanics, AddResultFails, OnResultPanics
<1>6. wedged' \in BOOLEAN /\ (~ wedged' => ~ wedged /\ worker[w].at # "count")
  <2>1. \/ wedged' = wedged /\ worker[w].at # "count"
        \/ wedged' = TRUE
    BY DEF ProbePanics, AddResultFails, OnResultPanics
  <2>2. wedged \in BOOLEAN
    BY <1>1, Probing
  <2>3. CASE wedged' = wedged /\ worker[w].at # "count"
    BY <2>2, <2>3, Zenon
  <2>4. CASE wedged' = TRUE
    BY <2>4, Zenon
  <2>. QED
    BY <2>1, <2>3, <2>4, Zenon
<1>7. Exclusive'
  BY <1>2, <1>3, Probing, <1>1 DEF Exclusive
<1>8. Assigned'
  BY <1>1, <1>4, Probing DEF Assigned
<1>9. Counted'
  <2>1. Uncounted' \in {0, 1} /\ Uncounted \in {0, 1}
    BY DEF Uncounted
  <2>2. \A x \in Workers : worker'[x].at = "count" => x # w /\ worker[x].at = "count" /\ worker'[x].read = worker[x].read
    BY <1>2
  <2>3. Uncounted' <= Uncounted
    BY <2>2 DEF Uncounted
  <2>4. worker[w].at # "count" => Uncounted' = Uncounted
    BY <1>2 DEF Uncounted
  <2>5. Cardinality(stored) \in Nat
    BY Probing, <1>1, Targeting, DiscoveryAssumption
  <2>. QED
    BY <1>1, <1>6, <2>1, <2>2, <2>3, <2>4, <2>5, Probing DEF Counted
<1>10. Accounted'
  <2> SUFFICES ASSUME ~ canceled PROVE Accounted'
    BY <1>1, Probing DEF Accounted
  <2>1. ASSUME NEW x \in Workers, Busy(x)
        PROVE  \/ worker[x].target \in stored \/ worker[x].target \in dropped'
               \/ (Busy(x)' /\ worker'[x].target = worker[x].target)
    <3>1. CASE x = w
      BY <2>1, <3>1, <1>1, <1>5, Probing DEF Assigned
    <3>2. CASE x # w
      BY <2>1, <3>2, <1>2 DEF Busy
    <3>. QED
      BY <3>1, <3>2
  <2>. QED
    BY <1>1, <1>2, <1>5, <2>1, Probing DEF Accounted
<1>. QED
  BY <1>1, <1>2, <1>3, <1>5, <1>6, <1>7, <1>8, <1>9, <1>10, Probing, PoolStep

-----------------------------------------------------------------------------
(* Steps of run, requests, and the life of the server.                        *)

\* Such a step leaves the pool alone; what the pool's part of the invariant says goes on to hold.
LEMMA PoolKept ==
  ASSUME DiscoveryInv, main # "ended", UNCHANGED <<stored, pool, dropped, wedged>>, canceled' = canceled \/ canceled' = TRUE
  PROVE  Exclusive' /\ Assigned' /\ Counted' /\ Accounted'
<1>1. Exclusive /\ Assigned /\ Counted /\ Accounted /\ UNCHANGED <<feed, closed, worker, mutex, scanned>>
  BY DEF DiscoveryInv, pool
<1>2. Exclusive' /\ Assigned' /\ Counted'
  BY <1>1 DEF Exclusive, Assigned, Busy, Counted, Uncounted
<1>3. Accounted'
  BY <1>1 DEF Accounted, Busy
<1>. QED
  BY <1>2, <1>3

\* A step of run keeps the types, if what it writes has one.
LEMMA RowTyped ==
  ASSUME DiscoveryInv, UNCHANGED <<stored, pool, dropped, wedged, up>>,
         status' \in {"none"} \cup Unfinished \cup Finished, count' \in 0 .. Total,
         main' \in {"none", "start", "probe", "finish", "audit", "ended"}, canceled' \in BOOLEAN, unwritten' \in BOOLEAN,
         faults' \in 0 .. MaxFaults
  PROVE  DiscoveryTypeOK'
<1>1. stored' \in SUBSET Targets /\ dropped' \in SUBSET Targets /\ UNCHANGED <<feed, closed, worker, mutex, scanned>>
  BY DEF DiscoveryInv, DiscoveryTypeOK, pool
<1>2. up' \in BOOLEAN /\ closed' \in BOOLEAN /\ wedged' \in BOOLEAN
  BY <1>1, Zenon DEF DiscoveryInv, DiscoveryTypeOK
<1>. QED
  BY <1>1, <1>2 DEF DiscoveryInv, DiscoveryTypeOK

\* When all workers are done, nothing is left to count, and nothing under way.
LEMMA AllDone ==
  ASSUME DiscoveryInv, main \in {"finish", "audit"}
  PROVE  /\ scanned <= Cardinality(stored) /\ (~ wedged => scanned = Cardinality(stored))
         /\ ~ canceled => Targets \ stored \subseteq dropped
<1>1. \A w \in Workers : worker[w].at = "done"
  BY DEF DiscoveryInv, Progress
<1>2. Counted /\ Accounted /\ scanned \in Nat
  BY DEF DiscoveryInv, DiscoveryTypeOK
<1>3. Uncounted = 0
  BY <1>1 DEF Uncounted
<1>4. ASSUME ~ canceled, NEW t \in Targets PROVE t \in stored \/ t \in dropped
  <2>1. PICK w \in Workers : TRUE
    BY DiscoveryAssumption
  <2>2. feed = Total + 1
    BY <1>1, <1>2, <1>4, <2>1 DEF Accounted
  <2>3. t < feed
    BY <2>2, DiscoveryAssumption DEF Targets
  <2>. QED
    BY <1>1, <1>2, <1>4, <2>3 DEF Accounted, Busy
<1>5. Cardinality(stored) \in Nat
  BY Targeting, DiscoveryAssumption DEF DiscoveryInv, DiscoveryTypeOK
<1>. QED
  BY <1>2, <1>3, <1>4, <1>5 DEF Counted

LEMMA RunInv ==
  ASSUME DiscoveryInv, RunStep PROVE DiscoveryInv'
<1>1. /\ main \in {"start", "probe", "finish", "audit"} /\ up /\ status # "none"
      /\ UNCHANGED <<stored, pool, dropped, wedged, up, canceled>>
  BY DEF RunStep, MarkRunning, MarkRunningFails, WorkersDone, Finish, FinishFails, Ended, MainPanics, MainPanicsUnrecorded, RunSteps,
         DiscoveryInv, Progress
<1>2. faults' \in 0 .. MaxFaults
  BY DiscoveryAssumption DEF RunStep, MarkRunning, MarkRunningFails, WorkersDone, Finish, FinishFails, Ended, MainPanics,
         MainPanicsUnrecorded, Fault, DiscoveryInv, DiscoveryTypeOK
<1>3. /\ status' \in Unfinished \cup Finished /\ count' \in {count, scanned} /\ unwritten' \in {unwritten, TRUE}
      /\ main' \in {"probe", "finish", "audit", "ended"}
      /\ status' # status => status' \in {"running", "failed"} \/ Finish
      /\ main' = "probe" => status' = "running"
      /\ main' = "finish" => status' = status /\ main = "probe" /\ \A w \in Workers : worker[w].at = "done"
      /\ main' = "audit" => main = "finish"
      /\ main' \in {"audit", "ended"} => status' \in Finished \/ unwritten' = TRUE \/ (main = "audit" /\ status' = status /\ unwritten' = unwritten)
      /\ status' = status => count' = count \/ status' = "failed" \/ Finish
  BY <1>1 DEF RunStep, MarkRunning, MarkRunningFails, WorkersDone, Finish, FinishFails, Ended, MainPanics, MainPanicsUnrecorded,
         DiscoveryInv, DiscoveryTypeOK, Outcome, Unfinished, Finished
<1>4. DiscoveryTypeOK'
  <2>1. canceled' \in BOOLEAN /\ unwritten' \in BOOLEAN
    BY <1>1, <1>3, Zenon DEF DiscoveryInv, DiscoveryTypeOK
  <2>2. count' \in 0 .. Total /\ status' \in {"none"} \cup Unfinished \cup Finished
    BY <1>3 DEF DiscoveryInv, DiscoveryTypeOK
  <2>. QED
    BY <1>1, <1>2, <1>3, <2>1, <2>2, RowTyped
<1>5. Exclusive' /\ Assigned' /\ Counted' /\ Accounted'
  BY <1>1, PoolKept
<1>6. Progress'
  <2>1. worker' = worker /\ (main \in {"finish", "audit"} => \A w \in Workers : worker[w].at = "done")
    BY <1>1 DEF pool, DiscoveryInv, Progress
  <2>2. status' # "none" /\ main' # "none" /\ main' # "start" /\ up'
    BY <1>1, <1>3 DEF Unfinished, Finished
  <2>3. main' \in {"probe", "finish"} => status' \in Unfinished
    BY <1>3 DEF DiscoveryInv, Progress, Unfinished
  <2>4. main' \in {"audit", "ended"} /\ status' \in Unfinished => unwritten'
    BY <1>1, <1>3 DEF DiscoveryInv, Progress, Unfinished, Finished
  <2>5. main' \in {"finish", "audit"} => \A w \in Workers : worker[w].at = "done"
    BY <1>3, <2>1
  <2>. QED
    BY <2>1, <2>2, <2>3, <2>4, <2>5 DEF Progress
<1>7. CASE Finish
  <2>1. /\ main = "finish" /\ status' = Outcome /\ count' = scanned /\ stored' = stored /\ wedged' = wedged /\ dropped' = dropped
        /\ stored \in SUBSET Targets /\ scanned \in Nat
    BY <1>1, <1>7 DEF Finish, DiscoveryInv, DiscoveryTypeOK
  <2>2. status' = "completed" => scanned >= Total /\ ~ canceled
    BY <2>1 DEF Outcome
  <2>3. status' = "partially_completed" => ~ canceled
    BY <2>1 DEF Outcome
  <2>4. Cardinality(stored) \in 0 .. Total /\ (Cardinality(stored) >= Total => stored = Targets)
    BY <2>1, Targeting
  <2>5. SummaryMatchesResults'
    BY <2>1, <2>2, <2>4, AllDone, DiscoveryAssumption DEF SummaryMatchesResults
  <2>6. NoTargetLost'
    BY <2>1, <2>2, <2>3, AllDone DEF NoTargetLost
  <2>. QED
    BY <1>4, <1>5, <1>6, <2>5, <2>6 DEF DiscoveryInv
<1>8. CASE ~ Finish
  <2>1. SummaryMatchesResults' /\ NoTargetLost'
    BY <1>1, <1>3, <1>8 DEF DiscoveryInv, SummaryMatchesResults, NoTargetLost, Finished
  <2>. QED
    BY <1>4, <1>5, <1>6, <2>1 DEF DiscoveryInv
<1>. QED
  BY <1>7, <1>8

LEMMA RequestInv ==
  ASSUME DiscoveryInv, CreateScan \/ CancelScan PROVE DiscoveryInv'
<1>1. /\ main # "ended" /\ main' # "ended" /\ main' # "none" /\ UNCHANGED <<stored, count, up, pool, faults, dropped, wedged, unwritten>>
      /\ canceled' = canceled \/ canceled' = TRUE
      /\ \/ status = "none" /\ status' = "pending" /\ main' = "start" /\ up
         \/ status' = status /\ main' = main
  BY DEF CreateScan, CancelScan, history, row, DiscoveryInv, Progress
<1>2. DiscoveryTypeOK'
  <2>1. canceled' \in BOOLEAN /\ unwritten' \in BOOLEAN
    BY <1>1, Zenon DEF DiscoveryInv, DiscoveryTypeOK
  <2>2. /\ status' \in {"none"} \cup Unfinished \cup Finished /\ count' \in 0 .. Total /\ faults' \in 0 .. MaxFaults
        /\ main' \in {"none", "start", "probe", "finish", "audit", "ended"}
    BY <1>1 DEF DiscoveryInv, DiscoveryTypeOK, Unfinished
  <2>. QED
    BY <1>1, <2>1, <2>2, RowTyped
<1>3. Exclusive' /\ Assigned' /\ Counted' /\ Accounted'
  BY <1>1, PoolKept
<1>4. Progress' /\ SummaryMatchesResults' /\ NoTargetLost'
  BY <1>1 DEF DiscoveryInv, Progress, SummaryMatchesResults, NoTargetLost, Unfinished, Finished, pool
<1>. QED
  BY <1>2, <1>3, <1>4 DEF DiscoveryInv

LEMMA CrashInv ==
  ASSUME DiscoveryInv, Crash PROVE DiscoveryInv'
<1>1. /\ UNCHANGED <<status, count, stored, dropped, wedged, unwritten>> /\ ~ up' /\ up' = FALSE /\ canceled' = FALSE
      /\ main' = IF main = "none" THEN "none" ELSE "ended"
      /\ feed' = 1 /\ closed' = FALSE /\ worker' = [w \in Workers |-> Idle("take")] /\ mutex' = Free /\ scanned' = 0
      /\ faults' \in 0 .. MaxFaults
  BY DiscoveryAssumption DEF Crash, NoPool, Fault, row, history, DiscoveryInv, DiscoveryTypeOK
<1>2. Idle("take") \in Worker
  BY DiscoveryAssumption DEF Idle, Worker, Targets
<1>3. DiscoveryTypeOK'
  <2>1. worker' \in [Workers -> Worker]
    BY <1>1, <1>2
  <2>2. up' \in BOOLEAN /\ canceled' \in BOOLEAN /\ closed' \in BOOLEAN /\ wedged' \in BOOLEAN /\ unwritten' \in BOOLEAN
    BY <1>1, Zenon DEF DiscoveryInv, DiscoveryTypeOK
  <2>3. feed' \in 1 .. Total + 1 /\ scanned' \in 0 .. Total
    BY <1>1, DiscoveryAssumption
  <2>. QED
    BY <1>1, <2>1, <2>2, <2>3 DEF DiscoveryInv, DiscoveryTypeOK, Worker
<1>4. main' # "ended" => Exclusive' /\ Assigned' /\ Counted' /\ Accounted'
  <2> SUFFICES ASSUME main = "none" PROVE Exclusive' /\ Assigned' /\ Counted' /\ Accounted'
    BY <1>1
  <2>1. stored' = {} /\ \A w \in Workers : worker'[w].at = "take"
    BY <1>1 DEF DiscoveryInv, Progress, Idle
  <2>2. Cardinality(stored') = 0
    BY <2>1, FS_EmptySet
  <2>3. Uncounted' = 0
    BY <2>1 DEF Uncounted
  <2>4. Exclusive' /\ Assigned' /\ Counted' /\ Accounted'
    BY <1>1, <2>1, <2>2, <2>3 DEF Exclusive, Assigned, Counted, Accounted, Busy, Targets
  <2>. QED
    BY <2>4
<1>5. Progress' /\ SummaryMatchesResults' /\ NoTargetLost'
  BY <1>1 DEF DiscoveryInv, Progress, SummaryMatchesResults, NoTargetLost
<1>. QED
  BY <1>3, <1>4, <1>5 DEF DiscoveryInv

LEMMA RecoverInv ==
  ASSUME DiscoveryInv, RecoverInterruptedScans \/ RecoverFails PROVE DiscoveryInv'
<1>1. /\ UNCHANGED <<count, stored, dropped, wedged, main, canceled, pool>> /\ ~ up /\ up' = TRUE /\ main \in {"none", "ended"}
      /\ faults' \in 0 .. MaxFaults
      /\ \/ status' = "failed" /\ status \in Unfinished
         \/ status' = status /\ (status \notin Unfinished \/ unwritten' = TRUE)
      /\ unwritten' \in {TRUE, FALSE}
  <2>1. UNCHANGED <<count, stored, dropped, wedged, main, canceled, pool>> /\ ~ up /\ up' = TRUE /\ main \in {"none", "ended"}
    BY DEF RecoverInterruptedScans, RecoverFails, row, DiscoveryInv, Progress
  <2>2. faults' \in 0 .. MaxFaults
    BY DiscoveryAssumption DEF RecoverInterruptedScans, RecoverFails, Fault, DiscoveryInv, DiscoveryTypeOK
  <2>3. CASE RecoverInterruptedScans
    BY <2>1, <2>2, <2>3 DEF RecoverInterruptedScans
  <2>4. CASE RecoverFails
    BY <2>1, <2>2, <2>4 DEF RecoverFails, row
  <2>. QED
    BY <2>3, <2>4
<1>2. UNCHANGED <<feed, closed, worker, mutex, scanned>>
  BY <1>1 DEF pool
<1>3. DiscoveryTypeOK'
  <2>1. up' \in BOOLEAN /\ canceled' \in BOOLEAN /\ closed' \in BOOLEAN /\ wedged' \in BOOLEAN /\ unwritten' \in BOOLEAN
    BY <1>1, <1>2, Zenon DEF DiscoveryInv, DiscoveryTypeOK
  <2>. QED
    BY <1>1, <1>2, <2>1 DEF DiscoveryInv, DiscoveryTypeOK, Finished
<1>4. main' # "ended" => Exclusive' /\ Assigned' /\ Counted' /\ Accounted'
  BY <1>1, PoolKept
<1>5. Progress'
  BY <1>1, <1>2 DEF DiscoveryInv, Progress, Unfinished
<1>6. SummaryMatchesResults' /\ NoTargetLost'
  BY <1>1, <1>2 DEF DiscoveryInv, SummaryMatchesResults, NoTargetLost, Finished
<1>. QED
  BY <1>3, <1>4, <1>5, <1>6 DEF DiscoveryInv

-----------------------------------------------------------------------------
(* The theorems.                                                              *)

LEMMA StepInv == DiscoveryInv /\ [DiscoveryNext]_discoveryVars => DiscoveryInv'
<1> SUFFICES ASSUME DiscoveryInv, [DiscoveryNext]_discoveryVars PROVE DiscoveryInv'
  OBVIOUS
<1>1. ASSUME NEW w \in Workers, Feed(w) \/ WorkerStep(w) PROVE DiscoveryInv'
  BY <1>1, FeedInv, MoveInv, AddResultInv, CountInv, DropInv DEF WorkerStep
<1>2. CASE CreateScan \/ CancelScan \/ RunStep \/ StopFeeding
  BY <1>2, RequestInv, RunInv, StopFeedingInv
<1>3. CASE Crash \/ RecoverInterruptedScans \/ RecoverFails
  BY <1>3, CrashInv, RecoverInv
<1>4. CASE UNCHANGED discoveryVars
  BY <1>4 DEF discoveryVars, row, pool, history, DiscoveryInv, DiscoveryTypeOK, Exclusive, Assigned, Busy, Counted, Uncounted,
              Accounted, Progress, SummaryMatchesResults, NoTargetLost
<1>. QED
  BY <1>1, <1>2, <1>3, <1>4 DEF DiscoveryNext

LEMMA AlwaysInv == DiscoverySpec => []DiscoveryInv
BY InitInv, StepInv, PTL DEF DiscoverySpec

\* A scan is well typed, for any number of targets, workers and faults; in particular
\* scanned_count never exceeds total_targets.
THEOREM DiscoveryTypeCorrect == DiscoverySpec => []DiscoveryTypeOK
<1>1. DiscoveryInv => DiscoveryTypeOK
  BY DEF DiscoveryInv
<1>. QED
  BY <1>1, AlwaysInv, PTL

\* The summary of a finished scan counts what is stored, however the workers of runProbes
\* interleave, and "completed" says that all of it is.
THEOREM SummariesAreTrue == DiscoverySpec => []SummaryMatchesResults
<1>1. DiscoveryInv => SummaryMatchesResults
  BY DEF DiscoveryInv
<1>. QED
  BY <1>1, AlwaysInv, PTL

\* A scan that ran to its end has probed every target.
THEOREM EveryTargetProbed == DiscoverySpec => []NoTargetLost
<1>1. DiscoveryInv => NoTargetLost
  BY DEF DiscoveryInv
<1>. QED
  BY <1>1, AlwaysInv, PTL

\* A row stays unfinished with nobody to finish it only if a status could not be written.
THEOREM OrphansAreExplained == DiscoverySpec => []OrphansExplained
BY InvImplies, AlwaysInv, PTL

\* All three: what the row of a scan tells is true.
THEOREM RowsAreTrue == DiscoverySpec => []RowIsTrue
BY SummariesAreTrue, EveryTargetProbed, OrphansAreExplained, PTL DEF RowIsTrue

-----------------------------------------------------------------------------
(* A scan advances.                                                           *)

\* The mutex is held by the worker that handles a result, unless a panic left it locked.
Held == ~ wedged /\ mutex # Free => mutex \in Workers /\ worker[mutex].at \in {"store", "count"}

LEMMA PoolStepHeld ==
  ASSUME DiscoveryInv, Held, NEW w \in Workers, Feed(w) \/ WorkerStep(w)
  PROVE  Held'
<1>1. ProbeSteps
  BY DEF Feed, WorkerStep, NoMoreTargets, Probe, ProbePanics, Lock, AddResult, AddResultFails, Count, OnResultPanics
<1>2. worker \in [Workers -> Worker] /\ Exclusive /\ mutex \in Workers \cup {Free}
  BY <1>1, Probing
<1>3. CASE Feed(w) \/ NoMoreTargets(w) \/ Probe(w) \/ ProbePanics(w)
  <2>1. /\ worker[w].at \in {"take", "probe"} /\ mutex' = mutex /\ wedged' = wedged
        /\ \A x \in Workers \ {w} : worker'[x] = worker[x]
    BY <1>2, <1>3 DEF Feed, NoMoreTargets, Probe, ProbePanics, Put
  <2>. QED
    BY <2>1 DEF Held
<1>4. CASE Lock(w)
  BY <1>2, <1>4 DEF Lock, Put, Worker, Held
<1>5. CASE AddResult(w)
  BY <1>2, <1>5 DEF AddResult, Exclusive, Worker, Held
<1>6. CASE AddResultFails(w) \/ Count(w)
  BY <1>6 DEF AddResultFails, Count, Held
<1>7. CASE OnResultPanics(w)
  BY <1>7 DEF OnResultPanics, Held
<1>. QED
  BY <1>3, <1>4, <1>5, <1>6, <1>7 DEF WorkerStep

LEMMA StepHeld == DiscoveryInv /\ Held /\ [DiscoveryNext]_discoveryVars => Held'
<1> SUFFICES ASSUME DiscoveryInv, Held, [DiscoveryNext]_discoveryVars PROVE Held'
  OBVIOUS
<1>1. ASSUME UNCHANGED <<worker, mutex, wedged>> PROVE Held'
  BY <1>1 DEF Held
<1>2. CASE CreateScan \/ CancelScan \/ RecoverInterruptedScans \/ RecoverFails
  BY <1>1, <1>2 DEF CreateScan, CancelScan, RecoverInterruptedScans, RecoverFails, pool, history
<1>3. CASE RunStep
  BY <1>1, <1>3 DEF RunStep, MarkRunning, MarkRunningFails, WorkersDone, Finish, FinishFails, Ended, MainPanics,
                    MainPanicsUnrecorded, RunSteps, pool
<1>4. CASE StopFeeding
  BY <1>1, <1>4 DEF StopFeeding
<1>5. CASE Crash
  BY <1>5 DEF Crash, NoPool, Held
<1>6. CASE UNCHANGED discoveryVars
  BY <1>1, <1>6 DEF discoveryVars, pool, history
<1>. QED
  BY <1>2, <1>3, <1>4, <1>5, <1>6, PoolStepHeld DEF DiscoveryNext

\* If the workers are not all done, one of them, or the feeder, can go on.
LEMMA HeldGoesOn == DiscoveryInv /\ Held => SomeoneGoesOn
<1> SUFFICES ASSUME DiscoveryInv, Held, main = "probe", ~ wedged,
                    ~ \A w \in Workers : worker[w].at = "done", ~ (~ closed /\ (feed > Total \/ canceled))
             PROVE  \E w \in Workers :
                      \/ worker[w].at = "take" /\ (closed \/ feed <= Total)
                      \/ worker[w].at \in {"probe", "store", "count"}
                      \/ worker[w].at = "lock" /\ mutex = Free
  BY Zenon DEF SomeoneGoesOn
<1>1. feed > Total \/ feed <= Total
  BY DiscoveryAssumption DEF DiscoveryInv, DiscoveryTypeOK
<1>2. closed \/ feed <= Total
  BY <1>1, Zenon
<1>3. PICK w \in Workers : worker[w].at # "done"
  OBVIOUS
<1>4. worker[w].at \in {"take", "probe", "lock", "store", "count"}
  BY <1>3 DEF DiscoveryInv, DiscoveryTypeOK
<1>. QED
  BY <1>2, <1>4 DEF Held

\* How many steps a worker has before it.
LEMMA StepCounts ==
  /\ StepsOf("done") = 0 /\ StepsOf("take") = 1 /\ StepsOf("count") = 2
  /\ StepsOf("store") = 3 /\ StepsOf("lock") = 4 /\ StepsOf("probe") = 5
BY DEF StepsOf

LEMMA StepCount == ASSUME NEW r \in Worker PROVE StepsOf(r.at) \in 0 .. 5
BY StepCounts DEF Worker

LEMMA LeftIsFinite ==
  /\ IsFiniteSet(WorkersLeft) /\ Cardinality(WorkersLeft) \in Nat
  /\ IsFiniteSet(WorkersLeft') /\ Cardinality(WorkersLeft') \in Nat
<1>1. IsFiniteSet(1 .. 5)
  <2>1. 1 \in Int /\ 5 \in Int
    OBVIOUS
  <2>. QED
    BY <2>1, FS_Interval, Zenon
<1>2. IsFiniteSet(Workers \X (1 .. 5))
  BY <1>1, FS_Product, DiscoveryAssumption
<1>3. WorkersLeft \subseteq Workers \X (1 .. 5) /\ WorkersLeft' \subseteq Workers \X (1 .. 5)
  BY DEF WorkersLeft
<1>. QED
  BY <1>2, <1>3, FS_Subset, FS_CardinalityType

\* A worker that goes on has less to do.
LEMMA WorkerGoesOn ==
  ASSUME worker \in [Workers -> Worker], worker' \in [Workers -> Worker], NEW w \in Workers,
         \A x \in Workers \ {w} : worker'[x] = worker[x],
         StepsOf(worker'[w].at) < StepsOf(worker[w].at)
  PROVE  Cardinality(WorkersLeft') < Cardinality(WorkersLeft)
<1> DEFINE n == StepsOf(worker[w].at)
<1>1. n \in 1 .. 5 /\ StepsOf(worker'[w].at) \in 0 .. 5
  BY StepCount
<1>2. WorkersLeft' \subseteq WorkersLeft
  <2> SUFFICES ASSUME NEW x \in Workers, NEW i \in 1 .. 5, i <= StepsOf(worker'[x].at)
               PROVE  i <= StepsOf(worker[x].at)
    BY DEF WorkersLeft
  <2>1. CASE x = w
    BY <1>1, <2>1
  <2>2. CASE x # w
    BY <2>2
  <2>. QED
    BY <2>1, <2>2
<1>3. <<w, n>> \in WorkersLeft /\ <<w, n>> \notin WorkersLeft'
  BY <1>1 DEF WorkersLeft
<1>. QED
  BY <1>2, <1>3, LeftIsFinite, FS_Subset, FS_CardinalityType

\* A worker that is fed has the four steps before it that the target brought along.
LEMMA WorkerIsFed ==
  ASSUME worker \in [Workers -> Worker], worker' \in [Workers -> Worker], NEW w \in Workers,
         \A x \in Workers \ {w} : worker'[x] = worker[x], worker[w].at = "take"
  PROVE  /\ Cardinality(WorkersLeft') \in Nat
         /\ Cardinality(WorkersLeft') <= Cardinality(WorkersLeft) + 4
<1> DEFINE A == WorkersLeft \cup {<<w, 2>>}
           B == A \cup {<<w, 3>>}
           C == B \cup {<<w, 4>>}
           D == C \cup {<<w, 5>>}
<1>1. \A S, x : IsFiniteSet(S) => /\ IsFiniteSet(S \cup {x})
                                  /\ Cardinality(S) \in Nat /\ Cardinality(S \cup {x}) \in Nat
                                  /\ Cardinality(S \cup {x}) <= Cardinality(S) + 1
  <2> SUFFICES ASSUME NEW S, NEW x, IsFiniteSet(S)
               PROVE  /\ IsFiniteSet(S \cup {x})
                      /\ Cardinality(S) \in Nat /\ Cardinality(S \cup {x}) \in Nat
                      /\ Cardinality(S \cup {x}) <= Cardinality(S) + 1
    OBVIOUS
  <2>1. IsFiniteSet(S \cup {x}) /\ Cardinality(S \cup {x}) = IF x \in S THEN Cardinality(S) ELSE Cardinality(S) + 1
    BY FS_AddElement
  <2>2. Cardinality(S) \in Nat
    BY FS_CardinalityType
  <2>. QED
    BY <2>1, <2>2
<1>2. IsFiniteSet(D) /\ Cardinality(D) \in Nat /\ Cardinality(D) <= Cardinality(WorkersLeft) + 4
  <2>1. IsFiniteSet(A) /\ Cardinality(A) \in Nat /\ Cardinality(A) <= Cardinality(WorkersLeft) + 1
    BY <1>1, LeftIsFinite
  <2>2. IsFiniteSet(B) /\ Cardinality(B) \in Nat /\ Cardinality(B) <= Cardinality(A) + 1
    BY <1>1, <2>1
  <2>3. IsFiniteSet(C) /\ Cardinality(C) \in Nat /\ Cardinality(C) <= Cardinality(B) + 1
    BY <1>1, <2>2
  <2>4. IsFiniteSet(D) /\ Cardinality(D) \in Nat /\ Cardinality(D) <= Cardinality(C) + 1
    BY <1>1, <2>3
  <2> HIDE DEF A, B, C, D
  <2>. QED
    BY <2>1, <2>2, <2>3, <2>4, LeftIsFinite
<1>3. WorkersLeft' \subseteq D
  <2>1. WorkersLeft \subseteq D /\ \A i \in 2 .. 5 : <<w, i>> \in D
    OBVIOUS
  <2> HIDE DEF D
  <2> SUFFICES ASSUME NEW z \in WorkersLeft' PROVE z \in D
    OBVIOUS
  <2>0. PICK x \in Workers, i \in 1 .. 5 : z = <<x, i>> /\ i <= StepsOf(worker'[x].at)
    BY DEF WorkersLeft
  <2>2. CASE x # w
    BY <2>0, <2>1, <2>2 DEF WorkersLeft
  <2>3. CASE x = w /\ i = 1
    BY <2>0, <2>1, <2>3, StepCounts DEF WorkersLeft
  <2>4. CASE x = w /\ i # 1
    BY <2>0, <2>1, <2>4
  <2>. QED
    BY <2>2, <2>3, <2>4
<1> HIDE DEF D
<1>. QED
  BY <1>2, <1>3, LeftIsFinite, FS_Subset, FS_CardinalityType

LEMMA StageCounts ==
  /\ Stages["none"] = 0 /\ Stages["start"] = 4 /\ Stages["probe"] = 3
  /\ Stages["finish"] = 2 /\ Stages["audit"] = 1 /\ Stages["ended"] = 0
BY DEF Stages

\* Every step of the feeder or of a worker leaves less to do.
LEMMA PoolRunsDown ==
  ASSUME DiscoveryInv, StopFeeding \/ \E w \in Workers : Feed(w) \/ WorkerStep(w)
  PROVE  Left' < Left
<1>1. ProbeSteps
  BY DEF StopFeeding, Feed, WorkerStep, NoMoreTargets, Probe, ProbePanics, Lock, AddResult, AddResultFails, Count,
         OnResultPanics
<1>2. main' = main /\ main = "probe" /\ worker \in [Workers -> Worker] /\ feed \in 1 .. Total + 1 /\ Total \in Int
  BY <1>1, Probing, DiscoveryAssumption DEF ProbeSteps
<1>3. Stages[main] = 3
  BY <1>2, StageCounts
<1> DEFINE c == IF closed THEN 0 ELSE 1
<1>4. CASE StopFeeding
  <2>1. ~ closed /\ closed' = TRUE /\ WorkersLeft' = WorkersLeft /\ feed' = feed
    BY <1>4 DEF StopFeeding, WorkersLeft
  <2>2. Left = 3 + 5 * (Total + 1 - feed) + Cardinality(WorkersLeft) + 1
    BY <1>3, <2>1 DEF Left
  <2>3. Left' = 3 + 5 * (Total + 1 - feed) + Cardinality(WorkersLeft) + 0
    BY <1>2, <1>3, <2>1, Zenon DEF Left
  <2>. QED
    BY <1>2, <2>2, <2>3, LeftIsFinite
<1>5. ASSUME NEW w \in Workers, Feed(w) PROVE Left' < Left
  <2>1. /\ closed' = closed /\ feed' = feed + 1 /\ worker[w].at = "take"
        /\ \A x \in Workers \ {w} : worker'[x] = worker[x]
    BY <1>2, <1>5 DEF Feed
  <2>2. worker' \in [Workers -> Worker]
    BY <1>2, <1>5, FeedInv DEF DiscoveryInv, DiscoveryTypeOK, Worker
  <2>3. Cardinality(WorkersLeft') \in Nat /\ Cardinality(WorkersLeft') <= Cardinality(WorkersLeft) + 4
    BY <1>2, <2>1, <2>2, WorkerIsFed
  <2>4. Left = 3 + 5 * (Total + 1 - feed) + Cardinality(WorkersLeft) + c
    BY <1>3 DEF Left
  <2>5. Left' = 3 + 5 * (Total - feed) + Cardinality(WorkersLeft') + c
    BY <1>2, <1>3, <2>1 DEF Left
  <2>6. c \in Int
    OBVIOUS
  <2> HIDE DEF c
  <2>. QED
    BY <1>2, <2>3, <2>4, <2>5, <2>6, LeftIsFinite
<1>6. ASSUME NEW w \in Workers, WorkerStep(w) PROVE Left' < Left
  <2>1. /\ closed' = closed /\ feed' = feed
        /\ \A x \in Workers \ {w} : worker'[x] = worker[x]
        /\ StepsOf(worker'[w].at) < StepsOf(worker[w].at)
        /\ worker' \in [Workers -> Worker]
    <3>1. CASE AddResult(w)
      <4>1. worker'[w].at = "count" /\ worker[w].at = "store" /\ worker' \in [Workers -> Worker]
        BY <1>2, <3>1, AddResultInv DEF AddResult, DiscoveryInv, DiscoveryTypeOK, Worker
      <4>. QED
        BY <3>1, <4>1, StepCounts DEF AddResult
    <3>2. CASE ~ AddResult(w)
      <4>1. PICK stage \in {"done", "lock", "store", "take"} :
              /\ Put(w, stage) /\ closed' = closed /\ feed' = feed
              /\ <<worker[w].at, stage>> \in {<<"take", "done">>, <<"probe", "lock">>, <<"probe", "take">>,
                    <<"lock", "store">>, <<"store", "take">>, <<"count", "take">>}
        BY <1>6, <3>2 DEF WorkerStep, NoMoreTargets, Probe, ProbePanics, Lock, AddResultFails, Count, OnResultPanics
      <4>2. worker'[w].at = stage /\ worker' \in [Workers -> Worker] /\ \A x \in Workers \ {w} : worker'[x] = worker[x]
        BY <1>2, <4>1 DEF Put, Worker
      <4>. QED
        BY <4>1, <4>2, StepCounts
    <3>. QED
      BY <3>1, <3>2
  <2>2. Cardinality(WorkersLeft') < Cardinality(WorkersLeft) /\ Cardinality(WorkersLeft') \in Nat
    BY <1>2, <2>1, WorkerGoesOn, LeftIsFinite
  <2>3. Left = 3 + 5 * (Total + 1 - feed) + Cardinality(WorkersLeft) + c
    BY <1>3 DEF Left
  <2>4. Left' = 3 + 5 * (Total + 1 - feed) + Cardinality(WorkersLeft') + c
    BY <1>2, <1>3, <2>1 DEF Left
  <2>5. c \in Int
    OBVIOUS
  <2> HIDE DEF c
  <2>. QED
    BY <1>2, <2>2, <2>3, <2>4, <2>5, LeftIsFinite
<1>. QED
  BY <1>4, <1>5, <1>6

LEMMA StepRunsDown ==
  ASSUME DiscoveryInv, [DiscoveryNext]_discoveryVars, main \notin {"none", "ended"},
         <<main, pool>>' # <<main, pool>>, main' # "ended"
  PROVE  Left' < Left
<1>1. CASE StopFeeding \/ \E w \in Workers : Feed(w) \/ WorkerStep(w)
  BY <1>1, PoolRunsDown
<1>2. CASE RunStep
  <2>1. /\ UNCHANGED pool
        /\ <<main, main'>> \in {<<"start", "probe">>, <<"probe", "finish">>, <<"finish", "audit">>}
    BY <1>2 DEF RunStep, MarkRunning, MarkRunningFails, WorkersDone, Finish, FinishFails, Ended, MainPanics,
                MainPanicsUnrecorded, RunSteps
  <2>2. Stages[main'] < Stages[main] /\ Stages[main] \in Int /\ Stages[main'] \in Int
    BY <2>1, StageCounts
  <2>3. WorkersLeft' = WorkersLeft /\ feed' = feed /\ closed' = closed
    BY <2>1 DEF pool, WorkersLeft
  <2>4. feed \in Int /\ Total \in Int /\ Cardinality(WorkersLeft) \in Int
    BY LeftIsFinite, DiscoveryAssumption DEF DiscoveryInv, DiscoveryTypeOK
  <2>. QED
    BY <2>2, <2>3, <2>4 DEF Left
<1>3. CASE CreateScan \/ CancelScan \/ RecoverInterruptedScans \/ RecoverFails \/ UNCHANGED discoveryVars
  BY <1>3 DEF CreateScan, CancelScan, RecoverInterruptedScans, RecoverFails, discoveryVars, pool, DiscoveryInv, Progress
<1>4. CASE Crash
  BY <1>4 DEF Crash
<1>. QED
  BY <1>1, <1>2, <1>3, <1>4 DEF DiscoveryNext

\* For any number of targets and workers and whatever fails: while a scan probes somebody can go
\* on, and every step leaves less of it to do, so that it comes to its end as long as goroutines
\* that can run do run -- unless a panic left the mutex locked.
THEOREM ScansAdvance == DiscoverySpec => ScanAdvances
<1>1. DiscoveryInit => Held
  BY DEF DiscoveryInit, Held
<1>2. DiscoveryInv /\ [DiscoveryNext]_discoveryVars =>
        [main \notin {"none", "ended"} /\ <<main, pool>>' # <<main, pool>> => main' = "ended" \/ Left' < Left]_discoveryVars
  BY StepRunsDown
<1>. QED
  BY <1>1, <1>2, InitInv, StepInv, StepHeld, HeldGoesOn, PTL DEF DiscoverySpec, ScanAdvances

-----------------------------------------------------------------------------
(* Recurring scans.                                                           *)

UnusedIds == \A s \in Schedules \ given : schedule[s] = Absent /\ ran[s] = Never

\* What an edit has read of the last run is the last run, unless it was overtaken.
EditReads(ed, gi, rn, ov) ==
  ed.id # Absent => ed.id \in gi /\ (ed.overtaken \/ ed.last = rn[ed.id] \/ ed.id \in ov)

\* What is listed is due by the time promised last, unless it was edited since.
ListedIsDue(d, gi, pr, t, di) == d.id \in gi /\ (pr[d.id] <= t \/ d.id \in di)

ListedOnce(du) == \A c, d \in du : c.id = d.id => c = d

\* Between firings nothing is being fired; what is being fired keeps what was promised, unless
\* it was edited since.
FiresOne(sw, f, gi, pr, di) ==
  /\ IF sw \in {"scan", "record"} THEN f.id # Absent ELSE f = NotFiring
  /\ f.id # Absent => f.id \in gi /\ (f.next = pr[f.id] \/ f.id \in di)

SchedulesInv ==
  /\ SchedulesTypeOK
  /\ SchedulesHold
  /\ UnusedIds
  /\ \A e \in Editors : EditReads(editor[e], given, ran, overwritten)
  /\ \A d \in due : ListedIsDue(d, given, promised, now, disturbed)
  /\ ListedOnce(due)
  /\ FiresOne(sweep, firing, given, promised, disturbed)

LEMMA InitSchedulesInv == SchedulesInit => SchedulesInv
<1> SUFFICES ASSUME SchedulesInit
             PROVE  SchedulesInv
  OBVIOUS
<1>. USE DEF SchedulesInit
<1>1. Never \in Runs /\ NotFiring \in [id: Schedules \cup {Absent}, at: Nat, next: Nat, scan: BOOLEAN]
  BY DEF Never, Runs, NotFiring
<1>2. NotEditing \in [id: Schedules \cup {Absent}, last: Runs, overtaken: BOOLEAN]
  BY <1>1 DEF NotEditing
<1>3. now \in 0 .. Horizon /\ requests \in 0 .. MaxRequests /\ mishaps \in 0 .. MaxMishaps
  BY SchedulesAssumption
<1>4. SchedulesTypeOK
  BY <1>1, <1>2, <1>3 DEF SchedulesTypeOK
<1>5. NotFiring.id = Absent /\ NotEditing.id = Absent
  BY DEF NotFiring, NotEditing
<1>. QED
  BY <1>4, <1>5
  DEF SchedulesInv, SchedulesHold, Live, UnusedIds, EditReads, ListedOnce, FiresOne

LEMMA Resting ==
  /\ NotFiring \in [id: Schedules \cup {Absent}, at: Nat, next: Nat, scan: BOOLEAN]
  /\ NotFiring.id = Absent
  /\ \A gi, pr, di : \A sw \in {"none", "list", "fire", "wait"} : FiresOne(sw, NotFiring, gi, pr, di)
  BY DEF NotFiring, FiresOne

\* A step that leaves the rows, and what was said of them, as they are.
LEMMA StepQuiet ==
  ASSUME SchedulesInv, SchedulesTypeOK',
         UNCHANGED <<schedule, given, wanted, ran, promised, overwritten>>,
         disturbed \subseteq disturbed',
         firing.id = Absent \/ firing'.id = firing.id \/ firing.id \in disturbed',
         \A e \in Editors : EditReads(editor'[e], given, ran, overwritten),
         \A d \in due' : ListedIsDue(d, given, promised, now', disturbed'),
         ListedOnce(due'),
         FiresOne(sweep', firing', given, promised, disturbed')
  PROVE  SchedulesInv'
<1>1. SchedulesHold'
  <2>1. ASSUME NEW s \in Schedules
        PROVE  /\ schedule[s] # Absent <=> wanted[s] # Absent
               /\ schedule[s] # Absent =>
                    /\ [interval |-> schedule[s].interval, enabled |-> schedule[s].enabled] = wanted[s]
                    /\ schedule[s].last = ran[s] \/ s \in overwritten
                    /\ schedule[s].next = promised[s] \/ s \in disturbed' \/ s = firing'.id
    <3>1. /\ schedule[s] # Absent <=> wanted[s] # Absent
          /\ schedule[s] # Absent =>
               /\ [interval |-> schedule[s].interval, enabled |-> schedule[s].enabled] = wanted[s]
               /\ schedule[s].last = ran[s] \/ s \in overwritten
               /\ schedule[s].next = promised[s] \/ s \in disturbed \/ s = firing.id
      BY DEF SchedulesInv, SchedulesHold, Live
    <3>2. s # Absent
      BY SchedulesAssumption
    <3>. QED
      BY <3>1, <3>2
  <2>. QED
    BY <2>1 DEF SchedulesHold, Live
<1>2. UnusedIds'
  BY DEF SchedulesInv, UnusedIds
<1>. QED
  BY <1>1, <1>2 DEF SchedulesInv

LEMMA Mishaps ==
  ASSUME SchedulesInv, Mishap
  PROVE  mishaps' \in 0 .. MaxMishaps
  BY SchedulesAssumption DEF SchedulesInv, SchedulesTypeOK, Mishap

LEMMA Requesting ==
  ASSUME SchedulesInv, Request
  PROVE  requests' \in 0 .. MaxRequests
  BY SchedulesAssumption DEF SchedulesInv, SchedulesTypeOK, Request

SweepStages == {"none", "list", "fire", "scan", "record", "wait"}
TickerStates == {"none", "idle", "ticked"}
Firings == [id: Schedules \cup {Absent}, at: Nat, next: Nat, scan: BOOLEAN]

\* A step of the sweep that records nothing.
LEMMA SweepQuiet ==
  ASSUME SchedulesInv, SweepSteps, UNCHANGED <<schedule, ran, promised, overwritten>>,
         mishaps' \in 0 .. MaxMishaps, sweep' \in SweepStages, ticker' \in TickerStates,
         due' \in SUBSET Listed, firing' \in Firings,
         disturbed' \in SUBSET Schedules, disturbed \subseteq disturbed',
         firing.id = Absent \/ firing'.id = firing.id \/ firing.id \in disturbed',
         \A d \in due' : ListedIsDue(d, given, promised, now, disturbed'),
         ListedOnce(due'),
         FiresOne(sweep', firing', given, promised, disturbed')
  PROVE  SchedulesInv'
<1>1. SchedulesTypeOK'
  BY DEF SchedulesInv, SchedulesTypeOK, SweepSteps, SweepStages, TickerStates, Firings
<1>2. /\ UNCHANGED <<given, now, editor, wanted>>
      /\ \A e \in Editors : EditReads(editor[e], given, ran, overwritten)
  BY DEF SweepSteps, SchedulesInv
<1>. QED
  BY <1>1, <1>2, StepQuiet

LEMMA Unlisted ==
  /\ {} \in SUBSET Listed
  /\ ListedOnce({})
  /\ \A gi, pr, t, di : \A d \in {} : ListedIsDue(d, gi, pr, t, di)
  BY DEF ListedOnce

\* The sweep is over and what was being fired, if anything was, counts as broken off.
LEMMA StepRest ==
  ASSUME SchedulesInv, SweepSteps, Rest, UNCHANGED <<schedule, ran, promised, overwritten>>,
         mishaps' \in 0 .. MaxMishaps,
         \/ firing.id = Absent /\ disturbed' = disturbed
         \/ BrokenOff
  PROVE  SchedulesInv'
<1>1. sweep' \in SweepStages /\ ticker' \in TickerStates
  BY DEF SchedulesInv, SchedulesTypeOK, Rest, SweepStages, TickerStates
<1>2. due' = {} /\ firing' = NotFiring
  BY DEF Rest
<1>3. /\ disturbed' \in SUBSET Schedules /\ disturbed \subseteq disturbed'
      /\ firing.id = Absent \/ firing.id \in disturbed'
  BY DEF SchedulesInv, SchedulesTypeOK, BrokenOff
<1>4. firing' \in Firings /\ FiresOne(sweep', firing', given, promised, disturbed')
  BY <1>2, Resting DEF Firings, Rest
<1>5. /\ due' \in SUBSET Listed
      /\ \A d \in due' : ListedIsDue(d, given, promised, now, disturbed')
      /\ ListedOnce(due')
  BY <1>2, Unlisted
<1>. QED
  BY <1>1, <1>3, <1>4, <1>5, SweepQuiet

LEMMA StepRests ==
  ASSUME SchedulesInv, DueSchedulesFails \/ NothingDue \/ SweepPanics
  PROVE  SchedulesInv'
<1>1. CASE DueSchedulesFails
  <2>1. firing.id = Absent
    BY <1>1 DEF SchedulesInv, FiresOne, DueSchedulesFails, NotFiring
  <2>. QED
    BY <1>1, <2>1, Mishaps, StepRest DEF DueSchedulesFails
<1>2. CASE NothingDue
  <2>1. firing.id = Absent
    BY <1>2 DEF SchedulesInv, FiresOne, NothingDue, NotFiring
  <2>2. mishaps' \in 0 .. MaxMishaps
    BY <1>2 DEF NothingDue, SchedulesInv, SchedulesTypeOK
  <2>. QED
    BY <1>2, <2>1, <2>2, StepRest DEF NothingDue
<1>3. CASE SweepPanics
  BY <1>3, Mishaps, StepRest DEF SweepPanics
<1>. QED
  BY <1>1, <1>2, <1>3

\* Steps that leave the list and the promises alone.
LEMMA StepSameList ==
  ASSUME SchedulesInv, SweepSteps, UNCHANGED <<schedule, ran, promised, overwritten, due>>,
         mishaps' \in 0 .. MaxMishaps, sweep' \in SweepStages, ticker' \in TickerStates,
         firing' \in Firings,
         disturbed' \in SUBSET Schedules, disturbed \subseteq disturbed',
         firing.id = Absent \/ firing'.id = firing.id \/ firing.id \in disturbed',
         FiresOne(sweep', firing', given, promised, disturbed')
  PROVE  SchedulesInv'
<1>1. /\ due' \in SUBSET Listed
      /\ \A d \in due' : ListedIsDue(d, given, promised, now, disturbed')
      /\ ListedOnce(due')
  BY DEF SchedulesInv, SchedulesTypeOK, ListedIsDue
<1>. QED
  BY <1>1, SweepQuiet

LEMMA StepSweep ==
  ASSUME SchedulesInv, Tick \/ ScanStarts \/ ScanFails \/ RecordFails \/ StartServer
  PROVE  SchedulesInv'
<1>0. /\ firing \in Firings /\ disturbed \in SUBSET Schedules /\ ticker \in TickerStates
      /\ mishaps \in 0 .. MaxMishaps
      /\ FiresOne(sweep, firing, given, promised, disturbed)
  BY DEF SchedulesInv, SchedulesTypeOK, Firings, TickerStates
<1>1. CASE Tick
  <2>1. FiresOne(sweep', firing, given, promised, disturbed) /\ sweep' \in SweepStages /\ ticker' \in TickerStates
    BY <1>0, <1>1 DEF Tick, FiresOne, SweepStages, TickerStates
  <2>. QED
    BY <1>0, <1>1, <2>1, StepSameList DEF Tick
<1>2. CASE ScanStarts
  <2>1. /\ firing' \in Firings /\ firing'.id = firing.id /\ firing'.next = firing.next
    BY <1>0, <1>2 DEF ScanStarts, Firings
  <2>2. sweep = "scan" /\ sweep' = "record" /\ sweep' \in SweepStages
    BY <1>2 DEF ScanStarts, SweepStages
  <2>3. FiresOne(sweep', firing', given, promised, disturbed)
    BY <1>0, <2>1, <2>2 DEF FiresOne
  <2>. QED
    BY <1>0, <1>2, <2>1, <2>2, <2>3, StepSameList DEF ScanStarts
<1>3. CASE ScanFails
  <2>1. FiresOne(sweep', firing, given, promised, disturbed) /\ sweep' \in SweepStages
    BY <1>0, <1>3 DEF ScanFails, FiresOne, SweepStages
  <2>. QED
    BY <1>0, <1>3, <2>1, Mishaps, StepSameList DEF ScanFails
<1>4. CASE RecordFails
  <2>1. sweep = "record" /\ sweep' = "fire" /\ firing' = NotFiring /\ disturbed' = disturbed \cup {firing.id}
    BY <1>4 DEF RecordFails
  <2>2. firing.id \in Schedules
    BY <1>0, <2>1, SchedulesAssumption DEF Firings, FiresOne
  <2>3. sweep' \in SweepStages /\ disturbed' \in SUBSET Schedules /\ firing.id \in disturbed'
    BY <1>0, <2>1, <2>2 DEF SweepStages
  <2>4. firing' \in Firings /\ FiresOne(sweep', firing', given, promised, disturbed')
    BY <2>1, Resting DEF Firings
  <2>5. SweepSteps /\ UNCHANGED <<schedule, ran, promised, overwritten, due, ticker>>
    BY <1>4 DEF RecordFails
  <2>6. mishaps' \in 0 .. MaxMishaps
    BY <1>4, Mishaps DEF RecordFails
  <2>. QED
    BY <1>0, <2>1, <2>3, <2>4, <2>5, <2>6, StepSameList
<1>5. CASE StartServer
  <2>1. FiresOne(sweep', firing, given, promised, disturbed) /\ sweep' \in SweepStages
    BY <1>0, <1>5 DEF StartServer, FiresOne, SweepStages
  <2>. QED
    BY <1>0, <1>5, <2>1, StepSameList DEF StartServer
<1>. QED
  BY <1>1, <1>2, <1>3, <1>4, <1>5

LEMMA StepDueSchedules ==
  ASSUME SchedulesInv, DueSchedules
  PROVE  SchedulesInv'
<1>1. /\ sweep = "list" /\ sweep' = "fire"
      /\ due' = {[id |-> s, copy |-> schedule[s]] : s \in {t \in Schedules : IsDue(t)}}
      /\ SweepSteps
      /\ UNCHANGED <<schedule, ticker, firing, mishaps, ran, promised, disturbed, overwritten>>
  BY DEF DueSchedules
<1>2. firing = NotFiring
  BY <1>1 DEF SchedulesInv, FiresOne
<1>3. \A d \in due' : /\ d \in [id: Schedules, copy: Rows] /\ d.copy = schedule[d.id] /\ IsDue(d.id)
  BY <1>1 DEF SchedulesInv, SchedulesTypeOK, IsDue, Live
<1>4. ListedOnce(due')
  <2>1. ASSUME NEW c \in due', NEW d \in due', c.id = d.id
        PROVE  c = d
    BY <1>3, <2>1
  <2>. QED
    BY <2>1 DEF ListedOnce
<1>5. ASSUME NEW d \in due'
      PROVE  ListedIsDue(d, given, promised, now, disturbed)
  <2>1. d.id \in Schedules /\ schedule[d.id] # Absent /\ schedule[d.id].next <= now
    BY <1>3 DEF IsDue, Live
  <2>2. d.id # firing.id
    BY <1>2, <2>1, Resting, SchedulesAssumption
  <2>3. schedule[d.id].next = promised[d.id] \/ d.id \in disturbed
    BY <2>1, <2>2 DEF SchedulesInv, SchedulesHold, Live
  <2>4. d.id \in given
    BY <2>1 DEF SchedulesInv, UnusedIds
  <2>. QED
    BY <2>1, <2>3, <2>4 DEF ListedIsDue
<1>6. due' \in SUBSET Listed
  BY <1>3 DEF Listed
<1>7. /\ FiresOne(sweep', firing', given, promised, disturbed')
      /\ firing' \in Firings /\ sweep' \in SweepStages /\ ticker' \in TickerStates
      /\ disturbed' \in SUBSET Schedules /\ mishaps' \in 0 .. MaxMishaps
  BY <1>1, <1>2, Resting DEF SchedulesInv, SchedulesTypeOK, Firings, SweepStages, TickerStates
<1>. QED
  BY <1>1, <1>4, <1>5, <1>6, <1>7, SweepQuiet

LEMMA StepFireSchedule ==
  ASSUME SchedulesInv, NEW d \in due, FireSchedule(d)
  PROVE  SchedulesInv'
<1>1. d \in [id: Schedules, copy: Rows] /\ ListedIsDue(d, given, promised, now, disturbed)
  BY DEF SchedulesInv, SchedulesTypeOK, Listed
<1>2. PICK s \in Schedules : s = d.id /\ s \in given
  BY <1>1 DEF ListedIsDue
<1>3. PICK next \in Nat : next = now + d.copy.interval
  BY <1>1, SchedulesAssumption DEF SchedulesInv, SchedulesTypeOK, Rows
<1>4. PICK f : f = [id |-> s, at |-> now, next |-> next, scan |-> FALSE]
  OBVIOUS
<1>5. f \in Firings /\ f.id = s /\ f.next = next /\ s # Absent
  BY <1>4, SchedulesAssumption DEF Firings, SchedulesInv, SchedulesTypeOK
<1>6. /\ sweep = "fire" /\ sweep' = "scan"
      /\ firing' = f
      /\ due' = due \ {d}
      /\ promised' = [promised EXCEPT ![s] = next]
      /\ disturbed' = IF d.copy = schedule[s] THEN disturbed \ {s} ELSE disturbed \cup {s}
      /\ SweepSteps /\ UNCHANGED <<schedule, ticker, mishaps, ran, overwritten>>
  BY <1>2, <1>3, <1>4 DEF FireSchedule
<1>7. firing.id = Absent
  BY <1>6, Resting DEF SchedulesInv, FiresOne
<1>8. /\ promised'[s] = next
      /\ \A r \in Schedules \ {s} : /\ promised'[r] = promised[r]
                                    /\ r \in disturbed' <=> r \in disturbed
  BY <1>6 DEF SchedulesInv, SchedulesTypeOK
<1>9. SchedulesTypeOK'
  <2>1. promised' \in [Schedules -> Nat] /\ disturbed' \in SUBSET Schedules
    BY <1>6 DEF SchedulesInv, SchedulesTypeOK
  <2>2. due' \in SUBSET Listed /\ firing' \in Firings
    BY <1>5, <1>6 DEF SchedulesInv, SchedulesTypeOK
  <2>. QED
    BY <1>6, <2>1, <2>2 DEF SchedulesInv, SchedulesTypeOK, SweepSteps, Firings
<1>10. SchedulesHold'
  <2>1. ASSUME NEW r \in Schedules
        PROVE  /\ schedule[r] # Absent <=> wanted[r] # Absent
               /\ schedule[r] # Absent =>
                    /\ [interval |-> schedule[r].interval, enabled |-> schedule[r].enabled] = wanted[r]
                    /\ schedule[r].last = ran[r] \/ r \in overwritten
                    /\ schedule[r].next = promised'[r] \/ r \in disturbed' \/ r = firing'.id
    <3>1. /\ schedule[r] # Absent <=> wanted[r] # Absent
          /\ schedule[r] # Absent =>
               /\ [interval |-> schedule[r].interval, enabled |-> schedule[r].enabled] = wanted[r]
               /\ schedule[r].last = ran[r] \/ r \in overwritten
               /\ schedule[r].next = promised[r] \/ r \in disturbed \/ r = firing.id
      BY DEF SchedulesInv, SchedulesHold, Live
    <3>2. r # firing.id
      BY <1>7, SchedulesAssumption
    <3>. QED
      BY <1>5, <1>6, <1>8, <3>1, <3>2
  <2>. QED
    BY <1>6, <2>1 DEF SchedulesHold, Live, SweepSteps
<1>11. UnusedIds' /\ \A e \in Editors : EditReads(editor'[e], given', ran', overwritten')
  BY <1>6 DEF SchedulesInv, UnusedIds, SweepSteps
<1>12. ASSUME NEW c \in due'
       PROVE  ListedIsDue(c, given', promised', now', disturbed')
  <2>1. c \in due /\ c # d
    BY <1>6
  <2>2. c.id \in Schedules \ {s}
    BY <1>2, <2>1 DEF SchedulesInv, SchedulesTypeOK, Listed, ListedOnce
  <2>3. ListedIsDue(c, given, promised, now, disturbed)
    BY <2>1 DEF SchedulesInv
  <2>. QED
    BY <1>6, <1>8, <2>2, <2>3 DEF ListedIsDue, SweepSteps
<1>13. ListedOnce(due')
  BY <1>6 DEF SchedulesInv, ListedOnce
<1>14. FiresOne(sweep', firing', given', promised', disturbed')
  BY <1>2, <1>5, <1>6, <1>8 DEF FiresOne, SweepSteps
<1>. QED
  BY <1>9, <1>10, <1>11, <1>12, <1>13, <1>14 DEF SchedulesInv

LEMMA StepRecordScheduleRun ==
  ASSUME SchedulesInv, RecordScheduleRun
  PROVE  SchedulesInv'
<1>1. PICK f \in Firings : f = firing
  BY DEF SchedulesInv, SchedulesTypeOK, Firings
<1>2. /\ sweep = "record" /\ sweep' = "fire" /\ firing' = NotFiring
      /\ UNCHANGED <<given, now, ticker, due, requests, mishaps, wanted, promised, disturbed>>
  BY DEF RecordScheduleRun
<1>3. PICK s \in Schedules : s = f.id
  BY <1>1, <1>2 DEF SchedulesInv, FiresOne, Firings
<1>4. s \in given /\ (f.next = promised[s] \/ s \in disturbed)
  BY <1>1, <1>3, SchedulesAssumption DEF SchedulesInv, FiresOne
<1>5. PICK last \in Runs : last = LastRun
  BY <1>1 DEF LastRun, Runs, Firings
<1>6. NotFiring \in Firings /\ sweep' \in SweepStages /\ NotFiring.id = Absent
  BY <1>2, Resting DEF Firings, SweepStages
<1>7. FiresOne(sweep', firing', given', promised', disturbed')
  BY <1>2, Resting
<1>8. /\ \A d \in due' : ListedIsDue(d, given', promised', now', disturbed')
      /\ ListedOnce(due')
  BY <1>2 DEF SchedulesInv
<1>9. ASSUME NEW r \in Schedules
      PROVE  /\ schedule[r] # Absent <=> wanted[r] # Absent
             /\ schedule[r] # Absent =>
                  /\ [interval |-> schedule[r].interval, enabled |-> schedule[r].enabled] = wanted[r]
                  /\ schedule[r].last = ran[r] \/ r \in overwritten
                  /\ schedule[r].next = promised[r] \/ r \in disturbed \/ r = s
  BY <1>1, <1>3 DEF SchedulesInv, SchedulesHold, Live
<1>10. CASE schedule[s] = Absent
  <2>1. UNCHANGED <<schedule, ran, overwritten, editor>>
    BY <1>1, <1>3, <1>10 DEF RecordScheduleRun, Live
  <2>2. SchedulesTypeOK'
    BY <1>2, <1>6, <2>1 DEF SchedulesInv, SchedulesTypeOK, Firings, SweepStages
  <2>3. SchedulesHold'
    BY <1>2, <1>9, <1>10, <2>1 DEF SchedulesHold, Live
  <2>4. UnusedIds' /\ \A e \in Editors : EditReads(editor'[e], given', ran', overwritten')
    BY <1>2, <2>1 DEF SchedulesInv, UnusedIds
  <2>. QED
    BY <1>7, <1>8, <2>2, <2>3, <2>4 DEF SchedulesInv
<1>11. CASE schedule[s] # Absent
  <2>1. PICK old \in Rows : old = schedule[s]
    BY <1>11 DEF SchedulesInv, SchedulesTypeOK
  <2>2. PICK plan : plan = [[old EXCEPT !.last = last] EXCEPT !.next = f.next]
    OBVIOUS
  <2>3. /\ plan \in Rows /\ plan # Absent
        /\ plan.interval = old.interval /\ plan.enabled = old.enabled
        /\ plan.last = last /\ plan.next = f.next
    <3>1. /\ plan \in Rows
          /\ plan.interval = old.interval /\ plan.enabled = old.enabled
          /\ plan.last = last /\ plan.next = f.next
      BY <1>5, <2>1, <2>2 DEF Rows, Firings
    <3>. QED
      BY <3>1, SchedulesAssumption DEF Rows, Runs
  <2>4. /\ schedule' = [schedule EXCEPT ![s] = plan]
        /\ ran' = [ran EXCEPT ![s] = last]
        /\ overwritten' = overwritten \ {s}
        /\ editor' = [e \in Editors |-> IF editor[e].id = s THEN [editor[e] EXCEPT !.overtaken = TRUE]
                                        ELSE editor[e]]
    BY <1>1, <1>3, <1>5, <1>11, <2>1, <2>2 DEF RecordScheduleRun, Recorded, Live, Overtake
  <2>5. /\ schedule'[s] = plan /\ ran'[s] = last
        /\ \A r \in Schedules \ {s} : schedule'[r] = schedule[r] /\ ran'[r] = ran[r]
    BY <2>4 DEF SchedulesInv, SchedulesTypeOK
  <2>6. ASSUME NEW e \in Editors
        PROVE  /\ editor'[e] \in [id: Schedules \cup {Absent}, last: Runs, overtaken: BOOLEAN]
               /\ EditReads(editor'[e], given', ran', overwritten')
    <3>1. PICK ed \in [id: Schedules \cup {Absent}, last: Runs, overtaken: BOOLEAN] : ed = editor[e]
      BY DEF SchedulesInv, SchedulesTypeOK
    <3>2. EditReads(ed, given, ran, overwritten)
      BY <3>1 DEF SchedulesInv
    <3>3. CASE ed.id = s
      <4>1. PICK new : new = [ed EXCEPT !.overtaken = TRUE]
        OBVIOUS
      <4>2. /\ new \in [id: Schedules \cup {Absent}, last: Runs, overtaken: BOOLEAN]
            /\ new.id = s /\ new.overtaken = TRUE
        BY <3>3, <4>1
      <4>3. editor'[e] = new
        BY <2>4, <3>1, <3>3, <4>1
      <4>. QED
        BY <1>2, <1>4, <4>2, <4>3 DEF EditReads
    <3>4. CASE ed.id # s
      <4>1. editor'[e] = ed
        BY <2>4, <3>1, <3>4
      <4>2. ed.id # Absent => ed.id \in Schedules \ {s}
        BY <3>4
      <4>3. EditReads(ed, given', ran', overwritten')
        BY <1>2, <2>4, <2>5, <3>2, <4>2 DEF EditReads
      <4>. QED
        BY <4>1, <4>3
    <3>. QED
      BY <3>3, <3>4
  <2>7. SchedulesTypeOK'
    <3>1. schedule' \in [Schedules -> Rows \cup {Absent}] /\ ran' \in [Schedules -> Runs]
      BY <2>3, <2>4 DEF SchedulesInv, SchedulesTypeOK
    <3>2. editor' \in [Editors -> [id: Schedules \cup {Absent}, last: Runs, overtaken: BOOLEAN]]
      <4>1. editor' = [e \in Editors |-> editor'[e]]
        BY <2>4
      <4>. QED
        BY <2>6, <4>1
    <3>3. overwritten' \in SUBSET Schedules
      BY <2>4 DEF SchedulesInv, SchedulesTypeOK
    <3>. QED
      BY <1>2, <1>6, <3>1, <3>2, <3>3 DEF SchedulesInv, SchedulesTypeOK, Firings, SweepStages
  <2>8. SchedulesHold'
    <3>1. ASSUME NEW r \in Schedules
          PROVE  /\ schedule'[r] # Absent <=> wanted'[r] # Absent
                 /\ schedule'[r] # Absent =>
                      /\ [interval |-> schedule'[r].interval, enabled |-> schedule'[r].enabled] = wanted'[r]
                      /\ schedule'[r].last = ran'[r] \/ r \in overwritten'
                      /\ schedule'[r].next = promised'[r] \/ r \in disturbed' \/ r = firing'.id
      <4>1. CASE r = s
        BY <1>2, <1>4, <1>9, <1>11, <2>1, <2>3, <2>5, <4>1
      <4>2. CASE r # s
        BY <1>2, <1>9, <2>4, <2>5, <4>2
      <4>. QED
        BY <4>1, <4>2
    <3>. QED
      BY <3>1 DEF SchedulesHold, Live
  <2>9. UnusedIds'
    BY <1>2, <1>4, <2>5 DEF SchedulesInv, UnusedIds
  <2>. QED
    BY <1>7, <1>8, <2>6, <2>7, <2>8, <2>9 DEF SchedulesInv
<1>. QED
  BY <1>10, <1>11

EditRecords == [id: Schedules \cup {Absent}, last: Runs, overtaken: BOOLEAN]

LEMMA NothingRead ==
  /\ NotEditing \in EditRecords
  /\ \A gi, rn, ov : EditReads(NotEditing, gi, rn, ov)
  BY DEF NotEditing, EditRecords, EditReads, Runs, Never

LEMMA StepStopServer ==
  ASSUME SchedulesInv, StopServer
  PROVE  SchedulesInv'
<1>1. /\ sweep' = "none" /\ ticker' = "none" /\ due' = {} /\ firing' = NotFiring
      /\ editor' = [e \in Editors |-> NotEditing]
      /\ disturbed' = disturbed \cup ({firing.id} \ {Absent})
      /\ UNCHANGED <<schedule, given, now, requests, wanted, ran, promised, overwritten>>
  BY DEF StopServer, BrokenOff
<1>2. mishaps' \in 0 .. MaxMishaps
  BY Mishaps DEF StopServer
<1>3. /\ disturbed' \in SUBSET Schedules /\ disturbed \subseteq disturbed'
      /\ firing.id = Absent \/ firing.id \in disturbed'
  BY <1>1 DEF SchedulesInv, SchedulesTypeOK
<1>4. editor' \in [Editors -> EditRecords]
  BY <1>1, NothingRead
<1>5. SchedulesTypeOK'
  BY <1>1, <1>2, <1>3, <1>4, Resting, Unlisted DEF SchedulesInv, SchedulesTypeOK, EditRecords
<1>6. \A e \in Editors : EditReads(editor'[e], given, ran, overwritten)
  BY <1>1, NothingRead
<1>7. /\ \A d \in due' : ListedIsDue(d, given, promised, now', disturbed')
      /\ ListedOnce(due')
      /\ FiresOne(sweep', firing', given, promised, disturbed')
  BY <1>1, Resting, Unlisted
<1>. QED
  BY <1>1, <1>3, <1>5, <1>6, <1>7, StepQuiet

LEMMA StepMinute ==
  ASSUME SchedulesInv, Minute
  PROVE  SchedulesInv'
<1>1. /\ now' \in 0 .. Horizon /\ now <= now' /\ now \in Nat /\ now' \in Nat
      /\ ticker' \in TickerStates
  BY SchedulesAssumption DEF Minute, SchedulesInv, SchedulesTypeOK, TickerStates
<1>2. UNCHANGED <<schedule, given, sweep, due, firing, editor, requests, mishaps, scheduleHistory>>
  BY DEF Minute
<1>3. SchedulesTypeOK'
  BY <1>1, <1>2 DEF SchedulesInv, SchedulesTypeOK, scheduleHistory, TickerStates
<1>4. ASSUME NEW d \in due
      PROVE  ListedIsDue(d, given, promised, now', disturbed)
  <2>1. ListedIsDue(d, given, promised, now, disturbed) /\ d.id \in Schedules
    BY DEF SchedulesInv, SchedulesTypeOK, Listed
  <2>2. promised[d.id] \in Nat
    BY <2>1 DEF SchedulesInv, SchedulesTypeOK
  <2>. QED
    BY <1>1, <2>1, <2>2 DEF ListedIsDue
<1>. QED
  BY <1>2, <1>3, <1>4, StepQuiet DEF scheduleHistory, SchedulesInv

\* A step of one edit that leaves the rows alone.
LEMMA StepEditor ==
  ASSUME SchedulesInv, NEW e \in Editors, NEW ed \in EditRecords,
         editor' = [editor EXCEPT ![e] = ed], EditReads(ed, given, ran, overwritten),
         UNCHANGED <<schedule, given, now, sweepVars, scheduleHistory>>,
         requests' \in 0 .. MaxRequests, mishaps' \in 0 .. MaxMishaps
  PROVE  SchedulesInv'
<1>1. SchedulesTypeOK'
  <2>1. editor' \in [Editors -> EditRecords]
    BY DEF SchedulesInv, SchedulesTypeOK, EditRecords
  <2>. QED
    BY <2>1 DEF SchedulesInv, SchedulesTypeOK, EditRecords, sweepVars, scheduleHistory
<1>2. \A c \in Editors : EditReads(editor'[c], given, ran, overwritten)
  BY DEF SchedulesInv, SchedulesTypeOK
<1>. QED
  BY <1>1, <1>2, StepQuiet DEF SchedulesInv, sweepVars, scheduleHistory

LEMMA StepBeginEdit ==
  ASSUME SchedulesInv, NEW e \in Editors, NEW s \in Schedules, BeginEdit(e, s)
  PROVE  SchedulesInv'
<1>1. PICK plan \in Rows : plan = schedule[s]
  BY DEF BeginEdit, Live, SchedulesInv, SchedulesTypeOK
<1>2. PICK ed : ed = [id |-> s, last |-> plan.last, overtaken |-> FALSE]
  OBVIOUS
<1>3. ed \in EditRecords /\ ed.id = s /\ ed.last = plan.last
  BY <1>1, <1>2 DEF EditRecords, Rows
<1>4. s \in given /\ (plan.last = ran[s] \/ s \in overwritten)
  BY <1>1 DEF BeginEdit, Live, SchedulesInv, SchedulesHold, UnusedIds
<1>5. EditReads(ed, given, ran, overwritten)
  BY <1>3, <1>4 DEF EditReads
<1>6. /\ editor' = [editor EXCEPT ![e] = ed]
      /\ UNCHANGED <<schedule, given, now, sweepVars, mishaps, scheduleHistory>>
  BY <1>1, <1>2 DEF BeginEdit
<1>7. requests' \in 0 .. MaxRequests /\ mishaps' \in 0 .. MaxMishaps
  BY <1>6, Requesting DEF BeginEdit, SchedulesInv, SchedulesTypeOK
<1>. QED
  BY <1>3, <1>5, <1>6, <1>7, StepEditor

LEMMA StepEditFails ==
  ASSUME SchedulesInv, NEW e \in Editors, EditFails(e)
  PROVE  SchedulesInv'
<1>1. /\ editor' = [editor EXCEPT ![e] = NotEditing]
      /\ UNCHANGED <<schedule, given, now, sweepVars, requests, scheduleHistory>>
  BY DEF EditFails
<1>2. requests' \in 0 .. MaxRequests /\ mishaps' \in 0 .. MaxMishaps
  BY <1>1, Mishaps DEF EditFails, SchedulesInv, SchedulesTypeOK
<1>. QED
  BY <1>1, <1>2, NothingRead, StepEditor

LEMMA StepCreateSchedule ==
  ASSUME SchedulesInv, NEW s \in Schedules, NEW i \in Intervals, CreateSchedule(s, i)
  PROVE  SchedulesInv'
<1>1. PICK next \in Nat : next = now + i
  BY SchedulesAssumption DEF SchedulesInv, SchedulesTypeOK
<1>2. PICK plan : plan = [interval |-> i, enabled |-> TRUE, last |-> Never, next |-> next]
  OBVIOUS
<1>3. PICK want : want = [interval |-> i, enabled |-> TRUE]
  OBVIOUS
<1>4. /\ plan \in Rows /\ plan # Absent
      /\ plan.interval = i /\ plan.enabled = TRUE /\ plan.last = Never /\ plan.next = next
      /\ want \in [interval: Intervals, enabled: BOOLEAN] /\ want # Absent
  <2>1. /\ plan \in Rows /\ plan.interval = i /\ plan.enabled = TRUE /\ plan.last = Never /\ plan.next = next
    BY <1>2, NothingRead DEF Rows, Runs, Never
  <2>2. want \in [interval: Intervals, enabled: BOOLEAN]
    BY <1>3
  <2>. QED
    BY <2>1, <2>2, SchedulesAssumption DEF Rows, Runs
<1>5. /\ Request /\ s \notin given /\ given' = given \cup {s}
      /\ schedule' = [schedule EXCEPT ![s] = plan]
      /\ wanted' = [wanted EXCEPT ![s] = want]
      /\ promised' = [promised EXCEPT ![s] = next]
      /\ UNCHANGED <<now, sweepVars, editor, mishaps, ran, disturbed, overwritten>>
  BY <1>1, <1>2, <1>3 DEF CreateSchedule
<1>6. /\ schedule'[s] = plan /\ wanted'[s] = want /\ promised'[s] = next
      /\ \A r \in Schedules \ {s} : /\ schedule'[r] = schedule[r] /\ wanted'[r] = wanted[r]
                                    /\ promised'[r] = promised[r]
  BY <1>5 DEF SchedulesInv, SchedulesTypeOK
<1>7. SchedulesTypeOK'
  <2>1. /\ schedule' \in [Schedules -> Rows \cup {Absent}]
        /\ wanted' \in [Schedules -> [interval: Intervals, enabled: BOOLEAN] \cup {Absent}]
        /\ promised' \in [Schedules -> Nat]
        /\ given' \in SUBSET Schedules
    BY <1>4, <1>5 DEF SchedulesInv, SchedulesTypeOK
  <2>2. requests' \in 0 .. MaxRequests
    BY <1>5, Requesting
  <2>. QED
    BY <1>5, <2>1, <2>2 DEF SchedulesInv, SchedulesTypeOK, sweepVars
<1>8. ran[s] = Never
  BY <1>5 DEF SchedulesInv, UnusedIds
<1>9. SchedulesHold'
  <2>1. ASSUME NEW r \in Schedules
        PROVE  /\ schedule'[r] # Absent <=> wanted'[r] # Absent
               /\ schedule'[r] # Absent =>
                    /\ [interval |-> schedule'[r].interval, enabled |-> schedule'[r].enabled] = wanted'[r]
                    /\ schedule'[r].last = ran[r] \/ r \in overwritten
                    /\ schedule'[r].next = promised'[r] \/ r \in disturbed \/ r = firing.id
    <3>1. CASE r = s
      BY <1>3, <1>4, <1>6, <1>8, <3>1
    <3>2. CASE r # s
      BY <1>6, <3>2 DEF SchedulesInv, SchedulesHold, Live
    <3>. QED
      BY <3>1, <3>2
  <2>. QED
    BY <1>5, <2>1 DEF SchedulesHold, Live, sweepVars
<1>10. UnusedIds'
  BY <1>5, <1>6 DEF SchedulesInv, UnusedIds
<1>11. \A e \in Editors : EditReads(editor'[e], given', ran', overwritten')
  BY <1>5 DEF SchedulesInv, EditReads
<1>12. ASSUME NEW d \in due'
       PROVE  ListedIsDue(d, given', promised', now', disturbed')
  <2>1. d.id \in Schedules \ {s} /\ ListedIsDue(d, given, promised, now, disturbed)
    BY <1>5 DEF SchedulesInv, SchedulesTypeOK, Listed, ListedIsDue, sweepVars
  <2>. QED
    BY <1>5, <1>6, <2>1 DEF ListedIsDue
<1>13. ListedOnce(due')
  BY <1>5 DEF SchedulesInv, sweepVars
<1>14. FiresOne(sweep', firing', given', promised', disturbed')
  <2>1. FiresOne(sweep, firing, given, promised, disturbed)
    BY DEF SchedulesInv
  <2>2. firing.id # Absent => firing.id \in Schedules \ {s}
    BY <1>5, <2>1 DEF SchedulesInv, SchedulesTypeOK, FiresOne
  <2>. QED
    BY <1>5, <1>6, <2>1, <2>2 DEF FiresOne, sweepVars
<1>. QED
  BY <1>7, <1>9, <1>10, <1>11, <1>12, <1>13, <1>14 DEF SchedulesInv

LEMMA StepDeleteSchedule ==
  ASSUME SchedulesInv, NEW s \in Schedules, DeleteSchedule(s)
  PROVE  SchedulesInv'
<1>1. /\ Request
      /\ schedule' = [schedule EXCEPT ![s] = Absent]
      /\ wanted' = [wanted EXCEPT ![s] = Absent]
      /\ UNCHANGED <<given, now, sweepVars, editor, mishaps, ran, promised, disturbed, overwritten>>
  BY DEF DeleteSchedule
<1>2. SchedulesTypeOK'
  <2>1. /\ schedule' \in [Schedules -> Rows \cup {Absent}]
        /\ wanted' \in [Schedules -> [interval: Intervals, enabled: BOOLEAN] \cup {Absent}]
    BY <1>1 DEF SchedulesInv, SchedulesTypeOK
  <2>2. requests' \in 0 .. MaxRequests
    BY <1>1, Requesting
  <2>. QED
    BY <1>1, <2>1, <2>2 DEF SchedulesInv, SchedulesTypeOK, sweepVars
<1>3. /\ schedule'[s] = Absent /\ wanted'[s] = Absent
      /\ \A r \in Schedules \ {s} : schedule'[r] = schedule[r] /\ wanted'[r] = wanted[r]
  BY <1>1 DEF SchedulesInv, SchedulesTypeOK
<1>4. SchedulesHold'
  <2>1. ASSUME NEW r \in Schedules
        PROVE  /\ schedule'[r] # Absent <=> wanted'[r] # Absent
               /\ schedule'[r] # Absent =>
                    /\ [interval |-> schedule'[r].interval, enabled |-> schedule'[r].enabled] = wanted'[r]
                    /\ schedule'[r].last = ran[r] \/ r \in overwritten
                    /\ schedule'[r].next = promised[r] \/ r \in disturbed \/ r = firing.id
    BY <1>3 DEF SchedulesInv, SchedulesHold, Live
  <2>. QED
    BY <1>1, <2>1 DEF SchedulesHold, Live, sweepVars
<1>5. UnusedIds'
  BY <1>1, <1>3 DEF SchedulesInv, UnusedIds
<1>. QED
  BY <1>1, <1>2, <1>4, <1>5 DEF SchedulesInv, sweepVars

LEMMA StepSaveEdit ==
  ASSUME SchedulesInv, NEW e \in Editors, NEW i \in Intervals, NEW on \in BOOLEAN, SaveEdit(e, i, on)
  PROVE  SchedulesInv'
<1>1. PICK ed \in EditRecords : ed = editor[e]
  BY DEF SchedulesInv, SchedulesTypeOK, EditRecords
<1>2. PICK s \in Schedules : s = ed.id
  BY <1>1 DEF SaveEdit, EditRecords
<1>3. s \in given /\ (ed.overtaken \/ ed.last = ran[s] \/ s \in overwritten)
  BY <1>1, <1>2, SchedulesAssumption DEF SchedulesInv, EditReads
<1>4. /\ editor' = [editor EXCEPT ![e] = NotEditing]
      /\ UNCHANGED <<given, now, sweepVars, requests, mishaps, ran>>
  BY DEF SaveEdit
<1>5. CASE schedule[s] = Absent
  <2>1. UNCHANGED <<schedule, wanted, promised, disturbed, overwritten>>
    BY <1>1, <1>2, <1>5 DEF SaveEdit, Live
  <2>. QED
    BY <1>4, <2>1, NothingRead, StepEditor DEF scheduleHistory, SchedulesInv, SchedulesTypeOK
<1>6. CASE schedule[s] # Absent
  <2>1. PICK next \in Nat : next = now + i
    BY SchedulesAssumption DEF SchedulesInv, SchedulesTypeOK
  <2>2. PICK plan : plan = [interval |-> i, enabled |-> on, last |-> ed.last, next |-> next]
    OBVIOUS
  <2>3. PICK want : want = [interval |-> i, enabled |-> on]
    OBVIOUS
  <2>4. /\ plan \in Rows /\ plan # Absent
        /\ plan.interval = i /\ plan.enabled = on /\ plan.last = ed.last /\ plan.next = next
        /\ want \in [interval: Intervals, enabled: BOOLEAN] /\ want # Absent
    <3>1. /\ plan \in Rows /\ plan.interval = i /\ plan.enabled = on /\ plan.last = ed.last /\ plan.next = next
      BY <2>2 DEF Rows, EditRecords
    <3>2. want \in [interval: Intervals, enabled: BOOLEAN]
      BY <2>3
    <3>. QED
      BY <3>1, <3>2, SchedulesAssumption DEF Rows, Runs
  <2>5. /\ schedule' = [schedule EXCEPT ![s] = plan]
        /\ wanted' = [wanted EXCEPT ![s] = want]
        /\ promised' = [promised EXCEPT ![s] = next]
        /\ disturbed' = IF s \in UnderWay THEN disturbed \cup {s} ELSE disturbed \ {s}
        /\ overwritten' = IF ed.overtaken THEN overwritten \cup {s} ELSE overwritten
    BY <1>1, <1>2, <1>6, <2>1, <2>2, <2>3 DEF SaveEdit, Live
  <2>6. /\ schedule'[s] = plan /\ wanted'[s] = want /\ promised'[s] = next
        /\ \A r \in Schedules \ {s} : /\ schedule'[r] = schedule[r] /\ wanted'[r] = wanted[r]
                                      /\ promised'[r] = promised[r]
                                      /\ r \in disturbed' <=> r \in disturbed
    BY <2>5 DEF SchedulesInv, SchedulesTypeOK
  <2>7. overwritten \subseteq overwritten' /\ (plan.last = ran[s] \/ s \in overwritten')
    BY <1>3, <2>4, <2>5
  <2>8. SchedulesTypeOK'
    <3>1. /\ schedule' \in [Schedules -> Rows \cup {Absent}]
          /\ wanted' \in [Schedules -> [interval: Intervals, enabled: BOOLEAN] \cup {Absent}]
          /\ promised' \in [Schedules -> Nat]
      BY <2>4, <2>5 DEF SchedulesInv, SchedulesTypeOK
    <3>2. disturbed' \in SUBSET Schedules /\ overwritten' \in SUBSET Schedules
      BY <2>5 DEF SchedulesInv, SchedulesTypeOK
    <3>3. editor' \in [Editors -> EditRecords]
      BY <1>4, NothingRead DEF SchedulesInv, SchedulesTypeOK, EditRecords
    <3>. QED
      BY <1>4, <3>1, <3>2, <3>3 DEF SchedulesInv, SchedulesTypeOK, EditRecords, sweepVars
  <2>9. SchedulesHold'
    <3>1. ASSUME NEW r \in Schedules
          PROVE  /\ schedule'[r] # Absent <=> wanted'[r] # Absent
                 /\ schedule'[r] # Absent =>
                      /\ [interval |-> schedule'[r].interval, enabled |-> schedule'[r].enabled] = wanted'[r]
                      /\ schedule'[r].last = ran[r] \/ r \in overwritten'
                      /\ schedule'[r].next = promised'[r] \/ r \in disturbed' \/ r = firing.id
      <4>1. CASE r = s
        BY <2>3, <2>4, <2>6, <2>7, <4>1
      <4>2. CASE r # s
        BY <2>6, <2>7, <4>2 DEF SchedulesInv, SchedulesHold, Live
      <4>. QED
        BY <4>1, <4>2
    <3>. QED
      BY <1>4, <3>1 DEF SchedulesHold, Live, sweepVars
  <2>10. UnusedIds'
    BY <1>3, <1>4, <2>6 DEF SchedulesInv, UnusedIds
  <2>11. ASSUME NEW c \in Editors
         PROVE  EditReads(editor'[c], given', ran', overwritten')
    <3>1. CASE c = e
      BY <1>4, <3>1, NothingRead DEF SchedulesInv, SchedulesTypeOK
    <3>2. CASE c # e
      <4>1. editor'[c] = editor[c]
        BY <1>4, <3>2 DEF SchedulesInv, SchedulesTypeOK
      <4>2. EditReads(editor[c], given, ran, overwritten)
        BY DEF SchedulesInv
      <4>. QED
        BY <1>4, <2>7, <4>1, <4>2 DEF EditReads
    <3>. QED
      BY <3>1, <3>2
  <2>12. ASSUME NEW d \in due'
         PROVE  ListedIsDue(d, given', promised', now', disturbed')
    <3>1. d \in due /\ d.id \in Schedules /\ ListedIsDue(d, given, promised, now, disturbed)
      BY <1>4 DEF SchedulesInv, SchedulesTypeOK, Listed, sweepVars
    <3>2. CASE d.id = s
      <4>1. s \in UnderWay
        BY <3>1, <3>2 DEF UnderWay
      <4>. QED
        BY <1>3, <1>4, <2>5, <3>2, <4>1 DEF ListedIsDue
    <3>3. CASE d.id # s
      BY <1>4, <2>6, <3>1, <3>3 DEF ListedIsDue
    <3>. QED
      BY <3>2, <3>3
  <2>13. ListedOnce(due')
    BY <1>4 DEF SchedulesInv, sweepVars
  <2>14. FiresOne(sweep', firing', given', promised', disturbed')
    <3>1. FiresOne(sweep, firing, given, promised, disturbed) /\ firing.id \in Schedules \cup {Absent}
      BY DEF SchedulesInv, SchedulesTypeOK
    <3>2. firing.id = s => s \in disturbed'
      BY <2>5 DEF UnderWay
    <3>3. firing.id # Absent /\ firing.id # s => firing.next = promised'[firing.id] \/ firing.id \in disturbed'
      BY <2>6, <3>1 DEF FiresOne
    <3>. QED
      BY <1>4, <3>1, <3>2, <3>3 DEF FiresOne, sweepVars
  <2>. QED
    BY <2>8, <2>9, <2>10, <2>11, <2>12, <2>13, <2>14 DEF SchedulesInv
<1>. QED
  BY <1>5, <1>6

LEMMA StepSchedulesInv == SchedulesInv /\ [SchedulesNext]_schedulesVars => SchedulesInv'
<1> SUFFICES ASSUME SchedulesInv, [SchedulesNext]_schedulesVars
             PROVE  SchedulesInv'
  OBVIOUS
<1>1. CASE RequestStep
  BY <1>1, StepCreateSchedule, StepBeginEdit, StepSaveEdit, StepEditFails, StepDeleteSchedule
  DEF RequestStep
<1>2. CASE SweepStep
  BY <1>2, StepRests, StepSweep, StepDueSchedules, StepFireSchedule, StepRecordScheduleRun
  DEF SweepStep
<1>3. CASE StartServer \/ StopServer \/ Minute
  BY <1>3, StepSweep, StepStopServer, StepMinute
<1>4. CASE UNCHANGED schedulesVars
  BY <1>4
  DEF schedulesVars, sweepVars, scheduleHistory, SchedulesInv, SchedulesTypeOK, SchedulesHold, Live,
      UnusedIds
<1>. QED
  BY <1>1, <1>2, <1>3, <1>4 DEF SchedulesNext

LEMMA AlwaysSchedulesInv == SchedulesSpec => []SchedulesInv
  BY InitSchedulesInv, StepSchedulesInv, PTL DEF SchedulesSpec

\* A row says what the last edit and the last firing wrote: for any number of rows, edits and
\* failures, and intervals of any length.
THEOREM SchedulesAreKept == SchedulesSpec => []SchedulesHold
<1>1. SchedulesInv => SchedulesHold
  BY DEF SchedulesInv
<1>. QED
  BY <1>1, AlwaysSchedulesInv, PTL

\* No schedule fires before its time, by the same invariant.
THEOREM SchedulesWaitTheirInterval == SchedulesSpec => OncePerInterval
<1>1. ASSUME SchedulesInv, SchedulesNext
      PROVE  \A d \in due : FireSchedule(d) => now >= promised[d.id] \/ d.id \in disturbed
  <2>1. ASSUME NEW d \in due
        PROVE  now >= promised[d.id] \/ d.id \in disturbed
    <3>1. ListedIsDue(d, given, promised, now, disturbed) /\ d.id \in Schedules
      BY <1>1 DEF SchedulesInv, SchedulesTypeOK, Listed
    <3>2. promised[d.id] \in Nat /\ now \in Nat
      BY <1>1, <3>1, SchedulesAssumption DEF SchedulesInv, SchedulesTypeOK
    <3>. QED
      BY <3>1, <3>2 DEF ListedIsDue
  <2>. QED
    BY <2>1
<1>. QED
  BY <1>1, AlwaysSchedulesInv, PTL DEF SchedulesSpec, OncePerInterval

-----------------------------------------------------------------------------
(* A sweep advances.                                                          *)

LEMMA Smallest ==
  ASSUME NEW S \in SUBSET Nat, S # {}
  PROVE  \E m \in S : \A n \in S : m <= n
<1> DEFINE R == {ss \in Nat \X Nat : ss[1] < ss[2]}
<1>1. IsWellFoundedOn(R, Nat)
  BY NatLessThanWellFounded DEF OpToRel
<1>2. \E m \in S : \A n \in S : ~ (<<n, m>> \in R)
  <2> HIDE DEF R
  <2>. QED
    BY <1>1, WFMin
<1>3. PICK m \in S : \A n \in S : ~ (<<n, m>> \in R)
  BY <1>2
<1>4. ASSUME NEW n \in S PROVE m <= n
  <2>1. m \in Nat /\ n \in Nat /\ <<n, m>> \notin R
    BY <1>3
  <2>. QED
    BY <2>1
<1>. QED
  BY <1>4

\* A server that waits has its ticker; ids given and rows listed are finitely many.
SweepsInv ==
  /\ sweep = "wait" => ticker # "none"
  /\ IsFiniteSet(given)
  /\ IsFiniteSet(due)

\* What can be listed was given an id.
LEMMA DueAreFinite ==
  ASSUME SchedulesInv, SweepsInv, DueSchedules
  PROVE  IsFiniteSet(due')
<1> DEFINE D == {s \in Schedules : IsDue(s)}
           f == [s \in D |-> [id |-> s, copy |-> schedule[s]]]
<1>1. D \subseteq given
  BY DEF IsDue, Live, SchedulesInv, UnusedIds
<1>2. IsFiniteSet(D)
  BY <1>1, FS_Subset DEF SweepsInv
<1>3. due' = {f[s] : s \in D}
  BY DEF DueSchedules
<1>4. f \in Surjection(D, due')
  BY <1>3 DEF Surjection
<1> HIDE DEF D, f
<1>. QED
  BY <1>2, <1>4, FS_Surjection

LEMMA StepSweepsInv == SchedulesInv /\ SweepsInv /\ [SchedulesNext]_schedulesVars => SweepsInv'
<1> SUFFICES ASSUME SchedulesInv, SweepsInv, [SchedulesNext]_schedulesVars PROVE SweepsInv'
  OBVIOUS
<1>1. IsFiniteSet(given')
  <2>1. given' = given \/ \E s \in Schedules : given' = given \cup {s}
    BY DEF SchedulesNext, RequestStep, CreateSchedule, BeginEdit, SaveEdit, EditFails, DeleteSchedule, SweepStep, Tick,
       DueSchedules, DueSchedulesFails, NothingDue, FireSchedule, ScanStarts, ScanFails, RecordScheduleRun, RecordFails,
       SweepPanics, SweepSteps, StartServer, StopServer, Minute, schedulesVars
  <2>. QED
    BY <2>1, FS_AddElement DEF SweepsInv
<1>2. IsFiniteSet(due')
  <2>1. CASE due' = due \/ due' = {} \/ \E d \in due : due' = due \ {d}
    BY <2>1, FS_RemoveElement, FS_EmptySet DEF SweepsInv
  <2>2. CASE DueSchedules
    BY <2>2, DueAreFinite
  <2>3. due' = due \/ due' = {} \/ (\E d \in due : due' = due \ {d}) \/ DueSchedules
    BY DEF SchedulesNext, RequestStep, CreateSchedule, BeginEdit, SaveEdit, EditFails, DeleteSchedule, SweepStep, Tick,
       DueSchedulesFails, NothingDue, FireSchedule, ScanStarts, ScanFails, RecordScheduleRun, RecordFails,
       SweepPanics, SweepSteps, StartServer, StopServer, Minute, Rest, schedulesVars, sweepVars
  <2>. QED
    BY <2>1, <2>2, <2>3
<1>3. sweep' = "wait" => ticker' # "none"
  BY DEF SweepsInv, SchedulesNext, RequestStep, CreateSchedule, BeginEdit, SaveEdit, EditFails, DeleteSchedule, SweepStep, Tick,
     DueSchedules, DueSchedulesFails, NothingDue, FireSchedule, ScanStarts, ScanFails, RecordScheduleRun, RecordFails,
     SweepPanics, SweepSteps, StartServer, StopServer, Minute, Rest, schedulesVars, sweepVars
<1>. QED
  BY <1>1, <1>2, <1>3 DEF SweepsInv

\* What is listed has one that comes first.
LEMMA OneIsFirst ==
  ASSUME SchedulesInv, due # {}
  PROVE  \E d \in due : \A c \in due : d.copy.next <= c.copy.next
<1> DEFINE N == {d.copy.next : d \in due}
<1>1. \A d \in due : d.copy.next \in Nat
  BY DEF SchedulesInv, SchedulesTypeOK, Listed, Rows
<1>2. N \in SUBSET Nat /\ N # {}
  BY <1>1
<1>3. PICK m \in N : \A n \in N : m <= n
  BY <1>2, Smallest
<1>. QED
  BY <1>3

\* A step of the sweep in the midst of its list leaves less of it, or ends it.
LEMMA SweepRunsDown ==
  ASSUME SchedulesInv, SweepsInv, SchedulesNext, sweep \in {"fire", "scan", "record"},
         <<sweep, due, firing>>' # <<sweep, due, firing>>
  PROVE  sweep' \in {"wait", "none"} \/ SweepLeft' < SweepLeft
<1> DEFINE stage == [fire |-> 0, record |-> 1, scan |-> 2]
<1>1. stage["fire"] = 0 /\ stage["record"] = 1 /\ stage["scan"] = 2
  OBVIOUS
<1>2. SweepLeft = 3 * Cardinality(due) + stage[sweep] /\ SweepLeft' = 3 * Cardinality(due') + stage[sweep']
  BY DEF SweepLeft
<1>3. Cardinality(due) \in Nat
  BY FS_CardinalityType DEF SweepsInv
<1>4. \/ sweep' \in {"wait", "none"}
      \/ due' = due /\ <<sweep, sweep'>> \in {<<"scan", "record">>, <<"record", "fire">>}
      \/ sweep = "fire" /\ sweep' = "scan" /\ \E d \in due : due' = due \ {d}
  BY DEF SchedulesNext, RequestStep, CreateSchedule, BeginEdit, SaveEdit, EditFails, DeleteSchedule, SweepStep, Tick,
     DueSchedules, DueSchedulesFails, NothingDue, FireSchedule, ScanStarts, ScanFails, RecordScheduleRun, RecordFails,
     SweepPanics, SweepSteps, StartServer, StopServer, Minute, Rest, sweepVars, Serving
<1> HIDE DEF stage
<1>5. CASE due' = due /\ <<sweep, sweep'>> \in {<<"scan", "record">>, <<"record", "fire">>}
  BY <1>1, <1>2, <1>3, <1>5
<1>6. ASSUME NEW d \in due, due' = due \ {d}, sweep = "fire", sweep' = "scan"
      PROVE  SweepLeft' < SweepLeft
  <2>1. Cardinality(due') = Cardinality(due) - 1
    BY <1>6, FS_RemoveElement DEF SweepsInv
  <2>. QED
    BY <1>1, <1>2, <1>3, <1>6, <2>1
<1>. QED
  BY <1>4, <1>5, <1>6

\* For any number of schedules, edits and mishaps: the goroutine that sweeps is never stuck, and
\* every sweep ends.
THEOREM SweepsAdvance == SchedulesSpec => SweepAdvances
<1>1. SchedulesInit => SweepsInv
  BY FS_EmptySet DEF SchedulesInit, SweepsInv
<1>2. SchedulesInv /\ SweepsInv =>
        (Serving =>
         \/ sweep = "wait" /\ ticker # "none"
         \/ sweep \in {"list", "scan", "record"}
         \/ sweep = "fire" /\ (due = {} \/ \E d \in due : \A c \in due : d.copy.next <= c.copy.next))
  BY OneIsFirst DEF SchedulesInv, SchedulesTypeOK, SweepsInv, Serving
<1>3. SchedulesInv /\ SweepsInv /\ [SchedulesNext]_schedulesVars =>
        [<<sweep, due, firing>>' # <<sweep, due, firing>> /\ sweep \in {"fire", "scan", "record"} =>
          sweep' \in {"wait", "none"} \/ SweepLeft' < SweepLeft]_schedulesVars
  BY SweepRunsDown
<1>. QED
  BY <1>1, <1>2, <1>3, InitSchedulesInv, StepSchedulesInv, StepSweepsInv, PTL DEF SchedulesSpec, SweepAdvances

-----------------------------------------------------------------------------
(* Both halves side by side.                                                  *)

LEMMA StepHalves ==
  [MCNext]_<<discoveryVars, schedulesVars, part>> =>
    [DiscoveryNext]_discoveryVars /\ [SchedulesNext]_schedulesVars
BY DEF MCNext

\* Whatever is proved of scans (run, runProbes) and of schedules (runDueSchedules) by
\* themselves holds of the package.
THEOREM HalvesStandAlone == MCSpec => DiscoverySpec /\ SchedulesSpec
<1>1. MCInit => DiscoveryInit /\ SchedulesInit
  BY DEF MCInit
<1>. QED
  BY <1>1, StepHalves, PTL DEF MCSpec, DiscoverySpec, SchedulesSpec

\* Every row, worker, sweep and edit always holds a value of its type.
THEOREM PackageTypeCorrect == MCSpec => []PackageTypeOK
<1>1. DiscoveryInv /\ SchedulesInv => PackageTypeOK
  BY DEF DiscoveryInv, SchedulesInv, PackageTypeOK
<1>. QED
  BY <1>1, HalvesStandAlone, AlwaysInv, AlwaysSchedulesInv, PTL

=============================================================================
