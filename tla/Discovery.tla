------------------------------ MODULE Discovery ------------------------------
(***************************************************************************)
(* internal/discovery: one scan, from the row POST /discovery/scans        *)
(* inserts to the last write of the goroutine that runs it.                *)
(*                                                                         *)
(* run marks the row running, has runProbes feed the targets (each host    *)
(* and port) through a channel to a pool of workers, waits for all of      *)
(* them, and writes the outcome.  Workers report under a mutex.  All this  *)
(* ends with the server; the next one marks as failed what it finds        *)
(* unfinished.  Scans share nothing but the table, so one is modelled.     *)
(* Abstracted: what a probe finds and how it compares to the inventory.    *)
(***************************************************************************)
EXTENDS Integers, FiniteSets

CONSTANTS
  Total,      \* total_targets; the targets are numbered in the order they are fed
  Workers,    \* the scan's concurrency
  Free,       \* nobody holds the mutex
  MaxFaults   \* bound: how many database writes fail and panics occur

ASSUME DiscoveryAssumption ==
  /\ Total \in Nat \ {0}
  /\ IsFiniteSet(Workers) /\ Workers # {} /\ Free \notin Workers
  /\ MaxFaults \in Nat

VARIABLES
  \* the database
  status, count,   \* the scan's status and scanned_count
  stored,          \* targets with a discovery_result
  \* the server
  up,
  main,            \* what run is at
  canceled,        \* its context is
  feed,            \* the target to be fed next
  closed,          \* the channel is
  worker,          \* worker[w]: at, target, and the count it read
  mutex,
  scanned,         \* sc.ScannedCount
  faults,
  \* history, read by no action
  dropped,         \* targets whose probe or insert failed
  wedged,          \* a worker panicked while it held the mutex
  unwritten        \* a status the row should have had could not be written

row == <<status, count, stored>>
pool == <<feed, closed, worker, mutex, scanned>>
history == <<dropped, wedged, unwritten>>
discoveryVars == <<row, up, main, canceled, pool, faults, history>>

Targets == 1 .. Total
Unfinished == {"pending", "running"}
Finished == {"completed", "partially_completed", "canceled", "failed"}

Idle(stage) == [at |-> stage, target |-> 1, read |-> 0]
NoPool ==
  /\ feed' = 1
  /\ closed' = FALSE
  /\ worker' = [w \in Workers |-> Idle("take")]
  /\ mutex' = Free
  /\ scanned' = 0

DiscoveryTypeOK ==
  /\ status \in {"none"} \cup Unfinished \cup Finished
  /\ count \in 0 .. Total
  /\ stored \in SUBSET Targets
  /\ up \in BOOLEAN
  /\ main \in {"none", "start", "probe", "finish", "audit", "ended"}
  /\ canceled \in BOOLEAN
  /\ feed \in 1 .. Total + 1
  /\ closed \in BOOLEAN
  /\ worker \in [Workers -> [at: {"take", "probe", "lock", "store", "count", "done"},
                             target: Targets, read: 0 .. Total]]
  /\ mutex \in Workers \cup {Free}
  /\ scanned \in 0 .. Total
  /\ faults \in 0 .. MaxFaults
  /\ dropped \in SUBSET Targets
  /\ wedged \in BOOLEAN
  /\ unwritten \in BOOLEAN

DiscoveryInit ==
  /\ status = "none"
  /\ count = 0
  /\ stored = {}
  /\ up = TRUE
  /\ main = "none"
  /\ canceled = FALSE
  /\ feed = 1
  /\ closed = FALSE
  /\ worker = [w \in Workers |-> Idle("take")]
  /\ mutex = Free
  /\ scanned = 0
  /\ faults = 0
  /\ dropped = {}
  /\ wedged = FALSE
  /\ unwritten = FALSE

Fault == faults < MaxFaults /\ faults' = faults + 1

-----------------------------------------------------------------------------
(* Requests.                                                                  *)

CreateScan ==
  /\ up
  /\ status = "none"
  /\ status' = "pending"
  /\ main' = "start"
  /\ UNCHANGED <<count, stored, up, canceled, pool, faults, history>>

\* The cancel function is registered from the creation of the goroutine to its end.
CancelScan ==
  /\ main \notin {"none", "ended"}
  /\ canceled' = TRUE
  /\ UNCHANGED <<row, up, main, pool, faults, history>>

-----------------------------------------------------------------------------
(* run.                                                                       *)

RunSteps == UNCHANGED <<stored, up, canceled, dropped, wedged>>

\* The row is written within the scan's context.  The inventory index that is built next may
\* fail to load: the scan goes on without.
MarkRunning ==
  /\ main = "start"
  /\ ~ canceled
  /\ status' = "running"
  /\ main' = "probe"
  /\ RunSteps /\ UNCHANGED <<count, pool, faults, unwritten>>

MarkRunningFails ==
  /\ main = "start"
  /\ IF canceled THEN UNCHANGED faults ELSE Fault
  /\ main' = "ended"
  /\ unwritten' = TRUE
  /\ RunSteps /\ UNCHANGED <<status, count, pool>>

\* wg.Wait.
WorkersDone ==
  /\ main = "probe"
  /\ \A w \in Workers : worker[w].at = "done"
  /\ main' = "finish"
  /\ RunSteps /\ UNCHANGED <<status, count, pool, faults, unwritten>>

Outcome == IF canceled THEN "canceled"
           ELSE IF scanned >= Total THEN "completed" ELSE "partially_completed"

Finish ==
  /\ main = "finish"
  /\ status' = Outcome
  /\ count' = scanned
  /\ main' = "audit"
  /\ RunSteps /\ UNCHANGED <<pool, faults, unwritten>>

\* The outcome cannot be written.
FinishFails ==
  /\ main = "finish"
  /\ Fault
  /\ unwritten' = TRUE
  /\ main' = "audit"
  /\ RunSteps /\ UNCHANGED <<status, count, pool>>

\* auditScanCompletion, then the cancel function is removed.
Ended ==
  /\ main = "audit"
  /\ main' = "ended"
  /\ RunSteps /\ UNCHANGED <<status, count, pool, faults, unwritten>>

\* A panic of run itself, which cannot occur while it waits for its workers.
MainPanics ==
  /\ main \in {"start", "finish", "audit"}
  /\ Fault
  /\ status' = "failed"
  /\ count' = scanned
  /\ main' = "ended"
  /\ RunSteps /\ UNCHANGED <<pool, unwritten>>

\* A panic whose outcome cannot be written either.
MainPanicsUnrecorded ==
  /\ main \in {"start", "finish", "audit"}
  /\ faults + 1 < MaxFaults
  /\ faults' = faults + 2
  /\ unwritten' = TRUE
  /\ main' = "ended"
  /\ RunSteps /\ UNCHANGED <<status, count, pool>>

-----------------------------------------------------------------------------
(* runProbes: the goroutine that feeds, and the workers.                      *)

ProbeSteps == main = "probe" /\ UNCHANGED <<status, count, up, main, canceled, unwritten>>

Put(w, stage) == worker' = [worker EXCEPT ![w].at = stage]

\* Mutant: the last target is not fed.
StopFeedingEarly ==
  /\ ProbeSteps
  /\ ~ closed
  /\ feed >= Total \/ canceled
  /\ closed' = TRUE
  /\ UNCHANGED <<stored, feed, worker, mutex, scanned, faults, dropped, wedged>>

StopFeeding ==
  /\ ProbeSteps
  /\ ~ closed
  /\ feed > Total \/ canceled
  /\ closed' = TRUE
  /\ UNCHANGED <<stored, feed, worker, mutex, scanned, faults, dropped, wedged>>

\* Mutant: one past the end.
FeedPastEnd(w) ==
  /\ ProbeSteps
  /\ ~ closed
  /\ feed <= Total + 1
  /\ worker[w].at = "take"
  /\ worker' = [worker EXCEPT ![w] = [@ EXCEPT !.at = IF canceled THEN "done" ELSE "probe", !.target = feed]]
  /\ feed' = feed + 1
  /\ UNCHANGED <<stored, closed, mutex, scanned, faults, dropped, wedged>>

\* The select may feed another target although the context is canceled; the worker that takes
\* it then returns.
Feed(w) ==
  /\ ProbeSteps
  /\ ~ closed
  /\ feed <= Total
  /\ worker[w].at = "take"
  /\ worker' = [worker EXCEPT ![w] = [@ EXCEPT !.at = IF canceled THEN "done" ELSE "probe", !.target = feed]]
  /\ feed' = feed + 1
  /\ UNCHANGED <<stored, closed, mutex, scanned, faults, dropped, wedged>>

NoMoreTargets(w) ==
  /\ ProbeSteps
  /\ closed
  /\ worker[w].at = "take"
  /\ Put(w, "done")
  /\ UNCHANGED <<stored, feed, closed, mutex, scanned, faults, dropped, wedged>>

\* Whatever it finds, an error included, is a result.
Probe(w) ==
  /\ ProbeSteps
  /\ worker[w].at = "probe"
  /\ Put(w, "lock")
  /\ UNCHANGED <<stored, feed, closed, mutex, scanned, faults, dropped, wedged>>

ProbePanics(w) ==
  /\ ProbeSteps
  /\ worker[w].at = "probe"
  /\ Fault
  /\ Put(w, "take")
  /\ dropped' = dropped \cup {worker[w].target}
  /\ UNCHANGED <<stored, feed, closed, mutex, scanned, wedged>>

\* Mutant: results are handled without mutual exclusion.
LockNot(w) ==
  /\ ProbeSteps
  /\ worker[w].at = "lock"
  /\ Put(w, "store")
  /\ UNCHANGED <<stored, feed, closed, mutex, scanned, faults, dropped, wedged>>

Lock(w) ==
  /\ ProbeSteps
  /\ worker[w].at = "lock"
  /\ mutex = Free
  /\ mutex' = w
  /\ Put(w, "store")
  /\ UNCHANGED <<stored, feed, closed, scanned, faults, dropped, wedged>>

AddResult(w) ==
  /\ ProbeSteps
  /\ worker[w].at = "store"
  /\ stored' = stored \cup {worker[w].target}
  /\ worker' = [worker EXCEPT ![w] = [@ EXCEPT !.at = "count", !.read = scanned]]
  /\ UNCHANGED <<feed, closed, mutex, scanned, faults, dropped, wedged>>

\* Mutant: the mutex is not released on this path.
AddResultFailsLocked(w) ==
  /\ ProbeSteps
  /\ worker[w].at = "store"
  /\ Fault
  /\ Put(w, "take")
  /\ dropped' = dropped \cup {worker[w].target}
  /\ UNCHANGED <<stored, feed, closed, mutex, scanned, wedged>>

\* Mutant: the insert is tried again.
AddResultRetried(w) ==
  /\ ProbeSteps
  /\ worker[w].at = "store"
  /\ Fault
  /\ mutex' = Free
  /\ Put(w, "lock")
  /\ UNCHANGED <<stored, feed, closed, scanned, dropped, wedged>>

\* The result is lost and not counted.
AddResultFails(w) ==
  /\ ProbeSteps
  /\ worker[w].at = "store"
  /\ Fault
  /\ mutex' = Free
  /\ Put(w, "take")
  /\ dropped' = dropped \cup {worker[w].target}
  /\ UNCHANGED <<stored, feed, closed, scanned, wedged>>

\* sc.ScannedCount++, and the mutex is released.
Count(w) ==
  /\ ProbeSteps
  /\ worker[w].at = "count"
  /\ scanned' = worker[w].read + 1
  /\ mutex' = Free
  /\ Put(w, "take")
  /\ UNCHANGED <<stored, feed, closed, faults, dropped, wedged>>

\* A panic of onResult is recovered around the call, where nothing releases the mutex.
OnResultPanics(w) ==
  /\ ProbeSteps
  /\ worker[w].at \in {"store", "count"}
  /\ Fault
  /\ Put(w, "take")
  /\ wedged' = TRUE
  /\ dropped' = IF worker[w].at = "store" THEN dropped \cup {worker[w].target} ELSE dropped
  /\ UNCHANGED <<stored, feed, closed, mutex, scanned>>

-----------------------------------------------------------------------------
(* The server ends, and starts over.                                          *)

Crash ==
  /\ up
  /\ Fault
  /\ up' = FALSE
  /\ main' = IF main = "none" THEN "none" ELSE "ended"
  /\ canceled' = FALSE
  /\ NoPool
  /\ UNCHANGED <<row, history>>

\* Mutant: what never started is forgotten.
RecoverRunningScans ==
  /\ ~ up
  /\ up' = TRUE
  /\ status' = IF status = "running" THEN "failed" ELSE status
  /\ unwritten' = FALSE
  /\ UNCHANGED <<count, stored, main, canceled, pool, faults, dropped, wedged>>

RecoverInterruptedScans ==
  /\ ~ up
  /\ up' = TRUE
  /\ status' = IF status \in Unfinished THEN "failed" ELSE status
  /\ unwritten' = FALSE
  /\ UNCHANGED <<count, stored, main, canceled, pool, faults, dropped, wedged>>

\* The server starts all the same.
RecoverFails ==
  /\ ~ up
  /\ Fault
  /\ up' = TRUE
  /\ unwritten' = TRUE
  /\ UNCHANGED <<row, main, canceled, pool, dropped, wedged>>

-----------------------------------------------------------------------------
RunStep ==
  \/ MarkRunning
  \/ MarkRunningFails
  \/ WorkersDone
  \/ Finish
  \/ FinishFails
  \/ Ended
  \/ MainPanics
  \/ MainPanicsUnrecorded

WorkerStep(w) ==
  \/ NoMoreTargets(w)
  \/ Probe(w)
  \/ ProbePanics(w)
  \/ Lock(w)
  \/ AddResult(w)
  \/ AddResultFails(w)
  \/ Count(w)
  \/ OnResultPanics(w)

DiscoveryNext ==
  \/ CreateScan
  \/ CancelScan
  \/ RunStep
  \/ StopFeeding
  \/ \E w \in Workers : Feed(w) \/ WorkerStep(w)
  \/ Crash
  \/ RecoverInterruptedScans
  \/ RecoverFails

\* Goroutines that can run do run.
DiscoveryFairness ==
  /\ WF_discoveryVars(RunStep)
  /\ WF_discoveryVars(StopFeeding \/ \E w \in Workers : Feed(w))
  /\ \A w \in Workers : WF_discoveryVars(WorkerStep(w))

DiscoverySpec == DiscoveryInit /\ [][DiscoveryNext]_discoveryVars
FairDiscoverySpec == DiscoverySpec /\ DiscoveryFairness

-----------------------------------------------------------------------------
(* Properties.                                                                *)

\* The summary a finished scan shows counts the results that are stored, each once, however
\* the workers interleave (unless one panicked in between); "completed" says they are all there.
SummaryMatchesResults ==
  /\ status \in Finished \ {"failed"} /\ ~ wedged => count = Cardinality(stored)
  /\ status = "completed" => stored = Targets

\* A scan nobody canceled has probed every target: what has no result is a failed probe or insert.
NoTargetLost ==
  status \in {"completed", "partially_completed"} => Targets \ stored \subseteq dropped

\* A row that says pending or running with nobody left to finish it is of this life of the
\* server -- the next start clears it away -- and comes from a status that could not be written.
OrphansExplained ==
  up /\ main = "ended" /\ status \in Unfinished => unwritten

\* What a scan's row tells a client is true: of a scan that is over, and of one that is not.
RowIsTrue == SummaryMatchesResults /\ NoTargetLost /\ OrphansExplained

\* A scan that is canceled is seen to end: "CancelScan asks a running scan to stop".
CancelSettles ==
  canceled /\ main = "ended" => status \in Finished

\* However inserts and probes fail, a scan that probes comes to its end, canceled or not --
\* unless a panic left the mutex locked.
ScanEnds == main = "probe" ~> main # "probe" \/ wedged

\* What is left of a scan: the stages of run, the targets to be fed (five steps each: take,
\* probe, lock, store and count), what each worker still has to do, the channel to be closed.
Stages == [none |-> 0, start |-> 4, probe |-> 3, finish |-> 2, audit |-> 1, ended |-> 0]
StepsOf(at) == [done |-> 0, take |-> 1, count |-> 2, store |-> 3, lock |-> 4, probe |-> 5][at]
WorkersLeft == {x \in Workers \X (1 .. 5) : x[2] <= StepsOf(worker[x[1]].at)}
Left == Stages[main] + 5 * (Total + 1 - feed) + Cardinality(WorkersLeft) + (IF closed THEN 0 ELSE 1)

\* While a scan probes somebody can go on without a fault, unless a panic left the mutex locked:
\* feeder, workers and run never wait for each other.
SomeoneGoesOn ==
  main = "probe" /\ ~ wedged =>
    \/ \A w \in Workers : worker[w].at = "done"
    \/ ~ closed /\ (feed > Total \/ canceled)
    \/ \E w \in Workers :
         \/ worker[w].at = "take" /\ (closed \/ feed <= Total)
         \/ worker[w].at \in {"probe", "store", "count"}
         \/ worker[w].at = "lock" /\ mutex = Free

\* Nobody waits for good, and no step of run, of the feeder or of a worker, failed ones included,
\* is to no avail: each leaves less to do.  (Together: after at most Left steps a scan is over.)
ScanAdvances ==
  /\ []SomeoneGoesOn
  /\ [][main \notin {"none", "ended"} /\ <<main, pool>>' # <<main, pool>> => main' = "ended" \/ Left' < Left]_discoveryVars

=============================================================================
