------------------------------ MODULE Schedules ------------------------------
(***************************************************************************)
(* internal/discovery: recurring scans.  A schedule is a row of            *)
(* discovery_schedule.  Run sweeps once at start and then at every tick of *)
(* a one-minute ticker: it lists the rows that are due, and for each of    *)
(* them starts a scan and writes back when it ran and when it runs next.   *)
(* Admins create, edit and delete rows meanwhile; an edit reads the row    *)
(* and writes all of it back, a sweep works from the rows it listed.       *)
(*                                                                         *)
(* Time is counted in minutes.  Abstracted: what is scanned and how (a     *)
(* request that is refused changes nothing), and the scan itself, which    *)
(* module Discovery follows from its creation on.                          *)
(***************************************************************************)
EXTENDS Integers, FiniteSets

CONSTANTS
  Schedules,      \* ids, each given to one row at most
  Intervals,      \* interval_minutes an admin may enter
  Editors,        \* requests that edit a row at a time
  Absent,         \* no row
  Horizon,        \* bound: when the clock stops (ticks do not)
  MaxRequests,    \* bound: rows created, edited and deleted
  MaxMishaps      \* bound: database calls that fail, panics and crashes

ASSUME SchedulesAssumption ==
  /\ Absent \notin Schedules
  /\ Absent \notin [interval: Intervals, enabled: BOOLEAN]
  /\ Absent \notin [interval: Intervals, enabled: BOOLEAN,
                    last: [at: Nat \cup {-1}, scan: BOOLEAN], next: Nat]
  /\ Intervals \subseteq Nat \ {0}
  /\ Horizon \in Nat /\ MaxRequests \in Nat /\ MaxMishaps \in Nat

VARIABLES
  schedule,    \* schedule[s]: the row
  given,       \* ids given so far
  now,
  sweep,       \* what Run is at
  ticker,      \* created after the first sweep; it holds one tick at most
  due,         \* rows listed and not fired yet, as they were listed
  firing,      \* the one being fired
  editor,      \* editor[e]: the row the edit has read
  requests, mishaps,
  \* history, read by no action
  wanted,      \* what the last create or edit said
  ran,         \* the last run that was recorded
  promised,    \* when the schedule is to run next
  disturbed,   \* schedules whose firing was crossed by an edit, or was not recorded
  overwritten  \* schedules whose last run was put back by an edit that had read an older one

sweepVars == <<sweep, ticker, due, firing>>
scheduleHistory == <<wanted, ran, promised, disturbed, overwritten>>
schedulesVars == <<schedule, given, now, sweepVars, editor, requests, mishaps, scheduleHistory>>

\* last_run_at, and whether last_scan_id is set.
Never == [at |-> -1, scan |-> FALSE]
Runs == [at: Nat \cup {-1}, scan: BOOLEAN]
Rows == [interval: Intervals, enabled: BOOLEAN, last: Runs, next: Nat]
Listed == [id: Schedules, copy: Rows]
NotFiring == [id |-> Absent, at |-> 0, next |-> 0, scan |-> FALSE]
NotEditing == [id |-> Absent, last |-> Never, overtaken |-> FALSE]

SchedulesTypeOK ==
  /\ schedule \in [Schedules -> Rows \cup {Absent}]
  /\ given \in SUBSET Schedules
  /\ now \in 0 .. Horizon
  /\ sweep \in {"none", "list", "fire", "scan", "record", "wait"}
  /\ ticker \in {"none", "idle", "ticked"}
  /\ due \in SUBSET Listed
  /\ firing \in [id: Schedules \cup {Absent}, at: Nat, next: Nat, scan: BOOLEAN]
  /\ editor \in [Editors -> [id: Schedules \cup {Absent}, last: Runs, overtaken: BOOLEAN]]
  /\ requests \in 0 .. MaxRequests
  /\ mishaps \in 0 .. MaxMishaps
  /\ wanted \in [Schedules -> [interval: Intervals, enabled: BOOLEAN] \cup {Absent}]
  /\ ran \in [Schedules -> Runs]
  /\ promised \in [Schedules -> Nat]
  /\ disturbed \in SUBSET Schedules
  /\ overwritten \in SUBSET Schedules

SchedulesInit ==
  /\ schedule = [s \in Schedules |-> Absent]
  /\ given = {}
  /\ now = 0
  /\ sweep = "none"
  /\ ticker = "none"
  /\ due = {}
  /\ firing = NotFiring
  /\ editor = [e \in Editors |-> NotEditing]
  /\ requests = 0
  /\ mishaps = 0
  /\ wanted = [s \in Schedules |-> Absent]
  /\ ran = [s \in Schedules |-> Never]
  /\ promised = [s \in Schedules |-> 0]
  /\ disturbed = {}
  /\ overwritten = {}

Live(s) == schedule[s] # Absent
Serving == sweep # "none"
IsDue(s) == Live(s) /\ schedule[s].enabled /\ schedule[s].next <= now

\* Schedules the sweep has listed and not fired to the end.
UnderWay == {d.id : d \in due} \cup {firing.id}

Mishap == mishaps < MaxMishaps /\ mishaps' = mishaps + 1
Request == Serving /\ requests < MaxRequests /\ requests' = requests + 1

-----------------------------------------------------------------------------
(* Requests.                                                                  *)

\* The first run is an interval from now.
CreateSchedule(s, i) ==
  /\ Request
  /\ s \notin given
  /\ given' = given \cup {s}
  /\ schedule' = [schedule EXCEPT ![s] = [interval |-> i, enabled |-> TRUE, last |-> Never, next |-> now + i]]
  /\ wanted' = [wanted EXCEPT ![s] = [interval |-> i, enabled |-> TRUE]]
  /\ promised' = [promised EXCEPT ![s] = now + i]
  /\ UNCHANGED <<now, sweepVars, editor, mishaps, ran, disturbed, overwritten>>

\* UpdateSchedule reads the row,
BeginEdit(e, s) ==
  /\ Request
  /\ editor[e].id = Absent
  /\ Live(s)
  /\ editor' = [editor EXCEPT ![e] = [id |-> s, last |-> schedule[s].last, overtaken |-> FALSE]]
  /\ UNCHANGED <<schedule, given, now, sweepVars, mishaps, scheduleHistory>>

\* Mutant: it keeps the time of the next run as it was.
SaveEditOnOldTime(e, i, on) ==
  LET s == editor[e].id IN
  /\ s # Absent
  /\ editor' = [editor EXCEPT ![e] = NotEditing]
  /\ IF Live(s)
     THEN /\ schedule' = [schedule EXCEPT ![s] = [@ EXCEPT !.interval = i, !.enabled = on, !.last = editor[e].last]]
          /\ wanted' = [wanted EXCEPT ![s] = [interval |-> i, enabled |-> on]]
          /\ promised' = [promised EXCEPT ![s] = now + i]
          /\ disturbed' = IF s \in UnderWay THEN disturbed \cup {s} ELSE disturbed \ {s}
          /\ overwritten' = IF editor[e].overtaken THEN overwritten \cup {s} ELSE overwritten
     ELSE UNCHANGED <<schedule, wanted, promised, disturbed, overwritten>>
  /\ UNCHANGED <<given, now, sweepVars, requests, mishaps, ran>>

\* and writes all of it, last_run_at and last_scan_id as read; a row deleted since stays away.
SaveEdit(e, i, on) ==
  LET s == editor[e].id IN
  /\ s # Absent
  /\ editor' = [editor EXCEPT ![e] = NotEditing]
  /\ IF Live(s)
     THEN /\ schedule' = [schedule EXCEPT ![s] = [interval |-> i, enabled |-> on, last |-> editor[e].last,
                                                  next |-> now + i]]
          /\ wanted' = [wanted EXCEPT ![s] = [interval |-> i, enabled |-> on]]
          /\ promised' = [promised EXCEPT ![s] = now + i]
          /\ disturbed' = IF s \in UnderWay THEN disturbed \cup {s} ELSE disturbed \ {s}
          /\ overwritten' = IF editor[e].overtaken THEN overwritten \cup {s} ELSE overwritten
     ELSE UNCHANGED <<schedule, wanted, promised, disturbed, overwritten>>
  /\ UNCHANGED <<given, now, sweepVars, requests, mishaps, ran>>

\* The request is refused (a name, target, port, timeout or interval out of bounds) or fails.
EditFails(e) ==
  /\ editor[e].id # Absent
  /\ Mishap
  /\ editor' = [editor EXCEPT ![e] = NotEditing]
  /\ UNCHANGED <<schedule, given, now, sweepVars, requests, scheduleHistory>>

DeleteSchedule(s) ==
  /\ Request
  /\ Live(s)
  /\ schedule' = [schedule EXCEPT ![s] = Absent]
  /\ wanted' = [wanted EXCEPT ![s] = Absent]
  /\ UNCHANGED <<given, now, sweepVars, editor, mishaps, ran, promised, disturbed, overwritten>>

-----------------------------------------------------------------------------
(* Run, runDueSchedules.                                                      *)

SweepSteps == UNCHANGED <<given, now, editor, requests, wanted>>

Tick ==
  /\ sweep = "wait"
  /\ ticker = "ticked"
  /\ ticker' = "idle"
  /\ sweep' = "list"
  /\ SweepSteps /\ UNCHANGED <<schedule, due, firing, mishaps, ran, promised, disturbed, overwritten>>

\* The sweep is over, whatever ended it; the first one makes way for the ticker.
Rest ==
  /\ sweep' = "wait"
  /\ ticker' = IF ticker = "none" THEN "idle" ELSE ticker
  /\ due' = {}
  /\ firing' = NotFiring

DueSchedules ==
  /\ sweep = "list"
  /\ due' = {[id |-> s, copy |-> schedule[s]] : s \in {t \in Schedules : IsDue(t)}}
  /\ sweep' = "fire"
  /\ SweepSteps
  /\ UNCHANGED <<schedule, ticker, firing, mishaps, ran, promised, disturbed, overwritten>>

DueSchedulesFails ==
  /\ sweep = "list"
  /\ Mishap
  /\ Rest
  /\ SweepSteps /\ UNCHANGED <<schedule, ran, promised, disturbed, overwritten>>

NothingDue ==
  /\ sweep = "fire"
  /\ due = {}
  /\ Rest
  /\ SweepSteps /\ UNCHANGED <<schedule, mishaps, ran, promised, disturbed, overwritten>>

-----------------------------------------------------------------------------
(* fireSchedule.                                                              *)

\* Mutant: what is fired stays in the list.
FireAgain(d) ==
  /\ sweep = "fire"
  /\ \A c \in due : d.copy.next <= c.copy.next
  /\ firing' = [id |-> d.id, at |-> now, next |-> now + d.copy.interval, scan |-> FALSE]
  /\ sweep' = "scan"
  /\ promised' = [promised EXCEPT ![d.id] = now + d.copy.interval]
  /\ disturbed' = IF d.copy = schedule[d.id] THEN disturbed \ {d.id} ELSE disturbed \cup {d.id}
  /\ SweepSteps /\ UNCHANGED <<schedule, ticker, due, mishaps, ran, overwritten>>

\* Earliest next_run_at first; the time of the next run is reckoned now, from the interval listed.
FireSchedule(d) ==
  /\ sweep = "fire"
  /\ \A c \in due : d.copy.next <= c.copy.next
  /\ firing' = [id |-> d.id, at |-> now, next |-> now + d.copy.interval, scan |-> FALSE]
  /\ due' = due \ {d}
  /\ sweep' = "scan"
  /\ promised' = [promised EXCEPT ![d.id] = now + d.copy.interval]
  /\ disturbed' = IF d.copy = schedule[d.id] THEN disturbed \ {d.id} ELSE disturbed \cup {d.id}
  /\ SweepSteps /\ UNCHANGED <<schedule, ticker, mishaps, ran, overwritten>>

\* CreateScan.
ScanStarts ==
  /\ sweep = "scan"
  /\ firing' = [firing EXCEPT !.scan = TRUE]
  /\ sweep' = "record"
  /\ SweepSteps /\ UNCHANGED <<schedule, ticker, due, mishaps, ran, promised, disturbed, overwritten>>

\* Mutant: what did not start is not rescheduled.
ScanFailsUnrecorded ==
  /\ sweep = "scan"
  /\ Mishap
  /\ firing' = NotFiring
  /\ sweep' = "fire"
  /\ SweepSteps /\ UNCHANGED <<schedule, ticker, due, ran, promised, disturbed, overwritten>>

\* A target has become invalid, or the row cannot be written: rescheduled all the same.
ScanFails ==
  /\ sweep = "scan"
  /\ Mishap
  /\ sweep' = "record"
  /\ SweepSteps /\ UNCHANGED <<schedule, ticker, due, firing, ran, promised, disturbed, overwritten>>

LastRun == [at |-> firing.at, scan |-> firing.scan]

\* History: what an edit that is under way has read of the last run is old now.
Overtake(s) == editor' = [e \in Editors |-> IF editor[e].id = s THEN [editor[e] EXCEPT !.overtaken = TRUE]
                                            ELSE editor[e]]

Recorded(s, row) ==
  /\ schedule' = [schedule EXCEPT ![s] = row]
  /\ ran' = [ran EXCEPT ![s] = LastRun]
  /\ overwritten' = overwritten \ {s}
  /\ Overtake(s)

\* Mutant: the whole row is written, as it was listed: enabled.
RecordWholeRow ==
  LET s == firing.id IN
  /\ sweep = "record"
  /\ sweep' = "fire"
  /\ firing' = NotFiring
  /\ IF Live(s) THEN Recorded(s, [schedule[s] EXCEPT !.last = LastRun, !.next = firing.next, !.enabled = TRUE])
     ELSE UNCHANGED <<schedule, ran, overwritten, editor>>
  /\ UNCHANGED <<given, now, ticker, due, requests, mishaps, wanted, promised, disturbed>>

\* Only the three columns of the run are written, if the row is still there.
RecordScheduleRun ==
  LET s == firing.id IN
  /\ sweep = "record"
  /\ sweep' = "fire"
  /\ firing' = NotFiring
  /\ IF Live(s) THEN Recorded(s, [schedule[s] EXCEPT !.last = LastRun, !.next = firing.next])
     ELSE UNCHANGED <<schedule, ran, overwritten, editor>>
  /\ UNCHANGED <<given, now, ticker, due, requests, mishaps, wanted, promised, disturbed>>

RecordFails ==
  /\ sweep = "record"
  /\ Mishap
  /\ sweep' = "fire"
  /\ firing' = NotFiring
  /\ disturbed' = disturbed \cup {firing.id}
  /\ SweepSteps /\ UNCHANGED <<schedule, ticker, due, ran, promised, overwritten>>

\* History: a firing that is broken off is not recorded.
BrokenOff == disturbed' = disturbed \cup ({firing.id} \ {Absent})

\* Mutant: nothing recovers, the loop is over.
SweepPanicsForGood ==
  /\ sweep \in {"list", "fire", "scan", "record"}
  /\ Mishap
  /\ sweep' = "dead"
  /\ due' = {}
  /\ firing' = NotFiring
  /\ BrokenOff
  /\ SweepSteps /\ UNCHANGED <<schedule, ticker, ran, promised, overwritten>>

\* A panic is recovered around the sweep: what it had not come to waits for the next tick.
SweepPanics ==
  /\ sweep \in {"list", "fire", "scan", "record"}
  /\ Mishap
  /\ Rest
  /\ BrokenOff
  /\ SweepSteps /\ UNCHANGED <<schedule, ran, promised, overwritten>>

-----------------------------------------------------------------------------
\* The server starts and ends, and time passes.
StartServer ==
  /\ sweep = "none"
  /\ sweep' = "list"
  /\ SweepSteps
  /\ UNCHANGED <<schedule, ticker, due, firing, mishaps, ran, promised, disturbed, overwritten>>

StopServer ==
  /\ Serving
  /\ Mishap
  /\ sweep' = "none"
  /\ ticker' = "none"
  /\ due' = {}
  /\ firing' = NotFiring
  /\ editor' = [e \in Editors |-> NotEditing]
  /\ BrokenOff
  /\ UNCHANGED <<schedule, given, now, requests, wanted, ran, promised, overwritten>>

Minute ==
  /\ now' = IF now < Horizon THEN now + 1 ELSE now
  /\ ticker' = IF ticker = "none" THEN "none" ELSE "ticked"
  /\ UNCHANGED <<schedule, given, sweep, due, firing, editor, requests, mishaps, scheduleHistory>>

-----------------------------------------------------------------------------
SweepStep ==
  \/ Tick
  \/ DueSchedules
  \/ DueSchedulesFails
  \/ NothingDue
  \/ \E d \in due : FireSchedule(d)
  \/ ScanStarts
  \/ ScanFails
  \/ RecordScheduleRun
  \/ RecordFails
  \/ SweepPanics

RequestStep ==
  \/ \E s \in Schedules, i \in Intervals : CreateSchedule(s, i)
  \/ \E e \in Editors, s \in Schedules : BeginEdit(e, s)
  \/ \E e \in Editors, i \in Intervals, on \in BOOLEAN : SaveEdit(e, i, on)
  \/ \E e \in Editors : EditFails(e)
  \/ \E s \in Schedules : DeleteSchedule(s)

SchedulesNext ==
  \/ RequestStep
  \/ SweepStep
  \/ StartServer
  \/ StopServer
  \/ Minute

\* The goroutine of a server that is up runs, and its ticker ticks.
SchedulesFairness ==
  /\ WF_schedulesVars(SweepStep)
  /\ WF_schedulesVars(Minute)

SchedulesSpec == SchedulesInit /\ [][SchedulesNext]_schedulesVars
FairSchedulesSpec == SchedulesSpec /\ SchedulesFairness

-----------------------------------------------------------------------------
(* Properties.                                                                *)

\* A schedule fires -- whether or not its scan starts -- once per interval: not before the
\* time its last firing or its last edit set, unless these crossed each other or the firing
\* was not recorded.
OncePerInterval ==
  [][\A d \in due : FireSchedule(d) => now >= promised[d.id] \/ d.id \in disturbed]_schedulesVars

\* The row says what the last edit and the last firing wrote, whichever came in between: an
\* edit is never undone by a firing (that of a deleted row included); the last run is the last
\* one recorded unless an edit had read the row before it; the next run is where the last
\* firing or edit put it unless they crossed.
SchedulesHold ==
  \A s \in Schedules :
    /\ Live(s) <=> wanted[s] # Absent
    /\ Live(s) => /\ [interval |-> schedule[s].interval, enabled |-> schedule[s].enabled] = wanted[s]
                  /\ schedule[s].last = ran[s] \/ s \in overwritten
                  /\ schedule[s].next = promised[s] \/ s \in disturbed \/ s = firing.id

\* A schedule that is due is fired, or edited, however calls fail and sweeps panic, as long as
\* the server stays up.
DueIsFired == \A s \in Schedules : IsDue(s) ~> ~ IsDue(s) \/ ~ Serving

\* The next steps of a sweep that are left: three for each schedule listed.
SweepLeft == 3 * Cardinality(due) + [fire |-> 0, record |-> 1, scan |-> 2][sweep]

\* While the server is up its one sweeping goroutine either waits for a ticker that ticks or can
\* go on, and a sweep comes to its end in so many steps, however calls fail, panics are
\* recovered, and rows are edited and deleted behind its list: no schedule keeps the others waiting.
SweepAdvances ==
  /\ [](Serving =>
         \/ sweep = "wait" /\ ticker # "none"
         \/ sweep \in {"list", "scan", "record"}
         \/ sweep = "fire" /\ (due = {} \/ \E d \in due : \A c \in due : d.copy.next <= c.copy.next))
  /\ [][<<sweep, due, firing>>' # <<sweep, due, firing>> /\ sweep \in {"fire", "scan", "record"} =>
          sweep' \in {"wait", "none"} \/ SweepLeft' < SweepLeft]_schedulesVars

=============================================================================
