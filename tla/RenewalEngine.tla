---------------------------- MODULE RenewalEngine ----------------------------
(***************************************************************************)
(* internal/renewal: the background goroutine of a server that ticks at    *)
(* start and then at every interval.  A tick first sends the expiry        *)
(* reminders that fall due this very day, one certificate after the other, *)
(* and then renews what is due.                                            *)
(*                                                                         *)
(* Time is counted in units, Day units to a day, and may pass between any  *)
(* two steps.  The ticker keeps at most one tick waiting.  The goroutine   *)
(* ends with its server, at any point, and starts over with the next one;  *)
(* all it knows of the past is the table notification_log.                 *)
(*                                                                         *)
(* Orders are seen from the engine: the Validate calls it makes for one    *)
(* renewal, up to ValidateAttempts with pauses, end in a new certificate   *)
(* or do not (module Orders says how); in the second case the order is     *)
(* left as it is and the next tick opens another.  Abstracted: recipients, *)
(* templates, the reports of renewals.                                     *)
(***************************************************************************)
EXTENDS Integers, FiniteSets

CONSTANTS
  Certs,
  AutoRenewed,    \* certificates with auto_renew set
  Engines,        \* servers that run the engine: nothing keeps a second one from doing so
  Settings,       \* the threshold sets an admin may save
  Day,            \* units of time per day; also the interval of the ticker (24 hours)
  RenewBefore,    \* renew_before_days
  Validity,       \* days a new certificate is valid
  Horizon,        \* bound: when time ends
  MaxFaults,      \* bound: how many sends, database accesses and renewals fail or are cut short
  MaxEdits        \* bound: how often the settings or a certificate are changed by hand

ASSUME EngineAssumption ==
  /\ AutoRenewed \subseteq Certs
  /\ \A th \in Settings : th # {} /\ th \subseteq Nat /\ IsFiniteSet(th)
  /\ {Day, Validity} \subseteq Nat \ {0}
  /\ {RenewBefore, Horizon, MaxFaults, MaxEdits} \subseteq Nat

VARIABLES
  now,
  notAfter,    \* notAfter[c]: when c's row says it expires
  thresholds,  \* notification_settings.threshold_days
  logged,      \* notification_log: the pairs <<c, threshold>> with an entry "sent"
  tick,        \* tick[e]: what engine e is at; next is when its ticker fires, 0 before the first tick ended
  faults, edits,
  \* history, read by no action
  notified,    \* notified[e][x]: how often engine e sent the reminder x; 2 is "more than once"
  lost,        \* the <<e, x>> such that engine e sent x and wrote no entry "sent" for it
  missed,      \* pairs whose reminder was tried and failed
  steady,      \* thresholds that have been configured from the start
  late,        \* a tick failed to load its rows, or time passed while one was under way or overdue
  lastTick,    \* when the last tick began
  lapses       \* certificates with a renewal that did not end in a new certificate

ghosts == <<notified, lost, missed, steady, late, lastTick, lapses>>
engineVars == <<now, notAfter, thresholds, logged, tick, faults, edits, ghosts>>

Levels == UNION Settings
Pairs  == Certs \X Levels
Times  == 0 .. Horizon + Validity * Day
Rows   == Certs \X Times
Stages == {"down", "asleep", "start", "remind", "send", "record", "renew", "validate"}

\* A tick: the thresholds and the rows it loaded and has still to handle, and the pair it is
\* reminding of or the row it is renewing.
Tick == [at: Stages, next: 0 .. Horizon + Day, waiting: BOOLEAN, config: SUBSET Levels,
         rows: SUBSET Rows, current: Pairs \cup Rows \cup {<<>>}]
NoTick(stage, next) ==
  [at |-> stage, next |-> next, waiting |-> FALSE, config |-> {}, rows |-> {}, current |-> <<>>]

EngineTypeOK ==
  /\ now \in 0 .. Horizon
  /\ notAfter \in [Certs -> Times]
  /\ thresholds \in Settings
  /\ logged \in SUBSET Pairs
  /\ tick \in [Engines -> Tick]
  /\ \A e \in Engines :
       /\ tick[e].at \in {"send", "record"} => tick[e].current \in Pairs
       /\ tick[e].at = "validate" => tick[e].current \in Rows
  /\ faults \in 0 .. MaxFaults
  /\ edits \in 0 .. MaxEdits
  /\ notified \in [Engines -> [Pairs -> 0 .. 2]]
  /\ lost \in SUBSET (Engines \X Pairs)
  /\ missed \in SUBSET Pairs
  /\ steady \in SUBSET Levels
  /\ late \in BOOLEAN
  /\ lastTick \in 0 .. Horizon
  /\ lapses \in SUBSET Certs

\* The servers start; the certificates are new.
EngineInit ==
  /\ now = 0
  /\ notAfter \in [Certs -> {Validity * Day - 1, Validity * Day}]
  /\ thresholds \in Settings
  /\ logged = {}
  /\ tick = [e \in Engines |-> NoTick("start", 0)]
  /\ faults = 0
  /\ edits = 0
  /\ notified = [e \in Engines |-> [x \in Pairs |-> 0]]
  /\ lost = {}
  /\ missed = {}
  /\ steady = thresholds
  /\ late = FALSE
  /\ lastTick = 0
  /\ lapses = {}

Fault == faults < MaxFaults /\ faults' = faults + 1

-----------------------------------------------------------------------------
(* Time, and what happens around the engine.                                  *)

\* A ticker that finds the last tick still waiting drops the new one.
TimePasses ==
  /\ now < Horizon
  /\ now' = now + 1
  /\ tick' = [e \in Engines |->
       IF tick[e].next # 0 /\ tick[e].next <= now + 1
       THEN [tick[e] EXCEPT !.waiting = TRUE, !.next = @ + Day] ELSE tick[e]]
  /\ late' = (late \/ \E e \in Engines : tick[e].at # "asleep" \/ tick[e].waiting)
  /\ UNCHANGED <<notAfter, thresholds, logged, faults, edits,
                 notified, lost, missed, steady, lastTick, lapses>>

\* PUT /notification-settings.
EditSettings(th) ==
  /\ edits < MaxEdits
  /\ edits' = edits + 1
  /\ thresholds' = th
  /\ steady' = steady \cap th
  /\ UNCHANGED <<now, notAfter, logged, tick, faults, notified, lost, missed, late, lastTick, lapses>>

\* RenewNow for POST /certificates/{id}/renew, or an order of an earlier tick validated at last.
RenewByHand(c) ==
  /\ edits < MaxEdits
  /\ edits' = edits + 1
  /\ notAfter' = [notAfter EXCEPT ![c] = now + Validity * Day]
  /\ UNCHANGED <<now, thresholds, logged, tick, faults, ghosts>>

\* The tick at hand is over: either the server is, or it panicked and is recovered.
CutShort(e, rest) ==
  /\ Fault
  /\ tick' = [tick EXCEPT ![e] = rest]
  /\ lost' = IF tick[e].at = "record" THEN lost \cup {<<e, tick[e].current>>} ELSE lost
  /\ late' = TRUE
  /\ UNCHANGED <<now, notAfter, thresholds, logged, edits, notified, missed, steady, lastTick, lapses>>

\* The ticker is made when the first tick is over.
NextTime(e) == IF tick[e].next = 0 THEN now + Day ELSE tick[e].next

Crash(e) == tick[e].at # "down" /\ CutShort(e, NoTick("down", 0))

Panic(e) ==
  /\ tick[e].at \notin {"down", "asleep"}
  /\ CutShort(e, [NoTick("asleep", NextTime(e)) EXCEPT !.waiting = tick[e].waiting])

-----------------------------------------------------------------------------
(* One step of an engine changes its tick and leaves time and settings alone. *)

Step(e, from, new) ==
  /\ tick[e].at = from
  /\ tick' = [tick EXCEPT ![e] = new]
  /\ UNCHANGED <<now, thresholds, edits, steady>>

At(e, stage) == [tick[e] EXCEPT !.at = stage]

Restart(e) ==
  /\ Step(e, "down", NoTick("start", 0))
  /\ UNCHANGED <<notAfter, logged, faults, ghosts>>

NextTick(e) ==
  /\ tick[e].waiting
  /\ Step(e, "asleep", NoTick("start", tick[e].next))
  /\ UNCHANGED <<notAfter, logged, faults, ghosts>>

-----------------------------------------------------------------------------
(* sendExpiryReminders.                                                       *)

\* int(time.Until(notAfter).Hours() / 24), truncated towards zero.  The clock is read a
\* moment after the rows were listed, so a whole number of days is just not left any more.
DaysLeft(t) == IF t > now THEN (t - now - 1) \div Day ELSE - ((now - t) \div Day)

\* Mutant: only what expires within the smallest threshold is listed.
ListedWithinSmallest(th) ==
  {<<c, notAfter[c]>> : c \in {x \in Certs : \A d \in th : notAfter[x] <= now + d * Day}}

\* A largest threshold of 0 is taken for no limit.
ListedRows(th) ==
  {<<c, notAfter[c]>> : c \in {x \in Certs : th = {0} \/ \E d \in th : notAfter[x] <= now + d * Day}}

\* The settings, and the certificates that expire within the largest threshold.
LoadReminders(e) ==
  /\ Step(e, "start", [At(e, "remind") EXCEPT !.config = thresholds, !.rows = ListedRows(thresholds)])
  /\ lastTick' = now
  /\ UNCHANGED <<notAfter, logged, faults, notified, lost, missed, late, lapses>>

\* The settings or the rows cannot be read: no reminders in this tick.
LoadRemindersFails(e) ==
  /\ Fault
  /\ Step(e, "start", At(e, "remind"))
  /\ late' = TRUE
  /\ lastTick' = now
  /\ UNCHANGED <<notAfter, logged, notified, lost, missed, lapses>>

\* HasSent: only an entry "sent" counts, and it counts for good.
HasSent(x) == x \in logged

DueReminders(e, row) ==
  {<<row[1], d>> : d \in {x \in tick[e].config : DaysLeft(row[2]) = x /\ ~ HasSent(<<row[1], x>>)}}

Handled(e, row) == [tick[e] EXCEPT !.rows = @ \ {row}]

\* No threshold falls on today, or its reminder went out before.
SkipRow(e, row) ==
  /\ DueReminders(e, row) = {}
  /\ Step(e, "remind", Handled(e, row))
  /\ UNCHANGED <<notAfter, logged, faults, ghosts>>

\* Mutant: the row is taken for the pair.
PickRow(e, row) ==
  /\ \E x \in DueReminders(e, row) :
       Step(e, "remind", [Handled(e, row) EXCEPT !.at = "send", !.current = row])
  /\ UNCHANGED <<notAfter, logged, faults, ghosts>>

PickReminder(e, row) ==
  /\ \E x \in DueReminders(e, row) :
       Step(e, "remind", [Handled(e, row) EXCEPT !.at = "send", !.current = x])
  /\ UNCHANGED <<notAfter, logged, faults, ghosts>>

Send(e) ==
  /\ Step(e, "send", At(e, "record"))
  /\ notified' = [notified EXCEPT ![e][tick[e].current] = IF @ = 0 THEN 1 ELSE 2]
  /\ UNCHANGED <<notAfter, logged, faults, lost, missed, late, lastTick, lapses>>

\* The reminder cannot be rendered or sent, or HasSent fails.  The entry "failed" that may be
\* recorded is for the operator; the engine does not read it.
SendFails(e) ==
  /\ Fault
  /\ Step(e, "send", At(e, "remind"))
  /\ missed' = missed \cup {tick[e].current}
  /\ UNCHANGED <<notAfter, logged, notified, lost, late, lastTick, lapses>>

\* Mutant: the entry is not written.
RecordNothing(e) ==
  /\ Step(e, "record", At(e, "remind"))
  /\ UNCHANGED <<notAfter, logged, faults, ghosts>>

Record(e) ==
  /\ Step(e, "record", At(e, "remind"))
  /\ logged' = logged \cup {tick[e].current}
  /\ UNCHANGED <<notAfter, faults, ghosts>>

RecordFails(e) ==
  /\ Fault
  /\ Step(e, "record", At(e, "remind"))
  /\ lost' = lost \cup {<<e, tick[e].current>>}
  /\ UNCHANGED <<notAfter, logged, notified, missed, late, lastTick, lapses>>

-----------------------------------------------------------------------------
(* renewDueCertificates.                                                      *)

\* Mutant: a certificate is due only once it has expired.
DueWhenExpired(c) == c \in AutoRenewed /\ notAfter[c] <= now

\* DueForRenewal, but for its filter status IN ('active', 'expiring'): this module has neither
\* revocations nor imports, and every row of it is active.
Due(c) == c \in AutoRenewed /\ notAfter[c] <= now + RenewBefore * Day

DueRows == {<<c, notAfter[c]>> : c \in {x \in Certs : Due(x)}}

LoadDue(e) ==
  /\ tick[e].rows = {}
  /\ Step(e, "remind", [At(e, "renew") EXCEPT !.rows = DueRows])
  /\ UNCHANGED <<notAfter, logged, faults, ghosts>>

\* The due rows cannot be read: nothing is renewed in this tick.
LoadDueFails(e) ==
  /\ Fault
  /\ tick[e].rows = {}
  /\ Step(e, "remind", At(e, "renew"))
  /\ late' = TRUE
  /\ UNCHANGED <<notAfter, logged, notified, lost, missed, lastTick, lapses>>

StartRenewal(e, row) ==
  /\ Step(e, "renew", [Handled(e, row) EXCEPT !.at = "validate", !.current = row])
  /\ UNCHANGED <<notAfter, logged, faults, ghosts>>

Renewed(e) ==
  /\ Step(e, "validate", At(e, "renew"))
  /\ notAfter' = [notAfter EXCEPT ![tick[e].current[1]] = now + Validity * Day]
  /\ UNCHANGED <<logged, faults, ghosts>>

\* No order could be opened, or it failed, or is still open after the last attempt.
RenewalFails(e) ==
  /\ Fault
  /\ Step(e, "validate", At(e, "renew"))
  /\ lapses' = lapses \cup {tick[e].current[1]}
  /\ UNCHANGED <<notAfter, logged, notified, lost, missed, late, lastTick>>

EndTick(e) ==
  /\ tick[e].rows = {}
  /\ Step(e, "renew", [NoTick("asleep", NextTime(e)) EXCEPT !.waiting = tick[e].waiting])
  /\ UNCHANGED <<notAfter, logged, faults, ghosts>>

-----------------------------------------------------------------------------
Work(e) ==
  \/ Restart(e)
  \/ NextTick(e)
  \/ LoadReminders(e)
  \/ LoadRemindersFails(e)
  \/ \E row \in tick[e].rows : SkipRow(e, row) \/ PickReminder(e, row) \/ StartRenewal(e, row)
  \/ Send(e)
  \/ SendFails(e)
  \/ Record(e)
  \/ RecordFails(e)
  \/ LoadDue(e)
  \/ LoadDueFails(e)
  \/ Renewed(e)
  \/ RenewalFails(e)
  \/ EndTick(e)

EngineNext ==
  \/ TimePasses
  \/ \E th \in Settings : EditSettings(th)
  \/ \E c \in Certs : RenewByHand(c)
  \/ \E e \in Engines : Crash(e) \/ Panic(e) \/ Work(e)

EngineSpec == EngineInit /\ [][EngineNext]_engineVars

-----------------------------------------------------------------------------
(* Properties.                                                                *)

\* "The same certificate+threshold is never notified twice", by one and the same server, through
\* all its restarts and failures and whatever other servers send and log beside it -- unless an
\* entry of its own was not written.  (Two servers may send the same reminder once each.)
NotifiedOnceUnlessLost ==
  \A e \in Engines : \A x \in Pairs : notified[e][x] <= 1 \/ <<e, x>> \in lost

\* The ticks came in time and did all their work, and the engine rests.
Punctual == ~ late /\ \A e \in Engines : tick[e].at = "asleep" /\ ~ tick[e].waiting

Reminded(c, d) == \/ \E e \in Engines : notified[e][<<c, d>>] > 0
                  \/ <<c, d>> \in missed

\* Days that are left at the last tick.
Reached(c, d) == notAfter[c] - lastTick <= d * Day

\* Below the largest threshold of every setting, and with time to come down to it.
Lower(d) == d + 1 < Validity /\ \A th \in Settings : d \in th => \E m \in th : d < m

\* Consecutive ticks leave no day out: while the engine is punctual, a reminder is tried for
\* every threshold a certificate has come down to, but the largest.
LowerThresholdsRemind ==
  Punctual => \A c \in Certs : \A d \in steady : Lower(d) /\ Reached(c, d) => Reminded(c, d)

\* The same for every threshold: "Expiry reminders fire once per certificate per threshold".
EveryThresholdReminds ==
  Punctual =>
    \A c \in Certs : \A d \in steady : d < Validity /\ Reached(c, d) => Reminded(c, d)

\* A certificate that renews itself does not expire while the engine is punctual and its
\* renewals succeed (renew_before_days and the interval leave no gap).
NoLapseWhilePunctual ==
  Punctual => \A c \in AutoRenewed \ lapses : now < notAfter[c]

=============================================================================
