----------------------------- MODULE EngineProofs -----------------------------
(***************************************************************************)
(* Theorems about RenewalEngine, for every set of certificates and         *)
(* thresholds, every horizon and every number of faults.                   *)
(***************************************************************************)
EXTENDS RenewalEngine, TLAPS

\* A whole number of days is a whole number of units.
LEMMA Durations == Validity * Day \in Nat \ {0}
<1>1. Validity \in Nat \ {0} /\ Day \in Nat \ {0}
  BY EngineAssumption
<1>2. \A m, n \in Nat \ {0} : m * n \in Nat \ {0}
  OBVIOUS
<1>. QED
  BY <1>1, <1>2

\* A certificate issued at any time expires at one of the times considered.
LEMMA Expiries == \A t \in 0 .. Horizon : t + Validity * Day \in Times
BY Durations, EngineAssumption DEF Times

-----------------------------------------------------------------------------
\* Ticks that stay within their type, at stages where they remind of and renew the right thing.
Sound(t) ==
  /\ t \in Tick
  /\ t.at \in {"send", "record"} => t.current \in Pairs
  /\ t.at = "validate" => t.current \in Rows

LEMMA NewTickSound ==
  ASSUME NEW t, Sound(t), NEW e \in Engines, EngineTypeOK, tick' = [tick EXCEPT ![e] = t]
  PROVE  /\ tick' \in [Engines -> Tick]
         /\ \A x \in Engines : /\ tick'[x].at \in {"send", "record"} => tick'[x].current \in Pairs
                               /\ tick'[x].at = "validate" => tick'[x].current \in Rows
BY DEF Sound, EngineTypeOK

LEMMA RestSound ==
  ASSUME NEW stage \in {"down", "asleep", "start"}, NEW n \in 0 .. Horizon + Day
  PROVE  /\ Sound(NoTick(stage, n))
         /\ \A w \in BOOLEAN : Sound([NoTick(stage, n) EXCEPT !.waiting = w])
BY DEF Sound, NoTick, Tick, Stages

LEMMA InitTypeOK == EngineInit => EngineTypeOK
<1> SUFFICES ASSUME EngineInit PROVE EngineTypeOK
  OBVIOUS
<1>1. thresholds \in Settings /\ thresholds \subseteq Levels
  BY DEF EngineInit, Levels
<1>2. notAfter \in [Certs -> Times]
  BY Durations, EngineAssumption DEF EngineInit, Times
<1>3. tick \in [Engines -> Tick] /\ \A e \in Engines : tick[e].at = "start"
  BY EngineAssumption, RestSound DEF EngineInit, NoTick, Sound
<1>4. notified \in [Engines -> [Pairs -> 0 .. 2]]
  BY DEF EngineInit
<1>6. late \in BOOLEAN
  BY Zenon DEF EngineInit
<1>5. /\ now \in 0 .. Horizon /\ lastTick \in 0 .. Horizon /\ faults \in 0 .. MaxFaults /\ edits \in 0 .. MaxEdits
      /\ logged = {} /\ lost = {} /\ missed = {} /\ lapses = {} /\ steady = thresholds
  BY EngineAssumption DEF EngineInit
<1>. QED
  BY <1>1, <1>2, <1>3, <1>4, <1>5, <1>6 DEF EngineTypeOK

LEMMA NextTimeType ==
  ASSUME EngineTypeOK, NEW e \in Engines
  PROVE  NextTime(e) \in 0 .. Horizon + Day
BY EngineAssumption DEF EngineTypeOK, NextTime, Tick

\* What is listed, due for a reminder and due for renewal is of its type.
LEMMA RowsType ==
  ASSUME EngineTypeOK
  PROVE  /\ ListedRows(thresholds) \in SUBSET Rows
         /\ DueRows \in SUBSET Rows
         /\ \A e \in Engines : \A row \in tick[e].rows :
              DueReminders(e, row) \subseteq Pairs /\ row \in Rows
<1>1. \A c \in Certs : <<c, notAfter[c]>> \in Rows
  BY DEF Rows, EngineTypeOK
<1>2. \A e \in Engines : tick[e].rows \subseteq Rows /\ tick[e].config \subseteq Levels
  BY DEF Tick, EngineTypeOK
<1>3. \A row \in Rows : row[1] \in Certs
  BY DEF Rows
<1>4. ASSUME NEW e \in Engines, NEW row \in tick[e].rows
      PROVE  DueReminders(e, row) \subseteq Pairs
  <2>1. row[1] \in Certs /\ tick[e].config \subseteq Levels
    BY <1>2, <1>3
  <2>2. \A x \in DueReminders(e, row) : \E d \in tick[e].config : x = <<row[1], d>>
    BY DEF DueReminders
  <2>. QED
    BY <2>1, <2>2 DEF Pairs
<1>. QED
  BY <1>1, <1>2, <1>4 DEF ListedRows, DueRows

\* Every step keeps every variable within its type.
LEMMA StepTypeOK == EngineTypeOK /\ [EngineNext]_engineVars => EngineTypeOK'
<1> SUFFICES ASSUME EngineTypeOK, [EngineNext]_engineVars PROVE EngineTypeOK'
  OBVIOUS
<1>a. thresholds \in SUBSET Levels
  BY DEF EngineTypeOK, Levels
<1> USE <1>a, EngineAssumption DEF EngineTypeOK
<1>1. ASSUME TimePasses PROVE EngineTypeOK'
  <2>0. now < Horizon /\ now' = now + 1
    BY <1>1, Zenon DEF TimePasses
  <2>u. UNCHANGED <<notAfter, thresholds, logged, faults, edits,
                    notified, lost, missed, steady, lastTick, lapses>>
    BY <1>1, Zenon DEF TimePasses
  <2>1. ASSUME NEW e \in Engines, tick[e].next <= now + 1
        PROVE  Sound([tick[e] EXCEPT !.waiting = TRUE, !.next = @ + Day])
    <3>1. tick[e] \in Tick
      OBVIOUS
    <3>2. tick[e].next + Day \in 0 .. Horizon + Day
      BY <2>0, <2>1, <3>1 DEF Tick
    <3>3. [tick[e] EXCEPT !.waiting = TRUE, !.next = tick[e].next + Day] \in Tick
      BY <3>1, <3>2 DEF Tick
    <3>. QED
      BY <3>1, <3>3 DEF Sound, Tick
  <2>2. \A e \in Engines : Sound(tick[e])
    BY DEF Sound
  <2>3. \A e \in Engines : Sound(tick'[e])
    BY <1>1, <2>1, <2>2 DEF TimePasses
  <2>4. tick' \in [Engines -> Tick]
    BY <1>1, <2>3 DEF TimePasses, Sound
  <2>5. late' \in BOOLEAN
    BY <1>1, Zenon DEF TimePasses
  <2>6. \A e \in Engines : /\ tick'[e].at \in {"send", "record"} => tick'[e].current \in Pairs
                           /\ tick'[e].at = "validate" => tick'[e].current \in Rows
    BY <2>3 DEF Sound
  <2>7. now' \in 0 .. Horizon
    BY <2>0
  <2>8. /\ notAfter' \in [Certs -> Times] /\ thresholds' \in Settings /\ logged' \in SUBSET Pairs
        /\ faults' \in 0 .. MaxFaults /\ edits' \in 0 .. MaxEdits /\ notified' \in [Engines -> [Pairs -> 0 .. 2]]
        /\ lost' \in SUBSET (Engines \X Pairs) /\ missed' \in SUBSET Pairs /\ steady' \in SUBSET Levels
        /\ lastTick' \in 0 .. Horizon /\ lapses' \in SUBSET Certs
    BY <2>u
  <2>. QED
    BY <2>4, <2>5, <2>6, <2>7, <2>8
<1>2. ASSUME NEW th \in Settings, EditSettings(th) PROVE EngineTypeOK'
  BY <1>2 DEF EditSettings
<1>3. ASSUME NEW c \in Certs, RenewByHand(c) PROVE EngineTypeOK'
  <2>1. notAfter' \in [Certs -> Times]
    BY <1>3, Expiries DEF RenewByHand
  <2>. QED
    BY <1>3, <2>1 DEF RenewByHand, ghosts
<1>4. ASSUME NEW e \in Engines, NEW t, Sound(t), CutShort(e, t) PROVE EngineTypeOK'
  <2>1. lost' \in SUBSET (Engines \X Pairs)
    BY <1>4 DEF CutShort
  <2>2. /\ tick' \in [Engines -> Tick]
        /\ \A x \in Engines : /\ tick'[x].at \in {"send", "record"} => tick'[x].current \in Pairs
                              /\ tick'[x].at = "validate" => tick'[x].current \in Rows
    BY <1>4, NewTickSound DEF CutShort
  <2>. QED
    BY <1>4, <2>1, <2>2 DEF CutShort, Fault
<1>5. ASSUME NEW e \in Engines, Crash(e) PROVE EngineTypeOK'
  BY <1>4, <1>5, RestSound DEF Crash
<1>6. ASSUME NEW e \in Engines, Panic(e) PROVE EngineTypeOK'
  BY <1>4, <1>6, RestSound, NextTimeType DEF Panic, Tick
<1>7. ASSUME NEW e \in Engines, Work(e) PROVE EngineTypeOK'
  <2> DEFINE Locals == /\ now' \in 0 .. Horizon /\ thresholds' \in Settings /\ edits' \in 0 .. MaxEdits
                       /\ steady' \in SUBSET Levels /\ tick' \in [Engines -> Tick]
                       /\ \A x \in Engines : /\ tick'[x].at \in {"send", "record"} => tick'[x].current \in Pairs
                                             /\ tick'[x].at = "validate" => tick'[x].current \in Rows
  <2>0. ASSUME NEW from, NEW t, Sound(t), Step(e, from, t) PROVE Locals
    BY <2>0, NewTickSound DEF Step
  <2>1. \A stage \in {"start", "remind", "renew", "down", "asleep"} : Sound(At(e, stage))
    BY DEF At, Sound, Tick, Stages
  <2>2. CASE Restart(e)
    BY <2>0, <2>2, RestSound DEF Restart, ghosts
  <2>3. CASE NextTick(e)
    BY <2>0, <2>3, RestSound DEF NextTick, ghosts, Tick
  <2>4. CASE LoadReminders(e)
    <3>1. Sound([At(e, "remind") EXCEPT !.config = thresholds, !.rows = ListedRows(thresholds)])
      BY RowsType DEF At, Sound, Tick, Stages
    <3>2. Locals
      BY <2>0, <2>4, <3>1 DEF LoadReminders
    <3>. QED
      BY <2>4, <3>2 DEF LoadReminders
  <2>5. CASE LoadRemindersFails(e)
    BY <2>0, <2>1, <2>5 DEF LoadRemindersFails, Fault
  <2>6. ASSUME NEW row \in tick[e].rows, SkipRow(e, row) PROVE EngineTypeOK'
    <3>1. tick[e].at = "remind" => Sound(Handled(e, row))
      BY DEF Handled, Sound, Tick
    <3>2. Locals
      BY <2>0, <2>6, <3>1 DEF SkipRow, Step
    <3>. QED
      BY <2>6, <3>2 DEF SkipRow, ghosts
  <2>7. ASSUME NEW row \in tick[e].rows, PickReminder(e, row) PROVE EngineTypeOK'
    <3>1. \A x \in DueReminders(e, row) : Sound([Handled(e, row) EXCEPT !.at = "send", !.current = x])
      <4>1. tick[e] \in Tick /\ DueReminders(e, row) \subseteq Pairs
        BY RowsType
      <4> HIDE DEF EngineTypeOK
      <4>. QED
        BY <4>1 DEF Handled, Sound, Tick, Stages
    <3>2. Locals
      BY <2>0, <2>7, <3>1 DEF PickReminder
    <3>. QED
      BY <2>7, <3>2 DEF PickReminder, ghosts
  <2>8. ASSUME NEW row \in tick[e].rows, StartRenewal(e, row) PROVE EngineTypeOK'
    <3>1. Sound([Handled(e, row) EXCEPT !.at = "validate", !.current = row])
      BY RowsType DEF Handled, Sound, Tick, Stages
    <3>2. Locals
      BY <2>0, <2>8, <3>1 DEF StartRenewal
    <3>. QED
      BY <2>8, <3>2 DEF StartRenewal, ghosts
  <2>9. CASE Send(e)
    <3>1. Sound(At(e, "record")) /\ tick[e].current \in Pairs
      BY <2>9 DEF Send, Step, At, Sound, Tick, Stages
    <3>2. Locals
      BY <2>0, <2>9, <3>1 DEF Send
    <3>3. notified' \in [Engines -> [Pairs -> 0 .. 2]]
      BY <2>9, <3>1 DEF Send
    <3>. QED
      BY <2>9, <3>2, <3>3 DEF Send
  <2>10. CASE SendFails(e)
    <3>1. tick[e].current \in Pairs
      BY <2>10 DEF SendFails, Step
    <3>. QED
      BY <2>0, <2>1, <2>10, <3>1 DEF SendFails, Fault
  <2>11. CASE Record(e)
    <3>1. tick[e].current \in Pairs
      BY <2>11 DEF Record, Step
    <3>. QED
      BY <2>0, <2>1, <2>11, <3>1 DEF Record, ghosts
  <2>12. CASE RecordFails(e)
    <3>1. tick[e].current \in Pairs
      BY <2>12 DEF RecordFails, Step
    <3>. QED
      BY <2>0, <2>1, <2>12, <3>1 DEF RecordFails, Fault
  <2>13. CASE LoadDue(e)
    <3>1. Sound([At(e, "renew") EXCEPT !.rows = DueRows])
      BY RowsType DEF At, Sound, Tick, Stages
    <3>. QED
      BY <2>0, <2>13, <3>1 DEF LoadDue, ghosts
  <2>14. CASE LoadDueFails(e)
    BY <2>0, <2>1, <2>14 DEF LoadDueFails, Fault
  <2>15. CASE Renewed(e)
    <3>1. tick[e].current[1] \in Certs
      BY <2>15 DEF Renewed, Step, Rows
    <3>2. notAfter' \in [Certs -> Times]
      BY <2>15, <3>1, Expiries DEF Renewed
    <3>. QED
      BY <2>0, <2>1, <2>15, <3>2 DEF Renewed, ghosts
  <2>16. CASE RenewalFails(e)
    <3>1. tick[e].current[1] \in Certs
      BY <2>16 DEF RenewalFails, Step, Rows
    <3>. QED
      BY <2>0, <2>1, <2>16, <3>1 DEF RenewalFails, Fault
  <2>17. CASE EndTick(e)
    BY <2>0, <2>17, RestSound, NextTimeType DEF EndTick, ghosts, Tick
  <2>. QED
    BY <1>7, <2>2, <2>3, <2>4, <2>5, <2>6, <2>7, <2>8, <2>9, <2>10, <2>11, <2>12, <2>13, <2>14,
       <2>15, <2>16, <2>17 DEF Work
<1>8. CASE UNCHANGED engineVars
  BY <1>8 DEF engineVars, ghosts
<1>. QED
  BY <1>1, <1>2, <1>3, <1>5, <1>6, <1>7, <1>8 DEF EngineNext

\* Through crashes, panics, restarts and edits the engine's state stays within its types: it
\* always reminds of a configured threshold and renews a row it loaded.
THEOREM EngineTypeCorrect == EngineSpec => []EngineTypeOK
BY InitTypeOK, StepTypeOK, PTL DEF EngineSpec

-----------------------------------------------------------------------------
(* One engine reminds once.                                                   *)

\* A pair an engine has sent is on record, or that engine lost its entry or is about to write it;
\* what it is about to send it has not sent before, unless it lost the entry.  (Another engine
\* may log the pair between the look at the log and the sending.)
OnRecord(e, x) ==
  x \in logged \/ <<e, x>> \in lost \/ (tick[e].at = "record" /\ tick[e].current = x)

LogInv ==
  /\ \A e \in Engines : \A x \in Pairs : notified[e][x] > 0 => OnRecord(e, x)
  /\ \A e \in Engines : \A x \in Pairs : notified[e][x] = 2 => <<e, x>> \in lost
  /\ \A e \in Engines : \A x \in Pairs :
       tick[e].at = "send" /\ tick[e].current = x => notified[e][x] = 0 \/ <<e, x>> \in lost

LEMMA LogInvImplies == EngineTypeOK /\ LogInv => NotifiedOnceUnlessLost
<1> SUFFICES ASSUME EngineTypeOK, LogInv, NEW e \in Engines, NEW x \in Pairs
             PROVE  notified[e][x] <= 1 \/ <<e, x>> \in lost
  BY DEF NotifiedOnceUnlessLost
<1>1. notified[e][x] \in 0 .. 2
  BY DEF EngineTypeOK
<1>2. notified[e][x] = 2 => <<e, x>> \in lost
  BY DEF LogInv
<1>. QED
  BY <1>1, <1>2

LEMMA InitLogInv == EngineInit => LogInv
BY DEF EngineInit, LogInv, OnRecord, NoTick

\* A step that sends nothing and picks no pair: the entry an engine was about to write still
\* is, or is written or lost.
Kept(e) == tick'[e].at = tick[e].at /\ tick'[e].current = tick[e].current

LEMMA QuietSteps ==
  ASSUME LogInv, notified' = notified, logged \subseteq logged', lost \subseteq lost',
         \A e \in Engines :
           /\ tick'[e].at = "send" => Kept(e)
           /\ tick[e].at = "record" => Kept(e) \/ <<e, tick[e].current>> \in lost' \/ tick[e].current \in logged'
  PROVE  LogInv'
<1>1. \A e \in Engines : \A x \in Pairs : OnRecord(e, x) => OnRecord(e, x)'
  BY DEF OnRecord, Kept
<1>2. \A e \in Engines : \A x \in Pairs : notified'[e][x] > 0 => OnRecord(e, x)'
  BY <1>1 DEF LogInv
<1>3. \A e \in Engines : \A x \in Pairs : notified'[e][x] = 2 => <<e, x>> \in lost'
  BY DEF LogInv
<1>4. \A e \in Engines : \A x \in Pairs :
        tick'[e].at = "send" /\ tick'[e].current = x => notified'[e][x] = 0 \/ <<e, x>> \in lost'
  BY DEF LogInv, Kept
<1>. QED
  BY <1>2, <1>3, <1>4 DEF LogInv

\* A step of one engine from a stage to another that is neither "send" nor left by "record".
LEMMA QuietWork ==
  ASSUME LogInv, EngineTypeOK, NEW e \in Engines, NEW from \in Stages \ {"record"}, NEW t,
         Step(e, from, t), t.at # "send" \/ (t.at = from /\ t.current = tick[e].current),
         notified' = notified, logged' = logged, lost' = lost
  PROVE  LogInv'
<1>1. \A d \in Engines \ {e} : Kept(d)
  BY DEF Step, Kept, EngineTypeOK
<1>2. tick'[e] = t /\ tick[e].at = from
  BY DEF Step, EngineTypeOK
<1>. QED
  BY <1>1, <1>2, QuietSteps DEF Kept

\* Sending: the first time, or once more for an entry that was lost.
LEMMA SendLogged ==
  ASSUME EngineTypeOK, LogInv, NEW e \in Engines, Send(e)
  PROVE  LogInv'
<1>1. PICK x \in Pairs : x = tick[e].current
  BY DEF Send, Step, EngineTypeOK
<1>2. tick[e].at = "send" /\ tick[e] \in Tick /\ tick' = [tick EXCEPT ![e] = [tick[e] EXCEPT !.at = "record"]]
  BY DEF Send, Step, At, EngineTypeOK
<1>3. tick'[e].at = "record" /\ tick'[e].current = x /\ \A d \in Engines \ {e} : tick'[d] = tick[d]
  BY <1>1, <1>2 DEF EngineTypeOK, Tick
<1>4. logged' = logged /\ lost' = lost
  BY DEF Send
<1>5. /\ notified'[e][x] = IF notified[e][x] = 0 THEN 1 ELSE 2
      /\ \A y \in Pairs \ {x} : notified'[e][y] = notified[e][y]
      /\ \A d \in Engines \ {e} : notified'[d] = notified[d]
  <2>1. notified \in [Engines -> [Pairs -> 0 .. 2]]
    BY DEF EngineTypeOK
  <2>2. notified' = [notified EXCEPT ![e][x] = IF @ = 0 THEN 1 ELSE 2]
    BY <1>1 DEF Send
  <2>. QED
    BY <2>1, <2>2
<1>6. notified[e][x] = 0 \/ <<e, x>> \in lost
  BY <1>1, <1>2 DEF LogInv
<1>7. \A d \in Engines : \A y \in Pairs : notified'[d][y] > 0 => OnRecord(d, y)'
  <2>1. OnRecord(e, x)'
    BY <1>3 DEF OnRecord
  <2>2. \A y \in Pairs : OnRecord(e, y) => OnRecord(e, y)'
    BY <1>2, <1>4 DEF OnRecord
  <2>3. \A d \in Engines \ {e} : \A y \in Pairs : OnRecord(d, y) => OnRecord(d, y)'
    BY <1>3, <1>4 DEF OnRecord
  <2>. QED
    BY <1>5, <2>1, <2>2, <2>3 DEF LogInv
<1>8. \A d \in Engines : \A y \in Pairs : notified'[d][y] = 2 => <<d, y>> \in lost'
  BY <1>4, <1>5, <1>6 DEF LogInv
<1>9. \A d \in Engines : \A y \in Pairs :
        tick'[d].at = "send" /\ tick'[d].current = y => notified'[d][y] = 0 \/ <<d, y>> \in lost'
  BY <1>3, <1>4, <1>5 DEF LogInv
<1>. QED
  BY <1>7, <1>8, <1>9 DEF LogInv

\* Picking a pair: the log has no entry for it, nor is the engine about to write one.
LEMMA PickLogged ==
  ASSUME EngineTypeOK, LogInv, NEW e \in Engines, NEW row \in tick[e].rows, PickReminder(e, row)
  PROVE  LogInv'
<1>1. PICK x \in DueReminders(e, row) : Step(e, "remind", [Handled(e, row) EXCEPT !.at = "send", !.current = x])
  BY DEF PickReminder
<1>2. x \notin logged /\ x \in Pairs
  BY RowsType DEF DueReminders, HasSent
<1>3. /\ tick[e].at = "remind" /\ tick[e] \in Tick
      /\ tick' = [tick EXCEPT ![e] = [[tick[e] EXCEPT !.rows = @ \ {row}] EXCEPT !.at = "send", !.current = x]]
  BY <1>1 DEF Step, Handled, EngineTypeOK
<1>4. logged' = logged /\ notified' = notified /\ lost' = lost
  BY DEF PickReminder, ghosts
<1>5. tick'[e].at = "send" /\ tick'[e].current = x /\ \A d \in Engines \ {e} : tick'[d] = tick[d]
  BY <1>3 DEF EngineTypeOK, Tick
<1>6. notified[e][x] = 0 \/ <<e, x>> \in lost
  <2>1. notified[e][x] \in 0 .. 2
    BY <1>2 DEF EngineTypeOK
  <2>2. ~ OnRecord(e, x) \/ <<e, x>> \in lost
    BY <1>2, <1>3 DEF OnRecord
  <2>. QED
    BY <1>2, <2>1, <2>2 DEF LogInv
<1>7. \A d \in Engines : \A y \in Pairs : OnRecord(d, y) => OnRecord(d, y)'
  BY <1>3, <1>4, <1>5 DEF OnRecord
<1>8. \A d \in Engines : \A y \in Pairs :
        tick'[d].at = "send" /\ tick'[d].current = y => notified'[d][y] = 0 \/ <<d, y>> \in lost'
  BY <1>4, <1>5, <1>6 DEF LogInv
<1>. QED
  BY <1>4, <1>7, <1>8 DEF LogInv

\* Every step keeps the log invariant, whichever engine takes it.
LEMMA StepLogInv ==
  ASSUME EngineTypeOK, LogInv, [EngineNext]_engineVars
  PROVE  LogInv'
<1>1. CASE TimePasses
  <2>1. \A e \in Engines : Kept(e)
    <3>1. \A e \in Engines : \/ tick'[e] = [tick[e] EXCEPT !.waiting = TRUE, !.next = @ + Day]
                             \/ tick'[e] = tick[e]
      BY <1>1, Zenon DEF TimePasses
    <3>2. \A e \in Engines : tick[e] \in Tick
      BY DEF EngineTypeOK
    <3>. QED
      BY <3>1, <3>2 DEF Kept, Tick
  <2>. QED
    BY <1>1, <2>1, QuietSteps DEF TimePasses
<1>2. ASSUME NEW th \in Settings, EditSettings(th) PROVE LogInv'
  BY <1>2, QuietSteps DEF EditSettings, Kept
<1>3. ASSUME NEW c \in Certs, RenewByHand(c) PROVE LogInv'
  BY <1>3, QuietSteps DEF RenewByHand, Kept, ghosts
<1>4. ASSUME NEW e \in Engines, NEW t, t.at \in {"down", "asleep"}, CutShort(e, t) PROVE LogInv'
  <2>1. \A d \in Engines \ {e} : Kept(d)
    BY <1>4 DEF CutShort, Kept, EngineTypeOK
  <2>2. tick'[e].at # "send" /\ (tick[e].at = "record" => <<e, tick[e].current>> \in lost')
    BY <1>4 DEF CutShort, EngineTypeOK
  <2>. QED
    BY <1>4, <2>1, <2>2, QuietSteps DEF CutShort
<1>5. ASSUME NEW e \in Engines, Crash(e) PROVE LogInv'
  BY <1>4, <1>5 DEF Crash, NoTick
<1>6. ASSUME NEW e \in Engines, Panic(e) PROVE LogInv'
  BY <1>4, <1>6 DEF Panic, NoTick
<1>7. ASSUME NEW e \in Engines, Work(e) PROVE LogInv'
  <2>1. CASE Send(e)
    BY <2>1, SendLogged
  <2>2. CASE Record(e) \/ RecordFails(e)
    <3>1. /\ tick[e].at = "record" /\ tick'[e].at = "remind"
          /\ \A d \in Engines \ {e} : tick'[d] = tick[d]
      BY <2>2 DEF Record, RecordFails, Step, At, EngineTypeOK, Tick
    <3>2. /\ tick[e].current \in logged' \/ <<e, tick[e].current>> \in lost'
          /\ lost \subseteq lost' /\ logged \subseteq logged' /\ notified' = notified
      BY <2>2 DEF Record, RecordFails, ghosts
    <3>. QED
      BY <3>1, <3>2, QuietSteps DEF Kept
  <2>4. ASSUME NEW row \in tick[e].rows, PickReminder(e, row) PROVE LogInv'
    BY <2>4, PickLogged
  <2>a. tick[e] \in Tick /\ \A stage \in Stages : At(e, stage).at = stage
    BY DEF EngineTypeOK, Tick, At
  <2>5. CASE Restart(e)
    BY <2>5, QuietWork, <2>a DEF Restart, ghosts, NoTick, Stages
  <2>6. CASE NextTick(e)
    BY <2>6, QuietWork, <2>a DEF NextTick, ghosts, NoTick, Stages
  <2>7. CASE LoadReminders(e)
    BY <2>7, QuietWork, <2>a DEF LoadReminders, ghosts, At, Stages, Tick
  <2>8. CASE LoadRemindersFails(e)
    BY <2>8, QuietWork, <2>a DEF LoadRemindersFails, ghosts, Stages
  <2>9. CASE SendFails(e)
    BY <2>9, QuietWork, <2>a DEF SendFails, ghosts, Stages
  <2>10. CASE LoadDue(e)
    BY <2>10, QuietWork, <2>a DEF LoadDue, ghosts, At, Stages, Tick
  <2>11. CASE LoadDueFails(e)
    BY <2>11, QuietWork, <2>a DEF LoadDueFails, ghosts, Stages
  <2>12. CASE Renewed(e)
    BY <2>12, QuietWork, <2>a DEF Renewed, ghosts, Stages
  <2>13. CASE RenewalFails(e)
    BY <2>13, QuietWork, <2>a DEF RenewalFails, ghosts, Stages
  <2>14. CASE EndTick(e)
    BY <2>14, QuietWork, <2>a DEF EndTick, ghosts, NoTick, Stages
  <2>15. ASSUME NEW row \in tick[e].rows, SkipRow(e, row) PROVE LogInv'
    <3>1. Handled(e, row).at = tick[e].at
      BY <2>a DEF Handled, Tick
    <3>. QED
      BY <2>15, <3>1, QuietWork DEF SkipRow, Step, Stages, ghosts
  <2>16. ASSUME NEW row \in tick[e].rows, StartRenewal(e, row) PROVE LogInv'
    <3>1. [Handled(e, row) EXCEPT !.at = "validate", !.current = row].at = "validate"
      BY <2>a DEF Handled, Tick
    <3>. QED
      BY <2>16, <3>1, QuietWork DEF StartRenewal, Stages, ghosts
  <2>. QED
    BY <1>7, <2>1, <2>2, <2>4, <2>5, <2>6, <2>7, <2>8, <2>9, <2>10, <2>11, <2>12, <2>13, <2>14,
       <2>15, <2>16 DEF Work
<1>8. CASE UNCHANGED engineVars
  BY <1>8, QuietSteps DEF engineVars, ghosts, Kept
<1>. QED
  BY <1>1, <1>2, <1>3, <1>5, <1>6, <1>7, <1>8 DEF EngineNext

\* Each engine, whatever fails, however often it restarts, and whatever other engines send and
\* log beside it, sends a reminder at most once for a certificate and a threshold unless an
\* entry of its own was lost.
THEOREM EnginesNotifyOnce == EngineSpec => []NotifiedOnceUnlessLost
BY EngineTypeCorrect, InitLogInv, StepLogInv, LogInvImplies, PTL DEF EngineSpec

-----------------------------------------------------------------------------
(* Punctual engines leave out no threshold but the largest, and let nothing   *)
(* expire.                                                                    *)

Days(k) == k * Day

LEMMA DaysFacts ==
  /\ Day \in Nat \ {0} /\ Validity \in Nat \ {0} /\ RenewBefore \in Nat
  /\ \A k \in Nat : Days(k) \in Nat
  /\ \A j, k \in Nat : j < k => Days(j) + Day <= Days(k)
<1>1. Day \in Nat \ {0} /\ Validity \in Nat \ {0} /\ RenewBefore \in Nat
  BY EngineAssumption
<1>2. \A k \in Nat : k * Day \in Nat
  BY <1>1
<1>3. ASSUME NEW j \in Nat, NEW k \in Nat, j < k
      PROVE  j * Day + Day <= k * Day
  <2>1. PICK i \in Nat : i = k - j - 1
    BY <1>3
  <2>2. i * Day \in Nat /\ j * Day \in Nat
    BY <1>2
  <2>3. k * Day = (j + 1 + i) * Day
    BY <2>1
  <2>4. (j + 1 + i) * Day = j * Day + Day + i * Day
    BY <1>1
  <2>. QED
    BY <1>1, <2>2, <2>3, <2>4
<1>. QED
  BY <1>1, <1>2, <1>3 DEF Days

LEMMA LowerFits ==
  ASSUME NEW d \in Nat, Lower(d)
  PROVE  Days(d) + Day < Days(Validity)
<1>1. d + 1 \in Nat /\ d < d + 1 /\ d + 1 < Validity
  BY DEF Lower
<1>2. Days(d) + Day <= Days(d + 1) /\ Days(d + 1) + Day <= Days(Validity)
  BY <1>1, DaysFacts
<1>3. Days(d) \in Nat /\ Days(d + 1) \in Nat /\ Days(Validity) \in Nat /\ Day \in Nat \ {0}
  BY <1>1, DaysFacts
<1>. QED
  BY <1>2, <1>3

LEMMA Truncated ==
  ASSUME NEW x \in Nat, NEW d \in Nat, Days(d) <= x, x < Days(d) + Day
  PROVE  x \div Day = d
<1>1. Day \in Nat \ {0}
  BY DaysFacts
<1>2. PICK q \in Nat : q = x \div Day
  BY <1>1
<1>3. Days(q) <= x /\ x < Days(q) + Day
  BY <1>1, <1>2 DEF Days
<1>4. Days(q) \in Nat /\ Days(d) \in Nat
  BY DaysFacts
<1>5. ~ q < d
  <2>1. q < d => Days(q) + Day <= Days(d)
    BY DaysFacts
  <2>. QED
    BY <1>1, <1>3, <1>4, <2>1
<1>6. ~ d < q
  <2>1. d < q => Days(d) + Day <= Days(q)
    BY DaysFacts
  <2>. QED
    BY <1>1, <1>3, <1>4, <2>1
<1>. QED
  BY <1>2, <1>5, <1>6

\* Between d and d + 1 days, DaysLeft says d.
LEMMA DayLeft ==
  ASSUME NEW t \in Int, NEW d \in Nat, now \in Nat,
         now + Days(d) < t, t <= now + Days(d) + Day
  PROVE  DaysLeft(t) = d
<1>1. Days(d) \in Nat /\ Day \in Nat \ {0}
  BY DaysFacts
<1>2. PICK x \in Nat : x = t - now - 1
  BY <1>1
<1>3. x \div Day = d
  BY <1>1, <1>2, Truncated
<1>4. t > now
  BY <1>1
<1>. QED
  BY <1>2, <1>3, <1>4 DEF DaysLeft

\* Pairs that were reminded of, or that a reminder was tried for.
Told == {x \in Pairs : (\E e \in Engines : notified[e][x] > 0) \/ x \in missed}

\* Whatever has come down to a lower threshold by t was reminded of it.
Upto(t, na, st, told) ==
  \A c \in Certs, d \in st : Lower(d) /\ na[c] <= t + Days(d) => <<c, d>> \in told

\* The renewal threshold leaves a day, and a new certificate more than it.
Gapless == 1 <= RenewBefore /\ RenewBefore < Validity

Ahead(t, na, la) == Gapless => \A c \in AutoRenewed \ la : na[c] > t + Days(RenewBefore)

Timed(q, n) ==
  /\ q.at # "down"
  /\ q.next = 0 \/ (n < q.next /\ q.next <= n + Day)
  /\ q.at = "asleep" => q.next # 0

\* At rest, everything is done until the ticker fires next.
Rested(q, na, st, told, la) ==
  q.at = "asleep" /\ ~ q.waiting => Upto(q.next, na, st, told) /\ Ahead(q.next - Day, na, la)

Awaiting(q, n, na, st, told) ==
  (q.at = "asleep" /\ q.waiting) \/ q.at \in {"start", "remind", "send", "record"} => Upto(n, na, st, told)

\* What the tick has still to remind of is among its rows or about to go out.
Reminding(q, n, na, st, told) ==
  q.at \in {"remind", "send", "record"} =>
    /\ st \subseteq q.config
    /\ \A c \in Certs, d \in st : Lower(d) /\ na[c] <= n + Day + Days(d) =>
         <<c, d>> \in told \/ <<c, na[c]>> \in q.rows \/ (q.at = "send" /\ q.current = <<c, d>>)

Renewing(q, n, na, st, told, la) ==
  q.at \in {"renew", "validate"} =>
    /\ Upto(n + Day, na, st, told)
    /\ Gapless => \A c \in AutoRenewed \ la :
         \/ na[c] > n + Days(RenewBefore)
         \/ \E row \in q.rows : row[1] = c
         \/ q.at = "validate" /\ q.current[1] = c

Fit(q, n, na, st, told, la) ==
  /\ Timed(q, n)
  /\ Rested(q, na, st, told, la)
  /\ Awaiting(q, n, na, st, told)
  /\ Reminding(q, n, na, st, told)
  /\ Renewing(q, n, na, st, told, la)

OnLog == logged \subseteq Told /\ \A e \in Engines : tick[e].at = "record" => tick[e].current \in Told

PunctualInv ==
  /\ EngineTypeOK
  /\ OnLog
  /\ lastTick <= now
  /\ steady \subseteq thresholds
  /\ ~ late => \A e \in Engines : Fit(tick[e], now, notAfter, steady, Told, lapses)

LEMMA Typed ==
  ASSUME EngineTypeOK
  PROVE  /\ now \in Nat /\ lastTick \in Nat
         /\ \A c \in Certs : notAfter[c] \in Nat
         /\ steady \subseteq Levels /\ Levels \subseteq Nat
         /\ \A e \in Engines : tick[e] \in Tick /\ tick[e].next \in Nat
<1>1. Horizon \in Nat /\ Validity * Day \in Nat /\ Day \in Nat
  BY Durations, EngineAssumption
<1>2. Levels \subseteq Nat
  BY EngineAssumption DEF Levels
<1>3. \A c \in Certs : notAfter[c] \in Nat
  BY <1>1 DEF EngineTypeOK, Times
<1>4. \A e \in Engines : tick[e] \in Tick
  BY DEF EngineTypeOK
<1>5. \A q \in Tick : q.next \in Nat
  BY <1>1 DEF Tick
<1>. QED
  BY <1>1, <1>2, <1>3, <1>4, <1>5 DEF EngineTypeOK

\* What is renewed has more than a day above every lower threshold.
LEMMA UptoKept ==
  ASSUME NEW n \in Nat, NEW t \in Int, t <= n + Day,
         NEW na, NEW nb, NEW st, NEW sb, st \subseteq Nat, sb \subseteq st, NEW told, NEW tb, told \subseteq tb,
         \A c \in Certs : nb[c] = na[c] \/ nb[c] = n + Days(Validity),
         Upto(t, na, st, told)
  PROVE  Upto(t, nb, sb, tb)
<1> SUFFICES ASSUME NEW c \in Certs, NEW d \in sb, Lower(d), nb[c] <= t + Days(d)
             PROVE  <<c, d>> \in tb
  BY DEF Upto
<1>1. Days(d) + Day < Days(Validity) /\ Days(d) \in Nat /\ Days(Validity) \in Nat /\ Day \in Nat
  BY LowerFits, DaysFacts
<1>2. nb[c] # n + Days(Validity)
  BY <1>1
<1>3. nb[c] = na[c]
  BY <1>2
<1>. QED
  BY <1>3 DEF Upto

LEMMA FitKept ==
  ASSUME NEW q \in Tick, NEW n \in Nat,
         NEW na, NEW nb, NEW st, NEW sb, st \subseteq Nat, sb \subseteq st, NEW told, NEW tb, told \subseteq tb,
         NEW la, NEW lb, la \subseteq lb,
         \A c \in Certs : nb[c] = na[c] \/ nb[c] = n + Days(Validity),
         Fit(q, n, na, st, told, la)
  PROVE  Fit(q, n, nb, sb, tb, lb)
<1>0. Day \in Nat \ {0} /\ Days(RenewBefore) \in Nat /\ Days(Validity) \in Nat /\ n + Day \in Int /\ n <= n + Day
  BY DaysFacts
<1>1. Timed(q, n)
  BY DEF Fit
<1>2. q.next \in Nat
  BY EngineAssumption DEF Tick
<1>3. Gapless => Days(RenewBefore) + Day <= Days(Validity)
  BY DaysFacts DEF Gapless
<1>4. Rested(q, nb, sb, tb, lb)
  <2> SUFFICES ASSUME q.at = "asleep" /\ ~ q.waiting
               PROVE  Upto(q.next, nb, sb, tb) /\ Ahead(q.next - Day, nb, lb)
    BY DEF Rested
  <2>1. Upto(q.next, na, st, told) /\ Ahead(q.next - Day, na, la)
    BY DEF Fit, Rested
  <2>2. q.next <= n + Day
    BY <1>1 DEF Timed
  <2>3. Upto(q.next, nb, sb, tb)
    <3>1. q.next \in Int
      BY <1>2
    <3>. QED
      BY <2>1, <2>2, <3>1, UptoKept
  <2>4. Ahead(q.next - Day, nb, lb)
    <3> SUFFICES ASSUME Gapless, NEW c \in AutoRenewed \ lb
                 PROVE  nb[c] > q.next - Day + Days(RenewBefore)
      BY DEF Ahead
    <3>1. c \in Certs /\ c \in AutoRenewed \ la
      BY EngineAssumption
    <3>2. CASE nb[c] = na[c]
      BY <2>1, <3>1, <3>2 DEF Ahead
    <3>3. CASE nb[c] = n + Days(Validity)
      BY <1>0, <1>2, <1>3, <2>2, <3>3
    <3>. QED
      BY <3>1, <3>2, <3>3
  <2>. QED
    BY <2>3, <2>4
<1>5. Awaiting(q, n, nb, sb, tb)
  <2>1. n \in Int
    OBVIOUS
  <2>2. Upto(n, na, st, told) => Upto(n, nb, sb, tb)
    BY <1>0, <2>1, UptoKept
  <2>. QED
    BY <2>2, Zenon DEF Fit, Awaiting
<1>6. Reminding(q, n, nb, sb, tb)
  <2> SUFFICES ASSUME q.at \in {"remind", "send", "record"}
               PROVE  /\ sb \subseteq q.config
                      /\ \A c \in Certs, d \in sb : Lower(d) /\ nb[c] <= n + Day + Days(d) =>
                           \/ <<c, d>> \in tb \/ <<c, nb[c]>> \in q.rows
                           \/ (q.at = "send" /\ q.current = <<c, d>>)
    BY DEF Reminding
  <2>1. /\ st \subseteq q.config
        /\ \A c \in Certs, d \in st : Lower(d) /\ na[c] <= n + Day + Days(d) =>
             \/ <<c, d>> \in told \/ <<c, na[c]>> \in q.rows
             \/ (q.at = "send" /\ q.current = <<c, d>>)
    BY DEF Fit, Reminding
  <2>2. ASSUME NEW c \in Certs, NEW d \in sb, Lower(d), nb[c] <= n + Day + Days(d)
        PROVE  nb[c] = na[c]
    <3>1. Days(d) + Day < Days(Validity) /\ Days(d) \in Nat
      BY <2>2, LowerFits, DaysFacts
    <3>. QED
      BY <1>0, <2>2, <3>1
  <2>. QED
    BY <2>1, <2>2
<1>7. Renewing(q, n, nb, sb, tb, lb)
  <2> SUFFICES ASSUME q.at \in {"renew", "validate"}
               PROVE  /\ Upto(n + Day, nb, sb, tb)
                      /\ Gapless => \A c \in AutoRenewed \ lb :
                           \/ nb[c] > n + Days(RenewBefore)
                           \/ \E row \in q.rows : row[1] = c
                           \/ q.at = "validate" /\ q.current[1] = c
    BY DEF Renewing
  <2>1. /\ Upto(n + Day, na, st, told)
        /\ Gapless => \A c \in AutoRenewed \ la :
             \/ na[c] > n + Days(RenewBefore)
             \/ \E row \in q.rows : row[1] = c
             \/ q.at = "validate" /\ q.current[1] = c
    BY DEF Fit, Renewing
  <2>2. Upto(n + Day, nb, sb, tb)
    <3>1. PICK t \in Int : t = n + Day
      BY <1>0
    <3>2. t <= n + Day /\ Upto(t, na, st, told)
      BY <2>1, <3>1
    <3>3. Upto(t, nb, sb, tb)
      BY <3>2, UptoKept
    <3>. QED
      BY <3>1, <3>3
  <2>3. ASSUME Gapless, NEW c \in AutoRenewed \ lb, nb[c] # na[c]
        PROVE  nb[c] > n + Days(RenewBefore)
    BY <1>0, <1>3, <2>3, EngineAssumption
  <2>. QED
    BY <2>1, <2>2, <2>3
<1>. QED
  BY <1>1, <1>4, <1>5, <1>6, <1>7 DEF Fit

LEMMA InitPunctualInv == EngineInit => PunctualInv
<1> SUFFICES ASSUME EngineInit
             PROVE  PunctualInv
  OBVIOUS
<1>1. EngineTypeOK
  BY InitTypeOK
<1>2. /\ logged = {} /\ now = 0 /\ lastTick = 0 /\ steady = thresholds
      /\ \A e \in Engines : tick[e] = NoTick("start", 0)
      /\ \A c \in Certs : notAfter[c] >= Validity * Day - 1
  BY Durations DEF EngineInit
<1>3. OnLog
  BY <1>2 DEF OnLog, NoTick
<1>4. Upto(now, notAfter, steady, Told)
  <2> SUFFICES ASSUME NEW c \in Certs, NEW d \in steady, Lower(d), notAfter[c] <= now + Days(d)
               PROVE  FALSE
    BY DEF Upto
  <2>1. d \in Nat /\ notAfter[c] \in Nat
    BY <1>1, Typed
  <2>2. Days(d) + Day < Days(Validity) /\ Days(d) \in Nat /\ Day \in Nat \ {0} /\ Days(Validity) \in Nat
    BY <2>1, LowerFits, DaysFacts
  <2>3. notAfter[c] >= Days(Validity) - 1
    BY <1>2 DEF Days
  <2>. QED
    BY <1>2, <2>1, <2>2, <2>3
<1>5. ASSUME NEW e \in Engines
      PROVE  Fit(tick[e], now, notAfter, steady, Told, lapses)
  <2>1. tick[e].at = "start" /\ tick[e].next = 0
    BY <1>2 DEF NoTick
  <2>. QED
    BY <1>4, <2>1 DEF Fit, Timed, Rested, Awaiting, Reminding, Renewing
<1>. QED
  BY <1>1, <1>2, <1>3, <1>5 DEF PunctualInv

\* A step that changes nothing of the ticks.
LEMMA StepAround ==
  ASSUME PunctualInv, EngineTypeOK', UNCHANGED <<now, tick, lastTick, late, logged>>,
         Told \subseteq Told', lapses \subseteq lapses', steady' \subseteq steady, steady' \subseteq thresholds',
         \A c \in Certs : notAfter'[c] = notAfter[c] \/ notAfter'[c] = now + Days(Validity)
  PROVE  PunctualInv'
<1>1. OnLog' /\ lastTick' <= now'
  BY DEF PunctualInv, OnLog
<1>2. now \in Nat /\ steady \subseteq Nat
  BY Typed DEF PunctualInv
<1>3. ASSUME ~ late, NEW e \in Engines
      PROVE  Fit(tick[e], now, notAfter', steady', Told', lapses')
  <2>1. Fit(tick[e], now, notAfter, steady, Told, lapses) /\ tick[e] \in Tick
    BY <1>3, Typed DEF PunctualInv
  <2>. QED
    BY <1>2, <2>1, FitKept
<1>4. (~ late)' => \A e \in Engines : Fit(tick'[e], now', notAfter', steady', Told', lapses')
  BY <1>3
<1>. QED
  BY <1>1, <1>4 DEF PunctualInv

\* A step of one engine, which fits afterwards.
LEMMA StepEngine ==
  ASSUME PunctualInv, EngineTypeOK', NEW e \in Engines, NEW new,
         tick' = [tick EXCEPT ![e] = new],
         UNCHANGED <<now, thresholds, steady>>,
         logged' \subseteq Told', new.at = "record" => new.current \in Told',
         lastTick' <= now',
         Told \subseteq Told', lapses \subseteq lapses',
         \A c \in Certs : notAfter'[c] = notAfter[c] \/ notAfter'[c] = now + Days(Validity),
         ~ late' => ~ late,
         ~ late' => Fit(new, now, notAfter', steady, Told', lapses')
  PROVE  PunctualInv'
<1>1. tick'[e] = new /\ \A x \in Engines \ {e} : tick'[x] = tick[x]
  BY DEF PunctualInv, EngineTypeOK
<1>2. OnLog'
  BY <1>1 DEF PunctualInv, OnLog
<1>3. now \in Nat /\ steady \subseteq Nat
  BY Typed DEF PunctualInv
<1>4. ASSUME ~ late', NEW x \in Engines
      PROVE  Fit(tick'[x], now, notAfter', steady, Told', lapses')
  <2>1. CASE x = e
    BY <1>1, <1>4, <2>1
  <2>2. CASE x # e
    <3>1. Fit(tick[x], now, notAfter, steady, Told, lapses) /\ tick[x] \in Tick
      BY <1>4, Typed DEF PunctualInv
    <3>2. steady' \subseteq steady
      OBVIOUS
    <3>3. Fit(tick[x], now, notAfter', steady', Told', lapses')
      BY <1>3, <3>1, <3>2, FitKept
    <3>. QED
      BY <1>1, <2>2, <3>3
  <2>. QED
    BY <2>1, <2>2
<1>5. ~ late' => \A x \in Engines : Fit(tick'[x], now', notAfter', steady', Told', lapses')
  BY <1>4
<1>6. steady' \subseteq thresholds'
  BY DEF PunctualInv
<1>. QED
  BY <1>2, <1>5, <1>6 DEF PunctualInv

LEMMA StepTime ==
  ASSUME PunctualInv, TimePasses, EngineTypeOK'
  PROVE  PunctualInv'
<1>1. /\ now' = now + 1
      /\ late' = (late \/ \E e \in Engines : tick[e].at # "asleep" \/ tick[e].waiting)
      /\ UNCHANGED <<notAfter, thresholds, logged, notified, missed, steady, lastTick, lapses>>
  BY Zenon DEF TimePasses
<1>2. Told' = Told
  BY <1>1 DEF Told
<1>3. now \in Nat /\ lastTick \in Nat /\ Day \in Nat \ {0}
  BY Typed, DaysFacts DEF PunctualInv
<1>4. lastTick' <= now'
  BY <1>1, <1>3 DEF PunctualInv
<1>5. \A e \in Engines : tick'[e].at = tick[e].at /\ tick'[e].current = tick[e].current
  <2>1. ASSUME NEW e \in Engines
        PROVE  tick'[e].at = tick[e].at /\ tick'[e].current = tick[e].current
    <3>1. PICK q \in Tick : q = tick[e]
      BY Typed DEF PunctualInv
    <3>3. PICK r : r = [q EXCEPT !.waiting = TRUE, !.next = q.next + Day]
      OBVIOUS
    <3>2. tick'[e] = q \/ tick'[e] = r
      BY <3>1, <3>3 DEF TimePasses
    <3>4. r.at = q.at /\ r.current = q.current
      BY <3>3 DEF Tick
    <3>. QED
      BY <3>1, <3>2, <3>4
  <2>. QED
    BY <2>1
<1>6. OnLog'
  BY <1>1, <1>2, <1>5 DEF PunctualInv, OnLog
<1>7. ASSUME ~ late', NEW e \in Engines
      PROVE  Fit(tick'[e], now + 1, notAfter, steady, Told, lapses)
  <2>1. ~ late /\ tick[e].at = "asleep" /\ ~ tick[e].waiting
    BY <1>1, <1>7, Zenon
  <2>2. PICK q \in Tick : q = tick[e]
    BY Typed DEF PunctualInv
  <2>3. Fit(q, now, notAfter, steady, Told, lapses)
    BY <2>1, <2>2 DEF PunctualInv
  <2>4. q.next \in Nat /\ now < q.next /\ q.next <= now + Day
    BY <2>1, <2>2, <2>3, Typed DEF Fit, Timed, PunctualInv
  <2>5. Upto(q.next, notAfter, steady, Told) /\ Ahead(q.next - Day, notAfter, lapses)
    BY <2>1, <2>2, <2>3, Zenon DEF Fit, Rested
  <2>6. CASE q.next <= now + 1
    <3>1. PICK r : r = [q EXCEPT !.waiting = TRUE, !.next = q.next + Day]
      OBVIOUS
    <3>2. tick'[e] = r
      <4>1. tick'[e] = IF q.next # 0 /\ q.next <= now + 1 THEN r ELSE q
        BY <2>2, <3>1 DEF TimePasses
      <4>2. q.next # 0
        BY <1>3, <2>4
      <4>. QED
        BY <2>6, <4>1, <4>2
    <3>3. r.at = "asleep" /\ r.waiting = TRUE /\ r.next = q.next + Day
      BY <2>1, <2>2, <3>1 DEF Tick
    <3>4. q.next = now + 1
      BY <1>3, <2>4, <2>6
    <3>5. Timed(r, now + 1)
      BY <1>3, <3>3, <3>4 DEF Timed
    <3>6. Awaiting(r, now + 1, notAfter, steady, Told)
      BY <2>5, <3>4 DEF Awaiting
    <3>7. /\ Rested(r, notAfter, steady, Told, lapses)
          /\ Reminding(r, now + 1, notAfter, steady, Told)
          /\ Renewing(r, now + 1, notAfter, steady, Told, lapses)
      BY <3>3 DEF Rested, Reminding, Renewing
    <3>. QED
      BY <3>2, <3>5, <3>6, <3>7 DEF Fit
  <2>7. CASE ~ (q.next <= now + 1)
    <3>1. tick'[e] = q
      BY <2>2, <2>7 DEF TimePasses
    <3>2. Timed(q, now + 1)
      BY <1>3, <2>1, <2>2, <2>4, <2>7 DEF Timed
    <3>3. Rested(q, notAfter, steady, Told, lapses)
      BY <2>3 DEF Fit
    <3>4. /\ Awaiting(q, now + 1, notAfter, steady, Told)
          /\ Reminding(q, now + 1, notAfter, steady, Told)
          /\ Renewing(q, now + 1, notAfter, steady, Told, lapses)
      BY <2>1, <2>2 DEF Awaiting, Reminding, Renewing
    <3>. QED
      BY <3>1, <3>2, <3>3, <3>4 DEF Fit
  <2>. QED
    BY <2>6, <2>7
<1>8. ~ late' => \A e \in Engines : Fit(tick'[e], now', notAfter', steady', Told', lapses')
  BY <1>1, <1>2, <1>7
<1>. QED
  BY <1>1, <1>4, <1>6, <1>8 DEF PunctualInv

LEMMA StepByHand ==
  ASSUME PunctualInv, EngineTypeOK',
         (\E th \in Settings : EditSettings(th)) \/ (\E c \in Certs : RenewByHand(c))
  PROVE  PunctualInv'
<1>1. ASSUME NEW th \in Settings, EditSettings(th)
      PROVE  PunctualInv'
  <2>1. /\ UNCHANGED <<now, tick, lastTick, late, logged, notAfter, notified, missed, lapses>>
        /\ steady' = steady \cap th /\ thresholds' = th
    BY <1>1 DEF EditSettings
  <2>2. Told' = Told
    BY <2>1 DEF Told
  <2>. QED
    BY <2>1, <2>2, StepAround
<1>2. ASSUME NEW c \in Certs, RenewByHand(c)
      PROVE  PunctualInv'
  <2>1. /\ UNCHANGED <<now, tick, lastTick, late, logged, notified, missed, lapses, steady, thresholds>>
        /\ notAfter' = [notAfter EXCEPT ![c] = now + Days(Validity)]
    BY <1>2 DEF RenewByHand, ghosts, Days
  <2>2. Told' = Told
    BY <2>1 DEF Told
  <2>3. \A x \in Certs : notAfter'[x] = notAfter[x] \/ notAfter'[x] = now + Days(Validity)
    BY <2>1 DEF PunctualInv, EngineTypeOK
  <2>4. steady' \subseteq steady /\ steady' \subseteq thresholds'
    BY <2>1 DEF PunctualInv
  <2>. QED
    BY <2>1, <2>2, <2>3, <2>4, StepAround
<1>. QED
  BY <1>1, <1>2

LEMMA StepCutShort ==
  ASSUME PunctualInv, EngineTypeOK', NEW e \in Engines, Crash(e) \/ Panic(e)
  PROVE  PunctualInv'
<1>1. PICK rest : CutShort(e, rest) /\ rest.at # "record"
  <2>1. CASE Crash(e)
    <3>1. NoTick("down", 0).at = "down"
      BY DEF NoTick
    <3>. QED
      BY <2>1, <3>1 DEF Crash
  <2>2. CASE Panic(e)
    <3>1. [NoTick("asleep", NextTime(e)) EXCEPT !.waiting = tick[e].waiting].at = "asleep"
      BY DEF NoTick
    <3>. QED
      BY <2>2, <3>1 DEF Panic
  <2>. QED
    BY <2>1, <2>2
<1>2. late' = TRUE
  BY <1>1, Zenon DEF CutShort
<1>3. /\ tick' = [tick EXCEPT ![e] = rest]
      /\ UNCHANGED <<now, thresholds, logged, notAfter, notified, missed, steady, lastTick, lapses>>
  BY <1>1 DEF CutShort
<1>4. Told' = Told
  BY <1>3 DEF Told
<1>5. logged' \subseteq Told' /\ lastTick' <= now'
  BY <1>3, <1>4 DEF PunctualInv, OnLog
<1>6. \A c \in Certs : notAfter'[c] = notAfter[c] \/ notAfter'[c] = now + Days(Validity)
  BY <1>3
<1>7. Told \subseteq Told' /\ lapses \subseteq lapses'
  BY <1>3, <1>4
<1>8. (~ late' => ~ late) /\ (~ late' => Fit(rest, now, notAfter', steady, Told', lapses'))
  BY <1>2, Zenon
<1>. QED
  BY <1>1, <1>3, <1>5, <1>6, <1>7, <1>8, StepEngine

\* A step of one engine that neither sends nor renews: it is enough that the tick still fits.
LEMMA StepQuiet ==
  ASSUME PunctualInv, EngineTypeOK', NEW e \in Engines, NEW from, NEW new, Step(e, from, new),
         UNCHANGED <<notAfter, logged, notified, missed, late, lapses>>,
         lastTick' <= now, new.at # "record",
         Fit(tick[e], now, notAfter, steady, Told, lapses) => Fit(new, now, notAfter, steady, Told, lapses)
  PROVE  PunctualInv'
<1>1. tick' = [tick EXCEPT ![e] = new] /\ UNCHANGED <<now, thresholds, steady>>
  BY DEF Step
<1>2. Told' = Told
  BY DEF Told
<1>3. logged' \subseteq Told' /\ lastTick' <= now'
  BY <1>1, <1>2 DEF PunctualInv, OnLog
<1>4. \A c \in Certs : notAfter'[c] = notAfter[c] \/ notAfter'[c] = now + Days(Validity)
  OBVIOUS
<1>5. Told \subseteq Told' /\ lapses \subseteq lapses'
  BY <1>2
<1>6. ~ late' => ~ late
  OBVIOUS
<1>7. ~ late' => Fit(new, now, notAfter', steady, Told', lapses')
  BY <1>2 DEF PunctualInv
<1>8. new.at = "record" => new.current \in Told'
  OBVIOUS
<1>. QED
  BY <1>1, <1>3, <1>4, <1>5, <1>6, <1>7, <1>8, StepEngine

\* A load that fails makes the tick late.
LEMMA StepLate ==
  ASSUME PunctualInv, EngineTypeOK', NEW e \in Engines, NEW from, NEW new, Step(e, from, new),
         UNCHANGED <<notAfter, logged, notified, missed, lapses>>,
         lastTick' <= now, new.at # "record", late' = TRUE
  PROVE  PunctualInv'
<1>1. tick' = [tick EXCEPT ![e] = new] /\ UNCHANGED <<now, thresholds, steady>>
  BY DEF Step
<1>2. Told' = Told
  BY DEF Told
<1>3. logged' \subseteq Told' /\ lastTick' <= now'
  BY <1>1, <1>2 DEF PunctualInv, OnLog
<1>4. \A c \in Certs : notAfter'[c] = notAfter[c] \/ notAfter'[c] = now + Days(Validity)
  OBVIOUS
<1>5. Told \subseteq Told' /\ lapses \subseteq lapses'
  BY <1>2
<1>6. (~ late' => ~ late) /\ (~ late' => Fit(new, now, notAfter', steady, Told', lapses'))
  BY Zenon
<1>8. new.at = "record" => new.current \in Told'
  OBVIOUS
<1>. QED
  BY <1>1, <1>3, <1>4, <1>5, <1>6, <1>8, StepEngine

\* The stages of a tick that fits follow one another.
LEMMA FitStart ==
  ASSUME NEW q, NEW r, NEW n, NEW na, NEW st, NEW told, NEW la,
         q.at = "asleep" /\ q.waiting, r.at = "start", r.next = q.next,
         Fit(q, n, na, st, told, la)
  PROVE  Fit(r, n, na, st, told, la)
<1>1. Timed(r, n)
  BY DEF Fit, Timed
<1>2. Awaiting(r, n, na, st, told)
  BY Zenon DEF Fit, Awaiting
<1>. QED
  BY <1>1, <1>2 DEF Fit, Rested, Reminding, Renewing

LEMMA FitReminders ==
  ASSUME NEW q, NEW r, NEW n \in Nat, NEW na, \A c \in Certs : na[c] \in Nat,
         NEW th \in Settings, NEW st, st \subseteq th, NEW told, NEW la,
         q.at = "start", r.at = "remind", r.next = q.next, r.config = th,
         \A c \in Certs : (\E m \in th : na[c] <= n + Days(m)) => <<c, na[c]>> \in r.rows,
         Fit(q, n, na, st, told, la)
  PROVE  Fit(r, n, na, st, told, la)
<1>1. Timed(r, n)
  BY DEF Fit, Timed
<1>2. Awaiting(r, n, na, st, told)
  BY Zenon DEF Fit, Awaiting
<1>3. Reminding(r, n, na, st, told)
  <2>1. ASSUME NEW c \in Certs, NEW d \in st, Lower(d), na[c] <= n + Day + Days(d)
        PROVE  <<c, na[c]>> \in r.rows
    <3>1. PICK m \in th : d < m
      BY <2>1 DEF Lower
    <3>2. d \in Nat /\ m \in Nat
      BY EngineAssumption
    <3>3. Days(d) + Day <= Days(m) /\ Days(d) \in Nat /\ Days(m) \in Nat /\ Day \in Nat
      BY <3>1, <3>2, DaysFacts
    <3>4. na[c] <= n + Days(m)
      BY <2>1, <3>3
    <3>. QED
      BY <3>4
  <2>. QED
    BY <2>1 DEF Reminding
<1>. QED
  BY <1>1, <1>2, <1>3 DEF Fit, Rested, Renewing

LEMMA FitReminds ==
  ASSUME NEW q, NEW r, NEW n, NEW na, NEW st, NEW told, NEW la,
         q.at \in {"remind", "send", "record"}, r.at \in {"remind", "send", "record"},
         r.next = q.next, r.config = q.config,
         \A c \in Certs, d \in st :
           Lower(d) /\ na[c] <= n + Day + Days(d) /\ n + Days(d) < na[c] /\ <<c, d>> \notin told
             /\ (<<c, na[c]>> \in q.rows \/ (q.at = "send" /\ q.current = <<c, d>>))
             => <<c, na[c]>> \in r.rows \/ (r.at = "send" /\ r.current = <<c, d>>),
         \A c \in Certs, d \in st : na[c] <= n + Days(d) \/ n + Days(d) < na[c],
         Fit(q, n, na, st, told, la)
  PROVE  Fit(r, n, na, st, told, la)
<1>1. Timed(r, n)
  BY DEF Fit, Timed
<1>2. Awaiting(r, n, na, st, told) /\ Upto(n, na, st, told)
  BY Zenon DEF Fit, Awaiting
<1>3. Reminding(r, n, na, st, told)
  BY <1>2 DEF Fit, Reminding, Upto
<1>. QED
  BY <1>1, <1>2, <1>3 DEF Fit, Rested, Renewing

LEMMA FitDue ==
  ASSUME NEW q, NEW r, NEW n \in Nat, NEW na, \A c \in Certs : na[c] \in Nat,
         NEW st, NEW told, NEW la,
         q.at = "remind", q.rows = {}, r.at = "renew", r.next = q.next,
         \A c \in AutoRenewed : na[c] <= n + Days(RenewBefore) => <<c, na[c]>> \in r.rows,
         Fit(q, n, na, st, told, la)
  PROVE  Fit(r, n, na, st, told, la)
<1>1. Timed(r, n)
  BY DEF Fit, Timed
<1>2. Upto(n + Day, na, st, told)
  BY DEF Fit, Reminding, Upto
<1>3. ASSUME NEW c \in AutoRenewed \ la
      PROVE  na[c] > n + Days(RenewBefore) \/ \E row \in r.rows : row[1] = c
  <2>1. na[c] \in Nat /\ Days(RenewBefore) \in Nat
    BY DaysFacts, EngineAssumption
  <2>2. CASE na[c] <= n + Days(RenewBefore)
    <3>1. <<c, na[c]>> \in r.rows /\ <<c, na[c]>>[1] = c
      BY <2>2
    <3>. QED
      BY <3>1
  <2>. QED
    BY <2>1, <2>2
<1>4. Renewing(r, n, na, st, told, la)
  BY <1>2, <1>3 DEF Renewing
<1>. QED
  BY <1>1, <1>4 DEF Fit, Rested, Awaiting, Reminding

\* One certificate after the other leaves the rows of a tick that renews, and is then renewed
\* or known to have lapsed.
LEMMA FitRenews ==
  ASSUME NEW q, NEW r, NEW n, NEW na, NEW st, NEW told, NEW la, NEW lb, la \subseteq lb,
         q.at \in {"renew", "validate"}, r.at \in {"renew", "validate"}, r.next = q.next,
         Gapless => \A c \in AutoRenewed \ lb :
           (\E row \in q.rows : row[1] = c) \/ (q.at = "validate" /\ q.current[1] = c) =>
             \/ na[c] > n + Days(RenewBefore)
             \/ \E row \in r.rows : row[1] = c
             \/ r.at = "validate" /\ r.current[1] = c,
         Fit(q, n, na, st, told, la)
  PROVE  Fit(r, n, na, st, told, lb)
<1>1. Timed(r, n)
  BY DEF Fit, Timed
<1>2. Upto(n + Day, na, st, told)
  BY DEF Fit, Renewing
<1>3. ASSUME Gapless, NEW c \in AutoRenewed \ lb
      PROVE  \/ na[c] > n + Days(RenewBefore)
             \/ \E row \in r.rows : row[1] = c
             \/ r.at = "validate" /\ r.current[1] = c
  <2>1. \/ na[c] > n + Days(RenewBefore)
        \/ \E row \in q.rows : row[1] = c
        \/ q.at = "validate" /\ q.current[1] = c
    BY <1>3 DEF Fit, Renewing
  <2>. QED
    BY <1>3, <2>1
<1>4. Renewing(r, n, na, st, told, lb)
  BY <1>2, <1>3, Zenon DEF Renewing
<1>. QED
  BY <1>1, <1>4 DEF Fit, Rested, Awaiting, Reminding

LEMMA FitEnd ==
  ASSUME NEW q, NEW r, NEW n \in Nat, NEW na, \A c \in Certs : na[c] \in Nat,
         NEW st, st \subseteq Nat, NEW told, NEW la,
         q.at = "renew", q.rows = {}, r.at = "asleep", r.waiting = q.waiting, q.next \in Nat,
         r.next = IF q.next = 0 THEN n + Day ELSE q.next,
         Fit(q, n, na, st, told, la)
  PROVE  Fit(r, n, na, st, told, la)
<1>0. Day \in Nat \ {0} /\ Days(RenewBefore) \in Nat /\ \A d \in Nat : Days(d) \in Nat
  BY DaysFacts
<1>1. PICK t \in Nat : t = r.next
  BY <1>0
<1>2. n < t /\ t <= n + Day /\ t # 0
  BY <1>0, <1>1 DEF Fit, Timed
<1>3. Timed(r, n)
  BY <1>1, <1>2 DEF Timed
<1>4. ASSUME NEW u \in Nat, u <= n + Day
      PROVE  Upto(u, na, st, told)
  <2> SUFFICES ASSUME NEW c \in Certs, NEW d \in st, Lower(d), na[c] <= u + Days(d)
               PROVE  <<c, d>> \in told
    BY DEF Upto
  <2>1. na[c] <= n + Day + Days(d)
    BY <1>0, <1>4
  <2>. QED
    BY <2>1 DEF Fit, Renewing, Upto
<1>5. Ahead(t - Day, na, la)
  <2> SUFFICES ASSUME Gapless, NEW c \in AutoRenewed \ la
               PROVE  na[c] > t - Day + Days(RenewBefore)
    BY DEF Ahead
  <2>1. na[c] > n + Days(RenewBefore)
    BY DEF Fit, Renewing
  <2>2. na[c] \in Nat
    BY EngineAssumption
  <2>. QED
    BY <1>0, <1>2, <2>1, <2>2
<1>6. Upto(t, na, st, told) /\ Upto(n, na, st, told)
  BY <1>0, <1>2, <1>4
<1>7. Rested(r, na, st, told, la) /\ Awaiting(r, n, na, st, told)
  BY <1>1, <1>5, <1>6, Zenon DEF Rested, Awaiting
<1>. QED
  BY <1>3, <1>7 DEF Fit, Reminding, Renewing

-----------------------------------------------------------------------------
LEMMA StepReminds ==
  ASSUME PunctualInv, EngineTypeOK', NEW e \in Engines, NEW row \in tick[e].rows,
         SkipRow(e, row) \/ PickReminder(e, row)
  PROVE  PunctualInv'
<1>1. PICK q \in Tick : q = tick[e]
  BY Typed DEF PunctualInv
<1>2. /\ now \in Nat /\ \A c \in Certs : notAfter[c] \in Nat
      /\ steady \subseteq Nat /\ lastTick <= now
  BY Typed DEF PunctualInv
<1>3. Day \in Nat \ {0} /\ \A d \in Nat : Days(d) \in Nat
  BY DaysFacts
<1>4. \A c \in Certs, d \in steady : notAfter[c] <= now + Days(d) \/ now + Days(d) < notAfter[c]
  BY <1>2, <1>3
<1>5. ASSUME NEW c \in Certs, NEW d \in steady, notAfter[c] <= now + Day + Days(d),
             now + Days(d) < notAfter[c]
      PROVE  DaysLeft(notAfter[c]) = d
  <2>1. notAfter[c] <= now + Days(d) + Day /\ notAfter[c] \in Int /\ d \in Nat
    BY <1>2, <1>3, <1>5
  <2>. QED
    BY <1>2, <1>5, <2>1, DayLeft
<1>6. ASSUME NEW c \in Certs, NEW d \in steady, notAfter[c] <= now + Day + Days(d),
             now + Days(d) < notAfter[c], <<c, d>> \notin Told, row = <<c, notAfter[c]>>,
             steady \subseteq q.config
      PROVE  DueReminders(e, row) = {<<c, d>>}
  <2>1. DaysLeft(row[2]) = d /\ row[1] = c
    BY <1>5, <1>6
  <2>2. ~ HasSent(<<c, d>>)
    BY <1>6 DEF HasSent, PunctualInv, OnLog
  <2>. QED
    BY <1>1, <1>6, <2>1, <2>2 DEF DueReminders
<1>7. Fit(q, now, notAfter, steady, Told, lapses) /\ q.at = "remind" => steady \subseteq q.config
  BY DEF Fit, Reminding
<1>8. CASE SkipRow(e, row)
  <2>1. PICK r : r = [q EXCEPT !.rows = q.rows \ {row}]
    OBVIOUS
  <2>2. Step(e, "remind", r) /\ DueReminders(e, row) = {} /\ q.at = "remind"
    BY <1>1, <1>8, <2>1 DEF SkipRow, Handled, Step
  <2>3. r.at = "remind" /\ r.next = q.next /\ r.config = q.config /\ r.rows = q.rows \ {row}
    BY <2>1, <2>2 DEF Tick
  <2>4. UNCHANGED <<notAfter, logged, notified, missed, late, lapses, lastTick>>
    BY <1>8 DEF SkipRow, ghosts
  <2>5. ASSUME Fit(q, now, notAfter, steady, Told, lapses)
        PROVE  Fit(r, now, notAfter, steady, Told, lapses)
    <3>1. \A c \in Certs, d \in steady :
           Lower(d) /\ notAfter[c] <= now + Day + Days(d) /\ now + Days(d) < notAfter[c] /\ <<c, d>> \notin Told
             /\ (<<c, notAfter[c]>> \in q.rows \/ (q.at = "send" /\ q.current = <<c, d>>))
             => <<c, notAfter[c]>> \in r.rows \/ (r.at = "send" /\ r.current = <<c, d>>)
      BY <1>6, <1>7, <2>2, <2>3, <2>5
    <3>. QED
      BY <1>4, <2>2, <2>3, <2>5, <3>1, FitReminds
  <2>6. lastTick' <= now /\ r.at # "record"
    BY <1>2, <2>3, <2>4
  <2>. QED
    BY <1>1, <2>2, <2>4, <2>5, <2>6, StepQuiet
<1>9. CASE PickReminder(e, row)
  <2>1. PICK x \in DueReminders(e, row) :
          Step(e, "remind", [Handled(e, row) EXCEPT !.at = "send", !.current = x])
    BY <1>9 DEF PickReminder
  <2>2. PICK h : h = [q EXCEPT !.rows = q.rows \ {row}]
    OBVIOUS
  <2>3. PICK r : r = [h EXCEPT !.at = "send", !.current = x]
    OBVIOUS
  <2>4. Step(e, "remind", r) /\ q.at = "remind"
    BY <1>1, <2>1, <2>2, <2>3 DEF Handled, Step
  <2>5. r.at = "send" /\ r.current = x /\ r.next = q.next /\ r.config = q.config /\ r.rows = q.rows \ {row}
    BY <2>2, <2>3 DEF Tick
  <2>6. UNCHANGED <<notAfter, logged, notified, missed, late, lapses, lastTick>>
    BY <1>9 DEF PickReminder, ghosts
  <2>7. ASSUME Fit(q, now, notAfter, steady, Told, lapses)
        PROVE  Fit(r, now, notAfter, steady, Told, lapses)
    <3>1. \A c \in Certs, d \in steady :
           Lower(d) /\ notAfter[c] <= now + Day + Days(d) /\ now + Days(d) < notAfter[c] /\ <<c, d>> \notin Told
             /\ (<<c, notAfter[c]>> \in q.rows \/ (q.at = "send" /\ q.current = <<c, d>>))
             => <<c, notAfter[c]>> \in r.rows \/ (r.at = "send" /\ r.current = <<c, d>>)
      BY <1>6, <1>7, <2>1, <2>4, <2>5, <2>7
    <3>. QED
      BY <1>4, <2>4, <2>5, <2>7, <3>1, FitReminds
  <2>8. lastTick' <= now /\ r.at # "record"
    BY <1>2, <2>5, <2>6
  <2>. QED
    BY <1>1, <2>4, <2>6, <2>7, <2>8, StepQuiet
<1>. QED
  BY <1>8, <1>9

\* The engine restarts, begins a tick, or loads what it is to remind of.
LEMMA StepBegins ==
  ASSUME PunctualInv, EngineTypeOK', NEW e \in Engines,
         Restart(e) \/ NextTick(e) \/ LoadReminders(e) \/ LoadRemindersFails(e)
  PROVE  PunctualInv'
<1>1. PICK q \in Tick : q = tick[e]
  BY Typed DEF PunctualInv
<1>2. /\ now \in Nat /\ \A c \in Certs : notAfter[c] \in Nat
      /\ steady \subseteq thresholds /\ thresholds \in Settings /\ lastTick <= now
  BY Typed DEF PunctualInv, EngineTypeOK
<1>3. CASE Restart(e)
  <2>1. PICK r : r = NoTick("start", 0)
    OBVIOUS
  <2>2. Step(e, "down", r) /\ q.at = "down" /\ r.at # "record"
    BY <1>1, <1>3, <2>1 DEF Restart, NoTick, Step
  <2>3. UNCHANGED <<notAfter, logged, notified, missed, late, lapses, lastTick>>
    BY <1>3 DEF Restart, ghosts
  <2>4. ~ Fit(q, now, notAfter, steady, Told, lapses)
    BY <2>2 DEF Fit, Timed
  <2>. QED
    BY <1>1, <1>2, <2>2, <2>3, <2>4, StepQuiet
<1>4. CASE NextTick(e)
  <2>1. PICK r : r = NoTick("start", q.next)
    OBVIOUS
  <2>2. Step(e, "asleep", r) /\ q.at = "asleep"
    BY <1>1, <1>4, <2>1 DEF NextTick, Step
  <2>3. q.waiting
    BY <1>1, <1>4, Zenon DEF NextTick
  <2>4. r.at = "start" /\ r.next = q.next
    BY <2>1 DEF NoTick
  <2>5. UNCHANGED <<notAfter, logged, notified, missed, late, lapses, lastTick>>
    BY <1>4 DEF NextTick, ghosts
  <2>6. ASSUME Fit(q, now, notAfter, steady, Told, lapses)
        PROVE  Fit(r, now, notAfter, steady, Told, lapses)
    BY <2>2, <2>3, <2>4, <2>6, FitStart
  <2>7. r.at # "record"
    BY <2>4
  <2>. QED
    BY <1>1, <1>2, <2>2, <2>5, <2>6, <2>7, StepQuiet
<1>5. CASE LoadReminders(e)
  <2>1. PICK h : h = [q EXCEPT !.at = "remind"]
    OBVIOUS
  <2>2. PICK r : r = [h EXCEPT !.config = thresholds, !.rows = ListedRows(thresholds)]
    OBVIOUS
  <2>3. Step(e, "start", r) /\ q.at = "start"
    BY <1>1, <1>5, <2>1, <2>2 DEF LoadReminders, At, Step
  <2>4. /\ r.at = "remind" /\ r.next = q.next /\ r.config = thresholds
        /\ r.rows = ListedRows(thresholds)
    BY <2>1, <2>2 DEF Tick
  <2>5. UNCHANGED <<notAfter, logged, notified, missed, late, lapses>> /\ lastTick' = now
    BY <1>5 DEF LoadReminders
  <2>6. \A c \in Certs : (\E m \in thresholds : notAfter[c] <= now + Days(m)) => <<c, notAfter[c]>> \in r.rows
    BY <2>4 DEF ListedRows, Days
  <2>7. ASSUME Fit(q, now, notAfter, steady, Told, lapses)
        PROVE  Fit(r, now, notAfter, steady, Told, lapses)
    BY <1>2, <2>3, <2>4, <2>6, <2>7, FitReminders
  <2>8. r.at # "record" /\ lastTick' <= now
    BY <1>2, <2>4, <2>5
  <2>. QED
    BY <1>1, <2>3, <2>5, <2>7, <2>8, StepQuiet
<1>6. CASE LoadRemindersFails(e)
  <2>1. PICK r : r = [q EXCEPT !.at = "remind"]
    OBVIOUS
  <2>2. Step(e, "start", r) /\ lastTick' = now
    BY <1>1, <1>6, <2>1 DEF LoadRemindersFails, At
  <2>3. r.at # "record"
    BY <2>1 DEF Tick
  <2>4. late' = TRUE
    BY <1>6, Zenon DEF LoadRemindersFails
  <2>5. UNCHANGED <<notAfter, logged, notified, missed, lapses>>
    BY <1>6 DEF LoadRemindersFails
  <2>6. lastTick' <= now
    BY <1>2, <2>2
  <2>. QED
    BY <2>2, <2>3, <2>4, <2>5, <2>6, StepLate
<1>. QED
  BY <1>3, <1>4, <1>5, <1>6

\* A reminder that goes out, or is tried, counts; the entry is written for one that counts.
LEMMA StepSends ==
  ASSUME PunctualInv, EngineTypeOK', NEW e \in Engines, Send(e) \/ SendFails(e)
  PROVE  PunctualInv'
<1>1. PICK q \in Tick : q = tick[e]
  BY Typed DEF PunctualInv
<1>2. PICK x \in Pairs : q.at = "send" /\ q.current = x
  BY <1>1 DEF Send, SendFails, Step, PunctualInv, EngineTypeOK
<1>3. now \in Nat /\ (\A c \in Certs : notAfter[c] \in Nat) /\ steady \subseteq Nat /\ lastTick <= now
  BY Typed DEF PunctualInv
<1>4. \A c \in Certs, d \in steady : notAfter[c] <= now + Days(d) \/ now + Days(d) < notAfter[c]
  <2>1. \A d \in steady : Days(d) \in Nat
    BY <1>3, DaysFacts
  <2>. QED
    BY <1>3, <2>1
<1>5. /\ UNCHANGED <<now, thresholds, steady, notAfter, logged, late, lastTick, lapses>>
  BY Zenon DEF Send, SendFails, Step
<1>6. Told \subseteq Told' /\ x \in Told'
  <2>1. CASE Send(e)
    <3>1. notified' = [notified EXCEPT ![e][x] = IF @ = 0 THEN 1 ELSE 2] /\ missed' = missed
      BY <1>1, <1>2, <2>1 DEF Send
    <3>2. notified \in [Engines -> [Pairs -> 0 .. 2]]
      BY DEF PunctualInv, EngineTypeOK
    <3>3. /\ notified'[e][x] > 0
          /\ \A d \in Engines, y \in Pairs : notified[d][y] > 0 => notified'[d][y] > 0
      BY <3>1, <3>2
    <3>. QED
      BY <3>1, <3>3 DEF Told
  <2>2. CASE SendFails(e)
    BY <1>1, <1>2, <2>2 DEF SendFails, Told
  <2>. QED
    BY <2>1, <2>2
<1>7. PICK r : tick' = [tick EXCEPT ![e] = r] /\ r.next = q.next /\ r.config = q.config
                 /\ r.rows = q.rows /\ r.current = x /\ r.at \in {"remind", "record"}
  <2>1. PICK a, b : a = [q EXCEPT !.at = "record"] /\ b = [q EXCEPT !.at = "remind"]
    OBVIOUS
  <2>2. /\ a.next = q.next /\ a.config = q.config /\ a.rows = q.rows /\ a.current = x /\ a.at = "record"
        /\ b.next = q.next /\ b.config = q.config /\ b.rows = q.rows /\ b.current = x /\ b.at = "remind"
    BY <1>2, <2>1 DEF Tick
  <2>3. tick' = [tick EXCEPT ![e] = a] \/ tick' = [tick EXCEPT ![e] = b]
    BY <1>1, <2>1 DEF Send, SendFails, Step, At
  <2>. QED
    BY <2>2, <2>3
<1>8. ASSUME ~ late'
      PROVE  Fit(r, now, notAfter', steady, Told', lapses')
  <2>1. Fit(q, now, notAfter, steady, Told, lapses)
    BY <1>1, <1>5, <1>8 DEF PunctualInv
  <2>2. \A c \in Certs : notAfter'[c] = notAfter[c] \/ notAfter'[c] = now + Days(Validity)
    BY <1>5
  <2>3. steady \subseteq steady /\ lapses \subseteq lapses'
    BY <1>5
  <2>4. Fit(q, now, notAfter', steady, Told', lapses')
    BY <1>3, <1>6, <2>1, <2>2, <2>3, FitKept
  <2>5. \A c \in Certs, d \in steady : notAfter'[c] <= now + Days(d) \/ now + Days(d) < notAfter'[c]
    BY <1>4, <1>5
  <2>6. \A c \in Certs, d \in steady :
           Lower(d) /\ notAfter'[c] <= now + Day + Days(d) /\ now + Days(d) < notAfter'[c] /\ <<c, d>> \notin Told'
             /\ (<<c, notAfter'[c]>> \in q.rows \/ (q.at = "send" /\ q.current = <<c, d>>))
             => <<c, notAfter'[c]>> \in r.rows \/ (r.at = "send" /\ r.current = <<c, d>>)
    BY <1>2, <1>6, <1>7
  <2>7. r.at \in {"remind", "send", "record"} /\ q.at \in {"remind", "send", "record"}
    BY <1>2, <1>7
  <2>. QED
    BY <1>7, <2>4, <2>5, <2>6, <2>7, FitReminds
<1>9. logged' \subseteq Told' /\ lastTick' <= now'
  BY <1>3, <1>5, <1>6 DEF PunctualInv, OnLog
<1>10. \A c \in Certs : notAfter'[c] = notAfter[c] \/ notAfter'[c] = now + Days(Validity)
  BY <1>5
<1>11. (~ late' => ~ late) /\ lapses \subseteq lapses'
  BY <1>5
<1>12. r.at = "record" => r.current \in Told'
  BY <1>6, <1>7
<1>. QED
  BY <1>5, <1>6, <1>7, <1>8, <1>9, <1>10, <1>11, <1>12, StepEngine

LEMMA StepRecords ==
  ASSUME PunctualInv, EngineTypeOK', NEW e \in Engines, Record(e) \/ RecordFails(e)
  PROVE  PunctualInv'
<1>1. PICK q \in Tick : q = tick[e]
  BY Typed DEF PunctualInv
<1>2. PICK r : r = [q EXCEPT !.at = "remind"]
  OBVIOUS
<1>3. tick' = [tick EXCEPT ![e] = r] /\ q.at = "record"
  BY <1>1, <1>2 DEF Record, RecordFails, Step, At
<1>4. UNCHANGED <<now, thresholds, steady, notAfter, notified, missed, late, lastTick, lapses>>
  BY DEF Record, RecordFails, Step, ghosts
<1>5. r.at = "remind" /\ r.next = q.next /\ r.config = q.config /\ r.rows = q.rows
  BY <1>2 DEF Tick
<1>6. Told' = Told /\ q.current \in Told /\ logged \subseteq Told
  BY <1>1, <1>3, <1>4 DEF Told, PunctualInv, OnLog
<1>7. logged' \subseteq Told'
  BY <1>1, <1>6 DEF Record, RecordFails
<1>8. now \in Nat /\ (\A c \in Certs : notAfter[c] \in Nat) /\ steady \subseteq Nat /\ lastTick <= now
  BY Typed DEF PunctualInv
<1>9. \A c \in Certs, d \in steady : notAfter[c] <= now + Days(d) \/ now + Days(d) < notAfter[c]
  <2>1. \A d \in steady : Days(d) \in Nat
    BY <1>8, DaysFacts
  <2>. QED
    BY <1>8, <2>1
<1>10. ASSUME Fit(q, now, notAfter, steady, Told, lapses)
       PROVE  Fit(r, now, notAfter, steady, Told, lapses)
  <2>1. \A c \in Certs, d \in steady :
           Lower(d) /\ notAfter[c] <= now + Day + Days(d) /\ now + Days(d) < notAfter[c] /\ <<c, d>> \notin Told
             /\ (<<c, notAfter[c]>> \in q.rows \/ (q.at = "send" /\ q.current = <<c, d>>))
             => <<c, notAfter[c]>> \in r.rows \/ (r.at = "send" /\ r.current = <<c, d>>)
    BY <1>3, <1>5
  <2>. QED
    BY <1>3, <1>5, <1>9, <1>10, <2>1, FitReminds
<1>11. ~ late' => Fit(r, now, notAfter', steady, Told', lapses')
  BY <1>1, <1>4, <1>6, <1>10 DEF PunctualInv
<1>12. /\ lastTick' <= now' /\ Told \subseteq Told' /\ lapses \subseteq lapses'
       /\ \A c \in Certs : notAfter'[c] = notAfter[c] \/ notAfter'[c] = now + Days(Validity)
  BY <1>4, <1>6, <1>8
<1>13. (~ late' => ~ late) /\ (r.at = "record" => r.current \in Told')
  BY <1>4, <1>5
<1>. QED
  BY <1>3, <1>4, <1>7, <1>11, <1>12, <1>13, StepEngine

\* Once all rows are handled the due ones are renewed, one by one, and the tick ends.
LEMMA StepRenews ==
  ASSUME PunctualInv, EngineTypeOK', NEW e \in Engines,
         \/ LoadDue(e)
         \/ LoadDueFails(e)
         \/ \E row \in tick[e].rows : StartRenewal(e, row)
         \/ EndTick(e)
  PROVE  PunctualInv'
<1>1. PICK q \in Tick : q = tick[e]
  BY Typed DEF PunctualInv
<1>2. now \in Nat /\ (\A c \in Certs : notAfter[c] \in Nat) /\ steady \subseteq Nat /\ lastTick <= now
  BY Typed DEF PunctualInv
<1>3. CASE LoadDue(e)
  <2>1. PICK h : h = [q EXCEPT !.at = "renew"]
    OBVIOUS
  <2>2. PICK r : r = [h EXCEPT !.rows = DueRows]
    OBVIOUS
  <2>3. Step(e, "remind", r) /\ q.at = "remind" /\ q.rows = {}
    BY <1>1, <1>3, <2>1, <2>2 DEF LoadDue, At, Step
  <2>4. r.at = "renew" /\ r.next = q.next /\ r.rows = DueRows
    BY <2>1, <2>2 DEF Tick
  <2>5. UNCHANGED <<notAfter, logged, notified, missed, late, lapses, lastTick>>
    BY <1>3 DEF LoadDue, ghosts
  <2>6. \A c \in AutoRenewed : notAfter[c] <= now + Days(RenewBefore) => <<c, notAfter[c]>> \in r.rows
    BY <2>4, EngineAssumption DEF DueRows, Due, Days
  <2>7. ASSUME Fit(q, now, notAfter, steady, Told, lapses)
        PROVE  Fit(r, now, notAfter, steady, Told, lapses)
    BY <1>2, <2>3, <2>4, <2>6, <2>7, FitDue
  <2>8. lastTick' <= now /\ r.at # "record"
    BY <1>2, <2>4, <2>5
  <2>. QED
    BY <1>1, <2>3, <2>5, <2>7, <2>8, StepQuiet
<1>4. CASE LoadDueFails(e)
  <2>1. PICK r : r = [q EXCEPT !.at = "renew"]
    OBVIOUS
  <2>2. Step(e, "remind", r)
    BY <1>1, <1>4, <2>1 DEF LoadDueFails, At
  <2>3. r.at # "record"
    BY <2>1 DEF Tick
  <2>4. late' = TRUE
    BY <1>4, Zenon DEF LoadDueFails
  <2>5. UNCHANGED <<notAfter, logged, notified, missed, lapses, lastTick>>
    BY <1>4 DEF LoadDueFails
  <2>. QED
    BY <1>2, <2>2, <2>3, <2>4, <2>5, StepLate
<1>5. ASSUME NEW row \in tick[e].rows, StartRenewal(e, row)
      PROVE  PunctualInv'
  <2>1. PICK h : h = [q EXCEPT !.rows = q.rows \ {row}]
    OBVIOUS
  <2>2. PICK r : r = [h EXCEPT !.at = "validate", !.current = row]
    OBVIOUS
  <2>3. Step(e, "renew", r) /\ q.at = "renew"
    BY <1>1, <1>5, <2>1, <2>2 DEF StartRenewal, Handled, Step
  <2>4. r.at = "validate" /\ r.next = q.next /\ r.rows = q.rows \ {row} /\ r.current = row
    BY <2>1, <2>2 DEF Tick
  <2>5. UNCHANGED <<notAfter, logged, notified, missed, late, lapses, lastTick>>
    BY <1>5 DEF StartRenewal, ghosts
  <2>6. ASSUME Fit(q, now, notAfter, steady, Told, lapses)
        PROVE  Fit(r, now, notAfter, steady, Told, lapses)
    BY <2>3, <2>4, <2>6, FitRenews
  <2>7. lastTick' <= now /\ r.at # "record"
    BY <1>2, <2>4, <2>5
  <2>. QED
    BY <1>1, <2>3, <2>5, <2>6, <2>7, StepQuiet
<1>6. CASE EndTick(e)
  <2>1. PICK h : h = NoTick("asleep", NextTime(e))
    OBVIOUS
  <2>2. PICK r : r = [h EXCEPT !.waiting = q.waiting]
    OBVIOUS
  <2>3. Step(e, "renew", r) /\ q.at = "renew" /\ q.rows = {}
    BY <1>1, <1>6, <2>1, <2>2 DEF EndTick, Step
  <2>4. r.at = "asleep" /\ r.waiting = q.waiting /\ r.next = NextTime(e)
    BY <2>1, <2>2 DEF NoTick
  <2>5. UNCHANGED <<notAfter, logged, notified, missed, late, lapses, lastTick>>
    BY <1>6 DEF EndTick, ghosts
  <2>6. r.next = (IF q.next = 0 THEN now + Day ELSE q.next) /\ q.next \in Nat
    BY <1>1, <2>4, Typed DEF NextTime, PunctualInv
  <2>7. ASSUME Fit(q, now, notAfter, steady, Told, lapses)
        PROVE  Fit(r, now, notAfter, steady, Told, lapses)
    BY <1>2, <2>3, <2>4, <2>6, <2>7, FitEnd
  <2>8. lastTick' <= now /\ r.at # "record"
    BY <1>2, <2>4, <2>5
  <2>. QED
    BY <1>1, <2>3, <2>5, <2>7, <2>8, StepQuiet
<1>. QED
  BY <1>3, <1>4, <1>5, <1>6

\* A renewal gives a certificate more than the renewal threshold, or the certificate lapses.
LEMMA StepValidates ==
  ASSUME PunctualInv, EngineTypeOK', NEW e \in Engines, Renewed(e) \/ RenewalFails(e)
  PROVE  PunctualInv'
<1>1. PICK q \in Tick : q = tick[e]
  BY Typed DEF PunctualInv
<1>2. PICK c \in Certs : q.at = "validate" /\ q.current[1] = c
  BY <1>1 DEF Renewed, RenewalFails, Step, PunctualInv, EngineTypeOK, Rows
<1>3. PICK r : r = [q EXCEPT !.at = "renew"]
  OBVIOUS
<1>4. tick' = [tick EXCEPT ![e] = r]
  BY <1>1, <1>3 DEF Renewed, RenewalFails, Step, At
<1>5. r.at = "renew" /\ r.next = q.next /\ r.rows = q.rows
  BY <1>3 DEF Tick
<1>6. UNCHANGED <<now, thresholds, steady, logged, notified, missed, late, lastTick>>
  BY DEF Renewed, RenewalFails, Step, ghosts
<1>7. Told' = Told
  BY <1>6 DEF Told
<1>8. now \in Nat /\ steady \subseteq Nat /\ lastTick <= now
  BY Typed DEF PunctualInv
<1>9. /\ lapses \subseteq lapses'
      /\ \A x \in Certs : notAfter'[x] = notAfter[x] \/ notAfter'[x] = now + Days(Validity)
      /\ c \in lapses' \/ notAfter'[c] = now + Days(Validity)
  <2>1. CASE Renewed(e)
    <3>1. notAfter' = [notAfter EXCEPT ![c] = now + Days(Validity)] /\ lapses' = lapses
      BY <1>1, <1>2, <2>1 DEF Renewed, ghosts, Days
    <3>2. notAfter \in [Certs -> Times]
      BY DEF PunctualInv, EngineTypeOK
    <3>. QED
      BY <3>1, <3>2
  <2>2. CASE RenewalFails(e)
    BY <1>1, <1>2, <2>2 DEF RenewalFails
  <2>. QED
    BY <2>1, <2>2
<1>10. ASSUME ~ late'
       PROVE  Fit(r, now, notAfter', steady, Told', lapses')
  <2>1. Fit(q, now, notAfter, steady, Told, lapses)
    BY <1>1, <1>6, <1>10 DEF PunctualInv
  <2>2. Fit(q, now, notAfter', steady, Told', lapses')
    BY <1>7, <1>8, <1>9, <2>1, FitKept
  <2>3. Gapless => now + Days(Validity) > now + Days(RenewBefore)
    <3>1. Day \in Nat \ {0} /\ Validity \in Nat /\ RenewBefore \in Nat
      BY DaysFacts
    <3>2. Days(Validity) \in Nat /\ Days(RenewBefore) \in Nat
      BY <3>1, DaysFacts
    <3>3. Gapless => Days(RenewBefore) + Day <= Days(Validity)
      BY <3>1, DaysFacts DEF Gapless
    <3>. QED
      BY <1>8, <3>1, <3>2, <3>3
  <2>4. Gapless => \A x \in AutoRenewed \ lapses' :
           (\E row \in q.rows : row[1] = x) \/ (q.at = "validate" /\ q.current[1] = x) =>
             \/ notAfter'[x] > now + Days(RenewBefore)
             \/ \E row \in r.rows : row[1] = x
             \/ r.at = "validate" /\ r.current[1] = x
    BY <1>2, <1>5, <1>9, <2>3
  <2>. QED
    BY <1>2, <1>5, <2>2, <2>4, FitRenews
<1>11. logged' \subseteq Told' /\ lastTick' <= now' /\ Told \subseteq Told'
  BY <1>6, <1>7, <1>8 DEF PunctualInv, OnLog
<1>12. (~ late' => ~ late) /\ (r.at = "record" => r.current \in Told')
  BY <1>5, <1>6
<1>. QED
  BY <1>4, <1>6, <1>9, <1>10, <1>11, <1>12, StepEngine

\* Every step keeps the invariant.
LEMMA StepPunctualInv == PunctualInv /\ [EngineNext]_engineVars => PunctualInv'
<1> SUFFICES ASSUME PunctualInv, [EngineNext]_engineVars
             PROVE  PunctualInv'
  OBVIOUS
<1>1. EngineTypeOK'
  BY StepTypeOK DEF PunctualInv
<1>2. CASE TimePasses
  BY <1>1, <1>2, StepTime
<1>3. CASE (\E th \in Settings : EditSettings(th)) \/ (\E c \in Certs : RenewByHand(c))
  BY <1>1, <1>3, StepByHand
<1>4. ASSUME NEW e \in Engines, Crash(e) \/ Panic(e)
      PROVE  PunctualInv'
  BY <1>1, <1>4, StepCutShort
<1>5. ASSUME NEW e \in Engines, Work(e)
      PROVE  PunctualInv'
  <2>1. CASE Restart(e) \/ NextTick(e) \/ LoadReminders(e) \/ LoadRemindersFails(e)
    BY <1>1, <2>1, StepBegins
  <2>2. ASSUME NEW row \in tick[e].rows, SkipRow(e, row) \/ PickReminder(e, row)
        PROVE  PunctualInv'
    BY <1>1, <2>2, StepReminds
  <2>3. CASE Send(e) \/ SendFails(e)
    BY <1>1, <2>3, StepSends
  <2>4. CASE Record(e) \/ RecordFails(e)
    BY <1>1, <2>4, StepRecords
  <2>5. CASE LoadDue(e) \/ LoadDueFails(e) \/ (\E row \in tick[e].rows : StartRenewal(e, row)) \/ EndTick(e)
    BY <1>1, <2>5, StepRenews
  <2>6. CASE Renewed(e) \/ RenewalFails(e)
    BY <1>1, <2>6, StepValidates
  <2>. QED
    BY <1>5, <2>1, <2>2, <2>3, <2>4, <2>5, <2>6 DEF Work
<1>6. CASE UNCHANGED engineVars
  <2>1. UNCHANGED <<now, tick, lastTick, late, logged, notAfter, notified, missed, lapses, steady, thresholds>>
    BY <1>6 DEF engineVars, ghosts
  <2>2. Told' = Told
    BY <2>1 DEF Told
  <2>3. steady' \subseteq steady /\ steady' \subseteq thresholds'
    BY <2>1 DEF PunctualInv
  <2>4. \A c \in Certs : notAfter'[c] = notAfter[c] \/ notAfter'[c] = now + Days(Validity)
    BY <2>1
  <2>. QED
    BY <1>1, <2>1, <2>2, <2>3, <2>4, StepAround
<1>. QED
  BY <1>2, <1>3, <1>4, <1>5, <1>6 DEF EngineNext

LEMMA PunctualityHolds == EngineSpec => []PunctualInv
BY InitPunctualInv, StepPunctualInv, PTL DEF EngineSpec

\* At rest, the engines have reminded of every lower threshold come down to, and nothing that
\* renews itself has expired.
LEMMA PunctualInvReminds ==
  ASSUME Engines # {}, PunctualInv
  PROVE  LowerThresholdsRemind
<1> SUFFICES ASSUME Punctual, NEW c \in Certs, NEW d \in steady, Lower(d), Reached(c, d)
             PROVE  Reminded(c, d)
  BY DEF LowerThresholdsRemind
<1>1. PICK e \in Engines : TRUE
  OBVIOUS
<1>2. ~ late /\ tick[e].at = "asleep" /\ ~ tick[e].waiting
  BY Zenon DEF Punctual
<1>3. Fit(tick[e], now, notAfter, steady, Told, lapses)
  BY <1>2 DEF PunctualInv
<1>4. Upto(tick[e].next, notAfter, steady, Told)
  BY <1>2, <1>3, Zenon DEF Fit, Rested
<1>5. /\ now < tick[e].next /\ lastTick <= now /\ now \in Nat /\ lastTick \in Nat
      /\ notAfter[c] \in Nat /\ d \in Nat /\ tick[e].next \in Nat
  BY <1>2, <1>3, Typed DEF Fit, Timed, PunctualInv
<1>6. notAfter[c] <= tick[e].next + Days(d)
  <2>1. notAfter[c] - lastTick <= Days(d) /\ Days(d) \in Nat
    BY <1>5, DaysFacts DEF Reached, Days
  <2>. QED
    BY <1>5, <2>1
<1>7. <<c, d>> \in Told
  BY <1>4, <1>6 DEF Upto
<1>. QED
  BY <1>7 DEF Told, Reminded

LEMMA PunctualInvRenews ==
  ASSUME Engines # {}, Gapless, PunctualInv
  PROVE  NoLapseWhilePunctual
<1> SUFFICES ASSUME Punctual, NEW c \in AutoRenewed \ lapses
             PROVE  now < notAfter[c]
  BY DEF NoLapseWhilePunctual
<1>1. PICK e \in Engines : TRUE
  OBVIOUS
<1>2. ~ late /\ tick[e].at = "asleep" /\ ~ tick[e].waiting
  BY Zenon DEF Punctual
<1>3. Fit(tick[e], now, notAfter, steady, Told, lapses)
  BY <1>2 DEF PunctualInv
<1>4. notAfter[c] > tick[e].next - Day + Days(RenewBefore)
  BY <1>2, <1>3, Zenon DEF Fit, Rested, Ahead
<1>5. now < tick[e].next /\ now \in Nat /\ tick[e].next \in Nat /\ notAfter[c] \in Nat
  BY <1>2, <1>3, Typed, EngineAssumption DEF Fit, Timed, PunctualInv
<1>6. Day <= Days(RenewBefore) /\ Days(RenewBefore) \in Nat /\ Day \in Nat
  <2>1. Days(0) + Day <= Days(RenewBefore) /\ Days(0) = 0
    BY DaysFacts DEF Gapless, Days
  <2>. QED
    BY <2>1, DaysFacts
<1>. QED
  BY <1>4, <1>5, <1>6

\* Every threshold but the largest of the settings is reminded of, for every certificate that
\* comes down to it, by engines that keep their ticks: a tick a day leaves no day out.
THEOREM LowerThresholdsAreReminded ==
  ASSUME Engines # {}
  PROVE  EngineSpec => []LowerThresholdsRemind
BY PunctualityHolds, PunctualInvReminds, PTL

\* A certificate that renews itself does not expire, unless one of its renewals failed, when
\* renew_before_days is at least the interval of the ticker and below the validity.
THEOREM NothingLapsesUnattended ==
  ASSUME Engines # {}, 1 <= RenewBefore, RenewBefore < Validity
  PROVE  EngineSpec => []NoLapseWhilePunctual
<1>1. Gapless
  BY DEF Gapless
<1>. QED
  BY <1>1, PunctualityHolds, PunctualInvRenews, PTL

=============================================================================
