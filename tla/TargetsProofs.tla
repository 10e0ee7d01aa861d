---------------------------- MODULE TargetsProofs ----------------------------
(***************************************************************************)
(* Theorems about Targets, for any number of targets, places, calls,       *)
(* versions, edits and faults.                                             *)
(***************************************************************************)
EXTENDS Targets, TLAPS

Call == [op: Ops, at: Stages, todo: SUBSET (Targets \X Row), target: Targets \cup {NoTarget}, mine: Row,
         version: Nat, seen: Nat, failed: BOOLEAN, token: BOOLEAN, alone: BOOLEAN]

-----------------------------------------------------------------------------
(* The inductive invariant.                                                   *)

\* Whether call c holds a copy of its target's row.
Holds(c) ==
  \/ c.at \in {"open", "push", "record"}
  \/ c.at = "load" /\ c.op # "sync certificate"
  \/ c.at = "put" /\ c.op = "create"

\* Whether copy r of the row of target t says what the admin wants (w), if that is known
\* (t not in x) and the row (in rw) is still there.
Says(t, r, rw, w, x) == t \in x \/ rw[t].state # "kept" \/ Wish(r) = w[t]

\* Which calls are where, and what their copies are worth: rw, rm, lt, d, w and x stand for
\* row, remote, latest, dirty, wanted and crossed.
Placed(c) ==
  /\ c.op = "none" <=> c.at = "none"
  /\ c.op # "sync certificate" => c.todo = {}
  /\ c.at \in {"list", "next"} => c.op = "sync certificate"
  /\ c.at \in {"save", "put", "answer"} => c.op # "sync certificate"
  /\ Holds(c) \/ c.at \in {"save", "put", "answer"} => c.target \in Targets
  /\ Holds(c) \/ c.at = "save" => c.mine.state = "kept"
  /\ \A e, f \in c.todo : e[1] = f[1] => e = f
  /\ c.at \in {"open", "push", "record"} => \A e \in c.todo : e[1] # c.target

Sound(c, rw, rm, lt, d, w, x) ==
  /\ Placed(c)
  /\ c.version \in 0 .. lt /\ c.seen \in 0 .. lt
  /\ Holds(c) \/ c.at = "save" => rw[c.target].state # "new"
  /\ Holds(c) => Says(c.target, c.mine, rw, w, x)
  /\ \A e \in c.todo :
       /\ e[2].state = "kept" /\ rw[e[1]].state # "new"
       /\ Says(e[1], e[2], rw, w, x)
       /\ e[1] \in d \/ rw[e[1]].state # "kept" \/ e[2] = rw[e[1]]
  /\ c.alone => /\ c.at \in {"next", "open", "push", "record"} => c.version = lt
                /\ c.at = "record" /\ ~ c.failed => rm[c.mine.place] = c.version
                /\ c.at = "answer" /\ rw[c.target].state = "kept" => rw[c.target].error = c.failed

AllSound == \A k \in Calls : Sound(call[k], row, remote, latest, dirty, wanted, crossed)

\* Of two calls under way neither counts as alone.
Lone == \A j, k \in Calls : j # k /\ call[j].op # "none" /\ call[k].op # "none" => ~ call[j].alone

\* A target that should have the latest version has it, and nobody is about to push another,
\* or a call that goes through all targets has yet to come to it.
Due(t) == t \notin dirty /\ Kept(t) /\ row[t].enabled /\ ~ row[t].error
Fresh(c, lt) == c.at \in {"next", "open", "push", "record"} => c.version = lt
Settled(t) == row[t].synced /\ remote[row[t].place] = latest /\ \A j \in Calls : Fresh(call[j], latest)
AwaitedBy(c, t) ==
  /\ c.op = "sync certificate"
  /\ \/ c.at = "list"
     \/ \E e \in c.todo : e[1] = t
     \/ c.at \in {"open", "push", "record"} /\ c.target = t
Delivering == \A t \in Targets : Due(t) => Settled(t) \/ \E j \in Calls : AwaitedBy(call[j], t)

WorldOK ==
  /\ service \in {"k8s", "winrm"}
  /\ row \in [Targets -> Row]
  /\ secret \in SUBSET Targets
  /\ latest \in Versions
  /\ remote \in [Places -> 0 .. latest]
  /\ edits \in 0 .. MaxEdits
  /\ faults \in 0 .. MaxFaults
  /\ dirty \in SUBSET Targets
  /\ wanted \in [Targets -> Places \X BOOLEAN]
  /\ crossed \in SUBSET Targets

TargetsInv ==
  /\ WorldOK
  /\ call \in [Calls -> Call]
  /\ AllSound
  /\ Lone
  /\ Delivering
  /\ EditsHold

LEMMA InvImplies == TargetsInv => TargetsTypeOK /\ DeliveredOrTold /\ AnswerIsOwn /\ EditsHold
<1> SUFFICES ASSUME TargetsInv PROVE TargetsTypeOK /\ DeliveredOrTold /\ AnswerIsOwn /\ EditsHold
  OBVIOUS
<1>1. \A k \in Calls : call[k] \in Call /\ Sound(call[k], row, remote, latest, dirty, wanted, crossed)
  BY DEF TargetsInv, AllSound
<1>2. TargetsTypeOK
  <2>1. ASSUME NEW k \in Calls
        PROVE  /\ DOMAIN call[k] = DOMAIN NoCall
               /\ call[k].op \in Ops /\ call[k].at \in Stages
               /\ call[k].todo \subseteq Targets \X Row
               /\ call[k].target \in Targets \cup {NoTarget} /\ call[k].mine \in Row
               /\ {call[k].version, call[k].seen} \subseteq 0 .. latest
               /\ {call[k].failed, call[k].token, call[k].alone} \subseteq BOOLEAN
               /\ call[k].op = "none" <=> call[k].at = "none"
               /\ call[k].at \in {"save", "put", "open", "push", "record", "answer"} => call[k].target \in Targets
    <3>1. DOMAIN call[k] = DOMAIN NoCall
      BY <1>1 DEF Call, NoCall
    <3>2. /\ call[k].op \in Ops /\ call[k].at \in Stages
          /\ call[k].todo \subseteq Targets \X Row
          /\ call[k].target \in Targets \cup {NoTarget} /\ call[k].mine \in Row
      BY <1>1 DEF Call
    <3>3. {call[k].failed, call[k].token, call[k].alone} \subseteq BOOLEAN
      BY <1>1 DEF Call
    <3>4. {call[k].version, call[k].seen} \subseteq 0 .. latest
      BY <1>1 DEF Sound
    <3>5. /\ call[k].op = "none" <=> call[k].at = "none"
          /\ call[k].at \in {"save", "put", "open", "push", "record", "answer"} => call[k].target \in Targets
      BY <1>1 DEF Sound, Placed, Holds
    <3>. QED
      BY <3>1, <3>2, <3>3, <3>4, <3>5
  <2>2. WorldOK
    BY DEF TargetsInv
  <2>. QED
    BY <2>1, <2>2 DEF WorldOK, TargetsTypeOK
<1>3. DeliveredOrTold
  <2> SUFFICES ASSUME Active = {}, NEW t \in Targets, Due(t) PROVE row[t].synced /\ remote[row[t].place] = latest
    BY DEF DeliveredOrTold, Due
  <2>1. \A j \in Calls : call[j].op = "none"
    BY DEF Active
  <2>. QED
    BY <2>1 DEF TargetsInv, Delivering, Settled, AwaitedBy
<1>4. AnswerIsOwn
  BY <1>1 DEF AnswerIsOwn, Sound, At, Kept
<1>. QED
  BY <1>2, <1>3, <1>4 DEF TargetsInv

-----------------------------------------------------------------------------
(* Calls that are over, and calls that begin.                                 *)

LEMMA NewRowIs == NewRow \in Row /\ NewRow.state = "new"
BY TargetsAssumption DEF NewRow, Row, SomePlace

LEMMA NoCallIs ==
  /\ NoCall \in Call /\ NoCall.op = "none" /\ NoCall.at = "none" /\ NoCall.todo = {}
  /\ NoCall.version = 0 /\ NoCall.seen = 0 /\ Placed(NoCall)
<1>1. NoCall \in Call
  BY NewRowIs DEF NoCall, Call, Ops, Stages
<1>. QED
  BY <1>1 DEF NoCall, Placed, Holds

\* A call that is not under way knows nothing.
LEMMA IdleSound ==
  ASSUME NEW c \in Call, c.op = "none", Placed(c), NEW rw, NEW rm, NEW lt \in Nat, NEW d, NEW w, NEW x,
         c.version \in 0 .. lt, c.seen \in 0 .. lt
  PROVE  Sound(c, rw, rm, lt, d, w, x) /\ Fresh(c, lt) /\ \A t : ~ AwaitedBy(c, t)
BY DEF Sound, Placed, Holds, Fresh, AwaitedBy

LEMMA NoCallSound ==
  ASSUME NEW rw, NEW rm, NEW lt \in Nat, NEW d, NEW w, NEW x
  PROVE  Sound(NoCall, rw, rm, lt, d, w, x)
<1>1. 0 \in 0 .. lt
  OBVIOUS
<1>. QED
  BY <1>1, NoCallIs, IdleSound

LEMMA Initially == TargetsInit => TargetsInv
<1> SUFFICES ASSUME TargetsInit PROVE TargetsInv
  OBVIOUS
<1>1. WorldOK
  <2>1. latest \in Versions /\ remote \in [Places -> 0 .. latest] /\ edits \in 0 .. MaxEdits /\ faults \in 0 .. MaxFaults
    BY TargetsAssumption DEF TargetsInit, Versions
  <2>2. row \in [Targets -> Row] /\ wanted \in [Targets -> Places \X BOOLEAN]
    BY NewRowIs DEF TargetsInit, Wish, Row
  <2>. QED
    BY <2>1, <2>2 DEF TargetsInit, WorldOK
<1>2. call \in [Calls -> Call] /\ \A k \in Calls : call[k] = NoCall
  BY NoCallIs DEF TargetsInit
<1>3. AllSound /\ Lone
  <2>1. latest \in Nat
    BY DEF TargetsInit
  <2>2. AllSound
    BY <1>2, <2>1, NoCallSound, Zenon DEF AllSound
  <2>3. Lone
    BY <1>2, NoCallIs, Zenon DEF Lone
  <2>. QED
    BY <2>2, <2>3
<1>4. \A t \in Targets : ~ Kept(t)
  BY NewRowIs DEF TargetsInit, Kept
<1>. QED
  BY <1>1, <1>2, <1>3, <1>4 DEF TargetsInv, Delivering, Due, EditsHold

-----------------------------------------------------------------------------
(* What a step of a call has to show.                                         *)

\* What holds of a call that is under way.
LEMMA AtStep ==
  ASSUME TargetsInv, NEW k \in Calls
  PROVE  /\ call \in [Calls -> Call] /\ call[k] \in Call
         /\ Sound(call[k], row, remote, latest, dirty, wanted, crossed) /\ Placed(call[k])
         /\ WorldOK /\ latest \in Nat /\ row \in [Targets -> Row]
         /\ Delivering /\ EditsHold
         /\ call[k].op = "none" <=> call[k].at = "none"
         /\ call[k].op # "none" /\ call[k].alone => \A j \in Calls \ {k} : call[j].op = "none"
<1>1. call \in [Calls -> Call] /\ WorldOK /\ Delivering /\ EditsHold
  BY DEF TargetsInv
<1>2. Sound(call[k], row, remote, latest, dirty, wanted, crossed)
  BY DEF TargetsInv, AllSound
<1>3. call[k].op # "none" /\ call[k].alone => \A j \in Calls \ {k} : call[j].op = "none"
  BY DEF TargetsInv, Lone
<1>4. latest \in Nat /\ row \in [Targets -> Row]
  BY <1>1, TargetsAssumption DEF WorldOK, Versions
<1>. QED
  BY <1>1, <1>2, <1>3, <1>4 DEF Sound, Placed

\* How far a step of call k reaches: rows neither vanish nor return, and unless it is alone
\* it leaves its marks on what it changes.
Reach(k) ==
  /\ latest' = latest
  /\ \A t \in Targets : /\ row[t].state # "new" => row'[t].state # "new"
                        /\ row'[t].state = "kept" => row[t].state = "kept"
  /\ ~ call[k].alone =>
       /\ dirty \subseteq dirty' /\ crossed \subseteq crossed'
       /\ \A t \in Targets : (row'[t] = row[t] \/ t \in dirty') /\ (wanted'[t] = wanted[t] \/ t \in crossed')

\* What another call holds stays as good as it was.
LEMMA OthersSound ==
  ASSUME TargetsInv, NEW k \in Calls, call[k].op # "none", Reach(k), NEW j \in Calls, j # k
  PROVE  Sound(call[j], row', remote', latest', dirty', wanted', crossed')
<1>1. PICK c : c = call[j]
  OBVIOUS
<1>2. /\ c \in Call /\ Sound(c, row, remote, latest, dirty, wanted, crossed) /\ Placed(c) /\ latest \in Nat
      /\ c.version \in 0 .. latest /\ c.seen \in 0 .. latest
  BY <1>1, AtStep DEF Sound
<1>3. CASE c.op = "none"
  BY <1>1, <1>2, <1>3, IdleSound DEF Reach
<1>4. CASE c.op # "none"
  <2>1. ~ call[k].alone /\ ~ c.alone
    BY <1>1, <1>4 DEF TargetsInv, Lone
  <2>2. /\ latest' = latest
        /\ \A t \in Targets : /\ row[t].state # "new" => row'[t].state # "new"
                              /\ row'[t].state = "kept" => row[t].state = "kept"
                              /\ t \in dirty => t \in dirty'
                              /\ t \in crossed => t \in crossed'
                              /\ row'[t] = row[t] \/ t \in dirty'
                              /\ wanted'[t] = wanted[t] \/ t \in crossed'
    BY <2>1 DEF Reach
  <2>3. \A t \in Targets : \A r : Says(t, r, row, wanted, crossed) => Says(t, r, row', wanted', crossed')
    BY <2>2 DEF Says
  <2>4. ASSUME NEW e \in c.todo
        PROVE  /\ e[2].state = "kept" /\ row'[e[1]].state # "new"
               /\ Says(e[1], e[2], row', wanted', crossed')
               /\ e[1] \in dirty' \/ row'[e[1]].state # "kept" \/ e[2] = row'[e[1]]
    <3>1. e[1] \in Targets
      BY <1>2 DEF Call
    <3>2. /\ e[2].state = "kept" /\ row[e[1]].state # "new"
          /\ Says(e[1], e[2], row, wanted, crossed)
          /\ e[1] \in dirty \/ row[e[1]].state # "kept" \/ e[2] = row[e[1]]
      BY <1>2 DEF Sound
    <3>. QED
      BY <2>2, <2>3, <3>1, <3>2
  <2>5. /\ Holds(c) \/ c.at = "save" => row'[c.target].state # "new"
        /\ Holds(c) => Says(c.target, c.mine, row', wanted', crossed')
    <3>1. Holds(c) \/ c.at = "save" => c.target \in Targets
      BY <1>2 DEF Placed
    <3>2. /\ Holds(c) \/ c.at = "save" => row[c.target].state # "new"
          /\ Holds(c) => Says(c.target, c.mine, row, wanted, crossed)
      BY <1>2 DEF Sound
    <3>. QED
      BY <2>2, <2>3, <3>1, <3>2
  <2>. QED
    BY <1>1, <1>2, <2>1, <2>2, <2>4, <2>5 DEF Sound
<1>. QED
  BY <1>3, <1>4

LEMMA StepKeeps ==
  ASSUME TargetsInv, NEW k \in Calls, call[k].op # "none", NEW c \in Call, call' = [call EXCEPT ![k] = c],
         c.op # "none" => (c.alone => call[k].alone), Reach(k),
         Sound(c, row', remote', latest', dirty', wanted', crossed'),
         WorldOK', EditsHold', Delivering'
  PROVE  TargetsInv'
<1>1. call \in [Calls -> Call]
  BY AtStep
<1>2. call'[k] = c /\ \A j \in Calls \ {k} : call'[j] = call[j]
  BY <1>1
<1>3. AllSound'
  BY <1>2, OthersSound DEF AllSound
<1>4. Lone'
  BY <1>2 DEF TargetsInv, Lone
<1>5. call' \in [Calls -> Call]
  BY <1>1
<1>. QED
  BY <1>3, <1>4, <1>5 DEF TargetsInv

\* A step that only concerns the call: it awaits what it awaited, as far as that is due, and
\* pushes nothing but the latest version if it did not before.
LEMMA QuietKeeps ==
  ASSUME TargetsInv, NEW k \in Calls, call[k].op # "none", NEW c \in Call, call' = [call EXCEPT ![k] = c],
         c.op # "none" => (c.alone => call[k].alone),
         UNCHANGED <<service, row, latest, remote, dirty, wanted, crossed>>, WorldOK',
         Sound(c, row, remote, latest, dirty, wanted, crossed),
         Fresh(call[k], latest) => Fresh(c, latest),
         \A t \in Targets : Due(t) /\ AwaitedBy(call[k], t) => AwaitedBy(c, t)
  PROVE  TargetsInv'
<1>1. Reach(k)
  BY DEF Reach
<1>2. Sound(c, row', remote', latest', dirty', wanted', crossed')
  <2>1. row' = row /\ remote' = remote /\ latest' = latest /\ dirty' = dirty /\ wanted' = wanted /\ crossed' = crossed
    OBVIOUS
  <2>. QED
    BY <2>1
<1>3. EditsHold'
  BY AtStep DEF EditsHold, Kept, Wish
<1>4. call'[k] = c /\ \A j \in Calls \ {k} : call'[j] = call[j]
  BY AtStep
<1>5. Delivering'
  <2> SUFFICES ASSUME NEW t \in Targets, Due(t) PROVE Settled(t)' \/ \E j \in Calls : AwaitedBy(call'[j], t)
    BY DEF Delivering, Due, Kept
  <2>1. CASE Settled(t)
    <3>1. row'[t].synced /\ remote'[row'[t].place] = latest'
      BY <2>1 DEF Settled
    <3>2. \A j \in Calls : Fresh(call'[j], latest')
      BY <1>4, <2>1 DEF Settled
    <3>. QED
      BY <3>1, <3>2 DEF Settled
  <2>2. ASSUME NEW j \in Calls, AwaitedBy(call[j], t) PROVE AwaitedBy(call'[j], t)
    BY <1>4, <2>2
  <2>. QED
    BY <2>1, <2>2, AtStep DEF Delivering
<1>. QED
  BY <1>1, <1>2, <1>3, <1>5, StepKeeps

-----------------------------------------------------------------------------
(* Steps that only concern the call.                                          *)

LEMMA WorldStays == ASSUME WorldOK, UNCHANGED world PROVE WorldOK' /\ UNCHANGED <<service, row, latest, remote, dirty, wanted, crossed>>
BY DEF WorldOK, world, history

\* A call that nothing due waits for is over.
LEMMA EndKeeps ==
  ASSUME TargetsInv, NEW k \in Calls, call[k].op # "none", End(k),
         UNCHANGED <<service, row, latest, remote, dirty, wanted, crossed>>, WorldOK',
         \A t \in Targets : ~ (Due(t) /\ AwaitedBy(call[k], t))
  PROVE  TargetsInv'
<1>1. PICK c : c = NoCall
  OBVIOUS
<1>2. latest \in Nat
  BY AtStep
<1>3. Sound(c, row, remote, latest, dirty, wanted, crossed) /\ Fresh(c, latest)
  BY <1>1, <1>2, NoCallIs, IdleSound
<1>. QED
  BY <1>1, <1>3, NoCallIs, QuietKeeps DEF End, Step

LEMMA ListKeeps == ASSUME TargetsInv, NEW k \in Calls, List(k) PROVE TargetsInv'
<1>1. call[k].at = "list" /\ UNCHANGED world
  BY DEF List, At
<1>2. PICK q : q = call[k]
  OBVIOUS
<1>3. /\ q \in Call /\ Sound(q, row, remote, latest, dirty, wanted, crossed) /\ Placed(q) /\ q.op = "sync certificate" /\ q.at = "list"
      /\ row \in [Targets -> Row]
  BY <1>1, <1>2, AtStep DEF Placed
<1>4. PICK rows : rows = {<<t, row[t]>> : t \in {x \in Targets : Kept(x)}}
  OBVIOUS
<1>5. /\ rows \subseteq Targets \X Row
      /\ \A e \in rows : e[1] \in Targets /\ e[2] = row[e[1]] /\ Kept(e[1])
      /\ \A t \in Targets : Kept(t) => \E e \in rows : e[1] = t
      /\ \A e, f \in rows : e[1] = f[1] => e = f
  <2>1. ASSUME NEW e \in rows PROVE \E t \in Targets : Kept(t) /\ e = <<t, row[t]>>
    BY <1>4
  <2>2. ASSUME NEW t \in Targets, Kept(t) PROVE <<t, row[t]>> \in rows
    BY <1>4, <2>2
  <2>3. ASSUME NEW e \in rows PROVE e \in Targets \X Row /\ e[1] \in Targets /\ e[2] = row[e[1]] /\ Kept(e[1])
    <3>1. PICK t \in Targets : Kept(t) /\ e = <<t, row[t]>>
      BY <2>1
    <3>2. e[1] = t /\ e[2] = row[t] /\ row[t] \in Row
      BY <1>3, <3>1
    <3>. QED
      BY <3>1, <3>2
  <2>4. \A t \in Targets : <<t, row[t]>>[1] = t
    OBVIOUS
  <2>5. \A t \in Targets : Kept(t) => \E e \in rows : e[1] = t
    BY <2>2, <2>4
  <2>6. \A e, f \in rows : e[1] = f[1] => e = f
    BY <2>1
  <2>. QED
    BY <2>3, <2>5, <2>6
<1>6. WorldOK' /\ UNCHANGED <<service, row, latest, remote, dirty, wanted, crossed>>
  BY <1>1, AtStep, WorldStays
<1>7. CASE rows = {}
  <2>1. End(k)
    BY <1>4, <1>7 DEF List
  <2>2. \A t \in Targets : ~ Due(t)
    BY <1>5, <1>7 DEF Due
  <2>. QED
    BY <1>2, <1>3, <1>6, <2>1, <2>2, EndKeeps
<1>8. CASE rows # {}
  <2>1. PICK c : c = [q EXCEPT !.at = "load", !.todo = rows]
    OBVIOUS
  <2>2. /\ c \in Call /\ c.at = "load" /\ c.todo = rows /\ c.op = q.op /\ c.target = q.target
        /\ c.version = q.version /\ c.seen = q.seen /\ c.alone = q.alone
    BY <1>3, <1>5, <2>1 DEF Call, Stages
  <2>3. call' = [call EXCEPT ![k] = c]
    BY <1>2, <1>4, <1>8, <2>1 DEF List, Step
  <2>4. Placed(c)
    BY <1>3, <1>5, <2>2 DEF Placed, Holds
  <2>5. \A e \in rows : /\ e[2].state = "kept" /\ row[e[1]].state # "new"
                        /\ Says(e[1], e[2], row, wanted, crossed) /\ e[2] = row[e[1]]
    BY <1>5, AtStep DEF Kept, Says, EditsHold
  <2>6. ~ Holds(c) /\ c.at = "load"
    BY <1>3, <2>2 DEF Holds
  <2>7. Sound(c, row, remote, latest, dirty, wanted, crossed)
    BY <1>3, <2>2, <2>4, <2>5, <2>6 DEF Sound
  <2>8. Fresh(c, latest) /\ \A t \in Targets : Due(t) => AwaitedBy(c, t)
    BY <1>3, <1>5, <2>2 DEF Fresh, AwaitedBy, Due
  <2>. QED
    BY <1>2, <1>3, <1>6, <2>2, <2>3, <2>7, <2>8, QuietKeeps
<1>. QED
  BY <1>7, <1>8

LEMMA LoadKeeps == ASSUME TargetsInv, NEW k \in Calls, Load(k) PROVE TargetsInv'
<1>1. call[k].at = "load" /\ UNCHANGED world
  BY DEF Load, At
<1>2. PICK q : q = call[k]
  OBVIOUS
<1>3. /\ q \in Call /\ Sound(q, row, remote, latest, dirty, wanted, crossed) /\ Placed(q) /\ q.at = "load" /\ q.op # "none"
      /\ latest \in Nat
  BY <1>1, <1>2, AtStep
<1>4. PICK stage : stage = IF q.op = "sync certificate" THEN "next" ELSE "open"
  OBVIOUS
<1>5. PICK c : c = [q EXCEPT !.version = latest, !.at = stage]
  OBVIOUS
<1>6. /\ c \in Call /\ c.at = stage /\ c.version = latest /\ c.seen = q.seen /\ c.op = q.op /\ c.todo = q.todo
      /\ c.target = q.target /\ c.mine = q.mine /\ c.alone = q.alone
  BY <1>3, <1>4, <1>5 DEF Call, Stages
<1>7. call' = [call EXCEPT ![k] = c]
  BY <1>2, <1>4, <1>5 DEF Load, Step
<1>8. Placed(c) /\ (Holds(c) <=> Holds(q)) /\ c.at \in {"next", "open"}
  BY <1>3, <1>4, <1>6 DEF Placed, Holds
<1>9. Sound(c, row, remote, latest, dirty, wanted, crossed)
  BY <1>3, <1>6, <1>8 DEF Sound
<1>10. Fresh(c, latest) /\ \A t \in Targets : AwaitedBy(q, t) => AwaitedBy(c, t)
  BY <1>3, <1>6 DEF Fresh, AwaitedBy
<1>11. WorldOK' /\ UNCHANGED <<service, row, latest, remote, dirty, wanted, crossed>>
  BY <1>1, AtStep, WorldStays
<1>. QED
  BY <1>2, <1>3, <1>6, <1>7, <1>9, <1>10, <1>11, QuietKeeps

LEMMA TakeNextKeeps ==
  ASSUME TargetsInv, NEW k \in Calls, NEW entry \in call[k].todo, TakeNext(k, entry) PROVE TargetsInv'
<1>1. call[k].at = "next" /\ UNCHANGED world
  BY DEF TakeNext, At
<1>2. PICK q : q = call[k]
  OBVIOUS
<1>3. /\ q \in Call /\ Sound(q, row, remote, latest, dirty, wanted, crossed) /\ Placed(q) /\ q.at = "next" /\ q.op = "sync certificate"
      /\ entry \in q.todo /\ entry[1] \in Targets /\ entry[2] \in Row
  BY <1>1, <1>2, AtStep DEF Placed, Call
<1>4. /\ entry[2].state = "kept" /\ row[entry[1]].state # "new"
      /\ Says(entry[1], entry[2], row, wanted, crossed)
      /\ entry[1] \in dirty \/ row[entry[1]].state # "kept" \/ entry[2] = row[entry[1]]
  BY <1>3 DEF Sound
<1>5. WorldOK' /\ UNCHANGED <<service, row, latest, remote, dirty, wanted, crossed>>
  BY <1>1, AtStep, WorldStays
<1>6. CASE entry[2].enabled
  <2>1. PICK c : c = [q EXCEPT !.todo = @ \ {entry}, !.target = entry[1], !.mine = entry[2], !.at = "open"]
    OBVIOUS
  <2>2. /\ c \in Call /\ c.at = "open" /\ c.todo = q.todo \ {entry} /\ c.target = entry[1] /\ c.mine = entry[2]
        /\ c.op = q.op /\ c.version = q.version /\ c.seen = q.seen /\ c.alone = q.alone
    BY <1>3, <2>1 DEF Call, Stages
  <2>3. call' = [call EXCEPT ![k] = c]
    BY <1>2, <1>6, <2>1 DEF TakeNext, Step
  <2>4. Placed(c)
    BY <1>3, <1>4, <2>2 DEF Placed, Holds
  <2>5. Sound(c, row, remote, latest, dirty, wanted, crossed)
    BY <1>3, <1>4, <2>2, <2>4 DEF Sound
  <2>6. Fresh(q, latest) => Fresh(c, latest)
    BY <1>3, <2>2 DEF Fresh
  <2>7. \A t \in Targets : AwaitedBy(q, t) => AwaitedBy(c, t)
    BY <1>3, <2>2 DEF AwaitedBy
  <2>. QED
    BY <1>2, <1>3, <1>5, <2>2, <2>3, <2>5, <2>6, <2>7, QuietKeeps
<1>7. CASE ~ entry[2].enabled
  <2>1. PICK c : c = [q EXCEPT !.todo = @ \ {entry}]
    OBVIOUS
  <2>2. /\ c \in Call /\ c.at = "next" /\ c.todo = q.todo \ {entry} /\ c.target = q.target /\ c.mine = q.mine
        /\ c.op = q.op /\ c.version = q.version /\ c.seen = q.seen /\ c.alone = q.alone
    BY <1>3, <2>1 DEF Call
  <2>3. call' = [call EXCEPT ![k] = c]
    BY <1>2, <1>7, <2>1 DEF TakeNext, Step
  <2>4. Placed(c)
    BY <1>3, <2>2 DEF Placed, Holds
  <2>5. Sound(c, row, remote, latest, dirty, wanted, crossed)
    BY <1>3, <2>2, <2>4 DEF Sound, Holds
  <2>6. Fresh(q, latest) => Fresh(c, latest)
    BY <1>3, <2>2 DEF Fresh
  <2>7. ~ Due(entry[1])
    BY <1>4, <1>7 DEF Due, Kept
  <2>8. \A t \in Targets : Due(t) /\ AwaitedBy(q, t) => AwaitedBy(c, t)
    BY <1>3, <2>2, <2>7 DEF AwaitedBy
  <2>. QED
    BY <1>2, <1>3, <1>5, <2>2, <2>3, <2>5, <2>6, <2>8, QuietKeeps
<1>. QED
  BY <1>6, <1>7

LEMMA NoneLeftKeeps == ASSUME TargetsInv, NEW k \in Calls, NoneLeft(k) PROVE TargetsInv'
<1>1. call[k].at = "next" /\ call[k].todo = {} /\ End(k) /\ UNCHANGED world
  BY DEF NoneLeft, At
<1>2. call[k].op # "none" /\ \A t \in Targets : ~ AwaitedBy(call[k], t)
  BY <1>1, AtStep DEF AwaitedBy
<1>. QED
  BY <1>1, <1>2, AtStep, WorldStays, EndKeeps

\* A request ends: nothing waits for it.
LEMMA RequestEnds ==
  ASSUME TargetsInv, NEW k \in Calls, call[k].at \in {"save", "put", "load", "answer"}, call[k].op # "sync certificate",
         End(k), UNCHANGED <<service, row, latest, remote, dirty, wanted, crossed>>, WorldOK'
  PROVE  TargetsInv'
<1>1. call[k].op # "none" /\ \A t \in Targets : ~ AwaitedBy(call[k], t)
  BY AtStep DEF AwaitedBy
<1>. QED
  BY <1>1, EndKeeps

LEMMA AnswerKeeps == ASSUME TargetsInv, NEW k \in Calls, Answer(k) PROVE TargetsInv'
<1>1. call[k].at = "answer" /\ End(k) /\ UNCHANGED world
  BY DEF Answer, At
<1>2. call[k].op # "sync certificate"
  BY <1>1, AtStep DEF Placed
<1>. QED
  BY <1>1, <1>2, AtStep, WorldStays, RequestEnds

LEMMA PutTokenKeeps == ASSUME TargetsInv, NEW k \in Calls, PutToken(k) PROVE TargetsInv'
<1>1. call[k].at = "put" /\ UNCHANGED <<service, row, latest, remote, edits, faults, history>>
  BY DEF PutToken, At
<1>2. PICK q : q = call[k]
  OBVIOUS
<1>3. /\ q \in Call /\ Sound(q, row, remote, latest, dirty, wanted, crossed) /\ Placed(q) /\ q.at = "put" /\ q.op # "none"
      /\ q.op # "sync certificate" /\ q.target \in Targets
  BY <1>1, <1>2, AtStep DEF Placed
<1>4. secret' = secret \cup {q.target}
  BY <1>2 DEF PutToken
<1>5. WorldOK' /\ UNCHANGED <<service, row, latest, remote, dirty, wanted, crossed>>
  BY <1>1, <1>3, <1>4, AtStep DEF WorldOK, history
<1>6. CASE q.op = "create"
  <2>1. PICK c : c = [q EXCEPT !.at = "load", !.token = FALSE]
    OBVIOUS
  <2>2. /\ c \in Call /\ c.at = "load" /\ c.op = q.op /\ c.todo = q.todo /\ c.target = q.target /\ c.mine = q.mine
        /\ c.version = q.version /\ c.seen = q.seen /\ c.alone = q.alone
    BY <1>3, <2>1 DEF Call, Stages
  <2>3. call' = [call EXCEPT ![k] = c]
    BY <1>2, <1>6, <2>1 DEF PutToken, Step
  <2>4. Placed(c)
    BY <1>3, <1>6, <2>2 DEF Placed, Holds
  <2>5. Sound(c, row, remote, latest, dirty, wanted, crossed)
    BY <1>3, <1>6, <2>2, <2>4 DEF Sound, Holds
  <2>6. Fresh(c, latest) /\ \A t \in Targets : ~ AwaitedBy(q, t)
    BY <1>3, <2>2 DEF Fresh, AwaitedBy
  <2>. QED
    BY <1>2, <1>3, <1>5, <2>2, <2>3, <2>5, <2>6, QuietKeeps
<1>7. CASE q.op # "create"
  <2>1. End(k)
    BY <1>2, <1>7 DEF PutToken
  <2>. QED
    BY <1>2, <1>3, <1>5, <2>1, RequestEnds
<1>. QED
  BY <1>6, <1>7

-----------------------------------------------------------------------------
(* Pushes and writes.                                                         *)

\* A call at its target goes on to record what came of the push, or only to push; the place
\* may hold the version by then, and does if the call is to record a success.
LEMMA PushingKeeps ==
  ASSUME TargetsInv, NEW k \in Calls, call[k].at \in {"open", "push"}, NEW q, q = call[k],
         NEW c \in Call, call' = [call EXCEPT ![k] = c],
         c.at \in {"push", "record"}, c.op = q.op, c.todo = q.todo, c.target = q.target, c.mine = q.mine,
         c.version = q.version, c.seen \in 0 .. latest, c.alone = q.alone,
         \/ remote' = remote
         \/ remote' = [remote EXCEPT ![q.mine.place] = q.version],
         c.at = "record" /\ ~ c.failed => remote' = [remote EXCEPT ![q.mine.place] = q.version],
         UNCHANGED <<service, row, secret, latest, edits, faults, history>>
  PROVE  TargetsInv'
<1>1. /\ q \in Call /\ Sound(q, row, remote, latest, dirty, wanted, crossed) /\ Placed(q) /\ q.op # "none" /\ Holds(q)
      /\ latest \in Nat /\ q.version \in 0 .. latest /\ remote \in [Places -> 0 .. latest] /\ q.mine.place \in Places
      /\ row \in [Targets -> Row]
  BY AtStep DEF Holds, Sound, WorldOK, Call, Row
<1>2. /\ remote' \in [Places -> 0 .. latest]
      /\ \A p \in Places : remote'[p] = remote[p] \/ remote'[p] = q.version
      /\ c.at = "record" /\ ~ c.failed => remote'[c.mine.place] = c.version
  BY <1>1
<1>3. latest' = latest /\ row' = row /\ dirty' = dirty /\ wanted' = wanted /\ crossed' = crossed
  BY DEF history
<1>4. WorldOK'
  BY <1>2, <1>3, AtStep DEF WorldOK
<1>5. Reach(k)
  BY <1>3 DEF Reach
<1>6. Placed(c) /\ Holds(c)
  <2>1. Holds(c)
    BY DEF Holds
  <2>2. Placed(q) /\ Holds(q) /\ q.at \in {"open", "push"} /\ q.op # "none"
    BY <1>1
  <2>3. c.target \in Targets /\ c.mine.state = "kept"
    BY <2>2 DEF Placed
  <2>4. /\ c.op # "sync certificate" => c.todo = {}
        /\ \A e, f \in c.todo : e[1] = f[1] => e = f
        /\ \A e \in c.todo : e[1] # c.target
    <3>1. /\ q.op # "sync certificate" => q.todo = {}
          /\ \A e, f \in q.todo : e[1] = f[1] => e = f
          /\ \A e \in q.todo : e[1] # q.target
      BY <2>2, Zenon DEF Placed
    <3>2. c.op = q.op /\ c.todo = q.todo /\ c.target = q.target
      OBVIOUS
    <3>. QED
      BY <3>1, <3>2, Zenon
  <2>5. c.op # "none" /\ c.at \notin {"none", "list", "next", "save", "put", "answer"}
    BY <2>2
  <2>. QED
    BY <2>1, <2>3, <2>4, <2>5 DEF Placed
<1>7. Sound(c, row', remote', latest', dirty', wanted', crossed')
  BY <1>1, <1>2, <1>3, <1>6 DEF Sound
<1>8. EditsHold'
  BY <1>3, AtStep DEF EditsHold, Kept
<1>9. Delivering'
  <2> SUFFICES ASSUME NEW t \in Targets, Due(t) PROVE Settled(t)' \/ \E j \in Calls : AwaitedBy(call'[j], t)
    BY <1>3 DEF Delivering, Due, Kept
  <2>0. call'[k] = c /\ \A j \in Calls \ {k} : call'[j] = call[j]
    BY AtStep
  <2>1. CASE Settled(t)
    <3>1. Fresh(q, latest) /\ q.version = latest
      BY <2>1 DEF Settled, Fresh
    <3>2. row[t].place \in Places
      BY <1>1 DEF Row
    <3>3. row'[t].synced /\ remote'[row'[t].place] = latest'
      BY <1>2, <1>3, <2>1, <3>1, <3>2 DEF Settled
    <3>4. \A j \in Calls : Fresh(call'[j], latest')
      BY <1>3, <2>0, <2>1, <3>1 DEF Settled, Fresh
    <3>. QED
      BY <3>3, <3>4 DEF Settled
  <2>2. ASSUME NEW j \in Calls, AwaitedBy(call[j], t) PROVE AwaitedBy(call'[j], t)
    <3>1. AwaitedBy(q, t) => AwaitedBy(c, t)
      <4>1. q.at \in {"open", "push"} /\ c.at \in {"open", "push", "record"}
        OBVIOUS
      <4>. QED
        BY <4>1 DEF AwaitedBy
    <3>. QED
      BY <2>0, <2>2, <3>1
  <2>. QED
    BY <2>1, <2>2, AtStep DEF Delivering
<1>. QED
  BY <1>1, <1>4, <1>5, <1>7, <1>8, <1>9, StepKeeps

\* The record a failing push leaves.
LEMMA FailedIs ==
  ASSUME NEW k, Failed(k), call[k] \in Call
  PROVE  \E c \in Call : /\ call' = [call EXCEPT ![k] = c] /\ c.at = "record" /\ c.failed
                         /\ c.op = call[k].op /\ c.todo = call[k].todo /\ c.target = call[k].target /\ c.mine = call[k].mine
                         /\ c.version = call[k].version /\ c.seen = call[k].seen /\ c.alone = call[k].alone
<1>1. PICK c : c = [call[k] EXCEPT !.failed = TRUE, !.at = "record"]
  OBVIOUS
<1>2. /\ c \in Call /\ c.at = "record" /\ c.failed
      /\ c.op = call[k].op /\ c.todo = call[k].todo /\ c.target = call[k].target /\ c.mine = call[k].mine
      /\ c.version = call[k].version /\ c.seen = call[k].seen /\ c.alone = call[k].alone
  BY <1>1 DEF Call, Stages
<1>. QED
  BY <1>1, <1>2 DEF Failed, Step

LEMMA PushesKeep ==
  ASSUME TargetsInv, NEW k \in Calls, Open(k) \/ Push(k) \/ PushFails(k) PROVE TargetsInv'
<1>0. /\ call[k] \in Call /\ call[k].seen \in 0 .. latest /\ call[k].mine.place \in Places
      /\ latest \in Nat /\ remote \in [Places -> 0 .. latest]
  BY AtStep DEF Sound, Call, Row, WorldOK
<1>1. PICK q : q = call[k]
  OBVIOUS
<1>2. CASE Open(k)
  <2>1. q.at = "open" /\ UNCHANGED <<service, row, secret, latest, edits, faults, history>> /\ remote' = remote
    BY <1>1, <1>2 DEF Open, At, world
  <2>2. CASE Failed(k)
    BY <1>0, <1>1, <2>1, <2>2, FailedIs, PushingKeeps
  <2>3. CASE ~ Failed(k)
    <3>1. PICK seen : seen = IF service = "k8s" THEN remote[call[k].mine.place] ELSE 0
      OBVIOUS
    <3>2. PICK c : c = [q EXCEPT !.at = "push", !.seen = seen]
      OBVIOUS
    <3>3. seen \in 0 .. latest /\ seen \in Nat
      BY <1>0, <3>1
    <3>4. /\ c \in Call /\ c.at = "push" /\ c.op = q.op /\ c.todo = q.todo /\ c.target = q.target /\ c.mine = q.mine
          /\ c.version = q.version /\ c.seen = seen /\ c.alone = q.alone
      BY <1>0, <1>1, <3>2, <3>3 DEF Call, Stages
    <3>5. call' = [call EXCEPT ![k] = c]
      BY <1>1, <1>2, <2>3, <3>1, <3>2 DEF Open, Step
    <3>. QED
      BY <1>1, <2>1, <3>3, <3>4, <3>5, PushingKeeps
  <2>. QED
    BY <2>2, <2>3
<1>3. CASE Push(k)
  <2>1. q.at = "push" /\ UNCHANGED <<service, row, secret, latest, edits, faults, history>>
    BY <1>1, <1>3 DEF Push, At
  <2>2. CASE Failed(k) /\ UNCHANGED remote
    BY <1>0, <1>1, <2>1, <2>2, FailedIs, PushingKeeps
  <2>3. CASE GoTo(k, "record") /\ remote' = [remote EXCEPT ![q.mine.place] = q.version]
    <3>1. PICK c : c = [q EXCEPT !.at = "record"]
      OBVIOUS
    <3>2. /\ c \in Call /\ c.at = "record" /\ c.op = q.op /\ c.todo = q.todo /\ c.target = q.target /\ c.mine = q.mine
          /\ c.version = q.version /\ c.seen = q.seen /\ c.alone = q.alone
      BY <1>0, <1>1, <3>1 DEF Call, Stages
    <3>3. call' = [call EXCEPT ![k] = c]
      BY <1>1, <2>3, <3>1 DEF GoTo, Step
    <3>. QED
      BY <1>0, <1>1, <2>1, <2>3, <3>2, <3>3, PushingKeeps
  <2>. QED
    BY <1>1, <1>3, <2>2, <2>3 DEF Push
<1>4. CASE PushFails(k)
  <2>1. /\ q.at \in {"open", "push"} /\ UNCHANGED <<service, row, secret, latest, edits, faults, history>> /\ Failed(k)
        /\ remote' = remote \/ remote' = [remote EXCEPT ![q.mine.place] = q.version]
    BY <1>1, <1>4 DEF PushFails, At
  <2>. QED
    BY <1>0, <1>1, <2>1, FailedIs, PushingKeeps
<1>. QED
  BY <1>2, <1>3, <1>4

\* A row is written where it is still kept, and only there.
LEMMA WriteRowIs ==
  ASSUME row \in [Targets -> Row], NEW t \in Targets, NEW r \in Row, r.state = "kept", WriteRow(t, r)
  PROVE  /\ row' \in [Targets -> Row]
         /\ row'[t] = IF Kept(t) THEN r ELSE row[t]
         /\ \A u \in Targets \ {t} : row'[u] = row[u]
         /\ \A u \in Targets : /\ row[u].state # "new" => row'[u].state # "new"
                               /\ row'[u].state = "kept" <=> row[u].state = "kept"
<1>1. CASE Kept(t)
  BY <1>1 DEF WriteRow, Kept
<1>2. CASE ~ Kept(t)
  BY <1>2 DEF WriteRow, Kept
<1>. QED
  BY <1>1, <1>2

LEMMA SaveKeeps == ASSUME TargetsInv, NEW k \in Calls, Save(k) PROVE TargetsInv'
<1>1. call[k].at = "save" /\ UNCHANGED <<service, secret, latest, remote, edits, faults>>
  BY DEF Save, At
<1>2. PICK q : q = call[k]
  OBVIOUS
<1>3. PICK t : t = q.target
  OBVIOUS
<1>4. /\ q \in Call /\ Sound(q, row, remote, latest, dirty, wanted, crossed) /\ Placed(q) /\ q.at = "save" /\ q.op # "none"
      /\ q.op # "sync certificate" /\ t \in Targets /\ q.mine.state = "kept" /\ q.mine \in Row
      /\ row[t].state # "new" /\ row \in [Targets -> Row] /\ latest \in Nat
  <2>1. q \in Call /\ Sound(q, row, remote, latest, dirty, wanted, crossed) /\ Placed(q) /\ row \in [Targets -> Row] /\ latest \in Nat
    BY <1>2, AtStep
  <2>2. q.at = "save" /\ q.op # "none" /\ q.op # "sync certificate" /\ t \in Targets /\ q.mine.state = "kept"
    BY <1>1, <1>2, <1>3, <2>1 DEF Placed
  <2>3. row[t].state # "new"
    BY <1>3, <2>1, <2>2 DEF Sound
  <2>4. q.mine \in Row
    BY <2>1 DEF Call
  <2>. QED
    BY <2>1, <2>2, <2>3, <2>4
<1>5. /\ WriteRow(t, q.mine)
      /\ dirty' = dirty \cup {t}
      /\ wanted' = [wanted EXCEPT ![t] = Wish(q.mine)]
      /\ crossed' = IF q.alone THEN crossed \ {t} ELSE crossed \cup {t}
  BY <1>2, <1>3 DEF Save
<1>6. /\ row' \in [Targets -> Row]
      /\ row'[t] = IF Kept(t) THEN q.mine ELSE row[t]
      /\ \A u \in Targets \ {t} : row'[u] = row[u]
      /\ \A u \in Targets : /\ row[u].state # "new" => row'[u].state # "new"
                            /\ row'[u].state = "kept" <=> row[u].state = "kept"
  BY <1>4, <1>5, WriteRowIs
<1>7. wanted \in [Targets -> Places \X BOOLEAN] /\ Wish(q.mine) \in Places \X BOOLEAN
  BY <1>4, AtStep DEF WorldOK, Wish, Row
<1>8. /\ wanted' \in [Targets -> Places \X BOOLEAN] /\ wanted'[t] = Wish(q.mine)
      /\ \A u \in Targets \ {t} : wanted'[u] = wanted[u]
  BY <1>4, <1>5, <1>7
<1>9. WorldOK'
  BY <1>1, <1>4, <1>5, <1>6, <1>8, AtStep DEF WorldOK
<1>10. Reach(k)
  <2>1. \A u \in Targets : (row'[u] = row[u] \/ u \in dirty')
    BY <1>5, <1>6
  <2>2. ~ q.alone => crossed' = crossed \cup {t}
    BY <1>5
  <2>. QED
    BY <1>1, <1>2, <1>5, <1>6, <1>8, <2>1, <2>2 DEF Reach
<1>11. EditsHold'
  <2> SUFFICES ASSUME NEW u \in Targets, u \notin crossed', row'[u].state = "kept" PROVE Wish(row'[u]) = wanted'[u]
    BY DEF EditsHold, Kept, Wish
  <2>1. CASE u = t
    BY <1>6, <1>8, <2>1 DEF Kept
  <2>2. CASE u # t
    <3>1. u \notin crossed /\ Kept(u)
      BY <1>5, <1>6, <2>2 DEF Kept
    <3>2. Wish(row[u]) = wanted[u]
      BY <3>1, AtStep DEF EditsHold
    <3>. QED
      BY <1>6, <1>8, <2>2, <3>2
  <2>. QED
    BY <2>1, <2>2
<1>12. ASSUME NEW c \in Call, call' = [call EXCEPT ![k] = c], c.op # "none" => (c.alone => q.alone), c.at \in {"put", "none"},
              Sound(c, row', remote', latest', dirty', wanted', crossed')
       PROVE  TargetsInv'
  <2>0. call'[k] = c /\ \A j \in Calls \ {k} : call'[j] = call[j]
    BY <1>12, AtStep
  <2>1. Delivering'
    <3> SUFFICES ASSUME NEW u \in Targets, Due(u)' PROVE Settled(u)' \/ \E j \in Calls : AwaitedBy(call'[j], u)
      BY DEF Delivering
    <3>1. u # t /\ row'[u] = row[u] /\ Due(u)
      <4>1. u # t
        BY <1>5 DEF Due
      <4>. QED
        BY <1>5, <1>6, <4>1 DEF Due, Kept
    <3>2. CASE Settled(u)
      <4>1. row'[u].synced /\ remote'[row'[u].place] = latest'
        BY <1>1, <3>1, <3>2 DEF Settled
      <4>2. \A j \in Calls : Fresh(call'[j], latest')
        BY <1>1, <1>12, <2>0, <3>2 DEF Settled, Fresh
      <4>. QED
        BY <4>1, <4>2 DEF Settled
    <3>3. ASSUME NEW j \in Calls, AwaitedBy(call[j], u) PROVE AwaitedBy(call'[j], u)
      BY <1>2, <1>4, <2>0, <3>3 DEF AwaitedBy
    <3>. QED
      BY <3>1, <3>2, <3>3, AtStep DEF Delivering
  <2>. QED
    BY <1>2, <1>4, <1>9, <1>10, <1>11, <1>12, <2>1, StepKeeps
<1>13. CASE q.token
  <2>1. PICK c : c = [q EXCEPT !.at = "put"]
    OBVIOUS
  <2>2. /\ c \in Call /\ c.at = "put" /\ c.op = q.op /\ c.todo = q.todo /\ c.target = t /\ c.mine = q.mine
        /\ c.version = q.version /\ c.seen = q.seen /\ c.alone = q.alone
    BY <1>3, <1>4, <2>1 DEF Call, Stages
  <2>3. call' = [call EXCEPT ![k] = c]
    BY <1>2, <1>13, <2>1 DEF Save, GoTo, Step
  <2>4. Placed(c) /\ c.todo = {}
    BY <1>4, <2>2 DEF Placed
  <2>5. Says(t, q.mine, row', wanted', crossed')
    BY <1>8 DEF Says
  <2>6. Sound(c, row', remote', latest', dirty', wanted', crossed')
    BY <1>1, <1>4, <1>6, <2>2, <2>4, <2>5 DEF Sound
  <2>. QED
    BY <1>12, <2>2, <2>3, <2>6
<1>14. CASE ~ q.token
  <2>1. call' = [call EXCEPT ![k] = NoCall]
    BY <1>2, <1>14 DEF Save, End, Step
  <2>2. Sound(NoCall, row', remote', latest', dirty', wanted', crossed')
    <3>1. latest' \in Nat
      BY <1>1, <1>4
    <3>. QED
      BY <3>1, NoCallSound
  <2>. QED
    BY <1>12, <2>1, <2>2, NoCallIs
<1>. QED
  BY <1>13, <1>14

\* What a call is once its target is dealt with.
LEMMA OnwardIs ==
  ASSUME NEW k \in Calls, call[k].at = "record", call[k] \in Call, Placed(call[k]), NEW alone \in BOOLEAN, Onward(k, alone)
  PROVE  \E c \in Call :
           /\ call' = [call EXCEPT ![k] = c]
           /\ Placed(c) /\ ~ Holds(c) /\ c.at # "save" /\ c.op = call[k].op /\ c.alone = alone
           /\ c.version \in {0, call[k].version} /\ c.seen = 0 /\ c.todo = call[k].todo
           /\ \/ c.at = "next" /\ c.version = call[k].version
              \/ c.at = "answer" /\ c.op # "sync certificate" /\ c.target = call[k].target /\ c.failed = call[k].failed
<1>1. PICK q : q = call[k]
  OBVIOUS
<1>2. q \in Call /\ Placed(q) /\ q.at = "record" /\ q.op # "none" /\ q.target \in Targets /\ q.todo \in SUBSET (Targets \X Row)
  BY <1>1 DEF Placed, Call, Holds
<1>3. CASE q.op = "sync certificate"
  <2>1. PICK c : c = [NoCall EXCEPT !.op = "sync certificate", !.at = "next", !.todo = q.todo, !.version = q.version, !.alone = alone]
    OBVIOUS
  <2>2. /\ c \in Call /\ c.op = q.op /\ c.at = "next" /\ c.todo = q.todo /\ c.version = q.version /\ c.seen = 0 /\ c.alone = alone
    BY <1>2, <1>3, <2>1, NoCallIs DEF Call, Ops, Stages
  <2>3. call' = [call EXCEPT ![k] = c]
    BY <1>1, <1>3, <2>1 DEF Onward, Step
  <2>4. ~ Holds(c)
    BY <1>3, <2>2 DEF Holds
  <2>5. \A e, f \in c.todo : e[1] = f[1] => e = f
    BY <1>2, <2>2, Zenon DEF Placed
  <2>6. Placed(c)
    BY <1>3, <2>2, <2>4, <2>5 DEF Placed
  <2>. QED
    BY <1>1, <2>2, <2>3, <2>4, <2>6
<1>4. CASE q.op # "sync certificate"
  <2>1. PICK c : c = [NoCall EXCEPT !.op = q.op, !.at = "answer", !.target = q.target, !.failed = q.failed, !.alone = alone]
    OBVIOUS
  <2>2. /\ c \in Call /\ c.op = q.op /\ c.at = "answer" /\ c.todo = {} /\ c.version = 0 /\ c.seen = 0 /\ c.alone = alone
        /\ c.target = q.target /\ c.failed = q.failed
    BY <1>2, <2>1, NoCallIs DEF Call, Ops, Stages
  <2>3. call' = [call EXCEPT ![k] = c]
    BY <1>1, <1>4, <2>1 DEF Onward, Step
  <2>4. ~ Holds(c) /\ q.todo = {}
    BY <1>2, <1>4, <2>2 DEF Holds, Placed
  <2>5. Placed(c)
    BY <1>2, <1>4, <2>2, <2>4 DEF Placed
  <2>. QED
    BY <1>1, <1>4, <2>2, <2>3, <2>4, <2>5
<1>. QED
  BY <1>3, <1>4

\* The result is written where the row is still kept, or gets lost; if the call has been alone
\* all along and it was written, the target is clean.
LEMMA RecordedKeeps ==
  ASSUME TargetsInv, NEW k \in Calls, call[k].at = "record", NEW alone \in BOOLEAN, alone => call[k].alone, Onward(k, alone),
         NEW t, t = call[k].target,
         row' \in [Targets -> Row],
         \A u \in Targets \ {t} : row'[u] = row[u],
         \A u \in Targets : /\ row[u].state # "new" => row'[u].state # "new"
                            /\ row'[u].state = "kept" <=> row[u].state = "kept",
         Kept(t) => Wish(row'[t]) \in {Wish(row[t]), Wish(call[k].mine)},
         alone /\ Kept(t) => row'[t].error = call[k].failed /\ row'[t].synced /\ row'[t].place = call[k].mine.place,
         dirty' = IF alone THEN dirty \ {t} ELSE dirty \cup {t},
         UNCHANGED <<service, secret, latest, remote, edits, wanted, crossed>>, faults' \in 0 .. MaxFaults
  PROVE  TargetsInv'
<1>1. PICK q : q = call[k]
  OBVIOUS
<1>2. /\ q \in Call /\ Sound(q, row, remote, latest, dirty, wanted, crossed) /\ Placed(q) /\ q.at = "record" /\ q.op # "none"
      /\ t = q.target /\ t \in Targets /\ latest \in Nat /\ q.version \in 0 .. latest
      /\ Says(t, q.mine, row, wanted, crossed)
      /\ q.alone => q.version = latest /\ (~ q.failed => remote[q.mine.place] = latest)
  <2>1. q \in Call /\ Sound(q, row, remote, latest, dirty, wanted, crossed) /\ Placed(q) /\ latest \in Nat /\ Holds(q)
    BY <1>1, AtStep DEF Holds
  <2>2. q.at = "record" /\ q.op # "none" /\ t = q.target /\ t \in Targets
    BY <1>1, <2>1 DEF Placed
  <2>. QED
    BY <2>1, <2>2 DEF Sound
<1>0. PICK c \in Call :
           /\ call' = [call EXCEPT ![k] = c]
           /\ Placed(c) /\ ~ Holds(c) /\ c.at # "save" /\ c.op = call[k].op /\ c.alone = alone
           /\ c.version \in {0, call[k].version} /\ c.seen = 0 /\ c.todo = call[k].todo
           /\ \/ c.at = "next" /\ c.version = call[k].version
              \/ c.at = "answer" /\ c.op # "sync certificate" /\ c.target = call[k].target /\ c.failed = call[k].failed
  BY <1>1, <1>2, OnwardIs
<1>3. /\ call' = [call EXCEPT ![k] = c]
      /\ Placed(c) /\ ~ Holds(c) /\ c.at # "save" /\ c.op = q.op /\ c.alone = alone
      /\ c.version \in {0, q.version} /\ c.seen = 0 /\ c.todo = q.todo
      /\ \/ c.at = "next" /\ c.version = q.version
         \/ c.at = "answer" /\ c.op # "sync certificate" /\ c.target = q.target /\ c.failed = q.failed
  BY <1>0, <1>1
<1>4. WorldOK'
  BY <1>2, AtStep DEF WorldOK
<1>5. Reach(k)
  BY DEF Reach
<1>6. EditsHold'
  <2> SUFFICES ASSUME NEW u \in Targets, u \notin crossed, row'[u].state = "kept" PROVE Wish(row'[u]) = wanted[u]
    BY DEF EditsHold, Kept, Wish
  <2>1. Kept(u) /\ Wish(row[u]) = wanted[u]
    BY AtStep DEF EditsHold, Kept
  <2>2. u = t => Wish(q.mine) = wanted[u]
    BY <1>2, <2>1 DEF Says, Kept
  <2>. QED
    BY <1>1, <2>1, <2>2
<1>7. ASSUME NEW e \in q.todo
      PROVE  /\ e[1] \in Targets /\ e[1] # t /\ row'[e[1]] = row[e[1]]
             /\ e[2].state = "kept" /\ row'[e[1]].state # "new"
             /\ Says(e[1], e[2], row', wanted', crossed')
             /\ e[1] \in dirty' \/ row'[e[1]].state # "kept" \/ e[2] = row'[e[1]]
  <2>1. e[1] \in Targets
    BY <1>2, <1>7 DEF Call
  <2>2. e[1] # t
    BY <1>2, <1>7, Zenon DEF Placed
  <2>3. /\ e[2].state = "kept" /\ row[e[1]].state # "new"
        /\ Says(e[1], e[2], row, wanted, crossed)
        /\ e[1] \in dirty \/ row[e[1]].state # "kept" \/ e[2] = row[e[1]]
    BY <1>2, <1>7 DEF Sound
  <2>. QED
    BY <2>1, <2>2, <2>3 DEF Says
<1>8. Sound(c, row', remote', latest', dirty', wanted', crossed')
  <2>1. c.version \in 0 .. latest' /\ c.seen \in 0 .. latest'
    <3>1. 0 \in 0 .. latest /\ q.version \in 0 .. latest
      BY <1>2
    <3>2. latest' = latest
      OBVIOUS
    <3>. QED
      BY <1>3, <3>1, <3>2, Zenon
  <2>2. c.at \notin {"open", "push", "record"}
    BY <1>3
  <2>3. ASSUME c.alone, c.at = "next" PROVE c.version = latest'
    <3>1. q.alone
      BY <1>1, <1>3, <2>3, Zenon
    <3>. QED
      BY <1>2, <1>3, <2>3, <3>1
  <2>4. ASSUME c.alone, c.at = "answer", row'[c.target].state = "kept" PROVE row'[c.target].error = c.failed
    <3>1. c.target = t /\ c.failed = q.failed
      BY <1>2, <1>3, <2>4
    <3>2. Kept(t)
      BY <1>2, <2>4, <3>1 DEF Kept
    <3>3. alone
      BY <1>3, <2>4, Zenon
    <3>. QED
      BY <1>1, <3>1, <3>2, <3>3, Zenon
  <2>. QED
    BY <1>3, <1>7, <2>1, <2>2, <2>3, <2>4 DEF Sound
<1>9. Delivering'
  <2>0. call'[k] = c /\ \A j \in Calls \ {k} : call'[j] = call[j]
    BY <1>3, AtStep
  <2> SUFFICES ASSUME NEW u \in Targets, Due(u)' PROVE Settled(u)' \/ \E j \in Calls : AwaitedBy(call'[j], u)
    BY DEF Delivering
  <2>1. CASE u = t
    <3>0. t \notin dirty' /\ Kept(t) /\ ~ row'[t].error
      BY <1>2, <2>1 DEF Due, Kept
    <3>1. alone /\ Kept(t) /\ ~ row'[t].error
      <4>1. ~ alone => t \in dirty'
        BY <1>2
      <4>. QED
        BY <3>0, <4>1, Zenon
    <3>2. row'[t].synced /\ remote'[row'[t].place] = latest'
      BY <1>1, <1>2, <3>1
    <3>3. \A j \in Calls \ {k} : call[j].op = "none" /\ call[j].at = "none"
      BY <1>1, <1>2, <3>1, AtStep
    <3>4. c.version = latest \/ c.at = "answer"
      BY <1>1, <1>2, <1>3, <3>1
    <3>5. Fresh(c, latest')
      BY <1>3, <3>4 DEF Fresh
    <3>6. ASSUME NEW j \in Calls, j # k PROVE Fresh(call'[j], latest')
      <4>1. call'[j].at = "none"
        BY <2>0, <3>3, <3>6
      <4>. QED
        BY <4>1 DEF Fresh
    <3>7. \A j \in Calls : Fresh(call'[j], latest')
      BY <2>0, <3>5, <3>6
    <3>. QED
      BY <2>1, <3>2, <3>7 DEF Settled
  <2>2. CASE u # t
    <3>1. row'[u] = row[u] /\ Due(u)
      BY <2>2 DEF Due, Kept
    <3>2. CASE Settled(u)
      <4>1. row'[u].synced /\ remote'[row'[u].place] = latest'
        BY <3>1, <3>2 DEF Settled
      <4>2. \A j \in Calls : Fresh(call[j], latest)
        BY <3>2 DEF Settled
      <4>3. Fresh(c, latest)
        BY <1>1, <1>2, <1>3, <4>2 DEF Fresh
      <4>4. \A j \in Calls : Fresh(call'[j], latest')
        BY <2>0, <4>2, <4>3
      <4>. QED
        BY <4>1, <4>4 DEF Settled
    <3>3. ASSUME NEW j \in Calls, AwaitedBy(call[j], u) PROVE AwaitedBy(call'[j], u)
      <4>1. AwaitedBy(q, u) => AwaitedBy(c, u)
        BY <1>2, <1>3, <2>2 DEF AwaitedBy
      <4>. QED
        BY <1>1, <2>0, <3>3, <4>1
    <3>. QED
      BY <3>1, <3>2, <3>3, AtStep DEF Delivering
  <2>. QED
    BY <2>1, <2>2
<1>10. call[k].op # "none" /\ (c.op # "none" => (c.alone => call[k].alone))
  BY <1>1, <1>2, <1>3
<1>. QED
  BY <1>3, <1>4, <1>5, <1>6, <1>8, <1>9, <1>10, StepKeeps

LEMMA RecordsKeep == ASSUME TargetsInv, NEW k \in Calls, Record(k) \/ RecordFails(k) PROVE TargetsInv'
<1>1. /\ call[k].at = "record" /\ UNCHANGED <<service, secret, latest, remote, edits, wanted, crossed>>
      /\ call[k] \in Call /\ Placed(call[k]) /\ row \in [Targets -> Row] /\ faults \in 0 .. MaxFaults
  BY AtStep DEF Record, RecordFails, At, WorldOK
<1>2. PICK t : t = call[k].target
  OBVIOUS
<1>3. t \in Targets /\ call[k].mine.state = "kept" /\ call[k].mine \in Row /\ call[k].failed \in BOOLEAN
  BY <1>1, <1>2 DEF Placed, Holds, Call
<1>4. CASE Record(k)
  <2>1. PICK r : r = [call[k].mine EXCEPT !.synced = TRUE, !.error = call[k].failed]
    OBVIOUS
  <2>2. /\ r \in Row /\ r.state = "kept" /\ r.synced /\ r.error = call[k].failed /\ r.place = call[k].mine.place
        /\ Wish(r) = Wish(call[k].mine)
    BY <1>3, <2>1 DEF Row, Wish
  <2>3. WriteRow(t, r) /\ Onward(k, call[k].alone)
    BY <1>2, <1>4, <2>1 DEF Record
  <2>4. /\ row' \in [Targets -> Row]
        /\ row'[t] = IF Kept(t) THEN r ELSE row[t]
        /\ \A u \in Targets \ {t} : row'[u] = row[u]
        /\ \A u \in Targets : /\ row[u].state # "new" => row'[u].state # "new"
                              /\ row'[u].state = "kept" <=> row[u].state = "kept"
    BY <1>1, <1>3, <2>2, <2>3, WriteRowIs
  <2>5. PICK alone \in BOOLEAN : alone = call[k].alone
    BY <1>1 DEF Call
  <2>6. dirty' = IF alone THEN dirty \ {t} ELSE dirty \cup {t}
    BY <1>2, <1>4, <2>5 DEF Record
  <2>7. faults' \in 0 .. MaxFaults
    BY <1>1, <1>4 DEF Record
  <2>8. Kept(t) => Wish(row'[t]) \in {Wish(row[t]), Wish(call[k].mine)}
    BY <2>2, <2>4
  <2>9. alone /\ Kept(t) => row'[t].error = call[k].failed /\ row'[t].synced /\ row'[t].place = call[k].mine.place
    BY <2>2, <2>4
  <2>10. alone => call[k].alone
    BY <2>5
  <2>11. Onward(k, alone)
    BY <2>3, <2>5
  <2>. QED
    BY <1>1, <1>2, <2>4, <2>5, <2>6, <2>7, <2>8, <2>9, <2>10, <2>11, RecordedKeeps
<1>5. CASE RecordFails(k)
  <2>1. PICK alone \in BOOLEAN : alone = FALSE
    OBVIOUS
  <2>2. Onward(k, alone) /\ Fault /\ row' = row /\ dirty' = dirty \cup {t}
    BY <1>2, <1>5, <2>1 DEF RecordFails
  <2>3. faults' \in 0 .. MaxFaults
    BY <1>1, <2>2, TargetsAssumption DEF Fault
  <2>. QED
    BY <1>1, <1>2, <2>1, <2>2, <2>3, RecordedKeeps
<1>. QED
  BY <1>4, <1>5

LEMMA AccessFailsKeeps == ASSUME TargetsInv, NEW k \in Calls, AccessFails(k) PROVE TargetsInv'
<1>1. /\ call[k].at \in {"save", "put", "list", "load", "answer"} /\ End(k) /\ Fault
      /\ UNCHANGED <<service, row, secret, latest, remote, edits, wanted, crossed>>
      /\ dirty' = IF call[k].op = "sync certificate" THEN Targets ELSE dirty
  BY DEF AccessFails, At
<1>2. faults' \in 0 .. MaxFaults /\ WorldOK /\ call[k].op # "none" /\ latest' \in Nat /\ Placed(call[k])
  <2>1. WorldOK /\ Placed(call[k]) /\ latest \in Nat
    BY AtStep
  <2>2. faults' \in 0 .. MaxFaults
    <3>1. faults \in 0 .. MaxFaults /\ MaxFaults \in Nat
      BY <2>1, TargetsAssumption DEF WorldOK
    <3>2. faults < MaxFaults /\ faults' = faults + 1
      BY <1>1 DEF Fault
    <3>. QED
      BY <3>1, <3>2
  <2>3. call[k].op # "none" /\ latest' \in Nat
    BY <1>1, <2>1 DEF Placed
  <2>. QED
    BY <2>1, <2>2, <2>3
<1>3. WorldOK'
  BY <1>1, <1>2 DEF WorldOK
<1>4. CASE call[k].op # "sync certificate"
  <2>1. call[k].at \in {"save", "put", "load", "answer"}
    BY <1>1, <1>2, <1>4 DEF Placed
  <2>. QED
    BY <1>1, <1>3, <1>4, <2>1, RequestEnds
<1>5. CASE call[k].op = "sync certificate"
  <2>1. dirty' = Targets
    BY <1>1, <1>5
  <2>2. Reach(k)
    BY <1>1, <1>2, <2>1 DEF Reach, WorldOK
  <2>3. EditsHold'
    BY <1>1, AtStep DEF EditsHold, Kept, Wish
  <2>4. Delivering'
    BY <2>1 DEF Delivering, Due
  <2>5. PICK c : c = NoCall
    OBVIOUS
  <2>6. Sound(c, row', remote', latest', dirty', wanted', crossed') /\ c \in Call /\ c.op = "none"
    BY <1>2, <2>5, NoCallSound, NoCallIs
  <2>. QED
    BY <1>1, <1>2, <1>3, <2>2, <2>3, <2>4, <2>5, <2>6, StepKeeps DEF End, Step
<1>. QED
  BY <1>4, <1>5

-----------------------------------------------------------------------------
(* The server stops; a target goes; a call begins.                            *)

LEMMA CrashKeeps == TargetsInv /\ Crash => TargetsInv'
<1> SUFFICES ASSUME TargetsInv, Crash PROVE TargetsInv'
  OBVIOUS
<1>1. /\ UNCHANGED <<service, row, secret, latest, remote, edits, wanted, crossed>> /\ dirty' = Targets /\ Fault
      /\ call' = [k \in Calls |-> NoCall]
  BY DEF Crash
<1>2. WorldOK /\ faults' \in 0 .. MaxFaults
  BY <1>1, TargetsAssumption DEF TargetsInv, WorldOK, Fault
<1>3. WorldOK'
  BY <1>1, <1>2 DEF WorldOK
<1>4. latest' \in Nat
  BY <1>1, <1>2, TargetsAssumption DEF WorldOK, Versions
<1>5. AllSound' /\ Lone' /\ call' \in [Calls -> Call]
  BY <1>1, <1>4, NoCallSound, NoCallIs DEF AllSound, Lone
<1>6. Delivering'
  BY <1>1 DEF Delivering, Due
<1>7. EditsHold'
  BY <1>1 DEF TargetsInv, EditsHold, Kept, Wish
<1>. QED
  BY <1>3, <1>5, <1>6, <1>7 DEF TargetsInv

LEMMA DeleteTargetKeeps == ASSUME TargetsInv, NEW t \in Targets, DeleteTarget(t) PROVE TargetsInv'
<1>1. /\ Kept(t) /\ row' = [row EXCEPT ![t].state = "deleted"]
      /\ UNCHANGED <<service, secret, latest, remote, call, edits, faults, dirty, wanted, crossed>>
  BY DEF DeleteTarget, history
<1>2. WorldOK /\ row \in [Targets -> Row]
  BY DEF TargetsInv, WorldOK
<1>3. PICK r : r = [row[t] EXCEPT !.state = "deleted"]
  OBVIOUS
<1>4. r \in Row /\ r.state = "deleted"
  BY <1>2, <1>3 DEF Row
<1>5. row' \in [Targets -> Row] /\ row'[t] = r /\ \A u \in Targets \ {t} : row'[u] = row[u]
  BY <1>1, <1>2, <1>3, <1>4
<1>6. WorldOK'
  BY <1>1, <1>2, <1>5 DEF WorldOK
<1>7. ASSUME NEW c \in Call, Sound(c, row, remote, latest, dirty, wanted, crossed)
      PROVE  Sound(c, row', remote', latest', dirty', wanted', crossed')
  <2>1. \A u \in Targets : /\ row[u].state # "new" => row'[u].state # "new"
                           /\ row'[u].state = "kept" => row'[u] = row[u] /\ row[u].state = "kept"
    BY <1>4, <1>5
  <2>2. \A u \in Targets : \A x : Says(u, x, row, wanted, crossed) => Says(u, x, row', wanted', crossed')
    BY <1>1, <2>1 DEF Says
  <2>3. ASSUME NEW e \in c.todo
        PROVE  /\ e[2].state = "kept" /\ row'[e[1]].state # "new"
               /\ Says(e[1], e[2], row', wanted', crossed')
               /\ e[1] \in dirty' \/ row'[e[1]].state # "kept" \/ e[2] = row'[e[1]]
    <3>1. e[1] \in Targets
      BY DEF Call
    <3>2. /\ e[2].state = "kept" /\ row[e[1]].state # "new"
          /\ Says(e[1], e[2], row, wanted, crossed)
          /\ e[1] \in dirty \/ row[e[1]].state # "kept" \/ e[2] = row[e[1]]
      BY <1>7 DEF Sound
    <3>. QED
      BY <1>1, <2>1, <2>2, <3>1, <3>2
  <2>4. Placed(c) /\ (Holds(c) \/ c.at \in {"save", "answer"} => c.target \in Targets)
    BY <1>7 DEF Sound, Placed
  <2>5. /\ Holds(c) \/ c.at = "save" => row'[c.target].state # "new"
        /\ Holds(c) => Says(c.target, c.mine, row', wanted', crossed')
    BY <1>7, <2>1, <2>2, <2>4 DEF Sound
  <2>6. c.alone /\ c.at = "answer" /\ row'[c.target].state = "kept" => row'[c.target].error = c.failed
    BY <1>7, <2>1, <2>4 DEF Sound
  <2>. QED
    BY <1>1, <1>7, <2>3, <2>4, <2>5, <2>6 DEF Sound
<1>8. AllSound'
  BY <1>1, <1>7 DEF TargetsInv, AllSound
<1>9. Lone' /\ call' \in [Calls -> Call]
  BY <1>1 DEF TargetsInv, Lone
<1>10. \A u \in Targets : row'[u].state = "kept" => u # t
  BY <1>4, <1>5
<1>11. EditsHold'
  BY <1>1, <1>5, <1>10 DEF TargetsInv, EditsHold, Kept, Wish
<1>12. Delivering'
  <2> SUFFICES ASSUME NEW u \in Targets, Due(u)' PROVE Settled(u)' \/ \E j \in Calls : AwaitedBy(call'[j], u)
    BY DEF Delivering
  <2>1. row'[u] = row[u] /\ Due(u)
    BY <1>1, <1>5, <1>10 DEF Due, Kept
  <2>2. Settled(u) => Settled(u)'
    BY <1>1, <2>1 DEF Settled
  <2>. QED
    BY <1>1, <2>1, <2>2 DEF TargetsInv, Delivering
<1>. QED
  BY <1>6, <1>8, <1>9, <1>11, <1>12 DEF TargetsInv

LEMMA CountsUp == \A m \in Nat : \A i \in 0 .. m : i < m => i + 1 \in 0 .. m
OBVIOUS

LEMMA Intervals == \A m, n \in Nat : 0 \in 0 .. n /\ n <= n /\ n <= n + 1 /\ n + 1 \in Nat /\ (m <= n => 0 .. m \subseteq 0 .. n)
OBVIOUS

\* A call comes in: what others do counts as disturbed, and what they hold is as good as it was.
LEMMA BeginKeeps ==
  ASSUME TargetsInv, NEW k \in Calls, NEW c \in Call, Begin(k, c), Placed(c), c.op # "none",
         c.at \in {"list", "put", "save", "load"}, c.version = 0, c.seen = 0, c.todo = {},
         remote' = remote, crossed' = crossed, dirty \subseteq dirty', latest' \in Nat, latest <= latest',
         latest' = latest \/ (c.op = "sync certificate" /\ c.at = "list"),
         \A t \in Targets : row[t].state # "new" => row'[t] = row[t] /\ wanted'[t] = wanted[t],
         \A t \in Targets : row'[t] = row[t] \/ t \in dirty',
         Holds(c) \/ c.at = "save" => row'[c.target].state # "new",
         Holds(c) => Says(c.target, c.mine, row', wanted', crossed'),
         WorldOK', EditsHold'
  PROVE  TargetsInv'
<1>0. call \in [Calls -> Call] /\ latest \in Nat
  BY AtStep
<1>1. PICK r : r = [c EXCEPT !.alone = Active = {}]
  OBVIOUS
<1>2. /\ r \in Call /\ r.op = c.op /\ r.at = c.at /\ r.todo = {} /\ r.target = c.target /\ r.mine = c.mine
      /\ r.version = 0 /\ r.seen = 0 /\ r.alone = (Active = {})
  <2>1. (Active = {}) \in BOOLEAN
    OBVIOUS
  <2>. QED
    BY <1>1, <2>1 DEF Call
<1>3. call'[k] = r
  BY <1>1 DEF Begin
<1>4. Placed(r) /\ (Holds(r) <=> Holds(c))
  BY <1>2 DEF Placed, Holds
<1>5. Sound(r, row', remote', latest', dirty', wanted', crossed')
  <2>1. r.version \in 0 .. latest' /\ r.seen \in 0 .. latest'
    <3>1. 0 \in 0 .. latest'
      BY Intervals, Zenon
    <3>. QED
      BY <1>2, <3>1, Zenon
  <2>. QED
    BY <1>2, <1>4, <2>1 DEF Sound
<1>6. ASSUME NEW j \in Calls, j # k
      PROVE  /\ call'[j] \in Call /\ Sound(call'[j], row', remote', latest', dirty', wanted', crossed')
             /\ call'[j].op = call[j].op /\ (call[j].op # "none" => ~ call'[j].alone)
             /\ \A t : AwaitedBy(call[j], t) => AwaitedBy(call'[j], t)
             /\ \A l : Fresh(call[j], l) => Fresh(call'[j], l)
  <2>0. call[j] \in Call /\ Sound(call[j], row, remote, latest, dirty, wanted, crossed) /\ Placed(call[j])
    BY <1>6, AtStep
  <2>1. PICK q \in Call : q = call[j] /\ Sound(q, row, remote, latest, dirty, wanted, crossed) /\ Placed(q)
    BY <2>0
  <2>2. q.version \in 0 .. latest' /\ q.seen \in 0 .. latest'
    <3>1. q.version \in 0 .. latest /\ q.seen \in 0 .. latest
      BY <2>1 DEF Sound
    <3>2. 0 .. latest \subseteq 0 .. latest'
      BY <1>0, Intervals, Zenon
    <3>. QED
      BY <3>1, <3>2, Zenon
  <2>3. CASE q.op = "none"
    <3>1. call'[j] = q
      BY <1>6, <2>1, <2>3 DEF Begin, Active
    <3>. QED
      BY <2>1, <2>2, <2>3, <3>1, IdleSound
  <2>4. CASE q.op # "none"
    <3>1. call'[j] = [q EXCEPT !.alone = FALSE]
      BY <1>6, <2>1, <2>4 DEF Begin, Active
    <3>2. PICK p : p = [q EXCEPT !.alone = FALSE]
      OBVIOUS
    <3>3. /\ p \in Call /\ ~ p.alone /\ p.op = q.op /\ p.at = q.at /\ p.todo = q.todo /\ p.target = q.target
          /\ p.mine = q.mine /\ p.version = q.version /\ p.seen = q.seen
      BY <2>2, <3>2 DEF Call
    <3>4. Placed(p) /\ (Holds(p) <=> Holds(q))
      <4>1. Holds(p) <=> Holds(q)
        BY <3>3 DEF Holds
      <4>2. \A e, f \in p.todo : e[1] = f[1] => e = f
        BY <2>1, <3>3, Zenon DEF Placed
      <4>3. p.at \in {"open", "push", "record"} => \A e \in p.todo : e[1] # p.target
        BY <2>1, <3>3, Zenon DEF Placed
      <4>. QED
        BY <2>1, <3>3, <4>1, <4>2, <4>3 DEF Placed
    <3>5. \A t \in Targets : \A x : row[t].state # "new" /\ Says(t, x, row, wanted, crossed) => Says(t, x, row', wanted', crossed')
      BY DEF Says
    <3>6. ASSUME NEW e \in p.todo
          PROVE  /\ e[2].state = "kept" /\ row'[e[1]].state # "new"
                 /\ Says(e[1], e[2], row', wanted', crossed')
                 /\ e[1] \in dirty' \/ row'[e[1]].state # "kept" \/ e[2] = row'[e[1]]
      <4>1. e[1] \in Targets
        BY <2>2, <3>3 DEF Call
      <4>2. /\ e[2].state = "kept" /\ row[e[1]].state # "new"
            /\ Says(e[1], e[2], row, wanted, crossed)
            /\ e[1] \in dirty \/ row[e[1]].state # "kept" \/ e[2] = row[e[1]]
        BY <2>1, <3>3 DEF Sound
      <4>3. row'[e[1]] = row[e[1]]
        BY <4>1, <4>2
      <4>. QED
        BY <3>5, <4>1, <4>2, <4>3
    <3>7. /\ Holds(p) \/ p.at = "save" => row'[p.target].state # "new"
          /\ Holds(p) => Says(p.target, p.mine, row', wanted', crossed')
      <4>1. Holds(q) \/ q.at = "save" => q.target \in Targets /\ row[q.target].state # "new"
        BY <2>1 DEF Placed, Sound
      <4>2. Holds(q) => Says(q.target, q.mine, row, wanted, crossed)
        BY <2>1 DEF Sound
      <4>. QED
        BY <3>3, <3>4, <3>5, <4>1, <4>2
    <3>8. Sound(p, row', remote', latest', dirty', wanted', crossed')
      BY <2>1, <2>2, <3>3, <3>4, <3>6, <3>7 DEF Sound
    <3>. QED
      BY <2>1, <3>1, <3>2, <3>3, <3>8 DEF AwaitedBy, Fresh
  <2>. QED
    BY <2>3, <2>4
<1>7. call' \in [Calls -> Call]
  <2>1. call' = [j \in Calls |-> call'[j]]
    BY DEF Begin
  <2>2. \A j \in Calls : call'[j] \in Call
    BY <1>2, <1>3, <1>6
  <2>. QED
    BY <2>1, <2>2
<1>8. AllSound'
  BY <1>3, <1>5, <1>6 DEF AllSound
<1>9. Lone'
  <2>1. ASSUME NEW j \in Calls, j # k, call'[j].op # "none" PROVE ~ r.alone
    <3>1. j \in Active
      BY <1>6, <2>1 DEF Active
    <3>. QED
      BY <1>2, <3>1
  <2>2. \A j \in Calls : j # k /\ call'[j].op # "none" => ~ call'[j].alone
    BY <1>6
  <2>. QED
    BY <1>3, <2>1, <2>2 DEF Lone
<1>10. Delivering'
  <2> SUFFICES ASSUME NEW u \in Targets, Due(u)' PROVE Settled(u)' \/ \E j \in Calls : AwaitedBy(call'[j], u)
    BY DEF Delivering
  <2>1. row'[u] = row[u] /\ Due(u)
    BY DEF Due, Kept
  <2>2. CASE latest' # latest
    BY <1>2, <1>3, <2>2 DEF AwaitedBy
  <2>3. CASE latest' = latest /\ Settled(u)
    <3>1. row'[u].synced /\ remote'[row'[u].place] = latest'
      BY <2>1, <2>3 DEF Settled
    <3>2. \A j \in Calls : Fresh(call'[j], latest')
      <4>1. Fresh(r, latest')
        BY <1>2 DEF Fresh
      <4>2. \A j \in Calls : Fresh(call[j], latest')
        BY <2>3 DEF Settled
      <4>. QED
        BY <1>3, <1>6, <4>1, <4>2
    <3>. QED
      BY <3>1, <3>2 DEF Settled
  <2>4. ASSUME NEW j \in Calls, AwaitedBy(call[j], u) PROVE AwaitedBy(call'[j], u)
    <3>1. j # k
      BY <2>4 DEF Begin, AwaitedBy
    <3>. QED
      BY <1>6, <2>4, <3>1
  <2>. QED
    BY <2>1, <2>2, <2>3, <2>4, AtStep DEF Delivering
<1>. QED
  BY <1>7, <1>8, <1>9, <1>10 DEF TargetsInv

LEMMA RenewKeeps == ASSUME TargetsInv, NEW k \in Calls, Renew(k) PROVE TargetsInv'
<1>1. /\ latest < MaxVersion /\ latest' = latest + 1 /\ latest \in Nat /\ WorldOK
      /\ UNCHANGED <<service, row, secret, remote, edits, faults, dirty, wanted, crossed>>
  BY AtStep DEF Renew, history
<1>2. PICK c : c = [NoCall EXCEPT !.op = "sync certificate", !.at = "list"]
  OBVIOUS
<1>3. /\ c \in Call /\ c.op = "sync certificate" /\ c.at = "list" /\ c.todo = {} /\ c.version = 0 /\ c.seen = 0
      /\ Begin(k, c) /\ ~ Holds(c)
  <2>1. c \in Call /\ c.op = "sync certificate" /\ c.at = "list" /\ c.todo = {} /\ c.version = 0 /\ c.seen = 0
    BY <1>2, NoCallIs DEF Call, Ops, Stages
  <2>2. ~ Holds(c)
    BY <2>1 DEF Holds
  <2>. QED
    BY <1>2, <2>1, <2>2 DEF Renew
<1>4. Placed(c)
  BY <1>3 DEF Placed
<1>5. WorldOK'
  <2>1. latest' \in Versions
    BY <1>1, TargetsAssumption DEF Versions
  <2>2. remote' \in [Places -> 0 .. latest']
    <3>1. 0 .. latest \subseteq 0 .. latest'
      BY <1>1
    <3>. QED
      BY <1>1, <3>1 DEF WorldOK
  <2>. QED
    BY <1>1, <2>1, <2>2 DEF WorldOK
<1>6. EditsHold'
  BY <1>1, AtStep DEF EditsHold, Kept, Wish
<1>7. latest' \in Nat /\ latest <= latest'
  BY <1>1, Intervals, Zenon
<1>8. row' = row /\ wanted' = wanted /\ remote' = remote /\ crossed' = crossed /\ dirty' = dirty
  BY <1>1
<1>. QED
  BY <1>3, <1>4, <1>5, <1>6, <1>7, <1>8, BeginKeeps

LEMMA CreateTargetKeeps ==
  ASSUME TargetsInv, NEW k \in Calls, NEW t \in Targets, NEW place \in Places, CreateTarget(k, t, place) PROVE TargetsInv'
<1>1. /\ row[t].state = "new" /\ dirty' = dirty \cup {t} /\ wanted' = [wanted EXCEPT ![t] = <<place, TRUE>>]
      /\ UNCHANGED <<service, secret, latest, remote, edits, faults, crossed>>
      /\ WorldOK /\ latest \in Nat /\ row \in [Targets -> Row]
  BY AtStep DEF CreateTarget
<1>2. PICK r : r = [NewRow EXCEPT !.state = "kept", !.place = place, !.enabled = TRUE]
  OBVIOUS
<1>3. r \in Row /\ r.state = "kept" /\ Wish(r) = <<place, TRUE>>
  BY <1>2, NewRowIs DEF Row, Wish
<1>4. row' = [row EXCEPT ![t] = r]
  BY <1>2 DEF CreateTarget
<1>5. row' \in [Targets -> Row] /\ row'[t] = r /\ \A u \in Targets \ {t} : row'[u] = row[u]
  BY <1>1, <1>3, <1>4
<1>6. /\ wanted' \in [Targets -> Places \X BOOLEAN] /\ wanted'[t] = <<place, TRUE>>
      /\ \A u \in Targets \ {t} : wanted'[u] = wanted[u]
  BY <1>1 DEF WorldOK
<1>7. WorldOK'
  BY <1>1, <1>5, <1>6 DEF WorldOK
<1>8. EditsHold'
  <2> SUFFICES ASSUME NEW u \in Targets, u \notin crossed, row'[u].state = "kept" PROVE Wish(row'[u]) = wanted'[u]
    BY <1>1 DEF EditsHold, Kept, Wish
  <2>1. CASE u = t
    BY <1>3, <1>5, <1>6, <2>1
  <2>2. CASE u # t
    <3>1. row'[u] = row[u] /\ wanted'[u] = wanted[u] /\ Kept(u)
      BY <1>5, <1>6, <2>2 DEF Kept
    <3>2. Wish(row[u]) = wanted[u]
      BY <3>1, AtStep DEF EditsHold
    <3>. QED
      BY <3>1, <3>2
  <2>. QED
    BY <2>1, <2>2
<1>9. PICK c : c = [NoCall EXCEPT !.op = "create", !.at = "put", !.target = t, !.mine = row'[t], !.token = TRUE]
  OBVIOUS
<1>10. /\ c \in Call /\ c.op = "create" /\ c.at = "put" /\ c.todo = {} /\ c.version = 0 /\ c.seen = 0
       /\ c.target = t /\ c.mine = r
  BY <1>3, <1>5, <1>9, NoCallIs DEF Call, Ops, Stages
<1>11. Begin(k, c)
  BY <1>9 DEF CreateTarget
<1>12. Placed(c)
  BY <1>3, <1>10 DEF Placed
<1>13. row'[c.target].state # "new" /\ Says(c.target, c.mine, row', wanted', crossed')
  BY <1>3, <1>5, <1>6, <1>10 DEF Says
<1>14. latest' = latest /\ remote' = remote /\ crossed' = crossed /\ dirty \subseteq dirty' /\ t \in dirty'
  BY <1>1
<1>15. latest' \in Nat /\ latest <= latest'
  BY <1>1, <1>14, Intervals, Zenon
<1>16. \A u \in Targets : row[u].state # "new" => row'[u] = row[u] /\ wanted'[u] = wanted[u]
  BY <1>1, <1>5, <1>6
<1>17. \A u \in Targets : row'[u] = row[u] \/ u \in dirty'
  BY <1>5, <1>14
<1>18. c.op # "none" /\ c.at \in {"list", "put", "save", "load"}
  BY <1>10
<1>. QED
  BY <1>7, <1>8, <1>10, <1>11, <1>12, <1>13, <1>14, <1>15, <1>16, <1>17, <1>18, BeginKeeps

\* The two requests for a target that is there.
LEMMA RequestsKeep ==
  ASSUME TargetsInv, NEW k \in Calls, NEW t \in Targets, NEW c \in Call, Begin(k, c), c.op \in {"update", "sync target"},
         c.op = "update" => c.at = "save" /\ c.mine.state = "kept",
         c.op = "sync target" => c.at = "load" /\ c.mine = row[t],
         c.target = t, c.todo = {}, c.version = 0, c.seen = 0, Kept(t), Admin,
         UNCHANGED <<service, row, secret, latest, remote, faults, history>>
  PROVE  TargetsInv'
<1>1. /\ latest' = latest /\ row' = row /\ remote' = remote /\ dirty' = dirty /\ wanted' = wanted /\ crossed' = crossed
      /\ WorldOK /\ latest \in Nat /\ row[t].state = "kept"
  BY AtStep DEF history, Kept
<1>2. WorldOK'
  <2>1. edits' \in 0 .. MaxEdits
    <3>1. edits \in 0 .. MaxEdits /\ MaxEdits \in Nat
      BY <1>1, TargetsAssumption DEF WorldOK
    <3>2. edits < MaxEdits /\ edits' = edits + 1
      BY DEF Admin
    <3>. QED
      BY <3>1, <3>2, CountsUp, Zenon
  <2>. QED
    BY <1>1, <2>1 DEF WorldOK
<1>3. EditsHold'
  BY <1>1, AtStep DEF EditsHold, Kept, Wish
<1>4. Placed(c) /\ row'[c.target].state # "new"
  BY <1>1 DEF Placed, Holds
<1>5. Holds(c) => Says(c.target, c.mine, row', wanted', crossed')
  BY <1>1, AtStep DEF Holds, Says, EditsHold, Kept
<1>6. latest' \in Nat /\ latest <= latest'
  BY <1>1, Intervals, Zenon
<1>7. c.op # "none" /\ c.at \in {"list", "put", "save", "load"}
  OBVIOUS
<1>. QED
  BY <1>1, <1>2, <1>3, <1>4, <1>5, <1>6, <1>7, BeginKeeps

LEMMA UpdateTargetKeeps ==
  ASSUME TargetsInv, NEW k \in Calls, NEW t \in Targets, NEW place \in Places, NEW b \in BOOLEAN, NEW token \in BOOLEAN,
         UpdateTarget(k, t, place, b, token)
  PROVE  TargetsInv'
<1>1. PICK r : r = [row[t] EXCEPT !.place = place, !.enabled = b]
  OBVIOUS
<1>2. Kept(t) /\ Admin /\ UNCHANGED <<service, row, secret, latest, remote, faults, history>> /\ row[t] \in Row
  BY AtStep DEF UpdateTarget
<1>3. r \in Row /\ r.state = "kept"
  BY <1>1, <1>2 DEF Row, Kept
<1>4. PICK c : c = [NoCall EXCEPT !.op = "update", !.at = "save", !.target = t, !.token = token, !.mine = r]
  OBVIOUS
<1>5. c \in Call /\ c.op = "update" /\ c.at = "save" /\ c.target = t /\ c.mine = r /\ c.todo = {} /\ c.version = 0 /\ c.seen = 0
  BY <1>3, <1>4, NoCallIs DEF Call, Ops, Stages
<1>6. Begin(k, c)
  BY <1>1, <1>4 DEF UpdateTarget
<1>. QED
  BY <1>2, <1>3, <1>5, <1>6, RequestsKeep

LEMMA SyncTargetKeeps == ASSUME TargetsInv, NEW k \in Calls, NEW t \in Targets, SyncTarget(k, t) PROVE TargetsInv'
<1>1. Kept(t) /\ Admin /\ UNCHANGED <<service, row, secret, latest, remote, faults, history>> /\ row[t] \in Row
  BY AtStep DEF SyncTarget
<1>2. PICK c : c = [NoCall EXCEPT !.op = "sync target", !.at = "load", !.target = t, !.mine = row[t]]
  OBVIOUS
<1>3. /\ c \in Call /\ c.op = "sync target" /\ c.at = "load" /\ c.target = t /\ c.mine = row[t]
      /\ c.todo = {} /\ c.version = 0 /\ c.seen = 0
  BY <1>1, <1>2, NoCallIs DEF Call, Ops, Stages
<1>4. Begin(k, c)
  BY <1>2 DEF SyncTarget
<1>. QED
  BY <1>1, <1>3, <1>4, RequestsKeep

-----------------------------------------------------------------------------
LEMMA NextKeeps == TargetsInv /\ [TargetsNext]_targetVars => TargetsInv'
<1> SUFFICES ASSUME TargetsInv, [TargetsNext]_targetVars PROVE TargetsInv'
  OBVIOUS
<1>1. CASE UNCHANGED targetVars
  BY <1>1 DEF targetVars, world, history, TargetsInv, WorldOK, AllSound, Lone, Delivering, Due, Settled, EditsHold, Kept
<1>2. ASSUME NEW k \in Calls, Work(k) PROVE TargetsInv'
  BY <1>2, SaveKeeps, PutTokenKeeps, ListKeeps, LoadKeeps, TakeNextKeeps, NoneLeftKeeps, PushesKeep, RecordsKeep,
     AnswerKeeps, AccessFailsKeeps DEF Work
<1>3. CASE TargetsNext
  BY <1>2, <1>3, RenewKeeps, CreateTargetKeeps, UpdateTargetKeeps, SyncTargetKeeps, DeleteTargetKeeps, CrashKeeps
  DEF TargetsNext
<1>. QED
  BY <1>1, <1>3

LEMMA Inductive == TargetsSpec => []TargetsInv
BY Initially, NextKeeps, PTL DEF TargetsSpec

-----------------------------------------------------------------------------
\* Rows, places and calls keep their types.
THEOREM TargetsTypeCorrect == TargetsSpec => []TargetsTypeOK
<1>1. TargetsInv => TargetsTypeOK
  BY InvImplies
<1>. QED
  BY <1>1, Inductive, PTL

\* Once SyncCertificate and the requests are over, an undisturbed target has the latest
\* version or tells that its push failed.
THEOREM TargetsGetTheLatest == TargetsSpec => []DeliveredOrTold
<1>1. TargetsInv => DeliveredOrTold
  BY InvImplies
<1>. QED
  BY <1>1, Inductive, PTL

\* SyncTarget answers with its own result, although it reads it back from the row.
THEOREM AnswersAreOwn == TargetsSpec => []AnswerIsOwn
<1>1. TargetsInv => AnswerIsOwn
  BY InvImplies
<1>. QED
  BY <1>1, Inductive, PTL

\* What UpdateTarget saved while no other call ran stays, although results are written with
\* copies of the row (syncOne).
THEOREM EditsAreKept == TargetsSpec => []EditsHold
<1>1. TargetsInv => EditsHold
  BY InvImplies
<1>. QED
  BY <1>1, Inductive, PTL

\* Update is no upsert: a result that comes late does not bring a deleted target back.
THEOREM DeletedTargetsStay == TargetsSpec => DeletedStaysDeleted
<1>1. TargetsInv /\ [TargetsNext]_targetVars => [\A t \in Targets : row[t].state = "deleted" => row'[t].state = "deleted"]_targetVars
  <2> SUFFICES ASSUME TargetsInv, TargetsNext, NEW u \in Targets, row[u].state = "deleted" PROVE row'[u].state = "deleted"
    OBVIOUS
  <2>1. row \in [Targets -> Row]
    BY DEF TargetsInv, WorldOK
  <2>2. ASSUME NEW t \in Targets, NEW r, row' = [row EXCEPT ![t] = r], row[t].state # "deleted" PROVE row'[u].state = "deleted"
    BY <2>1, <2>2
  <2>3. ASSUME NEW t, NEW r, WriteRow(t, r), t \in Targets PROVE row'[u].state = "deleted"
    BY <2>1, <2>3 DEF WriteRow, Kept
  <2>4. ASSUME NEW k \in Calls, Work(k) PROVE row'[u].state = "deleted"
    <3>1. CASE Save(k) \/ Record(k)
      <4>1. \E t, r : WriteRow(t, r) /\ t = call[k].target /\ call[k].at \in {"save", "record"}
        BY <3>1 DEF Save, Record, At
      <4>2. call[k].at \in {"save", "record"} => call[k].target \in Targets
        BY AtStep DEF Placed, Holds
      <4>. QED
        BY <2>3, <4>1, <4>2
    <3>2. CASE row' = row
      BY <3>2
    <3>. QED
      BY <2>4, <3>1, <3>2 DEF Work, world, PutToken, List, Load, TakeNext, NoneLeft, Open, Push, PushFails, Answer, AccessFails, RecordFails
  <2>5. ASSUME NEW k \in Calls, NEW t \in Targets, NEW p \in Places, CreateTarget(k, t, p) PROVE row'[u].state = "deleted"
    BY <2>2, <2>5 DEF CreateTarget
  <2>6. ASSUME NEW t \in Targets, DeleteTarget(t) PROVE row'[u].state = "deleted"
    <3>1. row' = [row EXCEPT ![t] = [row[t] EXCEPT !.state = "deleted"]] /\ row[t].state # "deleted"
      BY <2>6 DEF DeleteTarget, Kept
    <3>. QED
      BY <2>2, <3>1
  <2>7. CASE row' = row
    BY <2>7
  <2>. QED
    BY <2>4, <2>5, <2>6, <2>7 DEF TargetsNext, Renew, UpdateTarget, SyncTarget, Crash
<1>. QED
  BY <1>1, Inductive, PTL DEF TargetsSpec, DeletedStaysDeleted

=============================================================================
