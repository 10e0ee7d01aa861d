---------------------------- MODULE ExchangeProofs ----------------------------
(***************************************************************************)
(* Theorems about Exchange, for any number of parts, calls and faults.     *)
(***************************************************************************)
EXTENDS Exchange, FiniteSetTheorems, TLAPS

\* How many parts an order has.
LEMMA HowMany ==
  /\ Cardinality(Parts) = IF kind = "letsencrypt" THEN Last ELSE 1
  /\ Parts \subseteq Nat \ {0} /\ 1 \in Parts
<1>1. Last \in Nat \ {0}
  BY ExchangeAssumption
<1>2. Cardinality(1 .. Last) = Last /\ Cardinality(1 .. 1) = 1
  <2>1. \A n \in Nat \ {0} : Cardinality(1 .. n) = n
    <3>1. ASSUME NEW n \in Nat \ {0} PROVE Cardinality(1 .. n) = IF 1 > n THEN 0 ELSE n - 1 + 1
      <4>1. 1 \in Int /\ n \in Int
        OBVIOUS
      <4>. QED
        BY <4>1, FS_Interval, Zenon
    <3>2. QED
      BY <3>1
  <2>2. 1 \in Nat \ {0}
    OBVIOUS
  <2>. QED
    BY <1>1, <2>1, <2>2, Zenon
<1>3. 1 .. 1 = {1}
  OBVIOUS
<1>. QED
  BY <1>1, <1>2, <1>3 DEF Parts

-----------------------------------------------------------------------------
(* The inductive invariant.                                                   *)

\* The parts that are done with: accepted, and their record withdrawn (or given up on).
Done == {i \in Parts : authz[i] = "valid" /\ (automated => i \notin proof \ left)}

\* What a call holds is true of the CA, also if it read the row long ago; the part
\* whose record it is about to remove is accepted.
Sound(c) ==
  /\ c \in Copy
  /\ c.at # "idle" => c.mine.status = "awaiting_validation"
  /\ c.mine.cleaned \subseteq Done
  /\ c.state.cleaned \subseteq Done
  /\ c.at = "clean up" => authz[c.part] = "valid"
  /\ \A i \in c.mine.verified : i \in Done \/ (c.at = "clean up" /\ i = c.part)
  /\ c.at \in {"submit", "await", "store"} => c.mine.verified = Parts

RowSound ==
  /\ row \in Row
  /\ row.verified \subseteq Done
  /\ row.cleaned \subseteq Done
  /\ row.status = "issued" => row.verified = Parts

\* Parts not reached yet are unknown to the CA; of the others, those not accepted yet have
\* their record published and have not been turned down, if this server publishes them.
Published ==
  /\ \A i \in Parts : i > requested => authz[i] = "none"
  /\ automated => \A i \in Parts : authz[i] # "none" /\ authz[i] # "valid" => i \in proof /\ authz[i] # "invalid"

ExchangeInv ==
  /\ ExchangeTypeOK
  /\ \A k \in Calls : Sound(call[k])
  /\ RowSound
  /\ Published

LEMMA InvImplies == ExchangeInv => SubmittedWhenProven /\ AutomatedNeverRejected /\ RecordsWithdrawn
<1> SUFFICES ASSUME ExchangeInv PROVE SubmittedWhenProven /\ AutomatedNeverRejected /\ RecordsWithdrawn
  OBVIOUS
<1>1. SubmittedWhenProven
  <2>1. ASSUME NEW k \in Calls, call[k].at \in {"submit", "await", "store"}, NEW i \in Parts PROVE authz[i] = "valid"
    <3>1. call[k].mine.verified = Parts /\ i \in Done
      BY <2>1 DEF ExchangeInv, Sound
    <3>. QED
      BY <3>1 DEF Done
  <2>2. ASSUME row.status = "issued", NEW i \in Parts PROVE authz[i] = "valid"
    BY <2>2 DEF ExchangeInv, RowSound, Done
  <2>. QED
    BY <2>1, <2>2 DEF SubmittedWhenProven
<1>2. AutomatedNeverRejected
  BY DEF AutomatedNeverRejected, ExchangeInv, Published
<1>3. RecordsWithdrawn
  BY DEF RecordsWithdrawn, ExchangeInv, ExchangeTypeOK, RowSound, Done
<1>. QED
  BY <1>1, <1>2, <1>3

-----------------------------------------------------------------------------
(* What every step keeps.                                                     *)

\* The CA takes nothing back, and a record that is gone does not return.
Grows ==
  /\ kind' = kind /\ automated' = automated
  /\ \A i \in Parts : authz[i] = "valid" => authz'[i] = "valid"
  /\ Done \subseteq Done'

\* The history variable stays of its type.
Marked == overtaken' \subseteq {"order"}

LEMMA SameOrder ==
  ASSUME kind' = kind PROVE Parts' = Parts /\ Row' = Row /\ Copy' = Copy
BY DEF Parts, Row, Copy

\* What a call holds stays true while others work.
LEMMA SoundLater ==
  ASSUME NEW x, call'[x] = call[x], Sound(call[x]), Grows PROVE Sound(call[x])'
<1>1. call[x].part \in Parts
  BY DEF Sound, Copy
<1>2. Parts' = Parts /\ Copy' = Copy
  BY SameOrder DEF Grows
<1>. QED
  BY <1>1, <1>2 DEF Grows, Sound

LEMMA OtherCallsSound ==
  ASSUME ExchangeInv, Grows, NEW k \in Calls, NEW d, Sound(d)', call' = [call EXCEPT ![k] = d]
  PROVE  call' \in [Calls -> Copy'] /\ \A x \in Calls : Sound(call[x])'
<1>1. ASSUME NEW x \in Calls PROVE Sound(call[x])'
  <2>1. CASE x = k
    <3>1. call'[x] = d
      BY <2>1 DEF ExchangeInv, ExchangeTypeOK
    <3>. QED
      BY <3>1 DEF Sound
  <2>2. CASE x # k
    <3>1. call'[x] = call[x]
      BY <2>2 DEF ExchangeInv, ExchangeTypeOK
    <3>2. Sound(call[x])
      BY DEF ExchangeInv
    <3>. QED
      BY <3>1, <3>2, SoundLater
  <2>. QED
    BY <2>1, <2>2
<1>2. call' \in [Calls -> Copy']
  BY SameOrder DEF ExchangeInv, ExchangeTypeOK, Sound, Grows
<1>. QED
  BY <1>1, <1>2

\* A copy that no record to remove and no claim goes with.
Carried(c) ==
  /\ c \in Copy
  /\ c.mine.status = "awaiting_validation"
  /\ c.mine.cleaned \subseteq Done
  /\ c.state.cleaned \subseteq Done
  /\ c.mine.verified \subseteq Done

\* Wherever a call goes on to with such a copy, what it holds is true.
LEMMA OnwardSound ==
  ASSUME NEW k \in Calls, NEW c, NEW i, Carried(c)', Onward(k, c, i), kind' = kind
  PROVE  \E d : call' = [call EXCEPT ![k] = d] /\ Sound(d)'
<1> DEFINE todo == {j \in Parts : j > i /\ (kind = "letsencrypt" => j \notin c.mine.verified)}
           next(j, stage) == [c EXCEPT !.part = j, !.at = stage]
           end == [c EXCEPT !.at = "decide", !.part = 1, !.state = Forgotten]
<1>0. Copy' = Copy /\ Row' = Row /\ Parts' = Parts
  BY SameOrder
<1>1. ASSUME NEW j \in Parts, NEW stage \in {"poll", "trigger"} PROVE Sound(next(j, stage))'
  <2>1. next(j, stage) \in Copy
    BY <1>0 DEF Carried, Copy
  <2>2. /\ next(j, stage).mine = c.mine /\ next(j, stage).state = c.state
        /\ next(j, stage).at = stage
    BY <1>0 DEF Carried, Copy
  <2>. QED
    BY <2>1, <2>2, <1>0 DEF Carried, Sound
<1>2. Sound(end)'
  <2>1. end \in Copy
    BY <1>0, HowMany DEF Carried, Copy, Forgotten
  <2>2. end.mine = c.mine /\ end.state = Forgotten /\ end.at = "decide"
    BY <1>0 DEF Carried, Copy
  <2>. QED
    BY <2>1, <2>2, <1>0 DEF Carried, Sound, Forgotten
<1>3. CASE \E j \in todo : /\ \A m \in todo : j <= m
                           /\ Set(k, [c EXCEPT !.part = j,
                                      !.at = IF kind = "adcs" \/ j \in c.mine.triggered THEN "poll" ELSE "trigger"])
  <2>1. PICK j \in todo : Set(k, [c EXCEPT !.part = j,
                                 !.at = IF kind = "adcs" \/ j \in c.mine.triggered THEN "poll" ELSE "trigger"])
    BY <1>3
  <2> DEFINE stage == IF kind = "adcs" \/ j \in c.mine.triggered THEN "poll" ELSE "trigger"
  <2>2. call' = [call EXCEPT ![k] = next(j, stage)]
    BY <2>1 DEF Set
  <2>3. j \in Parts /\ stage \in {"poll", "trigger"}
    OBVIOUS
  <2>4. Sound(next(j, stage))'
    BY <2>3, <1>1
  <2>. QED
    BY <2>2, <2>4
<1>4. CASE todo = {} /\ Set(k, end)
  BY <1>2, <1>4 DEF Set
<1>. QED
  BY <1>3, <1>4 DEF Onward

LEMMA Quiet ==
  ASSUME UNCHANGED <<kind, automated, authz, proof, left>> PROVE Grows /\ Done' = Done
<1>1. Parts' = Parts
  BY SameOrder
<1>2. Done' = Done
  BY <1>1 DEF Done
<1>. QED
  BY <1>2 DEF Grows

LEMMA RowKept ==
  ASSUME RowSound, Grows, row' = row PROVE RowSound'
BY SameOrder DEF RowSound, Grows

LEMMA IdleSound == Sound(Idle)
<1>1. NewRow \in Row
  BY DEF NewRow, Row
<1>2. Idle \in Copy
  BY <1>1, HowMany DEF Idle, Forgotten, Copy
<1>. QED
  BY <1>2 DEF Sound, Idle, NewRow, Forgotten

LEMMA InitInv == ExchangeInit => ExchangeInv
<1> SUFFICES ASSUME ExchangeInit PROVE ExchangeInv
  OBVIOUS
<1>1. NewRow \in Row
  BY DEF NewRow, Row
<1>2. Sound(Idle) /\ Idle \in Copy
  BY IdleSound DEF Sound
<1>3. ExchangeTypeOK
  <2>1. automated \in BOOLEAN /\ (automated => kind = "letsencrypt") /\ dns \in BOOLEAN
    BY Zenon DEF ExchangeInit
  <2>2. requested \in 0 .. Cardinality(Parts) /\ faults \in 0 .. MaxFaults
    BY HowMany, ExchangeAssumption DEF ExchangeInit
  <2>3. call \in [Calls -> Copy]
    BY <1>2 DEF ExchangeInit
  <2>4. /\ kind \in Kinds /\ row \in Row /\ asked = {} /\ proof = {} /\ left = {} /\ caOrder = "open"
        /\ overtaken = {}
        /\ authz \in [Parts -> {"none", "pending", "valid", "invalid", "expired"}]
    BY <1>1 DEF ExchangeInit
  <2>. QED
    BY <2>1, <2>2, <2>3, <2>4 DEF ExchangeTypeOK
<1>4. ASSUME NEW k \in Calls PROVE Sound(call[k])
  <2>1. call[k] = Idle
    BY DEF ExchangeInit
  <2>. QED
    BY <1>2, <2>1
<1>5. RowSound
  BY <1>1 DEF ExchangeInit, RowSound, NewRow
<1>6. Published
  BY DEF ExchangeInit, Published
<1>. QED
  BY <1>3, <1>4, <1>5, <1>6 DEF ExchangeInv

-----------------------------------------------------------------------------
(* Steps of calls.                                                            *)

\* A step of a call keeps the invariant when it keeps what calls and the row hold true, and
\* removes no record that is still needed.
LEMMA CallStep ==
  ASSUME ExchangeInv, Marked, Grows, Working, authz' = authz, RowSound',
         NEW k \in Calls, NEW d, call' = [call EXCEPT ![k] = d], Sound(d)',
         asked' \in SUBSET Parts, left' \in SUBSET Parts, proof' \subseteq proof,
         \A i \in proof : authz[i] # "valid" => i \in proof',
         caOrder' \in {"open", "processing", "valid"}, faults' \in 0 .. MaxFaults
  PROVE  ExchangeInv'
<1>0. Parts' = Parts /\ Copy' = Copy /\ Row' = Row
  BY SameOrder DEF Grows
<1>1. call' \in [Calls -> Copy'] /\ \A x \in Calls : Sound(call[x])'
  BY OtherCallsSound
<1>2. ExchangeTypeOK'
  <2>1. kind' = kind /\ automated' = automated /\ dns' = dns /\ requested' = requested
    BY DEF Working
  <2>2. proof' \in SUBSET Parts
    BY DEF ExchangeInv, ExchangeTypeOK
  <2>3. row' \in Row'
    BY DEF RowSound
  <2>4. /\ kind' \in Kinds /\ dns' \in BOOLEAN /\ automated' \in BOOLEAN
        /\ automated' => kind' = "letsencrypt"
    BY <2>1, Zenon DEF ExchangeInv, ExchangeTypeOK
  <2>5. requested' \in 0 .. Cardinality(Parts') /\ authz' \in [Parts' -> {"none", "pending", "valid", "invalid", "expired"}]
    BY <2>1, <1>0 DEF ExchangeInv, ExchangeTypeOK
  <2>. QED
    BY <1>0, <1>1, <2>2, <2>3, <2>4, <2>5 DEF ExchangeTypeOK, Marked
<1>3. Published'
  BY <1>0 DEF Working, ExchangeInv, ExchangeTypeOK, Published
<1>. QED
  BY <1>1, <1>2, <1>3 DEF ExchangeInv

\* The same for a step that removes no record at all.
LEMMA QuietStep ==
  ASSUME ExchangeInv, Marked, Working, UNCHANGED <<authz, proof, left>>, RowSound',
         NEW k \in Calls, NEW d, call' = [call EXCEPT ![k] = d], Sound(d)',
         asked' \in SUBSET Parts, caOrder' \in {"open", "processing", "valid"}, Fault \/ faults' = faults
  PROVE  ExchangeInv'
<1>1. Grows
  BY Quiet DEF Working
<1>2. faults' \in 0 .. MaxFaults
  BY ExchangeAssumption DEF Fault, ExchangeInv, ExchangeTypeOK
<1>3. left' \in SUBSET Parts /\ proof' \subseteq proof /\ authz' = authz /\ \A i \in proof : authz[i] # "valid" => i \in proof'
  BY DEF ExchangeInv, ExchangeTypeOK
<1>. QED
  BY <1>1, <1>2, <1>3, CallStep

\* And leaves the row alone.
LEMMA QuietRow ==
  ASSUME ExchangeInv, Working, UNCHANGED <<row, authz, proof, left>>
  PROVE  RowSound'
BY Quiet, RowKept DEF ExchangeInv, Working

\* Between the parts, and when the loop is over, a call carries true copies.
LEMMA Between ==
  ASSUME ExchangeInv, NEW k \in Calls, call[k].at \in {"trigger", "poll", "give up", "decide", "submit", "await", "store"}
  PROVE  Carried(call[k])
BY DEF ExchangeInv, Sound, Carried

LEMMA CarriedQuietly ==
  ASSUME NEW c, Carried(c), UNCHANGED <<kind, automated, authz, proof, left>> PROVE Carried(c)'
<1>1. Done' = Done
  BY Quiet
<1>2. Copy' = Copy
  BY SameOrder
<1>. QED
  BY <1>1, <1>2 DEF Carried

\* A step after which the call goes on with its loop.
LEMMA OnwardStep ==
  ASSUME ExchangeInv, Marked, Working, UNCHANGED <<row, authz, proof, left, asked, caOrder, faults>>,
         NEW k \in Calls, NEW c, NEW i, Carried(c), Onward(k, c, i)
  PROVE  ExchangeInv'
<1>1. Carried(c)'
  BY CarriedQuietly DEF Working
<1>2. PICK d : call' = [call EXCEPT ![k] = d] /\ Sound(d)'
  BY <1>1, OnwardSound DEF Working
<1>3. asked' \in SUBSET Parts /\ caOrder' \in {"open", "processing", "valid"}
  BY DEF ExchangeInv, ExchangeTypeOK
<1>. QED
  BY <1>2, <1>3, QuietRow, QuietStep

LEMMA GetInv ==
  ASSUME ExchangeInv, Marked, NEW k \in Calls, Get(k) PROVE ExchangeInv'
<1> DEFINE c == [Idle EXCEPT !.mine = row, !.state = [triggered |-> row.triggered, cleaned |-> row.cleaned], !.dns = dns]
<1>1. row \in Row /\ dns \in BOOLEAN
  BY DEF ExchangeInv, ExchangeTypeOK
<1>2. Idle \in Copy
  BY IdleSound DEF Sound
<1>3. /\ c \in Copy /\ c.mine = row
      /\ c.state = [triggered |-> row.triggered, cleaned |-> row.cleaned]
  BY <1>1, <1>2 DEF Copy, Row
<1>4. Carried(c)
  BY <1>3 DEF Carried, ExchangeInv, RowSound, Get
<1>. QED
  BY <1>4, OnwardStep DEF Get, caVars

\* A step after which the call holds a copy d that is true already.
LEMMA HeldStep ==
  ASSUME ExchangeInv, Marked, Working, UNCHANGED <<authz, proof, left>>, RowSound',
         asked' \in SUBSET Parts, caOrder' \in {"open", "processing", "valid"}, Fault \/ faults' = faults,
         NEW k \in Calls, NEW d, Sound(d), call' = [call EXCEPT ![k] = d]
  PROVE  ExchangeInv'
<1>1. Done' = Done /\ Parts' = Parts /\ Copy' = Copy
  BY Quiet, SameOrder DEF Working
<1>2. Sound(d)'
  BY <1>1 DEF Sound
<1>. QED
  BY <1>2, QuietStep

\* Giving up, and asking the CA.
LEMMA AskInv ==
  ASSUME ExchangeInv, Marked, NEW k \in Calls, call[k].at \in {"trigger", "poll"}, Working,
         UNCHANGED <<row, authz, caOrder, proof, left>>, Fault \/ faults' = faults,
         \/ GiveUp(k) /\ asked' \in {asked, asked \cup {call[k].part}}
         \/ Ask(k)
  PROVE  ExchangeInv'
<1> DEFINE c == call[k]
           d == [c EXCEPT !.at = "give up"]
           e == [c EXCEPT !.mine.triggered = @ \cup {c.part}, !.at = "poll"]
<1>1. Carried(c) /\ c \in Copy /\ c.part \in Parts /\ c.mine \in Row
  BY Between DEF Carried, Copy
<1>2. d \in Copy /\ d.at = "give up" /\ d.mine = c.mine /\ d.state = c.state
  BY <1>1 DEF Copy
<1>3. Sound(d)
  BY <1>1, <1>2 DEF Carried, Sound
<1>4. e \in Copy /\ e.at = "poll" /\ e.mine = [c.mine EXCEPT !.triggered = @ \cup {c.part}] /\ e.state = c.state
  BY <1>1 DEF Copy, Row
<1>5. /\ e.mine.status = c.mine.status /\ e.mine.verified = c.mine.verified
      /\ e.mine.cleaned = c.mine.cleaned
  BY <1>1, <1>4 DEF Row
<1>6. Sound(e)
  BY <1>1, <1>4, <1>5 DEF Carried, Sound
<1>7. asked' \in SUBSET Parts /\ caOrder' \in {"open", "processing", "valid"}
  BY <1>1 DEF ExchangeInv, ExchangeTypeOK, Ask
<1>8. call' = [call EXCEPT ![k] = d] \/ call' = [call EXCEPT ![k] = e]
  BY DEF GiveUp, Ask, Set
<1>9. RowSound'
  BY QuietRow
<1>. QED
  BY <1>3, <1>6, <1>7, <1>8, <1>9, HeldStep

LEMMA TriggerInv ==
  ASSUME ExchangeInv, Marked, NEW k \in Calls, Trigger(k) \/ TriggerDraft(k) \/ TriggerFails(k) \/ PollFails(k)
  PROVE  ExchangeInv'
BY AskInv DEF Trigger, TriggerDraft, TriggerFails, PollFails, At, caVars

\* What Verify, Deny and the removal of a record change in a copy.
LEMMA VerifyCopy ==
  ASSUME NEW c \in Copy, NEW i \in Parts
  PROVE  /\ Verify(c, i) \in Copy /\ Verify(c, i).at = c.at /\ Verify(c, i).part = c.part /\ Verify(c, i).state = c.state
         /\ Verify(c, i).mine.status = c.mine.status /\ Verify(c, i).mine.verified = c.mine.verified \cup {i} /\ Verify(c, i).mine.cleaned = c.mine.cleaned
BY DEF Copy, Row, Verify

LEMMA DenyCopy ==
  ASSUME NEW c \in Copy, NEW i \in Parts
  PROVE  /\ Deny(c, i) \in Copy /\ Deny(c, i).at = c.at /\ Deny(c, i).part = c.part /\ Deny(c, i).state = c.state
         /\ Deny(c, i).mine.status = c.mine.status /\ Deny(c, i).mine.verified = c.mine.verified /\ Deny(c, i).mine.cleaned = c.mine.cleaned
BY DEF Copy, Row, Deny

LEMMA CleanedUpCopy ==
  ASSUME NEW c \in Copy, NEW i \in Parts
  PROVE  /\ CleanedUp(c, i) \in Copy /\ CleanedUp(c, i).at = c.at /\ CleanedUp(c, i).part = c.part /\ CleanedUp(c, i).state = c.state
         /\ CleanedUp(c, i).mine.status = c.mine.status /\ CleanedUp(c, i).mine.verified = c.mine.verified /\ CleanedUp(c, i).mine.cleaned = c.mine.cleaned \cup {i}
BY DEF Copy, Row, CleanedUp

\* The record of part i, which is accepted, goes, or nobody will remove it any more.
LEMMA RecordGone ==
  ASSUME ExchangeInv, Marked, Working, UNCHANGED <<row, authz, asked, caOrder, faults>>,
         NEW k \in Calls, NEW c \in Copy, NEW i \in Parts, authz[i] = "valid",
         c.mine.status = "awaiting_validation", c.state.cleaned \subseteq Done,
         c.mine.cleaned \subseteq Done \cup {i}, c.mine.verified \subseteq Done \cup {i},
         \/ proof' = proof \ {i} /\ left' = left
         \/ proof' = proof /\ left' = left \cup (proof \cap {i}),
         Onward(k, c, i)
  PROVE  ExchangeInv'
<1>1. kind' = kind /\ automated' = automated /\ Parts' = Parts /\ Copy' = Copy
  BY SameOrder DEF Working
<1>2. Done \cup {i} \subseteq Done'
  BY <1>1 DEF Done
<1>3. Grows
  BY <1>1, <1>2 DEF Grows
<1>4. Carried(c)'
  BY <1>1, <1>2 DEF Carried
<1>5. PICK d : call' = [call EXCEPT ![k] = d] /\ Sound(d)'
  BY <1>1, <1>4, OnwardSound
<1>6. /\ asked' \in SUBSET Parts /\ caOrder' \in {"open", "processing", "valid"} /\ faults' \in 0 .. MaxFaults
      /\ left' \in SUBSET Parts /\ proof' \subseteq proof /\ authz' = authz
      /\ \A j \in proof : authz[j] # "valid" => j \in proof'
  BY DEF ExchangeInv, ExchangeTypeOK
<1>7. RowSound'
  BY <1>3, RowKept DEF ExchangeInv
<1>. QED
  BY <1>3, <1>5, <1>6, <1>7, CallStep

LEMMA CleanUpInv ==
  ASSUME ExchangeInv, Marked, NEW k \in Calls, CleanUp(k) \/ CleanUpFails(k) PROVE ExchangeInv'
<1> DEFINE i == call[k].part
           c == CleanedUp(call[k], i)
<1>1. /\ call[k] \in Copy /\ i \in Parts /\ authz[i] = "valid" /\ call[k].at = "clean up"
      /\ call[k].mine.status = "awaiting_validation" /\ call[k].state.cleaned \subseteq Done
      /\ call[k].mine.cleaned \subseteq Done /\ call[k].mine.verified \subseteq Done \cup {i}
  BY DEF CleanUp, CleanUpFails, At, ExchangeInv, Sound, Copy
<1>2. /\ c \in Copy /\ c.mine.status = "awaiting_validation" /\ c.state.cleaned \subseteq Done
      /\ c.mine.cleaned \subseteq Done \cup {i} /\ c.mine.verified \subseteq Done \cup {i}
  BY <1>1, CleanedUpCopy
<1>3. Working /\ UNCHANGED <<row, authz, asked, caOrder, faults>> /\ Onward(k, c, i)
  BY DEF CleanUp, CleanUpFails, caVars
<1>4. \/ proof' = proof \ {i} /\ left' = left
      \/ proof' = proof /\ left' = left \cup (proof \cap {i})
  BY DEF CleanUp, CleanUpFails
<1>. QED
  BY <1>1, <1>2, <1>3, <1>4, RecordGone

\* After an answer about part i: accepted and nothing to remove, turned down, or not known yet.
LEMMA AnswerInv ==
  ASSUME ExchangeInv, Marked, NEW k \in Calls, call[k].at = "poll", NEW i \in Parts,
         Working, UNCHANGED <<row, caVars, proof, faults, left>>,
         \/ i \in Done /\ Onward(k, Verify(call[k], i), i)
         \/ Onward(k, Deny(call[k], i), i)
         \/ Onward(k, call[k], i)
  PROVE  ExchangeInv'
<1>1. Carried(call[k])
  BY Between
<1>2. i \in Done => Carried(Verify(call[k], i))
  BY <1>1, VerifyCopy DEF Carried
<1>3. Carried(Deny(call[k], i))
  BY <1>1, DenyCopy DEF Carried
<1>. QED
  BY <1>1, <1>2, <1>3, OnwardStep DEF caVars

LEMMA PollInv ==
  ASSUME ExchangeInv, Marked, NEW k \in Calls, Poll(k) PROVE ExchangeInv'
<1> DEFINE c == call[k]
           i == call[k].part
           tidy == automated /\ i \notin c.mine.cleaned
           v == Verify(c, i)
           d == [v EXCEPT !.at = "clean up"]
<1>1. /\ Carried(c) /\ c \in Copy /\ i \in Parts /\ c.at = "poll"
      /\ Working /\ UNCHANGED <<row, caVars, proof, faults>>
  BY Between DEF Poll, At, Carried, Copy
<1>2. CASE authz[i] # "valid"
  <2>1. left' = left /\ (Onward(k, Deny(c, i), i) \/ Onward(k, c, i))
    BY <1>2 DEF Poll
  <2>. QED
    BY <1>1, <2>1, AnswerInv
<1>3. CASE authz[i] = "valid" /\ tidy /\ c.dns
  <2>1. left' = left /\ call' = [call EXCEPT ![k] = d]
    BY <1>3 DEF Poll, Set
  <2>2. v \in Copy /\ v.part = i /\ v.state = c.state /\ v.mine.status = c.mine.status
        /\ v.mine.verified = c.mine.verified \cup {i} /\ v.mine.cleaned = c.mine.cleaned
    BY <1>1, VerifyCopy
  <2>3. d \in Copy /\ d.part = i /\ d.state = c.state /\ d.mine = v.mine /\ d.at = "clean up"
    <3> HIDE DEF v
    <3>. QED
      BY <2>2 DEF Copy
  <2>4. Sound(d)
    BY <1>1, <1>3, <2>2, <2>3 DEF Sound, Carried
  <2>5. asked' \in SUBSET Parts /\ caOrder' \in {"open", "processing", "valid"}
    BY <1>1 DEF ExchangeInv, ExchangeTypeOK, caVars
  <2>6. RowSound'
    BY <1>1, <2>1, QuietRow DEF caVars
  <2>. QED
    BY <1>1, <2>1, <2>4, <2>5, <2>6, HeldStep DEF caVars
<1>4. CASE authz[i] = "valid" /\ tidy /\ ~ c.dns
  <2>1. left' = left \cup (proof \cap {i}) /\ Onward(k, v, i)
    BY <1>4 DEF Poll
  <2>2. v \in Copy /\ v.state = c.state /\ v.mine.status = c.mine.status
        /\ v.mine.verified = c.mine.verified \cup {i} /\ v.mine.cleaned = c.mine.cleaned
    BY <1>1, VerifyCopy
  <2>3. /\ v.mine.status = "awaiting_validation" /\ v.state.cleaned \subseteq Done
        /\ v.mine.cleaned \subseteq Done \cup {i} /\ v.mine.verified \subseteq Done \cup {i}
    BY <1>1, <2>2 DEF Carried
  <2>. QED
    BY <1>1, <1>4, <2>1, <2>2, <2>3, RecordGone DEF caVars
<1>5. CASE authz[i] = "valid" /\ ~ tidy
  <2>1. left' = left /\ Onward(k, v, i)
    BY <1>5 DEF Poll
  <2>2. i \in Done
    BY <1>1, <1>5 DEF Carried, Done
  <2>. QED
    BY <1>1, <2>1, <2>2, AnswerInv
<1>. QED
  BY <1>2, <1>3, <1>4, <1>5

LEMMA CheckInv ==
  ASSUME ExchangeInv, Marked, NEW k \in Calls, CheckDraft(k) \/ CheckEnrolment(k) PROVE ExchangeInv'
<1>1. kind # "letsencrypt" /\ CheckStatus(k)
  BY DEF CheckDraft, CheckEnrolment
<1>2. 1 \in Parts /\ ~ automated
  BY <1>1, HowMany DEF ExchangeInv, ExchangeTypeOK
<1>3. authz[1] = "valid" => 1 \in Done
  BY <1>2 DEF Done
<1>4. \/ authz[1] = "valid" /\ Onward(k, Verify(call[k], 1), 1)
      \/ Onward(k, Deny(call[k], 1), 1)
      \/ Onward(k, call[k], 1)
  BY <1>1 DEF CheckStatus
<1>. QED
  BY <1>1, <1>2, <1>3, <1>4, AnswerInv DEF CheckStatus, At

\* The rows that calls write.
LEMMA RowForms ==
  ASSUME NEW r \in Row
  PROVE  \A status \in {"issuing", "issued", "failed"} :
           LET w == [r EXCEPT !.status = status] IN
             w \in Row /\ w.status = status /\ w.verified = r.verified /\ w.cleaned = r.cleaned
BY DEF Row

LEMMA RowAsFound ==
  ASSUME NEW r \in Row, NEW state \in [triggered: SUBSET Parts, cleaned: SUBSET Parts]
  PROVE  /\ AsFound(r, state) \in Row /\ AsFound(r, state).status = r.status
         /\ AsFound(r, state).verified = r.verified /\ AsFound(r, state).cleaned = state.cleaned
BY DEF Row, AsFound

\* A row that is written from a true copy is true.
LEMMA WrittenRow ==
  ASSUME NEW k \in Calls, Carried(call[k]), UNCHANGED <<kind, automated, authz, proof, left>>,
         NEW r \in Row, row' = r, r.verified = call[k].mine.verified, r.cleaned \subseteq Done,
         r.status = "issued" => r.verified = Parts
  PROVE  RowSound'
<1>1. Done' = Done /\ Row' = Row /\ Parts' = Parts
  BY Quiet, SameOrder
<1>. QED
  BY <1>1 DEF Carried, RowSound

\* A call returns, with a row it wrote or without.
LEMMA ReturnStep ==
  ASSUME ExchangeInv, Marked, NEW k \in Calls, Return(k), Working, UNCHANGED <<caVars, proof, left>>,
         RowSound', Fault \/ faults' = faults
  PROVE  ExchangeInv'
<1>1. call' = [call EXCEPT ![k] = Idle]
  BY DEF Return, Set
<1>2. asked' \in SUBSET Parts /\ caOrder' \in {"open", "processing", "valid"}
  BY DEF ExchangeInv, ExchangeTypeOK, caVars
<1>. QED
  BY <1>1, <1>2, IdleSound, HeldStep DEF caVars

LEMMA WriteInv ==
  ASSUME ExchangeInv, Marked, NEW k \in Calls,
         WriteBack(k) \/ Reject(k) \/ NotYet(k) \/ IssueFails(k) \/ Complete(k)
  PROVE  ExchangeInv'
<1> DEFINE c == call[k]
<1>1. /\ Carried(c) /\ c.mine \in Row /\ c.mine.status = "awaiting_validation"
      /\ c.mine.cleaned \subseteq Done /\ c.state.cleaned \subseteq Done
      /\ c.state \in [triggered: SUBSET Parts, cleaned: SUBSET Parts]
      /\ c.at = "store" => c.mine.verified = Parts
  BY Between DEF WriteBack, Reject, NotYet, IssueFails, Complete, Write, At, Carried, Copy, ExchangeInv, Sound
<1>2. Return(k) /\ Working /\ UNCHANGED <<caVars, proof, left>> /\ (Fault \/ faults' = faults)
  BY DEF WriteBack, Reject, NotYet, IssueFails, Complete, Write
<1>3. UNCHANGED <<kind, automated, authz, proof, left>>
  BY <1>2 DEF Working, caVars
<1>4. CASE WriteBack(k)
  <2> DEFINE r == AsFound(c.mine, c.state)
  <2>1. r \in Row /\ r.verified = c.mine.verified /\ r.cleaned = c.state.cleaned /\ r.status = c.mine.status
    BY <1>1, RowAsFound
  <2>2. row' = r
    BY <1>4 DEF WriteBack, Write
  <2>3. RowSound'
    BY <1>1, <1>3, <2>1, <2>2, WrittenRow
  <2>. QED
    BY <1>2, <2>3, ReturnStep
<1>5. CASE Reject(k) \/ IssueFails(k)
  <2> DEFINE r == [c.mine EXCEPT !.status = "failed"]
  <2>1. r \in Row /\ r.verified = c.mine.verified /\ r.cleaned = c.mine.cleaned /\ r.status # "issued"
    BY <1>1, RowForms
  <2>2. row' = r
    BY <1>5 DEF Reject, IssueFails, Write
  <2>3. RowSound'
    BY <1>1, <1>3, <2>1, <2>2, WrittenRow
  <2>. QED
    BY <1>2, <2>3, ReturnStep
<1>6. CASE NotYet(k)
  <2>1. row' = c.mine
    BY <1>6 DEF NotYet, Write
  <2>. QED
    BY <1>1, <1>2, <1>3, <2>1, WrittenRow, ReturnStep
<1>7. CASE Complete(k)
  <2> DEFINE r == [c.mine EXCEPT !.status = "issued"]
  <2>1. r \in Row /\ r.verified = c.mine.verified /\ r.cleaned = c.mine.cleaned /\ r.verified = Parts
    BY <1>1, <1>7, RowForms DEF Complete, At
  <2>2. row' = r
    BY <1>7 DEF Complete, Write
  <2>3. RowSound'
    BY <1>1, <1>3, <2>1, <2>2, WrittenRow
  <2>. QED
    BY <1>2, <2>3, ReturnStep
<1>. QED
  BY <1>4, <1>5, <1>6, <1>7

LEMMA AbandonInv ==
  ASSUME ExchangeInv, Marked, NEW k \in Calls, Abandon(k) PROVE ExchangeInv'
<1>1. RowSound'
  BY QuietRow DEF Abandon, caVars
<1>. QED
  BY <1>1, ReturnStep DEF Abandon

\* The claim, and what follows up to the certificate.
LEMMA ClaimInv ==
  ASSUME ExchangeInv, Marked, NEW k \in Calls, Claim(k) PROVE ExchangeInv'
<1> DEFINE c == call[k]
           d == [c EXCEPT !.at = "submit"]
           r == [c.mine EXCEPT !.status = "issuing"]
<1>1. Carried(c) /\ c \in Copy /\ c.mine \in Row /\ c.mine.verified = Parts
  BY Between DEF Claim, At, Carried, Copy
<1>2. Working /\ UNCHANGED <<caVars, proof, faults, left>> /\ UNCHANGED <<kind, automated, authz>>
  BY DEF Claim, Working, caVars
<1>3. CASE Return(k) /\ row' = row
  <2>1. RowSound'
    BY <1>2, <1>3, QuietRow
  <2>. QED
    BY <1>2, <1>3, <2>1, ReturnStep
<1>4. CASE call' = [call EXCEPT ![k] = d] /\ row' = r
  <2>1. r \in Row /\ r.verified = c.mine.verified /\ r.cleaned = c.mine.cleaned /\ r.status # "issued"
    BY <1>1, RowForms
  <2>2. RowSound'
    BY <1>1, <1>2, <1>4, <2>1, WrittenRow DEF Carried
  <2>3. d \in Copy /\ d.at = "submit" /\ d.mine = c.mine /\ d.state = c.state
    BY <1>1 DEF Copy
  <2>4. Sound(d)
    BY <1>1, <2>3 DEF Carried, Sound
  <2>5. asked' \in SUBSET Parts /\ caOrder' \in {"open", "processing", "valid"}
    BY <1>2 DEF ExchangeInv, ExchangeTypeOK, caVars
  <2>. QED
    BY <1>2, <1>4, <2>2, <2>4, <2>5, HeldStep
<1>. QED
  BY <1>3, <1>4 DEF Claim, Set

LEMMA IssueInv ==
  ASSUME ExchangeInv, Marked, NEW k \in Calls, Submit(k) \/ Download(k) \/ DownloadDraft(k) \/ FetchEnrolled(k)
  PROVE  ExchangeInv'
<1> DEFINE c == call[k]
           d(stage) == [c EXCEPT !.at = stage]
<1>1. /\ Carried(c) /\ c \in Copy /\ c.mine.verified = Parts
      /\ Working /\ UNCHANGED <<row, authz, asked, proof, faults, left>>
  BY Between DEF Submit, Download, DownloadDraft, FetchEnrolled, Got, At, Carried, ExchangeInv, Sound, caVars
<1>2. PICK stage \in {"await", "store"} : call' = [call EXCEPT ![k] = d(stage)]
  BY DEF Submit, Download, DownloadDraft, FetchEnrolled, Got, Set
<1>3. d(stage) \in Copy /\ d(stage).at = stage /\ d(stage).mine = c.mine /\ d(stage).state = c.state
  BY <1>1 DEF Copy
<1>4. Sound(d(stage))
  BY <1>1, <1>3 DEF Carried, Sound
<1>5. asked' \in SUBSET Parts /\ caOrder' \in {"open", "processing", "valid"}
  BY <1>1 DEF ExchangeInv, ExchangeTypeOK, Submit, Download, DownloadDraft, FetchEnrolled, Got, caVars
<1>6. RowSound'
  BY <1>1, QuietRow
<1>. QED
  BY <1>1, <1>2, <1>4, <1>5, <1>6, HeldStep

-----------------------------------------------------------------------------
(* Steps before there are calls, and of the world.                            *)

\* Such a step keeps what calls hold true, if the CA takes nothing back.
LEMMA RestStep ==
  ASSUME ExchangeInv, Marked, UNCHANGED <<kind, automated, call, faults, left>>,
         \A i \in Parts : authz[i] = "valid" => authz'[i] = "valid",
         automated => \A i \in proof' \ proof : authz[i] # "valid",
         RowSound', Published',
         dns' \in BOOLEAN, requested' \in 0 .. Cardinality(Parts), asked' \in SUBSET Parts, proof' \in SUBSET Parts,
         authz' \in [Parts -> {"none", "pending", "valid", "invalid", "expired"}],
         caOrder' \in {"open", "processing", "valid"}
  PROVE  ExchangeInv'
<1>0. Parts' = Parts /\ Copy' = Copy /\ Row' = Row
  BY SameOrder
<1>1. Done \subseteq Done'
  BY <1>0 DEF Done
<1>2. Grows
  BY <1>1 DEF Grows
<1>3. ASSUME NEW x \in Calls PROVE Sound(call[x])'
  <2>1. Sound(call[x]) /\ call'[x] = call[x]
    BY DEF ExchangeInv
  <2>. QED
    BY <1>2, <2>1, SoundLater
<1>4. ExchangeTypeOK'
  <2>1. kind' \in Kinds /\ automated' \in BOOLEAN /\ (automated' => kind' = "letsencrypt")
    BY Zenon DEF ExchangeInv, ExchangeTypeOK
  <2>2. row' \in Row'
    BY DEF RowSound
  <2>3. /\ call' \in [Calls -> Copy'] /\ faults' \in 0 .. MaxFaults /\ left' \in SUBSET Parts'
        /\ requested' \in 0 .. Cardinality(Parts')
    BY <1>0 DEF ExchangeInv, ExchangeTypeOK
  <2>. QED
    BY <1>0, <2>1, <2>2, <2>3 DEF ExchangeTypeOK, Marked
<1>. QED
  BY <1>3, <1>4 DEF ExchangeInv

\* The row, when such a step leaves it alone.
LEMMA RestRow ==
  ASSUME ExchangeInv, UNCHANGED <<kind, automated, left>>,
         row'.status \in {row.status, "awaiting_validation"}, row'.verified = row.verified, row'.cleaned = row.cleaned, row' \in Row,
         \A i \in Parts : authz[i] = "valid" => authz'[i] = "valid",
         automated => \A i \in proof' \ proof : authz[i] # "valid"
  PROVE  RowSound'
<1>0. Parts' = Parts /\ Row' = Row
  BY SameOrder
<1>1. Done \subseteq Done'
  BY <1>0 DEF Done
<1>. QED
  BY <1>0, <1>1 DEF ExchangeInv, RowSound

LEMMA RequestPartInv ==
  ASSUME ExchangeInv, Marked, RequestPart PROVE ExchangeInv'
<1> DEFINE n == requested + 1
<1>1. /\ requested \in Nat /\ requested < Last /\ requested' = n /\ n \in Parts /\ requested' \in 0 .. Cardinality(Parts)
      /\ Parts \subseteq Nat
  BY HowMany, ExchangeAssumption DEF RequestPart, Opening, ExchangeInv, ExchangeTypeOK, Parts
<1>2. authz' = [authz EXCEPT ![n] = "pending"] /\ authz[n] = "none"
  BY <1>1 DEF RequestPart, ExchangeInv, Published
<1>3. authz' \in [Parts -> {"none", "pending", "valid", "invalid", "expired"}]
      /\ \A i \in Parts : IF i = n THEN authz'[i] = "pending" ELSE authz'[i] = authz[i]
  BY <1>1, <1>2 DEF ExchangeInv, ExchangeTypeOK
<1>4. /\ proof \subseteq proof' /\ proof' \subseteq proof \cup {n} /\ proof' \in SUBSET Parts
      /\ automated => proof' = proof \cup {n}
  BY <1>1 DEF RequestPart, ExchangeInv, ExchangeTypeOK
<1>5. /\ UNCHANGED <<kind, automated, dns, call, faults, left, row, asked, caOrder>>
      /\ dns' \in BOOLEAN /\ asked' \in SUBSET Parts /\ caOrder' \in {"open", "processing", "valid"} /\ row' \in Row
  BY DEF RequestPart, Opening, ExchangeInv, ExchangeTypeOK
<1>6. /\ \A i \in Parts : authz[i] = "valid" => authz'[i] = "valid"
      /\ automated => \A i \in proof' \ proof : authz[i] # "valid"
  BY <1>2, <1>3, <1>4
<1>7. RowSound'
  BY <1>5, <1>6, RestRow
<1>8. Published'
  <2>1. Parts' = Parts
    BY <1>5, SameOrder
  <2>. QED
    BY <2>1, <1>1, <1>2, <1>3, <1>4, <1>5 DEF ExchangeInv, Published
<1>. QED
  BY <1>1, <1>3, <1>4, <1>5, <1>6, <1>7, <1>8, RestStep

LEMMA RequestWholeInv ==
  ASSUME ExchangeInv, Marked, RequestDraft \/ RequestEnrolment PROVE ExchangeInv'
<1>1. /\ kind # "letsencrypt" /\ Parts = {1} /\ ~ automated /\ requested = 0 /\ requested' = 1
      /\ Cardinality(Parts) = 1
  BY HowMany DEF RequestDraft, RequestEnrolment, Parts, ExchangeInv, ExchangeTypeOK
<1>2. PICK answer \in {"pending", "valid", "invalid"} : authz' = [authz EXCEPT ![1] = answer]
  BY DEF RequestDraft, RequestEnrolment
<1>3. authz[1] = "none"
  BY <1>1 DEF ExchangeInv, Published
<1>4. authz' \in [Parts -> {"none", "pending", "valid", "invalid", "expired"}]
  BY <1>2 DEF ExchangeInv, ExchangeTypeOK
<1>5. /\ row' \in Row /\ row'.status = row.status /\ row'.verified = row.verified /\ row'.cleaned = row.cleaned
  <2>1. row \in Row
    BY DEF ExchangeInv, ExchangeTypeOK
  <2>2. row' = row \/ \E e \in SUBSET Parts : row' = [row EXCEPT !.error = e]
    BY <1>1 DEF RequestDraft, RequestEnrolment
  <2>. QED
    BY <2>1, <2>2 DEF Row
<1>6. /\ UNCHANGED <<kind, automated, dns, call, faults, left, proof, caOrder>>
      /\ dns' \in BOOLEAN /\ asked' \in SUBSET Parts /\ proof' \in SUBSET Parts /\ caOrder' \in {"open", "processing", "valid"}
  BY <1>1 DEF RequestDraft, RequestEnrolment, Opening, ExchangeInv, ExchangeTypeOK
<1>7. \A i \in Parts : authz[i] = "valid" => authz'[i] = "valid"
  BY <1>1, <1>3
<1>8. RowSound'
  BY <1>1, <1>5, <1>6, <1>7, RestRow
<1>9. Published'
  <2>1. Parts' = Parts
    BY <1>6, SameOrder
  <2>. QED
    BY <2>1, <1>1, <1>6 DEF Published
<1>10. requested' \in 0 .. Cardinality(Parts)
  BY <1>1
<1>. QED
  BY <1>1, <1>4, <1>6, <1>7, <1>8, <1>9, <1>10, RestStep

LEMMA InsertInv ==
  ASSUME ExchangeInv, Marked, InsertOrder PROVE ExchangeInv'
<1>1. row \in Row /\ row' = [row EXCEPT !.status = "awaiting_validation"]
  BY DEF InsertOrder, ExchangeInv, ExchangeTypeOK
<1>2. row' \in Row /\ row'.status = "awaiting_validation" /\ row'.verified = row.verified /\ row'.cleaned = row.cleaned
  BY <1>1 DEF Row
<1>3. /\ UNCHANGED <<kind, automated, dns, call, faults, left, proof, caOrder, requested, authz, asked>>
      /\ dns' \in BOOLEAN /\ asked' \in SUBSET Parts /\ proof' \in SUBSET Parts /\ caOrder' \in {"open", "processing", "valid"}
      /\ requested' \in 0 .. Cardinality(Parts)
      /\ authz' \in [Parts -> {"none", "pending", "valid", "invalid", "expired"}]
  BY DEF InsertOrder, Opening, ExchangeInv, ExchangeTypeOK
<1>4. Parts' = Parts
  BY <1>3, SameOrder
<1>5. RowSound'
  BY <1>2, <1>3, RestRow
<1>6. Published'
  BY <1>3, <1>4 DEF ExchangeInv, Published
<1>. QED
  BY <1>3, <1>5, <1>6, RestStep

\* The world: a proof appears, the automation goes, the CA answers or signs.
LEMMA WorldInv ==
  ASSUME ExchangeInv, Marked,
         \/ \E i \in Parts : Publish(i) \/ CAValidates(i) \/ CARejects(i) \/ CAExpires(i)
         \/ TurnOffDNS
         \/ CASigns
  PROVE  ExchangeInv'
<1>1. UNCHANGED <<kind, automated, requested, row, call, faults, left>> /\ asked' = asked
  BY DEF Publish, CAValidates, CARejects, CAExpires, TurnOffDNS, CASigns, World, caVars
<1>2. /\ dns' \in BOOLEAN /\ asked' \in SUBSET Parts /\ requested' \in 0 .. Cardinality(Parts)
      /\ caOrder' \in {"open", "processing", "valid"} /\ row' \in Row
  BY <1>1 DEF Publish, CAValidates, CARejects, CAExpires, TurnOffDNS, CASigns, caVars, ExchangeInv, ExchangeTypeOK
<1>3. /\ proof \subseteq proof' /\ proof' \in SUBSET Parts
      /\ automated => proof' = proof
  BY DEF Publish, CAValidates, CARejects, CAExpires, TurnOffDNS, CASigns, caVars, ExchangeInv, ExchangeTypeOK
<1>4. \/ authz' = authz
      \/ \E i \in Parts, status \in {"valid", "invalid", "expired"} :
           /\ authz[i] = "pending" /\ authz' = [authz EXCEPT ![i] = status]
           /\ automated => status # "invalid"
  <2>1. CASE \E i \in Parts : CARejects(i)
    <3>1. PICK i \in Parts : CARejects(i)
      BY <2>1
    <3>2. authz[i] = "pending" /\ authz' = [authz EXCEPT ![i] = "invalid"] /\ (kind = "letsencrypt" => i \notin proof)
      BY <3>1 DEF CARejects, Answer
    <3>3. automated => kind = "letsencrypt" /\ i \in proof
      BY <3>2 DEF ExchangeInv, ExchangeTypeOK, Published
    <3>. QED
      BY <3>2, <3>3
  <2>. QED
    BY <2>1 DEF Publish, CAValidates, CAExpires, TurnOffDNS, CASigns, caVars, Answer
<1>5. /\ authz' \in [Parts -> {"none", "pending", "valid", "invalid", "expired"}]
      /\ \A i \in Parts : /\ authz[i] \in {"valid", "none"} => authz'[i] = authz[i]
                          /\ automated /\ authz'[i] = "invalid" => authz[i] = "invalid"
                          /\ authz'[i] # authz[i] => authz[i] = "pending"
  BY <1>4 DEF ExchangeInv, ExchangeTypeOK
<1>6. \A i \in Parts : authz[i] = "valid" => authz'[i] = "valid"
  BY <1>5
<1>7. automated => \A i \in proof' \ proof : authz[i] # "valid"
  BY <1>3
<1>8. RowSound'
  BY <1>1, <1>2, <1>6, <1>7, RestRow
<1>9. Published'
  <2>1. Parts' = Parts
    BY <1>1, SameOrder
  <2>2. ASSUME NEW i \in Parts, i > requested PROVE authz'[i] = "none"
    BY <2>2, <1>5 DEF ExchangeInv, Published
  <2>3. ASSUME automated, NEW i \in Parts, authz'[i] # "none", authz'[i] # "valid"
        PROVE  i \in proof' /\ authz'[i] # "invalid"
    <3>1. authz[i] # "none" /\ authz[i] # "valid"
      BY <2>3, <1>5
    <3>2. i \in proof /\ authz[i] # "invalid"
      BY <2>3, <3>1 DEF ExchangeInv, Published
    <3>. QED
      BY <2>3, <3>2, <1>3, <1>5
  <2>. QED
    BY <2>1, <2>2, <2>3, <1>1 DEF Published
<1>. QED
  BY <1>1, <1>2, <1>3, <1>5, <1>6, <1>7, <1>8, <1>9, RestStep

-----------------------------------------------------------------------------
(* The theorems.                                                              *)

\* The steps of a call that do not write the row when it ends.
Quietly(k) ==
  \/ Get(k) \/ Abandon(k) \/ Trigger(k) \/ TriggerDraft(k) \/ TriggerFails(k) \/ Poll(k)
  \/ CheckDraft(k) \/ CheckEnrolment(k) \/ PollFails(k) \/ CleanUp(k) \/ CleanUpFails(k)
  \/ Claim(k) \/ Submit(k) \/ Download(k) \/ DownloadDraft(k) \/ FetchEnrolled(k)

LEMMA QuietCalls ==
  ASSUME NEW k \in Calls, Quietly(k)
  PROVE  overtaken' = overtaken /\ kind' = kind /\ authz' = authz
<1>1. CASE Get(k)
  BY <1>1, Zenon DEF Get, Working, caVars
<1>2. CASE Abandon(k) \/ Claim(k)
  BY <1>2, Zenon DEF Abandon, Claim, Working, caVars
<1>3. CASE Trigger(k) \/ TriggerDraft(k) \/ TriggerFails(k)
  BY <1>3, Zenon DEF Trigger, TriggerDraft, TriggerFails, Working, caVars
<1>4. CASE Poll(k)
  BY <1>4, Zenon DEF Poll, Working, caVars
<1>5. CASE CheckDraft(k) \/ CheckEnrolment(k) \/ PollFails(k)
  BY <1>5, Zenon DEF CheckDraft, CheckEnrolment, CheckStatus, PollFails, Working, caVars
<1>6. CASE CleanUp(k) \/ CleanUpFails(k)
  BY <1>6, Zenon DEF CleanUp, CleanUpFails, Working, caVars
<1>7. CASE Submit(k) \/ Download(k) \/ DownloadDraft(k) \/ FetchEnrolled(k)
  BY <1>7, Zenon DEF Submit, Download, DownloadDraft, FetchEnrolled, Got, Working, caVars
<1>. QED
  BY <1>1, <1>2, <1>3, <1>4, <1>5, <1>6, <1>7, Zenon DEF Quietly

LEMMA StepMarked ==
  ASSUME ExchangeInv, [ExchangeNext]_exchangeVars PROVE Marked
<1>0. overtaken \subseteq {"order"}
  BY DEF ExchangeInv, ExchangeTypeOK
<1>1. ASSUME NEW k \in Calls, WriteBack(k) \/ Reject(k) \/ NotYet(k) \/ IssueFails(k) \/ Complete(k)
      PROVE  Marked
  <2>1. \E from, r : Write(k, from, r)
    BY <1>1, Zenon DEF WriteBack, Reject, NotYet, IssueFails, Complete
  <2>2. overtaken' = overtaken \/ overtaken' = {"order"}
    BY <2>1, Zenon DEF Write
  <2>. QED
    BY <1>0, <2>2 DEF Marked
<1>2. ASSUME NEW k \in Calls, Get(k) \/ Abandon(k) \/ Work(k) PROVE Marked
  <2>1. \/ WriteBack(k) \/ Reject(k) \/ NotYet(k) \/ IssueFails(k) \/ Complete(k)
        \/ Quietly(k)
    BY <1>2, Zenon DEF Work, Quietly
  <2>. QED
    BY <1>0, <1>1, <2>1, QuietCalls DEF Marked
<1>3. CASE \/ RequestPart \/ RequestDraft \/ RequestEnrolment \/ InsertOrder \/ TurnOffDNS \/ CASigns
           \/ \E i \in Parts : Publish(i) \/ CAValidates(i) \/ CARejects(i) \/ CAExpires(i)
  BY <1>0, <1>3 DEF RequestPart, RequestDraft, RequestEnrolment, InsertOrder, Opening, TurnOffDNS, CASigns,
    Publish, CAValidates, CARejects, CAExpires, World, Marked
<1>. QED
  BY <1>0, <1>2, <1>3 DEF ExchangeNext, exchangeVars, Marked

LEMMA StepInv == ExchangeInv /\ [ExchangeNext]_exchangeVars => ExchangeInv'
<1> SUFFICES ASSUME ExchangeInv, [ExchangeNext]_exchangeVars PROVE ExchangeInv'
  OBVIOUS
<1>0. Marked
  BY StepMarked
<1>1. CASE RequestPart \/ RequestDraft \/ RequestEnrolment \/ InsertOrder
  BY <1>0, <1>1, RequestPartInv, RequestWholeInv, InsertInv
<1>2. ASSUME NEW k \in Calls, Get(k) \/ Work(k) \/ Abandon(k) PROVE ExchangeInv'
  BY <1>0, <1>2, GetInv, TriggerInv, PollInv, CheckInv, CleanUpInv, WriteInv, ClaimInv, IssueInv, AbandonInv DEF Work
<1>3. CASE \/ \E i \in Parts : Publish(i) \/ CAValidates(i) \/ CARejects(i) \/ CAExpires(i)
           \/ TurnOffDNS
           \/ CASigns
  BY <1>0, <1>3, WorldInv
<1>4. CASE UNCHANGED exchangeVars
  <2>1. UNCHANGED <<kind, automated, dns, requested, row, call, authz, asked, proof, caOrder, faults, left, overtaken>>
    BY <1>4 DEF exchangeVars, caVars
  <2>2. Parts' = Parts /\ Done' = Done /\ Copy' = Copy /\ Row' = Row
    BY <2>1, SameOrder, Quiet
  <2>. QED
    BY <2>1, <2>2 DEF ExchangeInv, ExchangeTypeOK, Sound, RowSound, Published
<1>. QED
  BY <1>1, <1>2, <1>3, <1>4 DEF ExchangeNext

LEMMA AlwaysInv == ExchangeSpec => []ExchangeInv
BY InitInv, StepInv, PTL DEF ExchangeSpec

\* The exchange is well typed, for any number of parts, calls and faults.
THEOREM ExchangeTypeCorrect == ExchangeSpec => []ExchangeTypeOK
<1>1. ExchangeInv => ExchangeTypeOK
  BY DEF ExchangeInv
<1>. QED
  BY <1>1, AlwaysInv, PTL

\* No call submits an order (Issue, letsencrypt.go) before the CA has accepted all of it,
\* however checks overlap and wherever they fail.
THEOREM OnlyProvenSubmitted == ExchangeSpec => []SubmittedWhenProven
BY AlwaysInv, InvImplies, PTL

\* A challenge whose record this server publishes is never turned down, for any number of
\* calls that may remove the record.
THEOREM RecordsOutliveChecks == ExchangeSpec => []AutomatedNeverRejected
BY AlwaysInv, InvImplies, PTL

\* An issued order has no record left, but those whose removal failed or found no automation.
THEOREM NoRecordForgotten == ExchangeSpec => []RecordsWithdrawn
BY AlwaysInv, InvImplies, PTL

\* The TXT records this server publishes are there as long as they are needed, and no longer.
THEOREM RecordsServeTheirTime == ExchangeSpec => []RecordsServe
BY RecordsOutliveChecks, NoRecordForgotten, PTL DEF RecordsServe

-----------------------------------------------------------------------------
(* Where the row, the calls and the authority stand with each other.          *)

Closed == {"issuing", "issued", "failed"}

\* A call is about an order that has been opened; past the claim the order stays closed, unless
\* it is overtaken, and the authority has what the call waits for or downloads.
Placed(c) ==
  /\ c.at # "idle" => row.status # "none"
  /\ c.at = "trigger" => kind # "adcs"
  /\ c.at \in {"submit", "await", "store"} => row.status \in Closed \/ "order" \in overtaken
  /\ c.at = "await" => caOrder # "open"
  /\ c.at = "store" => Signed

\* An order that has been opened has been requested in full.
RequestedInv ==
  /\ \A i \in Parts : i <= requested => authz[i] # "none"
  /\ row.status # "none" => requested = Cardinality(Parts)

PlacedInv ==
  /\ ExchangeInv
  /\ \A k \in Calls : Placed(call[k])
  /\ RequestedInv

\* Nothing is taken back: orders stay opened, closed or overtaken, and submissions and
\* certificates stay with the authority.
Onwards ==
  /\ kind' = kind
  /\ row.status # "none" => row'.status # "none"
  /\ row.status \in Closed \/ "order" \in overtaken => row'.status \in Closed \/ "order" \in overtaken'
  /\ caOrder # "open" => caOrder' # "open"
  /\ Signed => Signed'

\* Each stage a call goes on to.
LEMMA OnwardTo ==
  ASSUME ExchangeInv, NEW k \in Calls, NEW c, c \in Copy, NEW i \in Int, Onward(k, c, i)
  PROVE  \/ call'[k].at = "decide"
         \/ /\ call'[k].at \in {"trigger", "poll"} /\ (call'[k].at = "trigger" => kind # "adcs")
            /\ call'[k].part \in Parts /\ call'[k].part > i
<1> DEFINE todo == {j \in Parts : j > i /\ (kind = "letsencrypt" => j \notin c.mine.verified)}
<1>0. call \in [Calls -> Copy]
  BY DEF ExchangeInv, ExchangeTypeOK
<1>1. CASE \E j \in todo : Set(k, [c EXCEPT !.part = j,
                                   !.at = IF kind = "adcs" \/ j \in c.mine.triggered THEN "poll" ELSE "trigger"])
  <2>1. PICK j \in todo : Set(k, [c EXCEPT !.part = j,
                                 !.at = IF kind = "adcs" \/ j \in c.mine.triggered THEN "poll" ELSE "trigger"])
    BY <1>1
  <2>2. PICK stage \in {"trigger", "poll"} : /\ call' = [call EXCEPT ![k] = [c EXCEPT !.part = j, !.at = stage]]
                                             /\ stage = "trigger" => kind # "adcs"
    BY <2>1 DEF Set
  <2>3. call'[k] = [c EXCEPT !.part = j, !.at = stage]
    BY <1>0, <2>2
  <2>4. call'[k].at = stage /\ call'[k].part = j
    BY <2>3 DEF Copy
  <2>. QED
    BY <2>1, <2>2, <2>4
<1>2. CASE Set(k, [c EXCEPT !.at = "decide", !.part = 1, !.state = Forgotten])
  <2>1. call'[k] = [c EXCEPT !.at = "decide", !.part = 1, !.state = Forgotten]
    BY <1>0, <1>2 DEF Set
  <2>. QED
    BY <2>1 DEF Copy
<1>. QED
  BY <1>1, <1>2 DEF Onward

\* Only call k changes what it holds when it goes on.
LEMMA OnwardAlone ==
  ASSUME ExchangeInv, NEW k \in Calls, NEW c, NEW i, Onward(k, c, i)
  PROVE  \A x \in Calls \ {k} : call'[x] = call[x]
<1>1. call \in [Calls -> Copy]
  BY DEF ExchangeInv, ExchangeTypeOK
<1>2. \E d : call' = [call EXCEPT ![k] = d]
  BY DEF Onward, Set
<1>. QED
  BY <1>1, <1>2

\* The stages a call goes through.
NextPart(k, i) ==
  \/ call'[k].at = "decide"
  \/ /\ call'[k].at \in {"trigger", "poll"} /\ (call'[k].at = "trigger" => kind # "adcs")
     /\ call'[k].part \in Parts /\ call'[k].part > i

Advances(k) ==
  \/ call[k].at # "idle" /\ call'[k] = Idle
  \/ call[k].at = "idle" /\ row.status # "none" /\ row' = row /\ NextPart(k, 0)
  \/ call[k].at \in {"poll", "clean up"} /\ NextPart(k, call[k].part)
  \/ call[k].at = "trigger" /\ call'[k].at = "poll" /\ call'[k].part = call[k].part
  \/ call[k].at = "poll" /\ call'[k].at = "clean up" /\ call'[k].part = call[k].part
  \/ call[k].at \in {"trigger", "poll"} /\ call'[k].at = "give up"
  \/ call[k].at = "decide" /\ call'[k].at = "submit" /\ row'.status = "issuing"
  \/ call[k].at = "submit" /\ call'[k].at = "await" /\ caOrder' # "open"
  \/ call[k].at \in {"submit", "await"} /\ call'[k].at = "store" /\ Signed

\* One call at a time takes a step, and goes on from stage to stage.
CallMoves(k) == Advances(k) /\ \A x \in Calls \ {k} : call'[x] = call[x]

LEMMA SetCall ==
  ASSUME ExchangeInv, NEW k \in Calls, NEW d, Set(k, d)
  PROVE  call'[k] = d /\ \A x \in Calls \ {k} : call'[x] = call[x]
BY DEF ExchangeInv, ExchangeTypeOK, Set

LEMMA OnwardMoves ==
  ASSUME ExchangeInv, NEW k \in Calls, NEW c \in Copy, NEW i \in Int, Onward(k, c, i),
         \/ call[k].at = "idle" /\ row.status # "none" /\ row' = row /\ i = 0
         \/ call[k].at \in {"poll", "clean up"} /\ i = call[k].part
  PROVE  CallMoves(k)
<1>1. NextPart(k, i)
  BY OnwardTo DEF NextPart
<1>. QED
  BY <1>1, OnwardAlone DEF CallMoves, Advances

LEMMA LookingMoves ==
  ASSUME ExchangeInv, NEW k \in Calls,
         \/ Get(k) \/ Poll(k) \/ CheckDraft(k) \/ CheckEnrolment(k) \/ CleanUp(k) \/ CleanUpFails(k)
  PROVE  CallMoves(k)
<1> DEFINE c == call[k]
           i == call[k].part
<1>1. c \in Copy /\ i \in Parts /\ i \in Int
  <2>1. c \in Copy
    BY DEF ExchangeInv, Sound
  <2>2. i \in Parts
    BY <2>1 DEF Copy
  <2>3. \A j \in Parts : j \in Int
    BY HowMany
  <2>. QED
    BY <2>1, <2>2, <2>3, Zenon
<1>2. CASE Get(k)
  <2>1. row \in Row /\ dns \in BOOLEAN
    BY DEF ExchangeInv, ExchangeTypeOK
  <2>2. Idle \in Copy
    BY IdleSound DEF Sound
  <2>3. [Idle EXCEPT !.mine = row, !.state = [triggered |-> row.triggered, cleaned |-> row.cleaned], !.dns = dns] \in Copy
    BY <2>1, <2>2 DEF Copy, Row
  <2>4. call[k].at = "idle" /\ row.status # "none" /\ row' = row
    BY <1>2 DEF Get, At
  <2>5. Onward(k, [Idle EXCEPT !.mine = row, !.state = [triggered |-> row.triggered, cleaned |-> row.cleaned], !.dns = dns], 0)
    BY <1>2, Zenon DEF Get
  <2>6. 0 \in Int
    OBVIOUS
  <2>. QED
    BY <2>3, <2>4, <2>5, <2>6, OnwardMoves
<1>3. CASE CleanUp(k) \/ CleanUpFails(k)
  <2>1. CleanedUp(c, i) \in Copy
    BY <1>1, CleanedUpCopy
  <2>2. call[k].at = "clean up" /\ Onward(k, CleanedUp(c, i), i)
    BY <1>3 DEF CleanUp, CleanUpFails, At
  <2>. QED
    BY <1>1, <2>1, <2>2, OnwardMoves
<1>4. CASE Poll(k) \/ CheckDraft(k) \/ CheckEnrolment(k)
  <2>0. call[k].at = "poll"
    BY <1>4 DEF Poll, CheckDraft, CheckEnrolment, CheckStatus, At
  <2>1. Verify(c, i) \in Copy /\ Deny(c, i) \in Copy /\ Verify(c, 1) \in Copy /\ Deny(c, 1) \in Copy
    BY <1>1, HowMany, VerifyCopy, DenyCopy
  <2>2. CASE \E d \in Copy : Onward(k, d, i)
    BY <1>1, <2>0, <2>2, OnwardMoves
  <2>3. CASE Poll(k)
    <3>1. CASE Set(k, [Verify(c, i) EXCEPT !.at = "clean up"])
      <4>1. call'[k] = [Verify(c, i) EXCEPT !.at = "clean up"] /\ \A x \in Calls \ {k} : call'[x] = call[x]
        BY <3>1, SetCall
      <4>2. Verify(c, i).part = i
        BY <1>1, VerifyCopy
      <4>3. call'[k].at = "clean up" /\ call'[k].part = i
        BY <4>1, <4>2, <2>1 DEF Copy
      <4>. QED
        BY <2>0, <4>1, <4>3 DEF CallMoves, Advances
    <3>2. \/ Set(k, [Verify(c, i) EXCEPT !.at = "clean up"])
          \/ Onward(k, Verify(c, i), i) \/ Onward(k, Deny(c, i), i) \/ Onward(k, c, i)
      BY <2>3 DEF Poll
    <3>. QED
      BY <1>1, <2>1, <2>2, <3>1, <3>2
  <2>4. CASE CheckDraft(k) \/ CheckEnrolment(k)
    <3>1. kind # "letsencrypt"
      BY <2>4 DEF CheckDraft, CheckEnrolment
    <3>2. i = 1
      BY <1>1, <3>1 DEF Parts
    <3>3. Onward(k, Verify(c, 1), 1) \/ Onward(k, Deny(c, 1), 1) \/ Onward(k, c, 1)
      BY <2>4 DEF CheckDraft, CheckEnrolment, CheckStatus
    <3>. QED
      BY <1>1, <2>1, <2>2, <3>2, <3>3
  <2>. QED
    BY <1>4, <2>3, <2>4
<1>. QED
  BY <1>2, <1>3, <1>4

LEMMA CallStepMoves ==
  ASSUME ExchangeInv, NEW k \in Calls, Get(k) \/ Work(k) \/ Abandon(k)
  PROVE  CallMoves(k)
<1>0. call[k] \in Copy
  BY DEF ExchangeInv, Sound
<1>1. ASSUME call[k].at # "idle", Return(k) PROVE CallMoves(k)
  BY <1>1, SetCall DEF Return, CallMoves, Advances
<1>2. ASSUME NEW stage, Set(k, [call[k] EXCEPT !.at = stage])
      PROVE  call'[k].at = stage /\ \A x \in Calls \ {k} : call'[x] = call[x]
  <2>1. call'[k] = [call[k] EXCEPT !.at = stage] /\ \A x \in Calls \ {k} : call'[x] = call[x]
    BY <1>2, SetCall
  <2>. QED
    BY <1>0, <2>1 DEF Copy
<1>3. CASE WriteBack(k) \/ Reject(k) \/ NotYet(k) \/ IssueFails(k) \/ Complete(k) \/ Abandon(k)
  <2>1. call[k].at # "idle" /\ Return(k)
    BY <1>3 DEF WriteBack, Reject, NotYet, IssueFails, Complete, Abandon, Write, At
  <2>. QED
    BY <1>1, <2>1
<1>4. CASE Trigger(k) \/ TriggerDraft(k) \/ TriggerFails(k) \/ PollFails(k)
  <2>1. call[k].at \in {"trigger", "poll"} /\ (call[k].at = "poll" => GiveUp(k)) /\ (GiveUp(k) \/ Ask(k))
    BY <1>4 DEF Trigger, TriggerDraft, TriggerFails, PollFails, At
  <2>2. CASE GiveUp(k)
    BY <1>2, <2>1, <2>2 DEF GiveUp, CallMoves, Advances
  <2>3. CASE Ask(k)
    <3>1. /\ call'[k] = [call[k] EXCEPT !.mine.triggered = @ \cup {call[k].part}, !.at = "poll"]
          /\ \A x \in Calls \ {k} : call'[x] = call[x]
      BY <2>3, SetCall DEF Ask
    <3>2. call'[k].at = "poll" /\ call'[k].part = call[k].part
      BY <1>0, <3>1 DEF Copy, Row
    <3>. QED
      BY <1>2, <2>1, <3>1, <3>2 DEF CallMoves, Advances, GiveUp
  <2>. QED
    BY <2>1, <2>2, <2>3
<1>5. CASE Claim(k)
  <2>1. CASE Return(k)
    BY <1>1, <1>5, <2>1 DEF Claim, At
  <2>2. CASE row' = [call[k].mine EXCEPT !.status = "issuing"] /\ Set(k, [call[k] EXCEPT !.at = "submit"])
    <3>1. row'.status = "issuing"
      BY <1>0, <2>2 DEF Copy, Row
    <3>. QED
      BY <1>2, <1>5, <2>2, <3>1 DEF Claim, At, CallMoves, Advances
  <2>. QED
    BY <1>5, <2>1, <2>2 DEF Claim
<1>6. CASE Submit(k)
  BY <1>2, <1>6 DEF Submit, At, CallMoves, Advances
<1>7. CASE Download(k) \/ DownloadDraft(k) \/ FetchEnrolled(k)
  <2>1. call[k].at \in {"submit", "await"} /\ Set(k, [call[k] EXCEPT !.at = "store"])
    BY <1>7 DEF Download, DownloadDraft, FetchEnrolled, Got, At
  <2>2. Signed
    <3>1. CASE Download(k)
      <4>1. caOrder = "valid" /\ call[k].mine.verified = Parts
        BY <3>1 DEF Download, At, ExchangeInv, Sound
      <4>2. authz[1] = "valid"
        BY <3>1, <4>1, HowMany DEF Download, At, ExchangeInv, Sound, Done
      <4>. QED
        BY <4>1, <4>2 DEF Signed
    <3>. QED
      BY <1>7, <3>1 DEF DownloadDraft, FetchEnrolled, Signed
  <2>. QED
    BY <1>2, <2>1, <2>2 DEF CallMoves, Advances
<1>8. CASE Get(k) \/ Poll(k) \/ CheckDraft(k) \/ CheckEnrolment(k) \/ CleanUp(k) \/ CleanUpFails(k)
  BY <1>8, LookingMoves
<1>. QED
  BY <1>3, <1>4, <1>5, <1>6, <1>7, <1>8, Zenon DEF Work

-----------------------------------------------------------------------------
(* The order's row and its authority only move on.                            *)

\* What calls do to the row, and to what the authority has of the order.
LEMMA CallsOnward ==
  ASSUME ExchangeInv, NEW k \in Calls, Get(k) \/ Work(k) \/ Abandon(k), Placed(call[k])
  PROVE  Onwards /\ requested' = requested /\ authz' = authz /\ (Signed' = Signed)
<1>0. call[k] \in Copy /\ call[k].mine \in Row /\ (call[k].at # "idle" => call[k].mine.status = "awaiting_validation")
  BY DEF ExchangeInv, Sound, Copy
<1>1. ASSUME NEW from \in {"awaiting_validation", "issuing"}, NEW r, Write(k, from, r), caOrder' = caOrder, authz' = authz,
             row.status # "none", r.status # "none",
             r.status \in Closed \/ from = "awaiting_validation"
      PROVE  Onwards /\ requested' = requested /\ authz' = authz /\ (Signed' = Signed)
  <2>1. row' = r /\ overtaken' = (IF row.status = from THEN overtaken ELSE {"order"}) /\ kind' = kind /\ requested' = requested
    BY <1>1, Zenon DEF Write, Working
  <2>2. Signed' = Signed
    BY <1>1, <2>1 DEF Signed
  <2>3. r.status \in Closed \/ "order" \in overtaken'
        \/ (row.status \notin Closed /\ "order" \notin overtaken)
    BY <1>1, <2>1 DEF Closed
  <2>. QED
    BY <1>1, <2>1, <2>2, <2>3 DEF Onwards
<1>2. CASE WriteBack(k) \/ Reject(k) \/ NotYet(k)
  <2>1. PICK r : /\ Write(k, "awaiting_validation", r) /\ caOrder' = caOrder /\ authz' = authz /\ row.status # "none"
                 /\ r \in {AsFound(call[k].mine, call[k].state), [call[k].mine EXCEPT !.status = "failed"], call[k].mine}
    BY <1>2 DEF WriteBack, Reject, NotYet, At, caVars, Placed
  <2>2. r.status # "none"
    <3>1. call[k].mine.status = "awaiting_validation"
      BY <1>0, <1>2 DEF WriteBack, Reject, NotYet, At
    <3>. QED
      BY <1>0, <2>1, <3>1 DEF Row, AsFound
  <2>. QED
    BY <1>1, <2>1, <2>2
<1>3. CASE IssueFails(k) \/ Complete(k)
  <2>1. PICK r : /\ Write(k, "issuing", r) /\ caOrder' = caOrder /\ authz' = authz /\ row.status # "none"
                 /\ \E s \in {"failed", "issued"} : r = [call[k].mine EXCEPT !.status = s]
    BY <1>3 DEF IssueFails, Complete, At, caVars, Placed
  <2>2. r.status \in {"failed", "issued"}
    BY <1>0, <2>1 DEF Row
  <2>. QED
    BY <1>1, <2>1, <2>2 DEF Closed
<1>4. CASE Claim(k)
  <2>1. /\ row' = row \/ row' = [call[k].mine EXCEPT !.status = "issuing"]
        /\ UNCHANGED <<kind, requested, authz, caOrder, overtaken>>
    BY <1>4 DEF Claim, Working, caVars
  <2>2. row' = row \/ row'.status = "issuing"
    BY <1>0, <2>1 DEF Row
  <2>. QED
    BY <2>1, <2>2 DEF Onwards, Closed, Signed
<1>5. CASE Submit(k)
  BY <1>5 DEF Submit, Ready, Working, Onwards, Signed
<1>6. ASSUME UNCHANGED <<row, kind, requested, authz, caOrder, overtaken>>
      PROVE  Onwards /\ requested' = requested /\ authz' = authz /\ (Signed' = Signed)
  <2>1. Signed' = Signed
    BY <1>6 DEF Signed
  <2>. QED
    BY <1>6, <2>1 DEF Onwards
<1>7. CASE Get(k) \/ Abandon(k) \/ TriggerFails(k) \/ PollFails(k) \/ Trigger(k) \/ TriggerDraft(k)
  BY <1>6, <1>7, Zenon DEF Get, Abandon, TriggerFails, PollFails, Trigger, TriggerDraft, Working, caVars
<1>8. CASE Poll(k) \/ CheckDraft(k) \/ CheckEnrolment(k) \/ CleanUp(k) \/ CleanUpFails(k)
  BY <1>6, <1>8, Zenon DEF Poll, CheckDraft, CheckEnrolment, CheckStatus, CleanUp, CleanUpFails, Working, caVars
<1>9. CASE Download(k) \/ DownloadDraft(k) \/ FetchEnrolled(k)
  BY <1>6, <1>9, Zenon DEF Download, DownloadDraft, FetchEnrolled, Got, Working, caVars
<1>. QED
  BY <1>2, <1>3, <1>4, <1>5, <1>7, <1>8, <1>9, Zenon DEF Work

\* The steps around the calls, which leave the calls alone.
Around ==
  \/ RequestPart
  \/ RequestDraft
  \/ RequestEnrolment
  \/ InsertOrder
  \/ \E i \in Parts : Publish(i) \/ CAValidates(i) \/ CARejects(i) \/ CAExpires(i)
  \/ TurnOffDNS
  \/ CASigns

\* What such a step does: the order is requested, part by part; it is opened, once requested;
\* or the authority answers or signs.
Requests ==
  /\ row.status = "none" /\ row'.status = "none" /\ caOrder' = caOrder /\ requested' = requested + 1
  /\ authz' \in [Parts -> {"none", "pending", "valid", "invalid", "expired"}]
  /\ authz'[requested'] # "none" /\ requested' \in Parts
  /\ \A i \in Parts \ {requested'} : authz'[i] = authz[i]
Opens ==
  /\ row.status = "none" /\ row'.status = "awaiting_validation" /\ requested = Cardinality(Parts)
  /\ UNCHANGED <<requested, authz, caOrder>>
Answers ==
  /\ row' = row /\ requested' = requested
  /\ caOrder' = caOrder \/ (caOrder = "processing" /\ caOrder' = "valid")
  /\ authz' \in [Parts -> {"none", "pending", "valid", "invalid", "expired"}]
  /\ \A i \in Parts : authz'[i] = authz[i] \/ (authz[i] = "pending" /\ authz'[i] # "none")

LEMMA AroundForms ==
  ASSUME ExchangeInv, Around
  PROVE  UNCHANGED <<kind, call, overtaken>> /\ (Requests \/ Opens \/ Answers)
<1>0. /\ row \in Row /\ authz \in [Parts -> {"none", "pending", "valid", "invalid", "expired"}]
      /\ requested \in Nat
  BY HowMany, ExchangeAssumption DEF ExchangeInv, ExchangeTypeOK
<1>1. UNCHANGED <<kind, call, overtaken>>
  BY Zenon DEF Around, RequestPart, RequestDraft, RequestEnrolment, InsertOrder, Opening, Publish, CAValidates,
    CARejects, CAExpires, TurnOffDNS, CASigns, World
<1>2. CASE RequestPart
  <2>1. requested' = requested + 1 /\ requested' \in Parts /\ row.status = "none" /\ row' = row /\ caOrder' = caOrder
    BY <1>0, <1>2, ExchangeAssumption DEF RequestPart, Opening, Parts
  <2>2. authz' = [authz EXCEPT ![requested'] = "pending"]
    BY <1>2 DEF RequestPart
  <2>. QED
    BY <1>0, <1>1, <2>1, <2>2 DEF Requests
<1>3. CASE RequestDraft \/ RequestEnrolment
  <2>1. requested' = requested + 1 /\ requested' = 1 /\ 1 \in Parts /\ row.status = "none" /\ caOrder' = caOrder
    BY <1>3, HowMany DEF RequestDraft, RequestEnrolment, Opening
  <2>2. PICK answer \in {"pending", "valid", "invalid"} : authz' = [authz EXCEPT ![1] = answer]
    BY <1>3 DEF RequestDraft, RequestEnrolment
  <2>3. row' = row \/ \E e : row' = [row EXCEPT !.error = e]
    BY <1>3 DEF RequestDraft, RequestEnrolment
  <2>4. row'.status = "none"
    BY <1>0, <2>1, <2>3 DEF Row
  <2>. QED
    BY <1>0, <1>1, <2>1, <2>2, <2>4 DEF Requests
<1>4. CASE InsertOrder
  <2>1. row'.status = "awaiting_validation"
    BY <1>0, <1>4 DEF InsertOrder, Row
  <2>. QED
    BY <1>1, <1>4, <2>1 DEF InsertOrder, Opening, Opens
<1>5. CASE (\E i \in Parts : Publish(i)) \/ TurnOffDNS \/ CASigns
  BY <1>0, <1>1, <1>5 DEF Publish, TurnOffDNS, CASigns, World, caVars, Answers
<1>6. ASSUME NEW i \in Parts, CAValidates(i) \/ CARejects(i) \/ CAExpires(i) PROVE Answers
  <2>1. PICK status \in {"valid", "invalid", "expired"} : authz[i] = "pending" /\ authz' = [authz EXCEPT ![i] = status]
    BY <1>6 DEF CAValidates, CARejects, CAExpires, Answer
  <2>2. row' = row /\ requested' = requested /\ caOrder' = caOrder
    BY <1>6 DEF CAValidates, CARejects, CAExpires, World
  <2>. QED
    BY <1>0, <2>1, <2>2 DEF Answers
<1>. QED
  BY <1>1, <1>2, <1>3, <1>4, <1>5, <1>6 DEF Around

LEMMA AroundOnward ==
  ASSUME PlacedInv, Around
  PROVE  Onwards /\ RequestedInv'
<1>0. UNCHANGED <<kind, call, overtaken>> /\ (Requests \/ Opens \/ Answers) /\ Parts' = Parts
  BY AroundForms, SameOrder DEF PlacedInv
<1>1. requested \in Nat /\ Parts \subseteq Nat /\ 1 \in Parts /\ Cardinality(Parts) \in Nat
  BY HowMany, ExchangeAssumption DEF PlacedInv, ExchangeInv, ExchangeTypeOK
<1>2. /\ caOrder # "open" => caOrder' # "open"
      /\ caOrder = "valid" => caOrder' = "valid"
  BY <1>0 DEF Requests, Opens, Answers
<1>3. authz[1] = "valid" => authz'[1] = "valid"
  <2>1. CASE Requests
    <3>1. \A i \in Parts : i = requested' => authz[i] = "none"
      BY <1>1, <2>1 DEF Requests, PlacedInv, ExchangeInv, Published
    <3>. QED
      BY <1>1, <2>1, <3>1 DEF Requests
  <2>. QED
    BY <1>0, <1>1, <2>1 DEF Opens, Answers
<1>4. Signed => Signed'
  BY <1>0, <1>2, <1>3 DEF Signed
<1>5. /\ row.status # "none" => row'.status # "none"
      /\ row.status \in Closed => row'.status \in Closed
  BY <1>0 DEF Requests, Opens, Answers, Closed
<1>6. Onwards
  BY <1>0, <1>2, <1>4, <1>5 DEF Onwards
<1>7. RequestedInv'
  <2>1. CASE Requests
    BY <1>0, <1>1, <2>1 DEF Requests, PlacedInv, RequestedInv
  <2>2. CASE Opens
    BY <1>0, <2>2 DEF Opens, PlacedInv, RequestedInv
  <2>3. CASE Answers
    BY <1>0, <2>3 DEF Answers, PlacedInv, RequestedInv
  <2>. QED
    BY <1>0, <2>1, <2>2, <2>3
<1>. QED
  BY <1>6, <1>7

\* What a call is placed for stays there while the order and the authority move on.
LEMMA PlacedLater ==
  ASSUME NEW x, Placed(call[x]), Onwards, call'[x] = call[x] PROVE Placed(call[x])'
BY DEF Placed, Onwards

\* A call that takes a step finds what the next stage needs.
LEMMA PlacedNext ==
  ASSUME ExchangeInv, NEW k \in Calls, Placed(call[k]), Advances(k), Onwards
  PROVE  Placed(call[k])'
<1>1. CASE call'[k] = Idle
  BY <1>1 DEF Placed, Idle
<1>2. CASE call[k].at = "idle" /\ row.status # "none" /\ row' = row /\ NextPart(k, 0)
  BY <1>2 DEF Placed, Onwards, NextPart
<1>3. CASE call[k].at \in {"poll", "clean up"} /\ NextPart(k, call[k].part)
  BY <1>3 DEF Placed, Onwards, NextPart
<1>4. CASE \/ call[k].at = "trigger" /\ call'[k].at = "poll"
           \/ call[k].at = "poll" /\ call'[k].at = "clean up"
           \/ call[k].at \in {"trigger", "poll"} /\ call'[k].at = "give up"
  BY <1>4 DEF Placed, Onwards
<1>5. CASE \/ call[k].at = "decide" /\ call'[k].at = "submit" /\ row'.status = "issuing"
           \/ call[k].at = "submit" /\ call'[k].at = "await" /\ caOrder' # "open"
           \/ call[k].at \in {"submit", "await"} /\ call'[k].at = "store" /\ Signed
  BY <1>5 DEF Placed, Onwards, Closed
<1>. QED
  BY <1>1, <1>2, <1>3, <1>4, <1>5 DEF Advances

LEMMA CallOrAround ==
  ASSUME [ExchangeNext]_exchangeVars
  PROVE  (\E k \in Calls : Get(k) \/ Work(k) \/ Abandon(k)) \/ Around \/ UNCHANGED exchangeVars
BY Zenon DEF ExchangeNext, Around

LEMMA StepPlacedInv == PlacedInv /\ [ExchangeNext]_exchangeVars => PlacedInv'
<1> SUFFICES ASSUME PlacedInv, [ExchangeNext]_exchangeVars PROVE PlacedInv'
  OBVIOUS
<1>0. ExchangeInv /\ ExchangeInv' /\ \A k \in Calls : Placed(call[k])
  BY StepInv DEF PlacedInv
<1>1. ASSUME NEW k \in Calls, Get(k) \/ Work(k) \/ Abandon(k) PROVE PlacedInv'
  <2>1. Onwards /\ requested' = requested /\ authz' = authz
    BY <1>0, <1>1, CallsOnward
  <2>2. Advances(k) /\ \A x \in Calls \ {k} : call'[x] = call[x]
    BY <1>0, <1>1, CallStepMoves DEF CallMoves
  <2>3. \A x \in Calls : Placed(call[x])'
    BY <1>0, <2>1, <2>2, PlacedLater, PlacedNext
  <2>4. RequestedInv'
    <3>1. Parts' = Parts
      BY <2>1, SameOrder DEF Onwards
    <3>2. row'.status # "none" => row.status # "none"
      <4>1. call[k].at # "idle" \/ row.status # "none"
        BY <2>2 DEF Advances, Idle
      <4>. QED
        BY <4>1, <1>0 DEF Placed
    <3>. QED
      BY <2>1, <3>1, <3>2 DEF PlacedInv, RequestedInv
  <2>. QED
    BY <1>0, <2>3, <2>4 DEF PlacedInv
<1>2. CASE Around
  <2>1. Onwards /\ RequestedInv' /\ call' = call
    BY <1>0, <1>2, AroundOnward, AroundForms
  <2>. QED
    BY <1>0, <2>1, PlacedLater DEF PlacedInv
<1>3. CASE UNCHANGED exchangeVars
  <2>1. UNCHANGED <<kind, requested, row, call, authz, caOrder, overtaken>>
    BY <1>3 DEF exchangeVars, caVars
  <2>2. Parts' = Parts /\ (Signed' = Signed)
    BY <2>1, SameOrder DEF Signed
  <2>3. Onwards
    BY <2>1, <2>2 DEF Onwards
  <2>4. RequestedInv'
    BY <2>1, <2>2 DEF PlacedInv, RequestedInv
  <2>. QED
    BY <1>0, <2>1, <2>3, <2>4, PlacedLater DEF PlacedInv
<1>. QED
  BY <1>1, <1>2, <1>3, CallOrAround

LEMMA InitPlacedInv == ExchangeInit => PlacedInv
<1> SUFFICES ASSUME ExchangeInit PROVE PlacedInv
  OBVIOUS
<1>1. \A k \in Calls : Placed(call[k])
  BY DEF ExchangeInit, Placed, Idle
<1>2. RequestedInv
  <2>1. requested = 0 /\ row.status = "none"
    BY DEF ExchangeInit, NewRow
  <2>2. \A i \in Parts : ~ (i <= 0)
    BY HowMany
  <2>. QED
    BY <2>1, <2>2 DEF RequestedInv
<1>. QED
  BY <1>1, <1>2, InitInv DEF PlacedInv

LEMMA AlwaysPlaced == ExchangeSpec => []PlacedInv
BY InitPlacedInv, StepPlacedInv, PTL DEF ExchangeSpec

-----------------------------------------------------------------------------
(* The order follows its state table.                                         *)

StatusShown == [o \in {"order"} |-> row.status]
SignedShown == IF Signed THEN {"order"} ELSE {}

LEMMA NothingShows ==
  ASSUME UNCHANGED <<StatusShown, SignedShown, overtaken>>
  PROVE  UNCHANGED Contract!contractVars
BY DEF Contract!contractVars, StatusShown, SignedShown

LEMMA StatusMoves ==
  /\ StatusShown["order"] = row.status
  /\ StatusShown' = [StatusShown EXCEPT !["order"] = row'.status]
  /\ row'.status = row.status => StatusShown' = StatusShown
BY DEF StatusShown

LEMMA SignatureStays ==
  /\ "order" \in SignedShown <=> Signed
  /\ (Signed' = Signed) => SignedShown' = SignedShown
  /\ ~ Signed /\ Signed' => SignedShown' = SignedShown \cup {"order"}
BY DEF SignedShown

\* A call that writes the order's row keeps to the table, or marks the order overtaken.
LEMMA WriteKeepsTable ==
  ASSUME ExchangeInv, NEW k \in Calls, NEW from \in {"awaiting_validation", "issuing"}, NEW r, Write(k, from, r),
         Signed' = Signed,
         r.status \in {"awaiting_validation", "failed", "issued"},
         r.status = "awaiting_validation" => from = "awaiting_validation",
         r.status = "issued" => from = "issuing" /\ Signed,
         row.status = from \/ row.status \in Closed \/ "order" \in overtaken
  PROVE  [Contract!ContractNext]_(Contract!contractVars)
<1>1. row' = r /\ overtaken' = (IF row.status = from THEN overtaken ELSE {"order"}) /\ overtaken \subseteq {"order"}
  BY Zenon DEF Write, ExchangeInv, ExchangeTypeOK
<1>2. SignedShown' = SignedShown
  BY SignatureStays
<1>3. CASE row.status = from /\ r.status = from
  <2>1. UNCHANGED <<StatusShown, SignedShown, overtaken>>
    BY <1>1, <1>2, <1>3, StatusMoves
  <2>. QED
    BY <2>1, NothingShows
<1>4. CASE row.status = from /\ r.status # from
  <2>1. UNCHANGED <<SignedShown, overtaken>>
    BY <1>1, <1>2, <1>4
  <2>2. CASE r.status = "failed"
    <3>1. Contract!Fail("order")
      BY <1>1, <1>4, <2>1, <2>2, StatusMoves DEF Contract!Fail, Contract!Move, StatusShown, SignedShown
    <3>. QED
      BY <3>1 DEF Contract!ContractNext
  <2>3. CASE r.status = "issued"
    <3>1. Contract!Close("order")
      BY <1>1, <1>4, <2>1, <2>3, StatusMoves, SignatureStays DEF Contract!Close, Contract!Move, StatusShown, SignedShown
    <3>. QED
      BY <3>1 DEF Contract!ContractNext
  <2>. QED
    BY <1>4, <2>2, <2>3
<1>5. CASE row.status # from
  <2>1. overtaken' = overtaken \cup {"order"}
    BY <1>1, <1>5
  <2>2. Contract!Overtake("order")
    BY <1>1, <1>2, <1>5, <2>1, StatusMoves, SignatureStays DEF Contract!Overtake, Closed, StatusShown, SignedShown
  <2>. QED
    BY <2>2 DEF Contract!ContractNext
<1>. QED
  BY <1>3, <1>4, <1>5

LEMMA CallKeepsTable ==
  ASSUME PlacedInv, NEW k \in Calls, Get(k) \/ Work(k) \/ Abandon(k)
  PROVE  [Contract!ContractNext]_(Contract!contractVars)
<1>0. /\ ExchangeInv /\ Placed(call[k]) /\ row \in Row
      /\ call[k].mine \in Row /\ (call[k].at # "idle" => call[k].mine.status = "awaiting_validation")
  BY DEF PlacedInv, ExchangeInv, RowSound, Sound, Copy
<1>1. SignedShown' = SignedShown /\ (Signed' = Signed)
  BY <1>0, CallsOnward, SignatureStays
<1>2. CASE WriteBack(k) \/ Reject(k) \/ NotYet(k)
  <2>1. /\ call[k].at # "idle"
        /\ \/ Write(k, "awaiting_validation", AsFound(call[k].mine, call[k].state))
           \/ Write(k, "awaiting_validation", [call[k].mine EXCEPT !.status = "failed"])
           \/ Write(k, "awaiting_validation", call[k].mine)
    BY <1>2, Zenon DEF WriteBack, Reject, NotYet, At
  <2>2. /\ AsFound(call[k].mine, call[k].state).status = "awaiting_validation"
        /\ [call[k].mine EXCEPT !.status = "failed"].status = "failed"
        /\ call[k].mine.status = "awaiting_validation"
    BY <1>0, <2>1 DEF Row, AsFound
  <2>3. row.status = "awaiting_validation" \/ row.status \in Closed \/ "order" \in overtaken
    BY <1>0, <2>1 DEF Placed, Row, Closed
  <2>. QED
    BY <1>0, <1>1, <2>1, <2>2, <2>3, WriteKeepsTable
<1>3. CASE IssueFails(k) \/ Complete(k)
  <2>1. /\ call[k].at \in {"submit", "await", "store"}
        /\ \/ Write(k, "issuing", [call[k].mine EXCEPT !.status = "failed"])
           \/ call[k].at = "store" /\ Write(k, "issuing", [call[k].mine EXCEPT !.status = "issued"])
    BY <1>3 DEF IssueFails, Complete, At
  <2>2. /\ [call[k].mine EXCEPT !.status = "failed"].status = "failed"
        /\ [call[k].mine EXCEPT !.status = "issued"].status = "issued"
    BY <1>0 DEF Row
  <2>3. row.status \in Closed \/ "order" \in overtaken
    BY <1>0, <2>1 DEF Placed
  <2>4. call[k].at = "store" => Signed
    BY <1>0 DEF Placed
  <2>. QED
    BY <1>0, <1>1, <2>1, <2>2, <2>3, <2>4, WriteKeepsTable
<1>4. ASSUME row' = row, overtaken' = overtaken
      PROVE  [Contract!ContractNext]_(Contract!contractVars)
  <2>1. StatusShown' = StatusShown
    BY <1>4, StatusMoves
  <2>. QED
    BY <1>1, <1>4, <2>1, NothingShows
<1>5. CASE Claim(k)
  <2>1. overtaken' = overtaken
    BY <1>5 DEF Claim
  <2>2. CASE row.status = "awaiting_validation" /\ row' = [call[k].mine EXCEPT !.status = "issuing"]
    <3>1. row'.status = "issuing"
      BY <1>0, <2>2 DEF Row
    <3>2. Contract!Take("order")
      BY <1>1, <2>1, <2>2, <3>1, StatusMoves DEF Contract!Take, Contract!Move, StatusShown, SignedShown
    <3>. QED
      BY <3>2 DEF Contract!ContractNext
  <2>3. CASE row' = row
    BY <1>4, <2>1, <2>3
  <2>. QED
    BY <1>5, <2>2, <2>3 DEF Claim
<1>6. CASE Get(k) \/ Abandon(k) \/ TriggerFails(k) \/ PollFails(k) \/ Trigger(k) \/ TriggerDraft(k) \/ Submit(k)
  BY <1>4, <1>6, Zenon DEF Get, Abandon, TriggerFails, PollFails, Trigger, TriggerDraft, Submit
<1>7. CASE Poll(k) \/ CheckDraft(k) \/ CheckEnrolment(k) \/ CleanUp(k) \/ CleanUpFails(k)
  BY <1>4, <1>7, Zenon DEF Poll, CheckDraft, CheckEnrolment, CheckStatus, CleanUp, CleanUpFails
<1>8. CASE Download(k) \/ DownloadDraft(k) \/ FetchEnrolled(k)
  BY <1>4, <1>8, Zenon DEF Download, DownloadDraft, FetchEnrolled, Got
<1>. QED
  BY <1>2, <1>3, <1>5, <1>6, <1>7, <1>8, Zenon DEF Work

LEMMA AroundKeepsTable ==
  ASSUME PlacedInv, Around
  PROVE  [Contract!ContractNext]_(Contract!contractVars)
<1>0. overtaken' = overtaken /\ kind' = kind /\ (Requests \/ Opens \/ Answers) /\ (Signed => Signed')
  BY AroundForms, AroundOnward DEF PlacedInv, Onwards
<1>1. Signed \in BOOLEAN /\ Signed' \in BOOLEAN
  BY DEF Signed
<1>2. CASE Opens
  <2>1. Signed' = Signed
    BY <1>0, <1>2 DEF Opens, Signed
  <2>2. Contract!Open("order")
    BY <1>0, <1>2, <2>1, StatusMoves, SignatureStays DEF Opens, Contract!Open, Contract!Move, StatusShown, SignedShown
  <2>. QED
    BY <2>2 DEF Contract!ContractNext
<1>3. CASE Requests \/ Answers
  <2>1. StatusShown' = StatusShown
    BY <1>3, StatusMoves DEF Requests, Answers
  <2>2. CASE ~ Signed /\ Signed'
    <3>1. Contract!Sign("order")
      BY <1>0, <2>1, <2>2, SignatureStays DEF Contract!Sign, StatusShown, SignedShown
    <3>. QED
      BY <3>1 DEF Contract!ContractNext
  <2>3. CASE Signed' = Signed
    BY <1>0, <2>1, <2>3, SignatureStays, NothingShows
  <2>. QED
    BY <1>0, <1>1, <2>2, <2>3
<1>. QED
  BY <1>0, <1>2, <1>3

\* The order follows its state table when its answers come from its authority, for any number
\* of parts, calls and faults: taken up once, issued only with a certificate, unless overtaken.
THEOREM ExchangeFollowsStateTable == ExchangeSpec => FollowsStateTable
<1>1. ExchangeInit => Contract!ContractInit
  <2>1. ExchangeInit => row.status = "none" /\ ~ Signed /\ overtaken = {}
    BY HowMany DEF ExchangeInit, NewRow, Signed
  <2>. QED
    BY <2>1 DEF Contract!ContractInit
<1>2. PlacedInv /\ [ExchangeNext]_exchangeVars => [Contract!ContractNext]_(Contract!contractVars)
  <2>1. CASE UNCHANGED exchangeVars
    <3>1. UNCHANGED <<row, kind, authz, caOrder, overtaken>>
      BY <2>1 DEF exchangeVars, caVars
    <3>2. UNCHANGED <<StatusShown, SignedShown>>
      BY <3>1 DEF StatusShown, SignedShown, Signed
    <3>. QED
      BY <3>1, <3>2, NothingShows
  <2>. QED
    BY <2>1, CallOrAround, CallKeepsTable, AroundKeepsTable
<1>. QED
  BY <1>1, <1>2, InitPlacedInv, StepPlacedInv, PTL DEF ExchangeSpec, FollowsStateTable, Contract!ContractSpec

-----------------------------------------------------------------------------
(* Checks come to an end.                                                     *)

LEMMA NeverWaitsInVain == PlacedInv => \A k \in Calls : CanGoOn(k)
<1> SUFFICES ASSUME PlacedInv, NEW k \in Calls PROVE CanGoOn(k)
  OBVIOUS
<1>0. /\ Placed(call[k]) /\ Sound(call[k]) /\ RequestedInv
      /\ call[k].part \in Parts /\ call[k].at \in {"idle", "trigger", "poll", "clean up", "give up", "decide", "submit", "await", "store"}
  BY DEF PlacedInv, ExchangeInv, Sound, Copy
<1>1. call[k].at = "poll" => authz[call[k].part] # "none"
  <2>1. call[k].part <= Cardinality(Parts)
    <3>1. kind = "letsencrypt" => call[k].part \in 1 .. Last
      BY <1>0 DEF Parts
    <3>2. kind # "letsencrypt" => call[k].part = 1
      BY <1>0 DEF Parts
    <3>. QED
      BY <3>1, <3>2, HowMany
  <2>. QED
    BY <1>0, <2>1 DEF Placed, RequestedInv
<1>2. call[k].at = "submit" => authz[1] = "valid"
  BY <1>0, HowMany DEF Sound, Done
<1>. QED
  BY <1>0, <1>1, <1>2 DEF CanGoOn, Placed

\* How many steps a call has left, stage by stage.
LEMMA StepsTable ==
  ASSUME NEW c
  PROVE  LET later == 3 * (Cardinality(Parts) - c.part) IN
           /\ c.at = "trigger"              => StepsLeft(c) = later + 7
           /\ c.at = "poll"                 => StepsLeft(c) = later + 6
           /\ c.at = "clean up"             => StepsLeft(c) = later + 5
           /\ c.at = "decide"               => StepsLeft(c) = 4
           /\ c.at = "submit"               => StepsLeft(c) = 3
           /\ c.at = "await"                => StepsLeft(c) = 2
           /\ c.at \in {"give up", "store"} => StepsLeft(c) = 1
           /\ c.at = "idle"                 => StepsLeft(c) = 0
<1>1. c.at = "trigger" => StepsLeft(c) = 3 * (Cardinality(Parts) - c.part) + 7
  BY DEF StepsLeft
<1>2. c.at = "poll" => StepsLeft(c) = 3 * (Cardinality(Parts) - c.part) + 6
  BY DEF StepsLeft
<1>3. c.at = "clean up" => StepsLeft(c) = 3 * (Cardinality(Parts) - c.part) + 5
  BY DEF StepsLeft
<1>4. c.at = "decide" => StepsLeft(c) = 4
  BY DEF StepsLeft
<1>5. c.at = "submit" => StepsLeft(c) = 3
  BY DEF StepsLeft
<1>6. c.at = "await" => StepsLeft(c) = 2
  BY DEF StepsLeft
<1>7. c.at \in {"give up", "store"} => StepsLeft(c) = 1
  BY DEF StepsLeft
<1>8. c.at = "idle" => StepsLeft(c) = 0
  BY DEF StepsLeft
<1>. QED
  BY <1>1, <1>2, <1>3, <1>4, <1>5, <1>6, <1>7, <1>8, Zenon

LEMMA ThreeTimes ==
  \A n, i, j \in Nat : n - i \in Nat /\ n - j \in Nat =>
    /\ 3 * (n - i) \in Nat
    /\ j > i => 3 * (n - j) + 3 <= 3 * (n - i)
OBVIOUS

LEMMA StepsCount ==
  ASSUME ExchangeInv, NEW k \in Calls, Advances(k), kind' = kind, call'[k] \in Copy, call[k].at # "idle"
  PROVE  StepsLeft(call[k])' < StepsLeft(call[k])
<1>1. Parts' = Parts /\ Cardinality(Parts) \in Nat
  BY HowMany, SameOrder, ExchangeAssumption
<1>2. StepsLeft(call[k])' = StepsLeft(call'[k])
  BY <1>1 DEF StepsLeft
<1>3. \A p \in Parts : p \in Nat /\ Cardinality(Parts) - p \in Nat
  BY HowMany, ExchangeAssumption DEF Parts
<1>4. /\ call[k].part \in Parts /\ call'[k].part \in Parts
      /\ call[k].at \in {"trigger", "poll", "clean up", "give up", "decide", "submit", "await", "store"}
  BY DEF ExchangeInv, Sound, Copy
<1> DEFINE m == 3 * (Cardinality(Parts) - call[k].part)
           l == 3 * (Cardinality(Parts) - call'[k].part)
           before == StepsLeft(call[k])
           after == StepsLeft(call'[k])
<1>5. /\ m \in Nat /\ l \in Nat
      /\ call'[k].part > call[k].part => l + 3 <= m
  BY <1>1, <1>3, <1>4, ThreeTimes, Zenon
<1>6. /\ call[k].at = "trigger" => before = m + 7
      /\ call[k].at = "poll" => before = m + 6
      /\ call[k].at = "clean up" => before = m + 5
      /\ call[k].at = "decide" => before = 4
      /\ call[k].at = "submit" => before = 3
      /\ call[k].at = "await" => before = 2
      /\ call[k].at \in {"give up", "store"} => before = 1
  BY StepsTable
<1>7. /\ call'[k].at = "trigger" => after = l + 7
      /\ call'[k].at = "poll" => after = l + 6
      /\ call'[k].at = "clean up" => after = l + 5
      /\ call'[k].at = "decide" => after = 4
      /\ call'[k].at = "submit" => after = 3
      /\ call'[k].at = "await" => after = 2
      /\ call'[k].at \in {"give up", "store"} => after = 1
      /\ call'[k].at = "idle" => after = 0
  BY StepsTable
<1>8. call'[k].part = call[k].part => l = m
  OBVIOUS
<1>9. SUFFICES after < before
  BY <1>2
<1> HIDE DEF m, l, before, after
<1>10. CASE call'[k] = Idle
  <2>1. after = 0
    BY <1>7, <1>10 DEF Idle
  <2>2. before \in {m + 7, m + 6, m + 5, 4, 3, 2, 1}
    BY <1>4, <1>6
  <2>. QED
    BY <1>5, <2>1, <2>2
<1>11. CASE call[k].at \in {"poll", "clean up"} /\ NextPart(k, call[k].part)
  <2>1. before \in {m + 5, m + 6}
    BY <1>6, <1>11
  <2>2. CASE call'[k].at = "decide"
    BY <1>5, <1>7, <2>1, <2>2
  <2>3. CASE call'[k].at \in {"trigger", "poll"} /\ call'[k].part > call[k].part
    <3>1. after \in {l + 6, l + 7} /\ l + 3 <= m
      BY <1>5, <1>7, <2>3
    <3>. QED
      BY <1>5, <2>1, <3>1
  <2>. QED
    BY <1>11, <2>2, <2>3 DEF NextPart
<1>12. CASE \/ call[k].at = "trigger" /\ call'[k].at = "poll" /\ call'[k].part = call[k].part
            \/ call[k].at = "poll" /\ call'[k].at = "clean up" /\ call'[k].part = call[k].part
  <2>1. (before = m + 7 /\ after = m + 6) \/ (before = m + 6 /\ after = m + 5)
    BY <1>6, <1>7, <1>8, <1>12
  <2>. QED
    BY <1>5, <2>1
<1>13. CASE call[k].at \in {"trigger", "poll"} /\ call'[k].at = "give up"
  <2>1. before \in {m + 6, m + 7} /\ after = 1
    BY <1>6, <1>7, <1>13
  <2>. QED
    BY <1>5, <2>1
<1>14. CASE \/ call[k].at = "decide" /\ call'[k].at = "submit"
            \/ call[k].at = "submit" /\ call'[k].at = "await"
            \/ call[k].at \in {"submit", "await"} /\ call'[k].at = "store"
  <2>1. \/ before = 4 /\ after = 3
        \/ before = 3 /\ after = 2
        \/ before \in {3, 2} /\ after = 1
    BY <1>6, <1>7, <1>14
  <2>. QED
    BY <2>1
<1>. QED
  BY <1>4, <1>10, <1>11, <1>12, <1>13, <1>14 DEF Advances

LEMMA StepAdvances ==
  PlacedInv /\ [ExchangeNext]_exchangeVars =>
    [\A k \in Calls : call'[k] # call[k] /\ call[k].at # "idle" => StepsLeft(call[k])' < StepsLeft(call[k])]_exchangeVars
<1> SUFFICES ASSUME PlacedInv, ExchangeNext, NEW k \in Calls, call'[k] # call[k], call[k].at # "idle"
             PROVE  StepsLeft(call[k])' < StepsLeft(call[k])
  OBVIOUS
<1>1. ExchangeInv /\ ExchangeInv'
  BY StepInv DEF PlacedInv
<1>2. PICK x \in Calls : Get(x) \/ Work(x) \/ Abandon(x)
  <2>1. Around => call' = call
    BY <1>1, AroundForms
  <2>2. ~ UNCHANGED exchangeVars
    BY DEF exchangeVars
  <2>. QED
    BY <2>1, <2>2, CallOrAround
<1>3. kind' = kind
  BY <1>1, <1>2, CallsOnward DEF Onwards, PlacedInv
<1>4. call'[k] \in Copy
  <2>1. call'[k] \in Copy'
    BY <1>1 DEF ExchangeInv, Sound
  <2>. QED
    BY <1>3, <2>1, SameOrder
<1>5. CallMoves(x)
  BY <1>1, <1>2, CallStepMoves
<1>6. x = k /\ Advances(k)
  BY <1>5 DEF CallMoves
<1>. QED
  BY <1>1, <1>3, <1>4, <1>6, StepsCount

\* Each call of Validate ends: it never waits for what the authority will not have, and every
\* step leaves it fewer, for any number of parts and of calls that overlap (what
\* CheckChallenge's loop over the authorizations gives; that steps are taken is fairness).
THEOREM ChecksEnd == ExchangeSpec => ChecksAdvance
BY NeverWaitsInVain, StepAdvances, AlwaysPlaced, PTL DEF ExchangeSpec, ChecksAdvance

=============================================================================
