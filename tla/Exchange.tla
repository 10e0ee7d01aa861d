------------------------------- MODULE Exchange -------------------------------
(***************************************************************************)
(* internal/ca: what one order and its authority tell each other, from     *)
(* RequestValidation through CheckChallenge to Issue, driven by concurrent *)
(* calls of Service.Validate.  Module Orders takes the answers of the      *)
(* authority as they come; this one says where they come from.             *)
(*                                                                         *)
(* An order has one part for each authorization at Let's Encrypt (one per  *)
(* domain); at ZeroSSL and AD CS it is one part as a whole.  A call loops  *)
(* over the parts on its own copy of the order's challenges (verified,     *)
(* error) and of the provider's state (triggered, cleaned).  The copy of   *)
(* the challenges is shared with what CheckChallenge returns on an error,  *)
(* the state is only written into it at the end.                           *)
(*                                                                         *)
(* Abstracted: tokens, URLs, CSR, certificate contents; HTTP-01 and DNS-01 *)
(* by hand, which differ in wording only; the self-signed authority, which *)
(* asks nobody.                                                            *)
(***************************************************************************)
EXTENDS Integers, FiniteSets

CONSTANTS
  Kinds,      \* the authorities: some of "letsencrypt", "zerossl", "adcs"
  Last,       \* how many parts an order has at Let's Encrypt
  Calls,      \* concurrent calls of Service.Validate
  MaxFaults   \* bound: failing requests and calls cut short

ASSUME ExchangeAssumption ==
  /\ Kinds \subseteq {"letsencrypt", "zerossl", "adcs"}
  /\ Last \in Nat \ {0}
  /\ MaxFaults \in Nat

VARIABLES
  kind,       \* the order's authority
  automated,  \* RequestValidation published the TXT records itself
  dns,        \* the registered authority has a DNS automation at this moment
  requested,  \* how many parts RequestValidation has dealt with
  row,        \* the order's row; before it is inserted, the order under construction
  call,       \* call[k]: what call k is at
  \* the CA and the world
  authz,      \* authz[i]: status of part i at the CA
  asked,      \* the parts the CA was asked to validate
  proof,      \* the parts whose TXT record (or file) is published
  caOrder,    \* the CA's order: open, processing (finalized), valid (signed)
  faults,
  \* history, read by no action
  left,       \* TXT records nobody will remove: the attempt failed, or there was no automation to make it
  overtaken   \* the order, once a call wrote its row when another had changed its status meanwhile

caVars == <<authz, asked, caOrder>>
exchangeVars == <<kind, automated, dns, requested, row, call, caVars, proof, faults, left, overtaken>>

Parts == IF kind = "letsencrypt" THEN 1 .. Last ELSE {1}

Row == [status: {"none", "awaiting_validation", "issuing", "issued", "failed"},
        verified: SUBSET Parts, error: SUBSET Parts, triggered: SUBSET Parts, cleaned: SUBSET Parts]
NewRow == [status |-> "none", verified |-> {}, error |-> {}, triggered |-> {}, cleaned |-> {}]
Copy == [at: {"idle", "trigger", "poll", "clean up", "give up", "decide", "submit", "await", "store"},
         part: Parts, mine: Row, state: [triggered: SUBSET Parts, cleaned: SUBSET Parts], dns: BOOLEAN]
Forgotten == [triggered |-> {}, cleaned |-> {}]
Idle == [at |-> "idle", part |-> 1, mine |-> NewRow, state |-> Forgotten, dns |-> FALSE]

ExchangeTypeOK ==
  /\ kind \in Kinds
  /\ {automated, dns} \subseteq BOOLEAN /\ (automated => kind = "letsencrypt")
  /\ requested \in 0 .. Cardinality(Parts)
  /\ row \in Row
  /\ call \in [Calls -> Copy]
  /\ authz \in [Parts -> {"none", "pending", "valid", "invalid", "expired"}]
  /\ {asked, proof, left} \subseteq SUBSET Parts
  /\ caOrder \in {"open", "processing", "valid"}
  /\ faults \in 0 .. MaxFaults
  /\ overtaken \subseteq {"order"}

ExchangeInit ==
  /\ kind \in Kinds
  /\ automated \in BOOLEAN /\ (automated => kind = "letsencrypt")
  /\ dns = automated
  /\ requested = 0
  /\ row = NewRow
  /\ call = [k \in Calls |-> Idle]
  /\ authz = [i \in Parts |-> "none"]
  /\ asked = {}
  /\ proof = {}
  /\ caOrder = "open"
  /\ faults = 0
  /\ left = {}
  /\ overtaken = {}

Fault == faults < MaxFaults /\ faults' = faults + 1

-----------------------------------------------------------------------------
(* RequestValidation, within Create or CreateRenewal.                         *)

Opening == row.status = "none" /\ UNCHANGED <<kind, automated, dns, call, caOrder, faults, left, overtaken>>

\* Mutant: one part too many.
RequestPastEnd ==
  /\ Opening
  /\ kind = "letsencrypt" /\ requested <= Last
  /\ requested' = requested + 1
  /\ UNCHANGED <<row, authz, asked, proof>>

\* Let's Encrypt: the next authorization.  Present publishes its record and waits until it can
\* be seen.  (A failure leaves no order, and the records published so far.)
RequestPart ==
  /\ Opening
  /\ kind = "letsencrypt" /\ requested < Last
  /\ requested' = requested + 1
  /\ authz' = [authz EXCEPT ![requested'] = "pending"]
  /\ proof' = IF automated THEN proof \cup {requested'} ELSE proof
  /\ UNCHANGED <<row, asked>>

\* ZeroSSL: the certificate is drafted.
RequestDraft ==
  /\ Opening
  /\ kind = "zerossl" /\ requested = 0
  /\ requested' = 1
  /\ authz' = [authz EXCEPT ![1] = "pending"]
  /\ UNCHANGED <<row, asked, proof>>

\* AD CS decides at once, or later; a denial is kept as the challenge's error.
RequestEnrolment ==
  /\ Opening
  /\ kind = "adcs" /\ requested = 0
  /\ requested' = 1
  /\ \E answer \in {"pending", "valid", "invalid"} :
       /\ authz' = [authz EXCEPT ![1] = answer]
       /\ row' = [row EXCEPT !.error = IF answer = "invalid" THEN {1} ELSE {}]
  /\ asked' = {1}
  /\ UNCHANGED proof

InsertOrder ==
  /\ Opening
  /\ requested = Cardinality(Parts)
  /\ row' = [row EXCEPT !.status = "awaiting_validation"]
  /\ UNCHANGED <<requested, authz, asked, proof>>

-----------------------------------------------------------------------------
(* CheckChallenge, within Validate.                                           *)

At(k, stage) == call[k].at = stage
Set(k, c) == call' = [call EXCEPT ![k] = c]
Working == UNCHANGED <<kind, automated, requested, dns>>

\* Mutant: to any other part that is not verified yet.
OnwardAround(k, c, i) ==
  LET todo == {j \in Parts : j # i /\ (kind = "letsencrypt" => j \notin c.mine.verified)} IN
    \/ \E j \in todo :
         /\ \A m \in todo : j <= m
         /\ Set(k, [c EXCEPT !.part = j,
                             !.at = IF kind = "adcs" \/ j \in c.mine.triggered THEN "poll" ELSE "trigger"])
    \/ todo = {} /\ Set(k, [c EXCEPT !.at = "decide", !.part = 1, !.state = Forgotten])

\* Call k, its copy now c, goes on after part i: to the next part that is not verified yet.
\* ZeroSSL and AD CS are asked about the order whatever the copy says.
Onward(k, c, i) ==
  LET todo == {j \in Parts : j > i /\ (kind = "letsencrypt" => j \notin c.mine.verified)} IN
    \/ \E j \in todo :
         /\ \A m \in todo : j <= m
         /\ Set(k, [c EXCEPT !.part = j,
                             !.at = IF kind = "adcs" \/ j \in c.mine.triggered THEN "poll" ELSE "trigger"])
    \/ todo = {} /\ Set(k, [c EXCEPT !.at = "decide", !.part = 1, !.state = Forgotten])

\* (An order in another status is returned as it is.)
Get(k) ==
  /\ At(k, "idle")
  /\ row.status = "awaiting_validation"
  /\ Onward(k, [Idle EXCEPT !.mine = row, !.state = [triggered |-> row.triggered, cleaned |-> row.cleaned], !.dns = dns], 0)
  /\ Working /\ UNCHANGED <<row, caVars, proof, faults, left, overtaken>>

GiveUp(k) == Set(k, [call[k] EXCEPT !.at = "give up"])

Ask(k) ==
  /\ asked' = asked \cup {call[k].part}
  /\ Set(k, [call[k] EXCEPT !.mine.triggered = @ \cup {call[k].part}, !.at = "poll"])

\* Let's Encrypt refuses to look again at what it has turned down.
Trigger(k) ==
  /\ At(k, "trigger") /\ kind = "letsencrypt"
  /\ IF authz[call[k].part] \in {"invalid", "expired"} THEN GiveUp(k) /\ UNCHANGED asked ELSE Ask(k)
  /\ Working /\ UNCHANGED <<row, authz, caOrder, proof, faults, left, overtaken>>

TriggerDraft(k) ==
  /\ At(k, "trigger") /\ kind = "zerossl"
  /\ Ask(k)
  /\ Working /\ UNCHANGED <<row, authz, caOrder, proof, faults, left, overtaken>>

\* The CA may have got the request all the same.
TriggerFails(k) ==
  /\ At(k, "trigger")
  /\ Fault
  /\ GiveUp(k)
  /\ asked' \in {asked, asked \cup {call[k].part}}
  /\ Working /\ UNCHANGED <<row, authz, caOrder, proof, left, overtaken>>

Verify(c, i)    == [c EXCEPT !.mine.verified = @ \cup {i}]
Deny(c, i)      == [c EXCEPT !.mine.error = @ \cup {i}]
CleanedUp(c, i) == [c EXCEPT !.mine.cleaned = @ \cup {i}]

\* Mutant: a check that has not been answered passes.
PollOptimist(k) ==
  /\ At(k, "poll") /\ kind = "letsencrypt"
  /\ LET c == call[k] i == call[k].part IN
       Onward(k, IF authz[i] \in {"valid", "pending"} THEN Verify(c, i)
                 ELSE IF authz[i] = "invalid" THEN Deny(c, i) ELSE c, i)
  /\ Working /\ UNCHANGED <<row, caVars, proof, faults, left, overtaken>>
\* Mutant: the record is removed whatever the answer.
PollAndCleanUp(k) ==
  /\ At(k, "poll") /\ kind = "letsencrypt"
  /\ LET c == call[k] i == call[k].part IN
       Set(k, [(IF authz[i] = "valid" THEN Verify(c, i) ELSE c) EXCEPT !.at = "clean up"])
  /\ Working /\ UNCHANGED <<row, caVars, proof, faults, left, overtaken>>
\* Mutant: a rejection is taken for "not yet".
PollWithoutError(k) ==
  /\ At(k, "poll") /\ kind = "letsencrypt"
  /\ LET c == call[k]
         i == call[k].part
         tidy == automated /\ i \notin c.mine.cleaned
     IN
       \/ /\ authz[i] = "valid"
          /\ IF tidy /\ c.dns THEN Set(k, [Verify(c, i) EXCEPT !.at = "clean up"]) ELSE Onward(k, Verify(c, i), i)
          /\ left' = IF tidy /\ ~ c.dns THEN left \cup (proof \cap {i}) ELSE left
       \/ authz[i] # "valid" /\ Onward(k, c, i) /\ UNCHANGED left
  /\ Working /\ UNCHANGED <<row, caVars, proof, faults, overtaken>>

\* Let's Encrypt's answer to part i: valid, turned down, or neither when the polls end.
Poll(k) ==
  /\ At(k, "poll") /\ kind = "letsencrypt"
  /\ LET c == call[k]
         i == call[k].part
         tidy == automated /\ i \notin c.mine.cleaned
     IN
       \/ /\ authz[i] = "valid"
          /\ IF tidy /\ c.dns THEN Set(k, [Verify(c, i) EXCEPT !.at = "clean up"]) ELSE Onward(k, Verify(c, i), i)
          /\ left' = IF tidy /\ ~ c.dns THEN left \cup (proof \cap {i}) ELSE left
       \/ authz[i] = "invalid" /\ Onward(k, Deny(c, i), i) /\ UNCHANGED left
       \/ authz[i] \in {"pending", "expired"} /\ Onward(k, c, i) /\ UNCHANGED left
  /\ Working /\ UNCHANGED <<row, caVars, proof, faults, overtaken>>

\* What ZeroSSL, or AD CS, says of the order goes for all its challenges.
CheckStatus(k) ==
  /\ At(k, "poll")
  /\ Onward(k, CASE authz[1] = "valid"   -> Verify(call[k], 1)
                [] authz[1] = "invalid" -> Deny(call[k], 1)
                [] OTHER                -> call[k], 1)
  /\ Working /\ UNCHANGED <<row, caVars, proof, faults, left, overtaken>>

CheckDraft(k)     == kind = "zerossl" /\ CheckStatus(k)
CheckEnrolment(k) == kind = "adcs" /\ CheckStatus(k)

PollFails(k) ==
  /\ At(k, "poll")
  /\ Fault
  /\ GiveUp(k)
  /\ Working /\ UNCHANGED <<row, caVars, proof, left, overtaken>>

\* Mutant: the record stays.
CleanUpNot(k) ==
  /\ At(k, "clean up")
  /\ Onward(k, CleanedUp(call[k], call[k].part), call[k].part)
  /\ Working /\ UNCHANGED <<row, caVars, proof, faults, left, overtaken>>

CleanUp(k) ==
  /\ At(k, "clean up")
  /\ proof' = proof \ {call[k].part}
  /\ Onward(k, CleanedUp(call[k], call[k].part), call[k].part)
  /\ Working /\ UNCHANGED <<row, caVars, faults, left, overtaken>>

\* A removal that fails is not tried again.
CleanUpFails(k) ==
  /\ At(k, "clean up")
  /\ left' = left \cup (proof \cap {call[k].part})
  /\ Onward(k, CleanedUp(call[k], call[k].part), call[k].part)
  /\ Working /\ UNCHANGED <<row, caVars, proof, faults, overtaken>>

-----------------------------------------------------------------------------
(* The rest of Validate.                                                      *)

Return(k) == Set(k, Idle)

\* The call ends by writing the row; it had found it, or claimed it, in status from.
Write(k, from, r) ==
  /\ row' = r
  /\ overtaken' = IF row.status = from THEN overtaken ELSE {"order"}
  /\ Return(k)
  /\ Working

AsFound(r, state) == [r EXCEPT !.triggered = state.triggered, !.cleaned = state.cleaned]

\* CheckChallenge ended in an error: its challenges are written back, its state as it was.
WriteBack(k) ==
  /\ At(k, "give up")
  /\ Write(k, "awaiting_validation", AsFound(call[k].mine, call[k].state))
  /\ UNCHANGED <<caVars, proof, faults, left>>

Reject(k) ==
  /\ At(k, "decide")
  /\ call[k].mine.error # {}
  /\ Write(k, "awaiting_validation", [call[k].mine EXCEPT !.status = "failed"])
  /\ UNCHANGED <<caVars, proof, faults, left>>

NotYet(k) ==
  /\ At(k, "decide")
  /\ call[k].mine.error = {} /\ call[k].mine.verified # Parts
  /\ Write(k, "awaiting_validation", call[k].mine)
  /\ UNCHANGED <<caVars, proof, faults, left>>

\* Mutant: the order is claimed whatever its row says by now.
ClaimAnyway(k) ==
  /\ At(k, "decide")
  /\ call[k].mine.error = {} /\ call[k].mine.verified = Parts
  /\ row' = [call[k].mine EXCEPT !.status = "issuing"]
  /\ Set(k, [call[k] EXCEPT !.at = "submit"])
  /\ Working /\ UNCHANGED <<caVars, proof, faults, left, overtaken>>

\* UpdateIfStatus.
Claim(k) ==
  /\ At(k, "decide")
  /\ call[k].mine.error = {} /\ call[k].mine.verified = Parts
  /\ IF row.status = "awaiting_validation"
     THEN /\ row' = [call[k].mine EXCEPT !.status = "issuing"]
          /\ Set(k, [call[k] EXCEPT !.at = "submit"])
     ELSE Return(k) /\ UNCHANGED row
  /\ Working /\ UNCHANGED <<caVars, proof, faults, left, overtaken>>

\* Let's Encrypt takes the CSR once, when all parts are valid.
Ready == caOrder = "open" /\ \A i \in Parts : authz[i] = "valid"

Submit(k) ==
  /\ At(k, "submit") /\ kind = "letsencrypt"
  /\ Ready
  /\ caOrder' = "processing"
  /\ Set(k, [call[k] EXCEPT !.at = "await"])
  /\ Working /\ UNCHANGED <<row, authz, asked, proof, faults, left, overtaken>>

Refused(k) == At(k, "submit") /\ kind = "letsencrypt" /\ ~ Ready

Got(k) ==
  /\ Set(k, [call[k] EXCEPT !.at = "store"])
  /\ Working /\ UNCHANGED <<row, caVars, proof, faults, left, overtaken>>

Download(k)        == At(k, "await") /\ caOrder = "valid" /\ Got(k)
DownloadDraft(k)   == At(k, "submit") /\ kind = "zerossl" /\ authz[1] = "valid" /\ Got(k)
FetchEnrolled(k)   == At(k, "submit") /\ kind = "adcs" /\ authz[1] = "valid" /\ Got(k)

\* Issue is refused or fails, its polls end, or the certificate cannot be stored.
IssueFails(k) ==
  /\ At(k, "submit") \/ At(k, "await") \/ At(k, "store")
  /\ IF Refused(k) THEN UNCHANGED faults ELSE Fault
  /\ Write(k, "issuing", [call[k].mine EXCEPT !.status = "failed"])
  /\ UNCHANGED <<caVars, proof, left>>

Complete(k) ==
  /\ At(k, "store")
  /\ Write(k, "issuing", [call[k].mine EXCEPT !.status = "issued"])
  /\ UNCHANGED <<caVars, proof, faults, left>>

\* The call ends where it is: crash, canceled request, failed write.
Abandon(k) ==
  /\ ~ At(k, "idle")
  /\ Fault
  /\ Return(k)
  /\ Working /\ UNCHANGED <<row, caVars, proof, left, overtaken>>

-----------------------------------------------------------------------------
(* The world.                                                                 *)

World == UNCHANGED <<kind, automated, requested, row, call, faults, left, overtaken>>

\* Somebody follows the instructions.
Publish(i) ==
  /\ row.status # "none"
  /\ ~ automated /\ kind # "adcs"
  /\ proof' = proof \cup {i}
  /\ World /\ UNCHANGED <<dns, caVars>>

\* An admin turns the DNS-01 automation off: the authority is replaced.
TurnOffDNS ==
  /\ dns
  /\ dns' = FALSE
  /\ World /\ UNCHANGED <<caVars, proof>>

Answer(i, status) == authz[i] = "pending" /\ authz' = [authz EXCEPT ![i] = status]

CAValidates(i) ==
  /\ i \in asked
  /\ kind # "adcs" => i \in proof
  /\ Answer(i, "valid")
  /\ World /\ UNCHANGED <<dns, asked, caOrder, proof>>

\* Let's Encrypt looks once and finds no proof; ZeroSSL cancels, or lets the order run out;
\* an administrator denies the request.  That Let's Encrypt turns down no challenge whose proof it
\* can see is an assumption about it.
CARejects(i) ==
  /\ kind = "letsencrypt" => i \in asked \ proof
  /\ Answer(i, "invalid")
  /\ World /\ UNCHANGED <<dns, asked, caOrder, proof>>

\* An authorization nobody had validated runs out.
CAExpires(i) ==
  /\ kind = "letsencrypt" /\ i \notin asked
  /\ Answer(i, "expired")
  /\ World /\ UNCHANGED <<dns, asked, caOrder, proof>>

CASigns ==
  /\ caOrder = "processing"
  /\ caOrder' = "valid"
  /\ World /\ UNCHANGED <<dns, authz, asked, proof>>

-----------------------------------------------------------------------------
Work(k) ==
  \/ Trigger(k)
  \/ TriggerDraft(k)
  \/ TriggerFails(k)
  \/ Poll(k)
  \/ CheckDraft(k)
  \/ CheckEnrolment(k)
  \/ PollFails(k)
  \/ CleanUp(k)
  \/ CleanUpFails(k)
  \/ WriteBack(k)
  \/ Reject(k)
  \/ NotYet(k)
  \/ Claim(k)
  \/ Submit(k)
  \/ Download(k)
  \/ DownloadDraft(k)
  \/ FetchEnrolled(k)
  \/ IssueFails(k)
  \/ Complete(k)

ExchangeNext ==
  \/ RequestPart
  \/ RequestDraft
  \/ RequestEnrolment
  \/ InsertOrder
  \/ \E k \in Calls : Get(k) \/ Work(k) \/ Abandon(k)
  \/ \E i \in Parts : Publish(i) \/ CAValidates(i) \/ CARejects(i) \/ CAExpires(i)
  \/ TurnOffDNS
  \/ CASigns

ExchangeSpec == ExchangeInit /\ [][ExchangeNext]_exchangeVars

\* Calls run until they return, clients come back to an open order, whoever controls the domain
\* publishes the proof, and the CA answers what it was asked.
FairExchangeSpec ==
  /\ ExchangeSpec
  /\ \A k \in Calls : WF_exchangeVars(Work(k)) /\ SF_exchangeVars(Get(k))
  /\ \A i \in 1 .. Last : WF_exchangeVars(i \in Parts /\ Publish(i))
                       /\ WF_exchangeVars(i \in Parts /\ (CAValidates(i) \/ CARejects(i)))

-----------------------------------------------------------------------------
(* Properties.                                                                *)

Signed == IF kind = "letsencrypt" THEN caOrder = "valid" ELSE authz[1] = "valid"

\* The order follows its state table too when its answers come from its authority as they do:
\* it is taken up once, and issued only when the authority has issued its certificate, unless
\* its row was overwritten; even then issued takes the certificate.
Contract == INSTANCE OrderContract
  WITH Orders <- {"order"}, state <- [o \in {"order"} |-> row.status],
       signed <- IF Signed THEN {"order"} ELSE {}
FollowsStateTable == Contract!ContractSpec

\* Nothing is submitted before the CA has accepted every part of the order, however calls
\* overwrite each other's challenges and wherever a check ends half way.
SubmittedWhenProven ==
  /\ \A k \in Calls : call[k].at \in {"submit", "await", "store"} => \A i \in Parts : authz[i] = "valid"
  /\ row.status = "issued" => \A i \in Parts : authz[i] = "valid"

\* A record this server published stays until the CA has looked at it: an automated
\* challenge is never turned down, though any call may be the one to remove the record.
AutomatedNeverRejected == automated => \A i \in Parts : authz[i] # "invalid"

\* "Publishes and removes the TXT record": an issued order leaves none behind, unless a removal
\* failed, or the automation had been turned off when it was due.
RecordsWithdrawn == automated /\ row.status = "issued" => proof \subseteq left

\* The TXT records this server publishes are there as long as they are needed, and no longer.
RecordsServe == AutomatedNeverRejected /\ RecordsWithdrawn

\* The CA has turned down a part that neither the row nor a call knows to have been triggered:
\* asking again is refused each time, before the rejection is looked at.
Stuck ==
  \E i \in Parts :
    \/ authz[i] = "expired"
    \/ /\ authz[i] = "invalid" /\ kind = "letsencrypt"
       /\ i \notin row.triggered /\ \A k \in Calls : i \notin call[k].mine.triggered

\* An order whose proof is published and which is checked over and over is decided, unless an
\* authorization expired, or a trigger was forgotten (by a check that failed after it, or a
\* stale write-back) and the CA turned the part down.
ExchangeSettles == row.status = "awaiting_validation" ~> row.status # "awaiting_validation" \/ Stuck

\* The steps a call has left at most: for every part still to come trigger, poll and clean up.
StepsLeft(c) ==
  LET later == 3 * (Cardinality(Parts) - c.part) IN
    CASE c.at = "trigger"                -> later + 7
      [] c.at = "poll"                   -> later + 6
      [] c.at = "clean up"               -> later + 5
      [] c.at = "decide"                 -> 4
      [] c.at = "submit"                 -> 3
      [] c.at = "await"                  -> 2
      [] c.at \in {"give up", "store"}   -> 1
      [] c.at = "idle"                   -> 0

\* What call k waits for is there, or will be.
CanGoOn(k) ==
  \/ call[k].at \in {"idle", "clean up", "give up", "decide", "store"}
  \/ call[k].at = "trigger" /\ kind # "adcs"
  \/ call[k].at = "poll" /\ authz[call[k].part] # "none"
  \/ call[k].at = "submit" /\ (kind = "letsencrypt" \/ authz[1] = "valid")
  \/ call[k].at = "await" /\ caOrder # "open"

\* A call never finds itself where the authority has nothing to tell it, and each of its steps
\* leaves it less to do, whatever other calls write and remove meanwhile: a check ends after
\* three steps for a part, and Validate four later.
ChecksAdvance ==
  /\ [](\A k \in Calls : CanGoOn(k))
  /\ [][\A k \in Calls : call'[k] # call[k] /\ call[k].at # "idle" => StepsLeft(call[k])' < StepsLeft(call[k])]_exchangeVars

=============================================================================
