----------------------------- MODULE OrdersProofs -----------------------------
(***************************************************************************)
(* Theorems about Orders, and about Lifecycle, which adds revocations and  *)
(* imports to it: for every number of orders, certificates, concurrent     *)
(* Validate calls and revocations, every bound on signatures and faults.   *)
(***************************************************************************)
EXTENDS Lifecycle, CertStoreProofs, FiniteSetTheorems

-----------------------------------------------------------------------------
(* The inductive invariant, in named parts.                                   *)

\* The CA's ledger is filled up to signed, for orders that have been opened, each once.
LedgerOK ==
  /\ \A s \in Serials :
       /\ ledger[s] \in Orders => s <= signed
       /\ \A o \in Orders : ledger[s] = o => order[o].status # "none"
  /\ \A s, t \in Serials : ledger[s] = ledger[t] /\ ledger[s] \in Orders => s = t

\* Until it is issued, an order's certificate_id is what it was opened with; a renewal was
\* opened for a certificate that exists.
RowsOK ==
  \A o \in Orders :
    /\ order[o].status # "issued" => order[o].cert = origin[o]
    /\ origin[o] # NoCert => Exists(origin[o])
    /\ order[o].status = "none" => origin[o] = NoCert /\ o \notin overtaken

\* What a call holds in memory: its order, the certificate_id it will write back, and a
\* serial that the CA signed for its order and that is in the inventory once it is stored.
CallsOK ==
  \A p \in Validators :
    /\ pc[p] # "idle" => target[p] \in Orders /\ order[target[p]].status # "none"
    /\ Checking(p) \/ pc[p] \in {"claimed", "signed"} => snap[p].cert = origin[target[p]]
    /\ pc[p] \in {"signed", "stored"} => serial[p] \in 1 .. signed /\ ledger[serial[p]] = target[p]
    /\ pc[p] = "stored" => snap[p].cert \in Certs /\ serial[p] \in versions[snap[p].cert]

\* Only signed serials are stored.
StoredAreSigned == \A c \in Certs : \A s \in versions[c] : s <= signed

\* A row that was never inserted has no versions.
AbsentHasNoVersions == \A c \in Certs : ~ Exists(c) => versions[c] = {}

\* The claim is exclusive, and nothing is stored for an order that has not come that far, for
\* as long as nobody overwrites the row behind the claimer's back.
ClaimExclusive ==
  \A o \in Orders \ overtaken :
    /\ \A p \in Validators : Issuing(p) /\ target[p] = o => order[o].status = "issuing"
    /\ \A p, q \in Validators :
         Issuing(p) /\ Issuing(q) /\ target[p] = o /\ target[q] = o => p = q
    /\ order[o].status \in {"none", "awaiting_validation"} => claims[o] = 0

\* Nothing is filed for an order before the one call that claimed it has stored it.
Early(o) ==
  \/ order[o].status \in {"none", "awaiting_validation"}
  \/ \E p \in Validators : pc[p] \in {"claimed", "signed"} /\ target[p] = o
Unfiled(o, C) == \A c \in C : \A s \in versions[c] : ledger[s] # o
FiledLate(C)  == \A o \in Orders \ overtaken : Early(o) => Unfiled(o, C)
\* FiledOnceUnlessOvertaken among the certificates of C.
OnceAmong(C)  ==
  \A c, d \in C : c # d => \A s \in versions[c] \cap versions[d] : ledger[s] \in overtaken

\* What the calls know, the claim left aside.
CallsInv ==
  /\ TypeOK
  /\ LedgerOK
  /\ RowsOK
  /\ CallsOK
  /\ StoredAreSigned
  /\ AbsentHasNoVersions

-----------------------------------------------------------------------------
(* Type correctness.                                                          *)

LEMMA InitTypeOK == Init => TypeOK
BY MaxSerialAssumption, OrdersAssumption
   DEF Init, TypeOK, StoreInit, StoreTypeOK, Status, Row, NoRow, Link, Serials, NoSerial

LEMMA LinkedIsTyped ==
  ASSUME NEW p \in Validators, NEW c \in Certs, snap \in [Validators -> Row]
  PROVE  [snap EXCEPT ![p].cert = c] \in [Validators -> Row]
<1>1. [snap[p] EXCEPT !.cert = c] \in Row
  BY DEF Row, Link
<1>. QED
  BY <1>1

LEMMA NewIsTyped ==
  ASSUME StoreTypeOK, NEW c \in Certs, NEW s \in Serials, FinalizeNewCertificate(c, s, "active")
  PROVE  StoreTypeOK'
BY DEF StoreTypeOK, FinalizeNewCertificate, Status

\* Every step keeps every variable within its type.
LEMMA StepTypeOK == TypeOK /\ [Next]_vars => TypeOK'
<1> SUFFICES ASSUME TypeOK, [Next]_vars PROVE TypeOK'
  OBVIOUS
<1> USE MaxSerialAssumption, OrdersAssumption
    DEF TypeOK, StoreTypeOK, Status, Checking, Row, NoRow, Link, Serials, NoSerial, storeVars, Goto, Return, Update
<1>1. ASSUME NEW o \in Orders, Create(o) PROVE TypeOK'
  BY <1>1 DEF Create, Insert
<1>2. ASSUME NEW o \in Orders, NEW c \in Certs, CreateRenewal(o, c) PROVE TypeOK'
  BY <1>2 DEF CreateRenewal, Insert
<1>3. ASSUME NEW p \in Validators, NEW o \in Orders, Get(p, o) PROVE TypeOK'
  BY <1>3 DEF Get
<1>4. ASSUME NEW p \in Validators, ReturnSettled(p) PROVE TypeOK'
  BY <1>4 DEF ReturnSettled
<1>5. ASSUME NEW p \in Validators, NotYet(p) PROVE TypeOK'
  BY <1>5 DEF NotYet, NoteOvertaken
<1>6. ASSUME NEW p \in Validators, Reject(p) PROVE TypeOK'
  BY <1>6 DEF Reject, NoteOvertaken
<1>7. ASSUME NEW p \in Validators, Claim(p) PROVE TypeOK'
  <2>1. claims' \in [Orders -> 0 .. 2]
    BY <1>7 DEF Claim, CountClaim
  <2>2. order' \in [Orders -> Row] /\ snap' \in [Validators -> Row]
    BY <1>7 DEF Claim
  <2>. QED
    BY <1>7, <2>1, <2>2 DEF Claim
<1>8. ASSUME NEW p \in Validators, ClaimLost(p) PROVE TypeOK'
  BY <1>8 DEF ClaimLost
<1>9. ASSUME NEW p \in Validators, Issue(p) PROVE TypeOK'
  BY <1>9 DEF Issue
<1>10. ASSUME NEW p \in Validators, IssueRefused(p) PROVE TypeOK'
  BY <1>10 DEF IssueRefused
<1>11. ASSUME NEW p \in Validators, NEW c \in Certs, StoreNew(p, c) PROVE TypeOK'
  <2>1. snap' \in [Validators -> Row]
    BY <1>11, LinkedIsTyped DEF StoreNew
  <2>2. StoreTypeOK'
    BY <1>11, NewIsTyped DEF StoreNew
  <2>. QED
    BY <1>11, <2>1, <2>2 DEF StoreNew
<1>12. ASSUME NEW p \in Validators, StoreRenewed(p) PROVE TypeOK'
  BY <1>12 DEF StoreRenewed, FinalizeRenewal
<1>13. ASSUME NEW p \in Validators, StoreFails(p) PROVE TypeOK'
  BY <1>13 DEF StoreFails
<1>14. ASSUME NEW p \in Validators, Complete(p) PROVE TypeOK'
  BY <1>14 DEF Complete
<1>15. ASSUME NEW p \in Validators, Abandon(p) PROVE TypeOK'
  BY <1>15 DEF Abandon
<1>16. ASSUME NEW o \in Orders, CASigns(o) PROVE TypeOK'
  BY <1>16 DEF CASigns
<1>17. CASE UNCHANGED vars
  BY <1>17 DEF vars
<1>. QED
  BY <1>1, <1>2, <1>3, <1>4, <1>5, <1>6, <1>7, <1>8, <1>9,
     <1>10, <1>11, <1>12, <1>13, <1>14, <1>15, <1>16, <1>17 DEF Next, Work

\* Rows, calls and the CA's ledger always hold values of their types: no status outside the
\* state table is ever written, however calls interleave and fail.
THEOREM TypeCorrect == Spec => []TypeOK
BY InitTypeOK, StepTypeOK, PTL DEF Spec

-----------------------------------------------------------------------------
(* The calls.                                                                 *)

LEMMA InitCallsInv == Init => CallsInv
<1> SUFFICES ASSUME Init PROVE CallsInv
  OBVIOUS
<1>1. TypeOK
  BY InitTypeOK
<1>. QED
  BY <1>1, MaxSerialAssumption, OrdersAssumption
     DEF CallsInv, LedgerOK, RowsOK, CallsOK, StoredAreSigned, AbsentHasNoVersions, Checking, Exists,
         Init, StoreInit, NoRow, Serials

LEMMA StepCallsInv == CallsInv /\ [Next]_vars => CallsInv'
<1> SUFFICES ASSUME CallsInv, [Next]_vars PROVE CallsInv'
  OBVIOUS
<1>0. TypeOK'
  BY StepTypeOK DEF CallsInv
<1> USE <1>0, MaxSerialAssumption, OrdersAssumption
    DEF CallsInv, TypeOK, StoreTypeOK, LedgerOK, RowsOK, CallsOK, StoredAreSigned, AbsentHasNoVersions,
        Exists, Status, Checking, Row, NoRow, Link, Serials, NoSerial, storeVars, Goto, Return, Update
<1>1. ASSUME NEW o \in Orders, Create(o) PROVE CallsInv'
  BY <1>1 DEF Create, Insert
<1>2. ASSUME NEW o \in Orders, NEW c \in Certs, CreateRenewal(o, c) PROVE CallsInv'
  BY <1>2 DEF CreateRenewal, Insert
<1>3. ASSUME NEW p \in Validators, NEW o \in Orders, Get(p, o) PROVE CallsInv'
  BY <1>3 DEF Get
<1>4. ASSUME NEW p \in Validators, ReturnSettled(p) PROVE CallsInv'
  BY <1>4 DEF ReturnSettled
<1>5. ASSUME NEW p \in Validators, NotYet(p) PROVE CallsInv'
  BY <1>5 DEF NotYet, NoteOvertaken
<1>6. ASSUME NEW p \in Validators, Reject(p) PROVE CallsInv'
  BY <1>6 DEF Reject, NoteOvertaken
<1>7. ASSUME NEW p \in Validators, Claim(p) PROVE CallsInv'
  BY <1>7 DEF Claim, CountClaim
<1>8. ASSUME NEW p \in Validators, ClaimLost(p) PROVE CallsInv'
  BY <1>8 DEF ClaimLost
<1>9. ASSUME NEW p \in Validators, Issue(p) PROVE CallsInv'
  BY <1>9 DEF Issue
<1>10. ASSUME NEW p \in Validators, IssueRefused(p) PROVE CallsInv'
  BY <1>10 DEF IssueRefused
<1>11. ASSUME NEW p \in Validators, NEW c \in Certs, StoreNew(p, c) PROVE CallsInv'
  BY <1>11 DEF StoreNew, FinalizeNewCertificate
<1>12. ASSUME NEW p \in Validators, StoreRenewed(p) PROVE CallsInv'
  BY <1>12 DEF StoreRenewed, FinalizeRenewal
<1>13. ASSUME NEW p \in Validators, StoreFails(p) PROVE CallsInv'
  BY <1>13 DEF StoreFails
<1>14. ASSUME NEW p \in Validators, Complete(p) PROVE CallsInv'
  BY <1>14 DEF Complete
<1>15. ASSUME NEW p \in Validators, Abandon(p) PROVE CallsInv'
  BY <1>15 DEF Abandon
<1>16. ASSUME NEW o \in Orders, CASigns(o) PROVE CallsInv'
  BY <1>16 DEF CASigns
<1>17. CASE UNCHANGED vars
  BY <1>17 DEF vars
<1>. QED
  BY <1>1, <1>2, <1>3, <1>4, <1>5, <1>6, <1>7, <1>8, <1>9,
     <1>10, <1>11, <1>12, <1>13, <1>14, <1>15, <1>16, <1>17 DEF Next, Work

-----------------------------------------------------------------------------
(* The claim.                                                                 *)

ClaimInv ==
  /\ CallsInv
  /\ ClaimExclusive
  /\ OneSubmissionUnlessOvertaken

LEMMA InitClaimInv == Init => ClaimInv
BY InitCallsInv, OrdersAssumption
   DEF ClaimInv, ClaimExclusive, OneSubmissionUnlessOvertaken, Init, NoRow, Issuing

LEMMA StepClaimInv == ClaimInv /\ [Next]_vars => ClaimInv'
<1> SUFFICES ASSUME ClaimInv, [Next]_vars PROVE ClaimInv'
  OBVIOUS
<1>0. CallsInv'
  BY StepCallsInv DEF ClaimInv
<1> USE <1>0, MaxSerialAssumption, OrdersAssumption
    DEF ClaimInv, CallsInv, TypeOK, StoreTypeOK, CallsOK, ClaimExclusive, OneSubmissionUnlessOvertaken,
        Issuing, Checking, Row, NoRow, Link, Serials, NoSerial, storeVars, Goto, Return, Update
<1>1. ASSUME NEW o \in Orders, Create(o) PROVE ClaimInv'
  BY <1>1 DEF Create, Insert
<1>2. ASSUME NEW o \in Orders, NEW c \in Certs, CreateRenewal(o, c) PROVE ClaimInv'
  BY <1>2 DEF CreateRenewal, Insert
<1>3. ASSUME NEW p \in Validators, NEW o \in Orders, Get(p, o) PROVE ClaimInv'
  BY <1>3 DEF Get
<1>4. ASSUME NEW p \in Validators, ReturnSettled(p) PROVE ClaimInv'
  BY <1>4 DEF ReturnSettled
<1>5. ASSUME NEW p \in Validators, NotYet(p) PROVE ClaimInv'
  BY <1>5 DEF NotYet, NoteOvertaken
<1>6. ASSUME NEW p \in Validators, Reject(p) PROVE ClaimInv'
  BY <1>6 DEF Reject, NoteOvertaken
<1>7. ASSUME NEW p \in Validators, Claim(p) PROVE ClaimInv'
  BY <1>7 DEF Claim, CountClaim
<1>8. ASSUME NEW p \in Validators, ClaimLost(p) PROVE ClaimInv'
  BY <1>8 DEF ClaimLost
<1>9. ASSUME NEW p \in Validators, Issue(p) PROVE ClaimInv'
  BY <1>9 DEF Issue
<1>10. ASSUME NEW p \in Validators, IssueRefused(p) PROVE ClaimInv'
  BY <1>10 DEF IssueRefused
<1>11. ASSUME NEW p \in Validators, NEW c \in Certs, StoreNew(p, c) PROVE ClaimInv'
  BY <1>11 DEF StoreNew, FinalizeNewCertificate
<1>12. ASSUME NEW p \in Validators, StoreRenewed(p) PROVE ClaimInv'
  BY <1>12 DEF StoreRenewed, FinalizeRenewal
<1>13. ASSUME NEW p \in Validators, StoreFails(p) PROVE ClaimInv'
  BY <1>13 DEF StoreFails
<1>14. ASSUME NEW p \in Validators, Complete(p) PROVE ClaimInv'
  BY <1>14 DEF Complete
<1>15. ASSUME NEW p \in Validators, Abandon(p) PROVE ClaimInv'
  BY <1>15 DEF Abandon
<1>16. ASSUME NEW o \in Orders, CASigns(o) PROVE ClaimInv'
  BY <1>16 DEF CASigns
<1>17. CASE UNCHANGED vars
  BY <1>17 DEF vars
<1>. QED
  BY <1>1, <1>2, <1>3, <1>4, <1>5, <1>6, <1>7, <1>8, <1>9,
     <1>10, <1>11, <1>12, <1>13, <1>14, <1>15, <1>16, <1>17 DEF Next, Work

\* For any number of concurrent calls and any faults: at most one call goes on to the CA for
\* an order, except for orders whose row a late write-back overwrote.
THEOREM OneSubmission == Spec => []OneSubmissionUnlessOvertaken
<1>1. ClaimInv => OneSubmissionUnlessOvertaken
  BY DEF ClaimInv
<1>. QED
  BY <1>1, InitClaimInv, StepClaimInv, PTL DEF Spec

-----------------------------------------------------------------------------
(* Filing a certificate once.                                                 *)

\* C are the certificates that only orders file: all of them until some are imported.
FiledInv(C) ==
  /\ ClaimInv
  /\ FiledLate(C)
  /\ OnceAmong(C)

LEMMA InitFiledInv == \A C \in SUBSET Certs : Init => FiledInv(C)
BY InitClaimInv DEF FiledInv, FiledLate, Unfiled, OnceAmong, Init, StoreInit

\* No step takes an order back before the filing, unless it overwrites the row.
LEMMA EarlyStaysEarly ==
  ASSUME ClaimInv, [Next]_vars, NEW x \in Orders \ overtaken', Early(x)'
  PROVE  Early(x) /\ x \notin overtaken
<1> USE OrdersAssumption
    DEF ClaimInv, CallsInv, TypeOK, CallsOK, ClaimExclusive, Early, Issuing,
        Checking, Row, NoRow, Link, storeVars, Goto, Return, Update
<1>1. ASSUME NEW o \in Orders, Create(o) PROVE Early(x) /\ x \notin overtaken
  BY <1>1 DEF Create, Insert
<1>2. ASSUME NEW o \in Orders, NEW c \in Certs, CreateRenewal(o, c) PROVE Early(x) /\ x \notin overtaken
  BY <1>2 DEF CreateRenewal, Insert
<1>3. ASSUME NEW p \in Validators, NEW o \in Orders, Get(p, o) PROVE Early(x) /\ x \notin overtaken
  BY <1>3 DEF Get
<1>4. ASSUME NEW p \in Validators, ReturnSettled(p) PROVE Early(x) /\ x \notin overtaken
  BY <1>4 DEF ReturnSettled
<1>5. ASSUME NEW p \in Validators, NotYet(p) PROVE Early(x) /\ x \notin overtaken
  BY <1>5 DEF NotYet, NoteOvertaken
<1>6. ASSUME NEW p \in Validators, Reject(p) PROVE Early(x) /\ x \notin overtaken
  BY <1>6 DEF Reject, NoteOvertaken
<1>7. ASSUME NEW p \in Validators, Claim(p) PROVE Early(x) /\ x \notin overtaken
  BY <1>7 DEF Claim, CountClaim
<1>8. ASSUME NEW p \in Validators, ClaimLost(p) PROVE Early(x) /\ x \notin overtaken
  BY <1>8 DEF ClaimLost
<1>9. ASSUME NEW p \in Validators, Issue(p) PROVE Early(x) /\ x \notin overtaken
  BY <1>9 DEF Issue
<1>10. ASSUME NEW p \in Validators, IssueRefused(p) PROVE Early(x) /\ x \notin overtaken
  BY <1>10 DEF IssueRefused
<1>11. ASSUME NEW p \in Validators, NEW c \in Certs, StoreNew(p, c) PROVE Early(x) /\ x \notin overtaken
  BY <1>11 DEF StoreNew, FinalizeNewCertificate
<1>12. ASSUME NEW p \in Validators, StoreRenewed(p) PROVE Early(x) /\ x \notin overtaken
  BY <1>12 DEF StoreRenewed, FinalizeRenewal
<1>13. ASSUME NEW p \in Validators, StoreFails(p) PROVE Early(x) /\ x \notin overtaken
  BY <1>13 DEF StoreFails
<1>14. ASSUME NEW p \in Validators, Complete(p) PROVE Early(x) /\ x \notin overtaken
  BY <1>14 DEF Complete
<1>15. ASSUME NEW p \in Validators, Abandon(p) PROVE Early(x) /\ x \notin overtaken
  BY <1>15 DEF Abandon
<1>16. ASSUME NEW o \in Orders, CASigns(o) PROVE Early(x) /\ x \notin overtaken
  BY <1>16 DEF CASigns
<1>17. CASE UNCHANGED vars
  BY <1>17 DEF vars
<1>. QED
  BY <1>1, <1>2, <1>3, <1>4, <1>5, <1>6, <1>7, <1>8, <1>9,
     <1>10, <1>11, <1>12, <1>13, <1>14, <1>15, <1>16, <1>17 DEF Next, Work

\* Every step but the two that store and the signing leaves the filing of signed certificates
\* alone.
LEMMA FilingUnchanged ==
  ASSUME [Next]_vars,
         ~ \E p \in Validators, c \in Certs : StoreNew(p, c),
         ~ \E p \in Validators : StoreRenewed(p),
         ~ \E o \in Orders : CASigns(o)
  PROVE  UNCHANGED <<certificate, versions, ledger, signed, raced>>
BY DEF Next, Work, vars, storeVars, Create, CreateRenewal, Insert, Get, ReturnSettled, NotYet,
   Reject, Claim, ClaimLost, Issue, IssueRefused, StoreFails, Complete, Abandon

\* The rows that were overwritten are not forgotten.
LEMMA OvertakenGrows == ASSUME [Next]_vars PROVE overtaken \subseteq overtaken'
BY DEF Next, Work, vars, Create, CreateRenewal, Insert, Get, ReturnSettled, NotYet, NoteOvertaken,
   Reject, Claim, ClaimLost, Issue, IssueRefused, StoreNew, StoreRenewed, StoreFails, Complete,
   Abandon, CASigns

\* A call that stores adds its serial to one certificate and leaves the CA and the rows alone.
Files(p, c) ==
  /\ pc[p] = "signed"
  /\ pc' = [pc EXCEPT ![p] = "stored"]
  /\ versions' = [versions EXCEPT ![c] = @ \cup {serial[p]}]
  /\ UNCHANGED <<order, target, ledger, overtaken>>

LEMMA StoringFiles ==
  ASSUME TypeOK, NEW p \in Validators
  PROVE  /\ \A c \in Certs : StoreNew(p, c) => Files(p, c)
         /\ StoreRenewed(p) => snap[p].cert \in Certs /\ Files(p, snap[p].cert)
BY DEF StoreNew, StoreRenewed, FinalizeNewCertificate, FinalizeRenewal, Files, Goto, TypeOK, Row, Link

LEMMA FilingKeepsFiledInv ==
  ASSUME NEW C \in SUBSET Certs, FiledInv(C), NEW p \in Validators, NEW c \in Certs, Files(p, c)
  PROVE  FiledLate(C)' /\ OnceAmong(C)'
<1> USE DEF FiledInv, ClaimInv, CallsInv, TypeOK, StoreTypeOK, CallsOK, ClaimExclusive, Issuing, Files
<1>1. ledger[serial[p]] = target[p] /\ target[p] \in Orders
  OBVIOUS
<1>2. target[p] \notin overtaken => ~ Early(target[p])'
  BY DEF Early
<1>3. \A o \in Orders \ overtaken : Early(o)' => o # target[p] /\ Early(o)
  BY <1>2 DEF Early
<1>4. \A o \in Orders : o # target[p] /\ Unfiled(o, C) => Unfiled(o, C)'
  BY <1>1 DEF Unfiled
<1>5. FiledLate(C)'
  BY <1>3, <1>4 DEF FiledLate
<1>6. target[p] \notin overtaken => \A d \in C : serial[p] \notin versions[d]
  BY <1>1 DEF FiledLate, Early, Unfiled
<1>7. OnceAmong(C)'
  BY <1>1, <1>6 DEF OnceAmong
<1>. QED
  BY <1>5, <1>7

LEMMA StepFiledInv ==
  ASSUME NEW C \in SUBSET Certs, FiledInv(C), [Next]_vars
  PROVE  FiledInv(C)'
<1>0. ClaimInv'
  BY StepClaimInv DEF FiledInv
<1>1. ASSUME NEW p \in Validators, NEW c \in Certs, StoreNew(p, c) PROVE FiledInv(C)'
  BY <1>0, <1>1, StoringFiles, FilingKeepsFiledInv DEF FiledInv, ClaimInv, CallsInv
<1>2. ASSUME NEW p \in Validators, StoreRenewed(p) PROVE FiledInv(C)'
  BY <1>0, <1>2, StoringFiles, FilingKeepsFiledInv DEF FiledInv, ClaimInv, CallsInv
<1>3. \A o \in Orders \ overtaken' : Early(o)' => Early(o) /\ o \notin overtaken
  BY EarlyStaysEarly DEF FiledInv
<1>4. ASSUME NEW o \in Orders, CASigns(o) PROVE FiledInv(C)'
  <2>1. /\ \A c \in Certs : \A s \in versions[c] : s # signed + 1
        /\ UNCHANGED <<versions, overtaken>>
    BY <1>4, MaxSerialAssumption
       DEF CASigns, storeVars, FiledInv, ClaimInv, CallsInv, StoredAreSigned, TypeOK, StoreTypeOK, Serials
  <2>2. \A c \in Certs : \A s \in versions[c] : ledger'[s] = ledger[s]
    BY <1>4, <2>1 DEF CASigns, FiledInv, ClaimInv, CallsInv, TypeOK, StoreTypeOK
  <2>3. OnceAmong(C)'
    BY <2>1, <2>2 DEF FiledInv, OnceAmong
  <2>4. FiledLate(C)'
    BY <1>3, <2>1, <2>2 DEF FiledInv, FiledLate, Unfiled
  <2>. QED
    BY <1>0, <2>3, <2>4 DEF FiledInv
<1>5. CASE /\ ~ \E p \in Validators, c \in Certs : StoreNew(p, c)
           /\ ~ \E p \in Validators : StoreRenewed(p)
           /\ ~ \E o \in Orders : CASigns(o)
  <2>1. UNCHANGED <<versions, ledger>> /\ overtaken \subseteq overtaken'
    BY <1>5, FilingUnchanged, OvertakenGrows
  <2>2. OnceAmong(C)'
    BY <2>1 DEF FiledInv, OnceAmong
  <2>3. FiledLate(C)'
    BY <1>3, <2>1 DEF FiledInv, FiledLate, Unfiled
  <2>. QED
    BY <1>0, <2>2, <2>3 DEF FiledInv
<1>. QED
  BY <1>1, <1>2, <1>4, <1>5

\* No certificate is filed under two inventory entries, except for orders whose row a late
\* write-back overwrote.
THEOREM FiledOnce == Spec => []FiledOnceUnlessOvertaken
<1>1. FiledInv(Certs) => FiledOnceUnlessOvertaken
  BY DEF FiledInv, OnceAmong, FiledOnceUnlessOvertaken
<1>2. Init => FiledInv(Certs)
  BY InitFiledInv
<1>3. FiledInv(Certs) /\ [Next]_vars => FiledInv(Certs)'
  BY StepFiledInv
<1>. QED
  BY <1>1, <1>2, <1>3, PTL DEF Spec

-----------------------------------------------------------------------------
(* Issued orders.                                                             *)

\* The claim plays no part: the calls' own knowledge is enough.
IssuedInv == CallsInv /\ IssuedMeansStored

LEMMA StepIssuedInv == IssuedInv /\ [Next]_vars => IssuedInv'
<1> SUFFICES ASSUME IssuedInv, [Next]_vars PROVE IssuedInv'
  OBVIOUS
<1>0. CallsInv'
  BY StepCallsInv DEF IssuedInv
<1> USE <1>0, MaxSerialAssumption, OrdersAssumption
    DEF IssuedInv, CallsInv, TypeOK, StoreTypeOK, LedgerOK, CallsOK, StoredAreSigned, IssuedMeansStored,
        Checking, Row, NoRow, Link, Serials, NoSerial, storeVars, Goto, Return, Update
<1>1. ASSUME NEW o \in Orders, Create(o) PROVE IssuedInv'
  BY <1>1 DEF Create, Insert
<1>2. ASSUME NEW o \in Orders, NEW c \in Certs, CreateRenewal(o, c) PROVE IssuedInv'
  BY <1>2 DEF CreateRenewal, Insert
<1>3. ASSUME NEW p \in Validators, NEW o \in Orders, Get(p, o) PROVE IssuedInv'
  BY <1>3 DEF Get
<1>4. ASSUME NEW p \in Validators, ReturnSettled(p) PROVE IssuedInv'
  BY <1>4 DEF ReturnSettled
<1>5. ASSUME NEW p \in Validators, NotYet(p) PROVE IssuedInv'
  BY <1>5 DEF NotYet, NoteOvertaken
<1>6. ASSUME NEW p \in Validators, Reject(p) PROVE IssuedInv'
  BY <1>6 DEF Reject, NoteOvertaken
<1>7. ASSUME NEW p \in Validators, Claim(p) PROVE IssuedInv'
  BY <1>7 DEF Claim, CountClaim
<1>8. ASSUME NEW p \in Validators, ClaimLost(p) PROVE IssuedInv'
  BY <1>8 DEF ClaimLost
<1>9. ASSUME NEW p \in Validators, Issue(p) PROVE IssuedInv'
  BY <1>9 DEF Issue
<1>10. ASSUME NEW p \in Validators, IssueRefused(p) PROVE IssuedInv'
  BY <1>10 DEF IssueRefused
<1>11. ASSUME NEW p \in Validators, NEW c \in Certs, StoreNew(p, c) PROVE IssuedInv'
  BY <1>11 DEF StoreNew, FinalizeNewCertificate
<1>12. ASSUME NEW p \in Validators, StoreRenewed(p) PROVE IssuedInv'
  BY <1>12 DEF StoreRenewed, FinalizeRenewal
<1>13. ASSUME NEW p \in Validators, StoreFails(p) PROVE IssuedInv'
  BY <1>13 DEF StoreFails
<1>14. ASSUME NEW p \in Validators, Complete(p) PROVE IssuedInv'
  BY <1>14 DEF Complete
<1>15. ASSUME NEW p \in Validators, Abandon(p) PROVE IssuedInv'
  BY <1>15 DEF Abandon
<1>16. ASSUME NEW o \in Orders, CASigns(o) PROVE IssuedInv'
  BY <1>16 DEF CASigns
<1>17. CASE UNCHANGED vars
  BY <1>17 DEF vars
<1>. QED
  BY <1>1, <1>2, <1>3, <1>4, <1>5, <1>6, <1>7, <1>8, <1>9,
     <1>10, <1>11, <1>12, <1>13, <1>14, <1>15, <1>16, <1>17 DEF Next, Work

\* An issued order always points at an inventory entry that holds a certificate signed for it.
THEOREM IssuedIsStored == Spec => []IssuedMeansStored
<1>1. Init => IssuedInv
  BY InitCallsInv DEF IssuedInv, IssuedMeansStored, Init, NoRow
<1>2. IssuedInv => IssuedMeansStored
  BY DEF IssuedInv
<1>. QED
  BY <1>1, <1>2, StepIssuedInv, PTL DEF Spec

-----------------------------------------------------------------------------
(* Stranded orders.                                                           *)

StrandedInv == TypeOK /\ IsFiniteSet(Stranded) /\ StrandedOnlyByFaults

\* A step strands no order, or is a fault and strands the order of the call it ends.
LEMMA StrandingStep ==
  ASSUME TypeOK, [Next]_vars
  PROVE  \/ Stranded' \subseteq Stranded /\ faults' = faults
         \/ /\ faults' = faults + 1
            /\ \E p \in Validators : target[p] \in Orders /\ Stranded' \subseteq Stranded \cup {target[p]}
<1> USE OrdersAssumption DEF TypeOK, Stranded, Issuing, Checking, Row, NoRow, Goto, Return, Update
<1>1. ASSUME NEW o \in Orders, NEW link, Insert(o, link)
      PROVE  Stranded' \subseteq Stranded /\ faults' = faults
  BY <1>1 DEF Insert
<1>2. ASSUME NEW p \in Validators, NEW o \in Orders, Get(p, o)
      PROVE  Stranded' \subseteq Stranded /\ faults' = faults
  BY <1>2 DEF Get
<1>3. ASSUME NEW p \in Validators, Claim(p)
      PROVE  Stranded' \subseteq Stranded /\ faults' = faults
  BY <1>3 DEF Claim
<1>4. ASSUME NEW p \in Validators, ReturnSettled(p) \/ ClaimLost(p)
      PROVE  Stranded' \subseteq Stranded /\ faults' = faults
  BY <1>4 DEF ReturnSettled, ClaimLost
<1>5. ASSUME NEW p \in Validators, pc[p] # "idle", faults' = faults, UNCHANGED storeVars,
             NEW st \in {"awaiting_validation", "failed", "issued"}, Update(p, st), Return(p)
      PROVE  Stranded' \subseteq Stranded /\ faults' = faults
  BY <1>5
<1>6. ASSUME NEW p \in Validators,
             NotYet(p) \/ Reject(p) \/ IssueRefused(p) \/ StoreFails(p) \/ Complete(p)
      PROVE  Stranded' \subseteq Stranded /\ faults' = faults
  BY <1>6, <1>5 DEF NotYet, Reject, IssueRefused, StoreFails, Complete
<1>7. ASSUME NEW p \in Validators, Issue(p) \/ (\E c \in Certs : StoreNew(p, c)) \/ StoreRenewed(p)
      PROVE  Stranded' \subseteq Stranded /\ faults' = faults
  BY <1>7 DEF Issue, StoreNew, StoreRenewed
<1>8. ASSUME NEW o \in Orders, CASigns(o)
      PROVE  Stranded' \subseteq Stranded /\ faults' = faults
  BY <1>8 DEF CASigns
<1>9. ASSUME NEW p \in Validators, Abandon(p)
      PROVE  /\ faults' = faults + 1 /\ target[p] \in Orders
             /\ Stranded' \subseteq Stranded \cup {target[p]}
  BY <1>9 DEF Abandon
<1>10. CASE UNCHANGED vars
  BY <1>10 DEF vars
<1>. QED
  BY <1>1, <1>2, <1>3, <1>4, <1>6, <1>7, <1>8, <1>9, <1>10 DEF Next, Work, Create, CreateRenewal

LEMMA StepStrandedInv == StrandedInv /\ [Next]_vars => StrandedInv'
<1> SUFFICES ASSUME StrandedInv, [Next]_vars PROVE StrandedInv'
  OBVIOUS
<1>1. TypeOK /\ TypeOK' /\ faults \in Nat
  BY StepTypeOK, OrdersAssumption DEF StrandedInv, TypeOK
<1>2. ASSUME Stranded' \subseteq Stranded, faults' = faults
      PROVE  StrandedInv'
  <2>1. IsFiniteSet(Stranded') /\ Cardinality(Stranded') <= Cardinality(Stranded)
    BY <1>2, FS_Subset DEF StrandedInv
  <2>2. Cardinality(Stranded) \in Nat /\ Cardinality(Stranded') \in Nat
    BY <2>1, FS_CardinalityType DEF StrandedInv
  <2>. QED
    BY <1>1, <1>2, <2>1, <2>2 DEF StrandedInv, StrandedOnlyByFaults
<1>3. ASSUME NEW o, Stranded' \subseteq Stranded \cup {o}, faults' = faults + 1
      PROVE  StrandedInv'
  <2>1. /\ IsFiniteSet(Stranded \cup {o})
        /\ Cardinality(Stranded \cup {o}) <= Cardinality(Stranded) + 1
    <3>1. Cardinality(Stranded) \in Nat
      BY FS_CardinalityType DEF StrandedInv
    <3>. QED
      BY <3>1, FS_AddElement DEF StrandedInv
  <2>2. /\ IsFiniteSet(Stranded')
        /\ Cardinality(Stranded') <= Cardinality(Stranded \cup {o})
    BY <1>3, <2>1, FS_Subset
  <2>3. Cardinality(Stranded) \in Nat /\ Cardinality(Stranded') \in Nat /\ Cardinality(Stranded \cup {o}) \in Nat
    BY <2>1, <2>2, FS_CardinalityType DEF StrandedInv
  <2>. QED
    BY <1>1, <1>3, <2>1, <2>2, <2>3 DEF StrandedInv, StrandedOnlyByFaults
<1>. QED
  BY <1>1, <1>2, <1>3, StrandingStep

\* However calls overlap and overwrite each other's rows, no more orders are left issuing with
\* nobody at work on them than calls were cut short by a fault.
THEOREM StrandedByFaults == Spec => []StrandedOnlyByFaults
<1>1. Init => StrandedInv
  <2> SUFFICES ASSUME Init PROVE StrandedInv
    OBVIOUS
  <2>1. Stranded = {} /\ faults = 0
    BY DEF Init, Stranded, NoRow
  <2>. QED
    BY <2>1, InitTypeOK, FS_EmptySet DEF StrandedInv, StrandedOnlyByFaults
<1>2. StrandedInv => StrandedOnlyByFaults
  BY DEF StrandedInv
<1>. QED
  BY <1>1, <1>2, StepStrandedInv, PTL DEF Spec

-----------------------------------------------------------------------------
(* The inventory.                                                             *)

\* Every step of the order service is a transaction of the inventory or leaves it alone.
LEMMA StepStore == CallsInv /\ [Next]_vars => [StoreNext]_storeVars
<1> SUFFICES ASSUME CallsInv, [Next]_vars PROVE [StoreNext]_storeVars
  OBVIOUS
<1> USE DEF CallsInv, TypeOK, CallsOK
<1>1. ASSUME NEW p \in Validators, NEW c \in Certs, StoreNew(p, c) PROVE StoreNext
  BY <1>1 DEF StoreNew, StoreNext, NoSerial
<1>2. ASSUME NEW p \in Validators, StoreRenewed(p) PROVE StoreNext
  BY <1>2 DEF StoreRenewed, StoreNext, NoSerial, Link, Row
<1>3. ASSUME ~ \E p \in Validators, c \in Certs : StoreNew(p, c),
             ~ \E p \in Validators : StoreRenewed(p)
      PROVE  UNCHANGED storeVars
  BY <1>3 DEF Next, Work, vars, storeVars, Create, CreateRenewal, Insert, Get, ReturnSettled, NotYet,
     Reject, Claim, ClaimLost, Issue, IssueRefused, StoreFails, Complete, Abandon, CASigns
<1>. QED
  BY <1>1, <1>2, <1>3

\* The order service implements the abstract inventory: however Validate calls interleave,
\* certificates are recorded by whole transactions.
THEOREM OrdersImplementStore == Spec => StoreSpec
<1>1. Init => StoreInit
  BY DEF Init
<1>. QED
  BY <1>1, InitCallsInv, StepCallsInv, StepStore, PTL DEF Spec, StoreSpec

\* Hence every row shows a stored version.
THEOREM OrdersStoreSafety == Spec => []RowBackedByVersion
BY OrdersImplementStore, StoreSafety, PTL

-----------------------------------------------------------------------------
(* Where certificates are filed.                                              *)

\* A certificate is there, and its first version signed, before a renewal of it is signed.
NewBeforeRenewals ==
  \A c \in Certs : \A t \in versions[c] : \A s \in 1 .. signed :
    ledger[s] \in Orders /\ origin[ledger[t]] = NoCert /\ origin[ledger[s]] = c => t <= s

PlaceInv ==
  /\ CallsInv
  /\ NewBeforeRenewals
  /\ RenewalsStayInPlace

LEMMA RenewalKeepsPlaces ==
  ASSUME PlaceInv, NEW p \in Validators, StoreRenewed(p)
  PROVE  NewBeforeRenewals' /\ RenewalsStayInPlace'
<1> DEFINE c == snap[p].cert
           n == serial[p]
<1>1. /\ c \in Certs /\ n \in 1 .. signed /\ ledger[n] = target[p] /\ target[p] \in Orders
      /\ origin[target[p]] = c
  BY OrdersAssumption DEF StoreRenewed, PlaceInv, CallsInv, TypeOK, CallsOK, Row, Link
<1>2. /\ versions' = [versions EXCEPT ![c] = @ \cup {n}]
      /\ UNCHANGED <<ledger, signed, origin>>
  BY DEF StoreRenewed, FinalizeRenewal
<1>3. versions \in [Certs -> SUBSET Serials] /\ NoCert \notin Certs
  BY OrdersAssumption DEF PlaceInv, CallsInv, TypeOK, StoreTypeOK
<1>4. /\ \A d \in Certs : \A t \in versions'[d] : t \in versions[d] \/ (d = c /\ t = n)
      /\ \A d \in Certs : versions[d] \subseteq versions'[d]
  BY <1>1, <1>2, <1>3
<1>5. \A t \in versions[c] : origin[ledger[t]] = NoCert => t <= n
  BY <1>1 DEF PlaceInv, NewBeforeRenewals
<1>6. NewBeforeRenewals'
  BY <1>1, <1>2, <1>3, <1>4 DEF PlaceInv, NewBeforeRenewals
<1>7. RenewalsStayInPlace'
  BY <1>1, <1>2, <1>3, <1>4, <1>5 DEF PlaceInv, RenewalsStayInPlace
<1>. QED
  BY <1>6, <1>7

LEMMA NewKeepsPlaces ==
  ASSUME PlaceInv, NEW p \in Validators, NEW c \in Certs, StoreNew(p, c)
  PROVE  NewBeforeRenewals' /\ RenewalsStayInPlace'
<1> DEFINE n == serial[p]
<1>1. /\ n \in 1 .. signed /\ ledger[n] = target[p] /\ target[p] \in Orders
      /\ origin[target[p]] = NoCert
  BY DEF StoreNew, PlaceInv, CallsInv, TypeOK, CallsOK
<1>2. /\ versions' = [versions EXCEPT ![c] = @ \cup {n}]
      /\ UNCHANGED <<ledger, signed, origin>>
      /\ ~ Exists(c)
  BY DEF StoreNew, FinalizeNewCertificate
<1>3. versions \in [Certs -> SUBSET Serials] /\ versions[c] = {}
  BY <1>2 DEF PlaceInv, CallsInv, AbsentHasNoVersions, TypeOK, StoreTypeOK
<1>4. /\ versions'[c] = {n}
      /\ \A d \in Certs : d # c => versions'[d] = versions[d]
  BY <1>2, <1>3
<1>5. \A o \in Orders : origin[o] # c
  BY <1>2, OrdersAssumption DEF PlaceInv, CallsInv, RowsOK
<1>6. NewBeforeRenewals'
  BY <1>1, <1>2, <1>4, <1>5 DEF PlaceInv, NewBeforeRenewals
<1>7. n \in Int
  BY <1>1
<1>8. RenewalsStayInPlace'
  BY <1>1, <1>2, <1>4, <1>7 DEF PlaceInv, RenewalsStayInPlace
<1>. QED
  BY <1>6, <1>8

LEMMA StepPlaceInv == PlaceInv /\ [Next]_vars => PlaceInv'
<1> SUFFICES ASSUME PlaceInv, [Next]_vars PROVE PlaceInv'
  OBVIOUS
<1>0. CallsInv'
  BY StepCallsInv DEF PlaceInv
<1>11. ASSUME NEW p \in Validators, NEW c \in Certs, StoreNew(p, c) PROVE PlaceInv'
  BY <1>0, <1>11, NewKeepsPlaces DEF PlaceInv
<1>12. ASSUME NEW p \in Validators, StoreRenewed(p) PROVE PlaceInv'
  BY <1>0, <1>12, RenewalKeepsPlaces DEF PlaceInv
<1> USE <1>0, MaxSerialAssumption, OrdersAssumption
    DEF PlaceInv, CallsInv, TypeOK, StoreTypeOK, LedgerOK, RowsOK, CallsOK, StoredAreSigned,
        AbsentHasNoVersions, NewBeforeRenewals, RenewalsStayInPlace, Exists,
        Checking, Row, NoRow, Link, Serials, NoSerial, storeVars, Goto, Return, Update
<1>1. ASSUME NEW o \in Orders, Create(o) PROVE PlaceInv'
  BY <1>1 DEF Create, Insert
<1>2. ASSUME NEW o \in Orders, NEW c \in Certs, CreateRenewal(o, c) PROVE PlaceInv'
  BY <1>2 DEF CreateRenewal, Insert
<1>3. ASSUME NEW p \in Validators, NEW o \in Orders, Get(p, o) PROVE PlaceInv'
  BY <1>3 DEF Get
<1>4. ASSUME NEW p \in Validators, ReturnSettled(p) PROVE PlaceInv'
  BY <1>4 DEF ReturnSettled
<1>5. ASSUME NEW p \in Validators, NotYet(p) PROVE PlaceInv'
  BY <1>5 DEF NotYet, NoteOvertaken
<1>6. ASSUME NEW p \in Validators, Reject(p) PROVE PlaceInv'
  BY <1>6 DEF Reject, NoteOvertaken
<1>7. ASSUME NEW p \in Validators, Claim(p) PROVE PlaceInv'
  BY <1>7 DEF Claim, CountClaim
<1>8. ASSUME NEW p \in Validators, ClaimLost(p) PROVE PlaceInv'
  BY <1>8 DEF ClaimLost
<1>9. ASSUME NEW p \in Validators, Issue(p) PROVE PlaceInv'
  BY <1>9 DEF Issue
<1>10. ASSUME NEW p \in Validators, IssueRefused(p) PROVE PlaceInv'
  BY <1>10 DEF IssueRefused
<1>13. ASSUME NEW p \in Validators, StoreFails(p) PROVE PlaceInv'
  BY <1>13 DEF StoreFails
<1>14. ASSUME NEW p \in Validators, Complete(p) PROVE PlaceInv'
  BY <1>14 DEF Complete
<1>15. ASSUME NEW p \in Validators, Abandon(p) PROVE PlaceInv'
  BY <1>15 DEF Abandon
<1>16. ASSUME NEW o \in Orders, CASigns(o) PROVE PlaceInv'
  BY <1>16 DEF CASigns
<1>17. CASE UNCHANGED vars
  BY <1>17 DEF vars
<1>. QED
  BY <1>1, <1>2, <1>3, <1>4, <1>5, <1>6, <1>7, <1>8, <1>9,
     <1>10, <1>11, <1>12, <1>13, <1>14, <1>15, <1>16, <1>17 DEF Next, Work

\* A renewal is only ever filed under the certificate it was opened for, and the first
\* version of every certificate is the one its new-certificate order had signed.
THEOREM RenewalsInPlace == Spec => []RenewalsStayInPlace
<1>1. Init => PlaceInv
  BY InitCallsInv DEF PlaceInv, NewBeforeRenewals, RenewalsStayInPlace, Init, StoreInit
<1>2. PlaceInv => RenewalsStayInPlace
  BY DEF PlaceInv
<1>. QED
  BY <1>1, <1>2, StepPlaceInv, PTL DEF Spec

\* Wherever calls overlap, a certificate is filed where it is due: a renewal in the entry it was
\* opened for, anything else in one entry only, unless the row of its order was overwritten.
THEOREM FiledWhereDue == Spec => []FiledInPlace
BY FiledOnce, RenewalsInPlace, PTL DEF FiledInPlace

-----------------------------------------------------------------------------
(* What the inventory row shows.                                              *)

\* The certificates whose renewals never overlapped and were never overwritten.
Orderly == {c \in Certs \ raced : \A o \in overtaken : origin[o] # c}

\* The row of such a certificate shows its newest version, and at most one renewal of it is
\* outstanding, newer than every version.
Newest(c) ==
  /\ Exists(c) => /\ certificate[c].serial \in versions[c]
                  /\ \A t \in versions[c] : t <= certificate[c].serial
  /\ \A s \in Outstanding(c) : \A t \in versions[c] : t < s
  /\ \A s, t \in Outstanding(c) : s = t

NewestInv(C) ==
  /\ FiledInv(C)
  /\ \A c \in Orderly \cap C : Newest(c)

\* A renewal about to be stored is outstanding.
LEMMA SignedIsOutstanding ==
  ASSUME NEW C \in SUBSET Certs, FiledInv(C), NEW p \in Validators, pc[p] = "signed",
         snap[p].cert \in Orderly \cap C
  PROVE  serial[p] \in Outstanding(snap[p].cert)
<1> USE OrdersAssumption
    DEF FiledInv, ClaimInv, CallsInv, TypeOK, CallsOK, Orderly, Serials
<1>1. /\ target[p] \in Orders \ overtaken
      /\ ledger[serial[p]] = target[p]
      /\ serial[p] \in Serials
      /\ origin[target[p]] = snap[p].cert
      /\ snap[p].cert \in Certs
  OBVIOUS
<1>2. order[target[p]].status = "issuing"
  BY <1>1 DEF ClaimExclusive, Issuing
<1>3. serial[p] \notin versions[snap[p].cert]
  BY <1>1 DEF FiledLate, Early, Unfiled
<1>. QED
  BY <1>1, <1>2, <1>3 DEF Outstanding

\* A failed order stays failed, unless its row is overwritten.
LEMMA FailedStaysFailed ==
  ASSUME ClaimInv, [Next]_vars, NEW x \in Orders \ overtaken', order[x].status = "failed"
  PROVE  order'[x].status = "failed"
<1> USE OrdersAssumption
    DEF ClaimInv, CallsInv, TypeOK, CallsOK, ClaimExclusive, Issuing,
        Checking, Row, NoRow, Link, storeVars, Goto, Return, Update
<1>1. ASSUME NEW o \in Orders, Create(o) PROVE order'[x].status = "failed"
  BY <1>1 DEF Create, Insert
<1>2. ASSUME NEW o \in Orders, NEW c \in Certs, CreateRenewal(o, c) PROVE order'[x].status = "failed"
  BY <1>2 DEF CreateRenewal, Insert
<1>3. ASSUME NEW p \in Validators, NEW o \in Orders, Get(p, o) PROVE order'[x].status = "failed"
  BY <1>3 DEF Get
<1>4. ASSUME NEW p \in Validators, ReturnSettled(p) PROVE order'[x].status = "failed"
  BY <1>4 DEF ReturnSettled
<1>5. ASSUME NEW p \in Validators, NotYet(p) PROVE order'[x].status = "failed"
  BY <1>5 DEF NotYet, NoteOvertaken
<1>6. ASSUME NEW p \in Validators, Reject(p) PROVE order'[x].status = "failed"
  BY <1>6 DEF Reject, NoteOvertaken
<1>7. ASSUME NEW p \in Validators, Claim(p) PROVE order'[x].status = "failed"
  BY <1>7 DEF Claim, CountClaim
<1>8. ASSUME NEW p \in Validators, ClaimLost(p) PROVE order'[x].status = "failed"
  BY <1>8 DEF ClaimLost
<1>9. ASSUME NEW p \in Validators, Issue(p) PROVE order'[x].status = "failed"
  BY <1>9 DEF Issue
<1>10. ASSUME NEW p \in Validators, IssueRefused(p) PROVE order'[x].status = "failed"
  BY <1>10 DEF IssueRefused
<1>11. ASSUME NEW p \in Validators, NEW c \in Certs, StoreNew(p, c) PROVE order'[x].status = "failed"
  BY <1>11 DEF StoreNew, FinalizeNewCertificate
<1>12. ASSUME NEW p \in Validators, StoreRenewed(p) PROVE order'[x].status = "failed"
  BY <1>12 DEF StoreRenewed, FinalizeRenewal
<1>13. ASSUME NEW p \in Validators, StoreFails(p) PROVE order'[x].status = "failed"
  BY <1>13 DEF StoreFails
<1>14. ASSUME NEW p \in Validators, Complete(p) PROVE order'[x].status = "failed"
  BY <1>14 DEF Complete
<1>15. ASSUME NEW p \in Validators, Abandon(p) PROVE order'[x].status = "failed"
  BY <1>15 DEF Abandon
<1>16. ASSUME NEW o \in Orders, CASigns(o) PROVE order'[x].status = "failed"
  BY <1>16 DEF CASigns
<1>17. CASE UNCHANGED vars
  BY <1>17 DEF vars
<1>. QED
  BY <1>1, <1>2, <1>3, <1>4, <1>5, <1>6, <1>7, <1>8, <1>9,
     <1>10, <1>11, <1>12, <1>13, <1>14, <1>15, <1>16, <1>17 DEF Next, Work

\* What an order is for is settled when it is opened.
LEMMA OriginFixed ==
  ASSUME CallsInv, [Next]_vars, NEW x \in Orders, order[x].status # "none"
  PROVE  origin'[x] = origin[x]
<1>1. ASSUME NEW o \in Orders, NEW link, Insert(o, link) PROVE origin'[x] = origin[x]
  BY <1>1 DEF Insert, CallsInv, TypeOK
<1>. QED
  BY <1>1 DEF Next, Work, vars, Create, CreateRenewal, Get, ReturnSettled, NotYet, Reject, Claim,
     ClaimLost, Issue, IssueRefused, StoreNew, StoreRenewed, StoreFails, Complete, Abandon, CASigns

\* No certificate becomes orderly again.
LEMMA OrderlyBefore ==
  ASSUME CallsInv, [Next]_vars
  PROVE  Orderly' \subseteq Orderly
<1>1. raced \subseteq raced'
  BY DEF Next, Work, vars, Create, CreateRenewal, Insert, Get, ReturnSettled, NotYet, Reject, Claim,
     ClaimLost, Issue, IssueRefused, StoreNew, StoreRenewed, StoreFails, Complete, Abandon, CASigns
<1>2. \A o \in overtaken : o \in Orders /\ order[o].status # "none"
  BY DEF CallsInv, TypeOK, RowsOK
<1>. QED
  BY <1>1, <1>2, OvertakenGrows, OriginFixed DEF Orderly

\* Only a signature makes a renewal outstanding.
LEMMA OutstandingBefore ==
  ASSUME ClaimInv, [Next]_vars, NEW c \in Orderly', ~ \E o \in Orders : CASigns(o), versions[c] \subseteq versions'[c]
  PROVE  Outstanding(c)' \subseteq Outstanding(c)
<1> SUFFICES ASSUME NEW s \in Serials \ versions'[c], NEW x \in Orders, ledger'[s] = x,
                    origin'[x] = c, order'[x].status # "failed"
             PROVE  ledger[s] = x /\ origin[x] = c /\ order[x].status # "failed"
  BY DEF Outstanding
<1>1. ledger' = ledger
  BY DEF Next, Work, vars, Create, CreateRenewal, Insert, Get, ReturnSettled, NotYet, Reject, Claim,
     ClaimLost, Issue, IssueRefused, StoreNew, StoreRenewed, StoreFails, Complete, Abandon
<1>2. order[x].status # "none"
  BY <1>1 DEF ClaimInv, CallsInv, LedgerOK
<1>3. x \notin overtaken'
  BY DEF Orderly
<1>. QED
  BY <1>1, <1>2, <1>3, OriginFixed, FailedStaysFailed DEF ClaimInv

\* A certificate that is not there has no renewals.
LEMMA AbsentNotRenewed ==
  ASSUME CallsInv, NEW c \in Certs, ~ Exists(c)
  PROVE  versions[c] = {} /\ Outstanding(c) = {}
BY OrdersAssumption DEF CallsInv, AbsentHasNoVersions, RowsOK, Outstanding

LEMMA StepNewestInv ==
  ASSUME NEW C \in SUBSET Certs, NewestInv(C), [Next]_vars
  PROVE  NewestInv(C)'
<1> SUFFICES ASSUME NEW d \in Orderly' \cap C PROVE Newest(d)'
  BY StepFiledInv DEF NewestInv
<1> USE DEF NewestInv, FiledInv, ClaimInv, CallsInv, TypeOK, StoreTypeOK
<1>0. d \in Orderly \cap C /\ d \in Certs /\ Newest(d) /\ d \notin raced'
  BY OrderlyBefore DEF Orderly
<1>1. ASSUME NEW p \in Validators, NEW c \in Certs, StoreNew(p, c) PROVE Newest(d)'
  <2>1. /\ ~ Exists(c)
        /\ certificate' = [certificate EXCEPT ![c] = [status |-> "active", serial |-> serial[p]]]
        /\ versions' = [versions EXCEPT ![c] = @ \cup {serial[p]}]
        /\ serial[p] \in Serials
        /\ ~ \E o \in Orders : CASigns(o)
    BY <1>1 DEF StoreNew, FinalizeNewCertificate, CASigns, storeVars
  <2>2. Outstanding(d)' \subseteq Outstanding(d)
    BY <1>0, <2>1, OutstandingBefore
  <2>3. CASE d = c
    BY <2>1, <2>2, <2>3, AbsentNotRenewed DEF Newest, Serials
  <2>4. CASE d # c
    BY <1>0, <2>1, <2>2, <2>4 DEF Newest, Exists
  <2>. QED
    BY <2>3, <2>4
<1>2. ASSUME NEW p \in Validators, StoreRenewed(p) PROVE Newest(d)'
  <2> DEFINE c == snap[p].cert
  <2>1. /\ c \in Certs
        /\ certificate' = [certificate EXCEPT ![c] = [status |-> "active", serial |-> serial[p]]]
        /\ versions' = [versions EXCEPT ![c] = @ \cup {serial[p]}]
        /\ serial[p] \in Serials
        /\ ~ \E o \in Orders : CASigns(o)
    BY <1>2 DEF StoreRenewed, FinalizeRenewal, CASigns, storeVars, Row, Link
  <2>2. Outstanding(d)' \subseteq Outstanding(d)
    BY <1>0, <2>1, OutstandingBefore
  <2>3. CASE d = c
    <3>1. serial[p] \in Outstanding(d)
      BY <1>0, <1>2, <2>3, SignedIsOutstanding DEF StoreRenewed
    <3>2. \A t \in versions[d] : t < serial[p]
      BY <1>0, <3>1 DEF Newest
    <3>3. \A s \in Outstanding(d) : s = serial[p]
      BY <1>0, <3>1 DEF Newest
    <3>4. versions'[d] = versions[d] \cup {serial[p]} /\ certificate'[d].serial = serial[p]
      BY <2>1, <2>3
    <3>5. Outstanding(d)' = {}
      BY <2>2, <3>3, <3>4 DEF Outstanding
    <3>6. \A t \in versions'[d] : t <= serial[p]
      BY <2>1, <2>3, <3>2, <3>4 DEF Serials
    <3>. QED
      BY <3>4, <3>5, <3>6 DEF Newest
  <2>4. CASE d # c
    BY <1>0, <2>1, <2>2, <2>4 DEF Newest, Exists
  <2>. QED
    BY <2>3, <2>4
<1>3. ASSUME NEW o \in Orders, CASigns(o) PROVE Newest(d)'
  <2>1. /\ UNCHANGED <<certificate, versions, order, origin>>
        /\ signed + 1 \in Serials
        /\ ledger' = [ledger EXCEPT ![signed + 1] = o]
        /\ origin[o] = d => Outstanding(d) = {}
    BY <1>0, <1>3, MaxSerialAssumption DEF CASigns, storeVars, Serials
  <2>2. \A t \in versions[d] : t < signed + 1
    BY <1>0 DEF StoredAreSigned, Serials
  <2>3. CASE origin[o] = d
    <3>1. Outstanding(d)' \subseteq {signed + 1}
      BY <2>1, <2>3 DEF Outstanding
    <3>. QED
      BY <1>0, <2>1, <2>2, <3>1 DEF Newest, Exists
  <2>4. CASE origin[o] # d
    <3>1. Outstanding(d)' \subseteq Outstanding(d)
      BY <2>1, <2>4 DEF Outstanding
    <3>. QED
      BY <1>0, <2>1, <3>1 DEF Newest, Exists
  <2>. QED
    BY <2>3, <2>4
<1>4. CASE /\ ~ \E p \in Validators, c \in Certs : StoreNew(p, c)
           /\ ~ \E p \in Validators : StoreRenewed(p)
           /\ ~ \E o \in Orders : CASigns(o)
  <2>1. UNCHANGED <<certificate, versions>>
    BY <1>4, FilingUnchanged
  <2>2. Outstanding(d)' \subseteq Outstanding(d)
    BY <1>4, <2>1, OutstandingBefore
  <2>. QED
    BY <1>0, <2>1, <2>2 DEF Newest, Exists
<1>. QED
  BY <1>1, <1>2, <1>3, <1>4

\* The validity and CA reference shown are those of the version that is downloaded, synced and
\* revoked, for every certificate whose renewals never overlapped and were never overwritten.
THEOREM RowShowsLatest == Spec => []RowShowsLatestUnlessRaced
<1>1. Init => NewestInv(Certs)
  BY InitFiledInv, OrdersAssumption DEF NewestInv, Newest, Orderly, Outstanding, Init, StoreInit, Exists
<1>2. NewestInv(Certs) => RowShowsLatestUnlessRaced
  <2> SUFFICES ASSUME NewestInv(Certs), NEW c \in Certs \ raced, Exists(c), \A o \in overtaken : origin[o] # c
               PROVE  certificate[c].serial = LatestVersion(c)
    BY DEF RowShowsLatestUnlessRaced
  <2>1. /\ certificate[c].serial \in versions[c]
        /\ \A t \in versions[c] : t <= certificate[c].serial
        /\ versions[c] \subseteq Int
    BY DEF NewestInv, FiledInv, ClaimInv, Newest, Orderly, CallsInv, TypeOK, StoreTypeOK, Serials
  <2>2. \A s \in versions[c] : (\A t \in versions[c] : t <= s) => s = certificate[c].serial
    BY <2>1
  <2>. QED
    BY <2>1, <2>2 DEF LatestVersion
<1>3. NewestInv(Certs) /\ [Next]_vars => NewestInv(Certs)'
  BY StepNewestInv
<1>. QED
  BY <1>1, <1>2, <1>3, PTL DEF Spec

\* Both together: what the inventory shows is backed, and by the latest unless renewals raced.
THEOREM InventoryKept == Spec => []InventoryHolds
<1>1. RowBackedByVersion /\ RowShowsLatestUnlessRaced => InventoryHolds
  BY DEF InventoryHolds
<1>. QED
  BY <1>1, OrdersStoreSafety, RowShowsLatest, PTL

-----------------------------------------------------------------------------
(* One call at a time.                                                        *)

\* With a single call nobody can be overtaken: the row is still as the call read it.
AloneInv ==
  /\ ClaimInv
  /\ overtaken = {}
  /\ \A p \in Validators : Checking(p) => order[target[p]].status = "awaiting_validation"

LEMMA StepAloneInv ==
  ASSUME \A p, q \in Validators : p = q
  PROVE  AloneInv /\ [Next]_vars => AloneInv'
<1> SUFFICES ASSUME AloneInv, [Next]_vars PROVE AloneInv'
  OBVIOUS
<1>0. ClaimInv'
  BY StepClaimInv DEF AloneInv
<1> USE <1>0, OrdersAssumption
    DEF AloneInv, ClaimInv, CallsInv, TypeOK, CallsOK,
        Checking, Row, NoRow, Link, storeVars, Goto, Return, Update
<1>1. ASSUME NEW o \in Orders, Create(o) PROVE AloneInv'
  BY <1>1 DEF Create, Insert
<1>2. ASSUME NEW o \in Orders, NEW c \in Certs, CreateRenewal(o, c) PROVE AloneInv'
  BY <1>2 DEF CreateRenewal, Insert
<1>3. ASSUME NEW p \in Validators, NEW o \in Orders, Get(p, o) PROVE AloneInv'
  BY <1>3 DEF Get
<1>4. ASSUME NEW p \in Validators, ReturnSettled(p) PROVE AloneInv'
  BY <1>4 DEF ReturnSettled
<1>5. ASSUME NEW p \in Validators, NotYet(p) PROVE AloneInv'
  BY <1>5 DEF NotYet, NoteOvertaken
<1>6. ASSUME NEW p \in Validators, Reject(p) PROVE AloneInv'
  BY <1>6 DEF Reject, NoteOvertaken
<1>7. ASSUME NEW p \in Validators, Claim(p) PROVE AloneInv'
  BY <1>7 DEF Claim, CountClaim
<1>8. ASSUME NEW p \in Validators, ClaimLost(p) PROVE AloneInv'
  BY <1>8 DEF ClaimLost
<1>9. ASSUME NEW p \in Validators, Issue(p) PROVE AloneInv'
  BY <1>9 DEF Issue
<1>10. ASSUME NEW p \in Validators, IssueRefused(p) PROVE AloneInv'
  BY <1>10 DEF IssueRefused
<1>11. ASSUME NEW p \in Validators, NEW c \in Certs, StoreNew(p, c) PROVE AloneInv'
  BY <1>11 DEF StoreNew, FinalizeNewCertificate
<1>12. ASSUME NEW p \in Validators, StoreRenewed(p) PROVE AloneInv'
  BY <1>12 DEF StoreRenewed, FinalizeRenewal
<1>13. ASSUME NEW p \in Validators, StoreFails(p) PROVE AloneInv'
  BY <1>13 DEF StoreFails
<1>14. ASSUME NEW p \in Validators, Complete(p) PROVE AloneInv'
  BY <1>14 DEF Complete
<1>15. ASSUME NEW p \in Validators, Abandon(p) PROVE AloneInv'
  BY <1>15 DEF Abandon
<1>16. ASSUME NEW o \in Orders, CASigns(o) PROVE AloneInv'
  BY <1>16 DEF CASigns
<1>17. CASE UNCHANGED vars
  BY <1>17 DEF vars
<1>. QED
  BY <1>1, <1>2, <1>3, <1>4, <1>5, <1>6, <1>7, <1>8, <1>9,
     <1>10, <1>11, <1>12, <1>13, <1>14, <1>15, <1>16, <1>17 DEF Next, Work

\* What writing one row does to the statuses a client sees.
LEMMA WriteMovesStatus ==
  ASSUME TypeOK, NEW x \in Orders, NEW st, NEW link,
         order' = [order EXCEPT ![x] = [status |-> st, cert |-> link]]
  PROVE  /\ StatusView' = [StatusView EXCEPT ![x] = st]
         /\ StatusView[x] = order[x].status
BY DEF StatusView, TypeOK

\* What a signature does to the orders signed for.
LEMMA SigningAddsOrder ==
  ASSUME CallsInv, NEW o \in Orders, CASigns(o)
  PROVE  o \notin SignedFor /\ SignedFor' = SignedFor \cup {o}
BY MaxSerialAssumption, OrdersAssumption DEF SignedFor, CASigns, CallsInv, LedgerOK, TypeOK, Serials

\* Every step is a step of the contract or changes nothing a client sees.
LEMMA StepContract ==
  ClaimInv /\ [Next]_vars => [Contract!ContractNext]_(Contract!contractVars)
<1> SUFFICES ASSUME ClaimInv, [Next]_vars
             PROVE  [Contract!ContractNext]_(Contract!contractVars)
  OBVIOUS
<1> USE DEF ClaimInv, CallsInv
<1>a. ASSUME UNCHANGED order PROVE UNCHANGED StatusView
  BY <1>a DEF StatusView
<1>b. ASSUME UNCHANGED ledger PROVE UNCHANGED SignedFor
  BY <1>b DEF SignedFor
<1>c. ASSUME NEW p \in Validators, pc[p] # "idle"
      PROVE  target[p] \in Orders
  BY <1>c DEF TypeOK
<1>d. ASSUME NEW p \in Validators, Issuing(p)
      PROVE  /\ target[p] \in Orders
             /\ target[p] \notin overtaken => order[target[p]].status = "issuing"
             /\ pc[p] = "stored" => target[p] \in SignedFor
  BY <1>c, <1>d DEF Issuing, ClaimExclusive, SignedFor, CallsOK, TypeOK, Serials
<1>e. ASSUME NEW p \in Validators, pc[p] # "idle", NEW st, Update(p, st)
      PROVE  /\ StatusView' = [StatusView EXCEPT ![target[p]] = st]
             /\ StatusView[target[p]] = order[target[p]].status
  BY <1>c, <1>e, WriteMovesStatus DEF Update
<1>h. ASSUME NEW p \in Validators, pc[p] # "idle", order[target[p]].status # "awaiting_validation"
      PROVE  order[target[p]].status \in {"issuing", "issued", "failed"}
  BY <1>c, <1>h DEF CallsOK, TypeOK, Row
<1> USE DEF Contract!contractVars
<1>1. ASSUME NEW o \in Orders, NEW link, Insert(o, link) PROVE Contract!Open(o)
  BY <1>1, <1>b, WriteMovesStatus DEF Insert, Contract!Open, Contract!Move
<1>2. ASSUME NEW p \in Validators, Claim(p) PROVE Contract!Take(target[p])
  BY <1>2, <1>b, <1>e DEF Claim, Checking, Contract!Take, Contract!Move
<1>3. ASSUME NEW o \in Orders, CASigns(o) PROVE Contract!Sign(o)
  <2>1. StatusView[o] # "none"
    BY <1>3 DEF CASigns, StatusView
  <2>. QED
    BY <1>3, <1>a, <2>1, SigningAddsOrder DEF CASigns, Contract!Sign
<1>4. ASSUME NEW p \in Validators, pc[p] # "idle", UNCHANGED ledger,
             NEW st \in {"awaiting_validation", "failed", "issued"}, Update(p, st),
             st = "issued" => target[p] \in SignedFor,
             order[target[p]].status \in {"issuing", "issued", "failed"} \/ target[p] \in overtaken,
             overtaken' = overtaken \cup {target[p]}
      PROVE  Contract!Overtake(target[p])
  BY <1>4, <1>b, <1>e DEF Contract!Overtake
<1>5. ASSUME NEW p \in Validators, IssueRefused(p) \/ StoreFails(p)
      PROVE  Contract!Fail(target[p]) \/ Contract!Overtake(target[p])
  <2>1. pc[p] \in {"claimed", "signed"} /\ Update(p, "failed") /\ UNCHANGED <<ledger, overtaken>>
    BY <1>5 DEF IssueRefused, StoreFails
  <2>2. CASE target[p] \in overtaken
    BY <2>1, <2>2, <1>4
  <2>3. CASE target[p] \notin overtaken
    BY <2>1, <2>3, <1>b, <1>d, <1>e DEF Issuing, Contract!Move, Contract!Fail
  <2>. QED
    BY <2>2, <2>3
<1>6. ASSUME NEW p \in Validators, Complete(p)
      PROVE  Contract!Close(target[p]) \/ Contract!Overtake(target[p])
  <2>1. pc[p] = "stored" /\ Update(p, "issued") /\ UNCHANGED <<ledger, overtaken>>
    BY <1>6 DEF Complete
  <2>2. target[p] \in SignedFor
    BY <2>1, <1>d DEF Issuing
  <2>3. CASE target[p] \in overtaken
    BY <2>1, <2>2, <2>3, <1>4
  <2>4. CASE target[p] \notin overtaken
    BY <2>1, <2>2, <2>4, <1>b, <1>d, <1>e DEF Issuing, Contract!Move, Contract!Close
  <2>. QED
    BY <2>3, <2>4
<1>7. ASSUME NEW p \in Validators, Reject(p)
      PROVE  Contract!Fail(target[p]) \/ Contract!Overtake(target[p])
  <2>1. pc[p] = "read" /\ Update(p, "failed") /\ NoteOvertaken(p) /\ UNCHANGED ledger
    BY <1>7 DEF Reject, Checking
  <2>2. CASE order[target[p]].status = "awaiting_validation"
    BY <2>1, <2>2, <1>b, <1>e DEF NoteOvertaken, Contract!Move, Contract!Fail
  <2>3. CASE order[target[p]].status # "awaiting_validation"
    BY <2>1, <2>3, <1>c, <1>h, <1>4 DEF NoteOvertaken
  <2>. QED
    BY <2>2, <2>3
<1>8. ASSUME NEW p \in Validators, NotYet(p)
      PROVE  Contract!Overtake(target[p]) \/ UNCHANGED <<StatusView, SignedFor, overtaken>>
  <2>1. pc[p] = "read" /\ Update(p, "awaiting_validation") /\ NoteOvertaken(p) /\ UNCHANGED ledger
    BY <1>8 DEF NotYet, Checking
  <2>2. CASE order[target[p]].status = "awaiting_validation"
    <3>1. StatusView' = [StatusView EXCEPT ![target[p]] = StatusView[target[p]]]
      BY <2>1, <2>2, <1>e
    <3>. QED
      BY <2>1, <2>2, <3>1, <1>b DEF NoteOvertaken, StatusView
  <2>3. CASE order[target[p]].status # "awaiting_validation"
    BY <2>1, <2>3, <1>c, <1>h, <1>4 DEF NoteOvertaken
  <2>. QED
    BY <2>2, <2>3
<1>9. ASSUME UNCHANGED <<order, ledger, overtaken>> PROVE UNCHANGED <<StatusView, SignedFor, overtaken>>
  BY <1>9, <1>a, <1>b
<1>10. ASSUME NEW p \in Validators, Work(p)
       PROVE  [Contract!ContractNext]_(Contract!contractVars)
  <2>1. CASE pc[p] = "idle"
    BY <1>10, <2>1 DEF Work, ReturnSettled, NotYet, Reject, Claim, ClaimLost, Checking, Issue, IssueRefused,
       StoreNew, StoreRenewed, StoreFails, Complete
  <2>2. CASE ReturnSettled(p) \/ ClaimLost(p) \/ Issue(p) \/ (\E c \in Certs : StoreNew(p, c)) \/ StoreRenewed(p)
    BY <2>2, <1>9 DEF ReturnSettled, ClaimLost, Issue, StoreNew, StoreRenewed
  <2>. QED
    BY <1>10, <1>c, <1>2, <1>5, <1>6, <1>7, <1>8, <2>1, <2>2 DEF Work, Contract!ContractNext
<1>11. ASSUME NEW p \in Validators, Abandon(p) \/ \E o \in Orders : Get(p, o)
       PROVE  [Contract!ContractNext]_(Contract!contractVars)
  BY <1>11, <1>9 DEF Abandon, Get
<1>12. CASE UNCHANGED vars
  BY <1>12, <1>9 DEF vars
<1>. QED
  BY <1>1, <1>3, <1>10, <1>11, <1>12 DEF Next, Create, CreateRenewal, Contract!ContractNext

\* Every order keeps the contract, whatever calls overlap and wherever faults cut them short.
THEOREM OrdersKeepContract == Spec => KeepsContract
<1>1. Init => Contract!ContractInit
  BY OrdersAssumption DEF Init, NoRow, StatusView, SignedFor, Contract!ContractInit, Serials
<1>. QED
  BY <1>1, InitClaimInv, StepClaimInv, StepContract, PTL DEF Spec, KeepsContract, Contract!ContractSpec

\* If Validate calls on the service never overlap no order is overtaken: the exceptions of the
\* contract and of the invariants above take two calls at a time.
THEOREM AloneNeverOvertakes ==
  ASSUME \A p, q \in Validators : p = q
  PROVE  Spec => [](overtaken = {})
<1>1. Init => AloneInv
  BY InitClaimInv DEF AloneInv, Init, Checking
<1>2. AloneInv => overtaken = {}
  BY DEF AloneInv
<1>. QED
  BY <1>1, <1>2, StepAloneInv, PTL DEF Spec

-----------------------------------------------------------------------------
(* Revocation and import next to the orders (module Lifecycle).               *)

\* The certificates that only orders file.
Ours == {c \in Certs : provider[c] # "manual"}
FilingInv == \E C \in SUBSET Certs : C = Ours /\ NewestInv(C)

\* What is there shows one of its versions, and has a latest one.
HasLatest(c) == \E s \in versions[c] : \A t \in versions[c] : t <= s
Backed == \A c \in Certs : Exists(c) => certificate[c].serial \in versions[c] /\ HasLatest(c)

\* What a revocation loaded belongs to its certificate, and is the latest there is while no
\* renewal was filed; when it comes to the mark, the latest is revoked.
Known(r) ==
  rpc[r] # "idle" =>
    LET c == loaded[r].cert IN
      /\ c \in Certs /\ Exists(c) /\ loaded[r].ref \in versions[c]
      /\ Asks(r) => c \in Ours /\ pem[r] \in versions[c]
      /\ c \notin crossed =>
           /\ c \in Orderly \cap Ours => loaded[r].ref = LatestVersion(c)
           /\ Asks(r) => pem[r] = LatestVersion(c)
           /\ rpc[r] = "mark" /\ AtCA(c) /\ c \in Orderly \ bypassed => LatestVersion(c) \in dead

\* Only what an order filed is ever revoked at a CA.
DeadAreFiled == \A s \in dead : \E c \in Ours : s \in versions[c]

LifeInv ==
  /\ LifecycleTypeOK
  /\ FilingInv
  /\ Backed
  /\ DeadAreFiled
  /\ \A r \in Revokers : Known(r)
  /\ RevokedIsDead
  /\ ActiveIsAlive

LEMMA InitLifeInv == LifecycleInit => LifeInv
<1> SUFFICES ASSUME LifecycleInit PROVE LifeInv
  OBVIOUS
<1>1. Init /\ provider \in [Certs -> InUse] /\ dead = {} /\ crossed = {} /\ bypassed = {} /\ stranded = {}
      /\ rpc = [r \in Revokers |-> "idle"] /\ loaded = [r \in Revokers |-> NoRowLoaded]
      /\ pem = [r \in Revokers |-> NoSerial]
  BY DEF LifecycleInit
<1>2. LifecycleTypeOK
  BY <1>1, InitTypeOK, OrdersAssumption DEF LifecycleTypeOK, NoRowLoaded, Link
<1>3. \A c \in Certs : ~ Exists(c)
  BY <1>1 DEF Init, StoreInit, Exists
<1>4. FilingInv
  <2>1. \A C \in SUBSET Certs : NewestInv(C)
    BY <1>1, InitFiledInv, OrdersAssumption DEF NewestInv, Newest, Orderly, Outstanding, Init, StoreInit, Exists
  <2>. QED
    BY <2>1 DEF FilingInv, Ours
<1>5. RevokedIsDead /\ ActiveIsAlive
  BY <1>1 DEF RevokedIsDead, ActiveIsAlive, Init, StoreInit
<1>. QED
  BY <1>1, <1>2, <1>3, <1>4, <1>5 DEF LifeInv, Backed, DeadAreFiled, Known

\* The latest version changes with the versions only, and is one of them.
LEMMA LatestKept ==
  ASSUME NEW c \in Certs, versions'[c] = versions[c]
  PROVE  LatestVersion(c)' = LatestVersion(c)
BY DEF LatestVersion

LEMMA LatestIsStored ==
  ASSUME NEW c \in Certs, HasLatest(c)
  PROVE  LatestVersion(c) \in versions[c]
BY DEF HasLatest, LatestVersion

LEMMA LatestIsShown ==
  ASSUME LifeInv, NEW c \in Orderly \cap Ours, Exists(c)
  PROVE  certificate[c].serial = LatestVersion(c)
<1>1. NewestInv(Ours) /\ TypeOK
  BY DEF LifeInv, FilingInv, LifecycleTypeOK
<1>2. /\ certificate[c].serial \in versions[c]
      /\ \A t \in versions[c] : t <= certificate[c].serial
      /\ versions[c] \subseteq Int
  BY <1>1 DEF NewestInv, Newest, TypeOK, StoreTypeOK, Serials, Ours
<1>3. \A s \in versions[c] : (\A t \in versions[c] : t <= s) => s = certificate[c].serial
  BY <1>2
<1>. QED
  BY <1>2, <1>3 DEF LatestVersion

\* An order step leaves an entry alone, or files a certificate there that was signed for a
\* renewal of it or for a new one.
Filed(p, c) ==
  /\ pc[p] = "signed"
  /\ certificate'[c] = [status |-> "active", serial |-> serial[p]]
  /\ versions'[c] = versions[c] \cup {serial[p]}
  /\ ~ Exists(c) \/ origin[target[p]] = c
  /\ UNCHANGED <<ledger, overtaken, origin>>

LEMMA FiledShows ==
  ASSUME NEW p \in Validators, NEW c \in Certs, Filed(p, c)
  PROVE  /\ certificate'[c].status = "active" /\ certificate'[c].serial = serial[p]
         /\ Exists(c)'
         /\ versions'[c] = versions[c] \cup {serial[p]}
<1>1. certificate'[c].status = "active" /\ certificate'[c].serial = serial[p]
  BY DEF Filed
<1>. QED
  BY <1>1 DEF Filed, Exists

LEMMA StepEntry ==
  ASSUME CallsInv, [Next]_vars, NEW c \in Certs
  PROVE  \/ certificate'[c] = certificate[c] /\ versions'[c] = versions[c]
         \/ \E p \in Validators : Filed(p, c)
<1> USE OrdersAssumption DEF CallsInv, TypeOK, StoreTypeOK
<1>1. ASSUME NEW p \in Validators, NEW d \in Certs, StoreNew(p, d)
      PROVE  (certificate'[c] = certificate[c] /\ versions'[c] = versions[c]) \/ Filed(p, c)
  BY <1>1 DEF StoreNew, FinalizeNewCertificate, Filed
<1>2. ASSUME NEW p \in Validators, StoreRenewed(p)
      PROVE  (certificate'[c] = certificate[c] /\ versions'[c] = versions[c]) \/ Filed(p, c)
  <2>1. snap[p].cert = origin[target[p]] /\ snap[p].cert \in Certs
    BY <1>2 DEF StoreRenewed, CallsOK, Row, Link
  <2>. QED
    BY <1>2, <2>1 DEF StoreRenewed, FinalizeRenewal, Filed
<1>3. ASSUME NEW o \in Orders, CASigns(o)
      PROVE  certificate'[c] = certificate[c] /\ versions'[c] = versions[c]
  BY <1>3 DEF CASigns, storeVars
<1>. QED
  BY <1>1, <1>2, <1>3, FilingUnchanged

\* The CA does not take an order's signature back.
LEMMA LedgerKept ==
  ASSUME CallsInv, [Next]_vars, NEW s \in Serials, ledger[s] \in Orders
  PROVE  ledger'[s] = ledger[s]
<1>1. ASSUME NEW o \in Orders, CASigns(o) PROVE ledger'[s] = ledger[s]
  BY <1>1, MaxSerialAssumption DEF CASigns, CallsInv, TypeOK, LedgerOK, Serials
<1>. QED
  BY <1>1 DEF Next, Work, vars, Create, CreateRenewal, Insert, Get, ReturnSettled, NotYet, Reject, Claim,
     ClaimLost, Issue, IssueRefused, StoreNew, StoreRenewed, StoreFails, Complete, Abandon

\* What is filed anew was not filed before, unless its order's row was overwritten.
LEMMA FiledAnew ==
  ASSUME LifeInv, NEW p \in Validators, pc[p] = "signed", target[p] \notin overtaken
  PROVE  /\ \A c \in Ours : serial[p] \notin versions[c]
         /\ serial[p] \notin dead
<1>1. FiledInv(Ours) /\ CallsOK
  BY DEF LifeInv, FilingInv, NewestInv, FiledInv, ClaimInv, CallsInv
<1>2. ledger[serial[p]] = target[p] /\ target[p] \in Orders
  BY <1>1 DEF CallsOK
<1>3. \A c \in Ours : serial[p] \notin versions[c]
  BY <1>1, <1>2 DEF FiledInv, FiledLate, Early, Unfiled
<1>. QED
  BY <1>3 DEF LifeInv, DeadAreFiled
\* What a revocation knows stays true while its certificate is left alone or noted as crossed.
LEMMA KnownKept ==
  ASSUME LifeInv, NEW r \in Revokers,
         rpc'[r] = rpc[r], loaded'[r] = loaded[r], pem'[r] = pem[r],
         provider' = provider, Orderly' \subseteq Orderly, bypassed \subseteq bypassed', dead \subseteq dead',
         \A c \in Certs : Exists(c) => Exists(c)' /\ versions[c] \subseteq versions'[c],
         \A c \in Certs : loaded[r].cert = c /\ Exists(c) /\ c \notin crossed' =>
                            c \notin crossed /\ versions'[c] = versions[c]
  PROVE  Known(r)'
<1> SUFFICES ASSUME rpc[r] # "idle" PROVE Known(r)'
  BY DEF Known
<1> DEFINE c == loaded[r].cert
<1>1. /\ Known(r)
      /\ c \in Certs /\ Exists(c) /\ loaded[r].ref \in versions[c]
      /\ Asks(r) => c \in Ours /\ pem[r] \in versions[c]
  BY DEF LifeInv, Known
<1>2. Asks(r)' = Asks(r) /\ AtCA(c)' = AtCA(c) /\ Ours' = Ours
  BY DEF Asks, AtCA, Ours
<1>3. /\ loaded'[r].cert = c /\ loaded'[r].ref = loaded[r].ref
      /\ Exists(c)' /\ versions[c] \subseteq versions'[c]
  BY <1>1
<1>4. CASE c \in crossed'
  BY <1>1, <1>2, <1>3, <1>4 DEF Known
<1>5. CASE c \notin crossed'
  <2>1. c \notin crossed /\ versions'[c] = versions[c] /\ LatestVersion(c)' = LatestVersion(c)
    BY <1>1, <1>5, LatestKept
  <2>2. /\ c \in Orderly' \cap Ours => loaded[r].ref = LatestVersion(c)
        /\ Asks(r) => pem[r] = LatestVersion(c)
        /\ rpc[r] = "mark" /\ AtCA(c) /\ c \in Orderly' \ bypassed' => LatestVersion(c) \in dead'
    BY <1>1, <2>1 DEF Known
  <2>. QED
    BY <1>1, <1>2, <1>3, <2>1, <2>2 DEF Known
<1>. QED
  BY <1>4, <1>5

\* An order step may move what the entries show, and notes whom it crossed.
LEMMA LifeOrderStep ==
  ASSUME LifeInv, OrderStep
  PROVE  LifeInv'
<1>1. /\ [Next]_vars
      /\ UNCHANGED <<provider, dead, rpc, loaded, pem, bypassed, stranded>>
      /\ crossed' = crossed \cup {c \in Certs : versions'[c] # versions[c] /\ Revoking(c)}
  BY DEF OrderStep, revocationVars
<1>2. Ours \in SUBSET Certs /\ NewestInv(Ours) /\ Ours' = Ours
  BY <1>1 DEF LifeInv, FilingInv, Ours
<1>3. CallsInv /\ TypeOK /\ StoreTypeOK /\ overtaken \in SUBSET Orders
  BY <1>2 DEF NewestInv, FiledInv, ClaimInv, CallsInv, TypeOK
<1>4. FilingInv'
  <2>1. PICK C \in SUBSET Certs : C = Ours
    BY <1>2
  <2>2. NewestInv(C)'
    BY <1>1, <1>2, <2>1, StepNewestInv
  <2>. QED
    BY <1>2, <2>1, <2>2 DEF FilingInv
<1>5. TypeOK'
  BY <1>1, <1>3, StepTypeOK
<1>6. LifecycleTypeOK'
  BY <1>1, <1>5 DEF LifeInv, LifecycleTypeOK
<1>7. Orderly' \subseteq Orderly /\ overtaken \subseteq overtaken'
  BY <1>1, <1>3, OrderlyBefore, OvertakenGrows
<1>8. \A c \in Certs : \/ certificate'[c] = certificate[c] /\ versions'[c] = versions[c]
                       \/ \E p \in Validators : Filed(p, c)
  BY <1>1, <1>3, StepEntry
<1>9. ASSUME NEW c \in Certs, Exists(c)
      PROVE  Exists(c)' /\ versions[c] \subseteq versions'[c]
  BY <1>8, <1>9, FiledShows DEF Exists
<1>10. Backed'
  <2> SUFFICES ASSUME NEW c \in Certs, Exists(c)'
               PROVE  certificate'[c].serial \in versions'[c] /\ HasLatest(c)'
    BY DEF Backed
  <2>1. CASE certificate'[c] = certificate[c] /\ versions'[c] = versions[c]
    BY <2>1 DEF LifeInv, Backed, Exists, HasLatest
  <2>2. ASSUME NEW p \in Validators, Filed(p, c)
        PROVE  certificate'[c].serial \in versions'[c] /\ HasLatest(c)'
    <3>1. versions'[c] = versions[c] \cup {serial[p]} /\ certificate'[c].serial = serial[p]
      BY <2>2 DEF Filed
    <3>2. serial[p] \in Int /\ versions[c] \subseteq Int
      BY <1>3, <2>2 DEF Filed, TypeOK, StoreTypeOK, Serials
    <3>3. CASE Exists(c)
      <4>1. PICK s \in versions[c] : \A t \in versions[c] : t <= s
        BY <3>3 DEF LifeInv, Backed, HasLatest
      <4>2. CASE serial[p] <= s
        BY <3>1, <4>1, <4>2 DEF HasLatest
      <4>3. CASE s < serial[p]
        <5>1. \A t \in versions[c] : t <= serial[p]
          BY <3>2, <4>1, <4>3
        <5>. QED
          BY <3>1, <3>2, <5>1 DEF HasLatest
      <4>. QED
        BY <3>1, <3>2, <4>1, <4>2, <4>3
    <3>4. CASE ~ Exists(c)
      <4>1. versions[c] = {}
        BY <1>3, <3>4 DEF CallsInv, AbsentHasNoVersions
      <4>. QED
        BY <3>1, <3>2, <4>1 DEF HasLatest
    <3>. QED
      BY <3>3, <3>4
  <2>. QED
    BY <1>8, <2>1, <2>2
<1>11. DeadAreFiled'
  <2>1. \A c \in Certs : versions[c] \subseteq versions'[c]
    BY <1>8 DEF Filed
  <2>. QED
    BY <1>1, <1>2, <2>1 DEF LifeInv, DeadAreFiled
<1>12. \A r \in Revokers : Known(r)'
  <2> SUFFICES ASSUME NEW r \in Revokers PROVE Known(r)'
    OBVIOUS
  <2>1. \A c \in Certs : loaded[r].cert = c /\ Exists(c) /\ c \notin crossed' =>
                           c \notin crossed /\ versions'[c] = versions[c]
    BY <1>1 DEF Revoking
  <2>2. \A c \in Certs : Exists(c) => Exists(c)' /\ versions[c] \subseteq versions'[c]
    BY <1>9
  <2>. QED
    BY <1>1, <1>7, <2>1, <2>2, KnownKept
<1>13. RevokedIsDead'
  <2> SUFFICES ASSUME NEW c \in Certs \ (raced' \cup crossed' \cup bypassed'),
                      certificate'[c].status = "revoked", AtCA(c)', \A o \in overtaken' : origin'[o] # c
               PROVE  LatestVersion(c)' \in dead'
    BY DEF RevokedIsDead
  <2>1. certificate'[c] = certificate[c] /\ versions'[c] = versions[c]
    BY <1>8, FiledShows
  <2>2. c \in Orderly
    BY <1>7 DEF Orderly
  <2>3. c \notin crossed \cup bypassed /\ AtCA(c)
    BY <1>1 DEF AtCA
  <2>4. LatestVersion(c) \in dead
    BY <2>1, <2>2, <2>3 DEF LifeInv, RevokedIsDead, Orderly
  <2>. QED
    BY <1>1, <2>1, <2>4, LatestKept
<1>14. ActiveIsAlive'
  <2> SUFFICES ASSUME NEW c \in Certs, certificate'[c].status = "active", provider[c] # "manual",
                      certificate'[c].serial \in dead
               PROVE  \/ Revoking(c) \/ c \in stranded
                      \/ ledger'[certificate'[c].serial] \in overtaken'
    BY <1>1 DEF ActiveIsAlive, Revoking
  <2>1. CASE certificate'[c] = certificate[c]
    <3>1. Revoking(c) \/ c \in stranded \/ ledger[certificate[c].serial] \in overtaken
      BY <2>1 DEF LifeInv, ActiveIsAlive
    <3>2. certificate[c].serial \in Serials
      BY <2>1 DEF LifeInv, LifecycleTypeOK
    <3>. QED
      BY <1>1, <1>3, <1>7, <2>1, <3>1, <3>2, LedgerKept
  <2>2. ASSUME NEW p \in Validators, Filed(p, c)
        PROVE  ledger'[certificate'[c].serial] \in overtaken'
    <3>1. pc[p] = "signed" /\ certificate'[c].serial = serial[p] /\ ledger' = ledger /\ overtaken' = overtaken
      BY <2>2 DEF Filed
    <3>2. ledger[serial[p]] = target[p]
      BY <1>3, <3>1 DEF CallsInv, CallsOK
    <3>3. target[p] \in overtaken
      BY <3>1, FiledAnew
    <3>. QED
      BY <3>1, <3>2, <3>3
  <2>. QED
    BY <1>8, <2>1, <2>2
<1>. QED
  BY <1>4, <1>6, <1>10, <1>11, <1>12, <1>13, <1>14 DEF LifeInv

\* An import touches no entry that orders file, and no call.
LEMMA LifeImport ==
  ASSUME LifeInv, NEW c \in Certs, NEW s \in Serials, NEW st \in {"active", "expired"}, Import(c, s, st)
  PROVE  LifeInv'
<1>1. /\ provider[c] = "manual" /\ ~ Exists(c)
      /\ certificate' = [certificate EXCEPT ![c] = [status |-> st, serial |-> s]]
      /\ versions' = [versions EXCEPT ![c] = @ \cup {s}]
      /\ s \in 1 .. signed + 1 /\ signed' = IF s > signed THEN s ELSE signed
  BY DEF Import, FinalizeNewCertificate
<1>2. UNCHANGED <<order, pc, target, snap, serial, ledger, origin, claims, overtaken, raced, faults,
                  provider, dead, rpc, loaded, pem, bypassed, stranded, crossed>>
  BY DEF Import, revocationVars
<1>3. NewestInv(Ours) /\ Ours' = Ours /\ c \notin Ours
  BY <1>1, <1>2 DEF LifeInv, FilingInv, Ours
<1>4. ClaimInv /\ CallsInv /\ TypeOK /\ StoreTypeOK
  BY <1>3 DEF NewestInv, FiledInv, ClaimInv, CallsInv, TypeOK
<1>5. versions[c] = {}
  BY <1>1, <1>4 DEF CallsInv, AbsentHasNoVersions
<1>6. PICK row : row = [status |-> st, serial |-> s]
  OBVIOUS
<1>7. /\ row \in [status: Status, serial: Serials \cup {NoSerial}]
      /\ row.status = st /\ row.serial = s
  BY <1>6 DEF Status
<1>8. /\ certificate'[c] = row /\ versions'[c] = {s}
      /\ \A d \in Certs : d # c => certificate'[d] = certificate[d] /\ versions'[d] = versions[d]
  BY <1>1, <1>4, <1>5, <1>6 DEF StoreTypeOK
<1>9. /\ Exists(c)'
      /\ \A d \in Certs : d # c => Exists(d)' = Exists(d)
      /\ \A d \in Certs : Exists(d) => d # c
  BY <1>1, <1>7, <1>8 DEF Exists
<1>10. signed \in 0 .. MaxSerial /\ signed' \in 0 .. MaxSerial /\ signed <= signed' /\ s <= signed'
  BY <1>1, <1>4, MaxSerialAssumption DEF TypeOK, Serials
<1>11. StoreTypeOK'
  BY <1>1, <1>4, <1>6, <1>7 DEF StoreTypeOK
<1>12. TypeOK'
  BY <1>2, <1>4, <1>10, <1>11 DEF TypeOK
<1>13. CallsInv'
  <2>1. LedgerOK'
    BY <1>2, <1>4, <1>10 DEF CallsInv, LedgerOK, TypeOK, Serials
  <2>2. RowsOK'
    BY <1>2, <1>4, <1>9 DEF CallsInv, RowsOK, TypeOK, Link
  <2>3. CallsOK'
    <3>1. \A p \in Validators : pc[p] \in {"signed", "stored"} => serial[p] \in 1 .. signed'
      BY <1>4, <1>10 DEF CallsInv, CallsOK
    <3>2. \A d \in Certs : versions[d] \subseteq versions'[d]
      BY <1>5, <1>8
    <3>. QED
      BY <1>2, <1>4, <3>1, <3>2 DEF CallsInv, CallsOK, Checking
  <2>4. StoredAreSigned'
    BY <1>4, <1>8, <1>10 DEF CallsInv, StoredAreSigned, StoreTypeOK, Serials
  <2>5. AbsentHasNoVersions'
    BY <1>4, <1>8, <1>9 DEF CallsInv, AbsentHasNoVersions
  <2>. QED
    BY <1>12, <2>1, <2>2, <2>3, <2>4, <2>5 DEF CallsInv
<1>14. ClaimInv'
  BY <1>2, <1>4, <1>13 DEF ClaimInv, ClaimExclusive, OneSubmissionUnlessOvertaken, Issuing
<1>15. \A d \in Ours : certificate'[d] = certificate[d] /\ versions'[d] = versions[d] /\ Exists(d)' = Exists(d)
  BY <1>3, <1>8, <1>9 DEF Ours
<1>16. FilingInv'
  <2>1. PICK C \in SUBSET Certs : C = Ours
    BY DEF Ours
  <2>2. Orderly' = Orderly
    BY <1>2 DEF Orderly
  <2>3. FiledLate(C)'
    BY <1>2, <1>3, <1>15, <2>1 DEF NewestInv, FiledInv, FiledLate, Early, Unfiled
  <2>4. OnceAmong(C)'
    BY <1>2, <1>3, <1>15, <2>1 DEF NewestInv, FiledInv, OnceAmong
  <2>5. \A d \in Orderly \cap C : Newest(d)'
    <3> SUFFICES ASSUME NEW d \in Orderly \cap C PROVE Newest(d)'
      OBVIOUS
    <3>1. Outstanding(d)' = Outstanding(d)
      BY <1>2, <1>15, <2>1 DEF Outstanding
    <3>2. Newest(d)
      BY <1>3, <2>1 DEF NewestInv
    <3>. QED
      BY <1>15, <2>1, <3>1, <3>2 DEF Newest
  <2>6. NewestInv(C)'
    BY <1>14, <2>2, <2>3, <2>4, <2>5 DEF NewestInv, FiledInv
  <2>. QED
    BY <1>3, <2>1, <2>6 DEF FilingInv
<1>17. LifecycleTypeOK'
  BY <1>2, <1>12 DEF LifeInv, LifecycleTypeOK
<1>18. Backed'
  <2> SUFFICES ASSUME NEW d \in Certs, Exists(d)'
               PROVE  certificate'[d].serial \in versions'[d] /\ HasLatest(d)'
    BY DEF Backed
  <2>1. CASE d = c
    BY <1>7, <1>8, <2>1 DEF HasLatest, Serials
  <2>2. CASE d # c
    BY <1>8, <1>9, <2>2 DEF LifeInv, Backed, HasLatest
  <2>. QED
    BY <2>1, <2>2
<1>19. DeadAreFiled'
  BY <1>2, <1>3, <1>15 DEF LifeInv, DeadAreFiled
<1>20. \A r \in Revokers : Known(r)'
  <2> SUFFICES ASSUME NEW r \in Revokers PROVE Known(r)'
    OBVIOUS
  <2>1. Orderly' \subseteq Orderly
    BY <1>2 DEF Orderly
  <2>2. \A d \in Certs : Exists(d) => Exists(d)' /\ versions'[d] = versions[d]
    BY <1>8, <1>9
  <2>. QED
    BY <1>2, <2>1, <2>2, KnownKept
<1>21. RevokedIsDead'
  <2> SUFFICES ASSUME NEW d \in Certs \ (raced \cup crossed \cup bypassed),
                      certificate'[d].status = "revoked", AtCA(d), \A o \in overtaken : origin[o] # d
               PROVE  LatestVersion(d)' \in dead
    BY <1>2 DEF RevokedIsDead, AtCA
  <2>1. d # c
    BY <1>7, <1>8
  <2>. QED
    BY <1>8, <2>1, LatestKept DEF LifeInv, RevokedIsDead
<1>22. ActiveIsAlive'
  <2> SUFFICES ASSUME NEW d \in Certs, certificate'[d].status = "active", provider[d] # "manual",
                      certificate'[d].serial \in dead
               PROVE  \/ Revoking(d) \/ d \in stranded \/ ledger[certificate'[d].serial] \in overtaken
    BY <1>2 DEF ActiveIsAlive, Revoking
  <2>1. d # c
    BY <1>1
  <2>. QED
    BY <1>8, <2>1 DEF LifeInv, ActiveIsAlive
<1>. QED
  BY <1>16, <1>17, <1>18, <1>19, <1>20, <1>21, <1>22 DEF LifeInv

\* Nothing a revocation does to the inventory, down to marking a row, moves what orders filed.
Unmoved ==
  /\ UNCHANGED <<orderVars, provider, crossed, versions>>
  /\ certificate' \in [Certs -> [status: Status, serial: Serials \cup {NoSerial}]]
  /\ \A c \in Certs : /\ certificate'[c].serial = certificate[c].serial
                      /\ Exists(c)' = Exists(c)

LEMMA UnmovedKeeps ==
  ASSUME LifeInv, Unmoved
  PROVE  /\ TypeOK' /\ FilingInv' /\ Backed'
         /\ Ours' = Ours /\ Orderly' = Orderly
         /\ \A c \in Certs : LatestVersion(c)' = LatestVersion(c) /\ AtCA(c)' = AtCA(c)
<1>1. /\ UNCHANGED <<order, pc, target, snap, serial, ledger, signed, origin, claims, overtaken, raced, faults>>
      /\ UNCHANGED <<provider, crossed, versions>>
  BY DEF Unmoved, orderVars
<1>2. /\ \A c \in Certs : certificate'[c].serial = certificate[c].serial
      /\ \A c \in Certs : Exists(c)' = Exists(c)
  BY DEF Unmoved
<1>3. NewestInv(Ours) /\ Ours' = Ours /\ Orderly' = Orderly
  BY <1>1 DEF LifeInv, FilingInv, Ours, Orderly
<1>4. ClaimInv /\ CallsInv /\ TypeOK /\ StoreTypeOK
  BY <1>3 DEF NewestInv, FiledInv, ClaimInv, CallsInv, TypeOK
<1>5. TypeOK'
  <2>1. StoreTypeOK'
    BY <1>1, <1>4 DEF Unmoved, StoreTypeOK
  <2>. QED
    BY <1>1, <1>4, <2>1 DEF TypeOK
<1>6. CallsInv'
  <2>1. LedgerOK' /\ StoredAreSigned'
    BY <1>1, <1>4 DEF CallsInv, LedgerOK, StoredAreSigned
  <2>2. RowsOK'
    BY <1>1, <1>2, <1>4 DEF CallsInv, RowsOK, TypeOK, Link
  <2>3. CallsOK'
    BY <1>1, <1>4 DEF CallsInv, CallsOK, Checking
  <2>4. AbsentHasNoVersions'
    BY <1>1, <1>2, <1>4 DEF CallsInv, AbsentHasNoVersions
  <2>. QED
    BY <1>5, <2>1, <2>2, <2>3, <2>4 DEF CallsInv
<1>7. ClaimInv'
  BY <1>1, <1>4, <1>6 DEF ClaimInv, ClaimExclusive, OneSubmissionUnlessOvertaken, Issuing
<1>8. FilingInv'
  <2>1. PICK C \in SUBSET Certs : C = Ours
    BY DEF Ours
  <2>2. FiledLate(C)' /\ OnceAmong(C)'
    BY <1>1, <1>3, <2>1 DEF NewestInv, FiledInv, FiledLate, Early, Unfiled, OnceAmong
  <2>3. \A d \in Orderly \cap C : Newest(d)'
    <3> SUFFICES ASSUME NEW d \in Orderly \cap C PROVE Newest(d)'
      OBVIOUS
    <3>1. Outstanding(d)' = Outstanding(d)
      BY <1>1 DEF Outstanding
    <3>2. Newest(d)
      BY <1>3, <2>1 DEF NewestInv
    <3>. QED
      BY <1>1, <1>2, <2>1, <3>1, <3>2 DEF Newest
  <2>4. NewestInv(C)'
    BY <1>3, <1>7, <2>2, <2>3 DEF NewestInv, FiledInv
  <2>. QED
    BY <1>3, <2>1, <2>4 DEF FilingInv
<1>9. Backed'
  BY <1>1, <1>2 DEF LifeInv, Backed, HasLatest
<1>10. \A c \in Certs : LatestVersion(c)' = LatestVersion(c) /\ AtCA(c)' = AtCA(c)
  BY <1>1, LatestKept DEF AtCA
<1>. QED
  BY <1>3, <1>5, <1>8, <1>9, <1>10

\* The other revocations are where they were.
Apart(r) == \A q \in Revokers \ {r} : rpc'[q] = rpc[q] /\ loaded'[q] = loaded[q] /\ pem'[q] = pem[q]

LEMMA OthersKnow ==
  ASSUME LifeInv, Unmoved, NEW r \in Revokers, Apart(r),
         dead \subseteq dead', bypassed \subseteq bypassed'
  PROVE  \A q \in Revokers \ {r} : Known(q)'
<1> SUFFICES ASSUME NEW q \in Revokers \ {r} PROVE Known(q)'
  OBVIOUS
<1>1. rpc'[q] = rpc[q] /\ loaded'[q] = loaded[q] /\ pem'[q] = pem[q]
  BY DEF Apart
<1>2. provider' = provider /\ versions' = versions /\ crossed' = crossed /\ \A c \in Certs : Exists(c)' = Exists(c)
  BY DEF Unmoved
<1>3. Orderly' \subseteq Orderly
  BY UnmovedKeeps
<1>4. \A c \in Certs : Exists(c) => Exists(c)' /\ versions[c] \subseteq versions'[c]
  BY <1>2
<1>5. \A c \in Certs : loaded[q].cert = c /\ Exists(c) /\ c \notin crossed' =>
                         c \notin crossed /\ versions'[c] = versions[c]
  BY <1>2
<1>. QED
  BY <1>1, <1>2, <1>3, <1>4, <1>5, KnownKept

\* The steps of a revocation that ask no authority and mark no row.
LEMMA QuietStep ==
  ASSUME LifeInv, NEW r \in Revokers, Unmoved, Apart(r), LifecycleTypeOK', Known(r)',
         certificate' = certificate, dead' = dead, bypassed \subseteq bypassed', stranded \subseteq stranded',
         \A c \in Certs : rpc[r] # "idle" /\ loaded[r].cert = c =>
           \/ Revoking(c)'
           \/ certificate[c].serial \notin dead
           \/ certificate[c].status = "revoked"
           \/ c \in stranded'
  PROVE  LifeInv'
<1>1. UNCHANGED <<ledger, overtaken, raced, origin, provider, crossed, versions>>
  BY DEF Unmoved, orderVars
<1>2. DeadAreFiled'
  BY <1>1 DEF LifeInv, DeadAreFiled, Ours
<1>3. RevokedIsDead'
  <2> SUFFICES ASSUME NEW c \in Certs \ (raced \cup crossed \cup bypassed),
                      certificate[c].status = "revoked", AtCA(c), \A o \in overtaken : origin[o] # c
               PROVE  LatestVersion(c)' \in dead
    BY <1>1 DEF RevokedIsDead, AtCA
  <2>. QED
    BY UnmovedKeeps DEF LifeInv, RevokedIsDead
<1>4. ActiveIsAlive'
  <2> SUFFICES ASSUME NEW c \in Certs, certificate[c].status = "active", provider[c] # "manual",
                      certificate[c].serial \in dead
               PROVE  \/ Revoking(c)' \/ c \in stranded' \/ ledger[certificate[c].serial] \in overtaken
    BY <1>1 DEF ActiveIsAlive
  <2>1. Revoking(c) \/ c \in stranded \/ ledger[certificate[c].serial] \in overtaken
    BY DEF LifeInv, ActiveIsAlive
  <2>2. ASSUME NEW q \in Revokers, loaded[q].cert = c
        PROVE  Revoking(c)' \/ c \in stranded'
    <3>1. CASE q = r
      <4>1. rpc[r] # "idle"
        BY <2>2, <3>1 DEF LifeInv, LifecycleTypeOK
      <4>. QED
        BY <2>2, <3>1, <4>1
    <3>2. CASE q # r
      BY <2>2, <3>2 DEF Apart, Revoking
    <3>. QED
      BY <3>1, <3>2
  <2>. QED
    BY <2>1, <2>2 DEF Revoking
<1>. QED
  BY <1>2, <1>3, <1>4, UnmovedKeeps, OthersKnow DEF LifeInv

LEMMA StillUnmoved ==
  ASSUME LifeInv, UNCHANGED <<vars, provider, crossed>>
  PROVE  Unmoved
<1>1. StoreTypeOK
  BY DEF LifeInv, LifecycleTypeOK, TypeOK
<1>. QED
  BY <1>1 DEF Unmoved, vars, orderVars, Exists, StoreTypeOK

\* What a revocation that is under way knows.
LEMMA UnderWay ==
  ASSUME LifeInv, NEW r \in Revokers, rpc[r] # "idle"
  PROVE  LET c == loaded[r].cert IN
         /\ c \in Certs /\ Exists(c) /\ loaded[r].ref \in versions[c] /\ HasLatest(c)
         /\ Asks(r) => c \in Ours /\ pem[r] \in versions[c]
         /\ c \notin crossed =>
              /\ c \in Orderly \cap Ours => loaded[r].ref = LatestVersion(c)
              /\ Asks(r) => pem[r] = LatestVersion(c)
              /\ rpc[r] = "mark" /\ AtCA(c) /\ c \in Orderly \ bypassed => LatestVersion(c) \in dead
BY DEF LifeInv, Known, Backed

LEMMA LifeLoad ==
  ASSUME LifeInv, NEW r \in Revokers, NEW c \in Certs, NEW from \in {"first", "second"}, LoadForRevoke(r, c, from)
  PROVE  LifeInv'
<1>1. PICK row : row = [cert |-> c, ref |-> certificate[c].serial]
  OBVIOUS
<1>2. /\ rpc[r] = "idle" /\ Exists(c)
      /\ rpc' = [rpc EXCEPT ![r] = from]
      /\ loaded' = [loaded EXCEPT ![r] = row]
      /\ UNCHANGED <<vars, provider, dead, pem, crossed, bypassed, stranded>>
  BY <1>1 DEF LoadForRevoke, RGoto
<1>3. LifecycleTypeOK /\ StoreTypeOK
  BY DEF LifeInv, LifecycleTypeOK, TypeOK
<1>4. Unmoved
  BY <1>2, StillUnmoved
<1>5. /\ row \in [cert: Link, ref: Serials \cup {NoSerial}]
      /\ row.cert = c /\ row.ref = certificate[c].serial
  BY <1>1, <1>3 DEF StoreTypeOK, Link
<1>6. rpc'[r] = from /\ loaded'[r] = row /\ Apart(r)
  BY <1>2, <1>3 DEF LifecycleTypeOK, Apart
<1>7. TypeOK'
  BY <1>4, UnmovedKeeps
<1>8. LifecycleTypeOK'
  <2>1. rpc' \in [Revokers -> {"idle", "first", "ask first", "second", "ask second", "mark"}]
    BY <1>2, <1>3 DEF LifecycleTypeOK
  <2>2. loaded' \in [Revokers -> [cert: Link, ref: Serials \cup {NoSerial}]]
    BY <1>2, <1>3, <1>5 DEF LifecycleTypeOK
  <2>3. \A q \in Revokers : rpc'[q] # "idle" <=> loaded'[q].cert \in Certs
    BY <1>3, <1>5, <1>6 DEF LifecycleTypeOK, Apart
  <2>. QED
    BY <1>2, <1>3, <1>7, <2>1, <2>2, <2>3 DEF LifecycleTypeOK
<1>9. Known(r)'
  <2>1. Exists(c)' /\ versions' = versions /\ crossed' = crossed
    BY <1>2, <1>4 DEF Unmoved
  <2>2. ~ Asks(r)' /\ rpc'[r] # "mark"
    BY <1>6 DEF Asks
  <2>3. row.ref \in versions[c]
    BY <1>2, <1>5 DEF LifeInv, Backed
  <2>4. c \in (Orderly \cap Ours)' => row.ref = LatestVersion(c)'
    BY <1>2, <1>4, <1>5, LatestIsShown, UnmovedKeeps
  <2>. QED
    BY <1>5, <1>6, <2>1, <2>2, <2>3, <2>4 DEF Known
<1>10. certificate' = certificate
  BY <1>2 DEF vars
<1>. QED
  BY <1>2, <1>4, <1>6, <1>8, <1>9, <1>10, QuietStep

LEMMA LifeBypass ==
  ASSUME LifeInv, NEW r \in Revokers, Bypass(r)
  PROVE  LifeInv'
<1> DEFINE c == loaded[r].cert
<1>1. /\ rpc[r] \in {"first", "second"}
      /\ rpc' = [rpc EXCEPT ![r] = Past(r)]
      /\ bypassed' = bypassed \cup {c}
      /\ UNCHANGED <<vars, provider, dead, loaded, pem, crossed, stranded>>
  BY DEF Bypass, RGoto
<1>2. LifecycleTypeOK
  BY DEF LifeInv
<1>3. Unmoved
  BY <1>1, StillUnmoved
<1>4. Past(r) \in {"second", "mark"} /\ rpc'[r] = Past(r) /\ Apart(r) /\ loaded'[r] = loaded[r]
  BY <1>1, <1>2 DEF LifecycleTypeOK, Apart, Past
<1>5. TypeOK'
  BY <1>3, UnmovedKeeps
<1>6. /\ c \in Certs /\ Exists(c) /\ loaded[r].ref \in versions[c]
      /\ c \notin crossed => (c \in Orderly \cap Ours => loaded[r].ref = LatestVersion(c))
  BY <1>1, UnderWay
<1>7. LifecycleTypeOK'
  BY <1>1, <1>2, <1>4, <1>5, <1>6 DEF LifecycleTypeOK, Apart
<1>8. Known(r)'
  <2>1. Exists(c)' /\ versions' = versions /\ crossed' = crossed
    BY <1>1, <1>3, <1>6 DEF Unmoved
  <2>2. ~ Asks(r)' /\ c \in bypassed'
    BY <1>1, <1>4 DEF Asks
  <2>3. c \notin crossed => (c \in (Orderly \cap Ours)' => loaded[r].ref = LatestVersion(c)')
    <3>1. Orderly' = Orderly /\ Ours' = Ours /\ \A d \in Certs : LatestVersion(d)' = LatestVersion(d)
      BY <1>3, UnmovedKeeps
    <3>2. PICK d \in Certs : d = c
      BY <1>6
    <3>3. LatestVersion(d)' = LatestVersion(d)
      BY <3>1
    <3>. QED
      BY <1>1, <1>6, <3>1, <3>2, <3>3
  <2>. QED
    BY <1>1, <1>4, <1>6, <2>1, <2>2, <2>3 DEF Known
<1>9. certificate' = certificate
  BY <1>1 DEF vars
<1>10. \A d \in Certs : loaded[r].cert = d => Revoking(d)'
  BY <1>4 DEF Revoking
<1>. QED
  BY <1>1, <1>3, <1>4, <1>7, <1>8, <1>9, <1>10, QuietStep

LEMMA LifeRead ==
  ASSUME LifeInv, NEW r \in Revokers, ReadLatest(r)
  PROVE  LifeInv'
<1>1. PICK c : c = loaded[r].cert
  OBVIOUS
<1>2. PICK l : l = IF rpc[r] = "first" THEN "ask first" ELSE "ask second"
  OBVIOUS
<1>3. /\ rpc[r] \in {"first", "second"} /\ provider[c] # "manual"
      /\ rpc' = [rpc EXCEPT ![r] = l]
      /\ pem' = [pem EXCEPT ![r] = LatestVersion(c)]
      /\ UNCHANGED <<vars, provider, dead, loaded, crossed, bypassed, stranded>>
  BY <1>1, <1>2 DEF ReadLatest, RGoto
<1>4. LifecycleTypeOK /\ StoreTypeOK
  BY DEF LifeInv, LifecycleTypeOK, TypeOK
<1>5. Unmoved
  BY <1>3, StillUnmoved
<1>6. /\ l \in {"ask first", "ask second"} /\ rpc'[r] = l /\ pem'[r] = LatestVersion(c)
      /\ loaded'[r] = loaded[r] /\ Apart(r)
  BY <1>2, <1>3, <1>4 DEF LifecycleTypeOK, Apart
<1>7. /\ c \in Certs /\ Exists(c) /\ loaded[r].ref \in versions[c] /\ HasLatest(c)
      /\ c \notin crossed => (c \in Orderly \cap Ours => loaded[r].ref = LatestVersion(c))
  BY <1>1, <1>3, UnderWay
<1>8. LatestVersion(c) \in versions[c] /\ LatestVersion(c) \in Serials
  BY <1>4, <1>7, LatestIsStored DEF StoreTypeOK
<1>9. TypeOK'
  BY <1>5, UnmovedKeeps
<1>10. LifecycleTypeOK'
  BY <1>1, <1>3, <1>4, <1>6, <1>7, <1>8, <1>9 DEF LifecycleTypeOK, Apart
<1>11. Known(r)'
  <2>1. Exists(c)' /\ versions' = versions /\ crossed' = crossed
    BY <1>3, <1>5, <1>7 DEF Unmoved
  <2>2. Orderly' = Orderly /\ Ours' = Ours /\ LatestVersion(c)' = LatestVersion(c)
    BY <1>5, <1>7, UnmovedKeeps
  <2>3. c \in Ours /\ rpc'[r] # "mark"
    BY <1>3, <1>6, <1>7 DEF Ours
  <2>. QED
    BY <1>1, <1>6, <1>7, <1>8, <2>1, <2>2, <2>3 DEF Known
<1>12. certificate' = certificate
  BY <1>3 DEF vars
<1>13. \A d \in Certs : loaded[r].cert = d => Revoking(d)'
  BY <1>6 DEF Revoking
<1>. QED
  BY <1>3, <1>5, <1>6, <1>10, <1>11, <1>12, <1>13, QuietStep

\* What a CA is told to revoke is a certificate of the entry being revoked.
LEMMA SubjectIsFiled ==
  ASSUME LifeInv, NEW r \in Revokers, Asks(r)
  PROVE  LET c == loaded[r].cert IN
         c \in Ours /\ Subject(r) \in versions[c] /\ Subject(r) \in Serials
<1>1. rpc[r] # "idle"
  BY DEF Asks
<1>2. /\ loaded[r].cert \in Certs /\ loaded[r].ref \in versions[loaded[r].cert]
      /\ loaded[r].cert \in Ours /\ pem[r] \in versions[loaded[r].cert]
  BY <1>1, UnderWay
<1>3. StoreTypeOK
  BY DEF LifeInv, LifecycleTypeOK, TypeOK
<1>. QED
  BY <1>2, <1>3 DEF Subject, StoreTypeOK

\* The steps at which a CA revokes: the answer comes back, or is lost.
LEMMA DeadlyStep ==
  ASSUME LifeInv, NEW r \in Revokers, Unmoved, Apart(r), LifecycleTypeOK', Known(r)', certificate' = certificate,
         Asks(r), dead' = dead \cup {Subject(r)}, bypassed' = bypassed, stranded \subseteq stranded',
         \A c \in Certs : loaded[r].cert = c =>
           \/ Revoking(c)'
           \/ certificate[c].serial \notin dead'
           \/ certificate[c].status = "revoked"
           \/ c \in stranded'
  PROVE  LifeInv'
<1>1. UNCHANGED <<ledger, overtaken, raced, origin, provider, crossed, versions>>
  BY DEF Unmoved, orderVars
<1>2. PICK c : c = loaded[r].cert
  OBVIOUS
<1>3. PICK s : s = Subject(r)
  OBVIOUS
<1>4. c \in Ours /\ c \in Certs /\ s \in versions[c]
  BY <1>2, <1>3, SubjectIsFiled DEF Ours
<1>5. DeadAreFiled'
  <2>1. Ours' = Ours
    BY <1>1 DEF Ours
  <2>. QED
    BY <1>1, <1>3, <1>4, <2>1 DEF LifeInv, DeadAreFiled
<1>6. RevokedIsDead'
  <2> SUFFICES ASSUME NEW d \in Certs \ (raced \cup crossed \cup bypassed),
                      certificate[d].status = "revoked", AtCA(d), \A o \in overtaken : origin[o] # d
               PROVE  LatestVersion(d)' \in dead'
    BY <1>1 DEF RevokedIsDead, AtCA
  <2>. QED
    BY UnmovedKeeps DEF LifeInv, RevokedIsDead
<1>7. ActiveIsAlive'
  <2> SUFFICES ASSUME NEW d \in Certs, certificate[d].status = "active", provider[d] # "manual",
                      certificate[d].serial \in dead'
               PROVE  \/ Revoking(d)' \/ d \in stranded' \/ ledger[certificate[d].serial] \in overtaken
    BY <1>1 DEF ActiveIsAlive
  <2>1. CASE d = c
    BY <1>2, <2>1
  <2>2. CASE d # c /\ certificate[d].serial \in dead
    <3>1. Revoking(d) \/ d \in stranded \/ ledger[certificate[d].serial] \in overtaken
      BY <2>2 DEF LifeInv, ActiveIsAlive
    <3>2. ASSUME NEW q \in Revokers, loaded[q].cert = d PROVE Revoking(d)'
      BY <1>2, <2>2, <3>2 DEF Apart, Revoking
    <3>. QED
      BY <3>1, <3>2 DEF Revoking
  <2>3. CASE d # c /\ certificate[d].serial = s
    <3>1. Exists(d) /\ d \in Ours
      BY DEF Exists, Ours
    <3>2. s \in versions[d]
      BY <2>3, <3>1 DEF LifeInv, Backed
    <3>3. OnceAmong(Ours)
      BY DEF LifeInv, FilingInv, NewestInv, FiledInv
    <3>. QED
      BY <1>4, <2>3, <3>1, <3>2, <3>3 DEF OnceAmong
  <2>. QED
    BY <1>3, <2>1, <2>2, <2>3
<1>8. \A q \in Revokers \ {r} : Known(q)'
  BY OthersKnow
<1>. QED
  BY <1>5, <1>6, <1>7, <1>8, UnmovedKeeps DEF LifeInv

\* A request that ends forgets what it loaded.
LEMMA Returned ==
  ASSUME LifeInv, NEW r \in Revokers, RReturn(r), TypeOK', UNCHANGED provider,
         dead' \in SUBSET Serials, crossed' \in SUBSET Certs, bypassed' \in SUBSET Certs, stranded' \in SUBSET Certs
  PROVE  LifecycleTypeOK' /\ Known(r)' /\ Apart(r)
<1>1. PICK row : row = NoRowLoaded
  OBVIOUS
<1>2. row \in [cert: Link, ref: Serials \cup {NoSerial}] /\ row.cert \notin Certs
  BY <1>1, OrdersAssumption DEF NoRowLoaded, Link
<1>3. /\ rpc' = [rpc EXCEPT ![r] = "idle"]
      /\ loaded' = [loaded EXCEPT ![r] = row]
      /\ pem' = [pem EXCEPT ![r] = NoSerial]
  BY <1>1 DEF RReturn, RGoto
<1>4. LifecycleTypeOK
  BY DEF LifeInv
<1>5. rpc'[r] = "idle" /\ loaded'[r] = row /\ Apart(r)
  BY <1>3, <1>4 DEF LifecycleTypeOK, Apart
<1>6. LifecycleTypeOK'
  <2>1. /\ rpc' \in [Revokers -> {"idle", "first", "ask first", "second", "ask second", "mark"}]
        /\ pem' \in [Revokers -> Serials \cup {NoSerial}]
    BY <1>3, <1>4 DEF LifecycleTypeOK
  <2>2. loaded' \in [Revokers -> [cert: Link, ref: Serials \cup {NoSerial}]]
    BY <1>2, <1>3, <1>4 DEF LifecycleTypeOK
  <2>3. \A q \in Revokers : rpc'[q] # "idle" <=> loaded'[q].cert \in Certs
    BY <1>2, <1>4, <1>5 DEF LifecycleTypeOK, Apart
  <2>. QED
    BY <1>4, <2>1, <2>2, <2>3 DEF LifecycleTypeOK
<1>. QED
  BY <1>5, <1>6 DEF Known

LEMMA LifeRevokes ==
  ASSUME LifeInv, NEW r \in Revokers, CARevokes(r)
  PROVE  LifeInv'
<1>1. PICK c : c = loaded[r].cert
  OBVIOUS
<1>2. /\ Asks(r) /\ rpc[r] # "idle"
      /\ rpc' = [rpc EXCEPT ![r] = Past(r)]
      /\ UNCHANGED <<vars, provider, loaded, pem, crossed, bypassed, stranded>>
      /\ \/ provider[c] = "selfsigned" /\ dead' = dead
         \/ AtCA(c) /\ dead' = dead \cup {Subject(r)}
  BY <1>1 DEF CARevokes, RGoto, Asks, AtCA
<1>3. LifecycleTypeOK
  BY DEF LifeInv
<1>4. Unmoved
  BY <1>2, StillUnmoved
<1>5. /\ Past(r) \in {"second", "mark"} /\ rpc'[r] = Past(r) /\ Apart(r)
      /\ loaded'[r] = loaded[r] /\ pem'[r] = pem[r]
  BY <1>2, <1>3 DEF LifecycleTypeOK, Apart, Past
<1>6. /\ c \in Certs /\ Exists(c) /\ loaded[r].ref \in versions[c] /\ c \in Ours
      /\ c \notin crossed => /\ c \in Orderly \cap Ours => loaded[r].ref = LatestVersion(c)
                             /\ pem[r] = LatestVersion(c)
  BY <1>1, <1>2, UnderWay
<1>7. Subject(r) \in Serials
  BY <1>2, SubjectIsFiled
<1>8. TypeOK'
  BY <1>4, UnmovedKeeps
<1>9. LifecycleTypeOK'
  BY <1>1, <1>2, <1>3, <1>5, <1>6, <1>7, <1>8 DEF LifecycleTypeOK, Apart
<1>10. Known(r)'
  <2>1. Exists(c)' /\ versions' = versions /\ crossed' = crossed
    BY <1>2, <1>4, <1>6 DEF Unmoved
  <2>2. Orderly' = Orderly /\ Ours' = Ours /\ LatestVersion(c)' = LatestVersion(c) /\ AtCA(c)' = AtCA(c)
    BY <1>4, <1>6, UnmovedKeeps
  <2>3. ~ Asks(r)'
    BY <1>5 DEF Asks
  <2>4. c \notin crossed /\ c \in Orderly /\ AtCA(c) => LatestVersion(c) \in dead'
    <3>1. c \notin crossed /\ c \in Orderly => Subject(r) = LatestVersion(c)
      BY <1>1, <1>6 DEF Subject
    <3>2. AtCA(c) => dead' = dead \cup {Subject(r)}
      BY <1>2 DEF AtCA
    <3>. QED
      BY <3>1, <3>2
  <2>. QED
    BY <1>1, <1>2, <1>5, <1>6, <2>1, <2>2, <2>3, <2>4 DEF Known
<1>11. certificate' = certificate
  BY <1>2 DEF vars
<1>12. \A d \in Certs : loaded[r].cert = d => Revoking(d)'
  BY <1>5 DEF Revoking
<1>13. CASE dead' = dead
  BY <1>2, <1>4, <1>5, <1>9, <1>10, <1>11, <1>12, <1>13, QuietStep
<1>14. CASE dead' = dead \cup {Subject(r)}
  BY <1>2, <1>4, <1>5, <1>9, <1>10, <1>11, <1>12, <1>14, DeadlyStep
<1>. QED
  BY <1>2, <1>13, <1>14

LEMMA LifeRefuses ==
  ASSUME LifeInv, NEW r \in Revokers, CARefuses(r)
  PROVE  LifeInv'
<1>1. PICK c : c = loaded[r].cert
  OBVIOUS
<1>2. /\ Asks(r) /\ rpc[r] # "idle" /\ RReturn(r)
      /\ stranded' = IF certificate[c].serial \in dead /\ certificate[c].status # "revoked"
                     THEN stranded \cup {c} ELSE stranded
      /\ UNCHANGED <<vars, provider, dead, crossed, bypassed>>
  BY <1>1 DEF CARefuses, NoteStranded, Asks
<1>3. LifecycleTypeOK
  BY DEF LifeInv
<1>4. Unmoved /\ TypeOK'
  BY <1>2, StillUnmoved, UnmovedKeeps
<1>5. c \in Certs
  BY <1>1, <1>2, UnderWay
<1>6. stranded \subseteq stranded' /\ stranded' \in SUBSET Certs
  BY <1>2, <1>3, <1>5 DEF LifecycleTypeOK
<1>7. dead' \in SUBSET Serials /\ crossed' \in SUBSET Certs /\ bypassed' \in SUBSET Certs
  BY <1>2, <1>3 DEF LifecycleTypeOK
<1>8. LifecycleTypeOK' /\ Known(r)' /\ Apart(r)
  BY <1>2, <1>4, <1>6, <1>7, Returned
<1>9. certificate' = certificate
  BY <1>2 DEF vars
<1>10. \A d \in Certs : loaded[r].cert = d =>
         certificate[d].serial \notin dead \/ certificate[d].status = "revoked" \/ d \in stranded'
  BY <1>1, <1>2
<1>. QED
  BY <1>2, <1>4, <1>6, <1>8, <1>9, <1>10, QuietStep

LEMMA LifeFails ==
  ASSUME LifeInv, NEW r \in Revokers, RevocationFails(r)
  PROVE  LifeInv'
<1>1. PICK c : c = loaded[r].cert
  OBVIOUS
<1>2. /\ rpc[r] # "idle" /\ RReturn(r)
      /\ \/ dead' = dead
         \/ Asks(r) /\ dead' = dead \cup {Subject(r)}
      /\ stranded' = IF certificate[c].serial \in dead' /\ certificate[c].status # "revoked"
                     THEN stranded \cup {c} ELSE stranded
      /\ UNCHANGED <<vars, provider, crossed, bypassed>>
  BY <1>1 DEF RevocationFails, NoteStranded
<1>3. LifecycleTypeOK
  BY DEF LifeInv
<1>4. Unmoved /\ TypeOK'
  BY <1>2, StillUnmoved, UnmovedKeeps
<1>5. c \in Certs
  BY <1>1, <1>2, UnderWay
<1>6. stranded \subseteq stranded' /\ stranded' \in SUBSET Certs
  BY <1>2, <1>3, <1>5 DEF LifecycleTypeOK
<1>7. Asks(r) => Subject(r) \in Serials
  BY SubjectIsFiled
<1>8. dead' \in SUBSET Serials /\ crossed' \in SUBSET Certs /\ bypassed' \in SUBSET Certs
  BY <1>2, <1>3, <1>7 DEF LifecycleTypeOK
<1>9. LifecycleTypeOK' /\ Known(r)' /\ Apart(r)
  BY <1>2, <1>4, <1>6, <1>8, Returned
<1>10. certificate' = certificate
  BY <1>2 DEF vars
<1>11. \A d \in Certs : loaded[r].cert = d =>
         certificate[d].serial \notin dead' \/ certificate[d].status = "revoked" \/ d \in stranded'
  BY <1>1, <1>2
<1>12. CASE dead' = dead
  BY <1>2, <1>4, <1>6, <1>9, <1>10, <1>11, <1>12, QuietStep
<1>13. CASE Asks(r) /\ dead' = dead \cup {Subject(r)}
  BY <1>2, <1>4, <1>6, <1>9, <1>10, <1>11, <1>13, DeadlyStep
<1>. QED
  BY <1>2, <1>12, <1>13

LEMMA LifeMarks ==
  ASSUME LifeInv, NEW r \in Revokers, MarkRevoked(r)
  PROVE  LifeInv'
<1>1. PICK c : c = loaded[r].cert
  OBVIOUS
<1>2. /\ rpc[r] = "mark" /\ rpc[r] # "idle" /\ RReturn(r)
      /\ Exists(c)
      /\ certificate' = [certificate EXCEPT ![c].status = "revoked"]
      /\ UNCHANGED <<versions, orderVars, provider, dead, crossed, bypassed, stranded>>
  BY <1>1 DEF MarkRevoked, Revoke
<1>3. LifecycleTypeOK /\ StoreTypeOK
  BY DEF LifeInv, LifecycleTypeOK, TypeOK
<1>4. /\ c \in Certs
      /\ c \notin crossed \cup bypassed /\ AtCA(c) /\ c \in Orderly => LatestVersion(c) \in dead
  BY <1>1, <1>2, UnderWay
<1>5. PICK row : row = [certificate[c] EXCEPT !.status = "revoked"]
  OBVIOUS
<1>6. /\ row \in [status: Status, serial: Serials \cup {NoSerial}]
      /\ row.status = "revoked" /\ row.serial = certificate[c].serial
  BY <1>3, <1>4, <1>5 DEF StoreTypeOK, Status
<1>7. /\ certificate' = [certificate EXCEPT ![c] = row]
      /\ certificate'[c] = row
      /\ \A d \in Certs : d # c => certificate'[d] = certificate[d]
  BY <1>2, <1>3, <1>4, <1>5 DEF StoreTypeOK
<1>8. Unmoved
  <2>1. \A d \in Certs : certificate'[d].serial = certificate[d].serial /\ Exists(d)' = Exists(d)
    <3> SUFFICES ASSUME NEW d \in Certs
                 PROVE  certificate'[d].serial = certificate[d].serial /\ Exists(d)' = Exists(d)
      OBVIOUS
    <3>1. CASE d = c
      <4>1. Exists(d)' /\ Exists(d)
        BY <1>2, <1>6, <1>7, <3>1 DEF Exists
      <4>. QED
        BY <1>6, <1>7, <3>1, <4>1
    <3>2. CASE d # c
      BY <1>7, <3>2 DEF Exists
    <3>. QED
      BY <3>1, <3>2
  <2>2. certificate' \in [Certs -> [status: Status, serial: Serials \cup {NoSerial}]]
    BY <1>3, <1>6, <1>7 DEF StoreTypeOK
  <2>. QED
    BY <1>2, <2>1, <2>2 DEF Unmoved
<1>9. TypeOK' /\ FilingInv' /\ Backed' /\ Ours' = Ours /\ Orderly' = Orderly
  BY <1>8, UnmovedKeeps
<1>10. dead' \in SUBSET Serials /\ crossed' \in SUBSET Certs /\ bypassed' \in SUBSET Certs /\ stranded' \in SUBSET Certs
  BY <1>2, <1>3 DEF LifecycleTypeOK
<1>11. LifecycleTypeOK' /\ Known(r)' /\ Apart(r)
  BY <1>2, <1>9, <1>10, Returned
<1>12. \A q \in Revokers : Known(q)'
  <2>1. \A q \in Revokers \ {r} : Known(q)'
    BY <1>2, <1>8, <1>11, OthersKnow
  <2>. QED
    BY <1>11, <2>1
<1>13. UNCHANGED <<ledger, overtaken, raced, origin, provider, crossed, versions, dead, bypassed, stranded>>
  BY <1>2 DEF orderVars
<1>14. DeadAreFiled'
  BY <1>9, <1>13 DEF LifeInv, DeadAreFiled
<1>15. RevokedIsDead'
  <2> SUFFICES ASSUME NEW d \in Certs \ (raced \cup crossed \cup bypassed),
                      certificate'[d].status = "revoked", AtCA(d), \A o \in overtaken : origin[o] # d
               PROVE  LatestVersion(d)' \in dead
    BY <1>13 DEF RevokedIsDead, AtCA
  <2>1. LatestVersion(d) \in dead
    <3>1. CASE d = c
      BY <1>4, <3>1 DEF Orderly
    <3>2. CASE d # c
      BY <1>7, <3>2 DEF LifeInv, RevokedIsDead
    <3>. QED
      BY <3>1, <3>2
  <2>. QED
    BY <1>8, <2>1, UnmovedKeeps
<1>16. ActiveIsAlive'
  <2> SUFFICES ASSUME NEW d \in Certs, certificate'[d].status = "active", provider[d] # "manual",
                      certificate'[d].serial \in dead
               PROVE  \/ Revoking(d)' \/ d \in stranded \/ ledger[certificate'[d].serial] \in overtaken
    BY <1>13 DEF ActiveIsAlive
  <2>1. d # c
    BY <1>6, <1>7
  <2>2. Revoking(d) \/ d \in stranded \/ ledger[certificate[d].serial] \in overtaken
    BY <1>7, <2>1 DEF LifeInv, ActiveIsAlive
  <2>3. ASSUME NEW q \in Revokers, loaded[q].cert = d PROVE Revoking(d)'
    BY <1>1, <1>11, <2>1, <2>3 DEF Apart, Revoking
  <2>. QED
    BY <1>7, <2>1, <2>2, <2>3 DEF Revoking
<1>. QED
  BY <1>9, <1>11, <1>12, <1>14, <1>15, <1>16 DEF LifeInv

LEMMA StepLifeInv == LifeInv /\ [LifecycleNext]_lifecycleVars => LifeInv'
<1> SUFFICES ASSUME LifeInv, [LifecycleNext]_lifecycleVars PROVE LifeInv'
  OBVIOUS
<1>1. CASE UNCHANGED lifecycleVars
  <2>1. /\ UNCHANGED <<vars, provider, crossed>>
        /\ UNCHANGED <<dead, rpc, loaded, pem, bypassed, stranded>>
    BY <1>1 DEF lifecycleVars, revocationVars
  <2>2. UNCHANGED <<certificate, ledger, overtaken, raced, origin, versions>>
    BY <2>1 DEF vars
  <2>3. Unmoved
    BY <2>1, StillUnmoved
  <2>4. LifecycleTypeOK'
    BY <2>1, <2>3, UnmovedKeeps DEF LifeInv, LifecycleTypeOK
  <2>5. \A r \in Revokers : Known(r)'
    <3> SUFFICES ASSUME NEW r \in Revokers PROVE Known(r)'
      OBVIOUS
    <3>1. Orderly' \subseteq Orderly
      BY <2>3, UnmovedKeeps
    <3>. QED
      BY <2>1, <2>2, <3>1, KnownKept DEF Exists
  <2>6. DeadAreFiled'
    BY <2>1, <2>2 DEF LifeInv, DeadAreFiled, Ours
  <2>7. RevokedIsDead'
    BY <2>1, <2>2 DEF LifeInv, RevokedIsDead, AtCA, LatestVersion
  <2>8. ActiveIsAlive'
    BY <2>1, <2>2 DEF LifeInv, ActiveIsAlive, Revoking
  <2>. QED
    BY <2>3, <2>4, <2>5, <2>6, <2>7, <2>8, UnmovedKeeps DEF LifeInv
<1>. QED
  BY <1>1, LifeOrderStep, LifeImport, LifeLoad, LifeBypass, LifeRead, LifeRevokes, LifeRefuses, LifeMarks,
     LifeFails DEF LifecycleNext

\* Rows, requests and the CAs' records always hold values of their types, and a request that is
\* under way has a row loaded.
THEOREM LifecycleTypeCorrect == LifecycleSpec => []LifecycleTypeOK
<1>1. LifeInv => LifecycleTypeOK
  BY DEF LifeInv
<1>. QED
  BY <1>1, InitLifeInv, StepLifeInv, PTL DEF LifecycleSpec

\* However revocations, renewals and imports interleave: what is marked revoked is revoked at
\* its CA, but for the cases the invariant names.
THEOREM MarkedIsRevoked == LifecycleSpec => []RevokedIsDead
<1>1. LifeInv => RevokedIsDead
  BY DEF LifeInv
<1>. QED
  BY <1>1, InitLifeInv, StepLifeInv, PTL DEF LifecycleSpec

\* What the inventory shows as active the CA has not revoked, but for the cases the invariant
\* names.
THEOREM ActiveIsValid == LifecycleSpec => []ActiveIsAlive
<1>1. LifeInv => ActiveIsAlive
  BY DEF LifeInv
<1>. QED
  BY <1>1, InitLifeInv, StepLifeInv, PTL DEF LifecycleSpec

\* Only a renewal of it brings a revoked entry back.
LEMMA StepRevived ==
  ASSUME LifeInv, [LifecycleNext]_lifecycleVars,
         NEW c \in Certs, certificate[c].status = "revoked", certificate'[c].status # "revoked"
  PROVE  LET s == certificate'[c].serial IN
           /\ certificate'[c].status = "active"
           /\ s \in versions'[c]
           /\ ledger[s] \in Orders /\ origin[ledger[s]] = c
           /\ s \notin versions[c] \cup dead \/ ledger[s] \in overtaken
<1>1. CallsInv /\ TypeOK /\ StoreTypeOK
  BY DEF LifeInv, FilingInv, NewestInv, FiledInv, ClaimInv, CallsInv, TypeOK
<1>2. certificate'[c] # certificate[c] /\ Exists(c)
  BY DEF Exists
<1>3. ASSUME NEW d \in Certs, NEW s \in Serials, NEW st \in {"active", "expired"}, Import(d, s, st)
      PROVE  FALSE
  BY <1>1, <1>2, <1>3 DEF Import, FinalizeNewCertificate, StoreTypeOK
<1>4. ASSUME NEW r \in Revokers, MarkRevoked(r)
      PROVE  FALSE
  BY <1>1, <1>2, <1>4 DEF MarkRevoked, Revoke, StoreTypeOK
<1>5. ASSUME UNCHANGED vars
      PROVE  FALSE
  BY <1>2, <1>5 DEF vars
<1>6. OrderStep
  BY <1>3, <1>4, <1>5 DEF LifecycleNext, lifecycleVars, LoadForRevoke, Bypass, ReadLatest, CARevokes, CARefuses,
     RevocationFails
<1>7. PICK p \in Validators : Filed(p, c)
  BY <1>1, <1>2, <1>6, StepEntry DEF OrderStep
<1>8. /\ certificate'[c].status = "active" /\ certificate'[c].serial = serial[p]
      /\ versions'[c] = versions[c] \cup {serial[p]}
      /\ pc[p] = "signed" /\ origin[target[p]] = c
  BY <1>2, <1>7, FiledShows DEF Filed
<1>9. ledger[serial[p]] = target[p] /\ target[p] \in Orders
  BY <1>1, <1>8 DEF CallsInv, CallsOK
<1>10. provider[c] # "manual"
  BY <1>2, <1>6 DEF OrderStep
<1>11. target[p] \notin overtaken => serial[p] \notin versions[c] \cup dead
  BY <1>8, <1>10, FiledAnew DEF Ours
<1>. QED
  BY <1>8, <1>9, <1>11

\* A revoked entry comes back only through a renewal of it, and with a certificate that is not
\* revoked unless the row of the renewal's order was overwritten.
THEOREM OnlyRenewalRevives == LifecycleSpec => RevivedByRenewal
<1>1. LifeInv /\ [LifecycleNext]_lifecycleVars =>
        [\A c \in Certs :
           certificate[c].status = "revoked" /\ certificate'[c].status # "revoked" =>
             LET s == certificate'[c].serial IN
               /\ certificate'[c].status = "active"
               /\ s \in versions'[c]
               /\ ledger[s] \in Orders /\ origin[ledger[s]] = c
               /\ s \notin versions[c] \cup dead \/ ledger[s] \in overtaken]_lifecycleVars
  BY StepRevived
<1>. QED
  BY <1>1, InitLifeInv, StepLifeInv, PTL DEF LifecycleSpec, RevivedByRenewal


-----------------------------------------------------------------------------
(* The promises of the orders and of the inventory, with revocations and      *)
(* imports beside them.                                                       *)

\* A step of a revocation or an import touches no order, no call and no history of theirs, and
\* changes the inventory by one of its transactions.
LEMMA StepBesideOrders ==
  ASSUME LifeInv, [LifecycleNext]_lifecycleVars, ~ OrderStep
  PROVE  /\ UNCHANGED <<order, pc, target, ledger, claims, overtaken, faults>>
         /\ [StoreNext]_storeVars
         /\ \A c \in Certs : versions[c] \subseteq versions'[c]
<1>1. StoreTypeOK
  BY DEF LifeInv, LifecycleTypeOK, TypeOK
<1>2. CASE UNCHANGED vars
  BY <1>2 DEF vars, storeVars
<1>3. ASSUME NEW c \in Certs, NEW s \in Serials, NEW st \in {"active", "expired"}, Import(c, s, st)
      PROVE  /\ UNCHANGED <<order, pc, target, ledger, claims, overtaken, faults>>
             /\ StoreNext
             /\ \A d \in Certs : versions[d] \subseteq versions'[d]
  BY <1>1, <1>3 DEF Import, StoreNext, FinalizeNewCertificate, StoreTypeOK
<1>4. ASSUME NEW r \in Revokers, MarkRevoked(r)
      PROVE  /\ UNCHANGED <<order, pc, target, ledger, claims, overtaken, faults>>
             /\ StoreNext
             /\ \A d \in Certs : versions[d] \subseteq versions'[d]
  <2>1. loaded[r].cert \in Certs
    BY <1>4 DEF MarkRevoked, LifeInv, LifecycleTypeOK
  <2>. QED
    BY <1>4, <2>1 DEF MarkRevoked, Revoke, StoreNext, orderVars
<1>. QED
  BY <1>2, <1>3, <1>4 DEF LifecycleNext, lifecycleVars, LoadForRevoke, Bypass, ReadLatest, CARevokes, CARefuses,
     RevocationFails

\* What the promises of the orders need of an invariant.
LEMMA LifeKnowsOrders ==
  ASSUME LifeInv
  PROVE  ClaimInv /\ CallsInv /\ TypeOK /\ OnceAmong(Ours)
BY DEF LifeInv, FilingInv, NewestInv, FiledInv, ClaimInv, CallsInv

\* Orders, revocations and imports together still write the inventory by whole transactions.
THEOREM LifecycleImplementsStore == LifecycleSpec => StoreSpec
<1>1. LifecycleInit => StoreInit
  BY DEF LifecycleInit, Init
<1>2. LifeInv /\ [LifecycleNext]_lifecycleVars => [StoreNext]_storeVars
  BY StepBesideOrders, LifeKnowsOrders, StepStore DEF OrderStep
<1>. QED
  BY <1>1, <1>2, InitLifeInv, StepLifeInv, PTL DEF LifecycleSpec, StoreSpec

\* Revocations and imports do not disturb the orders' contract.
THEOREM LifecycleKeepsContract == LifecycleSpec => KeepsContract
<1>1. LifecycleInit => Contract!ContractInit
  BY OrdersAssumption DEF LifecycleInit, Init, NoRow, StatusView, SignedFor, Contract!ContractInit, Serials
<1>2. LifeInv /\ [LifecycleNext]_lifecycleVars => [Contract!ContractNext]_(Contract!contractVars)
  <2> SUFFICES ASSUME LifeInv, [LifecycleNext]_lifecycleVars
               PROVE  [Contract!ContractNext]_(Contract!contractVars)
    OBVIOUS
  <2>1. CASE OrderStep
    BY <2>1, LifeKnowsOrders, StepContract DEF OrderStep
  <2>2. CASE ~ OrderStep
    BY <2>2, StepBesideOrders DEF StatusView, SignedFor, Contract!contractVars
  <2>. QED
    BY <2>1, <2>2
<1>. QED
  BY <1>1, <1>2, InitLifeInv, StepLifeInv, PTL DEF LifecycleSpec, KeepsContract, Contract!ContractSpec

\* The promises of the orders, restricted to the certificates that only orders file: an import
\* may file under another entry what an order has filed already.
OrdersHold ==
  /\ OneSubmissionUnlessOvertaken
  /\ IssuedMeansStored
  /\ StrandedOnlyByFaults
  /\ OnceAmong(Ours)
  /\ \A c \in Orderly \cap Ours : Exists(c) => certificate[c].serial = LatestVersion(c)

OrdersInv == LifeInv /\ IssuedMeansStored /\ StrandedInv

LEMMA StepOrdersInv == OrdersInv /\ [LifecycleNext]_lifecycleVars => OrdersInv'
<1> SUFFICES ASSUME OrdersInv, [LifecycleNext]_lifecycleVars PROVE OrdersInv'
  OBVIOUS
<1>1. LifeInv' /\ TypeOK'
  BY StepLifeInv, LifeKnowsOrders DEF OrdersInv, LifeInv, LifecycleTypeOK
<1>2. CASE OrderStep
  BY <1>1, <1>2, LifeKnowsOrders, StepIssuedInv, StepStrandedInv DEF OrdersInv, IssuedInv, OrderStep
<1>3. CASE ~ OrderStep
  <2>1. /\ UNCHANGED <<order, pc, target, ledger, claims, overtaken, faults>>
        /\ \A c \in Certs : versions[c] \subseteq versions'[c]
    BY <1>3, StepBesideOrders DEF OrdersInv
  <2>2. IssuedMeansStored'
    BY <2>1 DEF OrdersInv, IssuedMeansStored
  <2>3. StrandedInv'
    BY <1>1, <2>1 DEF OrdersInv, StrandedInv, StrandedOnlyByFaults, Stranded, Issuing
  <2>. QED
    BY <1>1, <2>2, <2>3 DEF OrdersInv
<1>. QED
  BY <1>2, <1>3

\* Whatever revocations and imports run beside them, what is proved of the orders alone holds:
\* one submission per order and one entry per certificate unless overtaken, nothing issued that
\* is not stored, nothing stranded but by faults, and rows that show the latest version.
THEOREM OrdersHoldBesideRevocations == LifecycleSpec => []OrdersHold
<1>1. LifecycleInit => OrdersInv
  <2> SUFFICES ASSUME LifecycleInit PROVE OrdersInv
    OBVIOUS
  <2>1. Stranded = {} /\ faults = 0 /\ IssuedMeansStored
    BY DEF LifecycleInit, Init, Stranded, NoRow, IssuedMeansStored
  <2>. QED
    BY <2>1, InitLifeInv, LifeKnowsOrders, FS_EmptySet DEF OrdersInv, StrandedInv, StrandedOnlyByFaults
<1>2. OrdersInv => OrdersHold
  <2> SUFFICES ASSUME OrdersInv PROVE OrdersHold
    OBVIOUS
  <2>1. \A c \in Orderly \cap Ours : Exists(c) => certificate[c].serial = LatestVersion(c)
    BY LatestIsShown DEF OrdersInv
  <2>. QED
    BY <2>1, LifeKnowsOrders DEF OrdersInv, OrdersHold, ClaimInv, StrandedInv
<1>. QED
  BY <1>1, <1>2, StepOrdersInv, PTL DEF LifecycleSpec

=============================================================================
