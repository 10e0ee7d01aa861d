-------------------------------- MODULE Orders --------------------------------
(***************************************************************************)
(* internal/order: the life of certificate orders, from Create or          *)
(* CreateRenewal to issued or failed, when any number of Validate calls    *)
(* (HTTP requests, the renewal engine) run on the same orders at once.     *)
(*                                                                         *)
(* One call of Service.Validate is a process p.  It reads the order row    *)
(* once and then works on its own copy o of it (snap[p]); between any two  *)
(* accesses to the database or the CA, other calls run.  Every write of    *)
(* the row but one is store.Update, which overwrites status and            *)
(* certificate_id whatever they are by then; the exception is the claim    *)
(* (UpdateIfStatus).                                                       *)
(*                                                                         *)
(* Abstracted: challenge contents, attempt_count, error texts, timestamps; *)
(* the Vault key (created before the order row, never changed); the answer *)
(* of CheckChallenge, and whether the provider is still in the registry,   *)
(* which may be anything at any time.                                      *)
(*                                                                         *)
(* The four authorities differ in when the CA signs: Let's Encrypt and     *)
(* self-signed inside Issue, ZeroSSL and AD CS on their own, once the      *)
(* order is validated or approved.  So signing is an action of the CA, at  *)
(* any time after the order was opened and once per order, and Issue hands *)
(* out what was signed, however often it is asked (ZeroSSL and AD CS       *)
(* download; a second finalize at Let's Encrypt is refused, which is       *)
(* IssueRefused).                                                          *)
(***************************************************************************)
EXTENDS CertStore

CONSTANTS
  Orders,      \* ids of certificate_order rows
  Validators,  \* concurrent calls of Service.Validate
  NoOrder, NoCert,
  MaxFaults    \* bound: how many calls are cut short by a fault

ASSUME OrdersAssumption ==
  /\ NoOrder \notin Orders
  /\ NoCert \notin Certs
  /\ MaxFaults \in Nat

VARIABLES
  order,      \* order[o]: the row (status, certificate_id)
  pc,         \* pc[p]: how far the call p has come
  target,     \* target[p]: the order id p was called with
  snap,       \* snap[p]: p's in-memory copy of the row
  serial,     \* serial[p]: what Issue returned to p
  ledger,     \* at the CA: ledger[s] is the order whose CSR was signed as serial s
  signed,     \* at the CA: how many certificates were signed
  \* history, read by no action
  origin,     \* origin[o]: the certificate o renews, NoCert if o is for a new one
  claims,     \* claims[o]: how many calls passed the check and went on to the CA; 2 is "more than one"
  overtaken,  \* orders whose row a call overwrote after another had claimed or closed it
  raced,      \* certificates a renewal was signed for while another one was under way
  faults      \* faults so far

orderVars == <<order, pc, target, snap, serial, ledger, signed, origin, claims, overtaken, raced, faults>>
vars == <<certificate, versions, order, pc, target, snap, serial, ledger, signed,
          origin, claims, overtaken, raced, faults>>

Link == Certs \cup {NoCert}
Row  == [status: {"none", "awaiting_validation", "issuing", "issued", "failed"}, cert: Link]
NoRow == [status |-> "none", cert |-> NoCert]

TypeOK ==
  /\ StoreTypeOK
  /\ order \in [Orders -> Row]
  /\ pc \in [Validators -> {"idle", "read", "claimed", "signed", "stored"}]
  /\ target \in [Validators -> Orders \cup {NoOrder}]
  /\ snap \in [Validators -> Row]
  /\ serial \in [Validators -> Serials \cup {NoSerial}]
  /\ ledger \in [Serials -> Orders \cup {NoOrder}]
  /\ signed \in 0 .. MaxSerial
  /\ origin \in [Orders -> Link]
  /\ claims \in [Orders -> 0 .. 2]
  /\ overtaken \in SUBSET Orders
  /\ raced \in SUBSET Certs
  /\ faults \in 0 .. MaxFaults
  /\ \A p \in Validators :
       /\ pc[p] # "idle" <=> target[p] \in Orders
       /\ pc[p] \in {"signed", "stored"} <=> serial[p] \in Serials

Init ==
  /\ StoreInit
  /\ order = [o \in Orders |-> NoRow]
  /\ pc = [p \in Validators |-> "idle"]
  /\ target = [p \in Validators |-> NoOrder]
  /\ snap = [p \in Validators |-> NoRow]
  /\ serial = [p \in Validators |-> NoSerial]
  /\ ledger = [s \in Serials |-> NoOrder]
  /\ signed = 0
  /\ origin = [o \in Orders |-> NoCert]
  /\ claims = [o \in Orders |-> 0]
  /\ overtaken = {}
  /\ raced = {}
  /\ faults = 0

-----------------------------------------------------------------------------
(* Opening an order.  The row is inserted last, after the key, the CSR and    *)
(* RequestValidation; a failure before that leaves no row.                    *)

\* Mutant: the row is left in the unused status draft.
InsertDraft(o, link) ==
  /\ order[o].status = "none"
  /\ order' = [order EXCEPT ![o] = [status |-> "draft", cert |-> link]]
  /\ origin' = [origin EXCEPT ![o] = link]
  /\ UNCHANGED <<storeVars, pc, target, snap, serial, ledger, signed, claims, overtaken, raced, faults>>

Insert(o, link) ==
  /\ order[o].status = "none"
  /\ order' = [order EXCEPT ![o] = [status |-> "awaiting_validation", cert |-> link]]
  /\ origin' = [origin EXCEPT ![o] = link]
  /\ UNCHANGED <<storeVars, pc, target, snap, serial, ledger, signed, claims, overtaken, raced, faults>>

Create(o) == Insert(o, NoCert)

\* Nothing is asked of the certificate but that it was read from the inventory:
\* not its status, and not whether another order is renewing it already.
CreateRenewal(o, c) == Exists(c) /\ Insert(o, c)

-----------------------------------------------------------------------------
(* Validate.                                                                  *)

Goto(p, l) == pc' = [pc EXCEPT ![p] = l]

\* p's call is over: its local state is gone.
Return(p) ==
  /\ Goto(p, "idle")
  /\ target' = [target EXCEPT ![p] = NoOrder]
  /\ snap' = [snap EXCEPT ![p] = NoRow]
  /\ serial' = [serial EXCEPT ![p] = NoSerial]

\* store.Update by p: status and certificate_id are overwritten, whatever the row says now.
Update(p, status) ==
  order' = [order EXCEPT ![target[p]] = [status |-> status, cert |-> snap[p].cert]]

\* History: p, which never claimed its order, wrote the row after it had left awaiting_validation.
NoteOvertaken(p) ==
  overtaken' = IF order[target[p]].status = "awaiting_validation"
               THEN overtaken ELSE overtaken \cup {target[p]}

\* History: p passed the check.
CountClaim(p) == claims' = [claims EXCEPT ![target[p]] = IF @ = 0 THEN 1 ELSE 2]

Get(p, o) ==
  /\ pc[p] = "idle"
  /\ order[o].status # "none"
  /\ Goto(p, "read")
  /\ target' = [target EXCEPT ![p] = o]
  /\ snap' = [snap EXCEPT ![p] = order[o]]
  /\ UNCHANGED <<storeVars, order, serial, ledger, signed, origin, claims, overtaken, raced, faults>>

\* The order was not awaiting validation when it was read: it is returned as it is.
ReturnSettled(p) ==
  /\ pc[p] = "read"
  /\ snap[p].status # "awaiting_validation"
  /\ Return(p)
  /\ UNCHANGED <<storeVars, order, ledger, signed, origin, claims, overtaken, raced, faults>>

\* Mutants of this section's definitions, for the mutation checks only.
ClaimUnguarded(p) ==
  /\ pc[p] = "read" /\ snap[p].status = "awaiting_validation"
  /\ Update(p, "issuing")
  /\ snap' = [snap EXCEPT ![p].status = "issuing"]
  /\ Goto(p, "claimed")
  /\ CountClaim(p)
  /\ UNCHANGED <<storeVars, target, serial, ledger, signed, origin, overtaken, raced, faults>>
RefusalNotRecorded(p) ==
  /\ pc[p] = "claimed"
  /\ Return(p)
  /\ UNCHANGED <<storeVars, order, ledger, signed, origin, claims, overtaken, raced, faults>>
StoreNewForRenewal(p, c) ==
  /\ pc[p] = "signed"
  /\ FinalizeNewCertificate(c, serial[p], "active")
  /\ snap' = [snap EXCEPT ![p].cert = c]
  /\ Goto(p, "stored")
  /\ UNCHANGED <<order, target, serial, ledger, signed, origin, claims, overtaken, raced, faults>>
StoreNewRetried(p, c) ==
  /\ pc[p] = "signed"
  /\ snap[p].cert = NoCert
  /\ FinalizeNewCertificate(c, serial[p], "active")
  /\ UNCHANGED <<orderVars>>
StoreFailureIgnored(p) ==
  /\ pc[p] = "signed"
  /\ Goto(p, "stored")
  /\ UNCHANGED <<storeVars, order, target, snap, serial, ledger, signed, origin, claims, overtaken, raced, faults>>

Checking(p) == pc[p] = "read" /\ snap[p].status = "awaiting_validation"

\* CheckChallenge failed, or some challenge is not verified yet: the copy is written back.
NotYet(p) ==
  /\ Checking(p)
  /\ Update(p, "awaiting_validation")
  /\ NoteOvertaken(p)
  /\ Return(p)
  /\ UNCHANGED <<storeVars, ledger, signed, origin, claims, raced, faults>>

\* The provider left the registry, or the CA reported a failed challenge: fail().
Reject(p) ==
  /\ Checking(p)
  /\ Update(p, "failed")
  /\ NoteOvertaken(p)
  /\ Return(p)
  /\ UNCHANGED <<storeVars, ledger, signed, origin, claims, raced, faults>>

\* Every challenge verified; UpdateIfStatus finds the row still awaiting_validation.
Claim(p) ==
  /\ Checking(p)
  /\ order[target[p]].status = "awaiting_validation"
  /\ Update(p, "issuing")
  /\ snap' = [snap EXCEPT ![p].status = "issuing"]
  /\ Goto(p, "claimed")
  /\ CountClaim(p)
  /\ UNCHANGED <<storeVars, target, serial, ledger, signed, origin, overtaken, raced, faults>>

\* UpdateIfStatus changed no row: someone else has claimed the order.
ClaimLost(p) ==
  /\ Checking(p)
  /\ order[target[p]].status # "awaiting_validation"
  /\ Return(p)
  /\ UNCHANGED <<storeVars, order, ledger, signed, origin, claims, overtaken, raced, faults>>

\* Authority.Issue returns the certificate the CA signed for p's order.
Issue(p) ==
  /\ pc[p] = "claimed"
  /\ \E s \in Serials : ledger[s] = target[p] /\ serial' = [serial EXCEPT ![p] = s]
  /\ Goto(p, "signed")
  /\ UNCHANGED <<storeVars, order, target, snap, ledger, signed, origin, claims, overtaken, raced, faults>>

\* The signer cannot be loaded, Issue is refused, or its polls end before the CA's answer
\* is had, whether or not the CA signs: fail().
IssueRefused(p) ==
  /\ pc[p] = "claimed"
  /\ Update(p, "failed")
  /\ Return(p)
  /\ UNCHANGED <<storeVars, ledger, signed, origin, claims, overtaken, raced, faults>>

StoreNew(p, c) ==
  /\ pc[p] = "signed"
  /\ snap[p].cert = NoCert
  /\ FinalizeNewCertificate(c, serial[p], "active")
  /\ snap' = [snap EXCEPT ![p].cert = c]
  /\ Goto(p, "stored")
  /\ UNCHANGED <<order, target, serial, ledger, signed, origin, claims, overtaken, raced, faults>>

StoreRenewed(p) ==
  /\ pc[p] = "signed"
  /\ snap[p].cert # NoCert
  /\ FinalizeRenewal(snap[p].cert, serial[p])
  /\ Goto(p, "stored")
  /\ UNCHANGED <<order, target, snap, serial, ledger, signed, origin, claims, overtaken, raced, faults>>

\* Either transaction is rolled back: fail().
StoreFails(p) ==
  /\ pc[p] = "signed"
  /\ Update(p, "failed")
  /\ Return(p)
  /\ UNCHANGED <<storeVars, ledger, signed, origin, claims, overtaken, raced, faults>>

\* The last Update: issued, with certificate_id.  The onIssued hook that follows only
\* starts the target syncs: it touches no order and no certificate.
Complete(p) ==
  /\ pc[p] = "stored"
  /\ Update(p, "issued")
  /\ Return(p)
  /\ UNCHANGED <<storeVars, ledger, signed, origin, claims, overtaken, raced, faults>>

\* A fault ends the call where it is, with no further write: a failing database access
\* (every one of Validate's error returns, fail()'s included), a request context canceled
\* by the client going away, a crash of the server (all calls abandon).
Abandon(p) ==
  /\ pc[p] # "idle"
  /\ faults < MaxFaults
  /\ faults' = faults + 1
  /\ Return(p)
  /\ UNCHANGED <<storeVars, order, ledger, signed, origin, claims, overtaken, raced>>

-----------------------------------------------------------------------------
(* The CA.                                                                    *)

\* Renewals of c that are signed, not stored yet and not given up.
Outstanding(c) ==
  {s \in Serials \ versions[c] :
     ledger[s] \in Orders /\ origin[ledger[s]] = c /\ order[ledger[s]].status # "failed"}

\* The CA signs an order's CSR, once.  (A certificate signed after its order failed is not
\* told apart from one that never was: nobody asks for it.)
CASigns(o) ==
  /\ order[o].status \in {"awaiting_validation", "issuing"}
  /\ \A s \in Serials : ledger[s] # o
  /\ signed < MaxSerial
  /\ signed' = signed + 1
  /\ ledger' = [ledger EXCEPT ![signed + 1] = o]
  /\ raced' = raced \cup {c \in Certs : origin[o] = c /\ Outstanding(c) # {}}
  /\ UNCHANGED <<storeVars, order, pc, target, snap, serial, origin, claims, overtaken, faults>>

-----------------------------------------------------------------------------
Work(p) ==
  \/ ReturnSettled(p)
  \/ NotYet(p)
  \/ Reject(p)
  \/ Claim(p)
  \/ ClaimLost(p)
  \/ Issue(p)
  \/ IssueRefused(p)
  \/ \E c \in Certs : StoreNew(p, c)
  \/ StoreRenewed(p)
  \/ StoreFails(p)
  \/ Complete(p)

Next ==
  \/ \E o \in Orders : Create(o)
  \/ \E o \in Orders, c \in Certs : CreateRenewal(o, c)
  \/ \E p \in Validators, o \in Orders : Get(p, o)
  \/ \E p \in Validators : Work(p)
  \/ \E o \in Orders : CASigns(o)
  \/ \E p \in Validators : Abandon(p)

Spec == Init /\ [][Next]_vars

\* The order's challenges are found verified, or finally rejected.
Answered(o) == \E p \in Validators : target[p] = o /\ (Claim(p) \/ Reject(p))

\* A goroutine that serves a call is scheduled until the call returns.  Clients ("check now",
\* the engine's retries) keep coming back to every order, and whoever controls the domain
\* publishes the proof, so that a check that is made over and over is answered at last.
\* Nobody has to open an order.
FairSpec ==
  /\ Spec
  /\ \A p \in Validators : WF_vars(Work(p))
  /\ \A o \in Orders : SF_vars(\E p \in Validators : Get(p, o))
  /\ \A o \in Orders : SF_vars(Answered(o))

-----------------------------------------------------------------------------
(* Properties.                                                                *)

Issuing(p) == pc[p] \in {"claimed", "signed", "stored"}

\* One order, one submission: however Validate calls interleave and fail, at most one call
\* passes the check and goes on to the CA -- unless the row was overwritten by a call that
\* read it before it was claimed (UpdateIfStatus guards the claim, Update guards nothing).
OneSubmissionUnlessOvertaken == \A o \in Orders \ overtaken : claims[o] <= 1

\* The same without the exception, as the comments on UpdateIfStatus and on the claim have it.
OneSubmissionPerOrder == \A o \in Orders : claims[o] <= 1

\* A signed certificate is filed under one inventory entry -- unless the row of its order was
\* overwritten: then a second call may be handed the same certificate and, its copy of
\* certificate_id being empty, file it as a new entry again.
FiledOnceUnlessOvertaken ==
  \A c, d \in Certs : c # d => \A s \in versions[c] \cap versions[d] : ledger[s] \in overtaken

\* An order that says issued points at an inventory entry holding a certificate that was
\* signed for this very order, even when calls overwrite each other's rows.
IssuedMeansStored ==
  \A o \in Orders :
    order[o].status = "issued" =>
      /\ order[o].cert \in Certs
      /\ \E s \in versions[order[o].cert] : ledger[s] = o

\* A renewal lands in the certificate it was opened for and nowhere else, and a new
\* certificate's entry is only ever extended by renewals of it (isRenewal is decided from a
\* snapshot of certificate_id, which stale writes clear and set).
RenewalsStayInPlace ==
  \A c \in Certs : \A s \in versions[c] :
    LET o == ledger[s] IN
      /\ o \in Orders
      /\ origin[o] # NoCert => origin[o] = c
      /\ origin[o] = NoCert => \A t \in versions[c] : s <= t

\* Where a certificate is filed: under one entry, and a renewal's under the entry it renews.
FiledInPlace == FiledOnceUnlessOvertaken /\ RenewalsStayInPlace

\* The validity window and CA reference an entry shows are those of its latest version
\* (what is downloaded, synced and revoked), unless two renewals of it overlapped or one of
\* them had its row overwritten.
RowShowsLatestUnlessRaced ==
  \A c \in Certs \ raced :
    Exists(c) /\ (\A o \in overtaken : origin[o] # c) => certificate[c].serial = LatestVersion(c)

\* What the inventory shows of a certificate is backed by stored material, and by the latest
\* there is unless renewals raced.
InventoryHolds == RowBackedByVersion /\ RowShowsLatestUnlessRaced

\* Orders that are issuing with no call at work on them.  Nothing takes them up again.
Stranded ==
  {o \in Orders : /\ order[o].status = "issuing"
                  /\ \A p \in Validators : target[p] = o => ~ Issuing(p)}

\* Only a fault strands an order, and each strands at most one: whatever calls overwrite each
\* other's rows, a row never says issuing without the call that will close it.
StrandedOnlyByFaults == Cardinality(Stranded) <= faults

\* The promise of OrderContract, read off the rows and the CA's ledger.
StatusView == [o \in Orders |-> order[o].status]
SignedFor  == {o \in Orders : \E s \in Serials : ledger[s] = o}
Contract   == INSTANCE OrderContract WITH state <- StatusView, signed <- SignedFor, overtaken <- overtaken

\* An order is opened, taken up and signed for once, and never moves back, however calls
\* interleave and wherever they are cut short -- unless a call that read it before it was
\* taken up writes it afterwards, which takes two calls at a time.
KeepsContract == Contract!ContractSpec

\* Without faults, an order whose challenges get answered reaches issued or failed, even
\* though other calls may put it back to awaiting_validation in the meantime.  (After a fault
\* it may stay issuing for good: nothing takes it up again.)
OrdersSettle ==
  \A o \in Orders :
    order[o].status \in {"awaiting_validation", "issuing"}
      ~> order[o].status \in {"issued", "failed"} \/ faults > 0

=============================================================================
