------------------------------- MODULE Targets -------------------------------
(***************************************************************************)
(* internal/k8s and internal/winrm: the places one certificate is pushed   *)
(* to, after each issuance or renewal (SyncCertificate, a goroutine) and   *)
(* when an admin adds a target or asks for it (CreateTarget, SyncTarget).  *)
(*                                                                         *)
(* The two services have the same shape and differ in the push: a          *)
(* Kubernetes Secret is read and then replaced only if nobody replaced it  *)
(* meanwhile, a Windows host runs one script.  A call works on copies of   *)
(* the targets' rows, and both an edit and the result of a push are        *)
(* written as whole rows.                                                  *)
(*                                                                         *)
(* Abstracted: everything of a row but the place it names, whether it is   *)
(* enabled and the last result; what a credential is; certificates whose   *)
(* key is not exportable (they have no targets); the order in which        *)
(* SyncCertificate goes through the targets.                               *)
(***************************************************************************)
EXTENDS Integers, FiniteSets

CONSTANTS
  Targets,     \* ids of target rows of one certificate
  Places,      \* cluster, namespace and secret name; or host and service
  Calls,       \* goroutines and requests under way at a time
  NoTarget,
  MaxVersion,  \* bound: versions of the certificate
  MaxEdits, MaxFaults  \* bounds: edits and pushes asked for by admins, faults

ASSUME TargetsAssumption ==
  /\ NoTarget \notin Targets
  /\ Places # {}
  /\ MaxVersion \in Nat \ {0} /\ MaxEdits \in Nat /\ MaxFaults \in Nat

VARIABLES
  service,  \* "k8s" or "winrm"
  row,      \* row[t]: the table certificate_k8s_target, or certificate_winrm_target
  secret,   \* targets with a credential in Vault
  latest,   \* the certificate's latest version
  remote,   \* remote[p]: the version place p holds, 0 if none
  call,     \* call[k]: what call k is at
  edits, faults,
  \* history, read by no action
  dirty,    \* targets whose last push was disturbed, or that were edited since
  wanted,   \* wanted[t]: place and whether enabled, as t was last created or edited
  crossed   \* targets whose last edit overlapped another call

history == <<dirty, wanted, crossed>>
world == <<service, row, secret, latest, remote, edits, faults, history>>
targetVars == <<world, call>>

Versions == 0 .. MaxVersion
Row == [state: {"new", "kept", "deleted"}, place: Places, enabled: BOOLEAN, synced: BOOLEAN, error: BOOLEAN]

\* todo: the rows SyncCertificate has yet to go through.  target, mine: the target at hand and
\* the copy of its row.  version: what is pushed.  seen: what the Secret held.  alone: history,
\* whether no other call has been under way.
Ops == {"none", "sync certificate", "sync target", "create", "update"}
Stages == {"none", "list", "save", "put", "load", "next", "open", "push", "record", "answer"}

SomePlace == CHOOSE p \in Places : TRUE
NewRow == [state |-> "new", place |-> SomePlace, enabled |-> FALSE, synced |-> FALSE, error |-> FALSE]
NoCall == [op |-> "none", at |-> "none", todo |-> {}, target |-> NoTarget, mine |-> NewRow,
           version |-> 0, seen |-> 0, failed |-> FALSE, token |-> FALSE, alone |-> TRUE]

Wish(r) == <<r.place, r.enabled>>

TargetsTypeOK ==
  /\ service \in {"k8s", "winrm"}
  /\ row \in [Targets -> Row]
  /\ secret \in SUBSET Targets
  /\ latest \in Versions
  /\ remote \in [Places -> 0 .. latest]
  /\ \A k \in Calls :
       /\ DOMAIN call[k] = DOMAIN NoCall
       /\ call[k].op \in Ops /\ call[k].at \in Stages
       /\ call[k].todo \subseteq Targets \X Row
       /\ call[k].target \in Targets \cup {NoTarget} /\ call[k].mine \in Row
       /\ {call[k].version, call[k].seen} \subseteq 0 .. latest
       /\ {call[k].failed, call[k].token, call[k].alone} \subseteq BOOLEAN
       /\ call[k].op = "none" <=> call[k].at = "none"
       /\ call[k].at \in {"save", "put", "open", "push", "record", "answer"} => call[k].target \in Targets
  /\ edits \in 0 .. MaxEdits
  /\ faults \in 0 .. MaxFaults
  /\ dirty \in SUBSET Targets
  /\ wanted \in [Targets -> Places \X BOOLEAN]
  /\ crossed \in SUBSET Targets

\* The certificate is issued and has no targets yet.
TargetsInit ==
  /\ service \in {"k8s", "winrm"}
  /\ row = [t \in Targets |-> NewRow]
  /\ secret = {}
  /\ latest = 1
  /\ remote = [p \in Places |-> 0]
  /\ call = [k \in Calls |-> NoCall]
  /\ edits = 0
  /\ faults = 0
  /\ dirty = {}
  /\ wanted = [t \in Targets |-> Wish(NewRow)]
  /\ crossed = {}

-----------------------------------------------------------------------------
Kept(t) == row[t].state = "kept"
Active == {k \in Calls : call[k].op # "none"}
At(k, stage) == call[k].at = stage
Step(k, c) == call' = [call EXCEPT ![k] = c]
GoTo(k, stage) == Step(k, [call[k] EXCEPT !.at = stage])
End(k) == Step(k, NoCall)
Fault == faults < MaxFaults /\ faults' = faults + 1

\* A call comes in; the others are not alone any more.
Begin(k, c) ==
  /\ call[k].op = "none"
  /\ call' = [j \in Calls |-> IF j = k THEN [c EXCEPT !.alone = Active = {}]
                              ELSE IF j \in Active THEN [call[j] EXCEPT !.alone = FALSE] ELSE call[j]]
\* A request for a target that is there.
Admin == edits < MaxEdits /\ edits' = edits + 1

\* An order is filed: onIssued starts SyncCertificate.
Renew(k) ==
  /\ latest < MaxVersion
  /\ latest' = latest + 1
  /\ Begin(k, [NoCall EXCEPT !.op = "sync certificate", !.at = "list"])
  /\ UNCHANGED <<service, row, secret, remote, edits, faults, history>>

CreateTarget(k, t, place) ==
  /\ row[t].state = "new"
  /\ row' = [row EXCEPT ![t] = [NewRow EXCEPT !.state = "kept", !.place = place, !.enabled = TRUE]]
  /\ Begin(k, [NoCall EXCEPT !.op = "create", !.at = "put", !.target = t, !.mine = row'[t], !.token = TRUE])
  /\ dirty' = dirty \cup {t}
  /\ wanted' = [wanted EXCEPT ![t] = <<place, TRUE>>]
  /\ UNCHANGED <<service, secret, latest, remote, edits, faults, crossed>>

\* UpdateTarget reads the row, and changes its copy.
UpdateTarget(k, t, place, enabled, token) ==
  /\ Admin
  /\ Kept(t)
  /\ Begin(k, [NoCall EXCEPT !.op = "update", !.at = "save", !.target = t, !.token = token,
                             !.mine = [row[t] EXCEPT !.place = place, !.enabled = enabled]])
  /\ UNCHANGED <<service, row, secret, latest, remote, faults, history>>

\* The credential stays in Vault.
DeleteTarget(t) ==
  /\ Kept(t)
  /\ row' = [row EXCEPT ![t].state = "deleted"]
  /\ UNCHANGED <<service, secret, latest, remote, call, edits, faults, history>>

SyncTarget(k, t) ==
  /\ Admin
  /\ Kept(t)
  /\ Begin(k, [NoCall EXCEPT !.op = "sync target", !.at = "load", !.target = t, !.mine = row[t]])
  /\ UNCHANGED <<service, row, secret, latest, remote, faults, history>>

-----------------------------------------------------------------------------
\* store.Update: UPDATE ... WHERE id, the whole row.
WriteRow(t, r) == row' = IF Kept(t) THEN [row EXCEPT ![t] = r] ELSE row

Save(k) ==
  /\ At(k, "save")
  /\ WriteRow(call[k].target, call[k].mine)
  /\ dirty' = dirty \cup {call[k].target}
  /\ IF call[k].token THEN GoTo(k, "put") ELSE End(k)
  /\ wanted' = [wanted EXCEPT ![call[k].target] = Wish(call[k].mine)]
  /\ crossed' = IF call[k].alone THEN crossed \ {call[k].target} ELSE crossed \cup {call[k].target}
  /\ UNCHANGED <<service, secret, latest, remote, edits, faults>>

PutToken(k) ==
  /\ At(k, "put")
  /\ secret' = secret \cup {call[k].target}
  /\ IF call[k].op = "create" THEN Step(k, [call[k] EXCEPT !.at = "load", !.token = FALSE]) ELSE End(k)
  /\ UNCHANGED <<service, row, latest, remote, edits, faults, history>>

\* ListByCertificate.
List(k) ==
  /\ At(k, "list")
  /\ LET rows == {<<t, row[t]>> : t \in {x \in Targets : Kept(x)}} IN
       IF rows = {} THEN End(k) ELSE Step(k, [call[k] EXCEPT !.at = "load", !.todo = rows])
  /\ UNCHANGED world

\* Mutant: versions come oldest first.
LoadOldest(k) ==
  /\ At(k, "load")
  /\ Step(k, [call[k] EXCEPT !.version = 1,
                             !.at = IF call[k].op = "sync certificate" THEN "next" ELSE "open"])
  /\ UNCHANGED world

\* loadSyncMaterial.
Load(k) ==
  /\ At(k, "load")
  /\ Step(k, [call[k] EXCEPT !.version = latest,
                             !.at = IF call[k].op = "sync certificate" THEN "next" ELSE "open"])
  /\ UNCHANGED world

\* A row that says disabled is passed over.
TakeNext(k, entry) ==
  /\ At(k, "next")
  /\ entry \in call[k].todo
  /\ Step(k, IF entry[2].enabled
             THEN [call[k] EXCEPT !.todo = @ \ {entry}, !.target = entry[1], !.mine = entry[2], !.at = "open"]
             ELSE [call[k] EXCEPT !.todo = @ \ {entry}])
  /\ UNCHANGED world

\* Mutant: the last target's result is recorded after the loop.
NoneLeftRecorded(k) ==
  /\ At(k, "next")
  /\ call[k].todo = {}
  /\ GoTo(k, "record")
  /\ UNCHANGED world

NoneLeft(k) ==
  /\ At(k, "next")
  /\ call[k].todo = {}
  /\ End(k)
  /\ UNCHANGED world

Failed(k) == Step(k, [call[k] EXCEPT !.failed = TRUE, !.at = "record"])

\* The credential is read; Kubernetes tells which Secret is there.
Open(k) ==
  /\ At(k, "open")
  /\ IF call[k].target \in secret
     THEN Step(k, [call[k] EXCEPT !.at = "push",
                                  !.seen = IF service = "k8s" THEN remote[call[k].mine.place] ELSE 0])
     ELSE Failed(k)
  /\ UNCHANGED world

\* A Secret that was replaced meanwhile is a conflict.  (Replacing it by itself changes nothing.)
Push(k) ==
  /\ At(k, "push")
  /\ LET place == call[k].mine.place IN
       IF service = "k8s" /\ remote[place] # call[k].seen
       THEN Failed(k) /\ UNCHANGED remote
       ELSE GoTo(k, "record") /\ remote' = [remote EXCEPT ![place] = call[k].version]
  /\ UNCHANGED <<service, row, secret, latest, edits, faults, history>>

\* The place cannot be reached or refuses, or did as it was told and the answer is lost.
PushFails(k) ==
  /\ At(k, "open") \/ At(k, "push")
  /\ Failed(k)
  /\ \/ UNCHANGED remote
     \/ At(k, "push") /\ remote' = [remote EXCEPT ![call[k].mine.place] = call[k].version]
  /\ UNCHANGED <<service, row, secret, latest, edits, faults, history>>

\* What a call goes on to after a target: the next one, or the answer.
Onward(k, alone) ==
  Step(k, IF call[k].op = "sync certificate"
          THEN [NoCall EXCEPT !.op = "sync certificate", !.at = "next", !.todo = call[k].todo,
                              !.version = call[k].version, !.alone = alone]
          ELSE [NoCall EXCEPT !.op = call[k].op, !.at = "answer", !.target = call[k].target,
                              !.failed = call[k].failed, !.alone = alone])

\* Mutant: last_sync_error is not written.
RecordNoError(k) ==
  /\ At(k, "record")
  /\ WriteRow(call[k].target, [call[k].mine EXCEPT !.synced = TRUE, !.error = FALSE])
  /\ dirty' = IF call[k].alone THEN dirty \ {call[k].target} ELSE dirty \cup {call[k].target}
  /\ Onward(k, call[k].alone)
  /\ UNCHANGED <<service, secret, latest, remote, edits, faults, wanted, crossed>>

\* Mutant: a push enables its target.
RecordEnabled(k) ==
  /\ At(k, "record")
  /\ WriteRow(call[k].target, [call[k].mine EXCEPT !.synced = TRUE, !.error = call[k].failed, !.enabled = TRUE])
  /\ dirty' = IF call[k].alone THEN dirty \ {call[k].target} ELSE dirty \cup {call[k].target}
  /\ Onward(k, call[k].alone)
  /\ UNCHANGED <<service, secret, latest, remote, edits, faults, wanted, crossed>>

\* The copy of the row, with the result, is written back.
Record(k) ==
  /\ At(k, "record")
  /\ WriteRow(call[k].target, [call[k].mine EXCEPT !.synced = TRUE, !.error = call[k].failed])
  /\ dirty' = IF call[k].alone THEN dirty \ {call[k].target} ELSE dirty \cup {call[k].target}
  /\ Onward(k, call[k].alone)
  /\ UNCHANGED <<service, secret, latest, remote, edits, faults, wanted, crossed>>

\* The admin is told what the row says.
Answer(k) ==
  /\ At(k, "answer")
  /\ End(k)
  /\ UNCHANGED world

\* An access to the database or to Vault fails.  SyncCertificate gives up when it cannot list
\* or load, and goes on when it cannot record; a request ends.
AccessFails(k) ==
  /\ Fault
  /\ \/ At(k, "save") \/ At(k, "put")
     \/ At(k, "list") \/ At(k, "load")
     \/ At(k, "answer")
  /\ End(k)
  /\ dirty' = IF call[k].op = "sync certificate" THEN Targets ELSE dirty
  /\ UNCHANGED <<service, row, secret, latest, remote, edits, wanted, crossed>>

RecordFails(k) ==
  /\ At(k, "record")
  /\ Fault
  /\ Onward(k, FALSE)
  /\ dirty' = dirty \cup {call[k].target}
  /\ UNCHANGED <<service, row, secret, latest, remote, edits, wanted, crossed>>

\* The server stops; what was to be pushed is forgotten.
Crash ==
  /\ Active # {}
  /\ Fault
  /\ call' = [k \in Calls |-> NoCall]
  /\ dirty' = Targets
  /\ UNCHANGED <<service, row, secret, latest, remote, edits, wanted, crossed>>

-----------------------------------------------------------------------------
Work(k) ==
  \/ Save(k)
  \/ PutToken(k)
  \/ List(k)
  \/ Load(k)
  \/ \E entry \in call[k].todo : TakeNext(k, entry)
  \/ NoneLeft(k)
  \/ Open(k)
  \/ Push(k)
  \/ PushFails(k)
  \/ Record(k)
  \/ Answer(k)
  \/ AccessFails(k)
  \/ RecordFails(k)

TargetsNext ==
  \/ \E k \in Calls :
       \/ Renew(k)
       \/ \E t \in Targets, p \in Places : CreateTarget(k, t, p)
       \/ \E t \in Targets, p \in Places, b, token \in BOOLEAN : UpdateTarget(k, t, p, b, token)
       \/ \E t \in Targets : SyncTarget(k, t)
       \/ Work(k)
  \/ \E t \in Targets : DeleteTarget(t)
  \/ Crash

TargetsSpec == TargetsInit /\ [][TargetsNext]_targetVars

-----------------------------------------------------------------------------
(* Properties.                                                                *)

\* Once nothing is under way every enabled target holds the latest version, or says that its
\* push failed -- unless it was edited since its last undisturbed push (an edit keeps the old
\* result), calls overlapped at the last one, or an access failed.
DeliveredOrTold ==
  Active = {} =>
    \A t \in Targets \ dirty :
      Kept(t) /\ row[t].enabled /\ ~ row[t].error => row[t].synced /\ remote[row[t].place] = latest

\* "Sync now" answers what its own push came to (it is read back from the row), unless
\* another call ran meanwhile or the result was not recorded.
AnswerIsOwn ==
  \A k \in Calls : At(k, "answer") /\ call[k].alone /\ Kept(call[k].target)
                     => row[call[k].target].error = call[k].failed

\* What an admin saved stays until the next edit, whatever is pushed meanwhile and whatever
\* fails -- unless another call ran while it was saved: then the result of a push may put the
\* old row back.
EditsHold == \A t \in Targets \ crossed : Kept(t) => Wish(row[t]) = wanted[t]

\* A target deleted while calls hold copies of its row does not come back.
DeletedStaysDeleted ==
  [][\A t \in Targets : row[t].state = "deleted" => row'[t].state = "deleted"]_targetVars

=============================================================================
