# A verification development of ssl-manager

ssl-manager keeps TLS certificates for a set of teams: it orders them from four kinds of
authority, stores every version, renews and revokes them, pushes them to Kubernetes Secrets
and Windows hosts, reminds people before they expire, and scans networks for certificates it
does not know. The server is a Go program (`src/backend`) over PostgreSQL and Vault, with a
web frontend that keeps no state the server relies on.

This directory holds TLA+ specifications of the parts of that program whose correctness
depends on *order*: who wrote a row last, what was read before it, what is left behind when a
call ends half way. TLC checks them on small instances; TLAPS proves theorems about most of
them for all instances. `PROJECT.json` names, for each definition, the source lines it
translates; for each property, a mutation of the code that breaks it.

Run things from this directory:

    tlc -workers 2 -config Orders_concurrent.cfg MCOrders.tla     # any row of the table of runs
    tlapm OrdersProofs.tla                                        # any *Proofs.tla

## Inventory

| Component (code) | State it keeps | Operations | Talks to | What is hard about it |
| --- | --- | --- | --- | --- |
| Orders (`internal/order`) | `certificate_order` rows: status, certificate_id, challenges; a Vault key per order | Create, CreateRenewal, Validate | authorities, inventory, Vault, the onIssued hook | any number of Validate calls (clicks, the engine) on one row; every write but the claim is unconditional; a call may end anywhere |
| Inventory (`internal/certificate`) | `certificate`, `certificate_version` | FinalizeNewCertificate, FinalizeRenewal, Revoke, lists, stats | written by orders, handlers | two tables that must agree |
| Revocation, import (`internal/api/handlers.go`, `posture.go`) | none of its own | revokeCertificate, bulkRevoke, bulkImport | authorities, inventory | the CA and the row change in two steps; renewals run meanwhile |
| Renewal engine (`internal/renewal`) | settings, `notification_log`; the ticker | Run, Tick, reminders, renewal sweep | inventory, orders, notifications | time, restarts, several replicas, log-after-send |
| Discovery scans (`internal/discovery`) | scan and result rows; a goroutine pool per scan | CreateScan, CancelScan, run, RecoverInterruptedScans | network, inventory | a pool with a channel, a mutex, a context; panics; the server ends |
| Discovery schedules (same) | `discovery_schedule` | create, update, delete, runDueSchedules | scans | a ticker that reads and writes back rows admins edit |
| Target sync (`internal/k8s`, `internal/winrm`) | target rows with the last result; credentials in Vault | create, update, delete, SyncTarget, SyncCertificate | orders (hook), clusters, hosts | goroutines write back whole rows they read before a slow push |
| Integrations (`internal/api/integrations.go`, `cmd/api/main.go`) | settings in the database, credentials in Vault, authorities in the registry | an edit per provider; the start of the server | authorities, DNS automation | three copies of one truth, changed one after the other |
| Authorities (`internal/ca`) | ACME accounts; orders at the CA; each order's challenges and provider state, kept in its row | RequestValidation, CheckChallenge, Issue, Revoke | CAs, DNS | long exchanges, each step of which can fail; concurrent checks of one order, each on its own copy; TXT records that one of them must remove |
| CA accounts (`internal/caaccount`, `NewLetsEncrypt`) | the account key in Vault, `ca_account`, the account at the CA, the live authority | an edit, a rebuild, a start | integrations, Let's Encrypt | four places, no transaction; the first key of an environment is generated once or twice |
| Login and sessions (`internal/auth`, `internal/user`) | `app_user`: hash, must-change, attempts, lock; signed session claims | local login, password change, OIDC callback | | read-modify-write of the counter around a slow hash; writes that are best effort |
| Roles, teams (`internal/auth`, `internal/user`) | role and team in `app_user` | admission, CanAccessTeam, setUserRole | every handler | roles change between a request's admission and its effects |
| API keys, download tokens (`internal/apikey`, `internal/downloadtoken`) | `api_key`, `download_token` | create, look up; issue, redeem | roles, inventory | keys outlive the role they were minted on; a token is to be used once, by requests that race |
| HTTP API (`internal/api`) | none | decoding, dispatch | everything | |
| Audit, notifications, secrets, config, database | append-only or external | | | |
| Frontend (`src/frontend`) | none the server relies on | | HTTP API | |

How they interact: an HTTP request or the engine calls `order.Service`; `Validate` calls the
authority and the inventory, and starts the target syncs through the hook `onIssued`
(`cmd/api/main.go`). The engine calls `CreateRenewal` and `Validate`. Handlers revoke through
the registry of authorities, which integration edits replace while requests run. Everything
else meets only in the database. There are no transactions across components and, but for one
conditional UPDATE (`UpdateIfStatus`), no optimistic locking.

What makes each component correct is stated as the properties in the table of runs; the
hazards they are aimed at are listed, each at its line, in `PROJECT.json`.

## Modules

    CertStore      <- Orders <- Lifecycle          OrderContract  (abstract: the states of an order)
        ^               ^                                ^
        |               +--- implements -----------------+
        +--- implements: StoreSpec (abstract: the inventory changes only by its transactions)

    Exchange -- implements --> OrderContract       RenewalEngine     Targets

    Discovery, Schedules                           <- MCDiscovery
    Integrations, Accounts, SignIn, Grants         <- MCAdministration

`<-` is EXTENDS. `MC*` modules add the symmetry set or a constant; `*Proofs` modules hold theorems.
`MCDiscovery` and `MCAdministration` put components side by side that have no variable in common
in the code either: a variable `part` says which of them a behaviour is about, the others stand
still. So one run explores each of them completely, and the states are added instead of
multiplied; `HalvesStandAlone` and `PartsStandAlone` prove that each component's specification
is implied.

### CertStore, OrderContract, Orders

`CertStore` is the inventory as its callers see it: one action per transaction of
`certificate/store.go`. A signed certificate (serial, PEM, validity, CA reference) is one
number; numbers grow with NotBefore, so the latest version is the largest. Reads that touch no
other state (filtered lists, statistics) are left out.

In `Orders` one call of `Service.Validate` is a process. It reads the row once (`Get`), keeps a
copy (`snap`), and each later access to the database or the CA is a step of its own, so calls
interleave wherever the program lets them. `Update` overwrites status and certificate_id
whatever the row says; only `Claim` (UpdateIfStatus) looks. Every early return of Validate is
an action: `ReturnSettled`, `NotYet`, `Reject`, `ClaimLost`, `IssueRefused`, `StoreFails`.
`Abandon` ends a call with no further write: a failed database write (also inside `fail()`), a
canceled request context, a crash. A commit whose acknowledgement is lost is not modelled here. When
the CA signs depends on the authority, so signing (`CASigns`) is an action of the CA, possible
at any time after the order is opened and once per order; this admits more behaviours than
each single authority has.

`OrderContract` is what a client may rely on: none -> awaiting_validation -> issuing ->
issued | failed, one signature per order, no way back; except for an order *overtaken*, that
is, written by a call that read it before it was taken up. `KeepsContract` says Orders
implements it, alone and inside Lifecycle, and `FollowsStateTable` that Exchange does. (Sign asks for
no opened order: an AD CS authority may decide before the row is inserted.)

`StrandedOnlyByFaults` counts the orders left in issuing with no call at work on them: never more
than calls were cut short, whoever overwrites whose row.

### Lifecycle

Extends Orders with revocations and imports. A revocation loads the row, reads the latest
version, asks the authority, and marks the row, each a step. `revokeCertificate` asks the
authority and then calls `revokeOne`, which asks again (`Past` is the order of the stages). What
the four authorities and the unregistered "manual" do with a request is in `CARevokes`,
`CARefuses`, `Bypass`. Of these, that Let's Encrypt refuses a certificate it has revoked is on record
(`README.md:67-69`); that ZeroSSL may or may not take a second request is an assumption, for
`zerossl.go` forwards whatever the answer is. `InUse` says which providers certificates have:
all five in the run of the properties and any set of them in the proofs, Let's Encrypt alone in
`Lifecycle_revoke`, so that what that run shows does not rest on the assumption.

### Exchange

One order and its authority, inside `RequestValidation`, `CheckChallenge` and `Issue`, where
module Orders only sees an answer. At Let's Encrypt the order has a part per domain
(authorization), at ZeroSSL and AD CS one. A call of Validate works through the parts on its own
copy of the row: `Onward` finds the next one, `Trigger` asks the CA, `Poll` reads the answer,
`CleanUp` removes the TXT record; then `Reject`, `NotYet` or `Claim` and `Submit`. When CheckChallenge
returns an error, `WriteBack` stores the challenges with what was changed in them (the slice
is shared) but the provider's state as it was read (it is only marshalled at the end): the row
then shows a part verified, or forgets that one was triggered. The CA and whoever publishes
records by hand are actions of the world. That Let's Encrypt turns down no challenge whose record
it can see (`CARejects`) is an assumption about it, on which the first half of `RecordsServe` rests. An admin may turn the DNS automation off, which replaces
the authority and leaves calls under way with the old one. `Write` is how a call ends that stores the
row; it marks the order `overtaken` when the row has meanwhile left the status the call knew. `ChecksAdvance`
bounds a call: what it waits for can come (`CanGoOn`), and `StepsLeft` falls with each of its steps. What the model makes visible beyond
its properties: a check made before the proof is published makes Let's Encrypt turn the
authorization down, and the order fails for good, although `Validate`'s comment
(`order/service.go:206-208`) invites checking again; and an order whose trigger was forgotten, or whose
authorization expired, stays awaiting for ever (`Stuck`).

### RenewalEngine

One loop per replica: Tick is a sequence of steps per row (load, choose thresholds, send,
record; then load what is due, renew). Revocations and imports are not in this module, so every
row is active and the status filter of `DueForRenewal` has nothing to leave out. Time is counted in parts of a day (`Day`), a tick
lasts no time, and a crash stops the engine until it restarts. Ghosts record which reminders
were sent, which entries of the log were lost, and whether ticks were late. What happens to an
order inside a renewal is module Orders.

### Discovery

One scan: the run goroutine (`main`), the feeding goroutine and channel (`feed`, `closed`), the
workers and the mutex, with `sc.ScannedCount++` in two steps. Each database write can fail, a
probe or the result callback can panic (recovered around the callback, where the mutex stays
locked), the server can crash, and the next start recovers or fails to.

### Schedules

The rows of `discovery_schedule`, the sweep of `Run` (once at the start, then at each tick of a
ticker that holds one tick at most) and the requests of admins. A sweep lists the rows that are
due and works from that list: `FireSchedule` starts a scan, `RecordScheduleRun` writes when it
ran and when it runs next, from the interval it listed. An edit reads the row, and writes all of
it back, last_run_at included. Database calls fail, a firing panics (and is recovered), the
server stops, each leaving what the code leaves. Time is counted in minutes. `disturbed` marks
a firing that was crossed by an edit or not recorded, `overwritten` a last run that an edit put
back. What a request asks to be scanned, and the scan once created, are not in this module.

### Targets

One certificate, its targets and the places they name. Calls are SyncCertificate goroutines
and admin requests, each working on copies of rows. `service`, chosen at the start, is "k8s"
(the Secret is replaced only if nobody did meanwhile) or "winrm" (no such check); the two
packages have the same shape otherwise.

### Integrations

An edit writes the settings, then the credential, then the live authority; editing the DNS-01
automation also rebuilds Let's Encrypt. ZeroSSL, AD CS and DNS-01 are the elements of `Keyed`.
The server stops and starts at any point; a start builds everything from the database and
Vault, and refuses when a DNS-01 provider is on file without a token. The initial states are
all settings and credentials a start accepts. A write to either store can fail before or after it
took effect, and a start can miss any of the credentials.

### Accounts

`NewLetsEncrypt`, access by access, for an edit of the settings, for a rebuild after an edit of
the DNS automation, and for a start before the server listens: load the key of the environment
or generate and store one, load the account or register one and save it, build the authority.
Each access can fail or lose its answer (done, and reported as an error), and the server can
stop. The CA knows an account by its key: registering again finds the account. `overlapped`
marks an environment for which two calls generated a key at once, `moved` one whose account was
found under another directory than asked for; the code handles neither.

### SignIn

One request reads the row, compares hashes, and writes what follows from the row it read:
`RecordFailedLogin` (count, and lock at the maximum), `Admit` (reset), `SetPassword`. Any of
the writes can be lost, for the code ignores their errors in a sign-in. `streak` counts wrong
passwords in a row as an observer would; `mixed` marks that, since the last reset nothing disturbed,
two requests met or a write was lost: then the count on file may be too low, and so may
guessing in parallel count as one failure (`auth/password.go:97`).

### Grants

Every request is let in by the middleware with the role and team of that moment and then acts
step by step: minting a key checks the target user's role and inserts the key afterwards;
exporting redeems the token by one conditional UPDATE and hands the version out afterwards; roles
and teams change in between. `earned` and `reached` remember what a user's roles and teams have
allowed so far. Nothing in the code takes a key back, and Redeem does not look at the role again.

## Runs

| Run | Shows |
| --- | --- |
| `Orders_concurrent` | Two calls interleaving over three orders, two of which may renew the same certificate: submissions, filing, the place of renewals, and the row against its versions. |
| `Orders_contract` | Refinement (`KeepsContract`) with one call cut short, orders stranded only by what was cut short, and liveness (`OrdersSettle`). |
| `Orders_double` | *Violation.* A stale write-back reopens a claimed order, and it is submitted twice. |
| `Lifecycle` | Two revocations cut short anywhere next to orders and renewals: marked means dead at the CA, active means alive, and only a renewal revives. |
| `Lifecycle_revoke` | *Violation.* In an installation of Let's Encrypt alone, with nothing failing, revoking a certificate leaves its row active: the second request is refused as already revoked. |
| `Exchange` | Two checks of one order, at each authority, one fault: nothing unproven is submitted, automated records outlive their check and are gone when the order is issued, the order follows its state table, calls come to an end, and the order is decided. |
| `RenewalEngine` | One engine over three lives of a certificate: no reminder repeated or skipped, no lapse. |
| `RenewalEngine_threshold` | *Violation.* The largest threshold is never reminded of. |
| `Discovery` | Three workers on three targets, two faults, cancellation, restarts: the summary counts what is stored, no target is lost, unfinished rows are explained, every step leaves less to do, the scan ends. And two schedules with edits, failures and restarts: rows say what was saved last, nothing fires twice within its interval, sweeps end, what is due is fired. |
| `Discovery_cancel` | *Violation.* A scan canceled at its start stays pending. |
| `Targets` | Creation, edits, deletion, pushes and renewals: delivered or told, a manual sync answers its own result, edits hold. |
| `Integrations` | Two admins, one fault, restarts: what runs is what the next start builds. Besides: key, account and authority of Let's Encrypt agree; the failed-login count and the lock are right; keys and exports are earned, and a token exports once. |

The violations are in `PROJECT.json` under "findings", each with the sentence of the
repository it contradicts. The properties of the passing runs carry exceptions
(`overtaken`, `raced`, `crossed`, `stranded`, `dirty`, `wedged`, ...): history variables that no
action reads, which mark exactly the situation in which the code gives up the promise. So a
passing run says two things: the promise holds outside the exception, and nothing but the
exception breaks it.

### Bounds

*Orders.* Two calls are what every race on a row takes: a reader that is overtaken and the one
that overtakes it. Three orders let two renewals of one certificate overlap. `InventoryHolds` joins two properties (a row shows a
version that is stored, and the latest one unless renewals raced), as do `FiledInPlace`, `RowIsTrue`,
`RecordsServe` and `LiveIsCurrent` elsewhere; their mutants break one part each. `MaxFaults` is 0
in the safety run, where a call that is never scheduled again covers a fault: it leaves the same
rows behind. The proofs hold for any numbers.
*Exchange.* Two parts are what a check that fails in the middle takes, two calls a stale copy.
*Lifecycle.* One certificate, with an order and two renewals (three serials); revocations touch
no second certificate. *Engine.* A day is two units, certificates last four days and are renewed
one day before the end, the horizon is six days: a certificate is renewed at least once and
comes down to each threshold; two faults allow a crash after a lost entry. Engines beside each other are
left to the proofs, which hold for any number: two do not fit these bounds. *Discovery.* Three workers
with three targets: one may be taking, one holding the mutex, one waiting; two faults allow a
panic whose outcome cannot be written. *Schedules.* Two rows in one list, so that one waits while
the other is fired; intervals of one and two minutes and a clock of two, so that one schedule falls due
again; three requests, of which one may create a row and another edit it during a firing; one
mishap. *Targets.* One target (several, also
several at one place, are covered by the proof), two places, two calls, two admin requests, one renewal. *Integrations.* Two
requests of two edits in all, so that one rival meets another and one edit can follow
both a fault and a restart. *Accounts.* Two environments and two directories; two calls, which can overlap
and of which each can break off once. *Sign-in.* Three failures lock; six requests of two clients reach
the lock, pass its end, and lock again; one write may be lost. *Grants.* Two users, one of them the seeded
admin, two teams; a promotion and a demotion around one key and one token. Identities that nothing orders are symmetric in the runs without liveness.

CHECK_DEADLOCK is off where the system may stop: a scan that has ended, time at the horizon,
edits used up.

### Fairness

*Orders.* `WF(Work(p))`: a goroutine that serves a call runs until it returns. `SF(Get)`:
clients and the engine come back to every open order. `SF(Answered)`: checked over and over,
the proof is found or finally rejected; this is about whoever controls the domain, and is
an assumption on the world. Nothing makes anyone open an order, or a fault happen.
*Exchange.* Weak fairness of each call; `SF(Get)` as above; whoever controls the domain publishes
the proof (`WF(Publish)`), and the CA answers what it was asked (`WF(CAValidates \/ CARejects)`), but
need not answer what it was not.
*Discovery.* Weak fairness of the run goroutine, the feeder and each worker: the Go scheduler.
Cancellation and faults are not fair. *Schedules.* Weak fairness of the steps of a sweep (a
goroutine runs) and of the ticker (`Minute`); requests, restarts and failures are not fair, so
`DueIsFired` is about a server that stays up. The other modules state no liveness: the engine's
"nothing lapses" is a safety property over time (punctual ticks).

## Proofs

Eight modules, all checked to the last leaf. Assumptions are the named ASSUMEs of the modules: finite or
natural bounds and NoX \notin Xs; `EngineProofs` also assumes that there is an engine and, for the
lapses, that the renewal window is shorter than the validity. Every invariant and every action
property of the passing runs is proved.

*CertStoreProofs.* `StoreSafety`: StoreSpec => []RowBackedByVersion, by the inductive invariant
type correctness with the property itself.

*OrdersProofs.* `TypeCorrect`, then an inductive invariant in parts. For a call p that is not
idle, what its copy says of the row is tied to how far p has come and to `overtaken`: an order
that is not overtaken has at most one call past the claim (`OneSubmission`), and that call is the
only one that can file its certificate (`FiledOnce`). Independently of that, the certificates in
`versions` are tied to `ledger` and `origin`, which gives `IssuedIsStored`, `RenewalsInPlace` and
`RowShowsLatest` also for rows that were overwritten. None of these properties is inductive
alone, because a step of p is guarded by its copy and not by the row. `OrdersImplementStore`
(every step is a transaction of the inventory or leaves it alone) carries StoreSafety over as
`OrdersStoreSafety`. `OrdersKeepContract` proves the refinement of OrderContract for any number
of calls, orders and faults; `AloneNeverOvertakes` shows that the exception takes two overlapping
calls. `FiledWhereDue` joins FiledOnce and RenewalsInPlace. `StrandedByFaults` is an argument about
cardinalities: a step strands at most one order (that of the call that ends), and only one
that is a fault does, because a call that ends otherwise has just written the row itself.

The second half of the module is about Lifecycle. Imports file certificates the CA's ledger does
not have, so what is known of the filing is stated for a set of certificates (`FiledInv`,
`NewestInv`) and holds for those that only orders file (`Ours`). `Known` ties a revocation to its
entry: what it loaded and read is the latest version as long as no renewal was filed meanwhile
(`crossed`), and when it comes to the mark that version is revoked at the CA. This is what
`MarkedIsRevoked` needs; `ActiveIsValid` needs that only what orders filed is ever revoked
(`DeadAreFiled`), so that a second entry shows the same certificate only if its order was
overwritten. `OnlyRenewalRevives` follows from the same invariant. `LifecycleImplementsStore`,
`LifecycleKeepsContract` and `OrdersHoldBesideRevocations` carry the refinements and the invariants of
the orders over to the composition: every step of it is one of an order, or leaves rows, calls and
the CAs' ledger alone and takes no version away (`StepBesideOrders`).

*ExchangeProofs.* `ExchangeTypeCorrect`, `OnlyProvenSubmitted` and `RecordsServeTheirTime` (both
halves of it, `RecordsOutliveChecks` and `NoRecordForgotten`) come from one invariant: what a call's copy and the row say is verified or
cleaned up is *done* at the CA, that is, accepted, with its record withdrawn or given up on;
the one exception is the part whose record the call is about to remove. Copies may be stale, but
never wrong, since the CA takes nothing back and an automated record does not return. A part
not accepted yet still has its record, so an automated part cannot be turned down.

A second invariant (`PlacedInv`) says where calls, row and authority stand with each other: a call past
the claim is about an order that is closed or overtaken, one that waits has submitted, one that
stores has a certificate, and an opened order was requested in full. It is kept because
everything in it only moves on (`Onwards`). From it `ExchangeFollowsStateTable` shows the refinement of
OrderContract step by step: opening, the claim and what the authority signs are steps of the
table, a call that writes the row in the status it knew makes the move it means, and one that finds
another status overtakes an order that is closed already (`WriteKeepsTable`). `ChecksEnd` is the safety half of termination: a
poll is only made of a part the authority knows, and each stage leads to one with fewer steps
left (`Advances`, `StepsCount`), since the next part always comes later.

*EngineProofs.* `EngineTypeCorrect`, and `EnginesNotifyOnce`: each of any number of engines, through
any number of restarts and faults, never sends a reminder twice unless its log entry of the first was lost.
The invariant: what an engine notified of is on record, lost, or the very reminder it is about
to record. Nothing orders one engine's sending and another's, so of several each may send once: that
is what the missing leader lock costs, and no more. `LowerThresholdsAreReminded` and `NothingLapsesUnattended` are about time: as long as
ticks are punctual every threshold but the largest is reminded of in its window, and no
certificate runs out before a renewal of it was tried. The invariant (`PunctualInv`) says for each
stage of a tick what that tick still owes: the next tick is at most a day away (`Timed`); at rest,
whatever falls due before it is done (`Rested`); once it has fired, whatever fell due before now
(`Awaiting`); while reminders go out, all but those for the rows in hand (`Reminding`); in the sweep, all
but the renewals in hand (`Renewing`). Neither property is inductive, since nothing in it says
that an engine which has just finished a tick did everything before it.

*DiscoveryProofs.* `SummariesAreTrue`, `EveryTargetProbed` and
`OrphansAreExplained` (`RowsAreTrue` together), from an invariant in parts: whoever handles a result holds the mutex
(`Exclusive`); busy workers have different targets, fed already, and have stored theirs just when
they are about to count it (`Assigned`); what is stored is counted, but for that one result and
for counts lost to a panic (`Counted`); without a cancellation what was fed is stored, dropped or
with a worker, and the feeder stops at the end (`Accounted`); and what the row says goes with how
far run has come (`Progress`). Without `Assigned` the count could not be related to the results,
since two workers might store the same target.

`ScansAdvance` is the safety half of `ScanEnds`: while a scan probes somebody can go on (the mutex is
held by a worker that will release it, unless a panic locked it for good; the feeder waits for a worker
that takes, a worker for a feeder that feeds or has closed), and `Left`, counted over stages, targets
still to be fed and workers still at one, falls with every step.

`SweepsAdvance` says the same of a sweep and of the goroutine that sweeps. `SchedulesAreKept` and `SchedulesWaitTheirInterval`: an entry of the list is due by what was
promised, or `disturbed` (`ListedIsDue`), no id is listed twice (`ListedOnce`), the one being
fired carries what will be recorded (`FiresOne`), and an edit has read the last run, unless it
was overtaken (`EditReads`). `PackageTypeCorrect` puts both halves together.

*TargetsProofs.* All properties of the run, and `DeletedTargetsStay` (no step brings a deleted target
back). The copies of rows that calls hold, in hand and in
their lists, are tied to the rows (`Sound`): a copy says what the admin wants unless the target is
`crossed`, and a list entry equals its row unless the target is `dirty` or gone. `Lone` says that
no call counts as alone while another is under way. `Delivering` is what makes DeliveredOrTold
inductive: a target that is due has the latest version and no call is about to push another one,
or a SyncCertificate has yet to come to it. That covers several targets at one place, where a late
push for one target could replace what another was given: the older call keeps every call that
overlaps it from being alone, so both targets stay marked.

*IntegrationsProofs.* `WhatRunsIsCurrent`, which joins `RunsWhatIsSaved` and `LetsEncryptKeepsUp`, and
`EditsNeverLockOut`. What a request that has been alone read
stays true until it writes (`Current`), since of two requests that touch the same things neither
counts as alone (`Lone`); a provider is marked from the first write to the last, so that no
unrelated request clears it; and DNS-01 settings reach the database only over a credential or with
one on its way (`Sound`), which no start after a complete edit refuses.

*AdministrationProofs.* `SignInIsTrue`: while nothing is mixed the one request under way has the
row as it is (`Undisturbed`), so what it writes back is the count plus one. `AccountsStayInAgreement`:
a call that has the key, the account or the authority in hand has what is on file
(`CallsFit`), for every environment whose first key was not generated twice. `GrantsAreEarned`:
what a request was let in for or has checked its user has earned (`Deserved`), and of the requests
that hold one token at most one is about to hand it out (`OneLoad`, `Spent`).
`AdministrationTypeCorrect` puts these and the integrations together.

Left to TLC: liveness (`OrdersSettle`, `ExchangeSettles`, `ScanEnds`, `DueIsFired`), which with its
fairness is out of the prover's reach. What it rests on is proved where it is about states and steps:
nothing waits in vain and every step counts down (`ScansAdvance`, `SweepsAdvance`, `ChecksEnd`), and
only faults strand an order (`StrandedByFaults`). That enabled steps are taken is the fairness
stated above, and that an order is decided in the end also takes the world's.

## Known behaviour no property covers

- Two servers (`docs/plan.html:550` wants a leader lock, which the code does not have): each runs an
  engine, and both send and renew (`renewal/engine.go:208`). `EnginesNotifyOnce` bounds the reminders
by one for each engine.
- A failed send is to be tried again at the next tick (`renewal/notifylog.go:26-29`); with a tick a day
  the next one may be below another threshold (`renewal/engine.go:197`). `LowerThresholdsRemind`
  asks for the attempt, not for its success. It leaves out the largest threshold, for which
  `RenewalEngine_threshold` shows why.
- The due list of a tick is worked through with pauses: a row renewed by hand meanwhile is
  renewed again (`renewal/engine.go:100`). The two renewals are ordinary orders.
- A scan compares with an inventory index loaded at its start: a certificate renewed meanwhile is
  reported as unknown (`discovery/service.go:305`). The report is of its time.
- The notification log is keyed by certificate and threshold and a renewal keeps the
  certificate's id: after it a threshold that was reminded of before is silent (`renewal/notifylog.go:48`), which is what
  the README's "never twice" (`README.md:118-119`) says.

## Not modelled, and why

The audit log is append-only and read only by its own list; configuration, the connection pool
and migrations run before anything else. OIDC keeps no state but a signed cookie. Posture scores, statistics
and lists are read-only reports. Cryptography, templates, CSR and subject building, decoding and validation of requests,
WinRM's protocol, PFX building and the frontend are I/O or formatting. The self-signed validity is one
setting with no second copy. What these parts do to modelled state (a send that fails, a credential that is
missing, a push that is refused) is a choice of the modules that use them.

## Plan

All modules planned are written, checked and proved. What could be added: pure operators against
reference definitions (expandTargets and validateScanParams, the classification of a scan's
results), two replicas of the schedule sweep, and a composition of Targets with Orders in which
the hook runs for two certificates at once.
