------------------------ MODULE AdministrationProofs ------------------------
(***************************************************************************)
(* Proofs about what administrators and users set up, for any number of    *)
(* them and any bounds: the sign-in of a local account (SignIn), the ACME  *)
(* account behind Let's Encrypt (Accounts), and roles with the keys and    *)
(* tokens granted on them (Grants).                                        *)
(***************************************************************************)
EXTENDS MCAdministration, IntegrationsProofs

-----------------------------------------------------------------------------
(* Sign-in.                                                                   *)

\* While nothing is mixed, the one request under way has the row as it is.
Undisturbed ==
  ~ mixed =>
    /\ \A b, c \in Clients : visit[b] # Away /\ visit[c] # Away => b = c
    /\ \A c \in Clients : visit[c].at = "login" => visit[c].read = user

\* What is chosen is never the assigned password.
ChosenWell == \A c \in Clients : visit[c].at = "change" => visit[c].chosen # Seeded

SignInInv == SignInTypeOK /\ SignInHolds /\ Undisturbed /\ ChosenWell

LEMMA InitSignInInv == SignInInit => SignInInv
<1> SUFFICES ASSUME SignInInit
             PROVE  SignInInv
  OBVIOUS
<1>. USE SignInAssumption DEF SignInInit, Away, Unlocked
<1>1. SignInTypeOK
  <2>1. mixed \in BOOLEAN
    BY Zenon
  <2>2. user \in UserRows /\ visit \in [Clients -> {Away} \cup Logins \cup Changes]
    BY DEF UserRows
  <2>. QED
    BY <2>1, <2>2 DEF SignInTypeOK
<1>2. SignInHolds
  BY DEF SignInHolds, CountIsRight, LockIsEarned, AssignedIsTemporary
<1>3. \A c \in Clients : visit[c] = Away
  OBVIOUS
<1>4. Undisturbed /\ ChosenWell
  BY <1>3 DEF Undisturbed, ChosenWell
<1>. QED
  BY <1>1, <1>2, <1>4 DEF SignInInv

\* A request comes in with what it has read.
LEMMA StepArrive ==
  ASSUME SignInInv, NEW c \in Clients, NEW asked \in Logins \cup Changes, Arrive(c, asked),
         asked.at = "login" => asked.read = user,
         asked.at = "change" => asked.chosen # Seeded
  PROVE  SignInInv'
<1>. USE DEF SignInInv, Arrive
<1>1. SignInTypeOK'
  <2>1. mixed' \in BOOLEAN
    BY Zenon
  <2>2. visits' \in 0 .. MaxVisits
    BY SignInAssumption DEF SignInTypeOK
  <2>. QED
    BY <2>1, <2>2 DEF SignInTypeOK
<1>2. /\ mixed => mixed'
      /\ ~ Alone(c) => mixed'
  OBVIOUS
<1>3. SignInHolds'
  BY <1>2 DEF SignInHolds, CountIsRight, LockIsEarned, AssignedIsTemporary
<1>4. /\ visit'[c] = asked
      /\ \A b \in Clients \ {c} : visit'[b] = visit[b]
  BY DEF SignInTypeOK
<1>5. Undisturbed'
  BY <1>2, <1>4 DEF Undisturbed, Alone, Away
<1>6. ChosenWell'
  BY <1>4 DEF ChosenWell
<1>. QED
  BY <1>1, <1>3, <1>5, <1>6

\* A request that is over, having left the row alone, and said so if it should not have.
LEMMA StepLeave ==
  ASSUME SignInInv, NEW c \in Clients, visit' = [visit EXCEPT ![c] = Away],
         UNCHANGED <<user, clock, visits>>, entered' \in SUBSET Clients, losses' \in 0 .. MaxLosses,
         streak' \in Nat, mixed' \in BOOLEAN, mixed' \/ (mixed' = mixed /\ streak' = streak)
  PROVE  SignInInv'
<1>. USE DEF SignInInv
<1>1. SignInTypeOK'
  BY DEF SignInTypeOK
<1>2. SignInHolds'
  BY DEF SignInHolds, CountIsRight, LockIsEarned, AssignedIsTemporary
<1>3. /\ visit'[c] = Away
      /\ \A b \in Clients \ {c} : visit'[b] = visit[b]
  BY DEF SignInTypeOK
<1>4. Undisturbed' /\ ChosenWell'
  BY <1>3 DEF Undisturbed, ChosenWell, Away
<1>. QED
  BY <1>1, <1>2, <1>4

\* A request that is over, having written the row.
LEMMA StepWrite ==
  ASSUME SignInInv, NEW c \in Clients, visit[c] # Away, visit' = [visit EXCEPT ![c] = Away],
         user' \in UserRows, LockIsEarned', AssignedIsTemporary', CountIsRight',
         UNCHANGED <<clock, visits, losses>>, entered' \in SUBSET Clients, streak' \in Nat,
         mixed' \in BOOLEAN, mixed /\ ~ mixed' => Alone(c)
  PROVE  SignInInv'
<1>. USE DEF SignInInv
<1>1. SignInTypeOK' /\ SignInHolds'
  BY DEF SignInTypeOK, SignInHolds
<1>2. /\ visit'[c] = Away
      /\ \A b \in Clients \ {c} : visit'[b] = visit[b]
  BY DEF SignInTypeOK
<1>3. ASSUME ~ mixed'
      PROVE  \A b \in Clients : visit'[b] = Away
    BY <1>2, <1>3 DEF Undisturbed, Alone
<1>4. Undisturbed' /\ ChosenWell'
  BY <1>2, <1>3 DEF Undisturbed, ChosenWell, Away
<1>. QED
  BY <1>1, <1>4

LEMMA StepSignInInv == SignInInv /\ [SignInNext]_signInVars => SignInInv'
<1> SUFFICES ASSUME SignInInv, [SignInNext]_signInVars
             PROVE  SignInInv'
  OBVIOUS
<1>. USE SignInAssumption DEF SignInInv
<1>0. /\ user \in UserRows /\ visit \in [Clients -> {Away} \cup Logins \cup Changes]
      /\ streak \in Nat /\ mixed \in BOOLEAN /\ clock \in Nat /\ losses \in 0 .. MaxLosses
      /\ entered \in SUBSET Clients /\ visits \in 0 .. MaxVisits
  BY DEF SignInTypeOK
<1>1. ASSUME NEW c \in Clients, NEW typed \in Passwords, Login(c, typed)
      PROVE  SignInInv'
  <2>1. PICK asked : asked = [at |-> "login", typed |-> typed, read |-> user]
    OBVIOUS
  <2>2. asked \in Logins /\ asked.at = "login" /\ asked.read = user
    BY <1>0, <2>1 DEF Logins
  <2>. QED
    BY <1>1, <2>1, <2>2, StepArrive DEF Login
<1>2. ASSUME NEW c \in Clients, RecordFailedLogin(c)
      PROVE  SignInInv'
  <2>1. /\ visit[c].at = "login" /\ visit' = [visit EXCEPT ![c] = Away]
        /\ visit[c].read \in UserRows
    BY <1>0, <1>2 DEF RecordFailedLogin, Away, Logins, Changes
  <2>2. PICK n : n = visit[c].read.attempts + 1
    OBVIOUS
  <2>3. PICK until : until = IF n >= MaxFailedLogins THEN clock + LockoutDuration ELSE Unlocked
    OBVIOUS
  <2>4. n \in Nat /\ until \in Nat /\ (until # Unlocked <=> n >= MaxFailedLogins) /\ until <= clock + LockoutDuration
    BY <1>0, <2>1, <2>2, <2>3 DEF UserRows, Unlocked
  <2>5. user' = [[user EXCEPT !.attempts = n] EXCEPT !.lockedUntil = until]
    BY <1>2, <2>2, <2>3 DEF RecordFailedLogin
  <2>6. /\ user' \in UserRows
        /\ user'.attempts = n /\ user'.lockedUntil = until
        /\ user'.password = user.password /\ user'.mustChange = user.mustChange
    BY <1>0, <2>4, <2>5 DEF UserRows
  <2>7. streak' = streak + 1 /\ mixed' = mixed /\ UNCHANGED <<clock, visits, losses, entered>>
    BY <1>2 DEF RecordFailedLogin
  <2>8. ~ mixed => n = streak + 1
    BY <2>1, <2>2 DEF Undisturbed, SignInHolds, CountIsRight
  <2>9. CountIsRight' /\ LockIsEarned'
    BY <1>0, <2>4, <2>6, <2>7, <2>8 DEF CountIsRight, LockIsEarned
  <2>10. AssignedIsTemporary'
    BY <2>6 DEF AssignedIsTemporary, SignInHolds
  <2>. QED
    <3>1. visit[c] # Away /\ streak' \in Nat /\ entered' \in SUBSET Clients
      BY <1>0, <2>1, <2>7 DEF Away
    <3>2. mixed' \in BOOLEAN /\ (mixed /\ ~ mixed' => Alone(c))
      BY <1>0, <2>7, Zenon
    <3>. QED
      BY <2>1, <2>6, <2>7, <2>9, <2>10, <3>1, <3>2, StepWrite, Zenon
<1>3. ASSUME NEW c \in Clients, RecordLost(c)
      PROVE  SignInInv'
  <2>1. losses' \in 0 .. MaxLosses /\ streak' \in Nat
    BY <1>0, <1>3 DEF RecordLost, Lose
  <2>2. mixed' \in BOOLEAN /\ (mixed' \/ (mixed' = mixed /\ streak' = streak))
    BY <1>0, <1>3, Zenon DEF RecordLost
  <2>3. entered' \in SUBSET Clients
    BY <1>0, <1>3 DEF RecordLost
  <2>4. visit' = [visit EXCEPT ![c] = Away] /\ UNCHANGED <<user, clock, visits>>
    BY <1>3 DEF RecordLost
  <2>. QED
    BY <2>1, <2>2, <2>3, <2>4, StepLeave, Zenon
<1>4. ASSUME NEW c \in Clients, Admit(c)
      PROVE  SignInInv'
  <2>1. user' = [[user EXCEPT !.attempts = 0] EXCEPT !.lockedUntil = 0]
    BY <1>4 DEF Admit, Unlocked
  <2>2. /\ user' \in UserRows
        /\ user'.attempts = 0 /\ user'.lockedUntil = 0
        /\ user'.password = user.password /\ user'.mustChange = user.mustChange
    BY <1>0, <2>1 DEF UserRows
  <2>3. CountIsRight' /\ LockIsEarned' /\ AssignedIsTemporary'
    BY <1>0, <1>4, <2>2 DEF Admit, Resets, CountIsRight, LockIsEarned, AssignedIsTemporary, SignInHolds, Unlocked
  <2>4. mixed' \in BOOLEAN /\ (mixed /\ ~ mixed' => Alone(c)) /\ visit[c] # Away
    BY <1>0, <1>4 DEF Admit, Resets, Away
  <2>. QED
    BY <1>0, <1>4, <2>2, <2>3, <2>4, StepWrite DEF Admit, Resets
<1>5. ASSUME NEW c \in Clients, AdmitUnreset(c)
      PROVE  SignInInv'
  <2>1. losses' \in 0 .. MaxLosses /\ streak' \in Nat
    BY <1>0, <1>5 DEF AdmitUnreset, Lose
  <2>2. mixed' \in BOOLEAN /\ (mixed' \/ (mixed' = mixed /\ streak' = streak))
    BY <1>0, <1>5, Zenon DEF AdmitUnreset
  <2>3. entered' \in SUBSET Clients
    BY <1>0, <1>5 DEF AdmitUnreset
  <2>4. visit' = [visit EXCEPT ![c] = Away] /\ UNCHANGED <<user, clock, visits>>
    BY <1>5 DEF AdmitUnreset
  <2>. QED
    BY <2>1, <2>2, <2>3, <2>4, StepLeave, Zenon
<1>6. ASSUME NEW c \in Clients, NEW typed \in Passwords, NEW chosen \in Passwords,
             ChangePassword(c, typed, chosen)
      PROVE  SignInInv'
  <2>1. PICK asked : asked = [at |-> "change", chosen |-> chosen]
    OBVIOUS
  <2>2. asked \in Changes /\ asked.at = "change" /\ asked.chosen # Seeded
    BY <1>6, <2>1 DEF Changes, ChangePassword
  <2>. QED
    BY <1>6, <2>1, <2>2, StepArrive DEF ChangePassword
<1>7. ASSUME NEW c \in Clients, SetPassword(c)
      PROVE  SignInInv'
  <2>1. visit[c].at = "change" /\ visit[c].chosen \in Passwords /\ visit[c].chosen # Seeded
    BY <1>0, <1>7 DEF SetPassword, Away, Logins, Changes, ChosenWell
  <2>2. /\ user' \in UserRows
        /\ user'.attempts = 0 /\ user'.lockedUntil = 0
        /\ user'.password = visit[c].chosen /\ user'.mustChange = FALSE
    BY <1>7, <2>1 DEF SetPassword, UserRows, Unlocked
  <2>3. CountIsRight' /\ LockIsEarned' /\ AssignedIsTemporary'
    BY <1>0, <1>7, <2>1, <2>2 DEF SetPassword, Resets, CountIsRight, LockIsEarned, AssignedIsTemporary, Unlocked
  <2>4. mixed' \in BOOLEAN /\ (mixed /\ ~ mixed' => Alone(c)) /\ visit[c] # Away
    BY <1>0, <1>7 DEF SetPassword, Resets, Away
  <2>. QED
    BY <1>0, <1>7, <2>2, <2>3, <2>4, StepWrite DEF SetPassword, Resets
<1>8. ASSUME NEW c \in Clients, SetPasswordFails(c)
      PROVE  SignInInv'
  <2>1. losses' \in 0 .. MaxLosses /\ streak' \in Nat
    BY <1>0, <1>8 DEF SetPasswordFails, Lose
  <2>2. mixed' \in BOOLEAN /\ mixed' = mixed /\ streak' = streak
    BY <1>0, <1>8, Zenon DEF SetPasswordFails
  <2>3. entered' \in SUBSET Clients
    BY <1>0, <1>8 DEF SetPasswordFails
  <2>4. visit' = [visit EXCEPT ![c] = Away] /\ UNCHANGED <<user, clock, visits>>
    BY <1>8 DEF SetPasswordFails
  <2>. QED
    BY <2>1, <2>2, <2>3, <2>4, StepLeave, Zenon
<1>9. CASE ClockTicks
  <2>1. clock' \in 0 .. MaxClock /\ clock' = clock + 1 /\ UNCHANGED <<user, visit, entered, visits, losses, streak, mixed>>
    BY <1>0, <1>9 DEF ClockTicks, SignInTypeOK
  <2>2. SignInTypeOK'
    BY <2>1 DEF SignInTypeOK
  <2>3. LockIsEarned'
    BY <1>0, <2>1 DEF SignInHolds, LockIsEarned, UserRows
  <2>4. CountIsRight' /\ AssignedIsTemporary' /\ Undisturbed' /\ ChosenWell'
    BY <2>1 DEF SignInHolds, CountIsRight, AssignedIsTemporary, Undisturbed, ChosenWell
  <2>. QED
    BY <2>2, <2>3, <2>4 DEF SignInHolds
<1>10. CASE UNCHANGED signInVars
  BY <1>10
  DEF signInVars, SignInTypeOK, SignInHolds, CountIsRight, LockIsEarned, AssignedIsTemporary,
      Undisturbed, ChosenWell
<1>. QED
  BY <1>1, <1>2, <1>3, <1>4, <1>5, <1>6, <1>7, <1>8, <1>9, <1>10 DEF SignInNext

\* The count and the lock on file are those the sign-ins earned, and an assigned password is
\* temporary: for any number of clients, requests, lost writes and any maximum.
THEOREM SignInIsTrue == SignInSpec => []SignInHolds
<1>1. SignInInv => SignInHolds
  BY DEF SignInInv
<1>. QED
  BY <1>1, InitSignInInv, StepSignInInv, PTL DEF SignInSpec

-----------------------------------------------------------------------------
(* The ACME account.                                                          *)

PastKey == {"account", "register", "persist", "save", "install"}

\* What a call for e carries fits what is on file: the key k, the accounts reg at the CA, and
\* whether another directory was ever asked for.
Fits(r, e, k, reg, mv) ==
  /\ r.at = "put" => k = NoAccountKey
  /\ r.at \in PastKey => r.key = k
  /\ r.at = "persist" => r.kid = <<r.directory, r.key>> /\ [ref |-> r.kid, environment |-> e] \in reg
  /\ r.at \in {"save", "install"} => r.kid[2] = r.key /\ (e \notin mv => r.kid[1] = r.directory)

\* The key and the account a call must have by then.
Equipped(r) ==
  /\ r.at \in PastKey \cup {"put"} => r.key \in AccountKeys
  /\ r.at \in {"persist", "save", "install"} => r.kid \in Refs

For(c, e) == call[c] # Idle /\ call[c].environment = e

CallsFit(e) ==
  /\ \A c \in Callers : For(c, e) => Fits(call[c], e, keyOf[e], registered, moved)
  /\ \A b, c \in Callers : For(b, e) /\ For(c, e) /\ call[b].at = "put" /\ call[c].at = "put" => b = c

AccountsInv ==
  /\ AccountsTypeOK
  /\ \A c \in Callers : call[c] # Idle => Equipped(call[c])
  /\ AccountsAgree
  /\ \A e \in Environments \ overlapped : CallsFit(e)

LEMMA InitAccountsInv == AccountsInit => AccountsInv
<1> SUFFICES ASSUME AccountsInit
             PROVE  AccountsInv
  OBVIOUS
<1>. USE DEF AccountsInit
<1>1. AccountsTypeOK
  <2>1. serving \in BOOLEAN
    BY Zenon
  <2>2. /\ keyOf \in [Environments -> Nat]
        /\ generated \in Nat
    BY DEF NoAccountKey
  <2>3. /\ account \in [Environments -> Rows \cup {NoAccount}]
        /\ call \in [Callers -> CallRecords \cup {Idle}]
    BY Zenon
  <2>4. calls \in 0 .. MaxCalls /\ breaks \in 0 .. MaxBreaks
    BY AccountsAssumption
  <2>. QED
    BY <2>1, <2>2, <2>3, <2>4 DEF AccountsTypeOK
<1>2. \A c \in Callers : call[c] = Idle
  OBVIOUS
<1>3. AccountsAgree
  BY DEF AccountsAgree, AccountOpens, NothingOrphaned, AuthoritySigns
<1>. QED
  BY <1>1, <1>2, <1>3 DEF AccountsInv, CallsFit, For

LEMMA IdleIsNone == Idle \notin CallRecords /\ Idle.at = "none" /\ \A r \in CallRecords : r # Idle
<1>1. \A r \in CallRecords : r.at # "none"
  BY DEF CallRecords, CallStages
<1>. QED
  BY <1>1 DEF Idle

\* A call that has done something, or is over: what is on file stays in agreement if the
\* environments' do and the call fits it.
LEMMA StepOnFile ==
  ASSUME AccountsInv, NEW c \in Callers, NEW rec \in CallRecords \cup {Idle},
         call' = [call EXCEPT ![c] = rec],
         keyOf' = keyOf,
         AccountsTypeOK', rec # Idle => Equipped(rec),
         registered \subseteq registered', moved \subseteq moved', overlapped \subseteq overlapped',
         \A e \in Environments \ overlapped' : AccountOpens(e)' /\ NothingOrphaned(e)' /\ AuthoritySigns(e)',
         rec # Idle /\ rec.environment \notin overlapped' =>
           /\ Fits(rec, rec.environment, keyOf[rec.environment], registered', moved')
           /\ rec.at = "put" => \A b \in Callers \ {c} : For(b, rec.environment) => call[b].at # "put"
  PROVE  AccountsInv'
<1>1. /\ call'[c] = rec
      /\ \A b \in Callers \ {c} : call'[b] = call[b]
  BY DEF AccountsInv, AccountsTypeOK
<1>2. \A b \in Callers : call'[b] # Idle => Equipped(call'[b])
  BY <1>1 DEF AccountsInv
<1>3. ASSUME NEW e \in Environments \ overlapped'
      PROVE  CallsFit(e)'
  <2>1. CallsFit(e)
    BY DEF AccountsInv
  <2>2. ASSUME NEW b \in Callers, For(b, e)'
        PROVE  Fits(call'[b], e, keyOf[e], registered', moved')
    <3>1. CASE b = c
      BY <1>1, <2>2, <3>1 DEF For
    <3>2. CASE b # c
      <4>1. Fits(call[b], e, keyOf[e], registered, moved)
        BY <1>1, <2>1, <2>2, <3>2 DEF For, CallsFit
      <4>. QED
        BY <1>1, <3>2, <4>1 DEF Fits
    <3>. QED
      BY <3>1, <3>2
  <2>3. ASSUME NEW a \in Callers, NEW b \in Callers, For(a, e)', For(b, e)',
               call'[a].at = "put", call'[b].at = "put"
        PROVE  a = b
    BY <1>1, <2>1, <2>3 DEF For, CallsFit
  <2>. QED
    BY <2>2, <2>3 DEF CallsFit
<1>. QED
  BY <1>2, <1>3 DEF AccountsInv, AccountsAgree

\* The same for a call that changes nothing of the account or the authority.
LEMMA StepCall ==
  ASSUME AccountsInv, NEW c \in Callers, NEW rec \in CallRecords \cup {Idle},
         call' = [call EXCEPT ![c] = rec],
         UNCHANGED <<keyOf, account, authority>>,
         AccountsTypeOK', rec # Idle => Equipped(rec),
         registered \subseteq registered', moved \subseteq moved', overlapped \subseteq overlapped',
         \A e \in Environments \ overlapped' : NothingOrphaned(e)',
         rec # Idle /\ rec.environment \notin overlapped' =>
           /\ Fits(rec, rec.environment, keyOf[rec.environment], registered', moved')
           /\ rec.at = "put" => \A b \in Callers \ {c} : For(b, rec.environment) => call[b].at # "put"
  PROVE  AccountsInv'
<1>1. \A e \in Environments \ overlapped' : AccountOpens(e)' /\ AuthoritySigns(e)'
  BY DEF AccountsInv, AccountsAgree, AccountOpens, AuthoritySigns
<1>. QED
  BY <1>1, StepOnFile

\* A call under way is a record of calls, and has what its stage needs.
LEMMA UnderWay ==
  ASSUME AccountsInv, NEW c \in Callers, call[c] # Idle
  PROVE  /\ call[c] \in CallRecords
         /\ call[c].environment \in Environments
         /\ call[c].directory \in Directories
         /\ call[c].kind \in {"edit", "refresh", "start"}
         /\ call[c].key \in Nat
         /\ call[c].kid \in Refs \cup {NoAccount}
         /\ Equipped(call[c])
<1>1. call[c] \in CallRecords
  BY DEF AccountsInv, AccountsTypeOK
<1>. QED
  BY <1>1 DEF AccountsInv, CallRecords

LEMMA AtStage ==
  ASSUME NEW c \in Callers, NEW stage \in CallStages, Reached(c, stage)
  PROVE  call[c] # Idle
  BY DEF Reached, Idle, CallStages

LEMMA StepCalling ==
  ASSUME AccountsInv, NEW c \in Callers, NEW kind \in {"edit", "refresh", "start"},
         NEW place \in Places, Calling(c, kind, place), calls' \in 0 .. MaxCalls
  PROVE  AccountsInv'
<1>1. PICK rec : rec = [at |-> "key", kind |-> kind, environment |-> place.environment,
                        directory |-> place.directory, key |-> NoAccountKey, kid |-> NoAccount]
  OBVIOUS
<1>2. rec \in CallRecords /\ rec.at = "key" /\ call' = [call EXCEPT ![c] = rec]
  BY <1>1 DEF Calling, CallRecords, CallStages, Places, NoAccountKey
<1>3. UNCHANGED <<keyOf, account, registered, settings, authority, serving, generated, breaks,
                  overlapped, moved>>
  BY DEF Calling
<1>4. AccountsTypeOK'
  <2>1. call' \in [Callers -> CallRecords \cup {Idle}]
    BY <1>2 DEF AccountsInv, AccountsTypeOK
  <2>. QED
    BY <1>3, <2>1 DEF AccountsInv, AccountsTypeOK
<1>5. Equipped(rec) /\ Fits(rec, rec.environment, keyOf[rec.environment], registered', moved')
  BY <1>2 DEF Equipped, Fits, PastKey
<1>6. \A e \in Environments \ overlapped' : NothingOrphaned(e)'
  BY <1>3 DEF AccountsInv, AccountsAgree, NothingOrphaned
<1>. QED
  BY <1>2, <1>3, <1>4, <1>5, <1>6, StepCall

LEMMA StepLoadKey ==
  ASSUME AccountsInv, NEW c \in Callers, LoadKey(c)
  PROVE  AccountsInv'
<1>1. call[c] # Idle
  BY AtStage DEF LoadKey, CallStages
<1>2. PICK r \in CallRecords : r = call[c] /\ r.environment \in Environments
  BY <1>1, UnderWay
<1>3. UNCHANGED <<keyOf, account, registered, settings, authority, serving, calls, breaks, moved>>
  BY DEF LoadKey
<1>4. \A e \in Environments \ overlapped : NothingOrphaned(e)
  BY DEF AccountsInv, AccountsAgree
<1>5. CASE keyOf[r.environment] # NoAccountKey
  <2>1. PICK rec : rec = [[r EXCEPT !.at = "account"] EXCEPT !.key = keyOf[r.environment]]
    OBVIOUS
  <2>2. call' = [call EXCEPT ![c] = rec] /\ generated' = generated /\ overlapped' = overlapped
    BY <1>2, <1>5, <2>1 DEF LoadKey, AccountsInv, AccountsTypeOK
  <2>3. keyOf[r.environment] \in AccountKeys
    BY <1>2, <1>5 DEF AccountsInv, AccountsTypeOK, AccountKeys
  <2>4. /\ rec \in CallRecords
        /\ rec.at = "account"
        /\ rec.key = keyOf[r.environment]
        /\ rec.environment = r.environment
    BY <1>2, <2>1, <2>3 DEF CallRecords, CallStages, AccountKeys
  <2>5. Equipped(rec) /\ Fits(rec, rec.environment, keyOf[rec.environment], registered', moved')
    BY <2>3, <2>4 DEF Equipped, Fits, PastKey
  <2>6. AccountsTypeOK'
    <3>1. call' \in [Callers -> CallRecords \cup {Idle}]
      BY <2>2, <2>4 DEF AccountsInv, AccountsTypeOK
    <3>. QED
      BY <1>3, <2>2, <3>1 DEF AccountsInv, AccountsTypeOK
  <2>7. \A e \in Environments \ overlapped' : NothingOrphaned(e)'
    BY <1>3, <1>4, <2>2 DEF NothingOrphaned
  <2>. QED
    BY <1>3, <2>2, <2>4, <2>5, <2>6, <2>7, StepCall
<1>6. CASE keyOf[r.environment] = NoAccountKey
  <2>1. PICK rec : rec = [[r EXCEPT !.at = "put"] EXCEPT !.key = generated + 1]
    OBVIOUS
  <2>2. /\ call' = [call EXCEPT ![c] = rec]
        /\ generated' = generated + 1
        /\ overlapped' = IF GeneratingToo(c) THEN overlapped \cup {r.environment} ELSE overlapped
    BY <1>2, <1>6, <2>1 DEF LoadKey, AccountsInv, AccountsTypeOK
  <2>3. generated + 1 \in AccountKeys
    BY DEF AccountsInv, AccountsTypeOK, AccountKeys, NoAccountKey
  <2>4. /\ rec \in CallRecords
        /\ rec.at = "put"
        /\ rec.key = generated + 1
        /\ rec.environment = r.environment
    BY <1>2, <2>1, <2>3 DEF CallRecords, CallStages, AccountKeys
  <2>5. Equipped(rec) /\ Fits(rec, rec.environment, keyOf[rec.environment], registered', moved')
    BY <1>6, <2>3, <2>4 DEF Equipped, Fits, PastKey
  <2>6. AccountsTypeOK'
    <3>1. call' \in [Callers -> CallRecords \cup {Idle}]
      BY <2>2, <2>4 DEF AccountsInv, AccountsTypeOK
    <3>2. overlapped' \in SUBSET Environments
      BY <1>2, <2>2 DEF AccountsInv, AccountsTypeOK
    <3>3. generated' \in Nat
      BY <2>2 DEF AccountsInv, AccountsTypeOK
    <3>. QED
      BY <1>3, <3>1, <3>2, <3>3 DEF AccountsInv, AccountsTypeOK
  <2>7. overlapped \subseteq overlapped'
    BY <2>2
  <2>8. \A e \in Environments \ overlapped' : NothingOrphaned(e)'
    BY <1>3, <1>4, <2>7 DEF NothingOrphaned
  <2>9. rec.environment \notin overlapped' =>
          \A b \in Callers \ {c} : For(b, rec.environment) => call[b].at # "put"
    BY <1>2, <2>2, <2>4 DEF GeneratingToo, For
  <2>. QED
    BY <1>3, <2>2, <2>4, <2>5, <2>6, <2>7, <2>8, <2>9, StepCall
<1>. QED
  BY <1>5, <1>6

\* The first key of an environment: nothing of it is registered or on file yet, or the key
\* would not be missing.
LEMMA StepStoreKey ==
  ASSUME AccountsInv, NEW c \in Callers, StoreKey(c)
  PROVE  AccountsInv'
<1>1. call[c] # Idle
  BY AtStage DEF StoreKey, CallStages
<1>2. PICK r \in CallRecords : r = call[c] /\ r.environment \in Environments /\ Equipped(r)
  BY <1>1, UnderWay
<1>3. r.at = "put" /\ r.key \in AccountKeys
  BY <1>2 DEF StoreKey, Reached, Equipped
<1>4. PICK rec : rec = [r EXCEPT !.at = "account"]
  OBVIOUS
<1>5. /\ rec \in CallRecords /\ rec # Idle
      /\ rec.at = "account" /\ rec.key = r.key /\ rec.environment = r.environment
  BY <1>2, <1>4, IdleIsNone DEF CallRecords, CallStages
<1>6. /\ UNCHANGED <<account, registered, settings, authority, serving, generated, calls, breaks,
                     overlapped, moved>>
      /\ keyOf' = [keyOf EXCEPT ![r.environment] = r.key]
      /\ call' = [call EXCEPT ![c] = rec]
  BY <1>2, <1>4 DEF StoreKey
<1>7. call'[c] = rec /\ \A b \in Callers \ {c} : call'[b] = call[b]
  BY <1>6 DEF AccountsInv, AccountsTypeOK
<1>8. keyOf'[r.environment] = r.key /\ \A e \in Environments \ {r.environment} : keyOf'[e] = keyOf[e]
  BY <1>2, <1>6 DEF AccountsInv, AccountsTypeOK
<1>9. AccountsTypeOK'
  <2>1. call' \in [Callers -> CallRecords \cup {Idle}]
    BY <1>5, <1>6 DEF AccountsInv, AccountsTypeOK
  <2>2. keyOf' \in [Environments -> Nat]
    BY <1>3, <1>6 DEF AccountsInv, AccountsTypeOK, AccountKeys
  <2>. QED
    BY <1>6, <2>1, <2>2 DEF AccountsInv, AccountsTypeOK
<1>10. \A b \in Callers : call'[b] # Idle => Equipped(call'[b])
  <2>1. Equipped(rec)
    BY <1>3, <1>5 DEF Equipped, PastKey
  <2>. QED
    BY <1>7, <2>1 DEF AccountsInv
<1>11. ASSUME NEW e \in Environments \ overlapped'
       PROVE  AccountOpens(e)' /\ NothingOrphaned(e)' /\ AuthoritySigns(e)' /\ CallsFit(e)'
  <2>1. AccountOpens(e) /\ NothingOrphaned(e) /\ AuthoritySigns(e) /\ CallsFit(e)
    BY <1>6 DEF AccountsInv, AccountsAgree
  <2>2. CASE e # r.environment
    <3>1. keyOf'[e] = keyOf[e]
      BY <1>8, <2>2
    <3>2. AccountOpens(e)' /\ NothingOrphaned(e)' /\ AuthoritySigns(e)'
      BY <1>6, <2>1, <3>1 DEF AccountOpens, NothingOrphaned, AuthoritySigns
    <3>3. \A b \in Callers : For(b, e)' => b # c /\ For(b, e) /\ call'[b] = call[b]
      BY <1>5, <1>7, <2>2 DEF For
    <3>4. \A b \in Callers : For(b, e)' => Fits(call'[b], e, keyOf'[e], registered', moved')
      BY <1>6, <2>1, <3>1, <3>3 DEF CallsFit
    <3>5. \A a, b \in Callers : For(a, e)' /\ For(b, e)' /\ call'[a].at = "put" /\ call'[b].at = "put" => a = b
      BY <2>1, <3>3 DEF CallsFit
    <3>. QED
      BY <3>2, <3>4, <3>5 DEF CallsFit
  <2>3. CASE e = r.environment
    <3>1. keyOf[e] = NoAccountKey
      <4>1. For(c, e)
        BY <1>1, <1>2, <2>3 DEF For
      <4>. QED
        BY <1>2, <1>3, <2>1, <4>1 DEF CallsFit, Fits
    <3>2. \A g \in registered : g.environment # e
      <4>1. \A g \in registered : g.ref[2] # NoAccountKey
        BY DEF AccountsInv, AccountsTypeOK, Registrations, Refs, AccountKeys
      <4>. QED
        BY <2>1, <3>1, <4>1 DEF NothingOrphaned
    <3>3. account[e] = NoAccount
      BY <2>1, <3>2 DEF AccountOpens
    <3>4. ~ (authority # NoAuthority /\ authority.environment = e)
      <4>1. authority # NoAuthority => authority.key # NoAccountKey
        BY DEF AccountsInv, AccountsTypeOK, LEAuthority, AccountKeys
      <4>. QED
        BY <2>1, <3>1, <4>1 DEF AuthoritySigns
    <3>5. AccountOpens(e)' /\ NothingOrphaned(e)' /\ AuthoritySigns(e)'
      BY <1>6, <3>2, <3>3, <3>4 DEF AccountOpens, NothingOrphaned, AuthoritySigns
    <3>6. \A b \in Callers \ {c} : For(b, e) => call[b].at \notin PastKey \cup {"put"}
      <4>1. For(c, e) /\ call[c].at = "put"
        BY <1>1, <1>2, <1>3, <2>3 DEF For
      <4>2. \A b \in Callers \ {c} : For(b, e) => call[b].at # "put"
        BY <2>1, <4>1 DEF CallsFit
      <4>3. ASSUME NEW b \in Callers, For(b, e), call[b].at \in PastKey
            PROVE  FALSE
        <5>1. call[b].key = NoAccountKey
          BY <2>1, <3>1, <4>3 DEF CallsFit, Fits
        <5>2. call[b].key \in AccountKeys
          BY <4>3 DEF AccountsInv, Equipped, For
        <5>. QED
          BY <5>1, <5>2 DEF AccountKeys
      <4>. QED
        BY <4>2, <4>3
    <3>7. \A b \in Callers : For(b, e)' => call'[b].at # "put"
      BY <1>5, <1>7, <3>6 DEF For
    <3>8. ASSUME NEW b \in Callers, For(b, e)'
          PROVE  Fits(call'[b], e, keyOf'[e], registered', moved')
      <4>1. CASE b = c
        BY <1>5, <1>7, <1>8, <2>3, <4>1 DEF Fits
      <4>2. CASE b # c
        <5>1. call'[b] = call[b] /\ For(b, e)
          BY <1>7, <3>8, <4>2 DEF For
        <5>. QED
          BY <3>6, <4>2, <5>1 DEF Fits, PastKey
      <4>. QED
        BY <4>1, <4>2
    <3>. QED
      BY <3>5, <3>7, <3>8 DEF CallsFit
  <2>. QED
    BY <2>2, <2>3
<1>. QED
  BY <1>9, <1>10, <1>11 DEF AccountsInv, AccountsAgree

LEMMA StepLoadAccount ==
  ASSUME AccountsInv, NEW c \in Callers, LoadAccount(c)
  PROVE  AccountsInv'
<1>1. call[c] # Idle
  BY AtStage DEF LoadAccount, CallStages
<1>2. PICK r \in CallRecords : /\ r = call[c] /\ r.environment \in Environments /\ Equipped(r)
                               /\ r.at = "account"
  BY <1>1, UnderWay DEF LoadAccount, Reached
<1>3. UNCHANGED <<keyOf, account, registered, settings, authority, serving, generated, calls, breaks,
                  overlapped>>
  BY DEF LoadAccount
<1>4. \A e \in Environments \ overlapped' : NothingOrphaned(e)'
  BY <1>3 DEF AccountsInv, AccountsAgree, NothingOrphaned
<1>5. r.key \in AccountKeys
  BY <1>2 DEF Equipped, PastKey
<1>6. r.environment \notin overlapped => r.key = keyOf[r.environment]
  BY <1>1, <1>2 DEF AccountsInv, CallsFit, For, Fits, PastKey
<1>7. CASE account[r.environment] = NoAccount
  <2>1. PICK rec : rec = [r EXCEPT !.at = "register"]
    OBVIOUS
  <2>2. call' = [call EXCEPT ![c] = rec] /\ moved' = moved
    BY <1>2, <1>7, <2>1 DEF LoadAccount
  <2>3. /\ rec \in CallRecords
        /\ rec.at = "register" /\ rec.key = r.key /\ rec.environment = r.environment
    BY <1>2, <2>1 DEF CallRecords, CallStages
  <2>4. Equipped(rec)
    BY <1>5, <2>3 DEF Equipped
  <2>5. rec.environment \notin overlapped' =>
          Fits(rec, rec.environment, keyOf[rec.environment], registered', moved')
    BY <1>3, <1>6, <2>3 DEF Fits
  <2>6. AccountsTypeOK'
    <3>1. call' \in [Callers -> CallRecords \cup {Idle}]
      BY <2>2, <2>3 DEF AccountsInv, AccountsTypeOK
    <3>. QED
      BY <1>3, <2>2, <3>1 DEF AccountsInv, AccountsTypeOK
  <2>. QED
    BY <1>3, <1>4, <2>2, <2>3, <2>4, <2>5, <2>6, StepCall
<1>8. CASE account[r.environment] # NoAccount
  <2>1. PICK row \in Rows : row = account[r.environment]
    BY <1>2, <1>8 DEF AccountsInv, AccountsTypeOK
  <2>2. PICK stage \in {"save", "install"} : stage = Known(c)
    BY DEF Known
  <2>3. PICK rec : rec = [[r EXCEPT !.at = stage] EXCEPT !.kid = row.ref]
    OBVIOUS
  <2>4. /\ call' = [call EXCEPT ![c] = rec]
        /\ moved' = IF row.directory = r.directory THEN moved ELSE moved \cup {r.environment}
    BY <1>2, <1>8, <2>1, <2>2, <2>3 DEF LoadAccount
  <2>5. /\ rec \in CallRecords
        /\ rec.at = stage /\ rec.kid = row.ref /\ rec.key = r.key
        /\ rec.environment = r.environment /\ rec.directory = r.directory
    BY <1>2, <2>1, <2>2, <2>3 DEF CallRecords, CallStages, Rows
  <2>6. Equipped(rec)
    BY <1>5, <2>1, <2>2, <2>5 DEF Equipped, Rows
  <2>7. ASSUME rec.environment \notin overlapped'
        PROVE  Fits(rec, rec.environment, keyOf[rec.environment], registered', moved')
    <3>1. AccountOpens(r.environment)
      BY <1>2, <1>3, <2>5, <2>7 DEF AccountsInv, AccountsAgree
    <3>2. row.ref = <<row.directory, keyOf[r.environment]>>
      BY <1>8, <2>1, <3>1 DEF AccountOpens
    <3>3. rec.kid[2] = rec.key
      BY <1>3, <1>6, <2>5, <2>7, <3>2
    <3>4. rec.environment \notin moved' => rec.kid[1] = rec.directory
      BY <2>4, <2>5, <3>2
    <3>. QED
      BY <1>3, <1>6, <2>2, <2>5, <2>7, <3>3, <3>4 DEF Fits
  <2>8. moved \subseteq moved'
    BY <2>4
  <2>9. AccountsTypeOK'
    <3>1. call' \in [Callers -> CallRecords \cup {Idle}]
      BY <2>4, <2>5 DEF AccountsInv, AccountsTypeOK
    <3>2. moved' \in SUBSET Environments
      BY <1>2, <2>4 DEF AccountsInv, AccountsTypeOK
    <3>. QED
      BY <1>3, <3>1, <3>2 DEF AccountsInv, AccountsTypeOK
  <2>10. rec.at # "put"
    BY <2>2, <2>5
  <2>. QED
    BY <1>3, <1>4, <2>4, <2>5, <2>6, <2>7, <2>8, <2>9, <2>10, StepCall
<1>. QED
  BY <1>7, <1>8

LEMMA StepRegister ==
  ASSUME AccountsInv, NEW c \in Callers, Register(c)
  PROVE  AccountsInv'
<1>1. call[c] # Idle
  BY AtStage DEF Register, CallStages
<1>2. PICK r \in CallRecords : /\ r = call[c] /\ r.environment \in Environments /\ Equipped(r)
                               /\ r.directory \in Directories /\ r.at = "register"
  BY <1>1, UnderWay DEF Register, Reached
<1>3. PICK ref : ref = <<r.directory, r.key>>
  OBVIOUS
<1>4. r.key \in AccountKeys /\ ref \in Refs
  BY <1>2, <1>3 DEF Equipped, PastKey, Refs
<1>5. PICK rec : rec = [[r EXCEPT !.at = "persist"] EXCEPT !.kid = ref]
  OBVIOUS
<1>6. /\ UNCHANGED <<keyOf, account, settings, authority, serving, generated, calls, breaks,
                     overlapped, moved>>
      /\ registered' = registered \cup {[ref |-> ref, environment |-> r.environment]}
      /\ call' = [call EXCEPT ![c] = rec]
  BY <1>2, <1>3, <1>5 DEF Register
<1>7. /\ rec \in CallRecords
      /\ rec.at = "persist" /\ rec.kid = ref /\ rec.key = r.key
      /\ rec.environment = r.environment /\ rec.directory = r.directory
  BY <1>2, <1>4, <1>5 DEF CallRecords, CallStages
<1>8. r.environment \notin overlapped => r.key = keyOf[r.environment]
  BY <1>1, <1>2 DEF AccountsInv, CallsFit, For, Fits, PastKey
<1>9. AccountsTypeOK'
  <2>1. call' \in [Callers -> CallRecords \cup {Idle}]
    BY <1>6, <1>7 DEF AccountsInv, AccountsTypeOK
  <2>2. registered' \in SUBSET Registrations
    BY <1>2, <1>4, <1>6 DEF AccountsInv, AccountsTypeOK, Registrations
  <2>. QED
    BY <1>6, <2>1, <2>2 DEF AccountsInv, AccountsTypeOK
<1>10. ASSUME NEW e \in Environments \ overlapped'
       PROVE  NothingOrphaned(e)'
  <2>1. NothingOrphaned(e)
    BY <1>6 DEF AccountsInv, AccountsAgree
  <2>2. r.environment = e => ref[2] = keyOf[e]
    BY <1>3, <1>6, <1>8
  <2>. QED
    BY <1>6, <2>1, <2>2 DEF NothingOrphaned
<1>11. Equipped(rec)
  BY <1>4, <1>7 DEF Equipped
<1>12. rec.environment \notin overlapped' =>
         Fits(rec, rec.environment, keyOf[rec.environment], registered', moved')
  BY <1>3, <1>6, <1>7, <1>8 DEF Fits
<1>. QED
  BY <1>6, <1>7, <1>9, <1>10, <1>11, <1>12, StepCall

LEMMA StepPersistAccount ==
  ASSUME AccountsInv, NEW c \in Callers, PersistAccount(c)
  PROVE  AccountsInv'
<1>1. call[c] # Idle
  BY AtStage DEF PersistAccount, CallStages
<1>2. PICK r \in CallRecords : /\ r = call[c] /\ r.environment \in Environments /\ Equipped(r)
                               /\ r.directory \in Directories /\ r.at = "persist"
  BY <1>1, UnderWay DEF PersistAccount, Reached
<1>3. r.key \in AccountKeys /\ r.kid \in Refs
  BY <1>2 DEF Equipped, PastKey
<1>4. PICK row : row = [ref |-> r.kid, directory |-> r.directory]
  OBVIOUS
<1>5. row \in Rows /\ row.ref = r.kid /\ row.directory = r.directory
  BY <1>2, <1>3, <1>4 DEF Rows
<1>6. PICK stage \in {"save", "install"} : stage = Known(c)
  BY DEF Known
<1>7. PICK rec : rec = [r EXCEPT !.at = stage]
  OBVIOUS
<1>8. /\ UNCHANGED <<keyOf, registered, settings, authority, serving, generated, calls, breaks,
                     overlapped, moved>>
      /\ account' = [account EXCEPT ![r.environment] = row]
      /\ call' = [call EXCEPT ![c] = rec]
  BY <1>2, <1>4, <1>6, <1>7 DEF PersistAccount
<1>9. /\ rec \in CallRecords
      /\ rec.at = stage /\ rec.kid = r.kid /\ rec.key = r.key
      /\ rec.environment = r.environment /\ rec.directory = r.directory
  BY <1>2, <1>6, <1>7 DEF CallRecords, CallStages
<1>10. r.environment \notin overlapped =>
         /\ r.key = keyOf[r.environment]
         /\ r.kid = <<r.directory, r.key>>
         /\ [ref |-> r.kid, environment |-> r.environment] \in registered
  BY <1>1, <1>2 DEF AccountsInv, CallsFit, For, Fits, PastKey
<1>11. AccountsTypeOK'
  <2>1. call' \in [Callers -> CallRecords \cup {Idle}]
    BY <1>8, <1>9 DEF AccountsInv, AccountsTypeOK
  <2>2. account' \in [Environments -> Rows \cup {NoAccount}]
    BY <1>5, <1>8 DEF AccountsInv, AccountsTypeOK
  <2>. QED
    BY <1>8, <2>1, <2>2 DEF AccountsInv, AccountsTypeOK
<1>12. ASSUME NEW e \in Environments \ overlapped'
       PROVE  AccountOpens(e)' /\ NothingOrphaned(e)' /\ AuthoritySigns(e)'
  <2>1. AccountOpens(e) /\ NothingOrphaned(e) /\ AuthoritySigns(e)
    BY <1>8 DEF AccountsInv, AccountsAgree
  <2>2. NothingOrphaned(e)' /\ AuthoritySigns(e)'
    BY <1>8, <2>1 DEF NothingOrphaned, AuthoritySigns
  <2>3. CASE e = r.environment
    <3>1. account'[e] = row
      BY <1>2, <1>8, <2>3 DEF AccountsInv, AccountsTypeOK
    <3>. QED
      BY <1>5, <1>8, <1>10, <2>2, <2>3, <3>1 DEF AccountOpens
  <2>4. CASE e # r.environment
    <3>1. account'[e] = account[e]
      BY <1>8, <2>4 DEF AccountsInv, AccountsTypeOK
    <3>. QED
      BY <1>8, <2>1, <2>2, <3>1 DEF AccountOpens
  <2>. QED
    BY <2>3, <2>4
<1>13. Equipped(rec)
  BY <1>3, <1>6, <1>9 DEF Equipped
<1>14. ASSUME rec.environment \notin overlapped'
       PROVE  Fits(rec, rec.environment, keyOf[rec.environment], registered', moved')
  <2>1. r.key = keyOf[r.environment] /\ r.kid = <<r.directory, r.key>>
    BY <1>8, <1>9, <1>10, <1>14
  <2>. QED
    BY <1>6, <1>9, <2>1 DEF Fits
<1>15. rec.at # "put"
  BY <1>6, <1>9
<1>. QED
  BY <1>8, <1>9, <1>11, <1>12, <1>13, <1>14, <1>15, StepOnFile

LEMMA StepSavePlace ==
  ASSUME AccountsInv, NEW c \in Callers, SavePlace(c)
  PROVE  AccountsInv'
<1>1. call[c] # Idle
  BY AtStage DEF SavePlace, CallStages
<1>2. PICK r \in CallRecords : /\ r = call[c] /\ r.environment \in Environments /\ Equipped(r)
                               /\ r.directory \in Directories /\ r.at = "save"
  BY <1>1, UnderWay DEF SavePlace, Reached
<1>3. PICK rec : rec = [r EXCEPT !.at = "install"]
  OBVIOUS
<1>4. /\ UNCHANGED <<keyOf, account, registered, authority, serving, generated, calls, breaks,
                     overlapped, moved>>
      /\ settings' = [environment |-> r.environment, directory |-> r.directory]
      /\ call' = [call EXCEPT ![c] = rec]
  BY <1>2, <1>3 DEF SavePlace
<1>5. /\ rec \in CallRecords
      /\ rec.at = "install" /\ rec.kid = r.kid /\ rec.key = r.key
      /\ rec.environment = r.environment /\ rec.directory = r.directory
  BY <1>2, <1>3 DEF CallRecords, CallStages
<1>6. AccountsTypeOK'
  <2>1. call' \in [Callers -> CallRecords \cup {Idle}]
    BY <1>4, <1>5 DEF AccountsInv, AccountsTypeOK
  <2>2. settings' \in Places
    BY <1>2, <1>4 DEF Places
  <2>. QED
    BY <1>4, <2>1, <2>2 DEF AccountsInv, AccountsTypeOK
<1>7. \A e \in Environments \ overlapped' : NothingOrphaned(e)'
  BY <1>4 DEF AccountsInv, AccountsAgree, NothingOrphaned
<1>8. Equipped(rec)
  BY <1>2, <1>5 DEF Equipped, PastKey
<1>9. rec.environment \notin overlapped' =>
        Fits(rec, rec.environment, keyOf[rec.environment], registered', moved')
  <2>1. r.environment \notin overlapped => Fits(r, r.environment, keyOf[r.environment], registered, moved)
    BY <1>1, <1>2 DEF AccountsInv, CallsFit, For
  <2>. QED
    BY <1>2, <1>4, <1>5, <2>1 DEF Fits, PastKey
<1>. QED
  BY <1>4, <1>5, <1>6, <1>7, <1>8, <1>9, StepCall

LEMMA StepInstallAuthority ==
  ASSUME AccountsInv, NEW c \in Callers, InstallAuthority(c)
  PROVE  AccountsInv'
<1>1. call[c] # Idle
  BY AtStage DEF InstallAuthority, CallStages
<1>2. PICK r \in CallRecords : /\ r = call[c] /\ r.environment \in Environments /\ Equipped(r)
                               /\ r.directory \in Directories /\ r.at = "install"
  BY <1>1, UnderWay DEF InstallAuthority, Reached
<1>3. r.key \in AccountKeys /\ r.kid \in Refs
  BY <1>2 DEF Equipped, PastKey
<1>4. PICK au : au = [environment |-> r.environment, directory |-> r.directory,
                      key |-> r.key, kid |-> r.kid]
  OBVIOUS
<1>5. /\ au \in LEAuthority
      /\ au.environment = r.environment /\ au.directory = r.directory
      /\ au.key = r.key /\ au.kid = r.kid
  BY <1>2, <1>3, <1>4 DEF LEAuthority
<1>6. /\ UNCHANGED <<keyOf, account, registered, settings, generated, calls, breaks, overlapped, moved>>
      /\ authority' = au
      /\ call' = [call EXCEPT ![c] = Idle]
  BY <1>2, <1>4 DEF InstallAuthority
<1>7. r.environment \notin overlapped =>
        /\ r.key = keyOf[r.environment]
        /\ r.kid[2] = r.key
        /\ r.environment \notin moved => r.kid[1] = r.directory
  BY <1>1, <1>2 DEF AccountsInv, CallsFit, For, Fits, PastKey
<1>8. AccountsTypeOK'
  <2>1. call' \in [Callers -> CallRecords \cup {Idle}]
    BY <1>6 DEF AccountsInv, AccountsTypeOK
  <2>2. serving' \in BOOLEAN
    BY Zenon DEF InstallAuthority
  <2>. QED
    BY <1>5, <1>6, <2>1, <2>2 DEF AccountsInv, AccountsTypeOK
<1>9. ASSUME NEW e \in Environments \ overlapped'
      PROVE  AccountOpens(e)' /\ NothingOrphaned(e)' /\ AuthoritySigns(e)'
  <2>1. AccountOpens(e) /\ NothingOrphaned(e)
    BY <1>6 DEF AccountsInv, AccountsAgree
  <2>2. AccountOpens(e)' /\ NothingOrphaned(e)'
    BY <1>6, <2>1 DEF AccountOpens, NothingOrphaned
  <2>3. AuthoritySigns(e)'
    BY <1>5, <1>6, <1>7 DEF AuthoritySigns
  <2>. QED
    BY <2>2, <2>3
<1>. QED
  BY <1>6, <1>8, <1>9, StepOnFile

LEMMA StepCallFails ==
  ASSUME AccountsInv, NEW c \in Callers, CallFails(c)
  PROVE  AccountsInv'
<1>1. /\ UNCHANGED <<keyOf, account, registered, settings, authority, generated, calls, overlapped, moved>>
      /\ call' = [call EXCEPT ![c] = Idle]
  BY DEF CallFails
<1>2. AccountsTypeOK'
  <2>1. call' \in [Callers -> CallRecords \cup {Idle}]
    BY <1>1 DEF AccountsInv, AccountsTypeOK
  <2>2. serving' \in BOOLEAN
    BY Zenon DEF CallFails
  <2>3. breaks' \in 0 .. MaxBreaks
    BY AccountsAssumption DEF CallFails, Break, AccountsInv, AccountsTypeOK
  <2>. QED
    BY <1>1, <2>1, <2>2, <2>3 DEF AccountsInv, AccountsTypeOK
<1>3. \A e \in Environments \ overlapped' : NothingOrphaned(e)'
  BY <1>1 DEF AccountsInv, AccountsAgree, NothingOrphaned
<1>. QED
  BY <1>1, <1>2, <1>3, StepCall

LEMMA StepServerStops ==
  ASSUME AccountsInv, ServerStops
  PROVE  AccountsInv'
<1>1. /\ UNCHANGED <<keyOf, account, registered, settings, generated, calls, overlapped, moved>>
      /\ authority' = NoAuthority
      /\ call' = [c \in Callers |-> Idle]
  BY DEF ServerStops
<1>2. AccountsTypeOK'
  <2>1. serving' \in BOOLEAN
    BY Zenon DEF ServerStops
  <2>2. breaks' \in 0 .. MaxBreaks
    BY AccountsAssumption DEF ServerStops, Break, AccountsInv, AccountsTypeOK
  <2>3. call' \in [Callers -> CallRecords \cup {Idle}]
    BY <1>1
  <2>. QED
    BY <1>1, <2>1, <2>2, <2>3 DEF AccountsInv, AccountsTypeOK
<1>3. \A c \in Callers : call'[c] = Idle
  BY <1>1
<1>4. AccountsAgree'
  BY <1>1 DEF AccountsInv, AccountsAgree, AccountOpens, NothingOrphaned, AuthoritySigns
<1>. QED
  BY <1>2, <1>3, <1>4 DEF AccountsInv, CallsFit, For

LEMMA StepAccountsInv == AccountsInv /\ [AccountsNext]_accountsVars => AccountsInv'
<1> SUFFICES ASSUME AccountsInv, [AccountsNext]_accountsVars
             PROVE  AccountsInv'
  OBVIOUS
<1>1. settings \in Places /\ calls \in 0 .. MaxCalls
  BY DEF AccountsInv, AccountsTypeOK
<1>2. ASSUME NEW c \in Callers, NEW place \in Places, BeginEdit(c, place)
      PROVE  AccountsInv'
  <2>1. calls' \in 0 .. MaxCalls
    BY <1>1, <1>2, AccountsAssumption DEF BeginEdit
  <2>. QED
    BY <1>2, <2>1, StepCalling DEF BeginEdit
<1>3. ASSUME NEW c \in Callers, BeginRefresh(c)
      PROVE  AccountsInv'
  <2>1. calls' \in 0 .. MaxCalls
    BY <1>1, <1>3, AccountsAssumption DEF BeginRefresh
  <2>. QED
    BY <1>1, <1>3, <2>1, StepCalling DEF BeginRefresh
<1>4. ASSUME NEW c \in Callers, BeginStart(c)
      PROVE  AccountsInv'
  BY <1>1, <1>4, StepCalling DEF BeginStart
<1>5. ASSUME NEW c \in Callers, CallStep(c)
      PROVE  AccountsInv'
  BY <1>5, StepLoadKey, StepStoreKey, StepLoadAccount, StepRegister, StepPersistAccount,
     StepSavePlace, StepInstallAuthority, StepCallFails
  DEF CallStep
<1>6. CASE ServerStops
  BY <1>6, StepServerStops
<1>7. CASE UNCHANGED accountsVars
  BY <1>7
  DEF accountsVars, AccountsInv, AccountsTypeOK, AccountsAgree, AccountOpens, NothingOrphaned,
      AuthoritySigns, CallsFit, For
<1>. QED
  BY <1>2, <1>3, <1>4, <1>5, <1>6, <1>7 DEF AccountsNext

\* Key, account, CA and authority agree, for any number of calls at once and any failures and
\* stops between their accesses.
THEOREM AccountsStayInAgreement == AccountsSpec => []AccountsAgree
<1>1. AccountsInv => AccountsAgree
  BY DEF AccountsInv
<1>. QED
  BY <1>1, InitAccountsInv, StepAccountsInv, PTL DEF AccountsSpec

-----------------------------------------------------------------------------
(* Roles, API keys and download tokens.                                       *)

\* What a role allows now has been earned, by ea and re.
RoleCounts(u, ro, te, ea, re) == Mintable(ro[u]) \subseteq ea[u] /\ Accessible(ro[u], te[u]) \subseteq re[u]

\* What a request was let in for, or has checked, its user or target has earned.
Deserved(p, ea, re) ==
  /\ p.kind = "insert" => p.scopes \subseteq ea[p.target]
  /\ p.kind \in {"issue", "redeem", "load"} => "export" \in ea[p.user]
  /\ p.kind = "issue" => p.certificate \in re[p.user]

\* A version about to be handed out is for a token spent on it, and on nothing before.
Spent(p, tk, ex) ==
  p.kind = "load" =>
    /\ tk[p.token] # Unissued
    /\ tk[p.token].state = "used"
    /\ tk[p.token].user = p.user /\ tk[p.token].certificate = p.certificate
    /\ ex[p.token] = {}

OneLoad == \A q, r \in Requests : Is(q, "load") /\ Is(r, "load") /\ pending[q].token = pending[r].token => q = r

TokenReaches(t) == token[t] # Unissued => token[t].certificate \in reached[token[t].user]

GrantsInv ==
  /\ GrantsTypeOK
  /\ \A u \in Users : RoleCounts(u, role, team, earned, reached)
  /\ \A r \in Requests : Deserved(pending[r], earned, reached)
  /\ \A r \in Requests : Spent(pending[r], token, exported)
  /\ OneLoad
  /\ \A t \in Tokens : TokenReaches(t)
  /\ GrantsHold

LEMMA InitGrantsInv == GrantsInit => GrantsInv
<1> SUFFICES ASSUME GrantsInit
             PROVE  GrantsInv
  OBVIOUS
<1>. USE DEF GrantsInit
<1>1. role \in [Users -> Roles] /\ team \in [Users -> Teams]
  BY GrantsAssumption DEF Roles
<1>2. \A u \in Users : Mintable(role[u]) \subseteq Scopes /\ Accessible(role[u], team[u]) \subseteq Certificates
  BY <1>1 DEF Mintable, RoleScopes, Scopes, Accessible, Roles
<1>3. GrantsTypeOK
  BY <1>1, <1>2 DEF GrantsTypeOK
<1>4. \A r \in Requests : pending[r].kind = "none"
  BY DEF NoRequestYet
<1>5. \A u \in Users : RoleCounts(u, role, team, earned, reached)
  BY DEF RoleCounts
<1>6. \A r \in Requests : Deserved(pending[r], earned, reached) /\ Spent(pending[r], token, exported)
  BY <1>4 DEF Deserved, Spent
<1>7. OneLoad
  BY <1>4 DEF OneLoad, Is
<1>8. GrantsHold
  BY DEF GrantsHold, KeysAreEarned, ExportedOnce, ExportsAreEarned
<1>. QED
  BY <1>3, <1>5, <1>6, <1>7, <1>8 DEF GrantsInv, TokenReaches

LEMMA PendingKinds ==
  ASSUME NEW p \in Pendings \cup {NoRequestYet}
  PROVE  /\ p.kind = "mint" => p \in [kind: {"mint"}, target: Users, scopes: KeyScopes]
         /\ p.kind = "insert" => p \in [kind: {"insert"}, target: Users, scopes: KeyScopes]
         /\ p.kind = "role" => p \in [kind: {"role"}, target: Users, role: Roles, team: Teams]
         /\ p.kind = "issue" => p \in [kind: {"issue"}, user: Users, certificate: Certificates]
         /\ p.kind \in {"redeem", "load"} =>
              p \in [kind: {"redeem", "load"}, user: Users, certificate: Certificates, token: Tokens]
  BY DEF Pendings, NoRequestYet

\* A step that leaves the tokens alone, ends or advances one request, and takes nothing from
\* what anyone has earned.
LEMMA StepRequest ==
  ASSUME GrantsInv, NEW r \in Requests, NEW rec \in Pendings \cup {NoRequestYet},
         pending' = [pending EXCEPT ![r] = rec], rec.kind # "load",
         UNCHANGED <<token, exported>>,
         GrantsTypeOK',
         \A u \in Users : earned[u] \subseteq earned'[u] /\ reached[u] \subseteq reached'[u],
         \A u \in Users : RoleCounts(u, role', team', earned', reached'),
         Deserved(rec, earned', reached'),
         KeysAreEarned'
  PROVE  GrantsInv'
<1>1. pending'[r] = rec /\ \A q \in Requests \ {r} : pending'[q] = pending[q]
  BY DEF GrantsInv, GrantsTypeOK
<1>2. ASSUME NEW q \in Requests
      PROVE  Deserved(pending'[q], earned', reached') /\ Spent(pending'[q], token', exported')
  <2>1. CASE q = r
    BY <1>1, <2>1 DEF Spent
  <2>2. CASE q # r
    <3>1. PICK p \in Pendings \cup {NoRequestYet} : p = pending[q] /\ p = pending'[q]
      BY <1>1, <2>2 DEF GrantsInv, GrantsTypeOK
    <3>2. Deserved(p, earned, reached) /\ Spent(p, token, exported)
      BY <3>1 DEF GrantsInv
    <3>3. /\ p.kind = "insert" => p.target \in Users
          /\ p.kind \in {"issue", "redeem", "load"} => p.user \in Users
      BY PendingKinds
    <3>4. Deserved(p, earned', reached')
      BY <3>2, <3>3 DEF Deserved
    <3>5. Spent(p, token', exported')
      BY <3>2 DEF Spent
    <3>. QED
      BY <3>1, <3>4, <3>5
  <2>. QED
    BY <2>1, <2>2
<1>3. \A q \in Requests : Is(q, "load")' => q # r /\ Is(q, "load") /\ pending'[q] = pending[q]
  BY <1>1 DEF Is
<1>4. OneLoad'
  BY <1>3 DEF GrantsInv, OneLoad
<1>5. \A t \in Tokens : TokenReaches(t)'
  <2>1. \A t \in Tokens : token[t] # Unissued => token[t].user \in Users
    BY DEF GrantsInv, GrantsTypeOK, Issued
  <2>. QED
    BY <2>1 DEF GrantsInv, TokenReaches
<1>6. ExportedOnce'
  BY <1>3 DEF GrantsInv, GrantsHold, ExportedOnce
<1>7. ExportsAreEarned'
  <2>1. ASSUME NEW t \in Tokens, NEW e \in exported[t]
        PROVE  "export" \in earned'[e[1]] /\ e[2] \in reached'[e[1]]
    <3>1. e[1] \in Users
      BY DEF GrantsInv, GrantsTypeOK
    <3>2. "export" \in earned[e[1]] /\ e[2] \in reached[e[1]]
      BY DEF GrantsInv, GrantsHold, ExportsAreEarned
    <3>. QED
      BY <3>1, <3>2
  <2>. QED
    BY <2>1 DEF ExportsAreEarned
<1>. QED
  BY <1>2, <1>4, <1>5, <1>6, <1>7 DEF GrantsInv, GrantsHold

\* Middleware lets in only who has earned the scope: by the role of now, or by a key.
LEMMA PermittedIsEarned ==
  ASSUME GrantsInv, NEW u \in Users, Permitted(u, "export")
  PROVE  "export" \in earned[u]
<1>1. CASE "export" \in RoleScopes(role[u])
  <2>1. role[u] \in Roles
    BY DEF GrantsInv, GrantsTypeOK
  <2>2. "export" \in Mintable(role[u])
    BY <1>1, <2>1 DEF Mintable, Scopes
  <2>. QED
    BY <2>2 DEF GrantsInv, RoleCounts
<1>2. CASE \E k \in apiKeys : k.user = u /\ "export" \in k.scopes
  BY <1>2 DEF GrantsInv, GrantsHold, KeysAreEarned
<1>. QED
  BY <1>1, <1>2 DEF Permitted

\* A request that comes in or ends, or whose scopes have been checked.
LEMMA StepPending ==
  ASSUME GrantsInv, NEW r \in Requests, NEW rec \in Pendings \cup {NoRequestYet},
         pending' = [pending EXCEPT ![r] = rec], rec.kind # "load",
         UNCHANGED <<role, team, apiKeys, token, minute, minted, exported, earned, reached>>,
         changes' \in Nat,
         Deserved(rec, earned, reached)
  PROVE  GrantsInv'
<1>1. GrantsTypeOK'
  <2>1. pending' \in [Requests -> Pendings \cup {NoRequestYet}]
    BY DEF GrantsInv, GrantsTypeOK
  <2>. QED
    BY <2>1 DEF GrantsInv, GrantsTypeOK
<1>2. \A u \in Users : RoleCounts(u, role', team', earned', reached')
  BY DEF GrantsInv, RoleCounts
<1>3. KeysAreEarned'
  BY DEF GrantsInv, GrantsHold, KeysAreEarned
<1>4. Deserved(rec, earned', reached')
  BY DEF Deserved
<1>5. \A u \in Users : earned[u] \subseteq earned'[u] /\ reached[u] \subseteq reached'[u]
  OBVIOUS
<1>. QED
  BY <1>1, <1>2, <1>3, <1>4, <1>5, StepRequest

LEMMA StepAsk ==
  ASSUME GrantsInv, NEW r \in Requests, NEW u \in Users, Ask(r, u)
  PROVE  GrantsInv'
<1>0. changes \in Nat
  BY DEF GrantsInv, GrantsTypeOK
<1>1. ASSUME NEW target \in Users, NEW scopes \in KeyScopes, AskKey(r, u, target, scopes)
      PROVE  GrantsInv'
  <2>1. PICK rec : rec = [kind |-> "mint", target |-> target, scopes |-> scopes]
    OBVIOUS
  <2>2. rec \in Pendings /\ rec.kind = "mint"
    BY <2>1 DEF Pendings
  <2>3. Deserved(rec, earned, reached)
    BY <2>2 DEF Deserved
  <2>4. /\ pending' = [pending EXCEPT ![r] = rec]
        /\ UNCHANGED <<role, team, apiKeys, token, minute, minted, exported, earned, reached>>
        /\ changes' = changes
    BY <1>1, <2>1 DEF AskKey, LetIn
  <2>. QED
    BY <1>0, <2>2, <2>3, <2>4, StepPending
<1>2. ASSUME NEW target \in Users, NEW newRole \in Roles, NEW newTeam \in Teams,
             AskRole(r, u, target, newRole, newTeam)
      PROVE  GrantsInv'
  <2>1. PICK rec : rec = [kind |-> "role", target |-> target, role |-> newRole, team |-> newTeam]
    OBVIOUS
  <2>2. rec \in Pendings /\ rec.kind = "role"
    BY <2>1 DEF Pendings
  <2>3. Deserved(rec, earned, reached)
    BY <2>2 DEF Deserved
  <2>4. /\ pending' = [pending EXCEPT ![r] = rec]
        /\ UNCHANGED <<role, team, apiKeys, token, minute, minted, exported, earned, reached>>
        /\ changes' = changes + 1
    BY <1>2, <2>1 DEF AskRole, LetIn
  <2>5. changes' \in Nat
    BY <1>0, <2>4
  <2>. QED
    BY <2>2, <2>3, <2>4, <2>5, StepPending
<1>3. ASSUME NEW c \in Certificates, AskToken(r, u, c)
      PROVE  GrantsInv'
  <2>1. PICK rec : rec = [kind |-> "issue", user |-> u, certificate |-> c]
    OBVIOUS
  <2>2. rec \in Pendings /\ rec.kind = "issue" /\ rec.user = u /\ rec.certificate = c
    BY <2>1 DEF Pendings
  <2>3. "export" \in earned[u]
    BY <1>3, PermittedIsEarned DEF AskToken, LetIn
  <2>4. c \in reached[u]
    BY <1>3 DEF AskToken, Accessible, GrantsInv, RoleCounts
  <2>5. Deserved(rec, earned, reached)
    BY <2>2, <2>3, <2>4 DEF Deserved
  <2>6. /\ pending' = [pending EXCEPT ![r] = rec]
        /\ UNCHANGED <<role, team, apiKeys, token, minute, minted, exported, earned, reached>>
        /\ changes' = changes
    BY <1>3, <2>1 DEF AskToken, LetIn
  <2>. QED
    BY <1>0, <2>2, <2>5, <2>6, StepPending
<1>4. ASSUME NEW c \in Certificates, NEW t \in Tokens, AskDownload(r, u, c, t)
      PROVE  GrantsInv'
  <2>1. PICK rec : rec = [kind |-> "redeem", user |-> u, certificate |-> c, token |-> t]
    OBVIOUS
  <2>2. rec \in Pendings /\ rec.kind = "redeem" /\ rec.user = u
    BY <2>1 DEF Pendings
  <2>3. "export" \in earned[u]
    BY <1>4, PermittedIsEarned DEF AskDownload, LetIn
  <2>4. Deserved(rec, earned, reached)
    BY <2>2, <2>3 DEF Deserved
  <2>5. /\ pending' = [pending EXCEPT ![r] = rec]
        /\ UNCHANGED <<role, team, apiKeys, token, minute, minted, exported, earned, reached>>
        /\ changes' = changes
    BY <1>4, <2>1 DEF AskDownload, LetIn
  <2>. QED
    BY <1>0, <2>2, <2>4, <2>5, StepPending
<1>. QED
  BY <1>1, <1>2, <1>3, <1>4 DEF Ask

\* The end of a request deserves nothing.
LEMMA NothingDeserved ==
  /\ NoRequestYet.kind = "none"
  /\ \A ea, re : Deserved(NoRequestYet, ea, re)
  BY DEF NoRequestYet, Deserved

LEMMA StepSetRoleAndTeam ==
  ASSUME GrantsInv, NEW r \in Requests, SetRoleAndTeam(r)
  PROVE  GrantsInv'
<1>1. PICK p \in Pendings \cup {NoRequestYet} : p = pending[r] /\ p.kind = "role"
  BY DEF GrantsInv, GrantsTypeOK, SetRoleAndTeam, Is
<1>2. p.target \in Users /\ p.role \in Roles /\ p.team \in Teams
  BY <1>1, PendingKinds
<1>3. PICK given : given = Mintable(p.role)
  OBVIOUS
<1>4. PICK opened : opened = Accessible(p.role, p.team)
  OBVIOUS
<1>5. /\ role' = [role EXCEPT ![p.target] = p.role]
      /\ team' = [team EXCEPT ![p.target] = p.team]
      /\ earned' = [earned EXCEPT ![p.target] = earned[p.target] \cup given]
      /\ reached' = [reached EXCEPT ![p.target] = reached[p.target] \cup opened]
      /\ pending' = [pending EXCEPT ![r] = NoRequestYet]
      /\ UNCHANGED <<apiKeys, token, minute, minted, changes, exported>>
  BY <1>1, <1>3, <1>4 DEF SetRoleAndTeam, Finish
<1>6. given \subseteq Scopes /\ opened \subseteq Certificates
  BY <1>2, <1>3, <1>4 DEF Mintable, RoleScopes, Scopes, Accessible, Roles
<1>7. GrantsTypeOK'
  <2>1. role' \in [Users -> Roles] /\ team' \in [Users -> Teams]
    BY <1>2, <1>5 DEF GrantsInv, GrantsTypeOK
  <2>2. earned' \in [Users -> SUBSET Scopes]
    BY <1>2, <1>5, <1>6 DEF GrantsInv, GrantsTypeOK
  <2>3. reached' \in [Users -> SUBSET Certificates]
    BY <1>2, <1>5, <1>6 DEF GrantsInv, GrantsTypeOK
  <2>4. pending' \in [Requests -> Pendings \cup {NoRequestYet}]
    BY <1>5 DEF GrantsInv, GrantsTypeOK
  <2>. QED
    BY <1>5, <2>1, <2>2, <2>3, <2>4 DEF GrantsInv, GrantsTypeOK
<1>8. /\ role'[p.target] = p.role /\ team'[p.target] = p.team
      /\ earned'[p.target] = earned[p.target] \cup given
      /\ reached'[p.target] = reached[p.target] \cup opened
      /\ \A u \in Users \ {p.target} : /\ role'[u] = role[u] /\ team'[u] = team[u]
                                       /\ earned'[u] = earned[u] /\ reached'[u] = reached[u]
  BY <1>2, <1>5 DEF GrantsInv, GrantsTypeOK
<1>9. \A u \in Users : earned[u] \subseteq earned'[u] /\ reached[u] \subseteq reached'[u]
  BY <1>8
<1>10. ASSUME NEW u \in Users
       PROVE  RoleCounts(u, role', team', earned', reached')
  <2>1. CASE u = p.target
    BY <1>3, <1>4, <1>8, <2>1 DEF RoleCounts
  <2>2. CASE u # p.target
    <3>1. RoleCounts(u, role, team, earned, reached)
      BY DEF GrantsInv
    <3>. QED
      BY <1>8, <2>2, <3>1 DEF RoleCounts
  <2>. QED
    BY <2>1, <2>2
<1>11. KeysAreEarned'
  <2>1. \A k \in apiKeys : k.user \in Users
    BY DEF GrantsInv, GrantsTypeOK, KeyRows
  <2>. QED
    BY <1>5, <1>9, <2>1 DEF GrantsInv, GrantsHold, KeysAreEarned
<1>12. Deserved(NoRequestYet, earned', reached') /\ NoRequestYet.kind # "load"
  BY NothingDeserved
<1>. QED
  BY <1>5, <1>7, <1>9, <1>10, <1>11, <1>12, StepRequest

LEMMA StepCheckScopes ==
  ASSUME GrantsInv, NEW r \in Requests, CheckScopes(r)
  PROVE  GrantsInv'
<1>1. PICK p \in Pendings \cup {NoRequestYet} : p = pending[r] /\ p.kind = "mint"
  BY DEF GrantsInv, GrantsTypeOK, CheckScopes, Is
<1>2. p.target \in Users /\ p.scopes \in KeyScopes
  BY <1>1, PendingKinds
<1>3. /\ UNCHANGED <<role, team, apiKeys, token, minute, minted, exported, earned, reached>>
      /\ changes' \in Nat
  BY DEF CheckScopes, GrantsInv, GrantsTypeOK
<1>4. CASE p.scopes \subseteq Mintable(role[p.target])
  <2>1. PICK rec : rec = [p EXCEPT !.kind = "insert"]
    OBVIOUS
  <2>2. rec \in Pendings /\ rec.kind = "insert" /\ rec.target = p.target /\ rec.scopes = p.scopes
    <3>1. p \in [kind: {"mint"}, target: Users, scopes: KeyScopes]
      BY <1>1, PendingKinds
    <3>2. rec \in [kind: {"insert"}, target: Users, scopes: KeyScopes]
      BY <2>1, <3>1
    <3>. QED
      BY <2>1, <3>1, <3>2 DEF Pendings
  <2>3. pending' = [pending EXCEPT ![r] = rec]
    BY <1>1, <1>4, <2>1 DEF CheckScopes
  <2>4. Deserved(rec, earned, reached)
    BY <1>2, <1>4, <2>2 DEF Deserved, GrantsInv, RoleCounts
  <2>. QED
    BY <1>3, <2>2, <2>3, <2>4, StepPending
<1>5. CASE ~ (p.scopes \subseteq Mintable(role[p.target]))
  <2>1. pending' = [pending EXCEPT ![r] = NoRequestYet]
    BY <1>1, <1>5 DEF CheckScopes, Finish
  <2>. QED
    BY <1>3, <2>1, NothingDeserved, StepPending
<1>. QED
  BY <1>4, <1>5

LEMMA StepInsertKey ==
  ASSUME GrantsInv, NEW r \in Requests, InsertKey(r)
  PROVE  GrantsInv'
<1>1. PICK p \in Pendings \cup {NoRequestYet} : p = pending[r] /\ p.kind = "insert"
  BY DEF GrantsInv, GrantsTypeOK, InsertKey, Is
<1>2. p.target \in Users /\ p.scopes \in KeyScopes
  BY <1>1, PendingKinds
<1>3. PICK key : key = [user |-> p.target, scopes |-> p.scopes]
  OBVIOUS
<1>4. key \in KeyRows /\ key.user = p.target /\ key.scopes = p.scopes
  BY <1>2, <1>3 DEF KeyRows
<1>5. /\ apiKeys' = apiKeys \cup {key}
      /\ minted' = minted + 1
      /\ pending' = [pending EXCEPT ![r] = NoRequestYet]
      /\ UNCHANGED <<role, team, token, minute, changes, exported, earned, reached>>
  BY <1>1, <1>3 DEF InsertKey, Finish
<1>6. p.scopes \subseteq earned[p.target]
  BY <1>1 DEF GrantsInv, Deserved
<1>7. KeysAreEarned'
  BY <1>4, <1>5, <1>6 DEF GrantsInv, GrantsHold, KeysAreEarned
<1>8. GrantsTypeOK'
  <2>1. pending' \in [Requests -> Pendings \cup {NoRequestYet}]
    BY <1>5 DEF GrantsInv, GrantsTypeOK
  <2>2. apiKeys' \in SUBSET KeyRows /\ minted' \in Nat
    BY <1>4, <1>5 DEF GrantsInv, GrantsTypeOK
  <2>. QED
    BY <1>5, <2>1, <2>2 DEF GrantsInv, GrantsTypeOK
<1>9. \A u \in Users : RoleCounts(u, role', team', earned', reached')
  BY <1>5 DEF GrantsInv, RoleCounts
<1>. QED
  BY <1>5, <1>7, <1>8, <1>9, NothingDeserved, StepRequest

\* A step on one token: no other request is about to hand out a version for it.
LEMMA StepToken ==
  ASSUME GrantsInv, NEW r \in Requests, NEW rec \in Pendings \cup {NoRequestYet}, NEW t \in Tokens,
         pending' = [pending EXCEPT ![r] = rec],
         UNCHANGED <<role, team, apiKeys, earned, reached>>,
         \A s \in Tokens \ {t} : token'[s] = token[s] /\ exported'[s] = exported[s],
         \A q \in Requests \ {r} : Is(q, "load") => pending[q].token # t,
         rec.kind = "load" => rec.token = t,
         GrantsTypeOK',
         Deserved(rec, earned, reached), Spent(rec, token', exported'),
         TokenReaches(t)', ExportedOnce', ExportsAreEarned'
  PROVE  GrantsInv'
<1>1. pending'[r] = rec /\ \A q \in Requests \ {r} : pending'[q] = pending[q]
  BY DEF GrantsInv, GrantsTypeOK
<1>2. ASSUME NEW q \in Requests
      PROVE  Deserved(pending'[q], earned', reached') /\ Spent(pending'[q], token', exported')
  <2>1. CASE q = r
    BY <1>1, <2>1 DEF Deserved
  <2>2. CASE q # r
    <3>1. PICK p \in Pendings \cup {NoRequestYet} : p = pending[q] /\ p = pending'[q]
      BY <1>1, <2>2 DEF GrantsInv, GrantsTypeOK
    <3>2. Deserved(p, earned, reached) /\ Spent(p, token, exported)
      BY <3>1 DEF GrantsInv
    <3>3. p.kind = "load" => p.token \in Tokens \ {t}
      BY <2>2, <3>1, PendingKinds DEF Is
    <3>4. Spent(p, token', exported')
      BY <3>2, <3>3 DEF Spent
    <3>5. Deserved(p, earned', reached')
      BY <3>2 DEF Deserved
    <3>. QED
      BY <3>1, <3>4, <3>5
  <2>. QED
    BY <2>1, <2>2
<1>3. OneLoad'
  <2>1. \A q \in Requests \ {r} : Is(q, "load")' => Is(q, "load") /\ pending'[q] = pending[q]
    BY <1>1 DEF Is
  <2>. QED
    BY <1>1, <2>1 DEF GrantsInv, OneLoad, Is
<1>4. \A s \in Tokens : TokenReaches(s)'
  BY DEF GrantsInv, TokenReaches
<1>5. KeysAreEarned' /\ \A u \in Users : RoleCounts(u, role', team', earned', reached')
  BY DEF GrantsInv, GrantsHold, KeysAreEarned, RoleCounts
<1>. QED
  BY <1>2, <1>3, <1>4, <1>5 DEF GrantsInv, GrantsHold

\* What has been handed out, or is about to be, is for a token that was issued and is spent.
LEMMA UnspentIsUnused ==
  ASSUME GrantsInv, NEW t \in Tokens, token[t] = Unissued \/ token[t].state = "fresh"
  PROVE  exported[t] = {} /\ \A q \in Requests : Is(q, "load") => pending[q].token # t
<1>1. exported[t] = {}
  BY DEF GrantsInv, GrantsHold, ExportedOnce
<1>2. ASSUME NEW q \in Requests, Is(q, "load")
      PROVE  pending[q].token # t
  BY <1>2 DEF GrantsInv, Spent, Is
<1>. QED
  BY <1>1, <1>2

LEMMA StepIssueToken ==
  ASSUME GrantsInv, NEW r \in Requests, NEW t \in Tokens, IssueToken(r, t)
  PROVE  GrantsInv'
<1>1. PICK p \in Pendings \cup {NoRequestYet} : p = pending[r] /\ p.kind = "issue"
  BY DEF GrantsInv, GrantsTypeOK, IssueToken, Is
<1>2. p.user \in Users /\ p.certificate \in Certificates
  BY <1>1, PendingKinds
<1>3. PICK row : row = [state |-> "fresh", user |-> p.user, certificate |-> p.certificate,
                        expires |-> minute + TTL]
  OBVIOUS
<1>4. minute + TTL \in Nat
  BY GrantsAssumption DEF GrantsInv, GrantsTypeOK
<1>5. row \in Issued /\ row.user = p.user /\ row.certificate = p.certificate
  BY <1>2, <1>3, <1>4 DEF Issued
<1>6. /\ token' = [token EXCEPT ![t] = row]
      /\ pending' = [pending EXCEPT ![r] = NoRequestYet]
      /\ UNCHANGED <<role, team, apiKeys, minute, minted, changes, exported, earned, reached>>
  BY <1>1, <1>3 DEF IssueToken, Finish
<1>7. token'[t] = row /\ \A s \in Tokens \ {t} : token'[s] = token[s]
  BY <1>6 DEF GrantsInv, GrantsTypeOK
<1>8. exported[t] = {} /\ \A q \in Requests : Is(q, "load") => pending[q].token # t
  BY UnspentIsUnused DEF IssueToken
<1>9. GrantsTypeOK'
  <2>1. pending' \in [Requests -> Pendings \cup {NoRequestYet}]
    BY <1>6 DEF GrantsInv, GrantsTypeOK
  <2>2. token' \in [Tokens -> Issued \cup {Unissued}]
    BY <1>5, <1>6 DEF GrantsInv, GrantsTypeOK
  <2>. QED
    BY <1>6, <2>1, <2>2 DEF GrantsInv, GrantsTypeOK
<1>10. TokenReaches(t)'
  <2>1. p.certificate \in reached[p.user]
    BY <1>1 DEF GrantsInv, Deserved
  <2>. QED
    BY <1>5, <1>6, <1>7, <2>1 DEF TokenReaches
<1>11. ASSUME NEW s \in Tokens, exported'[s] # {}
       PROVE  /\ token'[s] # Unissued /\ token'[s].state = "used"
              /\ exported'[s] = {<<token'[s].user, token'[s].certificate>>}
              /\ \A q \in Requests : Is(q, "load")' => pending'[q].token # s
  <2>1. s # t /\ token'[s] = token[s] /\ exported'[s] = exported[s]
    BY <1>6, <1>7, <1>8, <1>11
  <2>2. /\ token[s] # Unissued /\ token[s].state = "used"
        /\ exported[s] = {<<token[s].user, token[s].certificate>>}
        /\ \A q \in Requests : Is(q, "load") => pending[q].token # s
    BY <1>11, <2>1 DEF GrantsInv, GrantsHold, ExportedOnce
  <2>3. \A q \in Requests : Is(q, "load")' => Is(q, "load") /\ pending'[q] = pending[q]
    BY <1>6, NothingDeserved DEF Is, GrantsInv, GrantsTypeOK
  <2>. QED
    BY <2>1, <2>2, <2>3
<1>12. ExportedOnce'
  BY <1>11 DEF ExportedOnce
<1>13. ExportsAreEarned'
  BY <1>6 DEF GrantsInv, GrantsHold, ExportsAreEarned
<1>14. Deserved(NoRequestYet, earned, reached) /\ NoRequestYet.kind # "load"
  BY NothingDeserved
<1>15. Spent(NoRequestYet, token', exported')
  BY <1>14 DEF Spent
<1>16. \A s \in Tokens \ {t} : token'[s] = token[s] /\ exported'[s] = exported[s]
  BY <1>6, <1>7
<1>. QED
  BY <1>6, <1>8, <1>9, <1>10, <1>12, <1>13, <1>14, <1>15, <1>16, StepToken

LEMMA StepRedeemToken ==
  ASSUME GrantsInv, NEW r \in Requests, RedeemToken(r)
  PROVE  GrantsInv'
<1>1. PICK p \in Pendings \cup {NoRequestYet} : p = pending[r] /\ p.kind = "redeem"
  BY DEF GrantsInv, GrantsTypeOK, RedeemToken, Is
<1>2. p \in [kind: {"redeem", "load"}, user: Users, certificate: Certificates, token: Tokens]
  BY <1>1, PendingKinds
<1>3. PICK t \in Tokens : t = p.token
  BY <1>2
<1>4. UNCHANGED <<role, team, apiKeys, minute, minted, changes, exported, earned, reached>>
  BY DEF RedeemToken
<1>5. CASE ~ Redeemable(t)
  <2>1. pending' = [pending EXCEPT ![r] = NoRequestYet] /\ token' = token
    BY <1>1, <1>3, <1>5 DEF RedeemToken, Finish
  <2>2. changes' \in Nat
    BY <1>4 DEF GrantsInv, GrantsTypeOK
  <2>. QED
    BY <1>4, <2>1, <2>2, NothingDeserved, StepPending
<1>6. CASE Redeemable(t)
  <2>1. token[t] # Unissued /\ token[t] \in Issued /\ token[t].state = "fresh"
    BY <1>6 DEF Redeemable, GrantsInv, GrantsTypeOK
  <2>2. PICK old \in Issued : old = token[t]
    BY <2>1
  <2>3. PICK row : row = [old EXCEPT !.state = "used"]
    OBVIOUS
  <2>4. /\ row \in Issued /\ row # Unissued
        /\ row.state = "used" /\ row.user = old.user /\ row.certificate = old.certificate
    BY <2>2, <2>3 DEF Issued, Unissued
  <2>5. token' = [token EXCEPT ![t] = row]
    BY <1>1, <1>3, <1>6, <2>2, <2>3 DEF RedeemToken
  <2>6. PICK rec \in Pendings \cup {NoRequestYet} :
          /\ pending' = [pending EXCEPT ![r] = rec]
          /\ \/ rec = NoRequestYet
             \/ /\ rec.kind = "load" /\ rec.token = t
                /\ rec.user = p.user /\ rec.certificate = p.certificate
                /\ old.user = p.user /\ old.certificate = p.certificate
    <3>1. CASE token[t].certificate = p.certificate /\ token[t].user = p.user
      <4>1. PICK rec : rec = [p EXCEPT !.kind = "load"]
        OBVIOUS
      <4>2. rec \in [kind: {"redeem", "load"}, user: Users, certificate: Certificates, token: Tokens]
        BY <1>2, <4>1
      <4>3. /\ rec \in Pendings
            /\ rec.kind = "load" /\ rec.token = t /\ rec.user = p.user /\ rec.certificate = p.certificate
        BY <1>2, <1>3, <4>1, <4>2 DEF Pendings
      <4>4. pending' = [pending EXCEPT ![r] = rec]
        BY <1>1, <1>3, <1>6, <3>1, <4>1 DEF RedeemToken
      <4>. QED
        BY <2>2, <3>1, <4>3, <4>4
    <3>2. CASE ~ (token[t].certificate = p.certificate /\ token[t].user = p.user)
      <4>1. pending' = [pending EXCEPT ![r] = NoRequestYet]
        BY <1>1, <1>3, <1>6, <3>2 DEF RedeemToken, Finish
      <4>. QED
        BY <4>1
    <3>. QED
      BY <3>1, <3>2
  <2>7. token'[t] = row /\ \A s \in Tokens \ {t} : token'[s] = token[s]
    BY <2>5 DEF GrantsInv, GrantsTypeOK
  <2>8. exported[t] = {} /\ \A q \in Requests : Is(q, "load") => pending[q].token # t
    BY <2>1, UnspentIsUnused
  <2>9. GrantsTypeOK'
    <3>1. pending' \in [Requests -> Pendings \cup {NoRequestYet}]
      BY <2>6 DEF GrantsInv, GrantsTypeOK
    <3>2. token' \in [Tokens -> Issued \cup {Unissued}]
      BY <2>4, <2>5 DEF GrantsInv, GrantsTypeOK
    <3>. QED
      BY <1>4, <3>1, <3>2 DEF GrantsInv, GrantsTypeOK
  <2>10. Deserved(rec, earned, reached)
    <3>1. "export" \in earned[p.user]
      BY <1>1 DEF GrantsInv, Deserved
    <3>. QED
      BY <2>6, <3>1, NothingDeserved DEF Deserved
  <2>11. Spent(rec, token', exported')
    BY <1>4, <2>4, <2>6, <2>7, <2>8, NothingDeserved DEF Spent
  <2>12. TokenReaches(t)'
    <3>1. old.certificate \in reached[old.user]
      BY <2>1, <2>2 DEF GrantsInv, TokenReaches
    <3>. QED
      BY <1>4, <2>4, <2>7, <3>1 DEF TokenReaches
  <2>13. ASSUME NEW s \in Tokens, exported'[s] # {}
         PROVE  /\ token'[s] # Unissued /\ token'[s].state = "used"
                /\ exported'[s] = {<<token'[s].user, token'[s].certificate>>}
                /\ \A q \in Requests : Is(q, "load")' => pending'[q].token # s
    <3>1. s # t /\ token'[s] = token[s] /\ exported'[s] = exported[s]
      BY <1>4, <2>7, <2>8, <2>13
    <3>2. /\ token[s] # Unissued /\ token[s].state = "used"
          /\ exported[s] = {<<token[s].user, token[s].certificate>>}
          /\ \A q \in Requests : Is(q, "load") => pending[q].token # s
      BY <2>13, <3>1 DEF GrantsInv, GrantsHold, ExportedOnce
    <3>3. \A q \in Requests \ {r} : pending'[q] = pending[q]
      BY <2>6
    <3>4. pending'[r] = rec
      BY <2>6 DEF GrantsInv, GrantsTypeOK
    <3>5. rec.kind = "load" => rec.token # s
      BY <2>6, <3>1, NothingDeserved
    <3>6. \A q \in Requests : Is(q, "load")' => pending'[q].token # s
      BY <3>2, <3>3, <3>4, <3>5 DEF Is
    <3>. QED
      BY <3>1, <3>2, <3>6
  <2>14. ExportedOnce'
    BY <2>13 DEF ExportedOnce
  <2>15. ExportsAreEarned'
    BY <1>4 DEF GrantsInv, GrantsHold, ExportsAreEarned
  <2>16. \A s \in Tokens \ {t} : token'[s] = token[s] /\ exported'[s] = exported[s]
    BY <1>4, <2>7
  <2>17. rec.kind = "load" => rec.token = t
    BY <2>6, NothingDeserved
  <2>. QED
    BY <1>4, <2>6, <2>8, <2>9, <2>10, <2>11, <2>12, <2>14, <2>15, <2>16, <2>17, StepToken
<1>. QED
  BY <1>5, <1>6

LEMMA StepHandOut ==
  ASSUME GrantsInv, NEW r \in Requests, HandOut(r)
  PROVE  GrantsInv'
<1>1. PICK p \in Pendings \cup {NoRequestYet} : p = pending[r] /\ p.kind = "load"
  BY DEF GrantsInv, GrantsTypeOK, HandOut, Is
<1>2. p \in [kind: {"redeem", "load"}, user: Users, certificate: Certificates, token: Tokens]
  BY <1>1, PendingKinds
<1>3. PICK t \in Tokens : t = p.token
  BY <1>2
<1>4. PICK pair \in Users \X Certificates : pair = <<p.user, p.certificate>>
  BY <1>2
<1>5. /\ token[t] # Unissued /\ token[t].state = "used"
      /\ token[t].user = p.user /\ token[t].certificate = p.certificate
      /\ exported[t] = {}
  BY <1>1, <1>3 DEF GrantsInv, Spent
<1>6. /\ exported' = [exported EXCEPT ![t] = exported[t] \cup {pair}]
      /\ pending' = [pending EXCEPT ![r] = NoRequestYet]
      /\ UNCHANGED <<role, team, apiKeys, token, minute, minted, changes, earned, reached>>
  BY <1>1, <1>3, <1>4 DEF HandOut, Finish
<1>7. /\ exported'[t] = {pair}
      /\ \A s \in Tokens \ {t} : exported'[s] = exported[s]
  BY <1>5, <1>6 DEF GrantsInv, GrantsTypeOK
<1>8. GrantsTypeOK'
  <2>1. pending' \in [Requests -> Pendings \cup {NoRequestYet}]
    BY <1>6 DEF GrantsInv, GrantsTypeOK
  <2>2. exported' \in [Tokens -> SUBSET (Users \X Certificates)]
    BY <1>6 DEF GrantsInv, GrantsTypeOK
  <2>. QED
    BY <1>6, <2>1, <2>2 DEF GrantsInv, GrantsTypeOK
<1>9. \A q \in Requests \ {r} : Is(q, "load") => pending[q].token # t
  BY <1>1, <1>3 DEF GrantsInv, OneLoad, Is
<1>10. \A q \in Requests : Is(q, "load")' => q # r /\ Is(q, "load") /\ pending'[q] = pending[q]
  BY <1>6, NothingDeserved DEF Is, GrantsInv, GrantsTypeOK
<1>11. ASSUME NEW s \in Tokens, exported'[s] # {}
       PROVE  /\ token'[s] # Unissued /\ token'[s].state = "used"
              /\ exported'[s] = {<<token'[s].user, token'[s].certificate>>}
              /\ \A q \in Requests : Is(q, "load")' => pending'[q].token # s
  <2>1. CASE s = t
    <3>1. \A q \in Requests : Is(q, "load")' => pending'[q].token # s
      BY <1>9, <1>10, <2>1
    <3>. QED
      BY <1>4, <1>5, <1>6, <1>7, <2>1, <3>1
  <2>2. CASE s # t
    <3>1. exported'[s] = exported[s]
      BY <1>7, <2>2
    <3>2. /\ token[s] # Unissued /\ token[s].state = "used"
          /\ exported[s] = {<<token[s].user, token[s].certificate>>}
          /\ \A q \in Requests : Is(q, "load") => pending[q].token # s
      BY <1>11, <3>1 DEF GrantsInv, GrantsHold, ExportedOnce
    <3>. QED
      BY <1>6, <1>10, <3>1, <3>2
  <2>. QED
    BY <2>1, <2>2
<1>12. ExportedOnce'
  BY <1>11 DEF ExportedOnce
<1>13. TokenReaches(t)'
  BY <1>6 DEF GrantsInv, TokenReaches
<1>14. ExportsAreEarned'
  <2>1. "export" \in earned[p.user]
    BY <1>1 DEF GrantsInv, Deserved
  <2>2. p.certificate \in reached[p.user]
    BY <1>5 DEF GrantsInv, TokenReaches
  <2>3. "export" \in earned[pair[1]] /\ pair[2] \in reached[pair[1]]
    BY <1>4, <2>1, <2>2
  <2>4. ASSUME NEW s \in Tokens, NEW e \in exported'[s]
        PROVE  "export" \in earned[e[1]] /\ e[2] \in reached[e[1]]
    <3>1. CASE s = t
      BY <1>7, <2>3, <2>4, <3>1
    <3>2. CASE s # t
      BY <1>7, <2>4, <3>2 DEF GrantsInv, GrantsHold, ExportsAreEarned
    <3>. QED
      BY <3>1, <3>2
  <2>. QED
    BY <1>6, <2>4 DEF ExportsAreEarned
<1>15. Deserved(NoRequestYet, earned, reached) /\ NoRequestYet.kind # "load"
  BY NothingDeserved
<1>16. Spent(NoRequestYet, token', exported')
  BY <1>15 DEF Spent
<1>17. \A s \in Tokens \ {t} : token'[s] = token[s] /\ exported'[s] = exported[s]
  BY <1>6, <1>7
<1>. QED
  BY <1>6, <1>8, <1>9, <1>12, <1>13, <1>14, <1>15, <1>16, <1>17, StepToken

LEMMA StepRequestFails ==
  ASSUME GrantsInv, NEW r \in Requests, RequestFails(r)
  PROVE  GrantsInv'
<1>1. /\ pending' = [pending EXCEPT ![r] = NoRequestYet]
      /\ UNCHANGED <<role, team, apiKeys, token, minute, minted, exported, earned, reached>>
      /\ changes' \in Nat
  BY DEF RequestFails, Finish, GrantsInv, GrantsTypeOK
<1>. QED
  BY <1>1, NothingDeserved, StepPending

LEMMA StepGrantsInv == GrantsInv /\ [GrantsNext]_grantsVars => GrantsInv'
<1> SUFFICES ASSUME GrantsInv, [GrantsNext]_grantsVars
             PROVE  GrantsInv'
  OBVIOUS
<1>1. ASSUME NEW r \in Requests, NEW u \in Users, Ask(r, u)
      PROVE  GrantsInv'
  BY <1>1, StepAsk
<1>2. ASSUME NEW r \in Requests, \/ SetRoleAndTeam(r) \/ CheckScopes(r) \/ InsertKey(r)
                                 \/ RedeemToken(r) \/ HandOut(r) \/ RequestFails(r)
      PROVE  GrantsInv'
  BY <1>2, StepSetRoleAndTeam, StepCheckScopes, StepInsertKey, StepRedeemToken, StepHandOut,
     StepRequestFails
<1>3. ASSUME NEW r \in Requests, NEW t \in Tokens, IssueToken(r, t)
      PROVE  GrantsInv'
  BY <1>3, StepIssueToken
<1>4. ASSUME UNCHANGED <<role, team, apiKeys, token, pending, minted, changes, exported, earned, reached>>,
             minute' \in Nat
      PROVE  GrantsInv'
  BY <1>4
  DEF GrantsInv, GrantsTypeOK, GrantsHold, KeysAreEarned, ExportedOnce, ExportsAreEarned,
      OneLoad, TokenReaches, Is
<1>5. CASE MinutePasses
  <2>1. minute' \in Nat
    BY <1>5 DEF MinutePasses, GrantsInv, GrantsTypeOK
  <2>. QED
    BY <1>4, <1>5, <2>1 DEF MinutePasses
<1>6. CASE UNCHANGED grantsVars
  BY <1>4, <1>6 DEF grantsVars, GrantsInv, GrantsTypeOK
<1>. QED
  BY <1>1, <1>2, <1>3, <1>5, <1>6 DEF GrantsNext

\* Keys carry what their users' roles earned, and a token exports once, to whom it was issued
\* and let at the certificate: for any users, teams, requests and changes of role between them.
THEOREM GrantsAreEarned == GrantsSpec => []GrantsHold
<1>1. GrantsInv => GrantsHold
  BY DEF GrantsInv
<1>. QED
  BY <1>1, InitGrantsInv, StepGrantsInv, PTL DEF GrantsSpec

-----------------------------------------------------------------------------
(* All of it side by side.                                                    *)

LEMMA StepParts ==
  [MCNext]_<<integrationsVars, accountsVars, signInVars, grantsVars, part>> =>
    /\ [IntegrationsNext]_integrationsVars
    /\ [AccountsNext]_accountsVars
    /\ [SignInNext]_signInVars
    /\ [GrantsNext]_grantsVars
BY DEF MCNext

\* Whatever is proved of the settings' handlers, NewLetsEncrypt, LocalLoginHandler and the
\* requests that grant by themselves holds of the administration as a whole.
THEOREM PartsStandAlone ==
  MCSpec => IntegrationsSpec /\ AccountsSpec /\ SignInSpec /\ GrantsSpec
<1>1. MCInit => IntegrationsInit /\ AccountsInit /\ SignInInit /\ GrantsInit
  BY DEF MCInit
<1>. QED
  BY <1>1, StepParts, PTL DEF MCSpec, IntegrationsSpec, AccountsSpec, SignInSpec, GrantsSpec

\* Every setting, account, session, role, key and token always holds a value of its type.
THEOREM AdministrationTypeCorrect == MCSpec => []AdministrationTypeOK
<1>1. IntegrationsInv /\ AccountsInv /\ SignInInv /\ GrantsInv => AdministrationTypeOK
  BY DEF IntegrationsInv, AccountsInv, SignInInv, GrantsInv, AdministrationTypeOK
<1>2. AccountsSpec => []AccountsInv
  BY InitAccountsInv, StepAccountsInv, PTL DEF AccountsSpec
<1>3. SignInSpec => []SignInInv
  BY InitSignInInv, StepSignInInv, PTL DEF SignInSpec
<1>4. GrantsSpec => []GrantsInv
  BY InitGrantsInv, StepGrantsInv, PTL DEF GrantsSpec
<1>. QED
  BY <1>1, <1>2, <1>3, <1>4, PartsStandAlone, Inductive, PTL

=============================================================================
