------------------------------- MODULE SignIn -------------------------------
(***************************************************************************)
(* Local sign-in: LocalLoginHandler (internal/auth/password.go),           *)
(* changePassword (internal/api/handlers.go) and the rows they keep in     *)
(* app_user (internal/user/store.go), for the seeded account.              *)
(*                                                                         *)
(* A request reads the row, compares hashes, slow by design, and then      *)
(* writes back what follows from the row it read; requests for one account *)
(* interleave at will.  Both writes of a sign-in are best effort.          *)
(* Abstracted: hashes and tokens; sessions outlast the clock.              *)
(***************************************************************************)
EXTENDS Integers, FiniteSets

CONSTANTS
  Clients,
  Passwords, Weak, Seeded,  \* those one may type; those no one may choose; the one assigned
  MaxFailedLogins,
  LockoutDuration,
  MaxClock, MaxVisits, MaxLosses  \* bounds: time, requests, writes that fail

ASSUME SignInAssumption ==
  /\ Seeded \in Weak /\ Weak \subseteq Passwords
  /\ MaxFailedLogins \in Nat \ {0} /\ LockoutDuration \in Nat \ {0}
  /\ MaxClock \in Nat /\ MaxVisits \in Nat /\ MaxLosses \in Nat

VARIABLES
  user,     \* the row of app_user
  clock,
  visit,    \* visit[c]: the request of client c, with what it read
  entered,  \* clients that hold a session
  visits, losses,
  \* history, read by no action
  streak,   \* wrong passwords since the last right one
  mixed     \* since the last undisturbed reset, requests met or a write was lost

signInVars == <<user, clock, visit, entered, visits, losses, streak, mixed>>

Unlocked == 0
Away == [at |-> "none"]
UserRows == [password: Passwords, mustChange: BOOLEAN, attempts: Nat, lockedUntil: Nat]
Logins == [at: {"login"}, typed: Passwords, read: UserRows]
Changes == [at: {"change"}, chosen: Passwords]

SignInTypeOK ==
  /\ user \in UserRows
  /\ clock \in 0 .. MaxClock
  /\ visit \in [Clients -> {Away} \cup Logins \cup Changes]
  /\ entered \in SUBSET Clients
  /\ visits \in 0 .. MaxVisits
  /\ losses \in 0 .. MaxLosses
  /\ streak \in Nat
  /\ mixed \in BOOLEAN

\* seedDefaultAdmin, at the first start.
SignInInit ==
  /\ user = [password |-> Seeded, mustChange |-> TRUE, attempts |-> 0, lockedUntil |-> Unlocked]
  /\ clock = 0
  /\ visit = [c \in Clients |-> Away]
  /\ entered = {}
  /\ visits = 0
  /\ losses = 0
  /\ streak = 0
  /\ mixed = FALSE

Lose == losses < MaxLosses /\ losses' = losses + 1
Locked(row) == row.lockedUntil # Unlocked /\ clock < row.lockedUntil
Alone(c) == \A b \in Clients \ {c} : visit[b] = Away
Verified(c) == visit[c].typed = visit[c].read.password
\* What a reset leaves to say of the past.
Resets(c) == streak' = 0 /\ mixed' = (mixed /\ ~ Alone(c))

Arrive(c, request) ==
  /\ visit[c] = Away
  /\ visits < MaxVisits /\ visits' = visits + 1
  /\ visit' = [visit EXCEPT ![c] = request]
  /\ mixed' = (mixed \/ ~ Alone(c))
  /\ UNCHANGED <<user, clock, entered, losses, streak>>

-----------------------------------------------------------------------------
(* LocalLoginHandler.                                                         *)

\* A locked account is refused before the password is looked at.
Login(c, typed) ==
  /\ ~ Locked(user)
  /\ Arrive(c, [at |-> "login", typed |-> typed, read |-> user])

\* RecordFailedLogin, counted on the row read before the comparison.
RecordFailedLogin(c) ==
  /\ visit[c].at = "login" /\ ~ Verified(c)
  /\ LET attempts == visit[c].read.attempts + 1 IN
       user' = [user EXCEPT !.attempts = attempts,
                            !.lockedUntil = IF attempts >= MaxFailedLogins THEN clock + LockoutDuration
                                            ELSE Unlocked]
  /\ visit' = [visit EXCEPT ![c] = Away]
  /\ streak' = streak + 1
  /\ UNCHANGED <<clock, entered, visits, losses, mixed>>

\* Its error is dropped.
RecordLost(c) ==
  /\ visit[c].at = "login" /\ ~ Verified(c)
  /\ Lose
  /\ visit' = [visit EXCEPT ![c] = Away]
  /\ streak' = streak + 1
  /\ mixed' = TRUE
  /\ UNCHANGED <<user, clock, entered, visits>>

\* Mutant: the count is left as it was, and only the lock is lifted.
AdmitCounted(c) ==
  /\ visit[c].at = "login" /\ Verified(c)
  /\ user' = [user EXCEPT !.lockedUntil = Unlocked]
  /\ visit' = [visit EXCEPT ![c] = Away]
  /\ entered' = entered \cup {c}
  /\ Resets(c)
  /\ UNCHANGED <<clock, visits, losses>>

\* ResetFailedLogins, and a session.
Admit(c) ==
  /\ visit[c].at = "login" /\ Verified(c)
  /\ user' = [user EXCEPT !.attempts = 0, !.lockedUntil = Unlocked]
  /\ visit' = [visit EXCEPT ![c] = Away]
  /\ entered' = entered \cup {c}
  /\ Resets(c)
  /\ UNCHANGED <<clock, visits, losses>>

\* The reset's error is dropped; the session is issued all the same.
AdmitUnreset(c) ==
  /\ visit[c].at = "login" /\ Verified(c)
  /\ Lose
  /\ visit' = [visit EXCEPT ![c] = Away]
  /\ entered' = entered \cup {c}
  /\ streak' = 0
  /\ mixed' = TRUE
  /\ UNCHANGED <<user, clock, visits>>

-----------------------------------------------------------------------------
(* changePassword, by a client with a session; a lock does not stop it.       *)

ChangePassword(c, typed, chosen) ==
  /\ c \in entered
  /\ typed = user.password
  /\ chosen \in Passwords \ (Weak \cup {typed})
  /\ Arrive(c, [at |-> "change", chosen |-> chosen])

\* SetPassword.
SetPassword(c) ==
  /\ visit[c].at = "change"
  /\ user' = [password |-> visit[c].chosen, mustChange |-> FALSE, attempts |-> 0, lockedUntil |-> Unlocked]
  /\ visit' = [visit EXCEPT ![c] = Away]
  /\ Resets(c)
  /\ UNCHANGED <<clock, entered, visits, losses>>

SetPasswordFails(c) ==
  /\ visit[c].at = "change"
  /\ Lose
  /\ visit' = [visit EXCEPT ![c] = Away]
  /\ UNCHANGED <<user, clock, entered, visits, streak, mixed>>

ClockTicks ==
  /\ clock < MaxClock
  /\ clock' = clock + 1
  /\ UNCHANGED <<user, visit, entered, visits, losses, streak, mixed>>

-----------------------------------------------------------------------------
SignInNext ==
  \/ \E c \in Clients :
       \/ \E typed \in Passwords : Login(c, typed)
       \/ RecordFailedLogin(c)
       \/ RecordLost(c)
       \/ Admit(c)
       \/ AdmitUnreset(c)
       \/ \E typed, chosen \in Passwords : ChangePassword(c, typed, chosen)
       \/ SetPassword(c)
       \/ SetPasswordFails(c)
  \/ ClockTicks

SignInSpec == SignInInit /\ [][SignInNext]_signInVars

-----------------------------------------------------------------------------
(* Properties.                                                                *)

\* "Wrong passwords in a row lock a local account out": the count on file is the length of the
\* row, and an account is locked, for no longer than the lockout, when the row is long enough
\* and not before.
CountIsRight ==
  ~ mixed =>
    /\ user.attempts = streak
    /\ user.lockedUntil # Unlocked <=> streak >= MaxFailedLogins

\* Whatever met or was lost, a lock is never longer than the lockout, and never set on fewer
\* counted attempts than the maximum.
LockIsEarned ==
  /\ user.lockedUntil <= clock + LockoutDuration
  /\ user.lockedUntil # Unlocked => user.attempts >= MaxFailedLogins

\* An account with an assigned password is one that must change it, and the other way round:
\* "a one-time bootstrap step".
AssignedIsTemporary == user.mustChange <=> user.password = Seeded

\* The account says the truth about the sign-ins it has seen.
SignInHolds == CountIsRight /\ LockIsEarned /\ AssignedIsTemporary

=============================================================================
