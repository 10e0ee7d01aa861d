------------------------------- MODULE Grants -------------------------------
(***************************************************************************)
(* What a user may do, and what outlives it: roles and teams, the API keys *)
(* minted on them (internal/apikey, internal/auth/rbac.go, createAPIKey),  *)
(* and the single-use tokens that a certificate's key material is exported *)
(* with (internal/downloadtoken, issueDownloadToken, downloadCertificate). *)
(*                                                                         *)
(* Every request is let in by Middleware with the identity of that moment, *)
(* and acts on it one access after another, while roles change under it.   *)
(* Keys are never revoked and the code has no way to: a key keeps the      *)
(* scopes it was minted with.  Abstracted: an account's other fields, and  *)
(* that a session ends.                                                    *)
(***************************************************************************)
EXTENDS Integers, FiniteSets

CONSTANTS
  Users, Teams,
  FirstAdmin,     \* the seeded account
  Home,           \* what a new account has for a team: none
  Certificates,
  OwningTeam,     \* OwningTeam[c]: the team that owns c
  Requests,       \* requests under way at a time
  KeyScopes,      \* the sets of scopes a key may be asked for with
  Tokens,         \* download tokens that may be issued
  TTL,            \* how long one is good for
  MaxMinted, MaxChanges, LastMinute  \* bounds: keys, role changes, time

ASSUME GrantsAssumption ==
  /\ FirstAdmin \in Users /\ Home \in Teams
  /\ OwningTeam \in [Certificates -> Teams]
  /\ KeyScopes \subseteq SUBSET {"read", "export", "issue", "admin"}
  /\ TTL \in Nat \ {0}
  /\ MaxMinted \in Nat /\ MaxChanges \in Nat /\ LastMinute \in Nat

VARIABLES
  role, team,   \* role[u] and team[u] in app_user
  apiKeys,      \* api_key: whose each key is, and its scopes
  token,        \* token[t]: the row of download_token
  pending,      \* pending[r]: the request r, let in
  minute,
  minted, changes,
  exported,     \* versions handed out: to whom, of what, for which token
  \* history, read by no action
  earned,       \* earned[u]: scopes u's roles have allowed a key of u to carry
  reached       \* reached[u]: certificates u's roles and teams have let u act on

grantsVars == <<role, team, apiKeys, token, pending, minute, minted, changes, exported, earned, reached>>

Roles == {"viewer", "cert_manager", "admin", "api_only"}
Scopes == {"read", "export", "issue", "admin"}

RoleScopes(r) ==
  CASE r = "viewer" -> {"read"}
    [] r = "cert_manager" -> {"read", "export", "issue"}
    [] r = "admin" -> Scopes
    [] r = "api_only" -> {}

\* What a key may carry; that of a service account anything.
Mintable(r) == IF r = "api_only" THEN Scopes ELSE RoleScopes(r)

CanAccessTeam(r, t, owner) == r \in {"admin", "api_only"} \/ t = owner
Accessible(r, t) == {c \in Certificates : CanAccessTeam(r, t, OwningTeam[c])}

Unissued == [state |-> "unissued"]
Issued == [state: {"fresh", "used"}, user: Users, certificate: Certificates, expires: Nat]
NoRequestYet == [kind |-> "none"]
KeyRows == [user: Users, scopes: KeyScopes]
Pendings ==
  [kind: {"mint"}, target: Users, scopes: KeyScopes]
  \cup [kind: {"insert"}, target: Users, scopes: KeyScopes]
  \cup [kind: {"role"}, target: Users, role: Roles, team: Teams]
  \cup [kind: {"issue"}, user: Users, certificate: Certificates]
  \cup [kind: {"redeem", "load"}, user: Users, certificate: Certificates, token: Tokens]

GrantsTypeOK ==
  /\ role \in [Users -> Roles]
  /\ team \in [Users -> Teams]
  /\ apiKeys \in SUBSET KeyRows
  /\ token \in [Tokens -> Issued \cup {Unissued}]
  /\ pending \in [Requests -> Pendings \cup {NoRequestYet}]
  /\ minute \in Nat /\ minted \in Nat /\ changes \in Nat
  /\ exported \in [Tokens -> SUBSET (Users \X Certificates)]
  /\ earned \in [Users -> SUBSET Scopes]
  /\ reached \in [Users -> SUBSET Certificates]

\* The seeded administrator, and people who signed in for the first time: viewers of no
\* team to speak of.
GrantsInit ==
  /\ role = [u \in Users |-> IF u = FirstAdmin THEN "admin" ELSE "viewer"]
  /\ team = [u \in Users |-> Home]
  /\ apiKeys = {}
  /\ token = [t \in Tokens |-> Unissued]
  /\ pending = [r \in Requests |-> NoRequestYet]
  /\ minute = 0 /\ minted = 0 /\ changes = 0
  /\ exported = [t \in Tokens |-> {}]
  /\ earned = [u \in Users |-> Mintable(role[u])]
  /\ reached = [u \in Users |-> Accessible(role[u], team[u])]

-----------------------------------------------------------------------------
(* Middleware and RequireScope: a session has the scopes of the row as it is  *)
(* now, a key those it was minted with.                                       *)

Permitted(u, scope) ==
  \/ scope \in RoleScopes(role[u])
  \/ \E k \in apiKeys : k.user = u /\ scope \in k.scopes

LetIn(r, u, scope, request) ==
  /\ pending[r] = NoRequestYet
  /\ Permitted(u, scope)
  /\ pending' = [pending EXCEPT ![r] = request]
  /\ UNCHANGED <<role, team, apiKeys, token, minute, minted, exported, earned, reached>>

AskKey(r, u, target, scopes) ==
  LetIn(r, u, "admin", [kind |-> "mint", target |-> target, scopes |-> scopes]) /\ UNCHANGED changes

AskRole(r, u, target, newRole, newTeam) ==
  /\ changes < MaxChanges /\ changes' = changes + 1
  /\ LetIn(r, u, "admin", [kind |-> "role", target |-> target, role |-> newRole, team |-> newTeam])

\* loadCertificateForTeam, with the identity of the request; a certificate's team never changes.
AskToken(r, u, c) ==
  /\ CanAccessTeam(role[u], team[u], OwningTeam[c])
  /\ LetIn(r, u, "export", [kind |-> "issue", user |-> u, certificate |-> c]) /\ UNCHANGED changes

AskDownload(r, u, c, t) ==
  /\ token[t] # Unissued
  /\ LetIn(r, u, "export", [kind |-> "redeem", user |-> u, certificate |-> c, token |-> t])
  /\ UNCHANGED changes

Is(r, kind) == pending[r].kind = kind
Finish(r) == pending' = [pending EXCEPT ![r] = NoRequestYet]

-----------------------------------------------------------------------------
(* The handlers.                                                              *)

\* setUserRole.
SetRoleAndTeam(r) ==
  /\ Is(r, "role")
  /\ LET p == pending[r] IN
       /\ role' = [role EXCEPT ![p.target] = p.role]
       /\ team' = [team EXCEPT ![p.target] = p.team]
       /\ earned' = [earned EXCEPT ![p.target] = @ \cup Mintable(p.role)]
       /\ reached' = [reached EXCEPT ![p.target] = @ \cup Accessible(p.role, p.team)]
  /\ Finish(r)
  /\ UNCHANGED <<apiKeys, token, minute, minted, changes, exported>>

\* Mutant: the scopes are not held against the target's role.
CheckNoScopes(r) ==
  /\ Is(r, "mint")
  /\ pending' = [pending EXCEPT ![r].kind = "insert"]
  /\ UNCHANGED <<role, team, apiKeys, token, minute, minted, changes, exported, earned, reached>>

\* createAPIKey reads the target's role and checks the scopes against it...
CheckScopes(r) ==
  /\ Is(r, "mint")
  /\ IF pending[r].scopes \subseteq Mintable(role[pending[r].target])
     THEN pending' = [pending EXCEPT ![r].kind = "insert"]
     ELSE Finish(r)
  /\ UNCHANGED <<role, team, apiKeys, token, minute, minted, changes, exported, earned, reached>>

\* ... and inserts the key, whatever the role is by then.
InsertKey(r) ==
  /\ Is(r, "insert")
  /\ minted < MaxMinted /\ minted' = minted + 1
  /\ apiKeys' = apiKeys \cup {[user |-> pending[r].target, scopes |-> pending[r].scopes]}
  /\ Finish(r)
  /\ UNCHANGED <<role, team, token, minute, changes, exported, earned, reached>>

IssueToken(r, t) ==
  /\ Is(r, "issue")
  /\ token[t] = Unissued
  /\ token' = [token EXCEPT ![t] = [state |-> "fresh", user |-> pending[r].user,
                                    certificate |-> pending[r].certificate, expires |-> minute + TTL]]
  /\ Finish(r)
  /\ UNCHANGED <<role, team, apiKeys, minute, minted, changes, exported, earned, reached>>

Redeemable(t) == token[t] # Unissued /\ token[t].state = "fresh" /\ minute < token[t].expires

\* Redeem, one UPDATE; then a token for another user or certificate is refused, and spent.
RedeemToken(r) ==
  /\ Is(r, "redeem")
  /\ LET p == pending[r] IN
       IF Redeemable(p.token)
       THEN /\ token' = [token EXCEPT ![p.token].state = "used"]
            /\ IF token[p.token].certificate = p.certificate /\ token[p.token].user = p.user
               THEN pending' = [pending EXCEPT ![r].kind = "load"]
               ELSE Finish(r)
       ELSE Finish(r) /\ UNCHANGED token
  /\ UNCHANGED <<role, team, apiKeys, minute, minted, changes, exported, earned, reached>>

\* LatestVersion, and the answer.
HandOut(r) ==
  /\ Is(r, "load")
  /\ exported' = [exported EXCEPT ![pending[r].token] = @ \cup {<<pending[r].user, pending[r].certificate>>}]
  /\ Finish(r)
  /\ UNCHANGED <<role, team, apiKeys, token, minute, minted, changes, earned, reached>>

\* Any access fails, or the server stops: the request is over, and what it did stays.
RequestFails(r) ==
  /\ pending[r] # NoRequestYet
  /\ Finish(r)
  /\ UNCHANGED <<role, team, apiKeys, token, minute, minted, changes, exported, earned, reached>>

MinutePasses ==
  /\ minute < LastMinute
  /\ minute' = minute + 1
  /\ UNCHANGED <<role, team, apiKeys, token, pending, minted, changes, exported, earned, reached>>

-----------------------------------------------------------------------------
Ask(r, u) ==
  \/ \E target \in Users, scopes \in KeyScopes : AskKey(r, u, target, scopes)
  \/ \E target \in Users, newRole \in Roles, newTeam \in Teams : AskRole(r, u, target, newRole, newTeam)
  \/ \E c \in Certificates : AskToken(r, u, c)
  \/ \E c \in Certificates, t \in Tokens : AskDownload(r, u, c, t)

GrantsNext ==
  \/ \E r \in Requests :
       \/ \E u \in Users : Ask(r, u)
       \/ SetRoleAndTeam(r)
       \/ CheckScopes(r)
       \/ InsertKey(r)
       \/ \E t \in Tokens : IssueToken(r, t)
       \/ RedeemToken(r)
       \/ HandOut(r)
       \/ RequestFails(r)
  \/ MinutePasses

GrantsSpec == GrantsInit /\ [][GrantsNext]_grantsVars

-----------------------------------------------------------------------------
(* Properties.                                                                *)

\* "createAPIKey never grants a scope beyond what the target user's own role already earns":
\* a role it has had, for the role may change between the check and the insert.
KeysAreEarned == \A k \in apiKeys : k.scopes \subseteq earned[k.user]

\* A token exports one certificate once, to the user it was issued to.
ExportedOnce ==
  \A t \in Tokens : exported[t] # {} =>
    /\ token[t] # Unissued /\ token[t].state = "used"
    /\ exported[t] = {<<token[t].user, token[t].certificate>>}
    /\ \A r \in Requests : Is(r, "load") => pending[r].token # t

\* Whoever exports was at some time let at the certificate and earned the scope, by roles and
\* teams an administrator gave, though neither may be so any more.
ExportsAreEarned ==
  \A t \in Tokens : \A e \in exported[t] : "export" \in earned[e[1]] /\ e[2] \in reached[e[1]]

\* What keys and tokens allow after roles have changed was allowed before.
GrantsHold == KeysAreEarned /\ ExportedOnce /\ ExportsAreEarned

=============================================================================
