\* Two requests at a time of every kind.  Integrations: two edits of a provider with a credential,
\* the DNS-01 automation and Let's Encrypt, one fault, and restarts.
CONSTANTS
  Keyed = {zerossl, dns01}
  Optional = {dns01}
  Dns = dns01
  LE = letsencrypt
  Options = {o1}
  Keys = {k1, k2}
  Off = Off
  NoKey = NoKey
  Nothing = Nothing
  Admins = {a1, a2}
  MaxEdits = 2
  MaxFaults = 1
\* Accounts: two environments and directories, two edits or rebuilds next to every start, two
\* failures or stops amid a call.
CONSTANTS
  Environments = {staging, production}
  Directories = {d1, d2}
  Callers = {caller1, caller2}
  NoAccount = NoAccount
  NoAuthority = NoAuthority
  MaxCalls = 2
  MaxBreaks = 2
\* Sign-in: twice as many requests as lock the account, a lock that runs out, one lost write.
CONSTANTS
  Clients = {client1, client2}
  Passwords = {admin, p1, p2}
  Weak = {admin}
  Seeded = admin
  MaxFailedLogins = 3
  LockoutDuration = 1
  MaxClock = 2
  MaxVisits = 6
  MaxLosses = 1
\* Grants: a promotion and a demotion, one key, one token that may expire.
CONSTANTS
  unassigned = unassigned
  theirs = theirs
  site = site
  Users = {boss, colleague}
  Teams = {unassigned, theirs}
  FirstAdmin = boss
  Home = unassigned
  Certificates = {site}
  OwningTeam <- MCOwningTeam
  Requests = {r1, r2}
  KeyScopes <- MCKeyScopes
  Tokens = {token1}
  TTL = 1
  MaxMinted = 1
  MaxChanges = 2
  LastMinute = 1
SPECIFICATION MCSpec
SYMMETRY MCSymmetry
INVARIANT AdministrationTypeOK
INVARIANT LiveIsCurrent
INVARIANT RefusedOnlyByHalfAnEdit
INVARIANT AccountsAgree
INVARIANT SignInHolds
INVARIANT GrantsHold
CHECK_DEADLOCK FALSE
