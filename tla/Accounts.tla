------------------------------ MODULE Accounts ------------------------------
(***************************************************************************)
(* NewLetsEncrypt (internal/ca/letsencrypt.go) and internal/caaccount: the *)
(* ACME account behind the Let's Encrypt authority.  Its private key is in *)
(* Vault, its URL in the database, the account itself at the CA, and the   *)
(* authority in the running server is built from all three.                *)
(*                                                                         *)
(* The same code runs for an edit of the settings, for the rebuild after   *)
(* an edit of the DNS automation, and, before the server listens, at every *)
(* start.  Calls interleave between any two accesses, each access can fail *)
(* or lose its answer, and the server can stop at any point.               *)
(***************************************************************************)
EXTENDS Integers, FiniteSets

CONSTANTS
  Environments,  \* the environments an admin may name
  Directories,   \* the directories
  Callers,       \* calls under way at a time
  NoAccount, NoAuthority,
  MaxCalls, MaxBreaks  \* bounds: edits and rebuilds; failures and stops amid a call

ASSUME AccountsAssumption ==
  /\ NoAccount \notin [ref: Directories \X (Nat \ {0}), directory: Directories]
  /\ NoAccount \notin Directories \X (Nat \ {0})
  /\ NoAuthority \notin [environment: Environments, directory: Directories, key: Nat \ {0},
                         kid: Directories \X (Nat \ {0})]
  /\ MaxCalls \in Nat /\ MaxBreaks \in Nat

VARIABLES
  keyOf,       \* keyOf[e]: the account key on file in Vault
  account,     \* account[e]: the row of ca_account
  registered,  \* the accounts at the CA
  settings,    \* ca_integration_settings, "letsencrypt"
  authority,   \* the authority in the registry
  serving,     \* the server listens
  call,        \* call[c]: what NewLetsEncrypt, called by c, is at
  generated,   \* keys generated so far; a key is its number
  calls, breaks,
  \* history, read by no action
  overlapped,  \* environments for which two calls generated a key at once
  moved        \* environments whose account was found under another directory than asked for

accountsVars == <<keyOf, account, registered, settings, authority, serving, call, generated,
                  calls, breaks, overlapped, moved>>

NoAccountKey == 0
AccountKeys == Nat \ {NoAccountKey}
\* An account URL: the CA knows one account per directory and key.
Refs == Directories \X AccountKeys
Rows == [ref: Refs, directory: Directories]
\* The environment is history: it is what the key was generated for.
Registrations == [ref: Refs, environment: Environments]
Places == [environment: Environments, directory: Directories]
LEAuthority == [environment: Environments, directory: Directories, key: AccountKeys, kid: Refs]

Idle == [at |-> "none"]
CallStages == {"key", "put", "account", "register", "persist", "save", "install"}
CallRecords == [at: CallStages, kind: {"edit", "refresh", "start"}, environment: Environments,
                directory: Directories, key: Nat, kid: Refs \cup {NoAccount}]

AccountsTypeOK ==
  /\ keyOf \in [Environments -> Nat]
  /\ account \in [Environments -> Rows \cup {NoAccount}]
  /\ registered \in SUBSET Registrations
  /\ settings \in Places
  /\ authority \in LEAuthority \cup {NoAuthority}
  /\ serving \in BOOLEAN
  /\ call \in [Callers -> CallRecords \cup {Idle}]
  /\ generated \in Nat
  /\ calls \in 0 .. MaxCalls
  /\ breaks \in 0 .. MaxBreaks
  /\ overlapped \in SUBSET Environments
  /\ moved \in SUBSET Environments

\* The first start, on settings seeded from the environment.
AccountsInit ==
  /\ keyOf = [e \in Environments |-> NoAccountKey]
  /\ account = [e \in Environments |-> NoAccount]
  /\ registered = {}
  /\ settings \in Places
  /\ authority = NoAuthority
  /\ serving = FALSE
  /\ call = [c \in Callers |-> Idle]
  /\ generated = 0
  /\ calls = 0
  /\ breaks = 0
  /\ overlapped = {}
  /\ moved = {}

Break == breaks < MaxBreaks /\ breaks' = breaks + 1

-----------------------------------------------------------------------------
Calling(c, kind, place) ==
  /\ call[c] = Idle
  /\ call' = [call EXCEPT ![c] = [at |-> "key", kind |-> kind, environment |-> place.environment,
                                  directory |-> place.directory, key |-> NoAccountKey, kid |-> NoAccount]]
  /\ UNCHANGED <<keyOf, account, registered, settings, authority, serving, generated, breaks,
                 overlapped, moved>>

\* updateLetsEncryptSettings: what is asked for is tried before it is saved.
BeginEdit(c, place) ==
  /\ serving
  /\ calls < MaxCalls /\ calls' = calls + 1
  /\ Calling(c, "edit", place)

\* refreshLetsEncryptDNS rebuilds the authority from the settings on file.
BeginRefresh(c) ==
  /\ serving
  /\ calls < MaxCalls /\ calls' = calls + 1
  /\ Calling(c, "refresh", settings)

\* main, before anything is served.
BeginStart(c) ==
  /\ ~ serving
  /\ \A b \in Callers : call[b] = Idle
  /\ Calling(c, "start", settings)
  /\ UNCHANGED calls

-----------------------------------------------------------------------------
(* NewLetsEncrypt, access by access.                                          *)

Reached(c, stage) == call[c].at = stage
\* Where a call goes once it knows its account: only an edit has settings to save.
Known(c) == IF call[c].kind = "edit" THEN "save" ELSE "install"
GeneratingToo(c) == \E b \in Callers \ {c} : call[b].at = "put" /\ call[b].environment = call[c].environment

\* loadOrCreateAccountKey: the key on file, or a new one that is yet to be stored.
LoadKey(c) ==
  /\ Reached(c, "key")
  /\ IF keyOf[call[c].environment] # NoAccountKey
     THEN /\ call' = [call EXCEPT ![c].at = "account", ![c].key = keyOf[call[c].environment]]
          /\ UNCHANGED <<generated, overlapped>>
     ELSE /\ call' = [call EXCEPT ![c].at = "put", ![c].key = generated + 1]
          /\ generated' = generated + 1
          /\ overlapped' = IF GeneratingToo(c) THEN overlapped \cup {call[c].environment} ELSE overlapped
  /\ UNCHANGED <<keyOf, account, registered, settings, authority, serving, calls, breaks, moved>>

\* Mutant: an account key that cannot be stored is used all the same.
StoreKeyIfPossible(c) ==
  /\ Reached(c, "put")
  /\ call' = [call EXCEPT ![c].at = "account"]
  /\ \/ keyOf' = [keyOf EXCEPT ![call[c].environment] = call[c].key] /\ UNCHANGED breaks
     \/ Break /\ UNCHANGED keyOf
  /\ UNCHANGED <<account, registered, settings, authority, serving, generated, calls,
                 overlapped, moved>>

StoreKey(c) ==
  /\ Reached(c, "put")
  /\ keyOf' = [keyOf EXCEPT ![call[c].environment] = call[c].key]
  /\ call' = [call EXCEPT ![c].at = "account"]
  /\ UNCHANGED <<account, registered, settings, authority, serving, generated, calls, breaks,
                 overlapped, moved>>

\* The account on file is taken whatever directory it was registered with.
LoadAccount(c) ==
  /\ Reached(c, "account")
  /\ LET row == account[call[c].environment] IN
       IF row = NoAccount
       THEN call' = [call EXCEPT ![c].at = "register"] /\ UNCHANGED moved
       ELSE /\ call' = [call EXCEPT ![c].at = Known(c), ![c].kid = row.ref]
            /\ moved' = IF row.directory = call[c].directory THEN moved
                        ELSE moved \cup {call[c].environment}
  /\ UNCHANGED <<keyOf, account, registered, settings, authority, serving, generated, calls, breaks,
                 overlapped>>

\* newAccount: a key the CA knows gets the account it has.
Register(c) ==
  /\ Reached(c, "register")
  /\ LET ref == <<call[c].directory, call[c].key>> IN
       /\ registered' = registered \cup {[ref |-> ref, environment |-> call[c].environment]}
       /\ call' = [call EXCEPT ![c].at = "persist", ![c].kid = ref]
  /\ UNCHANGED <<keyOf, account, settings, authority, serving, generated, calls, breaks,
                 overlapped, moved>>

\* caaccount.Upsert.
PersistAccount(c) ==
  /\ Reached(c, "persist")
  /\ account' = [account EXCEPT ![call[c].environment] =
                   [ref |-> call[c].kid, directory |-> call[c].directory]]
  /\ call' = [call EXCEPT ![c].at = Known(c)]
  /\ UNCHANGED <<keyOf, registered, settings, authority, serving, generated, calls, breaks,
                 overlapped, moved>>

SavePlace(c) ==
  /\ Reached(c, "save")
  /\ settings' = [environment |-> call[c].environment, directory |-> call[c].directory]
  /\ call' = [call EXCEPT ![c].at = "install"]
  /\ UNCHANGED <<keyOf, account, registered, authority, serving, generated, calls, breaks,
                 overlapped, moved>>

InstallAuthority(c) ==
  /\ Reached(c, "install")
  /\ authority' = [environment |-> call[c].environment, directory |-> call[c].directory,
                   key |-> call[c].key, kid |-> call[c].kid]
  /\ call' = [call EXCEPT ![c] = Idle]
  /\ serving' = TRUE
  /\ UNCHANGED <<keyOf, account, registered, settings, generated, calls, breaks, overlapped, moved>>

\* An access fails, or its answer is lost after it took effect; a start goes on without.
CallFails(c) ==
  /\ call[c] # Idle
  /\ Break
  /\ call' = [call EXCEPT ![c] = Idle]
  /\ serving' = TRUE
  /\ UNCHANGED <<keyOf, account, registered, settings, authority, generated, calls, overlapped, moved>>

ServerStops ==
  /\ serving \/ \E c \in Callers : call[c] # Idle
  /\ IF \E c \in Callers : call[c] # Idle THEN Break ELSE UNCHANGED breaks
  /\ serving' = FALSE
  /\ authority' = NoAuthority
  /\ call' = [c \in Callers |-> Idle]
  /\ UNCHANGED <<keyOf, account, registered, settings, generated, calls, overlapped, moved>>

-----------------------------------------------------------------------------
CallStep(c) ==
  \/ LoadKey(c)
  \/ StoreKey(c)
  \/ LoadAccount(c)
  \/ Register(c)
  \/ PersistAccount(c)
  \/ SavePlace(c)
  \/ InstallAuthority(c)
  \/ CallFails(c)

AccountsNext ==
  \/ \E c \in Callers :
       \/ \E place \in Places : BeginEdit(c, place)
       \/ BeginRefresh(c)
       \/ BeginStart(c)
       \/ CallStep(c)
  \/ ServerStops

AccountsSpec == AccountsInit /\ [][AccountsNext]_accountsVars

-----------------------------------------------------------------------------
(* Properties.                                                                *)

\* The account on file exists at the CA and opens with the key on file.
AccountOpens(e) ==
  account[e] # NoAccount =>
    /\ account[e].ref = <<account[e].directory, keyOf[e]>>
    /\ [ref |-> account[e].ref, environment |-> e] \in registered

\* No account is registered with a key that is not on file: the next call finds it again,
\* wherever the one before was cut off.
NothingOrphaned(e) == \A r \in registered : r.environment = e => r.ref[2] = keyOf[e]

\* The authority signs with the account's key, and talks to the directory that knows it
\* unless the environment was given another directory after it had an account.
AuthoritySigns(e) ==
  authority # NoAuthority /\ authority.environment = e =>
    /\ authority.key = keyOf[e]
    /\ authority.kid[2] = keyOf[e]
    /\ e \notin moved => authority.kid[1] = authority.directory

\* Key, account and authority agree over Vault, the database, the CA and the server, whatever
\* failed or stopped between them, unless two calls generated the environment's first key at once.
AccountsAgree ==
  \A e \in Environments \ overlapped : AccountOpens(e) /\ NothingOrphaned(e) /\ AuthoritySigns(e)

=============================================================================
