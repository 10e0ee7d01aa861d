----------------------------- MODULE Integrations -----------------------------
(***************************************************************************)
(* internal/api/integrations.go and the part of cmd/api/main.go that       *)
(* builds the same things at start: CA and DNS settings that live in three *)
(* places at once -- settings in the database, credentials in Vault, and   *)
(* the authorities built from both in the running server.                  *)
(*                                                                         *)
(* The providers with a credential (ZeroSSL, AD CS, the DNS-01 automation) *)
(* are handled alike; Let's Encrypt has settings only but holds the DNS-01 *)
(* automation it was built with.  Requests interleave between any two      *)
(* accesses; each access can fail, and the server can stop at any point.   *)
(* Abstracted: what the settings say, ACME accounts, self-signed validity. *)
(***************************************************************************)
EXTENDS Integers, FiniteSets

CONSTANTS
  Keyed,      \* providers with a credential
  Optional,   \* those of them that empty settings turn off
  Dns,        \* the DNS-01 automation among these
  LE,         \* letsencrypt
  Options,    \* settings an admin may enter
  Keys,       \* credentials an admin may enter
  Off, NoKey, \* empty settings, empty credential
  Nothing,    \* no authority
  Admins,     \* requests under way at a time
  MaxEdits, MaxFaults  \* bounds

ASSUME IntegrationsAssumption ==
  /\ Optional \subseteq Keyed /\ Dns \in Optional /\ LE \notin Keyed
  /\ Off \notin Options /\ NoKey \notin Keys
  /\ MaxEdits \in Nat /\ MaxFaults \in Nat

VARIABLES
  saved,      \* ca_integration_settings
  vault,      \* the credentials
  live,       \* the registry and the DNS holder: what is built
  up,
  refused,    \* the last start ended in log.Fatal
  request,    \* request[a]: what the handler serving admin a is at
  edits, faults,
  \* history, read by no action
  dirty,      \* providers whose last edit, or the last start, was disturbed or failed half way
  half        \* providers whose settings were saved without the credential entered with them

integrationsVars == <<saved, vault, live, up, refused, request, edits, faults, dirty, half>>

Providers == Keyed \cup {LE}
Settings == Options \cup {Off}
Credentials == Keys \cup {NoKey}
Authorities == (Settings \X Credentials) \cup {Nothing}
LEAuthorities == (Settings \X Authorities) \cup {Nothing}

Accepts(k, settings, key) == k = Dns /\ settings # Off => key # NoKey
TurnsOff(k, settings) == k \in Optional /\ settings = Off
Built(k, settings, key) ==
  IF TurnsOff(k, settings) THEN Nothing ELSE <<settings, key>>

\* A request: the settings and the credential it was sent (NoKey leaves the stored one), the
\* credential it uses, what it builds Let's Encrypt from, and (history) whether it has been
\* alone and without faults.
Stages == {"none", "key", "save", "put", "install", "refresh", "rebuild"}
NoRequest == [at |-> "none", provider |-> LE, settings |-> Off, typed |-> NoKey, key |-> NoKey,
              dns |-> Nothing, clean |-> TRUE]

IntegrationsTypeOK ==
  /\ saved \in [Providers -> Settings]
  /\ vault \in [Keyed -> Credentials]
  /\ \A k \in Keyed : live[k] \in Authorities
  /\ live[LE] \in LEAuthorities
  /\ {up, refused} \subseteq BOOLEAN /\ ~ (up /\ refused)
  /\ request \in [Admins -> [at: Stages, provider: Providers, settings: Settings, typed: Credentials,
                             key: Credentials, dns: Authorities, clean: BOOLEAN]]
  /\ edits \in 0 .. MaxEdits
  /\ faults \in 0 .. MaxFaults
  /\ dirty \in SUBSET Providers
  /\ half \in SUBSET Keyed

\* What a start builds of the settings and the credentials it can read.
Boot(key) ==
  [p \in Providers |-> IF p \in Keyed THEN Built(p, saved[p], key[p])
                       ELSE IF saved[LE] = Off THEN Nothing
                       ELSE <<saved[LE], Built(Dns, saved[Dns], key[Dns])>>]

\* A server that has just started, seeded from the environment or on what it was left with.
IntegrationsInit ==
  /\ saved \in [Providers -> Settings]
  /\ vault \in [Keyed -> Credentials]
  /\ Accepts(Dns, saved[Dns], vault[Dns])
  /\ live = Boot(vault)
  /\ up = TRUE
  /\ refused = FALSE
  /\ request = [a \in Admins |-> NoRequest]
  /\ edits = 0
  /\ faults = 0
  /\ dirty = {}
  /\ half = {}

Fault == faults < MaxFaults /\ faults' = faults + 1

-----------------------------------------------------------------------------
\* Requests that touch the same things: Let's Encrypt depends on the DNS-01 automation.
Related(p, q) == p = q \/ {p, q} \subseteq {Dns, LE}
Rivals(a, p) == {b \in Admins \ {a} : request[b].at # "none" /\ Related(p, request[b].provider)}

\* The request comes in; rivals are not alone any more.
Begin(a, p, settings, typed, stage, dns) ==
  /\ up
  /\ edits < MaxEdits
  /\ edits' = edits + 1
  /\ request[a].at = "none"
  /\ request' = [b \in Admins |->
       IF b = a THEN [at |-> stage, provider |-> p, settings |-> settings, typed |-> typed, key |-> typed,
                      dns |-> dns, clean |-> Rivals(a, p) = {}]
       ELSE IF b \in Rivals(a, p) THEN [request[b] EXCEPT !.clean = FALSE] ELSE request[b]]
  /\ UNCHANGED <<saved, vault, live, up, refused, faults, dirty, half>>

EditKeyed(a, k, settings, typed) ==
  /\ TurnsOff(k, settings) => typed = NoKey
  /\ Begin(a, k, settings, typed,
           IF ~ TurnsOff(k, settings) /\ typed = NoKey THEN "key" ELSE "save", Nothing)

\* NewLetsEncrypt, with the automation of this moment; if it fails the request is over.
EditLE(a, settings) == Begin(a, LE, settings, NoKey, "save", live[Dns])

At(a, stage) == request[a].at = stage
GoTo(a, stage) == request' = [request EXCEPT ![a].at = stage]
End(a) == request' = [request EXCEPT ![a] = NoRequest]
Handling(a) == UNCHANGED <<up, refused, edits>> /\ request[a].at # "none"

\* Mutant: an empty token is not refused.
ReadKeyUnchecked(a) ==
  /\ At(a, "key") /\ Handling(a)
  /\ request' = [request EXCEPT ![a].at = "save", ![a].key = vault[request[a].provider]]
  /\ UNCHANGED <<saved, vault, live, faults, dirty, half>>

\* The credential on file.  NewDNSAutomationWithToken refuses an empty one.
ReadKey(a) ==
  /\ At(a, "key") /\ Handling(a)
  /\ LET r == request[a] IN
       IF Accepts(r.provider, r.settings, vault[r.provider])
       THEN request' = [request EXCEPT ![a].at = "save", ![a].key = vault[r.provider]]
       ELSE End(a)
  /\ UNCHANGED <<saved, vault, live, faults, dirty, half>>

\* A credential that cannot be read is taken for none.
ReadKeyFails(a) ==
  /\ At(a, "key") /\ Handling(a)
  /\ Fault
  /\ LET r == request[a] IN
       IF Accepts(r.provider, r.settings, NoKey)
       THEN request' = [request EXCEPT ![a].at = "save", ![a].key = NoKey, ![a].clean = FALSE]
       ELSE End(a)
  /\ UNCHANGED <<saved, vault, live, dirty, half>>

\* What a request's first write leaves behind.
SettingsSaved(a) ==
  LET r == request[a] IN
    /\ saved' = [saved EXCEPT ![r.provider] = r.settings]
    /\ dirty' = dirty \cup {r.provider}
    /\ half' = IF r.typed # NoKey THEN half \cup {r.provider} ELSE half
    /\ UNCHANGED <<vault, live>>

SaveSettings(a) ==
  /\ At(a, "save") /\ Handling(a)
  /\ SettingsSaved(a)
  /\ GoTo(a, IF request[a].typed # NoKey THEN "put" ELSE "install")
  /\ UNCHANGED faults

\* The database may have committed all the same, and only its answer is lost.
SaveFails(a) ==
  /\ At(a, "save") /\ Handling(a)
  /\ Fault
  /\ End(a)
  /\ SettingsSaved(a) \/ UNCHANGED <<saved, vault, live, dirty, half>>

\* What its second write leaves behind.
KeyStored(a) ==
  /\ vault' = [vault EXCEPT ![request[a].provider] = request[a].typed]
  /\ half' = half \ {request[a].provider}
  /\ UNCHANGED <<saved, live, dirty>>

PutKey(a) ==
  /\ At(a, "put") /\ Handling(a)
  /\ KeyStored(a)
  /\ GoTo(a, "install")
  /\ UNCHANGED faults

\* "settings saved but the token could not be stored" -- or it was, and Vault's answer is lost.
PutFails(a) ==
  /\ At(a, "put") /\ Handling(a)
  /\ Fault
  /\ End(a)
  /\ KeyStored(a) \/ UNCHANGED <<saved, vault, live, dirty, half>>

\* What is clean when a request that has been alone ends well.
Cleaned(a, ps) == dirty' = IF request[a].clean THEN dirty \ ps ELSE dirty \cup ps

\* Mutant: the handler forgets to swap the authority in.
InstallNothing(a) ==
  /\ At(a, "install") /\ Handling(a)
  /\ End(a)
  /\ Cleaned(a, {request[a].provider})
  /\ UNCHANGED <<saved, vault, live, faults, half>>

\* Authorities.Set or Delete, or DNSAutomation.Set, which Let's Encrypt has yet to follow.
Install(a) ==
  /\ At(a, "install") /\ Handling(a)
  /\ LET r == request[a] IN
       /\ live' = [live EXCEPT ![r.provider] =
                     IF r.provider = LE THEN <<r.settings, r.dns>> ELSE Built(r.provider, r.settings, r.key)]
       /\ IF r.provider = Dns
          THEN GoTo(a, "refresh") /\ dirty' = dirty \cup {LE}
          ELSE End(a) /\ Cleaned(a, {r.provider})
  /\ UNCHANGED <<saved, vault, faults, half>>

\* refreshLetsEncryptDNS.
Refresh(a) ==
  /\ At(a, "refresh") /\ Handling(a)
  /\ IF saved[LE] = Off
     THEN End(a) /\ Cleaned(a, {Dns, LE})
     ELSE /\ request' = [request EXCEPT ![a].at = "rebuild", ![a].settings = saved[LE],
                                        ![a].dns = Built(Dns, request[a].settings, request[a].key)]
          /\ UNCHANGED dirty
  /\ UNCHANGED <<saved, vault, live, faults, half>>

\* Mutant: Let's Encrypt is rebuilt with the automation it had.
RebuildUnchanged(a) ==
  /\ At(a, "rebuild") /\ Handling(a)
  /\ live' = [live EXCEPT ![LE] = <<request[a].settings, IF @ = Nothing THEN Nothing ELSE @[2]>>]
  /\ End(a)
  /\ Cleaned(a, {Dns, LE})
  /\ UNCHANGED <<saved, vault, faults, half>>

Rebuild(a) ==
  /\ At(a, "rebuild") /\ Handling(a)
  /\ live' = [live EXCEPT ![LE] = <<request[a].settings, request[a].dns>>]
  /\ End(a)
  /\ Cleaned(a, {Dns, LE})
  /\ UNCHANGED <<saved, vault, faults, half>>

\* Let's Encrypt keeps its previous automation, with a warning, or without one when its settings
\* cannot be decoded.
RefreshFails(a) ==
  /\ At(a, "refresh") \/ At(a, "rebuild")
  /\ Handling(a)
  /\ Fault
  /\ End(a)
  /\ Cleaned(a, {Dns})
  /\ UNCHANGED <<saved, vault, live, half>>

-----------------------------------------------------------------------------
(* The server stops, and starts again.                                        *)

Stop ==
  /\ up
  /\ IF \E a \in Admins : request[a].at # "none" THEN Fault ELSE UNCHANGED faults
  /\ up' = FALSE
  /\ live' = [p \in Providers |-> Nothing]
  /\ request' = [a \in Admins |-> NoRequest]
  /\ UNCHANGED <<saved, vault, refused, edits, dirty, half>>

\* Mutant: a start that succeeds leaves the mark of the one that did not.
StartWithMarkKept(key) ==
  /\ ~ up
  /\ IF Accepts(Dns, saved[Dns], key[Dns])
     THEN up' = TRUE /\ live' = Boot(key) /\ UNCHANGED refused
     ELSE refused' = TRUE /\ UNCHANGED <<up, live>>
  /\ UNCHANGED <<saved, vault, request, edits, half>>

\* main, up to the registry, with the credentials in hand.
StartWith(key) ==
  /\ ~ up
  /\ IF Accepts(Dns, saved[Dns], key[Dns])
     THEN up' = TRUE /\ refused' = FALSE /\ live' = Boot(key)
     ELSE refused' = TRUE /\ UNCHANGED <<up, live>>
  /\ UNCHANGED <<saved, vault, request, edits, half>>

Start ==
  /\ StartWith(vault)
  /\ dirty' = {}
  /\ UNCHANGED faults

\* Vault fails some of the reads: a credential that cannot be read is taken for none.
StartWithoutKeys(ks) ==
  /\ Fault
  /\ StartWith([k \in Keyed |-> IF k \in ks THEN NoKey ELSE vault[k]])
  /\ dirty' = ks

\* Let's Encrypt cannot be reached: it is left out of the registry.
StartWithoutLE ==
  /\ ~ up
  /\ Fault
  /\ Accepts(Dns, saved[Dns], vault[Dns])
  /\ up' = TRUE
  /\ refused' = FALSE
  /\ live' = [Boot(vault) EXCEPT ![LE] = Nothing]
  /\ dirty' = {LE}
  /\ UNCHANGED <<saved, vault, request, edits, half>>

-----------------------------------------------------------------------------
Handle(a) ==
  \/ ReadKey(a)
  \/ ReadKeyFails(a)
  \/ SaveSettings(a)
  \/ SaveFails(a)
  \/ PutKey(a)
  \/ PutFails(a)
  \/ Install(a)
  \/ Refresh(a)
  \/ Rebuild(a)
  \/ RefreshFails(a)

IntegrationsNext ==
  \/ \E a \in Admins :
       \/ \E k \in Keyed, s \in Settings, t \in Credentials : EditKeyed(a, k, s, t)
       \/ \E s \in Options : EditLE(a, s)
       \/ Handle(a)
  \/ Stop
  \/ Start
  \/ \E ks \in SUBSET Keyed \ {{}} : StartWithoutKeys(ks)
  \/ StartWithoutLE

IntegrationsSpec == IntegrationsInit /\ [][IntegrationsNext]_integrationsVars

-----------------------------------------------------------------------------
(* Properties.                                                                *)

\* "The database ... is the source of truth": what runs is what the next start will build,
\* unless the last edit of that provider met a rival or a fault on its way -- and then one
\* undisturbed edit, or a start, sets it right.
LiveMatchesSaved ==
  up => \A k \in Keyed \ dirty : live[k] = Built(k, saved[k], vault[k])

\* The same for Let's Encrypt, which must hold the automation that is installed.
LetsEncryptFollowsDNS ==
  up /\ LE \notin dirty =>
    live[LE] = IF saved[LE] = Off THEN Nothing ELSE <<saved[LE], live[Dns]>>

\* Every provider is served by the authority its settings and credential on file describe.
LiveIsCurrent == LiveMatchesSaved /\ LetsEncryptFollowsDNS

\* An edit accepts nothing the next start refuses: only one cut off between its two writes
\* leaves a provider on file without a credential.
RefusedOnlyByHalfAnEdit ==
  ~ Accepts(Dns, saved[Dns], vault[Dns]) => Dns \in half

=============================================================================
