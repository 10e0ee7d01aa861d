------------------------------ MODULE Lifecycle ------------------------------
(***************************************************************************)
(* internal/api/handlers.go on top of the order service: revocation (one   *)
(* certificate, or each of a bulk request) and the import of certificates  *)
(* issued elsewhere, while orders and renewals (module Orders) run.        *)
(*                                                                         *)
(* A revocation is a process r.  It loads the row, asks the authority to   *)
(* revoke, and marks the row; renewals and other revocations run between   *)
(* any two of these.  revokeCertificate asks the authority itself and then *)
(* calls revokeOne, which asks again; bulkRevoke calls revokeOne only.     *)
(*                                                                         *)
(* What the authorities do with a revocation: Let's Encrypt takes the PEM  *)
(* and refuses a certificate that is revoked already; ZeroSSL takes the    *)
(* ca_reference of the row as loaded, and may or may not accept a second   *)
(* request (an assumption: the code forwards whatever it answers); AD CS   *)
(* always refuses; self-signed has nothing to revoke and accepts.  An      *)
(* imported certificate has the provider "manual", which is never          *)
(* registered; Let's Encrypt and AD CS may be missing from the registry too*)
(* (failed registration at start, unconfigured).                           *)
(***************************************************************************)
EXTENDS Orders

CONSTANTS
  Revokers,   \* concurrent revocations
  CutShort,   \* whether revocations may be cut short by faults
  InUse       \* the providers the certificates of this installation may have

Providers == {"letsencrypt", "zerossl", "adcs", "selfsigned", "manual"}

ASSUME LifecycleAssumption == CutShort \in BOOLEAN /\ InUse \subseteq Providers

VARIABLES
  provider,   \* provider[c]: ca_provider of c's row; fixed when the row is made
  dead,       \* serials revoked at their CA
  rpc,        \* rpc[r]: how far the revocation r has come
  loaded,     \* loaded[r]: the row as r loaded it: id, and the serial its ca_reference stands for
  pem,        \* pem[r]: the serial of the PEM r read last
  \* history, read by no action
  crossed,    \* certificates a renewal was filed for while a revocation of them was under way
  bypassed,   \* certificates marked revoked without their authority being asked
  stranded    \* certificates whose revocation ended between the CA's doing and the mark

revocationVars == <<dead, rpc, loaded, pem, bypassed, stranded>>
lifecycleVars == <<vars, provider, revocationVars, crossed>>

NoRowLoaded == [cert |-> NoCert, ref |-> NoSerial]

LifecycleTypeOK ==
  /\ TypeOK
  /\ provider \in [Certs -> InUse]
  /\ dead \in SUBSET Serials
  /\ rpc \in [Revokers -> {"idle", "first", "ask first", "second", "ask second", "mark"}]
  /\ loaded \in [Revokers -> [cert: Link, ref: Serials \cup {NoSerial}]]
  /\ pem \in [Revokers -> Serials \cup {NoSerial}]
  /\ crossed \in SUBSET Certs
  /\ bypassed \in SUBSET Certs
  /\ stranded \in SUBSET Certs
  /\ \A r \in Revokers : rpc[r] # "idle" <=> loaded[r].cert \in Certs

LifecycleInit ==
  /\ Init
  /\ provider \in [Certs -> InUse]
  /\ dead = {}
  /\ rpc = [r \in Revokers |-> "idle"]
  /\ loaded = [r \in Revokers |-> NoRowLoaded]
  /\ pem = [r \in Revokers |-> NoSerial]
  /\ crossed = {}
  /\ bypassed = {}
  /\ stranded = {}

-----------------------------------------------------------------------------
(* Orders, and their renewals, next to the revocations.                       *)

\* A CA keeps a record of what is revoked.
AtCA(c) == provider[c] \in {"letsencrypt", "zerossl"}

Revoking(c) == \E r \in Revokers : loaded[r].cert = c

\* An order for "manual" fails in Create and CreateRenewal: the provider is unknown.
OrderStep ==
  /\ Next
  /\ \A c \in Certs : provider[c] = "manual" =>
       /\ certificate'[c] = certificate[c]
       /\ \A o \in Orders : origin'[o] # c
  /\ crossed' = crossed \cup {c \in Certs : versions'[c] # versions[c] /\ Revoking(c)}
  /\ UNCHANGED <<provider, revocationVars>>

\* bulkImport: an uploaded certificate, from elsewhere or one this system knows already,
\* is filed as a new row whatever other rows hold it.
Import(c, s, status) ==
  /\ provider[c] = "manual"
  /\ s \in 1 .. signed + 1
  /\ FinalizeNewCertificate(c, s, status)
  /\ signed' = IF s > signed THEN s ELSE signed
  /\ UNCHANGED <<order, pc, target, snap, serial, ledger, origin, claims, overtaken, raced, faults,
                 provider, revocationVars, crossed>>

-----------------------------------------------------------------------------
(* Revocation.                                                                *)

RGoto(r, l) == rpc' = [rpc EXCEPT ![r] = l]

RReturn(r) ==
  /\ RGoto(r, "idle")
  /\ loaded' = [loaded EXCEPT ![r] = NoRowLoaded]
  /\ pem' = [pem EXCEPT ![r] = NoSerial]

Asks(r) == rpc[r] \in {"ask first", "ask second"}
Past(r) == IF rpc[r] \in {"first", "ask first"} THEN "second" ELSE "mark"

\* What the authority of r's certificate is told to revoke.
Subject(r) == IF provider[loaded[r].cert] = "zerossl" THEN loaded[r].ref ELSE pem[r]

\* History: r's call ends although the CA has revoked what the row shows.
NoteStranded(r, gone) ==
  stranded' = IF certificate[loaded[r].cert].serial \in gone /\ certificate[loaded[r].cert].status # "revoked"
              THEN stranded \cup {loaded[r].cert} ELSE stranded

\* Mutants of this section's definitions, for the mutation checks only.
LoadToMark(r, c, from) ==
  /\ rpc[r] = "idle"
  /\ Exists(c)
  /\ RGoto(r, "mark")
  /\ loaded' = [loaded EXCEPT ![r] = [cert |-> c, ref |-> certificate[c].serial]]
  /\ UNCHANGED <<vars, provider, dead, pem, crossed, bypassed, stranded>>
MarkForgotten(r) ==
  /\ rpc[r] = "mark"
  /\ RReturn(r)
  /\ UNCHANGED <<vars, provider, dead, crossed, bypassed, stranded>>

\* revokeCertificate starts with the authority ("first"), an item of bulkRevoke with
\* revokeOne ("second").  The row's status is not looked at.
LoadForRevoke(r, c, from) ==
  /\ rpc[r] = "idle"
  /\ Exists(c)
  /\ RGoto(r, from)
  /\ loaded' = [loaded EXCEPT ![r] = [cert |-> c, ref |-> certificate[c].serial]]
  /\ UNCHANGED <<vars, provider, dead, pem, crossed, bypassed, stranded>>

\* The provider is not in the registry: the authority is left out.
Bypass(r) ==
  /\ rpc[r] \in {"first", "second"}
  /\ provider[loaded[r].cert] \in {"letsencrypt", "adcs", "manual"}
  /\ RGoto(r, Past(r))
  /\ bypassed' = bypassed \cup {loaded[r].cert}
  /\ UNCHANGED <<vars, provider, dead, loaded, pem, crossed, stranded>>

ReadLatest(r) ==
  /\ rpc[r] \in {"first", "second"}
  /\ provider[loaded[r].cert] # "manual"
  /\ pem' = [pem EXCEPT ![r] = LatestVersion(loaded[r].cert)]
  /\ RGoto(r, IF rpc[r] = "first" THEN "ask first" ELSE "ask second")
  /\ UNCHANGED <<vars, provider, dead, loaded, crossed, bypassed, stranded>>

\* The CA revokes and says so.
CARevokes(r) ==
  /\ Asks(r)
  /\ \/ provider[loaded[r].cert] = "selfsigned" /\ UNCHANGED dead
     \/ provider[loaded[r].cert] = "letsencrypt" /\ Subject(r) \notin dead /\ dead' = dead \cup {Subject(r)}
     \/ provider[loaded[r].cert] = "zerossl" /\ dead' = dead \cup {Subject(r)}
  /\ RGoto(r, Past(r))
  /\ UNCHANGED <<vars, provider, loaded, pem, crossed, bypassed, stranded>>

\* The CA refuses: what is revoked already, or anything (AD CS).  The request ends.
CARefuses(r) ==
  /\ Asks(r)
  /\ \/ provider[loaded[r].cert] = "adcs"
     \/ AtCA(loaded[r].cert) /\ Subject(r) \in dead
  /\ NoteStranded(r, dead)
  /\ RReturn(r)
  /\ UNCHANGED <<vars, provider, dead, crossed, bypassed>>

MarkRevoked(r) ==
  /\ rpc[r] = "mark"
  /\ Revoke(loaded[r].cert)
  /\ RReturn(r)
  /\ UNCHANGED <<orderVars, provider, dead, crossed, bypassed, stranded>>

\* A fault ends the request: the CA cannot be reached, a database access fails, the client
\* goes away, the server crashes.  A request that had reached the CA may have been carried out.
RevocationFails(r) ==
  /\ CutShort
  /\ rpc[r] # "idle"
  /\ \/ UNCHANGED dead
     \/ /\ Asks(r)
        /\ AtCA(loaded[r].cert)
        /\ dead' = dead \cup {Subject(r)}
  /\ NoteStranded(r, dead')
  /\ RReturn(r)
  /\ UNCHANGED <<vars, provider, crossed, bypassed>>

-----------------------------------------------------------------------------
LifecycleNext ==
  \/ OrderStep
  \/ \E c \in Certs, s \in Serials, status \in {"active", "expired"} : Import(c, s, status)
  \/ \E r \in Revokers, c \in Certs, from \in {"first", "second"} : LoadForRevoke(r, c, from)
  \/ \E r \in Revokers :
       \/ Bypass(r)
       \/ ReadLatest(r)
       \/ CARevokes(r)
       \/ CARefuses(r)
       \/ MarkRevoked(r)
       \/ RevocationFails(r)

LifecycleSpec == LifecycleInit /\ [][LifecycleNext]_lifecycleVars

-----------------------------------------------------------------------------
(* Properties.                                                                *)

\* What an entry marked revoked would hand out is revoked at the CA ("a certificate we think
\* is revoked but the CA still considers valid"), where there is a CA to ask -- unless a
\* renewal of it was filed during the revocation, renewals of it had overlapped before or one
\* had its row overwritten, or its authority was not in the registry.
RevokedIsDead ==
  \A c \in Certs \ (raced \cup crossed \cup bypassed) :
    certificate[c].status = "revoked" /\ AtCA(c) /\ (\A o \in overtaken : origin[o] # c)
      => LatestVersion(c) \in dead

\* An entry that is not marked revoked shows no certificate the CA has revoked, but while a
\* revocation of it is under way, after one of its revocations was refused or cut short, or
\* when the certificate may have been filed twice (its order's row was overwritten).
ActiveIsAlive ==
  \A c \in Certs :
    certificate[c].status = "active" /\ provider[c] # "manual" /\ certificate[c].serial \in dead
      => Revoking(c) \/ c \in stranded \/ ledger[certificate[c].serial] \in overtaken

\* The same when nothing fails: "a certificate this app still thinks is active but the CA has
\* already revoked" does not come about by revoking it.
NeverActiveButRevoked ==
  \A c \in Certs :
    certificate[c].status = "active" /\ provider[c] # "manual" /\ certificate[c].serial \in dead
      => Revoking(c)

\* An entry marked revoked comes back only through a renewal of it, and with a certificate
\* that is not revoked -- unless the row of the renewal's order was overwritten, and the very
\* certificate that was revoked is filed again.
RevivedByRenewal ==
  [][\A c \in Certs :
       certificate[c].status = "revoked" /\ certificate'[c].status # "revoked" =>
         LET s == certificate'[c].serial IN
           /\ certificate'[c].status = "active"
           /\ s \in versions'[c]
           /\ ledger[s] \in Orders /\ origin[ledger[s]] = c
           /\ s \notin versions[c] \cup dead \/ ledger[s] \in overtaken]_lifecycleVars

=============================================================================
