------------------------------ MODULE CertStore ------------------------------
(***************************************************************************)
(* The certificate inventory: the rows of the tables certificate and       *)
(* certificate_version that internal/certificate/store.go writes, and the  *)
(* transactions that write them.  The module is used in two ways:          *)
(*                                                                         *)
(*  - modules that issue, renew and revoke EXTEND it and use its           *)
(*    transactions as the database part of their own steps;                *)
(*  - StoreSpec is the abstract promise of the inventory, which those      *)
(*    modules are shown to implement: whatever the callers do, the         *)
(*    inventory changes only by whole transactions.                        *)
(*                                                                         *)
(* A signed certificate (serial number, fingerprint, PEM, validity window  *)
(* and CA reference, which travel together) is one element of Serials.     *)
(* Serials are numbered in the order of their NotBefore, which is what     *)
(* issued_at holds, so "latest" is the largest number.                     *)
(***************************************************************************)
EXTENDS Integers, FiniteSets

CONSTANTS
  Certs,      \* ids of certificate rows
  MaxSerial   \* bound: how many certificates the CA ever signs

ASSUME MaxSerialAssumption == MaxSerial \in Nat

Serials   == 1 .. MaxSerial
NoSerial  == 0              \* a row that does not exist points at no serial
Status    == {"absent", "active", "expired", "revoked"}

VARIABLES
  certificate,  \* certificate[c]: status, and the serial whose not_before, not_after and ca_reference the row shows
  versions      \* versions[c]: the serials stored in certificate_version for c

storeVars == <<certificate, versions>>

StoreTypeOK ==
  /\ certificate \in [Certs -> [status: Status, serial: Serials \cup {NoSerial}]]
  /\ versions \in [Certs -> SUBSET Serials]

Exists(c)  == certificate[c].status # "absent"
Stored     == UNION {versions[c] : c \in Certs}

\* LatestVersion: ORDER BY issued_at DESC LIMIT 1.  Only meaningful when versions[c] # {}.
LatestVersion(c) == CHOOSE s \in versions[c] : \A t \in versions[c] : t <= s

StoreInit ==
  /\ certificate = [c \in Certs |-> [status |-> "absent", serial |-> NoSerial]]
  /\ versions = [c \in Certs |-> {}]

-----------------------------------------------------------------------------
(* The transactions.  Each one is atomic in the code: a pgx transaction or a  *)
(* single UPDATE.                                                             *)

\* Mutant of FinalizeNewCertificate: an existing row is overwritten.
NewCertificateUpserted(c, s, status) ==
  /\ certificate' = [certificate EXCEPT ![c] = [status |-> status, serial |-> s]]
  /\ versions' = [versions EXCEPT ![c] = @ \cup {s}]

\* INSERT INTO certificate ... ; INSERT INTO certificate_version ... ; COMMIT.
\* An issued order inserts "active"; an import may insert "expired".
FinalizeNewCertificate(c, s, status) ==
  /\ ~ Exists(c)
  /\ certificate' = [certificate EXCEPT ![c] = [status |-> status, serial |-> s]]
  /\ versions' = [versions EXCEPT ![c] = @ \cup {s}]

\* Mutants of FinalizeRenewal: one of the two writes is missing.
RenewalWithoutVersion(c, s) ==
  /\ Exists(c)
  /\ certificate' = [certificate EXCEPT ![c] = [status |-> "active", serial |-> s]]
  /\ UNCHANGED versions
RenewalWithoutRow(c, s) ==
  /\ Exists(c)
  /\ versions' = [versions EXCEPT ![c] = @ \cup {s}]
  /\ UNCHANGED certificate

\* UPDATE certificate SET not_before, not_after, ca_reference, status = 'active' WHERE id ;
\* INSERT INTO certificate_version ... ; COMMIT.  The row's present status is not looked at.
FinalizeRenewal(c, s) ==
  /\ Exists(c)
  /\ certificate' = [certificate EXCEPT ![c] = [status |-> "active", serial |-> s]]
  /\ versions' = [versions EXCEPT ![c] = @ \cup {s}]

\* UPDATE certificate SET status = 'revoked' WHERE id.
Revoke(c) ==
  /\ Exists(c)
  /\ certificate' = [certificate EXCEPT ![c].status = "revoked"]
  /\ UNCHANGED versions

-----------------------------------------------------------------------------
(* What the inventory promises, whoever calls it.                             *)

StoreNext ==
  \E c \in Certs :
    \/ \E s \in Serials :
         \/ \E status \in {"active", "expired"} : FinalizeNewCertificate(c, s, status)
         \/ FinalizeRenewal(c, s)
    \/ Revoke(c)

\* Everything written to the inventory is one of its transactions.
StoreSpec == StoreInit /\ [][StoreNext]_storeVars

-----------------------------------------------------------------------------
\* Every existing row shows the validity and CA reference of a version that is actually
\* stored for it (the point of FinalizeNewCertificate and FinalizeRenewal being transactions:
\* never a fresh expiry without the matching material, never a row with no version).
RowBackedByVersion ==
  \A c \in Certs : Exists(c) => certificate[c].serial \in versions[c]

=============================================================================
