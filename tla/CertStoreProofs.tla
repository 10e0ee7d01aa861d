--------------------------- MODULE CertStoreProofs ---------------------------
(***************************************************************************)
(* Theorems about the inventory of CertStore, for every set of certificate *)
(* rows and every number of signed certificates.  Modules that are shown   *)
(* to implement StoreSpec inherit them.                                    *)
(***************************************************************************)
EXTENDS CertStore, TLAPS

\* The inductive invariant.
StoreInv ==
  /\ StoreTypeOK
  /\ RowBackedByVersion

\* The empty inventory satisfies the invariant.
LEMMA StoreInitInv == StoreInit => StoreInv
BY DEF StoreInit, StoreInv, StoreTypeOK, RowBackedByVersion, Exists, Status, NoSerial

\* Every transaction keeps the invariant.
LEMMA StoreStepInv == StoreInv /\ [StoreNext]_storeVars => StoreInv'
<1> SUFFICES ASSUME StoreInv, [StoreNext]_storeVars PROVE StoreInv'
  OBVIOUS
<1> USE DEF StoreInv, StoreTypeOK, RowBackedByVersion, Exists, Status
<1>1. ASSUME NEW c \in Certs, NEW s \in Serials, NEW st \in {"active", "expired"},
             FinalizeNewCertificate(c, s, st)
      PROVE  StoreInv'
  BY <1>1 DEF FinalizeNewCertificate
<1>2. ASSUME NEW c \in Certs, NEW s \in Serials, FinalizeRenewal(c, s)
      PROVE  StoreInv'
  BY <1>2 DEF FinalizeRenewal
<1>3. ASSUME NEW c \in Certs, Revoke(c)
      PROVE  StoreInv'
  BY <1>3 DEF Revoke
<1>4. CASE UNCHANGED storeVars
  BY <1>4 DEF storeVars
<1>. QED
  BY <1>1, <1>2, <1>3, <1>4 DEF StoreNext

\* Whoever writes the inventory by its transactions keeps every row backed by a stored version.
THEOREM StoreSafety == StoreSpec => []RowBackedByVersion
<1>1. StoreInv => RowBackedByVersion
  BY DEF StoreInv
<1>. QED
  BY <1>1, StoreInitInv, StoreStepInv, PTL DEF StoreSpec
=============================================================================
