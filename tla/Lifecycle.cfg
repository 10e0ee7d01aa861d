\* Two revocations, cut short by faults at any point, next to one Validate call.
CONSTANTS
  Certs = {c1}
  Orders = {o1, o2, o3}
  Validators = {p1}
  Revokers = {r1, r2}
  NoOrder = NoOrder
  NoCert = NoCert
  MaxSerial = 3
  MaxFaults = 0
  CutShort = TRUE
  InUse = {"letsencrypt", "zerossl", "adcs", "selfsigned", "manual"}
SPECIFICATION LifecycleSpec
SYMMETRY Symmetry
INVARIANT LifecycleTypeOK
INVARIANT RevokedIsDead
INVARIANT ActiveIsAlive
PROPERTY RevivedByRenewal
