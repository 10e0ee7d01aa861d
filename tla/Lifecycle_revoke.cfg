\* One certificate of Let's Encrypt, one revocation at a time, nothing fails.
CONSTANTS
  Certs = {c1}
  Orders = {o1}
  Validators = {p1}
  Revokers = {r1}
  NoOrder = NoOrder
  NoCert = NoCert
  MaxSerial = 1
  MaxFaults = 0
  CutShort = FALSE
  InUse = {"letsencrypt"}
SPECIFICATION LifecycleSpec
INVARIANT NeverActiveButRevoked
