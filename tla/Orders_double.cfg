\* A stale write-back reopens a claimed order.
CONSTANTS
  Certs = {c1, c2}
  Orders = {o1}
  Validators = {p1, p2}
  NoOrder = NoOrder
  NoCert = NoCert
  MaxSerial = 2
  MaxFaults = 0
SPECIFICATION Spec
INVARIANT OneSubmissionPerOrder
