\* Two concurrent calls, one of which may be cut short.
CONSTANTS
  Certs = {c1}
  Orders = {o1, o2}
  Validators = {p1, p2}
  NoOrder = NoOrder
  NoCert = NoCert
  MaxSerial = 2
  MaxFaults = 1
SPECIFICATION FairSpec
INVARIANT StrandedOnlyByFaults
PROPERTY OrdersSettle
PROPERTY KeepsContract
