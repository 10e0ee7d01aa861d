\* Two concurrent Validate calls, three orders (so that two renewals can overlap).
CONSTANTS
  Certs = {c1, c2}
  Orders = {o1, o2, o3}
  Validators = {p1, p2}
  NoOrder = NoOrder
  NoCert = NoCert
  MaxSerial = 3
  MaxFaults = 0
SPECIFICATION Spec
SYMMETRY Symmetry
INVARIANT TypeOK
INVARIANT FiledInPlace
INVARIANT OneSubmissionUnlessOvertaken
INVARIANT IssuedMeansStored
INVARIANT InventoryHolds

