\* One engine over three lives of a certificate that renews itself a day before it expires.
CONSTANTS
  Certs = {c1}
  AutoRenewed = {c1}
  Engines = {e1}
  Settings <- MCSettings
  Day = 2
  RenewBefore = 1
  Validity = 4
  Horizon = 12
  MaxFaults = 2
  MaxEdits = 1
SPECIFICATION EngineSpec
INVARIANT EngineTypeOK
INVARIANT NotifiedOnceUnlessLost
INVARIANT LowerThresholdsRemind
INVARIANT NoLapseWhilePunctual
CHECK_DEADLOCK FALSE
