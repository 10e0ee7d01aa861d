\* A certificate that nobody renews comes down to its thresholds; nothing fails.
CONSTANTS
  Certs = {c1}
  AutoRenewed = {}
  Engines = {e1}
  Settings <- MCSettings
  Day = 2
  RenewBefore = 1
  Validity = 4
  Horizon = 6
  MaxFaults = 0
  MaxEdits = 0
SPECIFICATION EngineSpec
INVARIANT EveryThresholdReminds
CHECK_DEADLOCK FALSE
