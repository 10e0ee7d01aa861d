\* One target; two calls at a time among its creation, a renewal's push and two requests.
CONSTANTS
  Targets = {t1}
  Places = {here, there}
  Calls = {k1, k2}
  NoTarget = NoTarget
  MaxVersion = 2
  MaxEdits = 2
  MaxFaults = 1
SPECIFICATION TargetsSpec
SYMMETRY Symmetry
INVARIANT TargetsTypeOK
INVARIANT DeliveredOrTold
INVARIANT AnswerIsOwn
INVARIANT EditsHold
CHECK_DEADLOCK FALSE
