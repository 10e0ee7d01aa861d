\* Two concurrent calls on an order with two authorizations, one fault.
CONSTANTS
  Kinds = {"letsencrypt", "zerossl", "adcs"}
  Last = 2
  Calls = {k1, k2}
  MaxFaults = 1
SPECIFICATION FairExchangeSpec
INVARIANT ExchangeTypeOK
INVARIANT SubmittedWhenProven
INVARIANT RecordsServe
PROPERTY ExchangeSettles
PROPERTY FollowsStateTable
PROPERTY ChecksAdvance
CHECK_DEADLOCK FALSE
