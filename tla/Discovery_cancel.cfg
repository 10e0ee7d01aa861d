\* A scan is canceled before its goroutine got to mark it running; nothing fails.
CONSTANTS
  Total = 2
  Workers = {w1, w2}
  Free = Free
  MaxFaults = 0
SPECIFICATION DiscoverySpec
INVARIANT CancelSettles
CHECK_DEADLOCK FALSE
