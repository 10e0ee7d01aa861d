\* A scan: three workers on three targets, with two faults, cancellation at any time and
\* restarts.  Schedules: two of them, with three requests, one mishap, and time for
\* the shorter interval to pass twice.
CONSTANTS
  Total = 3
  Workers = {w1, w2, w3}
  Free = Free
  MaxFaults = 2
  Schedules = {s1, s2}
  Intervals = {1, 2}
  Editors = {e1}
  Absent = Absent
  Horizon = 2
  MaxRequests = 3
  MaxMishaps = 1
SPECIFICATION MCSpec
INVARIANT PackageTypeOK
INVARIANT RowIsTrue
INVARIANT SchedulesHold
PROPERTY ScanEnds
PROPERTY ScanAdvances
PROPERTY OncePerInterval
PROPERTY DueIsFired
PROPERTY SweepAdvances
CHECK_DEADLOCK FALSE
