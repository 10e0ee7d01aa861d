----------------------------- MODULE MCDiscovery -----------------------------
(***************************************************************************)
(* Both halves of internal/discovery, for one run of the model checker.    *)
(* A scan that exists and the schedules that start scans have no variable  *)
(* in common, so each is explored by itself: the states are added, not     *)
(* multiplied, and no behaviour of either is lost.                         *)
(***************************************************************************)
EXTENDS Discovery, Schedules

VARIABLE part

MCInit ==
  /\ DiscoveryInit
  /\ SchedulesInit
  /\ part \in {"scan", "schedules"}

MCNext ==
  /\ \/ part = "scan" /\ DiscoveryNext /\ UNCHANGED schedulesVars
     \/ part = "schedules" /\ SchedulesNext /\ UNCHANGED discoveryVars
  /\ UNCHANGED part

\* In each part only the actions of that part are ever enabled for good: a server that was
\* never started sweeps nothing, a scan that was never created runs nothing.
MCFairness ==
  /\ DiscoveryFairness
  /\ WF_schedulesVars(part = "schedules" /\ SweepStep)
  /\ WF_schedulesVars(part = "schedules" /\ Minute)

MCSpec == MCInit /\ [][MCNext]_<<discoveryVars, schedulesVars, part>> /\ MCFairness

PackageTypeOK == DiscoveryTypeOK /\ SchedulesTypeOK

=============================================================================
