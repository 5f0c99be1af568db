------------------------------ MODULE MonitorMC ------------------------------
(***************************************************************************)
(* Small networks for TLC: a parent with one child, a chain of three, and  *)
(* two devices that are each other's parent.                               *)
(***************************************************************************)
EXTENDS MonitorProperties, TLC

CONSTANTS core, switch, ap

PairParent  == (core :> NoDevice @@ switch :> core)
RingParent  == (core :> switch @@ switch :> core)
ChainParent == (core :> NoDevice @@ switch :> core @@ ap :> switch)

PairLinks == {<<core, switch>>}
NoLinks   == {}

NoThresholds     == {}
SwitchThresholds == {switch} \X ThresholdMetric

\* Operators put the core in maintenance and take it out again, or take the
\* switch out of maintenance.
CoreInAndOut == {<<core, "maintenance">>, <<core, "up">>}
SwitchToUp   == {<<switch, "up">>}
=============================================================================
