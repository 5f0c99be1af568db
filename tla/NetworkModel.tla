---------------------------- MODULE NetworkModel ----------------------------
(***************************************************************************)
(* The vocabulary of app/domain/models/network.py that the other modules   *)
(* share: the enumerations stored in the device, link and incident rows,   *)
(* and the titles by which the code tells incidents apart.                 *)
(***************************************************************************)
EXTENDS Integers

DeviceStatus == {"up", "down", "degraded", "unknown", "maintenance"}

LinkStatus == {"active", "down", "degraded"}

(***************************************************************************)
(* Incidents are told apart by their title: "Device DOWN" (the device's    *)
(* own outage), "Caido por dependencia" (its parent's outage), "Umbral"    *)
(* and the label of a metric (a threshold was exceeded) and "Reinicio      *)
(* fallido" (a failed reboot).                                             *)
(***************************************************************************)

\* The metrics a check measures: it leaves CPU and memory without a value.
ThresholdMetric == {"latency", "loss"}

IncidentKind == {"own", "dependency", "reboot"} \union ThresholdMetric

NoIncidents == [k \in IncidentKind |-> 0]

\* The number of unresolved (open or acknowledged) incidents of a device.
Unresolved(counts) ==
  counts["own"] + counts["dependency"] + counts["reboot"]
  + counts["latency"] + counts["loss"]

\* The unresolved incidents that say the device is out of service.
Outages(counts) == counts["own"] + counts["dependency"]

\* The statuses _detect_flapping and the link inference count as "up".
CountsAsUp(status) == status \in {"up", "degraded"}

\* Counters saturate: the code only compares them with a threshold.
Bump(n, bound) == IF n < bound THEN n + 1 ELSE n

\* An inference from one endpoint.
InferLinkFromSource(source, target) ==
  IF source = "down" THEN "down"
  ELSE IF source = "degraded" THEN "degraded"
  ELSE "active"

\* _update_link_statuses: the worse of the two endpoints decides.
InferLink(source, target) ==
  IF "down" \in {source, target} THEN "down"
  ELSE IF "degraded" \in {source, target} THEN "degraded"
  ELSE "active"
=============================================================================
