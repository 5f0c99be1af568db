-------------------------- MODULE MonitorProperties --------------------------
(***************************************************************************)
(* What the monitor promises: its type invariant, safety invariants,       *)
(* action properties and liveness properties, and the statements of the    *)
(* repository's own documentation that the code does not keep.             *)
(***************************************************************************)
EXTENDS Monitor

IncidentCounts ==
  {c \in [IncidentKind -> 0 .. MaxOpen] :
     c["dependency"] < 2 /\ \A metric \in ThresholdMetric : c[metric] < 2}

\* Type correctness.  A second dependency incident, or a second threshold
\* incident of one metric, is never opened: the code looks for an unresolved
\* one first, and scalar_one_or_none has at most one to find.
TypeOK ==
  /\ row \in [Devices -> Row]
  /\ incidents \in [Devices -> IncidentCounts]
  /\ link \in [Links -> LinkStatus]
  /\ phase \in Phase
  /\ devices \subseteq Devices
  /\ loaded \subseteq Devices
  /\ dev \in [Devices -> Row]
  /\ dirty \subseteq Devices
  /\ pending \in [Devices -> IncidentCounts]
  /\ task \in [Devices -> Task]
  /\ todo \subseteq Devices
  /\ alive \in [Devices -> BOOLEAN]
  /\ windows \in [Devices -> 0 .. MaxWindows]
  /\ streak \in [Devices -> 0 .. DownThreshold]
  /\ crashes \in 0 .. MaxCrashes
  /\ lostSends \in 0 .. MaxLostSends
  /\ lostQueries \in 0 .. MaxLostQueries
  /\ released \subseteq Devices

-----------------------------------------------------------------------------
(***************************************************************************)
(* Outages.                                                                *)
(***************************************************************************)

\* False positive prevention (_check_device): until a restart loses the
\* results of a check, a check marks a device DOWN only when it and the
\* DownThreshold - 1 checks before it failed, whatever cascades, recoveries
\* and maintenance did to the counter in between.
MarksDownAfterThreshold ==
  \A d \in Devices :
    /\ phase = "check" /\ crashes' = 0
    /\ dev[d].status # "down" /\ dev'[d].status = "down"
    => streak'[d] = DownThreshold

DownAfterThreshold == [][MarksDownAfterThreshold]_vars

\* The strengthening that makes DownAfterThreshold inductive.  The worker only
\* touches objects it has loaded, and they agree with the rows except where
\* they are dirty; the counter
\* of a DOWN device is at the threshold; the counter of any other device is
\* at most the number of its checks that really failed in a row (for the
\* rows, only outside the checks: a success counts before its commit).
SessionInSync ==
  /\ devices \subseteq loaded
  /\ phase = "recover" => todo \subseteq loaded
  /\ \A d \in Devices : task[d].at # "done" => d \in loaded
  /\ \A d \in Devices : d \notin dirty => dev[d].status = row[d].status
  /\ \A d \in Devices : d \notin loaded => dev[d] = row[d]
  /\ phase \in {"links", "rca"} => dirty = {}

DownIsCounted(r) ==
  \A d \in Devices : r[d].status = "down" => r[d].failures = DownThreshold

CountedInStreak(r) ==
  \A d \in Devices : r[d].status # "down" => r[d].failures <= streak[d]

CounterInv ==
  /\ SessionInSync
  /\ DownIsCounted(dev) /\ DownIsCounted(row)
  /\ crashes = 0 => /\ CountedInStreak(dev)
                    /\ phase # "check" => CountedInStreak(row)

\* A committed DOWN is announced: the device has an unresolved incident, its
\* own or its parent's, even if the worker was restarted between the commit
\* of the checks and the commit of the cascade.
DownHasIncident ==
  \A d \in Devices : row[d].status = "down" => Unresolved(incidents[d]) > 0

\* One outage, one incident: a device that fell by dependency and then fails
\* its own checks (or the other way round) is not announced twice.
OneIncidentPerOutage ==
  \A d \in Devices : Outages(incidents[d]) < 2

\* Recovery (_check_device and phase 2 of the propagation): a device
\* committed as UP has no outage incident left open.
UpHasNoOutage ==
  \A d \in Devices : row[d].status = "up" => Outages(incidents[d]) = 0

\* The committed rows and incidents implement the register of outages: a row
\* becomes DOWN in the commit that opens its outage, stays DOWN until the
\* commit that closes it makes it UP, through restarts at any point.
Register == INSTANCE OutageRegister WITH
  status   <- [d \in Devices |-> row[d].status],
  flapping <- [d \in Devices |-> row[d].flapping],
  outage   <- [d \in Devices |-> Outages(incidents[d]) > 0]

KeepsRegister == Register!Spec

\* An operator took the row out of maintenance between the commit of the checks
\* and the second SELECT: the device is listed, and its object still says
\* maintenance when the cascade comes by.
ListedInMaintenance(d) == phase = "cascade" /\ d \in released

\* Maintenance (_check_device, "mark as maintenance and skip alerts"): from
\* the moment a check has seen the window, the worker opens no outage
\* incident for the device, its parent's failure included, with that one
\* exception.
MaintenanceIsSilent ==
  [][\A d \in Devices :
       dev[d].status = "maintenance" /\ ~ ListedInMaintenance(d)
       => Outages(pending'[d]) <= Outages(pending[d])]_vars

-----------------------------------------------------------------------------
(***************************************************************************)
(* The hierarchy and the links.                                            *)
(***************************************************************************)

\* _propagate_parent_failures: once the cascade is over, and whatever the
\* recoveries of phase 2 change, no monitored device is better than DOWN
\* below a monitored device that is DOWN.
CascadeIsClosed ==
  phase \in {"recover", "links", "rca"} =>
    \A d \in devices : ParentIs(d, "down") => dev[d].status = "down"

\* The same of the committed rows, which the dashboard reads.
CommittedCascadeIsClosed ==
  phase \in {"links", "rca"} =>
    \A d \in devices :
      Parent[d] \in devices /\ row[Parent[d]].status = "down"
      => row[d].status = "down"

-----------------------------------------------------------------------------
(***************************************************************************)
(* Liveness.                                                               *)
(***************************************************************************)

\* Every cycle ends: the `while changed' loop of the cascade and the recovery
\* loop do, in a hierarchy whose parents form a ring too.
CycleEnds == (phase # "idle") ~> (phase = "idle")

\* From some point on the reachability of the devices does not change.
Quiet == <>[][UNCHANGED alive]_vars

\* What _check_device takes for reachable when every device is monitored.
Reachable(d) == \A a \in {d} \union AncestorsIn(d, Devices) : alive[a]

\* Once the network is quiet, the committed statuses become and stay right:
\* UP if the device and all its ancestors answer, DOWN otherwise.
StatusConverges ==
  Quiet => <>[](\A d \in Devices :
                  row[d].status = IF Reachable(d) THEN "up" ELSE "down")

\* And so do the incidents: one outage incident for every device that is out
\* of service, none for the others.
IncidentsConverge ==
  Quiet => <>[](\A d \in Devices :
                  Outages(incidents[d]) = IF Reachable(d) THEN 0 ELSE 1)

\* A link is DOWN if an endpoint is, and ACTIVE if none is DOWN or DEGRADED.
LinkAgrees(l) ==
  LET ends == {row[l[1]].status, row[l[2]].status} IN
  /\ link[l] = "down" <=> "down" \in ends
  /\ link[l] = "active" <=> ends \intersect {"down", "degraded"} = {}

\* _update_link_statuses: a link may be inferred from an object that a PATCH
\* has made stale, or not at all when a cycle ends early.  Once the rows no
\* longer change, and as long as cycles keep coming as far as the links (they
\* do not without a monitored device, or with one whose windows overlap and
\* whose incidents make every cascade raise), every link comes to agree with
\* the rows of its endpoints and goes on to.
LinksConverge ==
  <>[][UNCHANGED row]_vars /\ []<>(phase = "links") =>
    <>[](\A l \in Links : LinkAgrees(l))

-----------------------------------------------------------------------------
(***************************************************************************)
(* Statements of the documentation that the code does not keep.            *)
(***************************************************************************)

\* COMMANDS.md, "Cascada a hijos": immediate when the parent's DOWN is
\* confirmed.  When a cycle that has committed a parent as DOWN is over, by
\* itself and not by a crash, its children are DOWN.
CascadeIsImmediate ==
  [][phase # "idle" /\ phase' = "idle" /\ crashes' = crashes =>
       \A d \in devices :
         Parent[d] \in devices /\ row[Parent[d]].status = "down"
         => row'[d].status = "down"]_vars

\* Module docstring: "automatic recovery detection".  A device that answers
\* from some point on, with its ancestors, is eventually UP.
RecoveryIsDetected ==
  \A d \in Devices :
    <>[](Reachable(d) /\ windows[d] = 0) => <>(row[d].status = "up")
=============================================================================
