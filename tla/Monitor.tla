------------------------------- MODULE Monitor -------------------------------
(***************************************************************************)
(* One NetworkMonitorWorker (app/workers/monitor.py) and the database it   *)
(* shares with the REST API.                                               *)
(*                                                                         *)
(* A cycle opens one SQLAlchemy session, checks every device concurrently  *)
(* (asyncio.gather over _check_device), commits, propagates parent         *)
(* failures and recoveries, commits, infers the links, commits, and runs   *)
(* the root cause analysis.  The session is an identity map: `dev' holds   *)
(* the ORM objects, `row' the committed rows, and because the factory sets *)
(* expire_on_commit=False a later SELECT filters on the rows but hands     *)
(* back the objects already loaded.                                        *)
(*                                                                         *)
(* The steps of a coroutine between two awaits are one action.  The flap   *)
(* counters are abstracted to is_flapping; FlapDetector has the counters   *)
(* and implements that abstraction.  Incident rows are abstracted to the   *)
(* number of unresolved ones of each kind, a kind for each metric included.*)
(***************************************************************************)
EXTENDS NetworkModel, FiniteSets

CONSTANTS
  Devices,         \* the registered devices
  NoDevice,        \* parent_device_id = NULL
  Parent,          \* parent_device_id of each device
  Links,           \* <<source, target>> pairs of devices
  Thresholded,     \* <<device, metric>> pairs with an enabled AlertThreshold
  Rebootable,      \* devices with SSH credentials
  Resolvable,      \* devices whose incidents operators resolve by hand
  Flappers,        \* devices whose detector may report flapping
  Serviced,        \* devices that get maintenance windows
  Patches,         \* <<device, status>> pairs operators PATCH /devices with
  MaxWindows,      \* bound: windows of a device active at once
  DownThreshold,   \* settings.DOWN_THRESHOLD
  MaxOpen,         \* bound: unresolved incidents of one kind and device
  MaxCrashes,      \* bound: restarts and database errors
  MaxLostSends,    \* bound: broadcasts that raise
  MaxLostQueries   \* bound: queries of a check that raise

ASSUME ParentAssumption == Parent \in [Devices -> Devices \union {NoDevice}]
ASSUME NoDeviceAssumption == NoDevice \notin Devices
ASSUME LinksAssumption == Links \subseteq Devices \X Devices
ASSUME ThresholdedAssumption == Thresholded \subseteq Devices \X ThresholdMetric
ASSUME PatchesAssumption == Patches \subseteq Devices \X DeviceStatus
ASSUME BoundsAssumption == /\ DownThreshold \in Nat \ {0}
                           /\ MaxOpen \in Nat \ {0, 1}
                           /\ MaxWindows \in Nat
                           /\ MaxCrashes \in Nat
                           /\ MaxLostSends \in Nat
                           /\ MaxLostQueries \in Nat

VARIABLES
  row,        \* committed device rows
  incidents,  \* committed unresolved incidents of each device, by kind
  link,       \* committed status of each link
  phase,      \* the step of _monitor_cycle the worker is in
  devices,    \* the list `devices' of the current cycle
  loaded,     \* the devices in the session's identity map
  dev,        \* the ORM objects of the identity map
  dirty,      \* the objects whose status column the session has changed
  pending,    \* the incidents as the session's transaction sees them
  task,       \* the coroutine _check_device of each device
  todo,       \* the devices the recovery loop has still to visit
  alive,      \* does the device answer ping/SNMP?
  windows,    \* the number of maintenance windows active right now
  streak,     \* history: consecutive failed checks, at most DownThreshold
  crashes,    \* history: restarts and database errors so far
  lostSends,  \* history: broadcasts that raised so far
  lostQueries,\* history: queries of a check that raised so far
  released    \* history: devices PATCHed out of maintenance since the worker
              \* last committed its checks and before its second SELECT

database == <<row, incidents, link>>
session  == <<phase, devices, loaded, dev, dirty, pending, task, todo>>
world    == <<alive, windows>>
history  == <<streak, crashes, lostSends, lostQueries, released>>
vars     == <<database, session, world, history>>

Row == [status : DeviceStatus, failures : 0 .. DownThreshold, flapping : BOOLEAN]

Phase == {"idle", "check", "refetch", "cascade", "recover", "links", "rca"}

TaskStep == {"done", "probe", "apply", "thresholds", "recovery"}

Task == [at : TaskStep, reachable : BOOLEAN, previous : DeviceStatus]

Finished == [at |-> "done", reachable |-> FALSE, previous |-> "unknown"]

Started == [Finished EXCEPT !.at = "probe"]

Monitored == {d \in Devices : row[d].status # "maintenance"}

-----------------------------------------------------------------------------
Init ==
  /\ row = [d \in Devices |->
              [status |-> "unknown", failures |-> 0, flapping |-> FALSE]]
  /\ incidents = [d \in Devices |-> NoIncidents]
  /\ link = [l \in Links |-> "active"]
  /\ phase = "idle"
  /\ devices = {} /\ loaded = {} /\ dirty = {} /\ todo = {}
  /\ dev = row
  /\ pending = incidents
  /\ task = [d \in Devices |-> Finished]
  /\ alive \in [Devices -> BOOLEAN]
  /\ windows = [d \in Devices |-> 0]
  /\ streak = [d \in Devices |-> 0]
  /\ crashes = 0 /\ lostSends = 0 /\ lostQueries = 0
  /\ released = {}

(***************************************************************************)
(* The session.                                                            *)
(***************************************************************************)

\* What a commit leaves in the row: a column is written only if it changed.
\* No one but the worker writes failures and flapping.
Committed(d) ==
  IF d \in loaded
  THEN [dev[d] EXCEPT !.status = IF d \in dirty THEN @ ELSE row[d].status]
  ELSE row[d]

Commit ==
  /\ row' = [d \in Devices |-> Committed(d)]
  /\ incidents' = pending
  /\ dirty' = {}

\* A query without its filter on the maintenance status.
RefetchUnfiltered ==
  /\ devices' = Devices
  /\ loaded' = Devices
  /\ dev' = [d \in Devices |-> IF d \in loaded THEN dev[d] ELSE row[d]]

\* select(Device): the rows decide which devices are listed, but an object
\* that is already in the identity map is not refreshed.
Refetch ==
  /\ devices' = Monitored
  /\ loaded' = loaded \union Monitored
  /\ dev' = [d \in Devices |-> IF d \in loaded THEN dev[d] ELSE row[d]]

\* The session is closed and the worker sleeps.
CloseSession ==
  /\ phase' = "idle"
  /\ devices' = {} /\ loaded' = {} /\ dirty' = {} /\ todo' = {}
  /\ task' = [d \in Devices |-> Finished]
  /\ dev' = row'
  /\ pending' = incidents'

\* An exception leaves _monitor_cycle: what is not committed is lost.
Rollback == UNCHANGED database /\ CloseSession

\* ws_manager.broadcast raises (see ConnectionManager).
SendRaises ==
  /\ lostSends < MaxLostSends
  /\ lostSends' = lostSends + 1
  /\ UNCHANGED <<streak, crashes, lostQueries, released>>

-----------------------------------------------------------------------------
(***************************************************************************)
(* Step 1: every device is checked concurrently.                           *)
(***************************************************************************)
StartCycle ==
  /\ phase = "idle"
  /\ Monitored # {}
  /\ phase' = "check"
  /\ devices' = Monitored
  /\ loaded' = Monitored
  /\ dev' = row
  /\ task' = [d \in Devices |-> IF d \in Monitored THEN Started ELSE Finished]
  /\ UNCHANGED <<database, dirty, pending, todo, world, history>>

\* The chain of parents _is_ancestor_down walks, up to a device that is not in
\* `map'.  The walk has no await and is part of a step, so that its own end is
\* not in question here: what the visited set stops is a round of a cyclic
\* hierarchy, which passes no more devices than there are.
AncestorsIn(d, map) ==
  LET up[n \in 0 .. Cardinality(Devices)] ==
        IF n = 0 THEN Parent[d]
        ELSE IF up[n - 1] \in map THEN Parent[up[n - 1]] ELSE NoDevice
  IN  {up[n] : n \in 0 .. Cardinality(Devices)} \intersect map

\* A check that trusts the answer of the device alone.
AncestorIgnored(d) == FALSE

AncestorDown(d) == \E a \in AncestorsIn(d, devices) : dev[a].status = "down"

\* ping and SNMP have answered; the verdict is kept across the next await.
Probe(d) ==
  /\ phase = "check" /\ task[d].at = "probe"
  /\ task' = [task EXCEPT ![d] =
                [at |-> "apply",
                 reachable |-> alive[d] /\ ~ AncestorDown(d),
                 previous |-> dev[d].status]]
  /\ UNCHANGED <<database, phase, devices, loaded, dev, dirty, pending, todo,
                 world, history>>

SetDevice(d, status, failures, flapping) ==
  /\ dev' = [dev EXCEPT ![d] = [status |-> status, failures |-> failures,
                                flapping |-> flapping]]
  /\ dirty' = IF status = dev[d].status THEN dirty ELSE dirty \union {d}

\* A recovery that leaves consecutive_failures as it was.
ComesUpKeepingCounter(d, flapping) ==
  SetDevice(d, "up", dev[d].failures, flapping)

ComesUp(d, flapping) == SetDevice(d, "up", 0, flapping)

TaskAt(d, step) == task' = [task EXCEPT ![d].at = step]

TaskEnds(d) == task' = [task EXCEPT ![d] = Finished]

\* scalar_one_or_none raises when two windows overlap; gather swallows it.
WindowsOverlap(d) ==
  /\ phase = "check" /\ task[d].at = "apply"
  /\ windows[d] > 1
  /\ TaskEnds(d)
  /\ UNCHANGED <<database, phase, devices, loaded, dev, dirty, pending, todo,
                 world, history>>

\* The previous status read after the assignment instead of before it.
RecoversFromCurrent(d) == dev[d].status \in {"down", "degraded"}

RecoversFrom(d) == task[d].previous \in {"down", "degraded"}

\* A query of the check raises, of the windows, of the thresholds and their
\* incidents or of the incidents to resolve: gather swallows it, and what the
\* check has set so far stays set.
QueryRaises(d) ==
  /\ phase = "check"
  /\ \/ task[d].at \in {"apply", "thresholds"}
     \/ task[d].at = "recovery" /\ RecoversFrom(d)
  /\ lostQueries < MaxLostQueries
  /\ lostQueries' = lostQueries + 1
  /\ TaskEnds(d)
  /\ UNCHANGED <<database, phase, devices, loaded, dev, dirty, pending, todo,
                 world, streak, crashes, lostSends, released>>

EnterMaintenance(d) ==
  /\ phase = "check" /\ task[d].at = "apply"
  /\ windows[d] = 1
  /\ SetDevice(d, "maintenance", 0, dev[d].flapping)
  /\ TaskEnds(d)
  /\ streak' = [streak EXCEPT ![d] = 0]
  /\ UNCHANGED <<database, phase, devices, loaded, pending, todo, world,
                 crashes, lostSends, lostQueries, released>>

\* What _detect_flapping may answer: only a change of state can start the
\* flapping, only a check without a change can end it.
FlapVerdicts(d) ==
  IF d \notin Flappers THEN {dev[d].flapping}
  ELSE {dev[d].flapping, CountsAsUp(dev[d].status) # task[d].reachable}

CheckSucceeds(d) ==
  /\ phase = "check" /\ task[d].at = "apply"
  /\ windows[d] = 0
  /\ task[d].reachable
  /\ \E flapping \in FlapVerdicts(d) : ComesUp(d, flapping)
  /\ TaskAt(d, "thresholds")
  /\ streak' = [streak EXCEPT ![d] = 0]
  /\ UNCHANGED <<database, phase, devices, loaded, pending, todo, world,
                 crashes, lostSends, lostQueries, released>>

\* An outage announced at every failed check that finds the device DOWN.
AnnouncesOutageAgain(d, flapping) == ~ flapping

\* An outage announced only if the device goes straight from UP to DOWN.
AnnouncesOutageFromUp(d, flapping) == task[d].previous = "up" /\ ~ flapping

AnnouncesOutage(d, flapping) == task[d].previous # "down" /\ ~ flapping

CheckFails(d) ==
  LET failures == Bump(dev[d].failures, DownThreshold)
      isDown   == failures >= DownThreshold
  IN
  /\ phase = "check" /\ task[d].at = "apply"
  /\ windows[d] = 0
  /\ ~ task[d].reachable
  /\ \E flapping \in FlapVerdicts(d) :
       /\ SetDevice(d, IF isDown THEN "down" ELSE "degraded", failures, flapping)
       /\ pending' = IF isDown /\ AnnouncesOutage(d, flapping)
                     THEN [pending EXCEPT ![d]["own"] = Bump(@, MaxOpen)]
                     ELSE pending
  /\ TaskEnds(d)
  /\ streak' = [streak EXCEPT ![d] = Bump(@, DownThreshold)]
  /\ UNCHANGED <<database, phase, devices, loaded, todo, world, crashes,
                 lostSends, lostQueries, released>>

\* The query for an existing incident dropped.
NeverAlerted(d, metric) == FALSE

AlreadyAlerted(d, metric) == pending[d][metric] > 0

\* A threshold is exceeded for the first time: the incident of the metric is
\* added, and the loop goes on to the other thresholds; if the broadcast raises
\* the rest of the check is skipped.
ThresholdExceeded(d, metric) ==
  /\ phase = "check" /\ task[d].at = "thresholds"
  /\ <<d, metric>> \in Thresholded
  /\ ~ AlreadyAlerted(d, metric)
  /\ pending' = [pending EXCEPT ![d][metric] = @ + 1]
  /\ \/ UNCHANGED <<task, history>>
     \/ TaskEnds(d) /\ SendRaises
  /\ UNCHANGED <<database, phase, devices, loaded, dev, dirty, todo, world>>

\* The loop is over: no other threshold is exceeded, or its metric has an open
\* incident already.
WithinThresholds(d) ==
  /\ phase = "check" /\ task[d].at = "thresholds"
  /\ TaskAt(d, "recovery")
  /\ UNCHANGED <<database, phase, devices, loaded, dev, dirty, pending, todo,
                 world, history>>

\* Recovery: a device that was down or degraded has its incidents resolved.
Recovery(d) ==
  /\ phase = "check" /\ task[d].at = "recovery"
  /\ pending' = IF RecoversFrom(d)
                THEN [pending EXCEPT ![d] = NoIncidents]
                ELSE pending
  /\ TaskEnds(d)
  /\ UNCHANGED <<database, phase, devices, loaded, dev, dirty, todo, world,
                 history>>

EndChecks ==
  /\ phase = "check"
  /\ \A d \in Devices : task[d].at = "done"
  /\ Commit
  /\ phase' = "refetch"
  /\ released' = {}
  /\ UNCHANGED <<link, devices, loaded, dev, pending, task, todo, world, streak,
                 crashes, lostSends, lostQueries>>

\* The second SELECT, which awaits on its own: it sees what others committed
\* after the checks were.
SelectAgain ==
  /\ phase = "refetch"
  /\ Refetch
  /\ phase' = "cascade"
  /\ UNCHANGED <<database, dirty, pending, task, todo, world, history>>

-----------------------------------------------------------------------------
(***************************************************************************)
(* Step 2: _propagate_parent_failures.  The awaits of its loops let the    *)
(* API in, but no other coroutine touches the session.  A broadcast that   *)
(* raises ends the cycle.                                                  *)
(***************************************************************************)
ParentIs(d, status) ==
  /\ Parent[d] \in devices
  /\ dev[Parent[d]].status = status

\* A walk whose down_ids is not extended while the cascade runs.
CascadesOnce(d) ==
  /\ d \in devices
  /\ dev[d].status # "down"
  /\ Parent[d] \in devices /\ row[Parent[d]].status = "down"

\* A walk that does not skip the devices already in down_ids.
CascadesAgain(d) == d \in devices /\ ParentIs(d, "down")

Cascades(d) ==
  /\ d \in devices
  /\ dev[d].status # "down"
  /\ ParentIs(d, "down")

NeedsIncident(d) == Unresolved(pending[d]) = 0

\* A cascade that leaves consecutive_failures as it was.
FallsKeepingCounter(d) ==
  SetDevice(d, "down", dev[d].failures, dev[d].flapping)

FallsByDependency(d) ==
  SetDevice(d, "down", DownThreshold, dev[d].flapping)

Cascade(d) ==
  /\ phase = "cascade"
  /\ Cascades(d)
  /\ Unresolved(pending[d]) < 2
  /\ FallsByDependency(d)
  /\ pending' = IF NeedsIncident(d)
                THEN [pending EXCEPT ![d]["dependency"] = @ + 1]
                ELSE pending
  /\ UNCHANGED <<database, phase, devices, loaded, task, todo, world, history>>

\* scalar_one_or_none raises when the device has two unresolved incidents.
CascadeRaises(d) ==
  /\ phase = "cascade"
  /\ Cascades(d)
  /\ Unresolved(pending[d]) > 1
  /\ Rollback
  /\ UNCHANGED <<world, history>>

EndCascade ==
  /\ phase = "cascade"
  /\ \A d \in devices : ~ Cascades(d)
  /\ phase' = "recover"
  /\ todo' = devices
  /\ UNCHANGED <<database, devices, loaded, dev, dirty, pending, task, world,
                 history>>

\* A recovery that does not look at the parent's status.
FellByDependencyOnly(d) ==
  dev[d].status = "down" /\ pending[d]["dependency"] = 1

\* There is never a second such incident for scalar_one_or_none to raise on:
\* Cascade opens one only when nothing is unresolved.
FellByDependency(d) ==
  /\ dev[d].status = "down"
  /\ ParentIs(d, "up")
  /\ pending[d]["dependency"] = 1

\* The list has no ORDER BY: the devices are visited in any order.
Recover(d) ==
  /\ phase = "recover"
  /\ d \in todo
  /\ FellByDependency(d)
  /\ todo' = todo \ {d}
  /\ ComesUp(d, dev[d].flapping)
  /\ pending' = [pending EXCEPT ![d] = NoIncidents]
  /\ UNCHANGED <<database, phase, devices, loaded, task, world, history>>

DoNotRecover(d) ==
  /\ phase = "recover"
  /\ d \in todo
  /\ ~ FellByDependency(d)
  /\ todo' = todo \ {d}
  /\ UNCHANGED <<database, phase, devices, loaded, dev, dirty, pending, task,
                 world, history>>

EndRecover ==
  /\ phase = "recover"
  /\ todo = {}
  /\ Commit
  /\ phase' = "links"
  /\ UNCHANGED <<link, devices, loaded, dev, pending, task, todo, world, history>>

-----------------------------------------------------------------------------
(***************************************************************************)
(* Step 3: _update_link_statuses, and step 4: the root cause analysis,     *)
(* which only annotates open incidents (columns not modelled here).        *)
(***************************************************************************)

\* session.get: the identity map first, then the table.
SeenStatus(d) == IF d \in loaded THEN dev[d].status ELSE row[d].status

UpdateLinks ==
  /\ phase = "links"
  /\ link' = [l \in Links |-> InferLink(SeenStatus(l[1]), SeenStatus(l[2]))]
  /\ phase' = "rca"
  /\ UNCHANGED <<row, incidents, devices, loaded, dev, dirty, pending, task,
                 todo, world, history>>

RunRCA ==
  /\ phase = "rca"
  /\ UNCHANGED <<database, world, history>>
  /\ CloseSession

\* A broadcast of step 2 or 3 raises: the cycle is abandoned.
SendAborts ==
  /\ \/ phase = "cascade" /\ \E d \in devices : Cascades(d)
     \/ phase = "recover" /\ \E d \in todo : FellByDependency(d)
     \/ phase = "links" /\ \E l \in Links :
          link[l] # InferLink(SeenStatus(l[1]), SeenStatus(l[2]))
  /\ SendRaises
  /\ Rollback
  /\ UNCHANGED world

\* A restart (the task is cancelled) or a database error.
Crash ==
  /\ phase # "idle"
  /\ crashes < MaxCrashes
  /\ crashes' = crashes + 1
  /\ Rollback
  /\ UNCHANGED <<world, streak, lostSends, lostQueries, released>>

-----------------------------------------------------------------------------
(***************************************************************************)
(* The environment and the REST API, which has sessions of its own.        *)
(***************************************************************************)
Flip(d) ==
  /\ alive' = [alive EXCEPT ![d] = ~ @]
  /\ UNCHANGED <<database, session, windows, history>>

\* Windows are created, deleted, begin and end.
ChangeWindows(d) ==
  /\ d \in Serviced
  /\ \E n \in 0 .. MaxWindows : windows' = [windows EXCEPT ![d] = n]
  /\ UNCHANGED <<database, session, alive, history>>

\* PATCH /devices/{id} with a status.
PatchStatus(d) ==
  /\ \E s \in DeviceStatus : /\ <<d, s>> \in Patches
                           /\ row' = [row EXCEPT ![d].status = s]
  /\ released' = IF phase = "refetch" /\ row'[d].status # "maintenance"
                 THEN released \union {d} ELSE released
  /\ UNCHANGED <<incidents, link, session, world, streak, crashes, lostSends,
                 lostQueries>>

\* POST /devices/{id}/reboot that fails: an open incident.  The worker's
\* transaction reads what others commit.
RebootFails(d) ==
  /\ d \in Rebootable
  /\ incidents[d]["reboot"] < MaxOpen /\ pending[d]["reboot"] < MaxOpen
  /\ incidents' = [incidents EXCEPT ![d]["reboot"] = @ + 1]
  /\ pending' = [pending EXCEPT ![d]["reboot"] = @ + 1]
  /\ UNCHANGED <<row, link, phase, devices, loaded, dev, dirty, task, todo,
                 world, history>>

\* PATCH /incidents/{id} with status "resolved".  It waits for the row lock
\* of an incident that the worker has resolved but not committed.
ResolveIncident(d, k) ==
  /\ d \in Resolvable
  /\ incidents[d][k] > 0 /\ pending[d][k] >= incidents[d][k]
  /\ incidents' = [incidents EXCEPT ![d][k] = @ - 1]
  /\ pending' = [pending EXCEPT ![d][k] = @ - 1]
  /\ UNCHANGED <<row, link, phase, devices, loaded, dev, dirty, task, todo,
                 world, history>>

-----------------------------------------------------------------------------
CheckStep(d) ==
  \/ Probe(d) \/ WindowsOverlap(d) \/ QueryRaises(d) \/ EnterMaintenance(d)
  \/ CheckSucceeds(d) \/ CheckFails(d)
  \/ \E metric \in ThresholdMetric : ThresholdExceeded(d, metric)
  \/ WithinThresholds(d) \/ Recovery(d)

PropagateStep(d) ==
  \/ Cascade(d) \/ CascadeRaises(d) \/ Recover(d) \/ DoNotRecover(d)

Worker ==
  \/ StartCycle
  \/ \E d \in Devices : CheckStep(d) \/ PropagateStep(d)
  \/ EndChecks \/ SelectAgain \/ EndCascade \/ EndRecover \/ UpdateLinks \/ RunRCA

Api(d) ==
  \/ PatchStatus(d) \/ RebootFails(d)
  \/ \E k \in IncidentKind : ResolveIncident(d, k)

Next ==
  \/ Worker
  \/ SendAborts
  \/ Crash
  \/ \E d \in Devices : Flip(d) \/ ChangeWindows(d) \/ Api(d)

Spec == Init /\ [][Next]_vars

\* The event loop runs a task that is ready, and every probe has a timeout.
FairSpec == Spec /\ WF_vars(Worker)
=============================================================================
