---------------------------- MODULE MonitorProofs ----------------------------
(***************************************************************************)
(* Theorems about the monitor, for every set of devices, every hierarchy   *)
(* (cyclic ones included), every set of links and every bound.             *)
(***************************************************************************)
EXTENDS MonitorProperties, TLAPS

-----------------------------------------------------------------------------
(***************************************************************************)
(* Lemmas about the operators the actions are built from.                  *)
(***************************************************************************)

\* A saturating counter stays within its bound.
LEMMA BumpType ==
  ASSUME NEW bound \in Nat, NEW n \in 0 .. bound
  PROVE  Bump(n, bound) \in 0 .. bound
BY DEF Bump

\* A session that is closed has the types of an idle worker.
LEMMA CloseSessionType ==
  ASSUME TypeOK, CloseSession,
         row' \in [Devices -> Row], incidents' \in [Devices -> IncidentCounts]
  PROVE  /\ phase' \in Phase
         /\ devices' \subseteq Devices /\ loaded' \subseteq Devices
         /\ dirty' \subseteq Devices /\ todo' \subseteq Devices
         /\ dev' \in [Devices -> Row]
         /\ pending' \in [Devices -> IncidentCounts]
         /\ task' \in [Devices -> Task]
BY DEF TypeOK, CloseSession, Phase, Finished, Task, TaskStep, DeviceStatus

\* An assignment to an ORM object keeps the types of the session.
LEMMA SetDeviceType ==
  ASSUME TypeOK, NEW d \in Devices, NEW status \in DeviceStatus,
         NEW failures \in 0 .. DownThreshold, NEW flapping \in BOOLEAN,
         SetDevice(d, status, failures, flapping)
  PROVE  dev' \in [Devices -> Row] /\ dirty' \subseteq Devices
BY DEF TypeOK, SetDevice, Row

\* A coroutine that goes on to its next step, or ends, is still a coroutine.
LEMMA TaskType ==
  ASSUME TypeOK, NEW d \in Devices, NEW step \in TaskStep,
         TaskAt(d, step) \/ TaskEnds(d)
  PROVE  task' \in [Devices -> Task]
<1>1. CASE TaskAt(d, step)
  BY <1>1 DEF TypeOK, TaskAt, Task
<1>2. CASE TaskEnds(d)
  BY <1>2 DEF TypeOK, TaskEnds, Finished, Task, TaskStep, DeviceStatus
<1>3. QED
  BY <1>1, <1>2

\* Opening one more incident keeps the counts within their bounds.
LEMMA CountsType ==
  ASSUME BoundsAssumption, NEW c \in IncidentCounts, NEW k \in IncidentKind,
         NEW n \in 0 .. MaxOpen, k \in {"dependency"} \union ThresholdMetric => n < 2
  PROVE  [c EXCEPT ![k] = n] \in IncidentCounts
BY DEF IncidentCounts, IncidentKind, ThresholdMetric

\* Where nothing is unresolved, no dependency incident is.
LEMMA NothingOpen ==
  ASSUME BoundsAssumption, NEW c \in IncidentCounts, Unresolved(c) = 0
  PROVE  c["dependency"] = 0
<1>1. \A k \in IncidentKind : c[k] \in Nat
  BY DEF IncidentCounts
<1>2. /\ c["own"] \in Nat /\ c["dependency"] \in Nat /\ c["reboot"] \in Nat
      /\ c["latency"] \in Nat /\ c["loss"] \in Nat
  BY <1>1 DEF IncidentKind, ThresholdMetric
<1>3. c["own"] + c["dependency"] + c["reboot"] + c["latency"] + c["loss"] = 0
  BY DEF Unresolved
<1>4. ASSUME NEW o \in Nat, NEW d \in Nat, NEW r \in Nat, NEW m \in Nat, NEW n \in Nat,
             o + d + r + m + n = 0
      PROVE  d = 0
  BY <1>4
<1>5. QED
  BY <1>2, <1>3, <1>4

\* What a commit leaves in the rows are rows.
LEMMA CommitType ==
  ASSUME TypeOK, Commit
  PROVE  /\ row' \in [Devices -> Row]
         /\ incidents' \in [Devices -> IncidentCounts]
         /\ dirty' \subseteq Devices
<1>1. ASSUME NEW d \in Devices PROVE Committed(d) \in Row
  BY <1>1 DEF TypeOK, Committed, Row
<1>2. QED
  BY <1>1 DEF TypeOK, Commit
-----------------------------------------------------------------------------
(***************************************************************************)
(* Type correctness.                                                       *)
(***************************************************************************)
LEMMA TypeInit == Init => TypeOK
<1> SUFFICES ASSUME Init PROVE TypeOK
  OBVIOUS
<1> USE BoundsAssumption
<1>1. NoIncidents \in IncidentCounts
  BY DEF NoIncidents, IncidentCounts, IncidentKind, ThresholdMetric
<1>2. row \in [Devices -> Row]
  BY DEF Init, Row, DeviceStatus
<1>3. task \in [Devices -> Task]
  BY DEF Init, Task, TaskStep, Finished, DeviceStatus
<1>4. QED
  BY <1>1, <1>2, <1>3 DEF Init, TypeOK, Phase, LinkStatus

\* The checks: every coroutine of step 1 keeps the types.
LEMMA TypeCheckStep ==
  ASSUME TypeOK, NEW d \in Devices, CheckStep(d)
  PROVE  TypeOK'
<1> USE BoundsAssumption DEF TypeOK
<1>1. CASE Probe(d)
  <2>1. (alive[d] /\ ~ AncestorDown(d)) \in BOOLEAN
    OBVIOUS
  <2>2. task' \in [Devices -> Task]
    BY <1>1, <2>1 DEF Probe, Task, TaskStep, Row
  <2>3. QED
    BY <1>1, <2>2 DEF Probe, database, world, history
<1>2. CASE WindowsOverlap(d)
  BY <1>2, TaskType DEF WindowsOverlap, TaskStep, database, world, history
<1>3. CASE EnterMaintenance(d)
  <2>1. dev' \in [Devices -> Row] /\ dirty' \subseteq Devices
    BY <1>3, SetDeviceType DEF EnterMaintenance, DeviceStatus, Row
  <2>2. task' \in [Devices -> Task]
    BY <1>3, TaskType DEF EnterMaintenance, TaskStep
  <2>3. streak' \in [Devices -> 0 .. DownThreshold]
    BY <1>3 DEF EnterMaintenance
  <2>4. QED
    BY <1>3, <2>1, <2>2, <2>3 DEF EnterMaintenance, database, world
<1>4. CASE CheckSucceeds(d)
  <2>1. PICK flapping \in FlapVerdicts(d) : SetDevice(d, "up", 0, flapping)
    BY <1>4 DEF CheckSucceeds, ComesUp
  <2>2. flapping \in BOOLEAN
    BY DEF FlapVerdicts, Row
  <2>3. dev' \in [Devices -> Row] /\ dirty' \subseteq Devices
    BY <2>1, <2>2, SetDeviceType DEF DeviceStatus
  <2>4. task' \in [Devices -> Task]
    BY <1>4, TaskType DEF CheckSucceeds, TaskStep
  <2>5. streak' \in [Devices -> 0 .. DownThreshold]
    BY <1>4 DEF CheckSucceeds
  <2>6. QED
    BY <1>4, <2>3, <2>4, <2>5 DEF CheckSucceeds, database, world
<1>5. CASE CheckFails(d)
  <2> DEFINE failures == Bump(dev[d].failures, DownThreshold)
             isDown   == failures >= DownThreshold
  <2>1. failures \in 0 .. DownThreshold
    BY BumpType DEF Row
  <2>2. PICK flapping \in FlapVerdicts(d) :
          /\ SetDevice(d, IF isDown THEN "down" ELSE "degraded", failures, flapping)
          /\ pending' = IF isDown /\ AnnouncesOutage(d, flapping)
                        THEN [pending EXCEPT ![d]["own"] = Bump(@, MaxOpen)]
                        ELSE pending
    BY <1>5 DEF CheckFails
  <2>3. flapping \in BOOLEAN
    BY DEF FlapVerdicts, Row
  <2>4. dev' \in [Devices -> Row] /\ dirty' \subseteq Devices
    BY <2>1, <2>2, <2>3, SetDeviceType DEF DeviceStatus
  <2>5. pending' \in [Devices -> IncidentCounts]
    <3>1. pending[d] \in IncidentCounts /\ pending[d]["own"] \in 0 .. MaxOpen
      BY DEF IncidentCounts, IncidentKind, ThresholdMetric
    <3>2. Bump(pending[d]["own"], MaxOpen) \in 0 .. MaxOpen
      BY <3>1, BumpType
    <3>3. [pending[d] EXCEPT !["own"] = Bump(pending[d]["own"], MaxOpen)]
            \in IncidentCounts
      BY <3>1, <3>2, CountsType DEF IncidentKind, ThresholdMetric
    <3>4. QED
      BY <2>2, <3>3
  <2>6. task' \in [Devices -> Task]
    BY <1>5, TaskType DEF CheckFails, TaskStep
  <2>7. streak' \in [Devices -> 0 .. DownThreshold]
    BY <1>5, BumpType DEF CheckFails
  <2>8. QED
    BY <1>5, <2>4, <2>5, <2>6, <2>7 DEF CheckFails, database, world
<1>6. CASE WithinThresholds(d)
  BY <1>6, TaskType DEF WithinThresholds, TaskStep, database, world, history
<1>7. ASSUME NEW metric \in ThresholdMetric, ThresholdExceeded(d, metric)
      PROVE  TypeOK'
  <2>1. pending[d] \in IncidentCounts /\ pending[d][metric] = 0
    <3>1. metric \in IncidentKind /\ pending[d] \in IncidentCounts
      BY <1>7 DEF IncidentKind
    <3>2. pending[d][metric] \in 0 .. MaxOpen /\ ~ (pending[d][metric] > 0)
      BY <1>7, <3>1 DEF ThresholdExceeded, AlreadyAlerted, IncidentCounts
    <3>3. QED
      BY <3>1, <3>2
  <2>2. [pending[d] EXCEPT ![metric] = 1] \in IncidentCounts
    <3>1. metric \in IncidentKind /\ 1 \in 0 .. MaxOpen
      BY <1>7 DEF IncidentKind
    <3>2. metric \in ThresholdMetric => 1 < 2
      OBVIOUS
    <3>3. QED
      BY <2>1, <3>1, <3>2, CountsType
  <2>3. pending' \in [Devices -> IncidentCounts]
    BY <1>7, <2>1, <2>2 DEF ThresholdExceeded
  <2>4. task' \in [Devices -> Task]
    BY <1>7, TaskType DEF ThresholdExceeded, TaskStep, history
  <2>5. /\ streak' = streak /\ crashes' = crashes /\ lostSends' \in 0 .. MaxLostSends
        /\ lostQueries' = lostQueries /\ released' = released
    BY <1>7 DEF ThresholdExceeded, SendRaises, history
  <2>6. QED
    BY <1>7, <2>3, <2>4, <2>5 DEF ThresholdExceeded, database, world
<1>8. CASE Recovery(d)
  <2>1. NoIncidents \in IncidentCounts
    BY DEF NoIncidents, IncidentCounts, IncidentKind, ThresholdMetric
  <2>2. task' \in [Devices -> Task]
    BY <1>8, TaskType DEF Recovery, TaskStep
  <2>3. QED
    BY <1>8, <2>1, <2>2 DEF Recovery, database, world, history
<1>9. CASE QueryRaises(d)
  BY <1>9, TaskType DEF QueryRaises, TaskStep, database, world
<1>10. QED
  BY <1>1, <1>2, <1>3, <1>4, <1>5, <1>6, <1>7, <1>8, <1>9 DEF CheckStep

\* Steps 2 to 4, the session's rollbacks, and what other sessions do.
LEMMA TypePropagateStep ==
  ASSUME TypeOK, NEW d \in Devices, PropagateStep(d)
  PROVE  TypeOK'
<1> USE BoundsAssumption DEF TypeOK
<1>1. NoIncidents \in IncidentCounts
  BY DEF NoIncidents, IncidentCounts, IncidentKind, ThresholdMetric
<1>2. CASE Cascade(d)
  <2>1. dev[d].flapping \in BOOLEAN
    BY DEF Row
  <2>2. dev' \in [Devices -> Row] /\ dirty' \subseteq Devices
    BY <1>2, <2>1, SetDeviceType DEF Cascade, FallsByDependency, DeviceStatus
  <2>3. pending' \in [Devices -> IncidentCounts]
    <3>1. CASE NeedsIncident(d)
      <4>1. pending[d] \in IncidentCounts /\ pending[d]["dependency"] = 0
        BY <3>1, NothingOpen DEF NeedsIncident
      <4>2. [pending[d] EXCEPT !["dependency"] = 1] \in IncidentCounts
        BY <4>1, CountsType DEF IncidentKind
      <4>3. QED
        BY <1>2, <3>1, <4>1, <4>2 DEF Cascade
    <3>2. CASE ~ NeedsIncident(d)
      BY <1>2, <3>2 DEF Cascade
    <3>3. QED
      BY <3>1, <3>2
  <2>4. QED
    BY <1>2, <2>2, <2>3 DEF Cascade, database, world, history
<1>3. CASE CascadeRaises(d)
  BY <1>3, CloseSessionType DEF CascadeRaises, Rollback, database, world, history
<1>4. CASE Recover(d)
  <2>1. dev[d].flapping \in BOOLEAN
    BY DEF Row
  <2>2. dev' \in [Devices -> Row] /\ dirty' \subseteq Devices
    BY <1>4, <2>1, SetDeviceType DEF Recover, ComesUp, DeviceStatus
  <2>3. QED
    BY <1>1, <1>4, <2>2 DEF Recover, database, world, history
<1>5. CASE DoNotRecover(d)
  BY <1>5 DEF DoNotRecover, database, world, history
<1>6. QED
  BY <1>2, <1>3, <1>4, <1>5 DEF PropagateStep

LEMMA TypeStep == TypeOK /\ [Next]_vars => TypeOK'
<1> SUFFICES ASSUME TypeOK, [Next]_vars PROVE TypeOK'
  OBVIOUS
<1> USE BoundsAssumption DEF TypeOK
<1>1. CASE StartCycle
  <2>1. task' \in [Devices -> Task]
    BY <1>1 DEF StartCycle, Started, Finished, Task, TaskStep, DeviceStatus
  <2>2. QED
    BY <1>1, <2>1 DEF StartCycle, Monitored, Phase, database, world, history
<1>2. ASSUME NEW d \in Devices, CheckStep(d) PROVE TypeOK'
  BY <1>2, TypeCheckStep
<1>3. ASSUME NEW d \in Devices, PropagateStep(d) PROVE TypeOK'
  BY <1>3, TypePropagateStep
<1>4. CASE EndChecks
  <2>1. /\ row' \in [Devices -> Row] /\ incidents' \in [Devices -> IncidentCounts]
        /\ dirty' \subseteq Devices
    BY <1>4, CommitType DEF EndChecks
  <2>2. QED
    BY <1>4, <2>1 DEF EndChecks, Phase, world
<1>5. CASE EndCascade
  BY <1>5 DEF EndCascade, Phase, database, world, history
<1>6. CASE EndRecover
  <2>1. /\ row' \in [Devices -> Row] /\ incidents' \in [Devices -> IncidentCounts]
        /\ dirty' \subseteq Devices
    BY <1>6, CommitType DEF EndRecover
  <2>2. QED
    BY <1>6, <2>1 DEF EndRecover, Phase, world, history
<1>7. CASE UpdateLinks
  <2>1. link' \in [Links -> LinkStatus]
    BY <1>7 DEF UpdateLinks, InferLink, LinkStatus
  <2>2. QED
    BY <1>7, <2>1 DEF UpdateLinks, Phase, world, history
<1>8. CASE RunRCA
  BY <1>8, CloseSessionType DEF RunRCA, database, world, history
<1>9. CASE SendAborts
  BY <1>9, CloseSessionType DEF SendAborts, SendRaises, Rollback, database, world
<1>10. CASE Crash
  BY <1>10, CloseSessionType DEF Crash, Rollback, database, world
<1>11. ASSUME NEW d \in Devices, Flip(d) PROVE TypeOK'
  BY <1>11 DEF Flip, database, session, history
<1>12. ASSUME NEW d \in Devices, ChangeWindows(d) PROVE TypeOK'
  BY <1>12 DEF ChangeWindows, database, session, history
<1>13. ASSUME NEW d \in Devices, PatchStatus(d) PROVE TypeOK'
  <2>1. row' \in [Devices -> Row]
    BY <1>13 DEF PatchStatus, Row
  <2>2. QED
    BY <1>13, <2>1 DEF PatchStatus, session, world, history
<1>14. ASSUME NEW d \in Devices, RebootFails(d) PROVE TypeOK'
  <2>1. ASSUME NEW c \in IncidentCounts, c["reboot"] < MaxOpen
        PROVE  [c EXCEPT !["reboot"] = @ + 1] \in IncidentCounts
    BY <2>1 DEF IncidentCounts, IncidentKind, ThresholdMetric
  <2>2. QED
    BY <1>14, <2>1 DEF RebootFails, world, history
<1>15. ASSUME NEW d \in Devices, NEW k \in IncidentKind, ResolveIncident(d, k)
       PROVE  TypeOK'
  <2>1. ASSUME NEW c \in IncidentCounts, c[k] > 0
        PROVE  [c EXCEPT ![k] = @ - 1] \in IncidentCounts
    BY <2>1 DEF IncidentCounts, IncidentKind, ThresholdMetric
  <2>2. incidents[d][k] \in Int /\ pending[d][k] \in Int
    BY DEF IncidentCounts
  <2>3. incidents[d][k] > 0 /\ pending[d][k] > 0
    BY <1>15, <2>2 DEF ResolveIncident
  <2>4. /\ [incidents[d] EXCEPT ![k] = @ - 1] \in IncidentCounts
        /\ [pending[d] EXCEPT ![k] = @ - 1] \in IncidentCounts
    BY <2>1, <2>3
  <2>5. QED
    BY <1>15, <2>4 DEF ResolveIncident, world, history
<1>16. CASE UNCHANGED vars
  BY <1>16 DEF vars, database, session, world, history
<1>17. CASE SelectAgain
  <2>1. /\ devices' \subseteq Devices /\ loaded' \subseteq Devices
        /\ dev' \in [Devices -> Row]
    BY <1>17 DEF SelectAgain, Refetch, Monitored
  <2>2. QED
    BY <1>17, <2>1 DEF SelectAgain, Phase, database, world, history
<1>18. QED
  BY <1>1, <1>2, <1>3, <1>4, <1>5, <1>6, <1>7, <1>8, <1>9, <1>10, <1>11,
     <1>12, <1>13, <1>14, <1>15, <1>16, <1>17 DEF Next, Worker, Api

\* Every reachable state is well typed; in particular no device ever has two
\* unresolved dependency incidents, or two unresolved threshold incidents of one
\* metric, which the queries of phase 2 and of _check_thresholds could not handle.
THEOREM TypeCorrect == Spec => []TypeOK
<1>1. QED
  BY TypeInit, TypeStep, PTL DEF Spec

-----------------------------------------------------------------------------
(***************************************************************************)
(* No false positives: DownAfterThreshold.                                 *)
(*                                                                         *)
(* The statement is about operators who do not write statuses themselves:  *)
(* PATCH leaves consecutive_failures as it was, so a device an operator    *)
(* has set from DOWN to UNKNOWN is marked DOWN by its next failed check.   *)
(***************************************************************************)

\* Assigning a status and its counter keeps what the invariant says of them.
LEMMA CommitSynced ==
  ASSUME TypeOK, SessionInSync, Commit, NEW d \in Devices
  PROVE  /\ row'[d].status = dev[d].status
         /\ row'[d].failures = dev[d].failures
<1>1. CASE d \in loaded
  BY <1>1 DEF TypeOK, SessionInSync, Commit, Committed, Row
<1>2. CASE d \notin loaded
  BY <1>2 DEF TypeOK, SessionInSync, Commit, Committed
<1>3. QED
  BY <1>1, <1>2

LEMMA CounterInit == Init => CounterInv
<1> SUFFICES ASSUME Init PROVE CounterInv
  OBVIOUS
<1>1. /\ \A d \in Devices : row[d].status = "unknown" /\ row[d].failures = 0
      /\ dev = row /\ streak = [d \in Devices |-> 0]
  BY DEF Init
<1>2. SessionInSync
  BY DEF Init, SessionInSync, Finished
<1>3. CountedInStreak(dev) /\ CountedInStreak(row)
  BY <1>1 DEF CountedInStreak
<1>4. DownIsCounted(dev) /\ DownIsCounted(row)
  BY <1>1 DEF DownIsCounted
<1>5. QED
  BY <1>2, <1>3, <1>4 DEF CounterInv

\* A rollback outside the checks, and the end of a cycle.
LEMMA CounterClose ==
  ASSUME TypeOK, CounterInv, phase # "check", UNCHANGED row, CloseSession,
         UNCHANGED <<streak, crashes>>
  PROVE  CounterInv'
<1>1. SessionInSync'
  BY DEF SessionInSync, CloseSession, Finished
<1>2. DownIsCounted(dev)' /\ DownIsCounted(row)'
  BY DEF CounterInv, DownIsCounted, CloseSession
<1>3. ASSUME crashes = 0 PROVE CountedInStreak(dev)' /\ CountedInStreak(row)'
  <2>1. CountedInStreak(row)
    BY <1>3 DEF CounterInv
  <2>2. QED
    BY <2>1 DEF CountedInStreak, CloseSession
<1>4. QED
  BY <1>1, <1>2, <1>3 DEF CounterInv

\* Assigning a status and the counter that belongs to it.
LEMMA CounterSet ==
  ASSUME TypeOK, CounterInv, NEW e \in Devices, e \in loaded,
         NEW status \in DeviceStatus, NEW failures \in 0 .. DownThreshold,
         NEW flapping \in BOOLEAN, SetDevice(e, status, failures, flapping),
         phase \in {"check", "cascade", "recover"},
         status = "down" => failures = DownThreshold,
         crashes = 0 /\ status # "down" => failures <= streak'[e],
         \A d \in Devices : d # e => streak'[d] = streak[d],
         \/ phase = "check"
         \/ streak' = streak,
         UNCHANGED <<row, phase, devices, loaded, crashes>>,
         todo' \subseteq todo,
         \A d \in Devices : task'[d].at # "done" => task[d].at # "done"
  PROVE  CounterInv'
<1>1. ASSUME NEW d \in Devices
      PROVE  /\ d = e => dev'[d].status = status /\ dev'[d].failures = failures
             /\ d # e => dev'[d] = dev[d]
             /\ d \notin dirty' => d \notin dirty /\ dev'[d].status = dev[d].status
  BY DEF TypeOK, SetDevice
<1>2. SessionInSync'
  <2>1. \A d \in Devices : d \notin dirty' => dev'[d].status = row'[d].status
    BY <1>1 DEF CounterInv, SessionInSync
  <2>2. \A d \in Devices : d \notin loaded' => dev'[d] = row'[d]
    BY <1>1 DEF CounterInv, SessionInSync
  <2>3. QED
    BY <2>1, <2>2 DEF CounterInv, SessionInSync
<1>3. DownIsCounted(dev)' /\ DownIsCounted(row)'
  BY <1>1 DEF CounterInv, DownIsCounted
<1>4. ASSUME crashes = 0 PROVE CountedInStreak(dev)'
  <2>1. CountedInStreak(dev)
    BY <1>4 DEF CounterInv
  <2>2. ASSUME NEW d \in Devices, dev'[d].status # "down"
        PROVE  dev'[d].failures <= streak'[d]
    <3>1. CASE d = e
      BY <1>1, <1>4, <2>2, <3>1
    <3>2. CASE d # e
      BY <1>1, <2>1, <2>2, <3>2 DEF CountedInStreak
    <3>3. QED
      BY <3>1, <3>2
  <2>3. QED
    BY <2>2 DEF CountedInStreak
<1>5. ASSUME crashes = 0, phase # "check" PROVE CountedInStreak(row)'
  <2>1. CountedInStreak(row) /\ streak' = streak /\ row' = row
    BY <1>5 DEF CounterInv
  <2>2. QED
    BY <2>1 DEF CountedInStreak
<1>6. QED
  BY <1>2, <1>3, <1>4, <1>5 DEF CounterInv

\* Bump is monotonic, and at or above the bound only at the bound.
LEMMA BumpOrder ==
  ASSUME NEW bound \in Nat, NEW m \in 0 .. bound, NEW n \in 0 .. bound
  PROVE  /\ Bump(n, bound) >= bound => Bump(n, bound) = bound
         /\ m <= n => Bump(m, bound) <= Bump(n, bound)
         /\ Bump(n, bound) < bound => n < bound
BY DEF Bump

LEMMA CounterCheckStep ==
  ASSUME TypeOK, CounterInv, NEW e \in Devices, CheckStep(e)
  PROVE  CounterInv'
<1> USE BoundsAssumption
<1>1. ASSUME NEW step \in TaskStep, TaskAt(e, step) \/ TaskEnds(e),
             task[e].at # "done"
      PROVE  \A d \in Devices : task'[d].at # "done" => task[d].at # "done"
  BY <1>1 DEF TypeOK, TaskAt, TaskEnds, Finished, Task
<1>2. CASE \/ Probe(e) \/ WindowsOverlap(e) \/ QueryRaises(e) \/ WithinThresholds(e)
           \/ \E metric \in ThresholdMetric : ThresholdExceeded(e, metric)
           \/ Recovery(e)
  <2>1. UNCHANGED <<row, phase, devices, loaded, dev, dirty, todo, streak, crashes>>
    BY <1>2 DEF Probe, WindowsOverlap, QueryRaises, WithinThresholds, ThresholdExceeded,
       Recovery, SendRaises, database, world, history
  <2>2. \A d \in Devices : task'[d].at # "done" => task[d].at # "done"
    <3>1. CASE Probe(e)
      BY <3>1 DEF TypeOK, Probe, Task
    <3>2. CASE UNCHANGED task
      BY <3>2
    <3>3. CASE ~ Probe(e) /\ ~ UNCHANGED task
      BY <1>1, <1>2, <3>3 DEF WindowsOverlap, QueryRaises, WithinThresholds,
         ThresholdExceeded, Recovery, TaskStep
    <3>4. QED
      BY <3>1, <3>2, <3>3
  <2>3. QED
    BY <2>1, <2>2 DEF CounterInv, SessionInSync, DownIsCounted, CountedInStreak
<1>3. dev[e].flapping \in BOOLEAN /\ dev[e].failures \in 0 .. DownThreshold
  BY DEF TypeOK, Row
<1>4. streak \in [Devices -> 0 .. DownThreshold]
  BY DEF TypeOK
<1>5. FlapVerdicts(e) \subseteq BOOLEAN
  BY <1>3 DEF FlapVerdicts
<1>6. task[e].at # "done" => e \in loaded
  BY DEF CounterInv, SessionInSync
<1>7. CASE EnterMaintenance(e)
  <2>1. /\ SetDevice(e, "maintenance", 0, dev[e].flapping)
        /\ phase = "check" /\ task[e].at # "done" /\ TaskEnds(e)
        /\ streak' = [streak EXCEPT ![e] = 0]
        /\ UNCHANGED <<row, phase, devices, loaded, todo, crashes>>
    BY <1>7 DEF EnterMaintenance, database
  <2>2. \A d \in Devices : task'[d].at # "done" => task[d].at # "done"
    BY <1>1, <2>1 DEF TaskStep
  <2>3. QED
    BY <1>3, <1>4, <1>6, <2>1, <2>2, CounterSet DEF DeviceStatus
<1>8. CASE CheckSucceeds(e)
  <2>1. PICK flapping \in BOOLEAN : SetDevice(e, "up", 0, flapping)
    BY <1>5, <1>8 DEF CheckSucceeds, ComesUp
  <2>2. /\ phase = "check" /\ task[e].at # "done" /\ TaskAt(e, "thresholds")
        /\ streak' = [streak EXCEPT ![e] = 0]
        /\ UNCHANGED <<row, phase, devices, loaded, todo, crashes>>
    BY <1>8 DEF CheckSucceeds, database
  <2>3. \A d \in Devices : task'[d].at # "done" => task[d].at # "done"
    BY <1>1, <2>2 DEF TaskStep
  <2>4. QED
    BY <1>4, <1>6, <2>1, <2>2, <2>3, CounterSet DEF DeviceStatus
<1>9. CASE CheckFails(e)
  <2> DEFINE failures == Bump(dev[e].failures, DownThreshold)
             isDown   == failures >= DownThreshold
             status   == IF isDown THEN "down" ELSE "degraded"
  <2>1. failures \in 0 .. DownThreshold
    BY <1>3, BumpType
  <2>2. PICK flapping \in BOOLEAN : SetDevice(e, status, failures, flapping)
    BY <1>5, <1>9 DEF CheckFails
  <2>3. /\ phase = "check" /\ task[e].at # "done" /\ TaskEnds(e)
        /\ streak' = [streak EXCEPT ![e] = Bump(@, DownThreshold)]
        /\ UNCHANGED <<row, phase, devices, loaded, todo, crashes>>
    BY <1>9 DEF CheckFails, database
  <2>4. \A d \in Devices : task'[d].at # "done" => task[d].at # "done"
    BY <1>1, <2>3 DEF TaskStep
  <2>5. status \in DeviceStatus
    BY DEF DeviceStatus
  <2>6. status = "down" => failures = DownThreshold
    BY <1>3, BumpOrder
  <2>7. crashes = 0 /\ status # "down" => failures <= streak'[e]
    <3>1. SUFFICES ASSUME crashes = 0, status # "down"
                   PROVE  failures <= streak'[e]
      OBVIOUS
    <3>2. dev[e].failures < DownThreshold
      BY <1>3, <2>1, <3>1, BumpOrder
    <3>3. dev[e].status # "down"
      BY <1>3, <3>2 DEF CounterInv, DownIsCounted
    <3>4. dev[e].failures <= streak[e]
      <4>1. CountedInStreak(dev)
        BY <3>1 DEF CounterInv
      <4>2. QED
        BY <3>3, <4>1 DEF CountedInStreak
    <3>5. streak[e] \in 0 .. DownThreshold /\ streak'[e] = Bump(streak[e], DownThreshold)
      BY <1>4, <2>3
    <3>6. QED
      BY <1>3, <3>4, <3>5, BumpOrder
  <2>8. \A d \in Devices : d # e => streak'[d] = streak[d]
    BY <1>4, <2>3
  <2> HIDE DEF failures, status
  <2>9. QED
    BY <1>6, <2>1, <2>2, <2>3, <2>4, <2>5, <2>6, <2>7, <2>8, CounterSet
<1>10. QED
  BY <1>2, <1>7, <1>8, <1>9 DEF CheckStep
LEMMA CounterPropagateStep ==
  ASSUME TypeOK, CounterInv, NEW e \in Devices, PropagateStep(e)
  PROVE  CounterInv'
<1> USE BoundsAssumption
<1>1. dev[e].flapping \in BOOLEAN
  BY DEF TypeOK, Row
<1>2. streak \in [Devices -> 0 .. DownThreshold]
  BY DEF TypeOK
<1>3. CASE Cascade(e)
  <2>1. /\ SetDevice(e, "down", DownThreshold, dev[e].flapping)
        /\ phase = "cascade" /\ e \in devices
        /\ UNCHANGED <<row, phase, devices, loaded, todo, task, streak, crashes>>
    BY <1>3 DEF Cascade, FallsByDependency, Cascades, database, history
  <2>2. e \in loaded
    BY <2>1 DEF CounterInv, SessionInSync
  <2>3. QED
    BY <1>1, <2>1, <2>2, CounterSet DEF DeviceStatus
<1>4. CASE CascadeRaises(e)
  BY <1>4, CounterClose DEF CascadeRaises, Rollback, database, history
<1>5. CASE Recover(e)
  <2>1. /\ SetDevice(e, "up", 0, dev[e].flapping)
        /\ phase = "recover" /\ e \in todo /\ todo' \subseteq todo
        /\ UNCHANGED <<row, phase, devices, loaded, task, streak, crashes>>
    BY <1>5 DEF Recover, ComesUp, database, history
  <2>2. e \in loaded
    BY <2>1 DEF CounterInv, SessionInSync
  <2>3. 0 <= streak[e]
    BY <1>2
  <2>4. QED
    BY <1>1, <2>1, <2>2, <2>3, CounterSet DEF DeviceStatus
<1>6. CASE DoNotRecover(e)
  BY <1>6 DEF DoNotRecover, database, history, CounterInv, SessionInSync,
     DownIsCounted, CountedInStreak
<1>7. QED
  BY <1>3, <1>4, <1>5, <1>6 DEF PropagateStep

\* The commit that ends the checks, or the recovery loop.
LEMMA CounterCommit ==
  ASSUME TypeOK, CounterInv, Commit, UNCHANGED <<streak, crashes>>,
         \A d \in Devices : dev'[d] = IF d \in loaded THEN dev[d] ELSE row'[d],
         loaded \subseteq loaded', devices' \subseteq loaded', phase' # "recover",
         \A d \in Devices : task'[d].at # "done" => task[d].at # "done"
  PROVE  CounterInv'
<1>1. ASSUME NEW d \in Devices
      PROVE  /\ row'[d].status = dev[d].status /\ row'[d].failures = dev[d].failures
             /\ dev'[d].status = dev[d].status /\ dev'[d].failures = dev[d].failures
             /\ d \notin loaded => dev'[d] = row'[d]
  BY CommitSynced DEF CounterInv
<1>2. SessionInSync'
  BY <1>1 DEF CounterInv, SessionInSync, Commit
<1>3. DownIsCounted(dev)' /\ DownIsCounted(row)'
  BY <1>1 DEF CounterInv, DownIsCounted
<1>4. ASSUME crashes = 0 PROVE CountedInStreak(dev)' /\ CountedInStreak(row)'
  <2>1. CountedInStreak(dev)
    BY <1>4 DEF CounterInv
  <2>2. QED
    BY <1>1, <2>1 DEF CountedInStreak
<1>5. QED
  BY <1>2, <1>3, <1>4 DEF CounterInv

LEMMA CounterStep ==
  ASSUME Patches = {}, TypeOK, CounterInv, [Next]_vars
  PROVE  CounterInv'
<1>1. CASE StartCycle
  <2>1. /\ phase = "idle" /\ phase' = "check" /\ dev' = row
        /\ devices' = Monitored /\ loaded' = Monitored
        /\ UNCHANGED <<row, streak, crashes>>
        /\ task' = [d \in Devices |-> IF d \in Monitored THEN Started ELSE Finished]
    BY <1>1 DEF StartCycle, database, history
  <2>2. SessionInSync'
    BY <2>1 DEF SessionInSync, Finished
  <2>3. DownIsCounted(dev)' /\ DownIsCounted(row)'
    BY <2>1 DEF CounterInv, DownIsCounted
  <2>4. ASSUME crashes = 0 PROVE CountedInStreak(dev)'
    <3>1. CountedInStreak(row)
      BY <2>1, <2>4 DEF CounterInv
    <3>2. QED
      BY <2>1, <3>1 DEF CountedInStreak
  <2>5. QED
    BY <2>1, <2>2, <2>3, <2>4 DEF CounterInv
<1>2. ASSUME NEW d \in Devices, CheckStep(d) PROVE CounterInv'
  BY <1>2, CounterCheckStep
<1>3. ASSUME NEW d \in Devices, PropagateStep(d) PROVE CounterInv'
  BY <1>3, CounterPropagateStep
<1>4. CASE EndChecks
  <2>1. /\ Commit /\ phase' = "refetch"
        /\ UNCHANGED <<devices, loaded, dev, task, streak, crashes>>
    BY <1>4 DEF EndChecks
  <2>2. \A d \in Devices : d \notin loaded => row'[d] = dev[d]
    BY <2>1 DEF TypeOK, Commit, Committed, CounterInv, SessionInSync
  <2>3. devices \subseteq loaded
    BY DEF CounterInv, SessionInSync
  <2>4. QED
    BY <2>1, <2>2, <2>3, CounterCommit
<1>5. CASE EndCascade
  BY <1>5 DEF EndCascade, database, history, CounterInv, SessionInSync,
     DownIsCounted, CountedInStreak
<1>6. CASE EndRecover
  <2>1. /\ Commit /\ phase' = "links"
        /\ UNCHANGED <<devices, loaded, dev, task, streak, crashes>>
    BY <1>6 DEF EndRecover, history
  <2>2. \A d \in Devices : d \notin loaded => row'[d] = dev[d]
    BY <2>1 DEF TypeOK, Commit, Committed, CounterInv, SessionInSync
  <2>3. devices \subseteq loaded
    BY DEF CounterInv, SessionInSync
  <2>4. QED
    BY <2>1, <2>2, <2>3, CounterCommit
<1>7. CASE UpdateLinks
  BY <1>7 DEF UpdateLinks, history, CounterInv, SessionInSync, DownIsCounted,
     CountedInStreak
<1>8. CASE RunRCA
  BY <1>8, CounterClose DEF RunRCA, database, history
<1>9. CASE SendAborts
  BY <1>9, CounterClose DEF SendAborts, SendRaises, Rollback, database
<1>10. CASE Crash
  <2>1. /\ UNCHANGED row /\ crashes' # 0 /\ dev' = row /\ phase' = "idle"
        /\ devices' = {} /\ task' = [d \in Devices |-> Finished]
    BY <1>10 DEF Crash, Rollback, CloseSession, database, TypeOK
  <2>2. SessionInSync'
    BY <2>1 DEF SessionInSync, Finished
  <2>3. DownIsCounted(dev)' /\ DownIsCounted(row)'
    BY <2>1 DEF CounterInv, DownIsCounted
  <2>4. QED
    BY <2>1, <2>2, <2>3 DEF CounterInv
<1>11. ASSUME NEW d \in Devices, Flip(d) \/ ChangeWindows(d) PROVE CounterInv'
  BY <1>11 DEF Flip, ChangeWindows, database, session, history, CounterInv,
     SessionInSync, DownIsCounted, CountedInStreak
<1>12. ASSUME NEW d \in Devices, Api(d) PROVE CounterInv'
  <2>1. ~ PatchStatus(d)
    BY DEF PatchStatus
  <2>2. UNCHANGED <<row, phase, devices, loaded, dev, dirty, task, todo, streak,
                    crashes>>
    BY <1>12, <2>1 DEF Api, RebootFails, ResolveIncident, history
  <2>3. QED
    BY <2>2 DEF CounterInv, SessionInSync, DownIsCounted, CountedInStreak
<1>13. CASE UNCHANGED vars
  BY <1>13 DEF vars, database, session, history, CounterInv, SessionInSync,
     DownIsCounted, CountedInStreak
<1>14. CASE SelectAgain
  <2>1. /\ phase' = "cascade" /\ devices' = Monitored
        /\ loaded' = loaded \union Monitored
        /\ UNCHANGED <<row, dirty, task, streak, crashes>> /\ phase = "refetch"
    BY <1>14 DEF SelectAgain, Refetch, database, history
  <2>2. dev' = dev
    BY <1>14 DEF SelectAgain, Refetch, CounterInv, SessionInSync, TypeOK
  <2>3. QED
    BY <2>1, <2>2 DEF CounterInv, SessionInSync, DownIsCounted, CountedInStreak
<1>15. QED
  BY <1>1, <1>2, <1>3, <1>4, <1>5, <1>6, <1>7, <1>8, <1>9, <1>10, <1>11,
     <1>12, <1>13, <1>14 DEF Next, Worker

\* The invariant forbids the steps that DownAfterThreshold forbids.
LEMMA CounterForbids ==
  ASSUME Patches = {}, TypeOK, CounterInv, [Next]_vars
  PROVE  MarksDownAfterThreshold
<1> SUFFICES ASSUME NEW e \in Devices, phase = "check", crashes' = 0,
                    dev[e].status # "down", dev'[e].status = "down"
             PROVE  streak'[e] = DownThreshold
  BY DEF MarksDownAfterThreshold
<1>1. dev' # dev
  OBVIOUS
<1>2. PICK d \in Devices : EnterMaintenance(d) \/ CheckSucceeds(d) \/ CheckFails(d)
  <2>1. ~ StartCycle /\ ~ RunRCA /\ ~ SendAborts /\ ~ EndRecover
    BY DEF StartCycle, RunRCA, SendAborts, EndRecover
  <2>2. ~ Crash
    BY DEF Crash, TypeOK
  <2>3. ~ EndChecks /\ ~ SelectAgain
    BY DEF EndChecks, SelectAgain
  <2>4. \A d \in Devices : ~ PropagateStep(d)
    BY DEF PropagateStep, Cascade, CascadeRaises, Recover, DoNotRecover
  <2>5. QED
    BY <1>1, <2>1, <2>2, <2>3, <2>4
       DEF Next, Worker, CheckStep, Api, Probe, WindowsOverlap, QueryRaises, WithinThresholds,
           ThresholdExceeded, Recovery, EndCascade, UpdateLinks, Flip,
           ChangeWindows, PatchStatus, RebootFails, ResolveIncident, session, vars
<1>3. CASE EnterMaintenance(d) \/ CheckSucceeds(d)
  BY <1>3 DEF EnterMaintenance, CheckSucceeds, ComesUp, SetDevice, TypeOK
<1>4. CASE CheckFails(d)
  <2> DEFINE failures == Bump(dev[d].failures, DownThreshold)
  <2>1. PICK flapping \in FlapVerdicts(d) :
          SetDevice(d, IF failures >= DownThreshold THEN "down" ELSE "degraded",
                    failures, flapping)
    BY <1>4 DEF CheckFails
  <2>2. e = d /\ failures >= DownThreshold
    BY <2>1 DEF SetDevice, TypeOK
  <2>3. dev[e].failures \in 0 .. DownThreshold /\ streak[e] \in 0 .. DownThreshold
    BY DEF TypeOK, Row
  <2>4. crashes = 0 /\ streak'[e] = Bump(streak[e], DownThreshold)
    BY <1>4, <2>2 DEF CheckFails, TypeOK
  <2>5. dev[e].failures <= streak[e]
    <3>1. CountedInStreak(dev)
      BY <2>4 DEF CounterInv
    <3>2. QED
      BY <3>1 DEF CountedInStreak
  <2>6. QED
    BY <2>2, <2>3, <2>4, <2>5, BoundsAssumption DEF Bump
<1>5. QED
  BY <1>2, <1>3, <1>4
\* If operators write no statuses, then until the first restart every check
\* that marks a device DOWN is the last of DownThreshold failed checks in a
\* row, whatever cascades, recoveries, maintenance windows and abandoned
\* cycles did to consecutive_failures before.
THEOREM NoFalsePositives ==
  ASSUME Patches = {}
  PROVE  Spec => DownAfterThreshold
<1>1. Spec => [](TypeOK /\ CounterInv)
  <2>1. Init => TypeOK /\ CounterInv
    BY TypeInit, CounterInit
  <2>2. TypeOK /\ CounterInv /\ [Next]_vars => (TypeOK /\ CounterInv)'
    BY TypeStep, CounterStep
  <2>3. QED
    BY <2>1, <2>2, PTL DEF Spec
<1>2. TypeOK /\ CounterInv /\ [Next]_vars => [MarksDownAfterThreshold]_vars
  BY CounterForbids
<1>3. QED
  BY <1>1, <1>2, PTL DEF Spec, DownAfterThreshold

-----------------------------------------------------------------------------
(***************************************************************************)
(* The cascade is closed, in every hierarchy and under every interference. *)
(***************************************************************************)
LEMMA ClosedStep ==
  ASSUME TypeOK, CascadeIsClosed, [Next]_vars
  PROVE  CascadeIsClosed'
<1> SUFFICES ASSUME phase' \in {"recover", "links", "rca"},
                    NEW d \in Devices, d \in devices', ParentIs(d, "down")'
             PROVE  dev'[d].status = "down"
  BY TypeStep DEF CascadeIsClosed, TypeOK
<1>1. CASE EndCascade
  BY <1>1 DEF EndCascade, Cascades, ParentIs
<1>2. ASSUME NEW e \in Devices, Recover(e) PROVE dev'[d].status = "down"
  <2>1. /\ SetDevice(e, "up", 0, dev[e].flapping) /\ phase = "recover"
        /\ devices' = devices /\ dev[e].status = "down" /\ ParentIs(e, "up")
    BY <1>2 DEF Recover, ComesUp, FellByDependency
  <2>2. /\ dev' \in [Devices -> Row] /\ dev'[e].status = "up"
        /\ \A x \in Devices : x # e => dev'[x] = dev[x]
    BY <2>1, TypeStep DEF SetDevice, TypeOK
  <2>3. Parent[d] # e /\ Parent[d] \in devices
    BY <2>1, <2>2 DEF ParentIs
  <2>4. dev[Parent[d]].status = "down"
    BY <2>1, <2>2, <2>3 DEF ParentIs, TypeOK
  <2>5. dev[d].status = "down"
    BY <2>1, <2>3, <2>4 DEF CascadeIsClosed, ParentIs
  <2>6. d # e
    BY <2>1, <2>4 DEF ParentIs
  <2>7. QED
    BY <2>2, <2>5, <2>6
<1>3. CASE UNCHANGED <<devices, dev>> /\ phase \in {"recover", "links", "rca"}
  BY <1>3 DEF CascadeIsClosed, ParentIs
<1>4. QED
  <2>1. /\ ~ StartCycle /\ ~ EndChecks /\ ~ SelectAgain
        /\ ~ RunRCA /\ ~ SendAborts /\ ~ Crash
    BY DEF StartCycle, EndChecks, SelectAgain, RunRCA, SendAborts, Crash, Rollback, CloseSession
  <2>2. \A e \in Devices : ~ CheckStep(e) /\ ~ Cascade(e) /\ ~ CascadeRaises(e)
    BY DEF CheckStep, Probe, WindowsOverlap, QueryRaises, EnterMaintenance, CheckSucceeds,
       CheckFails, WithinThresholds, ThresholdExceeded, Recovery, Cascade,
       CascadeRaises, Rollback, CloseSession
  <2>3. QED
    BY <1>1, <1>2, <1>3, <2>1, <2>2
       DEF Next, Worker, PropagateStep, DoNotRecover, EndRecover, UpdateLinks,
           Api, Flip, ChangeWindows, PatchStatus, RebootFails, ResolveIncident,
           session, vars

\* The cascade leaves no monitored device better than DOWN below a monitored
\* device that is DOWN, and the recoveries of phase 2 do not reopen it.
THEOREM CascadeClosed == Spec => []CascadeIsClosed
<1>1. Init => CascadeIsClosed
  BY DEF Init, CascadeIsClosed
<1>2. TypeOK /\ CascadeIsClosed /\ [Next]_vars => CascadeIsClosed'
  BY ClosedStep
<1>3. QED
  BY <1>1, <1>2, TypeCorrect, PTL DEF Spec

\* And if operators write no statuses, neither do the committed rows.
THEOREM CommittedCascadeClosed ==
  ASSUME Patches = {}
  PROVE  Spec => []CommittedCascadeIsClosed
<1>1. TypeOK /\ CounterInv /\ CascadeIsClosed => CommittedCascadeIsClosed
  BY DEF CounterInv, SessionInSync, CascadeIsClosed, CommittedCascadeIsClosed,
     ParentIs, TypeOK
<1>2. Init => CounterInv
  BY CounterInit
<1>3. TypeOK /\ CounterInv /\ [Next]_vars => CounterInv'
  BY CounterStep
<1>4. QED
  BY <1>1, <1>2, <1>3, TypeCorrect, CascadeClosed, PTL DEF Spec
=============================================================================
