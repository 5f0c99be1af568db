--------------------------- MODULE IncidentProofs ---------------------------
(***************************************************************************)
(* Theorems about the monitor's incidents: an outage is announced, once,   *)
(* and closed with the recovery, for every set of devices, hierarchy and   *)
(* threshold, through restarts at any point.                               *)
(*                                                                         *)
(* Those are about operators who do not write statuses (Patches = {}) and  *)
(* about checks that finish: a broadcast or a query that raises skips the  *)
(* rest of a check, its recovery included.  That maintenance is silent     *)
(* needs neither.                                                          *)
(***************************************************************************)
EXTENDS MonitorProofs

\* A device that is in service has no open outage.
InService == {"up", "degraded", "unknown"}

Closed(status, counts) == status \in InService => Outages(counts) = 0

\* A check that has set the status UP has still to resolve the incidents.
Resolving(d) == task[d].at \in {"thresholds", "recovery"}

SessionOutage(d) ==
  IF Resolving(d)
  THEN /\ dev[d].status = "up"
       /\ task[d].previous \in {"down", "degraded"} \/ Outages(pending[d]) = 0
  ELSE Closed(dev[d].status, pending[d])

\* Until its check applies the result, an object is as it was loaded.
Unchecked(d) ==
  task[d].at \in {"probe", "apply"} =>
    /\ dev[d].status # "maintenance"
    /\ d \notin dirty
    /\ task[d].at = "apply" => task[d].previous = dev[d].status

DeviceInv(d) ==
  /\ Outages(incidents[d]) < 2 /\ Closed(row[d].status, incidents[d])
  /\ Outages(pending[d]) < 2 /\ SessionOutage(d)
  /\ Unchecked(d)

PhaseInv ==
  /\ phase = "idle" => pending = incidents /\ dirty = {}
  /\ phase # "check" => \A d \in Devices : task[d].at = "done"
  /\ phase = "refetch" => dirty = {}
  /\ phase \in {"cascade", "recover"} =>
       \A d \in devices : dev[d].status # "maintenance"

OutageInv == PhaseInv /\ \A d \in Devices : DeviceInv(d)

\* Without flapping and without operators who resolve incidents, a device
\* that is DOWN has an unresolved one.
Announced(status, counts) == status = "down" => Unresolved(counts) > 0

AnnouncedInv ==
  \A d \in Devices :
    /\ row[d].flapping = FALSE /\ dev[d].flapping = FALSE
    /\ Announced(row[d].status, incidents[d])
    /\ Announced(dev[d].status, pending[d])

\* Outages are the only incidents.
OtherKind == {"reboot"} \union ThresholdMetric

PlainInv ==
  \A d \in Devices : \A k \in OtherKind : incidents[d][k] = 0 /\ pending[d][k] = 0

\* What a cycle may have made of the status of a row.
CycleInv ==
  \A d \in Devices :
    /\ dev[d].status = "degraded" => row[d].status # "down"
    /\ dev[d].status = "unknown" => row[d].status = "unknown"
    /\ row[d].status = "maintenance" => dev[d].status = "maintenance"

Inv == TypeOK /\ CounterInv /\ OutageInv

-----------------------------------------------------------------------------
(***************************************************************************)
(* Lemmas about the counts and the steps of one device.                    *)
(***************************************************************************)

\* The counts are naturals, and outages are unresolved incidents.
LEMMA CountsFacts ==
  ASSUME BoundsAssumption, NEW c \in IncidentCounts
  PROVE  /\ \A k \in IncidentKind : c[k] \in Nat
         /\ Outages(c) \in Nat /\ Unresolved(c) \in Nat
         /\ Outages(c) <= Unresolved(c)
         /\ (\A k \in OtherKind : c[k] = 0) => Unresolved(c) = Outages(c)
<1>1. \A k \in IncidentKind : c[k] \in Nat
  BY DEF IncidentCounts
<1>2. /\ c["own"] \in Nat /\ c["dependency"] \in Nat /\ c["reboot"] \in Nat
      /\ c["latency"] \in Nat /\ c["loss"] \in Nat
  BY <1>1 DEF IncidentKind, ThresholdMetric
<1>3. ASSUME \A k \in OtherKind : c[k] = 0 PROVE Unresolved(c) = Outages(c)
  <2>1. c["reboot"] = 0 /\ c["latency"] = 0 /\ c["loss"] = 0
    BY <1>3 DEF OtherKind, ThresholdMetric
  <2>2. QED
    BY <1>2, <2>1 DEF Outages, Unresolved
<1>4. QED
  BY <1>1, <1>2, <1>3 DEF Outages, Unresolved

LEMMA NothingUnresolved == Outages(NoIncidents) = 0 /\ Unresolved(NoIncidents) = 0
BY DEF NoIncidents, Outages, Unresolved, IncidentKind, ThresholdMetric

\* Only the outage kinds count as outages.
LEMMA ChangeCount ==
  ASSUME BoundsAssumption, NEW c \in IncidentCounts, NEW k \in IncidentKind, NEW n \in Nat
  PROVE  /\ k \in OtherKind => Outages([c EXCEPT ![k] = n]) = Outages(c)
         /\ k \in {"own", "dependency"} =>
              Outages([c EXCEPT ![k] = n]) = Outages(c) - c[k] + n
         /\ Unresolved([c EXCEPT ![k] = n]) = Unresolved(c) - c[k] + n
<1>1. \A j \in IncidentKind : c[j] \in Nat /\ [c EXCEPT ![k] = n][j] = IF j = k THEN n ELSE c[j]
  BY CountsFacts DEF IncidentCounts
<1>2. /\ c["own"] \in Nat /\ c["dependency"] \in Nat /\ c["reboot"] \in Nat
      /\ c["latency"] \in Nat /\ c["loss"] \in Nat
  BY <1>1 DEF IncidentKind, ThresholdMetric
<1>3. ASSUME NEW j \in IncidentKind
      PROVE  [c EXCEPT ![k] = n][j] = IF j = k THEN n ELSE c[j]
  BY <1>1, <1>3
<1>4. \A j \in {"own", "dependency", "reboot", "latency", "loss"} :
        [c EXCEPT ![k] = n][j] = IF j = k THEN n ELSE c[j]
  BY <1>3 DEF IncidentKind, ThresholdMetric
<1>5. CASE k = "own"
  BY <1>2, <1>4, <1>5 DEF OtherKind, ThresholdMetric, Outages, Unresolved
<1>6. CASE k = "dependency"
  BY <1>2, <1>4, <1>6 DEF OtherKind, ThresholdMetric, Outages, Unresolved
<1>7. CASE k = "reboot"
  BY <1>2, <1>4, <1>7 DEF OtherKind, ThresholdMetric, Outages, Unresolved
<1>8. CASE k = "latency"
  BY <1>2, <1>4, <1>8 DEF OtherKind, ThresholdMetric, Outages, Unresolved
<1>9. CASE k = "loss"
  BY <1>2, <1>4, <1>9 DEF OtherKind, ThresholdMetric, Outages, Unresolved
<1>10. QED
  BY <1>5, <1>6, <1>7, <1>8, <1>9 DEF IncidentKind, ThresholdMetric

\* Nothing but one device, its coroutine and its incidents has changed.
Frame(e) ==
  /\ UNCHANGED <<row, incidents>>
  /\ \A d \in Devices \ {e} :
       /\ dev'[d] = dev[d] /\ pending'[d] = pending[d] /\ task'[d] = task[d]
       /\ d \in dirty' <=> d \in dirty

LEMMA FrameKeeps ==
  ASSUME OutageInv, NEW e \in Devices, Frame(e),
         Outages(pending'[e]) < 2, SessionOutage(e)', Unchecked(e)'
  PROVE  \A d \in Devices : DeviceInv(d)'
<1>1. DeviceInv(e)'
  BY DEF OutageInv, DeviceInv, Frame
<1>2. ASSUME NEW d \in Devices \ {e} PROVE DeviceInv(d)'
  BY <1>2 DEF OutageInv, DeviceInv, Frame, SessionOutage, Resolving, Unchecked
<1>3. QED
  BY <1>1, <1>2

\* An assignment to the object of one device.
LEMMA SetDeviceFacts ==
  ASSUME TypeOK, NEW e \in Devices, NEW status, NEW failures, NEW flapping,
         SetDevice(e, status, failures, flapping)
  PROVE  /\ dev'[e].status = status /\ dev'[e].flapping = flapping
         /\ \A d \in Devices \ {e} : dev'[d] = dev[d] /\ (d \in dirty' <=> d \in dirty)
BY DEF TypeOK, SetDevice

LEMMA TaskFacts ==
  ASSUME TypeOK, NEW e \in Devices, NEW step, TaskAt(e, step) \/ TaskEnds(e)
  PROVE  /\ \A d \in Devices \ {e} : task'[d] = task[d]
         /\ TaskAt(e, step) => task'[e].at = step /\ task'[e].previous = task[e].previous
         /\ TaskEnds(e) => task'[e].at = "done"
BY DEF TypeOK, Task, TaskAt, TaskEnds, Finished

-----------------------------------------------------------------------------
(***************************************************************************)
(* The incidents agree with the statuses, in the session and in the rows.  *)
(***************************************************************************)
LEMMA OutageInit == Init => OutageInv
<1> SUFFICES ASSUME Init PROVE OutageInv
  OBVIOUS
<1>1. \A d \in Devices : /\ row[d].status = "unknown" /\ dev[d].status = "unknown"
                         /\ incidents[d] = NoIncidents /\ pending[d] = NoIncidents
                         /\ task[d].at = "done"
  BY DEF Init, Finished
<1>2. PhaseInv
  BY <1>1 DEF Init, PhaseInv
<1>3. \A d \in Devices : DeviceInv(d)
  BY <1>1, NothingUnresolved DEF DeviceInv, Closed, SessionOutage, Resolving, Unchecked
<1>4. QED
  BY <1>2, <1>3 DEF OutageInv

\* No broadcast of a threshold and no query raises and skips the recovery.
ChecksFinish == (Thresholded = {} \/ MaxLostSends = 0) /\ MaxLostQueries = 0

LEMMA NoQueryRaises ==
  ASSUME ChecksFinish, TypeOK, NEW d \in Devices
  PROVE  ~ QueryRaises(d)
BY DEF ChecksFinish, TypeOK, QueryRaises

\* The failed check: an outage is opened only for a device in service.
LEMMA OutageCheckFails ==
  ASSUME Inv, NEW e \in Devices, CheckFails(e)
  PROVE  /\ Frame(e) /\ Outages(pending'[e]) < 2
         /\ SessionOutage(e)' /\ Unchecked(e)'
         /\ dev'[e].status = "degraded" => dev[e].status # "down" /\ pending'[e] = pending[e]
         /\ dev'[e].status \in {"degraded", "down"}
         /\ dev'[e].status = "down" /\ dev'[e].flapping = FALSE =>
              IF dev[e].status = "down" THEN pending'[e] = pending[e]
                                        ELSE pending'[e]["own"] > 0
<1> USE BoundsAssumption
<1> DEFINE failures == Bump(dev[e].failures, DownThreshold)
           isDown   == failures >= DownThreshold
<1>1. PICK flapping \in FlapVerdicts(e) :
        /\ SetDevice(e, IF isDown THEN "down" ELSE "degraded", failures, flapping)
        /\ pending' = IF isDown /\ AnnouncesOutage(e, flapping)
                      THEN [pending EXCEPT ![e]["own"] = Bump(@, MaxOpen)]
                      ELSE pending
  BY DEF CheckFails
<1>2. /\ phase = "check" /\ task[e].at = "apply" /\ TaskEnds(e)
      /\ UNCHANGED <<row, incidents, link>>
  BY DEF CheckFails, database
<1>3. /\ dev'[e].status = IF isDown THEN "down" ELSE "degraded"
      /\ dev'[e].flapping = flapping
      /\ \A d \in Devices \ {e} : dev'[d] = dev[d] /\ (d \in dirty' <=> d \in dirty)
  BY <1>1, SetDeviceFacts DEF Inv
<1>4. task'[e].at = "done" /\ \A d \in Devices \ {e} : task'[d] = task[d]
  BY <1>2, TaskFacts DEF Inv
<1>5. pending \in [Devices -> IncidentCounts] /\ dev[e] \in Row
  BY DEF Inv, TypeOK
<1>6. /\ task[e].previous = dev[e].status /\ dev[e].status # "maintenance"
      /\ Closed(dev[e].status, pending[e]) /\ Outages(pending[e]) < 2
  BY <1>2 DEF Inv, OutageInv, DeviceInv, Unchecked, SessionOutage, Resolving
<1>7. dev[e].status = "down" => isDown
  <2>1. dev[e].status = "down" => dev[e].failures = DownThreshold
    BY DEF Inv, CounterInv, DownIsCounted
  <2>2. QED
    BY <2>1 DEF Bump
<1>8. dev[e].status # "down" => Outages(pending[e]) = 0
  BY <1>5, <1>6 DEF Row, DeviceStatus, Closed, InService
<1>9. CASE isDown /\ AnnouncesOutage(e, flapping)
  <2>1. dev[e].status # "down" /\ Outages(pending[e]) = 0
    BY <1>6, <1>8, <1>9 DEF AnnouncesOutage
  <2>2. pending[e]["own"] \in Nat /\ pending[e]["dependency"] \in Nat
    BY <1>5, CountsFacts DEF IncidentKind
  <2>3. pending[e]["own"] = 0
    BY <2>1, <2>2 DEF Outages
  <2>4. pending' = [pending EXCEPT ![e] = [pending[e] EXCEPT !["own"] = 1]]
    <3>1. Bump(pending[e]["own"], MaxOpen) = 1
      BY <2>3 DEF Bump
    <3>2. QED
      BY <1>1, <1>9, <3>1
  <2>5. Outages(pending'[e]) = 1 /\ pending'[e]["own"] = 1
    <3>1. pending'[e] = [pending[e] EXCEPT !["own"] = 1]
      BY <1>5, <2>4
    <3>2. pending[e] \in IncidentCounts /\ "own" \in IncidentKind
      BY <1>5 DEF IncidentKind
    <3>3. Outages(pending'[e]) = Outages(pending[e]) - pending[e]["own"] + 1
      BY <3>1, <3>2, ChangeCount
    <3>4. QED
      BY <2>1, <2>3, <3>1, <3>2, <3>3 DEF IncidentCounts
  <2>6. QED
    BY <1>2, <1>3, <1>4, <1>5, <1>9, <2>1, <2>4, <2>5
       DEF Frame, SessionOutage, Resolving, Unchecked, Closed, InService
<1>10. CASE ~ (isDown /\ AnnouncesOutage(e, flapping))
  <2>1. pending' = pending
    BY <1>1, <1>10
  <2>2. Closed(dev'[e].status, pending'[e])
    BY <1>3, <1>7, <1>8, <2>1 DEF Closed, InService
  <2>3. dev'[e].status = "down" /\ dev'[e].flapping = FALSE => dev[e].status = "down"
    BY <1>3, <1>6, <1>10 DEF AnnouncesOutage
  <2>4. QED
    BY <1>2, <1>3, <1>4, <1>6, <1>7, <2>1, <2>2, <2>3
       DEF Frame, SessionOutage, Resolving, Unchecked
<1>11. QED
  BY <1>9, <1>10

\* The checks that succeed, and what follows them.
LEMMA OutageCheckStep ==
  ASSUME ChecksFinish, Inv, NEW e \in Devices, CheckStep(e)
  PROVE  OutageInv'
<1> USE BoundsAssumption
<1>1. /\ DeviceInv(e) /\ Outages(pending[e]) < 2
      /\ pending \in [Devices -> IncidentCounts] /\ dev[e] \in Row
  BY DEF Inv, OutageInv, DeviceInv, TypeOK
<1>2. phase' = "check"
  BY DEF CheckStep, Probe, WindowsOverlap, QueryRaises, EnterMaintenance, CheckSucceeds, CheckFails,
     WithinThresholds, ThresholdExceeded, Recovery
<1>3. SUFFICES /\ Frame(e) /\ Outages(pending'[e]) < 2
               /\ SessionOutage(e)' /\ Unchecked(e)'
  <2>1. PhaseInv'
    BY <1>2 DEF PhaseInv
  <2>2. QED
    BY <2>1, FrameKeeps DEF Inv, OutageInv
<1>4. CASE Probe(e)
  <2>1. /\ task[e].at = "probe" /\ task'[e].at = "apply"
        /\ task'[e].previous = dev[e].status
        /\ \A d \in Devices \ {e} : task'[d] = task[d]
    BY <1>4 DEF Probe, Inv, TypeOK
  <2>2. UNCHANGED <<row, incidents, dev, dirty, pending>>
    BY <1>4 DEF Probe, database
  <2>3. QED
    BY <1>1, <2>1, <2>2 DEF Frame, DeviceInv, SessionOutage, Resolving, Unchecked
<1>5. CASE WindowsOverlap(e)
  <2>1. task[e].at = "apply" /\ TaskEnds(e) /\ UNCHANGED <<row, incidents, dev, dirty, pending>>
    BY <1>5 DEF WindowsOverlap, database
  <2>2. task'[e].at = "done" /\ \A d \in Devices \ {e} : task'[d] = task[d]
    BY <2>1, TaskFacts DEF Inv
  <2>3. QED
    BY <1>1, <2>1, <2>2 DEF Frame, DeviceInv, SessionOutage, Resolving, Unchecked
<1>6. CASE EnterMaintenance(e)
  <2>1. /\ SetDevice(e, "maintenance", 0, dev[e].flapping) /\ TaskEnds(e)
        /\ UNCHANGED <<row, incidents, pending>>
    BY <1>6 DEF EnterMaintenance, database
  <2>2. task'[e].at = "done" /\ \A d \in Devices \ {e} : task'[d] = task[d]
    BY <2>1, TaskFacts DEF Inv
  <2>3. /\ dev'[e].status = "maintenance"
        /\ \A d \in Devices \ {e} : dev'[d] = dev[d] /\ (d \in dirty' <=> d \in dirty)
    BY <2>1, SetDeviceFacts DEF Inv
  <2>4. QED
    BY <1>1, <2>1, <2>2, <2>3
       DEF Frame, SessionOutage, Resolving, Unchecked, Closed, InService
<1>7. CASE CheckSucceeds(e)
  <2>1. PICK flapping \in FlapVerdicts(e) : SetDevice(e, "up", 0, flapping)
    BY <1>7 DEF CheckSucceeds, ComesUp
  <2>2. /\ task[e].at = "apply" /\ TaskAt(e, "thresholds")
        /\ UNCHANGED <<row, incidents, pending>>
    BY <1>7 DEF CheckSucceeds, database
  <2>3. /\ task'[e].at = "thresholds" /\ task'[e].previous = task[e].previous
        /\ \A d \in Devices \ {e} : task'[d] = task[d]
    BY <2>2, TaskFacts DEF Inv
  <2>4. /\ dev'[e].status = "up"
        /\ \A d \in Devices \ {e} : dev'[d] = dev[d] /\ (d \in dirty' <=> d \in dirty)
    BY <2>1, SetDeviceFacts DEF Inv
  <2>5. task[e].previous = dev[e].status /\ dev[e].status # "maintenance"
    BY <1>1, <2>2 DEF DeviceInv, Unchecked
  <2>6. Closed(dev[e].status, pending[e])
    BY <1>1, <2>2 DEF DeviceInv, SessionOutage, Resolving
  <2>7. task[e].previous \in {"down", "degraded"} \/ Outages(pending[e]) = 0
    BY <1>1, <2>5, <2>6 DEF Closed, InService, Row, DeviceStatus
  <2>8. QED
    BY <1>1, <2>2, <2>3, <2>4, <2>7 DEF Frame, SessionOutage, Resolving, Unchecked
<1>8. CASE CheckFails(e)
  BY <1>8, OutageCheckFails
<1>9. CASE WithinThresholds(e)
  <2>1. /\ task[e].at = "thresholds" /\ TaskAt(e, "recovery")
        /\ UNCHANGED <<row, incidents, dev, dirty, pending>>
    BY <1>9 DEF WithinThresholds, database
  <2>2. /\ task'[e].at = "recovery" /\ task'[e].previous = task[e].previous
        /\ \A d \in Devices \ {e} : task'[d] = task[d]
    BY <2>1, TaskFacts DEF Inv
  <2>3. QED
    BY <1>1, <2>1, <2>2 DEF Frame, DeviceInv, SessionOutage, Resolving, Unchecked
<1>10. ASSUME NEW metric \in ThresholdMetric, ThresholdExceeded(e, metric)
       PROVE  /\ Frame(e) /\ Outages(pending'[e]) < 2
              /\ SessionOutage(e)' /\ Unchecked(e)'
  <2>1. ~ SendRaises
    BY <1>10 DEF ThresholdExceeded, ChecksFinish, SendRaises, Inv, TypeOK
  <2>2. /\ task[e].at = "thresholds" /\ task' = task
        /\ pending' = [pending EXCEPT ![e][metric] = @ + 1]
        /\ UNCHANGED <<row, incidents, dev, dirty>>
    BY <1>10, <2>1 DEF ThresholdExceeded, database
  <2>3. metric \in IncidentKind /\ metric \in OtherKind /\ pending[e][metric] + 1 \in Nat
    <3>1. metric \in IncidentKind /\ metric \in OtherKind
      BY DEF IncidentKind, OtherKind
    <3>2. QED
      BY <1>1, <3>1, CountsFacts
  <2>4. /\ pending'[e] = [pending[e] EXCEPT ![metric] = pending[e][metric] + 1]
        /\ \A d \in Devices \ {e} : pending'[d] = pending[d]
    BY <1>1, <2>2
  <2>5. Outages(pending'[e]) = Outages(pending[e])
    BY <1>1, <2>3, <2>4, ChangeCount
  <2>6. QED
    BY <1>1, <2>2, <2>4, <2>5
       DEF Frame, DeviceInv, SessionOutage, Resolving, Unchecked
<1>11. CASE Recovery(e)
  <2>1. /\ task[e].at = "recovery" /\ TaskEnds(e)
        /\ pending' = IF RecoversFrom(e) THEN [pending EXCEPT ![e] = NoIncidents] ELSE pending
        /\ UNCHANGED <<row, incidents, dev, dirty>>
    BY <1>11 DEF Recovery, database
  <2>2. task'[e].at = "done" /\ \A d \in Devices \ {e} : task'[d] = task[d]
    BY <2>1, TaskFacts DEF Inv
  <2>3. dev[e].status = "up" /\ (RecoversFrom(e) \/ Outages(pending[e]) = 0)
    BY <1>1, <2>1 DEF DeviceInv, SessionOutage, Resolving, RecoversFrom
  <2>4. /\ Outages(pending'[e]) = 0
        /\ \A d \in Devices \ {e} : pending'[d] = pending[d]
    BY <1>1, <2>1, <2>3, NothingUnresolved
  <2>5. QED
    BY <2>1, <2>2, <2>3, <2>4
       DEF Frame, SessionOutage, Resolving, Unchecked, Closed
<1>12. ~ QueryRaises(e)
  BY NoQueryRaises DEF Inv
<1>13. QED
  BY <1>4, <1>5, <1>6, <1>7, <1>8, <1>9, <1>10, <1>11, <1>12 DEF CheckStep

\* The cascade opens an outage only for a device in service, and only if it
\* has none; the recovery of phase 2 closes it.
LEMMA OutageCascade ==
  ASSUME Inv, NEW e \in Devices, Cascade(e)
  PROVE  /\ UNCHANGED <<row, incidents, phase, devices, task>>
         /\ Frame(e) /\ Outages(pending'[e]) < 2
         /\ SessionOutage(e)' /\ Unchecked(e)'
         /\ dev'[e].status = "down" /\ dev'[e].flapping = dev[e].flapping
         /\ dev[e].status # "down"
         /\ Unresolved(pending'[e]) > 0
         /\ \/ pending' = pending
            \/ pending' = [pending EXCEPT ![e] = [pending[e] EXCEPT !["dependency"] = 1]]
<1> USE BoundsAssumption
<1>1. /\ SetDevice(e, "down", DownThreshold, dev[e].flapping)
      /\ phase = "cascade" /\ e \in devices /\ dev[e].status # "down"
      /\ UNCHANGED <<row, incidents, phase, devices, task>>
      /\ pending' = IF NeedsIncident(e)
                    THEN [pending EXCEPT ![e]["dependency"] = @ + 1]
                    ELSE pending
  BY DEF Cascade, FallsByDependency, Cascades, database
<1>2. /\ dev'[e].status = "down" /\ dev'[e].flapping = dev[e].flapping
      /\ \A d \in Devices \ {e} : dev'[d] = dev[d] /\ (d \in dirty' <=> d \in dirty)
  BY <1>1, SetDeviceFacts DEF Inv
<1>3. /\ pending \in [Devices -> IncidentCounts] /\ dev[e] \in Row /\ task[e].at = "done"
      /\ dev[e].status # "maintenance"
  BY <1>1 DEF Inv, TypeOK, OutageInv, PhaseInv
<1>4. Outages(pending[e]) = 0
  BY <1>1, <1>3 DEF Inv, OutageInv, DeviceInv, SessionOutage, Resolving, Closed,
     InService, Row, DeviceStatus
<1>5. /\ pending[e] \in IncidentCounts /\ "dependency" \in IncidentKind
      /\ \A k \in IncidentKind : pending[e][k] \in Nat
      /\ Unresolved(pending[e]) \in Nat
  BY <1>3, CountsFacts DEF IncidentKind
<1>6. CASE NeedsIncident(e)
  <2>1. pending[e]["dependency"] = 0
    BY <1>4, <1>5 DEF Outages, IncidentKind
  <2>2. pending' = [pending EXCEPT ![e] = [pending[e] EXCEPT !["dependency"] = 1]]
    <3>1. pending[e]["dependency"] + 1 = 1
      BY <2>1
    <3>2. QED
      BY <1>1, <1>6, <3>1
  <2>3. pending'[e] = [pending[e] EXCEPT !["dependency"] = 1]
    BY <1>3, <2>2
  <2>4. Outages(pending'[e]) < 2 /\ Unresolved(pending'[e]) > 0
    <3>1. Outages(pending'[e]) = Outages(pending[e]) - pending[e]["dependency"] + 1
      BY <1>5, <2>3, ChangeCount
    <3>2. Unresolved(pending'[e]) = Unresolved(pending[e]) - pending[e]["dependency"] + 1
      BY <1>5, <2>3, ChangeCount
    <3>3. QED
      BY <1>4, <1>5, <2>1, <3>1, <3>2
  <2>5. Frame(e)
    BY <1>1, <1>2, <1>3, <2>2 DEF Frame
  <2>6. SessionOutage(e)' /\ Unchecked(e)'
    BY <1>1, <1>2, <1>3 DEF SessionOutage, Resolving, Unchecked, Closed, InService
  <2>7. QED
    BY <1>1, <1>2, <2>2, <2>4, <2>5, <2>6
<1>7. CASE ~ NeedsIncident(e)
  <2>1. pending' = pending /\ Unresolved(pending[e]) > 0
    BY <1>1, <1>5, <1>7 DEF NeedsIncident
  <2>2. QED
    BY <1>1, <1>2, <1>3, <1>4, <2>1
       DEF Frame, SessionOutage, Resolving, Unchecked, Closed, InService
<1>8. QED
  BY <1>6, <1>7

LEMMA OutageRecover ==
  ASSUME Inv, NEW e \in Devices, Recover(e)
  PROVE  /\ UNCHANGED <<row, incidents, phase, devices, task>>
         /\ Frame(e) /\ Outages(pending'[e]) < 2
         /\ SessionOutage(e)' /\ Unchecked(e)'
         /\ dev'[e].status = "up" /\ dev'[e].flapping = dev[e].flapping
         /\ pending' = [pending EXCEPT ![e] = NoIncidents]
<1>1. /\ SetDevice(e, "up", 0, dev[e].flapping) /\ phase = "recover"
      /\ pending' = [pending EXCEPT ![e] = NoIncidents]
      /\ UNCHANGED <<row, incidents, phase, devices, task>>
  BY DEF Recover, ComesUp, database
<1>2. /\ dev'[e].status = "up" /\ dev'[e].flapping = dev[e].flapping
      /\ \A d \in Devices \ {e} : dev'[d] = dev[d] /\ (d \in dirty' <=> d \in dirty)
  BY <1>1, SetDeviceFacts DEF Inv
<1>3. pending \in [Devices -> IncidentCounts] /\ task[e].at = "done"
  BY <1>1 DEF Inv, TypeOK, OutageInv, PhaseInv
<1>4. Outages(pending'[e]) = 0
  BY <1>1, <1>3, NothingUnresolved
<1>5. Frame(e)
  BY <1>1, <1>2, <1>3 DEF Frame
<1>6. SessionOutage(e)' /\ Unchecked(e)'
  BY <1>1, <1>2, <1>3, <1>4 DEF SessionOutage, Resolving, Unchecked, Closed
<1>7. Outages(pending'[e]) < 2
  BY <1>4
<1>8. QED
  BY <1>1, <1>2, <1>5, <1>6, <1>7

\* A session that is closed has nothing to commit.
LEMMA OutageClose ==
  ASSUME Inv, UNCHANGED <<row, incidents>>, CloseSession
  PROVE  OutageInv'
<1>1. /\ dev' = row /\ pending' = incidents' /\ dirty' = {} /\ phase' = "idle"
      /\ \A d \in Devices : task'[d].at = "done"
  BY DEF CloseSession, Finished
<1>2. PhaseInv'
  BY <1>1 DEF PhaseInv
<1>3. \A d \in Devices : DeviceInv(d)'
  BY <1>1 DEF Inv, OutageInv, DeviceInv, SessionOutage, Resolving, Unchecked
<1>4. QED
  BY <1>2, <1>3 DEF OutageInv

LEMMA OutagePropagateStep ==
  ASSUME Inv, NEW e \in Devices, PropagateStep(e)
  PROVE  OutageInv'
<1>1. ASSUME UNCHANGED <<phase, devices, task>>, phase \in {"cascade", "recover"}, Frame(e),
             Outages(pending'[e]) < 2, SessionOutage(e)', Unchecked(e)',
             dev'[e].status # "maintenance"
      PROVE  OutageInv'
  <2>1. PhaseInv'
    BY <1>1 DEF Inv, OutageInv, PhaseInv, Frame, TypeOK
  <2>2. QED
    BY <1>1, <2>1, FrameKeeps DEF Inv, OutageInv
<1>2. CASE Cascade(e)
  BY <1>1, <1>2, OutageCascade DEF Cascade
<1>3. CASE CascadeRaises(e)
  BY <1>3, OutageClose DEF CascadeRaises, Rollback, database
<1>4. CASE Recover(e)
  BY <1>1, <1>4, OutageRecover DEF Recover
<1>5. CASE DoNotRecover(e)
  BY <1>5 DEF DoNotRecover, database, Inv, OutageInv, PhaseInv, DeviceInv,
     SessionOutage, Resolving, Unchecked
<1>6. QED
  BY <1>2, <1>3, <1>4, <1>5 DEF PropagateStep

\* The commits: the rows become what the session says.
LEMMA OutageCommit ==
  ASSUME Inv, Commit, UNCHANGED <<pending, task>>,
         \A d \in Devices : task[d].at = "done",
         \A d \in Devices : dev'[d].status = dev[d].status
  PROVE  \A d \in Devices : DeviceInv(d)'
<1>1. ASSUME NEW d \in Devices PROVE row'[d].status = dev[d].status
  BY CommitSynced DEF Inv, CounterInv
<1>2. incidents' = pending
  BY DEF Commit
<1>3. QED
  BY <1>1, <1>2
     DEF Inv, OutageInv, DeviceInv, SessionOutage, Resolving, Unchecked

\* An incident more or less that other sessions commit.
LEMMA OutageOthers ==
  ASSUME Inv, NEW e \in Devices, RebootFails(e) \/ \E k \in IncidentKind : ResolveIncident(e, k)
  PROVE  OutageInv'
<1> USE BoundsAssumption
<1>1. /\ UNCHANGED <<row, dev, dirty, task, phase, devices>>
      /\ pending = incidents => pending' = incidents'
  BY DEF RebootFails, ResolveIncident
<1>2. /\ incidents \in [Devices -> IncidentCounts] /\ incidents' \in [Devices -> IncidentCounts]
      /\ pending \in [Devices -> IncidentCounts] /\ pending' \in [Devices -> IncidentCounts]
  <2>1. Next
    BY DEF Next, Api
  <2>2. TypeOK'
    BY <2>1, TypeStep DEF Inv
  <2>3. QED
    BY <2>2 DEF Inv, TypeOK
<1>3. ASSUME NEW c \in IncidentCounts, NEW k \in IncidentKind, c[k] > 0
      PROVE  Outages([c EXCEPT ![k] = @ - 1]) <= Outages(c)
  <2>1. c[k] - 1 \in Nat /\ c[k] \in Nat /\ Outages(c) \in Nat
    BY <1>3, CountsFacts
  <2>2. CASE k \in OtherKind
    <3>1. Outages([c EXCEPT ![k] = c[k] - 1]) = Outages(c)
      BY <2>1, <2>2, ChangeCount
    <3>2. QED
      BY <2>1, <3>1
  <2>3. CASE k \in {"own", "dependency"}
    <3>1. Outages([c EXCEPT ![k] = c[k] - 1]) = Outages(c) - c[k] + (c[k] - 1)
      BY <2>1, <2>3, ChangeCount
    <3>2. QED
      BY <2>1, <3>1
  <2>4. QED
    BY <2>2, <2>3 DEF IncidentKind, OtherKind
<1>4. ASSUME NEW d \in Devices
      PROVE  /\ Outages(incidents'[d]) <= Outages(incidents[d])
             /\ Outages(pending'[d]) <= Outages(pending[d])
  <2>1. \A c \in IncidentCounts : Outages(c) <= Outages(c)
    BY CountsFacts
  <2>2. CASE RebootFails(e)
    <3>1. ASSUME NEW c \in IncidentCounts
          PROVE  Outages([c EXCEPT !["reboot"] = @ + 1]) <= Outages(c)
      <4>1. "reboot" \in IncidentKind /\ "reboot" \in OtherKind /\ c["reboot"] + 1 \in Nat
        BY CountsFacts DEF IncidentKind, OtherKind
      <4>2. Outages([c EXCEPT !["reboot"] = c["reboot"] + 1]) = Outages(c)
        BY <4>1, ChangeCount
      <4>3. QED
        BY <2>1, <4>2
    <3>2. QED
      BY <1>2, <2>1, <2>2, <3>1 DEF RebootFails
  <2>3. ASSUME NEW k \in IncidentKind, ResolveIncident(e, k)
        PROVE  /\ Outages(incidents'[d]) <= Outages(incidents[d])
               /\ Outages(pending'[d]) <= Outages(pending[d])
    <3>1. incidents[e][k] \in Nat /\ pending[e][k] \in Nat
      BY <1>2, CountsFacts
    <3>2. incidents[e][k] > 0 /\ pending[e][k] > 0
      BY <2>3, <3>1 DEF ResolveIncident
    <3>3. QED
      BY <1>2, <1>3, <2>1, <2>3, <3>2 DEF ResolveIncident
  <2>4. QED
    BY <2>2, <2>3
<1>5. ASSUME NEW d \in Devices PROVE DeviceInv(d)'
  <2>1. DeviceInv(d)
    BY DEF Inv, OutageInv
  <2>2. /\ Outages(incidents[d]) \in Nat /\ Outages(incidents'[d]) \in Nat
        /\ Outages(pending[d]) \in Nat /\ Outages(pending'[d]) \in Nat
    BY <1>2, CountsFacts
  <2>3. /\ Outages(incidents'[d]) < 2 /\ Outages(pending'[d]) < 2
        /\ Outages(incidents[d]) = 0 => Outages(incidents'[d]) = 0
        /\ Outages(pending[d]) = 0 => Outages(pending'[d]) = 0
    <3>1. Outages(incidents[d]) < 2 /\ Outages(pending[d]) < 2
      BY <2>1 DEF DeviceInv
    <3>2. QED
      BY <1>4, <2>2, <3>1
  <2>4. Closed(row[d].status, incidents[d])'
    BY <1>1, <2>1, <2>3 DEF DeviceInv, Closed
  <2>5. SessionOutage(d)' /\ Unchecked(d)'
    BY <1>1, <2>1, <2>3 DEF DeviceInv, SessionOutage, Resolving, Closed, Unchecked
  <2>6. QED
    BY <2>3, <2>4, <2>5 DEF DeviceInv
<1>6. PhaseInv'
  BY <1>1 DEF Inv, OutageInv, PhaseInv
<1>7. QED
  BY <1>5, <1>6 DEF OutageInv

LEMMA OutageStep ==
  ASSUME Patches = {}, ChecksFinish, Inv, [Next]_vars
  PROVE  OutageInv'
<1>1. CASE StartCycle
  <2>1. /\ phase = "idle" /\ phase' = "check" /\ dev' = row
        /\ UNCHANGED <<row, incidents, pending, dirty>>
        /\ task' = [d \in Devices |-> IF d \in Monitored THEN Started ELSE Finished]
    BY <1>1 DEF StartCycle, database
  <2>2. pending = incidents /\ dirty = {}
    BY <2>1 DEF Inv, OutageInv, PhaseInv
  <2>3. \A d \in Devices : /\ task'[d].at \in {"probe", "done"}
                           /\ task'[d].at = "probe" => row[d].status # "maintenance"
    BY <2>1 DEF Started, Finished, Monitored
  <2>4. \A d \in Devices : DeviceInv(d)'
    BY <2>1, <2>2, <2>3
       DEF Inv, OutageInv, DeviceInv, SessionOutage, Resolving, Unchecked
  <2>5. PhaseInv'
    BY <2>1 DEF PhaseInv
  <2>6. QED
    BY <2>4, <2>5 DEF OutageInv
<1>2. ASSUME NEW d \in Devices, CheckStep(d) PROVE OutageInv'
  BY <1>2, OutageCheckStep
<1>3. ASSUME NEW d \in Devices, PropagateStep(d) PROVE OutageInv'
  BY <1>3, OutagePropagateStep
<1>4. CASE EndChecks
  <2>1. /\ Commit /\ phase' = "refetch" /\ UNCHANGED <<dev, pending, task>>
        /\ \A d \in Devices : task[d].at = "done"
    BY <1>4 DEF EndChecks
  <2>2. \A d \in Devices : DeviceInv(d)'
    BY <2>1, OutageCommit
  <2>3. PhaseInv'
    BY <2>1 DEF PhaseInv, Commit
  <2>4. QED
    BY <2>2, <2>3 DEF OutageInv
<1>13. CASE SelectAgain
  <2>1. /\ Refetch /\ phase = "refetch" /\ phase' = "cascade"
        /\ UNCHANGED <<row, incidents, dirty, pending, task>>
        /\ dirty = {} /\ \A d \in Devices : task[d].at = "done"
    BY <1>13 DEF SelectAgain, database, Inv, OutageInv, PhaseInv
  <2>2. \A d \in Devices : dev'[d].status = dev[d].status /\ dev[d].status = row[d].status
    BY <2>1 DEF Inv, CounterInv, SessionInSync, Refetch
  <2>3. \A d \in Devices : DeviceInv(d)'
    BY <2>1, <2>2 DEF Inv, OutageInv, DeviceInv, SessionOutage, Resolving, Unchecked
  <2>4. PhaseInv'
    BY <2>1, <2>2 DEF PhaseInv, Refetch, Monitored
  <2>5. QED
    BY <2>3, <2>4 DEF OutageInv
<1>5. CASE EndCascade
  BY <1>5 DEF EndCascade, database, Inv, OutageInv, PhaseInv, DeviceInv, SessionOutage,
     Resolving, Unchecked
<1>6. CASE EndRecover
  <2>1. /\ Commit /\ phase' = "links" /\ UNCHANGED <<dev, pending, task>>
        /\ \A d \in Devices : task[d].at = "done"
    BY <1>6 DEF EndRecover, Inv, OutageInv, PhaseInv
  <2>2. \A d \in Devices : DeviceInv(d)'
    BY <2>1, OutageCommit
  <2>3. PhaseInv'
    BY <2>1 DEF PhaseInv
  <2>4. QED
    BY <2>2, <2>3 DEF OutageInv
<1>7. CASE UpdateLinks
  BY <1>7 DEF UpdateLinks, Inv, OutageInv, PhaseInv, DeviceInv, SessionOutage, Resolving,
     Unchecked
<1>8. CASE RunRCA \/ SendAborts \/ Crash
  BY <1>8, OutageClose DEF RunRCA, SendAborts, Crash, Rollback, database
<1>9. ASSUME NEW d \in Devices, Flip(d) \/ ChangeWindows(d) PROVE OutageInv'
  BY <1>9 DEF Flip, ChangeWindows, database, session, Inv, OutageInv, PhaseInv, DeviceInv,
     SessionOutage, Resolving, Unchecked
<1>10. ASSUME NEW d \in Devices, Api(d) PROVE OutageInv'
  BY <1>10, OutageOthers DEF Api, PatchStatus
<1>11. CASE UNCHANGED vars
  BY <1>11 DEF vars, database, session, Inv, OutageInv, PhaseInv, DeviceInv, SessionOutage,
     Resolving, Unchecked
<1>12. QED
  BY <1>1, <1>2, <1>3, <1>4, <1>5, <1>6, <1>7, <1>8, <1>9, <1>10, <1>11, <1>13
     DEF Next, Worker

LEMMA Invariance ==
  ASSUME Patches = {}, ChecksFinish
  PROVE  Spec => []Inv
<1>1. Init => Inv
  BY TypeInit, CounterInit, OutageInit DEF Inv
<1>2. Inv /\ [Next]_vars => Inv'
  BY TypeStep, CounterStep, OutageStep DEF Inv
<1>3. QED
  BY <1>1, <1>2, PTL DEF Spec

\* However checks, cascades, recoveries, restarts and operators who resolve
\* incidents interleave, with flapping devices and maintenance windows too, a
\* device never has two outage incidents open.
THEOREM OutageAnnouncedOnce ==
  ASSUME Patches = {}, ChecksFinish
  PROVE  Spec => []OneIncidentPerOutage
<1>1. Inv => OneIncidentPerOutage
  BY DEF Inv, OutageInv, DeviceInv, OneIncidentPerOutage
<1>2. QED
  BY <1>1, Invariance, PTL

\* And no commit leaves a device UP with an outage incident open.
THEOREM RecoveryClosesOutage ==
  ASSUME Patches = {}, ChecksFinish
  PROVE  Spec => []UpHasNoOutage
<1>1. Inv => UpHasNoOutage
  BY DEF Inv, OutageInv, DeviceInv, Closed, InService, UpHasNoOutage
<1>2. QED
  BY <1>1, Invariance, PTL

-----------------------------------------------------------------------------
(***************************************************************************)
(* A DOWN is announced.                                                    *)
(***************************************************************************)

\* Nobody but the worker touches incidents, and no detector reports flapping.
Undisturbed == Flappers = {} /\ Resolvable = {}

AnnouncedIn(d) == dev[d].flapping = FALSE /\ Announced(dev[d].status, pending[d])

LEMMA AnnouncedInit == Init => AnnouncedInv
BY DEF Init, AnnouncedInv, Announced

LEMMA AnnouncedClose ==
  ASSUME AnnouncedInv, UNCHANGED <<row, incidents>>, CloseSession
  PROVE  AnnouncedInv'
BY DEF AnnouncedInv, CloseSession

\* A step of one device.
LEMMA AnnouncedFrame ==
  ASSUME AnnouncedInv, NEW e \in Devices, Frame(e), AnnouncedIn(e)'
  PROVE  AnnouncedInv'
BY DEF AnnouncedInv, AnnouncedIn, Frame

LEMMA AnnouncedCheckStep ==
  ASSUME Undisturbed, Inv, Inv', AnnouncedInv, NEW e \in Devices, CheckStep(e)
  PROVE  AnnouncedInv'
<1> USE BoundsAssumption
<1>1. /\ pending \in [Devices -> IncidentCounts] /\ pending' \in [Devices -> IncidentCounts]
      /\ dev[e].flapping = FALSE /\ FlapVerdicts(e) = {FALSE}
  BY DEF Inv, TypeOK, AnnouncedInv, Undisturbed, FlapVerdicts
<1>2. CASE Probe(e) \/ WindowsOverlap(e) \/ QueryRaises(e) \/ WithinThresholds(e)
  <2>1. UNCHANGED <<row, incidents, dev, pending>>
    BY <1>2 DEF Probe, WindowsOverlap, QueryRaises, WithinThresholds, database
  <2>2. QED
    BY <2>1 DEF AnnouncedInv
<1>3. CASE EnterMaintenance(e)
  <2>1. /\ SetDevice(e, "maintenance", 0, dev[e].flapping)
        /\ UNCHANGED <<row, incidents, pending>>
    BY <1>3 DEF EnterMaintenance, database
  <2>2. /\ dev'[e].status = "maintenance" /\ dev'[e].flapping = FALSE
        /\ \A d \in Devices \ {e} : dev'[d] = dev[d]
    BY <1>1, <2>1, SetDeviceFacts DEF Inv
  <2>3. QED
    BY <2>1, <2>2 DEF AnnouncedInv, Announced
<1>4. CASE CheckSucceeds(e)
  <2>1. SetDevice(e, "up", 0, FALSE) /\ UNCHANGED <<row, incidents, pending>>
    BY <1>1, <1>4 DEF CheckSucceeds, ComesUp, database
  <2>2. /\ dev'[e].status = "up" /\ dev'[e].flapping = FALSE
        /\ \A d \in Devices \ {e} : dev'[d] = dev[d]
    BY <2>1, SetDeviceFacts DEF Inv
  <2>3. QED
    BY <2>1, <2>2 DEF AnnouncedInv, Announced
<1>5. CASE CheckFails(e)
  <2>1. dev'[e].flapping = FALSE
    <3> DEFINE failures == Bump(dev[e].failures, DownThreshold)
    <3>1. SetDevice(e, IF failures >= DownThreshold THEN "down" ELSE "degraded",
                    failures, FALSE)
      BY <1>1, <1>5 DEF CheckFails
    <3>2. QED
      BY <3>1, SetDeviceFacts DEF Inv
  <2>2. Announced(dev[e].status, pending[e])
    BY DEF AnnouncedInv
  <2>3. ASSUME dev'[e].status = "down" PROVE Unresolved(pending'[e]) > 0
    <3>1. CASE dev[e].status = "down"
      BY <1>5, <2>1, <2>2, <2>3, <3>1, OutageCheckFails DEF Announced
    <3>2. CASE dev[e].status # "down"
      <4>1. pending'[e]["own"] > 0
        BY <1>5, <2>1, <2>3, <3>2, OutageCheckFails
      <4>2. /\ pending'[e]["own"] \in Nat /\ pending'[e]["dependency"] \in Nat
            /\ pending'[e]["latency"] \in Nat /\ pending'[e]["loss"] \in Nat
            /\ pending'[e]["reboot"] \in Nat
        BY <1>1, CountsFacts DEF IncidentKind, ThresholdMetric
      <4>3. QED
        BY <4>1, <4>2 DEF Unresolved
    <3>3. QED
      BY <3>1, <3>2
  <2>4. Frame(e)
    BY <1>5, OutageCheckFails
  <2>5. QED
    BY <2>1, <2>3, <2>4, AnnouncedFrame DEF AnnouncedIn, Announced
<1>6. ASSUME NEW metric \in ThresholdMetric, ThresholdExceeded(e, metric)
      PROVE  AnnouncedInv'
  <2>1. UNCHANGED <<row, incidents, dev>>
    BY <1>6 DEF ThresholdExceeded, database
  <2>2. /\ pending'[e] = [pending[e] EXCEPT ![metric] = pending[e][metric] + 1]
        /\ \A d \in Devices \ {e} : pending'[d] = pending[d]
    BY <1>1, <1>6 DEF ThresholdExceeded
  <2>3. metric \in IncidentKind
    BY DEF IncidentKind
  <2>4. /\ pending[e] \in IncidentCounts
        /\ pending[e][metric] \in Nat /\ pending[e][metric] + 1 \in Nat
        /\ Unresolved(pending[e]) \in Nat
    BY <1>1, <2>3, CountsFacts
  <2>5. Unresolved(pending'[e]) =
          Unresolved(pending[e]) - pending[e][metric] + (pending[e][metric] + 1)
    BY <2>2, <2>3, <2>4, ChangeCount
  <2>6. Unresolved(pending'[e]) > 0
    BY <2>4, <2>5
  <2>7. QED
    BY <2>1, <2>2, <2>6 DEF AnnouncedInv, Announced
<1>7. CASE Recovery(e)
  <2>1. /\ UNCHANGED <<row, incidents, dev>>
        /\ task[e].at = "recovery"
        /\ \A d \in Devices \ {e} : pending'[d] = pending[d]
    BY <1>1, <1>7 DEF Recovery, database
  <2>2. dev[e].status = "up"
    BY <2>1 DEF Inv, OutageInv, DeviceInv, SessionOutage, Resolving
  <2>3. QED
    BY <2>1, <2>2 DEF AnnouncedInv, Announced
<1>8. QED
  BY <1>2, <1>3, <1>4, <1>5, <1>6, <1>7 DEF CheckStep

LEMMA AnnouncedPropagateStep ==
  ASSUME Inv, AnnouncedInv, NEW e \in Devices, PropagateStep(e)
  PROVE  AnnouncedInv'
<1>1. dev[e].flapping = FALSE
  BY DEF AnnouncedInv
<1>2. CASE Cascade(e)
  <2>1. Frame(e) /\ AnnouncedIn(e)'
    BY <1>1, <1>2, OutageCascade DEF AnnouncedIn, Announced
  <2>2. QED
    BY <2>1, AnnouncedFrame
<1>3. CASE CascadeRaises(e)
  BY <1>3, AnnouncedClose DEF CascadeRaises, Rollback, database
<1>4. CASE Recover(e)
  <2>1. Frame(e) /\ AnnouncedIn(e)'
    BY <1>1, <1>4, OutageRecover DEF AnnouncedIn, Announced
  <2>2. QED
    BY <2>1, AnnouncedFrame
<1>5. CASE DoNotRecover(e)
  BY <1>5 DEF DoNotRecover, database, AnnouncedInv
<1>6. QED
  BY <1>2, <1>3, <1>4, <1>5 DEF PropagateStep

\* The flapping flag is committed with the rest of the object.
LEMMA CommitFlapping ==
  ASSUME Inv, Commit, NEW d \in Devices
  PROVE  row'[d].flapping = dev[d].flapping
BY DEF Inv, TypeOK, CounterInv, SessionInSync, Commit, Committed, Row

LEMMA AnnouncedCommit ==
  ASSUME Inv, AnnouncedInv, Commit, UNCHANGED pending,
         \A d \in Devices : dev'[d] = dev[d] \/ dev'[d] = row'[d]
  PROVE  AnnouncedInv'
<1>1. ASSUME NEW d \in Devices
      PROVE  row'[d].status = dev[d].status /\ row'[d].flapping = dev[d].flapping
  BY CommitSynced, CommitFlapping DEF Inv, CounterInv
<1>2. incidents' = pending
  BY DEF Commit
<1>3. QED
  BY <1>1, <1>2 DEF AnnouncedInv

LEMMA AnnouncedStep ==
  ASSUME Patches = {}, Undisturbed, Inv, Inv', AnnouncedInv, [Next]_vars
  PROVE  AnnouncedInv'
<1> USE BoundsAssumption
<1>1. CASE StartCycle
  <2>1. dev' = row /\ UNCHANGED <<row, incidents, pending>> /\ pending = incidents
    BY <1>1 DEF StartCycle, database, Inv, OutageInv, PhaseInv
  <2>2. QED
    BY <2>1 DEF AnnouncedInv
<1>2. ASSUME NEW d \in Devices, CheckStep(d) PROVE AnnouncedInv'
  BY <1>2, AnnouncedCheckStep
<1>3. ASSUME NEW d \in Devices, PropagateStep(d) PROVE AnnouncedInv'
  BY <1>3, AnnouncedPropagateStep
<1>4. CASE EndChecks \/ EndRecover
  <2>1. Commit /\ UNCHANGED pending
    BY <1>4 DEF EndChecks, EndRecover
  <2>2. \A d \in Devices : dev'[d] = dev[d] \/ dev'[d] = row'[d]
    BY <1>4 DEF EndChecks, EndRecover
  <2>3. QED
    BY <2>1, <2>2, AnnouncedCommit
<1>11. CASE SelectAgain
  <2>1. /\ UNCHANGED <<row, incidents, pending, dirty>>
        /\ \A d \in Devices : dev'[d] = IF d \in loaded THEN dev[d] ELSE row[d]
    BY <1>11 DEF SelectAgain, Refetch, database
  <2>2. \A d \in Devices : d \notin loaded => dev[d] = row[d]
    BY DEF Inv, CounterInv, SessionInSync
  <2>3. \A d \in Devices : dev'[d] = dev[d]
    BY <2>1, <2>2
  <2>4. QED
    BY <2>1, <2>3 DEF AnnouncedInv
<1>5. CASE EndCascade \/ UpdateLinks
  BY <1>5 DEF EndCascade, UpdateLinks, database, AnnouncedInv
<1>6. CASE RunRCA \/ SendAborts \/ Crash
  BY <1>6, AnnouncedClose DEF RunRCA, SendAborts, Crash, Rollback, database
<1>7. ASSUME NEW e \in Devices, Flip(e) \/ ChangeWindows(e) PROVE AnnouncedInv'
  BY <1>7 DEF Flip, ChangeWindows, database, session, AnnouncedInv
<1>8. ASSUME NEW e \in Devices, Api(e) PROVE AnnouncedInv'
  <2>1. RebootFails(e)
    BY <1>8 DEF Api, PatchStatus, ResolveIncident, Undisturbed
  <2>2. UNCHANGED <<row, dev>>
    BY <2>1 DEF RebootFails
  <2>3. ASSUME NEW c \in IncidentCounts
        PROVE  Unresolved([c EXCEPT !["reboot"] = @ + 1]) > 0
    <3>1. /\ "reboot" \in IncidentKind /\ c["reboot"] \in Nat /\ c["reboot"] + 1 \in Nat
          /\ Unresolved(c) \in Nat
      BY CountsFacts DEF IncidentKind
    <3>2. Unresolved([c EXCEPT !["reboot"] = c["reboot"] + 1]) =
            Unresolved(c) - c["reboot"] + (c["reboot"] + 1)
      BY <3>1, ChangeCount
    <3>3. QED
      BY <3>1, <3>2
  <2>4. ASSUME NEW d \in Devices
        PROVE  /\ Unresolved(incidents'[d]) > 0 \/ incidents'[d] = incidents[d]
               /\ Unresolved(pending'[d]) > 0 \/ pending'[d] = pending[d]
    BY <2>1, <2>3 DEF RebootFails, Inv, TypeOK
  <2>5. QED
    BY <2>2, <2>4 DEF AnnouncedInv, Announced
<1>9. CASE UNCHANGED vars
  BY <1>9 DEF vars, database, session, AnnouncedInv
<1>10. QED
  BY <1>1, <1>2, <1>3, <1>4, <1>5, <1>6, <1>7, <1>8, <1>9, <1>11 DEF Next, Worker

LEMMA AnnouncedInvariance ==
  ASSUME Patches = {}, ChecksFinish, Undisturbed
  PROVE  Spec => [](Inv /\ AnnouncedInv)
<1>1. Init => AnnouncedInv
  BY AnnouncedInit
<1>2. Inv /\ Inv' /\ AnnouncedInv /\ [Next]_vars => AnnouncedInv'
  BY AnnouncedStep
<1>3. Spec => []Inv
  BY Invariance
<1>4. QED
  BY <1>1, <1>2, <1>3, PTL DEF Spec

\* Where detectors report no flapping and operators resolve no incidents, the
\* row of a device is never DOWN without an unresolved incident, although the
\* statuses and the incidents of parents and children are written by several
\* commits with restarts between them.
THEOREM OutageAnnounced ==
  ASSUME Patches = {}, ChecksFinish, Undisturbed
  PROVE  Spec => []DownHasIncident
<1>1. AnnouncedInv => DownHasIncident
  BY DEF AnnouncedInv, Announced, DownHasIncident
<1>2. QED
  BY <1>1, AnnouncedInvariance, PTL

-----------------------------------------------------------------------------
(***************************************************************************)
(* Maintenance is silent, whatever statuses operators write.               *)
(***************************************************************************)

\* The check, the cascade or the recovery have not touched the device: it is
\* not in the session, or its check is still at the probe.
AsLoaded(d) ==
  d \notin loaded \/ (phase = "check" /\ task[d].at \in {"probe", "apply"})

SilentDevice(d) ==
  /\ phase = "check" =>
       /\ task[d].at # "done" => d \in loaded /\ dev[d].status # "maintenance"
       /\ d \in loaded /\ dev[d].status = "maintenance" => d \in dirty
  /\ phase = "refetch" /\ d \in loaded /\ dev[d].status = "maintenance"
       => row[d].status = "maintenance" \/ d \in released
  /\ phase = "cascade" /\ d \in devices /\ dev[d].status = "maintenance" => d \in released
  /\ AsLoaded(d) \/ dev[d].status = "maintenance" => pending[d] = incidents[d]

\* An object in maintenance is one whose window this session's check has seen,
\* and the commit of the checks takes it off the list, unless the row is PATCHed
\* before the second SELECT; the session has changed no incident of such a
\* device, so that a rollback reopens none either.
SilentInv ==
  /\ phase = "idle" => pending = incidents
  /\ devices \subseteq loaded
  /\ phase = "recover" => todo \subseteq loaded
  /\ \A d \in Devices : SilentDevice(d)

LEMMA SilentInit == Init => SilentInv
BY DEF Init, SilentInv, SilentDevice, AsLoaded, NoIncidents

LEMMA SilentFrame ==
  ASSUME SilentInv, NEW e \in Devices, phase = "check",
         UNCHANGED <<incidents, phase, devices, loaded, todo>>,
         \A d \in Devices \ {e} :
           /\ dev'[d] = dev[d] /\ pending'[d] = pending[d] /\ task'[d] = task[d]
           /\ d \in dirty' <=> d \in dirty,
         SilentDevice(e)'
  PROVE  SilentInv'
<1>1. ASSUME NEW d \in Devices \ {e} PROVE SilentDevice(d)'
  BY <1>1 DEF SilentInv, SilentDevice, AsLoaded
<1>2. \A d \in Devices : SilentDevice(d)'
  BY <1>1
<1>3. QED
  BY <1>2 DEF SilentInv

LEMMA SilentCheckStep ==
  ASSUME TypeOK, SilentInv, NEW e \in Devices, CheckStep(e)
  PROVE  SilentInv'
<1>1. phase = "check" /\ UNCHANGED <<incidents, phase, devices, loaded, todo>>
  BY DEF CheckStep, Probe, WindowsOverlap, QueryRaises, EnterMaintenance, CheckSucceeds, CheckFails,
     WithinThresholds, ThresholdExceeded, Recovery, database
<1>2. /\ SilentDevice(e) /\ pending \in [Devices -> IncidentCounts]
      /\ task \in [Devices -> Task]
  BY DEF SilentInv, TypeOK
<1>3. SUFFICES /\ \A d \in Devices \ {e} :
                    /\ dev'[d] = dev[d] /\ pending'[d] = pending[d] /\ task'[d] = task[d]
                    /\ d \in dirty' <=> d \in dirty
               /\ SilentDevice(e)'
  BY <1>1, SilentFrame
<1>4. CASE Probe(e)
  <2>1. /\ UNCHANGED <<incidents, phase, devices, loaded, dev, dirty, pending>>
        /\ task[e].at = "probe" /\ task'[e].at = "apply"
        /\ \A d \in Devices \ {e} : task'[d] = task[d]
    BY <1>2, <1>4 DEF Probe, database
  <2>2. QED
    BY <1>1, <1>2, <2>1 DEF SilentDevice, AsLoaded
<1>5. CASE WindowsOverlap(e) \/ QueryRaises(e) \/ WithinThresholds(e)
  <2>1. /\ UNCHANGED <<incidents, phase, devices, loaded, dev, dirty, pending>>
        /\ task[e].at # "done" /\ (TaskEnds(e) \/ TaskAt(e, "recovery"))
    BY <1>5 DEF WindowsOverlap, QueryRaises, WithinThresholds, database
  <2>2. /\ task'[e].at \notin {"probe", "apply"}
        /\ \A d \in Devices \ {e} : task'[d] = task[d]
    BY <2>1, TaskFacts
  <2>3. task[e].at # "done"
    BY <1>5 DEF WindowsOverlap, QueryRaises, WithinThresholds
  <2>4. QED
    BY <1>1, <1>2, <2>1, <2>2, <2>3 DEF SilentDevice, AsLoaded
<1>6. CASE EnterMaintenance(e)
  <2>1. /\ SetDevice(e, "maintenance", 0, dev[e].flapping) /\ TaskEnds(e)
        /\ UNCHANGED <<incidents, phase, devices, loaded, pending>>
        /\ task[e].at = "apply"
    BY <1>6 DEF EnterMaintenance, database
  <2>2. task'[e].at = "done" /\ \A d \in Devices \ {e} : task'[d] = task[d]
    BY <2>1, TaskFacts
  <2>3. /\ dev'[e].status = "maintenance"
        /\ \A d \in Devices \ {e} : dev'[d] = dev[d] /\ (d \in dirty' <=> d \in dirty)
    BY <2>1, SetDeviceFacts
  <2>4. dev[e].status # "maintenance" /\ pending[e] = incidents[e]
    BY <1>1, <1>2, <2>1 DEF SilentDevice, AsLoaded
  <2>5. e \in dirty'
    BY <2>1, <2>4 DEF SetDevice
  <2>6. QED
    BY <1>1, <2>1, <2>2, <2>3, <2>4, <2>5 DEF SilentDevice, AsLoaded
<1>7. CASE CheckSucceeds(e)
  <2>1. PICK flapping \in FlapVerdicts(e) : SetDevice(e, "up", 0, flapping)
    BY <1>7 DEF CheckSucceeds, ComesUp
  <2>2. /\ task[e].at = "apply" /\ TaskAt(e, "thresholds")
        /\ UNCHANGED <<incidents, phase, devices, loaded, pending>>
    BY <1>7 DEF CheckSucceeds, database
  <2>3. task'[e].at = "thresholds" /\ \A d \in Devices \ {e} : task'[d] = task[d]
    BY <2>2, TaskFacts
  <2>4. /\ dev'[e].status = "up"
        /\ \A d \in Devices \ {e} : dev'[d] = dev[d] /\ (d \in dirty' <=> d \in dirty)
    BY <2>1, SetDeviceFacts
  <2>5. QED
    BY <1>1, <1>2, <2>2, <2>3, <2>4 DEF SilentDevice, AsLoaded
<1>8. CASE CheckFails(e)
  <2> DEFINE failures == Bump(dev[e].failures, DownThreshold)
             isDown   == failures >= DownThreshold
  <2>1. PICK flapping \in FlapVerdicts(e) :
          /\ SetDevice(e, IF isDown THEN "down" ELSE "degraded", failures, flapping)
          /\ pending' = IF isDown /\ AnnouncesOutage(e, flapping)
                        THEN [pending EXCEPT ![e]["own"] = Bump(@, MaxOpen)]
                        ELSE pending
    BY <1>8 DEF CheckFails
  <2>2. /\ task[e].at = "apply" /\ TaskEnds(e)
        /\ UNCHANGED <<incidents, phase, devices, loaded>>
    BY <1>8 DEF CheckFails, database
  <2>3. task'[e].at = "done" /\ \A d \in Devices \ {e} : task'[d] = task[d]
    BY <2>2, TaskFacts
  <2> HIDE DEF failures, isDown
  <2>4. /\ dev'[e].status # "maintenance"
        /\ \A d \in Devices \ {e} : dev'[d] = dev[d] /\ (d \in dirty' <=> d \in dirty)
    BY <2>1, SetDeviceFacts
  <2>5. \A d \in Devices \ {e} : pending'[d] = pending[d]
    BY <1>2, <2>1
  <2>6. e \in loaded
    BY <1>1, <1>2, <2>2 DEF SilentDevice
  <2>7. QED
    BY <1>1, <2>2, <2>3, <2>4, <2>5, <2>6 DEF SilentDevice, AsLoaded
<1>9. ASSUME NEW metric \in ThresholdMetric, ThresholdExceeded(e, metric)
      PROVE  /\ \A d \in Devices \ {e} :
                  /\ dev'[d] = dev[d] /\ pending'[d] = pending[d] /\ task'[d] = task[d]
                  /\ d \in dirty' <=> d \in dirty
             /\ SilentDevice(e)'
  <2>1. /\ UNCHANGED <<incidents, phase, devices, loaded, dev, dirty>>
        /\ task[e].at = "thresholds"
        /\ pending' = [pending EXCEPT ![e][metric] = @ + 1]
        /\ TaskEnds(e) \/ task' = task
    BY <1>9 DEF ThresholdExceeded, database
  <2>2. /\ task'[e].at \notin {"probe", "apply"}
        /\ \A d \in Devices \ {e} : task'[d] = task[d]
    BY <2>1, TaskFacts
  <2>3. \A d \in Devices \ {e} : pending'[d] = pending[d]
    BY <1>2, <2>1
  <2>4. QED
    BY <1>1, <1>2, <2>1, <2>2, <2>3 DEF SilentDevice, AsLoaded
<1>10. CASE Recovery(e)
  <2>1. /\ UNCHANGED <<incidents, phase, devices, loaded, dev, dirty>>
        /\ task[e].at = "recovery"
        /\ pending' = pending \/ pending' = [pending EXCEPT ![e] = NoIncidents]
        /\ TaskEnds(e)
    BY <1>10 DEF Recovery, database
  <2>2. task'[e].at = "done" /\ \A d \in Devices \ {e} : task'[d] = task[d]
    BY <2>1, TaskFacts
  <2>3. \A d \in Devices \ {e} : pending'[d] = pending[d]
    BY <1>2, <2>1
  <2>4. QED
    BY <1>1, <1>2, <2>1, <2>2, <2>3 DEF SilentDevice, AsLoaded
<1>11. QED
  BY <1>4, <1>5, <1>6, <1>7, <1>8, <1>9, <1>10 DEF CheckStep

LEMMA SilentClose ==
  ASSUME CloseSession
  PROVE  SilentInv'
BY DEF CloseSession, SilentInv, SilentDevice, AsLoaded

LEMMA SilentPropagateStep ==
  ASSUME TypeOK, SilentInv, NEW e \in Devices, PropagateStep(e)
  PROVE  SilentInv'
<1>1. CASE Cascade(e)
  <2>1. /\ phase = "cascade" /\ e \in devices
        /\ UNCHANGED <<incidents, phase, devices, loaded, released>>
        /\ FallsByDependency(e)
        /\ pending' = pending \/ pending' = [pending EXCEPT ![e]["dependency"] = @ + 1]
    BY <1>1 DEF Cascade, Cascades, database, history
  <2>2. /\ dev'[e].status = "down"
        /\ \A d \in Devices \ {e} : dev'[d] = dev[d]
    BY <2>1, SetDeviceFacts DEF FallsByDependency
  <2>3. \A d \in Devices \ {e} : pending'[d] = pending[d]
    BY <2>1 DEF TypeOK
  <2>4. e \in loaded /\ phase' = "cascade"
    BY <2>1 DEF SilentInv
  <2>5. SilentDevice(e)'
    BY <2>1, <2>2, <2>4 DEF SilentDevice, AsLoaded
  <2>6. ASSUME NEW d \in Devices \ {e} PROVE SilentDevice(d)'
    BY <2>1, <2>2, <2>3 DEF SilentInv, SilentDevice, AsLoaded
  <2>7. \A d \in Devices : SilentDevice(d)'
    BY <2>5, <2>6
  <2>8. QED
    BY <2>1, <2>4, <2>7 DEF SilentInv
<1>2. CASE CascadeRaises(e)
  BY <1>2, SilentClose DEF CascadeRaises, Rollback
<1>3. CASE Recover(e)
  <2>1. /\ phase = "recover" /\ e \in todo /\ UNCHANGED <<incidents, phase, devices, loaded>>
        /\ todo' \subseteq todo
        /\ ComesUp(e, dev[e].flapping)
        /\ pending' = [pending EXCEPT ![e] = NoIncidents]
    BY <1>3 DEF Recover, database
  <2>2. /\ dev'[e].status = "up"
        /\ \A d \in Devices \ {e} : dev'[d] = dev[d]
    BY <2>1, SetDeviceFacts DEF ComesUp
  <2>3. \A d \in Devices \ {e} : pending'[d] = pending[d]
    BY <2>1 DEF TypeOK
  <2>4. e \in loaded /\ phase' = "recover"
    BY <2>1 DEF SilentInv
  <2>5. SilentDevice(e)'
    BY <2>1, <2>2, <2>4 DEF SilentDevice, AsLoaded
  <2>6. ASSUME NEW d \in Devices \ {e} PROVE SilentDevice(d)'
    BY <2>1, <2>2, <2>3 DEF SilentInv, SilentDevice, AsLoaded
  <2>7. \A d \in Devices : SilentDevice(d)'
    BY <2>5, <2>6
  <2>8. QED
    BY <2>1, <2>4, <2>7 DEF SilentInv
<1>4. CASE DoNotRecover(e)
  <2>1. /\ phase = "recover" /\ todo' \subseteq todo
        /\ UNCHANGED <<incidents, phase, devices, loaded, dev, pending>>
    BY <1>4 DEF DoNotRecover, database
  <2>2. \A d \in Devices : SilentDevice(d)'
    BY <2>1 DEF SilentInv, SilentDevice, AsLoaded
  <2>3. QED
    BY <2>1, <2>2 DEF SilentInv
<1>5. QED
  BY <1>1, <1>2, <1>3, <1>4 DEF PropagateStep

LEMMA SilentStep ==
  ASSUME TypeOK, SilentInv, [Next]_vars
  PROVE  SilentInv'
<1>1. CASE StartCycle
  <2>1. /\ pending = incidents /\ UNCHANGED <<incidents, pending>>
        /\ phase' = "check" /\ devices' = Monitored /\ loaded' = Monitored /\ dev' = row
    BY <1>1 DEF StartCycle, SilentInv, database
  <2>2. \A d \in Devices : task'[d].at # "done" => d \in Monitored
    BY <1>1 DEF StartCycle, Finished
  <2>3. \A d \in Monitored : row[d].status # "maintenance"
    BY DEF Monitored
  <2>4. \A d \in Devices : SilentDevice(d)'
    BY <2>1, <2>2, <2>3 DEF SilentDevice
  <2>5. QED
    BY <2>1, <2>4 DEF SilentInv
<1>2. ASSUME NEW d \in Devices, CheckStep(d) PROVE SilentInv'
  BY <1>2, SilentCheckStep
<1>3. ASSUME NEW d \in Devices, PropagateStep(d) PROVE SilentInv'
  BY <1>3, SilentPropagateStep
<1>4. CASE EndChecks
  <2>1. /\ phase = "check" /\ phase' = "refetch"
        /\ incidents' = pending
        /\ UNCHANGED <<devices, loaded, dev, pending>>
        /\ row' = [d \in Devices |-> Committed(d)]
    BY <1>4 DEF EndChecks, Commit
  <2>2. ASSUME NEW d \in Devices, d \in loaded, dev[d].status = "maintenance"
        PROVE  row'[d].status = "maintenance"
    <3>1. d \in dirty
      BY <2>1, <2>2 DEF SilentInv, SilentDevice
    <3>2. Committed(d).status = dev[d].status
      BY <2>2, <3>1 DEF Committed, TypeOK, Row
    <3>3. QED
      BY <2>1, <2>2, <3>2
  <2>3. \A d \in Devices : SilentDevice(d)'
    BY <2>1, <2>2 DEF SilentDevice
  <2>4. QED
    BY <2>1, <2>3 DEF SilentInv
<1>15. CASE SelectAgain
  <2>1. /\ phase = "refetch" /\ phase' = "cascade"
        /\ devices' = Monitored /\ loaded' = loaded \union Monitored
        /\ dev' = [d \in Devices |-> IF d \in loaded THEN dev[d] ELSE row[d]]
        /\ UNCHANGED <<incidents, pending, released>>
    BY <1>15 DEF SelectAgain, Refetch, database, history
  <2>2. ASSUME NEW d \in devices', dev'[d].status = "maintenance" PROVE d \in released
    <3>1. d \in Devices /\ row[d].status # "maintenance"
      BY <2>1 DEF Monitored
    <3>2. d \in loaded /\ dev[d].status = "maintenance"
      BY <2>1, <2>2, <3>1
    <3>3. QED
      BY <2>1, <3>1, <3>2 DEF SilentInv, SilentDevice
  <2>3. ASSUME NEW d \in Devices PROVE SilentDevice(d)'
    <3>1. d \notin loaded \/ dev[d].status = "maintenance" => pending[d] = incidents[d]
      BY DEF SilentInv, SilentDevice, AsLoaded
    <3>2. d \notin loaded' => d \notin loaded
      BY <2>1
    <3>3. d \in loaded => dev'[d] = dev[d]
      BY <2>1
    <3>4. QED
      BY <2>1, <2>2, <3>1, <3>2, <3>3 DEF SilentDevice, AsLoaded
  <2>4. QED
    BY <2>1, <2>3 DEF SilentInv
<1>5. CASE EndCascade
  <2>1. /\ phase' = "recover" /\ todo' = devices /\ phase = "cascade"
        /\ UNCHANGED <<incidents, devices, loaded, dev, dirty, pending, task>>
    BY <1>5 DEF EndCascade, database
  <2>2. \A d \in Devices : SilentDevice(d)'
    BY <2>1 DEF SilentInv, SilentDevice, AsLoaded
  <2>3. QED
    BY <2>1, <2>2 DEF SilentInv
<1>6. CASE EndRecover
  <2>1. /\ phase' = "links" /\ incidents' = pending
        /\ UNCHANGED <<devices, loaded, pending>>
    BY <1>6 DEF EndRecover, Commit
  <2>2. \A d \in Devices : SilentDevice(d)'
    BY <2>1 DEF SilentDevice
  <2>3. QED
    BY <2>1, <2>2 DEF SilentInv
<1>7. CASE UpdateLinks
  <2>1. /\ phase' = "rca" /\ phase = "links"
        /\ UNCHANGED <<incidents, devices, loaded, dev, pending>>
    BY <1>7 DEF UpdateLinks
  <2>2. \A d \in Devices : SilentDevice(d)'
    BY <2>1 DEF SilentInv, SilentDevice, AsLoaded
  <2>3. QED
    BY <2>1, <2>2 DEF SilentInv
<1>8. CASE RunRCA \/ SendAborts \/ Crash
  BY <1>8, SilentClose DEF RunRCA, SendAborts, Crash, Rollback
<1>9. ASSUME NEW e \in Devices, Flip(e) \/ ChangeWindows(e) PROVE SilentInv'
  <2>1. UNCHANGED <<row, incidents, session, released>>
    BY <1>9 DEF Flip, ChangeWindows, database, history
  <2>2. QED
    BY <2>1 DEF session, SilentInv, SilentDevice, AsLoaded
<1>16. ASSUME NEW e \in Devices, PatchStatus(e) PROVE SilentInv'
  <2>1. UNCHANGED <<incidents, session>>
    BY <1>16 DEF PatchStatus
  <2>2. /\ \A d \in Devices \ {e} : row'[d] = row[d]
        /\ phase = "refetch" => row'[e].status = "maintenance" \/ e \in released'
        /\ released \subseteq released'
    BY <1>16 DEF PatchStatus, TypeOK
  <2>3. ASSUME NEW d \in Devices PROVE SilentDevice(d)'
    BY <2>1, <2>2 DEF session, SilentInv, SilentDevice, AsLoaded
  <2>4. QED
    BY <2>1, <2>3 DEF session, SilentInv
<1>10. ASSUME NEW e \in Devices, NEW k \in IncidentKind, NEW step \in {1, -1},
              incidents' = [incidents EXCEPT ![e][k] = @ + step],
              pending' = [pending EXCEPT ![e][k] = @ + step],
              UNCHANGED <<row, phase, devices, loaded, dev, dirty, task, todo, released>>
       PROVE  SilentInv'
  <2>1. \A d \in Devices : pending[d] = incidents[d] => pending'[d] = incidents'[d]
    BY <1>10 DEF TypeOK
  <2>2. pending = incidents => pending' = incidents'
    BY <1>10
  <2>3. \A d \in Devices : SilentDevice(d)'
    BY <1>10, <2>1 DEF SilentInv, SilentDevice, AsLoaded
  <2>4. QED
    BY <1>10, <2>2, <2>3 DEF SilentInv
<1>11. ASSUME NEW e \in Devices, RebootFails(e) PROVE SilentInv'
  <2>1. "reboot" \in IncidentKind /\ 1 \in {1, -1}
    BY DEF IncidentKind
  <2>2. /\ incidents' = [incidents EXCEPT ![e]["reboot"] = @ + 1]
        /\ pending' = [pending EXCEPT ![e]["reboot"] = @ + 1]
        /\ UNCHANGED <<row, phase, devices, loaded, dev, dirty, task, todo, released>>
    BY <1>11 DEF RebootFails, history
  <2>3. QED
    BY <2>1, <2>2, <1>10
<1>12. ASSUME NEW e \in Devices, NEW k \in IncidentKind, ResolveIncident(e, k)
       PROVE  SilentInv'
  <2>1. /\ incidents[e][k] \in Int /\ pending[e][k] \in Int
    BY DEF TypeOK, IncidentCounts
  <2>2. /\ incidents' = [incidents EXCEPT ![e][k] = @ + (-1)]
        /\ pending' = [pending EXCEPT ![e][k] = @ + (-1)]
        /\ UNCHANGED <<row, phase, devices, loaded, dev, dirty, task, todo, released>>
    BY <1>12, <2>1 DEF ResolveIncident, history
  <2>3. QED
    BY <2>2, <1>10
<1>13. CASE UNCHANGED vars
  BY <1>13 DEF vars, database, session, history, SilentInv, SilentDevice, AsLoaded
<1>14. QED
  BY <1>1, <1>2, <1>3, <1>4, <1>5, <1>6, <1>7, <1>8, <1>9, <1>11, <1>12, <1>13, <1>15, <1>16
     DEF Next, Worker, Api

\* A step opens no outage of a device whose object is in maintenance.
OpensNoOutage ==
  \A d \in Devices :
    dev[d].status = "maintenance" /\ ~ ListedInMaintenance(d)
    => Outages(pending'[d]) <= Outages(pending[d])

LEMMA SilentSteps ==
  ASSUME TypeOK, TypeOK', SilentInv, [Next]_vars
  PROVE  OpensNoOutage
<1> USE BoundsAssumption
<1> SUFFICES ASSUME NEW d \in Devices, dev[d].status = "maintenance",
                    ~ ListedInMaintenance(d), pending'[d] # pending[d]
             PROVE  Outages(pending'[d]) <= Outages(pending[d])
  <2>1. \A d \in Devices : Outages(pending[d]) \in Nat
    BY CountsFacts DEF TypeOK
  <2>2. QED
    BY <2>1 DEF OpensNoOutage
<1>1. /\ pending \in [Devices -> IncidentCounts] /\ pending[d] = incidents[d]
      /\ phase # "idle" \/ pending = incidents
      /\ phase = "check" => task[d].at = "done"
      /\ phase = "cascade" => d \notin devices
  BY DEF TypeOK, SilentInv, SilentDevice, ListedInMaintenance
<1>2. ASSUME CloseSession, UNCHANGED incidents PROVE FALSE
  BY <1>1, <1>2 DEF CloseSession
<1>3. ASSUME NEW e \in Devices, CheckStep(e) PROVE FALSE
  <2>1. phase = "check" /\ task[e].at # "done"
    BY <1>3 DEF CheckStep, Probe, WindowsOverlap, QueryRaises, EnterMaintenance, CheckSucceeds, CheckFails,
       WithinThresholds, ThresholdExceeded, Recovery
  <2>2. e # d
    BY <1>1, <2>1
  <2>3. pending'[d] = pending[d]
    BY <1>1, <1>3, <2>2
       DEF CheckStep, Probe, WindowsOverlap, QueryRaises, EnterMaintenance, CheckSucceeds, CheckFails,
           WithinThresholds, ThresholdExceeded, Recovery
  <2>4. QED
    BY <2>3
<1>4. ASSUME NEW e \in Devices, PropagateStep(e) PROVE FALSE
  <2>1. CASE Cascade(e)
    <3>1. e # d
      BY <1>1, <2>1 DEF Cascade, Cascades
    <3>2. pending'[d] = pending[d]
      BY <1>1, <2>1, <3>1 DEF Cascade
    <3>3. QED
      BY <3>2
  <2>2. CASE Recover(e)
    <3>1. e # d
      BY <2>2 DEF Recover, FellByDependency
    <3>2. pending'[d] = pending[d]
      BY <1>1, <2>2, <3>1 DEF Recover
    <3>3. QED
      BY <3>2
  <2>3. QED
    BY <1>2, <1>4, <2>1, <2>2
       DEF PropagateStep, CascadeRaises, DoNotRecover, Rollback, database
<1>5. ASSUME StartCycle \/ EndChecks \/ SelectAgain \/ EndCascade \/ EndRecover \/ UpdateLinks
      PROVE  FALSE
  BY <1>5 DEF StartCycle, EndChecks, SelectAgain, EndCascade, EndRecover, UpdateLinks
<1>6. ASSUME RunRCA \/ SendAborts \/ Crash PROVE FALSE
  BY <1>2, <1>6 DEF RunRCA, SendAborts, Crash, Rollback, database
<1>7. ASSUME NEW e \in Devices, Flip(e) \/ ChangeWindows(e) \/ PatchStatus(e) PROVE FALSE
  BY <1>7 DEF Flip, ChangeWindows, PatchStatus, session
<1>8. ASSUME NEW e \in Devices, RebootFails(e)
      PROVE  Outages(pending'[d]) <= Outages(pending[d])
  <2>1. pending' = [pending EXCEPT ![e]["reboot"] = @ + 1]
    BY <1>8 DEF RebootFails
  <2>2. e = d
    BY <1>1, <2>1
  <2>3. /\ "reboot" \in IncidentKind /\ "reboot" \in OtherKind
        /\ pending[d]["reboot"] + 1 \in Nat
    BY <1>1, CountsFacts DEF IncidentKind, OtherKind
  <2>4. pending'[d] = [pending[d] EXCEPT !["reboot"] = pending[d]["reboot"] + 1]
    BY <1>1, <2>1, <2>2
  <2>5. Outages(pending'[d]) = Outages(pending[d])
    BY <1>1, <2>3, <2>4, ChangeCount
  <2>6. QED
    BY <1>1, <2>5, CountsFacts
<1>9. ASSUME NEW e \in Devices, NEW k \in IncidentKind, ResolveIncident(e, k)
      PROVE  Outages(pending'[d]) <= Outages(pending[d])
  <2>1. /\ pending' = [pending EXCEPT ![e][k] = @ - 1]
        /\ pending[e][k] >= incidents[e][k] /\ incidents[e][k] > 0
    BY <1>9 DEF ResolveIncident
  <2>2. e = d
    BY <1>1, <2>1
  <2>3. pending[d][k] \in Nat /\ pending[d][k] > 0
    BY <1>1, <2>1, <2>2, CountsFacts
  <2>4. pending[d][k] - 1 \in Nat
    BY <2>3
  <2>5. pending'[d] = [pending[d] EXCEPT ![k] = pending[d][k] - 1]
    BY <1>1, <2>1, <2>2
  <2>6. /\ k \in OtherKind => Outages(pending'[d]) = Outages(pending[d])
        /\ k \in {"own", "dependency"} =>
             Outages(pending'[d]) = Outages(pending[d]) - pending[d][k] + (pending[d][k] - 1)
    BY <1>1, <2>4, <2>5, ChangeCount
  <2>7. Outages(pending[d]) \in Nat
    BY <1>1, CountsFacts
  <2>8. QED
    BY <2>3, <2>6, <2>7 DEF IncidentKind, OtherKind
<1>10. CASE UNCHANGED vars
  BY <1>10 DEF vars, session
<1>11. QED
  BY <1>3, <1>4, <1>5, <1>6, <1>7, <1>8, <1>9, <1>10 DEF Next, Worker, Api

\* Whatever windows begin and end, operators write and sessions roll back: once
\* a check has seen the window of a device, the worker opens no outage for it,
\* on its own failure or on its parent's, except in the cascade of a cycle
\* whose second SELECT lists the device because an operator has just taken its
\* row out of maintenance.
THEOREM MaintenanceSilent == Spec => MaintenanceIsSilent
<1>1. Init => TypeOK /\ SilentInv
  BY TypeInit, SilentInit
<1>2. TypeOK /\ SilentInv /\ [Next]_vars => (TypeOK /\ SilentInv)'
  BY TypeStep, SilentStep
<1>3. TypeOK /\ SilentInv /\ (TypeOK /\ SilentInv)' /\ [Next]_vars => [OpensNoOutage]_vars
  BY SilentSteps
<1>4. MaintenanceIsSilent <=> [][OpensNoOutage]_vars
  BY DEF MaintenanceIsSilent, OpensNoOutage
<1>5. QED
  BY <1>1, <1>2, <1>3, <1>4, PTL DEF Spec

-----------------------------------------------------------------------------
(***************************************************************************)
(* The committed rows and incidents implement the register of outages.     *)
(***************************************************************************)

\* The configuration the register is stated for: the worker is alone in opening
\* and resolving incidents, all it opens are outages, and its checks finish.
Plain ==
  /\ Patches = {} /\ Undisturbed /\ ChecksFinish
  /\ Thresholded = {} /\ Rebootable = {}

LEMMA OtherKinds == OtherKind \subseteq IncidentKind /\ {"own", "dependency"} \intersect OtherKind = {}
BY DEF OtherKind, IncidentKind, ThresholdMetric

LEMMA PlainInit == Init => PlainInv /\ CycleInv
BY OtherKinds DEF Init, PlainInv, CycleInv, NoIncidents

LEMMA PlainClose ==
  ASSUME PlainInv, UNCHANGED <<row, incidents>>, CloseSession
  PROVE  PlainInv' /\ CycleInv'
BY DEF PlainInv, CycleInv, CloseSession

LEMMA PlainCheckStep ==
  ASSUME Plain, Inv, PlainInv, CycleInv, NEW e \in Devices, CheckStep(e)
  PROVE  PlainInv' /\ CycleInv'
<1>1. pending \in [Devices -> IncidentCounts]
  BY DEF Inv, TypeOK
<1>2. CASE Probe(e) \/ WindowsOverlap(e) \/ WithinThresholds(e)
  <2>1. UNCHANGED <<row, incidents, dev, pending>>
    BY <1>2 DEF Probe, WindowsOverlap, WithinThresholds, database
  <2>2. QED
    BY <2>1 DEF PlainInv, CycleInv
<1>3. ~ QueryRaises(e) /\ \A metric \in ThresholdMetric : ~ ThresholdExceeded(e, metric)
  BY NoQueryRaises DEF ThresholdExceeded, Plain, Inv
<1>4. task[e].at = "apply" => dev[e].status = row[e].status /\ dev[e].status # "maintenance"
  BY DEF Inv, OutageInv, DeviceInv, Unchecked, CounterInv, SessionInSync
<1>5. CASE EnterMaintenance(e)
  <2>1. /\ SetDevice(e, "maintenance", 0, dev[e].flapping)
        /\ UNCHANGED <<row, incidents, pending>>
    BY <1>5 DEF EnterMaintenance, database
  <2>2. dev'[e].status = "maintenance" /\ \A d \in Devices \ {e} : dev'[d] = dev[d]
    BY <2>1, SetDeviceFacts DEF Inv
  <2>3. QED
    BY <2>1, <2>2 DEF PlainInv, CycleInv
<1>6. CASE CheckSucceeds(e)
  <2>1. PICK flapping \in FlapVerdicts(e) : SetDevice(e, "up", 0, flapping)
    BY <1>6 DEF CheckSucceeds, ComesUp
  <2>2. dev'[e].status = "up" /\ \A d \in Devices \ {e} : dev'[d] = dev[d]
    BY <2>1, SetDeviceFacts DEF Inv
  <2>3. UNCHANGED <<row, incidents, pending>> /\ task[e].at = "apply"
    BY <1>6 DEF CheckSucceeds, database
  <2>4. QED
    BY <1>4, <2>2, <2>3 DEF PlainInv, CycleInv
<1>7. CASE CheckFails(e)
  <2>1. /\ UNCHANGED <<row, incidents>> /\ task[e].at = "apply"
        /\ \/ pending' = pending
           \/ pending' = [pending EXCEPT ![e]["own"] = Bump(@, MaxOpen)]
    BY <1>7 DEF CheckFails, database
  <2>2. \A d \in Devices : \A k \in OtherKind : pending'[d][k] = pending[d][k]
    BY <1>1, <2>1, OtherKinds DEF IncidentCounts
  <2>3. /\ Frame(e) /\ dev'[e].status \in {"degraded", "down"}
        /\ dev'[e].status = "degraded" => dev[e].status # "down"
    BY <1>7, OutageCheckFails
  <2>4. PlainInv'
    BY <2>1, <2>2 DEF PlainInv
  <2>5. CycleInv'
    BY <1>4, <2>1, <2>3 DEF CycleInv, Frame
  <2>6. QED
    BY <2>4, <2>5
<1>8. CASE Recovery(e)
  <2>1. /\ UNCHANGED <<row, incidents, dev>>
        /\ pending' = pending \/ pending' = [pending EXCEPT ![e] = NoIncidents]
    BY <1>8 DEF Recovery, database
  <2>2. \A k \in OtherKind : NoIncidents[k] = 0
    BY OtherKinds DEF NoIncidents
  <2>3. QED
    BY <1>1, <2>1, <2>2 DEF PlainInv, CycleInv
<1>9. QED
  BY <1>2, <1>3, <1>5, <1>6, <1>7, <1>8 DEF CheckStep

LEMMA PlainPropagateStep ==
  ASSUME Inv, PlainInv, CycleInv, NEW e \in Devices, PropagateStep(e)
  PROVE  PlainInv' /\ CycleInv'
<1>1. pending \in [Devices -> IncidentCounts]
  BY DEF Inv, TypeOK
<1>2. CASE Cascade(e)
  <2>1. /\ Frame(e) /\ dev'[e].status = "down"
        /\ \/ pending' = pending
           \/ pending' = [pending EXCEPT ![e] = [pending[e] EXCEPT !["dependency"] = 1]]
    BY <1>2, OutageCascade
  <2>2. dev[e].status # "maintenance"
    BY <1>2 DEF Cascade, Cascades, Inv, OutageInv, PhaseInv
  <2>3. \A d \in Devices : \A k \in OtherKind : pending'[d][k] = pending[d][k]
    BY <1>1, <2>1, OtherKinds DEF IncidentCounts
  <2>4. QED
    BY <2>1, <2>2, <2>3 DEF PlainInv, CycleInv, Frame
<1>3. CASE CascadeRaises(e)
  BY <1>3, PlainClose DEF CascadeRaises, Rollback, database
<1>4. CASE Recover(e)
  <2>1. /\ Frame(e) /\ dev'[e].status = "up" /\ dev[e].status = "down"
        /\ pending' = [pending EXCEPT ![e] = NoIncidents]
    BY <1>4, OutageRecover DEF Recover, FellByDependency
  <2>2. \A k \in OtherKind : NoIncidents[k] = 0
    BY OtherKinds DEF NoIncidents
  <2>3. QED
    BY <1>1, <2>1, <2>2 DEF PlainInv, CycleInv, Frame
<1>5. CASE DoNotRecover(e)
  BY <1>5 DEF DoNotRecover, database, PlainInv, CycleInv
<1>6. QED
  BY <1>2, <1>3, <1>4, <1>5 DEF PropagateStep

LEMMA PlainStep ==
  ASSUME Plain, Inv, PlainInv, CycleInv, [Next]_vars
  PROVE  PlainInv' /\ CycleInv'
<1>1. CASE StartCycle
  BY <1>1 DEF StartCycle, database, PlainInv, CycleInv
<1>2. ASSUME NEW d \in Devices, CheckStep(d) PROVE PlainInv' /\ CycleInv'
  BY <1>2, PlainCheckStep
<1>3. ASSUME NEW d \in Devices, PropagateStep(d) PROVE PlainInv' /\ CycleInv'
  BY <1>3, PlainPropagateStep
<1>4. CASE EndChecks \/ EndRecover
  <2>1. Commit /\ UNCHANGED <<dev, pending>>
    BY <1>4 DEF EndChecks, EndRecover
  <2>2. \A d \in Devices : row'[d].status = dev[d].status
    BY <2>1, CommitSynced DEF Inv, CounterInv
  <2>3. incidents' = pending
    BY <2>1 DEF Commit
  <2>4. QED
    BY <2>1, <2>2, <2>3 DEF PlainInv, CycleInv
<1>5. CASE SelectAgain
  <2>1. /\ UNCHANGED <<row, incidents, pending>>
        /\ \A d \in Devices : dev'[d] = dev[d] \/ dev'[d] = row[d]
    BY <1>5 DEF SelectAgain, Refetch, database
  <2>2. QED
    BY <2>1 DEF PlainInv, CycleInv
<1>6. CASE EndCascade \/ UpdateLinks
  BY <1>6 DEF EndCascade, UpdateLinks, database, PlainInv, CycleInv
<1>7. CASE RunRCA \/ SendAborts \/ Crash
  BY <1>7, PlainClose DEF RunRCA, SendAborts, Crash, Rollback, database
<1>8. ASSUME NEW d \in Devices, Flip(d) \/ ChangeWindows(d) PROVE PlainInv' /\ CycleInv'
  BY <1>8 DEF Flip, ChangeWindows, database, session, PlainInv, CycleInv
<1>9. \A d \in Devices : ~ Api(d)
  BY DEF Api, PatchStatus, RebootFails, ResolveIncident, Plain, Undisturbed
<1>10. CASE UNCHANGED vars
  BY <1>10 DEF vars, database, session, PlainInv, CycleInv
<1>11. QED
  BY <1>1, <1>2, <1>3, <1>4, <1>5, <1>6, <1>7, <1>8, <1>9, <1>10 DEF Next, Worker

\* In a committed state, of the devices that are not in maintenance, exactly
\* those that are DOWN have an outage.
LEMMA OutageIffDown ==
  ASSUME NEW r \in Row, NEW c \in IncidentCounts, r.status # "maintenance",
         \A k \in OtherKind : c[k] = 0,
         Announced(r.status, c), Closed(r.status, c)
  PROVE  /\ r.status \in {"up", "down", "degraded", "unknown"}
         /\ r.status = "down" => (Outages(c) > 0) = TRUE
         /\ r.status # "down" => (Outages(c) > 0) = FALSE
<1>1. r.status \in {"up", "down", "degraded", "unknown"}
  BY DEF Row, DeviceStatus
<1>2. Outages(c) = Unresolved(c)
  BY CountsFacts, BoundsAssumption
<1>3. ASSUME r.status = "down" PROVE Outages(c) > 0
  BY <1>2, <1>3 DEF Announced
<1>4. ASSUME r.status # "down" PROVE ~ (Outages(c) > 0)
  <2>1. Outages(c) = 0
    BY <1>1, <1>4 DEF Closed, InService
  <2>2. QED
    BY <2>1
<1>5. QED
  BY <1>1, <1>3, <1>4

\* A commit makes one step of the register for every device.
LEMMA CommitIsRegistered ==
  ASSUME Inv, Inv', AnnouncedInv, AnnouncedInv', PlainInv, PlainInv', CycleInv, SilentInv, Commit
  PROVE  Register!Next
<1> SUFFICES ASSUME NEW d \in Devices
             PROVE  \/ Register!IsUp(d) \/ Register!Degrades(d) \/ Register!GoesDown(d)
                    \/ Register!StaysDown(d) \/ Register!EntersMaintenance(d)
                    \/ Register!Unchanged(d)
  BY DEF Register!Next
<1>1. row[d].status # "maintenance" =>
        /\ row[d].status \in {"up", "down", "degraded", "unknown"}
        /\ row[d].status = "down" => (Outages(incidents[d]) > 0) = TRUE
        /\ row[d].status # "down" => (Outages(incidents[d]) > 0) = FALSE
  <2>1. row[d] \in Row /\ incidents[d] \in IncidentCounts /\ Closed(row[d].status, incidents[d])
    BY DEF Inv, TypeOK, OutageInv, DeviceInv
  <2>2. Announced(row[d].status, incidents[d]) /\ \A k \in OtherKind : incidents[d][k] = 0
    BY DEF AnnouncedInv, PlainInv
  <2>3. QED
    BY <2>1, <2>2, OutageIffDown
<1>2. row'[d].status # "maintenance" =>
        /\ row'[d].status \in {"up", "down", "degraded", "unknown"}
        /\ row'[d].status = "down" => (Outages(incidents'[d]) > 0) = TRUE
        /\ row'[d].status # "down" => (Outages(incidents'[d]) > 0) = FALSE
  <2>1. /\ row'[d] \in Row /\ incidents'[d] \in IncidentCounts
        /\ Closed(row'[d].status, incidents'[d])
    BY DEF Inv, TypeOK, OutageInv, DeviceInv, Closed
  <2>2. /\ Announced(row'[d].status, incidents'[d])
        /\ \A k \in OtherKind : incidents'[d][k] = 0
    BY DEF AnnouncedInv, PlainInv, Announced
  <2>3. QED
    BY <2>1, <2>2, OutageIffDown
<1>3. row[d].flapping = FALSE /\ row'[d].flapping = FALSE
  BY DEF AnnouncedInv
<1>4. row'[d].status = dev[d].status
  BY CommitSynced DEF Inv, CounterInv
<1>5. /\ row'[d].status = "degraded" => row[d].status # "down"
      /\ row'[d].status = "unknown" => row[d].status = "unknown"
      /\ row[d].status = "maintenance" => row'[d].status = "maintenance"
  BY <1>4 DEF CycleInv
<1>6. Register!Verdict(d, TRUE) /\ Register!Verdict(d, FALSE)
  BY <1>3 DEF Register!Verdict
<1>7. CASE row'[d].status = "maintenance"
  <2>1. pending[d] = incidents[d]
    BY <1>4, <1>7 DEF SilentInv, SilentDevice
  <2>2. incidents'[d] = incidents[d]
    BY <2>1 DEF Commit
  <2>3. QED
    BY <1>3, <1>7, <2>2 DEF Register!EntersMaintenance
<1>8. CASE row'[d].status = "up"
  BY <1>2, <1>5, <1>6, <1>8 DEF Register!IsUp
<1>9. CASE row'[d].status = "degraded"
  BY <1>1, <1>2, <1>5, <1>6, <1>9 DEF Register!Degrades
<1>10. CASE row'[d].status = "down" /\ row[d].status # "down"
  BY <1>2, <1>5, <1>6, <1>10 DEF Register!GoesDown
<1>11. CASE row'[d].status = "down" /\ row[d].status = "down"
  BY <1>1, <1>2, <1>6, <1>11 DEF Register!StaysDown
<1>12. CASE row'[d].status = "unknown"
  BY <1>1, <1>2, <1>3, <1>5, <1>12 DEF Register!Unchanged
<1>13. QED
  BY <1>2, <1>7, <1>8, <1>9, <1>10, <1>11, <1>12

LEMMA StepIsRegistered ==
  ASSUME Plain, Inv, Inv', AnnouncedInv, AnnouncedInv', PlainInv, PlainInv', CycleInv,
         SilentInv, [Next]_vars
  PROVE  [Register!Next]_(Register!vars)
<1>1. CASE EndChecks \/ EndRecover
  BY <1>1, CommitIsRegistered DEF EndChecks, EndRecover
<1>2. ASSUME ~ EndChecks, ~ EndRecover PROVE UNCHANGED <<row, incidents>>
  <2>1. ASSUME NEW d \in Devices, CheckStep(d) PROVE UNCHANGED <<row, incidents>>
    BY <2>1 DEF CheckStep, Probe, WindowsOverlap, QueryRaises, EnterMaintenance, CheckSucceeds,
       CheckFails, WithinThresholds, ThresholdExceeded, Recovery, database
  <2>2. ASSUME NEW d \in Devices, PropagateStep(d) PROVE UNCHANGED <<row, incidents>>
    BY <2>2 DEF PropagateStep, Cascade, CascadeRaises, Recover, DoNotRecover, Rollback,
       database
  <2>3. ASSUME \/ StartCycle \/ SelectAgain \/ EndCascade \/ UpdateLinks
               \/ RunRCA \/ SendAborts \/ Crash
        PROVE  UNCHANGED <<row, incidents>>
    BY <2>3 DEF StartCycle, SelectAgain, EndCascade, UpdateLinks, RunRCA, SendAborts, Crash, Rollback,
       database
  <2>4. ASSUME NEW d \in Devices, Flip(d) \/ ChangeWindows(d) PROVE UNCHANGED <<row, incidents>>
    BY <2>4 DEF Flip, ChangeWindows, database
  <2>5. \A d \in Devices : ~ Api(d)
    BY DEF Api, PatchStatus, RebootFails, ResolveIncident, Plain, Undisturbed
  <2>6. ASSUME UNCHANGED vars PROVE UNCHANGED <<row, incidents>>
    BY <2>6 DEF vars, database
  <2>7. QED
    BY <1>2, <2>1, <2>2, <2>3, <2>4, <2>5, <2>6 DEF Next, Worker
<1>3. ASSUME UNCHANGED <<row, incidents>> PROVE UNCHANGED Register!vars
  BY <1>3 DEF Register!vars
<1>4. QED
  BY <1>1, <1>2, <1>3

\* The rows that the commits of the worker leave behind implement the register
\* of outages: a device becomes DOWN in the commit that opens its outage, and
\* it leaves DOWN in the commit that makes it UP and closes the outage, with
\* restarts between any two steps of a cycle, and maintenance leaves its outage
\* as it is.  This is about a worker whose checks finish, of devices whose
\* detectors report no flapping and which have no thresholds and no reboots that
\* fail, and operators who PATCH no status and resolve no incident.  Those are
\* what the register does not describe: with an incident of another kind open,
\* for one, the cascade opens no outage.
THEOREM MonitorKeepsRegister ==
  ASSUME Plain
  PROVE  Spec => KeepsRegister
<1>1. Init => Register!Init
  <2>1. ASSUME Init, NEW d \in Devices
        PROVE  /\ row[d].status = "unknown" /\ row[d].flapping = FALSE
               /\ (Outages(incidents[d]) > 0) = FALSE
    BY <2>1, NothingUnresolved DEF Init
  <2>2. QED
    BY <2>1 DEF Register!Init
<1>2. Spec => [](Inv /\ AnnouncedInv)
  BY AnnouncedInvariance DEF Plain
<1>7. Init => SilentInv
  BY SilentInit
<1>8. Inv /\ SilentInv /\ [Next]_vars => SilentInv'
  BY SilentStep DEF Inv
<1>3. Init => PlainInv /\ CycleInv
  BY PlainInit
<1>4. Inv /\ PlainInv /\ CycleInv /\ [Next]_vars => PlainInv' /\ CycleInv'
  BY PlainStep
<1>5. Inv /\ Inv' /\ AnnouncedInv /\ AnnouncedInv' /\ PlainInv /\ PlainInv' /\ CycleInv
      /\ SilentInv /\ [Next]_vars => [Register!Next]_(Register!vars)
  BY StepIsRegistered
<1>6. QED
  BY <1>1, <1>2, <1>3, <1>4, <1>5, <1>7, <1>8, PTL DEF Spec, KeepsRegister, Register!Spec
=============================================================================
