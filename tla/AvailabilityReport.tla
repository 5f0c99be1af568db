-------------------------- MODULE AvailabilityReport --------------------------
(***************************************************************************)
(* GET /reports/availability (reports.py) for one device, over the         *)
(* incidents the monitor opens and resolves and operators PATCH            *)
(* (incidents.py).  The report sums the incidents up; what it should say   *)
(* is how long the device was DOWN.                                        *)
(*                                                                         *)
(* Time is counted in hours from 1; the report looks back from now.        *)
(* Maintenance windows and recoveries whose check raises are left out:     *)
(* Monitor has them.                                                       *)
(***************************************************************************)
EXTENDS Integers, Sequences, Functions, FiniteSets

CONSTANTS
  MaxTime,       \* bound: hours
  MaxIncidents,  \* bound: incidents of the device
  MaxAmended     \* bound: incidents that operators amend

VARIABLES
  now,
  down,        \* is the status of the device DOWN?
  incidents,   \* the rows of the device
  downHours,   \* history: the hours it was DOWN in
  amended,     \* history: resolved incidents an operator resolved or opened again
  hidden,      \* history: an outage was without an unresolved incident
  twice        \* history: an outage had two unresolved incidents

vars == <<now, down, incidents, downHours, amended, hidden, twice>>

Never == 0

Incident == [outage : BOOLEAN, open : BOOLEAN, detected : 1 .. MaxTime,
             resolved : Never .. MaxTime]

Init ==
  /\ now = 1
  /\ down = FALSE
  /\ incidents = << >>
  /\ downHours = {}
  /\ amended = {}
  /\ hidden = FALSE
  /\ twice = FALSE

Opened(outage) ==
  Append(incidents, [outage |-> outage, open |-> TRUE, detected |-> now,
                     resolved |-> Never])

Tick ==
  /\ now < MaxTime
  /\ now' = now + 1
  /\ downHours' = IF down THEN downHours \union {now} ELSE downHours
  /\ UNCHANGED <<down, incidents, amended, hidden, twice>>

\* A check or the cascade; the incident is left out while the device flaps.
GoesDown ==
  /\ ~ down /\ Len(incidents) < MaxIncidents
  /\ down' = TRUE
  /\ \/ incidents' = Opened(TRUE) /\ UNCHANGED hidden
     \/ hidden' = TRUE /\ UNCHANGED incidents
  /\ UNCHANGED <<now, downHours, amended, twice>>

\* Another process (Dockerfile: --workers 2), which had loaded the device before
\* the first one committed the outage, commits an incident of its own.
FoundDownAgain ==
  /\ down /\ Len(incidents) < MaxIncidents
  /\ incidents' = Opened(TRUE)
  /\ twice' = (twice \/ \E i \in DOMAIN incidents :
                           incidents[i].outage /\ incidents[i].open)
  /\ UNCHANGED <<now, down, downHours, amended, hidden>>

\* Recovery resolves every unresolved incident of the device.
Recovered ==
  [i \in DOMAIN incidents |->
     IF incidents[i].open THEN [incidents[i] EXCEPT !.open = FALSE, !.resolved = now]
     ELSE incidents[i]]

Recovers ==
  /\ down
  /\ down' = FALSE
  /\ incidents' = Recovered
  /\ UNCHANGED <<now, downHours, amended, hidden, twice>>

\* A threshold is exceeded, or a reboot has failed.
OtherIncident ==
  /\ Len(incidents) < MaxIncidents
  /\ incidents' = Opened(FALSE)
  /\ UNCHANGED <<now, down, downHours, amended, hidden, twice>>

\* PATCH with "resolved" sets resolved_at.
Resolve(i) ==
  /\ incidents[i].open
  /\ incidents' = [incidents EXCEPT ![i].open = FALSE, ![i].resolved = now]
  /\ hidden' = (hidden \/ incidents[i].outage)
  /\ UNCHANGED <<now, down, downHours, amended, twice>>

\* PATCH of a resolved incident: "resolved" sets resolved_at again, any other
\* status opens it with the resolved_at it has.
Amend(i) ==
  /\ ~ incidents[i].open
  /\ \/ incidents' = [incidents EXCEPT ![i].resolved = now]
     \/ incidents' = [incidents EXCEPT ![i].open = TRUE]
  /\ Cardinality(amended \union {i}) <= MaxAmended
  /\ amended' = amended \union {i}
  /\ UNCHANGED <<now, down, downHours, hidden, twice>>

Next ==
  \/ Tick \/ GoesDown \/ FoundDownAgain \/ Recovers \/ OtherIncident
  \/ \E i \in DOMAIN incidents : Resolve(i) \/ Amend(i)

Spec == Init /\ [][Next]_vars

-----------------------------------------------------------------------------
(***************************************************************************)
(* The report.                                                             *)
(***************************************************************************)

\* Incidents that were detected in the period.
InPeriod(inc, hours) == inc.detected >= now - hours

Larger(a, b) == IF a > b THEN a ELSE b

\* Incidents that are not resolved counted as nothing.
DowntimeIfResolved(inc, hours) ==
  IF inc.resolved = Never THEN 0
  ELSE Larger(inc.resolved - Larger(inc.detected, now - hours), 0)

\* resolved_at, or now; the start is clipped to the period.
Downtime(inc, hours) ==
  LET start == Larger(inc.detected, now - hours)
      end   == IF inc.resolved = Never THEN now ELSE inc.resolved
  IN Larger(end - start, 0)

Counted(hours) == {i \in DOMAIN incidents : InPeriod(incidents[i], hours)}

DowntimeHours(hours) ==
  FoldFunctionOnSet(+, 0, [i \in DOMAIN incidents |-> Downtime(incidents[i], hours)],
                    Counted(hours))

\* uptime_pct, in hours of the period.
Uptime(hours) == Larger(0, hours - DowntimeHours(hours))

-----------------------------------------------------------------------------
(***************************************************************************)
(* Properties.                                                             *)
(***************************************************************************)

TypeOK ==
  /\ now \in 1 .. MaxTime
  /\ {down, hidden, twice} \subseteq BOOLEAN
  /\ \A i \in DOMAIN incidents : i <= MaxIncidents /\ incidents[i] \in Incident
  /\ downHours \subseteq 1 .. MaxTime
  /\ amended \subseteq DOMAIN incidents

TrueUptime(hours) == hours - Cardinality({t \in downHours : t >= now - hours})

\* An outage that began before the period and reaches into it.
ReachesIn(inc, hours) ==
  inc.outage /\ inc.detected < now - hours
  /\ (inc.resolved = Never \/ inc.resolved > now - hours)

\* As long as no operator amends a resolved incident, the report is never lower
\* than the uptime there was if all incidents are outages and none was announced
\* by two processes, and never higher if no outage is without its incident and
\* none reaches in from before the period: it is then exact.
ReportIsExact ==
  \A hours \in 1 .. now : amended = {} =>
    /\ (~ twice /\ \A i \in DOMAIN incidents : incidents[i].outage)
         => Uptime(hours) >= TrueUptime(hours)
    /\ (~ hidden /\ \A i \in DOMAIN incidents : ~ ReachesIn(incidents[i], hours))
         => Uptime(hours) <= TrueUptime(hours)
=============================================================================
