----------------------------- MODULE ComponentsMC -----------------------------
(***************************************************************************)
(* Six components that share no state, for TLC: the behaviour picks one of *)
(* them at the start, and the others stay as they are.  The names of       *)
(* MonitorReplicas are the ones without a qualifier.                       *)
(***************************************************************************)
EXTENDS MonitorReplicas

CONSTANTS
  Callers, MaxFailures,
  Values, Keys,
  MaxTime, MaxIncidents, MaxAmended,
  Operators, MaxReboots, MaxFailed,
  Top4, Top6, Limit

\* What the code and the bounds of the models take the constants to be.
ASSUME ComponentsAssumption ==
  /\ Workers # {} /\ DownThreshold \in Nat \ {0} /\ MaxFaults \in Nat
  /\ MaxFailures \in Nat
  /\ IsFiniteSet(Callers) /\ Values # {}
  /\ MaxTime \in Nat \ {0} /\ MaxIncidents \in Nat
  /\ IsFiniteSet(Operators) /\ MaxReboots \in Nat /\ MaxFailed \in Nat
  /\ Top4 \in Nat /\ Top6 \in Nat /\ Top4 <= Top6 /\ Limit \in Nat

VARIABLES
  part,   \* the component that moves
  service, checkType, answer, request, failed, overlapped,
  stored, put, asked, stale,
  now, down, incidents, downHours, amended, hidden, twice,
  deviceType, vendor, attempt, failedOpen, reboots, unsure,
  network, device, answers, scanned, found, stage

Services   == INSTANCE ServiceChecks
Upserts    == INSTANCE Thresholds
Report     == INSTANCE AvailabilityReport
Restarts   == INSTANCE Reboots
Scan       == INSTANCE Discovery

servicesVars == <<service, checkType, answer, request, failed, overlapped>>
upsertsVars  == <<stored, put, asked, stale>>
reportVars   == <<now, down, incidents, downHours, amended, hidden, twice>>
restartsVars == <<deviceType, vendor, attempt, failedOpen, reboots, unsure>>
scanVars     == <<network, device, answers, scanned, found, stage>>

partsVars ==
  <<part, vars, servicesVars, upsertsVars, reportVars, restartsVars, scanVars>>

Parts == {"replicas", "services", "upserts", "report", "restarts", "scan"}

\* Each component at rest, for when another one moves.
ReplicasRest ==
  /\ row = Up /\ open = {} /\ faults = 0 /\ alive = TRUE
  /\ cycle = [w \in Workers |-> Sleeping]
  /\ told = [w \in Workers |-> "nothing"] /\ firstUp = TRUE

ServicesRest ==
  /\ service = Services!Absent /\ checkType = "tcp" /\ answer = "expected"
  /\ request = [c \in Callers |-> Services!Served] /\ failed = 0 /\ overlapped = FALSE

UpsertsRest ==
  /\ stored = << >> /\ put = [c \in Callers |-> Upserts!Served]
  /\ asked = CHOOSE body \in Upserts!AlertThreshold : TRUE
  /\ stale = FALSE

RestartsRest ==
  /\ deviceType = "server" /\ vendor = FALSE
  /\ attempt = [o \in Operators |-> Restarts!Idle]
  /\ failedOpen = 0 /\ reboots = 0 /\ unsure = {}

ScanRest ==
  /\ network = [version |-> 4, base |-> 0, size |-> 1]
  /\ device = [version |-> 4, number |-> 0]
  /\ answers = {} /\ scanned = {} /\ found = {} /\ stage = "parsing"

PartsInit ==
  /\ part \in Parts
  /\ IF part = "replicas" THEN Init ELSE ReplicasRest
  /\ IF part = "services" THEN Services!Init ELSE ServicesRest
  /\ IF part = "upserts" THEN Upserts!Init ELSE UpsertsRest
  /\ Report!Init
  /\ IF part = "restarts" THEN Restarts!Init ELSE RestartsRest
  /\ IF part = "scan" THEN Scan!Init ELSE ScanRest

ReplicasMove ==
  /\ part = "replicas" /\ Next
  /\ UNCHANGED <<part, servicesVars, upsertsVars, reportVars, restartsVars, scanVars>>

ServicesMove ==
  /\ part = "services" /\ Services!Next
  /\ UNCHANGED <<part, vars, upsertsVars, reportVars, restartsVars, scanVars>>

UpsertsMove ==
  /\ part = "upserts" /\ Upserts!Next
  /\ UNCHANGED <<part, vars, servicesVars, reportVars, restartsVars, scanVars>>

ReportMoves ==
  /\ part = "report" /\ Report!Next
  /\ UNCHANGED <<part, vars, servicesVars, upsertsVars, restartsVars, scanVars>>

RestartsMove ==
  /\ part = "restarts" /\ Restarts!Next
  /\ UNCHANGED <<part, vars, servicesVars, upsertsVars, reportVars, scanVars>>

ScanMoves ==
  /\ part = "scan" /\ Scan!Next
  /\ UNCHANGED <<part, vars, servicesVars, upsertsVars, reportVars, restartsVars>>

PartsNext ==
  ReplicasMove \/ ServicesMove \/ UpsertsMove \/ ReportMoves \/ RestartsMove \/ ScanMoves

\* Fairness where the replicas move.
PartsFairness ==
  \A w \in Workers :
    SF_partsVars(/\ part = "replicas" /\ Step(w)
                 /\ UNCHANGED <<part, servicesVars, upsertsVars, reportVars,
                                restartsVars, scanVars>>)

PartsSpec == PartsInit /\ [][PartsNext]_partsVars /\ PartsFairness

-----------------------------------------------------------------------------
\* The variables of every component keep their types.
PartsTypeOK ==
  /\ part \in Parts
  /\ TypeOK /\ Services!TypeOK /\ Upserts!TypeOK
  /\ Report!TypeOK /\ Restarts!TypeOK /\ Scan!TypeOK

\* ServiceChecks: the counter says no more than was committed, and all of it if
\* no check wrote from an old row.
CounterIsExact == Services!CounterIsExact

\* ServiceChecks: three failures before a service is CRITICAL.
CriticalIsEarned == Services!CriticalIsEarned

\* Thresholds: no more rows than requests at a time.
DuplicatesAreBounded == Upserts!DuplicatesAreBounded

\* Thresholds: a single row is what the last request asked for.
StoredAsAsked == Upserts!StoredAsAsked

\* AvailabilityReport: the report agrees with the hours the device was DOWN.
ReportIsExact == Report!ReportIsExact

\* Reboots: asking again after a failure does not reboot the device again.
RetryIsSafe == Restarts!RetryIsSafe

\* Discovery: what answers and was asked for is found, and nothing else.
DiscoveryIsExact == Scan!DiscoveryIsExact
=============================================================================
