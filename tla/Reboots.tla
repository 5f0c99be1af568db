------------------------------- MODULE Reboots -------------------------------
(***************************************************************************)
(* POST /devices/{id}/reboot (devices.py) through SSHClient (ssh/client.py)*)
(* and operators who ask again until they are told of success.  The SSH    *)
(* session may fail before the command, or lose sight of the device after  *)
(* it; the answer is sent before the incident is committed.                *)
(***************************************************************************)
EXTENDS Integers, FiniteSets

CONSTANTS
  Operators,
  MaxReboots,   \* bound: reboots of the device
  MaxFailed     \* bound: attempts that are reported as failed

VARIABLES
  deviceType,   \* of the device
  vendor,       \* does the vendor have a command of its own for the type?
  attempt,      \* what became of the SSH session of each operator's request
  failedOpen,   \* committed incidents "Reinicio fallido" that are open
  reboots,      \* history: reboots of the device
  unsure        \* history: why an operator may not have been told of a reboot

vars == <<deviceType, vendor, attempt, failedOpen, reboots, unsure>>

DeviceType == {"router", "switch", "access_point", "firewall", "server", "ups"}

\* What the SSH session of an attempt ends with: asyncssh.PermissionDenied, an
\* OSError or another asyncssh.Error, asyncssh.ConnectionLost, the TimeoutError
\* of wait_for, an exit status of 0 or none, or another exit status.
Outcome == {"denied", "error", "lost", "timeout", "zero", "nonzero"}

\* A reboot that ended in a timeout or another exit status, or a lost answer.
Doubt == {"timeout", "nonzero", "unanswered"}

Idle == "idle"

Init ==
  /\ deviceType \in DeviceType
  /\ vendor \in BOOLEAN
  /\ attempt = [o \in Operators |-> Idle]
  /\ failedOpen = 0
  /\ reboots = 0
  /\ unsure = {}

\* The table names vendors for all types but servers and UPSs; a UPS gets an echo.
GetRebootCommand ==
  IF deviceType = "ups" THEN "echo"
  ELSE IF vendor /\ deviceType # "server" THEN "vendor" ELSE "default"

\* Handlers in an order in which asyncssh.Error takes ConnectionLost.
SuccessByStatus(outcome) == outcome = "zero"

\* The handlers of execute.  ConnectionLost comes before asyncssh.Error, which
\* it is a case of; TimeoutError is an OSError, whose handler comes first.
Success(outcome) == outcome \in {"zero", "lost"}

\* An operator who was told of success does not ask again; confirm and the
\* credentials are there.
Ask(o) ==
  /\ attempt[o] = Idle /\ failedOpen + Cardinality(Operators) <= MaxFailed
  /\ attempt' = [attempt EXCEPT ![o] = "connecting"]
  /\ UNCHANGED <<deviceType, vendor, failedOpen, reboots, unsure>>

\* asyncssh.connect raises.
ConnectFails(o) ==
  /\ attempt[o] = "connecting"
  /\ \E outcome \in {"denied", "error", "timeout", "lost"} :
       attempt' = [attempt EXCEPT ![o] = outcome]
  /\ UNCHANGED <<deviceType, vendor, failedOpen, reboots, unsure>>

\* The command ends without a reboot: a UPS, a prompt nobody answers, a refusal.
RunsWithoutEffect(o) ==
  /\ attempt[o] = "connecting"
  /\ \E outcome \in {"zero", "lost", "timeout", "nonzero"} :
       attempt' = [attempt EXCEPT ![o] = outcome]
  /\ UNCHANGED <<deviceType, vendor, failedOpen, reboots, unsure>>

\* The device reboots: SSH sees an exit status or the loss of the connection, or
\* nothing until the timeout.
Reboots(o) ==
  /\ attempt[o] = "connecting" /\ GetRebootCommand # "echo"
  /\ reboots < MaxReboots
  /\ reboots' = reboots + 1
  /\ \E outcome \in {"zero", "lost", "timeout", "nonzero"} :
       /\ attempt' = [attempt EXCEPT ![o] = outcome]
       /\ unsure' = unsure \union ({outcome} \intersect Doubt)
  /\ UNCHANGED <<deviceType, vendor, failedOpen>>

\* Success leaves a resolved incident; a failure an open one, and the operator
\* asks again.
Answer(o) ==
  /\ attempt[o] \in Outcome
  /\ IF Success(attempt[o])
     THEN attempt' = [attempt EXCEPT ![o] = "succeeded"] /\ UNCHANGED failedOpen
     ELSE attempt' = [attempt EXCEPT ![o] = Idle] /\ failedOpen' = failedOpen + 1
  /\ UNCHANGED <<deviceType, vendor, reboots, unsure>>

\* A broadcast that raises, a commit that fails or a restart: the operator has no
\* answer, or one whose incident is lost, and asks again.
AnswerFails(o) ==
  /\ attempt[o] \in Outcome
  /\ attempt' = [attempt EXCEPT ![o] = Idle]
  /\ unsure' = unsure \union {"unanswered"}
  /\ UNCHANGED <<deviceType, vendor, failedOpen, reboots>>

\* The monitor sees the device back, or an operator resolves the incidents.
Recover ==
  /\ failedOpen > 0
  /\ failedOpen' = 0
  /\ UNCHANGED <<deviceType, vendor, attempt, reboots, unsure>>

Next ==
  \/ \E o \in Operators :
       \/ Ask(o) \/ ConnectFails(o) \/ RunsWithoutEffect(o) \/ Reboots(o)
       \/ Answer(o) \/ AnswerFails(o)
  \/ Recover

Spec == Init /\ [][Next]_vars

-----------------------------------------------------------------------------
(***************************************************************************)
(* Properties.                                                             *)
(***************************************************************************)

TypeOK ==
  /\ deviceType \in DeviceType
  /\ vendor \in BOOLEAN
  /\ attempt \in [Operators -> {Idle, "connecting", "succeeded"} \union Outcome]
  /\ failedOpen \in 0 .. MaxFailed
  /\ reboots \in 0 .. MaxReboots
  /\ unsure \subseteq Doubt

\* An operator who repeats what was reported as failed reboots the device once at
\* most, unless a reboot ended in a timeout or an exit status, which are reported
\* as failures, or an answer was lost: a device that drops the connection as it
\* goes down is not rebooted again.
RetryIsSafe == unsure = {} => reboots <= Cardinality(Operators)
=============================================================================
