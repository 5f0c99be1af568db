--------------------------- MODULE OutageRegister ---------------------------
(***************************************************************************)
(* What the monitor promises its readers about each device, whatever       *)
(* cycles, counters, cascades and restarts lie behind it: an outage is     *)
(* opened by the step that makes the device DOWN and is closed by the step *)
(* that makes it UP, and DOWN is left through UP or into maintenance only, *)
(* which leaves the outage as it is.  Only a device that flaps may go DOWN *)
(* without an outage.                                                      *)
(*                                                                         *)
(* Monitor implements it by the committed rows and incidents, FlapDetector *)
(* by the checks of one device.                                            *)
(***************************************************************************)
EXTENDS NetworkModel

CONSTANT Devices

VARIABLES
  status,     \* the status of each device
  flapping,   \* is its detector suppressing alerts?
  outage      \* has it an unresolved outage incident?

vars == <<status, flapping, outage>>

Init ==
  /\ status = [d \in Devices |-> "unknown"]
  /\ flapping = [d \in Devices |-> FALSE]
  /\ outage = [d \in Devices |-> FALSE]

\* Only a check that changes the state may start the flapping, and only one
\* that does not may end it.
Verdict(d, reachable) ==
  flapping'[d] \in {flapping[d], CountsAsUp(status[d]) # reachable}

IsUp(d) ==
  /\ status[d] # "maintenance" /\ status'[d] = "up"
  /\ ~ outage'[d]
  /\ Verdict(d, TRUE)

Degrades(d) ==
  /\ status[d] \notin {"down", "maintenance"} /\ status'[d] = "degraded"
  /\ outage'[d] = outage[d]
  /\ Verdict(d, FALSE)

GoesDown(d) ==
  /\ status[d] \notin {"down", "maintenance"} /\ status'[d] = "down"
  /\ outage'[d] \/ flapping'[d]
  /\ Verdict(d, FALSE)

StaysDown(d) ==
  /\ status[d] = "down" /\ status'[d] = "down"
  /\ outage'[d] = outage[d]
  /\ Verdict(d, FALSE)

EntersMaintenance(d) ==
  /\ status'[d] = "maintenance"
  /\ flapping'[d] = flapping[d]
  /\ outage'[d] = outage[d]

Unchanged(d) ==
  /\ status'[d] = status[d]
  /\ flapping'[d] = flapping[d]
  /\ outage'[d] = outage[d]

\* A commit may hold a step of every device.
Next ==
  \A d \in Devices :
    \/ IsUp(d) \/ Degrades(d) \/ GoesDown(d) \/ StaysDown(d)
    \/ EntersMaintenance(d) \/ Unchanged(d)

Spec == Init /\ [][Next]_vars
=============================================================================
