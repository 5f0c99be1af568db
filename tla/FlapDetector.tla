----------------------------- MODULE FlapDetector -----------------------------
(***************************************************************************)
(* _detect_flapping (app/workers/monitor.py) with its counters, inside the *)
(* part of _check_device around it: the checks of one device that has no   *)
(* parent and no maintenance window.                                       *)
(*                                                                         *)
(* Time passes in units of the health check interval: a check comes one    *)
(* interval or more after the one before it (cycles take time, and a       *)
(* restart or a failed cycle loses checks).  Times are kept as ages that   *)
(* stop at Window + 1, "longer ago than the window".                       *)
(***************************************************************************)
EXTENDS NetworkModel

CONSTANTS
  DownThreshold,   \* settings.DOWN_THRESHOLD
  FlapThreshold,   \* settings.FLAP_THRESHOLD
  Window           \* settings.FLAP_WINDOW_MINUTES, in check intervals

ASSUME SettingsAssumption ==
  /\ DownThreshold \in Nat \ {0}
  /\ FlapThreshold \in Nat \ {0}
  /\ Window \in Nat \ {0}

VARIABLES
  status,        \* Device.status
  failures,      \* Device.consecutive_failures
  flap_count,    \* Device.flap_count, counted up to FlapThreshold
  age,           \* time since last_state_change at the last check
  is_flapping,   \* Device.is_flapping
  announced,     \* has the outage an unresolved incident?
  answer,        \* history: was the device reachable at the last check?
  steady,        \* history: the time it has been seen to give that answer
  swings,        \* history: changes of answer since it was last seen steady
  counting       \* history: time since the first change in flap_count

device  == <<status, failures, flap_count, age, is_flapping, announced>>
history == <<answer, steady, swings, counting>>
vars    == <<device, history>>

Longer == Window + 1

Age(a, elapsed) == IF a + elapsed < Longer THEN a + elapsed ELSE Longer

\* last_state_change = NULL is as good as long ago: there is nothing to reset.
Init ==
  /\ status = "unknown" /\ failures = 0
  /\ flap_count = 0 /\ age = Longer /\ is_flapping = FALSE
  /\ announced = FALSE
  /\ answer = FALSE /\ steady = 0 /\ swings = 0 /\ counting = 0

-----------------------------------------------------------------------------
(***************************************************************************)
(* _detect_flapping.                                                       *)
(***************************************************************************)
StateChanged(reachable) == CountsAsUp(status) # reachable

WindowOver(elapsed) == Age(age, elapsed) > Window

\* A window that is never reset: changes are counted for ever.
CountedForEver(elapsed) == flap_count

\* The changes that still count: none if the last one is too long ago.
StillCounted(elapsed) == IF WindowOver(elapsed) THEN 0 ELSE flap_count

\* A change that resets the flag together with the window.
CountChangeAfresh(elapsed) ==
  /\ flap_count' = Bump(StillCounted(elapsed), FlapThreshold)
  /\ age' = 0
  /\ is_flapping' = (flap_count' >= FlapThreshold)

CountChange(elapsed) ==
  /\ flap_count' = Bump(StillCounted(elapsed), FlapThreshold)
  /\ age' = 0
  /\ is_flapping' = (is_flapping \/ flap_count' >= FlapThreshold)

\* A flap that a steady device does not get rid of.
StayFlapping(elapsed) ==
  /\ age' = Age(age, elapsed)
  /\ UNCHANGED <<flap_count, is_flapping>>

Stabilise(elapsed) ==
  LET cleared == is_flapping /\ WindowOver(elapsed) IN
  /\ age' = Age(age, elapsed)
  /\ flap_count' = IF cleared THEN 0 ELSE flap_count
  /\ is_flapping' = (is_flapping /\ ~ cleared)

DetectFlapping(reachable, elapsed) ==
  \/ StateChanged(reachable) /\ CountChange(elapsed)
  \/ ~ StateChanged(reachable) /\ Stabilise(elapsed)

-----------------------------------------------------------------------------
(***************************************************************************)
(* The rest of _check_device, and the clock.                               *)
(***************************************************************************)
Observe(reachable, elapsed) ==
  /\ answer' = reachable
  /\ steady' = IF reachable = answer THEN Age(steady, elapsed) ELSE 0
  /\ swings' = IF reachable = answer THEN swings
               ELSE IF steady > Window THEN 1
               ELSE Bump(swings, 2)
  /\ counting' = IF flap_count' = 1 /\ age' = 0 THEN 0
                 ELSE Age(counting, elapsed)

\* The previous status read after the assignment instead of before it.
ResolvesFromCurrent == status' \in {"down", "degraded"}

\* Recovery resolves the incidents of a device that was down or degraded.
Resolves == status \in {"down", "degraded"}

Succeeds(elapsed) ==
  /\ DetectFlapping(TRUE, elapsed)
  /\ status' = "up" /\ failures' = 0
  /\ announced' = (announced /\ ~ Resolves)
  /\ Observe(TRUE, elapsed)

Fails(elapsed) ==
  /\ DetectFlapping(FALSE, elapsed)
  /\ failures' = Bump(failures, DownThreshold)
  /\ status' = IF failures' >= DownThreshold THEN "down" ELSE "degraded"
  /\ announced' = (announced \/ (status' = "down" /\ status # "down" /\ ~ is_flapping'))
  /\ Observe(FALSE, elapsed)

Next == \E elapsed \in 1 .. Longer : Succeeds(elapsed) \/ Fails(elapsed)

Spec == Init /\ [][Next]_vars

\* The worker goes on checking: from the moment the answers stop changing,
\* every check repeats the answer.
Fairness ==
  /\ WF_vars(answer /\ \E elapsed \in 1 .. Longer : Succeeds(elapsed))
  /\ WF_vars(~ answer /\ \E elapsed \in 1 .. Longer : Fails(elapsed))

FairSpec == Spec /\ Fairness

-----------------------------------------------------------------------------
(***************************************************************************)
(* Properties.                                                             *)
(***************************************************************************)

\* Type correctness, and an incident is unresolved only while the device is
\* DOWN: the one that announces an outage ends with it.
TypeOK ==
  /\ announced => status = "down"
  /\ status \in DeviceStatus \ {"maintenance"}
  /\ failures \in 0 .. DownThreshold
  /\ flap_count \in 0 .. FlapThreshold
  /\ age \in 0 .. Longer
  /\ is_flapping \in BOOLEAN /\ announced \in BOOLEAN /\ answer \in BOOLEAN
  /\ steady \in 0 .. Longer
  /\ swings \in 0 .. 2
  /\ counting \in 0 .. Longer

\* "Suppress alerts if device oscillates too fast": an outage goes without an
\* incident only if the device swung before it.  The first outage after the
\* device was seen to answer for longer than the window is announced, although
\* every failed check of it counts as a change of state.
OnlySwingsAreSuppressed ==
  [][status # "down" /\ status' = "down" /\ ~ announced' => swings' > 1]_vars

\* The checks of a device implement the register of outages, the verdicts that
\* Monitor assumes of the detector (FlapVerdicts) included: a check that
\* changes the state can only start the flapping, one that does not can only
\* end it, and an outage without an incident is one of a flapping device.
Register == INSTANCE OutageRegister WITH
  Devices  <- {"device"},
  status   <- [d \in {"device"} |-> status],
  flapping <- [d \in {"device"} |-> is_flapping],
  outage   <- [d \in {"device"} |-> announced]

KeepsRegister == Register!Spec

\* "If we've been stable, clear flapping": if the answers stop changing, the
\* device stops flapping, whether it ends up or down.
FlappingEnds ==
  <>[][answer' = answer]_vars => <>[](~ is_flapping)

\* config.py, "state changes in flap window to trigger flapping": when a device
\* begins to flap, the changes that were counted are within one window.
FlapsWithinWindow ==
  [][~ is_flapping /\ is_flapping' => counting' <= Window]_vars
=============================================================================
