----------------------------- MODULE FlapProofs -----------------------------
(***************************************************************************)
(* Theorems about FlapDetector: any thresholds and any window.             *)
(***************************************************************************)
EXTENDS FlapDetector, TLAPS

\* A device is DOWN with the counter at the threshold: a failed check of it
\* cannot leave DOWN.
Inv == TypeOK /\ (status = "down" => failures = DownThreshold)

LEMMA BumpType ==
  ASSUME NEW max \in Nat, NEW x \in 0 .. max PROVE Bump(x, max) \in 0 .. max
BY DEF Bump

LEMMA AgeType ==
  ASSUME NEW a \in 0 .. Longer, NEW elapsed \in 1 .. Longer
  PROVE  Age(a, elapsed) \in 0 .. Longer
BY SettingsAssumption DEF Age, Longer

LEMMA InitInv == ASSUME Init PROVE Inv
<1> USE DEF Init
<1>1. /\ failures \in 0 .. DownThreshold /\ flap_count \in 0 .. FlapThreshold
      /\ age \in 0 .. Longer /\ steady \in 0 .. Longer /\ swings \in 0 .. 2
      /\ counting \in 0 .. Longer
  BY SettingsAssumption DEF Longer
<1>2. is_flapping \in BOOLEAN /\ announced \in BOOLEAN /\ answer \in BOOLEAN BY Zenon
<1>3. status \in DeviceStatus \ {"maintenance"} /\ ~ announced /\ status # "down"
  BY DEF DeviceStatus
<1> QED BY <1>1, <1>2, <1>3 DEF Inv, TypeOK

\* The verdict: what _detect_flapping leaves in the counters, and when it may
\* change the flag.
LEMMA DetectFacts ==
  ASSUME Inv, NEW reachable \in BOOLEAN, NEW elapsed \in 1 .. Longer,
         DetectFlapping(reachable, elapsed)
  PROVE  /\ flap_count' \in 0 .. FlapThreshold /\ age' \in 0 .. Longer
         /\ is_flapping' \in BOOLEAN
         /\ is_flapping' \in {is_flapping, CountsAsUp(status) # reachable}
<1>1. is_flapping \in BOOLEAN /\ flap_count \in 0 .. FlapThreshold /\ age \in 0 .. Longer
  BY DEF Inv, TypeOK
<1>2. Age(age, elapsed) \in 0 .. Longer BY <1>1, AgeType
<1>3. StillCounted(elapsed) \in 0 .. FlapThreshold
  BY <1>1, SettingsAssumption DEF StillCounted
<1>4. ASSUME StateChanged(reachable), CountChange(elapsed)
      PROVE  /\ flap_count' \in 0 .. FlapThreshold /\ age' \in 0 .. Longer
             /\ is_flapping' \in BOOLEAN
             /\ is_flapping' \in {is_flapping, CountsAsUp(status) # reachable}
  <2>1. flap_count' \in 0 .. FlapThreshold
    BY <1>3, <1>4, BumpType, SettingsAssumption DEF CountChange
  <2>2. age' \in 0 .. Longer BY <1>4, SettingsAssumption DEF CountChange, Longer
  <2>3. is_flapping' = (is_flapping \/ flap_count' >= FlapThreshold)
    BY <1>4 DEF CountChange
  <2>4. (CountsAsUp(status) # reachable) = TRUE BY <1>4 DEF StateChanged
  <2>5. is_flapping' \in BOOLEAN BY <2>3
  <2>6. is_flapping' \in {is_flapping, TRUE} BY <1>1, <2>3
  <2> QED BY <2>1, <2>2, <2>4, <2>5, <2>6
<1>5. ASSUME ~ StateChanged(reachable), Stabilise(elapsed)
      PROVE  /\ flap_count' \in 0 .. FlapThreshold /\ age' \in 0 .. Longer
             /\ is_flapping' \in BOOLEAN
             /\ is_flapping' \in {is_flapping, CountsAsUp(status) # reachable}
  <2>1. flap_count' \in 0 .. FlapThreshold
    BY <1>1, <1>5, SettingsAssumption DEF Stabilise
  <2>2. age' \in 0 .. Longer BY <1>2, <1>5 DEF Stabilise
  <2>3. is_flapping' = (is_flapping /\ ~ (is_flapping /\ WindowOver(elapsed)))
    BY <1>5 DEF Stabilise
  <2>4. (CountsAsUp(status) # reachable) = FALSE BY <1>5 DEF StateChanged
  <2>5. is_flapping' \in BOOLEAN BY <2>3
  <2>6. is_flapping' \in {is_flapping, FALSE} BY <1>1, <2>3
  <2> QED BY <2>1, <2>2, <2>4, <2>5, <2>6
<1> QED BY <1>4, <1>5 DEF DetectFlapping

LEMMA ObserveType ==
  ASSUME Inv, NEW reachable \in BOOLEAN, NEW elapsed \in 1 .. Longer,
         Observe(reachable, elapsed)
  PROVE  /\ answer' \in BOOLEAN /\ steady' \in 0 .. Longer
         /\ swings' \in 0 .. 2 /\ counting' \in 0 .. Longer
<1>1. /\ steady \in 0 .. Longer /\ swings \in 0 .. 2 /\ counting \in 0 .. Longer
  BY DEF Inv, TypeOK
<1>2. Age(steady, elapsed) \in 0 .. Longer /\ Age(counting, elapsed) \in 0 .. Longer
  BY <1>1, AgeType
<1>3. 0 \in 0 .. Longer BY SettingsAssumption DEF Longer
<1>4. Bump(swings, 2) \in 0 .. 2 BY <1>1, BumpType
<1>5. answer' \in BOOLEAN BY DEF Observe
<1>6. steady' \in 0 .. Longer BY <1>2, <1>3 DEF Observe
<1>7. swings' \in 0 .. 2 BY <1>1, <1>4 DEF Observe
<1>8. counting' \in 0 .. Longer BY <1>2, <1>3 DEF Observe
<1> QED BY <1>5, <1>6, <1>7, <1>8

LEMMA SucceedsInv ==
  ASSUME Inv, NEW elapsed \in 1 .. Longer, Succeeds(elapsed) PROVE Inv'
<1>1. /\ flap_count' \in 0 .. FlapThreshold /\ age' \in 0 .. Longer
      /\ is_flapping' \in BOOLEAN
  BY DetectFacts DEF Succeeds
<1>2. /\ answer' \in BOOLEAN /\ steady' \in 0 .. Longer
      /\ swings' \in 0 .. 2 /\ counting' \in 0 .. Longer
  BY ObserveType DEF Succeeds
<1>3. status' = "up" /\ failures' = 0 BY DEF Succeeds
<1>4. announced' = FALSE BY DEF Succeeds, Resolves, Inv, TypeOK
<1>5. failures' \in 0 .. DownThreshold BY <1>3, SettingsAssumption
<1> QED BY <1>1, <1>2, <1>3, <1>4, <1>5 DEF Inv, TypeOK, DeviceStatus

\* A failed check counts on, and cannot leave DOWN.
LEMMA FailsFacts ==
  ASSUME Inv, NEW elapsed \in 1 .. Longer, Fails(elapsed)
  PROVE  /\ failures' \in 0 .. DownThreshold
         /\ status' = IF failures' >= DownThreshold THEN "down" ELSE "degraded"
         /\ status' = "down" => failures' = DownThreshold
         /\ status = "down" => status' = "down"
<1>1. failures' = Bump(failures, DownThreshold) /\ failures \in 0 .. DownThreshold
  BY DEF Fails, Inv, TypeOK
<1>2. failures' \in 0 .. DownThreshold BY <1>1, BumpType, SettingsAssumption
<1>3. status' = IF failures' >= DownThreshold THEN "down" ELSE "degraded" BY DEF Fails
<1>4. status = "down" => failures' >= DownThreshold
  BY <1>1, SettingsAssumption DEF Inv, Bump
<1>5. failures' >= DownThreshold => failures' = DownThreshold BY <1>2, SettingsAssumption
<1> QED BY <1>2, <1>3, <1>4, <1>5

LEMMA FailsInv ==
  ASSUME Inv, NEW elapsed \in 1 .. Longer, Fails(elapsed) PROVE Inv'
<1>1. /\ flap_count' \in 0 .. FlapThreshold /\ age' \in 0 .. Longer
      /\ is_flapping' \in BOOLEAN
  BY DetectFacts DEF Fails
<1>2. /\ answer' \in BOOLEAN /\ steady' \in 0 .. Longer
      /\ swings' \in 0 .. 2 /\ counting' \in 0 .. Longer
  BY ObserveType DEF Fails
<1>3. announced' = (announced \/ (status' = "down" /\ status # "down" /\ ~ is_flapping'))
  BY DEF Fails
<1>4. announced' \in BOOLEAN BY <1>3
<1>5. announced' => status' = "down" BY <1>3, FailsFacts DEF Inv, TypeOK
<1>6. status' \in DeviceStatus \ {"maintenance"} BY FailsFacts DEF DeviceStatus
<1> QED BY <1>1, <1>2, <1>4, <1>5, <1>6, FailsFacts DEF Inv, TypeOK

LEMMA NextInv == ASSUME Inv, [Next]_vars PROVE Inv'
<1>1. CASE Next BY <1>1, SucceedsInv, FailsInv DEF Next
<1>2. CASE UNCHANGED vars BY <1>2 DEF vars, device, history, Inv, TypeOK
<1> QED BY <1>1, <1>2

LEMMA Invariance == Spec => []Inv
<1>1. Init => Inv BY InitInv
<1>2. Inv /\ [Next]_vars => Inv' BY NextInv
<1> QED BY <1>1, <1>2, PTL DEF Spec

\* Every variable keeps its type, and only a DOWN device has an open outage.
THEOREM DetectorTypeCorrect == Spec => []TypeOK
<1>1. Inv => TypeOK BY DEF Inv
<1> QED BY <1>1, Invariance, PTL

\* A check is a step of the register.
LEMMA CheckIsRegistered == ASSUME Inv, Next PROVE Register!Next
<1> SUFFICES ASSUME NEW d \in {"device"}
             PROVE  \/ Register!IsUp(d) \/ Register!Degrades(d) \/ Register!GoesDown(d)
                    \/ Register!StaysDown(d) \/ Register!Unchanged(d)
  BY DEF Register!Next
<1>1. ASSUME NEW elapsed \in 1 .. Longer, Succeeds(elapsed) PROVE Register!IsUp(d)
  <2>1. status' = "up" /\ announced' = FALSE
    BY <1>1 DEF Succeeds, Resolves, Inv, TypeOK
  <2>2. is_flapping' \in {is_flapping, CountsAsUp(status) # TRUE}
    BY <1>1, DetectFacts DEF Succeeds
  <2>3. Register!Verdict(d, TRUE)
    BY <2>2 DEF Register!Verdict, Register!CountsAsUp, CountsAsUp
  <2> QED BY <2>1, <2>3 DEF Register!IsUp, Inv, TypeOK
<1>2. ASSUME NEW elapsed \in 1 .. Longer, Fails(elapsed)
      PROVE  Register!Degrades(d) \/ Register!GoesDown(d) \/ Register!StaysDown(d)
  <2>1. announced' = (announced \/ (status' = "down" /\ status # "down" /\ ~ is_flapping'))
    BY <1>2 DEF Fails
  <2>2. is_flapping' \in {is_flapping, CountsAsUp(status) # FALSE}
    BY <1>2, DetectFacts DEF Fails
  <2>3. status' \in {"down", "degraded"} /\ (status = "down" => status' = "down")
    BY <1>2, FailsFacts
  <2>4. Register!Verdict(d, FALSE)
    BY <2>2 DEF Register!Verdict, Register!CountsAsUp, CountsAsUp
  <2>5. CASE status = "down"
    BY <2>1, <2>3, <2>4, <2>5 DEF Register!StaysDown, Inv, TypeOK
  <2>6. CASE status # "down" /\ status' = "down"
    BY <2>1, <2>4, <2>6 DEF Register!GoesDown, Inv, TypeOK
  <2>7. CASE status' = "degraded"
    BY <2>1, <2>3, <2>4, <2>7 DEF Register!Degrades, Inv, TypeOK
  <2> QED BY <2>3, <2>5, <2>6, <2>7
<1> QED BY <1>1, <1>2 DEF Next

\* The checks of a device implement the register of outages: every outage of a
\* device that does not flap is opened when it goes DOWN and closed when it is
\* UP, and the verdicts are those that Monitor assumes.
THEOREM ChecksKeepRegister == Spec => KeepsRegister
<1>1. Init => Register!Init BY DEF Init, Register!Init
<1>2. Inv /\ [Next]_vars => [Register!Next]_(Register!vars)
  <2>1. ASSUME Inv, Next PROVE Register!Next BY <2>1, CheckIsRegistered
  <2>2. ASSUME UNCHANGED vars PROVE UNCHANGED Register!vars
    BY <2>2 DEF vars, device, Register!vars
  <2> QED BY <2>1, <2>2
<1> QED BY <1>1, <1>2, Invariance, PTL DEF Spec, KeepsRegister, Register!Spec

-----------------------------------------------------------------------------
(***************************************************************************)
(* Which outages are suppressed.                                           *)
(***************************************************************************)

\* The flap window is not run down before the device has been steady for as
\* long: a device that has answered for longer than the window does not flap.
AnsweringInv ==
  answer => /\ status = "up" /\ failures = 0 /\ swings >= 1
            /\ age >= steady
            /\ steady > Window => ~ is_flapping

\* What a device that has not swung, and is not DOWN yet, has counted are its
\* own failed checks.
FailingInv ==
  ~ answer /\ status # "down" =>
    /\ failures < DownThreshold
    /\ swings < 2 => flap_count <= failures /\ ~ is_flapping

SwingInv == Inv /\ AnsweringInv /\ FailingInv

LEMMA InitSwingInv == ASSUME Init PROVE SwingInv
<1>1. Inv BY InitInv
<1>2. answer = FALSE /\ failures = 0 /\ flap_count = 0 /\ is_flapping = FALSE BY DEF Init
<1>3. 0 < DownThreshold BY SettingsAssumption
<1> QED BY <1>1, <1>2, <1>3 DEF SwingInv, AnsweringInv, FailingInv

\* The numbers, for steps that do arithmetic.
LEMMA Numbers ==
  ASSUME Inv
  PROVE  /\ failures \in Nat /\ flap_count \in Nat /\ age \in Nat /\ steady \in Nat
         /\ swings \in Nat /\ Window \in Nat /\ DownThreshold \in Nat /\ FlapThreshold \in Nat
         /\ failures <= DownThreshold /\ age <= Window + 1 /\ steady <= Window + 1
BY SettingsAssumption DEF Inv, TypeOK, Longer

LEMMA SucceedsSwingInv ==
  ASSUME SwingInv, NEW elapsed \in 1 .. Longer, Succeeds(elapsed)
  PROVE  AnsweringInv' /\ FailingInv'
<1>0. Inv /\ AnsweringInv BY DEF SwingInv
<1>1. /\ status' = "up" /\ failures' = 0 /\ answer' = TRUE
      /\ steady' = IF answer THEN Age(steady, elapsed) ELSE 0
      /\ swings' = IF answer THEN swings ELSE IF steady > Window THEN 1 ELSE Bump(swings, 2)
  BY <1>0 DEF Succeeds, Observe, Inv, TypeOK
<1>2. CASE answer
  <2>1. ~ StateChanged(TRUE)
    BY <1>0, <1>2 DEF AnsweringInv, StateChanged, CountsAsUp
  <2>2. Stabilise(elapsed)
    BY <2>1 DEF Succeeds, DetectFlapping
  <2>3. age' = Age(age, elapsed) /\ steady' = Age(steady, elapsed) /\ swings' = swings
    BY <1>1, <1>2, <2>2 DEF Stabilise
  <2>4. age' >= steady'
    BY <1>0, <1>2, <2>3, Numbers DEF AnsweringInv, Age, Longer
  <2>5. steady' > Window => age' > Window
    <3>1. age' \in Nat /\ steady' \in Nat
      BY <1>0, <2>3, Numbers DEF Age, Longer
    <3> QED BY <1>0, <2>4, <3>1, Numbers
  <2>6. age' > Window => ~ is_flapping'
    BY <2>2, <2>3 DEF Stabilise, WindowOver
  <2> QED BY <1>0, <1>1, <1>2, <2>3, <2>4, <2>5, <2>6 DEF AnsweringInv, FailingInv
<1>3. CASE ~ answer
  <2>1. steady' = 0 /\ swings' >= 1
    BY <1>0, <1>1, <1>3, Numbers DEF Bump
  <2>2. age' \in Nat
    <3>1. age' \in 0 .. Longer
      BY <1>0, DetectFacts DEF Succeeds
    <3> QED BY <3>1
  <2>3. age' >= steady' /\ ~ (steady' > Window)
    BY <1>0, <2>1, <2>2, Numbers
  <2> QED BY <1>1, <2>1, <2>3 DEF AnsweringInv, FailingInv
<1>4. answer \in BOOLEAN BY <1>0 DEF Inv, TypeOK
<1> QED BY <1>2, <1>3, <1>4

\* The first failed checks of an outage: none of them is the one that flaps.
LEMMA FailsSwingFacts ==
  ASSUME SwingInv, NEW elapsed \in 1 .. Longer, Fails(elapsed), status # "down"
  PROVE  /\ failures' = failures + 1 /\ failures < DownThreshold
         /\ swings' < 2 => /\ flap_count' <= failures'
                           /\ is_flapping' => flap_count' >= FlapThreshold
<1>0. Inv /\ AnsweringInv /\ FailingInv BY DEF SwingInv
<1>1. answer \in BOOLEAN /\ answer' = FALSE BY <1>0 DEF Inv, TypeOK, Fails, Observe
<1>2. failures < DownThreshold
  BY <1>0, <1>1, SettingsAssumption DEF AnsweringInv, FailingInv
<1>3. failures' = failures + 1 BY <1>2 DEF Fails, Bump
<1>4. CASE ~ answer
  <2>1. swings' = swings BY <1>4 DEF Fails, Observe
  <2> SUFFICES ASSUME swings < 2
               PROVE  flap_count' <= failures' /\ (is_flapping' => flap_count' >= FlapThreshold)
    BY <1>2, <1>3, <2>1
  <2>2. flap_count <= failures /\ ~ is_flapping
    BY <1>0, <1>4 DEF FailingInv
  <2>3. CASE CountChange(elapsed)
    <3>1. flap_count' = Bump(StillCounted(elapsed), FlapThreshold)
      BY <2>3 DEF CountChange
    <3>2. StillCounted(elapsed) \in {0, flap_count} BY DEF StillCounted
    <3>3. flap_count' <= failures + 1
      BY <1>0, <2>2, <3>1, <3>2, Numbers DEF Bump
    <3>4. is_flapping' => flap_count' >= FlapThreshold
      BY <2>2, <2>3 DEF CountChange
    <3> QED BY <1>3, <3>3, <3>4
  <2>4. CASE Stabilise(elapsed)
    <3>1. flap_count' = flap_count /\ ~ is_flapping'
      BY <2>2, <2>4 DEF Stabilise
    <3> QED BY <1>0, <1>3, <2>2, <3>1, Numbers
  <2> QED BY <2>3, <2>4 DEF Fails, DetectFlapping
<1>5. CASE answer
  <2>1. swings' = IF steady > Window THEN 1 ELSE Bump(swings, 2)
    BY <1>5 DEF Fails, Observe
  <2>2. ~ (steady > Window) => swings' = 2
    <3>1. swings \in {1, 2} BY <1>0, <1>5 DEF AnsweringInv, Inv, TypeOK
    <3> QED BY <2>1, <3>1 DEF Bump
  <2> SUFFICES ASSUME steady > Window
               PROVE  flap_count' <= failures' /\ (is_flapping' => flap_count' >= FlapThreshold)
    BY <1>2, <1>3, <2>2
  <2>3. status = "up" /\ failures = 0 /\ age >= steady /\ ~ is_flapping
    BY <1>0, <1>5 DEF AnsweringInv
  <2>4. CountChange(elapsed)
    BY <2>3 DEF Fails, DetectFlapping, StateChanged, CountsAsUp
  <2>5. WindowOver(elapsed)
    BY <1>0, <2>3, Numbers DEF WindowOver, Age, Longer
  <2>6. flap_count' = Bump(0, FlapThreshold)
    BY <2>4, <2>5 DEF CountChange, StillCounted
  <2>7. flap_count' <= failures'
    BY <1>0, <1>3, <2>3, <2>6, Numbers DEF Bump
  <2>8. is_flapping' => flap_count' >= FlapThreshold
    BY <2>3, <2>4 DEF CountChange
  <2> QED BY <2>7, <2>8
<1> QED BY <1>1, <1>4, <1>5

LEMMA NextSwingInv ==
  ASSUME DownThreshold < FlapThreshold, SwingInv, [Next]_vars
  PROVE  SwingInv'
<1>0. Inv' BY NextInv DEF SwingInv
<1>1. ASSUME NEW elapsed \in 1 .. Longer, Succeeds(elapsed) PROVE AnsweringInv' /\ FailingInv'
  BY <1>1, SucceedsSwingInv
<1>2. ASSUME NEW elapsed \in 1 .. Longer, Fails(elapsed) PROVE AnsweringInv' /\ FailingInv'
  <2>1. answer' = FALSE BY <1>2 DEF Fails, Observe
  <2>2. CASE status = "down"
    <3>1. status' = "down" BY <1>2, <2>2, FailsFacts DEF SwingInv
    <3> QED BY <2>1, <3>1 DEF AnsweringInv, FailingInv
  <2>3. CASE status # "down" /\ status' # "down"
    <3>1. status' = IF failures' >= DownThreshold THEN "down" ELSE "degraded"
      BY <1>2 DEF Fails
    <3>2. /\ failures' = failures + 1
          /\ swings' < 2 => /\ flap_count' <= failures'
                            /\ is_flapping' => flap_count' >= FlapThreshold
      BY <1>2, <2>3, FailsSwingFacts
    <3>3. failures' \in Nat /\ flap_count' \in Nat /\ DownThreshold \in Nat
          /\ FlapThreshold \in Nat
      BY <1>0, SettingsAssumption DEF Inv, TypeOK
    <3>4. failures' < DownThreshold BY <2>3, <3>1, <3>3
    <3>5. swings' < 2 => flap_count' <= failures' /\ ~ is_flapping'
      BY <3>2, <3>3, <3>4
    <3> QED BY <2>1, <3>4, <3>5 DEF AnsweringInv, FailingInv
  <2>4. CASE status' = "down"
    BY <2>1, <2>4 DEF AnsweringInv, FailingInv
  <2> QED BY <2>2, <2>3, <2>4
<1>3. ASSUME UNCHANGED vars PROVE AnsweringInv' /\ FailingInv'
  BY <1>3 DEF vars, device, history, SwingInv, AnsweringInv, FailingInv
<1> QED BY <1>0, <1>1, <1>2, <1>3 DEF SwingInv, Next

\* Flapping hides only outages of a device that swung before: where fewer failed
\* checks make a device DOWN than changes make it flap, the first outage after
\* the device was steady for longer than the window is announced.
THEOREM OnlySwingsSuppressed ==
  ASSUME DownThreshold < FlapThreshold
  PROVE  Spec => OnlySwingsAreSuppressed
<1>1. Init => SwingInv BY InitSwingInv
<1>2. SwingInv /\ [Next]_vars => SwingInv' BY NextSwingInv
<1>3. SwingInv /\ [Next]_vars
        => [status # "down" /\ status' = "down" /\ ~ announced' => swings' > 1]_vars
  <2> SUFFICES ASSUME SwingInv, Next, status # "down", status' = "down", ~ announced'
               PROVE  swings' > 1
    OBVIOUS
  <2>0. Inv /\ Inv' BY NextInv DEF SwingInv
  <2>1. PICK elapsed \in 1 .. Longer : Fails(elapsed)
    BY DEF Next, Succeeds
  <2>2. is_flapping'
    BY <2>1 DEF Fails
  <2>3. failures' = DownThreshold
    BY <2>0, <2>1, FailsFacts
  <2>4. swings' < 2 => flap_count' <= failures' /\ flap_count' >= FlapThreshold
    BY <2>1, <2>2, FailsSwingFacts
  <2>5. flap_count' \in Nat /\ DownThreshold \in Nat /\ FlapThreshold \in Nat /\ swings' \in Nat
    BY <2>0, SettingsAssumption DEF Inv, TypeOK
  <2> QED BY <2>3, <2>4, <2>5
<1> QED BY <1>1, <1>2, <1>3, PTL DEF Spec, OnlySwingsAreSuppressed
=============================================================================
