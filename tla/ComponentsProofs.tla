--------------------------- MODULE ComponentsProofs ---------------------------
(***************************************************************************)
(* Theorems about the components of ComponentsMC: any number of monitor    *)
(* processes, of requests, of operators, of addresses.                     *)
(***************************************************************************)
EXTENDS ComponentsMC, Sequences, FiniteSetTheorems, WellFoundedInduction, TLAPS

-----------------------------------------------------------------------------
(***************************************************************************)
(* MonitorReplicas.                                                        *)
(***************************************************************************)
\* What DOWN_THRESHOLD may be, and how many faults there are.
Settings == DownThreshold \in Nat \ {0} /\ MaxFaults \in Nat

\* A cycle resolves incidents only on the way from a bad status to UP, under the
\* lock of the row; a failed check that announces nothing had found the device
\* DOWN already.
CycleInv ==
  \A w \in Workers :
    /\ HoldsLock(w) => cycle[w].new.status = "up"
    /\ cycle[w].at # "locking" => cycle[w].closes = {}
    /\ cycle[w].closes # {} => cycle[w].seen.status \in {"down", "degraded"}
    /\ cycle[w].at \in {"failing", "announcing"} =>
         cycle[w].new.status \in {"down", "degraded"}
    /\ cycle[w].at = "failing" /\ cycle[w].new.status = "down" =>
         cycle[w].seen.status = "down"

\* One session has the lock, and what it found open is what is open.
LockInv ==
  /\ \A v, w \in Workers : HoldsLock(v) /\ HoldsLock(w) => v = w
  /\ \A w \in Workers :
       cycle[w].at = "locking" /\ cycle[w].seen.status \in {"down", "degraded"}
       => cycle[w].closes = open

Inv == TypeOK /\ CycleInv /\ LockInv /\ DownIsAnnounced

LEMMA BumpType ==
  ASSUME NEW max \in Nat, NEW x \in 0 .. max PROVE Bump(x, max) \in 0 .. max
BY DEF Bump

LEMMA RowTypes ==
  ASSUME Settings
  PROVE  /\ Fresh \in Row /\ Up \in Row
         /\ Sleeping \in Cycle
BY DEF Cycle, Settings, Fresh, Up, Row, Sleeping, DeviceStatus

LEMMA InitInv == ASSUME Settings, Init PROVE Inv
<1> USE DEF Init
<1>1. TypeOK
  <2>1. row \in Row /\ cycle \in [Workers -> Cycle] BY RowTypes
  <2>2. open \subseteq Ids /\ told \in [Workers -> {"nothing", "up", "down"}]
    OBVIOUS
  <2>3. alive \in BOOLEAN /\ firstUp \in BOOLEAN OBVIOUS
  <2>4. faults \in 0 .. MaxFaults BY DEF Settings
  <2> QED BY <2>1, <2>2, <2>3, <2>4 DEF TypeOK
<1>2. CycleInv BY DEF CycleInv, HoldsLock, Sleeping
<1>3. LockInv BY DEF LockInv, HoldsLock, Sleeping
<1>4. DownIsAnnounced BY DEF DownIsAnnounced, Fresh
<1> QED BY <1>1, <1>2, <1>3, <1>4 DEF Inv

LEMMA MergedType ==
  ASSUME TypeOK, NEW w \in Workers PROVE Merged(w) \in Row
<1>1. cycle[w].new \in Row /\ cycle[w].seen \in Row /\ row \in Row BY DEF TypeOK, Cycle
<1> QED BY <1>1 DEF Merged, Row

LEMMA CheckedType ==
  ASSUME TypeOK, NEW w \in Workers, NEW n \in Row,
         NEW a \in {"locking", "raised", "failing", "announcing"}
  PROVE  [cycle EXCEPT ![w].at = a, ![w].new = n] \in [Workers -> Cycle]
<1>1. cycle \in [Workers -> Cycle] BY DEF TypeOK, Cycle
<1>2. [cycle[w] EXCEPT !.at = a, !.new = n] \in Cycle BY <1>1 DEF Cycle
<1> QED BY <1>1, <1>2

LEMMA NextTypeOK == ASSUME Settings, TypeOK, Next PROVE TypeOK'
<1> USE DEF TypeOK
<1>1. ASSUME NEW w \in Workers, Load(w) PROVE TypeOK'
  BY <1>1, RowTypes DEF Load, Sleeping, Cycle
<1>2. ASSUME NEW w \in Workers, CheckSucceeds(w) PROVE TypeOK'
  BY <1>2, RowTypes DEF CheckSucceeds, Closes, Cycle
<1>3. ASSUME NEW w \in Workers, CheckRaises(w) PROVE TypeOK'
  <2>1. cycle' \in [Workers -> Cycle] BY <1>3, RowTypes, CheckedType DEF CheckRaises
  <2>2. faults' \in 0 .. MaxFaults BY <1>3 DEF CheckRaises, Settings
  <2> QED BY <1>3, <2>1, <2>2 DEF CheckRaises
<1>4. ASSUME NEW w \in Workers, CheckFails(w) PROVE TypeOK'
  <2> DEFINE failures == Bump(cycle[w].seen.failures, DownThreshold)
             status == IF failures >= DownThreshold THEN "down" ELSE "degraded"
  <2>1. cycle[w].seen.failures \in 0 .. DownThreshold BY DEF Row, Cycle
  <2>2. failures \in 0 .. DownThreshold BY <2>1, BumpType DEF Settings
  <2>3. [status |-> status, failures |-> failures] \in Row
    BY <2>2 DEF Row, DeviceStatus
  <2> HIDE DEF failures, status
  <2>4. cycle' = [cycle EXCEPT
          ![w].at  = IF GoesDown(w, status) THEN "announcing" ELSE "failing",
          ![w].new = [status |-> status, failures |-> failures]]
    BY <1>4 DEF CheckFails, failures, status
  <2>5. cycle' \in [Workers -> Cycle] BY <2>3, <2>4, CheckedType
  <2>6. told' \in [Workers -> {"nothing", "up", "down"}] BY <1>4 DEF CheckFails
  <2> QED BY <1>4, <2>5, <2>6 DEF CheckFails
<1>5. ASSUME NEW w \in Workers, Commit(w) PROVE TypeOK'
  <2>1. row' \in Row BY <1>5, MergedType DEF Commit
  <2>2. open' \subseteq Ids BY <1>5 DEF Commit, Opens
  <2>3. firstUp' \in BOOLEAN BY <1>5 DEF Commit
  <2> QED BY <1>5, <2>1, <2>2, <2>3, RowTypes DEF Commit
<1>6. ASSUME NEW w \in Workers, Rollback(w) PROVE TypeOK'
  BY <1>6, RowTypes DEF Rollback, Settings
<1>7. ASSUME Flip PROVE TypeOK' BY <1>7 DEF Flip
<1> QED BY <1>1, <1>2, <1>3, <1>4, <1>5, <1>6, <1>7 DEF Next, Step

\* The steps of one worker leave the cycles of the others alone.
LEMMA NextCycleInv ==
  ASSUME TypeOK, CycleInv, Next PROVE CycleInv'
<1>0. cycle \in [Workers -> Cycle] BY DEF TypeOK
<1> USE DEF CycleInv, HoldsLock
<1>1. ASSUME NEW w \in Workers, Load(w) PROVE CycleInv'
  BY <1>0, <1>1 DEF Load, Sleeping
<1>2. ASSUME NEW w \in Workers, CheckSucceeds(w) PROVE CycleInv'
  BY <1>0, <1>2 DEF CheckSucceeds, Closes, Up, Cycle
<1>3. ASSUME NEW w \in Workers, CheckRaises(w) PROVE CycleInv'
  BY <1>0, <1>3 DEF CheckRaises, Up, Cycle
<1>4. ASSUME NEW w \in Workers, CheckFails(w) PROVE CycleInv'
  BY <1>0, <1>4 DEF CheckFails, GoesDown, Cycle
<1>5. ASSUME NEW w \in Workers, Commit(w) PROVE CycleInv'
  BY <1>0, <1>5 DEF Commit, Sleeping
<1>6. ASSUME NEW w \in Workers, Rollback(w) PROVE CycleInv'
  BY <1>0, <1>6 DEF Rollback, Sleeping
<1>7. ASSUME Flip PROVE CycleInv' BY <1>7 DEF Flip
<1> QED BY <1>1, <1>2, <1>3, <1>4, <1>5, <1>6, <1>7 DEF Next, Step

\* Nothing is opened or resolved while a session has the lock.
LEMMA NextLockInv ==
  ASSUME Settings, TypeOK, LockInv, Next PROVE LockInv'
<1>0. cycle \in [Workers -> Cycle] /\ faults \in Nat BY DEF TypeOK, Settings
<1> USE DEF LockInv, RowIsFree, HoldsLock
<1>1. ASSUME NEW w \in Workers, Load(w) PROVE LockInv'
  BY <1>0, <1>1 DEF Load, Sleeping
<1>2. ASSUME NEW w \in Workers, CheckSucceeds(w) PROVE LockInv'
  BY <1>0, <1>2 DEF CheckSucceeds, Closes, Cycle
<1>3. ASSUME NEW w \in Workers, CheckRaises(w) PROVE LockInv'
  BY <1>0, <1>3 DEF CheckRaises, Cycle
<1>4. ASSUME NEW w \in Workers, CheckFails(w) PROVE LockInv'
  BY <1>0, <1>4 DEF CheckFails, Cycle
<1>5. ASSUME NEW w \in Workers, Commit(w) PROVE LockInv'
  BY <1>0, <1>5 DEF Commit, Sleeping
<1>6. ASSUME NEW w \in Workers, Rollback(w) PROVE LockInv'
  BY <1>0, <1>6 DEF Rollback, Sleeping
<1>7. ASSUME Flip PROVE LockInv' BY <1>7 DEF Flip
<1> QED BY <1>1, <1>2, <1>3, <1>4, <1>5, <1>6, <1>7 DEF Next, Step

\* Only a commit changes the row or the incidents.
LEMMA NextAnnounced ==
  ASSUME TypeOK, CycleInv, DownIsAnnounced, Next PROVE DownIsAnnounced'
<1> USE DEF DownIsAnnounced
<1>1. ASSUME NEW w \in Workers, Commit(w) PROVE DownIsAnnounced'
  <2>1. CASE cycle[w].at = "announcing" BY <1>1, <2>1 DEF Commit, Opens
  <2>2. CASE cycle[w].at # "announcing"
    <3>1. row'.status = IF cycle[w].new.status = cycle[w].seen.status THEN row.status
                        ELSE cycle[w].new.status
      BY <1>1 DEF Commit, Merged
    <3>2. open' = open \ cycle[w].closes BY <1>1, <2>2 DEF Commit
    <3>3. CASE cycle[w].at = "failing"
      BY <3>1, <3>2, <3>3 DEF CycleInv
    <3>4. CASE HoldsLock(w)
      BY <3>1, <3>2, <3>4 DEF CycleInv
    <3> QED BY <1>1, <2>2, <3>3, <3>4 DEF Commit, HoldsLock
  <2> QED BY <2>1, <2>2
<1>2. CASE UNCHANGED <<row, open>> BY <1>2
<1> QED BY <1>1, <1>2 DEF Next, Step, Load, CheckSucceeds, CheckRaises, CheckFails,
                          Rollback, Flip

LEMMA NextInv == ASSUME Settings, Inv, [Next]_vars PROVE Inv'
<1>1. CASE Next
  BY <1>1, NextTypeOK, NextCycleInv, NextLockInv, NextAnnounced DEF Inv
<1>2. CASE UNCHANGED vars
  BY <1>2 DEF vars, Inv, TypeOK, CycleInv, LockInv, DownIsAnnounced, HoldsLock
<1> QED BY <1>1, <1>2

LEMMA Invariance == ASSUME Settings PROVE Spec => []Inv
<1>1. Init => Inv BY InitInv
<1>2. Inv /\ [Next]_vars => Inv' BY NextInv
<1> QED BY <1>1, <1>2, PTL DEF Spec

\* The variables keep their types, for any number of workers and any bounds.
THEOREM ReplicasTypeCorrect == ASSUME Settings PROVE Spec => []TypeOK
<1>1. Inv => TypeOK BY DEF Inv
<1> QED BY <1>1, Invariance, PTL

\* However many monitors run, no committed DOWN is without an incident.
THEOREM DownAnnounced == ASSUME Settings PROVE Spec => []DownIsAnnounced
<1>1. Inv => DownIsAnnounced BY DEF Inv
<1> QED BY <1>1, Invariance, PTL

\* The worker that has the lock is the one that commits.
LEMMA UpStep ==
  ASSUME Inv, NEW v \in Workers, Commit(v), NEW w \in Workers,
         cycle[w].at = "locking", cycle[w].seen.status # "unknown",
         row.status # "up", row'.status = "up"
  PROVE  open' = {}
<1>1. /\ cycle \in [Workers -> Cycle]
      /\ cycle[v].new.status = "up" /\ cycle[v].seen.status # "up"
  BY DEF Inv, TypeOK, Commit, Merged
<1>2. HoldsLock(v) BY <1>1 DEF Inv, CycleInv, Commit, HoldsLock
<1>3. v = w BY <1>2 DEF Inv, LockInv, HoldsLock
<1>4. cycle[w].seen.status \in {"down", "degraded"}
  BY <1>1, <1>3 DEF Cycle, Row, DeviceStatus
<1>5. open' = open \ cycle[w].closes BY <1>3 DEF Commit
<1> QED BY <1>4, <1>5 DEF Inv, LockInv

\* Recovery: the commit that turns the device UP leaves no incident open that
\* any process has opened, whatever else fails, if its own check did not raise
\* and its own cycle had not loaded the device before it had a verdict.
THEOREM RecoveryCloses == ASSUME Settings PROVE Spec => RecoveryClosesAll
<1> DEFINE Closed ==
      \A w \in Workers :
        /\ cycle[w].at = "locking" /\ cycle[w].seen.status # "unknown"
        /\ row.status # "up" /\ row'.status = "up"
        => open' = {}
<1>1. Inv /\ [Next]_vars => [Closed]_vars
  BY UpStep DEF Next, Step, Load, CheckSucceeds, CheckRaises, CheckFails, Rollback, Flip
<1>2. RecoveryClosesAll <=> [][Closed]_vars BY DEF RecoveryClosesAll
<1> QED BY <1>1, <1>2, Invariance, PTL DEF Spec

-----------------------------------------------------------------------------
(***************************************************************************)
(* What the clients of the processes have been told.                       *)
(***************************************************************************)

\* The cycles: who goes DOWN or recovers has said so before the commit.
SaidInv ==
  \A w \in Workers :
    /\ cycle[w].at = "announcing" =>
         /\ cycle[w].new.status = "down" /\ cycle[w].seen.status # "down"
         /\ told[w] = "down"
    /\ cycle[w].at = "locking" /\ cycle[w].seen.status \in {"down", "degraded"} =>
         told[w] = "up"
    /\ cycle[w].at # "raised"

\* The clients of a process know of the outage, or the recovery that was sent to
\* them is being committed under the lock of the row.
OutageIsKnown ==
  row.status = "down" =>
    \E w \in Workers :
      \/ told[w] = "down"
      \/ cycle[w].at = "locking" /\ cycle[w].seen.status \in {"down", "degraded"}

\* The clients of a process know of the recovery, if it was one, or have since
\* been told of an outage that is still to be committed.
RecoveryIsKnown ==
  row.status = "up" =>
    firstUp \/ \E w \in Workers : told[w] = "up" \/ cycle[w].at = "announcing"

ToldInv == faults = 0 => SaidInv /\ OutageIsKnown /\ RecoveryIsKnown

LEMMA InitToldInv == ASSUME Init PROVE ToldInv
BY DEF Init, Fresh, Sleeping, ToldInv, SaidInv, OutageIsKnown, RecoveryIsKnown

\* The status that a commit leaves.
LEMMA CommitFacts ==
  ASSUME TypeOK, CycleInv, SaidInv, NEW w \in Workers, Commit(w)
  PROVE  /\ row'.status = IF cycle[w].new.status = cycle[w].seen.status THEN row.status
                          ELSE cycle[w].new.status
         /\ cycle' = [cycle EXCEPT ![w] = Sleeping] /\ told' = told /\ faults' = faults
         /\ cycle[w].at \in {"locking", "failing", "announcing"}
         /\ cycle[w].at = "announcing" => row'.status = "down"
         /\ cycle[w].at = "failing" => row'.status = row.status \/ row'.status = "degraded"
         /\ cycle[w].at = "locking" => \/ row'.status = "up" /\ cycle[w].seen.status # "up"
                                       \/ row'.status = row.status /\ cycle[w].seen.status = "up"
<1>1. row'.status = IF cycle[w].new.status = cycle[w].seen.status THEN row.status
                    ELSE cycle[w].new.status
  BY DEF Commit, Merged
<1>2. cycle[w].at \in {"locking", "failing", "announcing"}
  BY DEF Commit, HoldsLock, SaidInv
<1>3. cycle[w].at = "announcing" => row'.status = "down"
  BY <1>1 DEF SaidInv
<1>4. cycle[w].at = "failing" => row'.status = row.status \/ row'.status = "degraded"
  BY <1>1 DEF CycleInv
<1>5. cycle[w].at = "locking" => \/ row'.status = "up" /\ cycle[w].seen.status # "up"
                                 \/ row'.status = row.status /\ cycle[w].seen.status = "up"
  BY <1>1 DEF CycleInv, HoldsLock
<1> QED BY <1>1, <1>2, <1>3, <1>4, <1>5 DEF Commit

LEMMA CommitToldInv ==
  ASSUME TypeOK, CycleInv, LockInv, SaidInv, OutageIsKnown, RecoveryIsKnown,
         NEW w \in Workers, Commit(w)
  PROVE  SaidInv' /\ OutageIsKnown' /\ RecoveryIsKnown'
<1>0. cycle \in [Workers -> Cycle] BY DEF TypeOK
<1>1. \A v \in Workers \ {w} : cycle'[v] = cycle[v]
  BY <1>0, CommitFacts
<1>2. cycle'[w] = Sleeping /\ Sleeping.at = "idle" /\ told' = told
  BY <1>0, CommitFacts DEF Sleeping
<1>3. SaidInv'
  <2> SUFFICES ASSUME NEW v \in Workers
               PROVE  /\ cycle'[v].at = "announcing" =>
                           /\ cycle'[v].new.status = "down" /\ cycle'[v].seen.status # "down"
                           /\ told[v] = "down"
                      /\ cycle'[v].at = "locking" /\ cycle'[v].seen.status \in {"down", "degraded"} =>
                           told[v] = "up"
                      /\ cycle'[v].at # "raised"
    BY <1>2 DEF SaidInv
  <2>1. CASE v = w
    BY <1>2, <2>1
  <2>2. CASE v # w
    BY <1>1, <2>2 DEF SaidInv
  <2> QED BY <2>1, <2>2
<1>4. OutageIsKnown'
  <2> SUFFICES ASSUME row'.status = "down"
               PROVE  \E v \in Workers :
                        \/ told[v] = "down"
                        \/ cycle'[v].at = "locking" /\ cycle'[v].seen.status \in {"down", "degraded"}
    BY <1>2 DEF OutageIsKnown
  <2>1. CASE cycle[w].at = "announcing"
    BY <2>1 DEF SaidInv
  <2>2. CASE cycle[w].at # "announcing"
    <3>1. row.status = "down" /\ (cycle[w].at = "locking" => cycle[w].seen.status = "up")
      BY <2>2, CommitFacts
    <3>2. PICK v \in Workers :
            \/ told[v] = "down"
            \/ cycle[v].at = "locking" /\ cycle[v].seen.status \in {"down", "degraded"}
      BY <3>1 DEF OutageIsKnown
    <3>3. CASE told[v] = "down" BY <3>3
    <3>4. CASE cycle[v].at = "locking" /\ cycle[v].seen.status \in {"down", "degraded"}
      <4>1. v # w BY <3>1, <3>4
      <4> QED BY <1>1, <3>4, <4>1
    <3> QED BY <3>2, <3>3, <3>4
  <2> QED BY <2>1, <2>2
<1>5. RecoveryIsKnown'
  <2> SUFFICES ASSUME row'.status = "up", ~ firstUp'
               PROVE  \E v \in Workers : told[v] = "up" \/ cycle'[v].at = "announcing"
    BY <1>2 DEF RecoveryIsKnown
  <2>1. cycle[w].at # "announcing"
    BY CommitFacts
  <2>2. CASE row.status = "up"
    <3>1. ~ firstUp
      BY <2>2 DEF Commit
    <3>2. PICK v \in Workers : told[v] = "up" \/ cycle[v].at = "announcing"
      BY <2>2, <3>1 DEF RecoveryIsKnown
    <3>3. CASE v = w BY <2>1, <3>2, <3>3
    <3>4. CASE v # w BY <1>1, <3>2, <3>4
    <3> QED BY <3>3, <3>4
  <2>3. CASE row.status # "up"
    <3>1. cycle[w].at = "locking" /\ cycle[w].seen.status # "up"
      BY <2>3, CommitFacts
    <3>2. cycle[w].seen.status # "unknown"
      BY <2>3 DEF Commit
    <3>3. cycle[w].seen.status \in {"down", "degraded"}
      BY <1>0, <3>1, <3>2 DEF Cycle, Row, DeviceStatus
    <3>4. told[w] = "up"
      BY <3>1, <3>3 DEF SaidInv
    <3> QED BY <3>4
  <2> QED BY <2>2, <2>3
<1> QED BY <1>3, <1>4, <1>5

LEMMA LoadToldInv ==
  ASSUME TypeOK, SaidInv, OutageIsKnown, RecoveryIsKnown, NEW w \in Workers, Load(w)
  PROVE  SaidInv' /\ OutageIsKnown' /\ RecoveryIsKnown'
<1>0. cycle \in [Workers -> Cycle] BY DEF TypeOK
<1>1. /\ cycle[w].at = "idle" /\ cycle'[w].at = "probing" /\ cycle'[w].seen = row
      /\ \A v \in Workers \ {w} : cycle'[v] = cycle[v]
      /\ row' = row /\ told' = told /\ firstUp' = firstUp
  BY <1>0 DEF Load, Sleeping
<1>2. SaidInv' BY <1>1 DEF SaidInv
<1>3. OutageIsKnown' BY <1>1 DEF OutageIsKnown
<1>4. RecoveryIsKnown' BY <1>1 DEF RecoveryIsKnown
<1> QED BY <1>2, <1>3, <1>4

LEMMA SucceedsToldInv ==
  ASSUME TypeOK, SaidInv, OutageIsKnown, RecoveryIsKnown,
         NEW w \in Workers, CheckSucceeds(w)
  PROVE  SaidInv' /\ OutageIsKnown' /\ RecoveryIsKnown'
<1>0. cycle \in [Workers -> Cycle] /\ told \in [Workers -> {"nothing", "up", "down"}]
  BY DEF TypeOK
<1>1. /\ cycle[w].at = "probing" /\ cycle'[w].at = "locking"
      /\ cycle'[w].seen = cycle[w].seen
      /\ \A v \in Workers \ {w} : cycle'[v] = cycle[v] /\ told'[v] = told[v]
      /\ told'[w] = IF cycle[w].seen.status \in {"down", "degraded"} THEN "up" ELSE told[w]
      /\ row' = row /\ firstUp' = firstUp
  BY <1>0 DEF CheckSucceeds
<1>2. SaidInv' BY <1>1 DEF SaidInv
<1>3. OutageIsKnown' BY <1>1 DEF OutageIsKnown
<1>4. RecoveryIsKnown' BY <1>1 DEF RecoveryIsKnown
<1> QED BY <1>2, <1>3, <1>4

LEMMA FailsToldInv ==
  ASSUME TypeOK, SaidInv, OutageIsKnown, RecoveryIsKnown,
         NEW w \in Workers, CheckFails(w)
  PROVE  SaidInv' /\ OutageIsKnown' /\ RecoveryIsKnown'
<1>0. cycle \in [Workers -> Cycle] /\ told \in [Workers -> {"nothing", "up", "down"}]
  BY DEF TypeOK
<1> DEFINE failures == Bump(cycle[w].seen.failures, DownThreshold)
           status == IF failures >= DownThreshold THEN "down" ELSE "degraded"
<1>1. /\ cycle[w].at = "probing" /\ row' = row /\ firstUp' = firstUp
      /\ cycle' = [cycle EXCEPT
            ![w].at  = IF GoesDown(w, status) THEN "announcing" ELSE "failing",
            ![w].new = [status |-> status, failures |-> failures]]
      /\ told' = IF GoesDown(w, status) THEN [told EXCEPT ![w] = "down"] ELSE told
  BY DEF CheckFails
<1> HIDE DEF failures, status
<1>2. /\ \A v \in Workers \ {w} : cycle'[v] = cycle[v] /\ told'[v] = told[v]
      /\ cycle'[w].seen = cycle[w].seen /\ cycle'[w].new.status = status
      /\ \/ GoesDown(w, status) /\ cycle'[w].at = "announcing" /\ told'[w] = "down"
         \/ cycle'[w].at = "failing" /\ told'[w] = told[w]
  BY <1>0, <1>1 DEF Cycle
<1>3. SaidInv'
  <2> DEFINE Said(v) ==
        /\ cycle[v].at = "announcing" =>
             /\ cycle[v].new.status = "down" /\ cycle[v].seen.status # "down"
             /\ told[v] = "down"
        /\ cycle[v].at = "locking" /\ cycle[v].seen.status \in {"down", "degraded"} =>
             told[v] = "up"
        /\ cycle[v].at # "raised"
  <2>1. ASSUME NEW v \in Workers \ {w} PROVE Said(v)'
    <3>1. cycle'[v] = cycle[v] /\ told'[v] = told[v] /\ row' = row
      BY <1>1, <1>2
    <3>2. Said(v)
      BY DEF SaidInv
    <3> QED BY <3>1, <3>2
  <2>2. CASE GoesDown(w, status) /\ cycle'[w].at = "announcing" /\ told'[w] = "down"
    <3>1. Said(w)' BY <1>2, <2>2 DEF GoesDown
    <3> QED BY <2>1, <3>1 DEF SaidInv
  <2>3. CASE cycle'[w].at = "failing" /\ told'[w] = told[w]
    <3>1. Said(w)' BY <1>1, <1>2, <2>3 DEF SaidInv
    <3> QED BY <2>1, <3>1 DEF SaidInv
  <2> QED BY <1>2, <2>2, <2>3
<1>4. OutageIsKnown' BY <1>1, <1>2 DEF OutageIsKnown
<1>5. RecoveryIsKnown' BY <1>1, <1>2 DEF RecoveryIsKnown
<1> QED BY <1>3, <1>4, <1>5

LEMMA NextToldInv ==
  ASSUME Settings, Inv, ToldInv, [Next]_vars
  PROVE  ToldInv'
<1>0. TypeOK /\ CycleInv /\ LockInv /\ faults \in Nat
  BY DEF Inv, TypeOK, Settings
<1> SUFFICES ASSUME faults' = 0
             PROVE  SaidInv' /\ OutageIsKnown' /\ RecoveryIsKnown'
  BY DEF ToldInv
<1>1. ASSUME NEW w \in Workers, CheckRaises(w) \/ Rollback(w) PROVE FALSE
  BY <1>0, <1>1 DEF CheckRaises, Rollback
<1>2. faults = 0
  BY <1>1 DEF Next, Step, Load, CheckSucceeds, CheckFails, Commit, Flip, vars
<1>3. SaidInv /\ OutageIsKnown /\ RecoveryIsKnown
  BY <1>2 DEF ToldInv
<1>4. ASSUME NEW w \in Workers, Load(w) PROVE SaidInv' /\ OutageIsKnown' /\ RecoveryIsKnown'
  BY <1>0, <1>3, <1>4, LoadToldInv
<1>5. ASSUME NEW w \in Workers, CheckSucceeds(w)
      PROVE  SaidInv' /\ OutageIsKnown' /\ RecoveryIsKnown'
  BY <1>0, <1>3, <1>5, SucceedsToldInv
<1>6. ASSUME NEW w \in Workers, CheckFails(w)
      PROVE  SaidInv' /\ OutageIsKnown' /\ RecoveryIsKnown'
  BY <1>0, <1>3, <1>6, FailsToldInv
<1>7. ASSUME NEW w \in Workers, Commit(w) PROVE SaidInv' /\ OutageIsKnown' /\ RecoveryIsKnown'
  BY <1>0, <1>3, <1>7, CommitToldInv
<1>8. ASSUME UNCHANGED <<row, cycle, told, firstUp>>
      PROVE  SaidInv' /\ OutageIsKnown' /\ RecoveryIsKnown'
  BY <1>3, <1>8 DEF SaidInv, OutageIsKnown, RecoveryIsKnown
<1> QED BY <1>1, <1>4, <1>5, <1>6, <1>7, <1>8 DEF Next, Step, Flip, vars

\* If nothing raised and nothing was rolled back, a committed outage and a
\* committed recovery have been told to the clients of some process, for any
\* number of processes that count on from what each has loaded.  Not a recovery
\* is the UP of a cycle that had loaded UNKNOWN, which nobody is told of.
THEOREM SomebodyWasTold == ASSUME Settings PROVE Spec => []SomeoneWasTold
<1>1. Init => Inv /\ ToldInv BY InitInv, InitToldInv
<1>2. Inv /\ ToldInv /\ [Next]_vars => (Inv /\ ToldInv)' BY NextInv, NextToldInv
<1>3. Inv /\ ToldInv => SomeoneWasTold
  BY DEF ToldInv, OutageIsKnown, RecoveryIsKnown, SomeoneWasTold
<1> QED BY <1>1, <1>2, <1>3, PTL DEF Spec

-----------------------------------------------------------------------------
(***************************************************************************)
(* A component at rest is one that has not begun; so every component, moving *)
(* or not, behaves as its own module specifies.                            *)
(***************************************************************************)
ServiceFacts == INSTANCE ServiceProofs
UpsertFacts  == INSTANCE ThresholdProofs

LEMMA RestsAreInitial ==
  ASSUME PartsInit
  PROVE  /\ Services!Init /\ Upserts!Init /\ Report!Init /\ Restarts!Init /\ Scan!Init
<1> USE ComponentsAssumption DEF ComponentsAssumption
<1>1. Services!Init
  BY DEF PartsInit, ServicesRest, Services!Init, Services!Absent, Services!Created,
         Services!Served, Services!ServiceCheckType
<1>2. Upserts!Init
  <2>1. PICK v : v \in Values
    OBVIOUS
  <2>2. [warning |-> v, critical |-> v] \in Upserts!AlertThreshold
    BY <2>1 DEF Upserts!AlertThreshold
  <2>3. (CHOOSE body \in Upserts!AlertThreshold : TRUE) \in Upserts!AlertThreshold
    BY <2>2
  <2>4. QED
    BY <2>3 DEF PartsInit, UpsertsRest, Upserts!Init
<1>3. Report!Init
  BY DEF PartsInit
<1>4. Restarts!Init
  BY DEF PartsInit, RestartsRest, Restarts!Init, Restarts!DeviceType
<1>5. Scan!Init
  <2>1. [version |-> 4, base |-> 0, size |-> 1] \in Scan!Network
    BY DEF Scan!Network, Scan!Top
  <2>2. [version |-> 4, number |-> 0] \in Scan!Address
    BY DEF Scan!Address, Scan!Top
  <2>3. QED
    BY <2>1, <2>2 DEF PartsInit, ScanRest, Scan!Init
<1>6. QED
  BY <1>1, <1>2, <1>3, <1>4, <1>5

LEMMA PartsMoveAlone ==
  ASSUME [PartsNext]_partsVars
  PROVE  /\ [Services!Next]_servicesVars
         /\ [Upserts!Next]_upsertsVars
         /\ [Report!Next]_reportVars
         /\ [Restarts!Next]_restartsVars
         /\ [Scan!Next]_scanVars
BY DEF PartsNext, partsVars, ReplicasMove, ServicesMove, UpsertsMove, ReportMoves,
       RestartsMove, ScanMoves

\* Next to the others every component behaves as its own module specifies.
LEMMA PartsBehave ==
  PartsSpec => /\ Services!Spec /\ Upserts!Spec /\ Report!Spec
               /\ Restarts!Spec /\ Scan!Spec
<1>1. PartsInit => /\ Services!Init /\ Upserts!Init /\ Report!Init
                   /\ Restarts!Init /\ Scan!Init
  BY RestsAreInitial
<1>2. [PartsNext]_partsVars =>
        /\ [Services!Next]_servicesVars /\ [Upserts!Next]_upsertsVars
        /\ [Report!Next]_reportVars /\ [Restarts!Next]_restartsVars
        /\ [Scan!Next]_scanVars
  BY PartsMoveAlone
<1>3. QED
  BY <1>1, <1>2, PTL
     DEF PartsSpec, Services!Spec, Upserts!Spec, Report!Spec, Restarts!Spec, Scan!Spec,
         Services!vars, Upserts!vars, Report!vars, Restarts!vars, Scan!vars,
         servicesVars, upsertsVars, reportVars, restartsVars, scanVars

\* ServiceProofs and ThresholdProofs are about the same specifications.
LEMMA SameServices == Services!Spec => ServiceFacts!Spec
<1>1. Services!Init => ServiceFacts!Init
  BY DEF Services!Absent, Services!Created, Services!Deleted, Services!Served,
     Services!Row, Services!ServiceCheckType, Services!ServiceCheckStatus,
     Services!Init, ServiceFacts!Absent, ServiceFacts!Created, ServiceFacts!Deleted,
     ServiceFacts!Served, ServiceFacts!Row, ServiceFacts!ServiceCheckType,
     ServiceFacts!ServiceCheckStatus, ServiceFacts!Init
<1>2. [Services!Next]_servicesVars => [ServiceFacts!Next]_servicesVars
  BY DEF Services!Absent, Services!Created, Services!Deleted, Services!Served,
     Services!Row, Services!ServiceCheckType, Services!ServiceCheckStatus,
     Services!Exists, Services!RowIsFree, Services!RunServiceCheck, Services!StatusOf,
     Services!Bump, Services!Checked, Services!Merged, Services!Settles,
     Services!Create, Services!Get, Services!Probe, Services!Flush, Services!Commit,
     Services!CommitFails, Services!Delete, Services!Change, Services!Next,
     ServiceFacts!Absent, ServiceFacts!Created, ServiceFacts!Deleted,
     ServiceFacts!Served, ServiceFacts!Row, ServiceFacts!ServiceCheckType,
     ServiceFacts!ServiceCheckStatus, ServiceFacts!Exists, ServiceFacts!RowIsFree,
     ServiceFacts!RunServiceCheck, ServiceFacts!StatusOf, ServiceFacts!Bump,
     ServiceFacts!Checked, ServiceFacts!Merged, ServiceFacts!Settles,
     ServiceFacts!Create, ServiceFacts!Get, ServiceFacts!Probe, ServiceFacts!Flush,
     ServiceFacts!Commit, ServiceFacts!CommitFails, ServiceFacts!Delete,
     ServiceFacts!Change, ServiceFacts!Next
<1>3. QED
  BY <1>1, <1>2, PTL DEF Services!Spec, ServiceFacts!Spec, Services!vars, ServiceFacts!vars,
     servicesVars

LEMMA SameUpserts == Upserts!Spec => UpsertFacts!Spec
<1>1. Upserts!Init => UpsertFacts!Init
  BY DEF Upserts!AlertThreshold, Upserts!Served, Upserts!Init,
     UpsertFacts!AlertThreshold, UpsertFacts!Served, UpsertFacts!Init
<1>2. [Upserts!Next]_upsertsVars => [UpsertFacts!Next]_upsertsVars
  BY DEF Upserts!AlertThreshold, Upserts!Served, Upserts!Keep, Upserts!RowIsFree,
     Upserts!Inserts, Upserts!Look, Upserts!Insert, Upserts!Flush, Upserts!Merged,
     Upserts!Update, Upserts!CommitFails, Upserts!Delete, Upserts!Next,
     UpsertFacts!AlertThreshold, UpsertFacts!Served, UpsertFacts!Keep,
     UpsertFacts!RowIsFree, UpsertFacts!Inserts, UpsertFacts!Look, UpsertFacts!Insert,
     UpsertFacts!Flush, UpsertFacts!Merged, UpsertFacts!Update,
     UpsertFacts!CommitFails, UpsertFacts!Delete, UpsertFacts!Next
<1>3. QED
  BY <1>1, <1>2, PTL DEF Upserts!Spec, UpsertFacts!Spec, Upserts!vars, UpsertFacts!vars,
     upsertsVars

\* The run's statement of ServiceProofs' CounterExact: whatever requests overlap,
\* the failure counter of a service is never above the failures there were.
THEOREM CounterExact == PartsSpec => []CounterIsExact
<1>1. Services!Spec => []ServiceFacts!CounterIsExact
  BY SameServices, ServiceFacts!CounterExact, ComponentsAssumption DEF ComponentsAssumption
<1>2. ServiceFacts!CounterIsExact => CounterIsExact
  BY DEF CounterIsExact, Services!CounterIsExact, ServiceFacts!CounterIsExact,
     Services!Exists, ServiceFacts!Exists, Services!StatusOf, ServiceFacts!StatusOf,
     Services!Row, ServiceFacts!Row, Services!ServiceCheckStatus,
     ServiceFacts!ServiceCheckStatus
<1>3. QED
  BY <1>1, <1>2, PartsBehave, PTL

\* Of CriticalEarned: no interleaving makes a service CRITICAL early.
THEOREM CriticalEarned == PartsSpec => []CriticalIsEarned
<1>1. Services!Spec => []ServiceFacts!CriticalIsEarned
  BY SameServices, ServiceFacts!CriticalEarned, ComponentsAssumption DEF ComponentsAssumption
<1>2. ServiceFacts!CriticalIsEarned => CriticalIsEarned
  BY DEF CriticalIsEarned, Services!CriticalIsEarned, ServiceFacts!CriticalIsEarned
<1>3. QED
  BY <1>1, <1>2, PartsBehave, PTL

\* Of ThresholdProofs' DuplicatesBounded: there are never more rows of a metric
\* than requests served at a time.
THEOREM DuplicatesBounded == PartsSpec => []DuplicatesAreBounded
<1>1. Upserts!Spec => []UpsertFacts!DuplicatesAreBounded
  BY SameUpserts, UpsertFacts!DuplicatesBounded, ComponentsAssumption
     DEF ComponentsAssumption, IsFiniteSet, UpsertFacts!IsFiniteSet
<1>2. UpsertFacts!DuplicatesAreBounded => DuplicatesAreBounded
  BY DEF DuplicatesAreBounded, Upserts!DuplicatesAreBounded, UpsertFacts!DuplicatesAreBounded,
     Upserts!Keep, UpsertFacts!Keep, Upserts!Inserting, UpsertFacts!Inserting,
     Upserts!Cardinality, UpsertFacts!Cardinality
<1>3. QED
  BY <1>1, <1>2, PartsBehave, PTL

\* Of StoredRight: a single row holds what was asked for last.
THEOREM StoredRight == PartsSpec => []StoredAsAsked
<1>1. Upserts!Spec => []UpsertFacts!StoredAsAsked
  BY SameUpserts, UpsertFacts!StoredRight, ComponentsAssumption
     DEF ComponentsAssumption, IsFiniteSet, UpsertFacts!IsFiniteSet
<1>2. UpsertFacts!StoredAsAsked => StoredAsAsked
  BY DEF StoredAsAsked, Upserts!StoredAsAsked, UpsertFacts!StoredAsAsked,
     Upserts!Keep, UpsertFacts!Keep
<1>3. QED
  BY <1>1, <1>2, PartsBehave, PTL

-----------------------------------------------------------------------------
(***************************************************************************)
(* Reboots.                                                                *)
(***************************************************************************)

\* The operators whose request is under way.
Asking == {o \in Operators : attempt[o] \in {"connecting"} \union Restarts!Outcome}

\* The operators who were told of success, or will be.
Contented == {o \in Operators : attempt[o] \in {"zero", "lost", "succeeded"}}

\* There is room for the failure of every request that is under way; and unless a
\* reboot was taken for a failure or an answer got lost, each reboot is on the
\* account of an operator who does not ask again.
RestartsInv ==
  /\ Restarts!TypeOK
  /\ failedOpen + Cardinality(Asking) <= MaxFailed
  /\ unsure = {} => reboots <= Cardinality(Contented)

LEMMA SomeOperators ==
  ASSUME NEW S \in SUBSET Operators
  PROVE  /\ IsFiniteSet(S) /\ Cardinality(S) \in Nat
         /\ Cardinality(S) <= Cardinality(Operators)
         /\ \A o \in Operators \ S :
              Cardinality(S \union {o}) = Cardinality(S) + 1
         /\ \A o \in S : Cardinality(S \ {o}) = Cardinality(S) - 1
         /\ \A T \in SUBSET S : Cardinality(T) <= Cardinality(S)
BY ComponentsAssumption, FS_Subset, FS_CardinalityType, FS_AddElement, FS_RemoveElement
   DEF ComponentsAssumption

LEMMA RestartsInit == ASSUME Restarts!Init PROVE RestartsInv
<1> USE ComponentsAssumption DEF ComponentsAssumption, Restarts!Init
<1>1. Restarts!TypeOK
  <2>1. attempt \in [Operators -> {"idle", "connecting", "succeeded"} \union Restarts!Outcome]
    BY DEF Restarts!Idle
  <2>2. unsure \subseteq Restarts!Doubt
    BY Zenon
  <2>3. vendor \in BOOLEAN /\ deviceType \in Restarts!DeviceType
    BY Zenon
  <2>4. failedOpen \in 0 .. MaxFailed /\ reboots \in 0 .. MaxReboots
    OBVIOUS
  <2>5. QED
    BY <2>1, <2>2, <2>3, <2>4 DEF Restarts!TypeOK, Restarts!Idle
<1>2. Asking = {}
  BY DEF Asking, Restarts!Idle, Restarts!Outcome
<1>3. Contented = {}
  BY DEF Contented, Restarts!Idle
<1>4. QED
  BY <1>1, <1>2, <1>3, FS_EmptySet DEF RestartsInv

LEMMA AttemptStep ==
  ASSUME Restarts!TypeOK, NEW o \in Operators, NEW a, attempt' = [attempt EXCEPT ![o] = a],
         a \in {"idle", "connecting", "succeeded"} \union Restarts!Outcome
  PROVE  /\ attempt' \in [Operators -> {"idle", "connecting", "succeeded"} \union Restarts!Outcome]
         /\ a \in {"connecting"} \union Restarts!Outcome => Asking' = Asking \union {o}
         /\ a \notin {"connecting"} \union Restarts!Outcome => Asking' = Asking \ {o}
         /\ a \in {"zero", "lost", "succeeded"} => Contented' = Contented \union {o}
         /\ a \notin {"zero", "lost", "succeeded"} => Contented' = Contented \ {o}
         /\ a \in {"connecting"} \union Restarts!Outcome /\ o \in Asking => Asking' = Asking
         /\ a \in {"zero", "lost", "succeeded"} /\ o \in Contented => Contented' = Contented
         /\ a \notin {"zero", "lost", "succeeded"} /\ o \notin Contented
              => Contented' = Contented
<1>1. attempt \in [Operators -> {"idle", "connecting", "succeeded"} \union Restarts!Outcome]
  BY DEF Restarts!TypeOK, Restarts!Idle
<1>2. \A p \in Operators : attempt'[p] = IF p = o THEN a ELSE attempt[p]
  BY <1>1
<1>3. QED
  BY <1>1, <1>2 DEF Asking, Contented

LEMMA RestartsStep ==
  ASSUME RestartsInv, [Restarts!Next]_restartsVars
  PROVE  RestartsInv'
<1> USE ComponentsAssumption DEF ComponentsAssumption
<1>0. /\ Restarts!TypeOK /\ failedOpen + Cardinality(Asking) <= MaxFailed
      /\ unsure = {} => reboots <= Cardinality(Contented)
      /\ failedOpen \in 0 .. MaxFailed /\ reboots \in 0 .. MaxReboots
      /\ Asking \subseteq Operators /\ Contented \subseteq Operators
      /\ Cardinality(Asking) \in Nat /\ Cardinality(Contented) \in Nat
      /\ Cardinality(Operators) \in Nat /\ unsure \subseteq Restarts!Doubt
  <2>1. Asking \subseteq Operators /\ Contented \subseteq Operators
    BY DEF Asking, Contented
  <2>2. QED
    BY <2>1, SomeOperators DEF RestartsInv, Restarts!TypeOK
<1>1. ASSUME NEW o \in Operators, Restarts!Ask(o) PROVE RestartsInv'
  <2>1. /\ attempt' = [attempt EXCEPT ![o] = "connecting"] /\ attempt[o] = "idle"
        /\ failedOpen + Cardinality(Operators) <= MaxFailed
        /\ UNCHANGED <<deviceType, vendor, failedOpen, reboots, unsure>>
    <3>1. Restarts!Cardinality(Operators) = Cardinality(Operators)
      BY DEF Restarts!Cardinality, Cardinality
    <3>2. QED
      BY <1>1, <3>1 DEF Restarts!Ask, Restarts!Idle
  <2>2. Contented' = Contented
    <3>1. o \notin Contented
      BY <2>1 DEF Contented
    <3>2. "connecting" \notin {"zero", "lost", "succeeded"}
      OBVIOUS
    <3>3. attempt' = [attempt EXCEPT ![o] = "connecting"]
      BY <2>1
    <3>4. QED
      BY <1>0, <3>1, <3>2, <3>3, AttemptStep
  <2>3. Asking' \subseteq Operators
    BY DEF Asking
  <2>4. Cardinality(Asking') <= Cardinality(Operators) /\ Cardinality(Asking') \in Nat
    BY <2>3, SomeOperators
  <2>5. Restarts!TypeOK'
    BY <1>0, <2>1, AttemptStep DEF Restarts!TypeOK, Restarts!Idle
  <2>6. failedOpen' + Cardinality(Asking') <= MaxFailed
    BY <1>0, <2>1, <2>4
  <2>7. unsure' = {} => reboots' <= Cardinality(Contented')
    BY <1>0, <2>1, <2>2
  <2>8. QED
    BY <2>5, <2>6, <2>7 DEF RestartsInv
<1>2. ASSUME NEW o \in Operators, attempt[o] = "connecting", NEW a \in Restarts!Outcome,
             attempt' = [attempt EXCEPT ![o] = a],
             UNCHANGED <<deviceType, vendor, failedOpen>>
      PROVE  /\ Asking' = Asking /\ Contented \subseteq Contented'
             /\ Cardinality(Contented') \in Nat
             /\ Cardinality(Contented) <= Cardinality(Contented')
             /\ a \in {"zero", "lost"} =>
                  Cardinality(Contented') = Cardinality(Contented) + 1
             /\ reboots' \in 0 .. MaxReboots /\ unsure' \subseteq Restarts!Doubt => Restarts!TypeOK'
  <2>1. o \in Asking /\ o \notin Contented
    BY <1>2 DEF Asking, Contented
  <2>2. Asking' = Asking
    BY <1>0, <1>2, <2>1, AttemptStep
  <2>3. Contented' = Contented \/ Contented' = Contented \union {o}
    BY <1>0, <1>2, <2>1, AttemptStep
  <2>4. a \in {"zero", "lost"} => Contented' = Contented \union {o}
    BY <1>0, <1>2, AttemptStep
  <2>5. Cardinality(Contented \union {o}) = Cardinality(Contented) + 1
    BY <1>0, <2>1, SomeOperators
  <2>6. attempt' \in [Operators -> {"idle", "connecting", "succeeded"} \union Restarts!Outcome]
    BY <1>0, <1>2, AttemptStep
  <2>7. reboots' \in 0 .. MaxReboots /\ unsure' \subseteq Restarts!Doubt => Restarts!TypeOK'
    BY <1>0, <1>2, <2>6 DEF Restarts!TypeOK, Restarts!Idle
  <2>8. /\ Contented \subseteq Contented' /\ Cardinality(Contented') \in Nat
        /\ Cardinality(Contented) <= Cardinality(Contented')
    <3>1. CASE Contented' = Contented
      BY <1>0, <3>1
    <3>2. CASE Contented' = Contented \union {o}
      <4>1. Cardinality(Contented') = Cardinality(Contented) + 1
        BY <2>5, <3>2
      <4>2. QED
        BY <1>0, <3>2, <4>1
    <3>3. QED
      BY <2>3, <3>1, <3>2
  <2>9. a \in {"zero", "lost"} => Cardinality(Contented') = Cardinality(Contented) + 1
    BY <2>4, <2>5
  <2>10. QED
    BY <2>2, <2>7, <2>8, <2>9
<1>3. ASSUME NEW o \in Operators, Restarts!ConnectFails(o) \/ Restarts!RunsWithoutEffect(o)
      PROVE  RestartsInv'
  <2>1. PICK a \in Restarts!Outcome : attempt' = [attempt EXCEPT ![o] = a]
    BY <1>3 DEF Restarts!ConnectFails, Restarts!RunsWithoutEffect, Restarts!Outcome
  <2>2. attempt[o] = "connecting" /\ UNCHANGED <<deviceType, vendor, failedOpen, reboots, unsure>>
    BY <1>3 DEF Restarts!ConnectFails, Restarts!RunsWithoutEffect
  <2>3. /\ Asking' = Asking /\ Restarts!TypeOK' /\ Cardinality(Contented') \in Nat
        /\ Cardinality(Contented) <= Cardinality(Contented')
    BY <1>0, <1>2, <2>1, <2>2
  <2>4. unsure' = {} => reboots' <= Cardinality(Contented')
    BY <1>0, <2>2, <2>3
  <2>5. QED
    BY <1>0, <2>2, <2>3, <2>4 DEF RestartsInv
<1>4. ASSUME NEW o \in Operators, Restarts!Reboots(o) PROVE RestartsInv'
  <2>1. PICK a \in {"zero", "lost", "timeout", "nonzero"} :
          /\ attempt' = [attempt EXCEPT ![o] = a]
          /\ unsure' = unsure \union ({a} \intersect Restarts!Doubt)
    BY <1>4, Zenon DEF Restarts!Reboots
  <2>2. /\ attempt[o] = "connecting" /\ reboots < MaxReboots /\ reboots' = reboots + 1
        /\ UNCHANGED <<deviceType, vendor, failedOpen>>
    BY <1>4 DEF Restarts!Reboots
  <2>3. a \in Restarts!Outcome
    BY DEF Restarts!Outcome
  <2>4. unsure' \subseteq Restarts!Doubt
    BY <1>0, <2>1 DEF Restarts!TypeOK
  <2>5. reboots' \in 0 .. MaxReboots
    BY <1>0, <2>2
  <2>6. unsure' = {} => unsure = {} /\ a \in {"zero", "lost"}
    BY <2>1 DEF Restarts!Doubt
  <2>7. /\ Asking' = Asking /\ Restarts!TypeOK'
        /\ Cardinality(Contented') \in Nat
        /\ a \in {"zero", "lost"} => Cardinality(Contented') = Cardinality(Contented) + 1
    BY <1>2, <2>1, <2>2, <2>3, <2>4, <2>5
  <2>8. unsure' = {} => reboots' <= Cardinality(Contented')
    BY <1>0, <2>2, <2>6, <2>7
  <2>9. QED
    BY <1>0, <2>2, <2>7, <2>8 DEF RestartsInv
<1>5. ASSUME NEW o \in Operators, Restarts!Answer(o) PROVE RestartsInv'
  <2>1. attempt[o] \in Restarts!Outcome /\ UNCHANGED <<deviceType, vendor, reboots, unsure>>
    BY <1>5 DEF Restarts!Answer
  <2>2. o \in Asking /\ Cardinality(Asking \ {o}) = Cardinality(Asking) - 1
    <3>1. o \in Asking
      BY <2>1 DEF Asking
    <3>2. QED
      BY <1>0, <3>1, SomeOperators
  <2>3. CASE attempt[o] \in {"zero", "lost"}
    <3>1. attempt' = [attempt EXCEPT ![o] = "succeeded"] /\ failedOpen' = failedOpen
      BY <1>5, <2>3 DEF Restarts!Answer, Restarts!Success
    <3>2. Asking' = Asking \ {o}
      BY <1>0, <3>1, AttemptStep DEF Restarts!Outcome
    <3>3. Contented' = Contented
      <4>1. o \in Contented
        BY <2>3 DEF Contented
      <4>2. QED
        BY <1>0, <3>1, <4>1, AttemptStep
    <3>4. Restarts!TypeOK'
      BY <1>0, <2>1, <3>1, AttemptStep DEF Restarts!TypeOK, Restarts!Idle
    <3>5. QED
      BY <1>0, <2>1, <2>2, <3>1, <3>2, <3>3, <3>4 DEF RestartsInv
  <2>4. CASE attempt[o] \notin {"zero", "lost"}
    <3>1. attempt' = [attempt EXCEPT ![o] = "idle"] /\ failedOpen' = failedOpen + 1
      BY <1>5, <2>4 DEF Restarts!Answer, Restarts!Success, Restarts!Idle
    <3>2. Asking' = Asking \ {o}
      BY <1>0, <3>1, AttemptStep DEF Restarts!Outcome
    <3>3. Contented' = Contented
      <4>1. o \notin Contented
        BY <2>1, <2>4 DEF Contented, Restarts!Outcome
      <4>2. QED
        BY <1>0, <3>1, <4>1, AttemptStep
    <3>4. failedOpen' + Cardinality(Asking') <= MaxFailed /\ failedOpen' \in 0 .. MaxFailed
      <4>1. Cardinality(Asking) >= 1
        BY <1>0, <2>2, FS_EmptySet, SomeOperators
      <4>2. QED
        BY <1>0, <2>2, <3>1, <3>2, <4>1
    <3>5. Restarts!TypeOK'
      BY <1>0, <2>1, <3>1, <3>4, AttemptStep DEF Restarts!TypeOK, Restarts!Idle
    <3>6. QED
      BY <1>0, <2>1, <3>3, <3>4, <3>5 DEF RestartsInv
  <2>5. QED
    BY <2>3, <2>4
<1>6. ASSUME NEW o \in Operators, Restarts!AnswerFails(o) PROVE RestartsInv'
  <2>1. /\ attempt' = [attempt EXCEPT ![o] = "idle"] /\ unsure' # {}
        /\ unsure' \subseteq Restarts!Doubt
        /\ UNCHANGED <<deviceType, vendor, failedOpen, reboots>>
    BY <1>0, <1>6 DEF Restarts!AnswerFails, Restarts!Idle, Restarts!Doubt
  <2>2. Asking' = Asking \ {o}
    BY <1>0, <2>1, AttemptStep DEF Restarts!Outcome
  <2>3. Cardinality(Asking') <= Cardinality(Asking) /\ Cardinality(Asking') \in Nat
    BY <1>0, <2>2, SomeOperators
  <2>4. Restarts!TypeOK'
    BY <1>0, <2>1, AttemptStep DEF Restarts!TypeOK, Restarts!Idle
  <2>5. QED
    BY <1>0, <2>1, <2>3, <2>4 DEF RestartsInv
<1>7. CASE Restarts!Recover
  <2>1. failedOpen' = 0 /\ UNCHANGED <<deviceType, vendor, attempt, reboots, unsure>>
    BY <1>7 DEF Restarts!Recover
  <2>2. Asking' = Asking /\ Contented' = Contented
    BY <2>1 DEF Asking, Contented
  <2>3. Restarts!TypeOK'
    BY <1>0, <2>1 DEF Restarts!TypeOK
  <2>4. QED
    BY <1>0, <2>1, <2>2, <2>3 DEF RestartsInv
<1>8. CASE UNCHANGED restartsVars
  BY <1>0, <1>8 DEF restartsVars, RestartsInv, Restarts!TypeOK, Asking, Contented
<1>9. QED
  BY <1>1, <1>3, <1>4, <1>5, <1>6, <1>7, <1>8 DEF Restarts!Next

LEMMA RestartsInvariance == PartsSpec => []RestartsInv
<1>1. Restarts!Init => RestartsInv
  BY RestartsInit
<1>2. RestartsInv /\ [Restarts!Next]_restartsVars => RestartsInv'
  BY RestartsStep
<1>3. Restarts!Spec => []RestartsInv
  BY <1>1, <1>2, PTL DEF Restarts!Spec, Restarts!vars, restartsVars
<1>4. QED
  BY <1>3, PartsBehave, PTL

\* Asking again after a reported failure does not reboot the device once more,
\* however many operators there are, as long as no reboot ended in a timeout or a
\* nonzero exit status and no answer was lost.
THEOREM RetrySafe == PartsSpec => []RetryIsSafe
<1>1. RestartsInv => RetryIsSafe
  <2> SUFFICES ASSUME RestartsInv, unsure = {}
               PROVE  reboots <= Cardinality(Operators)
    <3>1. Restarts!Cardinality(Operators) = Cardinality(Operators)
      BY DEF Restarts!Cardinality, Cardinality
    <3>2. QED
      BY <3>1 DEF RetryIsSafe, Restarts!RetryIsSafe
  <2>1. Contented \subseteq Operators
    BY DEF Contented
  <2>2. /\ Cardinality(Contented) \in Nat /\ Cardinality(Operators) \in Nat
        /\ Cardinality(Contented) <= Cardinality(Operators)
    BY <2>1, SomeOperators
  <2>3. reboots \in Nat /\ reboots <= Cardinality(Contented)
    BY ComponentsAssumption DEF RestartsInv, Restarts!TypeOK, ComponentsAssumption
  <2>4. QED
    BY <2>2, <2>3
<1>2. QED
  BY <1>1, RestartsInvariance, PTL

-----------------------------------------------------------------------------
(***************************************************************************)
(* Discovery.                                                              *)
(***************************************************************************)

\* The addresses the request is parsed to.
Parsed ==
  IF network \in Scan!Network THEN Scan!Hosts(network) ELSE Scan!Range(network)

\* What is scanned are the first addresses of the request, and what is found is
\* the device if it answers and is one of them.
ScanInv ==
  /\ network \in Scan!Network \union Scan!AddressRange
  /\ device \in Scan!Address
  /\ answers \subseteq {"ping", "snmp"}
  /\ stage \in {"parsing", "probing", "answered"}
  /\ stage = "parsing" => scanned = {}
  /\ stage # "parsing" => scanned = Scan!FirstOf(Parsed)
  /\ stage # "answered" => found = {}
  /\ stage = "answered" => found = IF answers # {} THEN scanned \intersect {device} ELSE {}

LEMMA ScanInit == Scan!Init => ScanInv
BY DEF Scan!Init, ScanInv

LEMMA ScanStep ==
  ASSUME ScanInv, [Scan!Next]_scanVars
  PROVE  ScanInv'
<1>1. CASE Scan!Parse
  <2>1. /\ stage = "parsing" /\ scanned' = Scan!FirstOf(Parsed)
        /\ stage' = IF scanned' = {} THEN "answered" ELSE "probing"
        /\ UNCHANGED <<network, device, answers, found>>
    BY <1>1 DEF Scan!Parse, Parsed
  <2>2. Scan!FirstOf(Parsed)' = Scan!FirstOf(Parsed)
    BY <2>1 DEF Scan!FirstOf, Parsed
  <2>3. QED
    BY <2>1, <2>2 DEF ScanInv
<1>2. CASE Scan!Probe
  <2>1. /\ stage = "probing" /\ stage' = "answered"
        /\ found' = IF answers # {} THEN scanned \intersect {device} ELSE {}
        /\ UNCHANGED <<network, device, answers, scanned>>
    BY <1>2 DEF Scan!Probe
  <2>2. Scan!FirstOf(Parsed)' = Scan!FirstOf(Parsed)
    BY <2>1 DEF Scan!FirstOf, Parsed
  <2>3. QED
    BY <2>1, <2>2 DEF ScanInv
<1>3. CASE UNCHANGED scanVars
  <2>1. UNCHANGED <<network, device, answers, scanned, found, stage>>
    BY <1>3 DEF scanVars
  <2>2. Scan!FirstOf(Parsed)' = Scan!FirstOf(Parsed)
    BY <2>1 DEF Scan!FirstOf, Parsed
  <2>3. QED
    BY <2>1, <2>2 DEF ScanInv
<1>4. QED
  BY <1>1, <1>2, <1>3 DEF Scan!Next

LEMMA ScanInvariance == PartsSpec => []ScanInv
<1>1. Scan!Spec => []ScanInv
  BY ScanInit, ScanStep, PTL DEF Scan!Spec, Scan!vars, scanVars
<1>2. QED
  BY <1>1, PartsBehave, PTL

\* A network is parsed to the addresses of it that can carry a device.
LEMMA HostsAreWanted ==
  ASSUME network \in Scan!Network
  PROVE  Scan!Hosts(network) = Scan!Wanted
<1>1. /\ network.version \in {4, 6} /\ network.base \in Nat /\ network.size \in {1, 2, 4, 8}
  BY DEF Scan!Network
<1>2. \A a \in Scan!Address : a.version \in {4, 6} /\ a.number \in Nat
  BY DEF Scan!Address
<1>3. \A a \in Scan!Address :
        a \in Scan!Hosts(network) <=>
          /\ a.version = network.version
          /\ a.number - network.base \in 0 .. network.size - 1
          /\ network.size > 2 =>
               /\ a.number # network.base
               /\ a.version = 4 => a.number # network.base + network.size - 1
  <2> SUFFICES ASSUME NEW a \in Scan!Address
               PROVE  a \in Scan!Hosts(network) <=>
                        /\ a.version = network.version
                        /\ a.number - network.base \in 0 .. network.size - 1
                        /\ network.size > 2 =>
                             /\ a.number # network.base
                             /\ a.version = 4 => a.number # network.base + network.size - 1
    OBVIOUS
  <2>1. \A v, i, j : a \in Scan!Between(v, i, j) <=> a.version = v /\ a.number \in i .. j
    BY DEF Scan!Between
  <2> DEFINE n == a.number
             b == network.base
             z == network.size
  <2>2. /\ n \in Nat /\ b \in Nat /\ z \in Nat
        /\ n - b \in 0 .. z - 1 <=> n \in b .. b + z - 1
    BY <1>1, <1>2
  <2>3. CASE z <= 2
    <3>1. a \in Scan!Hosts(network) <=> a.version = network.version /\ n \in b .. b + z - 1
      BY <2>1, <2>3 DEF Scan!Hosts
    <3>2. ~ (z > 2)
      BY <1>1, <2>3
    <3> HIDE DEF n, b, z
    <3>3. QED
      BY <2>2, <3>1, <3>2 DEF n, b, z
  <2>4. CASE z > 2
    <3>1. a \in Scan!Hosts(network) <=>
            /\ a.version = network.version
            /\ n \in b + 1 .. b + z - (IF network.version = 4 THEN 2 ELSE 1)
      BY <1>1, <2>1, <2>4 DEF Scan!Hosts
    <3>2. n \in b + 1 .. b + z - 2 <=> n - b \in 0 .. z - 1 /\ n # b /\ n # b + z - 1
      BY <2>2, <2>4
    <3>3. n \in b + 1 .. b + z - 1 <=> n - b \in 0 .. z - 1 /\ n # b
      BY <2>2, <2>4
    <3> HIDE DEF n, b, z
    <3>4. CASE network.version = 4
      BY <2>4, <3>1, <3>2, <3>4 DEF n, b, z
    <3>5. CASE network.version # 4
      BY <2>4, <3>1, <3>3, <3>5 DEF n, b, z
    <3>6. QED
      BY <3>4, <3>5
  <2>5. QED
    BY <1>1, <2>3, <2>4
<1>4. Scan!Hosts(network) \subseteq Scan!Address
  BY DEF Scan!Hosts, Scan!Between
<1>5. QED
  BY <1>3, <1>4 DEF Scan!Wanted

\* A range is parsed to all addresses from its start to its end, if the walk can
\* get there.
LEMMA RangeIsWanted ==
  ASSUME network \in Scan!AddressRange, network \notin Scan!Network, ~ Scan!Unwalkable
  PROVE  Scan!Range(network) = Scan!Wanted
<1> USE ComponentsAssumption DEF ComponentsAssumption
<1> DEFINE first == network.start
           last  == network.end
<1>1. first \in Scan!Address /\ last \in Scan!Address
  BY DEF Scan!AddressRange
<1>2. \A a \in Scan!Address : /\ a.version \in {4, 6} /\ a.number \in Nat
                              /\ a.number <= Scan!Top(a.version)
  BY DEF Scan!Address
<1>3. /\ last.number # Scan!Top(last.version)
      /\ last.version = 6 => first.number >= Top4
  BY <1>1, <1>2 DEF Scan!Unwalkable
<1> HIDE DEF first, last
<1>4. Scan!Raises(network) => first.version # last.version
  <2> SUFFICES ASSUME first.version = last.version, first.number <= last.number,
                      NEW n \in first.number + 1 .. last.number + 1
               PROVE  Scan!AddressOf(n).version = last.version /\ ~ (n > Top6)
    BY DEF Scan!Raises, first, last
  <2>1. last.number < Scan!Top(last.version) /\ first.number \in Nat /\ last.number \in Nat
    BY <1>1, <1>2, <1>3 DEF Scan!Top
  <2>2. n \in Nat /\ n <= Scan!Top(last.version)
    BY <2>1 DEF Scan!Top
  <2>3. Scan!AddressOf(n).version = IF n <= Top4 THEN 4 ELSE 6
    BY DEF Scan!AddressOf
  <2>4. CASE last.version = 4
    BY <2>2, <2>3, <2>4 DEF Scan!Top
  <2>5. CASE last.version = 6
    BY <1>3, <2>1, <2>2, <2>3, <2>5 DEF Scan!Top
  <2>6. QED
    BY <1>1, <1>2, <2>4, <2>5
<1>5. CASE first.version # last.version
  <2>1. Scan!Range(network) = {}
    BY <1>5 DEF Scan!Range, Scan!Raises, first, last
  <2>2. Scan!Wanted = {}
    BY <1>5 DEF Scan!Wanted, first, last
  <2>3. QED
    BY <2>1, <2>2
<1>6. CASE first.version = last.version
  <2>1. Scan!Range(network) = Scan!Between(last.version, first.number, last.number)
    BY <1>4, <1>6 DEF Scan!Range, first, last
  <2>2. \A a \in Scan!Address :
          a \in Scan!Range(network) <=>
            /\ a.version = first.version /\ a.version = last.version
            /\ first.number <= a.number /\ a.number <= last.number
    BY <1>1, <1>2, <1>6, <2>1 DEF Scan!Between
  <2>3. Scan!Range(network) \subseteq Scan!Address
    BY <2>1 DEF Scan!Between
  <2>4. QED
    BY <2>2, <2>3 DEF Scan!Wanted, first, last
<1>7. QED
  BY <1>5, <1>6

\* For every network and every range the walk can get to the end of: a device is
\* found exactly if it answers and is among the first addresses asked for.
THEOREM DiscoveryExact == PartsSpec => []DiscoveryIsExact
<1>1. ScanInv => DiscoveryIsExact
  <2> SUFFICES ASSUME ScanInv, stage = "answered", ~ Scan!Unwalkable
               PROVE  device \in found <=>
                        /\ answers # {} /\ device \in Scan!Wanted
                        /\ Scan!Cardinality({a \in Scan!Wanted : a.number < device.number})
                             < Limit
    BY DEF DiscoveryIsExact, Scan!DiscoveryIsExact
  <2>1. Parsed = Scan!Wanted
    BY HostsAreWanted, RangeIsWanted DEF ScanInv, Parsed
  <2>2. scanned = Scan!FirstOf(Scan!Wanted)
    BY <2>1 DEF ScanInv
  <2>3. device \in scanned <=>
          /\ device \in Scan!Wanted
          /\ Scan!Cardinality({a \in Scan!Wanted : a.number < device.number}) < Limit
    BY <2>2 DEF Scan!FirstOf
  <2>4. device \in found <=> answers # {} /\ device \in scanned
    BY DEF ScanInv
  <2>5. QED
    BY <2>3, <2>4
<1>2. QED
  BY <1>1, ScanInvariance, PTL

-----------------------------------------------------------------------------
(***************************************************************************)
(* Sums.  The fold of the community modules is a recursive function; that  *)
(* it is the number of elements of a set makes it one to reason about.     *)
(***************************************************************************)

\* A non-empty set of naturals has a least element.
LEMMA LeastNatural ==
  ASSUME NEW T \in SUBSET Nat, T # {}
  PROVE  \E n \in T : \A m \in T : n <= m
<1> DEFINE R == {p \in Nat \X Nat : p[1] < p[2]}
<1>1. IsWellFoundedOn(R, Nat)
  BY NatLessThanWellFounded, Zenon DEF OpToRel
<1>2. PICK n \in T : \A m \in T : ~ (<<m, n>> \in R)
  <2> HIDE DEF R
  <2>1. QED
    BY <1>1, WFMin
<1>3. ASSUME NEW m \in T PROVE n <= m
  <2>1. <<m, n>> \in Nat \X Nat /\ ~ (<<m, n>> \in R)
    BY <1>2
  <2>2. ~ (m < n)
    BY <2>1
  <2>3. QED
    BY <2>2
<1>4. QED
  BY <1>3

\* The partial sums of the fold.
ArePartialSums(g, f, S) ==
  g = [s \in SUBSET S |->
         IF s = {} THEN 0
         ELSE f[CHOOSE x \in s : TRUE] + g[s \ {CHOOSE x \in s : TRUE}]]

LEMMA FoldIsPartialSum ==
  ASSUME NEW f, NEW S, NEW h, ArePartialSums(h, f, S)
  PROVE  \E g : ArePartialSums(g, f, S) /\ Report!FoldFunctionOnSet(+, 0, f, S) = g[S]
<1> DEFINE iter == CHOOSE g : ArePartialSums(g, f, S)
<1>1. ArePartialSums(iter, f, S)
  BY Zenon
<1>2. Report!FoldFunctionOnSet(+, 0, f, S) = iter[S]
  BY DEF Report!FoldFunctionOnSet, Report!MapThenFoldSet, ArePartialSums
<1>3. QED
  BY <1>1, <1>2

\* f[i] blocks for each i.
Blocks(f, S) == {p \in S \X (Nat \ {0}) : p[2] <= f[p[1]]}

LEMMA BlocksFinite ==
  ASSUME NEW S, IsFiniteSet(S), NEW max \in Nat, NEW f, \A i \in S : f[i] \in 0 .. max
  PROVE  IsFiniteSet(Blocks(f, S)) /\ Cardinality(Blocks(f, S)) \in Nat
<1>1. IsFiniteSet(1 .. max)
  BY FS_Interval
<1>2. IsFiniteSet(S \X (1 .. max))
  BY <1>1, FS_Product
<1>3. Blocks(f, S) \subseteq S \X (1 .. max)
  <2>1. SUFFICES ASSUME NEW p \in Blocks(f, S) PROVE p \in S \X (1 .. max)
    OBVIOUS
  <2>2. p \in S \X (Nat \ {0}) /\ p[2] <= f[p[1]]
    BY <2>1 DEF Blocks
  <2>3. p = <<p[1], p[2]>> /\ p[1] \in S /\ p[2] \in Nat \ {0} /\ f[p[1]] \in 0 .. max
    BY <2>2
  <2>4. p[2] \in 1 .. max
    BY <2>2, <2>3
  <2>5. QED
    BY <2>3, <2>4
<1>4. QED
  BY <1>2, <1>3, FS_Subset, FS_CardinalityType

LEMMA BlocksOfOne ==
  ASSUME NEW S, IsFiniteSet(S), NEW max \in Nat, NEW f, \A i \in S : f[i] \in 0 .. max,
         NEW x \in S
  PROVE  Cardinality(Blocks(f, S)) = f[x] + Cardinality(Blocks(f, S \ {x}))
<1> DEFINE A == {x} \X (1 .. f[x])
           B == Blocks(f, S \ {x})
           n == f[x]
<1>1. n \in Nat
  OBVIOUS
<1>2. IsFiniteSet(B) /\ Cardinality(B) \in Nat
  <2>1. IsFiniteSet(S \ {x})
    BY FS_Subset
  <2>2. \A i \in S \ {x} : f[i] \in 0 .. max
    OBVIOUS
  <2>3. QED
    BY <2>1, <2>2, BlocksFinite
<1>3. IsFiniteSet(A) /\ Cardinality(A) = n
  <2> DEFINE b == [k \in 1 .. n |-> <<x, k>>]
  <2>1. b \in Bijection(1 .. n, A)
    <3>1. b \in [1 .. n -> A]
      OBVIOUS
    <3>2. \A j, k \in 1 .. n : b[j] = b[k] => j = k
      OBVIOUS
    <3>3. \A p \in A : \E k \in 1 .. n : b[k] = p
      <4>1. SUFFICES ASSUME NEW p \in A PROVE \E k \in 1 .. n : b[k] = p
        OBVIOUS
      <4>2. PICK k \in 1 .. n : p = <<x, k>>
        BY <4>1
      <4>3. QED
        BY <4>2
    <3> HIDE DEF b, A
    <3>4. b \in Injection(1 .. n, A)
      BY <3>1, <3>2 DEF Injection, IsInjective
    <3>5. b \in Surjection(1 .. n, A)
      BY <3>1, <3>3 DEF Surjection
    <3>6. QED
      BY <3>4, <3>5 DEF Bijection
  <2> HIDE DEF b, A, n
  <2>2. IsFiniteSet(1 .. n) /\ Cardinality(1 .. n) = n
    BY <1>1, FS_Interval
  <2>3. ExistsBijection(1 .. n, A)
    BY <2>1 DEF ExistsBijection
  <2>4. QED
    BY <2>2, <2>3, FS_Bijection
<1>4. Blocks(f, S) = A \union B
  <2>1. ASSUME NEW p \in Blocks(f, S) PROVE p \in A \union B
    <3>1. p \in S \X (Nat \ {0}) /\ p[2] <= f[p[1]]
      BY <2>1 DEF Blocks
    <3>2. p = <<p[1], p[2]>> /\ p[1] \in S /\ p[2] \in Nat \ {0}
      BY <3>1
    <3>3. CASE p[1] = x
      <4>1. p[2] \in 1 .. f[x]
        BY <1>1, <3>1, <3>2, <3>3
      <4>2. QED
        BY <3>2, <3>3, <4>1
    <3>4. CASE p[1] # x
      <4>1. p \in (S \ {x}) \X (Nat \ {0})
        BY <3>2, <3>4
      <4>2. QED
        BY <3>1, <4>1 DEF Blocks
    <3>5. QED
      BY <3>3, <3>4
  <2>2. ASSUME NEW p \in A PROVE p \in Blocks(f, S)
    <3>1. PICK k \in 1 .. n : p = <<x, k>>
      BY <2>2
    <3>2. k \in Nat \ {0} /\ k <= f[x]
      BY <1>1
    <3>3. QED
      BY <3>1, <3>2 DEF Blocks
  <2>3. ASSUME NEW p \in B PROVE p \in Blocks(f, S)
    BY <2>3 DEF Blocks
  <2> HIDE DEF A, B
  <2>4. QED
    BY <2>1, <2>2, <2>3
<1>5. A \intersect B = {}
  <2>1. ASSUME NEW p \in A, p \in B PROVE FALSE
    <3>1. p[1] = x
      BY <2>1
    <3>2. p[1] # x
      BY <2>1 DEF Blocks
    <3>3. QED
      BY <3>1, <3>2
  <2> HIDE DEF A, B
  <2>2. QED
    BY <2>1
<1> HIDE DEF A, B
<1>6. Cardinality(A \union B) = Cardinality(A) + Cardinality(B) - Cardinality(A \intersect B)
  BY <1>2, <1>3, FS_Union
<1>7. Cardinality(A \intersect B) = 0
  BY <1>5, FS_EmptySet
<1>8. Cardinality(Blocks(f, S)) = n + Cardinality(B)
  <2> HIDE DEF n
  <2>1. QED
    BY <1>1, <1>2, <1>3, <1>4, <1>6, <1>7
<1>9. QED
  BY <1>8 DEF B

\* The sum of f over a finite set is the number of its blocks.
LEMMA SumIsCount ==
  ASSUME NEW S, IsFiniteSet(S), NEW max \in Nat, NEW f, \A i \in S : f[i] \in 0 .. max
  PROVE  /\ IsFiniteSet(Blocks(f, S)) /\ Cardinality(Blocks(f, S)) \in Nat
         /\ Report!FoldFunctionOnSet(+, 0, f, S) = Cardinality(Blocks(f, S))
<1> DEFINE first(s) == CHOOSE x \in s : TRUE
           count(s) == Cardinality(Blocks(f, s))
           g == [s \in SUBSET S |-> count(s)]
<1>1. ASSUME NEW s \in SUBSET S
      PROVE  /\ IsFiniteSet(s) /\ Cardinality(s) \in Nat
             /\ count(s) \in Nat
             /\ s = {} => count(s) = 0
             /\ s # {} => /\ first(s) \in s /\ f[first(s)] \in Nat
                          /\ count(s) = f[first(s)] + count(s \ {first(s)})
                          /\ Cardinality(s \ {first(s)}) = Cardinality(s) - 1
  <2>1. IsFiniteSet(s) /\ Cardinality(s) \in Nat
    BY FS_Subset, FS_CardinalityType
  <2>2. \A i \in s : f[i] \in 0 .. max
    OBVIOUS
  <2>3. count(s) \in Nat
    BY <2>1, <2>2, BlocksFinite
  <2>4. s = {} => count(s) = 0
    <3>1. s = {} => Blocks(f, s) = {}
      BY DEF Blocks
    <3>2. QED
      BY <3>1, FS_EmptySet
  <2>5. ASSUME s # {}
        PROVE  /\ first(s) \in s /\ f[first(s)] \in Nat
               /\ count(s) = f[first(s)] + count(s \ {first(s)})
               /\ Cardinality(s \ {first(s)}) = Cardinality(s) - 1
    <3>1. first(s) \in s
      BY <2>5
    <3> HIDE DEF first
    <3>2. f[first(s)] \in Nat
      BY <2>2, <3>1
    <3>3. count(s) = f[first(s)] + count(s \ {first(s)})
      BY <2>1, <2>2, <3>1, BlocksOfOne
    <3>4. Cardinality(s \ {first(s)}) = Cardinality(s) - 1
      BY <2>1, <3>1, FS_RemoveElement
    <3>5. QED
      BY <3>1, <3>2, <3>3, <3>4
  <2> HIDE DEF first, count
  <2>6. QED
    BY <2>1, <2>3, <2>4, <2>5
<1>2. ArePartialSums(g, f, S)
  <2> DEFINE next == [s \in SUBSET S |->
                        IF s = {} THEN 0 ELSE f[first(s)] + g[s \ {first(s)}]]
  <2> HIDE DEF first, count
  <2>1. ASSUME NEW s \in SUBSET S PROVE g[s] = next[s]
    <3>1. s \ {first(s)} \in SUBSET S
      OBVIOUS
    <3>2. g[s] = count(s) /\ g[s \ {first(s)}] = count(s \ {first(s)})
      BY <3>1
    <3>3. next[s] = IF s = {} THEN 0 ELSE f[first(s)] + g[s \ {first(s)}]
      OBVIOUS
    <3>4. QED
      BY <1>1, <3>2, <3>3
  <2>2. g = next
    BY <2>1
  <2>3. QED
    BY <2>2 DEF ArePartialSums, first
<1>3. PICK h : ArePartialSums(h, f, S) /\ Report!FoldFunctionOnSet(+, 0, f, S) = h[S]
  <2> HIDE DEF g
  <2>1. QED
    BY <1>2, FoldIsPartialSum
<1>4. \A s \in SUBSET S :
        h[s] = IF s = {} THEN 0 ELSE f[first(s)] + h[s \ {first(s)}]
  BY <1>3 DEF ArePartialSums
<1> HIDE DEF first, count, g
<1>5. \A s \in SUBSET S : h[s] = count(s)
  <2> DEFINE Wrong == {s \in SUBSET S : h[s] # count(s)}
             sizes == {Cardinality(s) : s \in Wrong}
  <2>1. SUFFICES ASSUME Wrong # {} PROVE FALSE
    OBVIOUS
  <2>2. sizes \in SUBSET Nat /\ sizes # {}
    BY <1>1, <2>1
  <2>3. PICK n \in sizes : \A m \in sizes : n <= m
    <3> HIDE DEF sizes
    <3>1. QED
      BY <2>2, LeastNatural
  <2>4. PICK s \in Wrong : n = Cardinality(s)
    BY <2>3
  <2>5. s \in SUBSET S /\ h[s] # count(s)
    BY <2>4
  <2>6. s # {}
    BY <1>1, <1>4, <2>5
  <2>7. s \ {first(s)} \in SUBSET S
    BY <2>5
  <2>8. s \ {first(s)} \notin Wrong
    <3>1. ASSUME s \ {first(s)} \in Wrong PROVE FALSE
      <4>1. Cardinality(s \ {first(s)}) \in sizes
        BY <3>1
      <4>2. n <= Cardinality(s \ {first(s)})
        BY <2>3, <4>1
      <4>3. Cardinality(s \ {first(s)}) = n - 1 /\ n \in Nat
        BY <1>1, <2>4, <2>5, <2>6
      <4>4. QED
        BY <4>2, <4>3
    <3>2. QED
      BY <3>1
  <2>9. h[s \ {first(s)}] = count(s \ {first(s)})
    BY <2>7, <2>8
  <2>10. h[s] = f[first(s)] + h[s \ {first(s)}]
    BY <1>4, <2>5, <2>6
  <2>11. count(s) = f[first(s)] + count(s \ {first(s)})
    BY <1>1, <2>5, <2>6
  <2>12. QED
    BY <2>5, <2>9, <2>10, <2>11
<1>6. S \in SUBSET S
  OBVIOUS
<1>7. Report!FoldFunctionOnSet(+, 0, f, S) = Cardinality(Blocks(f, S))
  BY <1>3, <1>5, <1>6 DEF count
<1>8. QED
  BY <1>7, BlocksFinite

-----------------------------------------------------------------------------
(***************************************************************************)
(* AvailabilityReport.                                                     *)
(***************************************************************************)
\* When an incident ended, or now.
End(inc) == IF inc.resolved = Report!Never THEN now ELSE inc.resolved

\* The variables keep their types; the hours counted so far are past.
ReportTypes ==
  /\ now \in 1 .. MaxTime
  /\ down \in BOOLEAN /\ hidden \in BOOLEAN /\ twice \in BOOLEAN
  /\ incidents \in Seq(Report!Incident) /\ Len(incidents) <= MaxIncidents
  /\ downHours \subseteq 1 .. now - 1
  /\ amended \subseteq DOMAIN incidents

\* An incident that nobody amended is open until it is resolved.
IncidentsInv ==
  \A i \in DOMAIN incidents :
    /\ incidents[i].open <=> incidents[i].resolved = Report!Never
    /\ incidents[i].detected <= End(incidents[i]) /\ End(incidents[i]) <= now

\* The device is DOWN throughout each outage, and the outages are apart unless
\* two processes have announced one.
OutagesInv ==
  \A i \in DOMAIN incidents : incidents[i].outage =>
    /\ \A t \in Nat : incidents[i].detected <= t /\ t < End(incidents[i]) => t \in downHours
    /\ incidents[i].open => down
    /\ \A j \in DOMAIN incidents : ~ twice /\ i < j /\ incidents[j].outage =>
         ~ incidents[i].open /\ incidents[i].resolved <= incidents[j].detected

\* Unless an outage was without its incident, each hour is one of an outage.
CoveredInv ==
  ~ hidden =>
    /\ \A t \in downHours : \E i \in DOMAIN incidents :
         incidents[i].outage /\ incidents[i].detected <= t /\ t < End(incidents[i])
    /\ down => \E i \in DOMAIN incidents : incidents[i].outage /\ incidents[i].open

ReportInv ==
  ReportTypes /\ (amended = {} => IncidentsInv /\ OutagesInv /\ CoveredInv)

LEMMA SequenceDomain ==
  ASSUME NEW S, NEW s \in Seq(S)
  PROVE  Len(s) \in Nat /\ DOMAIN s = 1 .. Len(s)
OBVIOUS

LEMMA FunctionIsSequence ==
  ASSUME NEW S, NEW n \in Nat, NEW s \in [1 .. n -> S]
  PROVE  s \in Seq(S) /\ Len(s) = n
OBVIOUS

LEMMA NowIsATime ==
  ASSUME ReportTypes
  PROVE  now \in Report!Never .. MaxTime /\ now \in Nat \ {0} /\ now # Report!Never
BY ComponentsAssumption DEF ReportTypes, Report!Never, ComponentsAssumption

LEMMA ReportInit == Report!Init => ReportInv
<1> SUFFICES ASSUME Report!Init PROVE ReportInv
  OBVIOUS
<1>1. /\ now = 1 /\ down = FALSE /\ incidents = << >>
      /\ downHours = {} /\ amended = {} /\ hidden = FALSE /\ twice = FALSE
  BY DEF Report!Init
<1>2. ReportTypes
  <2>1. << >> \in Seq(Report!Incident) /\ Len(<< >>) = 0
    OBVIOUS
  <2>2. QED
    <3>1. now \in 1 .. MaxTime
      BY <1>1, ComponentsAssumption DEF ComponentsAssumption
    <3>2. Len(incidents) <= MaxIncidents
      BY <1>1, <2>1, ComponentsAssumption DEF ComponentsAssumption
    <3>3. QED
      BY <1>1, <2>1, <3>1, <3>2 DEF ReportTypes
<1>3. IncidentsInv /\ OutagesInv /\ CoveredInv
  BY <1>1 DEF IncidentsInv, OutagesInv, CoveredInv
<1>4. QED
  BY <1>2, <1>3 DEF ReportInv

\* An incident, field by field.
LEMMA IncidentFields ==
  ASSUME ReportTypes, NEW i \in DOMAIN incidents
  PROVE  /\ i \in Nat \ {0} /\ i <= Len(incidents)
         /\ incidents[i] \in Report!Incident
         /\ incidents[i].outage \in BOOLEAN /\ incidents[i].open \in BOOLEAN
         /\ incidents[i].detected \in Nat /\ incidents[i].resolved \in Nat
         /\ now \in Nat \ {0} /\ End(incidents[i]) \in Nat
<1>1. i \in Nat \ {0} /\ i <= Len(incidents) /\ incidents[i] \in Report!Incident
  BY DEF ReportTypes
<1>2. now \in Nat \ {0}
  BY ComponentsAssumption DEF ReportTypes, ComponentsAssumption
<1>3. /\ incidents[i].outage \in BOOLEAN /\ incidents[i].open \in BOOLEAN
      /\ incidents[i].detected \in Nat /\ incidents[i].resolved \in Nat
  BY <1>1, ComponentsAssumption DEF Report!Incident, Report!Never, ComponentsAssumption
<1>4. End(incidents[i]) \in Nat
  BY <1>2, <1>3 DEF End
<1>5. QED
  BY <1>1, <1>2, <1>3, <1>4

\* A new incident is the last one.
LEMMA OpenedFacts ==
  ASSUME ReportTypes, NEW outage \in BOOLEAN, incidents' = Report!Opened(outage),
         now' = now, Len(incidents) < MaxIncidents, NEW last, last = Len(incidents) + 1
  PROVE  /\ incidents' \in Seq(Report!Incident) /\ Len(incidents') <= MaxIncidents
         /\ DOMAIN incidents' = DOMAIN incidents \union {last}
         /\ \A i \in DOMAIN incidents :
              incidents'[i] = incidents[i] /\ End(incidents[i])' = End(incidents[i])
         /\ incidents'[last] = [outage |-> outage, open |-> TRUE, detected |-> now,
                                resolved |-> Report!Never]
         /\ End(incidents[last])' = now
<1> DEFINE new == [outage |-> outage, open |-> TRUE, detected |-> now,
                   resolved |-> Report!Never]
<1>1. new \in Report!Incident
  BY ComponentsAssumption DEF ReportTypes, Report!Incident, Report!Never, ComponentsAssumption
<1>2. incidents' = Append(incidents, new)
  BY DEF Report!Opened
<1>3. new.resolved = Report!Never
  OBVIOUS
<1> HIDE DEF new
<1>4. /\ incidents' \in Seq(Report!Incident) /\ Len(incidents') = Len(incidents) + 1
      /\ \A i \in DOMAIN incidents : incidents'[i] = incidents[i]
      /\ incidents'[last] = new
      /\ DOMAIN incidents' = DOMAIN incidents \union {last}
  BY <1>1, <1>2 DEF ReportTypes
<1>5. \A i \in DOMAIN incidents : End(incidents[i])' = End(incidents[i])
  BY <1>4 DEF End
<1>6. End(incidents[last])' = now
  BY <1>3, <1>4 DEF End
<1>7. Len(incidents') <= MaxIncidents
  BY <1>4, ComponentsAssumption DEF ReportTypes, ComponentsAssumption
<1>8. QED
  BY <1>4, <1>5, <1>6, <1>7 DEF new

\* Incidents that are resolved now stay incidents.
LEMMA ResolvedTypes ==
  ASSUME ReportTypes, NEW W,
         incidents' =
           [i \in DOMAIN incidents |->
              IF i \in W
              THEN [incidents[i] EXCEPT !.open = FALSE, !.resolved = now]
              ELSE incidents[i]]
  PROVE  /\ incidents' \in Seq(Report!Incident) /\ Len(incidents') = Len(incidents)
         /\ DOMAIN incidents' = DOMAIN incidents
         /\ \A i \in DOMAIN incidents :
              /\ incidents'[i].outage = incidents[i].outage
              /\ incidents'[i].detected = incidents[i].detected
              /\ incidents'[i].open <=> incidents[i].open /\ i \notin W
              /\ incidents'[i].resolved = IF i \in W THEN now ELSE incidents[i].resolved
<1>0. incidents \in Seq(Report!Incident)
  BY DEF ReportTypes
<1>1. /\ DOMAIN incidents' = DOMAIN incidents
      /\ DOMAIN incidents = 1 .. Len(incidents) /\ Len(incidents) \in Nat
  <2>1. DOMAIN incidents' = DOMAIN incidents
    OBVIOUS
  <2>2. DOMAIN incidents = 1 .. Len(incidents) /\ Len(incidents) \in Nat
    BY <1>0, SequenceDomain
  <2>3. QED
    BY <2>1, <2>2
<1>2. ASSUME NEW i \in DOMAIN incidents
      PROVE  /\ incidents'[i] \in Report!Incident
             /\ incidents'[i].outage = incidents[i].outage
             /\ incidents'[i].detected = incidents[i].detected
             /\ incidents'[i].open <=> incidents[i].open /\ i \notin W
             /\ incidents'[i].resolved = IF i \in W THEN now ELSE incidents[i].resolved
  <2>1. CASE i \in W
    <3>1. incidents'[i] = [incidents[i] EXCEPT !.open = FALSE, !.resolved = now]
      BY <2>1
    <3>2. incidents[i] \in Report!Incident
      BY IncidentFields
    <3>3. /\ incidents'[i] \in Report!Incident
          /\ incidents'[i].outage = incidents[i].outage
          /\ incidents'[i].detected = incidents[i].detected
          /\ incidents'[i].open = FALSE /\ incidents'[i].resolved = now
      BY <3>1, <3>2, NowIsATime DEF Report!Incident
    <3>4. QED
      BY <2>1, <3>3
  <2>2. CASE i \notin W
    <3>1. incidents'[i] = incidents[i]
      BY <2>2
    <3>2. QED
      BY <2>2, <3>1, IncidentFields
  <2>3. QED
    BY <2>1, <2>2
<1>3. incidents' \in Seq(Report!Incident) /\ Len(incidents') = Len(incidents)
  <2>1. incidents' = [i \in 1 .. Len(incidents) |-> incidents'[i]]
    BY <1>1
  <2>2. \A i \in 1 .. Len(incidents) : incidents'[i] \in Report!Incident
    BY <1>1, <1>2
  <2>3. incidents' \in [1 .. Len(incidents) -> Report!Incident]
    BY <2>1, <2>2
  <2>4. QED
    BY <1>1, <2>3, FunctionIsSequence
<1>4. QED
  BY <1>1, <1>2, <1>3

\* An hour passes: it belongs to the outage that is open, if there is one.
LEMMA TickStep == ASSUME ReportInv, Report!Tick PROVE ReportInv'
<1>1. /\ now < MaxTime /\ now' = now + 1
      /\ downHours' = IF down THEN downHours \union {now} ELSE downHours
      /\ UNCHANGED <<down, incidents, amended, hidden, twice>>
  BY DEF Report!Tick
<1>2. ReportTypes /\ now \in Nat \ {0} /\ now \in 1 .. MaxTime /\ downHours \subseteq 1 .. now - 1
  BY ComponentsAssumption DEF ReportInv, ReportTypes, ComponentsAssumption
<1>3. ReportTypes'
  <2>1. now' \in 1 .. MaxTime
    BY <1>1, <1>2, ComponentsAssumption DEF ComponentsAssumption
  <2>2. downHours' \subseteq 1 .. now' - 1
    BY <1>1, <1>2
  <2>3. QED
    BY <1>1, <1>2, <2>1, <2>2 DEF ReportTypes
<1>4. SUFFICES ASSUME amended = {} PROVE IncidentsInv' /\ OutagesInv' /\ CoveredInv'
  BY <1>1, <1>3 DEF ReportInv
<1>5. IncidentsInv /\ OutagesInv /\ CoveredInv
  BY <1>4 DEF ReportInv
<1>6. ASSUME NEW i \in DOMAIN incidents
      PROVE  /\ incidents[i].outage \in BOOLEAN /\ incidents[i].open \in BOOLEAN
             /\ incidents[i].detected \in Nat /\ incidents[i].resolved \in Nat
             /\ End(incidents[i]) \in Nat
             /\ incidents[i].detected <= End(incidents[i]) /\ End(incidents[i]) <= now
             /\ incidents[i].open => End(incidents[i]) = now
             /\ End(incidents[i])' = IF incidents[i].open THEN now + 1 ELSE End(incidents[i])
  <2>1. incidents[i].open <=> incidents[i].resolved = Report!Never
    BY <1>5 DEF IncidentsInv
  <2>2. incidents[i].open => End(incidents[i]) = now
    BY <2>1 DEF End
  <2>3. End(incidents[i])' = IF incidents[i].open THEN now + 1 ELSE End(incidents[i])
    BY <1>1, <2>1 DEF End
  <2>4. QED
    BY <1>2, <1>5, <2>2, <2>3, IncidentFields DEF IncidentsInv
<1>7. IncidentsInv'
  <2>1. SUFFICES ASSUME NEW i \in DOMAIN incidents
                 PROVE  /\ incidents[i].open <=> incidents[i].resolved = Report!Never
                        /\ incidents[i].detected <= End(incidents[i])'
                        /\ End(incidents[i])' <= now'
    BY <1>1 DEF IncidentsInv
  <2>2. incidents[i].open <=> incidents[i].resolved = Report!Never
    BY <1>5 DEF IncidentsInv
  <2>3. incidents[i].detected <= End(incidents[i])' /\ End(incidents[i])' <= now'
    BY <1>1, <1>2, <1>6
  <2>4. QED
    BY <2>2, <2>3
<1>8. OutagesInv'
  <2>1. ASSUME NEW i \in DOMAIN incidents, incidents[i].outage, NEW t \in Nat,
               incidents[i].detected <= t, t < End(incidents[i])'
        PROVE  t \in downHours'
    <3>1. CASE t < End(incidents[i])
      BY <1>1, <1>5, <2>1, <3>1 DEF OutagesInv
    <3>2. CASE ~ (t < End(incidents[i]))
      <4>1. incidents[i].open /\ t = now
        BY <1>2, <1>6, <2>1, <3>2
      <4>2. down
        BY <1>5, <2>1, <4>1 DEF OutagesInv
      <4>3. QED
        BY <1>1, <4>1, <4>2
    <3>3. QED
      BY <3>1, <3>2
  <2>2. QED
    BY <1>1, <1>5, <2>1 DEF OutagesInv
<1>9. CoveredInv'
  <2>1. SUFFICES ASSUME ~ hidden
                 PROVE  /\ \A t \in downHours' : \E i \in DOMAIN incidents :
                             /\ incidents[i].outage /\ incidents[i].detected <= t
                             /\ t < End(incidents[i])'
                        /\ down => \E i \in DOMAIN incidents :
                                     incidents[i].outage /\ incidents[i].open
    BY <1>1 DEF CoveredInv
  <2>2. ASSUME NEW t \in downHours'
        PROVE  \E i \in DOMAIN incidents :
                 /\ incidents[i].outage /\ incidents[i].detected <= t
                 /\ t < End(incidents[i])'
    <3>1. CASE t \in downHours
      <4>1. PICK i \in DOMAIN incidents :
              incidents[i].outage /\ incidents[i].detected <= t /\ t < End(incidents[i])
        BY <1>5, <2>1, <3>1 DEF CoveredInv
      <4>2. t \in Nat
        BY <1>2, <3>1
      <4>3. t < End(incidents[i])'
        BY <1>2, <1>6, <4>1, <4>2
      <4>4. QED
        BY <4>1, <4>3
    <3>2. CASE t \notin downHours
      <4>1. down /\ t = now
        BY <1>1, <2>2, <3>2
      <4>2. PICK i \in DOMAIN incidents : incidents[i].outage /\ incidents[i].open
        BY <1>5, <2>1, <4>1 DEF CoveredInv
      <4>3. incidents[i].detected <= t /\ t < End(incidents[i])'
        BY <1>2, <1>6, <4>1, <4>2
      <4>4. QED
        BY <4>2, <4>3
    <3>3. QED
      BY <3>1, <3>2
  <2>3. QED
    BY <1>5, <2>1, <2>2 DEF CoveredInv
<1>10. QED
  BY <1>7, <1>8, <1>9

\* An incident is opened, for an outage that begins now or has begun, or for
\* something else.
LEMMA OpenStep ==
  ASSUME ReportInv, NEW outage \in BOOLEAN,
         Len(incidents) < MaxIncidents, incidents' = Report!Opened(outage),
         down' = (down \/ outage), down' \in BOOLEAN,
         twice' \in BOOLEAN, twice => twice',
         outage => \/ ~ down \/ twice'
                   \/ \A i \in DOMAIN incidents :
                        ~ (incidents[i].outage /\ incidents[i].open),
         UNCHANGED <<now, downHours, amended, hidden>>
  PROVE  ReportInv'
<1>1. PICK last : last = Len(incidents) + 1
  OBVIOUS
<1>2. ReportTypes /\ now' = now
  BY DEF ReportInv
<1>3. /\ incidents' \in Seq(Report!Incident) /\ Len(incidents') <= MaxIncidents
      /\ DOMAIN incidents' = DOMAIN incidents \union {last}
      /\ \A i \in DOMAIN incidents :
           incidents'[i] = incidents[i] /\ End(incidents[i])' = End(incidents[i])
      /\ incidents'[last] = [outage |-> outage, open |-> TRUE, detected |-> now,
                             resolved |-> Report!Never]
      /\ End(incidents[last])' = now
  BY <1>1, <1>2, OpenedFacts
<1>4. ReportTypes'
  BY <1>2, <1>3 DEF ReportTypes
<1>5. SUFFICES ASSUME amended = {} PROVE IncidentsInv' /\ OutagesInv' /\ CoveredInv'
  BY <1>4 DEF ReportInv
<1>6. IncidentsInv /\ OutagesInv /\ CoveredInv
  BY <1>5 DEF ReportInv
<1>7. now \in Nat \ {0} /\ last \in Nat /\ \A i \in DOMAIN incidents : i \in Nat /\ i < last
  <2>1. Len(incidents) \in Nat /\ now \in Nat \ {0}
    BY <1>2, ComponentsAssumption DEF ReportTypes, ComponentsAssumption
  <2>2. QED
    BY <1>1, <1>2, <2>1, IncidentFields
<1>8. /\ incidents'[last].outage = outage /\ incidents'[last].open = TRUE
      /\ incidents'[last].detected = now /\ incidents'[last].resolved = Report!Never
  BY <1>3
<1>9. IncidentsInv'
  <2>1. ASSUME NEW i \in DOMAIN incidents'
        PROVE  /\ incidents'[i].open <=> incidents'[i].resolved = Report!Never
               /\ incidents'[i].detected <= End(incidents[i])'
               /\ End(incidents[i])' <= now'
    <3>1. CASE i = last
      <4>1. /\ incidents'[i].open = TRUE /\ incidents'[i].detected = now
            /\ incidents'[i].resolved = Report!Never
            /\ End(incidents[i])' = now /\ now' = now /\ now \in Nat
        BY <1>2, <1>3, <1>7, <1>8, <3>1
      <4>2. QED
        BY <4>1
    <3>2. CASE i # last
      <4>1. i \in DOMAIN incidents
        BY <1>3, <3>2
      <4>2. /\ incidents[i].open <=> incidents[i].resolved = Report!Never
            /\ incidents[i].detected <= End(incidents[i]) /\ End(incidents[i]) <= now
        BY <1>6, <4>1 DEF IncidentsInv
      <4>3. QED
        BY <1>2, <1>3, <4>1, <4>2
    <3>3. QED
      BY <3>1, <3>2
  <2>2. QED
    BY <2>1 DEF IncidentsInv
<1>10. OutagesInv'
  <2>1. ASSUME NEW i \in DOMAIN incidents', incidents'[i].outage
        PROVE  /\ \A t \in Nat : incidents'[i].detected <= t /\ t < End(incidents[i])'
                    => t \in downHours'
               /\ incidents'[i].open => down'
               /\ \A j \in DOMAIN incidents' : ~ twice' /\ i < j /\ incidents'[j].outage =>
                    ~ incidents'[i].open /\ incidents'[i].resolved <= incidents'[j].detected
    <3>1. CASE i = last
      <4>1. outage /\ down'
        BY <1>8, <2>1, <3>1
      <4>2. ~ \E t \in Nat : now <= t /\ t < now
        BY <1>7
      <4>3. \A j \in DOMAIN incidents' : ~ (i < j)
        BY <1>3, <1>7, <3>1
      <4>4. QED
        BY <1>3, <1>8, <3>1, <4>1, <4>2, <4>3
    <3>2. CASE i # last
      <4>1. /\ i \in DOMAIN incidents /\ incidents'[i] = incidents[i]
            /\ End(incidents[i])' = End(incidents[i])
        BY <1>3, <2>1, <3>2
      <4>2. /\ \A t \in Nat : incidents[i].detected <= t /\ t < End(incidents[i])
                 => t \in downHours
            /\ incidents[i].open => down
            /\ \A j \in DOMAIN incidents : ~ twice /\ i < j /\ incidents[j].outage =>
                 ~ incidents[i].open /\ incidents[i].resolved <= incidents[j].detected
        BY <1>6, <2>1, <4>1 DEF OutagesInv
      <4>3. ASSUME NEW j \in DOMAIN incidents', ~ twice', i < j, incidents'[j].outage
            PROVE  ~ incidents'[i].open /\ incidents'[i].resolved <= incidents'[j].detected
        <5>1. CASE j = last
          <6>1. ~ incidents[i].open
            BY <1>8, <2>1, <4>1, <4>2, <4>3, <5>1
          <6>2. incidents[i].resolved <= now
            BY <1>6, <4>1, <6>1 DEF IncidentsInv, End
          <6>3. QED
            BY <1>8, <4>1, <5>1, <6>1, <6>2
        <5>2. CASE j # last
          BY <1>3, <4>1, <4>2, <4>3, <5>2
        <5>3. QED
          BY <5>1, <5>2
      <4>4. QED
        BY <4>1, <4>2, <4>3
    <3>3. QED
      BY <3>1, <3>2
  <2>2. QED
    BY <2>1 DEF OutagesInv
<1>11. CoveredInv'
  <2>1. SUFFICES ASSUME ~ hidden
                 PROVE  /\ \A t \in downHours : \E i \in DOMAIN incidents' :
                             /\ incidents'[i].outage /\ incidents'[i].detected <= t
                             /\ t < End(incidents[i])'
                        /\ down' => \E i \in DOMAIN incidents' :
                                      incidents'[i].outage /\ incidents'[i].open
    BY DEF CoveredInv
  <2>2. \A t \in downHours : \E i \in DOMAIN incidents :
          incidents[i].outage /\ incidents[i].detected <= t /\ t < End(incidents[i])
    BY <1>6, <2>1 DEF CoveredInv
  <2>3. down' => \E i \in DOMAIN incidents' : incidents'[i].outage /\ incidents'[i].open
    <3>1. CASE outage
      BY <1>3, <1>8, <3>1
    <3>2. CASE ~ outage
      BY <1>3, <1>6, <2>1, <3>2 DEF CoveredInv
    <3>3. QED
      BY <3>1, <3>2
  <2>4. QED
    BY <1>3, <2>2, <2>3
<1>12. QED
  BY <1>9, <1>10, <1>11

\* Incidents are resolved.  If the device stays DOWN, none of an outage is,
\* unless that is recorded.
LEMMA ResolveStep ==
  ASSUME ReportInv, NEW W,
         incidents' =
           [i \in DOMAIN incidents |->
              IF i \in W
              THEN [incidents[i] EXCEPT !.open = FALSE, !.resolved = now]
              ELSE incidents[i]],
         \A i \in W : i \in DOMAIN incidents /\ incidents[i].open,
         UNCHANGED <<now, downHours, amended, twice>>,
         down' \in BOOLEAN, hidden' \in BOOLEAN, down' => down, hidden => hidden',
         down /\ ~ down' => \A i \in DOMAIN incidents : incidents[i].open => i \in W,
         down' /\ ~ hidden' => \A i \in W : ~ incidents[i].outage
  PROVE  ReportInv'
<1>1. ReportTypes /\ now' = now
  BY DEF ReportInv
<1>2. /\ incidents' \in Seq(Report!Incident) /\ Len(incidents') = Len(incidents)
      /\ DOMAIN incidents' = DOMAIN incidents
      /\ \A i \in DOMAIN incidents :
           /\ incidents'[i].outage = incidents[i].outage
           /\ incidents'[i].detected = incidents[i].detected
           /\ incidents'[i].open <=> incidents[i].open /\ i \notin W
           /\ incidents'[i].resolved = IF i \in W THEN now ELSE incidents[i].resolved
  BY <1>1, ResolvedTypes
<1>3. ReportTypes'
  BY <1>1, <1>2 DEF ReportTypes
<1>4. SUFFICES ASSUME amended = {} PROVE IncidentsInv' /\ OutagesInv' /\ CoveredInv'
  BY <1>3 DEF ReportInv
<1>5. now \in Nat \ {0} /\ now # Report!Never
  BY <1>1, NowIsATime
<1>6. IncidentsInv /\ OutagesInv /\ CoveredInv
  BY <1>4 DEF ReportInv
<1>7. ASSUME NEW i \in DOMAIN incidents PROVE End(incidents[i])' = End(incidents[i])
  <2>1. incidents[i].open <=> incidents[i].resolved = Report!Never
    BY <1>6 DEF IncidentsInv
  <2>2. incidents'[i].resolved = IF i \in W THEN now ELSE incidents[i].resolved
    BY <1>2
  <2>3. i \in W => incidents[i].open
    OBVIOUS
  <2>4. QED
    BY <1>1, <1>5, <2>1, <2>2, <2>3 DEF End
<1>8. IncidentsInv'
  <2>1. ASSUME NEW i \in DOMAIN incidents
        PROVE  /\ incidents'[i].open <=> incidents'[i].resolved = Report!Never
               /\ incidents'[i].detected <= End(incidents[i])'
               /\ End(incidents[i])' <= now'
    <3>1. /\ incidents[i].open <=> incidents[i].resolved = Report!Never
          /\ incidents[i].detected <= End(incidents[i]) /\ End(incidents[i]) <= now
      BY <1>6 DEF IncidentsInv
    <3>2. incidents[i].open \in BOOLEAN /\ (i \in W => incidents[i].open)
      BY <1>1, IncidentFields
    <3>3. incidents'[i].open <=> incidents'[i].resolved = Report!Never
      <4>1. /\ incidents'[i].open <=> incidents[i].open /\ i \notin W
            /\ incidents'[i].resolved = IF i \in W THEN now ELSE incidents[i].resolved
        BY <1>2
      <4>2. CASE i \in W
        BY <1>5, <4>1, <4>2
      <4>3. CASE i \notin W
        BY <3>1, <4>1, <4>3
      <4>4. QED
        BY <4>2, <4>3
    <3>4. incidents'[i].detected <= End(incidents[i])' /\ End(incidents[i])' <= now'
      BY <1>1, <1>2, <1>7, <3>1
    <3>5. QED
      BY <3>3, <3>4
  <2>2. QED
    BY <1>2, <2>1 DEF IncidentsInv
<1>9. OutagesInv'
  <2>1. ASSUME NEW i \in DOMAIN incidents, incidents[i].outage
        PROVE  /\ \A t \in Nat : incidents'[i].detected <= t /\ t < End(incidents[i])'
                    => t \in downHours'
               /\ incidents'[i].open => down'
               /\ \A j \in DOMAIN incidents : ~ twice /\ i < j /\ incidents'[j].outage =>
                    ~ incidents'[i].open /\ incidents'[i].resolved <= incidents'[j].detected
    <3>1. /\ \A t \in Nat : incidents[i].detected <= t /\ t < End(incidents[i])
               => t \in downHours
          /\ incidents[i].open => down
          /\ \A j \in DOMAIN incidents : ~ twice /\ i < j /\ incidents[j].outage =>
               ~ incidents[i].open /\ incidents[i].resolved <= incidents[j].detected
      BY <1>6, <2>1 DEF OutagesInv
    <3>2. QED
      BY <1>2, <1>7, <3>1
  <2>2. QED
    BY <1>2, <2>1 DEF OutagesInv
<1>10. CoveredInv'
  <2>1. SUFFICES ASSUME ~ hidden'
                 PROVE  /\ \A t \in downHours : \E i \in DOMAIN incidents :
                             /\ incidents'[i].outage /\ incidents'[i].detected <= t
                             /\ t < End(incidents[i])'
                        /\ down' => \E i \in DOMAIN incidents :
                                      incidents'[i].outage /\ incidents'[i].open
    <3>1. DOMAIN incidents' = DOMAIN incidents
      BY <1>2
    <3>2. QED
      BY <3>1 DEF CoveredInv
  <2>2. /\ \A t \in downHours : \E i \in DOMAIN incidents :
             incidents[i].outage /\ incidents[i].detected <= t /\ t < End(incidents[i])
        /\ down => \E i \in DOMAIN incidents : incidents[i].outage /\ incidents[i].open
    BY <1>6, <2>1 DEF CoveredInv
  <2>3. ASSUME down'
        PROVE  \E i \in DOMAIN incidents : incidents'[i].outage /\ incidents'[i].open
    <3>1. PICK i \in DOMAIN incidents : incidents[i].outage /\ incidents[i].open
      BY <2>2, <2>3
    <3>2. i \notin W
      BY <2>1, <2>3, <3>1
    <3>3. QED
      BY <1>2, <3>1, <3>2
  <2>4. ASSUME NEW t \in downHours
        PROVE  \E i \in DOMAIN incidents :
                 /\ incidents'[i].outage /\ incidents'[i].detected <= t
                 /\ t < End(incidents[i])'
    <3>1. PICK i \in DOMAIN incidents :
            incidents[i].outage /\ incidents[i].detected <= t /\ t < End(incidents[i])
      BY <2>2
    <3>2. /\ incidents'[i].outage /\ incidents'[i].detected <= t
          /\ t < End(incidents[i])'
      BY <1>2, <1>7, <3>1
    <3>3. QED
      BY <3>2
  <2>5. QED
    BY <2>3, <2>4
<1>11. QED
  BY <1>8, <1>9, <1>10

LEMMA ReportStep == ASSUME ReportInv, [Report!Next]_reportVars PROVE ReportInv'
<1>1. ReportTypes
  BY DEF ReportInv
<1>2. CASE Report!Tick
  BY <1>2, TickStep
<1>3. CASE Report!GoesDown
  <2>1. /\ ~ down /\ Len(incidents) < MaxIncidents /\ down' = TRUE
        /\ UNCHANGED <<now, downHours, amended, twice>> /\ twice \in BOOLEAN
    BY <1>1, <1>3 DEF ReportTypes, Report!GoesDown
  <2>2. CASE incidents' = Report!Opened(TRUE) /\ UNCHANGED hidden
    BY <2>1, <2>2, OpenStep
  <2>3. CASE hidden' = TRUE /\ UNCHANGED incidents
    <3>1. ReportTypes'
      BY <1>1, <2>1, <2>3 DEF ReportTypes
    <3>2. ASSUME amended = {} PROVE IncidentsInv' /\ OutagesInv' /\ CoveredInv'
      <4>1. IncidentsInv /\ OutagesInv
        BY <3>2 DEF ReportInv
      <4>2. now' = now /\ incidents' = incidents /\ downHours' = downHours /\ hidden' = TRUE
        BY <2>1, <2>3
      <4>3. IncidentsInv'
        BY <4>1, <4>2 DEF IncidentsInv, End
      <4>4. OutagesInv'
        BY <2>1, <4>1, <4>2 DEF OutagesInv, End
      <4>5. CoveredInv'
        BY <4>2 DEF CoveredInv
      <4>6. QED
        BY <4>3, <4>4, <4>5
    <3>3. QED
      BY <2>1, <3>1, <3>2 DEF ReportInv
  <2>4. QED
    BY <1>3, <2>2, <2>3 DEF Report!GoesDown
<1>4. CASE Report!Recovers
  <2>1. /\ down /\ down' = FALSE /\ incidents' = Report!Recovered
        /\ UNCHANGED <<now, downHours, amended, hidden, twice>>
    BY <1>4 DEF Report!Recovers
  <2> DEFINE W == {i \in DOMAIN incidents : incidents[i].open}
  <2>2. incidents' =
          [i \in DOMAIN incidents |->
             IF i \in W
             THEN [incidents[i] EXCEPT !.open = FALSE, !.resolved = now]
             ELSE incidents[i]]
    BY <2>1 DEF Report!Recovered
  <2>3. /\ \A i \in W : i \in DOMAIN incidents /\ incidents[i].open
        /\ \A i \in DOMAIN incidents : incidents[i].open => i \in W
    OBVIOUS
  <2>4. hidden \in BOOLEAN
    BY <1>1 DEF ReportTypes
  <2> HIDE DEF W
  <2>5. QED
    BY <2>1, <2>2, <2>3, <2>4, ResolveStep
<1>5. CASE Report!OtherIncident
  <2>1. /\ Len(incidents) < MaxIncidents /\ incidents' = Report!Opened(FALSE)
        /\ UNCHANGED <<now, down, downHours, amended, hidden, twice>>
    BY <1>5 DEF Report!OtherIncident
  <2>2. down \in BOOLEAN /\ twice \in BOOLEAN
    BY <1>1 DEF ReportTypes
  <2>3. QED
    BY <2>1, <2>2, OpenStep
<1>6. ASSUME NEW k \in DOMAIN incidents, Report!Resolve(k) PROVE ReportInv'
  <2>1. /\ incidents[k].open
        /\ incidents' = [incidents EXCEPT ![k].open = FALSE, ![k].resolved = now]
        /\ hidden' = (hidden \/ incidents[k].outage)
        /\ UNCHANGED <<now, down, downHours, amended, twice>>
    BY <1>6 DEF Report!Resolve
  <2> DEFINE W == {k}
  <2>2. incidents' =
          [i \in DOMAIN incidents |->
             IF i \in W
             THEN [incidents[i] EXCEPT !.open = FALSE, !.resolved = now]
             ELSE incidents[i]]
    BY <2>1
  <2>3. /\ \A i \in W : i \in DOMAIN incidents /\ incidents[i].open
        /\ ~ hidden' => \A i \in W : ~ incidents[i].outage
    BY <2>1
  <2>4. down \in BOOLEAN /\ hidden' \in BOOLEAN /\ (hidden => hidden')
    BY <1>1, <2>1, IncidentFields DEF ReportTypes
  <2> HIDE DEF W
  <2>5. QED
    BY <2>1, <2>2, <2>3, <2>4, ResolveStep
<1>7. ASSUME NEW k \in DOMAIN incidents, Report!Amend(k) PROVE ReportInv'
  <2>1. /\ \/ incidents' = [incidents EXCEPT ![k].resolved = now]
           \/ incidents' = [incidents EXCEPT ![k].open = TRUE]
        /\ amended' = amended \union {k} /\ UNCHANGED <<now, down, downHours, hidden, twice>>
    BY <1>7 DEF Report!Amend
  <2>2. /\ incidents' \in Seq(Report!Incident) /\ Len(incidents') = Len(incidents)
        /\ DOMAIN incidents' = DOMAIN incidents
    <3>1. /\ [incidents[k] EXCEPT !.resolved = now] \in Report!Incident
          /\ [incidents[k] EXCEPT !.open = TRUE] \in Report!Incident
      BY <1>1, IncidentFields, NowIsATime DEF Report!Incident
    <3>2. PICK x \in Report!Incident : incidents' = [incidents EXCEPT ![k] = x]
      BY <2>1, <3>1
    <3>3. incidents \in Seq(Report!Incident)
      BY <1>1 DEF ReportTypes
    <3>4. QED
      BY <3>2, <3>3
  <2>3. amended' # {}
    BY <2>1
  <2>4. ReportTypes'
    BY <1>1, <2>1, <2>2 DEF ReportTypes
  <2>5. QED
    BY <2>3, <2>4 DEF ReportInv
<1>8. CASE UNCHANGED reportVars
  BY <1>8 DEF reportVars, ReportInv, ReportTypes, IncidentsInv, OutagesInv, CoveredInv, End
<1>9. CASE Report!FoundDownAgain
  <2>1. /\ down /\ Len(incidents) < MaxIncidents /\ incidents' = Report!Opened(TRUE)
        /\ UNCHANGED <<now, down, downHours, amended, hidden>>
        /\ twice' = (twice \/ \E i \in DOMAIN incidents :
                                 incidents[i].outage /\ incidents[i].open)
    BY <1>9 DEF Report!FoundDownAgain
  <2>2. twice' \in BOOLEAN /\ (twice => twice') /\ down \in BOOLEAN
    BY <1>1, <2>1 DEF ReportTypes
  <2>3. twice' \/ \A i \in DOMAIN incidents : ~ (incidents[i].outage /\ incidents[i].open)
    BY <2>1
  <2>4. QED
    BY <2>1, <2>2, <2>3, OpenStep
<1>10. QED
  BY <1>2, <1>3, <1>4, <1>5, <1>6, <1>7, <1>8, <1>9 DEF Report!Next

LEMMA ReportInvariance == PartsSpec => []ReportInv
<1>1. Report!Spec => []ReportInv
  BY ReportInit, ReportStep, PTL DEF Report!Spec, Report!vars, reportVars
<1>2. QED
  BY <1>1, PartsBehave, PTL

\* The downtime that the report counts, as blocks: one for each incident and
\* hour of it.
Charged(hours) ==
  Blocks([i \in DOMAIN incidents |-> Report!Downtime(incidents[i], hours)],
         Report!Counted(hours))

\* The hours of the period that the device was DOWN in.
Suffered(hours) == {t \in downHours : t >= now - hours}

\* What counts of an incident of the period is how long it lasted.
LEMMA CountedFacts ==
  ASSUME ReportInv, amended = {}, NEW hours \in 1 .. now, NEW i \in Report!Counted(hours)
  PROVE  /\ i \in DOMAIN incidents
         /\ incidents[i].detected \in Nat /\ End(incidents[i]) \in Nat
         /\ Report!Downtime(incidents[i], hours) =
              End(incidents[i]) - incidents[i].detected
         /\ Report!Downtime(incidents[i], hours) \in 0 .. MaxTime
         /\ incidents[i].detected >= now - hours
<1>1. i \in DOMAIN incidents /\ incidents[i].detected >= now - hours
  BY DEF Report!Counted, Report!InPeriod
<1>2. ReportTypes /\ IncidentsInv
  BY DEF ReportInv
<1>3. /\ incidents[i].detected \in Nat /\ End(incidents[i]) \in Nat /\ now \in Nat
      /\ incidents[i].detected <= End(incidents[i]) /\ End(incidents[i]) <= now
      /\ now <= MaxTime /\ MaxTime \in Nat
  BY <1>1, <1>2, IncidentFields, ComponentsAssumption
     DEF IncidentsInv, ReportTypes, ComponentsAssumption
<1>4. Report!Larger(incidents[i].detected, now - hours) = incidents[i].detected
  BY <1>1, <1>3 DEF Report!Larger
<1>5. Report!Downtime(incidents[i], hours) =
        Report!Larger(End(incidents[i]) - incidents[i].detected, 0)
  BY <1>4 DEF Report!Downtime, End
<1>6. Report!Downtime(incidents[i], hours) = End(incidents[i]) - incidents[i].detected
  BY <1>3, <1>5 DEF Report!Larger
<1>7. QED
  BY <1>1, <1>3, <1>6

\* The report counts blocks.
LEMMA DowntimeIsCount ==
  ASSUME ReportInv, amended = {}, NEW hours \in 1 .. now
  PROVE  /\ IsFiniteSet(Charged(hours)) /\ Cardinality(Charged(hours)) \in Nat
         /\ Report!DowntimeHours(hours) = Cardinality(Charged(hours))
         /\ \A p \in Charged(hours) :
              /\ p = <<p[1], p[2]>> /\ p[1] \in Report!Counted(hours)
              /\ p[2] \in Nat \ {0}
              /\ p[2] <= End(incidents[p[1]]) - incidents[p[1]].detected
         /\ \A i \in Report!Counted(hours) : \A k \in Nat \ {0} :
              k <= End(incidents[i]) - incidents[i].detected => <<i, k>> \in Charged(hours)
<1> DEFINE S == Report!Counted(hours)
           f == [i \in DOMAIN incidents |-> Report!Downtime(incidents[i], hours)]
<1>1. IsFiniteSet(S)
  <2>1. DOMAIN incidents = 1 .. Len(incidents) /\ Len(incidents) \in Nat
    BY SequenceDomain DEF ReportInv, ReportTypes
  <2>2. IsFiniteSet(DOMAIN incidents)
    BY <2>1, FS_Interval
  <2>3. S \subseteq DOMAIN incidents
    BY DEF Report!Counted
  <2>4. QED
    BY <2>2, <2>3, FS_Subset
<1>2. \A i \in S : f[i] \in 0 .. MaxTime
                   /\ f[i] = End(incidents[i]) - incidents[i].detected
  BY CountedFacts
<1>3. MaxTime \in Nat
  BY ComponentsAssumption DEF ComponentsAssumption
<1>4. Report!DowntimeHours(hours) = Report!FoldFunctionOnSet(+, 0, f, S)
  BY DEF Report!DowntimeHours
<1>5. Charged(hours) = Blocks(f, S)
  BY DEF Charged
<1> HIDE DEF S, f
<1>6. /\ IsFiniteSet(Blocks(f, S)) /\ Cardinality(Blocks(f, S)) \in Nat
      /\ Report!FoldFunctionOnSet(+, 0, f, S) = Cardinality(Blocks(f, S))
  BY <1>1, <1>2, <1>3, SumIsCount
<1>7. ASSUME NEW p \in Blocks(f, S)
      PROVE  /\ p = <<p[1], p[2]>> /\ p[1] \in S
             /\ p[2] \in Nat \ {0}
             /\ p[2] <= End(incidents[p[1]]) - incidents[p[1]].detected
  <2>1. p = <<p[1], p[2]>> /\ p[1] \in S /\ p[2] \in Nat \ {0} /\ p[2] <= f[p[1]]
    BY <1>7 DEF Blocks
  <2>2. QED
    BY <1>2, <2>1
<1>8. ASSUME NEW i \in S, NEW k \in Nat \ {0},
             k <= End(incidents[i]) - incidents[i].detected
      PROVE  <<i, k>> \in Blocks(f, S)
  <2>1. k <= f[i]
    BY <1>2, <1>8
  <2>2. QED
    BY <2>1 DEF Blocks
<1>9. QED
  BY <1>4, <1>5, <1>6, <1>7, <1>8 DEF S

\* There are no more hours of the period than the period has.
LEMMA SufferedFacts ==
  ASSUME ReportInv, NEW hours \in 1 .. now
  PROVE  /\ IsFiniteSet(Suffered(hours)) /\ Cardinality(Suffered(hours)) \in Nat
         /\ Cardinality(Suffered(hours)) <= hours
         /\ hours \in Nat /\ now \in Nat
         /\ Report!TrueUptime(hours) = hours - Cardinality(Suffered(hours))
<1>1. now \in Nat /\ hours \in Nat /\ downHours \subseteq 1 .. now - 1
  BY NowIsATime DEF ReportInv, ReportTypes
<1> DEFINE first == now - hours
           last  == now - 1
<1>2. first \in Int /\ last \in Int /\ ~ (first > last) /\ last - first + 1 = hours
  BY <1>1
<1>3. Suffered(hours) \subseteq first .. last
  <2>1. SUFFICES ASSUME NEW t \in downHours, t >= now - hours PROVE t \in first .. last
    BY DEF Suffered
  <2>2. t \in 1 .. now - 1
    BY <1>1
  <2>3. QED
    BY <1>1, <2>1, <2>2
<1> HIDE DEF first, last
<1>4. IsFiniteSet(first .. last) /\ Cardinality(first .. last) = hours
  BY <1>2, FS_Interval
<1>5. /\ IsFiniteSet(Suffered(hours)) /\ Cardinality(Suffered(hours)) \in Nat
      /\ Cardinality(Suffered(hours)) <= hours
  BY <1>3, <1>4, FS_Subset, FS_CardinalityType
<1>6. Report!TrueUptime(hours) = hours - Cardinality(Suffered(hours))
  BY DEF Report!TrueUptime, Suffered, Report!Cardinality, Cardinality
<1>7. QED
  BY <1>1, <1>5, <1>6

\* If all incidents are outages and the outages are apart, each block is an hour
\* of its own.
LEMMA ChargedWasSuffered ==
  ASSUME ReportInv, amended = {}, NEW hours \in 1 .. now, ~ twice,
         \A i \in DOMAIN incidents : incidents[i].outage
  PROVE  Cardinality(Charged(hours)) <= Cardinality(Suffered(hours))
<1> DEFINE P == Charged(hours)
           D == Suffered(hours)
           hour == [p \in P |-> incidents[p[1]].detected + p[2] - 1]
<1>1. ReportTypes /\ IncidentsInv /\ OutagesInv
  BY DEF ReportInv
<1>2. ASSUME NEW p \in P
      PROVE  /\ p = <<p[1], p[2]>> /\ p[1] \in DOMAIN incidents
             /\ p[1] \in Nat /\ p[2] \in Nat
             /\ hour[p] \in Nat
             /\ incidents[p[1]].detected \in Nat /\ End(incidents[p[1]]) \in Nat
             /\ incidents[p[1]].detected <= hour[p] /\ hour[p] < End(incidents[p[1]])
             /\ hour[p] >= now - hours /\ hour[p] = incidents[p[1]].detected + p[2] - 1
  <2>1. /\ p = <<p[1], p[2]>> /\ p[1] \in Report!Counted(hours) /\ p[2] \in Nat \ {0}
        /\ p[2] <= End(incidents[p[1]]) - incidents[p[1]].detected
    BY DowntimeIsCount
  <2>2. /\ p[1] \in DOMAIN incidents
        /\ incidents[p[1]].detected \in Nat /\ End(incidents[p[1]]) \in Nat
        /\ incidents[p[1]].detected >= now - hours
    BY <2>1, CountedFacts
  <2>3. p[1] \in Nat /\ now \in Nat /\ hours \in Nat
    BY <1>1, <2>2, IncidentFields
  <2>4. hour[p] = incidents[p[1]].detected + p[2] - 1
    OBVIOUS
  <2> HIDE DEF hour
  <2>5. QED
    BY <2>1, <2>2, <2>3, <2>4
<1>3. ASSUME NEW p \in P PROVE hour[p] \in D
  <2>1. hour[p] \in downHours
    BY <1>1, <1>2 DEF OutagesInv
  <2>2. QED
    BY <1>2, <2>1 DEF Suffered
<1>4. ASSUME NEW p \in P, NEW q \in P, hour[p] = hour[q] PROVE p = q
  <2>1. ASSUME NEW i \in DOMAIN incidents, NEW j \in DOMAIN incidents, i < j, NEW t \in Nat,
               incidents[i].detected <= t, t < End(incidents[i]),
               incidents[j].detected <= t
        PROVE  FALSE
    <3>1. ~ incidents[i].open /\ incidents[i].resolved <= incidents[j].detected
      BY <1>1, <2>1 DEF OutagesInv
    <3>2. End(incidents[i]) = incidents[i].resolved
      BY <1>1, <3>1 DEF IncidentsInv, End
    <3>3. incidents[i].resolved \in Nat /\ incidents[j].detected \in Nat
      BY <1>1, IncidentFields
    <3>4. QED
      BY <2>1, <3>1, <3>2, <3>3
  <2>2. ~ (p[1] < q[1])
    BY <1>2, <1>4, <2>1
  <2>3. ~ (q[1] < p[1])
    BY <1>2, <1>4, <2>1
  <2>4. p[1] = q[1]
    BY <1>2, <2>2, <2>3
  <2>5. p[2] = q[2]
    <3>1. /\ hour[p] = incidents[p[1]].detected + p[2] - 1
          /\ hour[q] = incidents[p[1]].detected + q[2] - 1
          /\ incidents[p[1]].detected \in Nat /\ p[2] \in Nat /\ q[2] \in Nat
      BY <1>2, <2>4
    <3>2. hour[p] = hour[q]
      BY <1>4
    <3> HIDE DEF hour, P, D
    <3>3. QED
      BY <3>1, <3>2
  <2>6. QED
    BY <1>2, <2>4, <2>5
<1>5. hour \in Injection(P, D)
  <2>1. hour \in [P -> D]
    BY <1>3
  <2> HIDE DEF hour, P, D
  <2>2. QED
    BY <1>4, <2>1 DEF Injection, IsInjective
<1>6. IsFiniteSet(D)
  BY SufferedFacts
<1> HIDE DEF hour, P, D
<1>7. Cardinality(P) <= Cardinality(D)
  BY <1>5, <1>6, FS_Injection
<1>8. QED
  BY <1>7 DEF P, D

\* If no outage is without its incident, and none reaches in from before the
\* period, each hour has a block of its own.
LEMMA SufferedIsCharged ==
  ASSUME ReportInv, amended = {}, NEW hours \in 1 .. now, ~ hidden,
         \A i \in DOMAIN incidents : ~ Report!ReachesIn(incidents[i], hours)
  PROVE  Cardinality(Suffered(hours)) <= Cardinality(Charged(hours))
<1> DEFINE P == Charged(hours)
           D == Suffered(hours)
           In(i, t) == /\ incidents[i].outage /\ incidents[i].detected <= t
                       /\ t < End(incidents[i])
           cause(t) == CHOOSE i \in DOMAIN incidents : In(i, t)
           block == [t \in D |-> <<cause(t), t - incidents[cause(t)].detected + 1>>]
<1>1. ReportTypes /\ IncidentsInv /\ CoveredInv
  BY DEF ReportInv
<1>2. ASSUME NEW t \in D
      PROVE  /\ t \in Nat /\ cause(t) \in DOMAIN incidents /\ In(cause(t), t)
             /\ t >= now - hours
  <2>1. t \in downHours /\ t >= now - hours
    BY <1>2 DEF Suffered
  <2>2. t \in Nat
    BY <1>1, <2>1, NowIsATime DEF ReportTypes
  <2>3. \E i \in DOMAIN incidents : In(i, t)
    BY <1>1, <2>1 DEF CoveredInv
  <2> HIDE DEF In
  <2>4. QED
    BY <2>1, <2>2, <2>3
<1>3. ASSUME NEW t \in D
      PROVE  /\ cause(t) \in Report!Counted(hours)
             /\ incidents[cause(t)].detected \in Nat
             /\ block[t] = <<cause(t), t - incidents[cause(t)].detected + 1>>
             /\ block[t] \in P
  <2> DEFINE i == cause(t)
  <2>1. /\ t \in Nat /\ i \in DOMAIN incidents /\ In(i, t) /\ t >= now - hours
        /\ block[t] = <<i, t - incidents[i].detected + 1>>
    BY <1>2
  <2> HIDE DEF i, block
  <2>2. /\ incidents[i].detected \in Nat /\ End(incidents[i]) \in Nat
        /\ incidents[i].resolved \in Nat /\ now \in Nat /\ hours \in Nat
    BY <1>1, <2>1, IncidentFields
  <2>3. incidents[i].detected >= now - hours
    <3>1. ASSUME incidents[i].detected < now - hours PROVE FALSE
      <4>1. incidents[i].resolved = Report!Never \/ incidents[i].resolved > now - hours
        BY <2>1, <2>2 DEF End
      <4>2. Report!ReachesIn(incidents[i], hours)
        BY <2>1, <3>1, <4>1 DEF Report!ReachesIn
      <4>3. QED
        BY <2>1, <4>2
    <3>2. QED
      BY <2>2, <3>1
  <2>4. i \in Report!Counted(hours)
    BY <2>1, <2>3 DEF Report!Counted, Report!InPeriod
  <2>5. /\ t - incidents[i].detected + 1 \in Nat \ {0}
        /\ t - incidents[i].detected + 1 <= End(incidents[i]) - incidents[i].detected
    BY <2>1, <2>2
  <2>6. block[t] \in P
    BY <2>1, <2>4, <2>5, DowntimeIsCount
  <2>7. QED
    BY <2>1, <2>2, <2>4, <2>6 DEF i
<1>4. ASSUME NEW t \in D, NEW u \in D, block[t] = block[u] PROVE t = u
  <2> HIDE DEF block, cause, D
  <2>1. /\ cause(t) = cause(u)
        /\ t - incidents[cause(t)].detected + 1 = u - incidents[cause(u)].detected + 1
    BY <1>3, <1>4
  <2>2. t \in Nat /\ u \in Nat /\ incidents[cause(t)].detected \in Nat
    BY <1>2, <1>3
  <2>3. QED
    BY <2>1, <2>2
<1>5. block \in Injection(D, P)
  <2>1. block \in [D -> P]
    BY <1>3
  <2> HIDE DEF block, P, D
  <2>2. QED
    BY <1>4, <2>1 DEF Injection, IsInjective
<1>6. IsFiniteSet(P)
  BY DowntimeIsCount
<1> HIDE DEF block, P, D
<1>7. Cardinality(D) <= Cardinality(P)
  BY <1>5, <1>6, FS_Injection
<1>8. QED
  BY <1>7 DEF P, D

LEMMA ReportInvExact == ASSUME ReportInv PROVE ReportIsExact
<1> SUFFICES ASSUME NEW hours \in 1 .. now, amended = {}
             PROVE  /\ (~ twice /\ \A i \in DOMAIN incidents : incidents[i].outage)
                         => Report!Uptime(hours) >= Report!TrueUptime(hours)
                    /\ (~ hidden /\ \A i \in DOMAIN incidents :
                                      ~ Report!ReachesIn(incidents[i], hours))
                         => Report!Uptime(hours) <= Report!TrueUptime(hours)
  BY DEF ReportIsExact, Report!ReportIsExact
<1> DEFINE charged == Cardinality(Charged(hours))
           suffered == Cardinality(Suffered(hours))
<1>1. /\ charged \in Nat /\ suffered \in Nat /\ suffered <= hours /\ hours \in Nat
      /\ Report!TrueUptime(hours) = hours - suffered
      /\ Report!DowntimeHours(hours) = charged
  BY DowntimeIsCount, SufferedFacts
<1>2. (~ twice /\ \A i \in DOMAIN incidents : incidents[i].outage) => charged <= suffered
  BY ChargedWasSuffered
<1>3. (~ hidden /\ \A i \in DOMAIN incidents : ~ Report!ReachesIn(incidents[i], hours))
      => suffered <= charged
  BY SufferedIsCharged
<1> HIDE DEF charged, suffered
<1>4. Report!Uptime(hours) = IF 0 > hours - charged THEN 0 ELSE hours - charged
  BY <1>1 DEF Report!Uptime, Report!Larger
<1>5. charged <= suffered => Report!Uptime(hours) >= Report!TrueUptime(hours)
  BY <1>1, <1>4
<1>6. suffered <= charged => Report!Uptime(hours) <= Report!TrueUptime(hours)
  BY <1>1, <1>4
<1>7. QED
  BY <1>2, <1>3, <1>5, <1>6

\* For any incidents and any times: the report is never lower than the uptime
\* there was if all incidents are outages and no two processes have announced the
\* same one, and never higher if each outage has its incident and none reaches in
\* from before the period.  (As long as no resolved incident is amended.)
THEOREM ReportExact == PartsSpec => []ReportIsExact
<1>1. ReportInv => ReportIsExact
  BY ReportInvExact
<1>2. QED
  BY <1>1, ReportInvariance, PTL

LEMMA ReportTypesSuffice == ASSUME ReportInv PROVE Report!TypeOK
<1>1. ReportTypes
  BY DEF ReportInv
<1>2. MaxTime \in Nat /\ MaxIncidents \in Nat
  BY ComponentsAssumption DEF ComponentsAssumption
<1>3. now \in 1 .. MaxTime /\ {down, hidden, twice} \subseteq BOOLEAN /\ amended \subseteq DOMAIN incidents
  BY <1>1 DEF ReportTypes
<1>4. ASSUME NEW i \in DOMAIN incidents
      PROVE  i <= MaxIncidents /\ incidents[i] \in Report!Incident
  <2>1. i \in Nat /\ i <= Len(incidents) /\ incidents[i] \in Report!Incident
    BY <1>1, IncidentFields
  <2>2. Len(incidents) \in Nat /\ Len(incidents) <= MaxIncidents
    BY <1>1, SequenceDomain DEF ReportTypes
  <2>3. QED
    BY <1>2, <2>1, <2>2
<1>5. downHours \subseteq 1 .. MaxTime
  BY <1>1, <1>2, <1>3 DEF ReportTypes
<1>6. QED
  BY <1>3, <1>4, <1>5 DEF Report!TypeOK

\* The rank of an address among those of its version tells them apart: no more
\* than Limit of them are the first Limit.
LEMMA FirstOfIsShort ==
  ASSUME NEW A \in SUBSET Scan!Address, \A a, b \in A : a.version = b.version
  PROVE  /\ Scan!FirstOf(A) \subseteq A
         /\ Scan!Cardinality(Scan!FirstOf(A)) <= Limit
<1> USE ComponentsAssumption DEF ComponentsAssumption
<1> DEFINE below(a) == {b \in A : b.number < a.number}
           F == Scan!FirstOf(A)
           rank == [a \in F |-> Cardinality(below(a))]
           number == [a \in A |-> a.number]
<1>1. \A a \in A : /\ a.number \in 0 .. Top6 /\ a.number \in Nat
                   /\ a = [version |-> a.version, number |-> a.number]
  BY DEF Scan!Address
<1>2. IsFiniteSet(A)
  <2>1. number \in [A -> 0 .. Top6]
    BY <1>1
  <2>2. \A a, b \in A : number[a] = number[b] => a = b
    BY <1>1
  <2>3. IsFiniteSet(0 .. Top6)
    BY FS_Interval
  <2> HIDE DEF number
  <2>4. number \in Injection(A, 0 .. Top6)
    BY <2>1, <2>2 DEF Injection, IsInjective
  <2>5. QED
    BY <2>3, <2>4, FS_Injection
<1>3. F \subseteq A /\ \A a \in F : Cardinality(below(a)) < Limit
  BY DEF Scan!FirstOf, Scan!Cardinality, Cardinality
<1>4. ASSUME NEW a \in A
      PROVE  IsFiniteSet(below(a)) /\ Cardinality(below(a)) \in Nat
  BY <1>2, FS_Subset, FS_CardinalityType
<1>5. ASSUME NEW a \in A, NEW b \in A, a.number < b.number
      PROVE  Cardinality(below(a)) # Cardinality(below(b))
  <2>1. below(a) \subseteq below(b)
    BY <1>1, <1>5
  <2>2. a \in below(b) /\ a \notin below(a)
    BY <1>1, <1>5
  <2>3. IsFiniteSet(below(b))
    BY <1>4
  <2> HIDE DEF below
  <2>4. QED
    BY <2>1, <2>2, <2>3, FS_Subset
<1> HIDE DEF below, F
<1>6. ASSUME NEW a \in F, NEW b \in F, rank[a] = rank[b] PROVE a = b
  <2>1. a \in A /\ b \in A /\ Cardinality(below(a)) = Cardinality(below(b))
    BY <1>3, <1>6
  <2>2. ~ (a.number < b.number) /\ ~ (b.number < a.number)
    BY <1>5, <2>1
  <2>3. a.number = b.number /\ a.version = b.version
    BY <1>1, <2>1, <2>2
  <2>4. QED
    BY <1>1, <2>1, <2>3
<1>7. rank \in [F -> 0 .. Limit - 1]
  BY <1>3, <1>4
<1>8. IsFiniteSet(0 .. Limit - 1) /\ Cardinality(0 .. Limit - 1) = Limit
  <2> DEFINE last == Limit - 1
  <2>1. last \in Int /\ (0 > last <=> Limit = 0) /\ last - 0 + 1 = Limit
    OBVIOUS
  <2> HIDE DEF last
  <2>2. IsFiniteSet(0 .. last) /\ Cardinality(0 .. last) = IF 0 > last THEN 0 ELSE last - 0 + 1
    BY <2>1, FS_Interval
  <2>3. QED
    BY <2>1, <2>2 DEF last
<1>9. Cardinality(F) <= Limit
  <2> HIDE DEF rank
  <2>1. rank \in Injection(F, 0 .. Limit - 1)
    BY <1>6, <1>7 DEF Injection, IsInjective
  <2>2. QED
    BY <1>8, <2>1, FS_Injection
<1>10. QED
  BY <1>3, <1>9 DEF F, Scan!Cardinality, Cardinality

\* A request is parsed to addresses of one version.
LEMMA ParsedIsOfOneVersion ==
  /\ Parsed \subseteq Scan!Address
  /\ \A a, b \in Parsed : a.version = b.version
BY DEF Parsed, Scan!Hosts, Scan!Range, Scan!Between

LEMMA ScanTypes == ASSUME ScanInv PROVE Scan!TypeOK
<1>1. Scan!FirstOf(Parsed) \subseteq Parsed /\ Scan!Cardinality(Scan!FirstOf(Parsed)) <= Limit
  BY ParsedIsOfOneVersion, FirstOfIsShort
<1>2. Scan!Cardinality({}) = 0
  BY FS_EmptySet DEF Scan!Cardinality, Cardinality
<1>3. scanned \subseteq Scan!Address /\ Scan!Cardinality(scanned) <= Limit
  BY <1>1, <1>2, ParsedIsOfOneVersion, ComponentsAssumption DEF ScanInv, ComponentsAssumption
<1>4. found \subseteq scanned
  BY DEF ScanInv
<1>5. QED
  BY <1>3, <1>4 DEF ScanInv, Scan!TypeOK

-----------------------------------------------------------------------------
(***************************************************************************)
(* All of them together, as the run checks them.                           *)
(***************************************************************************)

\* Whether or not it is the replicas that move, they keep their invariant.
LEMMA ReplicasInvariance == PartsSpec => [](Settings /\ Inv /\ ToldInv) /\ [][Next]_vars
<1>1. Settings
  BY ComponentsAssumption DEF Settings, ComponentsAssumption
<1>2. ASSUME PartsInit PROVE Inv /\ ToldInv
  <2>1. CASE Init
    BY <1>1, <2>1, InitInv, InitToldInv
  <2>2. CASE ReplicasRest
    <3>1. TypeOK
      BY <1>1, <2>2, RowTypes DEF TypeOK, Settings, ReplicasRest
    <3>2. CycleInv /\ LockInv /\ DownIsAnnounced
      BY <2>2 DEF CycleInv, LockInv, HoldsLock, DownIsAnnounced, Sleeping, ReplicasRest, Up
    <3>3. ToldInv
      <4>1. Workers # {}
        BY ComponentsAssumption DEF ComponentsAssumption
      <4>2. SaidInv
        BY <2>2 DEF SaidInv, Sleeping, ReplicasRest, Up
      <4>3. OutageIsKnown /\ RecoveryIsKnown
        BY <2>2, <4>1 DEF OutageIsKnown, RecoveryIsKnown, Sleeping, ReplicasRest, Up
      <4>4. QED
        BY <4>2, <4>3 DEF ToldInv
    <3>4. QED
      BY <3>1, <3>2, <3>3 DEF Inv
  <2>3. QED
    BY <1>2, <2>1, <2>2 DEF PartsInit
<1>3. [PartsNext]_partsVars => [Next]_vars
  BY DEF PartsNext, partsVars, ReplicasMove, ServicesMove, UpsertsMove, ReportMoves,
         RestartsMove, ScanMoves
<1>4. Inv /\ ToldInv /\ [Next]_vars => (Inv /\ ToldInv)'
  BY <1>1, NextInv, NextToldInv
<1>5. QED
  BY <1>1, <1>2, <1>3, <1>4, PTL DEF PartsSpec

\* The variables of all components keep their types, whatever their numbers.
THEOREM PartsTypeCorrect == PartsSpec => []PartsTypeOK
<1>1. PartsSpec => [](part \in Parts)
  <2>1. PartsInit => part \in Parts
    BY DEF PartsInit
  <2>2. part \in Parts /\ [PartsNext]_partsVars => (part \in Parts)'
    BY DEF PartsNext, partsVars, ReplicasMove, ServicesMove, UpsertsMove, ReportMoves,
           RestartsMove, ScanMoves
  <2>3. QED
    BY <2>1, <2>2, PTL DEF PartsSpec
<1>2. Inv => TypeOK
  BY DEF Inv
<1>3. Services!Spec => []ServiceFacts!Inv
  BY SameServices, ServiceFacts!Invariance, ComponentsAssumption DEF ComponentsAssumption
<1>4. ServiceFacts!Inv => Services!TypeOK
  BY DEF ServiceFacts!Inv, ServiceFacts!TypeOK, Services!TypeOK,
     ServiceFacts!Row, Services!Row, ServiceFacts!Absent, Services!Absent,
     ServiceFacts!Deleted, Services!Deleted, ServiceFacts!ServiceCheckStatus,
     Services!ServiceCheckStatus, ServiceFacts!ServiceCheckType, Services!ServiceCheckType
<1>5. Upserts!Spec => []UpsertFacts!Inv
  BY SameUpserts, UpsertFacts!Invariance, ComponentsAssumption
     DEF ComponentsAssumption, IsFiniteSet, UpsertFacts!IsFiniteSet
<1>6. UpsertFacts!Inv => Upserts!TypeOK
  BY DEF UpsertFacts!Inv, UpsertFacts!TypeOK, Upserts!TypeOK, UpsertFacts!Keep,
     Upserts!Keep, UpsertFacts!Looked, Upserts!Looked, UpsertFacts!Served,
     Upserts!Served, UpsertFacts!AlertThreshold, Upserts!AlertThreshold
<1>7. ReportInv => Report!TypeOK
  BY ReportTypesSuffice
<1>8. RestartsInv => Restarts!TypeOK
  BY DEF RestartsInv
<1>9. ScanInv => Scan!TypeOK
  BY ScanTypes
<1>10. QED
  BY <1>1, <1>2, <1>3, <1>4, <1>5, <1>6, <1>7, <1>8, <1>9, ReplicasInvariance, PartsBehave,
     ReportInvariance, RestartsInvariance, ScanInvariance, PTL DEF PartsTypeOK

\* What the run checks of the replicas: for any number of monitors, no committed
\* DOWN is without an incident, some process has told its clients what is
\* committed, and the commit of UP resolves what is open.
THEOREM ReplicasSafe ==
  PartsSpec => []DownIsAnnounced /\ []SomeoneWasTold /\ RecoveryClosesAll
<1> DEFINE Closed ==
      \A w \in Workers :
        /\ cycle[w].at = "locking" /\ cycle[w].seen.status # "unknown"
        /\ row.status # "up" /\ row'.status = "up"
        => open' = {}
<1>1. Settings /\ Inv /\ ToldInv => DownIsAnnounced /\ SomeoneWasTold
  BY DEF Inv, ToldInv, OutageIsKnown, RecoveryIsKnown, SomeoneWasTold
<1>2. Settings /\ Inv /\ [Next]_vars => [Closed]_vars
  BY UpStep DEF Next, Step, Load, CheckSucceeds, CheckRaises, CheckFails, Rollback, Flip
<1>3. RecoveryClosesAll <=> [][Closed]_vars
  BY DEF RecoveryClosesAll
<1>4. QED
  BY <1>1, <1>2, <1>3, ReplicasInvariance, PTL
=============================================================================
