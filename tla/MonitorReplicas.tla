--------------------------- MODULE MonitorReplicas ---------------------------
(***************************************************************************)
(* Several uvicorn workers (Dockerfile: --workers 2).  Each process runs a *)
(* NetworkMonitorWorker of its own over the same rows and a ws_manager of  *)
(* its own for the clients that are connected to it.                       *)
(*                                                                         *)
(* One device without a parent that does not flap; Monitor has the         *)
(* hierarchy, the flapping and one worker.                                 *)
(* A cycle loads the row, awaits the probes, decides, and commits.  The    *)
(* session writes a column only if it differs from what was loaded, and    *)
(* PostgreSQL locks the row from the first UPDATE to the commit: a check   *)
(* that succeeds updates the row (last_seen) before it looks for open      *)
(* incidents, one that fails updates it when the cycle commits.            *)
(***************************************************************************)
EXTENDS NetworkModel, FiniteSets

CONSTANTS
  Workers,         \* the processes
  DownThreshold,   \* settings.DOWN_THRESHOLD
  Ids,             \* bound: unresolved incidents that are told apart
  MaxFaults        \* bound: restarts and checks that raise

VARIABLES
  row,      \* the committed row of the device
  open,     \* committed unresolved incidents
  cycle,    \* the cycle each worker is in
  alive,    \* does the device answer?
  told,     \* history: the status last broadcast to the clients of a process
  firstUp,  \* history: a cycle that had loaded UNKNOWN has made the row UP
  faults    \* history: restarts and checks that raised

vars == <<row, open, cycle, alive, told, firstUp, faults>>

Row == [status : DeviceStatus \ {"maintenance"}, failures : 0 .. DownThreshold]

Cycle == [at : {"idle", "probing", "locking", "raised", "failing", "announcing"},
          seen : Row, new : Row, closes : SUBSET Ids]

Fresh == [status |-> "unknown", failures |-> 0]

Sleeping == [at |-> "idle", seen |-> Fresh, new |-> Fresh, closes |-> {}]

Init ==
  /\ row = Fresh
  /\ open = {}
  /\ cycle = [w \in Workers |-> Sleeping]
  /\ alive \in BOOLEAN
  /\ told = [w \in Workers |-> "nothing"]
  /\ firstUp = FALSE
  /\ faults = 0

\* A session that never writes the counter.
MergedStatus(w) ==
  [row EXCEPT !.status = IF cycle[w].new.status = cycle[w].seen.status THEN @
                         ELSE cycle[w].new.status]

\* The UPDATE of a check that succeeds, raise as it may afterwards.
HoldsLock(w) == cycle[w].at \in {"locking", "raised"}

\* The committed row with the columns the session of w has changed.  A failed
\* check always changes the counter, which the code does not saturate.
Merged(w) ==
  LET c == cycle[w] IN
  [status   |-> IF c.new.status = c.seen.status THEN row.status ELSE c.new.status,
   failures |-> IF HoldsLock(w) /\ c.seen.failures = 0 THEN row.failures
                ELSE c.new.failures]

\* No UPDATE of another session waits for its commit.
RowIsFree == \A w \in Workers : ~ HoldsLock(w)

Load(w) ==
  /\ cycle[w].at = "idle"
  /\ cycle' = [cycle EXCEPT ![w] = [Sleeping EXCEPT !.at = "probing",
                                                    !.seen = row, !.new = row]]
  /\ UNCHANGED <<row, open, alive, told, firstUp, faults>>

\* The incidents of the device, open or not resolved at the last look.
ClosesNothing(w) == {}

\* Recovery: the incidents to resolve, if the device was not UP when loaded.
Closes(w) == IF cycle[w].seen.status \in {"down", "degraded"} THEN open ELSE {}

Up == [status |-> "up", failures |-> 0]

CheckSucceeds(w) ==
  /\ cycle[w].at = "probing" /\ alive /\ RowIsFree
  /\ cycle' = [cycle EXCEPT ![w].at = "locking", ![w].new = Up,
                            ![w].closes = Closes(w)]
  /\ told' = IF cycle[w].seen.status \in {"down", "degraded"}
             THEN [told EXCEPT ![w] = "up"] ELSE told
  /\ UNCHANGED <<row, open, alive, firstUp, faults>>

\* After the UPDATE something in the check raises, which gather swallows: a
\* query, a second open threshold incident, a broadcast.
CheckRaises(w) ==
  /\ cycle[w].at = "probing" /\ alive /\ RowIsFree
  /\ faults < MaxFaults
  /\ faults' = faults + 1
  /\ cycle' = [cycle EXCEPT ![w].at = "raised", ![w].new = Up]
  /\ UNCHANGED <<row, open, alive, told, firstUp>>

\* An outage left to the process that has committed it first.
GoesDownForRow(w, status) == status = "down" /\ row.status # "down"

\* An outage announced to clients that have not been told of one already.
GoesDownOnce(w, status) == GoesDownForRow(w, status) /\ told[w] # "down"

GoesDown(w, status) == status = "down" /\ cycle[w].seen.status # "down"

\* The broadcast comes before the commit, and goes to the clients of w only.
CheckFails(w) ==
  LET failures == Bump(cycle[w].seen.failures, DownThreshold)
      status   == IF failures >= DownThreshold THEN "down" ELSE "degraded"
  IN
  /\ cycle[w].at = "probing" /\ ~ alive
  /\ cycle' = [cycle EXCEPT
       ![w].at  = IF GoesDown(w, status) THEN "announcing" ELSE "failing",
       ![w].new = [status |-> status, failures |-> failures]]
  /\ told' = IF GoesDown(w, status) THEN [told EXCEPT ![w] = "down"] ELSE told
  /\ UNCHANGED <<row, open, alive, firstUp, faults>>

Opens(i) == (i \notin open \/ open = Ids) /\ open' = open \union {i}

\* The new incident is inserted by the same commit.
Commit(w) ==
  /\ \/ HoldsLock(w)
     \/ cycle[w].at \in {"failing", "announcing"} /\ RowIsFree
  /\ row' = Merged(w)
  /\ firstUp' = IF row.status # "up" /\ row'.status = "up"
                THEN cycle[w].seen.status = "unknown" ELSE firstUp
  /\ \/ cycle[w].at = "announcing" /\ \E i \in Ids : Opens(i)
     \/ cycle[w].at # "announcing" /\ open' = open \ cycle[w].closes
  /\ cycle' = [cycle EXCEPT ![w] = Sleeping]
  /\ UNCHANGED <<alive, told, faults>>

\* A restart or a database error: what is not committed is lost.
Rollback(w) ==
  /\ cycle[w].at # "idle"
  /\ faults < MaxFaults
  /\ faults' = faults + 1
  /\ cycle' = [cycle EXCEPT ![w] = Sleeping]
  /\ UNCHANGED <<row, open, alive, told, firstUp>>

Flip ==
  /\ alive' = ~ alive
  /\ UNCHANGED <<row, open, cycle, told, firstUp, faults>>

Step(w) == Load(w) \/ CheckSucceeds(w) \/ CheckFails(w) \/ Commit(w)

Next ==
  \/ \E w \in Workers : Step(w) \/ CheckRaises(w) \/ Rollback(w)
  \/ Flip

Spec == Init /\ [][Next]_vars

\* Every worker goes on; PostgreSQL grants row locks in the order of asking.
Fairness == \A w \in Workers : SF_vars(Step(w))

FairSpec == Spec /\ Fairness

-----------------------------------------------------------------------------
(***************************************************************************)
(* Properties.                                                             *)
(***************************************************************************)

TypeOK ==
  /\ row \in Row
  /\ open \subseteq Ids
  /\ cycle \in [Workers -> Cycle]
  /\ alive \in BOOLEAN
  /\ told \in [Workers -> {"nothing", "up", "down"}]
  /\ firstUp \in BOOLEAN
  /\ faults \in 0 .. MaxFaults

\* However many monitors write the row, each from what it loaded, a committed
\* DOWN has an unresolved incident.
DownIsAnnounced == row.status = "down" => open # {}

\* Recovery: the commit that turns the device UP resolves whatever any process
\* has opened for it, whatever other cycles were rolled back.  That is not so of
\* a commit whose own check raised, or whose own cycle had loaded the device
\* before it had a verdict (Closes looks at the status that was loaded).
RecoveryClosesAll ==
  [][\A w \in Workers :
       /\ cycle[w].at = "locking" /\ cycle[w].seen.status # "unknown"
       /\ row.status # "up" /\ row'.status = "up"
       => open' = {}]_vars

\* If no cycle was rolled back and no check raised, some process has told its
\* clients what is committed, a recovery as well as an outage: the others may
\* not have seen the transition.  Nobody tells of the UP of a cycle that had
\* loaded UNKNOWN.
SomeoneWasTold ==
  (\A w \in Workers : cycle[w].at = "idle") /\ faults = 0 =>
    /\ row.status = "down" => \E w \in Workers : told[w] = "down"
    /\ row.status = "up" => firstUp \/ \E w \in Workers : told[w] = "up"

\* Once the device no longer changes, the monitors agree on the right status
\* for good, although each counts the failures on from what it loaded.
ReplicasConverge ==
  <>[][UNCHANGED alive]_vars
  => <>[](row.status = IF alive THEN "up" ELSE "down")
=============================================================================
