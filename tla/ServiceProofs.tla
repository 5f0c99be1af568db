---------------------------- MODULE ServiceProofs ----------------------------
(***************************************************************************)
(* Theorems about ServiceChecks: any number of requests at a time.         *)
(***************************************************************************)
EXTENDS ServiceChecks, TLAPS

\* A request in flight has decided from a row whose failures are all accounted
\* for: no success has settled the counter since.
RequestInv ==
  \A c \in Callers :
    /\ request[c].at # "idle" =>
         request[c].seen.failures <= failed /\ service # Absent
    /\ request[c].at \in {"flushing", "locking"} =>
         \/ request[c].new = [status |-> "ok", failures |-> 0]
         \/ request[c].new =
              [status   |-> StatusOf(Bump(request[c].seen.failures, MaxFailures)),
               failures |-> Bump(request[c].seen.failures, MaxFailures)]
    /\ request[c].at = "locking" => Exists

AbsentInv == service = Absent => failed = 0

Inv == TypeOK /\ RequestInv /\ AbsentInv /\ CounterIsExact /\ CriticalIsEarned

LEMMA BumpFacts ==
  ASSUME NEW max \in Nat, NEW x \in 0 .. max
  PROVE  /\ Bump(x, max) \in 0 .. max /\ Bump(x, max) >= x
         /\ \A y \in 0 .. x : Bump(y, max) <= Bump(x, max)
BY DEF Bump

LEMMA StatusFacts ==
  ASSUME NEW n
  PROVE  /\ StatusOf(n) \in {"warning", "critical"}
         /\ StatusOf(n) = "critical" <=> n >= 3
BY DEF StatusOf

LEMMA RowFacts ==
  ASSUME MaxFailures \in Nat
  PROVE  /\ Created \in Row /\ [status |-> "ok", failures |-> 0] \in Row
         /\ Absent \notin Row /\ Deleted \notin Row
         /\ Created # Absent /\ Deleted # Absent
BY DEF Created, Row, Absent, Deleted, ServiceCheckStatus

LEMMA CheckedType ==
  ASSUME MaxFailures \in Nat, NEW seen \in Row, NEW ok \in BOOLEAN
  PROVE  Checked(seen, ok) \in Row
<1>1. seen.failures \in 0 .. MaxFailures BY DEF Row
<1>2. Bump(seen.failures, MaxFailures) \in 0 .. MaxFailures BY <1>1, BumpFacts
<1>3. StatusOf(Bump(seen.failures, MaxFailures)) \in ServiceCheckStatus
  BY StatusFacts DEF ServiceCheckStatus
<1> QED BY <1>2, <1>3, RowFacts DEF Checked, Row

LEMMA InitInv == ASSUME MaxFailures \in Nat, Init PROVE Inv
<1> USE DEF Init
<1>1. TypeOK
  <2>1. Served \in [at : {"idle", "checking", "flushing", "locking"}, seen : Row, new : Row]
    BY RowFacts DEF Served
  <2>2. service \in Row \union {Absent, Deleted} BY RowFacts
  <2>3. failed \in 0 .. MaxFailures OBVIOUS
  <2>4. overlapped \in BOOLEAN BY Zenon
  <2> QED BY <2>1, <2>2, <2>3, <2>4 DEF TypeOK
<1>2. RequestInv BY DEF RequestInv, Served
<1>3. AbsentInv BY DEF AbsentInv
<1>4. CounterIsExact BY RowFacts DEF CounterIsExact, Exists, Created
<1>5. CriticalIsEarned BY DEF CriticalIsEarned, Created, Absent
<1> QED BY <1>1, <1>2, <1>3, <1>4, <1>5 DEF Inv

LEMMA MergedType ==
  ASSUME TypeOK, Exists, NEW c \in Callers PROVE Merged(c) \in Row
<1>1. request[c].new \in Row /\ request[c].seen \in Row /\ service \in Row
  BY DEF TypeOK, Exists
<1> QED BY <1>1 DEF Merged, Row

LEMMA NextTypeOK == ASSUME MaxFailures \in Nat, Inv, Next PROVE TypeOK'
<1>0. TypeOK /\ RequestInv BY DEF Inv
<1> USE <1>0 DEF TypeOK
<1>1. CASE Create BY <1>1, RowFacts DEF Create
<1>2. CASE Delete BY <1>2 DEF Delete
<1>3. CASE Change BY <1>3 DEF Change
<1>4. ASSUME NEW c \in Callers, Get(c) PROVE TypeOK'
  BY <1>4 DEF Get, Exists
<1>5. ASSUME NEW c \in Callers, Probe(c) PROVE TypeOK'
  <2>1. RunServiceCheck \in BOOLEAN BY DEF RunServiceCheck
  <2>2. Checked(request[c].seen, RunServiceCheck) \in Row BY <2>1, CheckedType
  <2> QED BY <1>5, <2>2 DEF Probe
<1>6. ASSUME NEW c \in Callers, Flush(c) PROVE TypeOK'
  BY <1>6, RowFacts DEF Flush, Served
<1>7. ASSUME NEW c \in Callers, Commit(c) PROVE TypeOK'
  <2>1. Exists BY <1>7 DEF Commit, RequestInv
  <2>2. service' \in Row BY <1>7, <2>1, MergedType DEF Commit
  <2>3. failed' \in 0 .. MaxFailures BY <1>7, BumpFacts DEF Commit
  <2>4. overlapped' \in BOOLEAN BY <1>7 DEF Commit
  <2>5. request' \in [Callers -> [at : {"idle", "checking", "flushing", "locking"},
                                  seen : Row, new : Row]]
    BY <1>7, RowFacts DEF Commit, Served
  <2> QED BY <1>7, <2>2, <2>3, <2>4, <2>5 DEF Commit
<1>8. ASSUME NEW c \in Callers, CommitFails(c) PROVE TypeOK'
  BY <1>8, RowFacts DEF CommitFails, Served
<1> QED BY <1>1, <1>2, <1>3, <1>4, <1>5, <1>6, <1>7, <1>8 DEF Next

LEMMA NextRequestInv == ASSUME MaxFailures \in Nat, Inv, Next PROVE RequestInv'
<1>0. TypeOK /\ RequestInv /\ AbsentInv /\ CounterIsExact BY DEF Inv
<1> USE <1>0 DEF TypeOK
<1>1. CASE Create
  BY <1>1, RowFacts DEF Create, RequestInv, Exists
<1>2. CASE Delete
  BY <1>2, RowFacts DEF Delete, RequestInv, Exists, RowIsFree
<1>3. CASE Change BY <1>3 DEF Change, RequestInv, Exists
<1>4. ASSUME NEW c \in Callers, Get(c) PROVE RequestInv'
  BY <1>4, RowFacts DEF Get, RequestInv, Exists, CounterIsExact
<1>5. ASSUME NEW c \in Callers, Probe(c) PROVE RequestInv'
  BY <1>5 DEF Probe, RequestInv, Exists, Checked
<1>6. ASSUME NEW c \in Callers, Flush(c) PROVE RequestInv'
  BY <1>6 DEF Flush, RequestInv, Exists, Served
<1>7. ASSUME NEW c \in Callers, Commit(c) PROVE RequestInv'
  <2>1. Exists BY <1>7 DEF Commit, RequestInv
  <2>2. service' \in Row /\ service' # Absent
    BY <1>7, <2>1, MergedType, RowFacts DEF Commit
  <2>3. request' = [request EXCEPT ![c] = Served] BY <1>7 DEF Commit
  <2>4. CASE Settles(c)
    BY <2>2, <2>3, <2>4 DEF RequestInv, Served, Settles, Exists
  <2>5. CASE ~ Settles(c)
    <3>1. failed' >= failed BY <1>7, <2>5, BumpFacts DEF Commit
    <3>2. \A d \in Callers : request[d].seen.failures \in 0 .. MaxFailures BY DEF Row
    <3>3. failed' \in 0 .. MaxFailures BY <1>7, <2>5, BumpFacts DEF Commit
    <3> QED BY <2>2, <2>3, <3>1, <3>2, <3>3 DEF RequestInv, Served, Exists
  <2> QED BY <2>4, <2>5
<1>8. ASSUME NEW c \in Callers, CommitFails(c) PROVE RequestInv'
  BY <1>8 DEF CommitFails, RequestInv, Exists, Served
<1> QED BY <1>1, <1>2, <1>3, <1>4, <1>5, <1>6, <1>7, <1>8 DEF Next

\* The commit of a check, where all else is left alone.
LEMMA CommitCounts ==
  ASSUME MaxFailures \in Nat, Inv, NEW c \in Callers, Commit(c)
  PROVE  CounterIsExact' /\ CriticalIsEarned'
<1>0. TypeOK /\ RequestInv /\ CounterIsExact /\ CriticalIsEarned BY DEF Inv
<1>1. /\ Exists /\ service \in Row
      /\ request[c].new \in Row /\ request[c].seen \in Row
      /\ failed \in 0 .. MaxFailures
  BY <1>0 DEF Commit, RequestInv, TypeOK, Exists
<1>2. service' = Merged(c) /\ Merged(c) \in Row BY <1>0, <1>1, MergedType DEF Commit
<1>3. /\ service.failures \in 0 .. MaxFailures
      /\ request[c].seen.failures \in 0 .. MaxFailures
      /\ request[c].seen.failures <= failed
      /\ service.failures <= failed
  BY <1>0, <1>1 DEF Row, RequestInv, Commit, CounterIsExact
<1> DEFINE n == Bump(request[c].seen.failures, MaxFailures)
<1>a. \/ request[c].new = [status |-> "ok", failures |-> 0]
      \/ request[c].new = [status |-> StatusOf(n), failures |-> n]
  BY <1>0 DEF RequestInv, Commit
<1>b. StatusOf(n) # "ok" BY StatusFacts
<1>c. n \in 0 .. MaxFailures /\ n <= Bump(failed, MaxFailures)
  <2>1. request[c].seen.failures \in 0 .. failed BY <1>1, <1>3
  <2>2. n \in 0 .. MaxFailures BY <1>3, BumpFacts
  <2>3. n <= Bump(failed, MaxFailures) BY <1>1, <2>1, BumpFacts
  <2> QED BY <2>2, <2>3
<1> HIDE DEF n
<1>4. CASE Settles(c)
  <2>1. request[c].new = [status |-> "ok", failures |-> 0]
    BY <1>4, <1>a, <1>b DEF Settles
  <2>2. service' = [status |-> "ok", failures |-> 0]
    BY <1>2, <1>4, <2>1 DEF Merged, Settles
  <2>3. failed' = 0 BY <1>4 DEF Commit
  <2> QED BY <2>2, <2>3 DEF CounterIsExact, CriticalIsEarned
<1>5. CASE ~ Settles(c) /\ request[c].new.status = "ok"
  <2>1. request[c].new.failures = 0
    BY <1>5, <1>a, <1>b
  <2>2. /\ service'.failures \in {0, service.failures}
        /\ service'.status \in {"ok", service.status}
    BY <1>2, <1>5, <2>1 DEF Merged
  <2>3. failed' = failed /\ overlapped' BY <1>5 DEF Commit
  <2> QED BY <1>0, <1>1, <1>3, <2>2, <2>3 DEF CounterIsExact, CriticalIsEarned
<1>6. CASE ~ Settles(c) /\ request[c].new.status # "ok"
  <2>1. request[c].new = [status |-> StatusOf(n), failures |-> n] BY <1>6, <1>a
  <2>2. failed' = Bump(failed, MaxFailures) BY <1>6 DEF Commit
  <2>3. /\ n \in 0 .. MaxFailures /\ n <= failed'
        /\ failed' \in 0 .. MaxFailures /\ failed <= failed'
    BY <1>1, <1>c, <2>2, BumpFacts
  <2>4. service'.failures <= failed'
    <3>1. service'.failures \in {n, service.failures} BY <1>2, <2>1 DEF Merged
    <3> QED BY <1>1, <1>3, <2>3, <3>1
  <2>5. service'.status = "critical" => failed' >= 3
    BY <1>0, <1>1, <1>2, <2>1, <2>3, StatusFacts DEF Merged, CriticalIsEarned
  <2>6. ASSUME ~ overlapped'
        PROVE  service'.failures = failed' /\ service'.status = StatusOf(failed')
    <3>1. ~ overlapped /\ request[c].seen = service BY <1>6, <2>6 DEF Commit
    <3>2. service.failures = failed BY <1>0, <1>1, <3>1 DEF CounterIsExact
    <3>3. n = failed' BY <2>2, <3>1, <3>2 DEF n
    <3>4. Merged(c) = [status |-> StatusOf(n), failures |-> n]
      BY <2>1, <3>1 DEF Merged
    <3> QED BY <1>2, <3>3, <3>4
  <2> QED BY <2>4, <2>5, <2>6 DEF CounterIsExact, CriticalIsEarned
<1> QED BY <1>4, <1>5, <1>6

LEMMA NextInv == ASSUME MaxFailures \in Nat, Inv, [Next]_vars PROVE Inv'
<1>1. CASE Next
  <2>1. TypeOK' /\ RequestInv' BY <1>1, NextTypeOK, NextRequestInv
  <2>2. AbsentInv'
    BY <1>1, MergedType, RowFacts
    DEF Inv, AbsentInv, TypeOK, RequestInv, Next, Create, Delete, Change, Get, Probe,
        Flush, Commit, CommitFails
  <2>3. ASSUME Create PROVE CounterIsExact' /\ CriticalIsEarned'
    BY <2>3, RowFacts DEF Create, Inv, AbsentInv, CounterIsExact, CriticalIsEarned, Exists,
       Created
  <2>4. ASSUME Delete PROVE CounterIsExact' /\ CriticalIsEarned'
    BY <2>4, RowFacts DEF Delete, CounterIsExact, CriticalIsEarned, Exists, Deleted
  <2>5. ASSUME NEW c \in Callers, Commit(c) PROVE CounterIsExact' /\ CriticalIsEarned'
    BY <2>5, CommitCounts
  <2>6. ASSUME UNCHANGED <<service, failed, overlapped>>
        PROVE  CounterIsExact' /\ CriticalIsEarned'
    BY <2>6 DEF Inv, CounterIsExact, CriticalIsEarned, Exists
  <2>7. CounterIsExact' /\ CriticalIsEarned'
    BY <1>1, <2>3, <2>4, <2>5, <2>6 DEF Next, Change, Get, Probe, Flush, CommitFails
  <2> QED BY <2>1, <2>2, <2>7 DEF Inv
<1>2. CASE UNCHANGED vars
  BY <1>2 DEF vars, Inv, TypeOK, RequestInv, AbsentInv, CounterIsExact, CriticalIsEarned,
              Exists
<1> QED BY <1>1, <1>2

LEMMA Invariance == ASSUME MaxFailures \in Nat PROVE Spec => []Inv
<1>1. Init => Inv BY InitInv
<1>2. Inv /\ [Next]_vars => Inv' BY NextInv
<1> QED BY <1>1, <1>2, PTL DEF Spec

\* The counter never exceeds the failures, and it is exact where no check wrote
\* from an old row, for any number of requests at a time.
THEOREM CounterExact == ASSUME MaxFailures \in Nat PROVE Spec => []CounterIsExact
<1>1. Inv => CounterIsExact BY DEF Inv
<1> QED BY <1>1, Invariance, PTL

\* No interleaving of requests makes a service CRITICAL early.
THEOREM CriticalEarned == ASSUME MaxFailures \in Nat PROVE Spec => []CriticalIsEarned
<1>1. Inv => CriticalIsEarned BY DEF Inv
<1> QED BY <1>1, Invariance, PTL
=============================================================================
