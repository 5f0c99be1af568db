------------------------------ MODULE Thresholds ------------------------------
(***************************************************************************)
(* The upsert of thresholds.py for one device and one metric: look for the *)
(* row, then update it or insert one.  No constraint of the table keeps a  *)
(* second row out, and two rows make scalar_one_or_none raise.             *)
(*                                                                         *)
(* The answer is sent before get_db commits.  warning and critical stand   *)
(* for all columns of the body; enabled is one more of the kind.           *)
(***************************************************************************)
EXTENDS Integers, FiniteSets

CONSTANTS
  Callers,   \* requests that may be served at a time
  Values,    \* what a column may hold
  Keys       \* bound: the keys of rows of the metric

VARIABLES
  stored,    \* the committed rows of the device and the metric, by key
  put,       \* the request each caller is in
  asked,     \* history: the body of the last request that was committed
  stale      \* history: since a row was stored whole, one was written in part
             \* from another state than the last

vars == <<stored, put, asked, stale>>

AlertThreshold == [warning : Values, critical : Values]

Served == [at |-> "idle"]

Looked == [at : {"updating", "locking"}, key : Keys, seen : AlertThreshold,
           body : AlertThreshold]
          \union [at : {"inserting"}, body : AlertThreshold]

Keep == DOMAIN stored

Init ==
  /\ stored = << >>
  /\ put = [c \in Callers |-> Served]
  /\ asked \in AlertThreshold
  /\ stale = FALSE

RowIsFree(k) == \A c \in Callers : put[c].at = "locking" => put[c].key # k

\* A look that finds nothing if it does not find exactly one.
InsertsUnlessOne == Cardinality(Keep) # 1

Inserts == Keep = {}

\* With two rows the request raises and changes nothing.
Look(c, body) ==
  /\ put[c].at = "idle"
  /\ \/ Inserts /\ put' = [put EXCEPT ![c] = [at |-> "inserting", body |-> body]]
     \/ \E k \in Keep :
          /\ Keep = {k}
          /\ put' = [put EXCEPT ![c] = [at |-> "updating", key |-> k,
                                        seen |-> stored[k], body |-> body]]
  /\ UNCHANGED <<stored, asked, stale>>

Insert(c) ==
  /\ put[c].at = "inserting"
  /\ \E k \in Keys \ Keep :
       stored' = [j \in Keep \union {k} |-> IF j = k THEN put[c].body ELSE stored[j]]
  /\ asked' = put[c].body
  /\ stale' = FALSE
  /\ put' = [put EXCEPT ![c] = Served]

\* The UPDATE locks the row; the request raises if the row is gone.  A body that
\* is what was loaded issues no UPDATE, and its answer is the row of now.
Flush(c) ==
  LET k == put[c].key IN
  /\ put[c].at = "updating"
  /\ \/ /\ k \notin Keep
        /\ put' = [put EXCEPT ![c] = Served]
        /\ UNCHANGED <<asked, stale>>
     \/ /\ k \in Keep /\ put[c].body = put[c].seen
        /\ put' = [put EXCEPT ![c] = Served]
        /\ asked' = put[c].body
        /\ stale' = (put[c].body # stored[k])
     \/ /\ k \in Keep /\ put[c].body # put[c].seen /\ RowIsFree(k)
        /\ put' = [put EXCEPT ![c].at = "locking"]
        /\ UNCHANGED <<asked, stale>>
  /\ UNCHANGED stored

MergedWarningOnly(c) == [stored[put[c].key] EXCEPT !.warning = put[c].body.warning]

\* The row with the columns the session of c has changed.
Merged(c) ==
  LET old == put[c].seen
      new == put[c].body
      row == stored[put[c].key]
  IN
  [warning  |-> IF new.warning = old.warning THEN row.warning ELSE new.warning,
   critical |-> IF new.critical = old.critical THEN row.critical ELSE new.critical]

Update(c) ==
  /\ put[c].at = "locking"
  /\ stored' = [stored EXCEPT ![put[c].key] = Merged(c)]
  /\ asked' = put[c].body
  /\ stale' = (put[c].seen # stored[put[c].key])
  /\ put' = [put EXCEPT ![c] = Served]

\* The commit fails, or the process ends, after the answer was sent.
CommitFails(c) ==
  /\ put[c].at # "idle"
  /\ put' = [put EXCEPT ![c] = Served]
  /\ UNCHANGED <<stored, asked, stale>>

Delete(k) ==
  /\ k \in Keep /\ RowIsFree(k)
  /\ stored' = [j \in Keep \ {k} |-> stored[j]]
  /\ stale' = TRUE
  /\ UNCHANGED <<put, asked>>

Next ==
  \/ \E c \in Callers :
       \/ \E body \in AlertThreshold : Look(c, body)
       \/ Insert(c) \/ Flush(c) \/ Update(c) \/ CommitFails(c)
  \/ \E k \in Keys : Delete(k)

Spec == Init /\ [][Next]_vars

-----------------------------------------------------------------------------
(***************************************************************************)
(* Properties.                                                             *)
(***************************************************************************)

TypeOK ==
  /\ Keep \subseteq Keys
  /\ \A k \in Keep : stored[k] \in AlertThreshold
  /\ put \in [Callers -> {Served} \union Looked]
  /\ asked \in AlertThreshold
  /\ stale \in BOOLEAN

Inserting == {c \in Callers : put[c].at = "inserting"}

\* The race of upserts is bounded by the requests served at a time: rows and
\* requests about to add one are never more than the callers, however often the
\* rows are deleted meanwhile.
DuplicatesAreBounded ==
  Cardinality(Keep) + Cardinality(Inserting) <= Cardinality(Callers)

\* A single row holds what the last request asked for, and not a mix of two,
\* unless that request had loaded another row than it wrote over, or a second
\* row was deleted since.
StoredAsAsked ==
  ~ stale => \A k \in Keep : Keep = {k} => stored[k] = asked
=============================================================================
