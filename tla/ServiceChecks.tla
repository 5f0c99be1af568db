---------------------------- MODULE ServiceChecks ----------------------------
(***************************************************************************)
(* POST /services/{id}/check (services.py) and run_service_check           *)
(* (service_checker.py): a request reads the row of one service, awaits    *)
(* the probe, and writes status and counter from what it had read.         *)
(*                                                                         *)
(* The UPDATE names only the columns that differ from what was loaded, and *)
(* locks the row; get_db commits after the answer was sent.  What was last *)
(* measured is left out.                                                   *)
(***************************************************************************)
EXTENDS NetworkModel

CONSTANTS
  Callers,       \* requests that may be served at a time
  MaxFailures    \* bound: failures are not counted any further

VARIABLES
  service,       \* the committed row, Absent before and Deleted after it
  checkType,     \* its ServiceCheckType
  answer,        \* what the service does now
  request,       \* the request each caller is in
  failed,        \* history: failed checks committed since a clean success
  overlapped     \* history: a check since then wrote from a row that was not the last

vars == <<service, checkType, answer, request, failed, overlapped>>

ServiceCheckType == {"http", "https", "dns", "smtp", "tcp", "icmp"}

ServiceCheckStatus == {"ok", "warning", "critical", "unknown"}

Row == [status : ServiceCheckStatus, failures : 0 .. MaxFailures]

Absent == [status |-> "absent", failures |-> 0]

Deleted == [status |-> "deleted", failures |-> 0]

Created == [status |-> "unknown", failures |-> 0]

Served == [at |-> "idle", seen |-> Created, new |-> Created]

Init ==
  /\ service \in {Absent, Created}
  /\ checkType \in ServiceCheckType
  /\ answer = "expected"
  /\ request = [c \in Callers |-> Served]
  /\ failed = 0
  /\ overlapped = FALSE

\* check_http and check_smtp look at the answer, check_tcp and check_dns are
\* content with any; nothing checks ICMP.
RunServiceCheck ==
  \/ checkType \in {"http", "https", "smtp"} /\ answer = "expected"
  \/ checkType \in {"tcp", "dns"} /\ answer # "none"

\* CRITICAL one failure early.
StatusOfTwo(failures) == IF failures > 1 THEN "critical" ELSE "warning"

StatusOf(failures) == IF failures >= 3 THEN "critical" ELSE "warning"

\* A counter that a success leaves alone.
CheckedKeepingCounter(seen, ok) ==
  IF ok THEN [seen EXCEPT !.status = "ok"]
  ELSE [status   |-> StatusOf(Bump(seen.failures, MaxFailures)),
        failures |-> Bump(seen.failures, MaxFailures)]

\* The object after a check that found ok.
Checked(seen, ok) ==
  IF ok THEN [status |-> "ok", failures |-> 0]
  ELSE [status   |-> StatusOf(Bump(seen.failures, MaxFailures)),
        failures |-> Bump(seen.failures, MaxFailures)]

\* The row after an UPDATE of the columns the session of c has changed.
Merged(c) ==
  LET r == request[c] IN
  [status   |-> IF r.new.status = r.seen.status THEN service.status ELSE r.new.status,
   failures |-> IF r.new.failures = r.seen.failures THEN service.failures
                ELSE r.new.failures]

Exists == service \in Row

RowIsFree == \A c \in Callers : request[c].at # "locking"

Create ==
  /\ service = Absent
  /\ service' = Created
  /\ UNCHANGED <<checkType, answer, request, failed, overlapped>>

\* A check of a service that is not there is answered with 404.
Get(c) ==
  /\ request[c].at = "idle" /\ Exists
  /\ request' = [request EXCEPT ![c] = [at |-> "checking", seen |-> service,
                                        new |-> service]]
  /\ UNCHANGED <<service, checkType, answer, failed, overlapped>>

Probe(c) ==
  /\ request[c].at = "checking"
  /\ request' = [request EXCEPT ![c].at = "flushing",
                                ![c].new = Checked(request[c].seen, RunServiceCheck)]
  /\ UNCHANGED <<service, checkType, answer, failed, overlapped>>

\* The UPDATE; a row that is gone makes it raise StaleDataError.
Flush(c) ==
  /\ request[c].at = "flushing" /\ RowIsFree
  /\ request' = [request EXCEPT ![c] = IF Exists THEN [@ EXCEPT !.at = "locking"]
                                       ELSE Served]
  /\ UNCHANGED <<service, checkType, answer, failed, overlapped>>

\* A success that wrote over the row it had read, with no other request under
\* way, settles the counter.
Settles(c) ==
  /\ request[c].new.status = "ok" /\ request[c].seen = service
  /\ \A d \in Callers \ {c} : request[d].at = "idle"

Commit(c) ==
  /\ request[c].at = "locking"
  /\ service' = Merged(c)
  /\ failed' = IF Settles(c) THEN 0
               ELSE IF request[c].new.status = "ok" THEN failed
               ELSE Bump(failed, MaxFailures)
  /\ overlapped' = (~ Settles(c) /\ (overlapped \/ request[c].seen # service
                                     \/ request[c].new.status = "ok"))
  /\ request' = [request EXCEPT ![c] = Served]
  /\ UNCHANGED <<checkType, answer>>

\* The client has its answer, and the commit is lost: with the process, or with
\* the connection to the database.
CommitFails(c) ==
  /\ request[c].at # "idle"
  /\ request' = [request EXCEPT ![c] = Served]
  /\ UNCHANGED <<service, checkType, answer, failed, overlapped>>

Delete ==
  /\ Exists /\ RowIsFree
  /\ service' = Deleted
  /\ UNCHANGED <<checkType, answer, request, failed, overlapped>>

Change ==
  /\ answer' \in {"expected", "other", "none"} \ {answer}
  /\ UNCHANGED <<service, checkType, request, failed, overlapped>>

Next ==
  \/ Create \/ Delete \/ Change
  \/ \E c \in Callers : Get(c) \/ Probe(c) \/ Flush(c) \/ Commit(c) \/ CommitFails(c)

Spec == Init /\ [][Next]_vars

-----------------------------------------------------------------------------
(***************************************************************************)
(* Properties.                                                             *)
(***************************************************************************)

TypeOK ==
  /\ service \in Row \union {Absent, Deleted}
  /\ checkType \in ServiceCheckType
  /\ answer \in {"expected", "other", "none"}
  /\ request \in [Callers -> [at : {"idle", "checking", "flushing", "locking"},
                              seen : Row, new : Row]]
  /\ failed \in 0 .. MaxFailures
  /\ overlapped \in BOOLEAN

\* However many checks of a service run at a time, the counter never exceeds the
\* failures there were since a success that nothing overlapped; and it counts
\* them all if no check wrote from a row that was not the last one.
CounterIsExact ==
  Exists =>
    /\ service.failures <= failed
    /\ ~ overlapped => /\ service.failures = failed
                       /\ failed > 0 => service.status = StatusOf(failed)

\* A service is CRITICAL only after three failures, also where one request
\* wrote the status and another one the counter.
CriticalIsEarned ==
  service.status = "critical" => failed >= 3
=============================================================================
