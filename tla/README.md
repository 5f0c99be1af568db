# A verification project for the Orbis360 network monitor

The backend watches a network: a background worker checks every device with
ping and SNMP, keeps its status, opens and resolves incidents, infers the
status of the links, looks for the root cause of an outage and tells the
connected dashboards. A REST API changes the same rows. This directory models
the parts with a logic of their own in TLA+, checks them with TLC on small
networks and proves the main results with TLAPS for every network.

Paths are relative to `src/`.

## 1. Inventory

| part | state | operations | hard behaviour | what makes it correct |
|---|---|---|---|---|
| **Monitor worker** `app/workers/monitor.py` | device rows (`status`, `consecutive_failures`, flap columns), incidents, links | `_monitor_cycle`: checks of all devices at once, commit, propagation, commit, links, commit, analysis | the checks interleave at every `await`; three commits per cycle; restarts; exceptions swallowed by `gather` or ending the cycle | a status follows the checks and the hierarchy; one incident per outage; recovery closes it; it converges |
| **Flap detector** `_detect_flapping` | `flap_count`, `last_state_change`, `is_flapping` | one call per check | a sliding window, a flag that outlives its counter | suppresses oscillation and nothing else; ends |
| **Database session** `app/infrastructure/database/session.py` | identity map, dirty columns, transaction | select, get, commit, rollback | `expire_on_commit=False`: objects outlive the commit; other sessions commit in between | what is committed is what was decided |
| **Devices, incidents and maintenance endpoints** | the same rows | PATCH, reboot, resolve, windows | at any point of a cycle | do not break the worker |
| **WebSocket hub** `app/core/events.py`, `app/api/endpoints/websocket.py` | `active_connections` | connect, disconnect, broadcast | several broadcasts walk one list while it changes | everyone connected is listed once and served |
| **Root cause analysis** `app/domain/services/rca_engine.py`, `app/api/endpoints/topology.py` | a graph, the search, the scores | `build_topology`, `find_root_causes` | graphs with cycles, shared descendants | finds what is downstream; the cause outranks its damage; ends |
| **Several processes** `Dockerfile` | a monitor and a hub per process, one database | cycles over the same rows | each decides from what it loaded; column-level writes, row locks | an outage is announced, closed, told to somebody; they agree in the end |
| **Thresholds** `app/api/endpoints/thresholds.py` | `alert_thresholds` | upsert, delete | look and insert are two steps; commits after the answer | rows are bounded; what is stored was asked for |
| **Service checks** `app/api/endpoints/services.py`, `app/infrastructure/monitoring/service_checker.py` | `service_checks` | create, delete, check | read, await, write of a counter | the counter and CRITICAL mean what they say |
| **Availability report** `app/api/endpoints/reports.py` | none; reads `incidents` | sum of the incidents of a period | incidents that overlap, are reopened, are missing, or reach into the period | agrees with the time the device was DOWN |
| **Reboot over SSH** `app/infrastructure/ssh/client.py`, `devices.py` | incidents | `reboot_device`, `execute` | the connection dies with the success of the command; handler order; retries | repeating a failure does not reboot twice |
| **Discovery** `app/api/endpoints/discovery.py` | none | parse, limit, probe | the ends of the address spaces | finds what answers and nothing else |
| **Probes** `ping.py`, `snmp/client.py` | none | I/O | timeouts | - |
| **Authentication, audit, locations, links, metrics, schemas, configuration** | rows | create, read, delete | - | - |

How they interact: the worker and the API share the database, each request and
each cycle with a session of its own; the worker and the reboot endpoint call
the hub's `broadcast`; the worker and `POST /topology/rca` call the analysis;
the process starts the worker and cancels its task (`app/main.py`, `lifespan`).

The hazards, each at the line where it bites and with the properties that
cover it, are in `PROJECT.json`.

## 2. Modules

| module | models |
|---|---|
| `OutageRegister` | abstract: status, flapping and open outage of each device |
| `NetworkModel` | the enumerations and the two comparisons the others share |
| `Monitor` | the worker, its session, the rows, and the API beside it |
| `MonitorProperties` | what the monitor promises |
| `MonitorMC` | the small networks TLC checks: a pair, a chain, a ring of parents |
| `MonitorProofs` | theorems about `Monitor`: types, counters, the cascade |
| `IncidentProofs` | theorems about `Monitor`: incidents, maintenance, the refinement of `OutageRegister` |
| `FlapDetector` | the flap detector with its counters; justifies `Monitor!FlapVerdicts` |
| `ConnectionManager` | the hub and the endpoint of each client |
| `HubProofs` | theorems about `ConnectionManager` |
| `RCAEngine`, `RCAEngineMC` | the root cause analysis and the graphs TLC checks |
| `RCAProofs` | theorems about `RCAEngine` |
| `FlapProofs` | theorems about `FlapDetector`, the refinement of `OutageRegister` included |
| `MonitorReplicas` | the monitors of several processes over one row |
| `ServiceChecks`, `ServiceProofs` | checks of one service at the same time |
| `Thresholds`, `ThresholdProofs` | upserts of one threshold at the same time |
| `AvailabilityReport` | incidents over time, and the report made from them |
| `Reboots` | the SSH session of a reboot and operators who repeat it |
| `Discovery` | what is scanned and found |
| `ComponentsMC` | the six components above for TLC: a behaviour moves one of them |
| `ComponentsProofs` | theorems about these six, as the run checks them |

### Monitor

*State.* `row`, `incidents` and `link` are what is committed. `dev` are the ORM
objects of the session of the cycle, `loaded` says which devices it has
loaded, `dirty` which status columns it will write, and `pending` are the
incidents as its transaction sees them. `phase` is the step of
`_monitor_cycle`, `task` the position and the locals of each `_check_device`
coroutine, `todo` what the loop of phase 2 has still to visit. `alive` and
`windows` are the world: which devices answer, and how many maintenance windows
of a device are active. `streak`, `crashes`, `lostSends`, `lostQueries` and `released` are
history.

*Steps.* What a coroutine does between two awaits is one action, in the order of
the code:

    StartCycle      the first SELECT, gather
    Probe           ping and SNMP have answered; the walk up the ancestors
    WindowsOverlap, EnterMaintenance, CheckSucceeds, CheckFails
                    the answer of the maintenance query and what follows it
    ThresholdExceeded, WithinThresholds
                    one turn of the loop over the thresholds, and its end
    Recovery        the rest of a successful check
    QueryRaises     a query of a check raises; gather swallows it
    EndChecks       gather is over: the commit
    SelectAgain     the second SELECT, an await of its own
    Cascade, CascadeRaises, EndCascade       phase 1 of the propagation
    Recover, DoNotRecover, EndRecover        phase 2, and its commit
    UpdateLinks, RunRCA                      the rest of the cycle
    SendAborts, Crash                        an exception or a restart
    Flip, ChangeWindows, PatchStatus, RebootFails, ResolveIncident
                                             the world and the API

*The session.* `Refetch` is the point of the model: the rows decide which
devices a SELECT returns, the identity map what they hold. `Commit` writes the
status only of dirty objects, as SQLAlchemy does.

*Abstractions.* Counters stop at the threshold, since they are only compared
with it. Incidents are counted by kind, told apart by title as in the code: an
outage of the device itself, an outage by dependency, a threshold for each of the metrics a
check has values of (latency and packet loss), a failed
reboot. One session used by several coroutines at a time is not supported by
SQLAlchemy; the model has the outcomes in which its calls are serialised or raise.
The walk up the ancestors has no await and is one set, `AncestorsIn`, so that its own end
is not checked: the `visited` set of the code ends it.
The cascade visits devices in any order, because its loop runs until nothing
changes, and so does phase 2, because its SELECT has no ORDER BY. The hierarchy
and the set of devices do not change during a behaviour.

### FlapDetector

One device without a parent and without windows, so that its status changes
only by its checks. Time is counted in check intervals and kept as ages that
stop one beyond the window. `OnlySwingsAreSuppressed` speaks of history
variables that depend on the device's answers alone.

### ConnectionManager

A Python list iterator is a position in the live list: `cursor`. A broadcast
awaits every send, so `Send` is one turn of the loop, and `Finish` is the
clean-up, which has no await. `list.remove` of an entry that is gone raises:
`CleanUp` stops there. `Without` is what the removals before that leave, the entries
that stay in their order: it numbers them instead of walking the list, so that it can be
proved about. A send to a client that is lost may still be buffered.

### RCAEngine

The search keeps its queue as a set and takes any of it, so that TLC and the
proof cover every order, the FIFO order included. Scores are integers
(hundredths), ranked in every order compatible with the sort.

### OutageRegister

What a reader of the rows may rely on, in one relation per device: an outage is
opened by the commit that makes the device DOWN (or the device flaps), stays
through DOWN, is closed by the commit that makes it UP, and DOWN is left through
UP only. `Monitor` implements it by its committed rows (`MonitorProperties`,
`Register`), where neither the order of the checks, the cascade, the recoveries nor
a restart between two commits may show; `FlapDetector` by the checks of one
device, where it also fixes which verdict may change the flapping.

### MonitorReplicas

`cycle[w]` is what the session of process `w` has loaded (`seen`), decided
(`new`) and will resolve (`closes`). `Merged` is SQLAlchemy's UPDATE of the changed
columns only. `locking` is the time between the UPDATE and the commit: a
successful check flushes before it looks for incidents, a failed one at the commit.
A failed check always writes the counter, which the code does not saturate: `Merged` stops the
number at the threshold and still writes it over another process's zero.
`CheckRaises` is a check that fails after that flush and is swallowed by `gather` (`raised`).

### ServiceChecks and Thresholds

A request is a small state machine: load, await, flush (the row lock), commit,
which comes after the answer (`get_db`, with the FastAPI version that
`requirements.txt` pins) and may fail. `failed`, `overlapped`, `asked` and `stale` are
history. In `Thresholds` the lookup sees committed rows only, so that two
requests may both insert; with two rows every upsert raises until one is deleted.

### AvailabilityReport

The rows are those the monitors and the operators leave: outages with or without
their incident or with one of each process (`FoundDownAgain`), other incidents, incidents resolved
by hand or opened again. Maintenance windows and recoveries whose check raises are left out. The
definitions of the report are functions of the rows; `downHours` is the truth they
are compared with, for every period that ends now.

### Reboots

`Outcome` is what the `try` of `SSHClient.execute` ends with, `Success` what its
handlers make of it in Python 3.14 (the `Dockerfile`). An operator repeats a request
that was not answered with success.

### Discovery

Addresses are a version and a number below small tops, so that both ends of both
address spaces are within reach.

## 3. Runs

| run | instance | shows |
|---|---|---|
| `monitor_chain` | three devices in a chain, threshold 2, one restart, `FairSpec` | incidents follow outages; the committed hierarchy is closed; no false positive; the rows implement `OutageRegister`; statuses and incidents converge |
| `monitor_operators` | two devices, threshold 1, two windows, PATCH out of maintenance, two metrics, failed reboots, one lost broadcast | types; the cascade is closed; maintenance is silent |
| `monitor_ring` | two devices that are each other's parent, a link, PATCHes, incidents resolved by hand, flapping, one query that raises, `FairSpec` | every cycle ends; links converge |
| `flap_suppression` | thresholds 3 and 5 (the defaults), window of 6 checks, `FairSpec` | only swings are suppressed; flapping ends; the checks implement `OutageRegister` |
| `connections` | three clients, two broadcasts, `FairSpec` | the list under concurrent broadcasts |
| `root_causes` | every graph of three devices, `FairSpec` | the search and the ranking |
| `components` | two processes, threshold 2, two incidents, one fault; two checks of a service of any type, four failures; two upserts, two values, three keys; five hours, two incidents, one amended; two operators, three reboots; IPv4 up to 7, IPv6 up to 11, limit 5 | a question per component, below |
| `cascade_immediate`, `maintenance_stuck`, `recovery_lost`, `broadcast_to_all`, `flap_window` | the smallest instance that has the case | violations, section 5 |

*Why the bounds are enough.* A chain of three has a device that is child and
parent at once, which is where the order of the cascade and of the recoveries
matters. `DOWN_THRESHOLD = 2` has the DEGRADED status between UP and DOWN; more
repeats it. One restart reaches each gap between two commits. Two overlapping
windows are what makes the query of the windows raise, and two metrics the query of the
cascade. A ring of two parents is the shortest that is not a device's own parent. Two broadcasts and three
clients have an iterator overtaken by the clean-up of another. Three devices
have every shape of cycle, diamond-free; `RCAProofs` covers the rest.
`MaxOpen = 2` bounds the incidents of one kind; the code tells 0, 1 and more
apart.

`components` checks, one behaviour for each initial choice of a component:

- every component's types: `PartsTypeOK`, which has the limit of the discovery too.
- two monitors: `DownIsAnnounced`, `RecoveryClosesAll`, `SomeoneWasTold`,
  `ReplicasConverge`. Both may open an incident for one outage; the recovery that is
  committed closes both. The exceptions are part of the statements, and about the commit
  in question alone: a check that raised after its flush, and a cycle that loaded the device
  as UNKNOWN, turn it UP and resolve nothing, and the latter tells nobody.
- service checks: `CounterIsExact`, `CriticalIsEarned`.
- upserts: `DuplicatesAreBounded`, `StoredAsAsked`.
- the report: `ReportIsExact`. It is too low where incidents are no outages or two processes
  have announced one,
  too high where an outage has no incident or began before the period, and
  exact in between.
- reboots: `RetryIsSafe`, unless a session timed out or ended in an exit status after the
  reboot, or an answer was lost.
- discovery: `DiscoveryIsExact`, except for ranges the walk cannot finish.

Two writers have every overlap of two read-modify-writes; three failures make a
service CRITICAL and the fourth repeats it; three keys leave one for an insert beside
two rows; five hours hold an outage before, across and within a period; the
networks of 1, 2, 4 and 8 addresses have the two cases of `hosts()` and the limit.
`ServiceProofs`, `ThresholdProofs` and `ComponentsProofs` cover any number of writers, and
times and address spaces of any size.

*Fairness.* `Monitor!FairSpec` asks for weak fairness of the worker's own steps:
`start` is a loop that survives exceptions, the event loop runs a task that is
ready, and probes have timeouts. Nothing is asked of the network, the API, lost
broadcasts or restarts. `ConnectionManager!Fairness`: a send that has begun
returns or raises, and the server notices in the end that a client is lost.
`MonitorReplicas!Fairness` is strong, because a step waits for the row lock, which
the other process takes again and again; PostgreSQL grants it in the order of asking.
`RCAEngine` is fair because the analysis is one synchronous call.
`FlapDetector!Fairness` is about checks that repeat the answer: fairness of all
checks together would force the answers to change for ever, since a check of a
device that is steady for long changes nothing.

*Deadlock* is checked everywhere but in `root_causes`, where the analysis ends, and
in `components`, where the scan and the hours of the report do.
In `Monitor` the network can always change, so that a stuck worker is no
deadlock: `CycleEnds` is the property that says it is never stuck. `LinksConverge` presupposes
that rows rest and that cycles keep coming as far as the links. They do not if no device is monitored,
nor if a child has overlapping windows, so that its checks do nothing, and two incidents that make
every cascade raise.

Every property of a passing run has a mutant in `PROJECT.json`: a plausible
mistake in one operator, by which TLC finds the property violated.

## 4. Proofs

`MonitorProofs`, for any set of devices, hierarchy, links, settings and bounds:

- `TypeCorrect`. Not only types: a second dependency incident of a device, or a second
  threshold incident of one metric, is never opened, because both code paths look first.
- `NoFalsePositives` (assuming operators do not PATCH statuses). The property is
  not inductive: `CounterInv` adds that objects and rows agree except where
  dirty, that a DOWN device's counter is at the threshold, and that the counter
  of any other device is at most its number of failed checks in a row. The
  cascade sets the counter to the threshold without a failed check, which is
  harmless only because it also sets DOWN, and the way back resets it. A restart
  loses the reset of a successful check, hence the statement up to the first one.
  The assumption is needed: PATCH leaves the counter as it is.
- `CascadeClosed`: the loop of phase 1 ends closed, and a recovery in phase 2
  raises only devices whose parent is UP, so that it opens no gap, in any order
  and in any hierarchy, cyclic ones included.
- `CommittedCascadeClosed` (same assumption): the rows agree with the objects
  after the commit.

`IncidentProofs`, as general, and assuming that operators do not PATCH statuses:

- `OutageAnnouncedOnce` and `RecoveryClosesOutage` (`ChecksFinish`: no query of a check raises,
  and no device has thresholds or no broadcast raises; otherwise the recovery is skipped, and
  the property fails, as `recovery_lost` shows). Detectors may flap, windows open and operators resolve
  incidents. `OutageInv` says of rows and of objects that a device in service
  (UP, DEGRADED, UNKNOWN) has no open outage, except between the assignment of UP and the
  resolution, when `previous` remembers that there is something to resolve. What
  makes it inductive is that until its check applies the result an object is as it was
  loaded (`Unchecked`), so that the `previous` of the probe is still true after the await,
  and `CounterInv`: a failed check of a DOWN device cannot make it DEGRADED.
- `OutageAnnounced` (moreover `Undisturbed`: no flapping, nobody resolves incidents by hand;
  either leaves a device DOWN without an incident, as the code intends).
- `MaintenanceSilent`, without any assumption, PATCHes included. An outage is opened for a
  device by its own failed check or by the cascade. A check goes on only with a device that
  was not in maintenance when it was loaded (`task[d].at # "done"`), and one that has just
  put it there is over; the cascade visits what the second SELECT returned, and the commit
  before it has written the status of every object that a check put into maintenance
  (`dirty`), so that it returns none. The exception is part of the statement: an operator who
  PATCHes the row in the gap between that commit and the SELECT (`released`) gets the device
  listed while its object still says maintenance. `SilentInv` adds that the session has changed
  no incident of a device in maintenance, because a rollback would reopen one.
- `MonitorKeepsRegister`, the refinement, for a worker that is left alone (`Plain`: no PATCHes
  of statuses, no thresholds, no failed reboots, no flapping, no incidents resolved by hand, no
  query that raises; windows, restarts and lost broadcasts are in, though the run has no window). Only two actions commit, and
  a commit is a step of the register for each device at once: in committed states exactly the
  DOWN devices have an outage, but for those in maintenance, which keep what they had;
  and `CycleInv` says what the status of a row can become before the next commit. With
  thresholds or failed reboots the cascade opens no outage for a device that has another
  incident, and the register would not be kept.

`RCAProofs`, for any graph, cycles included:

- `SearchFindsDownstream`: when a search ends it has found exactly the DOWN
  devices downstream. The loop invariant: what is visited or queued is
  reachable; what a visited device links to is visited or queued; `affected` is
  the DOWN part of what the visited devices link to. The start is either
  still queued or visited. (`ReachableFrom` is the least closed set, defined
  without recursion so that it can be proved about.)
- `CauseOutranksDamage`: what a reachable device reaches is reachable, so that
  its count is not larger, and the penalty of a device without DOWN devices above
  it is 1.0 (`ScoreInv` carries the scores of ended searches along). That the set
  of devices is finite is assumed.
- `FirstIsUpstream`: the same for what the ranking names first. Every DOWN device is still
  to be searched, searched or scored (`NobodyForgotten`), and the first has the highest
  score (`FirstIsHighest`), whatever order the sort leaves equal scores in. A DOWN
  device directly above reaches one device more (`ParentHasMoreBelow`: the first
  itself, which is on no cycle), its product of count and weight is larger, and the
  penalty of the first, which has a DOWN device above it, is 0.3.

`FlapProofs`, for all settings:

- `DetectorTypeCorrect`. `Inv` adds that a DOWN device's counter is at the threshold,
  without which a failed check could leave DOWN for DEGRADED.
- `ChecksKeepRegister`, the refinement: a check that succeeds is `IsUp`, one that fails is
  `StaysDown`, `GoesDown` or `Degrades`, by the status before and after.
- `OnlySwingsSuppressed`, if `DownThreshold < FlapThreshold` (3 and 5 by default; with other
  settings the failed checks of a single outage are enough changes to count as
  flapping). `SwingInv`: the window is not run down before the device has been steady for as
  long, so that one that has answered for longer does not flap; and what it has counted
  since are its own failed checks, fewer than `DownThreshold`.

`HubProofs`, for any finite set of clients and any set of broadcasts:

- `TypeCorrect`, `OpenStaysListed`, `NobodyIsServedTwice`, `MissesArePaidFor`. One invariant,
  `IInv`, over the list and every iterator that walks it: the list holds each client once;
  a send that failed was to a client that is gone, so that a clean-up removes nobody who
  is connected; whoever stands at the cursor or behind it has not been served; and what
  the cursor has passed unserved (`Skipped`) is no more than what was removed. A removal in
  front of the cursor moves one client past it, one behind it none, and this is a count of
  positions before and after (`WithoutFacts`, `RemovalKeepsBroadcast`). That `removals` is
  bounded by the number of clients holds because a client that has left the list does not
  come back (`Departed`).

`ComponentsProofs`, about `PartsSpec`, for all values of the constants that
`ComponentsAssumption` admits:

- A component at rest is one that has not begun, and a step moves one component or none; so
  each behaves as its own module specifies (the lemma `PartsBehave`), and what is proved of that
  specification holds in the run. `CounterExact`, `CriticalEarned`, `DuplicatesBounded`
  and `StoredRight` carry the theorems of `ServiceProofs` and `ThresholdProofs` over.
- `PartsTypeCorrect`. The part of it that is more than types is the limit of the discovery:
  the rank of an address among those of its version tells them apart, and only ranks below
  `Limit` are scanned.

Of the replicas, for any set of processes, threshold, incidents and bound of faults
(`ReplicasSafe` has the three in `PartsSpec`):

- `DownAnnounced`. The argument is about what a cycle may still write: a session that is
  about to write DOWN without an incident has loaded DOWN, and so has no status to
  write; and a session that closes incidents writes UP, under the lock it has held
  since it looked for them.
- `RecoveryCloses`, of every commit whose own check did not raise and whose own cycle had not
  loaded UNKNOWN, whatever happens to other cycles: between the look and the commit the row is
  locked, so that no other process opens an incident.
- `SomebodyWasTold`, if no cycle was rolled back and no check raised. Between cycles it follows
  from what holds during them: that the outage is known to the clients of a process, or a
  recovery is being committed under the lock (`OutageIsKnown`), and the other way round
  (`RecoveryIsKnown`). A process that has told nothing does not count; the UP of a cycle that
  had loaded UNKNOWN is told by nobody (`firstUp`).

Of the report:

- `ReportExact`. `ReportInv` says that outages are apart unless two processes announced one
  (`twice`), that the device is DOWN throughout each, and, unless an outage is without its incident, that each hour DOWN lies in one.
  The sum of the report is a fold, which is a recursive function: `SumIsCount` shows by
  well-founded induction on the subsets that are added up that it is a number of
  elements, a block for each incident and hour. Blocks and hours are then compared by
  injections: a block is an hour of its own if all incidents are outages
  (`ChargedWasSuffered`), and an hour has a block of its own if no incident is missing and
  none reaches in (`SufferedIsCharged`).

Of the reboots, for any finite set of operators:

- `RetrySafe`: each reboot is charged to an operator who has been told of its success or will
  be, unless a session that rebooted ended in a timeout or in a nonzero exit status, or an
  answer was lost (`unsure`).

Of the discovery, for address spaces of any size and any limit:

- `DiscoveryExact`: what a network or a walkable range is parsed to is what was wanted
  (`HostsAreWanted`, `RangeIsWanted`).

`ServiceProofs`, for any set of callers:

- `CounterExact`, `CriticalEarned`. The invariant bounds the counter and what every
  request has loaded or will write by the failures committed so far; a status CRITICAL, stored
  or about to be, presupposes three.

`ThresholdProofs`, for any finite set of callers:

- `DuplicatesBounded`: a request that inserts has seen no row, and each row and each
  insert is charged to a caller.
- `StoredRight`: an invariant about what the request that holds the lock had loaded.

Assumed of the constants, besides what is said above: that sets of clients, requests,
operators and graph devices are finite, that there are a process and a threshold value,
and that numbers and bounds are natural (the `ASSUME`s of the modules, which TLC
evaluates). `Top4 <= Top6` is a fact of the two address spaces.

Only model-checked is liveness, out of the prover's reach: `StatusConverges`,
`IncidentsConverge`, `CycleEnds`, `LinksConverge`, `FlappingEnds`, `GoneIsForgotten`, `AnalysisEnds` and
`ReplicasConverge`. Every invariant and action property of the passing runs is a theorem.

## 5. Where the code and its documentation differ

Each of these is a run that ends in a counterexample:

- `cascade_immediate`. `COMMANDS.md:138` says the cascade to the children is
  immediate. If a child has two unresolved incidents (of its latency and of its packet
  loss), `scalar_one_or_none` at `monitor.py:383` raises, after the checks
  were committed. It does so in every cycle, for all devices, until the child's own checks,
  which fail below an ancestor that is DOWN, have marked it DOWN themselves.
- `maintenance_stuck`. `monitor.py:10` promises automatic recovery detection. A
  device that has entered maintenance is excluded from all further checks.
- `recovery_lost`. `monitor.py:231` says the recovery resolves the open incidents. If the
  broadcast of a threshold or a query raises before it, `gather` swallows that, the device is
  committed as UP with its outage open, and no later check looks again.
- `broadcast_to_all`. `events.py:26` says "to all connected clients". A list that
  shrinks under its iterator skips one.
- `flap_window`. `config.py:33-34` counts changes in a window; the code's window
  starts again with each change.

Seen while modelling, without a run of their own. In the worker: phase 2 marks a child UP at
once, where its docstring (`monitor.py:353-354`) says it recovers on the next
check; how fast a grandchild recovers (`COMMANDS.md:140`) depends on the order
of the SELECT; a PATCH of the status leaves `consecutive_failures` (`monitor.py:7`);
an outage that was suppressed because of flapping is not announced later, however
long it lasts; the objects of the second SELECT are not refreshed, because the factory sets
`expire_on_commit=False` (`monitor.py:92` calls it fresh state: `Refetch`); devices that are their
own ancestors, which PATCH allows, never recover once DOWN. With two processes: one that had loaded
UNKNOWN commits UP over the other's DOWN and resolves nothing (`Closes`); a counter that was zero
when it was loaded is not reset by UP, whatever the other has counted (`monitor.py:213`, `Merged`);
an outage may have an incident of each, which the report counts twice (`twice`). Elsewhere: two
upserts that have both looked leave two rows, and every later one raises (`thresholds.py:27`,
`Inserts`); a device on a cycle of links counts itself among its affected devices.
`ssh/client.py:123-125` takes a timeout after the reboot for a success, but on Python 3.14
`asyncio.TimeoutError` is an `OSError` and line 119 takes it for a failure (`Reboots!Success`
has what happens). `reports.py:42` clips the start of an incident to the period, but line 35 has
left out the incidents that began before it (`AvailabilityReport!ReachesIn`).
`discovery.py:105` makes an address of the number after the last one, so that a range up to the
last address is answered as empty (`Discovery!Unwalkable`). A threshold of 0 is falsy and
never fires (`monitor.py:316`); an open alert of a metric keeps one of a higher severity
away (`monitor.py:330`). `services.py:39` declares `last_check` as a string, so that the lists of
services fail to serialise once a service has been checked.

## 6. Not modelled

The probes (I/O; their answers are inputs), metrics, severities, texts, authentication,
audit, the single-row endpoints (locations, links, metrics, topology), migrations
and scripts. Most of these add and read single rows and have no step between
which another could come. Creation and deletion of devices, and reopening an incident, are
left out of `Monitor` (reopening is in `AvailabilityReport`). The order of broadcast
messages is not modelled; of their content, `MonitorReplicas` has the status that was
announced. `MonitorReplicas` has one device: a deadlock of two cycles over the rows of two
devices is there only by its outcome, a cycle that is rolled back. The concurrent use of one
`AsyncSession` is modelled by serialised calls and by checks that raise.

## 7. Plan

Done: the worker with its session and API, the detector, the hub, the analysis, the
register of outages that worker and detector implement, several processes, the
service checks, the thresholds, the report, the reboots and the discovery, with the theorems
of section 4. Next, in this order:

1. `MonitorKeepsRegister` with fewer assumptions: an abstract register that knows of an
   incident of another kind, by which the cascade opens none.
2. Two processes with the hierarchy: `MonitorReplicas` with a parent and a child, where the
   commits of the checks and of the propagation interleave.
