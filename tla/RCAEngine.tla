------------------------------ MODULE RCAEngine ------------------------------
(***************************************************************************)
(* The root cause analysis (app/domain/services/rca_engine.py): for every  *)
(* DOWN device a search for the DOWN devices downstream of it, a score,    *)
(* and the ranking of the scores.                                          *)
(*                                                                         *)
(* The search keeps its queue as a set and takes any element: the result   *)
(* does not depend on the order, and the FIFO order is one of them.  So    *)
(* are the orders of the DOWN devices and of the links.                    *)
(***************************************************************************)
EXTENDS Integers, FiniteSets, Sequences

CONSTANTS
  Devices,     \* device ids
  NoDevice,    \* parent_device_id = NULL
  Nodes,       \* the sets of devices build_topology may be given
  Links,       \* the links there may be
  Types,       \* the device types there may be
  Criticals,   \* the devices that may be critical
  Parents      \* the hierarchies there may be

\* TYPE_WEIGHTS, in tenths.
TypeWeights ==
  [router |-> 50, firewall |-> 45, switch |-> 30, access_point |-> 10,
   server |-> 20, ups |-> 40]

ASSUME NetworkAssumption ==
  /\ NoDevice \notin Devices
  /\ Nodes \subseteq SUBSET Devices
  /\ Links \subseteq Devices \X Devices
  /\ Types \subseteq DOMAIN TypeWeights
  /\ Criticals \subseteq Devices
  /\ Parents \subseteq [Devices -> Devices \union {NoDevice}]

\* The devices are the rows of a table.
ASSUME FiniteAssumption == IsFiniteSet(Devices)

VARIABLES
  net,       \* what build_topology was given: nodes, edges, types, ...
  down,      \* down_device_ids
  step,      \* "next device", "search", or "ranked"
  todo,      \* the DOWN devices that have no score yet
  start,     \* the device whose downstream is searched
  queue, visited, affected,   \* the locals of the search
  scores,    \* candidates: the score of each DOWN device, in hundredths
  results    \* the ranked root causes

search == <<start, queue, visited, affected>>
vars   == <<net, down, step, todo, search, scores, results>>

MaxResults == 5

\* All links, those of devices outside the graph included.
AllEdges == net.links

\* The links between devices that are both in the graph.
Edges == {l \in net.links : l[1] \in net.nodes /\ l[2] \in net.nodes}

Children(n) == {l[2] : l \in {e \in Edges : e[1] = n}}

Init ==
  /\ \E nodes \in Nodes, links \in SUBSET Links, types \in [Devices -> Types],
        critical \in SUBSET Criticals, parent \in Parents :
       net = [nodes |-> nodes, links |-> links, types |-> types,
              critical |-> critical, parent |-> parent]
  /\ down \in SUBSET Devices
  /\ step = "next device"
  /\ todo = down \intersect net.nodes
  /\ start = NoDevice
  /\ queue = {} /\ visited = {} /\ affected = {}
  /\ scores = [d \in {} |-> 0]
  /\ results = <<>>

-----------------------------------------------------------------------------
(***************************************************************************)
(* _count_downstream_affected.                                             *)
(***************************************************************************)
StartSearch(d) ==
  /\ step = "next device"
  /\ d \in todo
  /\ step' = "search"
  /\ todo' = todo \ {d}
  /\ start' = d
  /\ queue' = {d} /\ visited' = {} /\ affected' = {}
  /\ UNCHANGED <<net, down, scores, results>>

\* A search that does not go on below a device that is not DOWN.
EnqueuedIfDown(n) == Children(n) \intersect down

Enqueued(n) == Children(n)

Visit(n) ==
  /\ step = "search"
  /\ n \in queue \ visited
  /\ visited' = visited \union {n}
  /\ affected' = affected \union (Children(n) \intersect down)
  /\ queue' = (queue \ {n}) \union Enqueued(n)
  /\ UNCHANGED <<net, down, step, todo, start, scores, results>>

\* A search without `continue': the device is expanded once more.
ExpandAgain(n) ==
  /\ step = "search"
  /\ n \in queue \intersect visited
  /\ queue' = (queue \ {n}) \union Children(n)
  /\ UNCHANGED <<net, down, step, todo, start, visited, affected, scores, results>>

SkipVisited(n) ==
  /\ step = "search"
  /\ n \in queue \intersect visited
  /\ queue' = queue \ {n}
  /\ UNCHANGED <<net, down, step, todo, start, visited, affected, scores, results>>

-----------------------------------------------------------------------------
(***************************************************************************)
(* find_root_causes.                                                       *)
(***************************************************************************)
HasDownUpstream(d) ==
  \/ \E p \in down \ {d} : <<p, d>> \in Edges
  \/ net.parent[d] \in down

\* The penalty given to the devices that deserve none.
PenaltyOnRoots(d) == IF HasDownUpstream(d) THEN 10 ELSE 3

\* upstream_penalty, in tenths.
UpstreamPenalty(d) == IF HasDownUpstream(d) THEN 3 ELSE 10

CriticalBonus(d) == IF d \in net.critical THEN 2 ELSE 1

Weight(d) == TypeWeights[net.types[d]] * CriticalBonus(d)

\* The search is over: the device gets its score.
Score ==
  /\ step = "search"
  /\ queue = {}
  /\ step' = "next device"
  /\ scores' = [d \in DOMAIN scores \union {start} |->
                  IF d = start
                  THEN Cardinality(affected) * Weight(d) * UpstreamPenalty(d)
                  ELSE scores[d]]
  /\ UNCHANGED <<net, down, todo, search, results>>

\* The sort without reverse=True.
AscendingRankings ==
  {r \in [1 .. Cardinality(DOMAIN scores) -> DOMAIN scores] :
     /\ \A i, j \in DOMAIN r : i < j => scores[r[i]] <= scores[r[j]]
     /\ \A i, j \in DOMAIN r : i # j => r[i] # r[j]}

\* The rankings of all candidates: every DOWN device once, in descending
\* order of score; ties are in the order of the input.
Rankings ==
  {r \in [1 .. Cardinality(DOMAIN scores) -> DOMAIN scores] :
     /\ \A i, j \in DOMAIN r : i < j => scores[r[i]] >= scores[r[j]]
     /\ \A i, j \in DOMAIN r : i # j => r[i] # r[j]}

\* score / max(max_score, 1.0), rounded to hundredths.
Confidence(score, top) ==
  LET scale == IF top < 100 THEN 100 ELSE top
      ratio == (200 * score + scale) \div (2 * scale)
  IN  IF ratio > 100 THEN 100 ELSE ratio

Rank ==
  /\ step = "next device"
  /\ todo = {}
  /\ step' = "ranked"
  /\ \E r \in Rankings :
       results' = [i \in 1 .. (IF Len(r) < MaxResults THEN Len(r) ELSE MaxResults) |->
                     [device |-> r[i],
                      confidence |-> Confidence(scores[r[i]], scores[r[1]])]]
  /\ UNCHANGED <<net, down, todo, search, scores>>

Next ==
  \/ \E d \in Devices : StartSearch(d) \/ Visit(d) \/ SkipVisited(d)
  \/ Score
  \/ Rank

Spec == Init /\ [][Next]_vars

\* The analysis is one synchronous call.
FairSpec == Spec /\ WF_vars(Next)

-----------------------------------------------------------------------------
(***************************************************************************)
(* Properties.                                                             *)
(***************************************************************************)

\* Type correctness.
TypeOK ==
  /\ net \in [nodes : Nodes, links : SUBSET Links, types : [Devices -> Types],
              critical : SUBSET Criticals, parent : Parents]
  /\ down \subseteq Devices
  /\ step \in {"next device", "search", "ranked"}
  /\ todo \subseteq down \intersect net.nodes
  /\ start \in Devices \union {NoDevice}
  /\ queue \subseteq net.nodes /\ visited \subseteq net.nodes
  /\ affected \subseteq down \intersect net.nodes
  /\ DOMAIN scores \subseteq down \intersect net.nodes

\* The devices reachable over links, as the least set that is closed.
Closed(S) == \A n \in S : Children(n) \subseteq S

ReachableFrom(d) ==
  {n \in net.nodes : \A S \in SUBSET net.nodes : d \in S /\ Closed(S) => n \in S}

\* The devices at the end of a path of one link or more.
Downstream(d) == UNION {Children(n) : n \in ReachableFrom(d)}

\* _count_downstream_affected: when a search is over it has found exactly the
\* DOWN devices that a path of links leads to, over devices that are up too
\* and in a graph with cycles.
AffectedIsDownstream ==
  step = "search" /\ queue = {} =>
    affected = down \intersect Downstream(start)

\* The strengthening that makes AffectedIsDownstream inductive: what a search
\* has visited or queued can be reached from its start; the start and what the
\* visited devices link to is visited or queued; and the DOWN part of what they
\* link to is affected.
SearchInv ==
  step = "search" =>
    /\ start \in down \intersect net.nodes
    /\ start \in visited \union queue
    /\ visited \union queue \subseteq ReachableFrom(start)
    /\ \A n \in visited : Children(n) \subseteq visited \union queue
    /\ affected = down \intersect UNION {Children(n) : n \in visited}

\* The scores are those of the devices downstream, whatever the order in which
\* the searches went.
ScoreInv ==
  \A d \in DOMAIN scores :
    scores[d] = Cardinality(down \intersect Downstream(d)) * Weight(d) * UpstreamPenalty(d)

\* "Distinguish root cause from collateral damage": a DOWN device without
\* DOWN devices above it scores at least as much as any DOWN device below it
\* whose weight is not larger.
RootOutranksCollateral ==
  \A r, c \in DOMAIN scores :
    /\ ~ HasDownUpstream(r)
    /\ c \in ReachableFrom(r)
    /\ Weight(c) <= Weight(r)
    => scores[c] <= scores[r]

\* "The most probable root cause" is upstream: if the device that the ranking
\* names first is on no cycle of links, there is no DOWN device of at least
\* its weight directly above it.  (On a cycle a device counts itself.)
RootCauseIsUpstream ==
  step = "ranked" /\ results # <<>> =>
    LET top == results[1].device IN
    top \notin Downstream(top) =>
      \A p \in down : <<p, top>> \in Edges => Weight(p) < Weight(top)

\* The analysis ends, in a graph with cycles too, with a ranking of every
\* DOWN device of the graph.
AnalysisEnds == <>(step = "ranked")
=============================================================================
