------------------------------ MODULE RCAProofs ------------------------------
(***************************************************************************)
(* Theorems about the root cause analysis, for every graph (cyclic ones    *)
(* included), every set of DOWN devices and every order of the search.     *)
(***************************************************************************)
EXTENDS RCAEngine, FiniteSetTheorems, TLAPS

-----------------------------------------------------------------------------
(***************************************************************************)
(* Reachability.                                                           *)
(***************************************************************************)

\* A device of the graph reaches itself.
LEMMA ReachesItself ==
  ASSUME NEW d \in net.nodes
  PROVE  d \in ReachableFrom(d)
BY DEF ReachableFrom

\* A link leads from a reachable device to a reachable one.
LEMMA ReachesChildren ==
  ASSUME NEW d, NEW n \in ReachableFrom(d)
  PROVE  Children(n) \subseteq ReachableFrom(d)
<1> SUFFICES ASSUME NEW m \in Children(n)
             PROVE  m \in ReachableFrom(d)
  OBVIOUS
<1>1. m \in net.nodes
  BY DEF Children, Edges
<1>2. ASSUME NEW S \in SUBSET net.nodes, d \in S, Closed(S)
      PROVE  m \in S
  BY <1>2 DEF ReachableFrom, Closed
<1>3. QED
  BY <1>1, <1>2 DEF ReachableFrom

\* What a reachable device reaches is reachable.
LEMMA ReachesFurther ==
  ASSUME NEW d, NEW n \in ReachableFrom(d)
  PROVE  ReachableFrom(n) \subseteq ReachableFrom(d)
BY DEF ReachableFrom

\* And so what is downstream of it is downstream of the first.
LEMMA DownstreamFurther ==
  ASSUME NEW d, NEW n \in ReachableFrom(d)
  PROVE  Downstream(n) \subseteq Downstream(d)
BY ReachesFurther DEF Downstream

\* A set of devices that holds d and all their children, and nothing that d
\* does not reach, is what d reaches.
LEMMA ClosedIsReachable ==
  ASSUME NEW d, NEW S \in SUBSET ReachableFrom(d), d \in S, Closed(S)
  PROVE  S = ReachableFrom(d)
BY DEF ReachableFrom

\* The graph does not change, and neither does what is defined by it.
LEMMA SameGraph ==
  ASSUME net' = net
  PROVE  /\ \A n : Children(n)' = Children(n)
         /\ \A d : ReachableFrom(d)' = ReachableFrom(d)
         /\ \A d : Downstream(d)' = Downstream(d)
<1>1. \A n : Children(n)' = Children(n)
  BY DEF Children, Edges
<1>2. \A S : Closed(S)' = Closed(S)
  BY <1>1 DEF Closed
<1>3. \A d : ReachableFrom(d)' = ReachableFrom(d)
  BY <1>2 DEF ReachableFrom
<1>4. QED
  BY <1>1, <1>3 DEF Downstream

-----------------------------------------------------------------------------
(***************************************************************************)
(* The search.                                                             *)
(***************************************************************************)

\* The parts of the type invariant that the search needs.
LEMMA ChildrenAreNodes ==
  ASSUME NEW n
  PROVE  Children(n) \subseteq net.nodes
BY DEF Children, Edges

\* A visit keeps the invariant of the search.
LEMMA VisitKeepsSearchInv ==
  ASSUME SearchInv, NEW n, Visit(n)
  PROVE  SearchInv'
<1>1. net' = net /\ down' = down /\ start' = start /\ step = "search"
  BY DEF Visit
<1>2. /\ visited' = visited \union {n}
      /\ queue' = (queue \ {n}) \union Children(n)
      /\ affected' = affected \union (Children(n) \intersect down)
      /\ n \in queue
  BY DEF Visit, Enqueued
<1>3. /\ \A m : Children(m)' = Children(m)
      /\ \A d : ReachableFrom(d)' = ReachableFrom(d)
  BY <1>1, SameGraph
<1>4. start' \in visited' \union queue'
  BY <1>1, <1>2 DEF SearchInv
<1>5. visited' \union queue' \subseteq ReachableFrom(start)
  <2>1. n \in ReachableFrom(start)
    BY <1>1, <1>2 DEF SearchInv
  <2>2. Children(n) \subseteq ReachableFrom(start)
    BY <2>1, ReachesChildren
  <2>3. QED
    BY <1>1, <1>2, <2>1, <2>2 DEF SearchInv
<1>6. \A m \in visited' : Children(m) \subseteq visited' \union queue'
  BY <1>1, <1>2 DEF SearchInv
<1>7. affected' = down \intersect UNION {Children(m) : m \in visited'}
  <2>1. affected = down \intersect UNION {Children(m) : m \in visited}
    BY <1>1 DEF SearchInv
  <2>2. QED
    BY <1>2, <2>1
<1>8. start \in down \intersect net.nodes
  BY <1>1 DEF SearchInv
<1>9. QED
  BY <1>1, <1>3, <1>4, <1>5, <1>6, <1>7, <1>8 DEF SearchInv

\* So does the skip of a device that was visited before.
LEMMA SkipKeepsSearchInv ==
  ASSUME SearchInv, NEW n, SkipVisited(n)
  PROVE  SearchInv'
<1>1. /\ net' = net /\ down' = down /\ start' = start /\ step = "search"
      /\ visited' = visited /\ affected' = affected
      /\ queue' = queue \ {n} /\ n \in visited
  BY DEF SkipVisited
<1>2. /\ \A m : Children(m)' = Children(m)
      /\ \A d : ReachableFrom(d)' = ReachableFrom(d)
  BY <1>1, SameGraph
<1>3. QED
  BY <1>1, <1>2 DEF SearchInv

\* What an ended search has found.
LEMMA EndedSearch ==
  ASSUME SearchInv, step = "search", queue = {}
  PROVE  affected = down \intersect Downstream(start)
<1>1. /\ start \in visited
      /\ visited \subseteq ReachableFrom(start)
      /\ Closed(visited)
      /\ affected = down \intersect UNION {Children(n) : n \in visited}
  BY DEF SearchInv, Closed
<1>2. visited = ReachableFrom(start)
  BY <1>1, ClosedIsReachable
<1>3. QED
  BY <1>1, <1>2 DEF Downstream

\* The search keeps its invariant, and its devices are devices of the graph.
IInv == TypeOK /\ SearchInv

LEMMA TypeInit ==
  ASSUME Init
  PROVE  TypeOK
<1>1. net \in [nodes : Nodes, links : SUBSET Links, types : [Devices -> Types],
               critical : SUBSET Criticals, parent : Parents]
  <2>1. PICK nodes \in Nodes, links \in SUBSET Links, types \in [Devices -> Types],
             critical \in SUBSET Criticals, parent \in Parents :
          net = [nodes |-> nodes, links |-> links, types |-> types,
                 critical |-> critical, parent |-> parent]
    BY Zenon DEF Init
  <2>2. QED
    BY <2>1
<1>2. down \subseteq Devices /\ todo = down \intersect net.nodes /\ scores = [d \in {} |-> 0]
  BY DEF Init
<1>3. QED
  BY <1>1, <1>2 DEF Init, TypeOK

LEMMA TypeStep ==
  ASSUME TypeOK, SearchInv, [Next]_vars
  PROVE  TypeOK'
<1> USE DEF TypeOK
<1>1. CASE UNCHANGED vars
  BY <1>1 DEF vars, search
<1>2. ASSUME NEW d \in Devices, StartSearch(d)
      PROVE  TypeOK'
  BY <1>2 DEF StartSearch
<1>3. ASSUME NEW d \in Devices, Visit(d)
      PROVE  TypeOK'
  <2>1. Children(d) \subseteq net.nodes
    BY ChildrenAreNodes
  <2>2. QED
    BY <1>3, <2>1 DEF Visit, Enqueued
<1>4. ASSUME NEW d \in Devices, SkipVisited(d)
      PROVE  TypeOK'
  BY <1>4 DEF SkipVisited
<1>5. CASE Score
  <2>1. start \in down \intersect net.nodes
    BY <1>5 DEF Score, SearchInv
  <2>2. QED
    BY <1>5, <2>1 DEF Score, search
<1>6. CASE Rank
  BY <1>6 DEF Rank, search
<1>7. QED
  BY <1>1, <1>2, <1>3, <1>4, <1>5, <1>6 DEF Next

LEMMA SearchStep ==
  ASSUME TypeOK, SearchInv, [Next]_vars
  PROVE  SearchInv'
<1>1. CASE UNCHANGED vars
  <2>1. net' = net
    BY <1>1 DEF vars
  <2>2. QED
    BY <1>1, <2>1, SameGraph DEF vars, search, SearchInv
<1>2. ASSUME NEW d \in Devices, StartSearch(d)
      PROVE  SearchInv'
  <2>1. net' = net /\ down' = down
    BY <1>2 DEF StartSearch
  <2>2. d \in down \intersect net.nodes
    BY <1>2 DEF StartSearch, TypeOK
  <2>3. d \in ReachableFrom(d) /\ ReachableFrom(d)' = ReachableFrom(d)
    BY <2>1, <2>2, ReachesItself, SameGraph
  <2>4. start' = d /\ queue' = {d} /\ visited' = {} /\ affected' = {}
    BY <1>2 DEF StartSearch
  <2>5. QED
    BY <2>1, <2>2, <2>3, <2>4 DEF SearchInv
<1>3. ASSUME NEW d \in Devices, Visit(d)
      PROVE  SearchInv'
  BY <1>3, VisitKeepsSearchInv
<1>4. ASSUME NEW d \in Devices, SkipVisited(d)
      PROVE  SearchInv'
  BY <1>4, SkipKeepsSearchInv
<1>5. CASE Score
  BY <1>5 DEF Score, SearchInv
<1>6. CASE Rank
  BY <1>6 DEF Rank, SearchInv
<1>7. QED
  BY <1>1, <1>2, <1>3, <1>4, <1>5, <1>6 DEF Next

LEMMA Invariance == Spec => []IInv
<1>1. Init => IInv
  BY TypeInit DEF IInv, Init, SearchInv
<1>2. IInv /\ [Next]_vars => IInv'
  BY TypeStep, SearchStep DEF IInv
<1>3. QED
  BY <1>1, <1>2, PTL DEF Spec

\* Every variable of the analysis keeps its type: only devices of the graph are
\* searched, and only DOWN ones of them are affected or scored.
THEOREM AnalysisTypeCorrect == Spec => []TypeOK
<1>1. IInv => TypeOK
  BY DEF IInv
<1>2. QED
  BY <1>1, Invariance, PTL

\* _count_downstream_affected: a search that ends has found exactly the DOWN
\* devices downstream of its start, in every graph.
THEOREM SearchFindsDownstream == Spec => []AffectedIsDownstream
<1>1. IInv => AffectedIsDownstream
  BY EndedSearch DEF IInv, AffectedIsDownstream
<1>2. QED
  BY <1>1, Invariance, PTL

-----------------------------------------------------------------------------
(***************************************************************************)
(* The scores.                                                             *)
(***************************************************************************)

\* Multiplication is monotonic.
LEMMA ProductGrows ==
  ASSUME NEW a \in Nat, NEW b \in Nat, NEW k \in Nat, a <= b
  PROVE  a * k <= b * k
<1>1. PICK n \in Nat : b = a + n
  <2>1. b - a \in Nat /\ b = a + (b - a)
    OBVIOUS
  <2>2. QED
    BY <2>1
<1>2. b * k = a * k + n * k
  BY <1>1
<1>3. a * k \in Nat /\ n * k \in Nat
  BY <1>1
<1>4. QED
  BY <1>2, <1>3

\* The weights are natural numbers.
LEMMA WeightType ==
  ASSUME NetworkAssumption, TypeOK, NEW d \in Devices
  PROVE  Weight(d) \in Nat
<1>1. net.types[d] \in DOMAIN TypeWeights
  BY DEF NetworkAssumption, TypeOK
<1>2. TypeWeights[net.types[d]] \in Nat
  BY <1>1 DEF TypeWeights
<1>3. CriticalBonus(d) \in Nat
  BY DEF CriticalBonus
<1>4. QED
  BY <1>2, <1>3 DEF Weight

\* The number of DOWN devices downstream grows with the set.
LEMMA FewerDownstream ==
  ASSUME FiniteAssumption, TypeOK, NEW S, NEW T, S \subseteq T
  PROVE  /\ Cardinality(down \intersect S) \in Nat
         /\ Cardinality(down \intersect T) \in Nat
         /\ Cardinality(down \intersect S) <= Cardinality(down \intersect T)
<1>1. IsFiniteSet(down \intersect T) /\ IsFiniteSet(down \intersect S)
  BY FS_Subset DEF FiniteAssumption, TypeOK
<1>2. down \intersect S \subseteq down \intersect T
  OBVIOUS
<1>3. QED
  BY <1>1, <1>2, FS_Subset, FS_CardinalityType

\* A score is that of what is downstream.
LEMMA ScoreStep ==
  ASSUME SearchInv, ScoreInv, [Next]_vars
  PROVE  ScoreInv'
<1>1. net' = net /\ down' = down
  BY DEF Next, vars, search, StartSearch, Visit, SkipVisited, Score, Rank
<1>2. \A d : /\ Downstream(d)' = Downstream(d)
             /\ Weight(d)' = Weight(d)
             /\ UpstreamPenalty(d)' = UpstreamPenalty(d)
  <2>1. \A d : Downstream(d)' = Downstream(d)
    BY <1>1, SameGraph
  <2>2. \A d : Weight(d)' = Weight(d)
    BY <1>1 DEF Weight, CriticalBonus
  <2>3. \A d : UpstreamPenalty(d)' = UpstreamPenalty(d)
    BY <1>1 DEF UpstreamPenalty, HasDownUpstream, Edges
  <2>4. QED
    BY <2>1, <2>2, <2>3
<1>3. CASE scores' = scores
  BY <1>1, <1>2, <1>3 DEF ScoreInv
<1>4. CASE Score
  <2>1. affected = down \intersect Downstream(start)
    BY <1>4, EndedSearch DEF Score
  <2>2. scores' = [d \in DOMAIN scores \union {start} |->
                     IF d = start
                     THEN Cardinality(affected) * Weight(d) * UpstreamPenalty(d)
                     ELSE scores[d]]
    BY <1>4 DEF Score
  <2>3. \A d \in DOMAIN scores' :
          scores'[d] = Cardinality(down \intersect Downstream(d)) * Weight(d) * UpstreamPenalty(d)
    BY <2>1, <2>2 DEF ScoreInv
  <2>4. QED
    BY <1>1, <1>2, <2>3 DEF ScoreInv
<1>5. QED
  BY <1>3, <1>4 DEF Next, vars, StartSearch, Visit, SkipVisited, Rank

LEMMA ScoreInvariance == Spec => []ScoreInv
<1>1. Init => ScoreInv
  BY DEF Init, ScoreInv
<1>2. IInv /\ ScoreInv /\ [Next]_vars => ScoreInv'
  BY ScoreStep DEF IInv
<1>3. QED
  BY <1>1, <1>2, Invariance, PTL DEF Spec

\* Collateral damage does not outrank its cause: a DOWN device with no DOWN
\* device above it scores at least as much as a device it reaches whose weight
\* is not larger.
THEOREM CauseOutranksDamage == Spec => []RootOutranksCollateral
<1>1. IInv /\ ScoreInv => RootOutranksCollateral
  <2> SUFFICES ASSUME TypeOK, ScoreInv, NEW r \in DOMAIN scores, NEW c \in DOMAIN scores,
                      ~ HasDownUpstream(r), c \in ReachableFrom(r), Weight(c) <= Weight(r)
               PROVE  scores[c] <= scores[r]
    BY DEF IInv, RootOutranksCollateral
  <2> DEFINE below(d) == Cardinality(down \intersect Downstream(d))
  <2>1. r \in Devices /\ c \in Devices
    BY DEF TypeOK
  <2>2. Weight(r) \in Nat /\ Weight(c) \in Nat
    BY <2>1, NetworkAssumption, WeightType
  <2>3. below(c) \in Nat /\ below(r) \in Nat /\ below(c) <= below(r)
    BY DownstreamFurther, FewerDownstream, FiniteAssumption
  <2>4. /\ scores[c] = below(c) * Weight(c) * UpstreamPenalty(c)
        /\ scores[r] = below(r) * Weight(r) * 10
    BY DEF ScoreInv, UpstreamPenalty
  <2>5. UpstreamPenalty(c) \in Nat /\ UpstreamPenalty(c) <= 10
    BY DEF UpstreamPenalty
  <2> HIDE DEF below
  <2>6. below(c) * Weight(c) <= below(r) * Weight(r)
    <3>1. below(c) * Weight(c) <= below(r) * Weight(c)
      BY <2>2, <2>3, ProductGrows
    <3>2. Weight(c) * below(r) <= Weight(r) * below(r)
      BY <2>2, <2>3, ProductGrows
    <3>3. QED
      BY <2>2, <2>3, <3>1, <3>2
  <2>7. below(c) * Weight(c) \in Nat /\ below(r) * Weight(r) \in Nat
    BY <2>2, <2>3
  <2>8. below(c) * Weight(c) * UpstreamPenalty(c) <= below(c) * Weight(c) * 10
    <3>1. UpstreamPenalty(c) * (below(c) * Weight(c)) <= 10 * (below(c) * Weight(c))
      BY <2>5, <2>7, ProductGrows
    <3>2. QED
      BY <2>5, <2>7, <3>1
  <2>9. QED
    BY <2>4, <2>5, <2>6, <2>7, <2>8
<1>2. QED
  BY <1>1, Invariance, ScoreInvariance, PTL

-----------------------------------------------------------------------------
(***************************************************************************)
(* The ranking.                                                            *)
(***************************************************************************)

\* The DOWN devices of the graph are the ones that wait for a score, the one
\* whose downstream is searched, and the candidates: none is left out.
NobodyForgotten ==
  /\ down \intersect net.nodes
       = todo \union DOMAIN scores \union (IF step = "search" THEN {start} ELSE {})
  /\ step = "ranked" => todo = {}

\* The first result is a candidate that no other outranks.
FirstIsHighest ==
  step = "ranked" /\ results # <<>> =>
    /\ results[1].device \in DOMAIN scores
    /\ \A d \in DOMAIN scores : scores[d] <= scores[results[1].device]

LEMMA NobodyForgottenStep ==
  ASSUME TypeOK, NobodyForgotten, [Next]_vars
  PROVE  NobodyForgotten'
<1> USE DEF NobodyForgotten
<1>1. CASE UNCHANGED vars
  BY <1>1 DEF vars, search
<1>2. ASSUME NEW d \in Devices, StartSearch(d)
      PROVE  NobodyForgotten'
  BY <1>2 DEF StartSearch
<1>3. ASSUME NEW d \in Devices, Visit(d) \/ SkipVisited(d)
      PROVE  NobodyForgotten'
  BY <1>3 DEF Visit, SkipVisited
<1>4. CASE Score
  <2>1. DOMAIN scores' = DOMAIN scores \union {start}
    BY <1>4 DEF Score
  <2>2. QED
    BY <1>4, <2>1 DEF Score, search
<1>5. CASE Rank
  BY <1>5 DEF Rank, search
<1>6. QED
  BY <1>1, <1>2, <1>3, <1>4, <1>5 DEF Next

\* A score is a natural number.
LEMMA ScoreType ==
  ASSUME NetworkAssumption, FiniteAssumption, TypeOK, ScoreInv, NEW d \in DOMAIN scores
  PROVE  scores[d] \in Nat
<1>1. d \in Devices
  BY DEF TypeOK
<1>2. Weight(d) \in Nat
  BY <1>1, WeightType
<1>3. Cardinality(down \intersect Downstream(d)) \in Nat
  BY FewerDownstream
<1>4. UpstreamPenalty(d) \in Nat
  BY DEF UpstreamPenalty
<1>5. scores[d] = Cardinality(down \intersect Downstream(d)) * Weight(d) * UpstreamPenalty(d)
  BY DEF ScoreInv
<1> QED BY <1>2, <1>3, <1>4, <1>5

\* A ranking names every candidate, and the first of them has the highest
\* score.
LEMMA RankingIsComplete ==
  ASSUME NEW D, IsFiniteSet(D), NEW sc, \A d \in D : sc[d] \in Nat,
         NEW r \in [1 .. Cardinality(D) -> D],
         \A i, j \in DOMAIN r : i < j => sc[r[i]] >= sc[r[j]],
         \A i, j \in DOMAIN r : i # j => r[i] # r[j],
         NEW d \in D
  PROVE  /\ Cardinality(D) \in Nat /\ Cardinality(D) >= 1
         /\ sc[d] <= sc[r[1]]
<1> DEFINE n == Cardinality(D)
<1>1. n \in Nat /\ n # 0
  BY FS_CardinalityType, FS_EmptySet
<1>2. Cardinality(1 .. n) = n
  <2> HIDE DEF n
  <2> QED BY <1>1, FS_Interval
<1>3. r \in Injection(1 .. n, D)
  BY DEF Injection, IsInjective
<1>4. r \in Surjection(1 .. n, D)
  <2> HIDE DEF n
  <2>1. n = Cardinality(D)
    BY DEF n
  <2> QED BY <1>2, <1>3, <2>1, FS_Injection
<1>5. PICK j \in 1 .. n : r[j] = d
  BY <1>4 DEF Surjection
<1>6. 1 \in 1 .. n /\ r[1] \in D
  BY <1>1
<1>7. sc[d] <= sc[r[1]]
  <2>1. CASE j = 1
    BY <1>5, <1>6, <2>1
  <2>2. CASE j # 1
    <3>1. 1 < j /\ j \in DOMAIN r /\ 1 \in DOMAIN r
      BY <1>1, <1>6, <2>2
    <3> QED BY <1>5, <1>6, <3>1
  <2> QED BY <2>1, <2>2
<1> QED BY <1>1, <1>7

LEMMA FirstIsHighestStep ==
  ASSUME NetworkAssumption, FiniteAssumption, TypeOK, ScoreInv, FirstIsHighest, [Next]_vars
  PROVE  FirstIsHighest'
<1>1. CASE UNCHANGED vars
  BY <1>1 DEF vars, FirstIsHighest
<1>2. CASE Rank
  <2> SUFFICES ASSUME results' # <<>>
               PROVE  /\ results'[1].device \in DOMAIN scores
                      /\ \A d \in DOMAIN scores : scores[d] <= scores[results'[1].device]
    BY <1>2 DEF Rank, FirstIsHighest
  <2> DEFINE n == Cardinality(DOMAIN scores)
  <2>1. PICK r \in Rankings :
          results' = [i \in 1 .. (IF Len(r) < MaxResults THEN Len(r) ELSE MaxResults) |->
                        [device |-> r[i],
                         confidence |-> Confidence(scores[r[i]], scores[r[1]])]]
    BY <1>2, Zenon DEF Rank
  <2>2. IsFiniteSet(DOMAIN scores) /\ n \in Nat
    BY FS_Subset, FS_CardinalityType DEF FiniteAssumption, TypeOK
  <2>3. /\ r \in [1 .. n -> DOMAIN scores]
        /\ \A i, j \in DOMAIN r : i < j => scores[r[i]] >= scores[r[j]]
        /\ \A i, j \in DOMAIN r : i # j => r[i] # r[j]
    BY <2>1, Zenon DEF Rankings
  <2>4. Len(r) = n
    <3> HIDE DEF n
    <3> QED BY <2>2, <2>3
  <2>5. n >= 1
    <3>1. ASSUME n = 0 PROVE FALSE
      <4>1. results' = [i \in 1 .. 0 |->
                        [device |-> r[i],
                         confidence |-> Confidence(scores[r[i]], scores[r[1]])]]
        BY <2>1, <2>4, <3>1 DEF MaxResults
      <4>2. 1 .. 0 = {}
        OBVIOUS
      <4> QED BY <4>1, <4>2
    <3> HIDE DEF n
    <3> QED BY <2>2, <3>1
  <2>6. results'[1].device = r[1]
    <3>1. 1 \in 1 .. (IF Len(r) < MaxResults THEN Len(r) ELSE MaxResults)
      <4> HIDE DEF n
      <4> QED BY <2>2, <2>4, <2>5 DEF MaxResults
    <3> QED BY <2>1, <3>1
  <2>7. r[1] \in DOMAIN scores
    <3> HIDE DEF n
    <3> QED BY <2>2, <2>3, <2>5
  <2>8. \A d \in DOMAIN scores : scores[d] \in Nat
    BY ScoreType
  <2>9. \A d \in DOMAIN scores : scores[d] <= scores[r[1]]
    BY <2>2, <2>3, <2>8, RankingIsComplete
  <2> QED BY <2>6, <2>7, <2>9
<1>3. CASE step' # "ranked"
  BY <1>3 DEF FirstIsHighest
<1>4. ASSUME NEW d \in Devices, StartSearch(d) \/ Visit(d) \/ SkipVisited(d)
      PROVE  step' # "ranked"
  BY <1>4 DEF StartSearch, Visit, SkipVisited
<1>5. CASE Score
  BY <1>3, <1>5 DEF Score
<1> QED BY <1>1, <1>2, <1>3, <1>4, <1>5 DEF Next

LEMMA RankingInvariance == Spec => [](NobodyForgotten /\ FirstIsHighest)
<1>1. Init => NobodyForgotten /\ FirstIsHighest
  <2>1. Init => NobodyForgotten
    BY DEF Init, NobodyForgotten
  <2> QED BY <2>1 DEF Init, FirstIsHighest
<1>2. /\ IInv /\ ScoreInv /\ NobodyForgotten /\ FirstIsHighest /\ [Next]_vars
      => (NobodyForgotten /\ FirstIsHighest)'
  BY NobodyForgottenStep, FirstIsHighestStep, NetworkAssumption, FiniteAssumption DEF IInv
<1> QED BY <1>1, <1>2, Invariance, ScoreInvariance, PTL DEF Spec

\* A DOWN device that is on no path back to itself has fewer DOWN devices
\* below it than a DOWN device that links to it.
LEMMA ParentHasMoreBelow ==
  ASSUME FiniteAssumption, TypeOK, NEW top \in down \intersect net.nodes,
         NEW p \in net.nodes, <<p, top>> \in Edges, top \notin Downstream(top)
  PROVE  /\ Cardinality(down \intersect Downstream(top)) \in Nat
         /\ Cardinality(down \intersect Downstream(p)) \in Nat
         /\ Cardinality(down \intersect Downstream(top)) + 1
              <= Cardinality(down \intersect Downstream(p))
<1> DEFINE S == down \intersect Downstream(top)
           T == down \intersect Downstream(p)
<1>1. top \in Children(p)
  BY DEF Children
<1>2. p \in ReachableFrom(p)
  BY ReachesItself
<1>3. top \in Downstream(p)
  BY <1>1, <1>2 DEF Downstream
<1>4. Downstream(top) \subseteq Downstream(p)
  BY <1>1, <1>2, ReachesChildren, DownstreamFurther
<1>5. S \union {top} \subseteq T /\ top \notin S
  BY <1>3, <1>4
<1>6. IsFiniteSet(S) /\ IsFiniteSet(T) /\ Cardinality(S) \in Nat /\ Cardinality(T) \in Nat
  BY FS_Subset, FS_CardinalityType DEF FiniteAssumption, TypeOK
<1>7. /\ IsFiniteSet(S \union {top})
      /\ Cardinality(S \union {top}) = Cardinality(S) + 1
  <2> HIDE DEF S, T
  <2> QED BY <1>5, <1>6, FS_AddElement
<1>8. Cardinality(S \union {top}) <= Cardinality(T)
  <2> HIDE DEF S, T
  <2> QED BY <1>5, <1>6, <1>7, FS_Subset
<1> QED BY <1>6, <1>7, <1>8

\* A product grows with each of its factors.
LEMMA ProductsGrow ==
  ASSUME NEW a \in Nat, NEW b \in Nat, NEW v \in Nat, NEW w \in Nat,
         NEW x \in Nat, NEW y \in Nat,
         a + 1 <= b, v <= w, x <= y, w >= 1, y >= 1
  PROVE  a * v * x < b * w * y
<1>1. a * v <= a * w /\ a * v \in Nat /\ a * w \in Nat
  BY ProductGrows
<1>2. (a + 1) * w <= b * w /\ b * w \in Nat
  BY ProductGrows
<1>3. (a + 1) * w = a * w + w
  OBVIOUS
<1> DEFINE m == a * v
           k == b * w
<1>4. m \in Nat /\ k \in Nat /\ m + 1 <= k
  BY <1>1, <1>2, <1>3
<1> HIDE DEF m, k
<1>5. m * x <= m * y /\ m * x \in Nat /\ m * y \in Nat
  BY <1>4, ProductGrows
<1>6. (m + 1) * y <= k * y /\ k * y \in Nat
  BY <1>4, ProductGrows
<1>7. (m + 1) * y = m * y + y
  BY <1>4
<1>8. m * x < k * y
  BY <1>5, <1>6, <1>7
<1> QED BY <1>8 DEF m, k

\* "The most probable root cause" is upstream, in every graph: no DOWN device of
\* at least its weight links to the device that the ranking names first, unless
\* that device is on a cycle.
THEOREM FirstIsUpstream == Spec => []RootCauseIsUpstream
<1>1. IInv /\ ScoreInv /\ NobodyForgotten /\ FirstIsHighest => RootCauseIsUpstream
  <2> SUFFICES ASSUME TypeOK, ScoreInv, NobodyForgotten, FirstIsHighest,
                      step = "ranked", results # <<>>,
                      results[1].device \notin Downstream(results[1].device),
                      NEW p \in down, <<p, results[1].device>> \in Edges,
                      ~ (Weight(p) < Weight(results[1].device))
               PROVE  FALSE
    BY DEF IInv, RootCauseIsUpstream
  <2> DEFINE top == results[1].device
             below(d) == Cardinality(down \intersect Downstream(d))
  <2>1. top \in DOMAIN scores /\ \A d \in DOMAIN scores : scores[d] <= scores[top]
    BY DEF FirstIsHighest
  <2>2. p \in net.nodes /\ <<p, top>> \in Edges
    BY DEF Edges
  <2>3. p \in DOMAIN scores
    BY <2>2 DEF NobodyForgotten
  <2>4. top \in down \intersect net.nodes /\ top \in Devices /\ p \in Devices
    BY <2>1 DEF TypeOK
  <2>5. below(top) \in Nat /\ below(p) \in Nat /\ below(top) + 1 <= below(p)
    BY <2>2, <2>4, ParentHasMoreBelow, FiniteAssumption
  <2>6. Weight(top) \in Nat /\ Weight(p) \in Nat
    BY <2>4, WeightType, NetworkAssumption
  <2>7. Weight(p) >= 1
    <3>1. net.types[p] \in DOMAIN TypeWeights
      BY <2>4, NetworkAssumption DEF NetworkAssumption, TypeOK
    <3>2. TypeWeights[net.types[p]] \in Nat /\ TypeWeights[net.types[p]] >= 1
      BY <3>1 DEF TypeWeights
    <3> QED BY <3>2 DEF Weight, CriticalBonus
  <2>8. p # top
    <3>1. top \in Children(p)
      BY <2>2 DEF Children
    <3>2. p \in ReachableFrom(p)
      BY <2>2, ReachesItself
    <3> QED BY <3>1, <3>2 DEF Downstream
  <2>9. UpstreamPenalty(top) = 3
    <3>1. HasDownUpstream(top)
      BY <2>2, <2>8 DEF HasDownUpstream
    <3> QED BY <3>1 DEF UpstreamPenalty
  <2>10. UpstreamPenalty(p) \in Nat /\ UpstreamPenalty(p) >= 3
    BY DEF UpstreamPenalty
  <2>11. /\ scores[top] = below(top) * Weight(top) * UpstreamPenalty(top)
         /\ scores[p] = below(p) * Weight(p) * UpstreamPenalty(p)
    BY <2>1, <2>3 DEF ScoreInv
  <2>12. Weight(top) <= Weight(p)
    BY <2>6
  <2> HIDE DEF below, top
  <2>13. scores[top] < scores[p]
    <3>1. UpstreamPenalty(top) \in Nat /\ UpstreamPenalty(top) <= UpstreamPenalty(p)
      BY <2>9, <2>10
    <3>2. UpstreamPenalty(p) >= 1
      BY <2>10
    <3>3. below(top) * Weight(top) * UpstreamPenalty(top)
            < below(p) * Weight(p) * UpstreamPenalty(p)
      BY <2>5, <2>6, <2>7, <2>10, <2>12, <3>1, <3>2, ProductsGrow
    <3> QED BY <2>11, <3>3
  <2>14. scores[top] \in Nat /\ scores[p] \in Nat /\ scores[p] <= scores[top]
    BY <2>1, <2>3, ScoreType, NetworkAssumption, FiniteAssumption
  <2> QED BY <2>13, <2>14
<1> QED BY <1>1, Invariance, ScoreInvariance, RankingInvariance, PTL
=============================================================================
