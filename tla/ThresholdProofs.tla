---------------------------- MODULE ThresholdProofs ----------------------------
(***************************************************************************)
(* Theorems about Thresholds: any number of requests at a time.            *)
(***************************************************************************)
EXTENDS Thresholds, FiniteSetTheorems, TLAPS

\* An update that has the lock of its row finds the row there.
LockInv == \A c \in Callers : put[c].at = "locking" => put[c].key \in Keep

Inv ==
  /\ TypeOK /\ LockInv /\ IsFiniteSet(Keep)
  /\ DuplicatesAreBounded /\ StoredAsAsked

LEMMA PutFacts ==
  ASSUME TypeOK, NEW c \in Callers
  PROVE  /\ put[c].at \in {"idle", "updating", "locking", "inserting"}
         /\ put[c].at = "inserting" => put[c].body \in AlertThreshold
         /\ put[c].at \in {"updating", "locking"} =>
              /\ put[c].key \in Keys
              /\ put[c].seen \in AlertThreshold /\ put[c].body \in AlertThreshold
BY DEF TypeOK, Looked, Served

LEMMA MergedType ==
  ASSUME TypeOK, LockInv, NEW c \in Callers, put[c].at = "locking"
  PROVE  /\ put[c].key \in Keep /\ Merged(c) \in AlertThreshold
         /\ put[c].seen = stored[put[c].key] => Merged(c) = put[c].body
<1>1. /\ put[c].seen \in AlertThreshold /\ put[c].body \in AlertThreshold
      /\ put[c].key \in Keep /\ stored[put[c].key] \in AlertThreshold
  BY PutFacts DEF LockInv, TypeOK
<1> QED BY <1>1 DEF Merged, AlertThreshold

LEMMA InitInv == ASSUME IsFiniteSet(Callers), Init PROVE Inv
<1> USE DEF Init
<1>1. Keep = {} BY DEF Keep
<1>2. TypeOK BY <1>1 DEF TypeOK, Keep
<1>3. Inserting = {} BY DEF Inserting, Served
<1>4. Cardinality(Callers) \in Nat BY FS_CardinalityType
<1>5. DuplicatesAreBounded BY <1>1, <1>3, <1>4, FS_EmptySet DEF DuplicatesAreBounded
<1> QED BY <1>1, <1>2, <1>5, FS_EmptySet DEF Inv, LockInv, Served, StoredAsAsked

\* What a step does to the rows and to the requests that are about to insert.
LEMMA Counting ==
  ASSUME IsFiniteSet(Callers), Inv
  PROVE  /\ IsFiniteSet(Inserting) /\ Cardinality(Inserting) \in Nat
         /\ Cardinality(Keep) \in Nat /\ Cardinality(Callers) \in Nat
         /\ \A S \in SUBSET Callers :
              Cardinality(S) \in Nat /\ Cardinality(S) <= Cardinality(Callers)
<1>1. Inserting \subseteq Callers BY DEF Inserting
<1> QED BY <1>1, FS_Subset, FS_CardinalityType DEF Inv

LEMMA LookStep ==
  ASSUME IsFiniteSet(Callers), Inv, NEW c \in Callers, NEW body \in AlertThreshold,
         Look(c, body)
  PROVE  Inv'
<1>0. TypeOK /\ LockInv /\ DuplicatesAreBounded /\ StoredAsAsked BY DEF Inv
<1>1. UNCHANGED <<stored, asked, stale>> /\ Keep' = Keep BY DEF Look, Keep
<1>2. \A k \in Keep : stored[k] \in AlertThreshold /\ k \in Keys BY <1>0 DEF TypeOK
<1>3. TypeOK' /\ LockInv'
  <2>1. \E p \in Looked : /\ put' = [put EXCEPT ![c] = p] /\ p.at # "locking"
    <3>1. CASE put' = [put EXCEPT ![c] = [at |-> "inserting", body |-> body]]
      <4>1. [at |-> "inserting", body |-> body] \in Looked BY DEF Looked
      <4> QED BY <3>1, <4>1
    <3>2. ASSUME NEW k \in Keep,
                 put' = [put EXCEPT ![c] = [at |-> "updating", key |-> k,
                                            seen |-> stored[k], body |-> body]]
          PROVE  \E p \in Looked : put' = [put EXCEPT ![c] = p] /\ p.at # "locking"
      <4> DEFINE p == [at |-> "updating", key |-> k, seen |-> stored[k], body |-> body]
      <4>1. p \in Looked /\ p.at # "locking" BY <1>2 DEF Looked
      <4>2. put' = [put EXCEPT ![c] = p] BY <3>2
      <4> QED BY <4>1, <4>2
    <3> QED BY <3>1, <3>2 DEF Look
  <2>2. PICK p \in Looked : put' = [put EXCEPT ![c] = p] /\ p.at # "locking" BY <2>1
  <2>3. put' \in [Callers -> {Served} \union Looked] BY <1>0, <2>2 DEF TypeOK
  <2>4. TypeOK' BY <1>0, <1>1, <2>3 DEF TypeOK, Keep
  <2>5. LockInv' BY <1>0, <1>1, <2>2 DEF LockInv, TypeOK
  <2> QED BY <2>4, <2>5
<1>4. DuplicatesAreBounded'
  <2>1. CASE Inserts
    <3>1. Keep' = {} BY <1>1, <2>1 DEF Inserts
    <3>2. Inserting' \subseteq Callers BY DEF Inserting
    <3>3. Cardinality(Keep') = 0 BY <3>1, FS_EmptySet
    <3> QED BY <3>2, <3>3, Counting DEF DuplicatesAreBounded
  <2>2. CASE ~ Inserts
    <3>1. Inserting' = Inserting
      BY <1>0, <2>2 DEF Look, Inserting, TypeOK
    <3> QED BY <1>0, <1>1, <3>1 DEF DuplicatesAreBounded
  <2> QED BY <2>1, <2>2
<1> QED BY <1>0, <1>1, <1>3, <1>4 DEF Inv, StoredAsAsked, Keep

LEMMA InsertStep ==
  ASSUME IsFiniteSet(Callers), Inv, NEW c \in Callers, Insert(c) PROVE Inv'
<1>0. TypeOK /\ LockInv /\ DuplicatesAreBounded /\ IsFiniteSet(Keep) BY DEF Inv
<1>1. PICK k \in Keys \ Keep :
        stored' = [j \in Keep \union {k} |-> IF j = k THEN put[c].body ELSE stored[j]]
  BY Zenon DEF Insert
<1>2. Keep' = Keep \union {k} BY <1>1 DEF Keep
<1>3. put[c].at = "inserting" /\ put[c].body \in AlertThreshold
  BY <1>0, PutFacts DEF Insert
<1>4. put' = [put EXCEPT ![c] = Served] /\ asked' = put[c].body /\ stale' = FALSE
  BY DEF Insert
<1>5. Keep' \subseteq Keys BY <1>0, <1>2 DEF TypeOK
<1>6. \A j \in Keep' : stored'[j] \in AlertThreshold
  BY <1>0, <1>1, <1>2, <1>3 DEF TypeOK
<1>7. TypeOK' BY <1>0, <1>3, <1>4, <1>5, <1>6 DEF TypeOK
<1>8. LockInv' BY <1>0, <1>2, <1>4 DEF LockInv, TypeOK, Served
<1>9. Inserting' = Inserting \ {c} /\ c \in Inserting
  BY <1>0, <1>3, <1>4 DEF Inserting, TypeOK, Served
<1>10. DuplicatesAreBounded'
  <2>1. Cardinality(Inserting') = Cardinality(Inserting) - 1
    BY <1>9, Counting, FS_RemoveElement
  <2>2. Cardinality(Keep') = Cardinality(Keep) + 1 BY <1>0, <1>2, FS_AddElement
  <2> QED BY <1>0, <2>1, <2>2, Counting DEF DuplicatesAreBounded
<1>11. IsFiniteSet(Keep') BY <1>0, <1>2, FS_AddElement
<1>12. StoredAsAsked' BY <1>1, <1>2, <1>4 DEF StoredAsAsked
<1> QED BY <1>7, <1>8, <1>10, <1>11, <1>12 DEF Inv

\* Steps that add no row and no request about to insert one.
LEMMA SmallerStep ==
  ASSUME IsFiniteSet(Callers), Inv, Keep' \subseteq Keep, Inserting' \subseteq Inserting
  PROVE  DuplicatesAreBounded' /\ IsFiniteSet(Keep')
<1>1. IsFiniteSet(Keep) /\ DuplicatesAreBounded BY DEF Inv
<1>2. /\ Cardinality(Keep') <= Cardinality(Keep) /\ IsFiniteSet(Keep')
      /\ Cardinality(Keep') \in Nat
  BY <1>1, FS_Subset, FS_CardinalityType
<1>3. /\ Cardinality(Inserting') <= Cardinality(Inserting) /\ Cardinality(Inserting') \in Nat
  BY Counting, FS_Subset, FS_CardinalityType
<1> QED BY <1>1, <1>2, <1>3, Counting DEF DuplicatesAreBounded

LEMMA FlushStep ==
  ASSUME IsFiniteSet(Callers), Inv, NEW c \in Callers, Flush(c) PROVE Inv'
<1>0. TypeOK /\ LockInv /\ StoredAsAsked BY DEF Inv
<1>1. /\ put[c].at = "updating" /\ stored' = stored /\ Keep' = Keep
      /\ put[c].key \in Keys /\ put[c].seen \in AlertThreshold
      /\ put[c].body \in AlertThreshold
  BY <1>0, PutFacts DEF Flush, Keep
<1>2. \/ put' = [put EXCEPT ![c] = Served]
      \/ put' = [put EXCEPT ![c].at = "locking"] /\ put[c].key \in Keep
  BY DEF Flush
<1>a. put[c] \in [at : {"updating", "locking"}, key : Keys, seen : AlertThreshold,
                  body : AlertThreshold]
  BY <1>0, <1>1 DEF TypeOK, Looked, Served
<1> DEFINE locked == [put[c] EXCEPT !.at = "locking"]
<1>b. locked \in Looked /\ locked.at = "locking" /\ locked.key = put[c].key
  BY <1>a DEF Looked
<1>c. \/ put' = [put EXCEPT ![c] = Served]
      \/ put' = [put EXCEPT ![c] = locked] /\ locked.key \in Keep
  BY <1>2, <1>b
<1> HIDE DEF locked
<1>3. put' \in [Callers -> {Served} \union Looked]
  BY <1>0, <1>b, <1>c DEF TypeOK
<1>4. asked' \in AlertThreshold /\ stale' \in BOOLEAN
  BY <1>0, <1>1 DEF Flush, TypeOK
<1>5. TypeOK' BY <1>0, <1>1, <1>3, <1>4 DEF TypeOK
<1>6. LockInv' BY <1>0, <1>1, <1>c DEF LockInv, TypeOK, Served
<1>7. Inserting' \subseteq Inserting
  BY <1>0, <1>b, <1>c DEF Inserting, TypeOK, Served
<1>8. StoredAsAsked'
  <2>1. CASE UNCHANGED <<asked, stale>> BY <1>0, <1>1, <2>1 DEF StoredAsAsked
  <2>2. CASE /\ put[c].key \in Keep /\ asked' = put[c].body
             /\ stale' = (put[c].body # stored[put[c].key])
    BY <1>1, <2>2 DEF StoredAsAsked
  <2> QED BY <2>1, <2>2 DEF Flush
<1>9. DuplicatesAreBounded' /\ IsFiniteSet(Keep') BY <1>1, <1>7, SmallerStep
<1> QED BY <1>5, <1>6, <1>8, <1>9 DEF Inv

LEMMA UpdateStep ==
  ASSUME IsFiniteSet(Callers), Inv, NEW c \in Callers, Update(c) PROVE Inv'
<1>0. TypeOK /\ LockInv BY DEF Inv
<1>1. /\ put[c].key \in Keep /\ Merged(c) \in AlertThreshold
      /\ put[c].seen = stored[put[c].key] => Merged(c) = put[c].body
      /\ put[c].body \in AlertThreshold
  BY <1>0, MergedType, PutFacts DEF Update
<1>2. /\ stored' = [stored EXCEPT ![put[c].key] = Merged(c)] /\ asked' = put[c].body
      /\ stale' = (put[c].seen # stored[put[c].key])
      /\ put' = [put EXCEPT ![c] = Served]
  BY DEF Update
<1>3. Keep' = Keep BY <1>2 DEF Keep
<1>4. \A j \in Keep : stored'[j] = IF j = put[c].key THEN Merged(c) ELSE stored[j]
  BY <1>1, <1>2 DEF Keep
<1>5. TypeOK' BY <1>0, <1>1, <1>2, <1>3, <1>4 DEF TypeOK
<1>6. LockInv' BY <1>0, <1>2, <1>3 DEF LockInv, TypeOK, Served
<1>7. Inserting' \subseteq Inserting BY <1>0, <1>2 DEF Inserting, TypeOK, Served
<1>8. StoredAsAsked' BY <1>1, <1>2, <1>3, <1>4 DEF StoredAsAsked
<1>9. DuplicatesAreBounded' /\ IsFiniteSet(Keep') BY <1>3, <1>7, SmallerStep
<1> QED BY <1>5, <1>6, <1>8, <1>9 DEF Inv

LEMMA CommitFailsStep ==
  ASSUME IsFiniteSet(Callers), Inv, NEW c \in Callers, CommitFails(c) PROVE Inv'
<1>0. TypeOK /\ LockInv /\ StoredAsAsked BY DEF Inv
<1>1. Keep' = Keep BY DEF CommitFails, Keep
<1>2. TypeOK' BY <1>0, <1>1 DEF TypeOK, CommitFails
<1>3. LockInv' BY <1>0, <1>1 DEF LockInv, TypeOK, CommitFails, Served
<1>4. Inserting' \subseteq Inserting BY <1>0 DEF Inserting, TypeOK, CommitFails, Served
<1>5. StoredAsAsked' BY <1>0, <1>1 DEF StoredAsAsked, CommitFails
<1>6. DuplicatesAreBounded' /\ IsFiniteSet(Keep') BY <1>1, <1>4, SmallerStep
<1> QED BY <1>2, <1>3, <1>5, <1>6 DEF Inv

LEMMA DeleteStep ==
  ASSUME IsFiniteSet(Callers), Inv, NEW k \in Keys, Delete(k) PROVE Inv'
<1>0. TypeOK /\ LockInv BY DEF Inv
<1>1. stored' = [j \in Keep \ {k} |-> stored[j]] /\ UNCHANGED <<put, asked>> /\ stale'
  BY DEF Delete
<1>2. Keep' = Keep \ {k} BY <1>1 DEF Keep
<1>3. TypeOK' BY <1>0, <1>1, <1>2 DEF TypeOK, Delete
<1>4. LockInv' BY <1>0, <1>1, <1>2 DEF LockInv, Delete, RowIsFree
<1>5. Inserting' = Inserting BY <1>1 DEF Inserting
<1>6. DuplicatesAreBounded' /\ IsFiniteSet(Keep') BY <1>2, <1>5, SmallerStep
<1> QED BY <1>1, <1>3, <1>4, <1>6 DEF Inv, StoredAsAsked

LEMMA NextInv == ASSUME IsFiniteSet(Callers), Inv, [Next]_vars PROVE Inv'
<1>1. CASE Next
  BY <1>1, LookStep, InsertStep, FlushStep, UpdateStep, CommitFailsStep, DeleteStep DEF Next
<1>2. CASE UNCHANGED vars
  BY <1>2 DEF vars, Inv, TypeOK, LockInv, DuplicatesAreBounded, StoredAsAsked, Keep,
              Inserting
<1> QED BY <1>1, <1>2

LEMMA Invariance == ASSUME IsFiniteSet(Callers) PROVE Spec => []Inv
<1>1. Init => Inv BY InitInv
<1>2. Inv /\ [Next]_vars => Inv' BY NextInv
<1> QED BY <1>1, <1>2, PTL DEF Spec

\* There are never more rows of a metric than requests served at a time.
THEOREM DuplicatesBounded == ASSUME IsFiniteSet(Callers) PROVE Spec => []DuplicatesAreBounded
<1>1. Inv => DuplicatesAreBounded BY DEF Inv
<1> QED BY <1>1, Invariance, PTL

\* A single row is what was last asked for, unless that request wrote over
\* another row than it had loaded.
THEOREM StoredRight == ASSUME IsFiniteSet(Callers) PROVE Spec => []StoredAsAsked
<1>1. Inv => StoredAsAsked BY DEF Inv
<1> QED BY <1>1, Invariance, PTL
=============================================================================
