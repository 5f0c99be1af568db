------------------------------ MODULE HubProofs ------------------------------
(***************************************************************************)
(* Theorems about ConnectionManager: any finite set of clients, any number *)
(* of broadcasts at a time.                                                *)
(***************************************************************************)
EXTENDS ConnectionManager, SequenceTheorems, FiniteSetTheorems, TLAPS

(***************************************************************************)
(* Taking entries out of a list.                                           *)
(***************************************************************************)

OneToOne(list) == \A i, j \in DOMAIN list : list[i] = list[j] => i = j

\* Those of the positions in S that come no later than i.
UpTo(S, i) == {j \in S : j <= i}

\* Where each entry of `after' stood in `before': none has moved by more than
\* the number of entries that are missing.
MovedUp(before, after, from) ==
  /\ from \in [DOMAIN after -> DOMAIN before]
  /\ OneToOne(from)
  /\ \A k \in DOMAIN after :
       /\ after[k] = before[from[k]]
       /\ k <= from[k] /\ from[k] <= k + (Len(before) - Len(after))

LEMMA ClientsCount ==
  /\ IsFiniteSet(Clients) /\ Cardinality(Clients) \in Nat
BY ClientsAreFinite, FS_CardinalityType

LEMMA PositionsAreFinite ==
  ASSUME NEW n \in Nat, NEW S \in SUBSET (1 .. n)
  PROVE  IsFiniteSet(S) /\ Cardinality(S) \in Nat
<1>1. IsFiniteSet(1 .. n)
  BY FS_Interval
<1> QED BY <1>1, FS_Subset, FS_CardinalityType

LEMMA DisjointUnion ==
  ASSUME NEW S, NEW T, IsFiniteSet(S), IsFiniteSet(T), S \intersect T = {}
  PROVE  /\ IsFiniteSet(S \union T)
         /\ Cardinality(S \union T) = Cardinality(S) + Cardinality(T)
<1>1. Cardinality(S \intersect T) = 0
  BY FS_EmptySet
<1>2. Cardinality(S) \in Nat /\ Cardinality(T) \in Nat
  BY FS_CardinalityType
<1>3. /\ IsFiniteSet(S \union T)
      /\ Cardinality(S \union T) = Cardinality(S) + Cardinality(T) - Cardinality(S \intersect T)
  BY FS_Union
<1> QED BY <1>1, <1>2, <1>3

\* A bounded sequence of clients, and how to show that one is.
LEMMA BoundedSeqFacts ==
  ASSUME NEW n \in Nat, NEW s \in BoundedSeq(Clients, n)
  PROVE  /\ s \in Seq(Clients) /\ Len(s) \in Nat /\ Len(s) <= n
         /\ DOMAIN s = 1 .. Len(s) /\ s \in [1 .. Len(s) -> Clients]
<1>1. PICK m \in 0 .. n : s \in [1 .. m -> Clients]
  BY DEF BoundedSeq, SeqOf
<1>2. s \in Seq(Clients)
  BY <1>1, IsASeq
<1>3. Len(s) = m
  BY <1>1, <1>2, LenProperties
<1> QED BY <1>1, <1>2, <1>3

LEMMA IsBoundedSeq ==
  ASSUME NEW n \in Nat, NEW m \in Nat, m <= n, NEW s \in [1 .. m -> Clients]
  PROVE  s \in BoundedSeq(Clients, n) /\ Len(s) = m /\ s \in Seq(Clients)
<1>1. s \in Seq(Clients)
  BY IsASeq
<1>2. Len(s) = m
  BY <1>1, LenProperties
<1>3. m \in 0 .. n
  OBVIOUS
<1> QED BY <1>1, <1>2, <1>3 DEF BoundedSeq, SeqOf

\* The rank of a position among the positions that are kept.
LEMMA RankFacts ==
  ASSUME NEW n \in Nat, NEW kept \in SUBSET (1 .. n)
  PROVE  /\ IsFiniteSet(kept) /\ Cardinality(kept) \in 0 .. n
         /\ \A i \in kept :
              /\ Cardinality(UpTo(kept, i)) \in 1 .. Cardinality(kept)
              /\ Cardinality(UpTo(kept, i)) <= i
              /\ i <= Cardinality(UpTo(kept, i)) + (n - Cardinality(kept))
         /\ \A k \in 1 .. Cardinality(kept) :
              \E i \in kept : Cardinality(UpTo(kept, i)) = k
         /\ \A i, j \in kept :
              Cardinality(UpTo(kept, i)) = Cardinality(UpTo(kept, j)) => i = j
<1> DEFINE R(i) == Cardinality(UpTo(kept, i))
<1>1. IsFiniteSet(1 .. n) /\ Cardinality(1 .. n) = n
  BY FS_Interval
<1>2. IsFiniteSet(kept) /\ Cardinality(kept) \in Nat /\ Cardinality(kept) <= n
  BY <1>1, FS_Subset, FS_CardinalityType
<1>3. ASSUME NEW i \in kept
      PROVE  /\ IsFiniteSet(UpTo(kept, i)) /\ R(i) \in Nat /\ R(i) >= 1
             /\ R(i) <= Cardinality(kept) /\ R(i) <= i
             /\ i <= R(i) + (n - Cardinality(kept))
  <2>1. UpTo(kept, i) \subseteq kept /\ i \in UpTo(kept, i)
    BY DEF UpTo
  <2>2. IsFiniteSet(UpTo(kept, i)) /\ R(i) <= Cardinality(kept) /\ R(i) \in Nat
    BY <1>2, <2>1, FS_Subset, FS_CardinalityType
  <2>3. R(i) >= 1
    BY <2>1, <2>2, FS_EmptySet
  <2>4. UpTo(kept, i) \subseteq 1 .. i
    <3>1. i \in 1 .. n /\ \A j \in kept : j \in 1 .. n
      OBVIOUS
    <3>2. \A j \in kept : j <= i => j \in 1 .. i
      BY <3>1
    <3> QED BY <3>2 DEF UpTo
  <2>5. IsFiniteSet(1 .. i) /\ Cardinality(1 .. i) = i
    BY FS_Interval
  <2>6. R(i) <= i
    BY <2>4, <2>5, FS_Subset
  <2>7. kept \subseteq UpTo(kept, i) \union (i + 1) .. n
    BY DEF UpTo
  <2>8. IsFiniteSet((i + 1) .. n) /\ Cardinality((i + 1) .. n) = n - i
    BY FS_Interval
  <2>9. UpTo(kept, i) \intersect ((i + 1) .. n) = {}
    BY DEF UpTo
  <2> DEFINE later == (i + 1) .. n
  <2>10. /\ IsFiniteSet(UpTo(kept, i) \union later)
         /\ Cardinality(UpTo(kept, i) \union later)
              = R(i) + Cardinality(later) - Cardinality(UpTo(kept, i) \intersect later)
    <3> HIDE DEF later
    <3> QED BY <2>2, <2>8, FS_Union DEF later
  <2>11. Cardinality(kept) <= Cardinality(UpTo(kept, i) \union later)
    <3> HIDE DEF later
    <3> QED BY <2>7, <2>10, FS_Subset DEF later
  <2>12. Cardinality(kept) <= R(i) + (n - i)
    <3>1. Cardinality(UpTo(kept, i) \intersect later) = 0
      BY <2>9, FS_EmptySet
    <3>2. Cardinality(later) = n - i
      BY <2>8
    <3> HIDE DEF R, later
    <3> QED BY <2>2, <2>10, <2>11, <3>1, <3>2, <1>2
  <2> QED BY <1>2, <2>2, <2>3, <2>6, <2>12
<1>4. ASSUME NEW i \in kept, NEW j \in kept, i < j
      PROVE  R(i) < R(j)
  <2>1. UpTo(kept, i) \subseteq UpTo(kept, j) /\ j \notin UpTo(kept, i) /\ j \in UpTo(kept, j)
    <3>1. i \in Int /\ j \in Int /\ \A p \in kept : p \in Int
      OBVIOUS
    <3>2. ~ (j <= i) /\ j <= j /\ \A p \in kept : p <= i => p <= j
      BY <3>1, <1>4
    <3> QED BY <3>2 DEF UpTo
  <2>2. R(i) <= R(j) /\ (R(i) = R(j) => UpTo(kept, j) = UpTo(kept, i))
    BY <2>1, <1>3, FS_Subset
  <2> QED BY <2>1, <2>2, <1>3
<1>5. ASSUME NEW i \in kept, NEW j \in kept, R(i) = R(j)
      PROVE  i = j
  <2>1. i \in Int /\ j \in Int
    OBVIOUS
  <2> QED BY <2>1, <1>3, <1>4, <1>5
<1> DEFINE f == [i \in kept |-> R(i)]
           m == Cardinality(kept)
<1>6. ASSUME NEW k \in 1 .. m
      PROVE  \E i \in kept : R(i) = k
  <2>1. f \in [kept -> 1 .. m]
    <3>1. \A i \in kept : R(i) \in 1 .. m
      BY <1>2, <1>3
    <3> HIDE DEF R, m
    <3> QED BY <3>1
  <2>2. \A i, j \in kept : f[i] = f[j] => i = j
    BY <1>5
  <2>3. f \in Injection(kept, 1 .. m)
    BY <2>1, <2>2 DEF Injection, IsInjective
  <2>4. IsFiniteSet(1 .. m) /\ Cardinality(1 .. m) = m
    BY <1>2, FS_Interval
  <2>5. f \in Surjection(kept, 1 .. m)
    <3> HIDE DEF f
    <3> QED BY <2>3, <2>4, FS_Injection
  <2>6. \E i \in kept : f[i] = k
    <3> HIDE DEF f, m
    <3> QED BY <2>5 DEF Surjection
  <2> QED BY <2>6
<1> QED BY <1>2, <1>3, <1>5, <1>6

\* What stays in a list keeps its order, and moves up by no more than what goes.
LEMMA WithoutFacts ==
  ASSUME NEW n \in Nat, NEW s \in [1 .. n -> Clients], OneToOne(s), NEW gone
  PROVE  \E m \in 0 .. n :
           /\ Without(s, gone) \in [1 .. m -> Clients]
           /\ Len(s) = n /\ Len(Without(s, gone)) = m
           /\ OneToOne(Without(s, gone))
           /\ ToSet(Without(s, gone)) = ToSet(s) \ gone
           /\ n - m <= Cardinality(ToSet(s) \intersect gone)
           /\ \E from : MovedUp(s, Without(s, gone), from)
<1> DEFINE kept == {i \in 1 .. n : s[i] \notin gone}
           m == Cardinality(kept)
           R(i) == Cardinality(UpTo(kept, i))
           from == [k \in 1 .. m |-> CHOOSE i \in kept : R(i) = k]
           t == Without(s, gone)
<1>1. kept \in SUBSET (1 .. n)
  OBVIOUS
<1>2. m \in 0 .. n /\ IsFiniteSet(kept)
  <2> HIDE DEF kept
  <2> QED BY <1>1, RankFacts
<1>3. \A i \in kept : R(i) \in 1 .. m /\ R(i) <= i /\ i <= R(i) + (n - m)
  <2> HIDE DEF kept
  <2> QED BY <1>1, RankFacts
<1>4. \A k \in 1 .. m : \E i \in kept : R(i) = k
  <2> HIDE DEF kept
  <2> QED BY <1>1, RankFacts
<1>5. \A i, j \in kept : R(i) = R(j) => i = j
  <2> HIDE DEF kept
  <2> QED BY <1>1, RankFacts
<1>6. \A k \in 1 .. m : from[k] \in kept /\ R(from[k]) = k
  <2> HIDE DEF R, kept, m
  <2> QED BY <1>4
<1>7. t = [k \in 1 .. m |-> s[from[k]]]
  <2>1. DOMAIN s = 1 .. n
    OBVIOUS
  <2> DEFINE K == {i \in DOMAIN s : s[i] \notin gone}
  <2>2. t = [k \in 1 .. Cardinality(K) |->
               s[CHOOSE i \in K : Cardinality(UpTo(K, i)) = k]]
    BY DEF Without, UpTo
  <2>3. K = kept
    BY <2>1
  <2> HIDE DEF t, kept, K
  <2> QED BY <2>2, <2>3
<1> HIDE DEF from, t, R
<1>8. t \in [1 .. m -> Clients]
  <2>1. \A k \in 1 .. m : s[from[k]] \in Clients
    BY <1>6
  <2> HIDE DEF m
  <2> QED BY <2>1, <1>7
<1>9. Len(s) = n /\ Len(t) = m
  BY <1>2, <1>8, IsBoundedSeq
<1>10. \A j, k \in 1 .. m : from[j] = from[k] => j = k
  BY <1>6
<1>11. OneToOne(t)
  <2> SUFFICES ASSUME NEW j \in 1 .. m, NEW k \in 1 .. m, t[j] = t[k] PROVE j = k
    BY <1>8 DEF OneToOne
  <2>1. s[from[j]] = s[from[k]]
    BY <1>7
  <2>2. from[j] \in DOMAIN s /\ from[k] \in DOMAIN s
    BY <1>6
  <2> QED BY <2>1, <2>2, <1>10 DEF OneToOne
<1>12. ToSet(t) = ToSet(s) \ gone
  <2>1. ASSUME NEW c \in ToSet(t) PROVE c \in ToSet(s) \ gone
    <3>1. PICK k \in 1 .. m : c = t[k]
      BY <1>8 DEF ToSet
    <3>2. c = s[from[k]] /\ from[k] \in kept
      BY <3>1, <1>6, <1>7
    <3> QED BY <3>2 DEF ToSet
  <2>2. ASSUME NEW c \in ToSet(s) \ gone PROVE c \in ToSet(t)
    <3>1. PICK i \in 1 .. n : c = s[i]
      BY DEF ToSet
    <3>2. i \in kept
      BY <3>1
    <3>3. R(i) \in 1 .. m /\ from[R(i)] = i
      BY <3>2, <1>3, <1>5, <1>6
    <3>4. t[R(i)] = c
      BY <3>1, <3>3, <1>7
    <3> QED BY <3>3, <3>4, <1>8 DEF ToSet
  <2> QED BY <2>1, <2>2
<1>13. n - m <= Cardinality(ToSet(s) \intersect gone)
  <2> DEFINE out == (1 .. n) \ kept
             g == [i \in out |-> s[i]]
             lost == ToSet(s) \intersect gone
  <2>1. IsFiniteSet(1 .. n) /\ Cardinality(1 .. n) = n
    BY FS_Interval
  <2>2. Cardinality(out) = n - m
    <3>1. (1 .. n) \intersect kept = kept
      OBVIOUS
    <3>2. Cardinality(out) = Cardinality(1 .. n) - Cardinality((1 .. n) \intersect kept)
      <4> HIDE DEF kept
      <4> QED BY <2>1, FS_Difference
    <3> QED BY <2>1, <3>1, <3>2
  <2>3. IsFiniteSet(lost)
    <3>1. lost \subseteq Clients
      BY DEF ToSet
    <3> QED BY <3>1, ClientsCount, FS_Subset
  <2>4. g \in [out -> lost]
    BY DEF ToSet
  <2>5. \A i, j \in out : g[i] = g[j] => i = j
    BY DEF OneToOne
  <2>6. g \in Injection(out, lost)
    BY <2>4, <2>5 DEF Injection, IsInjective
  <2>7. Cardinality(out) <= Cardinality(lost)
    <3> HIDE DEF out, lost, g
    <3> QED BY <2>3, <2>6, FS_Injection
  <2> QED BY <2>2, <2>7
<1>14. MovedUp(s, t, from)
  <2>1. from \in [1 .. m -> 1 .. n]
    <3>1. \A k \in 1 .. m : from[k] \in 1 .. n
      BY <1>6
    <3> HIDE DEF m
    <3> QED BY <3>1 DEF from
  <2>2. OneToOne(from)
    BY <2>1, <1>10 DEF OneToOne
  <2>3. \A k \in 1 .. m : /\ t[k] = s[from[k]] /\ k <= from[k]
                          /\ from[k] <= k + (n - m)
    BY <1>3, <1>6, <1>7
  <2>4. DOMAIN t = 1 .. m /\ DOMAIN s = 1 .. n
    BY <1>8
  <2> HIDE DEF m, kept
  <2> QED BY <2>1, <2>2, <2>3, <2>4, <1>9 DEF MovedUp
<1> QED BY <1>2, <1>8, <1>9, <1>11, <1>12, <1>13, <1>14 DEF t

-----------------------------------------------------------------------------
(***************************************************************************)
(* The inductive invariant.                                                *)
(***************************************************************************)

\* The list holds each client once: whoever is connected, and nobody who has
\* not been.
ListInv ==
  /\ OneToOne(active)
  /\ \A c \in Clients : /\ peer[c] = "open" => c \in ToSet(active)
                        /\ peer[c] = "new" => c \notin ToSet(active)

\* A send failed to each client that a broadcast will remove, once, and only to
\* clients that are gone.
FailedInv(s) ==
  /\ OneToOne(failed[s])
  /\ \A c \in ToSet(failed[s]) : peer[c] \in {"lost", "closed"}

\* Whoever stands at the cursor or behind it is still to be served.
AheadInv(s) ==
  /\ \A c \in Clients : sent[s][c] < 2 /\ (peer[c] = "new" => sent[s][c] = 0)
  /\ \A i \in DOMAIN active :
       i >= cursor[s] => sent[s][active[i]] = 0 /\ active[i] \notin ToSet(failed[s])

\* The positions that the cursor has passed without a message for the client.
Skipped(s) ==
  {i \in DOMAIN active :
     i < cursor[s] /\ active[i] \in audience[s] /\ sent[s][active[i]] = 0}

\* Every skipped position is paid for by a removal.
SkippedInv(s) ==
  /\ \A c \in audience[s] : peer[c] = "open"
  /\ Cardinality(Skipped(s)) <= removals[s]

\* The clients that were in the list and are no longer.
Departed == {c \in Clients : peer[c] # "new" /\ c \notin ToSet(active)}

RemovalsInv == \A s \in Senders : removals[s] <= Cardinality(Departed)

IInv ==
  /\ TypeOK /\ ListInv /\ RemovalsInv
  /\ \A s \in Senders : FailedInv(s) /\ AheadInv(s) /\ SkippedInv(s)

-----------------------------------------------------------------------------
(***************************************************************************)
(* What a removal does to the list and to the broadcasts that walk it.     *)
(***************************************************************************)

\* The list and the lists of failures as functions on 1 .. Len.
LEMMA ListType ==
  ASSUME TypeOK
  PROVE  /\ Len(active) \in Nat /\ Len(active) <= Cardinality(Clients)
         /\ DOMAIN active = 1 .. Len(active)
         /\ active \in [1 .. Len(active) -> Clients] /\ active \in Seq(Clients)
BY ClientsCount, BoundedSeqFacts DEF TypeOK

LEMMA FailedType ==
  ASSUME TypeOK, NEW s \in Senders
  PROVE  /\ Len(failed[s]) \in Nat /\ Len(failed[s]) <= Cardinality(Clients)
         /\ DOMAIN failed[s] = 1 .. Len(failed[s])
         /\ failed[s] \in [1 .. Len(failed[s]) -> Clients] /\ failed[s] \in Seq(Clients)
<1>1. failed[s] \in BoundedSeq(Clients, Cardinality(Clients))
  BY DEF TypeOK
<1> QED BY <1>1, ClientsCount, BoundedSeqFacts

\* A list without repetitions is no longer than there are clients.
LEMMA OneToOneIsShort ==
  ASSUME NEW n \in Nat, NEW f \in [1 .. n -> Clients], OneToOne(f)
  PROVE  n <= Cardinality(Clients)
<1>1. f \in Injection(1 .. n, Clients)
  BY DEF Injection, IsInjective, OneToOne
<1>2. IsFiniteSet(1 .. n) /\ Cardinality(1 .. n) = n
  BY FS_Interval
<1>3. Cardinality(1 .. n) <= Cardinality(Clients)
  BY <1>1, ClientsCount, FS_Injection
<1> QED BY <1>2, <1>3

LEMMA DepartedIsFinite ==
  IsFiniteSet(Departed) /\ Cardinality(Departed) \in Nat
BY ClientsCount, FS_Subset, FS_CardinalityType DEF Departed

\* Nobody comes or goes; clients that are gone are taken out of the list.
Removing(gone) ==
  /\ active' = Without(active, gone)
  /\ \A c \in gone : peer[c] \notin {"new", "open"}
  /\ peer' \in [Clients -> PeerState]
  /\ \A c \in Clients : /\ peer'[c] = "open" <=> peer[c] = "open"
                        /\ peer'[c] = "new" <=> peer[c] = "new"

LEMMA RemovalKeepsList ==
  ASSUME TypeOK, ListInv, NEW gone \in SUBSET Clients, Removing(gone)
  PROVE  /\ active' \in BoundedSeq(Clients, Cardinality(Clients))
         /\ Len(active') \in Nat /\ active' \in [1 .. Len(active') -> Clients]
         /\ Len(active) - Len(active') \in Nat
         /\ ListInv'
         /\ Cardinality(Departed) + (Len(active) - Len(active')) <= Cardinality(Departed')
         /\ \E from : MovedUp(active, active', from)
<1> DEFINE n == Len(active)
<1>1. n \in Nat /\ n <= Cardinality(Clients) /\ active \in [1 .. n -> Clients]
  BY ListType
<1>2. PICK m \in 0 .. n :
         /\ active' \in [1 .. m -> Clients]
         /\ Len(active') = m
         /\ OneToOne(active')
         /\ ToSet(active') = ToSet(active) \ gone
         /\ n - m <= Cardinality(ToSet(active) \intersect gone)
         /\ \E from : MovedUp(active, active', from)
  <2>1. OneToOne(active) /\ active' = Without(active, gone)
    BY DEF ListInv, Removing
  <2> HIDE DEF n
  <2> QED BY <1>1, <2>1, WithoutFacts
<1>3. active' \in BoundedSeq(Clients, Cardinality(Clients))
  BY <1>1, <1>2, ClientsCount, IsBoundedSeq
<1>4. ListInv'
  <2>1. OneToOne(active)'
    BY <1>2 DEF OneToOne
  <2>2. ASSUME NEW c \in Clients
        PROVE  /\ peer'[c] = "open" => c \in ToSet(active')
               /\ peer'[c] = "new" => c \notin ToSet(active')
    BY <1>2 DEF ListInv, Removing
  <2> QED BY <2>1, <2>2 DEF ListInv, ToSet
<1>5. Cardinality(Departed) + (n - m) <= Cardinality(Departed')
  <2> DEFINE left == ToSet(active) \intersect gone
  <2>1. Departed \union left \subseteq Departed'
    <3>1. ASSUME NEW c \in Departed PROVE c \in Departed'
      BY <1>2 DEF Departed, Removing, ToSet
    <3>2. ASSUME NEW c \in left PROVE c \in Departed'
      BY <1>2 DEF Departed, Removing, ToSet
    <3> QED BY <3>1, <3>2
  <2>2. Departed \intersect left = {}
    BY DEF Departed
  <2>3. IsFiniteSet(left) /\ Cardinality(left) \in Nat
    BY ClientsCount, FS_Subset, FS_CardinalityType
  <2>4. IsFiniteSet(Departed') /\ Cardinality(Departed') \in Nat
    <3>1. Departed' \subseteq Clients
      BY DEF Departed
    <3> QED BY <3>1, ClientsCount, FS_Subset, FS_CardinalityType
  <2> HIDE DEF left
  <2>5. Cardinality(Departed \union left) <= Cardinality(Departed')
    BY <2>1, <2>4, FS_Subset
  <2>6. Cardinality(Departed \union left) = Cardinality(Departed) + Cardinality(left)
    BY <2>2, <2>3, DepartedIsFinite, DisjointUnion
  <2>7. n - m <= Cardinality(left)
    BY <1>2 DEF left
  <2> QED BY <1>1, <1>2, <2>3, <2>4, <2>5, <2>6, <2>7, DepartedIsFinite
<1> QED BY <1>1, <1>2, <1>3, <1>4, <1>5

\* A broadcast that walks the list while entries are removed has nobody twice
\* ahead of it, and skips no more than is removed.
LEMMA RemovalKeepsBroadcast ==
  ASSUME TypeOK, NEW s \in Senders, FailedInv(s), AheadInv(s), SkippedInv(s),
         NEW gone, Removing(gone),
         Len(active') \in Nat, active' \in [1 .. Len(active') -> Clients],
         Len(active) - Len(active') \in Nat,
         NEW from, MovedUp(active, active', from),
         cursor'[s] = cursor[s], sent'[s] = sent[s], failed'[s] = failed[s],
         audience'[s] = audience[s],
         removals'[s] = removals[s] + RemovalsSeenBy(s, Len(active) - Len(active'))
  PROVE  FailedInv(s)' /\ AheadInv(s)' /\ SkippedInv(s)'
<1> DEFINE n == Len(active) - Len(active')
<1>0. /\ DOMAIN active = 1 .. Len(active) /\ DOMAIN active' = 1 .. Len(active')
      /\ Len(active) \in Nat /\ cursor[s] \in Nat
      /\ removals[s] \in Nat
  <2>1. cursor[s] \in 0 .. Cardinality(Clients) + 1 /\ removals[s] \in 0 .. Cardinality(Clients)
    BY DEF TypeOK
  <2> QED BY <2>1, ListType, ClientsCount
<1>1. \A k \in DOMAIN active' :
        /\ from[k] \in DOMAIN active /\ active'[k] = active[from[k]]
        /\ k <= from[k] /\ from[k] <= k + n
  BY DEF MovedUp
<1>2. FailedInv(s)'
  <2>1. ASSUME NEW c \in ToSet(failed[s]) PROVE peer'[c] \in {"lost", "closed"}
    <3>1. c \in Clients
      BY FailedType, <2>1 DEF ToSet
    <3> QED BY <2>1, <3>1 DEF FailedInv, Removing, TypeOK, PeerState
  <2> QED BY <2>1 DEF FailedInv, OneToOne, ToSet
<1>3. AheadInv(s)'
  <2>1. ASSUME NEW c \in Clients PROVE sent'[s][c] < 2 /\ (peer'[c] = "new" => sent'[s][c] = 0)
    BY DEF AheadInv, Removing
  <2>2. ASSUME NEW k \in DOMAIN active', k >= cursor'[s]
        PROVE  sent'[s][active'[k]] = 0 /\ active'[k] \notin ToSet(failed'[s])
    <3>1. from[k] \in DOMAIN active /\ from[k] >= cursor[s] /\ active'[k] = active[from[k]]
      BY <2>2, <1>0, <1>1
    <3> QED BY <3>1 DEF AheadInv
  <2> QED BY <2>1, <2>2 DEF AheadInv, ToSet
<1>4. Cardinality(Skipped(s)') <= removals'[s]
  <2> DEFINE S  == Skipped(s)'
             A  == {k \in S : from[k] < cursor[s]}
             B  == S \ A
             g  == [k \in A |-> from[k]]
  <2>1. S \subseteq DOMAIN active'
    BY DEF Skipped
  <2>2. ASSUME NEW k \in S PROVE k < cursor[s] /\ active'[k] \in audience[s] /\ sent[s][active'[k]] = 0
    BY DEF Skipped
  <2>3. IsFiniteSet(Skipped(s)) /\ Cardinality(Skipped(s)) \in Nat
    <3>1. Skipped(s) \subseteq 1 .. Len(active)
      BY <1>0 DEF Skipped
    <3> QED BY <3>1, <1>0, PositionsAreFinite
  <2>4. IsFiniteSet(S) /\ Cardinality(S) \in Nat
    <3>1. S \subseteq 1 .. Len(active')
      BY <2>1, <1>0
    <3> HIDE DEF S
    <3> QED BY <3>1, PositionsAreFinite
  <2>5. IsFiniteSet(A) /\ IsFiniteSet(B) /\ Cardinality(A) \in Nat /\ Cardinality(B) \in Nat
    <3> HIDE DEF S
    <3> QED BY <2>4, FS_Subset, FS_CardinalityType
  <2>6. Cardinality(A) <= Cardinality(Skipped(s))
    <3>1. ASSUME NEW k \in A PROVE from[k] \in Skipped(s)
      <4>1. k \in DOMAIN active' /\ from[k] < cursor[s]
        BY <2>1
      <4>2. active'[k] \in audience[s] /\ sent[s][active'[k]] = 0
        BY <2>2
      <4> QED BY <4>1, <4>2, <1>1 DEF Skipped
    <3>2. \A j, k \in A : g[j] = g[k] => j = k
      BY <2>1 DEF MovedUp, OneToOne
    <3>3. g \in Injection(A, Skipped(s))
      <4> HIDE DEF A
      <4> QED BY <3>1, <3>2 DEF Injection, IsInjective
    <3> HIDE DEF A, g
    <3> QED BY <3>3, <2>3, FS_Injection
  <2>7. Cardinality(B) <= RemovalsSeenBy(s, n)
    <3>1. CASE cursor[s] = 0
      <4>1. \A k \in DOMAIN active' : ~ (k < cursor[s])
        BY <3>1, <1>0
      <4>2. B = {}
        BY <4>1, <2>1, <2>2
      <4>3. Cardinality(B) = 0
        BY <4>2, FS_EmptySet
      <4> QED BY <4>3, <3>1 DEF RemovalsSeenBy, Broadcasting
    <3>2. CASE cursor[s] > 0
      <4> DEFINE near == (cursor[s] - n) .. (cursor[s] - 1)
      <4>1. ASSUME NEW k \in B PROVE k \in near
        <5>1. k \in DOMAIN active' /\ ~ (from[k] < cursor[s]) /\ k < cursor[s]
          BY <2>1, <2>2
        <5> QED BY <5>1, <1>0, <1>1
      <4>2. IsFiniteSet(near) /\ Cardinality(near) = n
        <5>1. cursor[s] - n \in Int /\ cursor[s] - 1 \in Int /\ n \in Nat
          BY <1>0
        <5> DEFINE a == cursor[s] - n
                   b == cursor[s] - 1
        <5>2. /\ IsFiniteSet(a .. b)
              /\ Cardinality(a .. b) = IF a > b THEN 0 ELSE b - a + 1
          <6> HIDE DEF a, b
          <6> QED BY <5>1, FS_Interval DEF a, b
        <5>3. (IF a > b THEN 0 ELSE b - a + 1) = n
          <6>1. cursor[s] \in Int /\ n \in Nat
            BY <5>1, <1>0
          <6> HIDE DEF n
          <6> QED BY <6>1
        <5> QED BY <5>2, <5>3
      <4>3. Cardinality(B) <= Cardinality(near)
        <5> HIDE DEF B, near
        <5> QED BY <4>1, <4>2, FS_Subset
      <4> QED BY <4>2, <4>3, <3>2 DEF RemovalsSeenBy, Broadcasting
    <3> QED BY <3>1, <3>2, <1>0
  <2>8. Cardinality(S) <= Cardinality(A) + Cardinality(B)
    <3>1. S = A \union B
      OBVIOUS
    <3>2. A \intersect B = {}
      OBVIOUS
    <3> HIDE DEF A, B, S
    <3>3. Cardinality(A \union B) = Cardinality(A) + Cardinality(B)
      BY <3>2, <2>5, DisjointUnion
    <3> QED BY <3>1, <3>3, <2>5
  <2>9. RemovalsSeenBy(s, n) \in Nat
    BY <1>0 DEF RemovalsSeenBy
  <2> HIDE DEF A, B, S, n
  <2> QED BY <2>3, <2>4, <2>5, <2>6, <2>7, <2>8, <2>9, <1>0 DEF SkippedInv, S, n
<1>5. \A c \in audience'[s] : peer'[c] = "open"
  <2>1. audience[s] \subseteq Clients
    BY DEF TypeOK
  <2> QED BY <2>1 DEF SkippedInv, Removing
<1> QED BY <1>2, <1>3, <1>4, <1>5 DEF SkippedInv

-----------------------------------------------------------------------------
(***************************************************************************)
(* The invariant holds at the start and every step keeps it.               *)
(***************************************************************************)

LEMMA InitInv == ASSUME Init PROVE IInv
<1> USE DEF Init, NothingSent
<1>1. << >> \in BoundedSeq(Clients, Cardinality(Clients))
  <2>1. << >> \in [1 .. 0 -> Clients]
    OBVIOUS
  <2>2. 0 \in 0 .. Cardinality(Clients)
    BY ClientsCount
  <2> QED BY <2>1, <2>2 DEF BoundedSeq, SeqOf
<1>2. TypeOK
  BY <1>1, ClientsCount DEF TypeOK, PeerState
<1>3. ListInv
  BY DEF ListInv, OneToOne, ToSet
<1>4. IsFiniteSet({}) /\ Cardinality({}) = 0
  BY FS_EmptySet
<1>5. RemovalsInv
  <2>1. Cardinality(Departed) >= 0
    BY DepartedIsFinite
  <2> QED BY <2>1 DEF RemovalsInv
<1>6. ASSUME NEW s \in Senders PROVE FailedInv(s) /\ AheadInv(s) /\ SkippedInv(s)
  <2>1. FailedInv(s) BY DEF FailedInv, OneToOne, ToSet
  <2>2. AheadInv(s) BY DEF AheadInv
  <2>3. Skipped(s) = {} BY DEF Skipped
  <2>4. SkippedInv(s) BY <1>4, <2>3 DEF SkippedInv
  <2> QED BY <2>1, <2>2, <2>4
<1> QED BY <1>2, <1>3, <1>5, <1>6 DEF IInv

\* A client that connects is put behind everybody.
LEMMA ConnectKeepsInv ==
  ASSUME IInv, NEW c \in Clients, Connect(c)
  PROVE  IInv'
<1> DEFINE n == Len(active)
<1>0. TypeOK /\ ListInv /\ RemovalsInv
  BY DEF IInv
<1>1. n \in Nat /\ active \in [1 .. n -> Clients] /\ DOMAIN active = 1 .. n
  BY <1>0, ListType
<1>2. c \notin ToSet(active)
  BY <1>0 DEF Connect, ListInv
<1>3. /\ active' \in [1 .. n + 1 -> Clients]
      /\ \A i \in 1 .. n : active'[i] = active[i]
      /\ active'[n + 1] = c
  <2>1. active' = Append(active, c) /\ active \in Seq(Clients)
    BY <1>0, ListType DEF Connect, AddClient
  <2>2. /\ active' \in Seq(Clients) /\ Len(active') = Len(active) + 1
        /\ \A i \in 1 .. Len(active) : active'[i] = active[i]
        /\ active'[Len(active) + 1] = c
    BY <2>1, AppendProperties
  <2>3. active' \in [1 .. Len(active') -> Clients]
    BY <2>2, LenProperties
  <2> QED BY <2>2, <2>3
<1>4. OneToOne(active')
  <2> SUFFICES ASSUME NEW i \in 1 .. n + 1, NEW j \in 1 .. n + 1, active'[i] = active'[j]
               PROVE  i = j
    BY <1>3 DEF OneToOne
  <2>1. CASE i \in 1 .. n /\ j \in 1 .. n
    BY <2>1, <1>0, <1>1, <1>3 DEF ListInv, OneToOne
  <2>2. CASE i = n + 1 /\ j \in 1 .. n
    BY <2>2, <1>1, <1>2, <1>3 DEF ToSet
  <2>3. CASE j = n + 1 /\ i \in 1 .. n
    BY <2>3, <1>1, <1>2, <1>3 DEF ToSet
  <2>4. i \in 1 .. n \/ i = n + 1
    BY <1>1
  <2>5. j \in 1 .. n \/ j = n + 1
    BY <1>1
  <2> QED BY <2>1, <2>2, <2>3, <2>4, <2>5
<1>5. active' \in BoundedSeq(Clients, Cardinality(Clients))
  <2>1. n + 1 \in Nat /\ n + 1 <= Cardinality(Clients)
    BY <1>1, <1>3, <1>4, OneToOneIsShort
  <2> QED BY <2>1, <1>3, ClientsCount, IsBoundedSeq
<1>6. TypeOK'
  <2>1. peer' \in [Clients -> PeerState]
    BY <1>0 DEF TypeOK, Connect, PeerState
  <2> QED BY <2>1, <1>0, <1>5 DEF TypeOK, Connect
<1>7. ToSet(active') = ToSet(active) \union {c}
  <2>1. 1 .. n + 1 = (1 .. n) \union {n + 1}
    BY <1>1
  <2> QED BY <2>1, <1>1, <1>3 DEF ToSet
<1>8. ListInv'
  <2>1. \A d \in Clients : /\ peer'[d] = "open" => d \in ToSet(active')
                           /\ peer'[d] = "new" => d \notin ToSet(active')
    BY <1>0, <1>7 DEF ListInv, Connect, TypeOK
  <2> QED BY <2>1, <1>4 DEF ListInv, OneToOne, ToSet
<1>9. RemovalsInv'
  <2>1. ASSUME NEW d \in Clients PROVE d \in Departed <=> d \in Departed'
    BY <1>0, <1>7 DEF Departed, Connect, TypeOK, ToSet
  <2>2. Departed' = Departed
    BY <2>1 DEF Departed
  <2> QED BY <2>2, <1>0 DEF RemovalsInv, Connect
<1>10. ASSUME NEW s \in Senders PROVE FailedInv(s)' /\ AheadInv(s)' /\ SkippedInv(s)'
  <2>0. FailedInv(s) /\ AheadInv(s) /\ SkippedInv(s)
    BY DEF IInv
  <2>1. ToSet(failed[s]) \subseteq Clients
    BY <1>0, FailedType DEF ToSet
  <2>2. c \notin ToSet(failed[s])
    BY <2>0 DEF FailedInv, Connect
  <2>3. FailedInv(s)'
    <3>1. \A d \in ToSet(failed[s]) : peer'[d] \in {"lost", "closed"}
      BY <1>0, <2>0, <2>1, <2>2 DEF FailedInv, Connect, TypeOK
    <3> QED BY <3>1, <2>0 DEF FailedInv, Connect, OneToOne, ToSet
  <2>4. AheadInv(s)'
    <3>1. \A d \in Clients : sent[s][d] < 2 /\ (peer'[d] = "new" => sent[s][d] = 0)
      BY <1>0, <2>0 DEF AheadInv, Connect, TypeOK
    <3>2. ASSUME NEW i \in DOMAIN active', i >= cursor[s]
          PROVE  sent[s][active'[i]] = 0 /\ active'[i] \notin ToSet(failed[s])
      <4>1. CASE i \in 1 .. n
        BY <4>1, <3>2, <2>0, <1>1, <1>3 DEF AheadInv
      <4>2. CASE i = n + 1
        BY <4>2, <1>3, <2>0, <2>2 DEF AheadInv, Connect
      <4>3. i \in 1 .. n \/ i = n + 1
        BY <1>1, <1>3
      <4> QED BY <4>1, <4>2, <4>3
    <3> QED BY <3>1, <3>2 DEF AheadInv, Connect, ToSet
  <2>5. SkippedInv(s)'
    <3>1. c \notin audience[s]
      BY <2>0 DEF SkippedInv, Connect
    <3>2. Skipped(s)' = Skipped(s)
      <4>1. DOMAIN active' = (1 .. n) \union {n + 1}
        BY <1>1, <1>3
      <4> QED BY <4>1, <3>1, <1>1, <1>3 DEF Skipped, Connect
    <3>3. \A d \in audience[s] : peer'[d] = "open"
      <4>1. audience[s] \subseteq Clients
        BY <1>0 DEF TypeOK
      <4> QED BY <4>1, <2>0, <3>1, <1>0 DEF SkippedInv, Connect, TypeOK
    <3> QED BY <2>0, <3>2, <3>3 DEF SkippedInv, Connect
  <2> QED BY <2>3, <2>4, <2>5
<1> QED BY <1>6, <1>8, <1>9, <1>10 DEF IInv

\* A client goes away, or its endpoint ends, and the list stays as it is.
LEMMA LeavingKeepsInv ==
  ASSUME IInv, NEW c \in Clients, peer[c] \in {"open", "lost"},
         NEW state \in {"lost", "closed"}, peer' = [peer EXCEPT ![c] = state],
         audience' \in [Senders -> SUBSET Clients],
         \A s \in Senders : audience'[s] \subseteq audience[s] /\ c \notin audience'[s],
         UNCHANGED <<active, cursor, failed, sent, removals>>
  PROVE  IInv'
<1>0. TypeOK /\ ListInv /\ RemovalsInv
  BY DEF IInv
<1>1. \A d \in Clients : peer'[d] = IF d = c THEN state ELSE peer[d]
  BY <1>0 DEF TypeOK
<1>2. TypeOK'
  <2>1. peer' \in [Clients -> PeerState]
    BY <1>0 DEF TypeOK, PeerState
  <2> QED BY <2>1, <1>0 DEF TypeOK
<1>3. ListInv'
  <2>1. \A d \in Clients : /\ peer'[d] = "open" => d \in ToSet(active)
                           /\ peer'[d] = "new" => d \notin ToSet(active)
    BY <1>0, <1>1 DEF ListInv
  <2> QED BY <2>1, <1>0 DEF ListInv, OneToOne, ToSet
<1>4. RemovalsInv'
  <2>1. ASSUME NEW d \in Clients PROVE d \in Departed <=> d \in Departed'
    BY <1>0, <1>1 DEF Departed, ToSet
  <2>2. Departed' = Departed
    BY <2>1 DEF Departed
  <2> QED BY <2>2, <1>0 DEF RemovalsInv
<1>5. ASSUME NEW s \in Senders PROVE FailedInv(s)' /\ AheadInv(s)' /\ SkippedInv(s)'
  <2>0. FailedInv(s) /\ AheadInv(s) /\ SkippedInv(s)
    BY DEF IInv
  <2>1. FailedInv(s)'
    <3>1. ToSet(failed[s]) \subseteq Clients
      BY <1>0, FailedType DEF ToSet
    <3>2. \A d \in ToSet(failed[s]) : peer'[d] \in {"lost", "closed"}
      BY <2>0, <3>1, <1>1 DEF FailedInv
    <3> QED BY <2>0, <3>2 DEF FailedInv, OneToOne, ToSet
  <2>2. AheadInv(s)'
    <3>1. \A d \in Clients : peer'[d] = "new" => peer[d] = "new"
      BY <1>1
    <3> QED BY <2>0, <3>1 DEF AheadInv, ToSet
  <2>3. SkippedInv(s)'
    <3>1. Skipped(s)' \subseteq Skipped(s)
      BY DEF Skipped
    <3>2. Skipped(s) \subseteq 1 .. Len(active)
      BY <1>0, ListType DEF Skipped
    <3>3. IsFiniteSet(Skipped(s)) /\ Cardinality(Skipped(s)) \in Nat
      BY <1>0, <3>2, ListType, PositionsAreFinite
    <3>4. Cardinality(Skipped(s)') <= Cardinality(Skipped(s)) /\ Cardinality(Skipped(s)') \in Nat
      BY <3>1, <3>3, FS_Subset, FS_CardinalityType
    <3>5. removals[s] \in Nat
      BY <1>0, ClientsCount DEF TypeOK
    <3>6. Cardinality(Skipped(s)') <= removals'[s]
      BY <3>3, <3>4, <3>5, <2>0 DEF SkippedInv
    <3>7. \A d \in audience'[s] : peer'[d] = "open"
      BY <1>1, <2>0 DEF SkippedInv
    <3> QED BY <3>6, <3>7 DEF SkippedInv
  <2> QED BY <2>1, <2>2, <2>3
<1> QED BY <1>2, <1>3, <1>4, <1>5 DEF IInv

LEMMA LoseKeepsInv ==
  ASSUME IInv, NEW c \in Clients, Lose(c)
  PROVE  IInv'
<1>1. TypeOK
  BY DEF IInv
<1>2. audience' \in [Senders -> SUBSET Clients]
  BY <1>1 DEF Lose, TypeOK
<1>3. \A s \in Senders : audience'[s] \subseteq audience[s] /\ c \notin audience'[s]
  BY DEF Lose
<1> QED BY <1>2, <1>3, LeavingKeepsInv DEF Lose

LEMMA EndpointFailsKeepsInv ==
  ASSUME IInv, NEW c \in Clients, EndpointFails(c)
  PROVE  IInv'
<1>1. TypeOK
  BY DEF IInv
<1>2. audience' \in [Senders -> SUBSET Clients]
  BY <1>1 DEF EndpointFails, TypeOK
<1>3. \A s \in Senders : audience'[s] \subseteq audience[s] /\ c \notin audience'[s]
  BY DEF EndpointFails, IInv, SkippedInv
<1> QED BY <1>2, <1>3, LeavingKeepsInv DEF EndpointFails

\* The endpoint of a lost client takes it out of the list.
LEMMA DisconnectKeepsInv ==
  ASSUME IInv, NEW c \in Clients, Disconnect(c)
  PROVE  IInv'
<1> DEFINE n == Len(active) - Len(active')
<1>0. TypeOK /\ ListInv /\ RemovalsInv
  BY DEF IInv
<1>1. Removing({c})
  <2>1. peer' \in [Clients -> PeerState]
    BY <1>0 DEF TypeOK, Disconnect, PeerState
  <2>2. \A d \in Clients : peer'[d] = IF d = c THEN "closed" ELSE peer[d]
    BY <1>0 DEF TypeOK, Disconnect
  <2> QED BY <2>1, <2>2 DEF Removing, Disconnect
<1>2. /\ active' \in BoundedSeq(Clients, Cardinality(Clients))
      /\ Len(active') \in Nat /\ active' \in [1 .. Len(active') -> Clients]
      /\ n \in Nat /\ ListInv'
      /\ Cardinality(Departed) + n <= Cardinality(Departed')
      /\ \E from : MovedUp(active, active', from)
  BY <1>0, <1>1, RemovalKeepsList
<1>3. \A s \in Senders : removals'[s] = removals[s] + RemovalsSeenBy(s, n)
  BY DEF Disconnect
<1>4. RemovalsInv' /\ removals' \in [Senders -> 0 .. Cardinality(Clients)]
  <2>1. Departed' \subseteq Clients
    BY DEF Departed
  <2>2. Cardinality(Departed') \in Nat /\ Cardinality(Departed') <= Cardinality(Clients)
    BY <2>1, ClientsCount, FS_Subset, FS_CardinalityType
  <2>3. ASSUME NEW s \in Senders
        PROVE  removals'[s] \in Nat /\ removals'[s] <= Cardinality(Departed')
    <3>1. RemovalsSeenBy(s, n) \in Nat /\ RemovalsSeenBy(s, n) <= n
      BY <1>2 DEF RemovalsSeenBy
    <3>2. removals[s] \in Nat /\ removals[s] <= Cardinality(Departed)
      BY <1>0, ClientsCount DEF TypeOK, RemovalsInv
    <3> HIDE DEF n
    <3> QED BY <3>1, <3>2, <1>2, <1>3, <2>2, DepartedIsFinite
  <2>4. DOMAIN removals' = Senders /\ removals' = [s \in Senders |-> removals'[s]]
    BY DEF Disconnect
  <2>5. \A s \in Senders : removals'[s] \in 0 .. Cardinality(Clients)
    BY <2>2, <2>3, ClientsCount
  <2>6. removals' \in [Senders -> 0 .. Cardinality(Clients)]
    BY <2>4, <2>5
  <2> QED BY <2>3, <2>6 DEF RemovalsInv
<1>5. TypeOK'
  <2>1. peer' \in [Clients -> PeerState]
    BY <1>1 DEF Removing
  <2> QED BY <2>1, <1>0, <1>2, <1>4 DEF TypeOK, Disconnect
<1>6. ASSUME NEW s \in Senders PROVE FailedInv(s)' /\ AheadInv(s)' /\ SkippedInv(s)'
  <2>1. FailedInv(s) /\ AheadInv(s) /\ SkippedInv(s)
    BY DEF IInv
  <2>2. /\ cursor'[s] = cursor[s] /\ sent'[s] = sent[s] /\ failed'[s] = failed[s]
        /\ audience'[s] = audience[s]
    BY DEF Disconnect
  <2>3. PICK from : MovedUp(active, active', from)
    BY <1>2
  <2> QED BY <1>0, <1>1, <1>2, <1>3, <2>1, <2>2, <2>3, RemovalKeepsBroadcast
<1> QED BY <1>2, <1>4, <1>5, <1>6 DEF IInv

\* A broadcast begins: everybody is ahead of it.
LEMMA StartKeepsInv ==
  ASSUME IInv, NEW s \in Senders, StartBroadcast(s)
  PROVE  IInv'
<1>0. TypeOK /\ ListInv /\ RemovalsInv
  BY DEF IInv
<1>1. UNCHANGED <<active, peer, failed, sent, removals>>
  BY DEF StartBroadcast, hub
<1>2. TypeOK'
  <2>1. cursor' \in [Senders -> 0 .. Cardinality(Clients) + 1]
    <3>1. 1 \in 0 .. Cardinality(Clients) + 1
      BY ClientsCount
    <3> QED BY <3>1, <1>0 DEF TypeOK, StartBroadcast
  <2>2. audience' \in [Senders -> SUBSET Clients]
    <3>1. {c \in ToSet(active) : peer[c] = "open"} \in SUBSET Clients
      BY <1>0, ListType DEF ToSet
    <3> QED BY <3>1, <1>0 DEF TypeOK, StartBroadcast
  <2> QED BY <2>1, <2>2, <1>0, <1>1 DEF TypeOK
<1>3. ListInv'
  BY <1>0, <1>1 DEF ListInv, OneToOne, ToSet
<1>4. RemovalsInv'
  <2>1. Departed' = Departed
    BY <1>1 DEF Departed, ToSet
  <2> QED BY <2>1, <1>0, <1>1 DEF RemovalsInv
<1>5. ASSUME NEW t \in Senders PROVE FailedInv(t)' /\ AheadInv(t)' /\ SkippedInv(t)'
  <2>0. FailedInv(t) /\ AheadInv(t) /\ SkippedInv(t)
    BY DEF IInv
  <2>1. FailedInv(t)'
    BY <2>0, <1>1 DEF FailedInv, OneToOne, ToSet
  <2>2. AheadInv(t)'
    <3>1. \A i \in DOMAIN active : i >= cursor'[t] => i >= cursor[t]
      <4>1. \A i \in DOMAIN active : i \in Nat
        BY <1>0, ListType
      <4>2. CASE t = s
        <5>1. cursor[t] = 0 
          BY <4>2, <1>0, ClientsCount DEF TypeOK, StartBroadcast, Broadcasting
        <5> QED BY <4>1, <5>1
      <4>3. CASE t # s
        BY <4>3, <1>0 DEF TypeOK, StartBroadcast
      <4> QED BY <4>2, <4>3
    <3> QED BY <3>1, <2>0, <1>1 DEF AheadInv, ToSet
  <2>3. SkippedInv(t)'
    <3>1. CASE t = s
      <4>1. cursor'[t] = 1 /\ audience'[t] = {c \in ToSet(active) : peer[c] = "open"}
        BY <3>1, <1>0 DEF TypeOK, StartBroadcast
      <4>2. \A i \in DOMAIN active : ~ (i < 1)
        BY <1>0, ListType
      <4>3. Skipped(t)' = {}
        BY <4>1, <4>2, <1>1 DEF Skipped
      <4>4. Cardinality(Skipped(t)') <= removals'[t]
        BY <4>3, <1>0, <1>1, ClientsCount, FS_EmptySet DEF TypeOK
      <4> QED BY <4>1, <4>4, <1>1 DEF SkippedInv
    <3>2. CASE t # s
      <4>1. cursor'[t] = cursor[t] /\ audience'[t] = audience[t]
        BY <3>2, <1>0 DEF TypeOK, StartBroadcast
      <4>2. Skipped(t)' = Skipped(t)
        BY <4>1, <1>1 DEF Skipped
      <4> QED BY <4>1, <4>2, <2>0, <1>1 DEF SkippedInv
    <3> QED BY <3>1, <3>2
  <2> QED BY <2>1, <2>2, <2>3
<1> QED BY <1>2, <1>3, <1>4, <1>5 DEF IInv

\* One turn of the loop serves the client at the cursor, or finds that it is gone.
LEMMA SendKeepsInv ==
  ASSUME IInv, NEW s \in Senders, Send(s)
  PROVE  IInv'
<1> DEFINE c == active[cursor[s]]
<1>0. TypeOK /\ ListInv /\ RemovalsInv /\ FailedInv(s) /\ AheadInv(s) /\ SkippedInv(s)
  BY DEF IInv
<1>1. UNCHANGED <<active, peer, audience, removals>>
  BY DEF Send, hub
<1>2. /\ cursor[s] \in 1 .. Len(active) /\ Len(active) <= Cardinality(Clients)
      /\ DOMAIN active = 1 .. Len(active) /\ Len(active) \in Nat
      /\ cursor' = [cursor EXCEPT ![s] = cursor[s] + 1]
  BY <1>0, ListType, ClientsCount DEF TypeOK, Send, Broadcasting, Advance
<1>3. c \in Clients /\ sent[s][c] = 0 /\ c \notin ToSet(failed[s])
  BY <1>0, <1>2, ListType DEF AheadInv
<1>4. \/ /\ peer[c] # "closed" /\ sent' = [sent EXCEPT ![s][c] = @ + 1] /\ failed' = failed
      \/ /\ peer[c] # "open" /\ failed' = [failed EXCEPT ![s] = Append(@, c)] /\ sent' = sent
  BY DEF Send
<1>5. cursor'[s] = cursor[s] + 1 /\ \A t \in Senders \ {s} : cursor'[t] = cursor[t]
  BY <1>0, <1>2 DEF TypeOK
<1>6. \A t \in Senders \ {s} : sent'[t] = sent[t] /\ failed'[t] = failed[t]
  BY <1>0, <1>4 DEF TypeOK
<1>7. /\ sent' \in [Senders -> [Clients -> Nat]]
      /\ \A d \in Clients \ {c} : sent'[s][d] = sent[s][d]
      /\ sent'[s][c] < 2
      /\ peer[c] = "open" => sent'[s][c] = 1
  <2>1. CASE peer[c] # "closed" /\ sent' = [sent EXCEPT ![s][c] = @ + 1] /\ failed' = failed
    <3> HIDE DEF c
    <3> QED BY <2>1, <1>0, <1>3 DEF TypeOK
  <2>2. CASE peer[c] # "open" /\ failed' = [failed EXCEPT ![s] = Append(@, c)] /\ sent' = sent
    BY <2>2, <1>0, <1>3 DEF TypeOK
  <2> QED BY <2>1, <2>2, <1>4
<1>8. peer[c] # "new"
  <2>1. c \in ToSet(active)
    BY <1>2 DEF ToSet
  <2> QED BY <2>1, <1>0, <1>3 DEF ListInv
<1>9. /\ failed' \in [Senders -> BoundedSeq(Clients, Cardinality(Clients))]
      /\ FailedInv(s)'
      /\ ToSet(failed'[s]) \subseteq ToSet(failed[s]) \union {c}
  <2>1. CASE failed' = failed
    BY <2>1, <1>0, <1>1 DEF TypeOK, FailedInv, OneToOne, ToSet
  <2>2. CASE peer[c] # "open" /\ failed' = [failed EXCEPT ![s] = Append(@, c)]
    <3> DEFINE f == failed[s]
               g == failed'[s]
               n == Len(f)
    <3>1. /\ n \in Nat /\ f \in [1 .. n -> Clients] /\ f \in Seq(Clients) /\ DOMAIN f = 1 .. n
      BY <1>0, FailedType
    <3>2. g = Append(f, c)
      BY <2>2, <1>0 DEF TypeOK
    <3>3. /\ g \in Seq(Clients) /\ Len(g) = n + 1
          /\ \A i \in 1 .. n : g[i] = f[i]
          /\ g[n + 1] = c
      <4> HIDE DEF g, f, c
      <4> QED BY <3>1, <3>2, <1>3, AppendProperties DEF n
    <3>4. g \in [1 .. n + 1 -> Clients]
      <4> HIDE DEF g, n
      <4> QED BY <3>3, LenProperties
    <3> HIDE DEF g, f, c, n
    <3>5. OneToOne(g)
      <4> SUFFICES ASSUME NEW i \in 1 .. n + 1, NEW j \in 1 .. n + 1, g[i] = g[j]
                   PROVE  i = j
        BY <3>4 DEF OneToOne
      <4>1. CASE i \in 1 .. n /\ j \in 1 .. n
        BY <4>1, <1>0, <3>1, <3>3 DEF FailedInv, OneToOne, f
      <4>2. CASE i = n + 1 /\ j \in 1 .. n
        BY <4>2, <1>3, <3>1, <3>3 DEF ToSet, f
      <4>3. CASE j = n + 1 /\ i \in 1 .. n
        BY <4>3, <1>3, <3>1, <3>3 DEF ToSet, f
      <4>4. (i \in 1 .. n \/ i = n + 1) /\ (j \in 1 .. n \/ j = n + 1)
        BY <3>1
      <4> QED BY <4>1, <4>2, <4>3, <4>4
    <3>6. g \in BoundedSeq(Clients, Cardinality(Clients))
      <4>1. n + 1 \in Nat /\ n + 1 <= Cardinality(Clients)
        BY <3>1, <3>4, <3>5, OneToOneIsShort
      <4> QED BY <4>1, <3>4, ClientsCount, IsBoundedSeq
    <3>7. failed' \in [Senders -> BoundedSeq(Clients, Cardinality(Clients))]
      <4>1. \A t \in Senders : failed'[t] \in BoundedSeq(Clients, Cardinality(Clients))
        BY <3>6, <1>6, <1>0 DEF TypeOK, g
      <4>2. failed' = [t \in Senders |-> failed'[t]]
        BY <2>2, <1>0 DEF TypeOK
      <4> QED BY <4>1, <4>2
    <3>8. ToSet(g) \subseteq ToSet(f) \union {c}
      <4>1. 1 .. n + 1 = (1 .. n) \union {n + 1}
        BY <3>1
      <4> QED BY <4>1, <3>1, <3>3, <3>4 DEF ToSet
    <3>9. \A d \in ToSet(g) : peer'[d] \in {"lost", "closed"}
      <4>1. peer[c] \in {"lost", "closed"}
        BY <1>0, <1>3, <1>8, <2>2 DEF TypeOK, PeerState
      <4> QED BY <4>1, <3>8, <1>0, <1>1 DEF FailedInv, f
    <3> QED BY <3>5, <3>7, <3>8, <3>9 DEF FailedInv, OneToOne, ToSet, g, f
  <2> QED BY <2>1, <2>2, <1>4
<1>10. TypeOK'
  <2>1. cursor' \in [Senders -> 0 .. Cardinality(Clients) + 1]
    <3>1. cursor[s] + 1 \in 0 .. Cardinality(Clients) + 1
      BY <1>2, ClientsCount
    <3> QED BY <3>1, <1>0, <1>2 DEF TypeOK
  <2> QED BY <2>1, <1>0, <1>1, <1>7, <1>9 DEF TypeOK
<1>11. ListInv'
  BY <1>0, <1>1 DEF ListInv, OneToOne, ToSet
<1>12. RemovalsInv'
  <2>1. Departed' = Departed
    BY <1>1 DEF Departed, ToSet
  <2> QED BY <2>1, <1>0, <1>1 DEF RemovalsInv
<1>13. AheadInv(s)'
  <2>1. \A d \in Clients : sent'[s][d] < 2 /\ (peer'[d] = "new" => sent'[s][d] = 0)
    BY <1>0, <1>1, <1>7, <1>8 DEF AheadInv
  <2>2. ASSUME NEW i \in DOMAIN active, i >= cursor[s] + 1
        PROVE  sent'[s][active[i]] = 0 /\ active[i] \notin ToSet(failed'[s])
    <3>1. i # cursor[s] /\ i >= cursor[s] /\ cursor[s] \in DOMAIN active
      BY <2>2, <1>2
    <3>2. active[i] # c
      BY <3>1, <1>0 DEF ListInv, OneToOne
    <3>3. active[i] \in Clients
      BY <1>0, <1>2, ListType
    <3> QED BY <3>1, <3>2, <3>3, <1>0, <1>7, <1>9 DEF AheadInv
  <2> QED BY <2>1, <2>2, <1>1, <1>5 DEF AheadInv, ToSet
<1>14. SkippedInv(s)'
  <2>1. ASSUME NEW i \in Skipped(s)' PROVE i \in Skipped(s)
    <3>1. /\ i \in DOMAIN active /\ i < cursor[s] + 1 /\ active[i] \in audience[s]
          /\ sent'[s][active[i]] = 0
      BY <1>1, <1>5 DEF Skipped
    <3>2. active[i] \in Clients
      BY <3>1, <1>0, <1>2, ListType
    <3>3. i # cursor[s]
      <4>1. SUFFICES ASSUME i = cursor[s] PROVE FALSE
        OBVIOUS
      <4>2. peer[c] = "open"
        BY <4>1, <3>1, <1>0 DEF SkippedInv
      <4> QED BY <4>1, <4>2, <3>1, <1>7
    <3>4. active[i] # c
      BY <3>1, <3>3, <1>0, <1>2 DEF ListInv, OneToOne
    <3>5. i < cursor[s]
      BY <3>1, <3>3, <1>2
    <3> QED BY <3>1, <3>2, <3>4, <3>5, <1>7 DEF Skipped
  <2>2. Skipped(s) \subseteq 1 .. Len(active)
    BY <1>2 DEF Skipped
  <2>3. IsFiniteSet(Skipped(s)) /\ Cardinality(Skipped(s)) \in Nat
    BY <1>2, <2>2, PositionsAreFinite
  <2>4. Cardinality(Skipped(s)') <= Cardinality(Skipped(s)) /\ Cardinality(Skipped(s)') \in Nat
    BY <2>1, <2>3, FS_Subset, FS_CardinalityType
  <2>5. removals[s] \in Nat
    BY <1>0, ClientsCount DEF TypeOK
  <2>6. Cardinality(Skipped(s)') <= removals'[s]
    BY <2>3, <2>4, <2>5, <1>0, <1>1 DEF SkippedInv
  <2> QED BY <2>6, <1>0, <1>1 DEF SkippedInv
<1>15. ASSUME NEW t \in Senders \ {s} PROVE FailedInv(t)' /\ AheadInv(t)' /\ SkippedInv(t)'
  <2>0. FailedInv(t) /\ AheadInv(t) /\ SkippedInv(t)
    BY DEF IInv
  <2>1. FailedInv(t)'
    BY <2>0, <1>1, <1>6 DEF FailedInv, OneToOne, ToSet
  <2>2. AheadInv(t)'
    BY <2>0, <1>1, <1>5, <1>6 DEF AheadInv, ToSet
  <2>3. Skipped(t)' = Skipped(t)
    BY <1>1, <1>5, <1>6 DEF Skipped
  <2>4. SkippedInv(t)'
    BY <2>0, <2>3, <1>1 DEF SkippedInv
  <2> QED BY <2>1, <2>2, <2>4
<1>16. \A t \in Senders : FailedInv(t)' /\ AheadInv(t)' /\ SkippedInv(t)'
  BY <1>9, <1>13, <1>14, <1>15
<1> QED BY <1>10, <1>11, <1>12, <1>16 DEF IInv

\* A broadcast ends: those it could not reach are taken out of the list, and
\* the other broadcasts see them go.
LEMMA FinishKeepsInv ==
  ASSUME IInv, NEW s \in Senders, Finish(s)
  PROVE  IInv'
<1> DEFINE n == Len(active) - Len(active')
           gone == {failed[s][i] : i \in {i \in DOMAIN failed[s] :
                      \A j \in 1 .. i : failed[s][j] \in ToSet(active)}}
<1>0. TypeOK /\ ListInv /\ RemovalsInv
  BY DEF IInv
<1>1. gone \in SUBSET Clients /\ \A c \in gone : peer[c] \notin {"new", "open"}
  <2>1. gone \subseteq ToSet(failed[s])
    BY DEF ToSet
  <2>2. ToSet(failed[s]) \subseteq Clients
    BY <1>0, FailedType DEF ToSet
  <2>3. \A c \in ToSet(failed[s]) : peer[c] \in {"lost", "closed"}
    BY DEF IInv, FailedInv
  <2> QED BY <2>1, <2>2, <2>3
<1>2. Removing(gone)
  <2>1. active' = Without(active, gone)
    BY DEF Finish, CleanUp
  <2>2. peer' = peer
    BY DEF Finish
  <2> HIDE DEF gone
  <2> QED BY <2>1, <2>2, <1>0, <1>1 DEF Removing, TypeOK
<1>3. /\ active' \in BoundedSeq(Clients, Cardinality(Clients))
      /\ Len(active') \in Nat /\ active' \in [1 .. Len(active') -> Clients]
      /\ n \in Nat /\ ListInv'
      /\ Cardinality(Departed) + n <= Cardinality(Departed')
      /\ \E from : MovedUp(active, active', from)
  <2> HIDE DEF gone
  <2> QED BY <1>0, <1>1, <1>2, RemovalKeepsList
<1>4. /\ cursor'[s] = 0 /\ failed'[s] = << >> /\ sent'[s] = NothingSent
      /\ audience'[s] = {} /\ removals'[s] = 0
  BY <1>0 DEF TypeOK, Finish
<1>5. ASSUME NEW t \in Senders \ {s}
      PROVE  /\ cursor'[t] = cursor[t] /\ failed'[t] = failed[t] /\ sent'[t] = sent[t]
             /\ audience'[t] = audience[t]
             /\ removals'[t] = removals[t] + RemovalsSeenBy(t, n)
  BY <1>0 DEF TypeOK, Finish
<1>6. RemovalsInv' /\ removals' \in [Senders -> 0 .. Cardinality(Clients)]
  <2>1. Departed' \subseteq Clients
    BY DEF Departed
  <2>2. Cardinality(Departed') \in Nat /\ Cardinality(Departed') <= Cardinality(Clients)
    BY <2>1, ClientsCount, FS_Subset, FS_CardinalityType
  <2>3. ASSUME NEW t \in Senders
        PROVE  removals'[t] \in Nat /\ removals'[t] <= Cardinality(Departed')
    <3>1. RemovalsSeenBy(t, n) \in Nat /\ RemovalsSeenBy(t, n) <= n
      BY <1>3 DEF RemovalsSeenBy
    <3>2. removals[t] \in Nat /\ removals[t] <= Cardinality(Departed)
      BY <1>0, ClientsCount DEF TypeOK, RemovalsInv
    <3>3. removals'[t] = 0 \/ removals'[t] = removals[t] + RemovalsSeenBy(t, n)
      BY <1>4, <1>5
    <3> HIDE DEF n
    <3> QED BY <3>1, <3>2, <3>3, <1>3, <2>2, DepartedIsFinite
  <2>4. removals' = [t \in Senders |-> removals'[t]]
    BY DEF Finish
  <2>5. \A t \in Senders : removals'[t] \in 0 .. Cardinality(Clients)
    BY <2>2, <2>3, ClientsCount
  <2>6. removals' \in [Senders -> 0 .. Cardinality(Clients)]
    BY <2>4, <2>5
  <2> QED BY <2>3, <2>6 DEF RemovalsInv
<1>7. TypeOK'
  <2>1. << >> \in BoundedSeq(Clients, Cardinality(Clients)) /\ 0 \in 0 .. Cardinality(Clients) + 1
    <3>1. 0 \in 0 .. Cardinality(Clients) /\ << >> \in [1 .. 0 -> Clients]
      BY ClientsCount
    <3> QED BY <3>1, ClientsCount DEF BoundedSeq, SeqOf
  <2>2. cursor' \in [Senders -> 0 .. Cardinality(Clients) + 1]
    BY <2>1, <1>0 DEF TypeOK, Finish
  <2>3. failed' \in [Senders -> BoundedSeq(Clients, Cardinality(Clients))]
    BY <2>1, <1>0 DEF TypeOK, Finish
  <2>4. sent' \in [Senders -> [Clients -> Nat]] /\ audience' \in [Senders -> SUBSET Clients]
    BY <1>0 DEF TypeOK, Finish, NothingSent
  <2>5. peer' \in [Clients -> PeerState]
    BY <1>2 DEF Removing
  <2> QED BY <2>2, <2>3, <2>4, <2>5, <1>3, <1>6 DEF TypeOK
<1>8. FailedInv(s)' /\ AheadInv(s)' /\ SkippedInv(s)'
  <2>1. FailedInv(s)'
    BY <1>4 DEF FailedInv, OneToOne, ToSet
  <2>2. AheadInv(s)'
    <3>1. active' \in [1 .. Len(active') -> Clients]
      BY <1>3
    <3>2. \A i \in DOMAIN active' : active'[i] \in Clients
      BY <3>1
    <3>3. ToSet(failed'[s]) = {} /\ \A c \in Clients : sent'[s][c] = 0
      BY <1>4 DEF NothingSent, ToSet
    <3> QED BY <3>2, <3>3 DEF AheadInv, ToSet
  <2>3. Skipped(s)' = {}
    BY <1>4 DEF Skipped
  <2>4. Cardinality(Skipped(s)') = 0
    BY <2>3, FS_EmptySet
  <2> QED BY <2>1, <2>2, <2>4, <1>4 DEF SkippedInv
<1>9. ASSUME NEW t \in Senders \ {s} PROVE FailedInv(t)' /\ AheadInv(t)' /\ SkippedInv(t)'
  <2>1. FailedInv(t) /\ AheadInv(t) /\ SkippedInv(t)
    BY DEF IInv
  <2>2. PICK from : MovedUp(active, active', from)
    BY <1>3
  <2> HIDE DEF gone
  <2> QED BY <1>0, <1>2, <1>3, <1>5, <2>1, <2>2, RemovalKeepsBroadcast
<1>10. \A t \in Senders : FailedInv(t)' /\ AheadInv(t)' /\ SkippedInv(t)'
  BY <1>8, <1>9
<1> QED BY <1>3, <1>6, <1>7, <1>10 DEF IInv

LEMMA StutterKeepsInv == ASSUME IInv, UNCHANGED vars PROVE IInv'
<1> USE DEF vars, hub
<1>1. TypeOK' BY DEF IInv, TypeOK
<1>2. ListInv' BY DEF IInv, ListInv, OneToOne, ToSet
<1>3. RemovalsInv'
  <2>1. Departed' = Departed BY DEF Departed, ToSet
  <2> QED BY <2>1 DEF IInv, RemovalsInv
<1>4. ASSUME NEW s \in Senders PROVE FailedInv(s)' /\ AheadInv(s)' /\ SkippedInv(s)'
  <2>0. FailedInv(s) /\ AheadInv(s) /\ SkippedInv(s) BY DEF IInv
  <2>1. FailedInv(s)' BY <2>0 DEF FailedInv, OneToOne, ToSet
  <2>2. AheadInv(s)' BY <2>0 DEF AheadInv, ToSet
  <2>3. Skipped(s)' = Skipped(s) BY DEF Skipped
  <2>4. SkippedInv(s)' BY <2>0, <2>3 DEF SkippedInv
  <2> QED BY <2>1, <2>2, <2>4
<1> QED BY <1>1, <1>2, <1>3, <1>4 DEF IInv

LEMMA NextKeepsInv == ASSUME IInv, [Next]_vars PROVE IInv'
<1>1. ASSUME NEW c \in Clients, Connect(c) PROVE IInv' BY <1>1, ConnectKeepsInv
<1>2. ASSUME NEW c \in Clients, Lose(c) PROVE IInv' BY <1>2, LoseKeepsInv
<1>3. ASSUME NEW c \in Clients, Disconnect(c) PROVE IInv' BY <1>3, DisconnectKeepsInv
<1>4. ASSUME NEW c \in Clients, EndpointFails(c) PROVE IInv' BY <1>4, EndpointFailsKeepsInv
<1>5. ASSUME NEW s \in Senders, StartBroadcast(s) PROVE IInv' BY <1>5, StartKeepsInv
<1>6. ASSUME NEW s \in Senders, Send(s) PROVE IInv' BY <1>6, SendKeepsInv
<1>7. ASSUME NEW s \in Senders, Finish(s) PROVE IInv' BY <1>7, FinishKeepsInv
<1>8. CASE UNCHANGED vars BY <1>8, StutterKeepsInv
<1> QED BY <1>1, <1>2, <1>3, <1>4, <1>5, <1>6, <1>7, <1>8 DEF Next

THEOREM InvariantHolds == Spec => []IInv
<1>1. Init => IInv BY InitInv
<1>2. IInv /\ [Next]_vars => IInv' BY NextKeepsInv
<1> QED BY <1>1, <1>2, PTL DEF Spec

-----------------------------------------------------------------------------
(***************************************************************************)
(* The theorems.                                                           *)
(***************************************************************************)

\* Every variable of the hub keeps its type: no list grows beyond the number of
\* clients, and no broadcast counts more removals than there are clients.
THEOREM TypeCorrect == Spec => []TypeOK
<1>1. IInv => TypeOK BY DEF IInv
<1> QED BY <1>1, InvariantHolds, PTL

\* disconnect() and the clean-up of broadcast() take out only clients that are
\* gone: whoever is connected stands in the list, once.
THEOREM OpenStaysListed == Spec => []OpenIsListed
<1>1. ASSUME IInv PROVE OpenIsListed
  <2> SUFFICES ASSUME NEW c \in Clients, peer[c] = "open"
               PROVE  Cardinality({i \in DOMAIN active : active[i] = c}) = 1
    BY DEF OpenIsListed
  <2>1. c \in ToSet(active) /\ OneToOne(active)
    BY <1>1 DEF IInv, ListInv
  <2>2. PICK i \in DOMAIN active : active[i] = c
    BY <2>1 DEF ToSet
  <2>3. {j \in DOMAIN active : active[j] = c} = {i}
    BY <2>1, <2>2 DEF OneToOne
  <2> QED BY <2>3, FS_Singleton
<1> QED BY <1>1, InvariantHolds, PTL

\* However connects, disconnects and the clean-ups of other broadcasts move the
\* list under the iterator of a broadcast, it sends to nobody twice.
THEOREM NobodyIsServedTwice == Spec => []AtMostOnce
<1>1. IInv => AtMostOnce BY DEF IInv, AheadInv, AtMostOnce
<1> QED BY <1>1, InvariantHolds, PTL

\* A broadcast that has reached the end of the list has missed no more connected
\* clients than entries were removed while it walked.
THEOREM MissesArePaidFor == Spec => []MissesAreBounded
<1>1. ASSUME IInv PROVE MissesAreBounded
  <2> SUFFICES ASSUME NEW s \in Senders, cursor[s] > Len(active)
               PROVE  Cardinality({c \in audience[s] : sent[s][c] = 0}) <= removals[s]
    BY DEF MissesAreBounded
  <2> DEFINE missed == {c \in audience[s] : sent[s][c] = 0}
             at == [c \in missed |-> CHOOSE i \in DOMAIN active : active[i] = c]
  <2>0. TypeOK /\ ListInv /\ SkippedInv(s)
    BY <1>1 DEF IInv
  <2>1. DOMAIN active = 1 .. Len(active) /\ Len(active) \in Nat
    BY <2>0, ListType
  <2>2. ASSUME NEW c \in missed PROVE at[c] \in DOMAIN active /\ active[at[c]] = c
    <3>1. c \in Clients /\ peer[c] = "open"
      BY <2>0 DEF TypeOK, SkippedInv
    <3>2. \E i \in DOMAIN active : active[i] = c
      BY <2>0, <3>1 DEF ListInv, ToSet
    <3> QED BY <3>2
  <2>3. ASSUME NEW c \in missed PROVE at[c] \in Skipped(s)
    <3>1. at[c] < cursor[s]
      <4>1. cursor[s] \in Nat
        BY <2>0, ClientsCount DEF TypeOK
      <4>2. at[c] \in 1 .. Len(active)
        BY <2>1, <2>2
      <4> HIDE DEF at
      <4> QED BY <2>1, <4>1, <4>2
    <3> HIDE DEF at
    <3> QED BY <2>2, <3>1 DEF Skipped
  <2>4. \A c, d \in missed : at[c] = at[d] => c = d
    <3> HIDE DEF at, missed
    <3> QED BY <2>2
  <2>5. at \in Injection(missed, Skipped(s))
    <3> HIDE DEF missed
    <3> QED BY <2>3, <2>4 DEF Injection, IsInjective
  <2>6. Skipped(s) \subseteq 1 .. Len(active)
    BY <2>1 DEF Skipped
  <2>7. IsFiniteSet(Skipped(s)) /\ Cardinality(Skipped(s)) \in Nat
    BY <2>1, <2>6, PositionsAreFinite
  <2>8. /\ IsFiniteSet(missed) /\ Cardinality(missed) \in Nat
        /\ Cardinality(missed) <= Cardinality(Skipped(s))
    <3> HIDE DEF missed, at
    <3> QED BY <2>5, <2>7, FS_Injection, FS_CardinalityType
  <2>9. removals[s] \in Nat
    BY <2>0, ClientsCount DEF TypeOK
  <2> HIDE DEF missed
  <2> QED BY <2>0, <2>7, <2>8, <2>9 DEF SkippedInv, missed
<1> QED BY <1>1, InvariantHolds, PTL
=============================================================================
