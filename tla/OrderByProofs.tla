---------------------------- MODULE OrderByProofs ----------------------------
(***************************************************************************)
(* What an ordered query returns, for every finite set of rows: every row  *)
(* once, at the place that the rows before it leave it, in the order asked *)
(* for. No induction is needed: distinct rows have distinct ranks, so the  *)
(* rank maps the rows one-to-one into as many places, hence onto them.     *)
(***************************************************************************)
EXTENDS OrderBy, Sequences, FiniteSetTheorems, FunctionTheorems, TLAPS

\* A strict order in which any two rows of S are comparable.
OrdersStrictly(order, S) ==
  /\ \A r \in S : <<r, r>> \notin order
  /\ \A r, s, t \in S : <<r, s>> \in order /\ <<s, t>> \in order => <<r, t>> \in order
  /\ \A r, s \in S : r # s => <<r, s>> \in order \/ <<s, r>> \in order

\* The rank of a row is a number below the number of rows.
LEMMA RankType ==
  ASSUME NEW S, IsFiniteSet(S), NEW order, OrdersStrictly(order, S), NEW s \in S
  PROVE  /\ IsFiniteSet(Preceding(s, S, order))
         /\ Cardinality(Preceding(s, S, order)) \in 0..(Cardinality(S) - 1)
<1>1. Preceding(s, S, order) \in SUBSET S /\ s \notin Preceding(s, S, order)
  BY DEF Preceding, OrdersStrictly
<1>2. /\ IsFiniteSet(Preceding(s, S, order))
      /\ Cardinality(Preceding(s, S, order)) <= Cardinality(S)
      /\ Cardinality(Preceding(s, S, order)) # Cardinality(S)
  BY <1>1, FS_Subset
<1>3. Cardinality(S) \in Nat /\ Cardinality(Preceding(s, S, order)) \in Nat
  BY <1>2, FS_CardinalityType
<1>q. QED BY <1>2, <1>3

\* A row that comes before another has the smaller rank.
LEMMA RankMonotone ==
  ASSUME NEW S, IsFiniteSet(S), NEW order, OrdersStrictly(order, S),
         NEW r \in S, NEW s \in S, <<r, s>> \in order
  PROVE  Cardinality(Preceding(r, S, order)) < Cardinality(Preceding(s, S, order))
<1> DEFINE R == Preceding(r, S, order)
           T == Preceding(s, S, order)
<1>1. R \in SUBSET T /\ r \in T /\ r \notin R
  BY DEF Preceding, OrdersStrictly
<1>2. IsFiniteSet(T) /\ Cardinality(T) \in Nat /\ Cardinality(R) \in Nat
  BY RankType
<1> HIDE DEF R, T
<1>3. Cardinality(R) <= Cardinality(T) /\ Cardinality(R) # Cardinality(T)
  BY <1>1, <1>2, FS_Subset
<1>4. Cardinality(R) < Cardinality(T)
  BY <1>2, <1>3
<1>q. QED BY <1>4 DEF R, T

\* Distinct rows have distinct ranks.
LEMMA RankInjective ==
  ASSUME NEW S, IsFiniteSet(S), NEW order, OrdersStrictly(order, S),
         NEW r \in S, NEW s \in S,
         Cardinality(Preceding(r, S, order)) = Cardinality(Preceding(s, S, order))
  PROVE  r = s
<1>1. /\ Cardinality(Preceding(r, S, order)) \in Int
      /\ Cardinality(Preceding(s, S, order)) \in Int
  BY RankType
<1>2. ~ (<<r, s>> \in order) /\ ~ (<<s, r>> \in order)
  BY <1>1, RankMonotone
<1>q. QED BY <1>2 DEF OrdersStrictly

\* Every place is the rank of some row, plus one.
LEMMA RankOnto ==
  ASSUME NEW S, IsFiniteSet(S), NEW order, OrdersStrictly(order, S),
         NEW i \in 1..Cardinality(S)
  PROVE  \E s \in S : Cardinality(Preceding(s, S, order)) = i - 1
<1> DEFINE n == Cardinality(S)
           place == [s \in S |-> Cardinality(Preceding(s, S, order)) + 1]
<1>1. n \in Nat
  BY FS_CardinalityType
<1>2. \A s \in S : Cardinality(Preceding(s, S, order)) \in 0..(n - 1)
  BY RankType
<1>3. place \in [S -> 1..n]
  BY <1>1, <1>2
<1>4. ASSUME NEW r \in S, NEW s \in S, place[r] = place[s]
      PROVE  r = s
  <2>1. Cardinality(Preceding(r, S, order)) = Cardinality(Preceding(s, S, order))
    BY <1>2, <1>4
  <2>q. QED BY <2>1, RankInjective
<1>5. place \in Injection(S, 1..n)
  BY <1>3, <1>4, Fun_IsInj
<1>6. IsFiniteSet(1..n) /\ Cardinality(1..n) = n
  BY <1>1, FS_Interval
<1>7. place \in Surjection(S, 1..n)
  <2> HIDE DEF place
  <2>q. QED BY <1>5, <1>6, FS_Injection
<1>8. \A k \in 1..n : \E s \in S : place[s] = k
  <2> HIDE DEF place, n
  <2>q. QED BY <1>7, Fun_SurjectionProperties
<1>9. PICK s \in S : place[s] = i
  BY <1>8
<1>10. Cardinality(Preceding(s, S, order)) + 1 = i
  BY <1>9
<1>q. QED BY <1>2, <1>10

\* An ordered query returns a sequence of rows, as long as there are rows.
THEOREM SortedType ==
  ASSUME NEW S, IsFiniteSet(S), NEW order, OrdersStrictly(order, S)
  PROVE  /\ Cardinality(S) \in Nat
         /\ Sorted(S, order) \in [1..Cardinality(S) -> S]
         /\ Sorted(S, order) \in Seq(S)
         /\ Len(Sorted(S, order)) = Cardinality(S)
         /\ DOMAIN Sorted(S, order) = 1..Cardinality(S)
<1>1. Cardinality(S) \in Nat
  BY FS_CardinalityType
<1>2. Sorted(S, order) \in [1..Cardinality(S) -> S]
  BY RankOnto DEF Sorted
<1>3. Sorted(S, order) \in Seq(S) /\ Len(Sorted(S, order)) = Cardinality(S)
  BY <1>1, <1>2
<1>q. QED BY <1>1, <1>2, <1>3

\* The row at place i has rank i - 1.
LEMMA PlaceOfRank ==
  ASSUME NEW S, IsFiniteSet(S), NEW order, OrdersStrictly(order, S),
         NEW i \in 1..Cardinality(S)
  PROVE  /\ Sorted(S, order)[i] \in S
         /\ Cardinality(Preceding(Sorted(S, order)[i], S, order)) = i - 1
  BY RankOnto DEF Sorted

\* ORDER BY keeps every row: it is listed after the rows that come before it.
THEOREM SortedListsAll ==
  ASSUME NEW S, IsFiniteSet(S), NEW order, OrdersStrictly(order, S), NEW s \in S
  PROVE  /\ Cardinality(Preceding(s, S, order)) + 1 \in 1..Cardinality(S)
         /\ Sorted(S, order)[Cardinality(Preceding(s, S, order)) + 1] = s
<1> DEFINE i == Cardinality(Preceding(s, S, order)) + 1
<1>1. Cardinality(S) \in Nat /\ Cardinality(Preceding(s, S, order)) \in 0..(Cardinality(S) - 1)
  BY RankType, FS_CardinalityType
<1>2. i \in 1..Cardinality(S) /\ i - 1 = Cardinality(Preceding(s, S, order))
  BY <1>1
<1>3. /\ Sorted(S, order)[i] \in S
      /\ Cardinality(Preceding(Sorted(S, order)[i], S, order)) = Cardinality(Preceding(s, S, order))
  BY <1>2, PlaceOfRank
<1>q. QED BY <1>2, <1>3, RankInjective

\* ORDER BY lists a row before another exactly when it comes first in the order:
\* the sequence is sorted, and no row is in it twice.
THEOREM SortedInOrder ==
  ASSUME NEW S, IsFiniteSet(S), NEW order, OrdersStrictly(order, S),
         NEW i \in 1..Cardinality(S), NEW k \in 1..Cardinality(S), i < k
  PROVE  /\ <<Sorted(S, order)[i], Sorted(S, order)[k]>> \in order
         /\ Sorted(S, order)[i] # Sorted(S, order)[k]
<1> DEFINE r == Sorted(S, order)[i]
           s == Sorted(S, order)[k]
<1>1. r \in S /\ s \in S
  BY PlaceOfRank
<1>2. Cardinality(Preceding(r, S, order)) = i - 1 /\ Cardinality(Preceding(s, S, order)) = k - 1
  BY PlaceOfRank
<1>3. ~ (Cardinality(Preceding(s, S, order)) < Cardinality(Preceding(r, S, order)))
  BY <1>2
<1>4. Cardinality(Preceding(r, S, order)) # Cardinality(Preceding(s, S, order))
  BY <1>2
<1> HIDE DEF r, s
<1>5. r # s /\ ~ (<<s, r>> \in order)
  BY <1>1, <1>3, <1>4, RankMonotone
<1>6. <<r, s>> \in order
  BY <1>1, <1>5 DEF OrdersStrictly
<1>q. QED BY <1>5, <1>6 DEF r, s
=============================================================================
