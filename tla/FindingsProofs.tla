--------------------------- MODULE FindingsProofs ---------------------------
(***************************************************************************)
(* What the operators on findings compute, for any input: what Prioritize  *)
(* and AggregateByRule do to a list of findings of any length, and what    *)
(* every Pod rule guarantees about the findings it makes of any snapshot.  *)
(***************************************************************************)
EXTENDS Aggregate, PodRules, Sorting, FiniteSetTheorems, WellFoundedInduction, TLAPS

-----------------------------------------------------------------------------
(* Counting predecessors numbers a finite set *)

\* R orders S strictly and totally.
OrderOn(S, R) ==
  /\ \A x \in S : <<x, x>> \notin R
  /\ \A x, y \in S : x = y \/ <<x, y>> \in R \/ <<y, x>> \in R
  /\ \A x, y, z \in S : <<x, y>> \in R /\ <<y, z>> \in R => <<x, z>> \in R

Before(S, R, x) == {y \in S : <<y, x>> \in R}

\* The number of predecessors is a number below the size of the set, and grows along
\* the order.
LEMMA BeforeGrows ==
  ASSUME NEW S, IsFiniteSet(S), NEW R, OrderOn(S, R), NEW x \in S
  PROVE  /\ Cardinality(Before(S, R, x)) \in 0..(Cardinality(S) - 1)
         /\ \A y \in S : <<x, y>> \in R =>
              Cardinality(Before(S, R, x)) < Cardinality(Before(S, R, y))
<1>1. ASSUME NEW y \in S
      PROVE  /\ IsFiniteSet(Before(S, R, y)) /\ Cardinality(Before(S, R, y)) \in Nat
             /\ Before(S, R, y) \in SUBSET S /\ y \notin Before(S, R, y)
  <2>1. Before(S, R, y) \in SUBSET S /\ y \notin Before(S, R, y)
    BY DEF Before, OrderOn
  <2> QED BY <2>1, FS_Subset, FS_CardinalityType
<1>2. Cardinality(S) \in Nat
  BY FS_CardinalityType
<1>3. ASSUME NEW T \in SUBSET S, NEW U \in SUBSET T, NEW y \in T, y \notin U
      PROVE  Cardinality(U) < Cardinality(T)
  <2>1. IsFiniteSet(T) /\ Cardinality(T) \in Nat
    BY FS_Subset, FS_CardinalityType
  <2>2. /\ Cardinality(U) <= Cardinality(T) /\ Cardinality(U) # Cardinality(T)
        /\ IsFiniteSet(U)
    BY <1>3, <2>1, FS_Subset
  <2>3. Cardinality(U) \in Nat
    BY <2>2, FS_CardinalityType
  <2> QED BY <2>1, <2>2, <2>3
<1>4. Cardinality(Before(S, R, x)) < Cardinality(S)
  BY <1>1, <1>3
<1>5. ASSUME NEW y \in S, <<x, y>> \in R
      PROVE  Cardinality(Before(S, R, x)) < Cardinality(Before(S, R, y))
  <2>1. Before(S, R, x) \in SUBSET Before(S, R, y) /\ x \in Before(S, R, y)
    BY <1>5 DEF Before, OrderOn
  <2> QED BY <1>1, <1>3, <2>1
<1>6. Cardinality(Before(S, R, x)) \in 0..(Cardinality(S) - 1)
  BY <1>1, <1>2, <1>4
<1> QED BY <1>5, <1>6

\* So every place from 1 to the size of the set is taken by exactly one element.
LEMMA PlacesTaken ==
  ASSUME NEW S, IsFiniteSet(S), NEW R, OrderOn(S, R),
         NEW k \in 1..Cardinality(S)
  PROVE  \E x \in S : /\ Cardinality(Before(S, R, x)) = k - 1
                      /\ \A y \in S : Cardinality(Before(S, R, y)) = k - 1 => y = x
<1> DEFINE B == 0..(Cardinality(S) - 1)
           rank == [x \in S |-> Cardinality(Before(S, R, x))]
<1>1. Cardinality(S) \in Nat
  BY FS_CardinalityType
<1>2. \A x, y \in S : Cardinality(Before(S, R, x)) = Cardinality(Before(S, R, y)) => x = y
  <2> SUFFICES ASSUME NEW x \in S, NEW y \in S,
                      Cardinality(Before(S, R, x)) = Cardinality(Before(S, R, y))
               PROVE  x = y
    OBVIOUS
  <2>1. /\ Cardinality(Before(S, R, x)) \in B
        /\ <<x, y>> \in R => Cardinality(Before(S, R, x)) < Cardinality(Before(S, R, y))
        /\ <<y, x>> \in R => Cardinality(Before(S, R, y)) < Cardinality(Before(S, R, x))
    BY BeforeGrows
  <2>2. x = y \/ <<x, y>> \in R \/ <<y, x>> \in R
    BY DEF OrderOn
  <2> QED BY <2>1, <2>2
<1>3. rank \in [S -> B]
  BY BeforeGrows
<1>4. rank \in Injection(S, B)
  BY <1>2, <1>3 DEF Injection, IsInjective
<1>5. IsFiniteSet(B) /\ Cardinality(B) = Cardinality(S)
  <2>1. ASSUME NEW m \in Nat PROVE IsFiniteSet(0..(m - 1)) /\ Cardinality(0..(m - 1)) = m
    BY FS_Interval
  <2> QED BY <1>1, <2>1
<1>6. rank \in Surjection(S, B)
  BY <1>4, <1>5, FS_Injection
<1>7. k - 1 \in B
  BY <1>1
<1>8. PICK x \in S : rank[x] = k - 1
  BY <1>6, <1>7 DEF Surjection
<1> QED BY <1>2, <1>8

\* The element at place k.
Nth(S, R, k) == CHOOSE x \in S : Cardinality(Before(S, R, x)) = k - 1

\* The places number the elements, along the order.
LEMMA Numbering ==
  ASSUME NEW S, IsFiniteSet(S), NEW R, OrderOn(S, R)
  PROVE  /\ \A k \in 1..Cardinality(S) : Nth(S, R, k) \in S
         /\ \A x \in S : \E k \in 1..Cardinality(S) : Nth(S, R, k) = x
         /\ \A k, m \in 1..Cardinality(S) : k < m => <<Nth(S, R, k), Nth(S, R, m)>> \in R
<1>1. Cardinality(S) \in Nat
  BY FS_CardinalityType
<1>2. ASSUME NEW k \in 1..Cardinality(S)
      PROVE  /\ Nth(S, R, k) \in S /\ Cardinality(Before(S, R, Nth(S, R, k))) = k - 1
             /\ \A y \in S : Cardinality(Before(S, R, y)) = k - 1 => y = Nth(S, R, k)
  <2>1. PICK x \in S : /\ Cardinality(Before(S, R, x)) = k - 1
                       /\ \A y \in S : Cardinality(Before(S, R, y)) = k - 1 => y = x
    BY PlacesTaken
  <2> QED BY <2>1 DEF Nth
<1>3. ASSUME NEW x \in S PROVE \E k \in 1..Cardinality(S) : Nth(S, R, k) = x
  <2>1. Cardinality(Before(S, R, x)) \in 0..(Cardinality(S) - 1)
    BY BeforeGrows
  <2>2. ASSUME NEW b \in 0..(Cardinality(S) - 1), b = Cardinality(Before(S, R, x))
        PROVE  \E k \in 1..Cardinality(S) : Nth(S, R, k) = x
    <3>1. b + 1 \in 1..Cardinality(S) /\ (b + 1) - 1 = b
      BY <1>1
    <3> QED BY <1>2, <2>2, <3>1
  <2> QED BY <2>1, <2>2
<1>4. ASSUME NEW k \in 1..Cardinality(S), NEW m \in 1..Cardinality(S), k < m
      PROVE  <<Nth(S, R, k), Nth(S, R, m)>> \in R
  <2> DEFINE x == Nth(S, R, k)
             y == Nth(S, R, m)
  <2>1. /\ x \in S /\ y \in S
        /\ Cardinality(Before(S, R, x)) = k - 1 /\ Cardinality(Before(S, R, y)) = m - 1
    BY <1>2
  <2>2. <<y, x>> \in R => Cardinality(Before(S, R, y)) < Cardinality(Before(S, R, x))
    BY <2>1, BeforeGrows
  <2>3. x = y \/ <<x, y>> \in R \/ <<y, x>> \in R
    BY <2>1 DEF OrderOn
  <2> HIDE DEF x, y
  <2>4. <<x, y>> \in R
    BY <1>1, <1>4, <2>1, <2>2, <2>3
  <2> QED BY <2>4 DEF x, y
<1> QED BY <1>2, <1>3, <1>4

-----------------------------------------------------------------------------
(* Prioritize *)

\* A list whose elements have a severity and a confidence.
Rankable(in) ==
  \A i \in DOMAIN in : in[i].severity \in Severities /\ in[i].confidence \in Confidences

\* The rank that the comparison function compares.
Rank(d, causes) ==
  9 * SeverityRank[d.severity] + 3 * Weight(d, causes) + ConfidenceRank[d.confidence]

\* It compares ranks.
LEMMA LessIsRank ==
  ASSUME NEW a, NEW b, NEW causes,
         a.severity \in Severities, a.confidence \in Confidences,
         b.severity \in Severities, b.confidence \in Confidences
  PROVE  /\ Rank(a, causes) \in Nat
         /\ Less(a, b, causes) <=> Rank(a, causes) < Rank(b, causes)
         /\ Rank(a, causes) = Rank(b, causes) <=> /\ a.severity = b.severity
                                                  /\ Weight(a, causes) = Weight(b, causes)
                                                  /\ a.confidence = b.confidence
<1>1. Weight(a, causes) \in {0, 1, 2} /\ Weight(b, causes) \in {0, 1, 2}
  BY DEF Weight
<1>2. ASSUME NEW d, d.severity \in Severities
      PROVE  /\ SeverityRank[d.severity] \in {0, 1, 2}
             /\ SeverityRank[d.severity] = 0 <=> d.severity = "critical"
             /\ SeverityRank[d.severity] = 1 <=> d.severity = "warning"
             /\ SeverityRank[d.severity] = 2 <=> d.severity = "info"
  BY <1>2 DEF SeverityRank, Severities
<1>3. ASSUME NEW d, d.confidence \in Confidences
      PROVE  /\ ConfidenceRank[d.confidence] \in {0, 1, 2}
             /\ ConfidenceRank[d.confidence] = 0 <=> d.confidence = "certain"
             /\ ConfidenceRank[d.confidence] = 1 <=> d.confidence = "likely"
             /\ ConfidenceRank[d.confidence] = 2 <=> d.confidence = "possible"
  BY <1>3 DEF ConfidenceRank, Confidences
<1>4. a.severity = b.severity <=> SeverityRank[a.severity] = SeverityRank[b.severity]
  BY <1>2 DEF Severities
<1>5. a.confidence = b.confidence <=> ConfidenceRank[a.confidence] = ConfidenceRank[b.confidence]
  BY <1>3 DEF Confidences
<1>6. ASSUME NEW s1 \in {0, 1, 2}, NEW s2 \in {0, 1, 2}, NEW w1 \in {0, 1, 2},
             NEW w2 \in {0, 1, 2}, NEW c1 \in {0, 1, 2}, NEW c2 \in {0, 1, 2}
      PROVE  /\ 9 * s1 + 3 * w1 + c1 \in Nat
             /\ (s1 < s2 \/ (s1 = s2 /\ (w1 < w2 \/ (w1 = w2 /\ c1 < c2))))
                  <=> 9 * s1 + 3 * w1 + c1 < 9 * s2 + 3 * w2 + c2
             /\ 9 * s1 + 3 * w1 + c1 = 9 * s2 + 3 * w2 + c2 <=> s1 = s2 /\ w1 = w2 /\ c1 = c2
  OBVIOUS
<1> DEFINE sa == SeverityRank[a.severity]
           sb == SeverityRank[b.severity]
           ca == ConfidenceRank[a.confidence]
           cb == ConfidenceRank[b.confidence]
           wa == Weight(a, causes)
           wb == Weight(b, causes)
<1>7. /\ sa \in {0, 1, 2} /\ sb \in {0, 1, 2} /\ ca \in {0, 1, 2} /\ cb \in {0, 1, 2}
      /\ wa \in {0, 1, 2} /\ wb \in {0, 1, 2}
  BY <1>1, <1>2, <1>3
<1>8. /\ Rank(a, causes) = 9 * sa + 3 * wa + ca /\ Rank(b, causes) = 9 * sb + 3 * wb + cb
      /\ Less(a, b, causes) <=> sa < sb \/ (sa = sb /\ (wa < wb \/ (wa = wb /\ ca < cb)))
  BY <1>4 DEF Rank, Less
<1>9. (a.severity = b.severity <=> sa = sb) /\ (a.confidence = b.confidence <=> ca = cb)
  BY <1>4, <1>5
<1> HIDE DEF sa, sb, ca, cb
<1> QED BY <1>6, <1>7, <1>8, <1>9

\* The stable order of the positions of a list.
SortOrder(in) == {p \in (DOMAIN in) \X (DOMAIN in) : Precedes(in, p[1], p[2])}

\* The stable order is by rank, and by position among equals.
LEMMA PrecedesIsRank ==
  ASSUME NEW S, NEW in \in Seq(S), Rankable(in), NEW i \in DOMAIN in, NEW j \in DOMAIN in
  PROVE  Precedes(in, i, j) <=>
           \/ Rank(in[i], Causes(in)) < Rank(in[j], Causes(in))
           \/ Rank(in[i], Causes(in)) = Rank(in[j], Causes(in)) /\ i < j
<1>1. /\ Rank(in[i], Causes(in)) \in Nat /\ Rank(in[j], Causes(in)) \in Nat
      /\ Less(in[i], in[j], Causes(in)) <=> Rank(in[i], Causes(in)) < Rank(in[j], Causes(in))
      /\ Less(in[j], in[i], Causes(in)) <=> Rank(in[j], Causes(in)) < Rank(in[i], Causes(in))
  BY LessIsRank DEF Rankable
<1> QED BY <1>1 DEF Precedes

\* It is a strict and total order.
LEMMA SortOrderTotal ==
  ASSUME NEW S, NEW in \in Seq(S), Rankable(in)
  PROVE  OrderOn(DOMAIN in, SortOrder(in))
<1> DEFINE rank == [i \in DOMAIN in |-> Rank(in[i], Causes(in))]
<1>1. \A i \in DOMAIN in : rank[i] \in Nat /\ i \in Nat
  BY LessIsRank DEF Rankable
<1>2. \A i, j \in DOMAIN in :
        <<i, j>> \in SortOrder(in) <=> rank[i] < rank[j] \/ (rank[i] = rank[j] /\ i < j)
  BY PrecedesIsRank DEF SortOrder
<1> HIDE DEF rank
<1> QED BY <1>1, <1>2 DEF OrderOn

\* Where a position comes out is one more than how many come before it.
LEMMA PlaceIsBefore ==
  ASSUME NEW S, NEW in \in Seq(S), NEW i \in DOMAIN in
  PROVE  Place(in, i) = 1 + Cardinality(Before(DOMAIN in, SortOrder(in), i))
<1>1. {j \in DOMAIN in : Precedes(in, j, i)} = Before(DOMAIN in, SortOrder(in), i)
  BY DEF Before, SortOrder
<1> QED BY <1>1 DEF Place

\* The position that comes out at place k.
At(in, k) == CHOOSE i \in DOMAIN in : Place(in, i) = k

\* The positions of a list are finitely many.
LEMMA PositionsFinite ==
  ASSUME NEW S, NEW in \in Seq(S)
  PROVE  /\ DOMAIN in = 1..Len(in) /\ Len(in) \in Nat
         /\ IsFiniteSet(DOMAIN in) /\ Cardinality(DOMAIN in) = Len(in)
<1>1. DOMAIN in = 1..Len(in) /\ Len(in) \in Nat
  OBVIOUS
<1> QED BY <1>1, FS_Interval

\* One position comes out at each place, and it precedes those that come out later.
LEMMA AtPlace ==
  ASSUME NEW S, NEW in \in Seq(S), Rankable(in), NEW k \in DOMAIN in
  PROVE  /\ At(in, k) \in DOMAIN in /\ Place(in, At(in, k)) = k
         /\ \A i \in DOMAIN in : Place(in, i) \in DOMAIN in
         /\ \A i \in DOMAIN in : Place(in, i) = k => i = At(in, k)
         /\ \A i, j \in DOMAIN in : Precedes(in, i, j) => Place(in, i) < Place(in, j)
<1> DEFINE D == DOMAIN in
           R == SortOrder(in)
<1>1. D = 1..Len(in) /\ Len(in) \in Nat /\ IsFiniteSet(D) /\ Cardinality(D) = Len(in)
  BY PositionsFinite
<1>2. OrderOn(D, R)
  BY SortOrderTotal
<1>3. \A i \in D : Place(in, i) = 1 + Cardinality(Before(D, R, i))
  BY PlaceIsBefore
<1>4. \A i \in D : Cardinality(Before(D, R, i)) \in 0..(Len(in) - 1)
  BY <1>1, <1>2, BeforeGrows
<1>5. \A i, j \in D : <<i, j>> \in R =>
        Cardinality(Before(D, R, i)) < Cardinality(Before(D, R, j))
  BY <1>1, <1>2, BeforeGrows
<1>6. PICK x \in D : /\ Cardinality(Before(D, R, x)) = k - 1
                     /\ \A y \in D : Cardinality(Before(D, R, y)) = k - 1 => y = x
  BY <1>1, <1>2, PlacesTaken
<1>7. \A i, j \in D : Precedes(in, i, j) => <<i, j>> \in R
  BY DEF SortOrder
<1> HIDE DEF D, R
<1>8. \A i \in D : Place(in, i) \in 1..Len(in)
  BY <1>1, <1>3, <1>4
<1>9. \A i \in D : Place(in, i) = k <=> i = x
  <2>1. k \in 1..Len(in)
    BY <1>1 DEF D
  <2> QED BY <1>3, <1>4, <1>6, <2>1
<1>10. ASSUME NEW i \in D, NEW j \in D, Precedes(in, i, j)
       PROVE  Place(in, i) < Place(in, j)
  <2>1. Cardinality(Before(D, R, i)) < Cardinality(Before(D, R, j))
    BY <1>5, <1>7, <1>10
  <2>2. Cardinality(Before(D, R, i)) \in Nat /\ Cardinality(Before(D, R, j)) \in Nat
    BY <1>1, <1>4
  <2>3. /\ Place(in, i) = 1 + Cardinality(Before(D, R, i))
        /\ Place(in, j) = 1 + Cardinality(Before(D, R, j))
    BY <1>3
  <2> QED BY <2>1, <2>2, <2>3
<1>11. At(in, k) = x
  BY <1>9 DEF At, D
<1> QED BY <1>1, <1>8, <1>9, <1>10, <1>11 DEF D

\* What Prioritize puts at each place.
LEMMA PrioritizeAt ==
  ASSUME NEW S, NEW in \in Seq(S), Rankable(in)
  PROVE  /\ Prioritize(in) \in Seq(S) /\ Len(Prioritize(in)) = Len(in)
         /\ DOMAIN Prioritize(in) = DOMAIN in
         /\ \A k \in DOMAIN in : Prioritize(in)[k] = in[At(in, k)]
<1>1. CASE Len(in) < 2
  <2>1. Prioritize(in) = in
    BY <1>1 DEF Prioritize
  <2>2. \A k \in DOMAIN in : At(in, k) = k
    <3>1. \A i, j \in DOMAIN in : i = j
      BY <1>1
    <3> QED BY <3>1, AtPlace
  <2> QED BY <2>1, <2>2
<1>2. CASE ~(Len(in) < 2)
  <2>1. Prioritize(in) = [k \in DOMAIN in |-> in[At(in, k)]]
    BY <1>2 DEF Prioritize, At
  <2>2. \A k \in DOMAIN in : in[At(in, k)] \in S
    BY AtPlace
  <2>3. DOMAIN in = 1..Len(in) /\ Len(in) \in Nat
    BY PositionsFinite
  <2>4. Prioritize(in) \in [1..Len(in) -> S]
    BY <2>1, <2>2, <2>3
  <2> QED BY <2>1, <2>3, <2>4
<1> QED BY <1>1, <1>2

\* Sorting keeps the findings and changes nothing but their order: what comes out at
\* place k is what was at a position of its own, and the positions come out in the
\* order of the comparison function, those it does not separate in the order they
\* came in.
THEOREM PrioritizePermutes ==
  ASSUME NEW S, NEW in \in Seq(S), Rankable(in)
  PROVE  LET at == [k \in DOMAIN in |-> At(in, k)]
         IN  /\ at \in Bijection(DOMAIN in, DOMAIN in)
             /\ \A k \in DOMAIN in : Prioritize(in)[k] = in[at[k]]
             /\ \A k, m \in DOMAIN in : k < m => Precedes(in, at[k], at[m])
<1> DEFINE at == [k \in DOMAIN in |-> At(in, k)]
<1>1. at \in [DOMAIN in -> DOMAIN in]
  BY AtPlace
<1>2. \A k, m \in DOMAIN in : at[k] = at[m] => k = m
  BY AtPlace
<1>3. \A i \in DOMAIN in : at[Place(in, i)] = i
  BY AtPlace
<1>4. \A i \in DOMAIN in : Place(in, i) \in DOMAIN in
  BY AtPlace
<1>5. at \in Bijection(DOMAIN in, DOMAIN in)
  BY <1>1, <1>2, <1>3, <1>4 DEF Bijection, Injection, IsInjective, Surjection
<1>6. ASSUME NEW k \in DOMAIN in, NEW m \in DOMAIN in, k < m
      PROVE  Precedes(in, at[k], at[m])
  <2>1. at[k] \in DOMAIN in /\ at[m] \in DOMAIN in /\ Place(in, at[k]) = k /\ Place(in, at[m]) = m
    BY AtPlace
  <2>2. ~Precedes(in, at[m], at[k])
    <3>1. Precedes(in, at[m], at[k]) => m < k
      BY <2>1, AtPlace
    <3> QED BY <1>6, <3>1, PositionsFinite
  <2>3. at[k] # at[m]
    BY <1>2, <1>6, PositionsFinite
  <2>4. <<at[k], at[m]>> \in SortOrder(in) \/ <<at[m], at[k]>> \in SortOrder(in)
    BY <2>1, <2>3, SortOrderTotal DEF OrderOn
  <2> QED BY <2>2, <2>4 DEF SortOrder
<1>7. \A k \in DOMAIN in : Prioritize(in)[k] = in[at[k]]
  BY PrioritizeAt
<1> QED BY <1>5, <1>6, <1>7

\* The same findings come out, so the same identifiers are causes.
LEMMA PrioritizeKeeps ==
  ASSUME NEW S, NEW in \in Seq(S), Rankable(in)
  PROVE  /\ \A k \in DOMAIN in : \E i \in DOMAIN in : Prioritize(in)[k] = in[i]
         /\ \A i \in DOMAIN in : \E k \in DOMAIN in : Prioritize(in)[k] = in[i]
         /\ Causes(Prioritize(in)) = Causes(in)
         /\ Rankable(Prioritize(in))
<1> DEFINE at == [k \in DOMAIN in |-> At(in, k)]
           out == Prioritize(in)
<1>1. /\ at \in Bijection(DOMAIN in, DOMAIN in)
      /\ \A k \in DOMAIN in : out[k] = in[at[k]]
  BY PrioritizePermutes
<1> HIDE DEF at
<1>2. DOMAIN out = DOMAIN in
  BY PrioritizeAt
<1>3. \A k \in DOMAIN in : at[k] \in DOMAIN in /\ out[k] = in[at[k]]
  BY <1>1 DEF Bijection, Injection
<1>4. \A i \in DOMAIN in : \E k \in DOMAIN in : at[k] = i
  BY <1>1 DEF Bijection, Surjection
<1> HIDE DEF out
<1>5. ASSUME NEW i \in DOMAIN in
      PROVE  \E k \in DOMAIN in : out[k] = in[i]
  <2>1. PICK k \in DOMAIN in : at[k] = i
    BY <1>4
  <2> QED BY <1>3, <2>1
<1>6. ASSUME NEW k \in DOMAIN in
      PROVE  \E i \in DOMAIN in : out[k] = in[i]
  BY <1>3
<1>7. Causes(out) = Causes(in)
  <2>1. ASSUME NEW c PROVE c \in Causes(out) => c \in Causes(in)
    BY <1>2, <1>6 DEF Causes
  <2>2. ASSUME NEW c PROVE c \in Causes(in) => c \in Causes(out)
    BY <1>2, <1>5 DEF Causes
  <2> QED BY <2>1, <2>2
<1>8. Rankable(out)
  BY <1>2, <1>3 DEF Rankable
<1>9. /\ \A k \in DOMAIN in : \E i \in DOMAIN in : out[k] = in[i]
      /\ \A i \in DOMAIN in : \E k \in DOMAIN in : out[k] = in[i]
  BY <1>5, <1>6
<1> QED BY <1>7, <1>8, <1>9 DEF out

\* Each finding comes out as often as it came in.
LEMMA PrioritizeCounts ==
  ASSUME NEW S, NEW in \in Seq(S), Rankable(in), NEW d
  PROVE  Cardinality({k \in DOMAIN in : Prioritize(in)[k] = d})
           = Cardinality({i \in DOMAIN in : in[i] = d})
<1> DEFINE at == [k \in DOMAIN in |-> At(in, k)]
           K == {k \in DOMAIN in : Prioritize(in)[k] = d}
           I == {i \in DOMAIN in : in[i] = d}
           g == [k \in K |-> at[k]]
<1>1. /\ at \in Bijection(DOMAIN in, DOMAIN in)
      /\ \A k \in DOMAIN in : Prioritize(in)[k] = in[at[k]]
  BY PrioritizePermutes
<1> HIDE DEF at
<1>2. /\ \A k \in DOMAIN in : at[k] \in DOMAIN in
      /\ \A k, m \in DOMAIN in : at[k] = at[m] => k = m
      /\ \A i \in DOMAIN in : \E k \in DOMAIN in : at[k] = i
  BY <1>1 DEF Bijection, Injection, IsInjective, Surjection
<1>3. g \in [K -> I]
  BY <1>1, <1>2
<1>4. \A k, m \in K : g[k] = g[m] => k = m
  BY <1>2
<1>5. ASSUME NEW i \in I PROVE \E k \in K : g[k] = i
  <2>1. PICK k \in DOMAIN in : at[k] = i
    BY <1>2
  <2>2. k \in K
    BY <1>1, <2>1
  <2> QED BY <2>1, <2>2
<1>6. g \in Bijection(K, I)
  BY <1>3, <1>4, <1>5 DEF Bijection, Injection, IsInjective, Surjection
<1>7. IsFiniteSet(K)
  BY PositionsFinite, FS_Subset
<1> QED BY <1>6, <1>7, FS_Bijection DEF ExistsBijection

\* What ranks before another comes out before it.
LEMMA PrioritizeSorted ==
  ASSUME NEW S, NEW in \in Seq(S), Rankable(in), NEW k \in DOMAIN in, NEW m \in DOMAIN in,
         Less(Prioritize(in)[k], Prioritize(in)[m], Causes(in))
  PROVE  k < m
<1> DEFINE causes == Causes(in)
<1>1. At(in, k) \in DOMAIN in /\ At(in, m) \in DOMAIN in
  BY AtPlace
<1>2. Prioritize(in)[k] = in[At(in, k)] /\ Prioritize(in)[m] = in[At(in, m)]
  BY PrioritizeAt
<1>3. /\ Rank(in[At(in, k)], causes) \in Nat /\ Rank(in[At(in, m)], causes) \in Nat
      /\ Rank(in[At(in, k)], causes) < Rank(in[At(in, m)], causes)
  BY <1>1, <1>2, LessIsRank DEF Rankable
<1>4. Precedes(in, At(in, k), At(in, m))
  BY <1>1, <1>3, PrecedesIsRank
<1>5. Place(in, At(in, k)) < Place(in, At(in, m))
  BY <1>1, <1>4, AtPlace
<1> QED BY <1>5, AtPlace

-----------------------------------------------------------------------------
(* AggregateByRule *)

\* The first finding of each key, the more widespread before the less.
SpreadOrder(in) == {p \in Firsts(in) \X Firsts(in) : MoreWidespread(in, p[1], p[2])}
FirstAt(in, k) == Nth(Firsts(in), SpreadOrder(in), k)

\* That is a strict and total order.
LEMMA SpreadOrderTotal ==
  ASSUME NEW S, NEW in \in Seq(S)
  PROVE  IsFiniteSet(Firsts(in)) /\ OrderOn(Firsts(in), SpreadOrder(in))
<1> DEFINE size == [i \in DOMAIN in |-> Cardinality(Repeats(in, i))]
<1>1. \A i \in DOMAIN in : size[i] \in Nat /\ i \in Nat
  <2>1. ASSUME NEW i \in DOMAIN in PROVE Cardinality(Repeats(in, i)) \in Nat
    <3>1. Repeats(in, i) \in SUBSET DOMAIN in
      BY DEF Repeats
    <3> QED BY <3>1, PositionsFinite, FS_Subset, FS_CardinalityType
  <2> QED BY <2>1
<1>2. Firsts(in) \in SUBSET DOMAIN in
  BY DEF Firsts
<1>3. \A i, j \in Firsts(in) :
        <<i, j>> \in SpreadOrder(in) <=> size[i] > size[j] \/ (size[i] = size[j] /\ i < j)
  BY <1>2 DEF SpreadOrder, MoreWidespread
<1>4. IsFiniteSet(Firsts(in))
  BY <1>2, PositionsFinite, FS_Subset
<1>5. \A i \in Firsts(in) : size[i] \in Nat /\ i \in Nat
  BY <1>1, <1>2
<1> HIDE DEF size
<1>6. OrderOn(Firsts(in), SpreadOrder(in))
  BY <1>3, <1>5 DEF OrderOn
<1> QED BY <1>4, <1>6

\* What AggregateByRule puts at each place: one finding for each key, the more
\* widespread first.
LEMMA AggregateAt ==
  ASSUME NEW S, NEW in \in Seq(S), NEW total
  PROVE  /\ Cardinality(Firsts(in)) \in Nat
         /\ DOMAIN AggregateByRule(in, total) = 1..Cardinality(Firsts(in))
         /\ \A k \in DOMAIN AggregateByRule(in, total) :
              /\ FirstAt(in, k) \in Firsts(in)
              /\ AggregateByRule(in, total)[k] = Aggregated(in, FirstAt(in, k), total)
         /\ \A i \in Firsts(in) : \E k \in DOMAIN AggregateByRule(in, total) : FirstAt(in, k) = i
         /\ \A k, m \in DOMAIN AggregateByRule(in, total) :
              k < m => MoreWidespread(in, FirstAt(in, k), FirstAt(in, m))
<1>1. IsFiniteSet(Firsts(in)) /\ OrderOn(Firsts(in), SpreadOrder(in))
  BY SpreadOrderTotal
<1>2. Cardinality(Firsts(in)) \in Nat
  BY <1>1, FS_CardinalityType
<1>3. /\ \A k \in 1..Cardinality(Firsts(in)) : FirstAt(in, k) \in Firsts(in)
      /\ \A i \in Firsts(in) : \E k \in 1..Cardinality(Firsts(in)) : FirstAt(in, k) = i
      /\ \A k, m \in 1..Cardinality(Firsts(in)) :
           k < m => <<FirstAt(in, k), FirstAt(in, m)>> \in SpreadOrder(in)
  BY <1>1, Numbering DEF FirstAt
<1> DEFINE first(k) == CHOOSE i \in Firsts(in) :
                         Cardinality({j \in Firsts(in) : MoreWidespread(in, j, i)}) = k - 1
<1>4. ASSUME NEW k PROVE first(k) = FirstAt(in, k)
  <2>1. \A i \in Firsts(in) : {j \in Firsts(in) : MoreWidespread(in, j, i)}
                                = Before(Firsts(in), SpreadOrder(in), i)
    BY DEF Before, SpreadOrder
  <2> QED BY <2>1 DEF FirstAt, Nth
<1>5. \A i, j \in Firsts(in) : <<i, j>> \in SpreadOrder(in) => MoreWidespread(in, i, j)
  BY DEF SpreadOrder
<1>6. AggregateByRule(in, total)
        = [k \in 1..Cardinality(Firsts(in)) |-> Aggregated(in, FirstAt(in, k), total)]
  <2>1. AggregateByRule(in, total)
          = [k \in 1..Cardinality(Firsts(in)) |-> Aggregated(in, first(k), total)]
    BY DEF AggregateByRule
  <2> HIDE DEF first
  <2> QED BY <1>4, <2>1
<1> QED BY <1>2, <1>3, <1>5, <1>6

\* Of some numbers one is the least.
LEMMA LeastNumber ==
  ASSUME NEW N \in SUBSET Nat, N # {}
  PROVE  \E x \in N : \A y \in N : x <= y
<1> DEFINE R == OpToRel(<, Nat)
<1>1. IsWellFoundedOn(R, Nat)
  BY NatLessThanWellFounded
<1>2. \A x, y \in Nat : y < x => <<y, x>> \in R
  BY DEF OpToRel
<1> HIDE DEF R
<1>3. PICK x \in N : \A y \in N : ~(<<y, x>> \in R)
  BY <1>1, WFMin
<1>4. ASSUME NEW y \in N PROVE x <= y
  <2>1. x \in Nat /\ y \in Nat /\ ~(y < x)
    BY <1>2, <1>3
  <2> QED BY <2>1
<1> QED BY <1>4

\* Every finding repeats the first of its key.
LEMMA FirstOfKey ==
  ASSUME NEW S, NEW in \in Seq(S), NEW j \in DOMAIN in
  PROVE  \E i \in Firsts(in) : Key(in[i]) = Key(in[j]) /\ j \in Repeats(in, i)
<1>1. Repeats(in, j) \in SUBSET Nat /\ j \in Repeats(in, j)
  BY DEF Repeats
<1>2. PICK i \in Repeats(in, j) : \A m \in Repeats(in, j) : i <= m
  BY <1>1, LeastNumber
<1>3. i \in DOMAIN in /\ Key(in[i]) = Key(in[j])
  BY <1>2 DEF Repeats
<1>4. ASSUME NEW m \in 1..(i - 1) PROVE Key(in[m]) # Key(in[i])
  <2>1. m \in DOMAIN in /\ m < i /\ m \in Nat /\ i \in Nat
    BY <1>3
  <2> QED BY <1>2, <1>3, <2>1 DEF Repeats
<1> QED BY <1>3, <1>4 DEF Firsts, Repeats

\* Each finding is told in the aggregated one of its key, with its subject, and what
\* is told is told of some finding: what aggregate.go:8-10 promises of one list.
THEOREM AggregateKeeps ==
  ASSUME NEW S, NEW in \in Seq(S), NEW total
  PROVE  LET out == AggregateByRule(in, total)
         IN  /\ \A j \in DOMAIN in : \E k \in DOMAIN out :
                  /\ out[k].id = in[j].id /\ out[k].about = in[j].about
                  /\ out[k].summary = in[j].summary /\ in[j].subject \in out[k].subjects
             /\ \A k \in DOMAIN out : \E j \in DOMAIN in :
                  /\ out[k].id = in[j].id /\ out[k].about = in[j].about
                  /\ out[k].summary = in[j].summary /\ out[k].severity = in[j].severity
                  /\ out[k].confidence = in[j].confidence /\ out[k].causedBy = in[j].causedBy
                  /\ in[j].subject \in out[k].subjects
             /\ \A k, m \in DOMAIN out : k # m =>
                  <<out[k].id, out[k].about, out[k].summary>>
                    # <<out[m].id, out[m].about, out[m].summary>>
<1> DEFINE out == AggregateByRule(in, total)
<1> USE DEF Aggregated
<1>1. ASSUME NEW j \in DOMAIN in
      PROVE  \E k \in DOMAIN out :
               /\ out[k].id = in[j].id /\ out[k].about = in[j].about
               /\ out[k].summary = in[j].summary /\ in[j].subject \in out[k].subjects
  <2>1. PICK i \in Firsts(in) : Key(in[i]) = Key(in[j]) /\ j \in Repeats(in, i)
    BY FirstOfKey
  <2>2. PICK k \in DOMAIN out : FirstAt(in, k) = i
    BY AggregateAt
  <2>3. out[k] = Aggregated(in, i, total)
    BY <2>2, AggregateAt
  <2> HIDE DEF out
  <2> QED BY <2>1, <2>2, <2>3 DEF Key
<1>2. ASSUME NEW k \in DOMAIN out
      PROVE  \E j \in DOMAIN in :
               /\ out[k].id = in[j].id /\ out[k].about = in[j].about
               /\ out[k].summary = in[j].summary /\ out[k].severity = in[j].severity
               /\ out[k].confidence = in[j].confidence /\ out[k].causedBy = in[j].causedBy
               /\ in[j].subject \in out[k].subjects
  <2>1. FirstAt(in, k) \in Firsts(in) /\ out[k] = Aggregated(in, FirstAt(in, k), total)
    BY AggregateAt
  <2>2. FirstAt(in, k) \in DOMAIN in /\ FirstAt(in, k) \in Repeats(in, FirstAt(in, k))
    BY <2>1 DEF Firsts, Repeats
  <2> HIDE DEF out
  <2> QED BY <2>1, <2>2
<1>3. ASSUME NEW k \in DOMAIN out, NEW m \in DOMAIN out, k # m
      PROVE  <<out[k].id, out[k].about, out[k].summary>>
               # <<out[m].id, out[m].about, out[m].summary>>
  <2> DEFINE i == FirstAt(in, k)
             j == FirstAt(in, m)
  <2>1. /\ i \in Firsts(in) /\ out[k] = Aggregated(in, i, total)
        /\ j \in Firsts(in) /\ out[m] = Aggregated(in, j, total)
    BY AggregateAt
  <2>2. i # j
    <3>1. k \in Nat /\ m \in Nat
      BY AggregateAt
    <3>2. MoreWidespread(in, i, j) \/ MoreWidespread(in, j, i)
      BY <1>3, <3>1, AggregateAt
    <3>3. OrderOn(Firsts(in), SpreadOrder(in))
      BY SpreadOrderTotal
    <3> QED BY <2>1, <3>2, <3>3 DEF OrderOn, SpreadOrder
  <2>3. ASSUME NEW a \in Firsts(in), NEW b \in Firsts(in), a < b PROVE Key(in[a]) # Key(in[b])
    BY <2>3 DEF Firsts
  <2>4. i \in Nat /\ j \in Nat
    BY <2>1 DEF Firsts
  <2> HIDE DEF i, j, out
  <2>5. Key(in[i]) # Key(in[j])
    BY <2>1, <2>2, <2>3, <2>4
  <2>6. /\ out[k].id = in[i].id /\ out[k].about = in[i].about /\ out[k].summary = in[i].summary
        /\ out[m].id = in[j].id /\ out[m].about = in[j].about /\ out[m].summary = in[j].summary
    BY <2>1
  <2> QED BY <2>5, <2>6 DEF Key
<1> QED BY <1>1, <1>2, <1>3

-----------------------------------------------------------------------------
(* The Pod rules: their findings are well formed, one that calls an object  *)
(* missing rests on a read that said so, each has its symptom in the        *)
(* snapshot, and what a finding names as its cause is there to be found by  *)
(* another rule.                                                            *)

\* f is a finding, and what it calls missing was answered NotFound in s.
Grounded(f, s) ==
  /\ f \in Finding
  /\ f.id = "POD_MISSING_CONFIGMAP" =>
       f.about \in ConfigMapNames /\ s.configMaps[f.about] = "missing"
  /\ f.id = "POD_MISSING_SECRET" =>
       f.about \in SecretNames /\ s.secrets[f.about] = "missing"
  /\ f.id = "POD_PVC_NOT_FOUND" =>
       f.about \in ClaimNames /\ s.pvcs[f.about].exists = "missing"

\* The identifiers that assert no absence.
OtherIDs == PodIDs \ {"POD_MISSING_CONFIGMAP", "POD_MISSING_SECRET", "POD_PVC_NOT_FOUND"}
Subjects == {"pod", "node", NoContainer} \cup ContainerNames \cup ConfigMapNames
              \cup SecretNames \cup ClaimNames

\* A finding built by Certain from proper parts is grounded, unless it asserts an
\* absence.
LEMMA CertainGrounded ==
  ASSUME NEW s, NEW id \in OtherIDs, NEW about \in Subjects,
         NEW severity \in Severities, NEW causedBy \in PodIDs \cup {NoCause}
  PROVE  Grounded(Certain(id, about, severity, causedBy), s)
<1>1. Certain(id, about, severity, causedBy) \in Finding
  BY DEF Certain, Finding, OtherIDs, Subjects, Confidences
<1>2. Certain(id, about, severity, causedBy).id = id
  BY DEF Certain
<1>3. id # "POD_MISSING_CONFIGMAP" /\ id # "POD_MISSING_SECRET" /\ id # "POD_PVC_NOT_FOUND"
  BY DEF OtherIDs
<1> QED BY <1>1, <1>2, <1>3 DEF Grounded

\* The same for what the configuration and claim rules say is missing.
LEMMA AbsenceGrounded ==
  ASSUME NEW s, NEW n
  PROVE  /\ n \in ConfigMapNames /\ s.configMaps[n] = "missing" =>
              Grounded(Certain("POD_MISSING_CONFIGMAP", n, "critical", NoCause), s)
         /\ n \in SecretNames /\ s.secrets[n] = "missing" =>
              Grounded(Certain("POD_MISSING_SECRET", n, "critical", NoCause), s)
         /\ n \in ClaimNames /\ s.pvcs[n].exists = "missing" =>
              Grounded(Certain("POD_PVC_NOT_FOUND", n, "critical", NoCause), s)
BY DEF Grounded, Certain, Finding, PodIDs, Severities, Confidences

\* The OOM rule speaks of containers only.
LEMMA OOMGrounded ==
  ASSUME NEW s, NEW f \in evaluateOOM(s)
  PROVE  Grounded(f, s)
<1>1. PICK n \in ContainerNames, severity \in Severities :
        f = Certain("POD_OOM_KILLED", n, severity, NoCause)
  BY DEF evaluateOOM, severityFor, Severities
<1> QED BY <1>1, CertainGrounded DEF OtherIDs, PodIDs, Subjects

\* The crash loop rule speaks of containers only.
LEMMA CrashLoopGrounded ==
  ASSUME NEW s, NEW f \in evaluateCrashLoop(s)
  PROVE  Grounded(f, s)
<1>1. PICK n \in ContainerNames : 
        f = Certain(FailureID(s.pod.containers[n], "POD_CRASH_LOOP"), n,
                    CrashLoopSeverity(s.pod.containers[n]), NoCause)
  BY DEF evaluateCrashLoop
<1>2. FailureID(s.pod.containers[n], "POD_CRASH_LOOP") \in OtherIDs
  BY DEF FailureID, OtherIDs, PodIDs
<1>3. CrashLoopSeverity(s.pod.containers[n]) \in Severities
  BY DEF CrashLoopSeverity, Severities
<1> QED BY <1>1, <1>2, <1>3, CertainGrounded DEF Subjects

\* The terminated rule speaks of containers, or of the Pod when it was evicted.
LEMMA TerminatedGrounded ==
  ASSUME NEW s, NEW f \in evaluateTerminated(s)
  PROVE  Grounded(f, s)
<1>1. CASE f \in evictionDiagnosis(s)
  BY <1>1, CertainGrounded DEF evictionDiagnosis, OtherIDs, PodIDs, Subjects, Severities
<1>2. CASE f \notin evictionDiagnosis(s)
  <2>1. PICK n \in ContainerNames :
          f = Certain(FailureID(s.pod.containers[n], "POD_CONTAINER_TERMINATED_ERROR"), n,
                      severityFor(AwaitingRestart(s.pod)), NoCause)
    BY <1>2 DEF evaluateTerminated
  <2>2. FailureID(s.pod.containers[n], "POD_CONTAINER_TERMINATED_ERROR") \in OtherIDs
    BY DEF FailureID, OtherIDs, PodIDs
  <2>3. severityFor(AwaitingRestart(s.pod)) \in Severities
    BY DEF severityFor, Severities
  <2> QED BY <2>1, <2>2, <2>3, CertainGrounded DEF Subjects
<1> QED BY <1>1, <1>2

\* The image rule speaks of containers only.
LEMMA ImagePullGrounded ==
  ASSUME NEW s, NEW f \in evaluateImagePull(s)
  PROVE  Grounded(f, s)
<1>1. PICK n \in ContainerNames, confidence \in {"likely", "certain"} :
        f = [Certain("POD_IMAGE_PULL_FAILED", n, "critical", NoCause)
               EXCEPT !.confidence = confidence]
  BY DEF evaluateImagePull, classifyImageFailure
<1> QED BY <1>1 DEF Grounded, Certain, Finding, PodIDs, Severities, Confidences

\* The identifier of a scheduling failure claims no absence.
LEMMA DominantIDType ==
  ASSUME NEW categories
  PROVE  dominantID(categories) \in OtherIDs
<1>1. \A c \in DOMAIN DominantIDs : DominantIDs[c] \in OtherIDs
  BY DEF DominantIDs, OtherIDs, PodIDs
<1>2. "POD_UNSCHEDULABLE" \in OtherIDs
  BY DEF OtherIDs, PodIDs
<1> QED BY <1>1, <1>2 DEF dominantID

\* The scheduling rule claims no absence itself, whichever cause it names.
LEMMA SchedulingGrounded ==
  ASSUME NEW s, NEW F \in evaluateScheduling(s), NEW f \in F
  PROVE  Grounded(f, s)
<1>1. CASE f = Certain("POD_SCHEDULING_GATED", "pod", "warning", NoCause)
  BY <1>1, CertainGrounded DEF OtherIDs, PodIDs, Subjects, Severities
<1>2. CASE f # Certain("POD_SCHEDULING_GATED", "pod", "warning", NoCause)
  <2>1. PICK categories, cause :
          /\ cause \in SchedulingCauses(s, categories)
          /\ f = Certain(dominantID(categories), "pod", "critical", cause)
    BY <1>2 DEF evaluateScheduling
  <2>2. cause \in PodIDs \cup {NoCause}
    BY <2>1 DEF SchedulingCauses, PodIDs
  <2> QED BY <2>1, <2>2, DominantIDType, CertainGrounded DEF Subjects, Severities
<1> QED BY <1>1, <1>2

\* The probe rule claims no absence.
LEMMA ProbesGrounded ==
  ASSUME NEW s, NEW f \in evaluateProbes(s)
  PROVE  Grounded(f, s)
<1>1. PICK kind \in ProbeKinds, about \in ContainerNames \cup {NoContainer} :
        \E e : f = Certain(ProbeIDs[kind], about, ProbeSeverity(s, e, kind), NoCause)
  BY DEF evaluateProbes
<1> PICK e : f = Certain(ProbeIDs[kind], about, ProbeSeverity(s, e, kind), NoCause)
  BY <1>1
<1>2. ProbeIDs[kind] \in OtherIDs
  BY DEF ProbeIDs, ProbeKinds, OtherIDs, PodIDs
<1>3. ProbeSeverity(s, e, kind) \in Severities
  BY DEF ProbeSeverity, Severities
<1> QED BY <1>1, <1>2, <1>3, CertainGrounded DEF Subjects

\* The configuration rule calls missing what was read and not found.
LEMMA ConfigRefsGrounded ==
  ASSUME NEW s \in Snapshot, NEW f \in evaluateConfigRefs(s)
  PROVE  Grounded(f, s)
<1>1. DOMAIN s.configMaps = ConfigMapNames /\ DOMAIN s.secrets = SecretNames
  BY DEF Snapshot
<1>2. CASE \E n \in missingNames(s.configMaps) :
             f = Certain("POD_MISSING_CONFIGMAP", n, "critical", NoCause)
  BY <1>1, <1>2, AbsenceGrounded DEF missingNames
<1>3. CASE \E n \in missingNames(s.secrets) :
             f = Certain("POD_MISSING_SECRET", n, "critical", NoCause)
  BY <1>1, <1>3, AbsenceGrounded DEF missingNames
<1>4. CASE \E n \in ContainerNames :
             f = Certain("POD_CREATE_CONTAINER_CONFIG_ERROR", n, "critical",
                         ConfigErrorCause(s, s.pod.containers[n]))
  <2>1. PICK n \in ContainerNames :
             f = Certain("POD_CREATE_CONTAINER_CONFIG_ERROR", n, "critical",
                         ConfigErrorCause(s, s.pod.containers[n]))
    BY <1>4
  <2>2. ConfigErrorCause(s, s.pod.containers[n]) \in PodIDs \cup {NoCause}
    BY DEF ConfigErrorCause, PodIDs
  <2> QED BY <2>1, <2>2, CertainGrounded DEF OtherIDs, PodIDs, Subjects, Severities
<1> QED BY <1>2, <1>3, <1>4 DEF evaluateConfigRefs

\* The mount rule claims no absence itself.
LEMMA MountsGrounded ==
  ASSUME NEW s, NEW f \in evaluateMounts(s)
  PROVE  Grounded(f, s)
<1>1. f = Certain("POD_FAILED_MOUNT", "pod", "critical", MountCause(s))
  BY DEF evaluateMounts
<1>2. MountCause(s) \in PodIDs \cup {NoCause}
  BY DEF MountCause, PodIDs
<1> QED BY <1>1, <1>2, CertainGrounded DEF OtherIDs, PodIDs, Subjects, Severities

\* The claim rule calls missing the claims that were read and not found.
LEMMA ClaimsGrounded ==
  ASSUME NEW s, NEW f \in evaluateClaims(s)
  PROVE  Grounded(f, s)
<1>1. CASE \E n \in ClaimNames : /\ s.pvcs[n].exists = "missing"
                                 /\ f = Certain("POD_PVC_NOT_FOUND", n, "critical", NoCause)
  BY <1>1, AbsenceGrounded
<1>2. CASE \E n \in ClaimNames :
             f = Certain("POD_PVC_NOT_BOUND", n, unboundClaimSeverity(s.pvcs[n]), NoCause)
  <2>1. PICK n \in ClaimNames :
             f = Certain("POD_PVC_NOT_BOUND", n, unboundClaimSeverity(s.pvcs[n]), NoCause)
    BY <1>2
  <2>2. unboundClaimSeverity(s.pvcs[n]) \in Severities
    BY DEF unboundClaimSeverity, Severities
  <2> QED BY <2>1, <2>2, CertainGrounded DEF OtherIDs, PodIDs, Subjects
<1> QED BY <1>1, <1>2 DEF evaluateClaims

\* The node rule claims no absence.
LEMMA NodeGrounded ==
  ASSUME NEW s, NEW f \in evaluateNode(s)
  PROVE  Grounded(f, s)
BY CertainGrounded DEF evaluateNode, OtherIDs, PodIDs, Subjects, Severities

\* The restart history rule claims no absence.
LEMMA RestartHistoryGrounded ==
  ASSUME NEW s, NEW f \in evaluateRestartHistory(s)
  PROVE  Grounded(f, s)
<1>1. PICK n \in ContainerNames : f = Certain("POD_RESTARTED", n, "info", NoCause)
  BY DEF evaluateRestartHistory
<1> QED BY <1>1, CertainGrounded DEF OtherIDs, PodIDs, Subjects, Severities

\* The fallback claims no absence.
LEMMA FallbackGrounded ==
  ASSUME NEW s, NEW f \in Fallback(s)
  PROVE  Grounded(f, s)
BY CertainGrounded DEF Fallback, OtherIDs, PodIDs, Subjects, Severities

\* How many rules Rules() registers.
LEMMA ElevenRules == Len(RuleNames) = 11
BY DEF RuleNames

\* What each of the rules finds, by its number.
LEMMA OutcomesByNumber ==
  ASSUME NEW s
  PROVE  /\ Outcomes(1, s) = {evaluateOOM(s)} /\ Outcomes(2, s) = {evaluateCrashLoop(s)}
         /\ Outcomes(3, s) = {evaluateTerminated(s)} /\ Outcomes(4, s) = {evaluateImagePull(s)}
         /\ Outcomes(5, s) = evaluateScheduling(s) /\ Outcomes(6, s) = {evaluateProbes(s)}
         /\ Outcomes(7, s) = {evaluateConfigRefs(s)} /\ Outcomes(8, s) = {evaluateMounts(s)}
         /\ Outcomes(9, s) = {evaluateClaims(s)} /\ Outcomes(10, s) = {evaluateNode(s)}
         /\ Outcomes(11, s) = {evaluateRestartHistory(s)}
BY DEF Outcomes, RuleNames

\* Some rule makes finding f about snapshot s.
Made(f, s) == \E i \in 1..Len(RuleNames) : \E F \in Outcomes(i, s) : f \in F

\* The rule that made it is one of the eleven.
LEMMA MadeByOne ==
  ASSUME NEW s, NEW f, Made(f, s)
  PROVE  \/ f \in evaluateOOM(s) \/ f \in evaluateCrashLoop(s) \/ f \in evaluateTerminated(s)
         \/ f \in evaluateImagePull(s) \/ (\E F \in evaluateScheduling(s) : f \in F)
         \/ f \in evaluateProbes(s) \/ f \in evaluateConfigRefs(s) \/ f \in evaluateMounts(s)
         \/ f \in evaluateClaims(s) \/ f \in evaluateNode(s) \/ f \in evaluateRestartHistory(s)
<1>1. PICK i \in 1..11 : \E F \in Outcomes(i, s) : f \in F
  BY ElevenRules DEF Made
<1>2. i \in {1, 2, 3, 4, 5, 6, 7, 8, 9, 10, 11}
  BY <1>1
<1> QED BY <1>1, <1>2, OutcomesByNumber

\* Whatever a rule of Rules() finds in a snapshot is a well-formed finding, and an
\* object it calls missing is one the API server said does not exist: a read that
\* was denied yields Unknown and no rule takes that for an absence.
THEOREM RulesGrounded ==
  ASSUME NEW s \in Snapshot, NEW i \in 1..Len(RuleNames), NEW F \in Outcomes(i, s),
         NEW f \in F
  PROVE  Grounded(f, s)
<1>1. Made(f, s)
  BY DEF Made
<1> QED
  BY <1>1, MadeByOne, OOMGrounded, CrashLoopGrounded, TerminatedGrounded, ImagePullGrounded,
     SchedulingGrounded, ProbesGrounded, ConfigRefsGrounded, MountsGrounded, ClaimsGrounded,
     NodeGrounded, RestartHistoryGrounded

-----------------------------------------------------------------------------
(* Every finding has its symptom *)

SchedulingIDs == {"POD_UNSCHEDULABLE", "POD_UNSCHEDULABLE_CPU", "POD_UNSCHEDULABLE_MEMORY",
                  "POD_UNTOLERATED_TAINT", "POD_UNSCHEDULABLE_AFFINITY",
                  "POD_UNSCHEDULABLE_VOLUME", "POD_SCHEDULING_GATED"}
ProbeFailureIDs == {"POD_READINESS_PROBE_FAILED", "POD_LIVENESS_PROBE_FAILED",
                    "POD_STARTUP_PROBE_FAILED"}

\* The states of a container that its findings stand for.
ContainerSymptom(id, p, c) ==
  CASE id = "POD_OOM_KILLED"                    -> oomTermination(c)
    [] id = "POD_CRASH_LOOP"                    -> ~IsTerminal(p) /\ CrashLooping(c)
    [] id = "POD_CONTAINER_TERMINATED_ERROR"    -> EndedInError(p, c)
    [] id = "POD_INIT_CONTAINER_FAILED"         -> CrashLooping(c) \/ EndedInError(p, c)
    [] id = "POD_IMAGE_PULL_FAILED"             -> c.state \in ImageWaitReasons
    [] id = "POD_CREATE_CONTAINER_CONFIG_ERROR" -> c.state \in ConfigErrors
    [] id = "POD_RESTARTED" -> /\ c.state = "running" /\ c.restarts > 0
                               /\ ~isFlapping(c) /\ ~oomTermination(c)

ContainerIDs == {"POD_OOM_KILLED", "POD_CRASH_LOOP", "POD_CONTAINER_TERMINATED_ERROR",
                 "POD_INIT_CONTAINER_FAILED", "POD_IMAGE_PULL_FAILED",
                 "POD_CREATE_CONTAINER_CONFIG_ERROR", "POD_RESTARTED"}

\* What the snapshot shows when finding f is made, and how grave that is.
Symptom(f, s) ==
  \/ /\ f.id \in ContainerIDs /\ f.about \in ContainerNames
     /\ ContainerSymptom(f.id, s.pod, s.pod.containers[f.about])
     /\ f.id = "POD_RESTARTED" => f.severity = "info"
  \/ f.id = "POD_EVICTED" /\ s.pod.evicted
  \/ f.id \in SchedulingIDs /\ ~s.pod.bound /\ ~IsTerminal(s.pod)
  \/ /\ f.id \in ProbeFailureIDs
     /\ \E e \in WithReason(s.events, {"Unhealthy"}), kind \in ProbeKinds :
          f.severity = ProbeSeverity(s, e, kind)
  \/ /\ f.id = "POD_FAILED_MOUNT" /\ anyContainerWaiting(s) /\ ~IsTerminal(s.pod)
     /\ WithReason(s.events, {"FailedMount", "FailedAttachVolume"}) # {}
  \/ /\ f.id = "POD_MISSING_CONFIGMAP" /\ f.severity = "critical"
     /\ missingNames(s.configMaps) # {}
  \/ /\ f.id = "POD_MISSING_SECRET" /\ f.severity = "critical"
     /\ missingNames(s.secrets) # {}
  \/ /\ f.id = "POD_PVC_NOT_FOUND" /\ f.severity = "critical"
     /\ \E n \in ClaimNames : s.pvcs[n].exists = "missing"
  \/ /\ f.id = "POD_PVC_NOT_BOUND"
     /\ \E n \in ClaimNames : s.pvcs[n].exists = "found"
  \/ f.id = "POD_NODE_NOT_READY" /\ s.node = "notReady"

\* Of some events one is the most recent.
LEMMA MostRecent ==
  ASSUME NEW E \in SUBSET Event, E # {}
  PROVE  \E e \in E : \A f \in E : e.age <= f.age
<1> DEFINE ages == {e.age : e \in E}
           R == OpToRel(<, Nat)
<1>1. ages \subseteq Nat /\ ages # {}
  BY DEF Event
<1>2. PICK x \in ages : \A y \in ages : ~(<<y, x>> \in R)
  <2>1. IsWellFoundedOn(R, Nat)
    BY NatLessThanWellFounded
  <2> HIDE DEF R
  <2> QED BY <1>1, <2>1, WFMin
<1>3. ASSUME NEW y \in ages PROVE x <= y
  <2>1. y < x => <<y, x>> \in R
    BY <1>1 DEF OpToRel
  <2>2. x \in Nat /\ y \in Nat /\ ~(<<y, x>> \in R)
    BY <1>1, <1>2
  <2> HIDE DEF R
  <2> QED BY <2>1, <2>2
<1> QED BY <1>3

\* The rules that look at containers name one in the state they look for.
LEMMA ContainerRules ==
  ASSUME NEW s, NEW f, \/ f \in evaluateOOM(s) \/ f \in evaluateCrashLoop(s)
                       \/ f \in evaluateTerminated(s) \/ f \in evaluateImagePull(s)
                       \/ f \in evaluateRestartHistory(s)
  PROVE  Symptom(f, s)
<1> USE DEF Certain, ContainerSymptom, ContainerIDs
<1>1. CASE f \in evaluateOOM(s)
  <2>1. PICK n \in ContainerNames : /\ oomTermination(s.pod.containers[n])
                                    /\ f.about = n /\ f.id = "POD_OOM_KILLED"
    BY <1>1 DEF evaluateOOM
  <2> QED BY <2>1 DEF Symptom
<1>2. CASE f \in evaluateCrashLoop(s)
  <2>1. PICK n \in ContainerNames :
          /\ CrashLooping(s.pod.containers[n]) /\ ~IsTerminal(s.pod) /\ f.about = n
          /\ f.id = FailureID(s.pod.containers[n], "POD_CRASH_LOOP")
    BY <1>2 DEF evaluateCrashLoop
  <2> QED BY <2>1 DEF Symptom, FailureID
<1>3. CASE f \in evaluateTerminated(s)
  <2>1. CASE f \in evictionDiagnosis(s)
    <3>1. f.id = "POD_EVICTED" /\ s.pod.evicted
      BY <2>1 DEF evictionDiagnosis
    <3> QED BY <3>1 DEF Symptom
  <2>2. CASE f \notin evictionDiagnosis(s)
    <3>1. PICK n \in ContainerNames :
            /\ EndedInError(s.pod, s.pod.containers[n]) /\ f.about = n
            /\ f.id = FailureID(s.pod.containers[n], "POD_CONTAINER_TERMINATED_ERROR")
      BY <1>3, <2>2 DEF evaluateTerminated
    <3> QED BY <3>1 DEF Symptom, FailureID
  <2> QED BY <2>1, <2>2
<1>4. CASE f \in evaluateImagePull(s)
  <2>1. PICK n \in ContainerNames : /\ s.pod.containers[n].state \in ImageWaitReasons
                                    /\ f.about = n /\ f.id = "POD_IMAGE_PULL_FAILED"
    BY <1>4 DEF evaluateImagePull
  <2> QED BY <2>1 DEF Symptom
<1>5. CASE f \in evaluateRestartHistory(s)
  <2>1. PICK n \in ContainerNames :
          /\ s.pod.containers[n].state = "running" /\ s.pod.containers[n].restarts > 0
          /\ ~isFlapping(s.pod.containers[n]) /\ ~oomTermination(s.pod.containers[n])
          /\ f.about = n /\ f.id = "POD_RESTARTED" /\ f.severity = "info"
    BY <1>5 DEF evaluateRestartHistory
  <2> QED BY <2>1 DEF Symptom
<1> QED BY <1>1, <1>2, <1>3, <1>4, <1>5

\* A scheduling finding is about a Pod without a node.
LEMMA SchedulingRule ==
  ASSUME NEW s, NEW F \in evaluateScheduling(s), NEW f \in F
  PROVE  Symptom(f, s)
<1>1. ~s.pod.bound /\ ~IsTerminal(s.pod)
  BY DEF evaluateScheduling
<1>2. CASE f = Certain("POD_SCHEDULING_GATED", "pod", "warning", NoCause)
  BY <1>1, <1>2 DEF Symptom, SchedulingIDs, Certain
<1>3. CASE f # Certain("POD_SCHEDULING_GATED", "pod", "warning", NoCause)
  <2>1. PICK categories : f.id = dominantID(categories)
    BY <1>3 DEF evaluateScheduling, Certain
  <2>2. \A c \in DOMAIN DominantIDs : DominantIDs[c] \in SchedulingIDs
    BY DEF DominantIDs, SchedulingIDs
  <2>3. dominantID(categories) \in SchedulingIDs
    BY <2>2 DEF dominantID, SchedulingIDs
  <2> QED BY <1>1, <2>1, <2>3 DEF Symptom
<1> QED BY <1>2, <1>3

\* A probe finding is as grave as the most recent of the events it is about.
LEMMA ProbeRule ==
  ASSUME NEW s \in Snapshot, NEW f \in evaluateProbes(s)
  PROVE  Symptom(f, s)
<1> DEFINE failures(n, kind) == {e \in WithReason(s.events, {"Unhealthy"}) :
                                   e.container = n /\ kind \in e.message.says}
           latest(n, kind) == CHOOSE e \in failures(n, kind) :
                                \A g \in failures(n, kind) : e.age <= g.age
<1>1. PICK n \in ContainerNames \cup {NoContainer}, kind \in ProbeKinds :
        /\ failures(n, kind) # {}
        /\ f.id = ProbeIDs[kind] /\ f.severity = ProbeSeverity(s, latest(n, kind), kind)
  BY DEF evaluateProbes, Certain
<1>2. failures(n, kind) \in SUBSET Event
  BY DEF WithReason, Snapshot
<1>3. latest(n, kind) \in failures(n, kind)
  <2> DEFINE E == failures(n, kind)
  <2>1. E \in SUBSET Event /\ E # {}
    BY <1>1, <1>2
  <2> HIDE DEF E
  <2>2. \E e \in E : \A g \in E : e.age <= g.age
    BY <2>1, MostRecent
  <2>3. (CHOOSE e \in E : \A g \in E : e.age <= g.age) \in E
    BY <2>2
  <2> QED BY <2>3 DEF E
<1>4. latest(n, kind) \in WithReason(s.events, {"Unhealthy"})
  BY <1>3
<1>5. f.id \in ProbeFailureIDs
  BY <1>1 DEF ProbeIDs, ProbeKinds, ProbeFailureIDs
<1> HIDE DEF latest, failures
<1> QED BY <1>1, <1>4, <1>5 DEF Symptom

\* The rules that look at what the Pod refers to.
LEMMA ReferenceRules ==
  ASSUME NEW s, NEW f, \/ f \in evaluateConfigRefs(s) \/ f \in evaluateMounts(s)
                       \/ f \in evaluateClaims(s) \/ f \in evaluateNode(s)
  PROVE  Symptom(f, s)
<1> USE DEF Certain
<1>1. CASE f \in evaluateConfigRefs(s)
  <2>1. CASE \E n \in missingNames(s.configMaps) :
               f = Certain("POD_MISSING_CONFIGMAP", n, "critical", NoCause)
    BY <2>1 DEF Symptom
  <2>2. CASE \E n \in missingNames(s.secrets) :
               f = Certain("POD_MISSING_SECRET", n, "critical", NoCause)
    BY <2>2 DEF Symptom
  <2>3. CASE \E n \in ContainerNames :
               /\ s.pod.containers[n].state \in ConfigErrors
               /\ f = Certain("POD_CREATE_CONTAINER_CONFIG_ERROR", n, "critical",
                              ConfigErrorCause(s, s.pod.containers[n]))
    BY <2>3 DEF Symptom, ContainerSymptom, ContainerIDs
  <2> QED BY <1>1, <2>1, <2>2, <2>3 DEF evaluateConfigRefs
<1>2. CASE f \in evaluateMounts(s)
  BY <1>2 DEF evaluateMounts, Symptom
<1>3. CASE f \in evaluateClaims(s)
  BY <1>3 DEF evaluateClaims, Symptom
<1>4. CASE f \in evaluateNode(s)
  BY <1>4 DEF evaluateNode, Symptom
<1> QED BY <1>1, <1>2, <1>3, <1>4

\* No rule finds anything without its symptom: a container in the state the finding
\* is about, a Pod that no node took, an event, an object that was looked for and is
\* not there.
THEOREM RulesHaveSymptoms ==
  ASSUME NEW s \in Snapshot, NEW f, Made(f, s)
  PROVE  Symptom(f, s)
BY MadeByOne, ContainerRules, SchedulingRule, ProbeRule, ReferenceRules

-----------------------------------------------------------------------------
(* Every cause is a finding *)

\* The findings that others may name as their cause.
CauseFindings(s) == evaluateConfigRefs(s) \cup evaluateClaims(s)

\* Only a claim that was found has a phase.
PhaseIsRead(s) == \A n \in ClaimNames : s.pvcs[n].phase # "none" => s.pvcs[n].exists = "found"

\* What is missing is found missing.
LEMMA MissingIsFound ==
  ASSUME NEW s
  PROVE  /\ missingNames(s.configMaps) # {} =>
              \E g \in evaluateConfigRefs(s) : g.id = "POD_MISSING_CONFIGMAP"
         /\ missingNames(s.secrets) # {} =>
              \E g \in evaluateConfigRefs(s) : g.id = "POD_MISSING_SECRET"
         /\ ~IsTerminal(s.pod) /\ (\E n \in ClaimNames : s.pvcs[n].exists = "missing") =>
              \E g \in evaluateClaims(s) : g.id = "POD_PVC_NOT_FOUND"
         /\ /\ ~IsTerminal(s.pod)
            /\ \E n \in ClaimNames : s.pvcs[n].exists = "found" /\ s.pvcs[n].phase # "Bound"
            => \E g \in evaluateClaims(s) : g.id = "POD_PVC_NOT_BOUND"
<1> USE DEF Certain
<1>1. ASSUME NEW n \in missingNames(s.configMaps)
      PROVE  \E g \in evaluateConfigRefs(s) : g.id = "POD_MISSING_CONFIGMAP"
  <2>1. Certain("POD_MISSING_CONFIGMAP", n, "critical", NoCause) \in evaluateConfigRefs(s)
    BY DEF evaluateConfigRefs
  <2> QED BY <2>1
<1>2. ASSUME NEW n \in missingNames(s.secrets)
      PROVE  \E g \in evaluateConfigRefs(s) : g.id = "POD_MISSING_SECRET"
  <2>1. Certain("POD_MISSING_SECRET", n, "critical", NoCause) \in evaluateConfigRefs(s)
    BY DEF evaluateConfigRefs
  <2> QED BY <2>1
<1>3. ASSUME NEW n \in ClaimNames, s.pvcs[n].exists = "missing", ~IsTerminal(s.pod)
      PROVE  \E g \in evaluateClaims(s) : g.id = "POD_PVC_NOT_FOUND"
  <2>1. Certain("POD_PVC_NOT_FOUND", n, "critical", NoCause) \in evaluateClaims(s)
    BY <1>3 DEF evaluateClaims
  <2> QED BY <2>1
<1>4. ASSUME NEW n \in ClaimNames, s.pvcs[n].exists = "found", s.pvcs[n].phase # "Bound",
             ~IsTerminal(s.pod)
      PROVE  \E g \in evaluateClaims(s) : g.id = "POD_PVC_NOT_BOUND"
  <2>1. Certain("POD_PVC_NOT_BOUND", n, unboundClaimSeverity(s.pvcs[n]), NoCause)
          \in evaluateClaims(s)
    BY <1>4 DEF evaluateClaims
  <2> QED BY <2>1
<1> QED BY <1>1, <1>2, <1>3, <1>4

\* Only three rules name causes.
LEMMA WhoNamesCauses ==
  ASSUME NEW s, NEW f, Made(f, s), f.causedBy # NoCause
  PROVE  \/ \E F \in evaluateScheduling(s) : f \in F
         \/ f \in evaluateConfigRefs(s)
         \/ f \in evaluateMounts(s)
<1> USE DEF Certain
<1>1. ~(f \in evaluateOOM(s) \/ f \in evaluateCrashLoop(s) \/ f \in evaluateTerminated(s))
  BY DEF evaluateOOM, evaluateCrashLoop, evaluateTerminated, evictionDiagnosis
<1>2. ~(f \in evaluateImagePull(s) \/ f \in evaluateProbes(s))
  <2>1. f \notin evaluateImagePull(s)
    BY DEF evaluateImagePull
  <2>2. ASSUME f \in evaluateProbes(s) PROVE FALSE
    <3>1. PICK id, about, severity : f = Certain(id, about, severity, NoCause)
      BY <2>2 DEF evaluateProbes
    <3> QED BY <3>1
  <2> QED BY <2>1, <2>2
<1>3. ~(f \in evaluateClaims(s) \/ f \in evaluateNode(s) \/ f \in evaluateRestartHistory(s))
  BY DEF evaluateClaims, evaluateNode, evaluateRestartHistory
<1> QED BY <1>1, <1>2, <1>3, MadeByOne

\* Whatever the order in which the claims are looked at, the cause of a scheduling
\* failure is one that the claim rule reports.
LEMMA SchedulingCauseFound ==
  ASSUME NEW s, PhaseIsRead(s), NEW F \in evaluateScheduling(s), NEW f \in F,
         f.causedBy # NoCause
  PROVE  \E g \in evaluateClaims(s) : g.id = f.causedBy
<1>1. PICK categories : f.causedBy \in SchedulingCauses(s, categories)
  BY DEF evaluateScheduling, Certain
<1>2. ~IsTerminal(s.pod)
  BY DEF evaluateScheduling
<1>3. \/ f.causedBy = "POD_PVC_NOT_FOUND" /\ \E n \in ClaimNames : s.pvcs[n].exists = "missing"
      \/ /\ f.causedBy = "POD_PVC_NOT_BOUND"
         /\ \E n \in ClaimNames : s.pvcs[n].phase = "Pending"
  BY <1>1 DEF SchedulingCauses
<1> QED BY <1>2, <1>3, MissingIsFound DEF PhaseIsRead

\* The cause that the scheduling, mount and configuration rules infer from the
\* snapshot is one that the configuration or the claim rule reports.
THEOREM RulesKnowCauses ==
  ASSUME NEW s, PhaseIsRead(s), NEW f, Made(f, s), f.causedBy # NoCause
  PROVE  \E g \in CauseFindings(s) : g.id = f.causedBy
<1>1. CASE \E F \in evaluateScheduling(s) : f \in F
  BY <1>1, SchedulingCauseFound DEF CauseFindings
<1>2. CASE f \in evaluateConfigRefs(s)
  <2>1. PICK n : f.causedBy = ConfigErrorCause(s, s.pod.containers[n])
    BY <1>2 DEF evaluateConfigRefs, Certain
  <2>2. \/ f.causedBy = "POD_MISSING_CONFIGMAP" /\ missingNames(s.configMaps) # {}
        \/ f.causedBy = "POD_MISSING_SECRET" /\ missingNames(s.secrets) # {}
    BY <2>1 DEF ConfigErrorCause
  <2> QED BY <2>2, MissingIsFound DEF CauseFindings
<1>3. CASE f \in evaluateMounts(s)
  <2>1. f.causedBy = MountCause(s) /\ ~IsTerminal(s.pod)
    BY <1>3 DEF evaluateMounts, Certain
  <2> QED BY <2>1, MissingIsFound DEF MountCause, CauseFindings
<1> QED BY <1>1, <1>2, <1>3, WhoNamesCauses

-----------------------------------------------------------------------------
(* A rule says a thing once *)

\* No two findings have the same identifier and component.
SaidOnce(F) == \A f, g \in F : f.id = g.id /\ f.about = g.about => f = g

\* The rules about containers make one finding for each.
LEMMA ContainersOnce ==
  ASSUME NEW s
  PROVE  /\ SaidOnce(evaluateOOM(s)) /\ SaidOnce(evaluateCrashLoop(s))
         /\ SaidOnce(evaluateTerminated(s)) /\ SaidOnce(evaluateImagePull(s))
         /\ SaidOnce(evaluateRestartHistory(s))
<1> USE DEF SaidOnce, Certain
<1>1. SaidOnce(evaluateOOM(s)) /\ SaidOnce(evaluateRestartHistory(s))
  BY DEF evaluateOOM, evaluateRestartHistory
<1>2. SaidOnce(evaluateCrashLoop(s))
  BY DEF evaluateCrashLoop
<1>3. SaidOnce(evaluateTerminated(s))
  <2> SUFFICES ASSUME NEW f \in evaluateTerminated(s), NEW g \in evaluateTerminated(s),
                      f.id = g.id, f.about = g.about
               PROVE  f = g
    OBVIOUS
  <2>1. ASSUME NEW h \in evaluateTerminated(s)
        PROVE  \/ h = Certain("POD_EVICTED", "pod", "critical", NoCause)
               \/ /\ h.id # "POD_EVICTED"
                  /\ h = LET c == s.pod.containers[h.about]
                         IN  Certain(FailureID(c, "POD_CONTAINER_TERMINATED_ERROR"), h.about,
                                     severityFor(AwaitingRestart(s.pod)), NoCause)
    BY DEF evaluateTerminated, evictionDiagnosis, FailureID
  <2>2. CASE f.id = "POD_EVICTED"
    BY <2>1, <2>2
  <2>3. CASE f.id # "POD_EVICTED"
    BY <2>1, <2>3
  <2> QED BY <2>2, <2>3
<1>4. SaidOnce(evaluateImagePull(s))
  <2> DEFINE pull(n) ==
        [Certain("POD_IMAGE_PULL_FAILED", n, "critical", NoCause) EXCEPT !.confidence =
           classifyImageFailure(s.pod.containers[n].state, PullDetail(s, n))]
  <2>1. \A h \in evaluateImagePull(s) : \E n : h = pull(n)
    BY DEF evaluateImagePull
  <2>2. \A n : pull(n).about = n
    OBVIOUS
  <2> HIDE DEF pull
  <2> QED BY <2>1, <2>2
<1> QED BY <1>1, <1>2, <1>3, <1>4

\* A rule makes at most one finding of one identifier about one component, so what two
\* findings of a Pod have in common is never the rule and all that it says.
THEOREM RulesSpeakOnce ==
  ASSUME NEW s, NEW i \in 1..Len(RuleNames), NEW F \in Outcomes(i, s)
  PROVE  SaidOnce(F)
<1> USE DEF SaidOnce, Certain
<1>1. CASE F \in evaluateScheduling(s)
  <2>1. F = {} \/ \E id, about, severity, cause : F = {Certain(id, about, severity, cause)}
    <3> HIDE DEF Certain
    <3> QED BY <1>1 DEF evaluateScheduling
  <2> QED BY <2>1
<1>2. SaidOnce(evaluateProbes(s))
  <2> SUFFICES ASSUME NEW f \in evaluateProbes(s), NEW g \in evaluateProbes(s),
                      f.id = g.id, f.about = g.about
               PROVE  f = g
    OBVIOUS
  <2> DEFINE failures(n, kind) == {e \in WithReason(s.events, {"Unhealthy"}) :
                                     e.container = n /\ kind \in e.message.says}
             latest(n, kind) == CHOOSE e \in failures(n, kind) :
                                  \A h \in failures(n, kind) : e.age <= h.age
             probe(n, kind) == Certain(ProbeIDs[kind], n,
                                       ProbeSeverity(s, latest(n, kind), kind), NoCause)
  <2>1. ASSUME NEW h \in evaluateProbes(s)
        PROVE  \E n \in ContainerNames \cup {NoContainer}, kind \in ProbeKinds :
                 h = probe(n, kind)
    <3> HIDE DEF Certain, SaidOnce
    <3>1. PICK k \in (ContainerNames \cup {NoContainer}) \X ProbeKinds :
            h = Certain(ProbeIDs[k[2]], IF k[1] \in ContainerNames THEN k[1] ELSE NoContainer,
                        ProbeSeverity(s, latest(k[1], k[2]), k[2]), NoCause)
      BY DEF evaluateProbes
    <3> HIDE DEF latest
    <3>2. PICK n \in ContainerNames \cup {NoContainer}, kind \in ProbeKinds :
            n = k[1] /\ kind = k[2]
      OBVIOUS
    <3>3. n = IF n \in ContainerNames THEN n ELSE NoContainer
      OBVIOUS
    <3>4. h = probe(n, kind)
      BY <3>1, <3>2, <3>3
    <3> QED BY <3>4
  <2>2. \A n, kind : probe(n, kind).id = ProbeIDs[kind] /\ probe(n, kind).about = n
    OBVIOUS
  <2> HIDE DEF probe
  <2>3. \A k, m \in ProbeKinds : ProbeIDs[k] = ProbeIDs[m] => k = m
    BY DEF ProbeIDs, ProbeKinds
  <2> QED BY <2>1, <2>2, <2>3
<1>3. SaidOnce(evaluateConfigRefs(s))
  BY DEF evaluateConfigRefs
<1>4. SaidOnce(evaluateMounts(s)) /\ SaidOnce(evaluateNode(s))
  BY DEF evaluateMounts, evaluateNode
<1>5. SaidOnce(evaluateClaims(s))
  BY DEF evaluateClaims
<1>6. i \in {1, 2, 3, 4, 5, 6, 7, 8, 9, 10, 11}
  BY ElevenRules
<1> HIDE DEF SaidOnce
<1> QED BY <1>1, <1>2, <1>3, <1>4, <1>5, <1>6, ContainersOnce, OutcomesByNumber

=============================================================================
