--------------------------- MODULE DecisionProofs ---------------------------
(***************************************************************************)
(* Proofs about Decision, for every input, every list of candidates and    *)
(* every order FTS may deliver them in.                                    *)
(***************************************************************************)
EXTENDS Decision, ReconcileProofs

-----------------------------------------------------------------------------
(* Sorting: what comes before what is a strict total order on positions,   *)
(* of which Place is the position in the result.                           *)

LEMMA ProductsOrdered ==
    ASSUME NEW x \in Nat, NEW y \in Nat, NEW k \in Nat
    PROVE  /\ x * k \in Nat
           /\ x >= y => x * k >= y * k
           /\ x > y /\ k > 0 => x * k > y * k
           /\ k > 0 /\ x * k >= y * k => x >= y
           /\ k > 0 /\ x * k > y * k => x > y
           /\ k > 0 /\ x * k = y * k => x = y
  <1>0. x * k \in Nat /\ y * k \in Nat
    OBVIOUS
  <1>1. ASSUME NEW u \in Nat, NEW v \in Nat, u >= v PROVE u * k >= v * k
    <2>1. PICK w \in Nat : u = v + w
      <3>1. u - v \in Nat /\ u = v + (u - v)
        BY <1>1
      <3>. QED  BY <3>1
    <2>2. u * k = v * k + w * k /\ w * k \in Nat /\ v * k \in Nat
      BY <2>1
    <2>. QED  BY <2>2
  <1>2. ASSUME NEW u \in Nat, NEW v \in Nat, u > v, k > 0 PROVE u * k > v * k
    <2>1. u >= v + 1 /\ v + 1 \in Nat
      BY <1>2
    <2>2. u * k >= (v + 1) * k
      BY <1>1, <2>1
    <2>3. (v + 1) * k = v * k + k /\ v * k \in Nat /\ u * k \in Nat
      OBVIOUS
    <2>. QED  BY <1>2, <2>2, <2>3
  <1>3. x >= y => x * k >= y * k
    BY <1>1
  <1>4. x > y /\ k > 0 => x * k > y * k
    BY <1>2
  <1>5. y > x /\ k > 0 => y * k > x * k
    BY <1>2
  <1>6. y >= x => y * k >= x * k
    BY <1>1
  <1>. QED  BY <1>0, <1>3, <1>4, <1>5, <1>6

\* Fractions a/p, b/q, c/r.
LEMMA FractionsOrdered ==
    ASSUME NEW a \in Nat, NEW b \in Nat, NEW c \in Nat,
           NEW p \in Nat, NEW q \in Nat, NEW r \in Nat, p > 0, q > 0, r > 0,
           a * q >= b * p, b * r >= c * q
    PROVE  /\ a * r >= c * p
           /\ a * q > b * p \/ b * r > c * q => a * r > c * p
  <1>1. a * q \in Nat /\ b * p \in Nat /\ b * r \in Nat /\ c * q \in Nat /\ a * r \in Nat /\ c * p \in Nat
    OBVIOUS
  <1>2. (a * q) * r >= (b * p) * r /\ (a * q > b * p => (a * q) * r > (b * p) * r)
    BY <1>1, ProductsOrdered
  <1>3. (b * r) * p >= (c * q) * p /\ (b * r > c * q => (b * r) * p > (c * q) * p)
    BY <1>1, ProductsOrdered
  <1>4. (b * p) * r = (b * r) * p /\ (a * q) * r = (a * r) * q /\ (c * q) * p = (c * p) * q
    OBVIOUS
  <1>. DEFINE u == (a * r) * q
              v == (b * r) * p
              w == (c * p) * q
  <1>5. u \in Nat /\ v \in Nat /\ w \in Nat
    BY <1>1
  <1>6. /\ u >= v /\ v >= w
        /\ a * q > b * p => u > v
        /\ b * r > c * q => v > w
    BY <1>2, <1>3, <1>4
  <1>. HIDE DEF u, v, w
  <1>7. u >= w /\ (a * q > b * p \/ b * r > c * q => u > w)
    BY <1>5, <1>6
  <1>8. /\ (a * r) * q >= (c * p) * q
        /\ a * q > b * p \/ b * r > c * q => (a * r) * q > (c * p) * q
    BY <1>7 DEF u, w
  <1>. QED  BY <1>1, <1>8, ProductsOrdered

StrictOrder(R, n) ==
    /\ \A i \in 1 .. n : <<i, i>> \notin R
    /\ \A i, j \in 1 .. n : i # j => <<i, j>> \in R \/ <<j, i>> \in R
    /\ \A i, j, k \in 1 .. n : <<i, j>> \in R /\ <<j, k>> \in R => <<i, k>> \in R

Preceding(R, n, i) == {j \in 1 .. n : <<j, i>> \in R}

LEMMA PlacesAscend ==
    ASSUME NEW n \in Nat, NEW R, StrictOrder(R, n),
           NEW i \in 1 .. n, NEW j \in 1 .. n, <<i, j>> \in R
    PROVE  Cardinality(Preceding(R, n, i)) < Cardinality(Preceding(R, n, j))
  <1>1. IsFiniteSet(1 .. n)
    BY FS_Interval
  <1>2. Preceding(R, n, i) \subseteq 1 .. n /\ Preceding(R, n, j) \subseteq 1 .. n
    BY DEF Preceding
  <1>3. IsFiniteSet(Preceding(R, n, j))
    BY <1>1, <1>2, FS_Subset
  <1>4. Preceding(R, n, i) \in SUBSET Preceding(R, n, j)
    BY DEF Preceding, StrictOrder
  <1>5. i \in Preceding(R, n, j) /\ i \notin Preceding(R, n, i)
    BY DEF Preceding, StrictOrder
  <1>6. /\ IsFiniteSet(Preceding(R, n, i))
        /\ Cardinality(Preceding(R, n, i)) <= Cardinality(Preceding(R, n, j))
        /\ Cardinality(Preceding(R, n, i)) # Cardinality(Preceding(R, n, j))
    BY <1>3, <1>4, <1>5, FS_Subset
  <1>7. Cardinality(Preceding(R, n, i)) \in Nat /\ Cardinality(Preceding(R, n, j)) \in Nat
    BY <1>3, <1>6, FS_CardinalityType
  <1>. QED  BY <1>6, <1>7

\* Every place is taken, by one position.
LEMMA PlacesAreOnto ==
    ASSUME NEW n \in Nat, NEW R, StrictOrder(R, n)
    PROVE  /\ \A i \in 1 .. n : Cardinality(Preceding(R, n, i)) + 1 \in 1 .. n
           /\ \A k \in 1 .. n : \E i \in 1 .. n : Cardinality(Preceding(R, n, i)) + 1 = k
           /\ \A i, j \in 1 .. n :
                Cardinality(Preceding(R, n, i)) = Cardinality(Preceding(R, n, j)) => i = j
  <1>. DEFINE S == 1 .. n
              f == [i \in S |-> Cardinality(Preceding(R, n, i)) + 1]
  <1>1. IsFiniteSet(S) /\ Cardinality(S) = n
    BY FS_Interval
  <1>2. ASSUME NEW i \in S PROVE Cardinality(Preceding(R, n, i)) \in 0 .. n - 1
    <2>1. Preceding(R, n, i) \in SUBSET S /\ i \notin Preceding(R, n, i)
      BY DEF Preceding, StrictOrder
    <2>. HIDE DEF S
    <2>2. /\ IsFiniteSet(Preceding(R, n, i)) /\ Cardinality(Preceding(R, n, i)) <= n
          /\ Cardinality(Preceding(R, n, i)) # n
      BY <1>1, <2>1, FS_Subset
    <2>3. Cardinality(Preceding(R, n, i)) \in Nat
      BY <2>2, FS_CardinalityType
    <2>. QED  BY <2>2, <2>3
  <1>3. ASSUME NEW i \in S, NEW j \in S,
               Cardinality(Preceding(R, n, i)) = Cardinality(Preceding(R, n, j))
        PROVE  i = j
    <2>1. SUFFICES ASSUME i # j PROVE FALSE
      OBVIOUS
    <2>2. <<i, j>> \in R \/ <<j, i>> \in R
      BY <2>1 DEF StrictOrder
    <2>3. Cardinality(Preceding(R, n, i)) < Cardinality(Preceding(R, n, j))
          \/ Cardinality(Preceding(R, n, j)) < Cardinality(Preceding(R, n, i))
      BY <2>2, PlacesAscend
    <2>4. Cardinality(Preceding(R, n, i)) \in Nat
      BY <1>2
    <2>. QED  BY <1>3, <2>3, <2>4
  <1>4. f \in [S -> S]
    BY <1>2
  <1>5. f \in Injection(S, S)
    <2>1. \A i, j \in S : f[i] = f[j] => i = j
      BY <1>2, <1>3
    <2>. HIDE DEF f, S
    <2>. QED  BY <1>4, <2>1 DEF Injection, IsInjective
  <1>6. f \in Surjection(S, S)
    <2>. HIDE DEF f, S
    <2>. QED  BY <1>1, <1>5, FS_Injection
  <1>7. \A k \in S : \E i \in S : f[i] = k
    <2>. HIDE DEF f, S
    <2>. QED  BY <1>6 DEF Surjection
  <1>. QED  BY <1>2, <1>3, <1>7

-----------------------------------------------------------------------------
(* The candidates: every id names one of them.                             *)

LEMMA ListsAre ==
    ASSUME NEW s \in Lists
    PROVE  /\ Len(s) \in 0 .. MaxListed /\ Len(s) \in Nat
           /\ DOMAIN s = 1 .. Len(s)
           /\ \A i \in 1 .. Len(s) : s[i] \in Stored
  <1>1. PICK n \in 0 .. MaxListed : s \in [1 .. n -> Stored]
    BY DEF Lists
  <1>2. n \in Nat
    BY DecisionAssumption
  <1>3. s \in Seq(Stored)
    BY <1>1, <1>2
  <1>4. Len(s) = n
    BY <1>1, <1>2, <1>3
  <1>. QED  BY <1>1, <1>2, <1>4

LEMMA OrdersArePermutations ==
    ASSUME NEW n \in Nat, NEW f \in Orders(n)
    PROVE  /\ f \in [1 .. n -> 1 .. n]
           /\ \A i, j \in 1 .. n : f[i] = f[j] => i = j
           /\ \A v \in 1 .. n : \E i \in 1 .. n : f[i] = v
  <1>. DEFINE S == 1 .. n
  <1>1. f \in [S -> S] /\ \A i, j \in S : f[i] = f[j] => i = j
    BY DEF Orders
  <1>2. IsFiniteSet(S)
    BY FS_Interval
  <1>3. f \in Surjection(S, S)
    <2>. HIDE DEF S
    <2>1. f \in Injection(S, S)
      BY <1>1 DEF Injection, IsInjective
    <2>. QED  BY <1>2, <2>1, FS_Injection
  <1>4. \A v \in S : \E i \in S : f[i] = v
    <2>. HIDE DEF S
    <2>. QED  BY <1>3 DEF Surjection
  <1>. QED  BY <1>1, <1>4

Asked == input \in Inputs /\ listed \in Lists /\ order \in Orders(Len(listed))

LEMMA CandidatesAre ==
    ASSUME Asked
    PROVE  /\ Len(listed) \in Nat /\ DOMAIN listed = 1 .. Len(listed) /\ Ids = 1 .. Len(listed)
           /\ Worded(input) /\ \A i \in 1 .. Len(listed) : Worded(listed[i])
           /\ \A i \in 1 .. Len(listed) :
                order[i] \in Ids /\ ById(order[i]) = listed[i]
           /\ \A i, j \in 1 .. Len(listed) : order[i] = order[j] => i = j
           /\ \A v \in Ids : \E i \in 1 .. Len(listed) : order[i] = v
           /\ \A v \in Ids : Worded(ById(v))
  <1>1. /\ Len(listed) \in Nat /\ DOMAIN listed = 1 .. Len(listed)
        /\ \A i \in 1 .. Len(listed) : listed[i] \in Stored
    BY ListsAre DEF Asked
  <1>2. /\ order \in [1 .. Len(listed) -> 1 .. Len(listed)]
        /\ \A i, j \in 1 .. Len(listed) : order[i] = order[j] => i = j
        /\ \A v \in 1 .. Len(listed) : \E i \in 1 .. Len(listed) : order[i] = v
    BY <1>1, OrdersArePermutations DEF Asked
  <1>3. \A i \in 1 .. Len(listed) : Worded(listed[i])
    BY <1>1, DecisionAssumption
  <1>4. Worded(input)
    BY DecisionAssumption DEF Asked
  <1>5. ASSUME NEW i \in 1 .. Len(listed)
        PROVE  ById(order[i]) = listed[i]
    <2>1. \A j \in DOMAIN order : order[j] = order[i] <=> j = i
      BY <1>2
    <2>2. i \in DOMAIN order
      BY <1>2
    <2>3. (CHOOSE j \in DOMAIN order : order[j] = order[i]) = i
      BY <2>1, <2>2
    <2>. QED  BY <2>3 DEF ById
  <1>6. \A v \in Ids : Worded(ById(v))
    BY <1>1, <1>2, <1>3, <1>5 DEF Ids
  <1>. QED  BY <1>1, <1>2, <1>3, <1>4, <1>5, <1>6 DEF Ids

-----------------------------------------------------------------------------
(* The ranking of scores.                                                  *)

\* How much of d is in the input, against how much there is in both.
LEMMA SimilarityIs ==
    ASSUME Asked, Substantial(input), NEW d, Worded(d)
    PROVE  Common(input, d) \in Nat /\ Either(input, d) \in Nat /\ Either(input, d) > 0
  <1>1. Worded(input)
    BY CandidatesAre
  <1>. QED  BY <1>1, CommonIsNumber DEF Substantial, MinTokens

LEMMA CloserIsOrder ==
    ASSUME Asked, Substantial(input), NEW d, NEW e, NEW f, Worded(d), Worded(e), Worded(f)
    PROVE  /\ AsClose(input, d, d) /\ ~Closer(input, d, d)
           /\ Closer(input, d, e) \/ AsClose(input, d, e) \/ Closer(input, e, d)
           /\ Closer(input, d, e) => ~Closer(input, e, d) /\ ~AsClose(input, d, e)
           /\ AsClose(input, d, e) <=> AsClose(input, e, d)
           /\ LET AtLeast(x, y) == Closer(input, x, y) \/ AsClose(input, x, y)
              IN  AtLeast(d, e) /\ AtLeast(e, f) =>
                    /\ AtLeast(d, f)
                    /\ Closer(input, d, e) \/ Closer(input, e, f) => Closer(input, d, f)
  <1>. DEFINE a == Common(input, d)
              b == Common(input, e)
              c == Common(input, f)
              p == Either(input, d)
              q == Either(input, e)
              r == Either(input, f)
  <1>1. a \in Nat /\ b \in Nat /\ c \in Nat /\ p \in Nat /\ q \in Nat /\ r \in Nat
    BY SimilarityIs
  <1>2. p > 0 /\ q > 0 /\ r > 0
    BY SimilarityIs
  <1>3. /\ Closer(input, d, e) <=> a * q > b * p
        /\ AsClose(input, d, e) <=> a * q = b * p
        /\ Closer(input, e, d) <=> b * p > a * q
        /\ AsClose(input, e, d) <=> b * p = a * q
        /\ Closer(input, e, f) <=> b * r > c * q
        /\ AsClose(input, e, f) <=> b * r = c * q
        /\ Closer(input, d, f) <=> a * r > c * p
        /\ AsClose(input, d, f) <=> a * r = c * p
        /\ Closer(input, d, d) <=> a * p > a * p
        /\ AsClose(input, d, d) <=> a * p = a * p
    BY DEF Closer, AsClose
  <1>. HIDE DEF a, b, c, p, q, r
  <1>4. /\ a * q \in Nat /\ b * p \in Nat /\ b * r \in Nat /\ c * q \in Nat
        /\ a * r \in Nat /\ c * p \in Nat /\ a * p \in Nat
    BY <1>1
  <1>5. a * q >= b * p /\ b * r >= c * q =>
          /\ a * r >= c * p
          /\ a * q > b * p \/ b * r > c * q => a * r > c * p
    BY <1>1, <1>2, FractionsOrdered
  <1>6. AsClose(input, d, d) /\ ~Closer(input, d, d)
    BY <1>3, <1>4
  <1>7. /\ Closer(input, d, e) \/ AsClose(input, d, e) \/ Closer(input, e, d)
        /\ Closer(input, d, e) => ~Closer(input, e, d) /\ ~AsClose(input, d, e)
        /\ AsClose(input, d, e) <=> AsClose(input, e, d)
    BY <1>3, <1>4
  <1>8. /\ Closer(input, d, e) \/ AsClose(input, d, e) => a * q >= b * p
        /\ Closer(input, e, f) \/ AsClose(input, e, f) => b * r >= c * q
        /\ a * r >= c * p => Closer(input, d, f) \/ AsClose(input, d, f)
    BY <1>3, <1>4
  <1>. QED  BY <1>3, <1>5, <1>6, <1>7, <1>8

IsScore(s) == s.id \in Nat /\ Worded(s.content)

LEMMA RanksIsOrder ==
    ASSUME Asked, Substantial(input),
           NEW s, NEW t, NEW u, IsScore(s), IsScore(t), IsScore(u)
    PROVE  /\ ~Ranks(s, s)
           /\ s.id # t.id => Ranks(s, t) \/ Ranks(t, s)
           /\ Ranks(s, t) => ~Ranks(t, s)
           /\ Ranks(s, t) /\ Ranks(t, u) => Ranks(s, u)
  <1>1. Worded(s.content) /\ Worded(t.content) /\ Worded(u.content)
    BY DEF IsScore
  <1>2. s.id \in Nat /\ t.id \in Nat /\ u.id \in Nat
    BY DEF IsScore
  <1>. DEFINE C(x, y) == Closer(input, x.content, y.content)
              A(x, y) == AsClose(input, x.content, y.content)
  <1>3. A(s, s) /\ ~C(s, s)
    BY <1>1, CloserIsOrder
  <1>4. /\ C(s, t) \/ A(s, t) \/ C(t, s)
        /\ C(s, t) => ~C(t, s) /\ ~A(s, t)
        /\ C(t, s) => ~C(s, t) /\ ~A(t, s)
        /\ A(s, t) <=> A(t, s)
    BY <1>1, CloserIsOrder
  <1>5. (C(s, t) \/ A(s, t)) /\ (C(t, u) \/ A(t, u)) =>
          /\ C(s, u) \/ A(s, u)
          /\ C(s, t) \/ C(t, u) => C(s, u)
    BY <1>1, CloserIsOrder
  <1>6. /\ Ranks(s, t) <=> C(s, t) \/ (A(s, t) /\ s.id < t.id)
        /\ Ranks(t, s) <=> C(t, s) \/ (A(t, s) /\ t.id < s.id)
        /\ Ranks(t, u) <=> C(t, u) \/ (A(t, u) /\ t.id < u.id)
        /\ Ranks(s, u) <=> C(s, u) \/ (A(s, u) /\ s.id < u.id)
        /\ Ranks(s, s) <=> C(s, s) \/ (A(s, s) /\ s.id < s.id)
    BY DEF Ranks
  <1>. HIDE DEF C, A
  <1>7. ~(s.id < s.id) /\ (s.id # t.id => s.id < t.id \/ t.id < s.id)
        /\ (s.id < t.id => ~(t.id < s.id)) /\ (s.id < t.id /\ t.id < u.id => s.id < u.id)
    BY <1>2
  <1>. QED  BY <1>3, <1>4, <1>5, <1>6, <1>7

-----------------------------------------------------------------------------
(* The sorted scores.                                                      *)

Complete ==
    /\ Asked /\ Substantial(input)
    /\ scored = [k \in 1 .. Len(listed) |-> ScoreOf(k)]

LEMMA ScoresAre ==
    ASSUME Complete
    PROVE  /\ DOMAIN scored = 1 .. Len(listed) /\ Len(scored) = Len(listed)
           /\ \A i \in 1 .. Len(listed) :
                /\ scored[i] = ScoreOf(i) /\ IsScore(ScoreOf(i))
                /\ ScoreOf(i).id = order[i] /\ ScoreOf(i).content = listed[i]
           /\ \A i, j \in 1 .. Len(listed) : i # j => ScoreOf(i).id # ScoreOf(j).id
  <1>1. DOMAIN scored = 1 .. Len(listed) /\ \A i \in 1 .. Len(listed) : scored[i] = ScoreOf(i)
    BY DEF Complete
  <1>2. Len(listed) \in Nat
    BY CandidatesAre DEF Complete
  <1>3. Len(scored) = Len(listed)
    BY <1>1, <1>2
  <1>4. \A i \in 1 .. Len(listed) : ScoreOf(i).id = order[i] /\ ScoreOf(i).content = listed[i]
    BY DEF ScoreOf
  <1>5. \A i \in 1 .. Len(listed) : order[i] \in Nat /\ Worded(listed[i])
    BY CandidatesAre DEF Complete
  <1>6. \A i \in 1 .. Len(listed) : IsScore(ScoreOf(i))
    BY <1>4, <1>5 DEF IsScore
  <1>7. \A i, j \in 1 .. Len(listed) : i # j => ScoreOf(i).id # ScoreOf(j).id
    BY <1>4, CandidatesAre DEF Complete
  <1>. QED  BY <1>1, <1>3, <1>4, <1>6, <1>7

\* The ids differ, so the sort's stability never decides.
LEMMA BeforeIsRank ==
    ASSUME Complete, NEW i \in 1 .. Len(listed), NEW j \in 1 .. Len(listed)
    PROVE  Before(scored, i, j) <=> Ranks(ScoreOf(i), ScoreOf(j))
  <1>1. scored[i] = ScoreOf(i) /\ scored[j] = ScoreOf(j) /\ IsScore(ScoreOf(i)) /\ IsScore(ScoreOf(j))
    BY ScoresAre
  <1>2. Before(scored, i, j) <=>
          Ranks(ScoreOf(i), ScoreOf(j)) \/ (~Ranks(ScoreOf(j), ScoreOf(i)) /\ i < j)
    BY <1>1 DEF Before
  <1>3. CASE i = j
    <2>1. ~(i < j)
      BY <1>3, CandidatesAre DEF Complete
    <2>. QED  BY <1>2, <2>1
  <1>4. CASE i # j
    <2>1. ScoreOf(i).id # ScoreOf(j).id
      BY <1>4, ScoresAre
    <2>2. Ranks(ScoreOf(i), ScoreOf(j)) \/ Ranks(ScoreOf(j), ScoreOf(i))
      BY <1>1, <2>1, RanksIsOrder DEF Complete
    <2>. QED  BY <1>2, <2>2
  <1>. QED  BY <1>3, <1>4

Earlier == {p \in (1 .. Len(listed)) \X (1 .. Len(listed)) : Before(scored, p[1], p[2])}

LEMMA EarlierIsOrder ==
    ASSUME Complete
    PROVE  /\ StrictOrder(Earlier, Len(listed))
           /\ \A i, j \in 1 .. Len(listed) :
                <<i, j>> \in Earlier <=> Ranks(ScoreOf(i), ScoreOf(j))
           /\ \A i \in 1 .. Len(listed) :
                Place(scored, i) = Cardinality(Preceding(Earlier, Len(listed), i)) + 1
  <1>. DEFINE N == 1 .. Len(listed)
  <1>1. \A i, j \in N : <<i, j>> \in Earlier <=> Before(scored, i, j)
    BY DEF Earlier
  <1>2. \A i, j \in N : <<i, j>> \in Earlier <=> Ranks(ScoreOf(i), ScoreOf(j))
    BY <1>1, BeforeIsRank
  <1>3. \A i \in N : <<i, i>> \notin Earlier
    BY <1>2, ScoresAre, RanksIsOrder DEF Complete
  <1>4. ASSUME NEW i \in N, NEW j \in N, i # j PROVE <<i, j>> \in Earlier \/ <<j, i>> \in Earlier
    <2>1. IsScore(ScoreOf(i)) /\ IsScore(ScoreOf(j)) /\ ScoreOf(i).id # ScoreOf(j).id
      BY <1>4, ScoresAre
    <2>2. Ranks(ScoreOf(i), ScoreOf(j)) \/ Ranks(ScoreOf(j), ScoreOf(i))
      BY <2>1, RanksIsOrder DEF Complete
    <2>. QED  BY <1>2, <2>2
  <1>5. ASSUME NEW i \in N, NEW j \in N, NEW k \in N, <<i, j>> \in Earlier, <<j, k>> \in Earlier
        PROVE  <<i, k>> \in Earlier
    <2>1. IsScore(ScoreOf(i)) /\ IsScore(ScoreOf(j)) /\ IsScore(ScoreOf(k))
      BY ScoresAre
    <2>2. Ranks(ScoreOf(i), ScoreOf(j)) /\ Ranks(ScoreOf(j), ScoreOf(k))
      BY <1>2, <1>5
    <2>3. Ranks(ScoreOf(i), ScoreOf(k))
      BY <2>1, <2>2, RanksIsOrder DEF Complete
    <2>. QED  BY <1>2, <2>3
  <1>6. ASSUME NEW i \in N
        PROVE  Place(scored, i) = Cardinality(Preceding(Earlier, Len(listed), i)) + 1
    <2>1. {j \in DOMAIN scored : Before(scored, j, i)} = Preceding(Earlier, Len(listed), i)
      BY <1>1, ScoresAre DEF Preceding
    <2>. QED  BY <2>1 DEF Place
  <1>. QED  BY <1>2, <1>3, <1>4, <1>5, <1>6 DEF StrictOrder

\* The sort: a permutation of the scores in which no score comes after one
\* it ranks before.
LEMMA SortedIs ==
    ASSUME Complete
    PROVE  /\ DOMAIN Sorted(scored) = 1 .. Len(listed) /\ Len(Sorted(scored)) = Len(listed)
           /\ \A k \in 1 .. Len(listed) : \E i \in 1 .. Len(listed) : Sorted(scored)[k] = ScoreOf(i)
           /\ \A i \in 1 .. Len(listed) : \E k \in 1 .. Len(listed) : Sorted(scored)[k] = ScoreOf(i)
           /\ \A k, l \in 1 .. Len(listed) : k < l => Ranks(Sorted(scored)[k], Sorted(scored)[l])
  <1>. DEFINE N == 1 .. Len(listed)
              P(i) == Cardinality(Preceding(Earlier, Len(listed), i)) + 1
              At(k) == CHOOSE i \in N : P(i) = k
              T == Sorted(scored)
  <1>1. Len(listed) \in Nat
    BY CandidatesAre DEF Complete
  <1>2. StrictOrder(Earlier, Len(listed))
    BY EarlierIsOrder
  <1>3. /\ \A i \in N : P(i) \in N
        /\ \A k \in N : \E i \in N : P(i) = k
        /\ \A i, j \in N : P(i) = P(j) => i = j
    <2>1. /\ \A i \in N : P(i) \in N
          /\ \A k \in N : \E i \in N : P(i) = k
          /\ \A i, j \in N : Cardinality(Preceding(Earlier, Len(listed), i))
                               = Cardinality(Preceding(Earlier, Len(listed), j)) => i = j
      BY <1>1, <1>2, PlacesAreOnto
    <2>2. \A i \in N : Cardinality(Preceding(Earlier, Len(listed), i)) \in Nat
      <3>. TAKE i \in N
      <3>1. Preceding(Earlier, Len(listed), i) \subseteq N /\ IsFiniteSet(N)
        BY FS_Interval DEF Preceding
      <3>2. IsFiniteSet(Preceding(Earlier, Len(listed), i))
        BY <3>1, FS_Subset
      <3>. QED  BY <3>2, FS_CardinalityType
    <2>3. \A i, j \in N : P(i) = P(j) => Cardinality(Preceding(Earlier, Len(listed), i))
                                         = Cardinality(Preceding(Earlier, Len(listed), j))
      BY <2>2
    <2>. QED
      <3>. HIDE DEF P
      <3>1. \A i, j \in N : P(i) = P(j) => i = j
        BY <2>1, <2>3
      <3>2. \A i \in N : P(i) \in N
        BY <2>1 DEF P
      <3>3. \A k \in N : \E i \in N : P(i) = k
        BY <2>1 DEF P
      <3>. QED  BY <3>1, <3>2, <3>3
  <1>4. \A i \in N : Place(scored, i) = P(i)
    BY EarlierIsOrder
  <1>5. \A k \in N : At(k) \in N /\ P(At(k)) = k
    BY <1>3
  <1>6. \A i \in N : At(P(i)) = i
    BY <1>3, <1>5
  <1>7. DOMAIN scored = N /\ \A i \in N : scored[i] = ScoreOf(i)
    BY ScoresAre
  <1>8. DOMAIN T = N /\ \A k \in N : T[k] = ScoreOf(At(k))
    <2>1. T = [k \in N |-> scored[CHOOSE i \in N : Place(scored, i) = k]]
      BY <1>7 DEF Sorted
    <2>2. \A k \in N : (CHOOSE i \in N : Place(scored, i) = k) = At(k)
      BY <1>4
    <2>. HIDE DEF P, At, T
    <2>3. DOMAIN T = N /\ \A k \in N : T[k] = scored[At(k)]
      BY <2>1, <2>2
    <2>. QED  BY <1>5, <1>7, <2>3
  <1>9. Len(T) = Len(listed)
    BY <1>1, <1>8
  <1>10. ASSUME NEW k \in N, NEW l \in N, k < l PROVE Ranks(T[k], T[l])
    <2>. DEFINE i == At(k)
                j == At(l)
    <2>1. i \in N /\ j \in N /\ P(i) = k /\ P(j) = l
      BY <1>5
    <2>2. i # j
      BY <1>10, <1>1, <2>1
    <2>3. <<i, j>> \in Earlier \/ <<j, i>> \in Earlier
      BY <1>2, <2>1, <2>2 DEF StrictOrder
    <2>4. ~(<<j, i>> \in Earlier)
      <3>1. SUFFICES ASSUME <<j, i>> \in Earlier PROVE FALSE
        OBVIOUS
      <3>. HIDE DEF i, j
      <3>2. Cardinality(Preceding(Earlier, Len(listed), j)) < Cardinality(Preceding(Earlier, Len(listed), i))
        BY <1>1, <1>2, <2>1, <3>1, PlacesAscend
      <3>3. /\ Cardinality(Preceding(Earlier, Len(listed), i)) + 1 = k
            /\ Cardinality(Preceding(Earlier, Len(listed), j)) + 1 = l
        BY <2>1
      <3>4. Cardinality(Preceding(Earlier, Len(listed), i)) \in Nat /\ Cardinality(Preceding(Earlier, Len(listed), j)) \in Nat
        <4>1. IsFiniteSet(N) /\ Preceding(Earlier, Len(listed), i) \subseteq N
              /\ Preceding(Earlier, Len(listed), j) \subseteq N
          BY FS_Interval DEF Preceding
        <4>. QED  BY <4>1, FS_Subset, FS_CardinalityType
      <3>. QED  BY <1>1, <1>10, <3>2, <3>3, <3>4
    <2>5. Ranks(ScoreOf(i), ScoreOf(j))
      <3>. HIDE DEF i, j
      <3>. QED  BY <2>1, <2>3, <2>4, EarlierIsOrder
    <2>. QED  BY <1>8, <2>5
  <1>11. \A k \in N : \E i \in N : T[k] = ScoreOf(i)
    BY <1>5, <1>8
  <1>12. \A i \in N : \E k \in N : T[k] = ScoreOf(i)
    BY <1>3, <1>6, <1>8
  <1>. QED  BY <1>8, <1>9, <1>10, <1>11, <1>12

-----------------------------------------------------------------------------
(* The decision.                                                           *)

LEMMA VerdictsOf ==
    ASSUME Complete, NEW i \in 1 .. Len(listed)
    PROVE  /\ Duplicate(ScoreOf(i)) <=> IsDuplicate(input, ById(order[i]))
           /\ Reversal(ScoreOf(i)) <=> IsReversal(input, ById(order[i]))
           /\ AutoLinked(ScoreOf(i)) <=> IsAutoRelated(input, ById(order[i]))
  <1>1. ById(order[i]) = listed[i]
    BY CandidatesAre DEF Complete
  <1>2. /\ ScoreOf(i).matching = Matching(input, listed[i])
        /\ ScoreOf(i).inOrder = (Matching(input, listed[i]) /\ InOrder(input, listed[i]))
        /\ ScoreOf(i).content = listed[i]
    BY DEF ScoreOf
  <1>3. Duplicate(ScoreOf(i)) <=> IsDuplicate(input, listed[i])
    BY <1>2 DEF Duplicate, IsDuplicate, Complete
  <1>4. Reversal(ScoreOf(i)) <=> IsReversal(input, listed[i])
    BY <1>2 DEF Reversal, IsReversal, Complete
  <1>5. AutoLinked(ScoreOf(i)) <=> IsAutoRelated(input, listed[i])
    BY <1>2, <1>4 DEF AutoLinked, IsAutoRelated, Complete
  <1>. QED  BY <1>1, <1>3, <1>4, <1>5

Duplicates == {i \in Ids : IsDuplicate(input, ById(i))}

Preferred(i, j) ==
    \/ Closer(input, ById(i), ById(j))
    \/ AsClose(input, ById(i), ById(j)) /\ i <= j

\* Required names the duplicate that is preferred to every other.
LEMMA RequiredIs ==
    /\ Duplicates # {} =>
         Required = [kind |-> "noop",
                     existing |-> CHOOSE i \in Duplicates : \A j \in Duplicates : Preferred(i, j)]
    /\ Duplicates = {} =>
         Required = [kind |-> "add",
                     refuted |-> {i \in Ids : IsReversal(input, ById(i))},
                     auto |-> {i \in Ids : IsAutoRelated(input, ById(i))}]
  BY DEF Required, Duplicates, Preferred

LEMMA OnePreferred ==
    ASSUME Asked, Substantial(input), NEW i \in Duplicates,
           \A j \in Duplicates : Preferred(i, j)
    PROVE  (CHOOSE k \in Duplicates : \A j \in Duplicates : Preferred(k, j)) = i
  <1>1. ASSUME NEW k \in Duplicates, \A j \in Duplicates : Preferred(k, j)
        PROVE  k = i
    <2>1. Preferred(i, k) /\ Preferred(k, i)
      BY <1>1
    <2>2. i \in Nat /\ k \in Nat /\ Worded(ById(i)) /\ Worded(ById(k))
      BY CandidatesAre DEF Duplicates
    <2>3. /\ Closer(input, ById(i), ById(k)) => ~Closer(input, ById(k), ById(i)) /\ ~AsClose(input, ById(i), ById(k))
          /\ AsClose(input, ById(i), ById(k)) <=> AsClose(input, ById(k), ById(i))
      BY <2>2, CloserIsOrder
    <2>4. Closer(input, ById(k), ById(i)) => ~AsClose(input, ById(k), ById(i))
      BY <2>2, CloserIsOrder
    <2>. QED  BY <2>1, <2>2, <2>3, <2>4 DEF Preferred
  <1>. QED  BY <1>1

FirstOf(s) == SelectInSeq(s, Duplicate)

LEMMA FirstOfIs ==
    ASSUME NEW s, Len(s) \in Nat
    PROVE  /\ FirstOf(s) > 0 =>
                /\ FirstOf(s) \in 1 .. Len(s) /\ Duplicate(s[FirstOf(s)])
                /\ \A k \in 1 .. Len(s) : Duplicate(s[k]) => FirstOf(s) <= k
           /\ ~(FirstOf(s) > 0) => \A k \in 1 .. Len(s) : ~Duplicate(s[k])
  <1>. DEFINE I == {i \in 1 .. Len(s) : Duplicate(s[i])}
  <1>1. FirstOf(s) = IF I # {} THEN Min(I) ELSE 0
    BY DEF FirstOf, SelectInSeq
  <1>2. CASE I = {}
    BY <1>1, <1>2
  <1>3. CASE I # {}
    <2>1. I \in SUBSET Nat
      OBVIOUS
    <2>. HIDE DEF I
    <2>2. \E m \in I : \A n \in I : m <= n
      BY <1>3, <2>1, LeastNumber
    <2>3. Min(I) \in I /\ \A n \in I : Min(I) <= n
      BY <2>2 DEF Min
    <2>4. FirstOf(s) = Min(I)
      BY <1>1, <1>3
    <2>. QED  BY <2>3, <2>4 DEF I
  <1>. QED  BY <1>2, <1>3

Verdict ==
    LET sorted == Sorted(scored)
        first == SelectInSeq(sorted, Duplicate)
    IN  IF first > 0
        THEN [kind |-> "noop", existing |-> sorted[first].id]
        ELSE [kind |-> "add",
              refuted |-> {s.id : s \in {t \in ToSet(sorted) : Reversal(t)}},
              auto |-> {s.id : s \in {t \in ToSet(sorted) : AutoLinked(t)}}]

\* What the code picks from the sorted scores is what is required.
LEMMA VerdictIsRequired ==
    ASSUME Complete
    PROVE  Verdict = Required
  <1>. DEFINE N == 1 .. Len(listed)
              T == Sorted(scored)
              f == FirstOf(T)
  <1>1. /\ Len(T) = Len(listed) /\ Len(T) \in Nat /\ DOMAIN T = N
        /\ \A k \in N : \E i \in N : T[k] = ScoreOf(i)
        /\ \A i \in N : \E k \in N : T[k] = ScoreOf(i)
        /\ \A k, l \in N : k < l => Ranks(T[k], T[l])
    BY SortedIs, CandidatesAre DEF Complete
  <1>2. Verdict = IF f > 0
                  THEN [kind |-> "noop", existing |-> T[f].id]
                  ELSE [kind |-> "add",
                        refuted |-> {s.id : s \in {t \in ToSet(T) : Reversal(t)}},
                        auto |-> {s.id : s \in {t \in ToSet(T) : AutoLinked(t)}}]
    BY DEF Verdict, FirstOf
  <1>3. \A i \in N : ScoreOf(i).id = order[i] /\ ScoreOf(i).content = ById(order[i]) /\ IsScore(ScoreOf(i))
    BY ScoresAre, CandidatesAre DEF Complete
  <1>4. \A i \in N : order[i] \in Ids
    BY CandidatesAre DEF Complete
  <1>5. \A v \in Ids : \E i \in N : order[i] = v
    BY CandidatesAre DEF Complete
  <1>. HIDE DEF T, f
  <1>6. CASE f > 0
    <2>1. f \in N /\ Duplicate(T[f]) /\ \A k \in N : Duplicate(T[k]) => f <= k
      BY <1>1, <1>6, FirstOfIs DEF f
    <2>2. PICK i \in N : T[f] = ScoreOf(i)
      BY <1>1, <2>1
    <2>3. order[i] \in Duplicates /\ T[f].id = order[i]
      BY <1>3, <1>4, <2>1, <2>2, VerdictsOf DEF Duplicates
    <2>4. ASSUME NEW v \in Duplicates PROVE Preferred(order[i], v)
      <3>1. PICK j \in N : order[j] = v
        BY <1>5 DEF Duplicates
      <3>2. Duplicate(ScoreOf(j))
        BY <3>1, VerdictsOf DEF Duplicates
      <3>3. PICK k \in N : T[k] = ScoreOf(j)
        BY <1>1
      <3>4. f <= k
        BY <2>1, <3>2, <3>3
      <3>5. order[i] \in Nat /\ order[j] \in Nat /\ Worded(ById(order[i]))
        BY <1>3 DEF IsScore
      <3>6. CASE f = k
        <4>1. order[j] = order[i]
          BY <1>3, <2>2, <3>3, <3>6
        <4>2. AsClose(input, ById(order[i]), ById(order[i]))
          BY <3>5, CloserIsOrder DEF Complete
        <4>3. order[i] <= order[i]
          BY <3>5
        <4>. QED  BY <3>1, <4>1, <4>2, <4>3 DEF Preferred
      <3>7. CASE f # k
        <4>1. f < k
          BY <1>1, <2>1, <3>4, <3>7
        <4>2. Ranks(ScoreOf(i), ScoreOf(j))
          BY <1>1, <2>1, <2>2, <3>3, <4>1
        <4>3. \/ Closer(input, ById(order[i]), ById(order[j]))
              \/ AsClose(input, ById(order[i]), ById(order[j])) /\ order[i] < order[j]
          BY <1>3, <4>2 DEF Ranks
        <4>. QED  BY <3>1, <3>5, <4>3 DEF Preferred
      <3>. QED  BY <3>6, <3>7
    <2>5. (CHOOSE k \in Duplicates : \A j \in Duplicates : Preferred(k, j)) = order[i]
      BY <2>3, <2>4, OnePreferred DEF Complete
    <2>6. Required = [kind |-> "noop", existing |-> order[i]]
      BY <2>3, <2>5, RequiredIs
    <2>. QED  BY <1>2, <1>6, <2>3, <2>6
  <1>7. CASE ~(f > 0)
    <2>1. \A k \in N : ~Duplicate(T[k])
      BY <1>1, <1>7, FirstOfIs DEF f
    <2>2. Duplicates = {}
      <3>1. SUFFICES ASSUME NEW v \in Duplicates PROVE FALSE
        OBVIOUS
      <3>2. PICK i \in N : order[i] = v
        BY <1>5 DEF Duplicates
      <3>3. Duplicate(ScoreOf(i))
        BY <3>2, VerdictsOf DEF Duplicates
      <3>. QED  BY <1>1, <2>1, <3>3
    <2>3. ToSet(T) = {ScoreOf(i) : i \in N}
      BY <1>1 DEF ToSet
    <2>4. {s.id : s \in {t \in ToSet(T) : Reversal(t)}} = {i \in Ids : IsReversal(input, ById(i))}
      <3>1. ASSUME NEW s \in ToSet(T), Reversal(s)
            PROVE  s.id \in Ids /\ IsReversal(input, ById(s.id))
        <4>1. PICK i \in N : s = ScoreOf(i)
          BY <2>3
        <4>. QED  BY <1>3, <1>4, <3>1, <4>1, VerdictsOf
      <3>2. ASSUME NEW v \in Ids, IsReversal(input, ById(v))
            PROVE  \E s \in ToSet(T) : Reversal(s) /\ s.id = v
        <4>1. PICK i \in N : order[i] = v
          BY <1>5
        <4>2. Reversal(ScoreOf(i)) /\ ScoreOf(i) \in ToSet(T) /\ ScoreOf(i).id = v
          BY <1>3, <2>3, <3>2, <4>1, VerdictsOf
        <4>. QED  BY <4>2
      <3>. QED  BY <3>1, <3>2
    <2>5. {s.id : s \in {t \in ToSet(T) : AutoLinked(t)}} = {i \in Ids : IsAutoRelated(input, ById(i))}
      <3>1. ASSUME NEW s \in ToSet(T), AutoLinked(s)
            PROVE  s.id \in Ids /\ IsAutoRelated(input, ById(s.id))
        <4>1. PICK i \in N : s = ScoreOf(i)
          BY <2>3
        <4>. QED  BY <1>3, <1>4, <3>1, <4>1, VerdictsOf
      <3>2. ASSUME NEW v \in Ids, IsAutoRelated(input, ById(v))
            PROVE  \E s \in ToSet(T) : AutoLinked(s) /\ s.id = v
        <4>1. PICK i \in N : order[i] = v
          BY <1>5
        <4>2. AutoLinked(ScoreOf(i)) /\ ScoreOf(i) \in ToSet(T) /\ ScoreOf(i).id = v
          BY <1>3, <2>3, <3>2, <4>1, VerdictsOf
        <4>. QED  BY <4>2
      <3>. QED  BY <3>1, <3>2
    <2>. QED  BY <1>2, <1>7, <2>2, <2>4, <2>5, RequiredIs
  <1>. QED  BY <1>6, <1>7

-----------------------------------------------------------------------------
(* The inductive invariant.                                                *)

LEMMA RequiredKept ==
    ASSUME UNCHANGED <<input, listed, order>>
    PROVE  /\ Required' = Required /\ Asked' = Asked
           /\ \A k : ScoreOf(k)' = ScoreOf(k)
  <1>1. Required' = Required
    BY DEF Required, ById, Ids
  <1>2. Asked' = Asked
    BY DEF Asked
  <1>3. \A k : ScoreOf(k)' = ScoreOf(k)
    BY DEF ScoreOf
  <1>. QED  BY <1>1, <1>2, <1>3

\* How far the scores have come.
Scoring(n) == scored = [k \in 1 .. n |-> ScoreOf(k)]

LEMMA IInvIs ==
    IInv <=> /\ Asked
             /\ \E n \in 0 .. Len(listed) : Scoring(n)
             /\ RowSound /\ DecisionIsRequired
  BY DEF IInv, Asked, Scoring

LEMMA ScoringIs ==
    ASSUME NEW n \in Nat, Scoring(n)
    PROVE  /\ Len(scored) = n
           /\ \A s : s = ScoreOf(n + 1) =>
                Append(scored, s) = [k \in 1 .. n + 1 |-> ScoreOf(k)]
  <1>1. scored \in Seq({ScoreOf(k) : k \in 1 .. n}) /\ Len(scored) = n
    BY DEF Scoring
  <1>2. ASSUME NEW s, s = ScoreOf(n + 1)
        PROVE  Append(scored, s) = [k \in 1 .. n + 1 |-> ScoreOf(k)]
    <2>. DEFINE T == Append(scored, s)
                U == [k \in 1 .. n + 1 |-> ScoreOf(k)]
    <2>0. T = [k \in 1 .. n + 1 |-> IF k <= n THEN scored[k] ELSE s]
      <3>1. T \in Seq({ScoreOf(k) : k \in 1 .. n} \cup {s}) /\ Len(T) = n + 1
        BY <1>1
      <3>2. \A k \in 1 .. n + 1 : T[k] = IF k <= n THEN scored[k] ELSE s
        BY <1>1
      <3>3. T \in [1 .. n + 1 -> {ScoreOf(k) : k \in 1 .. n} \cup {s}]
        <4>. HIDE DEF T
        <4>. QED  BY <3>1
      <3>. QED  BY <3>2, <3>3
    <2>1. ASSUME NEW k \in 1 .. n + 1 PROVE (IF k <= n THEN scored[k] ELSE s) = ScoreOf(k)
      <3>1. CASE k <= n
        <4>1. k \in 1 .. n
          BY <3>1
        <4>2. scored[k] = ScoreOf(k)
          BY <4>1 DEF Scoring
        <4>. QED  BY <3>1, <4>2
      <3>2. CASE ~(k <= n)
        <4>1. k = n + 1
          BY <3>2
        <4>. QED  BY <1>2, <3>2, <4>1
      <3>. QED  BY <3>1, <3>2
    <2>. QED  BY <2>0, <2>1
  <1>. QED  BY <1>1, <1>2

LEMMA InitIInv == Init => IInv
  <1>. SUFFICES ASSUME Init PROVE IInv
    OBVIOUS
  <1>1. Asked /\ Len(listed) \in Nat
    BY ListsAre DEF Init, Asked
  <1>2. Scoring(0) /\ 0 \in 0 .. Len(listed)
    <2>1. scored = <<>> /\ [k \in 1 .. 0 |-> ScoreOf(k)] = <<>>
      BY DEF Init
    <2>. QED  BY <1>1, <2>1 DEF Scoring
  <1>3. RowSound /\ DecisionIsRequired
    BY DEF Init, RowSound, DecisionIsRequired
  <1>. QED  BY <1>1, <1>2, <1>3, IInvIs

LEMMA DeclineKeeps ==
    ASSUME IInv, Decline
    PROVE  IInv'
  <1>1. UNCHANGED <<input, listed, order, row, rows, scored>> /\ ~Substantial(input) /\ decision = Undecided
    BY DEF Decline
  <1>2. decision' = Required
    <2>1. \A i \in Ids : /\ ~IsDuplicate(input, ById(i)) /\ ~IsReversal(input, ById(i))
                         /\ ~IsAutoRelated(input, ById(i))
      BY <1>1 DEF IsDuplicate, IsReversal, IsAutoRelated
    <2>2. Duplicates = {}
      BY <2>1 DEF Duplicates
    <2>3. Required = [kind |-> "add", refuted |-> {}, auto |-> {}]
      BY <2>1, <2>2, RequiredIs
    <2>. QED  BY <2>3 DEF Decline
  <1>3. row' = NoRow
    BY <1>1, IInvIs DEF RowSound
  <1>4. RowSound' /\ DecisionIsRequired'
    BY <1>1, <1>2, <1>3, RequiredKept DEF RowSound, DecisionIsRequired
  <1>5. Asked' /\ (\E n \in 0 .. Len(listed) : Scoring(n))'
    BY <1>1, IInvIs, RequiredKept DEF Scoring
  <1>. QED  BY <1>4, <1>5, IInvIs, PTL

\* A score is added.
LEMMA AddScoreKeeps ==
    ASSUME IInv, UNCHANGED <<input, listed, order, decision>>, row' = NoRow,
           decision = Undecided, Len(scored) < Len(listed),
           scored' = Append(scored, ScoreOf(Len(scored) + 1))
    PROVE  IInv'
  <1>1. Asked /\ Len(listed) \in Nat
    BY IInvIs, CandidatesAre
  <1>2. (\E n \in 0 .. Len(listed) : Scoring(n))'
    <2>1. PICK m \in 0 .. Len(listed) : Scoring(m)
      BY IInvIs
    <2>2. m \in Nat /\ m + 1 \in 0 .. Len(listed) /\ Len(scored) = m
      BY <1>1, <2>1, ScoringIs
    <2>3. scored' = [k \in 1 .. m + 1 |-> ScoreOf(k)]
      BY <2>1, <2>2, ScoringIs
    <2>4. \A k : ScoreOf(k)' = ScoreOf(k)
      BY RequiredKept
    <2>. QED  BY <2>2, <2>3, <2>4 DEF Scoring
  <1>3. Asked'
    BY <1>1, RequiredKept
  <1>4. RowSound' /\ DecisionIsRequired'
    BY DEF RowSound, DecisionIsRequired
  <1>. QED  BY <1>2, <1>3, <1>4, IInvIs, PTL

LEMMA CurrentIs ==
    ASSUME Asked, Len(scored) \in Nat, Len(scored) < Len(listed)
    PROVE  /\ Worded(input) /\ Worded(Current) /\ Current = listed[Len(scored) + 1]
           /\ Len(input.words) \in Nat /\ Len(Current.words) \in Nat
  <1>1. Len(scored) + 1 \in 1 .. Len(listed)
    BY CandidatesAre
  <1>2. Worded(input) /\ Worded(Current)
    BY <1>1, CandidatesAre DEF Current
  <1>. QED  BY <1>2, TokensAreFinite DEF Current

LEMMA ScorePlainKeeps ==
    ASSUME IInv, ScorePlain
    PROVE  IInv'
  <1>1. Score(Current, FALSE, FALSE) = ScoreOf(Len(scored) + 1)
    BY DEF ScorePlain, Score, ScoreOf, Current, Matching, JaccardAtLeast
  <1>. QED  BY <1>1, AddScoreKeeps DEF ScorePlain, Deciding

\* Steps that leave the scores and the decision as they are.
LEMMA RowStepKeeps ==
    ASSUME IInv, UNCHANGED <<input, listed, order, scored, decision>>, RowSound'
    PROVE  IInv'
  <1>1. Asked' /\ DecisionIsRequired'
    BY IInvIs, RequiredKept DEF DecisionIsRequired
  <1>2. (\E n \in 0 .. Len(listed) : Scoring(n))'
    BY IInvIs, RequiredKept DEF Scoring
  <1>. QED  BY <1>1, <1>2, IInvIs, PTL

LEMMA StartRowsKeeps ==
    ASSUME IInv, StartRows
    PROVE  IInv'
  <1>1. /\ UNCHANGED <<input, listed, order, scored, decision>>
        /\ decision = Undecided /\ Substantial(input)
        /\ Len(scored) < Len(listed) /\ Matching(input, Current)
        /\ row' = FirstRow(Current.words) /\ rows' = 0
    BY DEF StartRows, Deciding
  <1>2. Asked /\ Len(scored) \in Nat
    <2>1. Asked /\ Len(listed) \in Nat
      BY IInvIs, CandidatesAre
    <2>2. PICK n \in 0 .. Len(listed) : Scoring(n)
      BY IInvIs
    <2>. QED  BY <2>1, <2>2, ScoringIs
  <1>3. Len(input.words) \in Nat
    BY <1>1, <1>2, CurrentIs
  <1>4. row' = RowsOf(input.words, Current.words)[0] /\ 0 \in 0 .. Len(input.words)
    BY <1>1, <1>3, RowsOfSteps
  <1>5. Current' = Current
    BY <1>1 DEF Current
  <1>6. RowSound'
    BY <1>1, <1>4, <1>5 DEF RowSound
  <1>. QED  BY <1>1, <1>6, RowStepKeeps

LEMMA AddRowKeeps ==
    ASSUME IInv, AddRow
    PROVE  IInv'
  <1>1. /\ UNCHANGED <<input, listed, order, scored, decision>>
        /\ row # NoRow /\ rows < Len(input.words)
        /\ row' = NextRow(row, input.words[rows + 1], Current.words)
        /\ rows' = rows + 1
    BY DEF AddRow
  <1>2. /\ decision = Undecided /\ Substantial(input)
        /\ Len(scored) < Len(listed) /\ Matching(input, Current)
        /\ rows \in 0 .. Len(input.words)
        /\ row = RowsOf(input.words, Current.words)[rows]
    BY <1>1, IInvIs DEF RowSound
  <1>3. Asked /\ Len(scored) \in Nat
    <2>1. Asked /\ Len(listed) \in Nat
      BY IInvIs, CandidatesAre
    <2>2. PICK n \in 0 .. Len(listed) : Scoring(n)
      BY IInvIs
    <2>. QED  BY <2>1, <2>2, ScoringIs
  <1>4. Len(input.words) \in Nat
    BY <1>2, <1>3, CurrentIs
  <1>5. rows + 1 \in 1 .. Len(input.words) /\ rows + 1 \in 0 .. Len(input.words) /\ (rows + 1) - 1 = rows
    BY <1>1, <1>2, <1>4
  <1>6. RowsOf(input.words, Current.words)[rows + 1]
          = NextRow(RowsOf(input.words, Current.words)[(rows + 1) - 1], input.words[rows + 1], Current.words)
    BY <1>4, <1>5, RowsOfSteps
  <1>7. row' = RowsOf(input.words, Current.words)[rows']
    BY <1>1, <1>2, <1>5, <1>6
  <1>8. Current' = Current
    BY <1>1 DEF Current
  <1>9. RowSound'
    BY <1>1, <1>2, <1>5, <1>7, <1>8 DEF RowSound
  <1>. QED  BY <1>1, <1>9, RowStepKeeps

LEMMA ScoreOrderedKeeps ==
    ASSUME IInv, ScoreOrdered
    PROVE  IInv'
  <1>. DEFINE longest == Max({Len(input.words), Len(Current.words)})
              distance == row[Len(Current.words) + 1]
              inOrder == 100 * (longest - distance) >= OrderedPercent * longest
  <1>1. /\ UNCHANGED <<input, listed, order, decision>>
        /\ row # NoRow /\ rows = Len(input.words) /\ row' = NoRow
        /\ scored' = Append(scored, Score(Current, TRUE, inOrder))
    BY DEF ScoreOrdered
  <1>2. /\ decision = Undecided /\ Substantial(input)
        /\ Len(scored) < Len(listed) /\ Matching(input, Current)
        /\ row = RowsOf(input.words, Current.words)[rows]
    BY <1>1, IInvIs DEF RowSound
  <1>3. Asked /\ Len(scored) \in Nat
    <2>1. Asked /\ Len(listed) \in Nat
      BY IInvIs, CandidatesAre
    <2>2. PICK n \in 0 .. Len(listed) : Scoring(n)
      BY IInvIs
    <2>. QED  BY <2>1, <2>2, ScoringIs
  <1>4. distance = EditDistance(input.words, Current.words)
    BY <1>1, <1>2 DEF EditDistance
  <1>5. input.words # <<>> /\ Current.words # <<>>
    BY <1>2, <1>3, CurrentIs, MatchingHasWords
  <1>6. InOrder(input, Current) <=> inOrder
    <2>1. InOrder(input, Current) <=>
            100 * (longest - EditDistance(input.words, Current.words)) >= OrderedPercent * longest
      BY <1>5 DEF InOrder
    <2>. QED  BY <1>4, <2>1
  <1>7. Score(Current, TRUE, inOrder) = ScoreOf(Len(scored) + 1)
    <2>1. Matching(input, listed[Len(scored) + 1]) = TRUE /\ Current = listed[Len(scored) + 1]
      BY <1>2 DEF Current, Matching, JaccardAtLeast
    <2>2. inOrder = (Matching(input, listed[Len(scored) + 1]) /\ InOrder(input, listed[Len(scored) + 1]))
      BY <1>6, <2>1 DEF InOrder
    <2>. HIDE DEF inOrder
    <2>. QED  BY <2>1, <2>2 DEF Score, ScoreOf
  <1>. QED  BY <1>1, <1>2, <1>7, AddScoreKeeps

LEMMA DecideKeeps ==
    ASSUME IInv, Decide
    PROVE  IInv'
  <1>1. /\ UNCHANGED <<input, listed, order, row, rows, scored>>
        /\ decision = Undecided /\ Substantial(input) /\ row = NoRow
        /\ Len(scored) = Len(listed) /\ decision' = Verdict
    BY DEF Decide, Deciding, Verdict
  <1>2. Complete
    <2>1. Asked /\ Len(listed) \in Nat
      BY IInvIs, CandidatesAre
    <2>2. PICK n \in 0 .. Len(listed) : Scoring(n)
      BY IInvIs
    <2>3. n = Len(listed)
      BY <1>1, <2>1, <2>2, ScoringIs
    <2>. QED  BY <1>1, <2>1, <2>2, <2>3 DEF Complete, Scoring
  <1>3. decision' = Required'
    BY <1>1, <1>2, VerdictIsRequired, RequiredKept
  <1>4. RowSound' /\ DecisionIsRequired'
    BY <1>1, <1>3 DEF RowSound, DecisionIsRequired
  <1>5. Asked' /\ (\E n \in 0 .. Len(listed) : Scoring(n))'
    BY <1>1, IInvIs, RequiredKept DEF Scoring
  <1>. QED  BY <1>4, <1>5, IInvIs, PTL

LEMMA StutterKeeps ==
    ASSUME IInv, UNCHANGED vars
    PROVE  IInv'
  <1>1. Current' = Current
    BY DEF vars, Current
  <1>2. RowSound'
    BY <1>1, IInvIs DEF vars, RowSound
  <1>. QED  BY <1>2, RowStepKeeps DEF vars

-----------------------------------------------------------------------------
(* The theorems.                                                           *)

\* The code's progress through reconcile is always the one its loops mean:
\* the scores made so far are those of the first candidates, the current row
\* is the row of the words read so far, and a decision is the required one.
THEOREM DecisionInvariant == Spec => []IInv
  <1>1. Init => IInv
    BY InitIInv
  <1>2. IInv /\ [Next]_vars => IInv'
    BY DeclineKeeps, ScorePlainKeeps, StartRowsKeeps, AddRowKeeps, ScoreOrderedKeeps,
       DecideKeeps, StutterKeeps DEF Next
  <1>. QED  BY <1>1, <1>2, PTL DEF Spec

\* For every input, list of candidates and rank order: what reconcile
\* (reconcile.rs) decides depends on the set of candidates only.
THEOREM DecisionIsRequiredHolds == Spec => []DecisionIsRequired
  <1>1. IInv => DecisionIsRequired
    BY IInvIs
  <1>. QED  BY <1>1, DecisionInvariant, PTL

\* For words of any length: every row levenshtein (reconcile.rs) holds are
\* the distances from a prefix of the input to the prefixes of the candidate.
THEOREM RowIsDistanceHolds == Spec => []RowIsDistance
  <1>1. ASSUME IInv, row # NoRow
        PROVE  LET d == Distance(input.words, Current.words)
               IN  \A j \in 0 .. Len(Current.words) : row[j + 1] = d[<<rows, j>>]
    <2>1. /\ Len(scored) < Len(listed) /\ rows \in 0 .. Len(input.words)
          /\ row = RowsOf(input.words, Current.words)[rows]
      BY <1>1, IInvIs DEF RowSound
    <2>2. Asked /\ Len(scored) \in Nat
      <3>1. Asked /\ Len(listed) \in Nat
        BY <1>1, IInvIs, CandidatesAre
      <3>2. PICK n \in 0 .. Len(listed) : Scoring(n)
        BY <1>1, IInvIs
      <3>. QED  BY <3>1, <3>2, ScoringIs
    <2>3. Len(input.words) \in Nat /\ Len(Current.words) \in Nat
      BY <2>1, <2>2, CurrentIs
    <2>4. ASSUME NEW j \in 0 .. Len(Current.words)
          PROVE  row[j + 1] = Distance(input.words, Current.words)[<<rows, j>>]
      <3>1. RowsOf(input.words, Current.words)[rows][j + 1] = Distance(input.words, Current.words)[<<rows, j>>]
        BY <2>1, <2>3, RowsAreDistances
      <3>. QED  BY <2>1, <3>1
    <2>. QED  BY <2>4
  <1>2. IInv => RowIsDistance
    BY <1>1 DEF RowIsDistance
  <1>. QED  BY <1>2, DecisionInvariant, PTL

\* For all contents: a duplicate or a reversal is one whichever of the two
\* contents was captured first.
LEMMA PairsSymmetric ==
    ASSUME NEW c \in Contents, NEW d \in Contents
    PROVE  /\ <<c, d>> \in DuplicatePairs => <<d, c>> \in DuplicatePairs
           /\ <<c, d>> \in ReversalPairs => <<d, c>> \in ReversalPairs
  <1>1. Worded(c) /\ Worded(d)
    BY DecisionAssumption DEF Contents
  <1>2. (Matching(c, d) <=> Matching(d, c)) /\ (InOrder(c, d) <=> InOrder(d, c))
    BY <1>1, MatchingSymmetric, InOrderSymmetric
  <1>3. <<c, d>> \in Pairs /\ <<d, c>> \in Pairs
    BY DEF Pairs
  <1>. QED  BY <1>2, <1>3 DEF DuplicatePairs, ReversalPairs, IsDuplicate, IsReversal

\* For every input and list: a refuted candidate is not linked as related,
\* and no verdict depends on which content was captured first.
THEOREM VerdictsSymmetricHolds == Spec => []VerdictsSymmetric
  <1>1. ASSUME IInv PROVE VerdictsSymmetric
    <2>1. Asked /\ DecisionIsRequired
      BY <1>1, IInvIs
    <2>2. decision.kind = "add" => decision.refuted \cap decision.auto = {}
      <3>1. SUFFICES ASSUME decision.kind = "add" PROVE decision.refuted \cap decision.auto = {}
        OBVIOUS
      <3>2. decision # Undecided
        BY <3>1 DEF Undecided
      <3>3. decision = Required
        BY <2>1, <3>2 DEF DecisionIsRequired
      <3>4. Duplicates = {}
        BY <3>1, <3>3, RequiredIs
      <3>5. /\ decision.refuted = {i \in Ids : IsReversal(input, ById(i))}
            /\ decision.auto = {i \in Ids : IsAutoRelated(input, ById(i))}
        BY <3>3, <3>4, RequiredIs
      <3>. QED  BY <3>5 DEF IsAutoRelated
    <2>3. ASSUME NEW i \in Ids
          PROVE  /\ <<input, ById(i)>> \in DuplicatePairs <=> <<ById(i), input>> \in DuplicatePairs
                 /\ <<input, ById(i)>> \in ReversalPairs <=> <<ById(i), input>> \in ReversalPairs
      <3>1. PICK k \in 1 .. Len(listed) : order[k] = i
        BY <2>1, CandidatesAre
      <3>2. ById(i) = listed[k]
        BY <2>1, <3>1, CandidatesAre
      <3>3. input \in Contents /\ ById(i) \in Contents
        BY <2>1, <3>2, ListsAre DEF Asked, Contents
      <3>. QED  BY <3>3, PairsSymmetric
    <2>. QED  BY <2>2, <2>3 DEF VerdictsSymmetric
  <1>. QED  BY <1>1, DecisionInvariant, PTL
=============================================================================
