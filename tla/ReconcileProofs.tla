--------------------------- MODULE ReconcileProofs ---------------------------
(***************************************************************************)
(* Proofs about Reconcile: the rows of levenshtein are edit distances, for *)
(* all inputs, and the verdicts do not depend on which of two contents was *)
(* captured first. Inductions go by a least counterexample.                *)
(***************************************************************************)
EXTENDS Reconcile, FiniteSetTheorems, NaturalsInduction, WellFoundedInduction, TLAPS

LEMMA LeastNumber ==
    ASSUME NEW T \in SUBSET Nat, T # {}
    PROVE  \E m \in T : \A n \in T : m <= n
  <1>1. PICK m \in T : \A n \in T : ~(<<n, m>> \in OpToRel(<, Nat))
    BY WFMin, NatLessThanWellFounded
  <1>2. \A n \in Nat : <<n, m>> \in OpToRel(<, Nat) <=> n < m
    BY DEF OpToRel
  <1>3. \A n \in T : ~(n < m)
    BY <1>1, <1>2
  <1>. QED  BY <1>3

LEMMA LeastOf3Is ==
    ASSUME NEW x \in Nat, NEW y \in Nat, NEW z \in Nat
    PROVE  /\ LeastOf3(x, y, z) \in {x, y, z}
           /\ LeastOf3(x, y, z) <= x /\ LeastOf3(x, y, z) <= y /\ LeastOf3(x, y, z) <= z
           /\ LeastOf3(x, y, z) \in Nat
  <1>. DEFINE S == {x, y, z}
  <1>1. \E m \in S : \A n \in S : m <= n
    <2>1. S \in SUBSET Nat /\ S # {}
      OBVIOUS
    <2>. HIDE DEF S
    <2>. QED  BY <2>1, LeastNumber
  <1>2. LeastOf3(x, y, z) = CHOOSE m \in S : \A n \in S : m <= n
    BY DEF LeastOf3, Min
  <1>3. LeastOf3(x, y, z) \in S /\ \A n \in S : LeastOf3(x, y, z) <= n
    BY <1>1, <1>2
  <1>. QED  BY <1>3

LEMMA MaxOfTwo ==
    ASSUME NEW x \in Nat, NEW y \in Nat
    PROVE  Max({x, y}) = IF x < y THEN y ELSE x
  <1>. DEFINE m == IF x < y THEN y ELSE x
  <1>1. m \in {x, y} /\ \A n \in {x, y} : m >= n
    OBVIOUS
  <1>2. \A k \in {x, y} : (\A n \in {x, y} : k >= n) => k = m
    OBVIOUS
  <1>3. Max({x, y}) = CHOOSE k \in {x, y} : \A n \in {x, y} : k >= n
    BY DEF Max
  <1>. QED  BY <1>1, <1>2, <1>3

-----------------------------------------------------------------------------
(* One row.                                                                *)

\* The body of NextRow's recursion.
Cell(left, j, prev, x, b) ==
    Append(left, LeastOf3(prev[j + 1] + 1, left[j] + 1, prev[j] + (IF x = b[j] THEN 0 ELSE 1)))

RowSteps(f, prev, x, b) ==
    /\ NextRow(prev, x, b) = f[Len(b)]
    /\ f[0] = <<prev[1] + 1>>
    /\ \A j \in 1 .. Len(b) : f[j] = Cell(f[j - 1], j, prev, x, b)

LEMMA NextRowSteps ==
    ASSUME NEW prev, NEW x, NEW b, Len(b) \in Nat
    PROVE  \E f : RowSteps(f, prev, x, b)
  <1>. DEFINE Follows(f, n) == f = [j \in 0 .. n |->
                   IF j = 0 THEN <<prev[1] + 1>> ELSE Cell(f[j - 1], j, prev, x, b)]
              bad == {n \in Nat : ~\E f : Follows(f, n)}
  <1>1. bad = {}
    <2>1. SUFFICES ASSUME bad # {} PROVE FALSE
      OBVIOUS
    <2>2. PICK k \in bad : \A n \in bad : k <= n
      <3>. HIDE DEF bad
      <3>1. bad \in SUBSET Nat
        BY DEF bad
      <3>. QED  BY <2>1, <3>1, LeastNumber
    <2>3. k \in Nat /\ ~\E f : Follows(f, k)
      OBVIOUS
    <2>4. CASE k = 0
      <3>. DEFINE f == [j \in 0 .. 0 |-> <<prev[1] + 1>>]
      <3>1. Follows(f, 0)
        OBVIOUS
      <3>. QED  BY <2>3, <2>4, <3>1
    <2>5. CASE k # 0
      <3>1. k - 1 \in Nat /\ k - 1 \notin bad
        <4>1. k - 1 \in Nat /\ ~(k <= k - 1)
          BY <2>3, <2>5
        <4>. HIDE DEF bad
        <4>. QED  BY <2>2, <4>1
      <3>2. PICK f : Follows(f, k - 1)
        BY <3>1
      <3>. DEFINE g == [j \in 0 .. k |->
                          IF j = k THEN Cell(f[k - 1], k, prev, x, b) ELSE f[j]]
      <3>3. \A j \in 0 .. (k - 1) :
              f[j] = IF j = 0 THEN <<prev[1] + 1>> ELSE Cell(f[j - 1], j, prev, x, b)
        BY <3>2
      <3>4. \A j \in 0 .. k :
              g[j] = IF j = 0 THEN <<prev[1] + 1>> ELSE Cell(g[j - 1], j, prev, x, b)
        <4>1. SUFFICES ASSUME NEW j \in 0 .. k
                       PROVE  g[j] = IF j = 0 THEN <<prev[1] + 1>>
                                     ELSE Cell(g[j - 1], j, prev, x, b)
          OBVIOUS
        <4>2. CASE j = k
          <5>1. g[j - 1] = f[k - 1] /\ g[j] = Cell(f[k - 1], k, prev, x, b)
            BY <2>3, <2>5, <4>2
          <5>. QED  BY <2>5, <4>2, <5>1
        <4>3. CASE j # k
          <5>1. j \in 0 .. (k - 1) /\ g[j] = f[j]
            BY <2>3, <4>3
          <5>2. j # 0 => g[j - 1] = f[j - 1]
            BY <2>3, <5>1
          <5>. QED  BY <3>3, <5>1, <5>2
        <4>. QED  BY <4>2, <4>3
      <3>5. Follows(g, k)
        <4>1. g = [j \in 0 .. k |-> g[j]]
          OBVIOUS
        <4>. HIDE DEF g
        <4>. QED  BY <3>4, <4>1
      <3>. QED  BY <2>3, <3>5
    <2>. QED  BY <2>4, <2>5
  <1>2. PICK f : Follows(f, Len(b))
    BY <1>1
  <1>3. NextRow(prev, x, b) = (CHOOSE h : Follows(h, Len(b)))[Len(b)]
    BY DEF NextRow, Cell
  <1>4. PICK h : h = CHOOSE e : Follows(e, Len(b))
    OBVIOUS
  <1>5. Follows(h, Len(b))
    BY <1>2, <1>4
  <1>6. \A j \in 0 .. Len(b) :
          h[j] = IF j = 0 THEN <<prev[1] + 1>> ELSE Cell(h[j - 1], j, prev, x, b)
    BY <1>5
  <1>7. 0 \in 0 .. Len(b) /\ \A j \in 1 .. Len(b) : j \in 0 .. Len(b) /\ j # 0
    OBVIOUS
  <1>8. h[0] = <<prev[1] + 1>>
    BY <1>6, <1>7
  <1>9. \A j \in 1 .. Len(b) : h[j] = Cell(h[j - 1], j, prev, x, b)
    <2>. HIDE DEF Follows
    <2>. QED  BY <1>6, <1>7
  <1>. QED  BY <1>3, <1>4, <1>8, <1>9 DEF RowSteps

\* A row of distances to the prefixes of b.
Row(b) == {r \in Seq(Nat) : Len(r) = Len(b) + 1}

\* The cells of the next row (the inner loop of levenshtein).
LEMMA NextRowCells ==
    ASSUME NEW b, Len(b) \in Nat, NEW prev \in Row(b), NEW x
    PROVE  LET row == NextRow(prev, x, b)
           IN  /\ row \in Row(b)
               /\ row[1] = prev[1] + 1
               /\ \A j \in 1 .. Len(b) :
                    row[j + 1] = LeastOf3(prev[j + 1] + 1, row[j] + 1,
                                          prev[j] + (IF x = b[j] THEN 0 ELSE 1))
  <1>0. PICK f : RowSteps(f, prev, x, b)
    BY NextRowSteps
  <1>1. /\ NextRow(prev, x, b) = f[Len(b)]
        /\ f[0] = <<prev[1] + 1>>
        /\ \A j \in 1 .. Len(b) : f[j] = Cell(f[j - 1], j, prev, x, b)
    BY <1>0 DEF RowSteps
  <1>. DEFINE Sound(n) ==
         /\ f[n] \in Seq(Nat) /\ Len(f[n]) = n + 1
         /\ f[n][1] = prev[1] + 1
         /\ \A j \in 1 .. n :
              f[n][j + 1] = LeastOf3(prev[j + 1] + 1, f[n][j] + 1,
                                     prev[j] + (IF x = b[j] THEN 0 ELSE 1))
              bad == {n \in 0 .. Len(b) : ~Sound(n)}
  <1>2. bad = {}
    <2>1. SUFFICES ASSUME bad # {} PROVE FALSE
      OBVIOUS
    <2>2. PICK k \in bad : \A n \in bad : k <= n
      <3>. HIDE DEF bad
      <3>1. bad \in SUBSET Nat
        BY DEF bad
      <3>. QED  BY <2>1, <3>1, LeastNumber
    <2>3. k \in 0 .. Len(b) /\ ~Sound(k)
      OBVIOUS
    <2>4. \A i \in 1 .. Len(b) + 1 : prev[i] \in Nat
      BY DEF Row
    <2>5. k # 0
      <3>1. prev[1] + 1 \in Nat
        BY <2>4
      <3>2. Sound(0)
        BY <1>1, <3>1
      <3>. QED  BY <2>3, <3>2
    <2>6. Sound(k - 1)
      <3>1. k - 1 \in 0 .. Len(b) /\ ~(k <= k - 1)
        BY <2>3, <2>5
      <3>2. k - 1 \notin bad
        <4>. HIDE DEF bad
        <4>. QED  BY <2>2, <3>1
      <3>. QED  BY <3>1, <3>2
    <2>. DEFINE left == f[k - 1]
                last == LeastOf3(prev[k + 1] + 1, left[k] + 1,
                                 prev[k] + (IF x = b[k] THEN 0 ELSE 1))
    <2>7. f[k] = Append(left, last)
      <3>1. k \in 1 .. Len(b)
        BY <2>3, <2>5
      <3>2. f[k] = Cell(f[k - 1], k, prev, x, b)
        BY <1>1, <3>1
      <3>. QED  BY <3>2 DEF Cell
    <2>8. last \in Nat
      <3>1. prev[k + 1] \in Nat /\ prev[k] \in Nat /\ left[k] \in Nat
        BY <2>3, <2>4, <2>5, <2>6
      <3>. HIDE DEF left
      <3>2. /\ prev[k + 1] + 1 \in Nat /\ left[k] + 1 \in Nat
            /\ prev[k] + (IF x = b[k] THEN 0 ELSE 1) \in Nat
        BY <3>1
      <3>. QED  BY <3>2, LeastOf3Is
    <2>9. left \in Seq(Nat) /\ Len(left) = k
      BY <2>3, <2>6
    <2>. HIDE DEF last
    <2>10. /\ f[k] \in Seq(Nat) /\ Len(f[k]) = k + 1
           /\ f[k][k + 1] = last
           /\ \A j \in 1 .. k : f[k][j] = left[j]
      <3>. HIDE DEF left
      <3>1. PICK w : w = f[k]
        OBVIOUS
      <3>2. w = Append(left, last)
        BY <2>7, <3>1
      <3>3. w \in Seq(Nat) /\ Len(w) = k + 1 /\ w[k + 1] = last /\ \A j \in 1 .. k : w[j] = left[j]
        BY <2>3, <2>8, <2>9, <3>2
      <3>. QED  BY <3>1, <3>3
    <2>11. f[k][1] = prev[1] + 1
      BY <2>3, <2>5, <2>6, <2>10
    <2>12. ASSUME NEW j \in 1 .. k
           PROVE  f[k][j + 1] = LeastOf3(prev[j + 1] + 1, f[k][j] + 1,
                                         prev[j] + (IF x = b[j] THEN 0 ELSE 1))
      <3>1. CASE j = k
        BY <2>10, <3>1 DEF last
      <3>2. CASE j # k
        <4>1. j \in 1 .. k - 1 /\ j \in 1 .. k /\ j + 1 \in 1 .. k
          BY <2>3, <3>2
        <4>. QED  BY <2>6, <2>10, <4>1
      <3>. QED  BY <3>1, <3>2
    <2>. QED  BY <2>3, <2>10, <2>11, <2>12
  <1>3. Sound(Len(b))
    BY <1>2
  <1>. QED  BY <1>1, <1>3 DEF Row

-----------------------------------------------------------------------------
(* All rows.                                                               *)

LEMMA RowsOfSteps ==
    ASSUME NEW a, Len(a) \in Nat, NEW b
    PROVE  /\ RowsOf(a, b)[0] = FirstRow(b)
           /\ \A n \in 1 .. Len(a) : RowsOf(a, b)[n] = NextRow(RowsOf(a, b)[n - 1], a[n], b)
  <1>. DEFINE Follows(f, n) == f = [m \in 0 .. n |->
                   IF m = 0 THEN FirstRow(b) ELSE NextRow(f[m - 1], a[m], b)]
              bad == {n \in Nat : ~\E f : Follows(f, n)}
  <1>1. bad = {}
    <2>1. SUFFICES ASSUME bad # {} PROVE FALSE
      OBVIOUS
    <2>2. PICK k \in bad : \A n \in bad : k <= n
      <3>. HIDE DEF bad
      <3>1. bad \in SUBSET Nat
        BY DEF bad
      <3>. QED  BY <2>1, <3>1, LeastNumber
    <2>3. k \in Nat /\ ~\E f : Follows(f, k)
      OBVIOUS
    <2>4. CASE k = 0
      <3>. DEFINE f == [m \in 0 .. 0 |-> FirstRow(b)]
      <3>1. Follows(f, 0)
        OBVIOUS
      <3>. QED  BY <2>3, <2>4, <3>1
    <2>5. CASE k # 0
      <3>1. k - 1 \in Nat /\ k - 1 \notin bad
        <4>1. k - 1 \in Nat /\ ~(k <= k - 1)
          BY <2>3, <2>5
        <4>. HIDE DEF bad
        <4>. QED  BY <2>2, <4>1
      <3>2. PICK f : Follows(f, k - 1)
        BY <3>1
      <3>. DEFINE g == [m \in 0 .. k |->
                          IF m = k THEN NextRow(f[k - 1], a[k], b) ELSE f[m]]
      <3>3. \A m \in 0 .. (k - 1) :
              f[m] = IF m = 0 THEN FirstRow(b) ELSE NextRow(f[m - 1], a[m], b)
        BY <3>2
      <3>4. \A m \in 0 .. k :
              g[m] = IF m = 0 THEN FirstRow(b) ELSE NextRow(g[m - 1], a[m], b)
        <4>1. SUFFICES ASSUME NEW m \in 0 .. k
                       PROVE  g[m] = IF m = 0 THEN FirstRow(b)
                                     ELSE NextRow(g[m - 1], a[m], b)
          OBVIOUS
        <4>2. CASE m = k
          <5>1. g[m - 1] = f[k - 1] /\ g[m] = NextRow(f[k - 1], a[k], b)
            BY <2>3, <2>5, <4>2
          <5>. QED  BY <2>5, <4>2, <5>1
        <4>3. CASE m # k
          <5>1. m \in 0 .. (k - 1) /\ g[m] = f[m]
            BY <2>3, <4>3
          <5>2. m # 0 => g[m - 1] = f[m - 1]
            BY <2>3, <5>1
          <5>. QED  BY <3>3, <5>1, <5>2
        <4>. QED  BY <4>2, <4>3
      <3>5. Follows(g, k)
        <4>1. g = [m \in 0 .. k |-> g[m]]
          OBVIOUS
        <4>. HIDE DEF g
        <4>. QED  BY <3>4, <4>1
      <3>. QED  BY <2>3, <3>5
    <2>. QED  BY <2>4, <2>5
  <1>2. PICK f : Follows(f, Len(a))
    BY <1>1
  <1>3. RowsOf(a, b) = CHOOSE h : Follows(h, Len(a))
    BY DEF RowsOf
  <1>4. PICK h : h = RowsOf(a, b)
    OBVIOUS
  <1>5. Follows(h, Len(a))
    BY <1>2, <1>3, <1>4
  <1>6. \A m \in 0 .. Len(a) :
          h[m] = IF m = 0 THEN FirstRow(b) ELSE NextRow(h[m - 1], a[m], b)
    BY <1>5
  <1>7. 0 \in 0 .. Len(a) /\ \A m \in 1 .. Len(a) : m \in 0 .. Len(a) /\ m # 0
    OBVIOUS
  <1>. HIDE DEF Follows
  <1>8. h[0] = FirstRow(b)
    BY <1>6, <1>7
  <1>9. \A m \in 1 .. Len(a) : h[m] = NextRow(h[m - 1], a[m], b)
    BY <1>6, <1>7
  <1>. QED  BY <1>4, <1>8, <1>9

LEMMA RowsAreRows ==
    ASSUME NEW a, Len(a) \in Nat, NEW b, Len(b) \in Nat
    PROVE  \A n \in 0 .. Len(a) : RowsOf(a, b)[n] \in Row(b)
  <1>. DEFINE bad == {n \in 0 .. Len(a) : RowsOf(a, b)[n] \notin Row(b)}
  <1>1. SUFFICES ASSUME bad # {} PROVE FALSE
    OBVIOUS
  <1>2. PICK k \in bad : \A n \in bad : k <= n
    <2>. HIDE DEF bad
    <2>1. bad \in SUBSET Nat
      BY DEF bad
    <2>. QED  BY <1>1, <2>1, LeastNumber
  <1>3. k \in 0 .. Len(a) /\ RowsOf(a, b)[k] \notin Row(b)
    OBVIOUS
  <1>4. CASE k = 0
    <2>1. FirstRow(b) \in Row(b)
      BY DEF FirstRow, Row
    <2>. QED  BY <1>3, <1>4, <2>1, RowsOfSteps
  <1>5. CASE k # 0
    <2>1. k - 1 \in 0 .. Len(a) /\ ~(k <= k - 1) /\ k \in 1 .. Len(a)
      BY <1>3, <1>5
    <2>2. k - 1 \notin bad
      <3>. HIDE DEF bad
      <3>. QED  BY <1>2, <2>1
    <2>3. RowsOf(a, b)[k - 1] \in Row(b)
      BY <2>1, <2>2
    <2>4. RowsOf(a, b)[k] = NextRow(RowsOf(a, b)[k - 1], a[k], b)
      BY <2>1, RowsOfSteps
    <2>. QED  BY <1>3, <2>3, <2>4, NextRowCells
  <1>. QED  BY <1>4, <1>5

-----------------------------------------------------------------------------
(* The rows are the table of the distances of all prefixes.                *)

PrefixPairs(a, b) == (0 .. Len(a)) \X (0 .. Len(b))

\* What the recurrence gives for one pair of prefixes.
Recurrence(d, a, b, p) ==
    IF p[1] = 0 THEN p[2]
    ELSE IF p[2] = 0 THEN p[1]
    ELSE LeastOf3(d[<<p[1] - 1, p[2]>>] + 1, d[<<p[1], p[2] - 1>>] + 1,
                  d[<<p[1] - 1, p[2] - 1>>] + (IF a[p[1]] = b[p[2]] THEN 0 ELSE 1))

IsTable(d, a, b) == d = [p \in PrefixPairs(a, b) |-> Recurrence(d, a, b, p)]

LEMMA TableIsUnique ==
    ASSUME NEW a, Len(a) \in Nat, NEW b, Len(b) \in Nat,
           NEW d, IsTable(d, a, b), NEW e, IsTable(e, a, b)
    PROVE  d = e
  <1>. DEFINE differ == {n \in Nat : \E p \in PrefixPairs(a, b) : p[1] + p[2] = n /\ d[p] # e[p]}
  <1>0. \A p \in PrefixPairs(a, b) :
          d[p] = Recurrence(d, a, b, p) /\ e[p] = Recurrence(e, a, b, p)
    BY DEF IsTable
  <1>1. differ = {}
    <2>1. SUFFICES ASSUME differ # {} PROVE FALSE
      OBVIOUS
    <2>2. PICK k \in differ : \A n \in differ : k <= n
      <3>. HIDE DEF differ
      <3>1. differ \in SUBSET Nat
        BY DEF differ
      <3>. QED  BY <2>1, <3>1, LeastNumber
    <2>3. PICK p \in PrefixPairs(a, b) : p[1] + p[2] = k /\ d[p] # e[p]
      OBVIOUS
    <2>4. PICK i \in 0 .. Len(a), j \in 0 .. Len(b) : p = <<i, j>>
      BY DEF PrefixPairs
    <2>5. p[1] = i /\ p[2] = j /\ k = i + j
      BY <2>3, <2>4
    <2>6. ASSUME NEW m \in 0 .. Len(a), NEW n \in 0 .. Len(b), m + n < k
          PROVE  d[<<m, n>>] = e[<<m, n>>]
      <3>1. m + n \notin differ
        <4>1. m + n \in Nat /\ k \in Nat /\ ~(k <= m + n)
          BY <2>5, <2>6
        <4>. HIDE DEF differ
        <4>. QED  BY <2>2, <4>1
      <3>2. <<m, n>> \in PrefixPairs(a, b) /\ <<m, n>>[1] = m /\ <<m, n>>[2] = n /\ m + n \in Nat
        BY DEF PrefixPairs
      <3>. QED  BY <3>1, <3>2
    <2>7. Recurrence(d, a, b, p) = Recurrence(e, a, b, p)
      <3>1. CASE i = 0 \/ j = 0
        BY <2>5, <3>1 DEF Recurrence
      <3>2. CASE i # 0 /\ j # 0
        <4>1. /\ i - 1 \in 0 .. Len(a) /\ j - 1 \in 0 .. Len(b)
              /\ (i - 1) + j < k /\ i + (j - 1) < k /\ (i - 1) + (j - 1) < k
          BY <2>5, <3>2
        <4>2. /\ d[<<i - 1, j>>] = e[<<i - 1, j>>]
              /\ d[<<i, j - 1>>] = e[<<i, j - 1>>]
              /\ d[<<i - 1, j - 1>>] = e[<<i - 1, j - 1>>]
          BY <2>6, <4>1
        <4>. QED  BY <2>5, <4>2 DEF Recurrence
      <3>. QED  BY <3>1, <3>2
    <2>. QED  BY <1>0, <2>3, <2>7
  <1>2. \A p \in PrefixPairs(a, b) : d[p] = e[p]
    <2>. SUFFICES ASSUME NEW p \in PrefixPairs(a, b) PROVE d[p] = e[p]
      OBVIOUS
    <2>1. p[1] + p[2] \in Nat
      BY DEF PrefixPairs
    <2>. QED  BY <1>1, <2>1
  <1>3. /\ d = [p \in PrefixPairs(a, b) |-> Recurrence(d, a, b, p)]
        /\ e = [p \in PrefixPairs(a, b) |-> Recurrence(e, a, b, p)]
    BY DEF IsTable
  <1>4. d = [p \in PrefixPairs(a, b) |-> d[p]] /\ e = [p \in PrefixPairs(a, b) |-> e[p]]
    BY <1>3
  <1>. HIDE DEF differ
  <1>. QED  BY <1>2, <1>4

LEMMA RowsAreTable ==
    ASSUME NEW a, Len(a) \in Nat, NEW b, Len(b) \in Nat
    PROVE  IsTable([p \in PrefixPairs(a, b) |-> RowsOf(a, b)[p[1]][p[2] + 1]], a, b)
  <1>. DEFINE e == [p \in PrefixPairs(a, b) |-> RowsOf(a, b)[p[1]][p[2] + 1]]
  <1>1. ASSUME NEW i \in 0 .. Len(a), NEW j \in 0 .. Len(b)
        PROVE  <<i, j>> \in PrefixPairs(a, b) /\ e[<<i, j>>] = RowsOf(a, b)[i][j + 1]
    BY DEF PrefixPairs
  <1>. HIDE DEF e
  <1>2. ASSUME NEW p \in PrefixPairs(a, b)
        PROVE  e[p] = Recurrence(e, a, b, p)
    <2>1. PICK i \in 0 .. Len(a), j \in 0 .. Len(b) : p = <<i, j>>
      BY DEF PrefixPairs
    <2>2. p[1] = i /\ p[2] = j
      BY <2>1
    <2>3. CASE i = 0
      <3>1. e[p] = FirstRow(b)[j + 1]
        BY <1>1, <2>1, <2>3, RowsOfSteps
      <3>2. FirstRow(b)[j + 1] = j
        BY DEF FirstRow
      <3>. QED  BY <2>2, <2>3, <3>1, <3>2 DEF Recurrence
    <2>4. CASE i # 0
      <3>. DEFINE prev == RowsOf(a, b)[i - 1]
      <3>1. i \in 1 .. Len(a) /\ i - 1 \in 0 .. Len(a)
        BY <2>4
      <3>2. prev \in Row(b)
        BY <3>1, RowsAreRows
      <3>3. RowsOf(a, b)[i] = NextRow(prev, a[i], b)
        BY <3>1, RowsOfSteps
      <3>. HIDE DEF prev
      <3>. DEFINE row == RowsOf(a, b)[i]
      <3>4. /\ row[1] = prev[1] + 1
            /\ \A n \in 1 .. Len(b) :
                 row[n + 1] = LeastOf3(prev[n + 1] + 1, row[n] + 1,
                                       prev[n] + (IF a[i] = b[n] THEN 0 ELSE 1))
        BY <3>2, <3>3, NextRowCells
      <3>. HIDE DEF row
      <3>5. e[p] = row[j + 1]
        BY <1>1, <2>1 DEF row
      <3>6. CASE j = 0
        <4>1. e[p] = prev[1] + 1
          BY <3>4, <3>5, <3>6
        <4>2. ASSUME NEW k \in 0 .. Len(a) PROVE RowsOf(a, b)[k][1] = k
          <5>. DEFINE bad == {n \in 0 .. Len(a) : RowsOf(a, b)[n][1] # n}
          <5>1. SUFFICES ASSUME bad # {} PROVE FALSE
            BY <5>1
          <5>2. PICK m \in bad : \A n \in bad : m <= n
            <6>. HIDE DEF bad
            <6>1. bad \in SUBSET Nat
              BY DEF bad
            <6>. QED  BY <5>1, <6>1, LeastNumber
          <5>3. m \in 0 .. Len(a) /\ RowsOf(a, b)[m][1] # m
            OBVIOUS
          <5>4. CASE m = 0
            <6>1. RowsOf(a, b)[0] = FirstRow(b) /\ FirstRow(b)[1] = 0
              BY RowsOfSteps DEF FirstRow
            <6>. QED  BY <5>3, <5>4, <6>1
          <5>5. CASE m # 0
            <6>1. m - 1 \in 0 .. Len(a) /\ ~(m <= m - 1) /\ m \in 1 .. Len(a)
              BY <5>3, <5>5
            <6>2. m - 1 \notin bad
              <7>. HIDE DEF bad
              <7>. QED  BY <5>2, <6>1
            <6>3. RowsOf(a, b)[m - 1][1] = m - 1
              BY <6>1, <6>2
            <6>4. RowsOf(a, b)[m] = NextRow(RowsOf(a, b)[m - 1], a[m], b)
              BY <6>1, RowsOfSteps
            <6>5. RowsOf(a, b)[m - 1] \in Row(b)
              BY <6>1, RowsAreRows
            <6>6. RowsOf(a, b)[m][1] = RowsOf(a, b)[m - 1][1] + 1
              BY <6>4, <6>5, NextRowCells
            <6>. QED  BY <5>3, <6>1, <6>3, <6>6
          <5>. QED  BY <5>4, <5>5
        <4>3. prev[1] = i - 1
          BY <3>1, <4>2 DEF prev
        <4>. QED  BY <2>2, <2>4, <3>1, <3>6, <4>1, <4>3 DEF Recurrence
      <3>7. CASE j # 0
        <4>1. j \in 1 .. Len(b) /\ j - 1 \in 0 .. Len(b) /\ (j - 1) + 1 = j
          BY <3>7
        <4>2. row[j + 1] = LeastOf3(prev[j + 1] + 1, row[j] + 1,
                                    prev[j] + (IF a[i] = b[j] THEN 0 ELSE 1))
          BY <3>4, <4>1
        <4>3. /\ e[<<i - 1, j>>] = prev[j + 1]
              /\ e[<<i, j - 1>>] = row[j]
              /\ e[<<i - 1, j - 1>>] = prev[j]
          BY <1>1, <3>1, <4>1 DEF prev, row
        <4>. QED  BY <2>2, <2>4, <3>5, <3>7, <4>2, <4>3 DEF Recurrence
      <3>. QED  BY <3>6, <3>7
    <2>. QED  BY <2>3, <2>4
  <1>3. e = [p \in PrefixPairs(a, b) |-> e[p]]
    BY DEF e
  <1>4. IsTable(e, a, b)
    BY <1>2, <1>3 DEF IsTable
  <1>. QED  BY <1>4 DEF e

LEMMA DistanceIsTable ==
    ASSUME NEW a, Len(a) \in Nat, NEW b, Len(b) \in Nat
    PROVE  IsTable(Distance(a, b), a, b)
  <1>1. Distance(a, b) = CHOOSE d : IsTable(d, a, b)
    BY DEF Distance, IsTable, Recurrence, PrefixPairs
  <1>2. \E d : IsTable(d, a, b)
    BY RowsAreTable
  <1>. QED  BY <1>1, <1>2

\* The n-th row of levenshtein holds the distances of the first n words of a
\* to every prefix of b.
LEMMA RowsAreDistances ==
    ASSUME NEW a, Len(a) \in Nat, NEW b, Len(b) \in Nat,
           NEW n \in 0 .. Len(a), NEW j \in 0 .. Len(b)
    PROVE  /\ RowsOf(a, b)[n][j + 1] = Distance(a, b)[<<n, j>>]
           /\ Distance(a, b)[<<n, j>>] \in Nat
  <1>. DEFINE e == [p \in PrefixPairs(a, b) |-> RowsOf(a, b)[p[1]][p[2] + 1]]
  <1>1. IsTable(e, a, b) /\ IsTable(Distance(a, b), a, b)
    BY RowsAreTable, DistanceIsTable
  <1>2. e = Distance(a, b)
    <2>. HIDE DEF e
    <2>. QED  BY <1>1, TableIsUnique
  <1>3. e[<<n, j>>] = RowsOf(a, b)[n][j + 1]
    BY DEF PrefixPairs
  <1>4. RowsOf(a, b)[n][j + 1] \in Nat
    BY RowsAreRows DEF Row
  <1>. QED  BY <1>2, <1>3, <1>4

LEMMA DistanceSymmetric ==
    ASSUME NEW a, Len(a) \in Nat, NEW b, Len(b) \in Nat,
           NEW i \in 0 .. Len(a), NEW j \in 0 .. Len(b)
    PROVE  Distance(a, b)[<<i, j>>] = Distance(b, a)[<<j, i>>]
  <1>. DEFINE d == Distance(a, b)
              e == Distance(b, a)
              t == [p \in PrefixPairs(a, b) |-> e[<<p[2], p[1]>>]]
  <1>1. ASSUME NEW m \in 0 .. Len(a), NEW n \in 0 .. Len(b)
        PROVE  <<m, n>> \in PrefixPairs(a, b) /\ t[<<m, n>>] = e[<<n, m>>]
               /\ <<n, m>> \in PrefixPairs(b, a)
    BY DEF PrefixPairs
  <1>2. IsTable(d, a, b) /\ IsTable(e, b, a)
    BY DistanceIsTable
  <1>. HIDE DEF e, d
  <1>3. \A p \in PrefixPairs(b, a) : e[p] = Recurrence(e, b, a, p)
    BY <1>2 DEF IsTable
  <1>4. ASSUME NEW m \in 0 .. Len(a), NEW n \in 0 .. Len(b) PROVE e[<<n, m>>] \in Nat
    BY <1>4, RowsAreDistances DEF e
  <1>. HIDE DEF t
  <1>5. ASSUME NEW p \in PrefixPairs(a, b) PROVE t[p] = Recurrence(t, a, b, p)
    <2>1. PICK m \in 0 .. Len(a), n \in 0 .. Len(b) : p = <<m, n>>
      BY DEF PrefixPairs
    <2>2. p[1] = m /\ p[2] = n /\ <<n, m>>[1] = n /\ <<n, m>>[2] = m
      BY <2>1
    <2>3. t[p] = Recurrence(e, b, a, <<n, m>>)
      BY <1>1, <1>3, <2>1
    <2>4. CASE m = 0 \/ n = 0
      BY <2>2, <2>3, <2>4 DEF Recurrence
    <2>5. CASE m # 0 /\ n # 0
      <3>1. m - 1 \in 0 .. Len(a) /\ n - 1 \in 0 .. Len(b)
        BY <2>5
      <3>. DEFINE x == e[<<n - 1, m>>]
                  y == e[<<n, m - 1>>]
                  z == e[<<n - 1, m - 1>>]
                  w == z + (IF b[n] = a[m] THEN 0 ELSE 1)
      <3>2. x \in Nat /\ y \in Nat /\ z \in Nat
        BY <1>4, <3>1
      <3>3. t[<<m, n - 1>>] = x /\ t[<<m - 1, n>>] = y /\ t[<<m - 1, n - 1>>] = z
        BY <1>1, <3>1
      <3>. HIDE DEF x, y, z
      <3>4. t[p] = LeastOf3(x + 1, y + 1, w)
        BY <2>2, <2>3, <2>5 DEF Recurrence, x, y, z
      <3>5. Recurrence(t, a, b, p) = LeastOf3(y + 1, x + 1, w)
        BY <2>2, <2>5, <3>3 DEF Recurrence
      <3>6. LeastOf3(x + 1, y + 1, w) = LeastOf3(y + 1, x + 1, w)
        <4>1. {x + 1, y + 1, w} = {y + 1, x + 1, w}
          OBVIOUS
        <4>. QED  BY <4>1 DEF LeastOf3
      <3>. QED  BY <3>4, <3>5, <3>6
    <2>. QED  BY <2>4, <2>5
  <1>6. t = [p \in PrefixPairs(a, b) |-> t[p]]
    BY DEF t
  <1>7. IsTable(t, a, b)
    BY <1>5, <1>6 DEF IsTable
  <1>8. d = t
    BY <1>2, <1>7, TableIsUnique
  <1>9. d[<<i, j>>] = e[<<j, i>>]
    BY <1>1, <1>8
  <1>. QED  BY <1>9 DEF d, e

LEMMA DistanceToSelf ==
    ASSUME NEW a, Len(a) \in Nat
    PROVE  \A n \in 0 .. Len(a) : Distance(a, a)[<<n, n>>] = 0
  <1>. DEFINE d == Distance(a, a)
              bad == {n \in 0 .. Len(a) : d[<<n, n>>] # 0}
  <1>1. SUFFICES ASSUME bad # {} PROVE FALSE
    OBVIOUS
  <1>2. PICK k \in bad : \A n \in bad : k <= n
    <2>. HIDE DEF bad
    <2>1. bad \in SUBSET Nat
      BY DEF bad
    <2>. QED  BY <1>1, <2>1, LeastNumber
  <1>3. k \in 0 .. Len(a) /\ d[<<k, k>>] # 0
    OBVIOUS
  <1>4. \A p \in PrefixPairs(a, a) : d[p] = Recurrence(d, a, a, p)
    BY DistanceIsTable DEF IsTable
  <1>5. <<k, k>> \in PrefixPairs(a, a) /\ <<k, k>>[1] = k /\ <<k, k>>[2] = k
    BY <1>3 DEF PrefixPairs
  <1>6. CASE k = 0
    BY <1>3, <1>4, <1>5, <1>6 DEF Recurrence
  <1>7. CASE k # 0
    <2>1. k - 1 \in 0 .. Len(a) /\ ~(k <= k - 1)
      BY <1>3, <1>7
    <2>2. k - 1 \notin bad
      <3>. HIDE DEF bad
      <3>. QED  BY <1>2, <2>1
    <2>3. d[<<k - 1, k - 1>>] = 0
      BY <2>1, <2>2
    <2>. DEFINE x == d[<<k - 1, k>>]
                y == d[<<k, k - 1>>]
    <2>4. x \in Nat /\ y \in Nat
      BY <1>3, <2>1, RowsAreDistances
    <2>. HIDE DEF x, y, d, bad
    <2>5. d[<<k, k>>] = LeastOf3(x + 1, y + 1, 0 + 0)
      BY <1>4, <1>5, <1>7, <2>3 DEF Recurrence, x, y
    <2>6. x + 1 \in Nat /\ y + 1 \in Nat /\ 0 + 0 = 0 /\ 0 \in Nat
      BY <2>4
    <2>7. LeastOf3(x + 1, y + 1, 0) \in Nat /\ LeastOf3(x + 1, y + 1, 0) <= 0
      BY <2>6, LeastOf3Is
    <2>. QED  BY <1>3, <2>5, <2>6, <2>7
  <1>. QED  BY <1>6, <1>7

-----------------------------------------------------------------------------
(* The verdicts.                                                           *)

LEMMA TokensAreFinite ==
    ASSUME NEW c, Worded(c)
    PROVE  /\ IsFiniteSet(Tokens(c)) /\ Len(c.words) \in Nat
           /\ c.words = <<>> => Cardinality(Tokens(c)) = 0
  <1>1. Len(c.words) \in Nat /\ DOMAIN c.words = 1 .. Len(c.words)
    BY DEF Worded
  <1>2. Tokens(c) = {c.words[i] : i \in DOMAIN c.words}
    BY DEF Tokens, ToSet
  <1>3. IsFiniteSet(1 .. Len(c.words))
    BY <1>1, FS_Interval
  <1>4. IsFiniteSet({c.words[i] : i \in 1 .. Len(c.words)})
    <2>. DEFINE f == [i \in 1 .. Len(c.words) |-> c.words[i]]
                S == 1 .. Len(c.words)
                T == {c.words[i] : i \in S}
    <2>1. f \in Surjection(S, T)
      BY DEF Surjection
    <2>. HIDE DEF f, S, T
    <2>2. IsFiniteSet(S)
      BY <1>3 DEF S
    <2>3. IsFiniteSet(T)
      BY <2>1, <2>2, FS_Surjection
    <2>. QED  BY <2>3 DEF S, T
  <1>5. c.words = <<>> => Tokens(c) = {}
    BY <1>1, <1>2
  <1>6. Cardinality({}) = 0
    BY FS_EmptySet
  <1>. QED  BY <1>1, <1>2, <1>4, <1>5, <1>6

LEMMA CommonIsNumber ==
    ASSUME NEW c, NEW d, Worded(c), Worded(d)
    PROVE  /\ Common(c, d) \in Nat /\ Either(c, d) \in Nat /\ Cardinality(Tokens(c)) \in Nat
           /\ Common(c, d) <= Cardinality(Tokens(c))
           /\ Common(c, d) <= Cardinality(Tokens(d))
           /\ Cardinality(Tokens(c)) <= Either(c, d)
  <1>1. IsFiniteSet(Tokens(c)) /\ IsFiniteSet(Tokens(d))
    BY TokensAreFinite
  <1>. DEFINE C == Tokens(c)
              D == Tokens(d)
  <1>. HIDE DEF C, D
  <1>2. IsFiniteSet(C) /\ IsFiniteSet(D)
    BY <1>1 DEF C, D
  <1>3. IsFiniteSet(C \cap D) /\ IsFiniteSet(C \cup D)
    BY <1>2, FS_Intersection, FS_Union
  <1>4. C \cap D \subseteq C /\ C \cap D \subseteq D /\ C \subseteq C \cup D
    OBVIOUS
  <1>5. /\ Cardinality(C \cap D) \in Nat /\ Cardinality(C \cup D) \in Nat
        /\ Cardinality(C) \in Nat
    BY <1>2, <1>3, FS_CardinalityType
  <1>6. Cardinality(C \cap D) <= Cardinality(C) /\ Cardinality(C \cap D) <= Cardinality(D)
    BY <1>2, <1>4, FS_Subset
  <1>7. Cardinality(C) <= Cardinality(C \cup D)
    BY <1>3, <1>4, FS_Subset
  <1>. QED  BY <1>5, <1>6, <1>7 DEF Common, Either, C, D

\* Matching contents have words, so that InOrder compares their distance.
LEMMA MatchingHasWords ==
    ASSUME NEW c, NEW d, Worded(c), Worded(d), Matching(c, d)
    PROVE  c.words # <<>> /\ d.words # <<>>
  <1>1. Either(c, d) > 0 /\ 100 * Common(c, d) >= NoopPercent * Either(c, d)
    BY DEF Matching, JaccardAtLeast
  <1>2. Common(c, d) > 0
    BY <1>1, CommonIsNumber DEF NoopPercent
  <1>3. Cardinality(Tokens(c)) # 0 /\ Cardinality(Tokens(d)) # 0
    BY <1>2, CommonIsNumber
  <1>. QED  BY <1>3, TokensAreFinite

LEMMA EditDistanceIs ==
    ASSUME NEW c, NEW d, Worded(c), Worded(d)
    PROVE  /\ EditDistance(c.words, d.words) \in Nat
           /\ EditDistance(c.words, d.words) = EditDistance(d.words, c.words)
           /\ EditDistance(c.words, c.words) = 0
  <1>. DEFINE a == c.words
              b == d.words
  <1>1. Len(a) \in Nat /\ Len(b) \in Nat
    BY TokensAreFinite
  <1>. HIDE DEF a, b
  <1>2. Len(a) \in 0 .. Len(a) /\ Len(b) \in 0 .. Len(b)
    BY <1>1
  <1>3. /\ EditDistance(a, b) = Distance(a, b)[<<Len(a), Len(b)>>]
        /\ EditDistance(a, b) \in Nat
    <2>1. RowsOf(a, b)[Len(a)][Len(b) + 1] = Distance(a, b)[<<Len(a), Len(b)>>]
      BY <1>1, <1>2, RowsAreDistances
    <2>2. Distance(a, b)[<<Len(a), Len(b)>>] \in Nat
      BY <1>1, <1>2, RowsAreDistances
    <2>. QED  BY <2>1, <2>2 DEF EditDistance
  <1>4. EditDistance(b, a) = Distance(b, a)[<<Len(b), Len(a)>>]
    BY <1>1, <1>2, RowsAreDistances DEF EditDistance
  <1>5. Distance(a, b)[<<Len(a), Len(b)>>] = Distance(b, a)[<<Len(b), Len(a)>>]
    BY <1>1, <1>2, DistanceSymmetric
  <1>6. EditDistance(a, a) = Distance(a, a)[<<Len(a), Len(a)>>]
    <2>1. RowsOf(a, a)[Len(a)][Len(a) + 1] = Distance(a, a)[<<Len(a), Len(a)>>]
      BY <1>1, <1>2, RowsAreDistances
    <2>. QED  BY <2>1 DEF EditDistance
  <1>7. Distance(a, a)[<<Len(a), Len(a)>>] = 0
    BY <1>1, <1>2, DistanceToSelf
  <1>. QED  BY <1>3, <1>4, <1>5, <1>6, <1>7 DEF a, b

LEMMA InOrderSymmetric ==
    ASSUME NEW c, NEW d, Worded(c), Worded(d)
    PROVE  InOrder(c, d) <=> InOrder(d, c)
  <1>1. {Len(c.words), Len(d.words)} = {Len(d.words), Len(c.words)}
    OBVIOUS
  <1>2. Max({Len(c.words), Len(d.words)}) = Max({Len(d.words), Len(c.words)})
    BY <1>1
  <1>3. EditDistance(c.words, d.words) = EditDistance(d.words, c.words)
    BY EditDistanceIs
  <1>. QED  BY <1>2, <1>3 DEF InOrder

LEMMA MatchingSymmetric ==
    ASSUME NEW c, NEW d
    PROVE  Matching(c, d) <=> Matching(d, c)
  <1>1. /\ Tokens(c) \cap Tokens(d) = Tokens(d) \cap Tokens(c)
        /\ Tokens(c) \cup Tokens(d) = Tokens(d) \cup Tokens(c)
    OBVIOUS
  <1>2. Common(c, d) = Common(d, c) /\ Either(c, d) = Either(d, c)
    BY <1>1 DEF Common, Either
  <1>. QED  BY <1>2 DEF Matching, JaccardAtLeast

\* A content that reconciles at all duplicates itself.
LEMMA DuplicatesItself ==
    ASSUME NEW c, Worded(c), Substantial(c)
    PROVE  IsDuplicate(c, c)
  <1>1. IsFiniteSet(Tokens(c)) /\ Len(c.words) \in Nat
    BY TokensAreFinite
  <1>2. Cardinality(Tokens(c)) \in Nat /\ Cardinality(Tokens(c)) >= 4
    BY <1>1, FS_CardinalityType DEF Substantial, MinTokens
  <1>3. /\ Tokens(c) \cap Tokens(c) = Tokens(c)
        /\ Tokens(c) \cup Tokens(c) = Tokens(c)
    OBVIOUS
  <1>4. Common(c, c) = Cardinality(Tokens(c)) /\ Either(c, c) = Cardinality(Tokens(c))
    BY <1>3 DEF Common, Either
  <1>5. Matching(c, c)
    BY <1>2, <1>4 DEF Matching, JaccardAtLeast, NoopPercent
  <1>6. c.words # <<>>
    BY <1>5, MatchingHasWords
  <1>7. InOrder(c, c)
    <2>1. Max({Len(c.words), Len(c.words)}) = Len(c.words)
      BY <1>1, MaxOfTwo
    <2>2. EditDistance(c.words, c.words) = 0
      BY EditDistanceIs
    <2>. DEFINE n == Len(c.words)
    <2>. HIDE DEF n
    <2>3. n \in Nat /\ 100 * (n - 0) >= 80 * n
      BY <1>1 DEF n
    <2>4. 100 * (Len(c.words) - EditDistance(c.words, c.words)) >= OrderedPercent * Len(c.words)
      BY <2>2, <2>3 DEF n, OrderedPercent
    <2>. QED  BY <1>6, <2>1, <2>4 DEF InOrder
  <1>. QED  BY <1>5, <1>7 DEF IsDuplicate
=============================================================================
