--------------------------- MODULE LibraryProofs ---------------------------
(***************************************************************************)
(* Proofs about the database as its readers see it: the integrity of the   *)
(* tables, a capture that is read back, a repair that spares what is       *)
(* assigned, a scan that misses nothing, a fence that holds, walks that    *)
(* are shortest and reads that agree, for every registry, every number of  *)
(* thoughts, edges and calls.                                              *)
(***************************************************************************)
EXTENDS Library, FiniteSetTheorems, FunctionTheorems, SequenceTheorems,
        NaturalsInduction, WellFoundedInduction, TLAPS

-----------------------------------------------------------------------------
(* Numbers                                                                 *)

LEMMA LeastOfNat ==
    ASSUME NEW T \in SUBSET Nat, T # {}
    PROVE  \E m \in T : \A n \in T : m <= n
  <1>1. PICK m \in T : \A n \in T : ~(<<n, m>> \in OpToRel(<, Nat))
    BY WFMin, NatLessThanWellFounded
  <1>2. \A n \in Nat : <<n, m>> \in OpToRel(<, Nat) <=> n < m
    BY DEF OpToRel
  <1>3. \A n \in T : ~(n < m)
    BY <1>1, <1>2
  <1>. QED  BY <1>3

LEMMA GreatestOfBounded ==
    ASSUME NEW T \in SUBSET Nat, T # {}, NEW bound \in Nat, \A n \in T : n <= bound
    PROVE  \E m \in T : \A n \in T : n <= m
  <1>. DEFINE D == {bound - n : n \in T}
  <1>1. D \in SUBSET Nat /\ D # {}
    <2>1. \A n \in T : bound - n \in Nat
      OBVIOUS
    <2>. QED  BY <2>1
  <1>2. PICK d \in D : \A e \in D : d <= e
    <2>. HIDE DEF D
    <2>. QED  BY <1>1, LeastOfNat
  <1>3. PICK m \in T : d = bound - m
    OBVIOUS
  <1>4. ASSUME NEW n \in T PROVE n <= m
    <2>1. d <= bound - n
      BY <1>2
    <2>. QED  BY <1>3, <2>1
  <1>. QED  BY <1>4

\* A finite set of numbers has a greatest.
LEMMA FiniteHasBound ==
    ASSUME NEW S \in SUBSET Nat, IsFiniteSet(S)
    PROVE  \E b \in Nat : \A n \in S : n <= b
  <1>. DEFINE Unbounded(T) == ~\E b \in Nat : \A n \in T : n <= b
              Sizes == {c \in Nat : \E T \in SUBSET Nat : IsFiniteSet(T) /\ Cardinality(T) = c
                                                           /\ Unbounded(T)}
  <1>1. SUFFICES ASSUME Unbounded(S) PROVE FALSE
    OBVIOUS
  <1>2. Cardinality(S) \in Sizes
    BY <1>1, FS_CardinalityType
  <1>3. PICK c \in Sizes : \A d \in Sizes : c <= d
    <2>1. Sizes \in SUBSET Nat /\ Sizes # {}
      BY <1>2
    <2>. HIDE DEF Sizes
    <2>. QED  BY <2>1, LeastOfNat
  <1>4. PICK T \in SUBSET Nat : IsFiniteSet(T) /\ Cardinality(T) = c /\ Unbounded(T)
    OBVIOUS
  <1>5. PICK x \in T : TRUE
    <2>1. T # {}
      BY <1>4
    <2>. QED  BY <2>1
  <1>6. IsFiniteSet(T \ {x}) /\ Cardinality(T \ {x}) = c - 1
    BY <1>4, <1>5, FS_RemoveElement
  <1>7. Cardinality(T \ {x}) \in Nat
    BY <1>6, FS_CardinalityType
  <1>8. c - 1 \notin Sizes
    <2>1. c \in Nat
      OBVIOUS
    <2>. HIDE DEF Sizes
    <2>. QED  BY <1>3, <2>1
  <1>9. ~Unbounded(T \ {x})
    BY <1>6, <1>7, <1>8
  <1>10. PICK b \in Nat : \A n \in T \ {x} : n <= b
    BY <1>9
  <1>11. \A n \in T : n <= b + x
    BY <1>5, <1>10
  <1>12. b + x \in Nat
    BY <1>5
  <1>. QED  BY <1>4, <1>11, <1>12

LEMMA MaxOfFinite ==
    ASSUME NEW S \in SUBSET Nat, IsFiniteSet(S), S # {}
    PROVE  Max(S) \in S /\ \A n \in S : n <= Max(S)
  <1>1. PICK b \in Nat : \A n \in S : n <= b
    BY FiniteHasBound
  <1>2. PICK m \in S : \A n \in S : n <= m
    BY <1>1, GreatestOfBounded
  <1>3. \A n \in S : m >= n
    BY <1>2
  <1>. QED  BY <1>3 DEF Max

-----------------------------------------------------------------------------
(* Ascending (GraphReads)                                                  *)

Rank(S, m) == Cardinality({k \in S : k <= m})

LEMMA RankGrows ==
    ASSUME NEW S \in SUBSET Nat, IsFiniteSet(S), NEW m \in S, NEW n \in S, m < n
    PROVE  Rank(S, m) < Rank(S, n)
  <1>. DEFINE M == {k \in S : k <= m}
              N == {k \in S : k <= n}
  <1>1. M \in SUBSET N /\ M # N /\ N \in SUBSET S
    <2>1. n \in N /\ n \notin M
      OBVIOUS
    <2>2. \A k \in M : k \in Nat /\ k <= n
      OBVIOUS
    <2>. QED  BY <2>1, <2>2
  <1>2. IsFiniteSet(N) /\ IsFiniteSet(M)
    <2>. HIDE DEF M, N
    <2>. QED  BY <1>1, FS_Subset
  <1>3. Cardinality(M) <= Cardinality(N) /\ Cardinality(M) # Cardinality(N)
    <2>. HIDE DEF M, N
    <2>. QED  BY <1>1, <1>2, FS_Subset
  <1>4. Cardinality(M) \in Nat /\ Cardinality(N) \in Nat
    BY <1>2, FS_CardinalityType
  <1>5. Cardinality(M) < Cardinality(N)
    <2>. HIDE DEF M, N
    <2>. QED  BY <1>3, <1>4
  <1>. QED  BY <1>5 DEF Rank

LEMMA RankInRange ==
    ASSUME NEW S \in SUBSET Nat, IsFiniteSet(S), NEW m \in S
    PROVE  Cardinality(S) \in Nat /\ Rank(S, m) \in 1 .. Cardinality(S)
  <1>. DEFINE M == {k \in S : k <= m}
  <1>1. M \in SUBSET S /\ m \in M
    OBVIOUS
  <1>2. IsFiniteSet(M) /\ Cardinality(M) <= Cardinality(S)
    <2>. HIDE DEF M
    <2>. QED  BY <1>1, FS_Subset
  <1>3. Cardinality(M) \in Nat /\ Cardinality(S) \in Nat /\ Cardinality(M) # 0
    <2>. HIDE DEF M
    <2>. QED  BY <1>1, <1>2, FS_CardinalityType, FS_EmptySet
  <1>4. Cardinality(M) \in 1 .. Cardinality(S)
    <2>. HIDE DEF M
    <2>. QED  BY <1>2, <1>3
  <1>. QED  BY <1>3, <1>4 DEF Rank

LEMMA RankTells ==
    ASSUME NEW S \in SUBSET Nat, IsFiniteSet(S), NEW m \in S, NEW n \in S
    PROVE  /\ Rank(S, m) = Rank(S, n) => m = n
           /\ Rank(S, m) < Rank(S, n) => m < n
  <1>1. Rank(S, m) \in Nat /\ Rank(S, n) \in Nat /\ m \in Nat /\ n \in Nat
    BY RankInRange
  <1>2. (m < n => Rank(S, m) < Rank(S, n)) /\ (n < m => Rank(S, n) < Rank(S, m))
    BY RankGrows
  <1>. QED  BY <1>1, <1>2

LEMMA RankIsOnto ==
    ASSUME NEW S \in SUBSET Nat, IsFiniteSet(S)
    PROVE  \A r \in 1 .. Cardinality(S) : \E m \in S : Rank(S, m) = r
  <1>. DEFINE T == 1 .. Cardinality(S)
              f == [m \in S |-> Rank(S, m)]
  <1>1. Cardinality(S) \in Nat /\ IsFiniteSet(T) /\ Cardinality(T) = Cardinality(S)
    BY FS_CardinalityType, FS_Interval
  <1>2. \A m \in S : Rank(S, m) \in T
    BY RankInRange
  <1>3. f \in [S -> T]
    BY <1>2
  <1>4. ASSUME NEW m \in S, NEW n \in S, f[m] = f[n] PROVE m = n
    BY <1>4, RankTells
  <1>5. f \in Injection(S, T)
    <2>. HIDE DEF f, T
    <2>. QED  BY <1>3, <1>4, Fun_IsInj
  <1>6. f \in Surjection(S, T)
    <2>. HIDE DEF f, T
    <2>. QED  BY <1>1, <1>5, FS_Injection
  <1>7. \A r \in T : \E m \in S : f[m] = r
    <2>. HIDE DEF f, T
    <2>. QED  BY <1>6, Fun_IsSurj DEF Surjection
  <1>. QED  BY <1>7

\* Ascending lists the numbers of a finite set, each once and in their order.
LEMMA AscendingLists ==
    ASSUME NEW S \in SUBSET Nat, IsFiniteSet(S)
    PROVE  /\ Ascending(S) \in Seq(S)
           /\ ToSet(Ascending(S)) = S
           /\ \A i, j \in 1 .. Len(Ascending(S)) :
                i < j => Ascending(S)[i] < Ascending(S)[j]
  <1>. DEFINE a == Ascending(S)
              c == Cardinality(S)
              At(n) == CHOOSE m \in S : Rank(S, m) = n
  <1>1. c \in Nat
    BY FS_CardinalityType
  <1>2. \A n \in 1 .. c : At(n) \in S /\ Rank(S, At(n)) = n
    BY RankIsOnto
  <1>3. a = [n \in 1 .. c |-> At(n)]
    BY DEF Ascending, Rank
  <1>4. a \in Seq(S) /\ Len(a) = c
    <2>1. a \in [1 .. c -> S]
      BY <1>2, <1>3
    <2>. HIDE DEF a, c
    <2>. QED  BY <1>1, <2>1
  <1>5. \A n \in 1 .. c : a[n] \in S /\ Rank(S, a[n]) = n
    BY <1>2, <1>3
  <1>6. ASSUME NEW m \in S PROVE \E n \in 1 .. c : a[n] = m
    <2>1. Rank(S, m) \in 1 .. c
      BY RankInRange
    <2>2. PICK n \in 1 .. c : n = Rank(S, m)
      BY <2>1
    <2>3. a[n] \in S /\ Rank(S, a[n]) = Rank(S, m)
      BY <1>5, <2>2
    <2>4. a[n] = m
      <3>. HIDE DEF a
      <3>. QED  BY <2>3, RankTells
    <2>. QED  BY <2>4
  <1>7. ToSet(a) = S
    <2>1. DOMAIN a = 1 .. c
      BY <1>3
    <2>. HIDE DEF a, c
    <2>. QED  BY <2>1, <1>5, <1>6 DEF ToSet
  <1>8. ASSUME NEW i \in 1 .. c, NEW j \in 1 .. c, i < j PROVE a[i] < a[j]
    <2>. HIDE DEF a
    <2>1. a[i] \in S /\ a[j] \in S /\ Rank(S, a[i]) = i /\ Rank(S, a[j]) = j
      BY <1>5
    <2>2. Rank(S, a[i]) < Rank(S, a[j])
      BY <1>8, <2>1
    <2>. QED  BY <2>1, <2>2, RankTells
  <1>. QED  BY <1>4, <1>7, <1>8

-----------------------------------------------------------------------------
(* The walks of the graph (GraphReads). H is the hops of every thought.    *)

\* What Follow computes: met[k] is the walk after the first k hops.
Follows(met, walk, node, hops) ==
    /\ Follow(walk, node, hops) = met[Len(hops)]
    /\ met[0] = [walk EXCEPT !.links = Also(@, node, hops)]
    /\ \A k \in 1 .. Len(hops) : met[k] = Meet(met[k - 1], node, hops[k])

LEMMA FollowSteps ==
    ASSUME NEW walk, NEW node, NEW hops, Len(hops) \in Nat
    PROVE  \E met : Follows(met, walk, node, hops)
  <1>. DEFINE first == [walk EXCEPT !.links = Also(@, node, hops)]
              Rec(f, n) == f = [k \in 0 .. n |->
                              IF k = 0 THEN first ELSE Meet(f[k - 1], node, hops[k])]
              bad == {n \in Nat : ~\E f : Rec(f, n)}
  <1>. HIDE DEF first
  <1>1. bad = {}
    <2>1. SUFFICES ASSUME bad # {} PROVE FALSE
      OBVIOUS
    <2>2. PICK k \in bad : \A n \in bad : k <= n
      <3>. HIDE DEF bad
      <3>1. bad \in SUBSET Nat
        BY DEF bad
      <3>. QED  BY <2>1, <3>1, LeastOfNat
    <2>3. k \in Nat /\ ~\E f : Rec(f, k)
      OBVIOUS
    <2>4. CASE k = 0
      <3>. DEFINE f == [j \in 0 .. 0 |-> first]
      <3>1. Rec(f, 0)
        OBVIOUS
      <3>. QED  BY <2>3, <2>4, <3>1
    <2>5. CASE k # 0
      <3>1. k - 1 \in Nat /\ k - 1 \notin bad
        <4>1. k - 1 \in Nat /\ ~(k <= k - 1)
          BY <2>3, <2>5
        <4>. HIDE DEF bad
        <4>. QED  BY <2>2, <4>1
      <3>2. PICK f : Rec(f, k - 1)
        BY <3>1
      <3>. DEFINE g == [j \in 0 .. k |-> IF j = k THEN Meet(f[k - 1], node, hops[k]) ELSE f[j]]
      <3>3. \A j \in 0 .. (k - 1) : f[j] = IF j = 0 THEN first ELSE Meet(f[j - 1], node, hops[j])
        BY <3>2
      <3>4. \A j \in 0 .. k : g[j] = IF j = 0 THEN first ELSE Meet(g[j - 1], node, hops[j])
        <4>1. SUFFICES ASSUME NEW j \in 0 .. k
                       PROVE  g[j] = IF j = 0 THEN first ELSE Meet(g[j - 1], node, hops[j])
          OBVIOUS
        <4>2. CASE j = k
          <5>1. g[j - 1] = f[k - 1] /\ g[j] = Meet(f[k - 1], node, hops[k])
            BY <2>3, <2>5, <4>2
          <5>. QED  BY <2>5, <4>2, <5>1
        <4>3. CASE j # k
          <5>1. j \in 0 .. (k - 1) /\ g[j] = f[j]
            BY <2>3, <4>3
          <5>2. j # 0 => g[j - 1] = f[j - 1]
            BY <2>3, <5>1
          <5>. QED  BY <3>3, <5>1, <5>2
        <4>. QED  BY <4>2, <4>3
      <3>5. Rec(g, k)
        <4>1. g = [j \in 0 .. k |-> g[j]]
          OBVIOUS
        <4>. HIDE DEF g
        <4>. QED  BY <3>4, <4>1
      <3>. QED  BY <2>3, <3>5
    <2>. QED  BY <2>4, <2>5
  <1>2. PICK f : Rec(f, Len(hops))
    BY <1>1
  <1>3. Follow(walk, node, hops) = (CHOOSE h : Rec(h, Len(hops)))[Len(hops)]
    BY DEF Follow, first
  <1>4. PICK h : h = CHOOSE e : Rec(e, Len(hops))
    OBVIOUS
  <1>5. Rec(h, Len(hops))
    BY <1>2, <1>4
  <1>6. \A k \in 0 .. Len(hops) : h[k] = IF k = 0 THEN first ELSE Meet(h[k - 1], node, hops[k])
    BY <1>5
  <1>7. 0 \in 0 .. Len(hops) /\ \A k \in 1 .. Len(hops) : k \in 0 .. Len(hops) /\ k # 0
    OBVIOUS
  <1>8. h[0] = first
    BY <1>6, <1>7
  <1>9. \A k \in 1 .. Len(hops) : h[k] = Meet(h[k - 1], node, hops[k])
    <2>. HIDE DEF Rec
    <2>. QED  BY <1>6, <1>7
  <1>. QED  BY <1>3, <1>4, <1>8, <1>9 DEF Follows, first

\* What Walk computes: after[k] is the walk after k rounds.
Rounds(after, seeds, cap, links, picked, notes) ==
    LET rounds == Cardinality(notes \cup ToSet(seeds))
    IN  /\ Walk(seeds, cap, links, picked, notes) = after[rounds]
        /\ after[0] = Start(seeds)
        /\ \A k \in 1 .. rounds : after[k] = Expand(after[k - 1], cap, links, picked, notes)

LEMMA WalkSteps ==
    ASSUME NEW seeds, NEW cap, NEW links, NEW picked, NEW notes,
           Cardinality(notes \cup ToSet(seeds)) \in Nat
    PROVE  \E after : Rounds(after, seeds, cap, links, picked, notes)
  <1>. DEFINE Round(w) == Expand(w, cap, links, picked, notes)
              size == Cardinality(notes \cup ToSet(seeds))
              Rec(f, n) == f = [k \in 0 .. n |-> IF k = 0 THEN Start(seeds) ELSE Round(f[k - 1])]
              bad == {n \in Nat : ~\E f : Rec(f, n)}
  <1>. HIDE DEF Round, size
  <1>1. bad = {}
    <2>1. SUFFICES ASSUME bad # {} PROVE FALSE
      OBVIOUS
    <2>2. PICK k \in bad : \A n \in bad : k <= n
      <3>. HIDE DEF bad
      <3>1. bad \in SUBSET Nat
        BY DEF bad
      <3>. QED  BY <2>1, <3>1, LeastOfNat
    <2>3. k \in Nat /\ ~\E f : Rec(f, k)
      OBVIOUS
    <2>4. CASE k = 0
      <3>. DEFINE f == [j \in 0 .. 0 |-> Start(seeds)]
      <3>1. Rec(f, 0)
        OBVIOUS
      <3>. QED  BY <2>3, <2>4, <3>1
    <2>5. CASE k # 0
      <3>1. k - 1 \in Nat /\ k - 1 \notin bad
        <4>1. k - 1 \in Nat /\ ~(k <= k - 1)
          BY <2>3, <2>5
        <4>. HIDE DEF bad
        <4>. QED  BY <2>2, <4>1
      <3>2. PICK f : Rec(f, k - 1)
        BY <3>1
      <3>. DEFINE g == [j \in 0 .. k |-> IF j = k THEN Round(f[k - 1]) ELSE f[j]]
      <3>3. \A j \in 0 .. (k - 1) : f[j] = IF j = 0 THEN Start(seeds) ELSE Round(f[j - 1])
        BY <3>2
      <3>4. \A j \in 0 .. k : g[j] = IF j = 0 THEN Start(seeds) ELSE Round(g[j - 1])
        <4>1. SUFFICES ASSUME NEW j \in 0 .. k
                       PROVE  g[j] = IF j = 0 THEN Start(seeds) ELSE Round(g[j - 1])
          OBVIOUS
        <4>2. CASE j = k
          <5>1. g[j - 1] = f[k - 1] /\ g[j] = Round(f[k - 1])
            BY <2>3, <2>5, <4>2
          <5>. QED  BY <2>5, <4>2, <5>1
        <4>3. CASE j # k
          <5>1. j \in 0 .. (k - 1) /\ g[j] = f[j]
            BY <2>3, <4>3
          <5>2. j # 0 => g[j - 1] = f[j - 1]
            BY <2>3, <5>1
          <5>. QED  BY <3>3, <5>1, <5>2
        <4>. QED  BY <4>2, <4>3
      <3>5. Rec(g, k)
        <4>1. g = [j \in 0 .. k |-> g[j]]
          OBVIOUS
        <4>. HIDE DEF g
        <4>. QED  BY <3>4, <4>1
      <3>. QED  BY <2>3, <3>5
    <2>. QED  BY <2>4, <2>5
  <1>2. PICK f : Rec(f, size)
    BY <1>1 DEF size
  <1>3. Walk(seeds, cap, links, picked, notes) = (CHOOSE h : Rec(h, size))[size]
    BY DEF Walk, Round, size
  <1>4. PICK h : h = CHOOSE e : Rec(e, size)
    OBVIOUS
  <1>5. Rec(h, size)
    BY <1>2, <1>4
  <1>6. \A k \in 0 .. size : h[k] = IF k = 0 THEN Start(seeds) ELSE Round(h[k - 1])
    BY <1>5
  <1>7. 0 \in 0 .. size /\ \A k \in 1 .. size : k \in 0 .. size /\ k # 0
    BY DEF size
  <1>8. h[0] = Start(seeds)
    BY <1>6, <1>7
  <1>9. \A k \in 1 .. size : h[k] = Round(h[k - 1])
    <2>. HIDE DEF Rec
    <2>. QED  BY <1>6, <1>7
  <1>. QED  BY <1>3, <1>4, <1>8, <1>9 DEF Rounds, Round, size

\* What Within is.
Grows(within, seeds, cap, links, picked, notes) ==
    /\ Within(seeds, cap, links, picked, notes) = within
    /\ within[0] = seeds
    /\ \A k \in 1 .. cap :
         within[k] = within[k - 1] \cup
                       {n \in notes : \E m \in within[k - 1] : Adjacent(links, picked, m, n)}

LEMMA WithinSteps ==
    ASSUME NEW seeds, NEW cap \in Nat, NEW links, NEW picked, NEW notes
    PROVE  \E within : Grows(within, seeds, cap, links, picked, notes)
  <1>. DEFINE Wider(S) == S \cup {n \in notes : \E m \in S : Adjacent(links, picked, m, n)}
              Rec(f, n) == f = [k \in 0 .. n |-> IF k = 0 THEN seeds ELSE Wider(f[k - 1])]
              bad == {n \in Nat : ~\E f : Rec(f, n)}
  <1>1. Within(seeds, cap, links, picked, notes) = CHOOSE h : Rec(h, cap)
    BY DEF Within
  <1>. HIDE DEF Wider
  <1>2. bad = {}
    <2>1. SUFFICES ASSUME bad # {} PROVE FALSE
      OBVIOUS
    <2>2. PICK k \in bad : \A n \in bad : k <= n
      <3>. HIDE DEF bad
      <3>1. bad \in SUBSET Nat
        BY DEF bad
      <3>. QED  BY <2>1, <3>1, LeastOfNat
    <2>3. k \in Nat /\ ~\E f : Rec(f, k)
      OBVIOUS
    <2>4. CASE k = 0
      <3>. DEFINE f == [j \in 0 .. 0 |-> seeds]
      <3>1. Rec(f, 0)
        OBVIOUS
      <3>. QED  BY <2>3, <2>4, <3>1
    <2>5. CASE k # 0
      <3>1. k - 1 \in Nat /\ k - 1 \notin bad
        <4>1. k - 1 \in Nat /\ ~(k <= k - 1)
          BY <2>3, <2>5
        <4>. HIDE DEF bad
        <4>. QED  BY <2>2, <4>1
      <3>2. PICK f : Rec(f, k - 1)
        BY <3>1
      <3>. DEFINE g == [j \in 0 .. k |-> IF j = k THEN Wider(f[k - 1]) ELSE f[j]]
      <3>3. \A j \in 0 .. (k - 1) : f[j] = IF j = 0 THEN seeds ELSE Wider(f[j - 1])
        BY <3>2
      <3>4. \A j \in 0 .. k : g[j] = IF j = 0 THEN seeds ELSE Wider(g[j - 1])
        <4>1. SUFFICES ASSUME NEW j \in 0 .. k
                       PROVE  g[j] = IF j = 0 THEN seeds ELSE Wider(g[j - 1])
          OBVIOUS
        <4>2. CASE j = k
          <5>1. g[j - 1] = f[k - 1] /\ g[j] = Wider(f[k - 1])
            BY <2>3, <2>5, <4>2
          <5>. QED  BY <2>5, <4>2, <5>1
        <4>3. CASE j # k
          <5>1. j \in 0 .. (k - 1) /\ g[j] = f[j]
            BY <2>3, <4>3
          <5>2. j # 0 => g[j - 1] = f[j - 1]
            BY <2>3, <5>1
          <5>. QED  BY <3>3, <5>1, <5>2
        <4>. QED  BY <4>2, <4>3
      <3>5. Rec(g, k)
        <4>1. g = [j \in 0 .. k |-> g[j]]
          OBVIOUS
        <4>. HIDE DEF g
        <4>. QED  BY <3>4, <4>1
      <3>. QED  BY <2>3, <3>5
    <2>. QED  BY <2>4, <2>5
  <1>3. PICK f : Rec(f, cap)
    BY <1>2
  <1>4. PICK h : h = CHOOSE e : Rec(e, cap)
    OBVIOUS
  <1>5. Rec(h, cap)
    BY <1>3, <1>4
  <1>6. \A k \in 0 .. cap : h[k] = IF k = 0 THEN seeds ELSE Wider(h[k - 1])
    BY <1>5
  <1>7. 0 \in 0 .. cap /\ \A k \in 1 .. cap : k \in 0 .. cap /\ k # 0
    OBVIOUS
  <1>8. h[0] = seeds
    BY <1>6, <1>7
  <1>9. \A k \in 1 .. cap : h[k] = Wider(h[k - 1])
    <2>. HIDE DEF Rec
    <2>. QED  BY <1>6, <1>7
  <1>10. Within(seeds, cap, links, picked, notes) = h
    BY <1>1, <1>4
  <1>. HIDE DEF Rec
  <1>11. \A k \in 1 .. cap :
           h[k] = h[k - 1] \cup
                    {n \in notes : \E m \in h[k - 1] : Adjacent(links, picked, m, n)}
    BY <1>9 DEF Wider
  <1>. QED  BY <1>8, <1>10, <1>11 DEF Grows

-----------------------------------------------------------------------------
(* The invariant of the rounds.                                            *)

\* The hops of every thought lead to thoughts.
HopTable(H) ==
    \A n \in DOMAIN H : /\ Len(H[n]) \in Nat
                        /\ \A i \in 1 .. Len(H[n]) : H[n][i].to \in DOMAIN H

\* n was met along a hop of m.
CameFrom(w, m, n, H) ==
    /\ w.depth[m] = w.depth[n] - 1
    /\ \E i \in 1 .. Len(H[m]) : w.via[n] = H[m][i] /\ H[m][i].to = n

\* A walk that has taken the first r thoughts of its order from the queue:
\* the queue is the rest of the order, in which the depths do not fall; the
\* seeds have the depth 0 and every other thought was met along a hop of one
\* that is one hop nearer; thoughts taken below the limit show their hops.
Sound(w, r, seeds, cap, H) ==
    /\ w = [queue |-> w.queue, order |-> w.order, depth |-> w.depth, via |-> w.via,
            links |-> w.links]
    /\ w.order \in Seq(DOMAIN H) /\ r \in 0 .. Len(w.order)
    /\ w.queue = SubSeq(w.order, r + 1, Len(w.order))
    /\ w.depth \in [ToSet(w.order) -> 0 .. cap]
    /\ \A i, j \in 1 .. Len(w.order) :
         i < j => w.order[i] # w.order[j] /\ w.depth[w.order[i]] <= w.depth[w.order[j]]
    /\ ToSet(seeds) = {n \in ToSet(w.order) : w.depth[n] = 0}
    /\ DOMAIN w.via = {n \in ToSet(w.order) : w.depth[n] # 0}
    /\ \A n \in DOMAIN w.via : \E m \in ToSet(w.order) : CameFrom(w, m, n, H)
    /\ DOMAIN w.links = ToSet(w.order)
    /\ \A j \in 1 .. Len(w.order) :
         w.links[w.order[j]] =
             IF j <= r /\ w.depth[w.order[j]] < cap THEN H[w.order[j]] ELSE <<>>

\* Nothing met so far is deeper than one below m.
NoDeeper(w, m) == \A j \in 1 .. Len(w.order) : w.depth[w.order[j]] <= w.depth[m] + 1

\* The first k hops of m lead to thoughts that were met, one below m at most.
Seen(w, m, k, H) ==
    \A i \in 1 .. k : /\ H[m][i].to \in ToSet(w.order)
                      /\ w.depth[H[m][i].to] <= w.depth[m] + 1

SeenUpTo(w, r, cap, H) ==
    \A j \in 1 .. r : w.depth[w.order[j]] < cap => Seen(w, w.order[j], Len(H[w.order[j]]), H)

\* Between two rounds.
Between(w, r, seeds, cap, H) ==
    /\ Sound(w, r, seeds, cap, H) /\ SeenUpTo(w, r, cap, H)
    /\ r < Len(w.order) => NoDeeper(w, w.order[r + 1])

\* Within the round of the thought m, the last that was taken, after k hops.
Amid(w, m, r, k, seeds, cap, H) ==
    /\ Sound(w, r, seeds, cap, H) /\ r \in 1 .. Len(w.order) /\ m = w.order[r]
    /\ w.depth[m] < cap /\ SeenUpTo(w, r - 1, cap, H)
    /\ k \in 0 .. Len(H[m]) /\ Seen(w, m, k, H) /\ NoDeeper(w, m)

LEMMA SubSeqOfAppend ==
    ASSUME NEW S, NEW s \in Seq(S), NEW e \in S, NEW m \in 0 .. Len(s)
    PROVE  SubSeq(Append(s, e), m + 1, Len(s) + 1) = Append(SubSeq(s, m + 1, Len(s)), e)
  <1>. DEFINE a == SubSeq(Append(s, e), m + 1, Len(s) + 1)
              b == Append(SubSeq(s, m + 1, Len(s)), e)
  <1>0. Len(s) \in Nat /\ m \in Nat /\ m <= Len(s)
    OBVIOUS
  <1>1. /\ a \in Seq(S) /\ Len(a) = Len(s) + 1 - m
        /\ \A i \in 1 .. Len(s) + 1 - m : a[i] = Append(s, e)[m + i]
    <2>. DEFINE t == Append(s, e)
    <2>1. t \in Seq(S) /\ Len(t) = Len(s) + 1
      BY AppendProperties
    <2>. HIDE DEF t
    <2>2. m + 1 \in Int /\ Len(s) + 1 \in Int /\ \A i \in m + 1 .. Len(s) + 1 : t[i] \in S
      BY <1>0, <2>1
    <2>3. /\ SubSeq(t, m + 1, Len(s) + 1) \in Seq(S)
          /\ Len(SubSeq(t, m + 1, Len(s) + 1))
               = IF m + 1 <= Len(s) + 1 THEN Len(s) + 1 - (m + 1) + 1 ELSE 0
          /\ \A i \in 1 .. Len(s) + 1 - (m + 1) + 1 :
               SubSeq(t, m + 1, Len(s) + 1)[i] = t[m + 1 + i - 1]
      BY <2>2, SubSeqProperties
    <2>4. a = SubSeq(t, m + 1, Len(s) + 1)
      BY DEF t
    <2>. HIDE DEF a
    <2>5. /\ a \in Seq(S) /\ Len(a) = Len(s) + 1 - m
          /\ \A i \in 1 .. Len(s) + 1 - m : a[i] = t[m + i]
      BY <1>0, <2>3, <2>4
    <2>. QED  BY <2>5 DEF t
  <1>2. /\ b \in Seq(S) /\ Len(b) = Len(s) - m + 1
        /\ \A i \in 1 .. Len(s) - m : b[i] = s[m + i]
        /\ b[Len(s) - m + 1] = e
    <2>. DEFINE u == SubSeq(s, m + 1, Len(s))
    <2>1. /\ u \in Seq(S) /\ Len(u) = Len(s) - m
          /\ \A i \in 1 .. Len(s) - m : u[i] = s[m + i]
      <3>1. m + 1 \in Int /\ Len(s) \in Int /\ \A i \in m + 1 .. Len(s) : s[i] \in S
        BY <1>0
      <3>2. /\ u \in Seq(S)
            /\ Len(u) = IF m + 1 <= Len(s) THEN Len(s) - (m + 1) + 1 ELSE 0
            /\ \A i \in 1 .. Len(s) - (m + 1) + 1 : u[i] = s[m + 1 + i - 1]
        BY <3>1, SubSeqProperties
      <3>. HIDE DEF u
      <3>. QED  BY <1>0, <3>2
    <2>2. b = Append(u, e)
      OBVIOUS
    <2>. HIDE DEF u, b
    <2>3. /\ b \in Seq(S) /\ Len(b) = Len(u) + 1
          /\ \A i \in 1 .. Len(u) : b[i] = u[i]
          /\ b[Len(u) + 1] = e
      BY <2>1, <2>2, AppendProperties
    <2>. QED  BY <2>1, <2>3
  <1>3. \A i \in 1 .. Len(s) + 1 - m :
           Append(s, e)[m + i] = IF i = Len(s) - m + 1 THEN e ELSE s[m + i]
    OBVIOUS
  <1>4. \A i \in 1 .. Len(s) + 1 - m : a[i] = b[i]
    <2>. HIDE DEF a, b
    <2>. QED  BY <1>1, <1>2, <1>3
  <1>. HIDE DEF a, b
  <1>5. a \in Seq(S) /\ b \in Seq(S) /\ Len(a) = Len(b) /\ \A i \in 1 .. Len(a) : a[i] = b[i]
    BY <1>0, <1>1, <1>2, <1>4
  <1>6. a = b
    BY <1>5, SeqEqual
  <1>. QED  BY <1>6 DEF a, b

\* The walk v is w with one thought more, that a hop of node leads to.
GrewBy(v, w, r, node, hop, H) ==
    /\ v = [queue |-> v.queue, order |-> v.order, depth |-> v.depth, via |-> v.via,
            links |-> v.links]
    /\ v.order \in Seq(DOMAIN H) /\ Len(v.order) = Len(w.order) + 1
    /\ \A j \in 1 .. Len(w.order) : v.order[j] = w.order[j]
    /\ v.order[Len(w.order) + 1] = hop.to
    /\ ToSet(v.order) = ToSet(w.order) \cup {hop.to}
    /\ v.queue = SubSeq(v.order, r + 1, Len(v.order))
    /\ v.depth = [n \in ToSet(v.order) |-> v.depth[n]]
    /\ v.depth[hop.to] = w.depth[node] + 1
    /\ \A n \in ToSet(w.order) : v.depth[n] = w.depth[n]
    /\ DOMAIN v.via = DOMAIN w.via \cup {hop.to} /\ v.via[hop.to] = hop
    /\ \A n \in DOMAIN w.via : v.via[n] = w.via[n]
    /\ DOMAIN v.links = ToSet(v.order) /\ v.links[hop.to] = <<>>
    /\ \A n \in ToSet(w.order) : v.links[n] = w.links[n]

LEMMA MetGrows ==
    ASSUME NEW H, NEW seeds, NEW cap \in Nat, NEW w, NEW r, Sound(w, r, seeds, cap, H),
           NEW node \in ToSet(w.order), NEW hop, hop.to \in DOMAIN H, hop.to \notin ToSet(w.order)
    PROVE  GrewBy(Met(w, node, hop), w, r, node, hop, H)
  <1>. DEFINE v == Met(w, node, hop)
              x == hop.to
  <1>1. /\ v.queue = Append(w.queue, x) /\ v.order = Append(w.order, x)
        /\ v.depth = Also(w.depth, x, w.depth[node] + 1)
        /\ v.via = Also(w.via, x, hop) /\ v.links = Also(w.links, x, <<>>)
        /\ v = [queue |-> v.queue, order |-> v.order, depth |-> v.depth, via |-> v.via,
                links |-> v.links]
    BY DEF Met
  <1>. HIDE DEF v, x
  <1>2. /\ w.order \in Seq(DOMAIN H) /\ r \in 0 .. Len(w.order)
        /\ w.queue = SubSeq(w.order, r + 1, Len(w.order))
        /\ DOMAIN w.depth = ToSet(w.order) /\ DOMAIN w.links = ToSet(w.order)
        /\ DOMAIN w.via \in SUBSET ToSet(w.order)
        /\ x \in DOMAIN H /\ x \notin ToSet(w.order)
    BY DEF Sound, x
  <1>3. /\ v.order \in Seq(DOMAIN H) /\ Len(v.order) = Len(w.order) + 1
        /\ \A j \in 1 .. Len(w.order) : v.order[j] = w.order[j]
        /\ v.order[Len(w.order) + 1] = x
    BY <1>1, <1>2
  <1>4. ToSet(v.order) = ToSet(w.order) \cup {x}
    <2>1. DOMAIN v.order = 1 .. Len(w.order) + 1 /\ DOMAIN w.order = 1 .. Len(w.order)
          /\ Len(w.order) \in Nat
      BY <1>2, <1>3
    <2>2. \A j \in 1 .. Len(w.order) + 1 : j \in 1 .. Len(w.order) \/ j = Len(w.order) + 1
      BY <2>1
    <2>3. \A j \in 1 .. Len(w.order) : j \in 1 .. Len(w.order) + 1
      BY <2>1
    <2>4. ASSUME NEW e \in ToSet(v.order) PROVE e \in ToSet(w.order) \cup {x}
      BY <1>3, <2>1, <2>2 DEF ToSet
    <2>5. ASSUME NEW e \in ToSet(w.order) PROVE e \in ToSet(v.order)
      <3>1. PICK j \in 1 .. Len(w.order) : w.order[j] = e
        BY <2>1 DEF ToSet
      <3>2. j \in DOMAIN v.order /\ v.order[j] = e
        BY <1>3, <2>1, <2>3, <3>1
      <3>. QED  BY <3>2 DEF ToSet
    <2>6. x \in ToSet(v.order)
      BY <1>3, <2>1 DEF ToSet
    <2>. QED  BY <2>4, <2>5, <2>6
  <1>5. v.queue = SubSeq(v.order, r + 1, Len(v.order))
    <2>1. SubSeq(Append(w.order, x), r + 1, Len(w.order) + 1)
            = Append(SubSeq(w.order, r + 1, Len(w.order)), x)
      BY <1>2, SubSeqOfAppend
    <2>. QED  BY <1>1, <1>2, <1>3, <2>1
  <1>6. /\ v.depth = [n \in ToSet(v.order) |-> v.depth[n]] /\ v.depth[x] = w.depth[node] + 1
        /\ \A n \in ToSet(w.order) : v.depth[n] = w.depth[n]
    BY <1>1, <1>2, <1>4 DEF Also
  <1>7. /\ DOMAIN v.via = DOMAIN w.via \cup {x} /\ v.via[x] = hop
        /\ \A n \in DOMAIN w.via : v.via[n] = w.via[n]
    BY <1>1, <1>2 DEF Also
  <1>8. /\ DOMAIN v.links = ToSet(v.order) /\ v.links[x] = <<>>
        /\ \A n \in ToSet(w.order) : v.links[n] = w.links[n]
    BY <1>1, <1>2, <1>4 DEF Also
  <1>. QED  BY <1>1, <1>3, <1>4, <1>5, <1>6, <1>7, <1>8 DEF v, x, GrewBy

\* Following one hop keeps the invariant.
LEMMA MeetKeeps ==
    ASSUME NEW H, HopTable(H), NEW seeds, NEW cap \in Nat, NEW w, NEW r, NEW m,
           NEW k \in Nat \ {0}, Amid(w, m, r, k - 1, seeds, cap, H), k <= Len(H[m])
    PROVE  Amid(Meet(w, m, H[m][k]), m, r, k, seeds, cap, H)
  <1>. DEFINE hop == H[m][k]
              x == hop.to
              L == Len(w.order)
  <1>1. /\ Sound(w, r, seeds, cap, H) /\ r \in 1 .. L /\ m = w.order[r]
        /\ w.depth[m] < cap /\ SeenUpTo(w, r - 1, cap, H)
        /\ Seen(w, m, k - 1, H) /\ NoDeeper(w, m)
    BY DEF Amid
  <1>2. /\ w.order \in Seq(DOMAIN H) /\ L \in Nat /\ DOMAIN w.order = 1 .. L
        /\ \A n : n \in ToSet(w.order) <=> \E j \in 1 .. L : w.order[j] = n
        /\ \A j \in 1 .. L : w.order[j] \in ToSet(w.order) /\ w.order[j] \in DOMAIN H
        /\ w.depth \in [ToSet(w.order) -> 0 .. cap]
    <2>1. w.order \in Seq(DOMAIN H) /\ w.depth \in [ToSet(w.order) -> 0 .. cap]
      BY <1>1 DEF Sound
    <2>2. L \in Nat /\ DOMAIN w.order = 1 .. L
      BY <2>1
    <2>. QED  BY <2>1, <2>2 DEF ToSet
  <1>2a. L \in Nat
    BY <1>2
  <1>2b. \A j \in 1 .. L : w.order[j] \in ToSet(w.order)
    BY <1>2
  <1>3. /\ m \in ToSet(w.order) /\ m \in DOMAIN H /\ x \in DOMAIN H
        /\ Len(H[m]) \in Nat /\ k \in 1 .. Len(H[m]) /\ w.depth[m] \in Nat
    <2>1. m \in ToSet(w.order) /\ m \in DOMAIN H
      BY <1>1, <1>2
    <2>2. Len(H[m]) \in Nat /\ \A i \in 1 .. Len(H[m]) : H[m][i].to \in DOMAIN H
      BY <2>1 DEF HopTable
    <2>3. k \in 1 .. Len(H[m])
      BY <2>2
    <2>4. w.depth[m] \in 0 .. cap
      BY <1>2, <2>1
    <2>. QED  BY <2>1, <2>2, <2>3, <2>4
  <1>4. \A i \in 1 .. k : i \in 1 .. k - 1 \/ i = k
    OBVIOUS
  <1>5. CASE x \in ToSet(w.order)
    <2>1. Meet(w, m, hop) = w
      BY <1>2, <1>5 DEF Meet
    <2>2. w.depth[x] <= w.depth[m] + 1
      BY <1>1, <1>2, <1>5 DEF NoDeeper
    <2>3. Seen(w, m, k, H)
      BY <1>1, <1>4, <1>5, <2>2 DEF Seen
    <2>. QED  BY <1>1, <1>3, <2>1, <2>3 DEF Amid
  <1>6. CASE x \notin ToSet(w.order)
    <2>. DEFINE v == Met(w, m, hop)
    <2>1. Meet(w, m, hop) = v
      BY <1>2, <1>6 DEF Meet
    <2>2a. GrewBy(v, w, r, m, hop, H)
      <3>. HIDE DEF hop
      <3>. QED  BY <1>1, <1>3, <1>6, MetGrows
    <2>. HIDE DEF v
    <2>2. /\ v = [queue |-> v.queue, order |-> v.order, depth |-> v.depth, via |-> v.via,
                  links |-> v.links]
          /\ v.order \in Seq(DOMAIN H) /\ Len(v.order) = L + 1
          /\ \A j \in 1 .. L : v.order[j] = w.order[j]
          /\ v.order[L + 1] = x
          /\ ToSet(v.order) = ToSet(w.order) \cup {x}
          /\ v.queue = SubSeq(v.order, r + 1, Len(v.order))
          /\ v.depth = [n \in ToSet(v.order) |-> v.depth[n]] /\ v.depth[x] = w.depth[m] + 1
          /\ \A n \in ToSet(w.order) : v.depth[n] = w.depth[n]
          /\ DOMAIN v.via = DOMAIN w.via \cup {x} /\ v.via[x] = hop
          /\ \A n \in DOMAIN w.via : v.via[n] = w.via[n]
          /\ DOMAIN v.links = ToSet(v.order) /\ v.links[x] = <<>>
          /\ \A n \in ToSet(w.order) : v.links[n] = w.links[n]
      BY <2>2a DEF GrewBy
    <2>2b. v.depth[x] = w.depth[m] + 1 /\ w.depth[m] \in Nat /\ w.depth[m] < cap
      BY <1>1, <1>3, <2>2
    <2>2c. /\ \A j \in 1 .. L : v.order[j] = w.order[j]
           /\ \A n \in ToSet(w.order) : v.depth[n] = w.depth[n]
      BY <2>2
    <2>3. v.depth \in [ToSet(v.order) -> 0 .. cap]
      <3>1. \A n \in ToSet(w.order) : v.depth[n] \in 0 .. cap
        BY <1>2, <2>2
      <3>2. v.depth[x] \in 0 .. cap
        BY <2>2b
      <3>3. \A n \in ToSet(v.order) : v.depth[n] \in 0 .. cap
        BY <2>2, <3>1, <3>2
      <3>4. v.depth = [n \in ToSet(v.order) |-> v.depth[n]]
        BY <2>2
      <3>. QED  BY <3>3, <3>4
    <2>4. \A j \in 1 .. L + 1 : j \in 1 .. L \/ j = L + 1
      BY <1>2a
    <2>4a. \A j \in 1 .. L : v.depth[v.order[j]] = w.depth[w.order[j]]
      BY <1>2b, <2>2c
    <2>5. \A i, j \in 1 .. L + 1 :
            i < j => v.order[i] # v.order[j] /\ v.depth[v.order[i]] <= v.depth[v.order[j]]
      <3>1. SUFFICES ASSUME NEW i \in 1 .. L + 1, NEW j \in 1 .. L + 1, i < j
                     PROVE  v.order[i] # v.order[j] /\ v.depth[v.order[i]] <= v.depth[v.order[j]]
        OBVIOUS
      <3>2. i \in 1 .. L
        BY <1>2, <3>1
      <3>3. CASE j \in 1 .. L
        <4>1. w.order[i] # w.order[j] /\ w.depth[w.order[i]] <= w.depth[w.order[j]]
          BY <1>1, <3>1, <3>2, <3>3 DEF Sound
        <4>. QED  BY <2>2, <2>4a, <3>2, <3>3, <4>1
      <3>4. CASE j = L + 1
        <4>1. w.depth[w.order[i]] <= w.depth[m] + 1
          BY <1>1, <3>2 DEF NoDeeper
        <4>2. v.order[i] # x
          BY <1>2, <1>6, <2>2, <3>2
        <4>. QED  BY <2>2, <2>4a, <3>2, <3>4, <4>1, <4>2
      <3>. QED  BY <2>4, <3>3, <3>4
    <2>6. ToSet(seeds) = {n \in ToSet(v.order) : v.depth[n] = 0}
      <3>1. ToSet(seeds) = {n \in ToSet(w.order) : w.depth[n] = 0}
        BY <1>1 DEF Sound
      <3>2. v.depth[x] # 0
        BY <1>3, <2>2
      <3>. QED  BY <2>2, <3>1, <3>2
    <2>7. DOMAIN v.via = {n \in ToSet(v.order) : v.depth[n] # 0}
      <3>1. DOMAIN w.via = {n \in ToSet(w.order) : w.depth[n] # 0}
        BY <1>1 DEF Sound
      <3>2. v.depth[x] # 0
        BY <1>3, <2>2
      <3>. QED  BY <2>2, <3>1, <3>2
    <2>8. \A n \in DOMAIN v.via : \E p \in ToSet(v.order) : CameFrom(v, p, n, H)
      <3>1. SUFFICES ASSUME NEW n \in DOMAIN v.via
                     PROVE  \E p \in ToSet(v.order) : CameFrom(v, p, n, H)
        OBVIOUS
      <3>2. CASE n = x
        <4>1. v.depth[m] = v.depth[n] - 1
          BY <1>3, <2>2, <3>2
        <4>2. CameFrom(v, m, n, H)
          BY <1>3, <2>2, <3>2, <4>1 DEF CameFrom
        <4>. QED  BY <1>3, <2>2, <4>2
      <3>3. CASE n # x
        <4>1. n \in DOMAIN w.via
          BY <2>2, <3>1, <3>3
        <4>2. PICK p \in ToSet(w.order) : CameFrom(w, p, n, H)
          BY <1>1, <4>1 DEF Sound
        <4>3. n \in ToSet(w.order)
          BY <1>1, <4>1 DEF Sound
        <4>4. CameFrom(v, p, n, H)
          BY <2>2, <4>1, <4>2, <4>3 DEF CameFrom
        <4>. QED  BY <2>2, <4>4
      <3>. QED  BY <3>2, <3>3
    <2>9. \A j \in 1 .. L + 1 :
            v.links[v.order[j]] =
                IF j <= r /\ v.depth[v.order[j]] < cap THEN H[v.order[j]] ELSE <<>>
      <3>1. SUFFICES ASSUME NEW j \in 1 .. L + 1
                     PROVE  v.links[v.order[j]] =
                              IF j <= r /\ v.depth[v.order[j]] < cap THEN H[v.order[j]] ELSE <<>>
        OBVIOUS
      <3>2. CASE j \in 1 .. L
        <4>1. w.links[w.order[j]] =
                IF j <= r /\ w.depth[w.order[j]] < cap THEN H[w.order[j]] ELSE <<>>
          BY <1>1, <3>2 DEF Sound
        <4>2. v.links[v.order[j]] = w.links[w.order[j]]
          BY <1>2, <2>2, <3>2
        <4>. QED  BY <2>2, <2>4a, <3>2, <4>1, <4>2
      <3>3. CASE j = L + 1
        <4>1. ~(j <= r)
          BY <1>1, <1>2, <3>3
        <4>. QED  BY <2>2, <3>3, <4>1
      <3>. QED  BY <2>4, <3>2, <3>3
    <2>10. r \in 0 .. L + 1 /\ r \in 1 .. L + 1
      BY <1>1, <1>2
    <2>11. Sound(v, r, seeds, cap, H)
      BY <2>2, <2>3, <2>5, <2>6, <2>7, <2>8, <2>9, <2>10 DEF Sound
    <2>12. /\ m = v.order[r] /\ v.depth[m] = w.depth[m]
      BY <1>1, <1>3, <2>2
    <2>13. SeenUpTo(v, r - 1, cap, H)
      <3>1. SUFFICES ASSUME NEW j \in 1 .. r - 1, v.depth[v.order[j]] < cap
                     PROVE  Seen(v, v.order[j], Len(H[v.order[j]]), H)
        BY DEF SeenUpTo
      <3>2. j \in 1 .. L
        BY <1>1, <1>2
      <3>3. v.order[j] = w.order[j] /\ w.depth[w.order[j]] < cap
        BY <2>2, <2>4a, <3>1, <3>2
      <3>4. Seen(w, w.order[j], Len(H[w.order[j]]), H)
        BY <1>1, <3>3 DEF SeenUpTo
      <3>5. v.depth[w.order[j]] = w.depth[w.order[j]]
        BY <1>2, <2>2, <3>2
      <3>. QED  BY <2>2, <3>3, <3>4, <3>5 DEF Seen
    <2>14. Seen(v, m, k, H)
      <3>1. SUFFICES ASSUME NEW i \in 1 .. k
                     PROVE  /\ H[m][i].to \in ToSet(v.order)
                            /\ v.depth[H[m][i].to] <= v.depth[m] + 1
        BY DEF Seen
      <3>2. CASE i \in 1 .. k - 1
        <4>1. H[m][i].to \in ToSet(w.order) /\ w.depth[H[m][i].to] <= w.depth[m] + 1
          BY <1>1, <3>2 DEF Seen
        <4>. QED  BY <2>2, <2>12, <4>1
      <3>3. CASE i = k
        <4>1. H[m][i].to = x /\ x \in ToSet(v.order)
          BY <2>2, <3>3
        <4>2. v.depth[x] <= v.depth[m] + 1
          BY <2>2b, <2>12
        <4>. QED  BY <4>1, <4>2
      <3>. QED  BY <1>4, <3>2, <3>3
    <2>15. NoDeeper(v, m)
      <3>1. SUFFICES ASSUME NEW j \in 1 .. L + 1 PROVE v.depth[v.order[j]] <= v.depth[m] + 1
        BY <2>2 DEF NoDeeper
      <3>2. CASE j \in 1 .. L
        BY <1>1, <2>4a, <2>12, <3>2 DEF NoDeeper
      <3>3. CASE j = L + 1
        <4>1. v.order[j] = x
          BY <2>2, <3>3
        <4>2. v.depth[x] <= v.depth[m] + 1
          BY <2>2b, <2>12
        <4>. QED  BY <4>1, <4>2
      <3>. QED  BY <2>4, <3>2, <3>3
    <2>16. k \in 0 .. Len(H[m])
      BY <1>3
    <2>. QED  BY <1>1, <2>1, <2>2, <2>10, <2>11, <2>12, <2>13, <2>14, <2>15, <2>16 DEF Amid
  <1>. QED  BY <1>5, <1>6

\* All hops of m, one after the other.
LEMMA FollowKeeps ==
    ASSUME NEW H, HopTable(H), NEW seeds, NEW cap \in Nat, NEW w, NEW r, NEW m,
           Amid([w EXCEPT !.links = Also(@, m, H[m])], m, r, 0, seeds, cap, H)
    PROVE  Amid(Follow(w, m, H[m]), m, r, Len(H[m]), seeds, cap, H)
  <1>. DEFINE n == Len(H[m])
  <1>1. n \in Nat
    <2>1. m \in DOMAIN H
      BY DEF Amid, Sound
    <2>. QED  BY <2>1 DEF HopTable
  <1>2. PICK met : Follows(met, w, m, H[m])
    BY <1>1, FollowSteps
  <1>3. /\ Follow(w, m, H[m]) = met[n]
        /\ met[0] = [w EXCEPT !.links = Also(@, m, H[m])]
        /\ \A k \in 1 .. n : met[k] = Meet(met[k - 1], m, H[m][k])
    BY <1>2 DEF Follows
  <1>. DEFINE Ok(k) == Amid(met[k], m, r, k, seeds, cap, H)
              bad == {k \in 0 .. n : ~Ok(k)}
  <1>4. Ok(0)
    BY <1>3
  <1>5. ASSUME NEW k \in 1 .. n, Ok(k - 1) PROVE Ok(k)
    <2>1. k \in Nat \ {0} /\ k <= n
      BY <1>1
    <2>2. Amid(Meet(met[k - 1], m, H[m][k]), m, r, k, seeds, cap, H)
      BY <1>5, <2>1, MeetKeeps
    <2>. QED  BY <1>3, <2>2
  <1>. HIDE DEF Ok
  <1>6. bad = {}
    <2>1. SUFFICES ASSUME bad # {} PROVE FALSE
      OBVIOUS
    <2>2. PICK k \in bad : \A j \in bad : k <= j
      <3>1. bad \in SUBSET Nat
        BY <1>1
      <3>. HIDE DEF bad
      <3>. QED  BY <2>1, <3>1, LeastOfNat
    <2>3. k \in 0 .. n /\ ~Ok(k)
      OBVIOUS
    <2>4. k \in 1 .. n /\ k - 1 \in 0 .. n /\ ~(k <= k - 1)
      BY <1>1, <1>4, <2>3
    <2>5. k - 1 \notin bad
      <3>. HIDE DEF bad
      <3>. QED  BY <2>2, <2>4
    <2>6. Ok(k - 1)
      BY <2>4, <2>5
    <2>. QED  BY <1>5, <2>3, <2>4, <2>6
  <1>7. Ok(n)
    BY <1>1, <1>6
  <1>. QED  BY <1>3, <1>7 DEF Ok

LEMMA RecordUpdates ==
    ASSUME NEW p, NEW a, NEW b, NEW c, NEW d, NEW e, NEW x,
           p = [queue |-> a, order |-> b, depth |-> c, via |-> d, links |-> e]
    PROVE  /\ [p EXCEPT !.queue = x] = [queue |-> x, order |-> b, depth |-> c, via |-> d, links |-> e]
           /\ [p EXCEPT !.links = x] = [queue |-> a, order |-> b, depth |-> c, via |-> d, links |-> x]
  OBVIOUS

\* The head of the queue is taken.
LEMMA Pops ==
    ASSUME NEW H, HopTable(H), NEW seeds, NEW cap \in Nat, NEW w, NEW r,
           Between(w, r, seeds, cap, H), r < Len(w.order)
    PROVE  LET m == w.order[r + 1]
               p == [w EXCEPT !.queue = Tail(@)]
           IN  /\ w.queue # <<>> /\ Head(w.queue) = m
               /\ w.depth[m] >= cap => Between(p, r + 1, seeds, cap, H)
               /\ w.depth[m] < cap =>
                    Amid([p EXCEPT !.links = Also(@, m, H[m])], m, r + 1, 0, seeds, cap, H)
  <1>. DEFINE L == Len(w.order)
              m == w.order[r + 1]
              p == [w EXCEPT !.queue = Tail(@)]
              q == [p EXCEPT !.links = Also(@, m, H[m])]
  <1>1. /\ Sound(w, r, seeds, cap, H) /\ SeenUpTo(w, r, cap, H) /\ NoDeeper(w, m)
    BY DEF Between
  <1>2. w.order \in Seq(DOMAIN H) /\ w.depth \in [ToSet(w.order) -> 0 .. cap] /\ r \in 0 .. L
        /\ w.queue = SubSeq(w.order, r + 1, L)
        /\ w = [queue |-> w.queue, order |-> w.order, depth |-> w.depth, via |-> w.via,
                links |-> w.links]
    BY <1>1 DEF Sound
  <1>3. /\ L \in Nat /\ r \in Nat /\ r + 1 \in 1 .. L /\ DOMAIN w.order = 1 .. L
        /\ \A j \in 1 .. L : w.order[j] \in ToSet(w.order) /\ w.order[j] \in DOMAIN H
    <2>1. L \in Nat /\ r \in Nat /\ r + 1 \in 1 .. L /\ DOMAIN w.order = 1 .. L
      BY <1>2
    <2>. QED  BY <1>2, <2>1 DEF ToSet
  <1>4. Head(w.queue) = m /\ Tail(w.queue) = SubSeq(w.order, r + 2, L) /\ w.queue # <<>>
    <2>1. /\ Head(SubSeq(w.order, r + 1, L)) = m
          /\ Tail(SubSeq(w.order, r + 1, L)) = SubSeq(w.order, r + 1 + 1, L)
      <3>1. r + 1 \in 1 .. Len(w.order) /\ L \in r + 1 .. Len(w.order)
        BY <1>3
      <3>. QED  BY <1>2, <3>1, HeadTailOfSubSeq
    <2>2. Len(SubSeq(w.order, r + 1, L)) = L - r
      BY <1>2, <1>3, SubSeqProperties
    <2>3. w.queue # <<>>
      <3>1. L - r # 0 /\ Len(w.queue) = L - r
        BY <1>2, <1>3, <2>2
      <3>2. Len(<<>>) = 0
        OBVIOUS
      <3>. QED  BY <3>1, <3>2
    <2>4. r + 1 + 1 = r + 2
      BY <1>3
    <2>. QED  BY <1>2, <2>1, <2>3, <2>4
  <1>5. /\ p = [queue |-> SubSeq(w.order, r + 2, L), order |-> w.order, depth |-> w.depth,
                via |-> w.via, links |-> w.links]
    <2>1. p = [w EXCEPT !.queue = SubSeq(w.order, r + 2, L)]
      BY <1>4
    <2>. HIDE DEF p
    <2>. QED  BY <1>2, <2>1, RecordUpdates
  <1>6. q = [queue |-> SubSeq(w.order, r + 2, L), order |-> w.order, depth |-> w.depth,
             via |-> w.via, links |-> Also(w.links, m, H[m])]
    <2>1. p.links = w.links
      BY <1>5
    <2>2. q = [p EXCEPT !.links = Also(w.links, m, H[m])]
      BY <2>1
    <2>. HIDE DEF p, q
    <2>. QED  BY <1>5, <2>2, RecordUpdates
  <1>7. \A v : /\ v.order = w.order /\ v.depth = w.depth /\ v.via = w.via
               /\ v.queue = SubSeq(w.order, r + 2, L)
               /\ v = [queue |-> v.queue, order |-> v.order, depth |-> v.depth, via |-> v.via,
                       links |-> v.links]
               /\ DOMAIN v.links = ToSet(w.order)
               /\ \A j \in 1 .. L :
                    v.links[w.order[j]] =
                      IF j <= r + 1 /\ w.depth[w.order[j]] < cap THEN H[w.order[j]] ELSE <<>>
               => Sound(v, r + 1, seeds, cap, H)
    <2>1. SUFFICES ASSUME NEW v, v.order = w.order, v.depth = w.depth, v.via = w.via,
                          v.queue = SubSeq(w.order, r + 2, L),
                          v = [queue |-> v.queue, order |-> v.order, depth |-> v.depth,
                               via |-> v.via, links |-> v.links],
                          DOMAIN v.links = ToSet(w.order),
                          \A j \in 1 .. L :
                            v.links[w.order[j]] =
                              IF j <= r + 1 /\ w.depth[w.order[j]] < cap THEN H[w.order[j]]
                              ELSE <<>>
                   PROVE  Sound(v, r + 1, seeds, cap, H)
      OBVIOUS
    <2>2. r + 1 \in 0 .. L /\ r + 2 = (r + 1) + 1
      BY <1>3
    <2>3. \A a \in DOMAIN w.via : \E b \in ToSet(w.order) : CameFrom(v, b, a, H)
      <3>1. SUFFICES ASSUME NEW a \in DOMAIN w.via
                     PROVE  \E b \in ToSet(w.order) : CameFrom(v, b, a, H)
        OBVIOUS
      <3>2. PICK b \in ToSet(w.order) : CameFrom(w, b, a, H)
        BY <1>1 DEF Sound
      <3>3. CameFrom(v, b, a, H)
        BY <2>1, <3>2 DEF CameFrom
      <3>. QED  BY <3>3
    <2>4. /\ \A i, j \in 1 .. L :
               i < j => w.order[i] # w.order[j] /\ w.depth[w.order[i]] <= w.depth[w.order[j]]
          /\ ToSet(seeds) = {n \in ToSet(w.order) : w.depth[n] = 0}
          /\ DOMAIN w.via = {n \in ToSet(w.order) : w.depth[n] # 0}
      BY <1>1 DEF Sound
    <2>. QED  BY <1>2, <2>1, <2>2, <2>3, <2>4 DEF Sound
  <1>8. /\ DOMAIN w.links = ToSet(w.order)
        /\ \A j \in 1 .. L :
             w.links[w.order[j]] =
               IF j <= r /\ w.depth[w.order[j]] < cap THEN H[w.order[j]] ELSE <<>>
    BY <1>1 DEF Sound
  <1>9. \A j \in 1 .. L : j <= r + 1 => j <= r \/ j = r + 1
    BY <1>3
  <1>10. w.depth[m] \in 0 .. cap
    BY <1>2, <1>3
  <1>11. ASSUME w.depth[m] >= cap PROVE Between(p, r + 1, seeds, cap, H)
    <2>1. ~(w.depth[m] < cap)
      BY <1>10, <1>11
    <2>2. \A j \in 1 .. L :
             w.links[w.order[j]] =
               IF j <= r + 1 /\ w.depth[w.order[j]] < cap THEN H[w.order[j]] ELSE <<>>
      <3>1. SUFFICES ASSUME NEW j \in 1 .. L
                     PROVE  w.links[w.order[j]] =
                              IF j <= r + 1 /\ w.depth[w.order[j]] < cap THEN H[w.order[j]]
                              ELSE <<>>
        OBVIOUS
      <3>2. CASE j = r + 1
        BY <1>3, <1>8, <2>1, <3>2
      <3>3. CASE j # r + 1
        <4>1. j <= r <=> j <= r + 1
          BY <1>3, <3>3
        <4>. QED  BY <1>8, <4>1
      <3>. QED  BY <3>2, <3>3
    <2>3. /\ p.order = w.order /\ p.depth = w.depth /\ p.via = w.via /\ p.links = w.links
          /\ p.queue = SubSeq(w.order, r + 2, L)
          /\ p = [queue |-> p.queue, order |-> p.order, depth |-> p.depth, via |-> p.via,
                  links |-> p.links]
      BY <1>5
    <2>. HIDE DEF p
    <2>4. Sound(p, r + 1, seeds, cap, H)
      BY <1>7, <1>8, <2>2, <2>3
    <2>5. SeenUpTo(p, r + 1, cap, H)
      <3>1. SUFFICES ASSUME NEW j \in 1 .. r + 1, w.depth[w.order[j]] < cap
                     PROVE  Seen(p, w.order[j], Len(H[w.order[j]]), H)
        BY <2>3 DEF SeenUpTo
      <3>2. j # r + 1
        BY <2>1, <3>1
      <3>3. j \in 1 .. r
        BY <1>3, <3>2
      <3>4. Seen(w, w.order[j], Len(H[w.order[j]]), H)
        BY <1>1, <3>1, <3>3 DEF SeenUpTo
      <3>. QED  BY <2>3, <3>4 DEF Seen
    <2>6. ASSUME r + 1 < L PROVE NoDeeper(p, w.order[r + 1 + 1])
      <3>1. r + 1 + 1 \in 1 .. L
        BY <1>3, <2>6
      <3>2. w.depth[w.order[r + 1]] <= w.depth[w.order[r + 1 + 1]]
        <4>1. r + 1 < r + 1 + 1
          BY <1>3
        <4>. QED  BY <1>1, <1>3, <3>1, <4>1 DEF Sound
      <3>3. w.depth[w.order[r + 1 + 1]] \in Nat
        BY <1>2, <1>3, <3>1
      <3>4. \A j \in 1 .. L : w.depth[w.order[j]] \in Nat
        BY <1>2, <1>3
      <3>5. \A j \in 1 .. L : w.depth[w.order[j]] <= w.depth[w.order[r + 1]] + 1
        BY <1>1 DEF NoDeeper
      <3>6. w.depth[w.order[r + 1]] \in Nat
        BY <1>10
      <3>7. \A j \in 1 .. L : w.depth[w.order[j]] <= w.depth[w.order[r + 1 + 1]] + 1
        <4>1. \A x, y, z \in Nat : x <= y + 1 /\ y <= z => x <= z + 1
          OBVIOUS
        <4>. QED  BY <3>2, <3>3, <3>4, <3>5, <3>6, <4>1
      <3>. QED  BY <2>3, <3>7 DEF NoDeeper
    <2>. QED  BY <2>3, <2>4, <2>5, <2>6 DEF Between
  <1>12. ASSUME w.depth[m] < cap PROVE Amid(q, m, r + 1, 0, seeds, cap, H)
    <2>1. /\ q.order = w.order /\ q.depth = w.depth /\ q.via = w.via
          /\ q.links = Also(w.links, m, H[m])
          /\ q.queue = SubSeq(w.order, r + 2, L)
          /\ q = [queue |-> q.queue, order |-> q.order, depth |-> q.depth, via |-> q.via,
                  links |-> q.links]
      BY <1>6
    <2>. HIDE DEF q, p
    <2>2. /\ DOMAIN q.links = ToSet(w.order) /\ q.links[m] = H[m]
          /\ \A n \in ToSet(w.order) : n # m => q.links[n] = w.links[n]
      BY <1>3, <1>8, <2>1 DEF Also
    <2>3. \A j \in 1 .. L :
             q.links[w.order[j]] =
               IF j <= r + 1 /\ w.depth[w.order[j]] < cap THEN H[w.order[j]] ELSE <<>>
      <3>1. SUFFICES ASSUME NEW j \in 1 .. L
                     PROVE  q.links[w.order[j]] =
                              IF j <= r + 1 /\ w.depth[w.order[j]] < cap THEN H[w.order[j]]
                              ELSE <<>>
        OBVIOUS
      <3>2. CASE j = r + 1
        BY <1>3, <1>12, <2>2, <3>2
      <3>3. CASE j # r + 1
        <4>1. w.order[j] # m
          <5>1. j < r + 1 \/ r + 1 < j
            BY <1>3, <3>3
          <5>. QED  BY <1>1, <1>3, <5>1 DEF Sound
        <4>2. j <= r <=> j <= r + 1
          BY <1>3, <3>3
        <4>3. q.links[w.order[j]] = w.links[w.order[j]]
          BY <1>3, <2>2, <4>1
        <4>. QED  BY <1>8, <4>2, <4>3
      <3>. QED  BY <3>2, <3>3
    <2>4. Sound(q, r + 1, seeds, cap, H)
      BY <1>7, <2>1, <2>2, <2>3
    <2>5. SeenUpTo(q, r + 1 - 1, cap, H)
      <3>1. r + 1 - 1 = r
        BY <1>3
      <3>2. SUFFICES ASSUME NEW j \in 1 .. r, w.depth[w.order[j]] < cap
                     PROVE  Seen(q, w.order[j], Len(H[w.order[j]]), H)
        BY <2>1, <3>1 DEF SeenUpTo
      <3>3. Seen(w, w.order[j], Len(H[w.order[j]]), H)
        BY <1>1, <3>2 DEF SeenUpTo
      <3>. QED  BY <2>1, <3>3 DEF Seen
    <2>6. NoDeeper(q, m)
      BY <1>1, <2>1 DEF NoDeeper
    <2>7. Len(H[m]) \in Nat
      BY <1>3 DEF HopTable
    <2>8. 0 \in 0 .. Len(H[m]) /\ Seen(q, m, 0, H)
      BY <2>7 DEF Seen
    <2>. QED  BY <1>3, <1>12, <2>1, <2>4, <2>5, <2>6, <2>8 DEF Amid
  <1>. QED  BY <1>4, <1>11, <1>12

LEMMA AmidEnds ==
    ASSUME NEW H, HopTable(H), NEW seeds, NEW cap \in Nat, NEW w, NEW r, NEW m,
           Amid(w, m, r, Len(H[m]), seeds, cap, H)
    PROVE  Between(w, r, seeds, cap, H)
  <1>. DEFINE L == Len(w.order)
  <1>1. /\ Sound(w, r, seeds, cap, H) /\ r \in 1 .. L /\ m = w.order[r]
        /\ w.depth[m] < cap /\ SeenUpTo(w, r - 1, cap, H)
        /\ Seen(w, m, Len(H[m]), H) /\ NoDeeper(w, m)
    BY DEF Amid
  <1>2. w.order \in Seq(DOMAIN H) /\ w.depth \in [ToSet(w.order) -> 0 .. cap]
    BY <1>1 DEF Sound
  <1>3. /\ L \in Nat /\ r \in Nat /\ \A j \in 1 .. r : j \in 1 .. r - 1 \/ j = r
        /\ \A j \in 1 .. L : w.order[j] \in ToSet(w.order)
    <2>1. L \in Nat /\ DOMAIN w.order = 1 .. L
      BY <1>2
    <2>2. r \in Nat /\ \A j \in 1 .. r : j \in 1 .. r - 1 \/ j = r
      BY <1>1, <2>1
    <2>. QED  BY <2>1, <2>2 DEF ToSet
  <1>4. SeenUpTo(w, r, cap, H)
    BY <1>1, <1>3 DEF SeenUpTo
  <1>5. ASSUME r < L PROVE NoDeeper(w, w.order[r + 1])
    <2>1. r + 1 \in 1 .. L /\ r < r + 1
      BY <1>3, <1>5
    <2>2. w.depth[m] <= w.depth[w.order[r + 1]]
      BY <1>1, <2>1 DEF Sound
    <2>3. \A j \in 1 .. L : w.depth[w.order[j]] \in Nat
      BY <1>2, <1>3
    <2>4. w.depth[m] \in Nat /\ w.depth[w.order[r + 1]] \in Nat
      BY <1>1, <2>1, <2>3
    <2>5. \A j \in 1 .. L : w.depth[w.order[j]] <= w.depth[m] + 1
      BY <1>1 DEF NoDeeper
    <2>6. \A x, y, z \in Nat : x <= y + 1 /\ y <= z => x <= z + 1
      OBVIOUS
    <2>7. \A j \in 1 .. L : w.depth[w.order[j]] <= w.depth[w.order[r + 1]] + 1
      BY <2>2, <2>3, <2>4, <2>5, <2>6
    <2>. QED  BY <2>7 DEF NoDeeper
  <1>. QED  BY <1>1, <1>4, <1>5 DEF Between

HopsOf(links, picked, notes) == [n \in notes |-> Hops(links, picked, n, notes)]

\* A round takes one more thought, if there is one.
Advances(w, v, r, seeds, cap, H) ==
    /\ r < Len(w.order) => Between(v, r + 1, seeds, cap, H)
    /\ r = Len(w.order) => v = w

LEMMA ExpandKeeps ==
    ASSUME NEW links, NEW picked, NEW notes, HopTable(HopsOf(links, picked, notes)),
           NEW seeds, NEW cap \in Nat, NEW w, NEW r,
           Between(w, r, seeds, cap, HopsOf(links, picked, notes))
    PROVE  Advances(w, Expand(w, cap, links, picked, notes), r, seeds, cap,
                    HopsOf(links, picked, notes))
  <1>. DEFINE H == HopsOf(links, picked, notes)
              v == Expand(w, cap, links, picked, notes)
              m == w.order[r + 1]
              p == [w EXCEPT !.queue = Tail(@)]
  <1>1. /\ w.order \in Seq(DOMAIN H) /\ DOMAIN H = notes /\ r \in 0 .. Len(w.order)
        /\ w.queue = SubSeq(w.order, r + 1, Len(w.order))
        /\ w.depth \in [ToSet(w.order) -> 0 .. cap]
    BY DEF Between, Sound, HopsOf
  <1>2. Len(w.order) \in Nat /\ DOMAIN w.order = 1 .. Len(w.order) /\ r \in Nat
    BY <1>1
  <1>3. ASSUME r = Len(w.order) PROVE v = w
    <2>1. r + 1 \in Int /\ Len(w.order) \in Int /\ Len(w.order) < r + 1
      BY <1>2, <1>3
    <2>2. w.queue = <<>>
      BY <1>1, <2>1, SubSeqEmpty
    <2>. QED  BY <2>2 DEF Expand
  <1>4. ASSUME r < Len(w.order) PROVE Between(v, r + 1, seeds, cap, H)
    <2>. HIDE DEF H
    <2>1. HopTable(H) /\ Between(w, r, seeds, cap, H)
      BY DEF H
    <2>2. /\ w.queue # <<>> /\ Head(w.queue) = m
          /\ w.depth[m] >= cap => Between(p, r + 1, seeds, cap, H)
          /\ w.depth[m] < cap =>
               Amid([p EXCEPT !.links = Also(@, m, H[m])], m, r + 1, 0, seeds, cap, H)
      BY <1>4, <2>1, Pops
    <2>3. m \in notes /\ m \in ToSet(w.order)
      BY <1>1, <1>2, <1>4 DEF ToSet
    <2>4. H[m] = Hops(links, picked, m, notes)
      BY <2>3 DEF H, HopsOf
    <2>5. CASE w.depth[m] >= cap
      <3>1. v = p
        BY <2>2, <2>5 DEF Expand
      <3>. QED  BY <2>2, <2>5, <3>1
    <2>6. CASE w.depth[m] < cap
      <3>1. ~(w.depth[m] >= cap)
        <4>1. w.depth[m] \in 0 .. cap
          BY <1>1, <2>3
        <4>. QED  BY <2>6, <4>1
      <3>2. v = Follow(p, m, H[m])
        BY <2>2, <2>4, <3>1 DEF Expand
      <3>. HIDE DEF p, v
      <3>3. Amid(v, m, r + 1, Len(H[m]), seeds, cap, H)
        BY <2>1, <2>2, <2>6, <3>2, FollowKeeps
      <3>. QED  BY <2>1, <3>3, AmidEnds
    <2>7. w.depth[m] >= cap \/ w.depth[m] < cap
      <3>1. w.depth[m] \in 0 .. cap
        BY <1>1, <2>3
      <3>. QED  BY <3>1
    <2>. QED  BY <2>5, <2>6, <2>7
  <1>. QED  BY <1>3, <1>4 DEF Advances

LEMMA StartIsBetween ==
    ASSUME NEW H, NEW seeds \in Seq(DOMAIN H), NEW cap \in Nat,
           \A i, j \in 1 .. Len(seeds) : i < j => seeds[i] # seeds[j]
    PROVE  Between(Start(seeds), 0, seeds, cap, H)
  <1>. DEFINE w == Start(seeds)
  <1>1. /\ w.queue = seeds /\ w.order = seeds /\ w.depth = [n \in ToSet(seeds) |-> 0]
        /\ w.via = <<>> /\ w.links = [n \in ToSet(seeds) |-> <<>>]
        /\ w = [queue |-> w.queue, order |-> w.order, depth |-> w.depth, via |-> w.via,
                links |-> w.links]
    BY DEF Start
  <1>. HIDE DEF w
  <1>2. Len(seeds) \in Nat /\ DOMAIN seeds = 1 .. Len(seeds)
        /\ \A j \in 1 .. Len(seeds) : seeds[j] \in ToSet(seeds)
    BY DEF ToSet
  <1>3. SubSeq(w.order, 0 + 1, Len(w.order)) = seeds
    BY <1>1, SubSeqFull
  <1>4. \A n \in ToSet(seeds) : w.depth[n] = 0 /\ w.links[n] = <<>>
    BY <1>1
  <1>5. DOMAIN w.via = {}
    BY <1>1
  <1>6. w.depth \in [ToSet(seeds) -> 0 .. cap]
    BY <1>1
  <1>7. \A i, j \in 1 .. Len(seeds) :
           i < j => seeds[i] # seeds[j] /\ w.depth[seeds[i]] <= w.depth[seeds[j]]
    BY <1>2, <1>4
  <1>8. /\ ToSet(seeds) = {n \in ToSet(seeds) : w.depth[n] = 0}
        /\ DOMAIN w.via = {n \in ToSet(seeds) : w.depth[n] # 0}
    BY <1>4, <1>5
  <1>9. 0 \in 0 .. Len(seeds) /\ \A j \in 1 .. Len(seeds) : ~(j <= 0)
    BY <1>2
  <1>10. DOMAIN w.links = ToSet(seeds)
    BY <1>1
  <1>11. \A j \in 1 .. Len(seeds) : w.links[seeds[j]] = <<>>
    BY <1>2, <1>4
  <1>12. Sound(w, 0, seeds, cap, H)
    BY <1>1, <1>3, <1>5, <1>6, <1>7, <1>8, <1>9, <1>10, <1>11 DEF Sound
  <1>13. SeenUpTo(w, 0, cap, H)
    BY DEF SeenUpTo
  <1>14. ASSUME 0 < Len(seeds) PROVE NoDeeper(w, seeds[1])
    BY <1>1, <1>2, <1>4, <1>14 DEF NoDeeper
  <1>15. Between(w, 0, seeds, cap, H)
    BY <1>1, <1>12, <1>13, <1>14 DEF Between
  <1>. QED  BY <1>15 DEF w

LEMMA DistinctCounts ==
    ASSUME NEW S, NEW s \in Seq(S), \A i, j \in 1 .. Len(s) : i < j => s[i] # s[j]
    PROVE  Len(s) = Cardinality(ToSet(s)) /\ IsFiniteSet(ToSet(s))
  <1>. DEFINE places == 1 .. Len(s)
              T == ToSet(s)
              f == [i \in places |-> s[i]]
  <1>1. Len(s) \in Nat /\ DOMAIN s = places
    OBVIOUS
  <1>2. IsFiniteSet(places) /\ Cardinality(places) = Len(s)
    <2>1. PICK n \in Nat : n = Len(s)
      BY <1>1
    <2>2. IsFiniteSet(1 .. n) /\ Cardinality(1 .. n) = n
      BY FS_Interval
    <2>. QED  BY <2>1, <2>2
  <1>3. \A x : x \in T <=> \E i \in places : s[i] = x
    BY <1>1 DEF ToSet
  <1>4. f \in [places -> T] /\ \A x \in T : \E i \in places : f[i] = x
    <2>. HIDE DEF places, T
    <2>. QED  BY <1>3
  <1>5. f \in Surjection(places, T)
    <2>. HIDE DEF places, T, f
    <2>. QED  BY <1>4, Fun_IsSurj
  <1>6. \A i, j \in places : f[i] = f[j] => i = j
    <2>1. SUFFICES ASSUME NEW i \in places, NEW j \in places, s[i] = s[j] PROVE i = j
      OBVIOUS
    <2>2. ~(i < j) /\ ~(j < i)
      BY <2>1
    <2>. QED  BY <1>1, <2>2
  <1>7. f \in Injection(places, T)
    <2>. HIDE DEF places, T, f
    <2>. QED  BY <1>4, <1>6, Fun_IsInj
  <1>8. Cardinality(T) = Cardinality(places) /\ IsFiniteSet(T)
    <2>. HIDE DEF places, T, f
    <2>. QED  BY <1>2, <1>5, <1>7, FS_Surjection
  <1>. QED  BY <1>2, <1>8

\* After as many rounds as there are thoughts the queue is empty.
LEMMA WalkEnds ==
    ASSUME NEW links, NEW picked, NEW notes, IsFiniteSet(notes),
           HopTable(HopsOf(links, picked, notes)),
           NEW seeds \in Seq(notes), NEW cap \in Nat,
           \A i, j \in 1 .. Len(seeds) : i < j => seeds[i] # seeds[j]
    PROVE  LET w == Walk(seeds, cap, links, picked, notes)
           IN  Between(w, Len(w.order), seeds, cap, HopsOf(links, picked, notes))
  <1>. DEFINE H == HopsOf(links, picked, notes)
              N == Cardinality(notes)
              Good(w, r) == Between(w, r, seeds, cap, H)
  <1>1. notes \cup ToSet(seeds) = notes /\ DOMAIN H = notes
    BY DEF ToSet, HopsOf
  <1>2. N \in Nat
    BY FS_CardinalityType
  <1>3. PICK after : Rounds(after, seeds, cap, links, picked, notes)
    BY <1>1, <1>2, WalkSteps
  <1>4. /\ Walk(seeds, cap, links, picked, notes) = after[N]
        /\ after[0] = Start(seeds)
        /\ \A k \in 1 .. N : after[k] = Expand(after[k - 1], cap, links, picked, notes)
    BY <1>1, <1>3 DEF Rounds
  <1>. DEFINE Reached(k) == \E r \in 0 .. k :
                Good(after[k], r) /\ (r = k \/ r = Len(after[k].order))
              bad == {k \in 0 .. N : ~Reached(k)}
  <1>5. Reached(0)
    <2>1. Good(after[0], 0)
      BY <1>1, <1>4, StartIsBetween
    <2>. HIDE DEF Good
    <2>. QED  BY <2>1
  <1>6. ASSUME NEW k \in 1 .. N, Reached(k - 1) PROVE Reached(k)
    <2>1. PICK r \in 0 .. k - 1 :
            Good(after[k - 1], r) /\ (r = k - 1 \/ r = Len(after[k - 1].order))
      <3>. HIDE DEF Good
      <3>. QED  BY <1>6
    <2>2. r \in 0 .. Len(after[k - 1].order) /\ Len(after[k - 1].order) \in Nat
      <3>1. Sound(after[k - 1], r, seeds, cap, H)
        BY <2>1 DEF Between
      <3>2. r \in 0 .. Len(after[k - 1].order) /\ after[k - 1].order \in Seq(DOMAIN H)
        BY <3>1 DEF Sound
      <3>. QED  BY <3>2
    <2>3. /\ r < Len(after[k - 1].order) => Good(after[k], r + 1)
          /\ r = Len(after[k - 1].order) => after[k] = after[k - 1]
      <3>. DEFINE u == after[k - 1]
                  v == Expand(u, cap, links, picked, notes)
      <3>1. Between(u, r, seeds, cap, HopsOf(links, picked, notes))
        BY <2>1
      <3>2. Advances(u, v, r, seeds, cap, HopsOf(links, picked, notes))
        <4>. HIDE DEF u
        <4>. QED  BY <3>1, ExpandKeeps
      <3>3. after[k] = v
        BY <1>4
      <3>. HIDE DEF v
      <3>. QED  BY <3>2, <3>3 DEF Advances
    <2>. HIDE DEF Good
    <2>4. CASE r < Len(after[k - 1].order)
      <3>1. r = k - 1
        BY <2>1, <2>2, <2>4
      <3>2. r + 1 = k /\ k \in 0 .. k
        BY <1>2, <3>1
      <3>. QED  BY <2>3, <2>4, <3>2
    <2>5. CASE r = Len(after[k - 1].order)
      <3>1. r \in 0 .. k
        BY <1>2
      <3>. QED  BY <2>1, <2>3, <2>5, <3>1
    <2>. QED  BY <2>2, <2>4, <2>5
  <1>. HIDE DEF Reached
  <1>7. bad = {}
    <2>1. SUFFICES ASSUME bad # {} PROVE FALSE
      OBVIOUS
    <2>2. PICK k \in bad : \A j \in bad : k <= j
      <3>1. bad \in SUBSET Nat
        BY <1>2
      <3>. HIDE DEF bad
      <3>. QED  BY <2>1, <3>1, LeastOfNat
    <2>3. k \in 0 .. N /\ ~Reached(k)
      OBVIOUS
    <2>4. k \in 1 .. N /\ k - 1 \in 0 .. N /\ ~(k <= k - 1)
      BY <1>2, <1>5, <2>3
    <2>5. k - 1 \notin bad
      <3>. HIDE DEF bad
      <3>. QED  BY <2>2, <2>4
    <2>6. Reached(k - 1)
      BY <2>4, <2>5
    <2>. QED  BY <1>6, <2>3, <2>4, <2>6
  <1>8. Reached(N)
    BY <1>2, <1>7
  <1>. DEFINE w == after[N]
              L == Len(w.order)
  <1>9. PICK r \in 0 .. N : Good(w, r) /\ (r = N \/ r = L)
    <2>. HIDE DEF Good
    <2>. QED  BY <1>8 DEF Reached
  <1>. HIDE DEF w
  <1>10. Sound(w, r, seeds, cap, H)
    BY <1>9 DEF Between
  <1>11. /\ w.order \in Seq(notes) /\ r \in 0 .. L
         /\ \A i, j \in 1 .. L : i < j => w.order[i] # w.order[j]
    BY <1>1, <1>10 DEF Sound
  <1>12. L = Cardinality(ToSet(w.order)) /\ IsFiniteSet(ToSet(w.order))
    BY <1>11, DistinctCounts
  <1>13. ToSet(w.order) \in SUBSET notes
    BY <1>11 DEF ToSet
  <1>14. Cardinality(ToSet(w.order)) <= N
    BY <1>13, FS_Subset
  <1>15. r = L
    <2>1. L \in Nat
      BY <1>11
    <2>2. L <= N
      BY <1>12, <1>14
    <2>. QED  BY <1>2, <1>9, <1>11, <2>1, <2>2
  <1>16. Walk(seeds, cap, links, picked, notes) = w
    BY <1>4 DEF w
  <1>. QED  BY <1>9, <1>15, <1>16

-----------------------------------------------------------------------------
(* Hops, and the theorem about walks.                                      *)

\* The edges that are followed join thoughts.
Joins(links, picked, notes) ==
    /\ picked \in SUBSET Nat /\ IsFiniteSet(picked)
    /\ \A e \in picked : links[e].source \in notes /\ links[e].target \in notes

IsHop(h, node, links, picked) ==
    /\ h.edge \in picked
    /\ \/ h.way = "outgoing" /\ links[h.edge].source = node /\ h.to = links[h.edge].target
       \/ h.way = "incoming" /\ links[h.edge].target = node /\ h.to = links[h.edge].source

LEMMA HopsAre ==
    ASSUME NEW links, NEW picked, NEW notes, Joins(links, picked, notes), NEW node
    PROVE  LET h == Hops(links, picked, node, notes)
           IN  /\ Len(h) \in Nat /\ DOMAIN h = 1 .. Len(h)
               /\ \A i \in 1 .. Len(h) : IsHop(h[i], node, links, picked)
               /\ \A e \in picked :
                    /\ links[e].source = node =>
                         \E i \in 1 .. Len(h) : h[i].edge = e /\ h[i].to = links[e].target
                    /\ links[e].target = node =>
                         \E i \in 1 .. Len(h) : h[i].edge = e /\ h[i].to = links[e].source
  <1>. DEFINE S == {e \in picked : links[e].source = node /\ links[e].target \in notes}
              T == {e \in picked : links[e].target = node /\ links[e].source \in notes}
              out == Ascending(S)
              in == Ascending(T)
              f == [n \in DOMAIN out |-> [edge |-> out[n], to |-> links[out[n]].target,
                                          way |-> "outgoing"]]
              g == [n \in DOMAIN in |-> [edge |-> in[n], to |-> links[in[n]].source,
                                         way |-> "incoming"]]
              h == Hops(links, picked, node, notes)
              R == {f[n] : n \in DOMAIN out} \cup {g[n] : n \in DOMAIN in}
  <1>1. S \in SUBSET Nat /\ IsFiniteSet(S) /\ T \in SUBSET Nat /\ IsFiniteSet(T)
        /\ S \in SUBSET picked /\ T \in SUBSET picked
    BY FS_Subset DEF Joins
  <1>2. out \in Seq(S) /\ ToSet(out) = S /\ in \in Seq(T) /\ ToSet(in) = T
    <2>. HIDE DEF S, T
    <2>. QED  BY <1>1, AscendingLists
  <1>3. h = f \o g
    BY DEF Hops
  <1>. DEFINE a == Len(out)
              b == Len(in)
  <1>4. a \in Nat /\ b \in Nat /\ DOMAIN out = 1 .. a /\ DOMAIN in = 1 .. b
    <2>. HIDE DEF out, in
    <2>. QED  BY <1>2
  <1>5. /\ \A n \in 1 .. a : /\ out[n] \in S
                             /\ f[n] = [edge |-> out[n], to |-> links[out[n]].target,
                                        way |-> "outgoing"]
        /\ \A n \in 1 .. b : /\ in[n] \in T
                             /\ g[n] = [edge |-> in[n], to |-> links[in[n]].source,
                                        way |-> "incoming"]
    <2>. HIDE DEF S, T, out, in
    <2>. QED  BY <1>2, <1>4
  <1>6. /\ \A e \in S : \E n \in 1 .. a : out[n] = e
        /\ \A e \in T : \E n \in 1 .. b : in[n] = e
    <2>. HIDE DEF S, T, out, in
    <2>. QED  BY <1>2, <1>4 DEF ToSet
  <1>7. f \in Seq(R) /\ Len(f) = a /\ g \in Seq(R) /\ Len(g) = b
    <2>1. f \in [1 .. a -> R] /\ g \in [1 .. b -> R]
      <3>. HIDE DEF S, T, out, in, a, b
      <3>. QED  BY <1>4
    <2>. HIDE DEF f, g, R, a, b
    <2>. QED  BY <1>4, <2>1
  <1>8. /\ Len(h) = a + b /\ h \in Seq(R)
        /\ \A n \in 1 .. a : h[n] = f[n]
        /\ \A n \in 1 .. b : h[a + n] = g[n]
    <2>. HIDE DEF f, g, R, a, b, h
    <2>1. /\ f \o g \in Seq(R) /\ Len(f \o g) = Len(f) + Len(g)
          /\ \A i \in 1 .. Len(f) + Len(g) :
               (f \o g)[i] = IF i <= Len(f) THEN f[i] ELSE g[i - Len(f)]
      BY <1>7, ConcatProperties
    <2>2. \A n \in 1 .. a : n \in 1 .. a + b /\ n <= a
      BY <1>4
    <2>3. \A n \in 1 .. b : a + n \in 1 .. a + b /\ ~(a + n <= a) /\ a + n - a = n
      BY <1>4
    <2>4. \A n \in 1 .. a : h[n] = f[n]
      BY <1>3, <1>7, <2>1, <2>2
    <2>5. \A n \in 1 .. b : h[a + n] = g[n]
      BY <1>3, <1>7, <2>1, <2>3
    <2>. QED  BY <1>3, <1>7, <2>1, <2>4, <2>5
  <1>9. \A n \in 1 .. a + b : n \in 1 .. a \/ (n - a \in 1 .. b /\ a + (n - a) = n)
    <2>. HIDE DEF a, b
    <2>. QED  BY <1>4
  <1>10. /\ \A n \in 1 .. a : n \in 1 .. a + b
         /\ \A n \in 1 .. b : a + n \in 1 .. a + b
    <2>. HIDE DEF a, b
    <2>. QED  BY <1>4
  <1>11. \A e \in S : links[e].source = node /\ e \in picked
    OBVIOUS
  <1>12. \A e \in T : links[e].target = node /\ e \in picked
    OBVIOUS
  <1>13. \A e \in picked : /\ links[e].source = node => e \in S
                           /\ links[e].target = node => e \in T
    BY DEF Joins
  <1>. HIDE DEF S, T, f, g, R, a, b, h, out, in
  <1>14. Len(h) \in Nat /\ DOMAIN h = 1 .. Len(h)
    BY <1>4, <1>8
  <1>15. ASSUME NEW i \in 1 .. Len(h) PROVE IsHop(h[i], node, links, picked)
    <2>1. CASE i \in 1 .. a
      <3>1. h[i] = [edge |-> out[i], to |-> links[out[i]].target, way |-> "outgoing"]
            /\ out[i] \in S
        BY <1>5, <1>8, <2>1
      <3>. QED  BY <1>11, <3>1 DEF IsHop
    <2>2. CASE i - a \in 1 .. b /\ a + (i - a) = i
      <3>. DEFINE n == i - a
      <3>1. h[i] = g[n]
        BY <1>8, <2>2
      <3>2. h[i] = [edge |-> in[n], to |-> links[in[n]].source, way |-> "incoming"]
            /\ in[n] \in T
        BY <1>5, <2>2, <3>1
      <3>. QED  BY <1>12, <3>2 DEF IsHop
    <2>. QED  BY <1>8, <1>9, <2>1, <2>2
  <1>16. ASSUME NEW e \in picked, links[e].source = node
         PROVE  \E i \in 1 .. Len(h) : h[i].edge = e /\ h[i].to = links[e].target
    <2>1. PICK n \in 1 .. a : out[n] = e
      BY <1>6, <1>13, <1>16
    <2>2. h[n] = [edge |-> e, to |-> links[e].target, way |-> "outgoing"] /\ n \in 1 .. Len(h)
      BY <1>5, <1>8, <1>10, <2>1
    <2>. QED  BY <2>2
  <1>17. ASSUME NEW e \in picked, links[e].target = node
         PROVE  \E i \in 1 .. Len(h) : h[i].edge = e /\ h[i].to = links[e].source
    <2>1. PICK n \in 1 .. b : in[n] = e
      BY <1>6, <1>13, <1>17
    <2>2. h[a + n] = [edge |-> e, to |-> links[e].source, way |-> "incoming"]
          /\ a + n \in 1 .. Len(h)
      BY <1>5, <1>8, <1>10, <2>1
    <2>. QED  BY <2>2
  <1>18. h = Hops(links, picked, node, notes)
    BY DEF h
  <1>. QED  BY <1>14, <1>15, <1>16, <1>17, <1>18

LEMMA HopsLead ==
    ASSUME NEW links, NEW picked, NEW notes, Joins(links, picked, notes)
    PROVE  HopTable(HopsOf(links, picked, notes))
  <1>. SUFFICES ASSUME NEW n \in notes
                PROVE  LET h == Hops(links, picked, n, notes)
                       IN  Len(h) \in Nat /\ \A i \in 1 .. Len(h) : h[i].to \in notes
    BY DEF HopTable, HopsOf
  <1>. DEFINE h == Hops(links, picked, n, notes)
  <1>1. Len(h) \in Nat /\ \A i \in 1 .. Len(h) : IsHop(h[i], n, links, picked)
    BY HopsAre
  <1>. HIDE DEF h
  <1>2. \A i \in 1 .. Len(h) : h[i].to \in notes
    BY <1>1 DEF IsHop, Joins
  <1>. QED  BY <1>1, <1>2 DEF h

\* The walks are shortest, for every graph, all seeds and every depth; and
\* every thought below the limit shows its hops as get_connections does.
THEOREM WalkIsShortest ==
    ASSUME NEW links, NEW picked, NEW notes, IsFiniteSet(notes),
           Joins(links, picked, notes),
           NEW seeds \in Seq(notes), NEW cap \in Nat,
           \A i, j \in 1 .. Len(seeds) : i < j => seeds[i] # seeds[j]
    PROVE  LET w == Walk(seeds, cap, links, picked, notes)
           IN  /\ IsShortestWalk(w, seeds, cap, links, picked, notes)
               /\ 0 < cap => \A n \in ToSet(seeds) :
                               w.links[n] = Hops(links, picked, n, notes)
  <1>. DEFINE w == Walk(seeds, cap, links, picked, notes)
              L == Len(w.order)
              H == HopsOf(links, picked, notes)
              reach == DOMAIN w.depth
  <1>1. HopTable(H)
    BY HopsLead
  <1>2. Between(w, L, seeds, cap, H)
    BY <1>1, WalkEnds
  <1>. HIDE DEF w
  <1>3. Sound(w, L, seeds, cap, H) /\ SeenUpTo(w, L, cap, H)
    BY <1>2 DEF Between
  <1>4. DOMAIN H = notes /\ \A n \in notes : H[n] = Hops(links, picked, n, notes)
    BY DEF HopsOf
  <1>. HIDE DEF H
  <1>5. /\ w.order \in Seq(notes) /\ w.depth \in [ToSet(w.order) -> 0 .. cap]
        /\ \A i, j \in 1 .. L : i < j => w.order[i] # w.order[j]
        /\ ToSet(seeds) = {n \in ToSet(w.order) : w.depth[n] = 0}
        /\ DOMAIN w.via = {n \in ToSet(w.order) : w.depth[n] # 0}
        /\ \A n \in DOMAIN w.via : \E m \in ToSet(w.order) : CameFrom(w, m, n, H)
        /\ \A j \in 1 .. L :
             w.links[w.order[j]] =
                 IF j <= L /\ w.depth[w.order[j]] < cap THEN H[w.order[j]] ELSE <<>>
    BY <1>3, <1>4 DEF Sound
  <1>6. L \in Nat /\ DOMAIN w.order = 1 .. L
    BY <1>5
  <1>7. \A n : n \in reach <=> \E j \in 1 .. L : w.order[j] = n
    BY <1>5, <1>6 DEF ToSet
  <1>8. /\ reach = ToSet(w.order) /\ \A n \in reach : n \in notes /\ w.depth[n] \in 0 .. cap
    <2>1. ToSet(w.order) \in SUBSET notes
      BY <1>5 DEF ToSet
    <2>. QED  BY <1>5, <2>1
  <1>9. ToSet(w.order) = reach /\ L = Cardinality(reach)
    <2>1. L = Cardinality(ToSet(w.order))
      BY <1>5, DistinctCounts
    <2>. QED  BY <1>8, <2>1
  <1>10. \A n \in reach : w.links[n] = IF w.depth[n] < cap THEN H[n] ELSE <<>>
    <2>1. SUFFICES ASSUME NEW n \in reach
                   PROVE  w.links[n] = IF w.depth[n] < cap THEN H[n] ELSE <<>>
      OBVIOUS
    <2>2. PICK j \in 1 .. L : w.order[j] = n
      BY <1>7
    <2>3. j <= L
      BY <1>6
    <2>. QED  BY <1>5, <2>2, <2>3
  <1>11. \A n \in reach : w.depth[n] < cap => Seen(w, n, Len(H[n]), H)
    <2>1. SUFFICES ASSUME NEW n \in reach, w.depth[n] < cap PROVE Seen(w, n, Len(H[n]), H)
      OBVIOUS
    <2>2. PICK j \in 1 .. L : w.order[j] = n
      BY <1>7
    <2>. QED  BY <1>3, <2>1, <2>2 DEF SeenUpTo
  \* Neighbours.
  <1>12. ASSUME NEW m \in reach, w.depth[m] < cap, NEW n, Adjacent(links, picked, m, n)
         PROVE  n \in reach /\ w.depth[n] <= w.depth[m] + 1
    <2>1. PICK e \in picked : \/ links[e].source = m /\ links[e].target = n
                              \/ links[e].source = n /\ links[e].target = m
      BY <1>12 DEF Adjacent
    <2>2. \E i \in 1 .. Len(H[m]) : H[m][i].to = n
      <3>1. H[m] = Hops(links, picked, m, notes)
        BY <1>4, <1>8
      <3>. QED  BY <2>1, <3>1, HopsAre
    <2>. QED  BY <1>8, <1>11, <1>12, <2>2 DEF Seen
  <1>13. ASSUME NEW n \in DOMAIN w.via
         PROVE  \E m \in reach : /\ w.depth[m] = w.depth[n] - 1 /\ Adjacent(links, picked, m, n)
                                 /\ m = LET e == links[w.via[n].edge]
                                        IN  IF w.via[n].way = "outgoing" THEN e.source ELSE e.target
    <2>1. PICK m \in ToSet(w.order) : CameFrom(w, m, n, H)
      BY <1>5
    <2>2. PICK i \in 1 .. Len(H[m]) : w.via[n] = H[m][i] /\ H[m][i].to = n
      BY <2>1 DEF CameFrom
    <2>3. IsHop(H[m][i], m, links, picked)
      <3>1. H[m] = Hops(links, picked, m, notes)
        BY <1>4, <1>8, <2>1
      <3>. QED  BY <3>1, HopsAre
    <2>. DEFINE h == H[m][i]
    <2>4. /\ h.edge \in picked /\ w.via[n] = h /\ h.to = n
          /\ \/ h.way = "outgoing" /\ links[h.edge].source = m /\ h.to = links[h.edge].target
             \/ h.way = "incoming" /\ links[h.edge].target = m /\ h.to = links[h.edge].source
      BY <2>2, <2>3 DEF IsHop
    <2>. HIDE DEF h
    <2>5. Adjacent(links, picked, m, n)
      BY <2>4 DEF Adjacent
    <2>6. m = IF h.way = "outgoing" THEN links[h.edge].source ELSE links[h.edge].target
      BY <2>4
    <2>. QED  BY <1>8, <2>1, <2>4, <2>5, <2>6 DEF CameFrom
  <1>14. PICK within : Grows(within, ToSet(seeds), cap, links, picked, notes)
    BY WithinSteps
  <1>. DEFINE At(k) == {n \in reach : w.depth[n] <= k}
              Equal(k) == At(k) = within[k]
              bad == {k \in 0 .. cap : ~Equal(k)}
  <1>15. Equal(0)
    <2>1. \A n \in reach : w.depth[n] <= 0 <=> w.depth[n] = 0
      BY <1>8
    <2>2. At(0) = ToSet(seeds)
      BY <1>5, <1>8, <2>1
    <2>. QED  BY <1>14, <2>2 DEF Grows
  <1>16. ASSUME NEW k \in 1 .. cap, Equal(k - 1) PROVE Equal(k)
    <2>1. within[k] = At(k - 1) \cup
            {n \in notes : \E m \in At(k - 1) : Adjacent(links, picked, m, n)}
      BY <1>14, <1>16 DEF Grows
    <2>2. ASSUME NEW n \in At(k) PROVE n \in within[k]
      <3>1. n \in reach /\ w.depth[n] <= k /\ w.depth[n] \in Nat /\ n \in notes
        BY <1>8, <2>2
      <3>2. CASE w.depth[n] <= k - 1
        BY <2>1, <3>1, <3>2
      <3>3. CASE w.depth[n] = k
        <4>1. n \in DOMAIN w.via
          BY <1>5, <1>8, <3>1, <3>3
        <4>2. PICK m \in reach : w.depth[m] = w.depth[n] - 1 /\ Adjacent(links, picked, m, n)
          BY <1>13, <4>1
        <4>3. m \in At(k - 1)
          BY <3>3, <4>2
        <4>. QED  BY <2>1, <3>1, <4>2, <4>3
      <3>. QED  BY <3>1, <3>2, <3>3
    <2>3. ASSUME NEW n \in within[k] PROVE n \in At(k)
      <3>1. CASE n \in At(k - 1)
        <4>1. n \in reach /\ w.depth[n] <= k - 1 /\ w.depth[n] \in Nat
          BY <1>8, <3>1
        <4>. QED  BY <4>1
      <3>2. CASE \E m \in At(k - 1) : Adjacent(links, picked, m, n)
        <4>1. PICK m \in reach : w.depth[m] <= k - 1 /\ Adjacent(links, picked, m, n)
          BY <3>2
        <4>2. w.depth[m] \in Nat /\ w.depth[m] < cap
          BY <1>8, <4>1
        <4>3. n \in reach /\ w.depth[n] <= w.depth[m] + 1
          BY <1>12, <4>1, <4>2
        <4>4. w.depth[n] \in Nat
          BY <1>8, <4>3
        <4>. QED  BY <4>1, <4>2, <4>3, <4>4
      <3>. QED  BY <2>1, <2>3, <3>1, <3>2
    <2>. QED  BY <2>2, <2>3
  <1>17. \A k \in 0 .. cap : At(k) = within[k]
    <2>. HIDE DEF Equal
    <2>1. bad = {}
      <3>1. SUFFICES ASSUME bad # {} PROVE FALSE
        OBVIOUS
      <3>2. PICK k \in bad : \A j \in bad : k <= j
        <4>1. bad \in SUBSET Nat
          OBVIOUS
        <4>. HIDE DEF bad
        <4>. QED  BY <3>1, <4>1, LeastOfNat
      <3>3. k \in 0 .. cap /\ ~Equal(k)
        OBVIOUS
      <3>4. k \in 1 .. cap /\ k - 1 \in 0 .. cap /\ ~(k <= k - 1)
        BY <1>15, <3>3
      <3>5. k - 1 \notin bad
        <4>. HIDE DEF bad
        <4>. QED  BY <3>2, <3>4
      <3>6. Equal(k - 1)
        BY <3>4, <3>5
      <3>. QED  BY <1>16, <3>3, <3>4, <3>6
    <2>. QED  BY <2>1 DEF Equal
  <1>18. within = Within(ToSet(seeds), cap, links, picked, notes)
    BY <1>14 DEF Grows
  <1>19. reach = {n \in reach : w.depth[n] <= cap}
    BY <1>8
  <1>20. \A n \in DOMAIN w.via :
           LET e == links[w.via[n].edge]
               from == IF w.via[n].way = "outgoing" THEN e.source ELSE e.target
           IN  w.depth[from] = w.depth[n] - 1
    BY <1>13
  <1>21. \A n \in reach :
           {l.edge : l \in ToSet(w.links[n])} =
             IF w.depth[n] = cap THEN {}
             ELSE {e \in picked : n \in {links[e].source, links[e].target}}
    <2>. SUFFICES ASSUME NEW n \in reach
                  PROVE  {l.edge : l \in ToSet(w.links[n])} =
                           IF w.depth[n] = cap THEN {}
                           ELSE {e \in picked : n \in {links[e].source, links[e].target}}
      OBVIOUS
    <2>1. CASE w.depth[n] = cap
      <3>1. ~(w.depth[n] < cap)
        BY <2>1
      <3>2. w.links[n] = <<>>
        BY <1>10, <3>1
      <3>3. ToSet(w.links[n]) = {}
        BY <3>2 DEF ToSet
      <3>. QED  BY <2>1, <3>3
    <2>2. CASE w.depth[n] # cap
      <3>. DEFINE h == Hops(links, picked, n, notes)
      <3>1. w.depth[n] < cap
        BY <1>8, <2>2
      <3>2. w.links[n] = h
        BY <1>4, <1>8, <1>10, <3>1
      <3>3. /\ DOMAIN h = 1 .. Len(h)
            /\ \A i \in 1 .. Len(h) : IsHop(h[i], n, links, picked)
            /\ \A e \in picked :
                 /\ links[e].source = n => \E i \in 1 .. Len(h) : h[i].edge = e
                 /\ links[e].target = n => \E i \in 1 .. Len(h) : h[i].edge = e
        BY HopsAre
      <3>. HIDE DEF h
      <3>4. \A i \in 1 .. Len(h) : /\ h[i].edge \in picked
                                   /\ n \in {links[h[i].edge].source, links[h[i].edge].target}
        BY <3>3 DEF IsHop
      <3>5. \A x : x \in {l.edge : l \in ToSet(h)} <=> \E i \in 1 .. Len(h) : h[i].edge = x
        BY <3>3 DEF ToSet
      <3>6. {l.edge : l \in ToSet(h)} = {e \in picked : n \in {links[e].source, links[e].target}}
        <4>. DEFINE A == {l.edge : l \in ToSet(h)}
                    B == {e \in picked : n \in {links[e].source, links[e].target}}
        <4>1. ASSUME NEW x \in A PROVE x \in B
          <5>1. PICK i \in 1 .. Len(h) : h[i].edge = x
            BY <3>5, <4>1
          <5>. QED  BY <3>4, <5>1
        <4>2. ASSUME NEW x \in B PROVE x \in A
          <5>1. x \in picked /\ (links[x].source = n \/ links[x].target = n)
            BY <4>2
          <5>2. \E i \in 1 .. Len(h) : h[i].edge = x
            BY <3>3, <5>1
          <5>. QED  BY <3>5, <5>2
        <4>. HIDE DEF A, B
        <4>3. A = B
          BY <4>1, <4>2
        <4>. QED  BY <4>3 DEF A, B
      <3>. QED  BY <2>2, <3>2, <3>6
    <2>. QED  BY <2>1, <2>2
  <1>22. IsShortestWalk(w, seeds, cap, links, picked, notes)
    BY <1>9, <1>17, <1>18, <1>19, <1>20, <1>21 DEF IsShortestWalk
  <1>23. ASSUME 0 < cap, NEW n \in ToSet(seeds)
         PROVE  w.links[n] = Hops(links, picked, n, notes)
    <2>1. n \in reach /\ w.depth[n] < cap
      BY <1>5, <1>8, <1>23
    <2>. QED  BY <1>4, <1>8, <1>10, <2>1
  <1>24. w = Walk(seeds, cap, links, picked, notes)
    BY DEF w
  <1>. QED  BY <1>22, <1>23, <1>24

-----------------------------------------------------------------------------
(* The lookups of the registry                                             *)

\* get_project_by_alias on any two tables.
AliasOwner(rows, names, s) ==
    IF s \in DOMAIN names /\ names[s].pid \in DOMAIN rows THEN names[s].pid ELSE None

\* The member paths that hold a directory, and find_project_by_path, on any
\* table of projects.
Holding(rows, dir) ==
    UNION {{<<Len(Canonical[m]), p>> : m \in {n \in rows[p].paths : IsPrefix(Canonical[n], dir)}} :
              p \in DOMAIN rows}

PathOwner(rows, dir) ==
    LET holding == Holding(rows, dir)
        longest == {h \in holding : \A g \in holding : g[1] <= h[1]}
    IN  IF holding = {} THEN None ELSE Lowest({h[2] : h \in longest})

HoldsBy(rows, p, dir) == \E m \in rows[p].paths : IsPrefix(Canonical[m], dir)

RowsTyped(rows) == DOMAIN rows \subseteq Pids /\ \A p \in DOMAIN rows : rows[p] \in Project

LEMMA LowestIs ==
    ASSUME NEW S \in SUBSET Nat, S # {}
    PROVE  Lowest(S) \in S
  <1>1. PICK m \in S : \A n \in S : m <= n
    BY LeastOfNat
  <1>. QED  BY <1>1 DEF Lowest

LEMMA PathsMeasured ==
    ASSUME NEW p \in Paths
    PROVE  Canonical[p] \in Paths /\ Len(Canonical[p]) \in Nat
  BY RegistryAssumption, LibraryAssumption

LEMMA PrefixIsShorter ==
    ASSUME NEW d \in Paths, NEW e \in Paths, IsPrefix(d, e)
    PROVE  Len(d) <= Len(e) /\ Len(d) \in Nat /\ Len(e) \in Nat
  BY LibraryAssumption DEF IsPrefix

\* A project is found for a directory exactly when a member path holds it,
\* and the project found has such a path.
LEMMA PathOwnerFinds ==
    ASSUME NEW rows, RowsTyped(rows), NEW dir \in Paths
    PROVE  /\ PathOwner(rows, dir) = None => \A p \in DOMAIN rows : ~HoldsBy(rows, p, dir)
           /\ PathOwner(rows, dir) # None =>
                /\ PathOwner(rows, dir) \in DOMAIN rows
                /\ HoldsBy(rows, PathOwner(rows, dir), dir)
  <1>. DEFINE H == Holding(rows, dir)
              longest == {h \in H : \A g \in H : g[1] <= h[1]}
              owners == {h[2] : h \in longest}
  <1>1. \A h \in H : \E p \in DOMAIN rows : \E m \in rows[p].paths :
            IsPrefix(Canonical[m], dir) /\ h = <<Len(Canonical[m]), p>>
    BY DEF Holding
  <1>2. \A p \in DOMAIN rows : HoldsBy(rows, p, dir) => H # {}
    <2>1. SUFFICES ASSUME NEW p \in DOMAIN rows, NEW m \in rows[p].paths, IsPrefix(Canonical[m], dir)
                   PROVE  <<Len(Canonical[m]), p>> \in H
      BY DEF HoldsBy
    <2>. QED  BY <2>1 DEF Holding
  <1>3. \A p \in DOMAIN rows : \A m \in rows[p].paths : m \in Paths /\ p \in Nat /\ p # None
    BY RegistryAssumption DEF RowsTyped, Project, ProjectSeed
  <1>4. \A h \in H : /\ h[1] \in Nat /\ h[1] <= Len(dir)
                     /\ h[2] \in DOMAIN rows /\ h[2] \in Nat /\ h[2] # None
                     /\ HoldsBy(rows, h[2], dir)
    <2>1. SUFFICES ASSUME NEW p \in DOMAIN rows, NEW m \in rows[p].paths,
                          IsPrefix(Canonical[m], dir), NEW h, h = <<Len(Canonical[m]), p>>
                   PROVE  /\ h[1] \in Nat /\ h[1] <= Len(dir)
                          /\ h[2] \in DOMAIN rows /\ h[2] \in Nat /\ h[2] # None
                          /\ HoldsBy(rows, h[2], dir)
      BY <1>1
    <2>2. Canonical[m] \in Paths
      BY <1>3, PathsMeasured
    <2>3. Len(Canonical[m]) \in Nat /\ Len(Canonical[m]) <= Len(dir)
      BY <2>1, <2>2, PrefixIsShorter
    <2>4. h[1] = Len(Canonical[m]) /\ h[2] = p
      BY <2>1
    <2>5. HoldsBy(rows, p, dir)
      BY <2>1 DEF HoldsBy
    <2>. QED  BY <1>3, <2>3, <2>4, <2>5
  <1>5. H # {} => longest # {}
    <2>1. SUFFICES ASSUME H # {} PROVE \E h \in H : \A g \in H : g[1] <= h[1]
      OBVIOUS
    <2>. DEFINE lengths == {h[1] : h \in H}
    <2>2. lengths \in SUBSET Nat /\ lengths # {} /\ \A n \in lengths : n <= Len(dir)
      <3>. HIDE DEF H
      <3>. QED  BY <1>4, <2>1
    <2>3. Len(dir) \in Nat
      BY LibraryAssumption
    <2>4. PICK n \in lengths : \A k \in lengths : k <= n
      <3>. HIDE DEF lengths
      <3>. QED  BY <2>2, <2>3, GreatestOfBounded
    <2>5. PICK h \in H : n = h[1]
      OBVIOUS
    <2>. QED
      <3>. HIDE DEF H
      <3>. QED  BY <2>4, <2>5
  <1>6. PathOwner(rows, dir) = IF H = {} THEN None ELSE Lowest(owners)
    BY DEF PathOwner
  <1>7. ASSUME H # {} PROVE \E h \in H : PathOwner(rows, dir) = h[2]
    <2>1. owners \in SUBSET Nat /\ owners # {}
      <3>. HIDE DEF H
      <3>. QED  BY <1>4, <1>5, <1>7
    <2>2. Lowest(owners) \in owners
      <3>. HIDE DEF owners
      <3>. QED  BY <2>1, LowestIs
    <2>. QED
      <3>. HIDE DEF H
      <3>. QED  BY <1>6, <1>7, <2>2
  <1>. HIDE DEF H, owners
  <1>. QED  BY <1>2, <1>4, <1>6, <1>7

-----------------------------------------------------------------------------
(* TypeOK as a predicate of any tables                                     *)

RegistryFits(rows, names) ==
    /\ RowsTyped(rows)
    /\ DOMAIN names \subseteq Slugs
    /\ \A s \in DOMAIN names : names[s] \in Alias /\ names[s].pid \in DOMAIN rows
    /\ \A p \in DOMAIN rows : AliasOwner(rows, names, rows[p].slug) = p

FiledUnder(rows, names, note) ==
    note.pid # None => /\ note.pid \in DOMAIN rows
                       /\ note.ident # None => AliasOwner(rows, names, note.ident) = note.pid

NotesFit(rows, names, notes) ==
    /\ DOMAIN notes \subseteq Ids
    /\ \A id \in DOMAIN notes : notes[id] \in Thought /\ FiledUnder(rows, names, notes[id])

LinksFit(notes, links) ==
    /\ DOMAIN links \subseteq EdgeIds
    /\ \A e \in DOMAIN links :
         /\ links[e] \in EdgeRow
         /\ links[e].source \in DOMAIN notes /\ links[e].target \in DOMAIN notes
         /\ \A f \in DOMAIN links \ {e} :
              <<links[e].source, links[e].target, links[e].type>>
                  # <<links[f].source, links[f].target, links[f].type>>

LEMMA NoneIsNothing == None \notin Pids /\ None \notin Slugs /\ None \notin Paths
  BY RegistryAssumption

LEMMA ResolvedMeans ==
    ASSUME NEW note \in Thought, note.pid # None
    PROVE  Reference(note.pid, note.ident).kind = "resolved"
             <=> FiledUnder(projects, aliases, note)
  <1>1. note.pid \in Pids
    BY DEF Thought
  <1>2. \A s : ByAlias(s) = AliasOwner(projects, aliases, s)
    BY DEF ByAlias, AliasOwner
  <1>3. Reference(note.pid, note.ident).kind = "resolved"
          <=> /\ note.pid \in DOMAIN projects
              /\ ~(note.ident # None /\ ByAlias(note.ident) = None)
              /\ ~(note.ident # None /\ note.pid # ByAlias(note.ident))
    BY <1>1 DEF Reference
  <1>. QED  BY <1>2, <1>3 DEF FiledUnder

LEMMA TypeOKMeans ==
    TypeOK <=> /\ RegistryFits(projects, aliases)
               /\ NotesFit(projects, aliases, thoughts)
               /\ LinksFit(thoughts, edges)
  <1>1. RegistryTypeOK /\ RegistryIntegrity <=> RegistryFits(projects, aliases)
    BY DEF RegistryTypeOK, RegistryIntegrity, RegistryFits, RowsTyped, ByAlias, AliasOwner
  <1>. DEFINE Filed(id) == thoughts[id].pid # None =>
                Reference(thoughts[id].pid, thoughts[id].ident).kind = "resolved"
  <1>2. ASSUME NEW id \in DOMAIN thoughts, thoughts[id] \in Thought
        PROVE  Filed(id) <=> FiledUnder(projects, aliases, thoughts[id])
    <2>1. CASE thoughts[id].pid = None
      BY <2>1 DEF FiledUnder
    <2>2. CASE thoughts[id].pid # None
      BY <1>2, <2>2, ResolvedMeans
    <2>. QED  BY <2>1, <2>2
  <1>3. (\A id \in DOMAIN thoughts : thoughts[id] \in Thought /\ Filed(id))
          <=> \A id \in DOMAIN thoughts :
                 thoughts[id] \in Thought /\ FiledUnder(projects, aliases, thoughts[id])
    <2>. HIDE DEF Filed
    <2>. QED  BY <1>2
  <1>. QED  BY <1>1, <1>3 DEF TypeOK, NotesFit, LinksFit

LEMMA TypeOKMeansNext ==
    TypeOK' <=> /\ RegistryFits(projects', aliases')
                /\ NotesFit(projects', aliases', thoughts')
                /\ LinksFit(thoughts', edges')
  <1>1. TypeOK' <=> (RegistryFits(projects, aliases) /\ NotesFit(projects, aliases, thoughts)
                       /\ LinksFit(thoughts, edges))'
    BY TypeOKMeans, PTL
  <1>. QED  BY <1>1

-----------------------------------------------------------------------------
(* What writes do to the registry                                          *)

Tentative(pid) == [pid |-> pid, status |-> "tentative"]

\* A project created under a free slug: the registry stays sound and what
\* slugs led to before they lead to after (create_local_only_project).
LEMMA CreateFits ==
    ASSUME NEW rows, NEW names, RegistryFits(rows, names),
           NEW pid \in Pids \ DOMAIN rows, NEW seed \in ProjectSeed, seed.slug \notin DOMAIN names,
           NEW rows2, rows2 = With(rows, pid, seed),
           NEW names2, names2 = With(names, seed.slug, Tentative(pid))
    PROVE  /\ RegistryFits(rows2, names2)
           /\ \A s : s # seed.slug => AliasOwner(rows2, names2, s) = AliasOwner(rows, names, s)
           /\ AliasOwner(rows2, names2, seed.slug) = pid
           /\ rows2[pid] = seed
  <1>1. /\ DOMAIN rows2 = DOMAIN rows \cup {pid} /\ rows2[pid] = seed
        /\ \A p \in DOMAIN rows : rows2[p] = rows[p]
    BY DEF With
  <1>2. /\ DOMAIN names2 = DOMAIN names \cup {seed.slug} /\ names2[seed.slug] = Tentative(pid)
        /\ \A s \in DOMAIN names : names2[s] = names[s]
    BY DEF With
  <1>3. Tentative(pid) \in Alias /\ Tentative(pid).pid = pid /\ seed.slug \in Slugs
    BY DEF Tentative, Alias, ProjectSeed
  <1>4. RowsTyped(rows2)
    BY <1>1 DEF RegistryFits, RowsTyped, Project
  <1>5. AliasOwner(rows2, names2, seed.slug) = pid
    BY <1>1, <1>2, <1>3 DEF AliasOwner
  <1>6. \A s \in DOMAIN names : names[s] \in Alias /\ names[s].pid \in DOMAIN rows
    BY DEF RegistryFits
  <1>7. \A s : s # seed.slug => AliasOwner(rows2, names2, s) = AliasOwner(rows, names, s)
    BY <1>1, <1>2, <1>6 DEF AliasOwner
  <1>8. \A s \in DOMAIN names2 : names2[s] \in Alias /\ names2[s].pid \in DOMAIN rows2
    BY <1>1, <1>2, <1>3, <1>6
  <1>9. \A p \in DOMAIN rows2 : AliasOwner(rows2, names2, rows2[p].slug) = p
    <2>1. ASSUME NEW p \in DOMAIN rows PROVE AliasOwner(rows2, names2, rows2[p].slug) = p
      <3>1. AliasOwner(rows, names, rows[p].slug) = p /\ p \in Pids
        BY DEF RegistryFits, RowsTyped
      <3>2. rows[p].slug \in DOMAIN names
        BY <3>1, NoneIsNothing DEF AliasOwner
      <3>. QED  BY <1>1, <1>7, <3>1, <3>2
    <2>. QED  BY <1>1, <1>5, <2>1
  <1>10. DOMAIN names2 \subseteq Slugs
    BY <1>2, <1>3 DEF RegistryFits
  <1>. QED  BY <1>1, <1>4, <1>5, <1>7, <1>8, <1>9, <1>10 DEF RegistryFits

\* The columns of a project change, its slug stays (ensure_seed_projects).
LEMMA ReseedFits ==
    ASSUME NEW rows, NEW names, RegistryFits(rows, names),
           NEW p \in DOMAIN rows, NEW row \in Project, row.slug = rows[p].slug,
           NEW rows2, DOMAIN rows2 = DOMAIN rows, rows2[p] = row,
           \A q \in DOMAIN rows : q # p => rows2[q] = rows[q]
    PROVE  /\ RegistryFits(rows2, names)
           /\ \A s : AliasOwner(rows2, names, s) = AliasOwner(rows, names, s)
  <1>1. \A q \in DOMAIN rows : rows2[q] \in Project /\ rows2[q].slug = rows[q].slug
    BY DEF RegistryFits, RowsTyped
  <1>2. \A s : AliasOwner(rows2, names, s) = AliasOwner(rows, names, s)
    BY DEF AliasOwner
  <1>. QED  BY <1>1, <1>2 DEF RegistryFits, RowsTyped

\* A filed thought stays filed when slugs keep what they lead to.
LEMMA NotesStay ==
    ASSUME NEW rows, NEW names, NEW notes, NotesFit(rows, names, notes),
           NEW rows2, NEW names2, DOMAIN rows \subseteq DOMAIN rows2,
           \A s : AliasOwner(rows, names, s) # None =>
                    AliasOwner(rows2, names2, s) = AliasOwner(rows, names, s)
    PROVE  NotesFit(rows2, names2, notes)
  <1>1. ASSUME NEW id \in DOMAIN notes PROVE FiledUnder(rows2, names2, notes[id])
    <2>1. notes[id] \in Thought /\ FiledUnder(rows, names, notes[id])
      BY DEF NotesFit
    <2>2. notes[id].pid # None => notes[id].pid \in Pids
      BY <2>1 DEF Thought
    <2>. QED  BY <2>1, <2>2, NoneIsNothing DEF FiledUnder
  <1>. QED  BY <1>1 DEF NotesFit

\* One row of thoughts is written.
LEMMA NoteFits ==
    ASSUME NEW rows, NEW names, NEW notes, NotesFit(rows, names, notes),
           NEW id \in Ids, NEW note \in Thought, FiledUnder(rows, names, note),
           NEW notes2, DOMAIN notes2 = DOMAIN notes \cup {id}, notes2[id] = note,
           \A i \in DOMAIN notes : i # id => notes2[i] = notes[i]
    PROVE  NotesFit(rows, names, notes2)
  BY DEF NotesFit

LEMMA LinksStay ==
    ASSUME NEW notes, NEW links, LinksFit(notes, links),
           NEW notes2, DOMAIN notes \subseteq DOMAIN notes2
    PROVE  LinksFit(notes2, links)
  BY DEF LinksFit

-----------------------------------------------------------------------------
(* The scope that roots resolve to                                         *)

LEMMA MarkersAreReal ==
    ASSUME NEW d \in Markers
    PROVE  d \in Paths /\ Canonical[d] = d
  <1>1. PICK p \in Paths : d = Canonical[p]
    BY RegistryAssumption
  <1>. QED  BY <1>1, RegistryAssumption

LEMMA DetectedHolds ==
    ASSUME NEW dir \in Paths, Detected(dir) # None
    PROVE  Detected(dir) \in Markers /\ IsPrefix(Detected(dir), dir)
  <1>. DEFINE above == {d \in Markers : /\ IsPrefix(d, dir)
                                        /\ IsPrefix(Home, dir) => IsPrefix(Home, d)}
              lengths == {Len(d) : d \in above}
  <1>1. Detected(dir) = IF above = {} THEN None
                        ELSE CHOOSE d \in above : \A e \in above : Len(e) <= Len(d)
    BY DEF Detected
  <1>2. above # {}
    BY <1>1
  <1>3. \A d \in above : Len(d) \in Nat /\ Len(d) <= Len(dir)
    BY MarkersAreReal, PrefixIsShorter
  <1>4. lengths \in SUBSET Nat /\ lengths # {} /\ \A n \in lengths : n <= Len(dir)
    <2>. HIDE DEF above
    <2>. QED  BY <1>2, <1>3
  <1>5. Len(dir) \in Nat
    BY LibraryAssumption
  <1>6. PICK n \in lengths : \A k \in lengths : k <= n
    <2>. HIDE DEF lengths
    <2>. QED  BY <1>4, <1>5, GreatestOfBounded
  <1>7. \E d \in above : \A e \in above : Len(e) <= Len(d)
    <2>1. PICK d \in above : n = Len(d)
      OBVIOUS
    <2>. HIDE DEF above
    <2>. QED  BY <1>6, <2>1
  <1>8. Detected(dir) \in above
    <2>. HIDE DEF above
    <2>. QED  BY <1>1, <1>2, <1>7
  <1>. QED  BY <1>8

\* What one root resolves to: a registered project; a project still to be
\* made of the marked folder at or above the root, which no member path
\* holds; a collision; or nothing.
IsRegistered(a) ==
    /\ a = [kind |-> "resolved", slug |-> a.slug, source |-> a.source, paths |-> {}, repos |-> {}]
    /\ a.source \in {MemberPath, GitRemote}

IsDerived(a, dir) ==
    /\ a = [kind |-> "resolved", slug |-> a.slug, source |-> Derived,
            paths |-> {Detected(dir)}, repos |-> a.repos]
    /\ a.repos \subseteq Remotes
    /\ Detected(dir) # None

LEMMA FolderAnswers ==
    ASSUME NEW dir \in Paths, Detected(dir) # None, NEW a, a = ResolveFolder(Detected(dir))
    PROVE  \/ a.kind = "slug_collision" \/ IsRegistered(a) \/ IsDerived(a, dir)
  <1>. DEFINE root == Detected(dir)
  <1>1. root \in Markers
    BY DetectedHolds
  <1>2. ASSUME NEW slug, NEW repos \in SUBSET Remotes, a = FromFolder(slug, root, repos)
        PROVE  a.kind = "slug_collision" \/ IsDerived(a, dir)
    BY <1>2 DEF FromFolder, IsDerived
  <1>3. CASE OriginAt[root] = None
    <2>1. a = FromFolder(PathSlug[root], root, {})
      BY <1>3 DEF ResolveFolder
    <2>. QED  BY <1>2, <2>1
  <1>4. CASE OriginAt[root] # None
    <2>1. OriginAt[root] \in Remotes /\ Normal[OriginAt[root]] \in Remotes
      BY <1>1, <1>4, RegistryAssumption
    <2>2. a = FromRemote(OriginAt[root], root)
      BY <1>4 DEF ResolveFolder
    <2>3. CASE ByRepo(Normal[OriginAt[root]]) # None
      BY <2>2, <2>3 DEF FromRemote, Registered, IsRegistered
    <2>4. CASE ByRepo(Normal[OriginAt[root]]) = None
      <3>1. a = FromFolder(RemoteSlug[Normal[OriginAt[root]]], root, {Normal[OriginAt[root]]})
        BY <2>2, <2>4 DEF FromRemote
      <3>. QED  BY <1>2, <2>1, <3>1
    <2>. QED  BY <2>3, <2>4
  <1>. QED  BY <1>3, <1>4

LEMMA PathAnswers ==
    ASSUME NEW r \in Paths, NEW a, a = ResolvePath(r)
    PROVE  /\ PathOwner(projects, Canonical[r]) # None =>
                a = Registered(PathOwner(projects, Canonical[r]), MemberPath) /\ IsRegistered(a)
           /\ PathOwner(projects, Canonical[r]) = None =>
                \/ a = [kind |-> "none"] /\ Detected(Canonical[r]) = None
                \/ /\ Detected(Canonical[r]) # None
                   /\ a.kind = "slug_collision" \/ IsRegistered(a) \/ IsDerived(a, Canonical[r])
  <1>. DEFINE dir == Canonical[r]
  <1>1a. dir \in Paths
    BY RegistryAssumption
  <1>1. ByPath(dir) = PathOwner(projects, dir)
    BY DEF ByPath, PathOwner, Holding
  <1>2. CASE PathOwner(projects, dir) # None
    BY <1>1, <1>2 DEF ResolvePath, Registered, IsRegistered
  <1>3. CASE PathOwner(projects, dir) = None
    <2>1. a = ResolveFolder(Detected(dir))
      BY <1>1, <1>3 DEF ResolvePath
    <2>2. Detected(dir) = None => a = [kind |-> "none"]
      BY <2>1 DEF ResolveFolder
    <2>3. Detected(dir) # None => a.kind = "slug_collision" \/ IsRegistered(a) \/ IsDerived(a, dir)
      BY <1>1a, <2>1, FolderAnswers
    <2>. QED  BY <1>3, <2>2, <2>3
  <1>. QED  BY <1>2, <1>3

LEMMA ImageIsFinite ==
    ASSUME NEW S, IsFiniteSet(S), NEW T, NEW f \in [S -> T], \A t \in T : \E s \in S : f[s] = t
    PROVE  IsFiniteSet(T)
  BY Fun_IsSurj, FS_Surjection

LEMMA AtMostOne ==
    ASSUME NEW T, IsFiniteSet(T), ~(Cardinality(T) > 1), NEW x \in T, NEW y \in T
    PROVE  x = y
  <1>1. SUFFICES ASSUME x # y PROVE FALSE
    OBVIOUS
  <1>2. IsFiniteSet({x}) /\ Cardinality({x}) = 1
    BY FS_Singleton
  <1>3. Cardinality({x} \cup {y}) = 2
    <2>. DEFINE S == {x}
    <2>1. y \notin S
      BY <1>1
    <2>2. IsFiniteSet(S) /\ Cardinality(S) = 1
      BY <1>2
    <2>. HIDE DEF S
    <2>3. Cardinality(S \cup {y}) = Cardinality(S) + 1
      BY <2>1, <2>2, FS_AddElement
    <2>4. Cardinality(S \cup {y}) = 2
      BY <2>2, <2>3
    <2>. QED  BY <2>4 DEF S
  <1>4. {x} \cup {y} \in SUBSET T
    OBVIOUS
  <1>5. Cardinality({x} \cup {y}) <= Cardinality(T) /\ Cardinality(T) \in Nat
    BY <1>4, FS_Subset, FS_CardinalityType
  <1>. QED  BY <1>3, <1>5

IsAnswer(a) ==
    a.kind = "resolved" =>
        /\ a = [kind |-> "resolved", slug |-> a.slug, source |-> a.source,
                paths |-> a.paths, repos |-> a.repos]
        /\ a.source \in 1 .. 3

\* When the answers of all roots agree on a project still to be made, every
\* root that resolves at all is derived, with its slug.
LEMMA AgreedAnswers ==
    ASSUME NEW answers, IsFiniteSet(answers), \A a \in answers : IsAnswer(a),
           NEW scope, scope = Agreed(answers), scope.kind = "resolved"
    PROVE  /\ \E a \in answers : a.kind = "resolved"
           /\ \A a \in answers : a.kind # "slug_collision"
           /\ scope.source \in 1 .. 3
           /\ scope.source = Derived =>
                /\ \A a \in answers : a.kind = "resolved" =>
                     a.source = Derived /\ a.slug = scope.slug /\ a.paths \subseteq scope.paths
                /\ \A p \in scope.paths :
                     \E a \in answers : a.kind = "resolved" /\ p \in a.paths
                /\ \A r \in scope.repos :
                     \E a \in answers : a.kind = "resolved" /\ r \in a.repos
  <1>. DEFINE found == {a \in answers : a.kind = "resolved"}
              slugs == {a.slug : a \in found}
              best == CHOOSE a \in found : \A b \in found : a.source <= b.source
              P == MergedFolders(found)[1]
              R == MergedFolders(found)[2]
  <1>1. /\ found # {} /\ \A a \in answers : a.kind # "slug_collision"
        /\ ~(Cardinality(slugs) > 1) /\ scope = Strongest(found)
    BY DEF Agreed, Unresolved
  <1>2. P = UNION {r.paths : r \in found} /\ R = UNION {r.repos : r \in found}
    BY DEF MergedFolders
  <1>3. \A a \in found :
            /\ a = [kind |-> "resolved", slug |-> a.slug, source |-> a.source,
                    paths |-> a.paths, repos |-> a.repos]
            /\ a.source \in 1 .. 3
    BY DEF IsAnswer
  <1>4. best \in found /\ \A b \in found : best.source <= b.source
    <2>1. \E a \in found : \A b \in found : a.source <= b.source
      <3>. DEFINE T == {a.source : a \in found}
      <3>1. T \in SUBSET Nat /\ T # {}
        <4>. HIDE DEF found
        <4>. QED  BY <1>1, <1>3
      <3>2. PICK m \in T : \A n \in T : m <= n
        <4>. HIDE DEF T
        <4>. QED  BY <3>1, LeastOfNat
      <3>. HIDE DEF found
      <3>. QED  BY <3>2
    <2>. HIDE DEF found
    <2>. QED  BY <2>1
  <1>5. scope = IF best.source # Derived THEN best
                ELSE [best EXCEPT !.paths = P, !.repos = R]
    BY <1>1 DEF Strongest
  <1>6. ASSUME NEW a \in found PROVE a.slug = best.slug
    <2>1. IsFiniteSet(found)
      BY FS_Subset
    <2>2. IsFiniteSet(slugs)
      <3>. DEFINE f == [b \in found |-> b.slug]
      <3>1. f \in [found -> slugs] /\ \A t \in slugs : \E s \in found : f[s] = t
        OBVIOUS
      <3>. HIDE DEF f, found, slugs
      <3>. QED  BY <2>1, <3>1, ImageIsFinite
    <2>3. a.slug \in slugs /\ best.slug \in slugs
      <3>. HIDE DEF found, best
      <3>. QED  BY <1>4
    <2>. HIDE DEF slugs, best, found
    <2>. QED  BY <1>1, <2>2, <2>3, AtMostOne
  <1>7. CASE best.source # Derived
    <2>1. scope = best
      BY <1>5, <1>7
    <2>2. scope.source # Derived /\ scope.source \in 1 .. 3
      <3>. HIDE DEF found, best
      <3>. QED  BY <1>3, <1>4, <1>7, <2>1
    <2>. HIDE DEF best, slugs, P, R
    <2>. QED  BY <1>1, <2>2
  <1>8. CASE best.source = Derived
    <2>1. scope = [best EXCEPT !.paths = P, !.repos = R]
      BY <1>5, <1>8
    <2>2. best = [kind |-> "resolved", slug |-> best.slug, source |-> best.source,
                  paths |-> best.paths, repos |-> best.repos]
      <3>. HIDE DEF found, best
      <3>. QED  BY <1>3, <1>4
    <2>3. /\ scope.slug = best.slug /\ scope.source = best.source
          /\ scope.paths = P /\ scope.repos = R
      <3>. HIDE DEF best, P, R
      <3>. QED  BY <2>1, <2>2
    <2>4. \A a \in found : a.source = Derived
      <3>. HIDE DEF found, best
      <3>. QED  BY <1>3, <1>4, <1>8 DEF Derived
    <2>5. /\ \A a \in found : a.paths \subseteq P
          /\ \A p \in P : \E a \in found : p \in a.paths
          /\ \A r \in R : \E a \in found : r \in a.repos
      <3>. HIDE DEF P, R, found
      <3>. QED  BY <1>2
    <2>6. scope.source \in 1 .. 3
      BY <1>8, <2>3 DEF Derived
    <2>. HIDE DEF best, slugs, P, R
    <2>. QED  BY <1>1, <1>6, <2>3, <2>4, <2>5, <2>6
  <1>. QED  BY <1>7, <1>8

\* One registered project, and roots that lead nowhere: it is the scope.
LEMMA AgreedOnOne ==
    ASSUME NEW answers, NEW one \in answers, one.kind = "resolved",
           one.source \in Nat \ {Derived},
           \A a \in answers : a = one \/ a.kind = "none"
    PROVE  Agreed(answers) = one
  <1>. DEFINE found == {a \in answers : a.kind = "resolved"}
              slugs == {a.slug : a \in found}
  <1>1. found = {one}
    OBVIOUS
  <1>2. slugs = {one.slug}
    BY <1>1
  <1>3. ~(Cardinality(slugs) > 1)
    <2>1. Cardinality({one.slug}) = 1
      BY FS_Singleton
    <2>. HIDE DEF slugs
    <2>. QED  BY <1>2, <2>1
  <1>4. found # {} /\ \A a \in answers : a.kind # "slug_collision"
    BY <1>1
  <1>5. Agreed(answers) = Strongest(found)
    BY <1>3, <1>4 DEF Agreed
  <1>6. one.source <= one.source
    OBVIOUS
  <1>7. (CHOOSE a \in {one} : \A b \in {one} : a.source <= b.source) = one
    BY <1>6
  <1>8. Strongest({one}) = one
    BY <1>7 DEF Strongest
  <1>. QED  BY <1>1, <1>5, <1>8

ScopeIsAnswer(roots) ==
    /\ IsFiniteSet({ResolvePath(r) : r \in roots})
    /\ \A r \in roots : IsAnswer(ResolvePath(r))

LEMMA RootsAnswer ==
    ASSUME NEW roots \in RootSets
    PROVE  ScopeIsAnswer(roots)
  <1>1. roots \subseteq Paths /\ IsFiniteSet(roots)
    BY LibraryAssumption
  <1>2. ASSUME NEW r \in roots PROVE IsAnswer(ResolvePath(r))
    <2>1. PICK a : a = ResolvePath(r)
      OBVIOUS
    <2>2. \/ IsRegistered(a) \/ a.kind \in {"none", "slug_collision"} \/ IsDerived(a, Canonical[r])
      BY <1>1, <2>1, PathAnswers
    <2>3. IsRegistered(a) => IsAnswer(a)
      BY DEF IsRegistered, IsAnswer, MemberPath, GitRemote
    <2>4. IsDerived(a, Canonical[r]) => IsAnswer(a)
      BY DEF IsDerived, IsAnswer, Derived
    <2>5. a.kind \in {"none", "slug_collision"} => IsAnswer(a)
      BY DEF IsAnswer
    <2>. QED  BY <2>1, <2>2, <2>3, <2>4, <2>5
  <1>3. IsFiniteSet({ResolvePath(r) : r \in roots})
    <2>. DEFINE T == {ResolvePath(r) : r \in roots}
                f == [r \in roots |-> ResolvePath(r)]
    <2>1. f \in [roots -> T] /\ \A t \in T : \E s \in roots : f[s] = t
      OBVIOUS
    <2>2. IsFiniteSet(T)
      <3>. HIDE DEF f, T
      <3>. QED  BY <1>1, <2>1, ImageIsFinite
    <2>. QED  BY <2>2
  <1>. QED  BY <1>2, <1>3 DEF ScopeIsAnswer

\* The provisional project of derived roots: well typed, and every root that
\* leads somewhere lies in one of its folders and in no other project's.
DerivedFrom(roots, scope) ==
    /\ scope.paths \subseteq Paths /\ scope.repos \subseteq Remotes
    /\ \E r \in roots : ResolvePath(r).kind = "resolved"
    /\ \A r \in roots :
         /\ PathOwner(projects, Canonical[r]) = None
         /\ \/ Detected(Canonical[r]) = None
            \/ /\ Detected(Canonical[r]) \in scope.paths
               /\ Canonical[Detected(Canonical[r])] = Detected(Canonical[r])
               /\ IsPrefix(Detected(Canonical[r]), Canonical[r])
    /\ \E r \in roots : Detected(Canonical[r]) # None

LEMMA DerivedScope ==
    ASSUME NEW roots \in RootSets, NEW scope, scope = ResolveScope(roots),
           scope.kind = "resolved", scope.source = Derived
    PROVE  DerivedFrom(roots, scope)
  <1>. DEFINE answers == {ResolvePath(r) : r \in roots}
  <1>1. roots \subseteq Paths
    BY LibraryAssumption
  <1>2. IsFiniteSet(answers) /\ \A a \in answers : IsAnswer(a)
    BY RootsAnswer DEF ScopeIsAnswer
  <1>3. scope = Agreed(answers)
    BY DEF ResolveScope
  <1>4. /\ \E a \in answers : a.kind = "resolved"
        /\ \A a \in answers : a.kind # "slug_collision"
        /\ \A a \in answers : a.kind = "resolved" =>
             a.source = Derived /\ a.slug = scope.slug /\ a.paths \subseteq scope.paths
        /\ \A p \in scope.paths : \E a \in answers : a.kind = "resolved" /\ p \in a.paths
        /\ \A r \in scope.repos : \E a \in answers : a.kind = "resolved" /\ r \in a.repos
    <2>. HIDE DEF answers
    <2>. QED  BY <1>2, <1>3, AgreedAnswers
  <1>5. ASSUME NEW r \in roots, NEW a, a = ResolvePath(r)
        PROVE  /\ PathOwner(projects, Canonical[r]) = None
               /\ \/ a.kind = "none" /\ Detected(Canonical[r]) = None
                  \/ a.kind = "resolved" /\ IsDerived(a, Canonical[r])
    <2>1. a.kind # "slug_collision" /\ (a.kind = "resolved" => a.source = Derived)
      BY <1>4, <1>5
    <2>2. ~IsRegistered(a)
      BY <2>1 DEF IsRegistered, MemberPath, GitRemote, Derived
    <2>3. IsDerived(a, Canonical[r]) => a.kind = "resolved"
      BY DEF IsDerived
    <2>. QED  BY <1>1, <1>5, <2>1, <2>2, <2>3, PathAnswers
  <1>6. ASSUME NEW r \in roots, Detected(Canonical[r]) # None
        PROVE  /\ Detected(Canonical[r]) \in scope.paths
               /\ Detected(Canonical[r]) \in Paths
               /\ Canonical[Detected(Canonical[r])] = Detected(Canonical[r])
               /\ IsPrefix(Detected(Canonical[r]), Canonical[r])
    <2>1. PICK a : a = ResolvePath(r)
      OBVIOUS
    <2>2. a.kind = "resolved" /\ a.paths = {Detected(Canonical[r])} /\ a \in answers
      BY <1>5, <1>6, <2>1 DEF IsDerived
    <2>3. Canonical[r] \in Paths
      BY <1>1, RegistryAssumption
    <2>. QED  BY <1>4, <1>6, <2>2, <2>3, DetectedHolds, MarkersAreReal
  <1>7. ASSUME NEW a \in answers, a.kind = "resolved"
        PROVE  \E r \in roots : a = ResolvePath(r) /\ IsDerived(a, Canonical[r])
    <2>1. PICK r \in roots : a = ResolvePath(r)
      OBVIOUS
    <2>. QED  BY <1>5, <1>7, <2>1
  <1>8. scope.paths \subseteq Paths /\ scope.repos \subseteq Remotes
    <2>1. ASSUME NEW p \in scope.paths PROVE p \in Paths
      <3>1. PICK a \in answers : a.kind = "resolved" /\ p \in a.paths
        BY <1>4
      <3>2. PICK r \in roots : a = ResolvePath(r) /\ IsDerived(a, Canonical[r])
        BY <1>7, <3>1
      <3>3. p = Detected(Canonical[r]) /\ Detected(Canonical[r]) # None
        BY <3>1, <3>2 DEF IsDerived
      <3>. QED  BY <1>6, <3>3
    <2>2. ASSUME NEW p \in scope.repos PROVE p \in Remotes
      <3>1. PICK a \in answers : a.kind = "resolved" /\ p \in a.repos
        BY <1>4
      <3>2. PICK r \in roots : a = ResolvePath(r) /\ IsDerived(a, Canonical[r])
        BY <1>7, <3>1
      <3>. QED  BY <3>1, <3>2 DEF IsDerived
    <2>. QED  BY <2>1, <2>2
  <1>9. PICK r \in roots : ResolvePath(r).kind = "resolved"
    BY <1>4
  <1>10. Detected(Canonical[r]) # None
    <2>1. PICK a : a = ResolvePath(r)
      OBVIOUS
    <2>. QED  BY <1>5, <1>9, <2>1 DEF IsDerived
  <1>. QED  BY <1>5, <1>6, <1>8, <1>9, <1>10 DEF DerivedFrom

\* After the capture made the project, its roots resolve to it: some root lies
\* in a folder of it, no root in another project's, and a member path comes
\* before every other source.
LEMMA CreatedIsFound ==
    ASSUME RegistryFits(projects, aliases), RowsTyped(projects'),
           NEW roots \in RootSets, NEW scope, scope = ResolveScope(roots),
           scope.kind = "resolved", scope.source = Derived,
           NEW pid \in Pids, pid \notin DOMAIN projects,
           DOMAIN projects' = DOMAIN projects \cup {pid},
           \A p \in DOMAIN projects : projects'[p] = projects[p],
           projects'[pid].paths = scope.paths
    PROVE  ResolveScope(roots)' = Registered(pid, MemberPath)'
  <1>. DEFINE answers == {ResolvePath(r)' : r \in roots}
              one == Registered(pid, MemberPath)'
  <1>1. roots \subseteq Paths /\ \A r \in roots : Canonical[r] \in Paths
    BY LibraryAssumption, RegistryAssumption
  <1>2. DerivedFrom(roots, scope)
    BY DerivedScope
  <1>3. RowsTyped(projects)
    BY DEF RegistryFits
  <1>4. ASSUME NEW r \in roots, NEW q \in DOMAIN projects', HoldsBy(projects', q, Canonical[r])
        PROVE  q = pid
    <2>1. PathOwner(projects, Canonical[r]) = None
      BY <1>2 DEF DerivedFrom
    <2>2. \A p \in DOMAIN projects : ~HoldsBy(projects, p, Canonical[r])
      BY <1>1, <1>3, <2>1, PathOwnerFinds
    <2>3. \A p \in DOMAIN projects : ~HoldsBy(projects', p, Canonical[r])
      BY <2>2 DEF HoldsBy
    <2>. QED  BY <1>4, <2>3
  <1>5. ASSUME NEW r \in roots
        PROVE  PathOwner(projects', Canonical[r]) \in {None, pid}
    BY <1>1, <1>4, PathOwnerFinds
  <1>6. ASSUME NEW r \in roots, Detected(Canonical[r]) # None
        PROVE  PathOwner(projects', Canonical[r]) = pid
    <2>1. /\ Detected(Canonical[r]) \in scope.paths
          /\ Canonical[Detected(Canonical[r])] = Detected(Canonical[r])
          /\ IsPrefix(Detected(Canonical[r]), Canonical[r])
      BY <1>2, <1>6 DEF DerivedFrom
    <2>2. HoldsBy(projects', pid, Canonical[r])
      BY <2>1 DEF HoldsBy
    <2>3. PathOwner(projects', Canonical[r]) # None
      BY <1>1, <2>2, PathOwnerFinds
    <2>. QED  BY <1>5, <2>3
  <1>7. ASSUME NEW r \in roots
        PROVE  /\ PathOwner(projects', Canonical[r]) = pid => ResolvePath(r)' = one
               /\ PathOwner(projects', Canonical[r]) = None => ResolvePath(r)' = [kind |-> "none"]
    <2>1. ByPath(Canonical[r])' = PathOwner(projects', Canonical[r])
      BY DEF ByPath, PathOwner, Holding
    <2>2. PathOwner(projects', Canonical[r]) = pid => ResolvePath(r)' = one
      BY <2>1, NoneIsNothing DEF ResolvePath
    <2>3. ASSUME PathOwner(projects', Canonical[r]) = None
          PROVE  ResolvePath(r)' = [kind |-> "none"]
      <3>1. Detected(Canonical[r]) = None
        BY <1>6, <2>3, NoneIsNothing
      <3>2. ResolvePath(r)' = ResolveFolder(Detected(Canonical[r]))'
        BY <2>1, <2>3 DEF ResolvePath
      <3>. QED  BY <3>1, <3>2 DEF ResolveFolder
    <2>. QED  BY <2>2, <2>3
  <1>8. one.kind = "resolved" /\ one.source \in Nat \ {Derived}
    BY DEF Registered, MemberPath, Derived
  <1>9. one \in answers
    <2>1. PICK r \in roots : Detected(Canonical[r]) # None
      BY <1>2 DEF DerivedFrom
    <2>2. ResolvePath(r)' = one
      BY <1>6, <1>7, <2>1
    <2>. QED  BY <2>2
  <1>10. \A a \in answers : a = one \/ a.kind = "none"
    <2>1. ASSUME NEW r \in roots PROVE ResolvePath(r)' = one \/ ResolvePath(r)'.kind = "none"
      <3>. HIDE DEF one
      <3>. QED  BY <1>5, <1>7
    <2>. QED  BY <2>1
  <1>11. ResolveScope(roots)' = Agreed(answers)
    BY DEF ResolveScope
  <1>12. Agreed(answers) = one
    <2>. HIDE DEF answers, one
    <2>. QED  BY <1>8, <1>9, <1>10, AgreedOnOne
  <1>. QED  BY <1>11, <1>12

-----------------------------------------------------------------------------
(* What a step leaves alone                                                *)

LEMMA ScanKeeps ==
    ASSUME ScanSound, pager' = pager, NEW filing, ObservedFiling(filing)
    PROVE  ScanSound'
  <1>1. CASE pager.pc = "idle"
    BY <1>1 DEF ScanSound
  <1>2. CASE pager.pc # "idle"
    <2>1. held' = held \cap ToReturn(pager', edges')
      BY <1>2 DEF ObservedFiling
    <2>2. held' \subseteq held /\ held' \subseteq ToReturn(pager, edges)'
      BY <2>1
    <2>. QED  BY <1>2, <2>2 DEF ScanSound
  <1>. QED  BY <1>1, <1>2

LEMMA ShownKeeps ==
    ASSUME ShownAsVouched, reader' = reader, NEW filing, ObservedFiling(filing)
    PROVE  ShownAsVouched'
  <1>1. reader.pc = "shown" => vouched \subseteq vouched'
    BY DEF ObservedFiling
  <1>. QED  BY <1>1 DEF ShownAsVouched

LEMMA JobKeeps ==
    ASSUME JobSound, job' = job, DOMAIN projects \subseteq DOMAIN projects'
    PROVE  JobSound'
  BY DEF JobSound

LEMMA NothingFiled ==
    ASSUME filed' = NotFiled
    PROVE  CapturesReadBack'
  BY DEF CapturesReadBack

\* A step of the tools: job, scan and list stay as they are.
LEMMA ToolStep ==
    ASSUME IInv, NEW filing, ObservedFiling(filing), UNCHANGED <<job, readVars>>,
           DOMAIN projects \subseteq DOMAIN projects', TypeOK', TablesFinite',
           filing = NotFiled \/ CapturesReadBack'
    PROVE  IInv'
  <1>1. job' = job /\ pager' = pager /\ reader' = reader
    BY DEF readVars
  <1>2. ScanSound' /\ ShownAsVouched' /\ JobSound'
    BY <1>1, ScanKeeps, ShownKeeps, JobKeeps DEF IInv
  <1>3. CapturesReadBack'
    BY NothingFiled DEF ObservedFiling
  <1>. QED  BY <1>2, <1>3 DEF IInv

\* The tables of a step whose registry does not change.
LEMMA SameRegistry ==
    ASSUME TypeOK, UNCHANGED registryVars
    PROVE  /\ RegistryFits(projects', aliases')
           /\ projects' = projects /\ aliases' = aliases
           /\ NotesFit(projects', aliases', thoughts)
  BY TypeOKMeans DEF registryVars

-----------------------------------------------------------------------------
(* capture_thought                                                         *)

\* What a slug leads to.
LEMMA SlugLeads ==
    RegistryFits(projects, aliases) =>
        \A slug : Reference(None, slug).pid = AliasOwner(projects, aliases, slug)
  <1>. SUFFICES ASSUME RegistryFits(projects, aliases), NEW slug
                PROVE  Reference(None, slug).pid = AliasOwner(projects, aliases, slug)
    OBVIOUS
  <1>1. \A s : ByAlias(s) = AliasOwner(projects, aliases, s)
    BY DEF ByAlias, AliasOwner
  <1>2. AliasOwner(projects, aliases, None) = None
    BY NoneIsNothing DEF AliasOwner, RegistryFits
  <1>3. Reference(None, slug).pid =
            IF slug = None \/ ByAlias(slug) = None THEN None ELSE ByAlias(slug)
    BY NoneIsNothing DEF Reference
  <1>. QED  BY <1>1, <1>2, <1>3

LEMMA SlugLeadsNext ==
    RegistryFits(projects', aliases') =>
        \A slug : Reference(None, slug)'.pid = AliasOwner(projects', aliases', slug)
  <1>1. (RegistryFits(projects, aliases) =>
           \A slug : Reference(None, slug).pid = AliasOwner(projects, aliases, slug))'
    BY SlugLeads, PTL
  <1>. QED  BY <1>1

\* A project that resolves exists and is named by its own slug.
LEMMA ResolvedExists ==
    ASSUME RegistryFits(projects, aliases), NEW pid, NEW slug,
           Reference(pid, slug).kind = "resolved"
    PROVE  Reference(pid, slug).pid \in DOMAIN projects
  <1>1. pid # None => pid \in DOMAIN projects
    BY DEF Reference
  <1>2. pid = None => ByAlias(slug) # None
    BY DEF Reference
  <1>3. Reference(pid, slug).pid = IF pid # None THEN pid ELSE ByAlias(slug)
    BY DEF Reference
  <1>4. ByAlias(slug) # None => ByAlias(slug) \in DOMAIN projects
    BY DEF ByAlias
  <1>. QED  BY <1>1, <1>2, <1>3, <1>4

\* A read of the roots is given the project that a resolved scope names.
LEMMA ReadsBack ==
    ASSUME NEW roots, filed' = <<roots>>, RegistryFits(projects', aliases'),
           ResolveScope(roots)'.kind = "resolved",
           AliasOwner(projects', aliases', ResolveScope(roots)'.slug) # None,
           thoughts'[born'].pid = AliasOwner(projects', aliases', ResolveScope(roots)'.slug)
    PROVE  CapturesReadBack'
  <1>. DEFINE pid == AliasOwner(projects', aliases', ResolveScope(roots)'.slug)
              scope == [kind |-> "applied", pid |-> pid, shared |-> TRUE,
                        sharedOnly |-> FALSE, all |-> FALSE]
  <1>1. ProjectOf(ResolveScope(roots))' = pid
    BY SlugLeadsNext DEF ProjectOf
  <1>2. /\ NoArgs.pid = None /\ NoArgs.slug = None /\ NoArgs.shared = None
        /\ NoArgs.sharedOnly = FALSE /\ NoArgs.all = FALSE
    BY DEF NoArgs
  <1>3. Reference(None, None)'.kind = "unresolved"
    BY NoneIsNothing DEF Reference
  <1>4. DefaultScope(NoArgs, roots)' = Applied(pid, NoArgs, TRUE, NoArgs.sharedOnly)
    <2>1. DefaultScope(NoArgs, roots)' = ScopeOf(NoArgs, Reference(None, None)', pid)
      <3>. HIDE DEF pid
      <3>. QED  BY <1>1, <1>2 DEF DefaultScope
    <2>2. PICK named : named = Reference(None, None)'
      OBVIOUS
    <2>3. ~NoArgs.all /\ pid # None
      BY <1>2
    <2>4. ScopeOf(NoArgs, named, pid) = Applied(pid, NoArgs, TRUE, NoArgs.sharedOnly)
      <3>. HIDE DEF pid
      <3>. QED  BY <1>3, <2>2, <2>3 DEF ScopeOf
    <2>. QED  BY <2>1, <2>2, <2>4
  <1>5. Applied(pid, NoArgs, TRUE, NoArgs.sharedOnly) = scope
    BY <1>2 DEF Applied, Or
  <1>6. filed'[1] = roots
    OBVIOUS
  <1>7. ASSUME NEW s, s = scope
        PROVE  s.kind = "applied" /\ s.pid = thoughts'[born'].pid /\ InScope(born, s)'
    <2>1. s.kind = "applied" /\ s.pid = pid /\ ~s.sharedOnly /\ ~s.all
      BY <1>7
    <2>2. Wanted(s) = s.pid
      BY <2>1 DEF Wanted
    <2>. QED  BY <2>1, <2>2 DEF InScope
  <1>8. CapturesReadBack' <=>
          (filed' # NotFiled =>
             \E s \in {DefaultScope(NoArgs, roots)'} :
                s.kind = "applied" /\ s.pid = thoughts'[born'].pid /\ InScope(born, s)')
    BY <1>6 DEF CapturesReadBack
  <1>. HIDE DEF scope, pid
  <1>. QED  BY <1>4, <1>5, <1>7, <1>8

\* A new thought in tables whose registry is sound after the step.
LEMMA InsertedFits ==
    ASSUME TypeOK, TablesFinite, RegistryFits(projects', aliases'),
           NotesFit(projects', aliases', thoughts), born + 1 \in Ids,
           NEW pid, pid \in DOMAIN projects' \cup {None}, NEW shared \in BOOLEAN,
           NEW trust \in TrustLevels, NEW text \in Texts \cup {None},
           NEW filing, Inserted(pid, shared, trust, text, filing)
    PROVE  /\ TypeOK' /\ TablesFinite' /\ thoughts'[born'].pid = pid
           /\ UNCHANGED <<job, readVars>> /\ ObservedFiling(filing)
  <1>. DEFINE note == NewThought(pid, shared, trust, text)
              ident == IF pid = None THEN None ELSE projects'[pid].slug
  <1>1. /\ born' = born + 1 /\ thoughts' = With(thoughts, born + 1, note)
        /\ edges' = edges /\ UNCHANGED <<job, readVars>> /\ ObservedFiling(filing)
    BY DEF Inserted
  <1>2. note = [pid |-> pid, ident |-> ident, shared |-> shared, trust |-> trust, text |-> text,
                weight |-> 0, confirmed |-> 0, fresh |-> TRUE, mark |-> "none"]
    BY DEF NewThought
  <1>3. pid # None => pid \in Pids /\ projects'[pid].slug \in Slugs
                       /\ AliasOwner(projects', aliases', projects'[pid].slug) = pid
    BY DEF RegistryFits, RowsTyped, Project, ProjectSeed
  <1>4. note \in Thought /\ note.pid = pid /\ note.ident = ident
    <2>1. ident \in Slugs \cup {None, ""} /\ pid \in Pids \cup {None}
      BY <1>3
    <2>. HIDE DEF note, ident
    <2>. QED  BY <1>2, <2>1 DEF Thought
  <1>5. FiledUnder(projects', aliases', note)
    <2>. HIDE DEF note
    <2>. QED  BY <1>3, <1>4 DEF FiledUnder
  <1>6. /\ DOMAIN thoughts' = DOMAIN thoughts \cup {born + 1} /\ thoughts'[born + 1] = note
        /\ \A i \in DOMAIN thoughts : i # born + 1 => thoughts'[i] = thoughts[i]
    <2>. HIDE DEF note
    <2>. QED  BY <1>1 DEF With
  <1>7. NotesFit(projects', aliases', thoughts')
    <2>. HIDE DEF note
    <2>. QED  BY <1>4, <1>5, <1>6, NoteFits
  <1>8. LinksFit(thoughts', edges')
    BY <1>1, <1>6, TypeOKMeans, LinksStay
  <1>9. TablesFinite'
    BY <1>1, <1>6, FS_AddElement DEF TablesFinite
  <1>10. thoughts'[born'].pid = pid
    <2>. HIDE DEF note
    <2>. QED  BY <1>1, <1>4, <1>6
  <1>. QED  BY <1>1, <1>7, <1>8, <1>9, <1>10, TypeOKMeansNext

LEMMA StepCaptureShared ==
    ASSUME IInv, NEW c \in CapturedAs, born + 1 \in Ids, CaptureShared(c.trust, c.text)
    PROVE  IInv'
  <1>1. c.trust \in TrustLevels /\ c.text \in Texts \cup {None}
    BY LibraryAssumption DEF Capture
  <1>2. UNCHANGED registryVars /\ \E sh \in {TRUE} : Inserted(None, sh, c.trust, c.text, NotFiled)
    BY DEF CaptureShared
  <1>3. TypeOK /\ TablesFinite
    BY DEF IInv
  <1>4. /\ TypeOK' /\ TablesFinite' /\ UNCHANGED <<job, readVars>> /\ ObservedFiling(NotFiled)
    BY <1>1, <1>2, <1>3, SameRegistry, InsertedFits
  <1>. QED  BY <1>2, <1>4, ToolStep DEF registryVars

LEMMA StepCaptureNamed ==
    ASSUME IInv, NEW c \in CapturedAs, born + 1 \in Ids, NEW pid, NEW slug,
           CaptureNamed(pid, slug, c.shared, c.trust, c.text)
    PROVE  IInv'
  <1>1. c.shared \in BOOLEAN /\ c.trust \in TrustLevels /\ c.text \in Texts \cup {None}
    BY LibraryAssumption DEF Capture
  <1>2. PICK p : p = Reference(pid, slug).pid
    OBVIOUS
  <1>3. UNCHANGED registryVars /\ Inserted(p, c.shared, c.trust, c.text, NotFiled)
    BY <1>2 DEF CaptureNamed
  <1>4. TypeOK /\ TablesFinite /\ RegistryFits(projects, aliases)
    BY TypeOKMeans DEF IInv
  <1>5. p \in DOMAIN projects'
    BY <1>2, <1>3, <1>4, SameRegistry, ResolvedExists DEF CaptureNamed
  <1>6. /\ TypeOK' /\ TablesFinite' /\ UNCHANGED <<job, readVars>> /\ ObservedFiling(NotFiled)
    BY <1>1, <1>3, <1>4, <1>5, SameRegistry, InsertedFits
  <1>. QED  BY <1>3, <1>6, ToolStep DEF registryVars

\* The registry as it is, roots resolve as they did.
LEMMA SameScope ==
    ASSUME projects' = projects, aliases' = aliases, NEW roots
    PROVE  ResolveScope(roots)' = ResolveScope(roots)
  <1>1. \A s : ByAlias(s)' = ByAlias(s)
    BY DEF ByAlias
  <1>2. \A x : ByRepo(x)' = ByRepo(x)
    BY DEF ByRepo
  <1>3. \A p, source : Registered(p, source)' = Registered(p, source)
    BY DEF Registered
  <1>4. \A slug, root, repos : FromFolder(slug, root, repos)' = FromFolder(slug, root, repos)
    BY <1>1 DEF FromFolder
  <1>5. \A x, root : FromRemote(x, root)' = FromRemote(x, root)
    BY <1>2, <1>3, <1>4 DEF FromRemote
  <1>6. \A root : ResolveFolder(root)' = ResolveFolder(root)
    BY <1>4, <1>5 DEF ResolveFolder
  <1>7. \A dir : ByPath(dir)' = ByPath(dir)
    BY DEF ByPath
  <1>8. \A r : ResolvePath(r)' = ResolvePath(r)
    BY <1>3, <1>6, <1>7 DEF ResolvePath
  <1>. QED  BY <1>8 DEF ResolveScope

LEMMA StepCaptureKnown ==
    ASSUME IInv, NEW c \in CapturedAs, born + 1 \in Ids, NEW roots \in RootSets,
           NEW scope, scope = ResolveScope(roots), scope.kind = "resolved",
           ProjectOf(scope) # None, UNCHANGED registryVars,
           NEW sh, sh = FALSE, Inserted(ProjectOf(scope), sh, c.trust, c.text, <<roots>>)
    PROVE  IInv'
  <1>1. c.trust \in TrustLevels /\ c.text \in Texts \cup {None}
    BY LibraryAssumption DEF Capture
  <1>2. PICK p : p = ProjectOf(scope)
    OBVIOUS
  <1>3. TypeOK /\ TablesFinite /\ RegistryFits(projects, aliases)
    BY TypeOKMeans DEF IInv
  <1>4. p = AliasOwner(projects, aliases, scope.slug) /\ p # None
    BY <1>2, <1>3, SlugLeads DEF ProjectOf
  <1>5. /\ projects' = projects /\ aliases' = aliases
        /\ RegistryFits(projects', aliases') /\ NotesFit(projects', aliases', thoughts)
    BY <1>3, SameRegistry
  <1>6. p \in DOMAIN projects'
    BY <1>4, <1>5 DEF AliasOwner
  <1>7. Inserted(p, sh, c.trust, c.text, <<roots>>)
    BY <1>2
  <1>8. /\ TypeOK' /\ TablesFinite' /\ UNCHANGED <<job, readVars>> /\ ObservedFiling(<<roots>>)
        /\ thoughts'[born'].pid = p
    BY <1>1, <1>3, <1>5, <1>6, <1>7, InsertedFits
  <1>9. ResolveScope(roots)' = scope
    BY <1>5, SameScope
  <1>10. filed' = <<roots>>
    BY <1>8 DEF ObservedFiling
  <1>11. CapturesReadBack'
    BY <1>4, <1>5, <1>8, <1>9, <1>10, ReadsBack
  <1>. QED  BY <1>5, <1>8, <1>11, ToolStep

\* What Create does to sound tables.
LEMMA CreatedTables ==
    ASSUME TypeOK, NEW pid \in Pids, pid \notin DOMAIN projects,
           NEW seed \in ProjectSeed, seed.slug \notin DOMAIN aliases, Create(pid, seed)
    PROVE  /\ RegistryFits(projects', aliases') /\ NotesFit(projects', aliases', thoughts)
           /\ DOMAIN projects' = DOMAIN projects \cup {pid} /\ projects'[pid] = seed
           /\ \A p \in DOMAIN projects : projects'[p] = projects[p]
           /\ AliasOwner(projects', aliases', seed.slug) = pid
  <1>1. projects' = With(projects, pid, seed) /\ aliases' = With(aliases, seed.slug, Tentative(pid))
    BY DEF Create, Tentative
  <1>2. RegistryFits(projects, aliases) /\ NotesFit(projects, aliases, thoughts)
    BY TypeOKMeans
  <1>3. PICK rows2, names2 : rows2 = projects' /\ names2 = aliases'
    OBVIOUS
  <1>4. /\ RegistryFits(rows2, names2) /\ rows2[pid] = seed
        /\ \A s : s # seed.slug => AliasOwner(rows2, names2, s) = AliasOwner(projects, aliases, s)
        /\ AliasOwner(rows2, names2, seed.slug) = pid
    <2>1. rows2 = With(projects, pid, seed) /\ names2 = With(aliases, seed.slug, Tentative(pid))
      BY <1>1, <1>3
    <2>2. pid \in Pids \ DOMAIN projects
      OBVIOUS
    <2>. QED  BY <1>2, <2>1, <2>2, CreateFits
  <1>5. /\ DOMAIN projects' = DOMAIN projects \cup {pid}
        /\ \A p \in DOMAIN projects : projects'[p] = projects[p]
    BY <1>1 DEF With
  <1>6. \A s : AliasOwner(projects, aliases, s) # None =>
                  AliasOwner(projects', aliases', s) = AliasOwner(projects, aliases, s)
    <2>1. AliasOwner(projects, aliases, seed.slug) = None
      BY DEF AliasOwner
    <2>. QED  BY <1>3, <1>4, <2>1
  <1>7. NotesFit(projects', aliases', thoughts)
    BY <1>2, <1>5, <1>6, NotesStay
  <1>. QED  BY <1>3, <1>4, <1>5, <1>7

LEMMA StepCaptureMade ==
    ASSUME IInv, NEW c \in CapturedAs, born + 1 \in Ids, NEW roots \in RootSets,
           NEW scope, scope = ResolveScope(roots), scope.kind = "resolved",
           scope.source = Derived, MayCreate(scope.slug),
           NEW pid \in Pids, pid \notin DOMAIN projects, Create(pid, Provisional(scope)),
           NEW sh, sh = FALSE, Inserted(pid, sh, c.trust, c.text, <<roots>>)
    PROVE  IInv'
  <1>1. c.trust \in TrustLevels /\ c.text \in Texts \cup {None}
    BY LibraryAssumption DEF Capture
  <1>2. TypeOK /\ TablesFinite /\ RegistryFits(projects, aliases)
    BY TypeOKMeans DEF IInv
  <1>3. scope.paths \subseteq Paths /\ scope.repos \subseteq Remotes
    BY DerivedScope DEF DerivedFrom
  <1>4. scope.slug \in Slugs /\ scope.slug \notin DOMAIN aliases
    BY RegistryAssumption DEF MayCreate
  <1>5. PICK seed : seed = Provisional(scope)
    OBVIOUS
  <1>6. seed \in ProjectSeed /\ seed.slug = scope.slug /\ seed.paths = scope.paths
    BY <1>3, <1>4, <1>5 DEF Provisional, ProjectSeed
  <1>7. Create(pid, seed)
    BY <1>5
  <1>8. /\ RegistryFits(projects', aliases') /\ NotesFit(projects', aliases', thoughts)
        /\ DOMAIN projects' = DOMAIN projects \cup {pid} /\ projects'[pid] = seed
        /\ \A p \in DOMAIN projects : projects'[p] = projects[p]
        /\ AliasOwner(projects', aliases', seed.slug) = pid
    BY <1>2, <1>4, <1>6, <1>7, CreatedTables
  <1>9. /\ TypeOK' /\ TablesFinite' /\ UNCHANGED <<job, readVars>> /\ ObservedFiling(<<roots>>)
        /\ thoughts'[born'].pid = pid
    BY <1>1, <1>2, <1>8, InsertedFits
  <1>10. ResolveScope(roots)' = Registered(pid, MemberPath)'
    <2>1. RowsTyped(projects') /\ projects'[pid].paths = scope.paths
      BY <1>6, <1>8 DEF RegistryFits
    <2>. QED  BY <1>2, <1>8, <2>1, CreatedIsFound
  <1>11. ResolveScope(roots)'.kind = "resolved" /\ ResolveScope(roots)'.slug = seed.slug
    BY <1>8, <1>10 DEF Registered
  <1>12. filed' = <<roots>>
    BY <1>9 DEF ObservedFiling
  <1>13. CapturesReadBack'
    BY <1>8, <1>9, <1>11, <1>12, NoneIsNothing, ReadsBack
  <1>. QED  BY <1>8, <1>9, <1>13, ToolStep

LEMMA StepCapture ==
    ASSUME IInv, CaptureNew
    PROVE  IInv'
  <1>1. born + 1 \in Ids
    BY DEF CaptureNew
  <1>2. PICK c \in CapturedAs :
            \/ c.shared /\ CaptureShared(c.trust, c.text)
            \/ \E roots \in RootSets : ~c.shared /\ CapturePersonal(roots, c.trust, c.text)
            \/ \E pid \in DOMAIN projects : \E slug \in DOMAIN aliases \cup {None} :
                 CaptureNamed(pid, slug, c.shared, c.trust, c.text)
    BY DEF CaptureNew
  <1>3. CASE CaptureShared(c.trust, c.text)
    BY <1>1, <1>3, StepCaptureShared
  <1>4. ASSUME NEW pid, NEW slug, CaptureNamed(pid, slug, c.shared, c.trust, c.text) PROVE IInv'
    BY <1>1, <1>4, StepCaptureNamed
  <1>5. ASSUME NEW roots \in RootSets, CapturePersonal(roots, c.trust, c.text) PROVE IInv'
    <2>1. PICK scope, sh : scope = ResolveScope(roots) /\ sh = FALSE
      OBVIOUS
    <2>2. /\ scope.kind = "resolved"
          /\ \/ /\ ProjectOf(scope) # None /\ UNCHANGED registryVars
                /\ Inserted(ProjectOf(scope), sh, c.trust, c.text, <<roots>>)
             \/ /\ scope.source = Derived /\ MayCreate(scope.slug)
                /\ \E pid \in Pids \ DOMAIN projects :
                     /\ Create(pid, Provisional(scope))
                     /\ Inserted(pid, sh, c.trust, c.text, <<roots>>)
      BY <1>5, <2>1 DEF CapturePersonal
    <2>3. CASE /\ ProjectOf(scope) # None /\ UNCHANGED registryVars
               /\ Inserted(ProjectOf(scope), sh, c.trust, c.text, <<roots>>)
      BY <1>1, <2>1, <2>2, <2>3, StepCaptureKnown
    <2>4. CASE /\ scope.source = Derived /\ MayCreate(scope.slug)
               /\ \E pid \in Pids \ DOMAIN projects :
                    /\ Create(pid, Provisional(scope))
                    /\ Inserted(pid, sh, c.trust, c.text, <<roots>>)
      <3>1. PICK pid \in Pids \ DOMAIN projects :
                /\ Create(pid, Provisional(scope))
                /\ Inserted(pid, sh, c.trust, c.text, <<roots>>)
        BY <2>4
      <3>2. pid \in Pids /\ pid \notin DOMAIN projects
        OBVIOUS
      <3>. QED  BY <1>1, <2>1, <2>2, <2>4, <3>1, <3>2, StepCaptureMade
    <2>. QED  BY <2>2, <2>3, <2>4
  <1>. QED  BY <1>2, <1>3, <1>4, <1>5

-----------------------------------------------------------------------------
(* The other tools                                                         *)

\* One row of thoughts is rewritten and stays filed.
LEMMA StepRewrite ==
    ASSUME IInv, NEW id \in DOMAIN thoughts, NEW note \in Thought,
           FiledUnder(projects, aliases, note), thoughts' = [thoughts EXCEPT ![id] = note],
           UNCHANGED <<registryVars, edges, job, readVars, born>>, Observed
    PROVE  IInv'
  <1>1. TypeOK /\ TablesFinite /\ LinksFit(thoughts, edges)
    BY TypeOKMeans DEF IInv
  <1>2. /\ RegistryFits(projects', aliases') /\ NotesFit(projects', aliases', thoughts)
        /\ projects' = projects /\ aliases' = aliases
    BY <1>1, SameRegistry
  <1>3. /\ DOMAIN thoughts' = DOMAIN thoughts \cup {id} /\ thoughts'[id] = note
        /\ \A i \in DOMAIN thoughts : i # id => thoughts'[i] = thoughts[i]
    OBVIOUS
  <1>4. id \in Ids
    BY <1>2 DEF NotesFit
  <1>5. NotesFit(projects', aliases', thoughts')
    BY <1>2, <1>3, <1>4, NoteFits
  <1>6. LinksFit(thoughts', edges')
    BY <1>1, <1>3, LinksStay
  <1>7. TypeOK'
    BY <1>2, <1>5, <1>6, TypeOKMeansNext
  <1>8. TablesFinite'
    BY <1>1 DEF TablesFinite
  <1>. QED  BY <1>2, <1>7, <1>8, ToolStep DEF Observed

LEMMA RowsAreThoughts ==
    ASSUME TypeOK, NEW id \in DOMAIN thoughts
    PROVE  thoughts[id] \in Thought /\ FiledUnder(projects, aliases, thoughts[id])
  BY TypeOKMeans DEF NotesFit

\* A row with the same project and slug is filed as before.
LEMMA FiledAlike ==
    ASSUME NEW row, FiledUnder(projects, aliases, row), NEW note,
           note.pid = row.pid, note.ident = row.ident
    PROVE  FiledUnder(projects, aliases, note)
  BY DEF FiledUnder

LEMMA StepLook ==
    ASSUME IInv, LookAtOne
    PROVE  IInv'
  <1>1. PICK id \in DOMAIN thoughts : Look(id)
    BY DEF LookAtOne
  <1>. DEFINE w == thoughts[id].weight + 1
              note == [[thoughts[id] EXCEPT !.weight = @ + 1] EXCEPT !.fresh = TRUE]
  <1>2. thoughts[id] \in Thought /\ FiledUnder(projects, aliases, thoughts[id])
    BY RowsAreThoughts DEF IInv
  <1>3. w \in Nat
    <2>1. thoughts[id].weight \in Nat
      BY <1>2 DEF Thought
    <2>. QED  BY <2>1
  <1>4. note = [thoughts[id] EXCEPT !.weight = w, !.fresh = TRUE]
    OBVIOUS
  <1>5. note \in Thought /\ note.pid = thoughts[id].pid /\ note.ident = thoughts[id].ident
    <2>. HIDE DEF note, w
    <2>. QED  BY <1>2, <1>3, <1>4 DEF Thought
  <1>6. /\ thoughts' = [thoughts EXCEPT ![id] = note]
        /\ UNCHANGED <<registryVars, edges, job, readVars, born>> /\ Observed
    BY <1>1 DEF Look, Rewritten
  <1>. HIDE DEF note
  <1>. QED  BY <1>2, <1>5, <1>6, FiledAlike, StepRewrite

LEMMA StepEdit ==
    ASSUME IInv, EditOne
    PROVE  IInv'
  <1>1. PICK id \in DOMAIN thoughts, c \in EditedTo : Edit(id, c.shared, c.text)
    BY DEF EditOne
  <1>. DEFINE note == [[thoughts[id] EXCEPT !.shared = c.shared, !.text = c.text] EXCEPT !.fresh = TRUE]
  <1>2. thoughts[id] \in Thought /\ FiledUnder(projects, aliases, thoughts[id])
    BY RowsAreThoughts DEF IInv
  <1>3. c.shared \in BOOLEAN /\ c.text \in Texts \cup {None}
    BY LibraryAssumption DEF Capture
  <1>4. note = [thoughts[id] EXCEPT !.shared = c.shared, !.text = c.text, !.fresh = TRUE]
    OBVIOUS
  <1>5. note \in Thought /\ note.pid = thoughts[id].pid /\ note.ident = thoughts[id].ident
    <2>. HIDE DEF note
    <2>. QED  BY <1>2, <1>3, <1>4 DEF Thought
  <1>6. /\ thoughts' = [thoughts EXCEPT ![id] = note]
        /\ UNCHANGED <<registryVars, edges, job, readVars, born>> /\ Observed
    BY <1>1 DEF Edit, Rewritten
  <1>. HIDE DEF note
  <1>. QED  BY <1>2, <1>5, <1>6, FiledAlike, StepRewrite

LEMMA StepAssign ==
    ASSUME IInv, AssignOne
    PROVE  IInv'
  <1>1. PICK id \in DOMAIN thoughts, slug \in DOMAIN aliases : Assign(id, None, slug)
    BY DEF AssignOne
  <1>2. PICK p : p = Reference(None, slug).pid
    OBVIOUS
  <1>. DEFINE note == [[thoughts[id] EXCEPT !.pid = p, !.ident = projects[p].slug] EXCEPT !.fresh = TRUE]
  <1>3. thoughts[id] \in Thought /\ RegistryFits(projects, aliases)
    BY RowsAreThoughts, TypeOKMeans DEF IInv
  <1>4. p \in DOMAIN projects
    BY <1>1, <1>2, <1>3, ResolvedExists DEF Assign
  <1>5. /\ p \in Pids /\ projects[p].slug \in Slugs
        /\ AliasOwner(projects, aliases, projects[p].slug) = p
    BY <1>3, <1>4 DEF RegistryFits, RowsTyped, Project, ProjectSeed
  <1>6. note = [thoughts[id] EXCEPT !.pid = p, !.ident = projects[p].slug, !.fresh = TRUE]
    OBVIOUS
  <1>7. note \in Thought /\ note.pid = p /\ note.ident = projects[p].slug
    <2>. HIDE DEF note
    <2>. QED  BY <1>3, <1>5, <1>6 DEF Thought
  <1>8. FiledUnder(projects, aliases, note)
    <2>. HIDE DEF note
    <2>. QED  BY <1>4, <1>5, <1>7 DEF FiledUnder
  <1>9. /\ thoughts' = [thoughts EXCEPT ![id] = note]
        /\ UNCHANGED <<registryVars, edges, job, readVars, born>> /\ Observed
    BY <1>1, <1>2 DEF Assign, Rewritten
  <1>. HIDE DEF note
  <1>. QED  BY <1>7, <1>8, <1>9, StepRewrite

LEMMA StepFold ==
    ASSUME IInv, FoldCapture
    PROVE  IInv'
  <1>1. PICK id \in DOMAIN thoughts, c \in EditedTo : Fold(id, c.shared, c.trust, c.text)
    BY DEF FoldCapture
  <1>. DEFINE row == thoughts[id]
              times == {thoughts[i].confirmed : i \in DOMAIN thoughts}
              last == Max(times)
              trust == Max2(row.trust, c.trust)
              shared == row.shared /\ c.shared
              text == Or(c.text, row.text)
              note == [row EXCEPT !.trust = trust, !.shared = shared, !.text = text,
                                  !.weight = row.weight + 1, !.confirmed = last + 1, !.fresh = TRUE]
  <1>2. row \in Thought /\ FiledUnder(projects, aliases, row)
    BY RowsAreThoughts DEF IInv
  <1>3. c.shared \in BOOLEAN /\ c.trust \in TrustLevels /\ c.text \in Texts \cup {None}
    BY LibraryAssumption DEF Capture
  <1>4. last \in Nat
    <2>1. times \in SUBSET Nat /\ times # {}
      <3>1. \A i \in DOMAIN thoughts : thoughts[i].confirmed \in Nat
        BY RowsAreThoughts DEF IInv, Thought
      <3>. QED  BY <3>1
    <2>2. IsFiniteSet(DOMAIN thoughts)
      BY DEF IInv, TablesFinite
    <2>3. IsFiniteSet(times)
      <3>. DEFINE f == [i \in DOMAIN thoughts |-> thoughts[i].confirmed]
      <3>1. f \in [DOMAIN thoughts -> times] /\ \A t \in times : \E i \in DOMAIN thoughts : f[i] = t
        OBVIOUS
      <3>. HIDE DEF f, times
      <3>. QED  BY <2>2, <3>1, ImageIsFinite
    <2>4. Max(times) \in times
      <3>. HIDE DEF times
      <3>. QED  BY <2>1, <2>3, MaxOfFinite
    <2>. HIDE DEF times
    <2>. QED  BY <2>1, <2>4
  <1>5. trust \in TrustLevels
    <2>1. row.trust \in TrustLevels
      BY <1>2 DEF Thought
    <2>. HIDE DEF row
    <2>. QED  BY <1>3, <2>1 DEF Max2
  <1>6. shared \in BOOLEAN /\ row.weight + 1 \in Nat
    <2>1. row.weight \in Nat
      BY <1>2 DEF Thought
    <2>2. shared \in BOOLEAN
      OBVIOUS
    <2>3. row.weight + 1 \in Nat
      <3>. HIDE DEF row
      <3>. QED  BY <2>1
    <2>. QED  BY <2>2, <2>3
  <1>7. text \in Texts \cup {None}
    <2>1. row.text \in Texts \cup {None}
      BY <1>2 DEF Thought
    <2>. HIDE DEF row
    <2>. QED  BY <1>3, <2>1 DEF Or
  <1>8. /\ thoughts' = [thoughts EXCEPT ![id] = note]
        /\ UNCHANGED <<registryVars, edges, job, readVars, born>> /\ Observed
    BY <1>1 DEF Fold
  <1>9. note \in Thought /\ note.pid = row.pid /\ note.ident = row.ident
    <2>1. PICK t, s, x, w, l : /\ t = trust /\ s = shared /\ x = text
                               /\ w = row.weight + 1 /\ l = last + 1
      OBVIOUS
    <2>2. l \in Nat
      <3>. HIDE DEF last
      <3>. QED  BY <1>4, <2>1
    <2>3. note = [row EXCEPT !.trust = t, !.shared = s, !.text = x, !.weight = w,
                             !.confirmed = l, !.fresh = TRUE]
      BY <2>1
    <2>4. t \in TrustLevels /\ s \in BOOLEAN /\ x \in Texts \cup {None} /\ w \in Nat
      BY <1>5, <1>6, <1>7, <2>1
    <2>. HIDE DEF note, row, trust, shared, text, last
    <2>. QED  BY <1>2, <2>2, <2>3, <2>4 DEF Thought
  <1>. HIDE DEF note
  <1>. QED  BY <1>2, <1>8, <1>9, FiledAlike, StepRewrite

LEMMA StepDelete ==
    ASSUME IInv, DeleteOne
    PROVE  IInv'
  <1>1. PICK id \in DOMAIN thoughts : Delete(id)
    BY DEF DeleteOne
  <1>. DEFINE hit == {e \in DOMAIN edges : id \in {edges[e].source, edges[e].target}}
  <1>2. /\ thoughts' = Drop({id}, thoughts) /\ edges' = Drop(hit, edges)
        /\ UNCHANGED <<registryVars, job, readVars, born>> /\ Observed
    BY <1>1 DEF Delete
  <1>3. /\ DOMAIN thoughts' = DOMAIN thoughts \ {id}
        /\ \A i \in DOMAIN thoughts' : thoughts'[i] = thoughts[i]
    BY <1>2 DEF Drop
  <1>4. /\ DOMAIN edges' = DOMAIN edges \ hit
        /\ \A e \in DOMAIN edges' : edges'[e] = edges[e]
    <2>. HIDE DEF hit
    <2>. QED  BY <1>2 DEF Drop
  <1>5. TypeOK /\ TablesFinite /\ LinksFit(thoughts, edges)
    BY TypeOKMeans DEF IInv
  <1>6. /\ RegistryFits(projects', aliases') /\ NotesFit(projects', aliases', thoughts)
        /\ projects' = projects
    BY <1>2, <1>5, SameRegistry
  <1>7. NotesFit(projects', aliases', thoughts')
    BY <1>3, <1>6 DEF NotesFit
  <1>8. LinksFit(thoughts', edges')
    <2>1. ASSUME NEW e \in DOMAIN edges'
          PROVE  /\ e \in DOMAIN edges /\ edges'[e] = edges[e]
                 /\ edges[e].source # id /\ edges[e].target # id
      BY <1>4
    <2>. HIDE DEF hit
    <2>. QED  BY <1>3, <1>5, <2>1 DEF LinksFit
  <1>9. TablesFinite'
    <2>1. DOMAIN thoughts' \in SUBSET DOMAIN thoughts /\ DOMAIN edges' \in SUBSET DOMAIN edges
      BY <1>3, <1>4
    <2>. QED  BY <1>5, <2>1, FS_Subset DEF TablesFinite
  <1>. QED  BY <1>2, <1>6, <1>7, <1>8, <1>9, TypeOKMeansNext, ToolStep DEF Observed

\* Only the edges change.
LEMMA StepEdges ==
    ASSUME IInv, EdgesChanged, LinksFit(thoughts, edges'), IsFiniteSet(DOMAIN edges')
    PROVE  IInv'
  <1>1. /\ UNCHANGED <<registryVars, thoughts, job, readVars, born>> /\ Observed
    BY DEF EdgesChanged
  <1>2. TypeOK /\ TablesFinite
    BY DEF IInv
  <1>3. /\ RegistryFits(projects', aliases') /\ NotesFit(projects', aliases', thoughts)
        /\ projects' = projects
    BY <1>1, <1>2, SameRegistry
  <1>4. TypeOK' /\ TablesFinite'
    BY <1>1, <1>2, <1>3, TypeOKMeansNext DEF TablesFinite
  <1>. QED  BY <1>1, <1>3, <1>4, ToolStep DEF Observed

LEMMA StepLink ==
    ASSUME IInv, LinkTwo
    PROVE  IInv'
  <1>1. PICK e \in EdgeIds \ DOMAIN edges, edge \in Linked : Link(e, edge)
    BY DEF LinkTwo
  <1>2. /\ edge.source \in DOMAIN thoughts /\ edge.target \in DOMAIN thoughts
        /\ \A f \in DOMAIN edges :
             <<edges[f].source, edges[f].target, edges[f].type>>
                 # <<edge.source, edge.target, edge.type>>
        /\ edges' = With(edges, e, edge) /\ EdgesChanged
    BY <1>1 DEF Link
  <1>3. edge \in EdgeRow
    BY LibraryAssumption
  <1>4. /\ DOMAIN edges' = DOMAIN edges \cup {e} /\ edges'[e] = edge
        /\ \A f \in DOMAIN edges : edges'[f] = edges[f]
    BY <1>2 DEF With
  <1>5. LinksFit(thoughts, edges) /\ TablesFinite
    BY TypeOKMeans DEF IInv
  <1>6. LinksFit(thoughts, edges')
    BY <1>2, <1>3, <1>4, <1>5 DEF LinksFit
  <1>7. IsFiniteSet(DOMAIN edges')
    BY <1>4, <1>5, FS_AddElement DEF TablesFinite
  <1>. QED  BY <1>2, <1>6, <1>7, StepEdges

LEMMA StepChangeEdge ==
    ASSUME IInv, ChangeEdge
    PROVE  IInv'
  <1>1. LinksFit(thoughts, edges) /\ TablesFinite
    BY TypeOKMeans DEF IInv
  <1>2. ASSUME NEW e \in DOMAIN edges, Unlink(e) PROVE IInv'
    <2>1. edges' = Drop({e}, edges) /\ EdgesChanged
      BY <1>2 DEF Unlink
    <2>2. DOMAIN edges' = DOMAIN edges \ {e} /\ \A f \in DOMAIN edges' : edges'[f] = edges[f]
      BY <2>1 DEF Drop
    <2>3. LinksFit(thoughts, edges')
      BY <1>1, <2>2 DEF LinksFit
    <2>4. IsFiniteSet(DOMAIN edges')
      BY <1>1, <2>2, FS_Subset DEF TablesFinite
    <2>. QED  BY <2>1, <2>3, <2>4, StepEdges
  <1>3. ASSUME NEW e \in DOMAIN edges, NEW at \in Instants, Expire(e, at) PROVE IInv'
    <2>. DEFINE edge == [edges[e] EXCEPT !.until = at]
    <2>1. edges' = [edges EXCEPT ![e].until = at] /\ EdgesChanged
      BY <1>3 DEF Expire
    <2>2. /\ DOMAIN edges' = DOMAIN edges /\ edges'[e] = edge
          /\ \A f \in DOMAIN edges : f # e => edges'[f] = edges[f]
      BY <2>1
    <2>3. edges[e] \in EdgeRow /\ at \in Nat
      BY <1>1, LibraryAssumption DEF LinksFit
    <2>4. /\ edge \in EdgeRow /\ edge.source = edges[e].source /\ edge.target = edges[e].target
          /\ edge.type = edges[e].type
      BY <2>3 DEF EdgeRow
    <2>5. LinksFit(thoughts, edges')
      <3>. HIDE DEF edge
      <3>1. ASSUME NEW f \in DOMAIN edges
            PROVE  /\ edges'[f] \in EdgeRow /\ edges'[f].source = edges[f].source
                   /\ edges'[f].target = edges[f].target /\ edges'[f].type = edges[f].type
        BY <1>1, <2>2, <2>4 DEF LinksFit
      <3>. QED  BY <1>1, <2>2, <3>1 DEF LinksFit
    <2>6. IsFiniteSet(DOMAIN edges')
      BY <1>1, <2>2 DEF TablesFinite
    <2>. QED  BY <2>1, <2>5, <2>6, StepEdges
  <1>. QED  BY <1>2, <1>3 DEF ChangeEdge

-----------------------------------------------------------------------------
(* seed_registry and run_repair                                            *)

LEMMA JobStep ==
    ASSUME IInv, NEW next, JobSteps(next), JobSound', TypeOK', TablesFinite'
    PROVE  IInv'
  <1>1. /\ job' = next /\ pager' = pager /\ reader' = reader /\ Observed
    BY DEF JobSteps, readVars
  <1>2. ScanSound' /\ ShownAsVouched'
    BY <1>1, ScanKeeps, ShownKeeps DEF IInv, Observed
  <1>3. CapturesReadBack'
    BY <1>1, NothingFiled DEF Observed, ObservedFiling
  <1>. QED  BY <1>2, <1>3 DEF IInv

LEMMA SameTables ==
    ASSUME TypeOK, TablesFinite, UNCHANGED <<registryVars, thoughts, edges>>
    PROVE  TypeOK' /\ TablesFinite' /\ projects' = projects /\ aliases' = aliases
  <1>1. /\ RegistryFits(projects', aliases') /\ NotesFit(projects', aliases', thoughts)
        /\ projects' = projects /\ aliases' = aliases
    BY SameRegistry
  <1>2. LinksFit(thoughts', edges')
    BY TypeOKMeans
  <1>. QED  BY <1>1, <1>2, TypeOKMeansNext DEF TablesFinite

LEMMA UnwrittenStep ==
    ASSUME IInv, NEW next, JobSteps(next), UNCHANGED <<registryVars, thoughts>>, JobSound'
    PROVE  IInv'
  <1>1. TypeOK /\ TablesFinite /\ UNCHANGED edges
    BY DEF IInv, JobSteps
  <1>2. TypeOK' /\ TablesFinite'
    BY <1>1, SameTables
  <1>. QED  BY <1>2, JobStep

LEMMA StepBegin ==
    ASSUME IInv, BeginJob
    PROVE  IInv'
  <1>1. PICK file \in SeedFiles : \E kind, apply : Begin(kind, file, apply)
    BY DEF BeginJob
  <1>1a. PICK kind, apply : Begin(kind, file, apply)
    BY <1>1
  <1>. DEFINE next == [pc |-> "seed", kind |-> kind, apply |-> apply, seed |-> Parsed(file),
                       index |-> 1, seen |-> None]
  <1>2. JobSteps(next) /\ UNCHANGED <<registryVars, thoughts>>
    BY <1>1a DEF Begin
  <1>3. SeedFits(Parsed(file))
    <2>1. CASE file.malformed
      BY <2>1 DEF Parsed, EmptySeed, SeedFits
    <2>2. CASE ~file.malformed
      BY <2>2, LibraryAssumption DEF Parsed
    <2>. QED  BY <2>1, <2>2
  <1>4. JobSound'
    <2>1. job' = next
      BY <1>2 DEF JobSteps
    <2>2. job'.pc = "seed" /\ job'.seed = Parsed(file) /\ job'.index = 1
      BY <2>1
    <2>. QED  BY <1>3, <2>2 DEF JobSound
  <1>. HIDE DEF next
  <1>. QED  BY <1>2, <1>4, UnwrittenStep

\* The job at a seed number: what remains to be checked of it.
LEMMA SeedingSound ==
    ASSUME NEW pc \in {"seed", "write"}, NEW index \in Nat \ {0}, NEW seen,
           job' = Seeding(pc, index, seen), SeedFits(job.seed),
           pc = "write" => /\ index <= Len(job.seed.projects)
                           /\ seen \in DOMAIN projects' \cup {None}
    PROVE  JobSound'
  <1>1. job'.pc = pc /\ job'.seed = job.seed /\ job'.index = index /\ job'.seen = seen
    BY DEF Seeding
  <1>. QED  BY <1>1 DEF JobSound

LEMMA StepSeedLook ==
    ASSUME IInv, SeedLook
    PROVE  IInv'
  <1>1. /\ job.pc = "seed" /\ job.index <= Len(job.seed.projects) /\ Unwritten
    BY DEF SeedLook
  <1>2. PICK seen : seen = Seeded(SeedRow.slug)
    OBVIOUS
  <1>3. \/ JobSteps(Seeding("seed", job.index + 1, None))
        \/ JobSteps(Seeding("write", job.index, seen))
    BY <1>2 DEF SeedLook
  <1>4. SeedFits(job.seed) /\ job.index \in Nat \ {0}
    BY <1>1 DEF IInv, JobSound
  <1>5. projects' = projects /\ UNCHANGED <<registryVars, thoughts>>
    BY <1>1 DEF Unwritten, registryVars
  <1>6. seen \in DOMAIN projects' \cup {None}
    BY <1>2, <1>5 DEF Seeded, ByAlias
  <1>7. CASE JobSteps(Seeding("seed", job.index + 1, None))
    <2>1. PICK pc, index, nothing : pc = "seed" /\ index = job.index + 1 /\ nothing = None
      OBVIOUS
    <2>2. index \in Nat \ {0}
      BY <1>4, <2>1
    <2>3. JobSteps(Seeding(pc, index, nothing)) /\ job' = Seeding(pc, index, nothing)
      BY <1>7, <2>1 DEF JobSteps
    <2>4. JobSound'
      BY <1>4, <2>1, <2>2, <2>3, SeedingSound
    <2>. QED  BY <1>5, <2>3, <2>4, UnwrittenStep
  <1>8. CASE JobSteps(Seeding("write", job.index, seen))
    <2>1. PICK pc, index : pc = "write" /\ index = job.index
      OBVIOUS
    <2>2. JobSteps(Seeding(pc, index, seen)) /\ job' = Seeding(pc, index, seen)
      BY <1>8, <2>1 DEF JobSteps
    <2>3. JobSound'
      BY <1>1, <1>4, <1>6, <2>1, <2>2, SeedingSound
    <2>. QED  BY <1>5, <2>2, <2>3, UnwrittenStep
  <1>. QED  BY <1>3, <1>7, <1>8

LEMMA StepSeedWrite ==
    ASSUME IInv, SeedWrite
    PROVE  IInv'
  <1>1. /\ job.pc = "write" /\ UNCHANGED thoughts
        /\ JobSteps(Seeding("seed", job.index + 1, None))
    BY DEF SeedWrite
  <1>2. /\ SeedFits(job.seed) /\ job.index \in Nat \ {0} /\ job.index <= Len(job.seed.projects)
        /\ job.seen \in DOMAIN projects \cup {None}
    BY <1>1 DEF IInv, JobSound
  <1>3. PICK seed : seed = SeedRow
    OBVIOUS
  <1>4. seed \in ProjectSeed
    BY <1>2, <1>3 DEF SeedFits, SeedRow
  <1>5. TypeOK /\ TablesFinite /\ UNCHANGED edges
    BY <1>1 DEF IInv, JobSteps
  <1>6. RegistryFits(projects, aliases) /\ NotesFit(projects, aliases, thoughts)
        /\ LinksFit(thoughts, edges)
    BY <1>5, TypeOKMeans
  <1>7. RegistryFits(projects', aliases') /\ NotesFit(projects', aliases', thoughts)
    <2>1. CASE job.seen = None
      <3>1. PICK pid \in Pids \ DOMAIN projects : MayCreate(seed.slug) /\ Create(pid, seed)
        BY <1>3, <2>1 DEF SeedWrite
      <3>2. pid \in Pids /\ pid \notin DOMAIN projects /\ seed.slug \notin DOMAIN aliases
        BY <3>1 DEF MayCreate
      <3>. QED  BY <1>4, <1>5, <3>1, <3>2, CreatedTables
    <2>2. CASE job.seen # None
      <3>1. PICK p \in DOMAIN projects : p = job.seen
        BY <1>2, <2>2
      <3>2. /\ projects' = [projects EXCEPT ![p] = [seed EXCEPT !.slug = projects[p].slug]]
            /\ aliases' = aliases
        BY <1>3, <2>2, <3>1 DEF SeedWrite, Reseed
      <3>3. /\ RegistryFits(projects', aliases) /\ DOMAIN projects' = DOMAIN projects
            /\ \A s : AliasOwner(projects', aliases, s) = AliasOwner(projects, aliases, s)
        <4>. DEFINE row == [seed EXCEPT !.slug = projects[p].slug]
        <4>1. projects[p].slug \in Slugs
          BY <1>6 DEF RegistryFits, RowsTyped, Project, ProjectSeed
        <4>2. row \in Project /\ row.slug = projects[p].slug
          BY <1>4, <4>1 DEF Project, ProjectSeed
        <4>3. /\ DOMAIN projects' = DOMAIN projects /\ projects'[p] = row
              /\ \A q \in DOMAIN projects : q # p => projects'[q] = projects[q]
          BY <3>2
        <4>. HIDE DEF row
        <4>. QED  BY <1>6, <4>2, <4>3, ReseedFits
      <3>. QED  BY <1>6, <3>2, <3>3, NotesStay
    <2>. QED  BY <2>1, <2>2
  <1>8. TypeOK' /\ TablesFinite'
    BY <1>1, <1>5, <1>6, <1>7, TypeOKMeansNext DEF TablesFinite
  <1>9. JobSound'
    <2>1. PICK pc, index, nothing : pc = "seed" /\ index = job.index + 1 /\ nothing = None
      OBVIOUS
    <2>2. index \in Nat \ {0} /\ job' = Seeding(pc, index, nothing)
      BY <1>1, <1>2, <2>1 DEF JobSteps
    <2>. QED  BY <1>2, <2>1, <2>2, SeedingSound
  <1>. QED  BY <1>1, <1>8, <1>9, JobStep

LEMMA StepSeeds ==
    ASSUME IInv, Seeds
    PROVE  IInv'
  <1>1. PICK next : JobSteps(next) /\ next.pc \in {"idle", "candidates"}
    BY DEF Seeds, Idle
  <1>2. UNCHANGED <<registryVars, thoughts>>
    BY DEF Seeds, Unwritten
  <1>3. JobSound'
    BY <1>1 DEF JobSteps, JobSound
  <1>. QED  BY <1>1, <1>2, <1>3, UnwrittenStep

\* The plan names only thoughts without a project.
LEMMA StepPlan ==
    ASSUME IInv, PlanRepairs
    PROVE  IInv'
  <1>. DEFINE plan == [id \in RepairCandidates |-> Suggestion(LegacyOf(id), job.rows, job.seed)]
              next == [pc |-> "apply", plan |-> plan,
                       assigned |-> {id \in DOMAIN thoughts : ~Unassigned(id)}]
  <1>1. JobSteps(next) \/ JobSteps(Idle)
    BY DEF PlanRepairs
  <1>2. UNCHANGED <<registryVars, thoughts>>
    BY DEF PlanRepairs, Unwritten
  <1>3. CASE JobSteps(Idle)
    <2>1. JobSound'
      BY <1>3 DEF JobSteps, JobSound, Idle
    <2>. QED  BY <1>2, <1>3, <2>1, UnwrittenStep
  <1>4. CASE JobSteps(next)
    <2>1. /\ job'.pc = "apply" /\ job'.plan = plan
          /\ job'.assigned = {id \in DOMAIN thoughts : ~Unassigned(id)}
      <3>. HIDE DEF plan
      <3>. QED  BY <1>4 DEF JobSteps
    <2>2. DOMAIN plan = {id \in DOMAIN thoughts : Unassigned(id)}
      BY DEF RepairCandidates
    <2>3. job'.assigned \cap DOMAIN job'.plan = {}
      <3>. HIDE DEF plan
      <3>. QED  BY <2>1, <2>2
    <2>4. JobSound'
      <3>. HIDE DEF plan
      <3>. QED  BY <2>1, <2>3 DEF JobSound
    <2>. HIDE DEF next
    <2>. QED  BY <1>2, <1>4, <2>4, UnwrittenStep
  <1>. HIDE DEF next
  <1>. QED  BY <1>1, <1>3, <1>4

\* What the plan makes of one thought: it may be marked, and it is filed under
\* a project that its slug leads to or stays where it was.
LEMMA RepairedRow ==
    ASSUME TypeOK, NEW id \in DOMAIN thoughts, NEW note, note = Repaired(id)
    PROVE  /\ note \in Thought /\ FiledUnder(projects, aliases, note)
           /\ thoughts[id].pid # None => note.pid # None
           /\ note.shared = thoughts[id].shared /\ note.trust = thoughts[id].trust
           /\ note.text = thoughts[id].text
  <1>. DEFINE slug == job.plan[id]
              row == thoughts[id]
              owner == AliasOwner(projects, aliases, slug)
  <1>1. row \in Thought /\ FiledUnder(projects, aliases, row) /\ RegistryFits(projects, aliases)
    BY RowsAreThoughts, TypeOKMeans
  <1>2. ByAlias(slug) = owner
    BY DEF ByAlias, AliasOwner
  <1>3. \/ note = [[row EXCEPT !.fresh = TRUE] EXCEPT !.mark = "review"]
        \/ note = row
        \/ /\ owner # None
           /\ note = [[row EXCEPT !.fresh = TRUE] EXCEPT !.pid = owner, !.ident = slug,
                                                         !.mark = "repaired"]
    <2>. HIDE DEF owner
    <2>. QED  BY <1>2 DEF Repaired
  <1>4. CASE note = [[row EXCEPT !.fresh = TRUE] EXCEPT !.mark = "review"]
    <2>1. note = [row EXCEPT !.fresh = TRUE, !.mark = "review"]
      BY <1>4
    <2>2. /\ note \in Thought /\ note.pid = row.pid /\ note.ident = row.ident
          /\ note.shared = row.shared /\ note.trust = row.trust /\ note.text = row.text
      <3>. HIDE DEF row
      <3>. QED  BY <1>1, <2>1 DEF Thought
    <2>. HIDE DEF slug, owner
    <2>. QED  BY <1>1, <2>2, FiledAlike
  <1>5. CASE note = row
    BY <1>1, <1>5
  <1>6. CASE /\ owner # None
             /\ note = [[row EXCEPT !.fresh = TRUE] EXCEPT !.pid = owner, !.ident = slug,
                                                           !.mark = "repaired"]
    <2>1. owner \in DOMAIN projects /\ owner \in Pids /\ slug \in Slugs
      BY <1>1, <1>6 DEF AliasOwner, RegistryFits, RowsTyped
    <2>2. note = [row EXCEPT !.fresh = TRUE, !.pid = owner, !.ident = slug, !.mark = "repaired"]
      BY <1>6
    <2>3. /\ note \in Thought /\ note.pid = owner /\ note.ident = slug
          /\ note.shared = row.shared /\ note.trust = row.trust /\ note.text = row.text
      <3>. HIDE DEF row, owner, slug
      <3>. QED  BY <1>1, <2>1, <2>2 DEF Thought
    <2>4. FiledUnder(projects, aliases, note)
      BY <2>1, <2>3 DEF FiledUnder
    <2>. QED  BY <1>6, <2>3, <2>4
  <1>. QED  BY <1>3, <1>4, <1>5, <1>6

\* The table that Apply writes.
LEMMA AppliedRows ==
    ASSUME TypeOK, Apply
    PROVE  /\ DOMAIN thoughts' = DOMAIN thoughts
           /\ \A id \in DOMAIN thoughts :
                /\ thoughts'[id] \in Thought /\ FiledUnder(projects, aliases, thoughts'[id])
                /\ thoughts[id].pid # None => thoughts'[id].pid # None
                /\ thoughts'[id].shared = thoughts[id].shared
                /\ thoughts'[id].trust = thoughts[id].trust
                /\ thoughts'[id].text = thoughts[id].text
                /\ id \notin DOMAIN job.plan => thoughts'[id] = thoughts[id]
  <1>1. /\ DOMAIN thoughts' = DOMAIN thoughts
        /\ \A id \in DOMAIN thoughts :
             thoughts'[id] = IF id \in DOMAIN job.plan THEN Repaired(id) ELSE thoughts[id]
    BY DEF Apply
  <1>2. ASSUME NEW id \in DOMAIN thoughts
        PROVE  /\ thoughts'[id] \in Thought /\ FiledUnder(projects, aliases, thoughts'[id])
               /\ thoughts[id].pid # None => thoughts'[id].pid # None
               /\ thoughts'[id].shared = thoughts[id].shared
               /\ thoughts'[id].trust = thoughts[id].trust
               /\ thoughts'[id].text = thoughts[id].text
               /\ id \notin DOMAIN job.plan => thoughts'[id] = thoughts[id]
    <2>1. CASE id \in DOMAIN job.plan
      BY <1>1, <2>1, RepairedRow
    <2>2. CASE id \notin DOMAIN job.plan
      BY <1>1, <2>2, RowsAreThoughts
    <2>. QED  BY <2>1, <2>2
  <1>. QED  BY <1>1, <1>2

LEMMA StepApply ==
    ASSUME IInv, Apply
    PROVE  IInv'
  <1>1. TypeOK /\ TablesFinite /\ UNCHANGED edges /\ UNCHANGED registryVars /\ JobSteps(Idle)
    BY DEF IInv, Apply, JobSteps
  <1>2. /\ RegistryFits(projects', aliases') /\ NotesFit(projects', aliases', thoughts)
        /\ projects' = projects /\ aliases' = aliases
    BY <1>1, SameRegistry
  <1>3. /\ DOMAIN thoughts' = DOMAIN thoughts
        /\ \A id \in DOMAIN thoughts :
             thoughts'[id] \in Thought /\ FiledUnder(projects, aliases, thoughts'[id])
    BY <1>1, AppliedRows
  <1>4. NotesFit(projects', aliases', thoughts')
    BY <1>2, <1>3 DEF NotesFit
  <1>5. LinksFit(thoughts', edges')
    BY <1>1, <1>3, TypeOKMeans, LinksStay
  <1>6. TypeOK' /\ TablesFinite'
    BY <1>1, <1>2, <1>3, <1>4, <1>5, TypeOKMeansNext DEF TablesFinite
  <1>7. JobSound'
    BY <1>1 DEF JobSteps, JobSound, Idle
  <1>. QED  BY <1>1, <1>6, <1>7, JobStep

LEMMA StepJobFails ==
    ASSUME IInv, JobFails
    PROVE  IInv'
  <1>1. JobSteps(Idle) /\ UNCHANGED <<registryVars, thoughts>>
    BY DEF JobFails, Unwritten
  <1>2. JobSound'
    BY <1>1 DEF JobSteps, JobSound, Idle
  <1>. QED  BY <1>1, <1>2, UnwrittenStep

-----------------------------------------------------------------------------
(* Lists and their fences                                                  *)

\* Only a list or a scan moves.
LEMMA ReadStep ==
    ASSUME IInv, UNCHANGED <<registryVars, thoughts, edges, job>>, Observed,
           ScanSound', ShownAsVouched'
    PROVE  IInv'
  <1>1. TypeOK' /\ TablesFinite' /\ projects' = projects
    BY SameTables DEF IInv
  <1>2. JobSound'
    BY <1>1, JobKeeps DEF IInv
  <1>3. CapturesReadBack'
    BY NothingFiled DEF Observed, ObservedFiling
  <1>. QED  BY <1>1, <1>2, <1>3 DEF IInv

LEMMA StepRead ==
    ASSUME IInv, ReadThoughts
    PROVE  IInv'
  <1>1. PICK rows : Read(rows)
    BY DEF ReadThoughts
  <1>2. /\ reader'.pc = "found" /\ UNCHANGED <<registryVars, thoughts, edges, job, pager>>
        /\ Observed
    BY <1>1 DEF Read
  <1>3. ShownAsVouched'
    BY <1>2 DEF ShownAsVouched
  <1>4. ScanSound'
    BY <1>2, ScanKeeps DEF IInv, Observed
  <1>. QED  BY <1>2, <1>3, <1>4, ReadStep

\* Only a trusted text that is stored at the moment passes the fence.
LEMMA StepShow ==
    ASSUME IInv, Show
    PROVE  IInv'
  <1>1. /\ UNCHANGED <<registryVars, thoughts, edges, job, pager>> /\ Observed
        /\ reader' = [pc |-> "shown",
                      rows |-> [id \in DOMAIN reader.rows |-> Fence(id, reader.rows[id])]]
    BY DEF Show
  <1>2. ShownAsVouched'
    <2>1. SUFFICES ASSUME NEW id \in DOMAIN reader.rows, ~Fence(id, reader.rows[id]).fenced
                   PROVE  <<id, Fence(id, reader.rows[id]).text>> \in vouched'
      BY <1>1 DEF ShownAsVouched
    <2>2. vouched' = vouched \cup TrustedTexts(thoughts')
      BY <1>1 DEF Observed, ObservedFiling
    <2>3. None # Trusted
      BY LibraryAssumption DEF TrustLevels, Trusted
    <2>4. /\ id \in DOMAIN thoughts /\ thoughts[id].trust = Trusted
          /\ Fence(id, reader.rows[id]).text = thoughts[id].text
      BY <2>1, <2>3 DEF Fence, FenceText
    <2>5. <<id, thoughts[id].text>> \in TrustedTexts(thoughts)
      BY <2>4 DEF TrustedTexts
    <2>. QED  BY <1>1, <2>2, <2>4, <2>5
  <1>3. ScanSound'
    BY <1>1, ScanKeeps DEF IInv, Observed
  <1>. QED  BY <1>1, <1>2, <1>3, ReadStep

-----------------------------------------------------------------------------
(* Scans of active edges                                                   *)

LEMMA StepOpenScan ==
    ASSUME IInv, ScanEdges
    PROVE  IInv'
  <1>1. PICK type, at : OpenScan(type, at)
    BY DEF ScanEdges
  <1>2. /\ pager.pc = "idle" /\ UNCHANGED <<registryVars, thoughts, edges, job, reader>> /\ Observed
        /\ pager' = [pc |-> "open", type |-> type, at |-> at, after |-> Nil, got |-> <<>>]
    BY <1>1 DEF OpenScan
  <1>3. pager'.pc = "open" /\ pager'.after = Nil /\ pager'.got = <<>>
    BY <1>2
  <1>4. held' = ToReturn(pager', edges')
    BY <1>2, <1>3 DEF Observed, ObservedFiling
  <1>5. ScanSound'
    <2>1. pager'.got \in Seq(EdgeIds) /\ Len(pager'.got) = 0
      BY <1>3
    <2>. QED  BY <1>3, <1>4, <2>1 DEF ScanSound
  <1>6. ShownAsVouched'
    BY <1>2, ShownKeeps DEF IInv, Observed
  <1>. QED  BY <1>2, <1>5, <1>6, ReadStep

\* Appending larger numbers to an ascending sequence.
LEMMA AppendAscending ==
    ASSUME NEW s \in Seq(EdgeIds), NEW t \in Seq(EdgeIds),
           \A i, j \in 1 .. Len(s) : i < j => s[i] < s[j],
           \A i, j \in 1 .. Len(t) : i < j => t[i] < t[j],
           \A x \in ToSet(s), y \in ToSet(t) : x < y
    PROVE  /\ s \o t \in Seq(EdgeIds)
           /\ ToSet(s \o t) = ToSet(s) \cup ToSet(t)
           /\ \A i, j \in 1 .. Len(s \o t) : i < j => (s \o t)[i] < (s \o t)[j]
  <1>. DEFINE u == s \o t
  <1>1. /\ u \in Seq(EdgeIds) /\ Len(u) = Len(s) + Len(t)
        /\ \A i \in 1 .. Len(u) : u[i] = IF i <= Len(s) THEN s[i] ELSE t[i - Len(s)]
    OBVIOUS
  <1>2. Len(s) \in Nat /\ Len(t) \in Nat /\ DOMAIN s = 1 .. Len(s) /\ DOMAIN t = 1 .. Len(t)
        /\ DOMAIN u = 1 .. Len(u)
    BY <1>1
  <1>. HIDE DEF u
  <1>3. ASSUME NEW i \in 1 .. Len(s) PROVE i \in 1 .. Len(u) /\ u[i] = s[i] /\ s[i] \in ToSet(s)
    BY <1>1, <1>2 DEF ToSet
  <1>4. ASSUME NEW i \in 1 .. Len(t)
        PROVE  /\ Len(s) + i \in 1 .. Len(u) /\ u[Len(s) + i] = t[i] /\ t[i] \in ToSet(t)
    BY <1>1, <1>2 DEF ToSet
  <1>5. ASSUME NEW i \in 1 .. Len(u)
        PROVE  \/ i \in 1 .. Len(s)
               \/ i - Len(s) \in 1 .. Len(t) /\ u[i] = t[i - Len(s)] /\ ~(i <= Len(s))
    BY <1>1, <1>2
  <1>6. ToSet(u) = ToSet(s) \cup ToSet(t)
    <2>1. ASSUME NEW i \in 1 .. Len(u) PROVE u[i] \in ToSet(s) \cup ToSet(t)
      BY <1>3, <1>4, <1>5
    <2>2. ToSet(u) \subseteq ToSet(s) \cup ToSet(t)
      BY <1>2, <2>1 DEF ToSet
    <2>3. ToSet(s) \subseteq ToSet(u)
      BY <1>2, <1>3 DEF ToSet
    <2>4. ToSet(t) \subseteq ToSet(u)
      BY <1>2, <1>4 DEF ToSet
    <2>. QED  BY <2>2, <2>3, <2>4
  <1>7. ASSUME NEW i \in 1 .. Len(u), NEW j \in 1 .. Len(u), i < j PROVE u[i] < u[j]
    <2>1. CASE j \in 1 .. Len(s)
      <3>1. i \in 1 .. Len(s)
        BY <1>7, <2>1
      <3>. QED  BY <1>3, <1>7, <2>1, <3>1
    <2>2. CASE i \in 1 .. Len(s) /\ j \notin 1 .. Len(s)
      <3>1. u[i] \in ToSet(s)
        BY <1>3, <2>2
      <3>2. u[j] \in ToSet(t)
        BY <1>4, <1>5, <2>2
      <3>. QED  BY <3>1, <3>2
    <2>3. CASE i \notin 1 .. Len(s) /\ j \notin 1 .. Len(s)
      <3>1. PICK k, l \in 1 .. Len(t) : k = i - Len(s) /\ l = j - Len(s) /\ u[i] = t[k] /\ u[j] = t[l]
        BY <1>5, <2>3
      <3>2. k < l
        BY <1>2, <1>7, <3>1
      <3>. QED  BY <3>1, <3>2
    <2>. QED  BY <2>1, <2>2, <2>3
  <1>. QED  BY <1>1, <1>6, <1>7 DEF u

\* The first rows of an ascending list: with the last of them goes every
\* smaller number of the set.
LEMMA FirstRows ==
    ASSUME NEW S \in SUBSET Nat, IsFiniteSet(S), NEW size \in Nat \ {0},
           NEW scanned, scanned = First(Ascending(S), size)
    PROVE  /\ ToSet(scanned) \subseteq S
           /\ IsFiniteSet(ToSet(scanned))
           /\ scanned = <<>> => S = {}
           /\ scanned # <<>> =>
                /\ Last(scanned) \in S
                /\ \A x \in ToSet(scanned) : x <= Last(scanned)
                /\ \A x \in S : x <= Last(scanned) => x \in ToSet(scanned)
  <1>. DEFINE a == Ascending(S)
              k == IF Len(a) < size THEN Len(a) ELSE size
  <1>1. /\ a \in Seq(S) /\ ToSet(a) = S
        /\ \A i, j \in 1 .. Len(a) : i < j => a[i] < a[j]
    BY AscendingLists
  <1>2. scanned = SubSeq(a, 1, k)
    BY DEF First
  <1>. HIDE DEF a
  <1>3. /\ Len(a) \in Nat /\ DOMAIN a = 1 .. Len(a)
        /\ \A i \in 1 .. Len(a) : a[i] \in S
        /\ \A x \in S : \E i \in 1 .. Len(a) : x = a[i]
    BY <1>1 DEF ToSet
  <1>4. k \in Nat /\ k <= Len(a) /\ (k = 0 => Len(a) = 0)
    BY <1>3
  <1>. HIDE DEF k
  <1>5. /\ scanned \in Seq(S) /\ Len(scanned) = k /\ DOMAIN scanned = 1 .. k
        /\ \A i \in 1 .. k : scanned[i] = a[i]
    BY <1>1, <1>2, <1>3, <1>4
  <1>6. \A x : x \in ToSet(scanned) <=> \E i \in 1 .. k : x = a[i]
    BY <1>5 DEF ToSet
  <1>7. ToSet(scanned) \subseteq S
    BY <1>3, <1>4, <1>6
  <1>8. IsFiniteSet(ToSet(scanned))
    BY <1>7, FS_Subset
  <1>9. ASSUME scanned = <<>> PROVE S = {}
    <2>1. Len(a) = 0
      BY <1>4, <1>5, <1>9
    <2>. QED  BY <1>3, <2>1
  <1>10. ASSUME scanned # <<>>
         PROVE  /\ Last(scanned) \in S
                /\ \A x \in ToSet(scanned) : x <= Last(scanned)
                /\ \A x \in S : x <= Last(scanned) => x \in ToSet(scanned)
    <2>1. k \in 1 .. k /\ k \in 1 .. Len(a)
      BY <1>4, <1>5, <1>10
    <2>2. Last(scanned) = a[k]
      BY <1>5, <2>1 DEF Last
    <2>3. ASSUME NEW i \in 1 .. k PROVE a[i] <= a[k]
      <3>1. i \in 1 .. Len(a) /\ a[i] \in Nat /\ a[k] \in Nat
        <4>1. i \in 1 .. Len(a)
          BY <1>3, <1>4
        <4>. QED  BY <1>3, <2>1, <4>1
      <3>2. i < k => a[i] < a[k]
        BY <1>1, <2>1, <3>1
      <3>3. i < k \/ i = k
        BY <1>4
      <3>. QED  BY <3>1, <3>2, <3>3
    <2>4. ASSUME NEW i \in 1 .. Len(a), a[i] <= a[k] PROVE i \in 1 .. k
      <3>1. a[i] \in Nat /\ a[k] \in Nat
        BY <1>3, <2>1
      <3>2. k < i => a[k] < a[i]
        BY <1>1, <2>1
      <3>3. ~(k < i)
        BY <2>4, <3>1, <3>2
      <3>. QED  BY <1>4, <3>3
    <2>. QED  BY <1>3, <1>6, <2>1, <2>2, <2>3, <2>4
  <1>. QED  BY <1>7, <1>8, <1>9, <1>10

\* One page: what it returns continues what the scan has returned, and the
\* cursor goes past no edge that the scan owes.
LEMMA StepScanPage ==
    ASSUME IInv, ScanPage
    PROVE  IInv'
  <1>. DEFINE rest == Rest(edges, pager.type, pager.after)
              scanned == First(Ascending(rest), PageSize)
              active == {e \in ToSet(scanned) : ActiveAt(edges[e], pager.at)}
              page == ActivePage(edges, pager.type, pager.after, PageSize, pager.at)
  <1>1. /\ pager.pc = "open" /\ UNCHANGED <<registryVars, thoughts, edges, job, reader>>
        /\ Observed
        /\ pager'.pc = (IF page.next = Nil THEN "done" ELSE "open")
        /\ pager'.type = pager.type /\ pager'.at = pager.at
        /\ pager'.after = page.next /\ pager'.got = pager.got \o page.edges
    BY DEF ScanPage
  <1>2. /\ pager.got \in Seq(EdgeIds)
        /\ \A i, j \in 1 .. Len(pager.got) : i < j => pager.got[i] < pager.got[j]
        /\ held \subseteq ToReturn(pager, edges)
        /\ \/ pager.after = Nil /\ pager.got = <<>>
           \/ /\ pager.after \in EdgeIds
              /\ \A e \in ToSet(pager.got) : e <= pager.after
              /\ \A e \in held : e <= pager.after => e \in ToSet(pager.got)
    BY <1>1 DEF IInv, ScanSound
  <1>3. EdgeIds \subseteq Nat /\ Nil \notin EdgeIds /\ PageSize \in Nat \ {0}
    BY LibraryAssumption
  <1>4. /\ rest \subseteq EdgeIds /\ rest \in SUBSET Nat /\ IsFiniteSet(rest)
        /\ DOMAIN edges \subseteq EdgeIds
    <2>1. DOMAIN edges \subseteq EdgeIds /\ rest \subseteq DOMAIN edges
      BY DEF IInv, TypeOK, Rest
    <2>2. IsFiniteSet(rest)
      BY <2>1, FS_Subset DEF IInv, TablesFinite
    <2>. QED  BY <1>3, <2>1, <2>2
  <1>5. /\ ToSet(scanned) \subseteq rest /\ IsFiniteSet(ToSet(scanned))
        /\ scanned = <<>> => rest = {}
        /\ scanned # <<>> =>
             /\ Last(scanned) \in rest
             /\ \A x \in ToSet(scanned) : x <= Last(scanned)
             /\ \A x \in rest : x <= Last(scanned) => x \in ToSet(scanned)
    <2>. HIDE DEF rest
    <2>. QED  BY <1>3, <1>4, FirstRows
  <1>6. page = [edges |-> Ascending(active),
                next |-> IF Cursor(scanned, Ascending(active)) # Nil
                            /\ Rest(edges, pager.type, Cursor(scanned, Ascending(active))) # {}
                         THEN Cursor(scanned, Ascending(active)) ELSE Nil]
    BY DEF ActivePage, PageOf
  <1>7. Cursor(scanned, Ascending(active)) = IF scanned = <<>> THEN Nil ELSE Last(scanned)
    BY DEF Cursor
  <1>. HIDE DEF scanned, page
  <1>7a. /\ page.edges = Ascending(active)
         /\ page.next = Nil => /\ scanned # <<>> /\ Last(scanned) # Nil
                                 => Rest(edges, pager.type, Last(scanned)) = {}
         /\ page.next # Nil => scanned # <<>> /\ page.next = Last(scanned)
    BY <1>6, <1>7
  <1>. HIDE DEF page
  <1>8. /\ active \subseteq EdgeIds /\ active \in SUBSET Nat /\ IsFiniteSet(active)
        /\ active \subseteq rest /\ active \subseteq ToSet(scanned)
    <2>1. active \subseteq ToSet(scanned)
      OBVIOUS
    <2>. HIDE DEF active, rest
    <2>. QED  BY <1>3, <1>4, <1>5, <2>1, FS_Subset
  <1>9. /\ Ascending(active) \in Seq(EdgeIds) /\ ToSet(Ascending(active)) = active
        /\ \A i, j \in 1 .. Len(Ascending(active)) :
             i < j => Ascending(active)[i] < Ascending(active)[j]
    <2>. HIDE DEF active
    <2>1. /\ Ascending(active) \in Seq(active) /\ ToSet(Ascending(active)) = active
          /\ \A i, j \in 1 .. Len(Ascending(active)) :
               i < j => Ascending(active)[i] < Ascending(active)[j]
      BY <1>8, AscendingLists
    <2>2. Ascending(active) \in Seq(EdgeIds)
      BY <1>8, <2>1, SeqMonotonic
    <2>. QED  BY <2>1, <2>2
  <1>10. ASSUME NEW x \in ToSet(pager.got), NEW y \in rest PROVE x < y
    <2>1. pager.got # <<>>
      BY <1>10 DEF ToSet
    <2>2. pager.after \in EdgeIds /\ x <= pager.after
      BY <1>2, <1>10, <2>1
    <2>3. y > pager.after
      BY <1>3, <2>2 DEF Rest
    <2>4. x \in Nat /\ y \in Nat /\ pager.after \in Nat
      <3>1. x \in EdgeIds
        BY <1>2, <1>10 DEF ToSet
      <3>. QED  BY <1>3, <1>4, <2>2, <3>1
    <2>. QED  BY <2>2, <2>3, <2>4
  <1>11. /\ pager'.got \in Seq(EdgeIds)
         /\ ToSet(pager'.got) = ToSet(pager.got) \cup active
         /\ \A i, j \in 1 .. Len(pager'.got) : i < j => pager'.got[i] < pager'.got[j]
    <2>1. \A x \in ToSet(pager.got), y \in ToSet(Ascending(active)) : x < y
      BY <1>8, <1>9, <1>10
    <2>2. pager'.got = pager.got \o Ascending(active)
      BY <1>1, <1>7a
    <2>. HIDE DEF active
    <2>. QED  BY <1>2, <1>9, <2>1, <2>2, AppendAscending
  <1>12. held' = held \cap ToReturn(pager', edges')
    BY <1>1 DEF Observed, ObservedFiling
  <1>13. held' \subseteq held /\ held' \subseteq ToReturn(pager, edges)'
    BY <1>12
  \* An edge that is owed has been returned, or is in what is left.
  <1>14. ASSUME NEW e \in held'
         PROVE  /\ e \in Nat /\ e \in EdgeIds
                /\ e \in ToSet(pager.got) \/ e \in rest
                /\ ActiveAt(edges[e], pager.at)
                /\ e \in DOMAIN edges /\ edges[e].type = pager.type
    <2>1. /\ e \in held /\ e \in DOMAIN edges /\ edges[e].type = pager.type
          /\ ActiveAt(edges[e], pager.at)
      BY <1>2, <1>13 DEF ToReturn
    <2>2. e \in Nat /\ e \in EdgeIds
      BY <1>3, <1>4, <2>1
    <2>3. e \in ToSet(pager.got) \/ pager.after = Nil \/ e > pager.after
      <3>1. CASE pager.after = Nil
        BY <3>1
      <3>2. CASE pager.after # Nil
        <4>1. pager.after \in EdgeIds /\ (e <= pager.after => e \in ToSet(pager.got))
          BY <1>2, <2>1, <3>2
        <4>2. pager.after \in Nat
          BY <1>3, <4>1
        <4>. QED  BY <2>2, <4>1, <4>2
      <3>. QED  BY <3>1, <3>2
    <2>. QED  BY <2>1, <2>2, <2>3 DEF Rest
  <1>15. \A e \in held' : e \in ToSet(scanned) => e \in ToSet(pager'.got)
    BY <1>11, <1>14
  <1>16. ASSUME page.next = Nil PROVE ScanSound'
    <2>1. rest = ToSet(scanned)
      <3>1. CASE scanned = <<>>
        BY <1>5, <3>1
      <3>2. CASE scanned # <<>>
        <4>1. Last(scanned) \in rest /\ Last(scanned) # Nil /\ Last(scanned) \in Nat
          BY <1>3, <1>4, <1>5, <3>2
        <4>2. Rest(edges, pager.type, Last(scanned)) = {}
          BY <1>16, <1>7a, <3>2, <4>1
        <4>3. \A x \in rest : x <= Last(scanned)
          <5>1. \A x \in rest : x \in DOMAIN edges /\ edges[x].type = pager.type
            BY DEF Rest
          <5>2. \A x \in rest : ~(x > Last(scanned))
            BY <4>2, <5>1 DEF Rest
          <5>. QED  BY <1>4, <4>1, <5>2
        <4>. QED  BY <1>5, <3>2, <4>3
      <3>. QED  BY <3>1, <3>2
    <2>2. held' \subseteq ToSet(pager'.got)
      BY <1>11, <1>14, <1>15, <2>1
    <2>3. pager'.pc = "done"
      BY <1>1, <1>16
    <2>4. (held \subseteq ToReturn(pager, edges))'
      BY <1>13
    <2>. QED  BY <1>11, <2>2, <2>3, <2>4 DEF ScanSound
  <1>17. ASSUME page.next # Nil PROVE ScanSound'
    <2>1. scanned # <<>> /\ page.next = Last(scanned)
      BY <1>17, <1>7a
    <2>2. page.next \in rest /\ page.next \in EdgeIds /\ page.next \in Nat
      BY <1>3, <1>4, <1>5, <2>1
    <2>3. \A e \in ToSet(pager'.got) : e <= page.next
      <3>1. \A e \in active : e <= page.next
        BY <1>5, <1>8, <2>1
      <3>2. \A e \in ToSet(pager.got) : e < page.next /\ e \in Nat
        <4>1. \A e \in ToSet(pager.got) : e \in EdgeIds
          BY <1>2 DEF ToSet
        <4>. QED  BY <1>3, <1>10, <2>2, <4>1
      <3>. QED  BY <1>11, <2>2, <3>1, <3>2
    <2>4. \A e \in held' : e <= page.next => e \in ToSet(pager'.got)
      BY <1>5, <1>11, <1>14, <1>15, <2>1
    <2>5. pager'.pc = "open" /\ pager'.after = page.next
      BY <1>1, <1>17
    <2>6. (held \subseteq ToReturn(pager, edges))'
      BY <1>13
    <2>. QED  BY <1>11, <2>2, <2>3, <2>4, <2>5, <2>6 DEF ScanSound
  <1>18. ScanSound'
    BY <1>16, <1>17
  <1>19. ShownAsVouched'
    BY <1>1, ShownKeeps DEF IInv, Observed
  <1>. QED  BY <1>1, <1>18, <1>19, ReadStep

-----------------------------------------------------------------------------
(* The theorems                                                            *)

LEMMA InitIInv == Init => IInv
  <1>. SUFFICES ASSUME Init PROVE IInv
    OBVIOUS
  <1>1. PICK s \in Starts : /\ projects = s.projects /\ aliases = s.aliases
                            /\ thoughts = s.thoughts /\ edges = s.edges
    BY DEF Init
  <1>2. StartIsSound(s)
    BY LibraryAssumption
  <1>3. RegistryFits(projects, aliases)
    <2>1. \A p \in DOMAIN projects : /\ p \in Pids /\ projects[p] \in Project
                                     /\ projects[p].slug \in DOMAIN aliases
                                     /\ aliases[projects[p].slug].pid = p
      BY <1>1, <1>2 DEF StartIsSound
    <2>2. /\ DOMAIN aliases \subseteq Slugs
          /\ \A slug \in DOMAIN aliases :
               aliases[slug] \in Alias /\ aliases[slug].pid \in DOMAIN projects
      BY <1>1, <1>2 DEF StartIsSound
    <2>3. \A p \in DOMAIN projects : AliasOwner(projects, aliases, projects[p].slug) = p
      BY <2>1, <2>2 DEF AliasOwner
    <2>. QED  BY <2>1, <2>2, <2>3 DEF RegistryFits, RowsTyped
  <1>4. NotesFit(projects, aliases, thoughts)
    <2>1. DOMAIN thoughts \subseteq Ids
      BY <1>1, <1>2 DEF StartIsSound
    <2>2. ASSUME NEW id \in DOMAIN thoughts
          PROVE  /\ thoughts[id] \in Thought
                 /\ thoughts[id].pid # None =>
                      /\ thoughts[id].pid \in DOMAIN projects
                      /\ thoughts[id].ident # None =>
                           /\ thoughts[id].ident \in DOMAIN aliases
                           /\ aliases[thoughts[id].ident].pid = thoughts[id].pid
      BY <1>1, <1>2 DEF StartIsSound
    <2>3. ASSUME NEW id \in DOMAIN thoughts PROVE FiledUnder(projects, aliases, thoughts[id])
      BY <2>2 DEF FiledUnder, AliasOwner
    <2>. QED  BY <2>1, <2>2, <2>3 DEF NotesFit
  <1>5. LinksFit(thoughts, edges)
    BY <1>1, <1>2 DEF StartIsSound, LinksFit
  <1>6. TablesFinite
    BY <1>1, <1>2 DEF StartIsSound, TablesFinite
  <1>7. job.pc = "idle" /\ pager.pc = "idle" /\ reader.pc = "idle" /\ filed = NotFiled
    BY DEF Init, Idle
  <1>8. JobSound /\ ScanSound /\ ShownAsVouched /\ CapturesReadBack
    BY <1>7 DEF JobSound, ScanSound, ShownAsVouched, CapturesReadBack
  <1>. QED  BY <1>3, <1>4, <1>5, <1>6, <1>8, TypeOKMeans DEF IInv

LEMMA StutterIInv ==
    ASSUME IInv, UNCHANGED vars
    PROVE  IInv'
  <1>1. /\ UNCHANGED <<registryVars, thoughts, edges>> /\ job' = job /\ pager' = pager
        /\ reader' = reader /\ held' = held /\ vouched' = vouched /\ filed' = filed /\ born' = born
    BY DEF vars, readVars, historyVars
  <1>2. TypeOK' /\ TablesFinite' /\ projects' = projects /\ aliases' = aliases
    BY <1>1, SameTables DEF IInv
  <1>3. JobSound' /\ ScanSound' /\ ShownAsVouched'
    BY <1>1, <1>2 DEF IInv, JobSound, ScanSound, ShownAsVouched, ToReturn
  <1>4. CapturesReadBack'
    <2>1. PICK roots : roots = filed[1]
      OBVIOUS
    <2>2. ResolveScope(roots)' = ResolveScope(roots)
      BY <1>2, SameScope
    <2>3. \A pid, slug : Reference(pid, slug)' = Reference(pid, slug)
      BY <1>2 DEF Reference, ByAlias
    <2>4. DefaultScope(NoArgs, roots)' = DefaultScope(NoArgs, roots)
      BY <2>2, <2>3 DEF DefaultScope, ProjectOf
    <2>5. \A scope : InScope(born, scope)' = InScope(born, scope)
      BY <1>1 DEF InScope
    <2>6. CapturesReadBack' <=>
            (filed' # NotFiled =>
               \E scope \in {DefaultScope(NoArgs, roots)'} :
                  /\ scope.kind = "applied" /\ scope.pid = thoughts'[born'].pid
                  /\ InScope(born, scope)')
      BY <1>1, <2>1 DEF CapturesReadBack
    <2>7. CapturesReadBack <=>
            (filed # NotFiled =>
               \E scope \in {DefaultScope(NoArgs, roots)} :
                  /\ scope.kind = "applied" /\ scope.pid = thoughts[born].pid
                  /\ InScope(born, scope))
      BY <2>1 DEF CapturesReadBack
    <2>. QED  BY <1>1, <2>4, <2>5, <2>6, <2>7 DEF IInv
  <1>. QED  BY <1>2, <1>3, <1>4 DEF IInv

\* The inductive invariant.
THEOREM IInvAlways == Spec => []IInv
  <1>1. IInv /\ [Next]_vars => IInv'
    <2>. SUFFICES ASSUME IInv, [Next]_vars PROVE IInv'
      OBVIOUS
    <2>1. CASE CaptureNew \/ FoldCapture
      BY <2>1, StepCapture, StepFold
    <2>2. CASE LookAtOne \/ AssignOne \/ EditOne \/ DeleteOne
      BY <2>2, StepLook, StepAssign, StepEdit, StepDelete
    <2>3. CASE LinkTwo \/ ChangeEdge
      BY <2>3, StepLink, StepChangeEdge
    <2>4. CASE BeginJob \/ SeedLook \/ SeedWrite \/ Seeds
      BY <2>4, StepBegin, StepSeedLook, StepSeedWrite, StepSeeds
    <2>5. CASE PlanRepairs \/ Apply \/ JobFails
      BY <2>5, StepPlan, StepApply, StepJobFails
    <2>6. CASE ReadThoughts \/ Show
      BY <2>6, StepRead, StepShow
    <2>7. CASE ScanEdges \/ ScanPage
      BY <2>7, StepOpenScan, StepScanPage
    <2>8. CASE UNCHANGED vars
      BY <2>8, StutterIInv
    <2>. QED  BY <2>1, <2>2, <2>3, <2>4, <2>5, <2>6, <2>7, <2>8 DEF Next
  <1>. QED  BY <1>1, InitIInv, PTL DEF Spec

\* TypeOK: the registry is sound; a thought that has a project has one that
\* exists, and its slug leads to it; an edge joins two thoughts that exist
\* and is the only one of its type between them.
THEOREM TypeCorrect == Spec => []TypeOK
  <1>1. IInv => TypeOK
    BY DEF IInv
  <1>. QED  BY <1>1, IInvAlways, PTL

\* CapturesReadBack: a read of the same roots is given the project that a
\* capture was filed under, also when the capture has made the project.
THEOREM CapturesReadBackHolds == Spec => []CapturesReadBack
  <1>1. IInv => CapturesReadBack
    BY DEF IInv
  <1>. QED  BY <1>1, IInvAlways, PTL

\* ShownAsVouched: a text without a fence was the text of a trusted thought
\* at some time during the call, whatever was written between its statements.
THEOREM ShownAsVouchedHolds == Spec => []ShownAsVouched
  <1>1. IInv => ShownAsVouched
    BY DEF IInv
  <1>. QED  BY <1>1, IInvAlways, PTL

\* A sequence of ascending numbers has as many elements as places.
LEMMA AscendingIsDistinct ==
    ASSUME NEW s \in Seq(EdgeIds), \A i, j \in 1 .. Len(s) : i < j => s[i] < s[j]
    PROVE  Len(s) = Cardinality(ToSet(s))
  <1>1. EdgeIds \in SUBSET Nat
    BY LibraryAssumption
  <1>2. \A i \in 1 .. Len(s) : s[i] \in EdgeIds
    OBVIOUS
  <1>3. \A i \in 1 .. Len(s) : s[i] \in Nat
    BY <1>1, <1>2
  <1>4. \A i, j \in 1 .. Len(s) : i < j => s[i] # s[j]
    BY <1>3
  <1>. QED  BY <1>4, DistinctCounts

\* ScansCover: a scan returns no edge twice and at its end it has returned
\* every edge that was stored and active from its first page to its last,
\* for every page size and whatever happens to its edges meanwhile.
THEOREM ScansCoverHolds == Spec => []ScansCover
  <1>1. IInv => ScansCover
    <2>. SUFFICES ASSUME IInv, pager.pc # "idle"
                  PROVE  /\ Len(pager.got) = Cardinality(ToSet(pager.got))
                         /\ pager.pc = "done" => held \subseteq ToSet(pager.got)
      BY DEF ScansCover
    <2>1. /\ pager.got \in Seq(EdgeIds)
          /\ \A i, j \in 1 .. Len(pager.got) : i < j => pager.got[i] < pager.got[j]
          /\ pager.pc = "done" => held \subseteq ToSet(pager.got)
      BY DEF IInv, ScanSound
    <2>. QED  BY <2>1, AscendingIsDistinct
  <1>. QED  BY <1>1, IInvAlways, PTL

\* RepairsSpareAssigned: a repair leaves a thought alone that had a project
\* when its plan was made, takes no project away and changes no text,
\* visibility or trust, for every registry, seed file and plan.
THEOREM RepairsSpareAssignedHolds == Spec => RepairsSpareAssigned
  <1>. DEFINE Spares == Apply =>
                /\ DOMAIN thoughts' = DOMAIN thoughts
                /\ \A id \in DOMAIN thoughts :
                     /\ id \in job.assigned => thoughts'[id] = thoughts[id]
                     /\ thoughts[id].pid # None => thoughts'[id].pid # None
                     /\ \A field \in {"shared", "trust", "text"} :
                          thoughts'[id][field] = thoughts[id][field]
  <1>1. IInv => Spares
    <2>. SUFFICES ASSUME IInv, Apply
                  PROVE  /\ DOMAIN thoughts' = DOMAIN thoughts
                         /\ \A id \in DOMAIN thoughts :
                              /\ id \in job.assigned => thoughts'[id] = thoughts[id]
                              /\ thoughts[id].pid # None => thoughts'[id].pid # None
                              /\ \A field \in {"shared", "trust", "text"} :
                                   thoughts'[id][field] = thoughts[id][field]
      OBVIOUS
    <2>1. job.assigned \cap DOMAIN job.plan = {}
      BY DEF IInv, JobSound, Apply
    <2>2. /\ DOMAIN thoughts' = DOMAIN thoughts
          /\ \A id \in DOMAIN thoughts :
               /\ thoughts[id].pid # None => thoughts'[id].pid # None
               /\ thoughts'[id].shared = thoughts[id].shared
               /\ thoughts'[id].trust = thoughts[id].trust
               /\ thoughts'[id].text = thoughts[id].text
               /\ id \notin DOMAIN job.plan => thoughts'[id] = thoughts[id]
      BY AppliedRows DEF IInv
    <2>3. ASSUME NEW id \in DOMAIN thoughts, id \in job.assigned PROVE thoughts'[id] = thoughts[id]
      BY <2>1, <2>2, <2>3
    <2>4. ASSUME NEW id \in DOMAIN thoughts, NEW field \in {"shared", "trust", "text"}
          PROVE  thoughts'[id][field] = thoughts[id][field]
      BY <2>2, <2>4
    <2>. QED  BY <2>2, <2>3, <2>4
  <1>2. IInv /\ [Next]_vars => [Spares]_vars
    BY <1>1
  <1>3. Spec => [][Spares]_vars
    BY <1>2, IInvAlways, PTL DEF Spec
  <1>. QED  BY <1>3 DEF RepairsSpareAssigned

\* The seeds of the surroundings of a result: some thoughts, each once.
LEMMA SeedsListed ==
    ASSUME NEW T \in SUBSET Nat, IsFiniteSet(T), NEW S \in SUBSET T
    PROVE  /\ Ascending(S) \in Seq(T) /\ ToSet(Ascending(S)) = S
           /\ \A i, j \in 1 .. Len(Ascending(S)) :
                i < j => Ascending(S)[i] # Ascending(S)[j]
  <1>. DEFINE a == Ascending(S)
  <1>1. IsFiniteSet(S) /\ S \in SUBSET Nat
    BY FS_Subset
  <1>2. a \in Seq(S) /\ ToSet(a) = S /\ \A i, j \in 1 .. Len(a) : i < j => a[i] < a[j]
    BY <1>1, AscendingLists
  <1>. HIDE DEF a
  <1>3. /\ Len(a) \in Nat /\ a = [i \in 1 .. Len(a) |-> a[i]]
        /\ \A i \in 1 .. Len(a) : a[i] \in S
    BY <1>2
  <1>4. \A i \in 1 .. Len(a) : a[i] \in T /\ a[i] \in Nat
    BY <1>1, <1>3
  <1>6. a \in Seq(T)
    <2>1. a \in [1 .. Len(a) -> T]
      BY <1>3, <1>4
    <2>. QED  BY <1>3, <2>1
  <1>5. \A i, j \in 1 .. Len(a) : i < j => a[i] # a[j]
    BY <1>2, <1>4
  <1>. QED  BY <1>2, <1>5, <1>6 DEF a

\* WalksAreShortest: traversals and the surroundings of results, for every
\* graph, every type filter, time and depth, meet exactly the thoughts within
\* that many hops, each at its distance and by a hop from one that is nearer.
THEOREM WalksAreShortestHolds == Spec => []WalksAreShortest
  <1>1. IInv => WalksAreShortest
    <2>. SUFFICES ASSUME IInv, NEW at \in Instants \cup {Nil}, NEW depth \in 0 .. MaxDepth
                  PROVE  /\ \A root \in DOMAIN thoughts, types \in {{}} \cup {{t} : t \in EdgeTypes} :
                              LET walk == Traverse(root, depth, types, at, edges, DOMAIN thoughts)
                              IN  /\ IsShortestWalk(walk, <<root>>, depth, edges,
                                                    Followed(edges, types, at), DOMAIN thoughts)
                                  /\ depth > 0 => walk.links[root] =
                                        Connections(root, types, at, edges, DOMAIN thoughts)
                         /\ \A n \in DOMAIN thoughts :
                              LET near == Ascending({id \in DOMAIN thoughts : id <= n})
                              IN  depth > 0 =>
                                    IsShortestWalk(
                                      Related(near, depth, at, edges, DOMAIN thoughts), near,
                                      depth, edges, Followed(edges, {}, at), DOMAIN thoughts)
      BY DEF WalksAreShortest
    <2>. DEFINE known == DOMAIN thoughts
                picked(types) == Followed(edges, types, at)
    <2>1. /\ known \in SUBSET Nat /\ IsFiniteSet(known) /\ IsFiniteSet(DOMAIN edges)
          /\ DOMAIN edges \in SUBSET Nat
          /\ \A e \in DOMAIN edges : edges[e].source \in known /\ edges[e].target \in known
      BY LibraryAssumption DEF IInv, TypeOK, TablesFinite
    <2>2. MaxDepth \in Nat /\ depth \in Nat /\ depth <= MaxDepth
      BY LibraryAssumption
    <2>3. Clamp(0, depth, MaxDepth) = depth /\ (depth > 0 => Clamp(1, depth, MaxDepth) = depth)
      BY <2>2 DEF Clamp
    <2>4. ASSUME NEW types PROVE Joins(edges, picked(types), known)
      <3>1. picked(types) \in SUBSET DOMAIN edges
        BY DEF Followed
      <3>. HIDE DEF picked
      <3>2. picked(types) \in SUBSET Nat /\ IsFiniteSet(picked(types))
        BY <2>1, <3>1, FS_Subset
      <3>. QED  BY <2>1, <3>1, <3>2 DEF Joins
    <2>5. ASSUME NEW root \in known, NEW types
          PROVE  LET walk == Traverse(root, depth, types, at, edges, known)
                 IN  /\ IsShortestWalk(walk, <<root>>, depth, edges, picked(types), known)
                     /\ depth > 0 =>
                          walk.links[root] = Connections(root, types, at, edges, known)
      <3>. DEFINE walk == Walk(<<root>>, depth, edges, picked(types), known)
      <3>1. Traverse(root, depth, types, at, edges, known) = walk
        BY <2>3 DEF Traverse
      <3>3. /\ IsShortestWalk(walk, <<root>>, depth, edges, picked(types), known)
            /\ 0 < depth => \A n \in ToSet(<<root>>) :
                              walk.links[n] = Hops(edges, picked(types), n, known)
        <4>1. Joins(edges, picked(types), known)
          BY <2>4
        <4>. DEFINE seeds == <<root>>
        <4>2. seeds \in Seq(known) /\ Len(seeds) = 1
          OBVIOUS
        <4>. HIDE DEF seeds
        <4>3. \A i, j \in 1 .. Len(seeds) : i < j => seeds[i] # seeds[j]
          BY <4>2
        <4>. HIDE DEF picked, known
        <4>4. LET v == Walk(seeds, depth, edges, picked(types), known)
              IN  /\ IsShortestWalk(v, seeds, depth, edges, picked(types), known)
                  /\ 0 < depth => \A m \in ToSet(seeds) :
                                    v.links[m] = Hops(edges, picked(types), m, known)
          BY <2>1, <2>2, <4>1, <4>2, <4>3, WalkIsShortest
        <4>. QED  BY <4>4 DEF seeds
      <3>4. Connections(root, types, at, edges, known) = Hops(edges, picked(types), root, known)
        BY DEF Connections
      <3>5. depth > 0 => 0 < depth
        BY <2>2
      <3>. HIDE DEF walk, picked, known
      <3>6. root \in ToSet(<<root>>)
        BY DEF ToSet
      <3>. QED  BY <3>1, <3>3, <3>4, <3>5, <3>6
    <2>6. ASSUME NEW n \in known, depth > 0
          PROVE  LET near == Ascending({id \in known : id <= n})
                 IN  IsShortestWalk(Related(near, depth, at, edges, known), near, depth, edges,
                                    picked({}), known)
      <3>. DEFINE S == {id \in known : id <= n}
                  near == Ascending(S)
      <3>1. n \in S /\ S \in SUBSET known
        BY <2>1
      <3>2. /\ near \in Seq(known) /\ ToSet(near) = S
            /\ \A i, j \in 1 .. Len(near) : i < j => near[i] # near[j]
        <4>. HIDE DEF S, known
        <4>. QED  BY <2>1, <3>1, SeedsListed
      <3>3. near # <<>>
        <4>. HIDE DEF near, S
        <4>. QED  BY <3>1, <3>2 DEF ToSet
      <3>4. ~(depth <= 0)
        BY <2>2, <2>6
      <3>5. Related(near, depth, at, edges, known) = Walk(near, depth, edges, picked({}), known)
        BY <2>3, <2>6, <3>3, <3>4 DEF Related
      <3>6. IsShortestWalk(Walk(near, depth, edges, picked({}), known), near, depth, edges,
                           picked({}), known)
        <4>1. Joins(edges, picked({}), known)
          BY <2>4
        <4>. HIDE DEF picked, known, near
        <4>. QED  BY <2>1, <2>2, <3>2, <4>1, WalkIsShortest
      <3>. QED  BY <3>5, <3>6
    <2>. QED  BY <2>5, <2>6
  <1>. QED  BY <1>1, IInvAlways, PTL

-----------------------------------------------------------------------------
(* Orders (ThoughtReads)                                                   *)

StrictOrder(R, S) ==
    /\ \A i \in S : <<i, i>> \notin R
    /\ \A i, j \in S : i # j => <<i, j>> \in R \/ <<j, i>> \in R
    /\ \A i, j, k \in S : <<i, j>> \in R /\ <<j, k>> \in R => <<i, k>> \in R

Earlier(R, S, m) == Cardinality({k \in S : <<k, m>> \in R})

LEMMA EarlierGrows ==
    ASSUME NEW S, IsFiniteSet(S), NEW R, StrictOrder(R, S),
           NEW m \in S, NEW n \in S, <<m, n>> \in R
    PROVE  Earlier(R, S, m) < Earlier(R, S, n)
  <1>. DEFINE M == {k \in S : <<k, m>> \in R}
              N == {k \in S : <<k, n>> \in R}
  <1>1. M \in SUBSET N /\ M # N /\ N \in SUBSET S
    <2>1. m \in N /\ m \notin M
      BY DEF StrictOrder
    <2>2. \A k \in M : k \in N
      BY DEF StrictOrder
    <2>. QED  BY <2>1, <2>2
  <1>. HIDE DEF M, N
  <1>2. IsFiniteSet(N) /\ IsFiniteSet(M)
    BY <1>1, FS_Subset
  <1>3. Cardinality(M) <= Cardinality(N) /\ Cardinality(M) # Cardinality(N)
    BY <1>1, <1>2, FS_Subset
  <1>4. Cardinality(M) \in Nat /\ Cardinality(N) \in Nat
    BY <1>2, FS_CardinalityType
  <1>5. Cardinality(M) < Cardinality(N)
    BY <1>3, <1>4
  <1>. QED  BY <1>5 DEF Earlier, M, N

LEMMA EarlierInRange ==
    ASSUME NEW S, IsFiniteSet(S), NEW R, StrictOrder(R, S), NEW m \in S
    PROVE  Cardinality(S) \in Nat /\ Earlier(R, S, m) \in 0 .. Cardinality(S) - 1
  <1>. DEFINE M == {k \in S : <<k, m>> \in R}
  <1>1. M \in SUBSET S /\ m \notin M
    BY DEF StrictOrder
  <1>. HIDE DEF M
  <1>2. IsFiniteSet(M) /\ Cardinality(M) <= Cardinality(S) /\ Cardinality(M) # Cardinality(S)
    BY <1>1, FS_Subset
  <1>3. Cardinality(M) \in Nat /\ Cardinality(S) \in Nat
    BY <1>2, FS_CardinalityType
  <1>4. Cardinality(M) \in 0 .. Cardinality(S) - 1
    BY <1>2, <1>3
  <1>. QED  BY <1>3, <1>4 DEF Earlier, M

LEMMA EarlierTells ==
    ASSUME NEW S, IsFiniteSet(S), NEW R, StrictOrder(R, S), NEW m \in S, NEW n \in S
    PROVE  /\ Earlier(R, S, m) = Earlier(R, S, n) => m = n
           /\ Earlier(R, S, m) < Earlier(R, S, n) => <<m, n>> \in R
  <1>1. Earlier(R, S, m) \in Nat /\ Earlier(R, S, n) \in Nat
    BY EarlierInRange
  <1>2. /\ <<m, n>> \in R => Earlier(R, S, m) < Earlier(R, S, n)
        /\ <<n, m>> \in R => Earlier(R, S, n) < Earlier(R, S, m)
    BY EarlierGrows
  <1>3. m # n => <<m, n>> \in R \/ <<n, m>> \in R
    BY DEF StrictOrder
  <1>. QED  BY <1>1, <1>2, <1>3

LEMMA EarlierIsOnto ==
    ASSUME NEW S, IsFiniteSet(S), NEW R, StrictOrder(R, S)
    PROVE  \A r \in 1 .. Cardinality(S) : \E m \in S : Earlier(R, S, m) = r - 1
  <1>. DEFINE T == 1 .. Cardinality(S)
              f == [m \in S |-> Earlier(R, S, m) + 1]
  <1>1. Cardinality(S) \in Nat /\ IsFiniteSet(T) /\ Cardinality(T) = Cardinality(S)
    BY FS_CardinalityType, FS_Interval
  <1>2. \A m \in S : Earlier(R, S, m) \in Nat /\ Earlier(R, S, m) + 1 \in T
    BY <1>1, EarlierInRange
  <1>3. f \in [S -> T]
    BY <1>2
  <1>4. ASSUME NEW m \in S, NEW n \in S, f[m] = f[n] PROVE m = n
    <2>1. Earlier(R, S, m) = Earlier(R, S, n)
      BY <1>2, <1>4
    <2>. QED  BY <2>1, EarlierTells
  <1>5. f \in Injection(S, T)
    <2>. HIDE DEF f, T
    <2>. QED  BY <1>3, <1>4, Fun_IsInj
  <1>6. f \in Surjection(S, T)
    <2>. HIDE DEF f, T
    <2>. QED  BY <1>1, <1>5, FS_Injection
  <1>7. \A r \in T : \E m \in S : f[m] = r
    <2>. HIDE DEF f, T
    <2>. QED  BY <1>6, Fun_IsSurj DEF Surjection
  <1>8. ASSUME NEW r \in T PROVE \E m \in S : Earlier(R, S, m) = r - 1
    <2>1. PICK m \in S : Earlier(R, S, m) + 1 = r
      BY <1>7
    <2>. QED  BY <1>2, <2>1
  <1>. QED  BY <1>8

\* s lists the members of S, each once.
Lists(s, S) ==
    /\ s \in Seq(S) /\ ToSet(s) = S /\ Len(s) = Cardinality(S)
    /\ \A i, j \in 1 .. Len(s) : s[i] = s[j] => i = j

LEMMA InOrderLists ==
    ASSUME NEW S, IsFiniteSet(S), NEW R, StrictOrder(R, S)
    PROVE  /\ Lists(InOrder(S, R), S)
           /\ \A i, j \in 1 .. Len(InOrder(S, R)) :
                i < j => <<InOrder(S, R)[i], InOrder(S, R)[j]>> \in R
  <1>. DEFINE a == InOrder(S, R)
              c == Cardinality(S)
              At(n) == CHOOSE m \in S : Earlier(R, S, m) = n - 1
  <1>1. c \in Nat
    BY FS_CardinalityType
  <1>2. \A n \in 1 .. c : At(n) \in S /\ Earlier(R, S, At(n)) = n - 1
    BY EarlierIsOnto
  <1>3. a = [n \in 1 .. c |-> At(n)]
    BY DEF InOrder, Earlier
  <1>4. a \in Seq(S) /\ Len(a) = c
    <2>1. a \in [1 .. c -> S]
      BY <1>2, <1>3
    <2>. HIDE DEF a, c
    <2>. QED  BY <1>1, <2>1
  <1>5. \A n \in 1 .. c : a[n] \in S /\ Earlier(R, S, a[n]) = n - 1
    BY <1>2, <1>3
  <1>. HIDE DEF a
  <1>6. ASSUME NEW m \in S PROVE \E n \in 1 .. c : a[n] = m
    <2>1. Earlier(R, S, m) \in 0 .. c - 1
      BY EarlierInRange
    <2>2. PICK n \in 1 .. c : n - 1 = Earlier(R, S, m)
      <3>1. Earlier(R, S, m) + 1 \in 1 .. c /\ (Earlier(R, S, m) + 1) - 1 = Earlier(R, S, m)
        BY <1>1, <2>1
      <3>. QED  BY <3>1
    <2>3. Earlier(R, S, a[n]) = Earlier(R, S, m) /\ a[n] \in S
      BY <1>5, <2>2
    <2>4. a[n] = m
      BY <2>3, EarlierTells
    <2>. QED  BY <2>4
  <1>7. ToSet(a) = S
    <2>1. DOMAIN a = 1 .. c
      BY <1>4
    <2>. HIDE DEF c
    <2>2. \A m : m \in S <=> \E n \in 1 .. c : a[n] = m
      BY <1>5, <1>6
    <2>. QED  BY <2>1, <2>2 DEF ToSet
  <1>8. ASSUME NEW i \in 1 .. c, NEW j \in 1 .. c, i < j PROVE <<a[i], a[j]>> \in R
    <2>1. /\ a[i] \in S /\ a[j] \in S
          /\ Earlier(R, S, a[i]) = i - 1 /\ Earlier(R, S, a[j]) = j - 1
      BY <1>5
    <2>2. Earlier(R, S, a[i]) < Earlier(R, S, a[j])
      BY <1>1, <1>8, <2>1
    <2>. QED  BY <2>1, <2>2, EarlierTells
  <1>9. ASSUME NEW i \in 1 .. c, NEW j \in 1 .. c, a[i] = a[j] PROVE i = j
    <2>1. i - 1 = j - 1
      BY <1>5, <1>9
    <2>. QED  BY <1>1, <2>1
  <1>. QED  BY <1>4, <1>7, <1>8, <1>9 DEF a, Lists

\* Keys of one length are in a total order, the higher ones first.
LEMMA AboveIsTotal ==
    ASSUME NEW n \in Nat, NEW s \in [1 .. n -> Int], NEW t \in [1 .. n -> Int], s # t
    PROVE  Above(s, t) \/ Above(t, s)
  <1>. DEFINE D == {k \in 1 .. n : s[k] # t[k]}
  <1>1. D \in SUBSET Nat /\ D # {}
    OBVIOUS
  <1>2. PICK d \in D : \A k \in D : d <= k
    <2>. HIDE DEF D
    <2>. QED  BY <1>1, LeastOfNat
  <1>3. d \in 1 .. n /\ s[d] # t[d] /\ s[d] \in Int /\ t[d] \in Int
    BY <1>2
  <1>4. ASSUME NEW k \in 1 .. d - 1 PROVE s[k] = t[k]
    <2>1. k \in 1 .. n /\ ~(d <= k)
      BY <1>3
    <2>. QED  BY <1>2, <2>1
  <1>5. s[d] > t[d] \/ t[d] > s[d]
    BY <1>3
  <1>6. DOMAIN s = 1 .. n /\ DOMAIN t = 1 .. n
    OBVIOUS
  <1>. HIDE DEF D
  <1>. QED  BY <1>3, <1>4, <1>5, <1>6 DEF Above

LEMMA AboveIsTransitive ==
    ASSUME NEW n \in Nat, NEW s \in [1 .. n -> Int], NEW t \in [1 .. n -> Int],
           NEW u \in [1 .. n -> Int], Above(s, t), Above(t, u)
    PROVE  Above(s, u)
  <1>1. PICK i \in 1 .. n : s[i] > t[i] /\ \A m \in 1 .. i - 1 : s[m] = t[m]
    BY DEF Above
  <1>2. PICK j \in 1 .. n : t[j] > u[j] /\ \A m \in 1 .. j - 1 : t[m] = u[m]
    BY DEF Above
  <1>3. DOMAIN s = 1 .. n /\ i \in Int /\ j \in Int
    OBVIOUS
  <1>4. /\ s[i] \in Int /\ t[i] \in Int /\ u[i] \in Int
        /\ s[j] \in Int /\ t[j] \in Int /\ u[j] \in Int
    OBVIOUS
  <1>5. CASE i < j
    <2>1. i \in 1 .. j - 1
      BY <1>3, <1>5
    <2>2. s[i] > u[i]
      BY <1>1, <1>2, <2>1
    <2>3. \A m \in 1 .. i - 1 : m \in 1 .. j - 1
      BY <1>3, <1>5
    <2>4. \A m \in 1 .. i - 1 : s[m] = u[m]
      BY <1>1, <1>2, <2>3
    <2>. QED  BY <1>3, <2>2, <2>4 DEF Above
  <1>6. CASE i = j
    <2>1. s[i] > u[i]
      BY <1>1, <1>2, <1>4, <1>6
    <2>. QED  BY <1>1, <1>2, <1>3, <1>6, <2>1 DEF Above
  <1>7. CASE j < i
    <2>1. j \in 1 .. i - 1
      BY <1>3, <1>7
    <2>2. s[j] > u[j]
      BY <1>1, <1>2, <2>1
    <2>3. \A m \in 1 .. j - 1 : m \in 1 .. i - 1
      BY <1>3, <1>7
    <2>4. \A m \in 1 .. j - 1 : s[m] = u[m]
      BY <1>1, <1>2, <2>3
    <2>. QED  BY <1>3, <2>2, <2>4 DEF Above
  <1>. QED  BY <1>3, <1>5, <1>6, <1>7

LEMMA AboveIsStrict ==
    ASSUME NEW n \in Nat, NEW s \in [1 .. n -> Int]
    PROVE  ~Above(s, s)
  <1>1. \A k \in 1 .. n : s[k] \in Int
    OBVIOUS
  <1>. QED  BY <1>1 DEF Above

\* Different keys of one length.
Keyed(key, n) ==
    /\ \A i \in DOMAIN key : key[i] \in [1 .. n -> Int]
    /\ \A i, j \in DOMAIN key : key[i] = key[j] => i = j

LEMMA HighestFirstLists ==
    ASSUME NEW key, IsFiniteSet(DOMAIN key), NEW n \in Nat, Keyed(key, n)
    PROVE  /\ Lists(HighestFirst(key), DOMAIN key)
           /\ \A i, j \in 1 .. Len(HighestFirst(key)) :
                i < j => Above(key[HighestFirst(key)[i]], key[HighestFirst(key)[j]])
  <1>. DEFINE S == DOMAIN key
              R == {p \in S \X S : Above(key[p[1]], key[p[2]])}
              a == HighestFirst(key)
  <1>1. \A i, j \in S : <<i, j>> \in R <=> Above(key[i], key[j])
    OBVIOUS
  <1>. HIDE DEF R
  <1>2. StrictOrder(R, S)
    <2>1. \A i \in S : ~Above(key[i], key[i])
      BY AboveIsStrict DEF Keyed
    <2>2. \A i, j \in S : i # j => Above(key[i], key[j]) \/ Above(key[j], key[i])
      BY AboveIsTotal DEF Keyed
    <2>3. ASSUME NEW i \in S, NEW j \in S, NEW k \in S,
                 Above(key[i], key[j]), Above(key[j], key[k])
          PROVE  Above(key[i], key[k])
      BY <2>3, AboveIsTransitive DEF Keyed
    <2>. QED  BY <1>1, <2>1, <2>2, <2>3 DEF StrictOrder
  <1>3. a = InOrder(S, R)
    BY DEF HighestFirst, R
  <1>. HIDE DEF S, a
  <1>4. IsFiniteSet(S)
    BY DEF S
  <1>5. Lists(a, S) /\ \A i, j \in 1 .. Len(a) : i < j => <<a[i], a[j]>> \in R
    BY <1>2, <1>3, <1>4, InOrderLists
  <1>6. \A i \in 1 .. Len(a) : a[i] \in S
    BY <1>5 DEF Lists
  <1>. QED  BY <1>1, <1>5, <1>6 DEF a, S

\* Numbers in two places, the second the member's own.
LEMMA PairsKey ==
    ASSUME NEW S \in SUBSET Nat, NEW f, \A i \in S : f[i] \in Nat
    PROVE  Keyed([i \in S |-> <<-f[i], -i>>], 2)
  <1>1. ASSUME NEW i \in S PROVE <<-f[i], -i>> \in [1 .. 2 -> Int]
    <2>1. -f[i] \in Int /\ -i \in Int
      OBVIOUS
    <2>. QED  BY <2>1
  <1>2. ASSUME NEW i \in S, NEW j \in S, <<-f[i], -i>> = <<-f[j], -j>> PROVE i = j
    <2>1. -i = -j /\ i \in Nat /\ j \in Nat
      BY <1>2
    <2>. QED  BY <2>1
  <1>. QED  BY <1>1, <1>2 DEF Keyed

\* The first of two places decides before the second.
LEMMA PairsAbove ==
    ASSUME NEW a \in Nat, NEW b \in Nat, NEW i \in Nat, NEW j \in Nat,
           Above(<<-a, -i>>, <<-b, -j>>)
    PROVE  a <= b
  <1>. DEFINE s == <<-a, -i>>
              t == <<-b, -j>>
  <1>1. s[1] = -a /\ t[1] = -b /\ DOMAIN s = 1 .. 2
    OBVIOUS
  <1>2. PICK n \in 1 .. 2 : s[n] > t[n] /\ \A m \in 1 .. n - 1 : s[m] = t[m]
    BY DEF Above
  <1>. HIDE DEF s, t
  <1>3. CASE n = 1
    BY <1>1, <1>2, <1>3
  <1>4. CASE n = 2
    <2>1. 1 \in 1 .. n - 1
      BY <1>4
    <2>2. -a = -b
      BY <1>1, <1>2, <2>1
    <2>. QED  BY <2>2
  <1>. QED  BY <1>3, <1>4

-----------------------------------------------------------------------------
(* Rows and pages (ThoughtReads)                                           *)

Fewer(n, limit) == IF n < limit THEN n ELSE limit

LEMMA FirstTakes ==
    ASSUME NEW S, NEW s \in Seq(S), NEW limit \in Nat
    PROVE  /\ Fewer(Len(s), limit) \in Nat
           /\ Fewer(Len(s), limit) <= Len(s) /\ Fewer(Len(s), limit) <= limit
           /\ First(s, limit) \in Seq(S) /\ Len(First(s, limit)) = Fewer(Len(s), limit)
           /\ \A i \in 1 .. Fewer(Len(s), limit) : First(s, limit)[i] = s[i]
  <1>. DEFINE k == Fewer(Len(s), limit)
  <1>1. Len(s) \in Nat /\ \A i \in 1 .. Len(s) : s[i] \in S
    OBVIOUS
  <1>2. k \in Nat /\ k <= Len(s) /\ k <= limit
    BY <1>1 DEF Fewer
  <1>3. First(s, limit) = SubSeq(s, 1, k)
    BY DEF First, Fewer
  <1>. HIDE DEF k
  <1>4. \A i \in 1 .. k : s[i] \in S
    BY <1>1, <1>2
  <1>5. /\ SubSeq(s, 1, k) \in Seq(S) /\ Len(SubSeq(s, 1, k)) = IF 1 <= k THEN k - 1 + 1 ELSE 0
        /\ \A i \in 1 .. k - 1 + 1 : SubSeq(s, 1, k)[i] = s[1 + i - 1]
    BY <1>2, <1>4, SubSeqProperties
  <1>6. Len(SubSeq(s, 1, k)) = k /\ \A i \in 1 .. k : SubSeq(s, 1, k)[i] = s[i]
    <2>1. \A i \in 1 .. k : i \in 1 .. k - 1 + 1 /\ 1 + i - 1 = i
      BY <1>2
    <2>. QED  BY <1>2, <1>5, <2>1
  <1>. QED  BY <1>2, <1>3, <1>5, <1>6 DEF k

\* A page holds the rows from its offset on.
Holds(p, S, all, limit, offset) ==
    /\ p.total = Len(all) /\ p.rows \in Seq(S)
    /\ p.more <=> offset + limit < Len(all)
    /\ Len(p.rows) = IF Len(all) <= offset THEN 0 ELSE Fewer(Len(all) - offset, limit)
    /\ \A i \in 1 .. Len(p.rows) :
         offset + i \in 1 .. Len(all) /\ p.rows[i] = all[offset + i]

LEMMA PageTakes ==
    ASSUME NEW S, NEW all \in Seq(S), NEW limit \in Nat, NEW offset \in Nat
    PROVE  Holds(Page(all, limit, offset), S, all, limit, offset)
  <1>. DEFINE rest == SubSeq(all, offset + 1, Len(all))
              rows == First(rest, limit)
  <1>1. Len(all) \in Nat /\ \A i \in 1 .. Len(all) : all[i] \in S
    OBVIOUS
  <1>2. \A i \in offset + 1 .. Len(all) : all[i] \in S
    BY <1>1
  <1>3. /\ rest \in Seq(S)
        /\ Len(rest) = IF offset + 1 <= Len(all) THEN Len(all) - (offset + 1) + 1 ELSE 0
        /\ \A i \in 1 .. Len(all) - (offset + 1) + 1 : rest[i] = all[offset + 1 + i - 1]
    BY <1>1, <1>2, SubSeqProperties
  <1>4. /\ (IF offset > 0 THEN offset ELSE 0) = offset
        /\ Page(all, limit, offset) =
             [rows |-> rows, total |-> Len(all), more |-> offset + Len(rows) < Len(all)]
    <2>1. (IF offset > 0 THEN offset ELSE 0) = offset
      OBVIOUS
    <2>. QED  BY <2>1 DEF Page
  <1>. HIDE DEF rest
  <1>5. /\ Len(rest) = IF Len(all) <= offset THEN 0 ELSE Len(all) - offset
        /\ \A i \in 1 .. Len(rest) : offset + i \in 1 .. Len(all) /\ rest[i] = all[offset + i]
    <2>1. Len(rest) = IF Len(all) <= offset THEN 0 ELSE Len(all) - offset
      BY <1>1, <1>3
    <2>2. ASSUME NEW i \in 1 .. Len(rest)
          PROVE  offset + i \in 1 .. Len(all) /\ rest[i] = all[offset + i]
      <3>1. /\ i \in 1 .. Len(all) - (offset + 1) + 1 /\ offset + 1 + i - 1 = offset + i
            /\ offset + i \in 1 .. Len(all)
        BY <1>1, <2>1
      <3>. QED  BY <1>3, <3>1
    <2>. QED  BY <2>1, <2>2
  <1>6. /\ Fewer(Len(rest), limit) \in Nat /\ Fewer(Len(rest), limit) <= Len(rest)
        /\ rows \in Seq(S) /\ Len(rows) = Fewer(Len(rest), limit)
        /\ \A i \in 1 .. Fewer(Len(rest), limit) : rows[i] = rest[i]
    BY <1>3, FirstTakes
  <1>. HIDE DEF rows
  <1>7. Len(rows) = IF Len(all) <= offset THEN 0 ELSE Fewer(Len(all) - offset, limit)
    BY <1>1, <1>5, <1>6 DEF Fewer
  <1>8. (offset + Len(rows) < Len(all)) <=> offset + limit < Len(all)
    BY <1>1, <1>7 DEF Fewer
  <1>9. ASSUME NEW i \in 1 .. Len(rows)
        PROVE  offset + i \in 1 .. Len(all) /\ rows[i] = all[offset + i]
    <2>1. i \in 1 .. Len(rest) /\ rows[i] = rest[i]
      BY <1>1, <1>5, <1>6
    <2>. QED  BY <1>5, <2>1
  <1>. DEFINE p == Page(all, limit, offset)
  <1>10. p = [rows |-> rows, total |-> Len(all), more |-> offset + Len(rows) < Len(all)]
    BY <1>4
  <1>. HIDE DEF p
  <1>11. p.total = Len(all) /\ p.rows = rows /\ (p.more <=> offset + Len(rows) < Len(all))
    BY <1>10
  <1>. QED  BY <1>6, <1>7, <1>8, <1>9, <1>11 DEF p, Holds

\* The rows at some places, in their order.
LEMMA RowsAtAre ==
    ASSUME NEW S, NEW s \in Seq(S), NEW P \in SUBSET (1 .. Len(s))
    PROVE  /\ RowsAt(s, P) \in Seq(S) /\ Len(RowsAt(s, P)) = Cardinality(P)
           /\ Ascending(P) \in Seq(P) /\ Len(Ascending(P)) = Cardinality(P)
           /\ ToSet(Ascending(P)) = P
           /\ \A i, j \in 1 .. Cardinality(P) : i < j => Ascending(P)[i] < Ascending(P)[j]
           /\ \A i \in 1 .. Cardinality(P) : RowsAt(s, P)[i] = s[Ascending(P)[i]]
  <1>. DEFINE at == Ascending(P)
              r == RowsAt(s, P)
  <1>1. P \in SUBSET Nat /\ IsFiniteSet(P)
    <2>1. Len(s) \in Nat
      OBVIOUS
    <2>. DEFINE W == 1 .. Len(s)
    <2>2. IsFiniteSet(W)
      BY <2>1, FS_Interval
    <2>3. P \in SUBSET W /\ W \in SUBSET Nat
      OBVIOUS
    <2>. HIDE DEF W
    <2>. QED  BY <2>2, <2>3, FS_Subset
  <1>2. at \in Seq(P) /\ ToSet(at) = P /\ \A i, j \in 1 .. Len(at) : i < j => at[i] < at[j]
    BY <1>1, AscendingLists
  <1>3. r = [n \in DOMAIN at |-> s[at[n]]]
    BY DEF RowsAt
  <1>. HIDE DEF at, r
  <1>4. Len(at) \in Nat /\ DOMAIN at = 1 .. Len(at) /\ \A i \in 1 .. Len(at) : at[i] \in P
    BY <1>2
  <1>5. \A i \in 1 .. Len(at) : at[i] \in Nat /\ at[i] \in 1 .. Len(s)
    BY <1>1, <1>4
  <1>6. \A i, j \in 1 .. Len(at) : i < j => at[i] # at[j]
    BY <1>2, <1>5
  <1>7. Len(at) = Cardinality(P)
    BY <1>2, <1>6, DistinctCounts
  <1>8. \A i \in 1 .. Len(at) : s[at[i]] \in S
    BY <1>5
  <1>9. r \in [1 .. Len(at) -> S]
    BY <1>3, <1>4, <1>8
  <1>10. r \in Seq(S) /\ Len(r) = Len(at)
    BY <1>4, <1>9
  <1>. QED  BY <1>2, <1>3, <1>4, <1>7, <1>10 DEF at, r

-----------------------------------------------------------------------------
(* The order of the merged results (ThoughtReads)                          *)

LEMMA TimesKeepsOrder ==
    ASSUME NEW x \in Nat, NEW y \in Nat, NEW z \in Nat, z > 0
    PROVE  (x <= y => x * z <= y * z) /\ (x < y => x * z < y * z)
  OBVIOUS

LEMMA TimesTurns ==
    ASSUME NEW x \in Nat, NEW y \in Nat, NEW z \in Nat
    PROVE  (x * y) * z = (x * z) * y /\ x * y \in Nat
  OBVIOUS

LEMMA RatiosAreOrdered ==
    ASSUME NEW a \in Nat, NEW b \in Nat, NEW c \in Nat,
           NEW k \in Nat, NEW m \in Nat, NEW n \in Nat, k > 0, m > 0, n > 0,
           b * k <= a * m, c * m <= b * n
    PROVE  /\ c * k <= a * n
           /\ b * k < a * m \/ c * m < b * n => c * k < a * n
  <1>1. /\ b * k \in Nat /\ a * m \in Nat /\ c * m \in Nat /\ b * n \in Nat
        /\ c * k \in Nat /\ a * n \in Nat
    BY TimesTurns
  <1>2. /\ (b * k) * n <= (a * m) * n
        /\ b * k < a * m => (b * k) * n < (a * m) * n
    BY <1>1, TimesKeepsOrder
  <1>3. /\ (c * m) * k <= (b * n) * k
        /\ c * m < b * n => (c * m) * k < (b * n) * k
    BY <1>1, TimesKeepsOrder
  <1>4. /\ (b * n) * k = (b * k) * n /\ (a * m) * n = (a * n) * m /\ (c * m) * k = (c * k) * m
        /\ (b * k) * n \in Nat /\ (a * n) * m \in Nat /\ (c * k) * m \in Nat
    <2>1. (b * n) * k = (b * k) * n /\ (a * m) * n = (a * n) * m /\ (c * m) * k = (c * k) * m
      BY TimesTurns
    <2>2. (b * k) * n \in Nat /\ (a * n) * m \in Nat /\ (c * k) * m \in Nat
      BY <1>1, TimesTurns
    <2>. QED  BY <2>1, <2>2
  <1>. DEFINE x == c * k
              y == a * n
  <1>5. /\ x * m <= y * m
        /\ b * k < a * m \/ c * m < b * n => x * m < y * m
    <2>. DEFINE p == (b * k) * n
                u == (a * n) * m
                v == (c * k) * m
    <2>1. p \in Nat /\ u \in Nat /\ v \in Nat
      BY <1>4
    <2>2. p <= u /\ v <= p /\ (b * k < a * m => p < u) /\ (c * m < b * n => v < p)
      BY <1>2, <1>3, <1>4
    <2>. HIDE DEF p, u, v
    <2>3. v <= u /\ (b * k < a * m \/ c * m < b * n => v < u)
      BY <2>1, <2>2
    <2>. QED  BY <2>3 DEF u, v
  <1>6. x \in Nat /\ y \in Nat
    BY <1>1
  <1>. HIDE DEF x, y
  <1>7. /\ y < x => y * m < x * m
        /\ x = y => x * m = y * m
        /\ x * m \in Nat /\ y * m \in Nat
    BY <1>6, TimesKeepsOrder, TimesTurns
  <1>8. x <= y /\ (b * k < a * m \/ c * m < b * n => x < y)
    BY <1>5, <1>6, <1>7
  <1>. QED  BY <1>8 DEF x, y

\* A score is a fraction.
Fraction(a) == a[1] \in Nat /\ a[2] \in Nat /\ a[2] > 0

LEMMA ScoresAreFractions ==
    ASSUME NEW r \in Nat, NEW s \in Nat
    PROVE  Fraction(Score(r, s))
  <1>. DEFINE w(p) == IF p = 0 THEN 0 ELSE 1
              u == 60 + r
              v == 60 + s
  <1>1. u \in Nat /\ v \in Nat /\ 0 < v /\ 0 < u /\ w(r) \in Nat /\ w(s) \in Nat
    OBVIOUS
  <1>2. Score(r, s) = <<w(r) * v + w(s) * u, u * v>>
    BY DEF Score
  <1>. HIDE DEF u, v, w
  <1>3. w(r) * v \in Nat /\ w(s) * u \in Nat /\ u * v \in Nat
    BY <1>1, TimesTurns
  <1>4. 0 * v = 0 /\ 0 * v < u * v
    BY <1>1, TimesKeepsOrder
  <1>. QED  BY <1>2, <1>3, <1>4 DEF Fraction

LEMMA HigherIsWeakOrder ==
    ASSUME NEW a, NEW b, NEW c, Fraction(a), Fraction(b), Fraction(c)
    PROVE  /\ ~(Higher(a, b) /\ Higher(b, a))
           /\ ~Higher(b, a) /\ ~Higher(c, b) => ~Higher(c, a)
           /\ Higher(a, b) /\ ~Higher(c, b) => Higher(a, c)
           /\ ~Higher(b, a) /\ Higher(b, c) => Higher(a, c)
  <1>1. /\ b[1] * a[2] \in Nat /\ a[1] * b[2] \in Nat /\ c[1] * b[2] \in Nat
        /\ b[1] * c[2] \in Nat /\ c[1] * a[2] \in Nat /\ a[1] * c[2] \in Nat
    BY TimesTurns DEF Fraction
  <1>2. ASSUME b[1] * a[2] <= a[1] * b[2], c[1] * b[2] <= b[1] * c[2]
        PROVE  /\ c[1] * a[2] <= a[1] * c[2]
               /\ b[1] * a[2] < a[1] * b[2] \/ c[1] * b[2] < b[1] * c[2] =>
                    c[1] * a[2] < a[1] * c[2]
    BY <1>2, RatiosAreOrdered DEF Fraction
  <1>. QED  BY <1>1, <1>2 DEF Higher

LEMMA PlaceIs ==
    ASSUME NEW S, NEW s \in Seq(S), NEW id
    PROVE  /\ Place(s, id) \in Nat
           /\ id \in ToSet(s) => Place(s, id) \in 1 .. Len(s) /\ s[Place(s, id)] = id
  <1>1. Len(s) \in Nat /\ DOMAIN s = 1 .. Len(s)
    OBVIOUS
  <1>2. ASSUME id \in ToSet(s)
        PROVE  Place(s, id) \in 1 .. Len(s) /\ s[Place(s, id)] = id
    <2>1. \E n \in 1 .. Len(s) : s[n] = id
      BY <1>1, <1>2 DEF ToSet
    <2>. QED  BY <1>1, <1>2, <2>1 DEF Place
  <1>. QED  BY <1>1, <1>2 DEF Place

\* Whatever the scores are, the merged result lists each thought once.
LEMMA ByScoreLists ==
    ASSUME NEW S, IsFiniteSet(S), NEW score, DOMAIN score = S, \A i \in S : Fraction(score[i]),
           NEW met, \A i \in S : met[i] \in Nat, \A i, j \in S : met[i] = met[j] => i = j
    PROVE  Lists(ByScore(score, met), S)
  <1>. DEFINE R == {p \in S \X S : \/ Higher(score[p[1]], score[p[2]])
                                   \/ /\ ~Higher(score[p[2]], score[p[1]])
                                      /\ met[p[1]] < met[p[2]]}
  <1>1. \A i, j \in S : <<i, j>> \in R <=> \/ Higher(score[i], score[j])
                                           \/ ~Higher(score[j], score[i]) /\ met[i] < met[j]
    OBVIOUS
  <1>2. ByScore(score, met) = InOrder(S, R)
    BY DEF ByScore
  <1>. HIDE DEF R
  <1>3. ASSUME NEW i \in S PROVE <<i, i>> \notin R
    <2>1. ~Higher(score[i], score[i]) /\ ~(met[i] < met[i])
      BY HigherIsWeakOrder
    <2>. QED  BY <1>1, <2>1
  <1>4. ASSUME NEW i \in S, NEW j \in S, i # j PROVE <<i, j>> \in R \/ <<j, i>> \in R
    <2>1. met[i] < met[j] \/ met[j] < met[i]
      BY <1>4
    <2>. QED  BY <1>1, <2>1
  <1>5. ASSUME NEW i \in S, NEW j \in S, NEW k \in S, <<i, j>> \in R, <<j, k>> \in R
        PROVE  <<i, k>> \in R
    <2>1. /\ met[i] < met[j] /\ met[j] < met[k] => met[i] < met[k]
      OBVIOUS
    <2>2. /\ Higher(score[i], score[j]) \/ (~Higher(score[j], score[i]) /\ met[i] < met[j])
          /\ Higher(score[j], score[k]) \/ (~Higher(score[k], score[j]) /\ met[j] < met[k])
      BY <1>1, <1>5
    <2>3. /\ ~(Higher(score[i], score[j]) /\ Higher(score[j], score[i]))
          /\ ~(Higher(score[j], score[k]) /\ Higher(score[k], score[j]))
          /\ ~Higher(score[j], score[i]) /\ ~Higher(score[k], score[j]) => ~Higher(score[k], score[i])
          /\ Higher(score[i], score[j]) /\ ~Higher(score[k], score[j]) => Higher(score[i], score[k])
          /\ ~Higher(score[j], score[i]) /\ Higher(score[j], score[k]) => Higher(score[i], score[k])
      BY HigherIsWeakOrder
    <2>4. Higher(score[i], score[k]) \/ (~Higher(score[k], score[i]) /\ met[i] < met[k])
      BY <2>1, <2>2, <2>3
    <2>. QED  BY <1>1, <2>4
  <1>6. StrictOrder(R, S)
    BY <1>3, <1>4, <1>5 DEF StrictOrder
  <1>. QED  BY <1>2, <1>6, InOrderLists

-----------------------------------------------------------------------------
(* Pages deal a result out.                                                *)

LEMMA ListIs ==
    ASSUME NEW S, NEW s, Lists(s, S)
    PROVE  /\ s \in Seq(S) /\ Len(s) \in Nat /\ DOMAIN s = 1 .. Len(s)
           /\ \A i \in 1 .. Len(s) : s[i] \in S
           /\ \A m \in S : \E i \in 1 .. Len(s) : s[i] = m
  <1>1. s \in Seq(S) /\ Len(s) \in Nat /\ DOMAIN s = 1 .. Len(s)
    BY DEF Lists
  <1>2. \A m \in S : \E i \in 1 .. Len(s) : s[i] = m
    BY <1>1 DEF Lists, ToSet
  <1>. QED  BY <1>1, <1>2

LEMMA ListsAre ==
    ASSUME NEW S, NEW s \in Seq(S), \A m \in S : \E i \in 1 .. Len(s) : s[i] = m,
           \A i, j \in 1 .. Len(s) : s[i] = s[j] => i = j
    PROVE  Lists(s, S)
  <1>1. Len(s) \in Nat /\ DOMAIN s = 1 .. Len(s) /\ \A i \in 1 .. Len(s) : s[i] \in S
    OBVIOUS
  <1>2. ToSet(s) = S
    BY <1>1 DEF ToSet
  <1>3. \A i, j \in 1 .. Len(s) : i < j => s[i] # s[j]
    BY <1>1
  <1>4. Len(s) = Cardinality(ToSet(s))
    BY <1>3, DistinctCounts
  <1>. QED  BY <1>2, <1>4 DEF Lists

LEMMA AscendingIsList ==
    ASSUME NEW S \in SUBSET Nat, IsFiniteSet(S)
    PROVE  Lists(Ascending(S), S)
  <1>. DEFINE a == Ascending(S)
  <1>1. a \in Seq(S) /\ ToSet(a) = S /\ \A i, j \in 1 .. Len(a) : i < j => a[i] < a[j]
    BY AscendingLists
  <1>. HIDE DEF a
  <1>2. Len(a) \in Nat /\ DOMAIN a = 1 .. Len(a) /\ \A i \in 1 .. Len(a) : a[i] \in S
    BY <1>1
  <1>3. \A m \in S : \E i \in 1 .. Len(a) : a[i] = m
    BY <1>1, <1>2 DEF ToSet
  <1>4. \A i, j \in 1 .. Len(a) : a[i] = a[j] => i = j
    <2>1. SUFFICES ASSUME NEW i \in 1 .. Len(a), NEW j \in 1 .. Len(a), a[i] = a[j] PROVE i = j
      OBVIOUS
    <2>2. a[i] \in S
      BY <1>2
    <2>3. a[i] \in Nat
      BY <2>2
    <2>4. ~(a[i] < a[j]) /\ ~(a[j] < a[i])
      BY <2>1, <2>3
    <2>. QED  BY <1>1, <1>2, <2>4
  <1>5. Lists(a, S)
    BY <1>1, <1>3, <1>4, ListsAre
  <1>. QED  BY <1>5 DEF a

LEMMA ReverseIsList ==
    ASSUME NEW S, NEW s, Lists(s, S)
    PROVE  Lists(Reverse(s), S)
  <1>. DEFINE L == Len(s)
              r == Reverse(s)
  <1>1. /\ s \in Seq(S) /\ L \in Nat /\ \A i \in 1 .. L : s[i] \in S
        /\ \A m \in S : \E i \in 1 .. L : s[i] = m
        /\ \A i, j \in 1 .. L : s[i] = s[j] => i = j
    BY ListIs DEF Lists
  <1>2. r = [i \in 1 .. L |-> s[(L - i) + 1]]
    BY DEF Reverse
  <1>. HIDE DEF L, r
  <1>3. \A i \in 1 .. L : (L - i) + 1 \in 1 .. L
    BY <1>1
  <1>4. r \in Seq(S) /\ Len(r) = L
    <2>1. r \in [1 .. L -> S]
      BY <1>1, <1>2, <1>3
    <2>. QED  BY <1>1, <2>1
  <1>5. ASSUME NEW m \in S PROVE \E i \in 1 .. L : r[i] = m
    <2>1. PICK i \in 1 .. L : s[i] = m
      BY <1>1
    <2>2. (L - i) + 1 \in 1 .. L /\ (L - ((L - i) + 1)) + 1 = i
      BY <1>1
    <2>3. r[(L - i) + 1] = s[(L - ((L - i) + 1)) + 1]
      BY <1>2, <2>2
    <2>. QED  BY <2>1, <2>2, <2>3
  <1>6. ASSUME NEW i \in 1 .. L, NEW j \in 1 .. L, r[i] = r[j] PROVE i = j
    <2>1. s[(L - i) + 1] = s[(L - j) + 1]
      <3>1. r[i] = s[(L - i) + 1] /\ r[j] = s[(L - j) + 1]
        BY <1>2
      <3>. QED  BY <1>6, <3>1
    <2>2. (L - i) + 1 = (L - j) + 1
      BY <1>1, <1>3, <2>1
    <2>. QED  BY <1>1, <2>2
  <1>7. Lists(r, S)
    BY <1>4, <1>5, <1>6, ListsAre
  <1>. QED  BY <1>7 DEF r

\* Every place lies on some page.
LEMMA EveryPlaceHasItsPage ==
    ASSUME NEW limit \in Nat, limit > 0
    PROVE  \A i \in Nat : \E n \in Nat : limit * n <= i /\ i < limit * n + limit
  <1>. DEFINE On(i) == \E n \in Nat : limit * n <= i /\ i < limit * n + limit
              bad == {i \in Nat : ~On(i)}
  <1>1. On(0)
    <2>1. limit * 0 = 0
      OBVIOUS
    <2>. QED  BY <2>1
  <1>2. ASSUME NEW i \in Nat, On(i) PROVE On(i + 1)
    <2>1. PICK n \in Nat : limit * n <= i /\ i < limit * n + limit
      BY <1>2
    <2>2. limit * (n + 1) = limit * n + limit /\ limit * n \in Nat
      OBVIOUS
    <2>3. CASE i + 1 < limit * n + limit
      BY <2>1, <2>2, <2>3
    <2>4. CASE ~(i + 1 < limit * n + limit)
      <3>1. limit * (n + 1) = i + 1
        BY <2>1, <2>2, <2>4
      <3>. DEFINE next == n + 1
      <3>2. next \in Nat /\ limit * next <= i + 1 /\ i + 1 < limit * next + limit
        BY <3>1
      <3>. HIDE DEF next
      <3>. QED  BY <3>2
    <2>. QED  BY <2>3, <2>4
  <1>. HIDE DEF On
  <1>3. SUFFICES ASSUME bad # {} PROVE FALSE
    BY DEF On
  <1>4. PICK i \in bad : \A j \in bad : i <= j
    <2>1. bad \in SUBSET Nat
      OBVIOUS
    <2>. HIDE DEF bad
    <2>. QED  BY <1>3, <2>1, LeastOfNat
  <1>5. i \in Nat /\ ~On(i) /\ i # 0
    BY <1>1
  <1>6. i - 1 \in Nat /\ i - 1 \notin bad /\ (i - 1) + 1 = i
    BY <1>4, <1>5
  <1>. QED  BY <1>2, <1>5, <1>6

LEMMA PagesDealOut ==
    ASSUME NEW S, NEW all, Lists(all, S), NEW limit \in Nat, limit > 0,
           NEW page, \A offset \in Nat : page[offset] = Page(all, limit, offset)
    PROVE  PagesPartition(page, limit)
  <1>. DEFINE L == Len(all)
              pages == {<<n, page[limit * n]>> : n \in 0 .. L}
              shown == UNION {ToSet(p[2].rows) : p \in pages}
  <1>1. /\ all \in Seq(S) /\ L \in Nat /\ \A i \in 1 .. L : all[i] \in S
        /\ \A m \in S : \E i \in 1 .. L : all[i] = m
        /\ L = Cardinality(S)
    BY ListIs DEF Lists
  <1>2. ASSUME NEW o \in Nat
        PROVE  /\ page[o].total = L /\ page[o].rows \in Seq(S)
               /\ page[o].more <=> o + limit < L
               /\ Len(page[o].rows) = IF L <= o THEN 0 ELSE Fewer(L - o, limit)
               /\ \A i \in 1 .. Len(page[o].rows) :
                    o + i \in 1 .. L /\ page[o].rows[i] = all[o + i]
    <2>1. page[o] = Page(all, limit, o)
      OBVIOUS
    <2>2. Holds(Page(all, limit, o), S, all, limit, o)
      BY <1>1, PageTakes
    <2>. QED  BY <2>1, <2>2 DEF Holds
  <1>3. \A n \in Nat : limit * n \in Nat /\ limit * (n + 1) = limit * n + limit /\ n <= limit * n
    <2>1. ASSUME NEW n \in Nat PROVE 1 * n <= limit * n
      <3>1. 1 <= limit
        OBVIOUS
      <3>2. CASE n > 0
        BY <3>1, <3>2, TimesKeepsOrder
      <3>3. CASE n = 0
        BY <3>3
      <3>. QED  BY <3>2, <3>3
    <2>. QED  BY <2>1
  <1>. HIDE DEF L
  <1>4. ASSUME NEW m \in S PROVE m \in shown
    <2>1. PICK i \in 1 .. L : all[i] = m
      BY <1>1
    <2>2. PICK n \in Nat : limit * n <= i - 1 /\ i - 1 < limit * n + limit
      <3>1. i - 1 \in Nat
        BY <1>1
      <3>. QED  BY <3>1, EveryPlaceHasItsPage
    <2>. DEFINE o == limit * n
                p == page[o]
                k == i - o
    <2>3. o \in Nat /\ n <= o /\ o <= i - 1 /\ i - 1 < o + limit
      BY <1>3, <2>2
    <2>. HIDE DEF o
    <2>4. n \in 0 .. L /\ ~(L <= o) /\ k \in Nat /\ 1 <= k /\ o + k = i
          /\ k <= L - o /\ k <= limit
      BY <1>1, <2>3
    <2>5. k \in 1 .. Len(p.rows)
      <3>1. Len(page[o].rows) = Fewer(L - o, limit)
        BY <1>2, <2>3, <2>4
      <3>2. k <= Fewer(L - o, limit) /\ Fewer(L - o, limit) \in Nat
        BY <1>1, <2>3, <2>4 DEF Fewer
      <3>. QED  BY <2>4, <3>1, <3>2
    <2>6. p.rows[k] = m /\ p.rows \in Seq(S)
      BY <1>2, <2>1, <2>3, <2>4, <2>5
    <2>. HIDE DEF p, k
    <2>7. m \in ToSet(p.rows)
      BY <2>5, <2>6 DEF ToSet
    <2>8. <<n, p>> \in pages
      BY <2>4 DEF p, o
    <2>. HIDE DEF pages
    <2>. QED  BY <2>7, <2>8
  <1>5. ASSUME NEW m \in shown PROVE m \in S
    <2>1. PICK n \in 0 .. L : m \in ToSet(page[limit * n].rows)
      OBVIOUS
    <2>2. limit * n \in Nat
      BY <1>1, <1>3
    <2>3. page[limit * n].rows \in Seq(S)
      BY <1>2, <2>2
    <2>. QED  BY <2>1, <2>3 DEF ToSet
  <1>6. shown = S
    <2>. HIDE DEF shown
    <2>. QED  BY <1>4, <1>5
  <1>7. \A n \in 0 .. L : page[limit * n].more <=> limit * (n + 1) < L
    <2>1. SUFFICES ASSUME NEW n \in 0 .. L
                   PROVE  page[limit * n].more <=> limit * (n + 1) < L
      OBVIOUS
    <2>2. limit * n \in Nat /\ limit * (n + 1) = limit * n + limit
      BY <1>1, <1>3
    <2>. QED  BY <1>2, <2>2
  <1>8. page[0].total = L
    BY <1>2
  <1>9. Cardinality(shown) = L
    BY <1>1, <1>6
  <1>10. \A p \in pages : p[2].more <=> limit * (p[1] + 1) < L
    BY <1>7
  <1>. QED  BY <1>8, <1>9, <1>10 DEF PagesPartition

-----------------------------------------------------------------------------
(* The reads see what matches.                                             *)

Readable == DOMAIN thoughts \in SUBSET Ids /\ IsFiniteSet(DOMAIN thoughts)

LEMMA SomeThoughts ==
    ASSUME Readable, NEW S \in SUBSET DOMAIN thoughts
    PROVE  /\ IsFiniteSet(S) /\ S \in SUBSET Nat
           /\ \A id \in S : About[id].match \in Nat /\ About[id].near \in Nat
  <1>1. IsFiniteSet(S)
    BY FS_Subset DEF Readable
  <1>2. S \in SUBSET Ids /\ Ids \in SUBSET Nat
    BY LibraryAssumption DEF Readable
  <1>. QED  BY <1>1, <1>2, LibraryAssumption

LEMMA MatchingIs ==
    ASSUME Readable, NEW scope, NEW filter
    PROVE  /\ Matching(scope, filter) \in SUBSET DOMAIN thoughts
           /\ IsFiniteSet(Matching(scope, filter)) /\ Matching(scope, filter) \in SUBSET Nat
  <1>1. Matching(scope, filter) \in SUBSET DOMAIN thoughts
    BY DEF Matching
  <1>. QED  BY <1>1, SomeThoughts

\* Each once.
Distinct(s) == \A i, j \in 1 .. Len(s) : s[i] = s[j] => i = j

LEMMA PageIsPart ==
    ASSUME NEW S, NEW all \in Seq(S), NEW limit \in Nat, NEW offset \in Nat
    PROVE  /\ Page(all, limit, offset).rows \in Seq(S)
           /\ Distinct(all) => Distinct(Page(all, limit, offset).rows)
           /\ \A id \in ToSet(Page(all, limit, offset).rows) : id \in S
  <1>. DEFINE p == Page(all, limit, offset)
  <1>1. /\ p.rows \in Seq(S)
        /\ \A i \in 1 .. Len(p.rows) :
             offset + i \in 1 .. Len(all) /\ p.rows[i] = all[offset + i]
    BY PageTakes DEF Holds
  <1>. HIDE DEF p
  <1>2. ASSUME Distinct(all), NEW i \in 1 .. Len(p.rows), NEW j \in 1 .. Len(p.rows),
               p.rows[i] = p.rows[j]
        PROVE  i = j
    <2>1. /\ offset + i \in 1 .. Len(all) /\ offset + j \in 1 .. Len(all)
          /\ all[offset + i] = all[offset + j]
      BY <1>1, <1>2
    <2>2. offset + i = offset + j
      BY <1>2, <2>1 DEF Distinct
    <2>. QED  BY <2>2
  <1>3. Distinct(all) => Distinct(p.rows)
    BY <1>2 DEF Distinct
  <1>4. ASSUME NEW id \in ToSet(p.rows) PROVE id \in S
    <2>1. Len(p.rows) \in Nat /\ DOMAIN p.rows = 1 .. Len(p.rows)
      BY <1>1
    <2>2. PICK i \in 1 .. Len(p.rows) : p.rows[i] = id
      BY <2>1 DEF ToSet
    <2>. QED  BY <1>1, <2>2
  <1>. QED  BY <1>1, <1>3, <1>4 DEF p

Listing(scope, filter) == Reverse(Ascending(Matching(scope, filter)))

LEMMA ListingIs ==
    ASSUME Readable, NEW scope, NEW filter
    PROVE  /\ Lists(Listing(scope, filter), Matching(scope, filter))
           /\ \A limit, offset :
                List(scope, filter, limit, offset) = Page(Listing(scope, filter), limit, offset)
  <1>1. Lists(Ascending(Matching(scope, filter)), Matching(scope, filter))
    BY MatchingIs, AscendingIsList
  <1>2. Lists(Listing(scope, filter), Matching(scope, filter))
    BY <1>1, ReverseIsList DEF Listing
  <1>. QED  BY <1>2 DEF List, Listing

WithWords(scope, filter) == {id \in Matching(scope, filter) : About[id].match > 0}
ByMatch(scope, filter) ==
    HighestFirst([id \in WithWords(scope, filter) |-> <<-About[id].match, -id>>])

LEMMA ByMatchIs ==
    ASSUME Readable, NEW scope, NEW filter
    PROVE  /\ Lists(ByMatch(scope, filter), WithWords(scope, filter))
           /\ \A limit, offset :
                Keyword(scope, filter, limit, offset) = Page(ByMatch(scope, filter), limit, offset)
  <1>. DEFINE S == WithWords(scope, filter)
              f == [id \in S |-> About[id].match]
              key == [id \in S |-> <<-f[id], -id>>]
  <1>1. S \in SUBSET DOMAIN thoughts
    BY MatchingIs DEF WithWords
  <1>2. IsFiniteSet(S) /\ S \in SUBSET Nat /\ \A id \in S : f[id] \in Nat
    BY <1>1, SomeThoughts
  <1>3. key = [id \in S |-> <<-About[id].match, -id>>]
    OBVIOUS
  <1>. HIDE DEF S, f
  <1>4. Keyed(key, 2) /\ DOMAIN key = S
    BY <1>2, PairsKey
  <1>. HIDE DEF key
  <1>5. Lists(HighestFirst(key), S)
    <2>1. IsFiniteSet(DOMAIN key)
      BY <1>2, <1>4
    <2>2. Lists(HighestFirst(key), DOMAIN key)
      BY <1>4, <2>1, HighestFirstLists
    <2>. QED  BY <1>4, <2>2
  <1>6. HighestFirst(key) = ByMatch(scope, filter)
    BY <1>3 DEF ByMatch, S
  <1>. QED  BY <1>5, <1>6 DEF Keyword, ByMatch, WithWords, S

Close(eligible) == {id \in DOMAIN thoughts \cap eligible : About[id].near > 0}
ByNear(eligible) == HighestFirst([id \in Close(eligible) |-> <<-About[id].near, -id>>])

LEMMA ByNearIs ==
    ASSUME Readable, NEW eligible
    PROVE  /\ Lists(ByNear(eligible), Close(eligible))
           /\ \A i, j \in 1 .. Len(ByNear(eligible)) :
                i < j => About[ByNear(eligible)[i]].near <= About[ByNear(eligible)[j]].near
           /\ \A limit : Nearest(eligible, limit) = First(ByNear(eligible), limit)
  <1>. DEFINE S == Close(eligible)
              f == [id \in S |-> About[id].near]
              key == [id \in S |-> <<-f[id], -id>>]
              s == HighestFirst(key)
  <1>1. S \in SUBSET DOMAIN thoughts
    BY DEF Close
  <1>2. IsFiniteSet(S) /\ S \in SUBSET Nat /\ \A id \in S : f[id] \in Nat
    BY <1>1, SomeThoughts
  <1>3. key = [id \in S |-> <<-About[id].near, -id>>]
    OBVIOUS
  <1>4. \A id \in S : key[id] = <<-f[id], -id>> /\ f[id] = About[id].near
    OBVIOUS
  <1>. HIDE DEF S, f
  <1>5. Keyed(key, 2) /\ DOMAIN key = S
    BY <1>2, PairsKey
  <1>. HIDE DEF key
  <1>6. /\ Lists(s, S)
        /\ \A i, j \in 1 .. Len(s) : i < j => Above(key[s[i]], key[s[j]])
    <2>1. IsFiniteSet(DOMAIN key)
      BY <1>2, <1>5
    <2>2. /\ Lists(s, DOMAIN key)
          /\ \A i, j \in 1 .. Len(s) : i < j => Above(key[s[i]], key[s[j]])
      BY <1>5, <2>1, HighestFirstLists
    <2>. QED  BY <1>5, <2>2
  <1>7. s = ByNear(eligible)
    BY <1>3 DEF ByNear, S
  <1>. HIDE DEF s
  <1>8. ASSUME NEW i \in 1 .. Len(s), NEW j \in 1 .. Len(s), i < j
        PROVE  About[s[i]].near <= About[s[j]].near
    <2>1. s[i] \in S /\ s[j] \in S
      BY <1>6, ListIs
    <2>2. Above(<<-f[s[i]], -s[i]>>, <<-f[s[j]], -s[j]>>)
      BY <1>4, <1>6, <1>8, <2>1
    <2>3. f[s[i]] \in Nat /\ f[s[j]] \in Nat /\ s[i] \in Nat /\ s[j] \in Nat
      BY <1>2, <2>1
    <2>4. f[s[i]] <= f[s[j]]
      BY <2>2, <2>3, PairsAbove
    <2>. QED  BY <1>4, <2>1, <2>4
  <1>9. \A limit : Nearest(eligible, limit) = First(ByNear(eligible), limit)
    BY DEF Nearest, ByNear, Close
  <1>. QED  BY <1>6, <1>7, <1>8, <1>9 DEF S

LEMMA FirstIsPart ==
    ASSUME NEW S, NEW s \in Seq(S), NEW limit \in Nat
    PROVE  First(s, limit) \in Seq(S) /\ (Distinct(s) => Distinct(First(s, limit)))
  <1>. DEFINE r == First(s, limit)
  <1>1. /\ r \in Seq(S) /\ Len(r) \in Nat /\ Len(r) <= Len(s)
        /\ \A i \in 1 .. Len(r) : r[i] = s[i]
    BY FirstTakes
  <1>. HIDE DEF r
  <1>2. \A i \in 1 .. Len(r) : i \in 1 .. Len(s)
    BY <1>1
  <1>3. Distinct(s) => Distinct(r)
    BY <1>1, <1>2 DEF Distinct
  <1>. QED  BY <1>1, <1>3 DEF r

LEMMA SeqWidens ==
    ASSUME NEW T, NEW S \in SUBSET T, NEW s \in Seq(S)
    PROVE  s \in Seq(T)
  <1>1. Len(s) \in Nat /\ s = [i \in 1 .. Len(s) |-> s[i]] /\ \A i \in 1 .. Len(s) : s[i] \in S
    OBVIOUS
  <1>2. s \in [1 .. Len(s) -> T]
    BY <1>1
  <1>. QED  BY <1>1, <1>2

LEMMA VectorSees ==
    ASSUME Readable, NEW scope, NEW filter, NEW limit \in Nat, MaxRows \in Nat
    PROVE  \A id \in ToSet(Vector(scope, filter, limit).rows) : id \in Matching(scope, filter)
  <1>. DEFINE M == Matching(scope, filter)
              narrowed == \/ Wanted(scope) # None \/ scope.sharedOnly
                          \/ filter.type # None \/ filter.path # None
              size == IF narrowed THEN MaxRows ELSE limit
              pool == Nearest(Eligible(scope, filter), size)
              kept == {n \in DOMAIN pool : pool[n] \in M}
              r == RowsAt(pool, kept)
  <1>1. Vector(scope, filter, limit) = Page(r, limit, 0)
    BY DEF Vector
  <1>2. pool \in Seq(Close(Eligible(scope, filter)))
    <2>1. ByNear(Eligible(scope, filter)) \in Seq(Close(Eligible(scope, filter)))
      BY ByNearIs, ListIs
    <2>2. size \in Nat
      OBVIOUS
    <2>3. pool = First(ByNear(Eligible(scope, filter)), size)
      BY ByNearIs
    <2>. HIDE DEF pool, size
    <2>. QED  BY <2>1, <2>2, <2>3, FirstIsPart
  <1>. HIDE DEF pool
  <1>3. kept \in SUBSET (1 .. Len(pool)) /\ \A n \in kept : pool[n] \in M
    BY <1>2
  <1>. HIDE DEF kept, M
  <1>4. /\ r \in Seq(Close(Eligible(scope, filter))) /\ Len(r) = Cardinality(kept)
        /\ Ascending(kept) \in Seq(kept) /\ Len(Ascending(kept)) = Cardinality(kept)
        /\ \A i \in 1 .. Cardinality(kept) : r[i] = pool[Ascending(kept)[i]]
    BY <1>2, <1>3, RowsAtAre
  <1>. HIDE DEF r
  <1>5. \A i \in 1 .. Len(r) : r[i] \in M
    <2>1. \A i \in 1 .. Len(Ascending(kept)) : Ascending(kept)[i] \in kept
      BY <1>4
    <2>. QED  BY <1>3, <1>4, <2>1
  <1>6. r \in Seq(M)
    <2>1. Len(r) \in Nat /\ r = [i \in 1 .. Len(r) |-> r[i]]
      BY <1>4
    <2>2. r \in [1 .. Len(r) -> M]
      BY <1>5, <2>1
    <2>. QED  BY <2>1, <2>2
  <1>7. 0 \in Nat
    OBVIOUS
  <1>8. \A id \in ToSet(Page(r, limit, 0).rows) : id \in M
    BY <1>6, <1>7, PageIsPart
  <1>. QED  BY <1>1, <1>8 DEF M

\* The merged result of a hybrid search, of which a page is shown.
Merged(scope, filter, limit) ==
    LET size == IF 3 * limit < MaxRows THEN 3 * limit ELSE MaxRows
    IN  Fused(Keyword(scope, filter, size, 0).rows,
              Nearest(Eligible(scope, filter), size), Matching(scope, filter))

LEMMA FusedIsList ==
    ASSUME NEW S, NEW words \in Seq(S), NEW near \in Seq(S), Distinct(words), Distinct(near),
           NEW wanted
    PROVE  \E both \in SUBSET wanted : IsFiniteSet(both) /\ Lists(Fused(words, near, wanted), both)
  <1>. DEFINE both == (ToSet(words) \cup ToSet(near)) \cap wanted
              score == [id \in both |-> Score(Place(words, id), Place(near, id))]
              met == [id \in both |-> IF id \in ToSet(words) THEN Place(words, id)
                                      ELSE Len(words) + Place(near, id)]
  <1>1. Fused(words, near, wanted) = ByScore(score, met)
    BY DEF Fused
  <1>2. /\ \A id : Place(words, id) \in Nat /\ Place(near, id) \in Nat
        /\ \A id \in ToSet(words) : Place(words, id) \in 1 .. Len(words)
                                    /\ words[Place(words, id)] = id
        /\ \A id \in ToSet(near) : Place(near, id) \in 1 .. Len(near)
                                   /\ near[Place(near, id)] = id
    BY PlaceIs
  <1>3. Len(words) \in Nat /\ Len(near) \in Nat
    OBVIOUS
  <1>4. IsFiniteSet(both)
    <2>1. \A i, j \in 1 .. Len(words) : i < j => words[i] # words[j]
      BY <1>3 DEF Distinct
    <2>2. \A i, j \in 1 .. Len(near) : i < j => near[i] # near[j]
      BY <1>3 DEF Distinct
    <2>3. IsFiniteSet(ToSet(words)) /\ IsFiniteSet(ToSet(near))
      BY <2>1, <2>2, DistinctCounts
    <2>4. IsFiniteSet(ToSet(words) \cup ToSet(near))
      BY <2>3, FS_Union
    <2>. QED  BY <2>4, FS_Subset
  <1>5. \A id \in both : score[id] = Score(Place(words, id), Place(near, id))
    OBVIOUS
  <1>6. \A id \in both : met[id] = IF id \in ToSet(words) THEN Place(words, id)
                                   ELSE Len(words) + Place(near, id)
    OBVIOUS
  <1>7. DOMAIN score = both /\ both \in SUBSET wanted
    OBVIOUS
  <1>8. \A id \in both : id \in ToSet(words) \/ id \in ToSet(near)
    OBVIOUS
  <1>. HIDE DEF both, score, met
  <1>9. \A id \in both : Fraction(score[id])
    BY <1>2, <1>5, ScoresAreFractions
  <1>10. \A id \in both : met[id] \in Nat
    <2>1. SUFFICES ASSUME NEW id \in both PROVE met[id] \in Nat
      OBVIOUS
    <2>2. Place(words, id) \in Nat /\ Place(near, id) \in Nat
      BY <1>2
    <2>3. CASE id \in ToSet(words)
      BY <1>6, <2>2, <2>3
    <2>4. CASE id \notin ToSet(words)
      <3>1. met[id] = Len(words) + Place(near, id)
        BY <1>6, <2>4
      <3>. QED  BY <1>3, <2>2, <3>1
    <2>. QED  BY <2>3, <2>4
  <1>11. ASSUME NEW i \in both, NEW j \in both, met[i] = met[j] PROVE i = j
    <2>1. /\ Place(words, i) \in Nat /\ Place(words, j) \in Nat
          /\ Place(near, i) \in Nat /\ Place(near, j) \in Nat
      BY <1>2
    <2>2. CASE i \in ToSet(words) /\ j \in ToSet(words)
      <3>1. Place(words, i) = Place(words, j)
        BY <1>6, <1>11, <2>2
      <3>. QED  BY <1>2, <2>2, <3>1
    <2>3. CASE i \in ToSet(words) /\ j \notin ToSet(words)
      <3>1. Place(words, i) = Len(words) + Place(near, j)
        BY <1>6, <1>11, <2>3
      <3>2. Place(words, i) \in 1 .. Len(words) /\ Place(near, j) \in 1 .. Len(near)
        BY <1>2, <1>8, <2>3
      <3>. QED  BY <1>3, <3>1, <3>2
    <2>4. CASE i \notin ToSet(words) /\ j \in ToSet(words)
      <3>1. Place(words, j) = Len(words) + Place(near, i)
        BY <1>6, <1>11, <2>4
      <3>2. Place(words, j) \in 1 .. Len(words) /\ Place(near, i) \in 1 .. Len(near)
        BY <1>2, <1>8, <2>4
      <3>. QED  BY <1>3, <3>1, <3>2
    <2>5. CASE i \notin ToSet(words) /\ j \notin ToSet(words)
      <3>1. Len(words) + Place(near, i) = Len(words) + Place(near, j)
        BY <1>6, <1>11, <2>5
      <3>2. Place(near, i) = Place(near, j)
        BY <1>3, <2>1, <3>1
      <3>. QED  BY <1>2, <1>8, <2>5, <3>2
    <2>. QED  BY <2>2, <2>3, <2>4, <2>5
  <1>12. Lists(ByScore(score, met), both)
    BY <1>4, <1>7, <1>9, <1>10, <1>11, ByScoreLists
  <1>. QED  BY <1>1, <1>4, <1>7, <1>12

LEMMA MergedIs ==
    ASSUME Readable, NEW scope, NEW filter, NEW limit \in Nat, MaxRows \in Nat
    PROVE  /\ \E both \in SUBSET Matching(scope, filter) :
                IsFiniteSet(both) /\ Lists(Merged(scope, filter, limit), both)
           /\ \A offset \in Nat :
                Hybrid(scope, filter, limit, offset)
                    = Page(Merged(scope, filter, limit), limit, offset)
  <1>. DEFINE size == IF 3 * limit < MaxRows THEN 3 * limit ELSE MaxRows
              words == Keyword(scope, filter, size, 0).rows
              near == Nearest(Eligible(scope, filter), size)
  <1>1. size \in Nat /\ 0 \in Nat
    OBVIOUS
  <1>2. Merged(scope, filter, limit) = Fused(words, near, Matching(scope, filter))
    BY DEF Merged
  <1>3. \A offset \in Nat :
          Hybrid(scope, filter, limit, offset) = Page(Merged(scope, filter, limit), limit, offset)
    <2>1. \A offset \in Nat : offset >= 0
      OBVIOUS
    <2>. QED  BY <1>2, <2>1 DEF Hybrid
  <1>. HIDE DEF size
  <1>4. words \in Seq(Nat) /\ Distinct(words)
    <2>. DEFINE all == ByMatch(scope, filter)
                S == WithWords(scope, filter)
    <2>1. Lists(all, S) /\ words = Page(all, size, 0).rows
      BY ByMatchIs
    <2>2. all \in Seq(S) /\ Distinct(all)
      BY <2>1, ListIs DEF Lists, Distinct
    <2>3. S \in SUBSET Nat
      BY MatchingIs DEF WithWords
    <2>. HIDE DEF all, S, words
    <2>4. words \in Seq(S) /\ Distinct(words)
      BY <1>1, <2>1, <2>2, PageIsPart
    <2>. QED  BY <2>3, <2>4, SeqWidens
  <1>5. near \in Seq(Nat) /\ Distinct(near)
    <2>. DEFINE all == ByNear(Eligible(scope, filter))
                S == Close(Eligible(scope, filter))
    <2>1. Lists(all, S) /\ near = First(all, size)
      BY ByNearIs
    <2>2. all \in Seq(S) /\ Distinct(all)
      BY <2>1, ListIs DEF Lists, Distinct
    <2>3. S \in SUBSET Nat
      <3>1. S \in SUBSET DOMAIN thoughts
        BY DEF Close
      <3>. QED  BY <3>1, SomeThoughts
    <2>. HIDE DEF all, S, near
    <2>4. near \in Seq(S) /\ Distinct(near)
      BY <1>1, <2>1, <2>2, FirstIsPart
    <2>. QED  BY <2>3, <2>4, SeqWidens
  <1>. HIDE DEF words, near
  <1>6. \E both \in SUBSET Matching(scope, filter) :
          IsFiniteSet(both) /\ Lists(Fused(words, near, Matching(scope, filter)), both)
    BY <1>4, <1>5, FusedIsList
  <1>. QED  BY <1>2, <1>3, <1>6

\* select_context with one type at most.
LEMMA ContextSees ==
    ASSUME Readable, NEW scope, NEW filter, NEW limit \in Nat,
           filter = [type |-> filter.type, topic |-> filter.topic, path |-> filter.path,
                     others |-> filter.others],
           NEW types, types = IF filter.type = None THEN <<>> ELSE <<filter.type>>
    PROVE  \A id \in ToSet(Context(scope, types, filter, limit)) :
             id \in Matching(ContextScope(scope), filter)
  <1>. DEFINE M == Matching(ContextScope(scope), filter)
              rows(type) == List(ContextScope(scope), [filter EXCEPT !.type = type], limit, 0).rows
              pool == IF types = <<>> THEN rows(None)
                      ELSE FlattenSeq([n \in DOMAIN types |-> rows(types[n])])
              once == {n \in DOMAIN pool : \A m \in 1 .. n - 1 : pool[m] # pool[n]}
              all == Listing(ContextScope(scope), filter)
              p == Page(all, limit, 0).rows
  <1>1. Context(scope, types, filter, limit) = First(RowsAt(pool, once), limit)
    BY DEF Context
  <1>2. p \in Seq(M)
    <2>1. all \in Seq(M)
      BY ListingIs, ListIs
    <2>2. 0 \in Nat
      OBVIOUS
    <2>. HIDE DEF all, M
    <2>. QED  BY <2>1, <2>2, PageIsPart
  <1>3. rows(filter.type) = p
    <2>1. [filter EXCEPT !.type = filter.type] = filter
      OBVIOUS
    <2>. QED  BY <2>1, ListingIs
  <1>4. pool = p
    <2>1. CASE filter.type = None
      BY <1>3, <2>1
    <2>2. CASE filter.type # None
      <3>. DEFINE seqs == [n \in DOMAIN types |-> rows(types[n])]
      <3>1. types = <<filter.type>> /\ types # <<>> /\ DOMAIN types = 1 .. 1 /\ types[1] = filter.type
        BY <2>2
      <3>2. pool = FlattenSeq(seqs)
        BY <3>1
      <3>3. seqs = [n \in 1 .. 1 |-> p]
        BY <1>3, <3>1
      <3>. HIDE DEF seqs, pool, p
      <3>4. Len(seqs) = 1 /\ seqs[1] = p
        <4>1. seqs \in [1 .. 1 -> {p}]
          BY <3>3
        <4>. QED  BY <3>3, <4>1
      <3>. DEFINE Step(f) == [i \in 1 .. 1 |-> IF i = 1 THEN seqs[i] ELSE f[i - 1] \o seqs[i]]
                  flatten == CHOOSE f : f = Step(f)
                  g == [i \in 1 .. 1 |-> p]
      <3>5. g = Step(g)
        BY <3>4
      <3>. HIDE DEF g
      <3>6. flatten = Step(flatten)
        BY <3>5
      <3>. HIDE DEF flatten
      <3>7. flatten[1] = p
        BY <3>4, <3>6
      <3>8. FlattenSeq(seqs) = flatten[1]
        BY <3>4 DEF FlattenSeq, flatten
      <3>. QED  BY <3>2, <3>7, <3>8
    <2>. QED  BY <2>1, <2>2
  <1>. HIDE DEF pool, p, M
  <1>5. pool \in Seq(M) /\ once \in SUBSET (1 .. Len(pool))
    BY <1>2, <1>4
  <1>. HIDE DEF once
  <1>6. RowsAt(pool, once) \in Seq(M)
    BY <1>5, RowsAtAre
  <1>7. First(RowsAt(pool, once), limit) \in Seq(M)
    BY <1>6, FirstIsPart
  <1>8. \A id \in ToSet(First(RowsAt(pool, once), limit)) : id \in M
    <2>. DEFINE r == First(RowsAt(pool, once), limit)
    <2>1. r \in Seq(M)
      BY <1>7
    <2>. HIDE DEF r
    <2>2. \A id \in ToSet(r) : id \in M
      BY <2>1 DEF ToSet
    <2>. QED  BY <2>2 DEF r
  <1>. QED  BY <1>1, <1>8 DEF M

\* The scopes that the arguments and roots of a call amount to.
Scoped(scope) ==
    /\ scope = [kind |-> scope.kind, pid |-> scope.pid, shared |-> scope.shared,
                sharedOnly |-> scope.sharedOnly, all |-> scope.all]
    /\ scope.shared \in BOOLEAN /\ scope.sharedOnly \in BOOLEAN /\ scope.all \in BOOLEAN
    /\ scope.pid = None => scope.all \/ scope.sharedOnly

LEMMA ScopesAre ==
    ASSUME NEW scope \in Scopes
    PROVE  Scoped(scope)
  <1>1. PICK args \in ReadArgs, roots \in RootSets :
          scope = DefaultScope(args, roots) /\ scope.kind = "applied"
    BY DEF Scopes
  <1>2. args \in ScopeArgs
    BY LibraryAssumption
  <1>3. args.shared \in BOOLEAN \cup {None} /\ args.sharedOnly \in BOOLEAN /\ args.all \in BOOLEAN
    BY <1>2 DEF ScopeArgs
  <1>. DEFINE named == Reference(args.pid, args.slug)
              found == ProjectOf(ResolveScope(roots))
  <1>4. named.kind = "resolved" => named.pid # None
    BY <1>2 DEF Reference, ScopeArgs
  <1>7. named.kind # "applied"
    BY DEF Reference
  <1>5. scope = ScopeOf(args, named, found)
    BY <1>1 DEF DefaultScope
  <1>. HIDE DEF named, found
  <1>6. \/ named.kind = "resolved" /\ scope = Applied(named.pid, args, TRUE, args.sharedOnly)
        \/ args.all /\ scope = Applied(None, args, FALSE, args.sharedOnly)
        \/ found # None /\ scope = Applied(found, args, TRUE, args.sharedOnly)
        \/ scope = Applied(None, args, FALSE, TRUE)
    <2>1. CASE named.kind = "resolved"
      BY <1>5, <2>1 DEF ScopeOf
    <2>2. CASE named.kind = "unresolved"
      BY <1>3, <1>5, <2>2 DEF ScopeOf
    <2>3. CASE named.kind \notin {"resolved", "unresolved"}
      <3>1. scope = [kind |-> named.kind]
        BY <1>5, <2>3 DEF ScopeOf
      <3>2. scope.kind = named.kind
        BY <3>1
      <3>. QED  BY <1>1, <1>7, <3>2
    <2>. QED  BY <2>1, <2>2, <2>3
  <1>8. \A b \in BOOLEAN : Or(args.shared, b) \in BOOLEAN
    BY <1>3 DEF Or
  <1>9. ASSUME NEW pid, NEW b \in BOOLEAN, NEW only \in BOOLEAN,
               scope = Applied(pid, args, b, only), pid = None => args.all \/ only
        PROVE  Scoped(scope)
    <2>. DEFINE o == Or(args.shared, b)
    <2>1. o \in BOOLEAN
      BY <1>8
    <2>2. scope = [kind |-> "applied", pid |-> pid, shared |-> o, sharedOnly |-> only,
                   all |-> args.all]
      BY <1>9 DEF Applied
    <2>. HIDE DEF o
    <2>. QED  BY <1>3, <1>9, <2>1, <2>2 DEF Scoped
  <1>. QED  BY <1>3, <1>4, <1>6, <1>9

\* The conditions of the SQL keep the thoughts that the scope means.
LEMMA MatchingMeans ==
    ASSUME NEW scope, Scoped(scope), NEW filter
    PROVE  Matching(scope, filter) = ItsThoughts(scope, filter)
  <1>1. SUFFICES ASSUME NEW id \in DOMAIN thoughts
                 PROVE  InScope(id, scope) <=> InItsScope(id, scope)
    BY DEF Matching, ItsThoughts
  <1>2. Wanted(scope) = None => scope.all \/ scope.sharedOnly
    BY DEF Wanted, Scoped
  <1>3. scope.all => Wanted(scope) = None
    BY DEF Wanted
  <1>. QED  BY <1>2, <1>3 DEF InScope, InItsScope

\* What a context finds beyond that is the project's own.
LEMMA ContextMeans ==
    ASSUME NEW scope, Scoped(scope), NEW filter,
           NEW id, id \in Matching(ContextScope(scope), filter)
    PROVE  \/ id \in ItsThoughts(scope, filter)
           \/ /\ scope.sharedOnly /\ Wanted(scope) # None
              /\ thoughts[id].pid = Wanted(scope) /\ Passes(id, filter)
  <1>. DEFINE narrow == ContextScope(scope)
  <1>1. /\ narrow.pid = scope.pid /\ narrow.all = scope.all /\ narrow.shared = scope.shared
        /\ narrow.sharedOnly = (scope.sharedOnly /\ Wanted(scope) = None)
    BY DEF Scoped, ContextScope
  <1>. HIDE DEF narrow
  <1>2. Wanted(narrow) = Wanted(scope)
    BY <1>1 DEF Wanted
  <1>3. id \in DOMAIN thoughts /\ Passes(id, filter) /\ InScope(id, narrow)
    BY DEF Matching, narrow
  <1>4. CASE Wanted(scope) # None
    BY <1>1, <1>2, <1>3, <1>4 DEF InScope, InItsScope, ItsThoughts
  <1>5. CASE Wanted(scope) = None
    <2>1. InScope(id, scope)
      BY <1>1, <1>2, <1>3, <1>5 DEF InScope
    <2>2. id \in Matching(scope, filter)
      BY <1>3, <2>1 DEF Matching
    <2>. QED  BY <2>2, MatchingMeans
  <1>. QED  BY <1>4, <1>5

LEMMA ScopeIsKept ==
    ASSUME Readable, NEW scope, Scoped(scope), NEW filter, NEW limit \in Nat, MaxRows \in Nat,
           filter = [type |-> filter.type, topic |-> filter.topic, path |-> filter.path,
                     others |-> filter.others]
    PROVE  SeesItsScope(scope, filter, limit)
  <1>. DEFINE M == Matching(scope, filter)
              types == IF filter.type = None THEN <<>> ELSE <<filter.type>>
              Among(rows) == \A id \in ToSet(rows) : id \in M
  <1>1. 0 \in Nat /\ M = ItsThoughts(scope, filter)
    BY MatchingMeans
  <1>2. /\ Among(List(scope, filter, limit, 0).rows)
        /\ List(scope, filter, limit, 0).total = Cardinality(M)
    <2>. DEFINE all == Listing(scope, filter)
    <2>1. Lists(all, M) /\ List(scope, filter, limit, 0) = Page(all, limit, 0)
      BY ListingIs
    <2>. HIDE DEF all, M
    <2>2. all \in Seq(M) /\ Len(all) = Cardinality(M)
      BY <2>1 DEF Lists
    <2>3. Page(all, limit, 0).total = Len(all)
      BY DEF Page
    <2>. QED  BY <1>1, <2>1, <2>2, <2>3, PageIsPart
  <1>3. Among(Keyword(scope, filter, limit, 0).rows)
    <2>. DEFINE all == ByMatch(scope, filter)
    <2>1. /\ all \in Seq(WithWords(scope, filter))
          /\ Keyword(scope, filter, limit, 0) = Page(all, limit, 0)
      BY ByMatchIs, ListIs
    <2>2. \A id \in WithWords(scope, filter) : id \in M
      BY DEF WithWords
    <2>. HIDE DEF all, M
    <2>. QED  BY <1>1, <2>1, <2>2, PageIsPart
  <1>4. Among(Vector(scope, filter, limit).rows)
    BY VectorSees
  <1>5. Among(Hybrid(scope, filter, limit, 0).rows)
    <2>. DEFINE all == Merged(scope, filter, limit)
    <2>1. PICK both \in SUBSET M : Lists(all, both)
      BY MergedIs
    <2>2. all \in Seq(both) /\ Hybrid(scope, filter, limit, 0) = Page(all, limit, 0)
      BY <1>1, <2>1, MergedIs, ListIs
    <2>. HIDE DEF all, M
    <2>. QED  BY <1>1, <2>1, <2>2, PageIsPart
  <1>6. \A id \in ToSet(Context(scope, types, filter, limit)) :
          id \in Matching(ContextScope(scope), filter)
    BY ContextSees
  <1>7. ASSUME NEW id \in ToSet(Context(scope, types, filter, limit))
        PROVE  \/ id \in ItsThoughts(scope, filter)
               \/ /\ scope.sharedOnly /\ Wanted(scope) # None
                  /\ thoughts[id].pid = Wanted(scope) /\ Passes(id, filter)
    <2>1. id \in Matching(ContextScope(scope), filter)
      BY <1>6
    <2>. QED  BY <2>1, ContextMeans
  <1>. HIDE DEF M
  <1>8. \A rows \in {List(scope, filter, limit, 0).rows, Keyword(scope, filter, limit, 0).rows,
                     Vector(scope, filter, limit).rows, Hybrid(scope, filter, limit, 0).rows} :
          ToSet(rows) \subseteq ItsThoughts(scope, filter)
    BY <1>1, <1>2, <1>3, <1>4, <1>5
  <1>9. List(scope, filter, limit, 0).total = Cardinality(ItsThoughts(scope, filter))
    BY <1>1, <1>2
  <1>. QED  BY <1>7, <1>8, <1>9 DEF SeesItsScope

LEMMA NearestAreFound ==
    ASSUME Readable, NEW scope, Scoped(scope), NEW filter, MaxRows \in Nat,
           NEW limit \in Nat, limit <= MaxRows
    PROVE  FindsTheNearest(scope, filter, limit)
  <1>. DEFINE M == Matching(scope, filter)
              all == {id \in M : About[id].near > 0}
              full == ByNear(Eligible(scope, filter))
              narrowed == \/ Wanted(scope) # None \/ scope.sharedOnly
                          \/ filter.type # None \/ filter.path # None
              size == IF narrowed THEN MaxRows ELSE limit
              pool == First(full, size)
              kept == {n \in DOMAIN pool : pool[n] \in M}
              r == RowsAt(pool, kept)
              shown == Page(r, limit, 0).rows
  <1>1. size \in Nat /\ limit <= size
    OBVIOUS
  <1>2. Close(Eligible(scope, filter)) = all
    <2>1. M \in SUBSET DOMAIN thoughts
      BY MatchingIs
    <2>. QED  BY <2>1 DEF Close, Eligible
  <1>3. /\ Lists(full, all)
        /\ \A i, j \in 1 .. Len(full) : i < j => About[full[i]].near <= About[full[j]].near
        /\ Nearest(Eligible(scope, filter), size) = pool
    BY <1>2, ByNearIs
  <1>4. Vector(scope, filter, limit).rows = shown
    BY <1>3 DEF Vector
  <1>. HIDE DEF size, full
  <1>5. /\ full \in Seq(all) /\ Len(full) \in Nat /\ Len(full) = Cardinality(all)
        /\ \A i \in 1 .. Len(full) : full[i] \in all
        /\ \A m \in all : \E i \in 1 .. Len(full) : full[i] = m
        /\ \A i, j \in 1 .. Len(full) : full[i] = full[j] => i = j
    BY <1>3, ListIs DEF Lists
  <1>. DEFINE N == Fewer(Len(full), size)
  <1>6. /\ pool \in Seq(all) /\ Len(pool) = N /\ N \in Nat /\ N <= Len(full)
        /\ \A i \in 1 .. N : pool[i] = full[i]
    BY <1>1, <1>5, FirstTakes
  <1>7. \A id \in all : id \in M
    OBVIOUS
  <1>. HIDE DEF pool, N
  <1>8. kept = 1 .. N
    <2>1. DOMAIN pool = 1 .. N
      BY <1>6
    <2>2. \A n \in 1 .. N : pool[n] \in all
      BY <1>6
    <2>. HIDE DEF M, all
    <2>. QED  BY <1>7, <2>1, <2>2
  <1>9. kept \in SUBSET (1 .. Len(pool)) /\ Cardinality(kept) = N
    <2>1. Cardinality(1 .. N) = IF 1 > N THEN 0 ELSE N - 1 + 1
      <3>1. N \in Int /\ 1 \in Int
        BY <1>6
      <3>. HIDE DEF kept
      <3>. QED  BY <3>1, FS_Interval
    <2>2. Cardinality(1 .. N) = N
      BY <1>6, <2>1
    <2>3. kept \in SUBSET (1 .. N)
      BY <1>8
    <2>. HIDE DEF kept
    <2>. QED  BY <1>6, <1>8, <2>2, <2>3
  <1>. HIDE DEF kept, all
  <1>. DEFINE at == Ascending(kept)
  <1>10. /\ r \in Seq(all) /\ Len(r) = N /\ at \in Seq(kept) /\ Len(at) = N
         /\ \A i, j \in 1 .. N : i < j => at[i] < at[j]
         /\ ToSet(at) = kept
         /\ \A i \in 1 .. N : r[i] = pool[at[i]]
    <2>1. /\ r \in Seq(all) /\ Len(r) = Cardinality(kept)
          /\ at \in Seq(kept) /\ Len(at) = Cardinality(kept)
          /\ ToSet(at) = kept
          /\ \A i, j \in 1 .. Cardinality(kept) : i < j => at[i] < at[j]
          /\ \A i \in 1 .. Cardinality(kept) : r[i] = pool[at[i]]
      BY <1>6, <1>9, RowsAtAre
    <2>. HIDE DEF r, at
    <2>. QED  BY <1>9, <2>1
  <1>. HIDE DEF r, at
  <1>11. \A i \in 1 .. N : at[i] \in 1 .. N /\ r[i] = full[at[i]]
    <2>1. \A i \in 1 .. N : at[i] \in kept
      BY <1>10
    <2>. QED  BY <1>6, <1>8, <1>10, <2>1
  <1>12. /\ shown \in Seq(all) /\ Len(shown) = Fewer(N, limit)
         /\ \A i \in 1 .. Len(shown) : i \in 1 .. N /\ shown[i] = r[i]
    <2>1. Holds(Page(r, limit, 0), all, r, limit, 0)
      BY <1>10, PageTakes
    <2>2. /\ shown \in Seq(all) /\ Len(shown) = IF N <= 0 THEN 0 ELSE Fewer(N - 0, limit)
          /\ \A i \in 1 .. Len(shown) : 0 + i \in 1 .. N /\ shown[i] = r[0 + i]
      BY <1>10, <2>1 DEF Holds
    <2>. HIDE DEF shown
    <2>3. Len(shown) = Fewer(N, limit)
      BY <1>6, <2>2 DEF Fewer
    <2>4. \A i \in 1 .. Len(shown) : 0 + i = i
      BY <2>2
    <2>. QED  BY <2>2, <2>3, <2>4
  <1>. HIDE DEF shown
  <1>13. \A i, j \in 1 .. Len(shown) : i < j => shown[i] # shown[j]
    <2>1. SUFFICES ASSUME NEW i \in 1 .. Len(shown), NEW j \in 1 .. Len(shown), i < j
                   PROVE  shown[i] # shown[j]
      OBVIOUS
    <2>2. /\ i \in 1 .. N /\ j \in 1 .. N /\ shown[i] = full[at[i]] /\ shown[j] = full[at[j]]
          /\ at[i] \in 1 .. N /\ at[j] \in 1 .. N /\ at[i] < at[j]
      BY <1>10, <1>11, <1>12, <2>1
    <2>3. at[i] # at[j] /\ at[i] \in 1 .. Len(full) /\ at[j] \in 1 .. Len(full)
      BY <1>5, <1>6, <2>2
    <2>. QED  BY <1>5, <2>2, <2>3
  <1>14. Cardinality(ToSet(shown)) = IF Cardinality(all) < limit THEN Cardinality(all) ELSE limit
    <2>1. Len(shown) = Cardinality(ToSet(shown))
      BY <1>12, <1>13, DistinctCounts
    <2>2. Fewer(N, limit) = Fewer(Len(full), limit)
      BY <1>1, <1>5 DEF N, Fewer
    <2>. QED  BY <1>5, <1>12, <2>1, <2>2 DEF Fewer
  <1>15. DOMAIN shown = 1 .. Len(shown) /\ \A i \in 1 .. Len(shown) : shown[i] \in all
    BY <1>12
  <1>16. ToSet(shown) \subseteq all
    BY <1>15 DEF ToSet
  <1>17. ASSUME NEW i \in ToSet(shown), NEW j \in all \ ToSet(shown)
         PROVE  About[i].near <= About[j].near
    <2>1. PICK k \in 1 .. Len(shown) : shown[k] = i
      BY <1>15 DEF ToSet
    <2>2. k \in 1 .. N /\ i = full[at[k]] /\ at[k] \in 1 .. N
      BY <1>11, <1>12, <2>1
    <2>3. PICK q \in 1 .. Len(full) : full[q] = j
      BY <1>5
    <2>4. at[k] < q
      <3>1. SUFFICES ASSUME ~(at[k] < q) PROVE FALSE
        OBVIOUS
      <3>2. q <= at[k] /\ q \in 1 .. N
        BY <1>5, <1>6, <2>2, <2>3, <3>1
      <3>3. PICK u \in 1 .. N : at[u] = q
        <4>1. q \in ToSet(at)
          BY <1>8, <1>10, <3>2
        <4>2. DOMAIN at = 1 .. N
          BY <1>10
        <4>. QED  BY <4>1, <4>2 DEF ToSet
      <3>4. u <= k
        BY <1>6, <1>10, <2>2, <3>2, <3>3
      <3>5. u \in 1 .. Len(shown)
        BY <1>6, <1>12, <3>4
      <3>6. shown[u] = j
        BY <1>11, <1>12, <2>3, <3>3, <3>5
      <3>7. j \in ToSet(shown)
        BY <1>15, <3>5, <3>6 DEF ToSet
      <3>. QED  BY <3>7
    <2>5. at[k] \in 1 .. Len(full)
      BY <1>5, <1>6, <2>2
    <2>. QED  BY <1>3, <2>2, <2>3, <2>4, <2>5
  <1>18. all = {id \in ItsThoughts(scope, filter) : About[id].near > 0}
    BY MatchingMeans DEF all
  <1>. QED  BY <1>4, <1>14, <1>16, <1>17, <1>18 DEF FindsTheNearest

-----------------------------------------------------------------------------
(* The brief                                                               *)

\* The rows are thoughts, which is part of the type invariant.
Typed == \A id \in DOMAIN thoughts : thoughts[id] \in Thought

LEMMA SixPlaces ==
    ASSUME NEW a \in Int, NEW b \in Int, NEW c \in Int, NEW d \in Int, NEW e \in Int, NEW f \in Int
    PROVE  /\ <<a, b>> \o <<c, d, e, f>> \in [1 .. 6 -> Int]
           /\ (<<a, b>> \o <<c, d, e, f>>)[1] = a
           /\ (<<a, b>> \o <<c, d, e, f>>)[6] = f
  <1>. DEFINE s == <<a, b>>
              t == <<c, d, e, f>>
              k == s \o t
  <1>1. s \in Seq(Int) /\ t \in Seq(Int) /\ Len(s) = 2 /\ Len(t) = 4 /\ s[1] = a /\ t[4] = f
    OBVIOUS
  <1>. HIDE DEF s, t
  <1>2. /\ k \in Seq(Int) /\ Len(k) = Len(s) + Len(t)
        /\ \A i \in 1 .. Len(s) + Len(t) : k[i] = IF i <= Len(s) THEN s[i] ELSE t[i - Len(s)]
    BY <1>1, ConcatProperties
  <1>3. /\ 1 \in 1 .. Len(s) + Len(t) /\ 6 \in 1 .. Len(s) + Len(t)
        /\ 1 <= Len(s) /\ ~(6 <= Len(s)) /\ 6 - Len(s) = 4 /\ Len(s) + Len(t) = 6
    BY <1>1
  <1>4. k[1] = s[1] /\ k[6] = t[4] /\ Len(k) = 6
    BY <1>2, <1>3
  <1>. HIDE DEF k
  <1>5. k \in [1 .. 6 -> Int]
    <2>1. k \in [1 .. Len(k) -> Int]
      <3>1. k \in Seq(Int)
        BY <1>2
      <3>. QED  BY <3>1
    <2>. QED  BY <1>4, <2>1
  <1>6. k \in [1 .. 6 -> Int] /\ k[1] = a /\ k[6] = f
    BY <1>1, <1>4, <1>5
  <1>. QED  BY <1>6 DEF k, s, t

StandingKey(S, f, g) == [id \in S |-> <<f[id], g[id]>> \o Standing(id)]

\* Two places before those of its standing make a key of every thought.
LEMMA StandingTells ==
    ASSUME Readable, Typed, NEW S \in SUBSET DOMAIN thoughts, NEW f, NEW g,
           \A id \in S : f[id] \in Int /\ g[id] \in Int
    PROVE  /\ Keyed(StandingKey(S, f, g), 6) /\ DOMAIN StandingKey(S, f, g) = S
           /\ \A id \in S : StandingKey(S, f, g)[id][1] = f[id]
  <1>. DEFINE key == [id \in S |-> <<f[id], g[id]>> \o Standing(id)]
  <1>1. ASSUME NEW id \in S
        PROVE  /\ key[id] \in [1 .. 6 -> Int] /\ key[id][1] = f[id] /\ key[id][6] = -id
               /\ key[id] = <<f[id], g[id]>> \o Standing(id)
    <2>1. thoughts[id].confirmed \in Nat /\ thoughts[id].weight \in Nat
      BY DEF Typed, Thought
    <2>2. thoughts[id].confirmed \in Int /\ thoughts[id].weight \in Int
      BY <2>1
    <2>3. Bit(thoughts[id].fresh) \in Int
      BY DEF Bit
    <2>4. S \in SUBSET Nat
      BY SomeThoughts
    <2>5. -id \in Int
      BY <2>4
    <2>6. key[id] = <<f[id], g[id]>> \o Standing(id)
      OBVIOUS
    <2>. HIDE DEF key
    <2>7. f[id] \in Int /\ g[id] \in Int
      OBVIOUS
    <2>8. key[id] \in [1 .. 6 -> Int] /\ key[id][1] = f[id] /\ key[id][6] = -id
      <3>. DEFINE a == f[id]
                  b == g[id]
                  c == thoughts[id].confirmed
                  d == thoughts[id].weight
                  e == Bit(thoughts[id].fresh)
                  n == -id
                  k == <<a, b>> \o <<c, d, e, n>>
      <3>1. key[id] = k
        BY <2>6 DEF Standing
      <3>2. a \in Int /\ b \in Int /\ c \in Int /\ d \in Int /\ e \in Int /\ n \in Int
        BY <2>2, <2>3, <2>5, <2>7
      <3>. HIDE DEF a, b, c, d, e, n
      <3>3. k \in [1 .. 6 -> Int] /\ k[1] = a /\ k[6] = n
        BY <3>2, SixPlaces
      <3>. HIDE DEF k
      <3>4. key[id] \in [1 .. 6 -> Int] /\ key[id][1] = a /\ key[id][6] = n
        BY <3>1, <3>3
      <3>. QED  BY <3>4 DEF a, n
    <2>. QED  BY <2>6, <2>8
  <1>2. DOMAIN key = S
    OBVIOUS
  <1>. HIDE DEF key
  <1>3. ASSUME NEW i \in S, NEW j \in S, key[i] = key[j] PROVE i = j
    <2>1. -i = -j
      BY <1>1, <1>3
    <2>2. S \in SUBSET Nat
      BY SomeThoughts
    <2>3. i \in Nat /\ j \in Nat
      BY <2>2
    <2>. QED  BY <2>1, <2>3
  <1>4. Keyed(key, 6)
    BY <1>1, <1>2, <1>3 DEF Keyed
  <1>5. key = StandingKey(S, f, g)
    BY DEF key, StandingKey
  <1>. QED  BY <1>1, <1>2, <1>4, <1>5

LEMMA AboveInFirst ==
    ASSUME NEW n \in Nat \ {0}, NEW s \in [1 .. n -> Int], NEW t \in [1 .. n -> Int], Above(s, t)
    PROVE  s[1] >= t[1]
  <1>1. PICK k \in 1 .. n : s[k] > t[k] /\ \A m \in 1 .. k - 1 : s[m] = t[m]
    BY DEF Above
  <1>2. 1 \in 1 .. n /\ s[1] \in Int /\ t[1] \in Int
    OBVIOUS
  <1>3. CASE k = 1
    BY <1>1, <1>2, <1>3
  <1>4. CASE k # 1
    <2>1. 1 \in 1 .. k - 1
      BY <1>4
    <2>2. s[1] = t[1]
      BY <1>1, <2>1
    <2>. QED  BY <1>2, <2>2
  <1>. QED  BY <1>3, <1>4

Pool(scope) == HighestFirst([id \in DOMAIN thoughts |-> Placed(id, scope)])

\* The pool lists every thought, those of the requested scope first.
LEMMA PoolIs ==
    ASSUME Readable, Typed, NEW scope
    PROVE  /\ Lists(Pool(scope), DOMAIN thoughts)
           /\ \A i, j \in 1 .. Len(Pool(scope)) :
                i < j /\ Requested(Pool(scope)[j], scope) => Requested(Pool(scope)[i], scope)
  <1>. DEFINE S == DOMAIN thoughts
              f == [id \in S |-> Bit(Requested(id, scope))]
              g == [id \in S |-> WellFormed(id)]
              key == StandingKey(S, f, g)
              s == HighestFirst(key)
  <1>1. \A id \in S : f[id] \in Int /\ g[id] \in Int
    BY DEF Bit, WellFormed
  <1>2. \A id \in S : f[id] = Bit(Requested(id, scope))
    OBVIOUS
  <1>3. key = [id \in S |-> Placed(id, scope)]
    BY DEF Placed, StandingKey
  <1>4. S \in SUBSET DOMAIN thoughts /\ IsFiniteSet(S)
    BY DEF Readable
  <1>. HIDE DEF S, f, g
  <1>5. Keyed(key, 6) /\ DOMAIN key = S /\ \A id \in S : key[id][1] = f[id]
    BY <1>1, <1>4, StandingTells
  <1>. HIDE DEF key
  <1>6. DOMAIN key = S /\ \A id \in S : key[id][1] = f[id]
    BY <1>5
  <1>7. IsFiniteSet(DOMAIN key) /\ 6 \in Nat
    BY <1>4, <1>6
  <1>8. /\ Lists(s, DOMAIN key)
        /\ \A i, j \in 1 .. Len(s) : i < j => Above(key[s[i]], key[s[j]])
    BY <1>5, <1>7, HighestFirstLists
  <1>9. s = Pool(scope)
    BY <1>3 DEF Pool, S
  <1>. HIDE DEF s
  <1>10. ASSUME NEW i \in 1 .. Len(s), NEW j \in 1 .. Len(s), i < j, Requested(s[j], scope)
         PROVE  Requested(s[i], scope)
    <2>1. s[i] \in S /\ s[j] \in S
      BY <1>6, <1>8, ListIs
    <2>2. key[s[i]] \in [1 .. 6 -> Int] /\ key[s[j]] \in [1 .. 6 -> Int]
      BY <1>5, <1>6, <2>1 DEF Keyed
    <2>3. 6 \in Nat \ {0}
      OBVIOUS
    <2>4. key[s[i]][1] >= key[s[j]][1]
      BY <1>8, <1>10, <2>2, <2>3, AboveInFirst
    <2>5. Bit(Requested(s[i], scope)) >= Bit(Requested(s[j], scope))
      BY <1>2, <1>6, <2>1, <2>4
    <2>. QED  BY <1>10, <2>5 DEF Bit
  <1>. QED  BY <1>6, <1>8, <1>9, <1>10 DEF S

\* A pool that has room for the requested thoughts has them all.
LEMMA PoolHasTheRequested ==
    ASSUME Readable, Typed, NEW scope, MaxCandidates \in Nat,
           Cardinality({id \in DOMAIN thoughts : Requested(id, scope)}) <= MaxCandidates
    PROVE  /\ ToSet(Candidates(scope, MaxCandidates)) \in SUBSET DOMAIN thoughts
           /\ \A id \in DOMAIN thoughts :
                Requested(id, scope) => id \in ToSet(Candidates(scope, MaxCandidates))
  <1>. DEFINE S == DOMAIN thoughts
              Q == {id \in S : Requested(id, scope)}
              s == Pool(scope)
              c == First(s, MaxCandidates)
  <1>1. Lists(s, S) /\ \A i, j \in 1 .. Len(s) :
                         i < j /\ Requested(s[j], scope) => Requested(s[i], scope)
    BY PoolIs
  <1>2. c = Candidates(scope, MaxCandidates)
    BY DEF Candidates, Pool
  <1>3. IsFiniteSet(Q) /\ Cardinality(Q) \in Nat /\ Cardinality(Q) <= MaxCandidates
    <2>1. Q \in SUBSET S
      OBVIOUS
    <2>2. Cardinality(Q) <= MaxCandidates
      OBVIOUS
    <2>3. IsFiniteSet(Q)
      BY <2>1, SomeThoughts
    <2>. HIDE DEF Q
    <2>. QED  BY <2>2, <2>3, FS_CardinalityType
  <1>. HIDE DEF S, s
  <1>4. /\ s \in Seq(S) /\ Len(s) \in Nat /\ \A i \in 1 .. Len(s) : s[i] \in S
        /\ \A m \in S : \E i \in 1 .. Len(s) : s[i] = m
        /\ \A i, j \in 1 .. Len(s) : s[i] = s[j] => i = j
    BY <1>1, ListIs DEF Lists
  <1>5. /\ c \in Seq(S) /\ Len(c) = Fewer(Len(s), MaxCandidates)
        /\ \A i \in 1 .. Fewer(Len(s), MaxCandidates) : c[i] = s[i]
    BY <1>4, FirstTakes
  <1>. HIDE DEF c
  <1>6. DOMAIN c = 1 .. Len(c) /\ \A i \in 1 .. Len(c) : c[i] \in S
    BY <1>5
  <1>7. ToSet(c) \in SUBSET S
    BY <1>6 DEF ToSet
  <1>8. ASSUME NEW id \in Q PROVE id \in ToSet(c)
    <2>1. id \in S /\ Requested(id, scope)
      OBVIOUS
    <2>2. PICK i \in 1 .. Len(s) : s[i] = id
      BY <1>4, <2>1
    <2>. DEFINE r == First(s, i)
    <2>3. i \in Nat /\ i <= Len(s) /\ Fewer(Len(s), i) = i
      BY <1>4 DEF Fewer
    <2>4. r \in Seq(S) /\ Len(r) = i /\ \A k \in 1 .. i : r[k] = s[k]
      <3>1. /\ First(s, i) \in Seq(S) /\ Len(First(s, i)) = Fewer(Len(s), i)
            /\ \A k \in 1 .. Fewer(Len(s), i) : First(s, i)[k] = s[k]
        BY <1>4, <2>3, FirstTakes
      <3>. QED  BY <2>3, <3>1
    <2>. HIDE DEF r
    <2>5. ASSUME NEW k \in 1 .. i PROVE r[k] \in Q
      <3>1. k \in 1 .. Len(s) /\ (k < i \/ k = i)
        BY <1>4, <2>3
      <3>2. Requested(s[k], scope) /\ s[k] \in S
        BY <1>1, <1>4, <2>1, <2>2, <3>1
      <3>. QED  BY <2>4, <3>2
    <2>6. \A j, k \in 1 .. Len(r) : j < k => r[j] # r[k]
      <3>1. SUFFICES ASSUME NEW j \in 1 .. Len(r), NEW k \in 1 .. Len(r), j < k PROVE r[j] # r[k]
        OBVIOUS
      <3>2. j \in 1 .. i /\ k \in 1 .. i
        BY <2>4
      <3>3. j \in 1 .. Len(s) /\ k \in 1 .. Len(s) /\ j # k
        <4>1. Len(s) \in Nat
          BY <1>4
        <4>2. i \in Nat /\ i <= Len(s)
          BY <2>3
        <4>. QED  BY <3>1, <3>2, <4>1, <4>2
      <3>4. r[j] = s[j] /\ r[k] = s[k]
        BY <2>4, <3>2
      <3>. QED  BY <1>4, <3>3, <3>4
    <2>7. i = Cardinality(ToSet(r))
      BY <2>4, <2>6, DistinctCounts
    <2>8. ToSet(r) \in SUBSET Q
      <3>1. DOMAIN r = 1 .. i
        BY <2>4
      <3>. HIDE DEF Q
      <3>. QED  BY <2>5, <3>1 DEF ToSet
    <2>. HIDE DEF Q
    <2>9. i <= Cardinality(Q)
      BY <1>3, <2>7, <2>8, FS_Subset
    <2>10. i \in 1 .. Fewer(Len(s), MaxCandidates)
      BY <1>3, <1>4, <2>3, <2>9 DEF Fewer
    <2>11. i \in 1 .. Len(c) /\ c[i] = id
      BY <1>5, <2>2, <2>10
    <2>. QED  BY <1>6, <2>11 DEF ToSet
  <1>9. \A id \in S : Requested(id, scope) => id \in ToSet(c)
    BY <1>8
  <1>. QED  BY <1>2, <1>7, <1>9 DEF S

\* What is kept is what the scope requests, and no more.
LEMMA KeptIs ==
    ASSUME NEW scope, Scoped(scope), NEW at, NEW id, Omitted(id, scope, at) = "kept"
    PROVE  /\ Requested(id, scope) /\ ~WrongProject(id, scope)
           /\ thoughts[id].trust = Trusted /\ ~Refuted(id, at) /\ Role(id) # None
  <1>1. /\ ~WrongProject(id, scope) /\ thoughts[id].trust = Trusted /\ ~Refuted(id, at)
        /\ ~(thoughts[id].shared /\ ~Explicit(id)) /\ Role(id) # None
    BY DEF Omitted
  <1>2. thoughts[id].shared => EligibleShared(id)
    BY <1>1 DEF Explicit, EligibleShared
  <1>3. Requested(id, scope)
    <2>1. CASE scope.all
      BY <1>2, <2>1 DEF Requested
    <2>2. CASE ~scope.all /\ scope.sharedOnly
      BY <1>1, <1>2, <2>2 DEF Requested, WrongProject
    <2>3. CASE ~scope.all /\ ~scope.sharedOnly /\ thoughts[id].shared
      BY <1>1, <1>2, <2>3 DEF Requested, WrongProject
    <2>4. CASE ~scope.all /\ ~scope.sharedOnly /\ ~thoughts[id].shared
      <3>1. Wanted(scope) # None
        BY <2>4 DEF Scoped, Wanted
      <3>2. thoughts[id].pid = Wanted(scope)
        BY <1>1, <2>4 DEF WrongProject
      <3>. QED  BY <2>4, <3>1, <3>2 DEF Requested
    <2>. QED  BY <2>1, <2>2, <2>3, <2>4
  <1>. QED  BY <1>1, <1>3

LEMMA BriefMissesNothing ==
    ASSUME Readable, Typed, NEW scope, Scoped(scope), NEW at, MaxCandidates \in Nat
    PROVE  BriefIsComplete(scope, at)
  <1>. DEFINE S == DOMAIN thoughts
              c == Candidates(scope, MaxCandidates)
              d == Ascending(S)
              kept(T) == {id \in T : Omitted(id, scope, at) = "kept" /\ InLanes(id, "full")}
  <1>1. SUFFICES ASSUME Cardinality({id \in S : Requested(id, scope)}) <= MaxCandidates
                 PROVE  Items(c, "full", scope, at) = Items(d, "full", scope, at)
    BY DEF BriefIsComplete
  <1>2. ToSet(c) \in SUBSET S /\ \A id \in S : Requested(id, scope) => id \in ToSet(c)
    BY <1>1, PoolHasTheRequested
  <1>3. ToSet(d) = S
    <2>1. S \in SUBSET DOMAIN thoughts
      OBVIOUS
    <2>2. S \in SUBSET Nat /\ IsFiniteSet(S)
      BY <2>1, SomeThoughts
    <2>. HIDE DEF S
    <2>. QED  BY <2>2, AscendingLists
  <1>. HIDE DEF S, c, d
  <1>4. kept(ToSet(c)) = kept(ToSet(d))
    <2>1. \A id : Omitted(id, scope, at) = "kept" => Requested(id, scope)
      BY KeptIs
    <2>. QED  BY <1>2, <1>3, <2>1
  <1>. QED  BY <1>4 DEF Items

LEMMA LaneIs ==
    ASSUME NEW id, Role(id) # None
    PROVE  -Lane(Role(id)) \in Int
  <1>1. Role(id) \in ToSet(Roles)
    <2>1. "decision" \in ToSet(Roles) /\ "recent" \in ToSet(Roles)
      <3>1. Roles[2] = "decision" /\ Roles[6] = "recent" /\ 2 \in DOMAIN Roles /\ 6 \in DOMAIN Roles
        BY DEF Roles
      <3>. QED  BY <3>1 DEF ToSet
    <2>. QED  BY <2>1 DEF Role
  <1>2. \E n \in DOMAIN Roles : Roles[n] = Role(id)
    BY <1>1 DEF ToSet
  <1>3. Lane(Role(id)) \in DOMAIN Roles
    BY <1>2 DEF Lane
  <1>4. DOMAIN Roles = 1 .. 6
    BY DEF Roles
  <1>5. Lane(Role(id)) \in 1 .. 6
    BY <1>3, <1>4
  <1>. QED  BY <1>5

LEMMA ItemsAreKept ==
    ASSUME Readable, Typed, NEW scope, NEW at, NEW lanes, NEW c, ToSet(c) \in SUBSET DOMAIN thoughts,
           \A id \in ToSet(c) : Omitted(id, scope, at) = "kept" => Role(id) # None
    PROVE  \E shown \in SUBSET {id \in ToSet(c) : Omitted(id, scope, at) = "kept"} :
             Lists(Items(c, lanes, scope, at), shown)
  <1>. DEFINE kept == {id \in ToSet(c) : Omitted(id, scope, at) = "kept" /\ InLanes(id, lanes)}
              text(id) == SafeText[thoughts[id].text]
              shown == {id \in kept : \A k \in kept :
                          text(k) = text(id) => ~Above(Listed(k), Listed(id))}
              f == [id \in shown |-> -Lane(Role(id))]
              g == [id \in shown |-> Bit(Explicit(id))]
              key == StandingKey(shown, f, g)
              items == Items(c, lanes, scope, at)
  <1>1. items = HighestFirst([id \in shown |-> Listed(id)])
    BY DEF Items
  <1>2. key = [id \in shown |-> Listed(id)]
    BY DEF Listed, StandingKey
  <1>3. shown \in SUBSET {id \in ToSet(c) : Omitted(id, scope, at) = "kept"}
    OBVIOUS
  <1>. HIDE DEF shown
  <1>4. shown \in SUBSET DOMAIN thoughts /\ \A id \in shown : Role(id) # None
    BY <1>3
  <1>5. \A id \in shown : f[id] \in Int /\ g[id] \in Int
    BY <1>4, LaneIs DEF Bit
  <1>6. IsFiniteSet(shown)
    BY <1>4, SomeThoughts
  <1>. HIDE DEF f, g
  <1>7. Keyed(key, 6) /\ DOMAIN key = shown
    BY <1>4, <1>5, StandingTells
  <1>. HIDE DEF key
  <1>8. Lists(HighestFirst(key), DOMAIN key)
    <2>1. IsFiniteSet(DOMAIN key) /\ 6 \in Nat
      BY <1>6, <1>7
    <2>. QED  BY <1>7, <2>1, HighestFirstLists
  <1>9. Lists(items, shown)
    BY <1>1, <1>2, <1>7, <1>8
  <1>. HIDE DEF items
  <1>. QED  BY <1>3, <1>9 DEF items

\* The budget cuts items off at the end.
LEMMA FittingIsPart ==
    ASSUME NEW S, NEW items \in Seq(S), NEW room
    PROVE  ToSet(Fitting(items, room)) \in SUBSET S
  <1>. DEFINE fits == {n \in 0 .. Len(items) : n = 0 \/ Tokens(SubSeq(items, 1, n)) <= room}
              most == CHOOSE n \in fits : \A m \in fits : m <= n
              s == SubSeq(items, 1, most)
  <1>1. Len(items) \in Nat /\ \A i \in 1 .. Len(items) : items[i] \in S
    OBVIOUS
  <1>2. fits \in SUBSET (0 .. Len(items)) /\ 0 \in fits
    BY <1>1
  <1>. HIDE DEF fits
  <1>3. \E n \in fits : \A m \in fits : m <= n
    <2>1. fits \in SUBSET Nat /\ fits # {} /\ \A n \in fits : n <= Len(items)
      BY <1>1, <1>2
    <2>. QED  BY <1>1, <2>1, GreatestOfBounded
  <1>4. most \in fits
    BY <1>3
  <1>5. s = Fitting(items, room)
    BY DEF Fitting, fits
  <1>. HIDE DEF most
  <1>6. most \in Nat /\ most <= Len(items) /\ 1 \in Nat
    BY <1>1, <1>2, <1>4
  <1>7. \A i \in 1 .. most : items[i] \in S
    BY <1>1, <1>6
  <1>8. s \in Seq(S)
    BY <1>6, <1>7, SubSeqProperties
  <1>. HIDE DEF s
  <1>9. ToSet(s) \in SUBSET S
    BY <1>8 DEF ToSet
  <1>. QED  BY <1>5, <1>9

LEMMA BriefIsOfTheList ==
    ASSUME Readable, Typed, NEW scope, Scoped(scope), NEW at, NEW room, MaxCandidates \in Nat
    PROVE  BriefIsFromTheList(scope, at, room)
  <1>. DEFINE c == Candidates(scope, MaxCandidates)
              items == Items(c, "full", scope, at)
              K == {id \in ToSet(c) : Omitted(id, scope, at) = "kept"}
              odd == scope.sharedOnly /\ ~scope.shared /\ Wanted(scope) # None
  <1>1. ToSet(c) \in SUBSET DOMAIN thoughts
    <2>1. Lists(Pool(scope), DOMAIN thoughts)
      BY PoolIs
    <2>2. Pool(scope) \in Seq(DOMAIN thoughts)
      BY <2>1, ListIs
    <2>3. c = First(Pool(scope), MaxCandidates)
      BY DEF Candidates, Pool
    <2>. HIDE DEF c
    <2>4. c \in Seq(DOMAIN thoughts)
      BY <2>2, <2>3, FirstIsPart
    <2>. QED  BY <2>4 DEF ToSet
  <1>2. \A id : Omitted(id, scope, at) = "kept" =>
                  /\ ~WrongProject(id, scope) /\ thoughts[id].trust = Trusted
                  /\ ~Refuted(id, at) /\ Role(id) # None
    BY KeptIs
  <1>3. GetBrief(scope, "full", at, room) = Fitting(items, room)
    BY DEF GetBrief
  <1>. HIDE DEF c
  <1>4. PICK shown \in SUBSET K : Lists(items, shown)
    BY <1>1, <1>2, ItemsAreKept
  <1>. HIDE DEF items, K
  <1>5. ToSet(Fitting(items, room)) \in SUBSET shown
    BY <1>4, ListIs, FittingIsPart
  <1>6. ASSUME ~odd, NEW id \in K
        PROVE  id \in {i \in Matching(scope, NoFilter) : thoughts[i].trust = Trusted /\ ~Refuted(i, at)}
    <2>1. /\ id \in DOMAIN thoughts /\ ~WrongProject(id, scope)
          /\ thoughts[id].trust = Trusted /\ ~Refuted(id, at)
      BY <1>1, <1>2 DEF K
    <2>2. Passes(id, NoFilter)
      <3>1. id \in Ids
        BY <2>1 DEF Readable
      <3>. QED  BY <3>1 DEF Passes, NoFilter
    <2>3. scope.sharedOnly \in BOOLEAN /\ scope.shared \in BOOLEAN /\ scope.all \in BOOLEAN
      BY DEF Scoped
    <2>4. InScope(id, scope)
      <3>1. scope.sharedOnly => thoughts[id].shared
        BY <2>1 DEF WrongProject
      <3>2. ASSUME Wanted(scope) # None
            PROVE  thoughts[id].pid = Wanted(scope) \/ (scope.shared /\ thoughts[id].shared)
        <4>1. ~scope.all
          BY <3>2 DEF Wanted
        <4>2. CASE scope.sharedOnly
          BY <1>6, <3>1, <3>2, <4>2
        <4>3. CASE ~scope.sharedOnly
          BY <2>1, <4>1, <4>3 DEF WrongProject
        <4>. QED  BY <4>2, <4>3
      <3>. QED  BY <3>1, <3>2 DEF InScope
    <2>. QED  BY <2>1, <2>2, <2>4 DEF Matching
  <1>7. odd \/ \A id \in K : id \in {i \in Matching(scope, NoFilter) :
                                      thoughts[i].trust = Trusted /\ ~Refuted(i, at)}
    BY <1>6
  <1>. QED  BY <1>3, <1>4, <1>5, <1>7 DEF BriefIsFromTheList

-----------------------------------------------------------------------------
(* ReadsAgree                                                              *)

LEMMA ReadsAgreeOnTables ==
    ASSUME Readable, Typed, NEW scope \in Scopes, NEW at, NEW room
    PROVE  /\ \A filter \in {NoFilter} \cup {[NoFilter EXCEPT !.type = t] : t \in Types},
                 limit \in 1 .. MaxRows :
                SeesItsScope(scope, filter, limit) /\ FindsTheNearest(scope, filter, limit)
           /\ \A limit \in 1 .. MaxRows :
                /\ PagesPartition([from \in Nat |-> List(scope, NoFilter, limit, from)], limit)
                /\ PagesPartition([from \in Nat |-> Hybrid(scope, NoFilter, limit, from)], limit)
           /\ BriefIsComplete(scope, at) /\ BriefIsFromTheList(scope, at, room)
  <1>1. Scoped(scope) /\ MaxRows \in Nat /\ MaxCandidates \in Nat
    BY ScopesAre, LibraryAssumption
  <1>2. ASSUME NEW filter \in {NoFilter} \cup {[NoFilter EXCEPT !.type = t] : t \in Types},
               NEW limit \in 1 .. MaxRows
        PROVE  SeesItsScope(scope, filter, limit) /\ FindsTheNearest(scope, filter, limit)
    <2>1. filter = [type |-> filter.type, topic |-> filter.topic, path |-> filter.path,
                    others |-> filter.others]
      BY DEF NoFilter
    <2>2. limit \in Nat /\ limit <= MaxRows
      BY <1>1
    <2>3. SeesItsScope(scope, filter, limit)
      BY <1>1, <2>1, <2>2, ScopeIsKept
    <2>4. FindsTheNearest(scope, filter, limit)
      BY <1>1, <2>2, NearestAreFound
    <2>. QED  BY <2>3, <2>4
  <1>3. ASSUME NEW limit \in 1 .. MaxRows
        PROVE  PagesPartition([from \in Nat |-> List(scope, NoFilter, limit, from)], limit)
    <2>. DEFINE page == [from \in Nat |-> List(scope, NoFilter, limit, from)]
                all == Listing(scope, NoFilter)
                M == Matching(scope, NoFilter)
    <2>1. limit \in Nat /\ limit > 0
      BY <1>1
    <2>2. Lists(all, M) /\ \A from : List(scope, NoFilter, limit, from) = Page(all, limit, from)
      BY ListingIs
    <2>3. \A from \in Nat : page[from] = Page(all, limit, from)
      BY <2>2
    <2>. HIDE DEF page, all, M
    <2>4. PagesPartition(page, limit)
      BY <2>1, <2>2, <2>3, PagesDealOut
    <2>. QED  BY <2>4 DEF page
  <1>4. ASSUME NEW limit \in 1 .. MaxRows
        PROVE  PagesPartition([from \in Nat |-> Hybrid(scope, NoFilter, limit, from)], limit)
    <2>. DEFINE page == [from \in Nat |-> Hybrid(scope, NoFilter, limit, from)]
                all == Merged(scope, NoFilter, limit)
    <2>1. limit \in Nat /\ limit > 0
      BY <1>1
    <2>2. /\ \E both \in SUBSET Matching(scope, NoFilter) : IsFiniteSet(both) /\ Lists(all, both)
          /\ \A from \in Nat : Hybrid(scope, NoFilter, limit, from) = Page(all, limit, from)
      BY <1>1, <2>1, MergedIs
    <2>3. \A from \in Nat : page[from] = Page(all, limit, from)
      BY <2>2
    <2>. HIDE DEF page, all
    <2>4. PICK both : Lists(all, both)
      BY <2>2
    <2>5. PagesPartition(page, limit)
      BY <2>1, <2>3, <2>4, PagesDealOut
    <2>. QED  BY <2>5 DEF page
  <1>5. BriefIsComplete(scope, at) /\ BriefIsFromTheList(scope, at, room)
    BY <1>1, BriefMissesNothing, BriefIsOfTheList
  <1>. QED  BY <1>2, <1>3, <1>4, <1>5

\* In every state the tools agree on every scope that a call can have, but
\* for the two disagreements that ReadsAgree writes out (tools.rs,
\* thoughts.rs, fts.rs, vectors.rs, brief.rs).
THEOREM ReadsAgreeHolds == Spec => []ReadsAgree
  <1>1. IInv => ReadsAgree
    <2>. SUFFICES ASSUME IInv PROVE ReadsAgree
      OBVIOUS
    <2>1. Readable /\ Typed
      <3>1. DOMAIN thoughts \subseteq Ids /\ IsFiniteSet(DOMAIN thoughts)
        BY DEF IInv, TypeOK, TablesFinite
      <3>2. \A id \in DOMAIN thoughts : thoughts[id] \in Thought
        BY DEF IInv, TypeOK
      <3>. QED  BY <3>1, <3>2 DEF Readable, Typed
    <2>2. ASSUME NEW scope \in Scopes, NEW at
          PROVE  /\ \A filter \in {NoFilter} \cup {[NoFilter EXCEPT !.type = t] : t \in Types},
                       limit \in 1 .. MaxRows :
                      SeesItsScope(scope, filter, limit) /\ FindsTheNearest(scope, filter, limit)
                 /\ \A limit \in 1 .. MaxRows :
                      /\ PagesPartition([from \in Nat |-> List(scope, NoFilter, limit, from)], limit)
                      /\ PagesPartition([from \in Nat |-> Hybrid(scope, NoFilter, limit, from)], limit)
                 /\ BriefIsComplete(scope, at) /\ BriefIsFromTheList(scope, at, HeaderWidth + 4)
      BY <2>1, ReadsAgreeOnTables
    <2>. QED  BY <2>2 DEF ReadsAgree
  <1>. QED  BY <1>1, IInvAlways, PTL
=============================================================================
