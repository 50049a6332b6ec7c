------------------------ MODULE SwiftMigrationProofs ------------------------
(***************************************************************************)
(* Proofs about the import, for every number of connections, packages,     *)
(* failures and other users. First that what prepare() accepts the schema  *)
(* takes, row by row, and that equal fingerprints stand for equal rows;    *)
(* then what an inspection of the file proves about it; then the inductive *)
(* invariant and that the import implements the one-shot ledger.           *)
(***************************************************************************)
EXTENDS SwiftMigration, FiniteSetTheorems, FunctionTheorems, NaturalsInduction, SequenceTheorems, TLAPS

-----------------------------------------------------------------------------
(* The entities of a package, in their order.                              *)

ProjectEntity(p, a) ==
    Entity("project", p.projects[a].source.id, p.projects[a], ProjectRow(p.projects[a]))
AliasEntity(p, a) == Entity("alias", p.aliases[a].slug, p.aliases[a], AliasRow(p.aliases[a]))
MemoryEntity(p, a) ==
    Entity("memory", p.memories[a].source.id, p.memories[a], MemoryRow(p, p.memories[a]))
EdgeEntity(p, a) == Entity("edge", p.edges[a].source, p.edges[a], EdgeRow(p.edges[a]))

Joined(s, a, b) ==
    /\ Len(s) = Len(a) + Len(b)
    /\ \A i \in 1 .. Len(a) : s[i] = a[i]
    /\ \A i \in 1 .. Len(b) : s[Len(a) + i] = b[i]

LEMMA TwoParts ==
    ASSUME NEW S, NEW a \in Seq(S), NEW b \in Seq(S)
    PROVE  a \o b \in Seq(S) /\ Joined(a \o b, a, b)
  <1>1. /\ a \o b \in Seq(S) /\ Len(a \o b) = Len(a) + Len(b)
        /\ \A i \in 1 .. Len(a) + Len(b) :
              (a \o b)[i] = IF i <= Len(a) THEN a[i] ELSE b[i - Len(a)]
    BY ConcatProperties
  <1>2. Len(a) \in Nat /\ Len(b) \in Nat
    OBVIOUS
  <1>3. ASSUME NEW i \in 1 .. Len(a)
        PROVE  (a \o b)[i] = a[i]
    <2>1. i \in 1 .. Len(a) + Len(b) /\ i <= Len(a)
      BY <1>2
    <2>. QED  BY <1>1, <2>1
  <1>4. ASSUME NEW i \in 1 .. Len(b)
        PROVE  (a \o b)[Len(a) + i] = b[i]
    <2>1. /\ Len(a) + i \in 1 .. Len(a) + Len(b) /\ ~(Len(a) + i <= Len(a))
          /\ Len(a) + i - Len(a) = i
      BY <1>2
    <2>. QED  BY <1>1, <2>1
  <1>. QED  BY <1>1, <1>3, <1>4, Zenon DEF Joined

LEMMA ListOf ==
    ASSUME NEW S, NEW n \in Nat, NEW f \in [1 .. n -> S]
    PROVE  f \in Seq(S) /\ Len(f) = n
  <1>1. f \in Seq(S)
    OBVIOUS
  <1>2. Len(f) \in Nat /\ DOMAIN f = 1 .. Len(f)
    BY <1>1
  <1>3. 1 .. Len(f) = 1 .. n
    BY <1>2
  <1>. QED  BY <1>1, <1>2, <1>3

FourJoined(s, a, b, c, d) ==
    /\ Len(s) = Len(a) + Len(b) + Len(c) + Len(d)
    /\ \A i \in 1 .. Len(a) : s[i] = a[i]
    /\ \A i \in 1 .. Len(b) : s[Len(a) + i] = b[i]
    /\ \A i \in 1 .. Len(c) : s[Len(a) + Len(b) + i] = c[i]
    /\ \A i \in 1 .. Len(d) : s[Len(a) + Len(b) + Len(c) + i] = d[i]

LEMMA FourParts ==
    ASSUME NEW S, NEW a \in Seq(S), NEW b \in Seq(S), NEW c \in Seq(S), NEW d \in Seq(S),
           NEW s, s = a \o b \o c \o d
    PROVE  s \in Seq(S) /\ FourJoined(s, a, b, c, d)
  <1>. DEFINE la == Len(a)
              lb == Len(b)
              lc == Len(c)
              ld == Len(d)
  <1>a. PICK ab : ab = a \o b
    OBVIOUS
  <1>b. PICK abc : abc = ab \o c
    OBVIOUS
  <1>1. /\ ab \in Seq(S) /\ Len(ab) = la + lb
        /\ \A i \in 1 .. la : ab[i] = a[i]
        /\ \A i \in 1 .. lb : ab[la + i] = b[i]
    <2>1. ab \in Seq(S) /\ Joined(ab, a, b)
      BY <1>a, TwoParts, Zenon
    <2>. QED  BY <2>1 DEF Joined
  <1>2. /\ abc \in Seq(S) /\ Len(abc) = Len(ab) + lc
        /\ \A i \in 1 .. Len(ab) : abc[i] = ab[i]
        /\ \A i \in 1 .. lc : abc[Len(ab) + i] = c[i]
    <2>1. ab \in Seq(S)
      BY <1>1
    <2>2. abc \in Seq(S) /\ Joined(abc, ab, c)
      BY <1>b, <2>1, TwoParts, Zenon
    <2>. QED  BY <2>2 DEF Joined
  <1>3. /\ s \in Seq(S) /\ Len(s) = Len(abc) + ld
        /\ \A i \in 1 .. Len(abc) : s[i] = abc[i]
        /\ \A i \in 1 .. ld : s[Len(abc) + i] = d[i]
    <2>1. abc \in Seq(S)
      BY <1>2
    <2>2. s = abc \o d
      BY <1>a, <1>b
    <2>3. s \in Seq(S) /\ Joined(s, abc, d)
      BY <2>1, <2>2, TwoParts, Zenon
    <2>. QED  BY <2>3 DEF Joined
  <1>4. la \in Nat /\ lb \in Nat /\ lc \in Nat /\ ld \in Nat
    OBVIOUS
  <1>. HIDE DEF la, lb, lc, ld
  <1>5. ASSUME NEW i \in 1 .. la
        PROVE  s[i] = a[i]
    <2>1. i \in 1 .. Len(ab) /\ i \in 1 .. Len(abc)
      BY <1>1, <1>2, <1>4
    <2>. QED  BY <1>1, <1>2, <1>3, <2>1
  <1>6. ASSUME NEW i \in 1 .. lb
        PROVE  s[la + i] = b[i]
    <2>1. la + i \in 1 .. Len(ab) /\ la + i \in 1 .. Len(abc)
      BY <1>1, <1>2, <1>4
    <2>. QED  BY <1>1, <1>2, <1>3, <2>1
  <1>7. ASSUME NEW i \in 1 .. lc
        PROVE  s[la + lb + i] = c[i]
    <2>1. la + lb + i \in 1 .. Len(abc) /\ la + lb + i = Len(ab) + i
      BY <1>1, <1>2, <1>4
    <2>. QED  BY <1>2, <1>3, <2>1
  <1>8. ASSUME NEW i \in 1 .. ld
        PROVE  s[la + lb + lc + i] = d[i]
    <2>1. la + lb + lc + i = Len(abc) + i
      BY <1>1, <1>2, <1>4
    <2>. QED  BY <1>3, <2>1
  <1>9. s \in Seq(S) /\ Len(s) = la + lb + lc + ld
    BY <1>1, <1>2, <1>3, <1>4
  <1>. QED  BY <1>5, <1>6, <1>7, <1>8, <1>9 DEF FourJoined, la, lb, lc, ld

LEMMA EntityOrder ==
    ASSUME NEW p, IsPackage(p)
    PROVE  LET E == EntitiesOf(p)
               P == Len(p.projects)
               A == Len(p.aliases)
               M == Len(p.memories)
               G == Len(p.edges)
           IN  /\ P \in Nat /\ A \in Nat /\ M \in Nat /\ G \in Nat
               /\ DOMAIN p.projects = 1 .. P /\ DOMAIN p.aliases = 1 .. A
               /\ DOMAIN p.memories = 1 .. M /\ DOMAIN p.edges = 1 .. G
               /\ Len(E) \in Nat /\ Len(E) = P + A + M + G /\ DOMAIN E = 1 .. Len(E)
               /\ \A a \in 1 .. P : E[a] = ProjectEntity(p, a)
               /\ \A a \in 1 .. A : E[P + a] = AliasEntity(p, a)
               /\ \A a \in 1 .. M : E[P + A + a] = MemoryEntity(p, a)
               /\ \A a \in 1 .. G : E[P + A + M + a] = EdgeEntity(p, a)
  <1>. DEFINE P == Len(p.projects)
              A == Len(p.aliases)
              M == Len(p.memories)
              G == Len(p.edges)
              ps == [a \in 1 .. P |-> ProjectEntity(p, a)]
              as == [a \in 1 .. A |-> AliasEntity(p, a)]
              ms == [a \in 1 .. M |-> MemoryEntity(p, a)]
              gs == [a \in 1 .. G |-> EdgeEntity(p, a)]
              S == {ps[a] : a \in 1 .. P} \cup {as[a] : a \in 1 .. A}
                   \cup {ms[a] : a \in 1 .. M} \cup {gs[a] : a \in 1 .. G}
  <1>1. /\ P \in Nat /\ A \in Nat /\ M \in Nat /\ G \in Nat
        /\ DOMAIN p.projects = 1 .. P /\ DOMAIN p.aliases = 1 .. A
        /\ DOMAIN p.memories = 1 .. M /\ DOMAIN p.edges = 1 .. G
    BY DEF IsPackage, Listed
  <1>2. EntitiesOf(p) = ps \o as \o ms \o gs
    BY <1>1 DEF EntitiesOf, ProjectEntity, AliasEntity, MemoryEntity, EdgeEntity
  <1>. HIDE DEF P, A, M, G
  <1>3. /\ ps \in [1 .. P -> S] /\ as \in [1 .. A -> S]
        /\ ms \in [1 .. M -> S] /\ gs \in [1 .. G -> S]
    <2>1. ps \in [1 .. P -> S]
      OBVIOUS
    <2>2. as \in [1 .. A -> S]
      OBVIOUS
    <2>3. ms \in [1 .. M -> S]
      OBVIOUS
    <2>4. gs \in [1 .. G -> S]
      OBVIOUS
    <2>. QED  BY <2>1, <2>2, <2>3, <2>4
  <1>4. /\ \A a \in 1 .. P : ps[a] = ProjectEntity(p, a)
        /\ \A a \in 1 .. A : as[a] = AliasEntity(p, a)
        /\ \A a \in 1 .. M : ms[a] = MemoryEntity(p, a)
        /\ \A a \in 1 .. G : gs[a] = EdgeEntity(p, a)
    OBVIOUS
  <1>. HIDE DEF ps, as, ms, gs, S
  <1>5. ps \in Seq(S) /\ Len(ps) = P
    BY <1>1, <1>3, ListOf
  <1>6. as \in Seq(S) /\ Len(as) = A
    BY <1>1, <1>3, ListOf
  <1>7. ms \in Seq(S) /\ Len(ms) = M
    BY <1>1, <1>3, ListOf
  <1>8. gs \in Seq(S) /\ Len(gs) = G
    BY <1>1, <1>3, ListOf
  <1>. DEFINE E == EntitiesOf(p)
  <1>. HIDE DEF E
  <1>9. /\ E \in Seq(S) /\ Len(E) = P + A + M + G
        /\ \A i \in 1 .. P : E[i] = ps[i]
        /\ \A i \in 1 .. A : E[P + i] = as[i]
        /\ \A i \in 1 .. M : E[P + A + i] = ms[i]
        /\ \A i \in 1 .. G : E[P + A + M + i] = gs[i]
    <2>1. E = ps \o as \o ms \o gs
      BY <1>2 DEF E
    <2>2. E \in Seq(S) /\ FourJoined(E, ps, as, ms, gs)
      BY <1>5, <1>6, <1>7, <1>8, <2>1, FourParts, Zenon
    <2>. QED  BY <1>5, <1>6, <1>7, <1>8, <2>2 DEF FourJoined
  <1>10. DOMAIN E = 1 .. Len(E)
    BY <1>9
  <1>11. /\ \A a \in 1 .. P : E[a] = ProjectEntity(p, a)
         /\ \A a \in 1 .. A : E[P + a] = AliasEntity(p, a)
         /\ \A a \in 1 .. M : E[P + A + a] = MemoryEntity(p, a)
         /\ \A a \in 1 .. G : E[P + A + M + a] = EdgeEntity(p, a)
    BY <1>4, <1>9
  <1>12. Len(E) \in Nat
    BY <1>1, <1>9
  <1>. QED  BY <1>1, <1>9, <1>10, <1>11, <1>12 DEF P, A, M, G, E

\* Every entity is a project, an alias, a memory or an edge.
LEMMA EntityKinds ==
    ASSUME NEW p, IsPackage(p), NEW i \in DOMAIN EntitiesOf(p)
    PROVE  LET e == EntitiesOf(p)[i]
           IN  \/ \E a \in DOMAIN p.projects : i = a /\ e = ProjectEntity(p, a)
               \/ \E a \in DOMAIN p.aliases :
                    i = Len(p.projects) + a /\ e = AliasEntity(p, a)
               \/ \E a \in DOMAIN p.memories :
                    /\ i = Len(p.projects) + Len(p.aliases) + a
                    /\ e = MemoryEntity(p, a)
               \/ \E a \in DOMAIN p.edges :
                    /\ i = Len(p.projects) + Len(p.aliases) + Len(p.memories) + a
                    /\ e = EdgeEntity(p, a)
  <1>. DEFINE E == EntitiesOf(p)
              P == Len(p.projects)
              A == Len(p.aliases)
              M == Len(p.memories)
              G == Len(p.edges)
  <1>1. /\ P \in Nat /\ A \in Nat /\ M \in Nat /\ G \in Nat
        /\ DOMAIN p.projects = 1 .. P /\ DOMAIN p.aliases = 1 .. A
        /\ DOMAIN p.memories = 1 .. M /\ DOMAIN p.edges = 1 .. G
        /\ i \in 1 .. P + A + M + G
        /\ \A a \in 1 .. P : E[a] = ProjectEntity(p, a)
        /\ \A a \in 1 .. A : E[P + a] = AliasEntity(p, a)
        /\ \A a \in 1 .. M : E[P + A + a] = MemoryEntity(p, a)
        /\ \A a \in 1 .. G : E[P + A + M + a] = EdgeEntity(p, a)
    BY EntityOrder
  <1>. HIDE DEF E, P, A, M, G
  <1>2. CASE i \in 1 .. P
    BY <1>1, <1>2 DEF E, P
  <1>3. CASE i - P \in 1 .. A
    <2>1. P + (i - P) = i
      BY <1>1
    <2>2. E[i] = AliasEntity(p, i - P)
      BY <1>1, <1>3, <2>1
    <2>. QED  BY <1>1, <1>3, <2>1, <2>2 DEF E, P
  <1>4. CASE i - P - A \in 1 .. M
    <2>1. P + A + (i - P - A) = i
      BY <1>1
    <2>2. E[i] = MemoryEntity(p, i - P - A)
      BY <1>1, <1>4, <2>1
    <2>. QED  BY <1>1, <1>4, <2>1, <2>2 DEF E, P, A
  <1>5. CASE i - P - A - M \in 1 .. G
    <2>1. P + A + M + (i - P - A - M) = i
      BY <1>1
    <2>2. E[i] = EdgeEntity(p, i - P - A - M)
      BY <1>1, <1>5, <2>1
    <2>. QED  BY <1>1, <1>5, <2>1, <2>2 DEF E, P, A, M
  <1>6. i \in 1 .. P \/ i - P \in 1 .. A \/ i - P - A \in 1 .. M \/ i - P - A - M \in 1 .. G
    BY <1>1
  <1>. QED  BY <1>2, <1>3, <1>4, <1>5, <1>6

-----------------------------------------------------------------------------
(* What a package's entities and rows are.                                 *)

Tables == [project |-> "projects", alias |-> "project_slug_aliases",
           memory |-> "thoughts", edge |-> "edges"]

\* The prepared package of a name is what prepare() made of an accepted one.
LEMMA Prepares ==
    ASSUME NEW n \in Names
    PROVE  /\ IsPackage(Raw[n]) /\ Accepted(Raw[n])
           /\ Prepared(n).entities = EntitiesOf(Raw[n])
           /\ Len(Prepared(n).entities) \in Nat
           /\ DOMAIN Prepared(n).entities = 1 .. Len(Prepared(n).entities)
  <1>1. /\ IsPackage(Raw[n]) /\ Accepted(Raw[n])
        /\ Prepared(n).entities = EntitiesOf(Raw[n])
    BY PreparedFromAccepted
  <1>2. /\ DOMAIN EntitiesOf(Raw[n]) = 1 .. Len(EntitiesOf(Raw[n]))
        /\ Len(EntitiesOf(Raw[n])) \in Nat
    BY <1>1, EntityOrder
  <1>. QED  BY <1>1, <1>2

\* A row's table and key are the kind and the id of its entity.
LEMMA RowNames ==
    ASSUME NEW p, IsPackage(p), NEW i \in DOMAIN EntitiesOf(p)
    PROVE  LET e == EntitiesOf(p)[i]
           IN  /\ e.kind \in {"project", "alias", "memory", "edge"}
               /\ e.row.table = Tables[e.kind] /\ e.row.key = e.id
               /\ e.row.data # Overwritten
               /\ e.fp = SourceHash(e.kind, e.source)
  <1>. DEFINE e == EntitiesOf(p)[i]
  <1>1. ASSUME NEW a \in DOMAIN p.projects, e = ProjectEntity(p, a)
        PROVE  /\ e.kind = "project" /\ e.row.table = "projects" /\ e.row.key = e.id
               /\ e.row.data = <<"local_only">> /\ e.fp = SourceHash(e.kind, e.source)
    BY <1>1 DEF ProjectEntity, Entity, ProjectRow
  <1>2. ASSUME NEW a \in DOMAIN p.aliases, e = AliasEntity(p, a)
        PROVE  /\ e.kind = "alias" /\ e.row.table = "project_slug_aliases" /\ e.row.key = e.id
               /\ e.row.data = <<p.aliases[a].project.id,
                                 IF p.aliases[a].status = "retired" THEN "retired" ELSE "tentative">>
               /\ e.fp = SourceHash(e.kind, e.source)
    BY <1>2 DEF AliasEntity, Entity, AliasRow
  <1>3. ASSUME NEW a \in DOMAIN p.memories, e = MemoryEntity(p, a)
        PROVE  /\ e.kind = "memory" /\ e.row.table = "thoughts" /\ e.row.key = e.id
               /\ e.row.data # Overwritten
               /\ e.fp = SourceHash(e.kind, e.source)
    <2>1. \A u, v, w, x, y : <<u, v, w, x, y>> # Overwritten
      BY DEF Overwritten
    <2>2. MemoryRow(p, p.memories[a]).data # Overwritten
      BY <2>1 DEF MemoryRow
    <2>. QED  BY <1>3, <2>2 DEF MemoryEntity, Entity, MemoryRow
  <1>4. ASSUME NEW a \in DOMAIN p.edges, e = EdgeEntity(p, a)
        PROVE  /\ e.kind = "edge" /\ e.row.table = "edges" /\ e.row.key = e.id
               /\ e.row.data = <<>> /\ e.fp = SourceHash(e.kind, e.source)
    BY <1>4 DEF EdgeEntity, Entity, EdgeRow
  <1>5. \/ \E a \in DOMAIN p.projects : e = ProjectEntity(p, a)
        \/ \E a \in DOMAIN p.aliases : e = AliasEntity(p, a)
        \/ \E a \in DOMAIN p.memories : e = MemoryEntity(p, a)
        \/ \E a \in DOMAIN p.edges : e = EdgeEntity(p, a)
    BY EntityKinds
  <1>. HIDE DEF e
  <1>6. CASE \E a \in DOMAIN p.projects : e = ProjectEntity(p, a)
    BY <1>1, <1>6 DEF e, Tables, Overwritten
  <1>7. CASE \E a \in DOMAIN p.aliases : e = AliasEntity(p, a)
    BY <1>2, <1>7 DEF e, Tables, Overwritten
  <1>8. CASE \E a \in DOMAIN p.memories : e = MemoryEntity(p, a)
    BY <1>3, <1>8 DEF e, Tables, Overwritten
  <1>9. CASE \E a \in DOMAIN p.edges : e = EdgeEntity(p, a)
    BY <1>4, <1>9 DEF e, Tables, Overwritten
  <1>. QED  BY <1>5, <1>6, <1>7, <1>8, <1>9

LEMMA TablesTell ==
    ASSUME NEW k \in {"project", "alias", "memory", "edge"},
           NEW l \in {"project", "alias", "memory", "edge"}, Tables[k] = Tables[l]
    PROVE  k = l
  BY DEF Tables

\* The entity of a kind is one of the package's records of that kind.
LEMMA KindOf ==
    ASSUME NEW p, IsPackage(p), NEW i \in DOMAIN EntitiesOf(p)
    PROVE  LET e == EntitiesOf(p)[i]
           IN  /\ e.kind = "project" => \E a \in DOMAIN p.projects :
                    i = a /\ e = ProjectEntity(p, a)
               /\ e.kind = "alias" => \E a \in DOMAIN p.aliases :
                    i = Len(p.projects) + a /\ e = AliasEntity(p, a)
               /\ e.kind = "memory" => \E a \in DOMAIN p.memories :
                    /\ i = Len(p.projects) + Len(p.aliases) + a
                    /\ e = MemoryEntity(p, a)
               /\ e.kind = "edge" => \E a \in DOMAIN p.edges :
                    /\ i = Len(p.projects) + Len(p.aliases) + Len(p.memories) + a
                    /\ e = EdgeEntity(p, a)
  <1>1. /\ \A a : ProjectEntity(p, a).kind = "project"
        /\ \A a : AliasEntity(p, a).kind = "alias"
        /\ \A a : MemoryEntity(p, a).kind = "memory"
        /\ \A a : EdgeEntity(p, a).kind = "edge"
    BY DEF ProjectEntity, AliasEntity, MemoryEntity, EdgeEntity, Entity
  <1>. QED  BY <1>1, EntityKinds

\* No two entities of an accepted package have one kind and one id.
LEMMA IdsTell ==
    ASSUME NEW p, IsPackage(p), Accepted(p),
           NEW i \in DOMAIN EntitiesOf(p), NEW j \in DOMAIN EntitiesOf(p),
           EntitiesOf(p)[i].kind = EntitiesOf(p)[j].kind,
           EntitiesOf(p)[i].id = EntitiesOf(p)[j].id
    PROVE  i = j
  <1>. DEFINE e == EntitiesOf(p)[i]
              f == EntitiesOf(p)[j]
  <1>1. \A a, b \in DOMAIN p.projects : ProjectEntity(p, a).id = ProjectEntity(p, b).id => a = b
    BY DEF Accepted, ProjectsOk, Distinct, ProjectEntity, Entity
  <1>2. \A a, b \in DOMAIN p.aliases : AliasEntity(p, a).id = AliasEntity(p, b).id => a = b
    BY DEF Accepted, AliasesOk, Distinct, AliasEntity, Entity
  <1>3. \A a, b \in DOMAIN p.memories : MemoryEntity(p, a).id = MemoryEntity(p, b).id => a = b
    BY DEF Accepted, MemoriesOk, Distinct, MemoryEntity, Entity
  <1>4. \A a, b \in DOMAIN p.edges : EdgeEntity(p, a).id = EdgeEntity(p, b).id => a = b
    BY DEF Accepted, EdgesOk, Distinct, EdgeEntity, Entity
  <1>5. e.kind \in {"project", "alias", "memory", "edge"} /\ f.kind = e.kind /\ f.id = e.id
    BY RowNames
  <1>. HIDE DEF e, f
  <1>6. CASE e.kind = "project"
    <2>1. PICK a \in DOMAIN p.projects : i = a /\ e = ProjectEntity(p, a)
      BY <1>6, KindOf DEF e
    <2>2. PICK b \in DOMAIN p.projects : j = b /\ f = ProjectEntity(p, b)
      BY <1>5, <1>6, KindOf DEF f
    <2>. QED  BY <1>1, <1>5, <2>1, <2>2
  <1>7. CASE e.kind = "alias"
    <2>1. PICK a \in DOMAIN p.aliases : i = Len(p.projects) + a /\ e = AliasEntity(p, a)
      BY <1>7, KindOf DEF e
    <2>2. PICK b \in DOMAIN p.aliases : j = Len(p.projects) + b /\ f = AliasEntity(p, b)
      BY <1>5, <1>7, KindOf DEF f
    <2>. QED  BY <1>2, <1>5, <2>1, <2>2
  <1>8. CASE e.kind = "memory"
    <2>1. PICK a \in DOMAIN p.memories :
              i = Len(p.projects) + Len(p.aliases) + a /\ e = MemoryEntity(p, a)
      BY <1>8, KindOf DEF e
    <2>2. PICK b \in DOMAIN p.memories :
              j = Len(p.projects) + Len(p.aliases) + b /\ f = MemoryEntity(p, b)
      BY <1>5, <1>8, KindOf DEF f
    <2>. QED  BY <1>3, <1>5, <2>1, <2>2
  <1>9. CASE e.kind = "edge"
    <2>1. PICK a \in DOMAIN p.edges :
              /\ i = Len(p.projects) + Len(p.aliases) + Len(p.memories) + a
              /\ e = EdgeEntity(p, a)
      BY <1>9, KindOf DEF e
    <2>2. PICK b \in DOMAIN p.edges :
              /\ j = Len(p.projects) + Len(p.aliases) + Len(p.memories) + b
              /\ f = EdgeEntity(p, b)
      BY <1>5, <1>9, KindOf DEF f
    <2>. QED  BY <1>4, <1>5, <2>1, <2>2
  <1>. QED  BY <1>5, <1>6, <1>7, <1>8, <1>9

\* Two rows of one table and key are one entity's.
LEMMA RowsTell ==
    ASSUME NEW p, IsPackage(p), Accepted(p),
           NEW i \in DOMAIN EntitiesOf(p), NEW j \in DOMAIN EntitiesOf(p),
           EntitiesOf(p)[i].row.table = EntitiesOf(p)[j].row.table,
           EntitiesOf(p)[i].row.key = EntitiesOf(p)[j].row.key
    PROVE  i = j
  BY RowNames, TablesTell, IdsTell

\* No unique index of the schema sees two rows of an accepted package alike.
LEMMA UniqueApart ==
    ASSUME NEW p, IsPackage(p), Accepted(p),
           NEW i \in DOMAIN EntitiesOf(p), NEW j \in DOMAIN EntitiesOf(p), i # j,
           EntitiesOf(p)[i].row.table = EntitiesOf(p)[j].row.table
    PROVE  EntitiesOf(p)[i].row.unique \cap EntitiesOf(p)[j].row.unique = {}
  <1>. DEFINE e == EntitiesOf(p)[i]
              f == EntitiesOf(p)[j]
  <1>1. e.kind \in {"project", "alias", "memory", "edge"} /\ f.kind = e.kind
    BY RowNames, TablesTell
  <1>2. ASSUME NEW a \in DOMAIN p.projects, NEW b \in DOMAIN p.projects, a # b
        PROVE  ProjectRow(p.projects[a]).unique \cap ProjectRow(p.projects[b]).unique = {}
    <2>1. /\ p.projects[a].source.id # p.projects[b].source.id
          /\ p.projects[a].legacy.id # p.projects[b].legacy.id
          /\ p.projects[a].slug # p.projects[b].slug
      BY <1>2 DEF Accepted, ProjectsOk, Distinct
    <2>. QED  BY <2>1 DEF ProjectRow
  <1>3. ASSUME NEW a \in DOMAIN p.aliases, NEW b \in DOMAIN p.aliases, a # b
        PROVE  AliasRow(p.aliases[a]).unique \cap AliasRow(p.aliases[b]).unique = {}
    <2>1. p.aliases[a].slug # p.aliases[b].slug
      BY <1>3 DEF Accepted, AliasesOk, Distinct
    <2>. QED  BY <2>1 DEF AliasRow
  <1>4. ASSUME NEW a \in DOMAIN p.memories, NEW b \in DOMAIN p.memories, a # b
        PROVE  MemoryRow(p, p.memories[a]).unique \cap MemoryRow(p, p.memories[b]).unique = {}
    <2>1. p.memories[a].source.id # p.memories[b].source.id
      BY <1>4 DEF Accepted, MemoriesOk, Distinct
    <2>. QED  BY <2>1 DEF MemoryRow
  <1>5. ASSUME NEW a \in DOMAIN p.edges, NEW b \in DOMAIN p.edges, a # b
        PROVE  EdgeRow(p.edges[a]).unique \cap EdgeRow(p.edges[b]).unique = {}
    <2>1. p.edges[a].source # p.edges[b].source
      BY <1>5 DEF Accepted, EdgesOk, Distinct
    <2>2. <<p.edges[a].from.id, p.edges[a].to.id, p.edges[a].type>>
            # <<p.edges[b].from.id, p.edges[b].to.id, p.edges[b].type>>
      BY <1>5 DEF Accepted, EdgesOk, Distinct
    <2>3. \A u, v, w, x, y : <<u, v>> # <<w, x, y>>
      OBVIOUS
    <2>4. <<"id", p.edges[a].source>> # <<"id", p.edges[b].source>>
      BY <2>1
    <2>5. /\ EdgeRow(p.edges[a]).unique =
                {<<"id", p.edges[a].source>>,
                 <<p.edges[a].from.id, p.edges[a].to.id, p.edges[a].type>>}
          /\ EdgeRow(p.edges[b]).unique =
                {<<"id", p.edges[b].source>>,
                 <<p.edges[b].from.id, p.edges[b].to.id, p.edges[b].type>>}
      BY DEF EdgeRow
    <2>. QED  BY <2>2, <2>3, <2>4, <2>5, Zenon
  <1>. HIDE DEF e, f
  <1>6. CASE e.kind = "project"
    <2>1. PICK a \in DOMAIN p.projects : i = a /\ e = ProjectEntity(p, a)
      BY <1>6, KindOf DEF e
    <2>2. PICK b \in DOMAIN p.projects : j = b /\ f = ProjectEntity(p, b)
      BY <1>1, <1>6, KindOf DEF f
    <2>3. e.row = ProjectRow(p.projects[a]) /\ f.row = ProjectRow(p.projects[b])
      BY <2>1, <2>2 DEF ProjectEntity, Entity
    <2>. QED  BY <1>2, <2>1, <2>2, <2>3 DEF e, f
  <1>7. CASE e.kind = "alias"
    <2>1. PICK a \in DOMAIN p.aliases : i = Len(p.projects) + a /\ e = AliasEntity(p, a)
      BY <1>7, KindOf DEF e
    <2>2. PICK b \in DOMAIN p.aliases : j = Len(p.projects) + b /\ f = AliasEntity(p, b)
      BY <1>1, <1>7, KindOf DEF f
    <2>3. e.row = AliasRow(p.aliases[a]) /\ f.row = AliasRow(p.aliases[b])
      BY <2>1, <2>2 DEF AliasEntity, Entity
    <2>. QED  BY <1>3, <2>1, <2>2, <2>3 DEF e, f
  <1>8. CASE e.kind = "memory"
    <2>1. PICK a \in DOMAIN p.memories :
              i = Len(p.projects) + Len(p.aliases) + a /\ e = MemoryEntity(p, a)
      BY <1>8, KindOf DEF e
    <2>2. PICK b \in DOMAIN p.memories :
              j = Len(p.projects) + Len(p.aliases) + b /\ f = MemoryEntity(p, b)
      BY <1>1, <1>8, KindOf DEF f
    <2>3. e.row = MemoryRow(p, p.memories[a]) /\ f.row = MemoryRow(p, p.memories[b])
      BY <2>1, <2>2 DEF MemoryEntity, Entity
    <2>. QED  BY <1>4, <2>1, <2>2, <2>3 DEF e, f
  <1>9. CASE e.kind = "edge"
    <2>1. PICK a \in DOMAIN p.edges :
              /\ i = Len(p.projects) + Len(p.aliases) + Len(p.memories) + a
              /\ e = EdgeEntity(p, a)
      BY <1>9, KindOf DEF e
    <2>2. PICK b \in DOMAIN p.edges :
              /\ j = Len(p.projects) + Len(p.aliases) + Len(p.memories) + b
              /\ f = EdgeEntity(p, b)
      BY <1>1, <1>9, KindOf DEF f
    <2>3. e.row = EdgeRow(p.edges[a]) /\ f.row = EdgeRow(p.edges[b])
      BY <2>1, <2>2 DEF EdgeEntity, Entity
    <2>. QED  BY <1>5, <2>1, <2>2, <2>3 DEF e, f
  <1>. QED  BY <1>1, <1>6, <1>7, <1>8, <1>9

\* The rows a row references are memories, inserted before it.
LEMMA RefsEarlier ==
    ASSUME NEW p, IsPackage(p), Accepted(p), NEW i \in DOMAIN EntitiesOf(p),
           NEW id \in EntitiesOf(p)[i].row.refs
    PROVE  \E j \in DOMAIN EntitiesOf(p) :
              /\ j < i
              /\ EntitiesOf(p)[j].row.table = "thoughts" /\ EntitiesOf(p)[j].row.key = id
  <1>. DEFINE e == EntitiesOf(p)[i]
  <1>1. e.kind = "edge"
    <2>1. \A a \in DOMAIN p.projects : ProjectEntity(p, a).row.refs = {}
      BY DEF ProjectEntity, Entity, ProjectRow
    <2>2. \A a \in DOMAIN p.aliases : AliasEntity(p, a).row.refs = {}
      BY DEF AliasEntity, Entity, AliasRow
    <2>3. \A a \in DOMAIN p.memories : MemoryEntity(p, a).row.refs = {}
      BY DEF MemoryEntity, Entity, MemoryRow
    <2>4. e.kind \in {"project", "alias", "memory", "edge"} /\ id \in e.row.refs
      BY RowNames
    <2>. HIDE DEF e
    <2>5. e.kind = "project" => \E a \in DOMAIN p.projects : e = ProjectEntity(p, a)
      BY KindOf DEF e
    <2>6. e.kind = "alias" => \E a \in DOMAIN p.aliases : e = AliasEntity(p, a)
      BY KindOf DEF e
    <2>7. e.kind = "memory" => \E a \in DOMAIN p.memories : e = MemoryEntity(p, a)
      BY KindOf DEF e
    <2>. QED  BY <2>1, <2>2, <2>3, <2>4, <2>5, <2>6, <2>7
  <1>. HIDE DEF e
  <1>2. PICK a \in DOMAIN p.edges :
            /\ i = Len(p.projects) + Len(p.aliases) + Len(p.memories) + a
            /\ e = EdgeEntity(p, a)
    BY <1>1, KindOf DEF e
  <1>3. id \in {p.edges[a].from.id, p.edges[a].to.id}
    <2>1. e.row.refs = {p.edges[a].from.id, p.edges[a].to.id}
      BY <1>2 DEF EdgeEntity, Entity, EdgeRow
    <2>. QED  BY <2>1 DEF e
  <1>4. PICK b \in DOMAIN p.memories : p.memories[b].source.id = id
    <2>1. /\ {Scope(p.memories[k]) :
                 k \in {j \in DOMAIN p.memories : p.memories[j].source.id = p.edges[a].from.id}} # {}
          /\ {Scope(p.memories[k]) :
                 k \in {j \in DOMAIN p.memories : p.memories[j].source.id = p.edges[a].to.id}} # {}
      BY DEF Accepted, EdgesOk, Every
    <2>. QED  BY <1>3, <2>1
  <1>. DEFINE j == Len(p.projects) + Len(p.aliases) + b
  <1>5. /\ Len(p.projects) \in Nat /\ Len(p.aliases) \in Nat /\ Len(p.memories) \in Nat
        /\ Len(p.edges) \in Nat
        /\ DOMAIN p.memories = 1 .. Len(p.memories) /\ DOMAIN p.edges = 1 .. Len(p.edges)
        /\ Len(EntitiesOf(p)) = Len(p.projects) + Len(p.aliases) + Len(p.memories) + Len(p.edges)
        /\ DOMAIN EntitiesOf(p) = 1 .. Len(EntitiesOf(p))
        /\ EntitiesOf(p)[j] = MemoryEntity(p, b)
    BY EntityOrder
  <1>6. EntitiesOf(p)[j].row.table = "thoughts" /\ EntitiesOf(p)[j].row.key = id
    BY <1>4, <1>5 DEF MemoryEntity, Entity, MemoryRow
  <1>7. j \in DOMAIN EntitiesOf(p) /\ j < i
    <2>. HIDE DEF j
    <2>1. /\ b \in 1 .. Len(p.memories) /\ a \in 1 .. Len(p.edges)
          /\ j = Len(p.projects) + Len(p.aliases) + b
      BY <1>5 DEF j
    <2>2. \A u, v, w, x \in Nat : \A y \in 1 .. x : \A z \in 1 .. w :
              u + v + z \in 1 .. u + v + w + x /\ u + v + z < u + v + w + y
      OBVIOUS
    <2>3. /\ j \in 1 .. Len(p.projects) + Len(p.aliases) + Len(p.memories) + Len(p.edges)
          /\ j < Len(p.projects) + Len(p.aliases) + Len(p.memories) + a
      BY <1>5, <2>1, <2>2, Zenon
    <2>. QED  BY <1>2, <1>5, <2>3, Zenon
  <1>. QED  BY <1>6, <1>7

\* The rows inserted before entity k.
Earlier(E, k) == {E[i].row : i \in {i \in DOMAIN E : i < k}}

\* What prepare() accepts the schema takes, row by row: no unique index and no
\* foreign key refuses a row of an accepted package after those before it.
THEOREM RowsFit ==
    ASSUME NEW p, IsPackage(p), Accepted(p), NEW k \in DOMAIN EntitiesOf(p)
    PROVE  Insertable(EntitiesOf(p)[k].row, Earlier(EntitiesOf(p), k))
  <1>. DEFINE E == EntitiesOf(p)
              rows == Earlier(E, k)
  <1>1. ASSUME NEW r \in rows, r.table = E[k].row.table
        PROVE  r.key # E[k].row.key /\ r.unique \cap E[k].row.unique = {}
    <2>1. PICK i \in DOMAIN E : i < k /\ r = E[i].row
      BY DEF Earlier
    <2>2. i # k
      <3>1. DOMAIN E = 1 .. Len(E)
        BY EntityOrder
      <3>. QED  BY <2>1, <3>1
    <2>. QED  BY <1>1, <2>1, <2>2, RowsTell, UniqueApart
  <1>2. ASSUME NEW id \in E[k].row.refs
        PROVE  \E r \in rows : r.table = "thoughts" /\ r.key = id
    BY RefsEarlier DEF Earlier
  <1>. QED  BY <1>1, <1>2 DEF Insertable

-----------------------------------------------------------------------------
(* Fingerprints stand for rows.                                            *)

LEMMA LowKeepsId ==
    ASSUME NEW w, IsWord(w)
    PROVE  Low(w).id = w.id
  <1>1. PICK u, v : w = [id |-> u, upper |-> v]
    BY DEF IsWord
  <1>. QED  BY <1>1 DEF Low

\* The normal form of a record keeps everything but the spelling of its ids.
LEMMA NormalProject ==
    ASSUME NEW q, IsProject(q)
    PROVE  Normal("project", q) =
             [source |-> Low(q.source), legacy |-> Low(q.legacy), slug |-> q.slug]
  <1>1. PICK u, v, w : q = [source |-> u, legacy |-> v, slug |-> w]
    BY DEF IsProject
  <1>. QED  BY <1>1 DEF Normal

LEMMA NormalAlias ==
    ASSUME NEW a, IsAlias(a)
    PROVE  Normal("alias", a) =
             [slug |-> a.slug, project |-> Low(a.project), status |-> a.status,
              retired |-> a.retired]
  <1>1. PICK u, v, w, x : a = [slug |-> u, project |-> v, status |-> w, retired |-> x]
    BY DEF IsAlias
  <1>. QED  BY <1>1 DEF Normal

LEMMA NormalMemory ==
    ASSUME NEW m, IsMemory(m)
    PROVE  Normal("memory", m) =
             [source |-> Low(m.source), project |-> Low(m.project), alias |-> m.alias,
              visibility |-> m.visibility, trust |-> m.trust, into |-> Low(m.into),
              omitted |-> m.omitted]
  <1>1. PICK t, u, v, w, x, y, z :
            m = [source |-> t, project |-> u, alias |-> v, visibility |-> w, trust |-> x,
                 into |-> y, omitted |-> z]
    BY DEF IsMemory
  <1>. QED  BY <1>1 DEF Normal

LEMMA NormalEdge ==
    ASSUME NEW e, IsEdge(e)
    PROVE  Normal("edge", e) =
             [source |-> e.source, from |-> Low(e.from), to |-> Low(e.to), type |-> e.type,
              project |-> Low(e.project), alias |-> e.alias]
  <1>1. PICK u, v, w, x, y, z :
            e = [source |-> u, from |-> v, to |-> w, type |-> x, project |-> y, alias |-> z]
    BY DEF IsEdge
  <1>. QED  BY <1>1 DEF Normal

\* The fingerprints of two packages agree: entity by entity, their kinds, ids
\* and fingerprints are the same.
SamePrints(p, q) ==
    \A i \in DOMAIN EntitiesOf(p) : \E j \in DOMAIN EntitiesOf(q) :
        /\ EntitiesOf(p)[i].kind = EntitiesOf(q)[j].kind
        /\ EntitiesOf(p)[i].id = EntitiesOf(q)[j].id
        /\ EntitiesOf(p)[i].fp = EntitiesOf(q)[j].fp

LEMMA BatchesAgree ==
    ASSUME NEW p, NEW q, BatchFingerprint(p) = BatchFingerprint(q)
    PROVE  SamePrints(p, q)
  <1>. DEFINE E == EntitiesOf(p)
              F == EntitiesOf(q)
              es == {<<E[i].kind, E[i].id, E[i].fp>> : i \in DOMAIN E}
              fs == {<<F[i].kind, F[i].id, F[i].fp>> : i \in DOMAIN F}
  <1>1. BatchFingerprint(p)[2] = es /\ BatchFingerprint(q)[2] = fs
    BY DEF BatchFingerprint
  <1>2. es = fs
    BY <1>1
  <1>3. ASSUME NEW i \in DOMAIN E
        PROVE  \E j \in DOMAIN F : E[i].kind = F[j].kind /\ E[i].id = F[j].id /\ E[i].fp = F[j].fp
    <2>1. <<E[i].kind, E[i].id, E[i].fp>> \in fs
      BY <1>2
    <2>2. PICK j \in DOMAIN F :
              <<E[i].kind, E[i].id, E[i].fp>> = <<F[j].kind, F[j].id, F[j].fp>>
      BY <2>1
    <2>. QED  BY <2>2
  <1>. QED  BY <1>3 DEF SamePrints

\* The slugs of a memory's project are told by the projects' fingerprints.
LEMMA SlugsAgree ==
    ASSUME NEW p, IsPackage(p), NEW q, IsPackage(q), SamePrints(p, q),
           NEW a \in DOMAIN p.projects
    PROVE  \E b \in DOMAIN q.projects :
              /\ q.projects[b].source.id = p.projects[a].source.id
              /\ q.projects[b].legacy.id = p.projects[a].legacy.id
              /\ q.projects[b].slug = p.projects[a].slug
  <1>1. a \in DOMAIN EntitiesOf(p) /\ EntitiesOf(p)[a] = ProjectEntity(p, a)
    <2>1. /\ Len(p.projects) \in Nat /\ Len(p.aliases) \in Nat /\ Len(p.memories) \in Nat
          /\ Len(p.edges) \in Nat
          /\ DOMAIN p.projects = 1 .. Len(p.projects)
          /\ Len(EntitiesOf(p)) = Len(p.projects) + Len(p.aliases) + Len(p.memories) + Len(p.edges)
          /\ DOMAIN EntitiesOf(p) = 1 .. Len(EntitiesOf(p))
          /\ EntitiesOf(p)[a] = ProjectEntity(p, a)
      BY EntityOrder
    <2>2. \A u, v, w, x \in Nat : \A y \in 1 .. u : y \in 1 .. u + v + w + x
      OBVIOUS
    <2>. QED  BY <2>1, <2>2, Zenon
  <1>2. PICK j \in DOMAIN EntitiesOf(q) :
            /\ EntitiesOf(p)[a].kind = EntitiesOf(q)[j].kind
            /\ EntitiesOf(p)[a].fp = EntitiesOf(q)[j].fp
    BY <1>1 DEF SamePrints
  <1>3. EntitiesOf(q)[j].kind = "project"
    BY <1>1, <1>2 DEF ProjectEntity, Entity
  <1>4. PICK b \in DOMAIN q.projects : EntitiesOf(q)[j] = ProjectEntity(q, b)
    BY <1>3, KindOf
  <1>5. SourceHash("project", p.projects[a]) = SourceHash("project", q.projects[b])
    BY <1>1, <1>2, <1>4 DEF ProjectEntity, Entity
  <1>6. Normal("project", p.projects[a]) = Normal("project", q.projects[b])
    BY <1>5 DEF SourceHash
  <1>7. IsProject(p.projects[a]) /\ IsProject(q.projects[b])
    BY DEF IsPackage, Every
  <1>8. /\ Low(p.projects[a].source) = Low(q.projects[b].source)
        /\ Low(p.projects[a].legacy) = Low(q.projects[b].legacy)
        /\ p.projects[a].slug = q.projects[b].slug
    BY <1>6, <1>7, NormalProject
  <1>. QED  BY <1>7, <1>8, LowKeepsId DEF IsProject

\* Entities of one kind, id and fingerprint write one row.
LEMMA PrintsTellRows ==
    ASSUME NEW p, IsPackage(p), NEW q, IsPackage(q), SamePrints(p, q), SamePrints(q, p),
           NEW i \in DOMAIN EntitiesOf(p), NEW j \in DOMAIN EntitiesOf(q),
           EntitiesOf(p)[i].kind = EntitiesOf(q)[j].kind,
           EntitiesOf(p)[i].fp = EntitiesOf(q)[j].fp
    PROVE  EntitiesOf(p)[i].row = EntitiesOf(q)[j].row
  <1>. DEFINE e == EntitiesOf(p)[i]
              f == EntitiesOf(q)[j]
  <1>1. e.kind \in {"project", "alias", "memory", "edge"} /\ f.kind = e.kind /\ f.fp = e.fp
    BY RowNames
  <1>. HIDE DEF e, f
  <1>2. CASE e.kind = "project"
    <2>1. PICK a \in DOMAIN p.projects : e = ProjectEntity(p, a)
      BY <1>2, KindOf DEF e
    <2>2. PICK b \in DOMAIN q.projects : f = ProjectEntity(q, b)
      BY <1>1, <1>2, KindOf DEF f
    <2>. DEFINE r == p.projects[a]
                t == q.projects[b]
    <2>3. IsProject(r) /\ IsProject(t)
      BY DEF IsPackage, Every
    <2>4. /\ e.row = ProjectRow(r) /\ f.row = ProjectRow(t)
          /\ e.fp = <<"project", Normal("project", r)>>
          /\ f.fp = <<"project", Normal("project", t)>>
      BY <2>1, <2>2 DEF ProjectEntity, Entity, SourceHash
    <2>. HIDE DEF r, t
    <2>5. Normal("project", r) = Normal("project", t)
      BY <1>1, <2>4
    <2>6. Low(r.source) = Low(t.source) /\ Low(r.legacy) = Low(t.legacy) /\ r.slug = t.slug
      BY <2>3, <2>5, NormalProject
    <2>7. r.source.id = t.source.id /\ r.legacy.id = t.legacy.id
      BY <2>3, <2>6, LowKeepsId DEF IsProject
    <2>. QED  BY <2>4, <2>6, <2>7 DEF ProjectRow, e, f
  <1>3. CASE e.kind = "alias"
    <2>1. PICK a \in DOMAIN p.aliases : e = AliasEntity(p, a)
      BY <1>3, KindOf DEF e
    <2>2. PICK b \in DOMAIN q.aliases : f = AliasEntity(q, b)
      BY <1>1, <1>3, KindOf DEF f
    <2>. DEFINE r == p.aliases[a]
                t == q.aliases[b]
    <2>3. IsAlias(r) /\ IsAlias(t)
      BY DEF IsPackage, Every
    <2>4. /\ e.row = AliasRow(r) /\ f.row = AliasRow(t)
          /\ e.fp = <<"alias", Normal("alias", r)>> /\ f.fp = <<"alias", Normal("alias", t)>>
      BY <2>1, <2>2 DEF AliasEntity, Entity, SourceHash
    <2>. HIDE DEF r, t
    <2>5. Normal("alias", r) = Normal("alias", t)
      BY <1>1, <2>4
    <2>6. r.slug = t.slug /\ Low(r.project) = Low(t.project) /\ r.status = t.status
      BY <2>3, <2>5, NormalAlias
    <2>7. r.project.id = t.project.id
      BY <2>3, <2>6, LowKeepsId DEF IsAlias
    <2>. QED  BY <2>4, <2>6, <2>7 DEF AliasRow, e, f
  <1>4. CASE e.kind = "memory"
    <2>1. PICK a \in DOMAIN p.memories : e = MemoryEntity(p, a)
      BY <1>4, KindOf DEF e
    <2>2. PICK b \in DOMAIN q.memories : f = MemoryEntity(q, b)
      BY <1>1, <1>4, KindOf DEF f
    <2>. DEFINE r == p.memories[a]
                t == q.memories[b]
                slugs(s, id) == {x.slug : x \in {x \in ToSet(s.projects) : x.source.id = id}}
    <2>3. IsMemory(r) /\ IsMemory(t)
      BY DEF IsPackage, Every
    <2>4. /\ e.row = MemoryRow(p, r) /\ f.row = MemoryRow(q, t)
          /\ e.fp = <<"memory", Normal("memory", r)>> /\ f.fp = <<"memory", Normal("memory", t)>>
      BY <2>1, <2>2 DEF MemoryEntity, Entity, SourceHash
    <2>. HIDE DEF r, t
    <2>5. Normal("memory", r) = Normal("memory", t)
      BY <1>1, <2>4
    <2>6. /\ Low(r.source) = Low(t.source) /\ Low(r.project) = Low(t.project)
          /\ Low(r.into) = Low(t.into) /\ r.visibility = t.visibility /\ r.trust = t.trust
      BY <2>3, <2>5, NormalMemory
    <2>7. r.source.id = t.source.id /\ r.project.id = t.project.id /\ r.into.id = t.into.id
      BY <2>3, <2>6, LowKeepsId DEF IsMemory
    <2>8. ASSUME NEW id
          PROVE  slugs(p, id) = slugs(q, id)
      <3>1. ASSUME NEW x \in slugs(p, id)
            PROVE  x \in slugs(q, id)
        <4>1. PICK c \in DOMAIN p.projects : p.projects[c].source.id = id /\ p.projects[c].slug = x
          BY DEF ToSet
        <4>2. PICK d \in DOMAIN q.projects : q.projects[d].source.id = id /\ q.projects[d].slug = x
          BY <4>1, SlugsAgree
        <4>. QED  BY <4>2 DEF ToSet
      <3>2. ASSUME NEW x \in slugs(q, id)
            PROVE  x \in slugs(p, id)
        <4>1. PICK c \in DOMAIN q.projects : q.projects[c].source.id = id /\ q.projects[c].slug = x
          BY DEF ToSet
        <4>2. PICK d \in DOMAIN p.projects : p.projects[d].source.id = id /\ p.projects[d].slug = x
          BY <4>1, SlugsAgree
        <4>. QED  BY <4>2 DEF ToSet
      <3>. HIDE DEF slugs
      <3>. QED  BY <3>1, <3>2
    <2>. HIDE DEF slugs
    <2>9. slugs(p, r.project.id) = slugs(q, t.project.id)
      BY <2>7, <2>8
    <2>10. MemoryRow(p, r) = MemoryRow(q, t)
      BY <2>6, <2>7, <2>9 DEF MemoryRow, slugs
    <2>. QED  BY <2>4, <2>10 DEF e, f
  <1>5. CASE e.kind = "edge"
    <2>1. PICK a \in DOMAIN p.edges : e = EdgeEntity(p, a)
      BY <1>5, KindOf DEF e
    <2>2. PICK b \in DOMAIN q.edges : f = EdgeEntity(q, b)
      BY <1>1, <1>5, KindOf DEF f
    <2>. DEFINE r == p.edges[a]
                t == q.edges[b]
    <2>3. IsEdge(r) /\ IsEdge(t)
      BY DEF IsPackage, Every
    <2>4. /\ e.row = EdgeRow(r) /\ f.row = EdgeRow(t)
          /\ e.fp = <<"edge", Normal("edge", r)>> /\ f.fp = <<"edge", Normal("edge", t)>>
      BY <2>1, <2>2 DEF EdgeEntity, Entity, SourceHash
    <2>. HIDE DEF r, t
    <2>5. Normal("edge", r) = Normal("edge", t)
      BY <1>1, <2>4
    <2>6. r.source = t.source /\ Low(r.from) = Low(t.from) /\ Low(r.to) = Low(t.to) /\ r.type = t.type
      BY <2>3, <2>5, NormalEdge
    <2>7. r.from.id = t.from.id /\ r.to.id = t.to.id
      BY <2>3, <2>6, LowKeepsId DEF IsEdge
    <2>. QED  BY <2>4, <2>6, <2>7 DEF EdgeRow, e, f
  <1>. QED  BY <1>1, <1>2, <1>3, <1>4, <1>5

\* Every entity of E is one of F.
Twins(E, F) ==
    \A i \in DOMAIN E : \E j \in DOMAIN F :
        E[i].kind = F[j].kind /\ E[i].id = F[j].id /\ E[i].fp = F[j].fp /\ E[i].row = F[j].row

\* Two accepted packages with one batch fingerprint, in whatever order and
\* spelling their records come (batch_fingerprint and the rows of prepare),
\* write the same entities, so that the second is recognised as the first.
THEOREM FingerprintsTellRows ==
    ASSUME NEW m \in Names, NEW n \in Names, Prepared(m).fp = Prepared(n).fp
    PROVE  /\ Twins(Prepared(m).entities, Prepared(n).entities)
           /\ Twins(Prepared(n).entities, Prepared(m).entities)
  <1>1. BatchFingerprint(Raw[m]) = BatchFingerprint(Raw[n])
    BY FingerprintsTell
  <1>2. SamePrints(Raw[m], Raw[n]) /\ SamePrints(Raw[n], Raw[m])
    BY <1>1, BatchesAgree
  <1>3. IsPackage(Raw[m]) /\ IsPackage(Raw[n])
    BY Prepares
  <1>4. /\ Prepared(m).entities = EntitiesOf(Raw[m])
        /\ Prepared(n).entities = EntitiesOf(Raw[n])
    BY Prepares
  <1>5. Twins(EntitiesOf(Raw[m]), EntitiesOf(Raw[n]))
    BY <1>2, <1>3, PrintsTellRows DEF SamePrints, Twins
  <1>6. Twins(EntitiesOf(Raw[n]), EntitiesOf(Raw[m]))
    BY <1>2, <1>3, PrintsTellRows DEF SamePrints, Twins
  <1>. QED  BY <1>4, <1>5, <1>6

-----------------------------------------------------------------------------
(* What is stored of an accepted archive can be inspected.                 *)

LEMMA LeastOfNat ==
    ASSUME NEW T \in SUBSET Nat, T # {}
    PROVE  \E m \in T : \A n \in T : m <= n
  <1>1. PICK m \in T : \A n \in T : ~(<<n, m>> \in OpToRel(<, Nat))
    BY WFMin, NatLessThanWellFounded
  <1>2. \A n \in Nat : <<n, m>> \in OpToRel(<, Nat) <=> n < m
    BY DEF OpToRel
  <1>3. \A n \in T : ~(n < m)
    BY <1>1, <1>2
  <1>. QED  BY <1>3

\* The partial results of FlattenSeq.
Flattens(f, s, n) == f = [i \in 1 .. n |-> IF i = 1 THEN s[i] ELSE f[i - 1] \o s[i]]

LEMMA FlattenExists ==
    ASSUME NEW s
    PROVE  \A n \in Nat : \E f : Flattens(f, s, n)
  <1>. DEFINE bad == {n \in Nat : ~\E f : Flattens(f, s, n)}
  <1>1. SUFFICES ASSUME bad # {} PROVE FALSE
    OBVIOUS
  <1>2. PICK k \in bad : \A n \in bad : k <= n
    <2>1. bad \in SUBSET Nat
      OBVIOUS
    <2>. HIDE DEF bad
    <2>. QED  BY <1>1, <2>1, LeastOfNat
  <1>3. k \in Nat /\ ~\E f : Flattens(f, s, k)
    OBVIOUS
  <1>4. CASE k = 0
    <2>. DEFINE f == [i \in 1 .. 0 |-> s[i]]
    <2>1. f = [i \in 1 .. 0 |-> IF i = 1 THEN s[i] ELSE f[i - 1] \o s[i]]
      OBVIOUS
    <2>. QED  BY <1>3, <1>4, <2>1 DEF Flattens
  <1>5. CASE k # 0
    <2>1. k - 1 \in Nat /\ k - 1 \notin bad
      <3>1. k - 1 \in Nat /\ ~(k <= k - 1)
        BY <1>3, <1>5
      <3>. HIDE DEF bad
      <3>. QED  BY <1>2, <3>1
    <2>2. PICK f : Flattens(f, s, k - 1)
      BY <2>1
    <2>3. \A i \in 1 .. k - 1 : f[i] = IF i = 1 THEN s[i] ELSE f[i - 1] \o s[i]
      BY <2>2 DEF Flattens
    <2>. DEFINE g == [i \in 1 .. k |-> IF i < k THEN f[i]
                                       ELSE IF i = 1 THEN s[i] ELSE f[i - 1] \o s[i]]
    <2>4. \A i \in 1 .. k : g[i] = IF i = 1 THEN s[i] ELSE g[i - 1] \o s[i]
      <3>. TAKE i \in 1 .. k
      <3>1. i # 1 => g[i - 1] = f[i - 1]
        <4>1. i # 1 => i - 1 \in 1 .. k /\ i - 1 < k
          BY <1>3
        <4>. QED  BY <4>1
      <3>2. CASE i < k
        <4>1. i \in 1 .. k - 1 /\ g[i] = f[i]
          BY <1>3, <3>2
        <4>. HIDE DEF g
        <4>. QED  BY <2>3, <3>1, <4>1
      <3>3. CASE ~(i < k)
        <4>1. g[i] = IF i = 1 THEN s[i] ELSE f[i - 1] \o s[i]
          BY <3>3
        <4>. HIDE DEF g
        <4>. QED  BY <3>1, <4>1
      <3>. QED  BY <3>2, <3>3
    <2>5. g = [i \in 1 .. k |-> g[i]]
      OBVIOUS
    <2>. HIDE DEF g
    <2>6. Flattens(g, s, k)
      BY <2>4, <2>5 DEF Flattens
    <2>. QED  BY <1>3, <2>6
  <1>. QED  BY <1>4, <1>5

LEMMA FlattenedFrom ==
    ASSUME NEW S, NEW s, Len(s) \in Nat, DOMAIN s = 1 .. Len(s),
           \A i \in 1 .. Len(s) : s[i] \in Seq(S)
    PROVE  \A j \in DOMAIN FlattenSeq(s) : FlattenSeq(s)[j] \in S
  <1>1. CASE Len(s) = 0
    BY <1>1 DEF FlattenSeq
  <1>2. CASE Len(s) # 0
    <2>1. PICK f : f = CHOOSE h : Flattens(h, s, Len(s))
      OBVIOUS
    <2>2. Flattens(f, s, Len(s))
      BY <2>1, FlattenExists
    <2>3. FlattenSeq(s) = f[Len(s)]
      BY <1>2, <2>1 DEF FlattenSeq, Flattens
    <2>4. \A i \in 1 .. Len(s) : f[i] = IF i = 1 THEN s[i] ELSE f[i - 1] \o s[i]
      BY <2>2 DEF Flattens
    <2>5. \A i \in 1 .. Len(s) : f[i] \in Seq(S)
      <3>. DEFINE bad == {i \in 1 .. Len(s) : f[i] \notin Seq(S)}
      <3>1. SUFFICES ASSUME bad # {} PROVE FALSE
        OBVIOUS
      <3>2. PICK k \in bad : \A n \in bad : k <= n
        <4>1. bad \in SUBSET Nat
          OBVIOUS
        <4>. HIDE DEF bad
        <4>. QED  BY <3>1, <4>1, LeastOfNat
      <3>3. k \in 1 .. Len(s) /\ f[k] \notin Seq(S)
        OBVIOUS
      <3>4. k # 1
        BY <2>4, <3>3
      <3>5. k - 1 \in 1 .. Len(s) /\ ~(k <= k - 1)
        BY <3>3, <3>4
      <3>6. f[k - 1] \in Seq(S)
        BY <3>2, <3>5
      <3>7. f[k - 1] \o s[k] \in Seq(S)
        BY <3>3, <3>6, ConcatProperties
      <3>. QED  BY <2>4, <3>3, <3>4, <3>7
    <2>6. f[Len(s)] \in Seq(S)
      BY <1>2, <2>5
    <2>7. \A j \in DOMAIN f[Len(s)] : f[Len(s)][j] \in S
      BY <2>6, LenProperties, ElementOfSeq
    <2>. QED  BY <2>3, <2>7
  <1>. QED  BY <1>1, <1>2

LEMMA WordRespelled ==
    ASSUME NEW x, NEW u, NEW v
    PROVE  [[id |-> x, upper |-> u] EXCEPT !.upper = v] = [id |-> x, upper |-> v]
  OBVIOUS

Conv(s, q, p, k, r, l, o, i, f) ==
    [store |-> s, session |-> q, project |-> p, kind |-> k, runtime |-> r, last |-> l,
     omitted |-> o, items |-> i, fine |-> f]

LEMMA ConversationStored ==
    ASSUME NEW s, NEW q, NEW p, NEW k, NEW r, NEW l, NEW o, NEW i, NEW f, NEW e
    PROVE  /\ [Conv(s, q, p, k, r, l, o, i, f) EXCEPT !.store = e] = Conv(e, q, p, k, r, l, o, i, f)
           /\ [Conv(s, q, p, k, r, l, o, i, f) EXCEPT !.project = e] = Conv(s, q, e, k, r, l, o, i, f)
           /\ [Conv(s, q, p, k, r, l, o, i, f) EXCEPT !.items = e] = Conv(s, q, p, k, r, l, o, e, f)
           /\ Conv(s, q, p, k, r, l, o, i, f).store = s /\ Conv(s, q, p, k, r, l, o, i, f).project = p
           /\ Conv(s, q, p, k, r, l, o, i, f).items = i
  BY DEF Conv

LEMMA StoredTwice ==
    ASSUME NEW c, IsConversation(c), NEW store
    PROVE  /\ Stored(store, c).items = <<>> /\ Stored(store, c).store = store
           /\ Stored(store, Stored(store, c)) = Stored(store, c)
  <1>1. PICK s, q, p, k, r, l, o, i, f : c = Conv(s, q, p, k, r, l, o, i, f)
    BY DEF IsConversation, Conv
  <1>2. c.project = p
    BY <1>1, ConversationStored
  <1>3. PICK x, u : p = [id |-> x, upper |-> u]
    BY <1>2 DEF IsConversation, IsWord
  <1>. DEFINE low == [id |-> x, upper |-> FALSE]
              d == Conv(store, q, low, k, r, l, o, <<>>, f)
  <1>4. [p EXCEPT !.upper = FALSE] = low /\ [low EXCEPT !.upper = FALSE] = low
    BY <1>3, WordRespelled
  <1>. HIDE DEF low
  <1>5. /\ d.project = low /\ d.items = <<>> /\ d.store = store
        /\ [d EXCEPT !.store = store] = d /\ [d EXCEPT !.project = low] = d
        /\ [d EXCEPT !.items = <<>>] = d
    BY ConversationStored
  <1>6. [c EXCEPT !.store = store] = Conv(store, q, p, k, r, l, o, i, f)
    BY <1>1, ConversationStored
  <1>7. [Conv(store, q, p, k, r, l, o, i, f) EXCEPT !.project = low]
          = Conv(store, q, low, k, r, l, o, i, f)
    BY ConversationStored
  <1>8. [Conv(store, q, low, k, r, l, o, i, f) EXCEPT !.items = <<>>] = d
    BY ConversationStored
  <1>. DEFINE step(y) == [[[y EXCEPT !.store = store] EXCEPT !.project = low] EXCEPT !.items = <<>>]
  <1>9. step(c) = d
    BY <1>6, <1>7, <1>8, Zenon
  <1>10. step(d) = d
    <2>. HIDE DEF d
    <2>. QED  BY <1>5, Zenon
  <1>11. Stored(store, c) = [[[c EXCEPT !.store = store] EXCEPT !.project = [c.project EXCEPT !.upper = FALSE]]
                              EXCEPT !.items = <<>>]
    BY Zenon DEF Stored
  <1>12. Stored(store, d) = [[[d EXCEPT !.store = store] EXCEPT !.project = [d.project EXCEPT !.upper = FALSE]]
                              EXCEPT !.items = <<>>]
    BY Zenon DEF Stored
  <1>13. Stored(store, c) = step(c)
    BY <1>2, <1>4, <1>11, Zenon
  <1>14. Stored(store, d) = step(d)
    <2>. HIDE DEF d
    <2>. QED  BY <1>4, <1>5, <1>12, Zenon
  <1>. HIDE DEF d, step
  <1>. QED  BY <1>5, <1>9, <1>10, <1>13, <1>14

LEMMA ReversedImages ==
    ASSUME NEW images, Listed(images)
    PROVE  /\ Distinct(images, LAMBDA i : i.id) => Distinct(Reverse(images), LAMBDA i : i.id)
           /\ {Reverse(images)[i].id : i \in DOMAIN Reverse(images)}
                = {images[i].id : i \in DOMAIN images}
  <1>. DEFINE n == Len(images)
              r == Reverse(images)
  <1>1. n \in Nat /\ DOMAIN images = 1 .. n
    BY DEF Listed
  <1>2. DOMAIN r = 1 .. n /\ \A i \in 1 .. n : r[i] = images[(n - i) + 1]
    BY DEF Reverse
  <1>. HIDE DEF n, r
  <1>3. \A i \in 1 .. n : (n - i) + 1 \in 1 .. n /\ i = (n - ((n - i) + 1)) + 1
    BY <1>1
  <1>4. \A i \in 1 .. n : r[(n - i) + 1] = images[i]
    <2>. TAKE i \in 1 .. n
    <2>. DEFINE j == (n - i) + 1
    <2>1. j \in 1 .. n /\ (n - j) + 1 = i
      BY <1>3
    <2>. HIDE DEF j
    <2>2. r[j] = images[i]
      BY <1>2, <2>1
    <2>. QED  BY <2>2 DEF j
  <1>5. {r[i].id : i \in 1 .. n} = {images[i].id : i \in 1 .. n}
    <2>1. ASSUME NEW i \in 1 .. n
          PROVE  /\ r[i].id \in {images[j].id : j \in 1 .. n}
                 /\ images[i].id \in {r[j].id : j \in 1 .. n}
      BY <1>2, <1>3, <1>4
    <2>. QED  BY <2>1
  <1>6. ASSUME \A i, j \in 1 .. n : images[i].id = images[j].id => i = j
        PROVE  \A i, j \in 1 .. n : r[i].id = r[j].id => i = j
    <2>. TAKE i, j \in 1 .. n
    <2>. HAVE r[i].id = r[j].id
    <2>1. (n - i) + 1 = (n - j) + 1
      BY <1>2, <1>3, <1>6
    <2>. QED  BY <1>1, <2>1
  <1>. QED  BY <1>1, <1>2, <1>5, <1>6 DEF Distinct, n, r

\* The theorem about archives: what the wire's checks accept the checks of
\* the stored rows accept too (chats.rs), row by row and in any order, and
\* with the fingerprints the batch has bound.
THEOREM ArchivesAreInspectable ==
    ASSUME NEW a, IsArchive(a), NEW category, NEW projects, ArchiveOk(a, category, projects)
    PROVE  ArchiveInspects(a)
  <1>. DEFINE cs == ProjectedConversations(a)
              I == DOMAIN a.conversations
              S == {r \in UNION {{cs[i].items[j] : j \in DOMAIN cs[i].items} : i \in I} :
                      ItemInspects(r)}
  <1>1. /\ \A i \in I : /\ IsConversation(a.conversations[i])
                        /\ \A j \in DOMAIN a.conversations[i].items :
                             ItemOk(a.conversations[i].items[j])
        /\ Len(a.conversations) \in Nat /\ I = 1 .. Len(a.conversations)
    BY DEF IsArchive, ArchiveOk, Listed, Every
  <1>2. DOMAIN cs = I
    BY DEF ProjectedConversations
  <1>3. ASSUME NEW i \in I
        PROVE  /\ cs[i].payload = Stored(a.store, a.conversations[i])
               /\ cs[i].items = [j \in DOMAIN a.conversations[i].items |->
                                   Projected(ArchiveId(a.store, a.conversations[i].session),
                                             a.conversations[i].items[j])]
               /\ cs[i] = Conversation(cs[i].payload, cs[i].items)
    BY DEF ProjectedConversations, Conversation
  <1>4. \A i \in I : MetadataOk(cs[i].payload, cs[i].items)
    BY <1>2 DEF ArchiveOk, Every
  <1>5. ASSUME NEW i \in I PROVE ConversationInspects(cs[i])
    <2>1. /\ cs[i].payload.items = <<>> /\ cs[i].payload.store = a.store
          /\ Stored(a.store, cs[i].payload) = cs[i].payload
      <3>1. IsConversation(a.conversations[i]) /\ cs[i].payload = Stored(a.store, a.conversations[i])
        BY <1>1, <1>3
      <3>. HIDE DEF cs
      <3>. QED  BY <3>1, StoredTwice
    <2>2. Conversation(Stored(cs[i].payload.store, cs[i].payload), cs[i].items) = cs[i]
      BY <1>3, <2>1
    <2>. HIDE DEF cs
    <2>. QED  BY <1>4, <2>1, <2>2 DEF ConversationInspects
  <1>6. ASSUME NEW i \in I PROVE cs[i].items \in Seq(S)
    <2>. DEFINE items == a.conversations[i].items
                id == ArchiveId(a.store, a.conversations[i].session)
    <2>1. Len(items) \in Nat /\ DOMAIN items = 1 .. Len(items) /\ \A j \in DOMAIN items : ItemOk(items[j])
      <3>1. IsConversation(a.conversations[i])
        BY <1>1
      <3>2. items \in Seq({items[j] : j \in DOMAIN items})
        BY <3>1 DEF IsConversation, Listed
      <3>3. Len(items) \in Nat /\ DOMAIN items = 1 .. Len(items)
        <4>. HIDE DEF items
        <4>. QED  BY <3>2
      <3>. QED  BY <1>1, <3>3
    <2>2. cs[i].items = [j \in 1 .. Len(items) |-> Projected(id, items[j])]
      BY <1>3, <2>1
    <2>3. ASSUME NEW j \in 1 .. Len(items) PROVE Projected(id, items[j]) \in S
      <3>1. /\ Projected(id, items[j]).payload = items[j]
            /\ Projected(id, items[j]).archive = id
        BY DEF Projected
      <3>2. ItemInspects(Projected(id, items[j]))
        BY <2>1, <3>1 DEF ItemInspects
      <3>3. cs[i].items[j] = Projected(id, items[j]) /\ j \in DOMAIN cs[i].items
        BY <2>2
      <3>. HIDE DEF cs, items, id
      <3>. QED  BY <3>2, <3>3
    <2>. HIDE DEF S, cs, items, id
    <2>4. cs[i].items \in [1 .. Len(items) -> S]
      BY <2>2, <2>3
    <2>. QED  BY <2>1, <2>4 DEF items
  <1>7. Every(AllItems(cs), ItemInspects)
    <2>. DEFINE q == [i \in DOMAIN cs |-> cs[i].items]
    <2>1. DOMAIN q = 1 .. Len(a.conversations) /\ Len(q) = Len(a.conversations)
      BY <1>1, <1>2
    <2>2. \A i \in 1 .. Len(q) : q[i] \in Seq(S)
      BY <1>1, <1>2, <1>6, <2>1
    <2>3. \A j \in DOMAIN FlattenSeq(q) : FlattenSeq(q)[j] \in S
      <3>. HIDE DEF q, S
      <3>. QED  BY <1>1, <2>1, <2>2, FlattenedFrom
    <2>4. AllItems(cs) = FlattenSeq(q)
      BY DEF AllItems
    <2>. HIDE DEF q, cs
    <2>. QED  BY <2>3, <2>4 DEF Every
  <1>8. RowsOk(cs, Reverse(a.images))
    <2>1. RowsOk(cs, a.images)
      BY DEF ArchiveOk
    <2>. HIDE DEF cs
    <2>2. Distinct(Reverse(a.images), LAMBDA i : i.id)
      BY <2>1, ReversedImages DEF RowsOk, IsArchive
    <2>3. {Reverse(a.images)[i].id : i \in DOMAIN Reverse(a.images)}
            = {a.images[i].id : i \in DOMAIN a.images}
      BY ReversedImages DEF IsArchive
    <2>. QED  BY <2>1, <2>2, <2>3 DEF RowsOk
  <1>9. Every(a.images, LAMBDA i : i.fine)
    BY DEF ArchiveOk
  <1>. QED  BY <1>2, <1>5, <1>7, <1>8, <1>9 DEF ArchiveInspects, Every

-----------------------------------------------------------------------------
(* Counting rows and ledger entries.                                       *)

LEMMA UpTo ==
    ASSUME NEW n \in Nat
    PROVE  IsFiniteSet(1 .. n) /\ Cardinality(1 .. n) = n
  BY FS_Interval

LEMMA ImageCount ==
    ASSUME NEW S, IsFiniteSet(S), NEW f, \A x, y \in S : f[x] = f[y] => x = y
    PROVE  /\ IsFiniteSet({f[x] : x \in S})
           /\ Cardinality({f[x] : x \in S}) = Cardinality(S)
  <1>. DEFINE T == {f[x] : x \in S}
              g == [x \in S |-> f[x]]
  <1>1. /\ g \in [S -> T] /\ \A a, b \in S : g[a] = g[b] => a = b
        /\ \A t \in T : \E x \in S : g[x] = t
    OBVIOUS
  <1>. HIDE DEF g, T
  <1>2. g \in Bijection(S, T)
    BY <1>1, Fun_IsBij
  <1>3. ExistsBijection(S, T)
    BY <1>2, Fun_ExistsBij
  <1>4. IsFiniteSet(T) /\ Cardinality(T) = Cardinality(S)
    BY <1>3, FS_Bijection
  <1>. QED  BY <1>4 DEF T

\* Of the package of a name: its entities with a row in table t.
Placed(n, t) == {i \in DOMAIN Prepared(n).entities : Prepared(n).entities[i].row.table = t}
RowsOf(n) == {Prepared(n).entities[i].row : i \in DOMAIN Prepared(n).entities}
EntriesOf(n, id) ==
    {Entry(Prepared(n).entities[i], id) : i \in DOMAIN Prepared(n).entities}

LEMMA NameFacts ==
    ASSUME NEW n \in Names
    PROVE  LET E == Prepared(n).entities
           IN  /\ \A i, j \in DOMAIN E : E[i].kind = E[j].kind /\ E[i].id = E[j].id => i = j
               /\ \A i, j \in DOMAIN E : E[i].row = E[j].row => i = j
               /\ \A i \in DOMAIN E : E[i].row # Alien /\ E[i].row.data # Overwritten
               /\ \A i \in DOMAIN E : StoredHash(E[i].kind, E[i].source) = E[i].fp
               /\ \A k \in DOMAIN E : Insertable(E[k].row, Earlier(E, k))
  <1>. DEFINE E == Prepared(n).entities
  <1>1. /\ IsPackage(Raw[n]) /\ Accepted(Raw[n]) /\ E = EntitiesOf(Raw[n])
    BY Prepares
  <1>2. \A i \in DOMAIN E : E[i].row # Alien
    BY AlienIsNotPrepared DEF Names
  <1>3. \A i \in DOMAIN E : StoredHash(E[i].kind, E[i].source) = SourceHash(E[i].kind, E[i].source)
    BY StoredAsHashed
  <1>. HIDE DEF E
  <1>4. \A i, j \in DOMAIN E : E[i].kind = E[j].kind /\ E[i].id = E[j].id => i = j
    BY <1>1, IdsTell
  <1>5. \A i, j \in DOMAIN E : E[i].row = E[j].row => i = j
    BY <1>1, RowsTell
  <1>6. \A i \in DOMAIN E : E[i].row.data # Overwritten /\ E[i].fp = SourceHash(E[i].kind, E[i].source)
    BY <1>1, RowNames
  <1>7. \A k \in DOMAIN E : Insertable(E[k].row, Earlier(E, k))
    BY <1>1, RowsFit
  <1>. QED  BY <1>2, <1>3, <1>4, <1>5, <1>6, <1>7 DEF E

LEMMA PlacedRows ==
    ASSUME NEW n \in Names, NEW t
    PROVE  /\ IsFiniteSet(Placed(n, t))
           /\ IsFiniteSet({r \in RowsOf(n) : r.table = t})
           /\ Cardinality({r \in RowsOf(n) : r.table = t}) = Cardinality(Placed(n, t))
  <1>. DEFINE E == Prepared(n).entities
              rowOf == [i \in DOMAIN E |-> E[i].row]
  <1>1. /\ Len(E) \in Nat /\ DOMAIN E = 1 .. Len(E)
        /\ \A i, j \in DOMAIN E : E[i].row = E[j].row => i = j
    BY Prepares, NameFacts
  <1>2. IsFiniteSet(DOMAIN E)
    BY <1>1, UpTo
  <1>3. IsFiniteSet(Placed(n, t))
    BY <1>2, FS_Subset DEF Placed
  <1>4. \A i, j \in Placed(n, t) : rowOf[i] = rowOf[j] => i = j
    BY <1>1 DEF Placed
  <1>5. {r \in RowsOf(n) : r.table = t} = {rowOf[i] : i \in Placed(n, t)}
    BY DEF RowsOf, Placed
  <1>. HIDE DEF rowOf
  <1>. QED  BY <1>3, <1>4, <1>5, ImageCount

LEMMA AllRows ==
    ASSUME NEW n \in Names
    PROVE  IsFiniteSet(RowsOf(n)) /\ Cardinality(RowsOf(n)) = Len(Prepared(n).entities)
  <1>. DEFINE E == Prepared(n).entities
              rowOf == [i \in DOMAIN E |-> E[i].row]
  <1>1. /\ Len(E) \in Nat /\ DOMAIN E = 1 .. Len(E)
        /\ \A i, j \in DOMAIN E : E[i].row = E[j].row => i = j
    BY Prepares, NameFacts
  <1>2. IsFiniteSet(DOMAIN E) /\ Cardinality(DOMAIN E) = Len(E)
    BY <1>1, UpTo
  <1>3. \A i, j \in DOMAIN E : rowOf[i] = rowOf[j] => i = j
    BY <1>1
  <1>4. RowsOf(n) = {rowOf[i] : i \in DOMAIN E}
    BY DEF RowsOf
  <1>. HIDE DEF rowOf, E
  <1>5. IsFiniteSet(RowsOf(n)) /\ Cardinality(RowsOf(n)) = Cardinality(DOMAIN E)
    BY <1>2, <1>3, <1>4, ImageCount
  <1>. QED  BY <1>2, <1>5 DEF E

LEMMA AllEntries ==
    ASSUME NEW n \in Names, NEW id
    PROVE  Cardinality(EntriesOf(n, id)) = Len(Prepared(n).entities)
  <1>. DEFINE E == Prepared(n).entities
              entryOf == [i \in DOMAIN E |-> Entry(E[i], id)]
  <1>1. /\ Len(E) \in Nat /\ DOMAIN E = 1 .. Len(E)
        /\ \A i, j \in DOMAIN E : E[i].kind = E[j].kind /\ E[i].id = E[j].id => i = j
    BY Prepares, NameFacts
  <1>2. IsFiniteSet(DOMAIN E) /\ Cardinality(DOMAIN E) = Len(E)
    BY <1>1, UpTo
  <1>3. \A i, j \in DOMAIN E : entryOf[i] = entryOf[j] => i = j
    BY <1>1 DEF Entry
  <1>4. EntriesOf(n, id) = {entryOf[i] : i \in DOMAIN E}
    BY DEF EntriesOf
  <1>. HIDE DEF entryOf, E
  <1>5. Cardinality({entryOf[i] : i \in DOMAIN E}) = Cardinality(DOMAIN E)
    BY <1>2, <1>3, ImageCount
  <1>. QED  BY <1>2, <1>4, <1>5 DEF E

\* Packages of one fingerprint have the same rows, and as many entities.
LEMMA TwinRows ==
    ASSUME NEW m \in Names, NEW n \in Names, Prepared(m).fp = Prepared(n).fp
    PROVE  RowsOf(m) = RowsOf(n) /\ Len(Prepared(m).entities) = Len(Prepared(n).entities)
  <1>1. /\ Twins(Prepared(m).entities, Prepared(n).entities)
        /\ Twins(Prepared(n).entities, Prepared(m).entities)
    BY FingerprintsTellRows
  <1>2. RowsOf(m) \subseteq RowsOf(n)
    BY <1>1 DEF Twins, RowsOf
  <1>3. RowsOf(n) \subseteq RowsOf(m)
    BY <1>1 DEF Twins, RowsOf
  <1>4. RowsOf(m) = RowsOf(n)
    BY <1>2, <1>3
  <1>. QED  BY <1>4, AllRows

-----------------------------------------------------------------------------
(* What an inspection proves about a file.                                 *)

LEMMA PristineIs ==
    ASSUME NEW batch, batch # NoBatch
    PROVE  /\ Pristine(batch) = [batch |-> batch, history |-> FALSE,
                                 ledger |-> EntriesOf(batch.of, batch.id),
                                 rows |-> RowsOf(batch.of)]
           /\ Pristine(batch).batch = batch /\ Pristine(batch).history = FALSE
           /\ Pristine(batch).ledger = EntriesOf(batch.of, batch.id)
           /\ Pristine(batch).rows = RowsOf(batch.of)
  <1>1. Pristine(batch) = [batch |-> batch, history |-> FALSE,
                           ledger |-> EntriesOf(batch.of, batch.id), rows |-> RowsOf(batch.of)]
    BY DEF Pristine, RowsOf, EntriesOf
  <1>. QED  BY <1>1

\* An inspection that found an import and nothing else was right: every ledger
\* entry is there, and a foreign row would be one row too many in its table.
THEOREM FoundIsPristine ==
    ASSUME NEW f, NEW m \in Names, NEW n \in Names,
           f = [batch |-> f.batch, ledger |-> f.ledger, rows |-> f.rows, history |-> f.history],
           f.history = FALSE, f.batch # NoBatch, f.batch.of = m, f.batch.fp = Prepared(m).fp,
           IsFiniteSet(f.rows), f.ledger \subseteq Pristine(f.batch).ledger,
           f.rows = Pristine(f.batch).rows \/ \E r \in f.rows : Foreign(r),
           HoldsExactly(f, Prepared(n))
    PROVE  f = Pristine(f.batch) /\ Prepared(m).says = Prepared(n).says
  <1>. DEFINE E == Prepared(m).entities
              F == Prepared(n).entities
  <1>1. Prepared(m).fp = Prepared(n).fp
    BY DEF HoldsExactly
  <1>2. Twins(E, F) /\ Prepared(m).says = Prepared(n).says
    BY <1>1, FingerprintsTellRows, FingerprintsTell
  <1>3. Pristine(f.batch).ledger = EntriesOf(m, f.batch.id)
    BY PristineIs
  <1>4. ASSUME NEW i \in DOMAIN E
        PROVE  Entry(E[i], f.batch.id) \in f.ledger
    <2>1. PICK j \in DOMAIN F : E[i].kind = F[j].kind /\ E[i].id = F[j].id
      BY <1>2 DEF Twins
    <2>2. EntryMatches(f, F[j])
      BY DEF HoldsExactly
    <2>3. PICK entry \in f.ledger : entry.kind = F[j].kind /\ entry.id = F[j].id
      BY <2>2 DEF EntryMatches
    <2>4. PICK k \in DOMAIN E : entry = Entry(E[k], f.batch.id)
      BY <1>3, <2>3 DEF EntriesOf
    <2>5. E[k].kind = E[i].kind /\ E[k].id = E[i].id
      BY <2>1, <2>3, <2>4 DEF Entry
    <2>6. k = i
      BY <2>5, NameFacts
    <2>. QED  BY <2>4, <2>6
  <1>5. f.ledger = Pristine(f.batch).ledger
    BY <1>3, <1>4 DEF EntriesOf
  <1>6. ASSUME NEW r \in f.rows, Foreign(r)
        PROVE  FALSE
    <2>. DEFINE t == r.table
                here == {x \in f.rows : x.table = t}
                own == {x \in RowsOf(n) : x.table = t}
    <2>1. Cardinality(here) = Cardinality(Placed(n, t))
      <3>1. Count(f, t) = Cardinality({j \in DOMAIN F : F[j].row.table = t})
        BY DEF HoldsExactly, CountsAgree
      <3>. QED  BY <3>1 DEF Count, Placed
    <2>2. IsFiniteSet(own) /\ Cardinality(own) = Cardinality(Placed(n, t))
      BY PlacedRows
    <2>3. RowsOf(n) \subseteq f.rows
      BY DEF RowsOf, HoldsExactly
    <2>4. r \notin RowsOf(n)
      BY <1>6, NameFacts DEF Foreign, RowsOf
    <2>5. own \subseteq here \ {r} /\ r \in here
      BY <2>3, <2>4
    <2>6. IsFiniteSet(here)
      BY FS_Subset
    <2>. HIDE DEF here, own
    <2>7. IsFiniteSet(here \ {r}) /\ Cardinality(here \ {r}) = Cardinality(here) - 1
      BY <2>5, <2>6, FS_RemoveElement
    <2>8. Cardinality(own) <= Cardinality(here \ {r})
      BY <2>5, <2>7, FS_Subset
    <2>9. Cardinality(here) \in Nat
      BY <2>6, FS_CardinalityType
    <2>. QED  BY <2>1, <2>2, <2>7, <2>8, <2>9
  <1>7. f.rows = Pristine(f.batch).rows
    BY <1>6
  <1>8. f = Pristine(f.batch)
    <2>1. /\ Pristine(f.batch) = [batch |-> f.batch, history |-> FALSE,
                                   ledger |-> EntriesOf(m, f.batch.id), rows |-> RowsOf(m)]
          /\ Pristine(f.batch).rows = RowsOf(m)
      BY PristineIs
    <2>2. f.ledger = EntriesOf(m, f.batch.id) /\ f.rows = RowsOf(m)
      BY <1>3, <1>5, <1>7, <2>1
    <2>3. f = [batch |-> f.batch, history |-> FALSE,
               ledger |-> EntriesOf(m, f.batch.id), rows |-> RowsOf(m)]
      BY <2>2
    <2>. QED  BY <2>1, <2>3
  <1>. QED  BY <1>2, <1>8

\* An untouched import is found by every package that says the same.
THEOREM PristineIsFound ==
    ASSUME NEW batch, batch # NoBatch, NEW m \in Names, NEW n \in Names,
           batch.of = m, batch.fp = Prepared(m).fp, Prepared(m).says = Prepared(n).says
    PROVE  HoldsExactly(Pristine(batch), Prepared(n))
  <1>. DEFINE E == Prepared(m).entities
              F == Prepared(n).entities
              f == Pristine(batch)
  <1>1. Prepared(m).fp = Prepared(n).fp
    BY FingerprintsTell
  <1>2. Twins(F, E) /\ RowsOf(m) = RowsOf(n) /\ Len(E) = Len(F)
    BY <1>1, FingerprintsTellRows, TwinRows
  <1>3. /\ f.batch = batch
        /\ f.ledger = EntriesOf(m, batch.id) /\ f.rows = RowsOf(n)
    BY <1>2, PristineIs
  <1>. HIDE DEF f
  <1>4. Cardinality(f.ledger) = Len(F)
    BY <1>2, <1>3, AllEntries
  <1>5. CountsAgree(f, Prepared(n))
    <2>1. ASSUME NEW t
          PROVE  Count(f, t) = Cardinality({i \in DOMAIN F : F[i].row.table = t})
      <3>1. Cardinality({r \in RowsOf(n) : r.table = t}) = Cardinality(Placed(n, t))
        BY PlacedRows
      <3>. QED  BY <1>3, <3>1 DEF Count, Placed
    <2>. QED  BY <2>1 DEF CountsAgree
  <1>6. ASSUME NEW i \in DOMAIN F
        PROVE  EntryMatches(f, F[i]) /\ F[i].row \in f.rows
    <2>1. PICK j \in DOMAIN E : F[i].kind = E[j].kind /\ F[i].id = E[j].id /\ F[i].fp = E[j].fp
      BY <1>2 DEF Twins
    <2>2. StoredHash(E[j].kind, E[j].source) = E[j].fp
      BY NameFacts
    <2>3. Entry(E[j], batch.id) \in f.ledger
      BY <1>3 DEF EntriesOf
    <2>4. /\ Entry(E[j], batch.id).kind = E[j].kind /\ Entry(E[j], batch.id).id = E[j].id
          /\ Entry(E[j], batch.id).fp = E[j].fp /\ Entry(E[j], batch.id).source = E[j].source
          /\ Entry(E[j], batch.id).batch = f.batch.id
      BY <1>3 DEF Entry
    <2>5. EntryMatches(f, F[i])
      BY <2>1, <2>2, <2>3, <2>4 DEF EntryMatches
    <2>6. F[i].row \in f.rows
      BY <1>3 DEF RowsOf
    <2>. QED  BY <2>5, <2>6
  <1>. QED  BY <1>1, <1>3, <1>4, <1>5, <1>6 DEF HoldsExactly, f

LEMMA VerdictIs ==
    ASSUME NEW f, NEW p
    PROVE  /\ Verdict(f, p) \in {"history", "fresh", "already", "conflict"}
           /\ Verdict(f, p) = "history" <=> f.history
           /\ Verdict(f, p) = "fresh" <=> ~f.history /\ f.batch = NoBatch /\ f.rows = {}
           /\ Verdict(f, p) = "already" <=> ~f.history /\ HoldsExactly(f, p)
  <1>1. HoldsExactly(f, p) => f.batch # NoBatch
    BY DEF HoldsExactly
  <1>2. CASE f.history
    BY <1>2 DEF Verdict
  <1>3. CASE ~f.history /\ f.batch = NoBatch /\ f.rows = {}
    BY <1>1, <1>3 DEF Verdict
  <1>4. CASE ~f.history /\ HoldsExactly(f, p)
    BY <1>1, <1>4 DEF Verdict
  <1>5. CASE ~f.history /\ ~(f.batch = NoBatch /\ f.rows = {}) /\ ~HoldsExactly(f, p)
    BY <1>5 DEF Verdict
  <1>. QED  BY <1>2, <1>3, <1>4, <1>5

-----------------------------------------------------------------------------
(* What the invariant says of the file, client by client.                  *)

LEMMA BroughtIsName ==
    ASSUME Typed, NEW c \in Clients
    PROVE  /\ brought[c] \in Names /\ Package(c) = Prepared(brought[c])
           /\ Package(c).says \in Contents /\ Package(c).says # Nothing
           /\ BatchOf(c) # NoBatch
           /\ BatchOf(c).id = c /\ BatchOf(c).of = brought[c]
           /\ BatchOf(c).fp = Prepared(brought[c]).fp
  <1>1. brought \in Offers
    BY DEF Typed
  <1>2. brought[c] \in Names
    BY <1>1 DEF Names
  <1>3. Prepared(brought[c]).says \in Contents /\ Prepared(brought[c]).says # Nothing
    BY <1>1, OffersArePrepared, NothingIsNoContent
  <1>4. BatchOf(c) = [id |-> c, fp |-> Prepared(brought[c]).fp, of |-> brought[c]]
    BY DEF BatchOf, Package
  <1>5. BatchOf(c) # NoBatch
    BY <1>1, <1>4, NoBatchIsNoRow
  <1>. QED  BY <1>2, <1>3, <1>4, <1>5 DEF Package

\* The file's batch, if there is one, names a package that somebody brought.
LEMMA FileNames ==
    ASSUME Typed, FileSound, file.batch # NoBatch
    PROVE  /\ file.batch.of \in Names /\ file.batch.fp = Prepared(file.batch.of).fp
           /\ Held = Prepared(file.batch.of).says /\ Held # Nothing
  <1>1. PICK d \in Clients : file.batch = BatchOf(d)
    BY DEF FileSound
  <1>2. /\ brought[d] \in Names /\ Package(d) = Prepared(brought[d])
        /\ Package(d).says # Nothing
        /\ BatchOf(d).of = brought[d] /\ BatchOf(d).fp = Prepared(brought[d]).fp
    BY BroughtIsName
  <1>. QED  BY <1>1, <1>2 DEF Held

LEMMA EmptyIs ==
    /\ Pristine(NoBatch) = Empty
    /\ Empty.batch = NoBatch /\ Empty.ledger = {} /\ Empty.rows = {} /\ Empty.history = FALSE
  BY DEF Pristine, Empty

\* An inspection's verdict is true of the file.
LEMMA VerdictTrue ==
    ASSUME Typed, FileSound, NEW c \in Clients
    PROVE  /\ Verdict(file, Package(c)) = "fresh" => file = Empty
           /\ Verdict(file, Package(c)) = "already" => ~Touched /\ Held = Package(c).says
           /\ Verdict(file, Package(c)) = "conflict" =>
                 Touched \/ Held \notin {Nothing, Package(c).says}
           /\ file.history => Touched
  <1>. DEFINE p == Package(c)
              v == Verdict(file, p)
  <1>1. brought[c] \in Names /\ p = Prepared(brought[c])
    BY BroughtIsName
  <1>2. /\ v \in {"history", "fresh", "already", "conflict"}
        /\ v = "history" <=> file.history
        /\ v = "fresh" <=> ~file.history /\ file.batch = NoBatch /\ file.rows = {}
        /\ v = "already" <=> ~file.history /\ HoldsExactly(file, p)
    BY VerdictIs
  <1>3. /\ file.history \in BOOLEAN /\ IsFiniteSet(file.rows)
        /\ file = [batch |-> file.batch, ledger |-> file.ledger, rows |-> file.rows,
                   history |-> file.history]
        /\ file.ledger \subseteq Pristine(file.batch).ledger
        /\ file.rows = Pristine(file.batch).rows \/ \E r \in file.rows : Foreign(r)
    BY DEF FileSound
  <1>. HIDE DEF v, p
  <1>4. ASSUME v = "fresh"
        PROVE  file = Empty
    <2>1. file.batch = NoBatch /\ file.rows = {} /\ file.history = FALSE
      BY <1>2, <1>3, <1>4
    <2>2. file.ledger = {}
      BY <1>3, <2>1, EmptyIs
    <2>. QED  BY <1>3, <2>1, <2>2 DEF Empty
  <1>5. ASSUME v = "already"
        PROVE  ~Touched /\ Held = p.says
    <2>1. file.history = FALSE /\ HoldsExactly(file, p)
      BY <1>2, <1>3, <1>5
    <2>2. file.batch # NoBatch
      BY <2>1 DEF HoldsExactly
    <2>3. /\ file.batch.of \in Names /\ file.batch.fp = Prepared(file.batch.of).fp
          /\ Held = Prepared(file.batch.of).says
      BY <2>2, FileNames
    <2>4. /\ file = Pristine(file.batch)
          /\ Prepared(file.batch.of).says = Prepared(brought[c]).says
      BY <1>1, <1>3, <2>1, <2>2, <2>3, FoundIsPristine
    <2>. QED  BY <1>1, <2>3, <2>4 DEF Touched
  <1>6. ASSUME ~Touched, Held \in {Nothing, p.says}
        PROVE  v \in {"fresh", "already"}
    <2>1. file = Pristine(file.batch)
      BY <1>6 DEF Touched
    <2>2. CASE file.batch = NoBatch
      BY <1>2, <2>1, <2>2, EmptyIs
    <2>3. CASE file.batch # NoBatch
      <3>1. /\ file.batch.of \in Names /\ file.batch.fp = Prepared(file.batch.of).fp
            /\ Held = Prepared(file.batch.of).says /\ Held # Nothing
        BY <2>3, FileNames
      <3>2. HoldsExactly(Pristine(file.batch), Prepared(brought[c]))
        BY <1>1, <1>6, <2>3, <3>1, PristineIsFound
      <3>3. file.history = FALSE
        BY <2>1, <2>3, PristineIs
      <3>. QED  BY <1>1, <1>2, <2>1, <3>2, <3>3
    <2>. QED  BY <2>2, <2>3
  <1>7. ASSUME file.history, ~Touched
        PROVE  FALSE
    BY <1>7, EmptyIs, PristineIs DEF Touched
  <1>. QED  BY <1>4, <1>5, <1>6, <1>7 DEF v, p

-----------------------------------------------------------------------------
(* The inductive invariant.                                                *)

LEMMA InitIInv == Init => IInv
  <1>. SUFFICES ASSUME Init PROVE IInv
    OBVIOUS
  <1>1. Typed
    <2>1. TypeOK
      <3>1. /\ open \in [Clients -> {"no", "write", "read"}] /\ stage \in [Clients -> Stages]
            /\ next \in [Clients -> Nat] /\ landed \in [Clients -> BOOLEAN]
            /\ told \in [Clients -> Answers]
        BY DEF Init, Stages, Answers
      <3>2. failures \in 0 .. MaxFailures /\ others \in 0 .. MaxOthers
        BY FailureBoundIsNat DEF Init
      <3>3. \A c \in Clients : open[c] = "no" /\ writer # c
        BY NobodyIsNoClient DEF Init
      <3>4. writer \in Clients \cup {NoOne}
        BY DEF Init
      <3>. QED  BY <3>1, <3>2, <3>3, <3>4 DEF TypeOK
    <2>. QED  BY <2>1 DEF Typed, Init
  <1>2. FileSound
    <2>1. file = Empty
      BY DEF Init
    <2>2. IsFiniteSet({})
      BY FS_EmptySet
    <2>. QED  BY <2>1, <2>2, EmptyIs DEF FileSound, Empty
  <1>3. ASSUME NEW c \in Clients
        PROVE  ResultSound(c) /\ ViewSound(c) /\ CallSound(c)
    <2>1. stage[c] = "idle" /\ open[c] = "no" /\ told[c] = "none" /\ outcome[c] = NoResult
      BY DEF Init
    <2>2. ResultSound(c)
      BY <2>1 DEF ResultSound, NoResult
    <2>. QED  BY <2>1, <2>2 DEF ViewSound, CallSound
  <1>. QED  BY <1>1, <1>2, <1>3 DEF IInv

\* What an action of another client leaves alone.
Kept(d) ==
    /\ open'[d] = open[d] /\ view'[d] = view[d] /\ stage'[d] = stage[d] /\ next'[d] = next[d]
    /\ outcome'[d] = outcome[d] /\ landed'[d] = landed[d] /\ told'[d] = told[d]
    /\ writer' = d <=> writer = d

\* c has a write transaction exactly if the lock is its own.
Locks(c, o) ==
    \/ writer' = writer /\ (o = "write" <=> writer = c)
    \/ writer = NoOne /\ writer' = c /\ o = "write"
    \/ writer = c /\ writer' = NoOne /\ o # "write"

\* An action of c gives c's variables new values.
Gives(c, o, v, s, n, r, l, t) ==
    /\ open' = [open EXCEPT ![c] = o] /\ view' = [view EXCEPT ![c] = v]
    /\ stage' = [stage EXCEPT ![c] = s] /\ next' = [next EXCEPT ![c] = n]
    /\ outcome' = [outcome EXCEPT ![c] = r] /\ landed' = [landed EXCEPT ![c] = l]
    /\ told' = [told EXCEPT ![c] = t]
    /\ brought' = brought

Moves(c, o, v, s, n, r, l, t) ==
    /\ Gives(c, o, v, s, n, r, l, t) /\ Locks(c, o)
    /\ o \in {"no", "write", "read"} /\ s \in Stages /\ n \in Nat /\ l \in BOOLEAN
    /\ t \in Answers
    /\ s = "idle" /\ o # "no" => t \in {"unusable", "invalid"}
    /\ failures' \in 0 .. MaxFailures /\ others' \in 0 .. MaxOthers

LEMMA MovesTyped ==
    ASSUME Typed, NEW c \in Clients, NEW o, NEW v, NEW s, NEW n, NEW r, NEW l, NEW t,
           Moves(c, o, v, s, n, r, l, t)
    PROVE  /\ Typed'
           /\ open'[c] = o /\ view'[c] = v /\ stage'[c] = s /\ next'[c] = n
           /\ outcome'[c] = r /\ landed'[c] = l /\ told'[c] = t
           /\ \A d \in Clients \ {c} : Kept(d)
  <1>0. /\ Gives(c, o, v, s, n, r, l, t) /\ Locks(c, o)
        /\ o \in {"no", "write", "read"} /\ s \in Stages /\ n \in Nat /\ l \in BOOLEAN
        /\ t \in Answers
        /\ s = "idle" /\ o # "no" => t \in {"unusable", "invalid"}
        /\ failures' \in 0 .. MaxFailures /\ others' \in 0 .. MaxOthers
    BY Zenon DEF Moves
  <1>1. /\ writer \in Clients \cup {NoOne}
        /\ open \in [Clients -> {"no", "write", "read"}] /\ stage \in [Clients -> Stages]
        /\ next \in [Clients -> Nat] /\ landed \in [Clients -> BOOLEAN]
        /\ told \in [Clients -> Answers]
        /\ view = [d \in Clients |-> view[d]] /\ outcome = [d \in Clients |-> outcome[d]]
    BY DEF Typed, TypeOK
  <1>2. /\ \A d \in Clients : open[d] = "write" <=> writer = d
        /\ \A d \in Clients : stage[d] = "idle" /\ open[d] # "no" => told[d] \in {"unusable", "invalid"}
    BY DEF Typed, TypeOK
  <1>3. /\ open' \in [Clients -> {"no", "write", "read"}] /\ open'[c] = o
        /\ \A d \in Clients \ {c} : open'[d] = open[d]
    BY <1>0, <1>1 DEF Gives
  <1>4. /\ stage' \in [Clients -> Stages] /\ stage'[c] = s
        /\ \A d \in Clients \ {c} : stage'[d] = stage[d]
    BY <1>0, <1>1 DEF Gives
  <1>5. /\ next' \in [Clients -> Nat] /\ next'[c] = n
        /\ \A d \in Clients \ {c} : next'[d] = next[d]
    BY <1>0, <1>1 DEF Gives
  <1>6. /\ landed' \in [Clients -> BOOLEAN] /\ landed'[c] = l
        /\ \A d \in Clients \ {c} : landed'[d] = landed[d]
    BY <1>0, <1>1 DEF Gives
  <1>7. /\ told' \in [Clients -> Answers] /\ told'[c] = t
        /\ \A d \in Clients \ {c} : told'[d] = told[d]
    BY <1>0, <1>1 DEF Gives
  <1>8. /\ view' = [d \in Clients |-> view'[d]] /\ view'[c] = v
        /\ \A d \in Clients \ {c} : view'[d] = view[d]
    BY <1>0, <1>1 DEF Gives
  <1>9. /\ outcome' = [d \in Clients |-> outcome'[d]] /\ outcome'[c] = r
        /\ \A d \in Clients \ {c} : outcome'[d] = outcome[d]
    BY <1>0, <1>1 DEF Gives
  <1>10. /\ writer' \in Clients \cup {NoOne}
         /\ \A d \in Clients \ {c} : writer' = d <=> writer = d
         /\ o = "write" <=> writer' = c
    BY <1>0, <1>1, NobodyIsNoClient DEF Locks
  <1>11. \A d \in Clients : open'[d] = "write" <=> writer' = d
    BY <1>2, <1>3, <1>10
  <1>12. \A d \in Clients : stage'[d] = "idle" /\ open'[d] # "no" => told'[d] \in {"unusable", "invalid"}
    BY <1>0, <1>2, <1>3, <1>4, <1>7
  <1>13. TypeOK'
    BY <1>0, <1>3, <1>4, <1>5, <1>6, <1>7, <1>10, <1>11, <1>12 DEF TypeOK
  <1>14. Typed'
    BY <1>8, <1>9, <1>0, <1>13 DEF Typed, Gives
  <1>15. \A d \in Clients \ {c} : Kept(d)
    BY <1>3, <1>4, <1>5, <1>6, <1>7, <1>8, <1>9, <1>10 DEF Kept
  <1>. QED  BY <1>3, <1>4, <1>5, <1>6, <1>7, <1>8, <1>9, <1>14, <1>15

LEMMA Unmoved ==
    ASSUME Typed, NEW c \in Clients
    PROVE  /\ open = [open EXCEPT ![c] = open[c]] /\ view = [view EXCEPT ![c] = view[c]]
           /\ stage = [stage EXCEPT ![c] = stage[c]] /\ next = [next EXCEPT ![c] = next[c]]
           /\ outcome = [outcome EXCEPT ![c] = outcome[c]]
           /\ landed = [landed EXCEPT ![c] = landed[c]] /\ told = [told EXCEPT ![c] = told[c]]
  BY DEF Typed, TypeOK

LEMMA Types ==
    ASSUME Typed, NEW c \in Clients
    PROVE  /\ open[c] \in {"no", "write", "read"} /\ stage[c] \in Stages /\ next[c] \in Nat
           /\ landed[c] \in BOOLEAN /\ told[c] \in Answers
           /\ writer \in Clients \cup {NoOne}
           /\ open[c] = "write" <=> writer = c
           /\ stage[c] = "idle" /\ open[c] # "no" => told[c] \in {"unusable", "invalid"}
           /\ failures \in 0 .. MaxFailures /\ others \in 0 .. MaxOthers
           /\ Failing => failures' \in 0 .. MaxFailures
           /\ NoOne # c
  <1>1. /\ open[c] \in {"no", "write", "read"} /\ stage[c] \in Stages /\ next[c] \in Nat
        /\ landed[c] \in BOOLEAN /\ told[c] \in Answers
        /\ writer \in Clients \cup {NoOne}
        /\ open[c] = "write" <=> writer = c
        /\ stage[c] = "idle" /\ open[c] # "no" => told[c] \in {"unusable", "invalid"}
        /\ failures \in 0 .. MaxFailures /\ others \in 0 .. MaxOthers
    BY DEF Typed, TypeOK
  <1>2. Failing => failures' \in 0 .. MaxFailures
    BY <1>1, FailureBoundIsNat DEF Failing
  <1>. QED  BY <1>1, <1>2, NobodyIsNoClient

\* The body of ResultSound, of a result r.
ResultOf(c, r) ==
    /\ r = [ok |-> r.ok, what |-> r.what, batch |-> r.batch]
    /\ r.ok \in BOOLEAN
    /\ r.ok => r.what \in {"created", "already"}
    /\ ~r.ok => r.what \in {"database", "conflict", "history"}
    /\ r.what = "conflict" => Touched \/ Held \notin {Nothing, Package(c).says}
    /\ r.what = "history" => file.history

LEMMA NewResult ==
    ASSUME NEW c \in Clients, brought' = brought, file' = file, ResultOf(c, outcome'[c])
    PROVE  ResultSound(c)'
  BY DEF ResultSound, ResultOf, Touched, Held, Package

LEMMA FileKept ==
    ASSUME FileSound, brought' = brought, file' = file
    PROVE  FileSound'
  BY DEF FileSound, BatchOf, Package

LEMMA KeptSound ==
    ASSUME NEW d \in Clients, Kept(d), brought' = brought, file' = file,
           ResultSound(d), ViewSound(d), CallSound(d)
    PROVE  ResultSound(d)' /\ ViewSound(d)' /\ CallSound(d)'
  <1>1. ResultSound(d)'
    BY NewResult DEF Kept, ResultSound, ResultOf
  <1>2. ViewSound(d)'
    BY DEF Kept, ViewSound, BatchOf, Package, Partial
  <1>3. CallSound(d)'
    BY DEF Kept, CallSound
  <1>. QED  BY <1>1, <1>2, <1>3

\* The values that c's variables may have beside this file.
Fits(c, o, v, s, n, r, l, t) ==
    /\ ResultOf(c, r)
    /\ s = "inspect" => v = file
    /\ s = "insert" => /\ file = Empty /\ n \in 1 .. Len(Package(c).entities) + 1
                       /\ v = Partial(c, n)
    /\ s = "commit" =>
          /\ r.ok
          /\ \/ r.what = "already" /\ v = file
             \/ r.what = "created" /\ file = Empty /\ v = Pristine(BatchOf(c))
    /\ s \in {"inspect", "insert", "commit"} => o = "write"
    /\ s \in {"begin", "readback"} => o = "no"
    /\ s = "clean" => o # "read"
    /\ t = "pending" <=> s # "idle"
    /\ s \in {"begin", "inspect", "insert", "commit"} => l = FALSE
    /\ s \in {"clean", "readback"} /\ r.what = "created" => l = TRUE

LEMMA ClientFits ==
    ASSUME IInv, NEW c \in Clients
    PROVE  Fits(c, open[c], view[c], stage[c], next[c], outcome[c], landed[c], told[c])
  <1>1. ResultSound(c) /\ ViewSound(c) /\ CallSound(c)
    BY DEF IInv
  <1>2. ResultOf(c, outcome[c])
    BY <1>1 DEF ResultSound, ResultOf
  <1>3. open[c] = "write" <=> writer = c
    BY Types DEF IInv
  <1>4. landed[c] \in BOOLEAN
    BY Types DEF IInv
  <1>. QED  BY <1>1, <1>2, <1>3, <1>4 DEF ViewSound, CallSound, Fits

\* An action of c that leaves the file alone, by the values it gives.
LEMMA QuietMove ==
    ASSUME IInv, NEW c \in Clients, NEW o, NEW v, NEW s, NEW n, NEW r, NEW l, NEW t,
           Moves(c, o, v, s, n, r, l, t), file' = file, Fits(c, o, v, s, n, r, l, t)
    PROVE  IInv'
  <1>1. Typed /\ FileSound /\ \A d \in Clients : ResultSound(d) /\ ViewSound(d) /\ CallSound(d)
    BY DEF IInv
  <1>2. /\ Typed'
        /\ open'[c] = o /\ view'[c] = v /\ stage'[c] = s /\ next'[c] = n
        /\ outcome'[c] = r /\ landed'[c] = l /\ told'[c] = t
        /\ \A d \in Clients \ {c} : Kept(d)
    BY <1>1, MovesTyped
  <1>3. brought' = brought /\ Locks(c, o)
    BY DEF Moves, Gives
  <1>4. FileSound'
    BY <1>1, <1>3, FileKept
  <1>5. ResultSound(c)'
    BY <1>2, <1>3, NewResult DEF Fits
  <1>6. ViewSound(c)'
    <2>1. Package(c)' = Package(c) /\ BatchOf(c)' = BatchOf(c)
      BY <1>3 DEF Package, BatchOf
    <2>2. Partial(c, n)' = Partial(c, n)
      BY <1>3 DEF Partial, Package, BatchOf
    <2>. QED  BY <1>2, <2>1, <2>2 DEF ViewSound, Fits
  <1>7. CallSound(c)'
    <2>1. writer' = c <=> o = "write"
      BY <1>1, <1>3, Types DEF Locks
    <2>. QED  BY <1>2, <2>1 DEF CallSound, Fits
  <1>8. ASSUME NEW d \in Clients \ {c}
        PROVE  ResultSound(d)' /\ ViewSound(d)' /\ CallSound(d)'
    BY <1>1, <1>2, <1>3, KeptSound
  <1>9. \A d \in Clients : ResultSound(d)' /\ ViewSound(d)' /\ CallSound(d)'
    BY <1>5, <1>6, <1>7, <1>8
  <1>. QED  BY <1>2, <1>4, <1>9 DEF IInv

LEMMA NoResultOk ==
    ASSUME NEW c \in Clients
    PROVE  ResultOf(c, NoResult) /\ NoResult.what = "database" /\ NoResult.ok = FALSE
  BY DEF ResultOf, NoResult

\* The call is over and has an answer.
LEMMA ReturnMove ==
    ASSUME IInv, NEW c \in Clients, NEW o \in {"no", "write", "read"}, NEW v, NEW n \in Nat,
           NEW l \in BOOLEAN, NEW t \in Answers \ {"pending"},
           Gives(c, o, v, "idle", n, NoResult, l, t), Locks(c, o),
           o # "no" => t \in {"unusable", "invalid"},
           file' = file, failures' \in 0 .. MaxFailures, others' \in 0 .. MaxOthers
    PROVE  IInv'
  <1>1. Moves(c, o, v, "idle", n, NoResult, l, t)
    BY DEF Moves, Stages
  <1>2. Fits(c, o, v, "idle", n, NoResult, l, t)
    BY NoResultOk DEF Fits
  <1>. QED  BY <1>1, <1>2, QuietMove

LEMMA CallIInv ==
    ASSUME IInv, NEW c \in Clients, Call(c)
    PROVE  IInv'
  <1>. USE DEF IInv
  <1>1. /\ open[c] \in {"no", "write", "read"} /\ next[c] \in Nat /\ told[c] \in Answers
        /\ open[c] = "write" <=> writer = c
        /\ failures \in 0 .. MaxFailures /\ others \in 0 .. MaxOthers
    BY Types
  <1>2. /\ open = [open EXCEPT ![c] = open[c]] /\ view = [view EXCEPT ![c] = view[c]]
        /\ next = [next EXCEPT ![c] = next[c]] /\ outcome = [outcome EXCEPT ![c] = outcome[c]]
    BY Unmoved
  <1>3. Locks(c, open[c]) /\ file' = file
    BY <1>1 DEF Locks, Call
  <1>4. CASE open[c] = "no"
    <2>1. Moves(c, open[c], view[c], "begin", next[c], outcome[c], FALSE, "pending")
      BY <1>1, <1>2, <1>3, <1>4 DEF Call, Bring, Goto, Moves, Gives, Stages, Answers
    <2>2. Fits(c, open[c], view[c], "begin", next[c], outcome[c], FALSE, "pending")
      BY <1>4, ClientFits DEF Fits
    <2>. QED  BY <1>3, <2>1, <2>2, QuietMove
  <1>5. CASE open[c] # "no"
    <2>1. Gives(c, open[c], view[c], "idle", next[c], NoResult, FALSE, "invalid")
      BY <1>2, <1>5 DEF Call, Bring, Goto, Return, Gives
    <2>. QED  BY <1>1, <1>3, <2>1, ReturnMove DEF Call, Answers
  <1>. QED  BY <1>4, <1>5

LEMMA InspectTargetIInv ==
    ASSUME IInv, NEW c \in Clients, InspectTarget(c)
    PROVE  IInv'
  <1>. DEFINE t == Verdict(file, Package(c))
  <1>1. /\ open[c] \in {"no", "write", "read"} /\ next[c] \in Nat
        /\ open[c] = "write" <=> writer = c
        /\ failures \in 0 .. MaxFailures /\ others \in 0 .. MaxOthers
        /\ Failing => failures' \in 0 .. MaxFailures
    BY Types DEF IInv
  <1>2. /\ open = [open EXCEPT ![c] = open[c]] /\ view = [view EXCEPT ![c] = view[c]]
        /\ next = [next EXCEPT ![c] = next[c]]
    BY Unmoved DEF IInv
  <1>3. /\ file' = file /\ others' \in 0 .. MaxOthers
        /\ failures' = failures \/ Failing
    BY <1>1 DEF InspectTarget
  <1>4. Locks(c, open[c]) /\ (open[c] = "no" => Locks(c, "read"))
    BY <1>1 DEF Locks, InspectTarget
  <1>5. t \in Answers \ {"pending"}
    BY VerdictIs DEF Answers
  <1>. HIDE DEF t
  <1>6. CASE /\ open[c] # "no" /\ Return(c, "invalid") /\ open' = open
    <2>1. Gives(c, open[c], view[c], "idle", next[c], NoResult, FALSE, "invalid")
      BY <1>2, <1>6 DEF InspectTarget, Bring, Goto, Return, Gives
    <2>. QED  BY <1>1, <1>3, <1>4, <2>1, ReturnMove DEF Answers
  <1>7. CASE open[c] = "no" /\ Return(c, t) /\ open' = open
    <2>1. Gives(c, open[c], view[c], "idle", next[c], NoResult, FALSE, t)
      BY <1>2, <1>7 DEF InspectTarget, Bring, Goto, Return, Gives
    <2>. QED  BY <1>1, <1>3, <1>4, <1>5, <1>7, <2>1, ReturnMove
  <1>8. CASE open[c] = "no" /\ Return(c, "database") /\ open' = open
    <2>1. Gives(c, open[c], view[c], "idle", next[c], NoResult, FALSE, "database")
      BY <1>2, <1>8 DEF InspectTarget, Bring, Goto, Return, Gives
    <2>. QED  BY <1>1, <1>3, <1>4, <1>8, <2>1, ReturnMove DEF Answers
  <1>9. CASE open[c] = "no" /\ Return(c, "unusable") /\ open' = [open EXCEPT ![c] = "read"]
    <2>1. Gives(c, "read", view[c], "idle", next[c], NoResult, FALSE, "unusable")
      BY <1>2, <1>9 DEF InspectTarget, Bring, Goto, Return, Gives
    <2>. QED  BY <1>1, <1>3, <1>4, <1>9, <2>1, ReturnMove DEF Answers
  <1>. QED  BY <1>6, <1>7, <1>8, <1>9 DEF InspectTarget, t

\* What every action needs of c's variables.
LEMMA Before ==
    ASSUME IInv, NEW c \in Clients
    PROVE  /\ open[c] \in {"no", "write", "read"} /\ next[c] \in Nat /\ landed[c] \in BOOLEAN
           /\ told[c] \in Answers /\ stage[c] \in Stages
           /\ open[c] = "write" <=> writer = c
           /\ failures \in 0 .. MaxFailures /\ others \in 0 .. MaxOthers
           /\ Failing => failures' \in 0 .. MaxFailures
           /\ c # NoOne
           /\ open = [open EXCEPT ![c] = open[c]] /\ view = [view EXCEPT ![c] = view[c]]
           /\ next = [next EXCEPT ![c] = next[c]] /\ outcome = [outcome EXCEPT ![c] = outcome[c]]
           /\ landed = [landed EXCEPT ![c] = landed[c]] /\ told = [told EXCEPT ![c] = told[c]]
           /\ stage = [stage EXCEPT ![c] = stage[c]]
           /\ Fits(c, open[c], view[c], stage[c], next[c], outcome[c], landed[c], told[c])
  BY Types, Unmoved, ClientFits DEF IInv

LEMMA CloseLocks ==
    ASSUME IInv, NEW c \in Clients, Free(c)
    PROVE  Locks(c, "no")
  BY Before DEF Free, Locks

LEMMA BeginIInv ==
    ASSUME IInv, NEW c \in Clients, Begin(c)
    PROVE  IInv'
  <1>1. Locks(c, "write") /\ file' = file
    BY DEF Locks, Begin
  <1>2. Gives(c, "write", file, "inspect", next[c], outcome[c], landed[c], told[c])
    BY Before DEF Begin, Goto, Gives, callVars
  <1>3. Moves(c, "write", file, "inspect", next[c], outcome[c], landed[c], told[c])
    BY <1>1, <1>2, Before DEF Moves, Begin, Stages
  <1>4. Fits(c, open[c], view[c], "begin", next[c], outcome[c], landed[c], told[c])
    BY Before DEF Begin
  <1>5. Fits(c, "write", file, "inspect", next[c], outcome[c], landed[c], told[c])
    BY <1>4 DEF Fits
  <1>. QED  BY <1>1, <1>3, <1>5, QuietMove

LEMMA BeginFailsIInv ==
    ASSUME IInv, NEW c \in Clients, BeginFails(c)
    PROVE  IInv'
  <1>1. Gives(c, open[c], view[c], "idle", next[c], NoResult, landed[c], "database")
    BY Before DEF BeginFails, Return, Goto, Gives, callVars
  <1>2. open[c] = "no"
    BY Before DEF Fits, BeginFails
  <1>3. Locks(c, open[c]) /\ file' = file /\ failures' \in 0 .. MaxFailures /\ others' = others
    BY Before DEF Locks, BeginFails
  <1>. QED  BY <1>1, <1>2, <1>3, Before, ReturnMove DEF Answers

\* A result that is no receipt and says nothing of the file.
LEMMA FaultFits ==
    ASSUME NEW c \in Clients
    PROVE  LET r == [ok |-> FALSE, what |-> "database", batch |-> NoOne]
           IN  ResultOf(c, r) /\ r.what = "database"
  BY DEF ResultOf

FileOf(b, l, r) == [batch |-> b, history |-> FALSE, ledger |-> l, rows |-> r]
WithBatch(f, b) == [f EXCEPT !.batch = b]
WithMore(f, rows, ledger) == [f EXCEPT !.rows = @ \cup rows, !.ledger = @ \cup ledger]

LEMMA BatchUpdates ==
    ASSUME NEW b, NEW l, NEW r, NEW x
    PROVE  WithBatch(FileOf(b, l, r), x) = FileOf(x, l, r)
  <1>1. PICK h : h = FALSE
    OBVIOUS
  <1>2. PICK f : f = [batch |-> b, history |-> h, ledger |-> l, rows |-> r]
    OBVIOUS
  <1>3. [f EXCEPT !.batch = x] = [batch |-> x, history |-> h, ledger |-> l, rows |-> r]
    BY <1>2
  <1>4. f = FileOf(b, l, r) /\ [batch |-> x, history |-> h, ledger |-> l, rows |-> r] = FileOf(x, l, r)
    BY Zenon, <1>1, <1>2 DEF FileOf
  <1>. QED  BY Zenon, <1>3, <1>4 DEF WithBatch

LEMMA MoreUpdates ==
    ASSUME NEW b, NEW l, NEW r, NEW x, NEW y
    PROVE  WithMore(FileOf(b, l, r), x, y) = FileOf(b, l \cup y, r \cup x)
  <1>1. PICK h : h = FALSE
    OBVIOUS
  <1>2. PICK f, k, g :
            /\ f = [batch |-> b, history |-> h, ledger |-> l, rows |-> r]
            /\ k = [batch |-> b, history |-> h, ledger |-> l, rows |-> r \cup x]
            /\ g = [batch |-> b, history |-> h, ledger |-> l \cup y, rows |-> r \cup x]
    OBVIOUS
  <1>3. k = [f EXCEPT !.rows = @ \cup x]
    BY <1>2
  <1>4. g = [k EXCEPT !.ledger = @ \cup y]
    BY <1>2
  <1>5. g = [f EXCEPT !.rows = @ \cup x, !.ledger = @ \cup y]
    BY <1>3, <1>4
  <1>6. f = FileOf(b, l, r) /\ g = FileOf(b, l \cup y, r \cup x)
    BY Zenon, <1>1, <1>2 DEF FileOf
  <1>. QED  BY Zenon, <1>5, <1>6 DEF WithMore

LEMMA InspectIInv ==
    ASSUME IInv, NEW c \in Clients, Inspect(c)
    PROVE  IInv'
  <1>. DEFINE p == Package(c)
              verdict == Verdict(view[c], p)
              found == [ok |-> TRUE, what |-> "already", batch |-> view[c].batch.id]
              refused == [ok |-> FALSE, what |-> verdict, batch |-> NoOne]
              started == [view[c] EXCEPT !.batch = BatchOf(c)]
  <1>0. stage[c] = "inspect"
    BY DEF Inspect
  <1>1. view[c] = file /\ open[c] = "write" /\ landed[c] = FALSE /\ told[c] = "pending"
        /\ ResultOf(c, outcome[c])
    BY <1>0, Before DEF Fits
  <1>2. Locks(c, open[c]) /\ file' = file /\ failures' = failures /\ others' = others
    BY Before DEF Locks, Inspect
  <1>3. /\ verdict = "fresh" => file = Empty
        /\ verdict = "conflict" => Touched \/ Held \notin {Nothing, p.says}
        /\ verdict = "history" <=> file.history
    BY <1>1, VerdictTrue, VerdictIs DEF IInv
  <1>. HIDE DEF verdict, p
  <1>4. CASE /\ verdict = "fresh" /\ view' = [view EXCEPT ![c] = started]
             /\ next' = [next EXCEPT ![c] = 1] /\ Goto(c, "insert") /\ outcome' = outcome
    <2>1. Gives(c, open[c], started, "insert", 1, outcome[c], landed[c], told[c])
      BY <1>4, Before DEF Inspect, Goto, Gives, callVars
    <2>2. Moves(c, open[c], started, "insert", 1, outcome[c], landed[c], told[c])
      BY <1>2, <2>1, Before DEF Moves, Stages
    <2>3. file = Empty
      BY <1>3, <1>4
    <2>4. Len(Package(c).entities) \in Nat /\ DOMAIN Package(c).entities = 1 .. Len(Package(c).entities)
      BY BroughtIsName, Prepares DEF IInv
    <2>5. started = Partial(c, 1)
      <3>1. {i \in DOMAIN Package(c).entities : i < 1} = {}
        BY <2>4
      <3>2. Partial(c, 1) = [batch |-> BatchOf(c), history |-> FALSE, ledger |-> {}, rows |-> {}]
        BY <3>1 DEF Partial
      <3>3. view[c] = FileOf(NoBatch, {}, {})
        BY <1>1, <2>3 DEF Empty, FileOf
      <3>4. started = WithBatch(view[c], BatchOf(c))
        BY DEF WithBatch
      <3>5. Partial(c, 1) = FileOf(BatchOf(c), {}, {})
        BY <3>2 DEF FileOf
      <3>6. WithBatch(FileOf(NoBatch, {}, {}), BatchOf(c)) = FileOf(BatchOf(c), {}, {})
        BY BatchUpdates
      <3>. HIDE DEF started
      <3>. QED  BY <3>3, <3>4, <3>5, <3>6
    <2>6. 1 \in 1 .. Len(Package(c).entities) + 1
      BY <2>4
    <2>7. Fits(c, open[c], started, "insert", 1, outcome[c], landed[c], told[c])
      BY <1>1, <2>3, <2>5, <2>6 DEF Fits
    <2>. QED  BY <1>2, <2>2, <2>7, QuietMove
  <1>5. CASE /\ verdict = "already" /\ Result(c, TRUE, "already", view[c].batch.id)
             /\ Goto(c, "commit") /\ view' = view /\ next' = next
    <2>1. Gives(c, open[c], view[c], "commit", next[c], found, landed[c], told[c])
      BY <1>5, Before DEF Inspect, Result, Goto, Gives, callVars
    <2>2. Moves(c, open[c], view[c], "commit", next[c], found, landed[c], told[c])
      BY <1>2, <2>1, Before DEF Moves, Stages
    <2>3. ResultOf(c, found)
      BY DEF ResultOf
    <2>4. Fits(c, open[c], view[c], "commit", next[c], found, landed[c], told[c])
      BY <1>1, <2>3 DEF Fits
    <2>. QED  BY <1>2, <2>2, <2>4, QuietMove
  <1>6. CASE /\ verdict \in {"conflict", "history"} /\ Result(c, FALSE, verdict, NoOne)
             /\ Goto(c, "clean") /\ view' = view /\ next' = next
    <2>1. Gives(c, open[c], view[c], "clean", next[c], refused, landed[c], told[c])
      BY <1>6, Before DEF Inspect, Result, Goto, Gives, callVars
    <2>2. Moves(c, open[c], view[c], "clean", next[c], refused, landed[c], told[c])
      BY <1>2, <2>1, Before DEF Moves, Stages
    <2>3. ResultOf(c, refused)
      BY <1>3, <1>6 DEF ResultOf, p
    <2>4. Fits(c, open[c], view[c], "clean", next[c], refused, landed[c], told[c])
      BY <1>1, <1>6, <2>3 DEF Fits
    <2>. QED  BY <1>2, <2>2, <2>4, QuietMove
  <1>7. \/ /\ verdict = "fresh" /\ view' = [view EXCEPT ![c] = started]
           /\ next' = [next EXCEPT ![c] = 1] /\ Goto(c, "insert") /\ outcome' = outcome
        \/ /\ verdict = "already" /\ Result(c, TRUE, "already", view[c].batch.id)
           /\ Goto(c, "commit") /\ view' = view /\ next' = next
        \/ /\ verdict \in {"conflict", "history"} /\ Result(c, FALSE, verdict, NoOne)
           /\ Goto(c, "clean") /\ view' = view /\ next' = next
    BY DEF Inspect, BatchOf, verdict, p
  <1>. QED  BY <1>4, <1>5, <1>6, <1>7

\* The next entity: what the transaction sees grows by its row and its entry.
LEMMA PartialGrows ==
    ASSUME Typed, NEW c \in Clients, NEW k \in 1 .. Len(Package(c).entities)
    PROVE  [Partial(c, k) EXCEPT !.rows = @ \cup {Package(c).entities[k].row},
                                 !.ledger = @ \cup {Entry(Package(c).entities[k], c)}]
             = Partial(c, k + 1)
  <1>. DEFINE E == Package(c).entities
              rows(j) == {E[i].row : i \in {i \in DOMAIN E : i < j}}
              ledger(j) == {Entry(E[i], c) : i \in {i \in DOMAIN E : i < j}}
  <1>1. Len(E) \in Nat /\ DOMAIN E = 1 .. Len(E)
    BY BroughtIsName, Prepares
  <1>2. {i \in DOMAIN E : i < k + 1} = {i \in DOMAIN E : i < k} \cup {k}
    BY <1>1
  <1>3. rows(k + 1) = rows(k) \cup {E[k].row}
    BY <1>2
  <1>4. ledger(k + 1) = ledger(k) \cup {Entry(E[k], c)}
    BY <1>2
  <1>5. \A j : Partial(c, j) = FileOf(BatchOf(c), ledger(j), rows(j))
    BY DEF Partial, FileOf
  <1>. HIDE DEF rows, ledger, E
  <1>6. /\ Partial(c, k) = FileOf(BatchOf(c), ledger(k), rows(k))
        /\ Partial(c, k + 1) = FileOf(BatchOf(c), ledger(k + 1), rows(k + 1))
    BY <1>5
  <1>7. WithMore(Partial(c, k), {E[k].row}, {Entry(E[k], c)}) = Partial(c, k + 1)
    <2>1. WithMore(FileOf(BatchOf(c), ledger(k), rows(k)), {E[k].row}, {Entry(E[k], c)})
            = FileOf(BatchOf(c), ledger(k) \cup {Entry(E[k], c)}, rows(k) \cup {E[k].row})
      BY MoreUpdates
    <2>. QED  BY <1>3, <1>4, <1>6, <2>1
  <1>. QED  BY <1>7 DEF WithMore, E

LEMMA PartialFits ==
    ASSUME Typed, NEW c \in Clients, NEW k \in 1 .. Len(Package(c).entities)
    PROVE  Insertable(Package(c).entities[k].row, Partial(c, k).rows)
  <1>1. brought[c] \in Names /\ Package(c) = Prepared(brought[c])
    BY BroughtIsName
  <1>2. k \in DOMAIN Package(c).entities
    BY <1>1, Prepares
  <1>3. Insertable(Package(c).entities[k].row, Earlier(Package(c).entities, k))
    BY <1>1, <1>2, NameFacts
  <1>4. Partial(c, k).rows = Earlier(Package(c).entities, k)
    BY DEF Partial, Earlier
  <1>. QED  BY <1>3, <1>4

\* All of it: what the readback inspects is the whole import, and it is found.
LEMMA PartialWhole ==
    ASSUME Typed, NEW c \in Clients
    PROVE  /\ Partial(c, Len(Package(c).entities) + 1) = Pristine(BatchOf(c))
           /\ Verdict(Pristine(BatchOf(c)), Package(c)) = "already"
  <1>1. /\ brought[c] \in Names /\ Package(c) = Prepared(brought[c])
        /\ BatchOf(c) # NoBatch /\ BatchOf(c).id = c /\ BatchOf(c).of = brought[c]
        /\ BatchOf(c).fp = Prepared(brought[c]).fp
    BY BroughtIsName
  <1>. DEFINE E == Package(c).entities
              done == {i \in DOMAIN E : i < Len(E) + 1}
  <1>2. Len(E) \in Nat /\ DOMAIN E = 1 .. Len(E)
    BY <1>1, Prepares
  <1>3. done = DOMAIN E
    BY <1>2
  <1>4. {Entry(E[i], c) : i \in done} = EntriesOf(brought[c], c)
    BY <1>1, <1>3 DEF EntriesOf
  <1>5. {E[i].row : i \in done} = RowsOf(brought[c])
    BY <1>1, <1>3 DEF RowsOf
  <1>6. Partial(c, Len(E) + 1) = [batch |-> BatchOf(c), history |-> FALSE,
                                  ledger |-> {Entry(E[i], c) : i \in done},
                                  rows |-> {E[i].row : i \in done}]
    BY DEF Partial
  <1>7. Partial(c, Len(E) + 1) = Pristine(BatchOf(c))
    BY <1>1, <1>4, <1>5, <1>6, PristineIs
  <1>8. HoldsExactly(Pristine(BatchOf(c)), Package(c))
    BY <1>1, PristineIsFound
  <1>9. Pristine(BatchOf(c)).history = FALSE
    BY <1>1, PristineIs
  <1>10. Verdict(Pristine(BatchOf(c)), Package(c)) = "already"
    BY <1>8, <1>9, VerdictIs
  <1>. QED  BY <1>7, <1>10

LEMMA InsertIInv ==
    ASSUME IInv, NEW c \in Clients, Insert(c)
    PROVE  IInv'
  <1>. DEFINE k == next[c]
              e == Package(c).entities[k]
              more == [view[c] EXCEPT !.rows = @ \cup {e.row}, !.ledger = @ \cup {Entry(e, c)}]
  <1>0. stage[c] = "insert"
    BY DEF Insert
  <1>1. /\ file = Empty /\ k \in 1 .. Len(Package(c).entities) + 1 /\ view[c] = Partial(c, k)
        /\ open[c] = "write" /\ landed[c] = FALSE /\ told[c] = "pending"
        /\ ResultOf(c, outcome[c])
    BY <1>0, Before DEF Fits
  <1>2. Locks(c, open[c]) /\ file' = file /\ failures' = failures /\ others' = others
    BY Before DEF Locks, Insert
  <1>3. Typed
    BY DEF IInv
  <1>4. Len(Package(c).entities) \in Nat
    BY <1>3, BroughtIsName, Prepares
  <1>5. k \in 1 .. Len(Package(c).entities) /\ k + 1 \in 1 .. Len(Package(c).entities) + 1
    BY <1>1, <1>4 DEF Insert
  <1>6. Insertable(e.row, view[c].rows)
    BY <1>1, <1>3, <1>5, PartialFits
  <1>7. /\ view' = [view EXCEPT ![c] = more] /\ next' = [next EXCEPT ![c] = k + 1]
        /\ stage' = stage /\ outcome' = outcome
    BY <1>6 DEF Insert
  <1>8. more = Partial(c, k + 1)
    BY <1>1, <1>3, <1>5, PartialGrows
  <1>. HIDE DEF more
  <1>9. Gives(c, open[c], more, "insert", k + 1, outcome[c], landed[c], told[c])
    BY <1>0, <1>7, Before DEF Insert, Gives, callVars
  <1>10. Moves(c, open[c], more, "insert", k + 1, outcome[c], landed[c], told[c])
    BY <1>2, <1>9, Before DEF Moves, Stages
  <1>11. Fits(c, open[c], more, "insert", k + 1, outcome[c], landed[c], told[c])
    BY <1>1, <1>5, <1>8 DEF Fits
  <1>. QED  BY <1>2, <1>10, <1>11, QuietMove

LEMMA CheckIInv ==
    ASSUME IInv, NEW c \in Clients, Check(c)
    PROVE  IInv'
  <1>. DEFINE made == [ok |-> TRUE, what |-> "created", batch |-> c]
  <1>0. stage[c] = "insert"
    BY DEF Check
  <1>1. /\ file = Empty /\ next[c] \in 1 .. Len(Package(c).entities) + 1
        /\ view[c] = Partial(c, next[c])
        /\ open[c] = "write" /\ landed[c] = FALSE /\ told[c] = "pending"
    BY <1>0, Before DEF Fits
  <1>2. Locks(c, open[c]) /\ file' = file /\ failures' = failures /\ others' = others
    BY Before DEF Locks, Check
  <1>3. Typed
    BY DEF IInv
  <1>4. Len(Package(c).entities) \in Nat
    BY <1>3, BroughtIsName, Prepares
  <1>5. next[c] = Len(Package(c).entities) + 1
    BY <1>1, <1>4 DEF Check
  <1>6. view[c] = Pristine(BatchOf(c)) /\ Verdict(view[c], Package(c)) = "already"
    BY <1>1, <1>3, <1>5, PartialWhole
  <1>7. outcome' = [outcome EXCEPT ![c] = made] /\ Goto(c, "commit")
    BY <1>6 DEF Check, Result
  <1>8. Gives(c, open[c], view[c], "commit", next[c], made, landed[c], told[c])
    BY <1>7, Before DEF Check, Goto, Gives, callVars
  <1>9. Moves(c, open[c], view[c], "commit", next[c], made, landed[c], told[c])
    BY <1>2, <1>8, Before DEF Moves, Stages
  <1>10. ResultOf(c, made)
    BY DEF ResultOf
  <1>11. Fits(c, open[c], view[c], "commit", next[c], made, landed[c], told[c])
    BY <1>1, <1>6, <1>10 DEF Fits
  <1>. QED  BY <1>2, <1>9, <1>11, QuietMove

LEMMA StatementFailsIInv ==
    ASSUME IInv, NEW c \in Clients, StatementFails(c)
    PROVE  IInv'
  <1>. DEFINE fault == [ok |-> FALSE, what |-> "database", batch |-> NoOne]
  <1>1. ResultOf(c, fault) /\ fault.what = "database"
    BY FaultFits
  <1>. HIDE DEF fault
  <1>2. /\ outcome' = [outcome EXCEPT ![c] = fault] /\ Goto(c, "clean") /\ file' = file
        /\ landed' = landed /\ brought' = brought /\ told' = told
        /\ failures' \in 0 .. MaxFailures /\ others' = others
    BY Before DEF StatementFails, Result, callVars, fault
  <1>3. told[c] = "pending" /\ open[c] = "write"
    BY Before DEF StatementFails, Fits
  <1>4. CASE Close(c)
    <2>1. Gives(c, "no", Empty, "clean", 0, fault, landed[c], told[c])
      BY <1>2, <1>4, Before DEF Close, Goto, Gives
    <2>2. Locks(c, "no")
      BY <1>4, CloseLocks DEF Close
    <2>3. Moves(c, "no", Empty, "clean", 0, fault, landed[c], told[c])
      BY <1>2, <2>1, <2>2, Before DEF Moves, Stages
    <2>4. Fits(c, "no", Empty, "clean", 0, fault, landed[c], told[c])
      BY <1>1, <1>3 DEF Fits
    <2>. QED  BY <1>2, <2>3, <2>4, QuietMove
  <1>5. CASE open' = open /\ writer' = writer /\ view' = view /\ next' = next
    <2>1. Gives(c, open[c], view[c], "clean", next[c], fault, landed[c], told[c])
      BY <1>2, <1>5, Before DEF Goto, Gives
    <2>2. Locks(c, open[c])
      BY <1>5, Before DEF Locks
    <2>3. Moves(c, open[c], view[c], "clean", next[c], fault, landed[c], told[c])
      BY <1>2, <2>1, <2>2, Before DEF Moves, Stages
    <2>4. Fits(c, open[c], view[c], "clean", next[c], fault, landed[c], told[c])
      BY <1>1, <1>3 DEF Fits
    <2>. QED  BY <1>2, <2>3, <2>4, QuietMove
  <1>. QED  BY <1>4, <1>5 DEF StatementFails

LEMMA CleanIInv ==
    ASSUME IInv, NEW c \in Clients, Clean(c)
    PROVE  IInv'
  <1>1. stage[c] = "clean" /\ Close(c) /\ Goto(c, "readback") /\ file' = file
        /\ landed' = landed /\ brought' = brought /\ told' = told /\ outcome' = outcome
        /\ failures' = failures /\ others' = others
    BY DEF Clean, callVars
  <1>2. Gives(c, "no", Empty, "readback", 0, outcome[c], landed[c], told[c])
    BY <1>1, Before DEF Close, Goto, Gives
  <1>3. Locks(c, "no")
    BY <1>1, CloseLocks DEF Close
  <1>4. Moves(c, "no", Empty, "readback", 0, outcome[c], landed[c], told[c])
    BY <1>1, <1>2, <1>3, Before DEF Moves, Stages
  <1>5. Fits(c, open[c], view[c], "clean", next[c], outcome[c], landed[c], told[c])
    BY <1>1, Before
  <1>6. Fits(c, "no", Empty, "readback", 0, outcome[c], landed[c], told[c])
    BY <1>5 DEF Fits
  <1>. QED  BY <1>1, <1>4, <1>6, QuietMove

LEMMA CleanFailsIInv ==
    ASSUME IInv, NEW c \in Clients, CleanFails(c)
    PROVE  IInv'
  <1>1. Gives(c, open[c], view[c], "idle", next[c], NoResult, landed[c], "unusable")
    BY Before DEF CleanFails, Return, Goto, Gives, callVars
  <1>2. Locks(c, open[c]) /\ file' = file /\ failures' \in 0 .. MaxFailures /\ others' = others
    BY Before DEF Locks, CleanFails
  <1>. QED  BY <1>1, <1>2, Before, ReturnMove DEF Answers

\* Whatever the second inspection finds, the call has an answer.
LEMMA AnsweredIs ==
    ASSUME IInv, NEW c \in Clients, NEW v
    PROVE  Answered(c, v) \in Answers \ {"pending"}
  <1>1. ResultOf(c, outcome[c])
    BY Before DEF Fits
  <1>2. outcome[c].what \in {"created", "already", "database", "conflict", "history"}
    BY <1>1 DEF ResultOf
  <1>3. Answered(c, v) \in {"created", "already", "database", "conflict", "history"}
    BY <1>1, <1>2 DEF Answered, ResultOf
  <1>. QED  BY <1>3 DEF Answers

LEMMA ReadbackIInv ==
    ASSUME IInv, NEW c \in Clients, Readback(c)
    PROVE  IInv'
  <1>. DEFINE t == Answered(c, Verdict(file, Package(c)))
  <1>1. t \in Answers \ {"pending"}
    BY AnsweredIs
  <1>2. Return(c, t)
    BY DEF Readback
  <1>. HIDE DEF t
  <1>3. Gives(c, open[c], view[c], "idle", next[c], NoResult, landed[c], t)
    BY <1>2, Before DEF Readback, Return, Goto, Gives, callVars
  <1>4. Locks(c, open[c]) /\ file' = file /\ failures' = failures /\ others' = others
    BY Before DEF Locks, Readback
  <1>5. open[c] = "no"
    BY Before DEF Readback, Fits
  <1>. QED  BY <1>1, <1>3, <1>4, <1>5, Before, ReturnMove

LEMMA ReadbackFailsIInv ==
    ASSUME IInv, NEW c \in Clients, ReadbackFails(c)
    PROVE  IInv'
  <1>. DEFINE t == Answered(c, "failed")
  <1>1. t \in Answers \ {"pending"}
    BY AnsweredIs
  <1>2. /\ file' = file /\ failures' \in 0 .. MaxFailures /\ others' = others
        /\ writer' = writer /\ view' = view /\ next' = next
        /\ landed' = landed /\ brought' = brought
    BY Before DEF ReadbackFails, callVars
  <1>3. open[c] = "no" /\ Locks(c, "no") /\ Locks(c, "read")
    BY <1>2, Before DEF ReadbackFails, Fits, Locks
  <1>4. \/ Return(c, "database") /\ open' = open
        \/ Return(c, t) /\ open' = open
        \/ Return(c, "unusable") /\ open' = [open EXCEPT ![c] = "read"]
    BY DEF ReadbackFails
  <1>. HIDE DEF t
  <1>5. ASSUME NEW a, Return(c, a), open' = open
        PROVE  Gives(c, open[c], view[c], "idle", next[c], NoResult, landed[c], a)
    BY <1>2, <1>5, Before DEF Return, Goto, Gives
  <1>6. CASE Return(c, "database") /\ open' = open
    BY <1>2, <1>3, <1>5, <1>6, Before, ReturnMove DEF Answers
  <1>7. CASE Return(c, t) /\ open' = open
    BY <1>1, <1>2, <1>3, <1>5, <1>7, Before, ReturnMove
  <1>8. CASE Return(c, "unusable") /\ open' = [open EXCEPT ![c] = "read"]
    <2>1. Gives(c, "read", view[c], "idle", next[c], NoResult, landed[c], "unusable")
      BY <1>2, <1>8, Before DEF Return, Goto, Gives
    <2>. QED  BY <1>2, <1>3, <2>1, Before, ReturnMove DEF Answers
  <1>. QED  BY <1>4, <1>6, <1>7, <1>8

LEMMA EndsIInv ==
    ASSUME IInv, NEW c \in Clients, Ends(c)
    PROVE  IInv'
  <1>1. Gives(c, "no", Empty, "idle", 0, NoResult, FALSE, "none")
    BY Before DEF Ends, Close, Return, Goto, Gives
  <1>2. Locks(c, "no")
    BY CloseLocks DEF Ends, Close
  <1>3. file' = file /\ failures' \in 0 .. MaxFailures /\ others' = others
    BY Before DEF Ends
  <1>. QED  BY <1>1, <1>2, <1>3, Before, ReturnMove DEF Answers

\* A transaction that created an import commits: the file is that import.
LEMMA LandIInv ==
    ASSUME IInv, NEW c \in Clients, stage[c] = "commit", outcome[c].what = "created",
           NEW r, ResultOf(c, r), r.what \in {"created", "database"},
           Install(c), Goto(c, "clean"), outcome' = [outcome EXCEPT ![c] = r],
           told' = told, brought' = brought,
           failures' \in 0 .. MaxFailures, others' = others
    PROVE  IInv'
  <1>1. Typed /\ FileSound /\ \A d \in Clients : ResultSound(d) /\ ViewSound(d) /\ CallSound(d)
    BY DEF IInv
  <1>2. /\ file = Empty /\ view[c] = Pristine(BatchOf(c)) /\ open[c] = "write"
        /\ told[c] = "pending" /\ writer = c
    BY Before DEF Fits
  <1>3. /\ brought[c] \in Names /\ BatchOf(c) # NoBatch
        /\ BatchOf(c).id = c /\ BatchOf(c).of = brought[c]
    BY <1>1, BroughtIsName
  <1>4. /\ file' = [batch |-> BatchOf(c), history |-> FALSE,
                    ledger |-> EntriesOf(brought[c], c), rows |-> RowsOf(brought[c])]
        /\ file'.batch = BatchOf(c) /\ file'.history = FALSE
        /\ file'.rows = RowsOf(brought[c])
    <2>1. file' = Pristine(BatchOf(c))
      BY <1>2 DEF Install
    <2>2. Pristine(BatchOf(c)) = [batch |-> BatchOf(c), history |-> FALSE,
                                  ledger |-> EntriesOf(brought[c], c), rows |-> RowsOf(brought[c])]
      BY <1>3, PristineIs
    <2>. QED  BY <2>1, <2>2
  <1>5. file' = Pristine(file'.batch)
    BY <1>2, <1>4 DEF Install
  <1>6. view[c] # file
    BY <1>2, <1>3, <1>4, EmptyIs DEF Install
  <1>7. Gives(c, "no", Empty, "clean", 0, r, TRUE, told[c])
    BY <1>6, Before DEF Install, Close, Goto, Gives
  <1>8. Locks(c, "no")
    BY CloseLocks DEF Install, Close
  <1>9. Moves(c, "no", Empty, "clean", 0, r, TRUE, told[c])
    BY <1>7, <1>8, Before DEF Moves, Stages
  <1>10. /\ Typed'
         /\ open'[c] = "no" /\ stage'[c] = "clean" /\ outcome'[c] = r /\ landed'[c] = TRUE
         /\ told'[c] = told[c] /\ \A d \in Clients \ {c} : Kept(d)
    <2>1. PICK o, v, s, n, l, t : /\ o = "no" /\ v = Empty /\ s = "clean" /\ n = 0
                                  /\ l = TRUE /\ t = told[c]
      OBVIOUS
    <2>2. Moves(c, o, v, s, n, r, l, t)
      BY <1>9, <2>1
    <2>3. /\ Typed' /\ \A d \in Clients \ {c} : Kept(d)
          /\ open'[c] = o /\ stage'[c] = s /\ outcome'[c] = r /\ landed'[c] = l
          /\ told'[c] = t
      BY <1>1, <2>2, MovesTyped
    <2>. QED  BY <2>1, <2>3
  <1>11. FileSound'
    <2>1. BatchOf(c)' = BatchOf(c)
      BY DEF BatchOf, Package
    <2>2. \E d \in Clients : file'.batch = BatchOf(d)'
      BY <1>4, <2>1
    <2>3. IsFiniteSet(file'.rows)
      BY <1>3, <1>4, AllRows
    <2>4. file' = [batch |-> file'.batch, ledger |-> file'.ledger, rows |-> file'.rows,
                   history |-> file'.history]
      BY <1>4
    <2>5. file'.ledger \subseteq Pristine(file'.batch).ledger /\ file'.rows = Pristine(file'.batch).rows
      BY <1>5
    <2>. QED  BY <1>4, <2>2, <2>3, <2>4, <2>5 DEF FileSound
  <1>12. ResultSound(c)' /\ ViewSound(c)' /\ CallSound(c)'
    <2>1. ResultSound(c)'
      BY <1>10 DEF ResultSound, ResultOf
    <2>. QED  BY <1>2, <1>10, <2>1 DEF ViewSound, CallSound
  <1>13. ASSUME NEW d \in Clients \ {c}
         PROVE  ResultSound(d)' /\ ViewSound(d)' /\ CallSound(d)'
    <2>1. Kept(d) /\ ResultSound(d) /\ CallSound(d)
      BY <1>1, <1>10
    <2>2. ~Touched /\ Held = Nothing /\ file.history = FALSE
      BY <1>2, EmptyIs DEF Touched, Held
    <2>3. outcome[d].what \notin {"conflict", "history"}
      BY <2>1, <2>2 DEF ResultSound
    <2>4. ResultSound(d)'
      BY <2>1, <2>3 DEF ResultSound, Kept
    <2>5. stage[d] \notin {"inspect", "insert", "commit"}
      BY <1>2, <2>1 DEF CallSound
    <2>6. ViewSound(d)'
      BY <2>1, <2>5 DEF ViewSound, Kept
    <2>7. CallSound(d)'
      BY <2>1 DEF CallSound, Kept
    <2>. QED  BY <2>4, <2>6, <2>7
  <1>14. \A d \in Clients : ResultSound(d)' /\ ViewSound(d)' /\ CallSound(d)'
    BY <1>12, <1>13
  <1>. QED  BY <1>10, <1>11, <1>14 DEF IInv

\* A transaction that wrote nothing commits: the file is what it was.
LEMMA FoundIInv ==
    ASSUME IInv, NEW c \in Clients, stage[c] = "commit", outcome[c].what = "already",
           NEW r, ResultOf(c, r), r.what \in {"already", "database"},
           Install(c), Goto(c, "clean"), outcome' = [outcome EXCEPT ![c] = r],
           told' = told, brought' = brought,
           failures' \in 0 .. MaxFailures, others' = others
    PROVE  IInv' /\ file' = file
  <1>1. view[c] = file /\ told[c] = "pending"
    BY Before DEF Fits
  <1>2. file' = file
    BY <1>1 DEF Install
  <1>3. Gives(c, "no", Empty, "clean", 0, r, FALSE, told[c])
    BY <1>1, Before DEF Install, Close, Goto, Gives
  <1>4. Locks(c, "no")
    BY CloseLocks DEF Install, Close
  <1>5. Moves(c, "no", Empty, "clean", 0, r, FALSE, told[c])
    BY <1>3, <1>4, Before DEF Moves, Stages
  <1>6. Fits(c, "no", Empty, "clean", 0, r, FALSE, told[c])
    BY <1>1 DEF Fits
  <1>. QED  BY <1>2, <1>5, <1>6, QuietMove

LEMMA InstallIInv ==
    ASSUME IInv, NEW c \in Clients, stage[c] = "commit",
           NEW r, ResultOf(c, r), r = outcome[c] \/ r.what = "database",
           Install(c), Goto(c, "clean"), outcome' = [outcome EXCEPT ![c] = r],
           told' = told, brought' = brought,
           failures' \in 0 .. MaxFailures, others' = others
    PROVE  IInv'
  <1>1. outcome[c].what \in {"created", "already"}
    BY Before DEF Fits
  <1>. QED  BY <1>1, LandIInv, FoundIInv

LEMMA CommitIInv ==
    ASSUME IInv, NEW c \in Clients, Commit(c)
    PROVE  IInv'
  <1>1. /\ outcome' = [outcome EXCEPT ![c] = outcome[c]] /\ ResultOf(c, outcome[c])
        /\ failures' \in 0 .. MaxFailures
    BY Before DEF Commit, Fits
  <1>. QED  BY <1>1, InstallIInv DEF Commit

LEMMA CommitFailsIInv ==
    ASSUME IInv, NEW c \in Clients, CommitFails(c)
    PROVE  IInv'
  <1>. DEFINE fault == [ok |-> FALSE, what |-> "database", batch |-> NoOne]
  <1>1. ResultOf(c, fault) /\ fault.what = "database"
    BY FaultFits
  <1>. HIDE DEF fault
  <1>2. /\ stage[c] = "commit" /\ outcome' = [outcome EXCEPT ![c] = fault] /\ Goto(c, "clean")
        /\ brought' = brought /\ told' = told
        /\ failures' \in 0 .. MaxFailures /\ others' = others
    BY Before DEF CommitFails, Result, fault
  <1>3. told[c] = "pending" /\ open[c] = "write"
    BY <1>2, Before DEF Fits
  <1>4. CASE Close(c) /\ file' = file /\ landed' = landed
    <2>1. Gives(c, "no", Empty, "clean", 0, fault, landed[c], told[c])
      BY <1>2, <1>4, Before DEF Close, Goto, Gives
    <2>2. Locks(c, "no")
      BY <1>4, CloseLocks DEF Close
    <2>3. Moves(c, "no", Empty, "clean", 0, fault, landed[c], told[c])
      BY <1>2, <2>1, <2>2, Before DEF Moves, Stages
    <2>4. Fits(c, "no", Empty, "clean", 0, fault, landed[c], told[c])
      BY <1>1, <1>3 DEF Fits
    <2>. QED  BY <1>4, <2>3, <2>4, QuietMove
  <1>5. CASE /\ file' = file /\ landed' = landed
             /\ open' = open /\ writer' = writer /\ view' = view /\ next' = next
    <2>1. Gives(c, open[c], view[c], "clean", next[c], fault, landed[c], told[c])
      BY <1>2, <1>5, Before DEF Goto, Gives
    <2>2. Locks(c, open[c])
      BY <1>5, Before DEF Locks
    <2>3. Moves(c, open[c], view[c], "clean", next[c], fault, landed[c], told[c])
      BY <1>2, <2>1, <2>2, Before DEF Moves, Stages
    <2>4. Fits(c, open[c], view[c], "clean", next[c], fault, landed[c], told[c])
      BY <1>1, <1>3 DEF Fits
    <2>. QED  BY <1>5, <2>3, <2>4, QuietMove
  <1>6. CASE Install(c)
    BY <1>1, <1>2, <1>6, InstallIInv
  <1>. QED  BY <1>4, <1>5, <1>6 DEF CommitFails

(* Other users of the file.                                                *)

FileWith(b, h, l, r) == [batch |-> b, history |-> h, ledger |-> l, rows |-> r]

WithHistory(f, x) == [f EXCEPT !.history = x]
WithLedger(f, x) == [f EXCEPT !.ledger = x]
WithRows(f, x) == [f EXCEPT !.rows = x]

LEMMA FileUpdates ==
    ASSUME NEW b, NEW h, NEW l, NEW r, NEW x
    PROVE  /\ WithHistory(FileWith(b, h, l, r), x) = FileWith(b, x, l, r)
           /\ WithLedger(FileWith(b, h, l, r), x) = FileWith(b, h, x, r)
           /\ WithRows(FileWith(b, h, l, r), x) = FileWith(b, h, l, x)
  BY DEF FileWith, WithHistory, WithLedger, WithRows

LEMMA UsedIs ==
    ASSUME FileSound, NEW g \in Used(file)
    PROVE  /\ g = [batch |-> g.batch, ledger |-> g.ledger, rows |-> g.rows, history |-> g.history]
           /\ g.batch = file.batch
           /\ \/ g.history = TRUE /\ g.ledger = file.ledger /\ g.rows = file.rows
              \/ /\ g.history = file.history /\ g.ledger = file.ledger
                 /\ \E r \in g.rows : Foreign(r) /\ g.rows \subseteq file.rows \cup {r}
              \/ /\ g.history = file.history /\ g.rows = file.rows
                 /\ \E e \in file.ledger : g.ledger = file.ledger \ {e}
  <1>1. file = FileWith(file.batch, file.history, file.ledger, file.rows)
    BY DEF FileSound, FileWith
  <1>2. ASSUME NEW b, NEW h, NEW l, NEW r, NEW f, f = FileWith(b, h, l, r)
        PROVE  /\ f = [batch |-> f.batch, ledger |-> f.ledger, rows |-> f.rows, history |-> f.history]
               /\ f.batch = b /\ f.history = h /\ f.ledger = l /\ f.rows = r
    BY <1>2 DEF FileWith
  <1>3. CASE g = [file EXCEPT !.history = TRUE]
    <2>1. PICK x : x = TRUE
      OBVIOUS
    <2>2. g = FileWith(file.batch, x, file.ledger, file.rows)
      <3>1. g = WithHistory(file, x)
        BY <1>3, <2>1 DEF WithHistory
      <3>. QED  BY <1>1, <3>1, FileUpdates
    <2>3. /\ g = [batch |-> g.batch, ledger |-> g.ledger, rows |-> g.rows, history |-> g.history]
          /\ g.batch = file.batch /\ g.history = x /\ g.ledger = file.ledger /\ g.rows = file.rows
      BY <1>2, <2>2
    <2>. QED  BY <2>1, <2>3
  <1>4. ASSUME NEW s, NEW r \in s, Foreign(r), s \subseteq file.rows \cup {r},
               g = [file EXCEPT !.rows = s]
        PROVE  /\ g = [batch |-> g.batch, ledger |-> g.ledger, rows |-> g.rows, history |-> g.history]
               /\ g.batch = file.batch /\ g.history = file.history /\ g.ledger = file.ledger
               /\ \E q \in g.rows : Foreign(q) /\ g.rows \subseteq file.rows \cup {q}
    <2>1. g = FileWith(file.batch, file.history, file.ledger, s)
      <3>1. g = WithRows(file, s)
        BY <1>4 DEF WithRows
      <3>. QED  BY <1>1, <3>1, FileUpdates
    <2>. QED  BY <1>2, <1>4, <2>1
  <1>5. CASE g = [file EXCEPT !.rows = @ \cup {Alien}]
    <2>1. Foreign(Alien)
      BY DEF Foreign
    <2>. QED  BY <1>4, <1>5, <2>1
  <1>6. CASE \E r \in file.rows : g = [file EXCEPT !.rows = (@ \ {r}) \cup {Edited(r)}]
    <2>1. PICK r \in file.rows : g = [file EXCEPT !.rows = (@ \ {r}) \cup {Edited(r)}]
      BY <1>6
    <2>2. Foreign(Edited(r))
      BY DEF Foreign, Edited
    <2>. QED  BY <1>4, <2>1, <2>2
  <1>7. CASE \E e \in file.ledger : g = [file EXCEPT !.ledger = @ \ {e}]
    <2>1. PICK e \in file.ledger : g = [file EXCEPT !.ledger = @ \ {e}]
      BY <1>7
    <2>2. g = FileWith(file.batch, file.history, file.ledger \ {e}, file.rows)
      <3>1. g = WithLedger(file, file.ledger \ {e})
        BY <2>1 DEF WithLedger
      <3>. QED  BY <1>1, <3>1, FileUpdates
    <2>. QED  BY <1>2, <2>2
  <1>. QED  BY <1>3, <1>5, <1>6, <1>7 DEF Used

\* A use of the file shows: no import has its history, its row or its ledger.
LEMMA UsedShows ==
    ASSUME Typed, FileSound, NEW g \in Used(file) \ {file}
    PROVE  g # Pristine(g.batch)
  <1>1. /\ g.batch = file.batch
        /\ \/ g.history = TRUE /\ g.ledger = file.ledger /\ g.rows = file.rows
           \/ /\ g.history = file.history /\ g.ledger = file.ledger
              /\ \E r \in g.rows : Foreign(r) /\ g.rows \subseteq file.rows \cup {r}
           \/ /\ g.history = file.history /\ g.rows = file.rows
              /\ \E e \in file.ledger : g.ledger = file.ledger \ {e}
    BY UsedIs
  <1>2. Pristine(g.batch).history = FALSE
    BY EmptyIs, PristineIs
  <1>3. file.ledger \subseteq Pristine(g.batch).ledger
    BY <1>1 DEF FileSound
  <1>4. ASSUME NEW r \in Pristine(g.batch).rows
        PROVE  ~Foreign(r)
    <2>1. g.batch # NoBatch
      BY <1>4, EmptyIs
    <2>2. g.batch.of \in Names
      BY <1>1, <2>1, FileNames
    <2>3. Pristine(g.batch).rows = RowsOf(g.batch.of)
      BY <2>1, PristineIs
    <2>. QED  BY <1>4, <2>2, <2>3, NameFacts DEF RowsOf, Foreign
  <1>. QED  BY <1>1, <1>2, <1>3, <1>4

LEMMA OthersIInv ==
    ASSUME IInv, Others
    PROVE  IInv' /\ Touched'
  <1>1. Typed /\ FileSound /\ \A d \in Clients : ResultSound(d) /\ ViewSound(d) /\ CallSound(d)
    BY DEF IInv
  <1>2. file' \in Used(file) \ {file} /\ writer = NoOne /\ writer' = NoOne
    BY DEF Others
  <1>3. /\ file' = [batch |-> file'.batch, ledger |-> file'.ledger, rows |-> file'.rows,
                    history |-> file'.history]
        /\ file'.batch = file.batch
        /\ \/ file'.history = TRUE /\ file'.ledger = file.ledger /\ file'.rows = file.rows
           \/ /\ file'.history = file.history /\ file'.ledger = file.ledger
              /\ \E r \in file'.rows : Foreign(r) /\ file'.rows \subseteq file.rows \cup {r}
           \/ /\ file'.history = file.history /\ file'.rows = file.rows
              /\ \E e \in file.ledger : file'.ledger = file.ledger \ {e}
    BY <1>1, <1>2, UsedIs
  <1>4. Touched'
    BY <1>1, <1>2, UsedShows DEF Touched
  <1>5. brought' = brought /\ \A d \in Clients : Kept(d)
    BY DEF Others, Kept, callVars
  <1>6. Typed'
    <2>1. TypeOK'
      <3>1. others' \in 0 .. MaxOthers
        <4>1. others \in 0 .. MaxOthers
          BY <1>1 DEF Typed, TypeOK
        <4>. QED  BY <4>1, FailureBoundIsNat DEF Others
      <3>. QED  BY <1>1, <3>1 DEF Typed, TypeOK, Others, callVars
    <2>. QED  BY <1>1, <2>1 DEF Typed, Others, callVars
  <1>7. FileSound'
    <2>1. file'.history \in BOOLEAN
      BY <1>1, <1>3 DEF FileSound
    <2>2. file'.batch = NoBatch \/ \E c \in Clients : file'.batch = BatchOf(c)'
      BY <1>1, <1>3, <1>5 DEF FileSound, BatchOf, Package
    <2>3. IsFiniteSet(file'.rows)
      <3>1. IsFiniteSet(file.rows)
        BY <1>1 DEF FileSound
      <3>2. \A r : IsFiniteSet(file.rows \cup {r})
        BY <3>1, FS_AddElement
      <3>. QED  BY <1>3, <3>1, <3>2, FS_Subset
    <2>4. file'.ledger \subseteq Pristine(file'.batch).ledger
      BY <1>1, <1>3 DEF FileSound
    <2>5. file'.rows = Pristine(file'.batch).rows \/ \E r \in file'.rows : Foreign(r)
      BY <1>1, <1>3 DEF FileSound
    <2>. QED  BY <1>3, <2>1, <2>2, <2>3, <2>4, <2>5 DEF FileSound
  <1>8. ASSUME NEW d \in Clients
        PROVE  ResultSound(d)' /\ ViewSound(d)' /\ CallSound(d)'
    <2>1. ResultSound(d)'
      <3>1. file.history => file'.history
        BY <1>3
      <3>. QED  BY <1>1, <1>4, <1>5, <3>1 DEF ResultSound, Kept
    <2>2. stage[d] \notin {"inspect", "insert", "commit"}
      BY <1>1, <1>2, NobodyIsNoClient DEF CallSound
    <2>3. ViewSound(d)'
      BY <1>5, <2>2 DEF ViewSound, Kept
    <2>4. CallSound(d)'
      BY <1>1, <1>5 DEF CallSound, Kept
    <2>. QED  BY <2>1, <2>3, <2>4
  <1>. QED  BY <1>4, <1>6, <1>7, <1>8 DEF IInv

LEMMA StutterIInv == IInv /\ UNCHANGED vars => IInv'
  <1>. SUFFICES ASSUME IInv, UNCHANGED vars PROVE IInv'
    OBVIOUS
  <1>1. brought' = brought /\ file' = file /\ \A d \in Clients : Kept(d)
    BY DEF vars, Kept
  <1>2. Typed'
    BY DEF IInv, Typed, TypeOK, vars
  <1>3. FileSound'
    BY <1>1, FileKept DEF IInv
  <1>4. \A d \in Clients : ResultSound(d)' /\ ViewSound(d)' /\ CallSound(d)'
    BY <1>1, KeptSound DEF IInv
  <1>. QED  BY <1>2, <1>3, <1>4 DEF IInv

\* The inductive invariant: one writer at most, what it sees is the file, its
\* own import so far or the whole of it; the file is one whole import or none,
\* plus what others did; and every call's result is backed by the file.
THEOREM IInvAlways == Spec => []IInv
  <1>1. Init => IInv
    BY InitIInv
  <1>2. IInv /\ [Next]_vars => IInv'
    <2>. SUFFICES ASSUME IInv, [Next]_vars PROVE IInv'
      OBVIOUS
    <2>1. ASSUME NEW c \in Clients,
                 \/ Call(c) \/ InspectTarget(c)
                 \/ Begin(c) \/ BeginFails(c) \/ Inspect(c) \/ Insert(c) \/ Check(c)
                 \/ StatementFails(c) \/ Commit(c) \/ CommitFails(c)
                 \/ Clean(c) \/ CleanFails(c) \/ Readback(c) \/ ReadbackFails(c) \/ Ends(c)
          PROVE  IInv'
      BY <2>1, CallIInv, InspectTargetIInv, BeginIInv, BeginFailsIInv, InspectIInv, InsertIInv,
         CheckIInv, StatementFailsIInv, CommitIInv, CommitFailsIInv, CleanIInv, CleanFailsIInv,
         ReadbackIInv, ReadbackFailsIInv, EndsIInv
    <2>2. CASE Others
      BY <2>2, OthersIInv
    <2>3. CASE UNCHANGED vars
      BY <2>3, StutterIInv
    <2>. QED  BY <2>1, <2>2, <2>3 DEF Next
  <1>. QED  BY <1>1, <1>2, PTL DEF Spec

\* SwiftImport's TypeOK: types, and the write lock is held exactly by the
\* connection whose write transaction is open; a transaction outlives its call
\* only on a connection that was told it is unusable.
THEOREM TypeCorrect == Spec => []TypeOK
  <1>1. IInv => TypeOK
    BY DEF IInv, Typed
  <1>. QED  BY <1>1, IInvAlways, PTL

\* AcceptedImports: whatever prepare() accepts can be imported; no unique
\* index, foreign key or readback of apply() ever refuses it.
THEOREM AcceptedImportsHold == Spec => []AcceptedImports
  <1>1. IInv => AcceptedImports
    BY DEF IInv, ResultSound, AcceptedImports
  <1>. QED  BY <1>1, IInvAlways, PTL

\* ArchivesInspect: the archive of a package that apply() is given, however it
\* came through prepare(), is one the stored rows' own validators accept.
THEOREM ArchivesInspectHolds == Spec => []ArchivesInspect
  <1>1. IInv => ArchivesInspect
    <2>. SUFFICES ASSUME IInv, NEW c \in Clients, NEW i \in DOMAIN Package(c).archive
                  PROVE  ArchiveInspects(Package(c).archive[i])
      BY DEF ArchivesInspect
    <2>. DEFINE p == Raw[brought[c]]
    <2>1. brought[c] \in Names /\ Package(c) = Prepared(brought[c])
      BY BroughtIsName DEF IInv
    <2>2. /\ Package(c).archive = p.archive
          /\ Listed(p.archive) /\ Every(p.archive, IsArchive) /\ ChatsOk(p)
      BY <2>1, PreparedFromAccepted DEF IsPackage, Accepted
    <2>3. IsArchive(p.archive[i])
      BY <2>2 DEF Every
    <2>4. ArchiveOk(p.archive[1], p.chatCategory, ProjectIds(p)) /\ i = 1
      BY <2>2 DEF ChatsOk, Listed
    <2>. QED  BY <2>2, <2>3, <2>4, ArchivesAreInspectable
  <1>. QED  BY <1>1, IInvAlways, PTL

-----------------------------------------------------------------------------
(* The refinement of ImportLedger.                                         *)

Asked == [c \in Clients |-> Package(c).says]

LEMMA SameAsked ==
    ASSUME Typed, brought' = brought, NEW c \in Clients
    PROVE  /\ Asked' = Asked /\ Asked[c] = Package(c).says /\ Package(c).says \in Contents
           /\ Asked' = [Asked EXCEPT ![c] = Package(c).says]
  <1>1. Package(c).says \in Contents
    BY BroughtIsName
  <1>2. Asked' = Asked
    BY DEF Asked, Package
  <1>. QED  BY <1>1, <1>2 DEF Asked

LEMMA SameFile ==
    ASSUME file' = file
    PROVE  Held' = Held /\ Touched' = Touched
  BY DEF Held, Touched

\* A step that changes neither the file, nor a call's package, landing, answer.
LEMMA Stutter ==
    ASSUME Typed, file' = file, brought' = brought, landed' = landed, told' = told
    PROVE  UNCHANGED Ledger!ledgerVars
  <1>1. [c \in Clients |-> Package(c).says]' = [c \in Clients |-> Package(c).says]
    BY DEF Package
  <1>. QED  BY <1>1 DEF Ledger!ledgerVars

LEMMA LookStep ==
    ASSUME IInv, NEW c \in Clients, NEW v, told[c] # "pending",
           brought' = brought, file' = file,
           landed' = [landed EXCEPT ![c] = FALSE], told' = [told EXCEPT ![c] = v],
           v \in Ledger!Truthful(Package(c).says, FALSE)
    PROVE  Ledger!Look(c)
  <1>1. /\ Package(c).says \in Contents
        /\ Asked' = [Asked EXCEPT ![c] = Package(c).says]
    BY SameAsked DEF IInv
  <1>. QED  BY <1>1, SameFile DEF Ledger!Look, Asked, Held, Touched

LEMMA AnswerStep ==
    ASSUME IInv, NEW c \in Clients, NEW v, told[c] = "pending",
           brought' = brought, file' = file,
           landed' = landed, told' = [told EXCEPT ![c] = v],
           v \in Ledger!Truthful(Package(c).says, landed[c]), v # "fresh"
    PROVE  Ledger!Answer(c)
  <1>1. Asked' = Asked /\ Asked[c] = Package(c).says
    BY SameAsked DEF IInv
  <1>. QED  BY <1>1, SameFile DEF Ledger!Answer, Asked, Held, Touched

LEMMA CallLooks ==
    ASSUME IInv, NEW c \in Clients, Call(c)
    PROVE  Ledger!Call(c) \/ Ledger!Look(c)
  <1>1. /\ told[c] # "pending" /\ landed' = [landed EXCEPT ![c] = FALSE]
        /\ brought' = brought /\ file' = file
    BY Before DEF Call, Bring, Fits
  <1>2. CASE open[c] = "no"
    <2>1. told' = [told EXCEPT ![c] = "pending"]
      BY <1>2 DEF Call
    <2>2. /\ Package(c).says \in Contents
          /\ Asked' = [Asked EXCEPT ![c] = Package(c).says]
      BY <1>1, SameAsked DEF IInv
    <2>. QED  BY <1>1, <2>1, <2>2, SameFile DEF Ledger!Call, Asked, Held, Touched
  <1>3. CASE open[c] # "no"
    <2>1. told' = [told EXCEPT ![c] = "invalid"]
      BY <1>3 DEF Call, Return
    <2>2. "invalid" \in Ledger!Truthful(Package(c).says, FALSE)
      BY DEF Ledger!Truthful
    <2>. QED  BY <1>1, <2>1, <2>2, LookStep
  <1>. QED  BY <1>2, <1>3

LEMMA InspectTargetLooks ==
    ASSUME IInv, NEW c \in Clients, InspectTarget(c)
    PROVE  Ledger!Look(c)
  <1>1. /\ told[c] # "pending" /\ landed' = [landed EXCEPT ![c] = FALSE]
        /\ brought' = brought /\ file' = file
    BY Before DEF InspectTarget, Bring, Fits
  <1>2. PICK v \in {"invalid", "database", "unusable", Verdict(file, Package(c))} :
            told' = [told EXCEPT ![c] = v]
    BY DEF InspectTarget, Return
  <1>3. v \in Ledger!Truthful(Package(c).says, FALSE)
    <2>1. CASE v \in {"invalid", "database", "unusable"}
      BY <2>1 DEF Ledger!Truthful
    <2>2. CASE v = Verdict(file, Package(c))
      <3>1. v \in {"history", "fresh", "already", "conflict"} /\ (v = "history" <=> file.history)
        BY <2>2, VerdictIs
      <3>2. /\ v = "fresh" => file = Empty
            /\ v = "already" => ~Touched /\ Held = Package(c).says
            /\ v = "conflict" => Touched \/ Held \notin {Nothing, Package(c).says}
            /\ v = "history" => Touched
        BY <2>2, <3>1, VerdictTrue DEF IInv
      <3>3. v = "fresh" => Held = Nothing /\ ~Touched
        BY <3>2, EmptyIs DEF Held, Touched
      <3>. QED  BY <3>1, <3>2, <3>3 DEF Ledger!Truthful, Held, Touched
    <2>. QED  BY <1>2, <2>1, <2>2
  <1>. QED  BY <1>1, <1>2, <1>3, LookStep

\* An answer is true: a receipt was earned by a landing and is confirmed by the
\* second inspection, an error about the file still holds.
LEMMA AnsweredTrue ==
    ASSUME IInv, NEW c \in Clients, stage[c] = "readback",
           NEW found, found = "failed" \/ found = Verdict(file, Package(c))
    PROVE  Answered(c, found) \in Ledger!Truthful(Package(c).says, landed[c]) \ {"fresh"}
  <1>. DEFINE r == outcome[c]
              v == Answered(c, found)
              true == Ledger!Truthful(Package(c).says, landed[c])
  <1>1. /\ ResultOf(c, r) /\ (r.what = "created" => landed[c] = TRUE)
    BY Before DEF Fits
  <1>2. /\ r.ok \in BOOLEAN
        /\ r.ok => r.what \in {"created", "already"}
        /\ ~r.ok => r.what \in {"database", "conflict", "history"}
        /\ r.what = "conflict" => Touched \/ Held \notin {Nothing, Package(c).says}
        /\ r.what = "history" => file.history
    BY <1>1 DEF ResultOf
  <1>3. /\ found = "already" => ~Touched /\ Held = Package(c).says
        /\ file.history => Touched
    BY VerdictTrue DEF IInv
  <1>4. \/ found = "already" /\ r.ok /\ v = r.what
        \/ found = "already" /\ ~r.ok /\ v = "already"
        \/ ~r.ok /\ v = r.what
        \/ v = "database"
    BY DEF Answered
  <1>. HIDE DEF v, r
  <1>5. v = "database" => v \in true
    BY DEF Ledger!Truthful
  <1>6. v = "already" /\ found = "already" => v \in true
    BY <1>3 DEF Ledger!Truthful, Held, Touched
  <1>7. v = "created" /\ found = "already" /\ r.what = "created" => v \in true
    BY <1>1, <1>3 DEF Ledger!Truthful, Held, Touched
  <1>8. v = "conflict" /\ r.what = "conflict" => v \in true
    BY <1>2 DEF Ledger!Truthful, Held, Touched
  <1>9. v = "history" /\ r.what = "history" => v \in true
    BY <1>2, <1>3 DEF Ledger!Truthful, Touched
  <1>10. v # "fresh"
    BY <1>2, <1>4
  <1>. HIDE DEF true
  <1>11. v \in true
    BY <1>2, <1>4, <1>5, <1>6, <1>7, <1>8, <1>9
  <1>. QED  BY <1>10, <1>11 DEF v, true

\* The steps that answer a call.
LEMMA Answering ==
    ASSUME IInv, NEW c \in Clients,
           BeginFails(c) \/ CleanFails(c) \/ Readback(c) \/ ReadbackFails(c)
    PROVE  Ledger!Answer(c)
  <1>1. /\ told[c] = "pending" /\ brought' = brought /\ file' = file /\ landed' = landed
    BY Before DEF BeginFails, CleanFails, Readback, ReadbackFails, Fits, callVars
  <1>2. CASE told' = [told EXCEPT ![c] = "database"] \/ told' = [told EXCEPT ![c] = "unusable"]
    <2>1. {"database", "unusable"} \subseteq Ledger!Truthful(Package(c).says, landed[c])
      BY DEF Ledger!Truthful
    <2>. QED  BY <1>1, <1>2, <2>1, AnswerStep
  <1>3. ASSUME stage[c] = "readback", NEW found,
               found = "failed" \/ found = Verdict(file, Package(c)),
               told' = [told EXCEPT ![c] = Answered(c, found)]
        PROVE  Ledger!Answer(c)
    <2>1. Answered(c, found) \in Ledger!Truthful(Package(c).says, landed[c]) \ {"fresh"}
      BY <1>3, AnsweredTrue
    <2>. QED  BY <1>1, <1>3, <2>1, AnswerStep
  <1>4. CASE BeginFails(c) \/ CleanFails(c)
    BY <1>2, <1>4 DEF BeginFails, CleanFails, Return
  <1>5. CASE Readback(c)
    BY <1>3, <1>5 DEF Readback, Return
  <1>6. CASE ReadbackFails(c)
    BY <1>2, <1>3, <1>6 DEF ReadbackFails, Return
  <1>. QED  BY <1>4, <1>5, <1>6

\* The commit of a new import is its landing; of a found one, nothing.
LEMMA Landing ==
    ASSUME IInv, NEW c \in Clients, stage[c] = "commit", Install(c),
           told' = told, brought' = brought
    PROVE  Ledger!Land(c) \/ UNCHANGED Ledger!ledgerVars
  <1>1. Typed /\ Fits(c, open[c], view[c], "commit", next[c], outcome[c], landed[c], told[c])
    BY Before DEF IInv
  <1>2. CASE view[c] = file
    <2>1. landed[c] = FALSE
      BY <1>1 DEF Fits
    <2>2. file' = file /\ landed' = landed
      BY <1>2, <2>1, Before DEF Install
    <2>. QED  BY <1>1, <2>2, Stutter
  <1>3. CASE file = Empty /\ view[c] = Pristine(BatchOf(c)) /\ view[c] # file
    <2>1. told[c] = "pending" /\ landed' = [landed EXCEPT ![c] = TRUE]
      BY <1>1, <1>3 DEF Fits, Install
    <2>2. Held = Nothing /\ ~Touched
      BY <1>3, EmptyIs DEF Held, Touched
    <2>3. /\ BatchOf(c) # NoBatch /\ BatchOf(c).of = brought[c]
          /\ Package(c) = Prepared(brought[c])
      BY <1>1, BroughtIsName
    <2>4. file' = Pristine(BatchOf(c)) /\ file'.batch = BatchOf(c)
      BY <1>3, <2>3, PristineIs DEF Install
    <2>5. Held' = Package(c).says /\ ~Touched'
      BY <2>3, <2>4 DEF Held, Touched
    <2>6. Asked' = Asked /\ Asked[c] = Package(c).says
      BY <1>1, SameAsked
    <2>. QED  BY <2>1, <2>2, <2>5, <2>6 DEF Ledger!Land, Held, Touched, Asked
  <1>. QED  BY <1>1, <1>2, <1>3 DEF Fits

\* The file takes one package at most, whole, and keeps it; a receipt is given
\* only for an import that is there, and every other answer is true: apply()
\* and inspect_target() implement ImportLedger.
THEOREM ImportImplementsLedger == Spec => Implements
  <1>1. Init => Ledger!Init
    <2>. SUFFICES ASSUME Init PROVE Ledger!Init
      OBVIOUS
    <2>1. Typed /\ file = Empty
      BY InitIInv DEF Init, IInv
    <2>2. \A c \in Clients : Package(c).says \in Contents
      BY <2>1, BroughtIsName
    <2>3. Held = Nothing /\ ~Touched
      BY <2>1, EmptyIs DEF Held, Touched
    <2>. QED  BY <2>2, <2>3 DEF Ledger!Init, Held, Touched, Init
  <1>2. IInv /\ [Next]_vars => [Ledger!Next]_(Ledger!ledgerVars)
    <2>. SUFFICES ASSUME IInv, [Next]_vars
                  PROVE  Ledger!Next \/ UNCHANGED Ledger!ledgerVars
      OBVIOUS
    <2>1. ASSUME NEW c \in Clients, Call(c) \/ InspectTarget(c)
          PROVE  Ledger!Next
      BY <2>1, CallLooks, InspectTargetLooks DEF Ledger!Next
    <2>2. ASSUME NEW c \in Clients,
                 BeginFails(c) \/ CleanFails(c) \/ Readback(c) \/ ReadbackFails(c)
          PROVE  Ledger!Next
      BY <2>2, Answering DEF Ledger!Next
    <2>3. ASSUME NEW c \in Clients,
                 \/ Begin(c) \/ Inspect(c) \/ Insert(c) \/ Check(c) \/ StatementFails(c) \/ Clean(c)
          PROVE  UNCHANGED Ledger!ledgerVars
      <3>1. file' = file /\ brought' = brought /\ landed' = landed /\ told' = told
        BY <2>3 DEF Begin, Inspect, Insert, Check, StatementFails, Clean, callVars
      <3>. QED  BY <3>1, Stutter DEF IInv
    <2>4. ASSUME NEW c \in Clients, Commit(c) \/ CommitFails(c)
          PROVE  Ledger!Next \/ UNCHANGED Ledger!ledgerVars
      <3>1. CASE Install(c)
        BY <2>4, <3>1, Landing DEF Commit, CommitFails, Ledger!Next
      <3>2. CASE ~Install(c)
        <4>1. file' = file /\ brought' = brought /\ landed' = landed /\ told' = told
          BY <2>4, <3>2 DEF Commit, CommitFails
        <4>. QED  BY <4>1, Stutter DEF IInv
      <3>. QED  BY <3>1, <3>2
    <2>5. ASSUME NEW c \in Clients, Ends(c)
          PROVE  Ledger!Next
      <3>1. /\ file' = file /\ brought' = brought
            /\ landed' = [landed EXCEPT ![c] = FALSE] /\ told' = [told EXCEPT ![c] = "none"]
        BY <2>5 DEF Ends, Return
      <3>2. Asked' = Asked
        BY <2>5, <3>1, SameAsked DEF IInv
      <3>3. Ledger!Reset(c)
        BY <3>1, <3>2, SameFile DEF Ledger!Reset, Asked, Held, Touched
      <3>. QED  BY <3>3 DEF Ledger!Next
    <2>6. CASE Others
      <3>1. Touched'
        BY <2>6, OthersIInv
      <3>2. file'.batch = file.batch
        BY <2>6, UsedIs DEF Others, IInv
      <3>3. brought' = brought /\ landed' = landed /\ told' = told
        BY <2>6 DEF Others, callVars
      <3>4. Held' = Held /\ Asked' = Asked
        BY <3>2, <3>3 DEF Held, Asked, Package
      <3>5. Ledger!Others
        BY <3>1, <3>3, <3>4 DEF Ledger!Others, Held, Touched, Asked
      <3>. QED  BY <3>5 DEF Ledger!Next
    <2>7. CASE UNCHANGED vars
      BY <2>7, Stutter DEF vars, IInv
    <2>. QED  BY <2>1, <2>2, <2>3, <2>4, <2>5, <2>6, <2>7 DEF Next
  <1>. QED  BY <1>1, <1>2, IInvAlways, PTL DEF Spec, Implements, Ledger!Spec
=============================================================================
