------------------------- MODULE ThoughtStoreProofs -------------------------
(***************************************************************************)
(* Proofs about ThoughtStore, for every number of processes, thoughts,     *)
(* contents, projects and capture calls. First what one captured item does *)
(* to a database, then the inductive invariant, then the theorems.         *)
(***************************************************************************)
EXTENDS ThoughtStore, ReconcileProofs

-----------------------------------------------------------------------------
(* Typing facts, field by field.                                           *)

LEMMA DatabaseFields ==
    ASSUME NEW db \in Database
    PROVE  /\ db.thoughts \in [Ids -> Thought \cup {NoThought}]
           /\ db.edges \in SUBSET Edge
           /\ db.registry \in SUBSET Slugs
           /\ Live(db) \in SUBSET Ids
           /\ \A i \in Live(db) : db.thoughts[i] \in Thought
  BY DEF Database, Live

LEMMA ItemFields ==
    ASSUME NEW item \in Item
    PROVE  /\ item.id \in Ids /\ item.content \in Contents
           /\ item.trust \in Trust /\ item.shared \in BOOLEAN
           /\ item.sens \in Sensitivity
           /\ item.project \in Slugs \cup {NoProject}
           /\ item.related \in SUBSET Ids
  BY DEF Item

LEMMA ThoughtFields ==
    ASSUME NEW t \in Thought
    PROVE  /\ t.content \in Contents /\ t.trust \in Trust
           /\ t.shared \in BOOLEAN /\ t.sens \in Sensitivity
           /\ t.project \in Slugs \cup {NoProject}
           /\ t.reinforcements \in Nat
           /\ t.how \in {"created", "gated", "crowded", "edited"}
           /\ t # NoThought
  BY ConstantsAssumption DEF Thought

LEMMA EdgeFields ==
    ASSUME NEW e \in Edge
    PROVE  e.source \in Ids /\ e.target \in Ids /\ e.type \in EdgeTypes
  BY DEF Edge

-----------------------------------------------------------------------------
(* One captured item.                                                      *)

\* Provision only adds the item's project to the registry.
LEMMA ProvisionFields ==
    ASSUME NEW db \in Database, NEW item \in Item
    PROVE  LET r == Provision(db, item)
           IN  /\ r \in Database
               /\ r.thoughts = db.thoughts /\ r.edges = db.edges
               /\ r.registry = db.registry \cup ({item.project} \ {NoProject})
  BY DEF Provision, Database, Item

\* A merge folds the item into one thought and links that thought.
LEMMA MergeFields ==
    ASSUME NEW db \in Database, NEW item \in Item, NEW i \in Live(db)
    PROVE  LET r == Merge(db, item, i)
           IN  /\ r.thoughts = [db.thoughts EXCEPT ![i] = Merged(@, item)]
               /\ r.edges = db.edges \cup
                    RelatedEdges(db.thoughts, db.edges, i, item.related)
               /\ r.registry = db.registry
               /\ r \in [thoughts : {r.thoughts}, edges : {r.edges},
                         registry : {r.registry}]
  BY DEF Merge, Database, Live

\* The merged thought keeps its type, content, project and history, and
\* only tightens.
LEMMA MergedTightens ==
    ASSUME NEW t \in Thought, NEW item \in Item
    PROVE  /\ Merged(t, item) \in Thought
           /\ Tightens(t, Merged(t, item))
           /\ Merged(t, item).how = t.how
  <1>1. /\ Higher(t.trust, item.trust) \in Trust
        /\ Higher(t.trust, item.trust) >= t.trust
        /\ Higher(t.sens, item.sens) \in Sensitivity
        /\ Higher(t.sens, item.sens) >= t.sens
    BY DEF Higher, Thought, Item, Trust, Sensitivity
  <1>2. /\ t.content \in Contents /\ t.trust \in Trust
        /\ t.shared \in BOOLEAN /\ t.sens \in Sensitivity
        /\ t.project \in Slugs \cup {NoProject} /\ t.reinforcements \in Nat
        /\ t.how \in {"created", "gated", "crowded", "edited"}
        /\ item.shared \in BOOLEAN
    BY DEF Thought, Item
  <1>. DEFINE shared == t.shared /\ item.shared
  <1>3. shared \in BOOLEAN /\ (shared => t.shared)
    BY <1>2
  <1>. HIDE DEF shared
  <1>4. Merged(t, item) =
          [t EXCEPT !.trust = Higher(t.trust, item.trust), !.shared = shared,
                    !.sens = Higher(t.sens, item.sens),
                    !.reinforcements = t.reinforcements + 1]
    BY Zenon DEF Merged, shared
  <1>5. Merged(t, item) =
          [content |-> t.content, trust |-> Higher(t.trust, item.trust),
           shared |-> shared, sens |-> Higher(t.sens, item.sens),
           project |-> t.project, reinforcements |-> t.reinforcements + 1,
           how |-> t.how]
    BY <1>4 DEF Thought
  <1>. QED  BY <1>1, <1>2, <1>3, <1>5 DEF Thought, Tightens

\* A content that reconciles at all is a candidate for, and a duplicate of,
\* the stored thoughts with the same content.
LEMMA TwinIsDuplicate ==
    ASSUME NEW c \in Contents, Searched(c)
    PROVE  <<c, c>> \in FoundPairs /\ <<c, c>> \in DuplicatePairs
  <1>1. Worded(c) /\ Headed(c)
    BY ConstantsAssumption
  <1>2. Finds(c, c) /\ IsDuplicate(c, c)
    BY <1>1, DuplicatesItself DEF Finds, Headed, Searched
  <1>. QED  BY <1>2 DEF FoundPairs, DuplicatePairs, Pairs

\* A pool of candidates holds rows that match, all of them unless there are
\* more than the limit.
LEMMA PoolMatches ==
    ASSUME NEW db \in Database, NEW item \in Item,
           NEW pool \in Candidates(db, item)
    PROVE  /\ pool \subseteq Matches(db, item)
           /\ ~Crowded(db, item) => pool = Matches(db, item)
  BY DEF Candidates

\* What the sets of capture_single range over.
LEMMA Scopes ==
    ASSUME NEW db \in Database, NEW item \in Item,
           NEW pool \in Candidates(db, item)
    PROVE  /\ pool \subseteq Live(db)
           /\ Eligible(db, item, pool) \subseteq pool
           /\ Blocked(db, item, pool) \subseteq pool
           /\ Reversals(db, item, pool) \subseteq Eligible(db, item, pool)
           /\ Survivors(db, item, pool) \subseteq Duplicates(db, item, pool)
           /\ Duplicates(db, item, pool) \subseteq Eligible(db, item, pool)
  <1>1. pool \subseteq Live(db)
    BY PoolMatches DEF Matches
  <1>. QED  BY <1>1 DEF Eligible, Blocked, Reversals, Survivors, Duplicates, Among

\* What an item does, it does with one pool of candidates.
LEMMA OnePool ==
    ASSUME NEW db, NEW item, NEW r \in CaptureItem(db, item)
    PROVE  LET d == Provision(db, item)
           IN  \E pool \in Candidates(d, item) :
                 \/ Duplicates(d, item, pool) = {} /\ r = Insert(d, item, pool)
                 \/ \E i \in Survivors(d, item, pool) : r = Merge(d, item, i)
  <1>. DEFINE d == Provision(db, item)
  <1>1. PICK pool \in Candidates(d, item) : r \in Reconciled(d, item, pool)
    BY DEF CaptureItem
  <1>2. \/ Duplicates(d, item, pool) = {} /\ r = Insert(d, item, pool)
        \/ \E i \in Survivors(d, item, pool) : r = Merge(d, item, i)
    BY <1>1 DEF Reconciled
  <1>. QED  BY <1>2

\* The edges attach_related adds start at the given thought, end at existing
\* ones and repeat no edge.
LEMMA RelatedSound ==
    ASSUME NEW thoughts, NEW edges, NEW s \in Ids, NEW targets \in SUBSET Ids,
           NEW e \in RelatedEdges(thoughts, edges, s, targets)
    PROVE  /\ e \in Edge
           /\ e.source = s /\ e.target \in Ids /\ thoughts[e.target] # NoThought
           /\ e.type = "related"
           /\ ~\E f \in edges : /\ f.source = s /\ f.target = e.target
                                /\ f.type = "related"
           /\ e = [source |-> s, target |-> e.target, type |-> "related",
                   live |-> TRUE]
  <1>1. PICK t \in targets :
          /\ thoughts[t] # NoThought
          /\ ~\E f \in edges : f.source = s /\ f.target = t /\ f.type = "related"
          /\ e = [source |-> s, target |-> t, type |-> "related", live |-> TRUE]
    BY DEF RelatedEdges
  <1>2. e.source = s /\ e.target = t /\ e.type = "related"
    BY <1>1
  <1>3. e \in Edge
    BY <1>1 DEF Edge, EdgeTypes
  <1>. QED  BY <1>1, <1>2, <1>3

LEMMA RelatedUnique ==
    ASSUME NEW thoughts, NEW edges, NEW s \in Ids, NEW targets \in SUBSET Ids,
           NEW e \in RelatedEdges(thoughts, edges, s, targets),
           NEW f \in RelatedEdges(thoughts, edges, s, targets),
           e.target = f.target
    PROVE  e = f
  <1>1. /\ e = [source |-> s, target |-> e.target, type |-> "related",
                live |-> TRUE]
        /\ f = [source |-> s, target |-> f.target, type |-> "related",
                live |-> TRUE]
    BY RelatedSound
  <1>. QED  BY <1>1

\* The same for the refuting edges of an insertion: from a stored thought to
\* the new one.
LEMMA RefutingSound ==
    ASSUME NEW db \in Database, NEW item \in Item,
           NEW pool \in Candidates(db, item),
           NEW e \in RefutingEdges(db, item, pool)
    PROVE  /\ e \in Edge
           /\ e.source \in Reversals(db, item, pool) /\ e.target = item.id
           /\ e.type = "refuted_by"
           /\ e = [source |-> e.source, target |-> item.id,
                   type |-> "refuted_by", live |-> TRUE]
  <1>1. PICK i \in Reversals(db, item, pool) :
          e = [source |-> i, target |-> item.id, type |-> "refuted_by", live |-> TRUE]
    BY DEF RefutingEdges
  <1>2. i \in Ids /\ item.id \in Ids
    BY Scopes, ItemFields, DatabaseFields
  <1>. QED  BY <1>1, <1>2 DEF Edge, EdgeTypes

LEMMA InsertTyped ==
    ASSUME NEW db \in Database, NEW item \in Item,
           NEW pool \in Candidates(db, item)
    PROVE  /\ Insert(db, item, pool) \in Database
           /\ Live(Insert(db, item, pool)) = Live(db) \cup {item.id}
           /\ NewThought(db, item, pool) \in Thought
  <1>. DEFINE r == Insert(db, item, pool)
              new == NewThought(db, item, pool)
              targets == item.related \cup
                           Among(db, item, Eligible(db, item, pool), AutoPairs)
              related == RelatedEdges(r.thoughts, db.edges, item.id, targets)
  <1>1. new \in Thought /\ new # NoThought
    BY ItemFields, ConstantsAssumption DEF NewThought, Thought
  <1>2. /\ r.thoughts = [db.thoughts EXCEPT ![item.id] = new]
        /\ r.registry = db.registry
        /\ r.edges = db.edges \cup RefutingEdges(db, item, pool) \cup related
        /\ r \in [thoughts : {r.thoughts}, edges : {r.edges},
                  registry : {r.registry}]
    BY DEF Insert, Database
  <1>3. item.id \in Ids /\ targets \in SUBSET Ids
    BY Scopes, DatabaseFields, ItemFields DEF Among
  <1>4. RefutingEdges(db, item, pool) \subseteq Edge
    BY RefutingSound
  <1>5. related \subseteq Edge
    BY <1>3, RelatedSound
  <1>. HIDE DEF r, new, related, targets
  <1>6. r.thoughts \in [Ids -> Thought \cup {NoThought}]
    BY <1>1, <1>2, <1>3, DatabaseFields
  <1>7. r.edges \in SUBSET Edge /\ r.registry \in SUBSET Slugs
    BY <1>2, <1>4, <1>5, DatabaseFields
  <1>8. r \in Database
    BY <1>2, <1>6, <1>7 DEF Database
  <1>9. Live(r) = Live(db) \cup {item.id}
    BY <1>1, <1>2, <1>3, DatabaseFields DEF Live
  <1>. QED  BY <1>1, <1>8, <1>9 DEF r, new

LEMMA MergeTyped ==
    ASSUME NEW db \in Database, NEW item \in Item, NEW i \in Live(db)
    PROVE  Merge(db, item, i) \in Database /\ Live(Merge(db, item, i)) = Live(db)
  <1>. DEFINE r == Merge(db, item, i)
              merged == Merged(db.thoughts[i], item)
              related == RelatedEdges(db.thoughts, db.edges, i, item.related)
  <1>1. /\ r.thoughts = [db.thoughts EXCEPT ![i] = merged]
        /\ r.registry = db.registry
        /\ r.edges = db.edges \cup related
        /\ r \in [thoughts : {r.thoughts}, edges : {r.edges},
                  registry : {r.registry}]
    BY MergeFields
  <1>2. merged \in Thought /\ merged # NoThought
    BY DatabaseFields, MergedTightens, ConstantsAssumption
  <1>3. related \subseteq Edge
    BY RelatedSound, ItemFields, DatabaseFields
  <1>. HIDE DEF r, merged, related
  <1>4. r.thoughts \in [Ids -> Thought \cup {NoThought}]
    BY <1>1, <1>2, DatabaseFields
  <1>5. r.edges \in SUBSET Edge /\ r.registry \in SUBSET Slugs
    BY <1>1, <1>3, DatabaseFields
  <1>6. r \in Database
    BY <1>1, <1>4, <1>5 DEF Database
  <1>7. Live(r) = Live(db)
    BY <1>1, <1>2, DatabaseFields DEF Live
  <1>. QED  BY <1>6, <1>7 DEF r

-----------------------------------------------------------------------------
(* Soundness of the database is preserved by an item.                      *)

\* A new thought without a duplicate among the eligible candidates leaves no
\* unexplained twin: a twin the gate blocks marks the new thought "gated".
LEMMA InsertTwins ==
    ASSUME NEW db \in Database, NEW item \in Item,
           NEW pool \in Candidates(db, item), item.id \notin Live(db),
           Duplicates(db, item, pool) = {}, TwinsExplained(db)
    PROVE  TwinsExplained(Insert(db, item, pool))
  <1>. DEFINE r == Insert(db, item, pool)
              new == NewThought(db, item, pool)
  <1>1. r.thoughts = [db.thoughts EXCEPT ![item.id] = new]
    BY DEF Insert, Database
  <1>2. Live(r) = Live(db) \cup {item.id}
    BY InsertTyped
  <1>3. /\ new.content = item.content /\ new.project = item.project
        /\ GatePrevented(db, item, pool) => new.how = "gated"
        /\ ~GatePrevented(db, item, pool) /\ Crowded(db, item) => new.how = "crowded"
    BY DEF NewThought
  <1>4. ASSUME NEW j \in Live(db), Twins(new, db.thoughts[j])
        PROVE  new.how # "created"
    <2>1. db.thoughts[j].content = item.content /\ Searched(item.content)
      BY <1>3, <1>4 DEF Twins
    <2>2. <<item.content, item.content>> \in FoundPairs \cap DuplicatePairs
      BY <2>1, TwinIsDuplicate, ItemFields
    <2>3. j \in Matches(db, item)
      BY <1>3, <1>4, <2>1, <2>2 DEF Matches, InScope, Twins
    <2>4. CASE ~Crowded(db, item)
      <3>1. j \in pool
        BY <2>3, <2>4, PoolMatches
      <3>2. j \in Blocked(db, item, pool)
        BY <2>1, <2>2, <3>1 DEF Duplicates, Among, Blocked
      <3>3. GatePrevented(db, item, pool)
        BY <2>1, <2>2, <3>2 DEF GatePrevented, Among
      <3>. QED  BY <1>3, <3>3
    <2>. QED  BY <1>3, <2>4
  <1>5. \A t, u : Twins(t, u) <=> Twins(u, t)
    BY DEF Twins
  <1>6. r.thoughts[item.id] = new
        /\ \A j \in Live(db) : r.thoughts[j] = db.thoughts[j]
    BY <1>1, DatabaseFields, ItemFields
  <1>. HIDE DEF r, new
  <1>7. SUFFICES ASSUME NEW i \in Live(r), NEW j \in Live(r), i # j,
                        Twins(r.thoughts[i], r.thoughts[j])
                 PROVE  {r.thoughts[i].how, r.thoughts[j].how} # {"created"}
    BY DEF TwinsExplained, r
  <1>8. CASE i = item.id
    BY <1>2, <1>4, <1>6, <1>7, <1>8
  <1>9. CASE j = item.id
    BY <1>2, <1>4, <1>5, <1>6, <1>7, <1>9
  <1>10. CASE i \in Live(db) /\ j \in Live(db)
    BY <1>6, <1>7, <1>10 DEF TwinsExplained
  <1>. QED  BY <1>2, <1>8, <1>9, <1>10

LEMMA InsertEdges ==
    ASSUME NEW db \in Database, NEW item \in Item,
           NEW pool \in Candidates(db, item), item.id \notin Live(db),
           EdgesSound(db)
    PROVE  EdgesSound(Insert(db, item, pool))
  <1>. DEFINE r == Insert(db, item, pool)
              targets == item.related \cup
                           Among(db, item, Eligible(db, item, pool), AutoPairs)
              refuting == RefutingEdges(db, item, pool)
              related == RelatedEdges(r.thoughts, db.edges, item.id, targets)
  <1>1. r.edges = db.edges \cup refuting \cup related
    BY DEF Insert, Database
  <1>2. Live(r) = Live(db) \cup {item.id} /\ r \in Database
    BY InsertTyped
  <1>3. item.id \in Ids /\ targets \in SUBSET Ids
    BY Scopes, DatabaseFields, ItemFields DEF Among
  <1>4. \A e \in refuting : /\ e \in Edge /\ e.source \in Live(db)
                            /\ e.target = item.id /\ e.type = "refuted_by"
    BY RefutingSound, Scopes
  <1>5. \A e \in related : /\ e \in Edge /\ e.source = item.id
                           /\ e.target \in Ids /\ r.thoughts[e.target] # NoThought
                           /\ e.type = "related"
    BY <1>3, RelatedSound
  <1>6. \A e \in db.edges : e \in Edge /\ e.source \in Live(db) /\ e.target \in Live(db)
    BY DatabaseFields DEF EdgesSound
  <1>7. \A e, f \in refuting : e.source = f.source => e = f
    <2>. SUFFICES ASSUME NEW e \in refuting, NEW f \in refuting,
                         e.source = f.source
                  PROVE  e = f
      OBVIOUS
    <2>1. /\ e = [source |-> e.source, target |-> item.id,
                  type |-> "refuted_by", live |-> TRUE]
          /\ f = [source |-> f.source, target |-> item.id,
                  type |-> "refuted_by", live |-> TRUE]
      BY RefutingSound
    <2>. QED  BY <2>1
  <1>8. \A e, f \in related : e.target = f.target => e = f
    BY <1>3, RelatedUnique
  <1>. HIDE DEF r, targets, refuting, related
  <1>9. \A e \in r.edges : {e.source, e.target} \subseteq Live(r)
    BY <1>1, <1>2, <1>3, <1>4, <1>5, <1>6 DEF Live
  <1>10. ASSUME NEW e \in r.edges, NEW f \in r.edges,
                e.source = f.source, e.target = f.target, e.type = f.type
         PROVE  e = f
    <2>1. "refuted_by" # "related"
      OBVIOUS
    <2>2. CASE e \in db.edges
      BY <1>1, <1>4, <1>5, <1>6, <1>10, <2>2 DEF EdgesSound
    <2>3. CASE e \in refuting
      BY <1>1, <1>4, <1>5, <1>6, <1>7, <1>10, <2>1, <2>3
    <2>4. CASE e \in related
      BY <1>1, <1>4, <1>5, <1>6, <1>8, <1>10, <2>1, <2>4
    <2>. QED  BY <1>1, <2>2, <2>3, <2>4
  <1>. QED  BY <1>9, <1>10 DEF EdgesSound, r

LEMMA InsertSound ==
    ASSUME NEW db \in Database, NEW item \in Item,
           NEW pool \in Candidates(db, item), item.id \notin Live(db),
           item.project \in db.registry \cup {NoProject},
           Duplicates(db, item, pool) = {}, DatabaseSound(db)
    PROVE  DatabaseSound(Insert(db, item, pool))
  <1>. DEFINE r == Insert(db, item, pool)
              new == NewThought(db, item, pool)
  <1>1. /\ r.thoughts = [db.thoughts EXCEPT ![item.id] = new]
        /\ r.registry = db.registry
    BY DEF Insert, Database
  <1>2. Live(r) = Live(db) \cup {item.id}
    BY InsertTyped
  <1>3. new.project = item.project
    BY DEF NewThought
  <1>. HIDE DEF r, new
  <1>4. ProjectsRegistered(r)
    BY <1>1, <1>2, <1>3, DatabaseFields, ItemFields
    DEF ProjectsRegistered, DatabaseSound
  <1>. QED  BY <1>4, InsertTwins, InsertEdges DEF DatabaseSound, r

\* Twins stay explained when no thought appears and every one that is not
\* edited keeps its content, project and history.
LEMMA TwinsKept ==
    ASSUME NEW db, NEW r, Live(r) \subseteq Live(db), TwinsExplained(db),
           \A j \in Live(r) :
              \/ r.thoughts[j].how = "edited"
              \/ /\ r.thoughts[j].content = db.thoughts[j].content
                 /\ r.thoughts[j].project = db.thoughts[j].project
                 /\ r.thoughts[j].how = db.thoughts[j].how
    PROVE  TwinsExplained(r)
  <1>. SUFFICES ASSUME NEW i \in Live(r), NEW j \in Live(r), i # j,
                       Twins(r.thoughts[i], r.thoughts[j]),
                       {r.thoughts[i].how, r.thoughts[j].how} = {"created"}
                PROVE  FALSE
    BY Zenon DEF TwinsExplained
  <1>0. r.thoughts[i].how = "created" /\ r.thoughts[j].how = "created"
    OBVIOUS
  <1>1. /\ r.thoughts[i].content = db.thoughts[i].content
        /\ r.thoughts[i].project = db.thoughts[i].project
        /\ db.thoughts[i].how = "created"
    BY <1>0, "created" # "edited"
  <1>2. /\ r.thoughts[j].content = db.thoughts[j].content
        /\ r.thoughts[j].project = db.thoughts[j].project
        /\ db.thoughts[j].how = "created"
    BY <1>0, "created" # "edited"
  <1>3. Twins(db.thoughts[i], db.thoughts[j])
    BY <1>1, <1>2 DEF Twins
  <1>4. i \in Live(db) /\ j \in Live(db)
    OBVIOUS
  <1>. QED  BY <1>1, <1>2, <1>3, <1>4 DEF TwinsExplained

LEMMA MergeSound ==
    ASSUME NEW db \in Database, NEW item \in Item, NEW i \in Live(db),
           DatabaseSound(db)
    PROVE  DatabaseSound(Merge(db, item, i))
  <1>. DEFINE r == Merge(db, item, i)
              merged == Merged(db.thoughts[i], item)
              related == RelatedEdges(db.thoughts, db.edges, i, item.related)
  <1>1. /\ r.thoughts = [db.thoughts EXCEPT ![i] = merged]
        /\ r.registry = db.registry
        /\ r.edges = db.edges \cup related
    BY MergeFields
  <1>2. Live(r) = Live(db)
    BY MergeTyped
  <1>3. /\ merged.content = db.thoughts[i].content
        /\ merged.project = db.thoughts[i].project
        /\ merged.how = db.thoughts[i].how
    BY DatabaseFields, MergedTightens DEF Tightens
  <1>4. i \in Ids /\ item.related \in SUBSET Ids
    BY DatabaseFields, ItemFields
  <1>5. \A e \in related : /\ e.source = i /\ e.target \in Ids
                           /\ db.thoughts[e.target] # NoThought
                           /\ ~\E f \in db.edges : /\ f.source = i
                                                   /\ f.target = e.target
                                                   /\ f.type = "related"
                           /\ e.type = "related"
    BY <1>4, RelatedSound
  <1>6. \A e, f \in related : e.target = f.target => e = f
    BY <1>4, RelatedUnique
  <1>. HIDE DEF r, merged, related
  <1>7. \A j \in Live(db) : /\ r.thoughts[j].content = db.thoughts[j].content
                            /\ r.thoughts[j].project = db.thoughts[j].project
                            /\ r.thoughts[j].how = db.thoughts[j].how
    BY <1>1, <1>3, DatabaseFields
  <1>8. ProjectsRegistered(r)
    BY <1>1, <1>2, <1>7 DEF ProjectsRegistered, DatabaseSound
  <1>9. TwinsExplained(r)
    BY <1>2, <1>7, TwinsKept DEF DatabaseSound
  <1>10. \A e \in r.edges : {e.source, e.target} \subseteq Live(r)
    BY <1>1, <1>2, <1>5 DEF EdgesSound, DatabaseSound, Live
  <1>11. ASSUME NEW e \in r.edges, NEW f \in r.edges,
                e.source = f.source, e.target = f.target, e.type = f.type
         PROVE  e = f
    BY <1>1, <1>5, <1>6, <1>11 DEF EdgesSound, DatabaseSound
  <1>. QED  BY <1>8, <1>9, <1>10, <1>11 DEF DatabaseSound, EdgesSound, r

\* What one captured item may do to the database it reads.
LEMMA CaptureSound ==
    ASSUME NEW db \in Database, NEW item \in Item, item.id \notin Live(db),
           DatabaseSound(db), NEW r \in CaptureItem(db, item)
    PROVE  /\ r \in Database
           /\ DatabaseSound(r)
           /\ Live(r) \subseteq Live(db) \cup {item.id}
  <1>. DEFINE d == Provision(db, item)
  <1>1. /\ d \in Database
        /\ d.thoughts = db.thoughts /\ d.edges = db.edges
        /\ d.registry = db.registry \cup ({item.project} \ {NoProject})
    BY ProvisionFields
  <1>2. Live(d) = Live(db)
    BY <1>1 DEF Live
  <1>3. item.project \in d.registry \cup {NoProject}
    BY <1>1
  <1>4. DatabaseSound(d)
    <2>1. EdgesSound(d)
      BY <1>1, <1>2 DEF DatabaseSound, EdgesSound
    <2>2. ProjectsRegistered(d)
      BY <1>1, <1>2 DEF DatabaseSound, ProjectsRegistered
    <2>3. TwinsExplained(d)
      BY <1>1, <1>2 DEF DatabaseSound, TwinsExplained
    <2>. QED  BY <2>1, <2>2, <2>3 DEF DatabaseSound
  <1>5. PICK pool \in Candidates(d, item) :
          \/ Duplicates(d, item, pool) = {} /\ r = Insert(d, item, pool)
          \/ \E i \in Survivors(d, item, pool) : r = Merge(d, item, i)
    BY OnePool
  <1>. HIDE DEF d
  <1>6. Survivors(d, item, pool) \subseteq Live(d)
    BY <1>1, Scopes
  <1>7. CASE Duplicates(d, item, pool) = {} /\ r = Insert(d, item, pool)
    BY <1>1, <1>2, <1>3, <1>4, <1>7, InsertTyped, InsertSound
  <1>8. CASE \E i \in Survivors(d, item, pool) : r = Merge(d, item, i)
    BY <1>1, <1>2, <1>4, <1>6, <1>8, MergeTyped, MergeSound
  <1>. QED  BY <1>5, <1>7, <1>8

-----------------------------------------------------------------------------
(* The invariant holds initially and is kept by every action.              *)

LEMMA EmptySound ==
    /\ EmptyDatabase \in Database /\ Live(EmptyDatabase) = {}
    /\ DatabaseSound(EmptyDatabase)
  <1>1. EmptyDatabase \in Database /\ Live(EmptyDatabase) = {}
    BY DEF EmptyDatabase, Database, Live
  <1>. QED  BY <1>1 DEF DatabaseSound, EdgesSound, ProjectsRegistered,
                        TwinsExplained, EmptyDatabase

LEMMA InitIInv == Init => IInv
  <1>. SUFFICES ASSUME Init PROVE IInv
    OBVIOUS
  <1>1. EmptyDatabase \in Database /\ Live(EmptyDatabase) = {}
    BY EmptySound
  <1>2. DatabaseSound(EmptyDatabase)
    BY EmptySound
  <1>3. <<>> \in Seq(Item) /\ Len(<<>>) = 0
    OBVIOUS
  <1>4. TypeOK
    BY <1>1, <1>3 DEF Init, TypeOK
  <1>5. IdsFresh
    <2>1. \A q \in Procs : 1 .. Len(batch[q]) = {}
      BY <1>3 DEF Init
    <2>. QED  BY <1>1, <2>1 DEF Init, IdsFresh
  <1>. QED  BY <1>2, <1>4, <1>5 DEF IInv, Init

\* The next item of an open capture call, and its place in IdsFresh.
LEMMA NextItem ==
    ASSUME IInv, NEW p \in Procs, StageItem(p)
    PROVE  LET item == batch[p][staged[p] + 1]
           IN  /\ staged[p] + 1 \in 1 .. Len(batch[p])
               /\ item \in Item /\ item.id \notin Live(view[p])
               /\ item.id \in issued
               /\ view[p] \in Database /\ DatabaseSound(view[p])
               /\ view' = [view EXCEPT ![p] = view'[p]]
               /\ view'[p] \in CaptureItem(view[p], item)
  <1>1. staged[p] + 1 \in 1 .. Len(batch[p]) /\ batch[p] \in Seq(Item)
    BY DEF IInv, TypeOK, StageItem
  <1>2. batch[p][staged[p] + 1] \in Item
    BY <1>1
  <1>3. /\ batch[p][staged[p] + 1].id \notin Live(view[p])
        /\ batch[p][staged[p] + 1].id \in issued
    BY <1>1 DEF IInv, IdsFresh, TypeOK
  <1>4. PICK db \in CaptureItem(view[p], batch[p][staged[p] + 1]) :
          view' = [view EXCEPT ![p] = db]
    BY DEF StageItem
  <1>5. view'[p] = db
    BY <1>4 DEF IInv, TypeOK
  <1>. QED  BY <1>1, <1>2, <1>3, <1>4, <1>5 DEF IInv, TypeOK

LEMMA StageItemIInv ==
    ASSUME IInv, NEW p \in Procs, StageItem(p)
    PROVE  IInv'
  <1>. DEFINE item == batch[p][staged[p] + 1]
  <1>1. /\ staged[p] + 1 \in 1 .. Len(batch[p])
        /\ item \in Item /\ item.id \notin Live(view[p]) /\ item.id \in issued
        /\ view[p] \in Database /\ DatabaseSound(view[p])
        /\ view' = [view EXCEPT ![p] = view'[p]]
        /\ view'[p] \in CaptureItem(view[p], item)
    BY NextItem
  <1>2. /\ view'[p] \in Database /\ DatabaseSound(view'[p])
        /\ Live(view'[p]) \subseteq Live(view[p]) \cup {item.id}
    BY <1>1, CaptureSound
  <1>3. /\ staged' = [staged EXCEPT ![p] = staged[p] + 1]
        /\ writer' = p
        /\ UNCHANGED <<disk, pc, batch, stale, issued, captured, dropped, reads, manual>>
    BY DEF StageItem
  <1>. HIDE DEF item
  <1>4. TypeOK'
    <2>1. view' \in [Procs -> Database]
      BY <1>1, <1>2 DEF IInv, TypeOK
    <2>2. staged' \in [Procs -> Nat]
      BY <1>3 DEF IInv, TypeOK
    <2>3. writer' \in Procs \cup {NoProc}
      BY <1>3
    <2>. QED  BY <2>1, <2>2, <2>3, <1>3 DEF IInv, TypeOK
  <1>5. \A q \in Procs : q # p => view'[q] = view[q] /\ staged'[q] = staged[q]
    BY <1>1, <1>3 DEF IInv, TypeOK
  <1>6. \A q \in Procs : DatabaseSound(view'[q])
    BY <1>2, <1>5 DEF IInv
  <1>7. IdsFresh'
    <2>1. \A q \in Procs : Live(view'[q]) \subseteq issued
      BY <1>1, <1>2, <1>5 DEF IInv, IdsFresh
    <2>2. ASSUME NEW q \in Procs, NEW n \in 1 .. Len(batch[q]),
                 NEW r \in Procs, r # q \/ n > staged'[q]
          PROVE  batch[q][n].id \notin Live(view'[r])
      <3>1. CASE r # p
        BY <1>3, <1>5, <2>2, <3>1 DEF IInv, IdsFresh, TypeOK
      <3>2. CASE r = p
        <4>1. staged[p] \in Nat /\ staged'[p] = staged[p] + 1
          BY <1>3 DEF IInv, TypeOK
        <4>2. batch[q][n].id \notin Live(view[p])
          BY <2>2, <3>2, <4>1, <1>5 DEF IInv, IdsFresh, TypeOK
        <4>3. batch[q][n].id # item.id
          <5>1. ~(q = p /\ n = staged[p] + 1)
            BY <2>2, <3>2, <4>1
          <5>. QED  BY <1>1, <5>1 DEF IInv, IdsFresh, item
        <4>. QED  BY <1>2, <3>2, <4>2, <4>3
      <3>. QED  BY <3>1, <3>2
    <2>3. /\ Live(disk') = Live(disk) /\ issued' = issued
          /\ batch' = batch /\ pc' = pc
      BY <1>3
    <2>. QED  BY <2>1, <2>2, <2>3 DEF IInv, IdsFresh
  <1>. QED  BY <1>3, <1>4, <1>6, <1>7 DEF IInv

LEMMA RequestIInv ==
    ASSUME IInv, NEW p \in Procs, Request(p)
    PROVE  IInv'
  <1>. PICK shapes \in Batches :
         \E ids \in Drawings(Len(shapes)) :
           /\ batch' = [batch EXCEPT ![p] =
                          [n \in DOMAIN shapes |-> WithId(shapes[n], ids[n])]]
           /\ issued' = issued \cup {ids[n] : n \in DOMAIN shapes}
    BY DEF Request
  <1>1. PICK ids \in Drawings(Len(shapes)) :
          /\ batch' = [batch EXCEPT ![p] =
                         [n \in DOMAIN shapes |-> WithId(shapes[n], ids[n])]]
          /\ issued' = issued \cup {ids[n] : n \in DOMAIN shapes}
    OBVIOUS
  <1>2. /\ pc' = [pc EXCEPT ![p] = "scoped"]
        /\ UNCHANGED <<disk, writer, staged, view, stale, captured, dropped, reads, manual>>
    BY DEF Request
  <1>3. shapes \in Seq(Shape) /\ DOMAIN shapes = 1 .. Len(shapes) /\ Len(shapes) \in Nat
    BY ConstantsAssumption
  <1>4. /\ \A n \in 1 .. Len(shapes) : ids[n] \in Ids \ issued
        /\ \A j, k \in 1 .. Len(shapes) : ids[j] = ids[k] => j = k
    BY DEF Drawings
  <1>. DEFINE items == [n \in 1 .. Len(shapes) |-> WithId(shapes[n], ids[n])]
  <1>5. /\ \A n \in 1 .. Len(shapes) : items[n].id = ids[n]
        /\ items \in Seq(Item) /\ Len(items) = Len(shapes)
    <2>1. ASSUME NEW n \in 1 .. Len(shapes)
          PROVE  WithId(shapes[n], ids[n]) \in Item
      <3>1. shapes[n] \in Shape /\ ids[n] \in Ids
        BY <1>3, <1>4
      <3>. QED  BY <3>1 DEF WithId, Item, Shape
    <2>2. \A n \in 1 .. Len(shapes) : WithId(shapes[n], ids[n]).id = ids[n]
      BY DEF WithId
    <2>. QED  BY <1>3, <2>1, <2>2
  <1>6. batch' = [batch EXCEPT ![p] = items]
    BY <1>1, <1>3
  <1>7. issued' \subseteq Ids /\ issued \subseteq issued'
        /\ \A n \in 1 .. Len(items) : items[n].id \in issued' \ issued
    <2>. HIDE DEF items
    <2>1. issued' = issued \cup {ids[n] : n \in 1 .. Len(shapes)}
      BY <1>1, <1>3
    <2>2. issued \subseteq Ids
      BY DEF IInv, TypeOK
    <2>3. issued' \subseteq Ids /\ issued \subseteq issued'
      BY <1>4, <2>1, <2>2
    <2>4. \A n \in 1 .. Len(shapes) : ids[n] \in issued' \ issued
      BY <1>4, <2>1
    <2>5. \A n \in 1 .. Len(items) : items[n].id \in issued' \ issued
      BY <1>5, <2>4
    <2>. QED  BY <2>3, <2>5
  <1>8. \A j, k \in 1 .. Len(items) : items[j].id = items[k].id => j = k
    BY <1>4, <1>5
  <1>9. items \in Seq(Item)
    BY <1>5
  <1>. HIDE DEF items
  <1>10. TypeOK'
    BY <1>2, <1>6, <1>7, <1>9 DEF IInv, TypeOK
  <1>11. /\ batch'[p] = items /\ pc'[p] = "scoped"
         /\ \A q \in Procs : q # p => batch'[q] = batch[q] /\ pc'[q] = pc[q]
    BY <1>2, <1>6 DEF IInv, TypeOK
  <1>12. IdsFresh'
    <2>1. ASSUME NEW q \in Procs, NEW n \in 1 .. Len(batch'[q])
          PROVE  /\ batch'[q][n].id \in issued' \ Live(disk)
                 /\ \A r \in Procs : r # q \/ n > staged[q]
                      => batch'[q][n].id \notin Live(view[r])
                 /\ \A r \in Procs : \A m \in 1 .. Len(batch'[r]) :
                      batch'[r][m].id = batch'[q][n].id => r = q /\ m = n
      <3>1. CASE q = p
        BY <1>7, <1>8, <1>11, <3>1 DEF IInv, IdsFresh
      <3>2. CASE q # p
        BY <1>7, <1>11, <3>2 DEF IInv, IdsFresh
      <3>. QED  BY <3>1, <3>2
    <2>2. \A q \in Procs : pc'[q] = "idle" => batch'[q] = <<>>
      BY <1>11 DEF IInv, IdsFresh
    <2>3. Live(disk) \subseteq issued' /\ \A q \in Procs : Live(view[q]) \subseteq issued'
      BY <1>7 DEF IInv, IdsFresh
    <2>4. disk' = disk /\ view' = view /\ staged' = staged
      BY <1>2
    <2>. QED  BY <2>1, <2>2, <2>3, <2>4 DEF IdsFresh
  <1>. QED  BY <1>2, <1>10, <1>12 DEF IInv

LEMMA TakeSnapshotIInv ==
    ASSUME IInv, NEW p \in Procs, TakeSnapshot(p)
    PROVE  IInv'
  <1>1. /\ pc' = [pc EXCEPT ![p] = "open"]
        /\ view' = [view EXCEPT ![p] = disk]
        /\ stale' = [stale EXCEPT ![p] = FALSE]
        /\ UNCHANGED <<disk, writer, batch, staged, issued, captured, dropped, reads, manual>>
    BY DEF TakeSnapshot
  <1>2. TypeOK'
    BY <1>1 DEF IInv, TypeOK
  <1>3. \A q \in Procs : view'[q] = IF q = p THEN disk ELSE view[q]
    BY <1>1 DEF IInv, TypeOK
  <1>4. \A q \in Procs : pc'[q] = IF q = p THEN "open" ELSE pc[q]
    BY <1>1 DEF IInv, TypeOK
  <1>5. IdsFresh'
    BY <1>1, <1>3, <1>4 DEF IInv, IdsFresh, Live
  <1>. QED  BY <1>1, <1>2, <1>3, <1>5 DEF IInv

\* A call that ends, by COMMIT or by ROLLBACK, keeps the pending ids fresh:
\* those of other calls are neither in its database nor on the disk.
LEMMA CloseKeepsFresh ==
    ASSUME IInv, NEW p \in Procs, Close(p),
           issued' = issued, disk' \in {disk, view[p]}
    PROVE  IdsFresh'
  <1>1. /\ \A q \in Procs : view'[q] = IF q = p THEN EmptyDatabase ELSE view[q]
        /\ \A q \in Procs : batch'[q] = IF q = p THEN <<>> ELSE batch[q]
        /\ \A q \in Procs : pc'[q] = IF q = p THEN "idle" ELSE pc[q]
        /\ \A q \in Procs : staged'[q] = IF q = p THEN 0 ELSE staged[q]
    BY DEF Close, IInv, TypeOK
  <1>2. Live(EmptyDatabase) = {} /\ 1 .. Len(<<>>) = {}
    BY EmptySound
  <1>3. \A q \in Procs : Live(view'[q]) \subseteq issued
    BY <1>1, <1>2 DEF IInv, IdsFresh
  <1>4. ASSUME NEW q \in Procs, NEW n \in 1 .. Len(batch'[q])
        PROVE  /\ batch'[q][n].id \in issued' \ Live(disk')
               /\ \A r \in Procs : r # q \/ n > staged'[q]
                    => batch'[q][n].id \notin Live(view'[r])
               /\ \A r \in Procs : \A m \in 1 .. Len(batch'[r]) :
                    batch'[r][m].id = batch'[q][n].id => r = q /\ m = n
    <2>1. /\ q # p /\ batch'[q] = batch[q] /\ staged'[q] = staged[q]
          /\ n \in 1 .. Len(batch[q])
      BY <1>1, <1>2, <1>4
    <2>2. /\ batch[q][n].id \in issued
          /\ batch[q][n].id \notin Live(view[p])
          /\ batch[q][n].id \notin Live(disk)
      BY <2>1 DEF IInv, IdsFresh
    <2>3. ASSUME NEW r \in Procs, r # q \/ n > staged'[q]
          PROVE  batch'[q][n].id \notin Live(view'[r])
      <3>1. CASE r = p
        BY <1>1, <1>2, <3>1
      <3>2. CASE r # p
        <4>1. view'[r] = view[r]
          BY <1>1, <3>2
        <4>. QED  BY <2>1, <2>3, <4>1 DEF IInv, IdsFresh
      <3>. QED  BY <3>1, <3>2
    <2>4. ASSUME NEW r \in Procs, NEW m \in 1 .. Len(batch'[r]),
                 batch'[r][m].id = batch'[q][n].id
          PROVE  r = q /\ m = n
      <3>1. r # p /\ batch'[r] = batch[r] /\ m \in 1 .. Len(batch[r])
        BY <1>1, <1>2, <2>4
      <3>. QED  BY <2>1, <2>4, <3>1 DEF IInv, IdsFresh
    <2>5. batch'[q][n].id \in issued' \ Live(disk')
      BY <2>1, <2>2
    <2>. QED  BY <2>3, <2>4, <2>5
  <1>5. \A q \in Procs : pc'[q] = "idle" => batch'[q] = <<>>
    BY <1>1 DEF IInv, IdsFresh
  <1>6. Live(disk') \subseteq issued
    BY DEF IInv, IdsFresh
  <1>7. Live(disk)' = Live(disk') /\ \A q \in Procs : Live(view[q])' = Live(view'[q])
    BY DEF Live
  <1>. QED  BY <1>3, <1>4, <1>5, <1>6, <1>7 DEF IdsFresh

LEMMA CommitIInv ==
    ASSUME IInv, NEW p \in Procs, Commit(p)
    PROVE  IInv'
  <1>1. /\ disk' = view[p] /\ captured' = captured + Len(batch[p])
        /\ writer' = NoProc /\ stale' = Overtaken(p)
        /\ pc' = [pc EXCEPT ![p] = "idle"]
        /\ batch' = [batch EXCEPT ![p] = <<>>]
        /\ staged' = [staged EXCEPT ![p] = 0]
        /\ view' = [view EXCEPT ![p] = EmptyDatabase]
        /\ UNCHANGED <<issued, dropped, reads, manual>>
        /\ writer = p /\ staged[p] = Len(batch[p])
    BY DEF Commit, Close
  <1>2. EmptyDatabase \in Database /\ Live(EmptyDatabase) = {}
        /\ DatabaseSound(EmptyDatabase)
    BY EmptySound
  <1>3. TypeOK'
    <2>1. Overtaken(p) \in [Procs -> BOOLEAN]
      BY DEF Overtaken, IInv, TypeOK
    <2>2. captured' \in Nat
      BY <1>1 DEF IInv, TypeOK
    <2>3. disk' \in Database /\ issued' \in SUBSET Ids /\ writer' \in Procs \cup {NoProc}
      BY <1>1 DEF IInv, TypeOK
    <2>4. batch' \in [Procs -> Seq(Item)] /\ staged' \in [Procs -> Nat]
          /\ view' \in [Procs -> Database]
          /\ pc' \in [Procs -> {"idle", "scoped", "open", "stuck"}]
      BY <1>1, <1>2 DEF IInv, TypeOK
    <2>5. stale' \in [Procs -> BOOLEAN] /\ dropped' \in Nat /\ reads' \in Nat
          /\ manual' \in Nat
      BY <1>1, <2>1 DEF IInv, TypeOK
    <2>. QED  BY <2>2, <2>3, <2>4, <2>5 DEF TypeOK
  <1>4. /\ \A q \in Procs : view'[q] = IF q = p THEN EmptyDatabase ELSE view[q]
        /\ \A q \in Procs : batch'[q] = IF q = p THEN <<>> ELSE batch[q]
        /\ \A q \in Procs : pc'[q] = IF q = p THEN "idle" ELSE pc[q]
        /\ \A q \in Procs : staged'[q] = IF q = p THEN 0 ELSE staged[q]
    BY <1>1 DEF IInv, TypeOK
  <1>5. IdsFresh'
    <2>1. Close(p)
      BY DEF Commit
    <2>. QED  BY <1>1, <2>1, CloseKeepsFresh
  <1>. QED  BY <1>1, <1>2, <1>3, <1>4, <1>5 DEF IInv

LEMMA CommitFailsIInv ==
    ASSUME IInv, NEW p \in Procs, CommitFails(p)
    PROVE  IInv'
  <1>1. /\ pc' = [pc EXCEPT ![p] = "stuck"]
        /\ UNCHANGED <<disk, writer, batch, staged, view, stale, issued, captured, dropped,
                       reads, manual>>
    BY DEF CommitFails
  <1>2. TypeOK'
    BY <1>1 DEF IInv, TypeOK
  <1>3. \A q \in Procs : pc'[q] = "idle" => pc[q] = "idle"
    BY <1>1 DEF IInv, TypeOK
  <1>4. IdsFresh'
    BY <1>1, <1>3 DEF IInv, IdsFresh, Live
  <1>. QED  BY <1>1, <1>2, <1>4 DEF IInv

LEMMA AbortIInv ==
    ASSUME IInv, NEW p \in Procs, Abort(p)
    PROVE  IInv'
  <1>1. /\ writer' \in {writer, NoProc} /\ stale' = [stale EXCEPT ![p] = FALSE]
        /\ pc' = [pc EXCEPT ![p] = "idle"]
        /\ batch' = [batch EXCEPT ![p] = <<>>]
        /\ staged' = [staged EXCEPT ![p] = 0]
        /\ view' = [view EXCEPT ![p] = EmptyDatabase]
        /\ UNCHANGED <<disk, issued, captured, dropped, reads, manual>>
    BY DEF Abort, Close
  <1>2. EmptyDatabase \in Database /\ Live(EmptyDatabase) = {}
        /\ DatabaseSound(EmptyDatabase)
    BY EmptySound
  <1>3. TypeOK'
    BY <1>1, <1>2 DEF IInv, TypeOK
  <1>4. /\ \A q \in Procs : view'[q] = IF q = p THEN EmptyDatabase ELSE view[q]
        /\ \A q \in Procs : batch'[q] = IF q = p THEN <<>> ELSE batch[q]
        /\ \A q \in Procs : pc'[q] = IF q = p THEN "idle" ELSE pc[q]
        /\ \A q \in Procs : staged'[q] = IF q = p THEN 0 ELSE staged[q]
    BY <1>1 DEF IInv, TypeOK
  <1>5. IdsFresh'
    <2>1. Close(p)
      BY DEF Abort
    <2>. QED  BY <1>1, <2>1, CloseKeepsFresh
  <1>. QED  BY <1>1, <1>2, <1>3, <1>4, <1>5 DEF IInv

\* A single statement that leaves the database sound and adds no thought.
LEMMA AutocommitIInv ==
    ASSUME IInv, NEW p \in Procs, NEW db \in Database, Autocommit(p, db),
           DatabaseSound(db), Live(db) \subseteq Live(disk),
           dropped' \in Nat, reads' \in Nat
    PROVE  IInv'
  <1>1. /\ disk' = db /\ stale' = Overtaken(p) /\ manual' = manual + 1
        /\ UNCHANGED <<writer, pc, batch, staged, view, issued, captured>>
    BY DEF Autocommit, procVars
  <1>2. Overtaken(p) \in [Procs -> BOOLEAN]
    BY DEF Overtaken, IInv, TypeOK
  <1>3. TypeOK'
    BY <1>1, <1>2 DEF IInv, TypeOK
  <1>4. IdsFresh'
    <2>1. Live(disk') \subseteq Live(disk)
      BY <1>1
    <2>. QED  BY <1>1, <2>1 DEF IInv, IdsFresh
  <1>. QED  BY <1>1, <1>3, <1>4 DEF IInv

\* One more reinforcement of one row.
Reinforced(t) == [t EXCEPT !.reinforcements = @ + 1]

LEMMA ReinforcedFields ==
    ASSUME NEW t \in Thought
    PROVE  /\ Reinforced(t) \in Thought /\ Reinforced(t) # NoThought
           /\ Reinforced(t).reinforcements = t.reinforcements + 1
           /\ Reinforced(t).content = t.content /\ Reinforced(t).project = t.project
           /\ Reinforced(t).how = t.how
  <1>1. Reinforced(t) \in Thought
    BY DEF Reinforced, Thought
  <1>2. /\ Reinforced(t).reinforcements = t.reinforcements + 1
        /\ Reinforced(t).content = t.content /\ Reinforced(t).project = t.project
        /\ Reinforced(t).how = t.how
    BY DEF Reinforced, Thought
  <1>. QED  BY <1>1, <1>2, ThoughtFields

\* What get_thought makes of the disk.
LEMMA GetThoughtFields ==
    ASSUME IInv, NEW p \in Procs, GetThought(p)
    PROVE  \E i \in Live(disk) : \E db \in Database :
             /\ Autocommit(p, db) /\ dropped' = dropped /\ reads' = reads + 1
             /\ db.thoughts = [disk.thoughts EXCEPT ![i] = Reinforced(disk.thoughts[i])]
             /\ db.edges = disk.edges /\ db.registry = disk.registry
             /\ Live(db) = Live(disk)
  <1>1. PICK i \in Live(disk) :
          /\ Autocommit(p, [disk EXCEPT !.thoughts[i].reinforcements = @ + 1])
          /\ reads' = reads + 1 /\ dropped' = dropped
    BY DEF GetThought
  <1>. DEFINE db == [disk EXCEPT !.thoughts[i].reinforcements = @ + 1]
  <1>2. disk \in Database /\ i \in Ids /\ disk.thoughts[i] \in Thought
    BY DatabaseFields DEF IInv, TypeOK
  <1>3. /\ db.thoughts = [disk.thoughts EXCEPT ![i] = Reinforced(disk.thoughts[i])]
        /\ db.edges = disk.edges /\ db.registry = disk.registry
        /\ db \in [thoughts : {db.thoughts}, edges : {db.edges},
                   registry : {db.registry}]
    BY <1>2 DEF Database, Reinforced
  <1>4. Autocommit(p, db)
    BY <1>1
  <1>. HIDE DEF db
  <1>5. db.thoughts \in [Ids -> Thought \cup {NoThought}]
    BY <1>2, <1>3, DatabaseFields, ReinforcedFields
  <1>6. db \in Database
    BY <1>2, <1>3, <1>5, DatabaseFields DEF Database
  <1>7. Live(db) = Live(disk)
    BY <1>2, <1>3, DatabaseFields, ReinforcedFields, ThoughtFields DEF Live
  <1>. QED  BY <1>1, <1>3, <1>4, <1>6, <1>7

LEMMA GetThoughtIInv ==
    ASSUME IInv, NEW p \in Procs, GetThought(p)
    PROVE  IInv'
  <1>1. PICK i \in Live(disk), db \in Database :
          /\ Autocommit(p, db) /\ dropped' = dropped /\ reads' = reads + 1
          /\ db.thoughts = [disk.thoughts EXCEPT ![i] = Reinforced(disk.thoughts[i])]
          /\ db.edges = disk.edges /\ db.registry = disk.registry
          /\ Live(db) = Live(disk)
    BY GetThoughtFields
  <1>2. disk \in Database /\ DatabaseSound(disk)
    BY DEF IInv, TypeOK
  <1>3. \A j \in Live(disk) : /\ db.thoughts[j].content = disk.thoughts[j].content
                              /\ db.thoughts[j].project = disk.thoughts[j].project
                              /\ db.thoughts[j].how = disk.thoughts[j].how
    BY <1>1, <1>2, DatabaseFields, ReinforcedFields
  <1>4. EdgesSound(db)
    BY <1>1, <1>2 DEF DatabaseSound, EdgesSound
  <1>5. ProjectsRegistered(db)
    BY <1>1, <1>2, <1>3 DEF DatabaseSound, ProjectsRegistered
  <1>6. TwinsExplained(db)
    BY <1>1, <1>2, <1>3, TwinsKept DEF DatabaseSound
  <1>7. dropped' \in Nat /\ reads' \in Nat
    BY <1>1 DEF IInv, TypeOK
  <1>. QED  BY <1>1, <1>4, <1>5, <1>6, <1>7, AutocommitIInv DEF DatabaseSound

LEMMA UpdateIInv ==
    ASSUME IInv, NEW p \in Procs, Update(p)
    PROVE  IInv'
  <1>1. PICK i \in Live(disk) : \E e \in Edits :
          /\ "project" \in e.touches => e.project \in disk.registry
          /\ Autocommit(p, [disk EXCEPT !.thoughts[i] = Edited(@, e)])
          /\ UNCHANGED <<dropped, reads>>
    BY DEF Update
  <1>2. PICK e \in Edits :
          /\ "project" \in e.touches => e.project \in disk.registry
          /\ Autocommit(p, [disk EXCEPT !.thoughts[i] = Edited(@, e)])
          /\ UNCHANGED <<dropped, reads>>
    BY <1>1
  <1>. DEFINE t == disk.thoughts[i]
              u == Edited(t, e)
              db == [disk EXCEPT !.thoughts[i] = Edited(@, e)]
  <1>3. disk \in Database /\ DatabaseSound(disk)
    BY DEF IInv, TypeOK
  <1>4. t \in Thought /\ i \in Ids
    BY <1>3, DatabaseFields
  <1>5. e.content \in Contents /\ e.shared \in BOOLEAN /\ e.sens \in Sensitivity
        /\ e.project \in Slugs
    BY ConstantsAssumption DEF Edit
  <1>6. u \in Thought /\ (u.how = "edited" \/ (/\ u.content = t.content
                                                /\ u.project = t.project
                                                /\ u.how = t.how))
        /\ (u.project = t.project \/ u.project \in disk.registry)
    <2>. DEFINE content == IF "content" \in e.touches THEN e.content ELSE t.content
                shared == IF "shared" \in e.touches THEN e.shared ELSE t.shared
                sens == IF "sens" \in e.touches THEN e.sens ELSE t.sens
                project == IF "project" \in e.touches THEN e.project ELSE t.project
                how == IF e.touches \cap {"content", "project"} # {}
                       THEN "edited" ELSE t.how
    <2>1. /\ content \in Contents /\ shared \in BOOLEAN /\ sens \in Sensitivity
          /\ project \in Slugs \cup {NoProject}
          /\ how \in {"created", "gated", "crowded", "edited"}
      BY <1>4, <1>5, ThoughtFields
    <2>2. /\ how = "edited" \/ (content = t.content /\ project = t.project /\ how = t.how)
          /\ project = t.project \/ project \in disk.registry
      BY <1>2
    <2>3. u = [t EXCEPT !.content = content, !.shared = shared, !.sens = sens,
                        !.project = project, !.how = how]
      BY Zenon DEF Edited
    <2>. HIDE DEF content, shared, sens, project, how, u, t
    <2>4. u = [content |-> content, trust |-> t.trust, shared |-> shared,
               sens |-> sens, project |-> project,
               reinforcements |-> t.reinforcements, how |-> how]
      BY <1>4, <2>3 DEF Thought
    <2>. QED  BY <1>4, <2>1, <2>2, <2>4, ThoughtFields DEF Thought
  <1>7. /\ db.thoughts = [disk.thoughts EXCEPT ![i] = u]
        /\ db.edges = disk.edges /\ db.registry = disk.registry
        /\ db \in [thoughts : {db.thoughts}, edges : {db.edges},
                   registry : {db.registry}]
    BY <1>3 DEF Database
  <1>8. Autocommit(p, db)
    BY <1>2
  <1>. HIDE DEF db, u
  <1>9. db.thoughts \in [Ids -> Thought \cup {NoThought}]
    BY <1>3, <1>4, <1>6, <1>7, DatabaseFields
  <1>10. db \in Database
    BY <1>3, <1>7, <1>9, DatabaseFields DEF Database
  <1>11. Live(db) = Live(disk)
    BY <1>3, <1>6, <1>7, DatabaseFields, ThoughtFields DEF Live
  <1>12. EdgesSound(db)
    BY <1>3, <1>7, <1>11 DEF DatabaseSound, EdgesSound
  <1>13. \A j \in Live(disk) : db.thoughts[j] = IF j = i THEN u ELSE disk.thoughts[j]
    BY <1>3, <1>7, DatabaseFields
  <1>14. ProjectsRegistered(db)
    BY <1>3, <1>6, <1>7, <1>11, <1>13 DEF DatabaseSound, ProjectsRegistered
  <1>15. TwinsExplained(db)
    BY <1>3, <1>6, <1>11, <1>13, TwinsKept DEF DatabaseSound
  <1>16. dropped' \in Nat /\ reads' \in Nat
    BY <1>2 DEF IInv, TypeOK
  <1>. QED  BY <1>8, <1>10, <1>11, <1>12, <1>14, <1>15, <1>16, AutocommitIInv
            DEF DatabaseSound

LEMMA DeleteIInv ==
    ASSUME IInv, NEW p \in Procs, Delete(p)
    PROVE  IInv'
  <1>1. PICK i \in Live(disk) :
          /\ Autocommit(p, [disk EXCEPT
                              !.thoughts[i] = NoThought,
                              !.edges = {e \in @ : i \notin {e.source, e.target}}])
          /\ dropped' = dropped + 1 + disk.thoughts[i].reinforcements
          /\ reads' = reads
    BY DEF Delete
  <1>. DEFINE db == [disk EXCEPT
                       !.thoughts[i] = NoThought,
                       !.edges = {e \in @ : i \notin {e.source, e.target}}]
  <1>2. disk \in Database /\ DatabaseSound(disk)
    BY DEF IInv, TypeOK
  <1>3. /\ db.thoughts = [disk.thoughts EXCEPT ![i] = NoThought]
        /\ db.edges = {e \in disk.edges : i \notin {e.source, e.target}}
        /\ db.registry = disk.registry
        /\ db \in [thoughts : {db.thoughts}, edges : {db.edges},
                   registry : {db.registry}]
    BY <1>2 DEF Database
  <1>4. Autocommit(p, db)
    BY <1>1
  <1>. HIDE DEF db
  <1>5. db \in Database
    BY <1>2, <1>3, DatabaseFields DEF Database
  <1>6. Live(db) = Live(disk) \ {i}
        /\ \A j \in Live(db) : db.thoughts[j] = disk.thoughts[j]
    BY <1>2, <1>3, DatabaseFields DEF Live
  <1>7. EdgesSound(db)
    BY <1>2, <1>3, <1>6 DEF DatabaseSound, EdgesSound
  <1>8. ProjectsRegistered(db)
    BY <1>2, <1>3, <1>6 DEF DatabaseSound, ProjectsRegistered
  <1>9. TwinsExplained(db)
    BY <1>2, <1>6, TwinsKept DEF DatabaseSound
  <1>10. dropped' \in Nat /\ reads' \in Nat
    <2>1. disk.thoughts[i].reinforcements \in Nat
      BY <1>2, DatabaseFields, ThoughtFields
    <2>. QED  BY <1>1, <2>1 DEF IInv, TypeOK
  <1>. QED  BY <1>4, <1>5, <1>6, <1>7, <1>8, <1>9, <1>10, AutocommitIInv
            DEF DatabaseSound

\* UNIQUE(source_id, target_id, edge_type) over a set of edges.
Distinguishes(E) ==
    \A e, f \in E :
        e.source = f.source /\ e.target = f.target /\ e.type = f.type => e = f

\* A statement that changes edges only.
LEMMA EdgeWriteIInv ==
    ASSUME IInv, NEW p \in Procs, NEW E \in SUBSET Edge,
           Autocommit(p, [disk EXCEPT !.edges = E]), UNCHANGED <<dropped, reads>>,
           \A e \in E : {e.source, e.target} \subseteq Live(disk),
           Distinguishes(E)
    PROVE  IInv'
  <1>. DEFINE db == [disk EXCEPT !.edges = E]
  <1>1. disk \in Database /\ DatabaseSound(disk)
    BY DEF IInv, TypeOK
  <1>2. /\ db \in Database
        /\ db.thoughts = disk.thoughts /\ db.edges = E
        /\ db.registry = disk.registry
    BY <1>1 DEF Database
  <1>. HIDE DEF db
  <1>3. Live(db) = Live(disk)
    BY <1>2 DEF Live
  <1>4. EdgesSound(db)
    BY <1>2, <1>3 DEF EdgesSound, Distinguishes
  <1>5. ProjectsRegistered(db)
    BY <1>1, <1>2, <1>3 DEF ProjectsRegistered, DatabaseSound
  <1>6. TwinsExplained(db)
    BY <1>1, <1>2, <1>3 DEF TwinsExplained, DatabaseSound
  <1>7. dropped' \in Nat /\ reads' \in Nat
    BY DEF IInv, TypeOK
  <1>. QED  BY <1>2, <1>3, <1>4, <1>5, <1>6, <1>7, AutocommitIInv
            DEF DatabaseSound, db

LEMMA DiskEdges ==
    ASSUME IInv
    PROVE  /\ disk.edges \in SUBSET Edge
           /\ \A e \in disk.edges : {e.source, e.target} \subseteq Live(disk)
           /\ Distinguishes(disk.edges)
  <1>1. disk \in Database /\ EdgesSound(disk)
    BY DEF IInv, TypeOK, DatabaseSound
  <1>2. disk.edges \in SUBSET Edge
    BY <1>1, DatabaseFields
  <1>. QED  BY <1>1, <1>2 DEF EdgesSound, Distinguishes

LEMMA LinkIInv ==
    ASSUME IInv, NEW p \in Procs, Link(p)
    PROVE  IInv'
  <1>1. PICK e \in Edge :
          /\ {e.source, e.target} \subseteq Live(disk)
          /\ ~\E f \in disk.edges : /\ f.source = e.source
                                    /\ f.target = e.target
                                    /\ f.type = e.type
          /\ Autocommit(p, [disk EXCEPT !.edges = @ \cup {e}])
          /\ UNCHANGED <<dropped, reads>>
    BY DEF Link
  <1>. DEFINE E == disk.edges \cup {e}
  <1>2. E \in SUBSET Edge
    BY DiskEdges
  <1>3. \A f \in E : {f.source, f.target} \subseteq Live(disk)
    BY <1>1, DiskEdges
  <1>4. Distinguishes(E)
    BY <1>1, DiskEdges DEF Distinguishes
  <1>5. Autocommit(p, [disk EXCEPT !.edges = E]) /\ UNCHANGED <<dropped, reads>>
    BY <1>1
  <1>. QED  BY <1>2, <1>3, <1>4, <1>5, EdgeWriteIInv

LEMMA UnlinkIInv ==
    ASSUME IInv, NEW p \in Procs, Unlink(p)
    PROVE  IInv'
  <1>1. PICK e \in disk.edges :
          /\ Autocommit(p, [disk EXCEPT !.edges = @ \ {e}])
          /\ UNCHANGED <<dropped, reads>>
    BY DEF Unlink
  <1>. DEFINE E == disk.edges \ {e}
  <1>2. E \in SUBSET Edge
    BY DiskEdges
  <1>3. \A f \in E : {f.source, f.target} \subseteq Live(disk)
    BY DiskEdges
  <1>4. Distinguishes(E)
    BY DiskEdges DEF Distinguishes
  <1>5. Autocommit(p, [disk EXCEPT !.edges = E]) /\ UNCHANGED <<dropped, reads>>
    BY <1>1
  <1>. QED  BY <1>2, <1>3, <1>4, <1>5, EdgeWriteIInv

LEMMA ExpireIInv ==
    ASSUME IInv, NEW p \in Procs, Expire(p)
    PROVE  IInv'
  <1>1. PICK e \in disk.edges : \E live \in BOOLEAN :
          /\ Autocommit(p, [disk EXCEPT
                              !.edges = (@ \ {e}) \cup {[e EXCEPT !.live = live]}])
          /\ UNCHANGED <<dropped, reads>>
    BY DEF Expire
  <1>2. PICK live \in BOOLEAN :
          /\ Autocommit(p, [disk EXCEPT
                              !.edges = (@ \ {e}) \cup {[e EXCEPT !.live = live]}])
          /\ UNCHANGED <<dropped, reads>>
    BY <1>1
  <1>. DEFINE f == [e EXCEPT !.live = live]
              E == (disk.edges \ {e}) \cup {f}
  <1>3. e \in Edge
    BY DiskEdges
  <1>4. f \in Edge /\ f.source = e.source /\ f.target = e.target /\ f.type = e.type
    BY <1>3 DEF Edge
  <1>5. Autocommit(p, [disk EXCEPT !.edges = E]) /\ UNCHANGED <<dropped, reads>>
    BY <1>2
  <1>. HIDE DEF f
  <1>6. E \in SUBSET Edge
    BY <1>4, DiskEdges
  <1>7. \A g \in E : {g.source, g.target} \subseteq Live(disk)
    BY <1>4, DiskEdges
  <1>8. Distinguishes(E)
    BY <1>4, DiskEdges DEF Distinguishes
  <1>. QED  BY <1>5, <1>6, <1>7, <1>8, EdgeWriteIInv

LEMMA StepIInv == IInv /\ [Next]_vars => IInv'
  <1>1. ASSUME IInv, UNCHANGED vars PROVE IInv'
    <2>1. UNCHANGED <<disk, writer, pc, batch, staged, view, stale, issued,
                      captured, dropped, reads, manual>>
      BY <1>1 DEF vars, procVars
    <2>2. TypeOK'
      BY <1>1, <2>1 DEF IInv, TypeOK
    <2>3. IdsFresh'
      BY <1>1, <2>1 DEF IInv, IdsFresh
    <2>. QED  BY <1>1, <2>1, <2>2, <2>3 DEF IInv
  <1>2. ASSUME IInv, NEW p \in Procs,
               \/ Request(p) \/ TakeSnapshot(p) \/ StageItem(p)
               \/ Commit(p) \/ CommitFails(p) \/ Abort(p)
               \/ GetThought(p) \/ Update(p) \/ Delete(p) \/ Link(p) \/ Unlink(p) \/ Expire(p)
        PROVE  IInv'
    <2>1. CASE Request(p)       BY <1>2, <2>1, RequestIInv
    <2>2. CASE TakeSnapshot(p)  BY <1>2, <2>2, TakeSnapshotIInv
    <2>3. CASE StageItem(p)     BY <1>2, <2>3, StageItemIInv
    <2>4. CASE Commit(p)        BY <1>2, <2>4, CommitIInv
    <2>5. CASE Abort(p)         BY <1>2, <2>5, AbortIInv
    <2>6. CASE Update(p)        BY <1>2, <2>6, UpdateIInv
    <2>7. CASE Delete(p)        BY <1>2, <2>7, DeleteIInv
    <2>8. CASE Link(p)          BY <1>2, <2>8, LinkIInv
    <2>9. CASE Unlink(p)        BY <1>2, <2>9, UnlinkIInv
    <2>10. CASE Expire(p)       BY <1>2, <2>10, ExpireIInv
    <2>11. CASE CommitFails(p)  BY <1>2, <2>11, CommitFailsIInv
    <2>12. CASE GetThought(p)   BY <1>2, <2>12, GetThoughtIInv
    <2>. QED  BY <1>2, <2>1, <2>2, <2>3, <2>4, <2>5, <2>6, <2>7, <2>8, <2>9, <2>10,
                 <2>11, <2>12
  <1>. QED  BY <1>1, <1>2 DEF Next

-----------------------------------------------------------------------------
(* Theorems.                                                               *)

THEOREM InductiveInvariant == Spec => []IInv
  <1>. QED  BY InitIInv, StepIInv, PTL DEF Spec

\* Every variable keeps its type, for any processes, ids and calls.
THEOREM TypeCorrect == Spec => []TypeOK
  <1>1. IInv => TypeOK
    BY DEF IInv
  <1>. QED  BY <1>1, InductiveInvariant, PTL

\* Edges always join stored thoughts, are unique, and every thought's project
\* is registered, on disk and in every open transaction (schema FK and UNIQUE,
\* capture_scope, in_transaction).
THEOREM IntegrityHolds == Spec => []StoreIntegrity
  <1>1. IInv => StoreIntegrity
    BY DEF IInv, StoreIntegrity, DatabaseSound
  <1>. QED  BY <1>1, InductiveInvariant, PTL

\* No two thoughts of one project are stored with the same content unless the
\* trust gate, an update or a crowd of more matching rows than the limit
\* explains it (find_candidates, reconcile, capture_single).
THEOREM NoSilentTwinsHolds == Spec => []NoSilentTwins
  <1>1. IInv => NoSilentTwins
    BY DEF IInv, NoSilentTwins, DatabaseSound
  <1>. QED  BY <1>1, InductiveInvariant, PTL

\* An item of lower trust leaves every trusted thought as it was.
LEMMA CaptureSpares ==
    ASSUME NEW db \in Database, NEW item \in Item, item.id \notin Live(db),
           item.trust < Trusted, NEW r \in CaptureItem(db, item),
           NEW i \in Live(db), db.thoughts[i].trust = Trusted
    PROVE  /\ r.thoughts[i] = db.thoughts[i]
           /\ \A e : e.source = i => (e \in r.edges <=> e \in db.edges)
  <1>. DEFINE d == Provision(db, item)
  <1>1. /\ d \in Database
        /\ d.thoughts = db.thoughts /\ d.edges = db.edges
    BY ProvisionFields
  <1>2. PICK pool \in Candidates(d, item) :
          \/ Duplicates(d, item, pool) = {} /\ r = Insert(d, item, pool)
          \/ \E j \in Survivors(d, item, pool) : r = Merge(d, item, j)
    BY OnePool
  <1>. HIDE DEF d
  <1>3. i \notin Eligible(d, item, pool)
    BY <1>1 DEF Eligible, CanReconcile, Trusted
  <1>4. i \in Ids /\ i # item.id /\ item.id \in Ids /\ item.related \in SUBSET Ids
    BY DatabaseFields, ItemFields
  <1>5. CASE r = Insert(d, item, pool)
    <2>. DEFINE targets == item.related \cup
                             Among(d, item, Eligible(d, item, pool), AutoPairs)
                related == RelatedEdges(r.thoughts, d.edges, item.id, targets)
    <2>1. /\ r.thoughts = [d.thoughts EXCEPT ![item.id] = NewThought(d, item, pool)]
          /\ r.edges = d.edges \cup RefutingEdges(d, item, pool) \cup related
      BY <1>1, <1>5 DEF Insert, Database
    <2>2. targets \in SUBSET Ids
      BY <1>1, Scopes, DatabaseFields, ItemFields DEF Among
    <2>3. \A e \in related : e.source = item.id
      BY <1>4, <2>2, RelatedSound
    <2>4. \A e \in RefutingEdges(d, item, pool) : e.source \in Eligible(d, item, pool)
      BY <1>1, RefutingSound, Scopes
    <2>. HIDE DEF targets, related
    <2>. QED  BY <1>1, <1>3, <1>4, <2>1, <2>3, <2>4, DatabaseFields
  <1>6. CASE \E j \in Survivors(d, item, pool) : r = Merge(d, item, j)
    <2>1. PICK j \in Survivors(d, item, pool) : r = Merge(d, item, j)
      BY <1>6
    <2>2. j \in Eligible(d, item, pool) /\ j \in Live(d) /\ j \in Ids
      BY <1>1, <2>1, Scopes, DatabaseFields
    <2>. DEFINE related == RelatedEdges(d.thoughts, d.edges, j, item.related)
    <2>3. /\ r.thoughts = [d.thoughts EXCEPT ![j] = Merged(@, item)]
          /\ r.edges = d.edges \cup related
      BY <1>1, <2>1, <2>2, MergeFields
    <2>4. \A e \in related : e.source = j
      BY <1>4, <2>2, RelatedSound
    <2>. HIDE DEF related
    <2>. QED  BY <1>1, <1>3, <1>4, <2>2, <2>3, <2>4, DatabaseFields
  <1>. QED  BY <1>2, <1>5, <1>6

\* The trust gate holds for every step of every execution (can_reconcile).
THEOREM TrustGateHolds == Spec => TrustGate
  <1>1. ASSUME IInv, NEW p \in Procs, StageItem(p)
        PROVE  LowerTrustSparesTrusted(p)
    <2>. DEFINE item == batch[p][staged[p] + 1]
    <2>1. /\ item \in Item /\ item.id \notin Live(view[p])
          /\ view[p] \in Database /\ view'[p] \in CaptureItem(view[p], item)
      BY <1>1, NextItem
    <2>2. ASSUME item.trust < Trusted, NEW i \in Live(view[p]),
                 view[p].thoughts[i].trust = Trusted
          PROVE  /\ view'[p].thoughts[i] = view[p].thoughts[i]
                 /\ {e \in view'[p].edges : e.source = i}
                      = {e \in view[p].edges : e.source = i}
      BY <2>1, <2>2, CaptureSpares
    <2>. QED  BY <2>2 DEF LowerTrustSparesTrusted
  <1>2. IInv /\ [Next]_vars
          => [\A p \in Procs : StageItem(p) => LowerTrustSparesTrusted(p)]_vars
    BY <1>1
  <1>. QED  BY <1>2, InductiveInvariant, PTL DEF Spec, TrustGate

\* An item changes an existing thought only by tightening it.
LEMMA CaptureKeeps ==
    ASSUME NEW db \in Database, NEW item \in Item, item.id \notin Live(db),
           NEW r \in CaptureItem(db, item)
    PROVE  /\ db.edges \subseteq r.edges
           /\ \A i \in Live(db) :
                i \in Live(r) /\ Tightens(db.thoughts[i], r.thoughts[i])
  <1>. DEFINE d == Provision(db, item)
  <1>1. /\ d \in Database
        /\ d.thoughts = db.thoughts /\ d.edges = db.edges
    BY ProvisionFields
  <1>2. PICK pool \in Candidates(d, item) :
          \/ Duplicates(d, item, pool) = {} /\ r = Insert(d, item, pool)
          \/ \E j \in Survivors(d, item, pool) : r = Merge(d, item, j)
    BY OnePool
  <1>. HIDE DEF d
  <1>3. Live(d) = Live(db) /\ item.id \in Ids
    BY <1>1, ItemFields DEF Live
  <1>4. \A i \in Live(db) : /\ i \in Ids /\ db.thoughts[i] \in Thought
                            /\ Tightens(db.thoughts[i], db.thoughts[i])
    BY DatabaseFields, ThoughtFields DEF Tightens, Trust, Sensitivity
  <1>5. CASE r = Insert(d, item, pool)
    <2>1. /\ r.thoughts = [d.thoughts EXCEPT ![item.id] = NewThought(d, item, pool)]
          /\ d.edges \subseteq r.edges
      <3>1. Insert(d, item, pool).thoughts
              = [d.thoughts EXCEPT ![item.id] = NewThought(d, item, pool)]
            /\ d.edges \subseteq Insert(d, item, pool).edges
        BY <1>1 DEF Insert, Database
      <3>. QED  BY <1>5, <3>1, Zenon
    <2>2. Live(r) = Live(d) \cup {item.id}
      BY <1>1, <1>5, InsertTyped
    <2>3. \A i \in Live(db) : r.thoughts[i] = db.thoughts[i]
      BY <1>1, <1>3, <1>4, <2>1, DatabaseFields
    <2>4. \A i \in Live(db) :
            i \in Live(r) /\ Tightens(db.thoughts[i], r.thoughts[i])
      BY <1>3, <1>4, <2>2, <2>3
    <2>. QED  BY <1>1, <2>1, <2>4
  <1>6. CASE \E j \in Survivors(d, item, pool) : r = Merge(d, item, j)
    <2>1. PICK j \in Survivors(d, item, pool) : r = Merge(d, item, j)
      BY <1>6
    <2>2. j \in Live(d)
      BY <1>1, <2>1, Scopes
    <2>3. /\ r.thoughts = [d.thoughts EXCEPT ![j] = Merged(d.thoughts[j], item)]
          /\ d.edges \subseteq r.edges
      BY <1>1, <2>1, <2>2, MergeFields
    <2>4. Live(r) = Live(d)
      BY <1>1, <2>1, <2>2, MergeTyped
    <2>5. Tightens(db.thoughts[j], Merged(db.thoughts[j], item))
      BY <1>3, <1>4, <2>2, MergedTightens
    <2>6. \A i \in Live(db) :
            r.thoughts[i] = IF i = j THEN Merged(db.thoughts[j], item)
                                     ELSE db.thoughts[i]
      BY <1>1, <1>3, <1>4, <2>3, DatabaseFields
    <2>. QED  BY <1>1, <1>3, <1>4, <2>3, <2>4, <2>5, <2>6
  <1>. QED  BY <1>2, <1>5, <1>6

\* No capture of any process ever loosens, moves or removes a stored thought,
\* or removes an edge (capture_single's merge branch).
THEOREM CaptureTightensHolds == Spec => CaptureTightens
  <1>1. ASSUME IInv, NEW p \in Procs, StageItem(p)
        PROVE  CaptureOnlyTightens(p)
    <2>1. LET item == batch[p][staged[p] + 1]
          IN  /\ item \in Item /\ item.id \notin Live(view[p])
              /\ view[p] \in Database /\ view'[p] \in CaptureItem(view[p], item)
      BY <1>1, NextItem
    <2>. QED  BY <2>1, CaptureKeeps DEF CaptureOnlyTightens
  <1>2. IInv /\ [Next]_vars
          => [\A p \in Procs : StageItem(p) => CaptureOnlyTightens(p)]_vars
    BY <1>1
  <1>. QED  BY <1>2, InductiveInvariant, PTL DEF Spec, CaptureTightens

-----------------------------------------------------------------------------
(* Accounting: every committed item or read is counted or dropped.         *)

LEMMA CountedPairs ==
    ASSUME NEW db
    PROVE  \A x : x \in Counted(db) <=>
             \E i \in Live(db) : \E n \in 0 .. db.thoughts[i].reinforcements : x = <<i, n>>
  BY DEF Counted

\* A row's own captures are counted; there is no capture beyond them.
LEMMA CountedRow ==
    ASSUME NEW db \in Database, NEW i, NEW n
    PROVE  <<i, n>> \in Counted(db)
             <=> i \in Live(db) /\ n \in 0 .. db.thoughts[i].reinforcements
  BY CountedPairs

\* A set of counted pairs is known by its pairs.
LEMMA SamePairs ==
    ASSUME NEW r, NEW db, NEW x, \E i, n : x = <<i, n>>,
           \A j, m : <<j, m>> \in Counted(r) <=> <<j, m>> \in Counted(db) \/ <<j, m>> = x
    PROVE  Counted(r) = Counted(db) \cup {x}
  <1>1. \A y \in Counted(r) \cup Counted(db) \cup {x} : \E j, m : y = <<j, m>>
    BY CountedPairs
  <1>. QED  BY <1>1

\* A new row is one more capture.
LEMMA InsertCounts ==
    ASSUME NEW db \in Database, NEW item \in Item,
           NEW pool \in Candidates(db, item), item.id \notin Live(db)
    PROVE  \E x : x \notin Counted(db) /\ Counted(Insert(db, item, pool)) = Counted(db) \cup {x}
  <1>. DEFINE r == Insert(db, item, pool)
              x == <<item.id, 0>>
  <1>1. /\ r.thoughts = [db.thoughts EXCEPT ![item.id] = NewThought(db, item, pool)]
        /\ r \in Database /\ Live(r) = Live(db) \cup {item.id}
    <2>1. r.thoughts = [db.thoughts EXCEPT ![item.id] = NewThought(db, item, pool)]
      BY DEF Insert, Database
    <2>2. r \in Database /\ Live(r) = Live(db) \cup {item.id}
      BY InsertTyped
    <2>. QED  BY <2>1, <2>2
  <1>2. NewThought(db, item, pool).reinforcements = 0
    BY DEF NewThought
  <1>3. /\ r.thoughts[item.id].reinforcements = 0
        /\ \A i \in Live(db) : r.thoughts[i] = db.thoughts[i]
    BY <1>1, <1>2, DatabaseFields, ItemFields
  <1>4. x \notin Counted(db)
    BY CountedRow
  <1>. HIDE DEF r
  <1>5. \A i \in Live(r) : \A n :
          n \in 0 .. r.thoughts[i].reinforcements
            <=> \/ i \in Live(db) /\ n \in 0 .. db.thoughts[i].reinforcements
                \/ i = item.id /\ n = 0
    BY <1>1, <1>3
  <1>6. \A i, n : <<i, n>> \in Counted(r) <=> <<i, n>> \in Counted(db) \/ <<i, n>> = x
    <2>. TAKE i, n
    <2>1. <<i, n>> \in Counted(r)
            <=> i \in Live(r) /\ n \in 0 .. r.thoughts[i].reinforcements
      BY <1>1, CountedRow
    <2>2. <<i, n>> \in Counted(db)
            <=> i \in Live(db) /\ n \in 0 .. db.thoughts[i].reinforcements
      BY CountedRow
    <2>3. <<i, n>> = <<item.id, 0>> <=> i = item.id /\ n = 0
      OBVIOUS
    <2>. QED  BY <1>1, <1>5, <2>1, <2>2, <2>3
  <1>7. Counted(r) = Counted(db) \cup {x}
    <2>1. \E i, n : x = <<i, n>>
      OBVIOUS
    <2>. HIDE DEF x
    <2>. QED  BY <1>6, <2>1, SamePairs
  <1>. QED  BY <1>4, <1>7 DEF r

\* One more reinforcement of one row is one more pair.
LEMMA OneMoreCounted ==
    ASSUME NEW db \in Database, NEW r \in Database, NEW i \in Live(db),
           Live(r) = Live(db),
           r.thoughts[i].reinforcements = db.thoughts[i].reinforcements + 1,
           \A j \in Live(db) : j # i => r.thoughts[j] = db.thoughts[j]
    PROVE  \E x : x \notin Counted(db) /\ Counted(r) = Counted(db) \cup {x}
  <1>. DEFINE k == db.thoughts[i].reinforcements
              x == <<i, k + 1>>
  <1>1. k \in Nat
    BY DatabaseFields, ThoughtFields
  <1>2. x \notin Counted(db)
    BY <1>1, CountedRow
  <1>3. \A j \in Live(db) : \A n :
          n \in 0 .. r.thoughts[j].reinforcements
            <=> n \in 0 .. db.thoughts[j].reinforcements \/ (j = i /\ n = k + 1)
    BY <1>1
  <1>4. \A j, n : <<j, n>> \in Counted(r) <=> <<j, n>> \in Counted(db) \/ <<j, n>> = x
    <2>. TAKE j, n
    <2>1. <<j, n>> \in Counted(r)
            <=> j \in Live(r) /\ n \in 0 .. r.thoughts[j].reinforcements
      BY CountedRow
    <2>2. <<j, n>> \in Counted(db)
            <=> j \in Live(db) /\ n \in 0 .. db.thoughts[j].reinforcements
      BY CountedRow
    <2>3. <<j, n>> = <<i, k + 1>> <=> j = i /\ n = k + 1
      OBVIOUS
    <2>. QED  BY <1>3, <2>1, <2>2, <2>3
  <1>5. Counted(r) = Counted(db) \cup {x}
    <2>1. \E j, n : x = <<j, n>>
      OBVIOUS
    <2>. HIDE DEF x
    <2>. QED  BY <1>4, <2>1, SamePairs
  <1>. QED  BY <1>2, <1>5

\* A merge is one more reinforcement of one row.
LEMMA MergeCounts ==
    ASSUME NEW db \in Database, NEW item \in Item, NEW i \in Live(db)
    PROVE  \E x : x \notin Counted(db) /\ Counted(Merge(db, item, i)) = Counted(db) \cup {x}
  <1>. DEFINE r == Merge(db, item, i)
              k == db.thoughts[i].reinforcements
  <1>1. /\ r.thoughts = [db.thoughts EXCEPT ![i] = Merged(db.thoughts[i], item)]
        /\ r \in Database /\ Live(r) = Live(db)
    BY MergeFields, MergeTyped
  <1>2. db.thoughts[i] \in Thought /\ k \in Nat
    BY DatabaseFields, ThoughtFields
  <1>3. Merged(db.thoughts[i], item).reinforcements = k + 1
    <2>. DEFINE t == db.thoughts[i]
                shared == t.shared /\ item.shared
    <2>1. Merged(t, item) =
            [t EXCEPT !.trust = Higher(t.trust, item.trust), !.shared = shared,
                      !.sens = Higher(t.sens, item.sens),
                      !.reinforcements = t.reinforcements + 1]
      BY Zenon DEF Merged
    <2>. HIDE DEF t, shared
    <2>. QED  BY <1>2, <2>1 DEF Thought, t
  <1>4. /\ r.thoughts[i].reinforcements = k + 1
        /\ \A j \in Live(db) : j # i => r.thoughts[j] = db.thoughts[j]
    BY <1>1, <1>3, DatabaseFields
  <1>. HIDE DEF r
  <1>. QED  BY <1>1, <1>4, OneMoreCounted DEF r

LEMMA CaptureCounts ==
    ASSUME NEW db \in Database, NEW item \in Item, item.id \notin Live(db),
           NEW r \in CaptureItem(db, item), IsFiniteSet(Counted(db))
    PROVE  /\ IsFiniteSet(Counted(r))
           /\ Cardinality(Counted(r)) = Cardinality(Counted(db)) + 1
  <1>. DEFINE d == Provision(db, item)
  <1>1. d \in Database /\ d.thoughts = db.thoughts
    BY ProvisionFields
  <1>2. Live(d) = Live(db) /\ Counted(d) = Counted(db)
    BY <1>1 DEF Live, Counted
  <1>3. PICK pool \in Candidates(d, item) :
          \/ Duplicates(d, item, pool) = {} /\ r = Insert(d, item, pool)
          \/ \E i \in Survivors(d, item, pool) : r = Merge(d, item, i)
    BY OnePool
  <1>. HIDE DEF d
  <1>4. \E x : x \notin Counted(d) /\ Counted(r) = Counted(d) \cup {x}
    BY <1>1, <1>2, <1>3, Scopes, InsertCounts, MergeCounts
  <1>. QED  BY <1>2, <1>4, FS_AddElement

LEMMA EmptyCounts == Counted(EmptyDatabase) = {}
  BY EmptySound DEF Counted

LEMMA InitAccounts == Init => Accounts
  <1>. SUFFICES ASSUME Init PROVE Accounts
    OBVIOUS
  <1>1. IsFiniteSet(Counted(EmptyDatabase)) /\ Cardinality(Counted(EmptyDatabase)) = 0
    BY EmptyCounts, FS_EmptySet
  <1>. QED  BY <1>1, ConstantsAssumption DEF Init, Accounts, EveryCaptureCounted

LEMMA StageItemCounts ==
    ASSUME IInv, Accounts, NEW p \in Procs, StageItem(p)
    PROVE  Accounts'
  <1>. DEFINE item == batch[p][staged[p] + 1]
  <1>1. /\ item \in Item /\ item.id \notin Live(view[p]) /\ view[p] \in Database
        /\ view' = [view EXCEPT ![p] = view'[p]]
        /\ view'[p] \in CaptureItem(view[p], item)
    BY NextItem
  <1>2. /\ IsFiniteSet(Counted(view'[p]))
        /\ Cardinality(Counted(view'[p])) = Cardinality(Counted(view[p])) + 1
    BY <1>1, CaptureCounts DEF Accounts
  <1>3. /\ pc[p] = "open" /\ ~stale[p] /\ writer \in {NoProc, p} /\ writer' = p
        /\ staged' = [staged EXCEPT ![p] = @ + 1]
        /\ UNCHANGED <<disk, pc, stale, captured, dropped, reads>>
    BY DEF StageItem, MayWrite
  <1>4. \A q \in Procs : q # p => view'[q] = view[q] /\ staged'[q] = staged[q]
    BY <1>1, <1>3 DEF IInv, TypeOK
  <1>5. staged'[p] = staged[p] + 1 /\ staged[p] \in Nat /\ captured \in Nat /\ dropped \in Nat /\ reads \in Nat
    BY <1>3 DEF IInv, TypeOK
  <1>6. Cardinality(Counted(view[p])) \in Nat
    BY FS_CardinalityType DEF Accounts
  <1>7. Cardinality(Counted(view'[p])) + dropped = captured + reads + staged'[p]
    BY <1>2, <1>3, <1>5, <1>6 DEF Accounts
  <1>8. EveryCaptureCounted' /\ IsFiniteSet(Counted(disk'))
    BY <1>3 DEF Accounts, EveryCaptureCounted
  <1>9. ASSUME NEW q \in Procs
        PROVE  /\ IsFiniteSet(Counted(view'[q]))
               /\ pc'[q] = "open" /\ ~stale'[q] =>
                    Cardinality(Counted(view'[q])) + dropped' = captured' + reads' + staged'[q]
               /\ pc'[q] \in {"idle", "scoped"} => staged'[q] = 0
               /\ writer' = q => pc'[q] \in {"open", "stuck"} /\ ~stale'[q]
    <2>1. CASE q = p
      BY <1>2, <1>3, <1>7, <2>1
    <2>2. CASE q # p
      BY <1>3, <1>4, <2>2 DEF Accounts
    <2>. QED  BY <2>1, <2>2
  <1>. QED  BY <1>8, <1>9 DEF Accounts

\* A step that changes the disk leaves every other open snapshot stale.
LEMMA OvertakenAccounts ==
    ASSUME IInv, Accounts, NEW p \in Procs, stale' = Overtaken(p), writer' = NoProc,
           IsFiniteSet(Counted(disk')), EveryCaptureCounted',
           pc'[p] = "idle", staged'[p] = 0, IsFiniteSet(Counted(view'[p])),
           \A q \in Procs \ {p} :
             pc'[q] = pc[q] /\ staged'[q] = staged[q] /\ view'[q] = view[q]
    PROVE  Accounts'
  <1>1. ASSUME NEW q \in Procs
        PROVE  /\ IsFiniteSet(Counted(view'[q]))
               /\ pc'[q] = "open" /\ ~stale'[q] =>
                    Cardinality(Counted(view'[q])) + dropped' = captured' + reads' + staged'[q]
               /\ pc'[q] \in {"idle", "scoped"} => staged'[q] = 0
               /\ writer' = q => pc'[q] \in {"open", "stuck"} /\ ~stale'[q]
    <2>1. q # p => (pc[q] = "open" => stale'[q])
      BY DEF Overtaken
    <2>2. writer' # q
      BY ConstantsAssumption
    <2>3. CASE q = p
      BY <2>2, <2>3
    <2>4. CASE q # p
      BY <2>1, <2>2, <2>4 DEF Accounts
    <2>. QED  BY <2>3, <2>4
  <1>. QED  BY <1>1 DEF Accounts

LEMMA CommitCounts ==
    ASSUME IInv, Accounts, NEW p \in Procs, Commit(p)
    PROVE  Accounts'
  <1>1. /\ disk' = view[p] /\ captured' = captured + Len(batch[p])
        /\ writer' = NoProc /\ stale' = Overtaken(p) /\ dropped' = dropped
        /\ pc' = [pc EXCEPT ![p] = "idle"]
        /\ staged' = [staged EXCEPT ![p] = 0]
        /\ view' = [view EXCEPT ![p] = EmptyDatabase]
        /\ writer = p /\ staged[p] = Len(batch[p]) /\ pc[p] = "open" /\ reads' = reads
    BY DEF Commit, Close
  <1>2. Cardinality(Counted(view[p])) + dropped = captured + reads + staged[p]
        /\ IsFiniteSet(Counted(view[p]))
    BY <1>1 DEF Accounts
  <1>3. EveryCaptureCounted' /\ IsFiniteSet(Counted(disk'))
    <2>1. captured \in Nat /\ reads \in Nat /\ staged[p] \in Nat
      BY DEF IInv, TypeOK
    <2>2. captured' = captured + staged[p]
      BY <1>1
    <2>3. reads' = reads /\ dropped' = dropped /\ disk' = view[p]
      BY <1>1
    <2>4. captured + reads + staged[p] = captured' + reads'
      BY <2>1, <2>2, <2>3
    <2>. QED  BY <1>2, <2>3, <2>4 DEF EveryCaptureCounted
  <1>4. /\ pc'[p] = "idle" /\ staged'[p] = 0 /\ view'[p] = EmptyDatabase
        /\ \A q \in Procs \ {p} :
             pc'[q] = pc[q] /\ staged'[q] = staged[q] /\ view'[q] = view[q]
    BY <1>1 DEF IInv, TypeOK
  <1>5. IsFiniteSet(Counted(view'[p]))
    BY <1>4, EmptyCounts, FS_EmptySet
  <1>. QED  BY <1>1, <1>3, <1>4, <1>5, OvertakenAccounts

LEMMA AutocommitCounts ==
    ASSUME IInv, Accounts, NEW p \in Procs, NEW db, Autocommit(p, db),
           IsFiniteSet(Counted(db)),
           Cardinality(Counted(db)) + dropped' + reads
             = Cardinality(Counted(disk)) + dropped + reads',
           dropped' \in Nat, reads' \in Nat
    PROVE  Accounts'
  <1>1. /\ disk' = db /\ stale' = Overtaken(p) /\ pc[p] = "idle" /\ writer = NoProc
        /\ UNCHANGED <<writer, pc, staged, view, captured>>
    BY DEF Autocommit, procVars
  <1>2. EveryCaptureCounted' /\ IsFiniteSet(Counted(disk'))
    <2>. DEFINE after == Cardinality(Counted(db))
                before == Cardinality(Counted(disk))
    <2>1. before \in Nat /\ after \in Nat
      BY FS_CardinalityType DEF Accounts
    <2>2. before + dropped = captured + reads
      BY DEF Accounts, EveryCaptureCounted
    <2>3. dropped \in Nat /\ reads \in Nat /\ captured \in Nat
      BY DEF IInv, TypeOK
    <2>4. after + dropped' + reads = before + dropped + reads'
      OBVIOUS
    <2>5. dropped' \in Nat /\ reads' \in Nat
      OBVIOUS
    <2>6. after + dropped' = captured + reads'
      <3>. HIDE DEF after, before
      <3>. QED  BY <2>1, <2>2, <2>3, <2>4, <2>5
    <2>. QED  BY <1>1, <2>6 DEF EveryCaptureCounted
  <1>3. staged[p] = 0 /\ IsFiniteSet(Counted(view[p]))
    BY <1>1 DEF Accounts
  <1>. QED  BY <1>1, <1>2, <1>3, OvertakenAccounts

\* A statement that keeps the rows and their reinforcements.
LEMMA SameCounts ==
    ASSUME IInv, Accounts, NEW p \in Procs, NEW db, Autocommit(p, db),
           dropped' = dropped, reads' = reads,
           Live(db) = Live(disk),
           \A i \in Live(disk) :
             db.thoughts[i].reinforcements = disk.thoughts[i].reinforcements
    PROVE  Accounts'
  <1>1. Counted(db) = Counted(disk)
    BY DEF Counted
  <1>2. dropped' \in Nat /\ reads' \in Nat
    BY DEF IInv, TypeOK
  <1>. QED  BY <1>1, <1>2, AutocommitCounts DEF Accounts

\* A read of a thought is one more reinforcement of it.
LEMMA GetThoughtCounts ==
    ASSUME IInv, Accounts, NEW p \in Procs, GetThought(p)
    PROVE  Accounts'
  <1>1. PICK i \in Live(disk), db \in Database :
          /\ Autocommit(p, db) /\ dropped' = dropped /\ reads' = reads + 1
          /\ db.thoughts = [disk.thoughts EXCEPT ![i] = Reinforced(disk.thoughts[i])]
          /\ db.edges = disk.edges /\ db.registry = disk.registry
          /\ Live(db) = Live(disk)
    BY GetThoughtFields
  <1>2. disk \in Database
    BY DEF IInv, TypeOK
  <1>3. /\ db.thoughts[i].reinforcements = disk.thoughts[i].reinforcements + 1
        /\ \A j \in Live(disk) : j # i => db.thoughts[j] = disk.thoughts[j]
    BY <1>1, <1>2, DatabaseFields, ReinforcedFields
  <1>4. PICK x : x \notin Counted(disk) /\ Counted(db) = Counted(disk) \cup {x}
    BY <1>1, <1>2, <1>3, OneMoreCounted
  <1>5. IsFiniteSet(Counted(db)) /\ Cardinality(Counted(db)) = Cardinality(Counted(disk)) + 1
    BY <1>4, FS_AddElement DEF Accounts
  <1>6. Cardinality(Counted(disk)) \in Nat /\ dropped \in Nat /\ reads \in Nat
    BY FS_CardinalityType DEF Accounts, IInv, TypeOK
  <1>7. /\ Cardinality(Counted(db)) + dropped' + reads
             = Cardinality(Counted(disk)) + dropped + reads'
        /\ dropped' \in Nat /\ reads' \in Nat
    BY <1>1, <1>5, <1>6
  <1>. QED  BY <1>1, <1>5, <1>7, AutocommitCounts

LEMMA UpdateCounts ==
    ASSUME IInv, Accounts, NEW p \in Procs, Update(p)
    PROVE  Accounts'
  <1>1. PICK i \in Live(disk), e \in Edits :
          /\ Autocommit(p, [disk EXCEPT !.thoughts[i] = Edited(@, e)])
          /\ UNCHANGED <<dropped, reads>>
    BY DEF Update
  <1>. DEFINE t == disk.thoughts[i]
              db == [disk EXCEPT !.thoughts[i] = Edited(@, e)]
  <1>2. disk \in Database /\ t \in Thought /\ i \in Ids
    BY DatabaseFields DEF IInv, TypeOK
  <1>3. Edited(t, e) # NoThought /\ Edited(t, e).reinforcements = t.reinforcements
    <2>. DEFINE u == Edited(t, e)
                content == IF "content" \in e.touches THEN e.content ELSE t.content
                shared == IF "shared" \in e.touches THEN e.shared ELSE t.shared
                sens == IF "sens" \in e.touches THEN e.sens ELSE t.sens
                project == IF "project" \in e.touches THEN e.project ELSE t.project
                how == IF e.touches \cap {"content", "project"} # {}
                       THEN "edited" ELSE t.how
    <2>1. e.content \in Contents /\ e.shared \in BOOLEAN /\ e.sens \in Sensitivity
          /\ e.project \in Slugs
      BY ConstantsAssumption DEF Edit
    <2>2. /\ content \in Contents /\ shared \in BOOLEAN /\ sens \in Sensitivity
          /\ project \in Slugs \cup {NoProject}
          /\ how \in {"created", "gated", "crowded", "edited"}
      BY <1>2, <2>1, ThoughtFields
    <2>3. u = [t EXCEPT !.content = content, !.shared = shared, !.sens = sens,
                        !.project = project, !.how = how]
      BY Zenon DEF Edited
    <2>. HIDE DEF content, shared, sens, project, how, u, t
    <2>4. u = [content |-> content, trust |-> t.trust, shared |-> shared,
               sens |-> sens, project |-> project,
               reinforcements |-> t.reinforcements, how |-> how]
      BY <1>2, <2>3 DEF Thought
    <2>5. u \in Thought /\ u.reinforcements = t.reinforcements
      BY <1>2, <2>2, <2>4, ThoughtFields DEF Thought
    <2>. QED  BY <2>5, ThoughtFields DEF u
  <1>4. db.thoughts = [disk.thoughts EXCEPT ![i] = Edited(t, e)]
    BY <1>2 DEF Database
  <1>5. Autocommit(p, db)
    BY <1>1
  <1>. HIDE DEF db, t
  <1>6. disk.thoughts \in [Ids -> Thought \cup {NoThought}]
    BY <1>2, DatabaseFields
  <1>7. Live(db) = Live(disk)
    BY <1>3, <1>4, <1>6 DEF Live
  <1>8. \A j \in Live(disk) :
          db.thoughts[j].reinforcements = disk.thoughts[j].reinforcements
    BY <1>3, <1>4, <1>6 DEF Live, t
  <1>. QED  BY <1>1, <1>5, <1>7, <1>8, SameCounts

\* A deleted row takes its captures with it.
LEMMA DeleteCounts ==
    ASSUME IInv, Accounts, NEW p \in Procs, Delete(p)
    PROVE  Accounts'
  <1>1. PICK i \in Live(disk) :
          /\ Autocommit(p, [disk EXCEPT
                              !.thoughts[i] = NoThought,
                              !.edges = {e \in @ : i \notin {e.source, e.target}}])
          /\ dropped' = dropped + 1 + disk.thoughts[i].reinforcements
          /\ reads' = reads
    BY DEF Delete
  <1>. DEFINE db == [disk EXCEPT
                       !.thoughts[i] = NoThought,
                       !.edges = {e \in @ : i \notin {e.source, e.target}}]
              k == disk.thoughts[i].reinforcements
              gone == {i} \X (0 .. k)
  <1>2. disk \in Database /\ k \in Nat
    BY DatabaseFields, ThoughtFields DEF IInv, TypeOK
  <1>3. db.thoughts = [disk.thoughts EXCEPT ![i] = NoThought]
    BY <1>2 DEF Database
  <1>4. Autocommit(p, db)
    BY <1>1
  <1>. HIDE DEF db
  <1>5. Live(db) = Live(disk) \ {i} /\ \A j \in Live(db) : db.thoughts[j] = disk.thoughts[j]
    BY <1>2, <1>3, DatabaseFields DEF Live
  <1>6. gone \subseteq Counted(disk)
    BY DEF Counted
  <1>7. Counted(db) = Counted(disk) \ gone
    <2>1. \A j : \A n : <<j, n>> \in gone <=> j = i /\ n \in 0 .. k
      OBVIOUS
    <2>2. \A y : y \in Counted(db) <=> y \in Counted(disk) /\ y \notin gone
      <3>. HIDE DEF gone, k
      <3>1. ASSUME NEW y \in Counted(disk), y \notin gone PROVE y \in Counted(db)
        <4>1. PICK j \in Live(disk) :
                \E n \in 0 .. disk.thoughts[j].reinforcements : y = <<j, n>>
          BY CountedPairs
        <4>2. PICK n \in 0 .. disk.thoughts[j].reinforcements : y = <<j, n>>
          BY <4>1
        <4>3. j # i
          BY <2>1, <3>1, <4>2 DEF k
        <4>. QED  BY <1>5, <4>2, <4>3, CountedPairs
      <3>2. ASSUME NEW y \in Counted(db) PROVE y \in Counted(disk) /\ y \notin gone
        <4>1. PICK j \in Live(db) :
                \E n \in 0 .. db.thoughts[j].reinforcements : y = <<j, n>>
          BY CountedPairs
        <4>2. PICK n \in 0 .. db.thoughts[j].reinforcements : y = <<j, n>>
          BY <4>1
        <4>. QED  BY <1>5, <2>1, <4>2, CountedPairs
      <3>. QED  BY <3>1, <3>2
    <2>. QED  BY <2>2
  <1>8. IsFiniteSet(gone) /\ Cardinality(gone) = k + 1
    <2>1. IsFiniteSet({i}) /\ Cardinality({i}) = 1
      BY FS_Singleton
    <2>. HIDE DEF k
    <2>2. IsFiniteSet(0 .. k) /\ Cardinality(0 .. k) = k + 1
      BY <1>2, FS_Interval
    <2>3. IsFiniteSet(gone) /\ Cardinality(gone) = Cardinality({i}) * Cardinality(0 .. k)
      BY <2>1, <2>2, FS_Product
    <2>. QED  BY <1>2, <2>1, <2>2, <2>3
  <1>. HIDE DEF gone
  <1>9. IsFiniteSet(Counted(disk)) /\ Cardinality(Counted(disk)) \in Nat
    BY FS_CardinalityType DEF Accounts
  <1>10. Counted(disk) \cap gone = gone
    BY <1>6
  <1>11. dropped' = dropped + 1 + k /\ dropped \in Nat
    BY <1>1 DEF IInv, TypeOK
  <1>. HIDE DEF k
  <1>12. IsFiniteSet(Counted(db)) /\ Cardinality(Counted(db)) = Cardinality(Counted(disk)) - (k + 1)
    <2>1. /\ IsFiniteSet(Counted(disk) \ gone)
          /\ Cardinality(Counted(disk) \ gone)
               = Cardinality(Counted(disk)) - Cardinality(Counted(disk) \cap gone)
      BY <1>9, FS_Difference
    <2>. QED  BY <1>7, <1>8, <1>10, <2>1
  <1>. DEFINE after == Cardinality(Counted(db))
              before == Cardinality(Counted(disk))
  <1>13. after \in Nat /\ before \in Nat /\ after = before - (k + 1) /\ k \in Nat
    BY <1>2, <1>9, <1>12, FS_CardinalityType
  <1>14. reads' = reads /\ reads \in Nat
    BY <1>1 DEF IInv, TypeOK
  <1>15. after + dropped' + reads = before + dropped + reads' /\ dropped' \in Nat
    <2>. HIDE DEF after, before
    <2>. QED  BY <1>11, <1>13, <1>14
  <1>. QED  BY <1>4, <1>12, <1>14, <1>15, AutocommitCounts

LEMMA StepAccounts == IInv /\ Accounts /\ [Next]_vars => Accounts'
  <1>. SUFFICES ASSUME IInv, Accounts, [Next]_vars PROVE Accounts'
    OBVIOUS
  <1>1. CASE UNCHANGED vars
    BY <1>1 DEF vars, procVars, Accounts, EveryCaptureCounted
  <1>2. ASSUME NEW p \in Procs,
               \/ Request(p) \/ TakeSnapshot(p) \/ StageItem(p)
               \/ Commit(p) \/ CommitFails(p) \/ Abort(p)
               \/ GetThought(p) \/ Update(p) \/ Delete(p) \/ Link(p) \/ Unlink(p) \/ Expire(p)
        PROVE  Accounts'
    <2>. /\ pc \in [Procs -> {"idle", "scoped", "open", "stuck"}] /\ staged \in [Procs -> Nat]
         /\ view \in [Procs -> Database] /\ stale \in [Procs -> BOOLEAN]
         /\ captured \in Nat /\ dropped \in Nat /\ reads \in Nat /\ disk \in Database
      BY DEF IInv, TypeOK
    <2>1. CASE Request(p)
      <3>1. /\ pc[p] = "idle" /\ pc' = [pc EXCEPT ![p] = "scoped"]
            /\ UNCHANGED <<disk, writer, staged, view, stale, captured, dropped, reads>>
        BY <2>1 DEF Request
      <3>. QED  BY <3>1 DEF Accounts, EveryCaptureCounted
    <2>2. CASE TakeSnapshot(p)
      <3>1. /\ pc[p] = "scoped" /\ pc' = [pc EXCEPT ![p] = "open"]
            /\ view' = [view EXCEPT ![p] = disk] /\ stale' = [stale EXCEPT ![p] = FALSE]
            /\ UNCHANGED <<disk, writer, staged, captured, dropped, reads>>
        BY <2>2 DEF TakeSnapshot
      <3>2. staged[p] = 0 /\ writer # p
        BY <3>1 DEF Accounts
      <3>. QED  BY <3>1, <3>2 DEF Accounts, EveryCaptureCounted
    <2>3. CASE StageItem(p)     BY <2>3, StageItemCounts
    <2>4. CASE Commit(p)        BY <2>4, CommitCounts
    <2>5. CASE Abort(p)
      <3>1. /\ writer' = (IF writer = p THEN NoProc ELSE writer)
            /\ stale' = [stale EXCEPT ![p] = FALSE] /\ pc' = [pc EXCEPT ![p] = "idle"]
            /\ staged' = [staged EXCEPT ![p] = 0]
            /\ view' = [view EXCEPT ![p] = EmptyDatabase]
            /\ UNCHANGED <<disk, captured, dropped, reads>>
        BY <2>5 DEF Abort, Close
      <3>2. IsFiniteSet(Counted(EmptyDatabase))
        BY EmptyCounts, FS_EmptySet
      <3>3. writer' # p
        BY <3>1, ConstantsAssumption
      <3>4. ASSUME NEW q \in Procs
            PROVE  /\ IsFiniteSet(Counted(view'[q]))
                   /\ pc'[q] = "open" /\ ~stale'[q] =>
                        Cardinality(Counted(view'[q])) + dropped' = captured' + reads' + staged'[q]
                   /\ pc'[q] \in {"idle", "scoped"} => staged'[q] = 0
                   /\ writer' = q => pc'[q] \in {"open", "stuck"} /\ ~stale'[q]
        <4>1. CASE q = p
          BY <3>1, <3>2, <3>3, <4>1
        <4>2. CASE q # p
          <5>1. writer' = q => writer = q
            BY <3>1, ConstantsAssumption
          <5>. QED  BY <3>1, <4>2, <5>1 DEF Accounts
        <4>. QED  BY <4>1, <4>2
      <3>. QED  BY <3>1, <3>4 DEF Accounts, EveryCaptureCounted
    <2>6. CASE Update(p)        BY <2>6, UpdateCounts
    <2>7. CASE Delete(p)        BY <2>7, DeleteCounts
    <2>8. CASE Link(p) \/ Unlink(p) \/ Expire(p)
      <3>1. PICK E : Autocommit(p, [disk EXCEPT !.edges = E]) /\ UNCHANGED <<dropped, reads>>
        BY <2>8 DEF Link, Unlink, Expire
      <3>. DEFINE db == [disk EXCEPT !.edges = E]
      <3>2. db.thoughts = disk.thoughts
        BY DEF Database
      <3>3. Autocommit(p, db)
        BY <3>1
      <3>. HIDE DEF db
      <3>4. Live(db) = Live(disk)
        BY <3>2 DEF Live
      <3>. QED  BY <3>1, <3>2, <3>3, <3>4, SameCounts
    <2>9. CASE GetThought(p)    BY <2>9, GetThoughtCounts
    <2>10. CASE CommitFails(p)
      <3>1. /\ pc[p] = "open" /\ pc' = [pc EXCEPT ![p] = "stuck"]
            /\ UNCHANGED <<disk, writer, staged, view, stale, captured, dropped, reads>>
        BY <2>10 DEF CommitFails
      <3>. QED  BY <3>1 DEF Accounts, EveryCaptureCounted
    <2>. QED  BY <1>2, <2>1, <2>2, <2>3, <2>4, <2>5, <2>6, <2>7, <2>8, <2>9, <2>10
  <1>. QED  BY <1>1, <1>2 DEF Next

\* Every item of every committed capture is a row or a reinforcement of one,
\* every read by get_thought one more reinforcement, or it went with a deleted
\* row: none is lost or counted twice, whatever other processes commit, abort
\* or write between (capture_single, get_thought_tool, in_transaction).
THEOREM EveryCaptureCountedHolds == Spec => []EveryCaptureCounted
  <1>1. Spec => []Accounts
    BY InitAccounts, StepAccounts, InductiveInvariant, PTL DEF Spec
  <1>2. Accounts => EveryCaptureCounted
    BY DEF Accounts
  <1>. QED  BY <1>1, <1>2, PTL

-----------------------------------------------------------------------------
(* Commits are serial.                                                     *)

\* What an item can make of any of a set of databases.
Results(S, item) == UNION {CaptureItem(d, item) : d \in S}

\* AfterEach exists: the databases after the first n items can be continued
\* by one more, and a least n for which there are none is impossible.
LEMMA AfterEachSteps ==
    ASSUME NEW db, NEW items, Len(items) \in Nat
    PROVE  /\ AfterEach(db, items)[0] = {db}
           /\ \A n \in 1 .. Len(items) :
                AfterEach(db, items)[n] = Results(AfterEach(db, items)[n - 1], items[n])
  <1>. DEFINE Follows(f, n) == f = [m \in 0 .. n |->
                                     IF m = 0 THEN {db} ELSE Results(f[m - 1], items[m])]
              bad == {n \in Nat : ~\E f : Follows(f, n)}
  <1>1. bad = {}
    <2>1. SUFFICES ASSUME bad # {} PROVE FALSE
      OBVIOUS
    <2>2. PICK k \in bad : \A n \in bad : k <= n
      <3>. HIDE DEF bad
      <3>1. bad \in SUBSET Nat
        BY DEF bad
      <3>. QED  BY <2>1, <3>1, LeastNumber
    <2>3. k \in Nat /\ ~\E f : Follows(f, k)
      OBVIOUS
    <2>4. CASE k = 0
      <3>. DEFINE f == [m \in 0 .. 0 |-> {db}]
      <3>1. Follows(f, 0)
        OBVIOUS
      <3>. QED  BY <2>3, <2>4, <3>1
    <2>5. CASE k # 0
      <3>1. k - 1 \in Nat /\ k - 1 \notin bad
        <4>1. k - 1 \in Nat /\ ~(k <= k - 1)
          BY <2>3, <2>5
        <4>. HIDE DEF bad
        <4>. QED  BY <2>2, <4>1
      <3>2. PICK f : Follows(f, k - 1)
        BY <3>1
      <3>. DEFINE g == [m \in 0 .. k |->
                          IF m = k THEN Results(f[k - 1], items[k]) ELSE f[m]]
      <3>3. \A m \in 0 .. (k - 1) :
              f[m] = IF m = 0 THEN {db} ELSE Results(f[m - 1], items[m])
        BY <3>2
      <3>4. \A m \in 0 .. k : g[m] = IF m = 0 THEN {db} ELSE Results(g[m - 1], items[m])
        <4>1. SUFFICES ASSUME NEW m \in 0 .. k
                       PROVE  g[m] = IF m = 0 THEN {db} ELSE Results(g[m - 1], items[m])
          OBVIOUS
        <4>2. CASE m = k
          <5>1. g[m - 1] = f[k - 1] /\ g[m] = Results(f[k - 1], items[k])
            BY <2>3, <2>5, <4>2
          <5>. QED  BY <2>5, <4>2, <5>1
        <4>3. CASE m # k
          <5>1. m \in 0 .. (k - 1) /\ g[m] = f[m]
            BY <2>3, <4>3
          <5>2. m # 0 => g[m - 1] = f[m - 1]
            BY <2>3, <5>1
          <5>. QED  BY <3>3, <5>1, <5>2
        <4>. QED  BY <4>2, <4>3
      <3>5. Follows(g, k)
        <4>1. g = [m \in 0 .. k |-> g[m]]
          OBVIOUS
        <4>. HIDE DEF g
        <4>. QED  BY <3>4, <4>1
      <3>. QED  BY <2>3, <3>5
    <2>. QED  BY <2>4, <2>5
  <1>2. PICK f : Follows(f, Len(items))
    BY <1>1
  <1>3. AfterEach(db, items) = CHOOSE h : Follows(h, Len(items))
    BY DEF AfterEach, Results
  <1>4. PICK h : h = AfterEach(db, items)
    OBVIOUS
  <1>5. Follows(h, Len(items))
    BY <1>2, <1>3, <1>4
  <1>6. \A m \in 0 .. Len(items) : h[m] = IF m = 0 THEN {db} ELSE Results(h[m - 1], items[m])
    BY <1>5
  <1>. QED  BY <1>4, <1>6

\* What an item adds is what it would add after its predecessors on the disk.
LEMMA StageItemReplays ==
    ASSUME IInv, Replays, NEW p \in Procs, StageItem(p)
    PROVE  Replays'
  <1>. DEFINE item == batch[p][staged[p] + 1]
              after == AfterEach(disk, batch[p])
  <1>1. /\ item \in Item /\ staged[p] + 1 \in 1 .. Len(batch[p]) /\ view[p] \in Database
        /\ view' = [view EXCEPT ![p] = view'[p]]
        /\ view'[p] \in CaptureItem(view[p], item)
    BY NextItem
  <1>2. /\ pc[p] = "open" /\ ~stale[p] /\ staged' = [staged EXCEPT ![p] = @ + 1]
        /\ UNCHANGED <<disk, pc, batch, stale>>
    BY DEF StageItem, MayWrite
  <1>3. staged \in [Procs -> Nat] /\ view \in [Procs -> Database] /\ Len(batch[p]) \in Nat
    BY DEF IInv, TypeOK
  <1>4. \A q \in Procs : q # p => view'[q] = view[q] /\ staged'[q] = staged[q]
    BY <1>1, <1>2, <1>3
  <1>5. view[p] \in after[staged[p]]
    BY <1>2 DEF Replays
  <1>6. view'[p] \in Results(after[staged[p]], item)
    <2>. HIDE DEF item, after
    <2>. QED  BY <1>1, <1>5 DEF Results
  <1>7. staged'[p] = staged[p] + 1 /\ staged'[p] \in 1 .. Len(batch[p])
        /\ staged'[p] - 1 = staged[p]
    BY <1>1, <1>2, <1>3
  <1>8. after[staged'[p]] = Results(after[staged'[p] - 1], batch[p][staged'[p]])
    BY <1>3, <1>7, AfterEachSteps
  <1>9. view'[p] \in after[staged'[p]]
    BY <1>6, <1>7, <1>8
  <1>10. ASSUME NEW q \in Procs, pc'[q] = "open", ~stale'[q]
         PROVE  /\ staged'[q] <= Len(batch'[q])
                /\ view'[q] \in AfterEach(disk', batch'[q])[staged'[q]]
    <2>1. CASE q = p
      BY <1>2, <1>3, <1>7, <1>9, <2>1
    <2>2. CASE q # p
      BY <1>2, <1>4, <1>10, <2>2 DEF Replays
    <2>. QED  BY <2>1, <2>2
  <1>. QED  BY <1>10 DEF Replays

\* After a step that changes the disk no snapshot is current.
LEMMA OvertakenReplays ==
    ASSUME NEW p \in Procs, stale' = Overtaken(p), pc'[p] # "open",
           \A q \in Procs \ {p} : pc'[q] = pc[q]
    PROVE  Replays'
  <1>1. ASSUME NEW q \in Procs PROVE ~(pc'[q] = "open" /\ ~stale'[q])
    <2>1. CASE q = p
      BY <2>1
    <2>2. CASE q # p
      BY <2>2 DEF Overtaken
    <2>. QED  BY <2>1, <2>2
  <1>. QED  BY <1>1 DEF Replays

LEMMA StepReplays == IInv /\ Accounts /\ Replays /\ [Next]_vars => Replays'
  <1>. SUFFICES ASSUME IInv, Accounts, Replays, [Next]_vars PROVE Replays'
    OBVIOUS
  <1>1. CASE UNCHANGED vars
    BY <1>1 DEF vars, procVars, Replays
  <1>2. ASSUME NEW p \in Procs,
               \/ Request(p) \/ TakeSnapshot(p) \/ StageItem(p)
               \/ Commit(p) \/ CommitFails(p) \/ Abort(p)
               \/ GetThought(p) \/ Update(p) \/ Delete(p) \/ Link(p) \/ Unlink(p) \/ Expire(p)
        PROVE  Replays'
    <2>. /\ pc \in [Procs -> {"idle", "scoped", "open", "stuck"}] /\ staged \in [Procs -> Nat]
         /\ view \in [Procs -> Database] /\ stale \in [Procs -> BOOLEAN]
         /\ batch \in [Procs -> Seq(Item)]
      BY DEF IInv, TypeOK
    <2>1. CASE Request(p)
      <3>1. /\ pc' = [pc EXCEPT ![p] = "scoped"]
            /\ \A q \in Procs \ {p} : batch'[q] = batch[q]
            /\ UNCHANGED <<disk, staged, view, stale>>
        BY <2>1 DEF Request
      <3>2. pc'[p] # "open" /\ \A q \in Procs \ {p} : pc'[q] = pc[q]
        BY <3>1
      <3>. QED  BY <3>1, <3>2 DEF Replays
    <2>2. CASE TakeSnapshot(p)
      <3>1. /\ pc[p] = "scoped" /\ pc' = [pc EXCEPT ![p] = "open"]
            /\ view' = [view EXCEPT ![p] = disk]
            /\ stale' = [stale EXCEPT ![p] = FALSE]
            /\ UNCHANGED <<disk, staged, batch>>
        BY <2>2 DEF TakeSnapshot
      <3>2. staged[p] = 0 /\ Len(batch[p]) \in Nat
        BY <3>1 DEF Accounts
      <3>3. view'[p] \in AfterEach(disk, batch[p])[0]
        BY <3>1, <3>2, AfterEachSteps
      <3>4. ASSUME NEW q \in Procs, pc'[q] = "open", ~stale'[q]
            PROVE  /\ staged'[q] <= Len(batch'[q])
                   /\ view'[q] \in AfterEach(disk', batch'[q])[staged'[q]]
        <4>1. CASE q = p
          BY <3>1, <3>2, <3>3, <4>1
        <4>2. CASE q # p
          BY <3>1, <3>4, <4>2 DEF Replays
        <4>. QED  BY <4>1, <4>2
      <3>. QED  BY <3>4 DEF Replays
    <2>3. CASE StageItem(p)
      BY <2>3, StageItemReplays
    <2>4. CASE Commit(p)
      <3>1. pc' = [pc EXCEPT ![p] = "idle"] /\ stale' = Overtaken(p)
        BY <2>4 DEF Commit, Close
      <3>. QED  BY <3>1, OvertakenReplays
    <2>5. CASE Abort(p)
      <3>1. /\ stale' = [stale EXCEPT ![p] = FALSE] /\ pc' = [pc EXCEPT ![p] = "idle"]
            /\ staged' = [staged EXCEPT ![p] = 0] /\ batch' = [batch EXCEPT ![p] = <<>>]
            /\ view' = [view EXCEPT ![p] = EmptyDatabase] /\ UNCHANGED disk
        BY <2>5 DEF Abort, Close
      <3>2. ASSUME NEW q \in Procs, pc'[q] = "open", ~stale'[q]
            PROVE  /\ staged'[q] <= Len(batch'[q])
                   /\ view'[q] \in AfterEach(disk', batch'[q])[staged'[q]]
        <4>1. q # p
          BY <3>1, <3>2
        <4>. QED  BY <3>1, <3>2, <4>1 DEF Replays
      <3>. QED  BY <3>2 DEF Replays
    <2>6. CASE GetThought(p) \/ Update(p) \/ Delete(p) \/ Link(p) \/ Unlink(p) \/ Expire(p)
      <3>1. PICK db : Autocommit(p, db)
        BY <2>6 DEF GetThought, Update, Delete, Link, Unlink, Expire
      <3>2. pc[p] = "idle" /\ pc' = pc /\ stale' = Overtaken(p)
        BY <3>1 DEF Autocommit, procVars
      <3>. QED  BY <3>2, OvertakenReplays
    <2>7. CASE CommitFails(p)
      <3>1. /\ pc' = [pc EXCEPT ![p] = "stuck"]
            /\ UNCHANGED <<disk, staged, batch, view, stale>>
        BY <2>7 DEF CommitFails
      <3>2. \A q \in Procs : pc'[q] = "open" => pc[q] = "open"
        BY <3>1
      <3>. QED  BY <3>1, <3>2 DEF Replays
    <2>. QED  BY <1>2, <2>1, <2>2, <2>3, <2>4, <2>5, <2>6, <2>7
  <1>. QED  BY <1>1, <1>2 DEF Next

\* A commit leaves on the disk what its items, run one after another, can
\* make of the disk they replace: for bulks of any length and any number of
\* processes no update is lost and no capture decided on what is out of date
\* (in_transaction, capture_single).
THEOREM CommitsAreSerialHolds == Spec => CommitsAreSerial
  <1>1. Init => Replays
    BY DEF Init, Replays
  <1>2. Init => Accounts
    BY InitAccounts
  <1>3. Spec => [](IInv /\ Accounts /\ Replays)
    BY <1>1, <1>2, InductiveInvariant, StepAccounts, StepReplays, PTL DEF Spec
  <1>4. ASSUME Accounts, Replays, NEW p \in Procs, Commit(p)
        PROVE  disk' \in RunAll(disk, batch[p])
    <2>1. /\ writer = p /\ pc[p] = "open"
          /\ staged[p] = Len(batch[p]) /\ disk' = view[p]
      BY <1>4 DEF Commit
    <2>2. pc[p] = "open" /\ ~stale[p]
      BY <1>4, <2>1 DEF Accounts
    <2>. QED  BY <1>4, <2>1, <2>2 DEF Replays, RunAll
  <1>5. IInv /\ Accounts /\ Replays /\ [Next]_vars
          => [\A p \in Procs : Commit(p) => disk' \in RunAll(disk, batch[p])]_vars
    BY <1>4
  <1>. QED  BY <1>3, <1>5, PTL DEF Spec, CommitsAreSerial
=============================================================================
