------------------------------- MODULE Repair -------------------------------
(***************************************************************************)
(* Which project an unassigned thought belongs to (repair.rs), and the     *)
(* seed file that says so (seed.rs): pure functions of a thought's legacy  *)
(* columns, a snapshot of the registry and the seed.                       *)
(*                                                                         *)
(* Unlike the lookups of Registry, infer_by_path compares member paths as  *)
(* they are written: a member path that is a symbolic link does not match. *)
(***************************************************************************)
EXTENDS Registry

CONSTANTS
    Topics, Sources,
    SourceAliases,  \* numbers: the longer, then the smaller in text, the lower
    Mentions,       \* Mentions[source]: the source aliases that it contains
    SlugRank        \* the order of the slugs as texts

\* The legacy columns that repair reads; an absent one is None.
Legacy == [path : Paths \cup {None}, topics : SUBSET Topics, source : Sources \cup {None}]

ASSUME RepairAssumption ==
    /\ SourceAliases \subseteq Nat
    /\ \A s \in Sources : Mentions[s] \subseteq SourceAliases
    /\ \A s \in Slugs : SlugRank[s] \in Nat

\* A seed: projects in the order of the file, each a record of its registry
\* columns and its source aliases; and the slug of every clustered topic.
EmptySeed == [projects |-> <<>>, clusters |-> <<>>]

\* parse_seed: one malformed entry voids the whole file.
Parsed(file) == IF file.malformed THEN EmptySeed ELSE file.seed

\* source_alias_map: a later project takes an alias over.
SourceSlug(seed, alias) ==
    LET n == CHOOSE n \in DOMAIN seed.projects :
               /\ alias \in seed.projects[n].sources
               /\ \A m \in DOMAIN seed.projects :
                    alias \in seed.projects[m].sources => m <= n
    IN  seed.projects[n].columns.slug

\* rows is the project list as repair read it, by id. Of two projects with
\* the same longest member path the smaller slug wins.
InferByPath(path, rows) ==
    LET matches == IF path = None THEN {} ELSE
                     UNION {{<<Len(m), rows[p].slug>> : m \in
                               {n \in rows[p].paths : IsPrefix(n, path)}} : p \in DOMAIN rows}
        best == {m \in matches : \A n \in matches :
                    \/ n[1] < m[1]
                    \/ n[1] = m[1] /\ SlugRank[m[2]] <= SlugRank[n[2]]}
    IN  IF matches = {} THEN None ELSE (CHOOSE m \in best : TRUE)[2]

\* Topics that lead to several projects lead to none.
InferByTopics(topics, seed) ==
    LET hits == {seed.clusters[t] : t \in topics \cap DOMAIN seed.clusters}
    IN  IF Cardinality(hits) = 1 THEN CHOOSE s \in hits : TRUE ELSE None

InferBySource(source, seed) ==
    LET known == UNION {seed.projects[n].sources : n \in DOMAIN seed.projects}
        matching == IF source = None THEN {} ELSE Mentions[source] \cap known
    IN  IF matching = {} THEN None ELSE SourceSlug(seed, Lowest(matching))

\* classify: the suggested slug; without one the thought is flagged.
Suggestion(legacy, rows, seed) ==
    LET byPath == InferByPath(legacy.path, rows)
        byTopics == InferByTopics(legacy.topics, seed)
    IN  Or(byPath, Or(byTopics, InferBySource(legacy.source, seed)))
=============================================================================
