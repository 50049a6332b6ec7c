---------------------------- MODULE SwiftPackage ----------------------------
(***************************************************************************)
(* prepare() of swift_import.rs: which packages are accepted, the rows and *)
(* fingerprints an accepted package becomes, and the constraints of the    *)
(* schema that these rows must satisfy. Abstractions as in SwiftChats; the *)
(* checks of single fields (format, policies, dates, sizes) are the flag   *)
(* "fine" of the package.                                                  *)
(*                                                                         *)
(*   package  [version, fine, scopes, projects, aliases, memories, edges,  *)
(*             categories, tasks, taskCategory, archive, chatCategory]     *)
(*   project  [source, legacy, slug]     alias [slug, project, status,     *)
(*   memory   [source, project, alias,          retired]                   *)
(*             visibility, trust, into, omitted]                           *)
(*   edge     [source, from, to, type, project, alias]                     *)
(*   task     [source, project, alias, omitted, fine]                      *)
(***************************************************************************)
EXTENDS SwiftChats

CONSTANTS
    Uuids,          \* names of canonical UUIDs
    DerivedId,      \* DerivedId[s]: the UUIDv5 of the legacy slug s
    MaxTasks        \* bound on a catalog of tasks: 2000

IsUuid(w) == w.id \in Uuids
Unscoped == {"unscoped:personal", "unscoped:shared"}
NoTasks == [count |-> 0, supported |-> -1, unselected |-> -1, excluded |-> -1]
NoChats == [count |-> 0, catalog |-> -1, unselected |-> -1, items |-> -1]

ProjectIds(p) == {p.projects[i].source.id : i \in DOMAIN p.projects}

(***************************************************************************)
(* Acceptance                                                              *)
(***************************************************************************)

ScopesOk(p) ==
    /\ p.scopes # <<>>
    /\ Distinct(p.scopes, LAMBDA s : s.id)
    /\ Every(p.scopes, LAMBDA s : IsUuid(s) \/ s.id \in Unscoped)

\* The legacy slug is the project's own id, or the slug its id derives from.
Frozen(project) ==
    IF IsUuid(project.legacy)
    THEN project.legacy.id = project.source.id
    ELSE project.legacy.id \in DOMAIN DerivedId
         /\ DerivedId[project.legacy.id] = project.source.id

ProjectsOk(p) ==
    /\ Every(p.projects, Frozen)
    /\ Distinct(p.projects, LAMBDA q : q.source.id)
    /\ Distinct(p.projects, LAMBDA q : q.legacy.id)
    /\ Distinct(p.projects, LAMBDA q : q.slug)
    /\ {s \in {p.scopes[i].id : i \in DOMAIN p.scopes} : s \notin Unscoped} = ProjectIds(p)

\* The project that owns an alias, in this package.
Owner(p, slug) ==
    LET owned == {i \in DOMAIN p.aliases : p.aliases[i].slug = slug}
    IN  IF owned = {} THEN Absent ELSE p.aliases[CHOOSE i \in owned : TRUE].project.id

AliasesOk(p) ==
    /\ Distinct(p.aliases, LAMBDA a : a.slug)
    /\ Every(p.aliases, LAMBDA a :
           /\ a.project.id \in ProjectIds(p)
           /\ a.retired <=> a.status = "retired"
           /\ a.status = "current" =>
                  \E i \in DOMAIN p.projects : /\ p.projects[i].source.id = a.project.id
                                               /\ p.projects[i].slug = a.slug)
    /\ Every(p.projects, LAMBDA q :
           /\ \E i \in DOMAIN p.aliases : /\ p.aliases[i].slug = q.slug
                                          /\ p.aliases[i].project.id = q.source.id
                                          /\ p.aliases[i].status # "retired"
           /\ IsUuid(q.legacy) \/ Owner(p, q.legacy.id) = q.source.id)

\* A record names a project, perhaps by one of its aliases too, or neither.
ScopeOk(p, r) ==
    IF r.project = NoId
    THEN r.alias = Absent
    ELSE r.project.id \in ProjectIds(p)
         /\ (r.alias = Absent \/ Owner(p, r.alias) = r.project.id)

Scope(m) == IF m.project = NoId THEN "unscoped:" \o m.visibility ELSE m.project.id

\* Mutant: identities are compared as they are spelled.
MemoriesBySpelling(p) ==
    /\ Distinct(p.memories, LAMBDA m : m.source)
    /\ Every(p.memories, LAMBDA m :
           /\ ScopeOk(p, m)
           /\ \E i \in DOMAIN p.scopes : p.scopes[i].id = Scope(m))

MemoriesOk(p) ==
    /\ Distinct(p.memories, LAMBDA m : m.source.id)
    /\ Every(p.memories, LAMBDA m :
           /\ ScopeOk(p, m)
           /\ \E i \in DOMAIN p.scopes : p.scopes[i].id = Scope(m))

\* Consolidation stays inside the package and never comes back.
ConsolidationsOk(p) ==
    LET merged == {i \in DOMAIN p.memories : p.memories[i].into # NoId}
        named(i) == {j \in DOMAIN p.memories :
                        p.memories[j].source.id = p.memories[i].into.id}
    IN  /\ \A i \in merged : named(i) # {}
        /\ \A S \in SUBSET merged :
               (\A i \in S : named(i) \cap S # {}) => S = {}

EdgesOk(p) ==
    LET scopes(id) == {Scope(p.memories[i]) :
                          i \in {j \in DOMAIN p.memories : p.memories[j].source.id = id}}
    IN  /\ Distinct(p.edges, LAMBDA e : e.source)
        /\ Distinct(p.edges, LAMBDA e : <<e.from.id, e.to.id, e.type>>)
        /\ Every(p.edges, LAMBDA e :
               /\ ScopeOk(p, e)
               /\ scopes(e.from.id) # {} /\ scopes(e.to.id) # {}
               /\ e.project # NoId => /\ scopes(e.from.id) = {e.project.id}
                                      /\ scopes(e.to.id) = {e.project.id})

Omitted(p) == Total([i \in DOMAIN p.memories |-> p.memories[i].omitted])

CategoriesOk(p) ==
    /\ p.categories.projects = [count |-> Len(p.projects), status |-> "complete"]
    /\ p.categories.memories =
         [count |-> Len(p.memories),
          status |-> IF Omitted(p) > 0 THEN "completeWithAcknowledgedOmissions" ELSE "complete"]
    /\ p.categories.edges = [count |-> Len(p.edges), status |-> "complete"]

\* A task's alias belongs to its project, or is the project's own id frozen
\* as its legacy slug.
TaskOk(p, t) ==
    /\ t.fine /\ t.project.id \in ProjectIds(p)
    /\ \/ ~t.alias.upper /\ Owner(p, t.alias.id) = t.project.id
       \/ t.alias.id = t.project.id
          /\ \E i \in DOMAIN p.projects : /\ p.projects[i].source.id = t.project.id
                                          /\ p.projects[i].legacy.id = t.project.id

TasksOk(p) ==
    LET category == p.taskCategory
    IN  IF p.version = 1
        THEN p.tasks = <<>> /\ category = NoTasks
        ELSE /\ category.supported >= 0 /\ category.unselected >= 0 /\ category.excluded >= 0
             /\ category.count = Len(p.tasks)
             /\ category.supported = category.count + category.unselected
             /\ category.supported + category.excluded <= MaxTasks
             /\ Distinct(p.tasks, LAMBDA t : t.source.id)
             /\ Every(p.tasks, LAMBDA t : TaskOk(p, t))

ChatsOk(p) ==
    IF p.version # 3
    THEN p.archive = <<>> /\ p.chatCategory = NoChats
    ELSE Len(p.archive) = 1 /\ ArchiveOk(p.archive[1], p.chatCategory, ProjectIds(p))

Accepted(p) ==
    /\ p.fine /\ p.version \in 1..3
    /\ ScopesOk(p) /\ ProjectsOk(p) /\ AliasesOk(p)
    /\ MemoriesOk(p) /\ ConsolidationsOk(p) /\ EdgesOk(p)
    /\ CategoriesOk(p) /\ TasksOk(p) /\ ChatsOk(p)

(***************************************************************************)
(* Entities: what an accepted package writes                               *)
(***************************************************************************)

Low(w) == [w EXCEPT !.upper = FALSE]

\* source_hash: the spelling of UUIDs that are identities or references is
\* forgotten, everything else of the source is kept. Of an edge, "source" is
\* no UUID.
Normal(kind, r) ==
    CASE kind = "project" -> [r EXCEPT !.source = Low(@), !.legacy = Low(@)]
      [] kind = "alias"   -> [r EXCEPT !.project = Low(@)]
      [] kind = "memory"  -> [r EXCEPT !.source = Low(@), !.project = Low(@), !.into = Low(@)]
      [] kind = "edge"    -> [r EXCEPT !.from = Low(@), !.to = Low(@), !.project = Low(@)]

SourceHash(kind, r) == <<kind, Normal(kind, r)>>

\* A row of a table: its key, the values its unique indices see, the rows it
\* references, and its other columns.
ProjectRow(q) ==
    [table |-> "projects", key |-> q.source.id,
     unique |-> {<<"slug", q.legacy.id>>, <<"project_id", q.source.id>>,
                 <<"current_slug", q.slug>>},
     refs |-> {}, data |-> <<"local_only">>]

AliasRow(a) ==
    [table |-> "project_slug_aliases", key |-> a.slug,
     unique |-> {<<"slug", a.slug>>}, refs |-> {},
     data |-> <<a.project.id, IF a.status = "retired" THEN "retired" ELSE "tentative">>]

MemoryRow(p, m) ==
    [table |-> "thoughts", key |-> m.source.id,
     unique |-> {<<"id", m.source.id>>}, refs |-> {},
     data |-> <<m.project.id, {q.slug : q \in {q \in ToSet(p.projects) : q.source.id = m.project.id}},
                m.visibility, m.into.id,
                IF m.trust = "external" THEN "external" ELSE "unverified">>]

EdgeRow(e) ==
    [table |-> "edges", key |-> e.source,
     unique |-> {<<"id", e.source>>, <<e.from.id, e.to.id, e.type>>},
     refs |-> {e.from.id, e.to.id}, data |-> <<>>]

Entity(kind, id, r, row) ==
    [kind |-> kind, id |-> id, source |-> r, fp |-> SourceHash(kind, r), row |-> row]

\* In the order of insertion: projects, aliases, memories, edges.
EntitiesOf(p) ==
    [i \in DOMAIN p.projects |->
        Entity("project", p.projects[i].source.id, p.projects[i], ProjectRow(p.projects[i]))]
    \o [i \in DOMAIN p.aliases |->
        Entity("alias", p.aliases[i].slug, p.aliases[i], AliasRow(p.aliases[i]))]
    \o [i \in DOMAIN p.memories |->
        Entity("memory", p.memories[i].source.id, p.memories[i], MemoryRow(p, p.memories[i]))]
    \o [i \in DOMAIN p.edges |->
        Entity("edge", p.edges[i].source, p.edges[i], EdgeRow(p.edges[i]))]

TaskHash(t) == [t EXCEPT !.source = Low(@), !.project = Low(@)]

\* The hash over sorted fingerprints: of the entities, the tasks with their
\* selection, and the archive.
BatchFingerprint(p) ==
    LET entities == EntitiesOf(p)
    IN  <<p.version,
          {<<entities[i].kind, entities[i].id, entities[i].fp>> : i \in DOMAIN entities},
          IF p.version = 1 THEN {} ELSE {<<p.tasks[i].source.id, TaskHash(p.tasks[i])>> :
                                            i \in DOMAIN p.tasks},
          p.taskCategory, Total([i \in DOMAIN p.tasks |-> p.tasks[i].omitted]),
          IF p.version = 3 THEN Binding(p.archive[1], p.chatCategory) ELSE <<>>>>

=============================================================================
