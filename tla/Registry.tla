------------------------------ MODULE Registry ------------------------------
(***************************************************************************)
(* The project registry (projects.rs, seed.rs) and the scope that calls    *)
(* get from it (resolve.rs, detect.rs, and scoped_args of server.rs).      *)
(*                                                                         *)
(* A path is the sequence of its components, as it was written: Canonical  *)
(* gives the real directory behind it. The columns that no lookup reads    *)
(* (display name, identity state, time stamps) are left out. Project ids   *)
(* are numbers in the order in which list_projects delivers the rows,      *)
(* which is the order of their frozen keys; a created project's key is a   *)
(* fresh UUID, so that it may come anywhere in that order.                 *)
(***************************************************************************)
EXTENDS Naturals, FiniteSets, SequencesExt

CONSTANTS
    Pids,           \* canonical project ids, numbers
    Slugs, ValidSlugs,
    Paths, Remotes, \* spellings of directories and of git remotes
    Canonical,      \* the real directory of a path
    Normal,         \* normalize_git_remote; applied again it may go further, as on a
                    \* URL that carries credentials
    PathSlug, RemoteSlug,   \* slugify of the last component
    Markers,        \* directories that hold a project marker
    Home,           \* the user's home directory
    OriginAt,       \* a marked directory's origin remote, or None
    None

ASSUME RegistryAssumption ==
    /\ Pids \subseteq Nat
    /\ ValidSlugs \subseteq Slugs
    /\ \A p \in Paths : Canonical[p] \in Paths /\ Canonical[Canonical[p]] = Canonical[p]
    /\ \A r \in Remotes : Normal[r] \in Remotes
    /\ Markers \subseteq {Canonical[p] : p \in Paths}
    /\ \A d \in Markers : PathSlug[d] \in Slugs /\ OriginAt[d] \in Remotes \cup {None}
    /\ \A r \in Remotes : RemoteSlug[r] \in Slugs
    /\ None \notin Pids /\ None \notin Slugs /\ None \notin Remotes /\ None \notin Paths

ProjectSeed == [slug : Slugs, repos : SUBSET Remotes, paths : SUBSET Paths,
                provisional : BOOLEAN]
Project == ProjectSeed     \* slug is the current slug
Alias == [pid : Pids, status : {"tentative", "current", "retired"}]

VARIABLES
    projects,   \* the rows of projects by id: DOMAIN projects are the ids used
    aliases     \* project_slug_aliases: a partial function from Slugs to Alias

registryVars == <<projects, aliases>>

Lowest(S) == CHOOSE p \in S : \A q \in S : p <= q

\* A table with one more row.
With(table, key, row) ==
    [k \in DOMAIN table \cup {key} |-> IF k = key THEN row ELSE table[k]]

-----------------------------------------------------------------------------
(* Lookups                                                                 *)

\* get_project_by_alias takes an alias of any status.
ByAlias(s) ==
    IF s \in DOMAIN aliases /\ aliases[s].pid \in DOMAIN projects
    THEN aliases[s].pid ELSE None

\* find_project_by_repo normalises the stored remotes and what it is asked for.
ByRepo(remote) ==
    LET owners == {p \in DOMAIN projects :
                     \E r \in projects[p].repos : Normal[r] = Normal[remote]}
    IN  IF owners = {} THEN None ELSE Lowest(owners)

\* find_project_by_path: the longest member path that holds the directory;
\* of two equally long ones the first in the list.
ByPath(dir) ==
    LET holding == UNION {{<<Len(Canonical[m]), p>> : m \in
                              {n \in projects[p].paths : IsPrefix(Canonical[n], dir)}} :
                              p \in DOMAIN projects}
        longest == {h \in holding : \A g \in holding : g[1] <= h[1]}
    IN  IF holding = {} THEN None ELSE Lowest({h[2] : h \in longest})

\* detect_project: the nearest marked directory at or above dir. The walk
\* upwards ends at the home directory.
Detected(dir) ==
    LET above == {d \in Markers : /\ IsPrefix(d, dir)
                                  /\ IsPrefix(Home, dir) => IsPrefix(Home, d)}
    IN  IF above = {} THEN None
        ELSE CHOOSE d \in above : \A e \in above : Len(e) <= Len(d)

-----------------------------------------------------------------------------
(* resolve_project_reference                                               *)

\* pid may be text that is no canonical id at all.
Reference(pid, slug) ==
    LET kind ==
          CASE pid # None /\ pid \notin Pids                -> "invalid_project_id"
            [] pid \in Pids \ DOMAIN projects               -> "unknown_project_id"
            [] slug # None /\ ByAlias(slug) = None          -> "unknown_alias"
            [] pid # None /\ slug # None /\ pid # ByAlias(slug) -> "conflicting_project_scope"
            [] pid = None /\ slug = None                    -> "unresolved"
            [] OTHER                                        -> "resolved"
    IN  [kind |-> kind,
         pid |-> IF kind # "resolved" THEN None
                 ELSE IF pid # None THEN pid ELSE ByAlias(slug)]

-----------------------------------------------------------------------------
(* resolve_project_scope                                                   *)

Unresolved == [kind |-> "unresolved"]

\* Sources in the order of ScopeSource.
MemberPath == 1
GitRemote == 2
Derived == 3

Registered(p, source) ==
    [kind |-> "resolved", slug |-> projects[p].slug, source |-> source,
     paths |-> {}, repos |-> {}]

\* A slug that is taken by a project the folder does not belong to.
FromFolder(slug, root, repos) ==
    IF ByAlias(slug) # None THEN [kind |-> "slug_collision"]
    ELSE [kind |-> "resolved", slug |-> slug, source |-> Derived,
          paths |-> {root}, repos |-> repos]

\* The lookup is asked for the normalised remote and normalises it again.
FromRemote(remote, root) ==
    LET owner == ByRepo(Normal[remote])
    IN  IF owner # None THEN Registered(owner, GitRemote)
        ELSE FromFolder(RemoteSlug[Normal[remote]], root, {Normal[remote]})

\* resolve_path after the member paths
ResolveFolder(root) ==
    CASE root = None -> [kind |-> "none"]
      [] root # None /\ OriginAt[root] = None -> FromFolder(PathSlug[root], root, {})
      [] OTHER -> FromRemote(OriginAt[root], root)

\* resolve_path
ResolvePath(path) ==
    LET member == ByPath(Canonical[path])
    IN  IF member # None THEN Registered(member, MemberPath)
        ELSE ResolveFolder(Detected(Canonical[path]))

\* Mutant: of the folders with one derived slug only the first is kept.
FirstFolder(found) == LET r == CHOOSE f \in found : TRUE IN <<r.paths, r.repos>>

\* The folders of every root with the derived slug make one project.
MergedFolders(found) ==
    <<UNION {r.paths : r \in found}, UNION {r.repos : r \in found}>>

\* The answer of the strongest source.
Strongest(found) ==
    LET best == CHOOSE a \in found : \A b \in found : a.source <= b.source
    IN  IF best.source # Derived THEN best
        ELSE [best EXCEPT !.paths = MergedFolders(found)[1], !.repos = MergedFolders(found)[2]]

\* Several roots have to agree on one slug, and no slug may be taken.
Agreed(answers) ==
    LET found == {a \in answers : a.kind = "resolved"}
    IN  CASE (\E a \in answers : a.kind = "slug_collision") \/ found = {} -> Unresolved
          [] Cardinality({a.slug : a \in found}) > 1 -> [kind |-> "ambiguous"]
          [] OTHER -> Strongest(found)

ResolveScope(roots) == Agreed({ResolvePath(r) : r \in roots})

-----------------------------------------------------------------------------
(* The scope of a read: apply_default_scope and scoped_args                *)

\* The scope arguments of a read tool: an absent include_shared is None.
ScopeArgs == [pid : Pids \cup {None}, slug : Slugs \cup {None},
              shared : BOOLEAN \cup {None}, sharedOnly : BOOLEAN, all : BOOLEAN]

Or(value, default) == IF value = None THEN default ELSE value

Applied(pid, args, shared, sharedOnly) ==
    [kind |-> "applied", pid |-> pid, shared |-> Or(args.shared, shared),
     sharedOnly |-> sharedOnly, all |-> args.all]

\* The project of a resolved scope, when it exists.
ProjectOf(scope) ==
    IF scope.kind # "resolved" THEN None ELSE Reference(None, scope.slug).pid

\* A call without a project reads what its roots resolve to; when they do
\* not resolve, shared thoughts only.
ScopeOf(args, named, found) ==
    CASE named.kind = "resolved" -> Applied(named.pid, args, TRUE, args.sharedOnly)
      [] named.kind \notin {"resolved", "unresolved"} -> [kind |-> named.kind]
      [] named.kind = "unresolved" /\ args.all -> Applied(None, args, FALSE, args.sharedOnly)
      [] OTHER -> IF found # None THEN Applied(found, args, TRUE, args.sharedOnly)
                  ELSE Applied(None, args, FALSE, TRUE)

DefaultScope(args, roots) ==
    ScopeOf(args, Reference(args.pid, args.slug), ProjectOf(ResolveScope(roots)))

-----------------------------------------------------------------------------
(* Writes                                                                  *)

\* Mutant: the slug is not checked against the ones that are taken.
MayCreateAgain(slug) == slug \in ValidSlugs

\* create_local_only_project, in one savepoint: the alias and the current
\* slug are unique and the slug well formed, or nothing is written.
MayCreate(slug) ==
    /\ slug \in ValidSlugs
    /\ slug \notin DOMAIN aliases
    /\ \A p \in DOMAIN projects : projects[p].slug # slug

Create(pid, seed) ==
    /\ projects' = With(projects, pid, seed)
    /\ aliases' = With(aliases, seed.slug, [pid |-> pid, status |-> "tentative"])

\* The provisional project of a derived scope.
Provisional(scope) ==
    [slug |-> scope.slug, repos |-> scope.repos, paths |-> scope.paths, provisional |-> TRUE]

\* The row that ensure_seed_projects finds: retired aliases do not count.
Seeded(slug) ==
    IF slug \in DOMAIN aliases /\ aliases[slug].status # "retired"
    THEN ByAlias(slug) ELSE None

\* A project that no seed touches any more.
Established(p) == ~projects[p].provisional /\ projects[p].repos \cup projects[p].paths # {}

\* The UPDATE of a seed: the slug is not written.
Reseed(p, seed) ==
    /\ projects' = [projects EXCEPT ![p] = [seed EXCEPT !.slug = projects[p].slug]]
    /\ UNCHANGED aliases

-----------------------------------------------------------------------------
RegistryTypeOK ==
    /\ DOMAIN projects \subseteq Pids /\ DOMAIN aliases \subseteq Slugs
    /\ \A p \in DOMAIN projects : projects[p] \in Project
    /\ \A s \in DOMAIN aliases : aliases[s] \in Alias

\* Every alias leads to a project, every project is found by its current
\* slug, and no two projects share one.
RegistryIntegrity ==
    /\ \A s \in DOMAIN aliases : aliases[s].pid \in DOMAIN projects
    /\ \A p \in DOMAIN projects : ByAlias(projects[p].slug) = p
=============================================================================
