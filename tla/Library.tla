------------------------------- MODULE Library -------------------------------
(***************************************************************************)
(* The database as its readers see it: projects, thoughts and edges, the   *)
(* tools and the start and repair jobs that write them, and the reads that *)
(* take several statements. Every process has a connection of its own, and *)
(* a statement outside a transaction sees what the others have committed   *)
(* by then; so the pages of a scan, the statements of a job and the two    *)
(* reads of a list interleave with every write.                            *)
(*                                                                         *)
(* A capture of a new thought and a capture that is folded into a stored   *)
(* one are two actions: which of them happens is ThoughtStore's matter.    *)
(* Refused calls change nothing and are no steps.                          *)
(***************************************************************************)
EXTENDS Repair, Brief

CONSTANTS
    Starts,     \* situations to start from, with the calls that may follow
    RootSets,   \* the roots a client may have
    SeedFiles,  \* the contents of projects.seed.json
    ReadArgs,   \* scope arguments of reads
    Instants,   \* the times that calls name
    PageSize    \* of the scans of active edges

VARIABLES
    job,        \* the start of a server or a run of the repair command
    pager,      \* a scan of the active edges of one type
    reader,     \* a list between its two statements, then what it showed
    held,       \* history: the edges a scan has to return
    vouched,    \* history: the texts trusted at some time during a list
    filed,      \* history: the roots of the last step, a personal capture
    born,       \* thoughts captured so far
    budget      \* bound: calls left, by kind

historyVars == <<held, vouched, filed>>
readVars == <<pager, reader>>
vars == <<registryVars, thoughts, edges, job, readVars, historyVars, born, budget>>

Idle == [pc |-> "idle"]
NotFiled == <<>>

Init ==
    /\ \E s \in Starts :
         /\ projects = s.projects /\ aliases = s.aliases
         /\ thoughts = s.thoughts /\ edges = s.edges
         /\ born = s.born /\ budget = s.budget
    /\ job = Idle /\ pager = Idle /\ reader = Idle
    /\ held = {} /\ vouched = {} /\ filed = NotFiled

Spend(kind) == budget[kind] > 0 /\ budget' = [budget EXCEPT ![kind] = @ - 1]

-----------------------------------------------------------------------------
(* History                                                                 *)

ToReturn(scan, rows) == {e \in DOMAIN rows : rows[e].type = scan.type /\ ActiveAt(rows[e], scan.at)}

TrustedTexts(rows) ==
    {<<id, rows[id].text>> : id \in {i \in DOMAIN rows : rows[i].trust = Trusted}}

ObservedFiling(filing) ==
    /\ held' = CASE pager'.pc = "idle"                     -> {}
                 [] pager.pc = "idle" /\ pager'.pc # "idle" -> ToReturn(pager', edges')
                 [] OTHER                                  -> held \cap ToReturn(pager', edges')
    /\ vouched' = IF reader'.pc = "idle" THEN {} ELSE vouched \cup TrustedTexts(thoughts')
    /\ filed' = filing

Observed == ObservedFiling(NotFiled)

-----------------------------------------------------------------------------
(* capture_thought                                                         *)

NewThought(pid, shared, trust, text) ==
    [pid |-> pid, ident |-> IF pid = None THEN None ELSE projects'[pid].slug,
     shared |-> shared, trust |-> trust, text |-> text,
     weight |-> 0, confirmed |-> 0, fresh |-> TRUE, mark |-> "none"]

Inserted(pid, shared, trust, text, filing) ==
    /\ born' = born + 1
    /\ thoughts' = With(thoughts, born + 1, NewThought(pid, shared, trust, text))
    /\ UNCHANGED <<edges, job, readVars>> /\ ObservedFiling(filing)

\* A shared capture without a project belongs to none.
CaptureShared(trust, text) ==
    /\ UNCHANGED registryVars
    /\ Inserted(None, TRUE, trust, text, NotFiled)

\* A project that is named has to resolve, also for a shared capture.
CaptureNamed(pid, slug, shared, trust, text) ==
    /\ <<pid, slug>> # <<None, None>>
    /\ Reference(pid, slug).kind = "resolved"
    /\ UNCHANGED registryVars
    /\ Inserted(Reference(pid, slug).pid, shared, trust, text, NotFiled)

\* Without one the roots have to resolve. The project of a folder is made
\* when it is first needed, in the transaction of the capture.
CapturePersonal(roots, trust, text) ==
    \E scope \in {ResolveScope(roots)} :
        /\ scope.kind = "resolved"
        /\ \/ /\ ProjectOf(scope) # None
              /\ UNCHANGED registryVars
              /\ Inserted(ProjectOf(scope), FALSE, trust, text, <<roots>>)
           \/ /\ ProjectOf(scope) = None /\ scope.source = Derived
              /\ MayCreate(scope.slug)
              /\ \E pid \in Pids \ DOMAIN projects :
                   /\ Create(pid, Provisional(scope))
                   /\ Inserted(pid, FALSE, trust, text, <<roots>>)

Max2(m, n) == IF m < n THEN n ELSE m

\* A capture equal to a stored thought that it may reconcile with: the row
\* keeps its project, takes the higher trust, the narrower visibility and a
\* summary that comes with the capture.
Fold(id, shared, trust, text) ==
    LET row == thoughts[id]
        last == Max({thoughts[i].confirmed : i \in DOMAIN thoughts})
    IN  /\ Spend("edit")
        /\ trust = Trusted \/ row.trust # Trusted
        /\ thoughts' = [thoughts EXCEPT ![id] =
                          [row EXCEPT !.trust = Max2(@, trust), !.shared = @ /\ shared,
                                      !.text = Or(text, @), !.weight = @ + 1,
                                      !.confirmed = last + 1, !.fresh = TRUE]]
        /\ UNCHANGED <<registryVars, edges, job, readVars, born>> /\ Observed

-----------------------------------------------------------------------------
(* get_thought, update_thought, delete_thought, manage_edges               *)

Rewritten(id, row) ==
    /\ thoughts' = [thoughts EXCEPT ![id] = [row EXCEPT !.fresh = TRUE]]
    /\ UNCHANGED <<registryVars, edges, job, readVars, born>> /\ Observed

\* get_thought reinforces the thought it shows.
Look(id) ==
    /\ Spend("edit")
    /\ Rewritten(id, [thoughts[id] EXCEPT !.weight = @ + 1])

Assign(id, pid, slug) ==
    LET named == Reference(pid, slug)
    IN  /\ named.kind = "resolved"
        /\ Rewritten(id, [thoughts[id] EXCEPT !.pid = named.pid,
                                              !.ident = projects[named.pid].slug])

\* update_thought leaves the trust level as it is.
Edit(id, shared, text) ==
    /\ Spend("edit")
    /\ Rewritten(id, [thoughts[id] EXCEPT !.shared = shared, !.text = text])

Drop(S, f) == [x \in DOMAIN f \ S |-> f[x]]

\* The foreign keys of edges cascade.
Delete(id) ==
    /\ Spend("delete")
    /\ thoughts' = Drop({id}, thoughts)
    /\ edges' = Drop({e \in DOMAIN edges : id \in {edges[e].source, edges[e].target}}, edges)
    /\ UNCHANGED <<registryVars, job, readVars, born>> /\ Observed

EdgesChanged == UNCHANGED <<registryVars, thoughts, job, readVars, born>> /\ Observed

\* UNIQUE (source_id, target_id, edge_type) also counts expired edges.
Link(e, edge) ==
    /\ Spend("link")
    /\ {edge.source, edge.target} \subseteq DOMAIN thoughts
    /\ \A f \in DOMAIN edges :
         <<edges[f].source, edges[f].target, edges[f].type>>
             # <<edge.source, edge.target, edge.type>>
    /\ edges' = With(edges, e, edge)
    /\ EdgesChanged

Unlink(e) == Spend("link") /\ edges' = Drop({e}, edges) /\ EdgesChanged

Expire(e, until) ==
    /\ Spend("link")
    /\ edges' = [edges EXCEPT ![e].until = until]
    /\ EdgesChanged

-----------------------------------------------------------------------------
(* seed_registry at the start of a server and run_repair                   *)

JobSteps(next) ==
    /\ job' = next
    /\ UNCHANGED <<edges, readVars, born>> /\ Observed

Unwritten == UNCHANGED <<registryVars, thoughts, budget>>

Begin(kind, file, apply) ==
    /\ job = Idle /\ Spend("job")
    /\ UNCHANGED <<registryVars, thoughts>>
    /\ JobSteps([pc |-> "seed", kind |-> kind, apply |-> apply, seed |-> Parsed(file),
                  index |-> 1, seen |-> None])

SeedRow == job.seed.projects[job.index].columns

\* The job at its seed number index: seen is the project it has looked up.
Seeding(pc, index, seen) ==
    [pc |-> pc, kind |-> job.kind, apply |-> job.apply, seed |-> job.seed,
     index |-> index, seen |-> seen]

\* ensure_seed_projects looks a seed's project up; an established one is
\* left alone.
SeedLook ==
    /\ job.pc = "seed" /\ job.index <= Len(job.seed.projects)
    /\ LET seen == Seeded(SeedRow.slug)
       IN  JobSteps(IF seen # None /\ Established(seen) THEN Seeding("seed", job.index + 1, None)
                    ELSE Seeding("write", job.index, seen))
    /\ Unwritten

\* The write is a statement of its own.
SeedWrite ==
    /\ job.pc = "write"
    /\ IF job.seen = None
       THEN MayCreate(SeedRow.slug) /\ \E pid \in Pids \ DOMAIN projects : Create(pid, SeedRow)
       ELSE Reseed(job.seen, SeedRow)
    /\ JobSteps(Seeding("seed", job.index + 1, None))
    /\ UNCHANGED <<thoughts, budget>>

\* All seeds are in: a server starts to serve, a repair reads the projects.
Seeds ==
    /\ job.pc = "seed" /\ job.index > Len(job.seed.projects)
    /\ JobSteps(IF job.kind = "start" THEN Idle
                ELSE [pc |-> "candidates", apply |-> job.apply, seed |-> job.seed, rows |-> projects])
    /\ Unwritten

LegacyOf(id) ==
    [path |-> About[id].path, topics |-> About[id].topics, source |-> About[id].source]

Unassigned(id) == thoughts[id].pid = None /\ thoughts[id].ident \in {None, ""}

\* Mutant: thoughts that have a project are candidates as well.
EveryCandidate == DOMAIN thoughts

\* repair_candidates
RepairCandidates == {id \in DOMAIN thoughts : Unassigned(id)}

\* plan_project_repairs with the projects read before. Without --apply the
\* plan is printed. A history: the thoughts that had a project.
PlanRepairs ==
    /\ job.pc = "candidates"
    /\ LET plan == [id \in RepairCandidates |-> Suggestion(LegacyOf(id), job.rows, job.seed)]
       IN  JobSteps(IF job.apply THEN [pc |-> "apply", plan |-> plan,
                                       assigned |-> {id \in DOMAIN thoughts : ~Unassigned(id)}]
                    ELSE Idle)
    /\ Unwritten

\* One item of the plan: the project that the slug leads to now.
Repaired(id) ==
    LET slug == job.plan[id]
        row == [thoughts[id] EXCEPT !.fresh = TRUE]
    IN  CASE slug = None -> [row EXCEPT !.mark = "review"]
          [] slug # None /\ ByAlias(slug) = None -> thoughts[id]
          [] OTHER -> [row EXCEPT !.pid = ByAlias(slug), !.ident = slug, !.mark = "repaired"]

\* The transaction that applies the plan, whatever became of its thoughts.
Apply ==
    /\ job.pc = "apply"
    /\ thoughts' = [id \in DOMAIN thoughts |->
                      IF id \in DOMAIN job.plan THEN Repaired(id) ELSE thoughts[id]]
    /\ JobSteps(Idle)
    /\ UNCHANGED <<registryVars, budget>>

\* A statement fails, for a slug that is refused or taken or a database that
\* is busy, or the process ends. What was written stays.
JobFails ==
    /\ job # Idle
    /\ JobSteps(Idle)
    /\ Unwritten

-----------------------------------------------------------------------------
(* Reads of several statements                                             *)

NoArgs == [pid |-> None, slug |-> None, shared |-> None, sharedOnly |-> FALSE, all |-> FALSE]

\* What the clients' arguments and roots amount to.
Scopes == {s \in {DefaultScope(args, roots) : args \in ReadArgs, roots \in RootSets} :
             s.kind = "applied"}

\* The thoughts a read tool answers with, before it fences their texts.
Answers(scope) ==
    LET limit == Rows(None)
    IN  {List(scope, NoFilter, limit, 0).rows, Keyword(scope, NoFilter, limit, 0).rows,
         Vector(scope, NoFilter, limit).rows, Hybrid(scope, NoFilter, limit, 0).rows,
         Context(scope, <<>>, NoFilter, limit)}

\* explore_graph and expand_neighbors: no scope applies to them.
Explored(root, at) == Traverse(root, 1, {}, at, edges, DOMAIN thoughts).order

Read(rows) ==
    /\ reader' = [pc |-> "found", rows |-> [id \in ToSet(rows) |-> thoughts[id].text]]
    /\ UNCHANGED <<registryVars, thoughts, edges, job, pager, born>> /\ Observed

\* fence_summaries looks the texts up again.
Show ==
    /\ reader.pc = "found"
    /\ reader' = [pc |-> "shown",
                  rows |-> [id \in DOMAIN reader.rows |-> Fence(id, reader.rows[id])]]
    /\ UNCHANGED <<registryVars, thoughts, edges, job, pager, born, budget>> /\ Observed

\* A scan of the active edges: the caller keeps type and time and passes the
\* cursor back.
OpenScan(type, at) ==
    /\ pager.pc = "idle" /\ Spend("scan")
    /\ pager' = [pc |-> "open", type |-> type, at |-> at, after |-> Nil, got |-> <<>>]
    /\ UNCHANGED <<registryVars, thoughts, edges, job, reader, born>> /\ Observed

ScanPage ==
    /\ pager.pc = "open"
    /\ LET page == ActivePage(edges, pager.type, pager.after, PageSize, pager.at)
       IN  pager' = [pc |-> IF page.next = Nil THEN "done" ELSE "open",
                     type |-> pager.type, at |-> pager.at,
                     after |-> page.next, got |-> pager.got \o page.edges]
    /\ UNCHANGED <<registryVars, thoughts, edges, job, reader, born, budget>> /\ Observed

-----------------------------------------------------------------------------

\* Trust levels, visibilities and texts that captures and edits bring.
CONSTANTS CapturedAs, EditedTo, Linked

\* Tables that the program's own writes can have produced.
StartIsSound(s) ==
    LET leads(slug, pid) == slug \in DOMAIN s.aliases /\ s.aliases[slug].pid = pid
    IN  /\ DOMAIN s.projects \subseteq Pids /\ DOMAIN s.aliases \subseteq Slugs
        /\ DOMAIN s.thoughts \subseteq Ids /\ IsFiniteSet(DOMAIN s.thoughts)
        /\ DOMAIN s.edges \subseteq EdgeIds /\ IsFiniteSet(DOMAIN s.edges)
        /\ \A slug \in DOMAIN s.aliases :
             s.aliases[slug] \in Alias /\ s.aliases[slug].pid \in DOMAIN s.projects
        /\ \A p \in DOMAIN s.projects :
             s.projects[p] \in Project /\ leads(s.projects[p].slug, p)
        /\ \A id \in DOMAIN s.thoughts :
             LET row == s.thoughts[id]
             IN  /\ row \in Thought
                 /\ row.pid # None => /\ row.pid \in DOMAIN s.projects
                                      /\ row.ident # None => leads(row.ident, row.pid)
        /\ \A e \in DOMAIN s.edges :
             /\ s.edges[e] \in EdgeRow
             /\ {s.edges[e].source, s.edges[e].target} \subseteq DOMAIN s.thoughts
             /\ \A f \in DOMAIN s.edges \ {e} :
                  <<s.edges[e].source, s.edges[e].target, s.edges[e].type>>
                      # <<s.edges[f].source, s.edges[f].target, s.edges[f].type>>

Capture == [shared : BOOLEAN, trust : TrustLevels, text : Texts \cup {None}]

\* A decoded seed file: its projects are a sequence of registry columns.
SeedFits(seed) ==
    /\ Len(seed.projects) \in Nat
    /\ \A n \in 1 .. Len(seed.projects) : seed.projects[n].columns \in ProjectSeed

ASSUME LibraryAssumption ==
    /\ \A p \in Paths : Len(p) \in Nat
    /\ None \notin TrustLevels
    /\ EdgeIds \subseteq Nat /\ Nil \notin EdgeIds /\ PageSize \in Nat \ {0}
    /\ Ids \subseteq Nat /\ MaxDepth \in Nat /\ MaxRows \in Nat /\ MaxCandidates \in Nat
    /\ \A id \in Ids : About[id].match \in Nat /\ About[id].near \in Nat
    /\ ReadArgs \subseteq ScopeArgs
    /\ \A s \in Starts : StartIsSound(s)
    /\ \A roots \in RootSets : roots \subseteq Paths /\ IsFiniteSet(roots)
    /\ \A file \in SeedFiles : SeedFits(file.seed)
    /\ Instants \subseteq Nat /\ Linked \subseteq EdgeRow
    /\ CapturedAs \subseteq Capture /\ EditedTo \subseteq Capture

CaptureNew ==
    /\ Spend("capture") /\ born + 1 \in Ids
    /\ \E c \in CapturedAs :
         \/ c.shared /\ CaptureShared(c.trust, c.text)
         \/ \E roots \in RootSets : ~c.shared /\ CapturePersonal(roots, c.trust, c.text)
         \/ \E pid \in DOMAIN projects, slug \in DOMAIN aliases \cup {None} :
              CaptureNamed(pid, slug, c.shared, c.trust, c.text)

FoldCapture == \E id \in DOMAIN thoughts, c \in EditedTo : Fold(id, c.shared, c.trust, c.text)

LookAtOne == \E id \in DOMAIN thoughts : Look(id)

AssignOne ==
    Spend("assign") /\ \E id \in DOMAIN thoughts, slug \in DOMAIN aliases : Assign(id, None, slug)

EditOne == \E id \in DOMAIN thoughts, c \in EditedTo : c.text # None /\ Edit(id, c.shared, c.text)

DeleteOne == \E id \in DOMAIN thoughts : Delete(id)

\* An edge's id is random.
LinkTwo == \E e \in EdgeIds \ DOMAIN edges, edge \in Linked : Link(e, edge)

ChangeEdge == \E e \in DOMAIN edges : Unlink(e) \/ \E at \in Instants : Expire(e, at)

BeginJob ==
    \E file \in SeedFiles : Begin("start", file, FALSE) \/ \E a \in BOOLEAN : Begin("repair", file, a)

ReadThoughts ==
    /\ reader.pc = "idle" /\ Spend("read")
    /\ \/ \E rows \in UNION {Answers(scope) : scope \in Scopes} : Read(rows)
       \/ \E root \in DOMAIN thoughts, at \in Instants : Read(Explored(root, at))

ScanEdges == \E type \in EdgeTypes, at \in Instants : OpenScan(type, at)

Next ==
    \/ CaptureNew \/ FoldCapture \/ LookAtOne \/ AssignOne \/ EditOne \/ DeleteOne
    \/ LinkTwo \/ ChangeEdge
    \/ BeginJob \/ SeedLook \/ SeedWrite \/ Seeds \/ PlanRepairs \/ Apply \/ JobFails
    \/ ReadThoughts \/ Show \/ ScanEdges \/ ScanPage

Spec == Init /\ [][Next]_vars

-----------------------------------------------------------------------------
(* Properties                                                              *)

\* Types, the integrity of the registry, and: a thought that has a project
\* has one that exists, and its slug leads to it, so that project_id and
\* project_identifier never name two projects; an edge joins two thoughts
\* that exist and is the only one of its type between them.
TypeOK ==
    /\ RegistryTypeOK /\ RegistryIntegrity
    /\ DOMAIN thoughts \subseteq Ids
    /\ \A id \in DOMAIN thoughts :
         /\ thoughts[id] \in Thought
         /\ thoughts[id].pid # None =>
              Reference(thoughts[id].pid, thoughts[id].ident).kind = "resolved"
    /\ DOMAIN edges \subseteq EdgeIds
    /\ \A e \in DOMAIN edges :
         /\ edges[e] \in EdgeRow
         /\ {edges[e].source, edges[e].target} \subseteq DOMAIN thoughts
         /\ \A f \in DOMAIN edges \ {e} :
              <<edges[e].source, edges[e].target, edges[e].type>>
                  # <<edges[f].source, edges[f].target, edges[f].type>>

\* A client finds what it has just captured: a read of the same roots that
\* names no project is given the project the capture was filed under, also
\* when the capture had to make the project (resolve.rs: the two resolve
\* the roots separately, before and after the project exists).
CapturesReadBack ==
    filed # NotFiled =>
        \E scope \in {DefaultScope(NoArgs, filed[1])} :
            scope.kind = "applied" /\ scope.pid = thoughts[born].pid /\ InScope(born, scope)

\* A repair leaves a thought alone that had a project when it looked for
\* candidates, and of any thought only the assignment and the mark change;
\* none loses its project (repair.rs).
RepairsSpareAssigned ==
    [][Apply =>
         /\ DOMAIN thoughts' = DOMAIN thoughts
         /\ \A id \in DOMAIN thoughts :
              /\ id \in job.assigned => thoughts'[id] = thoughts[id]
              /\ thoughts[id].pid # None => thoughts'[id].pid # None
              /\ \A field \in {"shared", "trust", "text"} :
                   thoughts'[id][field] = thoughts[id][field]]_vars

\* A scan returns no edge twice, and at its end it has returned every edge
\* that was stored and active at its time from its first page to its last,
\* whatever was linked, expired and deleted meanwhile, the edge at its
\* cursor included (edges.rs: "Empty pages may have continuation").
ScansCover ==
    pager.pc # "idle" =>
        /\ Len(pager.got) = Cardinality(ToSet(pager.got))
        /\ pager.pc = "done" => held \subseteq ToSet(pager.got)

\* A text is shown without its fence only when it was the text of a trusted
\* thought at some time during the call: no change between the two
\* statements brings an untrusted text out, and none mixes the text of one
\* moment with the trust of another (trust.rs).
ShownAsVouched ==
    reader.pc = "shown" =>
        \A id \in DOMAIN reader.rows :
            ~reader.rows[id].fenced => <<id, reader.rows[id].text>> \in vouched

\* The two properties below are about the tables alone, and every content of
\* them is reached with no job, scan or list under way.
Quiet == job = Idle /\ pager = Idle /\ reader = Idle

\* Traversals and the surroundings of results, of every depth, type filter
\* and time, find the thoughts within that many hops, each at its distance,
\* also in cyclic graphs, and show of their root what get_connections shows
\* (edges.rs).
WalksAreShortest ==
    Quiet => \A at \in Instants \cup {Nil}, depth \in 0 .. MaxDepth :
        /\ \A root \in DOMAIN thoughts, types \in {{}} \cup {{t} : t \in EdgeTypes} :
             LET walk == Traverse(root, depth, types, at, edges, DOMAIN thoughts)
             IN  /\ IsShortestWalk(walk, <<root>>, depth, edges, Followed(edges, types, at),
                                   DOMAIN thoughts)
                 /\ depth > 0 => walk.links[root] =
                                   Connections(root, types, at, edges, DOMAIN thoughts)
        /\ \A n \in DOMAIN thoughts :
             LET near == Ascending({id \in DOMAIN thoughts : id <= n})
             IN  depth > 0 =>
                   IsShortestWalk(Related(near, depth, at, edges, DOMAIN thoughts), near,
                                  depth, edges, Followed(edges, {}, at), DOMAIN thoughts)

\* The tools agree on a scope: the list is of exactly its thoughts, the
\* searches show no others and the vector search is not cut short by them,
\* the pages of a list and of a hybrid search deal out the whole result, and
\* the brief is complete and part of the list. Two disagreements of the code
\* are written out: select_context takes shared_only back for a project
\* (SeesItsScope), and the brief, asked for shared thoughts only of a project
\* without its shared ones, heeds the first (BriefIsFromTheList).
ReadsAgree ==
    Quiet => \A scope \in Scopes :
        /\ \A filter \in {NoFilter} \cup {[NoFilter EXCEPT !.type = t] : t \in Types},
              limit \in 1 .. MaxRows :
             SeesItsScope(scope, filter, limit) /\ FindsTheNearest(scope, filter, limit)
        /\ \A limit \in 1 .. MaxRows :
             /\ PagesPartition([from \in Nat |-> List(scope, NoFilter, limit, from)], limit)
             /\ PagesPartition([from \in Nat |-> Hybrid(scope, NoFilter, limit, from)], limit)
        /\ \A at \in Instants :
             BriefIsComplete(scope, at) /\ BriefIsFromTheList(scope, at, HeaderWidth + 4)

-----------------------------------------------------------------------------
(* The inductive invariant                                                 *)

TablesFinite == IsFiniteSet(DOMAIN thoughts) /\ IsFiniteSet(DOMAIN edges)

\* What a job has read before is still good for what it writes next: the
\* project it has looked up exists, and the plan names no thought that was
\* assigned when it was made.
JobSound ==
    /\ job.pc \in {"seed", "write"} => SeedFits(job.seed) /\ job.index \in Nat \ {0}
    /\ job.pc = "write" => /\ job.index <= Len(job.seed.projects)
                           /\ job.seen \in DOMAIN projects \cup {None}
    /\ job.pc = "apply" => job.assigned \cap DOMAIN job.plan = {}

\* A scan has returned ascending edges, none behind its cursor, and of the
\* edges it owes all up to the cursor.
ScanSound ==
    pager.pc # "idle" =>
        /\ pager.pc \in {"open", "done"}
        /\ pager.got \in Seq(EdgeIds)
        /\ \A i, j \in 1 .. Len(pager.got) : i < j => pager.got[i] < pager.got[j]
        /\ held \subseteq ToReturn(pager, edges)
        /\ pager.pc = "done" => held \subseteq ToSet(pager.got)
        /\ pager.pc = "open" =>
             \/ pager.after = Nil /\ pager.got = <<>>
             \/ /\ pager.after \in EdgeIds
                /\ \A e \in ToSet(pager.got) : e <= pager.after
                /\ \A e \in held : e <= pager.after => e \in ToSet(pager.got)

IInv == /\ TypeOK /\ TablesFinite /\ JobSound /\ ScanSound
        /\ ShownAsVouched /\ CapturesReadBack
=============================================================================
