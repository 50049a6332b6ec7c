---------------------------- MODULE ThoughtStore ----------------------------
(***************************************************************************)
(* The shared memory database and the tool calls that change it.           *)
(*                                                                         *)
(* Every stdio client runs its own server process on one database file in  *)
(* WAL mode, so each process of Procs owns one connection. Inside a        *)
(* process a mutex serialises the tool calls; between processes only       *)
(* SQLite does. A capture, single or bulk, runs in one deferred            *)
(* transaction (tools.rs, in_transaction): its scope is resolved before    *)
(* BEGIN, its first read takes a snapshot, its first write takes the write *)
(* lock, and the write fails when another connection has committed since   *)
(* the snapshot. All other tools, get_thought too, write with single       *)
(* autocommit statements.                                                  *)
(*                                                                         *)
(* A database is the record [thoughts, edges, registry]. A project stands  *)
(* for its slug: aliases and project ids are one-to-one here.              *)
(***************************************************************************)
EXTENDS Reconcile

CONSTANTS
    Procs,      \* server processes, one connection each
    Ids,        \* thought ids; their order is the order of the UUID texts
    Contents,   \* contents a client may store, [type, words, head]
    Slugs,      \* project slugs
    Batches,    \* capture calls: sequences of capture shapes
    Edits,      \* update_thought argument sets
    CandidateLimit, \* CANDIDATE_LIMIT, 20 in the code
    MaxManual,  \* bound on tool calls other than captures
    NoThought, NoProject, NoProc

Sensitivity == 0 .. 2   \* sensitivity_rank: none or normal, private, secret
Fields == {"content", "shared", "sens", "project"}

\* One validated capture_thought item; project is the scope the call names
\* or its client roots derive.
Shape == [content : Contents, trust : Trust, shared : BOOLEAN,
          sens : Sensitivity, project : Slugs \cup {NoProject},
          related : SUBSET Ids]

\* The item together with the UUID that insert_thought would draw for it.
Item == [id : Ids, content : Contents, trust : Trust, shared : BOOLEAN,
         sens : Sensitivity, project : Slugs \cup {NoProject},
         related : SUBSET Ids]

\* how is history: the row was "created", was stored beside a row the trust
\* gate protects ("gated") or when more rows matched than the candidates hold
\* ("crowded"), or had its content or project "edited" since.
Thought == [content : Contents, trust : Trust, shared : BOOLEAN,
            sens : Sensitivity, project : Slugs \cup {NoProject},
            reinforcements : Nat, how : {"created", "gated", "crowded", "edited"}]

\* live: the edge's validity interval covers the present instant.
EdgeTypes == {"related", "refuted_by"}
Edge == [source : Ids, target : Ids, type : EdgeTypes, live : BOOLEAN]

Edit == [touches : SUBSET Fields, content : Contents, shared : BOOLEAN,
         sens : Sensitivity, project : Slugs]

Database == [thoughts : [Ids -> Thought \cup {NoThought}],
             edges : SUBSET Edge, registry : SUBSET Slugs]

ASSUME ConstantsAssumption ==
    /\ Ids \subseteq Nat
    /\ NoThought \notin Thought
    /\ NoProject \notin Slugs
    /\ NoProc \notin Procs
    /\ Batches \subseteq Seq(Shape)
    /\ Edits \subseteq Edit
    /\ \A c \in Contents : Worded(c) /\ Headed(c)
    /\ CandidateLimit \in Nat
    /\ MaxManual \in Nat

\* The verdicts as relations, so that they are computed once.
Pairs == {<<c, d>> : c \in Contents, d \in Contents}
FoundPairs == {p \in Pairs : Finds(p[1], p[2])}
DuplicatePairs == {p \in Pairs : IsDuplicate(p[1], p[2])}
ReversalPairs == {p \in Pairs : IsReversal(p[1], p[2])}
AutoPairs == {p \in Pairs : IsAutoRelated(p[1], p[2])}

VARIABLES
    disk,       \* the committed database
    writer,     \* the process that holds SQLite's write lock, or NoProc
    pc,         \* pc[p]: "idle", "scoped" (before the first read), "open", or
                \* "stuck" in a transaction whose COMMIT has failed
    batch,      \* batch[p]: the items of the capture call p is serving
    staged,     \* staged[p]: how many of them p has written
    view,       \* view[p]: the database as p's open transaction sees it
    stale,      \* stale[p]: another connection committed after p's snapshot
    issued,     \* ids drawn so far (history)
    captured,   \* items of committed captures (history)
    dropped,    \* captures whose row was deleted (history)
    reads,      \* calls of get_thought that reinforced (history)
    manual      \* tool calls other than captures (bounds the model)

procVars == <<pc, batch, staged, view>>
vars == <<disk, writer, procVars, stale, issued, captured, dropped, reads, manual>>

EmptyDatabase == [thoughts |-> [i \in Ids |-> NoThought],
                  edges |-> {}, registry |-> {}]

Init ==
    /\ disk = EmptyDatabase
    /\ writer = NoProc
    /\ pc = [p \in Procs |-> "idle"]
    /\ batch = [p \in Procs |-> <<>>]
    /\ staged = [p \in Procs |-> 0]
    /\ view = [p \in Procs |-> EmptyDatabase]
    /\ stale = [p \in Procs |-> FALSE]
    /\ issued = {}
    /\ captured = 0
    /\ dropped = 0
    /\ reads = 0
    /\ manual = 0

Live(db) == {i \in Ids : db.thoughts[i] # NoThought}

-----------------------------------------------------------------------------
(* capture_single: what one item does to the database it reads.            *)

\* find_candidates. Without a project the candidates are the unscoped
\* personal rows.
InScope(item, t) ==
    /\ t.project = item.project
    /\ item.project = NoProject => ~t.shared

\* The rows of the scope that match the FTS query.
Matches(db, item) ==
    {i \in Live(db) : /\ InScope(item, db.thoughts[i])
                      /\ <<item.content, db.thoughts[i].content>> \in FoundPairs}

Crowded(db, item) == Cardinality(Matches(db, item)) > CandidateLimit

\* ORDER BY rank LIMIT: which rows a crowded pool holds is the choice of FTS,
\* whose ranks change with every stored text.
Candidates(db, item) ==
    IF Crowded(db, item)
    THEN {pool \in SUBSET Matches(db, item) : Cardinality(pool) = CandidateLimit}
    ELSE {Matches(db, item)}

\* The rest is about one pool of candidates.
Eligible(db, item, pool) ==
    {i \in pool : CanReconcile(item.trust, db.thoughts[i].trust)}

Blocked(db, item, pool) == pool \ Eligible(db, item, pool)

Among(db, item, S, pairs) ==
    {i \in S : <<item.content, db.thoughts[i].content>> \in pairs}

\* The first duplicate in the order of similarity, then id.
Precedes(db, item, i, j) ==
    LET c == item.content
        d == db.thoughts[i].content
        e == db.thoughts[j].content
    IN  Closer(c, d, e) \/ (AsClose(c, d, e) /\ i <= j)

Duplicates(db, item, pool) == Among(db, item, Eligible(db, item, pool), DuplicatePairs)

Survivors(db, item, pool) ==
    {i \in Duplicates(db, item, pool) :
        \A j \in Duplicates(db, item, pool) : Precedes(db, item, i, j)}

\* Mutant: reversals are looked for on both sides of the trust gate.
ReversalsUngated(db, item, pool) == Among(db, item, pool, ReversalPairs)

Reversals(db, item, pool) == Among(db, item, Eligible(db, item, pool), ReversalPairs)

\* Mutant: a blocked duplicate does not count as prevented.
GatePreventedReversal(db, item, pool) ==
    Among(db, item, Blocked(db, item, pool), ReversalPairs) # {}

\* trust_gate_prevented
GatePrevented(db, item, pool) ==
    Among(db, item, Blocked(db, item, pool), DuplicatePairs \cup ReversalPairs) # {}

\* attach_related: every existing target but the source itself is linked;
\* an edge that exists already, expired or not, is skipped.
RelatedEdges(thoughts, edges, source, targets) ==
    {[source |-> source, target |-> t, type |-> "related", live |-> TRUE] :
        t \in {u \in targets \ {source} :
                 /\ thoughts[u] # NoThought
                 /\ ~\E e \in edges : /\ e.source = source
                                      /\ e.target = u
                                      /\ e.type = "related"}}

Higher(x, y) == IF x < y THEN y ELSE x

\* Mutant: the reinforcement is forgotten.
MergedUncounted(t, item) ==
    [t EXCEPT !.trust = Higher(@, item.trust),
              !.shared = @ /\ item.shared,
              !.sens = Higher(@, item.sens)]

\* Mutant: the incoming visibility overwrites the stored one.
MergedWidening(t, item) ==
    [t EXCEPT !.trust = Higher(@, item.trust),
              !.shared = item.shared,
              !.sens = Higher(@, item.sens),
              !.reinforcements = @ + 1]

Merged(t, item) ==
    [t EXCEPT !.trust = Higher(@, item.trust),
              !.shared = @ /\ item.shared,
              !.sens = Higher(@, item.sens),
              !.reinforcements = @ + 1]

\* The no-op branch: reinforce the survivor i and fold the item into it.
Merge(db, item, i) ==
    [db EXCEPT !.thoughts[i] = Merged(@, item),
               !.edges = @ \cup RelatedEdges(db.thoughts, @, i, item.related)]

NewThought(db, item, pool) ==
    [content |-> item.content, trust |-> item.trust, shared |-> item.shared,
     sens |-> item.sens, project |-> item.project, reinforcements |-> 0,
     how |-> CASE GatePrevented(db, item, pool) -> "gated"
               [] ~GatePrevented(db, item, pool) /\ Crowded(db, item) -> "crowded"
               [] OTHER -> "created"]

RefutingEdges(db, item, pool) ==
    {[source |-> i, target |-> item.id, type |-> "refuted_by", live |-> TRUE] :
        i \in Reversals(db, item, pool)}

\* The add branch: a new row, which supersedes the reversals it finds.
Insert(db, item, pool) ==
    LET thoughts == [db.thoughts EXCEPT ![item.id] = NewThought(db, item, pool)]
        auto == Among(db, item, Eligible(db, item, pool), AutoPairs)
    IN  [db EXCEPT
           !.thoughts = thoughts,
           !.edges = @ \cup RefutingEdges(db, item, pool)
                       \cup RelatedEdges(thoughts, @, item.id,
                                         item.related \cup auto)]

\* Mutant: a capture without a project registers one.
ProvisionAlways(db, item) == [db EXCEPT !.registry = @ \cup {item.project}]

\* resolve_capture_scope: a derived project is registered on first use.
Provision(db, item) ==
    [db EXCEPT !.registry = @ \cup ({item.project} \ {NoProject})]

Reconciled(db, item, pool) ==
    IF Duplicates(db, item, pool) = {}
    THEN {Insert(db, item, pool)}
    ELSE {Merge(db, item, i) : i \in Survivors(db, item, pool)}

CaptureItem(db, item) ==
    LET d == Provision(db, item)
    IN  UNION {Reconciled(d, item, pool) : pool \in Candidates(d, item)}

-----------------------------------------------------------------------------
(* capture_thought                                                         *)

\* capture_scope: a call that names no project must be shared, a project
\* that is not registered can only be derived, for a personal item.
ScopeResolves(shape, registry) ==
    \/ shape.project = NoProject /\ shape.shared
    \/ shape.project \in registry
    \/ shape.project \in Slugs /\ ~shape.shared

Drawings(n) == {ids \in [1 .. n -> Ids \ issued] :
                  \A j, k \in 1 .. n : ids[j] = ids[k] => j = k}

WithId(shape, id) ==
    [id |-> id, content |-> shape.content, trust |-> shape.trust,
     shared |-> shape.shared, sens |-> shape.sens, project |-> shape.project,
     related |-> shape.related]

\* Validate the call and resolve every item's scope, outside a transaction.
Request(p) ==
    /\ pc[p] = "idle"
    /\ \E shapes \in Batches :
         /\ \A n \in DOMAIN shapes : ScopeResolves(shapes[n], disk.registry)
         /\ \E ids \in Drawings(Len(shapes)) :
              /\ batch' = [batch EXCEPT ![p] =
                             [n \in DOMAIN shapes |-> WithId(shapes[n], ids[n])]]
              /\ issued' = issued \cup {ids[n] : n \in DOMAIN shapes}
    /\ pc' = [pc EXCEPT ![p] = "scoped"]
    /\ UNCHANGED <<disk, writer, staged, view, stale, captured, dropped, reads, manual>>

\* BEGIN and the first read: the deferred transaction takes its snapshot.
TakeSnapshot(p) ==
    /\ pc[p] = "scoped"
    /\ pc' = [pc EXCEPT ![p] = "open"]
    /\ view' = [view EXCEPT ![p] = disk]
    /\ stale' = [stale EXCEPT ![p] = FALSE]
    /\ UNCHANGED <<disk, writer, batch, staged, issued, captured, dropped, reads, manual>>

\* Mutant: the snapshot is not compared with the database at the first write.
MayWriteStale(p) == writer \in {NoProc, p}

MayWrite(p) == writer \in {NoProc, p} /\ ~stale[p]

\* capture_single for the next item. Its first write needs the write lock
\* and a snapshot nobody has committed over.
StageItem(p) ==
    /\ pc[p] = "open"
    /\ staged[p] < Len(batch[p])
    /\ MayWrite(p)
    /\ \E db \in CaptureItem(view[p], batch[p][staged[p] + 1]) :
         view' = [view EXCEPT ![p] = db]
    /\ staged' = [staged EXCEPT ![p] = @ + 1]
    /\ writer' = p
    /\ UNCHANGED <<disk, pc, batch, stale, issued, captured, dropped, reads, manual>>

\* The connection is idle again; every other open snapshot is behind the
\* new disk.
Close(p) ==
    /\ pc' = [pc EXCEPT ![p] = "idle"]
    /\ batch' = [batch EXCEPT ![p] = <<>>]
    /\ staged' = [staged EXCEPT ![p] = 0]
    /\ view' = [view EXCEPT ![p] = EmptyDatabase]

Overtaken(p) == [q \in Procs |-> IF q = p THEN FALSE ELSE stale[q] \/ pc[q] = "open"]

Commit(p) ==
    /\ pc[p] = "open"
    /\ writer = p
    /\ staged[p] = Len(batch[p])
    /\ disk' = view[p]
    /\ captured' = captured + Len(batch[p])
    /\ writer' = NoProc
    /\ stale' = Overtaken(p)
    /\ Close(p)
    /\ UNCHANGED <<issued, dropped, reads, manual>>

\* COMMIT fails and in_transaction returns without a ROLLBACK: unless SQLite
\* has rolled back by itself (Abort), the transaction stays open and keeps the
\* write lock. Every later BEGIN on this connection fails; what its other calls
\* write goes into this transaction, which no other process sees and no call
\* commits, until SQLite or the end of the process rolls it back.
CommitFails(p) ==
    /\ pc[p] = "open"
    /\ writer = p
    /\ staged[p] = Len(batch[p])
    /\ pc' = [pc EXCEPT ![p] = "stuck"]
    /\ UNCHANGED <<disk, writer, batch, staged, view, stale, issued, captured, dropped,
                   reads, manual>>

\* Any statement failed (a busy or stale snapshot, an I/O error, a COMMIT
\* that SQLite rolled back) or the process died: nothing of the call stays.
Abort(p) ==
    /\ pc[p] \in {"scoped", "open", "stuck"}
    /\ writer' = IF writer = p THEN NoProc ELSE writer
    /\ stale' = [stale EXCEPT ![p] = FALSE]
    /\ Close(p)
    /\ UNCHANGED <<disk, issued, captured, dropped, reads, manual>>

-----------------------------------------------------------------------------
(* The other tools: single autocommit statements.                          *)

Autocommit(p, db) ==
    /\ pc[p] = "idle"
    /\ writer = NoProc
    /\ manual < MaxManual
    /\ disk' = db
    /\ stale' = Overtaken(p)
    /\ manual' = manual + 1
    /\ UNCHANGED <<writer, procVars, issued, captured>>

\* get_thought_tool: a read reinforces, without confirming. The increment is
\* a statement of its own: when it fails, or finds the thought deleted since
\* it was read, nothing is written.
GetThought(p) ==
    \E i \in Live(disk) :
        /\ Autocommit(p, [disk EXCEPT !.thoughts[i].reinforcements = @ + 1])
        /\ reads' = reads + 1
        /\ UNCHANGED dropped

Edited(t, e) ==
    [t EXCEPT !.content = IF "content" \in e.touches THEN e.content ELSE @,
              !.shared = IF "shared" \in e.touches THEN e.shared ELSE @,
              !.sens = IF "sens" \in e.touches THEN e.sens ELSE @,
              !.project = IF "project" \in e.touches THEN e.project ELSE @,
              !.how = IF e.touches \cap {"content", "project"} # {}
                      THEN "edited" ELSE @]

\* update_thought_tool, one id of the call: the statement for each id
\* commits by itself.
Update(p) ==
    \E i \in Live(disk), e \in Edits :
        /\ e.touches # {}
        /\ "project" \in e.touches => e.project \in disk.registry
        /\ Autocommit(p, [disk EXCEPT !.thoughts[i] = Edited(@, e)])
        /\ UNCHANGED <<dropped, reads>>

\* Mutant: foreign keys are off, edges outlive their thoughts.
DeleteWithoutCascade(p) ==
    \E i \in Live(disk) :
        /\ Autocommit(p, [disk EXCEPT !.thoughts[i] = NoThought])
        /\ dropped' = dropped + 1 + disk.thoughts[i].reinforcements
        /\ UNCHANGED reads

\* DELETE with the foreign keys' ON DELETE CASCADE.
Delete(p) ==
    \E i \in Live(disk) :
        /\ Autocommit(p, [disk EXCEPT
                            !.thoughts[i] = NoThought,
                            !.edges = {e \in @ : i \notin {e.source, e.target}}])
        /\ dropped' = dropped + 1 + disk.thoughts[i].reinforcements
        /\ UNCHANGED reads

\* link_thoughts: both ends must exist and UNIQUE(source, target, type) holds.
Link(p) ==
    \E e \in Edge :
        /\ {e.source, e.target} \subseteq Live(disk)
        /\ ~\E f \in disk.edges : /\ f.source = e.source
                                  /\ f.target = e.target
                                  /\ f.type = e.type
        /\ Autocommit(p, [disk EXCEPT !.edges = @ \cup {e}])
        /\ UNCHANGED <<dropped, reads>>

Unlink(p) ==
    \E e \in disk.edges :
        /\ Autocommit(p, [disk EXCEPT !.edges = @ \ {e}])
        /\ UNCHANGED <<dropped, reads>>

\* expire_edge overwrites valid_until: a past or present instant ends the
\* edge, a future one keeps it, or brings an expired one back.
Expire(p) ==
    \E e \in disk.edges, live \in BOOLEAN :
        /\ Autocommit(p, [disk EXCEPT
                            !.edges = (@ \ {e}) \cup {[e EXCEPT !.live = live]}])
        /\ UNCHANGED <<dropped, reads>>

Next ==
    \E p \in Procs :
        \/ Request(p) \/ TakeSnapshot(p) \/ StageItem(p)
        \/ Commit(p) \/ CommitFails(p) \/ Abort(p)
        \/ GetThought(p) \/ Update(p) \/ Delete(p) \/ Link(p) \/ Unlink(p) \/ Expire(p)

Spec == Init /\ [][Next]_vars

-----------------------------------------------------------------------------
(* Properties                                                              *)

\* Every variable keeps its type; the history counters only count.
TypeOK ==
    /\ disk \in Database
    /\ writer \in Procs \cup {NoProc}
    /\ pc \in [Procs -> {"idle", "scoped", "open", "stuck"}]
    /\ batch \in [Procs -> Seq(Item)]
    /\ staged \in [Procs -> Nat]
    /\ view \in [Procs -> Database]
    /\ stale \in [Procs -> BOOLEAN]
    /\ issued \in SUBSET Ids
    /\ captured \in Nat /\ dropped \in Nat /\ reads \in Nat /\ manual \in Nat

\* An edge joins two existing thoughts, and at most one edge of a type goes
\* from one thought to another.
EdgesSound(db) ==
    /\ \A e \in db.edges : {e.source, e.target} \subseteq Live(db)
    /\ \A e, f \in db.edges :
          e.source = f.source /\ e.target = f.target /\ e.type = f.type => e = f

\* thoughts.project_id has no foreign key: that the project exists rests on
\* the scope resolution and on a rollback undoing both or neither.
ProjectsRegistered(db) ==
    \A i \in Live(db) : db.thoughts[i].project \in db.registry \cup {NoProject}

\* The graph and the registry stay consistent with the thoughts, on disk
\* and in what every open transaction reads, whatever calls interleave.
StoreIntegrity ==
    \A db \in {disk} \cup {view[p] : p \in Procs} :
        EdgesSound(db) /\ ProjectsRegistered(db)

Twins(t, u) ==
    /\ t.content = u.content /\ Searched(t.content)
    /\ t.project = u.project /\ t.project # NoProject

\* Reconciliation leaves no unexplained duplicate: two stored thoughts of one
\* project have the same content, of at least MIN_TOKENS words and with one in
\* its head, only if the trust gate kept the later one apart, if more rows
\* matched it than find_candidates looks at, or if an update gave one of them
\* its content or project.
TwinsExplained(db) ==
    \A i, j \in Live(db) :
        i # j /\ Twins(db.thoughts[i], db.thoughts[j])
            => {db.thoughts[i].how, db.thoughts[j].how} # {"created"}

NoSilentTwins == TwinsExplained(disk)

\* What the rows of a database count: themselves and their reinforcements.
Counted(db) == UNION {{i} \X (0 .. db.thoughts[i].reinforcements) : i \in Live(db)}

\* Every item of a committed capture is accounted for exactly once, as a row
\* or as a reinforcement of one, and every read of a thought as one more
\* reinforcement, however the calls of several processes interleave, fail or
\* merge (tools.rs:2015, "read reinforces").
EveryCaptureCounted == Cardinality(Counted(disk)) + dropped = captured + reads

-----------------------------------------------------------------------------
(* The inductive invariant behind the safety theorems.                     *)

\* An id drawn for a pending item is not yet used by anyone: not on disk, not
\* in another transaction, and in its own only once the item is staged.
IdsFresh ==
    /\ Live(disk) \subseteq issued
    /\ \A p \in Procs : Live(view[p]) \subseteq issued
    /\ \A q \in Procs : \A n \in 1 .. Len(batch[q]) :
         /\ batch[q][n].id \in issued \ Live(disk)
         /\ \A p \in Procs : p # q \/ n > staged[q]
                                => batch[q][n].id \notin Live(view[p])
         /\ \A p \in Procs : \A m \in 1 .. Len(batch[p]) :
              batch[p][m].id = batch[q][n].id => p = q /\ m = n
    /\ \A p \in Procs : pc[p] = "idle" => batch[p] = <<>>

DatabaseSound(db) ==
    EdgesSound(db) /\ ProjectsRegistered(db) /\ TwinsExplained(db)

\* What an open transaction has staged is on top of what the disk holds, as
\* long as nobody has committed since its snapshot; only such a transaction
\* has the write lock.
Accounts ==
    /\ IsFiniteSet(Counted(disk)) /\ EveryCaptureCounted
    /\ \A p \in Procs :
         /\ IsFiniteSet(Counted(view[p]))
         /\ pc[p] = "open" /\ ~stale[p] =>
              Cardinality(Counted(view[p])) + dropped = captured + reads + staged[p]
         /\ pc[p] \in {"idle", "scoped"} => staged[p] = 0
         /\ writer = p => pc[p] \in {"open", "stuck"} /\ ~stale[p]

IInv ==
    /\ TypeOK
    /\ IdsFresh
    /\ DatabaseSound(disk)
    /\ \A p \in Procs : DatabaseSound(view[p])

-----------------------------------------------------------------------------

\* reconcile.rs:199: a lower-trust capture never touches a trusted thought:
\* the row keeps every field and gains no outgoing edge (so no refutation).
LowerTrustSparesTrusted(p) ==
    LET item == batch[p][staged[p] + 1]
        old == view[p]
        new == view'[p]
    IN  item.trust < Trusted =>
          \A i \in Live(old) : old.thoughts[i].trust = Trusted =>
            /\ new.thoughts[i] = old.thoughts[i]
            /\ {e \in new.edges : e.source = i} = {e \in old.edges : e.source = i}

TrustGate == [][\A p \in Procs : StageItem(p) => LowerTrustSparesTrusted(p)]_vars

\* Merging only tightens an existing thought: its content and project stay,
\* visibility never widens, sensitivity and trust never fall, and no edge of
\* the graph is lost or changed.
Tightens(t, u) ==
    /\ u.content = t.content /\ u.project = t.project
    /\ u.shared => t.shared
    /\ u.sens >= t.sens /\ u.trust >= t.trust
    /\ u.reinforcements >= t.reinforcements

CaptureOnlyTightens(p) ==
    /\ \A i \in Live(view[p]) :
          i \in Live(view'[p]) /\ Tightens(view[p].thoughts[i], view'[p].thoughts[i])
    /\ view[p].edges \subseteq view'[p].edges

CaptureTightens == [][\A p \in Procs : StageItem(p) => CaptureOnlyTightens(p)]_vars

\* A committed capture has exactly an effect that running its items, in
\* order, on the database it replaces can have: no lost update, no partial
\* bulk.
AfterEach(db, items) ==
    LET after[n \in 0 .. Len(items)] ==
          IF n = 0 THEN {db} ELSE UNION {CaptureItem(d, items[n]) : d \in after[n - 1]}
    IN  after

RunAll(db, items) == AfterEach(db, items)[Len(items)]

CommitsAreSerial ==
    [][\A p \in Procs : Commit(p) => disk' \in RunAll(disk, batch[p])]_vars

\* A transaction whose snapshot is current has staged what its items, run one
\* after another, can make of the disk.
Replays ==
    \A p \in Procs : pc[p] = "open" /\ ~stale[p] =>
        /\ staged[p] <= Len(batch[p])
        /\ view[p] \in AfterEach(disk, batch[p])[staged[p]]
=============================================================================
