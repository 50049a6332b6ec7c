--------------------------- MODULE MCSwiftImport ---------------------------
(* Packages of all three versions around one or two projects, each with the *)
(* deviations a validator must catch; one connection brings any that is     *)
(* accepted, the other a few of them, respelled or in another order.        *)
EXTENDS SwiftMigration

CONSTANTS c1, c2

lo(n) == [id |-> n, upper |-> FALSE]
up(n) == [id |-> n, upper |-> TRUE]

MCUuids == {"a", "b", "x", "m1", "m2", "m3", "t1"}
MCDerived == [s \in {"app", "old"} |-> "a"]

ProjA == [source |-> lo("a"), legacy |-> lo("app"), slug |-> "app"]
ProjB == [source |-> lo("b"), legacy |-> up("b"), slug |-> "lib"]
Alias(s, p, st) == [slug |-> s, project |-> lo(p), status |-> st, retired |-> st = "retired"]
Memory(id, p, into) ==
    [source |-> lo(id), project |-> p, alias |-> IF p = NoId THEN Absent ELSE "app",
     visibility |-> "personal", trust |-> "trusted", into |-> into, omitted |-> 0]
Edge(e, f, t, p) ==
    [source |-> e, from |-> lo(f), to |-> up(t), type |-> "related", project |-> p, alias |-> Absent]

Complete(p) ==
    [p EXCEPT !.categories =
        [projects |-> [count |-> Len(p.projects), status |-> "complete"],
         memories |-> [count |-> Len(p.memories),
                       status |-> IF Omitted(p) > 0 THEN "completeWithAcknowledgedOmissions" ELSE "complete"],
         edges |-> [count |-> Len(p.edges), status |-> "complete"]]]

Base == Complete(
    [version |-> 1, fine |-> TRUE, scopes |-> <<up("a"), lo("unscoped:personal")>>,
     projects |-> <<ProjA>>,
     aliases |-> <<Alias("app", "a", "current")>>,
     memories |-> <<Memory("m1", lo("a"), NoId), Memory("m2", NoId, up("m1"))>>,
     edges |-> <<Edge("e1", "m1", "m2", NoId)>>,
     categories |-> <<>>, tasks |-> <<>>, taskCategory |-> NoTasks,
     archive |-> <<>>, chatCategory |-> NoChats])

\* A wider package, and one deviation at a time from either.
Wide == Complete([Base EXCEPT
    !.projects = <<ProjA, ProjB>>, !.scopes = <<lo("b"), up("a"), lo("unscoped:personal")>>,
    !.aliases = <<Alias("app", "a", "tentative"), Alias("lib", "b", "current"), Alias("old", "a", "retired")>>,
    !.memories = <<Memory("m1", lo("a"), lo("m2")), [Memory("m2", up("a"), NoId) EXCEPT !.trust = "external"]>>,
    !.edges = <<Edge("e1", "m1", "m2", lo("a")), [Edge("e2", "m2", "m2", NoId) EXCEPT !.type = "cites"]>>])

ProjectLists ==
    {<<ProjA, [ProjB EXCEPT !.slug = "app"]>>,
     <<ProjA, [ProjB EXCEPT !.legacy = lo("app")]>>,
     <<ProjA, [ProjA EXCEPT !.slug = "lib", !.source = up("a")]>>}
AliasLists ==
    {<<Alias("app", "a", "current")>>,
     <<Alias("app", "a", "current"), Alias("app", "b", "tentative"), Alias("lib", "b", "current")>>,
     <<Alias("app", "b", "tentative"), Alias("lib", "b", "current")>>,
     <<Alias("app", "a", "retired"), Alias("lib", "b", "current")>>}
MemoryLists ==
    {Append(Base.memories, [Memory("m1", NoId, NoId) EXCEPT !.source = up("m1")]),
     <<Memory("m1", lo("a"), lo("m2")), Memory("m2", NoId, up("m1"))>>,
     <<Memory("m1", lo("a"), lo("m3")), Memory("m2", NoId, NoId)>>,
     <<Memory("m1", lo("a"), NoId), Memory("m2", lo("b"), NoId)>>}
EdgeLists ==
    {<<Edge("e1", "m1", "m2", NoId), Edge("e2", "m1", "m2", NoId)>>,
     <<Edge("e1", "m1", "m2", NoId), Edge("e1", "m2", "m1", NoId)>>,
     <<Edge("e1", "m1", "m3", NoId)>>,
     <<Edge("e1", "m1", "m2", lo("b"))>>}

Plain ==
    {Wide}
    \cup {Complete([w EXCEPT !.projects = ps]) : w \in {Base, Wide}, ps \in ProjectLists}
    \cup {Complete([w EXCEPT !.aliases = as]) : w \in {Base, Wide}, as \in AliasLists}
    \cup {Complete([w EXCEPT !.memories = ms]) : w \in {Base, Wide}, ms \in MemoryLists}
    \cup {Complete([w EXCEPT !.edges = es]) : w \in {Base, Wide}, es \in EdgeLists}

\* Version 2: one task by alias, or by the frozen id of the second project.
Task(p, a) == [source |-> up("t1"), project |-> lo(p), alias |-> a, omitted |-> 1, fine |-> TRUE]
Small == [Base EXCEPT !.memories = <<Memory("m1", NoId, NoId)>>, !.edges = <<>>]
WithTasks(p, tasks, n) ==
    Complete([p EXCEPT !.version = 2, !.tasks = tasks,
                       !.taskCategory = [count |-> Len(tasks), supported |-> Len(tasks) + n,
                                         unselected |-> n, excluded |-> 1]])
Two == [Small EXCEPT !.projects = <<ProjA, ProjB>>,
                     !.scopes = <<lo("b"), lo("a"), lo("unscoped:personal")>>,
                     !.aliases = <<Alias("app", "a", "current"), Alias("lib", "b", "current")>>]
Tasked ==
    {WithTasks(Small, ts, n) : n \in {0, 1},
        ts \in {<<>>, <<Task("a", lo("app"))>>, <<Task("b", lo("app"))>>,
                <<Task("a", lo("app")), [Task("a", lo("app")) EXCEPT !.source = lo("t1")]>>}}
    \cup {WithTasks(Two, <<Task("b", a)>>, 0) : a \in {lo("lib"), up("b"), lo("app")}}

\* Version 3: a legacy and a runtime conversation with two images.
Item(n, src, b, atts) ==
    [ordinal |-> n, source |-> src, body |-> b, status |-> [kind |-> "complete", reason |-> "none"],
     count |-> Len(atts), attachments |-> atts, fine |-> TRUE]
Said(e, at) == [kind |-> "legacy", event |-> e, item |-> Absent, tool |-> Absent, at |-> at, seq |-> 1,
                turn |-> "t", run |-> Absent, branch |-> Absent]
Ran(e, i, s, turn) == [kind |-> "runtime", event |-> e, item |-> i, tool |-> Absent, at |-> -1, seq |-> s,
                       turn |-> turn, run |-> "r", branch |-> "br"]
Invoked == [Ran("v3", Absent, 3, "t") EXCEPT !.tool = "i3"]
Text(k) == [kind |-> k, blank |-> FALSE, outcome |-> Absent]
Ok == [kind |-> "tool", blank |-> TRUE, outcome |-> "success"]
Chat(s, k, r, last, refs, items) ==
    [store |-> Absent, session |-> s, project |-> up("a"), kind |-> k, runtime |-> r, last |-> last,
     omitted |-> [references |-> refs, usage |-> 0, private |-> 0], items |-> items, fine |-> TRUE]
Told == Chat("s1", "legacy", Absent, -1, 3,
             <<Item(0, Said("v1", 1), Text("user"), <<"i9", "i8">>), Item(1, Said("v2", 2), Text("assistant"), <<"i9">>)>>)
Live(second, turn) ==
    Chat("s2", "runtime", "rs", 4, 0,
         <<Item(0, Ran("v1", "i1", 1, "t"), Text("user"), <<>>), Item(1, second, Text("assistant"), <<>>),
           Item(2, Invoked, Ok, <<>>), Item(3, [Ran("v4", "i4", 4, "t") EXCEPT !.turn = turn], Text("user"), <<>>)>>)
Lives == {Live(Ran("v2", "i2", 2, "t"), "t"),       \* sound
          Live(Ran("v2", "i3", 2, "t"), "t"),       \* the item of the tool's event
          Live(Ran("v2", "i2", 3, "t"), "t"),       \* out of order
          Live(Ran("v2", "i2", 2, "t"), "u")}       \* one run, two turns
Archived(conversations, images) ==
    LET n == Len(conversations)
    IN  Complete([Small EXCEPT
          !.version = 3,
          !.taskCategory = [count |-> 0, supported |-> 0, unselected |-> 0, excluded |-> 0],
          !.archive = <<[store |-> "st", conversations |-> conversations, images |-> images,
                         disclosed |-> Len(images), fine |-> TRUE]>>,
          !.chatCategory = [count |-> n, catalog |-> n + 1, unselected |-> 1,
                            items |-> Len(FlattenSeq([i \in 1..n |-> conversations[i].items]))]])
Shots == <<[id |-> "i9", fine |-> TRUE], [id |-> "i8", fine |-> TRUE]>>
Chatty ==
    {Archived(<<Told, l>>, shots) : l \in Lives, shots \in {Shots, Reverse(Shots), <<Shots[1]>>}}
    \cup {Archived(<<l, Told>>, Shots) : l \in Lives}
    \cup {Archived(<<Told, [Told EXCEPT !.session = "s3"]>>, Shots)}

\* The same package with every UUID in the other case, its records reversed.
Flip(w) == IF w.id \in Uuids THEN [w EXCEPT !.upper = ~@] ELSE w
Respelled(p) ==
    [p EXCEPT
      !.projects = Reverse([i \in DOMAIN @ |-> [@[i] EXCEPT !.source = Flip(@), !.legacy = Flip(@)]]),
      !.aliases = Reverse([i \in DOMAIN @ |-> [@[i] EXCEPT !.project = Flip(@)]]),
      !.memories = Reverse([i \in DOMAIN @ |->
          [@[i] EXCEPT !.source = Flip(@), !.project = Flip(@), !.into = Flip(@)]]),
      !.edges = Reverse([i \in DOMAIN @ |->
          [@[i] EXCEPT !.from = Flip(@), !.to = Flip(@), !.project = Flip(@)]]),
      !.tasks = [i \in DOMAIN @ |-> [@[i] EXCEPT !.source = Flip(@), !.project = Flip(@)]],
      !.archive = [i \in DOMAIN @ |-> [@[i] EXCEPT !.conversations =
          [j \in DOMAIN @ |-> [@[j] EXCEPT !.project = Flip(@)]]]]]

\* Three packages with their other spellings come first.
WithTask == WithTasks(Two, <<Task("b", up("b"))>>, 0)
WithChats == Archived(<<Told, Live(Ran("v2", "i2", 2, "t"), "t")>>, Shots)
Known == <<Base, Respelled(Base), WithTask, Respelled(WithTask), WithChats, Respelled(WithChats)>>
MCRaw == FoldSet(LAMBDA p, seq : Append(seq, p), Known,
               {p \in Plain \cup Tasked \cup Chatty : Accepted(p)} \ ToSet(Known))

\* What a package says: its records, however ordered and spelled.
Spelled(s, F(_)) == {F(s[i]) : i \in DOMAIN s}
Content(p) ==
    <<p.version,
      Spelled(p.projects, LAMBDA q : <<q.source.id, q.legacy.id, q.slug>>),
      Spelled(p.aliases, LAMBDA a : <<a.slug, a.project.id, a.status>>),
      Spelled(p.memories, LAMBDA m : <<m.source.id, m.project.id, m.alias, m.into.id, m.trust>>),
      Spelled(p.edges, LAMBDA e : <<e.source, e.from.id, e.to.id, e.type, e.project.id>>),
      Spelled(p.tasks, LAMBDA t : <<t.source.id, t.project.id, t.alias, t.omitted>>),
      p.taskCategory, p.chatCategory,
      Spelled(p.archive, LAMBDA a :
          <<Spelled(a.conversations, LAMBDA c : <<c.session, c.items>>), ToSet(a.images)>>)>>

\* Prepared packages; equal fingerprints and equal contents are numbered alike.
MCNames == DOMAIN MCRaw
MCPrints == [n \in MCNames |-> BatchFingerprint(MCRaw[n])]
MCContents == [n \in MCNames |-> Content(MCRaw[n])]
Number(f, n) == Min({m \in DOMAIN f : f[m] = f[n]})
MCPrepared ==
    [n \in MCNames |-> [fp |-> Number(MCPrints, n), entities |-> EntitiesOf(MCRaw[n]),
                        says |-> Number(MCContents, n), archive |-> MCRaw[n].archive]]

MCPreparedOf(n) == MCPrepared[n]
MCClients == {c1, c2}
MCOffers == {(c1 :> p) @@ (c2 :> IF p \in {3, 5} THEN p + 1 ELSE 2) : p \in MCNames}
MCAlien == [table |-> "thoughts", key |-> "alien", unique |-> {<<"id", "alien">>}, refs |-> {}, data |-> <<>>]
=============================================================================
