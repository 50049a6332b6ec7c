------------------------------ MODULE MCLibrary ------------------------------
(* Four situations, each with the calls that matter in it: captures and a    *)
(* server's start on an almost empty registry; a repair of legacy thoughts;  *)
(* scans and traversals of a cyclic graph; lists and briefs of thoughts of   *)
(* every trust and visibility that are edited, merged and deleted.           *)
EXTENDS Library

\* Directories: two of the same name, one in another, one with a remote, a
\* link to the first, one without marker and one outside the home.
a == <<"h", "a">>
within == <<"h", "a", "b">>
namesake == <<"h", "w", "a">>
remote == <<"h", "c">>
link == <<"h", "l">>
plain == <<"h", "p">>

MCPaths == {a, within, namesake, remote, link, plain}
MCCanonical == [p \in MCPaths |-> IF p = link THEN a ELSE p]
MCMarkers == {a, within, namesake, remote}
MCHome == <<"h">>
\* A URL with credentials becomes a login first, then the plain remote.
MCRemotes == {"git", "https", "login", "token"}
MCNormal == [r \in MCRemotes |-> IF r = "token" THEN "login" ELSE "git"]
MCPathSlug == [p \in MCPaths |-> IF p = within THEN "b" ELSE IF p = remote THEN "c" ELSE "a"]
MCRemoteSlug == [r \in MCRemotes |-> "c"]
MCOriginAt == [p \in MCPaths |-> IF p = remote THEN "token" ELSE None]
MCSlugs == {"a", "b", "c", "old", "?"}
MCSlugRank == [s \in MCSlugs |-> CASE s = "a" -> 1 [] s = "b" -> 2 [] s = "c" -> 3 [] OTHER -> 4]
MCMentions == [s \in {"chat"} |-> {1, 2}]

MCSafeText == [t \in {"x", "x.", "y", "bad"} |->
                 CASE t = "x." -> "x" [] t = "bad" -> None [] OTHER -> t]
MCWidth == [t \in {"x", "x.", "y", "bad"} |-> 3]

extra(form, eligible, role, sensitivity) ==
    [form |-> form, eligible |-> eligible, role |-> role, sensitivity |-> sensitivity]
none == extra("none", "absent", "absent", "absent")
marked == extra("object", "true", "absent", "normal")

about(type, topics, path, source, match, near, ex) ==
    [type |-> type, topics |-> topics, path |-> path, source |-> source,
     match |-> match, near |-> near, extra |-> ex, consolidated |-> FALSE]

MCAbout ==
    <<about("decision", {"t"}, within, None, 2, 1, none),
      about("note", {"t", "u"}, None, "chat", 1, 3, marked),
      about("decision", {}, link, "chat", 3, 2, extra("object", "true", "milestone", "absent")),
      about("note", {"u"}, None, None, 0, 4, extra("object", "absent", "constraint", "absent"))>>

project(slug, repos, paths, provisional) ==
    [slug |-> slug, repos |-> repos, paths |-> paths, provisional |-> provisional]
alias(pid, status) == [pid |-> pid, status |-> status]

row(pid, ident, shared, trust, text) ==
    [pid |-> pid, ident |-> ident, shared |-> shared, trust |-> trust, text |-> text,
     weight |-> 0, confirmed |-> 0, fresh |-> FALSE, mark |-> "none"]

edge(source, target, type, from, until) ==
    [source |-> source, target |-> target, type |-> type, claim |-> FALSE,
     from |-> from, until |-> until]

MCLinked == {edge(1, 3, "refuted_by", Nil, Nil), edge(2, 4, "related", 2, Nil),
             edge(4, 1, "refuted_by", Nil, 2)}

nothing == [capture |-> 0, edit |-> 0, assign |-> 0, delete |-> 0, link |-> 0,
            job |-> 0, read |-> 0, scan |-> 0]
empty == <<>>

\* One project found by its remote, and a retired alias.
Captures ==
    [projects |-> 2 :> project("c", {"git"}, {}, FALSE),
     aliases |-> ("c" :> alias(2, "tentative")) @@ ("old" :> alias(2, "retired")),
     thoughts |-> empty, edges |-> empty, born |-> 0,
     budget |-> [nothing EXCEPT !.capture = 2, !.job = 1]]

Repairs ==
    [projects |-> (1 :> project("a", {}, {a}, FALSE)) @@ (2 :> project("b", {}, {}, TRUE)),
     aliases |-> ("a" :> alias(1, "current")) @@ ("b" :> alias(2, "tentative")),
     thoughts |-> (1 :> row(None, None, FALSE, 2, "x")) @@ (2 :> row(None, "", FALSE, 1, "y"))
                  @@ (3 :> row(2, "b", TRUE, 2, "y")) @@ (4 :> row(None, None, TRUE, 0, None)),
     edges |-> empty, born |-> 4,
     budget |-> [nothing EXCEPT !.assign = 1, !.delete = 1, !.job = 1]]

Graph ==
    [projects |-> empty, aliases |-> empty,
     thoughts |-> [id \in 1 .. 4 |-> row(None, None, TRUE, 2, "x")],
     edges |-> (2 :> edge(1, 2, "related", Nil, Nil)) @@ (3 :> edge(2, 3, "refuted_by", Nil, 2))
               @@ (4 :> edge(3, 1, "refuted_by", 1, Nil)) @@ (6 :> edge(3, 4, "refuted_by", Nil, Nil)),
     born |-> 4, budget |-> [nothing EXCEPT !.link = 2, !.delete = 1, !.scan = 1]]

Lists ==
    [projects |-> (1 :> project("a", {}, {a}, FALSE)) @@ (2 :> project("b", {}, {}, TRUE)),
     aliases |-> ("a" :> alias(1, "current")) @@ ("b" :> alias(2, "tentative")),
     thoughts |-> (1 :> row(1, "a", FALSE, 2, "x")) @@ (2 :> row(None, None, TRUE, 0, "bad"))
                  @@ (3 :> row(2, "b", FALSE, 2, "x.")) @@ (4 :> row(1, "a", TRUE, 1, "y")),
     edges |-> (1 :> edge(1, 4, "refuted_by", Nil, 2)), born |-> 4,
     budget |-> [nothing EXCEPT !.edit = 2, !.delete = 1, !.read = 1]]

MCStarts == {Captures, Repairs, Graph, Lists}

MCRootSets == {{}, {a}, {a, namesake}, {within}, {remote}, {link, plain}, {a, remote}}

seed(projectList, clusters) ==
    [malformed |-> FALSE, seed |-> [projects |-> projectList, clusters |-> clusters]]
entry(columns, sources) == [columns |-> columns, sources |-> sources]

MCSeedFiles ==
    {seed(<<entry(project("b", {}, {within}, FALSE), {1}),
            entry(project("a", {}, {a}, FALSE), {2})>>, "t" :> "b"),
     seed(<<entry(project("old", {"https"}, {}, FALSE), {1})>>, ("t" :> "a") @@ ("u" :> "c"))}

MCReadArgs ==
    {NoArgs, [NoArgs EXCEPT !.all = TRUE], [NoArgs EXCEPT !.sharedOnly = TRUE],
     [NoArgs EXCEPT !.slug = "b"], [NoArgs EXCEPT !.slug = "a", !.shared = FALSE],
     [NoArgs EXCEPT !.slug = "a", !.shared = FALSE, !.sharedOnly = TRUE]}

captured(shared, trust, text) == [shared |-> shared, trust |-> trust, text |-> text]
MCCapturedAs == {captured(FALSE, 2, "x"), captured(TRUE, 2, "x")}
MCEditedTo == {captured(FALSE, 2, None), captured(TRUE, 1, "y")}
=============================================================================
