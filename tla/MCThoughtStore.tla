---------------------------- MODULE MCThoughtStore ----------------------------
(* Small instance of ThoughtStore: two server processes, four thoughts, a  *)
(* statement, its reversal, and a longer relative of the statement without  *)
(* a word in its head; a fourth thought may meet three rows that match it,  *)
(* of which only two are candidates.                                        *)
EXTENDS ThoughtStore, TLC

CONSTANTS p1, p2, s1

content(type, words, head) == [type |-> type, words |-> words, head |-> head]

statement == content("note", <<"we", "prefer", "tabs", "over", "spaces">>,
                     {"we", "prefer", "tabs"})
reversed == content("note", <<"we", "prefer", "spaces", "over", "tabs">>,
                    {"we", "prefer", "spaces"})
longer == content("decision", <<"we", "always", "prefer", "tabs", "over", "spaces">>,
                  {})

MCProcs == {p1, p2}
MCContents == {statement, reversed, longer}
MCSlugs == {s1}

shape(c, trust, shared, sens, project, related) ==
    [content |-> c, trust |-> trust, shared |-> shared, sens |-> sens,
     project |-> project, related |-> related]

stated == shape(statement, 2, TRUE, 0, s1, {})
restated == shape(statement, 2, FALSE, 1, s1, {1})
hearsay == shape(statement, 1, FALSE, 0, s1, {1, 2})
denied == shape(reversed, 2, FALSE, 0, s1, {})
decided == shape(longer, 1, FALSE, 0, s1, {})
unscoped == shape(statement, 2, TRUE, 0, NoProject, {})

MCBatches == {<<stated>>, <<hearsay>>, <<denied, unscoped>>, <<decided, restated>>}

edit(touches, c, shared, sens, project) ==
    [touches |-> touches, content |-> c, shared |-> shared, sens |-> sens,
     project |-> project]

MCEdits == {edit({"content"}, reversed, TRUE, 0, s1),
            edit({"shared", "sens"}, statement, FALSE, 0, s1),
            edit({"project"}, statement, FALSE, 0, s1)}

Symmetry == Permutations(MCProcs)
=============================================================================
