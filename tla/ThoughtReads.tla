---------------------------- MODULE ThoughtReads ----------------------------
(***************************************************************************)
(* The reads of thoughts: lists, the three searches, the context of a      *)
(* session (tools.rs, thoughts.rs, fts.rs, vectors.rs) and the fence that  *)
(* every text passes before it is shown (trust.rs).                        *)
(*                                                                         *)
(* A query is fixed: About says how well each thought matches its words    *)
(* and its embedding. Content and summary are one text with one trust, and *)
(* the filters on person, source, agent, trust level, dates and presence   *)
(* of a summary, conjuncts of the same SQL as the type's, are one set of   *)
(* thoughts. Thoughts are numbered in the order of their creation.         *)
(***************************************************************************)
EXTENDS Registry, GraphReads

CONSTANTS
    Ids, Texts, Types,
    About,          \* About[id]: what no operation here changes
    MaxRows,        \* the longest page and pool; 100 in the code
    DefaultRows     \* the page of a call that names no limit; 20 in the code

\* TrustLevel by its rank: external, unverified, trusted.
TrustLevels == 0 .. 2
Trusted == 2

Thought == [pid : Pids \cup {None}, ident : Slugs \cup {None, ""}, shared : BOOLEAN,
            trust : TrustLevels, text : Texts \cup {None},
            weight : Nat,       \* reinforcement_count
            confirmed : Nat,    \* the order of the last confirmations; 0 for none
            fresh : BOOLEAN,    \* updated_at lies within the last week
            mark : {"none", "repaired", "review"}]

VARIABLE thoughts   \* the rows of thoughts: a partial function from Ids

-----------------------------------------------------------------------------
(* Scope and filters                                                       *)

\* read_scope on the arguments that scoped_args left, and all_projects.
Wanted(scope) == IF scope.all THEN None ELSE scope.pid

InScope(id, scope) ==
    /\ scope.sharedOnly => thoughts[id].shared
    /\ Wanted(scope) # None =>
         thoughts[id].pid = Wanted(scope) \/ (scope.shared /\ thoughts[id].shared)

NoFilter == [type |-> None, topic |-> None, path |-> None, others |-> Ids]

Passes(id, filter) ==
    /\ filter.type \in {None, About[id].type}
    /\ filter.topic \in {None} \cup About[id].topics
    /\ filter.path \in {None, About[id].path}
    /\ id \in filter.others

Matching(scope, filter) ==
    {id \in DOMAIN thoughts : InScope(id, scope) /\ Passes(id, filter)}

Rows(asked) == Clamp(1, Or(asked, DefaultRows), MaxRows)

\* LIMIT and OFFSET of SQLite, to which a negative offset is none.
Page(all, limit, offset) ==
    LET rest == SubSeq(all, (IF offset > 0 THEN offset ELSE 0) + 1, Len(all))
    IN  [rows |-> First(rest, limit), total |-> Len(all),
         more |-> offset + Len(First(rest, limit)) < Len(all)]

-----------------------------------------------------------------------------
(* Orders                                                                  *)

\* The members of a finite set as a relation orders them.
InOrder(S, before) ==
    [n \in 1 .. Cardinality(S) |->
        CHOOSE m \in S : Cardinality({k \in S : <<k, m>> \in before}) = n - 1]

Above(s, t) ==
    \E n \in DOMAIN s : s[n] > t[n] /\ \A m \in 1 .. n - 1 : s[m] = t[m]

\* ORDER BY with DESC in every place.
HighestFirst(key) ==
    LET S == DOMAIN key IN InOrder(S, {p \in S \X S : Above(key[p[1]], key[p[2]])})

\* The rows at some places.
RowsAt(rows, places) ==
    LET at == Ascending(places) IN [n \in DOMAIN at |-> rows[at[n]]]

-----------------------------------------------------------------------------
(* list_thoughts and search_thoughts                                       *)

List(scope, filter, limit, offset) ==
    Page(Reverse(Ascending(Matching(scope, filter))), limit, offset)

\* The position of a thought in the order of rank, 0 without the words.
Keyword(scope, filter, limit, offset) ==
    LET found == {id \in Matching(scope, filter) : About[id].match > 0}
    IN  Page(HighestFirst([id \in found |-> <<-About[id].match, -id>>]), limit, offset)

\* search_by_embedding; near is 0 below the threshold or without embedding.
Nearest(eligible, limit) ==
    LET close == {id \in DOMAIN thoughts \cap eligible : About[id].near > 0}
    IN  First(HighestFirst([id \in close |-> <<-About[id].near, -id>>]), limit)

\* Mutant: the pool is filled from every project and filtered afterwards.
EligibleAnywhere(scope, filter) == {id \in DOMAIN thoughts : Passes(id, filter)}

\* eligible_ids; without any condition every thought is.
Eligible(scope, filter) == Matching(scope, filter)

Vector(scope, filter, limit) ==
    LET narrowed == \/ Wanted(scope) # None \/ scope.sharedOnly
                    \/ filter.type # None \/ filter.path # None
        pool == Nearest(Eligible(scope, filter), IF narrowed THEN MaxRows ELSE limit)
        kept == {n \in DOMAIN pool : pool[n] \in Matching(scope, filter)}
    IN  Page(RowsAt(pool, kept), limit, 0)

\* The position of a thought in a result, 0 when it is not there.
Place(rows, id) ==
    IF id \in ToSet(rows) THEN CHOOSE n \in DOMAIN rows : rows[n] = id ELSE 0

\* The two lists are merged by reciprocal ranks with the constant 60: the
\* score 1/(60 + r) + 1/(60 + s), as a fraction.
Score(r, s) ==
    LET weight(p) == IF p = 0 THEN 0 ELSE 1
    IN  <<weight(r) * (60 + s) + weight(s) * (60 + r), (60 + r) * (60 + s)>>

Higher(a, b) == a[1] * b[2] > b[1] * a[2]

\* sort_by: thoughts of one score stay in the order in which they were met.
ByScore(score, met) ==
    LET S == DOMAIN score
    IN  InOrder(S, {p \in S \X S :
                      \/ Higher(score[p[1]], score[p[2]])
                      \/ ~Higher(score[p[2]], score[p[1]]) /\ met[p[1]] < met[p[2]]})

\* The wanted thoughts of both lists, each once.
Fused(words, near, wanted) ==
    LET both == (ToSet(words) \cup ToSet(near)) \cap wanted
    IN  ByScore([id \in both |-> Score(Place(words, id), Place(near, id))],
                [id \in both |-> IF id \in ToSet(words) THEN Place(words, id)
                                 ELSE Len(words) + Place(near, id)])

Hybrid(scope, filter, limit, offset) ==
    LET size == IF 3 * limit < MaxRows THEN 3 * limit ELSE MaxRows
        kept == Fused(Keyword(scope, filter, size, 0).rows,
                      Nearest(Eligible(scope, filter), size), Matching(scope, filter))
    IN  \* a negative offset is cast to a huge one here
        IF offset >= 0 THEN Page(kept, limit, offset)
        ELSE [rows |-> <<>>, total |-> Len(kept), more |-> offset < Len(kept)]

-----------------------------------------------------------------------------
(* select_context                                                          *)

\* A named project takes shared_only back.
ContextScope(scope) == [scope EXCEPT !.sharedOnly = @ /\ Wanted(scope) = None]

\* One list for every wanted type, then the first limit different thoughts.
Context(scope, types, filter, limit) ==
    LET rows(type) == List(ContextScope(scope), [filter EXCEPT !.type = type], limit, 0).rows
        pool == IF types = <<>> THEN rows(None)
                ELSE FlattenSeq([n \in DOMAIN types |-> rows(types[n])])
        once == {n \in DOMAIN pool : \A m \in 1 .. n - 1 : pool[m] # pool[n]}
    IN  First(RowsAt(pool, once), limit)

-----------------------------------------------------------------------------
(* The fence                                                               *)

FenceText(text, trust) == [text |-> text, fenced |-> trust # Trusted]

\* Mutant: a thought that is gone keeps the text that was read.
FenceOrKeep(id, read) ==
    IF id \in DOMAIN thoughts THEN FenceText(thoughts[id].text, thoughts[id].trust)
    ELSE FenceText(read, Trusted)

\* fence_summaries, and the second get_thought of a context: the text and
\* the trust that are stored now; a thought that is gone is unverified.
Fence(id, read) ==
    IF id \in DOMAIN thoughts THEN FenceText(thoughts[id].text, thoughts[id].trust)
    ELSE FenceText(read, None)

-----------------------------------------------------------------------------
(* What the reads are to return.                                           *)

\* The thoughts a scope is meant to hold: with shared_only the shared ones,
\* otherwise those of its project and, with include_shared, the shared ones of
\* others; without a project all of all_projects, or else the shared ones.
InItsScope(id, scope) ==
    LET of == Wanted(scope)
    IN  /\ scope.sharedOnly => thoughts[id].shared
        /\ \/ scope.all
           \/ of # None /\ thoughts[id].pid = of
           \/ thoughts[id].shared /\ (of = None \/ scope.shared)

ItsThoughts(scope, filter) ==
    {id \in DOMAIN thoughts : Passes(id, filter) /\ InItsScope(id, scope)}

\* The list counts exactly the thoughts of its scope that pass the filter, and
\* no list or search shows any other. The exception is select_context, which
\* takes shared_only back for a project: then it also shows the project's
\* personal thoughts.
SeesItsScope(scope, filter, limit) ==
    LET types == IF filter.type = None THEN <<>> ELSE <<filter.type>>
        its == ItsThoughts(scope, filter)
    IN  /\ List(scope, filter, limit, 0).total = Cardinality(its)
        /\ \A rows \in {List(scope, filter, limit, 0).rows, Keyword(scope, filter, limit, 0).rows,
                         Vector(scope, filter, limit).rows, Hybrid(scope, filter, limit, 0).rows} :
              ToSet(rows) \subseteq its
        /\ \A id \in ToSet(Context(scope, types, filter, limit)) :
              \/ id \in its
              \/ /\ scope.sharedOnly /\ Wanted(scope) # None
                 /\ thoughts[id].pid = Wanted(scope) /\ Passes(id, filter)

\* The vector search returns the nearest thoughts of the scope, as many as
\* fit the page.
FindsTheNearest(scope, filter, limit) ==
    LET rows == ToSet(Vector(scope, filter, limit).rows)
        all == {id \in ItsThoughts(scope, filter) : About[id].near > 0}
    IN  /\ rows \subseteq all
        /\ Cardinality(rows) = IF Cardinality(all) < limit THEN Cardinality(all) ELSE limit
        /\ \A i \in rows, j \in all \ rows : About[i].near <= About[j].near

\* Pages by offset deal the whole result out, each thought once.
PagesPartition(page, limit) ==
    LET all == page[0].total
        pages == {<<n, page[limit * n]>> : n \in 0 .. all}
    IN  /\ Cardinality(UNION {ToSet(p[2].rows) : p \in pages}) = all
        /\ \A p \in pages : p[2].more <=> limit * (p[1] + 1) < all
=============================================================================
