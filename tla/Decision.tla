------------------------------ MODULE Decision ------------------------------
(***************************************************************************)
(* The function reconcile (reconcile.rs) as it runs: it scores the         *)
(* candidates one after the other, in the order FTS ranked them, computing *)
(* the token edit distance row by row, sorts the scores and looks for the  *)
(* first duplicate. ThoughtStore uses the verdicts of Reconcile instead;   *)
(* this module shows that the two agree.                                   *)
(***************************************************************************)
EXTENDS Reconcile

CONSTANTS Inputs,     \* contents captured
          Stored,     \* contents stored
          MaxListed,  \* bound on the number of candidates
          ReferenceLength \* bound on the words compared with the reference

ASSUME DecisionAssumption ==
    /\ MaxListed \in Nat
    /\ \A c \in Inputs \cup Stored : Worded(c)

NoRow == <<>>

VARIABLES
    input,      \* the captured content
    listed,     \* the candidates, a sequence of contents; ids are positions
    order,      \* order[i]: the id the i-th listed candidate has
    row,        \* the current Levenshtein row, or NoRow
    rows,       \* rows computed so far for the current candidate
    scored,     \* the scores, in the order listed
    decision

vars == <<input, listed, order, row, rows, scored, decision>>

Undecided == [kind |-> "none"]

Lists == UNION {[1 .. n -> Stored] : n \in 0 .. MaxListed}
Orders(n) == {f \in [1 .. n -> 1 .. n] : \A i, j \in 1 .. n : f[i] = f[j] => i = j}

Init ==
    /\ input \in Inputs
    /\ listed \in Lists
    /\ order \in Orders(Len(listed))
    /\ row = NoRow
    /\ rows = 0
    /\ scored = <<>>
    /\ decision = Undecided

Deciding == decision = Undecided /\ Substantial(input)
Current == listed[Len(scored) + 1]

Score(c, matching, inOrder) ==
    [id |-> order[Len(scored) + 1], content |-> c,
     matching |-> matching, inOrder |-> inOrder]

\* Fewer than MIN_TOKENS tokens: nothing is suggested.
Decline ==
    /\ decision = Undecided
    /\ ~Substantial(input)
    /\ decision' = [kind |-> "add", refuted |-> {}, auto |-> {}]
    /\ UNCHANGED <<input, listed, order, row, rows, scored>>

\* A candidate of another type, or too different, gets no ordered score.
ScorePlain ==
    /\ Deciding /\ row = NoRow
    /\ Len(scored) < Len(listed)
    /\ ~Matching(input, Current)
    /\ scored' = Append(scored, Score(Current, FALSE, FALSE))
    /\ UNCHANGED <<input, listed, order, row, rows, decision>>

StartRows ==
    /\ Deciding /\ row = NoRow
    /\ Len(scored) < Len(listed)
    /\ Matching(input, Current)
    /\ row' = FirstRow(Current.words)
    /\ rows' = 0
    /\ UNCHANGED <<input, listed, order, scored, decision>>

\* One iteration of levenshtein's outer loop.
AddRow ==
    /\ row # NoRow
    /\ rows < Len(input.words)
    /\ row' = NextRow(row, input.words[rows + 1], Current.words)
    /\ rows' = rows + 1
    /\ UNCHANGED <<input, listed, order, scored, decision>>

\* ordered_similarity(input, Current) >= 0.8, from the last row.
ScoreOrdered ==
    /\ row # NoRow
    /\ rows = Len(input.words)
    /\ LET longest == Max({Len(input.words), Len(Current.words)})
           distance == row[Len(Current.words) + 1]
       IN  scored' = Append(scored, Score(Current, TRUE,
                       100 * (longest - distance) >= OrderedPercent * longest))
    /\ row' = NoRow
    /\ rows' = 0
    /\ UNCHANGED <<input, listed, order, decision>>

\* Mutant: equally similar candidates stay in the order FTS ranked them.
RanksUnstable(s, t) == Closer(input, s.content, t.content)

\* scored.sort_by: descending similarity, then ascending id.
Ranks(s, t) ==
    \/ Closer(input, s.content, t.content)
    \/ AsClose(input, s.content, t.content) /\ s.id < t.id

\* The sort is stable.
Before(s, i, j) == Ranks(s[i], s[j]) \/ (~Ranks(s[j], s[i]) /\ i < j)
Place(s, i) == Cardinality({j \in DOMAIN s : Before(s, j, i)}) + 1
Sorted(s) == [k \in DOMAIN s |-> s[CHOOSE i \in DOMAIN s : Place(s, i) = k]]

Duplicate(s) == s.matching /\ s.inOrder
Reversal(s) == s.matching /\ ~s.inOrder

\* Mutant: a reversal is linked as related as well.
AutoReversed(s) == JaccardAtLeast(input, s.content, AutoPercent)

AutoLinked(s) == JaccardAtLeast(input, s.content, AutoPercent) /\ ~Reversal(s)

Decide ==
    /\ Deciding /\ row = NoRow
    /\ Len(scored) = Len(listed)
    /\ LET sorted == Sorted(scored)
           first == SelectInSeq(sorted, Duplicate)
       IN  decision' =
             IF first > 0
             THEN [kind |-> "noop", existing |-> sorted[first].id]
             ELSE [kind |-> "add",
                   refuted |-> {s.id : s \in {t \in ToSet(sorted) : Reversal(t)}},
                   auto |-> {s.id : s \in {t \in ToSet(sorted) : AutoLinked(t)}}]
    /\ UNCHANGED <<input, listed, order, row, rows, scored>>

Next ==
    \/ Decline \/ ScorePlain \/ StartRows \/ AddRow \/ ScoreOrdered \/ Decide

Spec == Init /\ [][Next]_vars

-----------------------------------------------------------------------------
(* Reference definitions.                                                  *)

\* The verdicts of Reconcile as relations, so that they are computed once.
Contents == Inputs \cup Stored
Pairs == {<<c, d>> : c \in Contents, d \in Contents}
DuplicatePairs == {p \in Pairs :
                     Substantial(p[2]) /\ IsDuplicate(p[1], p[2])}
ReversalPairs == {p \in Pairs :
                     Substantial(p[2]) /\ IsReversal(p[1], p[2])}

ById(id) == listed[CHOOSE i \in DOMAIN order : order[i] = id]

Ids == DOMAIN listed

\* What the decision has to be, as a function of the set of candidates.
Required ==
    LET duplicates == {i \in Ids : IsDuplicate(input, ById(i))}
        before(i, j) == \/ Closer(input, ById(i), ById(j))
                        \/ AsClose(input, ById(i), ById(j)) /\ i <= j
    IN  IF duplicates # {}
        THEN [kind |-> "noop",
              existing |-> CHOOSE i \in duplicates :
                             \A j \in duplicates : before(i, j)]
        ELSE [kind |-> "add",
              refuted |-> {i \in Ids : IsReversal(input, ById(i))},
              auto |-> {i \in Ids : IsAutoRelated(input, ById(i))}]

-----------------------------------------------------------------------------
(* Properties                                                              *)

\* Each row of levenshtein holds the distances from a prefix of the input to
\* every prefix of the candidate (the loop invariant of the code). The
\* recurrence takes exponential time, hence the bound on the lengths.
RowIsDistance ==
    (/\ row # NoRow
     /\ Max({rows, Len(Current.words)}) <= ReferenceLength) =>
        LET d == Distance(input.words, Current.words)
        IN  \A j \in 0 .. Len(Current.words) : row[j + 1] = d[<<rows, j>>]

\* The decision depends on the set of candidates only, never on the rank
\* order FTS delivered them in, and is the one the store's model uses.
DecisionIsRequired == decision # Undecided => decision = Required

\* A refuted candidate is not linked as related; and the verdicts do not
\* depend on which of two contents was captured first: what refutes a stored
\* thought would have been refuted by it.
VerdictsSymmetric ==
    /\ decision.kind = "add" => decision.refuted \cap decision.auto = {}
    /\ \A i \in Ids :
         /\ <<input, ById(i)>> \in DuplicatePairs <=> <<ById(i), input>> \in DuplicatePairs
         /\ <<input, ById(i)>> \in ReversalPairs <=> <<ById(i), input>> \in ReversalPairs

-----------------------------------------------------------------------------
(* The inductive invariant: what has been computed of the rows and scores. *)

ScoreOf(k) ==
    [id |-> order[k], content |-> listed[k], matching |-> Matching(input, listed[k]),
     inOrder |-> Matching(input, listed[k]) /\ InOrder(input, listed[k])]

RowSound ==
    row # NoRow =>
        /\ decision = Undecided /\ Substantial(input)
        /\ Len(scored) < Len(listed) /\ Matching(input, Current)
        /\ rows \in 0 .. Len(input.words)
        /\ row = RowsOf(input.words, Current.words)[rows]

IInv ==
    /\ input \in Inputs /\ listed \in Lists /\ order \in Orders(Len(listed))
    /\ \E n \in 0 .. Len(listed) : scored = [k \in 1 .. n |-> ScoreOf(k)]
    /\ RowSound /\ DecisionIsRequired
=============================================================================
