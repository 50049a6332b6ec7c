------------------------------ MODULE Reconcile ------------------------------
(***************************************************************************)
(* The pure part of write reconciliation (reconcile.rs): when an incoming  *)
(* capture counts as a duplicate, as a reversal or as a relative of a      *)
(* stored thought.                                                         *)
(*                                                                         *)
(* A content is the record [type, words, head]: its thought type, the      *)
(* sequence of lower-cased letter/digit runs token_sequence extracts, and  *)
(* those of its first 200 characters that sanitize_fts_query leaves to     *)
(* search for.                                                             *)
(* Ratios are compared as integers: the code's f64 quotients are compared  *)
(* with 0.9 and 0.8, and an exact quotient 9/10 or 1 - 1/5 rounds to the   *)
(* very constant it is compared with, so the comparisons agree.            *)
(***************************************************************************)
EXTENDS Naturals, Sequences, FiniteSets, SequencesExt

MinTokens == 4          \* MIN_TOKENS
NoopPercent == 90       \* NOOP_THRESHOLD
OrderedPercent == 80    \* ORDERED_NOOP_THRESHOLD
AutoPercent == 80       \* AUTO_EDGE_THRESHOLD

Tokens(c) == ToSet(c.words)

\* A content as token_sequence makes it: its words are a sequence.
Worded(c) == c.words \in Seq(Tokens(c))

\* Shorter inputs neither look for candidates nor reconcile.
Substantial(c) == Cardinality(Tokens(c)) >= MinTokens

Common(c, d) == Cardinality(Tokens(c) \cap Tokens(d))
Either(c, d) == Cardinality(Tokens(c) \cup Tokens(d))

\* jaccard(c, d) >= percent / 100; the code's NaN for two empty contents
\* makes every comparison false.
JaccardAtLeast(c, d, percent) ==
    /\ Either(c, d) > 0
    /\ 100 * Common(c, d) >= percent * Either(c, d)

\* The candidate sort: d before e when jaccard(c, d) > jaccard(c, e).
Closer(c, d, e) == Common(c, d) * Either(c, e) > Common(c, e) * Either(c, d)
AsClose(c, d, e) == Common(c, d) * Either(c, e) = Common(c, e) * Either(c, d)

-----------------------------------------------------------------------------
(* Levenshtein distance over tokens, row by row as the code computes it:   *)
(* row[j + 1] is the distance to the first j tokens of b.                  *)

LeastOf3(x, y, z) == Min({x, y, z})

FirstRow(b) == [j \in 1 .. Len(b) + 1 |-> j - 1]

\* Mutant: the first cell of the row is not counted up.
NextRowUnbordered(prev, x, b) ==
    LET cur[j \in 0 .. Len(b)] ==
          IF j = 0 THEN <<prev[1]>>
          ELSE LET left == cur[j - 1]
               IN  Append(left, LeastOf3(prev[j + 1] + 1, left[j] + 1,
                                         prev[j] + (IF x = b[j] THEN 0 ELSE 1)))
    IN  cur[Len(b)]

\* cur[j] is the row up to the j-th token of b.
NextRow(prev, x, b) ==
    LET cur[j \in 0 .. Len(b)] ==
          IF j = 0 THEN <<prev[1] + 1>>
          ELSE LET left == cur[j - 1]
               IN  Append(left, LeastOf3(prev[j + 1] + 1, left[j] + 1,
                                         prev[j] + (IF x = b[j] THEN 0 ELSE 1)))
    IN  cur[Len(b)]

\* The rows after each token of a.
RowsOf(a, b) ==
    LET after[n \in 0 .. Len(a)] ==
          IF n = 0 THEN FirstRow(b) ELSE NextRow(after[n - 1], a[n], b)
    IN  after

EditDistance(a, b) == RowsOf(a, b)[Len(a)][Len(b) + 1]

\* For reference, the distances of all prefixes by their recurrence.
Distance(a, b) ==
    LET d[p \in (0 .. Len(a)) \X (0 .. Len(b))] ==
          IF p[1] = 0 THEN p[2]
          ELSE IF p[2] = 0 THEN p[1]
          ELSE LeastOf3(d[<<p[1] - 1, p[2]>>] + 1, d[<<p[1], p[2] - 1>>] + 1,
                        d[<<p[1] - 1, p[2] - 1>>] + (IF a[p[1]] = b[p[2]] THEN 0 ELSE 1))
    IN  d

\* ordered_similarity(c, d) >= 0.8
InOrder(c, d) ==
    LET longest == Max({Len(c.words), Len(d.words)})
    IN  /\ c.words # <<>> /\ d.words # <<>>
        /\ 100 * (longest - EditDistance(c.words, d.words))
             >= OrderedPercent * longest

-----------------------------------------------------------------------------
(* Verdicts on one candidate d for the input c.                            *)

Matching(c, d) == c.type = d.type /\ JaccardAtLeast(c, d, NoopPercent)

IsDuplicate(c, d) == Substantial(c) /\ Matching(c, d) /\ InOrder(c, d)

IsReversal(c, d) == Substantial(c) /\ Matching(c, d) /\ ~InOrder(c, d)

\* auto_apply: linked as "related" without asking.
IsAutoRelated(c, d) ==
    /\ Substantial(c)
    /\ JaccardAtLeast(c, d, AutoPercent)
    /\ ~IsReversal(c, d)

(* The FTS prefilter: find_candidates searches for the words of the head,  *)
(* without the FTS keywords. sanitize_fts_query joins their quoted prefixes *)
(* with blanks, which FTS5 reads as AND, so a stored thought matches only  *)
(* if it holds every word of the head. Stemming and prefixes, the cut word *)
(* at the end of the head included, are abstracted to equality of words.   *)
Headed(c) == c.head \subseteq Tokens(c)

Searched(c) == Substantial(c) /\ c.head # {}

Finds(c, d) == Searched(c) /\ c.head \subseteq Tokens(d)

(* can_reconcile: a lower-trust capture never reconciles with a trusted    *)
(* thought. Trust is the rank of TrustLevel: 0 external, 1 unverified,     *)
(* 2 trusted.                                                              *)
Trust == 0 .. 2
Trusted == 2
CanReconcile(capture, existing) == capture = Trusted \/ existing # Trusted
=============================================================================
