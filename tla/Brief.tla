-------------------------------- MODULE Brief --------------------------------
(***************************************************************************)
(* get_brief (brief.rs, tools.rs): a bounded pool of candidates, a policy  *)
(* that keeps or omits each, an order, and as many lines as the budget of  *)
(* tokens allows. One SELECT reads the candidates, with their refutations. *)
(*                                                                         *)
(* The metadata's extra object is abstracted to what the policy asks of    *)
(* it: whether there is metadata, an extra and whether it is an object,    *)
(* and its briefEligible, briefRole and sensitivity. Claims, of which a    *)
(* refutation may be about one only, are not shown here.                   *)
(***************************************************************************)
EXTENDS ThoughtReads

CONSTANTS
    MaxCandidates,  \* BRIEF_CANDIDATE_LIMIT, 250 in the code
    SafeText,       \* normalize_brief_summary: the safe form of a text, or None
    Width,          \* the tokens of a line with that text
    HeaderWidth, GroupWidth \* those of the header and of a group's title

VARIABLE edges

Roles == <<"constraint", "decision", "milestone", "blocker", "preference", "recent">>
Lane(role) == CHOOSE n \in DOMAIN Roles : Roles[n] = role
Group(role) == IF role = "constraint" THEN "decision" ELSE role

\* Types whose thoughts may be shown without an explicit mark. A preference
\* is stored as a decision by the tools.
LegacyTypes == {"decision", "reference", "insight", "preference"}

Extra == [form : {"no metadata", "none", "object", "other"},
          eligible : {"absent", "true", "other"},
          role : ToSet(Roles) \cup {"absent", "other"},
          sensitivity : {"absent", "normal", "other"}]

EdgeRow == [source : Ids, target : Ids, type : EdgeTypes, claim : BOOLEAN,
            from : Nat \cup {Nil}, until : Nat \cup {Nil}]

Refuted(id, at) ==
    \E e \in DOMAIN edges : /\ edges[e].source = id /\ edges[e].type = "refuted_by"
                            /\ ~edges[e].claim /\ ActiveAt(edges[e], at)

-----------------------------------------------------------------------------
(* load_brief_candidates                                                   *)

EligibleShared(id) ==
    thoughts[id].shared /\ About[id].extra.form = "object" /\ About[id].extra.eligible = "true"

\* scope_priority
Requested(id, scope) ==
    IF scope.all THEN ~thoughts[id].shared \/ EligibleShared(id)
    ELSE \/ EligibleShared(id) /\ (scope.sharedOnly \/ Wanted(scope) = None \/ scope.shared)
         \/ /\ ~scope.sharedOnly /\ Wanted(scope) # None
            /\ ~thoughts[id].shared /\ thoughts[id].pid = Wanted(scope)

\* VALID_EXPLICIT_METADATA and LEGACY_SAFE
WellFormed(id) ==
    LET extra == About[id].extra
        plain == extra.role # "other" /\ extra.sensitivity # "other"
    IN  CASE extra.form = "object" /\ extra.eligible = "true" /\ plain -> 2
          [] About[id].type \in LegacyTypes /\ extra.form = "none" -> 1
          [] /\ About[id].type \in LegacyTypes /\ extra.form = "object"
             /\ extra.eligible = "absent" /\ plain -> 1
          [] OTHER -> 0

Bit(b) == IF b THEN 1 ELSE 0

\* Last confirmation (0 for none), reinforcement and last update, of which
\* only the week counts here, latest first; then the smaller id.
Standing(id) ==
    <<thoughts[id].confirmed, thoughts[id].weight, Bit(thoughts[id].fresh), -id>>

\* Mutant: well-formed rows come before the rows of the requested scope.
PlacedByForm(id, scope) == <<WellFormed(id), Bit(Requested(id, scope))>> \o Standing(id)

Placed(id, scope) == <<Bit(Requested(id, scope)), WellFormed(id)>> \o Standing(id)

Candidates(scope, limit) ==
    First(HighestFirst([id \in DOMAIN thoughts |-> Placed(id, scope)]), limit)

-----------------------------------------------------------------------------
(* select_brief_items                                                      *)

Explicit(id) == About[id].extra.form = "object" /\ About[id].extra.eligible = "true"

\* The role classify gives, or None.
Role(id) ==
    LET extra == About[id].extra
        named == IF extra.form = "object" THEN extra.role ELSE "absent"
    IN  CASE extra.form = "other" -> None
          [] extra.form = "object" /\ (extra.eligible = "other" \/ extra.sensitivity = "other") -> None
          [] named = "other" -> None
          [] named \in ToSet(Roles) -> named
          [] OTHER -> IF About[id].type \in LegacyTypes THEN "decision"
                      ELSE IF Explicit(id) THEN "recent" ELSE None

WrongProject(id, scope) ==
    IF scope.sharedOnly THEN ~thoughts[id].shared
    ELSE IF thoughts[id].shared THEN ~scope.shared
    ELSE ~scope.all /\ thoughts[id].pid # Wanted(scope)

\* Why a candidate is omitted, as omitted_counts names it; the first reason
\* counts.
Omitted(id, scope, at) ==
    LET row == thoughts[id]
        extra == About[id].extra
    IN  CASE WrongProject(id, scope) -> "wrong_project"
          [] row.trust # Trusted -> "untrusted"
          [] About[id].consolidated -> "consolidated"
          [] Refuted(id, at) -> "refuted"
          [] extra.form = "object" /\ extra.sensitivity = "other" -> "sensitive"
          [] row.shared /\ ~Explicit(id) -> "ineligible"
          [] row.text = None -> "missing_summary"
          [] SafeText[row.text] = None -> "sensitive"
          [] Role(id) = None -> "ineligible"
          [] OTHER -> "kept"

InLanes(id, lanes) ==
    \/ lanes # "recent" /\ Role(id) # "recent"
    \/ lanes # "essentials" /\ thoughts[id].fresh

Listed(id) == <<-Lane(Role(id)), Bit(Explicit(id))>> \o Standing(id)

\* Of several thoughts with one safe text the first is shown.
Items(candidates, lanes, scope, at) ==
    LET kept == {id \in ToSet(candidates) :
                   Omitted(id, scope, at) = "kept" /\ InLanes(id, lanes)}
        text(id) == SafeText[thoughts[id].text]
        shown == {id \in kept : \A k \in kept :
                    text(k) = text(id) => ~Above(Listed(k), Listed(id))}
    IN  HighestFirst([id \in shown |-> Listed(id)])

\* render_brief_items and estimate_brief_tokens
Tokens(items) ==
    LET width(id) == Width[SafeText[thoughts[id].text]]
    IN  HeaderWidth + GroupWidth * Cardinality({Group(Role(id)) : id \in ToSet(items)})
        + FoldLeft(LAMBDA sum, id : sum + width(id), 0, items)

\* render_token_bound_brief drops items from the end, never part of one.
Fitting(items, budget) ==
    LET fits == {n \in 0 .. Len(items) : n = 0 \/ Tokens(SubSeq(items, 1, n)) <= budget}
    IN  SubSeq(items, 1, CHOOSE n \in fits : \A m \in fits : m <= n)

GetBrief(scope, lanes, at, budget) ==
    Fitting(Items(Candidates(scope, MaxCandidates), lanes, scope, at), budget)

-----------------------------------------------------------------------------
(* What the brief is to contain.                                           *)

\* The bound on the pool leaves nothing out of a scope that fits it, however
\* many thoughts there are outside: the brief is the one an unbounded pool
\* would give.
BriefIsComplete(scope, at) ==
    Cardinality({id \in DOMAIN thoughts : Requested(id, scope)}) <= MaxCandidates =>
        Items(Candidates(scope, MaxCandidates), "full", scope, at)
            = Items(Ascending(DOMAIN thoughts), "full", scope, at)

\* It shows thoughts that the list of the same scope shows, and of those
\* only trusted ones that nothing refutes. The exception: of shared_only with
\* include_shared = false, a list of a project heeds both, a brief the first.
BriefIsFromTheList(scope, at, budget) ==
    \/ scope.sharedOnly /\ ~scope.shared /\ Wanted(scope) # None
    \/ ToSet(GetBrief(scope, "full", at, budget)) \subseteq
         {id \in Matching(scope, NoFilter) : thoughts[id].trust = Trusted /\ ~Refuted(id, at)}
=============================================================================
