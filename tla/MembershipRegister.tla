------------------------- MODULE MembershipRegister -------------------------
(***************************************************************************)
(* What projects/membership.rs promises: an "existing-ID-only full-content *)
(* CAS" on one project's row. A call replaces the repositories of exactly  *)
(* the row its caller knows, once at most, and changes nothing else but    *)
(* the time stamp; and what it answers is true when it answers.            *)
(***************************************************************************)
CONSTANTS
    Clients,    \* callers, each with a connection of its own
    Repos,      \* repository lists
    Rests,      \* the other columns of the row, and its aliases
    Stamps,     \* values of updated_at
    Gone        \* no such project, or no row known: not in Rows

Rows == [repos : Repos, rest : Rests, stamp : Stamps]

VARIABLES
    row,        \* the project's row
    known,      \* known[c]: the row c has seen, its fingerprint
    wanted,     \* wanted[c]: the repositories c asks for
    landed,     \* landed[c]: c's current call has changed the row
    verdict     \* verdict[c]: what c's last call answered

registerVars == <<row, known, wanted, landed, verdict>>

Init ==
    /\ row \in Rows
    /\ known = [c \in Clients |-> Gone]
    /\ wanted \in [Clients -> Repos]
    /\ landed = [c \in Clients |-> FALSE]
    /\ verdict = [c \in Clients |-> "none"]

\* c reads the row, or learns that its connection is of no use.
Learn(c) ==
    /\ verdict[c] # "pending"
    /\ \/ known' = [known EXCEPT ![c] = row] /\ UNCHANGED verdict
       \/ verdict' = [verdict EXCEPT ![c] = "unusable"] /\ UNCHANGED known
    /\ UNCHANGED <<row, wanted, landed>>

Call(c) ==
    /\ verdict[c] # "pending" /\ known[c] # Gone
    /\ \E w \in Repos : wanted' = [wanted EXCEPT ![c] = w]
    /\ landed' = [landed EXCEPT ![c] = FALSE]
    /\ verdict' = [verdict EXCEPT ![c] = "pending"]
    /\ UNCHANGED <<row, known>>

\* r with the repositories w, stamped anew.
Replacing(r, w) == {[repos |-> w, rest |-> r.rest, stamp |-> s] : s \in Stamps}

\* The call takes effect, and may answer at once.
Land(c) ==
    /\ verdict[c] = "pending" /\ ~landed[c]
    /\ row = known[c] /\ row # Gone
    /\ row' \in Replacing(row, wanted[c])
    /\ landed' = [landed EXCEPT ![c] = TRUE]
    /\ \E v \in {"pending", "applied", "unusable"} : verdict' = [verdict EXCEPT ![c] = v]
    /\ UNCHANGED <<known, wanted>>

\* The answers c may get now. After "unavailable" the row is what c knows,
\* or c's call never changed it.
Truthful(c) ==
    {"unknown", "unusable"}
    \cup {v \in {"applied"} : landed[c] \/ (row # Gone /\ row.repos = wanted[c])}
    \cup {v \in {"unchanged"} : ~landed[c] /\ row = known[c] /\ row.repos = wanted[c]}
    \cup {v \in {"conflict"} : ~landed[c] /\ row # known[c]}
    \cup {v \in {"notFound"} : ~landed[c] /\ row = Gone}
    \cup {v \in {"unavailable"} : ~landed[c] \/ row = known[c]}

Answer(c) ==
    /\ verdict[c] = "pending"
    /\ \E v \in Truthful(c) : verdict' = [verdict EXCEPT ![c] = v]
    /\ UNCHANGED <<row, known, wanted, landed>>

\* The caller's process ends and is started again.
Reset(c) ==
    /\ known' = [known EXCEPT ![c] = Gone]
    /\ landed' = [landed EXCEPT ![c] = FALSE]
    /\ verdict' = [verdict EXCEPT ![c] = "none"]
    /\ UNCHANGED <<row, wanted>>

\* Other writers change the row, or delete it.
Others ==
    /\ row # Gone
    /\ row' \in Rows \cup {Gone}
    /\ UNCHANGED <<known, wanted, landed, verdict>>

Next ==
    \/ \E c \in Clients : Learn(c) \/ Call(c) \/ Land(c) \/ Answer(c) \/ Reset(c)
    \/ Others

Spec == Init /\ [][Next]_registerVars
=============================================================================
