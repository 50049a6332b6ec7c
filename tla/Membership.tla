----------------------------- MODULE Membership -----------------------------
(***************************************************************************)
(* Project membership (projects/membership.rs): how a full-row compare-    *)
(* and-swap is made of a SQLite transaction whose every step may fail, and *)
(* what the caller is told when COMMIT itself reports an error.            *)
(*                                                                         *)
(* Each client has a connection of its own on the same file. BEGIN         *)
(* IMMEDIATE takes the file's only write lock. The SHA-256 fingerprint of  *)
(* a row and its aliases stands for the row itself. The registry seeder    *)
(* (seed.rs), which reads and then writes the row in two separate          *)
(* statements, and other applications write the same row.                  *)
(***************************************************************************)
EXTENDS Naturals

CONSTANTS
    Clients, Repos, Rests, Stamps, Gone,   \* as in MembershipRegister
    NoClient,
    NoRepos,        \* the empty repository list
    Provisional,    \* rests of provisional projects
    Pathless,       \* rests of projects without member paths
    SeedRepos, SeedRest,    \* the project as the seed file has it
    MaxFailures,    \* bound on failing statements and processes
    MaxOthers       \* bound on the seeder's and other applications' writes

Rows == [repos : Repos, rest : Rests, stamp : Stamps]

ASSUME MembershipConstants ==
    /\ Gone \notin Rows
    /\ NoClient \notin Clients
    /\ NoRepos \in Repos /\ SeedRepos \in Repos /\ SeedRest \in Rests
    /\ MaxFailures \in Nat /\ MaxOthers \in Nat

VARIABLES
    row,        \* the committed row, or Gone
    writer,     \* the client whose connection holds the write lock
    pc,         \* "ready", "called", "locked", "updated", "unsure", "unusable"
    known,      \* known[c]: the snapshot c has, its fingerprint
    wanted,     \* wanted[c]: the repositories c asks for
    intended,   \* intended[c]: the row as c's UPDATE leaves it
    landed,     \* landed[c]: c's current call was committed (history)
    verdict,    \* verdict[c]: what c's last call returned
    seeding,    \* the seeder has read an unclaimed row and will write it
    failures, others

vars == <<row, writer, pc, known, wanted, intended, landed, verdict, seeding,
          failures, others>>

Verdicts == {"none", "pending", "applied", "unchanged", "conflict", "notFound",
             "unavailable", "unknown", "unusable"}

Init ==
    /\ row \in Rows
    /\ writer = NoClient
    /\ pc = [c \in Clients |-> "ready"]
    /\ known = [c \in Clients |-> Gone]
    /\ wanted = [c \in Clients |-> NoRepos]
    /\ intended = [c \in Clients |-> Gone]
    /\ landed = [c \in Clients |-> FALSE]
    /\ verdict = [c \in Clients |-> "none"]
    /\ seeding = FALSE
    /\ failures = 0
    /\ others = 0

-----------------------------------------------------------------------------
(* How a call ends.                                                        *)

Return(c, v) ==
    /\ verdict' = [verdict EXCEPT ![c] = v]
    /\ intended' = [intended EXCEPT ![c] = Gone]
    /\ pc' = [pc EXCEPT ![c] = IF v = "unusable" THEN "unusable" ELSE "ready"]

CanFail == failures < MaxFailures
Failed == CanFail /\ failures' = failures + 1

\* cleanup, then the answer v: ROLLBACK gives the lock back, or it fails and
\* the connection keeps the transaction.
CleanUp(c, v) ==
    \/ /\ Return(c, v)
       /\ writer' = NoClient
       /\ UNCHANGED failures
    \/ /\ Return(c, "unusable")
       /\ UNCHANGED writer
       /\ Failed

-----------------------------------------------------------------------------
(* inspect_project_membership                                              *)

Inspect(c) ==
    /\ pc[c] = "ready"
    /\ known' = [known EXCEPT ![c] = row]
    /\ UNCHANGED <<row, writer, pc, wanted, intended, landed, verdict, seeding,
                   failures, others>>

\* Its ROLLBACK fails, after the read or after a failed BEGIN DEFERRED. A
\* read transaction holds no write lock.
InspectSticks(c) ==
    /\ pc[c] = "ready"
    /\ Return(c, "unusable")
    /\ Failed
    /\ UNCHANGED <<row, writer, known, wanted, landed, seeding, others>>

-----------------------------------------------------------------------------
(* replace_project_repositories                                            *)

Call(c) ==
    /\ pc[c] = "ready" /\ known[c] # Gone
    /\ \E w \in Repos : wanted' = [wanted EXCEPT ![c] = w]
    /\ landed' = [landed EXCEPT ![c] = FALSE]
    /\ verdict' = [verdict EXCEPT ![c] = "pending"]
    /\ pc' = [pc EXCEPT ![c] = "called"]
    /\ UNCHANGED <<row, writer, known, intended, seeding, failures, others>>

\* BEGIN IMMEDIATE
Begin(c) ==
    /\ pc[c] = "called"
    /\ writer = NoClient
    /\ writer' = c
    /\ pc' = [pc EXCEPT ![c] = "locked"]
    /\ UNCHANGED <<row, known, wanted, intended, landed, verdict, seeding,
                   failures, others>>

\* The lock is not released in time, or BEGIN fails otherwise. The cleanup
\* that follows may fail as well: then the connection is in a transaction,
\* and it holds the write lock if it could take it.
BeginFails(c) ==
    /\ pc[c] = "called"
    /\ \/ /\ Return(c, "unavailable")
          /\ IF writer # NoClient THEN UNCHANGED failures ELSE Failed
          /\ UNCHANGED writer
       \/ /\ Return(c, "unusable")
          /\ Failed
          /\ writer' \in {writer} \cup (IF writer = NoClient THEN {c} ELSE {})
    /\ UNCHANGED <<row, known, wanted, landed, seeding, others>>

\* Mutant: the fingerprint covers the repositories only.
MatchesRepos(c) == row # Gone /\ row.repos = known[c].repos

\* before.fingerprint() = expected_fingerprint
Matches(c) == row # Gone /\ row = known[c]

\* Mutant: a conflict returns without cleanup.
DeclineHolding(c) ==
    /\ pc[c] = "locked"
    /\ \/ row = Gone /\ CleanUp(c, "notFound")
       \/ /\ row # Gone /\ ~Matches(c)
          /\ Return(c, "conflict") /\ UNCHANGED <<writer, failures>>
       \/ Matches(c) /\ row.repos = wanted[c] /\ CleanUp(c, "unchanged")
    /\ UNCHANGED <<row, known, wanted, landed, seeding, others>>

\* There is nothing to write.
Decline(c) ==
    /\ pc[c] = "locked"
    /\ \/ row = Gone /\ CleanUp(c, "notFound")
       \/ row # Gone /\ ~Matches(c) /\ CleanUp(c, "conflict")
       \/ Matches(c) /\ row.repos = wanted[c] /\ CleanUp(c, "unchanged")
    /\ UNCHANGED <<row, known, wanted, landed, seeding, others>>

\* The UPDATE, uncommitted: the row is read back and is as intended.
Update(c) ==
    /\ pc[c] = "locked"
    /\ Matches(c) /\ row.repos # wanted[c]
    /\ \E s \in Stamps :
         intended' = [intended EXCEPT ![c] =
                        [repos |-> wanted[c], rest |-> row.rest, stamp |-> s]]
    /\ pc' = [pc EXCEPT ![c] = "updated"]
    /\ UNCHANGED <<row, writer, known, wanted, landed, verdict, seeding,
                   failures, others>>

\* A read or the UPDATE fails, or the row read back is not as intended.
PrepareFails(c) ==
    /\ pc[c] = "locked"
    /\ CanFail
    /\ \/ /\ Return(c, "unavailable") /\ writer' = NoClient
       \/ /\ Return(c, "unusable") /\ UNCHANGED writer
    /\ failures' = failures + 1
    /\ UNCHANGED <<row, known, wanted, landed, seeding, others>>

\* Mutant: the row is replaced by one without its other columns.
LandingPartial(c) ==
    /\ row' = [repos |-> wanted[c], stamp |-> intended[c].stamp]
    /\ landed' = [landed EXCEPT ![c] = TRUE]

Landing(c) ==
    /\ row' = intended[c]
    /\ landed' = [landed EXCEPT ![c] = TRUE]

\* COMMIT succeeds.
Commit(c) ==
    /\ pc[c] = "updated"
    /\ Landing(c)
    /\ writer' = NoClient
    /\ Return(c, "applied")
    /\ UNCHANGED <<known, wanted, seeding, failures, others>>

\* COMMIT succeeds, but the connection is in a transaction again.
CommitReopens(c) ==
    /\ pc[c] = "updated"
    /\ Failed
    /\ Landing(c)
    /\ writer' \in {c, NoClient}
    /\ Return(c, "unusable")
    /\ UNCHANGED <<known, wanted, seeding, others>>

\* COMMIT reports an error, after the fact or instead of it; in the second
\* case the transaction may be open still and its ROLLBACK fail, too.
CommitFails(c) ==
    /\ pc[c] = "updated"
    /\ Failed
    /\ \/ /\ Landing(c) \/ UNCHANGED <<row, landed>>
          /\ writer' = NoClient
          /\ pc' = [pc EXCEPT ![c] = "unsure"]
          /\ UNCHANGED <<verdict, intended>>
       \/ /\ Return(c, "unusable")
          /\ UNCHANGED <<row, landed, writer>>
    /\ UNCHANGED <<known, wanted, seeding, others>>

\* What the row read after a failed COMMIT says.
Found(c) ==
    IF row = intended[c] THEN "applied"
    ELSE IF row = known[c] THEN "unavailable"
    ELSE "unknown"

Evidence(c) ==
    /\ pc[c] = "unsure"
    /\ \/ Return(c, Found(c)) /\ UNCHANGED failures
       \/ Return(c, "unknown") /\ Failed
       \/ Return(c, "unusable") /\ Failed
    /\ UNCHANGED <<row, writer, known, wanted, landed, seeding, others>>

\* The process ends, at any time, and is started again; SQLite discards its
\* transaction.
Restart(c) ==
    /\ IF pc[c] = "unusable" THEN UNCHANGED failures ELSE Failed
    /\ pc' = [pc EXCEPT ![c] = "ready"]
    /\ writer' = IF writer = c THEN NoClient ELSE writer
    /\ known' = [known EXCEPT ![c] = Gone]
    /\ intended' = [intended EXCEPT ![c] = Gone]
    /\ landed' = [landed EXCEPT ![c] = FALSE]
    /\ verdict' = [verdict EXCEPT ![c] = "none"]
    /\ UNCHANGED <<row, wanted, seeding, others>>

-----------------------------------------------------------------------------
(* Other writers.                                                          *)

\* A project that later seeds leave alone.
Claimed(r) ==
    /\ r.rest \notin Provisional
    /\ r.repos # NoRepos \/ r.rest \notin Pathless

\* ensure_seed_projects reads the project and decides to write it.
SeedRead ==
    /\ ~seeding
    /\ row # Gone /\ ~Claimed(row)
    /\ seeding' = TRUE
    /\ UNCHANGED <<row, writer, pc, known, wanted, intended, landed, verdict,
                   failures, others>>

OtherWrite ==
    /\ writer = NoClient
    /\ others < MaxOthers
    /\ others' = others + 1
    /\ UNCHANGED <<writer, pc, known, wanted, intended, landed, verdict, failures>>

\* Its UPDATE, which has no condition but the project's id.
SeedWrite ==
    /\ seeding
    /\ OtherWrite
    /\ row # Gone
    /\ \E s \in Stamps : row' = [repos |-> SeedRepos, rest |-> SeedRest, stamp |-> s]
    /\ seeding' = FALSE

\* The UPDATE finds the file locked or the row gone, or its process ends.
SeedFails ==
    /\ seeding
    /\ seeding' = FALSE
    /\ UNCHANGED <<row, writer, pc, known, wanted, intended, landed, verdict,
                   failures, others>>

\* Another application edits or deletes the project.
External ==
    /\ OtherWrite
    /\ row # Gone
    /\ \/ \E q \in Rests, s \in Stamps : row' = [row EXCEPT !.rest = q, !.stamp = s]
       \/ row' = Gone
    /\ UNCHANGED seeding

-----------------------------------------------------------------------------

Works(c) ==
    \/ Begin(c) \/ BeginFails(c) \/ Decline(c) \/ Update(c) \/ PrepareFails(c)
    \/ Commit(c) \/ CommitReopens(c) \/ CommitFails(c) \/ Evidence(c)

Next ==
    \/ \E c \in Clients :
         \/ Inspect(c) \/ InspectSticks(c) \/ Call(c) \/ Works(c) \/ Restart(c)
    \/ SeedRead \/ SeedWrite \/ SeedFails \/ External

Spec == Init /\ [][Next]_vars

-----------------------------------------------------------------------------
(* Properties                                                              *)

\* Every variable keeps its type; in particular a call's answer is one of
\* the API's, and every row is a row.
TypeOK ==
    /\ row \in Rows \cup {Gone}
    /\ writer \in Clients \cup {NoClient}
    /\ pc \in [Clients -> {"ready", "called", "locked", "updated", "unsure", "unusable"}]
    /\ known \in [Clients -> Rows \cup {Gone}]
    /\ wanted \in [Clients -> Repos]
    /\ intended \in [Clients -> Rows \cup {Gone}]
    /\ landed \in [Clients -> BOOLEAN]
    /\ verdict \in [Clients -> Verdicts]
    /\ seeding \in BOOLEAN
    /\ failures \in 0 .. MaxFailures /\ others \in 0 .. MaxOthers

\* membership.rs:90, "UnusableConnection requires retaining/quarantining": a
\* connection that keeps the write lock after its call has returned is one
\* whose caller was told so; every other error path gave the lock back.
StuckIsTold ==
    \A c \in Clients :
        writer = c /\ verdict[c] # "pending" => verdict[c] = "unusable"

\* The transactions implement the compare-and-swap register: whatever fails,
\* a call replaces only the row its caller knows, at most once, and its
\* answer is true.
Register == INSTANCE MembershipRegister
Implements == Register!Spec

\* seed.rs:192, ensure_seed "updates only unclaimed projects".
SeedsSpareClaimed == [][SeedWrite => ~Claimed(row)]_vars

-----------------------------------------------------------------------------
(* The inductive invariant: what each stage of a call has established.     *)

Stage(c) ==
    /\ pc[c] \in {"called", "locked", "updated", "unsure"} <=> verdict[c] = "pending"
    /\ pc[c] \in {"locked", "updated"} => writer = c
    /\ writer = c => pc[c] \in {"locked", "updated", "unusable"}
    /\ pc[c] = "unusable" <=> verdict[c] = "unusable"
    /\ pc[c] \in {"called", "locked", "updated"} => landed[c] = FALSE
    /\ pc[c] = "updated" => row = known[c] /\ row # Gone
    /\ pc[c] \in {"updated", "unsure"} =>
         /\ intended[c] \in Rows
         /\ intended[c].repos = wanted[c]
    /\ pc[c] = "updated" => intended[c].rest = row.rest

IInv ==
    /\ TypeOK
    /\ \A c \in Clients : Stage(c)
=============================================================================
