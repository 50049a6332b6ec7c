----------------------------- MODULE Migrations -----------------------------
(***************************************************************************)
(* Schema migration at open (migrations.rs, db.rs).                        *)
(*                                                                         *)
(* Opening the database reads user_version once, outside any transaction,  *)
(* and then runs every later migration, each in a deferred transaction of  *)
(* its own that also writes the version. Any error rolls that migration    *)
(* back and the open fails. A process may die between or inside the        *)
(* transactions, and other processes may open the same file meanwhile;     *)
(* Exclusive rules the second out, to separate the two hazards.            *)
(***************************************************************************)
EXTENDS Naturals, FiniteSets

CONSTANTS
    Procs,      \* processes that open the database
    NoProc,
    Exclusive,  \* TRUE: no two processes migrate at the same time
    Found,      \* the versions a file may have at first
    MaxCrashes  \* bound on the number of crashes

ASSUME MigrationConstants ==
    /\ NoProc \notin Procs
    /\ Exclusive \in BOOLEAN
    /\ Found \subseteq Nat
    /\ MaxCrashes \in Nat

\* MIGRATIONS: 12 .. 17 belong to another application's schema.
Versions == 1 .. 11 \cup {18}

CurrentVersion == 18

\* The migrations whose statements succeed on a file that already has their
\* effect. The others add a column, which SQLite refuses to do twice.
Rerunnable == {1, 2, 5, 7, 9, 10, 18}

\* The file: its user_version, the migrations whose schema is in it, and
\* whether a legacy project slug has no canonical identity (v8 refuses it).
File == [version : Found \cup Versions, applied : SUBSET Versions, badSlug : BOOLEAN]

VARIABLES
    file,       \* the committed file
    writer,     \* the process that holds the write lock, or NoProc
    pc,         \* "idle", "between", "begun", "written", "opened", "failed"
    done,       \* done[p]: the version p read, then the last one it committed
    step,       \* step[p]: the migration p is running
    view,       \* view[p]: the file as p's transaction sees it
    stale,      \* stale[p]: another process committed after p's snapshot
    crashes

vars == <<file, writer, pc, done, step, view, stale, crashes>>

States == {"idle", "between", "begun", "written", "opened", "failed"}
Migrating == {"between", "begun", "written"}

Init ==
    /\ \E v \in Found, bad \in BOOLEAN :
         /\ bad => v < 8
         /\ file = [version |-> v, applied |-> {m \in Versions : m <= v},
                    badSlug |-> bad]
    /\ writer = NoProc
    /\ pc = [p \in Procs |-> "idle"]
    /\ done = [p \in Procs |-> 0]
    /\ step = [p \in Procs |-> 0]
    /\ view = [p \in Procs |-> file]
    /\ stale = [p \in Procs |-> FALSE]
    /\ crashes = 0

\* Mutant: the filter keeps the version already reached.
PendingAtLeast(v) == {m \in Versions : m >= v}

\* Mutant: the filter drops the version after the one reached.
PendingSkips(v) == {m \in Versions : m > v + 1}

Pending(v) == {m \in Versions : m > v}

IsFirst(m, S) == m \in S /\ \A k \in S : m <= k

\* run_migrations: read the version.
Open(p) ==
    /\ pc[p] = "idle"
    /\ Exclusive => \A q \in Procs : pc[q] \notin Migrating
    /\ pc' = [pc EXCEPT ![p] = "between"]
    /\ done' = [done EXCEPT ![p] = file.version]
    /\ UNCHANGED <<file, writer, step, view, stale, crashes>>

\* BEGIN and the first read of the next migration.
Begin(p) ==
    /\ pc[p] = "between"
    /\ \E m \in Versions :
         /\ IsFirst(m, Pending(done[p]))
         /\ step' = [step EXCEPT ![p] = m]
    /\ pc' = [pc EXCEPT ![p] = "begun"]
    /\ view' = [view EXCEPT ![p] = file]
    /\ stale' = [stale EXCEPT ![p] = FALSE]
    /\ UNCHANGED <<file, writer, done, crashes>>

\* The statements of migration m would fail on this file.
Refused(f, m) ==
    \/ m \in f.applied /\ m \notin Rerunnable
    \/ m = 8 /\ f.badSlug

Stamped(f, m) == [f EXCEPT !.applied = @ \cup {m}, !.version = m]

\* The migration and set_schema_version succeed.
Apply(p) ==
    /\ pc[p] = "begun"
    /\ ~Refused(view[p], step[p])
    /\ writer = NoProc /\ ~stale[p]
    /\ writer' = p
    /\ view' = [view EXCEPT ![p] = Stamped(@, step[p])]
    /\ pc' = [pc EXCEPT ![p] = "written"]
    /\ UNCHANGED <<file, done, step, stale, crashes>>

\* A statement is refused, or the snapshot is out of date, or the lock is not
\* released in time: ROLLBACK, and the open fails.
Fail(p) ==
    /\ pc[p] = "begun"
    /\ Refused(view[p], step[p]) \/ writer # NoProc \/ stale[p]
    /\ pc' = [pc EXCEPT ![p] = "failed"]
    /\ UNCHANGED <<file, writer, done, step, view, stale, crashes>>

\* Mutant: the version is committed before the schema.
CommitVersionFirst(p) ==
    /\ pc[p] = "written"
    /\ file' = IF file.version = step[p] THEN view[p]
               ELSE [file EXCEPT !.version = step[p]]
    /\ pc' = [pc EXCEPT ![p] = IF file.version = step[p] THEN "between" ELSE @]
    /\ done' = [done EXCEPT ![p] = IF file.version = step[p] THEN step[p] ELSE @]
    /\ writer' = IF file.version = step[p] THEN NoProc ELSE writer
    /\ UNCHANGED <<step, view, stale, crashes>>

\* Mutant: the schema is committed before the version.
CommitSchemaFirst(p) ==
    /\ pc[p] = "written"
    /\ file' = IF step[p] \in file.applied THEN view[p]
               ELSE [file EXCEPT !.applied = @ \cup {step[p]}]
    /\ pc' = [pc EXCEPT ![p] = IF step[p] \in file.applied THEN "between" ELSE @]
    /\ done' = [done EXCEPT ![p] = IF step[p] \in file.applied THEN step[p] ELSE @]
    /\ writer' = IF step[p] \in file.applied THEN NoProc ELSE writer
    /\ UNCHANGED <<step, view, stale, crashes>>

Commit(p) ==
    /\ pc[p] = "written"
    /\ file' = view[p]
    /\ done' = [done EXCEPT ![p] = step[p]]
    /\ writer' = NoProc
    /\ stale' = [q \in Procs |-> IF q = p THEN FALSE
                                 ELSE stale[q] \/ pc[q] = "begun"]
    /\ pc' = [pc EXCEPT ![p] = "between"]
    /\ UNCHANGED <<step, view, crashes>>

\* Nothing is pending: the open returns.
Finish(p) ==
    /\ pc[p] = "between"
    /\ Pending(done[p]) = {}
    /\ pc' = [pc EXCEPT ![p] = "opened"]
    /\ UNCHANGED <<file, writer, done, step, view, stale, crashes>>

\* The process ends, to be started again by its client.
Close(p) ==
    /\ pc[p] \in {"opened", "failed"}
    /\ pc' = [pc EXCEPT ![p] = "idle"]
    /\ UNCHANGED <<file, writer, done, step, view, stale, crashes>>

\* The process dies while it migrates; SQLite forgets its transaction.
Crash(p) ==
    /\ pc[p] \in Migrating
    /\ crashes < MaxCrashes
    /\ crashes' = crashes + 1
    /\ writer' = IF writer = p THEN NoProc ELSE writer
    /\ pc' = [pc EXCEPT ![p] = "idle"]
    /\ UNCHANGED <<file, done, step, view, stale>>

Progress(p) ==
    \/ Open(p) \/ Begin(p) \/ Apply(p) \/ Fail(p) \/ Commit(p) \/ Finish(p)
    \/ Close(p)

Next == \E p \in Procs : Progress(p) \/ Crash(p)

\* A process keeps running its open, and its client keeps starting it again.
Fairness == \A p \in Procs : WF_vars(Progress(p))

Spec == Init /\ [][Next]_vars

FairSpec == Spec /\ Fairness

-----------------------------------------------------------------------------
(* Properties                                                              *)

\* Every variable keeps its type: in particular the file's version is one it
\* had at first or that of a migration.
TypeOK ==
    /\ file \in File
    /\ writer \in Procs \cup {NoProc}
    /\ pc \in [Procs -> States]
    /\ done \in [Procs -> Nat]
    /\ step \in [Procs -> Nat]
    /\ view \in [Procs -> File]
    /\ stale \in [Procs -> BOOLEAN]
    /\ crashes \in 0 .. MaxCrashes

Backed(f) == \A m \in Versions : m <= f.version => m \in f.applied

\* The file never claims a migration it does not have, whatever crashes or
\* other opens happen between and inside the transactions.
VersionIsBacked == Backed(file)

\* An open that returned has the whole schema, although it looked at the
\* version only once and others may have migrated meanwhile.
OpenedIsCurrent ==
    \A p \in Procs : pc[p] = "opened" => Versions \subseteq file.applied

\* DEVELOPMENT.md:67, a migration is "transactional": no migration that the
\* next open will run is in the file already, so that the open can succeed.
NextOpenCanMigrate == \A m \in Pending(file.version) : m \notin file.applied

\* A file without an impossible legacy slug ends up at the current version in
\* spite of crashes, provided opens do not overlap.
Upgraded == ~file.badSlug ~> file.version >= CurrentVersion

-----------------------------------------------------------------------------
(* The inductive invariant: a transaction without a stale snapshot works on *)
(* the committed file, and what a process has passed is in the file.       *)

Passed(p) ==
    /\ pc[p] \in Migrating \cup {"opened"} =>
         \A m \in Versions : m <= done[p] => m \in file.applied
    /\ pc[p] \in {"begun", "written"} =>
         /\ IsFirst(step[p], Pending(done[p])) /\ step[p] \in Versions
    /\ pc[p] = "begun" /\ ~stale[p] => view[p] = file
    /\ pc[p] = "written" <=> writer = p
    /\ pc[p] = "written" => view[p] = Stamped(file, step[p])
    /\ pc[p] = "opened" => Pending(done[p]) = {}

IInv ==
    /\ TypeOK
    /\ VersionIsBacked
    /\ \A p \in Procs : Passed(p)
=============================================================================
