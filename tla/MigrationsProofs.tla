-------------------------- MODULE MigrationsProofs --------------------------
(***************************************************************************)
(* Proofs about Migrations, for every set of processes, overlapping or     *)
(* not, and every number of crashes.                                       *)
(***************************************************************************)
EXTENDS Migrations, TLAPS

LEMMA InitIInv == Init => IInv
  <1>. SUFFICES ASSUME Init PROVE IInv
    OBVIOUS
  <1>1. PICK v \in Found : \E bad \in BOOLEAN :
          file = [version |-> v, applied |-> {m \in Versions : m <= v},
                  badSlug |-> bad]
    BY DEF Init
  <1>2. file \in File /\ VersionIsBacked
    BY <1>1 DEF File, VersionIsBacked, Backed
  <1>3. TypeOK
    <2>1. crashes \in 0 .. MaxCrashes
      BY MigrationConstants DEF Init
    <2>2. /\ done \in [Procs -> Nat] /\ step \in [Procs -> Nat]
          /\ stale \in [Procs -> BOOLEAN] /\ pc \in [Procs -> States]
      BY DEF Init, States
    <2>3. view \in [Procs -> File] /\ writer \in Procs \cup {NoProc}
      BY <1>2 DEF Init
    <2>. QED  BY <1>2, <2>1, <2>2, <2>3 DEF TypeOK
  <1>4. \A p \in Procs : pc[p] = "idle" /\ writer # p
    BY MigrationConstants DEF Init
  <1>5. \A p \in Procs : Passed(p)
    BY <1>4 DEF Passed, Migrating
  <1>. QED  BY <1>2, <1>3, <1>5 DEF IInv

\* Stamping a file keeps its type and its backing, provided m is the first
\* migration after a version whose predecessors are all in the file.
LEMMA StampedSound ==
    ASSUME NEW f \in File, NEW v \in Nat, NEW m \in Versions,
           IsFirst(m, Pending(v)),
           \A k \in Versions : k <= v => k \in f.applied
    PROVE  LET g == Stamped(f, m)
           IN  /\ g \in File /\ g.version = m /\ g.applied = f.applied \cup {m}
               /\ \A k \in Versions : k <= m => k \in g.applied
  <1>. DEFINE g == Stamped(f, m)
  <1>1. g \in File /\ g.version = m /\ g.applied = f.applied \cup {m}
    BY DEF Stamped, File
  <1>2. ASSUME NEW k \in Versions, k <= m PROVE k \in f.applied \cup {m}
    <2>1. k \in Nat /\ m \in Nat
      BY DEF Versions
    <2>2. CASE k <= v
      BY <2>2
    <2>3. CASE k > v
      BY <1>2, <2>1, <2>3 DEF IsFirst, Pending
    <2>. QED  BY <2>1, <2>2, <2>3
  <1>. QED  BY <1>1, <1>2

LEMMA OpenIInv ==
    ASSUME IInv, NEW p \in Procs, Open(p)
    PROVE  IInv'
  <1>1. /\ pc[p] = "idle"
        /\ pc' = [pc EXCEPT ![p] = "between"]
        /\ done' = [done EXCEPT ![p] = file.version]
        /\ UNCHANGED <<file, writer, step, view, stale, crashes>>
    BY DEF Open
  <1>2. file.version \in Nat
    <2>1. file.version \in Found \cup Versions
      BY DEF IInv, TypeOK, File
    <2>2. Versions \subseteq Nat
      BY DEF Versions
    <2>. QED  BY <2>1, <2>2, MigrationConstants
  <1>3. TypeOK'
    BY <1>1, <1>2 DEF IInv, TypeOK, States
  <1>4. ASSUME NEW q \in Procs PROVE Passed(q)'
    <2>1. CASE q = p
      BY <1>1, <2>1 DEF IInv, TypeOK, Passed, VersionIsBacked, Backed, Migrating
    <2>2. CASE q # p
      BY <1>1, <2>2 DEF IInv, TypeOK, Passed
    <2>. QED  BY <2>1, <2>2
  <1>. QED  BY <1>1, <1>3, <1>4 DEF IInv, VersionIsBacked, Backed

LEMMA BeginIInv ==
    ASSUME IInv, NEW p \in Procs, Begin(p)
    PROVE  IInv'
  <1>1. PICK m \in Versions : /\ IsFirst(m, Pending(done[p]))
                              /\ step' = [step EXCEPT ![p] = m]
    BY DEF Begin
  <1>2. /\ pc[p] = "between"
        /\ pc' = [pc EXCEPT ![p] = "begun"]
        /\ view' = [view EXCEPT ![p] = file]
        /\ stale' = [stale EXCEPT ![p] = FALSE]
        /\ UNCHANGED <<file, writer, done, crashes>>
    BY DEF Begin
  <1>3. m \in Nat
    BY DEF Versions
  <1>4. TypeOK'
    BY <1>1, <1>2, <1>3 DEF IInv, TypeOK, States
  <1>5. ASSUME NEW q \in Procs PROVE Passed(q)'
    <2>1. CASE q = p
      BY <1>1, <1>2, <2>1 DEF IInv, TypeOK, Passed, Migrating
    <2>2. CASE q # p
      BY <1>1, <1>2, <2>2 DEF IInv, TypeOK, Passed
    <2>. QED  BY <2>1, <2>2
  <1>. QED  BY <1>2, <1>4, <1>5 DEF IInv, VersionIsBacked, Backed

LEMMA ApplyIInv ==
    ASSUME IInv, NEW p \in Procs, Apply(p)
    PROVE  IInv'
  <1>1. /\ pc[p] = "begun" /\ writer = NoProc /\ ~stale[p]
        /\ writer' = p
        /\ view' = [view EXCEPT ![p] = Stamped(view[p], step[p])]
        /\ pc' = [pc EXCEPT ![p] = "written"]
        /\ UNCHANGED <<file, done, step, stale, crashes>>
    BY DEF Apply
  <1>2. /\ view[p] = file /\ file \in File /\ done[p] \in Nat
        /\ IsFirst(step[p], Pending(done[p])) /\ step[p] \in Versions
        /\ \A m \in Versions : m <= done[p] => m \in file.applied
    BY <1>1 DEF IInv, TypeOK, Passed, Migrating
  <1>3. Stamped(view[p], step[p]) \in File
    BY <1>2, StampedSound
  <1>4. TypeOK'
    BY <1>1, <1>3 DEF IInv, TypeOK, States
  <1>5. ASSUME NEW q \in Procs PROVE Passed(q)'
    <2>1. CASE q = p
      BY <1>1, <1>2, <2>1 DEF IInv, TypeOK, Passed, Migrating
    <2>2. CASE q # p
      <3>1. pc[q] # "written"
        BY <1>1, MigrationConstants DEF IInv, Passed
      <3>. QED  BY <1>1, <2>2, <3>1 DEF IInv, TypeOK, Passed
    <2>. QED  BY <2>1, <2>2
  <1>. QED  BY <1>1, <1>4, <1>5 DEF IInv, VersionIsBacked, Backed

LEMMA CommitIInv ==
    ASSUME IInv, NEW p \in Procs, Commit(p)
    PROVE  IInv'
  <1>1. /\ pc[p] = "written"
        /\ file' = view[p]
        /\ done' = [done EXCEPT ![p] = step[p]]
        /\ writer' = NoProc
        /\ stale' = [q \in Procs |-> IF q = p THEN FALSE
                                     ELSE stale[q] \/ pc[q] = "begun"]
        /\ pc' = [pc EXCEPT ![p] = "between"]
        /\ UNCHANGED <<step, view, crashes>>
    BY DEF Commit
  <1>2. /\ writer = p /\ view[p] = Stamped(file, step[p])
        /\ file \in File /\ done[p] \in Nat
        /\ IsFirst(step[p], Pending(done[p])) /\ step[p] \in Versions
        /\ \A m \in Versions : m <= done[p] => m \in file.applied
    BY <1>1 DEF IInv, TypeOK, Passed, Migrating
  <1>3. /\ file' \in File /\ file'.version = step[p]
        /\ file.applied \subseteq file'.applied
        /\ \A k \in Versions : k <= step[p] => k \in file'.applied
    BY <1>1, <1>2, StampedSound
  <1>4. TypeOK'
    <2>1. stale' \in [Procs -> BOOLEAN]
      BY <1>1 DEF IInv, TypeOK
    <2>. QED  BY <1>1, <1>2, <1>3, <2>1 DEF IInv, TypeOK, States
  <1>5. ASSUME NEW q \in Procs PROVE Passed(q)'
    <2>1. CASE q = p
      BY <1>1, <1>3, <2>1, MigrationConstants DEF IInv, TypeOK, Passed, Migrating
    <2>2. CASE q # p
      <3>1. pc[q] # "written" /\ writer' # q
        BY <1>1, <1>2, <2>2, MigrationConstants DEF IInv, Passed
      <3>2. /\ pc'[q] = pc[q] /\ done'[q] = done[q] /\ step'[q] = step[q]
            /\ pc[q] = "begun" => stale'[q]
        BY <1>1, <2>2 DEF IInv, TypeOK
      <3>3. Passed(q)
        BY DEF IInv
      <3>4. pc[q] \in Migrating \cup {"opened"} =>
              \A m \in Versions : m <= done[q] => m \in file'.applied
        BY <1>3, <3>3 DEF Passed
      <3>. QED  BY <3>1, <3>2, <3>3, <3>4 DEF Passed
    <2>. QED  BY <2>1, <2>2
  <1>. QED  BY <1>3, <1>4, <1>5 DEF IInv, VersionIsBacked, Backed

\* The steps that only move one process out of its migration.
LEMMA LeaveIInv ==
    ASSUME IInv, NEW p \in Procs, NEW s \in {"failed", "idle", "opened"},
           pc' = [pc EXCEPT ![p] = s],
           s = "opened" => pc[p] = "between" /\ Pending(done[p]) = {},
           writer' = IF writer = p THEN NoProc ELSE writer,
           crashes' \in 0 .. MaxCrashes,
           UNCHANGED <<file, done, step, view, stale>>
    PROVE  IInv'
  <1>1. TypeOK'
    BY DEF IInv, TypeOK, States
  <1>2. ASSUME NEW q \in Procs PROVE Passed(q)'
    <2>1. CASE q = p
      <3>1. pc'[p] = s /\ writer' # p
        BY MigrationConstants DEF IInv, TypeOK
      <3>. QED  BY <2>1, <3>1 DEF IInv, Passed, Migrating
    <2>2. CASE q # p
      <3>1. pc'[q] = pc[q] /\ (writer' = q <=> writer = q)
        BY <2>2, MigrationConstants DEF IInv, TypeOK
      <3>. QED  BY <3>1 DEF IInv, Passed
    <2>. QED  BY <2>1, <2>2
  <1>. QED  BY <1>1, <1>2 DEF IInv, VersionIsBacked, Backed

LEMMA StepIInv == IInv /\ [Next]_vars => IInv'
  <1>1. ASSUME IInv, UNCHANGED vars PROVE IInv'
    BY <1>1 DEF vars, IInv, TypeOK, VersionIsBacked, Backed, Passed
  <1>2. ASSUME IInv, NEW p \in Procs, Progress(p) \/ Crash(p)
        PROVE  IInv'
    <2>0. crashes \in 0 .. MaxCrashes /\ (pc[p] = "written" <=> writer = p)
      BY <1>2 DEF IInv, TypeOK, Passed
    <2>1. CASE Open(p)    BY <1>2, <2>1, OpenIInv
    <2>2. CASE Begin(p)   BY <1>2, <2>2, BeginIInv
    <2>3. CASE Apply(p)   BY <1>2, <2>3, ApplyIInv
    <2>4. CASE Commit(p)  BY <1>2, <2>4, CommitIInv
    <2>5. CASE Fail(p)    BY <1>2, <2>0, <2>5, LeaveIInv DEF Fail
    <2>6. CASE Finish(p)  BY <1>2, <2>0, <2>6, LeaveIInv DEF Finish
    <2>7. CASE Close(p)   BY <1>2, <2>0, <2>7, LeaveIInv DEF Close
    <2>8. CASE Crash(p)
      <3>1. crashes' \in 0 .. MaxCrashes
        BY <2>0, <2>8, MigrationConstants DEF Crash
      <3>. QED  BY <1>2, <2>8, <3>1, LeaveIInv DEF Crash
    <2>. QED  BY <1>2, <2>1, <2>2, <2>3, <2>4, <2>5, <2>6, <2>7, <2>8 DEF Progress
  <1>. QED  BY <1>1, <1>2 DEF Next

-----------------------------------------------------------------------------
(* Theorems.                                                               *)

THEOREM InductiveInvariant == Spec => []IInv
  <1>. QED  BY InitIInv, StepIInv, PTL DEF Spec

\* The file never claims a migration it lacks, even when opens overlap and
\* processes crash (run_migrations commits schema and version together).
THEOREM VersionIsBackedHolds == Spec => []VersionIsBacked
  <1>1. IInv => VersionIsBacked
    BY DEF IInv
  <1>. QED  BY <1>1, InductiveInvariant, PTL

\* Whoever gets a Memory from an open has the whole schema, even when opens
\* overlap.
THEOREM OpenedIsCurrentHolds == Spec => []OpenedIsCurrent
  <1>1. IInv => OpenedIsCurrent
    <2>. SUFFICES ASSUME IInv, NEW p \in Procs, pc[p] = "opened",
                         NEW m \in Versions
                  PROVE  m \in file.applied
      BY DEF OpenedIsCurrent
    <2>1. Pending(done[p]) = {} /\ done[p] \in Nat /\ m \in Nat
      BY DEF IInv, TypeOK, Passed, Versions
    <2>2. m <= done[p]
      BY <2>1 DEF Pending
    <2>. QED  BY <2>2 DEF IInv, Passed
  <1>. QED  BY <1>1, InductiveInvariant, PTL

-----------------------------------------------------------------------------
(* Opens that do not overlap: what a second process may do to the file     *)
(* between the reading of the version and a commit is ruled out, and a     *)
(* crash at any point leaves a file that the next open can migrate.        *)

\* At most one process migrates, on the committed file, from the version that
\* is in the file.
Alone ==
    /\ \A p, q \in Procs : pc[p] \in Migrating /\ pc[q] \in Migrating => p = q
    /\ \A p \in Procs : pc[p] \in Migrating => done[p] = file.version
    /\ NextOpenCanMigrate

LEMMA InitAlone == Init => Alone
  <1>. SUFFICES ASSUME Init PROVE Alone
    OBVIOUS
  <1>1. PICK v \in Found : \E bad \in BOOLEAN :
          file = [version |-> v, applied |-> {m \in Versions : m <= v},
                  badSlug |-> bad]
    BY DEF Init
  <1>2. v \in Nat
    BY MigrationConstants
  <1>3. NextOpenCanMigrate
    BY <1>1, <1>2 DEF NextOpenCanMigrate, Pending, Versions
  <1>4. \A p \in Procs : pc[p] \notin Migrating
    BY DEF Init, Migrating
  <1>. QED  BY <1>3, <1>4 DEF Alone

\* A commit puts in the file the first migration its version had not reached.
LEMMA CommitAlone ==
    ASSUME IInv, Alone, NEW p \in Procs, Commit(p)
    PROVE  Alone'
  <1>1. /\ pc[p] = "written" /\ file' = view[p]
        /\ done' = [done EXCEPT ![p] = step[p]]
        /\ pc' = [pc EXCEPT ![p] = "between"]
    BY DEF Commit
  <1>2. /\ view[p] = Stamped(file, step[p]) /\ file \in File
        /\ IsFirst(step[p], Pending(done[p])) /\ step[p] \in Versions
        /\ done[p] = file.version
    BY <1>1 DEF IInv, TypeOK, Passed, Alone, Migrating
  <1>3. file'.version = step[p] /\ file'.applied = file.applied \cup {step[p]}
    BY <1>1, <1>2 DEF Stamped, File
  <1>4. /\ file.version \in Nat /\ step[p] \in Nat /\ step[p] > file.version
        /\ Versions \subseteq Nat
    <2>1. Versions \subseteq Nat
      BY DEF Versions
    <2>2. file.version \in Found \cup Versions
      BY <1>2 DEF File
    <2>. QED  BY <1>2, <2>1, <2>2, MigrationConstants DEF IsFirst, Pending
  <1>5. ASSUME NEW m \in Versions, m > step[p] PROVE m \notin file'.applied
    <2>1. m > file.version /\ m # step[p]
      BY <1>4, <1>5
    <2>. QED  BY <1>3, <2>1 DEF Alone, NextOpenCanMigrate, Pending
  <1>6. NextOpenCanMigrate'
    BY <1>3, <1>5 DEF NextOpenCanMigrate, Pending
  <1>7. \A q \in Procs : pc'[q] \in Migrating => q = p /\ done'[q] = step[p]
    BY <1>1 DEF IInv, TypeOK, Alone, Migrating
  <1>. QED  BY <1>3, <1>6, <1>7 DEF Alone

\* The steps that leave the file alone and start no migration.
LEMMA OtherAlone ==
    ASSUME IInv, Alone, UNCHANGED <<file, done>>,
           \A q \in Procs : pc'[q] \in Migrating => pc[q] \in Migrating
    PROVE  Alone'
  BY DEF Alone, NextOpenCanMigrate

LEMMA StepAlone == Exclusive /\ IInv /\ Alone /\ [Next]_vars => Alone'
  <1>. SUFFICES ASSUME Exclusive, IInv, Alone, [Next]_vars PROVE Alone'
    OBVIOUS
  <1>1. CASE UNCHANGED vars
    BY <1>1, OtherAlone DEF vars
  <1>2. ASSUME NEW p \in Procs, Progress(p) \/ Crash(p) PROVE Alone'
    <2>. pc \in [Procs -> States] /\ done \in [Procs -> Nat]
      BY DEF IInv, TypeOK
    <2>1. CASE Open(p)
      <3>1. /\ \A q \in Procs : pc[q] \notin Migrating
            /\ pc' = [pc EXCEPT ![p] = "between"]
            /\ done' = [done EXCEPT ![p] = file.version] /\ file' = file
        BY <2>1 DEF Open
      <3>2. \A q \in Procs : pc'[q] \in Migrating => q = p /\ done'[q] = file.version
        BY <3>1
      <3>. QED  BY <3>1, <3>2 DEF Alone, NextOpenCanMigrate
    <2>2. CASE Begin(p)
      BY <2>2, OtherAlone DEF Begin, Migrating
    <2>3. CASE Apply(p)
      BY <2>3, OtherAlone DEF Apply, Migrating
    <2>4. CASE Commit(p)
      BY <2>4, CommitAlone
    <2>5. CASE Fail(p) \/ Finish(p) \/ Close(p) \/ Crash(p)
      <3>1. /\ UNCHANGED <<file, done>>
            /\ \E s \in {"failed", "opened", "idle"} : pc' = [pc EXCEPT ![p] = s]
        BY <2>5 DEF Fail, Finish, Close, Crash
      <3>. QED  BY <3>1, OtherAlone DEF Migrating
    <2>. QED  BY <1>2, <2>1, <2>2, <2>3, <2>4, <2>5 DEF Progress
  <1>. QED  BY <1>1, <1>2 DEF Next

\* DEVELOPMENT.md:67: as long as opens do not overlap, every crash between or
\* inside the transactions leaves a file in which no migration that the next
\* open will run has been applied already (run_migrations, with the version
\* set inside each transaction).
THEOREM NextOpenCanMigrateHolds ==
    ASSUME Exclusive
    PROVE  Spec => []NextOpenCanMigrate
  <1>1. Exclusive /\ IInv /\ Alone /\ [Next]_vars => Alone'
    BY StepAlone
  <1>2. Spec => []Alone
    <2>1. IInv /\ Alone /\ [Next]_vars => Alone'
      BY <1>1
    <2>. QED  BY <2>1, InitAlone, InductiveInvariant, PTL DEF Spec
  <1>3. Alone => NextOpenCanMigrate
    BY DEF Alone
  <1>. QED  BY <1>2, <1>3, PTL
=============================================================================
