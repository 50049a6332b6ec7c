-------------------------- MODULE MembershipProofs --------------------------
(***************************************************************************)
(* Proofs about Membership: the transactions implement the register, for   *)
(* every set of clients, rows and time stamps, and any number of failures. *)
(***************************************************************************)
EXTENDS Membership, TLAPS

LEMMA InitIInv == Init => IInv
  <1>. SUFFICES ASSUME Init PROVE IInv
    OBVIOUS
  <1>1. failures \in 0 .. MaxFailures /\ others \in 0 .. MaxOthers
    BY MembershipConstants DEF Init
  <1>2. TypeOK
    BY <1>1, MembershipConstants DEF Init, TypeOK, Verdicts
  <1>3. ASSUME NEW c \in Clients PROVE Stage(c)
    BY <1>3, MembershipConstants DEF Init, Stage
  <1>. QED  BY <1>2, <1>3 DEF IInv

LEMMA TypeKept == TypeOK /\ [Next]_vars => TypeOK'
  <1>. SUFFICES ASSUME TypeOK, [Next]_vars PROVE TypeOK'
    OBVIOUS
  <1>. USE MembershipConstants DEF TypeOK, Verdicts, Rows
  <1>1. ASSUME NEW c \in Clients, Inspect(c) PROVE TypeOK'
    BY <1>1 DEF Inspect
  <1>2. ASSUME NEW c \in Clients, InspectSticks(c) PROVE TypeOK'
    BY <1>2 DEF InspectSticks, Return, Failed, CanFail
  <1>3. ASSUME NEW c \in Clients, Call(c) PROVE TypeOK'
    BY <1>3 DEF Call
  <1>4. ASSUME NEW c \in Clients, Begin(c) PROVE TypeOK'
    BY <1>4 DEF Begin
  <1>5. ASSUME NEW c \in Clients, BeginFails(c) PROVE TypeOK'
    BY <1>5 DEF BeginFails, Return, Failed, CanFail
  <1>6. ASSUME NEW c \in Clients, Decline(c) PROVE TypeOK'
    BY <1>6 DEF Decline, CleanUp, Return, Failed, CanFail, Matches
  <1>7. ASSUME NEW c \in Clients, Update(c) PROVE TypeOK'
    BY <1>7 DEF Update, Matches
  <1>8. ASSUME NEW c \in Clients, PrepareFails(c) PROVE TypeOK'
    BY <1>8 DEF PrepareFails, Return, CanFail
  <1>9. ASSUME NEW c \in Clients, Commit(c) PROVE TypeOK'
    BY <1>9 DEF Commit, Landing, Return
  <1>10. ASSUME NEW c \in Clients, CommitReopens(c) PROVE TypeOK'
    BY <1>10 DEF CommitReopens, Landing, Return, Failed, CanFail
  <1>11. ASSUME NEW c \in Clients, CommitFails(c) PROVE TypeOK'
    <2>1. row' \in Rows \cup {Gone} /\ landed' \in [Clients -> BOOLEAN]
      BY <1>11 DEF CommitFails, Landing
    <2>2. failures' \in 0 .. MaxFailures
      BY <1>11 DEF CommitFails, Failed, CanFail
    <2>3. /\ writer' \in Clients \cup {NoClient}
          /\ verdict' \in [Clients -> Verdicts]
          /\ intended' \in [Clients -> Rows \cup {Gone}]
          /\ pc' \in [Clients -> {"ready", "called", "locked", "updated",
                                  "unsure", "unusable"}]
      BY <1>11 DEF CommitFails, Return
    <2>. QED  BY <1>11, <2>1, <2>2, <2>3 DEF CommitFails
  <1>12. ASSUME NEW c \in Clients, Evidence(c) PROVE TypeOK'
    BY <1>12 DEF Evidence, Return, Found, Failed, CanFail
  <1>13. ASSUME NEW c \in Clients, Restart(c) PROVE TypeOK'
    BY <1>13 DEF Restart, Failed, CanFail
  <1>14. CASE SeedRead
    BY <1>14 DEF SeedRead
  <1>15. CASE SeedWrite
    <2>1. row' \in Rows
      BY <1>15 DEF SeedWrite
    <2>2. others' \in 0 .. MaxOthers
      BY <1>15 DEF SeedWrite, OtherWrite
    <2>. QED  BY <1>15, <2>1, <2>2 DEF SeedWrite, OtherWrite
  <1>16. CASE SeedFails
    BY <1>16 DEF SeedFails
  <1>17. CASE External
    <2>1. row' \in Rows \cup {Gone}
      BY <1>17 DEF External
    <2>2. OtherWrite /\ UNCHANGED seeding
      BY <1>17 DEF External
    <2>3. others' \in 0 .. MaxOthers
      BY <2>2 DEF OtherWrite
    <2>. QED  BY <2>1, <2>2, <2>3 DEF OtherWrite
  <1>18. CASE UNCHANGED vars
    BY <1>18 DEF vars
  <1>. QED
    BY <1>1, <1>2, <1>3, <1>4, <1>5, <1>6, <1>7, <1>8, <1>9, <1>10, <1>11, <1>12, <1>13, <1>14, <1>15, <1>16, <1>17, <1>18 DEF Next, Works

Stages == \A c \in Clients : Stage(c)

LEMMA StagesKept == IInv /\ [Next]_vars => Stages'
  <1>. SUFFICES ASSUME IInv, [Next]_vars PROVE Stages'
    OBVIOUS
  <1>. USE MembershipConstants DEF IInv, Stages, Stage, TypeOK, Verdicts
  <1>1. ASSUME NEW c \in Clients, Inspect(c) PROVE Stages'
    BY <1>1 DEF Inspect
  <1>2. ASSUME NEW c \in Clients, InspectSticks(c) PROVE Stages'
    BY <1>2 DEF InspectSticks, Return, Failed, CanFail
  <1>3. ASSUME NEW c \in Clients, Call(c) PROVE Stages'
    BY <1>3 DEF Call
  <1>4. ASSUME NEW c \in Clients, Begin(c) PROVE Stages'
    BY <1>4 DEF Begin
  <1>5. ASSUME NEW c \in Clients, BeginFails(c) PROVE Stages'
    BY <1>5 DEF BeginFails, Return, Failed, CanFail
  <1>6. ASSUME NEW c \in Clients, Decline(c) PROVE Stages'
    BY <1>6 DEF Decline, CleanUp, Return, Failed, CanFail, Matches
  <1>7. ASSUME NEW c \in Clients, Update(c) PROVE Stages'
    <2>1. row \in Rows /\ row = known[c]
      BY <1>7 DEF Update, Matches
    <2>2. PICK s \in Stamps :
            intended' = [intended EXCEPT ![c] =
                           [repos |-> wanted[c], rest |-> row.rest, stamp |-> s]]
      BY <1>7 DEF Update
    <2>3. /\ intended'[c] \in Rows
          /\ intended'[c].repos = wanted[c]
          /\ intended'[c].rest = row.rest
      BY <2>1, <2>2 DEF Rows
    <2>4. \A d \in Clients \ {c} : intended'[d] = intended[d]
      BY <2>2
    <2>5. Stage(c)'
      BY <1>7, <2>1, <2>3 DEF Update
    <2>6. ASSUME NEW d \in Clients, d # c PROVE Stage(d)'
      BY <1>7, <2>4, <2>6 DEF Update
    <2>7. ASSUME NEW d \in Clients PROVE Stage(d)'
      <3>1. CASE d = c
        BY <2>5, <3>1
      <3>2. CASE d # c
        BY <2>6, <3>2
      <3>. QED  BY <3>1, <3>2
    <2>. QED  BY <2>7
  <1>8. ASSUME NEW c \in Clients, PrepareFails(c) PROVE Stages'
    BY <1>8 DEF PrepareFails, Return, CanFail
  <1>9. ASSUME NEW c \in Clients, Commit(c) PROVE Stages'
    BY <1>9 DEF Commit, Landing, Return
  <1>10. ASSUME NEW c \in Clients, CommitReopens(c) PROVE Stages'
    BY <1>10 DEF CommitReopens, Landing, Return, Failed, CanFail
  <1>11. ASSUME NEW c \in Clients, CommitFails(c) PROVE Stages'
    BY <1>11 DEF CommitFails, Landing, Return, Failed, CanFail
  <1>12. ASSUME NEW c \in Clients, Evidence(c) PROVE Stages'
    BY <1>12 DEF Evidence, Return, Found, Failed, CanFail
  <1>13. ASSUME NEW c \in Clients, Restart(c) PROVE Stages'
    BY <1>13 DEF Restart, Failed, CanFail
  <1>14. CASE SeedRead
    BY <1>14 DEF SeedRead
  <1>15. CASE SeedWrite
    BY <1>15 DEF SeedWrite, OtherWrite
  <1>16. CASE SeedFails
    BY <1>16 DEF SeedFails
  <1>17. CASE External
    BY <1>17 DEF External, OtherWrite
  <1>18. CASE UNCHANGED vars
    BY <1>18 DEF vars
  <1>. QED
    BY <1>1, <1>2, <1>3, <1>4, <1>5, <1>6, <1>7, <1>8, <1>9, <1>10, <1>11, <1>12, <1>13, <1>14, <1>15, <1>16, <1>17, <1>18 DEF Next, Works

\* IInv is an invariant: each stage of a call has established what the next
\* one relies on.
THEOREM InductiveInvariant == Spec => []IInv
  <1>1. IInv /\ [Next]_vars => IInv'
    BY TypeKept, StagesKept DEF IInv, Stages
  <1>. QED  BY <1>1, InitIInv, PTL DEF Spec

\* Type correctness.
THEOREM TypeCorrect == Spec => []TypeOK
  BY InductiveInvariant, PTL DEF IInv

\* A connection that keeps the write lock is one whose caller was told so.
THEOREM StuckIsToldHolds == Spec => []StuckIsTold
  <1>1. IInv => StuckIsTold
    BY DEF IInv, Stage, StuckIsTold
  <1>. QED  BY <1>1, InductiveInvariant, PTL

-----------------------------------------------------------------------------
(* The refinement: every step of a transaction is a step of the register   *)
(* or leaves it as it is.                                                  *)

Same == UNCHANGED <<row, known, wanted, landed, verdict>>

\* The committed UPDATE replaces the repositories of the row c knows.
LEMMA LandingReplaces ==
    ASSUME IInv, NEW c \in Clients, pc[c] = "updated"
    PROVE  /\ intended[c] \in Register!Replacing(row, wanted[c])
           /\ verdict[c] = "pending" /\ ~landed[c]
           /\ row = known[c] /\ row # Gone
  <1>1. /\ row = known[c] /\ row # Gone
        /\ intended[c] \in Rows
        /\ intended[c].repos = wanted[c]
        /\ intended[c].rest = row.rest
    BY DEF IInv, Stage
  <1>2. intended[c] = [repos |-> intended[c].repos, rest |-> intended[c].rest,
                       stamp |-> intended[c].stamp]
        /\ intended[c].stamp \in Stamps
    BY <1>1 DEF Rows
  <1>3. intended[c] \in Register!Replacing(row, wanted[c])
    BY <1>1, <1>2 DEF Register!Replacing
  <1>4. verdict[c] = "pending" /\ ~landed[c]
    BY DEF IInv, Stage
  <1>. QED  BY <1>1, <1>3, <1>4

\* What a call returns is true when it returns.
LEMMA AnswerIsTruthful ==
    ASSUME IInv, NEW c \in Clients, NEW v \in Register!Truthful(c),
           pc[c] \in {"called", "locked", "updated", "unsure"},
           Return(c, v), UNCHANGED <<row, known, wanted, landed>>
    PROVE  Register!Answer(c)
  <1>1. verdict[c] = "pending"
    BY DEF IInv, Stage
  <1>. QED  BY <1>1 DEF Register!Answer, Return

\* What cleanup leaves to say is the answer or that the connection is stuck.
LEMMA CleanUpAnswers ==
    ASSUME IInv, NEW c \in Clients, NEW v \in Register!Truthful(c),
           pc[c] = "locked", CleanUp(c, v), UNCHANGED <<row, known, wanted, landed>>
    PROVE  Register!Answer(c)
  <1>1. "unusable" \in Register!Truthful(c)
    BY DEF Register!Truthful
  <1>. QED  BY <1>1, AnswerIsTruthful DEF CleanUp

\* Every step of Membership is a step of the register or a stutter.
LEMMA StepSimulates == IInv /\ IInv' /\ [Next]_vars => Register!Next \/ Same
  <1>. SUFFICES ASSUME IInv, IInv', [Next]_vars PROVE Register!Next \/ Same
    OBVIOUS
  <1>. USE DEF Same
  <1>1. ASSUME NEW c \in Clients, Inspect(c) PROVE Register!Learn(c)
    BY <1>1 DEF Inspect, Register!Learn, IInv, Stage
  <1>2. ASSUME NEW c \in Clients, InspectSticks(c) PROVE Register!Learn(c)
    BY <1>2 DEF InspectSticks, Return, Register!Learn, IInv, Stage
  <1>3. ASSUME NEW c \in Clients, Call(c) PROVE Register!Call(c)
    BY <1>3 DEF Call, Register!Call, IInv, Stage
  <1>4. ASSUME NEW c \in Clients, Begin(c) PROVE Same
    BY <1>4 DEF Begin
  <1>5. ASSUME NEW c \in Clients, BeginFails(c) PROVE Register!Answer(c)
    <2>1. {"unavailable", "unusable"} \subseteq Register!Truthful(c)
      BY <1>5 DEF BeginFails, Register!Truthful, IInv, Stage
    <2>. QED  BY <1>5, <2>1, AnswerIsTruthful DEF BeginFails
  <1>6. ASSUME NEW c \in Clients, Decline(c) PROVE Register!Answer(c)
    <2>0. ~landed[c] /\ pc[c] = "locked" /\ UNCHANGED <<row, known, wanted, landed>>
      BY <1>6 DEF Decline, IInv, Stage
    <2>1. CASE row = Gone /\ CleanUp(c, "notFound")
      <3>1. "notFound" \in Register!Truthful(c)
        BY <2>0, <2>1 DEF Register!Truthful
      <3>. QED  BY <2>0, <2>1, <3>1, CleanUpAnswers
    <2>2. CASE row # Gone /\ ~Matches(c) /\ CleanUp(c, "conflict")
      <3>1. "conflict" \in Register!Truthful(c)
        BY <2>0, <2>2 DEF Register!Truthful, Matches
      <3>. QED  BY <2>0, <2>2, <3>1, CleanUpAnswers
    <2>3. CASE Matches(c) /\ row.repos = wanted[c] /\ CleanUp(c, "unchanged")
      <3>1. "unchanged" \in Register!Truthful(c)
        BY <2>0, <2>3 DEF Register!Truthful, Matches
      <3>. QED  BY <2>0, <2>3, <3>1, CleanUpAnswers
    <2>. QED  BY <1>6, <2>1, <2>2, <2>3 DEF Decline
  <1>7. ASSUME NEW c \in Clients, Update(c) PROVE Same
    BY <1>7 DEF Update
  <1>8. ASSUME NEW c \in Clients, PrepareFails(c) PROVE Register!Answer(c)
    <2>1. {"unavailable", "unusable"} \subseteq Register!Truthful(c)
      BY <1>8 DEF PrepareFails, Register!Truthful, IInv, Stage
    <2>. QED  BY <1>8, <2>1, AnswerIsTruthful DEF PrepareFails
  <1>9. ASSUME NEW c \in Clients, Commit(c) PROVE Register!Land(c)
    BY <1>9, LandingReplaces DEF Commit, Landing, Return, Register!Land
  <1>10. ASSUME NEW c \in Clients, CommitReopens(c) PROVE Register!Land(c)
    BY <1>10, LandingReplaces DEF CommitReopens, Landing, Return, Register!Land
  <1>11. ASSUME NEW c \in Clients, CommitFails(c)
         PROVE  Register!Land(c) \/ Register!Answer(c) \/ Same
    <2>1. CASE Landing(c) /\ UNCHANGED verdict
      <3>1. verdict' = [verdict EXCEPT ![c] = "pending"]
        BY <1>11, <2>1, LandingReplaces DEF CommitFails, IInv, TypeOK
      <3>. QED
        BY <1>11, <2>1, <3>1, LandingReplaces DEF CommitFails, Landing, Register!Land
    <2>2. CASE UNCHANGED <<row, landed, verdict>>
      BY <1>11, <2>2 DEF CommitFails
    <2>3. CASE Return(c, "unusable") /\ UNCHANGED <<row, landed, writer>>
      <3>1. "unusable" \in Register!Truthful(c)
        BY DEF Register!Truthful
      <3>. QED  BY <1>11, <2>3, <3>1, AnswerIsTruthful DEF CommitFails
    <2>. QED  BY <1>11, <2>1, <2>2, <2>3 DEF CommitFails
  <1>12. ASSUME NEW c \in Clients, Evidence(c) PROVE Register!Answer(c)
    <2>1. {"unknown", "unusable"} \subseteq Register!Truthful(c)
      BY DEF Register!Truthful
    <2>2. Found(c) \in Register!Truthful(c)
      <3>1. intended[c] \in Rows /\ intended[c].repos = wanted[c]
        BY <1>12 DEF Evidence, IInv, Stage
      <3>2. row = intended[c] => row # Gone /\ row.repos = wanted[c]
        BY <3>1, MembershipConstants
      <3>. QED  BY <3>2 DEF Found, Register!Truthful
    <2>. QED  BY <1>12, <2>1, <2>2, AnswerIsTruthful DEF Evidence
  <1>13. ASSUME NEW c \in Clients, Restart(c) PROVE Register!Reset(c)
    BY <1>13 DEF Restart, Register!Reset
  <1>14. CASE SeedRead
    BY <1>14 DEF SeedRead
  <1>15. CASE SeedWrite
    BY <1>15 DEF SeedWrite, OtherWrite, Register!Others, Register!Next, IInv, TypeOK,
       Rows, Register!Rows
  <1>16. CASE SeedFails
    BY <1>16 DEF SeedFails
  <1>17. CASE External
    BY <1>17 DEF External, OtherWrite, Register!Others, Register!Next, IInv, TypeOK,
       Rows, Register!Rows
  <1>18. CASE UNCHANGED vars
    BY <1>18 DEF vars
  <1>. QED
    BY <1>1, <1>2, <1>3, <1>4, <1>5, <1>6, <1>7, <1>8, <1>9, <1>10, <1>11, <1>12,
       <1>13, <1>14, <1>15, <1>16, <1>17, <1>18 DEF Next, Works, Register!Next

\* The transactions implement the compare-and-swap register, whatever fails
\* and whoever else writes the row.
THEOREM Refinement == Spec => Implements
  <1>1. Init => Register!Init
    BY MembershipConstants DEF Init, Register!Init, Rows, Register!Rows
  <1>2. IInv /\ IInv' /\ [Next]_vars => [Register!Next]_(Register!registerVars)
    BY StepSimulates DEF Same, Register!registerVars
  <1>. QED  BY <1>1, <1>2, InductiveInvariant, PTL DEF Spec, Implements, Register!Spec

=============================================================================
