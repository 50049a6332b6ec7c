---------------------------- MODULE ServerProofs ----------------------------
(***************************************************************************)
(* Proofs about the server process: HttpShutdown, for every set of         *)
(* connections, embedder tasks and sessions, RootsCache, for every number  *)
(* of calls, changes and errors, and OAuth, for every set of clients,      *)
(* addresses and endpoints, every rate, window and lifetime of a code, and *)
(* every number of forms, grants and restarts. They share no state.        *)
(***************************************************************************)
EXTENDS HttpShutdown, RootsCache, OAuth, FiniteSetTheorems, SequenceTheorems, TLAPS

\* What a task that leaves the queue leaves behind is a queue of tasks.
LEMMA LeaveKeepsQueue ==
    ASSUME NEW t, queue \in Seq(Tasks), LeaveQueue(t)
    PROVE  queue' \in Seq(Tasks)
  <1>1. CASE UNCHANGED queue
    BY <1>1
  <1>2. CASE \E i \in DOMAIN queue : queue[i] = t /\ queue' = RemoveAt(queue, i)
    <2>1. PICK i \in DOMAIN queue : queue' = RemoveAt(queue, i)
      BY <1>2
    <2>2. i \in 1 .. Len(queue)
      BY <2>1
    <2>3. SubSeq(queue, 1, i - 1) \in Seq(Tasks)
      BY <2>2
    <2>4. SubSeq(queue, i + 1, Len(queue)) \in Seq(Tasks)
      BY <2>2
    <2>. QED  BY <2>1, <2>3, <2>4 DEF RemoveAt
  <1>. QED  BY <1>1, <1>2 DEF LeaveQueue

LEMMA InitIInv == Init => IInv
  <1>. SUFFICES ASSUME Init PROVE IInv
    OBVIOUS
  <1>1. TypeOK
    <2>1. queue \in Seq(Tasks)
      BY DEF Init
    <2>2. failures \in 0 .. MaxFailures
      BY ShutdownConstants DEF Init
    <2>3. pc \in [Tasks -> RequestStates \cup CloserStates]
      BY DEF Init, RequestStates
    <2>. QED  BY <2>1, <2>2, <2>3 DEF Init, TypeOK
  <1>2. \A t \in Tasks : pc[t] = "idle"
    BY DEF Init
  <1>3. PermitsAgree /\ NoSessionMissed
    BY <1>2 DEF Init, PermitsAgree, NoSessionMissed, Tasks
  <1>. QED  BY <1>1, <1>3 DEF Init, IInv

LEMMA TypeKept == TypeOK /\ [Next]_vars => TypeOK'
  <1>. SUFFICES ASSUME TypeOK, [Next]_vars PROVE TypeOK'
    OBVIOUS
  <1>. USE ShutdownConstants DEF TypeOK, Tasks, lockVars, RequestStates, CloserStates
  <1>1. ASSUME NEW r \in Requests, Arrive(r) PROVE TypeOK'
    BY <1>1 DEF Arrive, Goto
  <1>2. ASSUME NEW t \in Tasks, Enqueue(t) PROVE TypeOK'
    BY <1>2 DEF Enqueue, Goto
  <1>3. ASSUME NEW r \in Requests, Admit(r) PROVE TypeOK'
    <2>1. Tail(queue) \in Seq(Tasks)
      BY <1>3 DEF Admit, First
    <2>. QED  BY <1>3, <2>1 DEF Admit, Goto
  <1>4. ASSUME NEW r \in Requests, Recheck(r) PROVE TypeOK'
    BY <1>4 DEF Recheck, Goto
  <1>5. ASSUME NEW r \in Requests, Serve(r) PROVE TypeOK'
    BY <1>5 DEF Serve, Goto
  <1>6. ASSUME NEW r \in Requests, Respond(r) PROVE TypeOK'
    BY <1>6 DEF Respond, Goto
  <1>7. ASSUME NEW r \in Requests, Disconnect(r) PROVE TypeOK'
    <2>1. queue' \in Seq(Tasks)
      BY <1>7, LeaveKeepsQueue DEF Disconnect
    <2>. QED  BY <1>7, <2>1 DEF Disconnect, Goto
  <1>8. ASSUME NEW c \in Closers, CallClose(c) PROVE TypeOK'
    BY <1>8 DEF CallClose, Goto
  <1>9. ASSUME NEW c \in Closers, Exclude(c) PROVE TypeOK'
    <2>1. Tail(queue) \in Seq(Tasks)
      BY <1>9 DEF Exclude, First
    <2>. QED  BY <1>9, <2>1 DEF Exclude, Goto
  <1>10. ASSUME NEW c \in Closers, List(c) PROVE TypeOK'
    BY <1>10 DEF List, Goto
  <1>11. ASSUME NEW c \in Closers, CloseSession(c) PROVE TypeOK'
    BY <1>11 DEF CloseSession
  <1>12. ASSUME NEW c \in Closers, Fail(c) PROVE TypeOK'
    BY <1>12 DEF Fail, Goto
  <1>13. ASSUME NEW c \in Closers, Finish(c) PROVE TypeOK'
    BY <1>13 DEF Finish, Goto
  <1>14. ASSUME NEW c \in Closers, Abandon(c) PROVE TypeOK'
    <2>1. queue' \in Seq(Tasks)
      BY <1>14, LeaveKeepsQueue DEF Abandon
    <2>. QED  BY <1>14, <2>1 DEF Abandon, Goto
  <1>15. CASE RequestShutdown
    BY <1>15 DEF RequestShutdown
  <1>16. CASE SessionEnds
    BY <1>16 DEF SessionEnds
  <1>17. CASE UNCHANGED vars
    BY <1>17 DEF vars
  <1>. QED
    BY <1>1, <1>2, <1>3, <1>4, <1>5, <1>6, <1>7, <1>8, <1>9, <1>10, <1>11,
       <1>12, <1>13, <1>14, <1>15, <1>16, <1>17
       DEF Next, RequestRuns, CloserRuns

Rest == /\ PermitsAgree
        /\ NoSessionMissed
        /\ certified => cancelled /\ sessions = {} /\ NoneServing

LEMMA RestKept == IInv /\ [Next]_vars => Rest'
  <1>. SUFFICES ASSUME IInv, [Next]_vars PROVE Rest'
    OBVIOUS
  <1>. USE ShutdownConstants
       DEF IInv, Rest, TypeOK, PermitsAgree, NoSessionMissed, NoneServing, Tasks, lockVars
  <1>1. ASSUME NEW r \in Requests, Arrive(r) PROVE Rest'
    BY <1>1 DEF Arrive, Goto
  <1>2. ASSUME NEW t \in Tasks, Enqueue(t) PROVE Rest'
    BY <1>2 DEF Enqueue, Goto
  <1>3. ASSUME NEW r \in Requests, Admit(r) PROVE Rest'
    BY <1>3 DEF Admit, First, Goto
  <1>4. ASSUME NEW r \in Requests, Recheck(r) PROVE Rest'
    BY <1>4 DEF Recheck, Goto
  <1>5. ASSUME NEW r \in Requests, Serve(r) PROVE Rest'
    BY <1>5 DEF Serve, Goto
  <1>6. ASSUME NEW r \in Requests, Respond(r) PROVE Rest'
    BY <1>6 DEF Respond, Goto
  <1>7. ASSUME NEW r \in Requests, Disconnect(r) PROVE Rest'
    BY <1>7 DEF Disconnect, Goto
  <1>8. ASSUME NEW c \in Closers, CallClose(c) PROVE Rest'
    BY <1>8 DEF CallClose, Goto
  <1>9. ASSUME NEW c \in Closers, Exclude(c) PROVE Rest'
    BY <1>9 DEF Exclude, First, Goto
  <1>10. ASSUME NEW c \in Closers, List(c) PROVE Rest'
    BY <1>10 DEF List, Goto
  <1>11. ASSUME NEW c \in Closers, CloseSession(c) PROVE Rest'
    BY <1>11 DEF CloseSession
  <1>12. ASSUME NEW c \in Closers, Fail(c) PROVE Rest'
    BY <1>12 DEF Fail, Goto
  <1>13. ASSUME NEW c \in Closers, Finish(c) PROVE Rest'
    BY <1>13 DEF Finish, Goto
  <1>14. ASSUME NEW c \in Closers, Abandon(c) PROVE Rest'
    BY <1>14 DEF Abandon, Goto
  <1>15. CASE RequestShutdown
    BY <1>15 DEF RequestShutdown
  <1>16. CASE SessionEnds
    BY <1>16 DEF SessionEnds
  <1>17. CASE UNCHANGED vars
    BY <1>17 DEF vars
  <1>. QED
    BY <1>1, <1>2, <1>3, <1>4, <1>5, <1>6, <1>7, <1>8, <1>9, <1>10, <1>11,
       <1>12, <1>13, <1>14, <1>15, <1>16, <1>17
       DEF Next, RequestRuns, CloserRuns

\* The strengthened invariant of http.rs's shutdown: a closer that holds the
\* write permit excludes every request that could register a session.
THEOREM InductiveInvariant == Spec => []IInv
  <1>1. IInv /\ [Next]_vars => IInv'
    BY TypeKept, RestKept DEF IInv, Rest
  <1>. QED  BY InitIInv, <1>1, PTL DEF Spec

\* Type correctness for every number of tasks and sessions.
THEOREM TypeCorrect == Spec => []TypeOK
  BY InductiveInvariant, PTL DEF IInv

\* close_sessions (http.rs:90) never closes sessions with one unlisted.
THEOREM NoSessionMissedHolds == Spec => []NoSessionMissed
  BY InductiveInvariant, PTL DEF IInv

\* After close_sessions returned Ok no session is ever registered again.
THEOREM ClosedForGoodHolds == Spec => []ClosedForGood
  <1>1. IInv => ClosedForGood
    BY DEF IInv, ClosedForGood
  <1>. QED  BY InductiveInvariant, <1>1, PTL

-----------------------------------------------------------------------------
(* RootsCache, for every number of calls, changes and errors.              *)

LEMMA RootsInitIInv == RootsInit => RootsIInv
  <1>. SUFFICES ASSUME RootsInit PROVE RootsIInv
    OBVIOUS
  <1>1. 0 \in Versions /\ 0 \in 0 .. MaxErrors /\ 0 \in 0 .. roots
    BY RootsConstants DEF RootsInit, Versions
  <1>2. Empty \notin Versions
    BY RootsConstants DEF Versions
  <1>. QED  BY <1>1, <1>2 DEF RootsInit, RootsIInv, RootsTypeOK, CallsAreCurrent, Recent

LEMMA RootsTypeKept == RootsTypeOK /\ [RootsNext]_rootsVars => RootsTypeOK'
  <1>. SUFFICES ASSUME RootsTypeOK, [RootsNext]_rootsVars PROVE RootsTypeOK'
    OBVIOUS
  <1>. USE RootsConstants DEF RootsTypeOK, Versions
  <1>1. CASE Change
    BY <1>1 DEF Change
  <1>2. CASE Clear
    BY <1>2 DEF Clear
  <1>3. ASSUME NEW c \in Calls, Answer(c) PROVE RootsTypeOK'
    BY <1>3 DEF Answer
  <1>4. ASSUME NEW c \in Calls, Begin(c) PROVE RootsTypeOK'
    <2>1. roots - unheard \in Versions
      OBVIOUS
    <2>. QED  BY <1>4, <2>1 DEF Begin
  <1>5. ASSUME NEW c \in Calls, Hit(c) PROVE RootsTypeOK'
    BY <1>5 DEF Hit
  <1>6. ASSUME NEW c \in Calls, Ask(c) PROVE RootsTypeOK'
    BY <1>6 DEF Ask
  <1>7. ASSUME NEW c \in Calls, Store(c) PROVE RootsTypeOK'
    <2>1. memo' \in Versions \cup {Empty, Fallback}
      BY <1>7 DEF Store, Resolved
    <2>. QED  BY <1>7, <2>1 DEF Store
  <1>8. CASE UNCHANGED rootsVars
    BY <1>8 DEF rootsVars
  <1>. QED
    BY <1>1, <1>2, <1>3, <1>4, <1>5, <1>6, <1>7, <1>8 DEF RootsNext, Resolve

RootsRest ==
    /\ CallsAreCurrent
    /\ Recent(memo)
    /\ \A c \in Calls :
         /\ heard[c] <= roots - unheard
         /\ stage[c] \in {"asking", "answered"} => lock = c
         /\ stage[c] = "answered" => answer[c] # Empty /\ Recent(answer[c])

LEMMA RootsRestKept == RootsIInv /\ [RootsNext]_rootsVars => RootsRest'
  <1>. SUFFICES ASSUME RootsIInv, [RootsNext]_rootsVars PROVE RootsRest'
    OBVIOUS
  <1>. USE RootsConstants DEF RootsIInv, RootsRest, RootsTypeOK, Versions, CallsAreCurrent, Recent
  <1>1. CASE Change
    BY <1>1 DEF Change
  <1>2. CASE Clear
    BY <1>2 DEF Clear
  <1>3. ASSUME NEW c \in Calls, Answer(c) PROVE RootsRest'
    BY <1>3 DEF Answer
  <1>4. ASSUME NEW c \in Calls, Begin(c) PROVE RootsRest'
    BY <1>4 DEF Begin
  <1>5. ASSUME NEW c \in Calls, Hit(c) PROVE RootsRest'
    BY <1>5 DEF Hit
  <1>6. ASSUME NEW c \in Calls, Ask(c) PROVE RootsRest'
    BY <1>6 DEF Ask
  <1>7. ASSUME NEW c \in Calls, Store(c) PROVE RootsRest'
    BY <1>7 DEF Store, Resolved
  <1>8. CASE UNCHANGED rootsVars
    BY <1>8 DEF rootsVars
  <1>. QED
    BY <1>1, <1>2, <1>3, <1>4, <1>5, <1>6, <1>7, <1>8 DEF RootsNext, Resolve

\* What the memo holds, and every answer on its way to it, is older than the
\* client's roots by at most the unhandled notifications.
THEOREM RootsInductiveInvariant == RootsSpec => []RootsIInv
  <1>1. RootsIInv /\ [RootsNext]_rootsVars => RootsIInv'
    BY RootsTypeKept, RootsRestKept DEF RootsIInv, RootsRest
  <1>. QED  BY RootsInitIInv, <1>1, PTL DEF RootsSpec

\* Type correctness.
THEOREM RootsTypeCorrect == RootsSpec => []RootsTypeOK
  BY RootsInductiveInvariant, PTL DEF RootsIInv

\* A scoped call (server.rs:51) never uses roots older than the changes that
\* were handled before it began.
THEOREM CallsAreCurrentHolds == RootsSpec => []CallsAreCurrent
  BY RootsInductiveInvariant, PTL DEF RootsIInv

-----------------------------------------------------------------------------
(* OAuth, for every number of clients, forms, requests and restarts.       *)

Pending == [step : {"decide"}, form : FormsTried]
Approval == [form : FormsTried, at : Nat, run : Nat]
TokenPair == [by : Nat, client : Nat, resource : Resources, at : Nat, run : Nat]
LimiterWindow == [attempts : Nat, reset : Nat]

Typed ==
    /\ now \in 0 .. MaxTime
    /\ clients \in Seq(UrisTried)
    /\ forms \in [FormSlots -> {Idle} \cup Pending]
    /\ restarts \in Nat
    /\ approvals \in Seq(Approval)
    /\ grants \in Seq(TokenPair)
    /\ passed \in [Addresses -> Seq(Nat)]
    /\ DOMAIN limiter \subseteq Addresses
    /\ \A a \in DOMAIN limiter : limiter[a] \in LimiterWindow

-----------------------------------------------------------------------------
(* The rate limit                                                          *)

\* times are the attempts of one address, in order; its window has counted
\* the last of them, from first on.
FirstOf(window, times) == Len(times) - window.attempts + 1

\* The window starts with the first attempt it counts; what came before is
\* older, and what came RateMax attempts before is older by a whole window.
Counts(window, times) ==
    LET first == FirstOf(window, times)
    IN  /\ window.attempts \in 1 .. RateMax
        /\ first \in DOMAIN times
        /\ window.reset = times[first] + Window
        /\ \A i \in first .. Len(times) : times[i] <= window.reset
        /\ \A i \in 1 .. first - 1 : times[i] < times[first]
        /\ \A i \in 1 .. first - RateMax : times[first] - times[i] > Window

Past(times, t) ==
    /\ \A i \in DOMAIN times : times[i] <= t
    /\ \A i, j \in DOMAIN times : i <= j => times[i] <= times[j]

Sparse(times) ==
    \A i \in DOMAIN times :
        i + 2 * RateMax - 1 \in DOMAIN times => times[i + 2 * RateMax - 1] - times[i] > Window

WindowsCount ==
    \A a \in Addresses :
        /\ Past(passed[a], now) /\ Sparse(passed[a])
        /\ a \in DOMAIN limiter <=> passed[a] # <<>>
        /\ a \in DOMAIN limiter => Counts(limiter[a], passed[a])

-----------------------------------------------------------------------------
(* Codes and tokens                                                        *)

Issued(a) ==
    [client |-> a.form.client, challenge |-> a.form.challenge, redirect |-> a.form.redirect,
     resource |-> a.form.resource, expires |-> a.at + CodeTtl]

CodesAreIssued ==
    \A c \in DOMAIN codes :
        /\ c \in DOMAIN approvals /\ approvals[c].run = restarts
        /\ codes[c] = Issued(approvals[c])

ApprovedWithKey == \A b \in DOMAIN approvals : approvals[b].form.key

\* A redeemed code was approved and is not stored any more.
RedeemedAreGone ==
    \A i \in DOMAIN grants :
        grants[i].by # 0 => grants[i].by \in DOMAIN approvals \ DOMAIN codes

RedeemedOnce ==
    \A i, j \in DOMAIN grants : grants[i].by = grants[j].by /\ grants[i].by # 0 => i = j

Descends(i) ==
    LET g == grants[i]
    IN  /\ g.by = 0 => \E j \in 1 .. (i - 1) :
                          grants[j].client = g.client /\ grants[j].resource = g.resource
        /\ g.by # 0 => LET a == approvals[g.by]
                       IN  /\ a.form.client = g.client /\ a.form.resource = g.resource
                           /\ a.run = g.run /\ g.at <= a.at + CodeTtl

GrantsFollow ==
    /\ CodesAreIssued /\ ApprovedWithKey /\ RedeemedAreGone /\ RedeemedOnce
    /\ \A i \in DOMAIN grants : Descends(i)

\* The inductive invariant.
OAuthIInv == Typed /\ WindowsCount /\ GrantsFollow

-----------------------------------------------------------------------------

LEMMA Limits == RateMax \in Nat /\ RateMax >= 1 /\ Window \in Nat /\ CodeTtl \in Nat
  BY LimitsArePositive

\* One more attempt in a window that is not full.
LEMMA AttemptInWindow ==
    ASSUME NEW times \in Seq(Nat), NEW t \in Nat, NEW window \in LimiterWindow,
           Past(times, t), Sparse(times), Counts(window, times),
           t <= window.reset, window.attempts < RateMax
    PROVE  LET more == Append(times, t)
           IN  /\ Past(more, t) /\ Sparse(more)
               /\ Counts([window EXCEPT !.attempts = @ + 1], more)
  <1>. DEFINE more == Append(times, t)
              n == Len(times)
              first == FirstOf(window, times)
              longer == [window EXCEPT !.attempts = @ + 1]
  <1>1. /\ n \in Nat /\ n = Len(times) /\ DOMAIN times = 1 .. n /\ DOMAIN more = 1 .. n + 1
        /\ more \in Seq(Nat) /\ Len(more) = n + 1
        /\ more[n + 1] = t /\ \A i \in 1 .. n : more[i] = times[i] /\ times[i] \in Nat
    OBVIOUS
  <1>2. /\ window.attempts \in 1 .. RateMax /\ first \in 1 .. n
        /\ window.reset = times[first] + Window
        /\ \A i \in first .. n : times[i] <= window.reset
        /\ \A i \in 1 .. first - 1 : times[i] < times[first]
        /\ \A i \in 1 .. first - RateMax : times[first] - times[i] > Window
    BY <1>1 DEF Counts
  <1>3. /\ longer.attempts = window.attempts + 1 /\ longer.reset = window.reset
        /\ FirstOf(longer, more) = first
    BY <1>1, <1>2, Limits DEF LimiterWindow, FirstOf
  <1>4. Past(more, t)
    BY <1>1 DEF Past
  <1>5. Counts(longer, more)
    <2>1. longer.attempts \in 1 .. RateMax
      <3>. HIDE DEF longer
      <3>. QED  BY <1>2, <1>3, Limits
    <2>2. first \in DOMAIN more /\ more[first] = times[first]
      BY <1>1, <1>2
    <2>3. \A i \in first .. n + 1 : more[i] <= window.reset
      BY <1>1, <1>2
    <2>4. \A i \in 1 .. first - 1 : more[i] < more[first]
      BY <1>1, <1>2, <2>2
    <2>5. \A i \in 1 .. first - RateMax : more[first] - more[i] > Window
      BY <1>1, <1>2, <2>2, Limits
    <2>. HIDE DEF more, first, longer
    <2>. QED  BY <1>1, <1>2, <1>3, <2>1, <2>2, <2>3, <2>4, <2>5 DEF Counts
  <1>6. Sparse(more)
    <2>. HIDE DEF more, n
    <2>. SUFFICES ASSUME NEW i \in 1 .. n + 1, i + 2 * RateMax - 1 \in 1 .. n + 1
                  PROVE  more[i + 2 * RateMax - 1] - more[i] > Window
      BY <1>1 DEF Sparse
    <2>. DEFINE j == i + 2 * RateMax - 1
    <2>0. i <= j /\ i \in Nat /\ j \in Nat
      BY Limits, <1>1
    <2>1. CASE j <= n
      <3>1. i \in DOMAIN times /\ j \in DOMAIN times
        BY <1>1, <2>0, <2>1
      <3>2. times[j] - times[i] > Window
        BY <3>1 DEF Sparse
      <3>. QED  BY <1>1, <3>1, <3>2
    <2>2. CASE j = n + 1
      <3>1. i <= first - RateMax
        BY <1>1, <1>2, <2>2, Limits DEF FirstOf, LimiterWindow
      <3>2. times[first] - times[i] > Window /\ times[first] <= t
        BY <1>1, <1>2, <3>1 DEF Past
      <3>. HIDE DEF first
      <3>0. i \in 1 .. n /\ first \in 1 .. n
        BY <1>1, <1>2, <2>0, <3>1, Limits
      <3>3. i \in 1 .. n /\ times[i] \in Nat /\ times[first] \in Nat
        BY <1>1, <3>0
      <3>4. more[i] = times[i] /\ more[j] = t
        BY <1>1, <2>2, <3>3
      <3>. QED  BY <3>2, <3>3, <3>4, Limits
    <2>. QED  BY <2>0, <2>1, <2>2, <1>1
  <1>. QED  BY <1>4, <1>5, <1>6

\* The first attempt, or the first after the end of the last window.
LEMMA AttemptOpensWindow ==
    ASSUME NEW times \in Seq(Nat), NEW t \in Nat, Past(times, t), Sparse(times),
           \/ times = <<>>
           \/ \E window \in LimiterWindow : Counts(window, times) /\ window.reset < t
    PROVE  LET more == Append(times, t)
           IN  /\ Past(more, t) /\ Sparse(more)
               /\ Counts([attempts |-> 1, reset |-> t + Window], more)
  <1>. DEFINE more == Append(times, t)
              n == Len(times)
              new == [attempts |-> 1, reset |-> t + Window]
  <1>1. /\ n \in Nat /\ n = Len(times) /\ DOMAIN times = 1 .. n /\ DOMAIN more = 1 .. n + 1
        /\ more \in Seq(Nat) /\ Len(more) = n + 1
        /\ more[n + 1] = t /\ \A i \in 1 .. n : more[i] = times[i] /\ times[i] \in Nat
    OBVIOUS
  <1>2. \A i \in 1 .. n : times[i] < t
    <2>1. CASE times = <<>>
      BY <2>1
    <2>2. ASSUME NEW window \in LimiterWindow, Counts(window, times), window.reset < t
          PROVE  \A i \in 1 .. n : times[i] < t
      <3>. DEFINE first == FirstOf(window, times)
      <3>1. /\ first \in 1 .. n /\ times[first] + Window = window.reset
            /\ \A i \in first .. n : times[i] <= window.reset
            /\ \A i \in 1 .. first - 1 : times[i] < times[first]
        BY <1>1, <2>2 DEF Counts
      <3>2. window.reset \in Nat /\ times[first] <= window.reset
        BY <1>1, <3>1, Limits DEF LimiterWindow
      <3>. HIDE DEF first, n
      <3>. QED  BY <1>1, <2>2, <3>1, <3>2
    <2>. QED  BY <2>1, <2>2
  <1>3. \A i \in 1 .. n + 1 - RateMax : t - times[i] > Window
    <2>1. CASE times = <<>>
      BY <2>1, Limits
    <2>2. ASSUME NEW window \in LimiterWindow, Counts(window, times), window.reset < t
          PROVE  \A i \in 1 .. n + 1 - RateMax : t - times[i] > Window
      <3>. DEFINE first == FirstOf(window, times)
      <3>1. /\ window.attempts \in 1 .. RateMax
            /\ first \in 1 .. n /\ times[first] + Window = window.reset
            /\ \A i \in 1 .. first - 1 : times[i] < times[first]
        BY <1>1, <2>2 DEF Counts
      <3>2. \A i \in 1 .. n + 1 - RateMax : i <= first
        BY <1>1, <3>1, Limits DEF FirstOf
      <3>. HIDE DEF first, n
      <3>3. ASSUME NEW i \in 1 .. n + 1 - RateMax
            PROVE  t - times[i] > Window
        <4>1. i \in 1 .. first /\ i \in 1 .. n
          BY <1>1, <3>1, <3>2, Limits
        <4>2. times[i] <= times[first]
          BY <1>1, <3>1, <4>1
        <4>3. /\ times[i] \in Nat /\ times[first] \in Nat
              /\ times[first] + Window < t
          BY <1>1, <2>2, <3>1, <4>1 DEF LimiterWindow
        <4>. QED  BY <4>2, <4>3, Limits
      <3>. QED  BY <3>3
    <2>. QED  BY <2>1, <2>2
  <1>4. Past(more, t)
    BY <1>1 DEF Past
  <1>5. Counts(new, more)
    <2>1. FirstOf(new, more) = n + 1
      BY <1>1 DEF FirstOf
    <2>2. new.attempts \in 1 .. RateMax /\ new.reset = t + Window
      BY Limits
    <2>3. more[n + 1] <= new.reset
      BY <1>1, Limits
    <2>4. \A i \in 1 .. (n + 1) - 1 : more[i] < more[n + 1]
      BY <1>1, <1>2
    <2>5. \A i \in 1 .. (n + 1) - RateMax : more[n + 1] - more[i] > Window
      BY <1>1, <1>3, Limits
    <2>. HIDE DEF more, new
    <2>. QED  BY <1>1, <2>1, <2>2, <2>3, <2>4, <2>5 DEF Counts
  <1>6. Sparse(more)
    <2>. HIDE DEF more, n
    <2>. SUFFICES ASSUME NEW i \in 1 .. n + 1, i + 2 * RateMax - 1 \in 1 .. n + 1
                  PROVE  more[i + 2 * RateMax - 1] - more[i] > Window
      BY <1>1 DEF Sparse
    <2>. DEFINE j == i + 2 * RateMax - 1
    <2>0. i <= j /\ i \in Nat /\ j \in Nat
      BY Limits, <1>1
    <2>1. CASE j <= n
      <3>1. i \in DOMAIN times /\ j \in DOMAIN times
        BY <1>1, <2>0, <2>1
      <3>2. times[j] - times[i] > Window
        BY <3>1 DEF Sparse
      <3>. QED  BY <1>1, <3>1, <3>2
    <2>2. CASE j = n + 1
      <3>1. i \in 1 .. n + 1 - RateMax /\ i \in 1 .. n
        BY <1>1, <2>2, Limits
      <3>. QED  BY <1>1, <1>3, <2>2, <3>1
    <2>. QED  BY <2>0, <2>1, <2>2, <1>1
  <1>. QED  BY <1>4, <1>5, <1>6

\* What the window counts is what its span holds.
LEMMA CountedAreInSpan ==
    ASSUME NEW times \in Seq(Nat), NEW t, Past(times, t),
           NEW window \in LimiterWindow, Counts(window, times)
    PROVE  window.attempts =
               Cardinality({i \in DOMAIN times : times[i] >= window.reset - Window})
  <1>. DEFINE n == Len(times)
              first == FirstOf(window, times)
              span == {i \in DOMAIN times : times[i] >= window.reset - Window}
  <1>1. n \in Nat /\ n = Len(times) /\ DOMAIN times = 1 .. n /\ \A i \in 1 .. n : times[i] \in Nat
    OBVIOUS
  <1>2. /\ window.attempts \in 1 .. RateMax /\ first \in 1 .. n
        /\ window.reset = times[first] + Window
        /\ \A i \in 1 .. first - 1 : times[i] < times[first]
    BY <1>1 DEF Counts
  <1>3. first = n - window.attempts + 1
    BY DEF FirstOf
  <1>4. window.reset - Window = times[first]
    BY <1>1, <1>2, Limits
  <1>. HIDE DEF n, first
  <1>5. \A i \in first .. n : times[i] >= times[first]
    BY <1>1, <1>2 DEF Past
  <1>6. span = first .. n
    BY <1>1, <1>2, <1>4, <1>5
  <1>7. Cardinality(first .. n) = n - first + 1
    BY <1>1, <1>2, FS_Interval
  <1>. HIDE DEF span
  <1>8. window.attempts = n - first + 1
    BY <1>1, <1>2, <1>3, Limits
  <1>. QED  BY <1>6, <1>7, <1>8 DEF span

-----------------------------------------------------------------------------

LEMMA OAuthInitIInv == OAuthInit => OAuthIInv
  <1>. SUFFICES ASSUME OAuthInit PROVE OAuthIInv
    OBVIOUS
  <1>1. Typed
    BY LimitsArePositive DEF OAuthInit, Typed
  <1>2. WindowsCount
    BY DEF OAuthInit, WindowsCount, Past, Sparse
  <1>3. GrantsFollow
    BY DEF OAuthInit, GrantsFollow, CodesAreIssued, ApprovedWithKey, RedeemedAreGone, RedeemedOnce
  <1>. QED  BY <1>1, <1>2, <1>3 DEF OAuthIInv

\* Types: forms and windows ...
LEMMA SubmitTyped ==
    ASSUME Typed, NEW r \in FormSlots, NEW f \in FormsTried, Submit(r, f)
    PROVE  Typed'
  <1>1. f.address \in Addresses
    BY FormsAreTyped DEF Form
  <1>2. UNCHANGED <<now, clients, codes, restarts, approvals, grants>>
    BY DEF Submit
  <1>3. now \in Nat
    BY LimitsArePositive DEF Typed
  <1>4. CASE Limited(f.address)
    BY <1>2, <1>4 DEF Submit, Typed
  <1>5. CASE ~Limited(f.address)
    <2>1. forms' \in [FormSlots -> {Idle} \cup Pending]
      <3>1. [step |-> "decide", form |-> f] \in Pending
        BY DEF Pending
      <3>. QED  BY <1>5, <3>1 DEF Submit, Typed
    <2>2. passed' \in [Addresses -> Seq(Nat)]
      <3>1. Append(passed[f.address], now) \in Seq(Nat)
        BY <1>1, <1>3 DEF Typed
      <3>2. passed' = [passed EXCEPT ![f.address] = Append(@, now)]
        BY <1>5 DEF Submit
      <3>. QED  BY <3>1, <3>2 DEF Typed
    <2>3. Counted(f.address) \in LimiterWindow
      <3>1. CASE InWindow(f.address)
        <4>1. limiter[f.address] \in LimiterWindow
          BY <3>1 DEF InWindow, Typed
        <4>. QED  BY <3>1, <4>1 DEF Counted, LimiterWindow
      <3>2. CASE ~InWindow(f.address)
        BY <1>3, <3>2, Limits DEF Counted, LimiterWindow
      <3>. QED  BY <3>1, <3>2
    <2>4. limiter' = Put(limiter, f.address, Counted(f.address))
      BY <1>5 DEF Submit
    <2>. HIDE DEF LimiterWindow
    <2>5. /\ DOMAIN limiter' \subseteq Addresses
          /\ \A a \in DOMAIN limiter' : limiter'[a] \in LimiterWindow
      BY <1>1, <2>3, <2>4 DEF Put, Typed
    <2>. QED  BY <1>2, <2>1, <2>2, <2>5 DEF Typed
  <1>. QED  BY <1>4, <1>5

\* ... codes and tokens.
LEMMA DecideTyped ==
    ASSUME Typed, NEW r \in FormSlots, Decide(r)
    PROVE  Typed'
  <1>1. UNCHANGED <<now, clients, limiter, restarts, passed, grants>>
    BY DEF Decide
  <1>2. forms' \in [FormSlots -> {Idle} \cup Pending]
    BY DEF Decide, Typed
  <1>3. forms[r] \in Pending
    BY DEF Decide, Typed, Idle
  <1>. DEFINE entry == [form |-> forms[r].form, at |-> now, run |-> restarts]
  <1>4. entry \in Approval
    BY <1>3, LimitsArePositive DEF Typed, Pending, Approval
  <1>5. approvals' = approvals \/ approvals' = Append(approvals, entry)
    BY DEF Decide
  <1>. HIDE DEF Approval, entry
  <1>6. approvals' \in Seq(Approval)
    <2>1. approvals \in Seq(Approval)
      BY DEF Typed
    <2>. QED  BY <1>4, <1>5, <2>1
  <1>. QED  BY <1>1, <1>2, <1>6 DEF Typed

LEMMA GrantTyped ==
    ASSUME Typed, NEW by \in Nat, NEW client \in DOMAIN clients, NEW resource \in Resources,
           Grant(by, client, resource)
    PROVE  grants' \in Seq(TokenPair)
  <1>1. client \in Nat /\ now \in Nat
    BY LimitsArePositive DEF Typed
  <1>2. [by |-> by, client |-> client, resource |-> resource, at |-> now, run |-> restarts]
          \in TokenPair
    BY <1>1 DEF Typed, TokenPair
  <1>. HIDE DEF TokenPair
  <1>. QED  BY <1>2 DEF Grant, Typed

LEMMA RedeemTyped ==
    ASSUME Typed, CodesAreIssued, NEW code \in DOMAIN codes, NEW client \in DOMAIN clients,
           NEW u, NEW v, NEW resource \in Resources, NEW host,
           Redeem(code, client, u, v, resource, host)
    PROVE  Typed'
  <1>1. UNCHANGED <<now, clients, limiter, forms, restarts, approvals, passed>>
    BY DEF Redeem
  <1>2. code \in Nat
    BY DEF CodesAreIssued, Typed
  <1>3. grants' \in Seq(TokenPair)
    <2>1. CASE Grant(code, client, resource)
      BY <1>2, <2>1, GrantTyped
    <2>2. CASE UNCHANGED grants
      BY <2>2 DEF Typed
    <2>. QED  BY <2>1, <2>2 DEF Redeem
  <1>. QED  BY <1>1, <1>3 DEF Typed

LEMMA TypedKept == OAuthIInv /\ [OAuthNext]_oauthVars => Typed'
  <1>. SUFFICES ASSUME OAuthIInv, [OAuthNext]_oauthVars PROVE Typed'
    OBVIOUS
  <1>. Typed /\ CodesAreIssued
    BY DEF OAuthIInv, GrantsFollow
  <1>1. CASE Register
    BY <1>1 DEF Register, Typed
  <1>2. ASSUME NEW r \in FormSlots, NEW f \in FormsTried, Submit(r, f) PROVE Typed'
    BY <1>2, SubmitTyped
  <1>3. ASSUME NEW r \in FormSlots, Decide(r) PROVE Typed'
    BY <1>3, DecideTyped
  <1>4. ASSUME NEW client \in DOMAIN clients, NEW resource \in Resources, NEW host \in Resources,
               NEW code \in DOMAIN codes, NEW u \in Uris, NEW v \in Verifiers,
               Redeem(code, client, u, v, resource, host)
        PROVE  Typed'
    BY <1>4, RedeemTyped
  <1>5. ASSUME NEW client \in DOMAIN clients, NEW resource \in Resources, NEW host \in Resources,
               NEW token \in Handed, Refresh(token, client, resource, host)
        PROVE  Typed'
    <2>1. grants' \in Seq(TokenPair)
      BY <1>5, GrantTyped DEF Refresh
    <2>. QED  BY <1>5, <2>1 DEF Refresh, Typed
  <1>6. CASE Tick
    BY <1>6, LimitsArePositive DEF Tick, Typed
  <1>7. CASE Restart
    BY <1>7 DEF Restart, Typed
  <1>8. CASE UNCHANGED oauthVars
    BY <1>8 DEF oauthVars, Typed
  <1>. QED  BY <1>1, <1>2, <1>3, <1>4, <1>5, <1>6, <1>7, <1>8 DEF OAuthNext

-----------------------------------------------------------------------------

\* What a form adds to the window of its address; the others stay.
LEMMA SubmitCounts ==
    ASSUME Typed, WindowsCount, NEW r \in FormSlots, NEW f \in FormsTried, Submit(r, f)
    PROVE  WindowsCount'
  <1>. DEFINE b == f.address
  <1>1. b \in Addresses
    BY FormsAreTyped DEF Form
  <1>2. now' = now /\ now \in Nat
    BY LimitsArePositive DEF Submit, Typed
  <1>3. CASE Limited(b)
    BY <1>2, <1>3 DEF Submit, WindowsCount
  <1>4. CASE ~Limited(b)
    <2>. DEFINE times == passed[b]
    <2>1. times \in Seq(Nat) /\ Past(times, now) /\ Sparse(times)
      BY <1>1 DEF Typed, WindowsCount
    <2>2. /\ limiter' = Put(limiter, b, Counted(b))
          /\ passed' = [passed EXCEPT ![b] = Append(@, now)]
      BY <1>4 DEF Submit
    <2>3. /\ DOMAIN limiter' = DOMAIN limiter \cup {b} /\ limiter'[b] = Counted(b)
          /\ passed'[b] = Append(times, now)
          /\ \A a \in DOMAIN limiter \ {b} : limiter'[a] = limiter[a]
          /\ \A a \in Addresses \ {b} : passed'[a] = passed[a]
      BY <1>1, <2>2 DEF Put, Typed
    <2>4. ASSUME NEW a \in Addresses \ {b}
          PROVE  /\ Past(passed'[a], now) /\ Sparse(passed'[a])
                 /\ a \in DOMAIN limiter' <=> passed'[a] # <<>>
                 /\ a \in DOMAIN limiter' => Counts(limiter'[a], passed'[a])
      BY <2>3 DEF WindowsCount
    <2>5. b \in DOMAIN limiter => Counts(limiter[b], times) /\ limiter[b] \in LimiterWindow
      BY <1>1 DEF WindowsCount, Typed
    <2>6. Past(passed'[b], now) /\ Sparse(passed'[b]) /\ Counts(limiter'[b], passed'[b])
      <3>1. CASE InWindow(b)
        <4>1. now <= limiter[b].reset /\ b \in DOMAIN limiter
          BY <3>1 DEF InWindow
        <4>2. limiter[b].attempts < RateMax
          BY <1>4, <2>5, <3>1, <4>1, Limits DEF Limited, LimiterWindow
        <4>3. Counted(b) = [limiter[b] EXCEPT !.attempts = @ + 1]
          BY <3>1 DEF Counted
        <4>. HIDE DEF times, b
        <4>. QED  BY <1>2, <2>1, <2>3, <2>5, <4>1, <4>2, <4>3, AttemptInWindow
      <3>2. CASE ~InWindow(b)
        <4>1. Counted(b) = [attempts |-> 1, reset |-> now + Window]
          BY <3>2 DEF Counted
        <4>2. CASE b \in DOMAIN limiter
          <5>1. limiter[b].reset < now
            BY <1>2, <2>5, <3>2, <4>2 DEF InWindow, LimiterWindow
          <5>. HIDE DEF times, b
          <5>. QED  BY <1>2, <2>1, <2>3, <2>5, <4>1, <4>2, <5>1, AttemptOpensWindow
        <4>3. CASE b \notin DOMAIN limiter
          <5>1. times = <<>>
            BY <1>1, <4>3 DEF WindowsCount
          <5>. HIDE DEF times, b
          <5>. QED  BY <1>2, <2>1, <2>3, <4>1, <5>1, AttemptOpensWindow
        <4>. QED  BY <4>2, <4>3
      <3>. QED  BY <3>1, <3>2
    <2>7. b \in DOMAIN limiter' /\ passed'[b] # <<>>
      <3>1. Append(times, now) # <<>>
        BY <1>2, <2>1
      <3>. QED  BY <2>3, <3>1
    <2>. HIDE DEF b, times
    <2>. QED  BY <1>2, <2>4, <2>6, <2>7 DEF WindowsCount, Past, Sparse, Counts, FirstOf
  <1>. QED  BY <1>3, <1>4

LEMMA WindowsKept == OAuthIInv /\ [OAuthNext]_oauthVars => WindowsCount'
  <1>. SUFFICES ASSUME OAuthIInv, [OAuthNext]_oauthVars PROVE WindowsCount'
    OBVIOUS
  <1>. Typed /\ WindowsCount
    BY DEF OAuthIInv
  <1>1. CASE UNCHANGED <<now, limiter, passed>>
    BY <1>1 DEF WindowsCount
  <1>2. ASSUME NEW r \in FormSlots, NEW f \in FormsTried, Submit(r, f) PROVE WindowsCount'
    BY <1>2, SubmitCounts
  <1>3. CASE Tick
    <2>1. UNCHANGED <<limiter, passed>> /\ now' = now + 1 /\ now \in Nat
      BY <1>3, LimitsArePositive DEF Tick, Typed
    <2>2. \A a \in Addresses : passed[a] \in Seq(Nat)
      BY DEF Typed
    <2>3. \A a \in Addresses : Past(passed[a], now)'
      BY <2>1, <2>2 DEF WindowsCount, Past
    <2>. QED  BY <2>1, <2>3 DEF WindowsCount
  <1>4. CASE Restart
    BY <1>4 DEF Restart, WindowsCount, Past, Sparse
  <1>5. CASE Register
    BY <1>1, <1>5 DEF Register
  <1>6. ASSUME NEW r \in FormSlots, Decide(r) PROVE WindowsCount'
    BY <1>1, <1>6 DEF Decide
  <1>7. ASSUME NEW client, NEW resource, NEW host, NEW code, NEW u, NEW v,
               Redeem(code, client, u, v, resource, host)
        PROVE  WindowsCount'
    BY <1>1, <1>7 DEF Redeem
  <1>8. ASSUME NEW client, NEW resource, NEW host, NEW token,
               Refresh(token, client, resource, host)
        PROVE  WindowsCount'
    BY <1>1, <1>8 DEF Refresh
  <1>9. CASE UNCHANGED oauthVars
    BY <1>1, <1>9 DEF oauthVars
  <1>. QED  BY <1>2, <1>3, <1>4, <1>5, <1>6, <1>7, <1>8, <1>9 DEF OAuthNext

-----------------------------------------------------------------------------

\* The tokens of before keep their places and descend from the same grants.
LEMMA GrantAppends ==
    ASSUME NEW g, grants \in Seq(TokenPair), g \in TokenPair, grants' = Append(grants, g)
    PROVE  /\ Len(grants) \in Nat /\ DOMAIN grants = 1 .. Len(grants)
           /\ DOMAIN grants' = 1 .. Len(grants) + 1
           /\ grants'[Len(grants) + 1] = g
           /\ \A i \in DOMAIN grants : grants'[i] = grants[i]
  <1>. HIDE DEF TokenPair
  <1>. QED  OBVIOUS

LEMMA DescentKept ==
    ASSUME NEW i \in DOMAIN grants, Descends(i), DOMAIN grants = 1 .. Len(grants),
           Len(grants) \in Nat,
           \A j \in DOMAIN grants : grants'[j] = grants[j],
           grants[i].by # 0 => approvals'[grants[i].by] = approvals[grants[i].by]
    PROVE  Descends(i)'
  <1>1. \A j \in 1 .. i - 1 : j \in DOMAIN grants
    OBVIOUS
  <1>. QED  BY <1>1 DEF Descends

\* A new approval gives a code that no grant knows.
LEMMA DecideFollows ==
    ASSUME Typed, GrantsFollow, NEW r \in FormSlots, Decide(r)
    PROVE  GrantsFollow'
  <1>. DEFINE n == Len(approvals)
              entry == [form |-> forms[r].form, at |-> now, run |-> restarts]
  <1>1. UNCHANGED <<restarts, grants>>
    BY DEF Decide
  <1>2. approvals \in Seq(Approval) /\ n \in Nat /\ DOMAIN approvals = 1 .. n
    BY DEF Typed
  <1>3. CASE UNCHANGED <<codes, approvals>>
    BY <1>1, <1>3 DEF GrantsFollow, CodesAreIssued, ApprovedWithKey, RedeemedAreGone,
                      RedeemedOnce, Descends
  <1>4. CASE ~UNCHANGED <<codes, approvals>>
    <2>1. /\ approvals' = Append(approvals, entry)
          /\ codes' = Put(codes, n + 1, Issued(entry))
      BY <1>4 DEF Decide, Issued
    <2>2. entry.form.key
      BY <1>4 DEF Decide
    <2>3. /\ DOMAIN approvals' = 1 .. n + 1 /\ approvals'[n + 1] = entry
          /\ \A b \in 1 .. n : approvals'[b] = approvals[b]
      BY <1>2, <2>1
    <2>4. /\ DOMAIN codes' = DOMAIN codes \cup {n + 1} /\ codes'[n + 1] = Issued(entry)
          /\ \A c \in DOMAIN codes : c # n + 1 => codes'[c] = codes[c]
      BY <2>1 DEF Put
    <2>5. \A c \in DOMAIN codes : /\ c \in 1 .. n /\ approvals[c].run = restarts
                                 /\ codes[c] = Issued(approvals[c])
      BY <1>2 DEF GrantsFollow, CodesAreIssued
    <2>6. entry.run = restarts
      OBVIOUS
    <2>. HIDE DEF entry, n
    <2>7. CodesAreIssued'
      <3>. SUFFICES ASSUME NEW c \in DOMAIN codes'
                    PROVE  /\ c \in DOMAIN approvals' /\ approvals'[c].run = restarts'
                           /\ codes'[c] = Issued(approvals'[c])
        BY DEF CodesAreIssued, Issued
      <3>1. CASE c = n + 1
        BY <1>1, <1>2, <2>3, <2>4, <2>6, <3>1
      <3>2. CASE c \in DOMAIN codes
        BY <1>1, <1>2, <2>3, <2>4, <2>5, <3>2
      <3>. QED  BY <2>4, <3>1, <3>2
    <2>8. ApprovedWithKey'
      <3>. SUFFICES ASSUME NEW b \in 1 .. n + 1 PROVE approvals'[b].form.key
        BY <2>3 DEF ApprovedWithKey
      <3>1. CASE b = n + 1
        BY <2>2, <2>3, <3>1
      <3>2. CASE b \in 1 .. n
        BY <1>2, <2>3, <3>2 DEF GrantsFollow, ApprovedWithKey
      <3>. QED  BY <1>2, <3>1, <3>2
    <2>9. RedeemedAreGone' /\ RedeemedOnce'
      BY <1>1, <1>2, <2>3, <2>4 DEF GrantsFollow, RedeemedAreGone, RedeemedOnce
    <2>10. \A i \in DOMAIN grants' : Descends(i)'
      <3>1. \A i \in DOMAIN grants : grants[i].by # 0 => grants[i].by \in 1 .. n
        BY <1>2 DEF GrantsFollow, RedeemedAreGone
      <3>. QED  BY <1>1, <2>3, <3>1 DEF GrantsFollow, Descends
    <2>. QED  BY <2>7, <2>8, <2>9, <2>10 DEF GrantsFollow
  <1>. QED  BY <1>3, <1>4

\* A grant for a code takes the code away, whether it succeeds or not.
LEMMA RedeemFollows ==
    ASSUME Typed, GrantsFollow, NEW code \in DOMAIN codes, NEW client \in DOMAIN clients,
           NEW u, NEW v, NEW resource \in Resources, NEW host,
           Redeem(code, client, u, v, resource, host)
    PROVE  GrantsFollow'
  <1>1. UNCHANGED <<now, clients, restarts, approvals>> /\ codes' = Drop(codes, code)
    BY DEF Redeem, Left
  <1>2. /\ DOMAIN codes' = DOMAIN codes \ {code}
        /\ \A c \in DOMAIN codes \ {code} : codes'[c] = codes[c]
    BY <1>1 DEF Drop
  <1>3. /\ code \in DOMAIN approvals /\ approvals[code].run = restarts
        /\ codes[code] = Issued(approvals[code])
    BY DEF GrantsFollow, CodesAreIssued
  <1>4. code \in Nat \ {0}
    BY <1>3 DEF Typed
  <1>5. CodesAreIssued' /\ ApprovedWithKey'
    BY <1>1, <1>2 DEF GrantsFollow, CodesAreIssued, ApprovedWithKey, Issued
  <1>6. CASE UNCHANGED grants
    <2>1. RedeemedAreGone' /\ RedeemedOnce'
      BY <1>1, <1>2, <1>6 DEF GrantsFollow, RedeemedAreGone, RedeemedOnce
    <2>2. \A i \in DOMAIN grants' : Descends(i)'
      BY <1>1, <1>6 DEF GrantsFollow, Descends
    <2>. QED  BY <1>5, <2>1, <2>2 DEF GrantsFollow
  <1>7. CASE Grant(code, client, resource) /\ now <= codes[code].expires
    <2>. DEFINE n == Len(grants)
                g == [by |-> code, client |-> client, resource |-> resource,
                      at |-> now, run |-> restarts]
    <2>1. grants' = Append(grants, g) /\ grants \in Seq(TokenPair)
      BY <1>7 DEF Grant, Typed
    <2>2. g \in TokenPair
      BY <1>4, LimitsArePositive DEF Typed, TokenPair
    <2>. HIDE DEF g, n
    <2>3. /\ n \in Nat /\ DOMAIN grants = 1 .. n /\ DOMAIN grants' = 1 .. n + 1
          /\ grants'[n + 1] = g /\ \A i \in 1 .. n : grants'[i] = grants[i]
      BY <2>1, <2>2, GrantAppends DEF n
    <2>4. g.by = code /\ g.client = client /\ g.resource = resource
          /\ g.at = now /\ g.run = restarts
      BY DEF g
    <2>5. \A i \in 1 .. n : grants[i].by # 0 => grants[i].by \in DOMAIN approvals \ DOMAIN codes
      BY <2>3 DEF GrantsFollow, RedeemedAreGone
    <2>6. RedeemedAreGone'
      <3>. SUFFICES ASSUME NEW i \in 1 .. n + 1, grants'[i].by # 0
                    PROVE  grants'[i].by \in DOMAIN approvals \ DOMAIN codes'
        BY <1>1, <2>3 DEF RedeemedAreGone
      <3>1. CASE i = n + 1
        BY <1>2, <1>3, <2>3, <2>4, <3>1
      <3>2. CASE i \in 1 .. n
        BY <1>2, <2>3, <2>5, <3>2
      <3>. QED  BY <2>3, <3>1, <3>2
    <2>7. RedeemedOnce'
      <3>. SUFFICES ASSUME NEW i \in 1 .. n + 1, NEW j \in 1 .. n + 1,
                           grants'[i].by = grants'[j].by, grants'[i].by # 0
                    PROVE  i = j
        BY <2>3 DEF RedeemedOnce
      <3>1. CASE i \in 1 .. n /\ j \in 1 .. n
        BY <2>3, <3>1 DEF GrantsFollow, RedeemedOnce
      <3>2. CASE i = n + 1 /\ j \in 1 .. n
        BY <1>3, <2>3, <2>4, <2>5, <3>2
      <3>3. CASE i \in 1 .. n /\ j = n + 1
        BY <1>3, <2>3, <2>4, <2>5, <3>3
      <3>. QED  BY <2>3, <3>1, <3>2, <3>3
    <2>8. \A i \in 1 .. n : Descends(i)'
      BY <1>1, <2>3, DescentKept DEF GrantsFollow, n
    <2>9. ASSUME NEW i \in DOMAIN grants' PROVE Descends(i)'
      <3>1. CASE i \in 1 .. n
        BY <2>8, <3>1
      <3>2. CASE i = n + 1
        <4>1. codes[code].client = client /\ codes[code].resource = resource
          BY DEF Redeem
        <4>2. /\ approvals[code].form.client = client
              /\ approvals[code].form.resource = resource
              /\ now <= approvals[code].at + CodeTtl
          BY <1>3, <1>7, <4>1 DEF Issued
        <4>3. grants'[i] = g
          BY <2>3, <3>2
        <4>. QED  BY <1>1, <1>3, <1>4, <2>4, <4>2, <4>3 DEF Descends
      <3>. QED  BY <2>3, <3>1, <3>2
    <2>. QED  BY <1>5, <2>6, <2>7, <2>9 DEF GrantsFollow
  <1>. QED  BY <1>6, <1>7 DEF Redeem

\* A refresh token that was handed out names a grant to its client.
LEMMA RefreshFollows ==
    ASSUME Typed, GrantsFollow, NEW client \in DOMAIN clients, NEW resource \in Resources,
           NEW host, NEW token \in Handed, Refresh(token, client, resource, host)
    PROVE  GrantsFollow'
  <1>. DEFINE n == Len(grants)
              g == [by |-> 0, client |-> client, resource |-> resource,
                    at |-> now, run |-> restarts]
  <1>1. UNCHANGED <<now, clients, codes, restarts, approvals>>
    BY DEF Refresh
  <1>2. grants' = Append(grants, g) /\ grants \in Seq(TokenPair)
    BY DEF Refresh, Grant, Typed
  <1>3. g \in TokenPair
    BY LimitsArePositive DEF Typed, TokenPair
  <1>4. PICK k \in DOMAIN grants : grants[k].client = client /\ grants[k].resource = resource
    BY DEF Refresh, Handed, AccessToken, RefreshToken
  <1>. HIDE DEF g, n
  <1>5. /\ n \in Nat /\ DOMAIN grants = 1 .. n /\ DOMAIN grants' = 1 .. n + 1
        /\ grants'[n + 1] = g /\ \A i \in 1 .. n : grants'[i] = grants[i]
    BY <1>2, <1>3, GrantAppends DEF n
  <1>6. g.by = 0 /\ g.client = client /\ g.resource = resource
    BY DEF g
  <1>7. CodesAreIssued' /\ ApprovedWithKey'
    BY <1>1 DEF GrantsFollow, CodesAreIssued, ApprovedWithKey, Issued
  <1>8. RedeemedAreGone'
    <2>. SUFFICES ASSUME NEW i \in 1 .. n + 1, grants'[i].by # 0
                  PROVE  grants'[i].by \in DOMAIN approvals \ DOMAIN codes
      BY <1>1, <1>5 DEF RedeemedAreGone
    <2>1. i \in 1 .. n
      BY <1>5, <1>6
    <2>. QED  BY <1>5, <2>1 DEF GrantsFollow, RedeemedAreGone
  <1>9. RedeemedOnce'
    <2>. SUFFICES ASSUME NEW i \in 1 .. n + 1, NEW j \in 1 .. n + 1,
                         grants'[i].by = grants'[j].by, grants'[i].by # 0
                  PROVE  i = j
      BY <1>5 DEF RedeemedOnce
    <2>1. i \in 1 .. n /\ j \in 1 .. n
      BY <1>5, <1>6
    <2>. QED  BY <1>5, <2>1 DEF GrantsFollow, RedeemedOnce
  <1>10. \A i \in 1 .. n : Descends(i)'
    BY <1>1, <1>5, DescentKept DEF GrantsFollow, n
  <1>11. ASSUME NEW i \in DOMAIN grants' PROVE Descends(i)'
    <2>1. CASE i \in 1 .. n
      BY <1>10, <2>1
    <2>2. CASE i = n + 1
      <3>1. grants'[i] = g /\ grants'[k] = grants[k] /\ k \in 1 .. i - 1
        BY <1>4, <1>5, <2>2
      <3>. QED  BY <1>4, <1>6, <3>1 DEF Descends
    <2>. QED  BY <1>5, <2>1, <2>2
  <1>. QED  BY <1>7, <1>8, <1>9, <1>11 DEF GrantsFollow

LEMMA GrantsKept == OAuthIInv /\ [OAuthNext]_oauthVars => GrantsFollow'
  <1>. SUFFICES ASSUME OAuthIInv, [OAuthNext]_oauthVars PROVE GrantsFollow'
    OBVIOUS
  <1>. Typed /\ GrantsFollow
    BY DEF OAuthIInv
  <1>1. CASE UNCHANGED <<codes, restarts, approvals, grants>>
    BY <1>1 DEF GrantsFollow, CodesAreIssued, ApprovedWithKey, RedeemedAreGone,
                RedeemedOnce, Descends
  <1>2. CASE Register
    BY <1>1, <1>2 DEF Register
  <1>3. ASSUME NEW r \in FormSlots, NEW f \in FormsTried, Submit(r, f) PROVE GrantsFollow'
    BY <1>1, <1>3 DEF Submit
  <1>4. ASSUME NEW r \in FormSlots, Decide(r) PROVE GrantsFollow'
    BY <1>4, DecideFollows
  <1>5. ASSUME NEW client \in DOMAIN clients, NEW resource \in Resources, NEW host \in Resources,
               NEW code \in DOMAIN codes, NEW u \in Uris, NEW v \in Verifiers,
               Redeem(code, client, u, v, resource, host)
        PROVE  GrantsFollow'
    BY <1>5, RedeemFollows
  <1>6. ASSUME NEW client \in DOMAIN clients, NEW resource \in Resources, NEW host \in Resources,
               NEW token \in Handed, Refresh(token, client, resource, host)
        PROVE  GrantsFollow'
    BY <1>6, RefreshFollows
  <1>7. CASE Tick
    BY <1>1, <1>7 DEF Tick
  <1>8. CASE Restart
    <2>1. codes' = <<>> /\ UNCHANGED <<approvals, grants>>
      BY <1>8 DEF Restart
    <2>2. DOMAIN codes' = {}
      BY <2>1
    <2>. QED  BY <2>1, <2>2 DEF GrantsFollow, CodesAreIssued, ApprovedWithKey, RedeemedAreGone,
                                RedeemedOnce, Descends
  <1>9. CASE UNCHANGED oauthVars
    BY <1>1, <1>9 DEF oauthVars
  <1>. QED  BY <1>2, <1>3, <1>4, <1>5, <1>6, <1>7, <1>8, <1>9 DEF OAuthNext

-----------------------------------------------------------------------------

LEMMA StepIInv == OAuthIInv /\ [OAuthNext]_oauthVars => OAuthIInv'
  BY TypedKept, WindowsKept, GrantsKept DEF OAuthIInv

\* The invariant holds in every reachable state.
THEOREM OAuthIInvAlways == OAuthSpec => []OAuthIInv
  BY OAuthInitIInv, StepIInv, PTL DEF OAuthSpec

\* Every stored code is what an approval of this process asked for, and every
\* window has counted exactly the forms that passed in its span, RateMax at
\* most.
THEOREM OAuthTypeCorrect == OAuthSpec => []OAuthTypeOK
  <1>1. OAuthIInv => OAuthTypeOK
    <2>. SUFFICES ASSUME OAuthIInv PROVE OAuthTypeOK
      OBVIOUS
    <2>. USE DEF OAuthIInv
    <2>1. \A r \in FormSlots :
            forms[r] = Idle \/ (forms[r].step = "decide" /\ forms[r].form \in FormsTried)
      BY DEF Typed, Pending
    <2>2. DOMAIN limiter = {a \in Addresses : passed[a] # <<>>}
      BY DEF Typed, WindowsCount
    <2>3. ASSUME NEW a \in DOMAIN limiter
          PROVE  /\ limiter[a].attempts \in 1 .. RateMax
                 /\ limiter[a].attempts =
                      Cardinality({i \in DOMAIN passed[a] :
                                     passed[a][i] >= limiter[a].reset - Window})
      <3>1. /\ passed[a] \in Seq(Nat) /\ Past(passed[a], now)
            /\ limiter[a] \in LimiterWindow /\ Counts(limiter[a], passed[a])
        BY DEF Typed, WindowsCount
      <3>2. limiter[a].attempts \in 1 .. RateMax
        BY <3>1 DEF Counts
      <3>. QED  BY <3>1, <3>2, CountedAreInSpan
    <2>4. \A c \in DOMAIN codes :
            /\ c \in DOMAIN approvals /\ approvals[c].run = restarts
            /\ codes[c] = Issued(approvals[c])
      BY DEF GrantsFollow, CodesAreIssued
    <2>5. now \in 0 .. MaxTime /\ clients \in Seq(UrisTried)
      BY DEF Typed
    <2>. QED  BY <2>1, <2>2, <2>3, <2>4, <2>5 DEF OAuthTypeOK, Issued
  <1>. QED  BY <1>1, OAuthIInvAlways, PTL

\* Every pair of tokens descends from one approval with the operator's key,
\* for the same client and endpoint, redeemed once, in time, by the process
\* that approved it, through any number of refreshes and restarts.
THEOREM TokensDescend == OAuthSpec => []GrantsDescend
  <1>1. OAuthIInv => GrantsDescend
    <2>. SUFFICES ASSUME Typed, GrantsFollow PROVE GrantsDescend
      BY DEF OAuthIInv
    <2>1. ASSUME NEW i \in DOMAIN grants
          PROVE  LET g == grants[i]
                 IN  IF g.by = 0
                     THEN \E j \in 1..(i - 1) :
                              grants[j].client = g.client /\ grants[j].resource = g.resource
                     ELSE LET a == approvals[g.by]
                          IN  /\ a.form.key
                              /\ a.form.client = g.client /\ a.form.resource = g.resource
                              /\ a.run = g.run /\ g.at <= a.at + CodeTtl
      <3>1. Descends(i)
        BY DEF GrantsFollow
      <3>2. CASE grants[i].by = 0
        BY <3>1, <3>2 DEF Descends
      <3>3. CASE grants[i].by # 0
        <4>1. approvals[grants[i].by].form.key
          BY <3>3 DEF GrantsFollow, RedeemedAreGone, ApprovedWithKey
        <4>. QED  BY <3>1, <3>3, <4>1 DEF Descends
      <3>. QED  BY <3>2, <3>3
    <2>2. ASSUME NEW token \in Handed, NEW host \in Resources, Admits(token, host)
          PROVE  \E i \in DOMAIN grants : grants[i].resource = host
      BY <2>2 DEF Admits, OperatorKey, Handed, AccessToken, RefreshToken
    <2>. QED  BY <2>1, <2>2 DEF GrantsDescend, GrantsFollow, RedeemedOnce
  <1>. QED  BY <1>1, OAuthIInvAlways, PTL

\* Fewer than 2 * RateMax attempts of an address in any span of a window's
\* length, wherever the windows begin.
THEOREM AttemptsStayFew == OAuthSpec => []AttemptsAreFew
  <1>1. OAuthIInv => AttemptsAreFew
    BY DEF OAuthIInv, WindowsCount, Sparse, AttemptsAreFew
  <1>. QED  BY <1>1, OAuthIInvAlways, PTL
=============================================================================
