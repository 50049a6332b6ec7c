---------------------------- MODULE HttpShutdown ----------------------------
(***************************************************************************)
(* Closing the HTTP transport (http.rs, shutdown_guard and HttpShutdown).  *)
(*                                                                         *)
(* Every request passes the guard: it looks at the cancellation token,     *)
(* waits for a read permit of the admission lock, looks again, and keeps   *)
(* the permit until its response exists. close_sessions cancels the token, *)
(* waits for the write permit, lists the registered MCP sessions and       *)
(* closes them one by one; an error ends the call early and the embedder   *)
(* calls it again. The lock is tokio's: first come, first served.          *)
(***************************************************************************)
EXTENDS Naturals, Sequences, SequencesExt

CONSTANTS
    Requests,   \* tasks that serve a connection's requests, one at a time
    Closers,    \* tasks of the embedder that call close_sessions
    NoTask,
    Sessions,   \* ids rmcp draws for sessions
    MaxFailures \* bound on calls that fail or are abandoned

ASSUME ShutdownConstants ==
    /\ NoTask \notin Requests \cup Closers
    /\ Requests \cap Closers = {}
    /\ MaxFailures \in Nat

Tasks == Requests \cup Closers

VARIABLES
    cancelled,  \* the cancellation token
    queue,      \* tasks waiting for the admission lock, in order
    readers,    \* requests that hold a read permit
    holder,     \* the closer that holds the write permit, or NoTask
    pc,         \* where each task is
    sessions,   \* the session registry
    drawn,      \* session ids used so far
    ids,        \* ids[c]: listed sessions that closer c has still to close
    failures,   \* calls that failed so far (bounds the model)
    certified   \* some close_sessions call has returned Ok (history)

lockVars == <<queue, readers, holder>>
vars == <<cancelled, lockVars, pc, sessions, drawn, ids, failures, certified>>

RequestStates == {"idle", "passed", "queued", "admitted", "serving", "served",
                  "answered", "refused", "gone"}
CloserStates == {"idle", "passed", "queued", "exclusive", "closing", "closed",
                 "failed"}

Init ==
    /\ cancelled = FALSE
    /\ queue = <<>>
    /\ readers = {}
    /\ holder = NoTask
    /\ pc = [t \in Tasks |-> "idle"]
    /\ sessions = {}
    /\ drawn = {}
    /\ ids = [c \in Closers |-> {}]
    /\ failures = 0
    /\ certified = FALSE

Goto(t, state) == pc' = [pc EXCEPT ![t] = state]

-----------------------------------------------------------------------------
(* The admission lock.                                                     *)

Enqueue(t) ==
    /\ pc[t] = "passed"
    /\ queue' = Append(queue, t)
    /\ Goto(t, "queued")
    /\ UNCHANGED <<cancelled, readers, holder, sessions, drawn, ids, failures,
                   certified>>

First(t) == pc[t] = "queued" /\ queue # <<>> /\ Head(queue) = t

\* Dropping a waiting task takes it out of the queue.
LeaveQueue(t) ==
    \/ pc[t] # "queued" /\ UNCHANGED queue
    \/ \E i \in DOMAIN queue : queue[i] = t /\ queue' = RemoveAt(queue, i)

Admit(r) ==
    /\ First(r)
    /\ holder = NoTask
    /\ queue' = Tail(queue)
    /\ readers' = readers \cup {r}
    /\ Goto(r, "admitted")
    /\ UNCHANGED <<cancelled, holder, sessions, drawn, ids, failures, certified>>

\* Mutant: close_sessions takes a read permit.
ExcludeShared(c) ==
    /\ First(c)
    /\ holder = NoTask
    /\ queue' = Tail(queue)
    /\ readers' = readers \cup {c}
    /\ Goto(c, "exclusive")
    /\ UNCHANGED <<cancelled, holder, sessions, drawn, ids, failures, certified>>

\* Mutant: close_sessions does not wait for the permits to come back.
ExcludeEarly(c) ==
    /\ First(c)
    /\ holder = NoTask
    /\ queue' = Tail(queue)
    /\ holder' = c
    /\ Goto(c, "exclusive")
    /\ UNCHANGED <<cancelled, readers, sessions, drawn, ids, failures, certified>>

Exclude(c) ==
    /\ First(c)
    /\ holder = NoTask /\ readers = {}
    /\ queue' = Tail(queue)
    /\ holder' = c
    /\ Goto(c, "exclusive")
    /\ UNCHANGED <<cancelled, readers, sessions, drawn, ids, failures, certified>>

-----------------------------------------------------------------------------
(* shutdown_guard                                                          *)

\* A request arrives; the token is looked at for the first time.
Arrive(r) ==
    /\ pc[r] \in {"idle", "answered", "refused", "gone"}
    /\ Goto(r, IF cancelled THEN "refused" ELSE "passed")
    /\ UNCHANGED <<cancelled, lockVars, sessions, drawn, ids, failures, certified>>

\* Mutant: the token is not looked at again.
RecheckNot(r) ==
    /\ pc[r] = "admitted"
    /\ Goto(r, "serving")
    /\ UNCHANGED <<cancelled, lockVars, sessions, drawn, ids, failures, certified>>

\* The second look, with the permit held.
Recheck(r) ==
    /\ pc[r] = "admitted"
    /\ IF cancelled
       THEN Goto(r, "refused") /\ readers' = readers \ {r}
       ELSE Goto(r, "serving") /\ UNCHANGED readers
    /\ UNCHANGED <<cancelled, queue, holder, sessions, drawn, ids, failures, certified>>

\* next.run: an initialize registers a new session, a DELETE closes one, any
\* other request leaves the registry alone.
Serve(r) ==
    /\ pc[r] = "serving"
    /\ Goto(r, "served")
    /\ \/ \E s \in Sessions \ drawn :
            sessions' = sessions \cup {s} /\ drawn' = drawn \cup {s}
       \/ \E s \in sessions : sessions' = sessions \ {s} /\ UNCHANGED drawn
       \/ UNCHANGED <<sessions, drawn>>
    /\ UNCHANGED <<cancelled, lockVars, ids, failures, certified>>

Respond(r) ==
    /\ pc[r] = "served"
    /\ Goto(r, "answered")
    /\ readers' = readers \ {r}
    /\ UNCHANGED <<cancelled, queue, holder, sessions, drawn, ids, failures, certified>>

\* The client disconnects and the server drops the request, at any await.
Disconnect(r) ==
    /\ pc[r] \in {"queued", "serving", "served"}
    /\ Goto(r, "gone")
    /\ LeaveQueue(r)
    /\ readers' = readers \ {r}
    /\ UNCHANGED <<cancelled, holder, sessions, drawn, ids, failures, certified>>

-----------------------------------------------------------------------------
(* HttpShutdown                                                            *)

\* request_shutdown by itself.
RequestShutdown ==
    /\ cancelled' = TRUE
    /\ UNCHANGED <<lockVars, pc, sessions, drawn, ids, failures, certified>>

CallClose(c) ==
    /\ pc[c] \in {"idle", "closed", "failed"}
    /\ cancelled' = TRUE
    /\ Goto(c, "passed")
    /\ UNCHANGED <<lockVars, sessions, drawn, ids, failures, certified>>

List(c) ==
    /\ pc[c] = "exclusive"
    /\ ids' = [ids EXCEPT ![c] = sessions]
    /\ Goto(c, "closing")
    /\ UNCHANGED <<cancelled, lockVars, sessions, drawn, failures, certified>>

CloseSession(c) ==
    /\ pc[c] = "closing"
    /\ \E s \in ids[c] :
         /\ sessions' = sessions \ {s}
         /\ ids' = [ids EXCEPT ![c] = @ \ {s}]
    /\ UNCHANGED <<cancelled, lockVars, pc, drawn, failures, certified>>

\* Mutant: a failed call keeps the write permit.
FailKeepsLock(c) ==
    /\ pc[c] = "closing" /\ ids[c] # {}
    /\ failures < MaxFailures
    /\ failures' = failures + 1
    /\ \E s \in ids[c] : sessions' \in {sessions, sessions \ {s}}
    /\ Goto(c, "failed")
    /\ ids' = [ids EXCEPT ![c] = {}]
    /\ UNCHANGED <<cancelled, queue, readers, holder, drawn, certified>>

\* close_session fails, before or after it removed the session: the call
\* returns the error and its permit is dropped.
Fail(c) ==
    /\ pc[c] = "closing" /\ ids[c] # {}
    /\ failures < MaxFailures
    /\ failures' = failures + 1
    /\ \E s \in ids[c] : sessions' \in {sessions, sessions \ {s}}
    /\ Goto(c, "failed")
    /\ ids' = [ids EXCEPT ![c] = {}]
    /\ holder' = NoTask
    /\ UNCHANGED <<cancelled, queue, readers, drawn, certified>>

\* The embedder drops the pending call, for example on a timeout.
Abandon(c) ==
    /\ pc[c] \in {"queued", "closing"}
    /\ failures < MaxFailures
    /\ failures' = failures + 1
    /\ Goto(c, "failed")
    /\ ids' = [ids EXCEPT ![c] = {}]
    /\ LeaveQueue(c)
    /\ holder' = IF holder = c THEN NoTask ELSE holder
    /\ UNCHANGED <<cancelled, readers, sessions, drawn, certified>>

Finish(c) ==
    /\ pc[c] = "closing" /\ ids[c] = {}
    /\ holder' = NoTask
    /\ certified' = TRUE
    /\ Goto(c, "closed")
    /\ UNCHANGED <<cancelled, queue, readers, sessions, drawn, ids, failures>>

\* rmcp removes a session whose own task has ended.
SessionEnds ==
    /\ \E s \in sessions : sessions' = sessions \ {s}
    /\ UNCHANGED <<cancelled, lockVars, pc, drawn, ids, failures, certified>>

-----------------------------------------------------------------------------

\* What the runtime drives once a task has started.
RequestRuns(r) == Enqueue(r) \/ Admit(r) \/ Recheck(r) \/ Respond(r)
CloserRuns(c) ==
    Enqueue(c) \/ Exclude(c) \/ List(c) \/ CloseSession(c) \/ Fail(c) \/ Finish(c)

Next ==
    \/ \E r \in Requests : \/ Arrive(r) \/ RequestRuns(r)
                           \/ Serve(r) \/ Disconnect(r)
    \/ \E c \in Closers : CallClose(c) \/ CloserRuns(c) \/ Abandon(c)
    \/ RequestShutdown
    \/ SessionEnds

\* The runtime polls every ready task; a client completes its request body
\* or disconnects.
Fairness ==
    /\ \A r \in Requests : WF_vars(RequestRuns(r))
    /\ \A r \in Requests : WF_vars(pc[r] = "serving" /\ (Serve(r) \/ Disconnect(r)))
    /\ \A c \in Closers : WF_vars(CloserRuns(c))

\* The embedder retries a failed call, as HttpShutdown's comment asks.
Retry == \A c \in Closers : WF_vars(pc[c] = "failed" /\ CallClose(c))

Spec == Init /\ [][Next]_vars

FairSpec == Spec /\ Fairness /\ Retry

-----------------------------------------------------------------------------
(* Properties                                                              *)

\* Every variable keeps its type; only requests hold read permits.
TypeOK ==
    /\ cancelled \in BOOLEAN /\ certified \in BOOLEAN
    /\ queue \in Seq(Tasks)
    /\ readers \subseteq Requests
    /\ holder \in Closers \cup {NoTask}
    /\ pc \in [Tasks -> RequestStates \cup CloserStates]
    /\ sessions \subseteq drawn /\ drawn \subseteq Sessions
    /\ ids \in [Closers -> SUBSET Sessions]
    /\ failures \in 0 .. MaxFailures

\* http.rs:123: "a pre-shutdown initialize must finish registering its
\* session before close_sessions snapshots the registry": a closer that is
\* closing sessions has listed every session there is.
NoSessionMissed == \A c \in Closers : pc[c] = "closing" => sessions \subseteq ids[c]

\* Once a close_sessions call has returned Ok the registry is empty for good,
\* also while requests that passed the first check are still queued and
\* other calls of close_sessions fail or are abandoned.
ClosedForGood == certified => sessions = {}

\* A closer that retries as long as its calls fail succeeds in the end, in
\* spite of requests that keep coming and of other closers.
ShutdownSucceeds == \A c \in Closers : pc[c] = "passed" ~> pc[c] = "closed"

\* A request that got past the first check does not wait for ever for a
\* permit that a closer holds or waits for, even if its client stays.
RequestReturns ==
    \A r \in Requests : pc[r] = "passed" ~> pc[r] \in {"answered", "refused", "gone"}

-----------------------------------------------------------------------------
(* The inductive invariant: permits and program counters agree, and nobody *)
(* can register a session between a closer's listing and its return, nor   *)
(* after a successful one.                                                 *)

PermitsAgree ==
    /\ holder # NoTask => readers = {}
    /\ \A r \in Requests : pc[r] \in {"admitted", "serving", "served"} => r \in readers
    /\ \A c \in Closers : pc[c] \in {"exclusive", "closing"} => holder = c
    /\ \A c \in Closers : pc[c] # "idle" => cancelled

NoneServing == \A r \in Requests : pc[r] # "serving"

IInv ==
    /\ TypeOK
    /\ PermitsAgree
    /\ NoSessionMissed
    /\ certified => cancelled /\ sessions = {} /\ NoneServing
=============================================================================
