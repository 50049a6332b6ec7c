----------------------------- MODULE RootsCache -----------------------------
(***************************************************************************)
(* The memoised client roots of one MCP session (server.rs).               *)
(*                                                                         *)
(* A scoped tool call takes the lock of the memo; if the memo is empty it  *)
(* asks the client (roots/list) and keeps the lock while it waits for the  *)
(* answer. Any error is answered by the server's own working directory,    *)
(* memoised like an answer. A roots/list_changed notification empties the  *)
(* memo. Calls and notifications are handled by tasks of their own, and    *)
(* messages of the client may overtake each other (HTTP), so that only the *)
(* lock orders them. The k-th change of the client's roots gives version k. *)
(***************************************************************************)
EXTENDS Integers

CONSTANTS
    Calls,      \* concurrent scoped tool calls of the session
    HasRoots,   \* TRUE: the client implements roots
    MaxChanges, \* bound on the changes of the client's roots
    MaxErrors,  \* bound on failed roots/list requests of a roots client
    Empty, Fallback, Error, Free

ASSUME RootsConstants ==
    /\ HasRoots \in BOOLEAN
    /\ MaxChanges \in Nat /\ MaxErrors \in Nat
    /\ Free \notin Calls
    /\ {Empty, Fallback, Error} \cap Int = {}
    /\ Empty # Fallback /\ Error \notin {Empty, Fallback}

Versions == 0 .. MaxChanges

VARIABLES
    roots,      \* the version of the roots the client has
    unheard,    \* list_changed notifications not yet handled
    errors,     \* failed requests (bounds the model)
    failedAt,   \* the version at which the last of them failed (history)
    memo,       \* the memo: Empty, Fallback or a version
    lock,       \* the call that holds the memo's lock, or Free
    stage,         \* "idle", "waiting", "asking", "answered", "scoped"
    answer,     \* answer[c]: the client's answer to c's request
    heard,      \* heard[c]: changes handled when c began (history)
    paths       \* paths[c]: what c resolves its scope against

rootsVars == <<roots, unheard, errors, failedAt, memo, lock, stage, answer, heard, paths>>

RootsInit ==
    /\ roots = 0
    /\ unheard = 0
    /\ errors = 0
    /\ failedAt = 0
    /\ memo = Empty
    /\ lock = Free
    /\ stage = [c \in Calls |-> "idle"]
    /\ answer = [c \in Calls |-> Empty]
    /\ heard = [c \in Calls |-> 0]
    /\ paths = [c \in Calls |-> Empty]

-----------------------------------------------------------------------------
(* The client.                                                             *)

\* Its roots change, and it says so.
Change ==
    /\ HasRoots
    /\ roots < MaxChanges
    /\ roots' = roots + 1
    /\ unheard' = unheard + 1
    /\ UNCHANGED <<errors, failedAt, memo, lock, stage, answer, heard, paths>>

\* It answers a request with its roots, or the request fails.
Answer(c) ==
    /\ stage[c] = "asking"
    /\ stage' = [stage EXCEPT ![c] = "answered"]
    /\ \/ /\ HasRoots
          /\ answer' = [answer EXCEPT ![c] = roots]
          /\ UNCHANGED <<errors, failedAt>>
       \/ /\ ~HasRoots \/ errors < MaxErrors
          /\ answer' = [answer EXCEPT ![c] = Error]
          /\ errors' = IF HasRoots THEN errors + 1 ELSE errors
          /\ failedAt' = roots
    /\ UNCHANGED <<roots, unheard, memo, lock, heard, paths>>

-----------------------------------------------------------------------------
(* resolution_roots                                                        *)

Begin(c) ==
    /\ stage[c] \in {"idle", "scoped"}
    /\ stage' = [stage EXCEPT ![c] = "waiting"]
    /\ heard' = [heard EXCEPT ![c] = roots - unheard]
    /\ paths' = [paths EXCEPT ![c] = Empty]
    /\ UNCHANGED <<roots, unheard, errors, failedAt, memo, lock, answer>>

\* The memo is filled: the lock is released at once.
Hit(c) ==
    /\ stage[c] = "waiting"
    /\ lock = Free
    /\ memo # Empty
    /\ paths' = [paths EXCEPT ![c] = memo]
    /\ stage' = [stage EXCEPT ![c] = "scoped"]
    /\ UNCHANGED <<roots, unheard, errors, failedAt, memo, lock, answer, heard>>

\* Mutant: the lock is released while the client is asked.
AskUnlocked(c) ==
    /\ stage[c] = "waiting"
    /\ lock = Free
    /\ memo = Empty
    /\ stage' = [stage EXCEPT ![c] = "asking"]
    /\ UNCHANGED <<roots, unheard, errors, failedAt, memo, lock, answer, heard, paths>>

Ask(c) ==
    /\ stage[c] = "waiting"
    /\ lock = Free
    /\ memo = Empty
    /\ lock' = c
    /\ stage' = [stage EXCEPT ![c] = "asking"]
    /\ UNCHANGED <<roots, unheard, errors, failedAt, memo, answer, heard, paths>>

Resolved(a) == IF a = Error THEN Fallback ELSE a

\* Mutant: an error is memoised, and handed on, as it is.
StoreError(c) ==
    /\ stage[c] = "answered"
    /\ memo' = answer[c]
    /\ paths' = [paths EXCEPT ![c] = answer[c]]
    /\ lock' = Free
    /\ stage' = [stage EXCEPT ![c] = "scoped"]
    /\ UNCHANGED <<roots, unheard, errors, failedAt, answer, heard>>

\* Mutant: the answer is not kept, and the memo is looked at again.
StoreForgets(c) ==
    /\ stage[c] = "answered"
    /\ lock' = Free
    /\ stage' = [stage EXCEPT ![c] = "waiting"]
    /\ UNCHANGED <<roots, unheard, errors, failedAt, memo, answer, heard, paths>>

Store(c) ==
    /\ stage[c] = "answered"
    /\ memo' = Resolved(answer[c])
    /\ paths' = [paths EXCEPT ![c] = memo']
    /\ lock' = Free
    /\ stage' = [stage EXCEPT ![c] = "scoped"]
    /\ UNCHANGED <<roots, unheard, errors, failedAt, answer, heard>>

\* Mutant: the notification empties the memo only if it holds an answer.
ClearAnswers ==
    /\ unheard > 0
    /\ lock = Free
    /\ memo' = IF memo = Fallback THEN memo ELSE Empty
    /\ unheard' = unheard - 1
    /\ UNCHANGED <<roots, errors, failedAt, lock, stage, answer, heard, paths>>

\* on_roots_list_changed
Clear ==
    /\ unheard > 0
    /\ lock = Free
    /\ memo' = Empty
    /\ unheard' = unheard - 1
    /\ UNCHANGED <<roots, errors, failedAt, lock, stage, answer, heard, paths>>

-----------------------------------------------------------------------------

Resolve(c) == Hit(c) \/ Ask(c) \/ Store(c)

RootsNext ==
    \/ Change
    \/ Clear
    \/ \E c \in Calls : Answer(c) \/ Begin(c) \/ Resolve(c)

\* tokio's mutex is first come, first served; the client answers, or the
\* connection ends, which also answers the request.
RootsFairness ==
    /\ SF_rootsVars(Clear)
    /\ \A c \in Calls : SF_rootsVars(Hit(c) \/ Ask(c)) /\ WF_rootsVars(Store(c)) /\ WF_rootsVars(Answer(c))

RootsSpec == RootsInit /\ [][RootsNext]_rootsVars

RootsFairSpec == RootsSpec /\ RootsFairness

-----------------------------------------------------------------------------
(* Properties                                                              *)

\* Every variable keeps its type; the memo never holds an error.
RootsTypeOK ==
    /\ roots \in Versions /\ unheard \in 0 .. roots /\ errors \in 0 .. MaxErrors
    /\ failedAt \in Versions
    /\ memo \in Versions \cup {Empty, Fallback}
    /\ lock \in Calls \cup {Free}
    /\ stage \in [Calls -> {"idle", "waiting", "asking", "answered", "scoped"}]
    /\ answer \in [Calls -> Versions \cup {Empty, Error}]
    /\ heard \in [Calls -> Versions]
    /\ paths \in [Calls -> Versions \cup {Empty, Fallback}]

\* ADR 0001 as quoted at server.rs:49, a scoped call cannot race ahead with
\* old directories: it never uses roots older than the changes that were
\* handled before it began, though answers and notifications cross.
CallsAreCurrent ==
    \A c \in Calls : paths[c] \in Versions => heard[c] <= paths[c]

\* Every scoped call gets its directories, in spite of other calls and of
\* notifications, and of requests that fail.
CallsResolve == \A c \in Calls : stage[c] = "waiting" ~> stage[c] = "scoped"

\* When the client's roots no longer change, the memo ends up empty or with
\* the current roots, unless a request failed after the last change.
Settled ==
    \/ memo \in {Empty, roots}
    \/ memo = Fallback /\ failedAt = roots

Settles == HasRoots => <>[]Settled

\* resolve.rs:325, "cwd is a fallback only for no-roots clients".
FallbackOnlyWithoutRoots == HasRoots => \A c \in Calls : paths[c] # Fallback

-----------------------------------------------------------------------------
(* The inductive invariant: whatever a call has been answered, or the memo *)
(* holds, is older than the client's roots by at most the notifications    *)
(* that nobody has handled.                                                *)

Recent(v) == v \in Versions => roots - unheard <= v

RootsIInv ==
    /\ RootsTypeOK
    /\ CallsAreCurrent
    /\ Recent(memo)
    /\ \A c \in Calls :
         /\ heard[c] <= roots - unheard
         /\ stage[c] \in {"asking", "answered"} => lock = c
         /\ stage[c] = "answered" => answer[c] # Empty /\ Recent(answer[c])
=============================================================================
