---------------------------- MODULE SwiftImport -----------------------------
(***************************************************************************)
(* apply() and inspect_target() of swift_import.rs on one candidate file:  *)
(* a transaction that inspects the file, creates the import entity by      *)
(* entity, checks what it wrote and commits; a clean-up; and a second,     *)
(* read-only inspection that alone decides the answer. Any statement may   *)
(* fail, COMMIT may fail with any outcome, ROLLBACK may fail, a process    *)
(* may end. Several connections may try, and others may use the file       *)
(* between transactions.                                                   *)
(***************************************************************************)
EXTENDS Integers, Sequences, FiniteSets

CONSTANTS
    Clients,            \* connections that inspect or apply
    Offers,             \* which package each client brings: functions to names
    Prepared(_),        \* the prepared package of a name
    StoredHash(_, _),   \* the fingerprint of a kind and a stored source
    Contents,           \* what packages say, for the abstract ledger only
    Alien,              \* a row that comes from no package
    Nothing, NoBatch, NoOne,    \* no import, no ledger tables, no writer
    MaxFailures,        \* bound on failing statements and ended processes
    MaxOthers           \* bound on uses of the file by others

\* A prepared package: its batch fingerprint, its entities, what it says.
ASSUME OffersArePrepared ==
    \A b \in Offers : /\ DOMAIN b = Clients
                      /\ \A c \in Clients : Prepared(b[c]).says \in Contents
ASSUME NothingIsNoContent == Nothing \notin Contents
ASSUME NobodyIsNoClient == NoOne \notin Clients
ASSUME FailureBoundIsNat == MaxFailures \in Nat /\ MaxOthers \in Nat
ASSUME NoBatchIsNoRow ==
    \A b \in Offers : \A c \in Clients :
        [id |-> c, fp |-> Prepared(b[c]).fp, of |-> b[c]] # NoBatch
ASSUME AlienIsNotPrepared ==
    \A b \in Offers : \A c \in Clients : \A i \in DOMAIN Prepared(b[c]).entities :
        Prepared(b[c]).entities[i].row # Alien

Stages == {"idle", "begin", "inspect", "insert", "commit", "clean", "readback"}
Answers == {"none", "pending", "fresh", "created", "already", "conflict", "history",
            "database", "constraint", "invalid", "unusable"}

VARIABLES
    file,       \* the committed file: [batch, ledger, rows, history]
    writer,     \* the connection that holds SQLite's write lock
    open,       \* open[c]: "no", "write" or "read" transaction on c's connection
    view,       \* view[c]: what c's write transaction sees
    stage,      \* stage[c]: the next statement of c's call
    next,       \* next[c]: the entity c inserts next
    brought,    \* brought[c]: the name of the package of c's call
    outcome,    \* outcome[c]: the closure's result: a receipt or an error
    landed,     \* landed[c]: c's call has committed the import (not in the code)
    told,       \* told[c]: the answer to c's last call
    failures, others

vars == <<file, writer, open, view, stage, next, brought, outcome, landed, told, failures, others>>
callVars == <<brought, landed>>

Package(c) == Prepared(brought[c])

Empty == [batch |-> NoBatch, ledger |-> {}, rows |-> {}, history |-> FALSE]
NoResult == [ok |-> FALSE, what |-> "database", batch |-> NoOne]

Init ==
    /\ file = Empty
    /\ writer = NoOne
    /\ open = [c \in Clients |-> "no"]
    /\ view = [c \in Clients |-> Empty]
    /\ stage = [c \in Clients |-> "idle"]
    /\ next = [c \in Clients |-> 0]
    /\ brought \in Offers
    /\ outcome = [c \in Clients |-> NoResult]
    /\ landed = [c \in Clients |-> FALSE]
    /\ told = [c \in Clients |-> "none"]
    /\ failures = 0 /\ others = 0

(***************************************************************************)
(* Inspection of a snapshot                                                *)
(***************************************************************************)

Entry(e, batch) ==
    [kind |-> e.kind, id |-> e.id, fp |-> e.fp, source |-> e.source, batch |-> batch]

Count(f, table) == Cardinality({r \in f.rows : r.table = table})
CountsAgree(f, p) ==
    \A t \in {r.table : r \in f.rows} \cup {p.entities[i].row.table : i \in DOMAIN p.entities} :
        Count(f, t) = Cardinality({i \in DOMAIN p.entities : p.entities[i].row.table = t})

\* The ledger entry of e is intact: its source still hashes to e's fingerprint.
EntryMatches(f, e) ==
    \E entry \in f.ledger :
        /\ entry.kind = e.kind /\ entry.id = e.id /\ entry.batch = f.batch.id
        /\ entry.fp = e.fp /\ StoredHash(e.kind, entry.source) = e.fp

\* The file holds p's import and nothing else.
HoldsExactly(f, p) ==
    /\ f.batch # NoBatch /\ f.batch.fp = p.fp
    /\ Cardinality(f.ledger) = Len(p.entities)
    /\ CountsAgree(f, p)
    /\ \A i \in DOMAIN p.entities :
           EntryMatches(f, p.entities[i]) /\ p.entities[i].row \in f.rows

Verdict(f, p) ==
    CASE f.history                                         -> "history"
      [] ~f.history /\ f.batch = NoBatch /\ f.rows = {}    -> "fresh"
      [] ~f.history /\ HoldsExactly(f, p)                  -> "already"
      [] OTHER                                             -> "conflict"

(***************************************************************************)
(* apply                                                                   *)
(***************************************************************************)

Goto(c, s) == stage' = [stage EXCEPT ![c] = s]
Result(c, ok, what, batch) ==
    outcome' = [outcome EXCEPT ![c] = [ok |-> ok, what |-> what, batch |-> batch]]
Free(c) == writer' = IF writer = c THEN NoOne ELSE writer

\* The call answers and its locals are gone.
Return(c, answer) ==
    /\ told' = [told EXCEPT ![c] = answer] /\ Goto(c, "idle")
    /\ outcome' = [outcome EXCEPT ![c] = NoResult]
\* Mutant: a transaction that ends keeps the write lock.
CloseAndKeepLock(c) ==
    /\ open' = [open EXCEPT ![c] = "no"] /\ UNCHANGED writer
    /\ view' = [view EXCEPT ![c] = Empty] /\ next' = [next EXCEPT ![c] = 0]

\* What an open transaction has seen is gone with it.
Close(c) ==
    /\ open' = [open EXCEPT ![c] = "no"] /\ Free(c)
    /\ view' = [view EXCEPT ![c] = Empty] /\ next' = [next EXCEPT ![c] = 0]
Failing == failures < MaxFailures /\ failures' = failures + 1

\* A new call; a migration repeats its own package.
Bring(c) ==
    /\ stage[c] = "idle"
    /\ landed' = [landed EXCEPT ![c] = FALSE]

\* A connection whose transaction could not be closed is refused.
Call(c) ==
    /\ Bring(c)
    /\ IF open[c] = "no"
       THEN Goto(c, "begin") /\ told' = [told EXCEPT ![c] = "pending"] /\ UNCHANGED outcome
       ELSE Return(c, "invalid")
    /\ UNCHANGED <<file, writer, open, view, next, brought, failures, others>>

Begin(c) ==
    /\ stage[c] = "begin" /\ writer = NoOne
    /\ writer' = c
    /\ open' = [open EXCEPT ![c] = "write"]
    /\ view' = [view EXCEPT ![c] = file]
    /\ Goto(c, "inspect")
    /\ UNCHANGED <<file, next, callVars, outcome, told, failures, others>>

\* The schema check or BEGIN IMMEDIATE fails, or another transaction keeps
\* the lock for longer than the busy timeout.
BeginFails(c) ==
    /\ stage[c] = "begin"
    /\ IF writer = NoOne THEN Failing ELSE UNCHANGED failures
    /\ Return(c, "database")
    /\ UNCHANGED <<file, writer, open, view, next, callVars, others>>

\* inspect_locked, and the tables and the batch row of a fresh file. The batch
\* id is new; a connection has one batch at most, so it stands for the id.
Inspect(c) ==
    /\ stage[c] = "inspect"
    /\ LET p == Package(c)
           verdict == Verdict(view[c], p)
       IN  \/ /\ verdict = "fresh"
              /\ view' = [view EXCEPT ![c].batch = [id |-> c, fp |-> p.fp, of |-> brought[c]]]
              /\ next' = [next EXCEPT ![c] = 1]
              /\ Goto(c, "insert") /\ UNCHANGED outcome
           \/ /\ verdict = "already"
              /\ Result(c, TRUE, "already", view[c].batch.id)
              /\ Goto(c, "commit") /\ UNCHANGED <<view, next>>
           \/ /\ verdict \in {"conflict", "history"}
              /\ Result(c, FALSE, verdict, NoOne)
              /\ Goto(c, "clean") /\ UNCHANGED <<view, next>>
    /\ UNCHANGED <<file, writer, open, callVars, told, failures, others>>

\* The table's unique indices and immediate foreign keys accept row.
Insertable(row, rows) ==
    /\ \A r \in rows : r.table = row.table => r.key # row.key /\ r.unique \cap row.unique = {}
    /\ \A id \in row.refs : \E r \in rows : r.table = "thoughts" /\ r.key = id

\* One entity: its row and its ledger entry.
Insert(c) ==
    /\ stage[c] = "insert" /\ next[c] <= Len(Package(c).entities)
    /\ LET e == Package(c).entities[next[c]]
       IN  IF Insertable(e.row, view[c].rows)
           THEN /\ view' = [view EXCEPT ![c].rows = @ \cup {e.row},
                                        ![c].ledger = @ \cup {Entry(e, c)}]
                /\ next' = [next EXCEPT ![c] = @ + 1]
                /\ UNCHANGED <<stage, outcome>>
           ELSE /\ Result(c, FALSE, "constraint", NoOne) /\ Goto(c, "clean")
                /\ UNCHANGED <<view, next>>
    /\ UNCHANGED <<file, writer, open, callVars, told, failures, others>>

\* The readback of everything inserted.
Check(c) ==
    /\ stage[c] = "insert" /\ next[c] > Len(Package(c).entities)
    /\ IF Verdict(view[c], Package(c)) = "already"
       THEN Result(c, TRUE, "created", c) /\ Goto(c, "commit")
       ELSE Result(c, FALSE, "constraint", NoOne) /\ Goto(c, "clean")
    /\ UNCHANGED <<file, writer, open, view, next, callVars, told, failures, others>>

\* A statement fails; SQLite may have rolled the transaction back by itself.
StatementFails(c) ==
    /\ stage[c] \in {"inspect", "insert"} /\ Failing
    /\ Result(c, FALSE, "database", NoOne) /\ Goto(c, "clean")
    /\ \/ Close(c)
       \/ UNCHANGED <<open, writer, view, next>>
    /\ UNCHANGED <<file, callVars, told, others>>

\* What c's transaction has written becomes the file. It lands an import
\* unless it only found one.
Install(c) ==
    /\ file' = view[c]
    /\ landed' = [landed EXCEPT ![c] = view[c] # file]
    /\ Close(c)

Commit(c) ==
    /\ stage[c] = "commit"
    /\ Install(c) /\ Goto(c, "clean")
    /\ UNCHANGED <<brought, outcome, told, failures, others>>

\* COMMIT reports an error: nothing was written and the transaction is gone,
\* or is still open; or the file was written all the same.
CommitFails(c) ==
    /\ stage[c] = "commit" /\ Failing
    /\ Result(c, FALSE, "database", NoOne) /\ Goto(c, "clean")
    /\ \/ Close(c) /\ UNCHANGED <<file, landed>>
       \/ UNCHANGED <<file, landed, open, writer, view, next>>
       \/ Install(c)
    /\ UNCHANGED <<brought, told, others>>

\* clean_connection: ROLLBACK if a transaction is still open.
Clean(c) ==
    /\ stage[c] = "clean"
    /\ Close(c)
    /\ Goto(c, "readback")
    /\ UNCHANGED <<file, callVars, outcome, told, failures, others>>

CleanFails(c) ==
    /\ stage[c] = "clean" /\ open[c] # "no" /\ Failing
    /\ Return(c, "unusable")
    /\ UNCHANGED <<file, writer, open, view, next, callVars, others>>

\* Mutant: the closure's own result is the answer.
AnsweredByOutcome(c, verdict) == outcome[c].what

\* The answer after the second inspection found verdict, or failed.
Answered(c, verdict) ==
    LET r == outcome[c]
    IN  CASE r.ok /\ verdict = "already" /\ r.batch = file.batch.id -> r.what
          [] ~r.ok /\ verdict = "already"                           -> "already"
          [] ~r.ok /\ verdict # "already"                           -> r.what
          [] OTHER                                                  -> "database"

\* BEGIN DEFERRED, inspect_locked and clean_connection see one snapshot.
Readback(c) ==
    /\ stage[c] = "readback"
    /\ Return(c, Answered(c, Verdict(file, Package(c))))
    /\ UNCHANGED <<file, writer, open, view, next, callVars, failures, others>>

\* The second transaction does not start, its inspection fails, or it cannot
\* be closed.
ReadbackFails(c) ==
    /\ stage[c] = "readback" /\ Failing
    /\ \/ Return(c, "database") /\ UNCHANGED open
       \/ Return(c, Answered(c, "failed")) /\ UNCHANGED open
       \/ Return(c, "unusable") /\ open' = [open EXCEPT ![c] = "read"]
    /\ UNCHANGED <<file, writer, view, next, callVars, others>>

(***************************************************************************)
(* inspect_target, the end of a process, other users of the file           *)
(***************************************************************************)

InspectTarget(c) ==
    /\ Bring(c)
    /\ \/ /\ open[c] # "no"
          /\ Return(c, "invalid") /\ UNCHANGED <<open, failures>>
       \/ /\ open[c] = "no"
          /\ Return(c, Verdict(file, Package(c))) /\ UNCHANGED <<open, failures>>
       \/ /\ open[c] = "no" /\ Failing
          /\ \/ Return(c, "database") /\ UNCHANGED open
             \/ Return(c, "unusable") /\ open' = [open EXCEPT ![c] = "read"]
    /\ UNCHANGED <<file, writer, view, next, brought, others>>

Ends(c) ==
    /\ stage[c] # "idle" \/ open[c] # "no"
    /\ Failing
    /\ Return(c, "none") /\ Close(c)
    /\ landed' = [landed EXCEPT ![c] = FALSE]
    /\ UNCHANGED <<file, brought, others>>

\* An edited row: its other columns are what no package would write there.
Overwritten == <<"edited", "by", "others">>
Edited(r) ==
    [table |-> r.table, key |-> r.key, unique |-> r.unique, refs |-> r.refs,
     data |-> Overwritten]

\* A client connects or searches, a row is captured or edited, a ledger entry
\* is deleted. Edits are not undone.
Used(f) ==
    {[f EXCEPT !.history = TRUE], [f EXCEPT !.rows = @ \cup {Alien}]}
    \cup {[f EXCEPT !.rows = (@ \ {r}) \cup {Edited(r)}] : r \in f.rows}
    \cup {[f EXCEPT !.ledger = @ \ {e}] : e \in f.ledger}

Others ==
    /\ writer = NoOne /\ others < MaxOthers
    /\ file' \in Used(file) \ {file}
    /\ others' = others + 1
    /\ UNCHANGED <<writer, open, view, stage, next, callVars, outcome, told, failures>>

Next ==
    \/ \E c \in Clients :
           \/ Call(c) \/ InspectTarget(c)
           \/ Begin(c) \/ BeginFails(c) \/ Inspect(c) \/ Insert(c) \/ Check(c)
           \/ StatementFails(c) \/ Commit(c) \/ CommitFails(c)
           \/ Clean(c) \/ CleanFails(c) \/ Readback(c) \/ ReadbackFails(c) \/ Ends(c)
    \/ Others

Spec == Init /\ [][Next]_vars

(***************************************************************************)
(* Properties                                                              *)
(***************************************************************************)

\* The file that holds exactly the import its batch names, and no trace of
\* anybody else.
Pristine(batch) ==
    IF batch = NoBatch
    THEN Empty
    ELSE LET entities == Prepared(batch.of).entities
         IN  [batch |-> batch, history |-> FALSE,
              ledger |-> {Entry(entities[i], batch.id) : i \in DOMAIN entities},
              rows |-> {entities[i].row : i \in DOMAIN entities}]

\* The variables have their types; the write lock belongs to the connection
\* whose write transaction is open, and a transaction outlives its call only
\* on a connection that was told to be unusable.
TypeOK ==
    /\ writer \in Clients \cup {NoOne}
    /\ open \in [Clients -> {"no", "write", "read"}]
    /\ stage \in [Clients -> Stages]
    /\ next \in [Clients -> Nat]
    /\ landed \in [Clients -> BOOLEAN]
    /\ told \in [Clients -> Answers]
    /\ failures \in 0..MaxFailures /\ others \in 0..MaxOthers
    /\ \A c \in Clients : open[c] = "write" <=> writer = c
    /\ \A c \in Clients : stage[c] = "idle" /\ open[c] # "no" => told[c] \in {"unusable", "invalid"}

\* What prepare() accepts can be imported: no unique index, foreign key or
\* readback ever refuses a row of an accepted package. Only a fault, another
\* writer or a used file may.
AcceptedImports == \A c \in Clients : outcome[c].what # "constraint"

\* The import implements the one-shot ledger of ImportLedger: it lands whole
\* or not at all, at most once, and every answer is true.
Ledger == INSTANCE ImportLedger WITH
    held <- IF file.batch = NoBatch THEN Nothing ELSE Prepared(file.batch.of).says,
    touched <- file # Pristine(file.batch),
    asked <- [c \in Clients |-> Package(c).says],
    landed <- landed,
    told <- told
Implements == Ledger!Spec
=============================================================================
