---------------------------- MODULE ImportLedger ----------------------------
(***************************************************************************)
(* What swift_import.rs promises the application that migrates a profile:  *)
(* a candidate file takes one package at most, whole, and keeps it; "the   *)
(* returned receipt is the sole success authority", and an answer about    *)
(* the file is true when it is given.                                      *)
(***************************************************************************)
CONSTANTS
    Clients,    \* connections to the candidate file
    Contents,   \* what a package says, however it is spelled and ordered
    Nothing     \* no import: not in Contents

VARIABLES
    held,       \* the import the file holds
    touched,    \* somebody else has written to the file
    asked,      \* asked[c]: the package of c's call
    landed,     \* landed[c]: c's current call has made the import
    told        \* told[c]: what c's last call answered

ledgerVars == <<held, touched, asked, landed, told>>

Init ==
    /\ held = Nothing
    /\ touched = FALSE
    /\ asked \in [Clients -> Contents]
    /\ landed = [c \in Clients |-> FALSE]
    /\ told = [c \in Clients |-> "none"]

Call(c) ==
    /\ told[c] # "pending"
    /\ \E p \in Contents : asked' = [asked EXCEPT ![c] = p]
    /\ landed' = [landed EXCEPT ![c] = FALSE]
    /\ told' = [told EXCEPT ![c] = "pending"]
    /\ UNCHANGED <<held, touched>>

\* The import takes effect, on a file nobody has used.
Land(c) ==
    /\ told[c] = "pending"
    /\ held = Nothing /\ ~touched
    /\ held' = asked[c]
    /\ landed' = [landed EXCEPT ![c] = TRUE]
    /\ UNCHANGED <<touched, asked, told>>

\* The answers to a package p that are true now. Errors that say nothing of
\* the file are always possible; a receipt never is, unless it is true.
Truthful(p, mine) ==
    {"database", "invalid", "unusable"}
    \cup {v \in {"fresh"} : held = Nothing /\ ~touched}
    \cup {v \in {"created"} : held = p /\ mine /\ ~touched}
    \cup {v \in {"already"} : held = p /\ ~touched}
    \cup {v \in {"conflict"} : touched \/ held \notin {Nothing, p}}
    \cup {v \in {"history"} : touched}

Answer(c) ==
    /\ told[c] = "pending"
    /\ \E v \in Truthful(asked[c], landed[c]) \ {"fresh"} : told' = [told EXCEPT ![c] = v]
    /\ UNCHANGED <<held, touched, asked, landed>>

\* A call that only looks, or is refused at once.
Look(c) ==
    /\ told[c] # "pending"
    /\ \E p \in Contents :
           /\ asked' = [asked EXCEPT ![c] = p]
           /\ \E v \in Truthful(p, FALSE) : told' = [told EXCEPT ![c] = v]
    /\ landed' = [landed EXCEPT ![c] = FALSE]
    /\ UNCHANGED <<held, touched>>

\* The caller's process ends and is started again.
Reset(c) ==
    /\ landed' = [landed EXCEPT ![c] = FALSE]
    /\ told' = [told EXCEPT ![c] = "none"]
    /\ UNCHANGED <<held, touched, asked>>

\* The file is used: history, an edit, a record of another origin.
Others ==
    /\ touched' = TRUE
    /\ UNCHANGED <<held, asked, landed, told>>

Next ==
    \/ \E c \in Clients : Call(c) \/ Land(c) \/ Answer(c) \/ Look(c) \/ Reset(c)
    \/ Others

Spec == Init /\ [][Next]_ledgerVars
=============================================================================
