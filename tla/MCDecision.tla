------------------------------ MODULE MCDecision ------------------------------
(* Up to three candidates in every rank order, for inputs that differ in     *)
(* word order, length, repetition and type. Ten words and one more give the  *)
(* similarity 10/11 and nine of ten the boundary 9/10.                       *)
EXTENDS Decision, TLC

note(w) == [type |-> "note", words |-> w]
four == <<"a", "b", "c", "d">>
ten == <<"a", "b", "c", "d", "e", "f", "g", "h", "i", "j">>
nine == <<"a", "b", "c", "d", "e", "f", "g", "h", "i">>

MCInputs == {note(four), note(<<"a", "b", "a">>),
             note(<<"a", "b", "c", "d", "a">>), note(ten), note(nine)}

MCStored == {note(four), note(<<"d", "c", "b", "a">>),
             note(<<"a", "b", "c", "d", "a">>), note(<<"a", "b", "c", "d", "e">>),
             [type |-> "decision", words |-> four], note(ten),
             note(<<"i", "h", "g", "f", "e", "d", "c", "b", "a">>)}
=============================================================================
