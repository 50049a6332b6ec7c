---------------------------- MODULE MCMigrations ----------------------------
(* Two processes that may crash twice, from every version a file may have:  *)
(* none, those of this program, those of the other application (12 .. 17)   *)
(* and one newer than this program.                                         *)
EXTENDS Migrations, TLC

CONSTANTS p1, p2

MCProcs == {p1, p2}
MCFound == 0 .. 18 \cup {20}
=============================================================================
