--------------------------- MODULE MCHttpShutdown ---------------------------
(* Two connections, two embedder tasks that close, two sessions and one     *)
(* failed or abandoned call.                                                *)
EXTENDS HttpShutdown, TLC

CONSTANTS r1, r2, c1, c2, s1, s2

MCRequests == {r1, r2}
MCClosers == {c1, c2}
MCSessions == {s1, s2}
=============================================================================
