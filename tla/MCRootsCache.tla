---------------------------- MODULE MCRootsCache ----------------------------
(* Two concurrent calls of one session, of a client that changes its        *)
(* roots twice and whose roots/list requests fail once.                     *)
EXTENDS RootsCache, TLC

CONSTANTS k1, k2

MCCalls == {k1, k2}
=============================================================================
