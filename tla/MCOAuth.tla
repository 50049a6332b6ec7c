------------------------------ MODULE MCOAuth ------------------------------
(* Two login forms at a time, from two addresses, for two clients and two   *)
(* endpoints; windows of two attempts and codes of one tick.                *)
EXTENDS OAuth, TLC

CONSTANTS r1, r2, a1, a2, u1, u2, v1, v2, here, there

MCFormSlots == {r1, r2}
MCAddresses == {a1, a2}
MCUris == {u1, u2}
MCVerifiers == {v1, v2}
MCResources == {here, there}

Sound == [address |-> a1, client |-> 1, redirect |-> u1, challenge |-> v1,
          resource |-> here, host |-> here, key |-> TRUE]
MCForms ==
    {Sound, [Sound EXCEPT !.key = FALSE],
     [Sound EXCEPT !.address = a2, !.client = 2, !.redirect = u2, !.challenge = v2,
                   !.resource = there, !.host = there]}
MCUrisTried == {{u1, u2}}

\* A slot has no identity.
Slots == Permutations(MCFormSlots)
=============================================================================
