------------------------------- MODULE OAuth -------------------------------
(***************************************************************************)
(* oauth.rs and the bearer guard of http.rs: registration of clients,      *)
(* the login form under its rate limit, authorization codes with PKCE, and *)
(* tokens derived from the operator's key. Codes and rate-limit windows    *)
(* are in memory, clients in the file; requests run side by side and the   *)
(* process may be started again at any moment. Time is a clock of ticks.   *)
(* A UUID is a number not used before; a PKCE challenge is named after     *)
(* the verifier it was made from; a derived token is what it is derived    *)
(* from.                                                                   *)
(***************************************************************************)
EXTENDS Integers, Sequences, FiniteSets

CONSTANTS
    FormSlots,       \* slots for login forms in work at the same time
    Addresses,      \* of the peers
    Uris,           \* redirect URIs
    Verifiers,      \* well-formed PKCE verifiers
    Resources,      \* MCP endpoints: what mcp_resource makes of Host
    RateMax,        \* attempts in a window: 5
    Window,         \* 15 minutes
    CodeTtl,        \* 10 minutes
    FormsTried,     \* the login forms that are submitted
    UrisTried,      \* the sets of URIs that are registered
    MaxClients, MaxForms, MaxGrants, MaxRestarts, MaxTime   \* bounds

ASSUME LimitsArePositive ==
    /\ RateMax \in Nat \ {0} /\ Window \in Nat /\ CodeTtl \in Nat
    /\ {MaxClients, MaxForms, MaxGrants, MaxRestarts, MaxTime} \subseteq Nat
ASSUME NobodyRegistersNothing == UrisTried \subseteq (SUBSET Uris) \ {{}}

VARIABLES
    now,
    clients,    \* oauth_clients in the file: client id -> redirect URIs
    codes,      \* auth_codes: code -> what it was issued for
    limiter,    \* rate_limiter: address -> [attempts, reset]
    forms,      \* login forms in work: request -> [step, form]
    received,   \* number of forms received, and restarts (bounds)
    restarts,
    approvals,  \* every code ever issued, with the form approved
    passed,     \* passed[a]: when a's forms passed the limiter, since the start
    grants      \* the tokens handed out, in order

oauthVars == <<now, clients, codes, limiter, forms, received, restarts, approvals, passed, grants>>

Ids == 1..MaxClients
Codes == 1..MaxForms
Form == [address : Addresses, client : Ids, redirect : Uris, challenge : Verifiers,
         resource : Resources, host : Resources, key : BOOLEAN]
ASSUME FormsAreTyped == FormsTried \subseteq Form
Idle == [step |-> "idle"]

AccessToken(resource) == <<"access", resource>>
RefreshToken(client, resource) == <<"refresh", client, resource>>
Handed == {AccessToken(grants[i].resource) : i \in DOMAIN grants}
          \cup {RefreshToken(grants[i].client, grants[i].resource) : i \in DOMAIN grants}

OAuthInit ==
    /\ now = 0
    /\ clients = <<>>
    /\ codes = <<>> /\ limiter = <<>>
    /\ forms = [r \in FormSlots |-> Idle]
    /\ received = 0 /\ restarts = 0
    /\ approvals = <<>>
    /\ passed = [a \in Addresses |-> <<>>]
    /\ grants = <<>>

(***************************************************************************)
(* Handlers                                                                *)
(***************************************************************************)

\* Registrations without a redirect URI, and failed INSERTs, change nothing.
Register ==
    /\ Len(clients) < MaxClients
    /\ \E uris \in UrisTried : clients' = Append(clients, uris)
    /\ UNCHANGED <<now, codes, limiter, forms, received, restarts, approvals, passed, grants>>

Put(f, x, y) == [z \in DOMAIN f \cup {x} |-> IF z = x THEN y ELSE f[z]]
Drop(f, x) == [z \in DOMAIN f \ {x} |-> f[z]]

\* Mutant: a window ends one tick early.
InWindowBefore(a) == a \in DOMAIN limiter /\ now < limiter[a].reset

InWindow(a) == a \in DOMAIN limiter /\ now <= limiter[a].reset
Limited(a) == InWindow(a) /\ limiter[a].attempts >= RateMax

\* Mutant: a window lasts until its last attempt is old.
CountedFromLast(a) ==
    IF InWindow(a)
    THEN [attempts |-> limiter[a].attempts + 1, reset |-> now + Window]
    ELSE [attempts |-> 1, reset |-> now + Window]

\* The window of a after one more attempt.
Counted(a) ==
    IF InWindow(a)
    THEN [limiter[a] EXCEPT !.attempts = @ + 1]
    ELSE [attempts |-> 1, reset |-> now + Window]

\* A login form arrives, and check_rate_limit comes first: every form counts,
\* whatever becomes of it. Other requests may come before the decision.
Submit(r, f) ==
    /\ forms[r] = Idle /\ received < MaxForms
    /\ received' = received + 1
    /\ IF Limited(f.address)
       THEN UNCHANGED <<limiter, passed, forms>>
       ELSE /\ limiter' = Put(limiter, f.address, Counted(f.address))
            /\ passed' = [passed EXCEPT ![f.address] = Append(@, now)]
            /\ forms' = [forms EXCEPT ![r] = [step |-> "decide", form |-> f]]
    /\ UNCHANGED <<now, clients, codes, restarts, approvals, grants>>

\* The client is known, with this redirect URI; the request fits the endpoint;
\* the key is right: a code. Rows of clients are never deleted, so that the
\* lookup is as good here as where the code has it.
Decide(r) ==
    /\ forms[r].step = "decide"
    /\ forms' = [forms EXCEPT ![r] = Idle]
    /\ LET f == forms[r].form
           code == Len(approvals) + 1
       IN  IF /\ f.client \in DOMAIN clients /\ f.redirect \in clients[f.client]
              /\ f.resource = f.host /\ f.key
           THEN /\ codes' = Put(codes, code,
                        [client |-> f.client, challenge |-> f.challenge, redirect |-> f.redirect,
                         resource |-> f.resource, expires |-> now + CodeTtl])
                /\ approvals' = Append(approvals, [form |-> f, at |-> now, run |-> restarts])
           ELSE UNCHANGED <<codes, approvals>>
    /\ UNCHANGED <<now, clients, limiter, received, restarts, passed, grants>>

Grant(by, client, resource) ==
    /\ Len(grants) < MaxGrants
    /\ grants' = Append(grants, [by |-> by, client |-> client, resource |-> resource,
                                 at |-> now, run |-> restarts])

\* Mutant: a code that is redeemed is kept.
Spent(code, granted) == IF granted THEN codes ELSE Drop(codes, code)

\* The codes after an attempt on code by its own client.
Left(code, granted) == Drop(codes, code)

\* Grant type authorization_code, under the lock of the codes. A request that
\* does not fit the code leaves it, one that comes late or with another
\* verifier uses it up.
Redeem(code, client, redirect, verifier, resource, host) ==
    /\ resource = host
    /\ code \in DOMAIN codes
    /\ LET c == codes[code]
       IN  /\ c.client = client /\ c.redirect = redirect /\ c.resource = resource
           /\ IF now <= c.expires /\ verifier = c.challenge
              THEN /\ Grant(code, client, resource)
                   /\ codes' = Left(code, TRUE)
              ELSE /\ codes' = Left(code, FALSE)
                   /\ UNCHANGED grants
    /\ UNCHANGED <<now, clients, limiter, forms, received, restarts, approvals, passed>>

\* Grant type refresh_token, with a token that was handed out.
Refresh(token, client, resource, host) ==
    /\ resource = host /\ token \in Handed
    /\ token = RefreshToken(client, resource)
    /\ client \in DOMAIN clients
    /\ Grant(0, client, resource)
    /\ UNCHANGED <<now, clients, codes, limiter, forms, received, restarts, approvals, passed>>

\* bearer_guard, when a key is set: the key itself lets a request for any
\* host pass, the token derived from it one for this host.
OperatorKey == <<"key">>
Admits(token, host) == token \in {OperatorKey, AccessToken(host)}

Tick ==
    /\ now < MaxTime /\ now' = now + 1
    /\ UNCHANGED <<clients, codes, limiter, forms, received, restarts, approvals, passed, grants>>

\* The process ends and is started again: only the file is left.
Restart ==
    /\ restarts < MaxRestarts /\ restarts' = restarts + 1
    /\ codes' = <<>> /\ limiter' = <<>>
    /\ forms' = [r \in FormSlots |-> Idle]
    /\ passed' = [a \in Addresses |-> <<>>]
    /\ UNCHANGED <<now, clients, received, approvals, grants>>

OAuthNext ==
    \/ Register
    \/ \E r \in FormSlots :
           \/ \E f \in FormsTried : Submit(r, f)
           \/ Decide(r)
    \/ \E client \in DOMAIN clients, resource \in Resources, host \in Resources :
           \/ \E code \in DOMAIN codes, u \in Uris, v \in Verifiers :
                  Redeem(code, client, u, v, resource, host)
           \/ \E token \in Handed : Refresh(token, client, resource, host)
    \/ Tick
    \/ Restart

OAuthSpec == OAuthInit /\ [][OAuthNext]_oauthVars

(***************************************************************************)
(* Properties                                                              *)
(***************************************************************************)

\* The variables have their types; a window's count is the number of forms
\* it let pass and at most RateMax; a stored code is what its form asked for,
\* was approved by this process and has not been redeemed.
OAuthTypeOK ==
    /\ now \in 0..MaxTime
    /\ clients \in Seq(UrisTried)
    /\ \A r \in FormSlots :
           forms[r] = Idle \/ (forms[r].step = "decide" /\ forms[r].form \in FormsTried)
    /\ DOMAIN limiter = {a \in Addresses : passed[a] # <<>>}
    /\ \A a \in DOMAIN limiter :
           /\ limiter[a].attempts \in 1..RateMax
           /\ limiter[a].attempts =
                Cardinality({i \in DOMAIN passed[a] : passed[a][i] >= limiter[a].reset - Window})
    /\ \A c \in DOMAIN codes :
           /\ c \in DOMAIN approvals
           /\ approvals[c].run = restarts
           /\ codes[c] = [client |-> approvals[c].form.client, challenge |-> approvals[c].form.challenge,
                          redirect |-> approvals[c].form.redirect,
                          resource |-> approvals[c].form.resource,
                          expires |-> approvals[c].at + CodeTtl]

\* Every pair of tokens descends from one approval with the operator's key:
\* a code is redeemed once at most, by the client and for the endpoint it was
\* issued for, before it expires and by the process that issued it; a refresh
\* follows a grant to the same client for the same endpoint, perhaps of an
\* earlier process; and the guard lets derived tokens pass only where some
\* client was granted them.
GrantsDescend ==
    /\ \A i \in DOMAIN grants :
           LET g == grants[i]
           IN  IF g.by = 0
               THEN \E j \in 1..(i - 1) :
                        grants[j].client = g.client /\ grants[j].resource = g.resource
               ELSE LET a == approvals[g.by]
                    IN  /\ a.form.key
                        /\ a.form.client = g.client /\ a.form.resource = g.resource
                        /\ a.run = g.run /\ g.at <= a.at + CodeTtl
    /\ \A i, j \in DOMAIN grants : grants[i].by = grants[j].by /\ grants[i].by # 0 => i = j
    /\ \A token \in Handed, host \in Resources :
           Admits(token, host) => \E i \in DOMAIN grants : grants[i].resource = host

\* However the attempts of an address fall around the end of a window, fewer
\* than 2 * RateMax of them are looked at in any span of Window ticks.
AttemptsAreFew ==
    \A a \in Addresses :
        \A i \in DOMAIN passed[a] :
            i + 2 * RateMax - 1 \in DOMAIN passed[a]
                => passed[a][i + 2 * RateMax - 1] - passed[a][i] > Window

=============================================================================
