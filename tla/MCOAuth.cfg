SPECIFICATION OAuthSpec
CONSTANTS
    r1 = r1
    r2 = r2
    a1 = a1
    a2 = a2
    u1 = u1
    u2 = u2
    v1 = v1
    v2 = v2
    here = here
    there = there
    FormSlots <- MCFormSlots
    Addresses <- MCAddresses
    Uris <- MCUris
    Verifiers <- MCVerifiers
    Resources <- MCResources
    FormsTried <- MCForms
    UrisTried <- MCUrisTried
    RateMax = 2
    Window = 1
    CodeTtl = 1
    MaxClients = 2
    MaxForms = 4
    MaxGrants = 2
    MaxRestarts = 1
    MaxTime = 2
INVARIANTS OAuthTypeOK GrantsDescend AttemptsAreFew
CHECK_DEADLOCK FALSE
SYMMETRY Slots
