SPECIFICATION Spec
CONSTANTS
    c1 = c1
    c2 = c2
    empty = empty
    ours = ours
    seeded = seeded
    bare = bare
    placed = placed
    Gone = Gone
    NoClient = NoClient
    NoRepos = empty
    Clients <- MCClients
    Repos <- MCRepos
    Rests <- MCRests
    Stamps = {1}
    Provisional = {}
    Pathless <- MCPathless
    SeedRepos = seeded
    SeedRest = placed
    MaxFailures = 0
    MaxOthers = 1
PROPERTIES SeedsSpareClaimed
