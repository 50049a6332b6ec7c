SPECIFICATION Spec
CONSTANTS
    c1 = c1
    c2 = c2
    NoOne = NoOne
    NoBatch = NoBatch
    Nothing = Nothing
    MaxFailures = 2
    MaxOthers = 1
    MaxTasks = 3
    Uuids <- MCUuids
    DerivedId <- MCDerived
    Clients <- MCClients
    Offers <- MCOffers
    Raw <- MCRaw
    Prepared <- MCPreparedOf
    StoredHash <- SourceHash
    Contents = {1,2,3,4,5,6,7,8,9,10,11,12,13,14,15,16,17,18,19,20,21,22,23,24,25,26,27,28,29,30}
    Alien <- MCAlien
INVARIANTS TypeOK AcceptedImports ArchivesInspect
PROPERTIES Implements
