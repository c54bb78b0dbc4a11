SPECIFICATION Spec
CONSTANTS
    p1 = p1
    p2 = p2
    Pools <- const_Pools
    PoolIds <- const_OnePoolIds
    IdLists <- const_OneIdLists
    Blocks = 3
    QueueCap = 2
    Lookbacks = {4}
    Readers = {reader}
    Syncer = syncer
    FirstHeight = 5
    MaxHeight = 6
    Modulus = 32
    MaxFailures = 1
    MaxStops = 1
INVARIANTS TypeOK CoherentRecords QueueAscending CacheMatchesDatabase PoolInv
PROPERTIES KeepsWindow
