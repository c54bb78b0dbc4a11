SPECIFICATION FairSpec
CONSTANTS
    p1 = p1
    p2 = p2
    Pools <- const_Pools
    PoolIds <- const_PoolIds
    IdLists = {}
    Blocks = 2
    QueueCap = 1
    Lookbacks = {}
    Readers = {}
    Syncer = syncer
    FirstHeight = 4
    MaxHeight = 6
    Modulus = 32
    MaxFailures = 1
    MaxStops = 1
PROPERTIES MissingEventuallySynced MonitorKeepsRunning OldEventuallyPruned
