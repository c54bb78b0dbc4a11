SPECIFICATION Spec
CONSTANTS
    p1 = p1
    p2 = p2
    Pools <- const_Pools
    PoolIds <- const_OnePoolIds
    IdLists <- const_OneIdLists
    Blocks = 2
    QueueCap = 1
    Lookbacks = {1}
    Readers = {reader}
    Syncer = syncer
    FirstHeight = 2
    MaxHeight = 3
    Modulus = 32
    MaxFailures = 0
    MaxStops = 0

PROPERTY WindowKept
