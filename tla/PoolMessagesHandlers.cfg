SPECIFICATION Spec
CONSTANTS
    p1 = p1
    p2 = p2
    none = none
    Pools <- const_Pools
    NoPool = none
    PoolIds <- const_PoolIds
    EventIds <- const_EventIds
    Hours <- const_Hours
    DefaultBlocksPerHour = 1
    HourTicks = 2
    MaxGap = 2
    FirstHeight = 20
    MaxHeight = 22
INVARIANTS TypeOK LookbacksForAll CurrentOrNothing LookbacksAtStatedRate NothingNewer ClockNear
PROPERTIES BlocksReported
