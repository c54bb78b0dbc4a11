SPECIFICATION Spec
CONSTANTS
    Values <- const_Values
    Blocks = 1
    MaxTime = 4
    MaxFailures = 1
    MaxStops = 1
INVARIANTS TypeOK CacheMatchesTable EstimateInterpolates
PROPERTY WindowKept
