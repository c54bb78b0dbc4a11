SPECIFICATION Spec
CONSTANTS
    Heights <- const_Heights
    Volumes <- const_Volumes
    Prices <- const_Prices
    MaxWanted = 3
CHECK_DEADLOCK FALSE
INVARIANTS ExactWhereRecorded Bounded
