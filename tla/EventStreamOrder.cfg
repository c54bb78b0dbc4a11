SPECIFICATION FairSpec
CONSTANTS
    blocks = blocks
    pools = pools
    Streams <- const_Streams
    Guarded <- const_Guarded
    Capacity = 2
    MaxEvents <- const_Events
    Timeout = 1
INVARIANTS TypeOK EventsAccounted PeakCoversLength
PROPERTIES KeepsOrder SilentStreamStopsProcess
