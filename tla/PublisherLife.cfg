SPECIFICATION FairSpec
CONSTANTS
    t1 = t1
    t2 = t2
    Subscriptions <- const_Subscriptions
    Guarded <- const_Guarded
    ToSocket <- const_Guarded
    Txs <- const_Txs
    Limit = 1
INVARIANTS TypeOK ServesOrStops PublishedOnce
PROPERTIES StopsInTheEnd StayingIsPublished
