SPECIFICATION Spec
CONSTANTS
    listed1 = listed1
    listed2 = listed2
    unlisted = unlisted
    transactions = transactions
    mempool = mempool
    Denoms <- const_Denoms
    Callers <- const_Callers
    Messages <- const_Messages
    Pages <- const_Pages
    MaxFailures = 2
    MaxStops = 2
INVARIANTS TypeOK SavedIsCached
PROPERTIES AskedOnce
