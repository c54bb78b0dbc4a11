SPECIFICATION Spec
CONSTANTS
    listed1 = listed1
    listed2 = listed2
    unlisted = unlisted
    transactions = transactions
    mempool = mempool
    Denoms <- const_Denoms
    Callers <- const_Callers
    Messages <- const_Messages
    Pages <- const_Pages
    MaxFailures = 0
    MaxStops = 1
INVARIANT NeverAborts
