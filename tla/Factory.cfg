\* Three goroutines, two accounts
SPECIFICATION FairSpec
CONSTANTS
    Workers = {w1, w2, w3}
    RmIds = {"a", "b"}
    NoManager = NoManager
INVARIANTS
    MapNeverRaces
    ManagerFits
PROPERTIES
    EveryCallReturns
