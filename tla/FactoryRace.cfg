\* Two goroutines miss the cache together
SPECIFICATION Spec
CONSTANTS
    Workers = {w1, w2}
    RmIds = {"a"}
    NoManager = NoManager
INVARIANTS
    OneManagerPerId
