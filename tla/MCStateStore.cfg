CONSTANTS
    Addrs = {x, y}
    Hashes = {1}
    Keys = {k}
    Values = {0, 1}
    Datas = {0, 1}
    Ids = {0, 1, 2}
    Budgets = {0, 1}
SPECIFICATION FairSpec
INVARIANTS TypeOK OneRowPerAddress RefCountsExact GarbageIsDead ScopesAccounted
PROPERTIES NewAccountsStartEmpty FrozenUntouched StateRefinement GarbageCollected
