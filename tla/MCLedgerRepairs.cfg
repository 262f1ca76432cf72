CONSTANTS
    MinAsset = 2
    MaxAmount = 3
    TopBit = 8
    Accounts = {self, alice, bob}
    Self = self
    Contracts = {bob}
    Receivers = {}
    Addrs = {x}
    Supply = 2
    Amounts = {0, 2}
    Quantities = {0, 1}
    MaxNonce = 1
    MaxDepth = 2
    Deltas = {1}
    MaxEvm = 15
    MaxDrift = 1
SPECIFICATION RepairSpec
INVARIANTS BackingExact Solvency CoveredUnlessAdded RowsConsistent
CHECK_DEADLOCK FALSE
