CONSTANTS
    MinAsset = 2
    MaxAmount = 3
    TopBit = 8
    Accounts = {self, alice}
    Self = self
    Contracts = {alice}
    Receivers = {alice}
    Addrs = {x}
    Supply = 2
    Amounts = {0, 1, 3}
    Quantities = {0, 1}
    MaxNonce = 2
    MaxDepth = 3
SPECIFICATION Spec
INVARIANTS TypeOK Conservation Solvency TransfersCovered RowsConsistent NonceFresh
PROPERTIES FrozenStandsStill
CHECK_DEADLOCK FALSE
