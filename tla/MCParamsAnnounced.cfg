CONSTANTS
    TicksPerSecond = 2
    Interval = 1
    Grace = 1
    StartTime = 1
    MaxTime = 6
    Prices = {1}
    Fees = {1}
    FeeWord = 8
    GasPrices = {g0}
    DefaultGasPrices = g0
    Params = {p0, p1, p2}
    DefaultParams = p0
    Cuts = {0, 1, 2}
    NinetyPercent = 1
SPECIFICATION Spec
INVARIANT ParamsAnnounced
