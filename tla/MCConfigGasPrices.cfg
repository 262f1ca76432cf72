CONSTANTS
    TicksPerSecond = 1
    Interval = 1
    Grace = 1
    StartTime = 1
    MaxTime = 5
    Prices = {1}
    Fees = {2}
    FeeWord = 8
    GasPrices = {g0, g1}
    DefaultGasPrices = g0
    Params = {p0}
    DefaultParams = p0
    Cuts = {0, 2}
    NinetyPercent = 1
SPECIFICATION Spec
PROPERTIES GraceRespected PricesInOrder
