CONSTANTS
    TicksPerSecond = 1
    Interval = 1
    Grace = 1
    StartTime = 1
    MaxTime = 5
    Prices = {1, 2}
    Fees = {2}
    FeeWord = 8
    GasPrices = {g0}
    DefaultGasPrices = g0
    Params = {p0}
    DefaultParams = p0
    Cuts = {0}
    NinetyPercent = 1
SPECIFICATION Spec
INVARIANTS EnqueueNeverFails FrontCoversQueue DuePricesApplied
PROPERTIES OneRuleSetPerBlock GraceRespected ExecAgrees
