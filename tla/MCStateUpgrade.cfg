CONSTANTS
    Addrs = {x, y}
    Hashes = {1, 2}
    Keys = {k}
    Values = {0, 1}
    Datas = {0}
    Ids = {0, 1, 2}
    Budgets = {1}
SPECIFICATION UpgradeSpec
PROPERTY IdsNotReused
