SPECIFICATION Spec
CONSTANTS
    Prices = {2, 5}
    Quantities = {1, 2}
    Currencies = {c1, c2, c3}
    kCapacity = 2
    kMaxRealizedLoss = 4
    MaxFills = 3
    MaxUpdates = 1
    MaxTransfers = 1
    MaxLosses = 1
    MaxOnTheWay = 2
INVARIANTS PnlIsCashFlow PositionIsExchanges LossTriggersKillSwitch BalancesAreExchanges
SYMMETRY CurrencySymmetry
CHECK_DEADLOCK FALSE
