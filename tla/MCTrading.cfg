SPECIFICATION FairSpec
CONSTANTS
    Slots = {p1, p2}
    Orders = {o1}
    NoOrder = none
    Quotes = {3, 6}
    Spread = 1
    Slips = {0}
    Sizes = {1, 4}
    LotStep = 4
    MaxLot = 4
    LotScale = 4
    Protections <- Bracket
    Triggers = {4}
    Leverage = 2
    SwapLong = 1
    SwapShort = 0
    SwapDen = 3
    TripleDays = {}
    Transfers = {12}
    Opening = 42
    MaxCloses = 0
    MaxModifies = 1
    MaxTransfers = 0
    MaxDays = 0
    MaxFaults = 1
INVARIANTS
    OrderFillsOnce
    PlanStaysRight
PROPERTIES
    StopsAreHonoured
    NeverLeftUnderStopOut
    OrdersAreTriggered
