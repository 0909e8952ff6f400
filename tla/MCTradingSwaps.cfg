\* One position in parts, two nights, a withdrawal.
SPECIFICATION Spec
CONSTANTS
    Slots = {p1}
    Orders = {o1}
    NoOrder = none
    Quotes = {6}
    Spread = 1
    Slips = {0}
    Sizes = {1, 3, 4, 8}
    LotStep = 4
    MaxLot = 8
    LotScale = 4
    Protections <- Bare
    Triggers = {}
    Leverage = 2
    SwapLong = 2
    SwapShort = 1
    SwapDen = 3
    TripleDays = {2}
    Transfers = {40}
    Opening = 40
    MaxCloses = 2
    MaxModifies = 0
    MaxTransfers = 1
    MaxDays = 2
    MaxFaults = 1
INVARIANTS
    TypeOK
    LotsWithinRounding
    SwapIsAccruedOrSettled
    OneChargePerNight
