\* The margin check of an account whose positions lost their quotes over the
\* weekend.
SPECIFICATION ValueSpec
CONSTANTS
    Symbols <- Seeded
    AroundTheClock = {"BTCUSD"}
    AccountCurrency = "USD"
    QuoteCurrency <- SeededQuoteCurrency
    XUSD <- SeededXUSD
    USDX <- SeededUSDX
    NoSymbol = "none"
    Slots = {p1, p2}
    Screens = {}
    Lock = lock
    Drivers = {"memory", "redis"}
    MaxRestarts = 1
INVARIANTS
    MarginCountsAll
SYMMETRY RowSymmetry
CHECK_DEADLOCK FALSE
