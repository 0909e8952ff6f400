\* The wallet: two requests at a time; the odd amounts round down (1 -> 0) and
\* up (3 -> 4).  The positions: two in four instruments, either cache, one
\* restart, one snapshot besides the valuation of the call that holds the lock.
\* The plan: books of up to three positions, the level of some exactly 50% when
\* the plan ends.
SPECIFICATION FundsSpec
CONSTANTS
    Accounts = {a1, a2}
    DemoAccount = a1
    Opening = 6
    Requests = {r1, r2}
    Amounts = {1, 3, 4}
    MinWithdraw = 3
    Moves = {3, 8}
    MaxMoves = 2
    Symbols <- Seeded
    AroundTheClock = {"BTCUSD"}
    AccountCurrency = "USD"
    QuoteCurrency <- SeededQuoteCurrency
    XUSD <- SeededXUSD
    USDX <- SeededUSDX
    NoSymbol = "none"
    Slots = {p1, p2}
    Screens = {screen}
    Lock = lock
    Drivers = {"memory", "redis"}
    MaxRestarts = 1
    Balances = {0, 2, 5, 9}
    Swings = {0, 1, 4, 9}
    Notionals = {2, 4, 10}
    MaxBook = 3
    BookLeverage = 1
    StopOutLevel = 50
SYMMETRY Symmetry
INVARIANTS
    PayableMatchesRequests
    OverdraftBounded
    ValueTypeOK
    QuotedIsConverted
    EveryPositionCounts
    PlanIsWorstFirst
    PlanIsJustEnough
CHECK_DEADLOCK FALSE
