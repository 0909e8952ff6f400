\* The boundary of the stop-out: books of two positions.
SPECIFICATION BookSpec
CONSTANTS
    Balances = {0, 5}
    Swings = {0, 4}
    Notionals = {2, 10}
    MaxBook = 2
    BookLeverage = 1
    StopOutLevel = 50
INVARIANTS
    PlanRestoresAbove
CHECK_DEADLOCK FALSE
