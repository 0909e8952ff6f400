\* Two requests at a time against one balance.
SPECIFICATION Spec
CONSTANTS
    Accounts = {a1}
    DemoAccount = a1
    Opening = 6
    Requests = {r1, r2}
    Amounts = {1, 3, 4}
    MinWithdraw = 3
    Moves = {8}
    MaxMoves = 1
INVARIANTS
    WalletNeverNegative
CHECK_DEADLOCK FALSE
