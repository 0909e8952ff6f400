\* The service: two deposits that share a receipt, one fault.  The form: two
\* deposits, two status requests at a time, and two requests that fail.  The
\* lock: four calls over two accounts, in every order and grouping.  No
\* symmetry: the run checks liveness.
SPECIFICATION LiveSpec
CONSTANTS
    Deposits = {d1, d2}
    Receipts = {r1}
    NoReceipt = NoReceipt
    Handlers = {h1, h2}
    Providers = {"daraja", "simulated"}
    MaxFaults = 1
    MyDeposits = {e1, e2}
    MyReceipts = {k1, k2}
    NoDeposit = NoDeposit
    MaxPolls = 2
    MaxFailures = 2
    Calls = {c1, c2, c3, c4}
    Accounts = {a1, a2}
    Resolved = Resolved
INVARIANTS
    MutualExclusion
    FirstComeFirstServed
PROPERTIES
    CallbackSettles
    SettledIsShown
    EveryCallIsServed
CHECK_DEADLOCK FALSE
