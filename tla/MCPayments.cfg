\* Two deposits that share the one receipt of the simulated provider, two
\* callback invocations at a time, two crashes or failures.
SPECIFICATION Spec
CONSTANTS
    Deposits = {d1, d2}
    Receipts = {r1}
    NoReceipt = NoReceipt
    Handlers = {h1, h2}
    Providers = {"daraja", "simulated"}
    MaxFaults = 2
SYMMETRY Symmetry
INVARIANTS
    TypeOK
    OneCreditPerConfirmedDeposit
    OutcomeAsRecorded
    
PROPERTIES
    ImplementsPromise
CHECK_DEADLOCK FALSE
