\* The early callback: one deposit, no faults.
SPECIFICATION Spec
CONSTANTS
    Deposits = {d1}
    Receipts = {r1}
    NoReceipt = NoReceipt
    Handlers = {h1}
    Providers = {"daraja"}
    MaxFaults = 0
INVARIANTS
    HandledPaymentIsCredited
CHECK_DEADLOCK FALSE
