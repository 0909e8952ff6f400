------------------------------ MODULE Wallet ------------------------------
(***************************************************************************)
(* One client's money in the double-entry ledger: WalletService.transfer,  *)
(* PaymentsService.requestWithdrawal and LedgerService.post/balance, with  *)
(* the other movements (deposits, trade settlements) as single steps.      *)
(*                                                                         *)
(* A balance is never stored; it is the credits minus the debits of a      *)
(* code, which is what net holds.  A transfer and a withdrawal read a      *)
(* balance, await, and post: two steps, and no transaction or lock spans   *)
(* them, so other requests of the same client come in between.             *)
(*                                                                         *)
(* Amounts count half cents, so that rounding to cents meets its ties.     *)
(***************************************************************************)
EXTENDS Integers, FiniteSets

CONSTANTS
    Accounts,      \* the client's trading accounts
    DemoAccount,   \* the one the seed funds
    Opening,       \* its opening balance
    Requests,      \* HTTP requests that can be in progress together
    Amounts,       \* amounts a client may ask for
    MinWithdraw,   \* MIN_WITHDRAW_USD
    Moves,         \* amounts of deposits, profits and losses
    MaxMoves       \* bound on how many of them happen

OtherCodes == {"wallet", "payable:withdrawals", "psp:mpesa:clearing",
               "equity:demo_funding", "pnl:trading"}
Codes == Accounts \cup OtherCodes

ASSUME WalletAssumption ==
    /\ Accounts \cap OtherCodes = {}
    /\ DemoAccount \in Accounts
    /\ Opening \in Nat
    /\ Amounts \subseteq Nat
    /\ MinWithdraw \in Nat
    /\ Moves \subseteq Nat
    /\ MaxMoves \in Nat

VARIABLES
    net,          \* net[c]: credits minus debits of the ledger code c
    requested,    \* the amounts of the REQUESTED withdrawal rows, summed
    kycApproved,  \* kyc.status = 'APPROVED' and kyc.tier >= 1
    request,      \* request[r]: a request between its check and its post
    moves         \* deposits and settlements so far

vars == <<net, requested, kycApproved, request, moves>>

Idle     == [pc |-> "idle"]
Transfer == {t \in [pc : {"transfer"}, from : Accounts \cup {"wallet"},
                    to : Accounts \cup {"wallet"}, amount : Nat] :
               t.from = "wallet" <=> t.to # "wallet"}
Withdraw == [pc : {"withdraw"}, amount : Nat]

TypeOK ==
    /\ net \in [Codes -> Int]
    /\ requested \in Nat
    /\ kycApproved \in BOOLEAN
    /\ request \in [Requests -> {Idle} \cup Transfer \cup Withdraw]
    /\ moves \in 0..MaxMoves

Init ==
    /\ net = [c \in Codes |-> CASE c = DemoAccount           -> Opening
                                [] c = "equity:demo_funding" -> 0 - Opening
                                [] OTHER                     -> 0]
    /\ requested = 0
    /\ kycApproved \in BOOLEAN
    /\ request = [r \in Requests |-> Idle]
    /\ moves = 0

---------------------------------------------------------------------------
(* Money                                                                   *)

(* money(x): to whole cents, a tie to the even cent.                       *)
Money(x) ==
    IF x % 2 = 0 THEN x ELSE IF (x \div 2) % 2 = 0 THEN x - 1 ELSE x + 1

(* A journal entry of two lines: debit one code, credit the other.         *)
Post(from, to, x) ==
    net' = [net EXCEPT ![from] = @ - x, ![to] = @ + x]

---------------------------------------------------------------------------
(* Transfers between the wallet and a trading account                      *)

(* Variant: the balance is compared with the amount before it is rounded.  *)
CoversUnrounded(code, x) == net[code] >= x

Covers(code, x) == net[code] >= Money(x)

(* Variant: the direction is not looked at.                                *)
AnyDirection(from, to) == from # to

(* TO_ACCOUNT and TO_WALLET.                                               *)
Direction(from, to) ==
    \/ from = "wallet" /\ to \in Accounts
    \/ from \in Accounts /\ to = "wallet"

RequestTransfer(r, from, to, x) ==
    /\ request[r] = Idle
    /\ Direction(from, to)
    /\ x > 0
    /\ Covers(from, x)
    /\ request' = [request EXCEPT ![r] = [pc |-> "transfer", from |-> from, to |-> to,
                                          amount |-> Money(x)]]
    /\ UNCHANGED <<net, requested, kycApproved, moves>>

PostTransfer(r) ==
    /\ request[r].pc = "transfer"
    /\ Post(request[r].from, request[r].to, request[r].amount)
    /\ request' = [request EXCEPT ![r] = Idle]
    /\ UNCHANGED <<requested, kycApproved, moves>>

---------------------------------------------------------------------------
(* Withdrawals: the row and the entry that locks the funds are written in  *)
(* one transaction, after the checks.  Both carry the amount to 10         *)
(* decimals, never to cents.                                               *)

RequestWithdrawal(r, x) ==
    /\ request[r] = Idle
    /\ kycApproved
    /\ x >= MinWithdraw
    /\ net["wallet"] >= x
    /\ request' = [request EXCEPT ![r] = [pc |-> "withdraw", amount |-> x]]
    /\ UNCHANGED <<net, requested, kycApproved, moves>>

(* Variant: the funds are locked to the cent.                              *)
LockedToTheCent(x) == Money(x)

LockedAmount(x) == x

LockForWithdrawal(x) == Post("wallet", "payable:withdrawals", LockedAmount(x))

CreateWithdrawal(r) ==
    /\ request[r].pc = "withdraw"
    /\ requested' = requested + request[r].amount
    /\ LockForWithdrawal(request[r].amount)
    /\ request' = [request EXCEPT ![r] = Idle]
    /\ UNCHANGED <<kycApproved, moves>>

(* The request throws before it posts, or the process stops.               *)
Abandon(r) ==
    /\ request[r] # Idle
    /\ request' = [request EXCEPT ![r] = Idle]
    /\ UNCHANGED <<net, requested, kycApproved, moves>>

---------------------------------------------------------------------------
(* The other services' entries                                             *)

CreditDeposit(x) ==
    /\ moves < MaxMoves
    /\ Post("psp:mpesa:clearing", "wallet", x)
    /\ moves' = moves + 1
    /\ UNCHANGED <<requested, kycApproved, request>>

(* A close settles a profit or a loss; no check keeps the account above    *)
(* zero.                                                                   *)
SettleTrade(a, x) ==
    /\ moves < MaxMoves
    /\ Post("pnl:trading", a, x) \/ Post(a, "pnl:trading", x)
    /\ moves' = moves + 1
    /\ UNCHANGED <<requested, kycApproved, request>>

Next ==
    \/ \E r \in Requests :
         \/ \E from, to \in Accounts \cup {"wallet"}, x \in Amounts : RequestTransfer(r, from, to, x)
         \/ PostTransfer(r)
         \/ \E x \in Amounts : RequestWithdrawal(r, x)
         \/ CreateWithdrawal(r)
         \/ Abandon(r)
    \/ \E x \in Moves : CreditDeposit(x)
    \/ \E a \in Accounts, x \in Moves : SettleTrade(a, x)

Spec == Init /\ [][Next]_vars

---------------------------------------------------------------------------
(* Properties                                                              *)

(* What the ledger owes for withdrawals is what the rows ask for, through  *)
(* every failure and interleaving (requestWithdrawal's transaction).       *)
PayableMatchesRequests == net["payable:withdrawals"] = requested

(* Requests that race past the same balance overdraw the wallet, by no     *)
(* more than the requests besides the first can take; a lone request never *)
(* does (the checks of transfer and requestWithdrawal).                    *)
LargestDebit == CHOOSE m \in Amounts \cup {Money(x) : x \in Amounts} :
                  \A x \in Amounts : x <= m /\ Money(x) <= m

OverdraftBounded ==
    net["wallet"] >= 0 - (Cardinality(Requests) - 1) * LargestDebit

(* "Not enough wallet balance.": the wallet is never overdrawn.  It does   *)
(* not hold when two requests run at once.                                 *)
WalletNeverNegative == net["wallet"] >= 0
============================================================================
