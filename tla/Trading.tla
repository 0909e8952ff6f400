------------------------------ MODULE Trading ------------------------------
(***************************************************************************)
(* One trading account: TradingService (orders, closes, the evaluation of  *)
(* the account, swaps) driven by its owner's requests and by AccountEngine *)
(* once a second.                                                          *)
(*                                                                         *)
(* withLock lets one call at a time work on the account (AccountLock), so  *)
(* one variable holds the call that has the lock.  The calls that wait are *)
(* left out: a call begins when the lock is free.  Three things go on      *)
(* without the lock and come in between the awaits of the call: quotes,    *)
(* the swap rollover, and transfers between the account and the wallet.    *)
(*                                                                         *)
(* One instrument, quoted from the start.  A price is at least 1, so 0 is  *)
(* no stop, no target, no price, as in the code's truth tests.             *)
(***************************************************************************)
EXTENDS Engine, SequencesExt

CONSTANTS
    Slots,         \* rows of the positions table
    Orders,        \* rows of the orders table
    NoOrder,       \* a position that no order opened
    Quotes,        \* bid prices
    Spread,        \* ask - bid
    Slips,         \* slippagePoints
    Sizes,         \* lots a client may ask for
    LotStep,       \* minLot and lotStep
    MaxLot,        \* maxLot
    LotScale,      \* the last digit the lots columns keep
    Protections,   \* the stop-loss and take-profit a client may ask for
    Triggers,      \* prices of pending orders
    Leverage,      \* of the account
    SwapLong, SwapShort,  \* points a night takes from a lot
    SwapDen,       \* denominator of the conversion rate of a swap
    TripleDays,    \* the Wednesdays
    Transfers,     \* amounts moved from or to the wallet
    Opening,       \* opening balance
    MaxCloses,     \* bound on the owner's closes
    MaxModifies,   \* bound on his changes of stops
    MaxTransfers,  \* bound on transfers
    MaxDays,       \* bound on days
    MaxFaults      \* bound on failed calls and restarts

STOP_OUT_LEVEL == 50

ASSUME TradingAssumption ==
    /\ NoOrder \notin Orders
    /\ Quotes \subseteq Nat \ {0} /\ Spread \in Nat /\ Slips \subseteq Nat
    /\ Sizes \subseteq Nat \ {0}
    /\ LotStep \in Nat \ {0} /\ MaxLot \in Nat /\ LotScale \in Nat \ {0}
    /\ Protections \subseteq [sl : Nat, tp : Nat] /\ Triggers \subseteq Nat \ {0}
    /\ Leverage \in Nat \ {0}
    /\ SwapLong \in Nat /\ SwapShort \in Nat /\ SwapDen \in Nat \ {0}
    /\ TripleDays \subseteq Nat /\ Transfers \subseteq Nat /\ Opening \in Nat
    /\ {MaxCloses, MaxModifies, MaxTransfers, MaxDays, MaxFaults} \subseteq Nat

VARIABLES
    bid,        \* the quote in the last-value cache; the ask is Spread above
    balance,    \* credits minus debits of the account's ledger code
    positions,  \* the positions table
    orders,     \* the orders table
    job,        \* the call that holds the account's lock
    closing,    \* its closeInternal, if one is under way
    tick,       \* where AccountEngine.tick stands
    roll,       \* the positions applySwaps has read and not yet updated
    lastSwapDay,
    clock,      \* the day, and whether it is the hour of the rollover
    transfer,   \* a transfer to the wallet between its check and its post
    used,       \* how much of each bound is used up
    paid,       \* history: what closes and rollovers did to each position
    still       \* history: nothing but the plan's closes since the plan

db   == <<balance, positions, orders>>
lock == <<job, closing>>
ae   == <<tick, roll, lastSwapDay>>
vars == <<bid, balance, positions, orders, job, closing, tick, roll, lastSwapDay,
          clock, transfer, used, paid, still>>

---------------------------------------------------------------------------
(* Rows and states                                                         *)

Idle == [pc |-> "idle"]
None == [pc |-> "none"]

NoPosition == [status |-> "none", side |-> "BUY", lots |-> 0, open |-> 0, sl |-> 0,
               tp |-> 0, swap |-> 0, order |-> NoOrder]
NoRow      == [status |-> "none", side |-> "BUY", kind |-> "LIMIT", lots |-> 0,
               price |-> 0, sl |-> 0, tp |-> 0]

Position == [status : {"none", "OPEN", "CLOSED"}, side : Sides, lots : Nat, open : Int,
             sl : Nat, tp : Nat, swap : Int, order : Orders \cup {NoOrder}]
Order    == [status : {"none", "PENDING", "FILLED"}, side : Sides, kind : {"LIMIT", "STOP"},
             lots : Nat, price : Triggers \cup {0}, sl : Nat, tp : Nat]

Jobs ==
    {Idle} \cup [pc : {"close"}]
    \cup [pc : {"margin", "open"}, side : Sides, lots : Nat, fill : Int,
          sl : Nat, tp : Nat]
    \cup [pc : {"trigger"}, todo : SUBSET Orders]
    \cup [pc : {"fill"}, order : Orders, todo : SUBSET Orders]
    \cup [pc : {"stops"}, todo : SUBSET Slots]
    \cup [pc : {"plan"}, todo : Seq(Slots)]

Closings ==
    {None} \cup [pc : {"read"}, slot : Slots, lots : Nat]
    \cup [pc : {"settle"}, slot : Slots, lots : Nat, total : Nat, swap : Int, price : Int]

TypeOK ==
    /\ bid \in Quotes
    /\ balance \in Int
    /\ positions \in [Slots -> Position]
    /\ orders \in [Orders -> Order]
    /\ job \in Jobs
    /\ closing \in Closings
    /\ tick \in {"idle", "evaluate", "evaluating", "roll", "rolling"}
    /\ roll \subseteq [slot : Slots, swap : Int, charge : Int]
    /\ lastSwapDay \in 0..MaxDays
    /\ clock \in [day : 1..(MaxDays + 1), rollover : BOOLEAN]
    /\ transfer \in Transfers \cup {0}
    /\ used \in [closes : 0..MaxCloses, modifies : 0..MaxModifies,
                 transfers : 0..MaxTransfers, faults : 0..MaxFaults]
    /\ paid \in [Slots -> [opened : Nat, lots : Nat, charged : Int, swap : Int,
                           rolls : Nat, raced : BOOLEAN]]
    /\ still \in BOOLEAN

Init ==
    /\ bid \in Quotes
    /\ balance = Opening
    /\ positions = [s \in Slots |-> NoPosition]
    /\ orders = [o \in Orders |-> NoRow]
    /\ job = Idle
    /\ closing = None
    /\ tick = "idle"
    /\ roll = {}
    /\ lastSwapDay = 0
    /\ clock = [day |-> 1, rollover |-> FALSE]
    /\ transfer = 0
    /\ used = [closes |-> 0, modifies |-> 0, transfers |-> 0, faults |-> 0]
    /\ paid = [s \in Slots |-> [opened |-> 0, lots |-> 0, charged |-> 0, swap |-> 0,
                                rolls |-> 0, raced |-> FALSE]]
    /\ still = FALSE

---------------------------------------------------------------------------
(* Prices and the account's metrics                                        *)

EntryPrice(side) == IF side = "BUY" THEN bid + Spread ELSE bid
ExitPrice(side)  == IF side = "BUY" THEN bid ELSE bid + Spread

Open    == {s \in Slots : positions[s].status = "OPEN"}
Free    == {s \in Slots : positions[s].status = "none"}
Pending == {o \in Orders : orders[o].status = "PENDING"}

(* positionMath, for the positions in the order a query returned them.     *)
BookOf(seq) ==
    [i \in DOMAIN seq |->
       LET p == positions[seq[i]]
       IN  [pnl |-> FloatingPnl(p.side, p.open, ExitPrice(p.side), p.lots),
            notional |-> Notional(p.lots, p.open)]]

Book   == BookOf(SetToSeq(Open))
Equity == balance + PnlOf(Book, DOMAIN Book)
Used   == UsedNotional(Book, DOMAIN Book)

ValidLots(n) == LotStep <= n /\ n <= MaxLot /\ n % LotStep = 0

(* BOUND: every pending order keeps a free row for its position.           *)
RoomForPosition == Cardinality(Free) > Cardinality(Pending)

OpenRow(s, side, lots, price, g, o) ==
    /\ positions' = [positions EXCEPT ![s] =
         [status |-> "OPEN", side |-> side, lots |-> lots, open |-> price,
          sl |-> g.sl, tp |-> g.tp, swap |-> 0, order |-> o]]
    /\ paid' = [paid EXCEPT ![s].opened = lots]

---------------------------------------------------------------------------
(* placeOrder                                                              *)

MarketOrder(pc, side, n, fill, g) ==
    [pc |-> pc, side |-> side, lots |-> n, fill |-> fill, sl |-> g.sl, tp |-> g.tp]

FillPrice(side, slip) ==
    IF side = "BUY" THEN EntryPrice(side) + slip ELSE EntryPrice(side) - slip

(* MARKET: the price is fixed first, then the margin is checked, then the  *)
(* position is written.                                                    *)
PlaceMarket(side, n, g, slip) ==
    /\ job = Idle
    /\ RoomForPosition
    /\ ValidLots(n)
    /\ job' = MarketOrder("margin", side, n, FillPrice(side, slip), g)
    /\ UNCHANGED <<bid, db, closing, ae, clock, transfer, used, paid, still>>

CheckMargin ==
    /\ job.pc = "margin"
    /\ job' = IF Equity * Leverage - Used >= Notional(job.lots, job.fill)
              THEN MarketOrder("open", job.side, job.lots, job.fill, job) ELSE Idle
    /\ UNCHANGED <<bid, db, closing, ae, clock, transfer, used, paid, still>>

OpenPosition(s) ==
    /\ job.pc = "open"
    /\ s \in Free
    /\ OpenRow(s, job.side, job.lots, job.fill, job, NoOrder)
    /\ job' = Idle
    /\ UNCHANGED <<bid, balance, orders, closing, ae, clock, transfer, used, still>>

(* LIMIT and STOP: the row and nothing else; no margin is looked at.       *)
PlacePending(o, side, kind, n, price, g) ==
    /\ job = Idle
    /\ orders[o].status = "none"
    /\ RoomForPosition
    /\ ValidLots(n)
    /\ orders' = [orders EXCEPT ![o] =
         [status |-> "PENDING", side |-> side, kind |-> kind, lots |-> n,
          price |-> price, sl |-> g.sl, tp |-> g.tp]]
    /\ UNCHANGED <<bid, balance, positions, lock, ae, clock, transfer, used, paid, still>>

---------------------------------------------------------------------------
(* closeInternal: read the position and the quote, then settle in one      *)
(* transaction with what was read.                                         *)

(* closePosition; n = 0 stands for a request without lots.                 *)
ClosePosition(s, n) ==
    /\ job = Idle
    /\ s \in Slots \ Free
    /\ used.closes < MaxCloses
    /\ used' = [used EXCEPT !.closes = @ + 1]
    /\ job' = [pc |-> "close"]
    /\ closing' = [pc |-> "read", slot |-> s, lots |-> n]
    /\ UNCHANGED <<bid, db, ae, clock, transfer, paid, still>>

(* The call is over, for the owner's request with its lock.                *)
AfterClose == IF job.pc = "close" THEN Idle ELSE job

(* Variant: the size of the position is not looked at.                     *)
AnyPart(p, n) == p.status = "OPEN"

CanClose(p, n) == p.status = "OPEN" /\ n <= p.lots

ReadForClose ==
    LET p == positions[closing.slot]
    IN  /\ closing.pc = "read"
        /\ IF CanClose(p, closing.lots)
           THEN /\ closing' = [pc |-> "settle", slot |-> closing.slot,
                               lots |-> IF closing.lots = 0 THEN p.lots ELSE closing.lots,
                               total |-> p.lots, swap |-> p.swap, price |-> ExitPrice(p.side)]
                /\ UNCHANGED job
           ELSE closing' = None /\ job' = AfterClose
        /\ UNCHANGED <<bid, db, ae, clock, transfer, used, paid, still>>

Stored(lots) == LotScale * HalfAway(lots, LotScale)

(* Variant: a partial close leaves the swap with the position.             *)
SwapLeft(c) == c.swap

(* What a partial close leaves of the accrued swap, as the column keeps it.*)
SwapRest(c) == HalfAway(c.swap * (c.total - c.lots), c.total)

SwapPortion(c) == IF c.total = 0 THEN [n |-> 0, d |-> 1] ELSE [n |-> c.swap * c.lots, d |-> c.total]

ClosedRow(p) == [p EXCEPT !.status = "CLOSED", !.swap = 0]

(* Variant: a partial close does not take its lots off the position.       *)
SameLots(p, c) == [p EXCEPT !.swap = SwapRest(c)]

ReducedRow(p, c) == [p EXCEPT !.lots = Stored(c.total - c.lots), !.swap = SwapRest(c)]

SettleClose ==
    LET c     == closing
        p     == positions[c.slot]
        pnl   == FloatingPnl(p.side, p.open, c.price, c.lots)
        lines == SettlementLines("client", [n |-> pnl, d |-> 1], SwapPortion(c))
    IN  /\ closing.pc = "settle"
        /\ balance' = balance + lines[1].credit - lines[1].debit
        /\ positions' = [positions EXCEPT ![c.slot] =
                           IF c.lots = c.total THEN ClosedRow(p) ELSE ReducedRow(p, c)]
        /\ closing' = None
        /\ job' = AfterClose
        /\ paid' = [paid EXCEPT
                      ![c.slot].lots  = @ + c.lots,
                      ![c.slot].swap  = @ + lines[3].debit - lines[3].credit,
                      ![c.slot].raced = @ \/ \E r \in roll : r.slot = c.slot]
        /\ still' = (still /\ c.swap = 0)
        /\ UNCHANGED <<bid, orders, ae, clock, transfer, used>>

(* modifyPosition: a field the request leaves out keeps its value.         *)
ModifyPosition(s, sl, tp) ==
    /\ job = Idle
    /\ s \in Open
    /\ used.modifies < MaxModifies
    /\ used' = [used EXCEPT !.modifies = @ + 1]
    /\ positions' = [positions EXCEPT ![s].sl = sl, ![s].tp = tp]
    /\ UNCHANGED <<bid, balance, orders, lock, ae, clock, transfer, paid, still>>

---------------------------------------------------------------------------
(* AccountEngine.tick and evaluate                                         *)

(* Only an account with an open position is evaluated.                     *)
TickStarts ==
    /\ tick = "idle"
    /\ tick' = IF Open # {} THEN "evaluate" ELSE "roll"
    /\ UNCHANGED <<bid, db, lock, roll, lastSwapDay, clock, transfer, used, paid, still>>

BeginEvaluation ==
    /\ tick = "evaluate"
    /\ job = Idle
    /\ tick' = "evaluating"
    /\ job' = [pc |-> "trigger", todo |-> Pending]
    /\ UNCHANGED <<bid, db, closing, roll, lastSwapDay, clock, transfer, used, paid, still>>

(* A limit order waits for a better price, a stop order for a worse one.   *)
Hit(o) ==
    LET px == EntryPrice(o.side)
    IN  IF (o.kind = "LIMIT") = (o.side = "BUY") THEN px <= o.price ELSE px >= o.price

(* Variant: stop orders are forgotten.                                     *)
TriggerLimitOrder(o) ==
    /\ job.pc = "trigger"
    /\ o \in job.todo
    /\ job' = IF orders[o].kind = "LIMIT" /\ Hit(orders[o])
              THEN [pc |-> "fill", order |-> o, todo |-> job.todo \ {o}]
              ELSE [pc |-> "trigger", todo |-> job.todo \ {o}]
    /\ UNCHANGED <<bid, db, closing, ae, clock, transfer, used, paid, still>>

TriggerOrder(o) ==
    /\ job.pc = "trigger"
    /\ o \in job.todo
    /\ job' = IF Hit(orders[o])
              THEN [pc |-> "fill", order |-> o, todo |-> job.todo \ {o}]
              ELSE [pc |-> "trigger", todo |-> job.todo \ {o}]
    /\ UNCHANGED <<bid, db, closing, ae, clock, transfer, used, paid, still>>

AfterFill == [pc |-> "trigger", todo |-> job.todo]

(* Variant: the order keeps its status.                                    *)
StillPending(o) == o

FilledRow(o) == [o EXCEPT !.status = "FILLED"]

(* fillFromOrder: at the price of now, whatever the margin.                *)
FillOrder(s) ==
    LET o == orders[job.order]
    IN  /\ job.pc = "fill"
        /\ s \in Free
        /\ job' = AfterFill
        /\ IF o.status = "PENDING"
           THEN /\ OpenRow(s, o.side, o.lots, EntryPrice(o.side), o, job.order)
                /\ orders' = [orders EXCEPT ![job.order] = FilledRow(o)]
           ELSE UNCHANGED <<positions, paid, orders>>
        /\ UNCHANGED <<bid, balance, closing, ae, clock, transfer, used, still>>

EndTriggers ==
    /\ job.pc = "trigger"
    /\ job.todo = {}
    /\ job' = [pc |-> "stops", todo |-> Open]
    /\ UNCHANGED <<bid, db, closing, ae, clock, transfer, used, paid, still>>

(* applyStopsAndTargets                                                    *)
StopHit(p)   == p.sl # 0 /\ IF p.side = "BUY" THEN bid <= p.sl ELSE bid + Spread >= p.sl
TargetHit(p) == p.tp # 0 /\ IF p.side = "BUY" THEN bid >= p.tp ELSE bid + Spread <= p.tp

StopOrTargetHit(p) == StopHit(p) \/ TargetHit(p)

CloseWhole(s) == [pc |-> "read", slot |-> s, lots |-> 0]

(* Variant: targets are not looked at.                                     *)
CheckStopLoss(s) ==
    /\ job.pc = "stops"
    /\ closing = None
    /\ s \in job.todo
    /\ job' = [pc |-> "stops", todo |-> job.todo \ {s}]
    /\ closing' = IF StopHit(positions[s]) THEN CloseWhole(s) ELSE None
    /\ UNCHANGED <<bid, db, ae, clock, transfer, used, paid, still>>

CheckStops(s) ==
    /\ job.pc = "stops"
    /\ closing = None
    /\ s \in job.todo
    /\ job' = [pc |-> "stops", todo |-> job.todo \ {s}]
    /\ closing' = IF StopOrTargetHit(positions[s]) THEN CloseWhole(s) ELSE None
    /\ UNCHANGED <<bid, db, ae, clock, transfer, used, paid, still>>

(* applyStopOut, up to the plan.  The level must not be above the stop-out *)
(* level; with no margin in use there is none.                             *)
EvaluationOver == job' = Idle /\ tick' = "roll"

(* Variant: the level is compared as a fraction with half a percent.       *)
BreachedBelowOnePercent == Used > 0 /\ Equity * Leverage * 200 < Used

Breached == Used > 0 /\ ~LevelAbove(Equity, Used, Leverage, STOP_OUT_LEVEL)

(* Variant: liquidation goes on to the margin-call level.                  *)
PlanToMarginCall(seq) ==
    LET plan == StopOutPlan(balance, BookOf(seq), Leverage, 100)
    IN  [k \in DOMAIN plan |-> seq[plan[k]]]

PlanOf(seq) ==
    LET plan == StopOutPlan(balance, BookOf(seq), Leverage, STOP_OUT_LEVEL)
    IN  [k \in DOMAIN plan |-> seq[plan[k]]]

EndStops ==
    /\ job.pc = "stops"
    /\ job.todo = {}
    /\ closing = None
    /\ IF Breached
       THEN /\ \E seq \in SetToSeqs(Open) : job' = [pc |-> "plan", todo |-> PlanOf(seq)]
            /\ still' = TRUE
            /\ UNCHANGED tick
       ELSE EvaluationOver /\ UNCHANGED still
    /\ UNCHANGED <<bid, db, closing, roll, lastSwapDay, clock, transfer, used, paid>>

Liquidate ==
    /\ job.pc = "plan"
    /\ closing = None
    /\ job.todo # << >>
    /\ closing' = CloseWhole(Head(job.todo))
    /\ job' = [pc |-> "plan", todo |-> Tail(job.todo)]
    /\ UNCHANGED <<bid, db, ae, clock, transfer, used, paid, still>>

EndStopOut ==
    /\ job.pc = "plan"
    /\ closing = None
    /\ job.todo = << >>
    /\ EvaluationOver
    /\ still' = FALSE
    /\ UNCHANGED <<bid, db, closing, roll, lastSwapDay, clock, transfer, used, paid>>

---------------------------------------------------------------------------
(* maybeRollSwaps and applySwaps: read the open positions, then write to   *)
(* each one what was read plus the night's charge.  No lock is taken.      *)

Charge(p) ==
    HalfAway(0 - SwapCharge(IF p.side = "BUY" THEN SwapLong ELSE SwapShort, p.lots,
                            clock.day \in TripleDays), SwapDen)

(* Variant: lastSwapDay is not looked at.                                  *)
AnyTime == clock.rollover

RolloverDue == clock.rollover /\ lastSwapDay # clock.day

MaybeRollSwaps ==
    /\ tick = "roll"
    /\ IF RolloverDue
       THEN /\ lastSwapDay' = clock.day
            /\ roll' = {[slot |-> s, swap |-> positions[s].swap, charge |-> Charge(positions[s])] :
                          s \in Open}
            /\ tick' = "rolling"
       ELSE tick' = "idle" /\ UNCHANGED <<lastSwapDay, roll>>
    /\ UNCHANGED <<bid, db, lock, clock, transfer, used, paid, still>>

ApplySwap(r) ==
    /\ r \in roll
    /\ roll' = roll \ {r}
    /\ positions' = [positions EXCEPT ![r.slot].swap = r.swap + r.charge]
    /\ paid' = [paid EXCEPT
                  ![r.slot].charged = @ + r.charge,
                  ![r.slot].rolls   = @ + 1,
                  ![r.slot].raced   = @ \/ (closing.pc = "settle" /\ closing.slot = r.slot)]
    /\ UNCHANGED <<bid, balance, orders, lock, tick, lastSwapDay, clock, transfer, used, still>>

EndRoll ==
    /\ tick = "rolling"
    /\ roll = {}
    /\ tick' = "idle"
    /\ UNCHANGED <<bid, db, lock, roll, lastSwapDay, clock, transfer, used, paid, still>>

---------------------------------------------------------------------------
(* What goes on outside: quotes, time, transfers (WalletService.transfer,  *)
(* in detail in Wallet), failures and restarts.                            *)

Quote(b) ==
    /\ bid # b
    /\ bid' = b
    /\ still' = FALSE
    /\ UNCHANGED <<db, lock, ae, clock, transfer, used, paid>>

TimePasses ==
    /\ clock.day <= MaxDays
    /\ clock' = IF clock.rollover THEN [day |-> clock.day + 1, rollover |-> FALSE]
                ELSE [clock EXCEPT !.rollover = TRUE]
    /\ UNCHANGED <<bid, db, lock, ae, transfer, used, paid, still>>

UseTransfer ==
    /\ used.transfers < MaxTransfers
    /\ used' = [used EXCEPT !.transfers = @ + 1]

TransferIn(x) ==
    /\ UseTransfer
    /\ balance' = balance + x
    /\ still' = FALSE
    /\ UNCHANGED <<bid, positions, orders, lock, ae, clock, transfer, paid>>

(* TO_WALLET looks at the balance, not at the margin in use.               *)
CheckTransferOut(x) ==
    /\ UseTransfer
    /\ transfer = 0
    /\ balance >= x
    /\ transfer' = x
    /\ UNCHANGED <<bid, db, lock, ae, clock, paid, still>>

PostTransferOut ==
    /\ transfer # 0
    /\ balance' = balance - transfer
    /\ transfer' = 0
    /\ still' = FALSE
    /\ UNCHANGED <<bid, positions, orders, lock, ae, clock, used, paid>>

UseFault ==
    /\ used.faults < MaxFaults
    /\ used' = [used EXCEPT !.faults = @ + 1]
    /\ still' = FALSE

(* A call of the owner throws before it writes.                            *)
PlaceThrows ==
    /\ job.pc \in {"margin", "open"}
    /\ UseFault
    /\ job' = Idle
    /\ UNCHANGED <<bid, db, closing, ae, clock, transfer, paid>>

(* closeInternal throws: for the evaluation a warning, it goes on.         *)
CloseThrows ==
    /\ closing # None
    /\ UseFault
    /\ closing' = None
    /\ job' = AfterClose
    /\ UNCHANGED <<bid, db, ae, clock, transfer, paid>>

(* So is a fill that throws.                                               *)
FillThrows ==
    /\ job.pc = "fill"
    /\ UseFault
    /\ job' = AfterFill
    /\ UNCHANGED <<bid, db, closing, ae, clock, transfer, paid>>

(* Any other call of the evaluation ends it, and the tick with it: a quote *)
(* or a query, and after the plan the audit.                               *)
EvaluationThrows ==
    /\ job.pc \in {"trigger", "stops"} \/ (job.pc = "plan" /\ job.todo = << >>)
    /\ closing = None
    /\ UseFault
    /\ job' = Idle
    /\ tick' = "idle"
    /\ UNCHANGED <<bid, db, closing, roll, lastSwapDay, clock, transfer, paid>>

(* A position that cannot be updated leaves the rest of them without swap. *)
RollThrows ==
    /\ tick = "rolling"
    /\ UseFault
    /\ roll' = {}
    /\ tick' = "idle"
    /\ UNCHANGED <<bid, db, lock, lastSwapDay, clock, transfer, paid>>

Restart ==
    /\ UseFault
    /\ job' = Idle
    /\ closing' = None
    /\ tick' = "idle"
    /\ roll' = {}
    /\ lastSwapDay' = 0
    /\ transfer' = 0
    /\ UNCHANGED <<bid, db, clock, paid>>

---------------------------------------------------------------------------
OwnerStep ==
    \/ \E side \in Sides, n \in Sizes, g \in Protections, slip \in Slips :
          PlaceMarket(side, n, g, slip)
    \/ CheckMargin
    \/ \E s \in Slots : OpenPosition(s)
    \/ \E o \in Orders, side \in Sides, kind \in {"LIMIT", "STOP"}, n \in Sizes,
          price \in Triggers, g \in Protections :
          PlacePending(o, side, kind, n, price, g)
    \/ \E s \in Slots, n \in Sizes \cup {0} : ClosePosition(s, n)
    \/ \E s \in Slots : \E sl \in {positions[s].sl} \cup {g.sl : g \in Protections},
                        tp \in {positions[s].tp} \cup {g.tp : g \in Protections} :
          ModifyPosition(s, sl, tp)

CloseStep == ReadForClose \/ SettleClose

EvaluationStep ==
    \/ \E o \in Orders : TriggerOrder(o)
    \/ \E s \in Slots : FillOrder(s)
    \/ EndTriggers
    \/ \E s \in Slots : CheckStops(s)
    \/ EndStops
    \/ Liquidate
    \/ EndStopOut

RollStep == MaybeRollSwaps \/ (\E r \in roll : ApplySwap(r)) \/ EndRoll

Fault == PlaceThrows \/ CloseThrows \/ FillThrows \/ EvaluationThrows \/ RollThrows \/ Restart

Next ==
    \/ OwnerStep
    \/ CloseStep
    \/ TickStarts
    \/ BeginEvaluation
    \/ EvaluationStep
    \/ RollStep
    \/ \E b \in Quotes : Quote(b)
    \/ TimePasses
    \/ \E x \in Transfers : TransferIn(x) \/ CheckTransferOut(x)
    \/ PostTransferOut
    \/ Fault

Spec == Init /\ [][Next]_vars

(* The timer fires every second, every await returns, and the lock serves  *)
(* its calls in the order they came (AccountLock!EveryCallIsServed), so    *)
(* the evaluation gets it however many calls the owner makes.              *)
Fairness ==
    /\ WF_vars(CheckMargin \/ \E s \in Slots : OpenPosition(s))
    /\ WF_vars(CloseStep)
    /\ WF_vars(TickStarts)
    /\ SF_vars(BeginEvaluation)
    /\ WF_vars(EvaluationStep)
    /\ WF_vars(RollStep)

FairSpec == Spec /\ Fairness
---------------------------------------------------------------------------
(* Properties                                                              *)

(* A pending order opens one position in its life, and it is FILLED when   *)
(* and only when it has, however often the engine evaluates the account    *)
(* and whatever fails in between (triggerPendingOrders, fillFromOrder).    *)
OrderFillsOnce ==
    \A o \in Orders :
      /\ \A s, t \in Slots : positions[s].order = o /\ positions[t].order = o => s = t
      /\ orders[o].status = "FILLED" <=> \E s \in Slots : positions[s].order = o

(* The lots a position was opened with are open or paid out, up to half of *)
(* the column's last digit for every partial close (closeInternal).        *)
OpenLots(s) == IF s \in Open THEN positions[s].lots ELSE 0

LotsWithinRounding ==
    \A s \in Slots :
      2 * Magnitude(paid[s].opened - OpenLots(s) - paid[s].lots) <= LotScale * used.closes

(* Every swap charged to a position is still accrued or was settled with   *)
(* it, up to one unit of the last decimal for every partial close, unless  *)
(* the rollover and a close of the position overlapped (applySwaps), or    *)
(* its lots were rounded to zero: what such a row owes is dropped when it  *)
(* is closed (closeInternal).                                              *)
SwapIsAccruedOrSettled ==
    \A s \in Slots : ~paid[s].raced /\ positions[s].lots > 0 =>
      Magnitude(paid[s].charged - positions[s].swap - paid[s].swap) <= used.closes

(* A night is charged once, and once more at most for each restart.        *)
OneChargePerNight == \A s \in Slots : paid[s].rolls <= clock.day + used.faults

(* While nothing else moves the account, no planned liquidation is one too *)
(* many, and the last one brings the level back to the stop-out level      *)
(* (applyStopOut: the plan is made before the first position closes).      *)
LevelRestored == Used = 0 \/ LevelAtLeast(Equity, Used, Leverage, STOP_OUT_LEVEL)

PlanStaysRight ==
    job.pc = "plan" /\ closing = None /\ still => (LevelRestored <=> job.todo = << >>)

(* A stop or target that is hit and stays hit closes its position.         *)
StopsAreHonoured ==
    \A s \in Slots : []<>~(s \in Open /\ StopOrTargetHit(positions[s]))

(* An account does not stay below the stop-out level.                      *)
NeverLeftUnderStopOut == []<>LevelRestored

(* A pending order that is hit and stays hit is filled, as long as the     *)
(* account has an open position: without one it is not evaluated at all.   *)
OrdersAreTriggered ==
    \A o \in Orders : []<>~(o \in Pending /\ Hit(orders[o]) /\ Open # {})

(* "Cannot close more than the position size.": the lots paid out are not  *)
(* more than the position was opened with.  It does not hold: closes below *)
(* the last digit of the column pay out and leave the position as it was.  *)
ClosesStayWithinSize == \A s \in Slots : OpenLots(s) + paid[s].lots <= paid[s].opened
============================================================================
