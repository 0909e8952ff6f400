----------------------------- MODULE Valuation -----------------------------
(***************************************************************************)
(* What an account with positions in several instruments is worth: the     *)
(* last-value cache and who is quoted in it (MarketDataService), the       *)
(* conversion to the account's currency (getConvRate), the walk over the   *)
(* open positions by which snapshots, margin checks and stop-outs value    *)
(* them (positionMath), and the orders, closes and swaps that rest on it.  *)
(*                                                                         *)
(* Of a price the model keeps whether there is one, of a conversion rate   *)
(* where it came from; what is done with the numbers is in Engine and      *)
(* Trading.  A quote in the cache stays until the process ends, so the two *)
(* lookups of a conversion are one step; quote and conversion are two.     *)
(***************************************************************************)
EXTENDS Naturals, Sequences, FiniteSets, Functions

CONSTANTS
    Symbols,         \* instruments that are enabled
    AroundTheClock,  \* those of category CRYPTO
    AccountCurrency, \* USD
    QuoteCurrency,   \* currency of each instrument's price
    XUSD,            \* the instrument named after a currency and USD, or NoSymbol
    USDX,            \* the instrument named after USD and a currency, or NoSymbol
    NoSymbol,
    Slots,           \* rows of the positions table
    Screens,         \* snapshots that may be under way besides the lock's own
    Lock,            \* the valuation by the call that holds the account's lock
    Drivers,         \* values of REDIS_DRIVER
    MaxRestarts      \* bound on restarts

Currencies == {QuoteCurrency[s] : s \in Symbols}

(* Every currency has an instrument against the dollar, and what is quoted *)
(* over the weekend needs none that is not (the seeded instruments).       *)
ASSUME ValuationAssumption ==
    /\ AroundTheClock \subseteq Symbols /\ NoSymbol \notin Symbols
    /\ XUSD \in [Currencies -> Symbols \cup {NoSymbol}]
    /\ USDX \in [Currencies -> Symbols \cup {NoSymbol}]
    /\ \A quoted \in {Symbols, AroundTheClock} : \A s \in quoted :
          \/ QuoteCurrency[s] = AccountCurrency
          \/ {XUSD[QuoteCurrency[s]], USDX[QuoteCurrency[s]]} \cap quoted # {}
    /\ IsFiniteSet(Slots) /\ Lock \notin Screens
    /\ Drivers \subseteq {"memory", "redis"} /\ MaxRestarts \in Nat

VARIABLES
    weekend,    \* marketsClosed
    driver,     \* REDIS_DRIVER
    lvc,        \* the symbols with a quote in the last-value cache
    forgotten,  \* history: quotes were lost, and the markets have not opened since
    symbol,     \* symbol[s]: the instrument of position s, NoSymbol before it exists
    pending,    \* the rows kept for a position by an order that is PENDING
    open,       \* the positions that are OPEN
    tick,       \* where AccountEngine.tick stands
    call,       \* the call that holds the account's lock
    builds,     \* the valuations under way
    roll,       \* positions the swap rollover has still to charge
    charge,     \* the charge it is about to write, with its rate
    restarts

Builders   == Screens \cup {Lock}
valueVars  == <<weekend, driver, lvc, forgotten, symbol, pending, open, tick, call,
                builds, roll, charge, restarts>>
market     == <<weekend, driver, lvc, forgotten>>
rows       == <<symbol, pending, open>>
rollover   == <<roll, charge>>
process    == <<tick, call, builds, rollover>>

Rates      == {"one", "direct", "inverse"}
Math       == [slot : Slots, rate : Rates]
NoCall     == [pc |-> "idle"]
NoCharge   == [pc |-> "none"]
NoBuild    == [pc |-> "none", ids |-> <<>>, at |-> 0, book |-> <<>>, blind |-> FALSE]

Calls ==
    {NoCall} \cup [pc : {"order"}, symbol : Symbols]
    \cup [pc : {"margin"}, symbol : Symbols, rate : Rates]
    \cup [pc : {"triggers", "stopout"}]
    \cup [pc : {"closes"}, todo : SUBSET Slots]
    \cup [pc : {"convert"}, slot : Slots, todo : SUBSET Slots]
    \cup [pc : {"settle"}, slot : Slots, rate : Rates, todo : SUBSET Slots]

ValueTypeOK ==
    /\ weekend \in BOOLEAN /\ driver \in Drivers
    /\ lvc \subseteq Symbols /\ forgotten \in BOOLEAN
    /\ symbol \in [Slots -> Symbols \cup {NoSymbol}]
    /\ pending \subseteq {s \in Slots : symbol[s] # NoSymbol}
    /\ open \subseteq {s \in Slots : symbol[s] # NoSymbol}
    /\ tick \in {"idle", "evaluate", "stops", "stopout", "roll", "rolling"}
    /\ call \in Calls
    /\ builds \in [Builders -> [pc : {"none", "quote", "rate", "done"}, ids : Seq(Slots),
                                at : Nat, book : Seq(Math), blind : BOOLEAN]]
    /\ roll \subseteq {s \in Slots : symbol[s] # NoSymbol}
    /\ charge \in {NoCharge} \cup [pc : {"write"}, slot : Slots, rate : Rates, blind : BOOLEAN]
    /\ restarts \in 0..MaxRestarts

ValueInit ==
    /\ weekend \in BOOLEAN
    /\ driver \in Drivers
    /\ lvc = {}
    /\ forgotten = FALSE
    /\ symbol = [s \in Slots |-> NoSymbol]
    /\ pending = {}
    /\ open = {}
    /\ tick = "idle"
    /\ call = NoCall
    /\ builds = [b \in Builders |-> NoBuild]
    /\ roll = {}
    /\ charge = NoCharge
    /\ restarts = 0

---------------------------------------------------------------------------
(* Quotes and conversion                                                   *)

(* marketsClosed changes with the clock.                                   *)
WeekendComesOrGoes ==
    /\ weekend' = ~weekend
    /\ UNCHANGED <<driver, lvc, forgotten, rows, process, restarts>>

Ticking == IF weekend THEN AroundTheClock ELSE Symbols

(* One run of the feed's interval: nothing comes between its instruments.  *)
FeedTicks ==
    /\ lvc' = lvc \cup Ticking
    /\ forgotten' = (forgotten /\ weekend)
    /\ UNCHANGED <<weekend, driver, rows, process, restarts>>

(* The in-process cache begins empty; Redis still has what it had.         *)
Restart ==
    /\ restarts < MaxRestarts
    /\ restarts' = restarts + 1
    /\ lvc' = IF driver = "memory" THEN {} ELSE lvc
    /\ forgotten' = (forgotten \/ driver = "memory")
    /\ tick' = "idle"
    /\ call' = NoCall
    /\ builds' = [b \in Builders |-> NoBuild]
    /\ roll' = {}
    /\ charge' = NoCharge
    /\ UNCHANGED <<weekend, driver, rows>>

HasQuote(s) == s \in lvc

(* Variant: only instruments named after the currency and USD are asked.   *)
DirectRate(currency) ==
    IF currency # AccountCurrency /\ XUSD[currency] \in lvc THEN "direct" ELSE "one"

(* Variant: without a rate there is none.                                  *)
RateOrNone(currency) ==
    IF currency = AccountCurrency THEN "one"
    ELSE IF XUSD[currency] \in lvc THEN "direct"
    ELSE IF USDX[currency] \in lvc THEN "inverse"
    ELSE "none"

(* With neither instrument quoted the rate is 1, and a warning is logged.  *)
GetConvRate(currency) ==
    IF currency = AccountCurrency THEN "one"
    ELSE IF XUSD[currency] \in lvc THEN "direct"
    ELSE IF USDX[currency] \in lvc THEN "inverse"
    ELSE "one"

RateOf(s) == GetConvRate(QuoteCurrency[symbol[s]])

---------------------------------------------------------------------------
(* buildSnapshot and positionMath                                          *)

(* The positions are read without an order.                                *)
NewBuild(ids) ==
    [pc |-> IF ids = <<>> THEN "done" ELSE "quote", ids |-> ids, at |-> 0,
     book |-> <<>>, blind |-> forgotten]

Listings == Bijection(1..Cardinality(open), open)

BeginBuild(b) == \E ids \in Listings : builds' = [builds EXCEPT ![b] = NewBuild(ids)]

(* A screen's snapshot: after a trade, in every round of the engine, when  *)
(* the account comes to be watched or is asked for.                        *)
BeginSnapshot(b) ==
    /\ builds[b].pc = "none"
    /\ BeginBuild(b)
    /\ UNCHANGED <<market, rows, tick, call, rollover, restarts>>

Considered(build) == build.ids[build.at + 1]

NextPosition(build) ==
    [build EXCEPT !.at = @ + 1, !.pc = IF build.at + 1 = Len(build.ids) THEN "done" ELSE "quote"]

(* A position without a quote is passed over.                              *)
ReadQuote(b) ==
    /\ builds[b].pc = "quote"
    /\ builds' = [builds EXCEPT ![b] =
          IF HasQuote(symbol[Considered(@)]) THEN [@ EXCEPT !.pc = "rate"] ELSE NextPosition(@)]
    /\ UNCHANGED <<market, rows, tick, call, rollover, restarts>>

Valued(build) ==
    LET s == Considered(build)
    IN  [build EXCEPT !.book = Append(@, [slot |-> s, rate |-> RateOf(s)])]

ReadRate(b) ==
    /\ builds[b].pc = "rate"
    /\ builds' = [builds EXCEPT ![b] = NextPosition(Valued(@))]
    /\ UNCHANGED <<market, rows, tick, call, rollover, restarts>>

Counted(build) == {build.book[i].slot : i \in DOMAIN build.book}

(* The position whose profit is shown in row i: its own, or else that of   *)
(* whichever position was valued as the i-th.                              *)
ShownInRow(build, i) ==
    IF build.ids[i] \in Counted(build) THEN {build.ids[i]}
    ELSE {build.book[k].slot : k \in DOMAIN build.book \cap {i}}

SnapshotSent(b) ==
    /\ builds[b].pc = "done"
    /\ builds' = [builds EXCEPT ![b] = NoBuild]
    /\ UNCHANGED <<market, rows, tick, call, rollover, restarts>>

---------------------------------------------------------------------------
(* Calls that hold the account's lock                                      *)

(* Variant: an instrument is traded whether or not it has a quote.         *)
PlaceUnquoted(s) ==
    /\ call = NoCall
    /\ call' = [pc |-> "order", symbol |-> s]
    /\ UNCHANGED <<market, rows, tick, builds, rollover, restarts>>

(* placeOrder: without a live price the order is refused.                  *)
PlaceOrder(s) ==
    /\ call = NoCall
    /\ HasQuote(s)
    /\ call' = [pc |-> "order", symbol |-> s]
    /\ UNCHANGED <<market, rows, tick, builds, rollover, restarts>>

KeepRow(s, instrument) ==
    /\ symbol[s] = NoSymbol
    /\ symbol' = [symbol EXCEPT ![s] = instrument]

(* A limit or stop order is stored to wait, and no position opened.        *)
StoreOrder(s) ==
    /\ call.pc = "order"
    /\ KeepRow(s, call.symbol)
    /\ pending' = pending \cup {s}
    /\ call' = NoCall
    /\ UNCHANGED <<market, open, tick, builds, rollover, restarts>>

(* A market order's conversion rate is known: now the free margin.         *)
ConvertOrder ==
    /\ call.pc = "order"
    /\ call' = [pc |-> "margin", symbol |-> call.symbol,
                rate |-> GetConvRate(QuoteCurrency[call.symbol])]
    /\ BeginBuild(Lock)
    /\ UNCHANGED <<market, rows, tick, rollover, restarts>>

(* The free margin is enough for the position, or is not.                  *)
OpenPosition(s) ==
    /\ call.pc = "margin"
    /\ builds[Lock].pc = "done"
    /\ KeepRow(s, call.symbol)
    /\ open' = open \cup {s}
    /\ call' = NoCall
    /\ builds' = [builds EXCEPT ![Lock] = NoBuild]
    /\ UNCHANGED <<market, pending, tick, rollover, restarts>>

RefuseOrder ==
    /\ call.pc = "margin"
    /\ builds[Lock].pc = "done"
    /\ call' = NoCall
    /\ builds' = [builds EXCEPT ![Lock] = NoBuild]
    /\ UNCHANGED <<market, rows, tick, rollover, restarts>>

(* closePosition by the owner.                                             *)
StartClose(s) ==
    /\ call = NoCall
    /\ s \in open
    /\ call' = [pc |-> "closes", todo |-> {s}]
    /\ UNCHANGED <<market, rows, tick, builds, rollover, restarts>>

(* closeInternal throws without a live price.                              *)
CloseNext(s) ==
    /\ call.pc = "closes"
    /\ s \in call.todo
    /\ call' = IF HasQuote(symbol[s])
               THEN [pc |-> "convert", slot |-> s, todo |-> call.todo \ {s}]
               ELSE [call EXCEPT !.todo = @ \ {s}]
    /\ UNCHANGED <<market, rows, tick, builds, rollover, restarts>>

ConvertClose ==
    /\ call.pc = "convert"
    /\ call' = [pc |-> "settle", slot |-> call.slot, rate |-> RateOf(call.slot),
                todo |-> call.todo]
    /\ UNCHANGED <<market, rows, tick, builds, rollover, restarts>>

(* The position is closed, or stays open when a part of it is closed or    *)
(* the transaction fails.                                                  *)
SettleClose ==
    /\ call.pc = "settle"
    /\ open' \in {open, open \ {call.slot}}
    /\ call' = [pc |-> "closes", todo |-> call.todo]
    /\ UNCHANGED <<market, symbol, pending, tick, builds, rollover, restarts>>

(* The call is over, unless it is the engine's and the stop-out is next.   *)
ClosesOver ==
    /\ call.pc = "closes"
    /\ call.todo = {}
    /\ tick = "stops" => open = {}
    /\ tick' = IF tick \in {"stops", "stopout"} THEN "roll" ELSE tick
    /\ call' = NoCall
    /\ UNCHANGED <<market, rows, builds, rollover, restarts>>

---------------------------------------------------------------------------
(* AccountEngine.tick and evaluate.  While tick is "stops" or "stopout" the *)
(* call that holds the lock is the evaluation.                             *)

(* Only accounts with an open position are evaluated.                      *)
TickStarts ==
    /\ tick = "idle"
    /\ tick' = IF open # {} THEN "evaluate" ELSE "roll"
    /\ UNCHANGED <<market, rows, call, builds, rollover, restarts>>

BeginEvaluation ==
    /\ tick = "evaluate"
    /\ call = NoCall
    /\ tick' = "stops"
    /\ call' = [pc |-> "triggers"]
    /\ UNCHANGED <<market, rows, builds, rollover, restarts>>

(* A pending order that is triggered needs a quote, and no margin.         *)
FillFromOrder(s) ==
    /\ call.pc = "triggers"
    /\ s \in pending
    /\ HasQuote(symbol[s])
    /\ pending' = pending \ {s}
    /\ open' = open \cup {s}
    /\ UNCHANGED <<market, symbol, process, restarts>>

(* The stops and targets that are hit.                                     *)
CheckStops ==
    /\ call.pc = "triggers"
    /\ \E hit \in SUBSET open : call' = [pc |-> "closes", todo |-> hit]
    /\ UNCHANGED <<market, rows, tick, builds, rollover, restarts>>

(* applyStopOut values the account and closes the positions of its plan,   *)
(* which has nothing but positions that were valued.                       *)
BeginStopOut ==
    /\ tick = "stops"
    /\ call.pc = "closes"
    /\ call.todo = {}
    /\ open # {}
    /\ tick' = "stopout"
    /\ call' = [pc |-> "stopout"]
    /\ BeginBuild(Lock)
    /\ UNCHANGED <<market, rows, rollover, restarts>>

PlanStopOut ==
    /\ call.pc = "stopout"
    /\ builds[Lock].pc = "done"
    /\ \E plan \in SUBSET Counted(builds[Lock]) : call' = [pc |-> "closes", todo |-> plan]
    /\ builds' = [builds EXCEPT ![Lock] = NoBuild]
    /\ UNCHANGED <<market, rows, tick, rollover, restarts>>

---------------------------------------------------------------------------
(* applySwaps: by the engine, without the lock or a look at the quote      *)

StartRoll ==
    /\ tick = "roll"
    /\ tick' = "rolling"
    /\ roll' = open
    /\ UNCHANGED <<market, rows, call, builds, charge, restarts>>

ConvertSwap(s) ==
    /\ s \in roll
    /\ charge = NoCharge
    /\ roll' = roll \ {s}
    /\ charge' = [pc |-> "write", slot |-> s, rate |-> RateOf(s), blind |-> forgotten]
    /\ UNCHANGED <<market, rows, tick, call, builds, restarts>>

ApplySwap ==
    /\ charge # NoCharge
    /\ charge' = NoCharge
    /\ UNCHANGED <<market, rows, tick, call, builds, roll, restarts>>

(* The swaps are charged, or it is not the hour for them.                  *)
TickEnds ==
    /\ tick \in {"roll", "rolling"}
    /\ roll = {} /\ charge = NoCharge
    /\ tick' = "idle"
    /\ UNCHANGED <<market, rows, call, builds, rollover, restarts>>

---------------------------------------------------------------------------

BuildStep ==
    \/ \E b \in Builders : ReadQuote(b) \/ ReadRate(b)
    \/ \E b \in Screens : BeginSnapshot(b) \/ SnapshotSent(b)

LockStep ==
    \/ \E s \in Symbols : PlaceOrder(s)
    \/ ConvertOrder \/ RefuseOrder
    \/ \E s \in Slots : StoreOrder(s) \/ OpenPosition(s) \/ StartClose(s) \/ CloseNext(s)
    \/ ConvertClose \/ SettleClose \/ ClosesOver

EngineStep ==
    \/ TickStarts \/ BeginEvaluation \/ CheckStops \/ BeginStopOut \/ PlanStopOut
    \/ StartRoll \/ ApplySwap \/ TickEnds
    \/ \E s \in Slots : FillFromOrder(s) \/ ConvertSwap(s)

ValueNext ==
    \/ WeekendComesOrGoes
    \/ FeedTicks
    \/ Restart
    \/ BuildStep
    \/ LockStep
    \/ EngineStep

ValueSpec == ValueInit /\ [][ValueNext]_valueVars

---------------------------------------------------------------------------
(* Properties                                                              *)

Converted(instrument, rate) == (rate = "one") <=> (QuoteCurrency[instrument] = AccountCurrency)

(* What has a quote has a conversion rate: no valuation, order or close    *)
(* takes yen for dollars, whichever cache is used and whenever the process *)
(* restarts, though quote and rate are read one after the other            *)
(* (positionMath, placeOrder, closeInternal).  A night's swap, for which   *)
(* nobody looks at the quote, is converted too, unless its rate was read   *)
(* after quotes were lost and before the markets opened (applySwaps).      *)
QuotedIsConverted ==
    /\ \A b \in Builders : \A i \in DOMAIN builds[b].book :
          Converted(symbol[builds[b].book[i].slot], builds[b].book[i].rate)
    /\ call.pc = "margin" => Converted(call.symbol, call.rate)
    /\ call.pc = "settle" => Converted(symbol[call.slot], call.rate)
    /\ charge # NoCharge /\ ~charge.blind => Converted(symbol[charge.slot], charge.rate)

(* A margin check and a stop-out count every position that is open when    *)
(* they are over, and each row of a snapshot shows the profit of its own   *)
(* position, unless they began after quotes were lost and before the       *)
(* markets opened: a position that is passed over takes its loss and its   *)
(* margin out of the account (positionMath), and the rows fall back on     *)
(* their numbers (buildSnapshot).                                          *)
EveryPositionCounts ==
    /\ call.pc \in {"margin", "stopout"} /\ builds[Lock].pc = "done" /\ ~builds[Lock].blind
          => Counted(builds[Lock]) = open
    /\ \A b \in Builders : builds[b].pc = "done" /\ ~builds[b].blind =>
          \A i \in DOMAIN builds[b].ids : ShownInRow(builds[b], i) = {builds[b].ids[i]}

(* "Free-margin check against current book.": a margin check counts every  *)
(* position.  It does not hold after a restart with the in-process cache   *)
(* when the markets are closed.                                            *)
MarginCountsAll ==
    call.pc = "margin" /\ builds[Lock].pc = "done" => Counted(builds[Lock]) = open
=============================================================================
