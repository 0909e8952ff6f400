--------------------------- MODULE TradingProofs ---------------------------
(***************************************************************************)
(* Properties of Trading, for every number of positions and orders, every  *)
(* price, and every bound: a pending order is filled once                  *)
(* (OrderFillsOnce), a night is charged once (OneChargePerNight), lots and *)
(* swaps are conserved up to rounding (LotsWithinRounding,                 *)
(* SwapIsAccruedOrSettled), and a stop-out closes what it should           *)
(* (PlanStaysRight).                                                       *)
(*                                                                         *)
(* Each has an invariant that adds what its steps rely on.  The first four *)
(* type the columns they speak of and assume nothing of the stop-out plan: *)
(* a slot that were not in the tables would change nothing.  The types of  *)
(* all variables, and the last property, rest on what EngineProofs shows   *)
(* of the plan.                                                            *)
(***************************************************************************)
EXTENDS Trading, EngineProofs

PositionColumns == {"status", "side", "lots", "open", "sl", "tp", "swap", "order"}
OrderColumns    == {"status", "side", "kind", "lots", "price", "sl", "tp"}

Columns ==
    /\ positions = [s \in Slots |-> positions[s]]
    /\ \A s \in Slots : DOMAIN positions[s] = PositionColumns
    /\ orders = [o \in Orders |-> orders[o]]
    /\ \A o \in Orders : DOMAIN orders[o] = OrderColumns
    /\ job.pc = "fill" => job.order \in Orders

UnusedRowsAreNobodys ==
    \A s \in Slots : positions[s].status = "none" => positions[s].order = NoOrder

FillInv == Columns /\ UnusedRowsAreNobodys /\ OrderFillsOnce

(* What every step but three does: no position changes hands, no row comes *)
(* into use, the orders stay, and no fill begins with anything but a row.  *)
KeepsOrders ==
    /\ positions' = [s \in Slots |-> positions'[s]]
    /\ \A s \in Slots :
         /\ DOMAIN positions'[s] = PositionColumns
         /\ positions'[s].order = positions[s].order
         /\ positions'[s].status = "none" => positions[s].status = "none"
    /\ orders' = orders
    /\ job'.pc = "fill" => job'.order \in Orders

LEMMA Kept == FillInv /\ KeepsOrders => FillInv'
  BY DEF FillInv, KeepsOrders, Columns, UnusedRowsAreNobodys, OrderFillsOnce

(* A step that leaves both tables alone keeps them.                        *)
LEMMA TablesAlone ==
  ASSUME FillInv, UNCHANGED <<positions, orders>>, job'.pc = "fill" => job'.order \in Orders
  PROVE  KeepsOrders
  BY DEF FillInv, KeepsOrders, Columns

(* So does one that rewrites one row and not the columns that matter.      *)
LEMMA RowRewritten ==
  ASSUME FillInv, NEW s \in Slots, NEW row,
         positions' = [positions EXCEPT ![s] = row],
         DOMAIN row = PositionColumns,
         row.order = positions[s].order,
         row.status = "none" => positions[s].status = "none",
         UNCHANGED orders,
         job'.pc = "fill" => job'.order \in Orders
  PROVE  KeepsOrders
  BY DEF FillInv, KeepsOrders, Columns

---------------------------------------------------------------------------
(* The three steps that touch the orders or bring a row into use.          *)

(* A market order takes a row that nobody has, for no order.               *)
LEMMA OpenPositionStep ==
  ASSUME TradingAssumption, FillInv, NEW s \in Slots, OpenPosition(s)
  PROVE  FillInv'
<1>1. positions[s].status = "none" /\ positions[s].order = NoOrder
  BY DEF FillInv, UnusedRowsAreNobodys, OpenPosition, Free
<1> DEFINE row == [status |-> "OPEN", side |-> job.side, lots |-> job.lots, open |-> job.fill,
                   sl |-> job.sl, tp |-> job.tp, swap |-> 0, order |-> NoOrder]
<1>2. positions' = [positions EXCEPT ![s] = row]
  BY DEF OpenPosition, OpenRow
<1>3. orders' = orders /\ job'.pc # "fill"
  BY DEF OpenPosition, Idle
<1>4. DOMAIN row = PositionColumns
  BY DEF PositionColumns
<1>5. row.order = NoOrder /\ row.status = "OPEN"
  OBVIOUS
<1> HIDE DEF row
<1>6. KeepsOrders
  BY <1>1, <1>2, <1>3, <1>4, <1>5, RowRewritten
<1> QED
  BY <1>6, Kept

(* A new pending order takes a row of the orders table that has no         *)
(* position.                                                               *)
LEMMA PlacePendingStep ==
  ASSUME FillInv,
         NEW o \in Orders, NEW side, NEW kind, NEW n, NEW price, NEW g,
         PlacePending(o, side, kind, n, price, g)
  PROVE  FillInv'
<1> DEFINE row == [status |-> "PENDING", side |-> side, kind |-> kind, lots |-> n,
                   price |-> price, sl |-> g.sl, tp |-> g.tp]
<1>1. orders' = [orders EXCEPT ![o] = row] /\ UNCHANGED <<positions, job>>
  BY DEF PlacePending, lock
<1>2. orders[o].status = "none" /\ job = Idle
  BY DEF PlacePending
<1>3. DOMAIN row = OrderColumns /\ row.status = "PENDING"
  BY DEF OrderColumns
<1> HIDE DEF row
<1>4. Columns'
  BY <1>1, <1>2, <1>3 DEF FillInv, Columns, Idle
<1>5. UnusedRowsAreNobodys'
  BY <1>1 DEF FillInv, UnusedRowsAreNobodys
<1>6. OrderFillsOnce'
  BY <1>1, <1>2, <1>3 DEF FillInv, Columns, OrderFillsOnce
<1> QED
  BY <1>4, <1>5, <1>6 DEF FillInv

(* A fill writes the position and the order together.                      *)
LEMMA FillOrderStep ==
  ASSUME TradingAssumption, FillInv, NEW s \in Slots, FillOrder(s)
  PROVE  FillInv'
<1> DEFINE o == orders[job.order]
           row == [status |-> "OPEN", side |-> o.side, lots |-> o.lots,
                   open |-> EntryPrice(o.side), sl |-> o.sl, tp |-> o.tp,
                   swap |-> 0, order |-> job.order]
<1>1. job.order \in Orders /\ job'.pc # "fill" /\ NoOrder \notin Orders
  BY DEF FillInv, Columns, FillOrder, AfterFill, TradingAssumption
<1>2. positions[s].status = "none" /\ positions[s].order = NoOrder
  BY DEF FillInv, UnusedRowsAreNobodys, FillOrder, Free
<1>3. CASE o.status = "PENDING"
  <2>1. positions' = [positions EXCEPT ![s] = row]
    BY <1>3 DEF FillOrder, OpenRow
  <2>2. orders' = [orders EXCEPT ![job.order] = FilledRow(o)]
    BY <1>3 DEF FillOrder
  <2>3. DOMAIN row = PositionColumns /\ row.order = job.order /\ row.status = "OPEN"
    BY DEF PositionColumns
  <2>4. DOMAIN FilledRow(o) = OrderColumns /\ FilledRow(o).status = "FILLED"
    BY <1>1 DEF FillInv, Columns, OrderColumns, FilledRow
  <2>5. \A t \in Slots : positions[t].order # job.order
    BY <1>1, <1>3 DEF FillInv, OrderFillsOnce
  <2> HIDE DEF row
  <2> DEFINE filled == FilledRow(o)
  <2> HIDE DEF filled
  <2>6. Columns'
    BY <1>1, <2>1, <2>2, <2>3, <2>4 DEF FillInv, Columns, filled
  <2>7. UnusedRowsAreNobodys'
    BY <2>1, <2>3 DEF FillInv, Columns, UnusedRowsAreNobodys
  <2>8. OrderFillsOnce'
    <3>1. \A p \in Orders : p # job.order => orders'[p] = orders[p]
      BY <2>2 DEF FillInv, Columns
    <3>2. orders'[job.order].status = "FILLED"
      BY <1>1, <2>2, <2>4 DEF FillInv, Columns
    <3>3. positions'[s].order = job.order
      BY <2>1, <2>3 DEF FillInv, Columns
    <3>4. \A t \in Slots : t # s => positions'[t] = positions[t]
      BY <2>1 DEF FillInv, Columns
    <3> QED
      BY <1>1, <1>2, <2>5, <3>1, <3>2, <3>3, <3>4 DEF FillInv, OrderFillsOnce
  <2> QED
    BY <2>6, <2>7, <2>8 DEF FillInv
<1>4. CASE o.status # "PENDING"
  <2>1. UNCHANGED <<positions, orders>>
    BY <1>4 DEF FillOrder
  <2> QED
    BY <1>1, <2>1, TablesAlone, Kept
<1> QED
  BY <1>3, <1>4

---------------------------------------------------------------------------
(* The steps that rewrite one position.  What they write where is read     *)
(* from the call; a slot that were not in the table would change nothing.  *)

LEMMA SettleCloseStep ==
  ASSUME FillInv, SettleClose
  PROVE  KeepsOrders
<1> DEFINE p   == positions[closing.slot]
           row == IF closing.lots = closing.total THEN ClosedRow(p) ELSE ReducedRow(p, closing)
<1>1. positions' = [positions EXCEPT ![closing.slot] = row] /\ UNCHANGED orders
  BY DEF SettleClose
<1>a. job'.pc = "fill" => job'.order \in Orders
  BY DEF SettleClose, AfterClose, Idle, FillInv, Columns
<1>b. CASE closing.slot \notin Slots
  <2>1. positions' = positions
    BY <1>1, <1>b DEF FillInv, Columns
  <2> QED
    BY <1>1, <1>a, <2>1, TablesAlone
<1> SUFFICES ASSUME closing.slot \in Slots PROVE KeepsOrders
  BY <1>b
<1>2. DOMAIN p = PositionColumns
  BY DEF FillInv, Columns
<1>3. DOMAIN ClosedRow(p) = PositionColumns /\ ClosedRow(p).order = p.order
      /\ ClosedRow(p).status = "CLOSED"
  BY <1>2 DEF ClosedRow, PositionColumns
<1>4. DOMAIN ReducedRow(p, closing) = PositionColumns /\ ReducedRow(p, closing).order = p.order
      /\ ReducedRow(p, closing).status = p.status
  BY <1>2 DEF ReducedRow, PositionColumns
<1>5. /\ DOMAIN row = PositionColumns
      /\ row.order = p.order
      /\ row.status = "none" => p.status = "none"
  BY <1>3, <1>4
<1> HIDE DEF row
<1> QED
  BY <1>1, <1>5, <1>a, RowRewritten

LEMMA ModifyPositionStep ==
  ASSUME FillInv, NEW s \in Slots, NEW sl, NEW tp, ModifyPosition(s, sl, tp)
  PROVE  KeepsOrders
<1> DEFINE p   == positions[s]
           row == [p EXCEPT !.sl = sl, !.tp = tp]
<1>1. positions' = [positions EXCEPT ![s] = row] /\ UNCHANGED <<orders, job>>
  BY DEF ModifyPosition, lock
<1>2. DOMAIN p = PositionColumns
  BY DEF FillInv, Columns
<1>3. DOMAIN row = PositionColumns /\ row.order = p.order /\ row.status = p.status
  BY <1>2 DEF PositionColumns
<1> HIDE DEF row
<1> QED
  BY <1>1, <1>3, RowRewritten DEF FillInv, Columns

LEMMA ApplySwapStep ==
  ASSUME FillInv, NEW r, ApplySwap(r)
  PROVE  KeepsOrders
<1> DEFINE p   == positions[r.slot]
           row == [p EXCEPT !.swap = r.swap + r.charge]
<1>1. positions' = [positions EXCEPT ![r.slot] = row] /\ UNCHANGED <<orders, job>>
  BY DEF ApplySwap, lock
<1>a. CASE r.slot \notin Slots
  <2>1. positions' = positions
    BY <1>1, <1>a DEF FillInv, Columns
  <2> QED
    BY <1>1, <2>1, TablesAlone DEF FillInv, Columns
<1> SUFFICES ASSUME r.slot \in Slots PROVE KeepsOrders
  BY <1>a
<1>2. DOMAIN p = PositionColumns
  BY DEF FillInv, Columns
<1>3. DOMAIN row = PositionColumns /\ row.order = p.order /\ row.status = p.status
  BY <1>2 DEF PositionColumns
<1> HIDE DEF row
<1> QED
  BY <1>1, <1>3, RowRewritten DEF FillInv, Columns

---------------------------------------------------------------------------
(* Every other step leaves both tables alone.                              *)

TablesUntouched == UNCHANGED <<positions, orders>> /\ (job'.pc = "fill" => job'.order \in Orders)

LEMMA Untouched == FillInv /\ TablesUntouched => FillInv'
  BY TablesAlone, Kept DEF TablesUntouched

LEMMA OwnerKeeps ==
  ASSUME TradingAssumption, FillInv, OwnerStep
  PROVE  FillInv'
<1>1. ASSUME NEW side \in Sides, NEW n \in Sizes, NEW g \in Protections, NEW slip \in Slips,
             PlaceMarket(side, n, g, slip)
      PROVE  FillInv'
  BY <1>1, Untouched DEF PlaceMarket, MarketOrder, db, TablesUntouched
<1>2. ASSUME CheckMargin PROVE FillInv'
  <2>1. job'.pc # "fill"
    BY <1>2 DEF CheckMargin, MarketOrder, Idle
  <2> QED
    BY <1>2, <2>1, Untouched DEF CheckMargin, db, TablesUntouched
<1>3. ASSUME NEW s \in Slots, OpenPosition(s) PROVE FillInv'
  BY <1>3, OpenPositionStep
<1>4. ASSUME NEW o \in Orders, NEW side \in Sides, NEW kind \in {"LIMIT", "STOP"}, NEW n \in Sizes,
             NEW price \in Triggers, NEW g \in Protections,
             PlacePending(o, side, kind, n, price, g)
      PROVE  FillInv'
  BY <1>4, PlacePendingStep
<1>5. ASSUME NEW s \in Slots, NEW n \in Sizes \cup {0}, ClosePosition(s, n) PROVE FillInv'
  BY <1>5, Untouched DEF ClosePosition, db, TablesUntouched
<1>6. ASSUME NEW s \in Slots, NEW sl, NEW tp, ModifyPosition(s, sl, tp) PROVE FillInv'
  BY <1>6, ModifyPositionStep, Kept
<1> QED
  BY <1>1, <1>2, <1>3, <1>4, <1>5, <1>6 DEF OwnerStep

LEMMA EvaluationKeeps ==
  ASSUME TradingAssumption, FillInv, EvaluationStep
  PROVE  FillInv'
<1>1. ASSUME NEW o \in Orders, TriggerOrder(o) PROVE FillInv'
  BY <1>1, Untouched DEF TriggerOrder, db, TablesUntouched
<1>2. ASSUME NEW s \in Slots, FillOrder(s) PROVE FillInv'
  BY <1>2, FillOrderStep
<1>3. ASSUME EndTriggers PROVE FillInv'
  BY <1>3, Untouched DEF EndTriggers, db, TablesUntouched
<1>4. ASSUME NEW s \in Slots, CheckStops(s) PROVE FillInv'
  BY <1>4, Untouched DEF CheckStops, db, TablesUntouched
<1>5. ASSUME EndStops PROVE FillInv'
  <2>1. job'.pc # "fill"
    BY <1>5 DEF EndStops, EvaluationOver, Idle
  <2> QED
    BY <1>5, <2>1, Untouched DEF EndStops, db, TablesUntouched
<1>6. ASSUME Liquidate PROVE FillInv'
  BY <1>6, Untouched DEF Liquidate, db, TablesUntouched
<1>7. ASSUME EndStopOut PROVE FillInv'
  BY <1>7, Untouched DEF EndStopOut, EvaluationOver, Idle, db, TablesUntouched
<1> QED
  BY <1>1, <1>2, <1>3, <1>4, <1>5, <1>6, <1>7 DEF EvaluationStep

LEMMA FaultKeeps ==
  ASSUME FillInv, Fault
  PROVE  FillInv'
<1>1. TablesUntouched
  BY DEF Fault, PlaceThrows, CloseThrows, FillThrows, EvaluationThrows, RollThrows, Restart,
         AfterClose, AfterFill, Idle, db, lock, TablesUntouched, FillInv, Columns
<1> QED
  BY <1>1, Untouched

LEMMA OthersKeep ==
  ASSUME FillInv,
         \/ ReadForClose \/ TickStarts \/ BeginEvaluation \/ MaybeRollSwaps \/ EndRoll
         \/ TimePasses \/ PostTransferOut \/ UNCHANGED vars
         \/ \E b \in Quotes : Quote(b)
         \/ \E x \in Transfers : TransferIn(x) \/ CheckTransferOut(x)
  PROVE  FillInv'
<1>1. TablesUntouched
  BY DEF ReadForClose, TickStarts, BeginEvaluation, MaybeRollSwaps, EndRoll, TimePasses,
         PostTransferOut, Quote, TransferIn, CheckTransferOut, vars,
         AfterClose, Idle, db, lock, TablesUntouched, FillInv, Columns
<1> QED
  BY <1>1, Untouched

---------------------------------------------------------------------------
LEMMA FillInvInit == TradingAssumption /\ Init => FillInv
  BY DEF TradingAssumption, Init, FillInv, Columns, UnusedRowsAreNobodys, OrderFillsOnce,
         NoPosition, NoRow, Idle, PositionColumns, OrderColumns

LEMMA FillInvNext == TradingAssumption /\ FillInv /\ [Next]_vars => FillInv'
<1> SUFFICES ASSUME TradingAssumption, FillInv, [Next]_vars
             PROVE  FillInv'
  OBVIOUS
<1>1. CASE SettleClose
  BY <1>1, SettleCloseStep, Kept
<1>2. ASSUME NEW r \in roll, ApplySwap(r) PROVE FillInv'
  BY <1>2, ApplySwapStep, Kept
<1> QED
  BY <1>1, <1>2, OwnerKeeps, EvaluationKeeps, FaultKeeps, OthersKeep
     DEF Next, CloseStep, RollStep

(* A pending order opens one position in its life, and it is FILLED when   *)
(* and only when it has (triggerPendingOrders, fillFromOrder).             *)
THEOREM OrdersFillOnce == Spec => []OrderFillsOnce
<1>1. FillInv => OrderFillsOnce
  BY DEF FillInv
<1> QED
  BY <1>1, FillInvInit, FillInvNext, TradingAssumption, PTL DEF Spec

---------------------------------------------------------------------------
(* Nights: each restart of the server forgets the day of the last rollover *)
(* and allows one charge more.  A rollover under way has at most one       *)
(* charge for each position, and it is over before the next tick begins,   *)
(* as a tick that rolls swaps is not one that evaluates the account.       *)

PaidColumns == {"opened", "lots", "charged", "swap", "rolls", "raced"}

NightTypes ==
    /\ paid = [s \in Slots |-> paid[s]]
    /\ \A s \in Slots : DOMAIN paid[s] = PaidColumns /\ paid[s].rolls \in Nat
    /\ clock \in [day : Nat, rollover : BOOLEAN]
    /\ lastSwapDay \in Nat
    /\ lastSwapDay <= clock.day
    /\ used \in [closes : Nat, modifies : Nat, transfers : Nat, faults : Nat]

Evaluating == job.pc \in {"trigger", "fill", "stops", "plan"}

RollInv ==
    /\ \A r \in roll : r.slot \in Slots
    /\ \A r, q \in roll : r.slot = q.slot => r = q
    /\ roll # {} => tick = "rolling"
    /\ Evaluating => tick = "evaluating"

Due(s) == IF \E r \in roll : r.slot = s THEN 1 ELSE 0

Nights == IF lastSwapDay = clock.day THEN clock.day ELSE clock.day - 1

ChargeInv == \A s \in Slots : paid[s].rolls + Due(s) <= Nights + used.faults

NightInv == NightTypes /\ RollInv /\ ChargeInv

(* What every step but four does: no night is charged and none passes.     *)
KeepsNights ==
    /\ paid' = [s \in Slots |-> paid'[s]]
    /\ \A s \in Slots : DOMAIN paid'[s] = PaidColumns /\ paid'[s].rolls = paid[s].rolls
    /\ UNCHANGED <<clock, lastSwapDay>>
    /\ used' \in [closes : Nat, modifies : Nat, transfers : Nat, faults : Nat]
    /\ used'.faults >= used.faults
    /\ roll' = roll \/ roll' = {}
    /\ roll' # {} => tick' = "rolling"
    /\ Evaluating' => tick' = "evaluating"

LEMMA NightsKept == NightInv /\ KeepsNights => NightInv'
<1> SUFFICES ASSUME NightInv, KeepsNights PROVE NightInv'
  OBVIOUS
<1>1. NightTypes'
  BY DEF NightInv, NightTypes, KeepsNights
<1>2. RollInv'
  BY DEF NightInv, RollInv, KeepsNights
<1>3. ChargeInv'
  <2> SUFFICES ASSUME NEW s \in Slots PROVE paid'[s].rolls + Due(s)' <= Nights' + used'.faults
    BY DEF ChargeInv
  <2>1. Due(s)' \in Nat /\ Due(s) \in Nat /\ Due(s)' <= Due(s)
    BY DEF KeepsNights, Due
  <2>2. Nights' = Nights /\ Nights \in Int
    BY DEF KeepsNights, Nights, NightInv, NightTypes
  <2>3. /\ paid[s].rolls \in Nat /\ paid'[s].rolls = paid[s].rolls
        /\ used.faults \in Nat /\ used'.faults \in Nat /\ used'.faults >= used.faults
    BY DEF KeepsNights, NightInv, NightTypes
  <2>4. paid[s].rolls + Due(s) <= Nights + used.faults
    BY DEF NightInv, ChargeInv
  <2> QED
    BY <2>1, <2>2, <2>3, <2>4
<1> QED
  BY <1>1, <1>2, <1>3 DEF NightInv

(* Writing other columns of the history leaves the charges.                *)
LEMMA HistoryWritten ==
  ASSUME NightInv, NEW s, NEW row, paid' = [paid EXCEPT ![s] = row],
         s \in Slots => DOMAIN row = PaidColumns /\ row.rolls = paid[s].rolls
  PROVE  /\ paid' = [t \in Slots |-> paid'[t]]
         /\ \A t \in Slots : DOMAIN paid'[t] = PaidColumns /\ paid'[t].rolls = paid[t].rolls
  BY DEF NightInv, NightTypes

LEMMA HistoryAlone ==
  ASSUME NightInv, paid' = paid
  PROVE  /\ paid' = [t \in Slots |-> paid'[t]]
         /\ \A t \in Slots : DOMAIN paid'[t] = PaidColumns /\ paid'[t].rolls = paid[t].rolls
  BY DEF NightInv, NightTypes

LEMMA OpenRowKeepsNights ==
  ASSUME NightInv, NEW s \in Slots, NEW side, NEW n, NEW price, NEW g, NEW o,
         OpenRow(s, side, n, price, g, o)
  PROVE  /\ paid' = [t \in Slots |-> paid'[t]]
         /\ \A t \in Slots : DOMAIN paid'[t] = PaidColumns /\ paid'[t].rolls = paid[t].rolls
<1> DEFINE row == [paid[s] EXCEPT !.opened = n]
<1>1. paid' = [paid EXCEPT ![s] = row]
  BY DEF OpenRow
<1>2. DOMAIN row = PaidColumns /\ row.rolls = paid[s].rolls
  BY DEF NightInv, NightTypes, PaidColumns
<1> HIDE DEF row
<1> QED
  BY <1>1, <1>2, HistoryWritten

LEMMA OwnerKeepsNights ==
  ASSUME NightInv, OwnerStep
  PROVE  KeepsNights
<1>1. ASSUME NEW side \in Sides, NEW n \in Sizes, NEW g \in Protections, NEW slip \in Slips,
             PlaceMarket(side, n, g, slip)
      PROVE  KeepsNights
  BY <1>1, HistoryAlone
     DEF PlaceMarket, MarketOrder, ae, KeepsNights, NightInv, NightTypes, RollInv, Evaluating
<1>2. ASSUME CheckMargin PROVE KeepsNights
  <2>1. job'.pc \in {"open", "idle"}
    BY <1>2 DEF CheckMargin, MarketOrder, Idle
  <2> QED
    BY <1>2, <2>1, HistoryAlone
       DEF CheckMargin, ae, KeepsNights, NightInv, NightTypes, RollInv, Evaluating
<1>3. ASSUME NEW s \in Slots, OpenPosition(s) PROVE KeepsNights
  BY <1>3, OpenRowKeepsNights
     DEF OpenPosition, Idle, ae, KeepsNights, NightInv, NightTypes, RollInv, Evaluating
<1>4. ASSUME NEW o \in Orders, NEW side \in Sides, NEW kind \in {"LIMIT", "STOP"}, NEW n \in Sizes,
             NEW price \in Triggers, NEW g \in Protections,
             PlacePending(o, side, kind, n, price, g)
      PROVE  KeepsNights
  BY <1>4, HistoryAlone
     DEF PlacePending, lock, ae, KeepsNights, NightInv, NightTypes, RollInv, Evaluating
<1>5. ASSUME NEW s \in Slots, NEW n \in Sizes \cup {0}, ClosePosition(s, n) PROVE KeepsNights
  BY <1>5, HistoryAlone
     DEF ClosePosition, ae, KeepsNights, NightInv, NightTypes, RollInv, Evaluating
<1>6. ASSUME NEW s \in Slots, NEW sl, NEW tp, ModifyPosition(s, sl, tp) PROVE KeepsNights
  BY <1>6, HistoryAlone
     DEF ModifyPosition, lock, ae, KeepsNights, NightInv, NightTypes, RollInv, Evaluating
<1> QED
  BY <1>1, <1>2, <1>3, <1>4, <1>5, <1>6 DEF OwnerStep

LEMMA CloseKeepsNights ==
  ASSUME NightInv, CloseStep
  PROVE  KeepsNights
<1>1. CASE ReadForClose
  BY <1>1, HistoryAlone
     DEF ReadForClose, AfterClose, Idle, ae, KeepsNights, NightInv, NightTypes, RollInv, Evaluating
<1>2. CASE SettleClose
  <2> DEFINE s   == closing.slot
             due == SettlementLines("client",
                      [n |-> FloatingPnl(positions[s].side, positions[s].open, closing.price,
                                         closing.lots), d |-> 1], SwapPortion(closing))
             row == [paid[s] EXCEPT
                       !.lots  = @ + closing.lots,
                       !.swap  = @ + due[3].debit - due[3].credit,
                       !.raced = @ \/ \E r \in roll : r.slot = s]
  <2>1. paid' = [paid EXCEPT ![s] = row]
    BY <1>2 DEF SettleClose
  <2>2. s \in Slots => DOMAIN row = PaidColumns /\ row.rolls = paid[s].rolls
    BY DEF NightInv, NightTypes, PaidColumns
  <2> HIDE DEF row
  <2>3. /\ paid' = [t \in Slots |-> paid'[t]]
        /\ \A t \in Slots : DOMAIN paid'[t] = PaidColumns /\ paid'[t].rolls = paid[t].rolls
    BY <2>1, <2>2, HistoryWritten
  <2>4. /\ UNCHANGED <<ae, clock, used>>
        /\ job' = AfterClose
    BY <1>2 DEF SettleClose
  <2> QED
    BY <2>3, <2>4
       DEF AfterClose, Idle, ae, KeepsNights, NightInv, NightTypes, RollInv, Evaluating
<1> QED
  BY <1>1, <1>2 DEF CloseStep

LEMMA EvaluationKeepsNights ==
  ASSUME NightInv, EvaluationStep
  PROVE  KeepsNights
<1>1. ASSUME NEW o \in Orders, TriggerOrder(o) PROVE KeepsNights
  BY <1>1, HistoryAlone
     DEF TriggerOrder, ae, KeepsNights, NightInv, NightTypes, RollInv, Evaluating
<1>2. ASSUME NEW s \in Slots, FillOrder(s) PROVE KeepsNights
  <2>1. /\ paid' = [t \in Slots |-> paid'[t]]
        /\ \A t \in Slots : DOMAIN paid'[t] = PaidColumns /\ paid'[t].rolls = paid[t].rolls
    BY <1>2, OpenRowKeepsNights, HistoryAlone DEF FillOrder
  <2>2. /\ UNCHANGED <<ae, clock, used>>
        /\ job.pc = "fill"
    BY <1>2 DEF FillOrder
  <2> QED
    BY <2>1, <2>2 DEF ae, KeepsNights, NightInv, NightTypes, RollInv, Evaluating
<1>3. ASSUME EndTriggers PROVE KeepsNights
  BY <1>3, HistoryAlone
     DEF EndTriggers, ae, KeepsNights, NightInv, NightTypes, RollInv, Evaluating
<1>4. ASSUME NEW s \in Slots, CheckStops(s) PROVE KeepsNights
  BY <1>4, HistoryAlone
     DEF CheckStops, ae, KeepsNights, NightInv, NightTypes, RollInv, Evaluating
<1>5. ASSUME EndStops PROVE KeepsNights
  <2>1. \/ UNCHANGED tick
        \/ job' = Idle
    BY <1>5 DEF EndStops, EvaluationOver
  <2>2. UNCHANGED <<roll, lastSwapDay, clock, used, paid>> /\ job.pc = "stops"
    BY <1>5 DEF EndStops
  <2>3. tick = "evaluating" /\ roll = {}
    BY <2>2 DEF NightInv, RollInv, Evaluating
  <2> QED
    BY <2>1, <2>2, <2>3, HistoryAlone
       DEF Idle, KeepsNights, NightInv, NightTypes, Evaluating
<1>6. ASSUME Liquidate PROVE KeepsNights
  BY <1>6, HistoryAlone
     DEF Liquidate, ae, KeepsNights, NightInv, NightTypes, RollInv, Evaluating
<1>7. ASSUME EndStopOut PROVE KeepsNights
  BY <1>7, HistoryAlone
     DEF EndStopOut, EvaluationOver, Idle, KeepsNights, NightInv, NightTypes, RollInv, Evaluating
<1> QED
  BY <1>1, <1>2, <1>3, <1>4, <1>5, <1>6, <1>7 DEF EvaluationStep

LEMMA OthersKeepNights ==
  ASSUME NightInv,
         \/ TickStarts \/ BeginEvaluation \/ EndRoll \/ PostTransferOut \/ UNCHANGED vars
         \/ \E b \in Quotes : Quote(b)
         \/ \E x \in Transfers : TransferIn(x) \/ CheckTransferOut(x)
  PROVE  KeepsNights
<1>1. UNCHANGED <<paid, clock, lastSwapDay, roll>>
  BY DEF TickStarts, BeginEvaluation, EndRoll, PostTransferOut, vars, Quote, TransferIn,
         CheckTransferOut, ae
<1>2. /\ used' \in [closes : Nat, modifies : Nat, transfers : Nat, faults : Nat]
      /\ used'.faults = used.faults
  BY DEF TickStarts, BeginEvaluation, EndRoll, PostTransferOut, vars, Quote, TransferIn,
         CheckTransferOut, UseTransfer, NightInv, NightTypes
<1>3. /\ roll' # {} => tick' = "rolling"
      /\ Evaluating' => tick' = "evaluating"
  BY DEF TickStarts, BeginEvaluation, EndRoll, PostTransferOut, vars, Quote, TransferIn,
         CheckTransferOut, lock, ae, Idle, NightInv, RollInv, Evaluating
<1> QED
  BY <1>1, <1>2, <1>3, HistoryAlone DEF KeepsNights, NightInv, NightTypes

---------------------------------------------------------------------------
(* The steps that concern nights.                                          *)

(* A fault other than a restart leaves the last day.                       *)
LEMMA FaultStepNights ==
  ASSUME NightInv, Fault
  PROVE  NightInv'
<1>1. /\ used' \in [closes : Nat, modifies : Nat, transfers : Nat, faults : Nat]
      /\ used'.faults = used.faults + 1
  BY DEF Fault, PlaceThrows, CloseThrows, FillThrows, EvaluationThrows, RollThrows, Restart,
         UseFault, NightInv, NightTypes
<1>2. UNCHANGED <<paid, clock>>
  BY DEF Fault, PlaceThrows, CloseThrows, FillThrows, EvaluationThrows, RollThrows, Restart
<1>3. CASE Restart
  <2>1. roll' = {} /\ lastSwapDay' = 0 /\ job' = Idle
    BY <1>3 DEF Restart
  <2>2. NightTypes' /\ RollInv'
    BY <1>1, <1>2, <2>1 DEF NightInv, NightTypes, RollInv, Evaluating, Idle
  <2>3. ASSUME NEW s \in Slots PROVE paid'[s].rolls + Due(s)' <= Nights' + used'.faults
    <3>1. Due(s)' = 0 /\ Due(s) \in Nat
      BY <2>1 DEF Due
    <3>2. Nights \in Int /\ Nights' \in Int /\ Nights' >= Nights - 1
      BY <1>2, <2>1 DEF Nights, NightInv, NightTypes
    <3>3. paid[s].rolls + Due(s) <= Nights + used.faults /\ paid[s].rolls \in Nat /\ used.faults \in Nat
      BY DEF NightInv, ChargeInv, NightTypes
    <3> QED
      BY <1>1, <1>2, <3>1, <3>2, <3>3
  <2> QED
    BY <2>2, <2>3 DEF NightInv, ChargeInv
<1>4. CASE ~Restart
  <2>1. UNCHANGED lastSwapDay /\ (roll' = roll \/ roll' = {})
    BY <1>4 DEF Fault, PlaceThrows, CloseThrows, FillThrows, EvaluationThrows, RollThrows, lock, ae
  <2>2. /\ roll' # {} => tick' = "rolling"
        /\ Evaluating' => tick' = "evaluating"
    BY <1>4 DEF Fault, PlaceThrows, CloseThrows, FillThrows, EvaluationThrows, RollThrows,
                AfterClose, AfterFill, Idle, lock, ae, NightInv, RollInv, Evaluating
  <2> QED
    BY <1>1, <1>2, <2>1, <2>2, HistoryAlone, NightsKept DEF KeepsNights, NightInv, NightTypes
<1> QED
  BY <1>3, <1>4

(* The rollover is due when its day is not the last: one charge each.      *)
LEMMA MaybeRollSwapsStep ==
  ASSUME NightInv, MaybeRollSwaps
  PROVE  NightInv'
<1>1. UNCHANGED <<paid, clock, used, job>> /\ tick = "roll"
  BY DEF MaybeRollSwaps, lock
<1>2. roll = {} /\ ~Evaluating
  BY <1>1 DEF NightInv, RollInv
<1>3. CASE RolloverDue
  <2> DEFINE rows == {[slot |-> s, swap |-> positions[s].swap, charge |-> Charge(positions[s])] :
                        s \in Open}
  <2>1. lastSwapDay' = clock.day /\ roll' = rows /\ tick' = "rolling"
    BY <1>3 DEF MaybeRollSwaps
  <2>2. lastSwapDay # clock.day
    BY <1>3 DEF RolloverDue
  <2>3. /\ \A r \in rows : r.slot \in Slots
        /\ \A r, q \in rows : r.slot = q.slot => r = q
    BY DEF Open
  <2> HIDE DEF rows
  <2>4. NightTypes' /\ RollInv'
    BY <1>1, <1>2, <2>1, <2>3 DEF NightInv, NightTypes, RollInv, Evaluating
  <2>5. ASSUME NEW s \in Slots PROVE paid'[s].rolls + Due(s)' <= Nights' + used'.faults
    <3>1. Due(s) = 0 /\ Due(s)' \in {0, 1}
      BY <1>2 DEF Due
    <3>2. Nights = clock.day - 1 /\ Nights' = clock.day /\ clock.day \in Nat
      BY <1>1, <2>1, <2>2 DEF Nights, NightInv, NightTypes
    <3>3. paid[s].rolls + Due(s) <= Nights + used.faults /\ paid[s].rolls \in Nat /\ used.faults \in Nat
      BY DEF NightInv, ChargeInv, NightTypes
    <3> QED
      BY <1>1, <3>1, <3>2, <3>3
  <2> QED
    BY <2>4, <2>5 DEF NightInv, ChargeInv
<1>4. CASE ~RolloverDue
  <2>1. UNCHANGED <<lastSwapDay, roll>>
    BY <1>4 DEF MaybeRollSwaps
  <2> QED
    BY <1>1, <1>2, <2>1, HistoryAlone, NightsKept
       DEF KeepsNights, NightInv, NightTypes, Evaluating
<1> QED
  BY <1>3, <1>4

(* What was due is charged.                                                *)
LEMMA ApplySwapCharges ==
  ASSUME NightInv, NEW r \in roll, ApplySwap(r)
  PROVE  NightInv'
<1> DEFINE s   == r.slot
           row == [paid[s] EXCEPT
                     !.charged = @ + r.charge,
                     !.rolls   = @ + 1,
                     !.raced   = @ \/ (closing.pc = "settle" /\ closing.slot = s)]
<1>1. s \in Slots
  BY DEF NightInv, RollInv
<1>2. paid' = [paid EXCEPT ![s] = row]
  BY DEF ApplySwap
<1>3. DOMAIN row = PaidColumns /\ row.rolls = paid[s].rolls + 1
  BY <1>1 DEF NightInv, NightTypes, PaidColumns
<1>4. /\ UNCHANGED <<job, tick, lastSwapDay, clock, used>>
      /\ roll' = roll \ {r}
  BY DEF ApplySwap, lock
<1> HIDE DEF row
<1>5. NightTypes'
  BY <1>1, <1>2, <1>3, <1>4 DEF NightInv, NightTypes
<1>6. RollInv'
  BY <1>4 DEF NightInv, RollInv, Evaluating
<1>7. ASSUME NEW t \in Slots PROVE paid'[t].rolls + Due(t)' <= Nights' + used'.faults
  <2>1. Nights' = Nights /\ used' = used
    BY <1>4 DEF Nights
  <2>2. /\ paid[t].rolls + Due(t) <= Nights + used.faults
        /\ paid[t].rolls \in Nat
    BY DEF NightInv, ChargeInv, NightTypes
  <2>3. CASE t = s
    <3>1. Due(t) = 1
      BY <2>3 DEF Due
    <3>2. Due(t)' = 0
      BY <1>4, <2>3 DEF Due, NightInv, RollInv
    <3>3. paid'[t].rolls = paid[t].rolls + 1
      BY <1>1, <1>2, <1>3, <2>3 DEF NightInv, NightTypes
    <3> QED
      BY <2>1, <2>2, <3>1, <3>2, <3>3
  <2>4. CASE t # s
    <3>1. Due(t)' = Due(t)
      BY <1>4, <2>4 DEF Due
    <3>2. paid'[t] = paid[t]
      BY <1>1, <1>2, <2>4 DEF NightInv, NightTypes
    <3> QED
      BY <2>1, <2>2, <3>1, <3>2
  <2> QED
    BY <2>3, <2>4
<1> QED
  BY <1>5, <1>6, <1>7 DEF NightInv, ChargeInv

(* A day more allows a night more.                                         *)
LEMMA TimePassesStep ==
  ASSUME NightInv, TimePasses
  PROVE  NightInv'
<1>1. UNCHANGED <<paid, used, job, tick, roll, lastSwapDay>>
  BY DEF TimePasses, lock, ae
<1>2. /\ clock' \in [day : Nat, rollover : BOOLEAN]
      /\ clock'.day = clock.day \/ clock'.day = clock.day + 1
  <2>1. clock \in [day : Nat, rollover : BOOLEAN]
    BY DEF NightInv, NightTypes
  <2>2. CASE clock.rollover
    BY <2>1, <2>2 DEF TimePasses
  <2>3. CASE ~clock.rollover
    <3>1. clock' = [clock EXCEPT !.rollover = TRUE]
      BY <2>3 DEF TimePasses
    <3> QED
      BY <2>1, <3>1
  <2> QED
    BY <2>2, <2>3
<1>3. NightTypes' /\ RollInv'
  BY <1>1, <1>2 DEF NightInv, NightTypes, RollInv, Evaluating
<1>4. ASSUME NEW s \in Slots PROVE paid'[s].rolls + Due(s)' <= Nights' + used'.faults
  <2>1. Due(s)' = Due(s) /\ Due(s) \in Nat
    BY <1>1 DEF Due
  <2>2. Nights \in Int /\ Nights' \in Int /\ Nights <= Nights'
    BY <1>1, <1>2 DEF Nights, NightInv, NightTypes
  <2>3. paid[s].rolls + Due(s) <= Nights + used.faults /\ paid[s].rolls \in Nat /\ used.faults \in Nat
    BY DEF NightInv, ChargeInv, NightTypes
  <2> QED
    BY <1>1, <2>1, <2>2, <2>3
<1> QED
  BY <1>3, <1>4 DEF NightInv, ChargeInv

LEMMA NightInvInit == Init => NightInv
  BY DEF Init, NightInv, NightTypes, RollInv, ChargeInv, Due, Nights, Evaluating, Idle,
         PaidColumns

LEMMA NightInvNext == NightInv /\ [Next]_vars => NightInv'
<1> SUFFICES ASSUME NightInv, [Next]_vars PROVE NightInv'
  OBVIOUS
<1>1. CASE OwnerStep \/ CloseStep \/ EvaluationStep
  BY <1>1, OwnerKeepsNights, CloseKeepsNights, EvaluationKeepsNights, NightsKept
<1>2. CASE RollStep
  BY <1>2, MaybeRollSwapsStep, ApplySwapCharges, OthersKeepNights, NightsKept DEF RollStep
<1> QED
  BY <1>1, <1>2, FaultStepNights, TimePassesStep, OthersKeepNights, NightsKept DEF Next

(* A night is charged once, and once more at most for each restart         *)
(* (maybeRollSwaps, applySwaps).                                           *)
THEOREM NightsChargedOnce == Spec => []OneChargePerNight
<1>1. NightInv => OneChargePerNight
  <2> SUFFICES ASSUME NightInv, NEW s \in Slots PROVE paid[s].rolls <= clock.day + used.faults
    BY DEF OneChargePerNight
  <2>1. Due(s) \in Nat /\ Nights \in Int /\ Nights <= clock.day /\ clock.day \in Nat
    BY DEF Due, Nights, NightInv, NightTypes
  <2>2. paid[s].rolls + Due(s) <= Nights + used.faults /\ paid[s].rolls \in Nat /\ used.faults \in Nat
    BY DEF NightInv, ChargeInv, NightTypes
  <2> QED
    BY <2>1, <2>2
<1> QED
  BY <1>1, NightInvInit, NightInvNext, PTL DEF Spec

---------------------------------------------------------------------------
(* Lots: closes in whole lose nothing, a partial close loses half of the   *)
(* column's last digit at most, and each of those is a close the owner has *)
(* asked for.  The one under way is not counted before it has settled; it  *)
(* settles with the size it has read, which nothing else changes.          *)

LotTypes ==
    /\ \A s \in Slots : positions[s].lots \in Nat /\ paid[s].opened \in Nat /\ paid[s].lots \in Nat
    /\ \A o \in Orders : orders[o].lots \in Nat
    /\ job.pc \in {"margin", "open"} => job.lots \in Nat

UnusedRowsAreUnpaid ==
    \A s \in Slots : positions[s].status = "none" => paid[s].opened = 0 /\ paid[s].lots = 0

ClosingInv ==
    /\ closing.pc = "read" => closing.lots \in Nat /\ (closing.lots # 0 => job.pc = "close")
    /\ closing.pc = "settle" /\ closing.slot \in Slots =>
          /\ positions[closing.slot].status = "OPEN"
          /\ closing.total = positions[closing.slot].lots
          /\ closing.lots \in Nat
          /\ closing.lots <= closing.total
          /\ closing.lots # closing.total => job.pc = "close"

Settled == IF job.pc = "close" THEN used.closes - 1 ELSE used.closes

Missing(s) == paid[s].opened - OpenLots(s) - paid[s].lots

RoundingInv ==
    /\ Settled >= 0
    /\ \A s \in Slots : 2 * Magnitude(Missing(s)) <= LotScale * Settled

LotsInv == LotTypes /\ UnusedRowsAreUnpaid /\ ClosingInv /\ RoundingInv

TableInv == FillInv /\ NightInv

LEMMA MissingTypes ==
  ASSUME TableInv, LotTypes, NEW s \in Slots
  PROVE  /\ OpenLots(s) \in Nat
         /\ Missing(s) \in Int
         /\ Settled \in Int
  BY DEF LotTypes, OpenLots, Missing, Settled, TableInv, NightInv, NightTypes

(* Half a unit for each close more.                                        *)
LEMMA CostGrows ==
  ASSUME TradingAssumption, NEW m \in Int, NEW n \in Int, m <= n
  PROVE  /\ LotScale * m \in Int /\ LotScale * n \in Int
         /\ LotScale * m <= LotScale * n
         /\ LotScale * (m + 1) = LotScale * m + LotScale
<1>1. LotScale \in Nat \ {0}
  BY DEF TradingAssumption
<1>2. LotScale * m \in Int /\ LotScale * n \in Int /\ LotScale * (m + 1) = LotScale * m + LotScale
  BY <1>1
<1>3. PICK k \in Nat : n = m + k
  BY n - m \in Nat
<1>4. LotScale * k \in Nat
  BY <1>1
<1>5. LotScale * n = LotScale * m + LotScale * k
  BY <1>1, <1>3
<1> QED
  BY <1>2, <1>4, <1>5

(* What every step but three does: sizes and what was paid for them stay.  *)
KeepsLots ==
    /\ \A s \in Slots :
          /\ positions'[s].status = positions[s].status
          /\ positions'[s].lots = positions[s].lots
          /\ paid'[s].opened = paid[s].opened
          /\ paid'[s].lots = paid[s].lots
    /\ \A o \in Orders : orders'[o].lots \in Nat
    /\ job'.pc \in {"margin", "open"} => job'.lots \in Nat
    /\ Settled' \in Int /\ Settled' >= Settled
    /\ ClosingInv'

LEMMA LotsKept ==
  ASSUME TradingAssumption, TableInv, LotsInv, KeepsLots
  PROVE  LotsInv'
<1>1. LotTypes'
  BY DEF KeepsLots, LotsInv, LotTypes
<1>2. UnusedRowsAreUnpaid'
  BY DEF KeepsLots, LotsInv, UnusedRowsAreUnpaid
<1>3. Settled \in Int /\ Settled >= 0
  BY DEF LotsInv, RoundingInv, Settled, TableInv, NightInv, NightTypes
<1>4. ASSUME NEW s \in Slots PROVE 2 * Magnitude(Missing(s)') <= LotScale * Settled'
  <2>1. Missing(s)' = Missing(s)
    BY DEF KeepsLots, Missing, OpenLots, Open
  <2>2. 2 * Magnitude(Missing(s)) <= LotScale * Settled /\ Missing(s) \in Int
    BY MissingTypes DEF LotsInv, RoundingInv
  <2>3. /\ LotScale * Settled \in Int /\ LotScale * Settled' \in Int
        /\ LotScale * Settled <= LotScale * Settled'
    BY <1>3, CostGrows DEF KeepsLots
  <2>4. Magnitude(Missing(s)) \in Int
    BY <2>2 DEF Magnitude
  <2> QED
    BY <2>1, <2>2, <2>3, <2>4
<1> QED
  BY <1>1, <1>2, <1>3, <1>4 DEF LotsInv, RoundingInv, KeepsLots

---------------------------------------------------------------------------
(* The steps that change a size.                                           *)

(* A row that comes into use has all its lots open.                        *)
LEMMA RowOpened ==
  ASSUME TradingAssumption, TableInv, LotsInv, NEW s \in Free, NEW side, NEW n \in Nat,
         NEW price, NEW g, NEW o,
         OpenRow(s, side, n, price, g, o),
         \A p \in Orders : orders'[p].lots \in Nat,
         job'.pc \notin {"margin", "open", "close"}, job.pc # "close", UNCHANGED <<closing, used>>
  PROVE  LotsInv'
<1> DEFINE row  == [status |-> "OPEN", side |-> side, lots |-> n, open |-> price,
                    sl |-> g.sl, tp |-> g.tp, swap |-> 0, order |-> o]
           made == [paid[s] EXCEPT !.opened = n]
<1>1. s \in Slots /\ positions[s].status = "none"
  BY DEF Free
<1>2. /\ positions' = [positions EXCEPT ![s] = row]
      /\ paid' = [paid EXCEPT ![s] = made]
  BY DEF OpenRow
<1>3. row.status = "OPEN" /\ row.lots = n
  OBVIOUS
<1>4. made.opened = n /\ made.lots = 0
  BY <1>1 DEF LotsInv, UnusedRowsAreUnpaid, TableInv, NightInv, NightTypes, PaidColumns
<1> HIDE DEF row, made
<1>5. /\ positions'[s] = row /\ paid'[s] = made
      /\ \A t \in Slots \ {s} : positions'[t] = positions[t] /\ paid'[t] = paid[t]
  BY <1>1, <1>2 DEF TableInv, FillInv, Columns, NightInv, NightTypes
<1>6. LotTypes'
  BY <1>3, <1>4, <1>5 DEF LotsInv, LotTypes
<1>7. UnusedRowsAreUnpaid'
  BY <1>3, <1>5 DEF LotsInv, UnusedRowsAreUnpaid
<1>8. ClosingInv'
  BY <1>1, <1>5 DEF LotsInv, ClosingInv
<1>9. Settled' = Settled /\ Settled \in Int /\ Settled >= 0
  BY DEF Settled, LotsInv, RoundingInv, TableInv, NightInv, NightTypes
<1>10. ASSUME NEW t \in Slots PROVE 2 * Magnitude(Missing(t)') <= LotScale * Settled'
  <2>1. CASE t = s
    <3>1. Missing(t)' = 0
      BY <1>3, <1>4, <1>5, <2>1 DEF Missing, OpenLots, Open
    <3>2. LotScale * Settled' >= 0
      BY <1>9, CostGrows, LotScale * 0 = 0 DEF TradingAssumption
    <3> QED
      BY <3>1, <3>2 DEF Magnitude
  <2>2. CASE t # s
    <3>1. Missing(t)' = Missing(t)
      BY <1>5, <2>2 DEF Missing, OpenLots, Open
    <3> QED
      BY <1>9, <3>1 DEF LotsInv, RoundingInv
  <2> QED
    BY <2>1, <2>2
<1> QED
  BY <1>6, <1>7, <1>8, <1>9, <1>10 DEF LotsInv, RoundingInv

(* A quotient rounded to the nearest is off by half of its unit at most.   *)
LEMMA HalfAwayIsNear ==
  ASSUME NEW x \in Nat, NEW s \in Nat \ {0}
  PROVE  HalfAway(x, s) \in Nat /\ 2 * Magnitude(x - s * HalfAway(x, s)) <= s
<1>1. PICK n \in Nat, d \in Nat \ {0} : n = 2 * x + s /\ d = 2 * s
  OBVIOUS
<1> DEFINE q == n \div d
           r == n % d
<1>2. HalfAway(x, s) = q
  BY <1>1 DEF HalfAway
<1>3. q \in Int /\ r \in Int /\ 0 <= r /\ r < d /\ n = d * q + r
  OBVIOUS
<1> HIDE DEF q, r
<1>4. ~ (q < 0)
  <2> SUFFICES ASSUME q < 0 PROVE FALSE
    OBVIOUS
  <2>1. PICK k \in Nat : q = (0 - 1) - k
    BY <1>3, (0 - 1) - q \in Nat
  <2>2. d * k \in Nat /\ d * q = (0 - d) - d * k
    BY <2>1
  <2> DEFINE t == d * q
             u == d * k
  <2>3. t = (0 - d) - u /\ n = t + r /\ u \in Nat
    BY <1>3, <2>2
  <2> HIDE DEF t, u
  <2> QED
    BY <1>3, <2>3
<1>5. q \in Nat
  BY <1>3, <1>4
<1>6. s * q \in Nat /\ d * q = 2 * (s * q)
  BY <1>1, <1>5
<1> DEFINE t == s * q
<1>7. t \in Nat /\ 2 * x + s = 2 * t + r /\ r < 2 * s
  BY <1>1, <1>3, <1>6
<1> HIDE DEF t
<1>8. 2 * Magnitude(x - t) <= s
  BY <1>3, <1>7 DEF Magnitude
<1> QED
  BY <1>2, <1>5, <1>8 DEF t

(* The column is off by half of its last digit at most.                    *)
LEMMA StoredIsNear ==
  ASSUME TradingAssumption, NEW x \in Nat
  PROVE  Stored(x) \in Nat /\ 2 * Magnitude(x - Stored(x)) <= LotScale
<1>1. LotScale \in Nat \ {0}
  BY DEF TradingAssumption
<1>2. /\ HalfAway(x, LotScale) \in Nat
      /\ 2 * Magnitude(x - LotScale * HalfAway(x, LotScale)) <= LotScale
  BY <1>1, HalfAwayIsNear
<1> QED
  BY <1>1, <1>2 DEF Stored

LEMMA SettleCloseLots ==
  ASSUME TradingAssumption, TableInv, LotsInv, SettleClose
  PROVE  LotsInv'
<1> DEFINE c   == closing
           s   == closing.slot
           p   == positions[s]
           due == SettlementLines("client",
                    [n |-> FloatingPnl(p.side, p.open, c.price, c.lots), d |-> 1], SwapPortion(c))
           row  == IF c.lots = c.total THEN ClosedRow(p) ELSE ReducedRow(p, c)
           made == [paid[s] EXCEPT
                      !.lots  = @ + c.lots,
                      !.swap  = @ + due[3].debit - due[3].credit,
                      !.raced = @ \/ \E r \in roll : r.slot = s]
<1>1. /\ positions' = [positions EXCEPT ![s] = row]
      /\ paid' = [paid EXCEPT ![s] = made]
  BY DEF SettleClose
<1>2. closing.pc = "settle" /\ closing' = None /\ job' = AfterClose /\ UNCHANGED <<orders, used>>
  BY DEF SettleClose
<1>3. /\ job'.pc # "close"
      /\ job'.pc \in {"margin", "open"} => job' = job
  BY <1>2 DEF AfterClose, Idle
<1>4. ClosingInv'
  BY <1>2 DEF ClosingInv, None
<1>5. /\ Settled \in Int /\ Settled >= 0 /\ Settled' \in Int /\ Settled' >= Settled
      /\ job.pc = "close" => Settled' = Settled + 1
  BY <1>2, <1>3 DEF Settled, LotsInv, RoundingInv, TableInv, NightInv, NightTypes
<1>6. CASE s \notin Slots
  <2> HIDE DEF row, made
  <2>a. positions' = positions
    BY <1>1, <1>6 DEF TableInv, FillInv, Columns
  <2>b. paid' = paid
    BY <1>1, <1>6 DEF TableInv, NightInv, NightTypes
  <2>1. positions' = positions /\ paid' = paid
    BY <2>a, <2>b
  <2> QED
    BY <1>2, <1>3, <1>4, <1>5, <2>1, LotsKept DEF KeepsLots, LotsInv, LotTypes
<1>7. CASE s \in Slots
  <2>1. /\ p.status = "OPEN" /\ c.total = p.lots /\ p.lots \in Nat
        /\ c.lots \in Nat /\ c.lots <= c.total
        /\ c.lots # c.total => job.pc = "close"
    BY <1>2, <1>7 DEF LotsInv, ClosingInv, LotTypes
  <2>2. DOMAIN p = PositionColumns /\ DOMAIN paid[s] = PaidColumns
    BY <1>7 DEF TableInv, FillInv, Columns, NightInv, NightTypes
  <2>3. made.opened = paid[s].opened /\ made.lots = paid[s].lots + c.lots
    BY <2>2 DEF PaidColumns
  <2>4. CASE c.lots = c.total
    <3>1. row.status = "CLOSED" /\ row.lots = p.lots
      BY <2>2, <2>4 DEF ClosedRow, PositionColumns
    <3> HIDE DEF row, made
    <3>2. /\ positions'[s] = row /\ paid'[s] = made
          /\ \A t \in Slots \ {s} : positions'[t] = positions[t] /\ paid'[t] = paid[t]
      BY <1>1, <1>7 DEF TableInv, FillInv, Columns, NightInv, NightTypes
    <3>3. LotTypes'
      BY <1>2, <1>3, <2>1, <2>3, <3>1, <3>2 DEF LotsInv, LotTypes
    <3>4. UnusedRowsAreUnpaid'
      BY <3>1, <3>2 DEF LotsInv, UnusedRowsAreUnpaid
    <3>5. ASSUME NEW t \in Slots PROVE Missing(t)' = Missing(t)
      <4>1. CASE t = s
        <5>1. OpenLots(t)' = 0 /\ OpenLots(t) = p.lots
          BY <2>1, <3>1, <3>2, <4>1 DEF OpenLots, Open
        <5>2. paid[t].opened \in Nat /\ paid[t].lots \in Nat
          BY DEF LotsInv, LotTypes
        <5> QED
          BY <2>1, <2>3, <2>4, <3>2, <4>1, <5>1, <5>2 DEF Missing
      <4>2. CASE t # s
        BY <3>2, <4>2 DEF Missing, OpenLots, Open
      <4> QED
        BY <4>1, <4>2
    <3>6. ASSUME NEW t \in Slots PROVE 2 * Magnitude(Missing(t)') <= LotScale * Settled'
      <4>1. 2 * Magnitude(Missing(t)) <= LotScale * Settled /\ Missing(t) \in Int
        BY MissingTypes DEF LotsInv, RoundingInv
      <4>2. /\ LotScale * Settled \in Int /\ LotScale * Settled' \in Int
            /\ LotScale * Settled <= LotScale * Settled'
        BY <1>5, CostGrows
      <4>3. Magnitude(Missing(t)) \in Int
        BY <4>1 DEF Magnitude
      <4> QED
        BY <3>5, <4>1, <4>2, <4>3
    <3> QED
      BY <1>4, <1>5, <3>3, <3>4, <3>6 DEF LotsInv, RoundingInv
  <2>5. CASE c.lots # c.total
    <3> DEFINE x == c.total - c.lots
    <3>1. x \in Nat /\ Stored(x) \in Nat /\ 2 * Magnitude(x - Stored(x)) <= LotScale
      BY <2>1, StoredIsNear
    <3>2. row.status = "OPEN" /\ row.lots = Stored(x)
      BY <2>1, <2>2, <2>5 DEF ReducedRow, PositionColumns
    <3> HIDE DEF row, made
    <3>3. /\ positions'[s] = row /\ paid'[s] = made
          /\ \A t \in Slots \ {s} : positions'[t] = positions[t] /\ paid'[t] = paid[t]
      BY <1>1, <1>7 DEF TableInv, FillInv, Columns, NightInv, NightTypes
    <3>4. LotTypes'
      BY <1>2, <1>3, <2>1, <2>3, <3>1, <3>2, <3>3 DEF LotsInv, LotTypes
    <3>5. UnusedRowsAreUnpaid'
      BY <3>2, <3>3 DEF LotsInv, UnusedRowsAreUnpaid
    <3>6. /\ LotScale * Settled \in Int
          /\ LotScale * Settled' = LotScale * Settled + LotScale
          /\ LotScale \in Nat
      BY <1>5, <2>1, <2>5, CostGrows DEF TradingAssumption
    <3>7. ASSUME NEW t \in Slots PROVE 2 * Magnitude(Missing(t)') <= LotScale * Settled'
      <4>1. 2 * Magnitude(Missing(t)) <= LotScale * Settled /\ Missing(t) \in Int
        BY MissingTypes DEF LotsInv, RoundingInv
      <4>2. CASE t = s
        <5>1. OpenLots(t)' = Stored(x) /\ OpenLots(t) = c.total
          BY <2>1, <3>2, <3>3, <4>2 DEF OpenLots, Open
        <5>2. paid[t].opened \in Nat /\ paid[t].lots \in Nat
          BY DEF LotsInv, LotTypes
        <5>3. Missing(t)' = Missing(t) + (x - Stored(x))
          BY <2>1, <2>3, <3>1, <3>3, <4>2, <5>1, <5>2 DEF Missing
        <5> DEFINE e == Missing(t)
                   d == x - Stored(x)
                   cost == LotScale * Settled
        <5>4. e \in Int /\ d \in Int /\ cost \in Int
          BY <3>1, <3>6, <4>1
        <5>5. 2 * Magnitude(e) <= cost /\ 2 * Magnitude(d) <= LotScale
          BY <3>1, <4>1
        <5> HIDE DEF e, d, cost
        <5>6. 2 * Magnitude(e + d) <= cost + LotScale
          BY <3>6, <5>4, <5>5 DEF Magnitude
        <5> QED
          BY <3>6, <5>3, <5>6 DEF e, d, cost
      <4>3. CASE t # s
        <5>1. Missing(t)' = Missing(t)
          BY <3>3, <4>3 DEF Missing, OpenLots, Open
        <5>2. Magnitude(Missing(t)) \in Int
          BY <4>1 DEF Magnitude
        <5> QED
          BY <3>6, <4>1, <5>1, <5>2
      <4> QED
        BY <4>2, <4>3
    <3> QED
      BY <1>4, <1>5, <3>4, <3>5, <3>7 DEF LotsInv, RoundingInv
  <2> QED
    BY <2>4, <2>5
<1> QED
  BY <1>6, <1>7

---------------------------------------------------------------------------
(* Every other step.                                                       *)

(* Sizes and payments stay, and no more is asked of the close under way.   *)
SizesAlone ==
    /\ UNCHANGED <<positions, orders, paid, used>>
    /\ job'.pc \in {"margin", "open"} => job'.lots \in Nat
    /\ job.pc # "close" => job'.pc # "close"

LEMMA AloneKeepsLots ==
  ASSUME TableInv, LotsInv, SizesAlone, ClosingInv'
  PROVE  KeepsLots
  BY DEF SizesAlone, KeepsLots, LotsInv, LotTypes, Settled, TableInv, NightInv, NightTypes

(* A closing that stays, is over, or begins in whole.                      *)
LEMMA ClosingStays ==
  ASSUME LotsInv, UNCHANGED <<closing, positions>>, job.pc = "close" => job'.pc = "close"
  PROVE  ClosingInv'
  BY DEF LotsInv, ClosingInv

LEMMA ClosingEnds == closing' = None => ClosingInv'
  BY DEF ClosingInv, None

LEMMA ClosingBegins == \A s : closing' = CloseWhole(s) => ClosingInv'
  BY DEF ClosingInv, CloseWhole

LEMMA OwnerKeepsLots ==
  ASSUME TradingAssumption, TableInv, LotsInv, OwnerStep
  PROVE  LotsInv'
<1>1. ASSUME NEW side \in Sides, NEW n \in Sizes, NEW g \in Protections, NEW slip \in Slips,
             PlaceMarket(side, n, g, slip)
      PROVE  LotsInv'
  <2>1. job = Idle /\ job' = MarketOrder("margin", side, n, FillPrice(side, slip), g)
    BY <1>1 DEF PlaceMarket
  <2>2. job.pc = "idle" /\ job'.pc = "margin" /\ job'.lots = n /\ n \in Nat
    BY <2>1 DEF Idle, MarketOrder, TradingAssumption
  <2>3. UNCHANGED <<positions, orders, paid, used, closing>>
    BY <1>1 DEF PlaceMarket, db
  <2> QED
    BY <2>2, <2>3, ClosingStays, AloneKeepsLots, LotsKept DEF SizesAlone
<1>2. ASSUME CheckMargin PROVE LotsInv'
  <2>1. job.pc = "margin" /\ UNCHANGED <<positions, orders, paid, used, closing>>
    BY <1>2 DEF CheckMargin, db
  <2>2. job' = MarketOrder("open", job.side, job.lots, job.fill, job) \/ job' = Idle
    BY <1>2 DEF CheckMargin
  <2>3. job'.pc # "close" /\ (job'.pc \in {"margin", "open"} => job'.lots \in Nat)
    BY <2>1, <2>2 DEF MarketOrder, Idle, LotsInv, LotTypes
  <2> QED
    BY <2>1, <2>3, ClosingStays, AloneKeepsLots, LotsKept DEF SizesAlone
<1>3. ASSUME NEW s \in Slots, OpenPosition(s) PROVE LotsInv'
  <2>1. /\ s \in Free
        /\ OpenRow(s, job.side, job.lots, job.fill, job, NoOrder)
        /\ job.pc = "open" /\ job' = Idle
        /\ UNCHANGED <<orders, closing, used>>
    BY <1>3 DEF OpenPosition
  <2>2. job.lots \in Nat /\ \A p \in Orders : orders'[p].lots \in Nat
    BY <2>1 DEF LotsInv, LotTypes
  <2> QED
    BY <2>1, <2>2, RowOpened DEF Idle
<1>4. ASSUME NEW o \in Orders, NEW side \in Sides, NEW kind \in {"LIMIT", "STOP"}, NEW n \in Sizes,
             NEW price \in Triggers, NEW g \in Protections,
             PlacePending(o, side, kind, n, price, g)
      PROVE  LotsInv'
  <2> DEFINE row == [status |-> "PENDING", side |-> side, kind |-> kind, lots |-> n,
                     price |-> price, sl |-> g.sl, tp |-> g.tp]
  <2>1. orders' = [orders EXCEPT ![o] = row] /\ UNCHANGED <<positions, paid, used, closing, job>>
    BY <1>4 DEF PlacePending, lock
  <2>2. row.lots \in Nat
    BY DEF TradingAssumption
  <2> HIDE DEF row
  <2>3. \A p \in Orders : orders'[p].lots \in Nat
    BY <2>1, <2>2 DEF LotsInv, LotTypes, TableInv, FillInv, Columns
  <2>4. ClosingInv'
    BY <2>1, ClosingStays
  <2>5. KeepsLots
    BY <2>1, <2>3, <2>4
       DEF KeepsLots, LotsInv, LotTypes, Settled, TableInv, NightInv, NightTypes
  <2> QED
    BY <2>5, LotsKept
<1>5. ASSUME NEW s \in Slots, NEW n \in Sizes \cup {0}, ClosePosition(s, n) PROVE LotsInv'
  <2>1. /\ job.pc # "close" /\ job'.pc = "close"
        /\ closing' = [pc |-> "read", slot |-> s, lots |-> n]
        /\ used' = [used EXCEPT !.closes = @ + 1]
        /\ UNCHANGED <<positions, orders, paid>>
    BY <1>5 DEF ClosePosition, Idle, db
  <2>2. Sizes \subseteq Nat
    BY DEF TradingAssumption
  <2>3. ClosingInv'
    BY <2>1, <2>2 DEF ClosingInv
  <2>4. Settled' = Settled /\ Settled \in Int
    BY <2>1 DEF Settled, TableInv, NightInv, NightTypes
  <2>5. KeepsLots
    BY <2>1, <2>3, <2>4 DEF KeepsLots, LotsInv, LotTypes
  <2> QED
    BY <2>5, LotsKept
<1>6. ASSUME NEW s \in Slots, NEW sl, NEW tp, ModifyPosition(s, sl, tp) PROVE LotsInv'
  <2> DEFINE row == [positions[s] EXCEPT !.sl = sl, !.tp = tp]
  <2>1. /\ positions' = [positions EXCEPT ![s] = row]
        /\ UNCHANGED <<orders, paid, closing, job>>
        /\ used' = [used EXCEPT !.modifies = @ + 1]
    BY <1>6 DEF ModifyPosition, lock
  <2>2. row.status = positions[s].status /\ row.lots = positions[s].lots
    BY DEF TableInv, FillInv, Columns, PositionColumns
  <2> HIDE DEF row
  <2>3. \A t \in Slots : /\ positions'[t].status = positions[t].status
                         /\ positions'[t].lots = positions[t].lots
    BY <2>1, <2>2 DEF TableInv, FillInv, Columns
  <2>4. ClosingInv'
    BY <2>1, <2>3 DEF LotsInv, ClosingInv
  <2>5. Settled' = Settled /\ Settled \in Int
    BY <2>1 DEF Settled, TableInv, NightInv, NightTypes
  <2>6. KeepsLots
    BY <2>1, <2>3, <2>4, <2>5 DEF KeepsLots, LotsInv, LotTypes
  <2> QED
    BY <2>6, LotsKept
<1> QED
  BY <1>1, <1>2, <1>3, <1>4, <1>5, <1>6 DEF OwnerStep

(* What is read is the size of the row, of which the request is a part.    *)
LEMMA ReadForCloseLots ==
  ASSUME TradingAssumption, TableInv, LotsInv, ReadForClose
  PROVE  LotsInv'
<1> DEFINE p == positions[closing.slot]
<1>1. closing.pc = "read" /\ UNCHANGED <<positions, orders, paid, used>>
  BY DEF ReadForClose, db
<1>2. closing.lots \in Nat /\ (closing.lots # 0 => job.pc = "close")
  BY <1>1 DEF LotsInv, ClosingInv
<1>3. CASE CanClose(p, closing.lots)
  <2>1. /\ closing' = [pc |-> "settle", slot |-> closing.slot,
                       lots |-> IF closing.lots = 0 THEN p.lots ELSE closing.lots,
                       total |-> p.lots, swap |-> p.swap, price |-> ExitPrice(p.side)]
        /\ job' = job
    BY <1>3 DEF ReadForClose
  <2>2. closing.slot \in Slots => p.lots \in Nat
    BY DEF LotsInv, LotTypes
  <2>3. /\ closing'.pc = "settle" /\ closing'.slot = closing.slot /\ closing'.total = p.lots
        /\ closing'.lots = IF closing.lots = 0 THEN p.lots ELSE closing.lots
    BY <2>1
  <2>4. ClosingInv'
    BY <1>1, <1>2, <1>3, <2>1, <2>2, <2>3 DEF ClosingInv, CanClose
  <2> QED
    BY <1>1, <2>1, <2>4, AloneKeepsLots, LotsKept DEF SizesAlone, LotsInv, LotTypes
<1>4. CASE ~CanClose(p, closing.lots)
  <2>1. closing' = None /\ job' = AfterClose
    BY <1>4 DEF ReadForClose
  <2>2. job' = job \/ job' = Idle
    BY <2>1 DEF AfterClose
  <2> QED
    BY <1>1, <2>1, <2>2, ClosingEnds, AloneKeepsLots, LotsKept
       DEF SizesAlone, Idle, LotsInv, LotTypes
<1> QED
  BY <1>3, <1>4

LEMMA EvaluationKeepsLots ==
  ASSUME TradingAssumption, TableInv, LotsInv, EvaluationStep
  PROVE  LotsInv'
<1>1. ASSUME NEW o \in Orders, TriggerOrder(o) PROVE LotsInv'
  <2>1. /\ job.pc = "trigger" /\ job'.pc \in {"fill", "trigger"}
        /\ UNCHANGED <<positions, orders, paid, used, closing>>
    BY <1>1 DEF TriggerOrder, db
  <2> QED
    BY <2>1, ClosingStays, AloneKeepsLots, LotsKept DEF SizesAlone
<1>2. ASSUME NEW s \in Slots, FillOrder(s) PROVE LotsInv'
  <2> DEFINE o == orders[job.order]
  <2>1. /\ job.pc = "fill" /\ job'.pc = "trigger" /\ s \in Free
        /\ UNCHANGED <<closing, used>>
    BY <1>2 DEF FillOrder, AfterFill
  <2>2. job.order \in Orders /\ o.lots \in Nat
    BY <2>1 DEF TableInv, FillInv, Columns, LotsInv, LotTypes
  <2>3. CASE o.status = "PENDING"
    <3>1. /\ OpenRow(s, o.side, o.lots, EntryPrice(o.side), o, job.order)
          /\ orders' = [orders EXCEPT ![job.order] = FilledRow(o)]
      BY <1>2, <2>3 DEF FillOrder
    <3>2. FilledRow(o).lots = o.lots
      BY <2>2 DEF FilledRow, TableInv, FillInv, Columns, OrderColumns
    <3> DEFINE filled == FilledRow(o)
    <3> HIDE DEF filled
    <3>3. \A p \in Orders : orders'[p].lots \in Nat
      BY <2>2, <3>1, <3>2 DEF filled, LotsInv, LotTypes, TableInv, FillInv, Columns
    <3> QED
      BY <2>1, <2>2, <3>1, <3>3, RowOpened
  <2>4. CASE o.status # "PENDING"
    <3>1. UNCHANGED <<positions, orders, paid>>
      BY <1>2, <2>4 DEF FillOrder
    <3> QED
      BY <2>1, <3>1, ClosingStays, AloneKeepsLots, LotsKept DEF SizesAlone
  <2> QED
    BY <2>3, <2>4
<1>3. ASSUME EndTriggers PROVE LotsInv'
  <2>1. /\ job.pc = "trigger" /\ job'.pc = "stops"
        /\ UNCHANGED <<positions, orders, paid, used, closing>>
    BY <1>3 DEF EndTriggers, db
  <2> QED
    BY <2>1, ClosingStays, AloneKeepsLots, LotsKept DEF SizesAlone
<1>4. ASSUME NEW s \in Slots, CheckStops(s) PROVE LotsInv'
  <2>1. /\ job.pc = "stops" /\ job'.pc = "stops"
        /\ UNCHANGED <<positions, orders, paid, used>>
        /\ closing' = CloseWhole(s) \/ closing' = None
    BY <1>4 DEF CheckStops, db
  <2>2. ClosingInv'
    BY <2>1, ClosingBegins, ClosingEnds
  <2> QED
    BY <2>1, <2>2, AloneKeepsLots, LotsKept DEF SizesAlone
<1>5. ASSUME EndStops PROVE LotsInv'
  <2>1. /\ job.pc = "stops" /\ job'.pc \in {"plan", "idle"}
        /\ UNCHANGED <<positions, orders, paid, used, closing>>
    BY <1>5 DEF EndStops, EvaluationOver, Idle, db
  <2> QED
    BY <2>1, ClosingStays, AloneKeepsLots, LotsKept DEF SizesAlone
<1>6. ASSUME Liquidate PROVE LotsInv'
  <2>1. /\ job.pc = "plan" /\ job'.pc = "plan"
        /\ UNCHANGED <<positions, orders, paid, used>>
        /\ closing' = CloseWhole(Head(job.todo))
    BY <1>6 DEF Liquidate, db
  <2>2. ClosingInv'
    BY <2>1, ClosingBegins
  <2> QED
    BY <2>1, <2>2, AloneKeepsLots, LotsKept DEF SizesAlone
<1>7. ASSUME EndStopOut PROVE LotsInv'
  <2>1. /\ job.pc = "plan" /\ job'.pc = "idle"
        /\ UNCHANGED <<positions, orders, paid, used, closing>>
    BY <1>7 DEF EndStopOut, EvaluationOver, Idle, db
  <2> QED
    BY <2>1, ClosingStays, AloneKeepsLots, LotsKept DEF SizesAlone
<1> QED
  BY <1>1, <1>2, <1>3, <1>4, <1>5, <1>6, <1>7 DEF EvaluationStep

(* The rollover writes another column.                                     *)
LEMMA ApplySwapLots ==
  ASSUME TradingAssumption, TableInv, LotsInv, NEW r \in roll, ApplySwap(r)
  PROVE  LotsInv'
<1> DEFINE s    == r.slot
           row  == [positions[s] EXCEPT !.swap = r.swap + r.charge]
           made == [paid[s] EXCEPT
                      !.charged = @ + r.charge,
                      !.rolls   = @ + 1,
                      !.raced   = @ \/ (closing.pc = "settle" /\ closing.slot = s)]
<1>1. s \in Slots
  BY DEF TableInv, NightInv, RollInv
<1>2. /\ positions' = [positions EXCEPT ![s] = row]
      /\ paid' = [paid EXCEPT ![s] = made]
      /\ UNCHANGED <<orders, job, closing, used>>
  BY DEF ApplySwap, lock
<1>3. row.status = positions[s].status /\ row.lots = positions[s].lots
  BY <1>1 DEF TableInv, FillInv, Columns, PositionColumns
<1>4. made.opened = paid[s].opened /\ made.lots = paid[s].lots
  BY <1>1 DEF TableInv, NightInv, NightTypes, PaidColumns
<1> HIDE DEF row, made
<1>5. \A t \in Slots : /\ positions'[t].status = positions[t].status
                       /\ positions'[t].lots = positions[t].lots
  BY <1>1, <1>2, <1>3 DEF TableInv, FillInv, Columns
<1>6. \A t \in Slots : paid'[t].opened = paid[t].opened /\ paid'[t].lots = paid[t].lots
  BY <1>1, <1>2, <1>4 DEF TableInv, NightInv, NightTypes
<1>7. ClosingInv'
  BY <1>2, <1>5 DEF LotsInv, ClosingInv
<1>8. Settled' = Settled /\ Settled \in Int
  BY <1>2 DEF Settled, TableInv, NightInv, NightTypes
<1>9. KeepsLots
  BY <1>2, <1>5, <1>6, <1>7, <1>8 DEF KeepsLots, LotsInv, LotTypes
<1> QED
  BY <1>9, LotsKept

LEMMA FaultKeepsLots ==
  ASSUME TradingAssumption, TableInv, LotsInv, Fault
  PROVE  LotsInv'
<1>1. /\ UNCHANGED <<positions, orders, paid>>
      /\ used' = [used EXCEPT !.faults = @ + 1]
  BY DEF Fault, PlaceThrows, CloseThrows, FillThrows, EvaluationThrows, RollThrows, Restart,
         UseFault, db
<1>2. \/ job' = job
      \/ job'.pc \in {"idle", "trigger"}
  BY DEF Fault, PlaceThrows, CloseThrows, FillThrows, EvaluationThrows, RollThrows, Restart,
         AfterClose, AfterFill, Idle, lock
<1>3. \/ closing' = None
      \/ closing' = closing /\ (job.pc = "close" => job'.pc = "close")
  BY DEF Fault, PlaceThrows, CloseThrows, FillThrows, EvaluationThrows, RollThrows, Restart,
         lock
<1>4. ClosingInv'
  BY <1>1, <1>3, ClosingEnds, ClosingStays
<1>5. Settled' \in Int /\ Settled' >= Settled
  BY <1>1, <1>2 DEF Settled, TableInv, NightInv, NightTypes
<1>6. KeepsLots
  BY <1>1, <1>2, <1>4, <1>5 DEF KeepsLots, LotsInv, LotTypes
<1> QED
  BY <1>6, LotsKept

LEMMA OthersKeepLots ==
  ASSUME TradingAssumption, TableInv, LotsInv,
         \/ TickStarts \/ BeginEvaluation \/ MaybeRollSwaps \/ EndRoll
         \/ TimePasses \/ PostTransferOut \/ UNCHANGED vars
         \/ \E b \in Quotes : Quote(b)
         \/ \E x \in Transfers : TransferIn(x) \/ CheckTransferOut(x)
  PROVE  LotsInv'
<1>1. UNCHANGED <<positions, orders, paid, closing>>
  BY DEF TickStarts, BeginEvaluation, MaybeRollSwaps, EndRoll, TimePasses, PostTransferOut,
         vars, Quote, TransferIn, CheckTransferOut, db, lock
<1>2. \/ job' = job
      \/ job = Idle /\ job'.pc = "trigger"
  BY DEF TickStarts, BeginEvaluation, MaybeRollSwaps, EndRoll, TimePasses, PostTransferOut,
         vars, Quote, TransferIn, CheckTransferOut, db, lock
<1>3. used' = used \/ used' = [used EXCEPT !.transfers = @ + 1]
  BY DEF TickStarts, BeginEvaluation, MaybeRollSwaps, EndRoll, TimePasses, PostTransferOut,
         vars, Quote, TransferIn, CheckTransferOut, UseTransfer
<1>4. ClosingInv'
  BY <1>1, <1>2, ClosingStays DEF Idle
<1>5. Settled' = Settled /\ Settled \in Int
  BY <1>2, <1>3 DEF Settled, Idle, TableInv, NightInv, NightTypes
<1>6. KeepsLots
  BY <1>1, <1>2, <1>4, <1>5 DEF KeepsLots, LotsInv, LotTypes
<1> QED
  BY <1>6, LotsKept

---------------------------------------------------------------------------
LEMMA LotsInvInit == TradingAssumption /\ Init => LotsInv
<1> SUFFICES ASSUME TradingAssumption, Init PROVE LotsInv
  OBVIOUS
<1>1. LotTypes /\ UnusedRowsAreUnpaid /\ ClosingInv
  BY DEF Init, LotTypes, UnusedRowsAreUnpaid, ClosingInv, NoPosition, NoRow, Idle, None
<1>2. Settled = 0
  BY DEF Init, Settled, Idle
<1>3. \A s \in Slots : Missing(s) = 0
  BY DEF Init, Missing, OpenLots, Open, NoPosition
<1>4. LotScale * 0 = 0
  BY DEF TradingAssumption
<1> QED
  BY <1>1, <1>2, <1>3, <1>4 DEF LotsInv, RoundingInv, Magnitude

LEMMA LotsInvNext == TradingAssumption /\ TableInv /\ LotsInv /\ [Next]_vars => LotsInv'
<1> SUFFICES ASSUME TradingAssumption, TableInv, LotsInv, [Next]_vars PROVE LotsInv'
  OBVIOUS
<1>1. CASE CloseStep
  BY <1>1, ReadForCloseLots, SettleCloseLots DEF CloseStep
<1>2. CASE RollStep
  BY <1>2, ApplySwapLots, OthersKeepLots DEF RollStep
<1> QED
  BY <1>1, <1>2, OwnerKeepsLots, EvaluationKeepsLots, FaultKeepsLots, OthersKeepLots DEF Next

(* The lots a position was opened with are open or paid out, up to half of *)
(* the column's last digit for every partial close (closeInternal).        *)
THEOREM LotsConserved == Spec => []LotsWithinRounding
<1>1. TradingAssumption /\ TableInv /\ LotsInv => LotsWithinRounding
  <2> SUFFICES ASSUME TradingAssumption, TableInv, LotsInv, NEW s \in Slots
               PROVE  2 * Magnitude(Missing(s)) <= LotScale * used.closes
    BY DEF LotsWithinRounding, Missing
  <2>1. 2 * Magnitude(Missing(s)) <= LotScale * Settled /\ Missing(s) \in Int
    BY MissingTypes DEF LotsInv, RoundingInv
  <2>2. Settled \in Int /\ used.closes \in Int /\ Settled <= used.closes
    BY DEF Settled, TableInv, NightInv, NightTypes
  <2>3. /\ LotScale * Settled \in Int /\ LotScale * used.closes \in Int
        /\ LotScale * Settled <= LotScale * used.closes
    BY <2>2, CostGrows
  <2>4. Magnitude(Missing(s)) \in Int
    BY <2>1 DEF Magnitude
  <2> QED
    BY <2>1, <2>3, <2>4
<1>2. TradingAssumption /\ Init => TableInv /\ LotsInv
  BY FillInvInit, NightInvInit, LotsInvInit DEF TableInv
<1>3. TradingAssumption /\ TableInv /\ LotsInv /\ [Next]_vars => TableInv' /\ LotsInv'
  BY FillInvNext, NightInvNext, LotsInvNext DEF TableInv
<1> QED
  BY <1>1, <1>2, <1>3, TradingAssumption, PTL DEF Spec

---------------------------------------------------------------------------
(* Swaps: what was charged to a row is in its column or was settled, but   *)
(* for what is lost when a charge is written over a close (raced).  The    *)
(* rollover and the close both write what they have read, so each must     *)
(* have read what is there, or the row is marked.  A partial close rounds  *)
(* the share it pays and the share it leaves, each on its own.             *)

SwapTypes ==
    /\ \A s \in Slots : /\ positions[s].swap \in Int
                        /\ paid[s].charged \in Int /\ paid[s].swap \in Int
    /\ \A r \in roll : r.swap \in Int /\ r.charge \in Int
    /\ closing.pc = "settle" /\ closing.slot \in Slots => closing.swap \in Int

UnusedRowsOweNothing ==
    \A s \in Slots : positions[s].status = "none" => paid[s].charged = 0 /\ paid[s].swap = 0

RollReads ==
    \A r \in roll :
        /\ positions[r.slot].status # "none"
        /\ ~paid[r.slot].raced => positions[r.slot].swap = r.swap

CloseReads ==
    closing.pc = "settle" /\ closing.slot \in Slots =>
        (~paid[closing.slot].raced => positions[closing.slot].swap = closing.swap)

Owed(s) == paid[s].charged - positions[s].swap - paid[s].swap

SwapRounding ==
    \A s \in Slots : ~paid[s].raced /\ positions[s].lots > 0 => Magnitude(Owed(s)) <= Settled

SwapInv == SwapTypes /\ UnusedRowsOweNothing /\ RollReads /\ CloseReads /\ SwapRounding

---------------------------------------------------------------------------
(* Rounding a share of a swap.                                             *)

(* What a column keeps is off by half of its last digit at most, whatever  *)
(* the sign.                                                               *)
LEMMA HalfAwayIsNearest ==
  ASSUME NEW x \in Int, NEW d \in Nat \ {0}
  PROVE  HalfAway(x, d) \in Int /\ 2 * Magnitude(d * HalfAway(x, d) - x) <= d
<1>1. CASE x >= 0
  <2>1. HalfAway(x, d) \in Nat /\ 2 * Magnitude(x - d * HalfAway(x, d)) <= d
    BY <1>1, HalfAwayIsNear
  <2> DEFINE t == d * HalfAway(x, d)
  <2>2. t \in Int
    BY <2>1
  <2>3. 2 * Magnitude(x - t) <= d
    BY <2>1
  <2> HIDE DEF t
  <2>4. 2 * Magnitude(t - x) <= d
    BY <2>2, <2>3 DEF Magnitude
  <2> QED
    BY <2>1, <2>4 DEF t
<1>2. CASE x < 0
  <2> DEFINE y == 0 - x
             h == HalfAway(y, d)
             t == d * h
  <2>1. y \in Nat /\ x = 0 - y
    BY <1>2
  <2>2. h \in Nat /\ 2 * Magnitude(y - t) <= d
    BY <2>1, HalfAwayIsNear
  <2>3. HalfAway(x, d) = 0 - h
    BY <1>2, <2>1 DEF HalfAway
  <2>4. d * (0 - h) = 0 - t /\ t \in Int
    BY <2>2
  <2> HIDE DEF t, h, y
  <2>5. 2 * Magnitude((0 - t) - x) <= d
    BY <2>1, <2>2, <2>4 DEF Magnitude
  <2> QED
    BY <2>2, <2>3, <2>4, <2>5
<1> QED
  BY <1>1, <1>2

(* The two shares of a partial close lose one unit at most between them.   *)
LEMMA SharesAddUp ==
  ASSUME NEW swap \in Int, NEW t \in Nat \ {0}, NEW l \in 0..t
  PROVE  Magnitude(swap - HalfAway(swap * (t - l), t) - HalfEven(swap * l, t)) <= 1
<1> DEFINE a == HalfAway(swap * (t - l), t)
           b == HalfEven(swap * l, t)
           e == swap - a - b
<1>1. /\ swap * (t - l) \in Int /\ swap * l \in Int /\ swap * t \in Int
      /\ swap * (t - l) + swap * l = t * swap
  OBVIOUS
<1>2. /\ a \in Int /\ 2 * Magnitude(t * a - swap * (t - l)) <= t
      /\ b \in Int /\ 2 * Magnitude(t * b - swap * l) <= t
  BY <1>1, HalfAwayIsNearest, HalfEvenType, RoundingError
<1> HIDE DEF a, b
<1>3. e \in Int /\ t * e = t * swap - t * a - t * b
  BY <1>2
<1>4. t * a \in Int /\ t * b \in Int /\ t * e \in Int /\ t * swap \in Int
  BY <1>2, <1>3
<1> DEFINE ta == t * a
           tb == t * b
           te == t * e
           x  == swap * (t - l)
           y  == swap * l
           ts == t * swap
<1>5. /\ ta \in Int /\ tb \in Int /\ te \in Int /\ x \in Int /\ y \in Int /\ ts \in Int
      /\ x + y = ts /\ te = ts - ta - tb
      /\ 2 * Magnitude(ta - x) <= t /\ 2 * Magnitude(tb - y) <= t
  BY <1>1, <1>2, <1>3, <1>4
<1>6. te <= t /\ te >= 0 - t
  <2> HIDE DEF ta, tb, te, x, y, ts
  <2> QED
    BY <1>5 DEF Magnitude
<1> HIDE DEF ta, tb, x, y, ts, e
<1>7. e <= 1
  <2> SUFFICES ASSUME e >= 2 PROVE FALSE
    BY <1>3
  <2>1. PICK k \in Nat : e = 2 + k
    BY <1>3, e - 2 \in Nat
  <2>2. t * e = 2 * t + t * k /\ t * k \in Nat
    BY <2>1
  <2> QED
    BY <1>6, <2>2
<1>8. e >= 0 - 1
  <2> SUFFICES ASSUME e <= 0 - 2 PROVE FALSE
    BY <1>3
  <2>1. PICK k \in Nat : e = (0 - 2) - k
    BY <1>3, (0 - 2) - e \in Nat
  <2>2. t * e = (0 - 2 * t) - t * k /\ t * k \in Nat
    BY <2>1
  <2> QED
    BY <1>6, <2>2
<1>9. Magnitude(e) <= 1
  BY <1>3, <1>7, <1>8 DEF Magnitude
<1> QED
  BY <1>9 DEF e, a, b

(* The share of the whole is the whole.                                    *)
LEMMA WholeShare ==
  ASSUME NEW swap \in Int, NEW t \in Nat \ {0}
  PROVE  HalfEven(swap * t, t) = swap
<1>1. (swap * t) \div t = swap /\ (swap * t) % t = 0
  OBVIOUS
<1> QED
  BY <1>1 DEF HalfEven

---------------------------------------------------------------------------
(* What every step but five does: no swap is charged, settled or read.     *)
KeepsSwaps ==
    /\ \A s \in Slots :
          /\ positions'[s].status = positions[s].status
          /\ positions'[s].lots = positions[s].lots
          /\ positions'[s].swap = positions[s].swap
    /\ UNCHANGED paid
    /\ roll' \subseteq roll
    /\ closing' = closing \/ closing'.pc # "settle"
    /\ Settled' >= Settled

LEMMA SettledTypes ==
  ASSUME TableInv, LotsInv
  PROVE  Settled \in Int /\ Settled >= 0
  BY DEF Settled, LotsInv, RoundingInv, TableInv, NightInv, NightTypes

LEMMA OwedTypes ==
  ASSUME SwapTypes, NEW s \in Slots
  PROVE  Owed(s) \in Int /\ Magnitude(Owed(s)) \in Int
  BY DEF SwapTypes, Owed, Magnitude

LEMMA SwapsKept ==
  ASSUME TableInv, LotsInv, SwapInv, Settled' \in Int, KeepsSwaps
  PROVE  SwapInv'
<1>1. SwapTypes'
  BY DEF KeepsSwaps, SwapInv, SwapTypes
<1>2. UnusedRowsOweNothing'
  BY DEF KeepsSwaps, SwapInv, UnusedRowsOweNothing
<1>3. \A r \in roll : r.slot \in Slots
  BY DEF TableInv, NightInv, RollInv
<1>4. RollReads'
  BY <1>3 DEF KeepsSwaps, SwapInv, RollReads
<1>5. CloseReads'
  BY DEF KeepsSwaps, SwapInv, CloseReads
<1>6. ASSUME NEW s \in Slots, ~paid'[s].raced, positions'[s].lots > 0
      PROVE  Magnitude(Owed(s)') <= Settled'
  <2>1. Owed(s)' = Owed(s)
    BY DEF KeepsSwaps, Owed
  <2>2. ~paid[s].raced /\ positions[s].lots > 0
    BY <1>6 DEF KeepsSwaps
  <2>3. Magnitude(Owed(s)) <= Settled
    BY <2>2 DEF SwapInv, SwapRounding
  <2> QED
    BY <2>1, <2>3, OwedTypes, SettledTypes DEF KeepsSwaps, SwapInv
<1> QED
  BY <1>1, <1>2, <1>4, <1>5, <1>6 DEF SwapInv, SwapRounding

(* A close that settles, and nothing else, is one more.                    *)
LEMMA SettledGrows ==
  ASSUME NightInv, NightInv', used'.closes = used.closes,
         job.pc # "close" => job'.pc # "close"
  PROVE  Settled' \in Int /\ Settled' >= Settled
  BY DEF Settled, NightInv, NightTypes

SwapsAlone ==
    /\ UNCHANGED <<positions, paid>>
    /\ roll' \subseteq roll
    /\ closing' = closing \/ closing'.pc # "settle"
    /\ used'.closes = used.closes
    /\ job.pc # "close" => job'.pc # "close"

LEMMA AloneKeepsSwaps ==
  ASSUME TableInv, LotsInv, SwapInv, NightInv', SwapsAlone
  PROVE  SwapInv'
<1>1. Settled' \in Int /\ Settled' >= Settled
  BY SettledGrows DEF SwapsAlone, TableInv
<1>2. KeepsSwaps
  BY <1>1 DEF SwapsAlone, KeepsSwaps
<1> QED
  BY <1>1, <1>2, SwapsKept

---------------------------------------------------------------------------
(* The steps that charge, settle or read a swap.                           *)

(* A row that comes into use has nothing accrued.                          *)
LEMMA RowOpenedSwaps ==
  ASSUME TableInv, LotsInv, SwapInv, NEW s \in Free, NEW side, NEW n, NEW price, NEW g, NEW o,
         OpenRow(s, side, n, price, g, o), Settled' = Settled, UNCHANGED <<roll, closing>>
  PROVE  SwapInv'
<1> DEFINE row  == [status |-> "OPEN", side |-> side, lots |-> n, open |-> price,
                    sl |-> g.sl, tp |-> g.tp, swap |-> 0, order |-> o]
           made == [paid[s] EXCEPT !.opened = n]
<1>1. s \in Slots /\ positions[s].status = "none"
  BY DEF Free
<1>2. /\ positions' = [positions EXCEPT ![s] = row]
      /\ paid' = [paid EXCEPT ![s] = made]
  BY DEF OpenRow
<1>3. row.status = "OPEN" /\ row.swap = 0
  OBVIOUS
<1>4. made.charged = 0 /\ made.swap = 0
  BY <1>1 DEF SwapInv, UnusedRowsOweNothing, TableInv, NightInv, NightTypes, PaidColumns
<1> HIDE DEF row, made
<1>5. /\ positions'[s] = row /\ paid'[s] = made
      /\ \A t \in Slots \ {s} : positions'[t] = positions[t] /\ paid'[t] = paid[t]
  BY <1>1, <1>2 DEF TableInv, FillInv, Columns, NightInv, NightTypes
<1>6. SwapTypes'
  BY <1>3, <1>4, <1>5 DEF SwapInv, SwapTypes
<1>7. UnusedRowsOweNothing'
  BY <1>3, <1>5 DEF SwapInv, UnusedRowsOweNothing
<1>8. RollReads'
  <2>1. \A r \in roll : r.slot \in Slots \ {s}
    BY <1>1 DEF TableInv, NightInv, RollInv, SwapInv, RollReads
  <2> QED
    BY <1>5, <2>1 DEF SwapInv, RollReads
<1>9. CloseReads'
  <2>1. closing.pc = "settle" /\ closing.slot \in Slots => closing.slot # s
    BY <1>1 DEF LotsInv, ClosingInv
  <2> QED
    BY <1>5, <2>1 DEF SwapInv, CloseReads
<1>10. ASSUME NEW t \in Slots, ~paid'[t].raced, positions'[t].lots > 0
       PROVE  Magnitude(Owed(t)') <= Settled'
  <2>1. CASE t = s
    <3>1. Owed(t)' = 0
      BY <1>3, <1>4, <1>5, <2>1 DEF Owed
    <3> QED
      BY <3>1, SettledTypes DEF Magnitude
  <2>2. CASE t # s
    <3>1. Owed(t)' = Owed(t) /\ ~paid[t].raced /\ positions[t].lots > 0
      BY <1>5, <1>10, <2>2 DEF Owed
    <3> QED
      BY <3>1 DEF SwapInv, SwapRounding
  <2> QED
    BY <2>1, <2>2
<1> QED
  BY <1>6, <1>7, <1>8, <1>9, <1>10 DEF SwapInv, SwapRounding

(* The close takes down the swap of the row.                               *)
LEMMA ReadForCloseSwaps ==
  ASSUME TableInv, LotsInv, SwapInv, NightInv', ReadForClose
  PROVE  SwapInv'
<1> DEFINE p == positions[closing.slot]
<1>1. UNCHANGED <<positions, paid, used, roll>>
  BY DEF ReadForClose, db, ae
<1>2. CASE CanClose(p, closing.lots)
  <2>1. /\ closing' = [pc |-> "settle", slot |-> closing.slot,
                       lots |-> IF closing.lots = 0 THEN p.lots ELSE closing.lots,
                       total |-> p.lots, swap |-> p.swap, price |-> ExitPrice(p.side)]
        /\ job' = job
    BY <1>2 DEF ReadForClose
  <2>2. closing'.slot = closing.slot /\ closing'.swap = p.swap
    BY <2>1
  <2>3. Settled' = Settled
    BY <1>1, <2>1 DEF Settled
  <2>4. SwapTypes' /\ CloseReads'
    BY <1>1, <2>2 DEF SwapInv, SwapTypes, CloseReads
  <2>5. UnusedRowsOweNothing' /\ RollReads'
    BY <1>1 DEF SwapInv, UnusedRowsOweNothing, RollReads
  <2>6. SwapRounding'
    BY <1>1, <2>3 DEF SwapInv, SwapRounding, Owed
  <2> QED
    BY <2>4, <2>5, <2>6 DEF SwapInv
<1>3. CASE ~CanClose(p, closing.lots)
  <2>1. closing' = None /\ job' = AfterClose
    BY <1>3 DEF ReadForClose
  <2> QED
    BY <1>1, <2>1, AloneKeepsSwaps DEF SwapsAlone, None, AfterClose, Idle
<1> QED
  BY <1>2, <1>3

(* What the client is paid of a swap: all of it, or his share.             *)
LEMMA PortionPaid ==
  ASSUME NEW c, NEW pnl, c.swap \in Int, c.lots \in Nat, c.total \in Nat, c.lots <= c.total
  PROVE  LET due  == SettlementLines("client", pnl, SwapPortion(c))
             paidOut == due[3].debit - due[3].credit
         IN  /\ paidOut \in Int
             /\ due[3].debit \in Nat /\ due[3].credit \in Nat
             /\ c.total # 0 => paidOut = HalfEven(c.swap * c.lots, c.total)
<1> DEFINE part == SwapPortion(c)
           q    == HalfEven(part.n, part.d)
           due  == SettlementLines("client", pnl, part)
<1>1. /\ part.n \in Int /\ part.d \in Nat \ {0}
      /\ c.total # 0 => part.n = c.swap * c.lots /\ part.d = c.total
  <2>1. CASE c.total = 0
    BY <2>1 DEF SwapPortion
  <2>2. CASE c.total # 0
    <3>1. part = [n |-> c.swap * c.lots, d |-> c.total]
      BY <2>2 DEF SwapPortion
    <3>2. c.swap * c.lots \in Int
      OBVIOUS
    <3> QED
      BY <2>2, <3>1, <3>2
  <2> QED
    BY <2>1, <2>2
<1>2. due[3] = Line("revenue:swap", 0 - q)
  BY DEF SettlementLines
<1> HIDE DEF part
<1>3. q \in Int
  BY <1>1, HalfEvenType
<1>a. c.total # 0 => q = HalfEven(c.swap * c.lots, c.total)
  BY <1>1
<1> HIDE DEF q
<1>4. /\ due[3].credit \in Nat /\ due[3].debit \in Nat
      /\ due[3].credit - due[3].debit = 0 - q
  BY <1>2, <1>3, LineMoves
<1> HIDE DEF due
<1>5. due[3].debit - due[3].credit = q
  BY <1>3, <1>4
<1> QED
  BY <1>3, <1>4, <1>5, <1>a DEF due, part

LEMMA SettleCloseSwaps ==
  ASSUME TableInv, LotsInv, SwapInv, NightInv', SettleClose
  PROVE  SwapInv'
<1> DEFINE c   == closing
           s   == closing.slot
           p   == positions[s]
           pnl == [n |-> FloatingPnl(p.side, p.open, c.price, c.lots), d |-> 1]
           due == SettlementLines("client", pnl, SwapPortion(c))
           row  == IF c.lots = c.total THEN ClosedRow(p) ELSE ReducedRow(p, c)
           made == [paid[s] EXCEPT
                      !.lots  = @ + c.lots,
                      !.swap  = @ + due[3].debit - due[3].credit,
                      !.raced = @ \/ \E r \in roll : r.slot = s]
<1>1. /\ positions' = [positions EXCEPT ![s] = row]
      /\ paid' = [paid EXCEPT ![s] = made]
  BY DEF SettleClose
<1>2. closing.pc = "settle" /\ closing' = None /\ job' = AfterClose /\ UNCHANGED <<roll, used>>
  BY DEF SettleClose, ae
<1>3. /\ Settled' \in Int /\ Settled' >= Settled
      /\ job.pc = "close" => Settled' = Settled + 1
  BY <1>2 DEF AfterClose, Idle, Settled, LotsInv, RoundingInv, TableInv, NightInv, NightTypes
<1>4. CASE s \notin Slots
  <2> HIDE DEF row, made
  <2>1. positions' = positions
    BY <1>1, <1>4 DEF TableInv, FillInv, Columns
  <2>2. paid' = paid
    BY <1>1, <1>4 DEF TableInv, NightInv, NightTypes
  <2> QED
    BY <1>2, <1>3, <2>1, <2>2, SwapsKept DEF KeepsSwaps, None
<1>5. CASE s \in Slots
  <2> DEFINE w == c.swap
             b == due[3].debit - due[3].credit
             old == paid[s].swap
  <2>1. /\ p.status = "OPEN" /\ c.total = p.lots /\ c.total \in Nat
        /\ c.lots \in Nat /\ c.lots <= c.total /\ w \in Int
        /\ c.lots # c.total => job.pc = "close"
    BY <1>2, <1>5 DEF LotsInv, ClosingInv, LotTypes, SwapInv, SwapTypes
  <2>2. /\ b \in Int /\ due[3].debit \in Nat /\ due[3].credit \in Nat
        /\ c.total # 0 => b = HalfEven(w * c.lots, c.total)
    BY <2>1, PortionPaid
  <2> HIDE DEF due
  <2>3. DOMAIN p = PositionColumns /\ DOMAIN paid[s] = PaidColumns
    BY <1>5 DEF TableInv, FillInv, Columns, NightInv, NightTypes
  <2>4. /\ old \in Int /\ paid[s].charged \in Int /\ p.swap \in Int
        /\ ~paid[s].raced => p.swap = w
    BY <1>2, <1>5 DEF SwapInv, SwapTypes, CloseReads
  <2>5. /\ made.charged = paid[s].charged
        /\ made.swap = old + due[3].debit - due[3].credit
        /\ ~made.raced => ~paid[s].raced /\ \A r \in roll : r.slot # s
    BY <2>3 DEF PaidColumns
  <2>6. made.swap = old + b
    BY <2>2, <2>4, <2>5
  <2>7. row.swap = IF c.lots = c.total THEN 0 ELSE SwapRest(c)
    BY <2>3 DEF ClosedRow, ReducedRow, PositionColumns
  <2>8. row.status # "none"
    BY <2>1, <2>3 DEF ClosedRow, ReducedRow, PositionColumns
  <2>9. row.swap \in Int
    <3>1. CASE c.lots = c.total
      BY <2>7, <3>1
    <3>2. CASE c.lots # c.total
      <4>1. c.total \in Nat \ {0} /\ w * (c.total - c.lots) \in Int
        BY <2>1, <3>2
      <4> QED
        BY <2>7, <3>2, <4>1, HalfAwayIsNearest DEF SwapRest
    <3> QED
      BY <3>1, <3>2
  <2>10. c.total # 0 => \/ c.lots = c.total /\ w - row.swap - b = 0
                        \/ job.pc = "close" /\ Magnitude(w - row.swap - b) <= 1
    <3> SUFFICES ASSUME c.total # 0
                 PROVE  \/ c.lots = c.total /\ w - row.swap - b = 0
                        \/ job.pc = "close" /\ Magnitude(w - row.swap - b) <= 1
      OBVIOUS
    <3>1. c.total \in Nat \ {0} /\ c.lots \in 0..c.total
      BY <2>1
    <3>2. CASE c.lots = c.total
      <4>1. b = w
        BY <2>1, <2>2, <3>1, <3>2, WholeShare
      <4> QED
        BY <2>1, <2>7, <3>2, <4>1
    <3>3. CASE c.lots # c.total
      <4>1. row.swap = HalfAway(w * (c.total - c.lots), c.total) /\ b = HalfEven(w * c.lots, c.total)
        BY <2>2, <2>7, <3>1, <3>3 DEF SwapRest
      <4> QED
        BY <2>1, <3>1, <3>3, <4>1, SharesAddUp
    <3> QED
      BY <3>2, <3>3
  <2> HIDE DEF row, made, b, w
  <2>11. /\ positions'[s] = row /\ paid'[s] = made
         /\ \A t \in Slots \ {s} : positions'[t] = positions[t] /\ paid'[t] = paid[t]
    BY <1>1, <1>5 DEF TableInv, FillInv, Columns, NightInv, NightTypes
  <2>12. SwapTypes'
    <3>1. made.charged \in Int /\ made.swap \in Int
      BY <2>2, <2>4, <2>5, <2>6
    <3> QED
      BY <1>2, <2>9, <2>11, <3>1 DEF SwapInv, SwapTypes, None
  <2>13. UnusedRowsOweNothing'
    BY <2>8, <2>11 DEF SwapInv, UnusedRowsOweNothing
  <2>14. RollReads'
    <3> SUFFICES ASSUME NEW r \in roll
                 PROVE  /\ positions'[r.slot].status # "none"
                        /\ ~paid'[r.slot].raced => positions'[r.slot].swap = r.swap
      BY <1>2 DEF RollReads
    <3>1. r.slot \in Slots
      BY DEF TableInv, NightInv, RollInv
    <3>2. CASE r.slot = s
      BY <2>5, <2>8, <2>11, <3>2
    <3>3. CASE r.slot # s
      BY <2>11, <3>1, <3>3 DEF SwapInv, RollReads
    <3> QED
      BY <3>2, <3>3
  <2>15. CloseReads'
    BY <1>2 DEF CloseReads, None
  <2>16. ASSUME NEW t \in Slots, ~paid'[t].raced, positions'[t].lots > 0
         PROVE  Magnitude(Owed(t)') <= Settled'
    <3>1. CASE t = s
      <4>1. ~paid[s].raced /\ p.swap = w
        BY <2>4, <2>5, <2>11, <2>16, <3>1
      <4>2. c.total # 0
        <5> SUFFICES ASSUME c.total = 0 PROVE FALSE
          OBVIOUS
        <5>1. row.lots = p.lots
          <6>1. c.lots = c.total
            BY <2>1
          <6> QED
            BY <2>3, <6>1 DEF row, ClosedRow, PositionColumns
        <5> QED
          BY <2>1, <2>11, <2>16, <3>1, <5>1
      <4>3. Magnitude(Owed(s)) <= Settled
        BY <1>5, <2>1, <4>1, <4>2 DEF SwapInv, SwapRounding
      <4> DEFINE o == Owed(s)
                 e == w - row.swap - b
                 n == Settled
      <4>4. Owed(t)' = o + e /\ o \in Int /\ e \in Int
        <5>1. Owed(t)' = made.charged - row.swap - made.swap
          BY <2>11, <3>1 DEF Owed
        <5>2. Owed(s) = paid[s].charged - w - old
          BY <4>1 DEF Owed
        <5>3. w \in Int
          BY <2>1
        <5> QED
          BY <2>2, <2>4, <2>5, <2>6, <2>9, <5>1, <5>2, <5>3
      <4>5. \/ e = 0
            \/ Magnitude(e) <= 1 /\ Settled' = n + 1
        BY <1>3, <2>10, <4>2
      <4>6. n \in Int
        BY SettledTypes
      <4> HIDE DEF o, e, n
      <4>7. Magnitude(o + e) <= Settled'
        BY <1>3, <4>3, <4>4, <4>5, <4>6 DEF Magnitude, o, n
      <4> QED
        BY <4>4, <4>7
    <3>2. CASE t # s
      <4>1. Owed(t)' = Owed(t) /\ ~paid[t].raced /\ positions[t].lots > 0
        BY <2>11, <2>16, <3>2 DEF Owed
      <4>2. Magnitude(Owed(t)) <= Settled
        BY <4>1 DEF SwapInv, SwapRounding
      <4> QED
        BY <1>3, <4>1, <4>2, OwedTypes, SettledTypes DEF SwapInv
    <3> QED
      BY <3>1, <3>2
  <2> QED
    BY <2>12, <2>13, <2>14, <2>15, <2>16 DEF SwapInv, SwapRounding
<1> QED
  BY <1>4, <1>5

LEMMA ChargeType ==
  ASSUME TradingAssumption, NEW p, p.lots \in Nat
  PROVE  Charge(p) \in Int
<1> DEFINE points == IF p.side = "BUY" THEN SwapLong ELSE SwapShort
           triple == clock.day \in TripleDays
           n      == SwapCharge(points, p.lots, triple)
<1>1. points \in Nat /\ SwapDen \in Nat \ {0}
  BY DEF TradingAssumption
<1> HIDE DEF points
<1>2. points * p.lots \in Nat /\ 3 * points * p.lots \in Nat
  BY <1>1
<1>3. n \in Int
  BY <1>2 DEF SwapCharge
<1> HIDE DEF n
<1>4. HalfAway(0 - n, SwapDen) \in Int
  BY <1>1, <1>3, 0 - n \in Int, HalfAwayIsNearest
<1> QED
  BY <1>4 DEF Charge, n, points, triple

(* The rollover takes down the swaps of the open rows.                     *)
LEMMA MaybeRollSwapsSwaps ==
  ASSUME TradingAssumption, TableInv, LotsInv, SwapInv, NightInv', MaybeRollSwaps
  PROVE  SwapInv'
<1>1. /\ UNCHANGED <<positions, paid, closing, used, job>>
      /\ tick = "roll"
  BY DEF MaybeRollSwaps, db, lock
<1>2. roll = {}
  BY <1>1 DEF TableInv, NightInv, RollInv
<1>3. CASE RolloverDue
  <2> DEFINE rows == {[slot |-> s, swap |-> positions[s].swap, charge |-> Charge(positions[s])] :
                        s \in Open}
  <2>1. roll' = rows
    BY <1>3 DEF MaybeRollSwaps
  <2>2. \A s \in Slots : positions[s].swap \in Int /\ Charge(positions[s]) \in Int
    BY ChargeType DEF SwapInv, SwapTypes, LotsInv, LotTypes
  <2>3. \A r \in rows : /\ r.slot \in Open
                        /\ r.swap = positions[r.slot].swap
                        /\ r.charge = Charge(positions[r.slot])
    OBVIOUS
  <2>4. \A s \in Open : s \in Slots /\ positions[s].status = "OPEN"
    BY DEF Open
  <2> HIDE DEF rows
  <2>5. \A r \in rows : r.swap \in Int /\ r.charge \in Int
    BY <2>2, <2>3, <2>4
  <2>6. SwapTypes' /\ RollReads'
    BY <1>1, <2>1, <2>3, <2>4, <2>5 DEF SwapInv, SwapTypes, RollReads
  <2>7. UnusedRowsOweNothing' /\ CloseReads'
    BY <1>1 DEF SwapInv, UnusedRowsOweNothing, CloseReads
  <2>8. SwapRounding'
    BY <1>1 DEF SwapInv, SwapRounding, Owed, Settled
  <2> QED
    BY <2>6, <2>7, <2>8 DEF SwapInv
<1>4. CASE ~RolloverDue
  <2>1. roll' = roll
    BY <1>4 DEF MaybeRollSwaps
  <2> QED
    BY <1>1, <2>1, AloneKeepsSwaps DEF SwapsAlone
<1> QED
  BY <1>3, <1>4

(* A charge on top of what was read: the same on top of what is there,     *)
(* unless a close came in between.                                         *)
LEMMA ApplySwapSwaps ==
  ASSUME TableInv, LotsInv, SwapInv, NEW r \in roll, ApplySwap(r)
  PROVE  SwapInv'
<1> DEFINE s    == r.slot
           row  == [positions[s] EXCEPT !.swap = r.swap + r.charge]
           made == [paid[s] EXCEPT
                      !.charged = @ + r.charge,
                      !.rolls   = @ + 1,
                      !.raced   = @ \/ (closing.pc = "settle" /\ closing.slot = s)]
<1>1. /\ s \in Slots
      /\ \A q \in roll : q.slot = s => q = r
  BY DEF TableInv, NightInv, RollInv
<1>2. /\ positions' = [positions EXCEPT ![s] = row]
      /\ paid' = [paid EXCEPT ![s] = made]
      /\ UNCHANGED <<job, closing, used>>
      /\ roll' = roll \ {r}
  BY DEF ApplySwap, lock
<1>3. /\ row.status = positions[s].status /\ row.lots = positions[s].lots
      /\ row.swap = r.swap + r.charge
  BY <1>1 DEF TableInv, FillInv, Columns, PositionColumns
<1>4. /\ made.charged = paid[s].charged + r.charge /\ made.swap = paid[s].swap
      /\ ~made.raced => ~paid[s].raced /\ ~(closing.pc = "settle" /\ closing.slot = s)
  BY <1>1 DEF TableInv, NightInv, NightTypes, PaidColumns
<1> HIDE DEF row, made
<1>5. /\ positions'[s] = row /\ paid'[s] = made
      /\ \A t \in Slots \ {s} : positions'[t] = positions[t] /\ paid'[t] = paid[t]
  BY <1>1, <1>2 DEF TableInv, FillInv, Columns, NightInv, NightTypes
<1>6. /\ r.swap \in Int /\ r.charge \in Int
      /\ positions[s].status # "none"
      /\ ~paid[s].raced => positions[s].swap = r.swap
      /\ paid[s].charged \in Int /\ paid[s].swap \in Int
  BY <1>1 DEF SwapInv, SwapTypes, RollReads
<1>7. SwapTypes'
  BY <1>2, <1>3, <1>4, <1>5, <1>6 DEF SwapInv, SwapTypes
<1>8. UnusedRowsOweNothing'
  BY <1>3, <1>5, <1>6 DEF SwapInv, UnusedRowsOweNothing
<1>9. RollReads'
  <2>1. \A q \in roll' : q.slot \in Slots \ {s} /\ q \in roll
    BY <1>1, <1>2 DEF TableInv, NightInv, RollInv
  <2> QED
    BY <1>5, <2>1 DEF SwapInv, RollReads
<1>10. CloseReads'
  BY <1>2, <1>4, <1>5 DEF SwapInv, CloseReads
<1>11. ASSUME NEW t \in Slots, ~paid'[t].raced, positions'[t].lots > 0
       PROVE  Magnitude(Owed(t)') <= Settled'
  <2>1. Settled' = Settled
    BY <1>2 DEF Settled
  <2>2. Owed(t)' = Owed(t) /\ ~paid[t].raced /\ positions[t].lots > 0
    <3>1. CASE t = s
      BY <1>3, <1>4, <1>5, <1>6, <1>11, <3>1 DEF Owed
    <3>2. CASE t # s
      BY <1>5, <1>11, <3>2 DEF Owed
    <3> QED
      BY <3>1, <3>2
  <2> QED
    BY <2>1, <2>2 DEF SwapInv, SwapRounding
<1> QED
  BY <1>7, <1>8, <1>9, <1>10, <1>11 DEF SwapInv, SwapRounding

---------------------------------------------------------------------------
(* Every other step.                                                       *)

LEMMA OwnerKeepsSwaps ==
  ASSUME TableInv, LotsInv, SwapInv, NightInv', OwnerStep
  PROVE  SwapInv'
<1>1. ASSUME NEW side \in Sides, NEW n \in Sizes, NEW g \in Protections, NEW slip \in Slips,
             PlaceMarket(side, n, g, slip)
      PROVE  SwapInv'
  BY <1>1, AloneKeepsSwaps DEF PlaceMarket, MarketOrder, db, ae, SwapsAlone
<1>2. ASSUME CheckMargin PROVE SwapInv'
  <2>1. job'.pc # "close"
    BY <1>2 DEF CheckMargin, MarketOrder, Idle
  <2> QED
    BY <1>2, <2>1, AloneKeepsSwaps DEF CheckMargin, db, ae, SwapsAlone
<1>3. ASSUME NEW s \in Slots, OpenPosition(s) PROVE SwapInv'
  <2>1. /\ s \in Free
        /\ OpenRow(s, job.side, job.lots, job.fill, job, NoOrder)
        /\ job.pc = "open" /\ job' = Idle
        /\ UNCHANGED <<roll, closing, used>>
    BY <1>3 DEF OpenPosition, ae
  <2>2. Settled' = Settled
    BY <2>1 DEF Settled, Idle
  <2> QED
    BY <2>1, <2>2, RowOpenedSwaps
<1>4. ASSUME NEW o \in Orders, NEW side \in Sides, NEW kind \in {"LIMIT", "STOP"}, NEW n \in Sizes,
             NEW price \in Triggers, NEW g \in Protections,
             PlacePending(o, side, kind, n, price, g)
      PROVE  SwapInv'
  BY <1>4, AloneKeepsSwaps DEF PlacePending, lock, ae, SwapsAlone
<1>5. ASSUME NEW s \in Slots, NEW n \in Sizes \cup {0}, ClosePosition(s, n) PROVE SwapInv'
  <2>1. /\ job.pc # "close" /\ job'.pc = "close"
        /\ closing'.pc = "read"
        /\ used' = [used EXCEPT !.closes = @ + 1]
        /\ UNCHANGED <<positions, paid, roll>>
    BY <1>5 DEF ClosePosition, Idle, db, ae
  <2>2. Settled' = Settled /\ Settled \in Int
    BY <2>1 DEF Settled, TableInv, NightInv, NightTypes
  <2>3. KeepsSwaps
    BY <2>1, <2>2 DEF KeepsSwaps
  <2> QED
    BY <2>2, <2>3, SwapsKept
<1>6. ASSUME NEW s \in Slots, NEW sl, NEW tp, ModifyPosition(s, sl, tp) PROVE SwapInv'
  <2> DEFINE row == [positions[s] EXCEPT !.sl = sl, !.tp = tp]
  <2>1. /\ positions' = [positions EXCEPT ![s] = row]
        /\ UNCHANGED <<paid, closing, job, roll>>
        /\ used' = [used EXCEPT !.modifies = @ + 1]
    BY <1>6 DEF ModifyPosition, lock, ae
  <2>2. /\ row.status = positions[s].status /\ row.lots = positions[s].lots
        /\ row.swap = positions[s].swap
    BY DEF TableInv, FillInv, Columns, PositionColumns
  <2> HIDE DEF row
  <2>3. \A t \in Slots : /\ positions'[t].status = positions[t].status
                         /\ positions'[t].lots = positions[t].lots
                         /\ positions'[t].swap = positions[t].swap
    BY <2>1, <2>2 DEF TableInv, FillInv, Columns
  <2>4. Settled' = Settled /\ Settled \in Int
    BY <2>1 DEF Settled, TableInv, NightInv, NightTypes
  <2>5. KeepsSwaps
    BY <2>1, <2>3, <2>4 DEF KeepsSwaps
  <2> QED
    BY <2>4, <2>5, SwapsKept
<1> QED
  BY <1>1, <1>2, <1>3, <1>4, <1>5, <1>6 DEF OwnerStep

LEMMA EvaluationKeepsSwaps ==
  ASSUME TableInv, LotsInv, SwapInv, NightInv', EvaluationStep
  PROVE  SwapInv'
<1>1. ASSUME NEW o \in Orders, TriggerOrder(o) PROVE SwapInv'
  BY <1>1, AloneKeepsSwaps DEF TriggerOrder, db, ae, SwapsAlone
<1>2. ASSUME NEW s \in Slots, FillOrder(s) PROVE SwapInv'
  <2> DEFINE o == orders[job.order]
  <2>1. /\ job.pc = "fill" /\ job'.pc = "trigger" /\ s \in Free
        /\ UNCHANGED <<roll, closing, used>>
    BY <1>2 DEF FillOrder, AfterFill, ae
  <2>2. Settled' = Settled
    BY <2>1 DEF Settled
  <2>3. CASE o.status = "PENDING"
    BY <1>2, <2>1, <2>2, <2>3, RowOpenedSwaps DEF FillOrder
  <2>4. CASE o.status # "PENDING"
    BY <1>2, <2>1, <2>4, AloneKeepsSwaps DEF FillOrder, SwapsAlone
  <2> QED
    BY <2>3, <2>4
<1>3. ASSUME EndTriggers PROVE SwapInv'
  BY <1>3, AloneKeepsSwaps DEF EndTriggers, db, ae, SwapsAlone
<1>4. ASSUME NEW s \in Slots, CheckStops(s) PROVE SwapInv'
  BY <1>4, AloneKeepsSwaps DEF CheckStops, CloseWhole, None, db, ae, SwapsAlone
<1>5. ASSUME EndStops PROVE SwapInv'
  <2>1. job'.pc \in {"plan", "idle"}
    BY <1>5 DEF EndStops, EvaluationOver, Idle
  <2> QED
    BY <1>5, <2>1, AloneKeepsSwaps DEF EndStops, db, SwapsAlone
<1>6. ASSUME Liquidate PROVE SwapInv'
  BY <1>6, AloneKeepsSwaps DEF Liquidate, CloseWhole, db, ae, SwapsAlone
<1>7. ASSUME EndStopOut PROVE SwapInv'
  BY <1>7, AloneKeepsSwaps DEF EndStopOut, EvaluationOver, Idle, db, SwapsAlone
<1> QED
  BY <1>1, <1>2, <1>3, <1>4, <1>5, <1>6, <1>7 DEF EvaluationStep

LEMMA OthersKeepSwaps ==
  ASSUME TableInv, LotsInv, SwapInv, NightInv',
         \/ Fault \/ TickStarts \/ BeginEvaluation \/ EndRoll
         \/ TimePasses \/ PostTransferOut \/ UNCHANGED vars
         \/ \E b \in Quotes : Quote(b)
         \/ \E x \in Transfers : TransferIn(x) \/ CheckTransferOut(x)
  PROVE  SwapInv'
<1>1. used'.closes = used.closes
  BY DEF TickStarts, BeginEvaluation, EndRoll, TimePasses, PostTransferOut, vars, Quote,
         TransferIn, CheckTransferOut, UseTransfer, Fault, PlaceThrows, CloseThrows, FillThrows,
         EvaluationThrows, RollThrows, Restart, UseFault, TableInv, NightInv, NightTypes
<1>2. /\ UNCHANGED <<positions, paid>>
      /\ roll' \subseteq roll
      /\ closing' = closing \/ closing'.pc # "settle"
  BY DEF TickStarts, BeginEvaluation, EndRoll, TimePasses, PostTransferOut, vars, Quote,
         TransferIn, CheckTransferOut, Fault, PlaceThrows, CloseThrows, FillThrows,
         EvaluationThrows, RollThrows, Restart, None, db, lock, ae
<1>3. job.pc # "close" => job'.pc # "close"
  BY DEF TickStarts, BeginEvaluation, EndRoll, TimePasses, PostTransferOut, vars, Quote,
         TransferIn, CheckTransferOut, Fault, PlaceThrows, CloseThrows, FillThrows,
         EvaluationThrows, RollThrows, Restart, AfterClose, AfterFill, Idle, lock
<1> QED
  BY <1>1, <1>2, <1>3, AloneKeepsSwaps DEF SwapsAlone

---------------------------------------------------------------------------
LEMMA SwapInvInit == Init => SwapInv
<1> SUFFICES ASSUME Init PROVE SwapInv
  OBVIOUS
<1>1. SwapTypes /\ UnusedRowsOweNothing /\ RollReads /\ CloseReads
  BY DEF Init, SwapTypes, UnusedRowsOweNothing, RollReads, CloseReads, NoPosition, None
<1>2. SwapRounding
  BY DEF Init, SwapRounding, NoPosition
<1> QED
  BY <1>1, <1>2 DEF SwapInv

LEMMA SwapInvNext ==
  TradingAssumption /\ TableInv /\ LotsInv /\ SwapInv /\ NightInv' /\ [Next]_vars => SwapInv'
<1> SUFFICES ASSUME TradingAssumption, TableInv, LotsInv, SwapInv, NightInv', [Next]_vars
             PROVE  SwapInv'
  OBVIOUS
<1>1. CASE CloseStep
  BY <1>1, ReadForCloseSwaps, SettleCloseSwaps DEF CloseStep
<1>2. CASE RollStep
  BY <1>2, MaybeRollSwapsSwaps, ApplySwapSwaps, OthersKeepSwaps DEF RollStep
<1> QED
  BY <1>1, <1>2, OwnerKeepsSwaps, EvaluationKeepsSwaps, OthersKeepSwaps DEF Next

(* Every swap charged to a position is still accrued or was settled with   *)
(* it, up to one unit of the last decimal for every partial close, unless  *)
(* the rollover and a close of the position overlapped (applySwaps), or    *)
(* its lots were rounded to zero (closeInternal).                          *)
THEOREM SwapsAccruedOrSettled == Spec => []SwapIsAccruedOrSettled
<1>1. TradingAssumption /\ TableInv /\ LotsInv /\ SwapInv => SwapIsAccruedOrSettled
  <2> SUFFICES ASSUME TradingAssumption, TableInv, LotsInv, SwapInv,
                      NEW s \in Slots, ~paid[s].raced, positions[s].lots > 0
               PROVE  Magnitude(Owed(s)) <= used.closes
    BY DEF SwapIsAccruedOrSettled, Owed
  <2>1. Magnitude(Owed(s)) <= Settled
    BY DEF SwapInv, SwapRounding
  <2>2. Settled \in Int /\ used.closes \in Int /\ Settled <= used.closes
    BY DEF Settled, TableInv, NightInv, NightTypes
  <2> QED
    BY <2>1, <2>2, OwedTypes DEF SwapInv
<1>2. TradingAssumption /\ Init => TableInv /\ LotsInv /\ SwapInv
  BY FillInvInit, NightInvInit, LotsInvInit, SwapInvInit DEF TableInv
<1>3. TradingAssumption /\ TableInv /\ LotsInv /\ SwapInv /\ [Next]_vars
        => TableInv' /\ LotsInv' /\ SwapInv'
  BY FillInvNext, NightInvNext, LotsInvNext, SwapInvNext DEF TableInv
<1> QED
  BY <1>1, <1>2, <1>3, TradingAssumption, PTL DEF Spec

---------------------------------------------------------------------------
(* Types.  The plan is a sequence of slots because stopOutPlan returns     *)
(* positions of its book (PlanIsRight), and it has one because finitely    *)
(* many positions are open; a day on which swaps roll is within the bound. *)

TypeInv ==
    /\ TypeOK
    /\ clock.rollover => clock.day <= MaxDays
    /\ IsFiniteSet(Open)

LEMMA PricesAreIntegers ==
  ASSUME TradingAssumption, bid \in Quotes, NEW side
  PROVE  EntryPrice(side) \in Int /\ ExitPrice(side) \in Int
<1>1. Quotes \subseteq Int /\ Spread \in Int
  BY DEF TradingAssumption
<1>2. bid \in Int
  BY <1>1
<1> QED
  BY <1>1, <1>2 DEF EntryPrice, ExitPrice

(* The fields of the calls that have some.                                 *)
LEMMA JobFields ==
  ASSUME job \in Jobs
  PROVE  /\ job.pc \in {"margin", "open"} =>
              job \in [pc : {"margin", "open"}, side : Sides, lots : Nat, fill : Int,
                       sl : Nat, tp : Nat]
         /\ job.pc = "trigger" => job.todo \subseteq Orders
         /\ job.pc = "fill" => job.order \in Orders /\ job.todo \subseteq Orders
         /\ job.pc = "stops" => job.todo \subseteq Slots
         /\ job.pc = "plan" => job.todo \in Seq(Slots)
<1>1. CASE job \in [pc : {"plan"}, todo : Seq(Slots)]
  BY <1>1
<1>2. CASE job \in [pc : {"stops"}, todo : SUBSET Slots]
  BY <1>2
<1>3. CASE job \in [pc : {"fill"}, order : Orders, todo : SUBSET Orders]
  BY <1>3
<1>4. CASE job \in [pc : {"trigger"}, todo : SUBSET Orders]
  BY <1>4
<1>5. CASE job \in [pc : {"margin", "open"}, side : Sides, lots : Nat, fill : Int,
                    sl : Nat, tp : Nat]
  BY <1>5
<1>6. CASE job \in {Idle} \cup [pc : {"close"}]
  BY <1>6 DEF Idle
<1> QED
  BY <1>1, <1>2, <1>3, <1>4, <1>5, <1>6 DEF Jobs

LEMMA ClosingFields ==
  ASSUME closing \in Closings
  PROVE  /\ closing # None => closing.slot \in Slots /\ closing.pc \in {"read", "settle"}
         /\ closing.pc = "read" => closing \in [pc : {"read"}, slot : Slots, lots : Nat]
         /\ closing.pc = "settle" =>
              closing \in [pc : {"settle"}, slot : Slots, lots : Nat, total : Nat,
                           swap : Int, price : Int]
         /\ closing = None <=> closing.pc = "none"
<1>1. CASE closing = None
  BY <1>1 DEF None
<1>2. CASE closing \in [pc : {"read"}, slot : Slots, lots : Nat]
  BY <1>2 DEF None
<1>3. CASE closing \in [pc : {"settle"}, slot : Slots, lots : Nat, total : Nat, swap : Int, price : Int]
  BY <1>3 DEF None
<1> QED
  BY <1>1, <1>2, <1>3 DEF Closings

(* A row as the table keeps it: what the steps that write rows need.       *)
LEMMA RowWritten ==
  ASSUME TypeInv, NEW s \in Slots, NEW row \in Position,
         positions' = [positions EXCEPT ![s] = row]
  PROVE  positions' \in [Slots -> Position] /\ IsFiniteSet(Open')
<1>1. positions' \in [Slots -> Position]
  BY DEF TypeInv, TypeOK
<1>2. Open' \subseteq Open \cup {s}
  BY DEF Open, TypeInv, TypeOK
<1>3. IsFiniteSet(Open \cup {s})
  BY FS_AddElement DEF TypeInv
<1> QED
  BY <1>1, <1>2, <1>3, FS_Subset

(* A step that writes no row keeps the types of the others to itself.      *)
SameTables ==
    UNCHANGED <<bid, balance, positions, orders, roll, lastSwapDay, clock, transfer, used, paid>>

LEMMA TablesKeepTypes ==
  ASSUME TypeInv, SameTables,
         job' \in Jobs, closing' \in Closings,
         tick' \in {"idle", "evaluate", "evaluating", "roll", "rolling"}, still' \in BOOLEAN
  PROVE  TypeInv'
  BY DEF TypeInv, TypeOK, SameTables, Open

LEMMA PaidWritten ==
  ASSUME TypeInv, NEW s \in Slots, NEW n \in Nat, paid' = [paid EXCEPT ![s].opened = n]
  PROVE  paid' \in [Slots -> [opened : Nat, lots : Nat, charged : Int, swap : Int,
                              rolls : Nat, raced : BOOLEAN]]
  BY DEF TypeInv, TypeOK

LEMMA OwnerKeepsTypes ==
  ASSUME TradingAssumption, TypeInv, OwnerStep
  PROVE  TypeInv'
<1> USE DEF TypeInv
<1>1. ASSUME NEW side \in Sides, NEW n \in Sizes, NEW g \in Protections, NEW slip \in Slips,
             PlaceMarket(side, n, g, slip)
      PROVE  TypeInv'
  <2>1. FillPrice(side, slip) \in Int
    <3>1. slip \in Int
      BY DEF TradingAssumption
    <3>2. EntryPrice(side) \in Int
      BY PricesAreIntegers DEF TypeOK
    <3> QED
      BY <3>1, <3>2 DEF FillPrice
  <2>2. n \in Nat /\ g.sl \in Nat /\ g.tp \in Nat
    BY DEF TradingAssumption
  <2>3. MarketOrder("margin", side, n, FillPrice(side, slip), g) \in Jobs
    BY <2>1, <2>2 DEF MarketOrder, Jobs
  <2>4. SameTables
    BY <1>1 DEF PlaceMarket, SameTables, db, ae
  <2>5. job' \in Jobs /\ closing' \in Closings /\ UNCHANGED <<tick, still>>
    BY <1>1, <2>3 DEF PlaceMarket, TypeOK, ae
  <2> QED
    BY <2>4, <2>5, TablesKeepTypes DEF TypeOK
<1>2. ASSUME CheckMargin PROVE TypeInv'
  <2>1. MarketOrder("open", job.side, job.lots, job.fill, job) \in Jobs
    BY <1>2, JobFields DEF CheckMargin, MarketOrder, Jobs, TypeOK
  <2>2. job' \in Jobs
    BY <1>2, <2>1 DEF CheckMargin, Jobs
  <2> QED
    BY <1>2, <2>2, TablesKeepTypes DEF CheckMargin, SameTables, db, ae, TypeOK
<1>3. ASSUME NEW s \in Slots, OpenPosition(s) PROVE TypeInv'
  <2> DEFINE row == [status |-> "OPEN", side |-> job.side, lots |-> job.lots, open |-> job.fill,
                     sl |-> job.sl, tp |-> job.tp, swap |-> 0, order |-> NoOrder]
  <2>1. row \in Position /\ job.lots \in Nat
    BY <1>3, JobFields DEF OpenPosition, Position, TypeOK
  <2>2. positions' = [positions EXCEPT ![s] = row] /\ paid' = [paid EXCEPT ![s].opened = job.lots]
    BY <1>3 DEF OpenPosition, OpenRow
  <2> HIDE DEF row
  <2>3. positions' \in [Slots -> Position] /\ IsFiniteSet(Open')
    BY <2>1, <2>2, RowWritten
  <2>4. paid' \in [Slots -> [opened : Nat, lots : Nat, charged : Int, swap : Int,
                             rolls : Nat, raced : BOOLEAN]]
    BY <2>1, <2>2, PaidWritten
  <2>5. job' \in Jobs /\ UNCHANGED <<bid, balance, orders, closing, tick, roll, lastSwapDay, clock,
                                     transfer, used, still>>
    BY <1>3 DEF OpenPosition, ae, Jobs
  <2> QED
    BY <2>3, <2>4, <2>5 DEF TypeOK
<1>4. ASSUME NEW o \in Orders, NEW side \in Sides, NEW kind \in {"LIMIT", "STOP"}, NEW n \in Sizes,
             NEW price \in Triggers, NEW g \in Protections,
             PlacePending(o, side, kind, n, price, g)
      PROVE  TypeInv'
  <2>1. [status |-> "PENDING", side |-> side, kind |-> kind, lots |-> n,
         price |-> price, sl |-> g.sl, tp |-> g.tp] \in Order
    BY DEF Order, TradingAssumption
  <2>2. orders' \in [Orders -> Order]
    BY <1>4, <2>1 DEF PlacePending, TypeOK
  <2> QED
    BY <1>4, <2>2 DEF PlacePending, TypeOK, Open, lock, ae
<1>5. ASSUME NEW s \in Slots, NEW n \in Sizes \cup {0}, ClosePosition(s, n) PROVE TypeInv'
  <2>1. n \in Nat
    BY DEF TradingAssumption
  <2>2. [pc |-> "close"] \in Jobs /\ [pc |-> "read", slot |-> s, lots |-> n] \in Closings
    BY <2>1 DEF Jobs, Closings
  <2>3. used' \in [closes : 0..MaxCloses, modifies : 0..MaxModifies,
                   transfers : 0..MaxTransfers, faults : 0..MaxFaults]
    BY <1>5 DEF ClosePosition, TypeOK, TradingAssumption
  <2> QED
    BY <1>5, <2>2, <2>3 DEF ClosePosition, TypeOK, Open, db, ae
<1>6. ASSUME NEW s \in Slots, NEW sl \in {positions[s].sl} \cup {g.sl : g \in Protections},
             NEW tp \in {positions[s].tp} \cup {g.tp : g \in Protections},
             ModifyPosition(s, sl, tp)
      PROVE  TypeInv'
  <2> DEFINE row == [positions[s] EXCEPT !.sl = sl, !.tp = tp]
  <2>1. positions[s] \in Position
    BY DEF TypeOK
  <2>2. sl \in Nat /\ tp \in Nat
    BY <2>1 DEF TradingAssumption, Position
  <2>3. row \in Position
    BY <2>1, <2>2 DEF Position
  <2>4. positions' = [positions EXCEPT ![s] = row]
    BY <1>6 DEF ModifyPosition
  <2> HIDE DEF row
  <2>5. positions' \in [Slots -> Position] /\ IsFiniteSet(Open')
    BY <2>3, <2>4, RowWritten
  <2>6. used' \in [closes : 0..MaxCloses, modifies : 0..MaxModifies,
                   transfers : 0..MaxTransfers, faults : 0..MaxFaults]
    BY <1>6 DEF ModifyPosition, TypeOK, TradingAssumption
  <2> QED
    BY <1>6, <2>5, <2>6 DEF ModifyPosition, TypeOK, lock, ae
<1> QED
  BY <1>1, <1>2, <1>3, <1>4, <1>5, <1>6 DEF OwnerStep

LEMMA ReadForCloseTypes ==
  ASSUME TradingAssumption, TypeInv, ReadForClose
  PROVE  TypeInv'
<1> USE DEF TypeInv
<1> DEFINE p == positions[closing.slot]
<1>1. closing \in [pc : {"read"}, slot : Slots, lots : Nat] /\ p \in Position
  BY ClosingFields DEF ReadForClose, TypeOK
<1>2. SameTables /\ UNCHANGED <<tick, still>>
  BY DEF ReadForClose, SameTables, db, ae
<1>3. CASE CanClose(p, closing.lots)
  <2>1. /\ closing' = [pc |-> "settle", slot |-> closing.slot,
                       lots |-> IF closing.lots = 0 THEN p.lots ELSE closing.lots,
                       total |-> p.lots, swap |-> p.swap, price |-> ExitPrice(p.side)]
        /\ job' = job
    BY <1>3 DEF ReadForClose
  <2>2. ExitPrice(p.side) \in Int
    BY PricesAreIntegers DEF TypeOK
  <2>3. closing' \in Closings
    BY <1>1, <2>1, <2>2 DEF Closings, Position
  <2> QED
    BY <1>2, <2>1, <2>3, TablesKeepTypes DEF TypeOK
<1>4. CASE ~CanClose(p, closing.lots)
  <2>1. closing' = None /\ job' = AfterClose
    BY <1>4 DEF ReadForClose
  <2>2. closing' \in Closings /\ job' \in Jobs
    BY <2>1 DEF Closings, AfterClose, Jobs, TypeOK
  <2> QED
    BY <1>2, <2>2, TablesKeepTypes DEF TypeOK
<1> QED
  BY <1>3, <1>4

(* What a close pays is a whole number of units.                           *)
LEMMA PaymentTypes ==
  ASSUME NEW c \in [pc : {"settle"}, slot : Slots, lots : Nat, total : Nat, swap : Int, price : Int],
         NEW pnl \in Int
  PROVE  LET lines == SettlementLines("client", [n |-> pnl, d |-> 1], SwapPortion(c))
         IN  \A i \in 1..3 : lines[i].credit \in Nat /\ lines[i].debit \in Nat
<1> DEFINE a == [n |-> pnl, d |-> 1]
           b == SwapPortion(c)
<1>1. a \in Portion /\ b \in Portion
  <2>1. c.swap * c.lots \in Int
    BY SMT
  <2> QED
    BY <2>1 DEF Portion, SwapPortion
<1>2. HalfEven(a.n, a.d) \in Int /\ HalfEven(b.n, b.d) \in Int
  BY <1>1, HalfEvenType DEF Portion
<1> HIDE DEF a, b
<1> DEFINE x == HalfEven(a.n, a.d)
           y == HalfEven(b.n, b.d)
           lines == SettlementLines("client", a, b)
<1>3. /\ lines[1] = Line("client", x + y)
      /\ lines[2] = Line("pnl:trading", 0 - x)
      /\ lines[3] = Line("revenue:swap", 0 - y)
  BY DEF SettlementLines
<1>4. x + y \in Int /\ 0 - x \in Int /\ 0 - y \in Int
  BY <1>2
<1> HIDE DEF x, y, lines
<1>5. \A i \in 1..3 : i = 1 \/ i = 2 \/ i = 3
  OBVIOUS
<1>6. \A i \in 1..3 : lines[i].credit \in Nat /\ lines[i].debit \in Nat
  BY <1>3, <1>4, <1>5, LineMoves
<1> QED
  BY <1>6 DEF lines, a, b

LEMMA ClosedRowTypes ==
  ASSUME NEW p \in Position
  PROVE  ClosedRow(p) \in Position
<1> DEFINE q == [p EXCEPT !.status = "CLOSED"]
<1>1. q \in Position
  BY DEF Position
<1>2. ClosedRow(p) = [q EXCEPT !.swap = 0]
  BY DEF ClosedRow
<1> HIDE DEF q
<1> QED
  BY <1>1, <1>2 DEF Position

LEMMA SettleCloseTypes ==
  ASSUME TradingAssumption, TypeInv, LotsInv, SettleClose
  PROVE  TypeInv'
<1> USE DEF TypeInv
<1> DEFINE c     == closing
           p     == positions[c.slot]
           pnl   == FloatingPnl(p.side, p.open, c.price, c.lots)
           lines == SettlementLines("client", [n |-> pnl, d |-> 1], SwapPortion(c))
           row   == IF c.lots = c.total THEN ClosedRow(p) ELSE ReducedRow(p, c)
<1>1. /\ c \in [pc : {"settle"}, slot : Slots, lots : Nat, total : Nat, swap : Int, price : Int]
      /\ p \in Position
  BY ClosingFields DEF SettleClose, TypeOK
<1>2. c.lots <= c.total
  BY <1>1 DEF LotsInv, ClosingInv, SettleClose
<1>3. pnl \in Int
  <2>1. p.open \in Int /\ c.price \in Int /\ c.lots \in Int
    BY <1>1 DEF Position
  <2>2. (p.open - c.price) * c.lots \in Int /\ (c.price - p.open) * c.lots \in Int
    BY <2>1
  <2> QED
    BY <2>2 DEF FloatingPnl
<1>4. \A i \in 1..3 : lines[i].credit \in Nat /\ lines[i].debit \in Nat
  BY <1>1, <1>3, PaymentTypes
<1> HIDE DEF lines
<1>5. row \in Position
  <2>1. CASE c.lots = c.total
    <3>1. ClosedRow(p) \in Position
      BY <1>1, ClosedRowTypes
    <3> QED
      BY <2>1, <3>1
  <2>2. CASE c.lots # c.total
    <3>1. c.total - c.lots \in Nat /\ c.total \in Nat \ {0} /\ c.swap * (c.total - c.lots) \in Int
      <4>1. c.total - c.lots \in Nat /\ c.total \in Nat \ {0} /\ c.swap \in Int
        BY <1>1, <1>2, <2>2
      <4> QED
        BY <4>1
    <3>2. Stored(c.total - c.lots) \in Nat
      BY <3>1, StoredIsNear
    <3>3. SwapRest(c) \in Int
      BY <3>1, HalfAwayIsNearest DEF SwapRest
    <3> QED
      BY <1>1, <2>2, <3>2, <3>3 DEF ReducedRow, Position
  <2> QED
    BY <2>1, <2>2
<1>6. positions' = [positions EXCEPT ![c.slot] = row]
  BY DEF SettleClose
<1> HIDE DEF row
<1>7. positions' \in [Slots -> Position] /\ IsFiniteSet(Open')
  BY <1>1, <1>5, <1>6, RowWritten
<1>8. balance' = balance + lines[1].credit - lines[1].debit
  BY DEF SettleClose, lines
<1>9. balance' \in Int
  BY <1>4, <1>8 DEF TypeOK
<1>10. paid' \in [Slots -> [opened : Nat, lots : Nat, charged : Int, swap : Int,
                            rolls : Nat, raced : BOOLEAN]]
  <2>1. paid' = [paid EXCEPT
                   ![c.slot].lots  = @ + c.lots,
                   ![c.slot].swap  = @ + lines[3].debit - lines[3].credit,
                   ![c.slot].raced = @ \/ \E r \in roll : r.slot = c.slot]
    BY DEF SettleClose, lines
  <2>2. paid \in [Slots -> [opened : Nat, lots : Nat, charged : Int, swap : Int,
                            rolls : Nat, raced : BOOLEAN]]
    BY DEF TypeOK
  <2>3. lines[3].debit \in Int /\ lines[3].credit \in Int /\ c.lots \in Nat /\ c.slot \in Slots
    BY <1>1, <1>4
  <2> DEFINE t == c.slot
             q == paid[t]
             l == q.lots + c.lots
             w == q.swap + lines[3].debit - lines[3].credit
             z == q.raced \/ \E r \in roll : r.slot = t
             made == [q EXCEPT !.lots = l, !.swap = w, !.raced = z]
  <2>4. q \in [opened : Nat, lots : Nat, charged : Int, swap : Int, rolls : Nat, raced : BOOLEAN]
    BY <2>2, <2>3
  <2>5. l \in Nat /\ w \in Int /\ z \in BOOLEAN
    BY <2>3, <2>4
  <2>6. paid' = [paid EXCEPT ![t] = made]
    BY <2>1, <2>2
  <2> HIDE DEF l, w, z
  <2>7. made \in [opened : Nat, lots : Nat, charged : Int, swap : Int, rolls : Nat, raced : BOOLEAN]
    BY <2>4, <2>5
  <2> HIDE DEF made
  <2> QED
    BY <2>2, <2>6, <2>7
<1>11. closing' \in Closings /\ job' \in Jobs /\ still' \in BOOLEAN
  BY DEF SettleClose, Closings, AfterClose, Jobs, TypeOK
<1>12. UNCHANGED <<bid, orders, tick, roll, lastSwapDay, clock, transfer, used>>
  BY DEF SettleClose, ae
<1> QED
  BY <1>7, <1>9, <1>10, <1>11, <1>12 DEF TypeOK

---------------------------------------------------------------------------
(* The plan is made for the positions in any order.                        *)

LEMMA OneToN ==
  ASSUME NEW n \in Nat
  PROVE  IsFiniteSet(1..n) /\ Cardinality(1..n) = n
  BY FS_Interval

LEMMA BookIsTyped ==
  ASSUME TradingAssumption, TypeInv, NEW seq \in SetToSeqs(Open)
  PROVE  /\ BookOf(seq) \in Seq(Rows)
         /\ seq \in Seq(Open) /\ DOMAIN BookOf(seq) = DOMAIN seq
         /\ \A i, j \in DOMAIN seq : seq[i] = seq[j] => i = j
         /\ {seq[i] : i \in DOMAIN seq} = Open
         /\ \A i \in DOMAIN seq :
               LET p == positions[seq[i]]
               IN  /\ BookOf(seq)[i].pnl = FloatingPnl(p.side, p.open, ExitPrice(p.side), p.lots)
                   /\ BookOf(seq)[i].notional = Notional(p.lots, p.open)
<1> DEFINE n == Cardinality(Open)
<1>1. n \in Nat
  BY FS_CardinalityType DEF TypeInv
<1>2. seq \in [1..n -> Open] /\ \A i, j \in 1..n : i # j => seq[i] # seq[j]
  BY DEF SetToSeqs
<1> HIDE DEF n
<1>3. seq \in Seq(Open) /\ DOMAIN seq = 1..n /\ Len(seq) = n
  BY <1>1, <1>2
<1> DEFINE pnl(i) == LET p == positions[seq[i]]
                     IN  FloatingPnl(p.side, p.open, ExitPrice(p.side), p.lots)
           due(i) == LET p == positions[seq[i]] IN Notional(p.lots, p.open)
           b      == BookOf(seq)
<1>4. ASSUME NEW i \in 1..n PROVE pnl(i) \in Int /\ due(i) \in Int
  <2> DEFINE p == positions[seq[i]]
             e == ExitPrice(p.side)
  <2>1. p \in Position
    BY <1>2 DEF TypeInv, TypeOK, Open
  <2>2. e \in Int /\ p.open \in Int /\ p.lots \in Int
    BY <2>1, PricesAreIntegers DEF Position, TypeInv, TypeOK
  <2> HIDE DEF e, p
  <2>3. (p.open - e) * p.lots \in Int /\ (e - p.open) * p.lots \in Int /\ p.lots * p.open \in Int
    BY <2>2
  <2>4. FloatingPnl(p.side, p.open, e, p.lots) \in Int /\ Notional(p.lots, p.open) \in Int
    BY <2>3 DEF FloatingPnl, Notional
  <2> QED
    BY <2>4 DEF e, p
<1>5. \A i \in 1..n : b[i] = [pnl |-> pnl(i), notional |-> due(i)]
  BY <1>3 DEF BookOf
<1>6. DOMAIN b = 1..n /\ b = [i \in 1..n |-> b[i]]
  BY <1>3 DEF BookOf
<1> HIDE DEF b, pnl, due
<1>7. \A i \in 1..n : b[i] \in Rows /\ b[i].pnl = pnl(i) /\ b[i].notional = due(i)
  <2>1. \A x, y \in Int : [pnl |-> x, notional |-> y] \in Rows
    BY DEF Rows
  <2>2. ASSUME NEW i \in 1..n PROVE b[i] \in Rows /\ b[i].pnl = pnl(i) /\ b[i].notional = due(i)
    <3>1. b[i] = [pnl |-> pnl(i), notional |-> due(i)]
      BY <1>5
    <3>2. b[i] \in Rows
      BY <1>4, <2>1, <3>1
    <3> QED
      BY <3>1, <3>2
  <2> QED
    BY <2>2
<1>8. b \in Seq(Rows)
  <2>1. b \in [1..n -> Rows]
    BY <1>6, <1>7
  <2> QED
    BY <1>1, <2>1
<1>9. {seq[i] : i \in 1..n} = Open
  <2>1. seq \in Injection(1..n, Open)
    BY <1>2 DEF Injection, IsInjective
  <2>2. IsFiniteSet(1..n) /\ Cardinality(1..n) = n /\ IsFiniteSet(Open)
    <3>1. IsFiniteSet(1..n) /\ Cardinality(1..n) = n
      BY <1>1, OneToN
    <3> QED
      BY <3>1 DEF TypeInv
  <2>3. seq \in Surjection(1..n, Open)
    BY <2>1, <2>2, FS_Injection DEF n
  <2> QED
    BY <2>3 DEF Surjection
<1> QED
  BY <1>2, <1>3, <1>6, <1>7, <1>8, <1>9 DEF b, pnl, due

LEMMA PlanIsTyped ==
  ASSUME TradingAssumption, TypeInv, NEW seq \in SetToSeqs(Open)
  PROVE  PlanOf(seq) \in Seq(Slots)
<1> DEFINE plan == StopOutPlan(balance, BookOf(seq), Leverage, STOP_OUT_LEVEL)
<1>1. BookOf(seq) \in Seq(Rows) /\ seq \in Seq(Open) /\ DOMAIN BookOf(seq) = DOMAIN seq
  BY BookIsTyped
<1>2. plan \in Seq(DOMAIN seq)
  BY <1>1, PlanIsRight DEF PlanRight
<1>3. PlanOf(seq) = [k \in DOMAIN plan |-> seq[plan[k]]]
  BY DEF PlanOf
<1> HIDE DEF plan
<1>4. \A k \in DOMAIN plan : seq[plan[k]] \in Slots
  BY <1>1, <1>2 DEF Open
<1> QED
  BY <1>2, <1>3, <1>4

LEMMA EvaluationKeepsTypes ==
  ASSUME TradingAssumption, TypeInv, EvaluationStep
  PROVE  TypeInv'
<1> USE DEF TypeInv
<1>0. job \in Jobs /\ closing \in Closings
  BY DEF TypeOK
<1>1. ASSUME NEW o \in Orders, TriggerOrder(o) PROVE TypeInv'
  <2>1. job.todo \ {o} \in SUBSET Orders
    BY <1>0, <1>1, JobFields DEF TriggerOrder
  <2>2. job' \in Jobs
    BY <1>1, <2>1 DEF TriggerOrder, Jobs
  <2> QED
    BY <1>1, <2>2, TablesKeepTypes DEF TriggerOrder, SameTables, db, ae, TypeOK
<1>2. ASSUME NEW s \in Slots, FillOrder(s) PROVE TypeInv'
  <2> DEFINE o   == orders[job.order]
             row == [status |-> "OPEN", side |-> o.side, lots |-> o.lots,
                     open |-> EntryPrice(o.side), sl |-> o.sl, tp |-> o.tp,
                     swap |-> 0, order |-> job.order]
  <2>1. job.order \in Orders /\ job.todo \in SUBSET Orders /\ o \in Order
    BY <1>0, <1>2, JobFields DEF FillOrder, TypeOK
  <2>2. job' \in Jobs
    BY <1>2, <2>1 DEF FillOrder, AfterFill, Jobs
  <2>3. UNCHANGED <<bid, balance, closing, tick, roll, lastSwapDay, clock, transfer, used, still>>
    BY <1>2 DEF FillOrder, ae
  <2>4. CASE o.status = "PENDING"
    <3>1. positions' = [positions EXCEPT ![s] = row] /\ paid' = [paid EXCEPT ![s].opened = o.lots]
      BY <1>2, <2>4 DEF FillOrder, OpenRow
    <3>2. EntryPrice(o.side) \in Int
      BY PricesAreIntegers DEF TypeOK
    <3>3. row \in Position /\ o.lots \in Nat
      BY <2>1, <3>2 DEF Position, Order
    <3>4. orders' = [orders EXCEPT ![job.order] = FilledRow(o)]
      BY <1>2, <2>4 DEF FillOrder
    <3>5. FilledRow(o) \in Order
      BY <2>1 DEF FilledRow, Order
    <3> HIDE DEF row
    <3>6. positions' \in [Slots -> Position] /\ IsFiniteSet(Open')
      BY <3>1, <3>3, RowWritten
    <3>7. paid' \in [Slots -> [opened : Nat, lots : Nat, charged : Int, swap : Int,
                               rolls : Nat, raced : BOOLEAN]]
      BY <3>1, <3>3, PaidWritten
    <3>8. orders' \in [Orders -> Order]
      BY <2>1, <3>4, <3>5 DEF TypeOK
    <3> QED
      BY <2>2, <2>3, <3>6, <3>7, <3>8 DEF TypeOK
  <2>5. CASE o.status # "PENDING"
    <3>1. SameTables
      BY <1>2, <2>3, <2>5 DEF FillOrder, SameTables
    <3> QED
      BY <2>2, <2>3, <3>1, TablesKeepTypes DEF TypeOK
  <2> QED
    BY <2>4, <2>5
<1>3. ASSUME EndTriggers PROVE TypeInv'
  <2>1. job' \in Jobs
    BY <1>3 DEF EndTriggers, Jobs, Open
  <2> QED
    BY <1>3, <2>1, TablesKeepTypes DEF EndTriggers, SameTables, db, ae, TypeOK
<1>4. ASSUME NEW s \in Slots, CheckStops(s) PROVE TypeInv'
  <2>1. job.todo \ {s} \in SUBSET Slots
    BY <1>0, <1>4, JobFields DEF CheckStops
  <2>2. job' \in Jobs /\ closing' \in Closings
    BY <1>4, <2>1 DEF CheckStops, CloseWhole, Jobs, Closings
  <2> QED
    BY <1>4, <2>2, TablesKeepTypes DEF CheckStops, SameTables, db, ae, TypeOK
<1>5. ASSUME EndStops PROVE TypeInv'
  <2>1. job' \in Jobs
    BY <1>5, PlanIsTyped DEF EndStops, EvaluationOver, Jobs
  <2>2. SameTables /\ closing' = closing
    BY <1>5 DEF EndStops, SameTables, db
  <2>3. tick' \in {tick, "roll"} /\ still' \in {still, TRUE}
    BY <1>5 DEF EndStops, EvaluationOver
  <2> QED
    BY <2>1, <2>2, <2>3, TablesKeepTypes DEF TypeOK
<1>6. ASSUME Liquidate PROVE TypeInv'
  <2>1. job.todo \in Seq(Slots) /\ job.todo # << >>
    BY <1>0, <1>6, JobFields DEF Liquidate
  <2>2. Head(job.todo) \in Slots /\ Tail(job.todo) \in Seq(Slots)
    BY <2>1
  <2>3. job' \in Jobs /\ closing' \in Closings
    BY <1>6, <2>2 DEF Liquidate, CloseWhole, Jobs, Closings
  <2> QED
    BY <1>6, <2>3, TablesKeepTypes DEF Liquidate, SameTables, db, ae, TypeOK
<1>7. ASSUME EndStopOut PROVE TypeInv'
  <2>1. job' \in Jobs
    BY <1>7 DEF EndStopOut, EvaluationOver, Jobs
  <2> QED
    BY <1>7, <2>1, TablesKeepTypes DEF EndStopOut, EvaluationOver, SameTables, db, TypeOK
<1> QED
  BY <1>1, <1>2, <1>3, <1>4, <1>5, <1>6, <1>7 DEF EvaluationStep

LEMMA RollKeepsTypes ==
  ASSUME TradingAssumption, TypeInv, RollStep
  PROVE  TypeInv'
<1> USE DEF TypeInv
<1>1. ASSUME MaybeRollSwaps PROVE TypeInv'
  <2>1. \A s \in Open : positions[s].swap \in Int /\ Charge(positions[s]) \in Int /\ s \in Slots
    <3>1. \A s \in Open : s \in Slots /\ positions[s] \in Position
      BY DEF Open, TypeOK
    <3> QED
      BY <3>1, ChargeType DEF Position
  <2>2. roll' \subseteq [slot : Slots, swap : Int, charge : Int] /\ lastSwapDay' \in 0..MaxDays
    <3>1. CASE RolloverDue
      <4>1. clock.day \in 1..(MaxDays + 1) /\ clock.day <= MaxDays /\ MaxDays \in Nat
        BY <3>1 DEF RolloverDue, TypeOK, TradingAssumption
      <4> QED
        BY <1>1, <2>1, <3>1, <4>1 DEF MaybeRollSwaps
    <3>2. CASE ~RolloverDue
      BY <1>1, <3>2 DEF MaybeRollSwaps, TypeOK
    <3> QED
      BY <3>1, <3>2
  <2>3. tick' \in {"rolling", "idle"}
    BY <1>1 DEF MaybeRollSwaps
  <2> QED
    BY <1>1, <2>2, <2>3 DEF MaybeRollSwaps, TypeOK, Open, db, lock
<1>2. ASSUME NEW r \in roll, ApplySwap(r) PROVE TypeInv'
  <2> DEFINE t    == r.slot
             row  == [positions[t] EXCEPT !.swap = r.swap + r.charge]
             q    == paid[t]
             z    == q.raced \/ (closing.pc = "settle" /\ closing.slot = t)
             made == [q EXCEPT !.charged = q.charged + r.charge, !.rolls = q.rolls + 1, !.raced = z]
  <2>1. t \in Slots /\ r.swap \in Int /\ r.charge \in Int
    BY DEF TypeOK
  <2>2. positions[t] \in Position
    BY <2>1 DEF TypeOK
  <2>3. row \in Position
    BY <2>1, <2>2 DEF Position
  <2>4. positions' = [positions EXCEPT ![t] = row]
    BY <1>2 DEF ApplySwap
  <2>5. q \in [opened : Nat, lots : Nat, charged : Int, swap : Int, rolls : Nat, raced : BOOLEAN]
    BY <2>1 DEF TypeOK
  <2>6. z \in BOOLEAN
    BY <2>5
  <2>7. paid' = [paid EXCEPT ![t] = made]
    BY <1>2, <2>1 DEF ApplySwap, TypeOK
  <2> HIDE DEF z, row
  <2>8. q.charged + r.charge \in Int /\ q.rolls + 1 \in Nat
    BY <2>1, <2>5
  <2>9. made \in [opened : Nat, lots : Nat, charged : Int, swap : Int, rolls : Nat, raced : BOOLEAN]
    BY <2>5, <2>6, <2>8
  <2> HIDE DEF made
  <2>10. positions' \in [Slots -> Position] /\ IsFiniteSet(Open')
    BY <2>1, <2>3, <2>4, RowWritten
  <2>11. paid' \in [Slots -> [opened : Nat, lots : Nat, charged : Int, swap : Int,
                              rolls : Nat, raced : BOOLEAN]]
    BY <2>1, <2>7, <2>9 DEF TypeOK
  <2> QED
    BY <1>2, <2>10, <2>11 DEF ApplySwap, TypeOK, lock
<1>3. ASSUME EndRoll PROVE TypeInv'
  BY <1>3, TablesKeepTypes DEF EndRoll, SameTables, db, lock, TypeOK
<1> QED
  BY <1>1, <1>2, <1>3 DEF RollStep

LEMMA FaultKeepsTypes ==
  ASSUME TradingAssumption, TypeInv, Fault
  PROVE  TypeInv'
<1> USE DEF TypeInv
<1>1. job \in Jobs /\ closing \in Closings
  BY DEF TypeOK
<1>2. job' \in Jobs
  <2>1. Idle \in Jobs
    BY DEF Jobs
  <2>2. AfterClose \in Jobs
    BY <1>1, <2>1 DEF AfterClose
  <2>3. job.pc = "fill" => AfterFill \in Jobs
    BY <1>1, JobFields DEF AfterFill, Jobs
  <2> QED
    BY <1>1, <2>1, <2>2, <2>3 DEF Fault, PlaceThrows, CloseThrows, FillThrows, EvaluationThrows,
                                  RollThrows, Restart, db, lock
<1>3. closing' \in Closings
  BY <1>1 DEF Fault, PlaceThrows, CloseThrows, FillThrows, EvaluationThrows, RollThrows, Restart,
              lock, Closings
<1>4. used' \in [closes : 0..MaxCloses, modifies : 0..MaxModifies,
                 transfers : 0..MaxTransfers, faults : 0..MaxFaults]
  <2>1. UseFault
    BY DEF Fault, PlaceThrows, CloseThrows, FillThrows, EvaluationThrows, RollThrows, Restart
  <2> QED
    BY <2>1 DEF UseFault, TypeOK, TradingAssumption
<1>5. /\ tick' \in {tick, "idle"} /\ roll' \subseteq roll /\ lastSwapDay' \in {lastSwapDay, 0}
      /\ transfer' \in {transfer, 0} /\ still' = FALSE
      /\ UNCHANGED <<bid, balance, positions, orders, clock, paid>>
  BY DEF Fault, PlaceThrows, CloseThrows, FillThrows, EvaluationThrows, RollThrows, Restart,
         UseFault, db, ae, lock
<1>6. 0 \in 0..MaxDays
  BY DEF TradingAssumption
<1> QED
  BY <1>2, <1>3, <1>4, <1>5, <1>6 DEF TypeOK, Open

LEMMA OthersKeepTypes ==
  ASSUME TradingAssumption, TypeInv,
         \/ TickStarts \/ BeginEvaluation \/ TimePasses \/ PostTransferOut \/ UNCHANGED vars
         \/ \E b \in Quotes : Quote(b)
         \/ \E x \in Transfers : TransferIn(x) \/ CheckTransferOut(x)
  PROVE  TypeInv'
<1> USE DEF TypeInv
<1>0. \A x \in Transfers \cup {0} : x \in Int
  BY DEF TradingAssumption
<1>1. ASSUME TickStarts PROVE TypeInv'
  BY <1>1, TablesKeepTypes DEF TickStarts, SameTables, db, lock, TypeOK
<1>2. ASSUME BeginEvaluation PROVE TypeInv'
  <2>1. job' \in Jobs
    BY <1>2 DEF BeginEvaluation, Jobs, Pending
  <2> QED
    BY <1>2, <2>1, TablesKeepTypes DEF BeginEvaluation, SameTables, db, TypeOK
<1>3. ASSUME TimePasses PROVE TypeInv'
  <2>1. clock' \in [day : 1..(MaxDays + 1), rollover : BOOLEAN]
        /\ (clock'.rollover => clock'.day <= MaxDays)
    <3>1. /\ clock \in [day : 1..(MaxDays + 1), rollover : BOOLEAN]
          /\ MaxDays \in Nat /\ clock.day <= MaxDays
      BY <1>3 DEF TimePasses, TypeOK, TradingAssumption
    <3>2. CASE clock.rollover
      <4>1. clock' = [day |-> clock.day + 1, rollover |-> FALSE]
        BY <1>3, <3>2 DEF TimePasses
      <4>2. clock.day + 1 \in 1..(MaxDays + 1)
        BY <3>1
      <4> QED
        BY <4>1, <4>2
    <3>3. CASE ~clock.rollover
      <4>1. clock' = [clock EXCEPT !.rollover = TRUE]
        BY <1>3, <3>3 DEF TimePasses
      <4> QED
        BY <3>1, <4>1
    <3> QED
      BY <3>2, <3>3
  <2> QED
    BY <1>3, <2>1 DEF TimePasses, TypeOK, Open, db, lock, ae
<1>4. ASSUME PostTransferOut PROVE TypeInv'
  <2>1. transfer \in Int /\ balance' \in Int
    <3>1. transfer \in Int
      BY <1>0 DEF TypeOK
    <3>2. balance - transfer \in Int
      BY <3>1 DEF TypeOK
    <3> QED
      BY <1>4, <3>1, <3>2 DEF PostTransferOut
  <2> QED
    BY <1>4, <2>1 DEF PostTransferOut, TypeOK, Open, lock, ae
<1>5. ASSUME NEW b \in Quotes, Quote(b) PROVE TypeInv'
  BY <1>5 DEF Quote, TypeOK, Open, db, lock, ae
<1>6. ASSUME NEW x \in Transfers, TransferIn(x) \/ CheckTransferOut(x) PROVE TypeInv'
  <2>1. used' \in [closes : 0..MaxCloses, modifies : 0..MaxModifies,
                   transfers : 0..MaxTransfers, faults : 0..MaxFaults]
    BY <1>6 DEF TransferIn, CheckTransferOut, UseTransfer, TypeOK, TradingAssumption
  <2>2. balance + x \in Int
    BY <1>0 DEF TypeOK
  <2>3. balance' \in Int /\ transfer' \in {transfer, x} /\ still' \in {still, FALSE}
    BY <1>6, <2>2 DEF TransferIn, CheckTransferOut, TypeOK, db
  <2>4. UNCHANGED <<bid, positions, orders, job, closing, tick, roll, lastSwapDay, clock, paid>>
    BY <1>6 DEF TransferIn, CheckTransferOut, db, lock, ae
  <2> QED
    BY <2>1, <2>3, <2>4 DEF TypeOK, Open
<1>7. CASE UNCHANGED vars
  BY <1>7 DEF vars, TypeOK, Open
<1> QED
  BY <1>1, <1>2, <1>3, <1>4, <1>5, <1>6, <1>7

LEMMA TypeInvInit == TradingAssumption /\ Init => TypeInv
<1> SUFFICES ASSUME TradingAssumption, Init PROVE TypeInv
  OBVIOUS
<1>1. NoPosition \in Position /\ NoRow \in Order
  BY DEF NoPosition, NoRow, Position, Order, Sides
<1>2. Idle \in Jobs /\ None \in Closings
  BY DEF Jobs, Closings
<1>3. Open = {}
  BY DEF Init, Open, NoPosition
<1>4. /\ clock \in [day : 1..(MaxDays + 1), rollover : BOOLEAN] /\ clock.rollover = FALSE
      /\ used \in [closes : 0..MaxCloses, modifies : 0..MaxModifies,
                   transfers : 0..MaxTransfers, faults : 0..MaxFaults]
      /\ lastSwapDay \in 0..MaxDays /\ balance \in Int
  BY DEF Init, TradingAssumption
<1>5. IsFiniteSet(Open)
  BY <1>3, FS_EmptySet
<1>6. paid \in [Slots -> [opened : Nat, lots : Nat, charged : Int, swap : Int,
                          rolls : Nat, raced : BOOLEAN]]
  BY DEF Init
<1>7. /\ bid \in Quotes /\ transfer \in Transfers \cup {0} /\ still \in BOOLEAN
      /\ roll \subseteq [slot : Slots, swap : Int, charge : Int]
      /\ tick \in {"idle", "evaluate", "evaluating", "roll", "rolling"}
      /\ positions \in [Slots -> Position] /\ orders \in [Orders -> Order]
      /\ job \in Jobs /\ closing \in Closings
  BY <1>1, <1>2 DEF Init
<1> QED
  BY <1>4, <1>5, <1>6, <1>7 DEF TypeInv, TypeOK

LEMMA TypeInvNext == TradingAssumption /\ TypeInv /\ LotsInv /\ [Next]_vars => TypeInv'
<1> SUFFICES ASSUME TradingAssumption, TypeInv, LotsInv, [Next]_vars PROVE TypeInv'
  OBVIOUS
<1> QED
  BY OwnerKeepsTypes, ReadForCloseTypes, SettleCloseTypes, EvaluationKeepsTypes, RollKeepsTypes,
     FaultKeepsTypes, OthersKeepTypes DEF Next, CloseStep

(* Every variable keeps its type and every counter its bound; what is      *)
(* left to liquidate is a sequence of positions (applyStopOut).            *)
THEOREM TypesCorrect == Spec => []TypeOK
<1>1. TradingAssumption /\ Init => TableInv /\ LotsInv /\ TypeInv
  BY FillInvInit, NightInvInit, LotsInvInit, TypeInvInit DEF TableInv
<1>2. TradingAssumption /\ TableInv /\ LotsInv /\ TypeInv /\ [Next]_vars
        => TableInv' /\ LotsInv' /\ TypeInv'
  BY FillInvNext, NightInvNext, LotsInvNext, TypeInvNext DEF TableInv
<1>3. TypeInv => TypeOK
  BY DEF TypeInv
<1> QED
  BY <1>1, <1>2, <1>3, TradingAssumption, PTL DEF Spec

---------------------------------------------------------------------------
(* The stop-out plan while it is carried out.  Closing a position moves    *)
(* its profit or loss into the balance, so equity stays and the plan's     *)
(* arithmetic goes on to hold of the positions that are left: they are     *)
(* under water until the last planned one is closed, and not after.        *)

SlotPnl ==
    [s \in Slots |-> LET p == positions[s]
                     IN  FloatingPnl(p.side, p.open, ExitPrice(p.side), p.lots)]

SlotDue == [s \in Slots |-> Notional(positions[s].lots, positions[s].open)]

SlotEquity == balance + SumFunctionOnSet(SlotPnl, Open)

RestoredWith(S) ==
    \/ SumFunctionOnSet(SlotDue, S) = 0
    \/ LevelAtLeast(SlotEquity, SumFunctionOnSet(SlotDue, S), Leverage, STOP_OUT_LEVEL)

(* The position that is being closed.                                      *)
Leaving == IF closing = None THEN {} ELSE {closing.slot}

(* What is open once that and the next k positions are closed.             *)
RestAfter(k) == Open \ (Leaving \cup {job.todo[i] : i \in 1..k})

PlanInv ==
    job.pc = "plan" /\ still =>
      /\ Leaving \subseteq Open
      /\ \A i \in DOMAIN job.todo : job.todo[i] \in Open \ Leaving
      /\ \A i, j \in DOMAIN job.todo : i # j => job.todo[i] # job.todo[j]
      /\ \A k \in 0..Len(job.todo) : RestoredWith(RestAfter(k)) <=> k = Len(job.todo)
      /\ closing.pc = "read" => closing.lots = 0
      /\ closing.pc = "settle" =>
           /\ closing.lots = closing.total
           /\ closing.price = ExitPrice(positions[closing.slot].side)

LEMMA SumSame ==
  ASSUME NEW S, IsFiniteSet(S), NEW f, NEW g, \A x \in S : f[x] \in Int /\ g[x] = f[x]
  PROVE  SumFunctionOnSet(g, S) = SumFunctionOnSet(f, S)
<1> DEFINE h == [x \in S |-> x]
<1>1. Renames(h, f, g, S, S, S)
  BY DEF Renames
<1> HIDE DEF h
<1> QED
  BY <1>1, SumRenamed
LEMMA SlotTypes ==
  ASSUME TradingAssumption, TypeInv, NEW s \in Slots
  PROVE  SlotPnl[s] \in Int /\ SlotDue[s] \in Int
<1> DEFINE p == positions[s]
           e == ExitPrice(p.side)
<1>1. p \in Position
  BY DEF TypeInv, TypeOK
<1>2. e \in Int /\ p.open \in Int /\ p.lots \in Int
  BY <1>1, PricesAreIntegers DEF Position, TypeInv, TypeOK
<1> HIDE DEF e, p
<1>3. (p.open - e) * p.lots \in Int /\ (e - p.open) * p.lots \in Int /\ p.lots * p.open \in Int
  BY <1>2
<1>4. FloatingPnl(p.side, p.open, e, p.lots) \in Int /\ Notional(p.lots, p.open) \in Int
  BY <1>3 DEF FloatingPnl, Notional
<1> QED
  BY <1>4 DEF e, p, SlotPnl, SlotDue

(* A book's sums are sums over its positions, in whatever order it lists   *)
(* them.                                                                   *)
LEMMA BookSums ==
  ASSUME TradingAssumption, TypeInv, NEW seq \in SetToSeqs(Open), NEW T \in SUBSET DOMAIN seq
  PROVE  /\ UsedNotional(BookOf(seq), T) = SumFunctionOnSet(SlotDue, {seq[i] : i \in T})
         /\ PnlOf(BookOf(seq), T) = SumFunctionOnSet(SlotPnl, {seq[i] : i \in T})
<1> DEFINE b == BookOf(seq)
           D == DOMAIN seq
           due == [i \in D |-> b[i].notional]
           pnl == [i \in D |-> b[i].pnl]
<1>1. /\ b \in Seq(Rows) /\ seq \in Seq(Open) /\ DOMAIN b = D
      /\ \A i, j \in D : seq[i] = seq[j] => i = j
  BY BookIsTyped
<1>2. \A i \in D : b[i].pnl = SlotPnl[seq[i]] /\ b[i].notional = SlotDue[seq[i]]
  <2>1. \A i \in D : seq[i] \in Slots
    BY <1>1 DEF Open
  <2> QED
    BY <2>1, BookIsTyped DEF SlotPnl, SlotDue
<1>3. IsFiniteSet(D) /\ \A i \in D : b[i].pnl \in Int /\ b[i].notional \in Int
  <2>1. Len(b) \in Nat /\ D = 1..Len(b)
    BY <1>1, BookTypes
  <2> QED
    BY <1>1, <2>1, BookTypes, OneToN
<1>4. T \in SUBSET D
  OBVIOUS
<1>5. UsedNotional(b, T) = SumFunctionOnSet(due, T) /\ PnlOf(b, T) = SumFunctionOnSet(pnl, T)
  BY <1>1 DEF UsedNotional, PnlOf
<1> HIDE DEF b, D
<1>6. \A i \in D : /\ due[i] \in Int /\ SlotDue[seq[i]] = due[i]
                   /\ pnl[i] \in Int /\ SlotPnl[seq[i]] = pnl[i]
  BY <1>2, <1>3
<1> HIDE DEF due, pnl
<1>7. SumFunctionOnSet(SlotDue, {seq[i] : i \in T}) = SumFunctionOnSet(due, T)
  <2>1. Renames(seq, due, SlotDue, D, T, {seq[i] : i \in T})
    BY <1>1, <1>3, <1>4, <1>6 DEF Renames
  <2> QED
    BY <2>1, SumRenamed
<1>8. SumFunctionOnSet(SlotPnl, {seq[i] : i \in T}) = SumFunctionOnSet(pnl, T)
  <2>1. Renames(seq, pnl, SlotPnl, D, T, {seq[i] : i \in T})
    BY <1>1, <1>3, <1>4, <1>6 DEF Renames
  <2> QED
    BY <2>1, SumRenamed
<1> QED
  BY <1>5, <1>7, <1>8 DEF b

LEMMA OrderExists ==
  ASSUME NEW S, IsFiniteSet(S)
  PROVE  SetToSeq(S) \in SetToSeqs(S)
<1> DEFINE n == Cardinality(S)
<1>1. PICK f : f \in Bijection(1..n, S)
  BY FS_CardinalityType DEF ExistsBijection
<1>2. f \in [1..n -> S] /\ IsInjective(f)
  BY <1>1 DEF Bijection, Injection
<1>3. SetToSeq(S) \in [1..n -> S] /\ IsInjective(SetToSeq(S))
  BY <1>2 DEF SetToSeq
<1> QED
  BY <1>3 DEF SetToSeqs, IsInjective

(* accountMetrics in terms of the open positions.                          *)
LEMMA AccountSums ==
  ASSUME TradingAssumption, TypeInv
  PROVE  /\ Equity = SlotEquity
         /\ Used = SumFunctionOnSet(SlotDue, Open)
<1>1. PICK seq \in SetToSeqs(Open) : seq = SetToSeq(Open)
  BY OrderExists DEF TypeInv
<1>2. {seq[i] : i \in DOMAIN seq} = Open /\ DOMAIN BookOf(seq) = DOMAIN seq
  BY BookIsTyped
<1>3. Book = BookOf(seq)
  BY <1>1 DEF Book
<1>4. /\ UsedNotional(Book, DOMAIN Book) = SumFunctionOnSet(SlotDue, Open)
      /\ PnlOf(Book, DOMAIN Book) = SumFunctionOnSet(SlotPnl, Open)
  <2>1. DOMAIN seq \in SUBSET DOMAIN seq
    OBVIOUS
  <2>2. /\ UsedNotional(BookOf(seq), DOMAIN seq) = SumFunctionOnSet(SlotDue, {seq[i] : i \in DOMAIN seq})
        /\ PnlOf(BookOf(seq), DOMAIN seq) = SumFunctionOnSet(SlotPnl, {seq[i] : i \in DOMAIN seq})
    BY <2>1, BookSums
  <2> QED
    BY <1>2, <1>3, <2>2
<1> QED
  BY <1>4 DEF Equity, Used, SlotEquity

LEMMA RestoredByLevel ==
  ASSUME TradingAssumption, TypeInv
  PROVE  LevelRestored <=> RestoredWith(Open)
  BY AccountSums DEF LevelRestored, RestoredWith

---------------------------------------------------------------------------
(* The steps that make the plan and carry it out.                          *)

LEMMA PlanMade ==
  ASSUME TradingAssumption, TypeInv, EndStops
  PROVE  PlanInv'
<1> SUFFICES ASSUME job'.pc = "plan" PROVE PlanInv'
  BY DEF PlanInv
<1>1. PICK seq \in SetToSeqs(Open) : job' = [pc |-> "plan", todo |-> PlanOf(seq)]
  BY DEF EndStops, EvaluationOver, Idle
<1>2. closing = None /\ UNCHANGED <<bid, balance, positions, closing>>
  BY DEF EndStops, db
<1> DEFINE b    == BookOf(seq)
           plan == StopOutPlan(balance, b, Leverage, STOP_OUT_LEVEL)
           n    == Len(plan)
           todo == PlanOf(seq)
           D    == DOMAIN seq
           left(k) == D \ {plan[j] : j \in 1..k}
<1>3. /\ b \in Seq(Rows) /\ seq \in Seq(Open) /\ DOMAIN b = D
      /\ \A i, j \in D : seq[i] = seq[j] => i = j
      /\ {seq[i] : i \in D} = Open
  BY BookIsTyped
<1>4. /\ plan \in Seq(D)
      /\ \A j, k \in 1..n : j # k => plan[j] # plan[k]
      /\ Ends(balance, b, Leverage, STOP_OUT_LEVEL, left(n))
      /\ \A k \in 0..(n - 1) : ~Ends(balance, b, Leverage, STOP_OUT_LEVEL, left(k))
  <2>1. PlanRight(balance, b, Leverage, STOP_OUT_LEVEL, plan)
    BY <1>3, PlanIsRight
  <2> HIDE DEF plan
  <2> QED
    BY <1>3, <2>1 DEF PlanRight
<1>5. todo = [k \in DOMAIN plan |-> seq[plan[k]]]
  BY DEF PlanOf
<1> HIDE DEF plan, todo, b
<1>6. n \in Nat /\ DOMAIN plan = 1..n /\ DOMAIN todo = 1..n /\ Len(todo) = n
      /\ \A k \in 1..n : plan[k] \in D /\ todo[k] = seq[plan[k]] /\ todo[k] \in Open
  BY <1>3, <1>4, <1>5
<1>7. \A i, j \in 1..n : i # j => todo[i] # todo[j]
  BY <1>3, <1>4, <1>6
<1> DEFINE rest(k) == Open \ {todo[j] : j \in 1..k}
<1>8. ASSUME NEW k \in 0..n
      PROVE  rest(k) = {seq[i] : i \in left(k)} /\ left(k) \in SUBSET D
  <2>1. \A j \in 1..k : j \in 1..n
    BY <1>6
  <2> QED
    BY <1>3, <1>6, <2>1
<1>9. ASSUME NEW k \in 0..n
      PROVE  RestoredWith(rest(k)) <=> Ends(balance, b, Leverage, STOP_OUT_LEVEL, left(k))
  <2>1. rest(k) = {seq[i] : i \in left(k)} /\ left(k) \in SUBSET D
    BY <1>8
  <2> HIDE DEF rest, left
  <2>2. UsedNotional(b, left(k)) = SumFunctionOnSet(SlotDue, rest(k))
    BY <2>1, BookSums DEF b
  <2>3. PnlOf(b, DOMAIN b) = SumFunctionOnSet(SlotPnl, Open)
    <3>1. D \in SUBSET D
      OBVIOUS
    <3>2. PnlOf(b, D) = SumFunctionOnSet(SlotPnl, {seq[i] : i \in D})
      BY <3>1, BookSums DEF b
    <3> QED
      BY <1>3, <3>2
  <2>4. balance \in Int
    BY DEF TypeInv, TypeOK
  <2>5. Ends(balance, b, Leverage, STOP_OUT_LEVEL, left(k))
          <=> \/ UsedNotional(b, left(k)) = 0
              \/ LevelAtLeast(balance + PnlOf(b, DOMAIN b), UsedNotional(b, left(k)), Leverage,
                              STOP_OUT_LEVEL)
    BY <1>3, <2>1, <2>4, EndsByEquity
  <2> QED
    BY <2>2, <2>3, <2>5 DEF RestoredWith, SlotEquity
<1>10. \A k \in 0..n : RestoredWith(rest(k)) <=> k = n
  <2>1. SUFFICES ASSUME NEW k \in 0..n PROVE RestoredWith(rest(k)) <=> k = n
    OBVIOUS
  <2>2. k = n \/ k \in 0..(n - 1)
    <3>1. n \in Nat
      BY <1>6
    <3> HIDE DEF n
    <3> QED
      BY <3>1
  <2> HIDE DEF left, rest
  <2> QED
    BY <1>4, <1>6, <1>9, <2>2
<1>11. SlotPnl' = SlotPnl /\ SlotDue' = SlotDue /\ Open' = Open /\ SlotEquity' = SlotEquity
  BY <1>2 DEF SlotPnl, SlotDue, SlotEquity, Open, ExitPrice
<1>12. \A S : RestoredWith(S)' <=> RestoredWith(S)
  BY <1>11 DEF RestoredWith
<1>13. Leaving' = {} /\ closing'.pc = "none" /\ job'.todo = todo
  BY <1>1, <1>2 DEF Leaving, None, todo
<1>14. \A k \in 0..n : RestAfter(k)' = rest(k)
  BY <1>11, <1>13 DEF RestAfter
<1>15. DOMAIN job'.todo = 1..n /\ Len(job'.todo) = n
  BY <1>6, <1>13
<1> HIDE DEF rest, left, n
<1>16. \A k \in 0..n : RestoredWith(RestAfter(k))' <=> k = n
  BY <1>10, <1>12, <1>14
<1> QED
  BY <1>6, <1>7, <1>11, <1>13, <1>15, <1>16 DEF PlanInv

(* A step that leaves the call, the quote, the balance and what the plan   *)
(* reads of the positions alone.                                           *)
PlanAlone ==
    /\ UNCHANGED <<bid, balance, job, closing>>
    /\ still' => still
    /\ positions' = [s \in Slots |-> positions'[s]]
    /\ \A s \in Slots : /\ positions'[s].status = positions[s].status
                        /\ positions'[s].side = positions[s].side
                        /\ positions'[s].open = positions[s].open
                        /\ positions'[s].lots = positions[s].lots

LEMMA AloneKeepsPlan ==
  ASSUME TypeInv, PlanInv, PlanAlone
  PROVE  PlanInv'
<1>1. SlotPnl' = SlotPnl /\ SlotDue' = SlotDue
  BY DEF PlanAlone, SlotPnl, SlotDue, ExitPrice
<1>2. Open' = Open
  BY DEF PlanAlone, Open
<1>3. SlotEquity' = SlotEquity
  BY <1>1, <1>2 DEF PlanAlone, SlotEquity
<1>4. \A S : RestoredWith(S)' <=> RestoredWith(S)
  BY <1>1, <1>3 DEF RestoredWith
<1>5. Leaving' = Leaving /\ \A k : RestAfter(k)' = RestAfter(k)
  BY <1>2 DEF PlanAlone, Leaving, RestAfter
<1>6. closing.pc = "settle" => closing.slot \in Slots
  BY ClosingFields DEF TypeInv, TypeOK
<1>7. closing.pc = "settle" =>
        ExitPrice(positions[closing.slot].side)' = ExitPrice(positions[closing.slot].side)
  BY <1>6 DEF PlanAlone, ExitPrice
<1>8. \A k \in 0..Len(job.todo) : RestoredWith(RestAfter(k))' <=> RestoredWith(RestAfter(k))
  BY <1>4, <1>5
<1> QED
  BY <1>2, <1>5, <1>7, <1>8 DEF PlanInv, PlanAlone

LEMMA NextPlanned ==
  ASSUME TradingAssumption, TypeInv, PlanInv, Liquidate
  PROVE  PlanInv'
<1> SUFFICES ASSUME still PROVE PlanInv'
  BY DEF Liquidate, PlanInv
<1> DEFINE q == job.todo
           n == Len(q)
<1>1. /\ q \in Seq(Slots) /\ q # << >> /\ job.pc = "plan" /\ closing = None
      /\ closing' = CloseWhole(Head(q)) /\ job' = [pc |-> "plan", todo |-> Tail(q)]
      /\ UNCHANGED <<bid, balance, positions, still>>
  BY JobFields DEF Liquidate, TypeInv, TypeOK, db
<1>2. /\ \A i \in DOMAIN q : q[i] \in Open
      /\ \A i, j \in DOMAIN q : i # j => q[i] # q[j]
      /\ \A k \in 0..n : RestoredWith(RestAfter(k)) <=> k = n
  BY <1>1 DEF PlanInv
<1>3. /\ n \in Nat \ {0} /\ DOMAIN q = 1..n /\ Head(q) = q[1]
      /\ Len(Tail(q)) = n - 1 /\ DOMAIN Tail(q) = 1..(n - 1)
      /\ \A i \in 1..(n - 1) : Tail(q)[i] = q[i + 1]
  BY <1>1
<1>4. /\ closing' = [pc |-> "read", slot |-> q[1], lots |-> 0]
      /\ job'.pc = "plan" /\ job'.todo = Tail(q)
  BY <1>1, <1>3 DEF CloseWhole
<1>5. SlotPnl' = SlotPnl /\ SlotDue' = SlotDue /\ Open' = Open /\ SlotEquity' = SlotEquity
  BY <1>1 DEF SlotPnl, SlotDue, SlotEquity, Open, ExitPrice
<1>6. \A S : RestoredWith(S)' <=> RestoredWith(S)
  BY <1>5 DEF RestoredWith
<1>7. Leaving = {} /\ Leaving' = {q[1]}
  BY <1>1, <1>4 DEF Leaving, None
<1> DEFINE t == Tail(q)
<1> HIDE DEF q, n, t
<1>8. ASSUME NEW k \in 0..(n - 1) PROVE RestAfter(k)' = RestAfter(k + 1)
  <2>1. RestAfter(k)' = Open \ ({q[1]} \cup {t[i] : i \in 1..k})
    BY <1>4, <1>5, <1>7 DEF RestAfter, t
  <2>2. RestAfter(k + 1) = Open \ {q[i] : i \in 1..(k + 1)}
    BY <1>7 DEF RestAfter, q
  <2>3. {q[1]} \cup {t[i] : i \in 1..k} = {q[i] : i \in 1..(k + 1)}
    <3>1. \A i \in 1..k : t[i] = q[i + 1] /\ i + 1 \in 1..(k + 1)
      BY <1>3 DEF t
    <3>2. \A i \in 1..(k + 1) : i = 1 \/ (i - 1 \in 1..k /\ i - 1 + 1 = i)
      BY <1>3
    <3>3. 1 \in 1..(k + 1)
      BY <1>3
    <3>4. ASSUME NEW i \in 1..(k + 1) PROVE q[i] \in {q[1]} \cup {t[j] : j \in 1..k}
      <4>1. CASE i = 1
        BY <4>1
      <4>2. CASE i # 1
        <5>1. i - 1 \in 1..k /\ t[i - 1] = q[i]
          BY <3>1, <3>2, <4>2
        <5> QED
          BY <5>1
      <4> QED
        BY <4>1, <4>2
    <3>5. \A i \in 1..k : t[i] \in {q[j] : j \in 1..(k + 1)}
      BY <3>1
    <3> QED
      BY <3>3, <3>4, <3>5
  <2> QED
    BY <2>1, <2>2, <2>3
<1>9. ASSUME NEW k \in 0..(n - 1) PROVE RestoredWith(RestAfter(k))' <=> k = n - 1
  <2>1. k + 1 \in 0..n /\ (k + 1 = n <=> k = n - 1)
    BY <1>3
  <2>2. RestoredWith(RestAfter(k))' <=> RestoredWith(RestAfter(k + 1))
    BY <1>6, <1>8
  <2> QED
    BY <1>2, <2>1, <2>2
<1>10. /\ \A i \in 1..(n - 1) : t[i] \in Open \ {q[1]}
       /\ \A i, j \in 1..(n - 1) : i # j => t[i] # t[j]
       /\ q[1] \in Open
  <2>1. \A i \in 1..(n - 1) : i + 1 \in 1..n /\ i + 1 # 1 /\ t[i] = q[i + 1]
    BY <1>3 DEF t
  <2>2. 1 \in 1..n
    BY <1>3
  <2>3. \A i, j \in 1..(n - 1) : i # j => i + 1 # j + 1
    OBVIOUS
  <2>4. \A i \in 1..(n - 1) : t[i] \in Open /\ t[i] # q[1]
    BY <1>2, <1>3, <2>1, <2>2
  <2>5. ASSUME NEW i \in 1..(n - 1), NEW j \in 1..(n - 1), i # j PROVE t[i] # t[j]
    <3>1. i + 1 \in 1..n /\ j + 1 \in 1..n /\ i + 1 # j + 1
      BY <2>1, <2>3, <2>5
    <3>2. q[i + 1] # q[j + 1]
      BY <1>2, <1>3, <3>1
    <3> QED
      BY <2>1, <3>2
  <2> QED
    BY <1>2, <1>3, <2>2, <2>4, <2>5
<1>11. DOMAIN job'.todo = 1..(n - 1) /\ Len(job'.todo) = n - 1 /\ job'.todo = t
  BY <1>3, <1>4 DEF t
<1>12. closing'.pc = "read" /\ closing'.lots = 0
  BY <1>4
<1> QED
  BY <1>5, <1>7, <1>9, <1>10, <1>11, <1>12 DEF PlanInv

LEMMA ReadForClosePlanned ==
  ASSUME TradingAssumption, TypeInv, PlanInv, ReadForClose
  PROVE  PlanInv'
<1> SUFFICES ASSUME job'.pc = "plan", still' PROVE PlanInv'
  BY DEF PlanInv
<1> DEFINE p == positions[closing.slot]
<1>1. closing \in [pc : {"read"}, slot : Slots, lots : Nat] /\ closing # None
      /\ UNCHANGED <<bid, balance, positions, still>>
  BY ClosingFields DEF ReadForClose, TypeInv, TypeOK, None, db
<1>2. job.pc = "plan"
  BY DEF ReadForClose, AfterClose, Idle
<1>3. closing.slot \in Open /\ closing.lots = 0
  BY <1>1, <1>2 DEF PlanInv, Leaving
<1>4. p.lots \in Nat /\ p.status = "OPEN" /\ closing.slot \in Slots
  BY <1>3 DEF Open, Position, TypeInv, TypeOK
<1>5. CanClose(p, closing.lots)
  BY <1>3, <1>4 DEF CanClose
<1>6. /\ closing' = [pc |-> "settle", slot |-> closing.slot, lots |-> p.lots,
                     total |-> p.lots, swap |-> p.swap, price |-> ExitPrice(p.side)]
      /\ job' = job
  BY <1>3, <1>5 DEF ReadForClose
<1>7. /\ closing'.pc = "settle" /\ closing'.lots = closing'.total
      /\ closing'.price = ExitPrice(positions[closing.slot].side)
      /\ closing'.slot = closing.slot /\ closing' # None
  BY <1>6 DEF None
<1>8. SlotPnl' = SlotPnl /\ SlotDue' = SlotDue /\ Open' = Open /\ SlotEquity' = SlotEquity
  BY <1>1 DEF SlotPnl, SlotDue, SlotEquity, Open, ExitPrice
<1>9. \A S : RestoredWith(S)' <=> RestoredWith(S)
  BY <1>8 DEF RestoredWith
<1>10. Leaving' = Leaving
  BY <1>1, <1>7 DEF Leaving
<1>11. \A k : RestAfter(k)' = RestAfter(k)
  BY <1>6, <1>8, <1>10 DEF RestAfter
<1>12. closing'.price = ExitPrice(positions[closing.slot].side)'
  BY <1>1, <1>7 DEF ExitPrice
<1>13. \A k \in 0..Len(job.todo) : RestoredWith(RestAfter(k))' <=> RestoredWith(RestAfter(k))
  BY <1>9, <1>11
<1> QED
  BY <1>1, <1>2, <1>6, <1>7, <1>8, <1>10, <1>12, <1>13 DEF PlanInv

(* What a close pays when no swap is accrued.                              *)
LEMMA PnlPaid ==
  ASSUME NEW c \in [pc : {"settle"}, slot : Slots, lots : Nat, total : Nat, swap : Int, price : Int],
         NEW pnl \in Int, c.swap = 0
  PROVE  LET lines == SettlementLines("client", [n |-> pnl, d |-> 1], SwapPortion(c))
         IN  \A x \in Int : x + lines[1].credit - lines[1].debit = x + pnl
<1> DEFINE a == [n |-> pnl, d |-> 1]
           b == SwapPortion(c)
           lines == SettlementLines("client", a, b)
<1>1. HalfEven(a.n, a.d) = pnl
  BY DEF HalfEven
<1>2. HalfEven(b.n, b.d) = 0
  <2>1. CASE c.total = 0
    BY <2>1 DEF HalfEven, SwapPortion
  <2>2. CASE c.total # 0
    <3>1. b.n = 0 /\ b.d \in Nat \ {0}
      BY <2>2 DEF SwapPortion
    <3>2. 0 \div b.d = 0 /\ 0 % b.d = 0
      BY <3>1
    <3> HIDE DEF b
    <3> QED
      BY <3>1, <3>2 DEF HalfEven
  <2> QED
    BY <2>1, <2>2
<1> HIDE DEF a, b
<1>3. lines[1] = Line("client", pnl + 0)
  BY <1>1, <1>2 DEF SettlementLines
<1> HIDE DEF lines
<1>4. /\ lines[1].credit \in Nat /\ lines[1].debit \in Nat
      /\ lines[1].credit - lines[1].debit = pnl + 0
  BY <1>3, LineMoves
<1> DEFINE u == lines[1].credit
           v == lines[1].debit
<1>5. u \in Int /\ v \in Int /\ u - v = pnl + 0
  BY <1>4
<1> HIDE DEF u, v
<1>6. \A x \in Int : x + u - v = x + pnl
  BY <1>5
<1> QED
  BY <1>6 DEF u, v, lines, a, b

LEMMA SettlePlanned ==
  ASSUME TradingAssumption, TypeInv, LotsInv, PlanInv, SettleClose
  PROVE  PlanInv'
<1> SUFFICES ASSUME job'.pc = "plan", still' PROVE PlanInv'
  BY DEF PlanInv
<1> DEFINE c     == closing
           t     == closing.slot
           p     == positions[t]
           pnl   == FloatingPnl(p.side, p.open, c.price, c.lots)
           lines == SettlementLines("client", [n |-> pnl, d |-> 1], SwapPortion(c))
<1>1. /\ c \in [pc : {"settle"}, slot : Slots, lots : Nat, total : Nat, swap : Int, price : Int]
      /\ c # None /\ c.pc = "settle" /\ t \in Slots /\ p \in Position
  BY ClosingFields DEF SettleClose, TypeInv, TypeOK, None
<1>2. job.pc = "plan" /\ job' = job /\ still /\ c.swap = 0 /\ closing' = None /\ bid' = bid
  BY DEF SettleClose, AfterClose, Idle
<1>3. /\ t \in Open /\ c.lots = c.total /\ c.price = ExitPrice(p.side)
      /\ c.total = p.lots /\ Leaving = {t}
  BY <1>1, <1>2 DEF PlanInv, Leaving, LotsInv, ClosingInv
<1>4. pnl = SlotPnl[t] /\ pnl \in Int
  BY <1>1, <1>3, SlotTypes DEF SlotPnl
<1>5. balance \in Int /\ balance' = balance + lines[1].credit - lines[1].debit
  BY DEF SettleClose, TypeInv, TypeOK
<1>6. balance' = balance + SlotPnl[t]
  <2> HIDE DEF pnl
  <2> QED
    BY <1>1, <1>2, <1>4, <1>5, PnlPaid
<1>7. positions' = [positions EXCEPT ![t] = ClosedRow(p)]
  BY <1>3 DEF SettleClose
<1>8. ClosedRow(p).status = "CLOSED" /\ ClosedRow(p).side = p.side
      /\ ClosedRow(p).open = p.open /\ ClosedRow(p).lots = p.lots
  BY <1>1 DEF ClosedRow, Position
<1> HIDE DEF c, pnl, lines
<1>9. \A s \in Slots : /\ positions'[s].side = positions[s].side
                      /\ positions'[s].open = positions[s].open
                      /\ positions'[s].lots = positions[s].lots
                      /\ positions'[s].status = IF s = t THEN "CLOSED" ELSE positions[s].status
  BY <1>1, <1>7, <1>8 DEF TypeInv, TypeOK
<1>10. SlotPnl' = SlotPnl /\ SlotDue' = SlotDue
  BY <1>2, <1>9 DEF SlotPnl, SlotDue, ExitPrice
<1>11. Open' = Open \ {t}
  BY <1>9 DEF Open
<1>12. SlotEquity' = SlotEquity
  <2>1. IsFiniteSet(Open) /\ \A s \in Open : SlotPnl[s] \in Int
    BY SlotTypes DEF TypeInv, Open
  <2>2. SumFunctionOnSet(SlotPnl, Open) = SlotPnl[t] + SumFunctionOnSet(SlotPnl, Open \ {t})
    BY <1>3, <2>1, SumWithout
  <2>3. IsFiniteSet(Open \ {t}) /\ \A s \in Open \ {t} : SlotPnl[s] \in Int
    BY <2>1, FS_Subset
  <2>4. SumFunctionOnSet(SlotPnl, Open \ {t}) \in Int
    BY <2>3, SumIsInteger
  <2>5. SlotPnl[t] \in Int
    BY <1>3, <2>1
  <2> DEFINE whole == SumFunctionOnSet(SlotPnl, Open)
             part  == SumFunctionOnSet(SlotPnl, Open \ {t})
             own   == SlotPnl[t]
  <2>6. whole = own + part /\ part \in Int /\ own \in Int /\ balance' = balance + own /\ balance \in Int
    BY <1>5, <1>6, <2>2, <2>4, <2>5
  <2> HIDE DEF whole, part, own
  <2>7. balance' + part = balance + whole
    BY <2>6
  <2>8. SlotEquity' = balance' + part
    BY <1>10, <1>11 DEF SlotEquity, part
  <2> QED
    BY <2>7, <2>8 DEF SlotEquity, whole
<1>13. \A S : RestoredWith(S)' <=> RestoredWith(S)
  BY <1>10, <1>12 DEF RestoredWith
<1>14. Leaving' = {} /\ closing'.pc = "none"
  BY <1>2 DEF Leaving, None
<1>15. \A k : RestAfter(k)' = RestAfter(k)
  BY <1>2, <1>3, <1>11, <1>14 DEF RestAfter
<1>16. \A k \in 0..Len(job.todo) : RestoredWith(RestAfter(k))' <=> RestoredWith(RestAfter(k))
  BY <1>13, <1>15
<1>17. \A i \in DOMAIN job.todo : job.todo[i] \in Open' \ Leaving'
  BY <1>2, <1>3, <1>11, <1>14 DEF PlanInv
<1> QED
  BY <1>2, <1>14, <1>16, <1>17 DEF PlanInv

LEMMA ApplySwapPlan ==
  ASSUME TradingAssumption, TypeInv, PlanInv, NEW r \in roll, ApplySwap(r)
  PROVE  PlanInv'
<1> DEFINE t   == r.slot
           row == [positions[t] EXCEPT !.swap = r.swap + r.charge]
<1>1. t \in Slots /\ positions[t] \in Position
  BY DEF TypeInv, TypeOK
<1>2. positions' = [positions EXCEPT ![t] = row]
  BY DEF ApplySwap
<1>3. /\ row.status = positions[t].status /\ row.side = positions[t].side
      /\ row.open = positions[t].open /\ row.lots = positions[t].lots
  BY <1>1 DEF Position
<1> HIDE DEF row
<1>4. PlanAlone
  BY <1>1, <1>2, <1>3 DEF PlanAlone, ApplySwap, TypeInv, TypeOK, lock
<1> QED
  BY <1>4, AloneKeepsPlan

(* The other steps are not taken during a plan, leave what it reads alone, *)
(* or end the time in which nothing else happens.                          *)
LEMMA OthersKeepPlan ==
  ASSUME TypeInv, PlanInv,
         \/ OwnerStep \/ TickStarts \/ BeginEvaluation \/ MaybeRollSwaps \/ EndRoll \/ TimePasses
         \/ PostTransferOut \/ Fault \/ UNCHANGED vars \/ EndTriggers \/ EndStopOut
         \/ \E o \in Orders : TriggerOrder(o)
         \/ \E s \in Slots : FillOrder(s) \/ CheckStops(s)
         \/ \E b \in Quotes : Quote(b)
         \/ \E x \in Transfers : TransferIn(x) \/ CheckTransferOut(x)
  PROVE  PlanInv'
<1>1. CASE OwnerStep
  <2>1. job'.pc # "plan"
    <3>1. ASSUME NEW side, NEW n, NEW g, NEW slip, PlaceMarket(side, n, g, slip)
          PROVE  job'.pc # "plan"
      BY <3>1 DEF PlaceMarket, MarketOrder
    <3>2. CheckMargin => job'.pc # "plan"
      BY DEF CheckMargin, MarketOrder, Idle
    <3>3. ASSUME NEW s, OpenPosition(s) PROVE job'.pc # "plan"
      BY <3>3 DEF OpenPosition, Idle
    <3>4. ASSUME NEW o, NEW side, NEW kind, NEW n, NEW price, NEW g,
                 PlacePending(o, side, kind, n, price, g)
          PROVE  job'.pc # "plan"
      BY <3>4 DEF PlacePending, Idle, lock
    <3>5. ASSUME NEW s, NEW n, ClosePosition(s, n) PROVE job'.pc # "plan"
      BY <3>5 DEF ClosePosition
    <3>6. ASSUME NEW s, NEW sl, NEW tp, ModifyPosition(s, sl, tp) PROVE job'.pc # "plan"
      BY <3>6 DEF ModifyPosition, Idle, lock
    <3> QED
      BY <1>1, <3>1, <3>2, <3>3, <3>4, <3>5, <3>6 DEF OwnerStep
  <2> QED
    BY <2>1 DEF PlanInv
<1>2. CASE Fault \/ PostTransferOut \/ (\E b \in Quotes : Quote(b)) \/ EndStopOut
  <2>1. still' = FALSE
    BY <1>2 DEF Fault, PlaceThrows, CloseThrows, FillThrows, EvaluationThrows, RollThrows, Restart,
                UseFault, PostTransferOut, Quote, EndStopOut
  <2> QED
    BY <2>1 DEF PlanInv
<1>3. CASE \/ BeginEvaluation \/ EndTriggers
           \/ \E o \in Orders : TriggerOrder(o)
           \/ \E s \in Slots : FillOrder(s) \/ CheckStops(s)
  <2>1. job'.pc # "plan"
    BY <1>3 DEF BeginEvaluation, EndTriggers, TriggerOrder, FillOrder, AfterFill, CheckStops
  <2> QED
    BY <2>1 DEF PlanInv
<1>4. CASE TickStarts \/ MaybeRollSwaps \/ EndRoll \/ TimePasses \/ UNCHANGED vars
  <2>1. PlanAlone
    BY <1>4 DEF TickStarts, MaybeRollSwaps, EndRoll, TimePasses, vars, db, lock, PlanAlone,
                TypeInv, TypeOK
  <2> QED
    BY <2>1, AloneKeepsPlan
<1>5. ASSUME NEW x \in Transfers, TransferIn(x) \/ CheckTransferOut(x) PROVE PlanInv'
  <2>1. CASE TransferIn(x)
    BY <2>1 DEF TransferIn, PlanInv
  <2>2. CASE CheckTransferOut(x)
    <3>1. PlanAlone
      BY <2>2 DEF CheckTransferOut, db, lock, PlanAlone, TypeInv, TypeOK
    <3> QED
      BY <3>1, AloneKeepsPlan
  <2> QED
    BY <1>5, <2>1, <2>2
<1> QED
  BY <1>1, <1>2, <1>3, <1>4, <1>5

LEMMA PlanInvNext == TradingAssumption /\ TypeInv /\ LotsInv /\ PlanInv /\ [Next]_vars => PlanInv'
<1> SUFFICES ASSUME TradingAssumption, TypeInv, LotsInv, PlanInv, [Next]_vars PROVE PlanInv'
  OBVIOUS
<1>1. CASE CloseStep
  BY <1>1, ReadForClosePlanned, SettlePlanned DEF CloseStep
<1>2. CASE EvaluationStep
  BY <1>2, PlanMade, NextPlanned, OthersKeepPlan DEF EvaluationStep
<1>3. CASE RollStep
  BY <1>3, ApplySwapPlan, OthersKeepPlan DEF RollStep
<1> QED
  BY <1>1, <1>2, <1>3, OthersKeepPlan DEF Next

(* While nothing else moves the account, no planned liquidation is one too *)
(* many, and the last one brings the level back to the stop-out level      *)
(* (applyStopOut: the plan is made before the first position closes).      *)
THEOREM PlanKept == Spec => []PlanStaysRight
<1>1. TradingAssumption /\ TypeInv /\ PlanInv => PlanStaysRight
  <2> SUFFICES ASSUME TradingAssumption, TypeInv, PlanInv, job.pc = "plan", closing = None, still
               PROVE  LevelRestored <=> job.todo = << >>
    BY DEF PlanStaysRight
  <2>1. job.todo \in Seq(Slots)
    BY JobFields DEF TypeInv, TypeOK
  <2>2. RestAfter(0) = Open
    BY DEF RestAfter, Leaving
  <2>3. RestoredWith(RestAfter(0)) <=> 0 = Len(job.todo)
    BY <2>1 DEF PlanInv
  <2> QED
    BY <2>1, <2>2, <2>3, RestoredByLevel
<1>2. TradingAssumption /\ Init => TableInv /\ LotsInv /\ TypeInv /\ PlanInv
  <2>1. Init => PlanInv
    BY DEF Init, PlanInv, Idle
  <2> QED
    BY <2>1, FillInvInit, NightInvInit, LotsInvInit, TypeInvInit DEF TableInv
<1>3. TradingAssumption /\ TableInv /\ LotsInv /\ TypeInv /\ PlanInv /\ [Next]_vars
        => TableInv' /\ LotsInv' /\ TypeInv' /\ PlanInv'
  BY FillInvNext, NightInvNext, LotsInvNext, TypeInvNext, PlanInvNext DEF TableInv
<1> QED
  BY <1>1, <1>2, <1>3, TradingAssumption, PTL DEF Spec
============================================================================
