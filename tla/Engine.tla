------------------------------- MODULE Engine -------------------------------
(***************************************************************************)
(* The pure trading mathematics of engine.ts: profit and loss, margin      *)
(* level, the stop-out plan, swaps and the settlement of a close.          *)
(*                                                                         *)
(* Numbers are integers: money in units of its last stored decimal, prices *)
(* and lots scaled so that the contract size and the conversion rate are   *)
(* one.  Where the code divides by the leverage the model multiplies the   *)
(* other side by it, so a notional stands for its margin.                  *)
(***************************************************************************)
EXTENDS Integers, Sequences, Functions, FiniteSetsExt

Sides == {"BUY", "SELL"}

Magnitude(x) == IF x < 0 THEN 0 - x ELSE x

(* n / d to the nearest integer, a tie to the even one (money) or away     *)
(* from zero (a numeric column of the database).                           *)
HalfEven(n, d) ==
    LET floor == n \div d
        rest  == 2 * (n % d)
    IN  IF rest < d \/ (rest = d /\ floor % 2 = 0) THEN floor ELSE floor + 1

HalfAway(n, d) ==
    IF n < 0 THEN 0 - ((2 * (0 - n) + d) \div (2 * d)) ELSE (2 * n + d) \div (2 * d)

(* floatingPnl                                                             *)
FloatingPnl(side, open, current, lots) ==
    IF side = "BUY" THEN (current - open) * lots ELSE (open - current) * lots

(* marginRequired, times the leverage.                                     *)
Notional(lots, price) == lots * price

(* swapCharge                                                              *)
SwapCharge(points, lots, triple) == IF triple THEN 3 * points * lots ELSE points * lots

---------------------------------------------------------------------------
(* accountMetrics.  A book is a sequence of positions with their pnl and   *)
(* notional; S is the set of the indices that count.                       *)

PnlOf(book, S) == SumFunctionOnSet([i \in DOMAIN book |-> book[i].pnl], S)

UsedNotional(book, S) == SumFunctionOnSet([i \in DOMAIN book |-> book[i].notional], S)

(* The margin level in percent, compared without the division.             *)
LevelAtLeast(equity, used, leverage, level) == equity * leverage * 100 >= level * used

LevelAbove(equity, used, leverage, level) == equity * leverage * 100 > level * used

---------------------------------------------------------------------------
(* stopOutPlan                                                             *)

(* Variant: the position with the largest margin goes first.               *)
LargestOf(book, left) ==
    CHOOSE i \in left : \A j \in left :
       book[i].notional > book[j].notional \/ (book[i].notional = book[j].notional /\ i <= j)

(* The most negative pnl; the first one of equals.                         *)
WorstOf(book, left) ==
    CHOOSE i \in left : \A j \in left :
       book[i].pnl < book[j].pnl \/ (book[i].pnl = book[j].pnl /\ i <= j)

(* What is left of the book after each turn of the loop.                   *)
LeftAfter(book) ==
    LET left[k \in 0..Len(book)] ==
          IF k = 0 THEN DOMAIN book ELSE left[k - 1] \ {WorstOf(book, left[k - 1])}
    IN  left

(* Variant: a closed position's loss is forgotten.                         *)
RealizedNothing(balance, book, left) == balance

Realized(balance, book, left) == balance + PnlOf(book, DOMAIN book \ left)

(* The loop ends without margin in use, or with the level restored.        *)
Ends(balance, book, leverage, level, left) ==
    \/ UsedNotional(book, left) = 0
    \/ LevelAtLeast(Realized(balance, book, left) + PnlOf(book, left),
                    UsedNotional(book, left), leverage, level)

StopOutPlan(balance, book, leverage, level) ==
    LET left  == LeftAfter(book)
        turns == Min({k \in DOMAIN left : Ends(balance, book, leverage, level, left[k])})
    IN  [k \in 1..turns |-> WorstOf(book, left[k - 1])]

---------------------------------------------------------------------------
(* settlementLines                                                         *)

(* A line that adds x to its account: a credit, or a debit when negative.  *)
Line(code, x) ==
    [code |-> code, credit |-> IF x >= 0 THEN x ELSE 0, debit |-> IF x >= 0 THEN 0 ELSE 0 - x]

(* The portions come as fractions n / d; each is rounded, then added up.   *)
SettlementLines(client, pnl, swap) ==
    LET p == HalfEven(pnl.n, pnl.d)
        s == HalfEven(swap.n, swap.d)
    IN  << Line(client, p + s), Line("pnl:trading", 0 - p), Line("revenue:swap", 0 - s) >>
============================================================================
