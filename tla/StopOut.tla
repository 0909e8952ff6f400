------------------------------- MODULE StopOut -------------------------------
(***************************************************************************)
(* The stop-out plan over every book: positions are added one by one, with *)
(* every profit, loss and margin, and the plan of every book met on the    *)
(* way is compared with what applyStopOut expects of it.                   *)
(***************************************************************************)
EXTENDS Engine

CONSTANTS
    Balances,      \* starting balances
    Swings,        \* sizes of a position's profit or loss
    Notionals,     \* notionals of a position
    MaxBook,       \* bound on the positions in a book
    BookLeverage,
    StopOutLevel   \* STOP_OUT_LEVEL

ASSUME StopOutAssumption ==
    /\ Balances \subseteq Int /\ Swings \subseteq Int /\ Notionals \subseteq Nat
    /\ MaxBook \in Nat /\ BookLeverage \in Nat /\ StopOutLevel \in Nat

Pnls == Swings \cup {0 - x : x \in Swings}

VARIABLES cash, book

BookInit == cash \in Balances /\ book = << >>

AddPosition(pnl, notional) ==
    /\ Len(book) < MaxBook
    /\ book' = Append(book, [pnl |-> pnl, notional |-> notional])
    /\ UNCHANGED cash

BookNext == \E pnl \in Pnls, notional \in Notionals : AddPosition(pnl, notional)

BookSpec == BookInit /\ [][BookNext]_<<cash, book>>

Plan   == StopOutPlan(cash, book, BookLeverage, StopOutLevel)
Closed == {Plan[k] : k \in DOMAIN Plan}

BookEquity == cash + PnlOf(book, DOMAIN book)

InUseAfter(S) == UsedNotional(book, DOMAIN book \ S)

(* Enough: nothing is in use once S is closed, or the level is restored.   *)
(* Closing moves a loss into the balance; equity stays what it was.        *)
Enough(S) ==
    \/ InUseAfter(S) = 0
    \/ LevelAtLeast(BookEquity, InUseAfter(S), BookLeverage, StopOutLevel)

(* The largest loss goes first, the earlier of two equal ones, and nothing *)
(* that stays open is worse than what was closed (stopOutPlan).            *)
PlanIsWorstFirst ==
    /\ \A j, k \in DOMAIN Plan : j < k =>
          \/ book[Plan[j]].pnl < book[Plan[k]].pnl
          \/ book[Plan[j]].pnl = book[Plan[k]].pnl /\ Plan[j] < Plan[k]
    /\ \A i \in Closed, j \in DOMAIN book \ Closed : book[i].pnl <= book[j].pnl

(* The plan is enough, and no shorter part of it would have been: the loop *)
(* neither stops early nor closes a position too many.  Enough is what the *)
(* code takes for it: a level of at least stopOutLevel (stopOutPlan).      *)
PlanIsJustEnough ==
    /\ Enough(Closed)
    /\ \A n \in 0..(Len(Plan) - 1) : ~Enough({Plan[k] : k \in 1..n})

(* The comment on stopOutPlan: positions are liquidated "to restore the    *)
(* margin level above `stopOutLevel`".  It does not hold: the loop breaks  *)
(* at the level itself.                                                    *)
PlanRestoresAbove ==
    Plan # << >> =>
      \/ InUseAfter(Closed) = 0
      \/ LevelAbove(BookEquity, InUseAfter(Closed), BookLeverage, StopOutLevel)
=============================================================================
