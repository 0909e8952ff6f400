---------------------------- MODULE MCValuation ----------------------------
(* Four of the seeded instruments: a cross whose currency converts         *)
(* directly, one that converts by itself inverted, and one that trades     *)
(* over the weekend.                                                       *)
EXTENDS Valuation, TLC

Seeded == {"EURGBP", "GBPUSD", "USDJPY", "BTCUSD"}

SeededQuoteCurrency ==
    [s \in Seeded |-> CASE s = "EURGBP" -> "GBP" [] s = "USDJPY" -> "JPY" [] OTHER -> "USD"]

SeededXUSD == [c \in {"GBP", "JPY", "USD"} |-> IF c = "GBP" THEN "GBPUSD" ELSE "none"]
SeededUSDX == [c \in {"GBP", "JPY", "USD"} |-> IF c = "JPY" THEN "USDJPY" ELSE "none"]

(* Rows of the positions table are interchangeable.                        *)
RowSymmetry == Permutations(Slots)
============================================================================
