----------------------------- MODULE MCTrading -----------------------------
(* Instances of Trading for TLC.                                           *)
EXTENDS Trading

Unprotected == [sl |-> 0, tp |-> 0]

(* Nothing or both sides of the market; nothing at all.                    *)
Bracket == {Unprotected, [sl |-> 4, tp |-> 6]}
Bare    == {Unprotected}
============================================================================
