---------------------------- MODULE MCPayments ----------------------------
(* Instances of Payments for TLC.                                          *)
EXTENDS Payments, TLC

(* Deposits and handlers are interchangeable; receipts too, but the runs   *)
(* have one.  Only the run without liveness uses this.                     *)
Symmetry == Permutations(Deposits) \cup Permutations(Handlers)
============================================================================
