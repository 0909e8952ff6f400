------------------------------ MODULE MCFunds ------------------------------
(* What a client owns, checked in one run: the wallet over the ledger, the *)
(* account as its open positions make it, and the plan by which a stop-out *)
(* takes a book of positions apart.  A behaviour is about one of the three *)
(* and leaves the variables of the others as they began.                   *)
EXTENDS MCWallet, MCValuation, StopOut

VARIABLE subject

bookVars == <<cash, book>>
Symmetry == WalletSymmetry \cup RowSymmetry

FundsInit ==
    /\ Init
    /\ ValueInit
    /\ BookInit
    /\ subject \in {"wallet", "positions", "plan"}
    /\ subject # "wallet" => kycApproved
    /\ subject # "positions" => driver = "redis" /\ ~weekend
    /\ subject # "plan" => cash = 0

(* The bound on the account: a snapshot for a screen is taken while no     *)
(* swaps are charged and the call with the lock values nothing; none of    *)
(* the three writes what another one reads.                                *)
Apart ==
    \A b \in Screens : builds[b] # NoBuild => tick # "rolling" /\ builds[Lock] = NoBuild

FundsNext ==
    /\ UNCHANGED subject
    /\ \/ subject = "wallet" /\ Next /\ UNCHANGED <<valueVars, bookVars>>
       \/ subject = "positions" /\ ValueNext /\ Apart' /\ UNCHANGED <<vars, bookVars>>
       \/ subject = "plan" /\ BookNext /\ UNCHANGED <<vars, valueVars>>

FundsSpec == FundsInit /\ [][FundsNext]_<<subject, vars, valueVars, bookVars>>
============================================================================
