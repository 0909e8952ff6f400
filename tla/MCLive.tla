------------------------------- MODULE MCLive -------------------------------
(* Three parts whose liveness one run checks: a behaviour is about one of  *)
(* them and leaves the variables of the others as they began.  The service *)
(* settles deposits (the reconciliation job changes nothing it looks at,   *)
(* and rests); the form of the wallet page sees of the service what it     *)
(* promises (DepositPromise, which the run payments shows it to keep); and *)
(* the lock is the one every call on a trading account goes through.       *)
EXTENDS Payments, DepositPage, AccountLock

VARIABLE subject

LiveInit ==
    /\ Init /\ PageInit /\ LockInit
    /\ subject \in {"service", "form", "lock"}
    /\ subject # "service" => provider = "daraja"

(* The bound on the service: two deposits, which may clash over a receipt,  *)
(* of the simulated provider; one of Daraja, whose callback may be early.  *)
DepositBound ==
    provider = "daraja" =>
      \A d, e \in Deposits : deposits[d].status # "none" /\ deposits[e].status # "none" => d = e

ServiceNext == Next /\ DepositBound' /\ UNCHANGED <<recon, pageVars, lockVars>>
FormNext    == PageNext /\ UNCHANGED <<vars, lockVars>>
CallNext    == LockNext /\ UNCHANGED <<vars, pageVars>>

LiveNext ==
    /\ UNCHANGED subject
    /\ \/ subject = "service" /\ ServiceNext
       \/ subject = "form" /\ FormNext
       \/ subject = "lock" /\ CallNext

LiveSpec ==
    /\ LiveInit /\ [][LiveNext]_<<subject, vars, pageVars, lockVars>>
    /\ Fairness /\ PageFairness /\ LockFairness
============================================================================
