-------------------------- MODULE DepositPromise --------------------------
(***************************************************************************)
(* What the payments service promises about a deposit, with no callbacks,  *)
(* no receipts table and no concurrency: a deposit is opened once, then is *)
(* settled at most once, either by crediting the wallet of its owner under *)
(* a receipt nobody else used, or by failing.  Payments.tla implements it. *)
(***************************************************************************)
EXTENDS Naturals, Sequences

CONSTANTS
    Deposits,   \* the deposits clients may ask for
    Keys        \* the receipts a credit can be filed under

VARIABLES
    outcome,    \* outcome[d]: how far deposit d has come
    credits     \* the wallet credits made so far, in order

promiseVars == <<outcome, credits>>

Outcomes == {"none", "open", "credited", "failed"}

Credit(d, k) == [deposit |-> d, receipt |-> k]

Init ==
    /\ outcome = [d \in Deposits |-> "none"]
    /\ credits = << >>

Open(d) ==
    /\ outcome[d] = "none"
    /\ outcome' = [outcome EXCEPT ![d] = "open"]
    /\ UNCHANGED credits

CreditOnce(d, k) ==
    /\ outcome[d] = "open"
    /\ \A i \in DOMAIN credits : credits[i].receipt # k
    /\ outcome' = [outcome EXCEPT ![d] = "credited"]
    /\ credits' = Append(credits, Credit(d, k))

Fail(d) ==
    /\ outcome[d] = "open"
    /\ outcome' = [outcome EXCEPT ![d] = "failed"]
    /\ UNCHANGED credits

Next ==
    \E d \in Deposits :
        \/ Open(d)
        \/ \E k \in Keys : CreditOnce(d, k)
        \/ Fail(d)

Spec == Init /\ [][Next]_promiseVars
============================================================================
