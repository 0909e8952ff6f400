---------------------------- MODULE DepositPage ----------------------------
(***************************************************************************)
(* The deposit form of the wallet page (portal/wallet/page.tsx) on top of  *)
(* the service that DepositPromise describes and Payments implements.  The *)
(* form posts a deposit, asks for its status every second and a half while *)
(* it waits, and once it is told of a confirmation has the balance read    *)
(* again.  The timer does not wait for an answer before it asks again, and *)
(* an answer acts on whatever the form shows when it comes: one about an   *)
(* earlier deposit may end the wait for a later one.                       *)
(***************************************************************************)
EXTENDS Naturals, FiniteSets

CONSTANTS
    MyDeposits,   \* the deposits this customer makes
    MyReceipts,   \* the receipts a credit can be filed under
    NoDeposit,    \* the form has no deposit
    MaxPolls,     \* bound on requests for a status under way
    MaxFailures   \* bound on requests of the page that fail

VARIABLES
    outcome,      \* the service: how far each deposit has come
    credits,      \* the service: the credits of the wallet
    form,         \* the form: its status, the deposit it waits for, the one
                  \* being asked for, and the one whose outcome it was told
    polls,        \* requests for a status under way, with what they have seen
    refetch,      \* the query of the balance: none, asked or failed
    balance,      \* the deposits that are in the balance shown
    failures      \* failed requests so far

serviceVars == <<outcome, credits>>
pageVars    == <<serviceVars, form, polls, refetch, balance, failures>>

Service == INSTANCE DepositPromise WITH Deposits <- MyDeposits, Keys <- MyReceipts

NewForm(status) ==
    [status |-> status, deposit |-> NoDeposit, asked |-> NoDeposit, told |-> NoDeposit]

PageInit ==
    /\ Service!Init
    /\ form = NewForm("closed")
    /\ polls = {}
    /\ refetch = "none"
    /\ balance = {}
    /\ failures = 0

---------------------------------------------------------------------------
(* The form                                                                *)

(* The balance is read when the page opens, or is young enough to be kept. *)
OpenForm ==
    /\ form.status = "closed"
    /\ form' = NewForm("idle")
    /\ refetch' \in {refetch, "asked"}
    /\ UNCHANGED <<serviceVars, polls, balance, failures>>

(* Another page, or another tab of this one.  What is under way goes on.   *)
LeaveForm ==
    /\ form.status # "closed"
    /\ form' = NewForm("closed")
    /\ polls' = {[p EXCEPT !.mounted = FALSE] : p \in polls}
    /\ UNCHANGED <<serviceVars, refetch, balance, failures>>

(* start.mutate: the row is created before anything is answered.           *)
Start(d) ==
    /\ form.status = "idle"
    /\ form.asked = NoDeposit
    /\ Service!Open(d)
    /\ form' = [form EXCEPT !.asked = d]
    /\ UNCHANGED <<polls, refetch, balance, failures>>

(* onSuccess: the form waits for this deposit, whatever it shows by now.   *)
Started ==
    /\ form.asked # NoDeposit
    /\ form' = [form EXCEPT !.status = "pending", !.deposit = form.asked,
                            !.asked = NoDeposit]
    /\ UNCHANGED <<serviceVars, polls, refetch, balance, failures>>

(* onError: the provider refused, or the answer is lost.                   *)
StartFails ==
    /\ form.asked # NoDeposit
    /\ failures < MaxFailures
    /\ failures' = failures + 1
    /\ form' = [form EXCEPT !.asked = NoDeposit]
    /\ UNCHANGED <<serviceVars, polls, refetch, balance>>

(* "Make another deposit", "Try again".                                    *)
TryAgain ==
    /\ form.status \in {"confirmed", "failed"}
    /\ form' = [form EXCEPT !.status = "idle"]
    /\ UNCHANGED <<serviceVars, polls, refetch, balance, failures>>

---------------------------------------------------------------------------
(* Polling                                                                 *)

AskStatus ==
    /\ form.status = "pending"
    /\ Cardinality(polls) < MaxPolls
    /\ polls' = polls \cup {[deposit |-> form.deposit, seen |-> "unread", mounted |-> TRUE]}
    /\ UNCHANGED <<serviceVars, form, refetch, balance, failures>>

(* getDeposit reads the row.                                               *)
ReadStatus(p) ==
    /\ p.seen = "unread"
    /\ polls' = (polls \ {p}) \cup {[p EXCEPT !.seen = outcome[p.deposit]]}
    /\ UNCHANGED <<serviceVars, form, refetch, balance, failures>>

(* Variant: a confirmation does not invalidate the query of the balance.   *)
NotInvalidated(seen) == refetch

(* A request for the balance under way is cancelled and sent again.        *)
Invalidated(seen) == IF seen = "credited" THEN "asked" ELSE refetch

(* The answer ends the wait, which may by now be for another deposit.      *)
Answered(p) ==
    IF ~p.mounted \/ p.seen = "open" THEN form
    ELSE [form EXCEPT !.status = IF p.seen = "credited" THEN "confirmed" ELSE "failed",
                      !.told = p.deposit]

AnswerStatus(p) ==
    /\ p.seen # "unread"
    /\ polls' = polls \ {p}
    /\ form' = Answered(p)
    /\ refetch' = Invalidated(p.seen)
    /\ UNCHANGED <<serviceVars, balance, failures>>

(* "keep polling".                                                         *)
StatusFails(p) ==
    /\ failures < MaxFailures
    /\ failures' = failures + 1
    /\ polls' = polls \ {p}
    /\ UNCHANGED <<serviceVars, form, refetch, balance>>

---------------------------------------------------------------------------
(* The balance                                                             *)

ReadBalance ==
    /\ refetch = "asked"
    /\ balance' = {d \in MyDeposits : outcome[d] = "credited"}
    /\ refetch' = "none"
    /\ UNCHANGED <<serviceVars, form, polls, failures>>

(* Queries are not retried: the old balance stays.                         *)
ReadBalanceFails ==
    /\ refetch = "asked"
    /\ failures < MaxFailures
    /\ failures' = failures + 1
    /\ refetch' = "failed"
    /\ UNCHANGED <<serviceVars, form, polls, balance>>

(* The service settles a deposit by itself.                                *)
ServiceSettles(d) ==
    /\ Service!Fail(d) \/ \E k \in MyReceipts : Service!CreditOnce(d, k)
    /\ UNCHANGED <<form, polls, refetch, balance, failures>>

FormStep ==
    \/ OpenForm
    \/ LeaveForm
    \/ \E d \in MyDeposits : Start(d)
    \/ Started
    \/ StartFails
    \/ TryAgain

PollStep ==
    \/ AskStatus
    \/ \E p \in polls : ReadStatus(p) \/ AnswerStatus(p) \/ StatusFails(p)

BalanceStep == ReadBalance \/ ReadBalanceFails

PageNext == FormStep \/ PollStep \/ BalanceStep \/ \E d \in MyDeposits : ServiceSettles(d)

(* The timer fires and requests are answered or fail.  Nobody has to       *)
(* press a button, and the service need not settle anything.               *)
PageFairness ==
    /\ WF_pageVars(AskStatus)
    /\ WF_pageVars(\E p \in polls : ReadStatus(p))
    /\ WF_pageVars(\E p \in polls : AnswerStatus(p))
    /\ WF_pageVars(ReadBalance)

PageSpec == PageInit /\ [][PageNext]_pageVars /\ PageFairness

---------------------------------------------------------------------------
(* Properties                                                              *)

WaitsFor(d) == form.status = "pending" /\ form.deposit = d

(* The customer has gone elsewhere, the answer of another deposit has      *)
(* ended the wait, or the balance could not be read.                       *)
Interrupted(d) ==
    \/ form.status = "closed"
    \/ form.status \in {"confirmed", "failed"} /\ form.told # d
    \/ refetch = "failed"

(* A form that waits for a deposit the service has settled comes to tell:  *)
(* a failure as such, and a credit by a balance that contains it, although *)
(* status requests overlap, overtake each other and fail.                  *)
SettledIsShown ==
    \A d \in MyDeposits :
        /\ WaitsFor(d) /\ outcome[d] = "failed"
               ~> Interrupted(d) \/ (form.status = "failed" /\ form.told = d)
        /\ WaitsFor(d) /\ outcome[d] = "credited"
               ~> Interrupted(d) \/ d \in balance
============================================================================
