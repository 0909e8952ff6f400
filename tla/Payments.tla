----------------------------- MODULE Payments -----------------------------
(***************************************************************************)
(* M-Pesa deposits: PaymentsService.initiateDeposit, the STK callback      *)
(* handler handleStkCallback, and the reconciliation job.                  *)
(*                                                                         *)
(* Every await of the code is a point where other requests, callbacks and  *)
(* a crash of the process may come in between, so a request and a callback *)
(* are sequences of steps.  A $transaction is one step: the database runs  *)
(* it atomically and its unique keys (payment_events.idempotencyKey and    *)
(* deposits.receipt) make it fail when they are taken.                     *)
(*                                                                         *)
(* The CheckoutRequestID the provider returns is unique to its deposit, so *)
(* the model names it by the deposit.  Callbacks come over a route that    *)
(* takes every body: the model takes any result for any deposit whose      *)
(* reference is out, at any time and any number of times, and says nothing *)
(* of where a callback comes from.  Amounts are left out: a credit stands  *)
(* for the deposit's own amount at the fixed rate, read from the deposits  *)
(* row and never from the callback.                                        *)
(***************************************************************************)
EXTENDS Naturals, Sequences

CONSTANTS
    Deposits,     \* deposits clients may ask for
    Receipts,     \* MpesaReceiptNumber values (and the simulated SIM... ones)
    NoReceipt,    \* a callback without MpesaReceiptNumber; an empty receipt column
    Handlers,     \* callback invocations that can be in progress together
    Providers,    \* the providers the environment may select
    MaxFaults     \* bound on crashes, failed database calls and failed audits

ASSUME PaymentsAssumption ==
    /\ Receipts \cap Deposits = {}
    /\ NoReceipt \notin Receipts \cup Deposits
    /\ Providers \subseteq {"daraja", "simulated"}
    /\ MaxFaults \in Nat

VARIABLES
    provider,   \* the provider chosen in the constructor
    deposits,   \* the deposits table; ref: its providerRef column is filled in
    events,     \* the payloads in payment_events
    journal,    \* the "M-Pesa deposit" journal entries, in order
    request,    \* request[d]: where initiateDeposit stands for d
    timers,     \* deposits whose simulated callback is due (setTimeout)
    prompts,    \* deposits the provider has sent to a phone (external)
    handler,    \* handler[h]: one invocation of handleStkCallback
    recon,      \* the reconciliation job
    faults      \* crashes and failures so far

tables == <<deposits, events, journal>>
vars   == <<provider, deposits, events, journal, request, timers,
            prompts, handler, recon, faults>>

---------------------------------------------------------------------------
(* Types                                                                   *)

Statuses == {"none", "INITIATED", "PENDING", "CONFIRMED", "FAILED"}
Keys     == Receipts \cup Deposits

Callback == [deposit : Deposits, ok : BOOLEAN, receipt : Receipts \cup {NoReceipt}]
Idle     == [pc |-> "idle"]
Running  == [pc : {"lookup", "record", "settle", "fail"}, cb : Callback]

TypeOK ==
    /\ provider \in Providers
    /\ deposits \in [Deposits -> [status  : Statuses,
                                  ref     : BOOLEAN,
                                  receipt : Keys \cup {NoReceipt}]]
    /\ events \subseteq Callback
    /\ journal \in Seq([deposit : Deposits, receipt : Keys])
    /\ request \in [Deposits -> {"none", "provider", "save", "audit", "done", "failed"}]
    /\ timers \subseteq Deposits
    /\ prompts \subseteq Deposits
    /\ handler \in [Handlers -> Running \cup {Idle}]
    /\ recon \in [pc : {"idle", "checking"},
                  todo : SUBSET (Keys \cup {NoReceipt}),
                  mismatch : BOOLEAN]
    /\ faults \in 0..MaxFaults

Init ==
    /\ provider \in Providers
    /\ deposits = [d \in Deposits |-> [status |-> "none", ref |-> FALSE, receipt |-> NoReceipt]]
    /\ events = {}
    /\ journal = << >>
    /\ request = [d \in Deposits |-> "none"]
    /\ timers = {}
    /\ prompts = {}
    /\ handler = [h \in Handlers |-> Idle]
    /\ recon = [pc |-> "idle", todo |-> {}, mismatch |-> FALSE]
    /\ faults = 0

---------------------------------------------------------------------------
(* initiateDeposit: create the row, call the provider, fill in its         *)
(* reference, write the audit log, and in demo mode arm the timer that     *)
(* delivers the callback.                                                  *)

CreateDeposit(d) ==
    /\ deposits[d].status = "none"
    /\ deposits' = [deposits EXCEPT ![d].status = "INITIATED"]
    /\ request' = [request EXCEPT ![d] = "provider"]
    /\ UNCHANGED <<provider, events, journal, timers, prompts, handler, recon, faults>>

(* The provider answers the HTTP call: Daraja only after it has accepted   *)
(* the push, the simulated provider at once.                               *)
ProviderReplies(d) ==
    /\ request[d] = "provider"
    /\ provider = "simulated" \/ d \in prompts
    /\ request' = [request EXCEPT ![d] = "save"]
    /\ UNCHANGED <<provider, tables, timers, prompts, handler, recon, faults>>

(* The call throws: refused by the provider, or accepted with its reply    *)
(* lost.  Nothing catches it; the row stays INITIATED without a reference. *)
ProviderThrows(d) ==
    /\ request[d] = "provider"
    /\ provider = "daraja"
    /\ request' = [request EXCEPT ![d] = "failed"]
    /\ UNCHANGED <<provider, tables, timers, prompts, handler, recon, faults>>

(* Variant: the status is updated and the reference forgotten.             *)
SaveStatusOnly(d) ==
    /\ request[d] = "save"
    /\ deposits' = [deposits EXCEPT ![d].status = "PENDING"]
    /\ request' = [request EXCEPT ![d] = "audit"]
    /\ UNCHANGED <<provider, events, journal, timers, prompts, handler, recon, faults>>

SaveReference(d) ==
    /\ request[d] = "save"
    /\ deposits' = [deposits EXCEPT ![d].ref = TRUE, ![d].status = "PENDING"]
    /\ request' = [request EXCEPT ![d] = "audit"]
    /\ UNCHANGED <<provider, events, journal, timers, prompts, handler, recon, faults>>

FinishRequest(d) ==
    /\ request[d] = "audit"
    /\ request' = [request EXCEPT ![d] = "done"]
    /\ timers' = IF provider = "simulated" THEN timers \cup {d} ELSE timers
    /\ UNCHANGED <<provider, tables, prompts, handler, recon, faults>>

(* A database call of the request throws: it stops where it stands.        *)
RequestThrows(d) ==
    /\ request[d] \in {"save", "audit"}
    /\ faults < MaxFaults
    /\ request' = [request EXCEPT ![d] = "failed"]
    /\ faults' = faults + 1
    /\ UNCHANGED <<provider, tables, timers, prompts, handler, recon>>

---------------------------------------------------------------------------
(* The provider (outside the repository) accepts the push and sends it to  *)
(* the phone of the customer.                                              *)
PushToPhone(d) ==
    /\ provider = "daraja"
    /\ request[d] = "provider"
    /\ d \notin prompts
    /\ prompts' = prompts \cup {d}
    /\ UNCHANGED <<provider, tables, request, timers, handler, recon, faults>>

(* The provider knows the reference once it has accepted the push, the     *)
(* client once listDeposits shows it in the row.                           *)
ReferenceIsOut(d) == d \in prompts \/ deposits[d].ref

Answer(d, ok, r) == [deposit |-> d, ok |-> ok, receipt |-> r]

(* What a callback may say of d.  The handler does not look at the receipt *)
(* of a failure.                                                           *)
Reports(d) ==
    {Answer(d, TRUE, r) : r \in Receipts \cup {NoReceipt}}
        \cup {Answer(d, FALSE, NoReceipt)}

---------------------------------------------------------------------------
(* handleStkCallback                                                       *)

(* A payment event has the CheckoutRequestID of d.                         *)
Recorded(d) == \E e \in events : e.deposit = d

(* The first read: a callback whose event is recorded ends as 'duplicate'. *)
AfterEventLookup(cb) ==
    IF Recorded(cb.deposit) THEN Idle ELSE [pc |-> "lookup", cb |-> cb]

(* A callback arrives.                                                     *)
Deliver(h, cb) ==
    /\ handler[h] = Idle
    /\ ReferenceIsOut(cb.deposit)
    /\ handler' = [handler EXCEPT ![h] = AfterEventLookup(cb)]
    /\ UNCHANGED <<provider, tables, request, timers, prompts, recon, faults>>

(* The timer of a simulated payment fires, with a random receipt: nothing  *)
(* but chance keeps two of them apart.                                     *)
TimerFires(d, h, r) ==
    /\ d \in timers
    /\ handler[h] = Idle
    /\ timers' = timers \ {d}
    /\ handler' = [handler EXCEPT ![h] =
                     AfterEventLookup(Answer(d, TRUE, r))]
    /\ UNCHANGED <<provider, tables, request, prompts, recon, faults>>

(* Variant: resultCode is not looked at.                                   *)
AfterLookupIgnoringResult(cb) ==
    LET d == deposits[cb.deposit]
    IN  IF d.status = "CONFIRMED" THEN Idle
        ELSE [pc |-> IF d.ref THEN "settle" ELSE "record", cb |-> cb]

(* The second read: the deposit with this provider reference.              *)
AfterDepositLookup(cb) ==
    LET d == deposits[cb.deposit]
    IN  IF ~d.ref THEN [pc |-> "record", cb |-> cb]
        ELSE IF d.status = "CONFIRMED" THEN Idle
        ELSE [pc |-> IF cb.ok THEN "settle" ELSE "fail", cb |-> cb]

LookUpDeposit(h) ==
    /\ handler[h].pc = "lookup"
    /\ handler' = [handler EXCEPT ![h] = AfterDepositLookup(handler[h].cb)]
    /\ UNCHANGED <<provider, tables, request, timers, prompts, recon, faults>>

(* Variant: no unique index on payment_events.idempotencyKey.              *)
KeyNeverTaken(d) == FALSE

EventKeyTaken(d) == Recorded(d)

(* No deposit has the reference: the event is recorded all the same, if it *)
(* is not yet there, and every later callback is a duplicate.              *)
RecordUnknown(h) ==
    LET cb == handler[h].cb
    IN  /\ handler[h].pc = "record"
        /\ handler' = [handler EXCEPT ![h] = Idle]
        /\ events' = IF EventKeyTaken(cb.deposit) THEN events ELSE events \cup {cb}
        /\ UNCHANGED <<provider, deposits, journal, request, timers, prompts, recon, faults>>

(* Variant: the failure is written without its payment event.              *)
FailWithoutEvent(h) ==
    /\ handler[h].pc = "fail"
    /\ handler' = [handler EXCEPT ![h] = Idle]
    /\ deposits' = [deposits EXCEPT ![handler[h].cb.deposit].status = "FAILED"]
    /\ UNCHANGED <<provider, events, journal, request, timers, prompts, recon, faults>>

(* The failure transaction; a taken event key makes it throw.              *)
FailDeposit(h) ==
    LET d == handler[h].cb.deposit
    IN  /\ handler[h].pc = "fail"
        /\ handler' = [handler EXCEPT ![h] = Idle]
        /\ IF EventKeyTaken(d)
           THEN UNCHANGED <<events, deposits>>
           ELSE /\ events' = events \cup {handler[h].cb}
                /\ deposits' = [deposits EXCEPT ![d].status = "FAILED"]
        /\ UNCHANGED <<provider, journal, request, timers, prompts, recon, faults>>

(* Variant: a missing receipt number stays missing.                        *)
BareReceiptOf(cb) == cb.receipt

ReceiptOf(cb) == IF cb.receipt = NoReceipt THEN cb.deposit ELSE cb.receipt

ReceiptTaken(d, r) == \E e \in Deposits \ {d} : deposits[e].receipt = r

MarkConfirmed(d, r) ==
    deposits' = [deposits EXCEPT ![d] = [status |-> "CONFIRMED", ref |-> @.ref, receipt |-> r]]

(* Variant: the entry is filed under another reference than the receipt.   *)
CreditUnderCheckoutId(d, r) ==
    journal' = Append(journal, [deposit |-> d, receipt |-> d])

CreditWalletFromDeposit(d, r) ==
    journal' = Append(journal, [deposit |-> d, receipt |-> r])

(* The success transaction: event, deposit and wallet credit together, or  *)
(* 'duplicate' when a unique key is taken.                                 *)
ConfirmDeposit(h) ==
    LET d == handler[h].cb.deposit
        r == ReceiptOf(handler[h].cb)
    IN  /\ handler[h].pc = "settle"
        /\ handler' = [handler EXCEPT ![h] = Idle]
        /\ IF EventKeyTaken(d) \/ ReceiptTaken(d, r)
           THEN UNCHANGED tables
           ELSE /\ events' = events \cup {handler[h].cb}
                /\ MarkConfirmed(d, r)
                /\ CreditWalletFromDeposit(d, r)
        /\ UNCHANGED <<provider, request, timers, prompts, recon, faults>>

(* A database call of the handler throws before its transaction commits.   *)
HandlerThrows(h) ==
    /\ handler[h] # Idle
    /\ faults < MaxFaults
    /\ handler' = [handler EXCEPT ![h] = Idle]
    /\ faults' = faults + 1
    /\ UNCHANGED <<provider, tables, request, timers, prompts, recon>>

---------------------------------------------------------------------------
(* The reconciliation job: read the CONFIRMED deposits, then look for the  *)
(* journal entry of each one in a query of its own.                        *)

StartReconciliation ==
    /\ recon.pc = "idle"
    /\ recon' = [pc |-> "checking",
                 todo |-> {deposits[d].receipt :
                             d \in {e \in Deposits : deposits[e].status = "CONFIRMED"}},
                 mismatch |-> recon.mismatch]
    /\ UNCHANGED <<provider, tables, request, timers, prompts, handler, faults>>

Matched(r) == r # NoReceipt /\ \E i \in DOMAIN journal : journal[i].receipt = r

CheckReceipt(r) ==
    /\ r \in recon.todo
    /\ recon' = [pc |-> recon.pc,
                 todo |-> recon.todo \ {r},
                 mismatch |-> recon.mismatch \/ ~Matched(r)]
    /\ UNCHANGED <<provider, tables, request, timers, prompts, handler, faults>>

EndReconciliation ==
    /\ recon.pc = "checking"
    /\ recon.todo = {}
    /\ recon' = [pc |-> "idle", todo |-> {}, mismatch |-> recon.mismatch]
    /\ UNCHANGED <<provider, tables, request, timers, prompts, handler, faults>>

---------------------------------------------------------------------------
(* The process stops and starts again: requests, callbacks, timers and the *)
(* running reconciliation are gone, the tables and the provider are not.   *)
Crash ==
    /\ faults < MaxFaults
    /\ faults' = faults + 1
    /\ request' = [d \in Deposits |->
                     IF request[d] \in {"provider", "save", "audit"} THEN "failed" ELSE request[d]]
    /\ timers' = {}
    /\ handler' = [h \in Handlers |-> Idle]
    /\ recon' = [pc |-> "idle", todo |-> {}, mismatch |-> recon.mismatch]
    /\ UNCHANGED <<provider, tables, prompts>>

RequestStep(d) ==
    \/ CreateDeposit(d)
    \/ ProviderReplies(d)
    \/ ProviderThrows(d)
    \/ SaveReference(d)
    \/ FinishRequest(d)
    \/ RequestThrows(d)

HandlerStep(h) ==
    \/ LookUpDeposit(h)
    \/ RecordUnknown(h)
    \/ FailDeposit(h)
    \/ ConfirmDeposit(h)

ReconciliationStep ==
    \/ StartReconciliation
    \/ \E r \in Keys \cup {NoReceipt} : CheckReceipt(r)
    \/ EndReconciliation

Next ==
    \/ \E d \in Deposits : RequestStep(d) \/ PushToPhone(d)
    \/ \E d \in Deposits, h \in Handlers : \E cb \in Reports(d) : Deliver(h, cb)
    \/ \E d \in Deposits, h \in Handlers, r \in Receipts : TimerFires(d, h, r)
    \/ \E h \in Handlers : HandlerStep(h) \/ HandlerThrows(h)
    \/ ReconciliationStep
    \/ Crash

Spec == Init /\ [][Next]_vars

(* The event loop runs every continuation that is ready, the provider      *)
(* replies once it has accepted the push, and the timer of a simulated     *)
(* payment fires.  Nothing makes a callback arrive.  The timer needs       *)
(* strong fairness because a handler slot is free only now and then; the   *)
(* code has no such limit.                                                 *)
Fairness ==
    /\ \A d \in Deposits : /\ WF_vars(ProviderReplies(d))
                           /\ WF_vars(SaveReference(d))
                           /\ WF_vars(FinishRequest(d))
                           /\ SF_vars(\E h \in Handlers, r \in Receipts : TimerFires(d, h, r))
    /\ \A h \in Handlers : WF_vars(HandlerStep(h))

FairSpec == Spec /\ Fairness
---------------------------------------------------------------------------
(* Properties                                                              *)

(* However often a callback is delivered, and however many handlers run it *)
(* at once, a deposit is credited at most once, and it is CONFIRMED exactly*)
(* when the wallet entry under its receipt exists (handleStkCallback).     *)
OneCreditPerConfirmedDeposit ==
    /\ \A i, j \in DOMAIN journal : journal[i].deposit = journal[j].deposit => i = j
    /\ \A d \in Deposits :
          deposits[d].status = "CONFIRMED" <=>
            \E i \in DOMAIN journal :
               journal[i] = [deposit |-> d, receipt |-> deposits[d].receipt]

(* Contradictory callbacks may race and repeat: what is stored of a        *)
(* deposit agrees with the payment event stored for it.  There is one      *)
(* event at most; a CONFIRMED deposit has one that reports success under   *)
(* the receipt the deposit carries, a FAILED one has one that reports a    *)
(* failure (the two transactions of handleStkCallback).                    *)
OutcomeAsRecorded ==
    \A d \in Deposits :
      /\ \A e, f \in events : e.deposit = d /\ f.deposit = d => e = f
      /\ deposits[d].status = "CONFIRMED" =>
           \E e \in events : e.deposit = d /\ e.ok /\ ReceiptOf(e) = deposits[d].receipt
      /\ deposits[d].status = "FAILED" => \E e \in events : e.deposit = d /\ ~e.ok

(* The reconciliation job never raises a mismatch, though its queries run  *)
(* between the steps of the callbacks (ReconciliationService.run).         *)
ReconciliationAgrees == ~recon.mismatch

(* The deposits table and the journal implement DepositPromise.            *)
OutcomeOf(status) ==
    CASE status = "none"      -> "none"
      [] status = "CONFIRMED" -> "credited"
      [] status = "FAILED"    -> "failed"
      [] OTHER                -> "open"

Promise == INSTANCE DepositPromise
    WITH outcome <- [d \in Deposits |-> OutcomeOf(deposits[d].status)],
         credits <- journal

ImplementsPromise == Promise!Spec

(* A callback that is being handled, or whose timer is set, settles its    *)
(* PENDING deposit in the end, whatever other callbacks do meanwhile       *)
(* (handleStkCallback).  Three things end this: a crash or a failed        *)
(* database call, after which nothing asks the provider again; a payment   *)
(* event recorded before the reference was saved; and a receipt that       *)
(* another deposit has, which the handler answers with 'duplicate'.        *)
UnderWay(d) ==
    d \in timers \/ \E h \in Handlers : handler[h] # Idle /\ handler[h].cb.deposit = d

Awaits(d) ==
    /\ deposits[d].status = "PENDING"
    /\ UnderWay(d)
    /\ ~Recorded(d)
    /\ \A h \in Handlers : handler[h].pc = "record" => handler[h].cb.deposit # d

Clashes(d) ==
    \E h \in Handlers :
      /\ handler[h].pc = "settle"
      /\ handler[h].cb.deposit = d
      /\ ReceiptTaken(d, ReceiptOf(handler[h].cb))

CallbackSettles ==
    \A d \in Deposits, n \in 0..MaxFaults :
      Awaits(d) /\ faults = n ~>
        deposits[d].status \in {"CONFIRMED", "FAILED"} \/ faults > n \/ Clashes(d)

(* The comment on handleStkCallback: "Same callback xN -> exactly one      *)
(* credit".  A payment event that reports success comes with its credit.   *)
(* It does not hold: a callback that comes before the reference is saved   *)
(* uses up the key.                                                        *)
HandledPaymentIsCredited ==
    \A e \in events : e.ok => \E i \in DOMAIN journal : journal[i].deposit = e.deposit
============================================================================
