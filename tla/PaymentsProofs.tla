-------------------------- MODULE PaymentsProofs --------------------------
(***************************************************************************)
(* Proofs about Payments.  The inductive invariant says what the reads of  *)
(* a handler still mean when it commits: the reference it found stays, and *)
(* what it is about to write is what its callback says (HandlerInv); a     *)
(* settled deposit has used up its event key (OutcomeAsRecorded); and the  *)
(* journal and the table agree entry by entry (JournalInv).                *)
(***************************************************************************)
EXTENDS Payments, SequenceTheorems, TLAPS

(* A deposit gets its reference when it becomes PENDING and not before.    *)
RequestInv ==
    \A d \in Deposits :
      /\ deposits[d].status \in {"none", "INITIATED"} <=> ~deposits[d].ref
      /\ request[d] = "save" => deposits[d].status = "INITIATED"
      /\ request[d] = "provider" => deposits[d].status = "INITIATED"

(* A handler about to commit has found its deposit by reference, and took  *)
(* its way by the result of the callback.                                  *)
HandlerInv ==
    \A h \in Handlers :
      /\ handler[h].pc \in {"settle", "fail"} => deposits[handler[h].cb.deposit].ref
      /\ handler[h].pc = "settle" => handler[h].cb.ok
      /\ handler[h].pc = "fail" => ~handler[h].cb.ok

(* Only CONFIRMED deposits have a receipt.                                 *)
ReceiptInv ==
    \A d \in Deposits : deposits[d].receipt # NoReceipt <=> deposits[d].status = "CONFIRMED"

(* Every entry belongs to a CONFIRMED deposit and carries its receipt, and *)
(* every CONFIRMED deposit has its one entry.                              *)
JournalInv ==
    /\ \A i \in DOMAIN journal :
         /\ deposits[journal[i].deposit].status = "CONFIRMED"
         /\ deposits[journal[i].deposit].receipt = journal[i].receipt
    /\ \A i, j \in DOMAIN journal : journal[i].deposit = journal[j].deposit => i = j
    /\ \A d \in Deposits :
         deposits[d].status = "CONFIRMED" => \E i \in DOMAIN journal : journal[i].deposit = d

(* What the reconciliation job still has to look for is in the journal.    *)
ReconInv ==
    /\ ~recon.mismatch
    /\ \A r \in recon.todo : Matched(r)

IInv ==
    /\ TypeOK
    /\ RequestInv
    /\ HandlerInv
    /\ ReceiptInv
    /\ JournalInv
    /\ ReconInv
    /\ OutcomeAsRecorded

---------------------------------------------------------------------------
(* Appending one entry, as the success transaction does.                   *)
LEMMA AppendEntry ==
    ASSUME NEW S, NEW s \in Seq(S), NEW e \in S
    PROVE  /\ Append(s, e) \in Seq(S)
           /\ DOMAIN Append(s, e) = DOMAIN s \cup {Len(s) + 1}
           /\ Len(s) + 1 \notin DOMAIN s
           /\ Append(s, e)[Len(s) + 1] = e
           /\ \A i \in DOMAIN s : Append(s, e)[i] = s[i]
  OBVIOUS

(* Every journal entry names a deposit and its receipt.                    *)
LEMMA EntryType ==
    ASSUME TypeOK, NEW i \in DOMAIN journal
    PROVE  journal[i] \in [deposit : Deposits, receipt : Keys]
  <1> DEFINE Entry == [deposit : Deposits, receipt : Keys]
  <1>1. journal \in Seq(Entry)
    BY DEF TypeOK
  <1> HIDE DEF Entry
  <1>2. journal[i] \in Entry
    BY <1>1
  <1>3. QED
    BY <1>2 DEF Entry

(* What a callback may say is a callback.                                  *)
LEMMA ReportsAreCallbacks ==
    ASSUME NEW d \in Deposits
    PROVE  Reports(d) \subseteq Callback
  <1> SUFFICES ASSUME NEW cb \in Reports(d) PROVE cb \in Callback
    OBVIOUS
  <1>1. CASE \E r \in Receipts \cup {NoReceipt} : cb = Answer(d, TRUE, r)
    BY <1>1 DEF Answer, Callback
  <1>2. CASE cb = Answer(d, FALSE, NoReceipt)
    BY <1>2 DEF Answer, Callback
  <1>3. QED
    BY <1>1, <1>2 DEF Reports

(* The tables before any request satisfy the inductive invariant.          *)
LEMMA InitInv == Init => IInv
  BY PaymentsAssumption
     DEF Init, IInv, TypeOK, RequestInv, HandlerInv, ReceiptInv, JournalInv, ReconInv,
         OutcomeAsRecorded, Statuses, Idle

(* Steps of initiateDeposit keep the invariant.                            *)
LEMMA RequestKeeps ==
    ASSUME IInv, NEW d \in Deposits, RequestStep(d) \/ PushToPhone(d)
    PROVE  IInv'
  <1> USE PaymentsAssumption
          DEF IInv, TypeOK, RequestInv, HandlerInv, ReceiptInv, JournalInv, ReconInv,
              OutcomeAsRecorded, Statuses, Matched, tables
  <1>1. CASE CreateDeposit(d)
    BY <1>1 DEF CreateDeposit
  <1>2. CASE ProviderReplies(d)
    BY <1>2 DEF ProviderReplies
  <1>3. CASE ProviderThrows(d)
    BY <1>3 DEF ProviderThrows
  <1>4. CASE SaveReference(d)
    BY <1>4 DEF SaveReference
  <1>5. CASE FinishRequest(d)
    BY <1>5 DEF FinishRequest
  <1>6. CASE RequestThrows(d)
    BY <1>6 DEF RequestThrows
  <1>7. CASE PushToPhone(d)
    BY <1>7 DEF PushToPhone
  <1>8. QED
    BY <1>1, <1>2, <1>3, <1>4, <1>5, <1>6, <1>7 DEF RequestStep

(* Starting a callback keeps the invariant.                                *)
LEMMA DeliveryKeeps ==
    ASSUME IInv, NEW h \in Handlers,
           \/ \E d \in Deposits : \E cb \in Reports(d) : Deliver(h, cb)
           \/ \E d \in Deposits, r \in Receipts : TimerFires(d, h, r)
    PROVE  IInv'
  <1> USE PaymentsAssumption
          DEF IInv, TypeOK, RequestInv, HandlerInv, ReceiptInv, JournalInv, ReconInv,
              OutcomeAsRecorded, Statuses, Matched, tables
  <1>1. ASSUME NEW d \in Deposits, NEW cb \in Reports(d), Deliver(h, cb)
        PROVE  IInv'
    <2>1. cb \in Callback
      BY ReportsAreCallbacks
    <2>2. handler'[h] \in {Idle, [pc |-> "lookup", cb |-> cb]}
      BY <1>1 DEF Deliver, AfterEventLookup
    <2>3. QED
      BY <1>1, <2>1, <2>2 DEF Deliver, AfterEventLookup, Running, Idle
  <1>2. ASSUME NEW d \in Deposits, NEW r \in Receipts, TimerFires(d, h, r)
        PROVE  IInv'
    BY <1>2 DEF TimerFires, AfterEventLookup, Answer, Running, Idle, Callback
  <1>3. QED
    BY <1>1, <1>2

(* The steps of a running callback keep the invariant.                     *)
LEMMA HandlerKeeps ==
    ASSUME IInv, NEW h \in Handlers, HandlerStep(h) \/ HandlerThrows(h)
    PROVE  IInv'
  <1> USE PaymentsAssumption
          DEF IInv, TypeOK, RequestInv, HandlerInv, ReceiptInv, JournalInv, ReconInv,
              OutcomeAsRecorded, Statuses, Matched, tables, EventKeyTaken, Recorded
  <1>1. CASE LookUpDeposit(h)
    <2>1. /\ handler[h] \in Running
          /\ handler[h] # Idle
          /\ handler' = [handler EXCEPT ![h] = AfterDepositLookup(handler[h].cb)]
          /\ UNCHANGED <<provider, tables, request, timers, prompts, recon, faults>>
      BY <1>1 DEF LookUpDeposit, Running, Idle
    <2>2. \/ handler'[h] = Idle
          \/ /\ handler'[h] \in Running
             /\ handler'[h].cb = handler[h].cb
             /\ handler'[h].pc = "record"
          \/ /\ handler'[h] \in Running
             /\ handler'[h].cb = handler[h].cb
             /\ handler'[h].pc = IF handler[h].cb.ok THEN "settle" ELSE "fail"
             /\ deposits[handler[h].cb.deposit].ref
      BY <2>1 DEF AfterDepositLookup, Running, Callback
    <2>3. Idle.pc = "idle"
      BY DEF Idle
    <2>4. TypeOK'
      BY <2>1, <2>2
    <2>5. RequestInv' /\ ReceiptInv' /\ JournalInv' /\ ReconInv' /\ OutcomeAsRecorded'
      BY <2>1
    <2>6. HandlerInv'
      BY <2>1, <2>2, <2>3
    <2>7. QED
      BY <2>4, <2>5, <2>6
  <1>2. CASE RecordUnknown(h)
    <2> DEFINE cb == handler[h].cb
    <2>1. /\ cb \in Callback
          /\ cb.deposit \in Deposits
          /\ handler' = [handler EXCEPT ![h] = Idle]
          /\ UNCHANGED <<provider, deposits, journal, request, timers, prompts, recon, faults>>
      BY <1>2 DEF RecordUnknown, Running, Idle, Callback
    <2>2. /\ TypeOK' /\ RequestInv' /\ HandlerInv' /\ ReceiptInv'
          /\ JournalInv' /\ ReconInv'
      BY <1>2, <2>1 DEF RecordUnknown, Idle
    <2>3. OutcomeAsRecorded'
      <3>1. CASE EventKeyTaken(cb.deposit)
        BY <1>2, <2>1, <3>1 DEF RecordUnknown
      <3>2. CASE ~EventKeyTaken(cb.deposit)
        <4>1. events' = events \cup {cb}
          BY <1>2, <3>2 DEF RecordUnknown
        <4>2. QED
          BY <2>1, <3>2, <4>1
      <3>3. QED
        BY <3>1, <3>2
    <2>4. QED
      BY <2>2, <2>3
  <1>3. CASE FailDeposit(h)
    <2> DEFINE d == handler[h].cb.deposit
    <2>1. /\ handler[h] \in Running
          /\ handler[h] # Idle
          /\ d \in Deposits
          /\ handler[h].cb \in Callback
          /\ ~handler[h].cb.ok
          /\ deposits[d].ref
          /\ handler' = [handler EXCEPT ![h] = Idle]
          /\ UNCHANGED <<provider, journal, request, timers, prompts, recon, faults>>
      BY <1>3 DEF FailDeposit, Running, Idle, Callback
    <2>2. CASE EventKeyTaken(d)
      BY <1>3, <2>2 DEF FailDeposit, Idle
    <2>3. CASE ~EventKeyTaken(d)
      <3>1. /\ events' = events \cup {handler[h].cb}
            /\ deposits' = [deposits EXCEPT ![d].status = "FAILED"]
        BY <1>3, <2>3 DEF FailDeposit
      <3>2. deposits[d].status # "CONFIRMED"
        BY <2>1, <2>3
      <3>3. TypeOK'
        BY <2>1, <3>1
      <3>4. RequestInv' /\ HandlerInv' /\ ReceiptInv'
        BY <2>1, <3>1, <3>2 DEF Idle
      <3>5. JournalInv' /\ ReconInv'
        BY <2>1, <3>1, <3>2
      <3>6. OutcomeAsRecorded'
        BY <2>1, <2>3, <3>1
      <3>7. QED
        BY <3>3, <3>4, <3>5, <3>6
    <2>4. QED
      BY <2>2, <2>3
  <1>4. CASE ConfirmDeposit(h)
    <2> DEFINE d == handler[h].cb.deposit
               r == ReceiptOf(handler[h].cb)
               e == [deposit |-> d, receipt |-> r]
    <2>1. /\ handler[h] \in Running
          /\ d \in Deposits
          /\ handler[h].cb \in Callback
          /\ r \in Keys
          /\ handler[h].cb.ok
          /\ deposits[d].ref
      BY <1>4 DEF ConfirmDeposit, Running, Idle, Callback, ReceiptOf, Keys
    <2>2. CASE EventKeyTaken(d) \/ ReceiptTaken(d, r)
      BY <1>4, <2>2 DEF ConfirmDeposit, Idle
    <2>3. CASE ~(EventKeyTaken(d) \/ ReceiptTaken(d, r))
      <3>1. /\ events' = events \cup {handler[h].cb}
            /\ deposits' = [deposits EXCEPT ![d] =
                              [status |-> "CONFIRMED", ref |-> @.ref, receipt |-> r]]
            /\ journal' = Append(journal, e)
            /\ handler' = [handler EXCEPT ![h] = Idle]
            /\ UNCHANGED <<provider, request, timers, prompts, recon, faults>>
        BY <1>4, <2>3 DEF ConfirmDeposit, MarkConfirmed, CreditWalletFromDeposit
      <3>2. /\ journal' \in Seq([deposit : Deposits, receipt : Keys])
            /\ DOMAIN journal' = DOMAIN journal \cup {Len(journal) + 1}
            /\ Len(journal) + 1 \notin DOMAIN journal
            /\ journal'[Len(journal) + 1] = e
            /\ \A i \in DOMAIN journal : journal'[i] = journal[i]
        BY <2>1, <3>1, AppendEntry
      <3>3. deposits[d].status # "CONFIRMED"
        BY <2>1, <2>3
      <3>4. \A i \in DOMAIN journal : journal[i].deposit \in Deposits \ {d}
        <4> SUFFICES ASSUME NEW i \in DOMAIN journal
                     PROVE  journal[i].deposit \in Deposits \ {d}
          OBVIOUS
        <4>1. journal[i] \in [deposit : Deposits, receipt : Keys]
          BY EntryType
        <4>2. deposits[journal[i].deposit].status = "CONFIRMED"
          OBVIOUS
        <4>3. QED
          BY <4>1, <4>2, <3>3
      <3>5. TypeOK'
        <4>1. deposits' \in [Deposits -> [status  : Statuses,
                                          ref     : BOOLEAN,
                                          receipt : Keys \cup {NoReceipt}]]
          BY <2>1, <3>1
        <4>2. handler' \in [Handlers -> Running \cup {Idle}]
          BY <3>1
        <4>3. QED
          BY <2>1, <3>1, <3>2, <4>1, <4>2
      <3>6. RequestInv' /\ HandlerInv' /\ ReceiptInv'
        BY <2>1, <3>1 DEF Idle, Keys
      <3>7. JournalInv'
        <4>1. /\ \A i \in DOMAIN journal :
                   deposits'[journal[i].deposit] = deposits[journal[i].deposit]
              /\ deposits'[d].status = "CONFIRMED" /\ deposits'[d].receipt = r
              /\ \A c \in Deposits \ {d} : deposits'[c] = deposits[c]
          BY <2>1, <3>1, <3>4
        <4>2. \A i \in DOMAIN journal' :
                 /\ deposits'[journal'[i].deposit].status = "CONFIRMED"
                 /\ deposits'[journal'[i].deposit].receipt = journal'[i].receipt
          BY <3>2, <4>1
        <4>3. \A i, j \in DOMAIN journal' : journal'[i].deposit = journal'[j].deposit => i = j
          BY <3>2, <3>4
        <4>4. \A c \in Deposits : deposits'[c].status = "CONFIRMED" =>
                \E i \in DOMAIN journal' : journal'[i].deposit = c
          BY <3>2, <4>1
        <4>5. QED
          BY <4>2, <4>3, <4>4
      <3>8. ReconInv'
        BY <2>1, <3>1, <3>2
      <3>9. OutcomeAsRecorded'
        BY <2>1, <2>3, <3>1
      <3>10. QED
        BY <3>5, <3>6, <3>7, <3>8, <3>9
    <2>4. QED
      BY <2>2, <2>3
  <1>5. CASE HandlerThrows(h)
    BY <1>5 DEF HandlerThrows, Idle
  <1>6. QED
    BY <1>1, <1>2, <1>3, <1>4, <1>5 DEF HandlerStep

(* The reconciliation job and a crash keep the invariant.                  *)
LEMMA OtherKeeps ==
    ASSUME IInv, ReconciliationStep \/ Crash \/ UNCHANGED vars
    PROVE  IInv'
  <1> USE PaymentsAssumption
          DEF IInv, TypeOK, RequestInv, HandlerInv, ReceiptInv, JournalInv, ReconInv,
              OutcomeAsRecorded, Statuses, Matched, tables
  <1>1. CASE StartReconciliation
    BY <1>1 DEF StartReconciliation
  <1>2. ASSUME NEW r \in Keys \cup {NoReceipt}, CheckReceipt(r)
        PROVE  IInv'
    <2>1. /\ recon.pc \in {"idle", "checking"}
          /\ recon.mismatch = FALSE
          /\ Matched(r)
      BY <1>2 DEF CheckReceipt
    <2>2. /\ recon' = [pc |-> recon.pc, todo |-> recon.todo \ {r}, mismatch |-> FALSE]
          /\ UNCHANGED <<provider, tables, request, timers, prompts, handler, faults>>
      BY <1>2, <2>1 DEF CheckReceipt
    <2>3. TypeOK' /\ ReconInv'
      BY <2>1, <2>2
    <2>4. /\ RequestInv' /\ HandlerInv' /\ ReceiptInv' /\ JournalInv'
          /\ OutcomeAsRecorded'
      BY <2>2
    <2>5. QED
      BY <2>3, <2>4
  <1>3. CASE EndReconciliation
    BY <1>3 DEF EndReconciliation
  <1>4. CASE Crash
    BY <1>4 DEF Crash, Idle
  <1>5. CASE UNCHANGED vars
    BY <1>5 DEF vars
  <1>6. QED
    BY <1>1, <1>2, <1>3, <1>4, <1>5 DEF ReconciliationStep

(* The invariant is inductive.                                             *)
THEOREM Invariance == Spec => []IInv
  <1>1. Init => IInv
    BY InitInv
  <1>2. IInv /\ [Next]_vars => IInv'
    <2> SUFFICES ASSUME IInv, [Next]_vars PROVE IInv'
      OBVIOUS
    <2> QED
      BY RequestKeeps, DeliveryKeeps, HandlerKeeps, OtherKeeps DEF Next
  <1>3. QED
    BY <1>1, <1>2, PTL DEF Spec

---------------------------------------------------------------------------
(* Every state of the deposit tables, the handlers and the jobs is typed.  *)
THEOREM TypeCorrect == Spec => []TypeOK
  BY Invariance, PTL DEF IInv

(* However often a callback is delivered, a deposit is credited at most    *)
(* once, and exactly when it is CONFIRMED.                                 *)
THEOREM CreditedExactlyWhenConfirmed == Spec => []OneCreditPerConfirmedDeposit
  <1>1. IInv => OneCreditPerConfirmedDeposit
    <2> SUFFICES ASSUME IInv PROVE OneCreditPerConfirmedDeposit
      OBVIOUS
    <2>1. ASSUME NEW d \in Deposits, deposits[d].status = "CONFIRMED"
          PROVE  \E i \in DOMAIN journal :
                   journal[i] = [deposit |-> d, receipt |-> deposits[d].receipt]
      <3>1. PICK i \in DOMAIN journal : journal[i].deposit = d
        BY <2>1 DEF IInv, JournalInv
      <3>2. journal[i] \in [deposit : Deposits, receipt : Keys]
        BY EntryType DEF IInv
      <3>3. journal[i].receipt = deposits[d].receipt
        BY <3>1 DEF IInv, JournalInv
      <3>4. QED
        BY <3>1, <3>2, <3>3
    <2>2. ASSUME NEW d \in Deposits, NEW i \in DOMAIN journal,
                 journal[i] = [deposit |-> d, receipt |-> deposits[d].receipt]
          PROVE  deposits[d].status = "CONFIRMED"
      BY <2>2 DEF IInv, JournalInv
    <2>3. QED
      BY <2>1, <2>2 DEF IInv, JournalInv, OneCreditPerConfirmedDeposit
  <1>2. QED
    BY <1>1, Invariance, PTL

(* Whatever callbacks come, in whatever order and number: a settled deposit*)
(* has one payment event, which says what the deposit says.                *)
THEOREM SettledAsRecorded == Spec => []OutcomeAsRecorded
  BY Invariance, PTL DEF IInv

(* The reconciliation job never raises a false alarm.                      *)
THEOREM ReconciliationIsQuiet == Spec => []ReconciliationAgrees
  <1>1. IInv => ReconciliationAgrees
    BY DEF IInv, ReconInv, ReconciliationAgrees
  <1>2. QED
    BY <1>1, Invariance, PTL

---------------------------------------------------------------------------
(* The tables implement DepositPromise: creating the row opens the         *)
(* deposit, the two transactions settle it, and no other step changes what *)
(* the promise speaks about.                                               *)
LEMMA InitPromises == Init => Promise!Init
  BY DEF Init, Promise!Init, OutcomeOf

(* A step that keeps every status and the journal is a stutter.            *)
LEMMA QuietStep ==
    ASSUME deposits' = deposits, journal' = journal
    PROVE  UNCHANGED Promise!promiseVars
  BY DEF Promise!promiseVars

(* Steps of a request open the deposit or stutter.                         *)
LEMMA RequestPromises ==
    ASSUME IInv, NEW d \in Deposits, RequestStep(d) \/ PushToPhone(d)
    PROVE  Promise!Next \/ UNCHANGED Promise!promiseVars
  <1>1. CASE CreateDeposit(d)
    <2>1. Promise!Open(d)
      <3>1. /\ deposits[d].status = "none" /\ deposits'[d].status = "INITIATED"
            /\ \A e \in Deposits \ {d} : deposits'[e].status = deposits[e].status
        BY <1>1 DEF CreateDeposit, IInv, TypeOK
      <3>2. journal' = journal
        BY <1>1 DEF CreateDeposit
      <3>3. QED
        BY <3>1, <3>2 DEF Promise!Open, OutcomeOf
    <2>2. QED
      BY <2>1 DEF Promise!Next
  <1>2. CASE SaveReference(d)
    <2>1. deposits[d].status = "INITIATED"
      BY <1>2 DEF SaveReference, IInv, RequestInv
    <2>2. [e \in Deposits |-> OutcomeOf(deposits[e].status)]' =
            [e \in Deposits |-> OutcomeOf(deposits[e].status)]
      BY <1>2, <2>1 DEF SaveReference, IInv, TypeOK, OutcomeOf
    <2>3. QED
      BY <1>2, <2>2 DEF SaveReference, Promise!promiseVars
  <1>3. CASE deposits' = deposits /\ journal' = journal
    BY <1>3, QuietStep
  <1>4. QED
    BY <1>1, <1>2, <1>3
       DEF RequestStep, ProviderReplies, ProviderThrows, FinishRequest, RequestThrows,
           PushToPhone, tables

(* Steps of a callback settle the deposit or stutter.                      *)
LEMMA HandlerPromises ==
    ASSUME IInv, NEW h \in Handlers, HandlerStep(h) \/ HandlerThrows(h)
    PROVE  Promise!Next \/ UNCHANGED Promise!promiseVars
  <1> DEFINE d == handler[h].cb.deposit
             r == ReceiptOf(handler[h].cb)
  <1>1. ASSUME handler[h].pc \in {"settle", "fail"}, ~EventKeyTaken(d)
        PROVE  /\ d \in Deposits
               /\ r \in Keys
               /\ deposits[d].status = "PENDING"
    <2>1. handler[h] \in Running
      BY <1>1 DEF IInv, TypeOK, Idle
    <2>2. d \in Deposits /\ r \in Keys
      BY <2>1 DEF Running, Callback, ReceiptOf, Keys
    <2>3. deposits[d].ref /\ deposits[d].status \in Statuses
      BY <1>1, <2>2 DEF IInv, TypeOK, HandlerInv
    <2>4. QED
      BY <1>1, <2>2, <2>3
         DEF IInv, RequestInv, OutcomeAsRecorded, EventKeyTaken, Recorded, Statuses
  <1>2. CASE FailDeposit(h) /\ ~EventKeyTaken(d)
    <2>1. d \in Deposits /\ deposits[d].status = "PENDING"
      BY <1>1, <1>2 DEF FailDeposit
    <2>2. deposits' = [deposits EXCEPT ![d].status = "FAILED"] /\ journal' = journal
      BY <1>2 DEF FailDeposit
    <2>3. Promise!Fail(d)
      <3>1. \A e \in Deposits :
              deposits'[e].status = IF e = d THEN "FAILED" ELSE deposits[e].status
        BY <2>1, <2>2 DEF IInv, TypeOK
      <3>2. QED
        BY <2>1, <2>2, <3>1 DEF Promise!Fail, OutcomeOf
    <2>4. QED
      BY <2>1, <2>3 DEF Promise!Next
  <1>3. CASE ConfirmDeposit(h) /\ ~(EventKeyTaken(d) \/ ReceiptTaken(d, r))
    <2>1. d \in Deposits /\ r \in Keys /\ deposits[d].status = "PENDING"
      BY <1>1, <1>3 DEF ConfirmDeposit
    <2>2. /\ deposits' = [deposits EXCEPT ![d] =
                            [status |-> "CONFIRMED", ref |-> @.ref, receipt |-> r]]
          /\ journal' = Append(journal, [deposit |-> d, receipt |-> r])
      BY <1>3 DEF ConfirmDeposit, MarkConfirmed, CreditWalletFromDeposit
    <2>3. \A i \in DOMAIN journal : journal[i].receipt # r
      <3> SUFFICES ASSUME NEW i \in DOMAIN journal, journal[i].receipt = r PROVE FALSE
        OBVIOUS
      <3>1. journal[i].deposit \in Deposits
        BY EntryType DEF IInv
      <3>2. /\ deposits[journal[i].deposit].status = "CONFIRMED"
            /\ deposits[journal[i].deposit].receipt = r
        BY DEF IInv, JournalInv
      <3>3. QED
        BY <1>3, <2>1, <3>1, <3>2 DEF ReceiptTaken
    <2>4. Promise!CreditOnce(d, r)
      BY <2>1, <2>2, <2>3 DEF IInv, TypeOK, Promise!CreditOnce, Promise!Credit, OutcomeOf
    <2>5. QED
      BY <2>1, <2>4 DEF Promise!Next
  <1>4. CASE deposits' = deposits /\ journal' = journal
    BY <1>4, QuietStep
  <1>5. QED
    BY <1>2, <1>3, <1>4
       DEF HandlerStep, LookUpDeposit, RecordUnknown, FailDeposit, ConfirmDeposit,
           HandlerThrows, tables

(* Every step of Payments is a step of the promise or a stutter.           *)
LEMMA StepPromises ==
    ASSUME IInv, [Next]_vars
    PROVE  [Promise!Next]_(Promise!promiseVars)
  <1>1. CASE \/ \E d \in Deposits, h \in Handlers : \E cb \in Reports(d) : Deliver(h, cb)
             \/ \E d \in Deposits, h \in Handlers, r \in Receipts : TimerFires(d, h, r)
             \/ ReconciliationStep \/ Crash \/ UNCHANGED vars
    BY <1>1, QuietStep
       DEF Deliver, TimerFires, ReconciliationStep, StartReconciliation, CheckReceipt,
           EndReconciliation, Crash, vars, tables
  <1>2. QED
    BY <1>1, RequestPromises, HandlerPromises DEF Next

(* A deposit is opened once and settled at most once, by one credit under  *)
(* a receipt of its own or by failing: Payments implements DepositPromise. *)
THEOREM PaymentsImplementPromise == Spec => ImplementsPromise
  <1>1. QED
    BY InitPromises, StepPromises, Invariance, PTL
       DEF Spec, ImplementsPromise, Promise!Spec
============================================================================
