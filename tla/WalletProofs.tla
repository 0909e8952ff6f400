--------------------------- MODULE WalletProofs ---------------------------
(***************************************************************************)
(* What a client owns: proofs about Wallet and about Valuation.            *)
(*                                                                         *)
(* The withdrawal rows and the ledger agree whatever interleaves, and the  *)
(* balance checks are sound for a client who sends one request at a time.  *)
(* That they are not for two is what the run with WalletNeverNegative      *)
(* shows; how far the wallet can then fall below zero is proved next.  The *)
(* last section proves what the valuation of an account never gets wrong.  *)
(***************************************************************************)
EXTENDS Wallet, Valuation, FiniteSetTheorems, WellFoundedInduction, TLAPS

(* Rounding to cents moves an amount by half a cent at most and never      *)
(* below zero.                                                             *)
LEMMA MoneyRounds ==
    ASSUME NEW x \in Nat
    PROVE  /\ Money(x) \in Nat
           /\ Money(x) - x \in {0 - 1, 0, 1}
  BY SMTT(30) DEF Money

(* A posting moves x from one code to another and touches no third.        *)
LEMMA PostMoves ==
    ASSUME net \in [Codes -> Int], NEW from \in Codes, NEW to \in Codes, from # to,
           NEW x \in Int, Post(from, to, x)
    PROVE  /\ net' \in [Codes -> Int]
           /\ net'[from] = net[from] - x
           /\ net'[to] = net[to] + x
           /\ \A c \in Codes : c # from /\ c # to => net'[c] = net[c]
  BY DEF Post

(* The codes of the model are different ledger codes.                      *)
LEMMA CodesDiffer ==
    /\ \A a \in Accounts : a \in Codes /\ a \notin OtherCodes
    /\ OtherCodes \subseteq Codes
  BY WalletAssumption DEF Codes

(* The type of a pending request, taken apart.                             *)
LEMMA PendingType ==
    ASSUME TypeOK, NEW r \in Requests
    PROVE  /\ request[r].pc = "transfer" =>
                /\ request[r].amount \in Nat
                /\ \/ request[r].from = "wallet" /\ request[r].to \in Accounts
                   \/ request[r].to = "wallet" /\ request[r].from \in Accounts
           /\ request[r].pc = "withdraw" => request[r].amount \in Nat
  BY WalletAssumption DEF TypeOK, Idle, Transfer, Withdraw, OtherCodes

Inv == TypeOK /\ PayableMatchesRequests

(* The opening balances satisfy the invariant.                             *)
LEMMA InitInv == Init => Inv
  BY WalletAssumption
     DEF Init, Inv, TypeOK, PayableMatchesRequests, Codes, OtherCodes, Idle

(* Every step keeps the rows and the ledger in agreement.                  *)
LEMMA StepInv ==
    ASSUME Inv, [Next]_vars
    PROVE  Inv'
  <1> USE DEF Inv
  <1>0. /\ "wallet" \in Codes /\ "payable:withdrawals" \in Codes
        /\ "psp:mpesa:clearing" \in Codes /\ "pnl:trading" \in Codes
    BY CodesDiffer DEF OtherCodes
  <1>1. ASSUME NEW r \in Requests, NEW from \in Accounts \cup {"wallet"},
               NEW to \in Accounts \cup {"wallet"}, NEW x \in Amounts,
               RequestTransfer(r, from, to, x)
        PROVE  Inv'
    <2>1. Money(x) \in Nat
      BY MoneyRounds, WalletAssumption
    <2>2. [pc |-> "transfer", from |-> from, to |-> to, amount |-> Money(x)] \in Transfer
      BY <1>1, <2>1, CodesDiffer DEF RequestTransfer, Direction, Transfer, OtherCodes
    <2>3. QED
      BY <1>1, <2>2 DEF RequestTransfer, TypeOK, PayableMatchesRequests
  <1>2. ASSUME NEW r \in Requests, PostTransfer(r)
        PROVE  Inv'
    <2>1. /\ request[r].from \in Codes \ {"payable:withdrawals"}
          /\ request[r].to \in Codes \ {"payable:withdrawals"}
          /\ request[r].from # request[r].to
          /\ request[r].amount \in Int
      BY <1>0, <1>2, PendingType, CodesDiffer DEF PostTransfer, OtherCodes
    <2>2. net' \in [Codes -> Int] /\ net'["payable:withdrawals"] = net["payable:withdrawals"]
      BY <1>0, <1>2, <2>1, PostMoves DEF PostTransfer, TypeOK
    <2>3. QED
      BY <1>2, <2>2 DEF PostTransfer, TypeOK, PayableMatchesRequests
  <1>3. ASSUME NEW r \in Requests, NEW x \in Amounts, RequestWithdrawal(r, x)
        PROVE  Inv'
    BY <1>3, WalletAssumption DEF RequestWithdrawal, TypeOK, PayableMatchesRequests, Withdraw
  <1>4. ASSUME NEW r \in Requests, CreateWithdrawal(r)
        PROVE  Inv'
    <2>1. request[r].amount \in Nat
      BY <1>4, PendingType DEF CreateWithdrawal
    <2>2. /\ net' \in [Codes -> Int]
          /\ net'["payable:withdrawals"] = net["payable:withdrawals"] + request[r].amount
      BY <1>0, <1>4, <2>1, PostMoves
         DEF CreateWithdrawal, LockForWithdrawal, LockedAmount, TypeOK
    <2>3. QED
      BY <1>4, <2>1, <2>2 DEF CreateWithdrawal, TypeOK, PayableMatchesRequests
  <1>5. ASSUME NEW r \in Requests, Abandon(r)
        PROVE  Inv'
    BY <1>5 DEF Abandon, TypeOK, PayableMatchesRequests
  <1>6. ASSUME NEW x \in Moves, CreditDeposit(x)
        PROVE  Inv'
    <2>1. net' \in [Codes -> Int] /\ net'["payable:withdrawals"] = net["payable:withdrawals"]
      BY <1>0, <1>6, PostMoves, WalletAssumption DEF CreditDeposit, TypeOK
    <2>2. QED
      BY <1>6, <2>1, WalletAssumption DEF CreditDeposit, TypeOK, PayableMatchesRequests
  <1>7. ASSUME NEW a \in Accounts, NEW x \in Moves, SettleTrade(a, x)
        PROVE  Inv'
    <2>1. a \in Codes /\ a # "pnl:trading" /\ a # "payable:withdrawals" /\ x \in Int
      BY CodesDiffer, WalletAssumption DEF OtherCodes
    <2>2. net' \in [Codes -> Int] /\ net'["payable:withdrawals"] = net["payable:withdrawals"]
      BY <1>0, <1>7, <2>1, PostMoves DEF SettleTrade, TypeOK
    <2>3. QED
      BY <1>7, <2>2, WalletAssumption DEF SettleTrade, TypeOK, PayableMatchesRequests
  <1>8. CASE UNCHANGED vars
    BY <1>8 DEF vars, TypeOK, PayableMatchesRequests
  <1>9. QED
    BY <1>1, <1>2, <1>3, <1>4, <1>5, <1>6, <1>7, <1>8 DEF Next

(* Every state of the ledger and of the pending requests is typed.         *)
THEOREM TypeCorrect == Spec => []TypeOK
  BY InitInv, StepInv, PTL DEF Spec, Inv

(* The ledger owes exactly what the withdrawal rows ask for.               *)
THEOREM PayableIsRequested == Spec => []PayableMatchesRequests
  BY InitInv, StepInv, PTL DEF Spec, Inv

---------------------------------------------------------------------------
(* One request at a time: what a pending request has checked still holds   *)
(* when it posts, since nothing else takes money out of the wallet.        *)
Backed ==
    \A r \in Requests :
      \/ request[r].pc = "transfer" /\ request[r].from = "wallet"
      \/ request[r].pc = "withdraw"
      => net["wallet"] >= request[r].amount

SerialInv == TypeOK /\ WalletNeverNegative /\ Backed

AtMostOneRequest == \A r, s \in Requests : r = s

(* The step of the serial argument.                                        *)
LEMMA SerialStep ==
    ASSUME AtMostOneRequest, SerialInv, TypeOK', [Next]_vars
    PROVE  SerialInv'
  <1> USE DEF SerialInv, WalletNeverNegative, Backed
  <1>0. /\ "wallet" \in Codes /\ "payable:withdrawals" \in Codes
        /\ "psp:mpesa:clearing" \in Codes /\ "pnl:trading" \in Codes
        /\ net["wallet"] \in Int
    BY CodesDiffer DEF OtherCodes, TypeOK
  <1>1. ASSUME NEW r \in Requests, NEW from \in Accounts \cup {"wallet"},
               NEW to \in Accounts \cup {"wallet"}, NEW x \in Amounts,
               RequestTransfer(r, from, to, x)
        PROVE  SerialInv'
    <2>1. request'[r] = [pc |-> "transfer", from |-> from, to |-> to, amount |-> Money(x)]
      BY <1>1 DEF RequestTransfer, TypeOK
    <2>2. from = "wallet" => net["wallet"] >= Money(x)
      BY <1>1 DEF RequestTransfer, Covers
    <2>3. \A s \in Requests : s = r
      BY DEF AtMostOneRequest
    <2>4. QED
      BY <1>1, <2>1, <2>2, <2>3 DEF RequestTransfer
  <1>2. ASSUME NEW r \in Requests, PostTransfer(r)
        PROVE  SerialInv'
    <2>1. /\ request[r].from \in Codes /\ request[r].to \in Codes
          /\ request[r].from # request[r].to
          /\ request[r].amount \in Nat
          /\ request'[r] = Idle
      BY <1>0, <1>2, PendingType, CodesDiffer DEF PostTransfer, OtherCodes, TypeOK
    <2>2. net'["wallet"] >= 0
      BY <1>0, <1>2, <2>1, PostMoves DEF PostTransfer, TypeOK
    <2>3. \A s \in Requests : request'[s] = Idle
      BY <2>1 DEF AtMostOneRequest
    <2>4. QED
      BY <2>2, <2>3 DEF Idle
  <1>3. ASSUME NEW r \in Requests, NEW x \in Amounts, RequestWithdrawal(r, x)
        PROVE  SerialInv'
    <2>1. request'[r] = [pc |-> "withdraw", amount |-> x]
      BY <1>3 DEF RequestWithdrawal, TypeOK
    <2>2. \A s \in Requests : s = r
      BY DEF AtMostOneRequest
    <2>3. QED
      BY <1>3, <2>1, <2>2 DEF RequestWithdrawal
  <1>4. ASSUME NEW r \in Requests, CreateWithdrawal(r)
        PROVE  SerialInv'
    <2>1. request[r].amount \in Nat /\ request'[r] = Idle
      BY <1>4, PendingType DEF CreateWithdrawal, TypeOK
    <2>2. net'["wallet"] = net["wallet"] - request[r].amount
      BY <1>0, <1>4, <2>1, PostMoves
         DEF CreateWithdrawal, LockForWithdrawal, LockedAmount, TypeOK
    <2>3. \A s \in Requests : request'[s] = Idle
      BY <2>1 DEF AtMostOneRequest
    <2>4. QED
      BY <1>0, <1>4, <2>1, <2>2, <2>3 DEF Idle, CreateWithdrawal
  <1>5. ASSUME NEW r \in Requests, Abandon(r)
        PROVE  SerialInv'
    BY <1>5 DEF Abandon, TypeOK, Idle
  <1>6. ASSUME NEW x \in Moves, CreditDeposit(x)
        PROVE  SerialInv'
    <2>1. net'["wallet"] = net["wallet"] + x /\ x \in Nat
      BY <1>0, <1>6, PostMoves, WalletAssumption DEF CreditDeposit, TypeOK
    <2>2. \A r \in Requests :
             request[r].pc \in {"transfer", "withdraw"} => request[r].amount \in Nat
      BY PendingType
    <2>3. QED
      BY <1>0, <1>6, <2>1, <2>2 DEF CreditDeposit
  <1>7. ASSUME NEW a \in Accounts, NEW x \in Moves, SettleTrade(a, x)
        PROVE  SerialInv'
    <2>1. a \in Codes /\ a # "pnl:trading" /\ a # "wallet" /\ x \in Int
      BY CodesDiffer, WalletAssumption DEF OtherCodes
    <2>2. net'["wallet"] = net["wallet"]
      BY <1>0, <1>7, <2>1, PostMoves DEF SettleTrade, TypeOK
    <2>3. QED
      BY <1>7, <2>2 DEF SettleTrade
  <1>8. CASE UNCHANGED vars
    BY <1>8 DEF vars
  <1>9. QED
    BY <1>1, <1>2, <1>3, <1>4, <1>5, <1>6, <1>7, <1>8 DEF Next

(* The balance checks of transfer and requestWithdrawal keep the wallet    *)
(* above zero for a client whose requests never overlap.                   *)
THEOREM SerialRequestsNeverOverdraw ==
    ASSUME AtMostOneRequest
    PROVE  Spec => []WalletNeverNegative
  <1>1. Init => SerialInv
    <2>1. Init => Inv
      BY InitInv
    <2>2. Init => net["wallet"] = 0
      BY WalletAssumption DEF Init, Codes, OtherCodes
    <2>3. Init => \A r \in Requests : request[r].pc = "idle"
      BY DEF Init, Idle
    <2>4. QED
      BY <2>1, <2>2, <2>3 DEF Inv, SerialInv, WalletNeverNegative, Backed
  <1>2. SerialInv /\ TypeOK' /\ [Next]_vars => SerialInv'
    BY SerialStep
  <1>3. SerialInv => WalletNeverNegative
    BY DEF SerialInv
  <1>4. QED
    BY <1>1, <1>2, <1>3, TypeCorrect, PTL DEF Spec

---------------------------------------------------------------------------
(* The bound on the overdraft of a client whose requests overlap.          *)

(* A set of natural numbers has a least element.                           *)
LEMMA NatMinimum ==
    ASSUME NEW T \in SUBSET Nat, T # {}
    PROVE  \E m \in T : \A n \in T : m <= n
  <1> DEFINE R == {ss \in Nat \X Nat : ss[1] < ss[2]}
  <1>1. IsWellFoundedOn(R, Nat)
    BY NatLessThanWellFounded DEF OpToRel
  <1> HIDE DEF R
  <1>2. PICK m \in T : \A n \in T : ~(<<n, m>> \in R)
    BY <1>1, WFMin
  <1>3. \A n \in T : ~(n < m)
    BY <1>2 DEF R
  <1>4. QED
    BY <1>3

(* A finite set of natural numbers has a greatest element.                 *)
LEMMA NatMaximum ==
    ASSUME NEW S \in SUBSET Nat, IsFiniteSet(S), S # {}
    PROVE  \E m \in S : \A n \in S : n <= m
  <1> DEFINE HasMax(T) == \E m \in T : \A n \in T : n <= m
             Bad       == {T \in SUBSET S : T # {} /\ ~HasMax(T)}
             Sizes     == {Cardinality(T) : T \in Bad}
  <1>1. SUFFICES ASSUME Bad # {} PROVE FALSE
    BY DEF Bad
  <1>2. \A T \in SUBSET S : IsFiniteSet(T) /\ Cardinality(T) \in Nat
    BY FS_Subset, FS_CardinalityType
  <1>3. PICK T \in Bad : \A U \in Bad : Cardinality(T) <= Cardinality(U)
    <2>1. Sizes # {} /\ Sizes \in SUBSET Nat
      BY <1>1, <1>2
    <2>2. PICK k \in Sizes : \A n \in Sizes : k <= n
      <3> HIDE DEF Sizes
      <3>1. QED
        BY <2>1, NatMinimum
    <2>3. QED
      BY <2>2
  <1>4. PICK x \in T : TRUE
    OBVIOUS
  <1>5. T \ {x} \in SUBSET S /\ Cardinality(T \ {x}) = Cardinality(T) - 1
    BY <1>2, <1>4, FS_RemoveElement
  <1>6. T \ {x} \notin Bad
    <2>1. T \in SUBSET S
      BY <1>3
    <2> HIDE DEF Bad
    <2>2. QED
      BY <1>2, <1>3, <1>5, <2>1
  <1>7. CASE T \ {x} = {}
    BY <1>4, <1>7
  <1>8. CASE T \ {x} # {}
    <2>1. PICK m \in T \ {x} : \A n \in T \ {x} : n <= m
      BY <1>5, <1>6, <1>8
    <2>2. CASE x <= m
      BY <2>1, <2>2
    <2>3. CASE m < x
      <3>1. \A n \in T : n <= x
        BY <2>1, <2>3
      <3>2. QED
        BY <1>4, <3>1
    <2>4. QED
      BY <2>1, <2>2, <2>3
  <1>9. QED
    BY <1>7, <1>8

(* p[i] is the sum of the first i numbers of d.                            *)
Totals(n, d, p) ==
    /\ p \in [0..n -> Int]
    /\ p[0] = 0
    /\ \A i \in 1..n : p[i] = p[i - 1] + d[i]

(* Sums of numbers between 0 and limit, one of them 0.                     *)
LEMMA TotalsBounded ==
    ASSUME NEW n \in Nat, NEW limit \in Nat, NEW d \in [1..n -> 0..limit], NEW p,
           Totals(n, d, p), NEW j \in 1..n, d[j] = 0
    PROVE  p[n] <= (n - 1) * limit
  <1> DEFINE bound(i) == IF i >= j THEN (i - 1) * limit ELSE i * limit
             Over     == {i \in 0..n : p[i] > bound(i)}
  <1>1. \A i \in 0..n : bound(i) \in Int
    OBVIOUS
  <1>2. SUFFICES ASSUME Over # {} PROVE FALSE
    <2>1. p[n] \in Int /\ n \in 0..n /\ bound(n) = (n - 1) * limit
      BY DEF Totals
    <2>2. bound(n) \in Int
      BY <1>1, <2>1
    <2> HIDE DEF bound
    <2>3. ~(p[n] <= bound(n)) => n \in Over
      BY <2>1, <2>2
    <2> HIDE DEF Over
    <2>4. QED
      BY <2>1, <2>3
  <1>3. PICK i \in Over : \A k \in Over : i <= k
    <2>1. Over \in SUBSET Nat
      OBVIOUS
    <2> HIDE DEF Over
    <2>2. QED
      BY <1>2, <2>1, NatMinimum
  <1>4. i # 0
    BY DEF Totals
  <1>5. i \in 1..n /\ i - 1 \in 0..n /\ i - 1 \notin Over
    <2>1. i \in 0..n
      OBVIOUS
    <2> HIDE DEF Over
    <2>2. QED
      BY <1>3, <1>4, <2>1
  <1>6. p[i - 1] <= bound(i - 1) /\ p[i - 1] \in Int /\ p[i] = p[i - 1] + d[i] /\ d[i] \in 0..limit
    <2>1. bound(i - 1) \in Int /\ p[i - 1] \in Int /\ p[i] = p[i - 1] + d[i]
      BY <1>1, <1>5 DEF Totals
    <2>2. p[i - 1] <= bound(i - 1)
      <3> HIDE DEF bound
      <3>1. QED
        BY <1>5, <2>1
    <2>3. QED
      BY <1>5, <2>1, <2>2
  <1>7. bound(i) = IF i = j THEN bound(i - 1) ELSE bound(i - 1) + limit
    <2>1. i * limit = (i - 1) * limit + limit /\ (i - 1) * limit = (i - 2) * limit + limit
      BY <1>5
    <2>2. QED
      BY <1>5, <2>1
  <1>8. p[i] <= bound(i)
    <2>1. bound(i - 1) \in Int
      BY <1>1, <1>5
    <2> HIDE DEF bound
    <2>2. QED
      BY <1>6, <1>7, <2>1
  <1>9. QED
    <2>1. p[i] \in Int /\ bound(i) \in Int /\ p[i] > bound(i)
      BY <1>1, <1>5 DEF Totals
    <2> HIDE DEF bound
    <2>2. QED
      BY <1>8, <2>1

LEMMA TotalsNotNegative ==
    ASSUME NEW n \in Nat, NEW d \in [1..n -> Nat], NEW p, Totals(n, d, p)
    PROVE  p[n] >= 0
  <1> DEFINE Below == {i \in 0..n : p[i] < 0}
  <1>1. SUFFICES ASSUME Below # {} PROVE FALSE
    BY DEF Totals
  <1>2. PICK i \in Below : \A k \in Below : i <= k
    <2>1. Below \in SUBSET Nat
      OBVIOUS
    <2> HIDE DEF Below
    <2>2. QED
      BY <1>1, <2>1, NatMinimum
  <1>3. i \in 0..n /\ i # 0
    BY <1>2 DEF Totals
  <1>4. i \in 1..n /\ i - 1 \in 0..n /\ i - 1 \notin Below
    <2> HIDE DEF Below
    <2>1. QED
      BY <1>2, <1>3
  <1>5. p[i - 1] >= 0 /\ p[i - 1] \in Int /\ d[i] \in Nat /\ p[i] = p[i - 1] + d[i]
    BY <1>4 DEF Totals
  <1>6. QED
    BY <1>5

(* One number changes, and the sums from there on change by as much.       *)
LEMMA TotalsChange ==
    ASSUME NEW n \in Nat, NEW d \in [1..n -> Int], NEW e \in [1..n -> Int], NEW p,
           Totals(n, d, p), NEW j \in 1..n, \A i \in 1..n : i # j => e[i] = d[i]
    PROVE  \E q : Totals(n, e, q) /\ q[n] = p[n] + e[j] - d[j]
  <1> DEFINE q == [i \in 0..n |-> IF i >= j THEN p[i] + e[j] - d[j] ELSE p[i]]
  <1>1. q \in [0..n -> Int] /\ q[0] = 0
    <2>1. e[j] \in Int /\ d[j] \in Int /\ \A i \in 0..n : p[i] \in Int
      BY DEF Totals
    <2>2. p[0] = 0 /\ ~(0 >= j) /\ 0 \in 0..n
      BY DEF Totals
    <2>3. q[0] = 0
      BY <2>2
    <2>4. QED
      BY <2>1, <2>3
  <1>2. \A i \in 1..n : q[i] = q[i - 1] + e[i]
    <2>1. SUFFICES ASSUME NEW i \in 1..n PROVE q[i] = q[i - 1] + e[i]
      OBVIOUS
    <2>2. p[i] = p[i - 1] + d[i] /\ p[i - 1] \in Int /\ i - 1 \in 0..n
      BY DEF Totals
    <2>3. CASE i = j
      BY <2>2, <2>3
    <2>4. CASE i # j
      BY <2>2, <2>4
    <2>5. QED
      BY <2>3, <2>4
  <1>3. q[n] = p[n] + e[j] - d[j]
    OBVIOUS
  <1>4. QED
    BY <1>1, <1>2, <1>3 DEF Totals

(* Any number of requests can overlap and any amounts be asked for, but    *)
(* some and not infinitely many.                                           *)
Overlapping ==
    /\ IsFiniteSet(Requests) /\ Requests # {}
    /\ IsFiniteSet(Amounts) /\ Amounts # {}

(* The requests in some order.                                             *)
Rows == Cardinality(Requests)

Row == CHOOSE f \in [1..Rows -> Requests] :
          /\ \A r \in Requests : \E i \in 1..Rows : f[i] = r
          /\ \A i, j \in 1..Rows : f[i] = f[j] => i = j

LEMMA RowNumbers ==
    ASSUME Overlapping
    PROVE  /\ Rows \in Nat \ {0}
           /\ Row \in [1..Rows -> Requests]
           /\ \A r \in Requests : \E i \in 1..Rows : Row[i] = r
           /\ \A i, j \in 1..Rows : Row[i] = Row[j] => i = j
  <1>1. Rows \in Nat /\ ExistsBijection(1..Rows, Requests)
    BY FS_CardinalityType DEF Overlapping, Rows
  <1>2. Rows # 0
    BY FS_EmptySet DEF Overlapping, Rows
  <1>3. \E f \in [1..Rows -> Requests] :
          /\ \A r \in Requests : \E i \in 1..Rows : f[i] = r
          /\ \A i, j \in 1..Rows : f[i] = f[j] => i = j
    BY <1>1 DEF ExistsBijection, Bijection, Injection, Surjection, IsInjective
  <1>4. QED
    BY <1>1, <1>2, <1>3 DEF Row

(* LargestDebit is what it says.                                           *)
LEMMA LargestDebitIs ==
    ASSUME Overlapping
    PROVE  /\ LargestDebit \in Nat
           /\ \A x \in Amounts : x <= LargestDebit /\ Money(x) <= LargestDebit
  <1> DEFINE Rounded == {Money(x) : x \in Amounts}
             All     == Amounts \cup Rounded
  <1>1. Amounts \subseteq Nat /\ Rounded \subseteq Nat
    BY WalletAssumption, MoneyRounds
  <1>2. IsFiniteSet(Rounded)
    <2> DEFINE f == [x \in Amounts |-> Money(x)]
    <2>1. f \in Surjection(Amounts, Rounded)
      BY DEF Surjection
    <2>2. QED
      BY <2>1, FS_Surjection DEF Overlapping
  <1>3. IsFiniteSet(All)
    BY <1>2, FS_Union DEF Overlapping
  <1>4. \E m \in All : \A n \in All : n <= m
    <2>1. All \in SUBSET Nat /\ All # {}
      BY <1>1 DEF Overlapping
    <2> HIDE DEF All
    <2>2. QED
      BY <1>3, <2>1, NatMaximum
  <1>5. \E m \in Amounts \cup {Money(x) : x \in Amounts} :
           \A x \in Amounts : x <= m /\ Money(x) <= m
    BY <1>4
  <1>6. /\ LargestDebit \in All
        /\ \A x \in Amounts : x <= LargestDebit /\ Money(x) <= LargestDebit
    BY <1>5 DEF LargestDebit
  <1>7. QED
    BY <1>1, <1>6

(* What a pending request is about to take from the wallet.                *)
Debit(r) ==
    IF \/ request[r].pc = "withdraw"
       \/ request[r].pc = "transfer" /\ request[r].from = "wallet"
    THEN request[r].amount ELSE 0

Debits == [i \in 1..Rows |-> Debit(Row[i])]

(* The wallet covers all that is about to be taken but for what Rows - 1   *)
(* requests can take at most.                                              *)
Covered ==
    \E p : /\ Totals(Rows, Debits, p)
           /\ net["wallet"] - p[Rows] >= 0 - (Rows - 1) * LargestDebit

DebitsBounded == \A r \in Requests : Debit(r) \in 0..LargestDebit

OverdraftInv == TypeOK /\ DebitsBounded /\ Covered

(* When one request moves, the totals change by what it debits.            *)
LEMMA DebitChanges ==
    ASSUME Overlapping, DebitsBounded, DebitsBounded', NEW r \in Requests,
           \A s \in Requests : s # r => request'[s] = request[s],
           NEW p, Totals(Rows, Debits, p)
    PROVE  \E q : Totals(Rows, Debits', q) /\ q[Rows] = p[Rows] + Debit(r)' - Debit(r)
  <1>1. PICK j \in 1..Rows : Row[j] = r
    BY RowNumbers
  <1>2. /\ Rows \in Nat
        /\ Debits \in [1..Rows -> Int] /\ Debits' \in [1..Rows -> Int]
    BY RowNumbers, LargestDebitIs DEF Debits, DebitsBounded
  <1>3. \A i \in 1..Rows : i # j => Debits'[i] = Debits[i]
    BY <1>1, RowNumbers DEF Debits, Debit
  <1>4. Debits[j] = Debit(r) /\ Debits'[j] = Debit(r)'
    BY <1>1 DEF Debits
  <1>5. \E q : Totals(Rows, Debits', q) /\ q[Rows] = p[Rows] + Debits'[j] - Debits[j]
    BY <1>2, <1>3, TotalsChange
  <1>6. QED
    BY <1>4, <1>5

(* A step of request r that takes what it debits off its list, or less.    *)
LEMMA DebitPosted ==
    ASSUME Overlapping, OverdraftInv, TypeOK', NEW r \in Requests,
           \A s \in Requests : s # r => request'[s] = request[s],
           Debit(r)' \in 0..LargestDebit,
           net'["wallet"] - Debit(r)' >= net["wallet"] - Debit(r)
    PROVE  OverdraftInv'
  <1>1. DebitsBounded /\ DebitsBounded'
    BY DEF OverdraftInv, DebitsBounded, Debit
  <1>2. PICK p : /\ Totals(Rows, Debits, p)
                 /\ net["wallet"] - p[Rows] >= 0 - (Rows - 1) * LargestDebit
    BY DEF OverdraftInv, Covered
  <1>3. PICK q : Totals(Rows, Debits', q) /\ q[Rows] = p[Rows] + Debit(r)' - Debit(r)
    BY <1>1, <1>2, DebitChanges
  <1>4. net'["wallet"] - q[Rows] >= 0 - (Rows - 1) * LargestDebit
    <2>1. net["wallet"] \in Int /\ net'["wallet"] \in Int
      BY DEF OverdraftInv, TypeOK, Codes, OtherCodes
    <2>2. Rows \in Nat /\ LargestDebit \in Nat
      BY RowNumbers, LargestDebitIs
    <2>3. p[Rows] \in Int
      BY <1>2, <2>2 DEF Totals
    <2>4. Debit(r) \in Int /\ Debit(r)' \in Int
      BY <1>1, <2>2 DEF DebitsBounded
    <2>5. (Rows - 1) * LargestDebit \in Int
      BY <2>2
    <2>6. QED
      BY <1>2, <1>3, <2>1, <2>3, <2>4, <2>5
  <1>5. QED
    BY <1>1, <1>3, <1>4 DEF OverdraftInv, Covered

(* An idle request checks that the wallet covers what it will take.        *)
LEMMA DebitChecked ==
    ASSUME Overlapping, OverdraftInv, TypeOK', NEW r \in Requests,
           \A s \in Requests : s # r => request'[s] = request[s],
           Debit(r) = 0, Debit(r)' \in 0..LargestDebit,
           net' = net, net["wallet"] >= Debit(r)'
    PROVE  OverdraftInv'
  <1>1. DebitsBounded /\ DebitsBounded'
    BY DEF OverdraftInv, DebitsBounded, Debit
  <1>2. PICK p : Totals(Rows, Debits, p)
    BY DEF OverdraftInv, Covered
  <1>3. Rows \in Nat /\ LargestDebit \in Nat
    BY RowNumbers, LargestDebitIs
  <1>4. p[Rows] <= (Rows - 1) * LargestDebit
    <2>1. PICK j \in 1..Rows : Row[j] = r
      BY RowNumbers
    <2>2. Debits \in [1..Rows -> 0..LargestDebit] /\ Debits[j] = 0
      BY <1>1, <2>1, RowNumbers DEF Debits, DebitsBounded
    <2>3. QED
      BY <1>2, <1>3, <2>2, TotalsBounded
  <1>5. PICK q : Totals(Rows, Debits', q) /\ q[Rows] = p[Rows] + Debit(r)' - Debit(r)
    BY <1>1, <1>2, DebitChanges
  <1>6. net'["wallet"] - q[Rows] >= 0 - (Rows - 1) * LargestDebit
    <2>1. net["wallet"] \in Int
      BY DEF OverdraftInv, TypeOK, Codes, OtherCodes
    <2>2. p[Rows] \in Int /\ Debit(r)' \in Int
      BY <1>2, <1>3 DEF Totals
    <2>3. (Rows - 1) * LargestDebit \in Int
      BY <1>3
    <2>4. QED
      BY <1>4, <1>5, <2>1, <2>2, <2>3
  <1>7. QED
    BY <1>1, <1>5, <1>6 DEF OverdraftInv, Covered

(* Money comes in and no request moves.                                    *)
LEMMA MoneyComesIn ==
    ASSUME Overlapping, OverdraftInv, TypeOK', request' = request,
           net'["wallet"] >= net["wallet"]
    PROVE  OverdraftInv'
  <1>1. PICK r \in Requests : TRUE
    BY DEF Overlapping
  <1>2. Debit(r)' = Debit(r) /\ Debit(r) \in 0..LargestDebit /\ LargestDebit \in Nat
    BY LargestDebitIs DEF Debit, OverdraftInv, DebitsBounded
  <1>3. net["wallet"] \in Int /\ net'["wallet"] \in Int
    BY DEF OverdraftInv, TypeOK, Codes, OtherCodes
  <1>4. QED
    BY <1>2, <1>3, DebitPosted

LEMMA OverdraftStep ==
    ASSUME Overlapping, OverdraftInv, TypeOK', [Next]_vars
    PROVE  OverdraftInv'
  <1>0. /\ "wallet" \in Codes /\ "payable:withdrawals" \in Codes
        /\ "psp:mpesa:clearing" \in Codes /\ "pnl:trading" \in Codes
        /\ TypeOK /\ net["wallet"] \in Int
        /\ LargestDebit \in Nat /\ 0 \in 0..LargestDebit
    BY CodesDiffer, LargestDebitIs DEF OtherCodes, TypeOK, OverdraftInv
  <1>1. ASSUME NEW r \in Requests, NEW from \in Accounts \cup {"wallet"},
               NEW to \in Accounts \cup {"wallet"}, NEW x \in Amounts,
               RequestTransfer(r, from, to, x)
        PROVE  OverdraftInv'
    <2>1. /\ Debit(r) = 0
          /\ request'[r] = [pc |-> "transfer", from |-> from, to |-> to, amount |-> Money(x)]
          /\ \A s \in Requests : s # r => request'[s] = request[s]
      BY <1>0, <1>1 DEF RequestTransfer, TypeOK, Debit, Idle
    <2>2. Debit(r)' = IF from = "wallet" THEN Money(x) ELSE 0
      BY <2>1 DEF Debit
    <2>3. Money(x) \in 0..LargestDebit
      BY <1>0, LargestDebitIs, MoneyRounds, WalletAssumption
    <2>4. CASE from = "wallet"
      <3>1. net["wallet"] >= Money(x) /\ net' = net
        BY <1>1, <2>4 DEF RequestTransfer, Covers
      <3>2. QED
        BY <2>1, <2>2, <2>3, <2>4, <3>1, DebitChecked
    <2>5. CASE from # "wallet"
      <3>1. net' = net
        BY <1>1 DEF RequestTransfer
      <3>2. QED
        BY <1>0, <2>1, <2>2, <2>5, <3>1, DebitPosted
    <2>6. QED
      BY <2>4, <2>5
  <1>2. ASSUME NEW r \in Requests, PostTransfer(r)
        PROVE  OverdraftInv'
    <2>1. /\ request[r].from \in Codes /\ request[r].to \in Codes
          /\ request[r].from # request[r].to
          /\ request[r].amount \in Nat
          /\ Debit(r)' = 0
          /\ \A s \in Requests : s # r => request'[s] = request[s]
      BY <1>0, <1>2, PendingType, CodesDiffer
         DEF PostTransfer, OtherCodes, TypeOK, Debit, Idle
    <2>2. Debit(r) = IF request[r].from = "wallet" THEN request[r].amount ELSE 0
      BY <1>2 DEF PostTransfer, Debit
    <2>3. net'["wallet"] >= net["wallet"] - Debit(r)
      BY <1>0, <1>2, <2>1, <2>2, PostMoves DEF PostTransfer, TypeOK
    <2>4. net'["wallet"] \in Int
      BY <1>0 DEF TypeOK
    <2>5. QED
      BY <1>0, <2>1, <2>3, <2>4, DebitPosted
  <1>3. ASSUME NEW r \in Requests, NEW x \in Amounts, RequestWithdrawal(r, x)
        PROVE  OverdraftInv'
    <2>1. /\ Debit(r) = 0
          /\ request'[r] = [pc |-> "withdraw", amount |-> x]
          /\ \A s \in Requests : s # r => request'[s] = request[s]
          /\ net' = net /\ net["wallet"] >= x
      BY <1>0, <1>3 DEF RequestWithdrawal, TypeOK, Debit, Idle
    <2>2. Debit(r)' = x
      BY <2>1 DEF Debit
    <2>3. x \in 0..LargestDebit
      BY <1>0, LargestDebitIs, WalletAssumption
    <2>4. QED
      BY <2>1, <2>2, <2>3, DebitChecked
  <1>4. ASSUME NEW r \in Requests, CreateWithdrawal(r)
        PROVE  OverdraftInv'
    <2>1. /\ request[r].amount \in Nat /\ Debit(r) = request[r].amount /\ Debit(r)' = 0
          /\ \A s \in Requests : s # r => request'[s] = request[s]
      BY <1>0, <1>4, PendingType DEF CreateWithdrawal, TypeOK, Debit, Idle
    <2>2. net'["wallet"] = net["wallet"] - request[r].amount
      BY <1>0, <1>4, <2>1, PostMoves
         DEF CreateWithdrawal, LockForWithdrawal, LockedAmount, TypeOK
    <2>3. QED
      BY <1>0, <2>1, <2>2, DebitPosted
  <1>5. ASSUME NEW r \in Requests, Abandon(r)
        PROVE  OverdraftInv'
    <2>1. /\ Debit(r)' = 0 /\ net' = net
          /\ \A s \in Requests : s # r => request'[s] = request[s]
      BY <1>0, <1>5 DEF Abandon, TypeOK, Debit, Idle
    <2>2. Debit(r) \in 0..LargestDebit
      BY DEF OverdraftInv, DebitsBounded
    <2>3. QED
      BY <1>0, <2>1, <2>2, DebitPosted
  <1>6. ASSUME NEW x \in Moves, CreditDeposit(x)
        PROVE  OverdraftInv'
    <2>1. net'["wallet"] = net["wallet"] + x /\ x \in Nat /\ request' = request
      BY <1>0, <1>6, PostMoves, WalletAssumption DEF CreditDeposit, TypeOK
    <2>2. QED
      BY <1>0, <2>1, MoneyComesIn
  <1>7. ASSUME NEW a \in Accounts, NEW x \in Moves, SettleTrade(a, x)
        PROVE  OverdraftInv'
    <2>1. a \in Codes /\ a # "pnl:trading" /\ a # "wallet" /\ x \in Int
      BY CodesDiffer, WalletAssumption DEF OtherCodes
    <2>2. net'["wallet"] = net["wallet"] /\ request' = request
      BY <1>0, <1>7, <2>1, PostMoves DEF SettleTrade, TypeOK
    <2>3. QED
      BY <1>0, <2>2, MoneyComesIn
  <1>8. CASE UNCHANGED vars
    BY <1>0, <1>8, MoneyComesIn DEF vars
  <1>9. QED
    BY <1>1, <1>2, <1>3, <1>4, <1>5, <1>6, <1>7, <1>8 DEF Next

(* However many requests overlap, the checks of transfer and               *)
(* requestWithdrawal let the wallet fall below zero by no more than all of *)
(* them but one can take.                                                  *)
THEOREM OverdraftIsBounded ==
    ASSUME Overlapping
    PROVE  Spec => []OverdraftBounded
  <1>1. Init => OverdraftInv
    <2> SUFFICES ASSUME Init PROVE OverdraftInv
      OBVIOUS
    <2>1. TypeOK /\ Rows \in Nat \ {0} /\ LargestDebit \in Nat
      BY InitInv, RowNumbers, LargestDebitIs DEF Inv
    <2>2. net["wallet"] = 0
      BY WalletAssumption DEF Init, Codes, OtherCodes
    <2>3. \A r \in Requests : Debit(r) = 0
      BY DEF Init, Idle, Debit
    <2> DEFINE p == [i \in 0..Rows |-> 0]
    <2>4. Totals(Rows, Debits, p) /\ p[Rows] = 0
      BY <2>1, <2>3, RowNumbers DEF Totals, Debits
    <2>5. (Rows - 1) * LargestDebit \in Nat
      BY <2>1
    <2>6. QED
      BY <2>1, <2>2, <2>3, <2>4, <2>5 DEF OverdraftInv, DebitsBounded, Covered
  <1>2. OverdraftInv /\ TypeOK' /\ [Next]_vars => OverdraftInv'
    BY OverdraftStep
  <1>3. OverdraftInv => OverdraftBounded
    <2> SUFFICES ASSUME OverdraftInv PROVE OverdraftBounded
      OBVIOUS
    <2>1. PICK p : /\ Totals(Rows, Debits, p)
                   /\ net["wallet"] - p[Rows] >= 0 - (Rows - 1) * LargestDebit
      BY DEF OverdraftInv, Covered
    <2>2. Rows \in Nat /\ LargestDebit \in Nat /\ Debits \in [1..Rows -> Nat]
      BY RowNumbers, LargestDebitIs DEF OverdraftInv, DebitsBounded, Debits
    <2>3. p[Rows] >= 0
      BY <2>1, <2>2, TotalsNotNegative
    <2>4. p[Rows] \in Int
      BY <2>1, <2>2 DEF Totals
    <2>5. net["wallet"] \in Int /\ (Rows - 1) * LargestDebit \in Int
      BY <2>2 DEF OverdraftInv, TypeOK, Codes, OtherCodes
    <2>6. net["wallet"] >= 0 - (Rows - 1) * LargestDebit
      BY <2>1, <2>3, <2>4, <2>5
    <2>7. QED
      BY <2>6 DEF OverdraftBounded, Rows
  <1>4. QED
    BY <1>1, <1>2, <1>3, TypeCorrect, PTL DEF Spec
---------------------------------------------------------------------------
(* What an account is worth (Valuation).  Quotes and positions only become *)
(* more while the process lives, so a valuation that was sound stays so.   *)

Named(names, s) == s \in Slots /\ names[s] # NoSymbol

(* A valuation against the cache and the positions' instruments: what it   *)
(* has read of each position, and that none was passed over.               *)
ReadRight(build, names) ==
    /\ \A i \in 1..Len(build.ids) : Named(names, build.ids[i])
    /\ \A i \in 1..Len(build.book) :
          /\ Named(names, build.book[i].slot)
          /\ Converted(names[build.book[i].slot], build.book[i].rate)

NonePassedOver(build) ==
    /\ Len(build.book) = build.at
    /\ build.at <= Len(build.ids)
    /\ \A i \in 1..build.at : build.book[i].slot = build.ids[i]

Sound(build, cache, names, lost) ==
    /\ build.pc \in {"quote", "rate"} => build.at < Len(build.ids)
    /\ build.pc = "rate" => names[build.ids[build.at + 1]] \in cache
    /\ build.pc = "done" => build.at = Len(build.ids)
    /\ ReadRight(build, names)
    /\ ~build.blind => (build.pc # "none" => ~lost) /\ NonePassedOver(build)

Listed(build) == {build.ids[i] : i \in 1..Len(build.ids)}

QuotedCanConvert ==
    \A s \in lvc :
       \/ QuoteCurrency[s] = AccountCurrency
       \/ XUSD[QuoteCurrency[s]] \in lvc
       \/ USDX[QuoteCurrency[s]] \in lvc

KnownIsQuoted == ~forgotten => \A s \in Slots : Named(symbol, s) => HasQuote(symbol[s])

CallSound ==
    /\ call.pc \in {"order", "margin"} => HasQuote(call.symbol)
    /\ call.pc = "margin" => Converted(call.symbol, call.rate)
    /\ call.pc \in {"closes", "convert", "settle"} => \A s \in call.todo : Named(symbol, s)
    /\ call.pc = "convert" => HasQuote(symbol[call.slot])
    /\ call.pc = "settle" =>
          Named(symbol, call.slot) /\ Converted(symbol[call.slot], call.rate)

LockValues ==
    call.pc \in {"margin", "stopout"} => builds[Lock].pc # "none" /\ Listed(builds[Lock]) = open

ChargeSound ==
    charge # NoCharge =>
       /\ Named(symbol, charge.slot)
       /\ ~charge.blind => Converted(symbol[charge.slot], charge.rate)

AllSound == \A b \in Builders : Sound(builds[b], lvc, symbol, forgotten)

ValueInv ==
    /\ ValueTypeOK
    /\ QuotedCanConvert
    /\ KnownIsQuoted
    /\ CallSound
    /\ LockValues
    /\ ChargeSound
    /\ AllSound

Build == [pc : {"none", "quote", "rate", "done"}, ids : Seq(Slots), at : Nat,
          book : Seq(Math), blind : BOOLEAN]

LEMMA RateIsARate ==
  ASSUME NEW currency
  PROVE  GetConvRate(currency) \in Rates
  BY DEF GetConvRate, Rates

LEMMA QuotedConverts ==
  ASSUME QuotedCanConvert, NEW s \in lvc
  PROVE  Converted(s, GetConvRate(QuoteCurrency[s]))
  BY DEF QuotedCanConvert, GetConvRate, Converted

(* A valuation stays sound when the cache and the positions grow.          *)
LEMMA StaysSound ==
  ASSUME NEW build \in Build,
         NEW cache, NEW names, NEW lost \in BOOLEAN,
         NEW cache2, NEW names2, NEW lost2 \in BOOLEAN,
         Sound(build, cache, names, lost),
         cache \subseteq cache2,
         lost2 => lost,
         \A s \in Slots : Named(names, s) => names2[s] = names[s]
  PROVE  Sound(build, cache2, names2, lost2)
<1>1. \A i \in 1..Len(build.ids) : Named(names2, build.ids[i])
                                   /\ names2[build.ids[i]] = names[build.ids[i]]
  BY DEF Sound, ReadRight, Named
<1>2. ReadRight(build, names2)
  BY <1>1 DEF Sound, ReadRight, Named
<1>3. build.pc = "rate" => names2[build.ids[build.at + 1]] \in cache2
  <2>1. SUFFICES ASSUME build.pc = "rate" PROVE names2[build.ids[build.at + 1]] \in cache2
    OBVIOUS
  <2>2. build.at + 1 \in 1..Len(build.ids)
    BY <2>1 DEF Sound, Build
  <2> QED
    BY <1>1, <2>1, <2>2 DEF Sound
<1> QED
  BY <1>2, <1>3 DEF Sound

LEMMA NothingIsSound ==
  ASSUME NEW cache, NEW names, NEW lost
  PROVE  NoBuild \in Build /\ Sound(NoBuild, cache, names, lost)
  BY DEF NoBuild, Build, Sound, ReadRight, NonePassedOver

LEMMA NextPositionIs ==
  ASSUME NEW build \in Build
  PROVE  /\ NextPosition(build) \in Build
         /\ NextPosition(build).pc = IF build.at + 1 = Len(build.ids) THEN "done" ELSE "quote"
         /\ NextPosition(build).ids = build.ids
         /\ NextPosition(build).at = build.at + 1
         /\ NextPosition(build).book = build.book
         /\ NextPosition(build).blind = build.blind
<1> DEFINE moved == [build EXCEPT !.at = build.at + 1]
           pc    == IF build.at + 1 = Len(build.ids) THEN "done" ELSE "quote"
<1>1. /\ moved \in Build /\ moved.at = build.at + 1
      /\ moved.ids = build.ids /\ moved.book = build.book /\ moved.blind = build.blind
  <2>1. build.at + 1 \in Nat
    BY DEF Build
  <2>2. moved \in Build
    BY <2>1 DEF Build
  <2> QED
    BY <2>2 DEF Build
<1>2. NextPosition(build) = [moved EXCEPT !.pc = pc]
  BY DEF NextPosition
<1>3. pc \in {"done", "quote"}
  OBVIOUS
<1> HIDE DEF moved, pc
<1> QED
  BY <1>1, <1>2, <1>3 DEF Build, pc

(* Where a valuation stands between two positions.                         *)
LEMMA AtPosition ==
  ASSUME NEW build \in Build, NEW cache, NEW names, NEW lost,
         Sound(build, cache, names, lost), build.pc \in {"quote", "rate"}
  PROVE  /\ build.at \in Nat /\ Len(build.ids) \in Nat /\ build.at < Len(build.ids)
         /\ build.at + 1 \in 1..Len(build.ids)
         /\ Considered(build) = build.ids[build.at + 1]
         /\ Named(names, Considered(build))
<1>1. build.at \in Nat /\ Len(build.ids) \in Nat
  BY DEF Build
<1>2. build.at < Len(build.ids)
  BY DEF Sound
<1>3. build.at + 1 \in 1..Len(build.ids)
  BY <1>1, <1>2
<1> QED
  BY <1>1, <1>2, <1>3 DEF Sound, ReadRight, Considered

(* A listing of the open positions has each of them.                       *)
LEMMA ListingIsWhole ==
  ASSUME ValuationAssumption, ValueTypeOK, NEW ids \in Listings
  PROVE  /\ ids \in Seq(Slots)
         /\ \A i \in 1..Len(ids) : Named(symbol, ids[i])
         /\ {ids[i] : i \in 1..Len(ids)} = open
<1>1. IsFiniteSet(open)
  BY FS_Subset DEF ValuationAssumption, ValueTypeOK
<1>2. Cardinality(open) \in Nat
  BY <1>1, FS_CardinalityType
<1>3. /\ ids \in [1..Cardinality(open) -> open]
      /\ \A s \in open : \E i \in 1..Cardinality(open) : ids[i] = s
  BY DEF Listings, Bijection, Surjection
<1>4. open \subseteq Slots
  BY DEF ValueTypeOK
<1>5. ids \in Seq(Slots) /\ Len(ids) = Cardinality(open)
  BY <1>2, <1>3, <1>4
<1> QED
  BY <1>3, <1>5 DEF ValueTypeOK, Named

LEMMA BeginsSound ==
  ASSUME ValuationAssumption, ValueTypeOK, NEW ids \in Listings, NEW cache
  PROVE  /\ NewBuild(ids) \in Build
         /\ Sound(NewBuild(ids), cache, symbol, forgotten)
         /\ NewBuild(ids).pc # "none"
         /\ Listed(NewBuild(ids)) = open
<1>1. /\ ids \in Seq(Slots)
      /\ \A i \in 1..Len(ids) : Named(symbol, ids[i])
      /\ {ids[i] : i \in 1..Len(ids)} = open
  BY ListingIsWhole
<1>2. /\ NewBuild(ids).ids = ids /\ NewBuild(ids).at = 0 /\ NewBuild(ids).book = <<>>
      /\ NewBuild(ids).blind = forgotten
      /\ NewBuild(ids).pc = IF ids = <<>> THEN "done" ELSE "quote"
  BY DEF NewBuild
<1>3. NewBuild(ids) \in Build
  BY <1>1 DEF NewBuild, Build, ValueTypeOK
<1>4. ids # <<>> => 0 < Len(ids)
  BY <1>1
<1>5. ReadRight(NewBuild(ids), symbol) /\ NonePassedOver(NewBuild(ids))
  BY <1>1, <1>2 DEF ReadRight, NonePassedOver
<1> QED
  BY <1>1, <1>2, <1>3, <1>4, <1>5 DEF Sound, Listed

LEMMA BuildsKept ==
  ASSUME ValueInv, builds' = builds, lvc \subseteq lvc',
         forgotten' \in BOOLEAN, forgotten' => forgotten,
         \A s \in Slots : Named(symbol, s) => symbol'[s] = symbol[s]
  PROVE  AllSound'
<1>1. ASSUME NEW b \in Builders PROVE Sound(builds[b], lvc', symbol', forgotten')
  <2>1. builds[b] \in Build /\ forgotten \in BOOLEAN
    BY DEF ValueInv, ValueTypeOK, Build
  <2>2. Sound(builds[b], lvc, symbol, forgotten)
    BY DEF ValueInv, AllSound
  <2> QED
    BY <2>1, <2>2, StaysSound
<1> QED
  BY <1>1 DEF AllSound, Builders

LEMMA OneBuildChanges ==
  ASSUME ValueInv, NEW b \in Builders, NEW build \in Build,
         builds' = [builds EXCEPT ![b] = build],
         Sound(build, lvc, symbol, forgotten),
         lvc' = lvc, forgotten' = forgotten,
         \A s \in Slots : Named(symbol, s) => symbol'[s] = symbol[s]
  PROVE  /\ builds' \in [Builders -> Build]
         /\ builds'[b] = build
         /\ AllSound'
<1>1. builds \in [Builders -> Build] /\ forgotten \in BOOLEAN
  BY DEF ValueInv, ValueTypeOK, Build
<1>2. ASSUME NEW c \in Builders PROVE Sound(builds'[c], lvc', symbol', forgotten')
  <2>1. builds'[c] \in Build /\ Sound(builds'[c], lvc, symbol, forgotten)
    BY <1>1 DEF ValueInv, AllSound
  <2> QED
    BY <1>1, <2>1, StaysSound
<1> QED
  BY <1>1, <1>2 DEF AllSound, Builders

---------------------------------------------------------------------------
(* The invariant, action by action.                                        *)

LEMMA ValueInvInit == ASSUME ValuationAssumption PROVE ValueInit => ValueInv
<1> SUFFICES ASSUME ValueInit PROVE ValueInv
  OBVIOUS
<1>1. \A b \in Builders : builds[b] \in Build /\ Sound(builds[b], lvc, symbol, forgotten)
  BY NothingIsSound DEF ValueInit
<1>2. builds \in [Builders -> Build]
  BY <1>1 DEF ValueInit
<1>3. 0 \in 0..MaxRestarts /\ NoCall \in Calls
  BY DEF ValuationAssumption, Calls
<1>4. ValueTypeOK
  BY <1>2, <1>3 DEF ValueInit, ValueTypeOK, ValuationAssumption, Build
<1> QED
  BY <1>1, <1>4 DEF ValueInit, ValueInv, QuotedCanConvert, KnownIsQuoted, Named, CallSound,
     LockValues, ChargeSound, AllSound, NoCall, NoCharge

LEMMA WeekendKeeps == ASSUME ValueInv, WeekendComesOrGoes PROVE ValueInv'
<1> USE DEF WeekendComesOrGoes, rows, process, rollover
<1>1. AllSound'
  BY BuildsKept DEF ValueInv, ValueTypeOK
<1> QED
  BY <1>1 DEF ValueInv, ValueTypeOK, QuotedCanConvert, KnownIsQuoted, Named, CallSound,
     LockValues, ChargeSound, HasQuote

LEMMA FeedKeeps == ASSUME ValuationAssumption, ValueInv, FeedTicks PROVE ValueInv'
<1> USE DEF FeedTicks, rows, process, rollover
<1>1. lvc \subseteq lvc' /\ lvc' \subseteq Symbols
  BY DEF Ticking, ValuationAssumption, ValueInv, ValueTypeOK
<1>2. forgotten' \in BOOLEAN /\ (forgotten' => forgotten)
  BY DEF ValueInv, ValueTypeOK
<1>3. AllSound'
  BY <1>1, <1>2, BuildsKept
<1>4. ValueTypeOK'
  BY <1>1, <1>2 DEF ValueInv, ValueTypeOK
<1>5. QuotedCanConvert'
  <2>1. SUFFICES ASSUME NEW s \in Ticking
                 PROVE  \/ QuoteCurrency[s] = AccountCurrency
                        \/ XUSD[QuoteCurrency[s]] \in Ticking
                        \/ USDX[QuoteCurrency[s]] \in Ticking
    BY <2>1 DEF ValueInv, QuotedCanConvert
  <2> QED
    BY DEF Ticking, ValuationAssumption
<1>6. KnownIsQuoted'
  <2>1. CASE weekend
    BY <1>1, <2>1 DEF ValueInv, KnownIsQuoted, Named, HasQuote
  <2>2. CASE ~weekend
    <3>1. lvc' = Symbols
      BY <1>1, <2>2 DEF Ticking
    <3> QED
      BY <3>1 DEF ValueInv, ValueTypeOK, KnownIsQuoted, Named, HasQuote
  <2> QED
    BY <2>1, <2>2
<1> QED
  BY <1>1, <1>3, <1>4, <1>5, <1>6 DEF ValueInv, CallSound, LockValues, ChargeSound, Named, HasQuote

LEMMA RestartKeeps == ASSUME ValuationAssumption, ValueInv, Restart PROVE ValueInv'
<1> USE DEF Restart, rows
<1>1. \A b \in Builders : builds'[b] \in Build /\ Sound(builds'[b], lvc', symbol', forgotten')
  BY NothingIsSound
<1>2. lvc' \subseteq lvc /\ forgotten' \in BOOLEAN
  BY DEF ValueInv, ValueTypeOK
<1>3. ValueTypeOK'
  BY <1>1, <1>2 DEF ValueInv, ValueTypeOK, Build, Calls, ValuationAssumption
<1>4. QuotedCanConvert'
  BY DEF ValueInv, QuotedCanConvert
<1>5. KnownIsQuoted'
  BY DEF ValueInv, KnownIsQuoted, Named, HasQuote
<1> QED
  BY <1>1, <1>3, <1>4, <1>5 DEF ValueInv, CallSound, LockValues, ChargeSound, AllSound, Builders,
     NoCall, NoCharge

LEMMA BeginSnapshotKeeps ==
  ASSUME ValuationAssumption, ValueInv, NEW b \in Screens, BeginSnapshot(b)
  PROVE  ValueInv'
<1> USE DEF BeginSnapshot, market, rows, rollover
<1>1. PICK ids \in Listings : builds' = [builds EXCEPT ![b] = NewBuild(ids)]
  BY DEF BeginBuild
<1>2. b \in Builders /\ b # Lock /\ Lock \in Builders
  BY DEF Builders, ValuationAssumption
<1>3. NewBuild(ids) \in Build /\ Sound(NewBuild(ids), lvc, symbol, forgotten)
  BY BeginsSound DEF ValueInv
<1>4. builds' \in [Builders -> Build] /\ AllSound'
  BY <1>1, <1>2, <1>3, OneBuildChanges
<1>5. builds'[Lock] = builds[Lock]
  BY <1>1, <1>2 DEF ValueInv, ValueTypeOK
<1>6. ValueTypeOK'
  BY <1>4 DEF ValueInv, ValueTypeOK, Build
<1>7. LockValues'
  BY <1>5 DEF ValueInv, LockValues, Listed
<1>8. QuotedCanConvert' /\ KnownIsQuoted' /\ CallSound' /\ ChargeSound'
  BY DEF ValueInv, QuotedCanConvert, KnownIsQuoted, Named, CallSound, ChargeSound, HasQuote
<1> QED
  BY <1>4, <1>6, <1>7, <1>8 DEF ValueInv

LEMMA SnapshotSentKeeps ==
  ASSUME ValuationAssumption, ValueInv, NEW b \in Screens, SnapshotSent(b)
  PROVE  ValueInv'
<1> USE DEF SnapshotSent, market, rows, rollover
<1>1. b \in Builders /\ b # Lock /\ Lock \in Builders
  BY DEF Builders, ValuationAssumption
<1>2. NoBuild \in Build /\ Sound(NoBuild, lvc, symbol, forgotten)
  BY NothingIsSound
<1>3. builds' \in [Builders -> Build] /\ AllSound'
  BY <1>1, <1>2, OneBuildChanges
<1>4. builds'[Lock] = builds[Lock]
  BY <1>1 DEF ValueInv, ValueTypeOK
<1> QED
  BY <1>3, <1>4 DEF ValueInv, ValueTypeOK, Build, QuotedCanConvert, KnownIsQuoted, Named, CallSound,
     LockValues, Listed, ChargeSound, HasQuote

(* A position is passed over only in a valuation that is blind.            *)
LEMMA ReadQuoteKeeps ==
  ASSUME ValuationAssumption, ValueInv, NEW b \in Builders, ReadQuote(b)
  PROVE  ValueInv'
<1> USE DEF ReadQuote, market, rows, rollover
<1> DEFINE old == builds[b]
           new == IF HasQuote(symbol[Considered(old)]) THEN [old EXCEPT !.pc = "rate"]
                                                       ELSE NextPosition(old)
<1>1. old \in Build /\ Sound(old, lvc, symbol, forgotten) /\ old.pc = "quote"
  BY DEF ValueInv, AllSound, ValueTypeOK, Build
<1>2. builds' = [builds EXCEPT ![b] = new]
  OBVIOUS
<1>3. /\ old.at \in Nat /\ Len(old.ids) \in Nat /\ old.at < Len(old.ids)
      /\ old.at + 1 \in 1..Len(old.ids)
      /\ Considered(old) = old.ids[old.at + 1] /\ Named(symbol, Considered(old))
  <2> HIDE DEF old
  <2> QED
    BY <1>1, AtPosition
<1>4. new \in Build /\ new.pc # "none" /\ new.ids = old.ids
  <2> HIDE DEF old
  <2>1. [old EXCEPT !.pc = "rate"] \in Build
    BY <1>1 DEF Build
  <2> QED
    BY <1>1, <2>1, NextPositionIs DEF Build
<1>5. Sound(new, lvc, symbol, forgotten)
  <2>1. CASE HasQuote(symbol[Considered(old)])
    <3>1. /\ new.pc = "rate" /\ new.ids = old.ids /\ new.at = old.at
          /\ new.book = old.book /\ new.blind = old.blind
      BY <1>1, <2>1 DEF Build
    <3> QED
      BY <1>1, <1>3, <2>1, <3>1 DEF Sound, ReadRight, NonePassedOver, HasQuote
  <2>2. CASE ~HasQuote(symbol[Considered(old)])
    <3>1. /\ new.pc = IF old.at + 1 = Len(old.ids) THEN "done" ELSE "quote"
          /\ new.ids = old.ids /\ new.at = old.at + 1
          /\ new.book = old.book /\ new.blind = old.blind
      <4> HIDE DEF old
      <4> QED
        BY <1>1, <2>2, NextPositionIs
    <3>2. old.blind
      BY <1>1, <1>3, <2>2 DEF Sound, ValueInv, KnownIsQuoted, Named
    <3> QED
      <4> HIDE DEF old, new
      <4> QED
        BY <1>1, <1>3, <3>1, <3>2 DEF Sound, ReadRight, Build
  <2> QED
    BY <2>1, <2>2
<1>6. builds' \in [Builders -> Build] /\ builds'[b] = new /\ AllSound'
  <2> HIDE DEF new, old
  <2> QED
    BY <1>2, <1>4, <1>5, OneBuildChanges
<1>7. \/ /\ builds'[Lock].pc # "none"
         /\ Listed(builds'[Lock]) = Listed(builds[Lock])
      \/ builds'[Lock] = builds[Lock]
  BY <1>4, <1>6 DEF ValueInv, ValueTypeOK, Listed
<1> HIDE DEF new, old
<1> QED
  BY <1>6, <1>7 DEF ValueInv, ValueTypeOK, Build, QuotedCanConvert, KnownIsQuoted, Named, CallSound,
     LockValues, ChargeSound, HasQuote

LEMMA ReadRateKeeps ==
  ASSUME ValuationAssumption, ValueInv, NEW b \in Builders, ReadRate(b)
  PROVE  ValueInv'
<1> USE DEF ReadRate, market, rows, rollover
<1> DEFINE old  == builds[b]
           math == [slot |-> Considered(old), rate |-> RateOf(Considered(old))]
           grown == Valued(old)
           new  == NextPosition(grown)
<1>1. old \in Build /\ Sound(old, lvc, symbol, forgotten) /\ old.pc = "rate"
  BY DEF ValueInv, AllSound, ValueTypeOK, Build
<1>2. builds' = [builds EXCEPT ![b] = new]
  BY DEF ValueInv, ValueTypeOK
<1>3. /\ old.at \in Nat /\ Len(old.ids) \in Nat /\ old.at < Len(old.ids)
      /\ old.at + 1 \in 1..Len(old.ids)
      /\ Considered(old) = old.ids[old.at + 1] /\ Named(symbol, Considered(old))
      /\ symbol[Considered(old)] \in lvc
  <2> HIDE DEF old
  <2> QED
    BY <1>1, AtPosition DEF Sound
<1>4. math \in Math /\ Converted(symbol[math.slot], math.rate)
  BY <1>3, RateIsARate, QuotedConverts DEF Math, RateOf, Named, ValueInv
<1>5. /\ Append(old.book, math) \in Seq(Math)
      /\ Len(Append(old.book, math)) = Len(old.book) + 1
      /\ \A i \in 1..Len(old.book) : Append(old.book, math)[i] = old.book[i]
      /\ Append(old.book, math)[Len(old.book) + 1] = math
      /\ Len(old.book) \in Nat
  <2> HIDE DEF math
  <2> QED
    BY <1>1, <1>4 DEF Build
<1>6. /\ new.pc = IF old.at + 1 = Len(old.ids) THEN "done" ELSE "quote"
      /\ new.ids = old.ids /\ new.at = old.at + 1
      /\ new.book = Append(old.book, math) /\ new.blind = old.blind
      /\ new \in Build /\ new.pc # "none"
  <2> HIDE DEF math, old
  <2>1. /\ grown \in Build /\ grown.at = old.at /\ grown.ids = old.ids
        /\ grown.book = Append(old.book, math) /\ grown.blind = old.blind
    BY <1>1, <1>5 DEF Build, Valued, math
  <2> HIDE DEF grown
  <2> QED
    BY <2>1, NextPositionIs
<1>7. math.slot = old.ids[old.at + 1]
  BY <1>3
<1> HIDE DEF math, grown
<1>8. Sound(new, lvc, symbol, forgotten)
  <2> HIDE DEF new, old
  <2>1. ReadRight(new, symbol)
    <3>1. \A i \in 1..Len(new.ids) : Named(symbol, new.ids[i])
      BY <1>1, <1>6 DEF Sound, ReadRight
    <3>2. ASSUME NEW i \in 1..Len(new.book)
          PROVE  /\ Named(symbol, new.book[i].slot)
                 /\ Converted(symbol[new.book[i].slot], new.book[i].rate)
      <4>1. CASE i \in 1..Len(old.book)
        BY <1>1, <1>5, <1>6, <4>1 DEF Sound, ReadRight
      <4>2. CASE i = Len(old.book) + 1
        BY <1>3, <1>4, <1>5, <1>6, <1>7, <4>2
      <4> QED
        BY <1>5, <1>6, <4>1, <4>2
    <3> QED
      BY <3>1, <3>2 DEF ReadRight
  <2>2. ~new.blind => NonePassedOver(new)
    <3>1. SUFFICES ASSUME ~old.blind PROVE NonePassedOver(new)
      BY <1>6
    <3>2. Len(old.book) = old.at /\ \A i \in 1..old.at : old.book[i].slot = old.ids[i]
      BY <1>1, <3>1 DEF Sound, NonePassedOver
    <3>3. ASSUME NEW i \in 1..(old.at + 1) PROVE new.book[i].slot = old.ids[i]
      <4>1. CASE i \in 1..old.at
        BY <1>5, <1>6, <3>2, <4>1
      <4>2. CASE i = old.at + 1
        BY <1>5, <1>6, <1>7, <3>2, <4>2
      <4> QED
        BY <1>3, <4>1, <4>2
    <3> QED
      BY <1>3, <1>5, <1>6, <3>2, <3>3 DEF NonePassedOver
  <2> QED
    BY <1>1, <1>3, <1>6, <2>1, <2>2 DEF Sound
<1>9. builds' \in [Builders -> Build] /\ builds'[b] = new /\ AllSound'
  <2> HIDE DEF new, old
  <2> QED
    BY <1>2, <1>6, <1>8, OneBuildChanges
<1>10. \/ /\ builds'[Lock].pc # "none"
          /\ Listed(builds'[Lock]) = Listed(builds[Lock])
       \/ builds'[Lock] = builds[Lock]
  <2> HIDE DEF new
  <2>1. builds[b].ids = new.ids
    BY <1>6
  <2> QED
    BY <1>2, <1>6, <1>9, <2>1 DEF ValueInv, ValueTypeOK, Listed
<1> HIDE DEF new, old
<1> QED
  BY <1>9, <1>10 DEF ValueInv, ValueTypeOK, Build, QuotedCanConvert, KnownIsQuoted, Named, CallSound,
     LockValues, ChargeSound, HasQuote

LEMMA PlaceOrderKeeps ==
  ASSUME ValuationAssumption, ValueInv, NEW s \in Symbols, PlaceOrder(s)
  PROVE  ValueInv'
<1> USE DEF PlaceOrder, market, rows, rollover
<1>1. AllSound'
  BY BuildsKept DEF ValueInv, ValueTypeOK
<1>2. call' \in Calls /\ call'.pc = "order" /\ call'.symbol \in lvc
  BY DEF Calls, HasQuote
<1> QED
  BY <1>1, <1>2 DEF ValueInv, ValueTypeOK, Calls, QuotedCanConvert, KnownIsQuoted, Named,
     CallSound, LockValues, ChargeSound, HasQuote

LEMMA StartCloseKeeps ==
  ASSUME ValuationAssumption, ValueInv, NEW s \in Slots, StartClose(s)
  PROVE  ValueInv'
<1> USE DEF StartClose, market, rows, rollover
<1>1. AllSound'
  BY BuildsKept DEF ValueInv, ValueTypeOK
<1>2. call' \in Calls /\ call'.pc = "closes" /\ call'.todo = {s} /\ Named(symbol, s)
  BY DEF Calls, ValueInv, ValueTypeOK, Named
<1> QED
  BY <1>1, <1>2 DEF ValueInv, ValueTypeOK, Calls, QuotedCanConvert, KnownIsQuoted, Named,
     CallSound, LockValues, ChargeSound, HasQuote

LEMMA CloseNextKeeps ==
  ASSUME ValuationAssumption, ValueInv, NEW s \in Slots, CloseNext(s)
  PROVE  ValueInv'
<1> USE DEF CloseNext, market, rows, rollover
<1>1. AllSound'
  BY BuildsKept DEF ValueInv, ValueTypeOK
<1>2. call.todo \subseteq Slots /\ \A q \in call.todo : Named(symbol, q)
  BY DEF ValueInv, ValueTypeOK, Calls, CallSound, NoCall
<1>3. CASE HasQuote(symbol[s])
  <2>1. /\ call' \in Calls /\ call'.pc = "convert" /\ call'.slot = s
        /\ call'.todo = call.todo \ {s}
    BY <1>2, <1>3 DEF Calls
  <2> QED
    BY <1>1, <1>2, <1>3, <2>1 DEF ValueInv, ValueTypeOK, Calls, QuotedCanConvert, KnownIsQuoted, Named,
       CallSound, LockValues, ChargeSound, HasQuote
<1>4. CASE ~HasQuote(symbol[s])
  <2>1. call' \in Calls /\ call'.pc = "closes" /\ call'.todo = call.todo \ {s}
    BY <1>2, <1>4 DEF Calls, ValueInv, ValueTypeOK, NoCall
  <2> QED
    BY <1>1, <1>2, <2>1 DEF ValueInv, ValueTypeOK, Calls, QuotedCanConvert, KnownIsQuoted, Named,
       CallSound, LockValues, ChargeSound, HasQuote
<1> QED
  BY <1>3, <1>4

LEMMA ConvertCloseKeeps ==
  ASSUME ValuationAssumption, ValueInv, ConvertClose
  PROVE  ValueInv'
<1> USE DEF ConvertClose, market, rows, rollover
<1>1. AllSound'
  BY BuildsKept DEF ValueInv, ValueTypeOK
<1>2. /\ call.slot \in Slots /\ call.todo \subseteq Slots
      /\ HasQuote(symbol[call.slot]) /\ \A q \in call.todo : Named(symbol, q)
  BY DEF ValueInv, ValueTypeOK, Calls, CallSound, NoCall
<1>3. Named(symbol, call.slot)
  BY <1>2 DEF Named, HasQuote, ValueInv, ValueTypeOK, ValuationAssumption
<1>4. RateOf(call.slot) \in Rates /\ Converted(symbol[call.slot], RateOf(call.slot))
  BY <1>2, RateIsARate, QuotedConverts DEF RateOf, HasQuote, ValueInv
<1>5. /\ call' \in Calls /\ call'.pc = "settle" /\ call'.slot = call.slot
      /\ call'.rate = RateOf(call.slot) /\ call'.todo = call.todo
  BY <1>2, <1>4 DEF Calls
<1> QED
  BY <1>1, <1>2, <1>3, <1>4, <1>5 DEF ValueInv, ValueTypeOK, Calls, QuotedCanConvert, KnownIsQuoted, Named,
     CallSound, LockValues, ChargeSound, HasQuote

LEMMA SettleCloseKeeps ==
  ASSUME ValuationAssumption, ValueInv, SettleClose
  PROVE  ValueInv'
<1> USE DEF SettleClose, market, rows, rollover
<1>1. AllSound'
  BY BuildsKept DEF ValueInv, ValueTypeOK
<1>2. call.todo \subseteq Slots /\ \A q \in call.todo : Named(symbol, q)
  BY DEF ValueInv, ValueTypeOK, Calls, CallSound, NoCall
<1>3. call' \in Calls /\ call'.pc = "closes" /\ call'.todo = call.todo
  BY <1>2 DEF Calls
<1> QED
  BY <1>1, <1>2, <1>3 DEF ValueInv, ValueTypeOK, Calls, QuotedCanConvert, KnownIsQuoted, Named,
     CallSound, LockValues, ChargeSound, HasQuote

LEMMA ClosesOverKeeps ==
  ASSUME ValuationAssumption, ValueInv, ClosesOver
  PROVE  ValueInv'
<1> USE DEF ClosesOver, NoCall, market, rows, rollover
<1>1. AllSound'
  BY BuildsKept DEF ValueInv, ValueTypeOK
<1> QED
  BY <1>1 DEF ValueInv, ValueTypeOK, Calls, QuotedCanConvert, KnownIsQuoted, Named,
     CallSound, LockValues, ChargeSound, HasQuote

LEMMA StartRollKeeps ==
  ASSUME ValuationAssumption, ValueInv, StartRoll
  PROVE  ValueInv'
<1> USE DEF StartRoll, market, rows, rollover
<1>1. AllSound'
  BY BuildsKept DEF ValueInv, ValueTypeOK
<1> QED
  BY <1>1 DEF ValueInv, ValueTypeOK, Calls, QuotedCanConvert, KnownIsQuoted, Named,
     CallSound, LockValues, ChargeSound, HasQuote

LEMMA ConvertSwapKeeps ==
  ASSUME ValuationAssumption, ValueInv, NEW s \in Slots, ConvertSwap(s)
  PROVE  ValueInv'
<1> USE DEF ConvertSwap, market, rows, rollover
<1>1. AllSound'
  BY BuildsKept DEF ValueInv, ValueTypeOK
<1>2. Named(symbol, s)
  BY DEF ValueInv, ValueTypeOK, Named
<1>3. RateOf(s) \in Rates
  BY RateIsARate DEF RateOf
<1>4. ~forgotten => Converted(symbol[s], RateOf(s))
  BY <1>2, QuotedConverts DEF ValueInv, KnownIsQuoted, RateOf, HasQuote
<1>5. /\ charge'.slot = s /\ charge'.rate = RateOf(s) /\ charge'.blind = forgotten
      /\ charge' \in [pc : {"write"}, slot : Slots, rate : Rates, blind : BOOLEAN]
  BY <1>3 DEF ValueInv, ValueTypeOK
<1> QED
  BY <1>1, <1>2, <1>4, <1>5 DEF ValueInv, ValueTypeOK, Calls, QuotedCanConvert, KnownIsQuoted, Named,
     CallSound, LockValues, ChargeSound, HasQuote

LEMMA ApplySwapKeeps ==
  ASSUME ValuationAssumption, ValueInv, ApplySwap
  PROVE  ValueInv'
<1> USE DEF ApplySwap, market, rows, rollover
<1>1. AllSound'
  BY BuildsKept DEF ValueInv, ValueTypeOK
<1> QED
  BY <1>1 DEF ValueInv, ValueTypeOK, Calls, QuotedCanConvert, KnownIsQuoted, Named,
     CallSound, LockValues, ChargeSound, HasQuote

(* A call that ends takes its valuation with it.                           *)
LEMMA LockBuildEnds ==
  ASSUME ValuationAssumption, ValueInv, builds' = [builds EXCEPT ![Lock] = NoBuild],
         UNCHANGED market,
         \A s \in Slots : Named(symbol, s) => symbol'[s] = symbol[s]
  PROVE  builds' \in [Builders -> Build] /\ AllSound'
<1>1. Lock \in Builders
  BY DEF Builders
<1> QED
  BY <1>1, NothingIsSound, OneBuildChanges DEF market

LEMMA LockBuildBegins ==
  ASSUME ValuationAssumption, ValueInv, BeginBuild(Lock), UNCHANGED <<market, rows>>
  PROVE  /\ builds' \in [Builders -> Build] /\ AllSound'
         /\ builds'[Lock].pc # "none" /\ Listed(builds'[Lock]) = open
<1>1. PICK ids \in Listings : builds' = [builds EXCEPT ![Lock] = NewBuild(ids)]
  BY DEF BeginBuild
<1>2. Lock \in Builders
  BY DEF Builders
<1>3. /\ NewBuild(ids) \in Build /\ Sound(NewBuild(ids), lvc, symbol, forgotten)
      /\ NewBuild(ids).pc # "none" /\ Listed(NewBuild(ids)) = open
  BY BeginsSound DEF ValueInv
<1>4. builds' \in [Builders -> Build] /\ builds'[Lock] = NewBuild(ids) /\ AllSound'
  BY <1>1, <1>2, <1>3, OneBuildChanges DEF market, rows
<1> QED
  BY <1>3, <1>4 DEF rows

LEMMA ConvertOrderKeeps ==
  ASSUME ValuationAssumption, ValueInv, ConvertOrder
  PROVE  ValueInv'
<1> USE DEF ConvertOrder, market, rows, rollover
<1>1. /\ builds' \in [Builders -> Build] /\ AllSound'
      /\ builds'[Lock].pc # "none" /\ Listed(builds'[Lock]) = open
  BY LockBuildBegins
<1>2. call.symbol \in Symbols /\ HasQuote(call.symbol)
  BY DEF ValueInv, ValueTypeOK, Calls, CallSound, NoCall
<1>3. /\ GetConvRate(QuoteCurrency[call.symbol]) \in Rates
      /\ Converted(call.symbol, GetConvRate(QuoteCurrency[call.symbol]))
  BY <1>2, RateIsARate, QuotedConverts DEF HasQuote, ValueInv
<1>4. /\ call' \in Calls /\ call'.pc = "margin" /\ call'.symbol = call.symbol
      /\ call'.rate = GetConvRate(QuoteCurrency[call.symbol])
  BY <1>2, <1>3 DEF Calls
<1> QED
  BY <1>1, <1>2, <1>3, <1>4 DEF ValueInv, ValueTypeOK, Build, QuotedCanConvert, KnownIsQuoted, Named,
     CallSound, LockValues, ChargeSound, HasQuote

(* An order is stored for an instrument with a quote.                      *)
LEMMA StoreOrderKeeps ==
  ASSUME ValuationAssumption, ValueInv, NEW s \in Slots, StoreOrder(s)
  PROVE  ValueInv'
<1> USE DEF StoreOrder, KeepRow, market, rollover
<1>1. call.symbol \in Symbols /\ HasQuote(call.symbol)
  BY DEF ValueInv, ValueTypeOK, Calls, CallSound, NoCall
<1>2. /\ symbol'[s] = call.symbol
      /\ \A q \in Slots : Named(symbol, q) => symbol'[q] = symbol[q]
      /\ \A q \in Slots : q # s => symbol'[q] = symbol[q]
  BY DEF ValueInv, ValueTypeOK, Named
<1>3. AllSound'
  BY <1>2, BuildsKept DEF ValueInv, ValueTypeOK
<1>4. ValueTypeOK'
  BY <1>1, <1>2 DEF ValueInv, ValueTypeOK, Calls, ValuationAssumption
<1>5. KnownIsQuoted'
  BY <1>1, <1>2 DEF ValueInv, KnownIsQuoted, Named, HasQuote
<1> QED
  BY <1>2, <1>3, <1>4, <1>5 DEF ValueInv, NoCall, QuotedCanConvert, Named, CallSound, LockValues,
     ChargeSound, HasQuote

LEMMA BeginStopOutKeeps ==
  ASSUME ValuationAssumption, ValueInv, BeginStopOut
  PROVE  ValueInv'
<1> USE DEF BeginStopOut, market, rows, rollover
<1>1. /\ builds' \in [Builders -> Build] /\ AllSound'
      /\ builds'[Lock].pc # "none" /\ Listed(builds'[Lock]) = open
  BY LockBuildBegins
<1>2. call' \in Calls /\ call'.pc = "stopout"
  BY DEF Calls
<1> QED
  BY <1>1, <1>2 DEF ValueInv, ValueTypeOK, Build, QuotedCanConvert, KnownIsQuoted, Named,
     CallSound, LockValues, ChargeSound, HasQuote

LEMMA RefuseOrderKeeps ==
  ASSUME ValuationAssumption, ValueInv, RefuseOrder
  PROVE  ValueInv'
<1> USE DEF RefuseOrder, market, rows, rollover
<1>1. builds' \in [Builders -> Build] /\ AllSound'
  BY LockBuildEnds
<1> QED
  BY <1>1 DEF ValueInv, ValueTypeOK, Build, Calls, NoCall, QuotedCanConvert, KnownIsQuoted, Named,
     CallSound, LockValues, ChargeSound, HasQuote

LEMMA PlanStopOutKeeps ==
  ASSUME ValuationAssumption, ValueInv, PlanStopOut
  PROVE  ValueInv'
<1> USE DEF PlanStopOut, market, rows, rollover
<1>1. builds' \in [Builders -> Build] /\ AllSound'
  BY LockBuildEnds
<1>2. PICK plan \in SUBSET Counted(builds[Lock]) : call' = [pc |-> "closes", todo |-> plan]
  OBVIOUS
<1>3. \A s \in Counted(builds[Lock]) : Named(symbol, s)
  <2>1. builds[Lock] \in Build /\ Sound(builds[Lock], lvc, symbol, forgotten)
    BY DEF ValueInv, ValueTypeOK, AllSound, Build, Builders
  <2> QED
    BY <2>1 DEF Counted, Sound, ReadRight, Build
<1>4. call' \in Calls /\ call'.pc = "closes" /\ call'.todo = plan
  BY <1>2, <1>3 DEF Calls, Named
<1> QED
  BY <1>1, <1>2, <1>3, <1>4 DEF ValueInv, ValueTypeOK, Build, QuotedCanConvert, KnownIsQuoted, Named,
     CallSound, LockValues, ChargeSound, HasQuote

(* A new position is in an instrument with a quote.                        *)
LEMMA OpenPositionKeeps ==
  ASSUME ValuationAssumption, ValueInv, NEW s \in Slots, OpenPosition(s)
  PROVE  ValueInv'
<1> USE DEF OpenPosition, KeepRow, market, rollover
<1>1. call.symbol \in Symbols /\ HasQuote(call.symbol)
  BY DEF ValueInv, ValueTypeOK, Calls, CallSound, NoCall
<1>2. /\ symbol'[s] = call.symbol
      /\ \A q \in Slots : Named(symbol, q) => symbol'[q] = symbol[q]
      /\ \A q \in Slots : q # s => symbol'[q] = symbol[q]
  BY DEF ValueInv, ValueTypeOK, Named
<1>3. builds' \in [Builders -> Build] /\ AllSound'
  BY <1>2, LockBuildEnds
<1>4. ValueTypeOK'
  BY <1>1, <1>2, <1>3 DEF ValueInv, ValueTypeOK, Build, Calls, ValuationAssumption
<1>5. KnownIsQuoted'
  BY <1>1, <1>2 DEF ValueInv, KnownIsQuoted, Named, HasQuote
<1> QED
  BY <1>2, <1>3, <1>4, <1>5 DEF ValueInv, NoCall, QuotedCanConvert, Named, CallSound, LockValues,
     ChargeSound, HasQuote

LEMMA FillFromOrderKeeps ==
  ASSUME ValuationAssumption, ValueInv, NEW s \in Slots, FillFromOrder(s)
  PROVE  ValueInv'
<1> USE DEF FillFromOrder, market, process, rollover
<1>1. AllSound'
  BY BuildsKept DEF ValueInv, ValueTypeOK
<1>2. ValueTypeOK'
  BY DEF ValueInv, ValueTypeOK
<1> QED
  BY <1>1, <1>2 DEF ValueInv, QuotedCanConvert, KnownIsQuoted, Named, CallSound, LockValues,
     ChargeSound, HasQuote

(* The engine's steps that move nothing but itself.                        *)
LEMMA TickKeeps ==
  ASSUME ValuationAssumption, ValueInv, TickStarts \/ TickEnds
  PROVE  ValueInv'
<1>1. /\ tick' \in {"evaluate", "roll", "idle"}
      /\ UNCHANGED <<market, rows, call, builds, rollover, restarts>>
  BY DEF TickStarts, TickEnds
<1> USE DEF market, rows, rollover
<1>2. AllSound'
  BY <1>1, BuildsKept DEF ValueInv, ValueTypeOK
<1> QED
  BY <1>1, <1>2 DEF ValueInv, ValueTypeOK, Calls, QuotedCanConvert, KnownIsQuoted, Named,
     CallSound, LockValues, ChargeSound, HasQuote

LEMMA BeginEvaluationKeeps ==
  ASSUME ValuationAssumption, ValueInv, BeginEvaluation
  PROVE  ValueInv'
<1> USE DEF BeginEvaluation, market, rows, rollover
<1>1. AllSound'
  BY BuildsKept DEF ValueInv, ValueTypeOK
<1>2. call' \in Calls /\ call'.pc = "triggers"
  BY DEF Calls
<1> QED
  BY <1>1, <1>2 DEF ValueInv, ValueTypeOK, QuotedCanConvert, KnownIsQuoted, Named,
     CallSound, LockValues, ChargeSound, HasQuote

LEMMA CheckStopsKeeps ==
  ASSUME ValuationAssumption, ValueInv, CheckStops
  PROVE  ValueInv'
<1> USE DEF CheckStops, market, rows, rollover
<1>1. AllSound'
  BY BuildsKept DEF ValueInv, ValueTypeOK
<1>2. PICK hit \in SUBSET open : call' = [pc |-> "closes", todo |-> hit]
  OBVIOUS
<1>3. /\ call' \in Calls /\ call'.pc = "closes" /\ call'.todo = hit
      /\ \A s \in hit : Named(symbol, s)
  BY <1>2 DEF Calls, ValueInv, ValueTypeOK, Named
<1> QED
  BY <1>1, <1>3 DEF ValueInv, ValueTypeOK, QuotedCanConvert, KnownIsQuoted, Named,
     CallSound, LockValues, ChargeSound, HasQuote

LEMMA ValueInvNext == ASSUME ValuationAssumption, ValueInv, [ValueNext]_valueVars PROVE ValueInv'
<1>1. CASE BuildStep
  BY <1>1, ReadQuoteKeeps, ReadRateKeeps, BeginSnapshotKeeps, SnapshotSentKeeps DEF BuildStep
<1>2. CASE LockStep
  BY <1>2, PlaceOrderKeeps, ConvertOrderKeeps, StoreOrderKeeps, OpenPositionKeeps, RefuseOrderKeeps,
     StartCloseKeeps, CloseNextKeeps, ConvertCloseKeeps, SettleCloseKeeps, ClosesOverKeeps DEF LockStep
<1>3. CASE WeekendComesOrGoes \/ FeedTicks \/ Restart
  BY <1>3, WeekendKeeps, FeedKeeps, RestartKeeps
<1>4. CASE EngineStep
  BY <1>4, TickKeeps, BeginEvaluationKeeps, FillFromOrderKeeps, CheckStopsKeeps, BeginStopOutKeeps,
     PlanStopOutKeeps, StartRollKeeps, ConvertSwapKeeps, ApplySwapKeeps DEF EngineStep
<1>5. CASE UNCHANGED valueVars
  BY <1>5 DEF valueVars, ValueInv, ValueTypeOK, QuotedCanConvert, KnownIsQuoted, CallSound,
     LockValues, ChargeSound, AllSound, HasQuote
<1> QED
  BY <1>1, <1>2, <1>3, <1>4, <1>5 DEF ValueNext

LEMMA ValueInvHolds == ValueSpec => []ValueInv
<1> USE ValuationAssumption
<1>1. ValueInit => ValueInv
  BY ValueInvInit
<1>2. ValueInv /\ [ValueNext]_valueVars => ValueInv'
  BY ValueInvNext
<1> QED
  BY <1>1, <1>2, PTL DEF ValueSpec

(* The types of cache, positions, calls, valuations and rollover, for any  *)
(* set of instruments and positions (Valuation).                           *)
THEOREM ValuesAreTyped == ValueSpec => []ValueTypeOK
<1>1. ValueInv => ValueTypeOK
  BY DEF ValueInv
<1> QED
  BY <1>1, ValueInvHolds, PTL

(* Whatever instruments there are and whenever the process restarts, with  *)
(* either cache: a valuation, an order and a close convert at a rate that  *)
(* the market has quoted (getConvRate after getQuote), and so does a swap  *)
(* unless quotes were lost and the markets closed (applySwaps).            *)
THEOREM QuotedConvertsAlways == ValueSpec => []QuotedIsConverted
<1>1. ValueInv => QuotedIsConverted
  <2>1. SUFFICES ASSUME ValueInv PROVE QuotedIsConverted
    OBVIOUS
  <2>2. ASSUME NEW b \in Builders, NEW i \in DOMAIN builds[b].book
        PROVE  Converted(symbol[builds[b].book[i].slot], builds[b].book[i].rate)
    <3>1. builds[b] \in Build /\ Sound(builds[b], lvc, symbol, forgotten)
      BY <2>1 DEF ValueInv, ValueTypeOK, AllSound, Build
    <3>2. i \in 1..Len(builds[b].book)
      BY <3>1 DEF Build
    <3> QED
      BY <3>1, <3>2 DEF Sound, ReadRight
  <2> QED
    BY <2>1, <2>2 DEF QuotedIsConverted, ValueInv, CallSound, ChargeSound
<1> QED
  BY <1>1, ValueInvHolds, PTL

(* A valuation that is over and was not blind has each listed position.    *)
LEMMA NotBlindIsWhole ==
  ASSUME NEW build \in Build, NEW cache, NEW names, NEW lost,
         Sound(build, cache, names, lost), build.pc = "done", ~build.blind
  PROVE  /\ Counted(build) = Listed(build)
         /\ \A i \in DOMAIN build.ids : build.ids[i] \in Counted(build)
<1>1. /\ Len(build.book) = Len(build.ids)
      /\ \A i \in 1..Len(build.ids) : build.book[i].slot = build.ids[i]
      /\ DOMAIN build.book = 1..Len(build.book) /\ DOMAIN build.ids = 1..Len(build.ids)
  BY DEF Sound, NonePassedOver, Build
<1> QED
  BY <1>1 DEF Counted, Listed

(* For any number of positions, instruments and restarts a margin check    *)
(* and a stop-out count each open position, and each row of a snapshot is  *)
(* its own, though quotes, closes of the markets and snapshots come        *)
(* between the reads of positionMath, unless they began after quotes were  *)
(* lost and before the markets opened (positionMath, buildSnapshot).       *)
THEOREM NoPositionIsLeftOut == ValueSpec => []EveryPositionCounts
<1>1. ASSUME ValuationAssumption, ValueInv PROVE EveryPositionCounts
  <2>1. ASSUME NEW b \in Builders
        PROVE  builds[b] \in Build /\ Sound(builds[b], lvc, symbol, forgotten)
    BY <1>1 DEF ValueInv, ValueTypeOK, AllSound, Build
  <2>2. call.pc \in {"margin", "stopout"} /\ builds[Lock].pc = "done" /\ ~builds[Lock].blind
           => Counted(builds[Lock]) = open
    BY <1>1, <2>1, NotBlindIsWhole DEF ValueInv, LockValues, Builders
  <2>3. ASSUME NEW b \in Builders, builds[b].pc = "done", ~builds[b].blind,
               NEW i \in DOMAIN builds[b].ids
        PROVE  ShownInRow(builds[b], i) = {builds[b].ids[i]}
    <3>1. builds[b].ids[i] \in Counted(builds[b])
      BY <2>1, <2>3, NotBlindIsWhole
    <3> QED
      BY <3>1 DEF ShownInRow
  <2> QED
    BY <2>2, <2>3 DEF EveryPositionCounts
<1>2. ValueInv => EveryPositionCounts
  BY <1>1, ValuationAssumption
<1> QED
  BY <1>2, ValueInvHolds, PTL
============================================================================
