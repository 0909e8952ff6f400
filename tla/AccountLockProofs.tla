------------------------- MODULE AccountLockProofs -------------------------
(***************************************************************************)
(* Proofs about AccountLock.  The chain of promises is the line of calls   *)
(* read backwards: a call waits for the call before it (ChainInv), the map *)
(* holds the last one (LastInv), and a resolved promise says that every    *)
(* call up to it is over (SettledInv).                                     *)
(***************************************************************************)
EXTENDS AccountLock, TLAPS

(* A call stands in one place of one line, once it has arrived.            *)
LineInv ==
    /\ \A a \in Accounts : \A i \in DOMAIN line[a] : pc[line[a][i]] # "new"
    /\ \A a, b \in Accounts : \A i \in DOMAIN line[a], j \in DOMAIN line[b] :
         line[a][i] = line[b][j] => a = b /\ i = j

(* The map holds the promise of the last call of the line.                 *)
LastInv ==
    \A a \in Accounts :
      locks[a] = IF Len(line[a]) = 0 THEN Resolved ELSE line[a][Len(line[a])]

(* A call waits for the one before it.                                     *)
ChainInv ==
    \A a \in Accounts : \A i \in DOMAIN line[a] :
      prev[line[a][i]] = IF i = 1 THEN Resolved ELSE line[a][i - 1]

(* A resolved promise says that every call up to it is over.               *)
SettledInv ==
    /\ \A c \in settled : pc[c] = "done"
    /\ \A a \in Accounts : \A i, j \in DOMAIN line[a] :
         i <= j /\ line[a][j] \in settled => pc[line[a][i]] = "done"

IInv ==
    /\ LockTypeOK
    /\ LineInv
    /\ LastInv
    /\ ChainInv
    /\ SettledInv
    /\ FirstComeFirstServed

---------------------------------------------------------------------------
(* No call has arrived at first.                                           *)
LEMMA InitInv == LockInit => IInv
  BY LockAssumption
     DEF LockInit, IInv, LockTypeOK, LineInv, LastInv, ChainInv, SettledInv, FirstComeFirstServed

(* Calls in a line are calls.                                              *)
LEMMA InLine ==
    ASSUME LockTypeOK, NEW a \in Accounts
    PROVE  /\ Len(line[a]) \in Nat
           /\ DOMAIN line[a] = 1..Len(line[a])
           /\ \A i \in DOMAIN line[a] : line[a][i] \in Calls
  BY DEF LockTypeOK

(* Arriving lengthens the line of one account by the new call.             *)
LEMMA ArriveKeeps ==
    ASSUME IInv, NEW c \in Calls, NEW a \in Accounts, Arrive(c, a)
    PROVE  IInv'
  <1> DEFINE n == Len(line[a])
  <1>1. /\ pc[c] = "new"
        /\ prev' = [prev EXCEPT ![c] = locks[a]]
        /\ locks' = [locks EXCEPT ![a] = c]
        /\ pc' = [pc EXCEPT ![c] = "waiting"]
        /\ line' = [line EXCEPT ![a] = Append(line[a], c)]
        /\ settled' = settled
    BY DEF Arrive
  <1>2. /\ n \in Nat
        /\ DOMAIN line[a] = 1..n
        /\ line'[a] = Append(line[a], c)
        /\ DOMAIN line'[a] = 1..(n + 1)
        /\ Len(line'[a]) = n + 1
        /\ line'[a][n + 1] = c
        /\ \A i \in 1..n : line'[a][i] = line[a][i]
        /\ \A b \in Accounts \ {a} : line'[b] = line[b]
    BY <1>1 DEF IInv, LockTypeOK
  <1>3. LockTypeOK'
    BY <1>1 DEF IInv, LockTypeOK
  <1>4. \A b \in Accounts : \A i \in DOMAIN line[b] : line[b][i] \in Calls \ {c}
    BY <1>1, InLine DEF IInv, LineInv
  <1>5. LineInv'
    <2>1. \A b \in Accounts : \A i \in DOMAIN line'[b] :
             \/ b = a /\ i = n + 1 /\ line'[b][i] = c
             \/ i \in DOMAIN line[b] /\ line'[b][i] = line[b][i]
      BY <1>2
    <2>2. \A b \in Accounts : \A i \in DOMAIN line[b] : pc'[line[b][i]] = pc[line[b][i]]
      BY <1>1, <1>4 DEF IInv, LockTypeOK
    <2>3. pc'[c] = "waiting"
      BY <1>1 DEF IInv, LockTypeOK
    <2>4. \A b \in Accounts : \A i \in DOMAIN line'[b] : pc'[line'[b][i]] # "new"
      BY <2>1, <2>2, <2>3 DEF IInv, LineInv
    <2>5. \A b, d \in Accounts : \A i \in DOMAIN line'[b], j \in DOMAIN line'[d] :
             line'[b][i] = line'[d][j] => b = d /\ i = j
      BY <2>1, <1>4 DEF IInv, LineInv
    <2>6. QED
      BY <2>4, <2>5 DEF LineInv
  <1>6. LastInv'
    BY <1>1, <1>2 DEF IInv, LockTypeOK, LastInv
  <1>7. ChainInv'
    <2> SUFFICES ASSUME NEW b \in Accounts, NEW i \in DOMAIN line'[b]
                 PROVE  prev'[line'[b][i]] = IF i = 1 THEN Resolved ELSE line'[b][i - 1]
      BY DEF ChainInv
    <2>1. CASE b = a /\ i = n + 1
      <3>1. prev'[c] = locks[a]
        BY <1>1 DEF IInv, LockTypeOK
      <3>2. locks[a] = IF n = 0 THEN Resolved ELSE line[a][n]
        BY DEF IInv, LastInv
      <3>3. QED
        BY <1>2, <2>1, <3>1, <3>2
    <2>2. CASE ~(b = a /\ i = n + 1)
      <3>1. i \in DOMAIN line[b] /\ line'[b][i] = line[b][i]
        BY <1>2, <2>2
      <3>2. prev'[line[b][i]] = prev[line[b][i]]
        BY <1>1, <1>4, <3>1 DEF IInv, LockTypeOK
      <3>3. i # 1 => i - 1 \in DOMAIN line[b] /\ line'[b][i - 1] = line[b][i - 1]
        BY <1>2, <3>1, InLine DEF IInv
      <3>4. QED
        BY <3>1, <3>2, <3>3 DEF IInv, ChainInv
    <2>3. QED
      BY <2>1, <2>2
  <1>8. \A b \in Accounts : \A i \in DOMAIN line[b] : pc'[line[b][i]] = pc[line[b][i]]
    BY <1>1, <1>4 DEF IInv, LockTypeOK
  <1>9. c \notin settled
    BY <1>1 DEF IInv, SettledInv
  <1>10. SettledInv'
    BY <1>1, <1>2, <1>4, <1>8, <1>9, InLine DEF IInv, LockTypeOK, SettledInv
  <1>11. FirstComeFirstServed'
    BY <1>1, <1>2, <1>4, <1>8, InLine DEF IInv, LockTypeOK, FirstComeFirstServed
  <1>12. QED
    BY <1>3, <1>5, <1>6, <1>7, <1>10, <1>11 DEF IInv

(* What a settled previous promise tells a call of the line: every call    *)
(* before it is over.                                                      *)
LEMMA BeforeIsOver ==
    ASSUME IInv, NEW a \in Accounts, NEW j \in DOMAIN line[a],
           IsSettled(prev[line[a][j]]), NEW i \in DOMAIN line[a], i < j
    PROVE  pc[line[a][i]] = "done"
  <1>1. /\ j \in Nat /\ i \in Nat /\ j # 1
        /\ j - 1 \in DOMAIN line[a]
        /\ line[a][j - 1] \in Calls
    BY InLine DEF IInv
  <1>2. prev[line[a][j]] = line[a][j - 1]
    BY <1>1 DEF IInv, ChainInv
  <1>3. line[a][j - 1] \in settled
    BY <1>1, <1>2, LockAssumption DEF IsSettled
  <1>4. QED
    BY <1>1, <1>3 DEF IInv, SettledInv

(* Starting the body keeps the invariant: the calls before are over.       *)
LEMMA EnterKeeps ==
    ASSUME IInv, NEW c \in Calls, Enter(c)
    PROVE  IInv'
  <1>1. /\ pc[c] = "waiting"
        /\ IsSettled(prev[c])
        /\ pc' = [pc EXCEPT ![c] = "running"]
        /\ UNCHANGED <<locks, prev, settled, line>>
    BY DEF Enter
  <1>2. LockTypeOK' /\ LineInv' /\ LastInv' /\ ChainInv'
    BY <1>1, InLine DEF IInv, LockTypeOK, LineInv, LastInv, ChainInv
  <1>3. SettledInv'
    BY <1>1, InLine DEF IInv, LockTypeOK, SettledInv
  <1>4. FirstComeFirstServed'
    <2> SUFFICES ASSUME NEW a \in Accounts, NEW i \in DOMAIN line[a], NEW j \in DOMAIN line[a],
                        i < j, pc'[line[a][j]] \in {"running", "done"}
                 PROVE  pc'[line[a][i]] = "done"
      BY <1>1 DEF FirstComeFirstServed
    <2>1. pc[line[a][i]] = "done"
      <3>1. CASE line[a][j] = c
        BY <1>1, <3>1, BeforeIsOver
      <3>2. CASE line[a][j] # c
        BY <1>1, <3>2, InLine DEF IInv, LockTypeOK, FirstComeFirstServed
      <3>3. QED
        BY <3>1, <3>2
    <2>2. QED
      BY <1>1, <2>1, InLine DEF IInv, LockTypeOK
  <1>5. QED
    BY <1>2, <1>3, <1>4 DEF IInv

(* Ending the body keeps the invariant.                                    *)
LEMMA LeaveKeeps ==
    ASSUME IInv, NEW c \in Calls, Leave(c)
    PROVE  IInv'
  <1>1. /\ pc[c] = "running"
        /\ pc' = [pc EXCEPT ![c] = "done"]
        /\ UNCHANGED <<locks, prev, settled, line>>
    BY DEF Leave
  <1>2. LockTypeOK' /\ LineInv' /\ LastInv' /\ ChainInv'
    BY <1>1, InLine DEF IInv, LockTypeOK, LineInv, LastInv, ChainInv
  <1>3. SettledInv' /\ FirstComeFirstServed'
    BY <1>1, InLine DEF IInv, LockTypeOK, SettledInv, FirstComeFirstServed
  <1>4. QED
    BY <1>2, <1>3 DEF IInv

(* Resolving a chain promise keeps the invariant.                          *)
LEMMA SettleKeeps ==
    ASSUME IInv, NEW c \in Calls, Settle(c)
    PROVE  IInv'
  <1>1. /\ pc[c] = "done"
        /\ IsSettled(prev[c])
        /\ settled' = settled \cup {c}
        /\ UNCHANGED <<locks, prev, pc, line>>
    BY DEF Settle
  <1>2. LockTypeOK' /\ LineInv' /\ LastInv' /\ ChainInv' /\ FirstComeFirstServed'
    BY <1>1 DEF IInv, LockTypeOK, LineInv, LastInv, ChainInv, FirstComeFirstServed
  <1>3. SettledInv'
    <2> SUFFICES ASSUME NEW a \in Accounts, NEW i \in DOMAIN line[a], NEW j \in DOMAIN line[a],
                        i <= j, line[a][j] \in settled'
                 PROVE  pc[line[a][i]] = "done"
      BY <1>1 DEF IInv, SettledInv
    <2>1. CASE line[a][j] \in settled
      BY <2>1 DEF IInv, SettledInv
    <2>2. CASE line[a][j] = c /\ i = j
      BY <1>1, <2>2
    <2>3. CASE line[a][j] = c /\ i # j
      BY <1>1, <2>3, BeforeIsOver, InLine DEF IInv
    <2>4. QED
      BY <1>1, <2>1, <2>2, <2>3
  <1>4. QED
    BY <1>2, <1>3 DEF IInv

(* The invariant is inductive.                                             *)
THEOREM Invariance == LockSpec => []IInv
  <1>1. IInv /\ [LockNext]_lockVars => IInv'
    <2> SUFFICES ASSUME IInv, [LockNext]_lockVars PROVE IInv'
      OBVIOUS
    <2>1. CASE UNCHANGED lockVars
      BY <2>1 DEF lockVars, IInv, LockTypeOK, LineInv, LastInv, ChainInv, SettledInv,
                  FirstComeFirstServed
    <2>2. QED
      BY <2>1, ArriveKeeps, EnterKeeps, LeaveKeeps, SettleKeeps DEF LockNext
  <1>2. QED
    BY InitInv, <1>1, PTL DEF LockSpec

(* The types of the lock's state.                                          *)
THEOREM TypeCorrect == LockSpec => []LockTypeOK
  BY Invariance, PTL DEF IInv

(* Calls on one account start in the order they came, each after the end   *)
(* of those before it.                                                     *)
THEOREM ServedInOrder == LockSpec => []FirstComeFirstServed
  BY Invariance, PTL DEF IInv

(* Two calls on one account never run together.                            *)
THEOREM Exclusion == LockSpec => []MutualExclusion
  <1>1. IInv => MutualExclusion
    <2> SUFFICES ASSUME IInv, NEW a \in Accounts,
                        NEW i \in DOMAIN line[a], NEW j \in DOMAIN line[a],
                        pc[line[a][i]] = "running", pc[line[a][j]] = "running"
                 PROVE  i = j
      BY DEF MutualExclusion
    <2>1. ~(i < j) /\ ~(j < i)
      BY DEF IInv, FirstComeFirstServed
    <2>2. QED
      BY <2>1, InLine DEF IInv
  <1>2. QED
    BY <1>1, Invariance, PTL
============================================================================
