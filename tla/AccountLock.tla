---------------------------- MODULE AccountLock ----------------------------
(***************************************************************************)
(* TradingService.withLock: calls on one trading account run one at a      *)
(* time, by a chain of promises kept in the map `locks`.  Every order,     *)
(* close, modification and engine tick goes through it.                    *)
(*                                                                         *)
(* A call c makes two promises: its gate, resolved when its body is over,  *)
(* and prev.then(() => gate), which it stores in the map for the next      *)
(* call.  The second one is named by c as well: c \in settled says it is   *)
(* resolved.  That takes a turn of the event loop of its own, after both   *)
(* the one before it and the gate.                                         *)
(***************************************************************************)
EXTENDS Naturals, Sequences

CONSTANTS
    Calls,      \* calls of withLock
    Accounts,   \* trading accounts
    Resolved    \* Promise.resolved(), where the map has no entry

ASSUME LockAssumption == Resolved \notin Calls

VARIABLES
    locks,      \* locks[a]: the promise the map holds for a
    prev,       \* prev[c]: the promise c waits for
    pc,         \* pc[c]: where c stands
    settled,    \* the chain promises that are resolved
    line        \* history: line[a] is the calls on a in their order of arrival

lockVars == <<locks, prev, pc, settled, line>>

LockTypeOK ==
    /\ locks \in [Accounts -> Calls \cup {Resolved}]
    /\ prev \in [Calls -> Calls \cup {Resolved}]
    /\ pc \in [Calls -> {"new", "waiting", "running", "done"}]
    /\ settled \subseteq Calls
    /\ line \in [Accounts -> Seq(Calls)]

LockInit ==
    /\ locks = [a \in Accounts |-> Resolved]
    /\ prev = [c \in Calls |-> Resolved]
    /\ pc = [c \in Calls |-> "new"]
    /\ settled = {}
    /\ line = [a \in Accounts |-> << >>]

IsSettled(p) == p = Resolved \/ p \in settled

(* Everything up to the first await runs at once: read the map, store the  *)
(* new promise.                                                            *)
Arrive(c, a) ==
    /\ pc[c] = "new"
    /\ prev' = [prev EXCEPT ![c] = locks[a]]
    /\ locks' = [locks EXCEPT ![a] = c]
    /\ pc' = [pc EXCEPT ![c] = "waiting"]
    /\ line' = [line EXCEPT ![a] = Append(@, c)]
    /\ UNCHANGED settled

(* The account a call is on.                                               *)
On(c, a) == \E i \in DOMAIN line[a] : line[a][i] = c

(* Variant: the call reads the map again and waits for its own promise.    *)
EnterAfterLatest(c) ==
    /\ pc[c] = "waiting"
    /\ \A a \in Accounts : On(c, a) => IsSettled(locks[a])
    /\ pc' = [pc EXCEPT ![c] = "running"]
    /\ UNCHANGED <<locks, prev, settled, line>>

(* await prev                                                              *)
Enter(c) ==
    /\ pc[c] = "waiting"
    /\ IsSettled(prev[c])
    /\ pc' = [pc EXCEPT ![c] = "running"]
    /\ UNCHANGED <<locks, prev, settled, line>>

(* Variant: the clean-up deletes the entry whoever stored it, so the next  *)
(* call finds none although others still wait or run.                      *)
LeaveAndForget(c) ==
    /\ pc[c] = "running"
    /\ pc' = [pc EXCEPT ![c] = "done"]
    /\ locks' = [a \in Accounts |-> IF On(c, a) THEN Resolved ELSE locks[a]]
    /\ UNCHANGED <<prev, settled, line>>

(* Variant: the same, and a missing entry has no default.                  *)
LeaveAndDelete(c) ==
    /\ pc[c] = "running"
    /\ pc' = [pc EXCEPT ![c] = "done"]
    /\ locks' = [a \in {b \in Accounts : ~On(c, b)} |-> locks[a]]
    /\ UNCHANGED <<prev, settled, line>>

(* The body returns or throws and the finally block resolves the gate.     *)
(* The entry of the map stays: the block compares it with a promise it     *)
(* makes for the comparison, which is never the one in the map.            *)
Leave(c) ==
    /\ pc[c] = "running"
    /\ pc' = [pc EXCEPT ![c] = "done"]
    /\ UNCHANGED <<locks, prev, settled, line>>

(* Variant: the chain promise is the one before it, without the gate.      *)
SettleWithoutGate(c) ==
    /\ pc[c] # "new"
    /\ c \notin settled
    /\ IsSettled(prev[c])
    /\ settled' = settled \cup {c}
    /\ UNCHANGED <<locks, prev, pc, line>>

(* prev.then(() => gate) resolves after prev and the gate.                 *)
Settle(c) ==
    /\ pc[c] = "done"
    /\ c \notin settled
    /\ IsSettled(prev[c])
    /\ settled' = settled \cup {c}
    /\ UNCHANGED <<locks, prev, pc, line>>

LockNext ==
    \/ \E c \in Calls, a \in Accounts : Arrive(c, a)
    \/ \E c \in Calls : Enter(c) \/ Leave(c) \/ Settle(c)

LockSpec == LockInit /\ [][LockNext]_lockVars

(* The event loop runs what is ready, and the body of a call ends: each of *)
(* its awaits is a database or cache call that returns or throws.          *)
LockFairness == \A c \in Calls : WF_lockVars(Enter(c)) /\ WF_lockVars(Leave(c)) /\ WF_lockVars(Settle(c))

---------------------------------------------------------------------------
(* Calls on one account never run together ("per-account serialization",   *)
(* TradingService.withLock).                                               *)
MutualExclusion ==
    \A a \in Accounts : \A i, j \in DOMAIN line[a] :
      pc[line[a][i]] = "running" /\ pc[line[a][j]] = "running" => i = j

(* A call starts only when every call that came before it on the account   *)
(* is over: nobody is overtaken.                                           *)
FirstComeFirstServed ==
    \A a \in Accounts : \A i, j \in DOMAIN line[a] :
      i < j /\ pc[line[a][j]] \in {"running", "done"} => pc[line[a][i]] = "done"

(* Every call that arrives gets its turn, whether the calls before it      *)
(* return or throw.                                                        *)
EveryCallIsServed == \A c \in Calls : pc[c] = "waiting" ~> pc[c] = "done"
============================================================================
