--------------------------- MODULE ChannelProofs ---------------------------
(***************************************************************************)
(* Proofs about Channel.  The inductive invariant follows a connection     *)
(* from the handshake on: before the session is looked up it has nothing   *)
(* to do with any account (FreshInv), and from then on its user stays, so  *)
(* what is built for it is its user's (BuildInv) when it arrives.  For the *)
(* subscriptions it speaks of the queue of messages under way (SubsInv).   *)
(***************************************************************************)
EXTENDS Channel, FiniteSetTheorems, SequenceTheorems, TLAPS

(* A connection whose session is not looked up yet watches nothing, and    *)
(* nothing is sent to it or built for it.                                  *)
FreshInv ==
    \A k \in Sockets :
        /\ ready[k] = "none" => conn[k].at = "none"
        /\ conn[k].at \in {"none", "authenticating"} =>
              /\ conn[k].accounts = {}
              /\ down[k] = <<>>
              /\ \A b \in builds : b.to # k

(* A snapshot built for a connection is of the account of its user.        *)
BuildInv ==
    \A b \in builds : b.to \in Sockets => b.account = conn[b.to].user

OwnerInv == ChannelTypeOK /\ FreshInv /\ BuildInv /\ OnlyTheOwnerWatches

---------------------------------------------------------------------------
(* Types                                                                   *)

(* ensure gives the tab well-formed fields and opens at most one socket.   *)
LEMMA EnsureTypes ==
    ASSUME ChannelTypeOK, NEW t \in Tab, Ensure(t)
    PROVE  /\ tab' \in Tab
           /\ ready' \in [Sockets -> ReadyState]
           /\ conn' \in [Sockets -> ClientState]
  <1>1. CASE Connected \/ t.connecting
    BY <1>1 DEF Ensure, ChannelTypeOK
  <1>2. CASE ~(Connected \/ t.connecting)
    <2>1. PICK k \in Sockets :
            /\ tab' = [t EXCEPT !.socket = k, !.connecting = TRUE]
            /\ ready' = [ready EXCEPT ![k] = "connecting"]
            /\ conn' = [conn EXCEPT ![k].user = cookie, ![k].at =
                           IF cookie = Nobody THEN "live" ELSE "authenticating"]
      BY <1>2 DEF Ensure
    <2>2. tab' \in Tab
      BY <2>1 DEF Tab
    <2>3. ready' \in [Sockets -> ReadyState]
      BY <2>1 DEF ChannelTypeOK, ReadyState
    <2>4. conn' \in [Sockets -> ClientState]
      <3> DEFINE c == [conn[k] EXCEPT !.user = cookie, !.at =
                          IF cookie = Nobody THEN "live" ELSE "authenticating"]
      <3>1. conn[k] \in ClientState /\ cookie \in Users \cup {Nobody}
        BY DEF ChannelTypeOK
      <3>2. c \in ClientState
        BY <3>1 DEF ClientState
      <3>3. conn' = [conn EXCEPT ![k] = c]
        BY <2>1, <3>1 DEF ClientState, ChannelTypeOK
      <3> HIDE DEF c
      <3>4. QED
        BY <3>2, <3>3 DEF ChannelTypeOK
    <2>5. QED
      BY <2>2, <2>3, <2>4
  <1>3. QED
    BY <1>1, <1>2

LEMMA AsksTypes ==
    ASSUME NEW op \in {"subscribe", "unsubscribe"}, NEW S \in SUBSET Symbols
    PROVE  Asks(op, S) \in Seq(Message)
  <1> DEFINE m == [op |-> op, symbols |-> S]
  <1>1. m \in Message
    BY DEF Message
  <1> HIDE DEF m
  <1>2. <<m>> \in Seq(Message) /\ <<>> \in Seq(Message)
    BY <1>1
  <1>3. QED
    BY <1>2 DEF Asks, m

LEMMA AsksToWatchTypes ==
    ASSUME NEW u \in Users \cup {Nobody}
    PROVE  AsksToWatch(u) \in Seq(Message)
  <1> DEFINE m == [op |-> "watchAccount", account |-> u]
  <1>1. u # Nobody => m \in Message
    BY DEF Message
  <1> HIDE DEF m
  <1>2. (u # Nobody => <<m>> \in Seq(Message)) /\ <<>> \in Seq(Message)
    BY <1>1
  <1>3. QED
    BY <1>2 DEF AsksToWatch, m

LEMMA SentTypes ==
    ASSUME ChannelTypeOK, NEW messages \in Seq(Message), NEW k \in Sockets
    PROVE  [up EXCEPT ![k] = @ \o messages] \in [Sockets -> Seq(Message)]
  <1>1. up \in [Sockets -> Seq(Message)]
    BY DEF ChannelTypeOK
  <1>2. up[k] \o messages \in Seq(Message)
    BY <1>1, ConcatProperties
  <1>3. QED
    BY <1>1, <1>2

LEMMA RawSendTypes ==
    ASSUME ChannelTypeOK, NEW messages \in Seq(Message), RawSend(messages)
    PROVE  up' \in [Sockets -> Seq(Message)]
  <1>1. up \in [Sockets -> Seq(Message)] /\ tab.socket \in {NoSocket} \cup Sockets
    BY DEF ChannelTypeOK, Tab
  <1>2. CASE tab.socket # NoSocket /\ ready[tab.socket] = "open"
    <2>1. tab.socket \in Sockets
      BY <1>1, <1>2
    <2>2. up' = [up EXCEPT ![tab.socket] = @ \o messages]
      BY <1>2 DEF RawSend
    <2>3. QED
      BY <2>1, <2>2, SentTypes
  <1>3. CASE ~(tab.socket # NoSocket /\ ready[tab.socket] = "open")
    BY <1>1, <1>3 DEF RawSend
  <1>4. QED
    BY <1>2, <1>3

LEMMA InitTypes == ChannelInit => ChannelTypeOK
  <1> SUFFICES ASSUME ChannelInit PROVE ChannelTypeOK
    OBVIOUS
  <1>1. tab \in Tab
    BY ChannelAssumption DEF ChannelInit, Tab
  <1>2. ready \in [Sockets -> ReadyState] /\ lost \in [Sockets -> BOOLEAN]
    BY DEF ChannelInit, ReadyState
  <1>3. up \in [Sockets -> Seq(Message)] /\ down \in [Sockets -> Seq(Snapshot)]
    BY DEF ChannelInit
  <1>4. conn \in [Sockets -> ClientState]
    BY DEF ChannelInit, ClientState
  <1>5. book \in [Users -> Account]
    BY DEF ChannelInit, Account
  <1>6. /\ faults \in 0..MaxFaults
        /\ changes \in 0..MaxChanges
        /\ cookie \in Users \cup {Nobody}
        /\ builds \subseteq Build
        /\ shown \in {Nothing} \cup Snapshot
    BY ChannelAssumption DEF ChannelInit
  <1>7. QED
    BY <1>1, <1>2, <1>3, <1>4, <1>5, <1>6 DEF ChannelTypeOK

LEMMA CountTypes ==
    ASSUME ChannelTypeOK, NEW s \in Symbols, NEW n \in 0..MaxCount
    PROVE  [tab EXCEPT !.counts[s] = n] \in Tab
  <1> DEFINE counts == [tab.counts EXCEPT ![s] = n]
  <1>1. tab \in Tab /\ tab.counts \in [Symbols -> 0..MaxCount]
    BY DEF ChannelTypeOK, Tab
  <1>2. counts \in [Symbols -> 0..MaxCount]
    BY <1>1
  <1>3. [tab EXCEPT !.counts[s] = n] = [tab EXCEPT !.counts = counts]
    BY <1>1 DEF Tab
  <1> HIDE DEF counts
  <1>4. QED
    BY <1>1, <1>2, <1>3 DEF Tab

(* The tab's own steps.                                                    *)
LEMMA TabTypes ==
    ASSUME ChannelTypeOK,
           \/ \E s \in Symbols : Subscribe(s) \/ Unsubscribe(s)
           \/ WatchAccount
           \/ \E k \in Sockets : OnOpen(k) \/ OnClose(k) \/ Receive(k)
           \/ Reconnect
           \/ SignInOrOut
    PROVE  ChannelTypeOK'
  <1> USE ChannelAssumption
  <1>0. Shown(tab) \in SUBSET Symbols
    BY DEF Shown
  <1>1. ASSUME NEW s \in Symbols, Subscribe(s) PROVE ChannelTypeOK'
    <2>1. [tab EXCEPT !.counts[s] = @ + 1] \in Tab
      <3>1. tab.counts[s] + 1 \in 0..MaxCount
        BY <1>1 DEF Subscribe, ChannelTypeOK, Tab
      <3>2. QED
        BY <3>1, CountTypes
    <2>2. Asks("subscribe", IF tab.counts[s] = 0 THEN {s} ELSE {}) \in Seq(Message)
      BY AsksTypes
    <2>3. /\ tab' \in Tab
          /\ ready' \in [Sockets -> ReadyState]
          /\ conn' \in [Sockets -> ClientState]
      BY <1>1, <2>1, EnsureTypes DEF Subscribe
    <2>4. up' \in [Sockets -> Seq(Message)]
      BY <1>1, <2>2, RawSendTypes DEF Subscribe
    <2>5. QED
      BY <1>1, <2>3, <2>4 DEF Subscribe, accountVars, ChannelTypeOK
  <1>2. ASSUME NEW s \in Symbols, Unsubscribe(s) PROVE ChannelTypeOK'
    <2>1. tab' \in Tab
      <3>1. tab.counts[s] - 1 \in 0..MaxCount
        <4>1. tab.counts[s] \in 0..MaxCount
          BY DEF ChannelTypeOK, Tab
        <4>2. tab.counts[s] > 0
          BY <1>2 DEF Unsubscribe
        <4>3. QED
          BY <4>1, <4>2
      <3>2. QED
        BY <1>2, <3>1, CountTypes DEF Unsubscribe
    <2>2. Asks("unsubscribe", IF LastOne(tab.counts[s]) THEN {s} ELSE {}) \in Seq(Message)
      BY AsksTypes
    <2>3. up' \in [Sockets -> Seq(Message)]
      BY <1>2, <2>2, RawSendTypes DEF Unsubscribe
    <2>4. QED
      BY <1>2, <2>1, <2>3 DEF Unsubscribe, accountVars, ChannelTypeOK
  <1>3. CASE WatchAccount
    <2>1. [tab EXCEPT !.watched = cookie] \in Tab
      BY DEF ChannelTypeOK, Tab
    <2>2. AsksToWatch(cookie) \in Seq(Message)
      BY AsksToWatchTypes DEF ChannelTypeOK
    <2>3. /\ tab' \in Tab
          /\ ready' \in [Sockets -> ReadyState]
          /\ conn' \in [Sockets -> ClientState]
      BY <1>3, <2>1, EnsureTypes DEF WatchAccount
    <2>4. up' \in [Sockets -> Seq(Message)]
      BY <1>3, <2>2, RawSendTypes DEF WatchAccount
    <2>5. QED
      BY <1>3, <2>3, <2>4 DEF WatchAccount, accountVars, ChannelTypeOK
  <1>4. ASSUME NEW k \in Sockets, OnOpen(k) PROVE ChannelTypeOK'
    <2> DEFINE messages == Asks("subscribe", Shown(tab)) \o AsksToWatch(tab.watched)
    <2>1. messages \in Seq(Message)
      <3>1. Asks("subscribe", Shown(tab)) \in Seq(Message)
        BY <1>0, AsksTypes
      <3>2. AsksToWatch(tab.watched) \in Seq(Message)
        BY AsksToWatchTypes DEF ChannelTypeOK, Tab
      <3>3. QED
        BY <3>1, <3>2, ConcatProperties
    <2>2. IF tab.socket = k
          THEN up' = [up EXCEPT ![k] = @ \o messages]
          ELSE RawSend(messages)
      BY <1>4 DEF OnOpen
    <2> HIDE DEF messages
    <2>3. up' \in [Sockets -> Seq(Message)]
      <3>1. CASE tab.socket = k
        <4>1. up' = [up EXCEPT ![k] = @ \o messages]
          BY <2>2, <3>1
        <4>2. QED
          BY <2>1, <4>1, SentTypes
      <3>2. CASE tab.socket # k
        BY <2>1, <2>2, <3>2, RawSendTypes
      <3>3. QED
        BY <3>1, <3>2
    <2>4. tab' \in Tab /\ ready' \in [Sockets -> ReadyState]
      BY <1>4 DEF OnOpen, ChannelTypeOK, Tab, ReadyState
    <2>5. QED
      BY <1>4, <2>3, <2>4 DEF OnOpen, accountVars, ChannelTypeOK
  <1>5. ASSUME NEW k \in Sockets, OnClose(k) PROVE ChannelTypeOK'
    <2>1. ready' \in [Sockets -> ReadyState]
      BY <1>5 DEF OnClose, ChannelTypeOK, ReadyState
    <2>2. tab \in Tab /\ tab.timers \in Nat /\ tab.timers + 1 \in Nat
      BY DEF ChannelTypeOK, Tab
    <2>3. PICK n \in Nat : tab' = [tab EXCEPT !.connecting = FALSE, !.socket = NoSocket,
                                             !.timers = n]
      BY <1>5, <2>2 DEF OnClose, ConnectingAfterClose
    <2>4. tab' \in Tab
      BY <2>2, <2>3 DEF Tab
    <2>5. QED
      BY <1>5, <2>1, <2>4 DEF OnClose, wires, accountVars, ChannelTypeOK
  <1>6. ASSUME NEW k \in Sockets, Receive(k) PROVE ChannelTypeOK'
    <2>1. down[k] \in Seq(Snapshot) /\ down[k] # <<>>
      BY <1>6 DEF Receive, ChannelTypeOK
    <2>2. Head(down[k]) \in Snapshot /\ Tail(down[k]) \in Seq(Snapshot)
      BY <2>1
    <2>3. down' \in [Sockets -> Seq(Snapshot)] /\ shown' \in {Nothing} \cup Snapshot
      BY <1>6, <2>2 DEF Receive, ChannelTypeOK
    <2>4. QED
      BY <1>6, <2>3 DEF Receive, tabVars, accountVars, ChannelTypeOK
  <1>7. CASE Reconnect
    <2>1. [tab EXCEPT !.timers = @ - 1] \in Tab
      <3>1. tab \in Tab /\ tab.timers - 1 \in Nat
        BY <1>7 DEF Reconnect, ChannelTypeOK, Tab
      <3>2. QED
        BY <3>1 DEF Tab
    <2>2. /\ tab' \in Tab
          /\ ready' \in [Sockets -> ReadyState]
          /\ conn' \in [Sockets -> ClientState]
      BY <1>7, <2>1, EnsureTypes DEF Reconnect
    <2>3. QED
      BY <1>7, <2>2 DEF Reconnect, wires, accountVars, ChannelTypeOK
  <1>8. CASE SignInOrOut
    BY <1>8 DEF SignInOrOut, tabVars, wires, ChannelTypeOK
  <1>9. QED
    BY <1>1, <1>2, <1>3, <1>4, <1>5, <1>6, <1>7, <1>8

LEMMA HandleTypes ==
    ASSUME ChannelTypeOK, NEW k \in Sockets, NEW m \in Message, Handle(k, m)
    PROVE  /\ conn' \in [Sockets -> ClientState]
           /\ builds' \subseteq Build
           /\ lost' \in [Sockets -> BOOLEAN]
  <1>0. /\ conn \in [Sockets -> ClientState]
        /\ builds \subseteq Build
        /\ lost \in [Sockets -> BOOLEAN]
    BY DEF ChannelTypeOK
  <1>1. CASE m.op \in {"subscribe", "unsubscribe"}
    <2>1. m.symbols \in SUBSET Symbols
      BY <1>1 DEF Message
    <2>2. PICK S \in SUBSET Symbols : conn' = [conn EXCEPT ![k].subs = S]
      <3>1. conn[k].subs \in SUBSET Symbols
        BY <1>0 DEF ClientState
      <3>2. conn[k].subs \cup m.symbols \in SUBSET Symbols
            /\ conn[k].subs \ m.symbols \in SUBSET Symbols
        BY <2>1, <3>1
      <3>3. QED
        BY <1>1, <3>2 DEF Handle
    <2>3. conn' \in [Sockets -> ClientState]
      BY <1>0, <2>2 DEF ClientState
    <2>4. QED
      BY <1>0, <1>1, <2>3 DEF Handle
  <1>2. CASE m.op = "watchAccount"
    <2>1. m.account \in Users
      BY <1>2 DEF Message
    <2>2. NewBuild(k, m.account) \in Build
      BY <2>1 DEF NewBuild, Build, Unread
    <2>3. QED
      BY <1>0, <1>2, <2>2 DEF Handle
  <1>3. QED
    BY <1>1, <1>2 DEF Message

LEMMA EndedTypes ==
    ASSUME ChannelTypeOK, NEW k \in Sockets
    PROVE  Ended(k) \in [Sockets -> ClientState]
  <1>1. conn \in [Sockets -> ClientState] /\ conn[k] \in ClientState
    BY DEF ChannelTypeOK
  <1>2. [conn[k] EXCEPT !.at = "gone", !.subs = {}, !.accounts = {}] \in ClientState
    BY <1>1 DEF ClientState
  <1>3. QED
    BY <1>1, <1>2 DEF Ended

(* The gateway's steps and the faults.                                     *)
LEMMA GatewayTypes ==
    ASSUME ChannelTypeOK,
           \/ \E k \in Sockets : Authenticated(k) \/ OnMessage(k) \/ CloseSocket(k)
           \/ Restart
    PROVE  ChannelTypeOK'
  <1> USE ChannelAssumption
  <1>1. ASSUME NEW k \in Sockets, Authenticated(k) PROVE ChannelTypeOK'
    <2>1. PICK u \in {conn[k].user, Nobody} :
            conn' = [conn EXCEPT ![k].at = "live", ![k].user = u]
      BY <1>1 DEF Authenticated
    <2>2. conn' \in [Sockets -> ClientState]
      <3>1. conn \in [Sockets -> ClientState] /\ conn[k] \in ClientState
        BY DEF ChannelTypeOK
      <3>2. [conn[k] EXCEPT !.at = "live", !.user = u] \in ClientState
        BY <2>1, <3>1 DEF ClientState
      <3>3. conn' = [conn EXCEPT ![k] = [conn[k] EXCEPT !.at = "live", !.user = u]]
        BY <2>1, <3>1 DEF ClientState
      <3>4. QED
        BY <3>1, <3>2, <3>3
    <2>3. QED
      BY <1>1, <2>2 DEF Authenticated, tabVars, wires, accountVars, ChannelTypeOK
  <1>2. ASSUME NEW k \in Sockets, OnMessage(k) PROVE ChannelTypeOK'
    <2>1. up[k] \in Seq(Message) /\ up[k] # <<>>
      BY <1>2 DEF OnMessage, ChannelTypeOK
    <2>2. Head(up[k]) \in Message /\ Tail(up[k]) \in Seq(Message)
      BY <2>1
    <2>3. up' \in [Sockets -> Seq(Message)]
      BY <1>2, <2>2 DEF OnMessage, ChannelTypeOK
    <2>4. /\ conn' \in [Sockets -> ClientState]
          /\ builds' \subseteq Build
          /\ lost' \in [Sockets -> BOOLEAN]
      <3>1. CASE conn[k].at = "live"
        BY <1>2, <2>2, <3>1, HandleTypes DEF OnMessage
      <3>2. CASE conn[k].at # "live"
        BY <1>2, <3>2 DEF OnMessage, ChannelTypeOK
      <3>3. QED
        BY <3>1, <3>2
    <2>5. QED
      BY <1>2, <2>3, <2>4 DEF OnMessage, tabVars, accountVars, ChannelTypeOK
  <1>3. ASSUME NEW k \in Sockets, CloseSocket(k) PROVE ChannelTypeOK'
    <2>1. /\ ready' \in [Sockets -> ReadyState]
          /\ lost' \in [Sockets -> BOOLEAN]
          /\ up' \in [Sockets -> Seq(Message)]
          /\ down' \in [Sockets -> Seq(Snapshot)]
      BY <1>3, EmptySeq DEF CloseSocket, ChannelTypeOK, ReadyState
    <2>2. conn' \in [Sockets -> ClientState]
      BY <1>3, EndedTypes DEF CloseSocket
    <2>3. faults' \in 0..MaxFaults /\ builds' \subseteq Build
      BY <1>3 DEF CloseSocket, ChannelTypeOK
    <2>4. QED
      BY <1>3, <2>1, <2>2, <2>3 DEF CloseSocket, accountVars, ChannelTypeOK
  <1>4. CASE Restart
    <2> DEFINE cut == {k \in Sockets : ready[k] \in {"connecting", "open"}}
    <2>1. faults' \in 0..MaxFaults
      <3>1. IsFiniteSet(Sockets)
        BY FS_Interval DEF Sockets
      <3>2. IsFiniteSet(cut)
        BY <3>1, FS_Subset
      <3>3. Cardinality(cut) \in Nat
        BY <3>2, FS_CardinalityType
      <3>4. faults + Cardinality(cut) <= MaxFaults /\ faults' = faults + Cardinality(cut)
        BY <1>4 DEF Restart
      <3>5. faults \in 0..MaxFaults
        BY DEF ChannelTypeOK
      <3> HIDE DEF cut
      <3>6. QED
        BY <3>3, <3>4, <3>5
    <2>2. ready' \in [Sockets -> ReadyState]
      BY <1>4 DEF Restart, ChannelTypeOK, ReadyState
    <2>3. conn' \in [Sockets -> ClientState]
      <3>1. \A k \in Sockets : Ended(k)[k] \in ClientState /\ conn[k] \in ClientState
        BY EndedTypes DEF ChannelTypeOK
      <3>2. QED
        BY <1>4, <3>1 DEF Restart
    <2>4. /\ lost' \in [Sockets -> BOOLEAN]
          /\ up' \in [Sockets -> Seq(Message)]
          /\ down' \in [Sockets -> Seq(Snapshot)]
          /\ builds' \subseteq Build
      BY <1>4 DEF Restart
    <2>5. QED
      BY <1>4, <2>1, <2>2, <2>3, <2>4 DEF Restart, accountVars, ChannelTypeOK
  <1>5. QED
    BY <1>1, <1>2, <1>3, <1>4

(* The steps of accounts and of the snapshots being built.                 *)
LEMMA BuildTypes ==
    ASSUME ChannelTypeOK,
           \/ \E u \in Users : Trade(u) \/ Transfer(u) \/ Evaluate(u)
           \/ \E b \in builds : ReadPositions(b) \/ Finish(b) \/ BuildFails(b)
    PROVE  ChannelTypeOK'
  <1> USE ChannelAssumption
  <1>1. ASSUME NEW u \in Users, Trade(u) \/ Transfer(u) \/ Evaluate(u)
        PROVE  ChannelTypeOK'
    <2>1. builds' \subseteq Build
      <3>1. builds \subseteq Build
        BY DEF ChannelTypeOK
      <3>2. NewBuild(Watchers, u) \in Build
        BY DEF NewBuild, Build
      <3>3. QED
        BY <1>1, <3>1, <3>2 DEF Trade, Transfer, Evaluate, EmittedByEngine, EmitSnapshot
    <2>2. changes' \in 0..MaxChanges /\ book' \in [Users -> Account]
      <3>1. ASSUME NEW pos \in Nat, NEW bal \in Nat, NEW open \in BOOLEAN,
                   Changed(u, pos, bal, open)
            PROVE  changes' \in 0..MaxChanges /\ book' \in [Users -> Account]
        <4>1. book[u] \in Account
          BY DEF ChannelTypeOK
        <4>2. [pos |-> book[u].pos + pos, bal |-> book[u].bal + bal, open |-> open]
                 \in Account
          BY <4>1 DEF Account
        <4>3. QED
          BY <3>1, <4>2 DEF Changed, ChannelTypeOK
      <3>2. CASE Trade(u)
        BY <3>1, <3>2 DEF Trade
      <3>3. CASE Transfer(u)
        <4>1. book[u].open \in BOOLEAN
          BY DEF ChannelTypeOK, Account
        <4>2. QED
          BY <3>1, <3>3, <4>1 DEF Transfer
      <3>4. CASE Evaluate(u)
        BY <3>4 DEF Evaluate, accountVars, ChannelTypeOK
      <3>5. QED
        BY <1>1, <3>2, <3>3, <3>4
    <2>3. UNCHANGED <<tab, ready, up, down, conn, lost, faults, cookie, shown>>
      BY <1>1 DEF Trade, Transfer, Evaluate, tabVars, wires
    <2>4. QED
      BY <2>1, <2>2, <2>3 DEF ChannelTypeOK
  <1>2. ASSUME NEW b \in builds, ReadPositions(b) PROVE ChannelTypeOK'
    <2>1. b \in Build /\ b.account \in Users
      BY DEF ChannelTypeOK, Build
    <2>2. [b EXCEPT !.pos = book[b.account].pos] \in Build
      BY <2>1 DEF ChannelTypeOK, Build, Account
    <2>3. QED
      BY <1>2, <2>2 DEF ReadPositions, tabVars, wires, accountVars, ChannelTypeOK
  <1>3. ASSUME NEW b \in builds, Finish(b) PROVE ChannelTypeOK'
    <2>1. /\ b.account \in Users
          /\ b.pos \in Nat
          /\ book[b.account].bal \in Nat
      BY <1>3 DEF Finish, ChannelTypeOK, Build, Account
    <2> DEFINE content == [account |-> b.account, pos |-> b.pos,
                           bal |-> book[b.account].bal]
    <2>2. content \in Snapshot
      BY <2>1 DEF Snapshot
    <2>3. PICK asked, to \in SUBSET Sockets :
            /\ conn' = [k \in Sockets |-> IF k \in asked
                                          THEN [conn[k] EXCEPT !.accounts = @ \cup {b.account}]
                                          ELSE conn[k]]
            /\ down' = [k \in Sockets |-> IF k \in to THEN Append(down[k], content) ELSE down[k]]
      BY <1>3 DEF Finish
    <2>4. conn' \in [Sockets -> ClientState]
      <3>1. ASSUME NEW k \in Sockets
            PROVE  /\ conn[k] \in ClientState
                   /\ [conn[k] EXCEPT !.accounts = @ \cup {b.account}] \in ClientState
        <4>1. conn[k] \in ClientState
          BY DEF ChannelTypeOK
        <4>2. QED
          BY <2>1, <4>1 DEF ClientState
      <3> HIDE DEF content
      <3>2. QED
        BY <2>3, <3>1
    <2>5. down' \in [Sockets -> Seq(Snapshot)]
      <3>1. \A k \in Sockets : down[k] \in Seq(Snapshot)
        BY DEF ChannelTypeOK
      <3> HIDE DEF content
      <3>2. \A k \in Sockets : Append(down[k], content) \in Seq(Snapshot)
        BY <2>2, <3>1
      <3>3. QED
        BY <2>3, <3>1, <3>2
    <2>6. QED
      BY <1>3, <2>4, <2>5 DEF Finish, tabVars, accountVars, ChannelTypeOK
  <1>4. ASSUME NEW b \in builds, BuildFails(b) PROVE ChannelTypeOK'
    BY <1>4 DEF BuildFails, tabVars, wires, accountVars, ChannelTypeOK
  <1>5. QED
    BY <1>1, <1>2, <1>3, <1>4

(* Every step keeps the types.                                             *)
LEMMA StepTypes ==
    ASSUME ChannelTypeOK, [ChannelNext]_channelVars
    PROVE  ChannelTypeOK'
  <1>1. CASE UNCHANGED channelVars
    BY <1>1 DEF channelVars, ChannelTypeOK
  <1>2. CASE ChannelNext
    BY <1>2, TabTypes, GatewayTypes, BuildTypes
       DEF ChannelNext, PageStep, ClientStep, GatewayStep, FaultStep, AccountStep,
           EngineStep, BuildStep, BuildsOf
  <1>3. QED
    BY <1>1, <1>2

---------------------------------------------------------------------------
(* Who watches                                                             *)

(* What the steps below look at.                                           *)
OwnerView == <<ready, conn, down, builds>>

Owners == FreshInv /\ BuildInv /\ OnlyTheOwnerWatches

LEMMA OwnersStutter ==
    ASSUME OwnerInv, UNCHANGED OwnerView
    PROVE  Owners'
  BY DEF OwnerInv, OwnerView, Owners, FreshInv, BuildInv, OnlyTheOwnerWatches

(* A socket that is opened has not been used before.                       *)
LEMMA EnsureOwners ==
    ASSUME OwnerInv, NEW t \in Tab, Ensure(t), UNCHANGED <<down, builds>>
    PROVE  Owners'
  <1>1. CASE Connected \/ t.connecting
    <2>1. UNCHANGED OwnerView
      BY <1>1 DEF Ensure, OwnerView
    <2>2. QED
      BY <2>1, OwnersStutter
  <1>2. CASE ~(Connected \/ t.connecting)
    <2>1. PICK k \in Sockets :
            /\ ready[k] = "none"
            /\ ready' = [ready EXCEPT ![k] = "connecting"]
            /\ conn' = [conn EXCEPT ![k].user = cookie, ![k].at =
                           IF cookie = Nobody THEN "live" ELSE "authenticating"]
      BY <1>2 DEF Ensure
    <2>2. /\ conn[k].accounts = {}
          /\ down[k] = <<>>
          /\ \A b \in builds : b.to # k
      BY <2>1 DEF OwnerInv, FreshInv
    <2>3. conn \in [Sockets -> ClientState] /\ ready \in [Sockets -> ReadyState]
      BY DEF OwnerInv, ChannelTypeOK
    <2>4. /\ \A j \in Sockets \ {k} : conn'[j] = conn[j] /\ ready'[j] = ready[j]
          /\ conn'[k].accounts = {}
          /\ ready'[k] = "connecting"
      BY <2>1, <2>2, <2>3 DEF ClientState
    <2>5. FreshInv'
      BY <2>2, <2>4 DEF FreshInv, OwnerInv
    <2>6. BuildInv'
      BY <2>2, <2>4 DEF BuildInv, OwnerInv
    <2>7. OnlyTheOwnerWatches'
      BY <2>2, <2>4 DEF OnlyTheOwnerWatches, OwnerInv
    <2>8. QED
      BY <2>5, <2>6, <2>7 DEF Owners
  <1>3. QED
    BY <1>1, <1>2

LEMMA TabOwners ==
    ASSUME OwnerInv,
           \/ \E s \in Symbols : Subscribe(s) \/ Unsubscribe(s)
           \/ WatchAccount
           \/ \E k \in Sockets : OnOpen(k) \/ OnClose(k) \/ Receive(k)
           \/ Reconnect
           \/ SignInOrOut
    PROVE  Owners'
  <1>0. tab \in Tab /\ ready \in [Sockets -> ReadyState] /\ down \in [Sockets -> Seq(Snapshot)]
    BY DEF OwnerInv, ChannelTypeOK
  <1>1. ASSUME NEW s \in Symbols, Subscribe(s) PROVE Owners'
    <2>1. tab.counts[s] + 1 \in 0..MaxCount
      BY <1>0, <1>1, ChannelAssumption DEF Subscribe, Tab
    <2>2. [tab EXCEPT !.counts[s] = @ + 1] \in Tab
      BY <2>1, CountTypes DEF OwnerInv
    <2>3. QED
      BY <1>1, <2>2, EnsureOwners DEF Subscribe
  <1>2. ASSUME NEW s \in Symbols, Unsubscribe(s) PROVE Owners'
    BY <1>2, OwnersStutter DEF Unsubscribe, OwnerView
  <1>3. CASE WatchAccount
    <2>1. [tab EXCEPT !.watched = cookie] \in Tab
      BY <1>0 DEF OwnerInv, ChannelTypeOK, Tab
    <2>2. QED
      BY <1>3, <2>1, EnsureOwners DEF WatchAccount
  <1>4. ASSUME NEW k \in Sockets, OnOpen(k) \/ OnClose(k) PROVE Owners'
    <2>1. UNCHANGED <<conn, down, builds>>
      BY <1>4 DEF OnOpen, OnClose, wires
    <2>2. \A j \in Sockets : ready'[j] = "none" => ready[j] = "none"
      BY <1>0, <1>4 DEF OnOpen, OnClose
    <2>3. QED
      BY <2>1, <2>2 DEF OwnerInv, Owners, FreshInv, BuildInv, OnlyTheOwnerWatches
  <1>5. ASSUME NEW k \in Sockets, Receive(k) PROVE Owners'
    <2>1. UNCHANGED <<ready, conn, builds>>
      BY <1>5 DEF Receive, tabVars
    <2>2. down[k] \in Seq(Snapshot) /\ down[k] # <<>>
      BY <1>0, <1>5 DEF Receive
    <2>3. \A j \in Sockets \ {k} : down'[j] = down[j]
      BY <1>0, <1>5 DEF Receive
    <2>4. down'[k] = Tail(down[k])
      BY <1>0, <1>5 DEF Receive
    <2>5. \A i \in DOMAIN Tail(down[k]) :
             i + 1 \in DOMAIN down[k] /\ Tail(down[k])[i] = down[k][i + 1]
      BY <2>2
    <2>6. FreshInv'
      BY <2>1, <2>2, <2>3 DEF FreshInv, OwnerInv
    <2>7. OnlyTheOwnerWatches'
      <3>1. \A j \in Sockets : conn'[j].accounts \subseteq {conn'[j].user}
        BY <2>1 DEF OnlyTheOwnerWatches, OwnerInv
      <3>2. \A i \in DOMAIN down'[k] : down'[k][i].account = conn'[k].user
        BY <2>1, <2>4, <2>5 DEF OnlyTheOwnerWatches, OwnerInv
      <3>3. \A j \in Sockets \ {k} :
               \A i \in DOMAIN down'[j] : down'[j][i].account = conn'[j].user
        BY <2>1, <2>3 DEF OnlyTheOwnerWatches, OwnerInv
      <3>4. QED
        BY <3>1, <3>2, <3>3 DEF OnlyTheOwnerWatches
    <2>8. QED
      BY <2>1, <2>6, <2>7 DEF OwnerInv, Owners, BuildInv
  <1>6. CASE Reconnect
    <2>1. tab.timers - 1 \in Nat
      BY <1>0, <1>6 DEF Reconnect, Tab
    <2>2. [tab EXCEPT !.timers = @ - 1] \in Tab
      BY <1>0, <2>1 DEF Tab
    <2>3. QED
      BY <1>6, <2>2, EnsureOwners DEF Reconnect, wires
  <1>7. CASE SignInOrOut
    BY <1>7, OwnersStutter DEF SignInOrOut, tabVars, wires, OwnerView
  <1>8. QED
    BY <1>1, <1>2, <1>3, <1>4, <1>5, <1>6, <1>7

(* A connection that ends watches nothing more.                            *)
LEMMA CutOwners ==
    ASSUME OwnerInv, NEW cut \in SUBSET Sockets,
           \A k \in Sockets :
              /\ ready'[k] = "none" => ready[k] = "none"
              /\ k \in cut => /\ conn'[k].at = "gone"
                              /\ conn'[k].user = conn[k].user
                              /\ conn'[k].accounts = {}
              /\ k \notin cut => conn'[k] = conn[k]
              /\ down'[k] \in {<<>>, down[k]},
           \A k \in cut : ready[k] # "none",
           builds' \subseteq builds
    PROVE  Owners'
  <1>1. FreshInv'
    BY DEF FreshInv, OwnerInv
  <1>2. BuildInv'
    BY DEF BuildInv, OwnerInv
  <1>3. OnlyTheOwnerWatches'
    <2>1. ASSUME NEW k \in Sockets PROVE conn'[k].accounts \subseteq {conn'[k].user}
      BY DEF OnlyTheOwnerWatches, OwnerInv
    <2>2. ASSUME NEW k \in Sockets, NEW i \in DOMAIN down'[k]
          PROVE  down'[k][i].account = conn'[k].user
      <3>1. down'[k] = down[k] /\ conn'[k].user = conn[k].user
        OBVIOUS
      <3>2. QED
        BY <3>1 DEF OnlyTheOwnerWatches, OwnerInv
    <2>3. QED
      BY <2>1, <2>2 DEF OnlyTheOwnerWatches
  <1>4. QED
    BY <1>1, <1>2, <1>3 DEF Owners

LEMMA GatewayOwners ==
    ASSUME OwnerInv,
           \/ \E k \in Sockets : Authenticated(k) \/ OnMessage(k) \/ CloseSocket(k)
           \/ Restart
    PROVE  Owners'
  <1>0. /\ conn \in [Sockets -> ClientState]
        /\ ready \in [Sockets -> ReadyState]
        /\ down \in [Sockets -> Seq(Snapshot)]
        /\ up \in [Sockets -> Seq(Message)]
    BY DEF OwnerInv, ChannelTypeOK
  <1>1. ASSUME NEW k \in Sockets, Authenticated(k) PROVE Owners'
    <2>1. UNCHANGED <<ready, down, builds>>
      BY <1>1 DEF Authenticated, tabVars, wires
    <2>2. /\ conn[k].at = "authenticating"
          /\ conn[k].accounts = {}
          /\ down[k] = <<>>
          /\ \A b \in builds : b.to # k
      BY <1>1 DEF Authenticated, OwnerInv, FreshInv
    <2>3. /\ \A j \in Sockets \ {k} : conn'[j] = conn[j]
          /\ conn'[k].at = "live"
          /\ conn'[k].accounts = {}
      BY <1>0, <1>1, <2>2 DEF Authenticated, ClientState
    <2>4. FreshInv'
      BY <2>1, <2>2, <2>3 DEF FreshInv, OwnerInv
    <2>5. BuildInv'
      BY <2>1, <2>2, <2>3 DEF BuildInv, OwnerInv
    <2>6. OnlyTheOwnerWatches'
      BY <2>1, <2>2, <2>3 DEF OnlyTheOwnerWatches, OwnerInv
    <2>7. QED
      BY <2>4, <2>5, <2>6 DEF Owners
  <1>2. ASSUME NEW k \in Sockets, OnMessage(k) PROVE Owners'
    <2>1. UNCHANGED <<ready, down>>
      BY <1>2 DEF OnMessage, tabVars
    <2>2. CASE conn[k].at # "live"
      BY <1>2, <2>1, <2>2, OwnersStutter DEF OnMessage, OwnerView
    <2>3. CASE conn[k].at = "live"
      <3>1. Handle(k, Head(up[k]))
        BY <1>2, <2>3 DEF OnMessage
      <3>2. \A j \in Sockets : /\ conn'[j].at = conn[j].at
                               /\ conn'[j].user = conn[j].user
                               /\ conn'[j].accounts = conn[j].accounts
        BY <1>0, <3>1 DEF Handle, ClientState
      <3>3. \A b \in builds' : b \in builds \/ (b.to = k /\ b.account = conn[k].user)
        BY <3>1 DEF Handle, MayWatch, NewBuild
      <3>4. FreshInv'
        BY <2>1, <2>3, <3>2, <3>3 DEF FreshInv, OwnerInv
      <3>5. BuildInv'
        BY <3>2, <3>3 DEF BuildInv, OwnerInv
      <3>6. OnlyTheOwnerWatches'
        BY <2>1, <3>2 DEF OnlyTheOwnerWatches, OwnerInv
      <3>7. QED
        BY <3>4, <3>5, <3>6 DEF Owners
    <2>4. QED
      BY <2>2, <2>3
  <1>3. ASSUME NEW k \in Sockets, CloseSocket(k) PROVE Owners'
    <2> DEFINE cut == {k}
    <2>1. \A j \in Sockets :
             /\ ready'[j] = "none" => ready[j] = "none"
             /\ j \in cut => /\ conn'[j].at = "gone"
                             /\ conn'[j].user = conn[j].user
                             /\ conn'[j].accounts = {}
             /\ j \notin cut => conn'[j] = conn[j]
             /\ down'[j] \in {<<>>, down[j]}
      BY <1>0, <1>3 DEF CloseSocket, Ended, ClientState
    <2>2. (\A j \in cut : ready[j] # "none") /\ builds' \subseteq builds
      BY <1>3 DEF CloseSocket
    <2>3. cut \in SUBSET Sockets
      OBVIOUS
    <2> HIDE DEF cut
    <2>4. QED
      BY <2>1, <2>2, <2>3, CutOwners
  <1>4. CASE Restart
    <2> DEFINE cut == {k \in Sockets : ready[k] \in {"connecting", "open"}}
    <2>1. /\ ready' = [k \in Sockets |-> IF k \in cut THEN "closing" ELSE ready[k]]
          /\ conn' = [k \in Sockets |-> IF k \in cut THEN Ended(k)[k] ELSE conn[k]]
          /\ down' = [k \in Sockets |-> <<>>]
          /\ builds' = {}
      BY <1>4 DEF Restart
    <2>2. cut \in SUBSET Sockets /\ \A k \in cut : ready[k] # "none"
      OBVIOUS
    <2> HIDE DEF cut
    <2>3. ASSUME NEW j \in Sockets
          PROVE  /\ Ended(j)[j].at = "gone"
                 /\ Ended(j)[j].user = conn[j].user
                 /\ Ended(j)[j].accounts = {}
      BY <1>0 DEF Ended, ClientState
    <2>4. \A j \in Sockets :
             /\ ready'[j] = "none" => ready[j] = "none"
             /\ j \in cut => /\ conn'[j].at = "gone"
                             /\ conn'[j].user = conn[j].user
                             /\ conn'[j].accounts = {}
             /\ j \notin cut => conn'[j] = conn[j]
             /\ down'[j] \in {<<>>, down[j]}
      BY <2>1, <2>3
    <2>5. QED
      BY <2>1, <2>2, <2>4, CutOwners
  <1>5. QED
    BY <1>1, <1>2, <1>3, <1>4

LEMMA BuildOwners ==
    ASSUME OwnerInv,
           \/ \E u \in Users : Trade(u) \/ Transfer(u) \/ Evaluate(u)
           \/ \E b \in builds : ReadPositions(b) \/ Finish(b) \/ BuildFails(b)
    PROVE  Owners'
  <1>0. /\ conn \in [Sockets -> ClientState]
        /\ down \in [Sockets -> Seq(Snapshot)]
        /\ builds \subseteq Build
    BY DEF OwnerInv, ChannelTypeOK
  <1>1. ASSUME UNCHANGED <<ready, conn, down>>,
               \A c \in builds' : \/ c.to \notin Sockets
                                  \/ \E b \in builds : c.to = b.to /\ c.account = b.account
        PROVE  Owners'
    <2>1. FreshInv'
      BY <1>1 DEF FreshInv, OwnerInv
    <2>2. BuildInv'
      BY <1>1 DEF BuildInv, OwnerInv
    <2>3. OnlyTheOwnerWatches'
      BY <1>1 DEF OnlyTheOwnerWatches, OwnerInv
    <2>4. QED
      BY <2>1, <2>2, <2>3 DEF Owners
  <1>2. ASSUME NEW u \in Users, Trade(u) \/ Transfer(u) \/ Evaluate(u) PROVE Owners'
    <2>1. UNCHANGED <<ready, conn, down>>
      BY <1>2 DEF Trade, Transfer, Evaluate, tabVars, wires
    <2>2. Watchers \notin Sockets
      BY DEF Watchers, Sockets
    <2>3. \A c \in builds' : c \in builds \/ c.to = Watchers
      <3>1. NewBuild(Watchers, u).to = Watchers
        BY DEF NewBuild
      <3>2. builds' \in {builds, builds \cup {NewBuild(Watchers, u)}}
        BY <1>2 DEF Trade, Transfer, Evaluate, EmittedByEngine, EmitSnapshot
      <3>3. QED
        BY <3>1, <3>2
    <2>4. QED
      BY <1>1, <2>1, <2>2, <2>3
  <1>3. ASSUME NEW b \in builds, ReadPositions(b) PROVE Owners'
    <2>1. UNCHANGED <<ready, conn, down>>
      BY <1>3 DEF ReadPositions, tabVars, wires
    <2>2. [b EXCEPT !.pos = book[b.account].pos].to = b.to
          /\ [b EXCEPT !.pos = book[b.account].pos].account = b.account
      BY <1>0 DEF Build
    <2>3. \A c \in builds' : \E d \in builds : c.to = d.to /\ c.account = d.account
      BY <1>3, <2>2 DEF ReadPositions
    <2>4. QED
      BY <1>1, <2>1, <2>3
  <1>4. ASSUME NEW b \in builds, BuildFails(b) PROVE Owners'
    <2>1. UNCHANGED <<ready, conn, down>> /\ builds' \subseteq builds
      BY <1>4 DEF BuildFails, tabVars, wires
    <2>2. QED
      BY <1>1, <2>1
  <1>5. ASSUME NEW b \in builds, Finish(b) PROVE Owners'
    <2> DEFINE content == [account |-> b.account, pos |-> b.pos,
                           bal |-> book[b.account].bal]
               asked    == Sockets \cap {b.to}
               watching == {k \in Sockets : conn[k].at = "live" /\ b.account \in conn[k].accounts}
               to       == {k \in IF b.to = Watchers THEN watching ELSE asked : ready[k] = "open"}
    <2>1. /\ UNCHANGED ready
          /\ builds' \subseteq builds
          /\ conn' = [k \in Sockets |-> IF k \in asked
                                        THEN [conn[k] EXCEPT !.accounts = @ \cup {b.account}]
                                        ELSE conn[k]]
          /\ down' = [k \in Sockets |-> IF k \in to THEN Append(down[k], content) ELSE down[k]]
      BY <1>5 DEF Finish, tabVars
    <2>2. \A k \in asked : b.account = conn[k].user /\ conn[k].at \notin {"none", "authenticating"}
      BY DEF OwnerInv, BuildInv, FreshInv
    <2>3. \A k \in watching : b.account = conn[k].user /\ conn[k].at = "live"
      BY DEF OwnerInv, OnlyTheOwnerWatches
    <2>4. \A k \in to : b.account = conn[k].user /\ conn[k].at \notin {"none", "authenticating"}
      BY <2>2, <2>3
    <2>5. /\ to \subseteq Sockets
          /\ content.account = b.account
      OBVIOUS
    <2> HIDE DEF to, content
    <2>6. \A k \in Sockets :
             /\ conn'[k].at = conn[k].at
             /\ conn'[k].user = conn[k].user
             /\ k \notin asked => conn'[k].accounts = conn[k].accounts
             /\ k \in asked => conn'[k].accounts = conn[k].accounts \cup {b.account}
      BY <1>0, <2>1 DEF ClientState
    <2> HIDE DEF asked
    <2>7. FreshInv'
      BY <2>1, <2>2, <2>4, <2>6 DEF FreshInv, OwnerInv
    <2>8. BuildInv'
      BY <2>1, <2>6 DEF BuildInv, OwnerInv
    <2>9. ASSUME NEW k \in Sockets PROVE conn'[k].accounts \subseteq {conn'[k].user}
      BY <2>2, <2>6 DEF OnlyTheOwnerWatches, OwnerInv
    <2>10. ASSUME NEW k \in Sockets, NEW i \in DOMAIN down'[k]
           PROVE  down'[k][i].account = conn'[k].user
      <3>1. down[k] \in Seq(Snapshot)
        BY <1>0
      <3>2. CASE k \notin to
        BY <2>1, <2>6, <3>2 DEF OnlyTheOwnerWatches, OwnerInv
      <3>3. CASE k \in to
        <4>1. down'[k] = Append(down[k], content)
          BY <2>1, <3>3
        <4>2. i \in DOMAIN down[k] \/ down'[k][i] = content
          BY <3>1, <4>1
        <4>3. i \in DOMAIN down[k] => down'[k][i] = down[k][i]
          BY <3>1, <4>1
        <4>4. QED
          BY <2>4, <2>5, <2>6, <3>3, <4>2, <4>3 DEF OnlyTheOwnerWatches, OwnerInv
      <3>4. QED
        BY <3>2, <3>3
    <2>11. QED
      BY <2>7, <2>8, <2>9, <2>10 DEF Owners, OnlyTheOwnerWatches
  <1>6. QED
    BY <1>2, <1>3, <1>4, <1>5

---------------------------------------------------------------------------
(* Theorems                                                                *)

(* Every reachable state is well-formed: the fields of the tab's socket,   *)
(* the connections, the messages on both wires and the snapshots built.    *)
THEOREM TypeCorrect == ChannelSpec => []ChannelTypeOK
  <1>1. QED
    BY InitTypes, StepTypes, PTL DEF ChannelSpec

(* An account is watched, and its snapshots are sent, only on connections  *)
(* opened with a session of its owner (quotes.gateway.ts:143): for any     *)
(* number of users, sockets, reconnects and faults.                        *)
THEOREM OwnersOnly == ChannelSpec => []OnlyTheOwnerWatches
  <1>1. ChannelInit => OwnerInv
    <2>1. SUFFICES ASSUME ChannelInit PROVE FreshInv /\ BuildInv /\ OnlyTheOwnerWatches
      BY InitTypes DEF OwnerInv
    <2>2. QED
      BY <2>1 DEF ChannelInit, FreshInv, BuildInv, OnlyTheOwnerWatches
  <1>2. OwnerInv /\ [ChannelNext]_channelVars => OwnerInv'
    <2>1. SUFFICES ASSUME OwnerInv, [ChannelNext]_channelVars PROVE OwnerInv'
      OBVIOUS
    <2>2. ChannelTypeOK'
      BY <2>1, StepTypes DEF OwnerInv
    <2>3. CASE UNCHANGED channelVars
      BY <2>1, <2>2, <2>3, OwnersStutter DEF channelVars, OwnerView, OwnerInv, Owners
    <2>4. CASE ChannelNext
      <3>1. Owners'
        BY <2>1, <2>4, TabOwners, GatewayOwners, BuildOwners
           DEF ChannelNext, PageStep, ClientStep, GatewayStep, FaultStep, AccountStep,
               EngineStep, BuildStep, BuildsOf
      <3>2. QED
        BY <2>2, <3>1 DEF OwnerInv, Owners
    <2>5. QED
      BY <2>1, <2>3, <2>4
  <1>3. OwnerInv => OnlyTheOwnerWatches
    BY DEF OwnerInv
  <1>4. QED
    BY <1>1, <1>2, <1>3, PTL DEF ChannelSpec

---------------------------------------------------------------------------
(* What the gateway streams.  The tab sends the differences of what it     *)
(* shows, so what the gateway streams agrees with the page only after the  *)
(* messages under way: for each symbol the last one about it decides.  The *)
(* wants may change many times while a message waits, and the tab may by   *)
(* then have another socket.                                               *)

Mentions(m, s) == m.op \in {"subscribe", "unsubscribe"} /\ s \in m.symbols

(* Whether the gateway streams s once it has handled the messages in q:    *)
(* the last one about s decides, or else what it streams already.          *)
Settles(q, subs, s, wanted) ==
    /\ (\A i \in DOMAIN q : ~Mentions(q[i], s)) => (s \in subs <=> wanted)
    /\ \A i \in DOMAIN q :
          Mentions(q[i], s) /\ (\A j \in DOMAIN q : j > i => ~Mentions(q[j], s))
            => (q[i].op = "subscribe" <=> wanted)

(* Before a socket is open nothing is sent on it, and nothing is streamed. *)
SilentInv ==
    \A k \in Sockets :
        /\ ready[k] # "open" => up[k] = <<>>
        /\ ready[k] \in {"none", "connecting"} => conn[k].subs = {}

AgreeInv ==
    \A k \in Sockets \cap {tab.socket} :
        ready[k] = "open" /\ ~lost[k] =>
            \A s \in Symbols : Settles(up[k], conn[k].subs, s, tab.counts[s] > 0)

SubsInv == SilentInv /\ AgreeInv

---------------------------------------------------------------------------
(* Queues of messages                                                      *)

(* What is sent after q decides about s, or says nothing of it.            *)
Decides(q, s, wanted) ==
    /\ \E i \in DOMAIN q : Mentions(q[i], s)
    /\ \A i \in DOMAIN q : Mentions(q[i], s) => (q[i].op = "subscribe" <=> wanted)

Ignores(q, s) == \A i \in DOMAIN q : ~Mentions(q[i], s)

LEMMA SettlesSent ==
    ASSUME NEW q \in Seq(Message), NEW m \in Seq(Message), NEW subs, NEW s,
           NEW old \in BOOLEAN, NEW new \in BOOLEAN,
           Settles(q, subs, s, old),
           (Ignores(m, s) /\ old = new) \/ Decides(m, s, new)
    PROVE  Settles(q \o m, subs, s, new)
  <1> DEFINE r == q \o m
  <1>1. /\ Len(q) \in Nat /\ Len(m) \in Nat
        /\ DOMAIN q = 1..Len(q) /\ DOMAIN m = 1..Len(m)
        /\ DOMAIN r = 1..(Len(q) + Len(m))
        /\ \A i \in DOMAIN q : i \in DOMAIN r /\ r[i] = q[i]
        /\ \A i \in DOMAIN m : i + Len(q) \in DOMAIN r /\ r[i + Len(q)] = m[i]
        /\ \A i \in DOMAIN r : i > Len(q) => i - Len(q) \in DOMAIN m /\ r[i] = m[i - Len(q)]
        /\ \A i \in DOMAIN r : i <= Len(q) => i \in DOMAIN q
    OBVIOUS
  <1> HIDE DEF r
  <1>2. CASE Ignores(m, s) /\ old = new
    <2>1. \A i \in DOMAIN r : Mentions(r[i], s) => i \in DOMAIN q /\ Mentions(q[i], s)
      BY <1>1, <1>2 DEF Ignores
    <2>2. \A i \in DOMAIN q : Mentions(q[i], s) => i \in DOMAIN r /\ Mentions(r[i], s)
      BY <1>1
    <2>3. QED
      BY <1>1, <1>2, <2>1, <2>2 DEF Settles, r
  <1>3. CASE Decides(m, s, new)
    <2>1. PICK i \in DOMAIN m : Mentions(m[i], s)
      BY <1>3 DEF Decides
    <2>2. i + Len(q) \in DOMAIN r /\ Mentions(r[i + Len(q)], s)
      BY <1>1, <2>1
    <2>3. ASSUME NEW j \in DOMAIN r, Mentions(r[j], s),
                 \A l \in DOMAIN r : l > j => ~Mentions(r[l], s)
          PROVE  r[j].op = "subscribe" <=> new
      <3>1. ~(j < i + Len(q)) /\ j \in Nat /\ i \in Nat /\ i > 0
        BY <1>1, <2>1, <2>2, <2>3
      <3>2. j > Len(q)
        BY <1>1, <3>1
      <3>3. j - Len(q) \in DOMAIN m /\ r[j] = m[j - Len(q)]
        BY <1>1, <3>2
      <3>4. QED
        BY <1>3, <2>3, <3>3 DEF Decides
    <2>4. QED
      BY <2>2, <2>3 DEF Settles, r
  <1>4. QED
    BY <1>2, <1>3

(* A message handled counts as far as nothing later is about the symbol.   *)
LEMMA SettlesHandled ==
    ASSUME NEW q \in Seq(Message), q # <<>>, NEW subs, NEW s, NEW wanted \in BOOLEAN,
           Settles(q, subs, s, wanted),
           NEW after,
           s \in after <=> IF Mentions(Head(q), s) THEN Head(q).op = "subscribe" ELSE s \in subs
    PROVE  Settles(Tail(q), after, s, wanted)
  <1> DEFINE r == Tail(q)
  <1>1. /\ Len(q) \in Nat \ {0} /\ DOMAIN q = 1..Len(q)
        /\ DOMAIN r = 1..(Len(q) - 1)
        /\ \A i \in DOMAIN r : i + 1 \in DOMAIN q /\ r[i] = q[i + 1]
        /\ \A i \in DOMAIN q : i > 1 => i - 1 \in DOMAIN r /\ q[i] = r[i - 1]
        /\ Head(q) = q[1] /\ 1 \in DOMAIN q
    OBVIOUS
  <1> HIDE DEF r
  <1>2. ASSUME NEW i \in DOMAIN r, Mentions(r[i], s),
               \A j \in DOMAIN r : j > i => ~Mentions(r[j], s)
        PROVE  r[i].op = "subscribe" <=> wanted
    <2>1. i + 1 \in DOMAIN q /\ q[i + 1] = r[i]
      BY <1>1
    <2>2. \A j \in DOMAIN q : j > i + 1 => ~Mentions(q[j], s)
      BY <1>1, <1>2
    <2>3. QED
      BY <1>2, <2>1, <2>2 DEF Settles
  <1>3. ASSUME \A i \in DOMAIN r : ~Mentions(r[i], s)
        PROVE  s \in after <=> wanted
    <2>1. \A j \in DOMAIN q : j > 1 => ~Mentions(q[j], s)
      BY <1>1, <1>3
    <2>2. CASE Mentions(Head(q), s)
      BY <1>1, <2>1, <2>2 DEF Settles
    <2>3. CASE ~Mentions(Head(q), s)
      <3>1. \A j \in DOMAIN q : ~Mentions(q[j], s)
        BY <1>1, <2>1, <2>3
      <3>2. QED
        BY <2>3, <3>1 DEF Settles
    <2>4. QED
      BY <2>2, <2>3
  <1>4. QED
    BY <1>2, <1>3 DEF Settles, r

LEMMA AsksDecide ==
    ASSUME NEW op \in {"subscribe", "unsubscribe"}, NEW S \in SUBSET Symbols, NEW s,
           NEW wanted \in BOOLEAN, op = "subscribe" <=> wanted
    PROVE  /\ s \in S => Decides(Asks(op, S), s, wanted)
           /\ s \notin S => Ignores(Asks(op, S), s)
  <1> DEFINE m == [op |-> op, symbols |-> S]
  <1>1. m.op = op /\ m.symbols = S
    OBVIOUS
  <1> HIDE DEF m
  <1>2. CASE S = {}
    <2>1. Asks(op, S) = <<>>
      BY <1>2 DEF Asks
    <2>2. QED
      BY <1>2, <2>1 DEF Ignores
  <1>3. CASE S # {}
    <2>1. Asks(op, S) = <<m>>
      BY <1>3 DEF Asks, m
    <2>2. DOMAIN Asks(op, S) = {1} /\ Asks(op, S)[1] = m
      BY <2>1
    <2>3. QED
      BY <1>1, <2>2 DEF Decides, Ignores, Mentions
  <1>4. QED
    BY <1>2, <1>3

LEMMA WatchIgnores ==
    ASSUME NEW u, NEW s
    PROVE  Ignores(AsksToWatch(u), s)
  <1> DEFINE m == [op |-> "watchAccount", account |-> u]
  <1>1. m.op = "watchAccount"
    OBVIOUS
  <1> HIDE DEF m
  <1>2. AsksToWatch(u) = <<>> \/ AsksToWatch(u) = <<m>>
    BY DEF AsksToWatch, m
  <1>3. DOMAIN AsksToWatch(u) = {} \/ (DOMAIN AsksToWatch(u) = {1} /\ AsksToWatch(u)[1] = m)
    BY <1>2
  <1>4. QED
    BY <1>1, <1>3 DEF Ignores, Mentions

(* What onopen sends decides about the symbols the tab shows.              *)
LEMMA OpeningDecides ==
    ASSUME NEW S \in SUBSET Symbols, NEW u \in Users \cup {Nobody}, NEW s
    PROVE  LET m == Asks("subscribe", S) \o AsksToWatch(u)
           IN  /\ m \in Seq(Message)
               /\ s \in S => Decides(m, s, TRUE)
               /\ s \notin S => Ignores(m, s)
  <1> DEFINE a == Asks("subscribe", S)
             w == AsksToWatch(u)
             m == a \o w
  <1>1. a \in Seq(Message) /\ w \in Seq(Message)
    BY AsksTypes, AsksToWatchTypes
  <1>2. (s \in S => Decides(a, s, TRUE)) /\ (s \notin S => Ignores(a, s)) /\ Ignores(w, s)
    BY AsksDecide, WatchIgnores
  <1> HIDE DEF a, w
  <1>3. /\ m \in Seq(Message)
        /\ \A i \in DOMAIN a : i \in DOMAIN m /\ m[i] = a[i]
        /\ \A i \in DOMAIN m : \/ i \in DOMAIN a /\ m[i] = a[i]
                               \/ i - Len(a) \in DOMAIN w /\ m[i] = w[i - Len(a)]
    BY <1>1
  <1> HIDE DEF m
  <1>4. s \in S => Decides(m, s, TRUE)
    BY <1>2, <1>3 DEF Decides, Ignores
  <1>5. s \notin S => Ignores(m, s)
    BY <1>2, <1>3 DEF Ignores
  <1>6. QED
    BY <1>3, <1>4, <1>5 DEF m, a, w

---------------------------------------------------------------------------
(* What the steps do to the subscriptions                                  *)

(* A socket nothing is asked on: it stays, is opened or closes.            *)
Undisturbed(k) ==
    \/ /\ ready'[k] = ready[k]
       /\ up'[k] = up[k]
       /\ conn'[k].subs = conn[k].subs
       /\ lost[k] => lost'[k]
    \/ /\ ready[k] = "none" /\ ready'[k] = "connecting"
       /\ up'[k] = up[k]
       /\ conn'[k].subs = conn[k].subs
    \/ ready'[k] \in {"closing", "closed"} /\ up'[k] = <<>>

SameWants == \A s \in Symbols : (tab'.counts[s] > 0) = (tab.counts[s] > 0)

(* The tab has the same socket, or one it cannot send on yet.              *)
SocketKept ==
    \/ tab'.socket = tab.socket
    \/ tab'.socket \in Sockets => ready'[tab'.socket] # "open"

LEMMA SubsUndisturbed ==
    ASSUME SubsInv, \A k \in Sockets : Undisturbed(k), SameWants, SocketKept
    PROVE  SubsInv'
  <1>1. SilentInv'
    BY DEF SubsInv, SilentInv, Undisturbed
  <1>2. AgreeInv'
    <2> SUFFICES ASSUME NEW k \in Sockets, k = tab'.socket, ready'[k] = "open", ~lost'[k],
                        NEW s \in Symbols
                 PROVE  Settles(up'[k], conn'[k].subs, s, tab'.counts[s] > 0)
      BY DEF AgreeInv
    <2>1. /\ k = tab.socket /\ ready[k] = "open" /\ ~lost[k]
          /\ up'[k] = up[k] /\ conn'[k].subs = conn[k].subs
      BY DEF Undisturbed, SocketKept
    <2>2. Settles(up[k], conn[k].subs, s, tab.counts[s] > 0)
      BY <2>1 DEF SubsInv, AgreeInv
    <2>3. QED
      BY <2>1, <2>2 DEF SameWants, Settles
  <1>3. QED
    BY <1>1, <1>2 DEF SubsInv

(* What the tab sends says what has changed of what it shows.              *)
Explains(m) ==
    \A s \in Symbols :
        \/ Ignores(m, s) /\ (tab'.counts[s] > 0) = (tab.counts[s] > 0)
        \/ Decides(m, s, tab'.counts[s] > 0)

LEMMA SubsSent ==
    ASSUME ChannelTypeOK, SubsInv, NEW m \in Seq(Message), RawSend(m), Explains(m),
           UNCHANGED lost, SocketKept,
           \A k \in Sockets : conn'[k].subs = conn[k].subs,
           \A k \in Sockets :
              \/ ready'[k] = ready[k]
              \/ ready[k] = "none" /\ ready'[k] = "connecting"
              \/ ready[k] = "connecting" /\ k # tab'.socket,
           tab.socket \in Sockets /\ ready[tab.socket] = "open" => tab'.socket = tab.socket
    PROVE  SubsInv'
  <1>0. up \in [Sockets -> Seq(Message)] /\ tab.socket \in {NoSocket} \cup Sockets
    BY DEF ChannelTypeOK, Tab
  <1>1. CASE tab.socket # NoSocket /\ ready[tab.socket] = "open"
    <2> DEFINE k == tab.socket
    <2>1. k \in Sockets /\ up' = [up EXCEPT ![k] = up[k] \o m] /\ tab'.socket = k
      BY <1>0, <1>1 DEF RawSend
    <2> HIDE DEF k
    <2>2. /\ up'[k] = up[k] \o m
          /\ \A j \in Sockets \ {k} : up'[j] = up[j]
      BY <1>0, <2>1
    <2>3. ready[k] = "open" /\ ready'[k] = "open"
      BY <1>1, <2>1 DEF k
    <2>4. SilentInv'
      BY <2>1, <2>2, <2>3 DEF SubsInv, SilentInv
    <2>5. ASSUME NEW s \in Symbols, ~lost[k]
          PROVE  Settles(up[k] \o m, conn[k].subs, s, tab'.counts[s] > 0)
      <3> DEFINE old == tab.counts[s] > 0
                 new == tab'.counts[s] > 0
      <3>1. Settles(up[k], conn[k].subs, s, old)
        BY <2>1, <2>3, <2>5 DEF SubsInv, AgreeInv, k
      <3>2. (Ignores(m, s) /\ old = new) \/ Decides(m, s, new)
        BY DEF Explains
      <3>3. old \in BOOLEAN /\ new \in BOOLEAN /\ up[k] \in Seq(Message)
        BY <1>0, <2>1
      <3> HIDE DEF old, new
      <3>4. Settles(up[k] \o m, conn[k].subs, s, new)
        BY <3>1, <3>2, <3>3, SettlesSent
      <3>5. QED
        BY <3>4 DEF new
    <2>6. AgreeInv'
      <3> SUFFICES ASSUME NEW j \in Sockets, j = tab'.socket, ~lost'[j], NEW s \in Symbols
                   PROVE  Settles(up'[j], conn'[j].subs, s, tab'.counts[s] > 0)
        BY DEF AgreeInv
      <3>1. j = k /\ ~lost[k]
        BY <2>1
      <3>2. up'[j] = up[k] \o m /\ conn'[j].subs = conn[k].subs
        BY <2>1, <2>2, <3>1
      <3>3. Settles(up[k] \o m, conn[k].subs, s, tab'.counts[s] > 0)
        BY <2>5, <3>1
      <3>4. QED
        BY <3>2, <3>3
    <2>7. QED
      BY <2>4, <2>6 DEF SubsInv
  <1>2. CASE ~(tab.socket # NoSocket /\ ready[tab.socket] = "open")
    <2>1. up' = up
      BY <1>2 DEF RawSend
    <2>2. SilentInv'
      BY <2>1 DEF SubsInv, SilentInv
    <2>3. AgreeInv'
      BY <1>0, <1>2 DEF AgreeInv, SocketKept, NoSocket, Sockets
    <2>4. QED
      BY <2>2, <2>3 DEF SubsInv
  <1>3. QED
    BY <1>1, <1>2

(* What ensure does, for these properties.                                 *)
LEMMA EnsureSubs ==
    ASSUME ChannelTypeOK, NEW t \in Tab, t.socket = tab.socket, Ensure(t)
    PROVE  /\ SocketKept
           /\ tab'.counts = t.counts
           /\ \A k \in Sockets : conn'[k].subs = conn[k].subs
           /\ \A k \in Sockets : \/ ready'[k] = ready[k]
                                 \/ ready[k] = "none" /\ ready'[k] = "connecting"
           /\ tab.socket \in Sockets /\ ready[tab.socket] = "open" => tab'.socket = tab.socket
  <1>0. /\ conn \in [Sockets -> ClientState] /\ ready \in [Sockets -> ReadyState]
        /\ tab \in Tab /\ NoSocket \notin Sockets
    BY DEF ChannelTypeOK, NoSocket, Sockets
  <1>1. CASE Connected \/ t.connecting
    BY <1>1 DEF Ensure, SocketKept
  <1>2. CASE ~(Connected \/ t.connecting)
    <2>1. PICK k \in Sockets :
            /\ ready[k] = "none"
            /\ tab' = [t EXCEPT !.socket = k, !.connecting = TRUE]
            /\ ready' = [ready EXCEPT ![k] = "connecting"]
            /\ conn' = [conn EXCEPT ![k].user = cookie, ![k].at =
                           IF cookie = Nobody THEN "live" ELSE "authenticating"]
      BY <1>2 DEF Ensure
    <2>2. \A j \in Sockets : conn'[j].subs = conn[j].subs
      BY <1>0, <2>1 DEF ClientState
    <2>3. ready'[k] = "connecting" /\ \A j \in Sockets \ {k} : ready'[j] = ready[j]
      BY <1>0, <2>1
    <2>4. tab'.socket = k /\ tab'.counts = t.counts
      BY <2>1 DEF Tab
    <2>5. ~(tab.socket \in Sockets /\ ready[tab.socket] = "open")
      BY <1>0, <1>2 DEF Connected
    <2>6. QED
      BY <2>1, <2>2, <2>3, <2>4, <2>5 DEF SocketKept
  <1>3. QED
    BY <1>1, <1>2

LEMMA CountsChange ==
    ASSUME ChannelTypeOK, NEW s \in Symbols, NEW n \in 0..MaxCount
    PROVE  LET t == [tab EXCEPT !.counts[s] = n]
           IN  /\ t.socket = tab.socket /\ t.connecting = tab.connecting
               /\ t.counts[s] = n
               /\ \A r \in Symbols \ {s} : t.counts[r] = tab.counts[r]
  <1>1. tab \in Tab /\ tab.counts \in [Symbols -> 0..MaxCount]
    BY DEF ChannelTypeOK, Tab
  <1>2. QED
    BY <1>1 DEF Tab

LEMMA SubscribeSubs ==
    ASSUME ChannelTypeOK, SubsInv, NEW s \in Symbols, Subscribe(s)
    PROVE  SubsInv'
  <1> DEFINE n == tab.counts[s] + 1
             t == [tab EXCEPT !.counts[s] = n]
             m == Asks("subscribe", IF tab.counts[s] = 0 THEN {s} ELSE {})
  <1>1. tab.counts[s] \in Nat /\ n \in 0..MaxCount
    BY ChannelAssumption DEF ChannelTypeOK, Tab, Subscribe
  <1>2. /\ t \in Tab /\ t.socket = tab.socket /\ t.counts[s] = n
        /\ \A r \in Symbols \ {s} : t.counts[r] = tab.counts[r]
    BY <1>1, CountTypes, CountsChange
  <1>3. Ensure(t) /\ RawSend(m) /\ UNCHANGED lost
    BY DEF Subscribe
  <1> HIDE DEF t
  <1>4. tab'.counts = t.counts
    BY <1>2, <1>3, EnsureSubs
  <1>5. m \in Seq(Message)
    BY AsksTypes
  <1>6. Explains(m)
    <2> SUFFICES ASSUME NEW r \in Symbols
                 PROVE  \/ Ignores(m, r) /\ (tab'.counts[r] > 0) = (tab.counts[r] > 0)
                        \/ Decides(m, r, tab'.counts[r] > 0)
      BY DEF Explains
    <2> DEFINE S == IF tab.counts[s] = 0 THEN {s} ELSE {}
    <2>1. S \in SUBSET Symbols /\ m = Asks("subscribe", S)
      OBVIOUS
    <2>2. (r \in S => Decides(m, r, TRUE)) /\ (r \notin S => Ignores(m, r))
      <3> HIDE DEF S, m
      <3>1. QED
        BY <2>1, AsksDecide
    <2> HIDE DEF m
    <2>3. CASE r \in S
      <3>1. r = s /\ tab'.counts[r] > 0
        BY <1>1, <1>2, <1>4, <2>3
      <3>2. QED
        BY <2>2, <2>3, <3>1 DEF Decides
    <2>4. CASE r \notin S
      <3>1. (tab'.counts[r] > 0) = (tab.counts[r] > 0)
        BY <1>1, <1>2, <1>4, <2>4
      <3>2. QED
        BY <2>2, <2>4, <3>1
    <2>5. QED
      BY <2>3, <2>4
  <1> HIDE DEF m
  <1>7. QED
    BY <1>2, <1>3, <1>5, <1>6, EnsureSubs, SubsSent

LEMMA UnsubscribeSubs ==
    ASSUME ChannelTypeOK, SubsInv, NEW s \in Symbols, Unsubscribe(s)
    PROVE  SubsInv'
  <1> DEFINE n == tab.counts[s] - 1
             t == [tab EXCEPT !.counts[s] = n]
             S == IF LastOne(tab.counts[s]) THEN {s} ELSE {}
             m == Asks("unsubscribe", S)
  <1>1. tab.counts[s] \in 0..MaxCount /\ tab.counts[s] > 0
    BY DEF ChannelTypeOK, Tab, Unsubscribe
  <1>a. tab.counts[s] \in Nat /\ n \in 0..MaxCount
    BY <1>1, ChannelAssumption
  <1>2. /\ t.socket = tab.socket /\ t.counts[s] = n
        /\ \A r \in Symbols \ {s} : t.counts[r] = tab.counts[r]
    BY <1>a, CountsChange
  <1>3. tab' = t /\ RawSend(m) /\ UNCHANGED <<lost, ready, conn>>
    BY DEF Unsubscribe
  <1> HIDE DEF t
  <1>4. m \in Seq(Message)
    BY AsksTypes
  <1>5. Explains(m)
    <2> SUFFICES ASSUME NEW r \in Symbols
                 PROVE  \/ Ignores(m, r) /\ (tab'.counts[r] > 0) = (tab.counts[r] > 0)
                        \/ Decides(m, r, tab'.counts[r] > 0)
      BY DEF Explains
    <2>1. S \in SUBSET Symbols
      OBVIOUS
    <2>2. (r \in S => Decides(m, r, FALSE)) /\ (r \notin S => Ignores(m, r))
      <3> HIDE DEF S
      <3>1. QED
        BY <2>1, AsksDecide
    <2> HIDE DEF m
    <2>3. CASE r \in S
      <3>1. r = s /\ ~(tab'.counts[r] > 0)
        BY <1>1, <1>a, <1>2, <1>3, <2>3 DEF LastOne
      <3>2. QED
        BY <2>2, <2>3, <3>1 DEF Decides
    <2>4. CASE r \notin S
      <3>1. (tab'.counts[r] > 0) = (tab.counts[r] > 0)
        BY <1>1, <1>a, <1>2, <1>3, <2>4 DEF LastOne
      <3>2. QED
        BY <2>2, <2>4, <3>1
    <2>5. QED
      BY <2>3, <2>4
  <1> HIDE DEF m
  <1>6. SocketKept /\ tab'.socket = tab.socket
    BY <1>2, <1>3 DEF SocketKept
  <1>7. QED
    BY <1>3, <1>4, <1>5, <1>6, SubsSent

(* What a message that is not about symbols explains.                      *)
LEMMA IgnoredExplains ==
    ASSUME NEW m, \A s \in Symbols : Ignores(m, s), tab'.counts = tab.counts
    PROVE  Explains(m)
  BY DEF Explains

LEMMA WatchAccountSubs ==
    ASSUME ChannelTypeOK, SubsInv, WatchAccount
    PROVE  SubsInv'
  <1> DEFINE t == [tab EXCEPT !.watched = cookie]
             m == AsksToWatch(cookie)
  <1>1. t \in Tab /\ t.socket = tab.socket /\ t.counts = tab.counts
    BY DEF ChannelTypeOK, Tab
  <1>2. Ensure(t) /\ RawSend(m) /\ UNCHANGED lost
    BY DEF WatchAccount
  <1>3. m \in Seq(Message)
    BY AsksToWatchTypes DEF ChannelTypeOK
  <1>4. \A s \in Symbols : Ignores(m, s)
    BY WatchIgnores
  <1> HIDE DEF t, m
  <1>5. Explains(m)
    BY <1>1, <1>2, <1>4, EnsureSubs, IgnoredExplains
  <1>6. QED
    BY <1>1, <1>2, <1>3, <1>5, EnsureSubs, SubsSent

LEMMA OnOpenSubs ==
    ASSUME ChannelTypeOK, SubsInv, NEW k \in Sockets, OnOpen(k)
    PROVE  SubsInv'
  <1> DEFINE m == Asks("subscribe", Shown(tab)) \o AsksToWatch(tab.watched)
  <1>0. /\ tab \in Tab /\ tab.counts \in [Symbols -> 0..MaxCount]
        /\ tab.watched \in Users \cup {Nobody}
        /\ ready \in [Sockets -> ReadyState] /\ up \in [Sockets -> Seq(Message)]
    BY DEF ChannelTypeOK, Tab
  <1>1. /\ tab'.socket = tab.socket /\ tab'.counts = tab.counts
        /\ ready[k] = "connecting" /\ ready'[k] = "open"
        /\ \A j \in Sockets \ {k} : ready'[j] = ready[j]
        /\ UNCHANGED <<conn, lost>>
    BY <1>0 DEF OnOpen, Tab
  <1>2. IF tab.socket = k THEN up' = [up EXCEPT ![k] = up[k] \o m] ELSE RawSend(m)
    BY DEF OnOpen
  <1>3. /\ Shown(tab) \in SUBSET Symbols
        /\ \A s \in Symbols : s \in Shown(tab) <=> tab.counts[s] > 0
    BY DEF Shown
  <1>4. /\ m \in Seq(Message)
        /\ \A s : /\ s \in Shown(tab) => Decides(m, s, TRUE)
                  /\ s \notin Shown(tab) => Ignores(m, s)
    BY <1>0, <1>3, OpeningDecides
  <1> HIDE DEF m
  <1>5. CASE tab.socket = k
    <2>1. up' = [up EXCEPT ![k] = up[k] \o m]
      BY <1>2, <1>5
    <2>2. up[k] = <<>> /\ conn[k].subs = {}
      BY <1>1 DEF SubsInv, SilentInv
    <2>3. up'[k] = up[k] \o m /\ \A j \in Sockets \ {k} : up'[j] = up[j]
      BY <1>0, <2>1
    <2>4. SilentInv'
      BY <1>1, <2>3 DEF SubsInv, SilentInv
    <2>5. ASSUME NEW s \in Symbols
          PROVE  Settles(up[k] \o m, conn[k].subs, s, tab.counts[s] > 0)
      <3> DEFINE shows == tab.counts[s] > 0
      <3>1. Settles(up[k], conn[k].subs, s, FALSE)
        BY <2>2 DEF Settles
      <3>2. shows \in BOOLEAN /\ up[k] \in Seq(Message)
        BY <1>0
      <3>3. shows <=> s \in Shown(tab)
        BY <1>3
      <3>4. (Ignores(m, s) /\ FALSE = shows) \/ Decides(m, s, shows)
        <4> HIDE DEF shows
        <4>1. CASE shows
          <5>1. shows = TRUE
            BY <3>2, <4>1
          <5>2. QED
            BY <1>4, <3>3, <4>1, <5>1
        <4>2. CASE ~shows
          <5>1. FALSE = shows
            BY <3>2, <4>2
          <5>2. QED
            BY <1>4, <3>3, <4>2, <5>1
        <4>3. QED
          BY <4>1, <4>2
      <3> HIDE DEF shows
      <3>5. Settles(up[k] \o m, conn[k].subs, s, shows)
        BY <1>4, <3>1, <3>2, <3>4, SettlesSent
      <3>6. QED
        BY <3>5 DEF shows
    <2>6. AgreeInv'
      <3> SUFFICES ASSUME NEW j \in Sockets, j = tab'.socket, NEW s \in Symbols
                   PROVE  Settles(up'[j], conn'[j].subs, s, tab'.counts[s] > 0)
        BY DEF AgreeInv
      <3>1. j = k /\ tab'.counts = tab.counts /\ conn' = conn
        BY <1>1, <1>5
      <3>2. QED
        BY <2>3, <2>5, <3>1
    <2>7. QED
      BY <2>4, <2>6 DEF SubsInv
  <1>6. CASE tab.socket # k
    <2>1. RawSend(m)
      BY <1>2, <1>6
    <2>2. Explains(m)
      <3> SUFFICES ASSUME NEW s \in Symbols
                   PROVE  \/ Ignores(m, s) /\ (tab'.counts[s] > 0) = (tab.counts[s] > 0)
                          \/ Decides(m, s, tab'.counts[s] > 0)
        BY DEF Explains
      <3>1. CASE s \in Shown(tab)
        <4>1. Decides(m, s, TRUE) /\ tab'.counts[s] > 0
          BY <1>1, <1>3, <1>4, <3>1
        <4>2. QED
          BY <4>1 DEF Decides
      <3>2. CASE s \notin Shown(tab)
        BY <1>1, <1>4, <3>2
      <3>3. QED
        BY <3>1, <3>2
    <2>3. SocketKept
      BY <1>1 DEF SocketKept
    <2>4. QED
      BY <1>1, <1>4, <1>6, <2>1, <2>2, <2>3, SubsSent
  <1>7. QED
    BY <1>5, <1>6

LEMMA OnMessageSubs ==
    ASSUME ChannelTypeOK, SubsInv, NEW k \in Sockets, OnMessage(k)
    PROVE  SubsInv'
  <1> DEFINE m == Head(up[k])
  <1>0. /\ up \in [Sockets -> Seq(Message)] /\ conn \in [Sockets -> ClientState]
        /\ lost \in [Sockets -> BOOLEAN] /\ up[k] \in Seq(Message) /\ up[k] # <<>>
    BY DEF ChannelTypeOK, OnMessage
  <1>1. /\ up' = [up EXCEPT ![k] = Tail(up[k])]
        /\ UNCHANGED <<tab, ready>>
    BY DEF OnMessage, tabVars
  <1>2. /\ up'[k] = Tail(up[k]) /\ m \in Message
        /\ \A j \in Sockets \ {k} : up'[j] = up[j]
    BY <1>0, <1>1
  <1>3. ready[k] = "open"
    BY <1>0 DEF SubsInv, SilentInv
  <1>4. CASE conn[k].at = "live"
    <2>1. Handle(k, m)
      BY <1>4 DEF OnMessage
    <2> HIDE DEF m
    <2>2. /\ lost' = lost
          /\ \A j \in Sockets \ {k} : conn'[j] = conn[j]
          /\ \A s : s \in conn'[k].subs <=>
                      IF Mentions(m, s) THEN m.op = "subscribe" ELSE s \in conn[k].subs
      <3>1. CASE m.op = "subscribe"
        <4>1. conn' = [conn EXCEPT ![k].subs = @ \cup m.symbols] /\ lost' = lost
          BY <2>1, <3>1 DEF Handle
        <4>2. conn'[k].subs = conn[k].subs \cup m.symbols
          BY <1>0, <4>1 DEF ClientState
        <4>3. QED
          BY <1>0, <3>1, <4>1, <4>2 DEF Mentions
      <3>2. CASE m.op = "unsubscribe"
        <4>1. conn' = [conn EXCEPT ![k].subs = @ \ m.symbols] /\ lost' = lost
          BY <2>1, <3>2 DEF Handle
        <4>2. conn'[k].subs = conn[k].subs \ m.symbols
          BY <1>0, <4>1 DEF ClientState
        <4>3. QED
          BY <1>0, <3>2, <4>1, <4>2 DEF Mentions
      <3>3. CASE m.op \notin {"subscribe", "unsubscribe"}
        <4>1. conn' = conn /\ lost' = lost
          BY <2>1, <3>3 DEF Handle
        <4>2. QED
          BY <3>3, <4>1 DEF Mentions
      <3>4. QED
        BY <3>1, <3>2, <3>3
    <2>3. SilentInv'
      BY <1>1, <1>2, <1>3, <2>2 DEF SubsInv, SilentInv
    <2>4. AgreeInv'
      <3> SUFFICES ASSUME NEW j \in Sockets, j = tab'.socket, ready'[j] = "open", ~lost'[j],
                          NEW s \in Symbols
                   PROVE  Settles(up'[j], conn'[j].subs, s, tab'.counts[s] > 0)
        BY DEF AgreeInv
      <3>1. Settles(up[j], conn[j].subs, s, tab.counts[s] > 0)
        BY <1>1, <2>2 DEF SubsInv, AgreeInv
      <3>2. CASE j = k
        <4> DEFINE shows == tab.counts[s] > 0
        <4>1. shows \in BOOLEAN /\ Settles(up[k], conn[k].subs, s, shows)
          BY <3>1, <3>2
        <4> HIDE DEF shows
        <4>2. Settles(Tail(up[k]), conn'[k].subs, s, shows)
          BY <1>0, <2>2, <4>1, SettlesHandled DEF m
        <4>3. QED
          BY <1>1, <1>2, <3>2, <4>2 DEF shows
      <3>3. CASE j # k
        BY <1>1, <1>2, <2>2, <3>1, <3>3
      <3>4. QED
        BY <3>2, <3>3
    <2>5. QED
      BY <2>3, <2>4 DEF SubsInv
  <1>5. CASE conn[k].at # "live"
    <2>1. /\ conn' = conn /\ lost'[k]
          /\ \A j \in Sockets \ {k} : lost'[j] = lost[j]
      BY <1>0, <1>5 DEF OnMessage
    <2>2. SilentInv'
      BY <1>1, <1>2, <1>3, <2>1 DEF SubsInv, SilentInv
    <2>3. AgreeInv'
      BY <1>1, <1>2, <2>1 DEF SubsInv, AgreeInv
    <2>4. QED
      BY <2>2, <2>3 DEF SubsInv
  <1>6. QED
    BY <1>4, <1>5

(* Every other step leaves the sockets as they are or closes some.         *)
LEMMA OthersSubs ==
    ASSUME ChannelTypeOK, SubsInv,
           \/ \E k \in Sockets : OnClose(k) \/ Receive(k) \/ Authenticated(k) \/ CloseSocket(k)
           \/ Reconnect \/ SignInOrOut \/ Restart
           \/ \E u \in Users : Trade(u) \/ Transfer(u) \/ Evaluate(u)
           \/ \E b \in builds : ReadPositions(b) \/ Finish(b) \/ BuildFails(b)
           \/ UNCHANGED channelVars
    PROVE  SubsInv'
  <1>0. /\ ready \in [Sockets -> ReadyState] /\ conn \in [Sockets -> ClientState]
        /\ up \in [Sockets -> Seq(Message)] /\ lost \in [Sockets -> BOOLEAN]
        /\ tab \in Tab /\ NoSocket \notin Sockets
    BY DEF ChannelTypeOK, NoSocket, Sockets
  <1> DEFINE Rest == (\A k \in Sockets : Undisturbed(k)) /\ SameWants /\ SocketKept
  <1>1. ASSUME NEW k \in Sockets, OnClose(k) PROVE Rest
    <2>1. up[k] = <<>>
      BY <1>1 DEF OnClose, SubsInv, SilentInv
    <2>2. /\ ready'[k] = "closed" /\ \A j \in Sockets \ {k} : ready'[j] = ready[j]
          /\ UNCHANGED <<up, conn, lost>>
      BY <1>0, <1>1 DEF OnClose, wires
    <2>3. tab'.socket = NoSocket /\ tab'.counts = tab.counts
      BY <1>0, <1>1 DEF OnClose, Tab
    <2>4. QED
      BY <1>0, <2>1, <2>2, <2>3 DEF Undisturbed, SameWants, SocketKept
  <1>2. ASSUME NEW k \in Sockets, Receive(k) PROVE Rest
    BY <1>2 DEF Receive, tabVars, Undisturbed, SameWants, SocketKept
  <1>3. ASSUME NEW k \in Sockets, Authenticated(k) PROVE Rest
    <2>1. PICK u \in {conn[k].user, Nobody} :
            conn' = [conn EXCEPT ![k].at = "live", ![k].user = u]
      BY <1>3 DEF Authenticated
    <2>2. \A j \in Sockets : conn'[j].subs = conn[j].subs
      BY <1>0, <2>1 DEF ClientState
    <2>3. QED
      BY <1>3, <2>2 DEF Authenticated, tabVars, wires, Undisturbed, SameWants, SocketKept
  <1>4. ASSUME NEW k \in Sockets, CloseSocket(k) PROVE Rest
    <2>1. /\ ready'[k] = "closing" /\ up'[k] = <<>>
          /\ \A j \in Sockets \ {k} : /\ ready'[j] = ready[j] /\ up'[j] = up[j]
                                      /\ lost'[j] = lost[j]
          /\ tab' = tab
      BY <1>0, <1>4 DEF CloseSocket
    <2>2. \A j \in Sockets \ {k} : conn'[j] = conn[j]
      BY <1>0, <1>4 DEF CloseSocket, Ended
    <2>3. QED
      BY <2>1, <2>2 DEF Undisturbed, SameWants, SocketKept
  <1>5. ASSUME Reconnect PROVE Rest
    <2> DEFINE t == [tab EXCEPT !.timers = @ - 1]
    <2>1. tab.timers - 1 \in Nat
      BY <1>0, <1>5 DEF Reconnect, Tab
    <2>2. t \in Tab /\ t.socket = tab.socket /\ t.counts = tab.counts
      BY <1>0, <2>1 DEF Tab
    <2>3. Ensure(t) /\ UNCHANGED <<up, lost>>
      BY <1>5 DEF Reconnect, wires
    <2> HIDE DEF t
    <2>4. QED
      BY <2>2, <2>3, EnsureSubs DEF Undisturbed, SameWants
  <1>6. ASSUME SignInOrOut \/ UNCHANGED channelVars PROVE Rest
    BY <1>6 DEF SignInOrOut, channelVars, tabVars, wires, Undisturbed, SameWants, SocketKept
  <1>7. CASE Restart
    <2> DEFINE cut == {k \in Sockets : ready[k] \in {"connecting", "open"}}
    <2>1. /\ \A k \in cut : ready'[k] = "closing"
          /\ \A k \in Sockets \ cut : ready'[k] = ready[k] /\ conn'[k] = conn[k]
          /\ \A k \in Sockets : up'[k] = <<>> /\ ~lost'[k]
          /\ tab' = tab
      BY <1>7 DEF Restart
    <2>2. \A k \in Sockets \ cut : ready[k] \in {"none", "closing", "closed"} /\ up[k] = <<>>
      BY <1>0 DEF SubsInv, SilentInv, ReadyState
    <2>3. SilentInv'
      BY <2>1, <2>2 DEF SubsInv, SilentInv
    <2>4. AgreeInv'
      BY <2>1, <2>2 DEF AgreeInv
    <2>5. QED
      BY <2>3, <2>4 DEF SubsInv
  <1>8. ASSUME NEW u \in Users, Trade(u) \/ Transfer(u) \/ Evaluate(u) PROVE Rest
    BY <1>8 DEF Trade, Transfer, Evaluate, tabVars, wires, Undisturbed, SameWants, SocketKept
  <1>9. ASSUME NEW b \in builds, ReadPositions(b) PROVE Rest
    BY <1>9 DEF ReadPositions, tabVars, wires, Undisturbed, SameWants, SocketKept
  <1>10. ASSUME NEW b \in builds, Finish(b) PROVE Rest
    <2>1. UNCHANGED <<tab, ready, up, lost>>
      BY <1>10 DEF Finish, tabVars
    <2>2. \A k \in Sockets : \/ conn'[k] = conn[k]
                             \/ conn'[k] = [conn[k] EXCEPT !.accounts = @ \cup {b.account}]
      BY <1>10 DEF Finish
    <2>3. ASSUME NEW k \in Sockets PROVE conn'[k].subs = conn[k].subs
      <3> DEFINE c == conn[k]
      <3>1. c \in ClientState
        BY <1>0
      <3>2. conn'[k] = c \/ conn'[k] = [c EXCEPT !.accounts = @ \cup {b.account}]
        BY <2>2
      <3> HIDE DEF c
      <3>3. conn'[k].subs = c.subs
        BY <3>1, <3>2 DEF ClientState
      <3>4. QED
        BY <3>3 DEF c
    <2>4. QED
      BY <2>1, <2>3 DEF Undisturbed, SameWants, SocketKept
  <1>11. ASSUME NEW b \in builds, BuildFails(b) PROVE Rest
    <2>1. UNCHANGED <<tab, ready, up, conn>> /\ \A k \in Sockets : lost[k] => lost'[k]
      BY <1>11 DEF BuildFails, tabVars, wires
    <2>2. QED
      BY <2>1 DEF Undisturbed, SameWants, SocketKept
  <1>12. Rest => SubsInv'
    BY SubsUndisturbed
  <1> HIDE DEF Rest
  <1>13. QED
    BY <1>1, <1>2, <1>3, <1>4, <1>5, <1>6, <1>7, <1>8, <1>9, <1>10, <1>11, <1>12

(* When nothing is under way on the tab's socket, and nothing the tab      *)
(* asked for came to nothing, the gateway's subscriptions are the symbols  *)
(* on the page (subscribe, unsubscribe and onopen in ws.ts, onMessage in   *)
(* the gateway): for any number of symbols, components and sockets.        *)
THEOREM SubscriptionsSettle == ChannelSpec => []SubscriptionsAgree
  <1>1. ChannelInit => SubsInv
    BY DEF ChannelInit, SubsInv, SilentInv, AgreeInv, NoSocket, Sockets
  <1>2. ChannelTypeOK /\ SubsInv /\ [ChannelNext]_channelVars => SubsInv'
    <2> SUFFICES ASSUME ChannelTypeOK, SubsInv, [ChannelNext]_channelVars PROVE SubsInv'
      OBVIOUS
    <2>1. CASE PageStep \/ WatchAccount \/ SignInOrOut
      BY <2>1, SubscribeSubs, UnsubscribeSubs, WatchAccountSubs, OthersSubs DEF PageStep
    <2>2. CASE ClientStep \/ GatewayStep
      BY <2>2, OnOpenSubs, OnMessageSubs, OthersSubs DEF ClientStep, GatewayStep
    <2>3. CASE FaultStep \/ AccountStep \/ EngineStep \/ \E u \in Users : BuildStep(u)
      BY <2>3, OthersSubs DEF FaultStep, AccountStep, EngineStep, BuildStep, BuildsOf
    <2>4. QED
      BY <2>1, <2>2, <2>3, OthersSubs DEF ChannelNext
  <1>3. ChannelTypeOK /\ SubsInv => SubscriptionsAgree
    <2> SUFFICES ASSUME ChannelTypeOK, SubsInv, NEW k \in Sockets, k = tab.socket,
                        ready[k] = "open", up[k] = <<>>, ~lost[k]
                 PROVE  conn[k].subs = Shown(tab)
      BY DEF SubscriptionsAgree
    <2>1. \A s \in Symbols : s \in conn[k].subs <=> tab.counts[s] > 0
      BY DEF SubsInv, AgreeInv, Settles
    <2>2. conn[k].subs \subseteq Symbols
      BY DEF ChannelTypeOK, ClientState
    <2>3. QED
      BY <2>1, <2>2 DEF Shown
  <1>4. QED
    BY <1>1, <1>2, <1>3, InitTypes, StepTypes, PTL DEF ChannelSpec
============================================================================
