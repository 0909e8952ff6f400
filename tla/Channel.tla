------------------------------ MODULE Channel ------------------------------
(***************************************************************************)
(* The realtime channel between one browser tab and the gateway: the       *)
(* tab's QuotesSocket (lib/ws.ts) with its reconnects and reference        *)
(* counts, the connections of QuotesGateway with their sessions,           *)
(* subscriptions and watched accounts, and the snapshots TradingService    *)
(* builds and emits.                                                       *)
(*                                                                         *)
(* Every client has one trading account, so an account goes by its owner.  *)
(* Its content is two version numbers, of the positions and of the         *)
(* balance, as a snapshot reads the one and then the other; the quotes     *)
(* themselves are the subject of MarketData.  The tab opens its sockets    *)
(* in the order 1, 2, ...                                                  *)
(***************************************************************************)
EXTENDS Integers, FiniteSets, Sequences

CONSTANTS
    Users,
    Symbols,
    MaxCount,    \* bound on components of the page that show a symbol
    MaxFaults,   \* bound on sockets that close and database calls that fail
    MaxSockets,  \* sockets the tab opens
    MaxUp,       \* bound on messages under way to the gateway
    MaxDown,     \* bound on messages under way to the tab
    MaxChanges,  \* bound on changes of accounts and of who is signed in
    MaxBuilds,   \* bound on snapshots of an account being built when the
                 \* engine emits one
    Nobody

\* A close may cost two sockets: one opened before its handler runs, which
\* the handler forgets, and one opened in its place.
ASSUME ChannelAssumption ==
    /\ Nobody \notin Users
    /\ MaxCount \in Nat
    /\ MaxFaults \in Nat
    /\ MaxSockets \in Nat /\ MaxSockets > 2 * MaxFaults
    /\ MaxUp \in Nat /\ MaxUp >= 2
    /\ MaxDown \in Nat \ {0}
    /\ MaxChanges \in Nat
    /\ MaxBuilds \in Nat \ {0}

VARIABLES
    tab,      \* the fields of the QuotesSocket
    ready,    \* ready[k]: the readyState of a socket
    up,       \* up[k]: messages under way to the gateway
    down,     \* down[k]: snapshots under way to the tab
    conn,     \* conn[k]: the gateway's side of a socket
    lost,     \* lost[k]: something the tab asked for came to nothing
    faults,   \* faults so far
    cookie,   \* whose session the browser's cookie is
    book,     \* book[u]: the account of a user
    changes,  \* changes of accounts and of who is signed in so far
    builds,   \* snapshots being built
    shown     \* the snapshot in the tab's account store

wires       == <<up, down>>
tabVars     == <<tab, ready>>
accountVars == <<book, changes>>
channelVars == <<tab, ready, up, down, conn, lost, faults, cookie,
                 book, changes, builds, shown>>

Sockets  == 1..MaxSockets
NoSocket == 0
Watchers == 0      \* a build's addressee: whoever watches the account
Unread   == -1

Message ==
    [op : {"subscribe", "unsubscribe"}, symbols : SUBSET Symbols]
        \cup [op : {"watchAccount"}, account : Users]

Snapshot == [account : Users, pos : Nat, bal : Nat]
Build    == [to : {Watchers} \cup Sockets, account : Users, pos : Nat \cup {Unread}]
Nothing  == [account |-> Nobody]

Tab == [socket : {NoSocket} \cup Sockets, connecting : BOOLEAN,
        counts : [Symbols -> 0..MaxCount], watched : Users \cup {Nobody}, timers : Nat]

ReadyState == {"none", "connecting", "open", "closing", "closed"}

ClientState ==
    [at : {"none", "authenticating", "live", "gone"}, user : Users \cup {Nobody},
     subs : SUBSET Symbols, accounts : SUBSET Users]

Account == [pos : Nat, bal : Nat, open : BOOLEAN]

ChannelTypeOK ==
    /\ tab \in Tab
    /\ ready \in [Sockets -> ReadyState]
    /\ up \in [Sockets -> Seq(Message)]
    /\ down \in [Sockets -> Seq(Snapshot)]
    /\ conn \in [Sockets -> ClientState]
    /\ lost \in [Sockets -> BOOLEAN]
    /\ faults \in 0..MaxFaults
    /\ cookie \in Users \cup {Nobody}
    /\ book \in [Users -> Account]
    /\ changes \in 0..MaxChanges
    /\ builds \subseteq Build
    /\ shown \in {Nothing} \cup Snapshot

ChannelInit ==
    /\ tab = [socket |-> NoSocket, connecting |-> FALSE,
              counts |-> [s \in Symbols |-> 0], watched |-> Nobody, timers |-> 0]
    /\ ready = [k \in Sockets |-> "none"]
    /\ up = [k \in Sockets |-> <<>>]
    /\ down = [k \in Sockets |-> <<>>]
    /\ conn = [k \in Sockets |-> [at |-> "none", user |-> Nobody,
                                  subs |-> {}, accounts |-> {}]]
    /\ lost = [k \in Sockets |-> FALSE]
    /\ faults = 0
    /\ cookie \in Users \cup {Nobody}
    /\ book \in [Users -> [pos : {0}, bal : {0}, open : BOOLEAN]]
    /\ changes = 0
    /\ builds = {}
    /\ shown = Nothing

---------------------------------------------------------------------------
(* The tab's socket                                                        *)

Connected  == tab.socket # NoSocket /\ ready[tab.socket] \in {"connecting", "open"}
Shown(t)   == {s \in Symbols : t.counts[s] > 0}

(* ensure, after which the tab's fields are those of t.  The handshake     *)
(* carries the cookie; without one there is no session to look up and the  *)
(* connection is live at once.                                             *)
Ensure(t) ==
    IF Connected \/ t.connecting
    THEN tab' = t /\ UNCHANGED <<ready, conn>>
    ELSE \E k \in Sockets :
            /\ ready[k] = "none"
            /\ \A j \in 1..(k - 1) : ready[j] # "none"
            /\ tab' = [t EXCEPT !.socket = k, !.connecting = TRUE]
            /\ ready' = [ready EXCEPT ![k] = "connecting"]
            /\ conn' = [conn EXCEPT ![k].user = cookie, ![k].at =
                           IF cookie = Nobody THEN "live" ELSE "authenticating"]

(* rawSend on this.socket; what cannot be sent is dropped.                 *)
RawSend(messages) ==
    IF tab.socket # NoSocket /\ ready[tab.socket] = "open"
    THEN /\ Len(up[tab.socket]) + Len(messages) <= MaxUp
         /\ up' = [up EXCEPT ![tab.socket] = @ \o messages]
    ELSE UNCHANGED up

Asks(op, symbols) == IF symbols = {} THEN <<>> ELSE <<[op |-> op, symbols |-> symbols]>>

(* Variant: asks even when no account is watched.                          *)
AlwaysAsksToWatch(u) == <<[op |-> "watchAccount", account |-> u]>>

AsksToWatch(u) ==
    IF u = Nobody THEN <<>> ELSE <<[op |-> "watchAccount", account |-> u]>>

(* A component mounts: subscribe.                                          *)
Subscribe(s) ==
    /\ tab.counts[s] < MaxCount
    /\ Ensure([tab EXCEPT !.counts[s] = @ + 1])
    /\ RawSend(Asks("subscribe", IF tab.counts[s] = 0 THEN {s} ELSE {}))
    /\ UNCHANGED <<down, lost, faults, cookie, accountVars, builds, shown>>

(* Variant: a symbol is given up that another component shows.             *)
OneMore(n) == n <= 2

LastOne(n) == n <= 1

(* A component goes: unsubscribe.                                          *)
Unsubscribe(s) ==
    /\ tab.counts[s] > 0
    /\ tab' = [tab EXCEPT !.counts[s] = @ - 1]
    /\ RawSend(Asks("unsubscribe", IF LastOne(tab.counts[s]) THEN {s} ELSE {}))
    /\ UNCHANGED <<ready, down, conn, lost, faults, cookie, accountVars, builds, shown>>

(* The terminal page asks for the account of whoever is signed in.         *)
WatchAccount ==
    /\ cookie # Nobody
    /\ Ensure([tab EXCEPT !.watched = cookie])
    /\ RawSend(AsksToWatch(cookie))
    /\ UNCHANGED <<down, lost, faults, cookie, accountVars, builds, shown>>

(* onopen.                                                                 *)
OnOpen(k) ==
    /\ ready[k] = "connecting"
    /\ conn[k].at \in {"authenticating", "live"}
    /\ ready' = [ready EXCEPT ![k] = "open"]
    /\ tab' = [tab EXCEPT !.connecting = FALSE]
    /\ LET messages == Asks("subscribe", Shown(tab)) \o AsksToWatch(tab.watched)
       IN  IF tab.socket = k
           THEN up' = [up EXCEPT ![k] = @ \o messages]
           ELSE RawSend(messages)
    /\ UNCHANGED <<down, conn, lost, faults, cookie, accountVars, builds, shown>>

(* Variant: a failed attempt is still thought to be under way.             *)
StillConnecting == tab.connecting

ConnectingAfterClose == FALSE

(* onclose, of whichever socket: the current one is forgotten, and there   *)
(* will be another if the page shows a symbol.                             *)
OnClose(k) ==
    /\ ready[k] = "closing"
    /\ ready' = [ready EXCEPT ![k] = "closed"]
    /\ tab' = [tab EXCEPT !.connecting = ConnectingAfterClose, !.socket = NoSocket,
                          !.timers = IF Shown(tab) = {} THEN @ ELSE @ + 1]
    /\ UNCHANGED <<wires, conn, lost, faults, cookie, accountVars, builds, shown>>

Reconnect ==
    /\ tab.timers > 0
    /\ Ensure([tab EXCEPT !.timers = @ - 1])
    /\ UNCHANGED <<wires, lost, faults, cookie, accountVars, builds, shown>>

(* A message arrives: setSnapshot.                                         *)
Receive(k) ==
    /\ ready[k] = "open"
    /\ down[k] # <<>>
    /\ shown' = Head(down[k])
    /\ down' = [down EXCEPT ![k] = Tail(@)]
    /\ UNCHANGED <<tabVars, up, conn, lost, faults, cookie, accountVars, builds>>

SignInOrOut ==
    /\ changes < MaxChanges
    /\ changes' = changes + 1
    /\ cookie' \in Users \cup {Nobody}
    /\ UNCHANGED <<tabVars, wires, conn, lost, faults, book, builds, shown>>

---------------------------------------------------------------------------
(* The gateway                                                             *)

(* The session is found, or not, or the database fails.                    *)
Authenticated(k) ==
    /\ conn[k].at = "authenticating"
    /\ \E u \in {conn[k].user, Nobody} :
          conn' = [conn EXCEPT ![k].at = "live", ![k].user = u]
    /\ UNCHANGED <<tabVars, wires, lost, faults, cookie, accountVars, builds, shown>>

NewBuild(to, u) == [to |-> to, account |-> u, pos |-> Unread]

(* Variant: the account is loaded without the user who asks for it.        *)
AnyoneMayWatch(user, account) == user # Nobody

MayWatch(user, account) == user # Nobody /\ account = user

Handle(k, m) ==
    \/ /\ m.op = "subscribe"
       /\ conn' = [conn EXCEPT ![k].subs = @ \cup m.symbols]
       /\ UNCHANGED <<lost, builds>>
    \/ /\ m.op = "unsubscribe"
       /\ conn' = [conn EXCEPT ![k].subs = @ \ m.symbols]
       /\ UNCHANGED <<lost, builds>>
    \/ /\ m.op = "watchAccount"
       /\ builds' = IF MayWatch(conn[k].user, m.account)
                    THEN builds \cup {NewBuild(k, m.account)}
                    ELSE builds
       /\ UNCHANGED <<conn, lost>>

(* onMessage.  There is no listener before the session is looked up, and   *)
(* a message that comes then is lost.                                      *)
OnMessage(k) ==
    /\ up[k] # <<>>
    /\ up' = [up EXCEPT ![k] = Tail(@)]
    /\ IF conn[k].at = "live"
       THEN Handle(k, Head(up[k]))
       ELSE lost' = [lost EXCEPT ![k] = TRUE] /\ UNCHANGED <<conn, builds>>
    /\ UNCHANGED <<tabVars, down, faults, cookie, accountVars, shown>>

(* A connection ends, and what is being built for it reaches nobody.  (A   *)
(* close before the gateway listens is not noticed: the client stays in    *)
(* its set for good, without subscriptions and with nothing sent to it.)   *)
Ended(k) == [conn EXCEPT ![k] = [@ EXCEPT !.at = "gone", !.subs = {}, !.accounts = {}]]

CloseSocket(k) ==
    /\ ready[k] \in {"connecting", "open"}
    /\ faults < MaxFaults
    /\ faults' = faults + 1
    /\ ready' = [ready EXCEPT ![k] = "closing"]
    /\ conn' = Ended(k)
    /\ lost' = [lost EXCEPT ![k] = FALSE]
    /\ up' = [up EXCEPT ![k] = <<>>]
    /\ down' = [down EXCEPT ![k] = <<>>]
    /\ builds' = {b \in builds : b.to # k}
    /\ UNCHANGED <<tab, cookie, accountVars, shown>>

(* Every connection ends, and what was being built is forgotten.           *)
Restart ==
    LET cut == {k \in Sockets : ready[k] \in {"connecting", "open"}}
    IN  /\ faults + Cardinality(cut) <= MaxFaults
        /\ faults' = faults + Cardinality(cut)
        /\ ready' = [k \in Sockets |-> IF k \in cut THEN "closing" ELSE ready[k]]
        /\ conn' = [k \in Sockets |-> IF k \in cut THEN Ended(k)[k] ELSE conn[k]]
        /\ lost' = [k \in Sockets |-> FALSE]
        /\ up' = [k \in Sockets |-> <<>>]
        /\ down' = [k \in Sockets |-> <<>>]
        /\ builds' = {}
        /\ UNCHANGED <<tab, cookie, accountVars, shown>>

---------------------------------------------------------------------------
(* Accounts and their snapshots                                            *)

Changed(u, pos, bal, open) ==
    /\ changes < MaxChanges
    /\ changes' = changes + 1
    /\ book' = [book EXCEPT ![u] = [pos |-> @.pos + pos, bal |-> @.bal + bal, open |-> open]]

BuildsOf(u) == {b \in builds : b.account = u}

EmitSnapshot(u) == builds' = builds \cup {NewBuild(Watchers, u)}

(* An order is filled or a position modified; or a position closes, the    *)
(* last one or not.  A snapshot is emitted, for which nobody waits.        *)
Trade(u) ==
    /\ \/ Changed(u, 1, 0, TRUE)
       \/ book[u].open /\ \E open \in BOOLEAN : Changed(u, 1, 1, open)
    /\ EmitSnapshot(u)
    /\ UNCHANGED <<tabVars, wires, conn, lost, faults, cookie, shown>>

(* A transfer between wallet and account emits nothing.                    *)
Transfer(u) ==
    /\ Changed(u, 0, 1, book[u].open)
    /\ UNCHANGED <<tabVars, wires, conn, lost, faults, cookie, builds, shown>>

(* Variant: the engine's round emits no snapshot.                          *)
EmittedByNobody(u) == UNCHANGED builds

EmittedByEngine(u) == EmitSnapshot(u)

(* evaluate: the engine's round over accounts with open positions.         *)
Evaluate(u) ==
    /\ book[u].open
    /\ Cardinality(BuildsOf(u)) < MaxBuilds
    /\ EmittedByEngine(u)
    /\ UNCHANGED <<tabVars, wires, conn, lost, faults, cookie, accountVars, shown>>

ReadPositions(b) ==
    /\ b.pos = Unread
    /\ builds' = (builds \ {b}) \cup {[b EXCEPT !.pos = book[b.account].pos]}
    /\ UNCHANGED <<tabVars, wires, conn, lost, faults, cookie, accountVars, shown>>

(* The balance is read and the snapshot goes to whoever watches, or to who *)
(* asked to watch, who is only then one of the watchers.                   *)
Finish(b) ==
    LET content  == [account |-> b.account, pos |-> b.pos, bal |-> book[b.account].bal]
        asked    == Sockets \cap {b.to}
        watching == {k \in Sockets : conn[k].at = "live" /\ b.account \in conn[k].accounts}
        to       == {k \in IF b.to = Watchers THEN watching ELSE asked : ready[k] = "open"}
    IN  /\ b.pos # Unread
        /\ \A k \in to : Len(down[k]) < MaxDown
        /\ builds' = builds \ {b}
        /\ conn' = [k \in Sockets |-> IF k \in asked
                                      THEN [conn[k] EXCEPT !.accounts = @ \cup {b.account}]
                                      ELSE conn[k]]
        /\ down' = [k \in Sockets |-> IF k \in to THEN Append(down[k], content) ELSE down[k]]
        /\ UNCHANGED <<tabVars, up, lost, faults, cookie, accountVars, shown>>

(* The database fails: the emission is dropped, the wish to watch refused. *)
BuildFails(b) ==
    /\ faults < MaxFaults
    /\ faults' = faults + 1
    /\ builds' = builds \ {b}
    /\ lost' = [k \in Sockets |-> lost[k] \/ k = b.to]
    /\ UNCHANGED <<tabVars, wires, conn, cookie, accountVars, shown>>

---------------------------------------------------------------------------

PageStep    == \E s \in Symbols : Subscribe(s) \/ Unsubscribe(s)
ClientStep  == (\E k \in Sockets : OnOpen(k) \/ OnClose(k) \/ Receive(k)) \/ Reconnect
GatewayStep == \E k \in Sockets : Authenticated(k) \/ OnMessage(k)
BuildStep(u) ==
    \E b \in BuildsOf(u) : ReadPositions(b) \/ Finish(b)
FaultStep   == (\E k \in Sockets : CloseSocket(k)) \/ Restart \/ \E b \in builds : BuildFails(b)
AccountStep == \E u \in Users : Trade(u) \/ Transfer(u)
EngineStep  == \E u \in Users : Evaluate(u)

ChannelNext ==
    \/ PageStep
    \/ WatchAccount
    \/ SignInOrOut
    \/ ClientStep
    \/ GatewayStep
    \/ FaultStep
    \/ AccountStep
    \/ EngineStep
    \/ \E u \in Users : BuildStep(u)

ChannelSpec == ChannelInit /\ [][ChannelNext]_channelVars

(* What the browser and the server do by themselves: events are delivered, *)
(* timers fire, database calls return, and the engine goes round.  People  *)
(* act or not, and faults stop at their bound.                             *)
Fairness ==
    /\ WF_channelVars(Reconnect)
    /\ \A k \in Sockets :
          /\ WF_channelVars(OnOpen(k))
          /\ WF_channelVars(OnClose(k))
          /\ WF_channelVars(Receive(k))
          /\ WF_channelVars(Authenticated(k))
          /\ WF_channelVars(OnMessage(k))
    /\ \A u \in Users :
          /\ WF_channelVars(Evaluate(u))
          /\ WF_channelVars(\E b \in BuildsOf(u) : ReadPositions(b))
          /\ WF_channelVars(\E b \in BuildsOf(u) : Finish(b))

---------------------------------------------------------------------------
(* Properties                                                              *)

(* An account is watched, and its snapshots are on their way, only on      *)
(* connections whose handshake carried a session of its owner, whoever     *)
(* signs in or out in the tab meanwhile and whatever the tab asks to watch *)
(* when it reconnects.                                                     *)
OnlyTheOwnerWatches ==
    \A k \in Sockets :
        /\ conn[k].accounts \subseteq {conn[k].user}
        /\ \A i \in DOMAIN down[k] : down[k][i].account = conn[k].user

(* When nothing is under way on the tab's socket, and nothing the tab      *)
(* asked for came to nothing, the gateway's subscriptions are the symbols  *)
(* that some component shows: across mounts, reconnects and sockets whose  *)
(* closing is noticed late, none is missing and none left over.            *)
SubscriptionsAgree ==
    \A k \in Sockets \cap {tab.socket} :
        ready[k] = "open" /\ conn[k].at = "live" /\ up[k] = <<>> /\ ~lost[k]
            => conn[k].subs = Shown(tab)

Streaming(s) ==
    \E k \in Sockets \cap {tab.socket} :
        ready[k] = "open" /\ (lost[k] \/ (conn[k].at = "live" /\ s \in conn[k].subs))

(* "Resubscribes on reconnect" (ws.ts:15): a symbol on the page is again   *)
(* streamed after every close, restart and failed attempt, unless the      *)
(* request is lost while the gateway looks the session up.                 *)
SubscriptionIsKept ==
    \A s \in Symbols : tab.counts[s] > 0 ~> tab.counts[s] = 0 \/ Streaming(s)

(* The tab's one socket watches the account of its session, which trades.  *)
Watching(u) ==
    /\ tab.watched = u
    /\ book[u].open
    /\ {k \in Sockets : ready[k] = "open"} = {tab.socket}
    /\ conn[tab.socket].at = "live"
    /\ conn[tab.socket].user = u
    /\ ~lost[tab.socket]

Latest(u) == [account |-> u, pos |-> book[u].pos, bal |-> book[u].bal]

(* "1 Hz + on change" (quotes.gateway.ts:29): a tab that goes on watching  *)
(* an account with open positions comes to show its latest state and keeps *)
(* it, whatever stale, torn or overtaken snapshots were under way.  (Of an *)
(* account without positions a stale snapshot may stay.)                   *)
AccountIsShown ==
    \A u \in Users : <>[]Watching(u) => <>[](shown = Latest(u))
============================================================================
