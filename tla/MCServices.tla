---------------------------- MODULE MCServices ----------------------------
(* The services beside the money, checked in one run: a behaviour is about *)
(* one subject and leaves the variables of the others as they began.       *)
(* Accounts and sessions share no state with the prices; of the prices,    *)
(* the candle store, the quotes channel and the chart are each run with    *)
(* the steps that can disturb them.                                        *)
EXTENDS Sessions, MarketData, TLC

VARIABLE subject

Symmetry ==
    UNION {Permutations(S) : S \in {Browsers, SessionIds, Secrets, Passwords}}

(* Quotes are told apart by their time, so one price for each is enough.   *)
AnyMid == CHOOSE mid \in Mids : TRUE

Init ==
    /\ SessionsInit
    /\ MarketInit
    /\ subject \in {"sessions", "storage", "quotes", "chart"}
    /\ subject # "quotes" => driver = "memory"
    /\ subject # "storage" => \A m \in Stored(rows) : rows[m].o = AnyMid /\ rows[m].c = AnyMid
    /\ subject # "sessions" => {u \in Users : users[u].exists} = {Admin}
    /\ subject = "sessions" => rows = [m \in MinuteRange |-> Nothing] /\ quoted[0] = {}

QuotesStep == Tick(AnyMid) \/ Restart \/ ChannelStep \/ Deliver

HistoryStep ==
    \/ \E mid \in Mids : Tick(mid)
    \/ \E c \in writes : Upsert(c)
    \/ Subscribe
    \/ Flush
    \/ ChartStep

MarketStep ==
    \/ subject = "storage" /\ (CandleStep \/ Restart)
    \/ subject = "quotes" /\ QuotesStep
    \/ subject = "chart" /\ HistoryStep

Next ==
    /\ UNCHANGED subject
    /\ \/ subject = "sessions" /\ SessionsNext /\ UNCHANGED marketVars
       \/ MarketStep /\ UNCHANGED sessionVars

Spec == Init /\ [][Next]_<<subject, sessionVars, marketVars>>
===========================================================================
