---------------------------- MODULE MarketData ----------------------------
(***************************************************************************)
(* The prices of one instrument on their way to the screen: the feed's     *)
(* callback (MarketDataService), the candles of CandleService with the     *)
(* history request, the public quotes channel of QuotesGateway over one    *)
(* connection, the quotes store of the browser, and the chart.             *)
(*                                                                         *)
(* Time is counted in ticks of the feed, of which MinuteTicks make a       *)
(* minute; a tick may be missing (the market is closed, the server down).  *)
(* A frame carries the mid price: prices and half spreads are taken as     *)
(* whole in the instrument's last digit, where rounding changes nothing.   *)
(***************************************************************************)
EXTENDS Integers, SequencesExt

CONSTANTS
    Mids,           \* mid prices
    MinuteTicks,    \* ticks in a minute
    Minutes,        \* bound on the time that passes, in minutes
    First,          \* the minute of the first boot, for which there is history
    BucketMinutes,  \* minutes in a bar of the chart
    Limits,         \* values of the history request's limit
    ChartLimit,     \* the one the chart asks for
    Drivers,        \* values of REDIS_DRIVER
    MaxWire,        \* bound on messages under way to the browser
    Nothing

ASSUME MarketAssumption ==
    /\ Mids \subseteq Int
    /\ MinuteTicks \in Nat \ {0}
    /\ Minutes \in Nat
    /\ First \in 0..Minutes
    /\ BucketMinutes \in Nat \ {0}
    /\ Limits \subseteq Nat \ {0}
    /\ ChartLimit \in Limits
    /\ Drivers \subseteq {"memory", "redis"}
    /\ MaxWire \in Nat \ {0}
    /\ Nothing \notin [ts : Int, o : Int, h : Int, l : Int, c : Int, v : Int]
    /\ Nothing \notin [t : Int, mid : Int]
    /\ Nothing \notin [time : Int, o : Int, h : Int, l : Int, c : Int]

VARIABLES
    clock,   \* the time, in ticks
    seen,    \* seen[m]: mids of minute m the running process has handled
    quoted,  \* quoted[m]: all mids of minute m
    live,    \* the candle being formed, in memory
    writes,  \* candles on their way to the database
    rows,    \* the table of one-minute candles
    driver,  \* REDIS_DRIVER
    lvc,     \* the last-value cache
    buffer,  \* the frame the next flush sends
    conn,    \* the connection: subscribed, and an mget on its way
    wire,    \* messages under way to the browser
    store,   \* the browser's quotes store
    chart    \* the chart: its phase, history, last bar and bars on screen

candles   == <<live, writes, rows>>
channel   == <<lvc, buffer, conn, wire>>
marketVars == <<clock, seen, quoted, candles, driver, channel, store, chart>>

MinuteOf(t)  == t \div MinuteTicks
BucketOf(m)  == m \div BucketMinutes
MinuteRange  == 0..(Minutes - 1)
EndOfTime    == Minutes * MinuteTicks

Candle == [ts : MinuteRange, o : Mids, h : Mids, l : Mids, c : Mids, v : Nat]
Frame  == [t : 0..EndOfTime, mid : Mids]
Bar    == [time : Nat, o : Mids, h : Mids, l : Mids, c : Mids]

Offline == [on |-> FALSE, asked |-> FALSE, reply |-> Nothing]
NoChart == [phase |-> "none", reply |-> <<>>, last |-> Nothing, bars |-> <<>>]

MarketTypeOK ==
    /\ clock \in First * MinuteTicks..EndOfTime
    /\ seen \in [MinuteRange -> Seq(Mids)]
    /\ quoted \in [MinuteRange -> SUBSET Mids]
    /\ live \in {Nothing} \cup Candle
    /\ writes \subseteq Candle
    /\ rows \in [MinuteRange -> {Nothing} \cup Candle]
    /\ driver \in Drivers
    /\ lvc \in {Nothing} \cup Frame
    /\ buffer \in {Nothing} \cup Frame
    /\ conn \in [on : BOOLEAN, asked : BOOLEAN, reply : {Nothing} \cup Frame]
    /\ wire \in Seq(Frame)
    /\ store \in {Nothing} \cup Frame
    /\ chart \in [phase : {"none", "loading", "answered", "loaded"}, reply : Seq(Bar),
                  last : {Nothing} \cup Bar, bars : Seq(Bar)]

Larger(a, b)  == IF a >= b THEN a ELSE b
Smaller(a, b) == IF a <= b THEN a ELSE b

(* backfillIfEmpty: a candle of the synthetic history opens at the close   *)
(* of the one before.  The rows are inserted in chunks; if the process     *)
(* dies between two, the table is not empty at the next boot and the rest  *)
(* is never inserted.                                                      *)
HistoryRow(path, m) ==
    [ts |-> m, o |-> path[m], c |-> path[m + 1], v |-> 1,
     h |-> Larger(path[m], path[m + 1]), l |-> Smaller(path[m], path[m + 1])]

Backfill(path, n) ==
    [m \in MinuteRange |-> IF m < n THEN HistoryRow(path, m) ELSE Nothing]

MarketInit ==
    /\ clock = First * MinuteTicks
    /\ seen = [m \in MinuteRange |-> <<>>]
    /\ live = Nothing
    /\ writes = {}
    /\ \E path \in [0..First -> Mids], n \in 0..First :
          /\ rows = Backfill(path, n)
          /\ quoted = [m \in MinuteRange |->
                         IF m < n THEN {path[m], path[m + 1]} ELSE {}]
    /\ driver \in Drivers
    /\ lvc = Nothing
    /\ buffer = Nothing
    /\ conn = Offline
    /\ wire = <<>>
    /\ store = Nothing
    /\ chart = NoChart

---------------------------------------------------------------------------
(* The feed and the candles                                                *)

NewCandle(m, mid) ==
    [ts |-> m, o |-> mid, h |-> mid, l |-> mid, c |-> mid, v |-> 1]

(* Variant: the low stays that of the first tick.                          *)
ExtendedUpwards(c, mid) ==
    [c EXCEPT !.h = Larger(@, mid), !.c = mid, !.v = @ + 1]

Extended(c, mid) ==
    [c EXCEPT !.h = Larger(@, mid), !.l = Smaller(@, mid), !.c = mid, !.v = @ + 1]

(* onMid: the first tick of a minute sends the candle before it to the     *)
(* database, without waiting.                                              *)
OnMid(mid) ==
    LET m == MinuteOf(clock)
    IN  IF live = Nothing \/ live.ts < m
        THEN /\ live' = NewCandle(m, mid)
             /\ writes' = IF live = Nothing THEN writes ELSE writes \cup {live}
        ELSE /\ live' = Extended(live, mid)
             /\ UNCHANGED writes

(* The callback of the feed: publish to the subscribed client's buffer,    *)
(* set the last-value cache, roll the candle.                              *)
Tick(mid) ==
    /\ clock < EndOfTime
    /\ LET frame == [t |-> clock, mid |-> mid]
       IN  /\ buffer' = IF conn.on THEN frame ELSE buffer
           /\ lvc' = frame
    /\ OnMid(mid)
    /\ seen' = [seen EXCEPT ![MinuteOf(clock)] = Append(@, mid)]
    /\ quoted' = [quoted EXCEPT ![MinuteOf(clock)] = @ \cup {mid}]
    /\ clock' = clock + 1
    /\ UNCHANGED <<rows, driver, conn, wire, store, chart>>

(* The market is closed, or the server down.                               *)
NoTick ==
    /\ clock < EndOfTime
    /\ clock' = clock + 1
    /\ UNCHANGED <<seen, quoted, candles, driver, channel, store, chart>>

Upsert(c) ==
    /\ writes' = writes \ {c}
    /\ rows' = [rows EXCEPT ![c.ts] = c]
    /\ UNCHANGED <<clock, seen, quoted, live, driver, channel, store, chart>>

(* persist logs the error and drops the candle.                            *)
UpsertFails(c) ==
    /\ writes' = writes \ {c}
    /\ UNCHANGED <<clock, seen, quoted, live, rows, driver, channel, store, chart>>

(* What is in memory is gone: the candle being formed, candles on their    *)
(* way, the connection, and the cache unless it is a server of its own.    *)
Restart ==
    /\ live' = Nothing
    /\ writes' = {}
    /\ seen' = IF live = Nothing THEN seen ELSE [seen EXCEPT ![live.ts] = <<>>]
    /\ lvc' = IF driver = "memory" THEN Nothing ELSE lvc
    /\ buffer' = Nothing
    /\ conn' = Offline
    /\ wire' = <<>>
    /\ UNCHANGED <<clock, quoted, rows, driver, store, chart>>

---------------------------------------------------------------------------
(* The history request                                                     *)

(* findMany with take: the newest n stored minutes.                        *)
Stored(table) == {m \in MinuteRange : table[m] # Nothing}

Newest(S, n) == {m \in S : Cardinality({k \in S : k >= m}) <= n}

(* ... and reverse: the i-th is the one with i of them up to it.           *)
Ascending(S) ==
    [i \in 1..Cardinality(S) |-> CHOOSE m \in S : Cardinality({k \in S : k <= m}) = i]

BarOf(c, time) == [time |-> time, o |-> c.o, h |-> c.h, l |-> c.l, c |-> c.c]

(* aggregateCandles: a bucket opens with its first candle, and each later  *)
(* one widens it.  (Volumes are summed likewise and left out.)             *)
Roll(out, c) ==
    LET time == BucketOf(c.ts)
    IN  IF out = <<>> \/ Last(out).time # time
        THEN Append(out, BarOf(c, time))
        ELSE [out EXCEPT ![Len(out)] =
                [time |-> time, o |-> @.o, h |-> Larger(@.h, c.h),
                 l |-> Smaller(@.l, c.l), c |-> c.c]]

AggregateCandles(m1) == FoldLeft(Roll, <<>>, m1)

(* Variant: all the buckets the rows fall into are returned.               *)
AllOf(seq, n) == seq

LastOf(seq, n) == SubSeq(seq, Larger(1, Len(seq) - n + 1), Len(seq))

(* getHistory without from and to.                                         *)
GetHistory(table, limit) ==
    LET minutes == Ascending(Newest(Stored(table), limit * BucketMinutes))
        m1      == [i \in DOMAIN minutes |-> table[minutes[i]]]
    IN  IF BucketMinutes = 1
        THEN [i \in DOMAIN m1 |-> BarOf(m1[i], m1[i].ts)]
        ELSE LastOf(AggregateCandles(m1), limit)

---------------------------------------------------------------------------
(* The quotes channel                                                      *)

(* Variant: what is not cached is sent as null.                            *)
SendNull(frame) == wire' = Append(wire, frame)

Send(frame) == wire' = IF frame = Nothing THEN wire ELSE Append(wire, frame)

(* subscribe: the client gets the cached frame.  The in-process cache      *)
(* answers before anything else runs, a Redis server some time later.      *)
Subscribe ==
    /\ ~conn.on
    /\ ~conn.asked
    /\ Len(wire) < MaxWire
    /\ IF driver = "memory"
       THEN Send(lvc) /\ conn' = [conn EXCEPT !.on = TRUE]
       ELSE conn' = [conn EXCEPT !.on = TRUE, !.asked = TRUE] /\ UNCHANGED wire
    /\ UNCHANGED <<clock, seen, quoted, candles, driver, lvc, buffer, store, chart>>

MgetReads ==
    /\ conn.asked
    /\ conn.reply = Nothing
    /\ lvc # Nothing
    /\ conn' = [conn EXCEPT !.reply = lvc]
    /\ UNCHANGED <<clock, seen, quoted, candles, driver, lvc, buffer, wire, store, chart>>

(* The answer, if there is one; nothing is sent when the server fails.     *)
MgetReturns ==
    /\ conn.asked
    /\ Len(wire) < MaxWire
    /\ Send(conn.reply)
    /\ conn' = [conn EXCEPT !.asked = FALSE, !.reply = Nothing]
    /\ UNCHANGED <<clock, seen, quoted, candles, driver, lvc, buffer, store, chart>>

(* Variant: a buffered frame outlives the subscription.                    *)
KeptBuffer == buffer

ClearedBuffer == Nothing

Unsubscribe ==
    /\ conn.on
    /\ conn' = [conn EXCEPT !.on = FALSE]
    /\ buffer' = ClearedBuffer
    /\ UNCHANGED <<clock, seen, quoted, candles, driver, lvc, wire, store, chart>>

(* The timer of the connection: the latest frame since the last flush.     *)
Flush ==
    /\ buffer # Nothing
    /\ Len(wire) < MaxWire
    /\ Send(buffer)
    /\ buffer' = Nothing
    /\ UNCHANGED <<clock, seen, quoted, candles, driver, lvc, conn, store, chart>>

Disconnect ==
    /\ buffer' = Nothing
    /\ conn' = Offline
    /\ wire' = <<>>
    /\ UNCHANGED <<clock, seen, quoted, candles, driver, lvc, store, chart>>

---------------------------------------------------------------------------
(* The browser                                                             *)

(* series.update: the last bar is replaced or a new one added.             *)
Drawn(bars, bar) ==
    IF bars # <<>> /\ Last(bars).time = bar.time
    THEN [bars EXCEPT ![Len(bars)] = bar]
    ELSE Append(bars, bar)

Opened(bucket, mid) == [time |-> bucket, o |-> mid, h |-> mid, l |-> mid, c |-> mid]

Widened(bar, mid) ==
    [bar EXCEPT !.h = Larger(@, mid), !.l = Smaller(@, mid), !.c = mid]

(* Variant: whatever is not a new bucket widens the last bar.              *)
LiveBarOfAnyTick(last, bucket, mid) ==
    IF last = Nothing THEN Opened(bucket, mid)
    ELSE IF bucket > last.time THEN Opened(bucket, mid) ELSE Widened(last, mid)

(* The forming bar after a quote; an out-of-order tick changes nothing.    *)
LiveBar(last, bucket, mid) ==
    IF last = Nothing THEN Opened(bucket, mid)
    ELSE IF bucket > last.time THEN Opened(bucket, mid)
    ELSE IF bucket = last.time THEN Widened(last, mid)
    ELSE last

(* The chart listens to the store.                                         *)
Charted(q) ==
    IF chart.phase = "none" THEN chart
    ELSE LET bar == LiveBar(chart.last, BucketOf(MinuteOf(q.t)), q.mid)
         IN  [chart EXCEPT !.last = bar, !.bars = Drawn(@, bar)]

(* A message arrives: the store keeps the quote, whatever its time.        *)
Deliver ==
    /\ wire # <<>>
    /\ wire' = Tail(wire)
    /\ store' = Head(wire)
    /\ chart' = Charted(Head(wire))
    /\ UNCHANGED <<clock, seen, quoted, candles, driver, lvc, buffer, conn>>

(* A quote of another symbol: the store's listeners are called again.      *)
OtherSymbolQuoted ==
    /\ store # Nothing
    /\ chart' = Charted(store)
    /\ UNCHANGED <<clock, seen, quoted, candles, driver, channel, store>>

OpenChart ==
    /\ chart.phase = "none"
    /\ chart' = [NoChart EXCEPT !.phase = "loading"]
    /\ UNCHANGED <<clock, seen, quoted, candles, driver, channel, store>>

ReadHistory ==
    /\ chart.phase = "loading"
    /\ chart' = [chart EXCEPT !.phase = "answered", !.reply = GetHistory(rows, ChartLimit)]
    /\ UNCHANGED <<clock, seen, quoted, candles, driver, channel, store>>

(* setData: what was drawn before is replaced, the forming bar included.   *)
ShowHistory ==
    /\ chart.phase = "answered"
    /\ chart' = [phase |-> "loaded", reply |-> <<>>, bars |-> chart.reply,
                 last |-> IF chart.reply = <<>> THEN Nothing ELSE Last(chart.reply)]
    /\ UNCHANGED <<clock, seen, quoted, candles, driver, channel, store>>

(* The request fails: the chart goes on without history.                   *)
HistoryFails ==
    /\ chart.phase \in {"loading", "answered"}
    /\ chart' = [chart EXCEPT !.phase = "loaded", !.reply = <<>>]
    /\ UNCHANGED <<clock, seen, quoted, candles, driver, channel, store>>

(* Another symbol or timeframe: a late answer is cancelled.                *)
CloseChart ==
    /\ chart.phase # "none"
    /\ chart' = NoChart
    /\ UNCHANGED <<clock, seen, quoted, candles, driver, channel, store>>

CandleStep ==
    \/ \E mid \in Mids : Tick(mid)
    \/ NoTick
    \/ \E c \in writes : Upsert(c) \/ UpsertFails(c)

ChannelStep == Subscribe \/ MgetReads \/ MgetReturns \/ Unsubscribe \/ Flush \/ Disconnect

ChartStep ==
    \/ Deliver
    \/ OtherSymbolQuoted
    \/ OpenChart
    \/ ReadHistory
    \/ ShowHistory
    \/ HistoryFails
    \/ CloseChart

MarketNext == CandleStep \/ Restart \/ ChannelStep \/ ChartStep

MarketSpec == MarketInit /\ [][MarketNext]_marketVars

---------------------------------------------------------------------------
(* Properties                                                              *)

(* What a candle of a run of ticks is, without the order of steps.         *)
Summarises(c, ticks) ==
    /\ ticks # <<>>
    /\ c.o = ticks[1]
    /\ c.c = ticks[Len(ticks)]
    /\ c.v = Len(ticks)
    /\ \E i \in DOMAIN ticks : ticks[i] = c.h
    /\ \E i \in DOMAIN ticks : ticks[i] = c.l
    /\ \A i \in DOMAIN ticks : c.l <= ticks[i] /\ ticks[i] <= c.h

(* A stored minute is the candle of all the ticks of the minute that the   *)
(* process which stored it has handled, although the write is started by   *)
(* a tick of a later minute and not waited for; only ticks before a        *)
(* restart within the minute are missing (candle.service.ts:73).           *)
StoredMinuteIsWhole ==
    \A m \in Stored(rows) :
        /\ rows[m].ts = m
        /\ m >= First => Summarises(rows[m], seen[m])

(* What a bar of stored minutes should be.                                 *)
RollsUp(bar, S) ==
    /\ bar.o = rows[Min(S)].o
    /\ bar.c = rows[Max(S)].c
    /\ bar.h = Max({rows[m].h : m \in S})
    /\ bar.l = Min({rows[m].l : m \in S})

(* The history request returns the newest buckets that have candles, in    *)
(* order, each made of all the candles stored for it: none is cut short by *)
(* the number of rows read, however many minutes are missing.              *)
HistoryHasNoCutBucket ==
    \A limit \in Limits :
        LET bars    == GetHistory(rows, limit)
            buckets == {BucketOf(m) : m \in Stored(rows)}
            shown   == Newest(buckets, limit)
        IN  /\ {bars[i].time : i \in DOMAIN bars} = shown
            /\ Len(bars) = Cardinality(shown)
            /\ \A i \in DOMAIN bars :
                  /\ i > 1 => bars[i - 1].time < bars[i].time
                  /\ RollsUp(bars[i], {m \in Stored(rows) : BucketOf(m) = bars[i].time})

(* The chart's bars ascend, as its library demands of every update, and    *)
(* none shows a price outside what was quoted in its time, whatever the    *)
(* order in which history and quotes of different age arrive.              *)
ChartIsTrue ==
    LET bars == chart.bars
    IN  /\ IF bars = <<>> THEN chart.last = Nothing ELSE chart.last = Last(bars)
        /\ \A i \in DOMAIN bars :
              LET prices == UNION {quoted[m] : m \in {k \in MinuteRange :
                                                        BucketOf(k) = bars[i].time}}
              IN  /\ i > 1 => bars[i - 1].time < bars[i].time
                  /\ {bars[i].o, bars[i].h, bars[i].l, bars[i].c} \subseteq prices

(* With the in-process cache the quote on the screen is never replaced by  *)
(* an older one, through subscriptions that come and go, flushes and       *)
(* reconnects.  (A Redis server's answer to subscribe can be overtaken by  *)
(* a flush, and the store does not look at the time of a frame.)           *)
QuotesNeverGoBack ==
    [][driver = "memory" /\ store # Nothing => store'.t >= store.t]_marketVars
============================================================================
