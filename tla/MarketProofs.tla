---------------------------- MODULE MarketProofs ----------------------------
(***************************************************************************)
(* Proofs about MarketData, for any number of minutes, ticks and prices.   *)
(*                                                                         *)
(* The candles: a minute belongs to the candle being formed until a tick   *)
(* of a later minute hands it to the database, so what is on its way or    *)
(* stored is of minutes that get no more ticks (CandleInv).  The quotes:   *)
(* with the in-process cache, whatever is sent is the cached frame, which  *)
(* is at least as new as all that is under way (QuoteInv).  The history:   *)
(* aggregateCandles is followed candle by candle (RollAddsMinute), and the *)
(* rows of the newest buckets are counted (WholeBucketsAreRead); that each *)
(* step of the fold is right is proved by looking at a first wrong one.    *)
(* The screen: every frame, candle and bar, wherever it is under way, has  *)
(* prices that were quoted in its time (ScreenInv).                        *)
(***************************************************************************)
EXTENDS MarketData, SequenceTheorems, FiniteSetTheorems, WellFoundedInduction, TLAPS

LiveInv ==
    live # Nothing =>
        /\ First <= live.ts
        /\ live.ts <= MinuteOf(clock)
        /\ Summarises(live, seen[live.ts])

SeenInv ==
    \A m \in MinuteRange :
        seen[m] # <<>> => m < MinuteOf(clock) \/ (live # Nothing /\ m = live.ts)

WritesInv ==
    \A c \in writes :
        /\ First <= c.ts
        /\ c.ts < MinuteOf(clock)
        /\ live # Nothing => c.ts < live.ts
        /\ Summarises(c, seen[c.ts])

RowsInv ==
    \A m \in MinuteRange :
        rows[m] # Nothing =>
            /\ rows[m].ts = m
            /\ m >= First => /\ m < MinuteOf(clock)
                             /\ live # Nothing => m < live.ts
                             /\ Summarises(rows[m], seen[m])

CandleTypeOK ==
    /\ clock \in First * MinuteTicks..EndOfTime
    /\ seen \in [MinuteRange -> Seq(Mids)]
    /\ live \in {Nothing} \cup Candle
    /\ writes \subseteq Candle
    /\ rows \in [MinuteRange -> {Nothing} \cup Candle]

CandleInv == CandleTypeOK /\ LiveInv /\ SeenInv /\ WritesInv /\ RowsInv

---------------------------------------------------------------------------
(* Minutes and candles                                                     *)

LEMMA MultiplesAscend ==
    ASSUME NEW a \in Int, NEW b \in Int, NEW k \in Nat \ {0}, a * k < b * k
    PROVE  a < b
  OBVIOUS

(* What a minute is, whatever the number of ticks in it.                   *)
LEMMA MinuteBounds ==
    ASSUME NEW t \in Nat
    PROVE  /\ MinuteOf(t) \in Nat
           /\ MinuteOf(t) * MinuteTicks <= t
           /\ t < (MinuteOf(t) + 1) * MinuteTicks
  <1>1. MinuteTicks \in Nat \ {0}
    BY MarketAssumption
  <1> DEFINE k == MinuteTicks
  <1> HIDE DEF k
  <1>2. k \in Nat \ {0}
    BY <1>1 DEF k
  <1>3. (t \div k) \in Nat /\ (t \div k) * k <= t /\ t < ((t \div k) + 1) * k
    BY <1>2
  <1>4. QED
    BY <1>3 DEF MinuteOf, k

LEMMA MinuteFacts ==
    ASSUME NEW t \in Nat
    PROVE  /\ MinuteOf(t) <= MinuteOf(t + 1)
           /\ t < EndOfTime => MinuteOf(t) \in MinuteRange
           /\ t >= First * MinuteTicks => First <= MinuteOf(t)
  <1>1. MinuteTicks \in Nat \ {0} /\ Minutes \in Nat /\ First \in Nat
    BY MarketAssumption
  <1> DEFINE m == MinuteOf(t)
             n == MinuteOf(t + 1)
  <1>2. /\ m \in Nat /\ m * MinuteTicks <= t /\ t < (m + 1) * MinuteTicks
        /\ n \in Nat /\ t + 1 < (n + 1) * MinuteTicks
    <2>1. t + 1 \in Nat
      OBVIOUS
    <2>2. QED
      BY <2>1, MinuteBounds
  <1> HIDE DEF m, n
  <1>3. /\ m * MinuteTicks \in Int
        /\ (m + 1) * MinuteTicks \in Int
        /\ (n + 1) * MinuteTicks \in Int
        /\ Minutes * MinuteTicks \in Int
        /\ First * MinuteTicks \in Int
    BY <1>1, <1>2
  <1>4. m <= n
    <2>1. m * MinuteTicks < (n + 1) * MinuteTicks
      BY <1>2, <1>3
    <2>2. m < n + 1
      BY <1>1, <1>2, <2>1, MultiplesAscend
    <2>3. QED
      BY <1>2, <2>2
  <1>5. t < EndOfTime => m \in MinuteRange
    <2>1. SUFFICES ASSUME t < EndOfTime PROVE m < Minutes
      BY <1>1, <1>2 DEF MinuteRange
    <2>2. m * MinuteTicks < Minutes * MinuteTicks
      BY <1>2, <1>3, <2>1 DEF EndOfTime
    <2>3. QED
      BY <1>1, <1>2, <2>2, MultiplesAscend
  <1>6. t >= First * MinuteTicks => First <= m
    <2>1. SUFFICES ASSUME t >= First * MinuteTicks PROVE First < m + 1
      BY <1>1, <1>2
    <2>2. First * MinuteTicks < (m + 1) * MinuteTicks
      BY <1>2, <1>3, <2>1
    <2>3. QED
      BY <1>1, <1>2, <2>2, MultiplesAscend
  <1>7. QED
    BY <1>4, <1>5, <1>6 DEF m, n

LEMMA NothingIsNoCandle == Nothing \notin Candle
  <1>1. Candle \subseteq [ts : Int, o : Int, h : Int, l : Int, c : Int, v : Int]
    <2>1. Mids \subseteq Int /\ MinuteRange \subseteq Int
      BY MarketAssumption DEF MinuteRange
    <2>2. SUFFICES ASSUME NEW c \in Candle
                   PROVE  c \in [ts : Int, o : Int, h : Int, l : Int, c : Int, v : Int]
      OBVIOUS
    <2>3. /\ c = [ts |-> c.ts, o |-> c.o, h |-> c.h, l |-> c.l, c |-> c.c, v |-> c.v]
          /\ c.ts \in MinuteRange /\ c.v \in Nat
          /\ c.o \in Mids /\ c.h \in Mids /\ c.l \in Mids /\ c.c \in Mids
      BY DEF Candle
    <2>4. c.ts \in Int /\ c.o \in Int /\ c.h \in Int /\ c.l \in Int /\ c.c \in Int /\ c.v \in Int
      BY <2>1, <2>3
    <2>5. QED
      BY <2>3, <2>4
  <1>2. QED
    BY <1>1, MarketAssumption

(* The first tick of a minute is summarised by the candle it begins.       *)
LEMMA NewCandleSummarises ==
    ASSUME NEW m \in MinuteRange, NEW mid \in Mids
    PROVE  /\ NewCandle(m, mid) \in Candle
           /\ NewCandle(m, mid).ts = m
           /\ Summarises(NewCandle(m, mid), Append(<<>>, mid))
  <1>1. mid \in Int
    BY MarketAssumption
  <1>2. NewCandle(m, mid) \in Candle /\ NewCandle(m, mid).ts = m
    BY DEF NewCandle, Candle
  <1>3. /\ Append(<<>>, mid) = <<mid>>
        /\ Len(<<mid>>) = 1 /\ DOMAIN <<mid>> = {1} /\ <<mid>>[1] = mid
    OBVIOUS
  <1>4. Summarises(NewCandle(m, mid), <<mid>>)
    BY <1>1, <1>3 DEF NewCandle, Summarises
  <1>5. QED
    BY <1>2, <1>3, <1>4

(* A candle that summarises some ticks, extended, summarises one more.     *)
LEMMA ExtendedSummarises ==
    ASSUME NEW c \in Candle, NEW ticks \in Seq(Mids), NEW mid \in Mids, Summarises(c, ticks)
    PROVE  /\ Extended(c, mid) \in Candle
           /\ Extended(c, mid).ts = c.ts
           /\ Summarises(Extended(c, mid), Append(ticks, mid))
  <1> DEFINE n   == Len(ticks)
             new == Append(ticks, mid)
             e   == Extended(c, mid)
  <1>1. /\ mid \in Int /\ c.h \in Int /\ c.l \in Int /\ c.v \in Nat
        /\ c.h \in Mids /\ c.l \in Mids
    BY MarketAssumption DEF Candle
  <1>2. /\ e.ts = c.ts /\ e.o = c.o /\ e.c = mid /\ e.v = c.v + 1
        /\ e.h = Larger(c.h, mid) /\ e.l = Smaller(c.l, mid)
        /\ e \in Candle
    <2> DEFINE h == Larger(c.h, mid)
               l == Smaller(c.l, mid)
    <2>1. h \in Mids /\ l \in Mids
      BY <1>1 DEF Larger, Smaller
    <2>2. e = [c EXCEPT !.h = h, !.l = l, !.c = mid, !.v = c.v + 1]
      BY DEF Extended
    <2>3. c.v + 1 \in Nat
      BY <1>1
    <2> HIDE DEF h, l, e
    <2>4. /\ e.ts = c.ts /\ e.o = c.o /\ e.c = mid /\ e.v = c.v + 1 /\ e.h = h /\ e.l = l
          /\ e \in Candle
      BY <2>1, <2>2, <2>3 DEF Candle
    <2>5. QED
      BY <2>4 DEF h, l
  <1>3. n \in Nat /\ n >= 1 /\ DOMAIN ticks = 1..n
    BY DEF Summarises
  <1>4. /\ Len(new) = n + 1 /\ DOMAIN new = 1..(n + 1)
        /\ new[n + 1] = mid
        /\ \A i \in 1..n : new[i] = ticks[i]
    BY <1>3
  <1>5. \A i \in 1..n : ticks[i] \in Int
    BY <1>3, MarketAssumption, ElementOfSeq
  <1> HIDE DEF n, new, e
  <1>6. /\ ticks[1] = c.o /\ c.v = n
        /\ \E i \in 1..n : ticks[i] = c.h
        /\ \E i \in 1..n : ticks[i] = c.l
        /\ \A i \in 1..n : c.l <= ticks[i] /\ ticks[i] <= c.h
    BY <1>3 DEF Summarises, n
  <1>7. new # <<>> /\ e.o = new[1] /\ e.c = new[Len(new)] /\ e.v = Len(new)
    BY <1>2, <1>3, <1>4, <1>6
  <1>8. (e.h = c.h \/ e.h = mid) /\ (e.l = c.l \/ e.l = mid)
    BY <1>2 DEF Larger, Smaller
  <1>9. (\E i \in 1..(n + 1) : new[i] = e.h) /\ (\E i \in 1..(n + 1) : new[i] = e.l)
    <2>1. 1..n \subseteq 1..(n + 1) /\ n + 1 \in 1..(n + 1)
      BY <1>3
    <2>2. QED
      BY <1>4, <1>6, <1>8, <2>1
  <1>10. \A i \in 1..(n + 1) : e.l <= new[i] /\ new[i] <= e.h
    <2>1. /\ e.l <= c.l /\ e.l <= mid /\ c.h <= e.h /\ mid <= e.h
          /\ e.l \in Int /\ e.h \in Int
      BY <1>1, <1>2 DEF Larger, Smaller
    <2>2. \A i \in 1..n : e.l <= ticks[i] /\ ticks[i] <= e.h
      <3> SUFFICES ASSUME NEW i \in 1..n PROVE e.l <= ticks[i] /\ ticks[i] <= e.h
        OBVIOUS
      <3>1. ticks[i] \in Int /\ c.l <= ticks[i] /\ ticks[i] <= c.h
        BY <1>5, <1>6
      <3>2. QED
        BY <1>1, <2>1, <3>1
    <2>3. \A i \in 1..(n + 1) : i \in 1..n \/ i = n + 1
      BY <1>3
    <2>4. QED
      BY <1>4, <2>1, <2>2, <2>3
  <1>11. Summarises(e, new)
    BY <1>4, <1>7, <1>9, <1>10 DEF Summarises
  <1>12. QED
    BY <1>2, <1>11 DEF e, new

---------------------------------------------------------------------------
(* The candles step by step                                                *)

LEMMA CandleInitInv == MarketInit => CandleInv
  <1> SUFFICES ASSUME MarketInit PROVE CandleInv
    OBVIOUS
  <1>0. First \in 0..Minutes /\ Minutes \in Nat /\ MinuteTicks \in Nat \ {0} /\ Mids \subseteq Int
    BY MarketAssumption
  <1>1. PICK path \in [0..First -> Mids], n \in 0..First : rows = Backfill(path, n)
    BY DEF MarketInit
  <1>2. ASSUME NEW m \in MinuteRange
        PROVE  /\ rows[m] \in {Nothing} \cup Candle
               /\ rows[m] # Nothing => rows[m].ts = m /\ m < First
    <2>1. CASE m < n
      <3>1. rows[m] = HistoryRow(path, m)
        BY <1>1, <2>1 DEF Backfill
      <3>2. m \in 0..First /\ m + 1 \in 0..First /\ m < First
        BY <1>0, <2>1 DEF MinuteRange
      <3>3. path[m] \in Mids /\ path[m + 1] \in Mids
        BY <3>2
      <3>4. HistoryRow(path, m) \in Candle /\ HistoryRow(path, m).ts = m
        <4> DEFINE h == Larger(path[m], path[m + 1])
                   l == Smaller(path[m], path[m + 1])
        <4>1. h \in Mids /\ l \in Mids
          BY <3>3 DEF Larger, Smaller
        <4> HIDE DEF h, l
        <4>2. [ts |-> m, o |-> path[m], c |-> path[m + 1], v |-> 1, h |-> h, l |-> l] \in Candle
          BY <3>3, <4>1 DEF Candle
        <4>3. QED
          BY <4>2 DEF HistoryRow, h, l
      <3>5. QED
        BY <3>1, <3>2, <3>4
    <2>2. CASE ~(m < n)
      BY <1>1, <2>2 DEF Backfill
    <2>3. QED
      BY <2>1, <2>2
  <1>3. clock \in First * MinuteTicks..EndOfTime
    <2>1. First * MinuteTicks \in Int /\ Minutes * MinuteTicks \in Int
      BY <1>0
    <2>2. ~(Minutes * MinuteTicks < First * MinuteTicks)
      <3>1. Minutes * MinuteTicks < First * MinuteTicks => Minutes < First
        BY <1>0, MultiplesAscend
      <3>2. QED
        BY <1>0, <3>1
    <2>3. QED
      BY <2>1, <2>2 DEF MarketInit, EndOfTime
  <1>4. CandleTypeOK
    <2>1. rows \in [MinuteRange -> {Nothing} \cup Candle]
      BY <1>1, <1>2 DEF Backfill
    <2>2. seen \in [MinuteRange -> Seq(Mids)]
      BY DEF MarketInit
    <2>3. QED
      BY <1>3, <2>1, <2>2 DEF CandleTypeOK, MarketInit
  <1>5. LiveInv /\ SeenInv /\ WritesInv
    BY DEF MarketInit, LiveInv, SeenInv, WritesInv
  <1>6. RowsInv
    BY <1>0, <1>2 DEF RowsInv, MinuteRange
  <1>7. QED
    BY <1>4, <1>5, <1>6 DEF CandleInv

(* The clock is a natural number, and its minute one of the range while    *)
(* there is time.                                                          *)
LEMMA ClockFacts ==
    ASSUME CandleTypeOK
    PROVE  /\ clock \in Nat
           /\ MinuteOf(clock) \in Nat
           /\ First <= MinuteOf(clock)
           /\ MinuteOf(clock) <= MinuteOf(clock + 1)
           /\ MinuteOf(clock + 1) \in Nat
           /\ clock < EndOfTime => /\ MinuteOf(clock) \in MinuteRange
                                   /\ clock + 1 \in First * MinuteTicks..EndOfTime
  <1>1. First * MinuteTicks \in Nat /\ EndOfTime \in Nat
    BY MarketAssumption DEF EndOfTime
  <1>2. clock \in Nat /\ clock >= First * MinuteTicks /\ clock + 1 \in Nat
    BY <1>1 DEF CandleTypeOK
  <1>3. /\ MinuteOf(clock) \in Nat
        /\ First <= MinuteOf(clock)
        /\ MinuteOf(clock) <= MinuteOf(clock + 1)
        /\ MinuteOf(clock + 1) \in Nat
        /\ clock < EndOfTime => MinuteOf(clock) \in MinuteRange
    BY <1>2, MinuteFacts, MinuteBounds
  <1>4. clock < EndOfTime => clock + 1 \in First * MinuteTicks..EndOfTime
    BY <1>1, <1>2
  <1>5. QED
    BY <1>2, <1>3, <1>4

LEMMA TickKeepsCandles ==
    ASSUME CandleInv, NEW mid \in Mids, Tick(mid)
    PROVE  CandleInv'
  <1> DEFINE m    == MinuteOf(clock)
             next == MinuteOf(clock + 1)
             all  == Append(seen[m], mid)
  <1>1. /\ clock < EndOfTime /\ clock' = clock + 1 /\ OnMid(mid)
        /\ seen' = [seen EXCEPT ![m] = all]
        /\ UNCHANGED rows
    BY DEF Tick
  <1>2. /\ m \in MinuteRange /\ m \in Nat /\ First <= m /\ m <= next /\ next \in Nat
        /\ clock' \in First * MinuteTicks..EndOfTime
        /\ MinuteOf(clock') = next
    BY <1>1, ClockFacts DEF CandleInv
  <1>3. First \in Nat
    BY MarketAssumption
  <1>4. /\ seen[m] \in Seq(Mids) /\ all \in Seq(Mids)
        /\ seen' \in [MinuteRange -> Seq(Mids)]
        /\ seen'[m] = all
        /\ \A k \in MinuteRange \ {m} : seen'[k] = seen[k]
    BY <1>1, <1>2 DEF CandleInv, CandleTypeOK
  <1>5. /\ live \in {Nothing} \cup Candle
        /\ live # Nothing => live \in Candle /\ live.ts \in MinuteRange /\ live.ts \in Nat
        /\ \A c \in writes : c \in Candle /\ c.ts \in MinuteRange /\ c.ts \in Nat
        /\ \A k \in MinuteRange : k \in Nat
    BY DEF CandleInv, CandleTypeOK, Candle, MinuteRange
  <1> HIDE DEF m, next, all
  <1>6. MinuteOf(clock) = m
    BY DEF m
  <1>7. CASE live = Nothing \/ live.ts < m
    <2> DEFINE new == NewCandle(m, mid)
    <2>1. /\ live' = new
          /\ writes' = IF live = Nothing THEN writes ELSE writes \cup {live}
      BY <1>1, <1>7 DEF OnMid, m
    <2>2. seen[m] = <<>>
      <3>1. seen[m] # <<>> => m < m \/ (live # Nothing /\ m = live.ts)
        BY <1>2, <1>6 DEF CandleInv, SeenInv
      <3>2. QED
        BY <1>2, <1>5, <1>7, <3>1
    <2>3. new \in Candle /\ new.ts = m /\ Summarises(new, all)
      BY <1>2, <2>2, NewCandleSummarises DEF all
    <2>4. new # Nothing
      BY <2>3, NothingIsNoCandle
    <2> HIDE DEF new
    <2>5. CandleTypeOK'
      BY <1>1, <1>2, <1>4, <1>5, <2>1, <2>3 DEF CandleInv, CandleTypeOK
    <2>6. LiveInv'
      BY <1>2, <1>4, <2>1, <2>3 DEF LiveInv
    <2>7. SeenInv'
      <3> SUFFICES ASSUME NEW k \in MinuteRange, seen'[k] # <<>>, k # m
                   PROVE  k < next
        BY <1>2, <2>1, <2>3, <2>4 DEF SeenInv
      <3>1. seen[k] # <<>>
        BY <1>4
      <3>2. k < m \/ (live # Nothing /\ k = live.ts)
        BY <1>6, <3>1 DEF CandleInv, SeenInv
      <3>3. k \in Nat /\ m \in Nat /\ next \in Nat /\ m <= next
        BY <1>2, MarketAssumption DEF MinuteRange
      <3>4. k < m
        BY <1>5, <1>7, <3>2
      <3>5. QED
        BY <3>3, <3>4
    <2>8. WritesInv'
      <3>1. ASSUME NEW c \in writes'
            PROVE  First <= c.ts /\ c.ts < m /\ c.ts \in MinuteRange \ {m} /\ Summarises(c, seen[c.ts])
        <4>1. CASE c \in writes
          BY <1>2, <1>5, <1>6, <4>1 DEF CandleInv, WritesInv
        <4>2. CASE c \notin writes
          <5>1. c = live /\ live # Nothing
            BY <2>1, <3>1, <4>2
          <5>2. QED
            BY <1>2, <1>5, <1>7, <5>1 DEF CandleInv, LiveInv
        <4>3. QED
          BY <4>1, <4>2
      <3>2. ASSUME NEW c \in writes'
            PROVE  First <= c.ts /\ c.ts < next /\ c.ts < live'.ts /\ Summarises(c, seen'[c.ts])
        BY <1>2, <1>4, <1>5, <2>1, <2>3, <3>1
      <3>3. QED
        BY <1>2, <3>2 DEF WritesInv
    <2>9. RowsInv'
      <3> SUFFICES ASSUME NEW k \in MinuteRange, rows[k] # Nothing
                   PROVE  /\ rows[k].ts = k
                          /\ k >= First => k < next /\ k < m /\ Summarises(rows[k], seen'[k])
        BY <1>1, <1>2, <2>1, <2>3 DEF RowsInv
      <3>1. /\ rows[k].ts = k
            /\ k >= First => k < m /\ Summarises(rows[k], seen[k])
        BY <1>6 DEF CandleInv, RowsInv
      <3>2. QED
        BY <1>2, <1>4, <1>5, <3>1
    <2>10. QED
      BY <2>5, <2>6, <2>7, <2>8, <2>9 DEF CandleInv
  <1>8. CASE ~(live = Nothing \/ live.ts < m)
    <2> DEFINE new == Extended(live, mid)
    <2>1. live' = new /\ writes' = writes
      BY <1>1, <1>8 DEF OnMid, m
    <2>2. live.ts = m /\ Summarises(live, seen[m])
      BY <1>2, <1>5, <1>6, <1>8 DEF CandleInv, LiveInv
    <2>3. new \in Candle /\ new.ts = m /\ Summarises(new, all)
      BY <1>4, <1>5, <1>8, <2>2, ExtendedSummarises DEF all
    <2>4. new # Nothing
      BY <2>3, NothingIsNoCandle
    <2> HIDE DEF new
    <2>5. CandleTypeOK'
      BY <1>1, <1>2, <1>4, <2>1, <2>3 DEF CandleInv, CandleTypeOK
    <2>6. LiveInv'
      BY <1>2, <1>4, <2>1, <2>3 DEF LiveInv
    <2>7. SeenInv'
      <3> SUFFICES ASSUME NEW k \in MinuteRange, seen'[k] # <<>>, k # m
                   PROVE  k < next
        BY <1>2, <2>1, <2>3, <2>4 DEF SeenInv
      <3>1. seen[k] # <<>>
        BY <1>4
      <3>2. k < m
        BY <1>6, <2>2, <3>1 DEF CandleInv, SeenInv
      <3>3. k \in Nat /\ m \in Nat /\ next \in Nat /\ m <= next
        BY <1>2, MarketAssumption DEF MinuteRange
      <3>4. QED
        BY <3>2, <3>3
    <2>8. WritesInv'
      <3>1. ASSUME NEW c \in writes
            PROVE  First <= c.ts /\ c.ts < m /\ c.ts \in MinuteRange \ {m} /\ Summarises(c, seen[c.ts])
        BY <1>2, <1>5, <1>6 DEF CandleInv, WritesInv
      <3>2. ASSUME NEW c \in writes
            PROVE  First <= c.ts /\ c.ts < next /\ c.ts < live'.ts /\ Summarises(c, seen'[c.ts])
        BY <1>2, <1>4, <1>5, <2>1, <2>3, <3>1
      <3>3. QED
        BY <1>2, <2>1, <3>2 DEF WritesInv
    <2>9. RowsInv'
      <3> SUFFICES ASSUME NEW k \in MinuteRange, rows[k] # Nothing
                   PROVE  /\ rows[k].ts = k
                          /\ k >= First => k < next /\ k < m /\ Summarises(rows[k], seen'[k])
        BY <1>1, <1>2, <2>1, <2>3 DEF RowsInv
      <3>1. /\ rows[k].ts = k
            /\ k >= First => k < m /\ Summarises(rows[k], seen[k])
        BY <1>6 DEF CandleInv, RowsInv
      <3>2. QED
        BY <1>2, <1>4, <1>5, <3>1
    <2>10. QED
      BY <2>5, <2>6, <2>7, <2>8, <2>9 DEF CandleInv
  <1>9. QED
    BY <1>7, <1>8

LEMMA CandlesLater ==
    ASSUME CandleInv, clock < EndOfTime, clock' = clock + 1, UNCHANGED <<seen, candles>>
    PROVE  CandleInv'
  <1> DEFINE m    == MinuteOf(clock)
             next == MinuteOf(clock')
  <1>1. /\ m \in Nat /\ next \in Nat /\ m <= next
        /\ clock' \in First * MinuteTicks..EndOfTime
    BY ClockFacts DEF CandleInv
  <1>2. /\ UNCHANGED <<seen, live, writes, rows>>
        /\ live # Nothing => live.ts \in Nat
        /\ \A c \in writes : c.ts \in Nat
        /\ \A k \in MinuteRange : k \in Nat
    BY DEF candles, CandleInv, CandleTypeOK, Candle, MinuteRange
  <1>3. /\ MinuteOf(clock) = m
        /\ MinuteOf(clock)' = next
    OBVIOUS
  <1> HIDE DEF m, next
  <1>4. \A n \in Nat : (n < m => n < next) /\ (n <= m => n <= next)
    BY <1>1
  <1>5. CandleTypeOK'
    BY <1>1, <1>2 DEF CandleInv, CandleTypeOK
  <1>6. LiveInv'
    BY <1>2, <1>3, <1>4 DEF CandleInv, LiveInv, Summarises
  <1>7. SeenInv'
    BY <1>2, <1>3, <1>4 DEF CandleInv, SeenInv
  <1>8. WritesInv'
    BY <1>2, <1>3, <1>4 DEF CandleInv, WritesInv, Summarises
  <1>9. RowsInv'
    BY <1>2, <1>3, <1>4 DEF CandleInv, RowsInv, Summarises
  <1>10. QED
    BY <1>5, <1>6, <1>7, <1>8, <1>9 DEF CandleInv

LEMMA WriteKeepsCandles ==
    ASSUME CandleInv, NEW c \in writes, Upsert(c) \/ UpsertFails(c)
    PROVE  CandleInv'
  <1>1. /\ UNCHANGED <<clock, seen, live>>
        /\ writes' = writes \ {c}
        /\ rows' = rows \/ rows' = [rows EXCEPT ![c.ts] = c]
    BY DEF Upsert, UpsertFails
  <1>2. /\ c \in Candle /\ c.ts \in MinuteRange
        /\ c.ts < MinuteOf(clock)
        /\ live # Nothing => c.ts < live.ts
        /\ Summarises(c, seen[c.ts])
    BY DEF CandleInv, CandleTypeOK, WritesInv, Candle
  <1>3. CandleTypeOK'
    BY <1>1, <1>2 DEF CandleInv, CandleTypeOK
  <1>4. LiveInv' /\ SeenInv' /\ WritesInv'
    BY <1>1 DEF CandleInv, LiveInv, SeenInv, WritesInv, Summarises
  <1>5. RowsInv'
    <2>1. \A m \in MinuteRange :
             rows'[m] = rows[m] \/ (m = c.ts /\ rows'[m] = c)
      BY <1>1, <1>2 DEF CandleInv, CandleTypeOK
    <2>2. QED
      BY <1>1, <1>2, <2>1 DEF CandleInv, RowsInv, Summarises
  <1>6. QED
    BY <1>3, <1>4, <1>5 DEF CandleInv

LEMMA RestartKeepsCandles ==
    ASSUME CandleInv, Restart
    PROVE  CandleInv'
  <1>1. /\ live' = Nothing /\ writes' = {} /\ UNCHANGED <<clock, rows>>
        /\ seen' = IF live = Nothing THEN seen ELSE [seen EXCEPT ![live.ts] = <<>>]
    BY DEF Restart
  <1>2. live # Nothing => live.ts \in MinuteRange
    BY DEF CandleInv, CandleTypeOK, Candle
  <1>3. \A m \in MinuteRange :
           seen'[m] = IF live # Nothing /\ m = live.ts THEN <<>> ELSE seen[m]
    BY <1>1, <1>2 DEF CandleInv, CandleTypeOK
  <1>4. CandleTypeOK'
    BY <1>1, <1>2 DEF CandleInv, CandleTypeOK
  <1>5. LiveInv' /\ WritesInv'
    BY <1>1 DEF LiveInv, WritesInv
  <1>6. SeenInv'
    BY <1>1, <1>3 DEF CandleInv, SeenInv
  <1>7. RowsInv'
    <2> SUFFICES ASSUME NEW m \in MinuteRange, rows[m] # Nothing
                 PROVE  /\ rows[m].ts = m
                        /\ m >= First => /\ m < MinuteOf(clock)
                                         /\ Summarises(rows[m], seen'[m])
      BY <1>1 DEF RowsInv
    <2>1. /\ rows[m].ts = m
          /\ m >= First => /\ m < MinuteOf(clock)
                           /\ live # Nothing => m < live.ts
                           /\ Summarises(rows[m], seen[m])
      BY DEF CandleInv, RowsInv
    <2>2. m \in Nat
      BY DEF MinuteRange
    <2>3. QED
      BY <1>3, <2>1, <2>2
  <1>8. QED
    BY <1>4, <1>5, <1>6, <1>7 DEF CandleInv

LEMMA CandlesStutter == CandleInv /\ UNCHANGED <<clock, seen, candles>> => CandleInv'
  BY DEF CandleInv, candles, CandleTypeOK, LiveInv, SeenInv, WritesInv, RowsInv, Summarises

LEMMA CandlesInvariant == MarketSpec => []CandleInv
  <1>1. CandleInv /\ [MarketNext]_marketVars => CandleInv'
    <2> SUFFICES ASSUME CandleInv, [MarketNext]_marketVars PROVE CandleInv'
      OBVIOUS
    <2>1. CASE CandleStep
      BY <2>1, TickKeepsCandles, CandlesLater, WriteKeepsCandles DEF CandleStep, NoTick
    <2>2. CASE Restart
      BY <2>2, RestartKeepsCandles
    <2>3. CASE ChannelStep
      BY <2>3, CandlesStutter
         DEF ChannelStep, Subscribe, MgetReads, MgetReturns, Unsubscribe, Flush, Disconnect
    <2>4. CASE ChartStep
      BY <2>4, CandlesStutter
         DEF ChartStep, Deliver, OtherSymbolQuoted, OpenChart, ReadHistory, ShowHistory,
             HistoryFails, CloseChart
    <2>5. CASE UNCHANGED marketVars
      BY <2>5, CandlesStutter DEF marketVars
    <2>6. QED
      BY <2>1, <2>2, <2>3, <2>4, <2>5 DEF MarketNext
  <1>2. QED
    BY CandleInitInv, <1>1, PTL DEF MarketSpec

(* For any length of a minute and any gaps, crashes and lost or late       *)
(* writes: a stored minute is the candle of every tick the process that    *)
(* stored it has handled in it, and of no other.                           *)
THEOREM StoredMinutesAreWhole == MarketSpec => []StoredMinuteIsWhole
  <1>1. CandleInv => StoredMinuteIsWhole
    BY DEF CandleInv, RowsInv, StoredMinuteIsWhole, Stored
  <1>2. QED
    BY <1>1, CandlesInvariant, PTL

---------------------------------------------------------------------------
(* The quotes                                                              *)

QuoteTypeOK ==
    /\ clock \in Nat
    /\ lvc \in {Nothing} \cup Frame
    /\ buffer \in {Nothing} \cup Frame
    /\ conn \in [on : BOOLEAN, asked : BOOLEAN, reply : {Nothing} \cup Frame]
    /\ wire \in Seq(Frame)
    /\ store \in {Nothing} \cup Frame

(* The cached frame, if there is one, is past and is what would be sent.   *)
CacheInv ==
    /\ ~conn.asked
    /\ lvc # Nothing => lvc.t < clock
    /\ buffer # Nothing => buffer = lvc /\ conn.on

(* Everything under way is at least as new as what is shown, and no newer  *)
(* than what comes after it or the cached frame.                           *)
WireInv ==
    /\ \A i \in 1..Len(wire) : lvc # Nothing /\ wire[i].t <= lvc.t
    /\ \A i, j \in 1..Len(wire) : i <= j => wire[i].t <= wire[j].t
    /\ store # Nothing =>
          /\ store.t < clock
          /\ lvc # Nothing => store.t <= lvc.t
          /\ \A i \in 1..Len(wire) : store.t <= wire[i].t

QuoteInv == QuoteTypeOK /\ (driver = "memory" => CacheInv /\ WireInv)

LEMMA FrameTypes ==
    /\ Nothing \notin Frame
    /\ \A f \in Frame : f.t \in Nat
  <1>1. Mids \subseteq Int /\ 0..EndOfTime \subseteq Int
    BY MarketAssumption
  <1>2. Frame \subseteq [t : Int, mid : Int]
    <2> SUFFICES ASSUME NEW f \in Frame PROVE f \in [t : Int, mid : Int]
      OBVIOUS
    <2>1. f = [t |-> f.t, mid |-> f.mid] /\ f.t \in 0..EndOfTime /\ f.mid \in Mids
      BY DEF Frame
    <2>2. f.t \in Int /\ f.mid \in Int
      BY <1>1, <2>1
    <2>3. QED
      BY <2>1, <2>2
  <1>3. \A f \in Frame : f.t \in Nat
    BY DEF Frame
  <1>4. QED
    BY <1>2, <1>3, MarketAssumption

(* Sending the cached frame keeps the order of what is under way.          *)
LEMMA CachedIsSent ==
    ASSUME QuoteInv, Send(lvc), UNCHANGED <<lvc, store, clock>>
    PROVE  /\ wire' \in Seq(Frame)
           /\ driver = "memory" => WireInv'
  <1>1. CASE lvc = Nothing
    BY <1>1 DEF Send, QuoteInv, QuoteTypeOK, WireInv
  <1>2. CASE lvc # Nothing
    <2> DEFINE n == Len(wire)
    <2>1. /\ lvc \in Frame /\ wire \in Seq(Frame) /\ wire' = Append(wire, lvc)
          /\ lvc.t \in Nat
      BY <1>2, FrameTypes DEF Send, QuoteInv, QuoteTypeOK
    <2>2. /\ wire' \in Seq(Frame)
          /\ n \in Nat /\ Len(wire') = n + 1
          /\ wire'[n + 1] = lvc
          /\ \A i \in 1..n : wire'[i] = wire[i] /\ wire[i] \in Frame
      BY <2>1
    <2>3. \A i \in 1..n : wire[i].t \in Nat
      BY <2>2, FrameTypes
    <2>4. \A i \in 1..(n + 1) : i \in 1..n \/ i = n + 1
      BY <2>2
    <2> HIDE DEF n
    <2>5. SUFFICES ASSUME driver = "memory" PROVE WireInv'
      BY <2>2
    <2>6. /\ \A i \in 1..n : wire[i].t <= lvc.t
          /\ \A i, j \in 1..n : i <= j => wire[i].t <= wire[j].t
          /\ store # Nothing => /\ store.t < clock
                                /\ store.t <= lvc.t
                                /\ \A i \in 1..n : store.t <= wire[i].t
      BY <1>2, <2>5 DEF QuoteInv, WireInv, n
    <2>7. \A i \in 1..(n + 1) : wire'[i].t <= lvc.t
      BY <2>1, <2>2, <2>4, <2>6
    <2>8. \A i, j \in 1..(n + 1) : i <= j => wire'[i].t <= wire'[j].t
      <3> SUFFICES ASSUME NEW i \in 1..(n + 1), NEW j \in 1..(n + 1), i <= j
                   PROVE  wire'[i].t <= wire'[j].t
        OBVIOUS
      <3>1. CASE j = n + 1
        BY <2>2, <2>7, <3>1
      <3>2. CASE j \in 1..n
        <4>1. i \in 1..n
          BY <2>2, <3>2
        <4>2. QED
          BY <2>2, <2>6, <3>2, <4>1
      <3>3. QED
        BY <2>4, <3>1, <3>2
    <2>9. store # Nothing => \A i \in 1..(n + 1) : store.t <= wire'[i].t
      BY <2>2, <2>4, <2>6
    <2>10. QED
      BY <1>2, <2>2, <2>6, <2>7, <2>8, <2>9 DEF WireInv
  <1>3. QED
    BY <1>1, <1>2

LEMMA TickKeepsQuotes ==
    ASSUME QuoteInv, NEW mid \in Mids, Tick(mid)
    PROVE  QuoteInv'
  <1> DEFINE frame == [t |-> clock, mid |-> mid]
  <1>1. /\ buffer' = IF conn.on THEN frame ELSE buffer
        /\ lvc' = frame
        /\ clock < EndOfTime /\ clock' = clock + 1
        /\ UNCHANGED <<driver, conn, wire, store>>
    BY DEF Tick
  <1>2. clock \in Nat /\ EndOfTime \in Int
    BY MarketAssumption DEF QuoteInv, QuoteTypeOK, EndOfTime
  <1>3. frame \in Frame /\ frame.t = clock
    BY <1>1, <1>2 DEF Frame
  <1>4. frame # Nothing
    BY <1>3, FrameTypes
  <1> HIDE DEF frame
  <1>5. QuoteTypeOK'
    BY <1>1, <1>2, <1>3 DEF QuoteInv, QuoteTypeOK
  <1>6. ASSUME driver = "memory" PROVE CacheInv' /\ WireInv'
    <2>1. CacheInv'
      BY <1>1, <1>2, <1>3, <1>4, <1>6 DEF QuoteInv, CacheInv
    <2>2. \A i \in 1..Len(wire) : wire[i].t \in Nat /\ wire[i].t < clock
      <3>1. ASSUME NEW i \in 1..Len(wire) PROVE wire[i].t \in Nat /\ wire[i].t < clock
        <4>1. /\ lvc # Nothing /\ wire[i].t <= lvc.t /\ lvc.t < clock
          BY <1>6 DEF QuoteInv, CacheInv, WireInv
        <4>2. lvc.t \in Nat /\ wire[i].t \in Nat
          BY <4>1, FrameTypes, ElementOfSeq DEF QuoteInv, QuoteTypeOK
        <4>3. QED
          BY <1>2, <4>1, <4>2
      <3>2. QED
        BY <3>1
    <2>3. store # Nothing => store.t \in Nat /\ store.t < clock
      BY <1>6, FrameTypes DEF QuoteInv, QuoteTypeOK, WireInv
    <2>4. QED
      BY <1>1, <1>2, <1>3, <1>4, <1>6, <2>1, <2>2, <2>3 DEF QuoteInv, WireInv
  <1>7. QED
    BY <1>1, <1>5, <1>6 DEF QuoteInv

(* A message is delivered: the quote shown becomes no older.               *)
LEMMA DeliverKeepsQuotes ==
    ASSUME QuoteInv, Deliver
    PROVE  /\ QuoteInv'
           /\ driver = "memory" /\ store # Nothing => store'.t >= store.t
  <1> DEFINE n == Len(wire)
  <1>1. /\ wire # <<>> /\ wire' = Tail(wire) /\ store' = Head(wire)
        /\ UNCHANGED <<clock, driver, lvc, buffer, conn>>
    BY DEF Deliver
  <1>2. /\ wire \in Seq(Frame) /\ n \in Nat /\ n >= 1
        /\ wire' \in Seq(Frame) /\ Len(wire') = n - 1
        /\ Head(wire) = wire[1] /\ wire[1] \in Frame
        /\ \A i \in 1..(n - 1) : wire'[i] = wire[i + 1]
    BY <1>1 DEF QuoteInv, QuoteTypeOK
  <1>3. wire[1].t \in Nat /\ wire[1] # Nothing
    BY <1>2, FrameTypes
  <1> HIDE DEF n
  <1>4. QuoteTypeOK'
    BY <1>1, <1>2 DEF QuoteInv, QuoteTypeOK
  <1>5. ASSUME driver = "memory"
        PROVE  CacheInv' /\ WireInv' /\ (store # Nothing => store'.t >= store.t)
    <2>1. CacheInv'
      BY <1>1, <1>5 DEF QuoteInv, CacheInv
    <2>2. /\ \A i \in 1..n : lvc # Nothing /\ wire[i].t <= lvc.t
          /\ \A i, j \in 1..n : i <= j => wire[i].t <= wire[j].t
          /\ store # Nothing => \A i \in 1..n : store.t <= wire[i].t
          /\ lvc # Nothing => lvc.t < clock
      BY <1>5 DEF QuoteInv, CacheInv, WireInv, n
    <2>3. /\ 1 \in 1..n
          /\ \A i \in 1..(n - 1) : i + 1 \in 1..n /\ 1 <= i + 1
      BY <1>2
    <2>4. /\ wire[1].t < clock /\ wire[1].t <= lvc.t
          /\ store # Nothing => store.t <= wire[1].t
      <3>1. lvc # Nothing /\ wire[1].t <= lvc.t /\ lvc.t < clock
        BY <2>2, <2>3
      <3>2. lvc.t \in Nat /\ clock \in Nat
        BY <3>1, FrameTypes DEF QuoteInv, QuoteTypeOK
      <3>3. QED
        BY <1>3, <2>2, <2>3, <3>1, <3>2
    <2>5. \A i \in 1..(n - 1) : /\ lvc # Nothing /\ wire'[i].t <= lvc.t
                                 /\ wire[1].t <= wire'[i].t
      BY <1>2, <2>2, <2>3
    <2>6. \A i, j \in 1..(n - 1) : i <= j => wire'[i].t <= wire'[j].t
      <3> SUFFICES ASSUME NEW i \in 1..(n - 1), NEW j \in 1..(n - 1), i <= j
                   PROVE  wire'[i].t <= wire'[j].t
        OBVIOUS
      <3>1. i + 1 \in 1..n /\ j + 1 \in 1..n /\ i + 1 <= j + 1
        BY <1>2
      <3>2. QED
        BY <1>2, <2>2, <3>1
    <2>7. WireInv'
      BY <1>1, <1>2, <2>4, <2>5, <2>6 DEF WireInv
    <2>8. store # Nothing => store'.t >= store.t
      <3>1. store # Nothing => store.t \in Nat
        BY FrameTypes DEF QuoteInv, QuoteTypeOK
      <3>2. QED
        BY <1>1, <1>2, <1>3, <2>4, <3>1
    <2>9. QED
      BY <2>1, <2>7, <2>8
  <1>6. QED
    BY <1>1, <1>4, <1>5 DEF QuoteInv

LEMMA ChannelKeepsQuotes ==
    ASSUME QuoteInv, ChannelStep
    PROVE  QuoteInv'
  <1> USE DEF QuoteInv
  <1>1. CASE Subscribe
    <2>1. /\ ~conn.on /\ UNCHANGED <<clock, driver, lvc, buffer, store>>
          /\ IF driver = "memory"
             THEN Send(lvc) /\ conn' = [conn EXCEPT !.on = TRUE]
             ELSE conn' = [conn EXCEPT !.on = TRUE, !.asked = TRUE] /\ UNCHANGED wire
      BY <1>1 DEF Subscribe
    <2>2. CASE driver = "memory"
      <3>1. wire' \in Seq(Frame) /\ WireInv'
        BY <2>1, <2>2, CachedIsSent
      <3>2. conn'.asked = conn.asked /\ conn'.on
            /\ conn' \in [on : BOOLEAN, asked : BOOLEAN, reply : {Nothing} \cup Frame]
        BY <2>1, <2>2 DEF QuoteTypeOK
      <3>3. QED
        BY <2>1, <2>2, <3>1, <3>2 DEF QuoteTypeOK, CacheInv
    <2>3. CASE driver # "memory"
      BY <2>1, <2>3 DEF QuoteTypeOK
    <2>4. QED
      BY <2>2, <2>3
  <1>2. CASE MgetReads
    BY <1>2 DEF MgetReads, QuoteTypeOK, CacheInv
  <1>3. CASE MgetReturns
    <2>1. /\ conn.asked /\ Send(conn.reply) /\ UNCHANGED <<clock, driver, lvc, buffer, store>>
          /\ conn' = [conn EXCEPT !.asked = FALSE, !.reply = Nothing]
      BY <1>3 DEF MgetReturns
    <2>2. driver # "memory"
      BY <2>1 DEF CacheInv
    <2>3. wire' \in Seq(Frame)
      <3>1. conn.reply \in {Nothing} \cup Frame /\ wire \in Seq(Frame)
        BY DEF QuoteTypeOK
      <3>2. QED
        BY <2>1, <3>1 DEF Send
    <2>4. QED
      BY <2>1, <2>2, <2>3 DEF QuoteTypeOK
  <1>4. CASE Unsubscribe
    BY <1>4 DEF Unsubscribe, ClearedBuffer, QuoteTypeOK, CacheInv, WireInv
  <1>5. CASE Flush
    <2>1. /\ buffer # Nothing /\ Send(buffer) /\ buffer' = Nothing
          /\ UNCHANGED <<clock, driver, lvc, conn, store>>
      BY <1>5 DEF Flush
    <2>2. wire' \in Seq(Frame)
      BY <2>1 DEF Send, QuoteTypeOK
    <2>3. ASSUME driver = "memory" PROVE CacheInv' /\ WireInv'
      <3>1. Send(lvc)
        BY <2>1, <2>3 DEF CacheInv
      <3>2. WireInv'
        BY <2>1, <2>3, <3>1, CachedIsSent
      <3>3. QED
        BY <2>1, <2>3, <3>2 DEF CacheInv
    <2>4. QED
      BY <2>1, <2>2, <2>3 DEF QuoteTypeOK
  <1>6. CASE Disconnect
    BY <1>6 DEF Disconnect, Offline, QuoteTypeOK, CacheInv, WireInv
  <1>7. QED
    BY <1>1, <1>2, <1>3, <1>4, <1>5, <1>6 DEF ChannelStep

LEMMA RestartKeepsQuotes ==
    ASSUME QuoteInv, Restart
    PROVE  QuoteInv'
  BY DEF Restart, Offline, QuoteInv, QuoteTypeOK, CacheInv, WireInv

LEMMA QuotesStutter ==
    QuoteInv /\ UNCHANGED <<clock, driver, channel, store>> => QuoteInv'
  BY DEF QuoteInv, channel, QuoteTypeOK, CacheInv, WireInv

LEMMA QuotesLater ==
    QuoteInv /\ clock' = clock + 1 /\ UNCHANGED <<driver, channel, store>> => QuoteInv'
  <1> SUFFICES ASSUME QuoteInv, clock' = clock + 1, UNCHANGED <<driver, channel, store>>
               PROVE  QuoteInv'
    OBVIOUS
  <1>1. QuoteTypeOK'
    BY DEF QuoteInv, channel, QuoteTypeOK
  <1>2. /\ lvc # Nothing /\ lvc.t < clock => lvc.t < clock'
        /\ store # Nothing /\ store.t < clock => store.t < clock'
    BY FrameTypes DEF QuoteInv, QuoteTypeOK
  <1>3. QED
    BY <1>1, <1>2 DEF QuoteInv, channel, CacheInv, WireInv

(* One step: the invariant goes on, and the quote shown only forwards.     *)
LEMMA QuoteSteps ==
    ASSUME QuoteInv, [MarketNext]_marketVars
    PROVE  /\ QuoteInv'
           /\ driver = "memory" /\ store # Nothing => store'.t >= store.t
  <1>0. store # Nothing => store.t \in Nat
    BY FrameTypes DEF QuoteInv, QuoteTypeOK
  <1>1. CASE CandleStep
    <2>1. ASSUME NEW mid \in Mids, Tick(mid) PROVE QuoteInv' /\ UNCHANGED store
      BY <2>1, TickKeepsQuotes DEF Tick
    <2>2. CASE NoTick
      <3>1. clock' = clock + 1 /\ UNCHANGED <<driver, channel, store>>
        BY <2>2 DEF NoTick
      <3>2. QED
        BY <1>0, <3>1, QuotesLater
    <2>3. ASSUME NEW c \in writes, Upsert(c) \/ UpsertFails(c)
          PROVE  QuoteInv' /\ UNCHANGED store
      BY <2>3, QuotesStutter DEF Upsert, UpsertFails
    <2>4. QED
      BY <1>0, <1>1, <2>1, <2>2, <2>3 DEF CandleStep
  <1>2. CASE Restart
    BY <1>0, <1>2, RestartKeepsQuotes DEF Restart
  <1>3. CASE ChannelStep
    <2>1. UNCHANGED store
      BY <1>3
         DEF ChannelStep, Subscribe, MgetReads, MgetReturns, Unsubscribe, Flush, Disconnect
    <2>2. QED
      BY <1>0, <1>3, <2>1, ChannelKeepsQuotes
  <1>4. CASE Deliver
    BY <1>4, DeliverKeepsQuotes
  <1>5. CASE ChartStep /\ ~Deliver
    <2>1. UNCHANGED <<clock, driver, channel, store>>
      BY <1>5 DEF ChartStep, OtherSymbolQuoted, OpenChart, ReadHistory, ShowHistory,
                  HistoryFails, CloseChart
    <2>2. QED
      BY <1>0, <2>1, QuotesStutter
  <1>6. CASE UNCHANGED marketVars
    <2>1. UNCHANGED <<clock, driver, channel, store>>
      BY <1>6 DEF marketVars
    <2>2. QED
      BY <1>0, <2>1, QuotesStutter
  <1>7. QED
    BY <1>1, <1>2, <1>3, <1>4, <1>5, <1>6 DEF MarketNext

LEMMA QuoteInitInv == MarketInit => QuoteInv
  <1> SUFFICES ASSUME MarketInit PROVE QuoteInv
    OBVIOUS
  <1>1. First * MinuteTicks \in Nat
    BY MarketAssumption
  <1>2. QED
    BY <1>1 DEF MarketInit, QuoteInv, QuoteTypeOK, CacheInv, WireInv, Offline

(* With the in-process cache the quote shown is never replaced by an older *)
(* one, however many messages are under way and whatever the order of      *)
(* ticks, flushes, subscriptions and reconnects.                           *)
THEOREM QuotesMoveForward == MarketSpec => QuotesNeverGoBack
  <1>1. QuoteInv /\ [MarketNext]_marketVars => QuoteInv'
    BY QuoteSteps
  <1>2. QuoteInv /\ [MarketNext]_marketVars =>
           [driver = "memory" /\ store # Nothing => store'.t >= store.t]_marketVars
    BY QuoteSteps
  <1>3. QED
    BY QuoteInitInv, <1>1, <1>2, PTL DEF MarketSpec, QuotesNeverGoBack
---------------------------------------------------------------------------
(* Counting minutes                                                        *)

(* The least number principle.                                             *)
LEMMA LeastNumber ==
    ASSUME NEW T \in SUBSET Nat, T # {}
    PROVE  \E m \in T : \A n \in T : m <= n
  <1> DEFINE R == {ss \in Nat \X Nat : ss[1] < ss[2]}
  <1>1. IsWellFoundedOn(R, Nat)
    BY NatLessThanWellFounded DEF OpToRel
  <1> HIDE DEF R
  <1>2. PICK m \in T : \A n \in T : ~(<<n, m>> \in R)
    BY <1>1, WFMin
  <1>3. \A n \in T : ~(n < m)
    BY <1>2 DEF R
  <1>4. QED
    BY <1>3

(* ... and of a finite set of numbers the greatest.                        *)
LEMMA GreatestNumber ==
    ASSUME NEW n \in Nat, NEW T \in SUBSET (0..n), T # {}
    PROVE  \E m \in T : \A k \in T : k <= m
  <1> DEFINE U == {n - k : k \in T}
  <1>1. U \in SUBSET Nat /\ U # {}
    <2>1. \A k \in T : k \in 0..n
      OBVIOUS
    <2>2. \A k \in T : n - k \in Nat
      BY <2>1
    <2>3. QED
      BY <2>2
  <1>2. PICK u \in U : \A v \in U : u <= v
    <2> HIDE DEF U
    <2>1. QED
      BY <1>1, LeastNumber
  <1>3. PICK m \in T : u = n - m
    OBVIOUS
  <1>4. \A k \in T : n - k \in U
    OBVIOUS
  <1>5. \A k \in T : n - m <= n - k
    BY <1>2, <1>3, <1>4
  <1>6. QED
    BY <1>3, <1>5

LEMMA OneToN ==
    ASSUME NEW n \in Nat
    PROVE  IsFiniteSet(1..n) /\ Cardinality(1..n) = n
  <1>1. IsFiniteSet(1..n) /\ Cardinality(1..n) = IF 1 > n THEN 0 ELSE n - 1 + 1
    BY FS_Interval
  <1>2. QED
    BY <1>1

(* The rank of an element: how many there are up to it.                    *)
Rank(S, m) == Cardinality({k \in S : k <= m})

LEMMA RanksAscend ==
    ASSUME NEW S \in SUBSET Nat, IsFiniteSet(S)
    PROVE  /\ \A m \in S : Rank(S, m) \in 1..Cardinality(S)
           /\ \A m, n \in S : m < n => Rank(S, m) < Rank(S, n)
  <1> DEFINE upTo(m) == {k \in S : k <= m}
  <1>1. \A m \in S : IsFiniteSet(upTo(m)) /\ Cardinality(upTo(m)) \in Nat
                     /\ Cardinality(upTo(m)) <= Cardinality(S) /\ upTo(m) # {}
    BY FS_Subset, FS_CardinalityType
  <1>2. \A m \in S : Cardinality(upTo(m)) # 0
    <2> HIDE DEF upTo
    <2>1. QED
      BY <1>1, FS_EmptySet
  <1>3. Cardinality(S) \in Nat
    BY FS_CardinalityType
  <1>4. ASSUME NEW m \in S, NEW n \in S, m < n
        PROVE  Cardinality(upTo(m)) < Cardinality(upTo(n))
    <2>1. upTo(m) \in SUBSET upTo(n) /\ n \in upTo(n) /\ n \notin upTo(m)
      <3>1. \A k \in S : k \in Nat
        OBVIOUS
      <3>2. m \in Nat /\ n \in Nat
        BY <3>1
      <3>3. ~(n <= m) /\ n <= n /\ \A k \in S : k <= m => k <= n
        BY <1>4, <3>1, <3>2
      <3>4. QED
        BY <3>3
    <2> HIDE DEF upTo
    <2>2. Cardinality(upTo(m)) <= Cardinality(upTo(n))
          /\ Cardinality(upTo(m)) # Cardinality(upTo(n))
      BY <1>1, <2>1, FS_Subset
    <2>3. QED
      BY <1>1, <2>2
  <1>5. QED
    BY <1>1, <1>2, <1>3, <1>4 DEF Rank

(* a lists the elements of S from the least to the greatest.               *)
Enumerates(a, n, S) ==
    /\ a \in [1..n -> S]
    /\ \A i, j \in 1..n : i < j => a[i] < a[j]
    /\ \A m \in S : \E i \in 1..n : a[i] = m

LEMMA AscendingEnumerates ==
    ASSUME NEW S \in SUBSET Nat, IsFiniteSet(S)
    PROVE  Cardinality(S) \in Nat /\ Enumerates(Ascending(S), Cardinality(S), S)
  <1> DEFINE n == Cardinality(S)
             rank == [m \in S |-> Rank(S, m)]
  <1>1. n \in Nat
    BY FS_CardinalityType
  <1>2. /\ \A m \in S : Rank(S, m) \in 1..n
        /\ \A m, k \in S : m < k => Rank(S, m) < Rank(S, k)
    BY RanksAscend
  <1>3. rank \in [S -> 1..n] /\ \A m, k \in S : rank[m] = rank[k] => m = k
    <2>1. ASSUME NEW m \in S, NEW k \in S, Rank(S, m) = Rank(S, k) PROVE m = k
      <3>1. m \in Nat /\ k \in Nat /\ Rank(S, m) \in Nat /\ Rank(S, k) \in Nat
        BY <1>2
      <3>2. ~(m < k) /\ ~(k < m)
        BY <1>2, <2>1, <3>1
      <3>3. QED
        BY <3>1, <3>2
    <2>2. QED
      BY <1>2, <2>1
  <1>4. rank \in Injection(S, 1..n)
    BY <1>3 DEF Injection, IsInjective
  <1>5. rank \in Surjection(S, 1..n)
    <2> HIDE DEF rank
    <2>1. IsFiniteSet(1..n) /\ Cardinality(1..n) = n
      BY <1>1, OneToN
    <2>2. QED
      BY <1>4, <2>1, FS_Injection
  <1>6. \A i \in 1..n : \E m \in S : Rank(S, m) = i
    BY <1>5 DEF Surjection
  <1>7. Ascending(S) = [i \in 1..n |-> CHOOSE m \in S : Rank(S, m) = i]
    BY DEF Ascending, Rank
  <1>8. \A i \in 1..n : Ascending(S)[i] \in S /\ Rank(S, Ascending(S)[i]) = i
    <2> SUFFICES ASSUME NEW i \in 1..n
                 PROVE  Ascending(S)[i] \in S /\ Rank(S, Ascending(S)[i]) = i
      OBVIOUS
    <2>1. Ascending(S)[i] = CHOOSE m \in S : Rank(S, m) = i
      BY <1>7
    <2>2. \E m \in S : Rank(S, m) = i
      BY <1>6
    <2>3. QED
      BY <2>1, <2>2
  <1> HIDE DEF n, rank
  <1>9. ASSUME NEW i \in 1..n, NEW j \in 1..n, i < j PROVE Ascending(S)[i] < Ascending(S)[j]
    <2> DEFINE a == Ascending(S)[i]
               b == Ascending(S)[j]
    <2>1. a \in S /\ b \in S /\ Rank(S, a) = i /\ Rank(S, b) = j
      BY <1>8
    <2> HIDE DEF a, b
    <2>2. a # b /\ ~(b < a)
      BY <1>1, <1>2, <1>9, <2>1
    <2>3. a < b
      BY <2>1, <2>2
    <2>4. QED
      BY <2>3 DEF a, b
  <1>10. ASSUME NEW m \in S PROVE \E i \in 1..n : Ascending(S)[i] = m
    <2>1. Rank(S, m) \in 1..n
      BY <1>2
    <2>2. /\ Ascending(S)[Rank(S, m)] \in S
          /\ Rank(S, Ascending(S)[Rank(S, m)]) = Rank(S, m)
      BY <1>8, <2>1
    <2>3. Ascending(S)[Rank(S, m)] = m
      BY <1>3, <2>2 DEF rank
    <2>4. QED
      BY <2>1, <2>3
  <1>11. Ascending(S) \in [1..n -> S]
    BY <1>7, <1>8
  <1>12. QED
    BY <1>1, <1>9, <1>10, <1>11 DEF n, Enumerates

(* The newest n: no more than n, all of them if there are fewer.           *)
LEMMA NewestAre ==
    ASSUME NEW S \in SUBSET Nat, IsFiniteSet(S), NEW n \in Nat
    PROVE  /\ Newest(S, n) \in SUBSET S
           /\ IsFiniteSet(Newest(S, n)) /\ Cardinality(Newest(S, n)) <= n
           /\ \A m \in Newest(S, n), k \in S : k >= m => k \in Newest(S, n)
  <1> DEFINE N == Newest(S, n)
             from(m) == {k \in S : k >= m}
  <1>1. N \in SUBSET S /\ N \in SUBSET Nat /\ IsFiniteSet(N)
    BY FS_Subset DEF Newest
  <1>2. \A m \in S : IsFiniteSet(from(m)) /\ Cardinality(from(m)) \in Nat
    BY FS_Subset, FS_CardinalityType
  <1>3. \A m \in S : m \in N <=> Cardinality(from(m)) <= n
    BY DEF Newest
  <1>4. Cardinality(N) <= n
    <2>1. CASE N = {}
      BY <2>1, FS_EmptySet
    <2>2. CASE N # {}
      <3>1. PICK m \in N : \A k \in N : m <= k
        <4> HIDE DEF N
        <4>1. QED
          BY <1>1, <2>2, LeastNumber
      <3>2. N \in SUBSET from(m) /\ m \in S
        BY <1>1, <3>1
      <3>3. Cardinality(N) <= Cardinality(from(m)) /\ Cardinality(N) \in Nat
        <4> HIDE DEF N, from
        <4>1. QED
          BY <1>1, <1>2, <3>2, FS_Subset, FS_CardinalityType
      <3>4. QED
        BY <1>2, <1>3, <3>1, <3>2, <3>3
    <2>3. QED
      BY <2>1, <2>2
  <1>5. ASSUME NEW m \in N, NEW k \in S, k >= m PROVE k \in N
    <2>1. m \in S /\ k \in Nat /\ m \in Nat
      BY <1>1
    <2>2. from(k) \in SUBSET from(m)
      <3>1. \A j \in S : j \in Nat
        OBVIOUS
      <3>2. \A j \in S : j >= k => j >= m
        BY <1>5, <2>1, <3>1
      <3>3. QED
        BY <3>2
    <2>3. Cardinality(from(k)) <= Cardinality(from(m))
      <3> HIDE DEF from, N
      <3>1. QED
        BY <1>2, <2>1, <2>2, FS_Subset
    <2>4. QED
      BY <1>2, <1>3, <1>5, <2>1, <2>3
  <1>6. QED
    BY <1>1, <1>4, <1>5
---------------------------------------------------------------------------
(* Bars                                                                    *)

LEMMA BucketFacts ==
    /\ \A m \in Nat : BucketOf(m) \in Nat /\ BucketOf(m) <= m
    /\ \A m, n \in Nat : m <= n => BucketOf(m) <= BucketOf(n)
    /\ \A m \in Nat : m - BucketOf(m) * BucketMinutes \in 0..(BucketMinutes - 1)
  <1> DEFINE k == BucketMinutes
  <1>1. k \in Nat \ {0}
    BY MarketAssumption
  <1> HIDE DEF k
  <1>2. ASSUME NEW m \in Nat
        PROVE  /\ (m \div k) \in Nat
               /\ m - (m \div k) * k \in 0..(k - 1)
               /\ (m \div k) <= m
    <2>1. (m \div k) \in Nat /\ m - (m \div k) * k \in 0..(k - 1)
      <3> DEFINE d == m \div k
      <3>1. d \in Nat /\ d * k <= m /\ m < (d + 1) * k
        BY <1>1
      <3> HIDE DEF d
      <3>2. d * k \in Int /\ (d + 1) * k = d * k + k
        BY <1>1, <3>1
      <3>3. m - d * k \in 0..(k - 1)
        BY <1>1, <3>1, <3>2
      <3>4. QED
        BY <3>1, <3>3 DEF d
    <2>2. (m \div k) <= m
      <3> DEFINE d == m \div k
      <3>1. d \in Nat /\ d * k <= m
        BY <1>1
      <3> HIDE DEF d
      <3>2. d * 1 <= d * k
        BY <1>1, <3>1
      <3>3. d * k \in Int /\ d * 1 = d
        BY <1>1, <3>1
      <3>4. d <= m
        BY <3>1, <3>2, <3>3
      <3>5. QED
        BY <3>4 DEF d
    <2>3. QED
      BY <2>1, <2>2
  <1>3. ASSUME NEW m \in Nat, NEW n \in Nat, m <= n
        PROVE  m \div k <= n \div k
    <2> DEFINE a == m \div k
               b == n \div k
    <2>1. a \in Nat /\ b \in Nat /\ a * k <= m /\ n < (b + 1) * k
      BY <1>1
    <2> HIDE DEF a, b
    <2>2. a * k < (b + 1) * k
      <3>1. a * k \in Int /\ (b + 1) * k \in Int
        BY <1>1, <2>1
      <3>2. QED
        BY <1>3, <2>1, <3>1
    <2>3. a < b + 1
      BY <1>1, <2>1, <2>2, MultiplesAscend
    <2>4. QED
      BY <2>1, <2>3 DEF a, b
  <1>4. QED
    BY <1>2, <1>3 DEF BucketOf, k

(* What is known of the table.                                             *)
TableOK ==
    /\ rows \in [MinuteRange -> {Nothing} \cup Candle]
    /\ \A m \in MinuteRange : rows[m] # Nothing => rows[m].ts = m

LEMMA TableFacts ==
    ASSUME TableOK
    PROVE  /\ Stored(rows) \in SUBSET Nat /\ Stored(rows) \in SUBSET MinuteRange
           /\ IsFiniteSet(Stored(rows))
           /\ \A m \in Stored(rows) :
                 /\ rows[m] \in Candle /\ rows[m].ts = m
                 /\ rows[m].o \in Mids /\ rows[m].h \in Mids
                 /\ rows[m].l \in Mids /\ rows[m].c \in Mids
  <1>1. Minutes \in Nat
    BY MarketAssumption
  <1>2. /\ MinuteRange \in SUBSET Nat /\ Stored(rows) \in SUBSET MinuteRange
        /\ Minutes - 1 \in Int
    BY <1>1 DEF MinuteRange, Stored
  <1>3. IsFiniteSet(MinuteRange)
    BY <1>2, FS_Interval DEF MinuteRange
  <1>4. \A m \in Stored(rows) : rows[m] \in Candle /\ rows[m].ts = m
    BY <1>2 DEF TableOK, Stored
  <1>5. QED
    BY <1>2, <1>3, <1>4, FS_Subset DEF Candle

(* A bar of the minutes M: of those in its bucket, and of at least one.    *)
OfBucket(M, time) == {m \in M : BucketOf(m) = time}

Rolled(bar, M) ==
    /\ \E a \in M : /\ BucketOf(a) = bar.time /\ bar.o = rows[a].o
                    /\ \A m \in M : BucketOf(m) = bar.time => a <= m
    /\ \E z \in M : /\ BucketOf(z) = bar.time /\ bar.c = rows[z].c
                    /\ \A m \in M : BucketOf(m) = bar.time => m <= z
    /\ \E k \in M : BucketOf(k) = bar.time /\ bar.h = rows[k].h
    /\ \E k \in M : BucketOf(k) = bar.time /\ bar.l = rows[k].l
    /\ \A m \in M : BucketOf(m) = bar.time => rows[m].h <= bar.h /\ bar.l <= rows[m].l

AscendingBars(bars) ==
    \A i, j \in 1..Len(bars) : i < j => bars[i].time < bars[j].time

(* bars are those of the minutes M, each bucket's once and in order.       *)
BarsOf(bars, M) ==
    /\ bars \in Seq(Bar)
    /\ AscendingBars(bars)
    /\ \A i \in 1..Len(bars) : Rolled(bars[i], M)
    /\ \A m \in M : \E i \in 1..Len(bars) : bars[i].time = BucketOf(m)

LEMMA BarOfTypes ==
    ASSUME NEW c \in Candle, NEW time \in Nat
    PROVE  /\ BarOf(c, time) \in Bar /\ BarOf(c, time).time = time
           /\ BarOf(c, time).o = c.o /\ BarOf(c, time).h = c.h
           /\ BarOf(c, time).l = c.l /\ BarOf(c, time).c = c.c
  BY DEF BarOf, Bar, Candle

(* No bars of no minutes.                                                  *)
LEMMA NoBars == BarsOf(<<>>, {})
  BY DEF BarsOf, AscendingBars

(* One step of aggregateCandles: the candle of a later minute.             *)
LEMMA RollAddsMinute ==
    ASSUME TableOK, NEW M \in SUBSET Stored(rows), NEW n \in Stored(rows),
           \A m \in M : m < n, NEW out, BarsOf(out, M)
    PROVE  BarsOf(Roll(out, rows[n]), M \cup {n})
  <1> DEFINE t   == BucketOf(n)
             len == Len(out)
             c   == rows[n]
             new == Roll(out, c)
             all == M \cup {n}
  <1>1. /\ n \in Nat /\ t \in Nat /\ c \in Candle /\ c.ts = n
        /\ c.o \in Mids /\ c.h \in Mids /\ c.l \in Mids /\ c.c \in Mids
        /\ c.h \in Int /\ c.l \in Int
    BY TableFacts, BucketFacts, MarketAssumption
  <1>2. \A m \in M : /\ m \in Nat /\ BucketOf(m) \in Nat /\ BucketOf(m) <= t
                     /\ rows[m].h \in Int /\ rows[m].l \in Int
    <2> SUFFICES ASSUME NEW m \in M
                 PROVE  /\ m \in Nat /\ BucketOf(m) \in Nat /\ BucketOf(m) <= t
                        /\ rows[m].h \in Int /\ rows[m].l \in Int
      OBVIOUS
    <2>1. m \in Stored(rows) /\ m \in Nat /\ m < n
      BY TableFacts
    <2>2. m <= n
      BY <1>1, <2>1
    <2>3. BucketOf(m) <= t
      BY <1>1, <2>1, <2>2, BucketFacts
    <2>4. QED
      BY <2>1, <2>3, TableFacts, BucketFacts, MarketAssumption
  <1>3. /\ out \in Seq(Bar) /\ len \in Nat /\ AscendingBars(out)
        /\ \A i \in 1..len : out[i] \in Bar /\ out[i].time \in Nat /\ Rolled(out[i], M)
        /\ \A m \in M : \E i \in 1..len : out[i].time = BucketOf(m)
    <2>1. /\ out \in Seq(Bar) /\ AscendingBars(out)
          /\ \A i \in 1..len : Rolled(out[i], M)
          /\ \A m \in M : \E i \in 1..len : out[i].time = BucketOf(m)
      BY DEF BarsOf
    <2>2. len \in Nat /\ \A i \in 1..len : out[i] \in Bar
      BY <2>1, ElementOfSeq
    <2>3. \A b \in Bar : b.time \in Nat
      BY DEF Bar
    <2>4. QED
      BY <2>1, <2>2, <2>3
  <1>4. \A i \in 1..len : \E m \in M : BucketOf(m) = out[i].time
    BY <1>3 DEF Rolled
  <1>5. \A i \in 1..len : out[i].time <= t
    BY <1>2, <1>4
  <1> HIDE DEF t, len, c, all
  <1>6. CASE out = <<>> \/ Last(out).time # t
    <2> DEFINE bar == BarOf(c, t)
    <2>1. new = Append(out, bar)
      BY <1>1, <1>6 DEF Roll, t
    <2>2. /\ bar \in Bar /\ bar.time = t
          /\ bar.o = c.o /\ bar.h = c.h /\ bar.l = c.l /\ bar.c = c.c
      BY <1>1, BarOfTypes
    <2> HIDE DEF bar
    <2>3. \A i \in 1..len : out[i].time < t
      <3> SUFFICES ASSUME NEW i \in 1..len PROVE out[i].time < t
        OBVIOUS
      <3>1. len >= 1 /\ len \in 1..len /\ Last(out) = out[len] /\ out # <<>>
        BY <1>3 DEF Last, len
      <3>2. out[len].time # t /\ out[len].time <= t /\ out[len].time \in Nat
        BY <1>3, <1>5, <1>6, <3>1
      <3>3. i = len \/ out[i].time < out[len].time
        <4>1. i = len \/ i < len
          BY <1>3
        <4>2. QED
          BY <1>3, <3>1, <4>1 DEF AscendingBars, len
      <3>4. QED
        BY <1>1, <1>3, <3>2, <3>3 DEF t
    <2>4. \A m \in M : BucketOf(m) # t
      BY <1>1, <1>3, <2>3 DEF t
    <2>5. /\ new \in Seq(Bar) /\ Len(new) = len + 1 /\ new[len + 1] = bar
          /\ \A i \in 1..len : new[i] = out[i]
      BY <1>3, <2>1, <2>2 DEF len
    <2> HIDE DEF new
    <2>6. \A i \in 1..(len + 1) : i \in 1..len \/ i = len + 1
      BY <1>3
    <2>7. AscendingBars(new)
      <3> SUFFICES ASSUME NEW i \in 1..(len + 1), NEW j \in 1..(len + 1), i < j
                   PROVE  new[i].time < new[j].time
        BY <2>5 DEF AscendingBars
      <3>1. i \in 1..len
        BY <1>3
      <3>2. CASE j \in 1..len
        BY <1>3, <2>5, <3>1, <3>2 DEF AscendingBars, len
      <3>3. CASE j = len + 1
        BY <2>2, <2>3, <2>5, <3>1, <3>3
      <3>4. QED
        BY <2>6, <3>2, <3>3
    <2>8. ASSUME NEW i \in 1..len PROVE Rolled(new[i], all)
      <3>0. out[i].time \in Nat /\ t \in Nat /\ out[i].time < t
        BY <1>1, <1>3, <2>3 DEF t
      <3>1. new[i] = out[i] /\ Rolled(out[i], M) /\ out[i].time # t
        BY <1>3, <2>5, <3>0
      <3>2. \A m \in all : m \in M \/ (m = n /\ BucketOf(m) = t)
        BY DEF all, t
      <3>3. \A m \in M : m \in all
        BY DEF all
      <3>4. QED
        BY <3>1, <3>2, <3>3 DEF Rolled
    <2>9. Rolled(bar, all)
      <3>1. n \in all /\ BucketOf(n) = t /\ c = rows[n]
        BY DEF all, t, c
      <3>2. \A m \in all : BucketOf(m) = t => m = n
        BY <2>4 DEF all
      <3>3. QED
        BY <1>1, <2>2, <3>1, <3>2 DEF Rolled
    <2>10. \A m \in all : \E i \in 1..(len + 1) : new[i].time = BucketOf(m)
      <3>1. \A i \in 1..len : i \in 1..(len + 1)
        BY <1>3
      <3>2. len + 1 \in 1..(len + 1)
        BY <1>3
      <3>3. \A m \in all : m \in M \/ BucketOf(m) = t
        BY DEF all, t
      <3>4. QED
        BY <1>3, <2>2, <2>5, <3>1, <3>2, <3>3
    <2>11. QED
      BY <2>5, <2>6, <2>7, <2>8, <2>9, <2>10 DEF BarsOf, all, c, new
  <1>7. CASE out # <<>> /\ Last(out).time = t
    <2> DEFINE old == out[len]
               h   == Larger(old.h, c.h)
               l   == Smaller(old.l, c.l)
               bar == [time |-> t, o |-> old.o, h |-> h, l |-> l, c |-> c.c]
    <2>1. len >= 1 /\ len \in 1..len /\ Last(out) = old
      BY <1>3, <1>7 DEF Last, len
    <2>2. /\ old \in Bar /\ old.time = t /\ Rolled(old, M)
          /\ old.o \in Mids /\ old.h \in Mids /\ old.l \in Mids
          /\ old.h \in Int /\ old.l \in Int
      BY <1>3, <1>7, <2>1, MarketAssumption DEF Bar
    <2>3. new = [out EXCEPT ![len] = bar]
      BY <1>1, <1>7, <2>1 DEF Roll, t, len
    <2>4. /\ h \in Mids /\ l \in Mids
          /\ (h = old.h \/ h = c.h) /\ (l = old.l \/ l = c.l)
          /\ h >= old.h /\ h >= c.h /\ l <= old.l /\ l <= c.l /\ h \in Int /\ l \in Int
      BY <1>1, <2>2, MarketAssumption DEF Larger, Smaller
    <2> HIDE DEF h, l
    <2>5. /\ bar \in Bar /\ bar.time = t /\ bar.o = old.o
          /\ bar.h = h /\ bar.l = l /\ bar.c = c.c
      BY <1>1, <2>2, <2>4 DEF Bar
    <2> HIDE DEF bar, old
    <2>6. /\ new \in Seq(Bar) /\ Len(new) = len /\ new[len] = bar
          /\ \A i \in 1..len : i # len => new[i] = out[i]
      BY <1>3, <2>1, <2>3, <2>5, ExceptSeq DEF len
    <2> HIDE DEF new
    <2>7. \A i \in 1..len : new[i].time = out[i].time
      BY <2>2, <2>5, <2>6 DEF old
    <2>8. AscendingBars(new)
      BY <1>3, <2>6, <2>7 DEF AscendingBars, len
    <2>9. ASSUME NEW i \in 1..len, i # len PROVE Rolled(new[i], all)
      <3>1. new[i] = out[i] /\ Rolled(out[i], M)
        BY <1>3, <2>6, <2>9
      <3>2. out[i].time # t
        <4>1. i < len
          BY <1>3, <2>9
        <4>2. out[i].time < old.time
          BY <1>3, <2>1, <4>1 DEF AscendingBars, len, old
        <4>3. QED
          BY <1>1, <1>3, <2>2, <4>2 DEF t
      <3>3. \A m \in all : m \in M \/ (m = n /\ BucketOf(m) = t)
        BY DEF all, t
      <3>4. \A m \in M : m \in all
        BY DEF all
      <3>5. QED
        BY <3>1, <3>2, <3>3, <3>4 DEF Rolled
    <2>10. Rolled(bar, all)
      <3>1. n \in all /\ BucketOf(n) = t /\ c = rows[n] /\ \A m \in M : m \in all
        BY DEF all, t, c
      <3>2. \A m \in all : m \in M \/ m = n
        BY DEF all
      <3>3. \E a \in all : /\ BucketOf(a) = t /\ old.o = rows[a].o
                           /\ \A m \in all : BucketOf(m) = t => a <= m
        <4>1. PICK a \in M : /\ BucketOf(a) = t /\ old.o = rows[a].o
                             /\ \A m \in M : BucketOf(m) = t => a <= m
          BY <2>2 DEF Rolled
        <4>2. a < n /\ a \in Nat
          BY <1>2
        <4>3. a <= n
          BY <1>1, <4>2
        <4>4. QED
          BY <3>1, <3>2, <4>1, <4>3
      <3>4. \A m \in all : BucketOf(m) = t => m <= n
        <4>1. \A m \in M : m <= n
          BY <1>1, <1>2
        <4>2. n <= n
          BY <1>1
        <4>3. QED
          BY <3>2, <4>1, <4>2
      <3>5. \E k \in all : BucketOf(k) = t /\ h = rows[k].h
        BY <2>2, <2>4, <3>1 DEF Rolled
      <3>6. \E k \in all : BucketOf(k) = t /\ l = rows[k].l
        BY <2>2, <2>4, <3>1 DEF Rolled
      <3>7. \A m \in all : BucketOf(m) = t => rows[m].h <= h /\ l <= rows[m].l
        <4>1. \A m \in M : BucketOf(m) = t => rows[m].h <= old.h /\ old.l <= rows[m].l
          BY <2>2 DEF Rolled
        <4>2. \A m \in M : BucketOf(m) = t => rows[m].h <= h /\ l <= rows[m].l
          BY <1>2, <2>2, <2>4, <4>1
        <4>3. rows[n].h <= h /\ l <= rows[n].l
          BY <1>1, <2>4, <3>1
        <4>4. QED
          BY <3>2, <4>2, <4>3
      <3>8. QED
        BY <2>5, <3>1, <3>3, <3>4, <3>5, <3>6, <3>7 DEF Rolled
    <2>11. \A m \in all : \E i \in 1..len : new[i].time = BucketOf(m)
      <3>1. \A m \in all : m \in M \/ BucketOf(m) = t
        BY DEF all, t
      <3>2. \A m \in M : \E i \in 1..len : new[i].time = BucketOf(m)
        BY <1>3, <2>7
      <3>3. new[len].time = t
        BY <2>5, <2>6
      <3>4. QED
        BY <2>1, <3>1, <3>2, <3>3
    <2>12. QED
      BY <2>6, <2>8, <2>9, <2>10, <2>11 DEF BarsOf, all, c, new
  <1>8. QED
    BY <1>6, <1>7
---------------------------------------------------------------------------
(* AggregateCandles as the last of a sequence of steps.                    *)

(* FoldLeft takes the greatest index last: iter is its recursion over sets *)
(* of indices, here over those without more than n elements.               *)
Greatest(s) == CHOOSE x \in s : \A y \in s : x >= y

FoldStep(m1, iter, s) ==
    IF s = {} THEN <<>> ELSE Roll(iter[s \ {Greatest(s)}], m1[Greatest(s)])

Folds(m1, iter)          == iter = [s \in SUBSET (DOMAIN m1) |-> FoldStep(m1, iter, s)]
FoldsUpTo(m1, n, iter) ==
    iter = [s \in {u \in SUBSET (DOMAIN m1) : Cardinality(u) <= n} |-> FoldStep(m1, iter, s)]

LEMMA AggregateUnfolds ==
    ASSUME NEW m1
    PROVE  AggregateCandles(m1) = (CHOOSE iter : Folds(m1, iter))[DOMAIN m1]
  BY DEF AggregateCandles, FoldLeft, MapThenFoldSet, Folds, FoldStep, Max, Greatest

LEMMA GreatestRemoved ==
    ASSUME NEW n \in Nat, NEW s \in SUBSET (1..n), s # {}
    PROVE  /\ Greatest(s) \in s /\ \A y \in s : Greatest(s) >= y
           /\ Cardinality(s) \in Nat /\ Cardinality(s \ {Greatest(s)}) = Cardinality(s) - 1
  <1>1. s \in SUBSET (0..n) /\ \A y \in s : y \in Int
    OBVIOUS
  <1>2. PICK m \in s : \A k \in s : k <= m
    BY <1>1, GreatestNumber
  <1>3. \A y \in s : m >= y
    BY <1>1, <1>2
  <1>4. Greatest(s) \in s /\ \A y \in s : Greatest(s) >= y
    BY <1>3 DEF Greatest
  <1>5. IsFiniteSet(s)
    BY OneToN, FS_Subset
  <1>6. QED
    BY <1>4, <1>5, FS_RemoveElement, FS_CardinalityType

LEMMA FoldExists ==
    ASSUME NEW N \in Nat, NEW m1, DOMAIN m1 = 1..N
    PROVE  \E iter : Folds(m1, iter)
  <1> DEFINE Bad == {n \in Nat : ~\E iter : FoldsUpTo(m1, n, iter)}
             small(n) == {u \in SUBSET (1..N) : Cardinality(u) <= n}
  <1>1. IsFiniteSet(1..N) /\ Cardinality(1..N) = N
    BY OneToN
  <1>2. \A u \in SUBSET (1..N) : /\ Cardinality(u) \in Nat /\ Cardinality(u) <= N
                                 /\ (Cardinality(u) = 0 <=> u = {})
    <2>1. \A u \in SUBSET (1..N) : IsFiniteSet(u) /\ Cardinality(u) <= Cardinality(1..N)
      BY <1>1, FS_Subset
    <2>2. QED
      BY <1>1, <2>1, FS_CardinalityType, FS_EmptySet
  <1>3. ASSUME Bad # {} PROVE FALSE
    <2>1. PICK n \in Bad : \A m \in Bad : n <= m
      <3>1. Bad \in SUBSET Nat
        OBVIOUS
      <3> HIDE DEF Bad
      <3>2. QED
        BY <1>3, <3>1, LeastNumber
    <2>2. n # 0
      <3>1. ASSUME n = 0 PROVE FALSE
        <4> DEFINE iter == [s \in {{}} |-> <<>>]
        <4>1. small(0) = {{}}
          BY <1>2
        <4>2. \A s \in {{}} : FoldStep(m1, iter, s) = <<>>
          BY DEF FoldStep
        <4>3. iter = [s \in {{}} |-> FoldStep(m1, iter, s)]
          BY <4>2
        <4>4. FoldsUpTo(m1, 0, iter)
          BY <4>1, <4>3 DEF FoldsUpTo
        <4>5. QED
          BY <2>1, <3>1, <4>4
      <3>2. QED
        BY <3>1
    <2>3. PICK g : FoldsUpTo(m1, n - 1, g)
      <3>1. n - 1 \in Nat /\ ~(n <= n - 1)
        BY <2>2
      <3>2. QED
        BY <2>1, <3>1
    <2> DEFINE iter == [s \in small(n) |-> FoldStep(m1, g, s)]
    <2>4. \A s \in small(n) : s # {} => s \ {Greatest(s)} \in small(n - 1)
      <3> SUFFICES ASSUME NEW s \in SUBSET (1..N), Cardinality(s) <= n, s # {}
                   PROVE  Cardinality(s \ {Greatest(s)}) <= n - 1
        OBVIOUS
      <3>1. Cardinality(s) \in Nat /\ Cardinality(s \ {Greatest(s)}) = Cardinality(s) - 1
        BY GreatestRemoved
      <3>2. QED
        BY <2>1, <3>1
    <2>5. \A s \in small(n - 1) : s \in small(n) /\ iter[s] = g[s]
      <3> SUFFICES ASSUME NEW s \in small(n - 1) PROVE s \in small(n) /\ iter[s] = g[s]
        OBVIOUS
      <3>1. s \in small(n)
        BY <1>2, <2>1
      <3>2. g = [u \in small(n - 1) |-> FoldStep(m1, g, u)]
        BY <2>3 DEF FoldsUpTo
      <3> HIDE DEF small
      <3>3. g[s] = FoldStep(m1, g, s)
        BY <3>2
      <3>4. QED
        BY <3>1, <3>3
    <2>6. FoldsUpTo(m1, n, iter)
      <3> DEFINE again == [s \in small(n) |-> FoldStep(m1, iter, s)]
      <3>1. \A s \in small(n) : FoldStep(m1, g, s) = FoldStep(m1, iter, s)
        <4> HIDE DEF iter, small
        <4>1. QED
          BY <2>4, <2>5 DEF FoldStep
      <3>2. iter = again
        <4> HIDE DEF small
        <4>1. QED
          BY <3>1
      <3>3. QED
        BY <3>2 DEF FoldsUpTo
    <2>7. QED
      BY <2>1, <2>6
  <1>4. PICK iter : FoldsUpTo(m1, N, iter)
    BY <1>3
  <1>5. {u \in SUBSET (1..N) : Cardinality(u) <= N} = SUBSET (1..N)
    BY <1>2
  <1>6. Folds(m1, iter)
    BY <1>4, <1>5 DEF FoldsUpTo, Folds
  <1>7. QED
    BY <1>6

(* What the first k candles come to.                                       *)
LEMMA AggregateSteps ==
    ASSUME NEW N \in Nat, NEW m1, DOMAIN m1 = 1..N
    PROVE  \E out : /\ out[0] = <<>>
                    /\ \A k \in 1..N : out[k] = Roll(out[k - 1], m1[k])
                    /\ AggregateCandles(m1) = out[N]
  <1>1. PICK iter : Folds(m1, iter) /\ AggregateCandles(m1) = iter[1..N]
    <2>1. Folds(m1, CHOOSE iter : Folds(m1, iter))
      BY FoldExists
    <2>2. QED
      BY <2>1, AggregateUnfolds
  <1> DEFINE out == [k \in 0..N |-> iter[1..k]]
  <1>2. \A s \in SUBSET (1..N) : iter[s] = FoldStep(m1, iter, s)
    BY <1>1 DEF Folds
  <1>3. out[0] = <<>>
    <2>1. 1..0 = {}
      OBVIOUS
    <2>2. iter[{}] = <<>>
      BY <1>2 DEF FoldStep
    <2>3. QED
      BY <2>1, <2>2
  <1>4. ASSUME NEW k \in 1..N PROVE out[k] = Roll(out[k - 1], m1[k])
    <2>1. 1..k \in SUBSET (1..N) /\ k \in 1..k /\ \A y \in 1..k : y <= k
      OBVIOUS
    <2>2. Greatest(1..k) = k
      <3>1. Greatest(1..k) \in 1..k /\ \A y \in 1..k : Greatest(1..k) >= y
        BY <2>1, GreatestRemoved
      <3>2. Greatest(1..k) >= k /\ Greatest(1..k) <= k /\ Greatest(1..k) \in Int
        BY <2>1, <3>1
      <3>3. QED
        BY <3>2
    <2>3. (1..k) \ {k} = 1..(k - 1)
      OBVIOUS
    <2>4. iter[1..k] = Roll(iter[1..(k - 1)], m1[k])
      BY <1>2, <2>1, <2>2, <2>3 DEF FoldStep
    <2>5. k - 1 \in 0..N /\ k \in 0..N
      OBVIOUS
    <2>6. QED
      BY <2>4, <2>5
  <1>5. AggregateCandles(m1) = out[N]
    BY <1>1
  <1> HIDE DEF out
  <1>6. QED
    BY <1>3, <1>4, <1>5

(* The candles of some minutes in order come to the bars of those minutes. *)
LEMMA AggregateMakesBars ==
    ASSUME TableOK, NEW M \in SUBSET Stored(rows), NEW N \in Nat,
           NEW minutes, Enumerates(minutes, N, M),
           NEW m1, m1 = [i \in 1..N |-> rows[minutes[i]]]
    PROVE  BarsOf(AggregateCandles(m1), M)
  <1> /\ minutes \in [1..N -> M]
      /\ \A i, j \in 1..N : i < j => minutes[i] < minutes[j]
      /\ \A m \in M : \E i \in 1..N : minutes[i] = m
    BY DEF Enumerates
  <1> DEFINE first(k) == {minutes[i] : i \in 1..k}
  <1>1. DOMAIN m1 = 1..N
    OBVIOUS
  <1>2. PICK out : /\ out[0] = <<>>
                   /\ \A k \in 1..N : out[k] = Roll(out[k - 1], m1[k])
                   /\ AggregateCandles(m1) = out[N]
    BY <1>1, AggregateSteps
  <1> DEFINE Bad == {k \in 0..N : ~BarsOf(out[k], first(k))}
  <1>3. ASSUME Bad # {} PROVE FALSE
    <2>1. PICK k \in Bad : \A j \in Bad : k <= j
      <3>1. Bad \in SUBSET Nat
        OBVIOUS
      <3> HIDE DEF Bad
      <3>2. QED
        BY <1>3, <3>1, LeastNumber
    <2>2. k # 0
      <3>1. first(0) = {}
        OBVIOUS
      <3>2. k = 0 => BarsOf(out[k], first(k))
        BY <1>2, <3>1, NoBars
      <3>3. QED
        BY <2>1, <3>2
    <2>3. k \in 1..N /\ k - 1 \in 0..N /\ k - 1 < k
      BY <2>1, <2>2
    <2>4. BarsOf(out[k - 1], first(k - 1))
      <3>1. k - 1 \notin Bad
        <4> HIDE DEF Bad
        <4>1. QED
          BY <2>1, <2>3
      <3> HIDE DEF first
      <3>2. QED
        BY <2>3, <3>1
    <2>5. /\ first(k - 1) \in SUBSET Stored(rows)
          /\ minutes[k] \in Stored(rows)
          /\ \A m \in first(k - 1) : m < minutes[k]
          /\ first(k) = first(k - 1) \cup {minutes[k]}
      <3>1. \A i \in 1..(k - 1) : i \in 1..N /\ i < k /\ i \in 1..k
        BY <2>3
      <3>2. \A i \in 1..k : i \in 1..N /\ (i = k \/ i \in 1..(k - 1))
        BY <2>3
      <3>3. k \in 1..k
        BY <2>3
      <3>4. first(k) = first(k - 1) \cup {minutes[k]}
        BY <3>1, <3>2, <3>3
      <3>5. QED
        BY <2>3, <3>1, <3>4
    <2>6. out[k] = Roll(out[k - 1], rows[minutes[k]])
      BY <1>2, <2>3
    <2> HIDE DEF first
    <2>7. BarsOf(out[k], first(k))
      <3> DEFINE before == out[k - 1]
                 n      == minutes[k]
                 past   == first(k - 1)
      <3>1. /\ past \in SUBSET Stored(rows) /\ n \in Stored(rows)
            /\ \A m \in past : m < n
            /\ BarsOf(before, past)
        BY <2>4, <2>5
      <3> HIDE DEF before, n, past
      <3>2. BarsOf(Roll(before, rows[n]), past \cup {n})
        BY <3>1, RollAddsMinute
      <3>3. QED
        BY <2>5, <2>6, <3>2 DEF before, n, past
    <2>8. QED
      BY <2>1, <2>7
  <1>4. BarsOf(out[N], first(N))
    <2> HIDE DEF first
    <2>1. QED
      BY <1>3
  <1>5. first(N) = M
    OBVIOUS
  <1>6. QED
    BY <1>2, <1>4, <1>5
---------------------------------------------------------------------------
(* The history request                                                     *)

(* What can be assigned to elements of a finite set, each to another.      *)
LEMMA CoveredBy ==
    ASSUME NEW S, IsFiniteSet(S), NEW T, NEW f, \A t \in T : \E s \in S : f[s] = t
    PROVE  IsFiniteSet(T) /\ Cardinality(T) <= Cardinality(S)
  <1> DEFINE g == [t \in T |-> CHOOSE s \in S : f[s] = t]
  <1>1. \A t \in T : g[t] \in S /\ f[g[t]] = t
    OBVIOUS
  <1>2. g \in [T -> S]
    BY <1>1
  <1>3. \A t, u \in T : g[t] = g[u] => t = u
    BY <1>1
  <1>4. g \in Injection(T, S)
    BY <1>2, <1>3 DEF Injection, IsInjective
  <1> HIDE DEF g
  <1>5. QED
    BY <1>4, FS_Injection

LEMMA IntervalSize ==
    ASSUME NEW a \in Int, NEW b \in Int, a <= b
    PROVE  IsFiniteSet(a..b) /\ Cardinality(a..b) = b - a + 1
  <1>1. IsFiniteSet(a..b) /\ Cardinality(a..b) = IF a > b THEN 0 ELSE b - a + 1
    BY FS_Interval
  <1>2. QED
    BY <1>1

(* With a timeframe of one minute the candles are the bars.                *)
LEMMA MinutesAreBars ==
    ASSUME TableOK, BucketMinutes = 1, NEW M \in SUBSET Stored(rows), NEW N \in Nat,
           NEW minutes, Enumerates(minutes, N, M),
           NEW m1, m1 = [i \in 1..N |-> rows[minutes[i]]]
    PROVE  /\ BarsOf([i \in DOMAIN m1 |-> BarOf(m1[i], m1[i].ts)], M)
           /\ Len([i \in DOMAIN m1 |-> BarOf(m1[i], m1[i].ts)]) = N
  <1> /\ minutes \in [1..N -> M]
      /\ \A i, j \in 1..N : i < j => minutes[i] < minutes[j]
      /\ \A m \in M : \E i \in 1..N : minutes[i] = m
    BY DEF Enumerates
  <1> DEFINE bars == [i \in 1..N |-> BarOf(m1[i], m1[i].ts)]
  <1>1. \A m \in Nat : BucketOf(m) = m
    <2>1. BucketMinutes = 1
      OBVIOUS
    <2>2. \A m \in Nat : m - BucketOf(m) * BucketMinutes \in 0..(BucketMinutes - 1)
                         /\ BucketOf(m) \in Nat
      BY BucketFacts
    <2>3. QED
      BY <2>1, <2>2
  <1>2. ASSUME NEW i \in 1..N
        PROVE  /\ minutes[i] \in M /\ minutes[i] \in Nat
               /\ rows[minutes[i]] \in Candle /\ m1[i] = rows[minutes[i]]
               /\ bars[i] = BarOf(rows[minutes[i]], minutes[i])
               /\ bars[i] \in Bar /\ bars[i].time = minutes[i]
               /\ bars[i].o = rows[minutes[i]].o /\ bars[i].h = rows[minutes[i]].h
               /\ bars[i].l = rows[minutes[i]].l /\ bars[i].c = rows[minutes[i]].c
               /\ bars[i].h \in Int /\ bars[i].l \in Int
    <2> DEFINE m == minutes[i]
               c == rows[m]
    <2>1. m \in M /\ m \in Nat /\ c \in Candle /\ c.ts = m /\ m1[i] = c
      BY TableFacts
    <2>2. bars[i] = BarOf(c, m)
      BY <2>1
    <2>3. c.h \in Int /\ c.l \in Int
      BY <2>1, TableFacts, MarketAssumption
    <2> HIDE DEF m, c, bars
    <2>4. /\ bars[i] \in Bar /\ bars[i].time = m
          /\ bars[i].o = c.o /\ bars[i].h = c.h /\ bars[i].l = c.l /\ bars[i].c = c.c
      BY <2>1, <2>2, BarOfTypes
    <2>5. QED
      BY <2>1, <2>2, <2>3, <2>4 DEF m, c
  <1>3. bars \in Seq(Bar) /\ Len(bars) = N
    <2>1. bars \in [1..N -> Bar]
      BY <1>2
    <2> HIDE DEF bars
    <2>2. QED
      BY <2>1
  <1>4. [i \in DOMAIN m1 |-> BarOf(m1[i], m1[i].ts)] = bars
    OBVIOUS
  <1> HIDE DEF bars
  <1>5. AscendingBars(bars)
    BY <1>2, <1>3 DEF AscendingBars
  <1>6. ASSUME NEW i \in 1..N PROVE Rolled(bars[i], M)
    <2>1. \A m \in M : BucketOf(m) = m /\ m \in Nat
      BY <1>1, TableFacts
    <2>2. \A m \in M : BucketOf(m) = bars[i].time => m = minutes[i]
      BY <1>2, <2>1
    <2>3. BucketOf(minutes[i]) = bars[i].time /\ minutes[i] \in M
      BY <1>2, <2>1
    <2>4. QED
      BY <1>2, <2>2, <2>3 DEF Rolled
  <1>7. \A m \in M : \E i \in 1..N : bars[i].time = BucketOf(m)
    <2> SUFFICES ASSUME NEW m \in M PROVE \E i \in 1..N : bars[i].time = BucketOf(m)
      OBVIOUS
    <2>1. BucketOf(m) = m
      BY <1>1, TableFacts
    <2>2. PICK i \in 1..N : minutes[i] = m
      OBVIOUS
    <2>3. bars[i].time = minutes[i]
      BY <1>2
    <2>4. QED
      BY <2>1, <2>2, <2>3
  <1>8. BarsOf(bars, M)
    BY <1>3, <1>5, <1>6, <1>7 DEF BarsOf
  <1>9. QED
    BY <1>3, <1>4, <1>8

LEMMA LastOfFacts ==
    ASSUME NEW seq \in Seq(Bar), NEW n \in Nat \ {0}
    PROVE  LET d == Larger(1, Len(seq) - n + 1) - 1
           IN  /\ d \in Nat /\ d <= Len(seq)
               /\ Len(seq) - d <= n /\ (d = 0 \/ Len(seq) - d = n)
               /\ LastOf(seq, n) \in Seq(Bar)
               /\ Len(LastOf(seq, n)) = Len(seq) - d
               /\ \A i \in 1..(Len(seq) - d) : LastOf(seq, n)[i] = seq[d + i]
  <1> DEFINE L == Len(seq)
             a == Larger(1, L - n + 1)
  <1>1. L \in Nat
    OBVIOUS
  <1>2. a \in 1..(L + 1) /\ L - (a - 1) <= n /\ (a = 1 \/ L - (a - 1) = n)
    BY <1>1 DEF Larger
  <1>3. LastOf(seq, n) = SubSeq(seq, a, L)
    BY DEF LastOf
  <1> HIDE DEF a
  <1>4. /\ SubSeq(seq, a, L) \in Seq(Bar)
        /\ Len(SubSeq(seq, a, L)) = L - (a - 1)
        /\ \A i \in 1..(L - (a - 1)) : SubSeq(seq, a, L)[i] = seq[(a - 1) + i]
    <2>1. a \in Int /\ 1 <= a /\ a <= L + 1
      BY <1>1, <1>2
    <2>2. \A i \in a..L : seq[i] \in Bar
      BY <2>1, ElementOfSeq
    <2>3. QED
      BY <1>1, <2>1, <2>2, SubSeqProperties
  <1>5. QED
    BY <1>1, <1>2, <1>3, <1>4 DEF a

(* The history is the last of the bars of the minutes read.                *)
LEMMA ReadBars ==
    ASSUME TableOK, NEW limit \in Nat \ {0}
    PROVE  \E bars : /\ BarsOf(bars, Newest(Stored(rows), limit * BucketMinutes))
                     /\ GetHistory(rows, limit) = LastOf(bars, limit)
  <1> DEFINE W       == Newest(Stored(rows), limit * BucketMinutes)
             N       == Cardinality(W)
             minutes == Ascending(W)
             m1      == [i \in DOMAIN minutes |-> rows[minutes[i]]]
  <1>1. BucketMinutes \in Nat \ {0} /\ limit * BucketMinutes \in Nat
    BY MarketAssumption
  <1>2. Stored(rows) \in SUBSET Nat /\ IsFiniteSet(Stored(rows))
    BY TableFacts
  <1>3. /\ W \in SUBSET Stored(rows) /\ W \in SUBSET Nat
        /\ IsFiniteSet(W) /\ Cardinality(W) <= limit * BucketMinutes
    <2>1. W \in SUBSET Stored(rows) /\ IsFiniteSet(W) /\ Cardinality(W) <= limit * BucketMinutes
      BY <1>1, <1>2, NewestAre
    <2>2. QED
      BY <1>2, <2>1
  <1> HIDE DEF W
  <1>4. N \in Nat /\ Enumerates(minutes, N, W)
    BY <1>3, AscendingEnumerates
  <1>5. m1 = [i \in 1..N |-> rows[minutes[i]]]
    <2>1. DOMAIN minutes = 1..N
      BY <1>4 DEF Enumerates
    <2>2. QED
      BY <2>1
  <1>6. GetHistory(rows, limit) =
           IF BucketMinutes = 1
           THEN [i \in DOMAIN m1 |-> BarOf(m1[i], m1[i].ts)]
           ELSE LastOf(AggregateCandles(m1), limit)
    BY DEF GetHistory, W
  <1> HIDE DEF minutes, m1, N
  <1>7. CASE BucketMinutes = 1
    <2> DEFINE bars == [i \in DOMAIN m1 |-> BarOf(m1[i], m1[i].ts)]
    <2>1. BarsOf(bars, W) /\ Len(bars) = N
      BY <1>3, <1>4, <1>5, <1>7, MinutesAreBars
    <2>2. N <= limit
      BY <1>3, <1>7 DEF N
    <2> HIDE DEF bars
    <2>3. LastOf(bars, limit) = bars
      <3>1. bars \in Seq(Bar) /\ Larger(1, Len(bars) - limit + 1) = 1
        BY <1>4, <2>1, <2>2 DEF BarsOf, Larger
      <3>2. LastOf(bars, limit) = SubSeq(bars, 1, Len(bars))
        BY <3>1 DEF LastOf
      <3>3. QED
        BY <3>1, <3>2, SubSeqFull
    <2>4. GetHistory(rows, limit) = bars
      BY <1>6, <1>7 DEF bars
    <2>5. QED
      BY <2>1, <2>3, <2>4 DEF W
  <1>8. CASE BucketMinutes # 1
    <2>1. BarsOf(AggregateCandles(m1), W)
      BY <1>3, <1>4, <1>5, AggregateMakesBars
    <2>2. QED
      BY <1>6, <1>8, <2>1 DEF W
  <1>9. QED
    BY <1>7, <1>8

Buckets == {BucketOf(m) : m \in Stored(rows)}

LEMMA BucketsAre ==
    ASSUME TableOK
    PROVE  /\ Buckets \in SUBSET Nat /\ IsFiniteSet(Buckets)
           /\ \A m \in Stored(rows) : BucketOf(m) \in Buckets
  <1>1. Stored(rows) \in SUBSET Nat /\ IsFiniteSet(Stored(rows))
    BY TableFacts
  <1>2. Buckets \in SUBSET Nat
    BY <1>1, BucketFacts DEF Buckets
  <1>3. IsFiniteSet(Buckets)
    <2> DEFINE f == [m \in Stored(rows) |-> BucketOf(m)]
    <2>1. \A b \in Buckets : \E m \in Stored(rows) : f[m] = b
      BY DEF Buckets
    <2> HIDE DEF f
    <2>2. QED
      BY <1>1, <2>1, CoveredBy
  <1>4. QED
    BY <1>2, <1>3 DEF Buckets

(* All minutes of the newest n buckets are among the newest n times        *)
(* BucketMinutes minutes: missing minutes only leave room for more.        *)
LEMMA WholeBucketsAreRead ==
    ASSUME TableOK, NEW n \in Nat, NEW m \in Stored(rows),
           BucketOf(m) \in Newest(Buckets, n)
    PROVE  m \in Newest(Stored(rows), n * BucketMinutes)
  <1> DEFINE B == BucketMinutes
             U == {b \in Buckets : b >= BucketOf(m)}
             R == 0..(B - 1)
             S == {k \in Stored(rows) : k >= m}
             f == [k \in S |-> <<BucketOf(k), k - BucketOf(k) * B>>]
  <1>1. B \in Nat \ {0}
    BY MarketAssumption
  <1>2. /\ m \in Nat /\ BucketOf(m) \in Nat
        /\ \A k \in Stored(rows) : /\ k \in Nat /\ BucketOf(k) \in Nat
                                   /\ BucketOf(k) \in Buckets
                                   /\ k - BucketOf(k) * B \in R
                                   /\ k >= m => BucketOf(k) >= BucketOf(m)
    BY TableFacts, BucketFacts, BucketsAre
  <1>3. IsFiniteSet(U) /\ Cardinality(U) \in Nat /\ Cardinality(U) <= n
    <2>1. Cardinality(U) <= n
      BY DEF Newest
    <2>2. U \in SUBSET Buckets
      OBVIOUS
    <2>3. QED
      BY <2>1, <2>2, BucketsAre, FS_Subset, FS_CardinalityType
  <1>4. IsFiniteSet(R) /\ Cardinality(R) = B
    <2>1. 0 \in Int /\ B - 1 \in Int /\ 0 <= B - 1 /\ B - 1 - 0 + 1 = B
      BY <1>1
    <2>2. QED
      BY <2>1, IntervalSize
  <1>5. IsFiniteSet(U \X R) /\ Cardinality(U \X R) = Cardinality(U) * B
    BY <1>3, <1>4, FS_Product
  <1>6. f \in Injection(S, U \X R)
    <2>1. f \in [S -> U \X R]
      BY <1>2
    <2>2. ASSUME NEW j \in S, NEW k \in S, f[j] = f[k] PROVE j = k
      <3>1. BucketOf(j) = BucketOf(k) /\ j - BucketOf(j) * B = k - BucketOf(k) * B
        BY <2>2
      <3> DEFINE d == BucketOf(k) * B
      <3>2. d \in Int /\ j \in Nat /\ k \in Nat /\ j - d = k - d
        BY <1>1, <1>2, <3>1
      <3> HIDE DEF d
      <3>3. QED
        BY <3>2
    <2>3. QED
      BY <2>1, <2>2 DEF Injection, IsInjective
  <1>7. IsFiniteSet(S) /\ Cardinality(S) <= Cardinality(U) * B
    <2> HIDE DEF f, S, U, R
    <2>1. QED
      BY <1>5, <1>6, FS_Injection
  <1>8. Cardinality(U) * B <= n * B
    BY <1>1, <1>3
  <1>9. Cardinality(S) <= n * B
    <2>1. Cardinality(S) \in Nat
      BY <1>7, FS_CardinalityType
    <2>2. Cardinality(U) * B \in Int /\ n * B \in Int
      BY <1>1, <1>3
    <2> HIDE DEF S, U
    <2>3. QED
      BY <1>7, <1>8, <2>1, <2>2
  <1>10. QED
    BY <1>9 DEF Newest

(* What the history request returns, for every table and limit.            *)
LEMMA HistoryIs ==
    ASSUME TableOK, NEW limit \in Nat \ {0}, NEW bars, bars = GetHistory(rows, limit)
    PROVE  /\ BarsOf(bars, {m \in Stored(rows) : BucketOf(m) \in Newest(Buckets, limit)})
           /\ \A i \in 1..Len(bars) : /\ bars[i].time \in Newest(Buckets, limit)
                                      /\ Rolled(bars[i], Stored(rows))
  <1> DEFINE T == Newest(Buckets, limit)
             W == Newest(Stored(rows), limit * BucketMinutes)
             Z == {m \in Stored(rows) : BucketOf(m) \in T}
  <1>1. PICK full : BarsOf(full, W) /\ bars = LastOf(full, limit)
    BY ReadBars
  <1> DEFINE L == Len(full)
             d == Larger(1, L - limit + 1) - 1
  <1>2. /\ full \in Seq(Bar) /\ L \in Nat
        /\ d \in Nat /\ d <= L /\ L - d <= limit /\ (d = 0 \/ L - d = limit)
        /\ bars \in Seq(Bar) /\ Len(bars) = L - d
        /\ \A i \in 1..(L - d) : bars[i] = full[d + i]
    <2>1. full \in Seq(Bar)
      BY <1>1 DEF BarsOf
    <2>2. /\ d \in Nat /\ d <= L /\ L - d <= limit /\ (d = 0 \/ L - d = limit)
          /\ LastOf(full, limit) \in Seq(Bar)
          /\ Len(LastOf(full, limit)) = L - d
          /\ \A i \in 1..(L - d) : LastOf(full, limit)[i] = full[d + i]
      BY <2>1, LastOfFacts
    <2>3. QED
      BY <1>1, <2>1, <2>2
  <1>3. /\ Stored(rows) \in SUBSET Nat /\ IsFiniteSet(Stored(rows))
        /\ Buckets \in SUBSET Nat /\ IsFiniteSet(Buckets)
        /\ \A m \in Stored(rows) : BucketOf(m) \in Buckets /\ BucketOf(m) \in Nat
    BY TableFacts, BucketsAre
  <1>4. limit \in Nat /\ limit * BucketMinutes \in Nat
    BY MarketAssumption
  <1>5. /\ W \in SUBSET Stored(rows)
        /\ \A m \in W, k \in Stored(rows) : k >= m => k \in W
    BY <1>3, <1>4, NewestAre
  <1>6. \A m \in Stored(rows) : BucketOf(m) \in T => m \in W
    BY <1>4, WholeBucketsAreRead
  <1> HIDE DEF T, W, L, d
  <1>7. \A m \in W, k \in Stored(rows) : BucketOf(k) > BucketOf(m) => k \in W
    <2> SUFFICES ASSUME NEW m \in W, NEW k \in Stored(rows), BucketOf(k) > BucketOf(m)
                 PROVE  k \in W
      OBVIOUS
    <2>1. m \in Nat /\ k \in Nat /\ BucketOf(m) \in Nat /\ BucketOf(k) \in Nat
      BY <1>3, <1>5
    <2>2. ~(k <= m)
      BY <2>1, BucketFacts
    <2>3. k >= m
      BY <2>1, <2>2
    <2>4. QED
      BY <1>5, <2>3
  <1>8. /\ \A i \in 1..L : full[i].time \in Nat /\ Rolled(full[i], W)
        /\ \A i, j \in 1..L : i < j => full[i].time < full[j].time
        /\ \A m \in W : \E i \in 1..L : full[i].time = BucketOf(m)
    <2>1. \A i \in 1..L : full[i] \in Bar
      BY <1>2, ElementOfSeq DEF L
    <2>2. QED
      BY <1>1, <2>1 DEF BarsOf, AscendingBars, L, Bar
  <1>9. \A i \in 1..L : \E m \in W : BucketOf(m) = full[i].time
    BY <1>8 DEF Rolled
  <1> DEFINE newer(t) == {b \in Buckets : b >= t}
             time     == [i \in 1..L |-> full[i].time]
  <1>10. \A b \in Buckets : b \in T <=> Cardinality(newer(b)) <= limit
    BY DEF T, Newest
  <1>11. \A b \in Nat : IsFiniteSet(newer(b)) /\ Cardinality(newer(b)) \in Nat
    BY <1>3, FS_Subset, FS_CardinalityType
  (* The buckets from that of bar j on are those of the bars from j on.    *)
  <1>12. ASSUME NEW j \in 1..L
         PROVE  /\ full[j].time \in Buckets
                /\ \A b \in newer(full[j].time) : \E i \in j..L : time[i] = b
                /\ \A i \in j..L : time[i] \in newer(full[j].time)
    <2> DEFINE t == full[j].time
    <2>1. PICK w \in W : BucketOf(w) = t
      BY <1>9
    <2>2. t \in Buckets /\ t \in Nat
      BY <1>3, <1>5, <2>1
    <2>3. ASSUME NEW b \in newer(t) PROVE \E i \in j..L : time[i] = b
      <3>1. b \in Nat /\ b >= t
        BY <1>3
      <3>2. PICK k \in Stored(rows) : BucketOf(k) = b
        BY DEF Buckets
      <3>3. CASE b = t
        BY <1>2, <3>3
      <3>4. CASE b # t
        <4>1. b > t
          BY <2>2, <3>1, <3>4
        <4>2. k \in W
          BY <1>7, <2>1, <3>2, <4>1
        <4>3. PICK i \in 1..L : full[i].time = b
          BY <1>8, <3>2, <4>2
        <4>4. ~(i < j)
          <5>1. i < j => b < t
            BY <1>8, <4>3
          <5>2. QED
            BY <2>2, <3>1, <4>1, <5>1
        <4>5. i \in j..L
          BY <1>2, <4>4
        <4>6. QED
          BY <4>3, <4>5
      <3>5. QED
        BY <3>3, <3>4
    <2>4. ASSUME NEW i \in j..L PROVE time[i] \in newer(t)
      <3>1. i \in 1..L /\ (i = j \/ j < i)
        BY <1>2
      <3>2. full[i].time \in Nat /\ full[i].time >= t
        BY <1>8, <2>2, <3>1
      <3>3. full[i].time \in Buckets
        BY <1>3, <1>5, <1>9, <3>1
      <3>4. QED
        BY <3>1, <3>2, <3>3
    <2>5. QED
      BY <2>2, <2>3, <2>4
  <1>13. ASSUME NEW j \in 1..L
         PROVE  Cardinality(newer(full[j].time)) = L - j + 1
    <2> DEFINE t == full[j].time
               U == newer(t)
               g == [i \in j..L |-> time[i]]
    <2>1. j \in Int /\ L \in Int /\ j <= L
      BY <1>2
    <2>2. IsFiniteSet(j..L) /\ Cardinality(j..L) = L - j + 1
      BY <2>1, IntervalSize
    <2>3. g \in [j..L -> U] /\ \A b \in U : \E i \in j..L : g[i] = b
      BY <1>12
    <2>4. \A i, k \in j..L : g[i] = g[k] => i = k
      <3> SUFFICES ASSUME NEW i \in j..L, NEW k \in j..L, i # k PROVE g[i] # g[k]
        OBVIOUS
      <3>1. i \in 1..L /\ k \in 1..L /\ (i < k \/ k < i)
        BY <1>2
      <3>2. full[i].time \in Nat /\ full[k].time \in Nat
        BY <1>8, <3>1
      <3>3. full[i].time # full[k].time
        BY <1>8, <3>1, <3>2
      <3>4. QED
        BY <3>1, <3>3
    <2>5. g \in Surjection(j..L, U) /\ g \in Injection(j..L, U)
      BY <2>3, <2>4 DEF Surjection, Injection, IsInjective
    <2> HIDE DEF g, U
    <2>6. Cardinality(U) = Cardinality(j..L)
      BY <2>2, <2>5, FS_Surjection
    <2>7. QED
      BY <2>2, <2>6 DEF U
  <1>14. \A j \in 1..L : full[j].time \in T <=> j > d
    <2> SUFFICES ASSUME NEW j \in 1..L PROVE full[j].time \in T <=> j > d
      OBVIOUS
    <2>1. full[j].time \in T <=> L - j + 1 <= limit
      <3> HIDE DEF newer
      <3>1. QED
        BY <1>10, <1>12, <1>13
    <2>2. QED
      BY <1>2, <2>1
  <1> HIDE DEF newer, time
  <1>15. \A i \in 1..(L - d) : d + i \in 1..L /\ d + i > d
    BY <1>2
  <1>16. ASSUME NEW i \in 1..Len(bars)
         PROVE  bars[i].time \in T /\ Rolled(bars[i], Stored(rows)) /\ Rolled(bars[i], Z)
    <2>1. bars[i] = full[d + i] /\ d + i \in 1..L /\ d + i > d
      BY <1>2, <1>15
    <2>2. bars[i].time \in T /\ Rolled(bars[i], W)
      BY <1>8, <1>14, <2>1
    <2>3. \A m \in Stored(rows) : BucketOf(m) = bars[i].time => m \in W
      BY <1>6, <2>2
    <2>4. \A m \in W : m \in Stored(rows) /\ (BucketOf(m) = bars[i].time => m \in Z)
      BY <1>5, <2>2
    <2>5. \A m \in Z : m \in Stored(rows)
      OBVIOUS
    <2> HIDE DEF Z
    <2>6. Rolled(bars[i], Stored(rows))
      BY <2>2, <2>3, <2>4 DEF Rolled
    <2>7. Rolled(bars[i], Z)
      BY <2>2, <2>3, <2>4, <2>5 DEF Rolled
    <2>8. QED
      BY <2>2, <2>6, <2>7
  <1>17. AscendingBars(bars)
    <2> SUFFICES ASSUME NEW i \in 1..(L - d), NEW j \in 1..(L - d), i < j
                 PROVE  bars[i].time < bars[j].time
      BY <1>2 DEF AscendingBars
    <2>1. d + i < d + j
      BY <1>2
    <2>2. QED
      BY <1>2, <1>8, <1>15, <2>1
  <1>18. ASSUME NEW m \in Z PROVE \E i \in 1..Len(bars) : bars[i].time = BucketOf(m)
    <2>1. m \in W /\ BucketOf(m) \in T
      BY <1>6
    <2>2. PICK j \in 1..L : full[j].time = BucketOf(m)
      BY <1>8, <2>1
    <2>3. j > d
      BY <1>14, <2>1, <2>2
    <2>4. j - d \in 1..(L - d) /\ d + (j - d) = j
      BY <1>2, <2>3
    <2>5. bars[j - d].time = BucketOf(m)
      BY <1>2, <2>2, <2>4
    <2>6. QED
      BY <1>2, <2>4, <2>5
  <1>19. QED
    <2>1. BarsOf(bars, Z)
      BY <1>2, <1>16, <1>17, <1>18 DEF BarsOf
    <2>2. QED
      BY <1>16, <2>1 DEF T

LEMMA LeastIsMin ==
    ASSUME NEW S \in SUBSET Int, NEW a \in S, \A m \in S : a <= m
    PROVE  Min(S) = a
  <1>1. a \in Int /\ \A m \in S : m \in Int
    OBVIOUS
  <1>2. \A m \in S : (\A k \in S : m <= k) => m = a
    BY <1>1
  <1>3. QED
    BY <1>2 DEF Min

LEMMA GreatestIsMax ==
    ASSUME NEW S \in SUBSET Int, NEW a \in S, \A m \in S : m <= a
    PROVE  Max(S) = a
  <1>1. a \in Int /\ \A m \in S : m \in Int
    OBVIOUS
  <1>2. \A m \in S : (\A k \in S : m >= k) => m = a
    BY <1>1
  <1>3. \A m \in S : a >= m
    BY <1>1
  <1>4. QED
    BY <1>2, <1>3 DEF Max

LEMMA TableNumbers ==
    ASSUME TableOK
    PROVE  \A m \in Stored(rows) : m \in Int /\ rows[m].h \in Int /\ rows[m].l \in Int
  <1> SUFFICES ASSUME NEW m \in Stored(rows)
               PROVE  m \in Int /\ rows[m].h \in Int /\ rows[m].l \in Int
    OBVIOUS
  <1>1. m \in Nat /\ rows[m].h \in Mids /\ rows[m].l \in Mids
    BY TableFacts
  <1>2. \A x \in Mids : x \in Int
    BY MarketAssumption
  <1>3. rows[m].h \in Int /\ rows[m].l \in Int
    BY <1>1, <1>2, Zenon
  <1>4. QED
    BY <1>1, <1>3

LEMMA RolledRollsUp ==
    ASSUME TableOK, NEW bar, Rolled(bar, Stored(rows)),
           NEW S, S = {m \in Stored(rows) : BucketOf(m) = bar.time}
    PROVE  RollsUp(bar, S)
  <1>1. \A m \in S : /\ m \in Stored(rows) /\ m \in Int /\ BucketOf(m) = bar.time
                     /\ rows[m].h \in Int /\ rows[m].l \in Int
    <2>1. \A m \in S : m \in Stored(rows) /\ BucketOf(m) = bar.time
      OBVIOUS
    <2>2. \A m \in Stored(rows) : m \in Int /\ rows[m].h \in Int /\ rows[m].l \in Int
      BY TableNumbers
    <2>3. QED
      BY <2>1, <2>2
  <1>2. \A m \in Stored(rows) : BucketOf(m) = bar.time => m \in S
    OBVIOUS
  <1>3. S \in SUBSET Int
    BY <1>1
  <1>4. PICK a \in S : bar.o = rows[a].o /\ \A m \in S : a <= m
    BY <1>1, <1>2 DEF Rolled
  <1>5. PICK z \in S : bar.c = rows[z].c /\ \A m \in S : m <= z
    BY <1>1, <1>2 DEF Rolled
  <1>6. PICK k \in S : bar.h = rows[k].h
    BY <1>1, <1>2 DEF Rolled
  <1>7. PICK j \in S : bar.l = rows[j].l
    BY <1>1, <1>2 DEF Rolled
  <1>8. \A m \in S : rows[m].h <= bar.h /\ bar.l <= rows[m].l
    BY <1>1 DEF Rolled
  <1>9. bar.o = rows[Min(S)].o
    <2>1. Min(S) = a
      BY <1>3, <1>4, LeastIsMin
    <2>2. QED
      BY <1>4, <2>1
  <1>10. bar.c = rows[Max(S)].c
    <2>1. Max(S) = z
      BY <1>3, <1>5, GreatestIsMax
    <2>2. QED
      BY <1>5, <2>1
  <1>11. bar.h = Max({rows[m].h : m \in S})
    <2> DEFINE H == {rows[m].h : m \in S}
    <2>1. H \in SUBSET Int /\ bar.h \in H /\ \A x \in H : x <= bar.h
      BY <1>1, <1>6, <1>8
    <2> HIDE DEF H
    <2>2. Max(H) = bar.h
      BY <2>1, GreatestIsMax
    <2>3. QED
      BY <2>2 DEF H
  <1>12. bar.l = Min({rows[m].l : m \in S})
    <2> DEFINE H == {rows[m].l : m \in S}
    <2>1. H \in SUBSET Int /\ bar.l \in H /\ \A x \in H : bar.l <= x
      BY <1>1, <1>7, <1>8
    <2> HIDE DEF H
    <2>2. Min(H) = bar.l
      BY <2>1, LeastIsMin
    <2>3. QED
      BY <2>2 DEF H
  <1>13. QED
    BY <1>9, <1>10, <1>11, <1>12 DEF RollsUp

(* The history request, whatever minutes are stored.                       *)
LEMMA HistoryIsWhole ==
    ASSUME TableOK
    PROVE  HistoryHasNoCutBucket
  <1> SUFFICES ASSUME NEW limit \in Limits,
                      NEW bars, bars = GetHistory(rows, limit),
                      NEW shown, shown = Newest(Buckets, limit)
               PROVE  /\ {bars[i].time : i \in DOMAIN bars} = shown
                      /\ Len(bars) = Cardinality(shown)
                      /\ \A i \in DOMAIN bars :
                            /\ i > 1 => bars[i - 1].time < bars[i].time
                            /\ RollsUp(bars[i], {m \in Stored(rows) : BucketOf(m) = bars[i].time})
    BY DEF HistoryHasNoCutBucket, Buckets
  <1>1. limit \in Nat \ {0} /\ limit \in Nat
    BY MarketAssumption
  <1> DEFINE Z == {m \in Stored(rows) : BucketOf(m) \in shown}
             n == Len(bars)
  <1>2. /\ BarsOf(bars, Z)
        /\ \A i \in 1..n : bars[i].time \in shown /\ Rolled(bars[i], Stored(rows))
    BY <1>1, HistoryIs
  <1>3. /\ bars \in Seq(Bar) /\ n \in Nat /\ DOMAIN bars = 1..n
        /\ \A i, j \in 1..n : i < j => bars[i].time < bars[j].time
        /\ \A m \in Z : \E i \in 1..n : bars[i].time = BucketOf(m)
    BY <1>2 DEF BarsOf, AscendingBars
  <1>4. \A i \in 1..n : bars[i].time \in Nat
    <2>1. \A i \in 1..n : bars[i] \in Bar
      BY <1>3, ElementOfSeq
    <2>2. QED
      BY <2>1 DEF Bar
  <1>5. \A b \in shown : \E i \in 1..n : bars[i].time = b
    <2> SUFFICES ASSUME NEW b \in shown PROVE \E i \in 1..n : bars[i].time = b
      OBVIOUS
    <2>1. PICK m \in Stored(rows) : BucketOf(m) = b
      BY DEF Newest, Buckets
    <2>2. QED
      BY <1>3, <2>1
  <1> HIDE DEF n, Z
  <1>6. {bars[i].time : i \in DOMAIN bars} = shown
    BY <1>2, <1>3, <1>5
  <1>7. n = Cardinality(shown)
    <2> DEFINE time == [i \in 1..n |-> bars[i].time]
    <2>1. time \in [1..n -> shown] /\ \A b \in shown : \E i \in 1..n : time[i] = b
      BY <1>2, <1>5
    <2>2. \A i, j \in 1..n : time[i] = time[j] => i = j
      <3> SUFFICES ASSUME NEW i \in 1..n, NEW j \in 1..n, i # j PROVE bars[i].time # bars[j].time
        OBVIOUS
      <3>1. i < j \/ j < i
        BY <1>3
      <3>2. bars[i].time \in Nat /\ bars[j].time \in Nat
        BY <1>4
      <3>3. QED
        BY <1>3, <3>1, <3>2
    <2>3. time \in Surjection(1..n, shown) /\ time \in Injection(1..n, shown)
      BY <2>1, <2>2 DEF Surjection, Injection, IsInjective
    <2>4. IsFiniteSet(1..n) /\ Cardinality(1..n) = n
      BY <1>3, OneToN
    <2> HIDE DEF time
    <2>5. QED
      BY <2>3, <2>4, FS_Surjection
  <1>8. ASSUME NEW i \in 1..n
        PROVE  /\ i > 1 => bars[i - 1].time < bars[i].time
               /\ RollsUp(bars[i], {m \in Stored(rows) : BucketOf(m) = bars[i].time})
    <2>1. i > 1 => bars[i - 1].time < bars[i].time
      BY <1>3
    <2>2. RollsUp(bars[i], {m \in Stored(rows) : BucketOf(m) = bars[i].time})
      BY <1>2, RolledRollsUp
    <2>3. QED
      BY <2>1, <2>2
  <1>9. QED
    BY <1>3, <1>6, <1>7, <1>8 DEF n

LEMMA TableIsOK == CandleInv => TableOK
  BY DEF CandleInv, CandleTypeOK, RowsInv, TableOK

(* However many minutes are missing from the table, and whatever the       *)
(* timeframe and the limit: the history request returns the newest buckets *)
(* that have candles, in order, each made of all that is stored of it,     *)
(* although getHistory reads a number of rows.                             *)
THEOREM HistoryIsNeverCut == MarketSpec => []HistoryHasNoCutBucket
  <1>1. CandleInv => HistoryHasNoCutBucket
    BY TableIsOK, HistoryIsWhole
  <1>2. QED
    BY <1>1, CandlesInvariant, PTL
---------------------------------------------------------------------------
(* The prices on the screen                                                *)

(* Candles, frames and bars of which every price was quoted in its time;   *)
(* q is what was quoted, and now the clock.                                *)
QuotedCandle(c, q) == c \in Candle /\ {c.o, c.h, c.l, c.c} \subseteq q[c.ts]

QuotedFrame(f, q, now) ==
    f \in {Nothing} \cup Frame
    /\ (f # Nothing => f.t < now /\ f.mid \in q[MinuteOf(f.t)])

QuotedAt(time, p, q) == \E m \in MinuteRange : BucketOf(m) = time /\ p \in q[m]

QuotedBar(b, q) ==
    /\ b \in Bar
    /\ QuotedAt(b.time, b.o, q) /\ QuotedAt(b.time, b.h, q)
    /\ QuotedAt(b.time, b.l, q) /\ QuotedAt(b.time, b.c, q)

QuotedBars(bars, q) ==
    /\ bars \in Seq(Bar)
    /\ AscendingBars(bars)
    /\ \A i \in 1..Len(bars) : QuotedBar(bars[i], q)

QuotedChart(ch, q) ==
    /\ ch \in [phase : {"none", "loading", "answered", "loaded"}, reply : Seq(Bar),
               last : {Nothing} \cup Bar, bars : Seq(Bar)]
    /\ QuotedBars(ch.reply, q)
    /\ QuotedBars(ch.bars, q)
    /\ IF ch.bars = <<>> THEN ch.last = Nothing ELSE ch.last = Last(ch.bars)

CandlesQuoted ==
    /\ live # Nothing => QuotedCandle(live, quoted)
    /\ \A c \in writes : QuotedCandle(c, quoted)
    /\ \A m \in MinuteRange : rows[m] # Nothing => QuotedCandle(rows[m], quoted)

FramesQuoted ==
    /\ QuotedFrame(lvc, quoted, clock)
    /\ QuotedFrame(buffer, quoted, clock)
    /\ QuotedFrame(conn.reply, quoted, clock)
    /\ QuotedFrame(store, quoted, clock)
    /\ wire \in Seq(Frame)
    /\ \A i \in 1..Len(wire) : QuotedFrame(wire[i], quoted, clock)

ScreenInv ==
    /\ quoted \in [MinuteRange -> SUBSET Mids]
    /\ driver \in Drivers
    /\ conn \in [on : BOOLEAN, asked : BOOLEAN, reply : {Nothing} \cup Frame]
    /\ CandlesQuoted
    /\ FramesQuoted
    /\ QuotedChart(chart, quoted)

(* What was quoted stays quoted.                                           *)
Grows(q, r) == \A m \in MinuteRange : q[m] \subseteq r[m]

LEMMA CandleStaysQuoted ==
    ASSUME NEW q, NEW r, Grows(q, r), NEW c, QuotedCandle(c, q)
    PROVE  QuotedCandle(c, r)
  <1>1. c.ts \in MinuteRange
    BY DEF QuotedCandle, Candle
  <1>2. QED
    BY <1>1 DEF QuotedCandle, Grows

LEMMA FrameMinute ==
    ASSUME NEW f \in Frame, NEW now \in Nat, now <= EndOfTime, f.t < now
    PROVE  f.t \in Nat /\ MinuteOf(f.t) \in MinuteRange /\ f.mid \in Mids
  <1>1. f.t \in Nat /\ f.mid \in Mids
    BY DEF Frame
  <1>2. EndOfTime \in Nat
    BY MarketAssumption DEF EndOfTime
  <1>3. f.t < EndOfTime
    BY <1>1, <1>2
  <1>4. QED
    BY <1>1, <1>3, MinuteFacts

LEMMA FrameStaysQuoted ==
    ASSUME NEW q, NEW r, Grows(q, r), NEW now \in Nat, now <= EndOfTime,
           NEW then \in Nat, now <= then, NEW f, QuotedFrame(f, q, now)
    PROVE  QuotedFrame(f, r, then)
  <1>1. CASE f = Nothing
    BY <1>1 DEF QuotedFrame
  <1>2. CASE f # Nothing
    <2>1. f \in Frame /\ f.t < now /\ f.mid \in q[MinuteOf(f.t)]
      BY <1>2 DEF QuotedFrame
    <2>2. f.t \in Nat /\ MinuteOf(f.t) \in MinuteRange
      BY <2>1, FrameMinute
    <2>3. f.t < then
      BY <2>1, <2>2
    <2>4. f.mid \in r[MinuteOf(f.t)]
      BY <2>1, <2>2 DEF Grows
    <2>5. QED
      BY <1>2, <2>1, <2>3, <2>4 DEF QuotedFrame
  <1>3. QED
    BY <1>1, <1>2

LEMMA BarStaysQuoted ==
    ASSUME NEW q, NEW r, Grows(q, r), NEW b, QuotedBar(b, q)
    PROVE  QuotedBar(b, r)
  <1>1. \A time, p : QuotedAt(time, p, q) => QuotedAt(time, p, r)
    BY DEF QuotedAt, Grows
  <1>2. QED
    BY <1>1 DEF QuotedBar

LEMMA ChartStaysQuoted ==
    ASSUME NEW q, NEW r, Grows(q, r), NEW ch, QuotedChart(ch, q)
    PROVE  QuotedChart(ch, r)
  BY BarStaysQuoted DEF QuotedChart, QuotedBars

(* The bar drawn for a quote: no older than the last, and quoted.          *)
LEMMA LiveBarIsQuoted ==
    ASSUME NEW q, NEW last, last = Nothing \/ QuotedBar(last, q),
           NEW time \in Nat, NEW mid \in Mids, QuotedAt(time, mid, q)
    PROVE  /\ QuotedBar(LiveBar(last, time, mid), q)
           /\ last # Nothing => last.time <= LiveBar(last, time, mid).time
           /\ LiveBar(last, time, mid).time \in Nat
  <1>1. /\ QuotedBar(Opened(time, mid), q)
        /\ Opened(time, mid).time = time
    BY DEF Opened, QuotedBar, Bar
  <1>2. CASE last = Nothing
    BY <1>1, <1>2 DEF LiveBar
  <1>3. CASE last # Nothing
    <2>1. /\ last \in Bar /\ QuotedBar(last, q) /\ last.time \in Nat
          /\ last.o \in Mids /\ last.h \in Mids /\ last.l \in Mids
      BY <1>3 DEF QuotedBar, Bar
    <2>2. CASE time > last.time
      <3>1. LiveBar(last, time, mid) = Opened(time, mid)
        BY <1>3, <2>2 DEF LiveBar
      <3>2. last.time <= time
        BY <2>1, <2>2
      <3>3. QED
        BY <1>1, <3>1, <3>2
    <2>3. CASE time = last.time
      <3> DEFINE h == Larger(last.h, mid)
                 l == Smaller(last.l, mid)
                 bar == Widened(last, mid)
      <3>1. (h = last.h \/ h = mid) /\ (l = last.l \/ l = mid) /\ h \in Mids /\ l \in Mids
        BY <2>1 DEF Larger, Smaller
      <3>2. LiveBar(last, time, mid) = bar
        <4>1. ~(time > last.time)
          BY <2>3
        <4>2. QED
          BY <1>3, <2>3, <4>1 DEF LiveBar
      <3>3. bar = [last EXCEPT !.h = h, !.l = l, !.c = mid]
        BY DEF Widened
      <3> HIDE DEF h, l, bar
      <3>4. /\ bar \in Bar /\ bar.time = last.time /\ bar.o = last.o
            /\ bar.h = h /\ bar.l = l /\ bar.c = mid
        BY <2>1, <3>1, <3>3 DEF Bar
      <3>5. /\ QuotedAt(time, last.o, q) /\ QuotedAt(time, last.h, q)
            /\ QuotedAt(time, last.l, q)
        BY <2>1, <2>3 DEF QuotedBar
      <3>6. QuotedAt(time, h, q) /\ QuotedAt(time, l, q)
        BY <3>1, <3>5
      <3>7. QuotedBar(bar, q) /\ bar.time = time
        BY <2>3, <3>4, <3>5, <3>6 DEF QuotedBar
      <3>8. last.time <= bar.time
        BY <2>1, <2>3, <3>7
      <3>9. QED
        BY <3>2, <3>7, <3>8
    <2>4. CASE time < last.time
      <3>1. LiveBar(last, time, mid) = last
        BY <1>3, <2>1, <2>4 DEF LiveBar
      <3>2. QED
        BY <2>1, <3>1
    <2>5. QED
      BY <2>1, <2>2, <2>3, <2>4
  <1>4. QED
    BY <1>2, <1>3

LEMMA DrawnBars ==
    ASSUME NEW q, NEW bars, QuotedBars(bars, q), NEW bar, QuotedBar(bar, q),
           bars # <<>> => Last(bars).time <= bar.time
    PROVE  /\ QuotedBars(Drawn(bars, bar), q)
           /\ Drawn(bars, bar) # <<>> /\ Last(Drawn(bars, bar)) = bar
  <1> DEFINE n   == Len(bars)
             new == Drawn(bars, bar)
  <1>1. /\ bars \in Seq(Bar) /\ n \in Nat /\ bar \in Bar
        /\ \A i \in 1..n : QuotedBar(bars[i], q) /\ bars[i].time \in Nat
        /\ \A i, j \in 1..n : i < j => bars[i].time < bars[j].time
        /\ bar.time \in Nat
    <2>1. /\ bars \in Seq(Bar) /\ n \in Nat /\ bar \in Bar
          /\ \A i \in 1..n : QuotedBar(bars[i], q) /\ bars[i] \in Bar
          /\ \A i, j \in 1..n : i < j => bars[i].time < bars[j].time
      BY DEF QuotedBars, QuotedBar, AscendingBars
    <2>2. \A b \in Bar : b.time \in Nat
      BY DEF Bar
    <2>3. QED
      BY <2>1, <2>2
  <1>2. bars # <<>> => n >= 1 /\ n \in 1..n /\ Last(bars) = bars[n]
    BY <1>1 DEF Last
  <1>3. CASE bars # <<>> /\ Last(bars).time = bar.time
    <2>1. new = [bars EXCEPT ![n] = bar]
      BY <1>3 DEF Drawn
    <2>2. /\ new \in Seq(Bar) /\ Len(new) = n /\ new[n] = bar
          /\ \A i \in 1..n : i # n => new[i] = bars[i]
      BY <1>1, <1>2, <1>3, <2>1, ExceptSeq
    <2> HIDE DEF new, n
    <2>3. \A i \in 1..n : new[i].time = bars[i].time
      BY <1>2, <1>3, <2>2
    <2>4. AscendingBars(new)
      BY <1>1, <2>2, <2>3 DEF AscendingBars
    <2>5. \A i \in 1..n : QuotedBar(new[i], q)
      BY <1>1, <2>2
    <2>6. new # <<>> /\ Last(new) = bar
      BY <1>2, <1>3, <2>2 DEF Last
    <2>7. QED
      BY <2>2, <2>4, <2>5, <2>6 DEF QuotedBars, new
  <1>4. CASE ~(bars # <<>> /\ Last(bars).time = bar.time)
    <2>1. new = Append(bars, bar)
      BY <1>4 DEF Drawn
    <2>2. /\ new \in Seq(Bar) /\ Len(new) = n + 1 /\ new[n + 1] = bar
          /\ \A i \in 1..n : new[i] = bars[i]
      BY <1>1, <2>1
    <2> HIDE DEF new, n
    <2>3. \A i \in 1..n : bars[i].time < bar.time
      <3> SUFFICES ASSUME NEW i \in 1..n PROVE bars[i].time < bar.time
        OBVIOUS
      <3>1. bars # <<>>
        BY <1>1 DEF n
      <3>2. bars[n].time < bar.time
        BY <1>1, <1>2, <1>4, <3>1
      <3>3. i = n \/ i < n
        BY <1>1
      <3>4. bars[i].time <= bars[n].time
        BY <1>1, <1>2, <3>1, <3>3
      <3>5. QED
        BY <1>1, <1>2, <3>1, <3>2, <3>4
    <2>4. \A i \in 1..(n + 1) : i \in 1..n \/ i = n + 1
      BY <1>1
    <2>5. AscendingBars(new)
      <3> SUFFICES ASSUME NEW i \in 1..(n + 1), NEW j \in 1..(n + 1), i < j
                   PROVE  new[i].time < new[j].time
        BY <2>2 DEF AscendingBars
      <3>1. i \in 1..n
        BY <1>1
      <3>2. QED
        BY <1>1, <2>2, <2>3, <2>4, <3>1
    <2>6. \A i \in 1..(n + 1) : QuotedBar(new[i], q)
      BY <1>1, <2>2, <2>4
    <2>7. new # <<>> /\ Last(new) = bar
      BY <1>1, <2>2 DEF Last
    <2>8. QED
      BY <2>2, <2>5, <2>6, <2>7 DEF QuotedBars, new
  <1>5. QED
    BY <1>3, <1>4

LEMMA BarsAreSomething == \A b \in Bar : b # Nothing
  <1> SUFFICES ASSUME NEW b \in Bar PROVE b # Nothing
    OBVIOUS
  <1>1. \A x \in Mids : x \in Int
    BY MarketAssumption
  <1>2. /\ b = [time |-> b.time, o |-> b.o, h |-> b.h, l |-> b.l, c |-> b.c]
        /\ b.time \in Int
        /\ b.o \in Mids /\ b.h \in Mids /\ b.l \in Mids /\ b.c \in Mids
    BY DEF Bar
  <1>3. b.o \in Int /\ b.h \in Int /\ b.l \in Int /\ b.c \in Int
    BY <1>1, <1>2, Zenon
  <1>4. b \in [time : Int, o : Int, h : Int, l : Int, c : Int]
    BY <1>2, <1>3
  <1>5. QED
    BY <1>4, MarketAssumption

(* The chart after a quote.                                                *)
LEMMA ChartedIsQuoted ==
    ASSUME NEW q, QuotedChart(chart, q), NEW f \in Frame,
           MinuteOf(f.t) \in MinuteRange, f.mid \in q[MinuteOf(f.t)]
    PROVE  QuotedChart(Charted(f), q)
  <1>1. CASE chart.phase = "none"
    BY <1>1 DEF Charted
  <1>2. CASE chart.phase # "none"
    <2> DEFINE time == BucketOf(MinuteOf(f.t))
               last == chart.last
               bars == chart.bars
               bar  == LiveBar(last, time, f.mid)
               new  == Drawn(bars, bar)
    <2>1. time \in Nat /\ f.mid \in Mids /\ QuotedAt(time, f.mid, q)
      <3>1. MinuteOf(f.t) \in Nat
        BY MarketAssumption DEF MinuteRange
      <3>2. QED
        BY <3>1, BucketFacts DEF Frame, QuotedAt
    <2>2. /\ QuotedBars(bars, q)
          /\ IF bars = <<>> THEN last = Nothing ELSE last = Last(bars)
          /\ last = Nothing \/ QuotedBar(last, q)
          /\ last \in {Nothing} \cup Bar
      <3>1. /\ QuotedBars(bars, q) /\ last \in {Nothing} \cup Bar
            /\ IF bars = <<>> THEN last = Nothing ELSE last = Last(bars)
        BY DEF QuotedChart
      <3>2. bars # <<>> => QuotedBar(Last(bars), q)
        <4>1. bars \in Seq(Bar) /\ \A i \in 1..Len(bars) : QuotedBar(bars[i], q)
          BY <3>1 DEF QuotedBars
        <4>2. bars # <<>> => Len(bars) \in 1..Len(bars)
          BY <4>1
        <4>3. QED
          BY <4>1, <4>2 DEF Last
      <3>3. QED
        BY <3>1, <3>2
    <2>3. Charted(f) = [chart EXCEPT !.last = bar, !.bars = new]
      BY <1>2 DEF Charted
    <2>4. chart = [phase |-> chart.phase, reply |-> chart.reply, last |-> last, bars |-> bars]
          /\ chart.phase \in {"none", "loading", "answered", "loaded"}
          /\ chart.reply \in Seq(Bar) /\ QuotedBars(chart.reply, q)
      BY DEF QuotedChart
    <2> HIDE DEF time, last, bars, bar
    <2>5. QuotedBar(bar, q) /\ (last # Nothing => last.time <= bar.time)
      BY <2>1, <2>2, LiveBarIsQuoted DEF bar
    <2>6. bars # <<>> => Last(bars).time <= bar.time
      <3>1. \A b \in Bar : b # Nothing
        BY BarsAreSomething
      <3>2. bars # <<>> => Last(bars) = last /\ last # Nothing
        <4>1. bars # <<>> => Last(bars) \in Bar
          <5>1. bars \in Seq(Bar)
            BY <2>2 DEF QuotedBars
          <5>2. QED
            BY <5>1 DEF Last
        <4>2. QED
          BY <2>2, <3>1, <4>1
      <3>3. QED
        BY <2>5, <3>2
    <2>7. QuotedBars(new, q) /\ new # <<>> /\ Last(new) = bar
      BY <2>2, <2>5, <2>6, DrawnBars
    <2>8. new \in Seq(Bar) /\ bar \in Bar
      BY <2>5, <2>7 DEF QuotedBars, QuotedBar
    <2> HIDE DEF new
    <2>9. Charted(f) = [phase |-> chart.phase, reply |-> chart.reply, last |-> bar, bars |-> new]
      BY <2>3, <2>4
    <2>10. QED
      BY <2>4, <2>7, <2>8, <2>9 DEF QuotedChart
  <1>3. QED
    BY <1>1, <1>2
---------------------------------------------------------------------------

(* The screen step by step                                                 *)

LEMMA ScreenInitInv == MarketInit => ScreenInv
  <1> SUFFICES ASSUME MarketInit PROVE ScreenInv
    OBVIOUS
  <1>1. PICK path \in [0..First -> Mids], n \in 0..First :
          /\ rows = Backfill(path, n)
          /\ quoted = [m \in MinuteRange |-> IF m < n THEN {path[m], path[m + 1]} ELSE {}]
    BY DEF MarketInit
  <1>2. ASSUME NEW m \in MinuteRange
        PROVE  /\ quoted[m] \in SUBSET Mids
               /\ rows[m] # Nothing => QuotedCandle(rows[m], quoted)
    <2>1. CASE m < n
      <3>1. /\ m \in Nat /\ m \in 0..First /\ m + 1 \in 0..First
        BY <2>1, MarketAssumption DEF MinuteRange
      <3>2. /\ path[m] \in Mids /\ path[m + 1] \in Mids
            /\ quoted[m] = {path[m], path[m + 1]} /\ rows[m] = HistoryRow(path, m)
        BY <1>1, <2>1, <3>1 DEF Backfill
      <3> DEFINE a == path[m]
                 b == path[m + 1]
                 h == Larger(a, b)
                 l == Smaller(a, b)
      <3>3. (h = a \/ h = b) /\ (l = a \/ l = b)
        BY DEF Larger, Smaller
      <3>4. rows[m] = [ts |-> m, o |-> a, c |-> b, v |-> 1, h |-> h, l |-> l]
        BY <3>2 DEF HistoryRow
      <3> HIDE DEF a, b, h, l
      <3>5. a \in Mids /\ b \in Mids /\ quoted[m] = {a, b}
        BY <3>2 DEF a, b
      <3>6. h \in Mids /\ l \in Mids /\ h \in quoted[m] /\ l \in quoted[m]
        BY <3>3, <3>5
      <3>7. /\ rows[m] \in Candle /\ rows[m].ts = m
            /\ rows[m].o = a /\ rows[m].h = h /\ rows[m].l = l /\ rows[m].c = b
        BY <3>4, <3>5, <3>6 DEF Candle
      <3>8. QED
        BY <3>5, <3>6, <3>7 DEF QuotedCandle
    <2>2. CASE ~(m < n)
      BY <1>1, <2>2 DEF Backfill
    <2>3. QED
      BY <2>1, <2>2
  <1>3. quoted \in [MinuteRange -> SUBSET Mids]
    BY <1>1, <1>2
  <1>4. CandlesQuoted
    BY <1>2 DEF CandlesQuoted, MarketInit
  <1>5. FramesQuoted /\ conn \in [on : BOOLEAN, asked : BOOLEAN, reply : {Nothing} \cup Frame]
    BY DEF FramesQuoted, MarketInit, QuotedFrame, Offline
  <1>6. QuotedChart(chart, quoted)
    BY DEF MarketInit, NoChart, QuotedChart, QuotedBars, AscendingBars
  <1>7. QED
    BY <1>3, <1>4, <1>5, <1>6 DEF ScreenInv, MarketInit

LEMMA TickKeepsScreen ==
    ASSUME CandleInv, ScreenInv, NEW mid \in Mids, Tick(mid)
    PROVE  ScreenInv'
  <1> DEFINE m     == MinuteOf(clock)
             frame == [t |-> clock, mid |-> mid]
  <1>1. /\ clock < EndOfTime /\ clock' = clock + 1 /\ OnMid(mid)
        /\ buffer' = IF conn.on THEN frame ELSE buffer
        /\ lvc' = frame
        /\ quoted' = [quoted EXCEPT ![m] = @ \cup {mid}]
        /\ UNCHANGED <<rows, driver, conn, wire, store, chart>>
    BY DEF Tick
  <1>2. /\ m \in MinuteRange /\ clock \in Nat /\ clock' \in Nat /\ EndOfTime \in Nat
        /\ clock <= EndOfTime /\ clock <= clock' /\ clock \in 0..EndOfTime
    <2>1. EndOfTime \in Nat
      BY MarketAssumption DEF EndOfTime
    <2>2. QED
      BY <1>1, <2>1, ClockFacts DEF CandleInv
  <1>3. /\ quoted' \in [MinuteRange -> SUBSET Mids]
        /\ mid \in quoted'[m]
        /\ Grows(quoted, quoted')
    BY <1>1, <1>2 DEF ScreenInv, Grows
  <1>4. QuotedFrame(frame, quoted', clock')
    BY <1>1, <1>2, <1>3 DEF QuotedFrame, Frame
  <1> HIDE DEF frame
  <1>5. \A f : QuotedFrame(f, quoted, clock) => QuotedFrame(f, quoted', clock')
    BY <1>2, <1>3, FrameStaysQuoted
  <1>6. FramesQuoted'
    <2>1. /\ QuotedFrame(buffer, quoted, clock) /\ QuotedFrame(conn.reply, quoted, clock)
          /\ QuotedFrame(store, quoted, clock) /\ wire \in Seq(Frame)
          /\ \A i \in 1..Len(wire) : QuotedFrame(wire[i], quoted, clock)
      BY DEF ScreenInv, FramesQuoted
    <2>2. QuotedFrame(lvc', quoted', clock') /\ QuotedFrame(buffer', quoted', clock')
      BY <1>1, <1>4, <1>5, <2>1
    <2>3. QED
      BY <1>1, <1>5, <2>1, <2>2 DEF FramesQuoted
  <1>7. CandlesQuoted'
    <2>1. \A c : QuotedCandle(c, quoted) => QuotedCandle(c, quoted')
      BY <1>3, CandleStaysQuoted
    <2>2. /\ live # Nothing => QuotedCandle(live, quoted')
          /\ \A c \in writes : QuotedCandle(c, quoted')
          /\ \A k \in MinuteRange : rows[k] # Nothing => QuotedCandle(rows[k], quoted')
      BY <2>1 DEF ScreenInv, CandlesQuoted
    <2>3. CASE live = Nothing \/ live.ts < m
      <3>1. /\ live' = NewCandle(m, mid)
            /\ writes' = IF live = Nothing THEN writes ELSE writes \cup {live}
        BY <1>1, <2>3 DEF OnMid
      <3>2. QuotedCandle(NewCandle(m, mid), quoted')
        BY <1>2, <1>3 DEF NewCandle, QuotedCandle, Candle
      <3>3. \A c \in writes' : QuotedCandle(c, quoted')
        BY <2>2, <3>1
      <3>4. QED
        BY <1>1, <2>2, <3>1, <3>2, <3>3 DEF CandlesQuoted
    <2>4. CASE ~(live = Nothing \/ live.ts < m)
      <3>1. live' = Extended(live, mid) /\ writes' = writes
        BY <1>1, <2>4 DEF OnMid
      <3>2. /\ live \in Candle /\ live.ts = m /\ Summarises(live, seen[m])
            /\ seen[m] \in Seq(Mids)
        <4>1. live \in Candle /\ live.ts \in Nat /\ live.ts <= m /\ ~(live.ts < m)
          BY <2>4 DEF CandleInv, CandleTypeOK, LiveInv, Candle, MinuteRange
        <4>2. live.ts = m
          BY <1>2, <4>1 DEF MinuteRange
        <4>3. QED
          BY <1>2, <2>4, <4>1, <4>2 DEF CandleInv, CandleTypeOK, LiveInv
      <3> DEFINE h == Larger(live.h, mid)
                 l == Smaller(live.l, mid)
                 c == Extended(live, mid)
      <3>3. (h = live.h \/ h = mid) /\ (l = live.l \/ l = mid)
        BY DEF Larger, Smaller
      <3>4. c \in Candle /\ c.ts = m
        BY <3>2, ExtendedSummarises
      <3>5. c.o = live.o /\ c.h = h /\ c.l = l /\ c.c = mid
        <4>1. c = [live EXCEPT !.h = h, !.l = l, !.c = mid, !.v = live.v + 1]
          BY DEF Extended
        <4> HIDE DEF c, h, l
        <4>2. QED
          BY <3>2, <4>1 DEF Candle
      <3>6. /\ live.o \in quoted'[m] /\ live.h \in quoted'[m] /\ live.l \in quoted'[m]
        BY <2>2, <2>4, <3>2 DEF QuotedCandle
      <3> HIDE DEF c, h, l
      <3>7. QuotedCandle(c, quoted')
        BY <1>3, <3>3, <3>4, <3>5, <3>6 DEF QuotedCandle
      <3>8. QED
        BY <1>1, <2>2, <3>1, <3>7 DEF CandlesQuoted, c
    <2>5. QED
      BY <2>3, <2>4
  <1>8. QuotedChart(chart, quoted')
    BY <1>3, ChartStaysQuoted DEF ScreenInv
  <1>9. QED
    BY <1>1, <1>3, <1>6, <1>7, <1>8 DEF ScreenInv

LEMMA LaterKeepsScreen ==
    ASSUME CandleInv, ScreenInv, clock < EndOfTime, clock' = clock + 1,
           UNCHANGED <<quoted, candles, driver, channel, store, chart>>
    PROVE  ScreenInv'
  <1>1. /\ clock \in Nat /\ clock' \in Nat /\ EndOfTime \in Nat
        /\ clock <= EndOfTime /\ clock <= clock'
    <2>1. EndOfTime \in Nat
      BY MarketAssumption DEF EndOfTime
    <2>2. QED
      BY <2>1, ClockFacts DEF CandleInv
  <1>2. Grows(quoted, quoted)
    BY DEF Grows
  <1>3. \A f : QuotedFrame(f, quoted, clock) => QuotedFrame(f, quoted, clock')
    BY <1>1, <1>2, FrameStaysQuoted
  <1>4. FramesQuoted'
    BY <1>3 DEF ScreenInv, FramesQuoted, channel
  <1>5. QED
    BY <1>4 DEF ScreenInv, CandlesQuoted, candles, channel

(* Writes, and what a restart leaves.                                      *)
LEMMA WriteKeepsScreen ==
    ASSUME CandleInv, ScreenInv, NEW c \in writes, Upsert(c) \/ UpsertFails(c)
    PROVE  ScreenInv'
  <1>1. /\ writes' = writes \ {c}
        /\ rows' = rows \/ rows' = [rows EXCEPT ![c.ts] = c]
        /\ UNCHANGED <<clock, quoted, live, driver, channel, store, chart>>
    BY DEF Upsert, UpsertFails
  <1>2. QuotedCandle(c, quoted)
    BY DEF ScreenInv, CandlesQuoted
  <1>3. \A m \in MinuteRange : rows'[m] = rows[m] \/ rows'[m] = c
    BY <1>1 DEF CandleInv, CandleTypeOK
  <1>4. CandlesQuoted'
    BY <1>1, <1>2, <1>3 DEF ScreenInv, CandlesQuoted
  <1>5. FramesQuoted'
    BY <1>1 DEF ScreenInv, FramesQuoted, channel
  <1>6. QED
    BY <1>1, <1>4, <1>5 DEF ScreenInv, channel

LEMMA RestartKeepsScreen ==
    ASSUME ScreenInv, Restart
    PROVE  ScreenInv'
  <1>1. /\ live' = Nothing /\ writes' = {} /\ buffer' = Nothing /\ wire' = <<>>
        /\ lvc' = Nothing \/ lvc' = lvc
        /\ conn' = Offline
        /\ UNCHANGED <<clock, quoted, rows, driver, store, chart>>
    BY DEF Restart
  <1>2. CandlesQuoted'
    BY <1>1 DEF ScreenInv, CandlesQuoted
  <1>3. FramesQuoted' /\ conn' \in [on : BOOLEAN, asked : BOOLEAN, reply : {Nothing} \cup Frame]
    <2>1. QuotedFrame(Nothing, quoted, clock)
      BY DEF QuotedFrame
    <2>2. QED
      BY <1>1, <2>1 DEF ScreenInv, FramesQuoted, Offline
  <1>4. QED
    BY <1>1, <1>2, <1>3 DEF ScreenInv

LEMMA SentIsQuoted ==
    ASSUME FramesQuoted, NEW f, QuotedFrame(f, quoted, clock), Send(f),
           UNCHANGED <<quoted, clock>>
    PROVE  /\ wire' \in Seq(Frame)
           /\ \A i \in 1..Len(wire') : QuotedFrame(wire'[i], quoted, clock)
  <1>1. /\ wire \in Seq(Frame)
        /\ \A i \in 1..Len(wire) : QuotedFrame(wire[i], quoted, clock)
    BY DEF FramesQuoted
  <1>2. CASE f = Nothing
    BY <1>1, <1>2 DEF Send
  <1>3. CASE f # Nothing
    <2>1. wire' = Append(wire, f) /\ f \in Frame
      BY <1>3 DEF Send, QuotedFrame
    <2>2. /\ wire' \in Seq(Frame) /\ Len(wire') = Len(wire) + 1 /\ wire'[Len(wire) + 1] = f
          /\ \A i \in 1..Len(wire) : wire'[i] = wire[i]
      BY <1>1, <2>1
    <2>3. \A i \in 1..Len(wire') : i \in 1..Len(wire) \/ i = Len(wire) + 1
      BY <1>1, <2>2
    <2>4. QED
      BY <1>1, <2>2, <2>3
  <1>4. QED
    BY <1>2, <1>3

LEMMA ChannelKeepsScreen ==
    ASSUME ScreenInv, ChannelStep
    PROVE  ScreenInv'
  <1> DEFINE Conn == [on : BOOLEAN, asked : BOOLEAN, reply : {Nothing} \cup Frame]
  <1>1. UNCHANGED <<clock, quoted, candles, driver, lvc, store, chart>>
    BY DEF ChannelStep, Subscribe, MgetReads, MgetReturns, Unsubscribe, Flush, Disconnect
  <1>2. /\ conn \in Conn /\ FramesQuoted
        /\ QuotedFrame(lvc, quoted, clock) /\ QuotedFrame(buffer, quoted, clock)
        /\ QuotedFrame(conn.reply, quoted, clock) /\ QuotedFrame(Nothing, quoted, clock)
    BY DEF ScreenInv, FramesQuoted, QuotedFrame
  <1>3. UNCHANGED wire =>
          /\ wire' \in Seq(Frame)
          /\ \A i \in 1..Len(wire') : QuotedFrame(wire'[i], quoted, clock)
    BY DEF ScreenInv, FramesQuoted
  <1>4. SUFFICES /\ conn' \in Conn
                 /\ QuotedFrame(buffer', quoted, clock) /\ QuotedFrame(conn'.reply, quoted, clock)
                 /\ wire' \in Seq(Frame)
                 /\ \A i \in 1..Len(wire') : QuotedFrame(wire'[i], quoted, clock)
    BY <1>1 DEF ScreenInv, CandlesQuoted, FramesQuoted, candles
  <1>5. CASE Subscribe
    <2>1. /\ UNCHANGED buffer
          /\ \/ Send(lvc) /\ conn' = [conn EXCEPT !.on = TRUE]
             \/ conn' = [conn EXCEPT !.on = TRUE, !.asked = TRUE] /\ UNCHANGED wire
      BY <1>5 DEF Subscribe
    <2>2. conn' \in Conn /\ conn'.reply = conn.reply
      BY <1>2, <2>1
    <2>3. QED
      BY <1>1, <1>2, <1>3, <2>1, <2>2, SentIsQuoted
  <1>6. CASE MgetReads
    <2>1. conn' = [conn EXCEPT !.reply = lvc] /\ UNCHANGED <<buffer, wire>>
      BY <1>6 DEF MgetReads
    <2>2. lvc \in {Nothing} \cup Frame
      BY <1>2 DEF QuotedFrame
    <2>3. conn' \in Conn /\ conn'.reply = lvc
      BY <1>2, <2>1, <2>2
    <2>4. QED
      BY <1>2, <1>3, <2>1, <2>3
  <1>7. CASE MgetReturns
    <2>1. /\ Send(conn.reply) /\ UNCHANGED buffer
          /\ conn' = [conn EXCEPT !.asked = FALSE, !.reply = Nothing]
      BY <1>7 DEF MgetReturns
    <2>2. conn' \in Conn /\ conn'.reply = Nothing
      BY <1>2, <2>1
    <2>3. QED
      BY <1>1, <1>2, <2>1, <2>2, SentIsQuoted
  <1>8. CASE Unsubscribe
    <2>1. buffer' = Nothing /\ UNCHANGED wire /\ conn' = [conn EXCEPT !.on = FALSE]
      BY <1>8 DEF Unsubscribe, ClearedBuffer
    <2>2. conn' \in Conn /\ conn'.reply = conn.reply
      BY <1>2, <2>1
    <2>3. QED
      BY <1>2, <1>3, <2>1, <2>2
  <1>9. CASE Flush
    <2>1. Send(buffer) /\ buffer' = Nothing /\ UNCHANGED conn
      BY <1>9 DEF Flush
    <2>2. QED
      BY <1>1, <1>2, <2>1, SentIsQuoted
  <1>10. CASE Disconnect
    <2>1. buffer' = Nothing /\ wire' = <<>> /\ conn' = Offline
      BY <1>10 DEF Disconnect
    <2>2. QED
      BY <1>2, <2>1 DEF Offline
  <1>11. QED
    BY <1>5, <1>6, <1>7, <1>8, <1>9, <1>10 DEF ChannelStep

(* The history that is read is of stored minutes, hence of quoted prices.  *)
LEMMA HistoryIsQuoted ==
    ASSUME CandleInv, ScreenInv
    PROVE  QuotedBars(GetHistory(rows, ChartLimit), quoted)
  <1> DEFINE bars == GetHistory(rows, ChartLimit)
  <1>1. TableOK /\ ChartLimit \in Nat \ {0}
    BY TableIsOK, MarketAssumption
  <1>2. /\ bars \in Seq(Bar) /\ AscendingBars(bars)
        /\ \A i \in 1..Len(bars) : Rolled(bars[i], Stored(rows))
    BY <1>1, HistoryIs DEF BarsOf
  <1>3. \A m \in Stored(rows) :
          /\ m \in MinuteRange
          /\ rows[m].o \in quoted[m] /\ rows[m].h \in quoted[m]
          /\ rows[m].l \in quoted[m] /\ rows[m].c \in quoted[m]
    BY <1>1, TableFacts DEF ScreenInv, CandlesQuoted, QuotedCandle, Stored
  <1>4. \A i \in 1..Len(bars) : bars[i] \in Bar
    BY <1>2, ElementOfSeq
  <1> HIDE DEF bars
  <1>5. ASSUME NEW i \in 1..Len(bars) PROVE QuotedBar(bars[i], quoted)
    BY <1>2, <1>3, <1>4 DEF Rolled, QuotedAt, QuotedBar
  <1>6. QED
    BY <1>2, <1>5 DEF QuotedBars, bars

LEMMA ChartKeepsScreen ==
    ASSUME CandleInv, ScreenInv, ChartStep
    PROVE  ScreenInv'
  <1>1. /\ clock \in Nat /\ clock <= EndOfTime
        /\ QuotedChart(chart, quoted) /\ FramesQuoted /\ CandlesQuoted
    <2>1. EndOfTime \in Nat /\ First * MinuteTicks \in Nat
      BY MarketAssumption DEF EndOfTime
    <2>2. QED
      BY <2>1 DEF CandleInv, CandleTypeOK, ScreenInv
  <1>2. ASSUME NEW f, f # Nothing, QuotedFrame(f, quoted, clock)
        PROVE  QuotedChart(Charted(f), quoted)
    <2>1. f \in Frame /\ f.t < clock /\ f.mid \in quoted[MinuteOf(f.t)]
      BY <1>2 DEF QuotedFrame
    <2>2. MinuteOf(f.t) \in MinuteRange
      BY <1>1, <2>1, FrameMinute
    <2>3. QED
      BY <1>1, <2>1, <2>2, ChartedIsQuoted
  <1>3. /\ QuotedBars(<<>>, quoted) /\ <<>> \in Seq(Bar)
    BY DEF QuotedBars, AscendingBars
  <1>4. CASE Deliver
    <2>1. /\ wire # <<>> /\ wire' = Tail(wire) /\ store' = Head(wire)
          /\ chart' = Charted(Head(wire))
          /\ UNCHANGED <<clock, quoted, candles, driver, lvc, buffer, conn>>
      BY <1>4 DEF Deliver
    <2>2. /\ wire \in Seq(Frame)
          /\ \A i \in 1..Len(wire) : QuotedFrame(wire[i], quoted, clock)
      BY <1>1 DEF FramesQuoted
    <2>3. /\ wire' \in Seq(Frame) /\ Len(wire') = Len(wire) - 1
          /\ Head(wire) = wire[1] /\ wire[1] \in Frame /\ 1 \in 1..Len(wire)
          /\ \A i \in 1..(Len(wire) - 1) : wire'[i] = wire[i + 1] /\ i + 1 \in 1..Len(wire)
      BY <2>1, <2>2
    <2>4. wire[1] # Nothing /\ QuotedFrame(wire[1], quoted, clock)
      BY <2>2, <2>3, FrameTypes
    <2>5. QuotedChart(chart', quoted)
      BY <1>2, <2>1, <2>3, <2>4
    <2>6. \A i \in 1..Len(wire') : QuotedFrame(wire'[i], quoted, clock)
      BY <2>2, <2>3
    <2>7. FramesQuoted'
      BY <1>1, <2>1, <2>3, <2>4, <2>6 DEF FramesQuoted
    <2>8. QED
      BY <1>1, <2>1, <2>5, <2>7 DEF ScreenInv, CandlesQuoted, candles
  <1>5. CASE ~Deliver
    <2>1. UNCHANGED <<clock, quoted, candles, driver, channel, store>>
      BY <1>5 DEF ChartStep, OtherSymbolQuoted, OpenChart, ReadHistory, ShowHistory,
                  HistoryFails, CloseChart
    <2>2. SUFFICES QuotedChart(chart', quoted)
      BY <2>1 DEF ScreenInv, CandlesQuoted, FramesQuoted, candles, channel
    <2>3. CASE OtherSymbolQuoted
      BY <1>1, <1>2, <2>3 DEF OtherSymbolQuoted, FramesQuoted
    <2>4. CASE OpenChart \/ CloseChart
      <3>1. \E phase \in {"none", "loading"} :
               chart' = [phase |-> phase, reply |-> <<>>, last |-> Nothing, bars |-> <<>>]
        BY <2>4 DEF OpenChart, CloseChart, NoChart
      <3>2. QED
        BY <1>3, <3>1 DEF QuotedChart
    <2>5. CASE ReadHistory
      <3> DEFINE bars == GetHistory(rows, ChartLimit)
      <3>1. chart' = [chart EXCEPT !.phase = "answered", !.reply = bars]
        BY <2>5 DEF ReadHistory
      <3>2. QuotedBars(bars, quoted) /\ bars \in Seq(Bar)
        BY HistoryIsQuoted DEF QuotedBars
      <3> HIDE DEF bars
      <3>3. QED
        BY <1>1, <3>1, <3>2 DEF QuotedChart
    <2>6. CASE ShowHistory
      <3> DEFINE bars == chart.reply
      <3>1. chart' = [phase |-> "loaded", reply |-> <<>>, bars |-> bars,
                      last |-> IF bars = <<>> THEN Nothing ELSE Last(bars)]
        BY <2>6 DEF ShowHistory
      <3>2. QuotedBars(bars, quoted) /\ bars \in Seq(Bar)
        BY <1>1 DEF QuotedChart
      <3>3. bars # <<>> => Last(bars) \in Bar
        BY <3>2 DEF Last
      <3> HIDE DEF bars
      <3>4. QED
        BY <1>3, <3>1, <3>2, <3>3 DEF QuotedChart
    <2>7. CASE HistoryFails
      <3>1. chart' = [chart EXCEPT !.phase = "loaded", !.reply = <<>>]
        BY <2>7 DEF HistoryFails
      <3>2. QED
        BY <1>1, <1>3, <3>1 DEF QuotedChart
    <2>8. QED
      BY <1>5, <2>3, <2>4, <2>5, <2>6, <2>7 DEF ChartStep
  <1>6. QED
    BY <1>4, <1>5

LEMMA ScreenInvariant == MarketSpec => [](CandleInv /\ ScreenInv)
  <1>1. CandleInv /\ ScreenInv /\ [MarketNext]_marketVars => ScreenInv'
    <2> SUFFICES ASSUME CandleInv, ScreenInv, [MarketNext]_marketVars PROVE ScreenInv'
      OBVIOUS
    <2>1. CASE CandleStep
      BY <2>1, TickKeepsScreen, LaterKeepsScreen, WriteKeepsScreen DEF CandleStep, NoTick
    <2>2. CASE Restart
      BY <2>2, RestartKeepsScreen
    <2>3. CASE ChannelStep
      BY <2>3, ChannelKeepsScreen
    <2>4. CASE ChartStep
      BY <2>4, ChartKeepsScreen
    <2>5. CASE UNCHANGED marketVars
      BY <2>5 DEF marketVars, candles, channel, ScreenInv, CandlesQuoted, FramesQuoted
    <2>6. QED
      BY <2>1, <2>2, <2>3, <2>4, <2>5 DEF MarketNext
  <1>2. QED
    BY ScreenInitInv, CandlesInvariant, <1>1, PTL DEF MarketSpec

(* The types of feed, candles, connection, store and chart.                *)
THEOREM MarketTypesCorrect == MarketSpec => []MarketTypeOK
  <1>1. CandleInv /\ ScreenInv => MarketTypeOK
    <2> SUFFICES ASSUME CandleInv, ScreenInv PROVE MarketTypeOK
      OBVIOUS
    <2>1. CandleTypeOK
      BY DEF CandleInv
    <2>2. /\ lvc \in {Nothing} \cup Frame /\ buffer \in {Nothing} \cup Frame
          /\ store \in {Nothing} \cup Frame /\ wire \in Seq(Frame)
      BY DEF ScreenInv, FramesQuoted, QuotedFrame
    <2>3. chart \in [phase : {"none", "loading", "answered", "loaded"}, reply : Seq(Bar),
                     last : {Nothing} \cup Bar, bars : Seq(Bar)]
      BY DEF ScreenInv, QuotedChart
    <2>4. QED
      BY <2>1, <2>2, <2>3 DEF ScreenInv, CandleTypeOK, MarketTypeOK
  <1>2. QED
    BY <1>1, ScreenInvariant, PTL

(* Whatever the order in which history, quotes and reconnects arrive, the  *)
(* chart's bars ascend and every price they show was quoted in their time: *)
(* a late answer replaces the bars, an old quote changes none of them, and *)
(* the history is made of quoted prices because no bucket of it is cut.    *)
THEOREM TheChartIsTrue == MarketSpec => []ChartIsTrue
  <1>1. ScreenInv => ChartIsTrue
    <2> SUFFICES ASSUME ScreenInv PROVE ChartIsTrue
      OBVIOUS
    <2> DEFINE bars == chart.bars
    <2>1. /\ bars \in Seq(Bar) /\ AscendingBars(bars)
          /\ \A i \in 1..Len(bars) : QuotedBar(bars[i], quoted)
          /\ IF bars = <<>> THEN chart.last = Nothing ELSE chart.last = Last(bars)
      BY DEF ScreenInv, QuotedChart, QuotedBars
    <2> HIDE DEF bars
    <2>2. ASSUME NEW i \in 1..Len(bars), NEW prices,
                 prices = UNION {quoted[m] : m \in {k \in MinuteRange :
                                                      BucketOf(k) = bars[i].time}}
          PROVE  /\ i > 1 => bars[i - 1].time < bars[i].time
                 /\ {bars[i].o, bars[i].h, bars[i].l, bars[i].c} \subseteq prices
      <3>1. i > 1 => i - 1 \in 1..Len(bars) /\ i - 1 < i
        BY <2>1
      <3>2. \A p : QuotedAt(bars[i].time, p, quoted) => p \in prices
        BY <2>2 DEF QuotedAt
      <3>3. QED
        BY <2>1, <3>1, <3>2 DEF AscendingBars, QuotedBar
    <2>3. DOMAIN bars = 1..Len(bars)
      BY <2>1
    <2>4. QED
      BY <2>1, <2>2, <2>3 DEF ChartIsTrue, bars
  <1>2. QED
    BY <1>1, ScreenInvariant, PTL
=============================================================================
