------------------------------ MODULE MCCandles ------------------------------
(* Candles over small inputs: some hours of an exchange, four packets. *)
EXTENDS Candles

Aligned == {"1m", "3m", "5m", "15m", "30m", "1h", "2h", "4h", "6h", "8h", "12h", "1d"}
Moments == {m * 17 + Day * 58 : m \in 0 .. 200}

\* Within a day slots nest: a slot starts in itself, no moment is further from
\* its start than the frame is long, and slots of equal length follow each other.
ASSUME SlotsTile ==
    \A tf \in Aligned, t \in Moments :
       LET slot == CandleTime(tf, t) IN
       /\ slot =< t /\ CandleTime(tf, slot) = slot
       /\ tf \in DOMAIN FrameMinutes =>
             /\ t - slot < FrameMinutes[tf]
             /\ CandleTime(tf, slot - 1) = slot - FrameMinutes[tf]
             /\ \A k \in 0 .. 3 : CandleShift(tf, TimeByShift(tf, k, t), t) = k

\* Weeks do not: the slot of the first days of a month may start in a slot of
\* its own, and the candle before it is not a week older.
ASSUME WeeksAreTorn ==
    \E d \in 60 .. 120 :
       LET slot == CandleTime("1w", Day * d)
       IN CandleTime("1w", slot) # slot /\ slot - CandleTime("1w", slot) < FrameMinutes["1w"]

-----------------------------------------------------------------------------
\* The series of an exchange: prices move, every hour has a volume of its own.
Base == Day * 40
Price(t) == (((t \div Hour) * 7) % 11) + 5
CandleAt(t) == [time |-> t, open |-> Price(t), high |-> Price(t) + 2, low |-> Price(t) - 3,
                close |-> Price(t + Hour), volume |-> ((t \div Hour) % 3) + 1]
Begun(t) == [CandleAt(t) EXCEPT !.high = @ - 1, !.close = Price(t), !.volume = 0]

\* What it shows at a moment: its last candle has just begun.
Shown(now) ==
    LET slot == CandleTime("1h", now)
    IN [t \in {Base + Hour * k : k \in 0 .. (slot - Base) \div Hour} |->
          IF t = slot THEN Begun(t) ELSE CandleAt(t)]

Nothing == [tf \in {"15m", "30m", "1h", "2h", "4h"} |-> <<>>]
Hourly(limit) == [timeframe |-> "1h", limit |-> limit, since |-> 0]
Now(k) == Base + Hour * (15 + k) + 4

\* What gluing is for: the fold of the parts, in the order of their times.
Fold(candles, slot) ==
    LET parts == {c \in ToSet(candles) : slot =< c.time}
        first == CHOOSE c \in parts : \A d \in parts : c.time =< d.time
        last == CHOOSE c \in parts : \A d \in parts : c.time >= d.time
    IN [time |-> slot, open |-> first.open, close |-> last.close,
        high |-> Max({c.high : c \in parts}), low |-> Min({c.low : c \in parts}),
        volume |-> MapThenSumSet(LAMBDA c : c.volume, parts)]

Within(tf, candles, slot) == SelectSeq(candles, LAMBDA c : CandleTime(tf, c.time) = slot)
Hours(from, n) == [i \in 1 .. n |-> CandleAt(Base + Hour * (from + i - 1))]

\* Hours in the order of their times are glued into their fold, and what is left
\* out is an incomplete slot that does not run.
ASSUME GluedIsTheFold ==
    \A tf \in {"2h", "4h"}, from \in 0 .. 4, n \in 0 .. 9, k \in {-10, 0} :
       LET candles == Hours(from, n)
           now == Base + Hour * (from + n + k)
           glued == GlueCandles(tf, candles, now).glued
       IN /\ \A g \in glued : g = Fold(Within(tf, candles, g.time), g.time)
          /\ \A i \in DOMAIN candles :
                LET slot == CandleTime(tf, candles[i].time) IN
                Len(Within(tf, candles, slot)) = Parts[tf] => \E g \in glued : g.time = slot

\* Two parts may come in any order; four may not.
ASSUME OrderOfParts ==
    LET Glue(tf, n) == GlueCandles(tf, Reverse(Hours(0, n)), Base).glued IN
    /\ Glue("2h", 2) = {Fold(Hours(0, 2), Base)}
    /\ Glue("4h", 4) # {Fold(Hours(0, 4), Base)}

\* A volume above the timestamps is taken for a time: the close is not the last.
ASSUME VolumeTakenForTime ==
    LET huge == [i \in 1 .. 4 |-> [Hours(0, 4)[i] EXCEPT !.volume = 2 * Base]]
        glued == CHOOSE g \in GlueCandles("4h", huge, Base).glued : TRUE
    IN glued.close = huge[2].close /\ glued.close # huge[4].close

\* Four hours are glued from an array in which every even hour already holds the
\* two hours it begins: prices are those of the fold, odd hours count twice.
ASSUME OddHoursCountTwice ==
    \A from \in {0, 4}, n \in {4, 8} :
       LET candles == Hours(from, n)
           now == Base
           four == GlueCandles("4h", GlueCandles("2h", candles, now).candles, now).glued
       IN \A g \in four :
             LET parts == Within("4h", candles, g.time)
                 fold == Fold(parts, g.time)
             IN g = [fold EXCEPT !.volume = @ + parts[2].volume + parts[4].volume]

-----------------------------------------------------------------------------
\* Whatever is stored, the readers find the closed candle if it is there.
ASSUME ClosedIsFound ==
    \A times \in SUBSET (0 .. 5), minimum \in {0, Base + 2 * Hour} :
       LET series == [t \in {Base + Hour * k : k \in times} |-> CandleAt(t)]
           candles == NewestFirst(series, minimum)
           now == Base + 5 * Hour + 10
           At(k) == {series[t] : t \in {u \in DOMAIN series :
                                          u = TimeByShift("1h", k, now) /\ u >= minimum}}
       IN /\ ZeroCandle("1h", candles, now) = At(0)
          /\ ClosedCandle("1h", candles, now) = At(1)
          /\ \A k \in 1 .. 4 : ClosedCandleByShift("1h", k, candles, now) = At(k)

\* The candles of a frame that are stored as finished and are not final.
Wrong(stored) ==
    {t \in DOMAIN stored["1h"] :
       LET c == stored["1h"][t] IN c.finished /\ c # CandleAt(t) @@ [finished |-> TRUE]}
Stale(stored, k) ==
    {t \in DOMAIN stored["1h"] : t < CandleTime("1h", Now(k))} \ 
       {t \in DOMAIN stored["1h"] : stored["1h"][t] = CandleAt(t) @@ [finished |-> TRUE]}

OnTime(job, stored, k) == UpdateCandles(job, stored, Now(k), Shown(Now(k)), {}, Now(k))
First == OnTime(Hourly(3), Nothing, 0)
Late == UpdateCandles(Hourly(3), Nothing, Now(0), Shown(Now(1)), {}, Now(1))

\* A job that reads and writes within an hour leaves what is over as it ended,
\* whatever an earlier one has left behind.
ASSUME UpdatesAreFinal ==
    \A limit \in {2, 3}, stored \in {Nothing, First, Late} :
       LET next == OnTime(Hourly(limit), stored, 2)
       IN /\ Wrong(next) = {} /\ Stale(next, 2) = {}
          /\ \A k \in 0 .. limit : TimeByShift("1h", k, Now(2)) \in DOMAIN next["1h"]

\* A job that began in the hour before takes the candle that has just begun for
\* finished, and the next job of the hour finds it stored and does nothing.
ASSUME BegunIsFinished ==
    Wrong(Late) = {CandleTime("1h", Now(1))} /\ OnTime(Hourly(3), Late, 1) = Late

\* Two jobs that overlap: the one of the hour before writes last and puts the
\* candle of its hour back as it had begun, until the next hour.
ASSUME OverlapPutsBack ==
    LET old == Fetched("1h", Since(Hourly(3), Nothing, Now(0)), CandleTime("1h", Now(0)),
                       Shown(Now(0)), {})
        both == Write(OnTime(Hourly(3), Nothing, 1), "1h", CandleTime("1h", Now(0)), old, Now(1))
    IN /\ Stale(both, 1) = {CandleTime("1h", Now(0))}
       /\ OnTime(Hourly(3), both, 1) = both
       /\ Stale(OnTime(Hourly(3), both, 2), 2) = {}

\* A refused packet leaves a gap that no job of the hour fills.
ASSUME GapsStay ==
    LET since == Since(Hourly(3), Nothing, Now(0))
        gap == UpdateCandles(Hourly(3), Nothing, Now(0), Shown(Now(0)), {since}, Now(0))
    IN /\ since \notin DOMAIN gap["1h"]
       /\ OnTime(Hourly(3), gap, 0) = gap
       /\ CandleTime("1h", Now(1)) \in DOMAIN OnTime(Hourly(3), gap, 1)["1h"]

\* In the second hour of a pair the candle of two hours still runs, and is finished.
ASSUME RunningPairIsFinished ==
    \E k \in 0 .. 1 :
       LET pair == OnTime(Hourly(3), Nothing, k)["2h"][CandleTime("2h", Now(k))] IN pair.finished

\* The collector never takes what an update of the same or a later time compares.
ASSUME CollectedIsNotRead ==
    \A k, later \in 0 .. 2, limit \in {0, 2} :
       LET kept == CollectCandles(Hourly(limit), First, Now(k), TRUE)
       IN /\ kept # First
          /\ later >= k => Since(Hourly(limit), kept, Now(later)) = Since(Hourly(limit), First, Now(later))

\* Two jobs for hours may be added with one call.
ASSUME AddedTwice ==
    AddFetchJobs(<<"1h", "2h", "30m">>, {"15m"}, [tf \in {"1h", "15m"} |-> 0]) = <<"1h", "1h">>
=============================================================================
