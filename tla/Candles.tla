------------------------------- MODULE Candles -------------------------------
(***************************************************************************)
(* Candles: the slots of the time frames, the readers of a stored series,  *)
(* gluing of hours and quarters, and the job of the feeder that fetches a  *)
(* symbol's candles and stores them.  Everything is an operator: a job     *)
(* reads, fetches and writes in three steps (Since, Fetched, Write), so    *)
(* that two jobs can be put in any order.                                  *)
(*                                                                         *)
(* Times are minutes since the start of a year of 365 days; a day is as    *)
(* long as every other (no summer time).  A candle has its fields only;    *)
(* its moment of update is left out.                                       *)
(***************************************************************************)
EXTENDS Integers, SequencesExt, TLC

CONSTANTS
    PacketSize,      \* CANDLES_PACKET_SIZE
    CandleLimit,     \* CANDLE_LIMIT_VALUES
    BadSymbolFringe, \* BAD_SYMBOL_FRINGE
    Leftover         \* 16: fewer old candles are not worth a removal

ASSUME CandleBounds == {PacketSize, CandleLimit, BadSymbolFringe, Leftover} \subseteq Nat \ {0}

-----------------------------------------------------------------------------
(* Slots. *)

Hour == 60
Day == 24 * Hour
MonthDays == <<31, 28, 31, 30, 31, 30, 31, 31, 30, 31, 30, 31>>
Months == {Day * FoldLeft(+, 0, SubSeq(MonthDays, 1, m - 1)) : m \in 1 .. 12}
StartOfMonth(t) == Max({start \in Months : start =< t})

ByMinutes == "1m" :> 1 @@ "3m" :> 3 @@ "5m" :> 5 @@ "15m" :> 15 @@ "30m" :> 30
ByHours == "1h" :> 1 @@ "2h" :> 2 @@ "4h" :> 4 @@ "6h" :> 6 @@ "8h" :> 8 @@ "12h" :> 12
ByDays == "1d" :> 1 @@ "3d" :> 3 @@ "1w" :> 7

\* The start of the candle a moment belongs to.  Days are rounded within the
\* month: its first days belong to day 0, the last one of the month before.
CandleTime(tf, t) ==
    LET minute == t % Hour
        hour == (t \div Hour) % 24
        day == (t - StartOfMonth(t)) \div Day + 1
    IN CASE tf \in DOMAIN ByMinutes -> t - (minute % ByMinutes[tf])
         [] tf \in DOMAIN ByHours -> t - minute - Hour * (hour % ByHours[tf])
         [] tf \in DOMAIN ByDays -> StartOfMonth(t) + Day * (day - (day % ByDays[tf]) - 1)
         [] tf = "1M" -> StartOfMonth(t)
         [] OTHER -> t - (minute % 5)

\* For any other time frame the code throws.
FrameMinutes ==
    "1m" :> 1 @@ "5m" :> 5 @@ "15m" :> 15 @@ "30m" :> 30 @@ "1h" :> Hour @@ "2h" :> 2 * Hour
      @@ "4h" :> 4 * Hour @@ "1d" :> Day @@ "1w" :> 7 * Day @@ "1M" :> 30 * Day @@ "1y" :> 365 * Day

TimeByShift(tf, shift, t) == CandleTime(tf, t) - shift * FrameMinutes[tf]
CandleShift(tf, t, now) == (CandleTime(tf, now) - CandleTime(tf, t)) \div FrameMinutes[tf]

-----------------------------------------------------------------------------
(* Reading.  A series maps times to candles; readers get the newest first. *)

OldestFirst(series, minimum) ==
    LET times == {t \in DOMAIN series : t >= minimum}
        Nth(n) == CHOOSE t \in times : Cardinality({u \in times : u =< t}) = n
    IN [n \in 1 .. Cardinality(times) |-> series[Nth(n)]]
NewestFirst(series, minimum) == Reverse(OldestFirst(series, minimum))

AmongFirst(n, candles, time) ==
    {candles[i] : i \in {j \in DOMAIN candles : j =< n /\ candles[j].time = time}}
ZeroCandle(tf, candles, now) == AmongFirst(1, candles, CandleTime(tf, now))
ClosedCandle(tf, candles, now) == AmongFirst(2, candles, TimeByShift(tf, 1, now))
ClosedCandleByShift(tf, shift, candles, now) ==
    AmongFirst(shift + 1, candles, TimeByShift(tf, shift, now))

-----------------------------------------------------------------------------
(* Gluing.  The first candle of a slot is changed where it is, in the      *)
(* array that was handed over; beside the times the VOLUMES of the later   *)
(* ones are collected as times.                                            *)

GlueOne(tf, g, i) ==
    LET c == g.candles[i]
        slot == CandleTime(tf, c.time)
        into == g.slots[slot]
        earliest == \A t \in into.times : t > c.time
        latest == \A t \in into.times : t < c.time
    IN IF slot \notin DOMAIN g.slots
       THEN [candles |-> [g.candles EXCEPT ![i].time = slot],
             slots |-> g.slots @@ (slot :> [at |-> i, times |-> {c.time}, count |-> 1])]
       ELSE [candles |-> [g.candles EXCEPT ![into.at] =
                [@ EXCEPT !.open = IF earliest THEN c.open ELSE @,
                          !.high = Max({@, c.high}),
                          !.low = Min({@, c.low}),
                          !.close = IF latest THEN c.close ELSE @,
                          !.volume = @ + c.volume]],
             slots |-> [g.slots EXCEPT ![slot].times = @ \union {c.volume},
                                       ![slot].count = @ + 1]]

Parts == "30m" :> 2 @@ "2h" :> 2 @@ "4h" :> 4

\* The glued candles, complete or of the slot that runs, and the array left behind.
GlueCandles(tf, candles, now) ==
    LET g == FoldLeftDomain(LAMBDA acc, i : GlueOne(tf, acc, i),
                            [candles |-> candles, slots |-> <<>>], candles)
    IN [glued |-> {g.candles[g.slots[s].at] :
                     s \in {t \in DOMAIN g.slots :
                              g.slots[t].count = Parts[tf] \/ t = CandleTime(tf, now)}},
        candles |-> g.candles]

-----------------------------------------------------------------------------
(* Jobs.  A job has a timeframe and a limit or a start (0: not given).     *)

\* Half hours are fetched as quarters, two and four hours as hours.
BaseFrame(tf) == CASE tf = "30m" -> "15m" [] tf \in {"2h", "4h"} -> "1h" [] OTHER -> tf

\* Symbols that failed too often are left out, and frames of which a job runs.
\* A job that still waits is not seen, nor one added with the same call.
AddFetchJobs(timeframes, running, failures) ==
    SelectSeq([i \in DOMAIN timeframes |-> BaseFrame(timeframes[i])],
              LAMBDA tf : failures[tf] < BadSymbolFringe /\ tf \notin running)

\* Another job has stored the candle that runs.
IsDone(stored, tf, now) == CandleTime(tf, now) \in DOMAIN stored[tf]

\* Where the fetch starts.  The loop over finished candles goes back from the
\* oldest one that was read, so it ends after a step.
Since(job, stored, now) ==
    LET tf == BaseFrame(job.timeframe)
        minimum == TimeByShift(tf, IF job.limit = 0 THEN CandleLimit ELSE job.limit, now)
        kept == minimum \in DOMAIN stored[tf] /\ stored[tf][minimum].finished
        extra == CASE tf = "15m" -> 4 + 1 [] tf = "1h" -> 4 * 2 + 1 [] OTHER -> 0
        since == minimum - ((IF kept THEN 1 ELSE 0) + extra) * FrameMinutes[tf]
    IN IF job.since = 0 THEN since ELSE Min({since, job.since})

\* What the exchange answers: its first candles from a time on.
Packet(market, from) ==
    LET candles == OldestFirst(market, from)
    IN SubSeq(candles, 1, Min({PacketSize, Len(candles)}))

\* All packets up to the slot that ran when the job began; a refused packet
\* is empty, and a candle of a known time is not taken again.  (A call that
\* throws, and throws again, ends the job before it has written anything.)
Fetched(tf, since, slot, market, refused) ==
    LET size == PacketSize * FrameMinutes[tf]
        starts == [k \in 1 .. (slot - since) \div size + 1 |-> since + (k - 1) * size]
        Add(candles, from) ==
            candles \o SelectSeq(IF from \in refused THEN <<>> ELSE Packet(market, from),
                LAMBDA c : \A i \in DOMAIN candles : candles[i].time # c.time)
    IN FoldLeft(Add, <<>>, starts)

\* finished is set for every slot but the one that ran when the job began.
SetCandles(stored, tf, candles, slot) ==
    LET Of(t) == CHOOSE c \in candles : c.time = t
    IN [stored EXCEPT ![tf] = [t \in {c.time : c \in candles} |-> Of(t) @@ [finished |-> t # slot]] @@ @]

\* The candles as fetched, then what is glued from them: from hours first two,
\* then four hours, out of the same array.
Write(stored, tf, slot, candles, now) ==
    LET aligned == {c \in ToSet(candles) : c.time = CandleTime(tf, c.time)}
        base == SetCandles(stored, tf, aligned, slot)
        half == GlueCandles("30m", candles, now)
        two == GlueCandles("2h", candles, now)
        four == GlueCandles("4h", two.candles, now)
    IN CASE aligned = {} -> stored
         [] tf = "15m" -> SetCandles(base, "30m", half.glued, slot)
         [] tf = "1h" -> SetCandles(SetCandles(base, "2h", two.glued, slot), "4h", four.glued, slot)
         [] OTHER -> base

\* A whole job that begins at start, reads what market shows, and writes at now.
UpdateCandles(job, stored, start, market, refused, now) ==
    LET tf == BaseFrame(job.timeframe)
        slot == CandleTime(tf, start)
        candles == Fetched(tf, Since(job, stored, start), slot, market, refused)
    IN IF IsDone(stored, tf, start) THEN stored ELSE Write(stored, tf, slot, candles, now)

-----------------------------------------------------------------------------
(* The collector takes what no update looks at any more, a number at a     *)
(* time; of a symbol that is not listed any more it takes everything.      *)

OldCandles(series, minimum) == {t \in DOMAIN series : t < minimum}

CollectCandles(job, stored, now, listed) ==
    LET tf == job.timeframe
        minimum == IF listed
                   THEN TimeByShift(tf, IF job.limit = 0 THEN CandleLimit + 1 ELSE job.limit, now)
                   ELSE now
        old == OldCandles(stored[tf], minimum)
    IN IF Cardinality(old) > Leftover
       THEN [stored EXCEPT ![tf] = [t \in DOMAIN @ \ old |-> @[t]]]
       ELSE stored
=============================================================================
