----------------------------- MODULE SignalRules -----------------------------
(***************************************************************************)
(* What a signal check decides (signal.service.ts, cupo.strategy.ts): from *)
(* indicators, price and the active orders of one user in one symbol to    *)
(* the jobs it sends.  No state is kept here; CloseOrder and OpenOrder     *)
(* show what the jobs do, in whatever order they come.                     *)
(*                                                                         *)
(* A check c is a record:                                                  *)
(*   strategy    which one the user follows                                *)
(*   p           its parameters with their defaults, percentages in        *)
(*               permille                                                  *)
(*   conditions  what the indicators say                                   *)
(*   bid, ask    the price                                                 *)
(*   orders      the active orders: the real ones, or else the virtual     *)
(*   real        whether they are the real ones                            *)
(*   opened      how many symbols have real orders                         *)
(*   profit      symbolProfitIndex, in permille                            *)
(*   stop        the trailing stop of the symbol as read, in permille      *)
(*   allowed     real trade is allowed, also by the user in this symbol    *)
(*   lot         the real balance suffices for a lot                       *)
(*   start, add  the kinds of balance that suffice for a first order, and  *)
(*               for a further one                                         *)
(*   listed      the user has listed the symbol, or need not list any      *)
(*   paused, pending   OPEN_ORDER_PAUSE, the semaphore of the symbol       *)
(* An order is a record of id, open (its price), signal, stopLoss and      *)
(* takeProfit.                                                             *)
(***************************************************************************)
EXTENDS Integers, FiniteSets

-----------------------------------------------------------------------------
(***************************************************************************)
(* cupoIndicatorsStrategy(): the conditions.                               *)
(***************************************************************************)

\* i holds the two trends (-1, 0, 1), the side of the price (of both averages),
\* the side of the MACD ("above", "below" its signal, "equal", "unknown") at the
\* last closed candle and at the one before, whether all averages are known and
\* the bid is above the first; and of the last four closed candles which were
\* green, which stayed over their average, and which over that of the second.
Trend(value, up, down) == IF value = 1 THEN {up} ELSE IF value = -1 THEN {down} ELSE {}

PriceCondition(i) ==
    IF i.price = "below" THEN {"EMA_PRICE_LOWER"}
    ELSE IF i.price = "above" THEN {"EMA_PRICE_HIGHER"} ELSE {}

MacdConditions(i) ==
    IF i.macd = <<"above", "below">> THEN {"MACD_CROSSES_UP", "OPEN_LONG_MACD"}
    ELSE IF i.macd = <<"below", "above">> THEN {"MACD_CROSSES_DOWN", "OPEN_SHORT_MACD"} ELSE {}

\* The candles rose over the averages one to three candles ago and those since
\* are in green.  To see whether the third one touched its average the code
\* takes the average of the second.
Fresh(i, green) ==
    /\ 1 \in i.over
    /\ \/ 2 \notin i.over
       \/ 2 \in i.over /\ 2 \in green /\ 3 \notin i.over2
       \/ {2, 3} \subseteq i.over /\ {2, 3} \subseteq green /\ 4 \notin i.over

EntryByTrend(i)    == i.macd[1] = "above" /\ i.bidOver /\ Fresh(i, {2, 3})
EntryByCrossing(i) ==
    i.macd[1] = "above" /\ i.macd[2] \in {"below", "equal"} /\ Fresh(i, i.green)

Entry(i) ==
    IF 1 \in i.green /\ i.known /\ i.trend = 1 /\ (EntryByTrend(i) \/ EntryByCrossing(i))
    THEN {"OPEN_LONG_NEW"} ELSE {}

CupoIndicatorsStrategy(i) ==
    Trend(i.trend, "TREND_UP", "TREND_DOWN") \union PriceCondition(i)
       \union MacdConditions(i) \union Trend(i.highTrend, "HIGH_TREND_UP", "HIGH_TREND_DOWN")
       \union Entry(i)

-----------------------------------------------------------------------------
(***************************************************************************)
(* The trailing stop of the symbol.                                        *)
(***************************************************************************)
Smaller(a, b) == IF a < b THEN a ELSE b
Larger(a, b)  == IF a < b THEN b ELSE a

Pax(c)      == c.strategy \in {"PAX_1", "PAX_2"}
Trailing(c) == (Pax(c) \/ c.p.enableTrailing) /\ c.orders # {}

\* The stop the check has read; it is deleted when there is no order.
ReadStop(c) == IF c.orders = {} THEN 0 ELSE c.stop

Trails(c) ==
    /\ Trailing(c)
    /\ c.p.trailingStep > 0
    /\ c.profit > Smaller(c.p.trailingTP, c.p.tpPercent)
    /\ ReadStop(c) = 0 \/ c.profit - c.p.trailingStep > ReadStop(c)

\* Half a percent below the profit once that is above the take profit.
TrailedTo(c) ==
    IF c.profit > c.p.tpPercent THEN c.profit - Smaller(5, c.p.trailingStep)
    ELSE c.profit - c.p.trailingStep

\* setSymbolStopLoss() keeps the higher one; stored is what it reads itself.
SymbolStop(c, stored) == IF Trails(c) THEN Larger(stored, TrailedTo(c)) ELSE ReadStop(c)

-----------------------------------------------------------------------------
(***************************************************************************)
(* The rules that close orders, in their order.                            *)
(***************************************************************************)
Gains(c, o, permille) == 1000 * c.bid > (1000 + permille) * o.open
InProfit(c) == {o \in c.orders : Gains(c, o, 5)}

\* Real orders in too many symbols.
Crowded(c) == c.real /\ c.orders # {} /\ c.opened > c.p.maximumOpenedSymbols /\ c.profit > 5

OrderStops(c) ==
    IF Pax(c) THEN {o \in c.orders : o.stopLoss > 0 /\ c.bid < o.stopLoss} ELSE {}

StopReached(c, sl) == Trailing(c) /\ sl > 0 /\ c.profit > 5 /\ c.profit < sl

MacdClose(c) == IF Pax(c) /\ "OPEN_SHORT_MACD" \in c.conditions THEN InProfit(c) ELSE {}

Falling(c) == c.strategy = "CUPO" /\ "HIGH_TREND_DOWN" \in c.conditions

\* 8.
RisenOrders(c) ==
    IF Falling(c) THEN {o \in InProfit(c) : Gains(c, o, c.p.uUpOrdersPricePercent)} ELSE {}

TakesProfit(c, o) ==
    IF o.takeProfit = 0 THEN Gains(c, o, c.p.tpPercent) ELSE c.bid > o.takeProfit

\* 6.
AveragingOrders(c) ==
    IF c.strategy = "CUPO" /\ Cardinality(c.orders) > 1 /\ "TREND_DOWN" \in c.conditions
    THEN {o \in InProfit(c) : o.signal = "BUY_AVERAGING" /\ TakesProfit(c, o)}
    ELSE {}

\* 9.
GroupTakesProfit(c) ==
    /\ Falling(c) /\ Cardinality(c.orders) >= c.p.orderGroupSize
    /\ \A o \in c.orders : Gains(c, o, 5) /\ Gains(c, o, c.p.orderGroupTPPercent)

\* 7.
ProfitOrders(c) == IF Falling(c) /\ Cardinality(c.orders) > 1 THEN InProfit(c) ELSE {}

CloseAll == [type |-> "CLOSE_ALL", orders |-> {}]
Named(jobs) == UNION {j.orders : j \in jobs}

\* A rule names the orders that no earlier rule has named.
WithClose(jobs, orders) ==
    IF orders \subseteq Named(jobs) THEN jobs
    ELSE jobs \union {[type |-> "CLOSE", orders |-> orders \ Named(jobs)]}

\* The jobs of a check; sl is the stop of the symbol after trailing.
CloseJobs(c, sl) ==
    LET stops == WithClose({}, OrderStops(c))
        named == WithClose(WithClose(WithClose(stops, MacdClose(c)), RisenOrders(c)),
                           AveragingOrders(c))
    IN  IF Crowded(c) THEN {CloseAll}
        ELSE IF StopReached(c, sl) THEN stops \union {CloseAll}
        ELSE IF GroupTakesProfit(c) /\ ~(c.orders \subseteq Named(named))
        THEN named \union {CloseAll}
        ELSE WithClose(named, ProfitOrders(c))

Closed(c, jobs) == IF CloseAll \in jobs THEN c.orders ELSE Named(jobs)

-----------------------------------------------------------------------------
(***************************************************************************)
(* The rules that open orders; a check that closes opens nothing.          *)
(***************************************************************************)
IsVirtual(c) == ~c.allowed \/ ~c.lot

GoesOn(c) ==
    /\ c.listed /\ ~c.paused
    /\ IsVirtual(c) => c.p.virtualOrdersAllowed
    /\ ~c.pending

\* The signal to go in, of the strategy.
EntrySignal(c) ==
    CASE c.strategy = "CUPO"  -> "OPEN_LONG_NEW" \in c.conditions
      [] c.strategy = "PAX_1" -> "OPEN_LONG_MACD" \in c.conditions
      [] c.strategy = "PAX_2" -> /\ "EMA_PRICE_LOWER" \in c.conditions
                                 /\ {"OPEN_LONG_MACD", "TREND_UP"} \intersect c.conditions # {}

FirstOrder(c) ==
    /\ EntrySignal(c)
    /\ IF IsVirtual(c) THEN c.orders = {} /\ "virtual" \in c.start
       ELSE /\ ~c.real /\ "real" \in c.start
            /\ c.opened < (IF c.p.maximumOpenedSymbols = 0 THEN 8 ELSE c.p.maximumOpenedSymbols)

Kind(c) == IF c.real THEN "real" ELSE "virtual"
Adds(c) == c.orders # {} /\ Kind(c) \in c.add

\* 4.  The price has fallen by the step below the lowest order.
AveragingOrder(c) ==
    LET step == IF Cardinality(c.orders) >= 2 THEN c.p.nextStep ELSE c.p.step IN
    /\ EntrySignal(c) /\ Adds(c)
    /\ \A o \in c.orders : 1000 * o.open > (1000 + step) * c.ask

\* 7.  It has risen above the highest one.
PyramidingOrder(c) ==
    /\ "HIGH_TREND_UP" \in c.conditions /\ Adds(c)
    /\ Cardinality(c.orders) < c.p.orderGroupSize
    /\ \A o \in c.orders : 1000 * c.ask > (1000 + c.p.uUpOrdersPricePercent) * o.open

Order(c, signal, virtual) == [signal |-> signal, virtual |-> virtual, open |-> c.ask]

\* The order a check creates, if any; a further one is of the kind of those there.
OpenedOrders(c, sl) ==
    IF CloseJobs(c, sl) # {} \/ ~GoesOn(c) THEN {}
    ELSE IF FirstOrder(c) THEN {Order(c, "BUY", IsVirtual(c))}
    ELSE IF AveragingOrder(c) THEN {Order(c, "BUY_AVERAGING", ~c.real)}
    ELSE IF PyramidingOrder(c) THEN {Order(c, "BUY_PYRAMIDING", ~c.real)}
    ELSE {}

-----------------------------------------------------------------------------
(***************************************************************************)
(* Which symbols and users are checked.  A symbol is the set of its two    *)
(* currencies; m holds the symbols that are known and that are traded, the *)
(* currencies excluded and those an exchange settles in; a user u holds    *)
(* what he has listed: symbols, currencies, excluded, and his base.        *)
(***************************************************************************)

\* checkUserSymbols() of the active users; those without a list leave no trace.
AllUserSymbols(users) == UNION {u.symbols : u \in users}

\* addJob_CalculateIndicatorSignal(): with no list at all every symbol passes.
IsChecked(symbol, users, m) ==
    /\ AllUserSymbols(users) = {} \/ symbol \in AllUserSymbols(users)
    /\ symbol \in m.traded
    /\ symbol \intersect m.excluded = {}
    /\ symbol \intersect m.settled # {}

\* checkUserToAllowSymbolTrade(); base is the currency the symbol is settled in.
AllowSymbolTrade(u, symbol, base) ==
    /\ u.symbols = {} \/ symbol \in u.symbols
    /\ u.currencies = {} \/ symbol \ {base} \subseteq u.currencies
    /\ symbol \intersect u.excluded = {}

\* check_AllUsers_OrdersSignalsCUPOStrategy(): a price far from the last candle
\* stops the check of all.
Plausible(bid, ask, high, low) ==
    /\ ~(bid > 2 * high /\ bid > 2 * low) /\ ~(ask > 2 * high /\ ask > 2 * low)
    /\ ~(2 * bid < high /\ 2 * bid < low) /\ ~(2 * ask < high /\ 2 * ask < low)

\* checkDisabledSymbols(): an order in a market that is known and not traded or
\* in an excluded currency, or a real one in what its user does not trade.
Disabled(u, o, m) ==
    \/ o.symbol \in m.known \ m.traded
    \/ o.symbol \intersect m.excluded # {}
    \/ /\ ~o.virtual
       /\ \/ o.symbol \intersect u.excluded # {}
          \/ u.symbols # {} /\ o.symbol \notin u.symbols
          \/ u.currencies # {} /\ ~(o.symbol \ {u.base} \subseteq u.currencies)

\* One job per symbol, for the real orders as soon as one of them is real.
DisabledJobs(u, orders, m) ==
    LET disabled == {o \in orders : Disabled(u, o, m)} IN
    {[type |-> "CLOSE_DISABLED", symbol |-> s,
      virtual |-> \A o \in disabled : o.symbol = s => o.virtual] : s \in {o.symbol : o \in disabled}}

\* checkNewTickers(): how many symbols the next round takes, by how many this
\* one has checked and how long it took.
NextSignalsPerTime(n, executed, score, timeout) ==
    IF executed = n /\ score > timeout /\ n > 1 THEN Larger((n * timeout) \div score - 1, 1)
    ELSE IF executed = n /\ score < timeout THEN n + 1
    ELSE n

-----------------------------------------------------------------------------
(***************************************************************************)
(* What the rules come to.  MCSignalRules evaluates these statements over  *)
(* small inputs, CloseOrderProofs proves them for all.                     *)
(***************************************************************************)

\* No order is in two CLOSE jobs of one check (signal.service.ts:662), although
\* six rules look at the same orders; a CLOSE_ALL beside them is another matter.
NamedOnce(c, sl) ==
    \A j, k \in CloseJobs(c, sl) : j.orders \intersect k.orders # {} => j = k

\* The rules of CUPO, one after the other with orders passed on and early
\* returns, close exactly this.
CupoCloses(c) ==
    IF GroupTakesProfit(c) THEN c.orders
    ELSE ProfitOrders(c) \union RisenOrders(c) \union AveragingOrders(c)

ByCupoAlone(c, sl) == c.strategy = "CUPO" /\ ~Crowded(c) /\ ~StopReached(c, sl)

CupoAsDeclared(c, sl) ==
    ByCupoAlone(c, sl) => Closed(c, CloseJobs(c, sl)) = CupoCloses(c)

\* Whichever rules of CUPO meet, none of them closes an order at a loss: only
\* too many symbols and the trailing stop do, which look at the symbol's sum.
NothingAtALoss(c, sl) ==
    ByCupoAlone(c, sl) => Closed(c, CloseJobs(c, sl)) \subseteq InProfit(c)

\* What was bought at the ask is not sold by the next check at the same price.
BoughtIsKept(c, sl) ==
    ByCupoAlone(c, sl) => \A o \in Closed(c, CloseJobs(c, sl)) : o.open # c.ask

\* Raising the stop does not reach it: the check that trails does not close,
\* unless another one has raised the stop since.
TrailingLeavesRoom(c) == Trails(c) => ~StopReached(c, SymbolStop(c, ReadStop(c)))

\* What a check may trade in for a user, the cron does not close as disabled, if
\* the user's base currency is the one the symbol is settled in.
AllowedIsNotDisabled(u, o, m) ==
    /\ o.symbol \in m.traded /\ o.symbol \intersect m.excluded = {}
    /\ AllowSymbolTrade(u, o.symbol, u.base)
    => ~Disabled(u, o, m)
=============================================================================
