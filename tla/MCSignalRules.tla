--------------------------- MODULE MCSignalRules ---------------------------
(* SignalRules over small inputs: prices around 1000, three orders at most. *)
EXTENDS SignalRules

Bought(id, open, signal, stopLoss, takeProfit) ==
    [id |-> id, open |-> open, signal |-> signal, stopLoss |-> stopLoss,
     takeProfit |-> takeProfit]

\* At a bid of 1000: a large gain, a gain, a loss, and what was bought at the ask.
SomeOrders == {Bought(1, 880, "BUY", 0, 0), Bought(2, 960, "BUY_AVERAGING", 0, 980),
               Bought(3, 1100, "BUY", 1010, 0), Bought(4, 1001, "BUY_AVERAGING", 0, 0)}

Parameters == [maximumOpenedSymbols |-> 1, uUpOrdersPricePercent |-> 50, orderGroupSize |-> 2,
               orderGroupTPPercent |-> 30, tpPercent |-> 30, step |-> 50, nextStep |-> 75,
               enableTrailing |-> FALSE, trailingTP |-> 20, trailingStep |-> 10,
               virtualOrdersAllowed |-> TRUE]

SomeParameters == {Parameters, [Parameters EXCEPT !.enableTrailing = TRUE]}

SomeConditions == SUBSET {"TREND_DOWN", "HIGH_TREND_DOWN", "OPEN_SHORT_MACD"}
                     \union {{"OPEN_LONG_NEW", "TREND_UP"}, {"HIGH_TREND_UP"}}

Check(strategy, p, conditions, orders, profit, stop, opened) ==
    [strategy |-> strategy, p |-> p, conditions |-> conditions, bid |-> 1000, ask |-> 1001,
     orders |-> orders, real |-> orders # {}, opened |-> opened, profit |-> profit,
     stop |-> stop, allowed |-> TRUE, lot |-> TRUE, start |-> {"real"}, add |-> {"real"},
     listed |-> TRUE, paused |-> FALSE, pending |-> FALSE]

Checks ==
    {Check(s, p, k, o, profit, stop, opened) :
        s \in {"CUPO", "PAX_1"}, p \in SomeParameters, k \in SomeConditions,
        o \in {x \in SUBSET SomeOrders : Cardinality(x) < 4},
        profit \in {-20, 8, 25, 40}, stop \in {0, 15, 30}, opened \in {1, 2}}

Stop(c) == SymbolStop(c, ReadStop(c))

Indicators ==
    [trend : {-1, 0, 1}, highTrend : {-1, 1}, price : {"below", "between"},
     macd : {"above", "below", "equal", "unknown"} \X {"above", "below", "equal", "unknown"},
     known : {TRUE}, bidOver : BOOLEAN, green : {{1}, {1, 2, 3}},
     over : {{}, {1}, {1, 2}, {1, 2, 3}}, over2 : {{}, {3}}]

\* What CloseOrderProofs proves.
ASSUME RulesHold ==
    \A c \in Checks :
       /\ NamedOnce(c, Stop(c)) /\ CupoAsDeclared(c, Stop(c)) /\ NothingAtALoss(c, Stop(c))
       /\ BoughtIsKept(c, Stop(c)) /\ TrailingLeavesRoom(c)

\* The indicators never advise to go in and out at once.
ASSUME NeverOpposed ==
    \A i \in Indicators :
       LET conditions == CupoIndicatorsStrategy(i) IN
       /\ "OPEN_LONG_NEW" \in conditions => "TREND_UP" \in conditions
       /\ ~({"TREND_UP", "TREND_DOWN"} \subseteq conditions)
       /\ ~({"OPEN_LONG_NEW", "OPEN_SHORT_MACD"} \subseteq conditions)

\* A check may send CLOSE for some orders and CLOSE_ALL beside it, so that two
\* handlers close the same order at the same time.
ASSUME JobsOverlap ==
    \E c \in Checks : CloseAll \in CloseJobs(c, Stop(c)) /\ Named(CloseJobs(c, Stop(c))) # {}

\* An order is added to real ones even where real trade is not allowed.
ASSUME RealThoughNotAllowed ==
    \E c \in Checks : \E o \in OpenedOrders([c EXCEPT !.allowed = FALSE], Stop(c)) : ~o.virtual

\* The number of symbols per round stays positive and falls when a round is late.
ASSUME ThrottleIsSound ==
    \A n \in 1..20, executed \in 0..20, score \in 0..60 :
       LET next == NextSignalsPerTime(n, executed, score, 20) IN
       /\ next >= 1
       /\ executed = n /\ score > 20 /\ n > 1 => next < n

-----------------------------------------------------------------------------
Currencies == {"BTC", "ETH", "USDT"}
Pairs == {{"BTC", "USDT"}, {"ETH", "USDT"}}
SomeUsers == [symbols : SUBSET Pairs, currencies : {{}, {"BTC", "USDT"}},
              excluded : {{}, {"ETH"}}, base : {"USDT"}]
Market == [known |-> Pairs, traded |-> Pairs, excluded |-> {}, settled |-> {"USDT"}]

ASSUME AllowedAgrees ==
    \A u \in SomeUsers, s \in Pairs, v \in BOOLEAN :
       AllowedIsNotDisabled(u, [symbol |-> s, virtual |-> v], Market)

\* The symbols of a user without a list are not checked once somebody has one:
\* what he has bought is neither closed by a rule nor disabled.
ASSUME Unattended ==
    \E u, other \in SomeUsers, s \in Pairs :
       /\ AllowSymbolTrade(u, s, u.base) /\ ~IsChecked(s, {u, other}, Market)
       /\ IsChecked(s, {u}, Market)
=============================================================================
