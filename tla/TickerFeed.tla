----------------------------- MODULE TickerFeed -----------------------------
(***************************************************************************)
(* The ticker application: several processes that feed the last prices of  *)
(* the exchanges into Redis.  Every three seconds each process offers      *)
(* itself and claims the part of main feeder; every five seconds the main  *)
(* feeder spreads the exchanges over the processes that offered            *)
(* themselves; a process that finds itself named for an exchange opens a   *)
(* websocket to it and writes what arrives.                                *)
(*                                                                         *)
(* Ages stand for timestamps: one unit of Tick is the time after which a   *)
(* process that offers itself no more counts as gone.  The four redis keys *)
(* are main, available, feeders and tickers; everything else is memory of  *)
(* one process.                                                            *)
(***************************************************************************)
EXTENDS TickerLinks, FiniteSetsExt

CONSTANTS
    None,            \* no value under a key
    SubConnected,    \* the exchanges read over further websockets (bitfinex)
    Capacity,        \* TICKER_EXCHANGES_COUNT
    Alive,           \* age at which a process counts as available (15 s)
    Lease,           \* age up to which main and feeders count (60 s)
    MaxSockets,      \* bound: websockets to an exchange
    MaxFaults        \* bound: ended processes, refused and broken connections

ASSUME BoundsAssumption ==
    /\ {Capacity, Alive, Lease, MaxSockets} \subseteq Nat \ {0}
    /\ MaxFaults \in Nat
ASSUME SubAssumption == SubConnected \subseteq Exchanges

VARIABLES
    main,             \* the main feeder and the age of its stamp
    available,        \* per process, the age of its offer
    feeders,          \* per exchange, who feeds it and the age of the stamp
    tickers,          \* the exchanges whose prices were renewed since the last Tick
    up,               \* the processes that run
    isMainFeeder,     \* what each process believes of itself
    vote,             \* per process, what the three-second cron is about
    plan,             \* per process, the feeders read by the five-second cron
    faults

board == <<main, available, feeders>>
memory == <<isMainFeeder, vote, plan>>
vars == <<board, tickers, up, memory, link, faults>>

Stamps(limit) == 0 .. limit + 1
Entry == [id : Feeders, age : Stamps(Lease)]
Votes == {"idle", "claim", "reset"}

TypeOK ==
    /\ main \in Entry \union {None}
    /\ available \in [Feeders -> Stamps(Alive) \union {None}]
    /\ feeders \in [Exchanges -> Entry \union {None}]
    /\ tickers \subseteq Exchanges
    /\ up \subseteq Feeders
    /\ isMainFeeder \in [Feeders -> BOOLEAN]
    /\ vote \in [Feeders -> Votes]
    /\ plan \in [Feeders -> [Exchanges -> Feeders \union {None}] \union {None}]
    /\ link \in [Feeders -> [Exchanges -> Link]]
    /\ faults \in 0 .. MaxFaults

-----------------------------------------------------------------------------
(***************************************************************************)
(* The keys in Redis.                                                      *)
(***************************************************************************)
Stamp(f) == [id |-> f, age |-> 0]
Old(entry) == entry # None /\ entry.age > Lease

\* The entries of the exchanges in lost are deleted.
WithoutFeeders(lost) == [x \in Exchanges |-> IF x \in lost THEN None ELSE feeders[x]]
FeederLostExchange(x) == feeders' = WithoutFeeders({x})
SetTickerFeeder(x, f) == feeders' = [feeders EXCEPT ![x] = Stamp(f)]

\* Whatever disturbs the processes is counted.
Fault == faults < MaxFaults /\ faults' = faults + 1

\* The three deletes of a reset; nobody writes between them here.
ResetMainTickerFeeder ==
    /\ main' = None
    /\ feeders' = WithoutFeeders(Exchanges)
    /\ available' = [f \in Feeders |-> None]

-----------------------------------------------------------------------------
(***************************************************************************)
(* The election, by GET and SET.                                           *)
(***************************************************************************)
Verdict(f) ==
    CASE Old(main)                            -> "reset"
      [] main = None                          -> "claim"
      [] main # None /\ ~Old(main) /\ main.id = f -> "claim"
      [] OTHER                                -> "other"

\* The processes that offered themselves long ago, and their exchanges.
Dead == {f \in Feeders : available[f] # None /\ available[f] > Alive}
FedBy(processes) == {x \in Exchanges : feeders[x] # None /\ feeders[x].id \in processes}

\* The cron ends with the offer of process f; those in gone are dropped.
Offers(f, gone) ==
    /\ available' = [g \in Feeders |-> IF g = f THEN 0
                                       ELSE IF g \in gone THEN None ELSE available[g]]
    /\ feeders' = WithoutFeeders(FedBy(gone))

\* The cron reads the main feeder; it has nothing to write when that is
\* another process.
ReadMainFeeder(f) ==
    /\ f \in up /\ vote[f] = "idle"
    /\ \/ /\ Verdict(f) = "other"
          /\ isMainFeeder' = [isMainFeeder EXCEPT ![f] = FALSE]
          /\ Offers(f, {})
          /\ UNCHANGED vote
       \/ /\ Verdict(f) # "other"
          /\ vote' = [vote EXCEPT ![f] = Verdict(f)]
          /\ UNCHANGED <<available, feeders, isMainFeeder>>
    /\ UNCHANGED <<main, tickers, up, plan, link, faults>>

\* By what it has read it writes the key, drops the dead with their exchanges
\* and offers itself,
SetMainTickerFeeder(f) ==
    /\ vote[f] = "claim"
    /\ main' = Stamp(f)
    /\ isMainFeeder' = [isMainFeeder EXCEPT ![f] = TRUE]
    /\ Offers(f, Dead)
    /\ vote' = [vote EXCEPT ![f] = "idle"]
    /\ UNCHANGED <<tickers, up, plan, link, faults>>

\* or resets the keys of a main feeder that is silent and offers itself.
ResetOldMainFeeder(f) ==
    /\ vote[f] = "reset"
    /\ main' = None
    /\ feeders' = WithoutFeeders(Exchanges)
    /\ available' = [g \in Feeders |-> IF g = f THEN 0 ELSE None]
    /\ isMainFeeder' = [isMainFeeder EXCEPT ![f] = FALSE]
    /\ vote' = [vote EXCEPT ![f] = "idle"]
    /\ UNCHANGED <<tickers, up, plan, link, faults>>

-----------------------------------------------------------------------------
(***************************************************************************)
(* The roulette of the main feeder.                                        *)
(***************************************************************************)
Silent == {x \in Exchanges : Old(feeders[x])}

\* It takes exchanges from feeders that are silent and keeps the list of
\* feeders it then reads.
RunRoulette(f) ==
    /\ f \in up /\ isMainFeeder[f] /\ plan[f] = None
    /\ feeders' = WithoutFeeders(Silent)
    /\ plan' = [plan EXCEPT ![f] =
           [x \in Exchanges |-> IF feeders'[x] = None THEN None ELSE feeders'[x].id]]
    /\ UNCHANGED <<main, available, tickers, up, isMainFeeder, vote, link, faults>>

Load(choice, g) == Cardinality({x \in DOMAIN choice : choice[x] = g})

\* Mutant: a process is full one exchange too early.
FairShareTight(choice, fed) ==
    \A x \in DOMAIN choice :
       /\ fed[x] # None => choice[x] = fed[x]
       /\ fed[x] = None /\ choice[x] # None =>
             available[choice[x]] # None /\ Load(choice, choice[x]) < Capacity
       /\ choice[x] = None =>
             \A g \in Feeders : available[g] # None => Load(choice, g) >= Capacity - 1

\* choice extends the list fed so that no available process gets more than
\* Capacity and an exchange stays without one only when all are full.
FairShare(choice, fed) ==
    \A x \in DOMAIN choice :
       /\ fed[x] # None => choice[x] = fed[x]
       /\ fed[x] = None /\ choice[x] # None =>
             available[choice[x]] # None /\ Load(choice, choice[x]) <= Capacity
       /\ choice[x] = None =>
             \A g \in Feeders : available[g] # None => Load(choice, g) >= Capacity

\* It names a feeder for each of its exchanges that had none in that list.
SetTickerFeeders(f) ==
    /\ f \in up /\ plan[f] # None
    /\ \E choice \in [Exchanges -> Feeders \union {None}] :
          /\ FairShare(choice, plan[f])
          /\ feeders' = [x \in Exchanges |->
                IF plan[f][x] = None /\ choice[x] # None
                THEN Stamp(choice[x]) ELSE feeders[x]]
    /\ plan' = [plan EXCEPT ![f] = None]
    /\ UNCHANGED <<main, available, tickers, up, isMainFeeder, vote, link, faults>>

-----------------------------------------------------------------------------
(***************************************************************************)
(* The websocket service of process f for exchange x.                      *)
(***************************************************************************)
\* Named for the exchange and not connected, it reads the markets and dials.
MustDial(f, x) ==
    /\ f \in up
    /\ ~link[f][x].connected /\ ~link[f][x].reconnecting
    /\ feeders[x] # None /\ feeders[x].id = f
    /\ MapThenSumSet(LAMBDA g : Sockets(g, x), Feeders) < MaxSockets
CheckConnection(f, x) ==
    /\ MustDial(f, x)
    /\ Relink(f, x, [link[f][x] EXCEPT !.reconnecting = TRUE, !.dials = @ + 1])
    /\ UNCHANGED <<board, tickers, up, memory, faults>>

\* The exchange accepts; the connection becomes this.connection.
OnConnect(f, x) ==
    /\ link[f][x].dials > 0
    /\ Relink(f, x, [link[f][x] EXCEPT !.connected = TRUE, !.reconnecting = FALSE,
                        !.current = TRUE, !.open = @ + 1, !.dials = @ - 1])
    /\ UNCHANGED <<board, tickers, up, memory, faults>>

\* The exchange refuses, and the entry goes whoever it names.
ConnectFailed(f, x) ==
    /\ link[f][x].dials > 0
    /\ Relink(f, x, [Lost(link[f][x]) EXCEPT !.dials = @ - 1])
    /\ FeederLostExchange(x)
    /\ Fault
    /\ UNCHANGED <<main, available, tickers, up, memory>>

\* A further websocket is refused: the service takes itself for lost while
\* its connection stays open.
SubConnectFailed(f, x) ==
    /\ x \in SubConnected /\ link[f][x].current
    /\ Relink(f, x, Lost(link[f][x]))
    /\ FeederLostExchange(x)
    /\ Fault
    /\ UNCHANGED <<main, available, tickers, up, memory>>

\* A connection breaks: this.connection or one that was replaced.
OnConnectionError(f, x) ==
    /\ link[f][x].open > 0
    /\ \E wasCurrent \in BOOLEAN :
          /\ wasCurrent => link[f][x].current
          /\ ~wasCurrent /\ link[f][x].current => link[f][x].open > 1
          /\ Relink(f, x, [Lost(link[f][x]) EXCEPT !.open = @ - 1,
                              !.current = @ /\ ~wasCurrent])
    /\ FeederLostExchange(x)
    /\ Fault
    /\ UNCHANGED <<main, available, tickers, up, memory>>

\* A connection the service has closed itself reports its end.
OnConnectionClosed(f, x) ==
    /\ link[f][x].closing > 0
    /\ Relink(f, x, [Lost(link[f][x]) EXCEPT !.closing = @ - 1])
    /\ FeederLostExchange(x)
    /\ UNCHANGED <<main, available, tickers, up, memory, faults>>

\* Prices arrive: the process names itself as the feeder and, unless it did so
\* a moment ago or knows none of the markets, saves the last prices.
Prices(f, x, saved) ==
    /\ link[f][x].open > 0
    /\ SetTickerFeeder(x, f)
    /\ tickers' = IF saved THEN tickers \union {x} ELSE tickers
    /\ UNCHANGED <<main, available, up, memory, link, faults>>
OnTicker(f, x) == \E saved \in BOOLEAN : Prices(f, x, saved)

\* Another message arrives while nobody is named for the exchange:
\* this.connection is closed.
OnMessage(f, x) ==
    /\ link[f][x].open > 0 /\ link[f][x].connected
    /\ feeders[x] = None
    /\ link[f][x].current
    /\ Relink(f, x, [link[f][x] EXCEPT !.connected = FALSE, !.current = FALSE,
                        !.open = @ - 1, !.closing = @ + 1])
    /\ UNCHANGED <<board, tickers, up, memory, faults>>

-----------------------------------------------------------------------------
(***************************************************************************)
(* Processes end and start, time passes.                                   *)
(***************************************************************************)
Forgotten(f) ==
    /\ isMainFeeder' = [isMainFeeder EXCEPT ![f] = FALSE]
    /\ vote' = [vote EXCEPT ![f] = "idle"]
    /\ plan' = [plan EXCEPT ![f] = None]
    /\ link' = [link EXCEPT ![f] = [x \in Exchanges |-> Unlinked]]

\* A process ends, halted by a request or not, and with it its memory.
HaltApplication(f) ==
    /\ f \in up
    /\ up' = up \ {f}
    /\ Forgotten(f)
    /\ Fault
    /\ UNCHANGED <<board, tickers>>

\* A starting process resets a main feeder that is silent.
OnApplicationBootstrap(f) ==
    /\ f \notin up
    /\ up' = up \union {f}
    /\ IF Old(main) THEN ResetMainTickerFeeder ELSE UNCHANGED board
    /\ UNCHANGED <<tickers, memory, link, faults>>

Older(age, limit) == IF age > limit THEN age ELSE age + 1
OlderEntry(entry) == IF entry = None THEN None ELSE [entry EXCEPT !.age = Older(@, Lease)]
OlderOffer(age) == IF age = None THEN None ELSE Older(age, Alive)

\* Fifteen seconds pass: no roulette is half done, and the crons that run every
\* three seconds have offered every running process and dialled where that was
\* due.  A process may still act on the main feeder it read before.
Tick ==
    /\ \A f \in up : plan[f] = None /\ available[f] = 0
    /\ \A f \in up, x \in Exchanges : ~MustDial(f, x)
    /\ main' = OlderEntry(main)
    /\ available' = [f \in Feeders |-> OlderOffer(available[f])]
    /\ feeders' = [x \in Exchanges |-> OlderEntry(feeders[x])]
    /\ tickers' = {}
    /\ UNCHANGED <<up, memory, link, faults>>

-----------------------------------------------------------------------------
Init ==
    /\ main = None
    /\ available = [f \in Feeders |-> None]
    /\ feeders = [x \in Exchanges |-> None]
    /\ tickers = {}
    /\ up = Feeders
    /\ isMainFeeder = [f \in Feeders |-> FALSE]
    /\ vote = [f \in Feeders |-> "idle"]
    /\ plan = [f \in Feeders |-> None]
    /\ link = [f \in Feeders |-> [x \in Exchanges |-> Unlinked]]
    /\ faults = 0

Cron(f) ==
    \/ ReadMainFeeder(f) \/ SetMainTickerFeeder(f) \/ ResetOldMainFeeder(f)
    \/ RunRoulette(f) \/ SetTickerFeeders(f)
Websocket(f, x) ==
    \/ CheckConnection(f, x) \/ OnConnect(f, x) \/ ConnectFailed(f, x)
    \/ SubConnectFailed(f, x) \/ OnConnectionError(f, x) \/ OnConnectionClosed(f, x)
    \/ OnTicker(f, x) \/ OnMessage(f, x)

Next ==
    \/ \E f \in Feeders : Cron(f) \/ HaltApplication(f) \/ OnApplicationBootstrap(f)
    \/ \E f \in Feeders, x \in Exchanges : Websocket(f, x)
    \/ Tick

\* The crons of a running process run, a dial is answered and an own close
\* reports its end; websockets that are open again and again deliver prices,
\* and time passes between the runs of the roulette.
Fairness ==
    /\ SF_vars(Tick)
    /\ \A f \in Feeders :
          /\ WF_vars(ReadMainFeeder(f) \/ SetMainTickerFeeder(f) \/ ResetOldMainFeeder(f))
          /\ WF_vars(RunRoulette(f) \/ SetTickerFeeders(f))
          /\ \A x \in Exchanges :
                /\ WF_vars(CheckConnection(f, x))
                /\ WF_vars(OnConnect(f, x))
                /\ WF_vars(OnConnectionClosed(f, x))
                /\ SF_vars(Prices(f, x, TRUE))

Spec == Init /\ [][Next]_vars /\ Fairness

-----------------------------------------------------------------------------
\* The sets of processes that can take all exchanges.
Sufficient == {P \in SUBSET Feeders : Capacity * Cardinality(P) >= Cardinality(Exchanges)}

\* Every exchange is fed again and again once enough processes stay up: its last
\* prices are renewed, whoever crashed, was elected beside another, lost its
\* connection or had its entry deleted.
FeedComesBack == <>[](up \in Sufficient) => \A x \in Exchanges : []<>(x \in tickers)
=============================================================================
