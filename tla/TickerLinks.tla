----------------------------- MODULE TickerLinks -----------------------------
(***************************************************************************)
(* The websocket services of the ticker application: every process has one *)
(* for each exchange.  TickerFeed says when their connections are dialled, *)
(* accepted, refused, broken and closed.                                   *)
(***************************************************************************)
EXTENDS Integers

CONSTANTS
    Feeders,         \* the processes, named by their addresses
    Exchanges        \* ENABLED_EXCHANGES

VARIABLE
    link             \* per process and exchange, the websocket service

\* A websocket service: what it believes (connected, reconnecting), whether
\* this.connection is open, and how many websockets are open, being dialled
\* and closing.
Link == [connected : BOOLEAN, reconnecting : BOOLEAN, current : BOOLEAN,
         open : Nat, dials : Nat, closing : Nat]
Unlinked == [connected |-> FALSE, reconnecting |-> FALSE, current |-> FALSE,
             open |-> 0, dials |-> 0, closing |-> 0]

Relink(f, x, l) == link' = [link EXCEPT ![f][x] = l]
Sockets(f, x) == link[f][x].open + link[f][x].dials + link[f][x].closing

\* Mutant: a lost connection is left as connected.
LostUnnoticed(l) == [l EXCEPT !.reconnecting = FALSE]

\* What every end of a connection and every failed dial does to the flags.
Lost(l) == [l EXCEPT !.connected = FALSE, !.reconnecting = FALSE]

\* A service takes itself for connected only while this.connection is open,
\* and for reconnecting only while it dials: whatever order the events of old
\* and new websockets come in, neither flag can keep checkConnection() from
\* dialling again after the last websocket has gone.
LinkHonest ==
    \A f \in Feeders, x \in Exchanges :
       /\ link[f][x].connected => link[f][x].current /\ link[f][x].open > 0
       /\ link[f][x].reconnecting => link[f][x].dials > 0

=============================================================================
