---------------------------- MODULE MCOpenOrder ----------------------------
(* Small instances of OpenOrder for TLC. *)
EXTENDS OpenOrder, TLC

CONSTANT btc

\* Every order is of one symbol: all the contention is on one semaphore.
OneSymbol == [o \in Ids |-> btc]

\* Orders of one symbol and one kind differ in nothing.
Exchangeable == Permutations(Ids)
=============================================================================
