---------------------------- MODULE MCCloseOrder ----------------------------
(* Small instances of CloseOrder for TLC, beside the rules that send its jobs. *)
EXTENDS CloseOrder, MCSignalRules, TLC

Exchangeable == Permutations(Ids) \union Permutations(Closers)

ExchangeableClosers == Permutations(Closers)
=============================================================================
