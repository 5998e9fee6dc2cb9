------------------------ MODULE MCOrderManagerLease ------------------------
(* Small instances of OrderManagerLease for TLC. *)
EXTENDS OrderManagerLease, TLC

Exchangeable == Permutations(Traders)
=============================================================================
