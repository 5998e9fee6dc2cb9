--------------------------- MODULE MCOrderArchive ---------------------------
(* Small instances of OrderArchive for TLC. *)
EXTENDS OrderArchive

\* Every property excepts an order two collectors had in their snapshots at once: once it
\* is the only one there is, there is nothing left to look for.
SomeOrderApart == shared # Ids
=============================================================================
