----------------------------- MODULE MCAccount -----------------------------
(* Small instances of Account for TLC. *)
EXTENDS Account, TLC

CONSTANTS trial, year

\* The trial costs nothing; the other product costs what one payment brings.
Costs == (trial :> 0) @@ (year :> 10)

Values == (trial :> 1) @@ (year :> 1)

\* A correction may take what a payment brings, or ask for a debt of as much.
Amounts == {10, -10}

Exchangeable == Permutations(Requests)
=============================================================================
