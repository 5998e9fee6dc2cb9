---------------------------- MODULE MCTickerFeed ----------------------------
EXTENDS TickerFeed, MCCandles, TLC

SymmetricFeeders == Permutations(Feeders)
=============================================================================
