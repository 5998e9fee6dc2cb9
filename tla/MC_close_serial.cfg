\* One CLOSE handler at a time; the exchange refuses now and then and keeps a fee.
SPECIFICATION FairSpec
CONSTANTS
    None = None
    Ids = {r1, r2, r3}
    Virtual = {}
    Closers = {c1}
    Kinds = {"all", "some"}
    Lot = 1000
    BuyFee = 2
    MinLot = 10
    Withdrawals = {}
    Hazards = {"refuse", "noBalance"}
INVARIANTS TypeOK WalletCovers
PROPERTY OpenedGetsClosed
CHECK_DEADLOCK FALSE
