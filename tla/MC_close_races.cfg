\* Two CLOSE handlers of the same symbol, while orders are opened; the wallet is a fee short,
\* exchange and Redis may fail.
SPECIFICATION Spec
CONSTANTS
    None = None
    Ids = {r1, r2}
    Virtual = {}
    Closers = {c1, c2}
    Kinds = {"all", "some"}
    Lot = 1000
    BuyFee = 3
    MinLot = 10
    Withdrawals = {}
    Hazards = {"lostReply", "refuse", "redisFail", "restart", "noBalance", "overlap"}
SYMMETRY Exchangeable
INVARIANTS ClosedWasSold SoldOnce
PROPERTY ClosedForGood
CHECK_DEADLOCK FALSE
