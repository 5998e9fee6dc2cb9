\* Two handlers close orders by name, beside everything else that writes orders.
SPECIFICATION Spec
CONSTANTS
    None = None
    Ids = {r1, v1}
    Virtual = {v1}
    Closers = {c1, c2}
    Kinds = {"some", "virtual"}
    Lot = 2
    BuyFee = 0
    MinLot = 1
    Withdrawals = {1}
    Hazards = {"lostReply", "redisFail", "overlap", "reprice"}
SYMMETRY ExchangeableClosers
INVARIANT ClosedWasSold
CHECK_DEADLOCK FALSE
