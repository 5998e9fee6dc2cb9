\* Every hazard, and a virtual order beside the real one.
SPECIFICATION Spec
CONSTANTS
    btc = btc
    None = None
    Containers = {c1}
    Slots = {1, 2}
    Symbols = {btc}
    Ids = {r1, v1}
    Virtual = {v1}
    SymbolOf <- OneSymbol
    MaximumOpenedSymbols = 1
    Hazards = {"slow", "lostReply", "redisFail", "restart", "stall", "reprice"}
INVARIANT PositionRecorded
