\* Every hazard: jobs outlive the semaphore, handlers overlap, jobs run twice.
SPECIFICATION Spec
CONSTANTS
    btc = btc
    None = None
    Containers = {c1}
    Slots = {1, 2}
    Symbols = {btc}
    Ids = {r1, r2}
    Virtual = {}
    SymbolOf <- OneSymbol
    MaximumOpenedSymbols = 1
    Hazards = {"slow", "lostReply", "redisFail", "restart", "stall", "reprice"}
SYMMETRY Exchangeable
INVARIANTS OpenedWasBought BoughtOnce
PROPERTY LifeRefined
