\* One trader, jobs shorter than the semaphore: every hazard except slow.
SPECIFICATION FairSpec
CONSTANTS
    btc = btc
    None = None
    Containers = {c1}
    Slots = {1, 2}
    Symbols = {btc}
    Ids = {r1, r2, v1}
    Virtual = {v1}
    SymbolOf <- OneSymbol
    MaximumOpenedSymbols = 1
    Hazards = {"lostReply", "redisFail", "restart"}
INVARIANTS TypeOK OneOpenerPerSymbol
PROPERTIES PendingResolved SemaphoreFreed
