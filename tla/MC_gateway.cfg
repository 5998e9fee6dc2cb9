\* Two requests of the API and one call of the exchange at a time, beside both crons.
SPECIFICATION FairSpec
CONSTANTS
    None = None
    Requests = {r1, r2}
    Calls = {c1}
    Others <- Writing
    k1 = k1
    k2 = k2
    Keys = {k1, k2}
    UserBodies <- SentBodies
    Proxies = {p1}
    Symbols = {s1}
    MaxEdits = 2
INVARIANTS TypeOK VerdictIsEarned
PROPERTIES ConnectionsFollow VerdictSettles
