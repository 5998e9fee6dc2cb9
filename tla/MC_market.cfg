\* Two processes feed one exchange; one of them ends or one connection is lost or refused.
SPECIFICATION Spec
CONSTANTS
    None = None
    Feeders = {f1, f2}
    Exchanges = {x1}
    SubConnected = {x1}
    Capacity = 1
    Alive = 1
    Lease = 1
    MaxSockets = 2
    MaxFaults = 1
    PacketSize = 4
    CandleLimit = 3
    BadSymbolFringe = 13
    Leftover = 2
INVARIANT LinkHonest
PROPERTY FeedComesBack
