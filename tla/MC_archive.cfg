\* One order, virtual (it can do all a real one can); two feeders; a feeder dies once, or
\* the two senders of collect jobs meet once.
SPECIFICATION FairSpec
CONSTANTS
    None = None
    Ids = {v1}
    Virtual = {v1}
    Writers = {w1}
    Collectors = {c1, c2}
    MaxMishaps = 1
    Hazards = {"crash"}
CONSTRAINT SomeOrderApart
INVARIANTS TypeOK OneCollection GoneIsFinal
PROPERTIES ArchiveKeepsFinal FinishedIsCollected
