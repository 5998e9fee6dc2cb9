\* Three traders, calls that take up to one tick, two crashes.
SPECIFICATION Spec
CONSTANTS
    None = None
    Traders = {t1, t2, t3}
    Lease = 3
    MinPause = 2
    MaxPause = 3
    Delay = 1
    CronTime = 1
    MaxCrashes = 2
SYMMETRY Exchangeable
INVARIANTS TypeOK CronAlone FailoverBound
PROPERTY HolderKept
