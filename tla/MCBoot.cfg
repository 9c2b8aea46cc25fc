\* Three processes boot, serve, sweep, answer probes, stop and die.
SPECIFICATION BSpec
CONSTANTS
    Gateways = {"g"}
    Indexers = {"i1", "i2"}
    Release <- MCRelease
    Settings <- MCSettings
    Probed = {"g"}
    Deadline = 1
    Hold = 2
    TTL = 1
INVARIANTS
    MigratedOnceInOrder
    ReadyIsRecent
PROPERTIES
    SweepsNoLiveJob
    BootsAndStops
CHECK_DEADLOCK FALSE
