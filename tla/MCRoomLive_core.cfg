CONSTANTS
    Marta = Marta
    Gus = Gus
    Hugo = Hugo
    NoOne = NoOne
    Identity = {Marta, Gus, Hugo}
    Tab = {1}
    Anonymous = {Gus}
    Arrived <- MasterAndGuest
    Commands = {"startLive", "endLive", "adminEnd", "handOver", "exit", "kick", "leaveRoom", "suspend", "close", "adminClose", "takeOver", "sweep", "resync", "crash", "shutdown", "databaseAway"}
    Grace = 1
    Timeout = 2
    MaxEvents = 4
SPECIFICATION FairSpec
INVARIANTS MemoryAgrees AwayIsTimed NoneInsideWrongly
PROPERTIES LiveEnds NeverUndone
CHECK_DEADLOCK FALSE
