CONSTANTS
    Marta = Marta
    Gus = Gus
    Hugo = Hugo
    NoOne = NoOne
    Identity = {Marta, Gus}
    Tab = {1}
    Anonymous = {}
    Arrived <- MasterAndGuest
    Commands = {"startLive"}
    Grace = 1
    Timeout = 2
    MaxEvents = 2
SPECIFICATION FairSpec
PROPERTY NeverStranded
CHECK_DEADLOCK FALSE
