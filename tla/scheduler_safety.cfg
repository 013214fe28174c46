SPECIFICATION Spec
CONSTANTS
    m1 = m1
    m2 = m2
    Meetings = {m1,m2}
    MaxAttempts = 2
    Commands = {"transcribe", "cancel", "delete", "rediarize"}
    MaxCommands = 2
    MaxFaults = 2
    MaxRecordings = 1
    MaxCrashes = 0
INVARIANTS TypeOK RunningHasOwner MarkerHasOwner RetriesBounded
PROPERTIES RefinesRequests
