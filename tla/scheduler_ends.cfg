SPECIFICATION FairSpec
CONSTANTS
    m1 = m1
    Meetings = {m1}
    MaxAttempts = 2
    Commands = {"transcribe", "cancel", "delete"}
    MaxCommands = 2
    MaxFaults = 1
    MaxRecordings = 1
    MaxCrashes = 1
PROPERTIES QueuedJobsEnd DeletedUnderPassIsPurged DeletedUnderRunIsPurged
