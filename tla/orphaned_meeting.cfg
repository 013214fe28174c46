SPECIFICATION FairSpec
CONSTANTS
    m1 = m1
    Meetings = {m1}
    MaxAttempts = 2
    Commands = {"delete", "rediarize"}
    MaxCommands = 2
    MaxFaults = 1
    MaxRecordings = 0
    MaxCrashes = 0
PROPERTIES OrphansArePurged
