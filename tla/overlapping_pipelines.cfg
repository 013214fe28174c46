SPECIFICATION Spec
CONSTANTS
    m1 = m1
    Meetings = {m1}
    MaxAttempts = 2
    Commands = {"transcribe", "rediarize"}
    MaxCommands = 2
    MaxFaults = 0
    MaxRecordings = 0
    MaxCrashes = 0
INVARIANTS NoOldTranscript
