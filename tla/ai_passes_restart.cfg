SPECIFICATION FairSpec
CONSTANTS
    m1 = m1
    m2 = m2
    c1 = c1
    Meetings = {m1, m2}
    Threads = {c1}
    AskedKinds = {"AfterTranscription"}
    MaxPassAttempts = 2
    MaxAsks = 2
    MaxCrashes = 3
    MaxQuits = 1
    MaxWipes = 0
    MaxRecordings = 1
INVARIANTS TypeOK RowMatchesQueue CrashLoopEnds
PROPERTIES SavedQueueDrains
