SPECIFICATION FairSpec
CONSTANTS
    m1 = m1
    m2 = m2
    c1 = c1
    Meetings = {m1, m2}
    Threads = {c1}
    AskedKinds = {"AfterTranscription"}
    MaxPassAttempts = 2
    MaxAsks = 2
    MaxCrashes = 2
    MaxQuits = 0
    MaxWipes = 0
    MaxRecordings = 0
PROPERTIES RestartLosesNoPass
