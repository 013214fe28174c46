SPECIFICATION Spec
CONSTANTS
    m1 = m1
    m2 = m2
    c1 = c1
    c2 = c2
    Meetings = {m1, m2}
    Threads = {c1, c2}
    AskedKinds = {"ExtractOnly", "AfterTranscription"}
    MaxPassAttempts = 2
    MaxAsks = 3
    MaxCrashes = 0
    MaxQuits = 1
    MaxWipes = 1
    MaxRecordings = 0
SYMMETRY Interchangeable
INVARIANTS QueueShape RowMatchesQueue
PROPERTIES PassesLeaveOnlyWhenDone
