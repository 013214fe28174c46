SPECIFICATION FairSpec
CONSTANTS
    Layouts <- MCLayouts
    Events = {"machine", "transcribe", "rediarize", "play", "sweep", "purge", "wipe", "edit"}
    MaxEvents = 2
    MaxFaults = 1
    MaxCrashes = 1
INVARIANTS TypeOK AudioKept ReadersKeepFiles PlayerKeepsFile HaltMeansIdle NothingComesBack
PROPERTIES OnlyCopiesGo EventuallyStored
CHECK_DEADLOCK FALSE
