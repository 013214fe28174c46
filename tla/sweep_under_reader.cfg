SPECIFICATION Spec
CONSTANTS
    Layouts <- MCLayouts
    Events = {"rediarize", "sweep"}
    MaxEvents = 2
    MaxFaults = 0
    MaxCrashes = 0
INVARIANTS SweepSparesReaders
CHECK_DEADLOCK FALSE
