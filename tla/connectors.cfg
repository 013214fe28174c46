CONSTANTS
    here = here
    there = there
    look = look
    find = find
    edit = edit
    Nothing = Nothing
    Places = {here, there}
    Definitions = {look, find, edit}
    Reads = {look, find}
    MaxCalls = 2
    Start = here
    Served <- MCServed
    MaxEvents = 2
SPECIFICATION Spec
CHECK_DEADLOCK FALSE
INVARIANT TypeOK
INVARIANT NeverAboveWord
PROPERTY OnlyReviewedRuns
PROPERTY AutomaticAsGranted
PROPERTY UserCallsConfirmed
PROPERTY NoCallAfterResult
PROPERTY CallsEnd
