CONSTANTS
    n1 = n1
    f1 = f1
    unfiled = unfiled
    Meetings <- MCMeetings
    Notes = {n1}
    NoteOf <- MCNoteOf
    Folders = {f1}
    Unfiled = unfiled
    MaxNow = 1
    MaxTrouble = 3
SPECIFICATION Spec
CHECK_DEADLOCK FALSE
INVARIANT TypeOK
INVARIANT ManifestAtLeastAsLocal
INVARIANT LocalSurvivesLoss
INVARIANT MirrorsCurrent
INVARIANT TextSurvivesLoss
PROPERTY RefinesKept
PROPERTY HealAttachesAll
PROPERTY BackfillOnlyAdds
