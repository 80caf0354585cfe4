CONSTANTS
    Plans = {p1, p2}
    Entities = {e1}
    NoPlan = NoPlan
    Absent = Absent
    Tombstone = Tombstone
    MaxKnowledge = 3
    NoFile = NoFile
    Torn = Torn
SPECIFICATION ExampleSpec
INVARIANTS
    SavedStateIsMerged
    FirstProcessIsSnapshot
PROPERTY SavedCursorAdvances
CHECK_DEADLOCK FALSE
