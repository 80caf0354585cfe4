CONSTANTS
    Streams = {"hybrid", "categories"}
    e1 = e1
    e2 = e2
    Entities = {e1, e2}
    Groups = {1, 2}
    GroupOf <- OneGroup
    Starts <- OneEntity
    Absent = Absent
    Tombstone = Tombstone
    MaxKnowledge = 3
SPECIFICATION Polling
INVARIANT CursorSound
PROPERTIES
    CursorsAdvance
    StreamsConverge
CHECK_DEADLOCK FALSE
