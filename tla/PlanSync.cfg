CONSTANTS
    Plans = {p1, p2}
    Entities = {e1, e2}
    NoPlan = NoPlan
    Absent = Absent
    Tombstone = Tombstone
    MaxKnowledge = 3
SPECIFICATION Polling
INVARIANT StoreIsSnapshot
PROPERTIES
    ReplicatesBySnapshots
    PollingConverges
CHECK_DEADLOCK FALSE
