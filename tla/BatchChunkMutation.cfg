CONSTANTS
    place = place
    remove = remove
    r = r
    Chunks = {c1, c2}
    Contents = {"empty", "filled"}
    Base = "empty"
    NoRow = NoRow
    Edits = {place, remove}
    Effect <- MCEffect
    Refs = {r}
    Adds <- MCAdds
    Drops <- MCDrops
    Objects = {o1, o2, o3, o4}
    Free = Free
    NoObject = NoObject
    NotLoaded = NotLoaded
    MaxRevision = 4
SPECIFICATION Spec
INVARIANTS
    NoRefOverlooked
PROPERTIES
    ChildrenBuildOnEachOther
    EventsDescribeRows
