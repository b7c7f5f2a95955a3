CONSTANTS
    house = house
    wall = wall
    soil = soil
    brick = brick
    glass = glass
    Air = Air
    NoShape = NoShape
    NoRecord = NoRecord
    Nobody = Nobody
    Objects <- MCObjects
    Generated = {house}
    Chunks = {"west", "east"}
    Cells <- MCCells
    ChunkOf <- MCChunkOf
    Blocks = {soil, brick, glass}
    Terrain = {soil}
    Breakable = {soil, brick}
    Ground <- MCGround
    Menu <- MCMenu
    Edits <- MCEdits
SPECIFICATION Spec
INVARIANTS
    OwnershipAgrees
    OwnershipInv
PROPERTIES
    LeavingTakesOnlyOwnWrites
    LeavingLeavesNothing
    ImplementsLastWriterWins
