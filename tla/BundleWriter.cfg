CONSTANTS
    Writers = {a, b, c}
    Names = {m, n}
    Files = 2
    NoBundle = NoBundle
    NoWriter = NoWriter
    Orphan = Orphan
SPECIFICATION FairSpec
INVARIANT
    WriterInv
PROPERTIES
    BundlesAppearWhole
    OrphanBlocksName
    LockIsReleased
