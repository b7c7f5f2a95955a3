CONSTANTS
    r1 = r1
    r2 = r2
    r3 = r3
    k1 = k1
    k2 = k2
    w1 = w1
    w2 = w2
    a = a
    b = b
    NoId = NoId
    NoRequest = NoRequest
    NoSnapshot = NoSnapshot
    NoReceipt = NoReceipt
    NoWrite = NoWrite
    Requests <- MCRequests
    CommandIds <- MCIds
    Worlds <- MCWorlds
    Lod2Worlds = {w2}
    Chunks <- MCChunks
    WorldOf <- MCWorldOf
    Cells = {a, b}
    Base <- MCBase
    Menu <- MCMenu
SPECIFICATION FairSpec
INVARIANTS
    UnbrokenRevisionChain
    HistoryReplaysToSnapshot
    OneExecutionPerCommandId
    AnswersAreDurable
PROPERTIES
    WorldLockExcludesWriters
    ImplementsAtomicCommands
    EveryRequestEnds
