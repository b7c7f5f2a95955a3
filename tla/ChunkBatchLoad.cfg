CONSTANTS
    r1 = r1
    r2 = r2
    w1 = w1
    w2 = w2
    NoOne = NoOne
    NoSnapshot = NoSnapshot
    Readers <- MCReaders
    Writers <- MCWriters
    Chunks = {1, 2}
    Batches <- MCBatches
    Edits <- MCEdits
SPECIFICATION FairSpec
INVARIANTS
    TransactionsInv
    AnswerShowsOneState
PROPERTIES
    AllOrNothingStored
    EveryRequestEnds
