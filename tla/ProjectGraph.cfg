CONSTANTS
    alice = alice
    bob = bob
    NoUser = NoUser
    NoProcess = NoProcess
    Users <- MCUsers
    Processes = {p1, p2}
    Requests <- AllRequests
SPECIFICATION FairSpec
INVARIANTS
    GraphInv
    OneRetryIsEnough
PROPERTIES
    EnsureAnswersWhole
    ImplementsProjectRecord
    EveryRequestEnds
