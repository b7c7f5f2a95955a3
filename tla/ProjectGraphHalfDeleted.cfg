CONSTANTS
    alice = alice
    bob = bob
    NoUser = NoUser
    NoProcess = NoProcess
    Users <- MCUsers
    Processes = {p1, p2}
    Requests <- PlainRequests
SPECIFICATION Spec
INVARIANT
    NoHalfDeletedProject
