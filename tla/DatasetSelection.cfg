CONSTANTS
    first = first
    second = second
    r1 = r1
    r2 = r2
    p1 = p1
    Names = {first, second}
    Writers = {w}
    Files = 1
    Activators = {a}
    Processes = {p1}
    Readers = {r1, r2}
    MaxTick = 1
    NoBundle = NoBundle
    NoSelector = NoSelector
    NoEntry = NoEntry
    NoName = NoName
    SizeOf <- MCSizeOf
    ProcessOf <- MCProcessOf
SPECIFICATION Spec
INVARIANTS
    AnswerWasActive
PROPERTY
    SelectedAfterImport
