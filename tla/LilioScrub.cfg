\* Passes of every kind beside an upload and an overwrite, with one fault.
CONSTANTS
    k1 = k1  n1 = n1  n2 = n2  n3 = n3  p1 = p1  p2 = p2  d1 = d1
    NoObject = NoObject
    Keys = {k1}
    Nodes = {n1, n2}
    Puts = {p1, p2}
    Deletes = {}
    KeyOf <- OneKey
    Placement <- OneChunk
    W = 2
    GlobalRevisions = FALSE
    Modes <- AllModes
    NoDeadline = {}
    FaultKinds = {"store", "late", "erase", "corrupt", "lose", "unreachable", "crash", "hangup", "metaRead", "metaList"}
    MaxFaults = 1
SPECIFICATION FairScrubSpec
INVARIANTS CommittedDurable OrphansAreGarbage NoFalseAlarm
PROPERTY Replenished
CHECK_DEADLOCK FALSE
