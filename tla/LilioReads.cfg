\* A read of one key beside an upload and an overwrite, with two faults.
CONSTANTS
    k1 = k1  n1 = n1  n2 = n2  p1 = p1  p2 = p2  d1 = d1  g1 = g1  g2 = g2
    NoObject = NoObject
    Keys = {k1}
    Nodes = {n1, n2}
    Puts = {p1, p2}
    Deletes = {}
    Gets = {g1}
    KeyOf <- OneKey
    KeyRead <- OneKeyRead
    Placement <- TwoNodes
    W = 2
    GlobalRevisions = FALSE
    NoDeadline = {n2}
    FaultKinds = {"metaRead", "store", "late", "corrupt", "lose", "unreachable", "hangup", "crash"}
    MaxFaults = 2
SPECIFICATION FairReadSpec
INVARIANT ReadableWhileIntact
PROPERTY ReadsFinish
CHECK_DEADLOCK FALSE
