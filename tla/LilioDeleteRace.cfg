\* An overwrite commits while a delete is between its read and its commit.
CONSTANTS
    k1 = k1  n1 = n1  n2 = n2  n3 = n3  p1 = p1  p2 = p2  p3 = p3  d1 = d1  d2 = d2
    NoObject = NoObject
    Keys = {k1}
    Nodes = {n1, n2, n3}
    Puts = {p1, p2}
    Deletes = {d1}
    KeyOf <- OneKey
    Placement <- Mixed
    W = 2
    GlobalRevisions = FALSE
    NoDeadline = {}
    FaultKinds = {}
    MaxFaults = 0
SPECIFICATION Spec
INVARIANT NoLeftovers
CHECK_DEADLOCK FALSE
