\* Three uploads race for one key, with up to two faults of any kind.
CONSTANTS
    k1 = k1  n1 = n1  n2 = n2  n3 = n3  p1 = p1  p2 = p2  p3 = p3  d1 = d1  d2 = d2
    NoObject = NoObject
    Keys = {k1}
    Nodes = {n1, n2, n3}
    Puts = {p1, p2, p3}
    Deletes = {}
    KeyOf <- OneKey
    Placement <- Mixed
    W = 2
    GlobalRevisions = TRUE
    NoDeadline = {}
    FaultKinds = {"metaRead", "metaWrite", "metaLostAck", "metaLate", "offline", "body",
                  "store", "lostAck", "late", "erase", "corrupt", "lose", "crash"}
    MaxFaults = 2
SPECIFICATION Spec
INVARIANTS TypeOK ReclaimsOnlyDead CommittedDurable NoLeftovers
CHECK_DEADLOCK FALSE
