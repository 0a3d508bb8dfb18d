\* Two uploads and two deletes of one key, with one fault: what the callers see.
CONSTANTS
    k1 = k1  n1 = n1  n2 = n2  n3 = n3  p1 = p1  p2 = p2  p3 = p3  d1 = d1  d2 = d2
    NoObject = NoObject
    Keys = {k1}
    Nodes = {n1, n2}
    Puts = {p1, p2}
    Deletes = {d1, d2}
    KeyOf <- OneKey
    Placement <- OneChunk
    W = 2
    GlobalRevisions = TRUE
    NoDeadline = {n2}
    FaultKinds = {"metaRead", "metaWrite", "metaLostAck", "metaLate", "offline", "body",
                  "store", "lostAck", "late", "erase", "corrupt", "lose", "crash"}
    MaxFaults = 1
SPECIFICATION FairSpec
PROPERTY NoLostUpdate ImplementsRegister RequestsFinish
CHECK_DEADLOCK FALSE
