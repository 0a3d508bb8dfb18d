\* Two administrators run three commands, one of them killed, and a hand edit, with
\* restarts of the server; three HTTP commands with a failure; three nodes join and
\* leave, then an upload of four bytes or none with a fault.
CONSTANTS
    a1 = a1  a2 = a2
    Admins = {a1, a2}
    AdminCommands <- SomeCommands
    Edits <- SomeEdits
    MaxKills = 1
    MaxEdits = 1
    MaxCommands = 3
    q1 = q1  q2 = q2  q3 = q3
    Clients = {q1, q2, q3}
    BucketNames = {"b"}
    ObjectKeys = {"k"}
    CommandLines <- SomeLines
    Size <- SomeSizes
    MaxTroubles = 1
    Nobody = Nobody
    n1 = n1  n2 = n2  n3 = n3
    Nodes = {n1, n2, n3}
    Positions = {0, 1, 2, 3, 4, 5, 6}
    VirtualNodes = 2
    Hash <- Collisions
    Configs <- SomeConfigs
    Lengths = {0, 4}
    MaxFaults = 1
SPECIFICATION FrontSpec
INVARIANTS
    AckedChangesStand EveryBackendOnce ToleratesOneLoss
    OkIsDone NotFoundIsAbsent ConflictIsRace WholeUnlessReplaced
    ReplicasDistinct PrimaryFirst WholeBody
PROPERTY OthersStay
CHECK_DEADLOCK FALSE
