\* The service on an empty storage; three commands, nothing fails.
CONSTANTS
    q1 = q1  q2 = q2  q3 = q3
    Clients = {q1, q2, q3}
    BucketNames = {"b"}
    ObjectKeys = {"k"}
    CommandLines <- SomeLines
    Size <- SomeSizes
    MaxTroubles = 0
    Nobody = Nobody
SPECIFICATION ServiceSpec
INVARIANT NeverTruncated
CHECK_DEADLOCK FALSE
