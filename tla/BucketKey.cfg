\* Two creations with a password and an upload; nothing fails.
CONSTANTS
    c1 = c1  c2 = c2  d1 = d1  u1 = u1  w1 = w1  NoBucket = NoBucket
    Keys = {1}
    Creates = {c1, c2}
    Encrypted = {c1, c2}
    Deletes = {}
    Unlocks = {}
    Stores = {"local", "etcd"}
    MaxFaults = 0
    Walks = {}
    Limit = 1
    Windows <- Prefixes
SPECIFICATION WalkSpec
INVARIANT PerBucketKey
CHECK_DEADLOCK FALSE
