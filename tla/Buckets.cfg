\* Two creations of a bucket, a removal, an unlock, two uploads and a walk, over
\* each metadata store, with one failing call and any number of restarts.
CONSTANTS
    c1 = c1  c2 = c2  d1 = d1  u1 = u1  w1 = w1  NoBucket = NoBucket
    Keys = {1, 2}
    Creates = {c1, c2}
    Encrypted = {c1}
    Deletes = {d1}
    Unlocks = {u1}
    Stores = {"local", "memory", "etcd"}
    MaxFaults = 1
    Walks = {w1}
    Limit = 1
    Windows <- Prefixes
SPECIFICATION WalkSpec
INVARIANTS ListingComplete PagesAscend NoGhosts EncryptedAsRecorded
CHECK_DEADLOCK FALSE
