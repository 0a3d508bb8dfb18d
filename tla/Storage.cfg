\* Three uploads and a delete of one key on a disk, with two crashes, power losses or
\* errors; four calls on one chunk of a remote node and a store of one too large, with
\* a failure; two chunks on a drive with three mishaps.
CONSTANTS
    p1 = p1  p2 = p2  p3 = p3  d1 = d1  k1 = k1  Nothing = Nothing
    Keys = {k1}
    Puts = {p1, p2, p3}
    Deletes = {d1}
    KeyOf <- OneKey
    MaxFaults = 2
    s1 = s1  s2 = s2  s3 = s3  g1 = g1  x1 = x1
    c1 = c1  c2 = c2  big = big
    Calls = {s1, s2, s3, g1, x1}
    Chunks = {c1, big}
    OpOf <- OneOfEach
    ChunkOf <- OneRemoteChunk
    Oversize = {big}
    MaxFailures = 1
    ChunkIds = {c1, c2}
    MaxUploads = 2
    MaxMishaps = 3
SPECIFICATION StorageSpec
INVARIANTS FilesWhole MetadataDurable NoDangling AckedIsKept CacheIsDrive
PROPERTY ImplementsChunkStore
SYMMETRY Uploads
CHECK_DEADLOCK FALSE
