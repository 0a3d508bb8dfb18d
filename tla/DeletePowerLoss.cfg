\* One upload, one delete and one fault.
CONSTANTS
    p1 = p1  p2 = p2  p3 = p3  d1 = d1  k1 = k1  Nothing = Nothing
    Keys = {k1}
    Puts = {p1}
    Deletes = {d1}
    KeyOf <- OneKey
    MaxFaults = 1
SPECIFICATION Spec
INVARIANT DeleteNeverDangles
CHECK_DEADLOCK FALSE
