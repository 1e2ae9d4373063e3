\* One session of two chunks, the same file queued directly, two requests at a time.
CONSTANTS
    None = None
    s1 = s1
    o1 = o1
    o2 = o2
    i1 = i1
    i2 = i2
    r1 = r1
    r2 = r2
    Sessions = {s1}
    Org = o1
    Orgs = {o1, o2}
    Chunks = {i1, i2}
    Requests = {r1, r2}
    MaxItems = 2
    MaxFaults = 1
SYMMETRY Symmetry
SPECIFICATION Spec
INVARIANTS
    
    
    
    BytesAreKept
CHECK_DEADLOCK FALSE
