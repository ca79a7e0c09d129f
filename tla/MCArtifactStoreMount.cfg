SPECIFICATION FairSpec
CONSTANTS
    Workers = {w1, w2}
    Tags = {}
    Manifests = {}
    Layers = {l1}
    Mounts = {x1}
    None = None
    MaxClock = 3
INVARIANTS
    TypeOK
PROPERTIES
    RequestsEnd
