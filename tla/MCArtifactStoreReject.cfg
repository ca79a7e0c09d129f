SPECIFICATION Spec
CONSTANTS
    Workers = {w1}
    Tags = {t1}
    Manifests = {m1}
    Layers = {}
    Mounts = {}
    None = None
    MaxClock = 3
INVARIANTS
    RowsHaveBytes
