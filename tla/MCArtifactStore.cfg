SPECIFICATION Spec
CONSTANTS
    Workers = {w1, w2}
    Tags = {t1}
    Manifests = {m1}
    Layers = {}
    Mounts = {}
    None = None
    MaxClock = 3
SYMMETRY WorkerSymmetry
INVARIANTS
    UncontestedRowsHaveBytes
    NoSilentOrphan
PROPERTIES
    RemovalSparesReplacement
