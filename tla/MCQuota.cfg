SPECIFICATION Spec
CONSTANTS
    Writers = {w1, w2}
    r1 = r1
    r2 = r2
    p1 = p1
    p2 = p2
    p3 = p3
    digest = digest
    l1 = l1
    l2 = l2
    Layers <- MCLayers
    DigestSize <- MCDigestSize
    Repos <- MCRepos
    Paths = {p1, digest, l1, l2}
    RepoOf <- MCRepoOf
    RepoQuota <- MCRepoQuota
    MaxSize = 2
    StoreQuota = None
    MaxId = 3
    None = None
    MaxUsed = 4
    MaxDrift = 1
CONSTRAINT Worthwhile
SYMMETRY Symmetry
INVARIANTS
    RepoQuotaHolds
    CountedOnce
CHECK_DEADLOCK FALSE
