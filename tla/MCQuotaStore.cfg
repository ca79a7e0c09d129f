SPECIFICATION FairSpec
CONSTANTS
    Writers = {w1, w2}
    r1 = r1
    r2 = r2
    p1 = p1
    p2 = p2
    p3 = p3
    digest = digest
    l1 = l1
    l2 = l2
    Layers <- MCLayers
    DigestSize <- MCDigestSize
    Repos <- MCRepos
    Paths = {p1, p3}
    RepoOf <- MCRepoOf
    RepoQuota <- MCRepoQuota
    MaxSize = 2
    StoreQuota = 3
    MaxId = 2
    None = None
    MaxUsed = 3
    MaxDrift = 0
INVARIANTS
    TypeOK
    StoreQuotaHolds
PROPERTIES
    RegistrationsEnd
