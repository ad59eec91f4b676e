\* Two replicas that work apart; two bundles arrive late, twice, in any order or half merged.
SPECIFICATION SyncSpec
CONSTANTS
    n1 = n1
    n2 = n2
    n3 = n3
    t1 = t1
    t2 = t2
    Replicas = {A, B}
    Ids = {n1, n2, n3}
    Repos = {t1, t2}
    RepoOf <- MCRepoOf
    Minted <- MCMinted
    EdgeOrder <- MCEdgeOrder
    MaxTime = 1
    MaxExports = 2
    MaxWrites = 4
INVARIANTS
    
    ReplicasConverge
    MergeOnlyCorrects
SYMMETRY MCSymmetry
