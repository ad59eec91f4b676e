\* A merged branch and what ADR-09 says of promotion.
SPECIFICATION FeedSpec
CONSTANTS
    c0 = c0
    c1 = c1
    c2 = c2
    Repos = {r}
    Listed = {r}
    Commits = {c0, c1, c2}
    ParentsOf <- MCParentsOf
    Root = c0
    Branches = {b}
    None = None
    ForcePush = FALSE
    MaxPushes = 3
    MaxCrashes = 0
INVARIANTS
    MergedIsCanonical
