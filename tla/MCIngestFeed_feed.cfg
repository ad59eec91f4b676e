\* A branch and its merge; the default branch may be rewritten; failures, a restart
\* and no webhook that is sure to arrive.
SPECIFICATION FairFeedSpec
CONSTANTS
    c0 = c0
    c1 = c1
    c2 = c2
    Repos = {r}
    Listed = {r}
    Commits = {c0, c1, c2}
    ParentsOf <- MCMergeOf
    Root = c0
    Branches = {b}
    None = None
    ForcePush = TRUE
    MaxPushes = 2
    MaxCrashes = 1
INVARIANTS
    FeedInv
    OnlyMerged
PROPERTIES
    CatchesUp
