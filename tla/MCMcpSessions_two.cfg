\* Who may retire whose node: crashes between the writes of a call, shredding
\* between calls, and a signing key that belongs to no session.
SPECIFICATION SessionsSpec
CONSTANTS
    x = x
    y = y
    r1 = r1
    r2 = r2
    alice = alice
    bob = bob
    stray = stray
    Nobody = Nobody
    Ids = {x, y}
    Repos = {r1, r2}
    Keys = {alice, bob, stray}
    Principals = {alice, bob}
    OtherKinds = {}
    RepoOf <- MCRepoOf
    PlaneOf <- MCPlaneOf
    AuthorOf <- MCAuthorOf
    WriteGrant <- MCWriteGrant
    PutRows <- MCPutRows
    CallerPlanes = {"Asserted"}
    EncryptAtRest = TRUE
    MaxTime = 0
    MaxGen = 2
    Offered <- MCOffered
    Relayed <- MCRelayed
    MaxDiff = 2
INVARIANTS
    SessionsInv
PROPERTIES
    RetirementNeedsTwo
    OnlyAuthorsEdit
