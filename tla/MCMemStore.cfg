\* A sealed tenant with an asserted and a derived node, shredded and re-minted.
SPECIFICATION Spec
CONSTANTS
    a = a
    b = b
    r1 = r1
    k1 = k1
    Ids = {a, b}
    Repos = {r1}
    Keys = {k1}
    OtherKinds = {}
    RepoOf <- MCRepoOf
    PlaneOf <- MCPlaneOf
    AuthorOf <- MCAuthorOf
    PutRows <- MCPutRows
    CallerPlanes = {"Asserted", "Derived"}
    EncryptAtRest = TRUE
    MaxTime = 1
    MaxGen = 2
INVARIANTS
    TypeOK
    SupersessionAcyclic
PROPERTIES
    PlanesSeparate
    SupersessionRetires
    NeverDemoted
    ForgottenStaysForgotten
