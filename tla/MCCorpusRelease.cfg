\* Two builds, one fault, a copy that goes on while an import runs.
SPECIFICATION CorpusSpec
CONSTANTS
    td = td
    ts = ts
    d1 = d1
    d2 = d2
    k1 = k1
    r1 = r1
    sd = sd
    ss = ss
    v1 = v1
    v2 = v2
    wa = wa
    wb = wb
    TenantOrder <- MCTenantOrder
    Sources = {sd, ss}
    SourceSpec <- MCSourceSpec
    Files = {d1, d2, k1, r1}
    SourceOf <- MCSourceOf
    SkillOf <- MCSkillOf
    Versions = {v1, v2}
    Chunks <- MCChunks
    IdOrder <- MCIdOrder
    Hosts <- MCHosts
    Weights = {wa, wb}
    AppWeights = wa
    Batch = 2
    MaxBuilds = 2
    MaxFaults = 1
    NoFile = NoFile
    Garbage = Garbage
INVARIANTS
    CorpusInv
    ReleaseSound
PROPERTIES
    InstallsWhole
    InstallCompletes
CHECK_DEADLOCK FALSE
