\* Two processes that die anywhere, failing writes, a log cut or edited between runs.
SPECIFICATION AuditSpec
CONSTANTS
    Procs = {p1, p2}
    Entries = {e1, e2}
    Forged = Forged
    Faults = {"write", "head", "tamper"}
    MaxLog = 3
    Nobody = Nobody
INVARIANTS
    AuditInv
    AckedSurvive
    OpenAccepts
SYMMETRY MCSymmetry
CHECK_DEADLOCK FALSE
