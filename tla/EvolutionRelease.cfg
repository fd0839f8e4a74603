SPECIFICATION Spec
CONSTANTS
    p1 = p1
    r1 = r1
    r2 = r2
    Proposals = {p1}
    Versions = {1, 2}
    Seed = 1
    Baseline <- OneBaseline
    Candidate <- OneCandidate
    Requests = {r1, r2}
    Asked = {"shadow", "canary", "promote", "rollback"}
    Commands = {1, 2, 3}
    Edited = {"rejected"}
    MaxRollbacks = 1
SYMMETRY Interchangeable
INVARIANTS TypeOK  AppliedOnce  
CHECK_DEADLOCK FALSE
