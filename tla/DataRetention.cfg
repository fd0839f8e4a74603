SPECIFICATION Spec
CONSTANTS
    k1 = k1
    p1 = p1
    q1 = q1
    q2 = q2
    i1 = i1
    s1 = s1
    s2 = s2
    Keys = {k1}
    Carrying = {k1}
    Appenders = {p1}
    Purgers = {q1, q2}
    RequestIds = {i1}
    Sizes = {1, 2}
    Sessions = {s1, s2}
    MaxVersion = 2
SYMMETRY
    Interchangeable
INVARIANTS
    EmittedOnce
    RetryIsAnswered
    EvidenceIsKept
    RevisedOnce
    TombstonedIsGone
    GoneLeavesTombstone
    OneTombstone
PROPERTIES
    PendingIsKept
    RemovalIsReceipted
