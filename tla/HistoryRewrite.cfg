SPECIFICATION Spec
CONSTANTS
    Tree = {t, u}
    Stores <- MCRepositories
    Limits = {3}
    MaxObjects = 4
SYMMETRY MCSymmetry
INVARIANTS
    CommitByCommit
    SameHistory
    OnlyOthersRewritten
    LimitExact
