SPECIFICATION Spec
CONSTANTS
    Caller = {p1}
    Sha = {s1, s2, s3}
    Branch = {main, dev}
    Reserved = {main}
    Check = {test, docker}
    Reviewer = {r1, r2}
    Page = 3
    MaxReviews = 3
    MaxEvents = 4
    None = None
SYMMETRY Alike
CHECK_DEADLOCK FALSE
INVARIANTS
    Justified
