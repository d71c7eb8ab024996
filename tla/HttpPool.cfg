SPECIFICATION Spec
CONSTANTS
    Thread = {t1, t2, t3}
    Conn = {c1, c2, c3}
    Max = 2
    Attempts = 2
    MaxFaults = 2
    None = None
INVARIANTS
    Exclusive
    WithinMax
PROPERTIES
    RequestsReturn
