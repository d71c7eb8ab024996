SPECIFICATION LogSpec
CONSTANTS
    Event = {e1, e2}
    Past = {r1}
    Cleaner = {loop}
    Loop = loop
    Editor = {a1}
    Choice <- Forms
    Initial <- AllOn
    MaxPending = 1
    Floor = 1
    Nothing = Nothing
INVARIANTS
    LogBounded
PROPERTIES
    RecordsAllowed
    RetentionEnforced
    RoomReturns
