SPECIFICATION Spec
CONSTANTS
    Caller = {p1, p2}
    f1 = f1
    f2 = f2
    old = old
    new = new
    stable = stable
    topic = topic
    Branch = {main, stable, dev, topic}
    Reserved = {main, stable}
    Protected = {main}
    Default = main
    File = {f1, f2}
    Content = {old, new}
    Heads <- MainAndDev
    MaxLen = 3
    MaxWork = 4
    None = None
SYMMETRY Alike
CHECK_DEADLOCK FALSE
INVARIANTS
    Window
PROPERTIES
    NothingDropped
    OnlyItsFile
    ContentKept
    ReservedSafe
