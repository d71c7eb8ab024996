SPECIFICATION Spec
CONSTANTS
    Proc = {p1, p2}
    up1 = up1
    up2 = up2
    Upload = {up1, up2}
    Byte = {1, 2, 3, 4}
    Content <- TwoContents
    Checked = {up2}
    Honest = {up1}
    MaxChunk = 2
    MaxAborts = 3
    None = None
INVARIANTS
    OpenResumable
    NoSplice
    ContentsValid
    NoOrphanPart
PROPERTIES
    KeepsPromise
CHECK_DEADLOCK FALSE
