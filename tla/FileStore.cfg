SPECIFICATION Spec
CONSTANTS
    Proc = {p1, p2}
    zip = zip
    m1 = m1
    first = first
    second = second
    Path = {first, second}
    Limits = {1, 2}
    File = {zip, m1}
    Members <- TwoPaths
    Consumer = {c}
    Forcing = {FALSE, TRUE}
    MaxAborts = 1
    None = None
INVARIANTS
    ReferentialIntegrity
    CollectionsWhole
    NoOrphanBytes
PROPERTIES
    BytesUnderRows
    ReferencesProtect
