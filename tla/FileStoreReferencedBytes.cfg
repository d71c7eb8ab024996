SPECIFICATION Spec
CONSTANTS
    Proc = {p1, p2}
    zip = zip
    m1 = m1
    first = first
    second = second
    Path = {}
    Limits = {1}
    File = {m1}
    Members <- NoArchive
    Consumer = {c}
    Forcing = {FALSE}
    MaxAborts = 0
    None = None
PROPERTIES
    ReferencedBytesStay
