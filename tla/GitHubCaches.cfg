SPECIFICATION CacheSpec
CONSTANTS
    Thread = {t1, t2}
    r1 = r1
    Repo = {r1}
    Installation = {i1, i2}
    PageOf <- SecondPage
    Pages = 2
    Life = 3
    Margin = 1
    Wait = 2
    Ttl = 2
    None = None
INVARIANTS
    NoNeedlessMint
    NeverExpired
    MetadataFresh
PROPERTIES
    ListRepairs
