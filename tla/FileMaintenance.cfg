SPECIFICATION MSpec
CONSTANTS
    Janitor = j
    Proc = {j, p1}
    File = {m, n}
    Path = {}
    Limits = {1, 2}
    Members <- NoArchive
    Consumer = {c}
    Forcing = {FALSE, TRUE}
    MaxAborts = 2
    MaxFailures = 1
    None = None
PROPERTIES
    OperationsReturn
    StaleFilesGo
