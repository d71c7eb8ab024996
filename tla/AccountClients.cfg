SPECIFICATION Spec
CONSTANTS
    Account = {a1, a2}
    Alias = {x, y}
    Thread = {t1, t2}
    Admin = {m1, m2}
    MaxClock = 3
    MaxCommits = 3
    None = None
SYMMETRY Symmetry
INVARIANTS
    SettingsOfTheCall
    CredentialOfTheCall

