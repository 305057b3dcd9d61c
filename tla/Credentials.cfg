\* Two handlers of one owner at a time, four transactions, up to two key rows.
SPECIFICATION Spec
CONSTANTS
    Sessions = {h1, h2}
    KeyIds = {1, 2}
    LegacyHash = 1
    MaxCommits = 4
SYMMETRY Symmetric
CHECK_DEADLOCK FALSE
INVARIANTS
    CredentialsTypeOK
    AnsweredSecretWorks
