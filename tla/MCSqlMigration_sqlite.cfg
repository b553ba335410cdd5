CONSTANTS
    a = a
    b = b
    None = None
    Family = "sqlite"
    Models = {a, b}
    Projects <- SqliteProjects
    ModelOrder <- MCModelOrder
    DescriberOrder <- MCDescriberOrder
    Faults = {"statement"}
    MaxMigrations = 2
SPECIFICATION Spec
INVARIANTS
    SchemaReached
    RollbackRestores
    NoSilentLoss
    CorrectionsApplicable
    ForeignKeysEnforced
