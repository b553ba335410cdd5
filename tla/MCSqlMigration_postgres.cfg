CONSTANTS
    a = a
    b = b
    None = None
    Family = "postgres"
    Models = {a, b}
    Projects <- PostgresProjects
    ModelOrder <- MCModelOrder
    DescriberOrder <- MCDescriberOrder
    Faults = {"statement"}
    MaxMigrations = 2
SPECIFICATION Spec
INVARIANTS
    SchemaReachedButIndexes
    RollbackRestoresButIndexes
    NoSilentLossForSameIds
    CorrectionsApplicable
