SPECIFICATION Spec
CONSTANTS
    Null = Null
    Everything <- MCEverything
    Schemas <- MCSchemas
    TablesOf <- MCTables
    RequestsOf <- MCRequests
INVARIANTS
    RelationsKept
    NoInternalError
    EveryNodeOnce
PROPERTIES
    DocumentImplemented
