SPECIFICATION Spec
CONSTANTS
    Null = Null
    Everything <- MCEverything
    Schemas <- UnlinkedSchemas
    TablesOf <- MCTables
    RequestsOf <- UnlinkedRequests
INVARIANTS
    CommittedEffect
