\* Two engines apply migrations to one database.
CONSTANTS
    a = a  b = b  e1 = e1  e2 = e2  save = save  watch = watch
    Engines = {e1, e2}
    Models = {a, b}
    Names = {save}
    WatchNames = {}
    Commands = {"apply"}
    Faults = {"crash", "statement"}
    MaxRevision = 2
SPECIFICATION Spec
SYMMETRY Permuted
INVARIANTS
    OneDriver
PROPERTIES
    StatusMovesForward
