\* One engine, every command, every fault.
CONSTANTS
    a = a  b = b  e1 = e1  e2 = e2  save = save  watch = watch
    Engines = {e1}
    Models = {a, b}
    Names = {save, watch}
    WatchNames = {watch}
    Commands = {"apply", "unapply", "reset", "write"}
    Faults = {"crash", "statement"}
    MaxRevision = 2
SPECIFICATION Spec
SYMMETRY ModelPermutations
INVARIANTS
    TypeOK
    LedgerMatchesDatabase
    ProgressIsComplete
    InferThenApplyWhenSettled
PROPERTIES
    NoUnforcedLoss
    LifecycleImplemented
