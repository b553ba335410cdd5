SPECIFICATION MCSpec
CONSTANTS
    AtomOrder <- MCAtomOrder
    Env <- MCEnv
    Camel <- MCCamel
    Plural <- MCPlural
    Clients = {c1, c2}
    MaxMigrations = 3
    MaxPending = 2
SYMMETRY Symmetry
CHECK_DEADLOCK FALSE
INVARIANTS
    InferredStepsReach
    ReinferringIsNeutral
    OthersAreKept
    HistoryReplays
