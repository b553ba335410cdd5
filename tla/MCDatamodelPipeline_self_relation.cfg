SPECIFICATION MCSpec
CONSTANTS
    AtomOrder <- MCAtomOrder
    Env <- MCEnv
    Overrides <- MCOverrides
    Camel <- MCCamel
    Plural <- MCPlural
    MaxRounds = 2
INVARIANT SingularFieldIsTheColumn
