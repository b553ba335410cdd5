SPECIFICATION MCSpec
CONSTANTS
    AtomOrder <- MCAtomOrder
    Env <- MCEnv
    Overrides <- MCOverrides
    Camel <- MCCamel
    Plural <- MCPlural
    MaxRounds = 2
INVARIANTS RelationsAreComplete NoPanic AcceptedIsLoaded EnginesAgree RenderingIsFaithful SchemaIsCreatable ConfigurationIsKept IntrospectionIsFaithful
