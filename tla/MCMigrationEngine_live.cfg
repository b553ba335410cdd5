\* Two engines that apply, roll back and reset; statements fail, no engine stops.
CONSTANTS
    a = a  b = b  e1 = e1  e2 = e2  save = save  watch = watch
    Engines = {e1, e2}
    Models = {a}
    Names = {save}
    WatchNames = {}
    Commands = {"apply", "unapply", "reset"}
    Faults = {"statement"}
    MaxRevision = 1
SPECIFICATION FairSpec
PROPERTIES
    EveryMigrationSettles
    EveryCommandReturns
