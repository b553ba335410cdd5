\* Two engines roll back the same migration.
CONSTANTS
    a = a  b = b  e1 = e1  e2 = e2  save = save  watch = watch
    Engines = {e1, e2}
    Models = {a, b}
    Names = {save}
    WatchNames = {}
    Commands = {"apply", "unapply"}
    Faults = {}
    MaxRevision = 1
SPECIFICATION Spec
SYMMETRY Permuted
PROPERTIES
    StatusMovesForward
