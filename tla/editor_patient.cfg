SPECIFICATION FairSpec
CONSTANTS
    j1 = j1
    Job = {j1}
    base = base
    prod = prod
    Env = {base, prod}
    DefaultEnv = base
    NoVersion = NoVersion
    Ops = {"apply", "undo", "redo", "switch"}
    Faults = {"run"}
    Patient = TRUE
    Earlier = 2
    MaxEdits = 5
INVARIANT ScreenIsCurrent
INVARIANT UndoStaysInEnvironment
PROPERTY AppliesToCurrent
PROPERTY Unlocks
