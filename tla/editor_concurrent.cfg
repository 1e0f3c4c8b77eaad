SPECIFICATION Spec
CONSTANTS
    j1 = j1
    j2 = j2
    Job = {j1, j2}
    base = base
    Env = {base}
    DefaultEnv = base
    NoVersion = NoVersion
    Ops = {"apply", "undo", "chat", "other"}
    Faults = {"run", "refresh", "move", "look"}
    Patient = FALSE
    Earlier = 0
    MaxEdits = 3
SYMMETRY Symmetry
INVARIANT HeldVersions
INVARIANT AppliesToScreen
INVARIANT AppliedOnce
