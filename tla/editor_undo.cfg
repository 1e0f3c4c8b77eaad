SPECIFICATION Spec
CONSTANTS
    j1 = j1
    Job = {j1}
    base = base
    Env = {base}
    DefaultEnv = base
    NoVersion = NoVersion
    Ops = {"apply", "undo", "redo", "chat"}
    Faults = {}
    Patient = TRUE
    Earlier = 0
    MaxEdits = 5
PROPERTY UndoComesBack
