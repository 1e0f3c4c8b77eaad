SPECIFICATION LiveSpec
CONSTANTS
    Update = {u1, u2}
    Source = {n1, n2}
    Env = {default, prod}
    MaxVersion = 2
    None = None
INVARIANTS TargetsOfScreen UpdatingMeansWaiting
PROPERTY KnowsInTheEnd
