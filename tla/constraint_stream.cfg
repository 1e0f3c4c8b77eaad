SPECIFICATION Spec
CONSTANTS
    Resource = {r1, r2}
    Name = {n1, n2, n3}
    Property = {p1}
    Value = {v1, v2}
    MaxBase = 2
    MaxMade = 3
SYMMETRY Symmetry
INVARIANTS TypeOK OverridesSurvive
