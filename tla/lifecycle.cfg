SPECIFICATION Spec
CONSTANTS
    Slot = {s1, s2}
    User = {u1}
    Arch = {a1, a2}
    Name = {n1}
    MaxHash = 3
    None = None
SYMMETRY Symmetry
INVARIANTS RolesAgree StatesKept DeletedIsGone
PROPERTY CloneIsSource
CHECK_DEADLOCK FALSE
