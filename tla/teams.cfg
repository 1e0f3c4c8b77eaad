SPECIFICATION Spec
CONSTANTS
    Call = {c1, c2}
    User = {u1}
    Org = {o1, o2}
    Team = {t1, t2}
    Name = {n1, n2}
    None = None
SYMMETRY Symmetry
INVARIANTS StoresAgree UniqueNames MembersInOrg NoGhosts
