SPECIFICATION Spec
CONSTANTS
    Update = {u1, u2}
    Entity = {Ann, Public}
    PublicUser = Public
    Public = Public
    u1 = u1
    u2 = u2
    Ann = Ann
    PageSize = 2
    MaxRead = 5
    Serial = FALSE
    Faults = TRUE
INVARIANT PublicOnlyViews
PROPERTY OnlyNamedChange
