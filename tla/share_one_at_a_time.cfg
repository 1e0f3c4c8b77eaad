SPECIFICATION Spec
CONSTANTS
    Update = {u1}
    Entity = {Ann, Bob, Public}
    PublicUser = Public
    Public = Public
    u1 = u1
    Ann = Ann
    Bob = Bob
    PageSize = 2
    MaxRead = 3
    Serial = TRUE
    Faults = TRUE
INVARIANT OneRole
PROPERTIES AnsweredAsAsked KeptRoleStays AtomicAccess
