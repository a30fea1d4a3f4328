CONSTANTS
    u1 = u1
    Users = {u1}
    Names = {n1}
    Bindings = {b1, b2}
    Admins = {a1, a2}
    None = None
    Calls <- MCCalls
SPECIFICATION MCFairSpec
INVARIANTS
    AclUsersKnown
    PublicHasNoUsers
PROPERTIES
    CallsReturn
    ImplementsTable
