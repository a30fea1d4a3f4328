CONSTANTS
    u1 = u1
    n1 = n1
    b1 = b1
    Users = {u1}
    Names = {n1}
    Bindings = {b1, b2}
    Admins = {a1, a2}
    Conns = {c1, c2}
    MaxSessions = 1
    MaxTrees = 1
    MaxOpens = 0
    ReadOnlyBackends = {b1}
    Anonymous = Anonymous
    None = None
    Calls <- TeamCalls
SPECIFICATION TeamSpec
SYMMETRY MCSymmetry
INVARIANTS
    SweepComplete
    OnlyLate
PROPERTIES
    SweepsSpareOthers
    ImplementsAccess
