CONSTANTS
    u1 = u1
    n1 = n1
    b1 = b1
    Users = {u1}
    Names = {n1}
    Bindings = {b1}
    Admins = {a1}
    Conns = {c1}
    MaxSessions = 1
    MaxTrees = 0
    MaxOpens = 0
    ReadOnlyBackends = {b1}
    Anonymous = Anonymous
    None = None
    Calls <- RevokingCalls
SPECIFICATION MCSpec
INVARIANTS
    RemovedUserHasNoSession
