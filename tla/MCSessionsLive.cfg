CONSTANTS
    u1 = u1
    n1 = n1
    b1 = b1
    Users = {u1}
    Names = {n1}
    Bindings = {b1}
    Admins = {a1, a2}
    Conns = {c1}
    MaxSessions = 1
    MaxTrees = 1
    MaxOpens = 1
    ReadOnlyBackends = {b1}
    Anonymous = Anonymous
    None = None
    Calls <- RevokingCalls
SPECIFICATION MCFairSpec
INVARIANTS
    NoIoAfterClose
    OneOwner
    NoLeakedHandle
PROPERTIES
    CallsReturn
    RequestsEnd
