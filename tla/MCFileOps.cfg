SPECIFICATION FocusSpec
CONSTANTS
    reader = reader
    writer = writer
    Clients = {reader, writer}
    Granted <- MCGranted
    Requests <- AllRequests
    NoName = NoName
    a = a
    b = b
    Names = {a, b}
    Dirs = {1}
    Files = {11, 12, 13, 14}
INVARIANTS OnlyWritersChangeData OwnPaths ExclusiveCreate ReadOnlyBackendUnchanged StreamsApart
SYMMETRY Symmetry
