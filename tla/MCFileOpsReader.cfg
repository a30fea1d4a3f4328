SPECIFICATION Spec
CONSTANTS
    reader = reader
    writer = writer
    Clients = {reader, writer}
    Granted <- MCGranted
    Requests <- NoStreams
    NoName = NoName
    a = a
    b = b
    Names = {a, b}
    Dirs = {1}
    Files = {11, 12, 13}
INVARIANT ReadAccessChangesNothing
SYMMETRY Symmetry
