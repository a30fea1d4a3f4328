SPECIFICATION FairSpec
CONSTANTS
    a = a
    b = b
    c = c
    NoCursor = NoCursor
    Names = {a, b, c}
    NameLen <- MCNameLen
    Classes = {"Names", "IdBothDirectory"}
    Patterns <- MCPatterns
    Caps <- MCCaps
INVARIANTS ScanComplete BufferRight
PROPERTY ImplementsScan
