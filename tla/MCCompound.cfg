SPECIFICATION Spec
CONSTANTS
    Trees <- ThreeTrees
    MaxFid <- MCMaxFid
    MaxReqs = 4
INVARIANTS
    PlaceholderOwn
