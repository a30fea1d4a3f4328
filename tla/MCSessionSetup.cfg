SPECIFICATION Spec
CONSTANTS
    MaxSid = 2
    MaxNegotiate = 2
INVARIANTS
    KeysAgree
    OneAttempt
    SignedUnlessSwept
    PreauthOwned
