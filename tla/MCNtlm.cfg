SPECIFICATION Spec
CONSTANTS
    Exchanges = {1, 2}
    Passwords = {"pw1", "pw2"}
    NoUser = "nobody"
    Alterable = {1}
    Bases = {64, 88}
    UserNames <- MCUserNames
    Upper <- MCUpper
    Table <- MCTable
INVARIANTS AcceptedRightly KeysAgree HonestAccepted
CHECK_DEADLOCK FALSE
