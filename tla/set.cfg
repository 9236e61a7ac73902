SPECIFICATION FairSpec
CONSTANTS
    v1 = v1
    v2 = v2
    None = None
    Nothing = Nothing
    NoObject = NoObject
    Values = {v1, v2}
    Passwords = {1, 2, 3, 4}
    Requests <- MCRequests
    Allowable = {"On", "ForceOff", "ForceRestart"}
    Slots = {"revert1", "revert2"}
    Setups <- MCSetups
INVARIANTS
    Inv
    OneRestartAtATime
PROPERTIES
    ResetsAreAnswered
    PasswordIsSet
    BiosSettles
    BootAndPowerSettle
    BootIsSet
