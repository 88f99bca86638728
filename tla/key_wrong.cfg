\* Signing with a renewed certificate while the vault still holds the former key.
SPECIFICATION KeysSpec
CONSTANTS
    MaxSlot = 2
    Password = {p1}
    MaxKeyAct = 3
    MaxKeyFault = 1
INVARIANT LocalKeySigns
CHECK_DEADLOCK FALSE
