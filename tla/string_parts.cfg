SPECIFICATION Spec
CONSTANTS
    Cells = {}
    Lengths = {3}
    SendBuffers = {2}
    RecvBuffers = {3}
    Hwm = 1
    MaxCalls = 1
INVARIANTS
    StringsWhole
CHECK_DEADLOCK FALSE
