SPECIFICATION ListeningSpec
CONSTANTS
    Cells <- MCCells
    Lengths = {2, 3}
    SendBuffers = {2}
    RecvBuffers = {2}
    Hwm = 1
    MaxCalls = 3
INVARIANTS
    TypeOK
    CountTells
    ReturnedIsWhole
    MixedOnlyAfterThrow
    ReceivedWhole
PROPERTIES
    SendReturns
    ChannelSpec
CHECK_DEADLOCK FALSE
