SPECIFICATION Spec
CONSTANTS
    c1 = c1
    c2 = c2
    gone = gone
    Client <- MCClient
    NoClient <- MCNoClient
    Commands = {"custom"}
    Scripts <- AnyScripts
    CallbackScripts <- AnyCallbacks
    ErrorScripts <- AnyErrors
    MaxCommands = 2
INVARIANTS
    TypeOK
    OneWhereabouts
    ReplyMatches
    StuckAfterHalfReply
PROPERTIES
    OwedIsAnswered
    LoopHonoursQuit
CHECK_DEADLOCK FALSE
