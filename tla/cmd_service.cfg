SPECIFICATION ServiceSpec
CONSTANTS
    c1 = c1
    c2 = c2
    gone = gone
    Client <- MCClient
    NoClient <- MCNoClient
    Commands = {"quit", "unknown", "custom"}
    Scripts <- WholeScripts
    CallbackScripts <- WholeCallbacks
    ErrorScripts <- WholeErrors
    MaxCommands = 3
INVARIANTS
    ReadyBetweenCalls
    WholeReply
PROPERTIES
    RpcSpec
CHECK_DEADLOCK FALSE
