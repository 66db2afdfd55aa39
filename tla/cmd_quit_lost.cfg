SPECIFICATION DemoSpec
CONSTANTS
    c1 = c1
    c2 = c2
    gone = gone
    Client <- MCClient
    NoClient <- MCNoClient
    Commands = {"quit"}
    Scripts <- WholeScripts
    CallbackScripts <- WholeCallbacks
    ErrorScripts <- WholeErrors
    MaxCommands = 1
PROPERTIES
    SentRepliesArrive
CHECK_DEADLOCK FALSE
