SPECIFICATION Spec
CONSTANTS
    c1 = c1
    c2 = c2
    gone = gone
    Client <- MCClient
    NoClient <- MCNoClient
    Commands = {"default"}
    Scripts <- WholeScripts
    CallbackScripts <- WholeCallbacks
    ErrorScripts <- WholeErrors
    MaxCommands = 1
PROPERTIES
    TimeoutEndsLoop
CHECK_DEADLOCK FALSE
