SPECIFICATION Spec
CONSTANTS
    s1 = s1
    s2 = s2
    s3 = s3
    Socket <- MCSocket
    Limit = 2
    Items <- Example
    Shapes = {"row"}
PROPERTIES
    NoneStarves
CHECK_DEADLOCK FALSE
