SPECIFICATION Spec
CONSTANTS
    Encodings <- MCEncodings
    Insns <- MCInsns
    Starts <- MCStarts
    Ram0 <- MCRam0
    Region <- MCRegion
    Targets <- FaultTargets
    Answers = {0, 6, 11, 15}
PROPERTIES FaultPropagated
CHECK_DEADLOCK FALSE
