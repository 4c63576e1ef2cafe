SPECIFICATION Spec
CONSTANTS
    Encodings <- MCEncodings
    Insns <- MCInsns
    Starts <- MCStarts
    Ram0 <- MCRam0
    Region <- MCRegion
    Targets <- MCTargets
    Answers = {0, 6, 11, 15}
INVARIANTS DecodeExact AsArch RepExact FailClean
PROPERTIES InstructionCompletes
CHECK_DEADLOCK FALSE
