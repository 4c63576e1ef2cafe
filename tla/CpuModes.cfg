SPECIFICATION Spec
CONSTANTS
    Cr0Values <- MCCr0Values
    Cr4Values <- MCCr4Values
    MswValues <- MCMswValues
    EferValues <- MCEferValues
    NullSelectors = TRUE
INVARIANT TypeOK
INVARIANT EntryAccepted
INVARIANT ModesAgree
INVARIANT GuestTaskKept
INVARIANT MmuMatches
PROPERTY GpChangesNothing
PROPERTY ModeSteps
