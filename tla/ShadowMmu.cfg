SPECIFICATION Spec
CONSTANTS
    Pages = {1, 2, 3, 4}
    Idx = {0, 1}
    Addr <- MCAddr
    Slot <- MCSlot
    Identity <- MCIdentity
    PteStores <- MCPteStores
    PdeStores <- MCPdeStores
    InitPtes <- MCInitPtes
    InitPdes <- MCInitPdes
    MaxChanges = 2
    NoSlot = NoSlot
    NoPage = NoPage
    Absent = Absent
INVARIANTS
    TypeOK PoolSound TreeSound WalkOnPath HeadersExact RightsBounded
PROPERTIES
    TlbSpec FaultHandled MmioEmulated
