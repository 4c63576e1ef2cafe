\* Two physical cpus that migrate two virtual machines against each other.
CONSTANTS
    CPUs = {c1, c2}
    Cpu0 = c1
    v1 = v1
    v2 = v2
    t1 = t1
    t2 = t2
    Vcpus = {v1, v2}
    Tasks = {t1, t2}
    VcpuOf <- OneEach
    Regions = {r1, r2}
    None = None
SPECIFICATION FairSpec
INVARIANTS
    ActiveOnOneCpu
    LoadedIsCurrent
    LaunchStateKnown
    HostStateOfThisCpu
    NoFreedCurrent
PROPERTIES
    FreedWhenInactive
    LoadCompletes
