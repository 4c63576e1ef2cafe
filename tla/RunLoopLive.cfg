\* Two interrupts raised once or twice, without memory-mapped I/O.
CONSTANTS
    Irqs = {0, 1}
    BITS_PER_LONG = 1
    Addrs = {}
    MaxRaises = 2
    MaxNest = 1
    Fault = Fault
    None = None
SPECIFICATION FairSpec
PROPERTY IrqDelivered
