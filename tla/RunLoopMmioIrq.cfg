\* Memory-mapped reads of two addresses, with an interrupt.
CONSTANTS
    Irqs = {0}
    BITS_PER_LONG = 2
    Addrs = {a1, a2}
    MaxRaises = 1
    MaxNest = 1
    Fault = Fault
    None = None
SPECIFICATION Spec
PROPERTY ReadGetsItsAnswer
