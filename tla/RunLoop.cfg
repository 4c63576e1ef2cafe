\* Three interrupts in two words of irq_pending, handlers that nest.
CONSTANTS
    Irqs = {0, 1, 2}
    BITS_PER_LONG = 2
    Addrs = {a1}
    MaxRaises = 3
    MaxNest = 2
    Fault = Fault
    None = None
SPECIFICATION Spec
INVARIANTS
    TypeOK
    IrqNotLost
    SummaryExact
    SkipsPerformed
