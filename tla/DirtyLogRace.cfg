\* KVM_GET_DIRTY_LOG while another thread runs the guest.
CONSTANTS
    NSlots = 1
    MaxGfn = 2
    Addrs = {x}
    Named <- OneFrame
    Arrays = {a1, a2}
    Bitmaps = {b1, b2}
    Tasks = {t1}
    Runner = run
    Requests <- Logged
    Touched = {}
    MaxVersion = 2
    Threaded = TRUE
    None = None
SPECIFICATION Spec
INVARIANT DirtyNotLost
