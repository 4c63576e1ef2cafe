\* One thread, and a guest that maps its memory by one large page.
CONSTANTS
    NSlots = 1
    MaxGfn = 2
    Addrs = {x}
    Named <- LargePage
    Arrays = {a1, a2}
    Bitmaps = {b1, b2}
    Tasks = {t1}
    Runner = run
    Requests <- Logged
    Touched = {}
    MaxVersion = 2
    Threaded = FALSE
    None = None
SPECIFICATION Spec
SYMMETRY Symmetric
INVARIANT DirtyNotLost
