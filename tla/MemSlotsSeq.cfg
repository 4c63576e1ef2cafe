\* A single-threaded user space: one operation at a time.
CONSTANTS
    NSlots = 2
    MaxGfn = 3
    Addrs = {x, y}
    Named <- OneFrame
    Arrays = {a1, a2}
    Bitmaps = {b1, b2}
    Tasks = {t1}
    Runner = run
    Requests <- Moving
    Touched = {0}
    MaxVersion = 3
    Threaded = FALSE
    None = None
SPECIFICATION Spec
SYMMETRY Symmetric
INVARIANT DirtyNotLost
