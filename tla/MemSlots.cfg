\* Two threads change the memory of a running guest and read its dirty log.
CONSTANTS
    NSlots = 2
    MaxGfn = 2
    Addrs = {x, y}
    Named <- AnyFrame
    Arrays = {a1, a2}
    Bitmaps = {b1, b2}
    Tasks = {t1, t2}
    Runner = run
    Requests <- Colliding
    Touched = {}
    MaxVersion = 3
    Threaded = TRUE
    None = None
SPECIFICATION Spec
SYMMETRY Symmetric
VIEW WithoutHistory
INVARIANTS
    TypeOK
    SlotsDisjoint
    StorageOwned
    MappedLive
    BitmapLive
