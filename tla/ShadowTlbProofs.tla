--------------------------- MODULE ShadowTlbProofs --------------------------
(***************************************************************************)
(* The shadow page tables implement the translation cache of GuestTlb.     *)
(*                                                                         *)
(* What the cache remembers of an address is a function of the leaf entry  *)
(* its walk ends in, LeafAt.  So the first thing to know of an operation   *)
(* is what it does to LeafAt, for every address; that, and the inductive   *)
(* invariant of ShadowMmuProofs, gives the step of the cache.  CacheInv    *)
(* adds what the rights, the large pages and the fault at hand contribute. *)
(***************************************************************************)
EXTENDS ShadowMmuProofs

-----------------------------------------------------------------------------
(* The cache as a function of the tree.                                    *)

\* The leaf entry of an address and the mark for large pages above it.
LeafAt(r, t, a) ==
    IF LeafIn(r, t, a) = NoPage THEN Zero ELSE t[LeafIn(r, t, a)][a[1]]
PsAt(r, t, a) == t[DirIn(r, t, a)][a[2]].ps

\* The translation a leaf entry remembers.
Memory(pg, e) ==
    [f |-> e.f, w |-> e.sw \/ ~pg, u |-> e.su \/ ~pg, g |-> e.g, d |-> e.w, big |-> e.big]

\* An operation leaves the translation of an address alone, or drops it.
SameAt(r, t, r2, t2, a) ==
    /\ LeafAt(r2, t2, a) = LeafAt(r, t, a)
    /\ IsLeaf(LeafAt(r, t, a)) => (PsAt(r, t, a) => PsAt(r2, t2, a))
GoneAt(r2, t2, a) == ~IsLeaf(LeafAt(r2, t2, a))

\* With CR0.WP set the supervisor too writes to writable pages only.
SuperOK(pg, protect, e) == pg /\ protect /\ IsLeaf(e) => (e.w => e.sw)

\* A leaf of a large page is below a directory entry with the mark.
BigOK(ps, e) == IsLeaf(e) => (e.big => ps)

LeafInv ==
    pc # "off" =>
        \A a \in Addr : /\ SuperOK(paging, wp, LeafAt(root, tbl, a))
                        /\ BigOK(PsAt(root, tbl, a), LeafAt(root, tbl, a))

\* A fault on a present page: the entry does not permit the access, and still
\* does not after a fix that did nothing, unless the guest's page is gone.
Refuses(e, f) == IsLeaf(e) => ~HwPermits(e, f.write, f.user)
FaultInv ==
    /\ pc = "fetch" => ~flt.p
    /\ pc = "fix" /\ flt.p => Refuses(Here, flt)
    /\ pc = "check" /\ flt.p /\ ~flt.fixed =>
          /\ Refuses(Here, flt)
          /\ ~IsLeaf(Here) => ~GuestPresent(flt.a, 1)

CacheInv == LeafInv /\ FaultInv

-----------------------------------------------------------------------------
(* The abstract state.                                                     *)

\* What the cache holds for an address.
View(s, pg, r, t, a) ==
    IF s = "off" \/ ~IsLeaf(LeafAt(r, t, a)) THEN {}
    ELSE {Memory(pg, LeafAt(r, t, a))}

\* The refinement mapping in these terms, before a step and after it.
LEMMA Views ==
    ASSUME NEW a \in Addr
    PROVE  /\ Remembered(a) = View(pc, paging, root, tbl, a)
           /\ Remembered(a)' = View(pc', paging', root', tbl', a)
<1>1. LeafOf(root, a) = LeafAt(root, tbl, a)
  BY DEF LeafOf, LeafAt, LeafPage, Child, LeafIn, DirIn, ChildIn
<1>2. LeafOf(root, a)' = LeafAt(root', tbl', a)
  BY DEF LeafOf, LeafAt, LeafPage, Child, LeafIn, DirIn, ChildIn
<1> QED BY <1>1, <1>2 DEF Remembered, View, Memory

\* The leaf entry of an address is an entry of an active page.
LEMMA LeafTyped ==
    ASSUME IInv, pc # "off", NEW a \in Addr
    PROVE  /\ LeafAt(root, tbl, a) \in Entry /\ ~IsTable(LeafAt(root, tbl, a))
           /\ IsLeaf(LeafAt(root, tbl, a)) =>
                 /\ LeafIn(root, tbl, a) \in active /\ LeafIn(root, tbl, a) # NoPage
                 /\ LeafAt(root, tbl, a) = tbl[LeafIn(root, tbl, a)][a[1]]
                 /\ LeafAt(root, tbl, a) \in Leaf
                 /\ EntryOK(paging, hdr[LeafIn(root, tbl, a)], LeafAt(root, tbl, a))
<1>1. /\ Tree(root, hdr, tbl) /\ HeadersOf(hdr) /\ tbl \in TableFile
      /\ Live(paging, held, free, hdr, tbl, root)
  BY ContextLive
<1>2. a[1] \in Idx
  BY MmuAssumption DEF Levels
<1> DEFINE p == LeafIn(root, tbl, a)
<1>3. p # NoPage => p \in DOMAIN hdr /\ ~Upper(root, hdr, p)
  BY <1>1, Paths
<1> HIDE DEF p
<1>4. CASE p = NoPage
  <2>1. LeafAt(root, tbl, a) = Zero
    BY <1>4 DEF LeafAt, p
  <2> QED BY <2>1, EntryKinds
<1>5. CASE p # NoPage
  <2>1. LeafAt(root, tbl, a) = tbl[p][a[1]]
    BY <1>5 DEF LeafAt, p
  <2>2. tbl[p][a[1]] \in Entry /\ ~IsTable(tbl[p][a[1]])
    BY <1>1, <1>2, <1>3, <1>5, LeafPages
  <2>3. EntryOK(paging, hdr[p], tbl[p][a[1]])
    BY <1>1, <1>2, <1>3, <1>5 DEF Live, Entries
  <2>4. IsLeaf(tbl[p][a[1]]) => tbl[p][a[1]] \in Leaf
    BY <2>2, EntryKinds
  <2> QED BY <1>3, <1>5, <2>1, <2>2, <2>3, <2>4 DEF p, active
<1> QED BY <1>4, <1>5

\* A translation is never Absent.
LEMMA MemoryTyped ==
    ASSUME NEW pg \in BOOLEAN, NEW e \in Leaf
    PROVE  /\ Memory(pg, e) \in Translation /\ Memory(pg, e) # Absent
           /\ Memory(pg, e).f = e.f /\ Memory(pg, e).g = e.g
           /\ Memory(pg, e).w = (e.sw \/ ~pg) /\ Memory(pg, e).u = (e.su \/ ~pg)
           /\ Memory(pg, e).d = e.w /\ Memory(pg, e).big = e.big
<1>1. Memory(pg, e) \in Translation
  BY DEF Memory, Leaf, Translation
<1> QED BY <1>1, AbsentAssumption DEF Memory

\* What the processor permits through a leaf entry, its translation permits.
LEMMA LeafPermits ==
    ASSUME IInv, CacheInv, pc # "off", NEW a \in Addr, NEW e, e = LeafAt(root, tbl, a),
           IsLeaf(e), NEW write \in BOOLEAN, NEW user \in BOOLEAN,
           may_access(e, write, user)
    PROVE  /\ Tlb!Permits(Memory(paging, e), write, user)
           /\ write => Memory(paging, e).d
<1>1. e \in Leaf /\ EntryOK(paging, hdr[LeafIn(root, tbl, a)], e)
  BY LeafTyped
<1>2. SuperOK(paging, wp, e)
  BY DEF CacheInv, LeafInv
<1>3. paging \in BOOLEAN /\ wp \in BOOLEAN
  BY DEF IInv, GuestInv
<1>4. (user => e.u) /\ (write => e.w)
  BY DEF may_access
<1>5. paging => /\ e.u => e.su
                /\ e.u /\ e.w => e.sw
                /\ wp => (e.w => e.sw)
  BY <1>1, <1>2 DEF EntryOK, SuperOK
<1> DEFINE m == Memory(paging, e)
<1>6. /\ m # Absent /\ m.w = (e.sw \/ ~paging) /\ m.u = (e.su \/ ~paging) /\ m.d = e.w
  BY <1>1, <1>3, MemoryTyped
<1> HIDE DEF m
<1>7. m # Absent /\ (user => m.u) /\ (write => m.w \/ (~user /\ ~wp))
  BY <1>3, <1>4, <1>5, <1>6
<1> QED BY <1>4, <1>6, <1>7 DEF Tlb!Permits, m

\* Only what the cache grants goes through.
LEMMA GrantedHolds == IInv /\ CacheInv => Tlb!Granted
<1> SUFFICES ASSUME IInv, CacheInv, NEW x \in Allowed
             PROVE  \E e \in [a \in Addr |-> Remembered(a)][x.a] :
                       /\ e.f = x.f /\ Tlb!Permits(e, x.write, x.user)
                       /\ x.write => e.d
  BY DEF Tlb!Granted
<1>1. pc # "off"
  BY DEF Allowed
<1>2. PICK a \in Addr : x \in AllowedAt(a)
  BY <1>1 DEF Allowed
<1> DEFINE e == LeafAt(root, tbl, a)
<1>3. LeafOf(hwroot, a) = e
  <2>1. hwroot = root
    BY <1>1, ContextLive
  <2> QED BY <2>1 DEF LeafOf, LeafAt, LeafPage, Child, LeafIn, DirIn, ChildIn
<1>4. PICK y \in BOOLEAN \X BOOLEAN :
         HwPermits(e, y[1], y[2]) /\ x = [a |-> a, write |-> y[1], user |-> y[2], f |-> e.f]
  <2> HIDE DEF e
  <2> QED BY <1>2, <1>3 DEF AllowedAt
<1>5. /\ x.a = a /\ x.write \in BOOLEAN /\ x.user \in BOOLEAN /\ x.f = e.f
      /\ HwPermits(e, x.write, x.user)
  <2> HIDE DEF e
  <2> QED BY <1>4
<1>6. IsLeaf(e) /\ may_access(e, x.write, x.user)
  BY <1>5 DEF HwPermits, may_access
<1>7. /\ Tlb!Permits(Memory(paging, e), x.write, x.user)
      /\ x.write => Memory(paging, e).d
  BY <1>1, <1>5, <1>6, LeafPermits
<1>8. Remembered(a) = {Memory(paging, e)}
  BY <1>1, <1>6, Views DEF View
<1>9. Memory(paging, e).f = e.f
  BY DEF Memory
<1>10. [b \in Addr |-> Remembered(b)][x.a] = {Memory(paging, e)}
  BY <1>5, <1>8
<1> HIDE DEF e
<1> QED BY <1>5, <1>7, <1>9, <1>10


-----------------------------------------------------------------------------
(* What the operations on the tree do to the leaf of an address.           *)

\* In a tree without entries no address has a leaf.
LEMMA NoLeaves ==
    ASSUME NEW r \in Pages, NEW t, t[r] = Empty, NEW a \in Addr
    PROVE  LeafAt(r, t, a) = Zero
<1>1. a[3] \in Idx
  BY MmuAssumption DEF Levels
<1>2. ~IsTable(t[r][a[3]])
  BY <1>1, EmptyPage, EntryKinds
<1>3. DirIn(r, t, a) = NoPage
  BY <1>2 DEF DirIn, ChildIn
<1>4. LeafIn(r, t, a) = NoPage
  BY <1>3 DEF LeafIn, ChildIn
<1> QED BY <1>4 DEF LeafAt

\* A page added to the tree has no leaves yet.
LEMMA AddSame ==
    ASSUME NEW r, NEW h, NEW t, Tree(r, h, t), HeadersOf(h), t \in TableFile,
           NEW at \in DOMAIN h, NEW i \in Idx, Upper(r, h, at), t[at][i] = Zero,
           NEW new \in Pages, new \notin DOMAIN h, t[new] = Empty, NEW a \in Addr
    PROVE  SameAt(r, t, r, Put(t, at, i, Table(new)), a)
<1> DEFINE e == Table(new)
           t2 == Put(t, at, i, e)
           d == DirIn(r, t, a)
           p == LeafIn(r, t, a)
<1>0. a[1] \in Idx /\ a[2] \in Idx /\ a[3] \in Idx
  BY MmuAssumption DEF Levels
<1>1. /\ DOMAIN h \subseteq Pages /\ at \in Pages /\ r \in DOMAIN h /\ new # NoPage
      /\ NoPage \notin DOMAIN h
  BY MmuAssumption DEF HeadersOf, Tree, RootOK
<1>2. e \in Entry /\ IsTable(e) /\ e.to = new
  BY EntryKinds
<1> HIDE DEF e
<1>3. /\ \A q \in Pages, j \in Idx : t2[q][j] = IF q = at /\ j = i THEN e ELSE t[q][j]
      /\ \A q \in Pages : q # at => t2[q] = t[q]
  BY <1>1, <1>2, PutFields
<1>4. /\ d # NoPage => d \in DOMAIN h
      /\ p # NoPage => /\ d # NoPage /\ p \in DOMAIN h /\ ~Upper(r, h, p)
                       /\ IsTable(t[d][a[2]])
  BY Paths
<1> HIDE DEF t2
<1>5. t2[new] = Empty /\ t2[new][a[2]] = Zero /\ t2[new][a[1]] = Zero
  BY <1>0, <1>1, <1>3, EmptyPage
<1>6. ~IsTable(Zero) /\ ~IsLeaf(Zero)
  BY EntryKinds
<1>7. ASSUME at = r /\ i = a[3] PROVE SameAt(r, t, r, t2, a)
  <2>1. d = NoPage /\ p = NoPage
    BY <1>6, <1>7 DEF DirIn, LeafIn, ChildIn
  <2>2. DirIn(r, t2, a) = new
    BY <1>0, <1>1, <1>2, <1>3, <1>7 DEF DirIn, ChildIn
  <2>3. LeafIn(r, t2, a) = NoPage
    BY <1>5, <1>6, <2>2 DEF LeafIn, ChildIn
  <2> QED BY <1>6, <2>1, <2>3 DEF SameAt, LeafAt
<1>8. ASSUME ~(at = r /\ i = a[3]) PROVE SameAt(r, t, r, t2, a)
  <2>1. t2[r][a[3]] = t[r][a[3]]
    BY <1>0, <1>1, <1>3, <1>8
  <2>2. DirIn(r, t2, a) = d
    BY <2>1 DEF DirIn, ChildIn
  <2> HIDE DEF d
  <2>3. p = ChildIn(t, d, a[2]) /\ LeafIn(r, t2, a) = ChildIn(t2, d, a[2])
    BY <2>2 DEF LeafIn, d
  <2> HIDE DEF p
  <2>4. CASE d = NoPage
    <3>1. p = NoPage /\ LeafIn(r, t2, a) = NoPage
      BY <2>3, <2>4 DEF ChildIn
    <3> QED BY <1>6, <3>1 DEF SameAt, LeafAt, p
  <2>5. CASE d # NoPage /\ at = d /\ i = a[2]
    <3>1. p = NoPage
      BY <1>6, <2>3, <2>5 DEF ChildIn
    <3>2. LeafIn(r, t2, a) = new
      BY <1>0, <1>1, <1>2, <1>3, <2>3, <2>5 DEF ChildIn
    <3> QED BY <1>1, <1>5, <1>6, <3>1, <3>2 DEF SameAt, LeafAt, p
  <2>6. CASE d # NoPage /\ ~(at = d /\ i = a[2])
    <3>1. t2[d][a[2]] = t[d][a[2]]
      BY <1>0, <1>1, <1>3, <1>4, <2>6
    <3>2. LeafIn(r, t2, a) = p
      BY <2>3, <3>1 DEF ChildIn
    <3>3. p # NoPage => t2[p] = t[p]
      BY <1>1, <1>3, <1>4
    <3>4. LeafAt(r, t2, a) = LeafAt(r, t, a)
      BY <3>2, <3>3 DEF LeafAt, p
    <3>5. PsAt(r, t2, a) = PsAt(r, t, a)
      BY <2>2, <3>1 DEF PsAt, d
    <3> QED BY <3>4, <3>5 DEF SameAt
  <2> QED BY <2>4, <2>5, <2>6
<1>9. SameAt(r, t, r, t2, a)
  BY <1>7, <1>8
<1> QED BY <1>9 DEF t2, e

\* Leaf pages taken out take the leaves of their addresses with them.
LEMMA DropFades ==
    ASSUME NEW r, NEW h, NEW t, Tree(r, h, t), HeadersOf(h), t \in TableFile,
           NEW S \in SUBSET DOMAIN h, \A p \in S : ~Upper(r, h, p),
           NEW t2, Cleared(h, S, t, t2), NEW a \in Addr
    PROVE  /\ LeafIn(r, t, a) \in S \cup {NoPage} => LeafAt(r, t2, a) = Zero
           /\ LeafIn(r, t, a) \notin S \cup {NoPage} => SameAt(r, t, r, t2, a)
<1> DEFINE d == DirIn(r, t, a)
           p == LeafIn(r, t, a)
<1>0. a[1] \in Idx /\ a[2] \in Idx /\ a[3] \in Idx
  BY MmuAssumption DEF Levels
<1>1. DOMAIN h \subseteq Pages /\ r \in DOMAIN h /\ Upper(r, h, r)
  BY DEF HeadersOf, Tree, RootOK, Upper
<1>2. /\ d # NoPage => d \in DOMAIN h /\ Upper(r, h, d)
      /\ p # NoPage => /\ d # NoPage /\ p \in DOMAIN h /\ ~Upper(r, h, p)
                       /\ h[p].parent = <<d, a[2]>> /\ IsTable(t[d][a[2]])
  BY Paths
<1>3. ~IsTable(Zero)
  BY EntryKinds
<1>4. \A q \in S : h[q].parent # <<r, a[3]>>
  BY <1>0 DEF Upper
<1>5. t2[r][a[3]] = t[r][a[3]]
  BY <1>0, <1>1, <1>4 DEF Cleared
<1>6. DirIn(r, t2, a) = d
  BY <1>5 DEF DirIn, ChildIn
<1> HIDE DEF d
<1>7. p = ChildIn(t, d, a[2]) /\ LeafIn(r, t2, a) = ChildIn(t2, d, a[2])
  BY <1>6 DEF LeafIn, d
<1> HIDE DEF p
<1>8. ASSUME p = NoPage PROVE LeafAt(r, t2, a) = Zero
  <2>1. LeafIn(r, t2, a) = NoPage
    <3>1. CASE d = NoPage
      BY <1>7, <3>1 DEF ChildIn
    <3>2. CASE d # NoPage
      <4>1. d \in Pages /\ d \in DOMAIN h
        BY <1>1, <1>2, <3>2
      <4>2. t2[d][a[2]] = Zero \/ t2[d][a[2]] = t[d][a[2]]
        BY <1>0, <4>1 DEF Cleared
      <4>3. IsTable(t[d][a[2]]) => p = t[d][a[2]].to /\ t[d][a[2]].to \in DOMAIN h
        BY <1>0, <1>7, <3>2, <4>1 DEF ChildIn, Tree, DownOK
      <4>4. ~IsTable(t[d][a[2]])
        BY <1>1, <1>8, <4>3, MmuAssumption
      <4> QED BY <1>3, <1>7, <4>2, <4>4 DEF ChildIn
    <3> QED BY <3>1, <3>2
  <2> QED BY <2>1 DEF LeafAt
<1>9. ASSUME p \in S, p # NoPage PROVE LeafAt(r, t2, a) = Zero
  <2>1. d \in Pages
    BY <1>1, <1>2, <1>9
  <2>2. t2[d][a[2]] = Zero
    BY <1>0, <1>2, <1>9, <2>1 DEF Cleared
  <2>3. LeafIn(r, t2, a) = NoPage
    BY <1>3, <1>7, <2>2 DEF ChildIn
  <2> QED BY <2>3 DEF LeafAt
<1>10. ASSUME p # NoPage, p \notin S PROVE SameAt(r, t, r, t2, a)
  <2>1. /\ d \in Pages /\ d \notin S /\ d # NoPage /\ d \in DOMAIN h /\ p \in Pages
        /\ p = t[d][a[2]].to
    BY <1>1, <1>2, <1>7, <1>10 DEF ChildIn
  <2>2. ASSUME NEW q \in S PROVE h[q].parent # <<d, a[2]>> /\ h[q].parent # <<p, a[1]>>
    <3>1. q \in DOMAIN h /\ q # r
      BY <1>1
    <3>2. PICK p2 \in DOMAIN h, j \in Idx :
                h[q].parent = <<p2, j>> /\ IsTable(t[p2][j]) /\ t[p2][j].to = q
      BY <3>1 DEF Tree, UpOK
    <3>3. Upper(r, h, p2)
      BY <3>2 DEF Tree, DownOK
    <3> QED BY <1>2, <1>10, <2>1, <3>2, <3>3
  <2>3. t2[d][a[2]] = t[d][a[2]] /\ t2[p][a[1]] = t[p][a[1]]
    BY <1>0, <1>10, <2>1, <2>2 DEF Cleared
  <2>4. LeafIn(r, t2, a) = p
    BY <1>7, <2>3 DEF ChildIn
  <2>5. LeafAt(r, t2, a) = LeafAt(r, t, a)
    BY <2>3, <2>4 DEF LeafAt, p
  <2>6. PsAt(r, t2, a) = PsAt(r, t, a)
    BY <1>6, <2>3 DEF PsAt, d
  <2> QED BY <2>5, <2>6 DEF SameAt
<1> QED BY <1>8, <1>9, <1>10 DEF p

\* The tables t2 are t with the same pages and marks, and one leaf rewritten.
EditedAt(r, h, t, t2, c, i) ==
    /\ SameTables(h, t, t2)
    /\ \A p \in DOMAIN h, j \in Idx : IsTable(t[p][j]) => (t[p][j].ps => t2[p][j].ps)
    /\ \A p \in DOMAIN h, j \in Idx :
          ~Upper(r, h, p) /\ ~(p = c /\ j = i) => t2[p][j] = t[p][j]

\* An address is the place of its leaf: no other address shares it.
LEMMA OnePlace ==
    ASSUME NEW r, NEW h, NEW t, Tree(r, h, t), HeadersOf(h), NEW a \in Addr, NEW b \in Addr,
           LeafIn(r, t, a) # NoPage, LeafIn(r, t, a) = LeafIn(r, t, b), a[1] = b[1]
    PROVE  a = b
<1>1. /\ DirIn(r, t, a) # NoPage /\ DirIn(r, t, b) # NoPage
      /\ h[LeafIn(r, t, a)].parent = <<DirIn(r, t, a), a[2]>>
      /\ h[LeafIn(r, t, b)].parent = <<DirIn(r, t, b), b[2]>>
  BY Paths
<1>2. /\ h[DirIn(r, t, a)].parent = <<r, a[3]>>
      /\ h[DirIn(r, t, b)].parent = <<r, b[3]>>
  BY <1>1, Paths
<1>3. a[2] = b[2] /\ DirIn(r, t, a) = DirIn(r, t, b)
  BY <1>1
<1>4. a[3] = b[3]
  BY <1>2, <1>3
<1>5. a \in [Levels -> Idx] /\ b \in [Levels -> Idx]
  BY MmuAssumption
<1>6. \A l \in Levels : l = 1 \/ l = 2 \/ l = 3
  BY DEF Levels
<1>7. \A l \in Levels : a[l] = b[l]
  BY <1>3, <1>4, <1>6
<1> QED BY <1>5, <1>7

\* A leaf written changes the translation of its address only.
LEMMA EditOne ==
    ASSUME NEW r, NEW h, NEW t, Tree(r, h, t), HeadersOf(h), NEW a \in Addr, NEW t2,
           LeafIn(r, t, a) # NoPage, EditedAt(r, h, t, t2, LeafIn(r, t, a), a[1])
    PROVE  /\ LeafAt(r, t2, a) = t2[LeafIn(r, t, a)][a[1]]
           /\ PsAt(r, t, a) => PsAt(r, t2, a)
           /\ \A b \in Addr : b # a => SameAt(r, t, r, t2, b)
<1>1. SameTables(h, t, t2)
  BY DEF EditedAt
<1>2. \A b \in Addr : DirIn(r, t2, b) = DirIn(r, t, b) /\ LeafIn(r, t2, b) = LeafIn(r, t, b)
  BY <1>1, SamePaths
<1>3. \A b \in Addr : b[1] \in Idx /\ b[2] \in Idx
  BY MmuAssumption DEF Levels
<1>4. \A b \in Addr : LeafIn(r, t, b) # NoPage =>
         /\ DirIn(r, t, b) \in DOMAIN h /\ IsTable(t[DirIn(r, t, b)][b[2]])
         /\ LeafIn(r, t, b) \in DOMAIN h /\ ~Upper(r, h, LeafIn(r, t, b))
  BY Paths
<1>5. \A b \in Addr : LeafIn(r, t, b) # NoPage => (PsAt(r, t, b) => PsAt(r, t2, b))
  BY <1>2, <1>3, <1>4 DEF PsAt, EditedAt
<1>6. LeafAt(r, t2, a) = t2[LeafIn(r, t, a)][a[1]]
  BY <1>2 DEF LeafAt
<1>7. ASSUME NEW b \in Addr, b # a PROVE SameAt(r, t, r, t2, b)
  <2>1. CASE LeafIn(r, t, b) = NoPage
    BY <1>2, <2>1, EntryKinds DEF LeafAt, SameAt
  <2>2. CASE LeafIn(r, t, b) # NoPage
    <3>1. ~(LeafIn(r, t, b) = LeafIn(r, t, a) /\ b[1] = a[1])
      BY <1>7, <2>2, OnePlace
    <3>2. t2[LeafIn(r, t, b)][b[1]] = t[LeafIn(r, t, b)][b[1]]
      BY <1>3, <1>4, <2>2, <3>1 DEF EditedAt
    <3>3. LeafAt(r, t2, b) = LeafAt(r, t, b)
      BY <1>2, <2>2, <3>2 DEF LeafAt
    <3> QED BY <1>5, <2>2, <3>3 DEF SameAt
  <2> QED BY <2>1, <2>2
<1> QED BY <1>5, <1>6, <1>7


-----------------------------------------------------------------------------
(* Steps of the cache.                                                     *)

\* An entry that loses its write bit, or nothing.
Faded(e, e2) ==
    /\ e \in Leaf /\ e2 \in Leaf
    /\ e2.f = e.f /\ e2.sw = e.sw /\ e2.su = e.su /\ e2.g = e.g /\ e2.big = e.big
    /\ e2.w => e.w

\* The translation of an address is dropped, or fades.
FadesAt(r, t, r2, t2, a) ==
    \/ GoneAt(r2, t2, a)
    \/ /\ Faded(LeafAt(r, t, a), LeafAt(r2, t2, a))
       /\ PsAt(r, t, a) => PsAt(r2, t2, a)

\* A translation that is left alone does.
LEMMA SameFades ==
    ASSUME IInv, pc # "off", NEW a \in Addr, NEW r2, NEW t2, SameAt(root, tbl, r2, t2, a)
    PROVE  FadesAt(root, tbl, r2, t2, a)
<1>1. IsLeaf(LeafAt(root, tbl, a)) => LeafAt(root, tbl, a) \in Leaf
  BY LeafTyped
<1> QED BY <1>1 DEF SameAt, FadesAt, GoneAt, Faded

\* Fading keeps what CacheInv says of leaves.
LEMMA FadesKeep ==
    ASSUME CacheInv, pc # "off", UNCHANGED <<paging, wp>>,
           \A a \in Addr : FadesAt(root, tbl, root', tbl', a)
    PROVE  LeafInv'
<1> SUFFICES ASSUME NEW a \in Addr
             PROVE  /\ SuperOK(paging, wp, LeafAt(root', tbl', a))
                    /\ BigOK(PsAt(root', tbl', a), LeafAt(root', tbl', a))
  BY DEF LeafInv
<1> DEFINE e == LeafAt(root, tbl, a)
           e2 == LeafAt(root', tbl', a)
<1>1. SuperOK(paging, wp, e) /\ BigOK(PsAt(root, tbl, a), e)
  BY DEF CacheInv, LeafInv
<1>2. \/ ~IsLeaf(e2)
      \/ Faded(e, e2) /\ (PsAt(root, tbl, a) => PsAt(root', tbl', a))
  BY DEF FadesAt, GoneAt
<1> HIDE DEF e, e2
<1>3. CASE ~IsLeaf(e2)
  BY <1>3 DEF SuperOK, BigOK, e2
<1>4. CASE Faded(e, e2) /\ (PsAt(root, tbl, a) => PsAt(root', tbl', a))
  <2>1. IsLeaf(e)
    BY <1>4, EntryKinds DEF Faded
  <2>2. SuperOK(paging, wp, e2) /\ BigOK(PsAt(root', tbl', a), e2)
    BY <1>1, <1>4, <2>1 DEF SuperOK, BigOK, Faded
  <2> QED BY <2>2 DEF e2
<1> QED BY <1>2, <1>3, <1>4

\* The fault is of no interest outside paging_page_fault.
LEMMA NoFaultInv == ASSUME pc' \notin {"fetch", "fix", "check"} PROVE FaultInv'
  BY DEF FaultInv

\* The guest's tables as they were.
LEMMA SameEff ==
    ASSUME UNCHANGED <<gpde, gpte, paging>>
    PROVE  \A a \in Addr : Eff(a)' = Eff(a)
  BY DEF Eff, GuestPresent

\* The same translations.
LEMMA SameTlb ==
    ASSUME \A a \in Addr : View(pc', paging', root', tbl', a) = View(pc, paging, root, tbl, a)
    PROVE  [a \in Addr |-> Remembered(a)]' = [a \in Addr |-> Remembered(a)]
<1>1. \A a \in Addr : Remembered(a)' = Remembered(a)
  BY Views
<1> QED BY <1>1

\* No translations.
LEMMA EmptyTlb ==
    ASSUME \A a \in Addr : pc' = "off" \/ GoneAt(root', tbl', a)
    PROVE  [a \in Addr |-> Remembered(a)]' = [a \in Addr |-> {}]
<1>1. \A a \in Addr : Remembered(a)' = {}
  BY Views DEF View, GoneAt
<1> QED BY <1>1

\* What may be remembered of a translation.
LEMMA InMemories ==
    ASSUME NEW m \in Translation, NEW m2 \in Translation, m2.f = m.f, m2.w = m.w,
           m2.u = m.u, m2.big = m.big, m2.g \in {FALSE, m.g}, m2.d \in {FALSE, m.d}
    PROVE  m2 \in Tlb!Memories(m)
  BY DEF Translation, Tlb!Memories

\* Translations only drop out, or have to look their dirty bit up again.
LEMMA FadesForget ==
    ASSUME IInv, pc # "off", paging' = paging,
           \A a \in Addr : pc' = "off" \/ FadesAt(root, tbl, root', tbl', a)
    PROVE  Tlb!Forgets
<1> SUFFICES ASSUME NEW a \in Addr, NEW m2 \in Remembered(a)'
             PROVE  \E m \in Remembered(a) : m2 \in Tlb!Memories(m)
  BY DEF Tlb!Forgets
<1> DEFINE e == LeafAt(root, tbl, a)
           e2 == LeafAt(root', tbl', a)
<1>1. pc' # "off" /\ IsLeaf(e2) /\ m2 = Memory(paging, e2)
  BY Views DEF View
<1>2. Faded(e, e2)
  BY <1>1 DEF FadesAt, GoneAt
<1>3. IsLeaf(e)
  BY <1>2, EntryKinds DEF Faded
<1>4. Remembered(a) = {Memory(paging, e)}
  BY <1>3, Views DEF View
<1> HIDE DEF e, e2
<1> DEFINE m == Memory(paging, e)
<1>5. paging \in BOOLEAN /\ e \in Leaf /\ e2 \in Leaf
  BY <1>2 DEF IInv, GuestInv, Faded
<1>6. /\ m \in Translation /\ m.f = e.f /\ m.g = e.g /\ m.w = (e.sw \/ ~paging)
      /\ m.u = (e.su \/ ~paging) /\ m.d = e.w /\ m.big = e.big
      /\ m2 \in Translation /\ m2.f = e2.f /\ m2.g = e2.g /\ m2.w = (e2.sw \/ ~paging)
      /\ m2.u = (e2.su \/ ~paging) /\ m2.d = e2.w /\ m2.big = e2.big
  BY <1>1, <1>5, MemoryTyped
<1> HIDE DEF m
<1>7. m2 \in Tlb!Memories(m)
  <2>1. /\ m2.f = m.f /\ m2.w = m.w /\ m2.u = m.u /\ m2.big = m.big
        /\ m2.g \in {FALSE, m.g}
    BY <1>2, <1>6 DEF Faded
  <2>2. m2.d \in {FALSE, m.d}
    BY <1>2, <1>5, <1>6 DEF Faded, Leaf
  <2> QED BY <1>6, <2>1, <2>2, InMemories
<1> QED BY <1>4, <1>7 DEF m

\* A step of the cache, but for what goes through after it.
CacheStep ==
    \/ Tlb!Resume \/ Tlb!ChangeTables \/ Tlb!Forget \/ Tlb!LoadCr3 \/ Tlb!SetMode
    \/ \E a \in Addr :
          \/ Tlb!Fill(a) \/ Tlb!MarkDirty(a) \/ Tlb!Invlpg(a)
          \/ \E write, user \in BOOLEAN : Tlb!Emulate(a, write, user) \/ Tlb!Fault(a, write, user)

\* Execution goes on with the same translations.
LEMMA TlbResume ==
    ASSUME obs' = Quiet, UNCHANGED <<gpde, gpte, paging, wp>>,
           \A a \in Addr : View(pc', paging', root', tbl', a) = View(pc, paging, root, tbl, a)
    PROVE  CacheStep
<1>1. [a \in Addr |-> Remembered(a)]' = [a \in Addr |-> Remembered(a)]
  BY SameTlb
<1>2. [a \in Addr |-> Eff(a)]' = [a \in Addr |-> Eff(a)]
  BY SameEff
<1>3. Tlb!Resume
  BY <1>1, <1>2 DEF Tlb!Resume, Tlb!Quiet, Quiet
<1> QED BY <1>3 DEF CacheStep

\* Translations are forgotten.
LEMMA TlbForget ==
    ASSUME IInv, obs' = Quiet, UNCHANGED <<gpde, gpte, paging, wp>>, pc # "off",
           \A a \in Addr : pc' = "off" \/ FadesAt(root, tbl, root', tbl', a)
    PROVE  CacheStep
<1>1. Tlb!Forgets
  BY FadesForget
<1>2. [a \in Addr |-> Eff(a)]' = [a \in Addr |-> Eff(a)]
  BY SameEff
<1>3. Tlb!Forget
  BY <1>1, <1>2 DEF Tlb!Forget, Tlb!Quiet, Quiet
<1> QED BY <1>3 DEF CacheStep


-----------------------------------------------------------------------------
(* Steps that leave the tree alone.                                        *)

\* The same tree gives the same views.
LEMMA SameViews ==
    ASSUME UNCHANGED <<paging, tbl, root>>, pc # "off", pc' # "off"
    PROVE  \A a \in Addr : View(pc', paging', root', tbl', a) = View(pc, paging, root, tbl, a)
  BY DEF View

\* A step that leaves tables and rights alone keeps what is said of leaves.
LEMMA SameLeafInv ==
    ASSUME CacheInv, pc # "off", UNCHANGED <<paging, wp, tbl, root>>
    PROVE  LeafInv'
  BY DEF CacheInv, LeafInv

\* Pages are allocated before there is a context.
LEMMA AllocMmuRefines ==
    ASSUME AllocMmuPage \/ AllocMmuFails
    PROVE  CacheInv' /\ CacheStep
<1>1. /\ pc = "off" /\ pc' = "off" /\ obs' = Quiet
      /\ UNCHANGED <<gpde, gpte, paging, wp>>
  BY DEF AllocMmuPage, AllocMmuFails, guestVars, faultVars
<1>2. CacheInv'
  BY <1>1 DEF CacheInv, LeafInv, FaultInv
<1>3. \A a \in Addr : View(pc', paging', root', tbl', a) = View(pc, paging, root, tbl, a)
  BY <1>1 DEF View
<1> QED BY <1>1, <1>2, <1>3, TlbResume

\* The first context is empty.
LEMMA InitRefines ==
    ASSUME IInv, IInv', kvm_mmu_init
    PROVE  CacheInv' /\ CacheStep
<1>1. /\ pc = "off" /\ pc' = "guest" /\ obs' = Quiet /\ tbl' = tbl
      /\ UNCHANGED <<gpde, gpte, paging, wp>>
  BY DEF kvm_mmu_init, NewRoot, guestVars
<1>2. \A p \in Pages : tbl'[p] = Empty
  BY <1>1 DEF IInv, PoolInv, Lists, active
<1>3. root' \in Pages
  BY <1>1 DEF IInv, PoolInv, Live, Tree, RootOK, PoolTypes, HeadersOf
<1>4. \A a \in Addr : LeafAt(root', tbl', a) = Zero
  BY <1>2, <1>3, NoLeaves
<1>5. LeafInv'
  BY <1>4, EntryKinds DEF LeafInv, SuperOK, BigOK
<1>6. FaultInv'
  BY <1>1, NoFaultInv
<1>7. \A a \in Addr : View(pc', paging', root', tbl', a) = View(pc, paging, root, tbl, a)
  BY <1>1, <1>4, EntryKinds DEF View
<1>8. CacheStep
  BY <1>1, <1>7, TlbResume
<1> QED BY <1>5, <1>6, <1>8 DEF CacheInv

\* The end of a context forgets everything.
LEMMA DestroyRefines ==
    ASSUME IInv, kvm_mmu_destroy
    PROVE  CacheInv' /\ CacheStep
<1>1. /\ pc # "off" /\ pc' = "off" /\ obs' = Quiet
      /\ UNCHANGED <<gpde, gpte, paging, wp>>
  BY DEF kvm_mmu_destroy, guestVars
<1>2. CacheInv'
  BY <1>1 DEF CacheInv, LeafInv, FaultInv
<1>3. CacheStep
  BY <1>1, TlbForget
<1> QED BY <1>2, <1>3

\* The next entry changes nothing.
LEMMA ResumeRefines ==
    ASSUME IInv, CacheInv, Resume
    PROVE  CacheInv' /\ CacheStep
<1>1. /\ pc # "off" /\ pc' = "guest" /\ obs' = Quiet
      /\ UNCHANGED <<gpde, gpte, paging, wp, tbl, root>>
  BY DEF Resume, guestVars, poolVars, rootVars
<1>2. CacheInv'
  BY <1>1, SameLeafInv, NoFaultInv DEF CacheInv
<1>3. \A a \in Addr : View(pc', paging', root', tbl', a) = View(pc, paging, root, tbl, a)
  BY <1>1, SameViews
<1> QED BY <1>1, <1>2, <1>3, TlbResume

\* Stores to the guest's tables are not seen until a walk.
LEMMA StoreRefines ==
    ASSUME IInv, CacheInv,
           \/ \E s \in PteStores : StorePte(s[1], s[2])
           \/ \E s \in PdeStores : StorePde(s[1], s[2])
    PROVE  CacheInv' /\ CacheStep
<1>1. /\ pc # "off" /\ pc' = "exit" /\ obs' = [k |-> "store"]
      /\ UNCHANGED <<paging, wp, tbl, root>>
  BY DEF StorePte, StorePde, Running, poolVars, rootVars
<1>2. CacheInv'
  BY <1>1, SameLeafInv, NoFaultInv DEF CacheInv
<1>3. [a \in Addr |-> Remembered(a)]' = [a \in Addr |-> Remembered(a)]
  BY <1>1, SameViews, SameTlb
<1>4. Tlb!ChangeTables
  BY <1>1, <1>3 DEF Tlb!ChangeTables
<1> QED BY <1>2, <1>4 DEF CacheStep

\* A page fault starts a walk; the entry does not permit the access.
LEMMA PageFaultRefines ==
    ASSUME IInv, CacheInv, IInv', NEW a \in Addr, NEW write \in BOOLEAN, NEW user \in BOOLEAN,
           PageFault(a, write, user)
    PROVE  CacheInv' /\ CacheStep
<1> DEFINE e == LeafOf(root, a)
<1>1. /\ pc # "off" /\ pc' \in {"map", "fetch", "fix"} /\ obs' = Quiet
      /\ UNCHANGED <<gpde, gpte, paging, wp, tbl, root>>
      /\ pc' = "fetch" => e = Zero
      /\ lvl' = Reached(a)[1] /\ cur' = Reached(a)[2]
  BY DEF PageFault, Running, guestVars, poolVars, rootVars, IInv, GuestInv
<1>2. hwroot = root
  BY <1>1, ContextLive
<1>3. /\ ~HwPermits(e, write, user)
      /\ flt' = [a |-> a, write |-> write, user |-> user, p |-> IsLeaf(e) /\ e.p, fixed |-> FALSE]
  BY <1>2 DEF PageFault
<1>4. pc' = "fetch" => ~flt'.p
  BY <1>1, <1>3, EntryKinds
<1>5. pc' = "fix" => Here' = e
  <2> SUFFICES ASSUME pc' = "fix" PROVE Here' = e
    OBVIOUS
  <2>1. pc' \in Walking
    BY DEF Walking
  <2>2. Walk(paging', pc', flt', lvl', cur', hdr', tbl', root')
    BY <2>1 DEF IInv, WalkInv
  <2>3. lvl' = 1 /\ cur' \in DOMAIN hdr' /\ OnPath(root', tbl', flt'.a, lvl', cur')
    BY <2>2 DEF Walk
  <2>4. cur' = LeafIn(root, tbl, a) /\ flt'.a = a
    BY <1>1, <1>3, <2>3 DEF OnPath
  <2>5. LeafPage(root, a) = LeafIn(root, tbl, a)
    BY WalkNames
  <2>6. cur' # NoPage
    BY <2>3, MmuAssumption DEF IInv, PoolInv, PoolTypes, HeadersOf
  <2>7. e = tbl[cur'][a[1]]
    BY <2>4, <2>5, <2>6 DEF LeafOf
  <2> QED BY <1>1, <2>3, <2>4, <2>7 DEF Here
<1>6. flt'.write = write /\ flt'.user = user
  BY <1>3
<1> HIDE DEF e
<1>7. FaultInv'
  BY <1>1, <1>3, <1>4, <1>5, <1>6 DEF FaultInv, Refuses
<1>8. LeafInv'
  BY <1>1, SameLeafInv
<1>9. \A b \in Addr : View(pc', paging', root', tbl', b) = View(pc, paging, root, tbl, b)
  BY <1>1, SameViews
<1>10. CacheStep
  BY <1>1, <1>9, TlbResume
<1> QED BY <1>7, <1>8, <1>10 DEF CacheInv


-----------------------------------------------------------------------------
(* Steps that make a new context or take leaves out.                       *)

\* A new context has no leaves.
LEMMA FreshGone ==
    ASSUME IInv, pc # "off", FreshContext, held' = held
    PROVE  \A a \in Addr : LeafAt(root', tbl', a) = Zero
<1>1. root' \in Pages
  BY FreshContextLive
<1>2. tbl' = Released(Subtree(root), tbl)
  BY DEF FreshContext, NewRoot
<1>3. \A p \in Pages : tbl'[p] = Empty
  BY <1>2, AllReleased
<1> QED BY <1>1, <1>3, NoLeaves

\* set_cr0 drops everything, as a change of mode does.
LEMMA SetCr0Refines ==
    ASSUME IInv, NEW pg \in BOOLEAN, NEW writeProtect \in BOOLEAN, set_cr0(pg, writeProtect)
    PROVE  CacheInv' /\ CacheStep
<1>1. /\ pc # "off" /\ pc' = "exit" /\ FreshContext /\ held' = held
      /\ obs' = [k |-> "mode"]
  BY DEF set_cr0, Running
<1>2. \A a \in Addr : LeafAt(root', tbl', a) = Zero
  BY <1>1, FreshGone
<1>3. LeafInv'
  BY <1>2, EntryKinds DEF LeafInv, SuperOK, BigOK
<1>4. FaultInv'
  BY <1>1, NoFaultInv
<1>5. [a \in Addr |-> Remembered(a)]' = [a \in Addr |-> {}]
  BY <1>2, EntryKinds, EmptyTlb DEF GoneAt
<1>6. Tlb!SetMode
  BY <1>1, <1>5 DEF Tlb!SetMode
<1> QED BY <1>3, <1>4, <1>6 DEF CacheInv, CacheStep

\* A flush for want of memory forgets everything.
LEMMA FlushRefines ==
    ASSUME IInv, CacheInv, pc \in {"fetch", "map"}, nonpaging_flush
    PROVE  CacheInv' /\ CacheStep
<1>1. /\ FreshContext /\ held' = held /\ pc' = pc /\ flt' = flt /\ pc # "off"
      /\ obs' = Quiet /\ UNCHANGED <<gpde, gpte, paging, wp>>
  BY DEF nonpaging_flush, guestVars
<1>2. \A a \in Addr : LeafAt(root', tbl', a) = Zero
  BY <1>1, FreshGone
<1>3. LeafInv'
  BY <1>2, EntryKinds DEF LeafInv, SuperOK, BigOK
<1>4. FaultInv'
  BY <1>1 DEF CacheInv, FaultInv
<1>5. \A a \in Addr : FadesAt(root, tbl, root', tbl', a)
  BY <1>2, EntryKinds DEF FadesAt, GoneAt
<1>6. CacheStep
  BY <1>1, <1>5, TlbForget
<1> QED BY <1>3, <1>4, <1>6 DEF CacheInv

\* kvm_mmu_flush_tlb leaves what is global, or drops the translation.
LEMMA FlushTlbFades ==
    ASSUME IInv, pc # "off", paging, kvm_mmu_flush_tlb, NEW a \in Addr
    PROVE  /\ FadesAt(root, tbl, root', tbl', a)
           /\ IsLeaf(LeafAt(root', tbl', a)) => LeafAt(root', tbl', a).g
<1> DEFINE S == FlushedPages
           p == LeafIn(root, tbl, a)
<1>1. Tree(root, hdr, tbl) /\ HeadersOf(hdr) /\ tbl \in TableFile
  BY ContextLive
<1>2. /\ root' = root
      /\ tbl' = [q \in Pages |->
                   [i \in Idx |-> IF q \in S \/ (\E x \in S : hdr[x].parent = <<q, i>>)
                                  THEN Zero ELSE tbl[q][i]]]
  BY DEF kvm_mmu_flush_tlb, rootVars
<1>3. S \in SUBSET DOMAIN hdr /\ \A q \in S : ~Upper(root, hdr, q)
  BY <1>1 DEF FlushedPages, active, Tree, UpperOK
<1>4. Cleared(hdr, S, tbl, tbl')
  <2> HIDE DEF S
  <2> QED BY <1>2 DEF Cleared
<1>5. p # NoPage /\ p \notin S => hdr[p].global
  <2>1. p # NoPage => p \in DOMAIN hdr /\ hdr[p].parent = <<DirIn(root, tbl, a), a[2]>>
                      /\ DirIn(root, tbl, a) \in DOMAIN hdr
    BY <1>1, Paths
  <2>2. a[2] \in Idx /\ \A q \in DOMAIN hdr, i \in Idx : NoPage # <<q, i>>
    BY <1>1, MmuAssumption DEF Levels, HeadersOf
  <2> HIDE DEF p
  <2>3. p # NoPage => hdr[p].parent # NoPage
    BY <2>1, <2>2
  <2> QED BY <2>1, <2>3 DEF FlushedPages, active
<1> HIDE DEF S
<1>6. /\ p \in S \cup {NoPage} => LeafAt(root, tbl', a) = Zero
      /\ p \notin S \cup {NoPage} => SameAt(root, tbl, root, tbl', a)
  BY <1>1, <1>3, <1>4, DropFades
<1>7. CASE p \in S \cup {NoPage}
  BY <1>2, <1>6, <1>7, EntryKinds DEF FadesAt, GoneAt
<1>8. CASE p \notin S \cup {NoPage}
  <2>1. SameAt(root, tbl, root', tbl', a)
    BY <1>2, <1>6, <1>8
  <2>2. FadesAt(root, tbl, root', tbl', a)
    BY <2>1, SameFades
  <2>3. IsLeaf(LeafAt(root, tbl, a)) => EntryOK(paging, hdr[p], LeafAt(root, tbl, a))
    BY LeafTyped
  <2>4. hdr[p].global
    BY <1>5, <1>8
  <2> HIDE DEF p
  <2>5. IsLeaf(LeafAt(root, tbl, a)) => LeafAt(root, tbl, a).g
    BY <2>3, <2>4 DEF EntryOK
  <2> QED BY <2>1, <2>2, <2>5 DEF SameAt
<1> QED BY <1>7, <1>8

\* A load of CR3.
LEMMA SetCr3Refines ==
    ASSUME IInv, CacheInv, set_cr3
    PROVE  CacheInv' /\ CacheStep
<1>1. /\ pc # "off" /\ pc' = "exit" /\ pc' # "off"
      /\ UNCHANGED <<gpde, gpte, paging, wp>>
  BY DEF set_cr3, Running, guestVars
<1>2. FaultInv'
  BY <1>1, NoFaultInv
<1>3. CASE paging
  <2>1. kvm_mmu_flush_tlb /\ obs' = [k |-> "cr3"]
    BY <1>3 DEF set_cr3
  <2>2. \A a \in Addr : FadesAt(root, tbl, root', tbl', a)
    BY <1>1, <1>3, <2>1, FlushTlbFades
  <2>3. LeafInv'
    BY <1>1, <2>2, FadesKeep
  <2>4. Tlb!Forgets
    BY <1>1, <2>2, FadesForget
  <2>5. ASSUME NEW a \in Addr, NEW m \in Remembered(a)' PROVE m.g
    <3>1. IsLeaf(LeafAt(root', tbl', a)) /\ m = Memory(paging', LeafAt(root', tbl', a))
      BY <2>5, Views DEF View
    <3>2. LeafAt(root', tbl', a).g
      BY <1>1, <1>3, <2>1, <3>1, FlushTlbFades
    <3> QED BY <3>1, <3>2 DEF Memory
  <2>6. Tlb!LoadCr3
    BY <1>1, <2>1, <2>4, <2>5 DEF Tlb!LoadCr3
  <2> QED BY <1>2, <2>3, <2>6 DEF CacheInv, CacheStep
<1>4. CASE ~paging
  <2>1. UNCHANGED <<tbl, root>> /\ obs' = Quiet
    BY <1>4 DEF set_cr3, poolVars, rootVars
  <2>2. LeafInv'
    BY <1>1, <2>1, SameLeafInv
  <2>3. \A a \in Addr : View(pc', paging', root', tbl', a) = View(pc, paging, root, tbl, a)
    BY <1>1, <2>1, SameViews
  <2>4. CacheStep
    BY <1>1, <2>1, <2>3, TlbResume
  <2> QED BY <1>2, <2>2, <2>4 DEF CacheInv
<1> QED BY <1>3, <1>4


\* One entry of a leaf page written.
LEMMA PutEdited ==
    ASSUME NEW r, NEW h, NEW t, Tree(r, h, t), HeadersOf(h), t \in TableFile,
           NEW c \in DOMAIN h, ~Upper(r, h, c), NEW i \in Idx, NEW e \in Entry, ~IsTable(e)
    PROVE  /\ EditedAt(r, h, t, Put(t, c, i, e), c, i)
           /\ Put(t, c, i, e)[c][i] = e
<1>1. DOMAIN h \subseteq Pages /\ c \in Pages
  BY DEF HeadersOf
<1> DEFINE t2 == Put(t, c, i, e)
<1>2. \A q \in Pages, j \in Idx : t2[q][j] = IF q = c /\ j = i THEN e ELSE t[q][j]
  BY <1>1, PutFields
<1>3. ~IsTable(t[c][i])
  BY LeafPages
<1> HIDE DEF t2
<1>4. SameTables(h, t, t2)
  BY <1>1, <1>2, <1>3 DEF SameTables
<1>5. \A p \in DOMAIN h, j \in Idx : IsTable(t[p][j]) => (t[p][j].ps => t2[p][j].ps)
  BY <1>1, <1>2, <1>3
<1>6. \A p \in DOMAIN h, j \in Idx :
         ~Upper(r, h, p) /\ ~(p = c /\ j = i) => t2[p][j] = t[p][j]
  BY <1>1, <1>2
<1>7. EditedAt(r, h, t, t2, c, i) /\ t2[c][i] = e
  BY <1>1, <1>2, <1>4, <1>5, <1>6 DEF EditedAt
<1> QED BY <1>7 DEF t2

\* paging_inval_page drops the translation of its address, and those of the
\* large page it may be in.
LEMMA InvalFades ==
    ASSUME IInv, CacheInv, pc # "off", root' = root, NEW a \in Addr, Invalidated(a), NEW b \in Addr
    PROVE  /\ FadesAt(root, tbl, root', tbl', b)
           /\ b = a => LeafAt(root', tbl', b) = Zero
           /\ Dir(b) = Dir(a) /\ IsLeaf(LeafAt(root', tbl', b)) => ~LeafAt(root', tbl', b).big
<1> DEFINE dir == DirIn(root, tbl, a)
           pt == LeafIn(root, tbl, a)
<1>1. /\ Tree(root, hdr, tbl) /\ HeadersOf(hdr) /\ tbl \in TableFile
      /\ DOMAIN hdr \subseteq Pages
  BY ContextLive DEF active
<1>2. Child(root, a[3]) = dir /\ LeafPage(root, a) = pt
  BY WalkNames
<1>3. pt # NoPage => /\ dir \in DOMAIN hdr /\ Upper(root, hdr, dir)
                     /\ pt \in DOMAIN hdr /\ ~Upper(root, hdr, pt)
                     /\ hdr[pt].parent = <<dir, a[2]>>
  BY <1>1, Paths
<1>4. a[1] \in Idx /\ a[2] \in Idx
  BY MmuAssumption DEF Levels
<1>5. Dir(b) = Dir(a) => b[2] = a[2] /\ DirIn(root, tbl, b) = dir /\ LeafIn(root, tbl, b) = pt
  BY DEF Dir, DirIn, LeafIn
<1>6. ~IsLeaf(Zero) /\ ~IsTable(Zero) /\ Zero \in Entry
  BY EntryKinds
<1>7. b = a => Dir(b) = Dir(a)
  OBVIOUS
<1> HIDE DEF dir, pt
<1>8. CASE pt = NoPage
  <2>1. tbl' = tbl
    BY <1>2, <1>8 DEF Invalidated
  <2>2. SameAt(root, tbl, root', tbl', b)
    BY <2>1 DEF SameAt
  <2>3. FadesAt(root, tbl, root', tbl', b)
    BY <2>2, SameFades
  <2>4. Dir(b) = Dir(a) => LeafAt(root', tbl', b) = Zero
    BY <1>5, <1>8, <2>1 DEF LeafAt
  <2> QED BY <1>6, <1>7, <2>3, <2>4
<1>9. CASE pt # NoPage /\ tbl[dir][a[2]].ps
  <2> DEFINE S == {pt}
             t == Released(S, tbl)
             j == a[2]
             z == Zero
  <2>1. tbl' = Put(t, dir, j, z)
    BY <1>2, <1>9 DEF Invalidated, Put
  <2>2. dir \in Pages /\ pt \in Pages /\ dir # pt /\ j \in Idx /\ z \in Entry
    BY <1>1, <1>3, <1>4, <1>6, <1>9
  <2>3. /\ t \in TableFile
        /\ \A p \in Pages, i \in Idx : t[p][i] = IF p = pt THEN Zero ELSE tbl[p][i]
    BY <1>1, EmptyPage DEF Released, TableFile
  <2> HIDE DEF t, j, z
  <2>4. \A q \in Pages, i \in Idx :
           Put(t, dir, j, z)[q][i] = IF q = dir /\ i = j THEN z ELSE t[q][i]
    BY <2>2, <2>3, PutFields
  <2>5. \A q \in Pages, i \in Idx :
           tbl'[q][i] = IF q = dir /\ i = a[2] THEN Zero ELSE t[q][i]
    BY <2>1, <2>4 DEF j, z
  <2>6. Cleared(hdr, S, tbl, tbl')
    BY <1>3, <1>9, <2>3, <2>5 DEF Cleared
  <2>7. S \in SUBSET DOMAIN hdr /\ \A p \in S : ~Upper(root, hdr, p)
    BY <1>3, <1>9
  <2>8. pt \in S
    OBVIOUS
  <2> HIDE DEF S
  <2>9. /\ LeafIn(root, tbl, b) \in S \cup {NoPage} => LeafAt(root, tbl', b) = Zero
        /\ LeafIn(root, tbl, b) \notin S \cup {NoPage} => SameAt(root, tbl, root, tbl', b)
    BY <1>1, <2>6, <2>7, DropFades
  <2>10. FadesAt(root, tbl, root', tbl', b)
    <3>1. CASE LeafIn(root, tbl, b) \in S \cup {NoPage}
      BY <1>6, <2>9, <3>1 DEF FadesAt, GoneAt
    <3>2. CASE LeafIn(root, tbl, b) \notin S \cup {NoPage}
      BY <2>9, <3>2, SameFades
    <3> QED BY <3>1, <3>2
  <2>11. Dir(b) = Dir(a) => LeafAt(root', tbl', b) = Zero
    BY <1>5, <2>8, <2>9
  <2> QED BY <1>6, <1>7, <2>10, <2>11
<1>10. CASE pt # NoPage /\ ~tbl[dir][a[2]].ps
  <2> DEFINE i == a[1]
             z == Zero
  <2>1. tbl' = Put(tbl, pt, i, z)
    BY <1>2, <1>10 DEF Invalidated, Put
  <2>2. i \in Idx /\ z \in Entry /\ ~IsTable(z) /\ ~IsLeaf(z)
    BY <1>4, <1>6
  <2>3. z = Zero /\ i = a[1]
    OBVIOUS
  <2> HIDE DEF i, z
  <2>4. EditedAt(root, hdr, tbl, tbl', pt, i) /\ tbl'[pt][i] = z
    BY <1>1, <1>3, <1>10, <2>1, <2>2, PutEdited
  <2>5. /\ LeafAt(root, tbl', a) = tbl'[pt][a[1]]
        /\ \A x \in Addr : x # a => SameAt(root, tbl, root, tbl', x)
    BY <1>1, <1>10, <2>3, <2>4, EditOne DEF pt
  <2>6. CASE b = a
    BY <1>6, <2>3, <2>4, <2>5, <2>6 DEF FadesAt, GoneAt
  <2>7. CASE b # a
    <3>1. SameAt(root, tbl, root', tbl', b)
      BY <2>5, <2>7
    <3>2. FadesAt(root, tbl, root', tbl', b)
      BY <3>1, SameFades
    <3>3. BigOK(PsAt(root, tbl, b), LeafAt(root, tbl, b))
      BY DEF CacheInv, LeafInv
    <3>4. Dir(b) = Dir(a) => ~PsAt(root, tbl, b)
      BY <1>5, <1>10 DEF PsAt
    <3>5. Dir(b) = Dir(a) /\ IsLeaf(LeafAt(root, tbl, b)) => ~LeafAt(root, tbl, b).big
      BY <3>3, <3>4 DEF BigOK
    <3> QED BY <2>7, <3>1, <3>2, <3>5 DEF SameAt
  <2> QED BY <2>6, <2>7
<1> QED BY <1>8, <1>9, <1>10

\* invlpg.
LEMMA InvalPageRefines ==
    ASSUME IInv, CacheInv, NEW a \in Addr, paging_inval_page(a)
    PROVE  CacheInv' /\ CacheStep
<1>1. /\ pc # "off" /\ pc' = "exit" /\ Invalidated(a) /\ obs' = [k |-> "invlpg", a |-> a]
      /\ UNCHANGED <<gpde, gpte, paging, wp, root>>
  BY DEF paging_inval_page, Running, guestVars, rootVars
<1>2. \A b \in Addr : FadesAt(root, tbl, root', tbl', b)
  BY <1>1, InvalFades
<1>3. CacheInv'
  BY <1>1, <1>2, FadesKeep, NoFaultInv DEF CacheInv
<1>4. Tlb!Forgets
  BY <1>1, <1>2, FadesForget
<1>5. LeafAt(root', tbl', a) = Zero
  BY <1>1, InvalFades
<1>6. Remembered(a)' = {}
  BY <1>5, Views, EntryKinds DEF View
<1>7. ASSUME NEW b \in Addr, Dir(b) = Dir(a), NEW m \in Remembered(b)' PROVE ~m.big
  <2>1. IsLeaf(LeafAt(root', tbl', b)) /\ m = Memory(paging', LeafAt(root', tbl', b))
    BY <1>7, Views DEF View
  <2>2. ~LeafAt(root', tbl', b).big
    BY <1>1, <1>7, <2>1, InvalFades
  <2> QED BY <2>1, <2>2 DEF Memory
<1>8. [x \in Addr |-> Eff(x)]' = [x \in Addr |-> Eff(x)]
  BY <1>1, SameEff
<1>9. Tlb!Invlpg(a)
  BY <1>1, <1>4, <1>6, <1>7, <1>8 DEF Tlb!Invlpg
<1> QED BY <1>3, <1>9 DEF CacheStep

\* Write access taken away is looked up again.
LEMMA RemoveWriteRefines ==
    ASSUME IInv, CacheInv, NEW s \in Slots, kvm_mmu_slot_remove_write_access(s)
    PROVE  CacheInv' /\ CacheStep
<1>1. /\ pc # "off" /\ pc' = pc /\ pc' \in {"guest", "exit"} /\ obs' = Quiet
      /\ UNCHANGED <<gpde, gpte, paging, wp, root>>
      /\ tbl' = [p \in Pages |->
                   [i \in Idx |-> IF p \in active /\ s \in hdr[p].slots /\ IsLeaf(tbl[p][i])
                                  THEN [tbl[p][i] EXCEPT !.w = FALSE] ELSE tbl[p][i]]]
  BY DEF kvm_mmu_slot_remove_write_access, faultVars, rootVars, guestVars
<1>2. /\ Tree(root, hdr, tbl) /\ HeadersOf(hdr) /\ tbl \in TableFile
      /\ DOMAIN hdr \subseteq Pages
  BY <1>1, ContextLive DEF active
<1>3. \A p \in Pages, i \in Idx :
         \/ tbl'[p][i] = tbl[p][i]
         \/ IsLeaf(tbl[p][i]) /\ tbl'[p][i] = [tbl[p][i] EXCEPT !.w = FALSE]
  BY <1>1
<1>4. ASSUME NEW e \in Entry, IsLeaf(e)
      PROVE  Faded(e, [e EXCEPT !.w = FALSE]) /\ IsLeaf([e EXCEPT !.w = FALSE])
  <2>1. e \in Leaf
    BY <1>4, EntryKinds
  <2> QED BY <1>4, <2>1 DEF Faded, Leaf, IsLeaf
<1>5. ASSUME NEW p \in Pages, NEW i \in Idx
      PROVE  \/ tbl'[p][i] = tbl[p][i]
             \/ Faded(tbl[p][i], tbl'[p][i]) /\ ~IsTable(tbl[p][i]) /\ ~IsTable(tbl'[p][i])
  <2>1. tbl[p][i] \in Entry
    BY <1>2 DEF TableFile
  <2>2. tbl'[p][i] = tbl[p][i] \/ Faded(tbl[p][i], tbl'[p][i])
    BY <1>3, <1>4, <2>1
  <2> QED BY <2>2, EntryKinds DEF Faded
<1>6. SameTables(hdr, tbl, tbl')
  BY <1>2, <1>5 DEF SameTables
<1>7. ASSUME NEW a \in Addr PROVE FadesAt(root, tbl, root', tbl', a)
  <2> DEFINE d == DirIn(root, tbl, a)
             p == LeafIn(root, tbl, a)
  <2>1. DirIn(root, tbl', a) = d /\ LeafIn(root, tbl', a) = p
    BY <1>2, <1>6, SamePaths
  <2>2. p # NoPage => d \in DOMAIN hdr /\ p \in DOMAIN hdr /\ IsTable(tbl[d][a[2]])
    BY <1>2, Paths
  <2>3. a[1] \in Idx /\ a[2] \in Idx
    BY MmuAssumption DEF Levels
  <2> HIDE DEF d, p
  <2>4. CASE p = NoPage
    BY <1>1, <2>1, <2>4, EntryKinds DEF FadesAt, GoneAt, LeafAt, p
  <2>5. CASE p # NoPage
    <3>1. d \in Pages /\ p \in Pages
      BY <1>2, <2>2, <2>5
    <3>2. tbl'[d][a[2]] = tbl[d][a[2]]
      BY <1>5, <2>2, <2>3, <2>5, <3>1, SMTT(30)
    <3>3. LeafAt(root, tbl, a) = tbl[p][a[1]] /\ LeafAt(root', tbl', a) = tbl'[p][a[1]]
      BY <1>1, <2>1, <2>5, ZenonT(40) DEF LeafAt, p
    <3>4. PsAt(root', tbl', a) = PsAt(root, tbl, a)
      BY <1>1, <2>1, <3>2 DEF PsAt, d
    <3>5. \/ tbl'[p][a[1]] = tbl[p][a[1]]
          \/ Faded(tbl[p][a[1]], tbl'[p][a[1]])
      BY <1>5, <2>3, <3>1
    <3>6. CASE tbl'[p][a[1]] = tbl[p][a[1]]
      BY <1>1, <3>3, <3>4, <3>6, SameFades DEF SameAt
    <3>7. CASE Faded(tbl[p][a[1]], tbl'[p][a[1]])
      BY <3>3, <3>4, <3>7 DEF FadesAt
    <3> QED BY <3>5, <3>6, <3>7
  <2> QED BY <2>4, <2>5
<1>8. CacheInv'
  BY <1>1, <1>7, FadesKeep, NoFaultInv DEF CacheInv
<1>9. CacheStep
  BY <1>1, <1>7, TlbForget
<1> QED BY <1>8, <1>9


-----------------------------------------------------------------------------
(* Steps of the fault handlers.                                            *)

\* The same leaves give the same views.
LEMMA SameAtViews ==
    ASSUME pc # "off", pc' # "off", paging' = paging,
           \A a \in Addr : SameAt(root, tbl, root', tbl', a)
    PROVE  \A a \in Addr : View(pc', paging', root', tbl', a) = View(pc, paging, root, tbl, a)
  BY DEF View, SameAt

\* At level 1 the entry the walk is at is the leaf of its address.
LEMMA HereIsLeafAt ==
    ASSUME IInv, pc \in Walking, lvl = 1
    PROVE  /\ cur = LeafIn(root, tbl, flt.a) /\ cur # NoPage /\ cur \in active
           /\ Here = LeafAt(root, tbl, flt.a) /\ Here = tbl[cur][flt.a[1]]
           /\ flt.a \in Addr /\ flt.a[1] \in Idx
<1>1. cur \in active /\ flt.a \in Addr /\ flt.a[1] \in Idx /\ pc # "off"
  BY InWalk
<1>2. cur = LeafIn(root, tbl, flt.a)
  BY WalkPage
<1>3. cur # NoPage
  BY <1>1, ContextLive, MmuAssumption
<1> QED BY <1>1, <1>2, <1>3 DEF Here, LeafAt

\* kvm_mmu_alloc_page.
LEMMA AllocRefines ==
    ASSUME IInv, CacheInv, pc \in {"fetch", "map"}, Here = Zero, lvl > 1,
           AllocPage(cur, flt.a[lvl]), UNCHANGED <<guestVars, pc, flt>>, obs' = Quiet
    PROVE  CacheInv' /\ CacheStep
<1> DEFINE new == First(free)
           i == flt.a[lvl]
<1>1. pc \in Walking /\ pc # "off" /\ pc' # "off" /\ pc' \notin {"fix", "check"}
      /\ UNCHANGED <<gpde, gpte, paging, wp>>
  BY DEF Walking, guestVars
<1>2. new \in free /\ tbl' = Put(tbl, cur, i, Table(new)) /\ root' = root
  BY FirstIn DEF AllocPage, Put
<1>3. cur \in DOMAIN hdr /\ lvl \in Levels /\ flt.a[2] \in Idx /\ flt.a[3] \in Idx
  BY <1>1, InWalk DEF active
<1>4. i \in Idx
  <2>1. lvl = 2 \/ lvl = 3
    BY <1>3 DEF Levels
  <2> QED BY <1>3, <2>1
<1>5. Upper(root, hdr, cur) /\ tbl[cur][i] = Zero
  BY <1>1, WalkPage DEF Here
<1>6. /\ Tree(root, hdr, tbl) /\ HeadersOf(hdr) /\ tbl \in TableFile
      /\ new \in Pages /\ new \notin DOMAIN hdr /\ tbl[new] = Empty
  BY <1>1, <1>2, ContextLive DEF active, Live, Lists
<1> HIDE DEF new, i
<1>7. \A a \in Addr : SameAt(root, tbl, root, Put(tbl, cur, i, Table(new)), a)
  BY <1>3, <1>4, <1>5, <1>6, AddSame
<1>8. \A a \in Addr : SameAt(root, tbl, root', tbl', a)
  BY <1>2, <1>7
<1>9. LeafInv'
  BY <1>1, <1>8, SameFades, FadesKeep
<1>10. FaultInv'
  BY <1>1 DEF CacheInv, FaultInv
<1>11. CacheStep
  BY <1>1, <1>8, SameAtViews, TlbResume
<1> QED BY <1>9, <1>10, <1>11 DEF CacheInv

\* The guest's entry is not there, or is a translation.
LEMMA EffCases ==
    ASSUME IInv, NEW a \in Addr
    PROVE  /\ paging /\ ~GuestPresent(a, 1) => Eff(a) = Absent
           /\ paging /\ GuestPresent(a, 1) => Eff(a) \in Translation /\ Eff(a) # Absent
           /\ ~paging => /\ Eff(a) \in Translation /\ Eff(a) # Absent
                         /\ Eff(a).f = Identity[a] /\ Eff(a).w /\ Eff(a).u /\ Eff(a).d
                         /\ ~Eff(a).g /\ ~Eff(a).big
<1>1. paging /\ ~GuestPresent(a, 1) => Eff(a) = Absent
  BY DEF Eff
<1>2. paging /\ GuestPresent(a, 1) => Eff(a) \in Translation
  BY EffTyped DEF IInv
<1> DEFINE flat == [f |-> Identity[a], w |-> TRUE, u |-> TRUE, g |-> FALSE, d |-> TRUE,
                    big |-> FALSE]
<1>3. ~paging => Eff(a) = flat
  BY DEF Eff
<1>4. /\ flat \in Translation /\ flat.f = Identity[a] /\ flat.w /\ flat.u /\ flat.d
      /\ ~flat.g /\ ~flat.big
  <2>1. Identity[a] \in Frames
    BY MmuAssumption
  <2> QED BY <2>1 DEF Translation
<1> HIDE DEF flat
<1> QED BY <1>1, <1>2, <1>3, <1>4, AbsentAssumption

\* The guest gets a page fault.
LEMMA TlbFault ==
    ASSUME IInv, CacheInv, pc \in Walking, UNCHANGED <<guestVars, poolVars, rootVars>>,
           inject_page_fault,
           \/ Eff(flt.a) = Absent
           \/ \E m \in Remembered(flt.a) : ~Tlb!Permits(m, flt.write, flt.user)
    PROVE  CacheInv' /\ CacheStep
<1> DEFINE a == flt.a
           write == flt.write
           user == flt.user
<1>1. /\ pc # "off" /\ pc' = "exit" /\ UNCHANGED <<gpde, gpte, paging, wp, tbl, root>>
      /\ obs' = [k |-> "fault", a |-> a, write |-> write, user |-> user]
  BY DEF Walking, guestVars, poolVars, rootVars, inject_page_fault, ReturnSeen, Seen
<1>2. a \in Addr /\ write \in BOOLEAN /\ user \in BOOLEAN
  BY InWalk
<1>3. CacheInv'
  BY <1>1, SameLeafInv, NoFaultInv DEF CacheInv
<1> HIDE DEF a, write, user
<1>4. \A b \in Addr : SameAt(root, tbl, root', tbl', b)
  BY <1>1 DEF SameAt
<1>5. Tlb!Forgets
  BY <1>1, <1>4, SameFades, FadesForget
<1>6. [b \in Addr |-> Eff(b)]' = [b \in Addr |-> Eff(b)]
  BY <1>1, SameEff
<1>7. \E m \in Remembered(a) \cup {Eff(a)} : ~Tlb!Permits(m, write, user)
  <2>1. CASE Eff(a) = Absent
    BY <2>1 DEF Tlb!Permits
  <2>2. CASE \E m \in Remembered(a) : ~Tlb!Permits(m, write, user)
    BY <2>2
  <2> QED BY <2>1, <2>2 DEF a, write, user
<1>8. \E m \in [b \in Addr |-> Remembered(b)][a] \cup {[b \in Addr |-> Eff(b)][a]} :
         ~Tlb!Permits(m, write, user)
  BY <1>2, <1>7
<1>9. Tlb!Fault(a, write, user)
  BY <1>1, <1>5, <1>6, <1>8 DEF Tlb!Fault
<1> QED BY <1>2, <1>3, <1>9 DEF CacheStep

\* What the handler could not fix, the translation forbids.
LEMMA CheckedForbids ==
    ASSUME IInv, pc = "check", IsLeaf(Here), ~may_access(Here, flt.write, flt.user)
    PROVE  \E m \in Remembered(flt.a) : ~Tlb!Permits(m, flt.write, flt.user)
<1>1. pc \in Walking /\ pc # "off"
  BY DEF Walking
<1>2. Walk(paging, pc, flt, lvl, cur, hdr, tbl, root) /\ flt.a \in Addr
  BY <1>1, InWalk
<1>3. lvl = 1 /\ paging /\ paging \in BOOLEAN
  BY <1>2 DEF Walk, IInv, GuestInv
<1>4. Here = LeafAt(root, tbl, flt.a) /\ Here = tbl[cur][flt.a[1]]
      /\ cur = LeafIn(root, tbl, flt.a)
  BY <1>1, <1>3, HereIsLeafAt
<1>5. Here \in Leaf /\ EntryOK(paging, hdr[cur], Here)
  BY <1>1, <1>2, <1>4, LeafTyped
<1>6. Checked(wp, flt, Here)
  BY <1>4 DEF IInv, WalkInv
<1> DEFINE e == Here
           m == Memory(paging, e)
<1>7. m.w = (e.sw \/ ~paging) /\ m.u = (e.su \/ ~paging)
  BY <1>3, <1>5, MemoryTyped
<1>8. Remembered(flt.a) = {m}
  BY <1>1, <1>2, <1>4, Views DEF View
<1> HIDE DEF e, m
<1>9. ~((flt.user => m.u) /\ (flt.write => m.w \/ (~flt.user /\ ~wp)))
  BY <1>3, <1>5, <1>6, <1>7 DEF Checked, EntryOK, may_access, e
<1>10. ~Tlb!Permits(m, flt.write, flt.user)
  BY <1>9 DEF Tlb!Permits
<1> QED BY <1>8, <1>10


\* A page fault for the guest: its tables, or the translation, forbid the access.
LEMMA InjectRefines ==
    ASSUME IInv, CacheInv, FetchUnmapped \/ InjectsIo \/ Injects
    PROVE  CacheInv' /\ CacheStep
<1>1. /\ pc \in {"fetch", "check"} /\ pc \in Walking /\ inject_page_fault
      /\ UNCHANGED <<guestVars, poolVars, rootVars>>
  BY DEF FetchUnmapped, InjectsIo, Injects, Missing, Walking
<1>2. flt.a \in Addr /\ lvl \in Levels /\ Walk(paging, pc, flt, lvl, cur, hdr, tbl, root)
  BY <1>1, InWalk
<1>3. paging
  BY <1>1, <1>2 DEF Walk, IInv, GuestInv
<1>4. CASE ~GuestPresent(flt.a, 1)
  <2>1. Eff(flt.a) = Absent
    BY <1>2, <1>3, <1>4, EffCases
  <2> QED BY <1>1, <2>1, TlbFault
<1>5. CASE FetchUnmapped
  <2>1. ~GuestPresent(flt.a, lvl)
    BY <1>5 DEF FetchUnmapped
  <2>2. lvl = 1 \/ lvl = 2 \/ lvl = 3
    BY <1>2 DEF Levels
  <2>3. GuestPresent(flt.a, 3) /\ (GuestPresent(flt.a, 1) => GuestPresent(flt.a, 2))
    BY DEF GuestPresent
  <2>4. ~GuestPresent(flt.a, 1)
    BY <2>1, <2>2, <2>3
  <2> QED BY <1>4, <2>4
<1>6. CASE pc = "check" /\ IsLeaf(Here) /\ ~may_access(Here, flt.write, flt.user)
  <2>1. \E m \in Remembered(flt.a) : ~Tlb!Permits(m, flt.write, flt.user)
    BY <1>6, CheckedForbids
  <2> QED BY <1>1, <2>1, TlbFault
<1>7. CASE Injects
  <2>1. pc = "check" /\ flt.p /\ ~flt.fixed /\ (IsLeaf(Here) => Here.p)
    BY <1>7 DEF Injects, is_io_pte
  <2>2. Refuses(Here, flt) /\ (~IsLeaf(Here) => ~GuestPresent(flt.a, 1))
    BY <2>1 DEF CacheInv, FaultInv
  <2>3. IsLeaf(Here) => ~may_access(Here, flt.write, flt.user)
    BY <2>1, <2>2 DEF Refuses, HwPermits, may_access
  <2> QED BY <1>4, <1>6, <2>1, <2>2, <2>3
<1>8. CASE InjectsIo
  BY <1>6, <1>8 DEF InjectsIo
<1> QED BY <1>5, <1>7, <1>8

\* An access to memory that is not there is emulated.
LEMMA TlbEmulate ==
    ASSUME IInv, CacheInv, pc \in Walking, UNCHANGED <<guestVars, poolVars, rootVars>>,
           ReturnSeen(Seen("emulate", flt.a, flt.write, flt.user)),
           \/ Tlb!Permits(Eff(flt.a), flt.write, flt.user)
           \/ \E m \in Remembered(flt.a) : Tlb!Permits(m, flt.write, flt.user)
    PROVE  CacheInv' /\ CacheStep
<1> DEFINE a == flt.a
           write == flt.write
           user == flt.user
<1>1. /\ pc # "off" /\ pc' = "exit" /\ UNCHANGED <<gpde, gpte, paging, wp, tbl, root>>
      /\ obs' = [k |-> "emulate", a |-> a, write |-> write, user |-> user]
  BY DEF Walking, guestVars, poolVars, rootVars, ReturnSeen, Seen
<1>2. a \in Addr /\ write \in BOOLEAN /\ user \in BOOLEAN
  BY InWalk
<1>3. CacheInv'
  BY <1>1, SameLeafInv, NoFaultInv DEF CacheInv
<1>4. \E m \in Remembered(a) \cup {Eff(a)} : Tlb!Permits(m, write, user)
  OBVIOUS
<1> HIDE DEF a, write, user
<1>5. [b \in Addr |-> Remembered(b)]' = [b \in Addr |-> Remembered(b)]
  BY <1>1, SameViews, SameTlb
<1>6. [b \in Addr |-> Eff(b)]' = [b \in Addr |-> Eff(b)]
  BY <1>1, SameEff
<1>7. \E m \in [b \in Addr |-> Remembered(b)][a] \cup {[b \in Addr |-> Eff(b)][a]} :
         Tlb!Permits(m, write, user)
  BY <1>2, <1>4
<1>8. Tlb!Emulate(a, write, user)
  BY <1>1, <1>5, <1>6, <1>7 DEF Tlb!Emulate
<1> QED BY <1>2, <1>3, <1>8 DEF CacheStep

\* The other ways back to the guest: emulate, or try again.
LEMMA ReturnRefines ==
    ASSUME IInv, CacheInv, Emulates \/ MapEmulates \/ Retries
    PROVE  CacheInv' /\ CacheStep
<1>1. pc \in {"check", "map"} /\ pc \in Walking /\ UNCHANGED <<guestVars, poolVars, rootVars>>
  BY DEF Emulates, MapEmulates, Retries, Mapping, Walking
<1>2. /\ flt.a \in Addr /\ Walk(paging, pc, flt, lvl, cur, hdr, tbl, root) /\ pc # "off"
      /\ flt.write \in BOOLEAN /\ flt.user \in BOOLEAN
  BY <1>1, InWalk
<1>3. CASE Emulates
  <2>1. /\ pc = "check" /\ IsLeaf(Here) /\ may_access(Here, flt.write, flt.user)
        /\ ReturnSeen(Seen("emulate", flt.a, flt.write, flt.user))
    BY <1>3 DEF Emulates
  <2>2. lvl = 1
    BY <1>2, <2>1 DEF Walk
  <2>3. Here = LeafAt(root, tbl, flt.a)
    BY <1>1, <2>2, HereIsLeafAt
  <2>4. Tlb!Permits(Memory(paging, Here), flt.write, flt.user)
    BY <1>2, <2>1, <2>3, LeafPermits
  <2>5. Remembered(flt.a) = {Memory(paging, Here)}
    BY <1>2, <2>1, <2>3, Views DEF View
  <2> QED BY <1>1, <2>1, <2>4, <2>5, TlbEmulate
<1>4. CASE MapEmulates
  <2>1. pc = "map" /\ ReturnSeen(Seen("emulate", flt.a, flt.write, flt.user))
    BY <1>4 DEF MapEmulates, Mapping
  <2>2. ~paging
    BY <1>2, <2>1 DEF Walk, IInv, GuestInv
  <2>3. Eff(flt.a) # Absent /\ Eff(flt.a).w /\ Eff(flt.a).u
    BY <1>2, <2>2, EffCases
  <2>4. Tlb!Permits(Eff(flt.a), flt.write, flt.user)
    BY <2>3 DEF Tlb!Permits
  <2> QED BY <1>1, <2>1, <2>4, TlbEmulate
<1>5. CASE Retries
  <2>1. /\ pc' = "guest" /\ obs' = Quiet /\ UNCHANGED <<gpde, gpte, paging, wp, tbl, root>>
    BY <1>1, <1>5 DEF Retries, Return, guestVars, poolVars, rootVars
  <2>2. CacheInv'
    BY <1>2, <2>1, SameLeafInv, NoFaultInv DEF CacheInv
  <2>3. \A b \in Addr : View(pc', paging', root', tbl', b) = View(pc, paging, root, tbl, b)
    BY <1>2, <2>1, SameViews
  <2> QED BY <2>1, <2>2, <2>3, TlbResume
<1> QED BY <1>3, <1>4, <1>5


\* The entry the walk is at, rewritten: no other address sees it.
LEMMA WroteHere ==
    ASSUME IInv, pc \in Walking, lvl = 1, root' = root,
           EditedAt(root, hdr, tbl, tbl', cur, flt.a[1])
    PROVE  /\ LeafAt(root', tbl', flt.a) = tbl'[cur][flt.a[1]]
           /\ PsAt(root, tbl, flt.a) => PsAt(root', tbl', flt.a)
           /\ \A b \in Addr : b # flt.a => SameAt(root, tbl, root', tbl', b)
           /\ DirIn(root', tbl', flt.a) = DirIn(root, tbl, flt.a)
<1>1. /\ cur = LeafIn(root, tbl, flt.a) /\ cur # NoPage /\ flt.a \in Addr
  BY HereIsLeafAt
<1>2. Tree(root, hdr, tbl) /\ HeadersOf(hdr)
  BY InWalk, ContextLive
<1> DEFINE a == flt.a
<1>3. a \in Addr /\ LeafIn(root, tbl, a) # NoPage
      /\ EditedAt(root, hdr, tbl, tbl', LeafIn(root, tbl, a), a[1])
  BY <1>1
<1> HIDE DEF a
<1>4. /\ LeafAt(root, tbl', a) = tbl'[LeafIn(root, tbl, a)][a[1]]
      /\ PsAt(root, tbl, a) => PsAt(root, tbl', a)
      /\ \A b \in Addr : b # a => SameAt(root, tbl, root, tbl', b)
  BY <1>2, <1>3, EditOne
<1>5. DirIn(root, tbl', a) = DirIn(root, tbl, a)
  BY <1>2, <1>3, SamePaths DEF EditedAt
<1> QED BY <1>1, <1>4, <1>5 DEF a

\* What is said of leaves, if only one changed.
LEMMA EditKeeps ==
    ASSUME CacheInv, pc # "off", UNCHANGED <<paging, wp>>, NEW a \in Addr,
           \A b \in Addr : b # a => SameAt(root, tbl, root', tbl', b),
           SuperOK(paging, wp, LeafAt(root', tbl', a)),
           BigOK(PsAt(root', tbl', a), LeafAt(root', tbl', a))
    PROVE  LeafInv'
<1> SUFFICES ASSUME NEW b \in Addr
             PROVE  /\ SuperOK(paging, wp, LeafAt(root', tbl', b))
                    /\ BigOK(PsAt(root', tbl', b), LeafAt(root', tbl', b))
  BY DEF LeafInv
<1>1. CASE b = a
  BY <1>1
<1>2. CASE b # a
  <2>1. SuperOK(paging, wp, LeafAt(root, tbl, b)) /\ BigOK(PsAt(root, tbl, b), LeafAt(root, tbl, b))
    BY DEF CacheInv, LeafInv
  <2>2. SameAt(root, tbl, root', tbl', b)
    BY <1>2
  <2> QED BY <2>1, <2>2 DEF SameAt, SuperOK, BigOK
<1> QED BY <1>1, <1>2

\* A walk of the guest's tables is remembered.
LEMMA TlbFill ==
    ASSUME IInv, pc # "off", pc' # "off", obs' = Quiet, UNCHANGED <<gpde, gpte, paging, wp>>,
           NEW a \in Addr, \A b \in Addr : b # a => SameAt(root, tbl, root', tbl', b),
           IsLeaf(LeafAt(root', tbl', a)), Eff(a) # Absent,
           Memory(paging, LeafAt(root', tbl', a)) \in Tlb!Memories(Eff(a))
    PROVE  CacheStep
<1> DEFINE m == Memory(paging, LeafAt(root', tbl', a))
<1>1. Remembered(a)' = {m}
  BY Views DEF View
<1>2. ASSUME NEW b \in Addr, b # a PROVE Remembered(b)' = Remembered(b)
  BY <1>2, Views DEF View, SameAt
<1> HIDE DEF m
<1>3. [x \in Addr |-> Remembered(x)]' = [[x \in Addr |-> Remembered(x)] EXCEPT ![a] = {m}]
  BY <1>1, <1>2
<1>4. [x \in Addr |-> Eff(x)]' = [x \in Addr |-> Eff(x)]
  BY SameEff
<1>5. [x \in Addr |-> Eff(x)][a] = Eff(a) /\ m \in Tlb!Memories(Eff(a))
  BY DEF m
<1>6. Tlb!Fill(a)
  BY <1>3, <1>4, <1>5 DEF Tlb!Fill, Tlb!Quiet, Quiet
<1> QED BY <1>6 DEF CacheStep

\* The mark for large pages changes nothing else.
LEMMA MarkEdited ==
    ASSUME NEW r, NEW h, HeadersOf(h), NEW t, NEW t1 \in TableFile, NEW c, NEW i,
           EditedAt(r, h, t, t1, c, i), ~Upper(r, h, c), c \in Pages,
           NEW u \in DOMAIN h, Upper(r, h, u), NEW j \in Idx, IsTable(t1[u][j])
    PROVE  /\ EditedAt(r, h, t, Put(t1, u, j, Marked(t1[u][j])), c, i)
           /\ Put(t1, u, j, Marked(t1[u][j]))[c] = t1[c]
           /\ Put(t1, u, j, Marked(t1[u][j]))[u][j].ps
<1> DEFINE e == Marked(t1[u][j])
           t2 == Put(t1, u, j, e)
<1>1. DOMAIN h \subseteq Pages /\ u \in Pages /\ u # c
  BY DEF HeadersOf
<1>2. t1[u][j] \in Entry
  BY <1>1 DEF TableFile
<1>3. t1[u][j] \in [k : {"table"}, to : Pages, ps : BOOLEAN]
  BY <1>2 DEF IsTable, Entry, Zero, Leaf
<1>4. e \in Entry /\ IsTable(e) /\ e.to = t1[u][j].to /\ e.ps
  BY <1>3 DEF Marked, Entry, IsTable
<1> HIDE DEF e
<1>5. /\ \A q \in Pages, l \in Idx : t2[q][l] = IF q = u /\ l = j THEN e ELSE t1[q][l]
      /\ \A q \in Pages : q # u => t2[q] = t1[q]
  BY <1>1, <1>4, PutFields
<1> HIDE DEF t2
<1>6. SameTables(h, t, t2)
  BY <1>1, <1>4, <1>5 DEF EditedAt, SameTables
<1>7. \A p \in DOMAIN h, l \in Idx : IsTable(t[p][l]) => (t[p][l].ps => t2[p][l].ps)
  BY <1>1, <1>4, <1>5 DEF EditedAt
<1>8. \A p \in DOMAIN h, l \in Idx :
         ~Upper(r, h, p) /\ ~(p = c /\ l = i) => t2[p][l] = t[p][l]
  BY <1>1, <1>5 DEF EditedAt
<1>9. t2[c] = t1[c] /\ t2[u][j].ps
  BY <1>1, <1>4, <1>5
<1> QED BY <1>6, <1>7, <1>8, <1>9 DEF EditedAt, e, t2

\* nonpaging_map fills in the identity translation.
LEMMA MapSetRefines ==
    ASSUME IInv, CacheInv, MapSet
    PROVE  CacheInv' /\ CacheStep
<1> DEFINE a == flt.a
           i == flt.a[1]
           f == Identity[flt.a]
           leaf == [k |-> "leaf", p |-> TRUE, f |-> f, w |-> TRUE, u |-> TRUE,
                    sw |-> FALSE, su |-> FALSE, g |-> FALSE, big |-> FALSE]
<1>1. /\ pc = "map" /\ pc \in Walking /\ pc' = "guest" /\ lvl = 1 /\ obs' = Quiet
      /\ UNCHANGED <<gpde, gpte, paging, wp, root>>
      /\ tbl' = Put(tbl, cur, i, leaf)
  BY DEF MapSet, Mapping, Return, rootVars, guestVars, Walking, Put
<1>2. /\ a \in Addr /\ cur \in DOMAIN hdr /\ pc # "off" /\ i \in Idx
      /\ Walk(paging, pc, flt, lvl, cur, hdr, tbl, root)
  BY <1>1, InWalk DEF active
<1>3. ~paging /\ paging \in BOOLEAN
  BY <1>1, <1>2 DEF Walk, IInv, GuestInv
<1>4. ~Upper(root, hdr, cur)
  BY <1>1, WalkPage
<1>5. Tree(root, hdr, tbl) /\ HeadersOf(hdr) /\ tbl \in TableFile
  BY <1>2, ContextLive
<1>6. /\ Eff(a) \in Translation /\ Eff(a) # Absent /\ Eff(a).f = f /\ Eff(a).w /\ Eff(a).u
      /\ Eff(a).d /\ ~Eff(a).g /\ ~Eff(a).big
  BY <1>2, <1>3, EffCases
<1>7. f \in Frames
  BY <1>2, MmuAssumption
<1> HIDE DEF f
<1>8. /\ leaf \in Leaf /\ leaf.f = f /\ leaf.w /\ ~leaf.g /\ ~leaf.big
  BY <1>7 DEF Leaf
<1> HIDE DEF leaf
<1>9. leaf \in Entry /\ ~IsTable(leaf) /\ IsLeaf(leaf)
  BY <1>8, EntryKinds
<1> HIDE DEF i
<1>10. /\ EditedAt(root, hdr, tbl, Put(tbl, cur, i, leaf), cur, i)
       /\ Put(tbl, cur, i, leaf)[cur][i] = leaf
  BY <1>2, <1>4, <1>5, <1>9, PutEdited
<1>11. EditedAt(root, hdr, tbl, tbl', cur, flt.a[1]) /\ tbl'[cur][flt.a[1]] = leaf
  BY <1>1, <1>10 DEF i
<1>12. /\ LeafAt(root', tbl', flt.a) = leaf
       /\ \A b \in Addr : b # flt.a => SameAt(root, tbl, root', tbl', b)
  BY <1>1, <1>11, WroteHere
<1> DEFINE m == Memory(paging, leaf)
<1>13. /\ m \in Translation /\ m.f = leaf.f /\ m.g = leaf.g /\ m.w = (leaf.sw \/ ~paging)
       /\ m.u = (leaf.su \/ ~paging) /\ m.d = leaf.w /\ m.big = leaf.big
  BY <1>3, <1>8, MemoryTyped
<1> DEFINE e == Eff(a)
<1>14. e \in Translation /\ e.f = f /\ e.w /\ e.u /\ e.d /\ ~e.g /\ ~e.big
  BY <1>6
<1> HIDE DEF m, e
<1>15. /\ m.f = e.f /\ m.w = e.w /\ m.u = e.u /\ m.big = e.big /\ m.g = e.g /\ m.d = e.d
  BY <1>3, <1>8, <1>13, <1>14 DEF Translation
<1>16. m \in Tlb!Memories(e)
  BY <1>13, <1>14, <1>15, InMemories
<1>17. Memory(paging, LeafAt(root', tbl', a)) \in Tlb!Memories(Eff(a))
       /\ IsLeaf(LeafAt(root', tbl', a))
  BY <1>9, <1>12, <1>16 DEF m, e
<1>18. CacheStep
  BY <1>1, <1>2, <1>6, <1>12, <1>17, TlbFill
<1>19. SuperOK(paging, wp, leaf) /\ BigOK(PsAt(root', tbl', a), leaf)
  BY <1>3, <1>8 DEF SuperOK, BigOK
<1>20. LeafInv'
  BY <1>1, <1>2, <1>12, <1>19, EditKeeps
<1> QED BY <1>1, <1>18, <1>20, NoFaultInv DEF CacheInv


\* The leaf of set_pte_common remembers the guest's entry.
LEMMA LeafRemembers ==
    ASSUME NEW e \in Translation, paging, paging \in BOOLEAN
    PROVE  /\ ShadowLeaf(e) \in Leaf /\ ShadowLeaf(e).big = e.big
           /\ ShadowLeaf(e).w => ShadowLeaf(e).sw
           /\ Memory(paging, ShadowLeaf(e)) \in Tlb!Memories(e)
<1> DEFINE l == ShadowLeaf(e)
           m == Memory(paging, l)
<1>1. /\ e.f \in Frames /\ e.w \in BOOLEAN /\ e.u \in BOOLEAN /\ e.g \in BOOLEAN
      /\ e.d \in BOOLEAN /\ e.big \in BOOLEAN
  BY DEF Translation
<1>2. /\ l \in Leaf /\ l.f = e.f /\ l.w = (e.w /\ e.d) /\ l.sw = e.w /\ l.su = e.u
      /\ l.g = e.g /\ l.big = e.big
  BY <1>1 DEF ShadowLeaf, Leaf
<1> HIDE DEF l
<1>3. /\ m \in Translation /\ m.f = l.f /\ m.g = l.g /\ m.w = (l.sw \/ ~paging)
      /\ m.u = (l.su \/ ~paging) /\ m.d = l.w /\ m.big = l.big
  BY <1>2, MemoryTyped
<1> HIDE DEF m
<1>4. /\ m.f = e.f /\ m.big = e.big /\ m.g \in {FALSE, e.g}
  BY <1>2, <1>3
<1>5. m.w = e.w /\ m.u = e.u
  BY <1>1, <1>2, <1>3
<1>6. m.d \in {FALSE, e.d}
  BY <1>1, <1>2, <1>3
<1>7. m \in Tlb!Memories(e)
  BY <1>3, <1>4, <1>5, <1>6, InMemories
<1> QED BY <1>1, <1>2, <1>7 DEF l, m

\* set_pte and set_pde fill in the guest's translation.
LEMMA FetchSetRefines ==
    ASSUME IInv, CacheInv, FetchSet
    PROVE  CacheInv' /\ CacheStep
<1> DEFINE a == flt.a
           i == a[1]
           j == a[2]
           e == Eff(a)
           leaf == ShadowLeaf(e)
           t1 == Put(tbl, cur, i, leaf)
           up == DirIn(root, tbl, a)
<1>1. /\ pc = "fetch" /\ pc \in Walking /\ lvl = 1 /\ pc' = "fix" /\ GuestPresent(a, 1)
      /\ obs' = Quiet /\ UNCHANGED <<gpde, gpte, paging, wp, flt, root>>
  BY DEF FetchSet, Missing, rootVars, guestVars, Walking
<1>2. /\ a \in Addr /\ cur \in DOMAIN hdr /\ pc # "off" /\ i \in Idx /\ j \in Idx
      /\ Walk(paging, pc, flt, lvl, cur, hdr, tbl, root)
  BY <1>1, InWalk DEF active
<1>3. paging /\ paging \in BOOLEAN
  BY <1>1, <1>2 DEF Walk, IInv, GuestInv
<1>4. /\ ~Upper(root, hdr, cur) /\ hdr[cur].parent = <<up, j>> /\ up \in DOMAIN hdr
      /\ Upper(root, hdr, up) /\ IsTable(tbl[up][j])
  BY <1>1, WalkPage DEF active
<1>5. /\ Tree(root, hdr, tbl) /\ HeadersOf(hdr) /\ tbl \in TableFile
      /\ DOMAIN hdr \subseteq Pages
  BY <1>2, ContextLive DEF active
<1>6. e \in Translation /\ e # Absent
  BY <1>1, <1>2, <1>3, EffCases
<1>7. tbl' = IF e.big THEN [t1 EXCEPT ![up][j].ps = TRUE] ELSE t1
  BY <1>4 DEF FetchSet, Put
<1> HIDE DEF a, i, j, e, up
<1>8. /\ leaf \in Leaf /\ leaf.big = e.big /\ (leaf.w => leaf.sw)
      /\ Memory(paging, leaf) \in Tlb!Memories(e)
  BY <1>3, <1>6, LeafRemembers
<1> HIDE DEF leaf
<1>9. leaf \in Entry /\ ~IsTable(leaf) /\ IsLeaf(leaf)
  BY <1>8, EntryKinds
<1>10. EditedAt(root, hdr, tbl, t1, cur, i) /\ t1[cur][i] = leaf
  BY <1>2, <1>4, <1>5, <1>9, PutEdited
<1>11. t1 \in TableFile
  BY <1>2, <1>5, <1>9, PutFields
<1> HIDE DEF t1
<1>12. /\ EditedAt(root, hdr, tbl, tbl', cur, i) /\ tbl'[cur][i] = leaf
       /\ e.big => tbl'[up][j].ps
  <2>1. CASE ~e.big
    BY <1>7, <1>10, <2>1
  <2>2. CASE e.big
    <3> DEFINE t2 == Put(t1, up, j, Marked(t1[up][j]))
    <3>1. IsTable(t1[up][j])
      BY <1>2, <1>4, <1>10 DEF EditedAt, SameTables
    <3>2. tbl' = t2
      BY <1>2, <1>4, <1>5, <1>7, <1>11, <2>2 DEF Put, Marked, TableFile
    <3>3. /\ EditedAt(root, hdr, tbl, t2, cur, i) /\ t2[cur] = t1[cur] /\ t2[up][j].ps
      BY <1>2, <1>4, <1>5, <1>10, <1>11, <3>1, MarkEdited
    <3> HIDE DEF t2
    <3> QED BY <1>10, <3>2, <3>3
  <2> QED BY <2>1, <2>2
<1>13. EditedAt(root, hdr, tbl, tbl', cur, flt.a[1]) /\ tbl'[cur][flt.a[1]] = leaf
  BY <1>12 DEF i, a
<1>14. /\ LeafAt(root', tbl', flt.a) = leaf
       /\ \A b \in Addr : b # flt.a => SameAt(root, tbl, root', tbl', b)
       /\ DirIn(root', tbl', flt.a) = DirIn(root, tbl, flt.a)
  BY <1>1, <1>13, WroteHere
<1>15. /\ LeafAt(root', tbl', a) = leaf /\ DirIn(root', tbl', a) = up
       /\ \A b \in Addr : b # a => SameAt(root, tbl, root', tbl', b)
  BY <1>14 DEF a, up
<1>16. SuperOK(paging, wp, leaf)
  BY <1>8 DEF SuperOK
<1>17. PsAt(root', tbl', a) = tbl'[up][j].ps
  BY <1>15 DEF PsAt, j
<1>18. BigOK(PsAt(root', tbl', a), leaf)
  BY <1>8, <1>12, <1>17 DEF BigOK
<1>19. LeafInv'
  BY <1>1, <1>2, <1>15, <1>16, <1>18, EditKeeps
<1>20. FaultInv'
  BY <1>1 DEF CacheInv, FaultInv
<1>21. pc' # "off" /\ Eff(a) # Absent /\ IsLeaf(LeafAt(root', tbl', a))
       /\ Memory(paging, LeafAt(root', tbl', a)) \in Tlb!Memories(Eff(a))
  BY <1>1, <1>6, <1>8, <1>9, <1>15 DEF e
<1>22. CacheStep
  BY <1>1, <1>2, <1>15, <1>21, TlbFill
<1> QED BY <1>19, <1>20, <1>22, SMTT(30) DEF CacheInv


\* A translation of which only the dirty bit is set anew.
LEMMA DirtyEqual ==
    ASSUME NEW m \in Translation, NEW m2 \in Translation, m2.f = m.f, m2.w = m.w,
           m2.u = m.u, m2.g = m.g, m2.big = m.big, m2.d
    PROVE  m2 = [m EXCEPT !.d = TRUE]
<1>1. m2.d = TRUE
  BY DEF Translation
<1> QED BY <1>1 DEF Translation

\* The translation of an address by its two entries.
EffBy(pde, pte, a) ==
    IF ~(pde.p /\ (pde.ps \/ pte.p)) THEN Absent
    ELSE IF pde.ps
    THEN [f |-> LargeFrame(pde, a), w |-> pde.w, u |-> pde.u, g |-> FALSE, d |-> pde.d, big |-> TRUE]
    ELSE [f |-> pte.f, w |-> pde.w /\ pte.w, u |-> pde.u /\ pte.u, g |-> pte.g, d |-> pte.d, big |-> FALSE]

\* It is what the walk gives, before a step and after it.
LEMMA EffIsBy ==
    ASSUME paging, paging', NEW a \in Addr
    PROVE  /\ Eff(a) = EffBy(gpde[Dir(a)], gpte[a], a)
           /\ Eff(a)' = EffBy(gpde'[Dir(a)], gpte'[a], a)
<1>1. GuestPresent(a, 1) <=> gpde[Dir(a)].p /\ (gpde[Dir(a)].ps \/ gpte[a].p)
  BY DEF GuestPresent
<1>2. GuestPresent(a, 1)' <=> gpde'[Dir(a)].p /\ (gpde'[Dir(a)].ps \/ gpte'[a].p)
  BY DEF GuestPresent
<1>3. Eff(a) = EffBy(gpde[Dir(a)], gpte[a], a)
  BY <1>1 DEF Eff, EffBy
<1>4. Eff(a)' = EffBy(gpde'[Dir(a)], gpte'[a], a)
  BY <1>2 DEF Eff, EffBy
<1> QED BY <1>3, <1>4

\* The dirty bit of the guest's entry is all that changes of its translations.
LEMMA DirtyEff ==
    ASSUME IInv, IInv', paging, paging' = paging, NEW a \in Addr, GuestPresent(a, 1), SetsDirty(a)
    PROVE  /\ Eff(a) # Absent /\ Eff(a)'.d
           /\ \A b \in Addr : Eff(b)' # Eff(b) =>
                 Eff(b) # Absent /\ Eff(b)' = [Eff(b) EXCEPT !.d = TRUE]
<1>1. /\ gpde \in [Dirs -> GuestPde] /\ gpte \in [Addr -> GuestPte]
      /\ \A b \in Addr : Dir(b) \in Dirs
  BY DEF IInv, GuestInv, Dir, Dirs
<1>2. Eff(a) # Absent
  BY EffCases
<1>3. gpde[Dir(a)].p /\ (gpde[Dir(a)].ps \/ gpte[a].p)
  BY DEF GuestPresent
<1>4. \A b \in Addr : /\ Eff(b) = EffBy(gpde[Dir(b)], gpte[b], b)
                      /\ Eff(b)' = EffBy(gpde'[Dir(b)], gpte'[b], b)
  BY EffIsBy
<1>5. CASE gpde[Dir(a)].ps
  <2> DEFINE pde == gpde[Dir(a)]
             new == [pde EXCEPT !.d = TRUE]
  <2>1. gpde' = [gpde EXCEPT ![Dir(a)] = new] /\ gpte' = gpte
    BY <1>5 DEF SetsDirty
  <2>2. /\ pde \in GuestPde /\ new.p = pde.p /\ new.ps = pde.ps /\ new.w = pde.w
        /\ new.u = pde.u /\ new.f = pde.f /\ new.d
    BY <1>1 DEF GuestPde
  <2>3. gpde'[Dir(a)] = new /\ \A b \in Addr : Dir(b) # Dir(a) => gpde'[Dir(b)] = gpde[Dir(b)]
    BY <1>1, <2>1
  <2>4. pde.p /\ pde.ps
    BY <1>3, <1>5
  <2> HIDE DEF pde, new
  <2>5. ASSUME NEW b \in Addr, Dir(b) = Dir(a)
        PROVE  Eff(b) # Absent /\ Eff(b)'.d /\ Eff(b)' = [Eff(b) EXCEPT !.d = TRUE]
    <3> DEFINE one(x) == [f |-> LargeFrame(pde, b), w |-> pde.w, u |-> pde.u, g |-> FALSE,
                          d |-> x, big |-> TRUE]
    <3>1. Eff(b) = EffBy(pde, gpte[b], b) /\ Eff(b)' = EffBy(new, gpte[b], b)
      BY <1>4, <2>1, <2>3, <2>5 DEF pde
    <3>2. LargeFrame(new, b) = LargeFrame(pde, b)
      BY <2>2 DEF LargeFrame
    <3>3. Eff(b) = one(pde.d) /\ Eff(b)' = one(new.d)
      BY <2>2, <2>4, <3>1, <3>2 DEF EffBy
    <3>4. LargeFrame(pde, b) \in Frames
      BY <1>5, <2>5 DEF IInv, GuestInv, pde
    <3>5. pde.d \in BOOLEAN /\ new.d = TRUE
      BY <2>2 DEF GuestPde, new
    <3>6. pde.w \in BOOLEAN /\ pde.u \in BOOLEAN
      BY <2>2 DEF GuestPde
    <3> DEFINE m == one(pde.d)
               m2 == one(new.d)
    <3>7. m \in Translation /\ m2 \in Translation
      BY <3>4, <3>5, <3>6 DEF Translation
    <3>8. m2.f = m.f /\ m2.w = m.w /\ m2.u = m.u /\ m2.g = m.g /\ m2.big = m.big /\ m2.d
      BY <3>5
    <3> HIDE DEF m, m2
    <3>9. m2 = [m EXCEPT !.d = TRUE] /\ m # Absent
      BY <3>7, <3>8, DirtyEqual, AbsentAssumption
    <3>10. Eff(b) = m /\ Eff(b)' = m2
      BY <3>3 DEF m, m2
    <3> HIDE DEF one
    <3> QED BY <3>8, <3>9, <3>10
  <2>6. ASSUME NEW b \in Addr, Dir(b) # Dir(a) PROVE Eff(b)' = Eff(b)
    BY <1>4, <2>1, <2>3, <2>6
  <2> QED BY <1>2, <2>5, <2>6
<1>6. CASE ~gpde[Dir(a)].ps
  <2> DEFINE pde == gpde[Dir(a)]
             pte == gpte[a]
             new == [pte EXCEPT !.d = TRUE]
  <2>1. gpte' = [gpte EXCEPT ![a] = new] /\ gpde' = gpde
    BY <1>6 DEF SetsDirty
  <2>2. /\ pde \in GuestPde /\ pte \in GuestPte /\ new.p = pte.p /\ new.w = pte.w /\ new.u = pte.u
        /\ new.g = pte.g /\ new.f = pte.f /\ new.d = TRUE
    BY <1>1 DEF GuestPte
  <2>3. gpte'[a] = new /\ \A b \in Addr : b # a => gpte'[b] = gpte[b]
    BY <1>1, <2>1
  <2>4. pde.p /\ ~pde.ps /\ pte.p
    BY <1>3, <1>6
  <2> DEFINE one(x) == [f |-> pte.f, w |-> pde.w /\ pte.w, u |-> pde.u /\ pte.u, g |-> pte.g,
                        d |-> x, big |-> FALSE]
  <2>5. Eff(a) = EffBy(pde, pte, a) /\ Eff(a)' = EffBy(pde, new, a)
    BY <1>4, <2>1, <2>3
  <2> HIDE DEF pde, pte, new
  <2>6. Eff(a) = one(pte.d) /\ Eff(a)' = one(new.d)
    BY <2>2, <2>4, <2>5 DEF EffBy
  <2> DEFINE m == one(pte.d)
             m2 == one(new.d)
  <2>7. Eff(a) = m /\ Eff(a)' = m2
    BY <2>6
  <2>8. /\ pte.f \in Frames /\ pte.g \in BOOLEAN /\ pte.d \in BOOLEAN /\ new.d = TRUE
    BY <2>2 DEF GuestPte
  <2>9. m \in Translation /\ m2 \in Translation
    BY <2>8 DEF Translation
  <2>10. m2.f = m.f /\ m2.w = m.w /\ m2.u = m.u /\ m2.g = m.g /\ m2.big = m.big /\ m2.d
    BY <2>8
  <2>11. ASSUME NEW b \in Addr, b # a PROVE Eff(b)' = Eff(b)
    BY <1>4, <2>1, <2>3, <2>11
  <2> HIDE DEF one, m, m2
  <2>12. m2 = [m EXCEPT !.d = TRUE]
    BY <2>9, <2>10, DirtyEqual
  <2> QED BY <1>2, <2>7, <2>10, <2>11, <2>12
<1> QED BY <1>5, <1>6


\* fix_write_pf and fix_read_pf write the entry the walk is at.
LEMMA FixPlace ==
    ASSUME IInv, pc = "fix", NEW e \in Entry, ~IsTable(e), root' = root,
           tbl' = Put(tbl, cur, flt.a[1], e)
    PROVE  /\ lvl = 1 /\ paging /\ pc # "off" /\ flt.a \in Addr
           /\ Here = LeafAt(root, tbl, flt.a) /\ tbl'[cur][flt.a[1]] = e
           /\ LeafAt(root', tbl', flt.a) = e
           /\ PsAt(root, tbl, flt.a) => PsAt(root', tbl', flt.a)
           /\ \A b \in Addr : b # flt.a => SameAt(root, tbl, root', tbl', b)
<1> DEFINE i == flt.a[1]
<1>1. pc \in Walking
  BY DEF Walking
<1>2. /\ cur \in DOMAIN hdr /\ pc # "off" /\ i \in Idx /\ flt.a \in Addr
      /\ Walk(paging, pc, flt, lvl, cur, hdr, tbl, root)
  BY <1>1, InWalk DEF active
<1>3. lvl = 1 /\ paging
  BY <1>2 DEF Walk, IInv, GuestInv
<1>4. ~Upper(root, hdr, cur) /\ Here = LeafAt(root, tbl, flt.a)
  BY <1>1, <1>3, WalkPage, HereIsLeafAt
<1>5. Tree(root, hdr, tbl) /\ HeadersOf(hdr) /\ tbl \in TableFile
  BY <1>2, ContextLive
<1>6. tbl' = Put(tbl, cur, i, e)
  OBVIOUS
<1> HIDE DEF i
<1>7. EditedAt(root, hdr, tbl, tbl', cur, i) /\ tbl'[cur][i] = e
  BY <1>2, <1>4, <1>5, <1>6, PutEdited
<1>8. EditedAt(root, hdr, tbl, tbl', cur, flt.a[1]) /\ tbl'[cur][flt.a[1]] = e
  BY <1>7 DEF i
<1> QED BY <1>1, <1>2, <1>3, <1>4, <1>8, WroteHere

\* A fix that does nothing: what the entry refuses, it still refuses.
LEMMA FixNothing ==
    ASSUME IInv, CacheInv, pc = "fix", pc' = "check", obs' = Quiet,
           UNCHANGED <<gpde, gpte, paging, wp, flt, lvl, cur, tbl, root>>
    PROVE  CacheInv' /\ CacheStep
<1>1. IsLeaf(Here)
  BY FixHere, EntryKinds
<1>2. Here' = Here
  BY DEF Here
<1>3. flt.p => Refuses(Here, flt)
  BY DEF CacheInv, FaultInv
<1>4. FaultInv'
  BY <1>1, <1>2, <1>3 DEF FaultInv
<1>5. LeafInv'
  BY SameLeafInv
<1>6. CacheStep
  BY SameViews, TlbResume
<1> QED BY <1>4, <1>5, <1>6 DEF CacheInv

\* fix_write_pf: the guest's entry becomes dirty, and the translation with it.
LEMMA WriteFixedRefines ==
    ASSUME IInv, CacheInv, IInv', pc = "fix", pc' = "check", obs' = Quiet,
           UNCHANGED <<paging, wp, root>>, FixableWrite(Here, flt.user),
           GuestPresent(flt.a, 1), tbl' = Put(tbl, cur, flt.a[1], WriteFixed(Here, flt.user)),
           flt' = [flt EXCEPT !.fixed = TRUE], SetsDirty(flt.a), NEW a \in Addr, a = flt.a
    PROVE  CacheInv' /\ CacheStep
<1> DEFINE user == flt.user
           e == Here
           c == WriteFixed(e, user)
<1>1. e \in Leaf /\ flt \in Fault /\ a \in Addr
  BY FixHere
<1>2. /\ c \in Leaf /\ c.w = TRUE /\ c.f = e.f /\ c.g = e.g /\ c.su = e.su
      /\ c.sw = e.sw /\ c.big = e.big
  BY <1>1 DEF WriteFixed, Leaf
<1>3. tbl' = Put(tbl, cur, flt.a[1], c)
  OBVIOUS
<1> HIDE DEF c
<1>4. c \in Entry /\ IsLeaf(c) /\ ~IsTable(c) /\ IsLeaf(e)
  BY <1>1, <1>2, EntryKinds
<1>5. /\ paging /\ pc # "off" /\ e = LeafAt(root, tbl, a) /\ LeafAt(root', tbl', a) = c
      /\ PsAt(root, tbl, a) => PsAt(root', tbl', a)
      /\ \A b \in Addr : b # a => SameAt(root, tbl, root', tbl', b)
  BY <1>3, <1>4, FixPlace
<1>6. FixableWrite(e, user)
  OBVIOUS
<1>7. /\ Eff(a) # Absent /\ Eff(a)'.d
      /\ \A b \in Addr : Eff(b)' # Eff(b) =>
            Eff(b) # Absent /\ Eff(b)' = [Eff(b) EXCEPT !.d = TRUE]
  BY <1>1, <1>5, DirtyEff
<1>8. paging \in BOOLEAN /\ wp \in BOOLEAN
  BY DEF IInv, GuestInv
<1> HIDE DEF user, e
<1>9. SuperOK(paging, wp, c)
  BY <1>2, <1>6 DEF SuperOK, FixableWrite
<1>10. BigOK(PsAt(root', tbl', a), c)
  <2>1. BigOK(PsAt(root, tbl, a), e)
    BY <1>1, <1>5 DEF CacheInv, LeafInv
  <2> QED BY <1>2, <1>4, <1>5, <2>1 DEF BigOK
<1>11. LeafInv'
  BY <1>1, <1>5, <1>9, <1>10, EditKeeps
<1>12. FaultInv'
  <2>1. flt'.fixed
    BY <1>1 DEF Fault
  <2> QED BY <2>1 DEF FaultInv
<1> DEFINE m == Memory(paging, e)
           m2 == Memory(paging, c)
<1>13. /\ m \in Translation /\ m.f = e.f /\ m.g = e.g /\ m.w = (e.sw \/ ~paging)
       /\ m.u = (e.su \/ ~paging) /\ m.big = e.big
       /\ m2 \in Translation /\ m2.f = c.f /\ m2.g = c.g /\ m2.w = (c.sw \/ ~paging)
       /\ m2.u = (c.su \/ ~paging) /\ m2.d = c.w /\ m2.big = c.big
  BY <1>1, <1>2, <1>8, MemoryTyped
<1>14. Remembered(a) = {m} /\ Remembered(a)' = {m2}
  BY <1>1, <1>4, <1>5, Views DEF View
<1>15. ASSUME NEW b \in Addr, b # a PROVE Remembered(b)' = Remembered(b)
  <2>1. LeafAt(root', tbl', b) = LeafAt(root, tbl, b)
    BY <1>5, <1>15 DEF SameAt
  <2>2. View(pc', paging', root', tbl', b) = View(pc, paging, root, tbl, b)
    BY <2>1 DEF View
  <2> QED BY <2>2, Views
<1> HIDE DEF m, m2
<1>16. m2 = [m EXCEPT !.d = TRUE]
  BY <1>2, <1>13, DirtyEqual
<1>17. {[x EXCEPT !.d = TRUE] : x \in {m}} = {m2}
  BY <1>16
<1> DEFINE tlb == [x \in Addr |-> Remembered(x)]
           eff == [x \in Addr |-> Eff(x)]
<1>18. tlb' = [tlb EXCEPT ![a] = {[x EXCEPT !.d = TRUE] : x \in @}]
  <2>1. tlb[a] = {m} /\ tlb' = [tlb EXCEPT ![a] = {m2}]
    BY <1>14, <1>15
  <2> HIDE DEF tlb
  <2> QED BY <1>17, <2>1
<1>19. /\ eff[a] # Absent /\ eff'[a].d
       /\ \A b \in Addr : eff'[b] # eff[b] =>
             eff[b] # Absent /\ eff'[b] = [eff[b] EXCEPT !.d = TRUE]
  BY <1>1, <1>7
<1>20. Tlb!MarkDirty(a)
  BY <1>18, <1>19 DEF Tlb!MarkDirty, Tlb!Quiet, Quiet
<1> QED BY <1>1, <1>11, <1>12, <1>20 DEF CacheInv, CacheStep

\* fix_write_pf.
LEMMA FixWriteRefines ==
    ASSUME IInv, CacheInv, IInv', fix_write_pf
    PROVE  CacheInv' /\ CacheStep
<1>1. /\ pc = "fix" /\ pc' = "check" /\ obs' = Quiet /\ pc # "off"
      /\ UNCHANGED <<paging, wp, lvl, cur, root>>
  BY DEF fix_write_pf, rootVars
<1>2. CASE UNCHANGED <<tbl, flt, gpde, gpte>>
  BY <1>1, <1>2, FixNothing
<1>3. CASE /\ FixableWrite(Here, flt.user) /\ GuestPresent(flt.a, 1)
           /\ tbl' = [tbl EXCEPT ![cur][flt.a[1]] = WriteFixed(Here, flt.user)]
           /\ flt' = [flt EXCEPT !.fixed = TRUE] /\ SetsDirty(flt.a)
  <2>1. tbl' = Put(tbl, cur, flt.a[1], WriteFixed(Here, flt.user))
    BY <1>3 DEF Put
  <2>2. flt.a \in Addr
    BY <1>1, FixHere
  <2> QED BY <1>1, <1>3, <2>1, <2>2, WriteFixedRefines
<1>4. CASE /\ ~GuestPresent(flt.a, 1) /\ tbl' = [tbl EXCEPT ![cur][flt.a[1]] = Zero]
           /\ UNCHANGED <<flt, gpde, gpte>>
  <2> DEFINE z == Zero
  <2>1. tbl' = Put(tbl, cur, flt.a[1], z)
    BY <1>4 DEF Put
  <2>2. z \in Entry /\ ~IsTable(z) /\ ~IsLeaf(z)
    BY EntryKinds
  <2> HIDE DEF z
  <2>3. /\ lvl = 1 /\ flt.a \in Addr /\ tbl'[cur][flt.a[1]] = z /\ LeafAt(root', tbl', flt.a) = z
        /\ \A b \in Addr : b # flt.a => SameAt(root, tbl, root', tbl', b)
    BY <1>1, <2>1, <2>2, FixPlace
  <2>4. ASSUME NEW b \in Addr PROVE FadesAt(root, tbl, root', tbl', b)
    <3>1. CASE b = flt.a
      BY <2>2, <2>3, <3>1 DEF FadesAt, GoneAt
    <3>2. CASE b # flt.a
      BY <1>1, <2>3, <3>2, SameFades
    <3> QED BY <3>1, <3>2
  <2>5. LeafInv'
    BY <1>1, <2>4, FadesKeep
  <2>6. Here' = z
    BY <1>1, <1>4, <2>3 DEF Here
  <2>7. ~GuestPresent(flt.a, 1)'
    BY <1>4 DEF GuestPresent
  <2>8. FaultInv'
    BY <1>1, <2>2, <2>6, <2>7 DEF FaultInv, Refuses
  <2>9. CacheStep
    BY <1>1, <1>4, <2>4, TlbForget
  <2> QED BY <2>5, <2>8, <2>9 DEF CacheInv
<1> QED BY <1>2, <1>3, <1>4 DEF fix_write_pf

\* fix_read_pf takes the write right for the user's: the dirty bit has to be
\* looked up again.
LEMMA FixReadRefines ==
    ASSUME IInv, CacheInv, fix_read_pf
    PROVE  CacheInv' /\ CacheStep
<1> DEFINE e == Here
           c == [e EXCEPT !.u = TRUE, !.w = FALSE]
<1>1. /\ pc = "fix" /\ pc' = "check" /\ obs' = Quiet /\ pc # "off"
      /\ UNCHANGED <<gpde, gpte, paging, wp, lvl, cur, root>>
  BY DEF fix_read_pf, rootVars, guestVars
<1>2. /\ e \in Leaf /\ e = tbl[cur][flt.a[1]] /\ flt \in Fault /\ flt.a \in Addr
  BY <1>1, FixHere
<1>3. CASE ~FixableRead(e)
  <2>1. UNCHANGED <<tbl, flt>>
    BY <1>3 DEF fix_read_pf
  <2> QED BY <1>1, <2>1, FixNothing
<1>4. CASE FixableRead(e)
  <2>1. tbl' = [tbl EXCEPT ![cur][flt.a[1]].u = TRUE, ![cur][flt.a[1]].w = FALSE]
        /\ flt' = [flt EXCEPT !.fixed = TRUE]
    BY <1>4 DEF fix_read_pf
  <2>2. tbl' = Put(tbl, cur, flt.a[1], c)
    <3>1. pc \in Walking
      BY <1>1 DEF Walking
    <3>2. tbl \in TableFile /\ cur \in Pages /\ flt.a[1] \in Idx
      BY <1>1, <3>1, ContextLive, InWalk
    <3> DEFINE i == flt.a[1]
               x == tbl[cur][i]
    <3>3. tbl' = [tbl EXCEPT ![cur] = [tbl[cur] EXCEPT ![i] = [x EXCEPT !.u = TRUE, !.w = FALSE]]]
      BY <2>1, <3>2 DEF TableFile
    <3> QED BY <1>2, <3>2, <3>3 DEF Put, TableFile
  <2>3. c \in Leaf /\ Faded(e, c)
    BY <1>2 DEF Faded, Leaf
  <2> HIDE DEF c
  <2>4. c \in Entry /\ ~IsTable(c)
    BY <2>3, EntryKinds
  <2>5. /\ e = LeafAt(root, tbl, flt.a) /\ LeafAt(root', tbl', flt.a) = c
        /\ PsAt(root, tbl, flt.a) => PsAt(root', tbl', flt.a)
        /\ \A b \in Addr : b # flt.a => SameAt(root, tbl, root', tbl', b)
    BY <1>1, <2>2, <2>4, FixPlace
  <2> HIDE DEF e
  <2>6. ASSUME NEW b \in Addr PROVE FadesAt(root, tbl, root', tbl', b)
    <3>1. CASE b = flt.a
      BY <2>3, <2>5, <3>1 DEF FadesAt
    <3>2. CASE b # flt.a
      BY <1>1, <2>5, <3>2, SameFades
    <3> QED BY <3>1, <3>2
  <2>7. LeafInv'
    BY <1>1, <2>6, FadesKeep
  <2>8. flt'.fixed
    BY <1>2, <2>1 DEF Fault
  <2>9. FaultInv'
    BY <1>1, <2>8 DEF FaultInv
  <2>10. CacheStep
    BY <1>1, <2>6, TlbForget
  <2> QED BY <2>7, <2>9, <2>10 DEF CacheInv
<1> QED BY <1>3, <1>4


-----------------------------------------------------------------------------
(* The theorems.                                                           *)

\* Every step of a fault handler is a step of the cache.
LEMMA HandlerRefines ==
    ASSUME IInv, IInv', CacheInv, Handler
    PROVE  CacheInv' /\ CacheStep
<1>1. CASE FetchUnmapped \/ InjectsIo \/ Injects
  BY <1>1, InjectRefines
<1>2. CASE Emulates \/ MapEmulates \/ Retries
  BY <1>2, ReturnRefines
<1>3. CASE FetchAlloc \/ MapAlloc
  <2>1. /\ pc \in {"fetch", "map"} /\ Here = Zero /\ lvl > 1 /\ AllocPage(cur, flt.a[lvl])
        /\ UNCHANGED <<guestVars, pc, flt>> /\ obs' = Quiet
    BY <1>3 DEF FetchAlloc, MapAlloc, Missing, Mapping
  <2> QED BY <2>1, AllocRefines
<1>4. CASE FetchNoMemory \/ MapNoMemory
  <2>1. pc \in {"fetch", "map"} /\ nonpaging_flush
    BY <1>4 DEF FetchNoMemory, MapNoMemory, Missing, Mapping
  <2> QED BY <2>1, FlushRefines
<1>5. CASE FetchSet
  BY <1>5, FetchSetRefines
<1>6. CASE MapSet
  BY <1>6, MapSetRefines
<1>7. CASE fix_write_pf
  BY <1>7, FixWriteRefines
<1>8. CASE fix_read_pf
  BY <1>8, FixReadRefines
<1> QED BY <1>1, <1>2, <1>3, <1>4, <1>5, <1>6, <1>7, <1>8 DEF Handler

\* Every step is.
LEMMA NextRefines ==
    ASSUME IInv, IInv', CacheInv, Next
    PROVE  CacheInv' /\ CacheStep
<1>1. CASE AllocMmuPage \/ AllocMmuFails
  BY <1>1, AllocMmuRefines
<1>2. CASE kvm_mmu_init
  BY <1>2, InitRefines
<1>3. CASE kvm_mmu_destroy
  BY <1>3, DestroyRefines
<1>4. ASSUME NEW a \in Addr, NEW write \in BOOLEAN, NEW user \in BOOLEAN,
             PageFault(a, write, user)
      PROVE  CacheInv' /\ CacheStep
  BY <1>4, PageFaultRefines
<1>5. CASE \/ \E s \in PteStores : StorePte(s[1], s[2])
           \/ \E s \in PdeStores : StorePde(s[1], s[2])
  BY <1>5, StoreRefines
<1>6. ASSUME NEW pg \in BOOLEAN, NEW writeProtect \in BOOLEAN, set_cr0(pg, writeProtect)
      PROVE  CacheInv' /\ CacheStep
  BY <1>6, SetCr0Refines
<1>7. CASE set_cr3
  BY <1>7, SetCr3Refines
<1>8. ASSUME NEW a \in Addr, paging_inval_page(a) PROVE CacheInv' /\ CacheStep
  BY <1>8, InvalPageRefines
<1>9. CASE Resume
  BY <1>9, ResumeRefines
<1>10. CASE Handler
  BY <1>10, HandlerRefines
<1>11. ASSUME NEW s \in Slots, kvm_mmu_slot_remove_write_access(s)
       PROVE  CacheInv' /\ CacheStep
  BY <1>11, RemoveWriteRefines
<1> QED BY <1>1, <1>2, <1>3, <1>4, <1>5, <1>6, <1>7, <1>8, <1>9, <1>10, <1>11 DEF Next

\* A step that changes nothing changes nothing of the cache.
LEMMA StutterRefines ==
    ASSUME CacheInv, UNCHANGED vars
    PROVE  CacheInv' /\ UNCHANGED Tlb!tlbVars
<1>1. /\ gpde' = gpde /\ gpte' = gpte /\ paging' = paging /\ wp' = wp
      /\ pc' = pc /\ flt' = flt /\ lvl' = lvl /\ cur' = cur /\ tbl' = tbl
      /\ root' = root /\ hwroot' = hwroot /\ obs' = obs
  BY DEF vars, guestVars, faultVars, poolVars, rootVars
<1>2. LeafInv'
  BY <1>1 DEF CacheInv, LeafInv
<1>3. Here' = Here /\ (GuestPresent(flt.a, 1)' <=> GuestPresent(flt.a, 1))
  BY <1>1 DEF Here, GuestPresent
<1>4. FaultInv'
  BY <1>1, <1>3 DEF CacheInv, FaultInv
<1>5. [a \in Addr |-> Eff(a)]' = [a \in Addr |-> Eff(a)]
  BY <1>1, SameEff
<1>6. [a \in Addr |-> Remembered(a)]' = [a \in Addr |-> Remembered(a)]
  BY <1>1, SameTlb
<1>7. Allowed' = Allowed
  <2>1. ASSUME NEW a \in Addr PROVE AllowedAt(a)' = AllowedAt(a)
    <3>1. LeafOf(hwroot, a)' = LeafOf(hwroot, a)
      BY <1>1 DEF LeafOf, LeafPage, Child
    <3> QED BY <3>1 DEF AllowedAt
  <2> QED BY <1>1, <2>1 DEF Allowed
<1>8. UNCHANGED Tlb!tlbVars
  BY <1>1, <1>5, <1>6, <1>7 DEF Tlb!tlbVars
<1> QED BY <1>2, <1>4, <1>8 DEF CacheInv

\* At first there is no context, and nothing is remembered.
LEMMA InitRemembers == Init => CacheInv /\ Tlb!Init
<1> SUFFICES ASSUME Init PROVE CacheInv /\ Tlb!Init
  OBVIOUS
<1>1. pc = "off" /\ obs = Quiet
  BY DEF Init
<1>2. CacheInv
  BY <1>1 DEF CacheInv, LeafInv, FaultInv
<1>3. [a \in Addr |-> Remembered(a)] = [a \in Addr |-> {}]
  BY <1>1 DEF Remembered
<1>4. Tlb!Init
  BY <1>1, <1>3 DEF Allowed, Tlb!Init, Tlb!Quiet, Quiet
<1> QED BY <1>2, <1>4

\* CacheInv is an invariant: with CR0.WP set no read-only page is writable, a
\* leaf of a large page is below the mark invlpg looks for, and a fault that
\* goes to the guest is one the shadow entry, or the guest's tables, refuse.
THEOREM CacheInvariance == Spec => []CacheInv
<1>1. Init => CacheInv
  BY InitRemembers
<1>2. IInv /\ IInv' /\ CacheInv /\ [Next]_vars => CacheInv'
  BY NextRefines, StutterRefines
<1> QED BY <1>1, <1>2, Invariance, PTL DEF Spec

\* The shadow page tables implement GuestTlb: whatever faults, flushes, dirty
\* logging and changes of the guest's tables come in between, the guest never
\* reads, writes or faults through a translation that a processor, told the
\* same by invlpg and loads of CR3 and CR0, could not still remember.
THEOREM ShadowImplementsTlb == Spec => TlbSpec
<1>1. Init => Tlb!Init
  BY InitRemembers
<1>2. ASSUME IInv, IInv', CacheInv, CacheInv', [Next]_vars
      PROVE  [Tlb!Next]_(Tlb!tlbVars)
  <2>1. CASE Next
    <3>1. CacheStep
      BY <1>2, <2>1, NextRefines
    <3>2. Tlb!Granted'
      BY <1>2, GrantedHolds, PTL
    <3> QED BY <3>1, <3>2 DEF CacheStep, Tlb!Next
  <2>2. CASE UNCHANGED vars
    BY <1>2, <2>2, StutterRefines
  <2> QED BY <1>2, <2>1, <2>2
<1> QED BY <1>1, <1>2, Invariance, CacheInvariance, PTL DEF Spec, TlbSpec, Tlb!Spec


=============================================================================
