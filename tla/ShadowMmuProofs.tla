--------------------------- MODULE ShadowMmuProofs --------------------------
(***************************************************************************)
(* Proofs about the shadow page tables.                                    *)
(*                                                                         *)
(* The tree is spoken of as Tree(r, h, t), for a root, headers and tables  *)
(* that need not be the current ones.  The operations change it in five    *)
(* ways: a new tree, a page added, leaf pages taken out, an entry of a     *)
(* leaf page written, the write bits of leaf entries cleared; there is one *)
(* lemma for each.                                                         *)
(***************************************************************************)
EXTENDS ShadowMmu, FiniteSetTheorems, TLAPS

-----------------------------------------------------------------------------
(* The inductive invariant.                                                *)

Header == [parent : (Pages \X Idx) \cup {NoPage}, global : BOOLEAN, slots : SUBSET Slots]
TableFile == [Pages -> [Idx -> Entry]]
Walking == {"fetch", "fix", "check", "map"}

HeadersOf(h) == DOMAIN h \subseteq Pages /\ h \in [DOMAIN h -> Header]

\* The pages that hold tables: the root and those right under it.
Upper(r, h, p) == p = r \/ \E i \in Idx : h[p].parent = <<r, i>>

\* A table entry and the parent of the page it refers to say the same; the
\* tree ends two levels under the root, and only there are leaves.
RootOK(r, h) == r \in DOMAIN h /\ h[r].parent = NoPage
DownOK(r, h, t) ==
    \A p \in DOMAIN h, i \in Idx :
        IsTable(t[p][i]) => /\ Upper(r, h, p)
                            /\ t[p][i].to \in DOMAIN h
                            /\ h[t[p][i].to].parent = <<p, i>>
UpOK(r, h, t) ==
    \A q \in DOMAIN h \ {r} :
        \E p \in DOMAIN h, i \in Idx :
            h[q].parent = <<p, i>> /\ IsTable(t[p][i]) /\ t[p][i].to = q
UpperOK(r, h, t) ==
    \A p \in DOMAIN h :
        Upper(r, h, p) => h[p].global /\ \A i \in Idx : ~IsLeaf(t[p][i])
Tree(r, h, t) == RootOK(r, h) /\ DownOK(r, h, t) /\ UpOK(r, h, t) /\ UpperOK(r, h, t)

\* What the header of a page, and the rights of the guest, say of an entry.
EntryOK(pg, header, e) ==
    IsLeaf(e) => /\ e.p => Slot[e.f] \in header.slots
                 /\ pg /\ header.global => e.g
                 /\ pg => /\ e.u => e.su
                          /\ e.u /\ e.w => e.sw
                          /\ e.sw /\ e.su => e.u
Entries(pg, h, t) == \A p \in DOMAIN h, i \in Idx : EntryOK(pg, h[p], t[p][i])

\* The pool: the pages on each list, and nothing in those that are on none.
PoolTypes(hl, fr, h, t) ==
    hl \subseteq Pages /\ fr \subseteq Pages /\ HeadersOf(h) /\ t \in TableFile
Lists(hl, fr, h, t) ==
    /\ fr \cap DOMAIN h = {} /\ hl = fr \cup DOMAIN h
    /\ \A p \in Pages \ DOMAIN h : t[p] = Empty

\* A context: a pool of which the active pages are a tree.
Live(pg, hl, fr, h, t, r) ==
    /\ PoolTypes(hl, fr, h, t) /\ Lists(hl, fr, h, t)
    /\ Tree(r, h, t) /\ Entries(pg, h, t)

\* The place of a walk for address a.
ChildIn(t, page, i) ==
    IF page # NoPage /\ IsTable(t[page][i]) THEN t[page][i].to ELSE NoPage
DirIn(r, t, a) == ChildIn(t, r, a[3])
LeafIn(r, t, a) == ChildIn(t, DirIn(r, t, a), a[2])
OnPath(r, t, a, l, c) ==
    /\ l = 3 => c = r
    /\ l = 2 => c = DirIn(r, t, a)
    /\ l = 1 => c = LeafIn(r, t, a)

\* A walk in state s; it holds a fault, and ends in a leaf.
Walk(pg, s, f, l, c, h, t, r) ==
    /\ f \in Fault /\ l \in Levels /\ c \in DOMAIN h
    /\ s = "map" <=> ~pg
    /\ s \in {"fix", "check"} => l = 1
    /\ s = "fix" => IsLeaf(t[c][f.a[l]])
    /\ OnPath(r, t, f.a, l, c)

\* After fix_write_pf and fix_read_pf the entry allows what it can.
Checked(protect, f, e) ==
    IsLeaf(e) =>
        IF f.write
        THEN e.w \/ ~(IF f.user THEN e.su /\ e.sw ELSE e.sw \/ ~protect)
        ELSE e.u \/ ~e.su

GuestInv ==
    /\ gpde \in [Dirs -> GuestPde] /\ gpte \in [Addr -> GuestPte]
    /\ paging \in BOOLEAN /\ wp \in BOOLEAN /\ changes \in 0..MaxChanges
    /\ \A a \in Addr : gpde[Dir(a)].ps => LargeFrame(gpde[Dir(a)], a) \in Frames

PoolInv ==
    /\ pc \in {"off", "guest", "exit"} \cup Walking
    /\ root \in Pages \cup {NoPage} /\ hwroot \in Pages \cup {NoPage}
    /\ PoolTypes(held, free, hdr, tbl) /\ Lists(held, free, hdr, tbl)
    /\ pc = "off" => active = {}
    /\ pc # "off" => hwroot = root /\ Live(paging, held, free, hdr, tbl, root)

WalkInv ==
    /\ flt \in Fault \cup {NoFault} /\ lvl \in Levels /\ cur \in Pages \cup {NoPage}
    /\ pc \in Walking => Walk(paging, pc, flt, lvl, cur, hdr, tbl, root)
    /\ pc = "check" => Checked(wp, flt, tbl[cur][flt.a[1]])

IInv == GuestInv /\ PoolInv /\ WalkInv

-----------------------------------------------------------------------------
(* Entries and tables.                                                     *)

\* A shadow entry is one of three kinds.
LEMMA EntryKinds ==
    /\ Zero \in Entry /\ ~IsTable(Zero) /\ ~IsLeaf(Zero)
    /\ \A e \in Leaf : e \in Entry /\ IsLeaf(e) /\ ~IsTable(e) /\ e # Zero
    /\ \A p \in Pages : /\ Table(p) \in Entry /\ IsTable(Table(p))
                        /\ ~IsLeaf(Table(p)) /\ Table(p).to = p
    /\ \A e \in Entry : IsTable(e) => e.to \in Pages /\ e.ps \in BOOLEAN /\ ~IsLeaf(e)
    /\ \A e \in Entry : IsLeaf(e) => e \in Leaf
    /\ \A e \in Entry : ~IsTable(e) /\ ~IsLeaf(e) => e = Zero
  BY DEF Zero, Entry, Leaf, Table, IsTable, IsLeaf

\* An empty page is a page of zero entries.
LEMMA EmptyPage == Empty \in [Idx -> Entry] /\ \A i \in Idx : Empty[i] = Zero
  BY EntryKinds DEF Empty

\* One entry of the tables written.
Put(t, p, i, e) == [t EXCEPT ![p][i] = e]

\* What a written entry changes.
LEMMA PutFields ==
    ASSUME NEW t \in TableFile, NEW p \in Pages, NEW i \in Idx, NEW e \in Entry
    PROVE  /\ Put(t, p, i, e) \in TableFile
           /\ \A q \in Pages, j \in Idx :
                 Put(t, p, i, e)[q][j] = IF q = p /\ j = i THEN e ELSE t[q][j]
           /\ \A q \in Pages : q # p => Put(t, p, i, e)[q] = t[q]
  BY DEF Put, TableFile

\* Headers with one page more.
LEMMA WithFields ==
    ASSUME NEW h, HeadersOf(h), NEW p \in Pages, NEW d \in Header
    PROVE  /\ HeadersOf(With(h, p, d)) /\ DOMAIN With(h, p, d) = DOMAIN h \cup {p}
           /\ With(h, p, d)[p] = d
           /\ \A q \in DOMAIN h : q # p => With(h, p, d)[q] = h[q]
  BY DEF With, HeadersOf

\* A new header.
LEMMA NewHeaderFields ==
    ASSUME NEW up \in (Pages \X Idx) \cup {NoPage}
    PROVE  /\ NewHeader(up) \in Header /\ NewHeader(up).parent = up
           /\ NewHeader(up).global /\ NewHeader(up).slots = {}
  BY DEF NewHeader, Header

-----------------------------------------------------------------------------
(* The tree.                                                               *)

\* A root alone.
LEMMA NewTree ==
    ASSUME NEW r \in Pages, NEW h, NEW t, DOMAIN h = {r}, h[r] = NewHeader(NoPage),
           t[r] = Empty
    PROVE  Tree(r, h, t)
<1>1. h[r].parent = NoPage /\ h[r].global
  BY NewHeaderFields
<1>2. \A i \in Idx : ~IsTable(t[r][i]) /\ ~IsLeaf(t[r][i])
  BY EmptyPage, EntryKinds
<1> QED BY <1>1, <1>2 DEF Tree, RootOK, DownOK, UpOK, UpperOK

\* kvm_mmu_alloc_page adds a page under an entry that was zero.
LEMMA AddPage ==
    ASSUME NEW r, NEW h, NEW t, Tree(r, h, t), HeadersOf(h), t \in TableFile,
           NEW at \in DOMAIN h, NEW i \in Idx, Upper(r, h, at), t[at][i] = Zero,
           NEW new \in Pages, new \notin DOMAIN h, t[new] = Empty
    PROVE  Tree(r, With(h, new, NewHeader(<<at, i>>)), Put(t, at, i, Table(new)))
<1> DEFINE d == NewHeader(<<at, i>>)
           h2 == With(h, new, d)
           t2 == Put(t, at, i, Table(new))
<1>1. at \in Pages /\ DOMAIN h \subseteq Pages
  BY DEF HeadersOf
<1>2. d \in Header /\ d.parent = <<at, i>> /\ d.global
  BY <1>1, NewHeaderFields
<1>3. NoPage # <<at, i>>
  BY <1>1, MmuAssumption
<1> HIDE DEF d
<1>4. /\ DOMAIN h2 = DOMAIN h \cup {new} /\ h2[new] = d
      /\ \A q \in DOMAIN h : h2[q] = h[q]
  BY <1>2, WithFields
<1>5. \A q \in Pages, j \in Idx : t2[q][j] = IF q = at /\ j = i THEN Table(new) ELSE t[q][j]
  BY <1>1, PutFields, EntryKinds
<1> HIDE DEF h2, t2
<1>6. \A j \in Idx : t2[new][j] = Zero
  BY <1>1, <1>5, EmptyPage
<1>7. r \in DOMAIN h /\ h[r].parent = NoPage /\ r # new
  BY DEF Tree, RootOK
<1>8. \A p \in DOMAIN h : Upper(r, h2, p) <=> Upper(r, h, p)
  BY <1>4 DEF Upper
<1>9. RootOK(r, h2)
  BY <1>4, <1>7 DEF RootOK
<1>10. DownOK(r, h2, t2)
  <2> SUFFICES ASSUME NEW p \in DOMAIN h2, NEW j \in Idx, IsTable(t2[p][j])
               PROVE  /\ Upper(r, h2, p) /\ t2[p][j].to \in DOMAIN h2
                      /\ h2[t2[p][j].to].parent = <<p, j>>
    BY DEF DownOK
  <2>1. p \in DOMAIN h /\ p \in Pages
    BY <1>1, <1>4, <1>6, EntryKinds
  <2>2. CASE p = at /\ j = i
    BY <1>2, <1>4, <1>5, <1>8, <2>1, <2>2, EntryKinds
  <2>3. CASE ~(p = at /\ j = i)
    <3>1. t2[p][j] = t[p][j]
      BY <1>5, <2>1, <2>3
    <3>2. Upper(r, h, p) /\ t[p][j].to \in DOMAIN h /\ h[t[p][j].to].parent = <<p, j>>
      BY <2>1, <3>1 DEF Tree, DownOK
    <3> QED BY <1>4, <1>8, <2>1, <3>1, <3>2
  <2> QED BY <2>2, <2>3
<1>11. UpOK(r, h2, t2)
  <2> SUFFICES ASSUME NEW q \in DOMAIN h2, q # r
               PROVE  \E p \in DOMAIN h2, j \in Idx :
                         h2[q].parent = <<p, j>> /\ IsTable(t2[p][j]) /\ t2[p][j].to = q
    BY DEF UpOK
  <2>1. CASE q = new
    <3>1. h2[q].parent = <<at, i>> /\ IsTable(t2[at][i]) /\ t2[at][i].to = q
      BY <1>1, <1>2, <1>4, <1>5, <2>1, EntryKinds
    <3> QED BY <1>4, <3>1
  <2>2. CASE q # new
    <3>1. PICK p \in DOMAIN h, j \in Idx :
                 h[q].parent = <<p, j>> /\ IsTable(t[p][j]) /\ t[p][j].to = q
      BY <1>4, <2>2 DEF Tree, UpOK
    <3>2. t2[p][j] = t[p][j]
      BY <1>1, <1>5, <3>1, EntryKinds
    <3> QED BY <1>4, <2>2, <3>1, <3>2
  <2> QED BY <2>1, <2>2
<1>12. UpperOK(r, h2, t2)
  <2> SUFFICES ASSUME NEW p \in DOMAIN h2, Upper(r, h2, p)
               PROVE  h2[p].global /\ \A j \in Idx : ~IsLeaf(t2[p][j])
    BY DEF UpperOK
  <2>1. CASE p = new
    BY <1>2, <1>4, <1>6, <2>1, EntryKinds
  <2>2. CASE p # new
    <3>1. h[p].global /\ \A j \in Idx : ~IsLeaf(t[p][j])
      BY <1>4, <1>8, <2>2 DEF Tree, UpperOK
    <3> QED BY <1>1, <1>4, <1>5, <2>2, <3>1, EntryKinds
  <2> QED BY <2>1, <2>2
<1>13. Tree(r, h2, t2)
  BY <1>9, <1>10, <1>11, <1>12 DEF Tree
<1> QED BY <1>13 DEF h2, t2, d

\* The headers h2 are h without the pages of S, and the tables t2 are t
\* without the entries that refer to them.
Left(h, S, h2) == DOMAIN h2 = DOMAIN h \ S /\ \A p \in DOMAIN h2 : h2[p] = h[p]
Unlinked(h, S, h2, t, t2) ==
    \A p \in DOMAIN h2, i \in Idx :
        t2[p][i] = IF \E q \in S : h[q].parent = <<p, i>> THEN Zero ELSE t[p][i]

\* Taking pages out that hold no tables, and the entries that refer to them:
\* kvm_mmu_flush_tlb and paging_inval_page.
LEMMA DropPages ==
    ASSUME NEW r, NEW h, NEW t, Tree(r, h, t), NEW S \in SUBSET DOMAIN h,
           \A p \in S : ~Upper(r, h, p),
           NEW h2, Left(h, S, h2), NEW t2, Unlinked(h, S, h2, t, t2)
    PROVE  Tree(r, h2, t2)
<1> USE DEF Left, Unlinked
<1>1. r \in DOMAIN h2
  BY DEF Tree, RootOK, Upper
<1>2. \A p \in DOMAIN h2 : Upper(r, h2, p) <=> Upper(r, h, p)
  BY DEF Upper
<1>3. RootOK(r, h2)
  BY <1>1 DEF Tree, RootOK
<1>4. DownOK(r, h2, t2)
  <2> SUFFICES ASSUME NEW p \in DOMAIN h2, NEW i \in Idx, IsTable(t2[p][i])
               PROVE  /\ Upper(r, h2, p) /\ t2[p][i].to \in DOMAIN h2
                      /\ h2[t2[p][i].to].parent = <<p, i>>
    BY DEF DownOK
  <2>1. t2[p][i] = t[p][i] /\ ~\E q \in S : h[q].parent = <<p, i>>
    BY EntryKinds
  <2>2. Upper(r, h, p) /\ t[p][i].to \in DOMAIN h /\ h[t[p][i].to].parent = <<p, i>>
    BY <2>1 DEF Tree, DownOK
  <2>3. t[p][i].to \in DOMAIN h2
    BY <2>1, <2>2
  <2> QED BY <1>2, <2>1, <2>2, <2>3
<1>5. UpOK(r, h2, t2)
  <2> SUFFICES ASSUME NEW q \in DOMAIN h2, q # r
               PROVE  \E p \in DOMAIN h2, i \in Idx :
                         h2[q].parent = <<p, i>> /\ IsTable(t2[p][i]) /\ t2[p][i].to = q
    BY DEF UpOK
  <2>1. PICK p \in DOMAIN h, i \in Idx :
               h[q].parent = <<p, i>> /\ IsTable(t[p][i]) /\ t[p][i].to = q
    BY DEF Tree, UpOK
  <2>2. p \in DOMAIN h2
    BY <2>1 DEF Tree, DownOK
  <2>3. ASSUME NEW q2 \in S, h[q2].parent = <<p, i>> PROVE FALSE
    <3>1. q2 # r
      BY DEF Upper
    <3>2. PICK p2 \in DOMAIN h, i2 \in Idx :
                 h[q2].parent = <<p2, i2>> /\ t[p2][i2].to = q2
      BY <3>1 DEF Tree, UpOK
    <3>3. p2 = p /\ i2 = i
      BY <2>3, <3>2
    <3> QED BY <2>1, <3>2, <3>3
  <2>4. t2[p][i] = t[p][i]
    BY <2>2, <2>3
  <2> QED BY <2>1, <2>2, <2>4
<1>6. UpperOK(r, h2, t2)
  <2> SUFFICES ASSUME NEW p \in DOMAIN h2, Upper(r, h2, p)
               PROVE  h2[p].global /\ \A i \in Idx : ~IsLeaf(t2[p][i])
    BY DEF UpperOK
  <2>1. h[p].global /\ \A i \in Idx : ~IsLeaf(t[p][i])
    BY <1>2 DEF Tree, UpperOK
  <2> QED BY <2>1, EntryKinds
<1> QED BY <1>3, <1>4, <1>5, <1>6 DEF Tree

\* Two tables refer to the same pages from the same entries.
SameTables(h, t, t2) ==
    \A p \in DOMAIN h, i \in Idx :
        /\ IsTable(t2[p][i]) <=> IsTable(t[p][i])
        /\ IsTable(t[p][i]) => t2[p][i].to = t[p][i].to

\* Writing leaves of pages that hold no tables keeps the tree.
LEMMA KeepTree ==
    ASSUME NEW r, NEW h, NEW t, Tree(r, h, t), NEW h2, NEW t2,
           DOMAIN h2 = DOMAIN h, \A p \in DOMAIN h : h2[p].parent = h[p].parent,
           SameTables(h, t, t2),
           \A p \in DOMAIN h :
              Upper(r, h, p) => h2[p].global /\ \A i \in Idx : ~IsLeaf(t2[p][i])
    PROVE  Tree(r, h2, t2)
<1>1. \A p \in DOMAIN h : Upper(r, h2, p) <=> Upper(r, h, p)
  BY DEF Upper
<1>2. RootOK(r, h2)
  BY DEF Tree, RootOK
<1>3. DownOK(r, h2, t2)
  <2> SUFFICES ASSUME NEW p \in DOMAIN h, NEW i \in Idx, IsTable(t2[p][i])
               PROVE  /\ Upper(r, h2, p) /\ t2[p][i].to \in DOMAIN h
                      /\ h2[t2[p][i].to].parent = <<p, i>>
    BY DEF DownOK
  <2>1. IsTable(t[p][i]) /\ t2[p][i].to = t[p][i].to
    BY DEF SameTables
  <2>2. Upper(r, h, p) /\ t[p][i].to \in DOMAIN h /\ h[t[p][i].to].parent = <<p, i>>
    BY <2>1 DEF Tree, DownOK
  <2> QED BY <1>1, <2>1, <2>2
<1>4. UpOK(r, h2, t2)
  <2> SUFFICES ASSUME NEW q \in DOMAIN h, q # r
               PROVE  \E p \in DOMAIN h, i \in Idx :
                         h2[q].parent = <<p, i>> /\ IsTable(t2[p][i]) /\ t2[p][i].to = q
    BY DEF UpOK
  <2>1. PICK p \in DOMAIN h, i \in Idx :
               h[q].parent = <<p, i>> /\ IsTable(t[p][i]) /\ t[p][i].to = q
    BY DEF Tree, UpOK
  <2>2. IsTable(t2[p][i]) /\ t2[p][i].to = q
    BY <2>1 DEF SameTables
  <2> QED BY <2>1, <2>2
<1>5. UpperOK(r, h2, t2)
  BY <1>1 DEF UpperOK
<1> QED BY <1>2, <1>3, <1>4, <1>5 DEF Tree

\* Where the walk of an address gets to.
LEMMA Paths ==
    ASSUME NEW r, NEW h, NEW t, Tree(r, h, t), HeadersOf(h), NEW a \in Addr
    PROVE  /\ r \in Pages /\ r # NoPage
           /\ DirIn(r, t, a) # NoPage =>
                 /\ DirIn(r, t, a) \in DOMAIN h /\ DirIn(r, t, a) # r
                 /\ h[DirIn(r, t, a)].parent = <<r, a[3]>>
                 /\ Upper(r, h, DirIn(r, t, a))
           /\ LeafIn(r, t, a) # NoPage =>
                 /\ DirIn(r, t, a) # NoPage
                 /\ LeafIn(r, t, a) \in DOMAIN h
                 /\ h[LeafIn(r, t, a)].parent = <<DirIn(r, t, a), a[2]>>
                 /\ ~Upper(r, h, LeafIn(r, t, a))
                 /\ IsTable(t[DirIn(r, t, a)][a[2]])
<1>0. a[1] \in Idx /\ a[2] \in Idx /\ a[3] \in Idx
  BY MmuAssumption DEF Levels
<1>1. r \in DOMAIN h /\ r \in Pages /\ r # NoPage /\ h[r].parent = NoPage
  BY MmuAssumption DEF Tree, RootOK, HeadersOf
<1>2. \A p \in DOMAIN h, i \in Idx : NoPage # <<p, i>>
  BY MmuAssumption DEF HeadersOf
<1>3. NoPage \notin DOMAIN h
  BY MmuAssumption DEF HeadersOf
<1> DEFINE d == DirIn(r, t, a)
           p == LeafIn(r, t, a)
<1>4. d # NoPage => IsTable(t[r][a[3]]) /\ d = t[r][a[3]].to
  BY DEF DirIn, ChildIn
<1>5. p # NoPage => d # NoPage /\ IsTable(t[d][a[2]]) /\ p = t[d][a[2]].to
  BY DEF LeafIn, ChildIn
<1> HIDE DEF d, p
<1>6. d # NoPage => /\ d \in DOMAIN h /\ h[d].parent = <<r, a[3]>>
  BY <1>0, <1>1, <1>4 DEF Tree, DownOK
<1>7. d # NoPage => d # r /\ Upper(r, h, d)
  BY <1>0, <1>1, <1>2, <1>6 DEF Upper
<1>8. p # NoPage => p \in DOMAIN h /\ h[p].parent = <<d, a[2]>>
  BY <1>0, <1>5, <1>6 DEF Tree, DownOK
<1>9. p # NoPage => ~Upper(r, h, p)
  BY <1>0, <1>1, <1>2, <1>5, <1>6, <1>7, <1>8 DEF Upper
<1>10. d # NoPage => d \in DOMAIN h /\ d # r /\ h[d].parent = <<r, a[3]>> /\ Upper(r, h, d)
  BY <1>6, <1>7
<1>11. p # NoPage => /\ d # NoPage /\ p \in DOMAIN h /\ h[p].parent = <<d, a[2]>>
                     /\ ~Upper(r, h, p) /\ IsTable(t[d][a[2]])
  BY <1>5, <1>8, <1>9
<1> QED BY <1>1, <1>10, <1>11 DEF d, p

\* The same tables lead to the same place.
LEMMA SamePaths ==
    ASSUME NEW r, NEW h, NEW t, Tree(r, h, t), HeadersOf(h), NEW t2,
           SameTables(h, t, t2), NEW a \in Addr
    PROVE  DirIn(r, t2, a) = DirIn(r, t, a) /\ LeafIn(r, t2, a) = LeafIn(r, t, a)
<1>0. a[2] \in Idx /\ a[3] \in Idx
  BY MmuAssumption DEF Levels
<1>1. r \in DOMAIN h
  BY DEF Tree, RootOK
<1>2. DirIn(r, t2, a) = DirIn(r, t, a)
  BY <1>0, <1>1 DEF DirIn, ChildIn, SameTables
<1>3. DirIn(r, t, a) # NoPage => DirIn(r, t, a) \in DOMAIN h
  BY Paths
<1> QED BY <1>0, <1>2, <1>3 DEF LeafIn, ChildIn, SameTables

\* A page that is not an upper one has leaves and zero entries only.
LEMMA LeafPages ==
    ASSUME NEW r, NEW h, NEW t, Tree(r, h, t), HeadersOf(h), t \in TableFile,
           NEW p \in DOMAIN h, ~Upper(r, h, p), NEW i \in Idx
    PROVE  t[p][i] \in Entry /\ ~IsTable(t[p][i]) /\ (t[p][i] # Zero => IsLeaf(t[p][i]))
<1>1. t[p][i] \in Entry
  BY DEF TableFile, HeadersOf
<1>2. ~IsTable(t[p][i])
  BY DEF Tree, DownOK
<1> QED BY <1>1, <1>2, EntryKinds

\* release_pt_page_64, started at the root, gives every active page back.
LEMMA WholeTree ==
    ASSUME Tree(root, hdr, tbl), HeadersOf(hdr)
    PROVE  active = Subtree(root)
<1>1. root \in active /\ active \subseteq Pages
  BY DEF Tree, RootOK, HeadersOf, active
<1> DEFINE below == Children({root})
<1>2. below \subseteq active
  BY <1>1 DEF Children, Tree, DownOK, active
<1>3. Children(below) \subseteq active
  BY <1>2 DEF Children, Tree, DownOK, active
<1>4. ASSUME NEW q \in active, q # root PROVE q \in below \cup Children(below)
  <2>1. PICK p \in active, i \in Idx :
               hdr[q].parent = <<p, i>> /\ IsTable(tbl[p][i]) /\ tbl[p][i].to = q
    BY <1>4 DEF Tree, UpOK, active
  <2>2. Upper(root, hdr, p)
    BY <2>1 DEF Tree, DownOK, active
  <2>3. CASE p = root
    BY <1>1, <2>1, <2>3 DEF Children
  <2>4. CASE p # root
    <3>1. PICK p2 \in active, j \in Idx :
               hdr[p].parent = <<p2, j>> /\ IsTable(tbl[p2][j]) /\ tbl[p2][j].to = p
      BY <2>4 DEF Tree, UpOK, active
    <3>2. p2 = root
      BY <2>2, <2>4, <3>1 DEF Upper
    <3>3. p \in below
      BY <1>1, <3>1, <3>2 DEF Children
    <3> HIDE DEF below
    <3> QED BY <1>1, <2>1, <3>3 DEF Children
  <2> QED BY <2>3, <2>4
<1> QED BY <1>1, <1>2, <1>3, <1>4 DEF Subtree

-----------------------------------------------------------------------------
(* Contexts.                                                               *)

\* An entry that is no leaf says nothing about its page.
LEMMA NoLeaf == ASSUME NEW pg, NEW d, NEW e, ~IsLeaf(e) PROVE EntryOK(pg, d, e)
  BY DEF EntryOK

\* The head of a list that is not empty is on it.
LEMMA FirstIn == ASSUME NEW S, S # {} PROVE First(S) \in S
  BY DEF First

\* A new root, with all other pages free.
LEMMA FreshLive ==
    ASSUME NEW pg, NEW F \in SUBSET Pages, NEW r \in F, NEW h, DOMAIN h = {}, HeadersOf(h),
           NEW t \in TableFile, \A p \in Pages : t[p] = Empty
    PROVE  Live(pg, F, F \ {r}, With(h, r, NewHeader(NoPage)), t, r)
<1>1. r \in Pages
  OBVIOUS
<1>2. NewHeader(NoPage) \in Header
  BY NewHeaderFields
<1> DEFINE d == NewHeader(NoPage)
           h2 == With(h, r, d)
<1> HIDE DEF d
<1>3. HeadersOf(h2) /\ DOMAIN h2 = {r} /\ h2[r] = NewHeader(NoPage)
  <2>1. d \in Header
    BY <1>2 DEF d
  <2>2. h2 = [p \in {r} |-> d]
    BY DEF With
  <2> QED BY <1>1, <2>1, <2>2 DEF d, HeadersOf
<1> HIDE DEF h2
<1>4. Tree(r, h2, t)
  BY <1>1, <1>3, NewTree
<1>5. Entries(pg, h2, t)
  BY <1>1, <1>3, EmptyPage, EntryKinds, NoLeaf DEF Entries
<1>6. Lists(F, F \ {r}, h2, t) /\ PoolTypes(F, F \ {r}, h2, t)
  BY <1>1, <1>3 DEF Lists, PoolTypes
<1>7. Live(pg, F, F \ {r}, h2, t, r)
  BY <1>4, <1>5, <1>6 DEF Live
<1> QED BY <1>7 DEF h2, d

\* A page more.
LEMMA AddLive ==
    ASSUME NEW pg, NEW hl, NEW fr, NEW h, NEW t, NEW r, Live(pg, hl, fr, h, t, r),
           NEW at \in DOMAIN h, NEW i \in Idx, Upper(r, h, at), t[at][i] = Zero,
           NEW new \in fr
    PROVE  Live(pg, hl, fr \ {new}, With(h, new, NewHeader(<<at, i>>)),
                Put(t, at, i, Table(new)), r)
<1> DEFINE d == NewHeader(<<at, i>>)
           h2 == With(h, new, d)
           t2 == Put(t, at, i, Table(new))
<1>1. /\ HeadersOf(h) /\ t \in TableFile /\ fr \subseteq Pages /\ hl \subseteq Pages
      /\ new \in Pages /\ at \in Pages /\ new \notin DOMAIN h /\ t[new] = Empty
      /\ DOMAIN h \subseteq Pages
  BY DEF Live, PoolTypes, Lists, HeadersOf
<1>2. Tree(r, h2, t2)
  BY <1>1, AddPage DEF Live
<1>3. d \in Header
  BY <1>1, NewHeaderFields
<1> HIDE DEF d
<1>4. /\ HeadersOf(h2) /\ DOMAIN h2 = DOMAIN h \cup {new}
      /\ \A q \in DOMAIN h : h2[q] = h[q]
  <2>1. /\ HeadersOf(h2) /\ DOMAIN h2 = DOMAIN h \cup {new}
        /\ \A q \in DOMAIN h : q # new => h2[q] = h[q]
    BY <1>1, <1>3, WithFields
  <2> QED BY <1>1, <2>1
<1>5. /\ t2 \in TableFile
      /\ \A q \in Pages, j \in Idx : t2[q][j] = IF q = at /\ j = i THEN Table(new) ELSE t[q][j]
      /\ \A q \in Pages : q # at => t2[q] = t[q]
  BY <1>1, PutFields, EntryKinds
<1> HIDE DEF h2, t2
<1>6. PoolTypes(hl, fr \ {new}, h2, t2)
  BY <1>1, <1>4, <1>5 DEF PoolTypes
<1>7. Lists(hl, fr \ {new}, h2, t2)
  <2>1. \A p \in Pages \ DOMAIN h2 : t2[p] = Empty
    BY <1>4, <1>5 DEF Live, Lists
  <2>2. (fr \ {new}) \cap DOMAIN h2 = {} /\ hl = (fr \ {new}) \cup DOMAIN h2
    BY <1>4 DEF Live, Lists
  <2> QED BY <2>1, <2>2 DEF Lists
<1>8. Entries(pg, h2, t2)
  <2> SUFFICES ASSUME NEW p \in DOMAIN h2, NEW j \in Idx
               PROVE  EntryOK(pg, h2[p], t2[p][j])
    BY DEF Entries
  <2>1. CASE p = new
    BY <1>1, <1>5, <2>1, EmptyPage, EntryKinds, NoLeaf
  <2>2. CASE p = at /\ j = i
    BY <1>1, <1>5, <2>2, EntryKinds, NoLeaf
  <2>3. CASE p # new /\ ~(p = at /\ j = i)
    <3>1. p \in DOMAIN h /\ h2[p] = h[p] /\ t2[p][j] = t[p][j]
      BY <1>1, <1>4, <1>5, <2>3
    <3> QED BY <3>1 DEF Live, Entries
  <2> QED BY <2>1, <2>2, <2>3
<1>9. Live(pg, hl, fr \ {new}, h2, t2, r)
  BY <1>2, <1>6, <1>7, <1>8 DEF Live
<1> QED BY <1>9 DEF h2, t2, d

\* The tables t2 are t without the pages of S and the entries that refer to
\* them.
Cleared(h, S, t, t2) ==
    \A p \in Pages, i \in Idx :
        t2[p][i] = IF p \in S \/ (\E q \in S : h[q].parent = <<p, i>>)
                   THEN Zero ELSE t[p][i]

\* Leaf pages out.
LEMMA DropLive ==
    ASSUME NEW pg, NEW hl, NEW fr, NEW h, NEW t, NEW r, Live(pg, hl, fr, h, t, r),
           NEW S \in SUBSET DOMAIN h, \A p \in S : ~Upper(r, h, p),
           NEW h2, Left(h, S, h2),
           HeadersOf(h2), NEW t2 \in TableFile, Cleared(h, S, t, t2)
    PROVE  Live(pg, hl, fr \cup S, h2, t2, r)
<1>1. /\ HeadersOf(h) /\ t \in TableFile /\ fr \subseteq Pages /\ hl \subseteq Pages
      /\ DOMAIN h \subseteq Pages /\ fr \cap DOMAIN h = {} /\ hl = fr \cup DOMAIN h
      /\ \A p \in Pages \ DOMAIN h : t[p] = Empty
  BY DEF Live, PoolTypes, Lists, HeadersOf
<1>2. HeadersOf(h2) /\ DOMAIN h2 = DOMAIN h \ S /\ \A p \in DOMAIN h2 : h2[p] = h[p]
  BY DEF Left
<1>3. Unlinked(h, S, h2, t, t2)
  <2> SUFFICES ASSUME NEW p \in DOMAIN h2, NEW i \in Idx
               PROVE  t2[p][i] = IF \E q \in S : h[q].parent = <<p, i>> THEN Zero ELSE t[p][i]
    BY DEF Unlinked
  <2>1. p \in Pages /\ p \notin S
    BY <1>1, <1>2
  <2> QED BY <2>1 DEF Cleared
<1>4. Tree(r, h2, t2)
  <2>1. Tree(r, h, t)
    BY DEF Live
  <2> QED BY <1>3, <2>1, DropPages
<1>5. PoolTypes(hl, fr \cup S, h2, t2)
  BY <1>1, <1>2 DEF PoolTypes
<1>6. \A p \in Pages \ DOMAIN h2 : t2[p] = Empty
  <2> SUFFICES ASSUME NEW p \in Pages \ DOMAIN h2 PROVE t2[p] = Empty
    OBVIOUS
  <2>1. \A i \in Idx : t2[p][i] = Zero
    BY <1>1, <1>2, EmptyPage DEF Cleared
  <2>2. t2[p] \in [Idx -> Entry]
    BY DEF TableFile
  <2> QED BY <2>1, <2>2 DEF Empty
<1>7. Lists(hl, fr \cup S, h2, t2)
  BY <1>1, <1>2, <1>6 DEF Lists
<1>8. Entries(pg, h2, t2)
  <2> SUFFICES ASSUME NEW p \in DOMAIN h2, NEW i \in Idx
               PROVE  EntryOK(pg, h2[p], t2[p][i])
    BY DEF Entries
  <2>1. EntryOK(pg, h[p], t[p][i])
    BY <1>2 DEF Live, Entries
  <2> QED BY <1>2, <1>3, <2>1, EntryKinds, NoLeaf DEF Unlinked
<1> QED BY <1>4, <1>5, <1>7, <1>8 DEF Live

\* The entries of leaf pages, and marks in their headers, rewritten.
LEMMA EditLive ==
    ASSUME NEW pg, NEW hl, NEW fr, NEW h, NEW t, NEW r, Live(pg, hl, fr, h, t, r),
           NEW h2, HeadersOf(h2), DOMAIN h2 = DOMAIN h,
           \A p \in DOMAIN h : h2[p].parent = h[p].parent,
           NEW t2 \in TableFile, SameTables(h, t, t2),
           \A p \in DOMAIN h :
              Upper(r, h, p) => h2[p].global /\ \A i \in Idx : ~IsLeaf(t2[p][i]),
           \A p \in Pages \ DOMAIN h : t2[p] = t[p], Entries(pg, h2, t2)
    PROVE  Live(pg, hl, fr, h2, t2, r)
<1>1. Tree(r, h2, t2)
  BY KeepTree DEF Live
<1>2. PoolTypes(hl, fr, h2, t2) /\ Lists(hl, fr, h2, t2)
  BY DEF Live, PoolTypes, Lists
<1> QED BY <1>1, <1>2 DEF Live

\* One entry of a leaf page, and its header.
LEMMA WriteLive ==
    ASSUME NEW pg, NEW hl, NEW fr, NEW h, NEW t, NEW r, Live(pg, hl, fr, h, t, r),
           NEW c \in DOMAIN h, ~Upper(r, h, c), NEW i \in Idx,
           NEW e \in Entry, ~IsTable(e), NEW d \in Header, d.parent = h[c].parent,
           EntryOK(pg, d, e), \A j \in Idx : j # i => EntryOK(pg, d, t[c][j])
    PROVE  /\ Live(pg, hl, fr, [h EXCEPT ![c] = d], Put(t, c, i, e), r)
           /\ SameTables(h, t, Put(t, c, i, e))
<1> DEFINE h2 == [h EXCEPT ![c] = d]
           t2 == Put(t, c, i, e)
<1>1. HeadersOf(h) /\ t \in TableFile /\ DOMAIN h \subseteq Pages /\ c \in Pages
  BY DEF Live, PoolTypes, HeadersOf
<1>2. /\ HeadersOf(h2) /\ DOMAIN h2 = DOMAIN h /\ h2[c] = d
      /\ \A q \in DOMAIN h : q # c => h2[q] = h[q]
  BY <1>1 DEF HeadersOf
<1>3. /\ t2 \in TableFile
      /\ \A q \in Pages, j \in Idx : t2[q][j] = IF q = c /\ j = i THEN e ELSE t[q][j]
      /\ \A q \in Pages : q # c => t2[q] = t[q]
  BY <1>1, PutFields
<1> HIDE DEF h2, t2
<1>4. ~IsTable(t[c][i])
  BY <1>1, LeafPages DEF Live
<1>5. SameTables(h, t, t2)
  BY <1>1, <1>3, <1>4 DEF SameTables
<1>6. \A p \in DOMAIN h : h2[p].parent = h[p].parent
  BY <1>2
<1>7. \A p \in DOMAIN h :
         Upper(r, h, p) => h2[p].global /\ \A j \in Idx : ~IsLeaf(t2[p][j])
  BY <1>1, <1>2, <1>3 DEF Live, Tree, UpperOK
<1>8. Entries(pg, h2, t2)
  <2> SUFFICES ASSUME NEW p \in DOMAIN h, NEW j \in Idx
               PROVE  EntryOK(pg, h2[p], t2[p][j])
    BY <1>2 DEF Entries
  <2>1. CASE p = c
    BY <1>1, <1>2, <1>3, <2>1
  <2>2. CASE p # c
    <3>1. EntryOK(pg, h[p], t[p][j])
      BY DEF Live, Entries
    <3> QED BY <1>1, <1>2, <1>3, <2>2, <3>1
  <2> QED BY <2>1, <2>2
<1>9. \A p \in Pages \ DOMAIN h : t2[p] = t[p]
  BY <1>3
<1>10. Live(pg, hl, fr, h2, t2, r)
  BY <1>2, <1>3, <1>5, <1>6, <1>7, <1>8, <1>9, EditLive
<1> QED BY <1>5, <1>10 DEF h2, t2

\* One entry of a leaf page alone.
LEMMA WriteEntry ==
    ASSUME NEW pg, NEW hl, NEW fr, NEW h, NEW t, NEW r, Live(pg, hl, fr, h, t, r),
           NEW c \in DOMAIN h, ~Upper(r, h, c), NEW i \in Idx,
           NEW e \in Entry, ~IsTable(e), EntryOK(pg, h[c], e)
    PROVE  /\ Live(pg, hl, fr, h, Put(t, c, i, e), r)
           /\ SameTables(h, t, Put(t, c, i, e))
<1>1. h[c] \in Header /\ [h EXCEPT ![c] = h[c]] = h
  BY DEF Live, PoolTypes, HeadersOf
<1>2. \A j \in Idx : EntryOK(pg, h[c], t[c][j])
  BY DEF Live, Entries
<1> DEFINE d == h[c]
<1>3. d \in Header /\ d.parent = h[c].parent /\ EntryOK(pg, d, e)
  BY <1>1
<1>4. \A j \in Idx : j # i => EntryOK(pg, d, t[c][j])
  BY <1>2
<1>5. [h EXCEPT ![c] = d] = h
  BY <1>1
<1> HIDE DEF d
<1>6. Live(pg, hl, fr, [h EXCEPT ![c] = d], Put(t, c, i, e), r)
      /\ SameTables(h, t, Put(t, c, i, e))
  BY <1>3, <1>4, WriteLive
<1> QED BY <1>5, <1>6

\* PT_SHADOW_PS_MARK set in a table entry.
Marked(e) == [e EXCEPT !.ps = TRUE]

\* The mark keeps the context.
LEMMA MarkPs ==
    ASSUME NEW pg, NEW hl, NEW fr, NEW h, NEW t, NEW r, Live(pg, hl, fr, h, t, r),
           NEW p \in DOMAIN h, NEW i \in Idx, IsTable(t[p][i])
    PROVE  /\ Live(pg, hl, fr, h, Put(t, p, i, Marked(t[p][i])), r)
           /\ SameTables(h, t, Put(t, p, i, Marked(t[p][i])))
<1> DEFINE e == Marked(t[p][i])
           t2 == Put(t, p, i, e)
<1>1. HeadersOf(h) /\ t \in TableFile /\ DOMAIN h \subseteq Pages /\ p \in Pages
  BY DEF Live, PoolTypes, HeadersOf
<1>2. t[p][i] \in Entry
  BY <1>1 DEF TableFile
<1>3. t[p][i] \in [k : {"table"}, to : Pages, ps : BOOLEAN]
  BY <1>2 DEF IsTable, Entry, Zero, Leaf
<1>4. e \in Entry /\ IsTable(e) /\ ~IsLeaf(e) /\ e.to = t[p][i].to
  BY <1>3 DEF Marked, Entry, IsTable, IsLeaf
<1> HIDE DEF e
<1>5. /\ t2 \in TableFile
      /\ \A q \in Pages, j \in Idx : t2[q][j] = IF q = p /\ j = i THEN e ELSE t[q][j]
      /\ \A q \in Pages : q # p => t2[q] = t[q]
  BY <1>1, <1>4, PutFields
<1> HIDE DEF t2
<1>6. SameTables(h, t, t2)
  BY <1>1, <1>4, <1>5 DEF SameTables
<1>7. \A q \in DOMAIN h :
         Upper(r, h, q) => h[q].global /\ \A j \in Idx : ~IsLeaf(t2[q][j])
  BY <1>1, <1>4, <1>5 DEF Live, Tree, UpperOK
<1>8. Entries(pg, h, t2)
  <2> SUFFICES ASSUME NEW q \in DOMAIN h, NEW j \in Idx
               PROVE  EntryOK(pg, h[q], t2[q][j])
    BY DEF Entries
  <2>1. EntryOK(pg, h[q], t[q][j])
    BY DEF Live, Entries
  <2> QED BY <1>1, <1>4, <1>5, <2>1, NoLeaf
<1>9. \A q \in Pages \ DOMAIN h : t2[q] = t[q]
  BY <1>5
<1>10. Live(pg, hl, fr, h, t2, r)
  BY <1>1, <1>5, <1>6, <1>7, <1>8, <1>9, EditLive
<1> QED BY <1>6, <1>10 DEF e, t2

-----------------------------------------------------------------------------
(* What the invariant says of a state.                                     *)

\* The processor's walk is the one the tree lemmas speak of.
LEMMA WalkNames ==
    ASSUME NEW a
    PROVE  /\ Child(root, a[3]) = DirIn(root, tbl, a)
           /\ LeafPage(root, a) = LeafIn(root, tbl, a)
  BY DEF Child, LeafPage, DirIn, LeafIn, ChildIn

\* A context is alive whenever the guest, or a fault handler, runs.
LEMMA ContextLive ==
    ASSUME IInv, pc # "off"
    PROVE  /\ hwroot = root /\ Live(paging, held, free, hdr, tbl, root)
           /\ Tree(root, hdr, tbl) /\ HeadersOf(hdr) /\ tbl \in TableFile
           /\ active \subseteq Pages /\ active = Subtree(root) /\ root \in active
           /\ held = free \cup active /\ free \subseteq Pages
           /\ \A p \in Pages \ active : tbl[p] = Empty
<1>1. hwroot = root /\ Live(paging, held, free, hdr, tbl, root)
  BY DEF IInv, PoolInv
<1>2. Tree(root, hdr, tbl) /\ HeadersOf(hdr) /\ tbl \in TableFile
  BY <1>1 DEF Live, PoolTypes
<1>3. active = Subtree(root)
  BY <1>2, WholeTree
<1>4. root \in DOMAIN hdr
  BY <1>2 DEF Tree, RootOK
<1>5. DOMAIN hdr \subseteq Pages
  BY <1>2 DEF HeadersOf
<1>6. /\ held = free \cup DOMAIN hdr /\ free \subseteq Pages
      /\ \A p \in Pages \ DOMAIN hdr : tbl[p] = Empty
  BY <1>1 DEF Live, Lists, PoolTypes
<1>7. root \in active /\ active \subseteq Pages
  BY <1>4, <1>5 DEF active
<1>8. held = free \cup active /\ \A p \in Pages \ active : tbl[p] = Empty
  BY <1>6 DEF active
<1> QED BY <1>1, <1>2, <1>3, <1>6, <1>7, <1>8

\* The walk a fault handler is in.
LEMMA InWalk ==
    ASSUME IInv, pc \in Walking
    PROVE  /\ Walk(paging, pc, flt, lvl, cur, hdr, tbl, root) /\ pc # "off"
           /\ flt \in Fault /\ flt.a \in Addr /\ lvl \in Levels /\ cur \in active
           /\ flt.write \in BOOLEAN /\ flt.user \in BOOLEAN /\ flt.p \in BOOLEAN
           /\ OnPath(root, tbl, flt.a, lvl, cur)
           /\ flt.a[1] \in Idx /\ flt.a[2] \in Idx /\ flt.a[3] \in Idx
<1>1. Walk(paging, pc, flt, lvl, cur, hdr, tbl, root)
  BY DEF IInv, WalkInv
<1>2. pc # "off"
  BY DEF Walking
<1>3. /\ flt \in Fault /\ lvl \in Levels /\ cur \in active
      /\ OnPath(root, tbl, flt.a, lvl, cur)
  BY <1>1 DEF Walk, active
<1>4. flt.a \in Addr /\ flt.write \in BOOLEAN /\ flt.user \in BOOLEAN /\ flt.p \in BOOLEAN
  BY <1>3 DEF Fault
<1>5. flt.a[1] \in Idx /\ flt.a[2] \in Idx /\ flt.a[3] \in Idx
  BY <1>4, MmuAssumption DEF Levels
<1> QED BY <1>1, <1>2, <1>3, <1>4, <1>5

\* At level 1 a walk is in a leaf page, above it in an upper one.
LEMMA WalkPage ==
    ASSUME IInv, pc \in Walking
    PROVE  /\ lvl = 1 => /\ ~Upper(root, hdr, cur) /\ cur = LeafIn(root, tbl, flt.a)
                         /\ hdr[cur].parent = <<DirIn(root, tbl, flt.a), flt.a[2]>>
                         /\ DirIn(root, tbl, flt.a) \in active
                         /\ Upper(root, hdr, DirIn(root, tbl, flt.a))
                         /\ IsTable(tbl[DirIn(root, tbl, flt.a)][flt.a[2]])
           /\ lvl > 1 => Upper(root, hdr, cur)
<1>1. /\ OnPath(root, tbl, flt.a, lvl, cur) /\ flt.a \in Addr /\ pc # "off"
      /\ lvl \in Levels /\ cur \in active
  BY InWalk
<1>2. Tree(root, hdr, tbl) /\ HeadersOf(hdr)
  BY <1>1, ContextLive
<1>3. cur # NoPage
  BY <1>1, <1>2, MmuAssumption DEF HeadersOf, active
<1> DEFINE d == DirIn(root, tbl, flt.a)
           p == LeafIn(root, tbl, flt.a)
<1>4. /\ d # NoPage => d \in active /\ Upper(root, hdr, d)
      /\ p # NoPage => /\ d # NoPage /\ hdr[p].parent = <<d, flt.a[2]>>
                       /\ ~Upper(root, hdr, p) /\ IsTable(tbl[d][flt.a[2]])
  BY <1>1, <1>2, Paths DEF active
<1>5. (lvl = 3 => cur = root) /\ (lvl = 2 => cur = d) /\ (lvl = 1 => cur = p)
  BY <1>1 DEF OnPath
<1>6. Upper(root, hdr, root)
  BY DEF Upper
<1> HIDE DEF d, p
<1>7. lvl = 1 => /\ ~Upper(root, hdr, cur) /\ cur = p /\ hdr[cur].parent = <<d, flt.a[2]>>
                 /\ d \in active /\ Upper(root, hdr, d) /\ IsTable(tbl[d][flt.a[2]])
  BY <1>3, <1>4, <1>5
<1>8. lvl = 1 \/ lvl = 2 \/ lvl = 3
  BY <1>1 DEF Levels
<1>9. lvl > 1 => Upper(root, hdr, cur)
  <2>1. CASE lvl = 1
    BY <2>1
  <2>2. CASE lvl = 2
    BY <1>3, <1>4, <1>5, <2>2
  <2>3. CASE lvl = 3
    BY <1>5, <1>6, <2>3
  <2> QED BY <1>8, <2>1, <2>2, <2>3
<1> QED BY <1>7, <1>9 DEF d, p

\* What the runs check follows from the invariant.
LEMMA Consequences ==
    ASSUME IInv
    PROVE  TypeOK /\ PoolSound /\ TreeSound /\ WalkOnPath /\ HeadersExact /\ RightsBounded
<1>1. TypeOK
  <2>1. /\ held \subseteq Pages /\ free \subseteq Pages /\ active \subseteq Pages
        /\ hdr \in [active -> Header] /\ tbl \in [Pages -> [Idx -> Entry]]
    BY DEF IInv, PoolInv, PoolTypes, HeadersOf, active, TableFile
  <2>2. pc \in {"off", "guest", "exit", "fetch", "fix", "check", "map"}
    BY DEF IInv, PoolInv, Walking
  <2>3. root \in Pages \cup {NoPage} /\ hwroot \in Pages \cup {NoPage}
    BY DEF IInv, PoolInv
  <2>4. flt \in Fault \cup {NoFault} /\ lvl \in Levels /\ cur \in Pages \cup {NoPage}
    BY DEF IInv, WalkInv
  <2>5. /\ gpde \in [Dirs -> GuestPde] /\ gpte \in [Addr -> GuestPte]
        /\ paging \in BOOLEAN /\ wp \in BOOLEAN /\ changes \in 0..MaxChanges
    BY DEF IInv, GuestInv
  <2> QED BY <2>1, <2>2, <2>3, <2>4, <2>5 DEF TypeOK, Header
<1>2. PoolSound
  BY DEF IInv, PoolInv, Lists, PoolSound, active
<1>3. TreeSound
  <2> SUFFICES ASSUME pc # "off"
               PROVE  /\ hwroot = root /\ active = Subtree(root)
                      /\ hdr[root].parent = NoPage
                      /\ \A p \in active, i \in Idx :
                            IsTable(tbl[p][i]) => hdr[tbl[p][i].to].parent = <<p, i>>
    BY DEF TreeSound
  <2>1. hwroot = root /\ active = Subtree(root) /\ Tree(root, hdr, tbl)
    BY ContextLive
  <2>2. hdr[root].parent = NoPage
    BY <2>1 DEF Tree, RootOK
  <2>3. \A p \in active, i \in Idx :
           IsTable(tbl[p][i]) => hdr[tbl[p][i].to].parent = <<p, i>>
    BY <2>1 DEF Tree, DownOK, active
  <2> QED BY <2>1, <2>2, <2>3
<1>4. WalkOnPath
  <2> SUFFICES ASSUME pc \in Walking PROVE WalkOnPath
    BY DEF WalkOnPath, Walking
  <2>1. OnPath(root, tbl, flt.a, lvl, cur) /\ lvl \in Levels
    BY InWalk
  <2>2. /\ Child(root, flt.a[3]) = DirIn(root, tbl, flt.a)
        /\ LeafPage(root, flt.a) = LeafIn(root, tbl, flt.a)
    BY WalkNames
  <2>3. lvl = 1 \/ lvl = 2 \/ lvl = 3
    BY <2>1 DEF Levels
  <2> QED BY <2>1, <2>2, <2>3 DEF WalkOnPath, OnPath
<1>5. ASSUME NEW p \in active, NEW i \in Idx PROVE EntryOK(paging, hdr[p], tbl[p][i])
  <2>1. pc # "off"
    BY <1>5 DEF IInv, PoolInv
  <2>2. Live(paging, held, free, hdr, tbl, root)
    BY <2>1, ContextLive
  <2> QED BY <1>5, <2>2 DEF Live, Entries, active
<1>6. HeadersExact
  BY <1>5 DEF HeadersExact, SlotBitsCover, GlobalExact, EntryOK
<1>7. RightsBounded
  BY <1>5 DEF RightsBounded, EntryOK
<1> QED BY <1>1, <1>2, <1>3, <1>4, <1>6, <1>7

-----------------------------------------------------------------------------
(* The invariant holds initially.                                          *)

\* Before any page is allocated there is nothing to break.
LEMMA InitHolds == Init => IInv
<1> SUFFICES ASSUME Init PROVE IInv
  OBVIOUS
<1>1. GuestInv
  <2>1. gpde \in [Dirs -> GuestPde] /\ gpte \in [Addr -> GuestPte]
    BY TablesAssumption DEF Init
  <2>2. \A a \in Addr : gpde[Dir(a)].ps => LargeFrame(gpde[Dir(a)], a) \in Frames
    BY TablesAssumption DEF Init
  <2>3. paging = FALSE /\ wp = FALSE /\ changes \in 0..MaxChanges
    BY MmuAssumption DEF Init
  <2> QED BY <2>1, <2>2, <2>3 DEF GuestInv
<1>2. PoolInv
  <2>1. pc = "off" /\ root = NoPage /\ hwroot = NoPage /\ held = {} /\ free = {} /\ hdr = <<>>
    BY DEF Init
  <2>2. DOMAIN hdr = {} /\ HeadersOf(hdr)
    BY <2>1 DEF HeadersOf
  <2>3. tbl \in TableFile /\ \A p \in Pages : tbl[p] = Empty
    BY EmptyPage DEF Init, TableFile
  <2>4. PoolTypes(held, free, hdr, tbl)
    BY <2>1, <2>2, <2>3 DEF PoolTypes
  <2>5. Lists(held, free, hdr, tbl)
    BY <2>1, <2>2, <2>3 DEF Lists
  <2> QED BY <2>1, <2>2, <2>4, <2>5 DEF PoolInv, active
<1>3. WalkInv
  BY DEF Init, WalkInv, Walking, Levels
<1> QED BY <1>1, <1>2, <1>3 DEF IInv

-----------------------------------------------------------------------------
(* Steps that leave part of the state alone.                               *)

\* The guest's tables and control registers.
LEMMA SameGuest == ASSUME IInv, UNCHANGED guestVars PROVE GuestInv'
<1>1. gpde' = gpde /\ gpte' = gpte /\ paging' = paging /\ wp' = wp /\ changes' = changes
  BY DEF guestVars
<1> QED BY <1>1 DEF IInv, GuestInv

\* The pool, while the context lives on.
LEMMA SamePool ==
    ASSUME IInv, UNCHANGED <<poolVars, rootVars, paging>>, pc # "off",
           pc' \in {"guest", "exit"} \cup Walking
    PROVE  PoolInv'
<1>1. /\ held' = held /\ free' = free /\ hdr' = hdr /\ tbl' = tbl
      /\ root' = root /\ hwroot' = hwroot /\ paging' = paging
  BY DEF poolVars, rootVars
<1>2. pc' # "off"
  BY DEF Walking
<1>3. active' = active
  BY <1>1 DEF active
<1> QED BY <1>1, <1>2, <1>3 DEF IInv, PoolInv

\* A new pool for a context that lives on.
LEMMA NextPool ==
    ASSUME pc' \in {"guest", "exit"} \cup Walking, hwroot' = root',
           Live(paging', held', free', hdr', tbl', root')
    PROVE  PoolInv'
<1>1. pc' # "off"
  BY DEF Walking
<1>2. root' \in Pages
  BY DEF Live, Tree, RootOK, PoolTypes, HeadersOf
<1>3. PoolTypes(held', free', hdr', tbl') /\ Lists(held', free', hdr', tbl')
  BY DEF Live
<1> QED BY <1>1, <1>2, <1>3 DEF PoolInv

\* No walk after the step.
LEMMA NoWalk ==
    ASSUME IInv, pc' \notin Walking,
           \/ UNCHANGED <<flt, lvl, cur>>
           \/ flt' = NoFault /\ lvl' = 3 /\ cur' = NoPage
    PROVE  WalkInv'
<1>1. pc' # "check"
  BY DEF Walking
<1> QED BY <1>1 DEF IInv, WalkInv, Levels

-----------------------------------------------------------------------------
(* Steps of the guest and of the pool.                                     *)

\* VM entry.
LEMMA ResumeStep == ASSUME IInv, Resume PROVE IInv'
<1>1. pc' = "guest" /\ pc # "off" /\ pc' \notin Walking
  BY DEF Resume, Walking
<1>2. GuestInv'
  BY SameGuest DEF Resume
<1>3. PoolInv'
  BY <1>1, SamePool DEF Resume, guestVars
<1>4. WalkInv'
  BY <1>1, NoWalk DEF Resume
<1> QED BY <1>2, <1>3, <1>4 DEF IInv

\* The guest stores to a page table.
LEMMA StorePteStep == ASSUME IInv, NEW s \in PteStores, StorePte(s[1], s[2]) PROVE IInv'
<1>1. pc' = "exit" /\ pc # "off" /\ pc' \notin Walking
  BY DEF StorePte, Running, Walking
<1>2. GuestInv'
  <2>1. s[1] \in Addr /\ s[2] \in GuestPte
    BY TablesAssumption
  <2>2. gpte' \in [Addr -> GuestPte]
    BY <2>1 DEF StorePte, IInv, GuestInv
  <2>3. changes' \in 0..MaxChanges
    BY MmuAssumption DEF StorePte, IInv, GuestInv
  <2> QED BY <2>2, <2>3 DEF StorePte, IInv, GuestInv
<1>3. PoolInv'
  BY <1>1, SamePool DEF StorePte
<1>4. WalkInv'
  BY <1>1, NoWalk DEF StorePte
<1> QED BY <1>2, <1>3, <1>4 DEF IInv

\* The guest stores to a directory; the frames stay guest frames.
LEMMA StorePdeStep == ASSUME IInv, NEW s \in PdeStores, StorePde(s[1], s[2]) PROVE IInv'
<1>1. pc' = "exit" /\ pc # "off" /\ pc' \notin Walking
  BY DEF StorePde, Running, Walking
<1>2. GuestInv'
  <2>1. s[1] \in Dirs /\ s[2] \in GuestPde
    BY TablesAssumption
  <2>2. gpde \in [Dirs -> GuestPde] /\ gpde' = [gpde EXCEPT ![s[1]] = s[2]]
    BY DEF StorePde, IInv, GuestInv
  <2>3. gpde' \in [Dirs -> GuestPde]
    BY <2>1, <2>2
  <2>4. changes' \in 0..MaxChanges
    BY MmuAssumption DEF StorePde, IInv, GuestInv
  <2>5. ASSUME NEW a \in Addr, gpde'[Dir(a)].ps
        PROVE  LargeFrame(gpde'[Dir(a)], a) \in Frames
    <3>1. Dir(a) \in Dirs
      BY DEF Dir, Dirs
    <3>2. CASE Dir(a) = s[1]
      <4>1. gpde'[Dir(a)] = s[2]
        BY <2>1, <2>2, <3>2
      <4> QED BY <2>5, <3>2, <4>1, TablesAssumption
    <3>3. CASE Dir(a) # s[1]
      <4>1. gpde'[Dir(a)] = gpde[Dir(a)]
        BY <2>2, <3>1, <3>3
      <4> QED BY <2>5, <4>1 DEF IInv, GuestInv
    <3> QED BY <3>2, <3>3
  <2> QED BY <2>3, <2>4, <2>5 DEF StorePde, IInv, GuestInv
<1>3. PoolInv'
  BY <1>1, SamePool DEF StorePde
<1>4. WalkInv'
  BY <1>1, NoWalk DEF StorePde
<1> QED BY <1>2, <1>3, <1>4 DEF IInv

\* alloc_mmu_pages takes a page from the host, or fails and gives all back.
LEMMA AllocMmuStep == ASSUME IInv, AllocMmuPage \/ AllocMmuFails PROVE IInv'
<1>1. pc = "off" /\ pc' = "off" /\ pc' \notin Walking /\ held # Pages
  BY DEF AllocMmuPage, AllocMmuFails, faultVars, Walking
<1>2. UNCHANGED <<guestVars, flt, lvl, cur, hdr, tbl, root, hwroot>>
  BY DEF AllocMmuPage, AllocMmuFails, faultVars, rootVars
<1>3. GuestInv'
  BY <1>2, SameGuest
<1>4. WalkInv'
  BY <1>1, <1>2, NoWalk
<1>5. /\ held \subseteq Pages /\ free \subseteq Pages /\ HeadersOf(hdr) /\ tbl \in TableFile
      /\ DOMAIN hdr = {} /\ held = free /\ \A p \in Pages : tbl[p] = Empty
  BY <1>1 DEF IInv, PoolInv, PoolTypes, Lists, active
<1>6. held' \subseteq Pages /\ free' \subseteq Pages /\ held' = free'
  <2>1. CASE AllocMmuPage
    <3>1. First(Pages \ held) \in Pages
      BY <1>1, <1>5, FirstIn
    <3> QED BY <1>5, <2>1, <3>1 DEF AllocMmuPage
  <2>2. CASE AllocMmuFails
    BY <1>5, <2>2 DEF AllocMmuFails
  <2> QED BY <2>1, <2>2
<1>7. PoolTypes(held', free', hdr', tbl') /\ Lists(held', free', hdr', tbl')
  BY <1>2, <1>5, <1>6 DEF PoolTypes, Lists
<1>8. PoolInv'
  BY <1>1, <1>2, <1>5, <1>7 DEF IInv, PoolInv, active
<1> QED BY <1>3, <1>4, <1>8 DEF IInv

-----------------------------------------------------------------------------
(* Steps that make a new context, or end one.                              *)

\* NewRoot makes a context of free pages.
LEMMA NewRootLive ==
    ASSUME NEW pg, NEW F \in SUBSET Pages, F # {}, NEW h, DOMAIN h = {}, HeadersOf(h),
           NEW t \in TableFile, \A p \in Pages : t[p] = Empty, NewRoot(F, h, t)
    PROVE  /\ hwroot' = root' /\ root' \in Pages /\ root' \in DOMAIN hdr'
           /\ Live(pg, F, free', hdr', tbl', root')
<1> DEFINE r == First(F)
<1>1. r \in F
  BY FirstIn
<1>2. /\ free' = F \ {r} /\ hdr' = With(h, r, NewHeader(NoPage)) /\ tbl' = t
      /\ root' = r /\ hwroot' = r
  BY DEF NewRoot
<1> HIDE DEF r
<1>3. Live(pg, F, F \ {r}, With(h, r, NewHeader(NoPage)), t, r)
  BY <1>1, FreshLive
<1>4. Live(pg, F, free', hdr', tbl', root')
  BY <1>2, <1>3
<1>5. root' \in DOMAIN hdr'
  BY <1>4 DEF Live, Tree, RootOK
<1> QED BY <1>1, <1>2, <1>4, <1>5

\* All pages of the tree released.
LEMMA AllReleased ==
    ASSUME IInv, pc # "off"
    PROVE  /\ DOMAIN Without(Subtree(root)) = {} /\ HeadersOf(Without(Subtree(root)))
           /\ Released(Subtree(root), tbl) \in TableFile
           /\ \A p \in Pages : Released(Subtree(root), tbl)[p] = Empty
<1> DEFINE S == Subtree(root)
<1>1. /\ S = active /\ tbl \in TableFile /\ \A p \in Pages \ active : tbl[p] = Empty
  BY ContextLive
<1> HIDE DEF S
<1>2. DOMAIN Without(S) = {} /\ HeadersOf(Without(S))
  BY <1>1 DEF Without, HeadersOf
<1>3. \A p \in Pages : Released(S, tbl)[p] = Empty
  BY <1>1 DEF Released
<1>4. Released(S, tbl) \in TableFile
  BY <1>1, EmptyPage DEF Released, TableFile
<1> QED BY <1>2, <1>3, <1>4 DEF S

\* kvm_mmu_reset_context makes a context of the pages of the old one.
LEMMA FreshContextLive ==
    ASSUME IInv, pc # "off", FreshContext, held' = held, NEW pg
    PROVE  /\ hwroot' = root' /\ root' \in Pages /\ root' \in DOMAIN hdr'
           /\ Live(pg, held', free', hdr', tbl', root')
<1> DEFINE S == Subtree(root)
           F == free \cup S
           h == Without(S)
           t == Released(S, tbl)
<1>1. F \in SUBSET Pages /\ F # {} /\ F = held
  BY ContextLive
<1>2. DOMAIN h = {} /\ HeadersOf(h) /\ t \in TableFile /\ \A p \in Pages : t[p] = Empty
  BY AllReleased
<1>3. NewRoot(F, h, t)
  BY DEF FreshContext
<1> HIDE DEF S, F, h, t
<1>4. /\ hwroot' = root' /\ root' \in Pages /\ root' \in DOMAIN hdr'
      /\ Live(pg, F, free', hdr', tbl', root')
  BY <1>1, <1>2, <1>3, NewRootLive
<1> QED BY <1>1, <1>4

\* kvm_mmu_init makes the first context.
LEMMA InitStep == ASSUME IInv, kvm_mmu_init PROVE IInv'
<1>1. /\ pc = "off" /\ pc' = "guest" /\ pc' \notin Walking /\ held = Pages
      /\ NewRoot(free, hdr, tbl)
      /\ UNCHANGED <<guestVars, held, flt, lvl, cur>>
  BY DEF kvm_mmu_init, Walking
<1>2. /\ HeadersOf(hdr) /\ tbl \in TableFile
      /\ DOMAIN hdr = {} /\ held = free /\ \A p \in Pages : tbl[p] = Empty
  BY <1>1 DEF IInv, PoolInv, PoolTypes, Lists, active
<1>3. Pages # {}
  BY FS_EmptySet, MmuAssumption
<1>4. hwroot' = root' /\ Live(paging', free, free', hdr', tbl', root')
  BY <1>1, <1>2, <1>3, NewRootLive
<1>5. Live(paging', held', free', hdr', tbl', root')
  BY <1>1, <1>2, <1>4
<1>6. PoolInv'
  BY <1>1, <1>4, <1>5, NextPool
<1>7. GuestInv'
  BY <1>1, SameGuest
<1>8. WalkInv'
  BY <1>1, NoWalk
<1> QED BY <1>6, <1>7, <1>8 DEF IInv

\* kvm_mmu_destroy leaves no page behind.
LEMMA DestroyStep == ASSUME IInv, kvm_mmu_destroy PROVE IInv'
<1>1. /\ pc # "off" /\ pc' = "off" /\ pc' \notin Walking /\ free' = {} /\ root' = NoPage
      /\ tbl' = Released(Subtree(root), tbl) /\ hdr' = Without(Subtree(root))
      /\ held' = held \ (free \cup Subtree(root))
      /\ UNCHANGED <<guestVars, hwroot, flt, lvl, cur>>
  BY DEF kvm_mmu_destroy, Walking
<1>2. held' = {}
  BY <1>1, ContextLive
<1>3. /\ DOMAIN hdr' = {} /\ HeadersOf(hdr') /\ tbl' \in TableFile
      /\ \A p \in Pages : tbl'[p] = Empty
  BY <1>1, AllReleased
<1>4. PoolTypes(held', free', hdr', tbl') /\ Lists(held', free', hdr', tbl')
  BY <1>1, <1>2, <1>3 DEF PoolTypes, Lists
<1>5. PoolInv'
  BY <1>1, <1>3, <1>4 DEF IInv, PoolInv, active
<1>6. GuestInv'
  BY <1>1, SameGuest
<1>7. WalkInv'
  BY <1>1, NoWalk
<1> QED BY <1>5, <1>6, <1>7 DEF IInv

\* set_cr0 replaces the context.
LEMMA SetCr0Step ==
    ASSUME IInv, NEW pg \in BOOLEAN, NEW writeProtect \in BOOLEAN, set_cr0(pg, writeProtect)
    PROVE  IInv'
<1>1. /\ pc # "off" /\ pc' = "exit" /\ pc' \notin Walking /\ FreshContext /\ held' = held
      /\ UNCHANGED <<gpde, gpte, changes, flt, lvl, cur>>
      /\ paging' = pg /\ wp' = writeProtect
  BY DEF set_cr0, Running, Walking
<1>2. hwroot' = root' /\ Live(paging', held', free', hdr', tbl', root')
  BY <1>1, FreshContextLive
<1>3. PoolInv'
  BY <1>1, <1>2, NextPool
<1>4. GuestInv'
  BY <1>1 DEF IInv, GuestInv
<1>5. WalkInv'
  BY <1>1, NoWalk
<1> QED BY <1>3, <1>4, <1>5 DEF IInv

\* A flush for want of memory sends the walk back to the new root.
LEMMA FlushStep ==
    ASSUME IInv, pc \in {"fetch", "map"}, nonpaging_flush
    PROVE  IInv'
<1>1. /\ FreshContext /\ held' = held /\ lvl' = 3 /\ cur' = root' /\ pc' = pc /\ flt' = flt
      /\ UNCHANGED guestVars
  BY DEF nonpaging_flush
<1>2. pc \in Walking /\ pc # "off" /\ pc' \notin {"fix", "check"}
  BY <1>1 DEF Walking
<1>3. /\ hwroot' = root' /\ root' \in Pages /\ root' \in DOMAIN hdr'
      /\ Live(paging', held', free', hdr', tbl', root')
  BY <1>1, <1>2, FreshContextLive
<1>4. PoolInv'
  BY <1>1, <1>2, <1>3, NextPool
<1>5. GuestInv'
  BY <1>1, SameGuest
<1>6. paging' = paging
  BY <1>1 DEF guestVars
<1>7. OnPath(root', tbl', flt'.a, lvl', cur')
  BY <1>1 DEF OnPath
<1>8. Walk(paging, pc, flt, lvl, cur, hdr, tbl, root)
  BY <1>2, InWalk
<1>9. Walk(paging', pc', flt', lvl', cur', hdr', tbl', root')
  BY <1>1, <1>2, <1>3, <1>6, <1>7, <1>8 DEF Walk, Levels
<1>10. WalkInv'
  BY <1>1, <1>2, <1>3, <1>9 DEF WalkInv, Walk
<1> QED BY <1>4, <1>5, <1>10 DEF IInv

-----------------------------------------------------------------------------
(* Steps that take leaf pages, or leaves, out.                             *)

\* kvm_mmu_flush_tlb takes leaf pages out only: an upper page is global.
LEMMA FlushTlbLive ==
    ASSUME IInv, pc # "off", kvm_mmu_flush_tlb
    PROVE  hwroot' = root' /\ Live(paging, held', free', hdr', tbl', root')
<1> DEFINE S == FlushedPages
<1>1. /\ hwroot = root /\ Live(paging, held, free, hdr, tbl, root)
      /\ Tree(root, hdr, tbl) /\ HeadersOf(hdr) /\ tbl \in TableFile
  BY ContextLive
<1>2. /\ hdr' = Without(S) /\ free' = free \cup S
      /\ held' = held /\ root' = root /\ hwroot' = hwroot
      /\ tbl' = [p \in Pages |->
                   [i \in Idx |-> IF p \in S \/ (\E q \in S : hdr[q].parent = <<p, i>>)
                                  THEN Zero ELSE tbl[p][i]]]
  BY DEF kvm_mmu_flush_tlb, rootVars
<1>3. S \in SUBSET DOMAIN hdr /\ \A p \in S : ~Upper(root, hdr, p)
  BY <1>1 DEF FlushedPages, active, Tree, UpperOK
<1> HIDE DEF S
<1>4. Left(hdr, S, hdr') /\ HeadersOf(hdr')
  BY <1>1, <1>2 DEF Left, Without, HeadersOf, active
<1>5. tbl' \in TableFile
  BY <1>1, <1>2, EntryKinds DEF TableFile
<1>6. Cleared(hdr, S, tbl, tbl')
  BY <1>2 DEF Cleared
<1>7. Live(paging, held, free \cup S, hdr', tbl', root)
  BY <1>1, <1>3, <1>4, <1>5, <1>6, DropLive
<1> QED BY <1>1, <1>2, <1>7

\* A load of CR3 flushes, or does nothing without paging.
LEMMA SetCr3Step == ASSUME IInv, set_cr3 PROVE IInv'
<1>1. /\ pc # "off" /\ pc' = "exit" /\ pc' \notin Walking
      /\ UNCHANGED <<guestVars, flt, lvl, cur>>
  BY DEF set_cr3, Running, Walking
<1>2. GuestInv' /\ WalkInv'
  BY <1>1, SameGuest, NoWalk
<1>3. paging' = paging
  BY <1>1 DEF guestVars
<1>4. CASE paging
  <2>1. kvm_mmu_flush_tlb
    BY <1>4 DEF set_cr3
  <2>2. hwroot' = root' /\ Live(paging, held', free', hdr', tbl', root')
    BY <1>1, <2>1, FlushTlbLive
  <2>3. PoolInv'
    BY <1>1, <1>3, <2>2, NextPool
  <2> QED BY <1>2, <2>3 DEF IInv
<1>5. CASE ~paging
  <2>1. UNCHANGED <<poolVars, rootVars>>
    BY <1>5 DEF set_cr3
  <2>2. PoolInv'
    BY <1>1, <1>3, <2>1, SamePool
  <2> QED BY <1>2, <2>2 DEF IInv
<1> QED BY <1>4, <1>5

\* paging_inval_page drops one leaf, or the leaf page of a large page.
LEMMA InvalPageStep == ASSUME IInv, NEW a \in Addr, paging_inval_page(a) PROVE IInv'
<1>1. /\ pc # "off" /\ pc' = "exit" /\ pc' \notin Walking /\ Invalidated(a)
      /\ UNCHANGED <<guestVars, flt, lvl, cur, held, root, hwroot>>
  BY DEF paging_inval_page, Running, Walking, rootVars
<1>2. GuestInv' /\ WalkInv'
  BY <1>1, SameGuest, NoWalk
<1>3. paging' = paging
  BY <1>1 DEF guestVars
<1>4. /\ hwroot = root /\ Live(paging, held, free, hdr, tbl, root)
      /\ Tree(root, hdr, tbl) /\ HeadersOf(hdr) /\ tbl \in TableFile
      /\ DOMAIN hdr \subseteq Pages
  BY <1>1, ContextLive DEF active
<1> DEFINE dir == DirIn(root, tbl, a)
           pt == LeafIn(root, tbl, a)
<1>5. Child(root, a[3]) = dir /\ LeafPage(root, a) = pt
  BY WalkNames
<1>6. pt # NoPage => /\ dir \in DOMAIN hdr /\ Upper(root, hdr, dir)
                     /\ pt \in DOMAIN hdr /\ ~Upper(root, hdr, pt)
                     /\ hdr[pt].parent = <<dir, a[2]>>
  BY <1>4, Paths
<1> HIDE DEF dir, pt
<1>7. a[1] \in Idx /\ a[2] \in Idx
  BY MmuAssumption DEF Levels
<1>8. CASE pt = NoPage
  <2>1. UNCHANGED <<tbl, hdr, free>>
    BY <1>1, <1>5, <1>8 DEF Invalidated
  <2>2. UNCHANGED <<poolVars, rootVars, paging>>
    BY <1>1, <1>3, <2>1 DEF poolVars, rootVars
  <2>3. PoolInv'
    BY <1>1, <2>2, SamePool
  <2> QED BY <1>2, <2>3 DEF IInv
<1>9. CASE pt # NoPage /\ tbl[dir][a[2]].ps
  <2> DEFINE S == {pt}
  <2>1. /\ tbl' = [Released(S, tbl) EXCEPT ![dir][a[2]] = Zero]
        /\ hdr' = Without(S) /\ free' = free \cup S
    BY <1>1, <1>5, <1>9 DEF Invalidated
  <2>2. /\ dir \in Pages /\ pt \in Pages /\ dir # pt
    BY <1>4, <1>6, <1>9
  <2>3. Left(hdr, S, hdr') /\ HeadersOf(hdr')
    BY <1>4, <2>1 DEF Left, Without, HeadersOf, active
  <2>4. Released(S, tbl) \in TableFile
    BY <1>4, EmptyPage DEF Released, TableFile
  <2>5. tbl' = Put(Released(S, tbl), dir, a[2], Zero)
    BY <2>1 DEF Put
  <2> DEFINE t == Released(S, tbl)
  <2>6. \A p \in Pages, i \in Idx : t[p][i] = IF p = pt THEN Zero ELSE tbl[p][i]
    BY EmptyPage DEF Released
  <2>7. t \in TableFile /\ tbl' = Put(t, dir, a[2], Zero)
    BY <2>4, <2>5
  <2> HIDE DEF t
  <2>8. /\ tbl' \in TableFile
        /\ \A p \in Pages, i \in Idx :
              tbl'[p][i] = IF p = dir /\ i = a[2] THEN Zero ELSE t[p][i]
    <3> DEFINE i == a[2]
               e == Zero
    <3>1. i \in Idx /\ e \in Entry /\ tbl' = Put(t, dir, i, e)
      BY <1>7, <2>7, EntryKinds
    <3> HIDE DEF i, e
    <3>2. /\ Put(t, dir, i, e) \in TableFile
          /\ \A q \in Pages, j \in Idx :
                Put(t, dir, i, e)[q][j] = IF q = dir /\ j = i THEN e ELSE t[q][j]
      BY <2>2, <2>7, <3>1, PutFields
    <3>3. /\ tbl' \in TableFile
          /\ \A q \in Pages, j \in Idx :
                tbl'[q][j] = IF q = dir /\ j = i THEN e ELSE t[q][j]
      BY <3>1, <3>2
    <3> QED BY <3>3 DEF i, e
  <2>9. Cleared(hdr, S, tbl, tbl')
    BY <1>6, <1>9, <2>6, <2>8 DEF Cleared
  <2>10. S \in SUBSET DOMAIN hdr /\ \A p \in S : ~Upper(root, hdr, p)
    BY <1>6, <1>9
  <2> HIDE DEF S
  <2>11. Live(paging, held, free \cup S, hdr', tbl', root)
    BY <1>4, <2>3, <2>8, <2>9, <2>10, DropLive
  <2>12. hwroot' = root' /\ Live(paging', held', free', hdr', tbl', root')
    BY <1>1, <1>3, <1>4, <2>1, <2>11
  <2>13. PoolInv'
    BY <1>1, <2>12, NextPool
  <2> QED BY <1>2, <2>13 DEF IInv
<1>10. CASE pt # NoPage /\ ~tbl[dir][a[2]].ps
  <2>1. tbl' = Put(tbl, pt, a[1], Zero) /\ UNCHANGED <<hdr, free>>
    BY <1>1, <1>5, <1>10 DEF Invalidated, Put
  <2>2. EntryOK(paging, hdr[pt], Zero) /\ Zero \in Entry /\ ~IsTable(Zero)
    BY EntryKinds, NoLeaf
  <2>3. Live(paging, held, free, hdr, Put(tbl, pt, a[1], Zero), root)
    BY <1>4, <1>6, <1>7, <1>10, <2>2, WriteEntry
  <2>4. hwroot' = root' /\ Live(paging', held', free', hdr', tbl', root')
    BY <1>1, <1>3, <1>4, <2>1, <2>3
  <2>5. PoolInv'
    BY <1>1, <2>4, NextPool
  <2> QED BY <1>2, <2>5 DEF IInv
<1> QED BY <1>8, <1>9, <1>10

\* kvm_mmu_slot_remove_write_access clears write bits of leaves.
LEMMA RemoveWriteStep ==
    ASSUME IInv, NEW s \in Slots, kvm_mmu_slot_remove_write_access(s) PROVE IInv'
<1>1. /\ pc # "off" /\ pc' = pc /\ pc' \in {"guest", "exit"} /\ pc' \notin Walking
      /\ UNCHANGED <<guestVars, flt, lvl, cur, held, free, hdr, root, hwroot>>
      /\ tbl' = [p \in Pages |->
                   [i \in Idx |-> IF p \in active /\ s \in hdr[p].slots /\ IsLeaf(tbl[p][i])
                                  THEN [tbl[p][i] EXCEPT !.w = FALSE] ELSE tbl[p][i]]]
  BY DEF kvm_mmu_slot_remove_write_access, faultVars, rootVars, Walking
<1>2. GuestInv' /\ WalkInv'
  BY <1>1, SameGuest, NoWalk
<1>3. paging' = paging
  BY <1>1 DEF guestVars
<1>4. /\ hwroot = root /\ Live(paging, held, free, hdr, tbl, root)
      /\ Tree(root, hdr, tbl) /\ HeadersOf(hdr) /\ tbl \in TableFile
      /\ DOMAIN hdr \subseteq Pages
  BY <1>1, ContextLive DEF active
<1>5. ASSUME NEW e \in Entry, IsLeaf(e)
      PROVE  /\ [e EXCEPT !.w = FALSE] \in Leaf
             /\ \A pg, d : EntryOK(pg, d, e) => EntryOK(pg, d, [e EXCEPT !.w = FALSE])
  <2>1. e \in Leaf
    BY <1>5, EntryKinds
  <2> DEFINE c == [e EXCEPT !.w = FALSE]
  <2>2. c \in Leaf /\ c.p = e.p /\ c.f = e.f /\ c.g = e.g /\ c.u = e.u
        /\ c.su = e.su /\ c.sw = e.sw /\ ~c.w
    BY <2>1 DEF Leaf
  <2> HIDE DEF c
  <2>3. \A pg, d : EntryOK(pg, d, e) => EntryOK(pg, d, c)
    BY <1>5, <2>2 DEF EntryOK
  <2> QED BY <2>2, <2>3 DEF c
<1>6. ASSUME NEW p \in Pages, NEW i \in Idx
      PROVE  /\ tbl'[p][i] \in Entry
             /\ IsLeaf(tbl[p][i]) \/ tbl'[p][i] = tbl[p][i]
             /\ IsLeaf(tbl[p][i]) => IsLeaf(tbl'[p][i])
             /\ \A pg, d : EntryOK(pg, d, tbl[p][i]) => EntryOK(pg, d, tbl'[p][i])
  <2>1. tbl[p][i] \in Entry
    BY <1>4 DEF TableFile
  <2> DEFINE e == tbl[p][i]
             c == [e EXCEPT !.w = FALSE]
  <2>2. tbl'[p][i] = e \/ (IsLeaf(e) /\ tbl'[p][i] = c)
    BY <1>1
  <2>3. IsLeaf(e) => c \in Leaf /\ \A pg, d : EntryOK(pg, d, e) => EntryOK(pg, d, c)
    BY <1>5, <2>1
  <2>4. e \in Entry
    BY <2>1
  <2> HIDE DEF c
  <2> QED BY <2>2, <2>3, <2>4, EntryKinds
<1>7. tbl' \in TableFile
  BY <1>1, <1>6 DEF TableFile
<1>8. SameTables(hdr, tbl, tbl')
  <2> SUFFICES ASSUME NEW p \in DOMAIN hdr, NEW i \in Idx
               PROVE  /\ IsTable(tbl'[p][i]) <=> IsTable(tbl[p][i])
                      /\ IsTable(tbl[p][i]) => tbl'[p][i].to = tbl[p][i].to
    BY DEF SameTables
  <2>1. p \in Pages /\ tbl[p][i] \in Entry
    BY <1>4 DEF TableFile
  <2>2. IsLeaf(tbl[p][i]) => ~IsTable(tbl[p][i]) /\ ~IsTable(tbl'[p][i])
    BY <1>6, <2>1, EntryKinds
  <2> QED BY <1>6, <2>1, <2>2
<1>9. \A p \in DOMAIN hdr :
         Upper(root, hdr, p) => hdr[p].global /\ \A i \in Idx : ~IsLeaf(tbl'[p][i])
  BY <1>4, <1>6 DEF Tree, UpperOK
<1>10. \A p \in Pages \ DOMAIN hdr : tbl'[p] = tbl[p]
  <2> SUFFICES ASSUME NEW p \in Pages \ DOMAIN hdr PROVE tbl'[p] = tbl[p]
    OBVIOUS
  <2>1. tbl[p] \in [Idx -> Entry] /\ tbl'[p] = [i \in Idx |-> tbl[p][i]]
    BY <1>1, <1>4 DEF TableFile, active
  <2> QED BY <2>1
<1>11. Entries(paging, hdr, tbl')
  BY <1>4, <1>6 DEF Live, Entries
<1>12. Live(paging, held, free, hdr, tbl', root)
  BY <1>4, <1>7, <1>8, <1>9, <1>10, <1>11, EditLive
<1>13. hwroot' = root' /\ Live(paging', held', free', hdr', tbl', root')
  BY <1>1, <1>3, <1>4, <1>12
<1>14. PoolInv'
  BY <1>1, <1>13, NextPool
<1> QED BY <1>2, <1>14 DEF IInv

-----------------------------------------------------------------------------
(* Steps of the fault handlers.                                            *)

\* Where fetch and nonpaging_map start from.
LEMMA ReachedOK ==
    ASSUME IInv, pc # "off", NEW a \in Addr
    PROVE  /\ Reached(a)[1] \in Levels /\ Reached(a)[2] \in active
           /\ OnPath(root, tbl, a, Reached(a)[1], Reached(a)[2])
           /\ LeafOf(root, a) \in Entry
           /\ LeafOf(root, a) # Zero => /\ Reached(a)[1] = 1
                                        /\ IsLeaf(tbl[Reached(a)[2]][a[1]])
<1> DEFINE d == DirIn(root, tbl, a)
           p == LeafIn(root, tbl, a)
<1>1. Tree(root, hdr, tbl) /\ HeadersOf(hdr) /\ tbl \in TableFile /\ root \in active
  BY ContextLive
<1>2. /\ d # NoPage => d \in DOMAIN hdr
      /\ p # NoPage => d # NoPage /\ p \in DOMAIN hdr /\ ~Upper(root, hdr, p)
  BY <1>1, Paths
<1>3. Child(root, a[3]) = d /\ LeafPage(root, a) = p
  BY WalkNames
<1>4. a[1] \in Idx
  BY MmuAssumption DEF Levels
<1>5. p # NoPage => /\ tbl[p][a[1]] \in Entry
                    /\ tbl[p][a[1]] # Zero => IsLeaf(tbl[p][a[1]])
  BY <1>1, <1>2, <1>4, LeafPages
<1>6. OnPath(root, tbl, a, 3, root) /\ OnPath(root, tbl, a, 2, d) /\ OnPath(root, tbl, a, 1, p)
  BY DEF OnPath
<1> HIDE DEF d, p
<1>7. CASE d = NoPage
  <2>1. p = NoPage /\ Reached(a) = <<3, root>>
    BY <1>2, <1>3, <1>7 DEF Reached
  <2>2. LeafOf(root, a) = Zero
    BY <1>3, <2>1 DEF LeafOf
  <2> QED BY <1>1, <1>6, <2>1, <2>2, EntryKinds DEF Levels
<1>8. CASE d # NoPage /\ p = NoPage
  <2>1. Reached(a) = <<2, d>>
    BY <1>3, <1>8 DEF Reached
  <2>2. LeafOf(root, a) = Zero
    BY <1>3, <1>8 DEF LeafOf
  <2> QED BY <1>2, <1>6, <1>8, <2>1, <2>2, EntryKinds DEF Levels, active
<1>9. CASE p # NoPage
  <2>1. Reached(a) = <<1, p>>
    BY <1>2, <1>3, <1>9 DEF Reached
  <2>2. LeafOf(root, a) = tbl[p][a[1]]
    BY <1>3, <1>9 DEF LeafOf
  <2> QED BY <1>2, <1>5, <1>6, <1>9, <2>1, <2>2 DEF Levels, active
<1> QED BY <1>7, <1>8, <1>9

\* A page fault starts a walk where the tree ends.
LEMMA PageFaultStep ==
    ASSUME IInv, NEW a \in Addr, NEW write \in BOOLEAN, NEW user \in BOOLEAN,
           PageFault(a, write, user)
    PROVE  IInv'
<1>1. /\ pc # "off" /\ lvl' = Reached(a)[1] /\ cur' = Reached(a)[2]
      /\ UNCHANGED <<guestVars, poolVars, rootVars>>
  BY DEF PageFault, Running
<1>2. /\ paging' = paging /\ hdr' = hdr /\ tbl' = tbl /\ root' = root
      /\ paging \in BOOLEAN
  BY <1>1 DEF guestVars, poolVars, rootVars, IInv, GuestInv
<1>3. hwroot = root /\ active \subseteq Pages
  BY <1>1, ContextLive
<1> DEFINE e == LeafOf(root, a)
<1>4. flt' = [a |-> a, write |-> write, user |-> user, p |-> IsLeaf(e) /\ e.p, fixed |-> FALSE]
  BY <1>3 DEF PageFault
<1>5. pc' = CASE ~paging -> "map"
              [] paging /\ e = Zero -> "fetch"
              [] paging /\ e # Zero -> "fix"
  BY DEF PageFault
<1>6. /\ lvl' \in Levels /\ cur' \in active /\ OnPath(root, tbl, a, lvl', cur')
      /\ e \in Entry
      /\ e # Zero => lvl' = 1 /\ IsLeaf(tbl[cur'][a[1]])
  BY <1>1, ReachedOK
<1> HIDE DEF e
<1>7. (IsLeaf(e) /\ e.p) \in BOOLEAN
  BY <1>6, EntryKinds DEF Leaf
<1>8. flt' \in Fault /\ flt'.a = a
  BY <1>4, <1>7 DEF Fault
<1>9. pc' \in {"map", "fetch", "fix"} /\ (pc' = "map" <=> ~paging) /\ (pc' = "fix" => e # Zero)
  BY <1>2, <1>5
<1>10. pc' \in Walking /\ pc' # "check"
  BY <1>9 DEF Walking
<1>11. Walk(paging', pc', flt', lvl', cur', hdr', tbl', root')
  <2>1. OnPath(root', tbl', flt'.a, lvl', cur') /\ cur' \in DOMAIN hdr'
    BY <1>2, <1>6, <1>8 DEF active
  <2>2. pc' \in {"fix", "check"} => lvl' = 1 /\ IsLeaf(tbl'[cur'][flt'.a[1]])
    BY <1>2, <1>6, <1>8, <1>9
  <2>3. pc' = "fix" => IsLeaf(tbl'[cur'][flt'.a[lvl']])
    BY <2>2
  <2>4. pc' = "map" <=> ~paging'
    BY <1>2, <1>9
  <2> QED BY <1>6, <1>8, <2>1, <2>2, <2>3, <2>4 DEF Walk
<1>12. WalkInv'
  BY <1>3, <1>6, <1>8, <1>10, <1>11 DEF WalkInv
<1>13. GuestInv' /\ PoolInv'
  BY <1>1, <1>2, <1>10, SameGuest, SamePool
<1> QED BY <1>12, <1>13 DEF IInv

\* The handlers' ways back to the guest.
LEMMA ReturnStep ==
    ASSUME IInv, pc \in Walking, UNCHANGED <<guestVars, poolVars, rootVars>>,
           pc' \in {"guest", "exit"}, flt' = NoFault, lvl' = 3, cur' = NoPage
    PROVE  IInv'
<1>1. pc # "off" /\ pc' \notin Walking /\ paging' = paging
  BY DEF Walking, guestVars
<1>2. GuestInv' /\ PoolInv' /\ WalkInv'
  BY <1>1, SameGuest, SamePool, NoWalk
<1> QED BY <1>2 DEF IInv

\* The steps that end a walk without a change of the tables.
LEMMA ReturnSteps ==
    ASSUME IInv, FetchUnmapped \/ Emulates \/ InjectsIo \/ Injects \/ Retries \/ MapEmulates
    PROVE  IInv'
<1>1. pc \in Walking
  BY DEF FetchUnmapped, Missing, Emulates, InjectsIo, Injects, Retries, MapEmulates,
         Mapping, Walking
<1>2. UNCHANGED <<guestVars, poolVars, rootVars>>
  BY DEF FetchUnmapped, Emulates, InjectsIo, Injects, Retries, MapEmulates
<1>3. pc' \in {"guest", "exit"} /\ flt' = NoFault /\ lvl' = 3 /\ cur' = NoPage
  BY DEF FetchUnmapped, Emulates, InjectsIo, Injects, Retries, MapEmulates,
         inject_page_fault, ReturnSeen, Return
<1> QED BY <1>1, <1>2, <1>3, ReturnStep

\* kvm_mmu_alloc_page, and one level down.
LEMMA AllocStep ==
    ASSUME IInv, pc \in {"fetch", "map"}, Here = Zero, lvl > 1,
           AllocPage(cur, flt.a[lvl]), lvl' = lvl - 1, cur' = First(free),
           UNCHANGED <<guestVars, pc, flt>>
    PROVE  IInv'
<1> DEFINE new == First(free)
           i == flt.a[lvl]
<1>1. pc \in Walking /\ pc' \in Walking /\ pc # "off" /\ pc' \notin {"fix", "check"} /\ pc' = pc
  BY DEF Walking
<1>2. /\ new \in free /\ hdr' = With(hdr, new, NewHeader(<<cur, i>>))
      /\ free' = free \ {new} /\ held' = held /\ root' = root /\ hwroot' = hwroot
  BY FirstIn DEF AllocPage
<1>3. tbl' = Put(tbl, cur, i, Table(new))
  BY DEF AllocPage, Put
<1>4. /\ flt \in Fault /\ flt.a \in Addr /\ lvl \in Levels /\ cur \in active
      /\ OnPath(root, tbl, flt.a, lvl, cur) /\ Walk(paging, pc, flt, lvl, cur, hdr, tbl, root)
      /\ flt.a[2] \in Idx /\ flt.a[3] \in Idx
  BY <1>1, InWalk
<1>5. lvl = 2 \/ lvl = 3
  BY <1>4 DEF Levels
<1>6. i \in Idx
  BY <1>4, <1>5
<1>7. tbl[cur][i] = Zero /\ cur' = new
  BY DEF Here
<1>8. Upper(root, hdr, cur)
  BY <1>1, WalkPage
<1>9. /\ hwroot = root /\ Live(paging, held, free, hdr, tbl, root) /\ active \subseteq Pages
      /\ tbl \in TableFile /\ root \in active /\ free \subseteq Pages
      /\ Tree(root, hdr, tbl) /\ HeadersOf(hdr)
  BY <1>1, ContextLive
<1> HIDE DEF new, i
<1>10. Live(paging, held, free \ {new}, With(hdr, new, NewHeader(<<cur, i>>)),
            Put(tbl, cur, i, Table(new)), root)
  BY <1>2, <1>4, <1>6, <1>7, <1>8, <1>9, AddLive DEF active
<1>11. paging' = paging
  BY DEF guestVars
<1>12. hwroot' = root' /\ Live(paging', held', free', hdr', tbl', root')
  BY <1>2, <1>3, <1>9, <1>10, <1>11
<1>13. PoolInv'
  BY <1>1, <1>12, NextPool
<1>14. GuestInv'
  BY SameGuest
<1>15. new \in Pages /\ new # NoPage /\ IsTable(Table(new)) /\ Table(new).to = new
       /\ Table(new) \in Entry
  BY <1>2, <1>9, MmuAssumption, EntryKinds
<1>16. \A q \in Pages, j \in Idx :
          tbl'[q][j] = IF q = cur /\ j = i THEN Table(new) ELSE tbl[q][j]
  <2> DEFINE e == Table(new)
  <2>1. e \in Entry /\ tbl' = Put(tbl, cur, i, e) /\ cur \in Pages
    BY <1>3, <1>4, <1>9, <1>15
  <2> HIDE DEF e
  <2>2. \A q \in Pages, j \in Idx :
           Put(tbl, cur, i, e)[q][j] = IF q = cur /\ j = i THEN e ELSE tbl[q][j]
    BY <1>6, <1>9, <2>1, PutFields
  <2>3. \A q \in Pages, j \in Idx : tbl'[q][j] = IF q = cur /\ j = i THEN e ELSE tbl[q][j]
    BY <2>1, <2>2
  <2> QED BY <2>3 DEF e
<1>17. root # NoPage /\ root \in Pages /\ cur # NoPage
  BY <1>4, <1>9, MmuAssumption
<1>18. OnPath(root, tbl', flt.a, lvl - 1, new)
  <2>1. CASE lvl = 3
    <3>1. cur = root /\ i = flt.a[3]
      BY <1>4, <2>1 DEF OnPath, i
    <3>2. tbl'[root][flt.a[3]] = Table(new)
      BY <1>4, <1>16, <1>17, <3>1
    <3>3. DirIn(root, tbl', flt.a) = new
      BY <1>15, <1>17, <3>2 DEF DirIn, ChildIn
    <3> QED BY <2>1, <3>3 DEF OnPath
  <2>2. CASE lvl = 2
    <3>1. cur = DirIn(root, tbl, flt.a) /\ i = flt.a[2]
      BY <1>4, <2>2 DEF OnPath, i
    <3>2. cur # root
      BY <1>4, <1>9, <1>17, <3>1, Paths
    <3>3. tbl'[root][flt.a[3]] = tbl[root][flt.a[3]] /\ tbl'[cur][flt.a[2]] = Table(new)
      BY <1>4, <1>9, <1>16, <1>17, <3>1, <3>2
    <3>4. DirIn(root, tbl', flt.a) = cur
      BY <3>1, <3>3 DEF DirIn, ChildIn
    <3>5. LeafIn(root, tbl', flt.a) = new
      BY <1>15, <1>17, <3>3, <3>4 DEF LeafIn, ChildIn
    <3> QED BY <2>2, <3>5 DEF OnPath
  <2> QED BY <1>5, <2>1, <2>2
<1>19. new \in DOMAIN hdr' /\ lvl' \in Levels
  BY <1>2, <1>5 DEF With, Levels
<1>20. Walk(paging', pc', flt', lvl', cur', hdr', tbl', root')
  <2>1. OnPath(root', tbl', flt'.a, lvl', cur')
    BY <1>2, <1>7, <1>18
  <2>2. pc' = "map" <=> ~paging'
    BY <1>1, <1>4, <1>11 DEF Walk
  <2>3. flt' \in Fault /\ cur' \in DOMAIN hdr'
    BY <1>4, <1>7, <1>19
  <2> QED BY <1>1, <1>19, <2>1, <2>2, <2>3 DEF Walk
<1>21. WalkInv'
  BY <1>1, <1>4, <1>7, <1>15, <1>19, <1>20 DEF WalkInv
<1> QED BY <1>13, <1>14, <1>21 DEF IInv

\* A mapping the guest has is to a guest frame.
LEMMA EffTyped ==
    ASSUME GuestInv, NEW a \in Addr
    PROVE  paging /\ GuestPresent(a, 1) => Eff(a) \in Translation
<1> DEFINE pde == gpde[Dir(a)]
           pte == gpte[a]
<1>1. Dir(a) \in Dirs
  BY DEF Dir, Dirs
<1>2. pde \in GuestPde /\ pte \in GuestPte /\ (pde.ps => LargeFrame(pde, a) \in Frames)
  BY <1>1 DEF GuestInv
<1> DEFINE large == [f |-> LargeFrame(pde, a), w |-> pde.w, u |-> pde.u, g |-> FALSE,
                     d |-> pde.d, big |-> TRUE]
           small == [f |-> pte.f, w |-> pde.w /\ pte.w, u |-> pde.u /\ pte.u, g |-> pte.g,
                     d |-> pte.d, big |-> FALSE]
<1>3. paging /\ GuestPresent(a, 1) => Eff(a) = IF pde.ps THEN large ELSE small
  BY DEF Eff
<1> HIDE DEF pde, pte
<1>4. pde.ps => large \in Translation
  BY <1>2 DEF Translation, GuestPde
<1>5. small \in Translation
  BY <1>2 DEF Translation, GuestPde, GuestPte
<1> HIDE DEF large, small
<1> QED BY <1>3, <1>4, <1>5

\* The new leaf, and the marks in its header, are right for each other.
LEMMA LeafMade ==
    ASSUME NEW pg, NEW h \in Header, NEW e \in Translation
    PROVE  /\ ShadowLeaf(e) \in Leaf /\ MarksPage(h, e) \in Header
           /\ MarksPage(h, e).parent = h.parent
           /\ EntryOK(pg, MarksPage(h, e), ShadowLeaf(e))
           /\ \A x \in Leaf : EntryOK(pg, h, x) => EntryOK(pg, MarksPage(h, e), x)
<1> DEFINE l == ShadowLeaf(e)
           d == MarksPage(h, e)
<1>1. /\ e.f \in Frames /\ e.w \in BOOLEAN /\ e.u \in BOOLEAN /\ e.g \in BOOLEAN
      /\ e.d \in BOOLEAN /\ e.big \in BOOLEAN
  BY DEF Translation
<1>2. Slot[e.f] # NoSlot => Slot[e.f] \in Slots
  BY <1>1 DEF Slots
<1>3. /\ l \in Leaf /\ l.p = (Slot[e.f] # NoSlot) /\ l.f = e.f /\ l.w = (e.w /\ e.d)
      /\ l.u = e.u /\ l.sw = e.w /\ l.su = e.u /\ l.g = e.g
  BY <1>1 DEF ShadowLeaf, Leaf
<1>4. d.parent = h.parent /\ d.global = (h.global /\ e.g)
  BY DEF MarksPage, Header
<1>5. d.slots = IF Slot[e.f] # NoSlot THEN h.slots \cup {Slot[e.f]} ELSE h.slots
  BY DEF MarksPage, Header
<1>6. d \in Header
  BY <1>1, <1>2 DEF MarksPage, Header
<1> HIDE DEF l, d
<1>7. EntryOK(pg, d, l)
  BY <1>1, <1>3, <1>4, <1>5 DEF EntryOK
<1>8. \A x \in Leaf : EntryOK(pg, h, x) => EntryOK(pg, d, x)
  BY <1>4, <1>5 DEF EntryOK
<1> QED BY <1>3, <1>4, <1>6, <1>7, <1>8 DEF l, d

\* A walk that stays in its leaf page, in tables that are the same above.
LEMMA WalkStays ==
    ASSUME IInv, pc \in Walking, lvl = 1, SameTables(hdr, tbl, tbl'),
           DOMAIN hdr' = DOMAIN hdr, UNCHANGED <<paging, lvl, cur, root>>,
           flt' \in Fault, flt'.a = flt.a, pc' \in {"fix", "check"}, pc # "map",
           pc' = "fix" => IsLeaf(tbl'[cur][flt.a[1]]),
           pc' = "check" => Checked(wp', flt', tbl'[cur][flt.a[1]])
    PROVE  WalkInv'
<1>1. /\ Walk(paging, pc, flt, lvl, cur, hdr, tbl, root) /\ pc # "off" /\ flt.a \in Addr
      /\ cur \in active /\ OnPath(root, tbl, flt.a, lvl, cur)
  BY InWalk
<1>2. Tree(root, hdr, tbl) /\ HeadersOf(hdr) /\ active \subseteq Pages
  BY <1>1, ContextLive
<1>3. LeafIn(root, tbl', flt.a) = LeafIn(root, tbl, flt.a)
  BY <1>1, <1>2, SamePaths
<1>4. OnPath(root', tbl', flt'.a, lvl', cur')
  BY <1>1, <1>3 DEF OnPath
<1>5. cur' \in DOMAIN hdr' /\ cur' \in Pages /\ lvl' \in Levels
  BY <1>1, <1>2 DEF active, Levels
<1>6. pc' = "map" <=> ~paging'
  BY <1>1 DEF Walk
<1>7. pc' = "fix" => IsLeaf(tbl'[cur'][flt'.a[lvl']])
  OBVIOUS
<1>8. Walk(paging', pc', flt', lvl', cur', hdr', tbl', root')
  BY <1>4, <1>5, <1>6, <1>7 DEF Walk
<1>9. pc' = "check" => Checked(wp', flt', tbl'[cur'][flt'.a[1]])
  BY SMTT(30)
<1> QED BY <1>5, <1>8, <1>9 DEF WalkInv

\* set_pte and set_pde write a leaf and mark its page.
LEMMA FetchSetStep == ASSUME IInv, FetchSet PROVE IInv'
<1> DEFINE a == flt.a
           i == a[1]
           e == Eff(a)
           leaf == ShadowLeaf(e)
           d == MarksPage(hdr[cur], e)
           t1 == Put(tbl, cur, i, leaf)
           up == DirIn(root, tbl, a)
<1>1. /\ pc = "fetch" /\ pc \in Walking /\ lvl = 1 /\ pc' = "fix" /\ GuestPresent(a, 1)
      /\ UNCHANGED <<guestVars, flt, lvl, cur, held, free, root, hwroot>>
      /\ hdr' = [hdr EXCEPT ![cur] = d]
  BY DEF FetchSet, Missing, rootVars, Walking
<1>2. /\ flt \in Fault /\ a \in Addr /\ cur \in active /\ pc # "off"
      /\ i \in Idx /\ a[2] \in Idx
      /\ Walk(paging, pc, flt, lvl, cur, hdr, tbl, root)
  BY <1>1, InWalk
<1>3. paging /\ paging' = paging
  BY <1>1, <1>2 DEF Walk, guestVars, IInv, GuestInv
<1>4. /\ ~Upper(root, hdr, cur) /\ hdr[cur].parent = <<up, a[2]>> /\ up \in active
      /\ Upper(root, hdr, up) /\ IsTable(tbl[up][a[2]])
  BY <1>1, WalkPage
<1>5. /\ hwroot = root /\ Live(paging, held, free, hdr, tbl, root)
      /\ Tree(root, hdr, tbl) /\ HeadersOf(hdr) /\ tbl \in TableFile /\ active \subseteq Pages
  BY <1>2, ContextLive
<1>6. hdr[cur] \in Header /\ cur \in DOMAIN hdr
  BY <1>2, <1>5 DEF HeadersOf, active
<1>7. e \in Translation
  BY <1>1, <1>2, <1>3, EffTyped DEF IInv
<1>8. tbl' = IF e.big THEN [t1 EXCEPT ![up][a[2]].ps = TRUE] ELSE t1
  BY <1>4 DEF FetchSet, Put
<1> HIDE DEF a, i, e, up
<1>9. /\ leaf \in Leaf /\ d \in Header /\ d.parent = hdr[cur].parent
      /\ EntryOK(paging, d, leaf)
      /\ \A x \in Leaf : EntryOK(paging, hdr[cur], x) => EntryOK(paging, d, x)
  BY <1>6, <1>7, LeafMade
<1> HIDE DEF leaf, d
<1>10. \A j \in Idx : j # i => EntryOK(paging, d, tbl[cur][j])
  <2> SUFFICES ASSUME NEW j \in Idx PROVE EntryOK(paging, d, tbl[cur][j])
    OBVIOUS
  <2>1. EntryOK(paging, hdr[cur], tbl[cur][j])
    BY <1>5, <1>6 DEF Live, Entries
  <2>2. tbl[cur][j] \in Entry
    BY <1>2, <1>5 DEF TableFile
  <2>3. IsLeaf(tbl[cur][j]) => tbl[cur][j] \in Leaf
    BY <2>2, EntryKinds
  <2> QED BY <1>9, <2>1, <2>3, NoLeaf
<1>11. leaf \in Entry /\ ~IsTable(leaf) /\ IsLeaf(leaf)
  BY <1>9, EntryKinds
<1>12. /\ Live(paging, held, free, [hdr EXCEPT ![cur] = d], t1, root)
       /\ SameTables(hdr, tbl, t1)
  BY <1>2, <1>4, <1>5, <1>6, <1>9, <1>10, <1>11, WriteLive
<1>13. /\ t1 \in TableFile
       /\ \A q \in Pages, j \in Idx : t1[q][j] = IF q = cur /\ j = i THEN leaf ELSE tbl[q][j]
  BY <1>2, <1>5, <1>11, PutFields
<1> HIDE DEF t1
<1>14. Live(paging, held, free, hdr', t1, root) /\ DOMAIN hdr' = DOMAIN hdr
  BY <1>1, <1>12
<1>15. t1[cur][i] = leaf /\ up # cur
  BY <1>2, <1>4, <1>5, <1>13
<1>16. /\ Live(paging, held, free, hdr', tbl', root)
       /\ SameTables(hdr, tbl, tbl') /\ tbl'[cur][i] = leaf
  <2>1. CASE ~e.big
    BY <1>8, <1>12, <1>14, <1>15, <2>1
  <2>2. CASE e.big
    <3> DEFINE j == a[2]
               t2 == Put(t1, up, j, Marked(t1[up][j]))
    <3>1. up \in Pages /\ up \in DOMAIN hdr' /\ j \in Idx /\ IsTable(t1[up][j])
      BY <1>2, <1>4, <1>5, <1>12, <1>14 DEF SameTables, active
    <3>2. tbl' = t2
      BY <1>8, <1>13, <2>2, <3>1 DEF Put, Marked, TableFile
    <3> HIDE DEF j
    <3>3. Live(paging, held, free, hdr', t2, root) /\ SameTables(hdr', t1, t2)
      BY <1>14, <3>1, MarkPs
    <3>4. t2[cur][i] = leaf
      BY <1>2, <1>5, <1>13, <1>15, <3>1 DEF Put, TableFile
    <3> HIDE DEF t2
    <3>5. SameTables(hdr, tbl, t2)
      BY <1>12, <1>14, <3>3 DEF SameTables
    <3> QED BY <3>2, <3>3, <3>4, <3>5
  <2> QED BY <2>1, <2>2
<1>17. hwroot' = root' /\ Live(paging', held', free', hdr', tbl', root')
  BY <1>1, <1>3, <1>5, <1>16
<1>18. pc' \in {"guest", "exit"} \cup Walking /\ pc' # "check" /\ pc # "map"
  BY <1>1 DEF Walking
<1>19. PoolInv'
  BY <1>17, <1>18, NextPool
<1>20. GuestInv'
  BY <1>1, SameGuest
<1>21. IsLeaf(tbl'[cur][flt.a[1]])
  BY <1>11, <1>16 DEF a, i
<1>22. WalkInv'
  BY <1>1, <1>2, <1>3, <1>14, <1>16, <1>18, <1>21, WalkStays
<1> QED BY <1>19, <1>20, <1>22 DEF IInv

\* nonpaging_map writes a leaf and marks its page.
LEMMA MapSetStep == ASSUME IInv, MapSet PROVE IInv'
<1> DEFINE f == Identity[flt.a]
           i == flt.a[1]
           leaf == [k |-> "leaf", p |-> TRUE, f |-> f, w |-> TRUE, u |-> TRUE,
                    sw |-> FALSE, su |-> FALSE, g |-> FALSE, big |-> FALSE]
           d == [hdr[cur] EXCEPT !.slots = @ \cup {Slot[f]}]
<1>1. /\ pc = "map" /\ pc \in Walking /\ pc' = "guest" /\ pc' \notin Walking
      /\ lvl = 1 /\ flt' = NoFault /\ lvl' = 3 /\ cur' = NoPage
      /\ UNCHANGED <<guestVars, held, free, root, hwroot>>
      /\ Slot[f] # NoSlot
      /\ tbl' = Put(tbl, cur, i, leaf)
  BY DEF MapSet, Mapping, MapIo, Return, rootVars, Walking, Put
<1>2. /\ flt.a \in Addr /\ cur \in active /\ pc # "off" /\ i \in Idx
      /\ Walk(paging, pc, flt, lvl, cur, hdr, tbl, root)
  BY <1>1, InWalk
<1>3. ~paging /\ paging' = paging
  BY <1>1, <1>2 DEF Walk, guestVars
<1>4. ~Upper(root, hdr, cur)
  BY <1>1, WalkPage
<1>5. /\ hwroot = root /\ Live(paging, held, free, hdr, tbl, root)
      /\ HeadersOf(hdr) /\ tbl \in TableFile /\ active \subseteq Pages
  BY <1>2, ContextLive
<1>6. hdr[cur] \in Header /\ cur \in DOMAIN hdr
  BY <1>2, <1>5 DEF HeadersOf, active
<1>7. f \in Frames /\ Slot[f] \in Slots
  BY <1>1, <1>2, MmuAssumption DEF Slots
<1> HIDE DEF f, i
<1>8. hdr' = [hdr EXCEPT ![cur] = d]
  BY <1>6 DEF MapSet, f
<1>9. /\ d \in Header /\ d.parent = hdr[cur].parent /\ d.slots = hdr[cur].slots \cup {Slot[f]}
  BY <1>6, <1>7 DEF Header
<1>10. leaf \in Leaf /\ leaf.f = f
  BY <1>7 DEF Leaf
<1> HIDE DEF leaf, d
<1>11. EntryOK(paging, d, leaf)
  BY <1>3, <1>9, <1>10 DEF EntryOK
<1>12. \A j \in Idx : j # i => EntryOK(paging, d, tbl[cur][j])
  <2> SUFFICES ASSUME NEW j \in Idx PROVE EntryOK(paging, d, tbl[cur][j])
    OBVIOUS
  <2>1. EntryOK(paging, hdr[cur], tbl[cur][j])
    BY <1>5, <1>6 DEF Live, Entries
  <2> QED BY <1>3, <1>9, <2>1 DEF EntryOK
<1>13. leaf \in Entry /\ ~IsTable(leaf)
  BY <1>10, EntryKinds
<1>14. Live(paging, held, free, [hdr EXCEPT ![cur] = d], Put(tbl, cur, i, leaf), root)
  BY <1>2, <1>4, <1>5, <1>6, <1>9, <1>11, <1>12, <1>13, WriteLive
<1>15. hwroot' = root' /\ Live(paging', held', free', hdr', tbl', root')
  BY <1>1, <1>3, <1>5, <1>8, <1>14
<1>16. PoolInv'
  BY <1>1, <1>15, NextPool
<1>17. GuestInv' /\ WalkInv'
  BY <1>1, SameGuest, NoWalk
<1> QED BY <1>16, <1>17 DEF IInv

\* fix_write_pf and fix_read_pf: a new content for the entry the walk is at.
LEMMA FixEntry ==
    ASSUME IInv, pc = "fix", pc' = "check", NEW e \in Entry, ~IsTable(e),
           EntryOK(paging, hdr[cur], e), tbl' = Put(tbl, cur, flt.a[1], e),
           UNCHANGED <<paging, lvl, cur, held, free, hdr, root, hwroot>>,
           flt' \in Fault, flt'.a = flt.a, Checked(wp', flt', e), GuestInv'
    PROVE  IInv'
<1> DEFINE i == flt.a[1]
<1>1. pc \in Walking /\ pc' \in Walking /\ pc # "map" /\ pc' # "fix"
  BY DEF Walking
<1>2. /\ cur \in active /\ pc # "off" /\ i \in Idx
      /\ Walk(paging, pc, flt, lvl, cur, hdr, tbl, root)
  BY <1>1, InWalk
<1>3. lvl = 1
  BY <1>2 DEF Walk
<1>4. ~Upper(root, hdr, cur)
  BY <1>1, <1>3, WalkPage
<1>5. /\ hwroot = root /\ Live(paging, held, free, hdr, tbl, root)
      /\ tbl \in TableFile /\ active \subseteq Pages
  BY <1>2, ContextLive
<1>6. tbl' = Put(tbl, cur, i, e) /\ cur \in DOMAIN hdr /\ cur \in Pages
  BY <1>2, <1>5 DEF active
<1> HIDE DEF i
<1>7. /\ Live(paging, held, free, hdr, Put(tbl, cur, i, e), root)
      /\ SameTables(hdr, tbl, Put(tbl, cur, i, e))
  BY <1>2, <1>4, <1>5, <1>6, WriteEntry
<1>8. Put(tbl, cur, i, e)[cur][i] = e
  BY <1>2, <1>5, <1>6, PutFields
<1>9. SameTables(hdr, tbl, tbl') /\ tbl'[cur][i] = e
  BY <1>6, <1>7, <1>8
<1>10. hwroot' = root' /\ Live(paging', held', free', hdr', tbl', root')
  BY <1>5, <1>6, <1>7
<1>11. PoolInv'
  BY <1>1, <1>10, NextPool
<1>12. Checked(wp', flt', tbl'[cur][flt.a[1]])
  BY <1>9 DEF i
<1>13. WalkInv'
  BY <1>1, <1>3, <1>9, <1>12, WalkStays
<1> QED BY <1>11, <1>13 DEF IInv

\* The entry that is fixed is a leaf.
LEMMA FixHere ==
    ASSUME IInv, pc = "fix"
    PROVE  /\ Here \in Leaf /\ Here = tbl[cur][flt.a[1]] /\ EntryOK(paging, hdr[cur], Here)
           /\ flt \in Fault /\ flt.a \in Addr /\ Put(tbl, cur, flt.a[1], Here) = tbl
<1>1. pc \in Walking
  BY DEF Walking
<1>2. /\ cur \in active /\ pc # "off" /\ flt.a[1] \in Idx /\ flt \in Fault /\ flt.a \in Addr
      /\ Walk(paging, pc, flt, lvl, cur, hdr, tbl, root)
  BY <1>1, InWalk
<1>3. lvl = 1 /\ IsLeaf(Here)
  BY <1>2 DEF Walk, Here
<1>4. Here = tbl[cur][flt.a[1]]
  BY <1>3 DEF Here
<1>5. Live(paging, held, free, hdr, tbl, root) /\ tbl \in TableFile /\ active \subseteq Pages
  BY <1>2, ContextLive
<1>6. Here \in Entry
  BY <1>2, <1>4, <1>5 DEF TableFile
<1>7. Here \in Leaf
  BY <1>3, <1>6, EntryKinds
<1>8. EntryOK(paging, hdr[cur], Here)
  BY <1>2, <1>4, <1>5 DEF Live, Entries, active
<1>9. Put(tbl, cur, flt.a[1], Here) = tbl
  BY <1>2, <1>4, <1>5 DEF Put, TableFile
<1> QED BY <1>2, <1>4, <1>7, <1>8, <1>9

\* The dirty bit of the guest's entry changes nothing else of it.
LEMMA DirtyGuest ==
    ASSUME IInv, NEW a \in Addr, SetsDirty(a), UNCHANGED <<paging, wp, changes>>
    PROVE  GuestInv'
<1>1. /\ gpde \in [Dirs -> GuestPde] /\ gpte \in [Addr -> GuestPte] /\ Dir(a) \in Dirs
  BY DEF IInv, GuestInv, Dir, Dirs
<1>2. \A x \in GuestPde : /\ [x EXCEPT !.d = TRUE] \in GuestPde
                          /\ [x EXCEPT !.d = TRUE].ps = x.ps /\ [x EXCEPT !.d = TRUE].f = x.f
  BY DEF GuestPde
<1>3. \A x \in GuestPte : [x EXCEPT !.d = TRUE] \in GuestPte
  BY DEF GuestPte
<1>4. gpte' \in [Addr -> GuestPte]
  BY <1>1, <1>3 DEF SetsDirty
<1>5. /\ gpde' \in [Dirs -> GuestPde]
      /\ \A x \in Dirs : gpde'[x].ps = gpde[x].ps /\ gpde'[x].f = gpde[x].f
  <2>1. CASE gpde[Dir(a)].ps
    <3> DEFINE dirtied == [gpde[Dir(a)] EXCEPT !.d = TRUE]
    <3>1. gpde' = [gpde EXCEPT ![Dir(a)] = dirtied]
      BY <2>1, <1>1 DEF SetsDirty
    <3>2. /\ dirtied \in GuestPde
          /\ dirtied.ps = gpde[Dir(a)].ps /\ dirtied.f = gpde[Dir(a)].f
      BY <1>1, <1>2
    <3> HIDE DEF dirtied
    <3> QED BY <1>1, <3>1, <3>2
  <2>2. CASE ~gpde[Dir(a)].ps
    BY <2>2, <1>1 DEF SetsDirty
  <2> QED BY <2>1, <2>2
<1>6. ASSUME NEW b \in Addr, gpde'[Dir(b)].ps
      PROVE  LargeFrame(gpde'[Dir(b)], b) \in Frames
  <2>1. Dir(b) \in Dirs
    BY DEF Dir, Dirs
  <2>2. gpde[Dir(b)].ps /\ gpde'[Dir(b)].f = gpde[Dir(b)].f
    BY <1>5, <1>6, <2>1
  <2>3. LargeFrame(gpde[Dir(b)], b) \in Frames
    BY <2>2 DEF IInv, GuestInv
  <2> QED BY <2>2, <2>3 DEF LargeFrame
<1> QED BY <1>4, <1>5, <1>6 DEF IInv, GuestInv

\* fix_write_pf grants the write if the guest does.
LEMMA FixWriteStep == ASSUME IInv, fix_write_pf PROVE IInv'
<1> DEFINE e == Here
           user == flt.user
           c == WriteFixed(e, user)
<1>1. /\ pc = "fix" /\ flt.write /\ pc' = "check"
      /\ UNCHANGED <<paging, wp, changes, lvl, cur, held, free, hdr, root, hwroot>>
  BY DEF fix_write_pf, rootVars
<1>2. /\ e \in Leaf /\ e = tbl[cur][flt.a[1]] /\ EntryOK(paging, hdr[cur], e)
      /\ flt \in Fault /\ flt.a \in Addr /\ Put(tbl, cur, flt.a[1], e) = tbl
  BY <1>1, FixHere
<1>3. e \in Entry /\ IsLeaf(e) /\ ~IsTable(e) /\ Zero \in Entry /\ ~IsTable(Zero) /\ ~IsLeaf(Zero)
  BY <1>2, EntryKinds
<1>4. \/ ~FixableWrite(e, user) /\ UNCHANGED <<tbl, flt, gpde, gpte>>
      \/ tbl' = Put(tbl, cur, flt.a[1], Zero) /\ UNCHANGED <<flt, gpde, gpte>>
      \/ /\ FixableWrite(e, user) /\ tbl' = Put(tbl, cur, flt.a[1], c)
         /\ flt' = [flt EXCEPT !.fixed = TRUE] /\ SetsDirty(flt.a)
  BY DEF fix_write_pf, Put
<1>5. /\ c \in Leaf /\ c.w /\ c.p = e.p /\ c.f = e.f /\ c.g = e.g /\ c.su = e.su
      /\ c.sw = e.sw /\ c.u = IF ~user /\ ~e.sw THEN FALSE ELSE e.u
  BY <1>2 DEF WriteFixed, Leaf
<1>6. c \in Entry /\ IsLeaf(c) /\ ~IsTable(c)
  BY <1>5, EntryKinds
<1> HIDE DEF e, c, user
<1>7. CASE ~FixableWrite(e, user) /\ UNCHANGED <<tbl, flt, gpde, gpte>>
  <2>1. GuestInv'
    BY <1>1, <1>7, SameGuest DEF guestVars
  <2>2. Checked(wp', flt', e)
    BY <1>1, <1>7 DEF Checked, FixableWrite, user
  <2>3. tbl' = Put(tbl, cur, flt.a[1], e) /\ flt' \in Fault /\ flt'.a = flt.a
    BY <1>2, <1>7
  <2> QED BY <1>1, <1>2, <1>3, <2>1, <2>2, <2>3, FixEntry
<1>8. CASE tbl' = Put(tbl, cur, flt.a[1], Zero) /\ UNCHANGED <<flt, gpde, gpte>>
  <2> DEFINE z == Zero
  <2>1. GuestInv'
    BY <1>1, <1>8, SameGuest DEF guestVars
  <2>2. /\ z \in Entry /\ ~IsTable(z) /\ Checked(wp', flt', z) /\ EntryOK(paging, hdr[cur], z)
        /\ tbl' = Put(tbl, cur, flt.a[1], z) /\ flt' \in Fault /\ flt'.a = flt.a
    BY <1>2, <1>3, <1>8, NoLeaf DEF Checked
  <2> HIDE DEF z
  <2> QED BY <1>1, <2>1, <2>2, FixEntry
<1>9. CASE /\ FixableWrite(e, user) /\ tbl' = Put(tbl, cur, flt.a[1], c)
           /\ flt' = [flt EXCEPT !.fixed = TRUE] /\ SetsDirty(flt.a)
  <2>1. GuestInv'
    BY <1>1, <1>2, <1>9, DirtyGuest
  <2>2. flt' \in Fault /\ flt'.a = flt.a /\ flt'.write = flt.write
    BY <1>2, <1>9 DEF Fault
  <2>3. Checked(wp', flt', c)
    BY <1>1, <1>5, <2>2 DEF Checked
  <2>4. EntryOK(paging, hdr[cur], c)
    BY <1>2, <1>3, <1>5, <1>9 DEF EntryOK, FixableWrite
  <2> QED BY <1>1, <1>6, <1>9, <2>1, <2>2, <2>3, <2>4, FixEntry
<1> QED BY <1>4, <1>7, <1>8, <1>9

\* fix_read_pf grants the read if the guest does.
LEMMA FixReadStep == ASSUME IInv, fix_read_pf PROVE IInv'
<1> DEFINE e == Here
           c == [e EXCEPT !.u = TRUE, !.w = FALSE]
<1>1. /\ pc = "fix" /\ ~flt.write /\ pc' = "check"
      /\ UNCHANGED <<guestVars, lvl, cur, held, free, hdr, root, hwroot>>
  BY DEF fix_read_pf, rootVars
<1>2. /\ e \in Leaf /\ e = tbl[cur][flt.a[1]] /\ EntryOK(paging, hdr[cur], e)
      /\ flt \in Fault /\ flt.a \in Addr /\ Put(tbl, cur, flt.a[1], e) = tbl
  BY <1>1, FixHere
<1>3. e \in Entry /\ IsLeaf(e) /\ ~IsTable(e)
  BY <1>2, EntryKinds
<1>4. GuestInv' /\ paging' = paging /\ wp' = wp
  BY <1>1, SameGuest DEF guestVars
<1>5. /\ c \in Leaf /\ c.u /\ ~c.w /\ c.p = e.p /\ c.f = e.f /\ c.g = e.g /\ c.su = e.su
      /\ c.sw = e.sw
  BY <1>2 DEF Leaf
<1>6. c \in Entry /\ IsLeaf(c) /\ ~IsTable(c)
  BY <1>5, EntryKinds
<1>7. CASE FixableRead(e)
  <2>1. tbl' = [tbl EXCEPT ![cur][flt.a[1]].u = TRUE, ![cur][flt.a[1]].w = FALSE]
        /\ flt' = [flt EXCEPT !.fixed = TRUE]
    BY <1>7 DEF fix_read_pf
  <2>2. tbl' = Put(tbl, cur, flt.a[1], c)
    <3>1. pc # "off" /\ pc \in Walking
      BY <1>1 DEF Walking
    <3>2. tbl \in TableFile /\ cur \in Pages /\ flt.a[1] \in Idx
      BY <3>1, ContextLive, InWalk
    <3> DEFINE i == flt.a[1]
               x == tbl[cur][i]
    <3>3. tbl' = [tbl EXCEPT ![cur] = [tbl[cur] EXCEPT ![i] = [x EXCEPT !.u = TRUE, !.w = FALSE]]]
      BY <2>1, <3>2 DEF TableFile
    <3> QED BY <1>2, <3>2, <3>3 DEF Put, TableFile
  <2> HIDE DEF e, c
  <2>3. flt' \in Fault /\ flt'.a = flt.a /\ flt'.write = flt.write
    BY <1>2, <2>1 DEF Fault
  <2>4. Checked(wp', flt', c)
    BY <1>1, <1>5, <2>3 DEF Checked
  <2>5. EntryOK(paging, hdr[cur], c)
    BY <1>2, <1>3, <1>5, <1>7 DEF EntryOK, FixableRead
  <2> QED BY <1>1, <1>4, <1>6, <2>2, <2>3, <2>4, <2>5, FixEntry
<1>8. CASE ~FixableRead(e)
  <2>1. UNCHANGED <<tbl, flt>>
    BY <1>8 DEF fix_read_pf
  <2> HIDE DEF e, c
  <2>2. Checked(wp', flt', e)
    BY <1>1, <1>8, <2>1 DEF Checked, FixableRead
  <2>3. tbl' = Put(tbl, cur, flt.a[1], e) /\ flt' \in Fault /\ flt'.a = flt.a
    BY <1>2, <2>1
  <2> QED BY <1>1, <1>2, <1>3, <1>4, <2>2, <2>3, FixEntry
<1> QED BY <1>7, <1>8

-----------------------------------------------------------------------------
(* The theorems.                                                           *)

\* Every step of a fault handler keeps the invariant.
LEMMA HandlerStep == ASSUME IInv, Handler PROVE IInv'
<1>1. CASE FetchUnmapped \/ Emulates \/ InjectsIo \/ Injects \/ Retries \/ MapEmulates
  BY <1>1, ReturnSteps
<1>2. CASE FetchAlloc \/ MapAlloc
  <2>1. /\ pc \in {"fetch", "map"} /\ Here = Zero /\ lvl > 1 /\ AllocPage(cur, flt.a[lvl])
        /\ lvl' = lvl - 1 /\ cur' = First(free) /\ UNCHANGED <<guestVars, pc, flt>>
    BY <1>2 DEF FetchAlloc, MapAlloc, Missing, Mapping
  <2> QED BY <2>1, AllocStep
<1>3. CASE FetchNoMemory \/ MapNoMemory
  <2>1. pc \in {"fetch", "map"} /\ nonpaging_flush
    BY <1>3 DEF FetchNoMemory, MapNoMemory, Missing, Mapping
  <2> QED BY <2>1, FlushStep
<1>4. CASE FetchSet
  BY <1>4, FetchSetStep
<1>5. CASE MapSet
  BY <1>5, MapSetStep
<1>6. CASE fix_write_pf
  BY <1>6, FixWriteStep
<1>7. CASE fix_read_pf
  BY <1>7, FixReadStep
<1> QED BY <1>1, <1>2, <1>3, <1>4, <1>5, <1>6, <1>7 DEF Handler

\* A step that changes nothing keeps it too.
LEMMA StutterStep == ASSUME IInv, UNCHANGED vars PROVE IInv'
<1>1. /\ gpde' = gpde /\ gpte' = gpte /\ paging' = paging /\ wp' = wp /\ changes' = changes
      /\ pc' = pc /\ flt' = flt /\ lvl' = lvl /\ cur' = cur
      /\ held' = held /\ free' = free /\ hdr' = hdr /\ tbl' = tbl
      /\ root' = root /\ hwroot' = hwroot
  BY DEF vars, guestVars, faultVars, poolVars, rootVars
<1>2. GuestInv'
  BY <1>1 DEF IInv, GuestInv
<1>3. PoolInv'
  BY <1>1 DEF IInv, PoolInv, active
<1>4. WalkInv'
  BY <1>1 DEF IInv, WalkInv
<1> QED BY <1>2, <1>3, <1>4 DEF IInv

\* IInv is an invariant of the shadow page tables.
THEOREM Invariance == Spec => []IInv
<1>1. Init => IInv
  BY InitHolds
<1>2. IInv /\ [Next]_vars => IInv'
  <2> SUFFICES ASSUME IInv, [Next]_vars PROVE IInv'
    OBVIOUS
  <2>1. CASE AllocMmuPage \/ AllocMmuFails
    BY <2>1, AllocMmuStep
  <2>2. CASE kvm_mmu_init
    BY <2>2, InitStep
  <2>3. CASE kvm_mmu_destroy
    BY <2>3, DestroyStep
  <2>4. ASSUME NEW a \in Addr, NEW write \in BOOLEAN, NEW user \in BOOLEAN,
               PageFault(a, write, user)
        PROVE  IInv'
    BY <2>4, PageFaultStep
  <2>5. ASSUME NEW s \in PteStores, StorePte(s[1], s[2]) PROVE IInv'
    BY <2>5, StorePteStep
  <2>6. ASSUME NEW s \in PdeStores, StorePde(s[1], s[2]) PROVE IInv'
    BY <2>6, StorePdeStep
  <2>7. ASSUME NEW pg \in BOOLEAN, NEW writeProtect \in BOOLEAN, set_cr0(pg, writeProtect)
        PROVE  IInv'
    BY <2>7, SetCr0Step
  <2>8. CASE set_cr3
    BY <2>8, SetCr3Step
  <2>9. ASSUME NEW a \in Addr, paging_inval_page(a) PROVE IInv'
    BY <2>9, InvalPageStep
  <2>10. CASE Resume
    BY <2>10, ResumeStep
  <2>11. CASE Handler
    BY <2>11, HandlerStep
  <2>12. ASSUME NEW s \in Slots, kvm_mmu_slot_remove_write_access(s) PROVE IInv'
    BY <2>12, RemoveWriteStep
  <2>13. CASE UNCHANGED vars
    BY <2>13, StutterStep
  <2> QED BY <2>1, <2>2, <2>3, <2>4, <2>5, <2>6, <2>7, <2>8, <2>9, <2>10, <2>11,
             <2>12, <2>13 DEF Next
<1> QED BY <1>1, <1>2, PTL DEF Spec

\* The variables have their types: every entry names a page of the pool or a
\* guest frame, every parent_pte an entry of a page.
THEOREM TypeCorrect == Spec => []TypeOK
<1>1. IInv => TypeOK
  BY Consequences
<1> QED BY <1>1, Invariance, PTL

\* Pages are neither lost nor on two lists, whatever mix of faults, flushes
\* and new contexts; a page that kvm_mmu_alloc_page takes is empty.
THEOREM PoolIsSound == Spec => []PoolSound
<1>1. IInv => PoolSound
  BY Consequences
<1> QED BY <1>1, Invariance, PTL

\* The active pages are the tree under root_hpa, with exact parent_pte.
THEOREM TreeIsSound == Spec => []TreeSound
<1>1. IInv => TreeSound
  BY Consequences
<1> QED BY <1>1, Invariance, PTL

\* A walk goes on in the table it would reach from the root now.
THEOREM WalkStaysOnPath == Spec => []WalkOnPath
<1>1. IInv => WalkOnPath
  BY Consequences
<1> QED BY <1>1, Invariance, PTL

\* The slot bitmap and the global flag of a page cover its entries.
THEOREM HeadersAreExact == Spec => []HeadersExact
<1>1. IInv => HeadersExact
  BY Consequences
<1> QED BY <1>1, Invariance, PTL

\* The processor never has rights the guest did not give.
THEOREM RightsAreBounded == Spec => []RightsBounded
<1>1. IInv => RightsBounded
  BY Consequences
<1> QED BY <1>1, Invariance, PTL

\* A fault on memory-mapped I/O goes to the guest only if the guest's own
\* rights forbid the access; otherwise the access is emulated.
THEOREM MmioIsEmulated == Spec => MmioEmulated
<1> DEFINE Refused == \/ flt.user /\ ~Here.su
                      \/ flt.write /\ ~Here.sw /\ (flt.user \/ wp)
<1>1. ASSUME IInv, InjectsIo PROVE Refused
  <2>1. pc = "check" /\ pc \in Walking /\ IsLeaf(Here) /\ ~may_access(Here, flt.write, flt.user)
    BY <1>1 DEF InjectsIo, Walking
  <2>2. /\ cur \in active /\ pc # "off" /\ flt.a[1] \in Idx
        /\ Walk(paging, pc, flt, lvl, cur, hdr, tbl, root)
    BY <1>1, <2>1, InWalk
  <2>3. Here = tbl[cur][flt.a[1]] /\ paging
    BY <1>1, <2>1, <2>2 DEF Walk, Here
  <2>4. Checked(wp, flt, Here)
    BY <1>1, <2>1, <2>3 DEF IInv, WalkInv
  <2>5. EntryOK(paging, hdr[cur], Here)
    BY <1>1, <2>2, <2>3, ContextLive DEF Live, Entries, active
  <2> QED BY <2>1, <2>3, <2>4, <2>5 DEF Checked, EntryOK, may_access
<1>2. IInv /\ [Next]_vars => [InjectsIo => Refused]_vars
  BY <1>1
<1> QED BY <1>2, Invariance, PTL DEF Spec, MmioEmulated

=============================================================================
