----------------------------- MODULE ShadowMmu ------------------------------
(***************************************************************************)
(* The shadow page tables of a virtual cpu (mmu.c, paging_tmpl.h with      *)
(* PTTYPE 64): the pool of pages they are built from, the tree under       *)
(* mmu.root_hpa, the fault handlers that fill it and the operations that   *)
(* take it down.  The processor walks the tree from GUEST_CR3 and faults   *)
(* where it does not permit an access; the guest changes its own tables    *)
(* whenever it runs.  Trees have PT32E_ROOT_LEVEL = 3 levels.  An address  *)
(* is the tuple of its indices, leaf first.  kvm_mmu_slot_remove_write_    *)
(* access is called by another thread, between two faults.                 *)
(***************************************************************************)
EXTENDS Naturals, FiniteSets

CONSTANTS
    Pages,          \* the shadow pages (KVM_NUM_MMU_PAGES)
    Idx,            \* indices of a table
    Addr,           \* the guest virtual pages, tuples <<leaf, dir, root>>
    Slot,           \* Slot[f]: memory slot of guest frame f, or NoSlot
    Identity,       \* Identity[a]: frame of a when the guest does not page
    PteStores,      \* stores <<a, entry>> to page tables the guest may do
    PdeStores,      \* stores <<dir, entry>> to directories
    InitPtes, InitPdes, \* the tables it may start with
    MaxChanges,     \* bound: stores to the guest's tables
    NoSlot, NoPage, Absent

Levels == 1..3
Dirs == {<<a[2], a[3]>> : a \in Addr}
Dir(a) == <<a[2], a[3]>>
Frames == DOMAIN Slot
Slots == {Slot[f] : f \in Frames} \ {NoSlot}

GuestPde == [p : BOOLEAN, w : BOOLEAN, u : BOOLEAN, ps : BOOLEAN, d : BOOLEAN, f : Frames]
GuestPte == [p : BOOLEAN, w : BOOLEAN, u : BOOLEAN, g : BOOLEAN, d : BOOLEAN, f : Frames]

(* The frame of a in a large page.                                         *)
LargeFrame(pde, a) == pde.f + a[1]

ASSUME MmuAssumption ==
    /\ IsFiniteSet(Pages) /\ Cardinality(Pages) >= 3
    /\ NoPage \notin Pages \cup (Pages \X Idx)
    /\ Addr \subseteq [Levels -> Idx]
    /\ Identity \in [Addr -> Frames]
    /\ MaxChanges \in Nat

(* Whatever the guest's tables hold, an entry names a guest frame.         *)
ASSUME TablesAssumption ==
    /\ InitPtes \subseteq [Addr -> GuestPte] /\ PteStores \subseteq Addr \X GuestPte
    /\ InitPdes \subseteq [Dirs -> GuestPde] /\ PdeStores \subseteq Dirs \X GuestPde
    /\ \A a \in Addr :
          /\ \A t \in InitPdes : t[Dir(a)].ps => LargeFrame(t[Dir(a)], a) \in Frames
          /\ \A s \in PdeStores :
                s[1] = Dir(a) /\ s[2].ps => LargeFrame(s[2], a) \in Frames

(* What a table walk gives: a translation, or Absent.                      *)
Translation ==
    [f : Frames, w : BOOLEAN, u : BOOLEAN, g : BOOLEAN, d : BOOLEAN, big : BOOLEAN]

ASSUME AbsentAssumption == Absent \notin Translation

VARIABLES
    gpde, gpte,     \* the guest's directory and page table entries
    paging, wp,     \* CR0.PG, CR0.WP of the guest
    changes,        \* number of stores to the guest's tables
    pc,             \* where the vcpu thread is
    flt,            \* the page fault being handled
    lvl, cur,       \* level and table of the walk (fetch, nonpaging_map)
    held,           \* pages allocated from the host
    free,           \* vcpu->free_pages
    hdr,            \* the headers of the pages on kvm->active_mmu_pages:
                    \*   parent (parent_pte, a page and an index), global, slots
    tbl,            \* contents of the shadow pages
    root,           \* vcpu->mmu.root_hpa
    hwroot,         \* GUEST_CR3
    obs             \* what the guest saw last

guestVars == <<gpde, gpte, paging, wp, changes>>
faultVars == <<pc, flt, lvl, cur>>
poolVars  == <<held, free, hdr, tbl>>
rootVars  == <<root, hwroot>>
vars == <<guestVars, faultVars, poolVars, rootVars, obs>>

Quiet == [k |-> "quiet"]
NoFault == [k |-> "none"]
Fault == [a : Addr, write : BOOLEAN, user : BOOLEAN, p : BOOLEAN, fixed : BOOLEAN]
Seen(k, a, write, user) == [k |-> k, a |-> a, write |-> write, user |-> user]

-----------------------------------------------------------------------------
(* Entries.  A shadow entry is zero, a table, or a leaf: p present, w and  *)
(* u the processor's rights, sw and su the guest's (PT_SHADOW_*_MASK), not *)
(* p marks memory-mapped I/O (PT_SHADOW_IO_MARK).  big remembers which     *)
(* function made the leaf; the code does not.                              *)

Zero == [k |-> "zero"]
Table(page) == [k |-> "table", to |-> page, ps |-> FALSE]
Leaf == [k : {"leaf"}, p : BOOLEAN, f : Frames, w : BOOLEAN, u : BOOLEAN,
         sw : BOOLEAN, su : BOOLEAN, g : BOOLEAN, big : BOOLEAN]
Entry == {Zero} \cup Leaf \cup [k : {"table"}, to : Pages, ps : BOOLEAN]
Empty == [i \in Idx |-> Zero]

IsTable(e) == e.k = "table"
IsLeaf(e) == e.k = "leaf"
is_io_pte(e) == ~e.p

(* The walk of the guest's own tables: what fetch_guest finds, combined    *)
(* with the rights it inherits.  The top-level entry is always present.    *)
GuestPresent(a, level) ==
    CASE level = 3 -> TRUE
      [] level = 2 -> gpde[Dir(a)].p
      [] level = 1 -> gpde[Dir(a)].p /\ (gpde[Dir(a)].ps \/ gpte[a].p)

Eff(a) ==
    LET pde == gpde[Dir(a)]
        pte == gpte[a]
    IN  CASE ~paging ->
               [f |-> Identity[a], w |-> TRUE, u |-> TRUE, g |-> FALSE, d |-> TRUE, big |-> FALSE]
          [] paging /\ ~GuestPresent(a, 1) -> Absent
          [] paging /\ GuestPresent(a, 1) /\ pde.ps ->
               [f |-> LargeFrame(pde, a), w |-> pde.w, u |-> pde.u, g |-> FALSE, d |-> pde.d, big |-> TRUE]
          [] OTHER ->
               [f |-> pte.f, w |-> pde.w /\ pte.w, u |-> pde.u /\ pte.u, g |-> pte.g, d |-> pte.d, big |-> FALSE]

(* The processor's walk of the shadow tables from table page.              *)
Child(page, i) ==
    IF page # NoPage /\ IsTable(tbl[page][i]) THEN tbl[page][i].to ELSE NoPage
LeafPage(top, a) == Child(Child(top, a[3]), a[2])
LeafOf(top, a) ==
    LET pt == LeafPage(top, a) IN IF pt = NoPage THEN Zero ELSE tbl[pt][a[1]]
Reached(a) ==
    CASE Child(root, a[3]) = NoPage -> <<3, root>>
      [] Child(root, a[3]) # NoPage /\ LeafPage(root, a) = NoPage -> <<2, Child(root, a[3])>>
      [] LeafPage(root, a) # NoPage -> <<1, LeafPage(root, a)>>
HwPermits(e, write, user) ==
    IsLeaf(e) /\ e.p /\ (user => e.u) /\ (write => e.w)

-----------------------------------------------------------------------------
(* The pool.  The header of a page off the active list is written before   *)
(* it is read (kvm_mmu_alloc_page), so hdr has none.                       *)

active == DOMAIN hdr
NewHeader(up) == [parent |-> up, global |-> TRUE, slots |-> {}]
With(h, page, header) ==
    [p \in DOMAIN h \cup {page} |-> IF p = page THEN header ELSE h[p]]
Without(S) == [p \in active \ S |-> hdr[p]]

Children(S) ==
    {q \in Pages : \E p \in S, i \in Idx : IsTable(tbl[p][i]) /\ tbl[p][i].to = q}

(* The pages under page, itself included: what release_pt_page_64 frees.   *)
\* Mutant: the recursion stops one level early.
UpperTables(page) == {page} \cup Children({page})
Subtree(page) ==
    LET below == Children({page}) IN {page} \cup below \cup Children(below)

\* Mutant: the leaf table is not cleared before it is freed.
KeepsContents(S, t) == t
Released(S, t) == [p \in Pages |-> IF p \in S THEN Empty ELSE t[p]]

(* The page at the head of a list.                                         *)
First(S) == CHOOSE p \in S : TRUE

(* A new context: a fresh root from the free pages F.                      *)
NewRoot(F, h, t) ==
    LET r == First(F) IN
    /\ free' = F \ {r}
    /\ hdr' = With(h, r, NewHeader(NoPage))
    /\ tbl' = t
    /\ root' = r
    /\ hwroot' = r

FreshContext ==
    LET S == Subtree(root) IN NewRoot(free \cup S, Without(S), Released(S, tbl))

(* kvm_mmu_alloc_page for entry i of page at.                              *)
AllocPage(at, i) ==
    LET new == First(free) IN
    /\ free # {}
    /\ free' = free \ {new}
    /\ hdr' = With(hdr, new, NewHeader(<<at, i>>))
    /\ tbl' = [tbl EXCEPT ![at][i] = Table(new)]
    /\ UNCHANGED <<held, root, hwroot>>

-----------------------------------------------------------------------------
Init ==
    /\ gpde \in InitPdes
    /\ gpte \in InitPtes
    /\ paging = FALSE /\ wp = FALSE
    /\ changes = 0
    /\ pc = "off" /\ flt = NoFault /\ lvl = 3 /\ cur = NoPage
    /\ held = {} /\ free = {} /\ hdr = <<>>
    /\ tbl = [p \in Pages |-> Empty]
    /\ root = NoPage /\ hwroot = NoPage
    /\ obs = Quiet

(* alloc_mmu_pages, one page at a time; kvm_mmu_init then makes a context. *)
AllocMmuPage ==
    /\ pc = "off"
    /\ held # Pages
    /\ LET p == First(Pages \ held) IN
         /\ held' = held \cup {p}
         /\ free' = free \cup {p}
    /\ obs' = Quiet
    /\ UNCHANGED <<guestVars, faultVars, rootVars, hdr, tbl>>

AllocMmuFails ==
    /\ pc = "off"
    /\ held # Pages
    /\ held' = held \ free
    /\ free' = {}
    /\ obs' = Quiet
    /\ UNCHANGED <<guestVars, faultVars, rootVars, hdr, tbl>>

kvm_mmu_init ==
    /\ pc = "off"
    /\ held = Pages
    /\ NewRoot(free, hdr, tbl)
    /\ pc' = "guest"
    /\ obs' = Quiet
    /\ UNCHANGED <<guestVars, held, flt, lvl, cur>>

kvm_mmu_destroy ==
    /\ pc = "guest"
    /\ LET S == Subtree(root) IN
         /\ tbl' = Released(S, tbl)
         /\ hdr' = Without(S)
         /\ held' = held \ (free \cup S)
    /\ free' = {}
    /\ root' = NoPage
    /\ pc' = "off"
    /\ obs' = Quiet
    /\ UNCHANGED <<guestVars, hwroot, flt, lvl, cur>>

-----------------------------------------------------------------------------
(* The guest runs.                                                         *)

Running == pc = "guest"

(* An access the processor finds allowed changes nothing here; any other   *)
(* leaves the guest with a page fault.                                     *)
PageFault(a, write, user) ==
    LET e == LeafOf(hwroot, a) IN
    /\ Running
    /\ ~HwPermits(e, write, user)
    /\ flt' = [a |-> a, write |-> write, user |-> user, p |-> IsLeaf(e) /\ e.p, fixed |-> FALSE]
    /\ pc' = CASE ~paging -> "map"
               [] paging /\ LeafOf(root, a) = Zero -> "fetch"
               [] paging /\ LeafOf(root, a) # Zero -> "fix"
    /\ lvl' = Reached(a)[1]
    /\ cur' = Reached(a)[2]
    /\ obs' = Quiet
    /\ UNCHANGED <<guestVars, poolVars, rootVars>>

StorePte(a, e) ==
    /\ Running
    /\ changes < MaxChanges
    /\ gpte[a] # e
    /\ gpte' = [gpte EXCEPT ![a] = e]
    /\ changes' = changes + 1
    /\ pc' = "exit"
    /\ obs' = [k |-> "store"]
    /\ UNCHANGED <<gpde, paging, wp, flt, lvl, cur, poolVars, rootVars>>

StorePde(d, e) ==
    /\ Running
    /\ changes < MaxChanges
    /\ gpde[d] # e
    /\ gpde' = [gpde EXCEPT ![d] = e]
    /\ changes' = changes + 1
    /\ pc' = "exit"
    /\ obs' = [k |-> "store"]
    /\ UNCHANGED <<gpte, paging, wp, flt, lvl, cur, poolVars, rootVars>>

(* set_cr0: any change of paging or write protection ends in               *)
(* kvm_mmu_reset_context.                                                  *)
set_cr0(pg, writeProtect) ==
    /\ Running
    /\ paging' = pg /\ wp' = writeProtect
    /\ FreshContext
    /\ pc' = "exit"
    /\ obs' = [k |-> "mode"]
    /\ UNCHANGED <<gpde, gpte, changes, flt, lvl, cur, held>>

(* The next VM entry.                                                      *)
Resume ==
    /\ pc = "exit"
    /\ pc' = "guest"
    /\ obs' = Quiet
    /\ UNCHANGED <<guestVars, flt, lvl, cur, poolVars, rootVars>>

(* The pages kvm_mmu_flush_tlb drops: those with a parent that hold an     *)
(* entry that is not global.                                               *)
FlushedPages == {p \in active : ~hdr[p].global /\ hdr[p].parent # NoPage}

kvm_mmu_flush_tlb ==
    LET S == FlushedPages IN
    /\ tbl' = [p \in Pages |->
                 [i \in Idx |-> IF p \in S \/ (\E q \in S : hdr[q].parent = <<p, i>>)
                                THEN Zero ELSE tbl[p][i]]]
    /\ hdr' = Without(S)
    /\ free' = free \cup S
    /\ UNCHANGED <<held, rootVars>>

(* set_cr3 calls mmu.new_cr3, which does nothing without paging.           *)
set_cr3 ==
    /\ Running
    /\ IF paging THEN kvm_mmu_flush_tlb
                 ELSE UNCHANGED <<poolVars, rootVars>>
    /\ pc' = "exit"
    /\ obs' = IF paging THEN [k |-> "cr3"] ELSE Quiet
    /\ UNCHANGED <<guestVars, flt, lvl, cur>>

(* paging_inval_page: one leaf entry, or the whole table if its directory  *)
(* entry carries PT_SHADOW_PS_MARK.                                        *)
\* Mutant: the directory entry of the released table stays.
KeepsPde(a) ==
    LET pt == LeafPage(root, a)
    IN  IF pt = NoPage THEN UNCHANGED <<tbl, hdr, free>>
        ELSE IF tbl[Child(root, a[3])][a[2]].ps
        THEN /\ tbl' = Released({pt}, tbl)
             /\ hdr' = Without({pt})
             /\ free' = free \cup {pt}
        ELSE /\ tbl' = [tbl EXCEPT ![pt][a[1]] = Zero]
             /\ UNCHANGED <<hdr, free>>
\* Mutant: a large page is invalidated like a small one.
DropsOneEntry(a) ==
    LET pt == LeafPage(root, a)
    IN  /\ IF pt = NoPage THEN UNCHANGED tbl ELSE tbl' = [tbl EXCEPT ![pt][a[1]] = Zero]
        /\ UNCHANGED <<hdr, free>>
Invalidated(a) ==
    LET dir == Child(root, a[3])
        pt  == LeafPage(root, a)
    IN  IF pt = NoPage THEN UNCHANGED <<tbl, hdr, free>>
        ELSE IF tbl[dir][a[2]].ps
        THEN /\ tbl' = [Released({pt}, tbl) EXCEPT ![dir][a[2]] = Zero]
             /\ hdr' = Without({pt})
             /\ free' = free \cup {pt}
        ELSE /\ tbl' = [tbl EXCEPT ![pt][a[1]] = Zero]
             /\ UNCHANGED <<hdr, free>>

paging_inval_page(a) ==
    /\ Running
    /\ paging
    /\ Invalidated(a)
    /\ pc' = "exit"
    /\ obs' = [k |-> "invlpg", a |-> a]
    /\ UNCHANGED <<guestVars, flt, lvl, cur, held, rootVars>>

-----------------------------------------------------------------------------
(* paging64_page_fault.  fetch descends the shadow tree as far as there    *)
(* is one (Reached), then adds to it from there.                           *)

Here == tbl[cur][flt.a[lvl]]
Missing == pc = "fetch" /\ Here = Zero

Return ==
    /\ pc' = "guest" /\ flt' = NoFault /\ lvl' = 3 /\ cur' = NoPage
    /\ obs' = Quiet

ReturnSeen(o) ==
    /\ pc' = "exit" /\ flt' = NoFault /\ lvl' = 3 /\ cur' = NoPage
    /\ obs' = o

inject_page_fault == ReturnSeen(Seen("fault", flt.a, flt.write, flt.user))

FetchUnmapped ==
    /\ Missing
    /\ ~GuestPresent(flt.a, lvl)
    /\ inject_page_fault
    /\ UNCHANGED <<guestVars, poolVars, rootVars>>

FetchAlloc ==
    /\ Missing
    /\ lvl > 1
    /\ GuestPresent(flt.a, lvl)
    /\ AllocPage(cur, flt.a[lvl])
    /\ lvl' = lvl - 1
    /\ cur' = First(free)
    /\ obs' = Quiet
    /\ UNCHANGED <<guestVars, pc, flt>>

(* nonpaging_flush: no page is left, so all are taken back and the walk    *)
(* starts again.                                                           *)
\* Mutant: the walk goes on in the table it was in.
FlushContinues ==
    /\ free = {}
    /\ FreshContext
    /\ obs' = Quiet
    /\ UNCHANGED <<guestVars, pc, flt, lvl, cur, held>>
nonpaging_flush ==
    /\ free = {}
    /\ FreshContext
    /\ lvl' = 3
    /\ cur' = root'
    /\ obs' = Quiet
    /\ UNCHANGED <<guestVars, pc, flt, held>>

FetchNoMemory ==
    /\ Missing
    /\ lvl > 1
    /\ GuestPresent(flt.a, lvl)
    /\ nonpaging_flush

(* set_pte_common: the leaf for translation e, writable by the processor   *)
(* only once the guest's entry is dirty.                                   *)
ShadowLeaf(e) ==
    [k |-> "leaf", p |-> Slot[e.f] # NoSlot, f |-> e.f,
     w |-> e.w /\ e.d, u |-> e.u, sw |-> e.w, su |-> e.u, g |-> e.g, big |-> e.big]

(* mark_pagetable_nonglobal and page_header_update_slot.                   *)
\* Mutant: the error case of gpa_to_hpa is not told apart.
MarksAnySlot(h, e) == [h EXCEPT !.global = @ /\ e.g, !.slots = @ \cup {Slot[e.f]}]
\* Mutant: the last entry decides whether the page is global.
MarksLast(h, e) ==
    [h EXCEPT !.global = e.g,
              !.slots = IF Slot[e.f] # NoSlot THEN @ \cup {Slot[e.f]} ELSE @]
MarksPage(h, e) ==
    [h EXCEPT !.global = @ /\ e.g,
              !.slots = IF Slot[e.f] # NoSlot THEN @ \cup {Slot[e.f]} ELSE @]

(* set_pte and set_pde; set_pde first marks the directory entry.           *)
FetchSet ==
    LET e == Eff(flt.a)
        up == hdr[cur].parent
        new == [tbl EXCEPT ![cur][flt.a[1]] = ShadowLeaf(e)]
    IN
    /\ Missing
    /\ lvl = 1
    /\ GuestPresent(flt.a, 1)
    /\ tbl' = IF e.big THEN [new EXCEPT ![up[1]][up[2]].ps = TRUE] ELSE new
    /\ hdr' = [hdr EXCEPT ![cur] = MarksPage(@, e)]
    /\ pc' = "fix"
    /\ obs' = Quiet
    /\ UNCHANGED <<guestVars, flt, lvl, cur, held, free, rootVars>>

(* fix_write_pf: may this write be allowed through shadow entry e ?        *)
\* Mutant: entries that are not present are not looked at.
FixableIfPresent(e, user) ==
    /\ e.p /\ ~e.w
    /\ IF user THEN e.su /\ e.sw ELSE e.sw \/ ~wp
FixableWrite(e, user) ==
    /\ ~e.w
    /\ IF user THEN e.su /\ e.sw ELSE e.sw \/ ~wp

(* The supervisor writes a read-only page: the user loses access meanwhile.*)
\* Mutant: the user keeps access.
WriteFixedForAll(e, user) == [e EXCEPT !.w = TRUE]
WriteFixed(e, user) == [e EXCEPT !.w = TRUE, !.u = IF ~user /\ ~e.sw THEN FALSE ELSE @]

SetsDirty(a) ==
    IF gpde[Dir(a)].ps
    THEN gpde' = [gpde EXCEPT ![Dir(a)].d = TRUE] /\ UNCHANGED gpte
    ELSE gpte' = [gpte EXCEPT ![a].d = TRUE] /\ UNCHANGED gpde

fix_write_pf ==
    LET e == Here IN
    /\ pc = "fix" /\ flt.write
    /\ \/ /\ ~FixableWrite(e, flt.user)
          /\ UNCHANGED <<tbl, flt, gpde, gpte>>
       \/ /\ FixableWrite(e, flt.user) /\ ~GuestPresent(flt.a, 1)
          /\ tbl' = [tbl EXCEPT ![cur][flt.a[1]] = Zero]
          /\ UNCHANGED <<flt, gpde, gpte>>
       \/ /\ FixableWrite(e, flt.user) /\ GuestPresent(flt.a, 1)
          /\ tbl' = [tbl EXCEPT ![cur][flt.a[1]] = WriteFixed(e, flt.user)]
          /\ flt' = [flt EXCEPT !.fixed = TRUE]
          /\ SetsDirty(flt.a)
    /\ pc' = "check"
    /\ obs' = Quiet
    /\ UNCHANGED <<paging, wp, changes, lvl, cur, held, free, hdr, rootVars>>

FixableRead(e) == e.su /\ ~e.u

fix_read_pf ==
    LET e == Here IN
    /\ pc = "fix" /\ ~flt.write
    /\ IF FixableRead(e)
       THEN /\ tbl' = [tbl EXCEPT ![cur][flt.a[1]].u = TRUE, ![cur][flt.a[1]].w = FALSE]
            /\ flt' = [flt EXCEPT !.fixed = TRUE]
       ELSE UNCHANGED <<tbl, flt>>
    /\ pc' = "check"
    /\ obs' = Quiet
    /\ UNCHANGED <<guestVars, lvl, cur, held, free, hdr, rootVars>>

may_access(e, write, user) == (user => e.u) /\ (write => e.w)

Emulates ==
    /\ pc = "check"
    /\ IsLeaf(Here) /\ is_io_pte(Here)
    /\ may_access(Here, flt.write, flt.user)
    /\ ReturnSeen(Seen("emulate", flt.a, flt.write, flt.user))
    /\ UNCHANGED <<guestVars, poolVars, rootVars>>

InjectsIo ==
    /\ pc = "check"
    /\ IsLeaf(Here) /\ is_io_pte(Here)
    /\ ~may_access(Here, flt.write, flt.user)
    /\ inject_page_fault
    /\ UNCHANGED <<guestVars, poolVars, rootVars>>

Injects ==
    /\ pc = "check"
    /\ ~(IsLeaf(Here) /\ is_io_pte(Here))
    /\ flt.p /\ ~flt.fixed
    /\ inject_page_fault
    /\ UNCHANGED <<guestVars, poolVars, rootVars>>

(* The guest tries again.                                                  *)
Retries ==
    /\ pc = "check"
    /\ ~(IsLeaf(Here) /\ is_io_pte(Here))
    /\ flt.p => flt.fixed
    /\ Return
    /\ UNCHANGED <<guestVars, poolVars, rootVars>>

-----------------------------------------------------------------------------
(* nonpaging_page_fault and nonpaging_map.                                 *)

Mapping == pc = "map"
MapIo == Slot[Identity[flt.a]] = NoSlot

MapEmulates ==
    /\ Mapping
    /\ MapIo
    /\ ReturnSeen(Seen("emulate", flt.a, flt.write, flt.user))
    /\ UNCHANGED <<guestVars, poolVars, rootVars>>

MapAlloc ==
    /\ Mapping /\ ~MapIo
    /\ lvl > 1 /\ Here = Zero
    /\ AllocPage(cur, flt.a[lvl])
    /\ lvl' = lvl - 1
    /\ cur' = First(free)
    /\ obs' = Quiet
    /\ UNCHANGED <<guestVars, pc, flt>>

MapNoMemory ==
    /\ Mapping /\ ~MapIo
    /\ lvl > 1 /\ Here = Zero
    /\ nonpaging_flush

(* The leaf carries neither guest rights nor the global bit, and the page  *)
(* keeps global = 1: new_cr3 does nothing in this mode.                    *)
MapSet ==
    LET f == Identity[flt.a] IN
    /\ Mapping /\ ~MapIo
    /\ lvl = 1
    /\ tbl' = [tbl EXCEPT ![cur][flt.a[1]] =
                 [k |-> "leaf", p |-> TRUE, f |-> f, w |-> TRUE, u |-> TRUE,
                  sw |-> FALSE, su |-> FALSE, g |-> FALSE, big |-> FALSE]]
    /\ hdr' = [hdr EXCEPT ![cur].slots = @ \cup {Slot[f]}]
    /\ Return
    /\ UNCHANGED <<guestVars, held, free, rootVars>>

-----------------------------------------------------------------------------
(* KVM_GET_DIRTY_LOG takes write access away from the pages of a slot.  It *)
(* holds kvm->lock, as handle_exception does around the fault handlers.    *)
kvm_mmu_slot_remove_write_access(s) ==
    /\ pc \in {"guest", "exit"}
    /\ tbl' = [p \in Pages |->
                 [i \in Idx |-> IF p \in active /\ s \in hdr[p].slots /\ IsLeaf(tbl[p][i])
                                THEN [tbl[p][i] EXCEPT !.w = FALSE] ELSE tbl[p][i]]]
    /\ obs' = Quiet
    /\ UNCHANGED <<guestVars, faultVars, held, free, hdr, rootVars>>

-----------------------------------------------------------------------------
Handler ==
    \/ FetchUnmapped \/ FetchAlloc \/ FetchNoMemory \/ FetchSet
    \/ fix_write_pf \/ fix_read_pf \/ Emulates \/ InjectsIo \/ Injects \/ Retries
    \/ MapEmulates \/ MapAlloc \/ MapNoMemory \/ MapSet

Next ==
    \/ AllocMmuPage \/ AllocMmuFails \/ kvm_mmu_init \/ kvm_mmu_destroy
    \/ \E a \in Addr, write, user \in BOOLEAN : PageFault(a, write, user)
    \/ \E s \in PteStores : StorePte(s[1], s[2])
    \/ \E s \in PdeStores : StorePde(s[1], s[2])
    \/ \E pg, writeProtect \in BOOLEAN : set_cr0(pg, writeProtect)
    \/ set_cr3
    \/ \E a \in Addr : paging_inval_page(a)
    \/ Resume \/ Handler
    \/ \E s \in Slots : kvm_mmu_slot_remove_write_access(s)

Spec == Init /\ [][Next]_vars /\ WF_vars(Handler)

-----------------------------------------------------------------------------
(* Types of all variables.                                                 *)
TypeOK ==
    /\ gpde \in [Dirs -> GuestPde] /\ gpte \in [Addr -> GuestPte]
    /\ paging \in BOOLEAN /\ wp \in BOOLEAN
    /\ changes \in 0..MaxChanges
    /\ pc \in {"off", "guest", "exit", "fetch", "fix", "check", "map"}
    /\ flt \in Fault \cup {NoFault}
    /\ lvl \in Levels /\ cur \in Pages \cup {NoPage}
    /\ held \subseteq Pages /\ free \subseteq Pages /\ active \subseteq Pages
    /\ hdr \in [active -> [parent : (Pages \X Idx) \cup {NoPage}, global : BOOLEAN, slots : SUBSET Slots]]
    /\ tbl \in [Pages -> [Idx -> Entry]]
    /\ root \in Pages \cup {NoPage} /\ hwroot \in Pages \cup {NoPage}

(* Every page the host gave is on exactly one list, every page off the     *)
(* active list is empty (the assertion of kvm_mmu_alloc_page), and no page *)
(* is left behind when the context is destroyed.                           *)
PoolSound ==
    /\ free \cap active = {}
    /\ held = free \cup active
    /\ \A p \in Pages \ active : tbl[p] = Empty
    /\ pc = "off" => active = {}

(* parent_pte, through which kvm_mmu_flush_tlb writes without looking, is  *)
(* the one entry of the tree that refers to the page; the active pages are *)
(* the tree under root_hpa, which is the tree the processor walks.         *)
TreeSound ==
    pc # "off" =>
       /\ hwroot = root
       /\ active = Subtree(root)
       /\ hdr[root].parent = NoPage
       /\ \A p \in active, i \in Idx :
             IsTable(tbl[p][i]) => hdr[tbl[p][i].to].parent = <<p, i>>

(* A walk that another thread, a flush for want of memory or a new root    *)
(* overtook goes on in the table it would reach from the root now.         *)
WalkOnPath ==
    pc \in {"fetch", "fix", "check", "map"} =>
       cur = CASE lvl = 3 -> root
               [] lvl = 2 -> Child(root, flt.a[3])
               [] lvl = 1 -> LeafPage(root, flt.a)

(* kvm_mmu_slot_remove_write_access skips pages whose slot_bitmap lacks    *)
(* the slot: it misses no entry through which the slot can be written.     *)
SlotBitsCover ==
    \A p \in active, i \in Idx :
       IsLeaf(tbl[p][i]) /\ tbl[p][i].p => Slot[tbl[p][i].f] \in hdr[p].slots

(* A page kvm_mmu_flush_tlb keeps holds global entries only.               *)
GlobalExact ==
    paging => \A p \in active, i \in Idx :
                 hdr[p].global /\ IsLeaf(tbl[p][i]) => tbl[p][i].g

(* What kvm_mmu_slot_remove_write_access and kvm_mmu_flush_tlb decide by   *)
(* the header of a page alone, they would decide by its entries.           *)
HeadersExact == SlotBitsCover /\ GlobalExact

(* The processor never has rights the guest did not give: what the user    *)
(* may write is the user's and writable, also while the supervisor writes  *)
(* to a read-only page with CR0.WP clear.                                  *)
RightsBounded ==
    paging => \A p \in active, i \in Idx :
                 LET e == tbl[p][i] IN
                 IsLeaf(e) => /\ e.u => e.su
                              /\ e.u /\ e.w => e.sw
                              /\ e.sw /\ e.su => e.u

(* The shadow tables are a translation cache of the guest's tables.        *)
Remembered(a) ==
    LET e == LeafOf(root, a) IN
    IF pc = "off" \/ ~IsLeaf(e) THEN {}
    ELSE {[f |-> e.f, w |-> e.sw \/ ~paging, u |-> e.su \/ ~paging, g |-> e.g, d |-> e.w, big |-> e.big]}

AllowedAt(a) ==
    LET e == LeafOf(hwroot, a) IN
    {[a |-> a, write |-> x[1], user |-> x[2], f |-> e.f] :
        x \in {y \in BOOLEAN \X BOOLEAN : HwPermits(e, y[1], y[2])}}

Allowed == IF pc = "off" THEN {} ELSE UNION {AllowedAt(a) : a \in Addr}

Tlb == INSTANCE GuestTlb WITH
         Group <- [a \in Addr |-> {b \in Addr : Dir(b) = Dir(a)}],
         eff <- [a \in Addr |-> Eff(a)],
         tlb <- [a \in Addr |-> Remembered(a)],
         open <- Allowed

(* Refinement: what the guest sees of its memory, it could see on a        *)
(* processor whose translation cache obeys GuestTlb.                       *)
TlbSpec == Tlb!Spec

(* "mmio: emulate if accessible, otherwise its a guest fault": a fault on  *)
(* memory-mapped I/O goes to the guest only if the guest's rights, as the  *)
(* shadow entry remembers them, forbid the access.                         *)
MmioEmulated ==
    [][InjectsIo => \/ flt.user /\ ~Here.su
                    \/ flt.write /\ ~Here.sw /\ (flt.user \/ wp)]_vars

(* A page fault comes to an end: running out of shadow pages in the middle *)
(* of a walk costs one flush, not a livelock.                              *)
FaultHandled == pc \in {"fetch", "fix", "check", "map"} ~> pc \in {"exit", "guest"}
=============================================================================
