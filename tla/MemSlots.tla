------------------------------ MODULE MemSlots ------------------------------
(***************************************************************************)
(* The guest memory of one virtual machine: KVM_SET_MEMORY_REGION and      *)
(* KVM_GET_DIRTY_LOG of kvm_main.c against a guest that runs, faults and   *)
(* writes, and against page faults of user space on the mapped file.       *)
(*                                                                         *)
(* A section under kvm->lock is one step, except the walk of               *)
(* active_mmu_pages; what the code does without the lock is a step of its  *)
(* own.  The shadow page table is reduced to what it maps: a page of a     *)
(* phys_mem array, writable or not, and the guest frame it was made for.   *)
(* The guest's own tables are not here: the mapping of an address keeps    *)
(* what they said when it was made, and Named what they may say by now.    *)
(* An address of a device has no mapping.  A VM exit empties the TLB (no   *)
(* VPID).                                                                  *)
(***************************************************************************)
EXTENDS Integers, FiniteSets

CONSTANTS
    NSlots,     \* KVM_MEMORY_SLOTS
    MaxGfn,     \* guest frame numbers are 0 .. MaxGfn - 1
    Addrs,      \* pages of the guest's linear addresses
    Named,      \* of a frame an address was mapped to: the frames that the
                \* guest's entry for the address may name at a write fault
    Arrays,     \* phys_mem arrays vmalloc can return
    Bitmaps,    \* dirty bitmaps vmalloc can return
    Tasks,      \* threads that issue the two ioctls
    Runner,     \* the thread that issues KVM_RUN
    Requests,   \* arguments of KVM_SET_MEMORY_REGION that pass its checks
    Touched,    \* frames user space touches through its mapping of the file
    MaxVersion, \* bound on the changes of one virtual machine
    Threaded,   \* ioctls overlap; FALSE for a single-threaded user space
    None        \* NULL

Slots == 0 .. NSlots - 1
Gfns  == 0 .. MaxGfn - 1

Slot == [base : Gfns, npages : 0 .. MaxGfn, mem : Arrays \cup {None},
         bitmap : Bitmaps \cup {None}]

Request == [slot : Slots, base : Gfns, npages : 0 .. MaxGfn, log : BOOLEAN]

ASSUME NSlotsAssumption == NSlots \in Nat \ {0}
ASSUME MaxGfnAssumption == MaxGfn \in Nat \ {0}
ASSUME NamedAssumption == Named \in [Gfns -> SUBSET Gfns]
ASSUME MaxVersionAssumption == MaxVersion \in Nat
ASSUME TasksAssumption == IsFiniteSet(Tasks) /\ Runner \notin Tasks
ASSUME RequestsAssumption ==
    Requests \subseteq {q \in Request : q.npages = 0 => ~q.log}
ASSUME TouchedAssumption == Touched \subseteq Gfns
ASSUME NullAssumption == None \notin Arrays \cup Bitmaps \cup Tasks \cup {Runner}

VARIABLES
    memslots, nmemslots, memory_config_version, busy,
    lock,        \* owner of kvm->lock while active_mmu_pages is walked
    live,        \* phys_mem arrays that are allocated
    dirty,       \* the bits set in a dirty bitmap
    maps,        \* dirty bitmaps that are allocated
    pc, req, old, new, ver,     \* of a task in KVM_SET_MEMORY_REGION
    slot, any,                  \* of a task in KVM_GET_DIRTY_LOG
    created,     \* the vcpu has a VMCS
    vcpu,        \* owner of vcpu->mutex
    shadow, tlb, \* what the shadow page table and the processor map
    nopage,      \* the array kvm_dev_nopage looked up, until its get_page
    unreported   \* <<bitmap, page, writer>> written since the last report

slotVars  == <<memslots, nmemslots, memory_config_version>>
heapVars  == <<live, dirty, maps>>
setVars   == <<req, old, new, ver>>
logVars   == <<slot, any>>
mmuVars   == <<created, vcpu, shadow, tlb>>
vars == <<memslots, nmemslots, memory_config_version, busy, lock, live,
          dirty, maps, pc, req, old, new, ver, slot, any, created, vcpu, shadow,
          tlb, nopage, unreported>>

\* One translation, made for the frame gfn: a page of an array, writable or not.
Entry == [gfn : Gfns, mem : Arrays, page : Gfns, w : BOOLEAN]
NoMap == [a \in Addrs |-> None]
ASSUME EntryAssumption == None \notin Entry

\* Who writes the guest's memory; user space is not asked to log itself.
Writers == {"guest", "kernel"}

EmptySlot == [base |-> 0, npages |-> 0, mem |-> None, bitmap |-> None]
NoRequest == [slot |-> 0, base |-> 0, npages |-> 0, log |-> FALSE]

SetPCs == {"snapshot", "alloc", "enomem", "commit", "load", "reset", "free"}
LogPCs == {"lookup", "scan", "copy", "lock", "walk", "clear", "flush", "unbusy"}

TypeOK ==
    /\ memslots \in [Slots -> Slot]
    /\ nmemslots \in 0 .. NSlots
    /\ memory_config_version \in 0 .. MaxVersion
    /\ busy \in 0 .. Cardinality(Tasks)
    /\ lock \in Tasks \cup {None}
    /\ live \in SUBSET Arrays
    /\ dirty \in [Bitmaps -> SUBSET Gfns]
    /\ maps \in SUBSET Bitmaps
    /\ pc \in [Tasks -> {"idle"} \cup SetPCs \cup LogPCs]
    /\ req \in [Tasks -> Request]
    /\ old \in [Tasks -> Slot]
    /\ new \in [Tasks -> Slot]
    /\ ver \in [Tasks -> 0 .. MaxVersion]
    /\ slot \in [Tasks -> Slots]
    /\ any \in [Tasks -> BOOLEAN]
    /\ created \in BOOLEAN
    /\ vcpu \in Tasks \cup {None, Runner}
    /\ shadow \in [Addrs -> Entry \cup {None}]
    /\ tlb \in [Addrs -> Entry \cup {None}]
    /\ nopage \in Arrays \cup {None}
    /\ unreported \in SUBSET (Bitmaps \X Gfns \X Writers)

\* kvm_dev_open: a zeroed struct kvm.
ZeroedKvm(slots, n, version) ==
    /\ slots = [s \in Slots |-> EmptySlot]
    /\ n = 0
    /\ version = 0

Init ==
    /\ ZeroedKvm(memslots, nmemslots, memory_config_version)
    /\ busy = 0
    /\ lock = None
    /\ live = {}
    /\ dirty = [b \in Bitmaps |-> {}]
    /\ maps = {}
    /\ pc = [t \in Tasks |-> "idle"]
    /\ req = [t \in Tasks |-> NoRequest]
    /\ old = [t \in Tasks |-> EmptySlot]
    /\ new = [t \in Tasks |-> EmptySlot]
    /\ ver = [t \in Tasks |-> 0]
    /\ slot = [t \in Tasks |-> 0]
    /\ any = [t \in Tasks |-> FALSE]
    /\ created = FALSE
    /\ vcpu = None
    /\ shadow = NoMap
    /\ tlb = NoMap
    /\ nopage = None
    /\ unreported = {}

Goto(t, label) == pc' = [pc EXCEPT ![t] = label]

AllIdle == \A t \in Tasks : pc[t] = "idle"

\* User space may start another operation: at any time from another thread, or
\* once the thread it has is back from the kernel.
ClientMay == Threaded \/ (AllIdle /\ vcpu # Runner /\ nopage = None)

Covers(s, g) == g >= s.base /\ g < s.base + s.npages

\* The first slot below nmemslots that covers the frame.
gfn_to_memslot(g) ==
    {s \in Slots : /\ s < nmemslots
                   /\ Covers(memslots[s], g)
                   /\ \A u \in 0 .. s - 1 : ~Covers(memslots[u], g)}

\* Mutant: the bit of the frame instead of the page.
MarkFrame(g) ==
    [b \in Bitmaps |->
        dirty[b] \cup {x \in {g} : \E u \in gfn_to_memslot(g) : memslots[u].bitmap = b}]

\* dirty after mark_page_dirty(g).
mark_page_dirty(g) ==
    [b \in Bitmaps |->
        dirty[b] \cup {g - memslots[s].base :
                       s \in {u \in gfn_to_memslot(g) : memslots[u].bitmap = b}}]

\* kvm_free_physmem_slot: what is in "free" and not in "dont".
kvm_free_physmem_slot(free, dont) ==
    /\ live' = live \ (IF free.mem # dont.mem THEN {free.mem} ELSE {})
    /\ LET gone == IF free.bitmap # dont.bitmap THEN {free.bitmap} ELSE {} IN
       /\ maps' = maps \ gone
       /\ dirty' = [b \in Bitmaps |-> IF b \in gone THEN {} ELSE dirty[b]]
       /\ unreported' = {u \in unreported : u[1] \notin gone}

-----------------------------------------------------------------------------
(* KVM_SET_MEMORY_REGION.                                                    *)

InSet == {t \in Tasks : pc[t] \in SetPCs}

\* The argument checks passed.  The bound keeps the version in its range.
SetStart(t, q) ==
    /\ ClientMay
    /\ pc[t] = "idle"
    /\ memory_config_version + Cardinality(InSet) < MaxVersion
    /\ req' = [req EXCEPT ![t] = q]
    /\ Goto(t, "snapshot")
    /\ UNCHANGED <<slotVars, busy, lock, heapVars, old, new, ver, logVars,
                   mmuVars, nopage, unreported>>

\* Back to user space, with the locals gone.
SetReturn(t) ==
    /\ Goto(t, "idle")
    /\ req' = [req EXCEPT ![t] = NoRequest]
    /\ old' = [old EXCEPT ![t] = EmptySlot]
    /\ new' = [new EXCEPT ![t] = EmptySlot]
    /\ ver' = [ver EXCEPT ![t] = 0]

SizeChanges(q, s) == q.npages # 0 /\ s.npages # 0 /\ q.npages # s.npages

Apart(a, b) == a.base + a.npages <= b.base \/ a.base >= b.base + b.npages

\* The overlap check: every other slot, the empty ones too.
NoOverlap(q) == \A s \in Slots \ {q.slot} : Apart(q, memslots[s])

\* -EINVAL or -EEXIST; kvm_free_physmem_slot(&new, &old) frees nothing, for
\* new still has the pointers of old.
SnapshotRefused(t) ==
    /\ pc[t] = "snapshot" /\ lock = None
    /\ SizeChanges(req[t], memslots[req[t].slot]) \/ ~NoOverlap(req[t])
    /\ SetReturn(t)
    /\ UNCHANGED <<slotVars, busy, lock, heapVars, logVars, mmuVars, nopage,
                   unreported>>

Snapshot(t) ==
    /\ pc[t] = "snapshot" /\ lock = None
    /\ LET q == req[t] IN
       /\ ~SizeChanges(q, memslots[q.slot])
       /\ NoOverlap(q)
       /\ old' = [old EXCEPT ![t] = memslots[q.slot]]
    /\ ver' = [ver EXCEPT ![t] = memory_config_version]
    /\ Goto(t, "alloc")
    /\ UNCHANGED <<slotVars, busy, lock, heapVars, req, new, logVars, mmuVars,
                   nopage, unreported>>

\* The pointer of the new slot: NULL when it is not wanted, kept when the slot
\* has one, otherwise one that vmalloc may return.
Pointers(wanted, kept, free) ==
    IF ~wanted THEN {None} ELSE IF kept # None THEN {kept} ELSE free

NewSlot(q, m, b) == [base |-> q.base, npages |-> q.npages, mem |-> m, bitmap |-> b]

Alloc(t) ==
    /\ pc[t] = "alloc"
    /\ LET q == req[t] IN
       \E m \in Pointers(q.npages # 0, old[t].mem, Arrays \ live),
          b \in Pointers(q.log, old[t].bitmap, Bitmaps \ maps) :
          /\ new' = [new EXCEPT ![t] = NewSlot(q, m, b)]
          /\ live' = live \cup ({m} \ {old[t].mem, None})
          /\ maps' = maps \cup ({b} \ {old[t].bitmap, None})
    /\ Goto(t, "commit")
    /\ UNCHANGED <<slotVars, busy, lock, dirty, req, old, ver, logVars,
                   mmuVars, nopage, unreported>>

\* -ENOMEM from the vmalloc of the array, from one of its pages, or from the
\* bitmap.
AllocFails(t) ==
    /\ pc[t] = "alloc"
    /\ LET q == req[t]
           kept == IF q.log THEN old[t].bitmap ELSE None IN
       \/ /\ q.npages # 0 /\ old[t].mem = None
          /\ new' = [new EXCEPT ![t] = NewSlot(q, None, kept)]
          /\ UNCHANGED live
       \/ /\ q.npages # 0 /\ old[t].mem = None
          /\ \E m \in Arrays \ live :
               /\ new' = [new EXCEPT ![t] = NewSlot(q, m, kept)]
               /\ live' = live \cup {m}
       \/ /\ q.log /\ old[t].bitmap = None
          /\ \E m \in Pointers(q.npages # 0, old[t].mem, Arrays \ live) :
               /\ new' = [new EXCEPT ![t] = NewSlot(q, m, None)]
               /\ live' = live \cup ({m} \ {old[t].mem})
    /\ Goto(t, "enomem")
    /\ UNCHANGED <<slotVars, busy, lock, dirty, maps, req, old, ver, logVars,
                   mmuVars, nopage, unreported>>

\* out_free.
FreeNew(t) ==
    /\ pc[t] = "enomem"
    /\ kvm_free_physmem_slot(new[t], old[t])
    /\ SetReturn(t)
    /\ UNCHANGED <<slotVars, busy, lock, logVars, mmuVars, nopage>>

\* Mutant: the version is not compared.
ConfigAssumed(t) == TRUE

ConfigUnchanged(t) == ver[t] = memory_config_version

\* Mutant: busy is not looked at.
NeverBusy == FALSE

IsBusy == busy > 0

\* Mutant: the arguments swapped.
RacedFreeSwapped(t) == kvm_free_physmem_slot(old[t], new[t])

RacedFree(t) == kvm_free_physmem_slot(new[t], old[t])

\* The memory configuration changed since the snapshot: free, and try again.
Raced(t) ==
    /\ pc[t] = "commit" /\ lock = None
    /\ ~ConfigUnchanged(t)
    /\ RacedFree(t)
    /\ old' = [old EXCEPT ![t] = EmptySlot]
    /\ new' = [new EXCEPT ![t] = EmptySlot]
    /\ Goto(t, "snapshot")
    /\ UNCHANGED <<slotVars, busy, lock, req, ver, logVars, mmuVars, nopage>>

\* -EAGAIN while a dirty log is being read.
CommitBusy(t) ==
    /\ pc[t] = "commit" /\ lock = None
    /\ ConfigUnchanged(t)
    /\ IsBusy
    /\ kvm_free_physmem_slot(new[t], old[t])
    /\ SetReturn(t)
    /\ UNCHANGED <<slotVars, busy, lock, logVars, mmuVars, nopage>>

\* nmemslots is above every slot that was ever set.
SlotsUpTo(s) == IF s >= nmemslots THEN s + 1 ELSE nmemslots

Commit(t) ==
    /\ pc[t] = "commit" /\ lock = None
    /\ ConfigUnchanged(t)
    /\ ~IsBusy
    /\ memslots' = [memslots EXCEPT ![req[t].slot] = new[t]]
    /\ nmemslots' = SlotsUpTo(req[t].slot)
    /\ memory_config_version' = memory_config_version + 1
    /\ Goto(t, "load")
    /\ UNCHANGED <<busy, lock, heapVars, setVars, logVars, mmuVars, nopage,
                   unreported>>

\* Mutant: the loop misses the vcpu.
MissesVcpu == FALSE

\* The vcpus that the reset loop finds: vcpu_load is NULL for a missing one.
FindsVcpu == created

SetLoad(t) ==
    /\ pc[t] = "load"
    /\ vcpu = None
    /\ \/ ~FindsVcpu /\ Goto(t, "free") /\ UNCHANGED vcpu
       \/ FindsVcpu /\ Goto(t, "reset") /\ vcpu' = t
    /\ UNCHANGED <<slotVars, busy, lock, heapVars, setVars, logVars, created,
                   shadow, tlb, nopage, unreported>>

\* kvm_mmu_reset_context, without kvm->lock, and vcpu_put.
SetReset(t) ==
    /\ pc[t] = "reset"
    /\ shadow' = NoMap
    /\ tlb' = NoMap
    /\ vcpu' = None
    /\ Goto(t, "free")
    /\ UNCHANGED <<slotVars, busy, lock, heapVars, setVars, logVars, created,
                   nopage, unreported>>

SetFree(t) ==
    /\ pc[t] = "free"
    /\ kvm_free_physmem_slot(old[t], new[t])
    /\ SetReturn(t)
    /\ UNCHANGED <<slotVars, busy, lock, logVars, mmuVars, nopage>>

-----------------------------------------------------------------------------
(* KVM_GET_DIRTY_LOG.                                                        *)

DirtyBitmap(t) == memslots[slot[t]].bitmap

\* Mutant: busy stays.
SameBusy == busy

\* ++kvm->busy holds off changes of the memory configuration.
RaisedBusy == busy + 1

LogStart(t, s) ==
    /\ ClientMay
    /\ pc[t] = "idle" /\ lock = None
    /\ busy' = RaisedBusy
    /\ slot' = [slot EXCEPT ![t] = s]
    /\ Goto(t, "lookup")
    /\ UNCHANGED <<slotVars, lock, heapVars, setVars, any, mmuVars, nopage,
                   unreported>>

\* -ENOENT for a slot without a bitmap.
LogLookup(t) ==
    /\ pc[t] = "lookup"
    /\ Goto(t, IF DirtyBitmap(t) = None THEN "unbusy" ELSE "scan")
    /\ UNCHANGED <<slotVars, busy, lock, heapVars, setVars, logVars, mmuVars,
                   nopage, unreported>>

LogScan(t) ==
    /\ pc[t] = "scan"
    /\ any' = [any EXCEPT ![t] = dirty[DirtyBitmap(t)] # {}]
    /\ Goto(t, "copy")
    /\ UNCHANGED <<slotVars, busy, lock, heapVars, setVars, slot, mmuVars,
                   nopage, unreported>>

\* The bits reach user space.
LogCopy(t) ==
    /\ pc[t] = "copy"
    /\ unreported' = {u \in unreported :
                        u[1] = DirtyBitmap(t) => u[2] \notin dirty[u[1]]}
    /\ Goto(t, IF any[t] THEN "lock" ELSE "unbusy")
    /\ UNCHANGED <<slotVars, busy, lock, heapVars, setVars, logVars, mmuVars,
                   nopage>>

\* -EFAULT.
LogCopyFails(t) ==
    /\ pc[t] = "copy"
    /\ Goto(t, "unbusy")
    /\ UNCHANGED <<slotVars, busy, lock, heapVars, setVars, logVars, mmuVars,
                   nopage, unreported>>

LogLock(t) ==
    /\ pc[t] = "lock" /\ lock = None
    /\ lock' = t
    /\ Goto(t, "walk")
    /\ UNCHANGED <<slotVars, busy, heapVars, setVars, logVars, mmuVars, nopage,
                   unreported>>

\* The addresses that map a page of slot s.
Mapping(s) == {a \in Addrs : shadow[a] # None /\ shadow[a].mem = memslots[s].mem}

\* kvm_mmu_slot_remove_write_access: the shadow pages with the slot's bit, so
\* the slot's mappings and whatever else these pages hold.
LogWalk(t) ==
    /\ pc[t] = "walk"
    /\ \E more \in SUBSET (Addrs \ Mapping(slot[t])) :
          shadow' = [a \in Addrs |->
                       IF shadow[a] # None /\ a \in Mapping(slot[t]) \cup more
                       THEN [shadow[a] EXCEPT !.w = FALSE] ELSE shadow[a]]
    /\ lock' = None
    /\ Goto(t, "clear")
    /\ UNCHANGED <<slotVars, busy, heapVars, setVars, logVars, created, vcpu,
                   tlb, nopage, unreported>>

\* memset, outside kvm->lock.
LogClear(t) ==
    /\ pc[t] = "clear"
    /\ dirty' = [dirty EXCEPT ![DirtyBitmap(t)] = {}]
    /\ Goto(t, "flush")
    /\ UNCHANGED <<slotVars, busy, lock, live, maps, setVars, logVars, mmuVars,
                   nopage, unreported>>

\* vcpu_load, flush_guest_tlb, vcpu_put.
LogFlush(t) ==
    /\ pc[t] = "flush"
    /\ vcpu = None
    /\ tlb' = IF created THEN NoMap ELSE tlb
    /\ Goto(t, "unbusy")
    /\ UNCHANGED <<slotVars, busy, lock, heapVars, setVars, logVars, created,
                   vcpu, shadow, nopage, unreported>>

LogUnbusy(t) ==
    /\ pc[t] = "unbusy" /\ lock = None
    /\ busy' = busy - 1
    /\ slot' = [slot EXCEPT ![t] = 0]
    /\ any' = [any EXCEPT ![t] = FALSE]
    /\ Goto(t, "idle")
    /\ UNCHANGED <<slotVars, lock, heapVars, setVars, mmuVars, nopage,
                   unreported>>

-----------------------------------------------------------------------------
(* The virtual cpu.                                                          *)

CreateVcpu ==
    /\ ClientMay
    /\ vcpu = None /\ ~created
    /\ created' = TRUE
    /\ UNCHANGED <<slotVars, busy, lock, heapVars, pc, setVars, logVars, vcpu,
                   shadow, tlb, nopage, unreported>>

RunLoad ==
    /\ ClientMay
    /\ vcpu = None /\ created
    /\ vcpu' = Runner
    /\ UNCHANGED <<slotVars, busy, lock, heapVars, pc, setVars, logVars,
                   created, shadow, tlb, nopage, unreported>>

\* A VM exit and vcpu_put.
RunPut ==
    /\ vcpu = Runner
    /\ vcpu' = None
    /\ tlb' = NoMap
    /\ UNCHANGED <<slotVars, busy, lock, heapVars, pc, setVars, logVars,
                   created, shadow, nopage, unreported>>

\* The translation the processor uses.
Translation(a) == IF tlb[a] # None THEN tlb[a] ELSE shadow[a]

Permits(e, w) == e # None /\ (w => e.w)

\* A bitmap covers an array's pages once the ioctl that turned logging on got
\* through its reset.
LoggedBy(mem) ==
    {memslots[s].bitmap : s \in
       {u \in Slots : /\ memslots[u].mem = mem
                      /\ memslots[u].bitmap # None
                      /\ \A t \in Tasks : req[t].slot = u
                                            => pc[t] \notin {"load", "reset"}}}

GuestAccess(a, w) ==
    LET e == Translation(a) IN
    /\ vcpu = Runner
    /\ Permits(e, w)
    /\ tlb' = [tlb EXCEPT ![a] = e]
    /\ unreported' =
         IF w THEN unreported \cup (LoggedBy(e.mem) \X {e.page} \X {"guest"})
         ELSE unreported
    /\ UNCHANGED <<slotVars, busy, lock, heapVars, pc, setVars, logVars,
                   created, vcpu, shadow, nopage>>

\* kvm_write_guest (the stack of inject_rmode_irq) and the other stores of the
\* kernel for the guest: accessed and dirty bits, the TSS of real mode.  They
\* reach the page of a frame directly and mark nothing.
KernelWrite(h) ==
    /\ vcpu = Runner
    /\ \E s \in gfn_to_memslot(h) :
          unreported' = unreported \cup (LoggedBy(memslots[s].mem)
                            \X {h - memslots[s].base} \X {"kernel"})
    /\ UNCHANGED <<slotVars, busy, lock, heapVars, pc, setVars, logVars,
                   mmuVars, nopage>>

\* page_fault maps the address to frame h, under kvm->lock.  The mapping is
\* writable for a write, without guest paging, and where the guest's own entry is
\* already dirty.  A writable one is logged by set_pte_common or nonpaging_map,
\* as frame h; but the one that fix_write_pf makes writable, in the same fault,
\* as the frame that it finds in the guest's entry.
MapPage(a, h, w) ==
    /\ vcpu = Runner /\ lock = None
    /\ ~Permits(Translation(a), w)
    /\ shadow[a] # None => shadow[a].gfn = h
    /\ \E s \in gfn_to_memslot(h), writable \in {w, TRUE},
          m \in {h} \cup (IF w THEN Named[h] ELSE {}) :
          /\ shadow' = [shadow EXCEPT ![a] =
                          [gfn |-> h, mem |-> memslots[s].mem,
                           page |-> h - memslots[s].base, w |-> writable]]
          /\ dirty' = IF writable THEN mark_page_dirty(m) ELSE dirty
    /\ tlb' = NoMap
    /\ UNCHANGED <<slotVars, busy, lock, live, maps, pc, setVars, logVars,
                   created, vcpu, nopage, unreported>>

\* fix_write_pf on a mapping that is there: it makes the shadow entry writable as
\* it is, and marks the frame that the guest's entry names now.
FixWrite(a) ==
    /\ vcpu = Runner /\ lock = None
    /\ shadow[a] # None /\ ~shadow[a].w
    /\ ~Permits(Translation(a), TRUE)
    /\ shadow' = [shadow EXCEPT ![a] = [@ EXCEPT !.w = TRUE]]
    /\ \E m \in Named[shadow[a].gfn] : dirty' = mark_page_dirty(m)
    /\ tlb' = NoMap
    /\ UNCHANGED <<slotVars, busy, lock, live, maps, pc, setVars, logVars,
                   created, vcpu, nopage, unreported>>

\* invlpg, a CR3 load or an exhausted page pool drops mappings, under the lock;
\* so does fix_write_pf where the guest's entry is not present any more.
DropMapping(a) ==
    /\ vcpu = Runner /\ lock = None
    /\ shadow[a] # None
    /\ shadow' = [shadow EXCEPT ![a] = None]
    /\ tlb' = NoMap
    /\ UNCHANGED <<slotVars, busy, lock, heapVars, pc, setVars, logVars,
                   created, vcpu, nopage, unreported>>

-----------------------------------------------------------------------------
(* User space touches its mapping of the file; and closes the file.          *)

NopageLookup(g) ==
    /\ ClientMay
    /\ nopage = None
    /\ \E s \in gfn_to_memslot(g) : nopage' = memslots[s].mem
    /\ UNCHANGED <<slotVars, busy, lock, heapVars, pc, setVars, logVars,
                   mmuVars, unreported>>

NopageGet ==
    /\ nopage # None
    /\ nopage' = None
    /\ UNCHANGED <<slotVars, busy, lock, heapVars, pc, setVars, logVars,
                   mmuVars, unreported>>

\* kvm_free_physmem: the slots below nmemslots.
ReleasedSlots == {s \in Slots : s < nmemslots}

\* kvm_dev_release, and kvm_dev_open for the next virtual machine.
Release ==
    /\ AllIdle /\ vcpu = None /\ nopage = None
    /\ memory_config_version > 0
    /\ live' = live \ {memslots[s].mem : s \in ReleasedSlots}
    /\ maps' = maps \ {memslots[s].bitmap : s \in ReleasedSlots}
    /\ dirty' = [b \in Bitmaps |-> {}]
    /\ unreported' = {}
    /\ ZeroedKvm(memslots', nmemslots', memory_config_version')
    /\ created' = FALSE
    /\ shadow' = NoMap
    /\ tlb' = NoMap
    /\ UNCHANGED <<busy, lock, pc, setVars, logVars, vcpu, nopage>>

-----------------------------------------------------------------------------
SetMemoryRegion(t) ==
    \/ \E q \in Requests : SetStart(t, q)
    \/ SnapshotRefused(t) \/ Snapshot(t) \/ Alloc(t) \/ AllocFails(t)
    \/ FreeNew(t) \/ Raced(t) \/ CommitBusy(t) \/ Commit(t)
    \/ SetLoad(t) \/ SetReset(t) \/ SetFree(t)

GetDirtyLog(t) ==
    \/ \E s \in Slots : LogStart(t, s)
    \/ LogLookup(t) \/ LogScan(t) \/ LogCopy(t) \/ LogCopyFails(t)
    \/ LogLock(t) \/ LogWalk(t) \/ LogClear(t) \/ LogFlush(t) \/ LogUnbusy(t)

Machine ==
    \/ CreateVcpu \/ RunLoad \/ RunPut \/ NopageGet \/ Release
    \/ \E a \in Addrs :
          \/ \E w \in BOOLEAN : \/ GuestAccess(a, w)
                               \/ \E h \in Gfns : MapPage(a, h, w)
          \/ FixWrite(a) \/ DropMapping(a)
    \/ \E h \in Gfns : KernelWrite(h)
    \/ \E g \in Touched : NopageLookup(g)

Next == Machine \/ \E t \in Tasks : SetMemoryRegion(t) \/ GetDirtyLog(t)

Spec == Init /\ [][Next]_vars

-----------------------------------------------------------------------------
(* Properties.                                                               *)

\* No guest frame is in two slots, although the overlap check and the commit
\* are in different critical sections: memory_config_version catches a change
\* in between.
SlotsDisjoint ==
    \A g \in Gfns, s, u \in Slots :
        Covers(memslots[s], g) /\ Covers(memslots[u], g) => s = u

\* What a task in KVM_SET_MEMORY_REGION has to install or to free: first the
\* new pointer that the slot did not have, then the old one it no longer has.
HeldMem(t) ==
    IF pc[t] \in {"enomem", "commit"} THEN {new[t].mem} \ {old[t].mem, None}
    ELSE IF pc[t] \in {"load", "reset", "free"} THEN {old[t].mem} \ {new[t].mem, None}
    ELSE {}

HeldMap(t) ==
    IF pc[t] \in {"enomem", "commit"} THEN {new[t].bitmap} \ {old[t].bitmap, None}
    ELSE IF pc[t] \in {"load", "reset", "free"}
    THEN {old[t].bitmap} \ {new[t].bitmap, None}
    ELSE {}

\* An allocated array has one owner, a slot or a task that will install it or
\* free it.
ArraysOwned ==
    /\ live = ({memslots[s].mem : s \in Slots} \ {None})
                \cup UNION {HeldMem(t) : t \in Tasks}
    /\ \A s, u \in Slots : s # u /\ memslots[s].mem = memslots[u].mem
                             => memslots[s].mem = None
    /\ \A t \in Tasks, s \in Slots : memslots[s].mem \notin HeldMem(t)
    /\ \A t, u \in Tasks : t # u => HeldMem(t) \cap HeldMem(u) = {}

\* The same for the dirty bitmaps, which change independently of the arrays.
BitmapsOwned ==
    /\ maps = ({memslots[s].bitmap : s \in Slots} \ {None})
                \cup UNION {HeldMap(t) : t \in Tasks}
    /\ \A s, u \in Slots : s # u /\ memslots[s].bitmap = memslots[u].bitmap
                             => memslots[s].bitmap = None
    /\ \A t \in Tasks, s \in Slots : memslots[s].bitmap \notin HeldMap(t)
    /\ \A t, u \in Tasks : t # u => HeldMap(t) \cap HeldMap(u) = {}

\* Whatever raced, failed or was retried in KVM_SET_MEMORY_REGION, no array of
\* pages and no dirty bitmap leaks, is freed twice or is shared by two slots.
StorageOwned == ArraysOwned /\ BitmapsOwned

\* The guest reaches no page of an array that was freed: the shadow page table
\* is reset between the commit and kvm_free_physmem_slot, with the vcpu mutex.
MappedLive ==
    \A a \in Addrs : \A e \in {shadow[a], tlb[a]} : e # None => e.mem \in live

\* kvm->busy keeps the bitmap that KVM_GET_DIRTY_LOG reads, copies and clears
\* without the lock.
BitmapLive ==
    \A t \in Tasks :
        pc[t] \in {"scan", "copy", "lock", "walk", "clear"}
            => DirtyBitmap(t) \in maps

\* What was written since the last report and has no bit.
Missed == {u \in unreported : u[2] \notin dirty[u[1]]}

\* "Get (and clear) the dirty memory log": a page that the guest wrote since it
\* was last reported still has its bit when KVM_GET_DIRTY_LOG is called next.
\* The writes of the guest's own instructions, that is: those of the kernel are
\* lost whenever the guest has not written to the page itself.  It holds for a client of
\* one thread and a Coherent guest; runs DirtyLogRace and DirtyLogLarge show what
\* happens without the one and without the other.
DirtyNotLost == AllIdle => \A u \in Missed : u[3] # "guest"

-----------------------------------------------------------------------------
(* What fix_write_pf takes for granted: 4K pages, and mappings dropped when    *)
(* their entry changes, so that the entry names the frame that is mapped.      *)
Coherent == \A h \in Gfns : Named[h] = {h}
=============================================================================
