--------------------------- MODULE DirtyLogProofs ---------------------------
(***************************************************************************)
(* For a single-threaded user space and a guest whose entries name the     *)
(* frames they are mapped to, the dirty log has every write of the guest's *)
(* instructions.  The proof adds to the invariant of MemSlotsProofs what   *)
(* ties a writable mapping to the bit of its page.  The runs DirtyLogRace  *)
(* and DirtyLogLarge show that neither assumption can go, DirtyLogKernel   *)
(* that the kernel's own writes are not in the log.                        *)
(***************************************************************************)
EXTENDS MemSlotsProofs

\* The kernel works on one call at a time, and the guest does not run in it.
SeqInv ==
    /\ \A t, u \in Tasks : pc[t] # "idle" /\ pc[u] # "idle" => t = u
    /\ \A t \in Tasks : pc[t] # "idle" => vcpu # Runner

\* Not between the commit of a change and the reset of the mappings.
Settled == \A t \in Tasks : pc[t] \notin {"load", "reset"}

\* A translation is to the page that the slots give its frame.
Exact(e) ==
    \E s \in gfn_to_memslot(e.gfn) : /\ e.mem = memslots[s].mem
                                     /\ e.page = e.gfn - memslots[s].base

\* The page has its bit in the bitmap of its slot.
Marked(e) ==
    \A s \in Slots : memslots[s].mem = e.mem /\ memslots[s].bitmap # None
                       => e.page \in dirty[memslots[s].bitmap]

\* Mappings are exact, and a writable one is of a page with its bit set.
MarkInv ==
    Settled =>
        /\ \A a \in Addrs : shadow[a] # None => Exact(shadow[a])
        /\ \A a \in Addrs : shadow[a] # None /\ shadow[a].w => Marked(shadow[a])
        /\ \A a \in Addrs : tlb[a] # None /\ tlb[a].w => Marked(tlb[a])

\* What the guest's instructions wrote since the last report.
Written == {u \in unreported : u[3] = "guest"}

\* It has its bit, at all times.
ReportInv == \A u \in Written : u[2] \in dirty[u[1]]

\* Between the copy and the memset all bits are reported, and once the walk is
\* over no page of the slot is writable.
ClearInv ==
    \A t \in Tasks :
        /\ pc[t] \in {"lock", "walk", "clear"}
              => \A u \in Written : u[1] # DirtyBitmap(t)
        /\ pc[t] = "clear"
              => \A a \in Addrs : shadow[a] # None
                                    /\ shadow[a].mem = memslots[slot[t]].mem
                                    => ~shadow[a].w

LInv == IInv /\ SeqInv /\ MarkInv /\ ReportInv /\ ClearInv

-----------------------------------------------------------------------------
(* Steps that leave slots, bitmaps and mappings alone.                       *)

USE NSlotsAssumption, MaxGfnAssumption, NullAssumption
    DEF slotVars, heapVars, setVars, logVars, mmuVars

\* A step of one task inside a call, or out of it, that touches neither slots,
\* bitmaps nor mappings.
LEMMA TaskQuiet ==
    ASSUME LInv, NEW t \in Tasks, NEW label, Goto(t, label), pc[t] # "idle",
           UNCHANGED <<slotVars, dirty, shadow, vcpu, unreported>>,
           slot' = slot \/ (label = "idle" /\ \A u \in Tasks \ {t} : slot'[u] = slot[u]),
           tlb' \in {tlb, NoMap},
           pc[t] \notin {"load", "reset"},
           label \in {"lock", "walk", "clear"} => pc[t] \in {"lock", "walk", "clear"},
           label # "clear"
    PROVE  SeqInv' /\ MarkInv' /\ ReportInv' /\ ClearInv'
<1>1. \A u \in Tasks : pc'[u] = IF u = t THEN label ELSE pc[u]
  BY DEF LInv, IInv, TypeOK, Goto
<1>2. SeqInv'
  BY <1>1 DEF LInv, SeqInv
<1>3. Settled' => Settled
  BY <1>1 DEF Settled
<1>4. /\ \A e : Exact(e)' <=> Exact(e)
      /\ \A e : Marked(e)' <=> Marked(e)
  BY DEF Exact, Marked, gfn_to_memslot
<1>5. \A a \in Addrs : tlb'[a] \in {tlb[a], None}
  BY NoMapOK
<1>6. MarkInv'
  BY <1>3, <1>4, <1>5 DEF LInv, MarkInv
<1>7. ReportInv' /\ ClearInv'
  BY <1>1 DEF LInv, ReportInv, ClearInv, DirtyBitmap, Written
<1> QED BY <1>2, <1>6, <1>7

\* A call begins when nothing else is under way.
LEMMA StartQuiet ==
    ASSUME LInv, NEW t \in Tasks, NEW label \in {"snapshot", "lookup"},
           Goto(t, label), ClientMay, Threaded = FALSE,
           UNCHANGED <<slotVars, dirty, shadow, tlb, vcpu, unreported>>
    PROVE  SeqInv' /\ MarkInv' /\ ReportInv' /\ ClearInv'
<1>1. \A u \in Tasks : pc'[u] = IF u = t THEN label ELSE pc[u]
  BY DEF LInv, IInv, TypeOK, Goto
<1>2. (\A u \in Tasks : pc[u] = "idle") /\ vcpu # Runner
  BY DEF ClientMay, AllIdle
<1>3. SeqInv' /\ Settled /\ ClearInv'
  BY <1>1, <1>2 DEF SeqInv, Settled, ClearInv
<1>4. /\ \A e : Exact(e)' <=> Exact(e)
      /\ \A e : Marked(e)' <=> Marked(e)
  BY DEF Exact, Marked, gfn_to_memslot
<1>5. MarkInv' /\ ReportInv'
  BY <1>3, <1>4 DEF LInv, MarkInv, ReportInv, Written
<1> QED BY <1>3, <1>5

-----------------------------------------------------------------------------
(* KVM_SET_MEMORY_REGION.                                                    *)

\* kvm_free_physmem_slot clears a bitmap that is in no slot.
LEMMA FreeQuiet ==
    ASSUME LInv, NEW t \in Tasks, NEW a \in Slot, NEW b \in Slot,
           kvm_free_physmem_slot(a, b),
           HeldMap(t) = {a.bitmap} \ {b.bitmap, None},
           NEW label \in {"idle", "snapshot"}, Goto(t, label), pc[t] # "idle",
           pc[t] \notin {"load", "reset"},
           UNCHANGED <<slotVars, slot, shadow, tlb, vcpu>>
    PROVE  SeqInv' /\ MarkInv' /\ ReportInv' /\ ClearInv'
<1>1. \A u \in Tasks : pc'[u] = IF u = t THEN label ELSE pc[u]
  BY DEF LInv, IInv, TypeOK, Goto
<1>2. SeqInv' /\ ClearInv'
  BY <1>1 DEF LInv, SeqInv, ClearInv
<1>3. Settled' => Settled
  BY <1>1 DEF Settled
<1>4. \A s \in Slots : memslots[s].bitmap \notin HeldMap(t)
  BY DEF LInv, IInv, BitmapInv, Owned, SlotMap, TaskMap
<1>5. \A x \in Bitmaps : x \notin HeldMap(t) => dirty'[x] = dirty[x]
  BY DEF kvm_free_physmem_slot
<1>6. \A s \in Slots : memslots[s].bitmap \in Bitmaps \cup {None}
  BY DEF LInv, IInv, TypeOK, Slot
<1>7. \A e : Marked(e) => Marked(e)'
  BY <1>4, <1>5, <1>6 DEF Marked
<1>8. \A e : Exact(e)' <=> Exact(e)
  BY DEF Exact, gfn_to_memslot
<1>9. MarkInv'
  BY <1>3, <1>7, <1>8 DEF LInv, MarkInv
<1>10. ReportInv'
  <2>1. ASSUME NEW u \in Written' PROVE u[2] \in dirty'[u[1]]
    <3>1. u \in Written /\ u[1] \in Bitmaps /\ u[1] \notin HeldMap(t)
      BY DEF kvm_free_physmem_slot, LInv, IInv, TypeOK, Written
    <3> QED BY <1>5, <3>1 DEF LInv, ReportInv
  <2> QED BY <2>1 DEF ReportInv
<1> QED BY <1>2, <1>9, <1>10

\* The call up to the commit, and back out of it.
LEMMA Seq_SetQuiet ==
    ASSUME LInv, NEW t \in Tasks,
           SnapshotRefused(t) \/ Snapshot(t) \/ Alloc(t) \/ AllocFails(t)
    PROVE  SeqInv' /\ MarkInv' /\ ReportInv' /\ ClearInv'
<1>1. PICK label \in {"idle", "alloc", "commit", "enomem"} : Goto(t, label)
  BY DEF SnapshotRefused, SetReturn, Snapshot, Alloc, AllocFails
<1>2. /\ pc[t] \in {"snapshot", "alloc"}
      /\ UNCHANGED <<slotVars, dirty, slot, shadow, tlb, vcpu, unreported>>
  BY DEF SnapshotRefused, Snapshot, Alloc, AllocFails
<1> QED BY <1>1, <1>2, TaskQuiet

\* Every way that frees.
LEMMA Seq_SetFrees ==
    ASSUME LInv, NEW t \in Tasks,
           FreeNew(t) \/ Raced(t) \/ CommitBusy(t) \/ SetFree(t)
    PROVE  SeqInv' /\ MarkInv' /\ ReportInv' /\ ClearInv'
<1>1. PICK label \in {"idle", "snapshot"} : Goto(t, label)
  BY DEF FreeNew, Raced, CommitBusy, SetFree, SetReturn
<1>2. /\ pc[t] \in {"enomem", "commit", "free"}
      /\ UNCHANGED <<slotVars, slot, shadow, tlb, vcpu>>
  BY DEF FreeNew, Raced, CommitBusy, SetFree
<1>3. PICK a \in Slot, b \in Slot :
        /\ kvm_free_physmem_slot(a, b)
        /\ HeldMap(t) = {a.bitmap} \ {b.bitmap, None}
  <2>1. new[t] \in Slot /\ old[t] \in Slot
    BY DEF LInv, IInv, TypeOK
  <2>2. CASE FreeNew(t) \/ Raced(t) \/ CommitBusy(t)
    BY <2>1, <2>2 DEF FreeNew, Raced, RacedFree, CommitBusy, HeldMap
  <2>3. CASE SetFree(t)
    BY <2>1, <2>3 DEF SetFree, HeldMap
  <2> QED BY <2>2, <2>3
<1> QED BY <1>1, <1>2, <1>3, FreeQuiet

\* From the commit to the reset nothing is claimed of the mappings, and the reset
\* leaves none.
LEMMA Seq_SetCommit ==
    ASSUME LInv, NEW t \in Tasks, Commit(t) \/ SetLoad(t) \/ SetReset(t)
    PROVE  SeqInv' /\ MarkInv' /\ ReportInv' /\ ClearInv'
<1>1. PICK label \in {"load", "reset", "free"} : Goto(t, label)
  BY DEF Commit, SetLoad, SetReset
<1>2. /\ pc[t] # "idle" /\ UNCHANGED <<dirty, slot, unreported>>
      /\ vcpu' \in {vcpu, None, t}
  BY DEF Commit, SetLoad, SetReset
<1>3. \A u \in Tasks : pc'[u] = IF u = t THEN label ELSE pc[u]
  BY <1>1 DEF LInv, IInv, TypeOK, Goto
<1>4. SeqInv' /\ ReportInv'
  BY <1>2, <1>3, TasksAssumption DEF LInv, SeqInv, ReportInv, Written
<1>5. ClearInv'
  BY <1>2, <1>3 DEF LInv, SeqInv, ClearInv
<1>6. CASE label \in {"load", "reset"}
  BY <1>3, <1>4, <1>5, <1>6 DEF MarkInv, Settled
<1>7. CASE label = "free"
  <2>1. shadow' = NoMap /\ tlb' = NoMap
    <3>1. CASE SetReset(t)
      BY <3>1 DEF SetReset
    <3>2. CASE ~SetReset(t)
      <4>1. SetLoad(t) /\ ~created /\ shadow' = shadow /\ tlb' = tlb
        BY <1>1, <1>7, <3>2 DEF Commit, SetLoad, FindsVcpu, Goto, LInv, IInv, TypeOK
      <4> QED BY <4>1 DEF LInv, IInv, ShadowInv
    <3> QED BY <3>1, <3>2
  <2> QED BY <1>4, <1>5, <2>1, NoMapOK DEF MarkInv
<1> QED BY <1>1, <1>6, <1>7

-----------------------------------------------------------------------------
(* KVM_GET_DIRTY_LOG.                                                        *)

\* The steps that only read, and the flush.
LEMMA Seq_LogQuiet ==
    ASSUME LInv, NEW t \in Tasks,
           \/ LogLookup(t) \/ LogScan(t) \/ LogCopyFails(t) \/ LogLock(t)
           \/ LogFlush(t) \/ LogUnbusy(t)
    PROVE  SeqInv' /\ MarkInv' /\ ReportInv' /\ ClearInv'
<1>1. PICK label \in {"scan", "unbusy", "copy", "walk", "idle"} :
        /\ Goto(t, label)
        /\ label = "walk" => pc[t] = "lock"
        /\ slot' = slot \/ (label = "idle" /\ \A u \in Tasks \ {t} : slot'[u] = slot[u])
  BY DEF LogLookup, LogScan, LogCopyFails, LogLock, LogFlush, LogUnbusy, LInv, IInv,
         TypeOK
<1>2. /\ pc[t] \in LogPCs
      /\ UNCHANGED <<slotVars, dirty, shadow, vcpu, unreported>>
      /\ tlb' \in {tlb, NoMap}
  BY DEF LogLookup, LogScan, LogCopyFails, LogLock, LogFlush, LogUnbusy, LogPCs
<1> QED BY <1>1, <1>2, TaskQuiet DEF LogPCs

\* The copy reports every page of the slot that is to be reported.
LEMMA Seq_LogCopy ==
    ASSUME LInv, NEW t \in Tasks, LogCopy(t)
    PROVE  SeqInv' /\ MarkInv' /\ ReportInv' /\ ClearInv'
<1>1. PICK label \in {"lock", "unbusy"} : Goto(t, label)
  BY DEF LogCopy
<1>2. /\ pc[t] = "copy"
      /\ UNCHANGED <<slotVars, dirty, slot, shadow, tlb, vcpu>>
      /\ unreported' = {u \in unreported :
                          u[1] = DirtyBitmap(t) => u[2] \notin dirty[u[1]]}
  BY DEF LogCopy
<1>3. \A u \in Tasks : pc'[u] = IF u = t THEN label ELSE pc[u]
  BY <1>1 DEF LInv, IInv, TypeOK, Goto
<1>4. \A u \in Written' : u \in Written /\ u[1] # DirtyBitmap(t)
  BY <1>2 DEF LInv, ReportInv, Written
<1>5. SeqInv' /\ ReportInv'
  BY <1>2, <1>3, <1>4 DEF LInv, SeqInv, ReportInv
<1>6. ClearInv'
  BY <1>2, <1>3, <1>4 DEF LInv, ClearInv, SeqInv, DirtyBitmap
<1>7. /\ Settled' => Settled
      /\ \A e : Exact(e)' <=> Exact(e)
      /\ \A e : Marked(e)' <=> Marked(e)
  BY <1>2, <1>3 DEF Settled, Exact, Marked, gfn_to_memslot
<1>8. MarkInv'
  BY <1>2, <1>7 DEF LInv, MarkInv
<1> QED BY <1>5, <1>6, <1>8

\* The walk takes the write access from every page of the slot.
LEMMA Seq_LogWalk ==
    ASSUME LInv, NEW t \in Tasks, LogWalk(t)
    PROVE  SeqInv' /\ MarkInv' /\ ReportInv' /\ ClearInv'
<1>1. PICK more \in SUBSET (Addrs \ Mapping(slot[t])) :
        shadow' = [a \in Addrs |->
                     IF shadow[a] # None /\ a \in Mapping(slot[t]) \cup more
                     THEN [shadow[a] EXCEPT !.w = FALSE] ELSE shadow[a]]
  BY DEF LogWalk
<1>2. /\ pc[t] = "walk" /\ Goto(t, "clear")
      /\ UNCHANGED <<slotVars, dirty, slot, tlb, vcpu, unreported>>
  BY DEF LogWalk
<1>3. \A u \in Tasks : pc'[u] = IF u = t THEN "clear" ELSE pc[u]
  BY <1>2 DEF LInv, IInv, TypeOK, Goto
<1>4. ASSUME NEW a \in Addrs, shadow'[a] # None
      PROVE  /\ shadow[a] # None
             /\ shadow'[a].mem = shadow[a].mem /\ shadow'[a].page = shadow[a].page
             /\ shadow'[a].gfn = shadow[a].gfn
             /\ shadow'[a].w => shadow[a].w
             /\ shadow[a].mem = memslots[slot[t]].mem => ~shadow'[a].w
  <2>1. shadow[a] \in Entry
    BY <1>1, <1>4 DEF LInv, IInv, TypeOK
  <2>2. LET e == [shadow[a] EXCEPT !.w = FALSE] IN
        e.mem = shadow[a].mem /\ e.page = shadow[a].page /\ ~e.w
        /\ e.gfn = shadow[a].gfn
    BY <2>1 DEF Entry
  <2>3. shadow[a] # None
    BY <1>1, <1>4
  <2> QED BY <1>1, <2>2, <2>3 DEF Mapping
<1>5. SeqInv' /\ ReportInv'
  BY <1>2, <1>3 DEF LInv, SeqInv, ReportInv, Written
<1>6. ClearInv'
  BY <1>2, <1>3, <1>4 DEF LInv, ClearInv, SeqInv, DirtyBitmap, Written
<1>7. Settled' => Settled
  BY <1>2, <1>3 DEF Settled
<1>8. ASSUME NEW a \in Addrs, shadow'[a] # None, Settled
      PROVE  Exact(shadow[a])' /\ (shadow'[a].w => Marked(shadow[a])')
  <2>1. shadow[a] # None /\ Exact(shadow[a]) /\ (shadow[a].w => Marked(shadow[a]))
    BY <1>4, <1>8 DEF LInv, MarkInv
  <2> QED BY <1>2, <1>4, <1>8, <2>1 DEF Exact, Marked, gfn_to_memslot
<1>9. MarkInv'
  <2>1. \A a \in Addrs : tlb'[a] = None
    BY <1>2, NoMapOK DEF LInv, SeqInv, IInv, ShadowInv
  <2> QED BY <1>7, <1>8, <2>1 DEF MarkInv
<1> QED BY <1>5, <1>6, <1>9

\* The memset loses nothing: all bits were reported, and no page of the slot can
\* have been written since.
LEMMA Seq_LogClear ==
    ASSUME LInv, NEW t \in Tasks, LogClear(t)
    PROVE  SeqInv' /\ MarkInv' /\ ReportInv' /\ ClearInv'
<1>1. /\ pc[t] = "clear" /\ Goto(t, "flush")
      /\ dirty' = [dirty EXCEPT ![DirtyBitmap(t)] = {}]
      /\ UNCHANGED <<slotVars, slot, shadow, tlb, vcpu, unreported>>
  BY DEF LogClear
<1>2. \A u \in Tasks : pc'[u] = IF u = t THEN "flush" ELSE pc[u]
  BY <1>1 DEF LInv, IInv, TypeOK, Goto
<1>3. SeqInv' /\ ClearInv'
  BY <1>1, <1>2 DEF LInv, SeqInv, ClearInv
<1>4. \A b \in Bitmaps : b # DirtyBitmap(t) => dirty'[b] = dirty[b]
  BY <1>1 DEF LInv, IInv, TypeOK
<1>5. ReportInv'
  <2>1. ASSUME NEW u \in Written PROVE u[2] \in dirty'[u[1]]
    <3>1. u[1] \in Bitmaps /\ u[1] # DirtyBitmap(t)
      BY <1>1 DEF LInv, IInv, TypeOK, ClearInv, Written
    <3> QED BY <1>4, <3>1 DEF LInv, ReportInv
  <2> QED BY <1>1, <2>1 DEF ReportInv, Written
<1>6. /\ slot[t] \in Slots /\ DirtyBitmap(t) # None
      /\ \A s \in Slots : memslots[s].bitmap \in Bitmaps \cup {None}
      /\ \A s \in Slots : memslots[s].bitmap = DirtyBitmap(t) => s = slot[t]
  <2>1. slot[t] \in Slots
    BY DEF LInv, IInv, TypeOK
  <2>2. DirtyBitmap(t) # None
    BY <1>1 DEF LInv, IInv, LogInv
  <2>3. \A s \in Slots : memslots[s].bitmap \in Bitmaps \cup {None}
    BY DEF LInv, IInv, TypeOK, Slot
  <2> QED BY <2>1, <2>2, <2>3 DEF LInv, IInv, BitmapInv, Owned, SlotMap, DirtyBitmap
<1>7. ASSUME NEW e, Marked(e), memslots[slot[t]].mem # e.mem
      PROVE  Marked(e)'
  BY <1>1, <1>4, <1>6, <1>7 DEF Marked
<1>8. tlb = NoMap
  BY <1>1 DEF LInv, SeqInv, IInv, ShadowInv
<1>9. Settled
  BY <1>1 DEF LInv, SeqInv, Settled
<1>10. \A e : Exact(e)' <=> Exact(e)
  BY <1>1 DEF Exact, gfn_to_memslot
<1>11. \A a \in Addrs : shadow[a] # None /\ shadow[a].w
                         => memslots[slot[t]].mem # shadow[a].mem
  BY <1>1 DEF LInv, ClearInv
<1>12. MarkInv'
  BY <1>1, <1>7, <1>8, <1>9, <1>10, <1>11, NoMapOK DEF LInv, MarkInv
<1> QED BY <1>3, <1>5, <1>12

-----------------------------------------------------------------------------
(* The guest.                                                                *)

\* The vcpu is created, loaded and put, user space touches its mapping, the
\* kernel writes for the guest, or nothing happens.
LEMMA Seq_MachineQuiet ==
    ASSUME LInv, Threaded = FALSE,
           \/ CreateVcpu \/ RunLoad \/ RunPut \/ NopageGet \/ UNCHANGED vars
           \/ \E g \in Touched : NopageLookup(g)
           \/ \E h \in Gfns : KernelWrite(h)
    PROVE  SeqInv' /\ MarkInv' /\ ReportInv' /\ ClearInv'
<1>0. Written' = Written
  <2>1. CASE \E h \in Gfns : KernelWrite(h)
    <3>1. \A u \in unreported' \ unreported : u[3] = "kernel"
      BY <2>1 DEF KernelWrite
    <3>2. unreported \subseteq unreported'
      BY <2>1 DEF KernelWrite
    <3> QED BY <3>1, <3>2 DEF Written
  <2>2. CASE ~\E h \in Gfns : KernelWrite(h)
    BY <2>2 DEF CreateVcpu, RunLoad, RunPut, NopageGet, NopageLookup, vars, Written
  <2> QED BY <2>1, <2>2
<1>1. /\ UNCHANGED <<slotVars, dirty, pc, slot, shadow>>
      /\ tlb' \in {tlb, NoMap}
  BY DEF CreateVcpu, RunLoad, RunPut, NopageGet, NopageLookup, KernelWrite, vars
<1>2. vcpu' = vcpu \/ vcpu' = None \/ \A t \in Tasks : pc[t] = "idle"
  BY DEF CreateVcpu, RunLoad, RunPut, NopageGet, NopageLookup, KernelWrite, vars,
         ClientMay, AllIdle
<1>3. SeqInv' /\ ReportInv'
  BY <1>0, <1>1, <1>2 DEF LInv, SeqInv, ReportInv
<1>4. ClearInv'
  BY <1>0, <1>1 DEF LInv, ClearInv, DirtyBitmap
<1>5. /\ Settled' => Settled
      /\ \A e : Exact(e)' <=> Exact(e)
      /\ \A e : Marked(e)' <=> Marked(e)
  BY <1>1 DEF Settled, Exact, Marked, gfn_to_memslot
<1>6. \A a \in Addrs : tlb'[a] \in {tlb[a], None}
  BY <1>1, NoMapOK
<1>7. MarkInv'
  BY <1>1, <1>5, <1>6 DEF LInv, MarkInv
<1> QED BY <1>3, <1>4, <1>7

\* A write of the guest goes to a page with its bit set.
LEMMA Seq_GuestAccess ==
    ASSUME LInv, NEW a \in Addrs, NEW w \in BOOLEAN, GuestAccess(a, w)
    PROVE  SeqInv' /\ MarkInv' /\ ReportInv' /\ ClearInv'
<1> DEFINE e == Translation(a)
<1>1. /\ vcpu = Runner /\ e # None /\ (w => e.w)
      /\ tlb' = [tlb EXCEPT ![a] = e]
      /\ unreported' = IF w THEN unreported \cup (LoggedBy(e.mem) \X {e.page} \X {"guest"})
                       ELSE unreported
      /\ UNCHANGED <<slotVars, dirty, pc, slot, shadow, vcpu>>
  BY DEF GuestAccess, Permits
<1>2. e \in {tlb[a], shadow[a]}
  BY DEF Translation
<1> HIDE DEF e
<1>3. /\ \A t \in Tasks : pc[t] = "idle"
      /\ Settled
  BY <1>1 DEF LInv, SeqInv, Settled
<1>4. e.w => Marked(e)
  BY <1>1, <1>2, <1>3 DEF LInv, MarkInv
<1>5. SeqInv' /\ ClearInv'
  BY <1>1, <1>3 DEF LInv, SeqInv, ClearInv
<1>6. ReportInv'
  <2>1. ASSUME w, NEW b \in LoggedBy(e.mem) PROVE e.page \in dirty[b]
    BY <1>1, <1>4, <2>1 DEF LoggedBy, Marked
  <2> QED BY <1>1, <2>1 DEF LInv, ReportInv, Written
<1>7. /\ \A d : Exact(d)' <=> Exact(d)
      /\ \A d : Marked(d)' <=> Marked(d)
  BY <1>1 DEF Exact, Marked, gfn_to_memslot
<1>8. \A h \in Addrs : tlb'[h] = IF h = a THEN e ELSE tlb[h]
  BY <1>1 DEF LInv, IInv, TypeOK
<1>9. MarkInv'
  BY <1>1, <1>3, <1>4, <1>7, <1>8 DEF LInv, MarkInv
<1> QED BY <1>5, <1>6, <1>9

\* mark_page_dirty only sets bits, and sets the bit of the page that the frame is
\* translated to.
LEMMA MarkSets ==
    ASSUME LInv, NEW g \in Gfns
    PROVE  /\ \A b \in Bitmaps : dirty[b] \subseteq mark_page_dirty(g)[b]
           /\ \A s \in gfn_to_memslot(g) :
                 memslots[s].bitmap # None
                    => g - memslots[s].base \in mark_page_dirty(g)[memslots[s].bitmap]
<1>1. \A s \in gfn_to_memslot(g) : memslots[s].bitmap \in Bitmaps \cup {None}
  BY DEF LInv, IInv, TypeOK, Slot, gfn_to_memslot
<1> QED BY <1>1 DEF mark_page_dirty

\* page_fault and fix_write_pf: what becomes writable is marked.
LEMMA Seq_Fault ==
    ASSUME LInv, NEW a \in Addrs, NEW e \in Entry \cup {None}, vcpu = Runner,
           shadow' = [shadow EXCEPT ![a] = e],
           e # None => Exact(e),
           IF e # None /\ e.w THEN dirty' = mark_page_dirty(e.gfn)
                              ELSE UNCHANGED dirty,
           tlb' = NoMap, UNCHANGED <<slotVars, pc, slot, vcpu, unreported>>
    PROVE  SeqInv' /\ MarkInv' /\ ReportInv' /\ ClearInv'
<1>1. /\ \A t \in Tasks : pc[t] = "idle"
      /\ Settled
  BY DEF LInv, SeqInv, Settled
<1>2. SeqInv' /\ ClearInv'
  BY <1>1 DEF LInv, SeqInv, ClearInv
<1>0. e # None => e.gfn \in Gfns
  BY DEF Entry
<1>3. \A b \in Bitmaps : dirty[b] \subseteq dirty'[b]
  BY <1>0, MarkSets
<1>4. ReportInv'
  <2>1. \A u \in Written : u[1] \in Bitmaps
    BY DEF LInv, IInv, TypeOK, Written
  <2> QED BY <1>3, <2>1 DEF LInv, ReportInv, Written
<1>5. \A s \in Slots : memslots[s].bitmap \in Bitmaps \cup {None}
  BY DEF LInv, IInv, TypeOK, Slot
<1>6. /\ \A d : Exact(d)' <=> Exact(d)
      /\ \A d : Marked(d) => Marked(d)'
  BY <1>3, <1>5 DEF Exact, Marked, gfn_to_memslot
<1>7. e # None /\ e.w => Marked(e)'
  <2> SUFFICES ASSUME e # None, e.w PROVE Marked(e)'
    OBVIOUS
  <2>1. PICK s \in gfn_to_memslot(e.gfn) : /\ e.mem = memslots[s].mem
                                           /\ e.page = e.gfn - memslots[s].base
    BY DEF Exact
  <2>2. s \in Slots /\ e.mem # None
    BY NullAssumption DEF gfn_to_memslot, Entry
  <2>3. \A u \in Slots : memslots[u].mem = e.mem => u = s
    BY <2>1, <2>2 DEF LInv, IInv, MemInv, Owned, SlotMem
  <2>4. memslots[s].bitmap # None => e.page \in dirty'[memslots[s].bitmap]
    BY <1>0, <2>1, MarkSets
  <2> QED BY <2>3, <2>4 DEF Marked
<1>8. \A b \in Addrs : shadow'[b] = IF b = a THEN e ELSE shadow[b]
  BY DEF LInv, IInv, TypeOK
<1>9. MarkInv'
  BY <1>1, <1>6, <1>7, <1>8, NoMapOK DEF LInv, MarkInv
<1> QED BY <1>2, <1>4, <1>9

\* The steps of the guest that change the shadow page table, where the guest's
\* entry names the frame that is mapped.
LEMMA Seq_Guest ==
    ASSUME LInv, Coherent, NEW a \in Addrs,
           \/ \E h \in Gfns, w \in BOOLEAN : MapPage(a, h, w)
           \/ FixWrite(a) \/ DropMapping(a)
    PROVE  SeqInv' /\ MarkInv' /\ ReportInv' /\ ClearInv'
<1>0. /\ vcpu = Runner /\ tlb' = NoMap
      /\ UNCHANGED <<slotVars, pc, slot, vcpu, unreported>>
  BY DEF MapPage, FixWrite, DropMapping
<1>1. ASSUME NEW h \in Gfns, NEW w \in BOOLEAN, MapPage(a, h, w)
      PROVE  SeqInv' /\ MarkInv' /\ ReportInv' /\ ClearInv'
  <2>1. PICK s \in gfn_to_memslot(h), writable \in {w, TRUE} :
          /\ shadow' = [shadow EXCEPT ![a] =
                          [gfn |-> h, mem |-> memslots[s].mem,
                           page |-> h - memslots[s].base, w |-> writable]]
          /\ dirty' = IF writable THEN mark_page_dirty(h) ELSE dirty
    <3>1. {h} \cup (IF w THEN Named[h] ELSE {}) = {h}
      BY DEF Coherent
    <3> QED BY <1>1, <3>1 DEF MapPage
  <2> DEFINE e == [gfn |-> h, mem |-> memslots[s].mem, page |-> h - memslots[s].base,
                   w |-> writable]
  <2>2. s \in Slots /\ memslots[s].npages # 0 /\ h - memslots[s].base \in Gfns
    BY GfnInSlot DEF LInv, IInv
  <2>3. memslots[s].mem \in Arrays
    BY <2>2 DEF LInv, IInv, TypeOK, Slot, SlotInv
  <2>4. e \in Entry /\ e.w = writable /\ e.gfn = h /\ Exact(e)
    BY <2>2, <2>3 DEF Entry, Exact
  <2>5. e # None
    BY <2>4, EntryAssumption
  <2>6. shadow' = [shadow EXCEPT ![a] = e]
    BY <2>1
  <2> HIDE DEF e
  <2> QED BY <1>0, <2>1, <2>4, <2>5, <2>6, Seq_Fault
<1>2. CASE FixWrite(a)
  <2> DEFINE e == [shadow[a] EXCEPT !.w = TRUE]
  <2>1. /\ shadow[a] \in Entry /\ shadow[a] # None
        /\ shadow' = [shadow EXCEPT ![a] = e]
    BY <1>2 DEF LInv, IInv, TypeOK, FixWrite
  <2>2. /\ e \in Entry /\ e.w /\ e.mem = shadow[a].mem /\ e.page = shadow[a].page
        /\ e.gfn = shadow[a].gfn
    BY <2>1 DEF Entry
  <2>3. dirty' = mark_page_dirty(e.gfn)
    BY <1>2, <2>1, <2>2 DEF FixWrite, Coherent, Entry
  <2>4. Exact(shadow[a])
    BY <1>0, <2>1 DEF LInv, SeqInv, MarkInv, Settled
  <2>5. Exact(e)
    BY <2>2, <2>4 DEF Exact
  <2>6. e # None
    BY <2>2, EntryAssumption
  <2> HIDE DEF e
  <2> QED BY <1>0, <2>1, <2>2, <2>3, <2>5, <2>6, Seq_Fault
<1>3. CASE DropMapping(a)
  <2>1. shadow' = [shadow EXCEPT ![a] = None] /\ UNCHANGED dirty
    BY <1>3 DEF DropMapping
  <2> QED BY <1>0, <2>1, Seq_Fault
<1> QED BY <1>1, <1>2, <1>3

\* The release of the file leaves nothing.
LEMMA Seq_Release ==
    ASSUME LInv, Release
    PROVE  SeqInv' /\ MarkInv' /\ ReportInv' /\ ClearInv'
<1>1. /\ \A t \in Tasks : pc[t] = "idle"
      /\ UNCHANGED <<pc, vcpu>> /\ unreported' = {}
      /\ shadow' = NoMap /\ tlb' = NoMap
  BY DEF Release, AllIdle
<1> QED BY <1>1, NoMapOK DEF SeqInv, MarkInv, ReportInv, ClearInv, Written

-----------------------------------------------------------------------------
(* The property.                                                             *)

\* The invariant is inductive if user space issues one call at a time and the
\* guest's entries name the frames that are mapped.
LEMMA NextLInv ==
    ASSUME Threaded = FALSE, Coherent, LInv, [Next]_vars
    PROVE  LInv'
<1>1. IInv'
  BY NextIInv DEF LInv
<1>2. CASE UNCHANGED vars
  BY <1>1, <1>2, Seq_MachineQuiet DEF LInv
<1>3. CASE Machine
  BY <1>1, <1>3, Seq_MachineQuiet, Seq_GuestAccess, Seq_Guest, Seq_Release
     DEF LInv, Machine
<1>4. ASSUME NEW t \in Tasks, SetMemoryRegion(t) PROVE LInv'
  <2>1. ASSUME NEW q \in Requests, SetStart(t, q)
        PROVE  SeqInv' /\ MarkInv' /\ ReportInv' /\ ClearInv'
    BY <2>1, StartQuiet DEF SetStart
  <2> QED
    BY <1>1, <1>4, <2>1, Seq_SetQuiet, Seq_SetFrees, Seq_SetCommit
       DEF LInv, SetMemoryRegion
<1>5. ASSUME NEW t \in Tasks, GetDirtyLog(t) PROVE LInv'
  <2>1. ASSUME NEW s \in Slots, LogStart(t, s)
        PROVE  SeqInv' /\ MarkInv' /\ ReportInv' /\ ClearInv'
    BY <2>1, StartQuiet DEF LogStart
  <2> QED
    BY <1>1, <1>5, <2>1, Seq_LogQuiet, Seq_LogCopy, Seq_LogWalk, Seq_LogClear
       DEF LInv, GetDirtyLog
<1> QED BY <1>2, <1>3, <1>4, <1>5 DEF Next

\* For a user space of one thread and a guest of small pages that drops what it
\* changes, KVM_GET_DIRTY_LOG loses no write of the guest's instructions: what
\* they wrote since the last report has its bit when the next call is made.
THEOREM DirtyIsNotLost ==
    ASSUME Threaded = FALSE, Coherent
    PROVE  Spec => []DirtyNotLost
<1>1. Init => LInv
  <2>1. Init => SeqInv /\ MarkInv /\ ReportInv /\ ClearInv
    BY NoMapOK DEF Init, SeqInv, MarkInv, ReportInv, ClearInv, Written
  <2> QED BY <2>1, InitIInv DEF LInv
<1>2. LInv /\ [Next]_vars => LInv'
  BY NextLInv
<1>3. LInv => DirtyNotLost
  BY DEF LInv, ReportInv, DirtyNotLost, Missed, Written
<1> QED BY <1>1, <1>2, <1>3, PTL DEF Spec

=============================================================================
