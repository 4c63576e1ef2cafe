--------------------------- MODULE MemSlotsProofs ---------------------------
(***************************************************************************)
(* The inductive invariant of MemSlots and the proofs that rest on it, for *)
(* every number of slots, frames, threads, arrays and bitmaps.             *)
(***************************************************************************)
EXTENDS MemSlots, TLAPS, FiniteSetTheorems

InLog == {t \in Tasks : pc[t] \in LogPCs}

\* Before the commit of KVM_SET_MEMORY_REGION.
AheadPCs == {"snapshot", "alloc", "enomem", "commit"}
Ahead == {t \in Tasks : pc[t] \in AheadPCs}

\* kvm->busy counts the threads in KVM_GET_DIRTY_LOG, and the bound on the
\* version leaves room for every change under way.
CountInv ==
    /\ busy = Cardinality(InLog)
    /\ memory_config_version + Cardinality(Ahead) <= MaxVersion

\* The argument of a call passed the checks.
ReqInv == \A t \in Tasks : pc[t] \in SetPCs => req[t] \in Requests

\* A snapshot whose version is still current is still true: memslots only
\* changes together with memory_config_version.
SnapInv ==
    \A t \in Tasks :
        pc[t] \in {"alloc", "enomem", "commit"} =>
            /\ ver[t] <= memory_config_version
            /\ ver[t] = memory_config_version
                => old[t] = memslots[req[t].slot] /\ NoOverlap(req[t])

\* What is about to be committed.
NewInv ==
    \A t \in Tasks :
        pc[t] = "commit" => /\ new[t].base = req[t].base
                            /\ new[t].npages = req[t].npages
                            /\ new[t].npages # 0 => new[t].mem # None

\* A slot that was never set is zero, and one with pages has an array.
SlotInv ==
    \A s \in Slots :
        /\ s >= nmemslots => memslots[s] = EmptySlot
        /\ memslots[s].npages # 0 => memslots[s].mem # None

\* Each allocated pointer has exactly one owner: a slot, or a task.
Owned(alive, inSlot, held) ==
    /\ \A a \in alive : \/ \E s \in Slots : inSlot[s] = a
                        \/ \E t \in Tasks : a \in held[t]
    /\ \A s \in Slots : inSlot[s] # None => inSlot[s] \in alive
    /\ \A t \in Tasks : held[t] \subseteq alive
    /\ \A s, u \in Slots : s # u /\ inSlot[s] = inSlot[u] => inSlot[s] = None
    /\ \A t \in Tasks, s \in Slots : inSlot[s] \notin held[t]
    /\ \A t, u \in Tasks : t # u => held[t] \cap held[u] = {}
    /\ None \notin alive

SlotMem == [s \in Slots |-> memslots[s].mem]
SlotMap == [s \in Slots |-> memslots[s].bitmap]
TaskMem == [t \in Tasks |-> HeldMem(t)]
TaskMap == [t \in Tasks |-> HeldMap(t)]

MemInv == Owned(live, SlotMem, TaskMem)
BitmapInv == Owned(maps, SlotMap, TaskMap)

\* An array that may be mapped: it is in a slot, or was in one that a task is
\* about to reset the mappings of.
Backed(m) ==
    \/ \E s \in Slots : memslots[s].mem = m
    \/ \E t \in Tasks : pc[t] \in {"load", "reset"} /\ m \in HeldMem(t)

\* There is nothing in the TLB outside KVM_RUN, and nothing is mapped before the
\* vcpu is created.
ShadowInv ==
    /\ \A a \in Addrs : shadow[a] # None => Backed(shadow[a].mem)
    /\ \A a \in Addrs : tlb[a] # None => Backed(tlb[a].mem)
    /\ ~created => shadow = NoMap /\ vcpu # Runner
    /\ vcpu # Runner => tlb = NoMap

\* The slot whose log is read keeps its bitmap.
LogInv ==
    \A t \in Tasks : pc[t] \in {"scan", "copy", "lock", "walk", "clear"}
                       => DirtyBitmap(t) # None

IInv == /\ TypeOK /\ CountInv /\ ReqInv /\ SnapInv /\ NewInv /\ SlotInv
        /\ SlotsDisjoint /\ MemInv /\ BitmapInv /\ ShadowInv /\ LogInv

-----------------------------------------------------------------------------
(* Counting tasks.                                                           *)

\* A step of one task changes the number of tasks in a region of the code by
\* what the task itself does.
LEMMA CountStep ==
    ASSUME NEW t \in Tasks, NEW label, NEW P,
           pc \in [Tasks -> {"idle"} \cup SetPCs \cup LogPCs],
           Goto(t, label)
    PROVE  LET n == Cardinality({u \in Tasks : pc[u] \in P})
               m == Cardinality({u \in Tasks : pc'[u] \in P}) IN
           /\ n \in 0 .. Cardinality(Tasks) /\ m \in 0 .. Cardinality(Tasks)
           /\ m = n + (IF label \in P THEN 1 ELSE 0)
                    - (IF pc[t] \in P THEN 1 ELSE 0)
<1> DEFINE A == {u \in Tasks : pc[u] \in P}
           B == {u \in Tasks : pc'[u] \in P}
<1>1. IsFiniteSet(Tasks) /\ A \in SUBSET Tasks /\ B \in SUBSET Tasks
  BY TasksAssumption
<1>2. B = IF label \in P THEN A \cup {t} ELSE A \ {t}
  BY DEF Goto
<1>3. t \in A <=> pc[t] \in P
  OBVIOUS
<1> HIDE DEF A, B
<1>4. IsFiniteSet(A) /\ IsFiniteSet(B)
      /\ Cardinality(A) \in Nat /\ Cardinality(B) \in Nat /\ Cardinality(Tasks) \in Nat
      /\ Cardinality(A) <= Cardinality(Tasks) /\ Cardinality(B) <= Cardinality(Tasks)
  BY <1>1, FS_Subset, FS_CardinalityType
<1>5. Cardinality(A \cup {t}) = IF t \in A THEN Cardinality(A) ELSE Cardinality(A) + 1
  BY <1>4, FS_AddElement
<1>6. Cardinality(A \ {t}) = IF t \in A THEN Cardinality(A) - 1 ELSE Cardinality(A)
  BY <1>4, FS_RemoveElement
<1>7. /\ Cardinality(A) \in 0 .. Cardinality(Tasks)
      /\ Cardinality(B) \in 0 .. Cardinality(Tasks)
      /\ Cardinality(B) = Cardinality(A) + (IF label \in P THEN 1 ELSE 0)
                            - (IF pc[t] \in P THEN 1 ELSE 0)
  BY <1>2, <1>3, <1>4, <1>5, <1>6
<1> QED BY <1>7 DEF A, B

\* The threads in KVM_GET_DIRTY_LOG.
LEMMA LogCount ==
    ASSUME NEW t \in Tasks, NEW label, TypeOK, Goto(t, label)
    PROVE  /\ Cardinality(InLog) \in 0 .. Cardinality(Tasks)
           /\ Cardinality(InLog') \in 0 .. Cardinality(Tasks)
           /\ Cardinality(InLog') = Cardinality(InLog)
                  + (IF label \in LogPCs THEN 1 ELSE 0)
                  - (IF pc[t] \in LogPCs THEN 1 ELSE 0)
<1>1. pc \in [Tasks -> {"idle"} \cup SetPCs \cup LogPCs]
  BY DEF TypeOK
<1> QED BY <1>1, CountStep DEF InLog

\* The threads that may still change the memory configuration.
LEMMA AheadCount ==
    ASSUME NEW t \in Tasks, NEW label, TypeOK, Goto(t, label)
    PROVE  /\ Cardinality(Ahead) \in Nat
           /\ Cardinality(Ahead') \in Nat
           /\ Cardinality(Ahead') = Cardinality(Ahead)
                  + (IF label \in AheadPCs THEN 1 ELSE 0)
                  - (IF pc[t] \in AheadPCs THEN 1 ELSE 0)
<1>1. pc \in [Tasks -> {"idle"} \cup SetPCs \cup LogPCs]
  BY DEF TypeOK
<1>2. /\ Cardinality(Ahead) \in 0 .. Cardinality(Tasks)
      /\ Cardinality(Ahead') \in 0 .. Cardinality(Tasks)
      /\ Cardinality(Ahead') = Cardinality(Ahead)
             + (IF label \in AheadPCs THEN 1 ELSE 0)
             - (IF pc[t] \in AheadPCs THEN 1 ELSE 0)
  BY <1>1, CountStep DEF Ahead
<1> QED BY <1>2

-----------------------------------------------------------------------------
(* Ownership.                                                                *)

\* vmalloc returns a pointer that nobody has.
LEMMA OwnedTake ==
    ASSUME NEW A, NEW S, NEW H, Owned(A, S, H), NEW t \in Tasks, NEW m,
           m \notin A, m # None, H \in [Tasks -> SUBSET A], H[t] = {}
    PROVE  Owned(A \cup {m}, S, [H EXCEPT ![t] = {m}])
BY DEF Owned

\* vfree of all a task holds.
LEMMA OwnedDrop ==
    ASSUME NEW A, NEW S, NEW H, Owned(A, S, H), NEW t \in Tasks,
           H \in [Tasks -> SUBSET A]
    PROVE  Owned(A \ H[t], S, [H EXCEPT ![t] = {}])
BY DEF Owned

\* The commit exchanges the pointer of a slot with that of a task.
LEMMA OwnedSwap ==
    ASSUME NEW A, NEW S, NEW H, Owned(A, S, H), NEW t \in Tasks, NEW s \in Slots,
           NEW o, NEW n, H \in [Tasks -> SUBSET A], DOMAIN S = Slots,
           S[s] = o, H[t] = {n} \ {o, None}
    PROVE  Owned(A, [S EXCEPT ![s] = n], [H EXCEPT ![t] = {o} \ {n, None}])
BY DEF Owned

\* The release frees what the slots have, when no task has anything.
LEMMA OwnedRelease ==
    ASSUME NEW A, NEW S, NEW H, Owned(A, S, H), NEW R, R \subseteq Slots,
           \A s \in Slots \ R : S[s] = None, \A t \in Tasks : H[t] = {}
    PROVE  /\ A \ {S[s] : s \in R} = {}
           /\ Owned({}, [s \in Slots |-> None], H)
BY DEF Owned

-----------------------------------------------------------------------------
(* Frames.                                                                   *)

USE NSlotsAssumption, MaxGfnAssumption, MaxVersionAssumption, NullAssumption
    DEF slotVars, heapVars, setVars, logVars, mmuVars

\* The functions of ownership in terms of the step of one task.
LEMMA TaskStep ==
    ASSUME TypeOK, NEW t \in Tasks, NEW label, Goto(t, label),
           \A u \in Tasks \ {t} : old'[u] = old[u] /\ new'[u] = new[u]
    PROVE  /\ TaskMem' = [TaskMem EXCEPT ![t] = HeldMem(t)']
           /\ TaskMap' = [TaskMap EXCEPT ![t] = HeldMap(t)']
<1>1. \A u \in Tasks \ {t} : pc'[u] = pc[u]
  BY DEF TypeOK, Goto
<1>2. \A u \in Tasks \ {t} : HeldMem(u)' = HeldMem(u) /\ HeldMap(u)' = HeldMap(u)
  BY <1>1 DEF HeldMem, HeldMap
<1> QED BY <1>2 DEF TaskMem, TaskMap

\* Ownership does not change while slots, heap and held pointers do not.
LEMMA OwnedSame ==
    ASSUME MemInv, BitmapInv, UNCHANGED <<memslots, live, maps>>,
           \A t \in Tasks : HeldMem(t)' = HeldMem(t) /\ HeldMap(t)' = HeldMap(t)
    PROVE  MemInv' /\ BitmapInv'
<1>1. SlotMem' = SlotMem /\ SlotMap' = SlotMap
  BY DEF SlotMem, SlotMap
<1>2. TaskMem' = TaskMem /\ TaskMap' = TaskMap
  BY DEF TaskMem, TaskMap
<1> QED BY <1>1, <1>2 DEF MemInv, BitmapInv, Owned

\* What a task holds is allocated.
LEMMA HeldType ==
    ASSUME MemInv, BitmapInv
    PROVE  /\ TaskMem \in [Tasks -> SUBSET live]
           /\ TaskMap \in [Tasks -> SUBSET maps]
           /\ None \notin live /\ None \notin maps
BY DEF MemInv, BitmapInv, Owned, TaskMem, TaskMap

\* A step outside KVM_SET_MEMORY_REGION that leaves the slots and the heap alone
\* preserves what concerns them.
LEMMA Quiet ==
    ASSUME IInv, UNCHANGED <<slotVars, live, maps, setVars>>, TypeOK',
           \A t \in Tasks : \/ pc'[t] = pc[t]
                            \/ {pc[t], pc'[t]} \subseteq {"idle"} \cup LogPCs,
           busy' = Cardinality(InLog'), ShadowInv', LogInv'
    PROVE  IInv'
<1>1. Ahead' = Ahead
  BY DEF Ahead, AheadPCs, LogPCs
<1>2. CountInv'
  BY <1>1 DEF IInv, CountInv
<1>3. \A t \in Tasks : pc'[t] \in SetPCs \/ pc[t] \in SetPCs => pc'[t] = pc[t]
  BY DEF SetPCs, LogPCs
<1>4. ReqInv' /\ SnapInv' /\ NewInv'
  BY <1>3 DEF IInv, ReqInv, SnapInv, NewInv, SetPCs, NoOverlap
<1>5. SlotInv' /\ SlotsDisjoint'
  BY DEF IInv, SlotInv, SlotsDisjoint
<1>6. \A t \in Tasks : HeldMem(t)' = HeldMem(t) /\ HeldMap(t)' = HeldMap(t)
  BY <1>3 DEF HeldMem, HeldMap, SetPCs
<1>7. MemInv' /\ BitmapInv'
  BY <1>6, OwnedSame DEF IInv
<1> QED BY <1>2, <1>4, <1>5, <1>7 DEF IInv

\* The vcpu and user space's own page faults change no task.
LEMMA QuietMachine ==
    ASSUME IInv, UNCHANGED <<slotVars, busy, live, maps, pc, setVars, logVars>>,
           TypeOK', ShadowInv'
    PROVE  IInv'
<1>1. InLog' = InLog /\ LogInv'
  BY DEF IInv, InLog, LogInv, DirtyBitmap
<1> QED BY <1>1, Quiet DEF IInv, CountInv

-----------------------------------------------------------------------------
(* The vcpu and the mapping of user space.                                   *)

\* What may be mapped depends on the slots and on KVM_SET_MEMORY_REGION alone.
LEMMA BackedSame ==
    ASSUME UNCHANGED <<memslots, pc, old, new>>
    PROVE  \A m : Backed(m)' <=> Backed(m)
BY DEF Backed, HeldMem

\* No mapping at all is a mapping.
LEMMA NoMapOK == NoMap \in [Addrs -> Entry \cup {None}] /\ \A a \in Addrs : NoMap[a] = None
BY DEF NoMap

\* The vcpu is created, loaded, and put with an empty TLB.
LEMMA Step_Vcpu ==
    ASSUME IInv, CreateVcpu \/ RunLoad \/ RunPut
    PROVE  IInv'
<1>1. CASE CreateVcpu
  <2>1. TypeOK'
    BY <1>1 DEF IInv, TypeOK, CreateVcpu
  <2>2. ShadowInv'
    BY <1>1, BackedSame DEF IInv, ShadowInv, CreateVcpu
  <2> QED BY <1>1, <2>1, <2>2, QuietMachine DEF CreateVcpu
<1>2. CASE RunLoad
  <2>1. TypeOK'
    BY <1>2 DEF IInv, TypeOK, RunLoad
  <2>2. ShadowInv'
    BY <1>2, BackedSame DEF IInv, ShadowInv, RunLoad
  <2> QED BY <1>2, <2>1, <2>2, QuietMachine DEF RunLoad
<1>3. CASE RunPut
  <2>1. TypeOK'
    BY <1>3, NoMapOK DEF IInv, TypeOK, RunPut
  <2>2. ShadowInv'
    BY <1>3, NoMapOK, BackedSame DEF IInv, ShadowInv, RunPut
  <2> QED BY <1>3, <2>1, <2>2, QuietMachine DEF RunPut
<1> QED BY <1>1, <1>2, <1>3

\* The TLB takes what is in the shadow page table.
LEMMA Step_GuestAccess ==
    ASSUME IInv, NEW a \in Addrs, NEW w \in BOOLEAN, GuestAccess(a, w)
    PROVE  IInv'
<1> DEFINE e == Translation(a)
<1>1. e \in Entry /\ e \in {shadow[a], tlb[a]} /\ e # None
  BY DEF IInv, TypeOK, GuestAccess, Permits, Translation
<1>2. LoggedBy(e.mem) \subseteq Bitmaps
  BY DEF IInv, TypeOK, LoggedBy, Slot
<1>3. e.page \in Gfns
  BY <1>1 DEF Entry
<1> HIDE DEF e
<1>4. unreported' \in SUBSET (Bitmaps \X Gfns \X Writers)
  BY <1>2, <1>3 DEF IInv, TypeOK, GuestAccess, e, Writers
<1>5. tlb' = [tlb EXCEPT ![a] = e]
  BY DEF GuestAccess, e
<1>6. TypeOK'
  BY <1>1, <1>4, <1>5 DEF IInv, TypeOK, GuestAccess
<1>7. \A h \in Addrs : tlb'[h] \in {tlb[h], shadow[h]}
  BY <1>1, <1>5 DEF IInv, TypeOK
<1>8. ShadowInv'
  BY <1>7, BackedSame DEF IInv, ShadowInv, GuestAccess
<1> QED BY <1>6, <1>8, QuietMachine DEF GuestAccess

\* gfn_to_memslot finds a slot that has the frame.
LEMMA GfnInSlot ==
    ASSUME TypeOK, NEW g \in Gfns, NEW s \in gfn_to_memslot(g)
    PROVE  /\ s \in Slots /\ Covers(memslots[s], g)
           /\ memslots[s].npages # 0
           /\ g - memslots[s].base \in Gfns
<1>1. s \in Slots /\ Covers(memslots[s], g)
  BY DEF gfn_to_memslot
<1>2. memslots[s].base \in Gfns /\ memslots[s].npages \in 0 .. MaxGfn
  BY <1>1 DEF TypeOK, Slot
<1> QED BY <1>1, <1>2 DEF Covers, Gfns

\* mark_page_dirty sets bits of pages.
LEMMA MarkType ==
    ASSUME TypeOK, NEW g \in Gfns
    PROVE  mark_page_dirty(g) \in [Bitmaps -> SUBSET Gfns]
<1>1. \A u \in gfn_to_memslot(g) : g - memslots[u].base \in Gfns
  BY GfnInSlot
<1>2. ASSUME NEW b \in Bitmaps
      PROVE  {g - memslots[s].base :
                s \in {u \in gfn_to_memslot(g) : memslots[u].bitmap = b}} \subseteq Gfns
  BY <1>1
<1> QED BY <1>2 DEF TypeOK, mark_page_dirty

\* What the kernel writes for the guest changes nothing but the history.
LEMMA Step_KernelWrite ==
    ASSUME IInv, NEW h \in Gfns, KernelWrite(h)
    PROVE  IInv'
<1>1. PICK s \in gfn_to_memslot(h) :
        unreported' = unreported \cup (LoggedBy(memslots[s].mem)
                        \X {h - memslots[s].base} \X {"kernel"})
  BY DEF KernelWrite
<1>2. LoggedBy(memslots[s].mem) \subseteq Bitmaps
  BY DEF IInv, TypeOK, LoggedBy, Slot
<1>3. h - memslots[s].base \in Gfns
  BY GfnInSlot DEF IInv
<1>4. unreported' \in SUBSET (Bitmaps \X Gfns \X Writers)
  BY <1>1, <1>2, <1>3 DEF IInv, TypeOK, Writers
<1>5. TypeOK'
  BY <1>4 DEF IInv, TypeOK, KernelWrite
<1>6. ShadowInv'
  BY BackedSame DEF IInv, ShadowInv, KernelWrite
<1> QED BY <1>5, <1>6, QuietMachine DEF KernelWrite

\* page_fault maps a page of a slot; the slot has one.
LEMMA Step_MapPage ==
    ASSUME IInv, NEW a \in Addrs, NEW h \in Gfns, NEW w \in BOOLEAN, MapPage(a, h, w)
    PROVE  IInv'
<1>1. PICK s \in gfn_to_memslot(h), writable \in {w, TRUE},
          m \in {h} \cup (IF w THEN Named[h] ELSE {}) :
          /\ shadow' = [shadow EXCEPT ![a] =
                          [gfn |-> h, mem |-> memslots[s].mem,
                           page |-> h - memslots[s].base, w |-> writable]]
          /\ dirty' = IF writable THEN mark_page_dirty(m) ELSE dirty
  BY DEF MapPage
<1> DEFINE e == [gfn |-> h, mem |-> memslots[s].mem, page |-> h - memslots[s].base,
                 w |-> writable]
<1>2. s \in Slots /\ memslots[s].npages # 0 /\ h - memslots[s].base \in Gfns
  BY GfnInSlot DEF IInv
<1>3. memslots[s].mem \in Arrays \cup {None}
  BY <1>2 DEF IInv, TypeOK, Slot
<1>4. m \in Gfns
  BY NamedAssumption
<1>5. e \in Entry /\ e.mem = memslots[s].mem
  BY <1>2, <1>3 DEF IInv, SlotInv, Entry
<1>6. dirty' \in [Bitmaps -> SUBSET Gfns]
  BY <1>1, <1>4, MarkType DEF IInv, TypeOK
<1> HIDE DEF e
<1>7. shadow' = [shadow EXCEPT ![a] = e]
  BY <1>1 DEF e
<1>8. TypeOK'
  BY <1>5, <1>6, <1>7, NoMapOK DEF IInv, TypeOK, MapPage
<1>9. ShadowInv'
  <2>1. ASSUME NEW b \in Addrs
        PROVE  shadow'[b] \in {e, shadow[b]} /\ tlb'[b] = None
    BY <1>7, NoMapOK DEF IInv, TypeOK, MapPage
  <2>2. Backed(e.mem)
    BY <1>2, <1>5 DEF Backed
  <2> QED BY <2>1, <2>2, BackedSame DEF IInv, ShadowInv, MapPage
<1> QED BY <1>8, <1>9, QuietMachine DEF MapPage

\* fix_write_pf and the release of shadow pages map nothing new.
LEMMA Step_FixOrDrop ==
    ASSUME IInv, NEW a \in Addrs, FixWrite(a) \/ DropMapping(a)
    PROVE  IInv'
<1>1. dirty' \in [Bitmaps -> SUBSET Gfns]
  <2>1. CASE FixWrite(a)
    <3>1. shadow[a] \in Entry
      BY <2>1 DEF IInv, TypeOK, FixWrite
    <3>2. PICK m \in Named[shadow[a].gfn] : dirty' = mark_page_dirty(m)
      BY <2>1 DEF FixWrite
    <3>3. m \in Gfns
      BY <3>1, NamedAssumption DEF Entry
    <3> QED BY <3>2, <3>3, MarkType DEF IInv
  <2>2. CASE DropMapping(a)
    BY <2>2 DEF DropMapping, IInv, TypeOK
  <2> QED BY <2>1, <2>2
<1>2. PICK e \in Entry \cup {None} :
        /\ shadow' = [shadow EXCEPT ![a] = e]
        /\ e # None => shadow[a] # None /\ e.mem = shadow[a].mem
  <2>1. CASE FixWrite(a)
    <3>1. shadow[a] \in Entry
      BY <2>1 DEF IInv, TypeOK, FixWrite
    <3>2. /\ [shadow[a] EXCEPT !.w = TRUE] \in Entry
          /\ [shadow[a] EXCEPT !.w = TRUE].mem = shadow[a].mem
      BY <3>1 DEF Entry
    <3>3. shadow' = [shadow EXCEPT ![a] = [shadow[a] EXCEPT !.w = TRUE]]
      BY <2>1 DEF FixWrite
    <3> QED BY <2>1, <3>2, <3>3 DEF FixWrite
  <2>2. CASE DropMapping(a)
    BY <2>2 DEF DropMapping
  <2> QED BY <2>1, <2>2
<1>3. TypeOK'
  BY <1>1, <1>2, NoMapOK DEF IInv, TypeOK, FixWrite, DropMapping
<1>4. ShadowInv'
  <2>1. ASSUME NEW h \in Addrs
        PROVE  /\ shadow'[h] # None => shadow[h] # None
                                         /\ shadow'[h].mem = shadow[h].mem
               /\ tlb'[h] = None
    BY <1>2, NoMapOK DEF IInv, TypeOK, FixWrite, DropMapping
  <2>2. created /\ created' = created /\ vcpu' = vcpu /\ vcpu = Runner
    BY DEF IInv, ShadowInv, FixWrite, DropMapping
  <2> QED BY <2>1, <2>2, BackedSame DEF IInv, ShadowInv, FixWrite, DropMapping
<1> QED BY <1>3, <1>4, QuietMachine DEF FixWrite, DropMapping

\* kvm_dev_nopage reads.
LEMMA Step_Nopage ==
    ASSUME IInv, NopageGet \/ \E g \in Touched : NopageLookup(g)
    PROVE  IInv'
<1>1. TypeOK'
  BY DEF IInv, TypeOK, NopageGet, NopageLookup, gfn_to_memslot, Slot
<1>2. ShadowInv'
  BY BackedSame DEF IInv, ShadowInv, NopageGet, NopageLookup
<1> QED BY <1>1, <1>2, QuietMachine DEF NopageGet, NopageLookup

-----------------------------------------------------------------------------
(* KVM_GET_DIRTY_LOG.                                                        *)

\* A step inside KVM_GET_DIRTY_LOG leaves busy and what may be mapped alone.
LEMMA QuietLog ==
    ASSUME IInv, NEW t \in Tasks, NEW label \in LogPCs, pc[t] \in LogPCs,
           Goto(t, label), UNCHANGED <<slotVars, busy, live, maps, setVars, slot>>,
           label \in {"scan", "copy", "lock", "walk", "clear"}
              => DirtyBitmap(t) # None,
           TypeOK',
           \A a \in Addrs :
             /\ shadow'[a] # None => shadow[a] # None /\ shadow'[a].mem = shadow[a].mem
             /\ tlb'[a] # None => tlb'[a] = tlb[a],
           UNCHANGED <<created, vcpu>>,
           ~created => shadow' = shadow,
           tlb' \in {tlb, NoMap}
    PROVE  IInv'
<1>1. pc' = [pc EXCEPT ![t] = label]
  BY DEF Goto
<1>2. InLog' = InLog
  BY <1>1 DEF IInv, TypeOK, InLog
<1>3. LogInv'
  BY <1>1 DEF IInv, TypeOK, LogInv, DirtyBitmap
<1>4. \A m : Backed(m)' <=> Backed(m)
  <2>1. \A u \in Tasks : pc'[u] \in {"load", "reset"} <=> pc[u] \in {"load", "reset"}
    BY <1>1 DEF IInv, TypeOK, LogPCs
  <2>2. \A u \in Tasks : HeldMem(u)' = HeldMem(u)
    BY <1>1 DEF IInv, TypeOK, LogPCs, HeldMem
  <2> QED BY <2>1, <2>2 DEF Backed
<1>5. ShadowInv'
  BY <1>4 DEF IInv, ShadowInv
<1>6. \A u \in Tasks : \/ pc'[u] = pc[u]
                       \/ {pc[u], pc'[u]} \subseteq {"idle"} \cup LogPCs
  BY <1>1 DEF IInv, TypeOK
<1> QED BY <1>2, <1>3, <1>5, <1>6, Quiet DEF IInv, CountInv

\* ++kvm->busy.
LEMMA Step_LogStart ==
    ASSUME IInv, NEW t \in Tasks, NEW s \in Slots, LogStart(t, s)
    PROVE  IInv'
<1>1. pc' = [pc EXCEPT ![t] = "lookup"] /\ pc[t] = "idle" /\ Goto(t, "lookup")
  BY DEF LogStart, Goto
<1>2. busy' = Cardinality(InLog') /\ busy' \in 0 .. Cardinality(Tasks)
  <2>1. /\ Cardinality(InLog') = Cardinality(InLog) + 1
        /\ Cardinality(InLog') \in 0 .. Cardinality(Tasks)
    <3>1. "lookup" \in LogPCs /\ pc[t] \notin LogPCs
      BY <1>1 DEF LogPCs
    <3> QED BY <1>1, <3>1, LogCount DEF IInv
  <2> QED BY <2>1 DEF IInv, CountInv, LogStart, RaisedBusy
<1>3. TypeOK'
  BY <1>1, <1>2 DEF IInv, TypeOK, LogStart, LogPCs
<1>4. LogInv'
  BY <1>1 DEF IInv, TypeOK, LogInv, LogStart, DirtyBitmap
<1>5. ShadowInv'
  <2>1. \A u \in Tasks : HeldMem(u)' = HeldMem(u)
    BY <1>1 DEF IInv, TypeOK, HeldMem, LogStart
  <2>2. \A m : Backed(m)' <=> Backed(m)
    BY <1>1, <2>1 DEF IInv, TypeOK, Backed, LogStart
  <2> QED BY <2>2 DEF IInv, ShadowInv, LogStart
<1>6. \A u \in Tasks : \/ pc'[u] = pc[u]
                       \/ {pc[u], pc'[u]} \subseteq {"idle"} \cup LogPCs
  BY <1>1 DEF IInv, TypeOK, LogPCs
<1> QED BY <1>2, <1>3, <1>4, <1>5, <1>6, Quiet DEF LogStart

\* --kvm->busy.
LEMMA Step_LogUnbusy ==
    ASSUME IInv, NEW t \in Tasks, LogUnbusy(t)
    PROVE  IInv'
<1>1. pc' = [pc EXCEPT ![t] = "idle"] /\ pc[t] = "unbusy" /\ Goto(t, "idle")
  BY DEF LogUnbusy, Goto
<1>2. busy' = Cardinality(InLog') /\ busy' \in 0 .. Cardinality(Tasks)
  <2>1. /\ Cardinality(InLog') = Cardinality(InLog) - 1
        /\ Cardinality(InLog') \in 0 .. Cardinality(Tasks)
        /\ Cardinality(InLog) \in Nat
    <3>1. "idle" \notin LogPCs /\ pc[t] \in LogPCs
      BY <1>1 DEF LogPCs
    <3> QED BY <1>1, <3>1, LogCount DEF IInv
  <2> QED BY <2>1 DEF IInv, CountInv, LogUnbusy
<1>3. TypeOK'
  BY <1>1, <1>2 DEF IInv, TypeOK, LogUnbusy, Slots
<1>4. LogInv'
  BY <1>1 DEF IInv, TypeOK, LogInv, LogUnbusy, DirtyBitmap
<1>5. ShadowInv'
  <2>1. \A u \in Tasks : HeldMem(u)' = HeldMem(u)
    BY <1>1 DEF IInv, TypeOK, HeldMem, LogUnbusy
  <2>2. \A m : Backed(m)' <=> Backed(m)
    BY <1>1, <2>1 DEF IInv, TypeOK, Backed, LogUnbusy
  <2> QED BY <2>2 DEF IInv, ShadowInv, LogUnbusy
<1>6. \A u \in Tasks : \/ pc'[u] = pc[u]
                       \/ {pc[u], pc'[u]} \subseteq {"idle"} \cup LogPCs
  BY <1>1 DEF IInv, TypeOK, LogPCs
<1> QED BY <1>2, <1>3, <1>4, <1>5, <1>6, Quiet DEF LogUnbusy

\* Reading, copying and clearing the bitmap, with or without the lock.
LEMMA Step_LogInside ==
    ASSUME IInv, NEW t \in Tasks,
           \/ LogLookup(t) \/ LogScan(t) \/ LogCopy(t) \/ LogCopyFails(t)
           \/ LogLock(t) \/ LogClear(t)
    PROVE  IInv'
<1>1. PICK label \in LogPCs :
        /\ Goto(t, label)
        /\ label \in {"scan", "copy", "lock", "walk", "clear"} => DirtyBitmap(t) # None
  BY DEF IInv, LogInv, LogPCs, LogLookup, LogScan, LogCopy, LogCopyFails, LogLock,
         LogClear
<1>2. /\ pc[t] \in LogPCs
      /\ UNCHANGED <<slotVars, busy, live, maps, setVars, slot, mmuVars, nopage>>
  BY DEF LogPCs, LogLookup, LogScan, LogCopy, LogCopyFails, LogLock, LogClear
<1>3. /\ lock' \in Tasks \cup {None}
      /\ unreported' \subseteq unreported
      /\ \/ dirty' = dirty
         \/ dirty' = [dirty EXCEPT ![DirtyBitmap(t)] = {}]
      /\ \/ any' = any
         \/ any' = [any EXCEPT ![t] = dirty[DirtyBitmap(t)] # {}]
  BY DEF IInv, TypeOK, LogLookup, LogScan, LogCopy, LogCopyFails, LogLock, LogClear
<1>4. any' \in [Tasks -> BOOLEAN] /\ dirty' \in [Bitmaps -> SUBSET Gfns]
  BY <1>3 DEF IInv, TypeOK
<1>5. TypeOK'
  BY <1>1, <1>2, <1>3, <1>4 DEF IInv, TypeOK, Goto
<1> QED BY <1>1, <1>2, <1>5, QuietLog

\* kvm_mmu_slot_remove_write_access changes rights only.
LEMMA Step_LogWalk ==
    ASSUME IInv, NEW t \in Tasks, LogWalk(t)
    PROVE  IInv'
<1>1. PICK more \in SUBSET (Addrs \ Mapping(slot[t])) :
        shadow' = [a \in Addrs |->
                     IF shadow[a] # None /\ a \in Mapping(slot[t]) \cup more
                     THEN [shadow[a] EXCEPT !.w = FALSE] ELSE shadow[a]]
  BY DEF LogWalk
<1>2. ASSUME NEW a \in Addrs
      PROVE  /\ shadow'[a] \in Entry \cup {None}
             /\ shadow'[a] # None => shadow[a] # None /\ shadow'[a].mem = shadow[a].mem
             /\ shadow[a] = None => shadow'[a] = None
  <2>1. shadow[a] \in Entry \cup {None}
    BY DEF IInv, TypeOK
  <2>2. shadow[a] \in Entry => /\ [shadow[a] EXCEPT !.w = FALSE] \in Entry
                               /\ [shadow[a] EXCEPT !.w = FALSE].mem = shadow[a].mem
    BY DEF Entry
  <2> QED BY <1>1, <2>1, <2>2
<1>3. shadow' \in [Addrs -> Entry \cup {None}]
  BY <1>1, <1>2
<1>4. ~created => shadow' = shadow
  BY <1>1, <1>2, <1>3, NoMapOK DEF IInv, ShadowInv, NoMap
<1>5. TypeOK'
  BY <1>3 DEF IInv, TypeOK, LogWalk, Goto, LogPCs
<1>6. Goto(t, "clear") /\ pc[t] = "walk" /\ DirtyBitmap(t) # None
  BY DEF IInv, LogInv, LogWalk
<1> QED BY <1>2, <1>4, <1>5, <1>6, QuietLog DEF LogWalk, LogPCs

\* The TLB is flushed with the vcpu loaded.
LEMMA Step_LogFlush ==
    ASSUME IInv, NEW t \in Tasks, LogFlush(t)
    PROVE  IInv'
<1>1. TypeOK'
  BY NoMapOK DEF IInv, TypeOK, LogFlush, Goto, LogPCs
<1>2. tlb' \in {tlb, NoMap} /\ \A a \in Addrs : tlb'[a] # None => tlb'[a] = tlb[a]
  BY NoMapOK DEF LogFlush
<1> QED BY <1>1, <1>2, QuietLog DEF LogFlush, LogPCs

-----------------------------------------------------------------------------
(* KVM_SET_MEMORY_REGION.                                                    *)

\* A step of one task that leaves slots and mappings alone and does not commit.
LEMMA QuietSet ==
    ASSUME IInv, NEW t \in Tasks, NEW label \in {"idle"} \cup SetPCs,
           pc[t] \in {"idle"} \cup SetPCs, Goto(t, label),
           UNCHANGED <<slotVars, busy, logVars, created, vcpu, shadow, tlb>>,
           pc[t] \notin {"load", "reset"}, label \notin {"load", "reset"},
           \A u \in Tasks \ {t} : /\ req'[u] = req[u] /\ ver'[u] = ver[u]
                                  /\ old'[u] = old[u] /\ new'[u] = new[u],
           TypeOK', MemInv', BitmapInv',
           memory_config_version' + Cardinality(Ahead') <= MaxVersion,
           label \in SetPCs => req'[t] \in Requests,
           label \in {"alloc", "enomem", "commit"} =>
               /\ ver'[t] <= memory_config_version
               /\ ver'[t] = memory_config_version
                   => old'[t] = memslots[req'[t].slot] /\ NoOverlap(req'[t]),
           label = "commit" => /\ new'[t].base = req'[t].base
                               /\ new'[t].npages = req'[t].npages
                               /\ new'[t].npages # 0 => new'[t].mem # None
    PROVE  IInv'
<1>1. \A u \in Tasks : pc'[u] = IF u = t THEN label ELSE pc[u]
  BY DEF IInv, TypeOK, Goto
<1>2. InLog' = InLog
  BY <1>1 DEF InLog, LogPCs, SetPCs
<1>3. CountInv'
  BY <1>2 DEF IInv, CountInv
<1>4. ReqInv' /\ NewInv'
  BY <1>1 DEF IInv, ReqInv, NewInv
<1>5. \A q : NoOverlap(q)' <=> NoOverlap(q)
  BY DEF NoOverlap
<1>6. SnapInv'
  BY <1>1, <1>5 DEF IInv, SnapInv
<1>7. SlotInv' /\ SlotsDisjoint'
  BY DEF IInv, SlotInv, SlotsDisjoint
<1>8. \A m : Backed(m)' <=> Backed(m)
  BY <1>1 DEF Backed, HeldMem
<1>9. ShadowInv'
  BY <1>8 DEF IInv, ShadowInv
<1>10. LogInv'
  BY <1>1 DEF IInv, LogInv, SetPCs, DirtyBitmap
<1> QED BY <1>3, <1>4, <1>6, <1>7, <1>9, <1>10 DEF IInv

\* What the checks of the ioctl let through.
LEMMA RequestOK ==
    ASSUME NEW q \in Requests
    PROVE  /\ q \in Request /\ q.slot \in Slots /\ q.base \in Gfns
           /\ q.npages \in 0 .. MaxGfn /\ q.log \in BOOLEAN
           /\ q.log => q.npages # 0
BY RequestsAssumption DEF Request

\* The call begins: it holds nothing yet.
LEMMA Step_SetStart ==
    ASSUME IInv, NEW t \in Tasks, NEW q \in Requests, SetStart(t, q)
    PROVE  IInv'
<1>1. pc' = [pc EXCEPT ![t] = "snapshot"] /\ pc[t] = "idle" /\ Goto(t, "snapshot")
  BY DEF SetStart, Goto
<1>2. req' = [req EXCEPT ![t] = q] /\ q \in Request
  BY RequestOK DEF SetStart
<1>3. TypeOK'
  BY <1>1, <1>2 DEF IInv, TypeOK, SetStart, SetPCs
<1>4. memory_config_version' + Cardinality(Ahead') <= MaxVersion
  <2>1. Cardinality(Ahead') = Cardinality(Ahead) + 1 /\ Cardinality(Ahead) \in Nat
    <3>1. "snapshot" \in AheadPCs /\ pc[t] \notin AheadPCs
      BY <1>1 DEF AheadPCs
    <3> QED BY <1>1, <3>1, AheadCount DEF IInv
  <2>2. Cardinality(Ahead) <= Cardinality(InSet) /\ Cardinality(InSet) \in Nat
    <3>1. Ahead \in SUBSET InSet /\ InSet \in SUBSET Tasks
      BY DEF Ahead, InSet, AheadPCs, SetPCs
    <3>2. IsFiniteSet(InSet)
      BY <3>1, FS_Subset, TasksAssumption
    <3> QED BY <3>1, <3>2, FS_Subset, FS_CardinalityType
  <2> QED BY <2>1, <2>2 DEF IInv, TypeOK, SetStart
<1>5. \A u \in Tasks : HeldMem(u)' = HeldMem(u) /\ HeldMap(u)' = HeldMap(u)
  BY <1>1 DEF IInv, TypeOK, HeldMem, HeldMap, SetStart
<1>6. MemInv' /\ BitmapInv'
  BY <1>5, OwnedSame DEF IInv, SetStart
<1>7. req'[t] \in Requests /\ \A u \in Tasks \ {t} : req'[u] = req[u]
  BY <1>2 DEF IInv, TypeOK
<1> QED BY <1>1, <1>3, <1>4, <1>6, <1>7, QuietSet DEF SetStart, SetPCs

\* The slot is copied together with the version.
LEMMA Step_Snapshot ==
    ASSUME IInv, NEW t \in Tasks, Snapshot(t)
    PROVE  IInv'
<1>1. pc' = [pc EXCEPT ![t] = "alloc"] /\ pc[t] = "snapshot" /\ Goto(t, "alloc")
  BY DEF Snapshot, Goto
<1>2. req[t] \in Requests /\ req[t].slot \in Slots
  BY <1>1, RequestOK DEF IInv, ReqInv, SetPCs
<1>3. /\ old' = [old EXCEPT ![t] = memslots[req[t].slot]]
      /\ ver' = [ver EXCEPT ![t] = memory_config_version]
      /\ NoOverlap(req[t])
  BY DEF Snapshot
<1>4. TypeOK'
  BY <1>1, <1>2, <1>3 DEF IInv, TypeOK, Snapshot, SetPCs
<1>5. memory_config_version' + Cardinality(Ahead') <= MaxVersion
  <2>1. "alloc" \in AheadPCs /\ pc[t] \in AheadPCs
    BY <1>1 DEF AheadPCs
  <2>2. Cardinality(Ahead') = Cardinality(Ahead)
    BY <1>1, <2>1, AheadCount DEF IInv
  <2> QED BY <2>2 DEF IInv, CountInv, Snapshot
<1>6. \A u \in Tasks : HeldMem(u)' = HeldMem(u) /\ HeldMap(u)' = HeldMap(u)
  BY <1>1, <1>3 DEF IInv, TypeOK, HeldMem, HeldMap, Snapshot
<1>7. MemInv' /\ BitmapInv'
  BY <1>6, OwnedSame DEF IInv, Snapshot
<1>8. /\ old'[t] = memslots[req[t].slot] /\ ver'[t] = memory_config_version
      /\ \A u \in Tasks \ {t} : old'[u] = old[u] /\ ver'[u] = ver[u]
  BY <1>3 DEF IInv, TypeOK
<1>9. /\ UNCHANGED <<slotVars, busy, logVars, created, vcpu, shadow, tlb, req, new>>
      /\ memory_config_version \in Nat
  BY DEF IInv, TypeOK, Snapshot
<1> QED BY <1>1, <1>2, <1>3, <1>4, <1>5, <1>7, <1>8, <1>9, QuietSet DEF SetPCs

\* kvm_free_physmem_slot(a, b) frees what the task holds, once, and nothing else.
LEMMA FreeOK ==
    ASSUME IInv, NEW t \in Tasks, NEW a \in Slot, NEW b \in Slot,
           kvm_free_physmem_slot(a, b),
           HeldMem(t) = {a.mem} \ {b.mem, None},
           HeldMap(t) = {a.bitmap} \ {b.bitmap, None},
           NEW label \in {"idle", "snapshot"}, Goto(t, label), UNCHANGED memslots,
           \A u \in Tasks \ {t} : old'[u] = old[u] /\ new'[u] = new[u]
    PROVE  /\ MemInv' /\ BitmapInv'
           /\ live' \in SUBSET Arrays /\ maps' \in SUBSET Bitmaps
           /\ dirty' \in [Bitmaps -> SUBSET Gfns]
           /\ unreported' \in SUBSET (Bitmaps \X Gfns \X Writers)
<1>1. HeldMem(t)' = {} /\ HeldMap(t)' = {}
  BY DEF IInv, TypeOK, Goto, HeldMem, HeldMap
<1>2. /\ TaskMem' = [TaskMem EXCEPT ![t] = {}]
      /\ TaskMap' = [TaskMap EXCEPT ![t] = {}]
  BY <1>1, TaskStep DEF IInv
<1>3. SlotMem' = SlotMem /\ SlotMap' = SlotMap
  BY DEF SlotMem, SlotMap
<1>4. /\ TaskMem \in [Tasks -> SUBSET live] /\ TaskMap \in [Tasks -> SUBSET maps]
      /\ None \notin live /\ None \notin maps
      /\ TaskMem[t] = HeldMem(t) /\ TaskMap[t] = HeldMap(t)
  BY HeldType DEF IInv, TaskMem, TaskMap
<1>5. live' = live \ TaskMem[t] /\ maps' = maps \ TaskMap[t]
  BY <1>4 DEF kvm_free_physmem_slot
<1>6. MemInv'
  BY <1>2, <1>3, <1>4, <1>5, OwnedDrop DEF IInv, MemInv
<1>7. BitmapInv'
  BY <1>2, <1>3, <1>4, <1>5, OwnedDrop DEF IInv, BitmapInv
<1>8. dirty' \in [Bitmaps -> SUBSET Gfns] /\ unreported' \subseteq unreported
  BY DEF IInv, TypeOK, kvm_free_physmem_slot
<1> QED BY <1>5, <1>6, <1>7, <1>8 DEF IInv, TypeOK

\* The zeroed locals are of their types.
LEMMA ZeroOK == EmptySlot \in Slot /\ NoRequest \in Request /\ 0 \in Slots
BY DEF EmptySlot, NoRequest, Slot, Request, Slots, Gfns

\* The call returns, after it freed what it held.
LEMMA SetReturnOK ==
    ASSUME IInv, NEW t \in Tasks, SetReturn(t),
           pc[t] \in {"snapshot", "enomem", "commit", "free"},
           UNCHANGED <<slotVars, busy, lock, logVars, mmuVars, nopage>>,
           MemInv', BitmapInv',
           live' \in SUBSET Arrays, maps' \in SUBSET Bitmaps,
           dirty' \in [Bitmaps -> SUBSET Gfns],
           unreported' \in SUBSET (Bitmaps \X Gfns \X Writers)
    PROVE  IInv'
<1>1. pc' = [pc EXCEPT ![t] = "idle"] /\ Goto(t, "idle")
  BY DEF SetReturn, Goto
<1>2. TypeOK'
  BY <1>1, ZeroOK DEF IInv, TypeOK, SetReturn
<1>3. memory_config_version' + Cardinality(Ahead') <= MaxVersion
  <2>1. "idle" \notin AheadPCs
    BY DEF AheadPCs
  <2>2. /\ Cardinality(Ahead) \in Nat /\ Cardinality(Ahead') \in Nat
        /\ Cardinality(Ahead') <= Cardinality(Ahead)
    BY <1>1, <2>1, AheadCount DEF IInv
  <2> QED BY <2>2 DEF IInv, CountInv, TypeOK
<1>4. \A u \in Tasks \ {t} : /\ req'[u] = req[u] /\ ver'[u] = ver[u]
                             /\ old'[u] = old[u] /\ new'[u] = new[u]
  BY DEF IInv, TypeOK, SetReturn
<1> QED BY <1>1, <1>2, <1>3, <1>4, QuietSet DEF SetPCs

\* -EINVAL and -EEXIST.
LEMMA Step_SnapshotRefused ==
    ASSUME IInv, NEW t \in Tasks, SnapshotRefused(t)
    PROVE  IInv'
<1>1. \A u \in Tasks : HeldMem(u)' = HeldMem(u) /\ HeldMap(u)' = HeldMap(u)
  BY DEF IInv, TypeOK, SnapshotRefused, SetReturn, Goto, HeldMem, HeldMap
<1>2. MemInv' /\ BitmapInv'
  BY <1>1, OwnedSame DEF IInv, SnapshotRefused
<1> QED BY <1>2, SetReturnOK DEF IInv, TypeOK, SnapshotRefused

\* -ENOMEM, -EAGAIN and success: every way out frees the pointers it holds.
LEMMA Step_SetLeave ==
    ASSUME IInv, NEW t \in Tasks, FreeNew(t) \/ CommitBusy(t) \/ SetFree(t)
    PROVE  IInv'
<1>1. SetReturn(t) /\ Goto(t, "idle")
  BY DEF FreeNew, CommitBusy, SetFree, SetReturn
<1>2. \A u \in Tasks \ {t} : old'[u] = old[u] /\ new'[u] = new[u]
  BY <1>1 DEF IInv, TypeOK, SetReturn
<1>3. old[t] \in Slot /\ new[t] \in Slot
  BY DEF IInv, TypeOK
<1>4. UNCHANGED <<slotVars, busy, lock, logVars, mmuVars, nopage>>
  BY DEF FreeNew, CommitBusy, SetFree
<1>5. CASE FreeNew(t) \/ CommitBusy(t)
  <2>1. /\ kvm_free_physmem_slot(new[t], old[t])
        /\ HeldMem(t) = {new[t].mem} \ {old[t].mem, None}
        /\ HeldMap(t) = {new[t].bitmap} \ {old[t].bitmap, None}
        /\ pc[t] \in {"enomem", "commit"}
    BY <1>5 DEF FreeNew, CommitBusy, HeldMem, HeldMap
  <2> QED BY <1>1, <1>2, <1>3, <1>4, <2>1, FreeOK, SetReturnOK
<1>6. CASE SetFree(t)
  <2>1. /\ kvm_free_physmem_slot(old[t], new[t])
        /\ HeldMem(t) = {old[t].mem} \ {new[t].mem, None}
        /\ HeldMap(t) = {old[t].bitmap} \ {new[t].bitmap, None}
        /\ pc[t] = "free"
    BY <1>6 DEF SetFree, HeldMem, HeldMap
  <2> QED BY <1>1, <1>2, <1>3, <1>4, <2>1, FreeOK, SetReturnOK
<1> QED BY <1>5, <1>6

\* The version changed: free, and take a new snapshot.
LEMMA Step_Raced ==
    ASSUME IInv, NEW t \in Tasks, Raced(t)
    PROVE  IInv'
<1>1. /\ pc' = [pc EXCEPT ![t] = "snapshot"] /\ pc[t] = "commit"
      /\ Goto(t, "snapshot")
      /\ old' = [old EXCEPT ![t] = EmptySlot] /\ new' = [new EXCEPT ![t] = EmptySlot]
      /\ UNCHANGED <<slotVars, busy, lock, req, ver, logVars, mmuVars, nopage>>
  BY DEF Raced, Goto
<1>2. old[t] \in Slot /\ new[t] \in Slot /\ req[t] \in Requests
  BY <1>1 DEF IInv, TypeOK, ReqInv, SetPCs
<1>3. \A u \in Tasks \ {t} : old'[u] = old[u] /\ new'[u] = new[u]
  BY <1>1 DEF IInv, TypeOK
<1>4. /\ kvm_free_physmem_slot(new[t], old[t])
      /\ HeldMem(t) = {new[t].mem} \ {old[t].mem, None}
      /\ HeldMap(t) = {new[t].bitmap} \ {old[t].bitmap, None}
  BY DEF Raced, RacedFree, HeldMem, HeldMap
<1>5. /\ MemInv' /\ BitmapInv'
      /\ live' \in SUBSET Arrays /\ maps' \in SUBSET Bitmaps
      /\ dirty' \in [Bitmaps -> SUBSET Gfns]
      /\ unreported' \in SUBSET (Bitmaps \X Gfns \X Writers)
  BY <1>1, <1>2, <1>3, <1>4, FreeOK
<1>6. TypeOK'
  BY <1>1, <1>5, ZeroOK DEF IInv, TypeOK, SetPCs
<1>7. memory_config_version' + Cardinality(Ahead') <= MaxVersion
  <2>1. "snapshot" \in AheadPCs /\ pc[t] \in AheadPCs
    BY <1>1 DEF AheadPCs
  <2>2. Cardinality(Ahead') = Cardinality(Ahead)
    BY <1>1, <2>1, AheadCount DEF IInv
  <2> QED BY <1>1, <2>2 DEF IInv, CountInv
<1> QED BY <1>1, <1>2, <1>3, <1>5, <1>6, <1>7, QuietSet DEF SetPCs

\* Allocation under no lock: the snapshot may be stale, the new pointers are not
\* anybody's.
LEMMA AllocOK ==
    ASSUME IInv, NEW t \in Tasks, NEW m \in Arrays \cup {None},
           NEW b \in Bitmaps \cup {None}, NEW label \in {"enomem", "commit"},
           pc[t] = "alloc", Goto(t, label),
           new' = [new EXCEPT ![t] = NewSlot(req[t], m, b)],
           m \in {None, old[t].mem} \/ m \notin live,
           b \in {None, old[t].bitmap} \/ b \notin maps,
           live' = live \cup ({m} \ {old[t].mem, None}),
           maps' = maps \cup ({b} \ {old[t].bitmap, None}),
           label = "commit" /\ req[t].npages # 0 => m # None,
           UNCHANGED <<slotVars, busy, lock, dirty, req, old, ver, logVars, mmuVars,
                       nopage, unreported>>
    PROVE  IInv'
<1>1. req[t] \in Requests
  BY DEF IInv, ReqInv, SetPCs
<1>2. NewSlot(req[t], m, b) \in Slot /\ new'[t] = NewSlot(req[t], m, b)
  BY <1>1, RequestOK DEF IInv, TypeOK, NewSlot, Slot
<1>3. TypeOK'
  BY <1>2 DEF IInv, TypeOK, Goto, SetPCs
<1>4. memory_config_version' + Cardinality(Ahead') <= MaxVersion
  <2>1. label \in AheadPCs /\ pc[t] \in AheadPCs
    BY DEF AheadPCs
  <2>2. Cardinality(Ahead') = Cardinality(Ahead)
    BY <2>1, AheadCount DEF IInv
  <2> QED BY <2>2 DEF IInv, CountInv
<1>5. /\ HeldMem(t)' = {m} \ {old[t].mem, None}
      /\ HeldMap(t)' = {b} \ {old[t].bitmap, None}
      /\ HeldMem(t) = {} /\ HeldMap(t) = {}
  BY <1>2 DEF IInv, TypeOK, Goto, HeldMem, HeldMap, NewSlot
<1>6. \A u \in Tasks \ {t} : new'[u] = new[u]
  BY DEF IInv, TypeOK
<1>7. /\ TaskMem' = [TaskMem EXCEPT ![t] = HeldMem(t)']
      /\ TaskMap' = [TaskMap EXCEPT ![t] = HeldMap(t)']
  BY <1>6, TaskStep DEF IInv
<1>8. SlotMem' = SlotMem /\ SlotMap' = SlotMap
  BY DEF SlotMem, SlotMap
<1>9. /\ TaskMem \in [Tasks -> SUBSET live] /\ TaskMap \in [Tasks -> SUBSET maps]
      /\ TaskMem[t] = {} /\ TaskMap[t] = {}
  BY <1>5, HeldType DEF IInv, TaskMem, TaskMap
<1>10. MemInv'
  <2>1. CASE m \in {None, old[t].mem}
    <3>1. TaskMem' = TaskMem /\ live' = live
      BY <1>5, <1>7, <1>9, <2>1
    <3> QED BY <1>8, <3>1 DEF IInv, MemInv, Owned
  <2>2. CASE m \notin {None, old[t].mem}
    <3>1. /\ TaskMem' = [TaskMem EXCEPT ![t] = {m}] /\ live' = live \cup {m}
          /\ m \notin live /\ m # None
      BY <1>5, <1>7, <2>2
    <3>2. Owned(live, SlotMem, TaskMem)
      BY DEF IInv, MemInv
    <3>3. Owned(live \cup {m}, SlotMem, [TaskMem EXCEPT ![t] = {m}])
      BY <1>9, <3>1, <3>2, OwnedTake
    <3> QED BY <1>8, <3>1, <3>3 DEF MemInv
  <2> QED BY <2>1, <2>2
<1>11. BitmapInv'
  <2>1. CASE b \in {None, old[t].bitmap}
    <3>1. TaskMap' = TaskMap /\ maps' = maps
      BY <1>5, <1>7, <1>9, <2>1
    <3> QED BY <1>8, <3>1 DEF IInv, BitmapInv, Owned
  <2>2. CASE b \notin {None, old[t].bitmap}
    <3>1. /\ TaskMap' = [TaskMap EXCEPT ![t] = {b}] /\ maps' = maps \cup {b}
          /\ b \notin maps /\ b # None
      BY <1>5, <1>7, <2>2
    <3>2. Owned(maps, SlotMap, TaskMap)
      BY DEF IInv, BitmapInv
    <3>3. Owned(maps \cup {b}, SlotMap, [TaskMap EXCEPT ![t] = {b}])
      BY <1>9, <3>1, <3>2, OwnedTake
    <3> QED BY <1>8, <3>1, <3>3 DEF BitmapInv
  <2> QED BY <2>1, <2>2
<1>12. label = "commit" => /\ new'[t].base = req[t].base
                           /\ new'[t].npages = req[t].npages
                           /\ new'[t].npages # 0 => new'[t].mem # None
  BY <1>2 DEF NewSlot
<1>13. /\ ver[t] <= memory_config_version
       /\ ver[t] = memory_config_version
             => old[t] = memslots[req[t].slot] /\ NoOverlap(req[t])
  BY DEF IInv, SnapInv
<1> QED BY <1>1, <1>3, <1>4, <1>6, <1>10, <1>11, <1>12, <1>13, QuietSet DEF SetPCs

\* All the memory is there.
LEMMA Step_Alloc ==
    ASSUME IInv, NEW t \in Tasks, Alloc(t)
    PROVE  IInv'
<1>1. req[t] \in Requests
  BY DEF IInv, ReqInv, SetPCs, Alloc
<1>2. PICK m \in Pointers(req[t].npages # 0, old[t].mem, Arrays \ live),
           b \in Pointers(req[t].log, old[t].bitmap, Bitmaps \ maps) :
        /\ new' = [new EXCEPT ![t] = NewSlot(req[t], m, b)]
        /\ live' = live \cup ({m} \ {old[t].mem, None})
        /\ maps' = maps \cup ({b} \ {old[t].bitmap, None})
  BY DEF Alloc
<1>3. old[t].mem \in Arrays \cup {None} /\ old[t].bitmap \in Bitmaps \cup {None}
  BY DEF IInv, TypeOK, Slot
<1>4. /\ m \in Arrays \cup {None} /\ (m \in {None, old[t].mem} \/ m \notin live)
      /\ req[t].npages # 0 => m # None
  BY <1>3 DEF Pointers
<1>5. b \in Bitmaps \cup {None} /\ (b \in {None, old[t].bitmap} \/ b \notin maps)
  BY <1>1, <1>3, RequestOK DEF Pointers
<1> QED BY <1>2, <1>4, <1>5, AllocOK DEF Alloc

\* Some of it is not.
LEMMA Step_AllocFails ==
    ASSUME IInv, NEW t \in Tasks, AllocFails(t)
    PROVE  IInv'
<1>1. req[t] \in Requests /\ (req[t].log => req[t].npages # 0)
  BY RequestOK DEF IInv, ReqInv, SetPCs, AllocFails
<1>2. old[t].mem \in Arrays \cup {None} /\ old[t].bitmap \in Bitmaps \cup {None}
  BY DEF IInv, TypeOK, Slot
<1> DEFINE kept == IF req[t].log THEN old[t].bitmap ELSE None
<1>3. PICK m \in Arrays \cup {None}, b \in {None, old[t].bitmap} :
        /\ new' = [new EXCEPT ![t] = NewSlot(req[t], m, b)]
        /\ live' = live \cup ({m} \ {old[t].mem, None})
        /\ m \in {None, old[t].mem} \/ m \notin live
  <2>1. CASE /\ req[t].npages # 0 /\ old[t].mem = None
             /\ new' = [new EXCEPT ![t] = NewSlot(req[t], None, kept)]
             /\ UNCHANGED live
    BY <2>1
  <2>2. CASE /\ req[t].npages # 0 /\ old[t].mem = None
             /\ \E m \in Arrays \ live :
                  /\ new' = [new EXCEPT ![t] = NewSlot(req[t], m, kept)]
                  /\ live' = live \cup {m}
    BY <2>2
  <2>3. CASE /\ req[t].log /\ old[t].bitmap = None
             /\ \E m \in Pointers(req[t].npages # 0, old[t].mem, Arrays \ live) :
                  /\ new' = [new EXCEPT ![t] = NewSlot(req[t], m, None)]
                  /\ live' = live \cup ({m} \ {old[t].mem})
    <3>1. PICK m \in Pointers(req[t].npages # 0, old[t].mem, Arrays \ live) :
             /\ new' = [new EXCEPT ![t] = NewSlot(req[t], m, None)]
             /\ live' = live \cup ({m} \ {old[t].mem})
      BY <2>3
    <3>2. /\ m \in Arrays \cup {None} /\ (m \in {None, old[t].mem} \/ m \notin live)
          /\ m # None
      BY <1>1, <1>2, <2>3 DEF Pointers
    <3> QED BY <3>1, <3>2
  <2> QED BY <2>1, <2>2, <2>3 DEF AllocFails
<1>4. maps' = maps \cup ({b} \ {old[t].bitmap, None}) /\ b \in Bitmaps \cup {None}
  BY <1>2, <1>3 DEF AllocFails
<1> QED BY <1>3, <1>4, AllocOK DEF AllocFails

\* The commit: with the version unchanged and no dirty log being read, the slot
\* is still the one of the snapshot, and the request still fits.
LEMMA Step_Commit ==
    ASSUME IInv, NEW t \in Tasks, Commit(t)
    PROVE  IInv'
<1> DEFINE k == req[t].slot
<1>1. /\ pc' = [pc EXCEPT ![t] = "load"] /\ pc[t] = "commit" /\ Goto(t, "load")
      /\ memslots' = [memslots EXCEPT ![k] = new[t]]
      /\ nmemslots' = SlotsUpTo(k)
      /\ memory_config_version' = memory_config_version + 1
      /\ UNCHANGED <<busy, lock, heapVars, setVars, logVars, mmuVars, nopage,
                     unreported>>
  BY DEF Commit, Goto
<1>2. /\ req[t] \in Requests /\ k \in Slots /\ NoOverlap(req[t])
      /\ old[t] = memslots[k]
  BY <1>1, RequestOK DEF IInv, ReqInv, SnapInv, SetPCs, Commit, ConfigUnchanged
<1>3. new[t] \in Slot /\ old[t] \in Slot
  BY DEF IInv, TypeOK
<1>4. /\ new[t].base = req[t].base /\ new[t].npages = req[t].npages
      /\ new[t].npages # 0 => new[t].mem # None
  BY <1>1 DEF IInv, NewInv
<1>5. \A s \in Slots : memslots'[s] = IF s = k THEN new[t] ELSE memslots[s]
  BY <1>1, <1>2 DEF IInv, TypeOK
<1> HIDE DEF k
<1>6. InLog = {}
  <2>1. InLog \in SUBSET Tasks /\ IsFiniteSet(InLog)
    BY TasksAssumption, FS_Subset DEF InLog
  <2>2. Cardinality(InLog) = 0
    BY <2>1, FS_CardinalityType DEF IInv, CountInv, Commit, IsBusy
  <2> QED BY <2>1, <2>2, FS_EmptySet
<1>7. InLog' = InLog
  BY <1>1 DEF IInv, TypeOK, InLog, LogPCs
<1>8. memory_config_version' + Cardinality(Ahead') <= MaxVersion
      /\ memory_config_version' \in 0 .. MaxVersion
  <2>1. "load" \notin AheadPCs /\ pc[t] \in AheadPCs
    BY <1>1 DEF AheadPCs
  <2>2. /\ Cardinality(Ahead') = Cardinality(Ahead) - 1
        /\ Cardinality(Ahead) \in Nat /\ Cardinality(Ahead') \in Nat
    BY <1>1, <2>1, AheadCount DEF IInv
  <2> QED BY <1>1, <2>2 DEF IInv, CountInv, TypeOK
<1>9. TypeOK'
  <2>1. memslots' \in [Slots -> Slot]
    BY <1>1, <1>3 DEF IInv, TypeOK
  <2>2. nmemslots' \in 0 .. NSlots
    BY <1>1, <1>2 DEF IInv, TypeOK, SlotsUpTo, Slots
  <2>3. pc' \in [Tasks -> {"idle"} \cup SetPCs \cup LogPCs]
    BY <1>1 DEF IInv, TypeOK, SetPCs
  <2> QED BY <1>1, <1>8, <2>1, <2>2, <2>3 DEF IInv, TypeOK
<1>10. CountInv'
  BY <1>1, <1>7, <1>8 DEF IInv, CountInv
<1>11. ReqInv' /\ NewInv'
  BY <1>1 DEF IInv, TypeOK, ReqInv, NewInv, SetPCs
<1>12. SnapInv'
  <2>1. ASSUME NEW u \in Tasks, pc'[u] \in {"alloc", "enomem", "commit"}
        PROVE  ver'[u] < memory_config_version'
    BY <1>1, <2>1 DEF IInv, TypeOK, SnapInv
  <2>2. memory_config_version' \in Int /\ \A u \in Tasks : ver'[u] \in Int
    BY <1>9 DEF TypeOK
  <2> QED BY <2>1, <2>2 DEF SnapInv
<1>13. SlotInv'
  <2>1. \A s \in Slots : s >= nmemslots' => s >= nmemslots /\ s # k
    BY <1>1, <1>2 DEF IInv, TypeOK, SlotsUpTo, Slots
  <2> QED BY <1>4, <1>5, <2>1 DEF IInv, SlotInv
<1>14. SlotsDisjoint'
  <2>1. ASSUME NEW g \in Gfns, NEW s \in Slots, s # k,
               Covers(memslots[s], g), Covers(new[t], g)
        PROVE  FALSE
    <3>1. Apart(req[t], memslots[s])
      BY <1>2, <2>1 DEF NoOverlap, k
    <3>2. memslots[s] \in Slot
      BY DEF IInv, TypeOK
    <3>3. /\ memslots[s].base \in Int /\ memslots[s].npages \in Int
          /\ new[t].base \in Int /\ new[t].npages \in Int /\ g \in Int
      BY <1>3, <3>2 DEF Slot, Gfns
    <3> QED BY <1>4, <2>1, <3>1, <3>3 DEF Apart, Covers
  <2> QED BY <1>5, <2>1 DEF IInv, SlotsDisjoint
<1>15. /\ HeldMem(t) = {new[t].mem} \ {old[t].mem, None}
       /\ HeldMap(t) = {new[t].bitmap} \ {old[t].bitmap, None}
       /\ HeldMem(t)' = {old[t].mem} \ {new[t].mem, None}
       /\ HeldMap(t)' = {old[t].bitmap} \ {new[t].bitmap, None}
  BY <1>1 DEF IInv, TypeOK, HeldMem, HeldMap
<1>16. /\ TaskMem' = [TaskMem EXCEPT ![t] = {old[t].mem} \ {new[t].mem, None}]
       /\ TaskMap' = [TaskMap EXCEPT ![t] = {old[t].bitmap} \ {new[t].bitmap, None}]
  BY <1>1, <1>15, TaskStep DEF IInv
<1>17. /\ SlotMem' = [SlotMem EXCEPT ![k] = new[t].mem]
       /\ SlotMap' = [SlotMap EXCEPT ![k] = new[t].bitmap]
       /\ SlotMem[k] = old[t].mem /\ SlotMap[k] = old[t].bitmap
       /\ DOMAIN SlotMem = Slots /\ DOMAIN SlotMap = Slots
  BY <1>2, <1>5 DEF SlotMem, SlotMap
<1>18. /\ TaskMem \in [Tasks -> SUBSET live] /\ TaskMap \in [Tasks -> SUBSET maps]
       /\ TaskMem[t] = HeldMem(t) /\ TaskMap[t] = HeldMap(t)
  BY HeldType DEF IInv, TaskMem, TaskMap
<1>19. MemInv'
  <2>1. Owned(live, SlotMem, TaskMem)
    BY DEF IInv, MemInv
  <2>2. Owned(live, SlotMem', TaskMem')
    BY <1>2, <1>15, <1>16, <1>17, <1>18, <2>1, OwnedSwap
  <2> QED BY <1>1, <2>2 DEF MemInv
<1>20. BitmapInv'
  <2>1. Owned(maps, SlotMap, TaskMap)
    BY DEF IInv, BitmapInv
  <2>2. Owned(maps, SlotMap', TaskMap')
    BY <1>2, <1>15, <1>16, <1>17, <1>18, <2>1, OwnedSwap
  <2> QED BY <1>1, <2>2 DEF BitmapInv
<1>21. ASSUME NEW m \in Arrays, Backed(m) PROVE Backed(m)'
  <2>1. CASE \E s \in Slots : s # k /\ memslots[s].mem = m
    BY <1>5, <2>1 DEF Backed
  <2>2. CASE memslots[k].mem = m
    <3>1. CASE new[t].mem = m
      BY <1>2, <1>5, <3>1 DEF Backed
    <3>2. CASE new[t].mem # m
      <4>1. m \in HeldMem(t)' /\ pc'[t] = "load"
        BY <1>1, <1>2, <1>15, <2>2, <3>2 DEF IInv, TypeOK
      <4> QED BY <4>1 DEF Backed
    <3> QED BY <3>1, <3>2
  <2>3. CASE \E u \in Tasks : pc[u] \in {"load", "reset"} /\ m \in HeldMem(u)
    <3>1. PICK u \in Tasks : pc[u] \in {"load", "reset"} /\ m \in HeldMem(u)
      BY <2>3
    <3>2. u # t /\ pc'[u] = pc[u]
      BY <1>1, <3>1 DEF IInv, TypeOK
    <3>3. HeldMem(u)' = HeldMem(u)
      BY <1>1, <3>2 DEF HeldMem
    <3> QED BY <3>1, <3>2, <3>3 DEF Backed
  <2> QED BY <1>21, <2>1, <2>2, <2>3 DEF Backed
<1>22. ShadowInv'
  <2>1. \A a \in Addrs : shadow[a] \in Entry \cup {None} /\ tlb[a] \in Entry \cup {None}
    BY DEF IInv, TypeOK
  <2>2. \A a \in Addrs : /\ shadow[a] # None => shadow[a].mem \in Arrays
                         /\ tlb[a] # None => tlb[a].mem \in Arrays
    BY <2>1 DEF Entry
  <2> QED BY <1>1, <1>21, <2>2 DEF IInv, ShadowInv
<1>23. LogInv'
  BY <1>6, <1>7 DEF LogInv, InLog, LogPCs
<1> QED BY <1>9, <1>10, <1>11, <1>12, <1>13, <1>14, <1>19, <1>20, <1>22, <1>23
        DEF IInv

\* The reset with the vcpu mutex, and the way past a vcpu that is not there:
\* either way nothing of what the task will free is mapped any more.
LEMMA Step_SetReset ==
    ASSUME IInv, NEW t \in Tasks, SetLoad(t) \/ SetReset(t)
    PROVE  IInv'
<1>1. PICK label \in {"reset", "free"} : Goto(t, label)
  BY DEF SetLoad, SetReset
<1>2. /\ pc[t] \in {"load", "reset"}
      /\ UNCHANGED <<slotVars, busy, lock, heapVars, setVars, logVars, created,
                     nopage, unreported>>
  BY DEF SetLoad, SetReset
<1>3. /\ vcpu' \in {vcpu, None, t} /\ shadow' \in {shadow, NoMap} /\ tlb' \in {tlb, NoMap}
  BY DEF SetLoad, SetReset
<1>4. \A u \in Tasks : pc'[u] = IF u = t THEN label ELSE pc[u]
  BY <1>1 DEF IInv, TypeOK, Goto
<1>5. TypeOK'
  BY <1>1, <1>2, <1>3, NoMapOK DEF IInv, TypeOK, Goto, SetPCs
<1>6. InLog' = InLog /\ Ahead' = Ahead
  BY <1>2, <1>4 DEF InLog, Ahead, LogPCs, AheadPCs
<1>7. CountInv' /\ ReqInv' /\ NewInv' /\ SlotInv' /\ SlotsDisjoint'
  BY <1>2, <1>4, <1>6 DEF IInv, CountInv, ReqInv, NewInv, SlotInv, SlotsDisjoint,
                          SetPCs
<1>8. SnapInv' /\ LogInv'
  BY <1>2, <1>4 DEF IInv, SnapInv, LogInv, NoOverlap, DirtyBitmap
<1>9. \A u \in Tasks : HeldMem(u)' = HeldMem(u) /\ HeldMap(u)' = HeldMap(u)
  BY <1>2, <1>4 DEF HeldMem, HeldMap
<1>10. MemInv' /\ BitmapInv'
  BY <1>2, <1>9, OwnedSame DEF IInv
<1>11. ShadowInv'
  <2>1. CASE label = "reset" /\ SetLoad(t)
    <3>1. \A m : Backed(m)' <=> Backed(m)
      BY <1>2, <1>4, <1>9, <2>1 DEF Backed
    <3>2. created /\ shadow' = shadow /\ tlb' = tlb /\ vcpu' # Runner /\ vcpu # Runner
      BY <1>1, <1>2, <2>1, TasksAssumption
         DEF SetLoad, FindsVcpu, Goto, IInv, TypeOK
    <3> QED BY <1>2, <3>1, <3>2 DEF IInv, ShadowInv
  <2>2. CASE label = "free" /\ SetLoad(t)
    <3>1. ~created /\ shadow' = shadow /\ tlb' = tlb /\ vcpu' = None
      BY <1>1, <1>2, <2>2 DEF SetLoad, FindsVcpu, Goto, IInv, TypeOK
    <3>2. shadow' = NoMap /\ tlb' = NoMap
      BY <3>1 DEF IInv, ShadowInv
    <3> QED BY <3>1, <3>2, NoMapOK DEF ShadowInv
  <2>3. CASE SetReset(t)
    BY <2>3, NoMapOK DEF SetReset, ShadowInv
  <2> QED BY <1>1, <2>1, <2>2, <2>3
<1> QED BY <1>5, <1>7, <1>8, <1>10, <1>11 DEF IInv

-----------------------------------------------------------------------------
(* The release of the file, and the whole.                                   *)

\* kvm_free_physmem frees all there is: every slot that is not empty is below
\* nmemslots.
LEMMA Step_Release ==
    ASSUME IInv, Release
    PROVE  IInv'
<1>1. /\ \A t \in Tasks : pc[t] = "idle"
      /\ UNCHANGED <<busy, lock, pc, setVars, logVars, vcpu, nopage>>
      /\ memslots' = [s \in Slots |-> EmptySlot]
      /\ nmemslots' = 0 /\ memory_config_version' = 0
      /\ vcpu = None /\ created' = FALSE /\ shadow' = NoMap /\ tlb' = NoMap
      /\ dirty' = [b \in Bitmaps |-> {}] /\ unreported' = {}
      /\ live' = live \ {memslots[s].mem : s \in ReleasedSlots}
      /\ maps' = maps \ {memslots[s].bitmap : s \in ReleasedSlots}
  BY DEF Release, AllIdle, ZeroedKvm
<1>2. /\ ReleasedSlots \subseteq Slots
      /\ \A s \in Slots \ ReleasedSlots : memslots[s] = EmptySlot
  <2>1. nmemslots \in 0 .. NSlots
    BY DEF IInv, TypeOK
  <2>2. \A s \in Slots : s >= nmemslots => memslots[s] = EmptySlot
    BY DEF IInv, SlotInv
  <2> QED BY <2>1, <2>2 DEF ReleasedSlots, Slots
<1>3. /\ \A t \in Tasks : TaskMem[t] = {} /\ TaskMap[t] = {}
      /\ TaskMem' = TaskMem /\ TaskMap' = TaskMap
  BY <1>1 DEF TaskMem, TaskMap, HeldMem, HeldMap
<1>4. /\ SlotMem' = [s \in Slots |-> None] /\ SlotMap' = [s \in Slots |-> None]
      /\ \A s \in Slots \ ReleasedSlots : SlotMem[s] = None /\ SlotMap[s] = None
  BY <1>1, <1>2 DEF SlotMem, SlotMap, EmptySlot
<1>5. live' = {} /\ MemInv'
  <2>1. Owned(live, SlotMem, TaskMem)
    BY DEF IInv, MemInv
  <2>2. /\ live \ {SlotMem[s] : s \in ReleasedSlots} = {}
        /\ Owned({}, [s \in Slots |-> None], TaskMem)
    <3>1. /\ \A s \in Slots \ ReleasedSlots : SlotMem[s] = None
          /\ \A t \in Tasks : TaskMem[t] = {}
      BY <1>3, <1>4
    <3> QED BY <1>2, <2>1, <3>1, OwnedRelease
  <2>3. {SlotMem[s] : s \in ReleasedSlots} = {memslots[s].mem : s \in ReleasedSlots}
    BY <1>2 DEF SlotMem
  <2>4. live' = {}
    BY <1>1, <2>2, <2>3
  <2> QED BY <1>3, <1>4, <2>2, <2>4 DEF MemInv
<1>6. maps' = {} /\ BitmapInv'
  <2>1. Owned(maps, SlotMap, TaskMap)
    BY DEF IInv, BitmapInv
  <2>2. /\ maps \ {SlotMap[s] : s \in ReleasedSlots} = {}
        /\ Owned({}, [s \in Slots |-> None], TaskMap)
    <3>1. /\ \A s \in Slots \ ReleasedSlots : SlotMap[s] = None
          /\ \A t \in Tasks : TaskMap[t] = {}
      BY <1>3, <1>4
    <3> QED BY <1>2, <2>1, <3>1, OwnedRelease
  <2>3. {SlotMap[s] : s \in ReleasedSlots} = {memslots[s].bitmap : s \in ReleasedSlots}
    BY <1>2 DEF SlotMap
  <2>4. maps' = {}
    BY <1>1, <2>2, <2>3
  <2> QED BY <1>3, <1>4, <2>2, <2>4 DEF BitmapInv
<1>7. TypeOK'
  <2>1. memslots' \in [Slots -> Slot] /\ dirty' \in [Bitmaps -> SUBSET Gfns]
    BY <1>1, ZeroOK
  <2>2. nmemslots' \in 0 .. NSlots /\ memory_config_version' \in 0 .. MaxVersion
    BY <1>1
  <2>3. live' \in SUBSET Arrays /\ maps' \in SUBSET Bitmaps
          /\ unreported' \in SUBSET (Bitmaps \X Gfns \X Writers)
    BY <1>1, <1>5, <1>6
  <2> QED BY <1>1, <2>1, <2>2, <2>3, NoMapOK DEF IInv, TypeOK
<1>8. InLog' = InLog /\ Ahead' = {} /\ Cardinality({}) = 0
  BY <1>1, FS_EmptySet DEF InLog, Ahead, AheadPCs
<1>9. CountInv'
  BY <1>1, <1>8 DEF IInv, CountInv
<1>10. ReqInv' /\ SnapInv' /\ NewInv' /\ LogInv'
  BY <1>1 DEF ReqInv, SnapInv, NewInv, LogInv, SetPCs
<1>11. SlotInv' /\ SlotsDisjoint' /\ ShadowInv'
  BY <1>1, NoMapOK DEF SlotInv, SlotsDisjoint, ShadowInv, EmptySlot, Covers, Gfns
<1> QED BY <1>5, <1>6, <1>7, <1>9, <1>10, <1>11 DEF IInv

\* A zeroed struct kvm satisfies the invariant.
LEMMA InitIInv == Init => IInv
<1> SUFFICES ASSUME Init PROVE IInv
  OBVIOUS
<1>1. /\ memslots = [s \in Slots |-> EmptySlot]
      /\ nmemslots = 0 /\ memory_config_version = 0
  BY DEF Init, ZeroedKvm
<1>2. \A t \in Tasks : pc[t] = "idle"
  BY DEF Init
<1>3. InLog = {} /\ Ahead = {} /\ Cardinality({}) = 0
  BY <1>2, FS_EmptySet DEF InLog, Ahead, LogPCs, AheadPCs
<1>4. Cardinality(Tasks) \in Nat
  BY TasksAssumption, FS_CardinalityType
<1>5. TypeOK
  <2>1. memslots \in [Slots -> Slot] /\ dirty \in [Bitmaps -> SUBSET Gfns]
    BY <1>1, ZeroOK DEF Init
  <2>2. /\ nmemslots \in 0 .. NSlots /\ memory_config_version \in 0 .. MaxVersion
        /\ busy \in 0 .. Cardinality(Tasks)
    BY <1>1, <1>4 DEF Init
  <2>3. /\ live \in SUBSET Arrays /\ maps \in SUBSET Bitmaps
        /\ unreported \in SUBSET (Bitmaps \X Gfns \X Writers)
    BY DEF Init
  <2>4. /\ pc \in [Tasks -> {"idle"} \cup SetPCs \cup LogPCs]
        /\ req \in [Tasks -> Request] /\ old \in [Tasks -> Slot]
        /\ new \in [Tasks -> Slot] /\ slot \in [Tasks -> Slots]
        /\ any \in [Tasks -> BOOLEAN]
    BY ZeroOK DEF Init
  <2>5. ver \in [Tasks -> 0 .. MaxVersion]
    BY DEF Init
  <2> QED BY <2>1, <2>2, <2>3, <2>4, <2>5, NoMapOK DEF Init, TypeOK
<1>6. CountInv
  BY <1>1, <1>3 DEF Init, CountInv
<1>7. ReqInv /\ SnapInv /\ NewInv /\ LogInv
  BY <1>2 DEF ReqInv, SnapInv, NewInv, LogInv, SetPCs
<1>8. SlotInv /\ SlotsDisjoint
  BY <1>1 DEF SlotInv, SlotsDisjoint, EmptySlot, Covers, Gfns
<1>9. ShadowInv
  BY NoMapOK DEF Init, ShadowInv
<1>10. \A t \in Tasks : HeldMem(t) = {} /\ HeldMap(t) = {}
  BY <1>2 DEF HeldMem, HeldMap
<1>11. MemInv /\ BitmapInv
  BY <1>1, <1>10 DEF Init, MemInv, BitmapInv, Owned, SlotMem, SlotMap, TaskMem,
                     TaskMap, EmptySlot
<1> QED BY <1>5, <1>6, <1>7, <1>8, <1>9, <1>11 DEF IInv

\* Every step preserves it.
LEMMA NextIInv ==
    ASSUME IInv, [Next]_vars
    PROVE  IInv'
<1>1. CASE UNCHANGED vars
  <2>1. /\ TypeOK' /\ UNCHANGED <<slotVars, busy, live, maps, pc, setVars, logVars>>
    BY <1>1 DEF vars, IInv, TypeOK
  <2>2. ShadowInv'
    BY <1>1, BackedSame DEF vars, IInv, ShadowInv
  <2> QED BY <2>1, <2>2, QuietMachine
<1>2. CASE Machine
  BY <1>2, Step_Vcpu, Step_GuestAccess, Step_KernelWrite, Step_MapPage, Step_FixOrDrop,
     Step_Nopage, Step_Release DEF Machine
<1>3. ASSUME NEW t \in Tasks, SetMemoryRegion(t) PROVE IInv'
  BY <1>3, Step_SetStart, Step_SnapshotRefused, Step_Snapshot, Step_Alloc,
     Step_AllocFails, Step_SetLeave, Step_Raced, Step_Commit, Step_SetReset
     DEF SetMemoryRegion
<1>4. ASSUME NEW t \in Tasks, GetDirtyLog(t) PROVE IInv'
  BY <1>4, Step_LogStart, Step_LogInside, Step_LogWalk, Step_LogFlush,
     Step_LogUnbusy DEF GetDirtyLog
<1> QED BY <1>1, <1>2, <1>3, <1>4 DEF Next

\* The inductive invariant holds in every reachable state.
THEOREM Invariance == Spec => []IInv
BY InitIInv, NextIInv, PTL DEF Spec

-----------------------------------------------------------------------------
(* The properties.                                                           *)

\* The variables keep their types; in particular kvm->busy is never negative.
THEOREM TypeCorrect == Spec => []TypeOK
<1>1. IInv => TypeOK
  BY DEF IInv
<1> QED BY <1>1, Invariance, PTL

\* No guest frame is ever in two slots, whatever threads race in
\* KVM_SET_MEMORY_REGION between the overlap check and the commit.
THEOREM SlotsStayDisjoint == Spec => []SlotsDisjoint
<1>1. IInv => SlotsDisjoint
  BY DEF IInv
<1> QED BY <1>1, Invariance, PTL

\* Every array and every bitmap has one owner at any time: no path through
\* KVM_SET_MEMORY_REGION leaks, frees twice or shares one.
THEOREM StorageIsOwned == Spec => []StorageOwned
<1>1. ASSUME IInv PROVE StorageOwned
  <2>1. ArraysOwned
    BY <1>1 DEF IInv, MemInv, Owned, SlotMem, TaskMem, ArraysOwned
  <2>2. BitmapsOwned
    BY <1>1 DEF IInv, BitmapInv, Owned, SlotMap, TaskMap, BitmapsOwned
  <2> QED BY <2>1, <2>2 DEF StorageOwned
<1> QED BY <1>1, Invariance, PTL

\* The guest reaches no page of an array that was freed.
THEOREM MappedIsLive == Spec => []MappedLive
<1>1. ASSUME IInv PROVE MappedLive
  <2>1. ASSUME NEW m \in Arrays, Backed(m) PROVE m \in live
    BY <1>1, <2>1 DEF IInv, MemInv, Owned, SlotMem, TaskMem, Backed
  <2>2. \A a \in Addrs : shadow[a] \in Entry \cup {None} /\ tlb[a] \in Entry \cup {None}
    BY <1>1 DEF IInv, TypeOK
  <2>3. \A a \in Addrs : /\ shadow[a] # None => shadow[a].mem \in Arrays
                         /\ tlb[a] # None => tlb[a].mem \in Arrays
    BY <2>2 DEF Entry
  <2> QED BY <1>1, <2>1, <2>3 DEF IInv, ShadowInv, MappedLive
<1> QED BY <1>1, Invariance, PTL

\* kvm->busy keeps the bitmap that KVM_GET_DIRTY_LOG works on outside the lock.
THEOREM BitmapIsLive == Spec => []BitmapLive
<1>1. ASSUME IInv PROVE BitmapLive
  <2>1. \A t \in Tasks : slot[t] \in Slots
    BY <1>1 DEF IInv, TypeOK
  <2> QED BY <1>1, <2>1 DEF IInv, LogInv, BitmapInv, Owned, SlotMap, DirtyBitmap,
                            BitmapLive
<1> QED BY <1>1, Invariance, PTL

=============================================================================
