# TLA+ model of the first KVM release (src/2006-11-02)

The repository is a set of notes on KVM with three bodies of code: the first
public release of KVM (`src/src/2006-11-02`: the kernel module, `libkvm` and a
QEMU patch), the compatibility layer of a later kvm-kmod release, and scripts of
a book. The program with logic of its own is the first one, and it is what these
modules model. Paths below are relative to `src/src/2006-11-02/`.

## Inventory

| Component | State | Operations | Hard parts | What makes it correct |
|---|---|---|---|---|
| VMCS placement (`kvm_main.c` 354-627, 1342-1391, 2568-2799) | `vcpu->vmcs/cpu/launched/mutex`, per-cpu `current_vmcs`; in the processor: current, active, launch state | open, release, `KVM_CREATE_VCPU`, `vcpu_load`, `__vcpu_clear` by inter-processor call, VM entry and exit, `vcpu_put`, `kvm_free_vmcs` | migration between cpus, two vcpus on one cpu, interrupts inside `__vcpu_load`, cpus waiting for each other, the mutex dropped in the middle of `KVM_RUN` | a VMCS is active on one cpu; what is loaded is the vcpu's own; the launch state is known; a page is freed when nothing refers to it |
| Memory slots and dirty log (`kvm_main.c` 568-594, 1399-1635, 3276-3295; `mmu.c` 703-721) | `memslots`, `nmemslots`, `memory_config_version`, `busy`, page arrays, bitmaps | `KVM_SET_MEMORY_REGION`, `KVM_GET_DIRTY_LOG`, `mark_page_dirty`, nopage, release | allocation between two critical sections, version check and retry, failing allocations, the vcpu running meanwhile | slots disjoint; one owner per array and bitmap; no mapping of a freed page; no write missing from the log |
| Run loop and injection (`kvm_main.c` 1637-1858, 1923-2532, 2568-2799, 3052-3070) | `irq_pending`, `irq_summary`, `mmio_*`, event, window and interruptibility fields of the VMCS | `KVM_RUN`, exit handlers, injection in protected and real mode, `KVM_INTERRUPT` | interrupts raised at any moment, delivery that faults, signals, retried instructions | no interrupt lost, each delivered; an instruction skipped once, when performed; a read gets its own answer |
| libkvm (`libkvm/kvmctl.c`) | `struct kvm_run` on its stack | `kvm_init`, `kvm_create`, `kvm_run` and its exit handlers | the structure survives a failed ioctl | with the run loop |
| Shadow page tables (`mmu.c`, `paging_tmpl.h`) | pool of shadow pages, table tree, `parent_pte`, `global`, `slot_bitmap` | page fault, `invlpg`, CR3 load, reset, write protection of a slot | the pool runs out in the middle of a walk; the guest changes its tables at any time | the shadow is a translation cache of the guest's tables; no page lost or used twice; every fault is resolved |
| Cpu modes (`kvm_main.c` 664-1051, 1102-1251, 1860-1921, 2100-2385, 2947-3026) | CR0, CR3, CR4, EFER, segments, task register, `rmode`, MMU context | CR, lmsw and EFER writes, `enter_rmode`, `enter_pmode`, `enter_lmode`, `exit_lmode`, `KVM_SET_REGS`, `KVM_SET_SREGS`, `KVM_DEBUG_GUEST` | early returns after `#GP`, order of writes, the mode recorded in six places | VM entry accepts the state; the places agree; what real mode puts away comes back; the MMU context fits |
| Emulator (`x86_emulate.c`, `kvm_main.c` 1656-1858) | registers, `mmio_*`, operands | decode, fetch, execute, write back, commit | leaving for user space in the middle and starting over; repeated instructions | the effect of an instruction is what the processor's would be; each device access once |
| Debug (`debug.c`) | none | `vm_entry_test_guest` | | used as the definition of an acceptable guest state |
| Module life (`kvm_main.c` 491-542, 3322-3417) | VMX on or off per cpu, areas | init, exit, reboot | one step of several failing | not modelled |
| kvm-kmod, book scripts, test driver | | | | not modelled |

The components meet at `vcpu->mutex` (every ioctl on a vcpu), `kvm->lock`
(memory slots, page faults, the shadow page list), `struct kvm_run` (kernel and
libkvm), the VMCS (run loop, placement, memory management) and the per-cpu
variables (placement across virtual machines). `PROJECT.json` lists the hazards
by line.

## Modules

**`VmcsPlacement`** - placement of a VMCS. A task is at a program point `pc`
inside an ioctl `op`; a step ends wherever another cpu or an interrupt can come
in between, so `per_cpu(current_vmcs)` and `vmptrld` are two steps, and
`smp_call_function` is a set `ipi` of cpus on which `__vcpu_clear` is still due.
The processor is external: `vmclear`, `vmptrld` and entry are given by their
effect on `hwCurrent`, `hwActive`, `hwLaunched`. `Spec` has libkvm as the client
(`kvm_create` finishes before anything else starts, one thread per vcpu calls
`kvm_run`, the process ends on the exit reasons libkvm aborts on); `Orderly` is
where this is said, and it is an assumption on user space that the kernel does not
enforce: without it a `KVM_CREATE_VCPU` that fails takes the VMCS away from a
`KVM_RUN` of another thread, which goes on without it and without the mutex.
`KVM_MAX_VCPUS` is 1, so a vcpu stands for its machine.
`MCVmcsPlacement` gives the assignment of threads to machines.

**`MemSlots`** - memory slots, dirty logging and the guest that uses them. A
critical section of `kvm->lock` is one step; each unlocked part of
`kvm_dev_ioctl_set_memory_region` and `kvm_dev_ioctl_get_dirty_log` is a step of
its own. The shadow page table is reduced to what it maps (array, page,
writable, the frame it was made for), and the TLB is a second copy that a VM exit
empties. The guest's own tables are not here: a mapping keeps what they said when
it was made, and `Named` gives the frames the guest's entry may name at a later
write fault, for that is the frame `fix_write_pf` marks in the log while it makes
the old mapping writable. `Coherent` (`Named[h] = {h}`) is a guest of 4K pages that
drops a mapping when it changes the entry. `KernelWrite` stands for the stores of
the kernel on the guest's behalf, which mark nothing: `kvm_write_guest` from
`inject_rmode_irq`, accessed and dirty bits (`paging_tmpl.h` 168, 250), the TSS of
real mode. `unreported` is a history variable: what was written to a logged page
since its bit was last copied to user space, and by whom. `Threaded = FALSE` is a
client with one thread. `MCMemSlots` holds the sets of requests and the guests.
The client that logs itself is left out: what the QEMU process stores through its
own mapping is not counted as missing.

**`RunLoop`** - `KVM_RUN` and the loop of libkvm around it. The guest is any
program: `insn` is its next instruction that needs the host, `saved` the
instructions under the handlers it is in. `owed` is a history variable: the
interrupts that `KVM_INTERRUPT` accepted and the guest has not taken.
`inject_rmode_irq` that finds no stack or no vector reports it in the log and
drops the interrupt; that counts as taken (`InjectRmodeFails`). Callbacks of
libkvm return 0 or, for `halt` and `io_window`, anything: `kvm_run` called
afresh starts with both requests clear, as it does after `UserOther`.
Interrupts are raised only where `vcpu->mutex` is free.

**`ShadowMmu`** - the pool of shadow pages and the tree built from it
(`mmu.c`, `paging_tmpl.h`). A fault is a walk: `pc` is at `fetch`, `fix` or
`check` (or `map` without guest paging), `lvl` and `cur` are the level and the
shadow page it is in, and one turn of a loop is one step, so that running out
of pages (`kvm_mmu_alloc_page`, flush and retry) comes between any two. A shadow
entry keeps the processor's bits `p w u` and the guest's rights in the bits that
are free for software, `sw su`. The guest stores to its own tables whenever it
runs; another thread write-protects a slot. The processor's page walk
(`HwPermits`) is external.

**`GuestTlb`** - the abstract specification of shadow paging: a translation cache
that holds at most one translation per address, taken from the guest's tables at
some time, and forgets what `invlpg`, a CR3 load or a change of mode say. Only
what a remembered translation grants goes through; the guest gets a page fault
only for what its tables forbid. `ShadowMmu` implements it: `eff` is the guest's
tables read together (`Eff`), `tlb` is what the leaf entries remember of the
guest's rights (`Remembered`), `open` is what the processor permits (`Allowed`).
`MCShadowMmu` gives addresses, stores and frames.

**`CpuModes`** - the mode of a vcpu. The vcpu and its VMCS are one record `v`;
a function of the code is an operator from `v` to `v`, and calls are
applications in the order of the code, so that an early return, or a missing
one, shows. Registers are sets of the names of their bits; a segment base counts
paragraphs; DS stands for the four data segments. `save_regs` and `load_regs` of
the QEMU patch, which rebuild segments from flags and back, are operators too,
and the image a guest is loaded from is one that `save_regs` makes (`Images`).
`vm_entry_test_guest` is the code's own list of checks. `own` is a history
variable: the task register and IOPL the guest gave itself. `MCCpuModes` gives
the values moved to registers.

**`InsnDecode`** and **`Emulate`** - the emulator. `InsnDecode` forms the
effective address of a ModRM and SIB byte as a symbol (registers summed,
displacement, segment by the last prefix, length after rip) and selects registers; next to it stands
the architecture's definition by tables (`Ref...`). `Emulate` runs a decoded
instruction through the stages of `x86_emulate_memop`, each a step: fetch the
destination, fetch the source, execute, write back, with the memory operations
of `emulate_ops` deciding whether a stage goes on, leaves for user space or
fails. `Outcome` is what a processor does, and `GuestExecutes` lets the
processor take iterations that touch no device. `MCEmulate` gives encodings,
instructions and registers.

**`VmcsPlacementProofs`**, **`RunLoopProofs`**, **`MemSlotsProofs`**,
**`CpuModesProofs`**, **`ShadowMmuProofs`**, **`EmulateProofs`** - the inductive
invariant of the module they are named after and the proofs from it.
**`DirtyLogProofs`** goes on from `MemSlotsProofs` with what holds for a client of one
thread only, **`ShadowTlbProofs`** from `ShadowMmuProofs` with the refinement of
`GuestTlb`. A module of proofs has the invariant first (`EmulateProofs` after the
operators), then lemmas about the operators, then one lemma per action, then the
theorems.

Actions carry the name of the function they model, or of the part of it; the
`map` of `PROJECT.json` has the lines. Definitions marked `Mutant` are
deliberately wrong variants of the definition after them, kept to show that the
properties can fail.

## Runs

| Run | Shows | Bounds |
|---|---|---|
| `VmcsPlacement` | the six placement properties; cpus that call each other do not wait for ever | 2 cpus, 2 machines of 1 thread each (the proofs have any number of threads), 2 pages: migration both ways, two vcpus meeting on a cpu, a page freed and used again by the other machine |
| `MemSlots` | slots, ownership, no use after free | 2 slots that collide, 2 frames, 2 addresses whose entries change at any time, 2 arrays, 2 bitmaps, 2 threads and a running vcpu, 3 changes |
| `MemSlotsSeq` | no write of the guest missing from the dirty log, for one thread and a `Coherent` guest | 2 slots of different size that move over 3 frames, 2 addresses, 1 thread, 3 changes |
| `RunLoop` | no interrupt lost, summary exact, skip exact | 3 interrupts in 2 words of 2 bits, 3 raised, handlers nest twice |
| `RunLoopLive` | every interrupt is taken | 2 interrupts in 2 words, no memory-mapped I/O, no nesting |
| `ShadowMmu` | the pool and the tree are sound, headers agree with entries, rights stay bounded, every fault ends, `GuestTlb` is implemented | 3 addresses under 2 top-level entries, 4 shadow pages (a walk needs up to 3, so two walks do not fit), 2 frames of memory and 2 of I/O, large and small, global and private pages, 2 stores to the tables |
| `CpuModes` | VM entry accepts what every handler leaves; the records of the mode agree; a refused write changes nothing; the architecture's rules for mode bits | every combination of PE, PG, PAE, LME and LMA that the guest can ask for, with one reserved bit each; kernel, user, 16-bit and 64-bit segments; a task register of each kind |
| `Emulate` | decoding and execution are the architecture's; repetition; nothing half done on failure; an instruction ends | all ModRM bytes with memory, SIB bytes that have a special register, three modes, ten prefix strings, all REX; 23 operations in the widths they have, 5 placements of device, memory and unmapped pages, one of them a move from the device to an unmapped page, RCX 0 and 2, four answers |

In `RunLoop` a word has two bits, so that two interrupts share a word and a
third has another; 64 bits add nothing, for the code treats words alike.
In `MemSlots` a third array is never in use with these requests (the run has the
same number of states with three), and the history variable is left out of the
fingerprint (`WithoutHistory`): no guard reads it. `MaxVersion`, `MaxRaises`,
`MaxNest` and `MaxChanges` bound counters; three changes of the memory configuration
are enough for a thread to be overtaken, retry, and be overtaken again. In `Emulate` registers have four bits and a
value of 1, 2, 4 or 8 bytes has 1 to 4 of them: enough for a byte to have a high
form, for a 4-byte write to clear the rest and for pointers to wrap. `MaxAcc`
bounds the device accesses recorded of one iteration; no instruction makes more
than two. `Emulate` and `EmulateFault` stop when their instruction is done, so
they are run without the check for deadlock.

### Findings

Each of these runs is expected to be violated; `PROJECT.json` quotes the line of
the repository that the property states.

- `DirtyLogRace`: a bit set between `copy_to_user` and `memset` is cleared
  unreported, and the page is writable already, so later writes are lost too.
- `DirtyLogLarge`: with one thread and a large guest page, the first write to a
  page after a report goes through `fix_write_pf`, which marks the first frame of
  the large page and not the one written (`paging_tmpl.h` 248). A small page whose
  entry the guest changed without `invlpg` is marked wrong in the same way.
- `RunLoopMmioIrq`: an interrupt between a memory-mapped read and its retry
  makes a read in the handler take the answer.
- `EmulateFault`: the emulator reports a fault of an access
  (`X86EMUL_PROPAGATE_FAULT`) that nobody injects; the instruction is started
  over, and reads the device again, for ever.

More places where the code is not what one expects were met while modelling. The
models follow the code there, unless the place is named as left out.

Placement and memory:

- "Cannot fail - no vcpu unplug yet" (`kvm_main.c` 2791) is said of the reload in the
  middle of `KVM_RUN`, but a `KVM_CREATE_VCPU` of the same vcpu that fails in the
  meantime frees the VMCS (left out by `Orderly`: libkvm never does that);
- `kvm_write_guest` and the other stores of the kernel for the guest never call
  `mark_page_dirty` (`KernelWrite`; `DirtyNotLost` is about the guest's own writes);
- an empty slot takes part in the overlap check with the base it last had, so a
  region around that base is refused (`NoOverlap`);
- `kvm_mmu_reset_context` runs without `kvm->lock`, while
  `kvm_mmu_slot_remove_write_access` walks the same list with it, and
  `kvm_dev_nopage` reads `memslots` without it;
- the loop of `kvm_dev_ioctl_get_dirty_log` that looks for a dirty page counts
  bytes and indexes words, and an array of pages filled in part is freed as if it
  were full (left out);
- `emulate_instruction` and `handle_invlpg` leave sti/mov ss blocking in place,
  `skip_emulated_instruction` removes it.

Shadow page tables:

- with `PTTYPE` 32 a 4 MB page has two shadow leaf tables and `invlpg` drops one
  (left out: `ShadowMmu` is `PTTYPE` 64);
- an entry with the G bit survives a CR3 load whatever CR4.PGE is.

Cpu modes:

- `set_cr4` goes on after its last `#GP` (the exception in `GpChangesNothing`);
  `handle_cr` skips the instruction that got the `#GP`;
- `enter_pmode` takes CR4.VME from the read shadow of CR0 (`kvm_main.c` 700);
- `exit_lmode` leaves LME and LMA in the MSR area;
- `update_exception_bitmap` drops the debug exception that `KVM_DEBUG_GUEST` asked
  for;
- `enter_rmode` fixes neither the limit of CS nor a base above 1 MB. The guest of
  the model switches from 16-bit segments (`LeavesFrom16Bit`), as the processor's
  manual tells it to; otherwise VM entry fails;
- `rmode.tr` and `save_iopl` are not among the registers user space can save, and
  the unusable bit of a segment is lost on the way;
- `vm_entry_test` returns 0 whatever its two halves found, and `kvm_vcpu_setup`
  returns 0 when `init_rmode_tss` failed (left out).

Emulator:

- encodings in `Misdecoded`: a prefix given twice is undone; REX.B turns "no base"
  into r13; EBP and ESP do not select SS; the immediate of `test` is not counted
  after a rip-relative address; FS and GS have base 0 in 64-bit mode;
- `movsx` from a byte selects a high byte register as its destination;
- a destination that keeps its value is not written, so a device misses the write
  and a 32-bit register keeps its upper half (`lazy` in `AsArch`); `cmov` that is
  not taken does the same;
- `cmpxchg` compares in the reverse order and sets CF from that;
- a repeat count is RCX whatever the address size, and `bt` with a memory operand
  ignores the offset in the register (both left out);
- `pop` with a memory operand takes 8 bytes in 64-bit mode whatever the operand
  size (`x86_emulate.c` 925-927), where a processor takes 2 with the prefix 66
  (`Mispopped`, excluded from `AsArch`), and cuts the stack pointer to the address
  size, where a processor uses that of the stack (a `pop` with the prefix 67 is
  left out by `InsnsAssumption`);
- `push` always fails: `emulator_write_std` does nothing;
- a string move from a device to memory is written by user space, past the dirty
  log of the kernel.

### Fairness

`VmcsPlacement`: a pending inter-processor call is taken on one of its cpus if it
can be again and again (strong: a guest exits on the interrupt, the host enables
interrupts on every exit), and a task that disabled preemption runs on (weak).
Nothing is assumed of preemptible code, of the mutex, or of `kvm_free_vmcs`.

`RunLoop`: kernel and user space run on (weak); host interrupts come while the
guest runs, but the guest executes an instruction in the end, whatever faults
and exits come before (strong); the guest returns from its handlers and enables
interrupts again and again, and executes the instruction after sti (strong:
assumptions on the guest without which no hypervisor delivers); the delivery of
an event does not fault for ever (strong: a fault is fixed in the shadow page
table or the guest's handler maps the page).

`ShadowMmu`: the fault handler runs on (weak); nothing is assumed of the guest,
nor of the thread that write-protects slots. `Emulate`: the vcpu thread and the
devices go on (weak on the whole next-state relation: nothing there competes). An
instruction that comes to a `movs` from a device to a page that is not mapped
(`Stuck`) never ends, whatever the fairness; `InstructionCompletes` leaves it out and
run `EmulateFault` shows it.

## Proofs

`VmcsPlacementProofs` proves for every set of cpus, vcpus, threads and pages,
from the assumptions that `Cpu0` is a cpu, `VcpuOf` a function and `None`
different from all of them:

- `Invariance`, `TypeCorrect`;
- `NeverActiveTwice`, `LoadedVmcsIsCurrent`, `EntryFits`, `HostStateFits`,
  `FreedPagesForgotten` and the action property `FreedPagesInactive`: the six
  safety properties of run `VmcsPlacement`, for the client of `Spec`.

None of the properties is inductive. The invariant `IInv` adds: the mutex is held
exactly at the program points between lock and unlock (`MutexInv`); a cpu carries
one non-preemptible task (`PinInv`); create and release are alone on their vcpu
and there is one `KVM_RUN` (`AloneInv`); a vcpu owns its page alone (`PageInv`);
outside a move a VMCS is active at most on `vcpu->cpu` (`HomeInv`), and during a
move only on cpus whose call is still due, on which every other conjunct turns
(`MovingInv`); `current_vmcs` equals the processor's pointer but for the moment
between the assignment and the vmptrld (`CurrentInv`, `LoadingInv`);
`vcpu->launched` is the launch state but while a call clears it, while the guest
runs, and after an entry with invalid guest state (`LaunchInv`); the host state
is that of `vcpu->cpu` (`HostInv`). There is one lemma per action.

`RunLoopProofs`: `TypeCorrect`, `SummaryIsExact`, `NoIrqIsLost`,
`SkipsArePerformed`, for every set of vectors, word size, set of device addresses
and depth of handlers. Assumed: vectors are numbers, a word has bits, `None` is no
vector, address or instruction. The properties need `NestInv` (there is room for a
handler whenever an event may be delivered, so that delivery never fails) and
`ExitInv` (a request that user space has to serve belongs to the instruction the
guest is at, and `emulated` is not set before it is served): without it a second
`KVM_RUN` could skip an instruction nobody performed. `StackInv` says of every
interrupted instruction what holds of the current one. That `__ffs` exists for a
word that is not zero is the least-number principle.

`MemSlotsProofs`: `TypeCorrect`, `SlotsStayDisjoint`, `StorageIsOwned`,
`MappedIsLive`, `BitmapIsLive`, for every number of threads, slots, frames, arrays
and bitmaps. Assumed: the set of threads is finite, a request passed the checks of
the ioctl (the flag for logging counts only with pages), `None` is no array,
bitmap, thread or mapping. `SlotsStayDisjoint` rests on the argument by version: a
snapshot whose version is still current is still true (`SnapInv`), so what the
check said of the overlap holds at the commit. `StorageIsOwned` is inductive as
`Owned`, which adds that a slot and a call never hold the same pointer. A mapped
page is in a slot or in the hands of a call that is going to reset the mappings
(`Backed`), and `kvm->busy` counts the calls that read a log (`CountInv`), so no
commit takes the bitmap from under one (`LogInv`).

`DirtyLogProofs`: `DirtyIsNotLost`, of what the guest's instructions write, under the
hypotheses `Threaded = FALSE` and `Coherent`; runs `DirtyLogRace` and `DirtyLogLarge`
show that the property fails without the one and without the other. The invariant
ties a writable mapping to a set bit (`MarkInv`, outside the interval between a commit
and the reset of the mappings) and says that once the walk of
`kvm_dev_ioctl_get_dirty_log` is over no page of the slot is writable (`ClearInv`).

`CpuModesProofs`: `TypeCorrect`, `EntryIsAccepted`, `ModesDoAgree`, `TaskIsKept`,
`MmuDoesMatch` and the action properties `FaultIsClean`, `ModeStepsAllowed`, for
every set of values moved to CR0, CR4, EFER and the segments. Assumed: the values
are sets of the modelled bits (`ValuesAssumption`). The operators take a vcpu to a
vcpu, so the argument is about records: `Kept(x)` holds between any two ioctls,
`Fit(x)` whenever the guest may run, each function has a lemma that gives the
fields of its result and one that says which of the two it keeps. In the middle of
`KVM_SET_REGS` and `KVM_SET_SREGS` only `Kept` holds; that the vcpu is fit again at
the end needs `ImageInv`: what QEMU loads was saved from a fit vcpu. The images of
`save_regs` are shown to be of that kind by the same lemmas.

`ShadowMmuProofs`: `TypeCorrect`, `PoolIsSound`, `TreeIsSound`, `WalkStaysOnPath`,
`HeadersAreExact`, `RightsAreBounded` and the action property `MmioIsEmulated`, for
every finite pool of at least three pages, every set of addresses and slots and
every guest table. Assumed: `NoPage` is no page and no parent, and each entry the
guest stores names a guest frame (`TablesAssumption`; the code reports other frames
as I/O through `gfn_to_memslot`, and the frames of the model include I/O frames). The
invariant speaks of a tree for any root, headers and tables (`Tree`), because a
flush, a freed page and a new root change all three at once: an entry and the
`parent` of the page it refers to say the same in both directions, the tree ends
two levels under the root, only leaf pages have leaf entries. There is one lemma
per way a tree changes: a new tree, a page added, leaf pages taken out, an entry
of a leaf written, write bits cleared. `EntryOK` relates an entry to the header of
its page and to the guest's rights. `Walk` says that the walk holds a page on the
path of its address, `Checked` what `fix_write_pf` and `fix_read_pf` have tried
when the check comes, from which `MmioIsEmulated` follows. The proofs need one
page only; three, the length of a path, are what `FaultHandled` needs.

`ShadowTlbProofs`: `ShadowImplementsTlb`, the refinement of `GuestTlb` by `ShadowMmu`,
under the same assumptions and one more: `Absent` is no translation
(`AbsentAssumption`). What the cache remembers of an address depends on the leaf
its walk ends in alone (`LeafAt`), so the proof first says what each way of changing
the tree does to the leaf of every address: nothing (`AddSame`), drop it
(`DropFades`), rewrite that of one address (`EditOne`; that two addresses never share
a leaf is `OnePlace`). Each action then maps to one step of the cache: a walk that
ends in `set_pte` to `Fill`, `fix_write_pf` to `MarkDirty` or, when the guest has
taken its entry away in the meantime, to `Forget`; `fix_read_pf` and the write protection of
a slot to `Forget`, for the dirty bit has to be looked up again. The refinement needs
more than `IInv`. `CacheInv`, proved invariant as `CacheInvariance`, adds: with CR0.WP
set a writable leaf has `sw` (`SuperOK`; `set_cr0` keeps it by dropping all leaves);
a leaf of a large page is under a directory entry with the mark `ps` (`BigOK`; else
`invlpg` would leave the rest of the page behind); a walk through an entry that was
present knows that the entry refuses the access, or that the guest's page is gone
(`FaultInv`; else a fault that was none would go to the guest).

`EmulateProofs`: `EmulateInvariant`, `DecodeTheorem`, `AsArchTheorem`,
`FailCleanTheorem` and `RepTheorem`, for every set of encodings and of decoded
instructions, every state they start in, every content and layout of memory and
every answer of a device. Assumed: what the fields of an encoding can be, prefixes
given any number of times (`EncodingsAssumption`); what operations the forms of
operands have and the exclusions that the comment at `InsnsAssumption` explains;
registers keep the four bits of the model.

- `DecodeTheorem` compares two definitions, the code's and the tables of the
  architecture, mode by mode and byte by byte. That a prefix is found by parity or
  by presence makes no difference unless it is given twice (`ParityIsHas`).
- `AsArchTheorem` is the long one. The instruction starts over after every exit, so
  the invariant says of each stage what is known then: nothing is committed
  (`Untouched`), a device that the instruction reads has answered or will be asked
  for exactly that address and width (`Pending`, `Asking`), the operands are those
  of the architecture (`Fetched`, `Ready`), and what is left to do at "writeback"
  gives the effect (`Writeback0`, `Ends`). The effect itself is computed operation
  by operation in the lemmas `Effect...` (what the processor does) and
  `Computes...`, `Special...` (what the code does). The write is the last thing an
  instruction asks of user space, with everything else committed (`Writing`).
- A `pop` that is `Mispopped` is not claimed to be the processor's. The invariant
  says of every instruction that it ends in `Done`, which is `Effect` but for such a
  `pop`, where it is what the emulator does (`DoneIs`).
- A `movs` from a device to a page that is not mapped (`Stuck`) is read again and
  again and never committed; the invariant has no claim on what it reads, and run
  `EmulateFault` shows it going round.
- `FailCleanTheorem` is `Untouched`.
- `RepTheorem` needs `RepInv`: at the beginning of an iteration the count says how far
  pointers and log are. Pointers are given by a closed formula (`Along`), which one
  more iteration extends (`AlongStep`). `Expected` is a recursive function; that
  it has a value for each of the 16 counts is shown one count after the other
  (`ExpectedIs`), which four-bit registers make possible without induction.

Only model-checked: liveness (`LoadCompletes`, `IrqDelivered`, `FaultHandled`,
`InstructionCompletes`), which is out of the prover's reach, and what a run expects
to be violated.

## Plan

All modules of the plan are written, and every safety invariant and action property that a
run checks is proved but those of the runs that expect a violation. What is left to
model is below.

## Not modelled

- Module load, unload and reboot: one thread, a fixed order of steps.
- Exits on which libkvm ends the process (failed entry, unknown exit, exception):
  they end a behaviour of `RunLoop`.
- In `ShadowMmu`: two-level guest tables (`PTTYPE` 32), the accessed bit, a top-level
  entry that is absent (its level has no rights of its own in three-level mode);
  the dirty bitmap is in `MemSlots`.
- In `CpuModes`: CR8, debug registers and MSRs other than EFER, which change no
  mode; the host half of `vm_entry_test`.
- In `Emulate`: logical operations, shifts and bit tests, which take the path of
  `add`; `lgdt`, `lidt`, `mov cr` and `lmsw`, which touch no emulated memory
  (`CpuModes` has the last two); `cmpxchg8b` of a 32-bit build.
- Copies: general registers, `KVM_TRANSLATE`, debug dumps.
- The size of a dirty bitmap in bits, bytes and words.
- The device models of QEMU, the libkvm test driver and its guests.
- kvm-kmod, which is packaging of another kernel release: macros and replacements
  for kernel functions without state of their own. Scripts and notes.
