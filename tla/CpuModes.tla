------------------------------ MODULE CpuModes ------------------------------
(***************************************************************************)
(* The processor modes of a guest (kvm_main.c): control registers, EFER,   *)
(* real mode run as virtual 8086 mode, long mode, and the register ioctls  *)
(* as QEMU uses them (qemu-kvm-1.patch).                                   *)
(*                                                                         *)
(* One vcpu is one record v: the fields of struct kvm_vcpu and of its VMCS *)
(* that decide the mode.  A function of the code that changes the vcpu is  *)
(* an operator from v to v, and calls are applications, in the order of    *)
(* the code.  Every handler runs with the vcpu loaded and the guest        *)
(* stopped, so a handler is one step.                                      *)
(*                                                                         *)
(* A register is the set of the names of its bits.  A segment base counts  *)
(* paragraphs of 16 bytes, which makes "base >> 4" the base itself.        *)
(* The data segments DS, ES, FS and GS go through the same statements      *)
(* everywhere; DS stands for the four.                                     *)
(***************************************************************************)
EXTENDS Naturals

CONSTANTS
    Cr0Values,      \* what the guest moves to CR0
    Cr4Values,      \* what the guest moves to CR4
    MswValues,      \* what the guest loads with lmsw
    EferValues,     \* what the guest writes to MSR_EFER
    NullSelectors   \* whether the guest loads null selectors

ASSUME ValuesAssumption ==
    /\ Cr0Values \subseteq SUBSET {"PE", "PG", "TS", "NW", "CD", "RSV"}
    /\ Cr4Values \subseteq SUBSET {"VME", "PAE", "VMXE", "RSV"}
    /\ MswValues \subseteq SUBSET {"PE", "TS"}
    /\ EferValues \subseteq SUBSET {"LME", "LMA", "RSV"}
    /\ NullSelectors \in BOOLEAN

VARIABLES
    v,      \* the vcpu and its VMCS
    pc,     \* "run", or "load" between the two ioctls of load_regs
    env,    \* the registers QEMU is loading (meaningful at "load")
    own     \* history: the task register and IOPL the guest gave itself

vars == <<v, pc, env, own>>

KVM_VM_CR0_ALWAYS_ON == {"PE", "PG", "WP", "NE"}
KVM_GUEST_CR0_MASK == KVM_VM_CR0_ALWAYS_ON
KVM_GUEST_CR4_MASK == {"PSE", "PAE", "PGE", "VMXE", "VME"}
LMSW_GUEST_MASK == {"MP", "EM", "TS"}

-----------------------------------------------------------------------------
(* Segments.  A descriptor's access rights: type, code or data against     *)
(* system, DPL, present, long, granularity, unusable.                      *)

Ar(type, s, dpl) ==
    [type |-> type, s |-> s, dpl |-> dpl, p |-> TRUE, l |-> FALSE,
     g |-> FALSE, u |-> FALSE]

Data0 == Ar(3, TRUE, 0)      \* 0x93
Code0 == Ar(11, TRUE, 0)     \* 0x9b
Vm86 == Ar(3, TRUE, 3)       \* 0xf3
BusyTss == Ar(11, FALSE, 0)  \* 0x8b, a 32 or 64 bit TSS
BusyTss16 == Ar(3, FALSE, 0) \* 0x83
Ldt == Ar(2, FALSE, 0)       \* 0x82

Seg(sel, base, limit, ar) ==
    [sel |-> sel, base |-> base, limit |-> limit, ar |-> ar]

Rpl(sel) == sel % 4

\* A null selector leaves the segment unusable; the processor ignores and
\* keeps nothing of the rest.
NullSeg ==
    Seg(0, 0, "64K", [type |-> 0, s |-> FALSE, dpl |-> 0, p |-> FALSE,
                      l |-> FALSE, g |-> FALSE, u |-> TRUE])

SegRegs == {"CS", "SS", "DS"}

-----------------------------------------------------------------------------
(* What the code reads.                                                    *)

guest_cr0(x) ==
    (x.cr0rs \cap KVM_GUEST_CR0_MASK) \union (x.cr0 \ KVM_GUEST_CR0_MASK)

guest_cr4(x) ==
    (x.cr4rs \cap KVM_GUEST_CR4_MASK) \union (x.cr4 \ KVM_GUEST_CR4_MASK)

is_paging(x) == "PG" \in guest_cr0(x)
is_pae(x) == "PAE" \in guest_cr4(x)
is_long_mode(x) == x.ia32e
guest_cpl(x) == Rpl(x.seg["CS"].sel)

\* The guest's page directory pointers behind a value of CR3.
pdptrs_have_reserved_bits_set(cr3) == cr3 = "bad"

-----------------------------------------------------------------------------
(* Entering and leaving real mode.                                         *)

inject_gp(x) == [x EXCEPT !.entry = "gp"]

update_exception_bitmap(x) ==
    [x EXCEPT !.bitmap = IF x.rmode.active THEN {"PF", "GP", "DB"} ELSE {"PF"}]

\* The task register and IOPL that enter_rmode put away come back; data
\* segments are emptied, CS keeps base and limit.  The VME bit is taken
\* from CR0_READ_SHADOW, whose bit 0 is PE, still clear here.
\*
\* Mutant: the RPL bits of the real mode CS selector stay.
KeepsRpl(x) ==
    LET y == [x EXCEPT !.rmode.active = FALSE, !.vm = FALSE,
                       !.tr = [x.rmode.tr EXCEPT !.sel = x.tr.sel],
                       !.iopl = x.rmode.iopl,
                       !.cr4 = x.cr4 \ {"VME"}]
    IN  [update_exception_bitmap(y) EXCEPT
            !.seg = [r \in SegRegs |->
                        IF r = "CS" THEN [x.seg[r] EXCEPT !.ar = Code0]
                        ELSE Seg(0, 0, "64K", Data0)]]

enter_pmode(x) ==
    LET y == [x EXCEPT !.rmode.active = FALSE, !.vm = FALSE,
                       !.tr = [x.rmode.tr EXCEPT !.sel = x.tr.sel],
                       !.iopl = x.rmode.iopl,
                       !.cr4 = (x.cr4 \ {"VME"}) \union
                               (IF "PE" \in x.cr0rs THEN {"VME"} ELSE {})]
    IN  [update_exception_bitmap(y) EXCEPT
            !.seg = [r \in SegRegs |->
                        IF r = "CS"
                        THEN [x.seg[r] EXCEPT !.sel = @ - Rpl(@), !.ar = Code0]
                        ELSE Seg(0, 0, "64K", Data0)]]

\* A selector has 16 bits.
Low16(n) == n % 65536

RmodeTr == Seg(0, 131072, "tss", BusyTss)   \* rmode_tss_base: top of slot 0

\* The CS limit is the one segment field that is not brought to its real
\* mode value; the guest is expected to have loaded a 64 KB segment.
enter_rmode(x) ==
    LET y == [x EXCEPT !.rmode = [active |-> TRUE, iopl |-> x.iopl,
                                  tr |-> [x.tr EXCEPT !.sel = 0]],
                       !.tr = [RmodeTr EXCEPT !.sel = x.tr.sel],
                       !.vm = TRUE, !.iopl = 3,
                       !.cr4 = x.cr4 \union {"VME"}]
    IN  [update_exception_bitmap(y) EXCEPT
            !.seg = [r \in SegRegs |->
                        [x.seg[r] EXCEPT
                            !.sel = Low16(x.seg[r].base), !.ar = Vm86,
                            !.limit = IF r = "CS" THEN @ ELSE "64K"]]]

-----------------------------------------------------------------------------
(* Long mode.                                                              *)

set_efer_and_mode(x, efer) ==   \* __set_efer
    [x EXCEPT !.efer = efer, !.ia32e = "LMA" \in efer,
              !.msr = IF "LMA" \in efer THEN efer ELSE efer \ {"LME"}]

enter_lmode(x) ==
    [x EXCEPT !.tr.ar.type = 11, !.efer = @ \union {"LMA"},
              !.msr = @ \union {"LMA", "LME"}, !.ia32e = TRUE]

exit_lmode(x) == [x EXCEPT !.efer = @ \ {"LMA"}, !.ia32e = FALSE]

-----------------------------------------------------------------------------
(* The shadow MMU's context (mmu.c init_kvm_mmu); ShadowMmu models what is *)
(* in it, here only its kind is kept.                                      *)

init_kvm_mmu(x) ==
    CASE ~is_paging(x)   -> "nonpaging"
      [] is_paging(x) /\ is_long_mode(x) -> "paging64"
      [] is_paging(x) /\ ~is_long_mode(x) /\ is_pae(x) -> "paging32E"
      [] OTHER -> "paging32"

kvm_mmu_reset_context(x) == [x EXCEPT !.mmu = init_kvm_mmu(x)]

-----------------------------------------------------------------------------
(* Control registers.  A value that is refused injects #GP and returns.    *)

\* Mutant: enter_rmode on every write with PE clear, also in real mode.
ReentersRmode(x, cr0) ==
    LET a == IF x.rmode.active /\ "PE" \in cr0 THEN enter_pmode(x) ELSE x
        b == IF "PE" \notin cr0 THEN enter_rmode(a) ELSE a
        c == CASE "LME" \in b.efer /\ ~is_paging(b) /\ "PG" \in cr0 -> enter_lmode(b)
               [] "LME" \in b.efer /\ is_paging(b) /\ "PG" \notin cr0 -> exit_lmode(b)
               [] OTHER -> b
    IN  [c EXCEPT !.cr0rs = cr0, !.cr0 = cr0 \union KVM_VM_CR0_ALWAYS_ON]

write_cr0(x, cr0) ==   \* __set_cr0
    LET a == IF x.rmode.active /\ "PE" \in cr0 THEN enter_pmode(x) ELSE x
        b == IF ~a.rmode.active /\ "PE" \notin cr0 THEN enter_rmode(a) ELSE a
        c == CASE "LME" \in b.efer /\ ~is_paging(b) /\ "PG" \in cr0 -> enter_lmode(b)
               [] "LME" \in b.efer /\ is_paging(b) /\ "PG" \notin cr0 -> exit_lmode(b)
               [] OTHER -> b
    IN  [c EXCEPT !.cr0rs = cr0, !.cr0 = cr0 \union KVM_VM_CR0_ALWAYS_ON]

\* The conditions under which set_cr0 refuses a value.
Cr0Refused(x, cr0) ==
    \/ "RSV" \in cr0
    \/ "NW" \in cr0 /\ "CD" \notin cr0
    \/ "PG" \in cr0 /\ "PE" \notin cr0
    \/ /\ ~is_paging(x)
       /\ "PG" \in cr0
       /\ IF "LME" \in x.efer
          THEN ~is_pae(x) \/ x.seg["CS"].ar.l
          ELSE is_pae(x) /\ pdptrs_have_reserved_bits_set(x.cr3)

\* Mutant: no return after inject_gp.
GoesOnAfterGp(x, cr0) ==
    LET y == IF Cr0Refused(x, cr0) THEN inject_gp(x) ELSE x
    IN  kvm_mmu_reset_context(write_cr0(y, cr0 \ {"RSV"}))

set_cr0(x, cr0) ==
    IF Cr0Refused(x, cr0) THEN inject_gp(x)
    ELSE kvm_mmu_reset_context(write_cr0(x, cr0))

\* Only PE set from clear is acted on; the other bits lmsw may change are
\* the guest's own.
lmsw(x, msw) ==
    LET y == IF "PE" \in msw /\ "PE" \notin guest_cr0(x)
             THEN [enter_pmode(x) EXCEPT !.cr0rs = guest_cr0(x) \union {"PE"}]
             ELSE x
    IN  [y EXCEPT !.cr0 = (@ \ LMSW_GUEST_MASK) \union (msw \cap LMSW_GUEST_MASK)]

write_cr4(x, cr4) ==   \* __set_cr4
    [x EXCEPT !.cr4rs = cr4,
              !.cr4 = cr4 \union {"VMXE", "PAE"}
                          \union (IF x.rmode.active THEN {"VME"} ELSE {})]

\* set_cr4 injects #GP for page directory pointers with reserved bits and,
\* unlike every other refusal, goes on to write the register.
Cr4GpOnly(x, cr4) ==
    /\ ~is_long_mode(x) /\ is_paging(x) /\ ~is_pae(x) /\ "PAE" \in cr4
    /\ pdptrs_have_reserved_bits_set(x.cr3)

Cr4Refused(x, cr4) ==
    \/ "RSV" \in cr4
    \/ is_long_mode(x) /\ "PAE" \notin cr4
    \/ "VMXE" \in cr4

\* Mutant: reserved bits are not looked at.
AcceptsReserved(x, cr4) ==
    LET y == IF Cr4GpOnly(x, cr4) THEN inject_gp(x) ELSE x
    IN  IF Cr4Refused(x, cr4 \ {"RSV"}) THEN inject_gp(x)
        ELSE kvm_mmu_reset_context(write_cr4(y, cr4))

set_cr4(x, cr4) ==
    LET y == IF Cr4GpOnly(x, cr4) THEN inject_gp(x) ELSE x
    IN  IF Cr4Refused(x, cr4) THEN inject_gp(x)
        ELSE kvm_mmu_reset_context(write_cr4(y, cr4))

\* new_cr3 flushes the shadow tables of the context, which stays.
set_cr3(x, cr3) ==
    IF \/ cr3 = "rsv"
       \/ /\ ~is_long_mode(x) /\ is_paging(x) /\ is_pae(x)
          /\ pdptrs_have_reserved_bits_set(cr3)
    THEN inject_gp(x)
    ELSE [x EXCEPT !.cr3 = cr3]

\* Mutant: LME may change while paging is on.
AllowsLmeChange(x, efer) ==
    IF "RSV" \in efer THEN inject_gp(x)
    ELSE LET e == (efer \ {"LMA"}) \union (x.efer \cap {"LMA"})
         IN  [x EXCEPT !.efer = e,
                       !.msr = IF "LMA" \in e THEN e ELSE e \ {"LME"}]

set_efer(x, efer) ==
    IF \/ "RSV" \in efer
       \/ is_paging(x) /\ ("LME" \in x.efer) # ("LME" \in efer)
    THEN inject_gp(x)
    ELSE LET e == (efer \ {"LMA"}) \union (x.efer \cap {"LMA"})
         IN  [x EXCEPT !.efer = e,
                       !.msr = IF "LMA" \in e THEN e ELSE e \ {"LME"}]

-----------------------------------------------------------------------------
(* kvm_vcpu_setup: "Sets up the vmcs for emulated real mode."              *)

kvm_vcpu_setup ==
    LET blank == [cr0rs |-> {}, cr0 |-> {}, cr4rs |-> {}, cr4 |-> {},
                  ia32e |-> FALSE, vm |-> FALSE, iopl |-> 0,
                  seg |-> [r \in SegRegs |->
                             IF r = "CS" THEN Seg(61440, 61440, "64K", Code0)
                             ELSE Seg(0, 0, "64K", Data0)],
                  tr |-> Seg(0, 0, "64K", BusyTss),
                  ldtr |-> Seg(0, 0, "64K", Ldt),
                  bitmap |-> {"PF"}, entry |-> "none",
                  rmode |-> [active |-> FALSE, tr |-> NullSeg, iopl |-> 0],
                  efer |-> {}, msr |-> {}, cr3 |-> "ok", mmu |-> "none"]
    IN  kvm_mmu_reset_context(
            set_efer_and_mode(write_cr4(write_cr0(blank, {"CD", "NW"}), {}), {}))

-----------------------------------------------------------------------------
(* vm_entry_test_guest (debug.c): the checks of the processor on the guest *)
(* state of a VMCS.  The fields left out (DR7, SYSENTER, GDTR, IDTR, RIP)  *)
(* are not touched by a change of mode; the check that L and DB are not    *)
(* both set masks two different bits with each other and never fires.      *)

\* A limit with G set ends in 0xfff; without G it is below 1 MB.
SegGTest(s) ==
    /\ s.ar.g => s.limit # "tss"
    /\ ~s.ar.g => s.limit # "4G"

TestControlRegisters(x) ==
    /\ {"PG", "PE", "NE"} \subseteq x.cr0
    /\ "VMXE" \in x.cr4
    /\ is_long_mode(x) => "PAE" \in x.cr4

\* GUEST_CR3 is the shadow root.  Outside long mode its first four entries
\* are page directory pointers, in which the writable and user bits of a
\* four level root are reserved.
TestCr3(x) ==
    ~is_long_mode(x) /\ "PAE" \in x.cr4 => x.mmu # "paging64"

TestVm86(x) ==
    \A r \in SegRegs :
        /\ x.seg[r].base = x.seg[r].sel
        /\ x.seg[r].limit = "64K"
        /\ x.seg[r].ar = Vm86

TestCode(x) ==
    LET cs == x.seg["CS"]
    IN  /\ cs.ar.type \in {9, 11, 13, 15} /\ cs.ar.s
        /\ cs.ar.type \in 8 .. 11 => cs.ar.dpl = Rpl(cs.sel)
        /\ cs.ar.type \in 13 .. 15 => cs.ar.dpl <= Rpl(cs.sel)
        /\ cs.ar.p
        /\ SegGTest(cs)

TestStack(x) ==
    LET ss == x.seg["SS"]
    IN  /\ ~ss.ar.u => /\ ss.ar.type \in {3, 7} /\ ss.ar.s /\ ss.ar.p
                       /\ SegGTest(ss)
        /\ ss.ar.dpl = Rpl(ss.sel)
        /\ Rpl(ss.sel) = Rpl(x.seg["CS"].sel)

TestData(x) ==
    LET ds == x.seg["DS"]
    IN  ~ds.ar.u =>
            /\ ds.ar.type % 2 = 1 /\ ds.ar.s /\ ds.ar.p
            /\ ds.ar.type >= 8 => ds.ar.type \in {11, 15}
            /\ ds.ar.type < 12 => ds.ar.dpl >= Rpl(ds.sel)
            /\ SegGTest(ds)

TestTr(x) ==
    /\ x.tr.ar.type \in (IF is_long_mode(x) THEN {11} ELSE {3, 11})
    /\ ~x.tr.ar.s /\ x.tr.ar.p /\ ~x.tr.ar.u
    /\ SegGTest(x.tr)

TestLdtr(x) ==
    ~x.ldtr.ar.u => /\ x.ldtr.ar.type = 2 /\ ~x.ldtr.ar.s /\ x.ldtr.ar.p
                    /\ SegGTest(x.ldtr)

vm_entry_test_guest(x) ==
    /\ TestControlRegisters(x)
    /\ TestCr3(x)
    /\ IF x.vm THEN TestVm86(x)
       ELSE TestCode(x) /\ TestStack(x) /\ TestData(x) /\ TestTr(x) /\ TestLdtr(x)
    /\ ~(is_long_mode(x) /\ x.vm)

-----------------------------------------------------------------------------
(* The register ioctls, and what QEMU passes through them.                 *)

\* KVM_GET_SREGS: an unusable segment is reported with access rights 0,
\* the unusable bit included.
get_segment(s) ==
    IF s.ar.u
    THEN [s EXCEPT !.ar = [NullSeg.ar EXCEPT !.u = FALSE]]
    ELSE s

\* save_regs: KVM_GET_REGS and KVM_GET_SREGS into QEMU's CPU state.
save_regs(x) ==
    [vm |-> x.vm, iopl |-> x.iopl,
     cr0 |-> guest_cr0(x), cr3 |-> x.cr3, cr4 |-> guest_cr4(x), efer |-> x.efer,
     seg |-> [r \in SegRegs |-> get_segment(x.seg[r])],
     tr |-> get_segment(x.tr), ldtr |-> get_segment(x.ldtr)]

\* A segment whose flags are 0 but for the present bit is given defaults.
set_seg(s, default_s, default_type) ==
    LET valid == [s.ar EXCEPT !.p = FALSE, !.u = TRUE] # NullSeg.ar
    IN  [s EXCEPT !.ar = IF valid THEN [s.ar EXCEPT !.dpl = Rpl(s.sel)]
                         ELSE Ar(default_type, default_s, Rpl(s.sel))]

\* load_regs: the argument of KVM_SET_SREGS.  In protected mode SS is given
\* the privilege level of CS.
load_sregs(e) ==
    LET seg == [r \in SegRegs |->
                  IF e.vm THEN [e.seg[r] EXCEPT !.ar = Vm86]
                  ELSE set_seg(e.seg[r], TRUE, IF r = "CS" THEN 11 ELSE 3)]
        cpl == Rpl(seg["CS"].sel)
        ss == [seg["SS"] EXCEPT !.sel = (@ - Rpl(@)) + cpl, !.ar.dpl = cpl]
    IN  [e EXCEPT
            !.seg = IF ~e.vm /\ "PE" \in e.cr0 THEN [seg EXCEPT !["SS"] = ss]
                    ELSE seg,
            !.tr = set_seg(e.tr, FALSE, 3),
            !.ldtr = set_seg(e.ldtr, FALSE, 2)]

\* KVM_SET_REGS writes RFLAGS as they are.
set_regs(x, e) == [x EXCEPT !.vm = e.vm, !.iopl = e.iopl]

\* Mutant: the MMU context is rebuilt only when CR0 changes.
ResetsForCr0(x, e) ==
    LET a == [x EXCEPT !.seg = e.seg, !.tr = e.tr, !.ldtr = e.ldtr, !.cr3 = e.cr3]
        b == set_efer_and_mode(a, e.efer)
        c == update_exception_bitmap(
                 [b EXCEPT !.rmode.active = "PE" \notin e.cr0])
        d == write_cr4([c EXCEPT !.cr0rs = e.cr0,
                                 !.cr0 = e.cr0 \union KVM_VM_CR0_ALWAYS_ON], e.cr4)
    IN  IF guest_cr0(b) # e.cr0 THEN kvm_mmu_reset_context(d) ELSE d

\* KVM_SET_SREGS: real mode is switched without enter_rmode or enter_pmode.
set_sregs(x, e) ==
    LET a == [x EXCEPT !.seg = e.seg, !.tr = e.tr, !.ldtr = e.ldtr, !.cr3 = e.cr3]
        b == set_efer_and_mode(a, e.efer)
        c == update_exception_bitmap(
                 [b EXCEPT !.rmode.active = "PE" \notin e.cr0])
        d == [c EXCEPT !.cr0rs = e.cr0, !.cr0 = e.cr0 \union KVM_VM_CR0_ALWAYS_ON]
        reset_needed == \/ x.cr3 # e.cr3
                        \/ x.efer # e.efer
                        \/ guest_cr0(c) # e.cr0
                        \/ guest_cr4(d) # e.cr4
        f == write_cr4(d, e.cr4)
    IN  IF reset_needed THEN kvm_mmu_reset_context(f) ELSE f

\* KVM_DEBUG_GUEST: breakpoints and single step need debug exceptions.
debug_guest(x, enabled) ==
    [x EXCEPT !.bitmap = IF enabled THEN @ \union {"DB"} ELSE @ \ {"DB"}]

-----------------------------------------------------------------------------
(* What a guest puts in its segment registers, task register and LDTR.     *)

Flat(sel, type, dpl) == Seg(sel, 0, "4G", [Ar(type, TRUE, dpl) EXCEPT !.g = TRUE])
Segs(cs, ss, ds) ==
    [r \in SegRegs |-> CASE r = "CS" -> cs [] r = "SS" -> ss [] r = "DS" -> ds]

Kernel32 == Segs(Flat(8, 11, 0), Flat(16, 3, 0), Flat(16, 3, 0))
User32 == Segs(Flat(27, 11, 3), Flat(35, 3, 3), Flat(35, 3, 3))
Kernel64 == [Kernel32 EXCEPT !["CS"].ar.l = TRUE]
Kernel16(base) == Segs(Seg(24, base, "64K", Code0), Seg(32, base, "64K", Data0),
                       Seg(32, base, "64K", Data0))
RealSegs(cs, ds) == Segs(Seg(cs, cs, "64K", Vm86), Seg(ds, ds, "64K", Vm86),
                         Seg(ds, ds, "64K", Vm86))
RealBases == {0, 2049}

ProtSegs(x) ==
    {Kernel32, User32}
        \union {Kernel16(b) : b \in RealBases}
        \union (IF x.ia32e THEN {Kernel64} ELSE {})
        \union (IF NullSelectors
                THEN {[Kernel32 EXCEPT !["DS"] = NullSeg]} ELSE {})
        \union (IF NullSelectors /\ x.ia32e
                THEN {[Kernel64 EXCEPT !["SS"] = NullSeg]} ELSE {})

Tasks(x) ==
    {IF x.ia32e THEN Seg(40, 64, "64K", BusyTss) ELSE Seg(48, 80, "64K", BusyTss16)}

LoadTask(x, t) == [x EXCEPT !.tr = t]
LoadSegs(x, s) == [x EXCEPT !.seg = s]

\* CPU states that QEMU saved earlier, perhaps in another process: a guest
\* at its start, in protected mode, with PAE paging, in long mode with null
\* selectors, and back in real mode.
Images ==
    LET start == kvm_vcpu_setup
        prot == LoadSegs(LoadTask(set_cr0(start, {"PE"}), Seg(40, 64, "64K", BusyTss)),
                         Kernel32)
        pae == set_cr0(set_cr4(prot, {"PAE"}), {"PE", "PG"})
        long == set_cr0(set_efer(set_cr4(prot, {"PAE"}), {"LME"}), {"PE", "PG"})
        long64 == LoadSegs([long EXCEPT !.ldtr = NullSeg],
                           IF NullSelectors THEN [Kernel64 EXCEPT !["SS"] = NullSeg]
                           ELSE Kernel64)
        real == set_cr0(LoadSegs(prot, Kernel16(2049)), {})
    IN  {save_regs(x) : x \in {start, prot, pae, long64, real}}

-----------------------------------------------------------------------------
(* The machine.                                                            *)

Init ==
    /\ v = kvm_vcpu_setup
    /\ pc = "run"
    /\ env = save_regs(kvm_vcpu_setup)
    /\ own = [tr |-> kvm_vcpu_setup.rmode.tr, iopl |-> 0]

Protected == pc = "run" /\ v.entry = "none" /\ ~v.vm
Real == pc = "run" /\ v.entry = "none" /\ v.vm

\* VM entry delivers the exception that a handler injected.
EnterWithGp ==
    /\ pc = "run" /\ v.entry = "gp"
    /\ v' = [v EXCEPT !.entry = "none"]
    /\ UNCHANGED <<pc, env, own>>

\* Far jumps, interrupts and returns change CS and SS together.
GuestLoadsSegments ==
    /\ Protected
    /\ \E s \in ProtSegs(v) : v' = LoadSegs(v, s)
    /\ UNCHANGED <<pc, env, own>>

\* In virtual 8086 mode the processor makes the base from the selector.
GuestLoadsRealSegments ==
    /\ Real
    /\ \E cs, ds \in RealBases : v' = LoadSegs(v, RealSegs(cs, ds))
    /\ UNCHANGED <<pc, env, own>>

\* ltr, lldt and popf at CPL 0 do not leave the guest.
GuestLoadsTask ==
    /\ Protected /\ guest_cpl(v) = 0
    /\ \E t \in Tasks(v) : /\ v' = LoadTask(v, t)
                           /\ own' = [own EXCEPT !.tr = t]
    /\ UNCHANGED <<pc, env>>

GuestLoadsLdt ==
    /\ Protected /\ guest_cpl(v) = 0 /\ NullSelectors
    /\ v' = [v EXCEPT !.ldtr = NullSeg]
    /\ UNCHANGED <<pc, env, own>>

GuestSetsIopl ==
    /\ Protected /\ guest_cpl(v) = 0
    /\ \E i \in {0, 3} : /\ v' = [v EXCEPT !.iopl = i]
                         /\ own' = [own EXCEPT !.iopl = i]
    /\ UNCHANGED <<pc, env>>

\* A guest clears PE from a 16 bit code segment, as enter_rmode expects.
LeavesFrom16Bit(cr0) == "PE" \notin cr0 => v.seg["CS"].limit = "64K"

\* handle_cr: a move to a control register in protected mode exits.
handle_cr ==
    /\ Protected /\ guest_cpl(v) = 0
    /\ \/ \E cr0 \in Cr0Values : LeavesFrom16Bit(cr0) /\ v' = set_cr0(v, cr0)
       \/ \E cr3 \in {"ok", "bad", "rsv"} : v' = set_cr3(v, cr3)
       \/ \E cr4 \in Cr4Values : v' = set_cr4(v, cr4)
       \/ \E msw \in MswValues : v' = lmsw(v, msw)
    /\ UNCHANGED <<pc, env, own>>

handle_wrmsr ==
    /\ Protected /\ guest_cpl(v) = 0
    /\ \/ \E efer \in EferValues : v' = set_efer(v, efer)
       \/ v' = inject_gp(v)            \* a register that is not emulated
    /\ UNCHANGED <<pc, env, own>>

\* emulate_instruction keeps a copy of RFLAGS while it works and writes it
\* back; realmode_set_cr and realmode_lmsw refresh the copy.
\*
\* Mutant: the copy taken before is written back.
KeepsFlags(x, y) == [y EXCEPT !.vm = x.vm, !.iopl = x.iopl]

RefreshesFlags(x, y) == [y EXCEPT !.vm = y.vm, !.iopl = y.iopl]

\* In virtual 8086 mode the instruction faults; the #GP exits because the
\* exception bitmap is full, and the instruction is emulated.
realmode_set_cr ==
    /\ Real /\ "GP" \in v.bitmap /\ v.rmode.active
    /\ \/ \E cr0 \in Cr0Values : v' = RefreshesFlags(v, set_cr0(v, cr0))
       \/ \E cr3 \in {"ok", "bad", "rsv"} : v' = set_cr3(v, cr3)
       \/ \E cr4 \in Cr4Values : v' = set_cr4(v, cr4)
       \/ \E msw \in MswValues : v' = RefreshesFlags(v, lmsw(v, msw))
    /\ UNCHANGED <<pc, env, own>>

\* loadvm: KVM_SET_REGS, then KVM_SET_SREGS, between two KVM_RUNs.
load_regs ==
    /\ pc = "run" /\ v.entry = "none"
    /\ pc' = "load"
    /\ \E e \in Images : /\ env' = e
                         /\ v' = set_regs(v, e)
    /\ UNCHANGED own

\* What enter_rmode put away is not part of the registers: a guest saved in
\* real mode gets what the vcpu holds.
load_sregs_done ==
    /\ pc = "load"
    /\ pc' = "run"
    /\ v' = set_sregs(v, load_sregs(env))
    /\ own' = IF "PE" \in env.cr0 THEN [tr |-> v'.tr, iopl |-> v'.iopl]
              ELSE [tr |-> v.rmode.tr, iopl |-> v.rmode.iopl]
    /\ env' = save_regs(kvm_vcpu_setup)

kvm_dev_ioctl_debug_guest ==
    /\ pc = "run" /\ v.entry = "none"
    /\ \E enabled \in BOOLEAN : v' = debug_guest(v, enabled)
    /\ UNCHANGED <<pc, env, own>>

Next ==
    \/ EnterWithGp
    \/ GuestLoadsSegments \/ GuestLoadsRealSegments
    \/ GuestLoadsTask \/ GuestLoadsLdt \/ GuestSetsIopl
    \/ handle_cr \/ handle_wrmsr \/ realmode_set_cr
    \/ load_regs \/ load_sregs_done \/ kvm_dev_ioctl_debug_guest

Spec == Init /\ [][Next]_vars

-----------------------------------------------------------------------------
(* Properties.                                                             *)

Cr0Bits == {"PE", "PG", "WP", "NE", "TS", "NW", "CD"}
Cr4Bits == {"VME", "PAE", "VMXE"}
SegType ==
    [sel : Nat, base : Nat, limit : {"64K", "4G", "tss"},
     ar : [type : 0 .. 15, s : BOOLEAN, dpl : 0 .. 3, p : BOOLEAN,
           l : BOOLEAN, g : BOOLEAN, u : BOOLEAN]]

\* Registers hold bits the processor defines, whatever the guest tried to
\* move to them, and descriptors are descriptors.
TypeOK ==
    /\ v.cr0rs \subseteq Cr0Bits /\ v.cr0 \subseteq Cr0Bits
    /\ v.cr4rs \subseteq Cr4Bits \ {"VMXE"} /\ v.cr4 \subseteq Cr4Bits
    /\ v.efer \subseteq {"LME", "LMA"} /\ v.msr \subseteq {"LME", "LMA"}
    /\ v.ia32e \in BOOLEAN /\ v.vm \in BOOLEAN /\ v.iopl \in {0, 3}
    /\ v.seg \in [SegRegs -> SegType] /\ v.tr \in SegType /\ v.ldtr \in SegType
    /\ v.bitmap \subseteq {"PF", "GP", "DB"}
    /\ v.entry \in {"none", "gp"}
    /\ v.rmode.active \in BOOLEAN /\ v.rmode.tr \in SegType
    /\ v.cr3 \in {"ok", "bad"}
    /\ v.mmu \in {"nonpaging", "paging32", "paging32E", "paging64"}
    /\ pc \in {"run", "load"}

\* After every handler and every register load the guest state passes the
\* checks of vm_entry_test_guest, so the next VM entry is not refused: the
\* segment fixups of enter_rmode, enter_pmode and QEMU's load_regs, the task
\* register and the shadow root fit the mode that the handler left behind.
EntryAccepted == pc = "run" => vm_entry_test_guest(v)

\* The six places that record the mode agree: the guest's PE bit, rmode.active,
\* RFLAGS.VM and the exception bitmap for real mode; EFER.LMA, the VM entry
\* control, LME with PG for long mode.
ModesAgree ==
    pc = "run" =>
        /\ v.rmode.active <=> "PE" \notin guest_cr0(v)
        /\ v.vm <=> v.rmode.active
        /\ "GP" \in v.bitmap <=> v.rmode.active
        /\ "PF" \in v.bitmap
        /\ v.ia32e <=> "LMA" \in v.efer
        /\ v.ia32e <=> {"LME"} \subseteq v.efer /\ is_paging(v)

\* The task register and the IOPL that the guest set in protected mode are
\* there again when it comes back from real mode, however often it writes
\* CR0 in between; while it is in real mode they are put away.
GuestTaskKept ==
    pc = "run" =>
        LET held == IF v.rmode.active THEN v.rmode.tr ELSE v.tr
        IN  /\ held.base = own.tr.base /\ held.limit = own.tr.limit
            /\ own.iopl = IF v.rmode.active THEN v.rmode.iopl ELSE v.iopl

\* The MMU context is the one for the mode: no handler that changes paging,
\* PAE or long mode leaves the old one behind, and KVM_SET_SREGS sees every
\* change that calls for a new one.
MmuMatches == pc = "run" => v.mmu = init_kvm_mmu(v)

\* A write that ends in #GP changes no register: it is a fault.  The one
\* exception is known: set_cr4 injects for bad page directory pointers and
\* still writes CR4.
GpChangesNothing ==
    [][ (v.entry = "none" /\ v'.entry = "gp") =>
            \/ v' = inject_gp(v)
            \/ \E cr4 \in Cr4Values : /\ Cr4GpOnly(v, cr4)
                                      /\ ~Cr4Refused(v, cr4)
                                      /\ v' = set_cr4(v, cr4) ]_vars

\* The architecture's rules for the mode bits, over what the guest reads:
\* paging needs protection; LME changes only with paging off; long mode
\* starts when paging is switched on with LME and PAE set, and PAE stays on
\* in it; LMA follows.
Arch(x) == [pe |-> "PE" \in guest_cr0(x), pg |-> "PG" \in guest_cr0(x),
            pae |-> is_pae(x), lme |-> "LME" \in x.efer, lma |-> "LMA" \in x.efer]
ArchStep(a, b) ==
    /\ b.pg => b.pe
    /\ b.lma <=> (b.lme /\ b.pg)
    /\ a.lme # b.lme => ~a.pg /\ ~b.pg
    /\ b.lma => b.pae
    /\ a.lma /\ ~b.lma => a.pg /\ ~b.pg
ModeSteps == [][ pc = "run" /\ pc' = "run" => ArchStep(Arch(v), Arch(v')) ]_vars
=============================================================================
