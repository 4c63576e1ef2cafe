--------------------------- MODULE CpuModesProofs ---------------------------
(***************************************************************************)
(* Proofs about the processor modes.                                       *)
(*                                                                         *)
(* The operators of CpuModes take a vcpu to a vcpu, so the argument is     *)
(* about records x and not about the variable v.  Kept(x) holds between    *)
(* any two ioctls, Fit(x) whenever the guest may run.  There is one lemma  *)
(* per function of the code that says what each field of its result is,    *)
(* and one that says that it keeps Kept and Fit.  The images that QEMU     *)
(* loads are made with the same functions, so the same lemmas show that an *)
(* image comes from a fit vcpu.                                            *)
(***************************************************************************)
EXTENDS CpuModes, TLAPS

-----------------------------------------------------------------------------
(* The inductive invariant.                                                *)

Iopls == {0, 3}
Exceptions == {"PF", "GP", "DB"}
MmuKinds == {"none", "nonpaging", "paging32", "paging32E", "paging64"}
Cr4Shadows == SUBSET (Cr4Bits \ {"VMXE"})
Limits == {"64K", "4G", "tss"}
SegFile == [SegRegs -> SegType]
SameBut(set, other, bits) == set \ bits = other \ bits
Rmode == [active : BOOLEAN, tr : SegType, iopl : Iopls]

VCpu ==
    [cr0rs : SUBSET Cr0Bits, cr0 : SUBSET Cr0Bits,
     cr4rs : Cr4Shadows, cr4 : SUBSET Cr4Bits,
     ia32e : BOOLEAN, vm : BOOLEAN, iopl : Iopls,
     seg : SegFile, tr : SegType, ldtr : SegType,
     bitmap : SUBSET Exceptions, entry : {"none", "gp"},
     rmode : Rmode,
     efer : SUBSET {"LME", "LMA"}, msr : SUBSET {"LME", "LMA"},
     cr3 : {"ok", "bad"},
     mmu : MmuKinds]

Env ==
    [vm : BOOLEAN, iopl : Iopls, cr0 : SUBSET Cr0Bits, cr3 : {"ok", "bad"},
     cr4 : Cr4Shadows, efer : SUBSET {"LME", "LMA"},
     seg : SegFile, tr : SegType, ldtr : SegType]

\* A segment that the guest emptied is empty: QEMU gives it defaults.
NullOK(s) == s.ar.u => s.ar = NullSeg.ar /\ s.limit = "64K"

\* A task register that the processor accepts outside long mode.
TssOK(s) ==
    /\ s.ar.type \in {3, 11} /\ ~s.ar.s /\ s.ar.p /\ ~s.ar.u
    /\ SegGTest(s)

\* Bits of the hardware registers that are always on.
FixedOn(x) ==
    /\ KVM_VM_CR0_ALWAYS_ON \subseteq x.cr0
    /\ {"VMXE", "PAE"} \subseteq x.cr4

\* Long mode: EFER, the VM entry control, paging and PAE agree.
LongInv(x) ==
    /\ x.ia32e <=> "LMA" \in x.efer
    /\ x.ia32e <=> "LME" \in x.efer /\ is_paging(x)
    /\ x.ia32e => is_pae(x)
    /\ is_paging(x) => "PE" \in guest_cr0(x)

\* Real mode: PE, rmode.active and the exception bitmap agree.
PeInv(x) == x.rmode.active <=> "PE" \notin guest_cr0(x)
BitmapInv(x) == ("GP" \in x.bitmap <=> x.rmode.active) /\ "PF" \in x.bitmap

MmuInv(x) == x.mmu = init_kvm_mmu(x)

LdtrInv(x) == TestLdtr(x) /\ NullOK(x.ldtr)

\* What holds between any two ioctls, RFLAGS left aside.
Kept(x) ==
    /\ x \in VCpu
    /\ FixedOn(x) /\ LongInv(x) /\ PeInv(x) /\ MmuInv(x)
    /\ BitmapInv(x) /\ TssOK(x.rmode.tr)

\* Bases fit a selector, so that enter_rmode can make one of them.
BasesOK(x) ==
    \A r \in SegRegs : Low16(x.seg[r].base) = x.seg[r].base /\ NullOK(x.seg[r])

\* The segments and the task register fit RFLAGS.VM.
SegsOK(x) ==
    IF x.vm THEN TestVm86(x)
    ELSE TestCode(x) /\ TestStack(x) /\ TestData(x) /\ TssOK(x.tr)

\* What RFLAGS.VM and the segments add when the guest may run.
Fit(x) ==
    /\ x.vm <=> x.rmode.active
    /\ BasesOK(x) /\ SegsOK(x) /\ LdtrInv(x)
    /\ x.ia32e => x.tr.ar.type = 11

\* The history variable: the task register and IOPL of the guest.
TaskInv(x, o) ==
    LET held == IF x.rmode.active THEN x.rmode.tr ELSE x.tr
    IN  /\ held.base = o.tr.base /\ held.limit = o.tr.limit
        /\ o.iopl = IF x.rmode.active THEN x.rmode.iopl ELSE x.iopl

\* QEMU holds what it saved from a vcpu that was fit to run.
ImageInv(e) == \E x : Kept(x) /\ Fit(x) /\ e = save_regs(x)

IInv ==
    /\ pc \in {"run", "load"}
    /\ own \in [tr : SegType, iopl : Iopls]
    /\ Kept(v)
    /\ pc = "run" => Fit(v) /\ TaskInv(v, own)
    /\ pc = "load" => /\ ImageInv(env)
                      /\ v.vm = env.vm /\ v.iopl = env.iopl
                      /\ v.entry = "none"

-----------------------------------------------------------------------------
(* Segments.                                                               *)

ArType == [type : 0 .. 15, s : BOOLEAN, dpl : 0 .. 3, p : BOOLEAN,
           l : BOOLEAN, g : BOOLEAN, u : BOOLEAN]

\* The access rights of the code are access rights.
LEMMA ArTypes ==
    /\ \A type \in 0 .. 15, s \in BOOLEAN, dpl \in 0 .. 3 : Ar(type, s, dpl) \in ArType
    /\ {Data0, Code0, Vm86, BusyTss, BusyTss16, Ldt, NullSeg.ar} \subseteq ArType
  BY DEF ArType, Ar, Data0, Code0, Vm86, BusyTss, BusyTss16, Ldt, NullSeg, Seg

\* A segment is a selector, a base, a limit and access rights.
LEMMA SegTypes ==
    /\ SegType = [sel : Nat, base : Nat, limit : Limits, ar : ArType]
    /\ \A sel, base \in Nat, limit \in Limits, ar \in ArType :
          /\ Seg(sel, base, limit, ar) \in SegType
          /\ Seg(sel, base, limit, ar).sel = sel
          /\ Seg(sel, base, limit, ar).base = base
          /\ Seg(sel, base, limit, ar).limit = limit
          /\ Seg(sel, base, limit, ar).ar = ar
  BY DEF SegType, ArType, Seg, Limits

\* The segments that the code and the null selector make.
LEMMA KnownSegs ==
    /\ NullSeg \in SegType /\ RmodeTr \in SegType
    /\ NullOK(NullSeg) /\ NullSeg.base = 0 /\ NullSeg.sel = 0
    /\ Seg(0, 0, "64K", Data0) \in SegType
  BY ArTypes, SegTypes DEF NullSeg, RmodeTr, NullOK, Seg, Limits

\* Changing a field of a segment gives a segment.
SegWith(s, sel, ar, limit) == [s EXCEPT !.sel = sel, !.ar = ar, !.limit = limit]

\* The fields of a rebuilt segment register.
LEMMA SegWithFields ==
    ASSUME NEW s \in SegType, NEW sel \in Nat, NEW ar \in ArType,
           NEW limit \in Limits
    PROVE  /\ SegWith(s, sel, ar, limit) \in SegType
           /\ SegWith(s, sel, ar, limit).sel = sel
           /\ SegWith(s, sel, ar, limit).base = s.base
           /\ SegWith(s, sel, ar, limit).limit = limit
           /\ SegWith(s, sel, ar, limit).ar = ar
  BY SegTypes DEF SegWith

\* A segment register stays one when a field is replaced.
LEMMA SegExcept ==
    ASSUME NEW s \in SegType
    PROVE  /\ \A sel \in Nat : [s EXCEPT !.sel = sel] \in SegType
           /\ \A ar \in ArType : [s EXCEPT !.ar = ar] \in SegType
           /\ \A sel \in Nat, ar \in ArType :
                [s EXCEPT !.sel = sel, !.ar = ar] \in SegType
  BY SegTypes

\* The privilege level in a selector.
LEMMA RplRange ==
    ASSUME NEW sel \in Nat
    PROVE  /\ Rpl(sel) \in 0 .. 3
           /\ sel - Rpl(sel) \in Nat
           /\ Rpl(sel - Rpl(sel)) = 0
           /\ \A c \in 0 .. 3 : /\ (sel - Rpl(sel)) + c \in Nat
                                /\ Rpl((sel - Rpl(sel)) + c) = c
  BY DEF Rpl

-----------------------------------------------------------------------------
(* The record of a vcpu.                                                   *)

\* A vcpu in which one field is given a value of its type is a vcpu.
LEMMA VCpuExcept ==
    ASSUME NEW x \in VCpu
    PROVE  /\ \A c \in SUBSET Cr0Bits : [x EXCEPT !.cr0rs = c] \in VCpu
           /\ \A c \in SUBSET Cr0Bits : [x EXCEPT !.cr0 = c] \in VCpu
           /\ \A c \in Cr4Shadows : [x EXCEPT !.cr4rs = c] \in VCpu
           /\ \A c \in SUBSET Cr4Bits : [x EXCEPT !.cr4 = c] \in VCpu
           /\ \A c \in BOOLEAN : [x EXCEPT !.ia32e = c] \in VCpu
           /\ \A c \in BOOLEAN : [x EXCEPT !.vm = c] \in VCpu
           /\ \A c \in Iopls : [x EXCEPT !.iopl = c] \in VCpu
           /\ \A c \in SegFile : [x EXCEPT !.seg = c] \in VCpu
           /\ \A c \in SegType : [x EXCEPT !.tr = c] \in VCpu
           /\ \A c \in SegType : [x EXCEPT !.ldtr = c] \in VCpu
           /\ \A c \in SUBSET Exceptions : [x EXCEPT !.bitmap = c] \in VCpu
           /\ \A c \in {"none", "gp"} : [x EXCEPT !.entry = c] \in VCpu
           /\ \A c \in Rmode : [x EXCEPT !.rmode = c] \in VCpu
           /\ \A c \in SUBSET {"LME", "LMA"} : [x EXCEPT !.efer = c] \in VCpu
           /\ \A c \in SUBSET {"LME", "LMA"} : [x EXCEPT !.msr = c] \in VCpu
           /\ \A c \in {"ok", "bad"} : [x EXCEPT !.cr3 = c] \in VCpu
           /\ \A c \in MmuKinds : [x EXCEPT !.mmu = c] \in VCpu
  BY DEF VCpu

\* A change between real and protected mode gives values to these fields.
Switched(x, rm, vm, tr, iopl, cr4, bitmap, seg) ==
    [x EXCEPT !.rmode = rm, !.vm = vm, !.tr = tr, !.iopl = iopl,
              !.cr4 = cr4, !.bitmap = bitmap, !.seg = seg]

\* What a change between real and protected mode leaves alone.
Frame(x, y) ==
    /\ y.cr0rs = x.cr0rs /\ y.cr0 = x.cr0 /\ y.cr4rs = x.cr4rs
    /\ SameBut(y.cr4, x.cr4, {"VME"})
    /\ y.ia32e = x.ia32e /\ y.efer = x.efer /\ y.msr = x.msr
    /\ y.ldtr = x.ldtr /\ y.entry = x.entry /\ y.cr3 = x.cr3 /\ y.mmu = x.mmu

\* What a switch between real and protected mode sets, and what it leaves.
LEMMA SwitchedFields ==
    ASSUME NEW x, NEW rm, NEW vm, NEW tr, NEW iopl, NEW cr4, NEW bitmap, NEW seg,
           x \in VCpu, rm \in Rmode, vm \in BOOLEAN, tr \in SegType,
           iopl \in Iopls, cr4 \subseteq Cr4Bits,
           bitmap \subseteq Exceptions,
           seg \in SegFile,
           SameBut(cr4, x.cr4, {"VME"})
    PROVE  LET y == Switched(x, rm, vm, tr, iopl, cr4, bitmap, seg) IN
           /\ y \in VCpu /\ Frame(x, y)
           /\ y.rmode = rm /\ y.vm = vm /\ y.tr = tr /\ y.iopl = iopl
           /\ y.bitmap = bitmap /\ y.seg = seg
<1> DEFINE y == Switched(x, rm, vm, tr, iopl, cr4, bitmap, seg)
<1>1. y \in VCpu
  BY DEF VCpu, Switched
<1>2. /\ y.cr0rs = x.cr0rs /\ y.cr0 = x.cr0 /\ y.cr4rs = x.cr4rs /\ y.cr4 = cr4
      /\ y.ia32e = x.ia32e /\ y.efer = x.efer /\ y.msr = x.msr
      /\ y.ldtr = x.ldtr /\ y.entry = x.entry /\ y.cr3 = x.cr3 /\ y.mmu = x.mmu
      /\ y.rmode = rm /\ y.vm = vm /\ y.tr = tr /\ y.iopl = iopl
      /\ y.bitmap = bitmap /\ y.seg = seg
  BY DEF VCpu, Switched
<1> HIDE DEF y
<1>3. Frame(x, y)
  BY <1>2 DEF Frame
<1>4. /\ y \in VCpu /\ Frame(x, y)
      /\ y.rmode = rm /\ y.vm = vm /\ y.tr = tr /\ y.iopl = iopl
      /\ y.bitmap = bitmap /\ y.seg = seg
  BY <1>1, <1>2, <1>3
<1> QED BY <1>4 DEF y

-----------------------------------------------------------------------------
(* Entering and leaving real mode.                                         *)

PmodeSegs(x) ==
    [r \in SegRegs |->
        IF r = "CS" THEN [x.seg[r] EXCEPT !.sel = @ - Rpl(@), !.ar = Code0]
        ELSE Seg(0, 0, "64K", Data0)]

\* enter_pmode, field by field.
LEMMA EnterPmodeFields ==
    ASSUME NEW x \in VCpu
    PROVE  LET y == enter_pmode(x) IN
           /\ y \in VCpu /\ Frame(x, y)
           /\ y.rmode = [x.rmode EXCEPT !.active = FALSE] /\ y.vm = FALSE
           /\ y.tr = [x.rmode.tr EXCEPT !.sel = x.tr.sel] /\ y.iopl = x.rmode.iopl
           /\ y.bitmap = {"PF"} /\ y.seg = PmodeSegs(x)
<1> DEFINE rm == [x.rmode EXCEPT !.active = FALSE]
           tr == [x.rmode.tr EXCEPT !.sel = x.tr.sel]
           cr4 == (x.cr4 \ {"VME"}) \union (IF "PE" \in x.cr0rs THEN {"VME"} ELSE {})
           seg == PmodeSegs(x)
           vm == FALSE
<1>0. rm \in Rmode /\ x.rmode.iopl \in Iopls
  BY DEF VCpu, Rmode
<1>1. tr \in SegType
  BY SegExcept, SegTypes DEF VCpu, Rmode
<1>2. seg \in SegFile
  <2>1. x.seg["CS"] \in SegType /\ x.seg["CS"].sel \in Nat
    BY SegTypes DEF VCpu, SegFile, SegRegs
  <2>2. [x.seg["CS"] EXCEPT !.sel = @ - Rpl(@), !.ar = Code0] \in SegType
    BY <2>1, RplRange, SegExcept, ArTypes
  <2> QED BY <2>2, KnownSegs DEF PmodeSegs, SegFile
<1>3. cr4 \subseteq Cr4Bits /\ SameBut(cr4, x.cr4, {"VME"})
  BY DEF VCpu, Cr4Bits, SameBut
<1>4. {"PF"} \subseteq Exceptions /\ vm \in BOOLEAN
  BY DEF Exceptions
<1> HIDE DEF rm, tr, cr4, seg, vm
<1>5. enter_pmode(x) = Switched(x, rm, vm, tr, x.rmode.iopl, cr4, {"PF"}, seg)
  BY DEF enter_pmode, update_exception_bitmap, VCpu, Rmode, Switched, PmodeSegs,
         rm, tr, cr4, seg, vm
<1> DEFINE y == Switched(x, rm, vm, tr, x.rmode.iopl, cr4, {"PF"}, seg)
<1>6. /\ y \in VCpu /\ Frame(x, y)
      /\ y.rmode = rm /\ y.vm = vm /\ y.tr = tr /\ y.iopl = x.rmode.iopl
      /\ y.bitmap = {"PF"} /\ y.seg = seg
  BY <1>0, <1>1, <1>2, <1>3, <1>4, SwitchedFields
<1> HIDE DEF y
<1>7. enter_pmode(x) = y
  BY <1>5 DEF y
<1> QED BY <1>6, <1>7 DEF rm, tr, seg, vm

RmodeSegs(x) ==
    [r \in SegRegs |->
        SegWith(x.seg[r], Low16(x.seg[r].base), Vm86,
                IF r = "CS" THEN x.seg[r].limit ELSE "64K")]

\* enter_rmode, field by field.
LEMMA EnterRmodeFields ==
    ASSUME NEW x \in VCpu
    PROVE  LET y == enter_rmode(x) IN
           /\ y \in VCpu /\ Frame(x, y)
           /\ y.rmode = [active |-> TRUE, iopl |-> x.iopl, tr |-> [x.tr EXCEPT !.sel = 0]]
           /\ y.vm = TRUE /\ y.iopl = 3
           /\ y.bitmap = Exceptions /\ y.seg = RmodeSegs(x)
<1> DEFINE rm == [active |-> TRUE, iopl |-> x.iopl, tr |-> [x.tr EXCEPT !.sel = 0]]
           tr == [RmodeTr EXCEPT !.sel = x.tr.sel]
           cr4 == x.cr4 \union {"VME"}
           seg == RmodeSegs(x)
           vm == TRUE
<1>0. rm \in Rmode /\ rm.active
  <2>1. [x.tr EXCEPT !.sel = 0] \in SegType
    BY SegExcept DEF VCpu
  <2> QED BY <2>1 DEF VCpu, Rmode
<1>1. tr \in SegType
  BY SegExcept, SegTypes, KnownSegs DEF VCpu
<1>2. seg \in SegFile
  <2>1. ASSUME NEW r \in SegRegs
        PROVE  seg[r] \in SegType
    <3>1. /\ x.seg[r] \in SegType /\ x.seg[r].base \in Nat
          /\ x.seg[r].limit \in Limits
      BY SegTypes DEF VCpu, SegFile
    <3>2. Low16(x.seg[r].base) \in Nat /\ Vm86 \in ArType
      BY <3>1, ArTypes DEF Low16
    <3> DEFINE limit == IF r = "CS" THEN x.seg[r].limit ELSE "64K"
    <3>3. limit \in Limits
      BY <3>1 DEF Limits
    <3> HIDE DEF limit
    <3>4. SegWith(x.seg[r], Low16(x.seg[r].base), Vm86, limit) \in SegType
      BY <3>1, <3>2, <3>3, SegWithFields
    <3> QED BY <3>4 DEF RmodeSegs, limit
  <2> QED BY <2>1 DEF RmodeSegs, SegFile
<1>3. cr4 \subseteq Cr4Bits /\ SameBut(cr4, x.cr4, {"VME"})
  BY DEF VCpu, Cr4Bits, SameBut
<1>4. Exceptions \subseteq Exceptions /\ vm \in BOOLEAN /\ 3 \in Iopls
  BY DEF Exceptions, Iopls
<1> HIDE DEF rm, tr, cr4, seg, vm
<1>5. enter_rmode(x) = Switched(x, rm, vm, tr, 3, cr4, Exceptions, seg)
  <2> DEFINE y == [x EXCEPT !.rmode = rm, !.tr = tr, !.vm = vm, !.iopl = 3,
                            !.cr4 = cr4]
  <2>1. y.rmode = rm
    BY DEF VCpu
  <2>2. enter_rmode(x) = [y EXCEPT !.bitmap = Exceptions, !.seg = seg]
    <3>1. enter_rmode(x) = [update_exception_bitmap(y) EXCEPT !.seg = seg]
      BY DEF enter_rmode, RmodeSegs, SegWith, rm, tr, cr4, seg, vm
    <3>2. update_exception_bitmap(y) = [y EXCEPT !.bitmap = Exceptions]
      BY <1>0, <2>1 DEF update_exception_bitmap, Exceptions
    <3> QED BY <3>1, <3>2
  <2> QED BY <2>2 DEF VCpu, Switched
<1> DEFINE y == Switched(x, rm, vm, tr, 3, cr4, Exceptions, seg)
<1>6. /\ y \in VCpu /\ Frame(x, y)
      /\ y.rmode = rm /\ y.vm = vm /\ y.iopl = 3
      /\ y.bitmap = Exceptions /\ y.seg = seg
  BY <1>0, <1>1, <1>2, <1>3, <1>4, SwitchedFields
<1> HIDE DEF y
<1>7. enter_rmode(x) = y
  BY <1>5 DEF y
<1> QED BY <1>6, <1>7 DEF rm, seg, vm

\* The segments that enter_pmode leaves pass the tests for protected mode.
LEMMA EnterPmodeOK ==
    ASSUME NEW x \in VCpu, BasesOK(x), TestVm86(x), TssOK(x.rmode.tr)
    PROVE  LET y == enter_pmode(x) IN
           /\ y \in VCpu /\ Frame(x, y)
           /\ ~y.vm /\ ~y.rmode.active
           /\ BitmapInv(y) /\ TssOK(y.rmode.tr) /\ BasesOK(y) /\ SegsOK(y)
           /\ y.tr.base = x.rmode.tr.base /\ y.tr.limit = x.rmode.tr.limit
           /\ y.iopl = x.rmode.iopl
<1> DEFINE y == enter_pmode(x)
<1>1. /\ y \in VCpu /\ Frame(x, y)
      /\ y.rmode = [x.rmode EXCEPT !.active = FALSE] /\ y.vm = FALSE
      /\ y.tr = [x.rmode.tr EXCEPT !.sel = x.tr.sel] /\ y.iopl = x.rmode.iopl
      /\ y.bitmap = {"PF"} /\ y.seg = PmodeSegs(x)
  BY EnterPmodeFields
<1> HIDE DEF y
<1>2. ~y.rmode.active /\ y.rmode.tr = x.rmode.tr
  BY <1>1 DEF VCpu, Rmode
<1>3. BitmapInv(y)
  BY <1>1, <1>2 DEF BitmapInv
<1>4. /\ y.tr.base = x.rmode.tr.base /\ y.tr.limit = x.rmode.tr.limit
      /\ y.tr.ar = x.rmode.tr.ar
  BY <1>1, SegTypes DEF VCpu, Rmode
<1>5. TssOK(y.tr)
  BY <1>4 DEF TssOK, SegGTest
<1> DEFINE cs == x.seg["CS"]
           code == [cs EXCEPT !.sel = @ - Rpl(@), !.ar = Code0]
           data == Seg(0, 0, "64K", Data0)
<1>6. y.seg["CS"] = code /\ y.seg["SS"] = data /\ y.seg["DS"] = data
  BY <1>1 DEF PmodeSegs, SegRegs
<1>7. /\ cs \in SegType /\ cs.sel \in Nat /\ cs.limit = "64K"
      /\ Low16(cs.base) = cs.base
  BY SegTypes DEF VCpu, SegFile, SegRegs, TestVm86, BasesOK
<1>8. /\ code.sel = cs.sel - Rpl(cs.sel) /\ code.base = cs.base
      /\ code.limit = "64K" /\ code.ar = Code0
  BY <1>7, SegTypes
<1>9. data.sel = 0 /\ data.base = 0 /\ data.limit = "64K" /\ data.ar = Data0
  BY DEF Seg
<1>10. Rpl(code.sel) = 0 /\ Rpl(data.sel) = 0 /\ Low16(0) = 0
  BY <1>7, <1>8, <1>9, RplRange DEF Rpl, Low16
<1> HIDE DEF code, data, cs
<1>11. /\ Code0.type = 11 /\ Code0.s /\ Code0.dpl = 0 /\ Code0.p /\ ~Code0.g /\ ~Code0.u
       /\ Data0.type = 3 /\ Data0.s /\ Data0.dpl = 0 /\ Data0.p /\ ~Data0.g /\ ~Data0.u
  BY DEF Code0, Data0, Ar
<1>12. BasesOK(y)
  BY <1>6, <1>7, <1>8, <1>9, <1>10, <1>11 DEF BasesOK, SegRegs, NullOK
<1>13. TestCode(y)
  BY <1>6, <1>8, <1>10, <1>11 DEF TestCode, SegGTest
<1>14. TestStack(y)
  BY <1>6, <1>9, <1>10, <1>11 DEF TestStack, SegGTest
<1>15. TestData(y)
  BY <1>6, <1>9, <1>10, <1>11 DEF TestData, SegGTest
<1>16. SegsOK(y)
  BY <1>1, <1>5, <1>13, <1>14, <1>15 DEF SegsOK
<1> QED BY <1>1, <1>2, <1>3, <1>4, <1>12, <1>16 DEF y

\* The segments that enter_rmode leaves pass the tests for virtual 8086
\* mode, if the guest left from a code segment of 64 KB.
LEMMA EnterRmodeOK ==
    ASSUME NEW x \in VCpu, BasesOK(x), TssOK(x.tr), x.seg["CS"].limit = "64K"
    PROVE  LET y == enter_rmode(x) IN
           /\ y \in VCpu /\ Frame(x, y)
           /\ y.vm /\ y.rmode.active
           /\ BitmapInv(y) /\ TssOK(y.rmode.tr) /\ BasesOK(y) /\ SegsOK(y)
           /\ y.rmode.tr.base = x.tr.base /\ y.rmode.tr.limit = x.tr.limit
           /\ y.rmode.iopl = x.iopl
<1> DEFINE y == enter_rmode(x)
<1>1. /\ y \in VCpu /\ Frame(x, y)
      /\ y.rmode = [active |-> TRUE, iopl |-> x.iopl, tr |-> [x.tr EXCEPT !.sel = 0]]
      /\ y.vm = TRUE /\ y.bitmap = Exceptions /\ y.seg = RmodeSegs(x)
  BY EnterRmodeFields
<1> HIDE DEF y
<1>2. y.rmode.active /\ y.rmode.iopl = x.iopl /\ y.rmode.tr = [x.tr EXCEPT !.sel = 0]
  BY <1>1
<1>3. BitmapInv(y)
  BY <1>1, <1>2 DEF BitmapInv, Exceptions
<1>4. /\ y.rmode.tr.base = x.tr.base /\ y.rmode.tr.limit = x.tr.limit
      /\ y.rmode.tr.ar = x.tr.ar
  BY <1>2, SegTypes DEF VCpu
<1>5. TssOK(y.rmode.tr)
  BY <1>4 DEF TssOK, SegGTest
<1>6. ASSUME NEW r \in SegRegs
      PROVE  /\ y.seg[r].base = x.seg[r].base /\ y.seg[r].sel = x.seg[r].base
             /\ y.seg[r].limit = "64K" /\ y.seg[r].ar = Vm86
  <2> DEFINE s == x.seg[r]
             limit == IF r = "CS" THEN s.limit ELSE "64K"
  <2>1. s \in SegType /\ Low16(s.base) = s.base /\ s.base \in Nat /\ Vm86 \in ArType
    BY SegTypes, ArTypes DEF VCpu, SegFile, BasesOK
  <2>2. limit = "64K" /\ "64K" \in Limits
    BY DEF Limits
  <2>3. y.seg[r] = SegWith(s, Low16(s.base), Vm86, limit)
    BY <1>1 DEF RmodeSegs
  <2> HIDE DEF s, limit
  <2>4. y.seg[r] = SegWith(s, s.base, Vm86, "64K")
    BY <2>1, <2>2, <2>3
  <2>5. /\ y.seg[r].base = s.base /\ y.seg[r].sel = s.base
        /\ y.seg[r].limit = "64K" /\ y.seg[r].ar = Vm86
    BY <2>1, <2>2, <2>4, SegWithFields
  <2> QED BY <2>5 DEF s
<1>7. ~Vm86.u
  BY DEF Vm86, Ar
<1>8. BasesOK(y)
  BY <1>6, <1>7 DEF BasesOK, NullOK
<1>9. SegsOK(y)
  BY <1>1, <1>6 DEF SegsOK, TestVm86
<1> QED BY <1>1, <1>2, <1>3, <1>4, <1>5, <1>8, <1>9 DEF y

\* A consistent mode: flags, exception bitmap and segments.
Mode(x) ==
    /\ x \in VCpu
    /\ x.vm <=> x.rmode.active
    /\ BitmapInv(x) /\ BasesOK(x) /\ SegsOK(x)

-----------------------------------------------------------------------------
(* A write to CR0 takes three steps: real mode, long mode, the registers.  *)

SwitchMode(x, cr0) ==
    LET a == IF x.rmode.active /\ "PE" \in cr0 THEN enter_pmode(x) ELSE x
    IN  IF ~a.rmode.active /\ "PE" \notin cr0 THEN enter_rmode(a) ELSE a

SwitchLong(b, cr0) ==
    CASE "LME" \in b.efer /\ ~is_paging(b) /\ "PG" \in cr0 -> enter_lmode(b)
      [] "LME" \in b.efer /\ is_paging(b) /\ "PG" \notin cr0 -> exit_lmode(b)
      [] OTHER -> b

WriteRegs(c, cr0) == [c EXCEPT !.cr0rs = cr0, !.cr0 = cr0 \union KVM_VM_CR0_ALWAYS_ON]

\* write_cr0 is its three steps: real mode, long mode, the registers.
LEMMA WriteCr0Steps ==
    ASSUME NEW x, NEW cr0
    PROVE  write_cr0(x, cr0) = WriteRegs(SwitchLong(SwitchMode(x, cr0), cr0), cr0)
  BY DEF write_cr0, SwitchMode, SwitchLong, WriteRegs

\* The first step leaves the mode that PE asks for, and the guest's task
\* register and IOPL in their place.
LEMMA SwitchModeOK ==
    ASSUME NEW x, NEW cr0, Mode(x),
           TssOK(x.rmode.tr) \/ (~x.vm /\ "PE" \notin cr0),
           "PE" \notin cr0 => x.vm \/ x.seg["CS"].limit = "64K"
    PROVE  LET b == SwitchMode(x, cr0) IN
           /\ Mode(b) /\ Frame(x, b) /\ TssOK(b.rmode.tr)
           /\ b.rmode.active <=> "PE" \notin cr0
           /\ x.vm \/ b.vm \/ b = x
           /\ \A o : TaskInv(x, o) => TaskInv(b, o)
<1> USE DEF Mode
<1>1. CASE x.rmode.active /\ "PE" \in cr0
  <2>1. SwitchMode(x, cr0) = enter_pmode(x)
    BY <1>1 DEF SwitchMode
  <2>2. TestVm86(x) /\ TssOK(x.rmode.tr)
    BY <1>1 DEF SegsOK
  <2> DEFINE y == enter_pmode(x)
  <2>3. /\ y \in VCpu /\ Frame(x, y)
        /\ ~y.vm /\ ~y.rmode.active
        /\ BitmapInv(y) /\ TssOK(y.rmode.tr) /\ BasesOK(y) /\ SegsOK(y)
        /\ y.tr.base = x.rmode.tr.base /\ y.tr.limit = x.rmode.tr.limit
        /\ y.iopl = x.rmode.iopl
    BY <2>2, EnterPmodeOK
  <2> HIDE DEF y
  <2>4. \A o : TaskInv(x, o) => TaskInv(y, o)
    BY <1>1, <2>3 DEF TaskInv
  <2>5. SwitchMode(x, cr0) = y
    BY <2>1 DEF y
  <2> QED BY <1>1, <2>3, <2>4, <2>5
<1>2. CASE ~x.rmode.active /\ "PE" \notin cr0
  <2>1. SwitchMode(x, cr0) = enter_rmode(x)
    BY <1>2 DEF SwitchMode
  <2>2. TssOK(x.tr) /\ x.seg["CS"].limit = "64K"
    BY <1>2 DEF SegsOK
  <2> DEFINE y == enter_rmode(x)
  <2>3. /\ y \in VCpu /\ Frame(x, y)
        /\ y.vm /\ y.rmode.active
        /\ BitmapInv(y) /\ TssOK(y.rmode.tr) /\ BasesOK(y) /\ SegsOK(y)
        /\ y.rmode.tr.base = x.tr.base /\ y.rmode.tr.limit = x.tr.limit
        /\ y.rmode.iopl = x.iopl
    BY <2>2, EnterRmodeOK
  <2> HIDE DEF y
  <2>4. \A o : TaskInv(x, o) => TaskInv(y, o)
    BY <1>2, <2>3 DEF TaskInv
  <2>5. SwitchMode(x, cr0) = y
    BY <2>1 DEF y
  <2> QED BY <1>2, <2>3, <2>4, <2>5
<1>3. CASE x.rmode.active <=> "PE" \notin cr0
  <2>1. SwitchMode(x, cr0) = x
    BY <1>3 DEF SwitchMode
  <2>2. Frame(x, x)
    BY DEF Frame, SameBut
  <2> QED BY <1>3, <2>1, <2>2
<1> QED BY <1>1, <1>2, <1>3

\* What a change of long mode leaves alone.
LongFrame(b, c) ==
    /\ c.cr0rs = b.cr0rs /\ c.cr0 = b.cr0 /\ c.cr4rs = b.cr4rs /\ c.cr4 = b.cr4
    /\ c.vm = b.vm /\ c.iopl = b.iopl /\ c.seg = b.seg /\ c.ldtr = b.ldtr
    /\ c.bitmap = b.bitmap /\ c.entry = b.entry /\ c.rmode = b.rmode
    /\ c.cr3 = b.cr3 /\ c.mmu = b.mmu
    /\ c.tr.base = b.tr.base /\ c.tr.limit = b.tr.limit
    /\ TssOK(b.tr) => TssOK(c.tr)
    /\ "LME" \in c.efer <=> "LME" \in b.efer

\* Segment tests see only the segments.
LEMMA SameSegs ==
    ASSUME NEW b, NEW c, c.seg = b.seg, c.vm = b.vm, TssOK(b.tr) => TssOK(c.tr)
    PROVE  (BasesOK(b) => BasesOK(c)) /\ (SegsOK(b) => SegsOK(c))
  BY DEF BasesOK, SegsOK, TestVm86, TestCode, TestStack, TestData

\* enter_lmode sets LMA and the entry control together, and a 64-bit TSS type.
LEMMA EnterLmodeFields ==
    ASSUME NEW b \in VCpu
    PROVE  LET c == enter_lmode(b) IN
           /\ c \in VCpu /\ LongFrame(b, c)
           /\ c.tr.ar.type = 11 /\ c.ia32e /\ c.efer = b.efer \union {"LMA"}
<1> DEFINE ar == [b.tr.ar EXCEPT !.type = 11]
           tr == [b.tr EXCEPT !.ar = ar]
           efer == b.efer \union {"LMA"}
           msr == b.msr \union {"LMA", "LME"}
<1>1. b.tr \in SegType /\ b.tr.ar \in ArType
  BY SegTypes DEF VCpu
<1>2. /\ ar \in ArType /\ ar.type = 11 /\ ar.s = b.tr.ar.s /\ ar.p = b.tr.ar.p
      /\ ar.u = b.tr.ar.u /\ ar.g = b.tr.ar.g
  BY <1>1 DEF ArType
<1> HIDE DEF ar
<1>3. tr \in SegType /\ tr.ar = ar /\ tr.base = b.tr.base /\ tr.limit = b.tr.limit
  BY <1>1, <1>2, SegTypes
<1>4. TssOK(b.tr) => TssOK(tr)
  BY <1>2, <1>3 DEF TssOK, SegGTest
<1>5. efer \subseteq {"LME", "LMA"} /\ msr \subseteq {"LME", "LMA"}
  BY DEF VCpu
<1>6. "LME" \in efer <=> "LME" \in b.efer
  OBVIOUS
<1> HIDE DEF tr, efer, msr
<1> DEFINE c == [b EXCEPT !.tr = tr, !.efer = efer, !.msr = msr, !.ia32e = TRUE]
<1>7. enter_lmode(b) = c
  BY DEF enter_lmode, VCpu, ar, tr, efer, msr
<1>8. c \in VCpu
  BY <1>3, <1>5 DEF VCpu
<1>9. /\ c.cr0rs = b.cr0rs /\ c.cr0 = b.cr0 /\ c.cr4rs = b.cr4rs /\ c.cr4 = b.cr4
      /\ c.vm = b.vm /\ c.iopl = b.iopl /\ c.seg = b.seg /\ c.ldtr = b.ldtr
      /\ c.bitmap = b.bitmap /\ c.entry = b.entry /\ c.rmode = b.rmode
      /\ c.cr3 = b.cr3 /\ c.mmu = b.mmu
      /\ c.tr = tr /\ c.efer = efer /\ c.ia32e = TRUE
  BY DEF VCpu
<1> HIDE DEF c
<1>10. LongFrame(b, c)
  BY <1>3, <1>4, <1>6, <1>9 DEF LongFrame
<1> QED BY <1>2, <1>3, <1>7, <1>8, <1>9, <1>10 DEF efer

\* exit_lmode clears LMA and the entry control together.
LEMMA ExitLmodeFields ==
    ASSUME NEW b \in VCpu
    PROVE  LET c == exit_lmode(b) IN
           /\ c \in VCpu /\ LongFrame(b, c)
           /\ ~c.ia32e /\ c.efer = b.efer \ {"LMA"}
<1> DEFINE efer == b.efer \ {"LMA"}
<1>1. efer \subseteq {"LME", "LMA"} /\ ("LME" \in efer <=> "LME" \in b.efer)
  BY DEF VCpu
<1> HIDE DEF efer
<1> DEFINE c == [b EXCEPT !.efer = efer, !.ia32e = FALSE]
<1>2. exit_lmode(b) = c
  BY DEF exit_lmode, VCpu, efer
<1>3. c \in VCpu
  BY <1>1 DEF VCpu
<1>4. /\ c.cr0rs = b.cr0rs /\ c.cr0 = b.cr0 /\ c.cr4rs = b.cr4rs /\ c.cr4 = b.cr4
      /\ c.vm = b.vm /\ c.iopl = b.iopl /\ c.seg = b.seg /\ c.ldtr = b.ldtr
      /\ c.bitmap = b.bitmap /\ c.entry = b.entry /\ c.rmode = b.rmode
      /\ c.cr3 = b.cr3 /\ c.mmu = b.mmu
      /\ c.tr = b.tr /\ c.efer = efer /\ c.ia32e = FALSE
  BY DEF VCpu
<1> HIDE DEF c
<1>5. LongFrame(b, c)
  BY <1>1, <1>4 DEF LongFrame
<1> QED BY <1>2, <1>3, <1>4, <1>5 DEF efer

-----------------------------------------------------------------------------
(* A write to CR0 as a whole.                                              *)

\* The bits that decide the mode are read from the read shadows.
LEMMA GuestBits ==
    ASSUME NEW x
    PROVE  /\ is_paging(x) <=> "PG" \in x.cr0rs
           /\ "PE" \in guest_cr0(x) <=> "PE" \in x.cr0rs
           /\ is_pae(x) <=> "PAE" \in x.cr4rs
  BY DEF is_paging, is_pae, guest_cr0, guest_cr4, KVM_GUEST_CR0_MASK,
         KVM_VM_CR0_ALWAYS_ON, KVM_GUEST_CR4_MASK

\* The third step of a write to CR0.
LEMMA WriteRegsFields ==
    ASSUME NEW c \in VCpu, NEW cr0 \in SUBSET Cr0Bits
    PROVE  LET y == WriteRegs(c, cr0) IN
           /\ y \in VCpu /\ y.cr0rs = cr0 /\ KVM_VM_CR0_ALWAYS_ON \subseteq y.cr0
           /\ y.cr4rs = c.cr4rs /\ y.cr4 = c.cr4
           /\ y.ia32e = c.ia32e /\ y.efer = c.efer /\ y.msr = c.msr
           /\ y.vm = c.vm /\ y.iopl = c.iopl /\ y.seg = c.seg /\ y.ldtr = c.ldtr
           /\ y.bitmap = c.bitmap /\ y.entry = c.entry /\ y.rmode = c.rmode
           /\ y.cr3 = c.cr3 /\ y.mmu = c.mmu /\ y.tr = c.tr
<1> DEFINE hw == cr0 \union KVM_VM_CR0_ALWAYS_ON
<1>1. hw \subseteq Cr0Bits /\ KVM_VM_CR0_ALWAYS_ON \subseteq hw
  BY DEF Cr0Bits, KVM_VM_CR0_ALWAYS_ON
<1> HIDE DEF hw
<1>2. WriteRegs(c, cr0) = [c EXCEPT !.cr0rs = cr0, !.cr0 = hw]
  BY DEF WriteRegs, hw
<1>3. WriteRegs(c, cr0) \in VCpu
  BY <1>1, <1>2, ZenonT(40) DEF VCpu
<1> QED BY <1>1, <1>2, <1>3 DEF VCpu

\* What holds of a vcpu before its MMU context is made anew, and before
\* CR4 is written for the first time.
Early(y) ==
    /\ y \in VCpu
    /\ LongInv(y) /\ PeInv(y) /\ BitmapInv(y) /\ TssOK(y.rmode.tr)
    /\ Fit(y)

Ready(y) == Early(y) /\ FixedOn(y)

\* Everything but the MMU context fits after a write to CR0 that set_cr0
\* does not refuse.
LEMMA WriteCr0OK ==
    ASSUME NEW x, NEW cr0 \in SUBSET Cr0Bits,
           Mode(x), LdtrInv(x),
           TssOK(x.rmode.tr) \/ (~x.vm /\ "PE" \notin cr0),
           x.ia32e <=> "LMA" \in x.efer,
           x.ia32e <=> "LME" \in x.efer /\ is_paging(x),
           x.ia32e => is_pae(x) /\ x.tr.ar.type = 11 /\ ~x.vm,
           "PE" \notin cr0 => x.vm \/ x.seg["CS"].limit = "64K",
           "PG" \in cr0 => "PE" \in cr0,
           ~is_paging(x) /\ "PG" \in cr0 /\ "LME" \in x.efer => is_pae(x)
    PROVE  LET y == write_cr0(x, cr0) IN
           /\ Early(y)
           /\ {"VMXE", "PAE"} \subseteq x.cr4 => Ready(y)
           /\ KVM_VM_CR0_ALWAYS_ON \subseteq y.cr0
           /\ y.entry = x.entry /\ y.cr3 = x.cr3 /\ y.cr0rs = cr0
           /\ "LME" \in y.efer <=> "LME" \in x.efer
           /\ \A o : TaskInv(x, o) => TaskInv(y, o)
<1> DEFINE b == SwitchMode(x, cr0)
           c == SwitchLong(b, cr0)
           y == WriteRegs(c, cr0)
<1>1. /\ Mode(b) /\ Frame(x, b) /\ TssOK(b.rmode.tr)
      /\ b.rmode.active <=> "PE" \notin cr0
      /\ x.vm \/ b.vm \/ b = x
      /\ \A o : TaskInv(x, o) => TaskInv(b, o)
  BY SwitchModeOK
<1> HIDE DEF b
<1>2. /\ is_paging(x) <=> "PG" \in x.cr0rs
      /\ is_pae(x) <=> "PAE" \in x.cr4rs
      /\ is_paging(b) <=> "PG" \in x.cr0rs
      /\ b.efer = x.efer /\ b.ia32e = x.ia32e /\ b \in VCpu
      /\ b.cr4rs = x.cr4rs /\ b.entry = x.entry /\ b.cr3 = x.cr3 /\ b.ldtr = x.ldtr
  BY <1>1, GuestBits DEF Frame, Mode
<1>3. {"VMXE", "PAE"} \subseteq x.cr4 => {"VMXE", "PAE"} \subseteq b.cr4
  BY <1>1 DEF Frame, SameBut
<1>4. /\ c \in VCpu /\ LongFrame(b, c)
      /\ c.ia32e <=> "LMA" \in c.efer
      /\ c.ia32e <=> "LME" \in c.efer /\ "PG" \in cr0
      /\ c.ia32e => "PAE" \in c.cr4rs /\ c.tr.ar.type = 11
  <2>1. CASE "LME" \in b.efer /\ ~is_paging(b) /\ "PG" \in cr0
    <3>1. c = enter_lmode(b)
      BY <2>1 DEF SwitchLong
    <3> HIDE DEF c
    <3>2. /\ c \in VCpu /\ LongFrame(b, c)
          /\ c.tr.ar.type = 11 /\ c.ia32e /\ c.efer = b.efer \union {"LMA"}
      BY <1>2, <3>1, EnterLmodeFields
    <3> QED BY <1>2, <2>1, <3>2 DEF LongFrame
  <2>2. CASE "LME" \in b.efer /\ is_paging(b) /\ "PG" \notin cr0
    <3>1. c = exit_lmode(b)
      BY <2>2 DEF SwitchLong
    <3> HIDE DEF c
    <3>2. /\ c \in VCpu /\ LongFrame(b, c)
          /\ ~c.ia32e /\ c.efer = b.efer \ {"LMA"}
      BY <1>2, <3>1, ExitLmodeFields
    <3> QED BY <2>2, <3>2
  <2>3. CASE "LME" \notin b.efer \/ (is_paging(b) <=> "PG" \in cr0)
    <3>1. c = b
      BY <2>3 DEF SwitchLong
    <3>2. LongFrame(b, b)
      BY DEF LongFrame
    <3>3. x.ia32e => b.tr = x.tr
      BY <1>1, <1>2, <2>3 DEF Mode
    <3> HIDE DEF c
    <3> QED BY <1>2, <2>3, <3>1, <3>2, <3>3
  <2> QED BY <2>1, <2>2, <2>3
<1> HIDE DEF c
<1>5. /\ y \in VCpu /\ y.cr0rs = cr0 /\ KVM_VM_CR0_ALWAYS_ON \subseteq y.cr0
      /\ y.cr4rs = c.cr4rs /\ y.cr4 = c.cr4
      /\ y.ia32e = c.ia32e /\ y.efer = c.efer
      /\ y.vm = c.vm /\ y.iopl = c.iopl /\ y.seg = c.seg /\ y.ldtr = c.ldtr
      /\ y.bitmap = c.bitmap /\ y.entry = c.entry /\ y.rmode = c.rmode
      /\ y.cr3 = c.cr3 /\ y.tr = c.tr
  BY <1>4, WriteRegsFields
<1>6. write_cr0(x, cr0) = y
  BY WriteCr0Steps DEF b, c
<1> HIDE DEF y
<1>7. {"VMXE", "PAE"} \subseteq x.cr4 => FixedOn(y)
  BY <1>3, <1>4, <1>5 DEF FixedOn, LongFrame
<1>8. /\ is_paging(y) <=> "PG" \in cr0
      /\ "PE" \in guest_cr0(y) <=> "PE" \in cr0
      /\ is_pae(y) <=> "PAE" \in y.cr4rs
  BY <1>5, GuestBits
<1>9. LongInv(y)
  BY <1>4, <1>5, <1>8 DEF LongInv
<1>10. PeInv(y) /\ BitmapInv(y) /\ TssOK(y.rmode.tr)
  BY <1>1, <1>4, <1>5, <1>8 DEF PeInv, BitmapInv, Mode, LongFrame
<1>11. y.seg = b.seg /\ y.vm = b.vm /\ (TssOK(b.tr) => TssOK(y.tr))
  BY <1>4, <1>5 DEF LongFrame
<1>12. BasesOK(y) /\ SegsOK(y)
  BY <1>1, <1>11, SameSegs DEF Mode
<1>13. Fit(y)
  <2>1. y.ldtr = x.ldtr /\ (y.vm <=> y.rmode.active)
    BY <1>1, <1>2, <1>4, <1>5 DEF LongFrame, Mode
  <2>2. LdtrInv(y)
    BY <2>1 DEF LdtrInv, TestLdtr
  <2> QED BY <1>4, <1>5, <1>12, <2>1, <2>2 DEF Fit
<1>14. \A o : TaskInv(x, o) => TaskInv(y, o)
  BY <1>1, <1>4, <1>5 DEF TaskInv, LongFrame
<1>15. /\ y.entry = x.entry /\ y.cr3 = x.cr3
       /\ "LME" \in y.efer <=> "LME" \in x.efer
  BY <1>2, <1>4, <1>5 DEF LongFrame
<1> QED BY <1>5, <1>6, <1>7, <1>9, <1>10, <1>13, <1>14, <1>15
       DEF Early, Ready

\* Making the MMU context anew gives what the mode needs.
LEMMA ResetOK ==
    ASSUME NEW y, Ready(y)
    PROVE  LET z == kvm_mmu_reset_context(y) IN
           /\ Kept(z) /\ Fit(z)
           /\ z.entry = y.entry /\ z.efer = y.efer /\ z.cr0rs = y.cr0rs
           /\ z.vm = y.vm /\ z.iopl = y.iopl /\ z.tr = y.tr
           /\ z.seg = y.seg /\ z.rmode = y.rmode
           /\ \A o : TaskInv(y, o) => TaskInv(z, o)
<1> DEFINE k == init_kvm_mmu(y)
           z == [y EXCEPT !.mmu = k]
<1>1. y \in VCpu
  BY DEF Ready, Early
<1>2. k \in MmuKinds
  BY DEF init_kvm_mmu, MmuKinds
<1> HIDE DEF k
<1>3. z \in VCpu
  BY <1>1, <1>2 DEF VCpu
<1>4. /\ z.cr0rs = y.cr0rs /\ z.cr0 = y.cr0 /\ z.cr4rs = y.cr4rs /\ z.cr4 = y.cr4
      /\ z.ia32e = y.ia32e /\ z.efer = y.efer
      /\ z.vm = y.vm /\ z.iopl = y.iopl /\ z.seg = y.seg /\ z.ldtr = y.ldtr
      /\ z.bitmap = y.bitmap /\ z.entry = y.entry /\ z.rmode = y.rmode
      /\ z.cr3 = y.cr3 /\ z.tr = y.tr /\ z.mmu = k
  BY <1>1 DEF VCpu
<1>5. kvm_mmu_reset_context(y) = z
  BY DEF kvm_mmu_reset_context, k
<1> HIDE DEF z
<1>6. /\ guest_cr0(z) = guest_cr0(y) /\ guest_cr4(z) = guest_cr4(y)
      /\ is_long_mode(z) = is_long_mode(y)
  BY <1>4 DEF guest_cr0, guest_cr4, is_long_mode
<1>7. is_paging(z) = is_paging(y) /\ is_pae(z) = is_pae(y)
  BY <1>6 DEF is_paging, is_pae
<1>8. MmuInv(z)
  BY <1>4, <1>6, <1>7 DEF MmuInv, init_kvm_mmu, k
<1>9. Kept(z)
  BY <1>3, <1>4, <1>6, <1>7, <1>8
     DEF Kept, Ready, Early, FixedOn, LongInv, PeInv, BitmapInv
<1>10. BasesOK(z) /\ SegsOK(z)
  BY <1>4, SameSegs DEF Ready, Early, Fit
<1>11. Fit(z)
  BY <1>4, <1>10 DEF Ready, Early, Fit, LdtrInv, TestLdtr
<1>12. \A o : TaskInv(y, o) => TaskInv(z, o)
  BY <1>4 DEF TaskInv
<1> QED BY <1>4, <1>5, <1>9, <1>11, <1>12

-----------------------------------------------------------------------------
(* Frames: which fields the parts of the invariant depend on.              *)

Good(x) == Kept(x) /\ Fit(x)

\* The kind of shadow tables depends on PG, PAE and long mode only.
LEMMA MmuSame ==
    ASSUME NEW x, NEW y, "PG" \in y.cr0rs <=> "PG" \in x.cr0rs,
           "PAE" \in y.cr4rs <=> "PAE" \in x.cr4rs, y.ia32e = x.ia32e
    PROVE  init_kvm_mmu(y) = init_kvm_mmu(x)
<1>1. /\ is_paging(x) <=> "PG" \in x.cr0rs
      /\ is_pae(x) <=> "PAE" \in x.cr4rs
      /\ is_paging(y) <=> "PG" \in y.cr0rs
      /\ is_pae(y) <=> "PAE" \in y.cr4rs
  BY GuestBits
<1>2. is_long_mode(y) = is_long_mode(x)
  BY DEF is_long_mode
<1> QED BY <1>1, <1>2 DEF init_kvm_mmu

\* Registers that agree on what Kept reads are kept alike.
LEMMA KeptSame ==
    ASSUME NEW x, NEW y, Kept(x), y \in VCpu,
           y.cr0rs = x.cr0rs, KVM_VM_CR0_ALWAYS_ON \subseteq y.cr0,
           y.cr4rs = x.cr4rs, y.cr4 = x.cr4, y.ia32e = x.ia32e, y.efer = x.efer,
           y.rmode = x.rmode, y.mmu = x.mmu, BitmapInv(y)
    PROVE  Kept(y)
<1>1. /\ is_paging(x) <=> "PG" \in x.cr0rs
      /\ "PE" \in guest_cr0(x) <=> "PE" \in x.cr0rs
      /\ is_pae(x) <=> "PAE" \in x.cr4rs
      /\ is_paging(y) <=> "PG" \in x.cr0rs
      /\ "PE" \in guest_cr0(y) <=> "PE" \in x.cr0rs
      /\ is_pae(y) <=> "PAE" \in x.cr4rs
  BY GuestBits
<1>2. MmuInv(y)
  BY MmuSame DEF Kept, MmuInv
<1>3. LongInv(y) /\ PeInv(y)
  BY <1>1 DEF Kept, LongInv, PeInv
<1> QED BY <1>2, <1>3 DEF Kept, FixedOn

\* Segments that agree on what Fit reads fit alike.
LEMMA FitSame ==
    ASSUME NEW x, NEW y, Fit(x), y.vm = x.vm, y.rmode = x.rmode, y.seg = x.seg,
           y.tr = x.tr, y.ldtr = x.ldtr, y.ia32e = x.ia32e
    PROVE  Fit(y)
<1>1. BasesOK(y) /\ SegsOK(y)
  BY SameSegs DEF Fit
<1> QED BY <1>1 DEF Fit, LdtrInv, TestLdtr

\* What a fit vcpu has for the lemmas on CR0.
LEMMA GoodMode ==
    ASSUME NEW x, Good(x)
    PROVE  /\ x \in VCpu /\ Mode(x) /\ LdtrInv(x) /\ TssOK(x.rmode.tr)
           /\ {"VMXE", "PAE"} \subseteq x.cr4
           /\ x.ia32e <=> "LMA" \in x.efer
           /\ x.ia32e <=> "LME" \in x.efer /\ is_paging(x)
           /\ x.ia32e => is_pae(x) /\ x.tr.ar.type = 11 /\ ~x.vm
           /\ x.vm <=> "PE" \notin x.cr0rs
           /\ is_paging(x) => "PE" \in x.cr0rs
  BY GuestBits DEF Good, Kept, Fit, Mode, FixedOn, LongInv, PeInv

-----------------------------------------------------------------------------
(* The handlers.  Done(x, y): a handler may take x to y.                   *)

Done(x, y) ==
    /\ Good(y)
    /\ \A o : TaskInv(x, o) => TaskInv(y, o)
    /\ ("LME" \in x.efer) # ("LME" \in y.efer) => ~is_paging(x) /\ ~is_paging(y)

\* A #GP written into the entry field disturbs nothing else.
LEMMA InjectOK ==
    ASSUME NEW x, Good(x), NEW e \in {"none", "gp"}
    PROVE  LET y == [x EXCEPT !.entry = e] IN
           /\ Done(x, y) /\ y.entry = e /\ y.vm = x.vm /\ y.ia32e = x.ia32e
           /\ y.efer = x.efer /\ (is_paging(y) <=> is_paging(x))
<1> DEFINE y == [x EXCEPT !.entry = e]
<1>1. x \in VCpu
  BY DEF Good, Kept
<1>2. /\ y \in VCpu /\ y.entry = e
      /\ y.cr0rs = x.cr0rs /\ y.cr0 = x.cr0 /\ y.cr4rs = x.cr4rs /\ y.cr4 = x.cr4
      /\ y.ia32e = x.ia32e /\ y.efer = x.efer /\ y.rmode = x.rmode /\ y.mmu = x.mmu
      /\ y.bitmap = x.bitmap /\ y.vm = x.vm /\ y.seg = x.seg /\ y.tr = x.tr
      /\ y.ldtr = x.ldtr /\ y.iopl = x.iopl
  BY <1>1 DEF VCpu
<1> HIDE DEF y
<1>3. BitmapInv(y) /\ KVM_VM_CR0_ALWAYS_ON \subseteq y.cr0
  BY <1>2 DEF Good, Kept, BitmapInv, FixedOn
<1>4. Good(y)
  BY <1>2, <1>3, KeptSame, FitSame DEF Good
<1>5. \A o : TaskInv(x, o) => TaskInv(y, o)
  BY <1>2 DEF TaskInv
<1>6. Done(x, y)
  BY <1>2, <1>4, <1>5 DEF Done
<1>7. is_paging(y) <=> is_paging(x)
  BY <1>2, GuestBits
<1> QED BY <1>2, <1>6, <1>7 DEF y

\* A refusal or an accepted write: either way the vcpu stays fit.
LEMMA SetCr0OK ==
    ASSUME NEW x, Good(x), NEW cr0 \in SUBSET {"PE", "PG", "TS", "NW", "CD", "RSV"},
           "PE" \notin cr0 => x.vm \/ x.seg["CS"].limit = "64K"
    PROVE  LET y == set_cr0(x, cr0) IN
           /\ Done(x, y)
           /\ y = inject_gp(x) \/ y.entry = x.entry
           /\ IF Cr0Refused(x, cr0) THEN y.vm = x.vm ELSE y.vm <=> "PE" \notin cr0
<1>1. CASE Cr0Refused(x, cr0)
  <2> DEFINE e == "gp"
             y == [x EXCEPT !.entry = e]
  <2>1. e \in {"none", "gp"}
    OBVIOUS
  <2>2. Done(x, y) /\ y.vm = x.vm
    BY <2>1, InjectOK
  <2>3. set_cr0(x, cr0) = y /\ y = inject_gp(x)
    BY <1>1 DEF set_cr0, inject_gp
  <2> HIDE DEF y
  <2> QED BY <1>1, <2>2, <2>3
<1>2. CASE ~Cr0Refused(x, cr0)
  <2> DEFINE y == write_cr0(x, cr0)
             z == kvm_mmu_reset_context(y)
  <2>1. cr0 \in SUBSET Cr0Bits
    BY <1>2 DEF Cr0Refused, Cr0Bits
  <2>2. /\ "PG" \in cr0 => "PE" \in cr0
        /\ ~is_paging(x) /\ "PG" \in cr0 /\ "LME" \in x.efer => is_pae(x)
    BY <1>2 DEF Cr0Refused
  <2>3. /\ Ready(y)
        /\ y.entry = x.entry /\ y.cr0rs = cr0
        /\ "LME" \in y.efer <=> "LME" \in x.efer
        /\ \A o : TaskInv(x, o) => TaskInv(y, o)
    BY <2>1, <2>2, GoodMode, WriteCr0OK
  <2> HIDE DEF y
  <2>4. /\ Kept(z) /\ Fit(z)
        /\ z.entry = y.entry /\ z.efer = y.efer /\ z.cr0rs = y.cr0rs
        /\ \A o : TaskInv(y, o) => TaskInv(z, o)
    BY <2>3, ResetOK
  <2> HIDE DEF z
  <2>5. Done(x, z) /\ z.entry = x.entry
    BY <2>3, <2>4 DEF Done, Good
  <2>6. z.vm <=> "PE" \notin cr0
    BY <2>3, <2>4, GoodMode DEF Good
  <2>7. set_cr0(x, cr0) = z
    BY <1>2 DEF set_cr0, y, z
  <2> QED BY <1>2, <2>5, <2>6, <2>7
<1> QED BY <1>1, <1>2

\* set_cr3 either refuses with a #GP or only loads CR3.
LEMMA SetCr3OK ==
    ASSUME NEW x, Good(x), NEW cr3 \in {"ok", "bad", "rsv"}
    PROVE  LET y == set_cr3(x, cr3) IN
           Done(x, y) /\ (y = inject_gp(x) \/ y.entry = x.entry)
<1>1. x \in VCpu
  BY DEF Good, Kept
<1>2. CASE set_cr3(x, cr3) = inject_gp(x)
  <2> DEFINE e == "gp"
  <2>1. Done(x, [x EXCEPT !.entry = e])
    BY InjectOK
  <2> QED BY <1>2, <2>1 DEF inject_gp
<1>3. CASE cr3 # "rsv" /\ set_cr3(x, cr3) = [x EXCEPT !.cr3 = cr3]
  <2> DEFINE y == [x EXCEPT !.cr3 = cr3]
  <2>1. /\ y \in VCpu /\ y.entry = x.entry
        /\ y.cr0rs = x.cr0rs /\ y.cr0 = x.cr0 /\ y.cr4rs = x.cr4rs /\ y.cr4 = x.cr4
        /\ y.ia32e = x.ia32e /\ y.efer = x.efer /\ y.rmode = x.rmode /\ y.mmu = x.mmu
        /\ y.bitmap = x.bitmap /\ y.vm = x.vm /\ y.seg = x.seg /\ y.tr = x.tr
        /\ y.ldtr = x.ldtr /\ y.iopl = x.iopl
    BY <1>1, <1>3 DEF VCpu
  <2> HIDE DEF y
  <2>2. BitmapInv(y) /\ KVM_VM_CR0_ALWAYS_ON \subseteq y.cr0
    BY <2>1 DEF Good, Kept, BitmapInv, FixedOn
  <2>3. Good(y)
    BY <2>1, <2>2, KeptSame, FitSame DEF Good
  <2>4. \A o : TaskInv(x, o) => TaskInv(y, o)
    BY <2>1 DEF TaskInv
  <2>5. Done(x, y) /\ y.entry = x.entry
    BY <2>1, <2>3, <2>4 DEF Done
  <2>6. set_cr3(x, cr3) = y
    BY <1>3 DEF y
  <2> QED BY <2>5, <2>6
<1> QED BY <1>2, <1>3 DEF set_cr3

\* What write_cr4 sets, and what it leaves.
LEMMA WriteCr4Fields ==
    ASSUME NEW x \in VCpu, NEW cr4 \in Cr4Shadows
    PROVE  LET y == write_cr4(x, cr4) IN
           /\ y \in VCpu /\ y.cr4rs = cr4 /\ {"VMXE", "PAE"} \subseteq y.cr4
           /\ y.cr0rs = x.cr0rs /\ y.cr0 = x.cr0 /\ y.entry = x.entry
           /\ y.ia32e = x.ia32e /\ y.efer = x.efer /\ y.rmode = x.rmode /\ y.mmu = x.mmu
           /\ y.bitmap = x.bitmap /\ y.vm = x.vm /\ y.seg = x.seg /\ y.tr = x.tr
           /\ y.ldtr = x.ldtr /\ y.iopl = x.iopl /\ y.cr3 = x.cr3
<1> DEFINE hw == cr4 \union {"VMXE", "PAE"}
                     \union (IF x.rmode.active THEN {"VME"} ELSE {})
<1>1. hw \subseteq Cr4Bits /\ {"VMXE", "PAE"} \subseteq hw
  BY DEF Cr4Bits, Cr4Shadows
<1> HIDE DEF hw
<1>2. write_cr4(x, cr4) = [x EXCEPT !.cr4rs = cr4, !.cr4 = hw]
  BY DEF write_cr4, hw
<1>3. write_cr4(x, cr4) \in VCpu
  BY <1>1, <1>2, ZenonT(40) DEF VCpu
<1> QED BY <1>1, <1>2, <1>3 DEF VCpu

\* A CR4 that keeps PAE in long mode keeps the guest well formed.
LEMMA WriteCr4OK ==
    ASSUME NEW x, Good(x), NEW cr4 \in Cr4Shadows,
           x.ia32e => "PAE" \in cr4
    PROVE  LET y == kvm_mmu_reset_context(write_cr4(x, cr4)) IN
           Done(x, y) /\ y.entry = x.entry /\ y.vm = x.vm
<1> DEFINE y == write_cr4(x, cr4)
           z == kvm_mmu_reset_context(y)
<1>1. x \in VCpu
  BY DEF Good, Kept
<1>2. /\ y \in VCpu /\ y.cr4rs = cr4 /\ {"VMXE", "PAE"} \subseteq y.cr4
      /\ y.cr0rs = x.cr0rs /\ y.cr0 = x.cr0 /\ y.entry = x.entry
      /\ y.ia32e = x.ia32e /\ y.efer = x.efer /\ y.rmode = x.rmode
      /\ y.bitmap = x.bitmap /\ y.vm = x.vm /\ y.seg = x.seg /\ y.tr = x.tr
      /\ y.ldtr = x.ldtr /\ y.iopl = x.iopl
  BY <1>1, WriteCr4Fields
<1> HIDE DEF y
<1>3. /\ is_paging(x) <=> "PG" \in x.cr0rs
      /\ "PE" \in guest_cr0(x) <=> "PE" \in x.cr0rs
      /\ is_paging(y) <=> "PG" \in x.cr0rs
      /\ "PE" \in guest_cr0(y) <=> "PE" \in x.cr0rs
      /\ is_pae(y) <=> "PAE" \in cr4
  BY <1>2, GuestBits
<1>4. FixedOn(y) /\ LongInv(y) /\ PeInv(y) /\ BitmapInv(y)
  BY <1>2, <1>3 DEF Good, Kept, FixedOn, LongInv, PeInv, BitmapInv
<1>5. Fit(y) /\ TssOK(y.rmode.tr)
  BY <1>2, FitSame DEF Good, Kept
<1>6. Ready(y)
  BY <1>2, <1>4, <1>5 DEF Ready, Early
<1>7. /\ Kept(z) /\ Fit(z)
      /\ z.entry = y.entry /\ z.efer = y.efer /\ z.vm = y.vm
      /\ \A o : TaskInv(y, o) => TaskInv(z, o)
  BY <1>6, ResetOK
<1> HIDE DEF z
<1>8. \A o : TaskInv(x, o) => TaskInv(y, o)
  BY <1>2 DEF TaskInv
<1>9. Done(x, z) /\ z.entry = x.entry /\ z.vm = x.vm
  BY <1>2, <1>7, <1>8 DEF Done, Good
<1> QED BY <1>9 DEF y, z

\* set_cr4 keeps the guest well formed, whatever value the guest loads.
LEMMA SetCr4OK ==
    ASSUME NEW x, Good(x), NEW cr4 \in SUBSET {"VME", "PAE", "VMXE", "RSV"}
    PROVE  LET y == set_cr4(x, cr4) IN
           /\ Done(x, y)
           /\ \/ y = inject_gp(x) \/ y.entry = x.entry
              \/ Cr4GpOnly(x, cr4) /\ ~Cr4Refused(x, cr4)
           /\ y.vm = x.vm
<1> DEFINE e == "gp"
           g == [x EXCEPT !.entry = e]
<1>1. /\ Done(x, g) /\ g.entry = "gp" /\ g.vm = x.vm /\ g.ia32e = x.ia32e
      /\ g.efer = x.efer /\ (is_paging(g) <=> is_paging(x))
      /\ g = inject_gp(x)
  BY InjectOK DEF inject_gp
<1> HIDE DEF g
<1>2. CASE Cr4Refused(x, cr4)
  <2>1. set_cr4(x, cr4) = g
    BY <1>1, <1>2 DEF set_cr4
  <2> QED BY <1>1, <2>1
<1>3. CASE ~Cr4Refused(x, cr4)
  <2>1. /\ cr4 \in Cr4Shadows
        /\ x.ia32e => "PAE" \in cr4
    BY <1>3 DEF Cr4Refused, Cr4Bits, Cr4Shadows, is_long_mode
  <2>2. CASE Cr4GpOnly(x, cr4)
    <3> DEFINE z == kvm_mmu_reset_context(write_cr4(g, cr4))
    <3>1. set_cr4(x, cr4) = z
      BY <1>1, <1>3, <2>2 DEF set_cr4
    <3>2. Good(g)
      BY <1>1 DEF Done
    <3>3. Done(g, z) /\ z.vm = g.vm
      BY <1>1, <2>1, <3>2, WriteCr4OK
    <3> HIDE DEF z
    <3>4. Done(x, z)
      BY <1>1, <3>3 DEF Done
    <3> QED BY <1>1, <1>3, <2>2, <3>1, <3>3, <3>4
  <2>3. CASE ~Cr4GpOnly(x, cr4)
    <3> DEFINE z == kvm_mmu_reset_context(write_cr4(x, cr4))
    <3>1. set_cr4(x, cr4) = z
      BY <1>3, <2>3 DEF set_cr4
    <3>2. Done(x, z) /\ z.entry = x.entry /\ z.vm = x.vm
      BY <2>1, WriteCr4OK
    <3> QED BY <3>1, <3>2
  <2> QED BY <2>2, <2>3
<1> QED BY <1>2, <1>3

\* set_efer keeps the guest well formed, whatever value the guest loads.
LEMMA SetEferOK ==
    ASSUME NEW x, Good(x), NEW efer \in SUBSET {"LME", "LMA", "RSV"}
    PROVE  LET y == set_efer(x, efer) IN
           Done(x, y) /\ (y = inject_gp(x) \/ y.entry = x.entry) /\ y.vm = x.vm
<1>1. x \in VCpu
  BY DEF Good, Kept
<1>2. CASE set_efer(x, efer) = inject_gp(x)
  <2> DEFINE e == "gp"
             y == [x EXCEPT !.entry = e]
  <2>1. Done(x, y) /\ y.vm = x.vm
    BY InjectOK
  <2>2. y = inject_gp(x)
    BY DEF inject_gp
  <2> HIDE DEF y
  <2> QED BY <1>2, <2>1, <2>2
<1> DEFINE e == (efer \ {"LMA"}) \union (x.efer \cap {"LMA"})
           m == IF "LMA" \in e THEN e ELSE e \ {"LME"}
           y == [x EXCEPT !.efer = e, !.msr = m]
<1>3. CASE /\ "RSV" \notin efer /\ set_efer(x, efer) = y
           /\ ~(is_paging(x) /\ ("LME" \in x.efer) # ("LME" \in efer))
  <2>1. /\ e \subseteq {"LME", "LMA"} /\ m \subseteq {"LME", "LMA"}
        /\ "LMA" \in e <=> "LMA" \in x.efer
        /\ "LME" \in e <=> "LME" \in efer
    BY <1>1, <1>3 DEF VCpu
  <2> HIDE DEF e, m
  <2>2. /\ y \in VCpu /\ y.entry = x.entry /\ y.efer = e
        /\ y.cr0rs = x.cr0rs /\ y.cr0 = x.cr0 /\ y.cr4rs = x.cr4rs /\ y.cr4 = x.cr4
        /\ y.ia32e = x.ia32e /\ y.rmode = x.rmode /\ y.mmu = x.mmu
        /\ y.bitmap = x.bitmap /\ y.vm = x.vm /\ y.seg = x.seg /\ y.tr = x.tr
        /\ y.ldtr = x.ldtr /\ y.iopl = x.iopl
    BY <1>1, <2>1 DEF VCpu
  <2>0. set_efer(x, efer) = y
    BY <1>3
  <2> HIDE DEF y
  <2>3. /\ is_paging(x) <=> "PG" \in x.cr0rs
        /\ "PE" \in guest_cr0(x) <=> "PE" \in x.cr0rs
        /\ is_pae(x) <=> "PAE" \in x.cr4rs
        /\ is_paging(y) <=> "PG" \in x.cr0rs
        /\ "PE" \in guest_cr0(y) <=> "PE" \in x.cr0rs
        /\ is_pae(y) <=> "PAE" \in x.cr4rs
    BY <2>2, GuestBits
  <2>4. LongInv(y) /\ PeInv(y)
    BY <1>3, <2>1, <2>2, <2>3 DEF Good, Kept, LongInv, PeInv
  <2>5. MmuInv(y)
    BY <2>2, MmuSame DEF Good, Kept, MmuInv
  <2>6. Kept(y)
    BY <2>2, <2>4, <2>5 DEF Good, Kept, FixedOn, BitmapInv
  <2>7. Fit(y)
    BY <2>2, FitSame DEF Good
  <2>8. \A o : TaskInv(x, o) => TaskInv(y, o)
    BY <2>2 DEF TaskInv
  <2>9. Done(x, y)
    BY <1>3, <2>1, <2>2, <2>3, <2>6, <2>7, <2>8 DEF Done, Good
  <2> QED BY <2>0, <2>2, <2>9
<1> QED BY <1>2, <1>3 DEF set_efer

\* lmsw leaves real mode like a write to CR0, but keeps the MMU context: it
\* cannot change paging.
LEMMA LmswOK ==
    ASSUME NEW x, Good(x), NEW msw \in SUBSET {"PE", "TS"}
    PROVE  LET y == lmsw(x, msw) IN Done(x, y) /\ y.entry = x.entry
<1>1. x \in VCpu
  BY DEF Good, Kept
<1> DEFINE hw(cr0) == (cr0 \ LMSW_GUEST_MASK) \union (msw \cap LMSW_GUEST_MASK)
<1>2. ASSUME NEW cr0 \in SUBSET Cr0Bits, KVM_VM_CR0_ALWAYS_ON \subseteq cr0
      PROVE  hw(cr0) \in SUBSET Cr0Bits /\ KVM_VM_CR0_ALWAYS_ON \subseteq hw(cr0)
  BY <1>2 DEF Cr0Bits, KVM_VM_CR0_ALWAYS_ON, LMSW_GUEST_MASK
<1>3. x.cr0 \in SUBSET Cr0Bits /\ KVM_VM_CR0_ALWAYS_ON \subseteq x.cr0
  BY <1>1 DEF VCpu, Good, Kept, FixedOn
<1> DEFINE new == hw(x.cr0)
<1>4. new \in SUBSET Cr0Bits /\ KVM_VM_CR0_ALWAYS_ON \subseteq new
  BY <1>2, <1>3
<1>5. CASE "PE" \in msw /\ "PE" \notin guest_cr0(x)
  <2> DEFINE sh == guest_cr0(x) \union {"PE"}
             b == enter_pmode(x)
             y == [b EXCEPT !.cr0rs = sh, !.cr0 = new]
  <2>1. sh \in SUBSET Cr0Bits /\ "PE" \in sh /\ ("PG" \in sh <=> "PG" \in x.cr0rs)
    BY <1>1, GuestBits DEF VCpu, guest_cr0, Cr0Bits, is_paging
  <2> HIDE DEF sh
  <2>2. x.vm /\ TestVm86(x) /\ BasesOK(x) /\ TssOK(x.rmode.tr) /\ x.rmode.active
    BY <1>5 DEF Good, Kept, Fit, PeInv, SegsOK
  <2>3. /\ b \in VCpu /\ Frame(x, b)
        /\ ~b.vm /\ ~b.rmode.active
        /\ BitmapInv(b) /\ TssOK(b.rmode.tr) /\ BasesOK(b) /\ SegsOK(b)
        /\ b.tr.base = x.rmode.tr.base /\ b.tr.limit = x.rmode.tr.limit
        /\ b.iopl = x.rmode.iopl
    BY <1>1, <2>2, EnterPmodeOK
  <2>4. lmsw(x, msw) = [b EXCEPT !.cr0rs = sh, !.cr0 = hw(b.cr0)]
    BY <1>5, <2>3 DEF lmsw, sh, VCpu
  <2>5. b.cr0 = x.cr0
    BY <2>3 DEF Frame
  <2> HIDE DEF b
  <2>6. lmsw(x, msw) = y
    BY <2>4, <2>5
  <2> HIDE DEF new
  <2>7. y \in VCpu
    BY <1>4, <2>1, <2>3 DEF VCpu
  <2>8. /\ y.cr0rs = sh /\ y.cr0 = new /\ y.cr4rs = b.cr4rs /\ y.cr4 = b.cr4
        /\ y.ia32e = b.ia32e /\ y.efer = b.efer /\ y.rmode = b.rmode /\ y.mmu = b.mmu
        /\ y.bitmap = b.bitmap /\ y.vm = b.vm /\ y.seg = b.seg /\ y.tr = b.tr
        /\ y.ldtr = b.ldtr /\ y.iopl = b.iopl /\ y.entry = b.entry
    BY <2>3 DEF VCpu
  <2> HIDE DEF y
  <2>9. /\ y.cr4rs = x.cr4rs /\ y.ia32e = x.ia32e /\ y.efer = x.efer
        /\ y.mmu = x.mmu /\ y.ldtr = x.ldtr /\ y.entry = x.entry
    BY <2>3, <2>8 DEF Frame
  <2>10. {"VMXE", "PAE"} \subseteq y.cr4
    BY <2>3, <2>8 DEF Frame, SameBut, Good, Kept, FixedOn
  <2>11. /\ is_paging(y) <=> is_paging(x)
         /\ "PE" \in guest_cr0(y)
         /\ is_pae(y) <=> is_pae(x)
    BY <2>1, <2>8, <2>9, GuestBits
  <2>12. FixedOn(y) /\ LongInv(y) /\ PeInv(y)
    BY <1>4, <2>3, <2>8, <2>9, <2>10, <2>11 DEF FixedOn, LongInv, PeInv, Good, Kept
  <2>13. MmuInv(y)
    BY <2>1, <2>8, <2>9, MmuSame DEF Good, Kept, MmuInv
  <2>14. BitmapInv(y) /\ TssOK(y.rmode.tr)
    BY <2>3, <2>8 DEF BitmapInv
  <2>15. BasesOK(y) /\ SegsOK(y)
    BY <2>3, <2>8, SameSegs
  <2>16. ~x.ia32e
    BY <2>2, GoodMode
  <2>17. Fit(y)
    BY <2>3, <2>8, <2>9, <2>15, <2>16 DEF Good, Fit, LdtrInv, TestLdtr
  <2>18. \A o : TaskInv(x, o) => TaskInv(y, o)
    BY <2>2, <2>3, <2>8 DEF TaskInv
  <2>19. Done(x, y)
    BY <2>7, <2>9, <2>12, <2>13, <2>14, <2>17, <2>18 DEF Done, Good, Kept
  <2> QED BY <2>6, <2>9, <2>19
<1>6. CASE ~("PE" \in msw /\ "PE" \notin guest_cr0(x))
  <2> DEFINE y == [x EXCEPT !.cr0 = new]
  <2>1. lmsw(x, msw) = y
    BY <1>6 DEF lmsw
  <2> HIDE DEF new
  <2>2. /\ y \in VCpu /\ y.entry = x.entry
        /\ y.cr0rs = x.cr0rs /\ y.cr0 = new /\ y.cr4rs = x.cr4rs /\ y.cr4 = x.cr4
        /\ y.ia32e = x.ia32e /\ y.efer = x.efer /\ y.rmode = x.rmode /\ y.mmu = x.mmu
        /\ y.bitmap = x.bitmap /\ y.vm = x.vm /\ y.seg = x.seg /\ y.tr = x.tr
        /\ y.ldtr = x.ldtr /\ y.iopl = x.iopl
    BY <1>1, <1>4 DEF VCpu
  <2> HIDE DEF y
  <2>3. BitmapInv(y) /\ KVM_VM_CR0_ALWAYS_ON \subseteq y.cr0
    BY <1>4, <2>2 DEF Good, Kept, BitmapInv
  <2>4. Good(y)
    BY <2>2, <2>3, KeptSame, FitSame DEF Good
  <2>5. \A o : TaskInv(x, o) => TaskInv(y, o)
    BY <2>2 DEF TaskInv
  <2>6. Done(x, y)
    BY <2>2, <2>4, <2>5 DEF Done
  <2> QED BY <2>1, <2>2, <2>6
<1> QED BY <1>5, <1>6

\* What the emulator writes back after a handler is what the handler left.
LEMMA RefreshOK ==
    ASSUME NEW x, NEW y \in VCpu
    PROVE  RefreshesFlags(x, y) = y
  BY DEF RefreshesFlags, VCpu

\* KVM_DEBUG_GUEST changes the exception bitmap only.
LEMMA DebugGuestOK ==
    ASSUME NEW x, Good(x), NEW enabled \in BOOLEAN
    PROVE  LET y == debug_guest(x, enabled) IN Done(x, y) /\ y.entry = x.entry
<1> DEFINE new == IF enabled THEN x.bitmap \union {"DB"} ELSE x.bitmap \ {"DB"}
           y == [x EXCEPT !.bitmap = new]
<1>1. x \in VCpu
  BY DEF Good, Kept
<1>2. /\ new \in SUBSET Exceptions
      /\ "GP" \in new <=> "GP" \in x.bitmap
      /\ "PF" \in new <=> "PF" \in x.bitmap
  BY <1>1 DEF VCpu, Exceptions
<1>3. debug_guest(x, enabled) = y
  BY DEF debug_guest
<1> HIDE DEF new
<1>4. /\ y \in VCpu /\ y.entry = x.entry
      /\ y.cr0rs = x.cr0rs /\ y.cr0 = x.cr0 /\ y.cr4rs = x.cr4rs /\ y.cr4 = x.cr4
      /\ y.ia32e = x.ia32e /\ y.efer = x.efer /\ y.rmode = x.rmode /\ y.mmu = x.mmu
      /\ y.bitmap = new /\ y.vm = x.vm /\ y.seg = x.seg /\ y.tr = x.tr
      /\ y.ldtr = x.ldtr /\ y.iopl = x.iopl
  BY <1>1, <1>2 DEF VCpu
<1> HIDE DEF y
<1>5. BitmapInv(y) /\ KVM_VM_CR0_ALWAYS_ON \subseteq y.cr0
  BY <1>2, <1>4 DEF Good, Kept, BitmapInv, FixedOn
<1>6. Good(y)
  BY <1>4, <1>5, KeptSame, FitSame DEF Good
<1>7. \A o : TaskInv(x, o) => TaskInv(y, o)
  BY <1>4 DEF TaskInv
<1>8. Done(x, y)
  BY <1>4, <1>6, <1>7 DEF Done
<1> QED BY <1>3, <1>4, <1>8

-----------------------------------------------------------------------------
(* What the guest loads without leaving.                                   *)

CodeSeg(s, cpl) ==
    /\ s \in SegType /\ Low16(s.base) = s.base
    /\ s.ar.type = 11 /\ s.ar.s /\ s.ar.p /\ ~s.ar.u
    /\ s.ar.dpl = cpl /\ Rpl(s.sel) = cpl /\ SegGTest(s)

DataSeg(s, cpl) ==
    /\ s \in SegType /\ Low16(s.base) = s.base
    /\ s.ar.type = 3 /\ s.ar.s /\ s.ar.p /\ ~s.ar.u
    /\ s.ar.dpl = cpl /\ Rpl(s.sel) = cpl /\ SegGTest(s)

\* Code, stack and data of one privilege level, or null selectors.
FileOK(f) ==
    /\ f \in SegFile
    /\ \E cpl \in {0, 3} :
          /\ CodeSeg(f["CS"], cpl)
          /\ DataSeg(f["SS"], cpl) \/ (f["SS"] = NullSeg /\ cpl = 0)
          /\ DataSeg(f["DS"], cpl) \/ f["DS"] = NullSeg

\* The null segment: unusable, and harmless in either mode.
LEMMA NullSegFields ==
    /\ NullSeg.ar.u /\ NullSeg.ar.dpl = 0 /\ NullSeg.ar.type = 0 /\ ~NullSeg.ar.s
    /\ ~NullSeg.ar.p /\ ~NullSeg.ar.g /\ NullSeg.limit = "64K"
    /\ Rpl(NullSeg.sel) = 0 /\ Low16(NullSeg.base) = NullSeg.base
<1>1. Rpl(0) = 0 /\ Low16(0) = 0
  BY DEF Rpl, Low16
<1> QED BY <1>1, KnownSegs DEF NullSeg, Seg

\* Loading segments changes the segments only.
LEMMA LoadSegsFields ==
    ASSUME NEW x \in VCpu, NEW f \in SegFile
    PROVE  LET y == LoadSegs(x, f) IN
           /\ y \in VCpu /\ y.seg = f /\ y.entry = x.entry
           /\ y.cr0rs = x.cr0rs /\ y.cr0 = x.cr0 /\ y.cr4rs = x.cr4rs /\ y.cr4 = x.cr4
           /\ y.ia32e = x.ia32e /\ y.efer = x.efer /\ y.rmode = x.rmode /\ y.mmu = x.mmu
           /\ y.bitmap = x.bitmap /\ y.vm = x.vm /\ y.tr = x.tr
           /\ y.ldtr = x.ldtr /\ y.iopl = x.iopl
  BY DEF LoadSegs, VCpu

\* New segments that fit the mode leave the vcpu fit.
LEMMA LoadSegsOK ==
    ASSUME NEW x, Good(x), NEW f \in SegFile,
           \A y : y.seg = f /\ y.vm = x.vm /\ y.tr = x.tr => BasesOK(y) /\ SegsOK(y)
    PROVE  LET y == LoadSegs(x, f) IN
           Done(x, y) /\ y.vm = x.vm /\ y.seg = f /\ y.entry = x.entry
<1> DEFINE y == LoadSegs(x, f)
<1>1. x \in VCpu
  BY DEF Good, Kept
<1>2. /\ y \in VCpu /\ y.seg = f /\ y.entry = x.entry
      /\ y.cr0rs = x.cr0rs /\ y.cr0 = x.cr0 /\ y.cr4rs = x.cr4rs /\ y.cr4 = x.cr4
      /\ y.ia32e = x.ia32e /\ y.efer = x.efer /\ y.rmode = x.rmode /\ y.mmu = x.mmu
      /\ y.bitmap = x.bitmap /\ y.vm = x.vm /\ y.tr = x.tr
      /\ y.ldtr = x.ldtr /\ y.iopl = x.iopl
  BY <1>1, LoadSegsFields
<1> HIDE DEF y
<1>3. BitmapInv(y) /\ KVM_VM_CR0_ALWAYS_ON \subseteq y.cr0
  BY <1>2 DEF Good, Kept, BitmapInv, FixedOn
<1>4. Kept(y)
  BY <1>2, <1>3, KeptSame DEF Good
<1>5. Fit(y)
  BY <1>2 DEF Good, Fit, LdtrInv, TestLdtr
<1>6. \A o : TaskInv(x, o) => TaskInv(y, o)
  BY <1>2 DEF TaskInv
<1>7. Done(x, y)
  BY <1>2, <1>4, <1>5, <1>6 DEF Done, Good
<1> QED BY <1>2, <1>7 DEF y

\* In protected mode any segments the processor accepts may be loaded.
LEMMA LoadProtSegs ==
    ASSUME NEW x, Good(x), ~x.vm, NEW f, FileOK(f)
    PROVE  LET y == LoadSegs(x, f) IN
           Done(x, y) /\ y.vm = x.vm /\ y.seg = f /\ y.entry = x.entry
<1>1. TssOK(x.tr)
  BY DEF Good, Fit, SegsOK
<1>2. ASSUME NEW y, y.seg = f, y.vm = x.vm, y.tr = x.tr
      PROVE  BasesOK(y) /\ SegsOK(y)
  <2>1. PICK cpl \in {0, 3} :
          /\ CodeSeg(f["CS"], cpl)
          /\ DataSeg(f["SS"], cpl) \/ (f["SS"] = NullSeg /\ cpl = 0)
          /\ DataSeg(f["DS"], cpl) \/ f["DS"] = NullSeg
    BY DEF FileOK
  <2>2. BasesOK(y)
    BY <1>2, <2>1, NullSegFields, KnownSegs
       DEF BasesOK, SegRegs, NullOK, CodeSeg, DataSeg
  <2>3. TestCode(y)
    BY <1>2, <2>1 DEF TestCode, CodeSeg
  <2>4. TestStack(y)
    BY <1>2, <2>1, NullSegFields DEF TestStack, CodeSeg, DataSeg
  <2>5. TestData(y)
    BY <1>2, <2>1, NullSegFields DEF TestData, DataSeg
  <2> QED BY <1>1, <1>2, <2>2, <2>3, <2>4, <2>5 DEF SegsOK
<1>3. f \in SegFile
  BY DEF FileOK
<1> QED BY <1>2, <1>3, LoadSegsOK

\* The segments of CpuModes, by name.
LEMMA SegsFields ==
    ASSUME NEW cs \in SegType, NEW ss \in SegType, NEW ds \in SegType
    PROVE  /\ Segs(cs, ss, ds) \in SegFile /\ Segs(cs, ss, ds)["CS"] = cs
           /\ Segs(cs, ss, ds)["SS"] = ss /\ Segs(cs, ss, ds)["DS"] = ds
  BY DEF Segs, SegRegs, SegFile

\* The flat descriptors are code and data segments of their rings.
LEMMA FlatOK ==
    /\ CodeSeg(Flat(8, 11, 0), 0) /\ DataSeg(Flat(16, 3, 0), 0)
    /\ CodeSeg(Flat(27, 11, 3), 3) /\ DataSeg(Flat(35, 3, 3), 3)
<1>1. Low16(0) = 0 /\ Rpl(8) = 0 /\ Rpl(16) = 0 /\ Rpl(27) = 3 /\ Rpl(35) = 3
  BY DEF Low16, Rpl
<1>2. ASSUME NEW sel \in Nat, NEW type \in 0 .. 15, NEW dpl \in 0 .. 3, Rpl(sel) = dpl
      PROVE  /\ type = 11 => CodeSeg(Flat(sel, type, dpl), dpl)
             /\ type = 3 => DataSeg(Flat(sel, type, dpl), dpl)
  <2> DEFINE small == [type |-> type, s |-> TRUE, dpl |-> dpl, p |-> TRUE, l |-> FALSE,
                       g |-> FALSE, u |-> FALSE]
             ar == [small EXCEPT !.g = TRUE]
             f == Seg(sel, 0, "4G", ar)
  <2>1. /\ ar \in ArType /\ "4G" \in Limits /\ 0 \in Nat
        /\ ar.type = type /\ ar.s /\ ar.p /\ ~ar.u /\ ar.g /\ ar.dpl = dpl
    BY DEF ArType, Limits
  <2>2. Flat(sel, type, dpl) = f
    BY DEF Flat, Ar
  <2> HIDE DEF ar
  <2>3. f \in SegType /\ f.sel = sel /\ f.base = 0 /\ f.limit = "4G" /\ f.ar = ar
    BY <2>1, SegTypes
  <2> HIDE DEF f
  <2>4. SegGTest(f)
    BY <2>1, <2>3 DEF SegGTest
  <2>5. (type = 11 => CodeSeg(f, dpl)) /\ (type = 3 => DataSeg(f, dpl))
    BY <1>1, <1>2, <2>1, <2>3, <2>4 DEF CodeSeg, DataSeg
  <2> QED BY <2>2, <2>5
<1>3. {8, 16, 27, 35} \subseteq Nat /\ {3, 11} \subseteq 0 .. 15 /\ {0, 3} \subseteq 0 .. 3
  OBVIOUS
<1> QED BY <1>1, <1>2, <1>3

\* The segment sets a protected-mode guest loads are ones the processor accepts.
LEMMA KernelsOK ==
    /\ FileOK(Kernel32) /\ FileOK(User32)
    /\ FileOK(Kernel64)
    /\ FileOK([Kernel32 EXCEPT !["DS"] = NullSeg])
    /\ FileOK([Kernel64 EXCEPT !["SS"] = NullSeg])
    /\ \A b \in RealBases : FileOK(Kernel16(b)) /\ Kernel16(b)["CS"].limit = "64K"
<1> DEFINE code == Flat(8, 11, 0)
           data == Flat(16, 3, 0)
           long == [code EXCEPT !.ar = [code.ar EXCEPT !.l = TRUE]]
<1>1. CodeSeg(code, 0) /\ DataSeg(data, 0) /\ code \in SegType /\ data \in SegType
  BY FlatOK DEF CodeSeg, DataSeg
<1> HIDE DEF code, data
<1>2. /\ Kernel32 \in SegFile /\ Kernel32["CS"] = code
      /\ Kernel32["SS"] = data /\ Kernel32["DS"] = data
  BY <1>1, SegsFields DEF Kernel32, code, data
<1>3. FileOK(Kernel32)
  BY <1>1, <1>2 DEF FileOK
<1>4. FileOK(User32)
  <2> DEFINE uc == Flat(27, 11, 3)
             ud == Flat(35, 3, 3)
  <2>1. CodeSeg(uc, 3) /\ DataSeg(ud, 3) /\ uc \in SegType /\ ud \in SegType
    BY FlatOK DEF CodeSeg, DataSeg
  <2> HIDE DEF uc, ud
  <2>2. /\ User32 \in SegFile /\ User32["CS"] = uc
        /\ User32["SS"] = ud /\ User32["DS"] = ud
    BY <2>1, SegsFields DEF User32, uc, ud
  <2> QED BY <2>1, <2>2 DEF FileOK
<1>5. CodeSeg(long, 0) /\ long \in SegType
  <2> DEFINE ar == [code.ar EXCEPT !.l = TRUE]
  <2>1. code.ar \in ArType
    BY <1>1, SegTypes
  <2>2. /\ ar \in ArType /\ ar.type = code.ar.type /\ ar.s = code.ar.s
        /\ ar.p = code.ar.p /\ ar.u = code.ar.u /\ ar.g = code.ar.g /\ ar.dpl = code.ar.dpl
    BY <2>1 DEF ArType
  <2> HIDE DEF ar
  <2>3. /\ [code EXCEPT !.ar = ar] \in SegType
        /\ [code EXCEPT !.ar = ar].ar = ar
        /\ [code EXCEPT !.ar = ar].base = code.base
        /\ [code EXCEPT !.ar = ar].limit = code.limit
        /\ [code EXCEPT !.ar = ar].sel = code.sel
    BY <1>1, <2>2, SegTypes
  <2>4. long = [code EXCEPT !.ar = ar]
    BY DEF ar
  <2> HIDE DEF long
  <2> QED BY <1>1, <2>2, <2>3, <2>4 DEF CodeSeg, SegGTest
<1>6. /\ Kernel64 \in SegFile /\ Kernel64["CS"] = long
      /\ Kernel64["SS"] = data /\ Kernel64["DS"] = data
  <2>1. Kernel64 = [Kernel32 EXCEPT !["CS"] = long]
    BY <1>2 DEF Kernel64, SegFile, SegRegs
  <2> HIDE DEF long
  <2> QED BY <1>2, <1>5, <2>1 DEF SegFile, SegRegs
<1> HIDE DEF long
<1>7. FileOK(Kernel64)
  BY <1>1, <1>5, <1>6 DEF FileOK
<1>8. FileOK([Kernel32 EXCEPT !["DS"] = NullSeg])
  <2> DEFINE f == [Kernel32 EXCEPT !["DS"] = NullSeg]
  <2>1. f \in SegFile /\ f["CS"] = code /\ f["SS"] = data /\ f["DS"] = NullSeg
    BY <1>2, KnownSegs DEF SegFile, SegRegs
  <2> HIDE DEF f
  <2>2. FileOK(f)
    BY <1>1, <2>1 DEF FileOK
  <2> QED BY <2>2 DEF f
<1>9. FileOK([Kernel64 EXCEPT !["SS"] = NullSeg])
  <2> DEFINE f == [Kernel64 EXCEPT !["SS"] = NullSeg]
  <2>1. f \in SegFile /\ f["CS"] = long /\ f["SS"] = NullSeg /\ f["DS"] = data
    BY <1>6, KnownSegs DEF SegFile, SegRegs
  <2> HIDE DEF f
  <2>2. FileOK(f)
    BY <1>1, <1>5, <2>1 DEF FileOK
  <2> QED BY <2>2 DEF f
<1>10. ASSUME NEW b \in RealBases
       PROVE  FileOK(Kernel16(b)) /\ Kernel16(b)["CS"].limit = "64K"
  <2> DEFINE c16 == Seg(24, b, "64K", Code0)
             d16 == Seg(32, b, "64K", Data0)
  <2>1. b \in Nat /\ Low16(b) = b /\ Rpl(24) = 0 /\ Rpl(32) = 0 /\ "64K" \in Limits
    BY DEF RealBases, Low16, Rpl, Limits
  <2>2. /\ c16 \in SegType /\ c16.base = b /\ c16.limit = "64K" /\ c16.ar = Code0
        /\ c16.sel = 24
        /\ d16 \in SegType /\ d16.base = b /\ d16.limit = "64K" /\ d16.ar = Data0
        /\ d16.sel = 32
    BY <2>1, SegTypes, ArTypes DEF Seg
  <2> HIDE DEF c16, d16
  <2>3. /\ Code0.type = 11 /\ Code0.s /\ Code0.dpl = 0 /\ Code0.p /\ ~Code0.g /\ ~Code0.u
        /\ Data0.type = 3 /\ Data0.s /\ Data0.dpl = 0 /\ Data0.p /\ ~Data0.g /\ ~Data0.u
    BY DEF Code0, Data0, Ar
  <2>4. CodeSeg(c16, 0) /\ DataSeg(d16, 0)
    BY <2>1, <2>2, <2>3 DEF CodeSeg, DataSeg, SegGTest
  <2>5. /\ Kernel16(b) \in SegFile /\ Kernel16(b)["CS"] = c16
        /\ Kernel16(b)["SS"] = d16 /\ Kernel16(b)["DS"] = d16
    BY <2>2, SegsFields DEF Kernel16, c16, d16
  <2> QED BY <2>2, <2>4, <2>5 DEF FileOK
<1> QED BY <1>3, <1>4, <1>7, <1>8, <1>9, <1>10

\* So is every choice of them the guest may make.
LEMMA ProtSegsOK ==
    ASSUME NEW x, NEW f \in ProtSegs(x)
    PROVE  FileOK(f)
  BY KernelsOK DEF ProtSegs

\* In real mode a segment load keeps what vm86 mode demands.
LEMMA LoadRealSegs ==
    ASSUME NEW x, Good(x), x.vm, NEW cs \in RealBases, NEW ds \in RealBases
    PROVE  LET y == LoadSegs(x, RealSegs(cs, ds)) IN Done(x, y) /\ y.entry = x.entry
<1> DEFINE c == Seg(cs, cs, "64K", Vm86)
           d == Seg(ds, ds, "64K", Vm86)
           f == RealSegs(cs, ds)
<1>1. /\ cs \in Nat /\ ds \in Nat /\ Low16(cs) = cs /\ Low16(ds) = ds
      /\ "64K" \in Limits /\ Vm86 \in ArType
  BY ArTypes DEF RealBases, Low16, Limits
<1>2. /\ c \in SegType /\ c.sel = cs /\ c.base = cs /\ c.limit = "64K" /\ c.ar = Vm86
      /\ d \in SegType /\ d.sel = ds /\ d.base = ds /\ d.limit = "64K" /\ d.ar = Vm86
  BY <1>1, SegTypes
<1> HIDE DEF c, d
<1>3. f \in SegFile /\ f["CS"] = c /\ f["SS"] = d /\ f["DS"] = d
  BY <1>2, SegsFields DEF RealSegs, c, d
<1> HIDE DEF f
<1>4. ~Vm86.u
  BY DEF Vm86, Ar
<1>5. ASSUME NEW y, y.seg = f, y.vm = x.vm, y.tr = x.tr
      PROVE  BasesOK(y) /\ SegsOK(y)
  <2>1. BasesOK(y)
    BY <1>1, <1>2, <1>3, <1>4, <1>5 DEF BasesOK, SegRegs, NullOK
  <2>2. TestVm86(y)
    BY <1>2, <1>3, <1>5 DEF TestVm86, SegRegs
  <2> QED BY <1>5, <2>1, <2>2 DEF SegsOK
<1>6. LET y == LoadSegs(x, f) IN Done(x, y) /\ y.entry = x.entry
  BY <1>3, <1>5, LoadSegsOK
<1> QED BY <1>6 DEF f

\* A new task register in protected mode, with what it is for the history.
LEMMA LoadTaskOK ==
    ASSUME NEW x, Good(x), ~x.vm, NEW t \in SegType, TssOK(t),
           x.ia32e => t.ar.type = 11
    PROVE  LET y == LoadTask(x, t) IN
           /\ Good(y) /\ y.vm = x.vm /\ y.efer = x.efer /\ y.entry = x.entry
           /\ is_paging(y) <=> is_paging(x)
           /\ ~y.rmode.active /\ y.tr = t /\ y.iopl = x.iopl
<1> DEFINE y == LoadTask(x, t)
<1>1. x \in VCpu
  BY DEF Good, Kept
<1>2. /\ y \in VCpu /\ y.seg = x.seg /\ y.entry = x.entry
      /\ y.cr0rs = x.cr0rs /\ y.cr0 = x.cr0 /\ y.cr4rs = x.cr4rs /\ y.cr4 = x.cr4
      /\ y.ia32e = x.ia32e /\ y.efer = x.efer /\ y.rmode = x.rmode /\ y.mmu = x.mmu
      /\ y.bitmap = x.bitmap /\ y.vm = x.vm /\ y.tr = t
      /\ y.ldtr = x.ldtr /\ y.iopl = x.iopl
  BY <1>1 DEF VCpu, LoadTask
<1> HIDE DEF y
<1>3. BitmapInv(y) /\ KVM_VM_CR0_ALWAYS_ON \subseteq y.cr0
  BY <1>2 DEF Good, Kept, BitmapInv, FixedOn
<1>4. Kept(y)
  BY <1>2, <1>3, KeptSame DEF Good
<1>5. BasesOK(y) /\ SegsOK(y)
  BY <1>2, SameSegs DEF Good, Fit
<1>6. Fit(y) /\ ~y.rmode.active
  BY <1>2, <1>5 DEF Good, Fit, LdtrInv, TestLdtr
<1>7. is_paging(y) <=> is_paging(x)
  BY <1>2, GuestBits
<1> QED BY <1>2, <1>4, <1>6, <1>7 DEF Good, y

\* The tasks a guest loads are busy TSSs, 64-bit ones in long mode.
LEMMA TasksOK ==
    /\ \A x, t : t \in Tasks(x) =>
          t \in SegType /\ TssOK(t) /\ (x.ia32e => t.ar.type = 11)
    /\ LET t == Seg(40, 64, "64K", BusyTss) IN
          t \in SegType /\ TssOK(t) /\ t.ar.type = 11
<1> DEFINE t32 == Seg(40, 64, "64K", BusyTss)
           t16 == Seg(48, 80, "64K", BusyTss16)
<1>1. /\ t32 \in SegType /\ t32.limit = "64K" /\ t32.ar = BusyTss
      /\ t16 \in SegType /\ t16.limit = "64K" /\ t16.ar = BusyTss16
  <2>1. "64K" \in Limits /\ 40 \in Nat /\ 64 \in Nat /\ 48 \in Nat /\ 80 \in Nat
    BY DEF Limits
  <2> QED BY <2>1, ArTypes, SegTypes DEF Seg
<1> HIDE DEF t32, t16
<1>2. /\ BusyTss.type = 11 /\ ~BusyTss.s /\ BusyTss.p /\ ~BusyTss.u /\ ~BusyTss.g
      /\ BusyTss16.type = 3 /\ ~BusyTss16.s /\ BusyTss16.p /\ ~BusyTss16.u
      /\ ~BusyTss16.g
  BY DEF BusyTss, BusyTss16, Ar
<1>3. TssOK(t32) /\ TssOK(t16) /\ t32.ar.type = 11
  BY <1>1, <1>2 DEF TssOK, SegGTest
<1>4. \A x, t : t \in Tasks(x) => t = IF x.ia32e THEN t32 ELSE t16
  BY DEF Tasks, t32, t16
<1>5. \A x, t : t \in Tasks(x) =>
          t \in SegType /\ TssOK(t) /\ (x.ia32e => t.ar.type = 11)
  BY <1>1, <1>3, <1>4
<1> QED BY <1>1, <1>3, <1>5 DEF t32

\* A null LDT is always accepted.
LEMMA LoadLdtOK ==
    ASSUME NEW x, Good(x)
    PROVE  LET y == [x EXCEPT !.ldtr = NullSeg] IN
           Done(x, y) /\ y.vm = x.vm /\ y.entry = x.entry
<1> DEFINE y == [x EXCEPT !.ldtr = NullSeg]
<1>1. x \in VCpu
  BY DEF Good, Kept
<1>2. /\ y \in VCpu /\ y.seg = x.seg /\ y.entry = x.entry
      /\ y.cr0rs = x.cr0rs /\ y.cr0 = x.cr0 /\ y.cr4rs = x.cr4rs /\ y.cr4 = x.cr4
      /\ y.ia32e = x.ia32e /\ y.efer = x.efer /\ y.rmode = x.rmode /\ y.mmu = x.mmu
      /\ y.bitmap = x.bitmap /\ y.vm = x.vm /\ y.tr = x.tr
      /\ y.ldtr = NullSeg /\ y.iopl = x.iopl
  BY <1>1, KnownSegs DEF VCpu
<1> HIDE DEF y
<1>3. BitmapInv(y) /\ KVM_VM_CR0_ALWAYS_ON \subseteq y.cr0
  BY <1>2 DEF Good, Kept, BitmapInv, FixedOn
<1>4. Kept(y)
  BY <1>2, <1>3, KeptSame DEF Good
<1>5. BasesOK(y) /\ SegsOK(y)
  BY <1>2, SameSegs DEF Good, Fit
<1>6. LdtrInv(y)
  BY <1>2, KnownSegs, NullSegFields DEF LdtrInv, TestLdtr
<1>7. Fit(y)
  BY <1>2, <1>5, <1>6 DEF Good, Fit
<1>8. \A o : TaskInv(x, o) => TaskInv(y, o)
  BY <1>2 DEF TaskInv
<1>9. Done(x, y)
  BY <1>2, <1>4, <1>7, <1>8 DEF Done, Good
<1> QED BY <1>2, <1>9 DEF y

\* In protected mode the guest sets its own IOPL.
LEMMA SetIoplOK ==
    ASSUME NEW x, Good(x), ~x.vm, NEW i \in Iopls
    PROVE  LET y == [x EXCEPT !.iopl = i] IN
           /\ Good(y) /\ y.vm = x.vm /\ y.efer = x.efer /\ y.entry = x.entry
           /\ is_paging(y) <=> is_paging(x)
           /\ ~y.rmode.active /\ y.tr = x.tr /\ y.iopl = i
<1> DEFINE y == [x EXCEPT !.iopl = i]
<1>1. x \in VCpu
  BY DEF Good, Kept
<1>2. /\ y \in VCpu /\ y.seg = x.seg /\ y.entry = x.entry
      /\ y.cr0rs = x.cr0rs /\ y.cr0 = x.cr0 /\ y.cr4rs = x.cr4rs /\ y.cr4 = x.cr4
      /\ y.ia32e = x.ia32e /\ y.efer = x.efer /\ y.rmode = x.rmode /\ y.mmu = x.mmu
      /\ y.bitmap = x.bitmap /\ y.vm = x.vm /\ y.tr = x.tr
      /\ y.ldtr = x.ldtr /\ y.iopl = i
  BY <1>1 DEF VCpu
<1> HIDE DEF y
<1>3. BitmapInv(y) /\ KVM_VM_CR0_ALWAYS_ON \subseteq y.cr0
  BY <1>2 DEF Good, Kept, BitmapInv, FixedOn
<1>4. Kept(y) /\ Fit(y)
  BY <1>2, <1>3, KeptSame, FitSame DEF Good
<1>5. is_paging(y) <=> is_paging(x)
  BY <1>2, GuestBits
<1> QED BY <1>2, <1>4, <1>5 DEF Good, Fit, y

-----------------------------------------------------------------------------
(* kvm_vcpu_setup.                                                         *)

Blank ==
    [cr0rs |-> {}, cr0 |-> {}, cr4rs |-> {}, cr4 |-> {},
     ia32e |-> FALSE, vm |-> FALSE, iopl |-> 0,
     seg |-> [r \in SegRegs |->
                IF r = "CS" THEN Seg(61440, 61440, "64K", Code0)
                ELSE Seg(0, 0, "64K", Data0)],
     tr |-> Seg(0, 0, "64K", BusyTss),
     ldtr |-> Seg(0, 0, "64K", Ldt),
     bitmap |-> {"PF"}, entry |-> "none",
     rmode |-> [active |-> FALSE, tr |-> NullSeg, iopl |-> 0],
     efer |-> {}, msr |-> {}, cr3 |-> "ok", mmu |-> "none"]

\* kvm_vcpu_setup is the sequence of register writes it makes.
LEMMA SetupSteps ==
    kvm_vcpu_setup = kvm_mmu_reset_context(
        set_efer_and_mode(write_cr4(write_cr0(Blank, {"CD", "NW"}), {}), {}))
  BY DEF kvm_vcpu_setup, Blank

\* The blank vcpu is in protected mode.
LEMMA BlankOK ==
    /\ Mode(Blank) /\ LdtrInv(Blank) /\ ~Blank.vm /\ ~Blank.ia32e /\ Blank.efer = {}
    /\ Blank.seg["CS"].limit = "64K" /\ Blank.entry = "none" /\ Blank.iopl = 0
    /\ ~Blank.rmode.active
<1> DEFINE cs == Seg(61440, 61440, "64K", Code0)
           ds == Seg(0, 0, "64K", Data0)
           tr == Seg(0, 0, "64K", BusyTss)
           ld == Seg(0, 0, "64K", Ldt)
           rm == [active |-> FALSE, tr |-> NullSeg, iopl |-> 0]
           f == [r \in SegRegs |-> IF r = "CS" THEN cs ELSE ds]
<1>1. Low16(0) = 0 /\ Low16(61440) = 61440 /\ Rpl(0) = 0 /\ Rpl(61440) = 0
  BY DEF Low16, Rpl
<1>2. "64K" \in Limits /\ 0 \in Nat /\ 61440 \in Nat /\ 0 \in Iopls
  BY DEF Limits, Iopls
<1>3. /\ cs \in SegType /\ cs.limit = "64K" /\ cs.sel = 61440 /\ cs.base = 61440
      /\ cs.ar = Code0
  BY <1>2, ArTypes, SegTypes DEF Seg
<1>4. /\ ds \in SegType /\ ds.limit = "64K" /\ ds.sel = 0 /\ ds.base = 0
      /\ ds.ar = Data0
  BY <1>2, ArTypes, SegTypes DEF Seg
<1>5. /\ tr \in SegType /\ tr.limit = "64K" /\ tr.ar = BusyTss
      /\ ld \in SegType /\ ld.limit = "64K" /\ ld.ar = Ldt
  BY <1>2, ArTypes, SegTypes DEF Seg
<1>6. rm \in Rmode /\ ~rm.active
  BY <1>2, KnownSegs DEF Rmode
<1> HIDE DEF cs, ds, tr, ld, rm
<1>7. f \in SegFile /\ f["CS"] = cs /\ f["SS"] = ds /\ f["DS"] = ds
  BY <1>3, <1>4 DEF SegFile, SegRegs
<1> HIDE DEF f
<1>8. Blank = [cr0rs |-> {}, cr0 |-> {}, cr4rs |-> {}, cr4 |-> {},
               ia32e |-> FALSE, vm |-> FALSE, iopl |-> 0,
               seg |-> f, tr |-> tr, ldtr |-> ld,
               bitmap |-> {"PF"}, entry |-> "none", rmode |-> rm,
               efer |-> {}, msr |-> {}, cr3 |-> "ok", mmu |-> "none"]
  BY DEF Blank, f, cs, ds, tr, ld, rm
<1>9. /\ {} \in SUBSET Cr0Bits /\ {} \in Cr4Shadows /\ {} \in SUBSET Cr4Bits
      /\ {"PF"} \in SUBSET Exceptions /\ {} \in SUBSET {"LME", "LMA"}
      /\ "none" \in MmuKinds
  BY DEF Cr4Shadows, Exceptions, MmuKinds
<1>10. Blank \in VCpu
  BY <1>2, <1>5, <1>6, <1>7, <1>8, <1>9 DEF VCpu
<1>11. /\ Blank.seg = f /\ Blank.tr = tr /\ Blank.ldtr = ld /\ Blank.rmode = rm
       /\ ~Blank.vm /\ ~Blank.ia32e /\ Blank.efer = {} /\ Blank.bitmap = {"PF"}
       /\ Blank.entry = "none" /\ Blank.iopl = 0
  BY <1>8
<1>12. /\ Code0.type = 11 /\ Code0.s /\ Code0.dpl = 0 /\ Code0.p /\ ~Code0.g /\ ~Code0.u
       /\ Data0.type = 3 /\ Data0.s /\ Data0.dpl = 0 /\ Data0.p /\ ~Data0.g /\ ~Data0.u
  BY DEF Code0, Data0, Ar
<1>13. /\ BusyTss.type = 11 /\ ~BusyTss.s /\ BusyTss.p /\ ~BusyTss.u /\ ~BusyTss.g
       /\ Ldt.type = 2 /\ ~Ldt.s /\ Ldt.p /\ ~Ldt.u /\ ~Ldt.g
  BY DEF BusyTss, Ldt, Ar
<1>14. TssOK(Blank.tr) /\ LdtrInv(Blank)
  BY <1>5, <1>11, <1>13 DEF TssOK, SegGTest, LdtrInv, TestLdtr, NullOK
<1>15. BasesOK(Blank)
  BY <1>1, <1>3, <1>4, <1>7, <1>11, <1>12 DEF BasesOK, SegRegs, NullOK
<1>16. TestCode(Blank)
  BY <1>1, <1>3, <1>7, <1>11, <1>12 DEF TestCode, SegGTest
<1>17. TestStack(Blank) /\ TestData(Blank)
  BY <1>1, <1>3, <1>4, <1>7, <1>11, <1>12 DEF TestStack, TestData, SegGTest
<1>18. SegsOK(Blank) /\ BitmapInv(Blank)
  BY <1>6, <1>11, <1>14, <1>16, <1>17 DEF SegsOK, BitmapInv
<1> QED BY <1>3, <1>6, <1>7, <1>10, <1>11, <1>14, <1>15, <1>18 DEF Mode

\* set_efer_and_mode, field by field.
LEMMA EferModeFields ==
    ASSUME NEW x \in VCpu, NEW efer \in SUBSET {"LME", "LMA"}
    PROVE  LET y == set_efer_and_mode(x, efer) IN
           /\ y \in VCpu /\ y.efer = efer /\ (y.ia32e <=> "LMA" \in efer)
           /\ y.seg = x.seg /\ y.entry = x.entry
           /\ y.cr0rs = x.cr0rs /\ y.cr0 = x.cr0 /\ y.cr4rs = x.cr4rs /\ y.cr4 = x.cr4
           /\ y.rmode = x.rmode /\ y.mmu = x.mmu /\ y.cr3 = x.cr3
           /\ y.bitmap = x.bitmap /\ y.vm = x.vm /\ y.tr = x.tr
           /\ y.ldtr = x.ldtr /\ y.iopl = x.iopl
<1> DEFINE m == IF "LMA" \in efer THEN efer ELSE efer \ {"LME"}
           l == "LMA" \in efer
<1>1. m \in SUBSET {"LME", "LMA"} /\ l \in BOOLEAN
  OBVIOUS
<1> HIDE DEF m, l
<1>2. set_efer_and_mode(x, efer) = [x EXCEPT !.efer = efer, !.ia32e = l, !.msr = m]
  BY DEF set_efer_and_mode, m, l
<1>3. set_efer_and_mode(x, efer) \in VCpu
  BY <1>1, <1>2, ZenonT(40) DEF VCpu
<1>4. LET y == set_efer_and_mode(x, efer) IN
      /\ y.efer = efer /\ y.ia32e = l
      /\ y.seg = x.seg /\ y.entry = x.entry
      /\ y.cr0rs = x.cr0rs /\ y.cr0 = x.cr0 /\ y.cr4rs = x.cr4rs /\ y.cr4 = x.cr4
      /\ y.rmode = x.rmode /\ y.mmu = x.mmu /\ y.cr3 = x.cr3
      /\ y.bitmap = x.bitmap /\ y.vm = x.vm /\ y.tr = x.tr
      /\ y.ldtr = x.ldtr /\ y.iopl = x.iopl
  BY <1>2 DEF VCpu
<1> QED BY <1>3, <1>4 DEF l

\* The guest starts in real mode, fit to run.
LEMMA SetupOK ==
    LET s == kvm_vcpu_setup IN
    Good(s) /\ s.vm /\ s.entry = "none" /\ s.rmode.iopl = 0
<1> DEFINE cr0 == {"CD", "NW"}
           a == write_cr0(Blank, cr0)
           no == {}
           b == write_cr4(a, no)
           c == set_efer_and_mode(b, no)
           s == kvm_mmu_reset_context(c)
<1>1. /\ cr0 \in SUBSET Cr0Bits /\ "PE" \notin cr0 /\ "PG" \notin cr0
      /\ no \in Cr4Shadows /\ no \in SUBSET {"LME", "LMA"} /\ "LMA" \notin no
      /\ "LME" \notin no /\ no \in SUBSET Cr0Bits
  BY DEF Cr0Bits, Cr4Shadows
<1>2. kvm_vcpu_setup = s
  BY SetupSteps
<1> DEFINE o == [tr |-> Blank.tr, iopl |-> 0]
<1>3. TaskInv(Blank, o)
  BY BlankOK DEF TaskInv
<1> HIDE DEF cr0, no, o
<1>4. /\ Early(a) /\ KVM_VM_CR0_ALWAYS_ON \subseteq a.cr0
      /\ a.entry = "none" /\ a.cr0rs = cr0 /\ TaskInv(a, o)
  BY <1>1, <1>3, BlankOK, WriteCr0OK
<1> HIDE DEF a
<1>5. /\ b \in VCpu /\ b.cr4rs = no /\ {"VMXE", "PAE"} \subseteq b.cr4
      /\ b.cr0rs = a.cr0rs /\ b.cr0 = a.cr0 /\ b.entry = a.entry
      /\ b.ia32e = a.ia32e /\ b.efer = a.efer /\ b.rmode = a.rmode
      /\ b.bitmap = a.bitmap /\ b.vm = a.vm /\ b.seg = a.seg /\ b.tr = a.tr
      /\ b.ldtr = a.ldtr /\ b.iopl = a.iopl
  BY <1>1, <1>4, WriteCr4Fields DEF Early
<1> HIDE DEF b
<1>6. /\ c \in VCpu /\ c.efer = no /\ (c.ia32e <=> "LMA" \in no)
      /\ c.seg = b.seg /\ c.entry = b.entry
      /\ c.cr0rs = b.cr0rs /\ c.cr0 = b.cr0 /\ c.cr4rs = b.cr4rs /\ c.cr4 = b.cr4
      /\ c.rmode = b.rmode
      /\ c.bitmap = b.bitmap /\ c.vm = b.vm /\ c.tr = b.tr
      /\ c.ldtr = b.ldtr /\ c.iopl = b.iopl
  BY <1>1, <1>5, EferModeFields
<1> HIDE DEF c
<1>7. /\ ~is_paging(c) /\ "PE" \notin guest_cr0(c) /\ "PE" \notin guest_cr0(a)
  BY <1>1, <1>4, <1>5, <1>6, GuestBits
<1>8. FixedOn(c) /\ LongInv(c) /\ PeInv(c) /\ BitmapInv(c) /\ TssOK(c.rmode.tr)
  BY <1>1, <1>4, <1>5, <1>6, <1>7
     DEF FixedOn, LongInv, PeInv, BitmapInv, Early
<1>9. BasesOK(c) /\ SegsOK(c)
  BY <1>4, <1>5, <1>6, SameSegs DEF Early, Fit
<1>10. Fit(c)
  BY <1>1, <1>4, <1>5, <1>6, <1>9 DEF Early, Fit, LdtrInv, TestLdtr
<1>11. Ready(c) /\ TaskInv(c, o)
  BY <1>4, <1>5, <1>6, <1>8, <1>10 DEF Ready, Early, TaskInv
<1>12. /\ Kept(s) /\ Fit(s) /\ s.entry = c.entry /\ s.cr0rs = c.cr0rs
       /\ s.vm = c.vm /\ s.rmode = c.rmode /\ TaskInv(s, o)
  BY <1>11, ResetOK
<1> HIDE DEF s
<1>13. s.rmode.active /\ s.vm
  BY <1>7, <1>8, <1>10, <1>12 DEF PeInv, Fit
<1>14. s.rmode.iopl = 0
  BY <1>12, <1>13 DEF TaskInv, o
<1> QED BY <1>2, <1>4, <1>5, <1>6, <1>12, <1>13, <1>14 DEF Good

-----------------------------------------------------------------------------
(* The images that QEMU loads.                                             *)

\* The guests that were saved, named.
Start == kvm_vcpu_setup
Prot == LoadSegs(LoadTask(set_cr0(Start, {"PE"}), Seg(40, 64, "64K", BusyTss)), Kernel32)
Pae == set_cr0(set_cr4(Prot, {"PAE"}), {"PE", "PG"})
Long == set_cr0(set_efer(set_cr4(Prot, {"PAE"}), {"LME"}), {"PE", "PG"})
Long64 ==
    LoadSegs([Long EXCEPT !.ldtr = NullSeg],
             IF NullSelectors THEN [Kernel64 EXCEPT !["SS"] = NullSeg] ELSE Kernel64)
Back == set_cr0(LoadSegs(Prot, Kernel16(2049)), {})

\* The register images user space restores were all saved from a guest.
LEMMA ImagesAre ==
    Images = {save_regs(x) : x \in {Start, Prot, Pae, Long64, Back}}
  BY DEF Images, Start, Prot, Pae, Long, Long64, Back

\* A write of CR0 that leaves protection on.
LEMMA StaysProtected ==
    ASSUME NEW x, Good(x), NEW cr0 \in SUBSET {"PE", "PG"}, "PE" \in cr0,
           ~x.vm \/ cr0 = {"PE"}
    PROVE  Good(set_cr0(x, cr0)) /\ ~set_cr0(x, cr0).vm
<1>1. cr0 \in SUBSET {"PE", "PG", "TS", "NW", "CD", "RSV"}
  OBVIOUS
<1>2. cr0 = {"PE"} => ~Cr0Refused(x, cr0)
  BY DEF Cr0Refused
<1> DEFINE y == set_cr0(x, cr0)
<1>3. /\ Done(x, y)
      /\ IF Cr0Refused(x, cr0) THEN y.vm = x.vm ELSE y.vm <=> "PE" \notin cr0
  BY <1>1, SetCr0OK
<1> HIDE DEF y
<1>4. Good(y) /\ ~y.vm
  BY <1>2, <1>3 DEF Done
<1> QED BY <1>4 DEF y

\* The guest after its switch to protected mode is well formed.
LEMMA ProtOK == Good(Prot) /\ ~Prot.vm
<1> DEFINE pe == {"PE"}
           a == set_cr0(Start, pe)
           t == Seg(40, 64, "64K", BusyTss)
           b == LoadTask(a, t)
           c == LoadSegs(b, Kernel32)
<1>1. pe \in SUBSET {"PE", "PG"} /\ "PE" \in pe /\ pe = {"PE"}
  OBVIOUS
<1>2. Good(Start)
  BY SetupOK DEF Start
<1> HIDE DEF pe
<1>3. Good(a) /\ ~a.vm
  BY <1>1, <1>2, StaysProtected
<1>4. t \in SegType /\ TssOK(t) /\ t.ar.type = 11
  BY TasksOK
<1> HIDE DEF a, t
<1>5. Good(b) /\ b.vm = a.vm
  BY <1>3, <1>4, LoadTaskOK
<1> HIDE DEF b
<1>6. Done(b, c) /\ c.vm = b.vm
  BY <1>3, <1>5, KernelsOK, LoadProtSegs
<1>7. Prot = c
  BY DEF Prot, c, b, a, t, pe
<1> HIDE DEF c
<1> QED BY <1>3, <1>5, <1>6, <1>7 DEF Done

\* So is it with paging on, and in long mode.
LEMMA PagingOK ==
    /\ Good(Pae)
    /\ Good(Long) /\ ~Long.vm
<1> DEFINE pae == {"PAE"}
           on == {"PE", "PG"}
           lme == {"LME"}
           a == set_cr4(Prot, pae)
           b == set_efer(a, lme)
<1>1. /\ pae \in SUBSET {"VME", "PAE", "VMXE", "RSV"}
      /\ on \in SUBSET {"PE", "PG"} /\ "PE" \in on
      /\ lme \in SUBSET {"LME", "LMA", "RSV"}
  OBVIOUS
<1> HIDE DEF pae, on, lme
<1>2. Done(Prot, a) /\ a.vm = Prot.vm
  BY <1>1, ProtOK, SetCr4OK
<1> HIDE DEF a
<1>3. Good(a) /\ ~a.vm
  BY <1>2, ProtOK DEF Done
<1>4. Done(a, b) /\ b.vm = a.vm
  BY <1>1, <1>3, SetEferOK
<1> HIDE DEF b
<1>5. Good(b) /\ ~b.vm
  BY <1>3, <1>4 DEF Done
<1>6. Good(set_cr0(a, on)) /\ Good(set_cr0(b, on)) /\ ~set_cr0(b, on).vm
  BY <1>1, <1>3, <1>5, StaysProtected
<1> QED BY <1>6 DEF Pae, Long, a, b, pae, on, lme

\* So is it in a 64-bit segment.
LEMMA Long64OK == Good(Long64)
<1> DEFINE a == [Long EXCEPT !.ldtr = NullSeg]
           f == IF NullSelectors THEN [Kernel64 EXCEPT !["SS"] = NullSeg] ELSE Kernel64
           b == LoadSegs(a, f)
<1>1. Done(Long, a) /\ a.vm = Long.vm
  BY PagingOK, LoadLdtOK
<1> HIDE DEF a
<1>2. Good(a) /\ ~a.vm
  BY <1>1, PagingOK DEF Done
<1>3. FileOK(f)
  BY KernelsOK
<1> HIDE DEF f
<1>4. Done(a, b)
  BY <1>2, <1>3, LoadProtSegs
<1>5. Long64 = b
  BY DEF Long64, b, a, f
<1> HIDE DEF b
<1> QED BY <1>4, <1>5 DEF Done

\* So is it back in real mode.
LEMMA BackOK == Good(Back)
<1> DEFINE n == 2049
           f == Kernel16(n)
           a == LoadSegs(Prot, f)
           cr0 == {}
           b == set_cr0(a, cr0)
<1>1. n \in RealBases
  BY DEF RealBases
<1> HIDE DEF n
<1>2. FileOK(f) /\ f["CS"].limit = "64K"
  BY <1>1, KernelsOK
<1> HIDE DEF f
<1>3. Done(Prot, a) /\ a.seg = f
  BY <1>2, ProtOK, LoadProtSegs
<1> HIDE DEF a
<1>4. Good(a) /\ a.seg["CS"].limit = "64K"
  BY <1>2, <1>3 DEF Done
<1>5. cr0 \in SUBSET {"PE", "PG", "TS", "NW", "CD", "RSV"}
  OBVIOUS
<1> HIDE DEF cr0
<1>6. Done(a, b)
  BY <1>4, <1>5, SetCr0OK
<1>7. Back = b
  BY DEF Back, b, a, f, n, cr0
<1> HIDE DEF b
<1> QED BY <1>6, <1>7 DEF Done

\* Every image comes from a vcpu that was fit to run.
LEMMA ImagesOK ==
    ASSUME NEW e \in Images
    PROVE  ImageInv(e)
<1>1. PICK x \in {Start, Prot, Pae, Long64, Back} : e = save_regs(x)
  BY ImagesAre
<1>2. Good(x)
  BY <1>1, SetupOK, ProtOK, PagingOK, Long64OK, BackOK DEF Start
<1> QED BY <1>1, <1>2 DEF ImageInv, Good

-----------------------------------------------------------------------------
(* KVM_GET_SREGS, and KVM_SET_SREGS with what QEMU makes of it.            *)

\* A usable segment comes back with the privilege level of its selector.
LEMMA SetSegKeeps ==
    ASSUME NEW s \in SegType, ~s.ar.u, s.ar.type # 0, NEW ds, NEW dt
    PROVE  LET z == set_seg(get_segment(s), ds, dt) IN
           /\ z \in SegType /\ z.sel = s.sel /\ z.base = s.base /\ z.limit = s.limit
           /\ z.ar.type = s.ar.type /\ z.ar.s = s.ar.s /\ z.ar.p = s.ar.p
           /\ z.ar.g = s.ar.g /\ ~z.ar.u /\ z.ar.dpl = Rpl(s.sel)
<1> DEFINE ar == s.ar
           new == [ar EXCEPT !.dpl = Rpl(s.sel)]
           z == [s EXCEPT !.ar = new]
<1>1. ar \in ArType /\ s.sel \in Nat
  BY SegTypes
<1>2. Rpl(s.sel) \in 0 .. 3
  BY <1>1, RplRange
<1> DEFINE cpl == Rpl(s.sel)
<1> HIDE DEF ar
<1>3. /\ new \in ArType
      /\ new.type = ar.type /\ new.s = ar.s /\ new.p = ar.p
      /\ new.g = ar.g /\ new.u = ar.u /\ new.dpl = Rpl(s.sel)
  <2> HIDE DEF cpl
  <2> DEFINE n == [ar EXCEPT !.dpl = cpl]
  <2>1. cpl \in 0 .. 3
    BY <1>2 DEF cpl
  <2>2. /\ n \in ArType
        /\ n.type = ar.type /\ n.s = ar.s /\ n.p = ar.p
        /\ n.g = ar.g /\ n.u = ar.u /\ n.dpl = cpl
    BY <1>1, <2>1 DEF ArType
  <2> QED BY <2>2 DEF cpl
<1>4. [ar EXCEPT !.p = FALSE, !.u = TRUE] # NullSeg.ar
  <2> DEFINE old == [ar EXCEPT !.p = FALSE, !.u = TRUE]
  <2>1. old.type = ar.type
    BY <1>1 DEF ArType
  <2> HIDE DEF old
  <2>2. old.type # NullSeg.ar.type
    BY <2>1, NullSegFields DEF ar
  <2>3. old # NullSeg.ar
    BY <2>2
  <2> QED BY <2>3 DEF old
<1>5. set_seg(s, ds, dt) = z
  BY <1>4 DEF set_seg, ar
<1>6. get_segment(s) = s
  BY DEF get_segment
<1> HIDE DEF new
<1>7. /\ z \in SegType /\ z.sel = s.sel /\ z.base = s.base /\ z.limit = s.limit
      /\ z.ar = new
  BY <1>3, SegTypes
<1>8. set_seg(get_segment(s), ds, dt) = z
  BY <1>5, <1>6
<1> HIDE DEF z
<1>9. /\ z \in SegType /\ z.sel = s.sel /\ z.base = s.base /\ z.limit = s.limit
      /\ z.ar.type = s.ar.type /\ z.ar.s = s.ar.s /\ z.ar.p = s.ar.p
      /\ z.ar.g = s.ar.g /\ ~z.ar.u /\ z.ar.dpl = Rpl(s.sel)
  BY <1>3, <1>7 DEF ar
<1> QED BY <1>8, <1>9

\* An empty segment comes back with the defaults.
LEMMA SetSegDefault ==
    ASSUME NEW s \in SegType, s.ar.u, NEW ds \in BOOLEAN, NEW dt \in 0 .. 15
    PROVE  LET z == set_seg(get_segment(s), ds, dt) IN
           /\ z \in SegType /\ z.sel = s.sel /\ z.base = s.base /\ z.limit = s.limit
           /\ z.ar.type = dt /\ z.ar.s = ds /\ z.ar.p
           /\ ~z.ar.g /\ ~z.ar.u /\ z.ar.dpl = Rpl(s.sel)
<1> DEFINE zero == [NullSeg.ar EXCEPT !.u = FALSE]
           g == [s EXCEPT !.ar = zero]
           new == Ar(dt, ds, Rpl(s.sel))
           z == [g EXCEPT !.ar = new]
<1>1. s.sel \in Nat
  BY SegTypes
<1>2. Rpl(s.sel) \in 0 .. 3
  BY <1>1, RplRange
<1>3. /\ new \in ArType /\ new.type = dt /\ new.s = ds /\ new.p
      /\ ~new.g /\ ~new.u /\ new.dpl = Rpl(s.sel)
  <2>1. new \in ArType
    BY <1>2, ArTypes
  <2> QED BY <2>1 DEF Ar
<1>4. zero \in ArType /\ [zero EXCEPT !.p = FALSE, !.u = TRUE] = NullSeg.ar
  <2> DEFINE n == NullSeg.ar
  <2>1. n \in ArType /\ ~n.p /\ n.u
    BY ArTypes, NullSegFields
  <2> HIDE DEF n
  <2>2. [n EXCEPT !.u = FALSE] \in ArType
    BY <2>1 DEF ArType
  <2>3. [[n EXCEPT !.u = FALSE] EXCEPT !.p = FALSE, !.u = TRUE] = n
    BY <2>1 DEF ArType
  <2> QED BY <2>2, <2>3 DEF n
<1>5. get_segment(s) = g
  BY DEF get_segment
<1> HIDE DEF zero, new
<1>6. g \in SegType /\ g.ar = zero /\ g.sel = s.sel /\ g.base = s.base /\ g.limit = s.limit
  BY <1>4, SegTypes
<1> HIDE DEF g
<1>7. set_seg(g, ds, dt) = z
  BY <1>4, <1>6 DEF set_seg, new
<1>8. /\ z \in SegType /\ z.sel = g.sel /\ z.base = g.base /\ z.limit = g.limit
      /\ z.ar = new
  BY <1>3, <1>6, SegTypes
<1> HIDE DEF z
<1>9. /\ z \in SegType /\ z.sel = s.sel /\ z.base = s.base /\ z.limit = s.limit
      /\ z.ar.type = dt /\ z.ar.s = ds /\ z.ar.p
      /\ ~z.ar.g /\ ~z.ar.u /\ z.ar.dpl = Rpl(s.sel)
  BY <1>3, <1>6, <1>8
<1> QED BY <1>5, <1>7, <1>9

\* set_seg of a saved segment is a segment.
LEMMA SetSegType ==
    ASSUME NEW s \in SegType, NEW ds \in BOOLEAN, NEW dt \in 0 .. 15
    PROVE  set_seg(get_segment(s), ds, dt) \in SegType
<1>1. CASE s.ar.u
  BY <1>1, SetSegDefault
<1>2. CASE ~s.ar.u
  <2>1. get_segment(s) = s
    BY <1>2 DEF get_segment
  <2> DEFINE ar == s.ar
             cpl == Rpl(s.sel)
  <2>2. ar \in ArType /\ cpl \in 0 .. 3
    BY RplRange, SegTypes
  <2>3. Ar(dt, ds, cpl) \in ArType
    BY <2>2, ArTypes
  <2>4. set_seg(s, ds, dt) \in {[s EXCEPT !.ar = [ar EXCEPT !.dpl = cpl]],
                                [s EXCEPT !.ar = Ar(dt, ds, cpl)]}
    BY DEF set_seg
  <2> HIDE DEF ar, cpl
  <2>5. [ar EXCEPT !.dpl = cpl] \in ArType
    BY <2>2 DEF ArType
  <2>6. \A new \in ArType : [s EXCEPT !.ar = new] \in SegType
    BY SegExcept
  <2>7. /\ [s EXCEPT !.ar = [ar EXCEPT !.dpl = cpl]] \in SegType
        /\ [s EXCEPT !.ar = Ar(dt, ds, cpl)] \in SegType
    BY <2>3, <2>5, <2>6
  <2> QED BY <2>1, <2>4, <2>7
<1> QED BY <1>1, <1>2

\* The segments of protected mode, as KVM_SET_SREGS gets them: code, data
\* and stack, of a vcpu that was fit.
ProtSeg(z) == z \in SegType /\ Low16(z.base) = z.base /\ ~z.ar.u /\ z.ar.s /\ z.ar.p
CodeLoaded(z) ==
    /\ ProtSeg(z) /\ SegGTest(z)
    /\ z.ar.type \in {9, 11, 13, 15} /\ z.ar.dpl = Rpl(z.sel)
StackLoaded(z, cpl) ==
    /\ ProtSeg(z) /\ SegGTest(z)
    /\ z.ar.type \in {3, 7} /\ z.ar.dpl = cpl /\ Rpl(z.sel) = cpl
DataLoaded(z) ==
    /\ ProtSeg(z) /\ SegGTest(z)
    /\ z.ar.type \in {1, 3, 5, 7, 11, 15} /\ z.ar.dpl = Rpl(z.sel)

\* A saved code segment loads as one.
LEMMA CodeLoads ==
    ASSUME NEW x, Good(x), ~x.vm, NEW ds \in BOOLEAN, NEW dt \in 0 .. 15
    PROVE  LET z == set_seg(get_segment(x.seg["CS"]), ds, dt) IN
           CodeLoaded(z) /\ z.sel = x.seg["CS"].sel
<1> DEFINE s == x.seg["CS"]
           z == set_seg(get_segment(s), ds, dt)
<1>1. s \in SegType /\ Low16(s.base) = s.base /\ NullOK(s)
  BY DEF Good, Kept, VCpu, SegFile, SegRegs, Fit, BasesOK
<1>2. /\ s.ar.type \in {9, 11, 13, 15} /\ s.ar.s /\ s.ar.p /\ SegGTest(s)
  BY DEF Good, Fit, SegsOK, TestCode
<1> HIDE DEF s
<1>3. ~s.ar.u /\ s.ar.type # 0
  BY <1>1, <1>2, NullSegFields DEF NullOK
<1>4. /\ z \in SegType /\ z.sel = s.sel /\ z.base = s.base /\ z.limit = s.limit
      /\ z.ar.type = s.ar.type /\ z.ar.s = s.ar.s /\ z.ar.p = s.ar.p
      /\ z.ar.g = s.ar.g /\ ~z.ar.u /\ z.ar.dpl = Rpl(s.sel)
  BY <1>1, <1>3, SetSegKeeps
<1> HIDE DEF z
<1>5. CodeLoaded(z) /\ z.sel = s.sel
  BY <1>1, <1>2, <1>4 DEF CodeLoaded, ProtSeg, SegGTest
<1> QED BY <1>5 DEF s, z

\* A saved data segment loads as one.
LEMMA DataLoads ==
    ASSUME NEW x, Good(x), ~x.vm, NEW ds \in BOOLEAN, NEW dt \in 0 .. 15, dt = 3
    PROVE  ds => DataLoaded(set_seg(get_segment(x.seg["DS"]), ds, dt))
<1> DEFINE s == x.seg["DS"]
           z == set_seg(get_segment(s), ds, dt)
<1>1. s \in SegType /\ Low16(s.base) = s.base /\ NullOK(s) /\ s.ar \in ArType
  BY SegTypes DEF Good, Kept, VCpu, SegFile, SegRegs, Fit, BasesOK
<1>2. ~s.ar.u =>
            /\ s.ar.type % 2 = 1 /\ s.ar.s /\ s.ar.p
            /\ s.ar.type >= 8 => s.ar.type \in {11, 15}
            /\ SegGTest(s)
  BY DEF Good, Fit, SegsOK, TestData
<1> HIDE DEF s
<1>3. CASE s.ar.u
  <2>1. /\ z \in SegType /\ z.sel = s.sel /\ z.base = s.base /\ z.limit = s.limit
        /\ z.ar.type = dt /\ z.ar.s = ds /\ z.ar.p
        /\ ~z.ar.g /\ ~z.ar.u /\ z.ar.dpl = Rpl(s.sel)
    BY <1>1, <1>3, SetSegDefault
  <2> HIDE DEF z
  <2>2. s.limit = "64K"
    BY <1>1, <1>3 DEF NullOK
  <2>3. ds => DataLoaded(z)
    BY <1>1, <2>1, <2>2 DEF DataLoaded, ProtSeg, SegGTest
  <2> QED BY <2>3 DEF z, s
<1>4. CASE ~s.ar.u
  <2>1. s.ar.type \in {1, 3, 5, 7, 11, 15}
    <3> DEFINE t == s.ar.type
    <3>1. t \in 0 .. 15
      BY <1>1 DEF ArType
    <3>2. t % 2 = 1 /\ (t >= 8 => t \in {11, 15})
      BY <1>2, <1>4
    <3> HIDE DEF t
    <3>3. t \in {1, 3, 5, 7, 11, 15}
      BY <3>1, <3>2
    <3> QED BY <3>3 DEF t
  <2>2. /\ z \in SegType /\ z.sel = s.sel /\ z.base = s.base /\ z.limit = s.limit
        /\ z.ar.type = s.ar.type /\ z.ar.s = s.ar.s /\ z.ar.p = s.ar.p
        /\ z.ar.g = s.ar.g /\ ~z.ar.u /\ z.ar.dpl = Rpl(s.sel)
    BY <1>1, <1>4, <2>1, SetSegKeeps
  <2> HIDE DEF z
  <2>3. ds => DataLoaded(z)
    BY <1>1, <1>2, <1>4, <2>1, <2>2 DEF DataLoaded, ProtSeg, SegGTest
  <2> QED BY <2>3 DEF z, s
<1> QED BY <1>3, <1>4

\* What load_regs makes of SS in protected mode.
StackSeg(s, cpl) == [s EXCEPT !.sel = (@ - Rpl(@)) + cpl, !.ar.dpl = cpl]

\* A saved stack segment loads as one of the same ring.
LEMMA StackLoads ==
    ASSUME NEW x, Good(x), ~x.vm, NEW ds \in BOOLEAN, NEW dt \in 0 .. 15, dt = 3
    PROVE  LET cpl == Rpl(x.seg["CS"].sel) IN
           ds => StackLoaded(StackSeg(set_seg(get_segment(x.seg["SS"]), ds, dt), cpl), cpl)
<1> DEFINE s == x.seg["SS"]
           cpl == Rpl(x.seg["CS"].sel)
           z == set_seg(get_segment(s), ds, dt)
           y == StackSeg(z, cpl)
<1>1. s \in SegType /\ Low16(s.base) = s.base /\ NullOK(s)
  BY DEF Good, Kept, VCpu, SegFile, SegRegs, Fit, BasesOK
<1>2. ~s.ar.u => s.ar.type \in {3, 7} /\ s.ar.s /\ s.ar.p /\ SegGTest(s)
  BY DEF Good, Fit, SegsOK, TestStack
<1>3. cpl \in 0 .. 3
  BY RplRange, SegTypes DEF Good, Kept, VCpu, SegFile, SegRegs
<1> HIDE DEF s, cpl
<1>4. /\ z \in SegType /\ z.base = s.base /\ z.ar.type \in {3, 7} /\ (ds => z.ar.s)
      /\ z.ar.p /\ ~z.ar.u /\ SegGTest(z)
  <2>1. CASE s.ar.u
    <3>1. /\ z \in SegType /\ z.base = s.base /\ z.limit = s.limit
          /\ z.ar.type = dt /\ z.ar.s = ds /\ z.ar.p
          /\ ~z.ar.g /\ ~z.ar.u
      BY <1>1, <2>1, SetSegDefault
    <3> HIDE DEF z
    <3>2. s.limit = "64K"
      BY <1>1, <2>1 DEF NullOK
    <3> QED BY <3>1, <3>2 DEF SegGTest
  <2>2. CASE ~s.ar.u
    <3>1. s.ar.type # 0
      BY <1>2, <2>2
    <3>2. /\ z \in SegType /\ z.base = s.base /\ z.limit = s.limit
          /\ z.ar.type = s.ar.type /\ z.ar.s = s.ar.s /\ z.ar.p = s.ar.p
          /\ z.ar.g = s.ar.g /\ ~z.ar.u
      BY <1>1, <2>2, <3>1, SetSegKeeps
    <3> HIDE DEF z
    <3> QED BY <1>2, <2>2, <3>2 DEF SegGTest
  <2> QED BY <2>1, <2>2
<1> HIDE DEF z
<1> DEFINE ar == z.ar
           sel == (z.sel - Rpl(z.sel)) + cpl
           new == [ar EXCEPT !.dpl = cpl]
           w == [z EXCEPT !.sel = sel, !.ar = new]
<1>5. ar \in ArType /\ sel \in Nat /\ Rpl(sel) = cpl
  BY <1>3, <1>4, SegTypes, RplRange
<1>6. StackSeg(z, cpl) = w
  BY <1>4, <1>5, SegTypes DEF StackSeg
<1> HIDE DEF ar, sel
<1>7. /\ new \in ArType /\ new.type = ar.type /\ new.s = ar.s /\ new.p = ar.p
      /\ new.g = ar.g /\ new.u = ar.u /\ new.dpl = cpl
  BY <1>3, <1>5 DEF ArType
<1> HIDE DEF new
<1>8. /\ w \in SegType /\ w.sel = sel /\ w.base = z.base /\ w.limit = z.limit
      /\ w.ar = new
  BY <1>4, <1>5, <1>7, SegTypes
<1> HIDE DEF w
<1>9. ds => StackLoaded(w, cpl)
  BY <1>1, <1>4, <1>5, <1>7, <1>8 DEF StackLoaded, ProtSeg, SegGTest, ar
<1> QED BY <1>6, <1>9 DEF z, s, cpl

\* The task register and the LDTR.
LEMMA SystemLoads ==
    ASSUME NEW x, Good(x), NEW ds \in BOOLEAN, NEW d3 \in 0 .. 15, d3 = 3,
           NEW d2 \in 0 .. 15, d2 = 2
    PROVE  LET tr == set_seg(get_segment(x.tr), ds, d3)
               ld == set_seg(get_segment(x.ldtr), ds, d2)
           IN  /\ tr \in SegType
               /\ ~x.vm => TssOK(tr) /\ tr.ar.type = x.tr.ar.type
               /\ ld \in SegType
               /\ ~ds => /\ ld.ar.type = 2 /\ ~ld.ar.s /\ ld.ar.p /\ ~ld.ar.u
                         /\ SegGTest(ld)
<1> DEFINE s == x.tr
           l == x.ldtr
           tr == set_seg(get_segment(s), ds, d3)
           ld == set_seg(get_segment(l), ds, d2)
<1>1. s \in SegType /\ l \in SegType
  BY DEF Good, Kept, VCpu
<1>2. ~x.vm => TssOK(s)
  BY DEF Good, Fit, SegsOK
<1>3. /\ ~l.ar.u => l.ar.type = 2 /\ ~l.ar.s /\ l.ar.p /\ SegGTest(l)
      /\ l.ar.u => l.limit = "64K"
  BY DEF Good, Fit, LdtrInv, TestLdtr, NullOK
<1> HIDE DEF s, l
<1>4. tr \in SegType /\ ld \in SegType
  BY <1>1, SetSegType
<1>5. ~x.vm => TssOK(tr) /\ tr.ar.type = s.ar.type
  <2> SUFFICES ASSUME ~x.vm
               PROVE  TssOK(tr) /\ tr.ar.type = s.ar.type
    OBVIOUS
  <2>1. s.ar.type # 0 /\ ~s.ar.u
    BY <1>2 DEF TssOK
  <2>2. /\ tr.limit = s.limit
        /\ tr.ar.type = s.ar.type /\ tr.ar.s = s.ar.s /\ tr.ar.p = s.ar.p
        /\ tr.ar.g = s.ar.g /\ ~tr.ar.u
    BY <1>1, <2>1, SetSegKeeps
  <2> HIDE DEF tr
  <2> QED BY <1>2, <2>2 DEF TssOK, SegGTest
<1>6. CASE l.ar.u
  <2>1. /\ ld.limit = l.limit /\ ld.ar.type = d2 /\ ld.ar.s = ds /\ ld.ar.p
        /\ ~ld.ar.g /\ ~ld.ar.u
    BY <1>1, <1>6, SetSegDefault
  <2> HIDE DEF ld
  <2>2. ~ds => /\ ld.ar.type = 2 /\ ~ld.ar.s /\ ld.ar.p /\ ~ld.ar.u
               /\ SegGTest(ld)
    BY <1>3, <1>6, <2>1 DEF SegGTest
  <2> QED BY <1>4, <1>5, <2>2 DEF ld, tr, s, l
<1>7. CASE ~l.ar.u
  <2>1. /\ ld.limit = l.limit /\ ld.ar.type = l.ar.type /\ ld.ar.s = l.ar.s
        /\ ld.ar.p = l.ar.p /\ ld.ar.g = l.ar.g /\ ~ld.ar.u
    BY <1>1, <1>3, <1>7, SetSegKeeps
  <2> HIDE DEF ld
  <2>2. ~ds => /\ ld.ar.type = 2 /\ ~ld.ar.s /\ ld.ar.p /\ ~ld.ar.u
               /\ SegGTest(ld)
    BY <1>3, <1>7, <2>1 DEF SegGTest
  <2> QED BY <1>4, <1>5, <2>2 DEF ld, tr, s, l
<1> QED BY <1>6, <1>7

\* What QEMU passes to KVM_SET_SREGS for an image of x: the registers of x,
\* and segments that fit its mode.
Passed(x, l) ==
    /\ l.cr0 = guest_cr0(x) /\ l.cr3 = x.cr3 /\ l.cr4 = guest_cr4(x)
    /\ l.efer = x.efer
    /\ l.seg \in SegFile /\ l.tr \in SegType /\ l.ldtr \in SegType
    /\ \A y : y.seg = l.seg /\ y.vm = x.vm /\ y.tr = l.tr => BasesOK(y) /\ SegsOK(y)
    /\ \A y : y.ldtr = l.ldtr => LdtrInv(y)
    /\ x.ia32e => l.tr.ar.type = 11

\* Segments that were loaded pass the checks of VM entry.
LEMMA LoadedSegs ==
    ASSUME NEW f \in SegFile, NEW x, NEW tr,
           IF x.vm THEN f = x.seg /\ TestVm86(x) /\ BasesOK(x)
           ELSE /\ CodeLoaded(f["CS"]) /\ DataLoaded(f["DS"])
                /\ StackLoaded(f["SS"], Rpl(f["CS"].sel))
                /\ TssOK(tr)
    PROVE  \A y : y.seg = f /\ y.vm = x.vm /\ y.tr = tr => BasesOK(y) /\ SegsOK(y)
<1> SUFFICES ASSUME NEW y, y.seg = f, y.vm = x.vm, y.tr = tr
             PROVE  BasesOK(y) /\ SegsOK(y)
  OBVIOUS
<1>1. CASE x.vm
  BY <1>1 DEF BasesOK, SegsOK, TestVm86
<1>2. CASE ~x.vm
  <2> DEFINE c == f["CS"]
             d == f["DS"]
             s == f["SS"]
  <2>1. CodeLoaded(c) /\ DataLoaded(d) /\ StackLoaded(s, Rpl(c.sel)) /\ TssOK(y.tr)
    BY <1>2
  <2>2. y.seg["CS"] = c /\ y.seg["DS"] = d /\ y.seg["SS"] = s
    OBVIOUS
  <2>3. Rpl(c.sel) \in 0 .. 3 /\ Rpl(d.sel) \in 0 .. 3
    BY <2>1, RplRange, SegTypes DEF CodeLoaded, DataLoaded, ProtSeg
  <2> HIDE DEF c, d, s
  <2>4. BasesOK(y)
    BY <2>1, <2>2 DEF BasesOK, SegRegs, NullOK, CodeLoaded, DataLoaded, StackLoaded,
                      ProtSeg
  <2>5. TestCode(y)
    BY <2>1, <2>2, <2>3 DEF TestCode, CodeLoaded, ProtSeg
  <2>6. TestStack(y)
    BY <2>1, <2>2 DEF TestStack, StackLoaded, ProtSeg
  <2>7. TestData(y)
    BY <2>1, <2>2, <2>3 DEF TestData, DataLoaded, ProtSeg
  <2> QED BY <1>2, <2>1, <2>4, <2>5, <2>6, <2>7 DEF SegsOK
<1> QED BY <1>1, <1>2

\* A saved register image passes through load_sregs.
LEMMA LoadSregsOK ==
    ASSUME NEW x, Good(x)
    PROVE  Passed(x, load_sregs(save_regs(x)))
<1> DEFINE e == save_regs(x)
           yes == TRUE
           no == FALSE
           d2 == 2
           d3 == 3
           d11 == 11
           seg == [r \in SegRegs |->
                     IF e.vm THEN [e.seg[r] EXCEPT !.ar = Vm86]
                     ELSE set_seg(e.seg[r], yes, IF r = "CS" THEN d11 ELSE d3)]
           ss == StackSeg(seg["SS"], Rpl(seg["CS"].sel))
           f == IF ~e.vm /\ "PE" \in e.cr0 THEN [seg EXCEPT !["SS"] = ss] ELSE seg
           tr == set_seg(e.tr, no, d3)
           ld == set_seg(e.ldtr, no, d2)
           l == [e EXCEPT !.seg = f, !.tr = tr, !.ldtr = ld]
<1>1. load_sregs(e) = l
  BY Zenon DEF load_sregs, StackSeg
<1>2. /\ yes \in BOOLEAN /\ yes /\ no \in BOOLEAN /\ ~no
      /\ d2 \in 0 .. 15 /\ d2 = 2 /\ d3 \in 0 .. 15 /\ d3 = 3 /\ d11 \in 0 .. 15
  OBVIOUS
<1> HIDE DEF yes, no, d2, d3, d11, f, tr, ld
<1>3. /\ e.vm = x.vm /\ e.cr0 = guest_cr0(x)
      /\ e.seg = [r \in SegRegs |-> get_segment(x.seg[r])]
      /\ e.tr = get_segment(x.tr) /\ e.ldtr = get_segment(x.ldtr)
      /\ l.cr0 = guest_cr0(x) /\ l.cr3 = x.cr3 /\ l.cr4 = guest_cr4(x)
      /\ l.efer = x.efer /\ l.seg = f /\ l.tr = tr /\ l.ldtr = ld
  BY DEF save_regs
<1> HIDE DEF e, l
<1>4. x \in VCpu /\ (~x.vm => "PE" \in guest_cr0(x)) /\ (x.ia32e => ~x.vm)
  BY GoodMode DEF Good, Kept, Fit, PeInv
<1>5. /\ tr \in SegType /\ (~x.vm => TssOK(tr) /\ tr.ar.type = x.tr.ar.type)
      /\ ld \in SegType
      /\ ld.ar.type = 2 /\ ~ld.ar.s /\ ld.ar.p /\ ~ld.ar.u /\ SegGTest(ld)
  BY <1>2, <1>3, SystemLoads DEF tr, ld
<1>6. \A y : y.ldtr = l.ldtr => LdtrInv(y)
  BY <1>3, <1>5 DEF LdtrInv, TestLdtr, NullOK
<1>7. x.ia32e => l.tr.ar.type = 11
  BY <1>3, <1>4, <1>5 DEF Good, Fit
<1>8. /\ f \in SegFile
      /\ IF x.vm THEN f = x.seg /\ TestVm86(x) /\ BasesOK(x)
         ELSE /\ CodeLoaded(f["CS"]) /\ DataLoaded(f["DS"])
              /\ StackLoaded(f["SS"], Rpl(f["CS"].sel))
              /\ TssOK(tr)
  <2>1. CASE x.vm
    <3>1. TestVm86(x) /\ BasesOK(x) /\ x.seg \in SegFile
      BY <1>4, <2>1 DEF Good, Fit, SegsOK, VCpu
    <3>2. ASSUME NEW r \in SegRegs
          PROVE  [get_segment(x.seg[r]) EXCEPT !.ar = Vm86] = x.seg[r]
      <4> DEFINE s == x.seg[r]
      <4>1. s \in SegType /\ s.ar = Vm86
        BY <3>1 DEF SegFile, TestVm86
      <4> HIDE DEF s
      <4>2. ~Vm86.u
        BY DEF Vm86, Ar
      <4>3. get_segment(s) = s
        BY <4>1, <4>2 DEF get_segment
      <4>4. [s EXCEPT !.ar = Vm86] = s
        BY <4>1, SegTypes
      <4> QED BY <4>3, <4>4 DEF s
    <3>3. f = [r \in SegRegs |-> [e.seg[r] EXCEPT !.ar = Vm86]]
      BY <1>3, <2>1 DEF f
    <3>4. f = [r \in SegRegs |-> x.seg[r]]
      BY <1>3, <3>2, <3>3
    <3>5. f = x.seg
      BY <3>1, <3>4 DEF SegFile
    <3> QED BY <2>1, <3>1, <3>5
  <2>2. CASE ~x.vm
    <3> DEFINE c == set_seg(get_segment(x.seg["CS"]), yes, d11)
               d == set_seg(get_segment(x.seg["DS"]), yes, d3)
               s == set_seg(get_segment(x.seg["SS"]), yes, d3)
               cpl == Rpl(x.seg["CS"].sel)
               z == StackSeg(s, cpl)
    <3>1. CodeLoaded(c) /\ c.sel = x.seg["CS"].sel
      BY <1>2, <2>2, CodeLoads
    <3>2. DataLoaded(d)
      BY <1>2, <2>2, DataLoads
    <3>3. StackLoaded(z, cpl)
      BY <1>2, <2>2, StackLoads
    <3>4. seg["CS"] = c /\ seg["DS"] = d /\ seg["SS"] = s
      BY <1>3, <2>2 DEF SegRegs
    <3>5. f = [seg EXCEPT !["SS"] = StackSeg(seg["SS"], Rpl(seg["CS"].sel))]
      BY <1>3, <1>4, <2>2 DEF f
    <3>6. seg = [r \in SegRegs |-> seg[r]]
      OBVIOUS
    <3> HIDE DEF c, d, s, z, seg
    <3>7. f = [seg EXCEPT !["SS"] = z]
      BY <3>1, <3>4, <3>5 DEF z, cpl
    <3>8. f["CS"] = c /\ f["DS"] = d /\ f["SS"] = z /\ f = [r \in SegRegs |-> f[r]]
      BY <3>4, <3>6, <3>7 DEF SegRegs
    <3>9. c \in SegType /\ d \in SegType /\ z \in SegType
      BY <3>1, <3>2, <3>3 DEF CodeLoaded, DataLoaded, StackLoaded, ProtSeg
    <3>10. f \in SegFile
      BY <3>8, <3>9 DEF SegFile, SegRegs
    <3>11. StackLoaded(f["SS"], Rpl(f["CS"].sel))
      BY <3>1, <3>3, <3>8 DEF cpl
    <3> QED BY <1>5, <2>2, <3>1, <3>2, <3>8, <3>10, <3>11
  <2> QED BY <2>1, <2>2
<1>9. \A y : y.seg = f /\ y.vm = x.vm /\ y.tr = tr => BasesOK(y) /\ SegsOK(y)
  BY <1>8, LoadedSegs
<1>10. Passed(x, l)
  BY <1>3, <1>5, <1>6, <1>7, <1>8, <1>9 DEF Passed
<1> QED BY <1>1, <1>10 DEF e

\* KVM_SET_SREGS in steps: descriptors and EFER, then the mode, then CR0.
SregsSegs(x, e) ==
    [x EXCEPT !.seg = e.seg, !.tr = e.tr, !.ldtr = e.ldtr, !.cr3 = e.cr3]
SregsMode(b, e) ==
    update_exception_bitmap([b EXCEPT !.rmode.active = "PE" \notin e.cr0])

\* set_sregs is the sequence of register writes it makes.
LEMMA SetSregsSteps ==
    ASSUME NEW x, NEW e
    PROVE  LET a == SregsSegs(x, e)
               b == set_efer_and_mode(a, e.efer)
               c == SregsMode(b, e)
               d == WriteRegs(c, e.cr0)
               f == write_cr4(d, e.cr4)
           IN  set_sregs(x, e) =
                 IF \/ x.cr3 # e.cr3 \/ x.efer # e.efer
                    \/ guest_cr0(c) # e.cr0 \/ guest_cr4(d) # e.cr4
                 THEN kvm_mmu_reset_context(f) ELSE f
  BY Zenon DEF set_sregs, SregsSegs, SregsMode, WriteRegs

\* What the segment half of set_sregs sets, and what it leaves.
LEMMA SregsSegsFields ==
    ASSUME NEW x \in VCpu, NEW e, e.seg \in SegFile, e.tr \in SegType,
           e.ldtr \in SegType, e.cr3 \in {"ok", "bad"}
    PROVE  LET y == SregsSegs(x, e) IN
           /\ y \in VCpu /\ y.seg = e.seg /\ y.tr = e.tr /\ y.ldtr = e.ldtr
           /\ y.entry = x.entry /\ y.efer = x.efer /\ y.mmu = x.mmu
           /\ y.cr0rs = x.cr0rs /\ y.cr0 = x.cr0 /\ y.cr4rs = x.cr4rs /\ y.cr4 = x.cr4
           /\ y.rmode = x.rmode /\ y.bitmap = x.bitmap /\ y.vm = x.vm /\ y.iopl = x.iopl
<1> DEFINE seg == e.seg
           tr == e.tr
           ld == e.ldtr
           cr3 == e.cr3
           y == [x EXCEPT !.seg = seg, !.tr = tr, !.ldtr = ld, !.cr3 = cr3]
<1>1. seg \in SegFile /\ tr \in SegType /\ ld \in SegType /\ cr3 \in {"ok", "bad"}
  OBVIOUS
<1>2. SregsSegs(x, e) = y
  BY DEF SregsSegs
<1> HIDE DEF seg, tr, ld, cr3
<1>3. y \in VCpu
  BY <1>1 DEF VCpu
<1>4. /\ y.seg = seg /\ y.tr = tr /\ y.ldtr = ld
      /\ y.entry = x.entry /\ y.efer = x.efer /\ y.mmu = x.mmu
      /\ y.cr0rs = x.cr0rs /\ y.cr0 = x.cr0 /\ y.cr4rs = x.cr4rs /\ y.cr4 = x.cr4
      /\ y.rmode = x.rmode /\ y.bitmap = x.bitmap /\ y.vm = x.vm /\ y.iopl = x.iopl
  BY DEF VCpu
<1> HIDE DEF y
<1> QED BY <1>2, <1>3, <1>4 DEF seg, tr, ld

\* What the mode half of set_sregs sets, and what it leaves.
LEMMA SregsModeFields ==
    ASSUME NEW b \in VCpu, NEW e
    PROVE  LET y == SregsMode(b, e) IN
           /\ y \in VCpu /\ (y.rmode.active <=> "PE" \notin e.cr0) /\ BitmapInv(y)
           /\ y.rmode.tr = b.rmode.tr /\ y.rmode.iopl = b.rmode.iopl
           /\ y.seg = b.seg /\ y.tr = b.tr /\ y.ldtr = b.ldtr /\ y.ia32e = b.ia32e
           /\ y.entry = b.entry /\ y.efer = b.efer /\ y.mmu = b.mmu
           /\ y.cr0rs = b.cr0rs /\ y.cr4rs = b.cr4rs
           /\ y.vm = b.vm /\ y.iopl = b.iopl
<1> DEFINE on == "PE" \notin e.cr0
           rm == b.rmode
           new == [rm EXCEPT !.active = on]
           c == [b EXCEPT !.rmode = new]
           bm == IF new.active THEN {"PF", "GP", "DB"} ELSE {"PF"}
           y == [c EXCEPT !.bitmap = bm]
<1>1. rm \in Rmode /\ on \in BOOLEAN
  BY DEF VCpu
<1>2. c = [b EXCEPT !.rmode.active = on]
  BY DEF VCpu
<1> HIDE DEF rm, on
<1>3. /\ new \in Rmode /\ (new.active <=> on) /\ new.tr = rm.tr /\ new.iopl = rm.iopl
  BY <1>1 DEF Rmode
<1> HIDE DEF new
<1>4. /\ c \in VCpu /\ c.rmode = new
      /\ c.seg = b.seg /\ c.tr = b.tr /\ c.ldtr = b.ldtr /\ c.ia32e = b.ia32e
      /\ c.entry = b.entry /\ c.efer = b.efer /\ c.mmu = b.mmu
      /\ c.cr0rs = b.cr0rs /\ c.cr4rs = b.cr4rs
      /\ c.vm = b.vm /\ c.iopl = b.iopl
  BY <1>3 DEF VCpu
<1> HIDE DEF c
<1>5. update_exception_bitmap(c) = y
  BY <1>4 DEF update_exception_bitmap
<1>6. SregsMode(b, e) = update_exception_bitmap(c)
  BY <1>2 DEF SregsMode, on
<1>7. /\ bm \in SUBSET Exceptions /\ "PF" \in bm /\ ("GP" \in bm <=> new.active)
  BY DEF Exceptions
<1> HIDE DEF bm
<1>8. /\ y \in VCpu /\ y.rmode = new /\ y.bitmap = bm
      /\ y.seg = c.seg /\ y.tr = c.tr /\ y.ldtr = c.ldtr /\ y.ia32e = c.ia32e
      /\ y.entry = c.entry /\ y.efer = c.efer /\ y.mmu = c.mmu
      /\ y.cr0rs = c.cr0rs /\ y.cr4rs = c.cr4rs
      /\ y.vm = c.vm /\ y.iopl = c.iopl
  BY <1>4, <1>7 DEF VCpu
<1>9. SregsMode(b, e) = y
  BY <1>5, <1>6
<1> HIDE DEF y
<1>10. BitmapInv(y)
  BY <1>7, <1>8 DEF BitmapInv
<1>11. (y.rmode.active <=> "PE" \notin e.cr0)
  BY <1>3, <1>8 DEF on
<1>12. y.rmode.tr = b.rmode.tr /\ y.rmode.iopl = b.rmode.iopl
  BY <1>3, <1>8 DEF rm
<1> QED BY <1>4, <1>8, <1>9, <1>10, <1>11, <1>12

\* KVM_SET_SREGS after KVM_SET_REGS: the vcpu is fit again.  It holds on to
\* the task register and the IOPL that it had put away.
LEMMA SetSregsOK ==
    ASSUME NEW w, Kept(w), NEW x, Good(x), NEW l, Passed(x, l), w.vm = x.vm
    PROVE  LET y == set_sregs(w, l) IN
           /\ Good(y) /\ y.entry = w.entry /\ y.vm = w.vm /\ y.iopl = w.iopl
           /\ y.rmode.tr = w.rmode.tr /\ y.rmode.iopl = w.rmode.iopl
           /\ y.rmode.active <=> "PE" \notin l.cr0
<1> DEFINE a == SregsSegs(w, l)
           b == set_efer_and_mode(a, l.efer)
           c == SregsMode(b, l)
           d == WriteRegs(c, l.cr0)
           f == write_cr4(d, l.cr4)
           reset == \/ w.cr3 # l.cr3 \/ w.efer # l.efer
                    \/ guest_cr0(c) # l.cr0 \/ guest_cr4(d) # l.cr4
<1>1. set_sregs(w, l) = IF reset THEN kvm_mmu_reset_context(f) ELSE f
  BY SetSregsSteps
<1>2. /\ w \in VCpu /\ x \in VCpu /\ w.ia32e \in BOOLEAN
      /\ l.cr0 \in SUBSET Cr0Bits /\ l.cr4 \in Cr4Shadows
      /\ l.efer \in SUBSET {"LME", "LMA"} /\ l.cr3 \in {"ok", "bad"}
      /\ l.seg \in SegFile /\ l.tr \in SegType /\ l.ldtr \in SegType
  <2>1. w \in VCpu /\ x \in VCpu /\ w.ia32e \in BOOLEAN
    BY DEF Good, Kept, VCpu
  <2>2. guest_cr0(x) \in SUBSET Cr0Bits
    BY <2>1 DEF VCpu, guest_cr0
  <2>3. guest_cr4(x) \in Cr4Shadows
    BY <2>1 DEF VCpu, guest_cr4, Cr4Shadows, Cr4Bits, KVM_GUEST_CR4_MASK
  <2>4. x.efer \in SUBSET {"LME", "LMA"} /\ x.cr3 \in {"ok", "bad"}
    BY <2>1 DEF VCpu
  <2> QED BY <2>1, <2>2, <2>3, <2>4 DEF Passed
<1>3. /\ a \in VCpu /\ a.seg = l.seg /\ a.tr = l.tr /\ a.ldtr = l.ldtr
      /\ a.entry = w.entry /\ a.efer = w.efer /\ a.mmu = w.mmu
      /\ a.cr0rs = w.cr0rs /\ a.cr4rs = w.cr4rs
      /\ a.rmode = w.rmode /\ a.vm = w.vm /\ a.iopl = w.iopl
  BY <1>2, SregsSegsFields
<1> HIDE DEF a
<1>4. /\ b \in VCpu /\ b.efer = l.efer /\ (b.ia32e <=> "LMA" \in l.efer)
      /\ b.seg = a.seg /\ b.entry = a.entry
      /\ b.cr0rs = a.cr0rs /\ b.cr4rs = a.cr4rs
      /\ b.rmode = a.rmode /\ b.mmu = a.mmu
      /\ b.vm = a.vm /\ b.tr = a.tr /\ b.ldtr = a.ldtr /\ b.iopl = a.iopl
  BY <1>2, <1>3, EferModeFields
<1> HIDE DEF b
<1>5. /\ c \in VCpu /\ (c.rmode.active <=> "PE" \notin l.cr0) /\ BitmapInv(c)
      /\ c.rmode.tr = b.rmode.tr /\ c.rmode.iopl = b.rmode.iopl
      /\ c.seg = b.seg /\ c.tr = b.tr /\ c.ldtr = b.ldtr /\ c.ia32e = b.ia32e
      /\ c.entry = b.entry /\ c.efer = b.efer /\ c.mmu = b.mmu
      /\ c.cr0rs = b.cr0rs /\ c.cr4rs = b.cr4rs
      /\ c.vm = b.vm /\ c.iopl = b.iopl
  BY <1>4, SregsModeFields
<1> HIDE DEF c
<1>6. /\ d \in VCpu /\ d.cr0rs = l.cr0 /\ KVM_VM_CR0_ALWAYS_ON \subseteq d.cr0
      /\ d.cr4rs = c.cr4rs /\ d.ia32e = c.ia32e /\ d.efer = c.efer
      /\ d.vm = c.vm /\ d.iopl = c.iopl /\ d.seg = c.seg /\ d.ldtr = c.ldtr
      /\ d.bitmap = c.bitmap /\ d.entry = c.entry /\ d.rmode = c.rmode
      /\ d.mmu = c.mmu /\ d.tr = c.tr
  BY <1>2, <1>5, WriteRegsFields
<1> HIDE DEF d
<1>7. /\ f \in VCpu /\ f.cr4rs = l.cr4 /\ {"VMXE", "PAE"} \subseteq f.cr4
      /\ f.cr0rs = d.cr0rs /\ f.cr0 = d.cr0 /\ f.entry = d.entry
      /\ f.ia32e = d.ia32e /\ f.efer = d.efer /\ f.rmode = d.rmode /\ f.mmu = d.mmu
      /\ f.bitmap = d.bitmap /\ f.vm = d.vm /\ f.seg = d.seg /\ f.tr = d.tr
      /\ f.ldtr = d.ldtr /\ f.iopl = d.iopl
  BY <1>2, <1>6, WriteCr4Fields
<1> HIDE DEF f
<1>8. /\ f.cr0rs = guest_cr0(x) /\ f.cr4rs = guest_cr4(x) /\ f.efer = x.efer
      /\ f.ia32e <=> "LMA" \in x.efer
      /\ KVM_VM_CR0_ALWAYS_ON \subseteq f.cr0
      /\ f.rmode.active <=> "PE" \notin guest_cr0(x)
      /\ f.rmode.tr = w.rmode.tr /\ f.rmode.iopl = w.rmode.iopl
      /\ f.vm = w.vm /\ f.iopl = w.iopl /\ f.entry = w.entry /\ f.mmu = w.mmu
      /\ f.seg = l.seg /\ f.tr = l.tr /\ f.ldtr = l.ldtr
  BY <1>3, <1>4, <1>5, <1>6, <1>7 DEF Passed
<1>9. BitmapInv(f)
  BY <1>5, <1>6, <1>7 DEF BitmapInv
<1>10. /\ is_paging(f) <=> is_paging(x)
       /\ "PE" \in guest_cr0(f) <=> "PE" \in guest_cr0(x)
       /\ is_pae(f) <=> is_pae(x)
  <2>1. /\ is_paging(f) <=> "PG" \in f.cr0rs
        /\ "PE" \in guest_cr0(f) <=> "PE" \in f.cr0rs
        /\ is_pae(f) <=> "PAE" \in f.cr4rs
    BY GuestBits
  <2> QED BY <1>8, <2>1 DEF is_paging, is_pae
<1>11. FixedOn(f) /\ LongInv(f) /\ PeInv(f) /\ TssOK(f.rmode.tr)
  BY <1>7, <1>8, <1>10 DEF FixedOn, LongInv, PeInv, Good, Kept
<1>12. BasesOK(f) /\ SegsOK(f) /\ LdtrInv(f)
  BY <1>8 DEF Passed
<1>13. Fit(f)
  <2>1. f.vm <=> f.rmode.active
    BY <1>8 DEF Good, Kept, Fit, PeInv
  <2>2. f.ia32e => f.tr.ar.type = 11
    BY <1>8 DEF Passed, Good, Kept, LongInv
  <2> QED BY <1>12, <2>1, <2>2 DEF Fit
<1>14. Ready(f)
  BY <1>7, <1>9, <1>11, <1>13 DEF Ready, Early
<1>15. CASE reset
  <2> DEFINE z == kvm_mmu_reset_context(f)
  <2>1. /\ Kept(z) /\ Fit(z) /\ z.entry = f.entry
        /\ z.vm = f.vm /\ z.iopl = f.iopl /\ z.rmode = f.rmode
    BY <1>14, ResetOK
  <2>2. set_sregs(w, l) = z
    BY <1>1, <1>15
  <2> HIDE DEF z
  <2> QED BY <1>8, <2>1, <2>2 DEF Good, Passed
<1>16. CASE ~reset
  <2>1. set_sregs(w, l) = f
    BY <1>1, <1>16
  <2>2. /\ "PG" \in l.cr0 <=> "PG" \in w.cr0rs
        /\ "PAE" \in l.cr4 <=> "PAE" \in w.cr4rs
    <3>1. /\ is_paging(c) <=> "PG" \in c.cr0rs
          /\ is_pae(d) <=> "PAE" \in d.cr4rs
      BY GuestBits
    <3>2. c.cr0rs = w.cr0rs /\ d.cr4rs = w.cr4rs
      BY <1>3, <1>4, <1>5, <1>6
    <3> QED BY <1>16, <3>1, <3>2 DEF is_paging, is_pae
  <2>3. f.ia32e = w.ia32e
    <3>1. f.ia32e \in BOOLEAN /\ w.efer = l.efer
      BY <1>7, <1>16 DEF VCpu
    <3>2. w.ia32e <=> "LMA" \in w.efer
      BY DEF Kept, LongInv
    <3> QED BY <1>2, <1>8, <3>1, <3>2 DEF Passed
  <2>4. init_kvm_mmu(f) = init_kvm_mmu(w)
    BY <1>6, <1>7, <2>2, <2>3, MmuSame
  <2>5. MmuInv(f)
    BY <1>8, <2>4 DEF Kept, MmuInv
  <2>6. Good(f)
    BY <1>7, <1>9, <1>11, <1>13, <2>5 DEF Good, Kept
  <2> QED BY <1>8, <2>1, <2>6 DEF Passed
<1> QED BY <1>15, <1>16

\* KVM_SET_REGS touches RFLAGS only.
LEMMA SetRegsOK ==
    ASSUME NEW x, Kept(x), NEW e, e.vm \in BOOLEAN, e.iopl \in Iopls
    PROVE  LET y == set_regs(x, e) IN
           Kept(y) /\ y.vm = e.vm /\ y.iopl = e.iopl /\ y.entry = x.entry
<1> DEFINE vm == e.vm
           io == e.iopl
           y == [x EXCEPT !.vm = vm, !.iopl = io]
<1>1. x \in VCpu /\ vm \in BOOLEAN /\ io \in Iopls
  BY DEF Kept
<1>2. set_regs(x, e) = y
  BY DEF set_regs
<1> HIDE DEF vm, io
<1>3. /\ y \in VCpu /\ y.vm = vm /\ y.iopl = io /\ y.entry = x.entry
      /\ y.cr0rs = x.cr0rs /\ y.cr0 = x.cr0 /\ y.cr4rs = x.cr4rs /\ y.cr4 = x.cr4
      /\ y.ia32e = x.ia32e /\ y.efer = x.efer /\ y.rmode = x.rmode /\ y.mmu = x.mmu
      /\ y.bitmap = x.bitmap
  BY <1>1 DEF VCpu
<1> HIDE DEF y
<1>4. BitmapInv(y) /\ KVM_VM_CR0_ALWAYS_ON \subseteq y.cr0
  BY <1>3 DEF Kept, BitmapInv, FixedOn
<1>5. Kept(y)
  BY <1>3, <1>4, KeptSame
<1> QED BY <1>2, <1>3, <1>5 DEF vm, io

-----------------------------------------------------------------------------
(* The invariant is inductive.                                             *)

\* The two action properties, as actions.
GpStep ==
    (v.entry = "none" /\ v'.entry = "gp") =>
        \/ v' = inject_gp(v)
        \/ \E cr4 \in Cr4Values : /\ Cr4GpOnly(v, cr4)
                                  /\ ~Cr4Refused(v, cr4)
                                  /\ v' = set_cr4(v, cr4)
ModeStep == pc = "run" /\ pc' = "run" => ArchStep(Arch(v), Arch(v'))

\* At the start the guest is in real mode, and what enter_rmode put away
\* then is its task register.
LEMMA InitIInv ==
    ASSUME Init
    PROVE  IInv
<1>1. Good(v) /\ v.vm /\ v.entry = "none" /\ v.rmode.iopl = 0
  BY SetupOK DEF Init
<1> DEFINE tr == v.rmode.tr
<1>2. own = [tr |-> tr, iopl |-> 0]
  BY DEF Init
<1>3. tr \in SegType /\ 0 \in Iopls /\ v.rmode.active
  BY <1>1 DEF Good, Kept, Fit, VCpu, Rmode, Iopls
<1> HIDE DEF tr
<1>4. own \in [tr : SegType, iopl : Iopls] /\ own.tr = tr /\ own.iopl = 0
  BY <1>2, <1>3
<1>5. TaskInv(v, own)
  BY <1>1, <1>3, <1>4 DEF TaskInv, tr
<1> QED BY <1>1, <1>4, <1>5 DEF IInv, Good, Init

\* The architectural state read off the registers.
LEMMA ArchFields ==
    ASSUME NEW x
    PROVE  /\ Arch(x).pe <=> "PE" \in guest_cr0(x)
           /\ Arch(x).pg <=> is_paging(x)
           /\ Arch(x).pae <=> is_pae(x)
           /\ Arch(x).lme <=> "LME" \in x.efer
           /\ Arch(x).lma <=> "LMA" \in x.efer
           /\ Arch(x).lme \in BOOLEAN
<1> DEFINE pe == "PE" \in guest_cr0(x)
           pg == is_paging(x)
           pae == is_pae(x)
           lme == "LME" \in x.efer
           lma == "LMA" \in x.efer
<1>1. Arch(x) = [pe |-> pe, pg |-> pg, pae |-> pae, lme |-> lme, lma |-> lma]
  BY DEF Arch, is_paging
<1>2. lme \in BOOLEAN
  OBVIOUS
<1> HIDE DEF pe, pg, pae, lme, lma
<1>3. /\ Arch(x).pe = pe /\ Arch(x).pg = pg /\ Arch(x).pae = pae
      /\ Arch(x).lme = lme /\ Arch(x).lma = lma
  BY <1>1
<1> QED BY <1>2, <1>3 DEF pe, pg, pae, lme, lma

\* The rules of the architecture follow from the invariant before and after
\* and from the guard on LME.
LEMMA ArchOK ==
    ASSUME NEW x, NEW y, Kept(x), Kept(y),
           ("LME" \in x.efer) # ("LME" \in y.efer) => ~is_paging(x) /\ ~is_paging(y)
    PROVE  ArchStep(Arch(x), Arch(y))
<1>1. /\ x.ia32e <=> "LMA" \in x.efer
      /\ x.ia32e <=> "LME" \in x.efer /\ is_paging(x)
      /\ y.ia32e <=> "LMA" \in y.efer
      /\ y.ia32e <=> "LME" \in y.efer /\ is_paging(y)
      /\ y.ia32e => is_pae(y)
      /\ is_paging(y) => "PE" \in guest_cr0(y)
  BY DEF Kept, LongInv
<1>2. /\ Arch(y).pe <=> "PE" \in guest_cr0(y)
      /\ Arch(y).pg <=> is_paging(y)
      /\ Arch(y).pae <=> is_pae(y)
      /\ Arch(y).lme <=> "LME" \in y.efer
      /\ Arch(y).lma <=> "LMA" \in y.efer
      /\ Arch(x).pg <=> is_paging(x)
      /\ Arch(x).lme <=> "LME" \in x.efer
      /\ Arch(x).lma <=> "LMA" \in x.efer
      /\ Arch(x).lme \in BOOLEAN /\ Arch(y).lme \in BOOLEAN
  BY ArchFields
<1> QED BY <1>1, <1>2 DEF ArchStep

\* A handler that may take v to v' keeps the invariant.
LEMMA DoneStep ==
    ASSUME IInv, pc = "run", pc' = pc, own' = own, Done(v, v')
    PROVE  IInv' /\ ModeStep
<1>1. Kept(v) /\ TaskInv(v, own) /\ own \in [tr : SegType, iopl : Iopls]
  BY DEF IInv
<1>2. Kept(v') /\ Fit(v') /\ TaskInv(v', own)
  BY <1>1 DEF Done, Good
<1>3. ModeStep
  BY <1>1, <1>2, ArchOK DEF ModeStep, Done
<1>4. TaskInv(v', own')
  BY <1>2
<1>5. IInv'
  BY <1>1, <1>2, <1>4 DEF IInv
<1> QED BY <1>3, <1>5

\* ltr and popf, which the history follows.
LEMMA OwnStep ==
    ASSUME IInv, pc = "run", pc' = pc, own' \in [tr : SegType, iopl : Iopls],
           Good(v'), v'.efer = v.efer, TaskInv(v', own')
    PROVE  IInv' /\ ModeStep
<1>1. Kept(v) /\ Kept(v') /\ Fit(v')
  BY DEF IInv, Good
<1>2. ModeStep
  BY <1>1, ArchOK DEF ModeStep
<1>3. IInv'
  BY <1>1 DEF IInv
<1> QED BY <1>2, <1>3

\* A guest that runs is well formed and keeps its task.
LEMMA RunningGuest ==
    ASSUME IInv, pc = "run"
    PROVE  Good(v) /\ TaskInv(v, own) /\ own \in [tr : SegType, iopl : Iopls]
  BY DEF IInv, Good

\* The next VM entry delivers a pending #GP.
LEMMA EnterWithGpStep ==
    ASSUME IInv, EnterWithGp
    PROVE  IInv' /\ GpStep /\ ModeStep
<1> DEFINE e == "none"
           y == [v EXCEPT !.entry = e]
<1>1. pc = "run" /\ v.entry = "gp" /\ v' = y /\ pc' = pc /\ own' = own
  BY DEF EnterWithGp
<1>2. Done(v, y)
  BY <1>1, RunningGuest, InjectOK
<1> HIDE DEF y
<1>3. IInv' /\ ModeStep
  BY <1>1, <1>2, DoneStep
<1> QED BY <1>1, <1>3 DEF GpStep

\* The guest loads segments or an LDT.
LEMMA LoadsStep ==
    ASSUME IInv, GuestLoadsSegments \/ GuestLoadsRealSegments \/ GuestLoadsLdt
    PROVE  IInv' /\ GpStep /\ ModeStep
<1>1. pc = "run" /\ v.entry = "none" /\ pc' = pc /\ own' = own
  BY DEF GuestLoadsSegments, GuestLoadsRealSegments, GuestLoadsLdt, Protected, Real
<1>2. Good(v)
  BY <1>1, RunningGuest
<1>3. Done(v, v') /\ v'.entry = v.entry
  <2>1. CASE GuestLoadsSegments
    <3>1. PICK s \in ProtSegs(v) : v' = LoadSegs(v, s)
      BY <2>1 DEF GuestLoadsSegments
    <3>2. ~v.vm /\ FileOK(s)
      BY <2>1, <3>1, ProtSegsOK DEF GuestLoadsSegments, Protected
    <3> DEFINE y == LoadSegs(v, s)
    <3>3. Done(v, y) /\ y.entry = v.entry
      BY <1>2, <3>2, LoadProtSegs
    <3> HIDE DEF y
    <3> QED BY <3>1, <3>3 DEF y
  <2>2. CASE GuestLoadsRealSegments
    <3>1. PICK cs \in RealBases, ds \in RealBases : v' = LoadSegs(v, RealSegs(cs, ds))
      BY <2>2 DEF GuestLoadsRealSegments
    <3>2. v.vm
      BY <2>2 DEF GuestLoadsRealSegments, Real
    <3> DEFINE y == LoadSegs(v, RealSegs(cs, ds))
    <3>3. Done(v, y) /\ y.entry = v.entry
      BY <1>2, <3>2, LoadRealSegs
    <3> HIDE DEF y
    <3> QED BY <3>1, <3>3 DEF y
  <2>3. CASE GuestLoadsLdt
    <3> DEFINE y == [v EXCEPT !.ldtr = NullSeg]
    <3>1. v' = y
      BY <2>3 DEF GuestLoadsLdt
    <3>2. Done(v, y) /\ y.entry = v.entry
      BY <1>2, LoadLdtOK
    <3> HIDE DEF y
    <3> QED BY <3>1, <3>2
  <2> QED BY <2>1, <2>2, <2>3
<1>4. IInv' /\ ModeStep
  BY <1>1, <1>3, DoneStep
<1> QED BY <1>1, <1>3, <1>4 DEF GpStep

\* The guest loads a task register.
LEMMA LoadsTaskStep ==
    ASSUME IInv, GuestLoadsTask
    PROVE  IInv' /\ GpStep /\ ModeStep
<1>1. pc = "run" /\ v.entry = "none" /\ ~v.vm /\ pc' = pc
  BY DEF GuestLoadsTask, Protected
<1>2. Good(v) /\ TaskInv(v, own) /\ own \in [tr : SegType, iopl : Iopls]
  BY <1>1, RunningGuest
<1>3. PICK t \in Tasks(v) : v' = LoadTask(v, t) /\ own' = [own EXCEPT !.tr = t]
  BY DEF GuestLoadsTask
<1>4. t \in SegType /\ TssOK(t) /\ (v.ia32e => t.ar.type = 11)
  BY <1>3, TasksOK
<1> DEFINE y == LoadTask(v, t)
<1>5. /\ Good(y) /\ y.efer = v.efer /\ y.entry = v.entry
      /\ ~y.rmode.active /\ y.tr = t /\ y.iopl = v.iopl
  BY <1>1, <1>2, <1>4, LoadTaskOK
<1> HIDE DEF y
<1>6. v' = y
  BY <1>3 DEF y
<1>7. own' \in [tr : SegType, iopl : Iopls] /\ own'.tr = t /\ own'.iopl = own.iopl
  BY <1>2, <1>3, <1>4
<1>8. ~v.rmode.active
  BY <1>1, <1>2 DEF Good, Fit
<1>9. TaskInv(y, own')
  BY <1>2, <1>5, <1>7, <1>8 DEF TaskInv
<1>10. IInv' /\ ModeStep
  BY <1>1, <1>5, <1>6, <1>7, <1>9, OwnStep
<1> QED BY <1>1, <1>5, <1>6, <1>10 DEF GpStep

\* The guest sets its IOPL.
LEMMA SetsIoplStep ==
    ASSUME IInv, GuestSetsIopl
    PROVE  IInv' /\ GpStep /\ ModeStep
<1>1. pc = "run" /\ v.entry = "none" /\ ~v.vm /\ pc' = pc
  BY DEF GuestSetsIopl, Protected
<1>2. Good(v) /\ TaskInv(v, own) /\ own \in [tr : SegType, iopl : Iopls]
  BY <1>1, RunningGuest
<1>3. PICK i \in {0, 3} : v' = [v EXCEPT !.iopl = i] /\ own' = [own EXCEPT !.iopl = i]
  BY DEF GuestSetsIopl
<1>4. i \in Iopls
  BY <1>3 DEF Iopls
<1> DEFINE y == [v EXCEPT !.iopl = i]
<1>5. /\ Good(y) /\ y.efer = v.efer /\ y.entry = v.entry
      /\ ~y.rmode.active /\ y.tr = v.tr /\ y.iopl = i
  BY <1>1, <1>2, <1>4, SetIoplOK
<1> HIDE DEF y
<1>6. v' = y
  BY <1>3 DEF y
<1>7. own' \in [tr : SegType, iopl : Iopls] /\ own'.tr = own.tr /\ own'.iopl = i
  BY <1>2, <1>3, <1>4
<1>8. ~v.rmode.active
  BY <1>1, <1>2 DEF Good, Fit
<1>9. TaskInv(y, own')
  BY <1>2, <1>5, <1>7, <1>8 DEF TaskInv
<1>10. IInv' /\ ModeStep
  BY <1>1, <1>5, <1>6, <1>7, <1>9, OwnStep
<1> QED BY <1>1, <1>5, <1>6, <1>10 DEF GpStep

\* A control register written in either mode.
LEMMA CrStep ==
    ASSUME IInv, pc = "run", v.entry = "none",
           \/ \E cr0 \in Cr0Values : /\ "PE" \notin cr0 => v.vm \/ v.seg["CS"].limit = "64K"
                                     /\ v' = set_cr0(v, cr0)
           \/ \E cr3 \in {"ok", "bad", "rsv"} : v' = set_cr3(v, cr3)
           \/ \E cr4 \in Cr4Values : v' = set_cr4(v, cr4)
           \/ \E msw \in MswValues : v' = lmsw(v, msw)
    PROVE  Done(v, v') /\ GpStep
<1>1. Good(v)
  BY RunningGuest
<1>2. CASE \E cr0 \in Cr0Values : /\ "PE" \notin cr0 => v.vm \/ v.seg["CS"].limit = "64K"
                                  /\ v' = set_cr0(v, cr0)
  <2>1. PICK cr0 \in Cr0Values : /\ "PE" \notin cr0 => v.vm \/ v.seg["CS"].limit = "64K"
                                 /\ v' = set_cr0(v, cr0)
    BY <1>2
  <2>2. cr0 \in SUBSET {"PE", "PG", "TS", "NW", "CD", "RSV"}
    BY ValuesAssumption
  <2> DEFINE y == set_cr0(v, cr0)
  <2>3. Done(v, y) /\ (y = inject_gp(v) \/ y.entry = v.entry)
    BY <1>1, <2>1, <2>2, SetCr0OK
  <2> HIDE DEF y
  <2>4. v' = y
    BY <2>1 DEF y
  <2> QED BY <2>3, <2>4 DEF GpStep
<1>3. CASE \E cr3 \in {"ok", "bad", "rsv"} : v' = set_cr3(v, cr3)
  <2>1. PICK cr3 \in {"ok", "bad", "rsv"} : v' = set_cr3(v, cr3)
    BY <1>3
  <2> DEFINE y == set_cr3(v, cr3)
  <2>2. Done(v, y) /\ (y = inject_gp(v) \/ y.entry = v.entry)
    BY <1>1, SetCr3OK
  <2> HIDE DEF y
  <2>3. v' = y
    BY <2>1 DEF y
  <2> QED BY <2>2, <2>3 DEF GpStep
<1>4. CASE \E cr4 \in Cr4Values : v' = set_cr4(v, cr4)
  <2>1. PICK cr4 \in Cr4Values : v' = set_cr4(v, cr4)
    BY <1>4
  <2>2. cr4 \in SUBSET {"VME", "PAE", "VMXE", "RSV"}
    BY ValuesAssumption
  <2> DEFINE y == set_cr4(v, cr4)
  <2>3. /\ Done(v, y)
        /\ \/ y = inject_gp(v) \/ y.entry = v.entry
           \/ Cr4GpOnly(v, cr4) /\ ~Cr4Refused(v, cr4)
    BY <1>1, <2>2, SetCr4OK
  <2>4. v' = y
    BY <2>1
  <2> HIDE DEF y
  <2> QED BY <2>1, <2>3, <2>4 DEF GpStep
<1>5. CASE \E msw \in MswValues : v' = lmsw(v, msw)
  <2>1. PICK msw \in MswValues : v' = lmsw(v, msw)
    BY <1>5
  <2>2. msw \in SUBSET {"PE", "TS"}
    BY ValuesAssumption
  <2> DEFINE y == lmsw(v, msw)
  <2>3. Done(v, y) /\ y.entry = v.entry
    BY <1>1, <2>2, LmswOK
  <2> HIDE DEF y
  <2>4. v' = y
    BY <2>1 DEF y
  <2> QED BY <2>3, <2>4 DEF GpStep
<1> QED BY <1>2, <1>3, <1>4, <1>5

\* A control register access exits to handle_cr.
LEMMA HandleCrStep ==
    ASSUME IInv, handle_cr
    PROVE  IInv' /\ GpStep /\ ModeStep
<1>1. pc = "run" /\ v.entry = "none" /\ pc' = pc /\ own' = own
  BY DEF handle_cr, Protected
<1>2. \/ \E cr0 \in Cr0Values : /\ "PE" \notin cr0 => v.vm \/ v.seg["CS"].limit = "64K"
                                /\ v' = set_cr0(v, cr0)
      \/ \E cr3 \in {"ok", "bad", "rsv"} : v' = set_cr3(v, cr3)
      \/ \E cr4 \in Cr4Values : v' = set_cr4(v, cr4)
      \/ \E msw \in MswValues : v' = lmsw(v, msw)
  BY Zenon DEF handle_cr, LeavesFrom16Bit
<1>3. Done(v, v') /\ GpStep
  BY Zenon, <1>1, <1>2, CrStep
<1> QED BY <1>1, <1>3, DoneStep

\* A write of EFER exits to handle_wrmsr.
LEMMA WrmsrStep ==
    ASSUME IInv, handle_wrmsr
    PROVE  IInv' /\ GpStep /\ ModeStep
<1>1. pc = "run" /\ v.entry = "none" /\ pc' = pc /\ own' = own
  BY DEF handle_wrmsr, Protected
<1>2. Good(v)
  BY <1>1, RunningGuest
<1>3. Done(v, v') /\ (v' = inject_gp(v) \/ v'.entry = v.entry)
  <2>1. CASE \E efer \in EferValues : v' = set_efer(v, efer)
    <3>1. PICK efer \in EferValues : v' = set_efer(v, efer)
      BY <2>1
    <3>2. efer \in SUBSET {"LME", "LMA", "RSV"}
      BY ValuesAssumption
    <3> DEFINE y == set_efer(v, efer)
    <3>3. Done(v, y) /\ (y = inject_gp(v) \/ y.entry = v.entry)
      BY <1>2, <3>2, SetEferOK
    <3> HIDE DEF y
    <3> QED BY <3>1, <3>3 DEF y
  <2>2. CASE v' = inject_gp(v)
    <3> DEFINE e == "gp"
               y == [v EXCEPT !.entry = e]
    <3>1. Done(v, y)
      BY <1>2, InjectOK
    <3>2. inject_gp(v) = y
      BY DEF inject_gp
    <3> HIDE DEF y
    <3> QED BY <2>2, <3>1, <3>2
  <2> QED BY <2>1, <2>2 DEF handle_wrmsr
<1>4. GpStep
  BY <1>1, <1>3 DEF GpStep
<1> QED BY <1>1, <1>3, <1>4, DoneStep

\* The emulator in real mode runs the same handlers.
LEMMA RealmodeStep ==
    ASSUME IInv, realmode_set_cr
    PROVE  IInv' /\ GpStep /\ ModeStep
<1>1. pc = "run" /\ v.entry = "none" /\ v.vm /\ pc' = pc /\ own' = own
  BY DEF realmode_set_cr, Real
<1>2. Good(v)
  BY <1>1, RunningGuest
<1>3. ASSUME NEW cr0 \in Cr0Values
      PROVE  RefreshesFlags(v, set_cr0(v, cr0)) = set_cr0(v, cr0)
  <2> DEFINE y == set_cr0(v, cr0)
  <2>1. cr0 \in SUBSET {"PE", "PG", "TS", "NW", "CD", "RSV"}
    BY ValuesAssumption
  <2>2. Done(v, y)
    BY <1>1, <1>2, <2>1, SetCr0OK
  <2> HIDE DEF y
  <2>3. RefreshesFlags(v, y) = y
    BY <2>2, RefreshOK DEF Done, Good, Kept
  <2> QED BY <2>3 DEF y
<1>4. ASSUME NEW msw \in MswValues
      PROVE  RefreshesFlags(v, lmsw(v, msw)) = lmsw(v, msw)
  <2> DEFINE y == lmsw(v, msw)
  <2>1. msw \in SUBSET {"PE", "TS"}
    BY ValuesAssumption
  <2>2. Done(v, y)
    BY <1>2, <2>1, LmswOK
  <2> HIDE DEF y
  <2>3. RefreshesFlags(v, y) = y
    BY <2>2, RefreshOK DEF Done, Good, Kept
  <2> QED BY <2>3 DEF y
<1>5. \/ \E cr0 \in Cr0Values : v' = RefreshesFlags(v, set_cr0(v, cr0))
      \/ \E cr3 \in {"ok", "bad", "rsv"} : v' = set_cr3(v, cr3)
      \/ \E cr4 \in Cr4Values : v' = set_cr4(v, cr4)
      \/ \E msw \in MswValues : v' = RefreshesFlags(v, lmsw(v, msw))
  BY Zenon DEF realmode_set_cr
<1>6. \/ \E cr0 \in Cr0Values : /\ "PE" \notin cr0 => v.vm \/ v.seg["CS"].limit = "64K"
                                /\ v' = set_cr0(v, cr0)
      \/ \E cr3 \in {"ok", "bad", "rsv"} : v' = set_cr3(v, cr3)
      \/ \E cr4 \in Cr4Values : v' = set_cr4(v, cr4)
      \/ \E msw \in MswValues : v' = lmsw(v, msw)
  BY Zenon, <1>1, <1>3, <1>4, <1>5
<1>7. Done(v, v') /\ GpStep
  BY Zenon, <1>1, <1>6, CrStep
<1> QED BY <1>1, <1>7, DoneStep

\* User space starts to restore registers.
LEMMA LoadRegsStep ==
    ASSUME IInv, load_regs
    PROVE  IInv' /\ GpStep /\ ModeStep
<1>1. pc = "run" /\ v.entry = "none" /\ pc' = "load" /\ own' = own
  BY DEF load_regs
<1>2. PICK e \in Images : env' = e /\ v' = set_regs(v, e)
  BY DEF load_regs
<1>3. ImageInv(e)
  BY <1>2, ImagesOK
<1>4. PICK x : Good(x) /\ e = save_regs(x)
  BY <1>3 DEF ImageInv, Good
<1>5. e.vm \in BOOLEAN /\ e.iopl \in Iopls
  BY <1>4 DEF save_regs, Good, Kept, VCpu
<1>6. Kept(v) /\ own \in [tr : SegType, iopl : Iopls]
  BY DEF IInv
<1> DEFINE y == set_regs(v, e)
<1>7. Kept(y) /\ y.vm = e.vm /\ y.iopl = e.iopl /\ y.entry = v.entry
  BY <1>5, <1>6, SetRegsOK
<1> HIDE DEF y
<1>8. v' = y
  BY <1>2 DEF y
<1>9. IInv'
  BY <1>1, <1>2, <1>3, <1>6, <1>7, <1>8 DEF IInv
<1> QED BY <1>1, <1>7, <1>8, <1>9 DEF GpStep, ModeStep

\* User space ends restoring registers.
LEMMA LoadSregsDoneStep ==
    ASSUME IInv, load_sregs_done
    PROVE  IInv' /\ GpStep /\ ModeStep
<1>1. /\ pc = "load" /\ pc' = "run" /\ v' = set_sregs(v, load_sregs(env))
      /\ own' = IF "PE" \in env.cr0 THEN [tr |-> v'.tr, iopl |-> v'.iopl]
                ELSE [tr |-> v.rmode.tr, iopl |-> v.rmode.iopl]
  BY DEF load_sregs_done
<1>2. /\ ImageInv(env) /\ Kept(v) /\ v.vm = env.vm /\ v.entry = "none"
  BY <1>1 DEF IInv
<1>3. PICK x : Good(x) /\ env = save_regs(x)
  BY <1>2 DEF ImageInv, Good
<1>4. v.vm = x.vm /\ env.cr0 = guest_cr0(x)
  BY <1>2, <1>3 DEF save_regs
<1> DEFINE l == load_sregs(env)
           y == set_sregs(v, l)
<1>5. Passed(x, l)
  BY <1>3, LoadSregsOK
<1> HIDE DEF l
<1>6. /\ Good(y) /\ y.entry = v.entry
      /\ y.rmode.tr = v.rmode.tr /\ y.rmode.iopl = v.rmode.iopl
      /\ y.rmode.active <=> "PE" \notin l.cr0
  BY <1>2, <1>3, <1>4, <1>5, SetSregsOK
<1>7. v' = y
  BY <1>1 DEF l
<1> HIDE DEF y
<1>8. y.rmode.active <=> "PE" \notin env.cr0
  BY <1>4, <1>5, <1>6 DEF Passed
<1> DEFINE tr == IF "PE" \in env.cr0 THEN y.tr ELSE v.rmode.tr
           io == IF "PE" \in env.cr0 THEN y.iopl ELSE v.rmode.iopl
<1>9. tr \in SegType /\ io \in Iopls
  <2>1. y.tr \in SegType /\ y.iopl \in Iopls
    BY <1>6 DEF Good, Kept, VCpu
  <2>2. v.rmode.tr \in SegType /\ v.rmode.iopl \in Iopls
    BY <1>2 DEF Kept, VCpu, Rmode
  <2> QED BY <2>1, <2>2
<1>10. own' = [tr |-> tr, iopl |-> io]
  BY <1>1, <1>7
<1>11. /\ tr = IF y.rmode.active THEN y.rmode.tr ELSE y.tr
       /\ io = IF y.rmode.active THEN y.rmode.iopl ELSE y.iopl
  BY <1>6, <1>8
<1> HIDE DEF tr, io
<1>12. own' \in [tr : SegType, iopl : Iopls] /\ own'.tr = tr /\ own'.iopl = io
  BY <1>9, <1>10
<1>13. TaskInv(y, own')
  BY <1>11, <1>12 DEF TaskInv
<1>14. Kept(y) /\ Fit(y)
  BY <1>6 DEF Good
<1>15. IInv'
  BY <1>1, <1>7, <1>12, <1>13, <1>14 DEF IInv
<1> QED BY <1>1, <1>2, <1>6, <1>7, <1>15 DEF GpStep, ModeStep

\* User space turns guest debugging on or off.
LEMMA DebugStep ==
    ASSUME IInv, kvm_dev_ioctl_debug_guest
    PROVE  IInv' /\ GpStep /\ ModeStep
<1>1. pc = "run" /\ v.entry = "none" /\ pc' = pc /\ own' = own
  BY DEF kvm_dev_ioctl_debug_guest
<1>2. PICK enabled \in BOOLEAN : v' = debug_guest(v, enabled)
  BY DEF kvm_dev_ioctl_debug_guest
<1> DEFINE y == debug_guest(v, enabled)
<1>3. Done(v, y) /\ y.entry = v.entry
  BY <1>1, RunningGuest, DebugGuestOK
<1> HIDE DEF y
<1>4. v' = y
  BY <1>2 DEF y
<1>5. IInv' /\ ModeStep
  BY <1>1, <1>3, <1>4, DoneStep
<1> QED BY <1>1, <1>3, <1>4, <1>5 DEF GpStep

\* Every action keeps the invariant and takes steps that the two action
\* properties allow.
LEMMA NextStep ==
    ASSUME IInv, Next
    PROVE  IInv' /\ GpStep /\ ModeStep
  BY EnterWithGpStep, LoadsStep, LoadsTaskStep, SetsIoplStep, HandleCrStep, WrmsrStep,
     RealmodeStep, LoadRegsStep, LoadSregsDoneStep, DebugStep DEF Next

-----------------------------------------------------------------------------
(* The theorems.                                                           *)

\* Kept holds of the vcpu in every reachable state, Fit and TaskInv whenever
\* the guest may run, and what QEMU holds between its two ioctls was saved
\* from a vcpu that was fit.
THEOREM Invariance == Spec => []IInv
<1>1. Init => IInv
  BY InitIInv
<1>2. IInv /\ [Next]_vars => IInv'
  <2>1. IInv /\ Next => IInv'
    BY NextStep
  <2>2. IInv /\ UNCHANGED vars => IInv'
    BY DEF IInv, vars
  <2> QED BY <2>1, <2>2
<1> QED BY <1>1, <1>2, PTL DEF Spec

\* Whatever the guest moves to a control register or to EFER, the registers
\* of the vcpu and of the VMCS hold bits that are defined.
THEOREM TypeCorrect == Spec => []TypeOK
<1>1. IInv => TypeOK
  <2> SUFFICES ASSUME IInv PROVE TypeOK
    OBVIOUS
  <2>1. v \in VCpu /\ MmuInv(v) /\ pc \in {"run", "load"}
    BY DEF IInv, Kept
  <2>2. v.rmode.active \in BOOLEAN /\ v.rmode.tr \in SegType
    BY <2>1 DEF VCpu, Rmode
  <2>3. v.mmu \in {"nonpaging", "paging32", "paging32E", "paging64"}
    BY <2>1 DEF MmuInv, init_kvm_mmu
  <2>4. /\ v.cr0rs \subseteq Cr0Bits /\ v.cr0 \subseteq Cr0Bits
        /\ v.cr4rs \subseteq Cr4Bits \ {"VMXE"} /\ v.cr4 \subseteq Cr4Bits
        /\ v.efer \subseteq {"LME", "LMA"} /\ v.msr \subseteq {"LME", "LMA"}
        /\ v.ia32e \in BOOLEAN /\ v.vm \in BOOLEAN /\ v.iopl \in {0, 3}
    BY <2>1 DEF VCpu, Cr4Shadows, Iopls
  <2>5. /\ v.seg \in [SegRegs -> SegType] /\ v.tr \in SegType /\ v.ldtr \in SegType
        /\ v.bitmap \subseteq {"PF", "GP", "DB"}
        /\ v.entry \in {"none", "gp"}
        /\ v.cr3 \in {"ok", "bad"}
    BY <2>1 DEF VCpu, SegFile, Exceptions
  <2> QED BY <2>1, <2>2, <2>3, <2>4, <2>5 DEF TypeOK
<1> QED BY <1>1, Invariance, PTL

\* The checks of vm_entry_test_guest pass on every VM entry, in every mode
\* and after every register load.
THEOREM EntryIsAccepted == Spec => []EntryAccepted
<1>1. IInv => EntryAccepted
  <2> SUFFICES ASSUME IInv, pc = "run" PROVE vm_entry_test_guest(v)
    BY DEF EntryAccepted
  <2>1. Good(v)
    BY RunningGuest
  <2>2. v.ia32e => ~v.vm
    BY <2>1, GoodMode
  <2>3. TestControlRegisters(v)
    BY <2>1 DEF Good, Kept, FixedOn, TestControlRegisters, KVM_VM_CR0_ALWAYS_ON
  <2>4. TestCr3(v)
    BY <2>1 DEF Good, Kept, MmuInv, init_kvm_mmu, TestCr3
  <2>5. v.vm => TestVm86(v)
    BY <2>1 DEF Good, Fit, SegsOK
  <2>6. ~v.vm => TestCode(v) /\ TestStack(v) /\ TestData(v) /\ TestTr(v) /\ TestLdtr(v)
    BY <2>1 DEF Good, Fit, SegsOK, TssOK, TestTr, LdtrInv, is_long_mode
  <2> QED BY <2>2, <2>3, <2>4, <2>5, <2>6 DEF vm_entry_test_guest, is_long_mode
<1> QED BY <1>1, Invariance, PTL

\* The places that record real mode agree, and those that record long mode.
THEOREM ModesDoAgree == Spec => []ModesAgree
<1>1. IInv => ModesAgree
  <2> SUFFICES ASSUME IInv, pc = "run"
               PROVE  /\ v.rmode.active <=> "PE" \notin guest_cr0(v)
                      /\ v.vm <=> v.rmode.active
                      /\ "GP" \in v.bitmap <=> v.rmode.active
                      /\ "PF" \in v.bitmap
                      /\ v.ia32e <=> "LMA" \in v.efer
                      /\ v.ia32e <=> {"LME"} \subseteq v.efer /\ is_paging(v)
    BY DEF ModesAgree
  <2>1. Good(v)
    BY RunningGuest
  <2> QED BY <2>1 DEF Good, Kept, Fit, PeInv, BitmapInv, LongInv
<1> QED BY <1>1, Invariance, PTL

\* The guest's task register and IOPL survive real mode.
THEOREM TaskIsKept == Spec => []GuestTaskKept
<1>1. IInv => GuestTaskKept
  BY RunningGuest DEF TaskInv, GuestTaskKept
<1> QED BY <1>1, Invariance, PTL

\* The MMU context is the one for the mode, also between the two ioctls.
THEOREM MmuDoesMatch == Spec => []MmuMatches
<1>1. IInv => MmuMatches
  BY DEF IInv, Kept, MmuInv, MmuMatches
<1> QED BY <1>1, Invariance, PTL

\* A register write that faults is a fault: nothing but the exception to
\* inject changes, set_cr4 with bad page directory pointers apart.
THEOREM FaultIsClean == Spec => GpChangesNothing
<1>1. IInv /\ [Next]_vars => [GpStep]_vars
  BY NextStep
<1>2. Spec => [][GpStep]_vars
  BY <1>1, Invariance, PTL DEF Spec
<1> QED BY <1>2 DEF GpChangesNothing, GpStep

\* The guest sees its mode bits change as the architecture allows.
THEOREM ModeStepsAllowed == Spec => ModeSteps
<1>1. IInv /\ [Next]_vars => [ModeStep]_vars
  BY NextStep
<1>2. Spec => [][ModeStep]_vars
  BY <1>1, Invariance, PTL DEF Spec
<1> QED BY <1>2 DEF ModeSteps, ModeStep

=============================================================================
