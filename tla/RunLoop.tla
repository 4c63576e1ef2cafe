------------------------------- MODULE RunLoop -------------------------------
(***************************************************************************)
(* KVM_RUN of kvm_main.c and the loop of libkvm's kvm_run around it: what  *)
(* the kernel handles itself, what it hands to user space, how interrupts  *)
(* queued with KVM_INTERRUPT reach the guest, and how port and             *)
(* memory-mapped I/O of the guest is performed by user space.              *)
(*                                                                         *)
(* The guest is any program: it masks and unmasks interrupts, executes     *)
(* instructions that need the host, faults and halts.  The processor       *)
(* (external) delivers the event of VM_ENTRY_INTR_INFO_FIELD on entry and  *)
(* reports one whose delivery faulted in IDT_VECTORING_INFO_FIELD.         *)
(* vcpu->mutex is free in user space and at the rescheduling point only.   *)
(***************************************************************************)
EXTENDS Integers, Sequences

CONSTANTS
    Irqs,          \* interrupt numbers user space raises
    BITS_PER_LONG,
    Addrs,         \* guest physical addresses without memory
    MaxRaises,     \* bound on the calls of KVM_INTERRUPT
    MaxNest,       \* bound on the depth of handlers in the guest
    Fault,         \* an exception to inject
    None

ASSUME IrqsAssumption == Irqs \subseteq Nat
ASSUME BitsAssumption == BITS_PER_LONG \in Nat \ {0}
ASSUME BoundsAssumption == MaxRaises \in Nat /\ MaxNest \in Nat \ {0}
ASSUME NoneAssumption == None \notin Irqs \cup Addrs \cup {Fault} /\ Fault \notin Irqs

VARIABLES
    pc,                   \* "user", "again", "guest" or "resched"
    exit,                 \* what user space has to do after KVM_RUN
    emulated, mmio_completed, run_data,      \* struct kvm_run
    irq_pending, irq_summary, rmode,         \* struct kvm_vcpu
    mmio_read_completed, mmio_data,
    entry, window,        \* VMCS: event to inject, interrupt-window exiting
    iflag, blocked,       \* VMCS: RFLAGS.IF, blocking by sti or mov ss
    insn, saved,          \* the guest's instruction, and the interrupted ones
    owed, raises          \* interrupts raised and not yet taken; how many

runVars  == <<emulated, mmio_completed, run_data>>
irqVars  == <<irq_pending, irq_summary>>
mmioVars == <<mmio_read_completed, mmio_data>>
maskVars == <<iflag, blocked>>
insnVars == <<insn, saved>>
vars == <<pc, exit, emulated, mmio_completed, run_data, irq_pending,
          irq_summary, rmode, mmio_read_completed, mmio_data, entry, window,
          iflag, blocked, insn, saved, owed, raises>>

Words == {i \div BITS_PER_LONG : i \in Irqs}

\* An instruction that needs the host, with how often user space performed it
\* (not at all, once, or again).
\* "io" stands for in, out and cpuid, which the kernel never emulates itself.
Insn(k, a) == [kind |-> k, addr |-> a, ops |-> 0]
Performed(i) == [i EXCEPT !.ops = IF @ < 2 THEN @ + 1 ELSE @]
Insns == {Insn("io", None), Insn("hlt", None)}
           \cup {Insn(k, a) : k \in {"read", "write"}, a \in Addrs}
InsnStates == [kind : {"io", "hlt", "read", "write"}, addr : Addrs \cup {None},
               ops : 0 .. 2]
Exits == {"none", "io", "read", "write", "hlt", "eintr"}

ASSUME InsnAssumption == None \notin InsnStates

TypeOK ==
    /\ pc \in {"user", "again", "guest", "resched"}
    /\ exit \in Exits
    /\ emulated \in BOOLEAN
    /\ mmio_completed \in BOOLEAN
    /\ run_data \in Addrs \cup {None}
    /\ irq_pending \in SUBSET Irqs
    /\ irq_summary \in SUBSET Words
    /\ rmode \in BOOLEAN
    /\ mmio_read_completed \in BOOLEAN
    /\ mmio_data \in Addrs \cup {None}
    /\ entry \in Irqs \cup {Fault, None}
    /\ window \in BOOLEAN
    /\ iflag \in BOOLEAN
    /\ blocked \in BOOLEAN
    /\ \A i \in {insn} \cup {saved[n].insn : n \in DOMAIN saved} :
          i = None \/ [i EXCEPT !.ops = 0] \in Insns
    /\ Len(saved) \in 0 .. MaxNest
    /\ \A n \in DOMAIN saved : saved[n].iflag \in BOOLEAN
    /\ owed \in SUBSET Irqs
    /\ raises \in 0 .. MaxRaises

\* A vcpu starts in real mode with interrupts masked.
Init ==
    /\ pc = "user"
    /\ exit = "none"
    /\ emulated = FALSE
    /\ mmio_completed = FALSE
    /\ run_data = None
    /\ irq_pending = {}
    /\ irq_summary = {}
    /\ rmode = TRUE
    /\ mmio_read_completed = FALSE
    /\ mmio_data = None
    /\ entry = None
    /\ window = FALSE
    /\ iflag = FALSE
    /\ blocked = FALSE
    /\ insn = None
    /\ saved = <<>>
    /\ owed = {}
    /\ raises = 0

-----------------------------------------------------------------------------
(* User space: libkvm's kvm_run, and KVM_INTERRUPT from any thread.          *)

\* Mutant: the summary bit of the interrupt, not of its word.
SetPendingBit(i) ==
    /\ irq_pending' = irq_pending \cup {i}
    /\ irq_summary' = irq_summary \cup {i}

SetPending(i) ==
    /\ irq_pending' = irq_pending \cup {i}
    /\ irq_summary' = irq_summary \cup {i \div BITS_PER_LONG}

kvm_inject_irq(i) ==
    /\ pc \in {"user", "resched"}
    /\ raises < MaxRaises
    /\ SetPending(i)
    /\ owed' = owed \cup {i}
    /\ raises' = raises + 1
    /\ UNCHANGED <<pc, exit, runVars, rmode, mmioVars, entry, window, maskVars,
                   insnVars>>

\* handle_io and handle_cpuid: the device acts, the instruction is done.
UserIo ==
    /\ pc = "user" /\ exit = "io"
    /\ insn' = Performed(insn)
    /\ emulated' = TRUE
    /\ exit' = "none"
    /\ UNCHANGED <<pc, mmio_completed, run_data, irqVars, rmode, mmioVars,
                   entry, window, maskVars, saved, owed, raises>>

\* handle_mmio: the device answers for mmio.phys_addr, or takes the write.
UserMmio ==
    /\ pc = "user" /\ exit \in {"read", "write"}
    /\ mmio_completed' = (exit = "read")
    /\ insn' = IF exit = "read" THEN Performed(insn) ELSE insn
    /\ exit' = "none"
    /\ UNCHANGED <<pc, emulated, run_data, irqVars, rmode, mmioVars, entry,
                   window, maskVars, saved, owed, raises>>

\* The halt and io_window callbacks.
UserOther ==
    /\ pc = "user" /\ exit \in {"hlt", "eintr"}
    /\ exit' = "none"
    /\ UNCHANGED <<pc, runVars, irqVars, rmode, mmioVars, entry, window,
                   maskVars, insnVars, owed, raises>>

\* Mutant: emulated survives a KVM_RUN that was interrupted.
BackToUserKeeps(e) ==
    /\ pc' = "user"
    /\ exit' = e
    /\ emulated' = (emulated /\ e = "eintr")
    /\ mmio_completed' = FALSE

\* KVM_RUN returned: libkvm clears both requests, whatever the result.
BackToUser(e) ==
    /\ pc' = "user"
    /\ exit' = e
    /\ emulated' = FALSE
    /\ mmio_completed' = FALSE

-----------------------------------------------------------------------------
(* kvm_dev_ioctl_run.                                                        *)

\* skip_emulated_instruction, then the answer of a memory-mapped read.
KvmRun ==
    /\ pc = "user" /\ exit = "none"
    /\ pc' = "again"
    /\ insn' = IF emulated THEN None ELSE insn
    /\ blocked' = IF emulated THEN FALSE ELSE blocked
    /\ mmio_read_completed' = (mmio_read_completed \/ mmio_completed)
    /\ mmio_data' = IF mmio_completed THEN run_data ELSE mmio_data
    /\ UNCHANGED <<exit, runVars, irqVars, rmode, entry, window, iflag, saved,
                   owed, raises>>

Lowest(S) == CHOOSE i \in S : \A j \in S : i <= j

\* __ffs of the summary, then of the word it names.
NextIrq ==
    LET w == Lowest(irq_summary) IN
    Lowest({i \in irq_pending : i \div BITS_PER_LONG = w})

\* Mutant: irq_summary is not cleared.
TakePendingOnly(i) ==
    irq_pending' = irq_pending \ {i} /\ UNCHANGED irq_summary

TakePending(i) ==
    /\ irq_pending' = irq_pending \ {i}
    /\ irq_summary' = {w \in irq_summary :
                         \/ w # i \div BITS_PER_LONG
                         \/ \E j \in irq_pending \ {i} : j \div BITS_PER_LONG = w}

\* The guest enters a handler, and interrupts are masked.
EnterHandler ==
    /\ saved' = <<[insn |-> insn, iflag |-> iflag]>> \o saved
    /\ insn' = None
    /\ iflag' = FALSE

MustInject == irq_summary # {} /\ entry = None

Injectable == iflag /\ ~blocked

NoInject ==
    /\ pc = "again"
    /\ ~MustInject
    /\ pc' = "guest"
    /\ UNCHANGED <<exit, runVars, irqVars, rmode, mmioVars, entry, window,
                   maskVars, insnVars, owed, raises>>

\* Mutant: no interrupt-window exit.
NoWindow ==
    /\ pc = "again"
    /\ MustInject
    /\ ~Injectable
    /\ pc' = "guest"
    /\ UNCHANGED <<exit, runVars, irqVars, rmode, mmioVars, entry, window,
                   maskVars, insnVars, owed, raises>>

\* Interrupts blocked: ask for an exit when they no longer are.
RequestWindow ==
    /\ pc = "again"
    /\ MustInject
    /\ ~Injectable
    /\ window' = TRUE
    /\ pc' = "guest"
    /\ UNCHANGED <<exit, runVars, irqVars, rmode, mmioVars, entry, maskVars,
                   insnVars, owed, raises>>

\* kvm_do_inject_irq in protected mode: the processor will deliver it.
InjectEvent ==
    /\ pc = "again"
    /\ MustInject /\ Injectable /\ ~rmode
    /\ TakePending(NextIrq)
    /\ entry' = NextIrq
    /\ pc' = "guest"
    /\ UNCHANGED <<exit, runVars, rmode, mmioVars, window, maskVars, insnVars,
                   owed, raises>>

\* inject_rmode_irq writes the guest's stack and registers itself.
inject_rmode_irq ==
    /\ pc = "again"
    /\ MustInject /\ Injectable /\ rmode
    /\ TakePending(NextIrq)
    /\ EnterHandler
    /\ owed' = owed \ {NextIrq}
    /\ pc' = "guest"
    /\ UNCHANGED <<exit, runVars, rmode, mmioVars, entry, window, blocked,
                   raises>>

\* There is no stack or no vector table to use: reported in the log, dropped.
InjectRmodeFails ==
    /\ pc = "again"
    /\ MustInject /\ Injectable /\ rmode
    /\ TakePending(NextIrq)
    /\ owed' = owed \ {NextIrq}
    /\ pc' = "guest"
    /\ UNCHANGED <<exit, runVars, rmode, mmioVars, entry, window, maskVars,
                   insnVars, raises>>

\* cond_resched and vcpu_load again, or a signal.
Reload ==
    /\ pc = "resched"
    /\ pc' = "again"
    /\ UNCHANGED <<exit, runVars, irqVars, rmode, mmioVars, entry, window,
                   maskVars, insnVars, owed, raises>>

SignalPending ==
    /\ pc = "resched"
    /\ BackToUser("eintr")
    /\ UNCHANGED <<run_data, irqVars, rmode, mmioVars, entry, window, maskVars,
                   insnVars, owed, raises>>

-----------------------------------------------------------------------------
(* The processor and the guest.                                              *)

\* VM entry delivers the event.
Deliver ==
    /\ pc = "guest" /\ entry # None
    /\ EnterHandler
    /\ owed' = owed \ {entry}
    /\ entry' = None
    /\ UNCHANGED <<pc, exit, runVars, irqVars, rmode, mmioVars, window, blocked,
                   raises>>

\* Between two instructions: nothing is left to deliver, and no window opened.
Executes == pc = "guest" /\ entry = None /\ ~(window /\ Injectable)

\* What comes after an instruction is up to the guest.
NextInsn == insn' \in Insns \cup {None}

Sti ==
    /\ Executes /\ insn = None
    /\ ~iflag /\ Len(saved) < MaxNest
    /\ iflag' = TRUE /\ blocked' = TRUE
    /\ NextInsn
    /\ UNCHANGED <<pc, exit, runVars, irqVars, rmode, mmioVars, entry, window,
                   saved, owed, raises>>

Cli ==
    /\ Executes /\ insn = None
    /\ iflag
    /\ iflag' = FALSE /\ blocked' = FALSE
    /\ NextInsn
    /\ UNCHANGED <<pc, exit, runVars, irqVars, rmode, mmioVars, entry, window,
                   saved, owed, raises>>

Iret ==
    /\ Executes /\ insn = None
    /\ saved # <<>>
    /\ iflag' = Head(saved).iflag /\ blocked' = FALSE
    /\ insn' = Head(saved).insn
    /\ saved' = Tail(saved)
    /\ UNCHANGED <<pc, exit, runVars, irqVars, rmode, mmioVars, entry, window,
                   owed, raises>>

OtherInsn ==
    /\ Executes /\ insn = None
    /\ blocked' = FALSE
    /\ NextInsn
    /\ UNCHANGED <<pc, exit, runVars, irqVars, rmode, mmioVars, entry, window,
                   iflag, saved, owed, raises>>

-----------------------------------------------------------------------------
(* The exit handlers.                                                        *)

\* Handled: vcpu_put, and round the loop.
GoOn == pc' = "resched" /\ UNCHANGED <<exit, emulated, mmio_completed>>

handle_external_interrupt ==
    /\ pc = "guest" /\ entry = None
    /\ GoOn
    /\ UNCHANGED <<run_data, irqVars, rmode, mmioVars, entry, window, maskVars,
                   insnVars, owed, raises>>

handle_interrupt_window ==
    /\ pc = "guest" /\ entry = None
    /\ window /\ Injectable
    /\ window' = FALSE
    /\ GoOn
    /\ UNCHANGED <<run_data, irqVars, rmode, mmioVars, entry, maskVars,
                   insnVars, owed, raises>>

\* Mutant: IDT_VECTORING_INFO_FIELD is ignored.
IgnoreVectored == UNCHANGED irqVars

\* handle_exception: an external interrupt whose delivery faulted is queued
\* again.
RequeueVectored ==
    IF entry \in Irqs THEN SetPending(entry) ELSE UNCHANGED irqVars

\* The delivery of the event faulted.  The shadow page table is fixed, or the
\* guest gets a page fault (or a double fault) in place of the event.
DeliveryFaults ==
    /\ pc = "guest" /\ entry # None
    /\ RequeueVectored
    /\ entry' \in {None, Fault}
    /\ GoOn
    /\ UNCHANGED <<run_data, rmode, mmioVars, window, maskVars, insnVars, owed,
                   raises>>

\* The guest gets a page fault for its instruction, unless the instruction has
\* been as far as user space already.
GuestPageFault ==
    /\ Executes /\ Len(saved) < MaxNest
    /\ insn # None => insn.ops = 0
    /\ entry' = Fault
    /\ GoOn
    /\ UNCHANGED <<run_data, irqVars, rmode, mmioVars, window, maskVars,
                   insnVars, owed, raises>>

handle_io ==
    /\ Executes /\ insn = Insn("io", None)
    /\ BackToUser("io")
    /\ UNCHANGED <<run_data, irqVars, rmode, mmioVars, entry, window, maskVars,
                   insnVars, owed, raises>>

\* get_io_count cannot read a string instruction's bytes: tried again.
get_io_count_fails ==
    /\ Executes /\ insn = Insn("io", None)
    /\ GoOn
    /\ UNCHANGED <<run_data, irqVars, rmode, mmioVars, entry, window, maskVars,
                   insnVars, owed, raises>>

handle_halt ==
    /\ Executes /\ insn = Insn("hlt", None)
    /\ insn' = None
    /\ blocked' = FALSE
    /\ IF irq_summary # {} /\ iflag THEN GoOn ELSE BackToUser("hlt")
    /\ UNCHANGED <<run_data, irqVars, rmode, mmioVars, entry, window, iflag,
                   saved, owed, raises>>

\* emulator_read_emulated with an answer at hand takes it.
ReadCompletes ==
    /\ Executes /\ insn # None /\ insn.kind = "read"
    /\ mmio_read_completed
    /\ mmio_read_completed' = FALSE
    /\ insn' = None
    /\ GoOn
    /\ UNCHANGED <<run_data, irqVars, rmode, mmio_data, entry, window, maskVars,
                   saved, owed, raises>>

ReadNeeded ==
    /\ Executes /\ insn # None /\ insn.kind = "read"
    /\ ~mmio_read_completed
    /\ run_data' = insn.addr
    /\ BackToUser("read")
    /\ UNCHANGED <<irqVars, rmode, mmioVars, entry, window, maskVars, insnVars,
                   owed, raises>>

\* A write is complete for the guest before user space performs it.
WriteNeeded ==
    /\ Executes /\ insn # None /\ insn.kind = "write"
    /\ run_data' = insn.addr
    /\ mmio_data' = insn.addr
    /\ insn' = None
    /\ BackToUser("write")
    /\ UNCHANGED <<irqVars, rmode, mmio_read_completed, entry, window, maskVars,
                   saved, owed, raises>>

\* invlpg is skipped without skip_emulated_instruction.
handle_invlpg ==
    /\ Executes /\ insn = None
    /\ NextInsn
    /\ GoOn
    /\ UNCHANGED <<run_data, irqVars, rmode, mmioVars, entry, window, maskVars,
                   saved, owed, raises>>

\* inject_gp.
MayInjectGp == IF Len(saved) < MaxNest THEN {None, Fault} ELSE {None}

\* The instruction is skipped, whether or not it got a #GP as well.  A write of
\* CR0 may enter or leave protected mode.
handle_cr ==
    /\ Executes /\ insn = None
    /\ rmode' \in BOOLEAN
    /\ entry' \in MayInjectGp
    /\ blocked' = FALSE
    /\ GoOn
    /\ UNCHANGED <<run_data, irqVars, mmioVars, window, iflag, insnVars, owed,
                   raises>>

\* The instruction is skipped, unless it gets an event of "gp" instead.
SkipOrGp(gp) ==
    /\ Executes /\ insn = None
    /\ entry' \in gp
    /\ blocked' = (blocked /\ entry' = Fault)
    /\ GoOn
    /\ UNCHANGED <<run_data, irqVars, rmode, mmioVars, window, iflag, insnVars,
                   owed, raises>>

handle_dr    == SkipOrGp({None})
handle_rdmsr == SkipOrGp(MayInjectGp)
handle_wrmsr == SkipOrGp(MayInjectGp)

-----------------------------------------------------------------------------
User == UserIo \/ UserMmio \/ UserOther \/ KvmRun

Enter == NoInject \/ RequestWindow \/ InjectEvent \/ inject_rmode_irq
           \/ InjectRmodeFails

HostExit == handle_external_interrupt \/ handle_interrupt_window

GuestExit == \/ DeliveryFaults \/ GuestPageFault \/ handle_io
             \/ get_io_count_fails \/ handle_halt \/ ReadCompletes
             \/ ReadNeeded \/ WriteNeeded \/ handle_invlpg \/ handle_cr
             \/ handle_dr \/ handle_rdmsr \/ handle_wrmsr

Guest == Deliver \/ Sti \/ Cli \/ Iret \/ OtherInsn

Next == \/ \E i \in Irqs : kvm_inject_irq(i)
        \/ User \/ Enter \/ Reload \/ SignalPending
        \/ Guest \/ HostExit \/ GuestExit

Spec == Init /\ [][Next]_vars

\* An instruction that needs the host exits.
HostInsn == handle_io \/ handle_halt \/ ReadCompletes \/ ReadNeeded \/ WriteNeeded

\* The kernel and user space run on; host interrupts keep coming while the
\* guest runs, but neither they nor page faults keep it from ever executing an
\* instruction; the guest
\* leaves its handlers and opens a window for interrupts again and again; and
\* the delivery of an event does not always fault.
Fairness ==
    /\ WF_vars(User) /\ WF_vars(Enter) /\ WF_vars(Reload \/ SignalPending)
    /\ SF_vars(handle_external_interrupt) /\ WF_vars(handle_interrupt_window)
    /\ \A n \in 0 .. MaxNest : SF_vars(HostInsn /\ Len(saved) = n)
    /\ SF_vars(Iret) /\ SF_vars(Sti)
    /\ SF_vars(OtherInsn /\ iflag /\ blocked)
    /\ \A i \in Irqs \cup {Fault} : SF_vars(Deliver /\ entry = i)

FairSpec == Spec /\ Fairness

-----------------------------------------------------------------------------
(* Properties.                                                               *)

\* An interrupt that KVM_INTERRUPT accepted is pending or about to be
\* delivered until the guest takes it: not lost on any way from the queue
\* through VM_ENTRY_INTR_INFO_FIELD and IDT_VECTORING_INFO_FIELD and back.
IrqNotLost == owed \subseteq irq_pending \cup {entry}

\* kvm_do_inject_irq finds a bit: irq_summary has exactly the words of
\* irq_pending that are not zero.
SummaryExact == irq_summary = {i \div BITS_PER_LONG : i \in irq_pending}

\* "skip current instruction": KVM_RUN skips an instruction only if user space
\* has performed it, once.
SkipsPerformed ==
    pc = "user" /\ emulated => insn # None /\ insn.kind = "io" /\ insn.ops = 1

\* An interrupt that KVM_INTERRUPT accepted is taken by the guest in the end,
\* over masked sections, faulting deliveries and other interrupts before it.
IrqDelivered == \A i \in Irqs : i \in owed ~> i \notin owed

\* "mmio request completed": the guest's read takes the answer to that read.
ReadGetsItsAnswer ==
    [][ReadCompletes => insn.addr = mmio_data]_vars
=============================================================================
