--------------------------- MODULE RunLoopProofs ---------------------------
(***************************************************************************)
(* The inductive invariant of RunLoop and the proofs that rest on it, for  *)
(* every set of interrupts, word size, set of addresses and nesting depth. *)
(***************************************************************************)
EXTENDS RunLoop, TLAPS, SequenceTheorems, WellFoundedInduction

\* An instruction of the guest, however often it was performed.
InsnOK(i) ==
    \/ i = None
    \/ /\ i \in InsnStates
       /\ i.kind \in {"io", "hlt"} => i.addr = None
       /\ i.kind \in {"read", "write"} => i.addr \in Addrs

Frames == [insn : {None} \cup InsnStates, iflag : BOOLEAN]

\* TypeOK without the instructions, which InsnInv and StackInv describe.
FlatType ==
    /\ pc \in {"user", "again", "guest", "resched"}
    /\ exit \in Exits
    /\ emulated \in BOOLEAN
    /\ mmio_completed \in BOOLEAN
    /\ run_data \in Addrs \cup {None}
    /\ irq_pending \in SUBSET Irqs
    /\ irq_summary \in SUBSET Words
    /\ rmode \in BOOLEAN
    /\ mmio_read_completed \in BOOLEAN
    /\ mmio_data \in Addrs \cup {None}
    /\ entry \in Irqs \cup {Fault, None}
    /\ window \in BOOLEAN
    /\ iflag \in BOOLEAN
    /\ blocked \in BOOLEAN
    /\ owed \in SUBSET Irqs
    /\ raises \in 0 .. MaxRaises

\* What the guest executes and what its handlers interrupted.
StackInv ==
    /\ InsnOK(insn)
    /\ saved \in Seq(Frames)
    /\ \A n \in 1 .. Len(saved) : InsnOK(saved[n].insn)

\* There is room for one more handler whenever the guest may enter one: while
\* interrupts are unmasked, and while an event waits for the entry.
NestInv ==
    /\ Len(saved) <= MaxNest
    /\ iflag => Len(saved) < MaxNest
    /\ entry # None => Len(saved) < MaxNest

\* The request user space has to serve is the instruction the guest is at, and
\* it is not served twice: exit is reset by the step that sets emulated.
ExitInv ==
    /\ pc # "user" => exit = "none"
    /\ pc = "user" /\ exit # "none" => ~emulated
    /\ pc = "user" /\ exit = "io" => insn = Insn("io", None)
    /\ pc = "user" /\ exit = "read" => insn # None

IInv == FlatType /\ StackInv /\ NestInv /\ ExitInv /\ SummaryExact
          /\ IrqNotLost /\ SkipsPerformed

-----------------------------------------------------------------------------
(* The operators of the model.                                               *)

\* __ffs of a word that is not zero finds its lowest bit.
LEMMA LowestIn ==
    ASSUME NEW S, S \subseteq Nat, S # {}
    PROVE  Lowest(S) \in S /\ \A j \in S : Lowest(S) <= j
<1>1. PICK x \in S : \A y \in S : ~(<<y, x>> \in OpToRel(<, Nat))
  BY NatLessThanWellFounded, WFMin
<1>2. \A y \in S : ~(y < x)
  BY <1>1, Zenon DEF OpToRel
<1>3. \A y \in S : x <= y
  BY <1>2
<1> QED BY <1>3 DEF Lowest

\* kvm_do_inject_irq takes a pending interrupt: the lowest bit of the lowest
\* word, if irq_summary is exact.
LEMMA NextIrqPending ==
    ASSUME irq_pending \subseteq Irqs, SummaryExact, irq_summary # {}
    PROVE  NextIrq \in irq_pending
<1> DEFINE w == Lowest(irq_summary)
<1>1. \A i \in Irqs : i \div BITS_PER_LONG \in Nat
  BY IrqsAssumption, BitsAssumption
<1>2. irq_summary \subseteq Nat
  BY <1>1 DEF SummaryExact
<1>3. w \in irq_summary
  BY <1>2, LowestIn
<1> DEFINE W == {i \in irq_pending : i \div BITS_PER_LONG = w}
<1>4. W # {} /\ W \subseteq Nat
  BY <1>3, IrqsAssumption DEF SummaryExact
<1> HIDE DEF W
<1>5. Lowest(W) \in W
  BY <1>4, LowestIn
<1> QED BY <1>5 DEF NextIrq, W

\* KVM_INTERRUPT and the requeueing of a vectored event keep the summary exact.
LEMMA SetPendingExact ==
    ASSUME NEW i \in Irqs, irq_pending \in SUBSET Irqs, SummaryExact, SetPending(i)
    PROVE  /\ irq_pending' \in SUBSET Irqs
           /\ irq_summary' \in SUBSET Words
           /\ SummaryExact'
BY DEF SetPending, SummaryExact, Words

\* So does the removal of an interrupt, whichever it is: the bit of its word
\* goes when the word becomes zero, and only then.
LEMMA TakePendingExact ==
    ASSUME NEW i, irq_pending \in SUBSET Irqs, SummaryExact, TakePending(i)
    PROVE  /\ irq_pending' \in SUBSET Irqs
           /\ irq_summary' \in SUBSET Words
           /\ SummaryExact'
<1>1. irq_pending' \in SUBSET Irqs
  BY DEF TakePending
<1>2. ASSUME NEW w \in irq_summary'
      PROVE  w \in {j \div BITS_PER_LONG : j \in irq_pending'}
  BY <1>2 DEF TakePending, SummaryExact
<1>3. ASSUME NEW j \in irq_pending'
      PROVE  j \div BITS_PER_LONG \in irq_summary'
  BY <1>3 DEF TakePending, SummaryExact
<1>4. SummaryExact'
  BY <1>2, <1>3 DEF SummaryExact
<1> QED BY <1>1, <1>4 DEF SummaryExact, Words

\* A performed instruction is the same instruction.
LEMMA PerformedOK ==
    ASSUME NEW i, InsnOK(i), i # None
    PROVE  /\ InsnOK(Performed(i))
           /\ Performed(i) # None
           /\ Performed(i).kind = i.kind
           /\ i.ops = 0 => Performed(i).ops = 1
BY InsnAssumption DEF InsnOK, Performed, InsnStates

\* Every instruction the guest may come to is one.
LEMMA InsnsOK == \A i \in Insns \cup {None} : InsnOK(i) /\ (i # None => i.ops = 0)
BY DEF Insns, Insn, InsnOK, InsnStates

\* A handler is entered where there is room for it, and leaves interrupts masked.
LEMMA EnterHandlerOK ==
    ASSUME StackInv, iflag \in BOOLEAN, EnterHandler, Len(saved) < MaxNest
    PROVE  /\ StackInv'
           /\ Len(saved') <= MaxNest
           /\ iflag' = FALSE /\ insn' = None
<1> DEFINE f == [insn |-> insn, iflag |-> iflag]
<1>1. f \in Frames
  BY DEF StackInv, InsnOK, Frames
<1>2. <<f>> \in Seq(Frames) /\ Len(<<f>>) = 1
  BY <1>1
<1> HIDE DEF f
<1>3. /\ saved' \in Seq(Frames)
      /\ Len(saved') = 1 + Len(saved)
      /\ \A n \in 1 .. 1 + Len(saved) :
            saved'[n] = IF n <= 1 THEN <<f>>[n] ELSE saved[n - 1]
  BY <1>2, ConcatProperties DEF EnterHandler, StackInv, f
<1>4. InsnOK(f.insn)
  BY DEF f, StackInv
<1>5. Len(saved) \in Nat
  BY DEF StackInv
<1>6. ASSUME NEW n \in 1 .. Len(saved')
      PROVE  InsnOK(saved'[n].insn)
  <2>1. CASE n = 1
    BY <2>1, <1>3, <1>4, <1>5
  <2>2. CASE n # 1
    <3>1. n - 1 \in 1 .. Len(saved) /\ saved'[n] = saved[n - 1]
      BY <2>2, <1>3, <1>5
    <3> QED BY <3>1 DEF StackInv
  <2> QED BY <2>1, <2>2
<1>7. InsnOK(insn') /\ insn' = None /\ iflag' = FALSE
  BY DEF EnterHandler, InsnOK
<1> QED BY <1>3, <1>5, <1>6, <1>7, BoundsAssumption DEF StackInv

\* A return goes back to what was interrupted.
LEMMA IretOK ==
    ASSUME StackInv, saved # <<>>, insn' = Head(saved).insn, saved' = Tail(saved)
    PROVE  /\ StackInv'
           /\ Len(saved') = Len(saved) - 1
           /\ Head(saved).iflag \in BOOLEAN
<1>1. saved \in Seq(Frames)
  BY DEF StackInv
<1>2. /\ Head(saved) \in Frames
      /\ Tail(saved) \in Seq(Frames)
      /\ Len(Tail(saved)) = Len(saved) - 1
      /\ \A i \in 1 .. Len(Tail(saved)) : Tail(saved)[i] = saved[i + 1]
  BY <1>1, HeadTailProperties
<1>3. Head(saved) = saved[1] /\ Len(saved) \in Nat \ {0}
  BY <1>1
<1>4. InsnOK(insn')
  BY <1>3 DEF StackInv
<1>5. ASSUME NEW n \in 1 .. Len(saved')
      PROVE  InsnOK(saved'[n].insn)
  <2>1. n + 1 \in 1 .. Len(saved) /\ saved'[n] = saved[n + 1]
    BY <1>2, <1>3
  <2> QED BY <2>1 DEF StackInv
<1> QED BY <1>2, <1>4, <1>5 DEF StackInv, Frames

-----------------------------------------------------------------------------
(* The invariant is inductive.                                               *)

USE NoneAssumption, BoundsAssumption
    DEF runVars, irqVars, mmioVars, maskVars, insnVars

\* The invariant holds before the first KVM_RUN.
LEMMA InitIInv == Init => IInv
<1> SUFFICES ASSUME Init PROVE IInv
  OBVIOUS
<1>1. FlatType
  <2>1. raises \in 0 .. MaxRaises
    BY DEF Init
  <2>2. irq_pending \in SUBSET Irqs /\ irq_summary \in SUBSET Words /\ owed \in SUBSET Irqs
    BY DEF Init
  <2> QED BY <2>1, <2>2, Zenon DEF Init, FlatType, Exits
<1>2. SummaryExact /\ IrqNotLost /\ SkipsPerformed
  BY DEF Init, SummaryExact, IrqNotLost, SkipsPerformed
<1>3. StackInv /\ NestInv /\ ExitInv
  BY EmptySeq DEF Init, StackInv, NestInv, ExitInv, InsnOK
<1> QED BY <1>1, <1>2, <1>3 DEF IInv

\* KVM_INTERRUPT queues the interrupt it is asked for.
LEMMA Step_kvm_inject_irq ==
    ASSUME IInv, NEW i \in Irqs, kvm_inject_irq(i)
    PROVE  IInv'
<1>1. /\ irq_pending' \in SUBSET Irqs
      /\ irq_summary' \in SUBSET Words
      /\ SummaryExact'
  BY SetPendingExact DEF IInv, FlatType, kvm_inject_irq
<1>2. FlatType' /\ IrqNotLost'
  BY <1>1 DEF IInv, FlatType, IrqNotLost, kvm_inject_irq, SetPending
<1>3. StackInv' /\ NestInv' /\ ExitInv' /\ SkipsPerformed'
  BY DEF IInv, StackInv, NestInv, ExitInv, SkipsPerformed, kvm_inject_irq
<1> QED BY <1>1, <1>2, <1>3 DEF IInv

\* User space serves a request once, and KVM_RUN skips what it served.
LEMMA Step_User ==
    ASSUME IInv, User
    PROVE  IInv'
<1>1. CASE UserIo
  <2>1. insn = Insn("io", None)
    BY <1>1 DEF IInv, ExitInv, UserIo
  <2>2. InsnOK(insn) /\ insn # None /\ insn.kind = "io" /\ insn.ops = 0
    BY <2>1, InsnsOK, InsnAssumption DEF Insn, Insns, InsnStates
  <2>3. StackInv' /\ SkipsPerformed'
    BY <1>1, <2>2, PerformedOK DEF IInv, UserIo, StackInv, SkipsPerformed
  <2>4. FlatType' /\ NestInv' /\ ExitInv' /\ SummaryExact' /\ IrqNotLost'
    BY <1>1 DEF IInv, UserIo, FlatType, Exits, NestInv, ExitInv, SummaryExact,
                IrqNotLost
  <2> QED BY <2>3, <2>4 DEF IInv
<1>2. CASE UserMmio
  <2>1. StackInv'
    BY <1>2, PerformedOK DEF IInv, UserMmio, StackInv, ExitInv
  <2>2. FlatType' /\ NestInv' /\ ExitInv' /\ SummaryExact' /\ IrqNotLost'
          /\ SkipsPerformed'
    BY <1>2 DEF IInv, UserMmio, FlatType, Exits, NestInv, ExitInv, SummaryExact,
                IrqNotLost, SkipsPerformed
  <2> QED BY <2>1, <2>2 DEF IInv
<1>3. CASE UserOther
  BY <1>3 DEF IInv, UserOther, FlatType, Exits, StackInv, NestInv, ExitInv,
              SummaryExact, IrqNotLost, SkipsPerformed
<1>4. CASE KvmRun
  <2>1. StackInv'
    BY <1>4 DEF IInv, KvmRun, StackInv, InsnOK
  <2>2. FlatType' /\ NestInv' /\ ExitInv' /\ SummaryExact' /\ IrqNotLost'
          /\ SkipsPerformed'
    BY <1>4 DEF IInv, KvmRun, FlatType, Exits, NestInv, ExitInv, SummaryExact,
                IrqNotLost, SkipsPerformed
  <2> QED BY <2>1, <2>2 DEF IInv
<1> QED BY <1>1, <1>2, <1>3, <1>4 DEF User

\* An interrupt leaves the queue for the entry field or for the guest's stack.
LEMMA Step_Enter ==
    ASSUME IInv, Enter
    PROVE  IInv'
<1>0. CASE NoInject
  BY <1>0 DEF IInv, NoInject, FlatType, StackInv, NestInv,
              ExitInv, SummaryExact, IrqNotLost, SkipsPerformed
<1>1. CASE RequestWindow
  BY <1>1 DEF IInv, RequestWindow, FlatType, StackInv, NestInv,
              ExitInv, SummaryExact, IrqNotLost, SkipsPerformed
<1>2. SUFFICES ASSUME InjectEvent \/ inject_rmode_irq \/ InjectRmodeFails
               PROVE  IInv'
  BY <1>0, <1>1 DEF Enter
<1>3. /\ pc = "again" /\ MustInject /\ Injectable /\ pc' = "guest"
      /\ TakePending(NextIrq)
  BY <1>2 DEF InjectEvent, inject_rmode_irq, InjectRmodeFails
<1>4. NextIrq \in irq_pending
  BY <1>3, NextIrqPending DEF IInv, FlatType, MustInject
<1>5. /\ irq_pending' \in SUBSET Irqs
      /\ irq_summary' \in SUBSET Words
      /\ SummaryExact'
  BY <1>3, TakePendingExact DEF IInv, FlatType
<1>6. NextIrq \in Irqs /\ irq_pending' = irq_pending \ {NextIrq}
        /\ entry = None /\ iflag /\ Len(saved) < MaxNest
  BY <1>3, <1>4 DEF IInv, FlatType, TakePending, MustInject, Injectable, NestInv
<1>7. CASE InjectEvent
  BY <1>5, <1>6, <1>7 DEF IInv, InjectEvent, FlatType, StackInv, NestInv,
                          ExitInv, IrqNotLost, SkipsPerformed
<1>8. CASE inject_rmode_irq
  <2>1. StackInv' /\ Len(saved') <= MaxNest /\ iflag' = FALSE
    BY <1>6, <1>8, EnterHandlerOK DEF IInv, inject_rmode_irq, FlatType
  <2> QED
    BY <1>5, <1>6, <1>8, <2>1 DEF IInv, inject_rmode_irq, FlatType, NestInv,
                                  ExitInv, IrqNotLost, SkipsPerformed
<1>9. CASE InjectRmodeFails
  BY <1>5, <1>6, <1>9 DEF IInv, InjectRmodeFails, FlatType, StackInv, NestInv,
                          ExitInv, IrqNotLost, SkipsPerformed
<1> QED BY <1>2, <1>7, <1>8, <1>9

\* The rescheduling point changes nothing, and a signal returns to user space
\* without a request.
LEMMA Step_Resched ==
    ASSUME IInv, Reload \/ SignalPending
    PROVE  IInv'
<1>1. CASE Reload
  BY <1>1 DEF IInv, Reload, FlatType, StackInv, NestInv,
              ExitInv, SummaryExact, IrqNotLost, SkipsPerformed
<1>2. CASE SignalPending
  BY <1>2 DEF IInv, SignalPending, BackToUser, Exits, FlatType, StackInv, NestInv,
              ExitInv, SummaryExact, IrqNotLost, SkipsPerformed
<1> QED BY <1>1, <1>2

\* The guest enters and leaves handlers, masks and unmasks.
LEMMA Step_Guest ==
    ASSUME IInv, Guest
    PROVE  IInv'
<1>1. CASE Deliver
  <2>1. StackInv' /\ Len(saved') <= MaxNest /\ iflag' = FALSE
    BY <1>1, EnterHandlerOK DEF IInv, Deliver, FlatType, NestInv
  <2> QED
    BY <1>1, <2>1 DEF IInv, Deliver, FlatType, NestInv, ExitInv, SummaryExact,
                      IrqNotLost, SkipsPerformed
<1>2. CASE Sti \/ Cli \/ OtherInsn
  <2>1. InsnOK(insn')
    BY <1>2, InsnsOK DEF Sti, Cli, OtherInsn, NextInsn
  <2>2. CASE Sti
    BY <2>1, <2>2 DEF IInv, Sti, Executes, FlatType, StackInv, NestInv, ExitInv,
                      SummaryExact, IrqNotLost, SkipsPerformed
  <2>3. CASE Cli
    BY <2>1, <2>3 DEF IInv, Cli, Executes, FlatType, StackInv, NestInv, ExitInv,
                      SummaryExact, IrqNotLost, SkipsPerformed
  <2>4. CASE OtherInsn
    BY <2>1, <2>4 DEF IInv, OtherInsn, Executes, FlatType, StackInv, NestInv,
                      ExitInv, SummaryExact, IrqNotLost, SkipsPerformed
  <2> QED BY <1>2, <2>2, <2>3, <2>4
<1>3. CASE Iret
  <2>1. StackInv' /\ Len(saved') = Len(saved) - 1 /\ Head(saved).iflag \in BOOLEAN
    BY <1>3, IretOK DEF IInv, Iret
  <2>2. Len(saved) \in Nat /\ Len(saved) <= MaxNest
    BY DEF IInv, StackInv, NestInv
  <2>3. NestInv'
    BY <2>1, <2>2 DEF NestInv
  <2> QED
    BY <1>3, <2>1, <2>3 DEF IInv, Iret, Executes, FlatType, ExitInv,
                            SummaryExact, IrqNotLost, SkipsPerformed
<1> QED BY <1>1, <1>2, <1>3 DEF Guest

\* Exits the guest has no part in.
LEMMA Step_HostExit ==
    ASSUME IInv, HostExit
    PROVE  IInv'
<1>1. CASE handle_external_interrupt
  BY <1>1 DEF IInv, handle_external_interrupt, GoOn, FlatType, StackInv, NestInv,
              ExitInv, SummaryExact, IrqNotLost, SkipsPerformed
<1>2. CASE handle_interrupt_window
  BY <1>2 DEF IInv, handle_interrupt_window, GoOn, FlatType, StackInv, NestInv,
              ExitInv, SummaryExact, IrqNotLost, SkipsPerformed
<1> QED BY <1>1, <1>2 DEF HostExit

\* An event whose delivery faulted goes back to the queue.
LEMMA Step_DeliveryFaults ==
    ASSUME IInv, DeliveryFaults
    PROVE  IInv'
<1>1. /\ irq_pending' \in SUBSET Irqs
      /\ irq_summary' \in SUBSET Words
      /\ SummaryExact'
      /\ owed \subseteq irq_pending'
  <2>1. CASE entry \in Irqs
    BY <2>1, SetPendingExact
       DEF IInv, DeliveryFaults, RequeueVectored, FlatType, SetPending, IrqNotLost
  <2>2. CASE entry \notin Irqs
    BY <2>2 DEF IInv, DeliveryFaults, RequeueVectored, FlatType, SummaryExact,
                IrqNotLost
  <2> QED BY <2>1, <2>2
<1> QED
  BY <1>1 DEF IInv, DeliveryFaults, GoOn, FlatType, StackInv, NestInv, ExitInv,
              IrqNotLost, SkipsPerformed

\* The handlers of the guest's own exits.
LEMMA Step_GuestExit ==
    ASSUME IInv, GuestExit
    PROVE  IInv'
<1>1. CASE DeliveryFaults
  BY <1>1, Step_DeliveryFaults
<1>2. CASE GuestPageFault
  BY <1>2 DEF IInv, GuestPageFault, Executes, GoOn, FlatType, StackInv, NestInv,
              ExitInv, SummaryExact, IrqNotLost, SkipsPerformed
<1>3. CASE handle_io
  BY <1>3 DEF IInv, handle_io, Executes, BackToUser, Exits, FlatType, StackInv, NestInv,
              ExitInv, SummaryExact, IrqNotLost, SkipsPerformed
<1>11. CASE get_io_count_fails
  BY <1>11 DEF IInv, get_io_count_fails, Executes, GoOn, FlatType, StackInv, NestInv,
              ExitInv, SummaryExact, IrqNotLost, SkipsPerformed
<1>4. CASE handle_halt
  <2>1. InsnOK(insn')
    BY <1>4 DEF handle_halt, InsnOK
  <2> QED
    BY <1>4, <2>1 DEF IInv, handle_halt, Executes, GoOn, BackToUser, FlatType,
                      Exits, StackInv, NestInv, ExitInv, SummaryExact, IrqNotLost,
                      SkipsPerformed
<1>5. CASE ReadCompletes
  <2>1. InsnOK(insn')
    BY <1>5 DEF ReadCompletes, InsnOK
  <2> QED
    BY <1>5, <2>1 DEF IInv, ReadCompletes, Executes, GoOn, FlatType, StackInv,
                      NestInv, ExitInv, SummaryExact, IrqNotLost, SkipsPerformed
<1>6. CASE ReadNeeded
  <2>1. insn.addr \in Addrs
    BY <1>6 DEF IInv, StackInv, InsnOK, ReadNeeded
  <2> QED
    BY <1>6, <2>1 DEF IInv, ReadNeeded, Executes, BackToUser, FlatType, Exits,
                      StackInv, NestInv, ExitInv, SummaryExact, IrqNotLost,
                      SkipsPerformed
<1>7. CASE WriteNeeded
  <2>1. insn.addr \in Addrs /\ InsnOK(insn')
    BY <1>7 DEF IInv, StackInv, InsnOK, WriteNeeded
  <2> QED
    BY <1>7, <2>1 DEF IInv, WriteNeeded, Executes, BackToUser, FlatType, Exits,
                      StackInv, NestInv, ExitInv, SummaryExact, IrqNotLost,
                      SkipsPerformed
<1>8. CASE handle_invlpg
  <2>1. InsnOK(insn')
    BY <1>8, InsnsOK DEF handle_invlpg, NextInsn
  <2> QED
    BY <1>8, <2>1 DEF IInv, handle_invlpg, Executes, GoOn, FlatType, StackInv,
                      NestInv, ExitInv, SummaryExact, IrqNotLost, SkipsPerformed
<1>9. CASE handle_cr
  BY <1>9 DEF IInv, handle_cr, Executes, MayInjectGp, GoOn, FlatType, StackInv,
              NestInv, ExitInv, SummaryExact, IrqNotLost, SkipsPerformed
<1>10. CASE handle_dr \/ handle_rdmsr \/ handle_wrmsr
  <2>1. PICK gp \in {{None}, MayInjectGp} : SkipOrGp(gp)
    BY <1>10 DEF handle_dr, handle_rdmsr, handle_wrmsr
  <2>2. entry' \in {None, Fault} /\ (entry' # None => Len(saved) < MaxNest)
    BY <2>1 DEF SkipOrGp, MayInjectGp
  <2> QED
    BY <2>1, <2>2 DEF IInv, SkipOrGp, Executes, GoOn, FlatType, StackInv, NestInv,
                      ExitInv, SummaryExact, IrqNotLost, SkipsPerformed
<1> QED BY <1>1, <1>2, <1>3, <1>4, <1>5, <1>6, <1>7, <1>8, <1>9, <1>10,
           <1>11 DEF GuestExit

\* Every step of the guest, the kernel, user space and the threads that raise
\* interrupts preserves the invariant.
LEMMA NextIInv ==
    ASSUME IInv, [Next]_vars
    PROVE  IInv'
<1>1. CASE UNCHANGED vars
  BY <1>1 DEF IInv, vars, FlatType, StackInv, NestInv, ExitInv, SummaryExact,
              IrqNotLost, SkipsPerformed
<1> QED
  BY <1>1, Step_kvm_inject_irq, Step_User, Step_Enter, Step_Resched, Step_Guest,
     Step_HostExit, Step_GuestExit DEF Next

\* The inductive invariant holds in every reachable state of the run loop.
THEOREM Invariance == Spec => []IInv
BY InitIInv, NextIInv, PTL DEF Spec

-----------------------------------------------------------------------------
(* The properties.                                                           *)

\* The type invariant follows from the parts.
LEMMA IInvTypeOK == IInv => TypeOK
<1> SUFFICES ASSUME IInv PROVE TypeOK
  OBVIOUS
<1>1. ASSUME NEW i, InsnOK(i)
      PROVE  i = None \/ [i EXCEPT !.ops = 0] \in Insns
  BY <1>1 DEF InsnOK, InsnStates, Insns, Insn
<1>2. DOMAIN saved = 1 .. Len(saved) /\ Len(saved) \in Nat
  BY LenProperties DEF IInv, StackInv
<1>3. ASSUME NEW n \in DOMAIN saved
      PROVE  InsnOK(saved[n].insn) /\ saved[n].iflag \in BOOLEAN
  <2>1. n \in 1 .. Len(saved) /\ saved \in Seq(Frames)
    BY <1>2 DEF IInv, StackInv
  <2>2. saved[n] \in Frames
    BY <2>1, ElementOfSeq
  <2> QED BY <2>1, <2>2 DEF IInv, StackInv, Frames
<1>4. \A i \in {insn} \cup {saved[n].insn : n \in DOMAIN saved} :
         i = None \/ [i EXCEPT !.ops = 0] \in Insns
  BY <1>1, <1>3 DEF IInv, StackInv
<1>5. Len(saved) \in 0 .. MaxNest
  BY <1>2 DEF IInv, NestInv
<1> QED BY <1>3, <1>4, <1>5 DEF IInv, FlatType, TypeOK

\* The variables keep their types; in particular the guest never nests deeper
\* than the bound allows, although only Sti and the faults look at it.
THEOREM TypeCorrect == Spec => []TypeOK
BY Invariance, IInvTypeOK, PTL

\* irq_summary is the set of nonzero words of irq_pending, so that the two __ffs
\* of kvm_do_inject_irq always find a bit.
THEOREM SummaryIsExact == Spec => []SummaryExact
<1>1. IInv => SummaryExact
  BY DEF IInv
<1> QED BY <1>1, Invariance, PTL

\* An interrupt that KVM_INTERRUPT accepted stays pending or in the entry field
\* until the guest takes it.
THEOREM NoIrqIsLost == Spec => []IrqNotLost
<1>1. IInv => IrqNotLost
  BY DEF IInv
<1> QED BY <1>1, Invariance, PTL

\* KVM_RUN skips an instruction only if user space performed it, exactly once.
THEOREM SkipsArePerformed == Spec => []SkipsPerformed
<1>1. IInv => SkipsPerformed
  BY DEF IInv
<1> QED BY <1>1, Invariance, PTL
=============================================================================
