---------------------------- MODULE VmcsPlacement ----------------------------
(***************************************************************************)
(* How kvm-module/kvm_main.c places the VMCS of a virtual cpu on a         *)
(* physical cpu, moves it between physical cpus, launches it and frees it. *)
(*                                                                         *)
(* Software state: vcpu->vmcs, vcpu->cpu, vcpu->launched, vcpu->mutex and  *)
(* the per-cpu current_vmcs.  Hardware state (external, Intel VMX): which  *)
(* VMCS is current on a cpu, on which cpus a VMCS is active, its launch    *)
(* state, and for which cpu its HOST_TR_BASE/HOST_GDTR_BASE/SYSENTER_ESP   *)
(* fields were written.  Tasks run ioctls on the file of a virtual         *)
(* machine; a task is preemptible except between get_cpu and put_cpu, and  *)
(* an inter-processor call may run on a cpu between any two of its steps.  *)
(*                                                                         *)
(* KVM_MAX_VCPUS is 1, so a vcpu stands for its virtual machine too.       *)
(***************************************************************************)

CONSTANTS CPUs,      \* physical cpus
          Cpu0,      \* cpu number 0, what kzalloc leaves in vcpu->cpu
          Vcpus,     \* virtual cpus, one per open file of /dev/kvm
          Tasks,     \* threads that issue ioctls
          VcpuOf,    \* the vcpu whose file a thread uses
          Regions,   \* pages a VMCS can be allocated from
          None       \* NULL, cpu -1, no owner

ASSUME Cpu0Assumption == Cpu0 \in CPUs
ASSUME VcpuOfAssumption == VcpuOf \in [Tasks -> Vcpus]
ASSUME NoneAssumption == None \notin CPUs \cup Tasks \cup Regions \cup Vcpus

VARIABLES
    vmcs,          \* vcpu->vmcs
    cpu,           \* vcpu->cpu
    launched,      \* vcpu->launched
    mutex,         \* owner of vcpu->mutex
    current_vmcs,  \* per_cpu(current_vmcs, cpu)
    allocated,     \* regions handed out by alloc_vmcs
    hwCurrent,     \* VMX: the current-VMCS pointer of a cpu
    hwActive,      \* VMX: the cpus on which a VMCS is active
    hwLaunched,    \* VMX: the launch state of a VMCS
    hostCpu,       \* the cpu whose TR, GDT and SYSENTER_ESP the VMCS holds
    pc, op,        \* of a task: where it is, and in which ioctl
    pin,           \* the cpu a task holds with get_cpu
    ipi,           \* the cpus on which a task's __vcpu_clear is still due
    client         \* what user space did with the file so far

vcpuVars == <<vmcs, cpu, launched>>
hwVars   == <<hwCurrent, hwActive, hwLaunched>>
vars     == <<vmcs, cpu, launched, mutex, current_vmcs, allocated, hwCurrent,
              hwActive, hwLaunched, hostCpu, pc, op, pin, ipi, client>>

\* Program points.  The ones in Holding are inside vcpu->mutex, the ones in
\* Pinned have preemption disabled.
Pinned  == {"call", "load", "vmptrld", "host", "loaded", "guest", "put"}
Holding == Pinned \cup {"alloc", "get_cpu", "mutex_unlock"}
Freeing == {"free", "free_call"}
PCs     == Holding \cup Freeing \cup {"user", "mutex_lock", "resched"}

\* The ioctl a task is in; "reload" is KVM_RUN on its way round the loop, the
\* last four are results that are still to be returned.
Ops == {"none", "create", "run", "access", "reload", "release",
        "created", "failed", "exited", "invalid"}
CreateOps == {"create", "created", "failed"}
RunOps    == {"run", "reload", "exited", "invalid"}

\* "doomed": KVM_RUN reported an exit reason libkvm answers with abort().
Phases == {"closed", "open", "doomed"}

TypeOK ==
    /\ vmcs \in [Vcpus -> Regions \cup {None}]
    /\ cpu \in [Vcpus -> CPUs \cup {None}]
    /\ launched \in [Vcpus -> BOOLEAN]
    /\ mutex \in [Vcpus -> Tasks \cup {None}]
    /\ current_vmcs \in [CPUs -> Regions \cup {None}]
    /\ allocated \in SUBSET Regions
    /\ hwCurrent \in [CPUs -> Regions \cup {None}]
    /\ hwActive \in [Regions -> SUBSET CPUs]
    /\ hwLaunched \in [Regions -> BOOLEAN]
    /\ hostCpu \in [Regions -> CPUs \cup {None}]
    /\ pc \in [Tasks -> PCs]
    /\ op \in [Tasks -> Ops]
    /\ pin \in [Tasks -> CPUs \cup {None}]
    /\ ipi \in [Tasks -> SUBSET CPUs]
    /\ client \in [Vcpus -> Phases]

Init ==
    /\ vmcs = [v \in Vcpus |-> None]
    /\ cpu = [v \in Vcpus |-> Cpu0]
    /\ launched = [v \in Vcpus |-> FALSE]
    /\ mutex = [v \in Vcpus |-> None]
    /\ current_vmcs = [c \in CPUs |-> None]
    /\ allocated = {}
    /\ hwCurrent = [c \in CPUs |-> None]
    /\ hwActive = [r \in Regions |-> {}]
    /\ hwLaunched = [r \in Regions |-> FALSE]
    /\ hostCpu = [r \in Regions |-> None]
    /\ pc = [t \in Tasks |-> "user"]
    /\ op = [t \in Tasks |-> "none"]
    /\ pin = [t \in Tasks |-> None]
    /\ ipi = [t \in Tasks |-> {}]
    /\ client = [v \in Vcpus |-> "closed"]

Goto(t, label) == pc' = [pc EXCEPT ![t] = label]

\* The ioctl returns to user space.
Return(t) == Goto(t, "user") /\ op' = [op EXCEPT ![t] = "none"]

\* The tasks inside an ioctl (or the release) of v's file.
Inside(v) == {t \in Tasks : VcpuOf[t] = v /\ pc[t] # "user"}

\* No task with preemption disabled occupies c.
CpuFree(c) == \A t \in Tasks : pin[t] # c

-----------------------------------------------------------------------------
(* The VMX instructions.  vmclear on c flushes the VMCS from c, makes its    *)
(* launch state clear and, where it was current, leaves no current VMCS.     *)

vmcs_clear(c, r) ==
    /\ hwLaunched' = [hwLaunched EXCEPT ![r] = FALSE]
    /\ hwActive' = [hwActive EXCEPT ![r] = @ \ {c}]
    /\ hwCurrent' = IF hwCurrent[c] = r
                    THEN [hwCurrent EXCEPT ![c] = None] ELSE hwCurrent

vmptrld(c, r) ==
    /\ hwActive' = [hwActive EXCEPT ![r] = @ \cup {c}]
    /\ hwCurrent' = [hwCurrent EXCEPT ![c] = r]
    /\ UNCHANGED hwLaunched

-----------------------------------------------------------------------------
(* User space.                                                               *)

\* kvm_dev_open: a zeroed struct kvm, so vcpu->cpu is 0 and not yet -1.
kvm_dev_open(v) ==
    /\ client[v] = "closed"
    /\ client' = [client EXCEPT ![v] = "open"]
    /\ vmcs' = [vmcs EXCEPT ![v] = None]
    /\ cpu' = [cpu EXCEPT ![v] = Cpu0]
    /\ launched' = [launched EXCEPT ![v] = FALSE]
    /\ UNCHANGED <<mutex, current_vmcs, allocated, hwVars, hostCpu,
                   pc, op, pin, ipi>>

Enter(t, o, label) ==
    /\ pc[t] = "user"
    /\ op' = [op EXCEPT ![t] = o]
    /\ Goto(t, label)
    /\ UNCHANGED <<vcpuVars, mutex, current_vmcs, allocated, hwVars, hostCpu,
                   pin, ipi, client>>

\* An ioctl that takes vcpu->mutex first.
Call(t, o) ==
    /\ client[VcpuOf[t]] # "closed"
    /\ \A u \in Inside(VcpuOf[t]) : op[u] # "release"
    /\ Enter(t, o, "mutex_lock")

\* What libkvm adds, and the kernel does not ask for: one thread calls kvm_run
\* on a vcpu, never again after the exit reasons it aborts on, and nothing
\* overlaps with KVM_CREATE_VCPU.  Without it a KVM_CREATE_VCPU that fails would
\* take the vcpu away from a KVM_RUN.
Orderly(v, o) ==
    /\ \A u \in Inside(v) : op[u] \notin CreateOps
    /\ o = "create" => Inside(v) = {}
    /\ o = "run" => /\ client[v] = "open"
                    /\ \A u \in Inside(v) : op[u] \notin RunOps

LibkvmCall(t) ==
    \E o \in {"create", "run", "access"} : Orderly(VcpuOf[t], o) /\ Call(t, o)

\* kvm_dev_release runs when the last reference to the file goes; every ioctl
\* holds one.
kvm_dev_release(t) ==
    /\ client[VcpuOf[t]] # "closed"
    /\ Inside(VcpuOf[t]) = {}
    /\ Enter(t, "release", "free")

-----------------------------------------------------------------------------
(* KVM_CREATE_VCPU up to the first load.                                     *)

\* The vcpu exists: -EEXIST, with the mutex taken and dropped.
CreateExists(t) ==
    /\ pc[t] = "mutex_lock" /\ op[t] = "create"
    /\ mutex[VcpuOf[t]] = None
    /\ vmcs[VcpuOf[t]] # None
    /\ Return(t)
    /\ UNCHANGED <<vcpuVars, mutex, current_vmcs, allocated, hwVars, hostCpu,
                   pin, ipi, client>>

\* Mutant: vcpu->cpu is left as kzalloc made it.
FirstLoadZero == Cpu0

\* vcpu->cpu = -1: the first load will set up TR.
FirstLoadCpu == None

CreateLock(t) ==
    /\ pc[t] = "mutex_lock" /\ op[t] = "create"
    /\ mutex[VcpuOf[t]] = None
    /\ vmcs[VcpuOf[t]] = None
    /\ mutex' = [mutex EXCEPT ![VcpuOf[t]] = t]
    /\ cpu' = [cpu EXCEPT ![VcpuOf[t]] = FirstLoadCpu]
    /\ Goto(t, "alloc")
    /\ UNCHANGED <<vmcs, launched, current_vmcs, allocated, hwVars, hostCpu,
                   op, pin, ipi, client>>

\* alloc_vmcs fails: out_free_vcpus is reached with the mutex dropped.
AllocFails(t) ==
    /\ pc[t] = "alloc"
    /\ mutex' = [mutex EXCEPT ![VcpuOf[t]] = None]
    /\ op' = [op EXCEPT ![t] = "failed"]
    /\ Goto(t, "free")
    /\ UNCHANGED <<vcpuVars, current_vmcs, allocated, hwVars, hostCpu,
                   pin, ipi, client>>

\* alloc_vmcs zeroes the region, vmcs_clear makes a VMCS of it on whatever
\* cpu c the task happens to be.
AllocVmcs(t, c, r) ==
    /\ pc[t] = "alloc"
    /\ CpuFree(c)
    /\ r \notin allocated
    /\ allocated' = allocated \cup {r}
    /\ hostCpu' = [hostCpu EXCEPT ![r] = None]
    /\ vmcs_clear(c, r)
    /\ vmcs' = [vmcs EXCEPT ![VcpuOf[t]] = r]
    /\ launched' = [launched EXCEPT ![VcpuOf[t]] = FALSE]
    /\ Goto(t, "get_cpu")
    /\ UNCHANGED <<cpu, mutex, current_vmcs, op, pin, ipi, client>>

-----------------------------------------------------------------------------
(* vcpu_load and __vcpu_load.                                                *)

\* vcpu_load of a vcpu that was not created: -ENOENT.  In the middle of
\* KVM_RUN the code ignores this result and goes on without the mutex, which
\* has no action here: with an Orderly client the VMCS is still there.
LoadMissing(t) ==
    /\ pc[t] = "mutex_lock" /\ op[t] \in {"run", "access"}
    /\ mutex[VcpuOf[t]] = None
    /\ vmcs[VcpuOf[t]] = None
    /\ Return(t)
    /\ UNCHANGED <<vcpuVars, mutex, current_vmcs, allocated, hwVars, hostCpu,
                   pin, ipi, client>>

LoadLock(t) ==
    /\ pc[t] = "mutex_lock" /\ op[t] \in {"run", "access", "reload"}
    /\ mutex[VcpuOf[t]] = None
    /\ vmcs[VcpuOf[t]] # None
    /\ mutex' = [mutex EXCEPT ![VcpuOf[t]] = t]
    /\ Goto(t, "get_cpu")
    /\ UNCHANGED <<vcpuVars, current_vmcs, allocated, hwVars, hostCpu,
                   op, pin, ipi, client>>

\* Mutant: no inter-processor call.
CallNobody(c) == {}

\* smp_call_function: every online cpu but the caller's.
CallTargets(c) == CPUs \ {c}

get_cpu(t, c) ==
    /\ pc[t] = "get_cpu"
    /\ CpuFree(c)
    /\ pin' = [pin EXCEPT ![t] = c]
    /\ IF cpu[VcpuOf[t]] # c
       THEN /\ ipi' = [ipi EXCEPT ![t] = CallTargets(c)]
            /\ Goto(t, "call")
       ELSE /\ Goto(t, "load")
            /\ UNCHANGED ipi
    /\ UNCHANGED <<vcpuVars, mutex, current_vmcs, allocated, hwVars, hostCpu,
                   op, client>>

\* Mutant: __vcpu_load waits for the call with interrupts disabled.
TakesIpiUnlessWaiting(c) ==
    \A u \in Tasks : pin[u] = c => pc[u] \notin {"guest", "call"}

\* An interrupt reaches cpu c when no guest runs there: it makes a guest exit.
TakesIpi(c) == \A u \in Tasks : pin[u] = c => pc[u] # "guest"

\* Mutant: current_vmcs keeps the VMCS that moves away.
ClearKeepsCurrent(t, c) ==
    /\ c \in ipi[t]
    /\ TakesIpi(c)
    /\ ipi' = [ipi EXCEPT ![t] = @ \ {c}]
    /\ IF cpu[VcpuOf[t]] = c THEN vmcs_clear(c, vmcs[VcpuOf[t]]) ELSE UNCHANGED hwVars
    /\ UNCHANGED <<vcpuVars, mutex, current_vmcs, allocated, hostCpu, pc, op, pin,
                   client>>

\* __vcpu_clear on cpu c, for the vcpu that t moves or frees.
vcpu_clear(t, c) ==
    LET v == VcpuOf[t] IN
    /\ c \in ipi[t]
    /\ TakesIpi(c)
    /\ ipi' = [ipi EXCEPT ![t] = @ \ {c}]
    /\ IF cpu[v] = c THEN vmcs_clear(c, vmcs[v]) ELSE UNCHANGED hwVars
    /\ current_vmcs' = IF current_vmcs[c] = vmcs[v]
                       THEN [current_vmcs EXCEPT ![c] = None]
                       ELSE current_vmcs
    /\ UNCHANGED <<vcpuVars, mutex, allocated, hostCpu, pc, op, pin, client>>

\* Mutant: vcpu->launched survives the vmclear.
CalledKeepsLaunched(t) ==
    /\ pc[t] = "call"
    /\ ipi[t] = {}
    /\ Goto(t, "load")
    /\ UNCHANGED <<vcpuVars, mutex, current_vmcs, allocated, hwVars, hostCpu,
                   op, pin, ipi, client>>

\* smp_call_function waited for every cpu; the VMCS is clear now.
Called(t) ==
    /\ pc[t] = "call"
    /\ ipi[t] = {}
    /\ launched' = [launched EXCEPT ![VcpuOf[t]] = FALSE]
    /\ Goto(t, "load")
    /\ UNCHANGED <<vmcs, cpu, mutex, current_vmcs, allocated, hwVars, hostCpu,
                   op, pin, ipi, client>>

\* current_vmcs is set before the vmptrld; an interrupt may fall in between.
SetCurrent(t) ==
    /\ pc[t] = "load"
    /\ IF current_vmcs[pin[t]] # vmcs[VcpuOf[t]]
       THEN /\ current_vmcs' = [current_vmcs EXCEPT ![pin[t]] = vmcs[VcpuOf[t]]]
            /\ Goto(t, "vmptrld")
       ELSE /\ Goto(t, "host")
            /\ UNCHANGED current_vmcs
    /\ UNCHANGED <<vcpuVars, mutex, allocated, hwVars, hostCpu,
                   op, pin, ipi, client>>

LoadPointer(t) ==
    /\ pc[t] = "vmptrld"
    /\ vmptrld(pin[t], vmcs[VcpuOf[t]])
    /\ Goto(t, "host")
    /\ UNCHANGED <<vcpuVars, mutex, current_vmcs, allocated, hostCpu,
                   op, pin, ipi, client>>

\* TR, GDT and SYSENTER_ESP of this cpu go into whatever VMCS is current.
SetHost(t) ==
    /\ pc[t] = "host"
    /\ cpu' = [cpu EXCEPT ![VcpuOf[t]] = pin[t]]
    /\ hostCpu' = IF cpu[VcpuOf[t]] # pin[t]
                  THEN [hostCpu EXCEPT ![hwCurrent[pin[t]]] = pin[t]]
                  ELSE hostCpu
    /\ Goto(t, "loaded")
    /\ UNCHANGED <<vmcs, launched, mutex, current_vmcs, allocated, hwVars,
                   op, pin, ipi, client>>

-----------------------------------------------------------------------------
(* With the vcpu loaded.                                                     *)

\* kvm_vcpu_setup returns 0 or an error; an ioctl reads and writes the VMCS.
UseVmcs(t) ==
    /\ pc[t] = "loaded"
    /\ \/ /\ op[t] = "create"
          /\ \E o \in {"created", "failed"} : op' = [op EXCEPT ![t] = o]
       \/ /\ op[t] = "access"
          /\ UNCHANGED op
    /\ Goto(t, "put")
    /\ UNCHANGED <<vcpuVars, mutex, current_vmcs, allocated, hwVars, hostCpu,
                   pin, ipi, client>>

\* vmlaunch when vcpu->launched is 0, vmresume otherwise; the instruction
\* fails unless the current VMCS has the matching launch state.
EntryWorks(t) ==
    /\ hwCurrent[pin[t]] # None
    /\ hwLaunched[hwCurrent[pin[t]]] = launched[VcpuOf[t]]

VmEntry(t) ==
    /\ pc[t] = "loaded" /\ op[t] \in {"run", "reload"}
    /\ EntryWorks(t)
    /\ hwLaunched' = [hwLaunched EXCEPT ![hwCurrent[pin[t]]] = TRUE]
    /\ Goto(t, "guest")
    /\ UNCHANGED <<vcpuVars, mutex, current_vmcs, allocated, hwCurrent,
                   hwActive, hostCpu, op, pin, ipi, client>>

\* Entry stops while loading the guest state: reported as a vm exit, so
\* launched is set, but the VMCS keeps its launch state.
VmEntryInvalid(t) ==
    /\ pc[t] = "loaded" /\ op[t] \in {"run", "reload"}
    /\ EntryWorks(t)
    /\ launched' = [launched EXCEPT ![VcpuOf[t]] = TRUE]
    /\ op' = [op EXCEPT ![t] = "invalid"]
    /\ client' = [client EXCEPT ![VcpuOf[t]] = "doomed"]
    /\ Goto(t, "put")
    /\ UNCHANGED <<vmcs, cpu, mutex, current_vmcs, allocated, hwVars, hostCpu,
                   pin, ipi>>

\* launched = 1, then kvm_handle_exit: 1 goes round the loop, 0 to user space.
VmExit(t) ==
    /\ pc[t] = "guest"
    /\ launched' = [launched EXCEPT ![VcpuOf[t]] = TRUE]
    /\ \E o \in {"reload", "exited"} : op' = [op EXCEPT ![t] = o]
    /\ Goto(t, "put")
    /\ UNCHANGED <<vmcs, cpu, mutex, current_vmcs, allocated, hwVars, hostCpu,
                   pin, ipi, client>>

-----------------------------------------------------------------------------
(* vcpu_put, the way round the loop of KVM_RUN, and the error paths.         *)

put_cpu(t) ==
    /\ pc[t] = "put"
    /\ pin' = [pin EXCEPT ![t] = None]
    /\ Goto(t, "mutex_unlock")
    /\ UNCHANGED <<vcpuVars, mutex, current_vmcs, allocated, hwVars, hostCpu,
                   op, ipi, client>>

\* Round the loop, to out_free_vcpus, or back to user space.
mutex_unlock(t) ==
    /\ pc[t] = "mutex_unlock"
    /\ mutex' = [mutex EXCEPT ![VcpuOf[t]] = None]
    /\ \/ op[t] = "reload" /\ Goto(t, "resched") /\ UNCHANGED op
       \/ op[t] = "failed" /\ Goto(t, "free") /\ UNCHANGED op
       \/ op[t] \notin {"reload", "failed"} /\ Return(t)
    /\ UNCHANGED <<vcpuVars, current_vmcs, allocated, hwVars, hostCpu,
                   pin, ipi, client>>

\* -EINTR when a signal is pending, otherwise vcpu_load again.
Resched(t) ==
    /\ pc[t] = "resched"
    /\ \/ Return(t)
       \/ Goto(t, "mutex_lock") /\ UNCHANGED op
    /\ UNCHANGED <<vcpuVars, mutex, current_vmcs, allocated, hwVars, hostCpu,
                   pin, ipi, client>>

\* Release closes the file, a failed create returns with it open.
FreeReturns(t) ==
    /\ Return(t)
    /\ client' = IF op[t] = "release"
                 THEN [client EXCEPT ![VcpuOf[t]] = "closed"] ELSE client

\* kvm_free_vmcs of a vcpu without a VMCS.
FreeNothing(t) ==
    /\ pc[t] = "free"
    /\ vmcs[VcpuOf[t]] = None
    /\ FreeReturns(t)
    /\ UNCHANGED <<vcpuVars, mutex, current_vmcs, allocated, hwVars, hostCpu,
                   pin, ipi>>

\* Mutant: smp_call_function instead of on_each_cpu.
FreeOthers(c) == CPUs \ {c}

\* on_each_cpu: the caller's cpu c too.
FreeTargets(c) == CPUs

FreeCall(t, c) ==
    /\ pc[t] = "free"
    /\ vmcs[VcpuOf[t]] # None
    /\ CpuFree(c)
    /\ pin' = [pin EXCEPT ![t] = c]
    /\ ipi' = [ipi EXCEPT ![t] = FreeTargets(c)]
    /\ Goto(t, "free_call")
    /\ UNCHANGED <<vcpuVars, mutex, current_vmcs, allocated, hwVars, hostCpu,
                   op, client>>

free_vmcs(t) ==
    /\ pc[t] = "free_call"
    /\ ipi[t] = {}
    /\ allocated' = allocated \ {vmcs[VcpuOf[t]]}
    /\ vmcs' = [vmcs EXCEPT ![VcpuOf[t]] = None]
    /\ pin' = [pin EXCEPT ![t] = None]
    /\ FreeReturns(t)
    /\ UNCHANGED <<cpu, launched, mutex, current_vmcs, hwVars, hostCpu,
                   ipi>>

-----------------------------------------------------------------------------
Task(t) ==
    \/ CreateExists(t) \/ CreateLock(t) \/ AllocFails(t)
    \/ \E c \in CPUs, r \in Regions : AllocVmcs(t, c, r)
    \/ LoadMissing(t) \/ LoadLock(t)
    \/ \E c \in CPUs : get_cpu(t, c) \/ vcpu_clear(t, c) \/ FreeCall(t, c)
    \/ Called(t) \/ SetCurrent(t) \/ LoadPointer(t) \/ SetHost(t)
    \/ UseVmcs(t) \/ VmEntry(t) \/ VmEntryInvalid(t) \/ VmExit(t)
    \/ put_cpu(t) \/ mutex_unlock(t) \/ Resched(t)
    \/ FreeNothing(t) \/ free_vmcs(t)

Kernel ==
    \/ \E v \in Vcpus : kvm_dev_open(v)
    \/ \E t \in Tasks : kvm_dev_release(t) \/ Task(t)

\* An entry that fails for its launch state has no action: LaunchStateKnown.
Next == Kernel \/ \E t \in Tasks : LibkvmCall(t)

Spec == Init /\ [][Next]_vars

\* A task's pending interrupts are taken if they can be again and again (a guest
\* exits on one, the host re-enables interrupts on every exit), and a task with
\* preemption disabled runs on.
Fairness ==
    \A t \in Tasks :
        /\ SF_vars(\E c \in CPUs : vcpu_clear(t, c))
        /\ WF_vars(VmExit(t))
        /\ WF_vars(Called(t) \/ SetCurrent(t) \/ LoadPointer(t) \/ SetHost(t))

FairSpec == Spec /\ Fairness

-----------------------------------------------------------------------------
(* Properties.                                                               *)

Loaded(t) == pc[t] \in {"loaded", "guest", "put"}

\* The VMCS of a vcpu is never active on two physical cpus: __vcpu_load
\* flushes it from the old one before vmptrld on the new one.
ActiveOnOneCpu ==
    \A r \in Regions : \A c, d \in hwActive[r] : c = d

\* Between vcpu_load and vcpu_put every vmread, vmwrite and VM entry of the
\* task reaches the VMCS of its own vcpu, although current_vmcs lets
\* __vcpu_load skip the vmptrld.
LoadedIsCurrent ==
    \A t \in Tasks : Loaded(t) => hwCurrent[pin[t]] = vmcs[VcpuOf[t]]

\* vcpu->launched selects the instruction the VMCS can be entered with, over
\* migrations and other ioctls in between: KVM_RUN never reports
\* KVM_EXIT_TYPE_FAIL_ENTRY for the launch state.
LaunchStateKnown ==
    \A t \in Tasks :
        pc[t] = "loaded" /\ op[t] \in {"run", "reload"} => EntryWorks(t)

\* When a guest runs on a cpu, a VM exit reloads the TR, GDT and SYSENTER_ESP
\* of that cpu and of no other.
HostStateOfThisCpu ==
    \A t \in Tasks : Loaded(t) => hostCpu[vmcs[VcpuOf[t]]] = pin[t]

\* Neither the per-cpu cache nor the processor refers to a freed VMCS page,
\* which could come back as the VMCS of another vcpu.
NoFreedCurrent ==
    \A c \in CPUs : {current_vmcs[c], hwCurrent[c]} \subseteq allocated \cup {None}

\* free_vmcs gives back a page only after the processor let go of it: a VMCS
\* still active would be written back over the page's next use.
FreedWhenInactive ==
    [][\A r \in allocated : r \notin allocated' => hwActive[r] = {}]_vars

\* Cpus that call each other with smp_call_function(wait) do not wait for each
\* other: a load that started gets through.
LoadCompletes ==
    \A t \in Tasks : (pc[t] = "call") ~> (pc[t] = "loaded")
=============================================================================
