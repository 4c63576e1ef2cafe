------------------------ MODULE VmcsPlacementProofs ------------------------
(***************************************************************************)
(* The inductive invariant of VmcsPlacement and the proofs that rest on    *)
(* it, for every number of cpus, virtual machines, threads and pages.      *)
(***************************************************************************)
EXTENDS VmcsPlacement, TLAPS

Waiting == {"call", "free_call"}

\* vcpu->mutex is held exactly at the program points between mutex_lock and
\* mutex_unlock.
MutexInv ==
    \A t \in Tasks, v \in Vcpus :
        mutex[v] = t <=> pc[t] \in Holding /\ VcpuOf[t] = v

\* A cpu carries at most one task that disabled preemption.
PinInv ==
    /\ \A t \in Tasks : pin[t] # None <=> pc[t] \in Pinned \cup {"free_call"}
    /\ \A t, u \in Tasks : pin[t] = pin[u] /\ pin[t] # None => t = u
    /\ \A t \in Tasks : pc[t] \notin Waiting => ipi[t] = {}

\* Which ioctl a task can be in at a program point.
OpInv ==
    \A t \in Tasks :
        /\ pc[t] = "user" <=> op[t] = "none"
        /\ pc[t] = "mutex_lock" => op[t] \in {"create", "run", "access", "reload"}
        /\ pc[t] = "alloc" => op[t] = "create"
        /\ pc[t] = "resched" => op[t] = "reload"
        /\ pc[t] = "guest" => op[t] \in {"run", "reload"}
        /\ pc[t] \in Freeing <=> op[t] \in {"failed", "release"}
                                 /\ pc[t] \notin Holding
        /\ pc[t] \in Holding => op[t] # "release"

\* KVM_CREATE_VCPU and the release of the file are alone on their vcpu, and
\* KVM_RUN is the only KVM_RUN.
AloneInv ==
    /\ \A t, u \in Tasks :
        t # u /\ VcpuOf[t] = VcpuOf[u] /\ op[t] # "none" /\ op[u] # "none"
            => /\ op[t] \notin CreateOps \cup {"release"}
               /\ ~(op[t] \in RunOps /\ op[u] \in RunOps)
    /\ \A t \in Tasks : op[t] # "none" => client[VcpuOf[t]] # "closed"
    /\ \A t \in Tasks :
        op[t] \in {"run", "reload"} => client[VcpuOf[t]] = "open"

\* A vcpu owns its VMCS page alone, and has one from the allocation on.
PageInv ==
    /\ \A v \in Vcpus : vmcs[v] # None => vmcs[v] \in allocated
    /\ \A v, w \in Vcpus : vmcs[v] = vmcs[w] /\ vmcs[v] # None => v = w
    /\ \A r \in allocated : \E v \in Vcpus : vmcs[v] = r
    /\ \A v \in Vcpus : client[v] = "closed" => vmcs[v] = None
    /\ \A t \in Tasks :
        /\ pc[t] = "alloc" => vmcs[VcpuOf[t]] = None /\ cpu[VcpuOf[t]] = None
        /\ pc[t] \in (Holding \cup {"resched", "free_call"}) \ {"alloc"}
                => vmcs[VcpuOf[t]] # None
        /\ pc[t] = "mutex_lock" /\ op[t] = "reload" => vmcs[VcpuOf[t]] # None

\* Outside the move to a new cpu a VMCS is active at most on vcpu->cpu.
HomeInv ==
    /\ \A r \in Regions : r \notin allocated => hwActive[r] = {}
    /\ \A v \in Vcpus :
        vmcs[v] # None /\ (\A t \in Tasks : VcpuOf[t] = v => pc[t] # "host")
            => hwActive[vmcs[v]] \subseteq {cpu[v]}

\* During the calls it is active only where the call did not run yet, and
\* after them, on the way to a new cpu, nowhere.
MovingInv ==
    \A t \in Tasks :
        LET v == VcpuOf[t] IN
        /\ pc[t] \in Waiting => hwActive[vmcs[v]] \subseteq ipi[t]
        /\ pc[t] = "call" => cpu[v] # pin[t]
        /\ pc[t] \in {"load", "vmptrld"} /\ cpu[v] # pin[t]
                => hwActive[vmcs[v]] = {}
        /\ pc[t] = "host" => hwActive[vmcs[v]] \subseteq {pin[t]}
        /\ Loaded(t) => cpu[v] = pin[t]

\* current_vmcs tells what the processor has loaded, but for the moment
\* between the assignment and the vmptrld.
CurrentInv ==
    /\ \A c \in CPUs : hwCurrent[c] # None => c \in hwActive[hwCurrent[c]]
    /\ \A c \in CPUs :
        (\A t \in Tasks : pin[t] = c => pc[t] # "vmptrld")
            => current_vmcs[c] = hwCurrent[c]

\* What the task in __vcpu_load finds loaded.
LoadingInv ==
    \A t \in Tasks :
        /\ pc[t] = "vmptrld" => current_vmcs[pin[t]] = vmcs[VcpuOf[t]]
        /\ pc[t] = "host" \/ Loaded(t) => hwCurrent[pin[t]] = vmcs[VcpuOf[t]]

\* vcpu->launched is the launch state, but while a call clears the VMCS, while
\* the guest runs and after an entry with invalid guest state.
LaunchInv ==
    /\ \A v \in Vcpus :
        /\ vmcs[v] # None
        /\ client[v] = "open"
        /\ \A t \in Tasks : VcpuOf[t] = v => pc[t] \notin Waiting \cup {"guest"}
        => (launched[v] <=> hwLaunched[vmcs[v]])
    /\ \A v \in Vcpus :
        vmcs[v] # None /\ cpu[v] = None => ~hwLaunched[vmcs[v]]
    /\ \A t \in Tasks :
        /\ pc[t] = "call" /\ cpu[VcpuOf[t]] \notin ipi[t]
                => ~hwLaunched[vmcs[VcpuOf[t]]]
        /\ pc[t] = "guest" => hwLaunched[vmcs[VcpuOf[t]]]

\* The host state of a VMCS is that of vcpu->cpu.
HostInv ==
    \A v \in Vcpus : vmcs[v] # None => hostCpu[vmcs[v]] = cpu[v]

IInv ==
    /\ TypeOK /\ MutexInv /\ PinInv /\ OpInv /\ AloneInv /\ PageInv
    /\ HomeInv /\ MovingInv /\ CurrentInv /\ LoadingInv /\ LaunchInv /\ HostInv

USE Cpu0Assumption, VcpuOfAssumption, NoneAssumption
    DEF IInv, Goto, vcpuVars, hwVars, Pinned, Holding, Freeing, PCs, Ops, CreateOps,
        RunOps, Phases, Waiting

\* kvm_dev_open touches only a vcpu that is not in use.
LEMMA Step_kvm_dev_open ==
    ASSUME IInv, NEW v \in Vcpus,
           kvm_dev_open(v)
    PROVE  IInv'
<1> USE DEF kvm_dev_open
<1>1. TypeOK'
  BY DEF TypeOK
<1>2. MutexInv' /\ PinInv' /\ OpInv' /\ AloneInv'
  BY DEF TypeOK, MutexInv, PinInv, OpInv, AloneInv
<1>3. PageInv' /\ HostInv'
  BY DEF TypeOK, MutexInv, PinInv, OpInv, AloneInv, PageInv, HostInv,
         LoadingInv, Loaded
<1>4. HomeInv' /\ MovingInv'
  BY DEF TypeOK, MutexInv, PinInv, OpInv, AloneInv, PageInv, HomeInv, MovingInv,
         Loaded
<1>5. CurrentInv' /\ LoadingInv'
  BY DEF TypeOK, MutexInv, PinInv, OpInv, AloneInv, PageInv, HomeInv,
         CurrentInv, LoadingInv, Loaded
<1>6. LaunchInv'
  BY DEF TypeOK, MutexInv, PinInv, OpInv, AloneInv, PageInv, HomeInv, MovingInv,
         LoadingInv, LaunchInv, Loaded
<1> QED BY <1>1, <1>2, <1>3, <1>4, <1>5, <1>6

\* kvm_dev_release starts with nobody else on the file.
LEMMA Step_kvm_dev_release ==
    ASSUME IInv, NEW t \in Tasks,
           kvm_dev_release(t)
    PROVE  IInv'
<1> USE DEF kvm_dev_release, Enter, Inside
<1>1. TypeOK'
  BY DEF TypeOK
<1>2. MutexInv' /\ PinInv' /\ OpInv' /\ AloneInv'
  BY DEF TypeOK, MutexInv, PinInv, OpInv, AloneInv
<1>3. PageInv' /\ HostInv'
  BY DEF TypeOK, MutexInv, PinInv, OpInv, AloneInv, PageInv, HostInv,
         LoadingInv, Loaded
<1>4. HomeInv'
  BY DEF TypeOK, MutexInv, PinInv, OpInv, AloneInv, PageInv, HomeInv, MovingInv,
         Loaded
<1>5. MovingInv'
  BY DEF TypeOK, MutexInv, PinInv, OpInv, AloneInv, PageInv, HomeInv, MovingInv,
         Loaded
<1>6. CurrentInv'
  BY DEF TypeOK, MutexInv, PinInv, OpInv, AloneInv, PageInv, HomeInv,
         CurrentInv, LoadingInv, Loaded
<1>7. LoadingInv'
  BY DEF TypeOK, MutexInv, PinInv, OpInv, AloneInv, PageInv, HomeInv,
         CurrentInv, LoadingInv, Loaded
<1>8. LaunchInv'
  BY DEF TypeOK, MutexInv, PinInv, OpInv, AloneInv, PageInv, HomeInv, MovingInv,
         LoadingInv, LaunchInv, Loaded
<1> QED BY <1>1, <1>2, <1>3, <1>4, <1>5, <1>6, <1>7, <1>8

\* A client like libkvm starts an ioctl only where AloneInv allows it.
LEMMA Step_LibkvmCall ==
    ASSUME IInv, NEW t \in Tasks,
           LibkvmCall(t)
    PROVE  IInv'
<1> USE DEF LibkvmCall, Call, Enter, Orderly, Inside
<1>1. TypeOK'
  BY DEF TypeOK
<1>2. MutexInv'
  BY DEF TypeOK, MutexInv
<1>3. PinInv'
  BY DEF TypeOK, PinInv
<1>4. OpInv'
  BY DEF TypeOK, OpInv
<1>5. AloneInv'
  BY DEF TypeOK, OpInv, AloneInv
<1>6. PageInv' /\ HostInv'
  BY DEF TypeOK, MutexInv, PinInv, OpInv, AloneInv, PageInv, HostInv,
         LoadingInv, Loaded
<1>7. HomeInv'
  BY DEF TypeOK, MutexInv, PinInv, OpInv, AloneInv, PageInv, HomeInv, MovingInv,
         Loaded
<1>8. MovingInv'
  BY DEF TypeOK, MutexInv, PinInv, OpInv, AloneInv, PageInv, HomeInv, MovingInv,
         Loaded
<1>9. CurrentInv'
  BY DEF TypeOK, MutexInv, PinInv, OpInv, AloneInv, PageInv, HomeInv,
         CurrentInv, LoadingInv, Loaded
<1>10. LoadingInv'
  BY DEF TypeOK, MutexInv, PinInv, OpInv, AloneInv, PageInv, HomeInv,
         CurrentInv, LoadingInv, Loaded
<1>11. LaunchInv'
  BY DEF TypeOK, MutexInv, PinInv, OpInv, AloneInv, PageInv, HomeInv, MovingInv,
         LoadingInv, LaunchInv, Loaded
<1> QED BY <1>1, <1>2, <1>3, <1>4, <1>5, <1>6, <1>7, <1>8, <1>9, <1>10, <1>11

\* KVM_CREATE_VCPU that returns -EEXIST changes nothing.
LEMMA Step_CreateExists ==
    ASSUME IInv, NEW t \in Tasks,
           CreateExists(t)
    PROVE  IInv'
<1> USE DEF CreateExists, Return
<1>1. TypeOK'
  BY DEF TypeOK
<1>2. MutexInv' /\ PinInv' /\ OpInv' /\ AloneInv'
  BY DEF TypeOK, MutexInv, PinInv, OpInv, AloneInv
<1>3. PageInv' /\ HostInv'
  BY DEF TypeOK, MutexInv, PinInv, OpInv, AloneInv, PageInv, HostInv,
         LoadingInv, Loaded
<1>4. HomeInv' /\ MovingInv'
  BY DEF TypeOK, MutexInv, PinInv, OpInv, AloneInv, PageInv, HomeInv, MovingInv,
         Loaded
<1>5. CurrentInv' /\ LoadingInv'
  BY DEF TypeOK, MutexInv, PinInv, OpInv, AloneInv, PageInv, HomeInv,
         CurrentInv, LoadingInv, Loaded
<1>6. LaunchInv'
  BY DEF TypeOK, MutexInv, PinInv, OpInv, AloneInv, PageInv, HomeInv, MovingInv,
         LoadingInv, LaunchInv, Loaded
<1> QED BY <1>1, <1>2, <1>3, <1>4, <1>5, <1>6

\* KVM_CREATE_VCPU resets vcpu->cpu of a vcpu that has no VMCS yet.
LEMMA Step_CreateLock ==
    ASSUME IInv, NEW t \in Tasks,
           CreateLock(t)
    PROVE  IInv'
<1> USE DEF CreateLock, FirstLoadCpu
<1>1. TypeOK'
  BY DEF TypeOK
<1>2. MutexInv' /\ PinInv' /\ OpInv' /\ AloneInv'
  BY DEF TypeOK, MutexInv, PinInv, OpInv, AloneInv
<1>3. PageInv' /\ HostInv'
  BY DEF TypeOK, MutexInv, PinInv, OpInv, AloneInv, PageInv, HostInv,
         LoadingInv, Loaded
<1>4. HomeInv' /\ MovingInv'
  BY DEF TypeOK, MutexInv, PinInv, OpInv, AloneInv, PageInv, HomeInv, MovingInv,
         Loaded
<1>5. CurrentInv' /\ LoadingInv'
  BY DEF TypeOK, MutexInv, PinInv, OpInv, AloneInv, PageInv, HomeInv,
         CurrentInv, LoadingInv, Loaded
<1>6. LaunchInv'
  BY DEF TypeOK, MutexInv, PinInv, OpInv, AloneInv, PageInv, HomeInv, MovingInv,
         LoadingInv, LaunchInv, Loaded
<1> QED BY <1>1, <1>2, <1>3, <1>4, <1>5, <1>6

\* A failed alloc_vmcs drops the mutex and goes on to kvm_free_vcpu.
LEMMA Step_AllocFails ==
    ASSUME IInv, NEW t \in Tasks,
           AllocFails(t)
    PROVE  IInv'
<1> USE DEF AllocFails
<1>1. TypeOK'
  BY DEF TypeOK
<1>2. MutexInv' /\ PinInv' /\ OpInv' /\ AloneInv'
  BY DEF TypeOK, MutexInv, PinInv, OpInv, AloneInv
<1>3. PageInv' /\ HostInv'
  BY DEF TypeOK, MutexInv, PinInv, OpInv, AloneInv, PageInv, HostInv,
         LoadingInv, Loaded
<1>4. HomeInv' /\ MovingInv'
  BY DEF TypeOK, MutexInv, PinInv, OpInv, AloneInv, PageInv, HomeInv, MovingInv,
         Loaded
<1>5. CurrentInv' /\ LoadingInv'
  BY DEF TypeOK, MutexInv, PinInv, OpInv, AloneInv, PageInv, HomeInv,
         CurrentInv, LoadingInv, Loaded
<1>6. LaunchInv'
  BY DEF TypeOK, MutexInv, PinInv, OpInv, AloneInv, PageInv, HomeInv, MovingInv,
         LoadingInv, LaunchInv, Loaded
<1> QED BY <1>1, <1>2, <1>3, <1>4, <1>5, <1>6

\* A new VMCS is on no cpu: a page that is not allocated is active nowhere.
LEMMA Step_AllocVmcs ==
    ASSUME IInv, NEW t \in Tasks, NEW c \in CPUs, NEW r \in Regions,
           AllocVmcs(t, c, r)
    PROVE  IInv'
<1> USE DEF AllocVmcs, vmcs_clear, CpuFree
<1>1. TypeOK'
  BY DEF TypeOK
<1>2. MutexInv' /\ PinInv' /\ OpInv' /\ AloneInv'
  BY DEF TypeOK, MutexInv, PinInv, OpInv, AloneInv
<1>3. PageInv' /\ HostInv'
  BY DEF TypeOK, MutexInv, PinInv, OpInv, AloneInv, PageInv, HostInv,
         LoadingInv, Loaded
<1>4. HomeInv'
  BY DEF TypeOK, MutexInv, PinInv, OpInv, AloneInv, PageInv, HomeInv, MovingInv,
         Loaded
<1>5. MovingInv'
  BY DEF TypeOK, MutexInv, PinInv, OpInv, AloneInv, PageInv, HomeInv, MovingInv,
         Loaded
<1>6. CurrentInv'
  BY DEF TypeOK, MutexInv, PinInv, OpInv, AloneInv, PageInv, HomeInv,
         CurrentInv, LoadingInv, Loaded
<1>7. LoadingInv'
  BY DEF TypeOK, MutexInv, PinInv, OpInv, AloneInv, PageInv, HomeInv,
         CurrentInv, LoadingInv, Loaded
<1>8. LaunchInv'
  BY DEF TypeOK, MutexInv, PinInv, OpInv, AloneInv, PageInv, HomeInv, MovingInv,
         LoadingInv, LaunchInv, Loaded
<1> QED BY <1>1, <1>2, <1>3, <1>4, <1>5, <1>6, <1>7, <1>8

\* vcpu_load of a vcpu without a VMCS changes nothing.
LEMMA Step_LoadMissing ==
    ASSUME IInv, NEW t \in Tasks,
           LoadMissing(t)
    PROVE  IInv'
<1> USE DEF LoadMissing, Return
<1>1. TypeOK'
  BY DEF TypeOK
<1>2. MutexInv' /\ PinInv' /\ OpInv' /\ AloneInv'
  BY SMTT(30) DEF TypeOK, MutexInv, PinInv, OpInv, AloneInv
<1>3. PageInv' /\ HostInv'
  BY SMTT(30) DEF TypeOK, MutexInv, PinInv, OpInv, AloneInv, PageInv, HostInv,
         LoadingInv, Loaded
<1>4. HomeInv'
  BY SMTT(30) DEF TypeOK, MutexInv, PinInv, OpInv, AloneInv, PageInv, HomeInv,
         MovingInv, Loaded
<1>5. MovingInv'
  BY SMTT(30) DEF TypeOK, MutexInv, PinInv, OpInv, AloneInv, PageInv, HomeInv,
         MovingInv, Loaded
<1>6. CurrentInv' /\ LoadingInv'
  BY SMTT(30) DEF TypeOK, MutexInv, PinInv, OpInv, AloneInv, PageInv, HomeInv,
         CurrentInv, LoadingInv, Loaded
<1>7. LaunchInv'
  BY SMTT(30) DEF TypeOK, MutexInv, PinInv, OpInv, AloneInv, PageInv, HomeInv,
         MovingInv, LoadingInv, LaunchInv, Loaded
<1> QED BY <1>1, <1>2, <1>3, <1>4, <1>5, <1>6, <1>7

\* vcpu_load takes the mutex of a vcpu that has a VMCS.
LEMMA Step_LoadLock ==
    ASSUME IInv, NEW t \in Tasks,
           LoadLock(t)
    PROVE  IInv'
<1> USE DEF LoadLock
<1>1. TypeOK'
  BY DEF TypeOK
<1>2. MutexInv' /\ PinInv' /\ OpInv' /\ AloneInv'
  BY DEF TypeOK, MutexInv, PinInv, OpInv, AloneInv
<1>3. PageInv' /\ HostInv'
  BY DEF TypeOK, MutexInv, PinInv, OpInv, AloneInv, PageInv, HostInv,
         LoadingInv, Loaded
<1>4. HomeInv'
  BY DEF TypeOK, MutexInv, PinInv, OpInv, AloneInv, PageInv, HomeInv, MovingInv,
         Loaded
<1>5. MovingInv'
  BY DEF TypeOK, MutexInv, PinInv, OpInv, AloneInv, PageInv, HomeInv, MovingInv,
         Loaded
<1>6. CurrentInv'
  BY DEF TypeOK, MutexInv, PinInv, OpInv, AloneInv, PageInv, HomeInv,
         CurrentInv, LoadingInv, Loaded
<1>7. LoadingInv'
  BY DEF TypeOK, MutexInv, PinInv, OpInv, AloneInv, PageInv, HomeInv,
         CurrentInv, LoadingInv, Loaded
<1>8. LaunchInv'
  BY DEF TypeOK, MutexInv, PinInv, OpInv, AloneInv, PageInv, HomeInv, MovingInv,
         LoadingInv, LaunchInv, Loaded
<1> QED BY <1>1, <1>2, <1>3, <1>4, <1>5, <1>6, <1>7, <1>8

\* After get_cpu the VMCS is at home, or the calls to flush it are due.
LEMMA Step_get_cpu ==
    ASSUME IInv, NEW t \in Tasks, NEW c \in CPUs,
           get_cpu(t, c)
    PROVE  IInv'
<1> USE DEF get_cpu, CpuFree, CallTargets
<1>1. TypeOK'
  BY DEF TypeOK
<1>2. MutexInv'
  BY DEF TypeOK, MutexInv
<1>3. PinInv'
  BY SMTT(30) DEF TypeOK, PinInv
<1>4. OpInv'
  BY DEF TypeOK, OpInv
<1>5. AloneInv'
  BY DEF TypeOK, OpInv, AloneInv
<1>6. PageInv' /\ HostInv'
  BY SMTT(30) DEF TypeOK, MutexInv, PinInv, OpInv, AloneInv, PageInv, HostInv,
         LoadingInv, Loaded
<1>7. HomeInv'
  BY SMTT(30) DEF TypeOK, MutexInv, PinInv, OpInv, AloneInv, PageInv, HomeInv,
         MovingInv, Loaded
<1>8. MovingInv'
  BY SMTT(30) DEF TypeOK, MutexInv, PinInv, OpInv, AloneInv, PageInv, HomeInv,
         MovingInv, Loaded
<1>9. CurrentInv'
  BY SMTT(30) DEF TypeOK, MutexInv, PinInv, OpInv, AloneInv, PageInv, HomeInv,
         CurrentInv, LoadingInv, Loaded
<1>10. LoadingInv'
  BY SMTT(30) DEF TypeOK, MutexInv, PinInv, OpInv, AloneInv, PageInv, HomeInv,
         CurrentInv, LoadingInv, Loaded
<1>11. LaunchInv'
  BY SMTT(30) DEF TypeOK, MutexInv, PinInv, OpInv, AloneInv, PageInv, HomeInv,
         MovingInv, LoadingInv, LaunchInv, Loaded
<1> QED BY <1>1, <1>2, <1>3, <1>4, <1>5, <1>6, <1>7, <1>8, <1>9, <1>10, <1>11

\* The call may reach a cpu between any two steps of the task that runs there.
\* It never takes away a VMCS in use: only the page r of t's own vcpu is
\* cleared, and no other task is past mutex_lock on that vcpu.
LEMMA Step_vcpu_clear ==
    ASSUME IInv, NEW t \in Tasks, NEW c \in CPUs,
           vcpu_clear(t, c)
    PROVE  IInv'
<1> DEFINE v == VcpuOf[t]
           r == vmcs[v]
<1>1. /\ v \in Vcpus /\ r \in Regions /\ r \in allocated
      /\ pc[t] \in Waiting /\ c \in ipi[t]
  BY DEF vcpu_clear, TypeOK, PinInv, PageInv
<1>2. \A u \in Tasks : u # t /\ VcpuOf[u] = v => pc[u] \in {"user", "mutex_lock", "resched"}
  BY <1>1 DEF TypeOK, MutexInv, OpInv, AloneInv
<1>3. hwActive[r] \subseteq {cpu[v]}
  BY <1>1, <1>2 DEF HomeInv, TypeOK
<1>4. hwCurrent[c] = r => cpu[v] = c
  BY <1>1, <1>3 DEF CurrentInv, TypeOK
<1>5. current_vmcs[c] = r => hwCurrent[c] = r
  <2>1. \A u \in Tasks : pc[u] = "vmptrld" /\ pin[u] = c => current_vmcs[c] # r
    BY <1>1, <1>2, SMTT(30) DEF LoadingInv, PageInv, TypeOK
  <2> QED BY <2>1 DEF CurrentInv
<1>6. hwCurrent[c] = r => current_vmcs[c] = r \/ \E u \in Tasks : pc[u] = "vmptrld" /\ pin[u] = c
  BY DEF CurrentInv
<1>7. /\ hwActive' = [hwActive EXCEPT ![r] = @ \ {c}]
      /\ hwCurrent' = IF hwCurrent[c] = r THEN [hwCurrent EXCEPT ![c] = None]
                      ELSE hwCurrent
      /\ hwLaunched' = IF cpu[v] = c THEN [hwLaunched EXCEPT ![r] = FALSE]
                       ELSE hwLaunched
  <2>1. CASE cpu[v] = c
    BY <2>1 DEF vcpu_clear, vmcs_clear
  <2>2. CASE cpu[v] # c
    BY <1>1, <1>3, <1>4, <2>2 DEF vcpu_clear, hwVars, TypeOK
  <2> QED BY <2>1, <2>2
<1>8. /\ ipi' = [ipi EXCEPT ![t] = @ \ {c}]
      /\ current_vmcs' = IF current_vmcs[c] = r
                         THEN [current_vmcs EXCEPT ![c] = None] ELSE current_vmcs
      /\ UNCHANGED <<vmcs, cpu, launched, mutex, allocated, hostCpu, pc, op,
                     pin, client>>
  BY DEF vcpu_clear
<1> HIDE DEF v, r
<1>10. TypeOK'
  BY <1>1, <1>7, <1>8 DEF TypeOK
<1>11. MutexInv' /\ PinInv' /\ OpInv' /\ AloneInv' /\ PageInv' /\ HostInv'
  BY <1>1, <1>8 DEF MutexInv, PinInv, OpInv, AloneInv, PageInv, HostInv, TypeOK
<1>12. HomeInv'
  BY <1>1, <1>7, <1>8 DEF HomeInv, TypeOK
<1>13. MovingInv'
  BY <1>1, <1>2, <1>7, <1>8 DEF MovingInv, PageInv, Loaded, TypeOK, v, r
<1>14. CurrentInv'
  <2>1. ASSUME NEW d \in CPUs, hwCurrent'[d] # None
        PROVE  d \in hwActive'[hwCurrent'[d]]
    BY <1>1, <1>7, <2>1 DEF CurrentInv, TypeOK
  <2>2. ASSUME NEW d \in CPUs, \A u \in Tasks : pin'[u] = d => pc'[u] # "vmptrld"
        PROVE  current_vmcs'[d] = hwCurrent'[d]
    BY <1>5, <1>6, <1>7, <1>8, <2>2 DEF CurrentInv, TypeOK
  <2> QED BY <2>1, <2>2 DEF CurrentInv
<1>15. LoadingInv'
  <2>1. \A u \in Tasks : pc[u] \in {"vmptrld", "host", "loaded", "guest", "put"}
                           => vmcs[VcpuOf[u]] # r
    BY <1>1, <1>2 DEF PageInv, TypeOK, v, r
  <2> QED BY <1>1, <1>7, <1>8, <2>1 DEF LoadingInv, Loaded, TypeOK
<1>16. LaunchInv'
  <2>1. /\ hwLaunched' \in [Regions -> BOOLEAN]
        /\ \A q \in Regions : q # r => hwLaunched'[q] = hwLaunched[q]
        /\ cpu[v] = c => ~hwLaunched'[r]
        /\ cpu[v] # c => hwLaunched'[r] = hwLaunched[r]
        /\ hwLaunched'[r] => hwLaunched[r]
    BY <1>1, <1>7 DEF TypeOK
  <2>2. \A w \in Vcpus : w # v /\ vmcs[w] # None => vmcs[w] \in Regions /\ vmcs[w] # r
    BY <1>1 DEF PageInv, TypeOK, r
  <2>3. \A u \in Tasks : u # t /\ pc[u] \in {"call", "guest"}
                          => VcpuOf[u] # v /\ vmcs[VcpuOf[u]] # None
    BY <1>2 DEF PageInv
  <2>4. \A u \in Tasks : VcpuOf[u] \in Vcpus
    OBVIOUS
  <2>5. ASSUME NEW w \in Vcpus, vmcs[w] # None, client[w] = "open",
               \A u \in Tasks : VcpuOf[u] = w => pc[u] \notin Waiting \cup {"guest"}
        PROVE  launched[w] <=> hwLaunched'[vmcs[w]]
    <3>1. w # v
      BY <1>1, <2>5 DEF v
    <3> QED BY <2>1, <2>2, <2>5, <3>1 DEF LaunchInv
  <2>6. ASSUME NEW w \in Vcpus, vmcs[w] # None, cpu[w] = None
        PROVE  ~hwLaunched'[vmcs[w]]
    BY <2>1, <2>2, <2>6 DEF LaunchInv, r
  <2>7. ASSUME NEW u \in Tasks, pc[u] = "call", cpu[VcpuOf[u]] \notin ipi'[u]
        PROVE  ~hwLaunched'[vmcs[VcpuOf[u]]]
    <3>1. CASE u = t
      BY <1>8, <2>1, <2>7, <3>1 DEF LaunchInv, TypeOK, v, r
    <3>2. CASE u # t
      BY <1>8, <2>1, <2>2, <2>3, <2>4, <2>7, <3>2 DEF LaunchInv, TypeOK
    <3> QED BY <3>1, <3>2
  <2>8. ASSUME NEW u \in Tasks, pc[u] = "guest"
        PROVE  hwLaunched'[vmcs[VcpuOf[u]]]
    BY <1>1, <2>1, <2>2, <2>3, <2>4, <2>8 DEF LaunchInv
  <2> QED BY <1>8, <2>5, <2>6, <2>7, <2>8 DEF LaunchInv
<1> QED BY <1>10, <1>11, <1>12, <1>13, <1>14, <1>15, <1>16

\* After smp_call_function the VMCS is clear, and launched is reset to match.
LEMMA Step_Called ==
    ASSUME IInv, NEW t \in Tasks,
           Called(t)
    PROVE  IInv'
<1> USE DEF Called
<1>1. TypeOK'
  BY DEF TypeOK
<1>2. MutexInv' /\ PinInv' /\ OpInv' /\ AloneInv'
  BY DEF TypeOK, MutexInv, PinInv, OpInv, AloneInv
<1>3. PageInv' /\ HostInv'
  BY DEF TypeOK, MutexInv, PinInv, OpInv, AloneInv, PageInv, HostInv,
         LoadingInv, Loaded
<1>4. HomeInv'
  BY DEF TypeOK, MutexInv, PinInv, OpInv, AloneInv, PageInv, HomeInv, MovingInv,
         Loaded
<1>5. MovingInv'
  BY DEF TypeOK, MutexInv, PinInv, OpInv, AloneInv, PageInv, HomeInv, MovingInv,
         Loaded
<1>6. CurrentInv'
  BY DEF TypeOK, MutexInv, PinInv, OpInv, AloneInv, PageInv, HomeInv,
         CurrentInv, LoadingInv, Loaded
<1>7. LoadingInv'
  BY DEF TypeOK, MutexInv, PinInv, OpInv, AloneInv, PageInv, HomeInv,
         CurrentInv, LoadingInv, Loaded
<1>8. LaunchInv'
  BY DEF TypeOK, MutexInv, PinInv, OpInv, AloneInv, PageInv, HomeInv, MovingInv,
         LoadingInv, LaunchInv, Loaded
<1> QED BY <1>1, <1>2, <1>3, <1>4, <1>5, <1>6, <1>7, <1>8

\* When current_vmcs lets the code skip the vmptrld, the processor really has
\* the VMCS current.
LEMMA Step_SetCurrent ==
    ASSUME IInv, NEW t \in Tasks,
           SetCurrent(t)
    PROVE  IInv'
<1> USE DEF SetCurrent
<1>1. TypeOK'
  BY DEF TypeOK
<1>2. MutexInv'
  BY DEF TypeOK, MutexInv
<1>3. PinInv'
  BY SMTT(30) DEF TypeOK, PinInv
<1>4. OpInv'
  BY DEF TypeOK, OpInv
<1>5. AloneInv'
  BY DEF TypeOK, OpInv, AloneInv
<1>6. PageInv' /\ HostInv'
  BY SMTT(30) DEF TypeOK, MutexInv, PinInv, OpInv, AloneInv, PageInv, HostInv,
         LoadingInv, Loaded
<1>7. HomeInv'
  BY SMTT(30) DEF TypeOK, MutexInv, PinInv, OpInv, AloneInv, PageInv, HomeInv,
         MovingInv, Loaded, CurrentInv, LoadingInv
<1>8. MovingInv'
  BY SMTT(30) DEF TypeOK, MutexInv, PinInv, OpInv, AloneInv, PageInv, HomeInv,
         MovingInv, Loaded, CurrentInv, LoadingInv
<1>9. CurrentInv'
  BY SMTT(30) DEF TypeOK, MutexInv, PinInv, OpInv, AloneInv, PageInv, HomeInv,
         CurrentInv, LoadingInv, Loaded
<1>10. LoadingInv'
  BY SMTT(30) DEF TypeOK, MutexInv, PinInv, OpInv, AloneInv, PageInv, HomeInv,
         CurrentInv, LoadingInv, Loaded
<1>11. LaunchInv'
  BY SMTT(30) DEF TypeOK, MutexInv, PinInv, OpInv, AloneInv, PageInv, HomeInv,
         MovingInv, LoadingInv, LaunchInv, Loaded
<1> QED BY <1>1, <1>2, <1>3, <1>4, <1>5, <1>6, <1>7, <1>8, <1>9, <1>10, <1>11

\* vmptrld makes active on this cpu a VMCS that is active on no other.
LEMMA Step_LoadPointer ==
    ASSUME IInv, NEW t \in Tasks,
           LoadPointer(t)
    PROVE  IInv'
<1> USE DEF LoadPointer, vmptrld
<1>1. TypeOK'
  BY SMTT(30) DEF TypeOK, PageInv, PinInv
<1>2. MutexInv' /\ PinInv' /\ OpInv' /\ AloneInv'
  BY SMTT(30) DEF TypeOK, MutexInv, PinInv, OpInv, AloneInv
<1>3. PageInv' /\ HostInv'
  BY SMTT(30) DEF TypeOK, MutexInv, PinInv, OpInv, AloneInv, PageInv, HostInv,
         LoadingInv, Loaded
<1>4. HomeInv'
  BY SMTT(30) DEF TypeOK, MutexInv, PinInv, OpInv, AloneInv, PageInv, HomeInv,
         MovingInv, Loaded
<1>5. MovingInv'
  BY SMTT(30) DEF TypeOK, MutexInv, PinInv, OpInv, AloneInv, PageInv, HomeInv,
         MovingInv, Loaded
<1>6. CurrentInv'
  BY SMTT(30) DEF TypeOK, MutexInv, PinInv, OpInv, AloneInv, PageInv, HomeInv,
         CurrentInv, LoadingInv, Loaded
<1>7. LoadingInv'
  BY SMTT(30) DEF TypeOK, MutexInv, PinInv, OpInv, AloneInv, PageInv, HomeInv,
         CurrentInv, LoadingInv, Loaded
<1>8. LaunchInv'
  BY SMTT(30) DEF TypeOK, MutexInv, PinInv, OpInv, AloneInv, PageInv, HomeInv,
         MovingInv, LoadingInv, LaunchInv, Loaded
<1> QED BY <1>1, <1>2, <1>3, <1>4, <1>5, <1>6, <1>7, <1>8

\* vcpu->cpu and the host state fields change together.
LEMMA Step_SetHost ==
    ASSUME IInv, NEW t \in Tasks,
           SetHost(t)
    PROVE  IInv'
<1> USE DEF SetHost
<1>1. TypeOK'
  BY DEF TypeOK
<1>2. MutexInv' /\ PinInv' /\ OpInv' /\ AloneInv'
  BY SMTT(30) DEF TypeOK, MutexInv, PinInv, OpInv, AloneInv
<1>3. PageInv' /\ HostInv'
  BY SMTT(30) DEF TypeOK, MutexInv, PinInv, OpInv, AloneInv, PageInv, HostInv,
         LoadingInv, Loaded
<1>4. HomeInv'
  BY SMTT(30) DEF TypeOK, MutexInv, PinInv, OpInv, AloneInv, PageInv, HomeInv,
         MovingInv, Loaded, CurrentInv, LoadingInv
<1>5. MovingInv'
  BY SMTT(30) DEF TypeOK, MutexInv, PinInv, OpInv, AloneInv, PageInv, HomeInv,
         MovingInv, Loaded, CurrentInv, LoadingInv
<1>6. CurrentInv'
  BY SMTT(30) DEF TypeOK, MutexInv, PinInv, OpInv, AloneInv, PageInv, HomeInv,
         CurrentInv, LoadingInv, Loaded
<1>7. LoadingInv'
  BY SMTT(30) DEF TypeOK, MutexInv, PinInv, OpInv, AloneInv, PageInv, HomeInv,
         CurrentInv, LoadingInv, Loaded
<1>8. LaunchInv'
  BY SMTT(30) DEF TypeOK, MutexInv, PinInv, OpInv, AloneInv, PageInv, HomeInv,
         MovingInv, LoadingInv, LaunchInv, Loaded
<1> QED BY <1>1, <1>2, <1>3, <1>4, <1>5, <1>6, <1>7, <1>8

\* kvm_vcpu_setup and the other ioctls do not move the VMCS.
LEMMA Step_UseVmcs ==
    ASSUME IInv, NEW t \in Tasks,
           UseVmcs(t)
    PROVE  IInv'
<1> USE DEF UseVmcs
<1>1. TypeOK'
  BY DEF TypeOK
<1>2. MutexInv' /\ PinInv' /\ OpInv' /\ AloneInv'
  BY DEF TypeOK, MutexInv, PinInv, OpInv, AloneInv
<1>3. PageInv' /\ HostInv'
  BY DEF TypeOK, MutexInv, PinInv, OpInv, AloneInv, PageInv, HostInv,
         LoadingInv, Loaded
<1>4. HomeInv'
  BY DEF TypeOK, MutexInv, PinInv, OpInv, AloneInv, PageInv, HomeInv, MovingInv,
         Loaded
<1>5. MovingInv'
  BY DEF TypeOK, MutexInv, PinInv, OpInv, AloneInv, PageInv, HomeInv, MovingInv,
         Loaded
<1>6. CurrentInv'
  BY DEF TypeOK, MutexInv, PinInv, OpInv, AloneInv, PageInv, HomeInv,
         CurrentInv, LoadingInv, Loaded
<1>7. LoadingInv'
  BY DEF TypeOK, MutexInv, PinInv, OpInv, AloneInv, PageInv, HomeInv,
         CurrentInv, LoadingInv, Loaded
<1>8. LaunchInv'
  BY DEF TypeOK, MutexInv, PinInv, OpInv, AloneInv, PageInv, HomeInv, MovingInv,
         LoadingInv, LaunchInv, Loaded
<1> QED BY <1>1, <1>2, <1>3, <1>4, <1>5, <1>6, <1>7, <1>8

\* A successful entry makes the launch state launched.
LEMMA Step_VmEntry ==
    ASSUME IInv, NEW t \in Tasks,
           VmEntry(t)
    PROVE  IInv'
<1> USE DEF VmEntry, EntryWorks
<1>1. TypeOK'
  BY DEF TypeOK
<1>2. MutexInv' /\ PinInv' /\ OpInv' /\ AloneInv'
  BY DEF TypeOK, MutexInv, PinInv, OpInv, AloneInv
<1>3. PageInv' /\ HostInv'
  BY DEF TypeOK, MutexInv, PinInv, OpInv, AloneInv, PageInv, HostInv,
         LoadingInv, Loaded
<1>4. HomeInv'
  BY DEF TypeOK, MutexInv, PinInv, OpInv, AloneInv, PageInv, HomeInv, MovingInv,
         Loaded
<1>5. MovingInv'
  BY DEF TypeOK, MutexInv, PinInv, OpInv, AloneInv, PageInv, HomeInv, MovingInv,
         Loaded
<1>6. CurrentInv'
  BY DEF TypeOK, MutexInv, PinInv, OpInv, AloneInv, PageInv, HomeInv,
         CurrentInv, LoadingInv, Loaded
<1>7. LoadingInv'
  BY DEF TypeOK, MutexInv, PinInv, OpInv, AloneInv, PageInv, HomeInv,
         CurrentInv, LoadingInv, Loaded
<1>8. LaunchInv'
  BY DEF TypeOK, MutexInv, PinInv, OpInv, AloneInv, PageInv, HomeInv, MovingInv,
         LoadingInv, LaunchInv, Loaded
<1> QED BY <1>1, <1>2, <1>3, <1>4, <1>5, <1>6, <1>7, <1>8

\* After an entry with invalid guest state the vcpu is not run again.
LEMMA Step_VmEntryInvalid ==
    ASSUME IInv, NEW t \in Tasks,
           VmEntryInvalid(t)
    PROVE  IInv'
<1> USE DEF VmEntryInvalid, EntryWorks
<1>1. TypeOK'
  BY DEF TypeOK
<1>2. MutexInv' /\ PinInv' /\ OpInv' /\ AloneInv'
  BY SMTT(30) DEF TypeOK, MutexInv, PinInv, OpInv, AloneInv
<1>3. PageInv' /\ HostInv'
  BY SMTT(30) DEF TypeOK, MutexInv, PinInv, OpInv, AloneInv, PageInv, HostInv,
         LoadingInv, Loaded
<1>4. HomeInv'
  BY SMTT(30) DEF TypeOK, MutexInv, PinInv, OpInv, AloneInv, PageInv, HomeInv,
         MovingInv, Loaded
<1>5. MovingInv'
  BY SMTT(30) DEF TypeOK, MutexInv, PinInv, OpInv, AloneInv, PageInv, HomeInv,
         MovingInv, Loaded
<1>6. CurrentInv'
  BY SMTT(30) DEF TypeOK, MutexInv, PinInv, OpInv, AloneInv, PageInv, HomeInv,
         CurrentInv, LoadingInv, Loaded
<1>7. LoadingInv'
  BY SMTT(30) DEF TypeOK, MutexInv, PinInv, OpInv, AloneInv, PageInv, HomeInv,
         CurrentInv, LoadingInv, Loaded
<1>8. LaunchInv'
  BY SMTT(30) DEF TypeOK, MutexInv, PinInv, OpInv, AloneInv, PageInv, HomeInv,
         MovingInv, LoadingInv, LaunchInv, Loaded
<1> QED BY <1>1, <1>2, <1>3, <1>4, <1>5, <1>6, <1>7, <1>8

\* A VM exit records in vcpu->launched what the entry did.
LEMMA Step_VmExit ==
    ASSUME IInv, NEW t \in Tasks,
           VmExit(t)
    PROVE  IInv'
<1> USE DEF VmExit
<1>1. TypeOK'
  BY DEF TypeOK
<1>2. MutexInv' /\ PinInv' /\ OpInv' /\ AloneInv'
  BY DEF TypeOK, MutexInv, PinInv, OpInv, AloneInv
<1>3. PageInv' /\ HostInv'
  BY DEF TypeOK, MutexInv, PinInv, OpInv, AloneInv, PageInv, HostInv,
         LoadingInv, Loaded
<1>4. HomeInv'
  BY DEF TypeOK, MutexInv, PinInv, OpInv, AloneInv, PageInv, HomeInv, MovingInv,
         Loaded
<1>5. MovingInv'
  BY DEF TypeOK, MutexInv, PinInv, OpInv, AloneInv, PageInv, HomeInv, MovingInv,
         Loaded
<1>6. CurrentInv'
  BY DEF TypeOK, MutexInv, PinInv, OpInv, AloneInv, PageInv, HomeInv,
         CurrentInv, LoadingInv, Loaded
<1>7. LoadingInv'
  BY DEF TypeOK, MutexInv, PinInv, OpInv, AloneInv, PageInv, HomeInv,
         CurrentInv, LoadingInv, Loaded
<1>8. LaunchInv'
  BY DEF TypeOK, MutexInv, PinInv, OpInv, AloneInv, PageInv, HomeInv, MovingInv,
         LoadingInv, LaunchInv, Loaded
<1> QED BY <1>1, <1>2, <1>3, <1>4, <1>5, <1>6, <1>7, <1>8

\* put_cpu gives up the cpu, not the mutex.
LEMMA Step_put_cpu ==
    ASSUME IInv, NEW t \in Tasks,
           put_cpu(t)
    PROVE  IInv'
<1> USE DEF put_cpu
<1>1. TypeOK'
  BY DEF TypeOK
<1>2. MutexInv' /\ PinInv' /\ OpInv' /\ AloneInv'
  BY DEF TypeOK, MutexInv, PinInv, OpInv, AloneInv
<1>3. PageInv' /\ HostInv'
  BY DEF TypeOK, MutexInv, PinInv, OpInv, AloneInv, PageInv, HostInv,
         LoadingInv, Loaded
<1>4. HomeInv'
  BY DEF TypeOK, MutexInv, PinInv, OpInv, AloneInv, PageInv, HomeInv, MovingInv,
         Loaded
<1>5. MovingInv'
  BY DEF TypeOK, MutexInv, PinInv, OpInv, AloneInv, PageInv, HomeInv, MovingInv,
         Loaded
<1>6. CurrentInv'
  BY DEF TypeOK, MutexInv, PinInv, OpInv, AloneInv, PageInv, HomeInv,
         CurrentInv, LoadingInv, Loaded
<1>7. LoadingInv'
  BY DEF TypeOK, MutexInv, PinInv, OpInv, AloneInv, PageInv, HomeInv,
         CurrentInv, LoadingInv, Loaded
<1>8. LaunchInv'
  BY DEF TypeOK, MutexInv, PinInv, OpInv, AloneInv, PageInv, HomeInv, MovingInv,
         LoadingInv, LaunchInv, Loaded
<1> QED BY <1>1, <1>2, <1>3, <1>4, <1>5, <1>6, <1>7, <1>8

\* mutex_unlock leaves the VMCS loaded, at home on vcpu->cpu.
LEMMA Step_mutex_unlock ==
    ASSUME IInv, NEW t \in Tasks,
           mutex_unlock(t)
    PROVE  IInv'
<1> USE DEF mutex_unlock, Return
<1>1. TypeOK'
  BY DEF TypeOK
<1>2. MutexInv'
  BY DEF TypeOK, MutexInv
<1>3. PinInv'
  BY SMTT(30) DEF TypeOK, PinInv
<1>4. OpInv'
  BY DEF TypeOK, OpInv
<1>5. AloneInv'
  BY DEF TypeOK, OpInv, AloneInv
<1>6. PageInv' /\ HostInv'
  BY SMTT(30) DEF TypeOK, MutexInv, PinInv, OpInv, AloneInv, PageInv, HostInv,
         LoadingInv, Loaded
<1>7. HomeInv'
  BY SMTT(30) DEF TypeOK, MutexInv, PinInv, OpInv, AloneInv, PageInv, HomeInv,
         MovingInv, Loaded
<1>8. MovingInv'
  BY SMTT(30) DEF TypeOK, MutexInv, PinInv, OpInv, AloneInv, PageInv, HomeInv,
         MovingInv, Loaded
<1>9. CurrentInv' /\ LoadingInv'
  BY SMTT(30) DEF TypeOK, MutexInv, PinInv, OpInv, AloneInv, PageInv, HomeInv,
         CurrentInv, LoadingInv, Loaded
<1>10. LaunchInv'
  BY SMTT(30) DEF TypeOK, MutexInv, PinInv, OpInv, AloneInv, PageInv, HomeInv,
         MovingInv, LoadingInv, LaunchInv, Loaded
<1> QED BY <1>1, <1>2, <1>3, <1>4, <1>5, <1>6, <1>7, <1>8, <1>9, <1>10

\* Between vcpu_put and vcpu_load of KVM_RUN the task holds nothing.
LEMMA Step_Resched ==
    ASSUME IInv, NEW t \in Tasks,
           Resched(t)
    PROVE  IInv'
<1> USE DEF Resched, Return
<1>1. TypeOK'
  BY DEF TypeOK
<1>2. MutexInv'
  BY DEF TypeOK, MutexInv
<1>3. PinInv'
  BY SMTT(30) DEF TypeOK, PinInv
<1>4. OpInv'
  BY DEF TypeOK, OpInv
<1>5. AloneInv'
  BY DEF TypeOK, OpInv, AloneInv
<1>6. PageInv' /\ HostInv'
  BY SMTT(30) DEF TypeOK, MutexInv, PinInv, OpInv, AloneInv, PageInv, HostInv,
         LoadingInv, Loaded
<1>7. HomeInv'
  BY SMTT(30) DEF TypeOK, MutexInv, PinInv, OpInv, AloneInv, PageInv, HomeInv,
         MovingInv, Loaded
<1>8. MovingInv'
  BY SMTT(30) DEF TypeOK, MutexInv, PinInv, OpInv, AloneInv, PageInv, HomeInv,
         MovingInv, Loaded
<1>9. CurrentInv' /\ LoadingInv'
  BY SMTT(30) DEF TypeOK, MutexInv, PinInv, OpInv, AloneInv, PageInv, HomeInv,
         CurrentInv, LoadingInv, Loaded
<1>10. LaunchInv'
  BY SMTT(30) DEF TypeOK, MutexInv, PinInv, OpInv, AloneInv, PageInv, HomeInv,
         MovingInv, LoadingInv, LaunchInv, Loaded
<1> QED BY <1>1, <1>2, <1>3, <1>4, <1>5, <1>6, <1>7, <1>8, <1>9, <1>10

\* kvm_free_vmcs without a VMCS changes nothing of the placement.
LEMMA Step_FreeNothing ==
    ASSUME IInv, NEW t \in Tasks,
           FreeNothing(t)
    PROVE  IInv'
<1> USE DEF FreeNothing, FreeReturns, Return
<1>1. TypeOK'
  BY DEF TypeOK
<1>2. MutexInv' /\ PinInv' /\ OpInv' /\ AloneInv'
  BY DEF TypeOK, MutexInv, PinInv, OpInv, AloneInv
<1>3. PageInv' /\ HostInv'
  BY DEF TypeOK, MutexInv, PinInv, OpInv, AloneInv, PageInv, HostInv,
         LoadingInv, Loaded
<1>4. HomeInv' /\ MovingInv'
  BY DEF TypeOK, MutexInv, PinInv, OpInv, AloneInv, PageInv, HomeInv, MovingInv,
         Loaded
<1>5. CurrentInv' /\ LoadingInv'
  BY DEF TypeOK, MutexInv, PinInv, OpInv, AloneInv, PageInv, HomeInv,
         CurrentInv, LoadingInv, Loaded
<1>6. LaunchInv'
  BY DEF TypeOK, MutexInv, PinInv, OpInv, AloneInv, PageInv, HomeInv, MovingInv,
         LoadingInv, LaunchInv, Loaded
<1> QED BY <1>1, <1>2, <1>3, <1>4, <1>5, <1>6

\* on_each_cpu addresses every cpu the VMCS can be active on.
LEMMA Step_FreeCall ==
    ASSUME IInv, NEW t \in Tasks, NEW c \in CPUs,
           FreeCall(t, c)
    PROVE  IInv'
<1> USE DEF FreeCall, CpuFree, FreeTargets
<1>1. TypeOK'
  BY DEF TypeOK
<1>2. MutexInv' /\ PinInv' /\ OpInv' /\ AloneInv'
  BY DEF TypeOK, MutexInv, PinInv, OpInv, AloneInv
<1>3. PageInv' /\ HostInv'
  BY DEF TypeOK, MutexInv, PinInv, OpInv, AloneInv, PageInv, HostInv,
         LoadingInv, Loaded
<1>4. HomeInv' /\ MovingInv'
  BY DEF TypeOK, MutexInv, PinInv, OpInv, AloneInv, PageInv, HomeInv, MovingInv,
         Loaded
<1>5. CurrentInv' /\ LoadingInv'
  BY DEF TypeOK, MutexInv, PinInv, OpInv, AloneInv, PageInv, HomeInv,
         CurrentInv, LoadingInv, Loaded
<1>6. LaunchInv'
  BY DEF TypeOK, MutexInv, PinInv, OpInv, AloneInv, PageInv, HomeInv, MovingInv,
         LoadingInv, LaunchInv, Loaded
<1> QED BY <1>1, <1>2, <1>3, <1>4, <1>5, <1>6

\* When free_vmcs runs the VMCS is active on no cpu.
LEMMA Step_free_vmcs ==
    ASSUME IInv, NEW t \in Tasks,
           free_vmcs(t)
    PROVE  IInv'
<1> USE DEF free_vmcs, FreeReturns, Return
<1>1. TypeOK'
  BY DEF TypeOK
<1>2. MutexInv'
  BY DEF TypeOK, MutexInv
<1>3. PinInv'
  BY SMTT(30) DEF TypeOK, PinInv
<1>4. OpInv'
  BY DEF TypeOK, OpInv
<1>5. AloneInv'
  BY DEF TypeOK, OpInv, AloneInv
<1>6. PageInv'
  BY SMTT(30) DEF TypeOK, MutexInv, PinInv, OpInv, AloneInv, PageInv
<1>7. HostInv'
  BY SMTT(30) DEF TypeOK, MutexInv, PinInv, OpInv, AloneInv, PageInv, HostInv,
         LoadingInv, Loaded
<1>8. HomeInv'
  BY SMTT(30) DEF TypeOK, MutexInv, PinInv, OpInv, AloneInv, PageInv, HomeInv,
         MovingInv, Loaded
<1>9. MovingInv'
  BY SMTT(30) DEF TypeOK, MutexInv, PinInv, OpInv, AloneInv, PageInv, HomeInv,
         MovingInv, Loaded
<1>10. CurrentInv'
  BY SMTT(30) DEF TypeOK, MutexInv, PinInv, OpInv, AloneInv, PageInv, HomeInv,
         CurrentInv, LoadingInv, Loaded
<1>11. LoadingInv'
  BY SMTT(30) DEF TypeOK, MutexInv, PinInv, OpInv, AloneInv, PageInv, HomeInv,
         CurrentInv, LoadingInv, Loaded
<1>12. LaunchInv'
  BY SMTT(30) DEF TypeOK, MutexInv, PinInv, OpInv, AloneInv, PageInv, HomeInv,
         MovingInv, LoadingInv, LaunchInv, Loaded
<1> QED BY <1>1, <1>2, <1>3, <1>4, <1>5, <1>6, <1>7, <1>8, <1>9, <1>10, <1>11, <1>12

-----------------------------------------------------------------------------
\* Before the module is used no page is a VMCS and no task is in an ioctl.
LEMMA InitInv == Init => IInv
<1> SUFFICES ASSUME Init PROVE IInv
  OBVIOUS
<1> USE DEF Init, Loaded
<1>1. TypeOK /\ MutexInv /\ PinInv /\ OpInv /\ AloneInv /\ PageInv
  BY DEF TypeOK, MutexInv, PinInv, OpInv, AloneInv, PageInv
<1>2. HomeInv /\ MovingInv /\ CurrentInv /\ LoadingInv /\ LaunchInv /\ HostInv
  BY DEF HomeInv, MovingInv, CurrentInv, LoadingInv, LaunchInv, HostInv
<1> QED BY <1>1, <1>2

\* Every step of the module, of its inter-processor calls and of a client like
\* libkvm keeps the invariant.
LEMMA NextInv == IInv /\ [Next]_vars => IInv'
<1> SUFFICES ASSUME IInv, [Next]_vars PROVE IInv'
  OBVIOUS
<1>1. CASE UNCHANGED vars
  <2>1. TypeOK' /\ MutexInv' /\ PinInv' /\ OpInv' /\ AloneInv' /\ PageInv'
    BY <1>1 DEF vars, TypeOK, MutexInv, PinInv, OpInv, AloneInv, PageInv
  <2>2. HomeInv' /\ MovingInv' /\ CurrentInv' /\ LoadingInv'
    BY <1>1 DEF vars, HomeInv, MovingInv, CurrentInv, LoadingInv, Loaded
  <2>3. LaunchInv' /\ HostInv'
    BY <1>1 DEF vars, LaunchInv, HostInv
  <2> QED BY <2>1, <2>2, <2>3
<1>2. ASSUME NEW v \in Vcpus, kvm_dev_open(v) PROVE IInv'
  BY <1>2, Step_kvm_dev_open
<1>3. ASSUME NEW t \in Tasks, kvm_dev_release(t) \/ LibkvmCall(t) PROVE IInv'
  BY <1>3, Step_kvm_dev_release, Step_LibkvmCall
<1>4. ASSUME NEW t \in Tasks, NEW c \in CPUs,
             get_cpu(t, c) \/ vcpu_clear(t, c) \/ FreeCall(t, c)
      PROVE  IInv'
  BY <1>4, Step_get_cpu, Step_vcpu_clear, Step_FreeCall
<1>5. ASSUME NEW t \in Tasks, NEW c \in CPUs, NEW r \in Regions, AllocVmcs(t, c, r)
      PROVE  IInv'
  BY <1>5, Step_AllocVmcs
<1>6. ASSUME NEW t \in Tasks, Task(t) PROVE IInv'
  <2>1. CASE CreateExists(t) \/ CreateLock(t) \/ AllocFails(t)
    BY <2>1, Step_CreateExists, Step_CreateLock, Step_AllocFails
  <2>2. CASE LoadMissing(t) \/ LoadLock(t) \/ Called(t) \/ SetCurrent(t)
             \/ LoadPointer(t) \/ SetHost(t)
    BY <2>2, Step_LoadMissing, Step_LoadLock, Step_Called, Step_SetCurrent,
       Step_LoadPointer, Step_SetHost
  <2>3. CASE UseVmcs(t) \/ VmEntry(t) \/ VmEntryInvalid(t) \/ VmExit(t)
    BY <2>3, Step_UseVmcs, Step_VmEntry, Step_VmEntryInvalid, Step_VmExit
  <2>4. CASE put_cpu(t) \/ mutex_unlock(t) \/ Resched(t) \/ FreeNothing(t)
             \/ free_vmcs(t)
    BY <2>4, Step_put_cpu, Step_mutex_unlock, Step_Resched, Step_FreeNothing,
       Step_free_vmcs
  <2> QED BY <1>4, <1>5, <1>6, <2>1, <2>2, <2>3, <2>4 DEF Task
<1> QED BY <1>1, <1>2, <1>3, <1>6 DEF Next, Kernel

\* The invariant holds in every reachable state.
THEOREM Invariance == Spec => []IInv
<1> QED BY InitInv, NextInv, PTL DEF Spec

\* Every variable keeps its type, whatever the ioctls and migrations.
THEOREM TypeCorrect == Spec => []TypeOK
<1>1. IInv => TypeOK
  OBVIOUS
<1> QED BY <1>1, Invariance, PTL

\* No interleaving of loads on different cpus leaves a VMCS active on two of
\* them.
THEOREM NeverActiveTwice == Spec => []ActiveOnOneCpu
<1>1. IInv => ActiveOnOneCpu
  <2> SUFFICES ASSUME IInv, NEW r \in Regions PROVE \A c, d \in hwActive[r] : c = d
    BY DEF ActiveOnOneCpu
  <2>1. CASE r \notin allocated
    BY <2>1 DEF HomeInv
  <2>2. CASE r \in allocated
    <3>1. PICK v \in Vcpus : vmcs[v] = r
      BY <2>2 DEF PageInv
    <3>2. CASE \E t \in Tasks : VcpuOf[t] = v /\ pc[t] = "host"
      BY <3>1, <3>2 DEF MovingInv
    <3>3. CASE \A t \in Tasks : VcpuOf[t] = v => pc[t] # "host"
      BY <3>1, <3>3 DEF HomeInv, TypeOK
    <3> QED BY <3>2, <3>3
  <2> QED BY <2>1, <2>2
<1> QED BY <1>1, Invariance, PTL

\* From vcpu_load to vcpu_put the current VMCS is the one of the vcpu.
THEOREM LoadedVmcsIsCurrent == Spec => []LoadedIsCurrent
<1>1. IInv => LoadedIsCurrent
  BY DEF LoadingInv, LoadedIsCurrent
<1> QED BY <1>1, Invariance, PTL

\* KVM_RUN always picks the entry instruction that fits the launch state.
THEOREM EntryFits == Spec => []LaunchStateKnown
<1>1. IInv => LaunchStateKnown
  <2> SUFFICES ASSUME IInv, NEW t \in Tasks, pc[t] = "loaded",
                      op[t] \in {"run", "reload"}
               PROVE  EntryWorks(t)
    BY DEF LaunchStateKnown
  <2> DEFINE v == VcpuOf[t]
  <2>1. /\ v \in Vcpus /\ hwCurrent[pin[t]] = vmcs[v] /\ vmcs[v] # None
        /\ vmcs[v] \in Regions /\ client[v] = "open"
    BY DEF LoadingInv, Loaded, PageInv, AloneInv, TypeOK
  <2>2. \A u \in Tasks : VcpuOf[u] = v => pc[u] \notin Waiting \cup {"guest"}
    BY DEF MutexInv, AloneInv, OpInv,
       Freeing, CreateOps
  <2>3. launched[v] <=> hwLaunched[vmcs[v]]
    BY <2>1, <2>2 DEF LaunchInv
  <2>4. launched[v] \in BOOLEAN /\ hwLaunched[vmcs[v]] \in BOOLEAN
    BY <2>1 DEF TypeOK
  <2> QED BY <2>1, <2>3, <2>4 DEF EntryWorks
<1> QED BY <1>1, Invariance, PTL

\* A VM exit always restores the host state of the cpu it happens on.
THEOREM HostStateFits == Spec => []HostStateOfThisCpu
<1>1. IInv => HostStateOfThisCpu
  BY DEF HostStateOfThisCpu, HostInv, MovingInv, PageInv, Loaded
<1> QED BY <1>1, Invariance, PTL

\* Freed pages are forgotten by current_vmcs and by the processor.
THEOREM FreedPagesForgotten == Spec => []NoFreedCurrent
<1>1. IInv => NoFreedCurrent
  <2> SUFFICES ASSUME IInv, NEW c \in CPUs
               PROVE  {current_vmcs[c], hwCurrent[c]} \subseteq allocated \cup {None}
    BY DEF NoFreedCurrent
  <2>1. hwCurrent[c] \in allocated \cup {None}
    BY DEF CurrentInv, HomeInv, TypeOK
  <2>2. current_vmcs[c] \in allocated \cup {None}
    <3>1. CASE \E t \in Tasks : pin[t] = c /\ pc[t] = "vmptrld"
      BY <3>1 DEF LoadingInv, PageInv
    <3>2. CASE \A t \in Tasks : pin[t] = c => pc[t] # "vmptrld"
      BY <2>1, <3>2 DEF CurrentInv
    <3> QED BY <3>1, <3>2
  <2> QED BY <2>1, <2>2
<1> QED BY <1>1, Invariance, PTL

\* Only free_vmcs gives a page back, after __vcpu_clear ran on every cpu.
THEOREM FreedPagesInactive == Spec => FreedWhenInactive
<1> DEFINE Safe == \A r \in allocated : r \notin allocated' => hwActive[r] = {}
<1>1. IInv /\ [Next]_vars => Safe
  <2> SUFFICES ASSUME IInv, [Next]_vars PROVE Safe
    OBVIOUS
  <2>1. ASSUME NEW t \in Tasks, free_vmcs(t) PROVE Safe
    BY <2>1 DEF free_vmcs, IInv, MovingInv
  <2>2. (\E t \in Tasks : free_vmcs(t)) \/ allocated \subseteq allocated'
    BY SMTT(30) DEF Next, Kernel, Task, LibkvmCall, Call, Enter, kvm_dev_open, kvm_dev_release,
       CreateExists, CreateLock, AllocFails, AllocVmcs, LoadMissing, LoadLock, get_cpu,
       vcpu_clear, FreeCall, Called, SetCurrent, LoadPointer, SetHost, UseVmcs, VmEntry,
       VmEntryInvalid, VmExit, put_cpu, mutex_unlock, Resched, FreeNothing, vars
  <2> QED BY <2>1, <2>2
<1>2. IInv /\ [Next]_vars => [Safe]_vars
  BY <1>1
<1> QED BY <1>2, Invariance, PTL DEF Spec, FreedWhenInactive
=============================================================================
