------------------------------ MODULE GuestTlb ------------------------------
(***************************************************************************)
(* What the shadow page tables owe the guest: they may behave as the       *)
(* translation cache of a processor, and as nothing else.  The guest owns  *)
(* eff, the translation its page tables give for every address; tlb holds  *)
(* at most one remembered translation per address.  A remembered           *)
(* translation was true when it was taken, may be dropped at any time,     *)
(* outlives a change of the tables, and must be gone after the guest asks  *)
(* for that: by invlpg, by loading CR3, by changing the paging mode.       *)
(***************************************************************************)
CONSTANTS
    Addr,       \* pages of guest virtual memory
    Group,      \* Group[a]: the pages one large page translates with a
    Absent      \* "the guest maps nothing here"

VARIABLES
    eff,        \* eff[a]: Absent or what the guest's tables say of a
    wp,         \* CR0.WP: does the supervisor respect read-only pages
    tlb,        \* tlb[a]: the set of remembered translations, one or none
    open,       \* the accesses that now go through, and to which frame
    obs         \* what the last step did that the guest can see

tlbVars == <<eff, wp, tlb, open, obs>>

Quiet == [k |-> "quiet"]

(* A translation e lets a write or read, by user or supervisor, through.   *)
Permits(e, write, user) ==
    /\ e # Absent
    /\ user => e.u
    /\ write => e.w \/ (~user /\ ~wp)

(* Only accesses a remembered translation grants go through, to its frame; *)
(* a write needs the dirty bit.                                            *)
Granted ==
    \A x \in open :
       \E e \in tlb[x.a] : e.f = x.f /\ Permits(e, x.write, x.user) /\ (x.write => e.d)

(* What a processor may remember of translation e: that it is global and   *)
(* that its dirty bit is set may both be forgotten.                        *)
Memories(e) ==
    [f : {e.f}, w : {e.w}, u : {e.u}, g : {FALSE, e.g}, d : {FALSE, e.d}, big : {e.big}]

(* Translations only disappear, or have their dirty bit looked up again.   *)
Forgets ==
    \A a \in Addr : tlb'[a] \subseteq UNION {Memories(e) : e \in tlb[a]}

Init ==
    /\ tlb = [a \in Addr |-> {}]
    /\ open = {}
    /\ obs = Quiet

(* The guest stores to its page tables: nothing is remembered differently. *)
ChangeTables ==
    /\ obs' = [k |-> "store"]
    /\ UNCHANGED <<wp, tlb>>

(* A table walk remembers what the tables say now.                         *)
Fill(a) ==
    /\ obs' = Quiet
    /\ eff[a] # Absent
    /\ \E e \in Memories(eff[a]) : tlb' = [tlb EXCEPT ![a] = {e}]
    /\ UNCHANGED <<eff, wp>>

(* A first write sets the dirty bit in the guest's table, as it is now,    *)
(* and only that.                                                          *)
MarkDirty(a) ==
    /\ obs' = Quiet
    /\ eff[a] # Absent
    /\ eff'[a].d
    /\ \A b \in Addr :
          eff'[b] # eff[b] => eff[b] # Absent /\ eff'[b] = [eff[b] EXCEPT !.d = TRUE]
    /\ tlb' = [tlb EXCEPT ![a] = {[e EXCEPT !.d = TRUE] : e \in @}]
    /\ UNCHANGED wp

Forget ==
    /\ obs' = Quiet
    /\ Forgets
    /\ UNCHANGED <<eff, wp>>

(* Loading CR3 drops everything that is not global.                        *)
LoadCr3 ==
    /\ obs' = [k |-> "cr3"]
    /\ Forgets
    /\ \A a \in Addr : \A e \in tlb'[a] : e.g
    /\ UNCHANGED wp

(* invlpg drops the address, and the whole of a large page around it.      *)
Invlpg(a) ==
    /\ obs' = [k |-> "invlpg", a |-> a]
    /\ Forgets
    /\ tlb'[a] = {}
    /\ \A b \in Group[a] : \A e \in tlb'[b] : ~e.big
    /\ UNCHANGED <<eff, wp>>

(* A change of paging mode or of write protection drops everything.        *)
SetMode ==
    /\ obs' = [k |-> "mode"]
    /\ tlb' = [a \in Addr |-> {}]

(* An access to memory that is not there is emulated, if it is allowed.    *)
Emulate(a, write, user) ==
    /\ obs' = [k |-> "emulate", a |-> a, write |-> write, user |-> user]
    /\ \E e \in tlb[a] \cup {eff[a]} : Permits(e, write, user)
    /\ UNCHANGED <<eff, wp, tlb>>

(* The guest gets a page fault only for what its tables, as they are or as *)
(* it left them to be remembered, forbid.                                  *)
Fault(a, write, user) ==
    /\ obs' = [k |-> "fault", a |-> a, write |-> write, user |-> user]
    /\ \E e \in tlb[a] \cup {eff[a]} : ~Permits(e, write, user)
    /\ Forgets
    /\ UNCHANGED <<eff, wp>>

(* Execution goes on.                                                      *)
Resume ==
    /\ obs' = Quiet
    /\ UNCHANGED <<eff, wp, tlb>>

Next ==
    /\ Granted'
    /\ \/ Resume \/ ChangeTables \/ Forget \/ LoadCr3 \/ SetMode
       \/ \E a \in Addr :
             \/ Fill(a) \/ MarkDirty(a) \/ Invlpg(a)
             \/ \E write, user \in BOOLEAN : Emulate(a, write, user) \/ Fault(a, write, user)

Spec == Init /\ [][Next]_tlbVars
=============================================================================
