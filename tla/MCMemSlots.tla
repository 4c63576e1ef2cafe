------------------------------ MODULE MCMemSlots ------------------------------
(* Instances of MemSlots for TLC.                                             *)
EXTENDS MemSlots, TLC

Region(s, b, n, l) == [slot |-> s, base |-> b, npages |-> n, log |-> l]

\* Create, log and remove, in two slots that can collide.
Colliding ==
    {Region(0, 0, 2, FALSE), Region(0, 0, 2, TRUE), Region(0, 0, 0, FALSE),
     Region(1, 1, 1, FALSE)}

\* One slot of two pages, with and without the log.
Logged ==
    {Region(0, 0, 2, FALSE), Region(0, 0, 2, TRUE), Region(0, 0, 0, FALSE)}

\* Slots that are created, moved, logged and removed in turn.
Moving ==
    {Region(0, 1, 1, FALSE), Region(0, 2, 1, TRUE), Region(0, 1, 0, FALSE),
     Region(1, 0, 2, TRUE), Region(1, 0, 2, FALSE)}

\* The guest's entries: small pages and invlpg after every change; one large
\* page; entries that change with nobody told.
OneFrame  == [h \in Gfns |-> {h}]
LargePage == [h \in Gfns |-> {0}]
AnyFrame  == [h \in Gfns |-> Gfns]

Symmetric == Permutations(Tasks) \cup Permutations(Arrays)
                \cup Permutations(Bitmaps) \cup Permutations(Addrs)

\* The history variable unreported is in no guard; the properties that read it
\* are not of the run with this view.
WithoutHistory ==
    <<slotVars, busy, lock, heapVars, pc, setVars, logVars, mmuVars, nopage>>
=============================================================================
