---------------------------- MODULE MCShadowMmu -----------------------------
(* Three virtual pages: two share a page table, the third has tables of    *)
(* its own below another top-level entry.  Frames 0 and 1 are memory of    *)
(* slot 0, frame 2 and 3 are not memory.                                   *)
EXTENDS ShadowMmu, TLC

MCAddr == {<<0, 0, 0>>, <<1, 0, 0>>, <<0, 0, 1>>}
MCSlot == (0 :> 0) @@ (1 :> 0) @@ (2 :> NoSlot) @@ (3 :> NoSlot)
MCIdentity == (<<0, 0, 0>> :> 0) @@ (<<1, 0, 0>> :> 2) @@ (<<0, 0, 1>> :> 1)

Pte(p, w, u, g, f) == [p |-> p, w |-> w, u |-> u, g |-> g, d |-> FALSE, f |-> f]
Pde(p, w, ps, f) == [p |-> p, w |-> w, u |-> TRUE, ps |-> ps, d |-> FALSE, f |-> f]

MCPteStores == {<<0, 0, 0>>} \X {Pte(FALSE, FALSE, FALSE, FALSE, 0)}
MCPdeStores == {<<0, 0>>} \X {Pde(TRUE, TRUE, FALSE, 0), Pde(TRUE, TRUE, TRUE, 0)}

MCInitPtes == {(<<0, 0, 0>> :> Pte(TRUE, TRUE, TRUE, FALSE, 0)) @@
               (<<1, 0, 0>> :> Pte(TRUE, TRUE, FALSE, TRUE, 2)) @@
               (<<0, 0, 1>> :> Pte(TRUE, FALSE, TRUE, TRUE, 1))}
MCInitPdes == [Dirs -> {Pde(TRUE, TRUE, FALSE, 0)}]
=============================================================================
