--------------------------- MODULE MCVmcsPlacement ---------------------------
(* An instance of VmcsPlacement for TLC.                                     *)
EXTENDS VmcsPlacement, TLC

CONSTANTS v1, v2, t1, t2

\* One thread per virtual machine.
OneEach == t1 :> v1 @@ t2 :> v2
=============================================================================
