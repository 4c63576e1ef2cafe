---------------------------- MODULE MCCpuModes ------------------------------
(***************************************************************************)
(* A small instance of CpuModes for TLC.  The values moved to the control  *)
(* registers take every branch of set_cr0, set_cr4 and set_efer.           *)
(***************************************************************************)
EXTENDS CpuModes

MCCr0Values == {{}, {"PE"}, {"PG"}, {"PE", "PG"}, {"PE", "NW"}, {"PE", "RSV"}}
MCCr4Values == {{}, {"PAE"}, {"VMXE"}, {"RSV"}}
MCMswValues == {{}, {"PE"}}
MCEferValues == {{}, {"LME"}, {"LME", "LMA"}, {"RSV"}}
=============================================================================
