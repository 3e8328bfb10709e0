---------------------------- MODULE MCVmLifecycle ----------------------------
(***************************************************************************)
(* Model-checking instance of VmLifecycle: three Vm values, so that a     *)
(* clone of a clone and a third VM can be alive together, and five host   *)
(* regions, so that a dropped region is handed out again while others    *)
(* are mapped.                                                            *)
(***************************************************************************)
EXTENDS VmLifecycle

CONSTANTS h1, h2, h3, r1, r2, r3, r4, r5

MCHandles == {h1, h2, h3}
MCRegions == {r1, r2, r3, r4, r5}
=============================================================================
