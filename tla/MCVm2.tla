-------------------------------- MODULE MCVm2 --------------------------------
(* Vm2 for TLC: three Vm values, four host regions (a clone takes two),   *)
(* one guest page with two contents and two register files.               *)
EXTENDS Vm2

CONSTANTS h1, h2, h3, r1, r2, r3, r4, p1, rA, rB

MCHandles == {h1, h2, h3}
MCRegions == {r1, r2, r3, r4}
MCPages == {p1}
MCData == {0, 1}
MCRegFiles == {rA, rB}
=============================================================================
