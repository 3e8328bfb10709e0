-------------------------- MODULE VmLifecycleProofs --------------------------
(* Proofs about VmLifecycle: for any number of Vm values and host regions, *)
(* Vm::new, clone and drop keep every VM isolated.                         *)
EXTENDS VmLifecycle, TLAPS

\* The invariant the proof carries: the types, and isolation itself.  It is
\* inductive because a region handed out is not mapped, so it is the memory
\* of no live VM, and a drop unmaps only the memory of the Vm dropped.
IInv == TypeOK /\ Isolated

LEMMA InitIInv == Init => IInv
BY DEF Init, IInv, TypeOK, Isolated

LEMMA NextIInv == IInv /\ [Next]_vars => IInv'
<1> SUFFICES ASSUME IInv, [Next]_vars PROVE IInv'
    OBVIOUS
<1> USE DEF IInv, TypeOK, Isolated
<1>1. ASSUME NEW h \in Handles, NEW m \in Regions, New(h, m) PROVE IInv'
    BY <1>1 DEF New
<1>2. ASSUME NEW src \in Handles, NEW h \in Handles, NEW m \in Regions,
             Clone(src, h, m)
      PROVE IInv'
    BY <1>2 DEF Clone, New
<1>3. ASSUME NEW h \in Handles, Drop(h) PROVE IInv'
    BY <1>3 DEF Drop
<1>4. CASE UNCHANGED vars
    BY <1>4 DEF vars
<1>5. QED
    BY <1>1, <1>2, <1>3, <1>4 DEF Next

(* Clone for Vm, Vm::new and drop, in any order and any number, leave the *)
(* guest of every live VM on memory that VM alone owns (spec 4.7 and 5).  *)
THEOREM LifecycleIsolated == Spec => []Isolated
<1>1. Init => IInv
    BY InitIInv
<1>2. IInv /\ [Next]_vars => IInv'
    BY NextIInv
<1>3. IInv => Isolated
    BY DEF IInv
<1>4. QED
    BY <1>1, <1>2, <1>3, PTL DEF Spec
=============================================================================
