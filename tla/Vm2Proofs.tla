------------------------------ MODULE Vm2Proofs ------------------------------
(* Proofs about Vm2, the prototype of src/vm2: for any number of Vm values, *)
(* regions, pages and contents, no two live VMs share host memory.          *)
EXTENDS Vm2, TLAPS

\* The invariant the proof carries: the types, and exclusive memory.  The
\* types are needed because mmap, write and drop index vmem by memory[h].
IInv == TypeOK /\ HostMemoryExclusive

LEMMA FreshVMemType == FreshVMem \in VMem
BY Vm2Assumption DEF FreshVMem, VMem

LEMMA InitIInv == Init => IInv
BY Vm2Assumption, FreshVMemType DEF Init, IInv, TypeOK, HostMemoryExclusive

\* The region of a live VM is a region, so vmem may be indexed by it.
LEMMA LiveRegion ==
    ASSUME IInv, NEW h \in live
    PROVE  memory[h] \in Regions
BY DEF IInv, TypeOK, HostMemoryExclusive

LEMMA NextIInv == IInv /\ [Next]_vars => IInv'
<1> SUFFICES ASSUME IInv, [Next]_vars PROVE IInv'
    OBVIOUS
<1> USE DEF IInv, TypeOK, HostMemoryExclusive
<1>1. ASSUME NEW h \in Handles, NEW m \in Regions, New(h, m) PROVE IInv'
    BY <1>1, FreshVMemType, Vm2Assumption DEF New
<1>2. ASSUME NEW h \in Handles, NEW r \in RegFiles, SetReg(h, r) PROVE IInv'
    BY <1>2 DEF SetReg
<1>3. ASSUME NEW h \in Handles, NEW p \in Pages, Mmap(h, p) PROVE IInv'
    <2>1. memory[h] \in Regions
        BY <1>3, LiveRegion DEF Mmap
    <2>2. QED
        BY <1>3, <2>1 DEF Mmap, VMem
<1>4. ASSUME NEW h \in Handles, NEW p \in Pages, NEW d \in Data,
             Write(h, p, d)
      PROVE IInv'
    <2>1. memory[h] \in Regions
        BY <1>4, LiveRegion DEF Write
    <2>2. QED
        BY <1>4, <2>1 DEF Write, VMem
<1>5. ASSUME NEW h \in Handles, NEW p \in Pages, NEW d \in Data,
             ReadValue(h, p, d)
      PROVE IInv'
    <2>1. memory[h] \in Regions
        BY <1>5, LiveRegion DEF ReadValue, Write
    <2>2. QED
        BY <1>5, <2>1 DEF ReadValue, Write, VMem
<1>6. ASSUME NEW src \in Handles, NEW h \in Handles,
             NEW m1 \in Regions, NEW m2 \in Regions,
             CloneVm(src, h, m1, m2)
      PROVE IInv'
    <2>1. memory[src] \in Regions
        BY <1>6, LiveRegion DEF CloneVm
    <2>2. QED
        BY <1>6, <2>1 DEF CloneVm
<1>7. ASSUME NEW h \in Handles, Drop(h) PROVE IInv'
    <2>1. memory[h] \in Regions
        BY <1>7, LiveRegion DEF Drop
    <2>2. QED
        BY <1>7, <2>1, FreshVMemType DEF Drop
<1>8. CASE UNCHANGED vars
    BY <1>8 DEF vars
<1>9. QED
    BY <1>1, <1>2, <1>3, <1>4, <1>5, <1>6, <1>7, <1>8 DEF Next

(* Vm::new, set_reg, mmap, write, read_value, clone and drop, in any      *)
(* order, leave the VirtualMemory of every live Vm mapped and owned by it *)
(* alone: the copy clone makes is a memory of its own.                    *)
THEOREM Vm2MemoryExclusive == Spec => []HostMemoryExclusive
<1>1. Init => IInv
    BY InitIInv
<1>2. IInv /\ [Next]_vars => IInv'
    BY NextIInv
<1>3. IInv => HostMemoryExclusive
    BY DEF IInv
<1>4. QED
    BY <1>1, <1>2, <1>3, PTL DEF Spec
=============================================================================
