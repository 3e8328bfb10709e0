---------------------------- MODULE DirtyLogProofs ----------------------------
(***************************************************************************)
(* Proofs about the dirty-log reset (DirtyLog), for every set of pages,    *)
(* page contents and register files that satisfies DirtyLogAssumption.    *)
(***************************************************************************)
EXTENDS DirtyLog, TLAPS

\* The inductive invariant: the types, and every divergence from the
\* reference is tracked.
IInv == TypeOK /\ DivergenceTracked

(* The state after Vm::from_snapshot and a first clone is the reference: *)
(* nothing to track.                                                      *)
LEMMA InitIInv == Init => IInv
<1> SUFFICES ASSUME Init PROVE IInv
  OBVIOUS
<1>1. TypeOK
  BY DEF Init, TypeOK, PtContents, Pages
<1>2. DivergenceTracked
  BY DEF Init, DivergenceTracked
<1>3. QED
  BY <1>1, <1>2 DEF IInv

(* Vm::reset keeps the invariant: a page it does not restore was not in  *)
(* the bitmap, so where it differs the host wrote it.                     *)
LEMMA ResetIInv == IInv /\ Reset => IInv'
<1> SUFFICES ASSUME IInv, Reset PROVE IInv'
  OBVIOUS
<1>1. /\ regs' = ref_regs
      /\ data' = [p \in DataPages |-> IF p \in dlog THEN ref_data[p] ELSE data[p]]
      /\ pt' = IF PtPage \in dlog THEN ref_pt ELSE pt
      /\ dlog' = {}
      /\ written' \subseteq written
      /\ tlb' \subseteq tlb
      /\ UNCHANGED <<ref_data, ref_pt, ref_regs, host_touched>>
  BY DEF Reset, ResetRegs, RestorePages, RestorePt, ClearDirtyLog,
         FlushOnClear, IInv, TypeOK
<1>2. TypeOK'
  BY <1>1 DEF IInv, TypeOK
<1>3. ASSUME NEW p \in DataPages, data'[p] # ref_data'[p]
      PROVE  p \in dlog' \cup host_touched'
  <2>1. p \notin dlog
    BY <1>1, <1>3
  <2>2. data[p] # ref_data[p]
    BY <1>1, <1>3, <2>1
  <2>3. QED
    BY <1>1, <2>1, <2>2 DEF IInv, DivergenceTracked
<1>4. pt' # ref_pt' => PtPage \in dlog' \cup host_touched'
  BY <1>1 DEF IInv, DivergenceTracked
<1>5. QED
  BY <1>2, <1>3, <1>4 DEF IInv, DivergenceTracked

(* The host operations keep the invariant: clone leaves nothing to track,*)
(* a host write is recorded, set_reg touches no page.                     *)
LEMMA HostIInv ==
    ASSUME IInv,
           \/ Clone
           \/ \E r \in RegFiles : SetRegs(r)
           \/ \E p \in DataPages, d \in Data : HostWrite(p, d)
           \/ \E p \in DataPages : Mmap(p)
           \/ ClearDirtyMappings
    PROVE  IInv'
<1>1. CASE Clone
  BY <1>1 DEF Clone, IInv, TypeOK, DivergenceTracked
<1>2. CASE \E r \in RegFiles : SetRegs(r)
  BY <1>2 DEF SetRegs, IInv, TypeOK, DivergenceTracked
<1>3. CASE \E p \in DataPages, d \in Data : HostWrite(p, d)
  <2>1. PICK p \in DataPages, d \in Data : HostWrite(p, d)
    BY <1>3
  <2>2. TypeOK'
    BY <2>1 DEF HostWrite, IInv, TypeOK, Pages
  <2>3. DivergenceTracked'
    BY <2>1 DEF HostWrite, IInv, TypeOK, DivergenceTracked
  <2>4. QED
    BY <2>2, <2>3 DEF IInv
<1>4. CASE \E p \in DataPages : Mmap(p)
  <2>1. PICK p \in DataPages : Mmap(p)
    BY <1>4
  <2>2. TypeOK'
    BY <2>1 DEF Mmap, IInv, TypeOK, Pages, PtContents
  <2>3. DivergenceTracked'
    BY <2>1 DEF Mmap, IInv, TypeOK, DivergenceTracked
  <2>4. QED
    BY <2>2, <2>3 DEF IInv
<1>5. CASE ClearDirtyMappings
  <2>1. TypeOK'
    BY <1>5 DEF ClearDirtyMappings, IInv, TypeOK, Pages, PtContents
  <2>2. DivergenceTracked'
    BY <1>5 DEF ClearDirtyMappings, IInv, TypeOK, DivergenceTracked
  <2>3. QED
    BY <2>1, <2>2 DEF IInv
<1>6. QED
  BY <1>1, <1>2, <1>3, <1>4, <1>5

(* A guest store keeps the invariant: KVM logs the page it writes, and   *)
(* the page-table page whenever the CPU sets a PTE dirty flag.           *)
LEMMA GuestIInv ==
    ASSUME IInv,
           \/ \E p \in DataPages, d \in Data : GuestWrite(p, d)
           \/ \E p \in DataPages : TlbEvict(p)
    PROVE  IInv'
<1>1. CASE \E p \in DataPages, d \in Data : GuestWrite(p, d)
  <2>1. PICK p \in DataPages, d \in Data : GuestWrite(p, d)
    BY <1>1
  <2>2. TypeOK'
    BY <2>1 DEF GuestWrite, IInv, TypeOK, Pages, PtContents
  <2>3. ASSUME NEW q \in DataPages, data'[q] # ref_data'[q]
        PROVE  q \in dlog' \cup host_touched'
    BY <2>1, <2>3 DEF GuestWrite, IInv, TypeOK, DivergenceTracked
  <2>4. pt' # ref_pt' => PtPage \in dlog' \cup host_touched'
    BY <2>1 DEF GuestWrite, IInv, DivergenceTracked
  <2>5. QED
    BY <2>2, <2>3, <2>4 DEF IInv, DivergenceTracked
<1>2. CASE \E p \in DataPages : TlbEvict(p)
  BY <1>2 DEF TlbEvict, IInv, TypeOK, DivergenceTracked
<1>3. QED
  BY <1>1, <1>2

LEMMA NextIInv == IInv /\ [Next]_vars => IInv'
<1> SUFFICES ASSUME IInv, [Next]_vars PROVE IInv'
  OBVIOUS
<1>1. CASE Reset
  BY <1>1, ResetIInv
<1>2. CASE UNCHANGED vars
  BY <1>2 DEF vars, IInv, TypeOK, DivergenceTracked
<1>3. QED
  BY <1>1, <1>2, HostIInv, GuestIInv DEF Next

(* Type correctness of the reset model: every reachable state of the     *)
(* pages, the dirty bitmap and the register mirrors is well typed.       *)
THEOREM TypeCorrect == Spec => []TypeOK
<1>1. Init => IInv
  BY InitIInv
<1>2. IInv /\ [Next]_vars => IInv'
  BY NextIInv
<1>3. IInv => TypeOK
  BY DEF IInv
<1>4. QED
  BY <1>1, <1>2, <1>3, PTL DEF Spec

(* Divergence tracking: whatever the guest, the host and clone do, every *)
(* page in which self differs from the reference is in KVM's dirty       *)
(* bitmap or was written by the host since the clone.                    *)
THEOREM Tracked == Spec => []DivergenceTracked
<1>1. Init => IInv
  BY InitIInv
<1>2. IInv /\ [Next]_vars => IInv'
  BY NextIInv
<1>3. IInv => DivergenceTracked
  BY DEF IInv
<1>4. QED
  BY <1>1, <1>2, <1>3, PTL DEF Spec

(* Reset restores guest writes: every Vm::reset gives back the reference *)
(* registers and every page the host did not write since the clone.      *)
THEOREM ResetRestores == Spec => ResetRestoresGuestWrites
<1>1. Init => IInv
  BY InitIInv
<1>2. IInv /\ [Next]_vars => IInv'
  BY NextIInv
<1>3. IInv /\ Reset =>
        /\ regs' = ref_regs
        /\ \A p \in DataPages \ host_touched : data'[p] = ref_data[p]
        /\ PtPage \notin host_touched => pt' = ref_pt
  BY DEF IInv, TypeOK, DivergenceTracked, Reset, ResetRegs, RestorePages,
         RestorePt
<1>4. QED
  BY <1>1, <1>2, <1>3, PTL DEF Spec, ResetRestoresGuestWrites
=============================================================================
