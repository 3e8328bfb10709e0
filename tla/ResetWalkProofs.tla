---------------------------- MODULE ResetWalkProofs ----------------------------
(* Proof that the page-by-page loop of Vm::reset (ResetWalk) implements    *)
(* the atomic reset of DirtyLog, for every set of pages, contents and      *)
(* register files.                                                         *)
EXTENDS ResetWalk, TLAPS

\* The invariant the refinement needs: the types of DirtyLog, and that no
\* page is pending while no reset runs, so that between resets the mapping
\* is the identity.
WInv ==
    /\ TypeOK
    /\ pc \in {"idle", "walk"}
    /\ pc = "idle" => todo = {}
    /\ todo \subseteq Pages
    /\ bitmap \subseteq Pages

LEMMA WInitInv == WInit => WInv
BY DEF WInit, Init, WInv, TypeOK, PtContents, Pages

LEMMA WNextInv == WInv /\ [WNext]_wvars => WInv'
<1> SUFFICES ASSUME WInv, [WNext]_wvars PROVE WInv'
    OBVIOUS
<1>1. CASE WalkBegin
    BY <1>1, DirtyLogAssumption DEF WalkBegin, ResetRegs, WInv, TypeOK
<1>2. ASSUME NEW page \in Pages, WalkRestore(page) PROVE WInv'
    BY <1>2 DEF WalkRestore, RestorePage, WInv, TypeOK
<1>3. CASE WalkEnd
    BY <1>3 DEF WalkEnd, ClearDirtyLog, FlushOnClear, WInv, TypeOK
<1>4. CASE HostOrGuest
    <2> USE DEF WInv, TypeOK, walkvars
    <2>1. CASE Clone
        BY <1>4, <2>1 DEF HostOrGuest, Clone
    <2>2. ASSUME NEW r \in RegFiles, SetRegs(r) PROVE WInv'
        BY <1>4, <2>2 DEF HostOrGuest, SetRegs
    <2>3. ASSUME NEW p \in DataPages, NEW d \in Data, HostWrite(p, d)
          PROVE WInv'
        BY <1>4, <2>3 DEF HostOrGuest, HostWrite, Pages
    <2>4. ASSUME NEW p \in DataPages, Mmap(p) PROVE WInv'
        BY <1>4, <2>4 DEF HostOrGuest, Mmap, Pages, PtContents
    <2>5. CASE ClearDirtyMappings
        BY <1>4, <2>5 DEF HostOrGuest, ClearDirtyMappings, Pages, PtContents
    <2>6. ASSUME NEW p \in DataPages, NEW d \in Data, GuestWrite(p, d)
          PROVE WInv'
        BY <1>4, <2>6 DEF HostOrGuest, GuestWrite, Pages, PtContents
    <2>7. ASSUME NEW p \in DataPages, TlbEvict(p) PROVE WInv'
        BY <1>4, <2>7 DEF HostOrGuest, TlbEvict
    <2>8. QED
        BY <1>4, <2>1, <2>2, <2>3, <2>4, <2>5, <2>6, <2>7 DEF HostOrGuest
<1>5. CASE UNCHANGED wvars
    BY <1>5 DEF wvars, walkvars, vars, WInv, TypeOK
<1>6. QED
    BY <1>1, <1>2, <1>3, <1>4, <1>5 DEF WNext

\* Between resets the mapping is the identity.
LEMMA IdleMapping ==
    ASSUME TypeOK, pc = "idle", todo = {}
    PROVE  /\ AbsData = data
           /\ AbsPt = pt
           /\ AbsDlog = dlog
           /\ AbsWritten = written
           /\ AbsTlb = tlb
BY DEF TypeOK, AbsData, AbsPt, AbsDlog, AbsWritten, AbsTlb

\* The register copy and KVM_GET_DIRTY_LOG are the atomic reset: from
\* there on, the mapping shows every page of the bitmap restored, its
\* bit cleared and the TLB flushed.
LEMMA BeginIsReset ==
    ASSUME WInv, WalkBegin
    PROVE  Abs!Reset
<1>1. pc = "idle" /\ todo = {} /\ pc' = "walk" /\ todo' = dlog /\ bitmap' = dlog
    BY DEF WInv, WalkBegin
<1>2. AbsData = data /\ AbsPt = pt /\ AbsDlog = dlog /\ AbsWritten = written
      /\ AbsTlb = tlb
    BY <1>1, IdleMapping DEF WInv
<1>3. AbsData' = RestorePages(dlog, data, ref_data)
    BY <1>1 DEF WInv, TypeOK, WalkBegin, AbsData, RestorePages
<1>4. AbsPt' = RestorePt(dlog, pt, ref_pt)
    BY <1>1 DEF WalkBegin, AbsPt, RestorePt
<1>5. AbsDlog' = ClearDirtyLog(dlog, dlog)
    BY <1>1 DEF WalkBegin, AbsDlog, ClearDirtyLog
<1>6. AbsWritten' = IF PtPage \in dlog THEN {} ELSE written
    BY <1>1 DEF WalkBegin, AbsWritten
<1>7. AbsTlb' = FlushOnClear(dlog, tlb)
    BY <1>1 DEF WalkBegin, AbsTlb
<1>8. QED
    BY <1>2, <1>3, <1>4, <1>5, <1>6, <1>7
    DEF WalkBegin, Abs!Reset, FlushOnClear, Abs!FlushOnClear, ResetRegs, Abs!ResetRegs, RestorePages,
        Abs!RestorePages, RestorePt, Abs!RestorePt, ClearDirtyLog,
        Abs!ClearDirtyLog

\* Restoring one pending page changes nothing the mapping shows: the page
\* already read as the reference's.
LEMMA RestoreStutters ==
    ASSUME WInv, NEW page \in Pages, WalkRestore(page)
    PROVE  UNCHANGED <<AbsData, AbsPt, AbsDlog, AbsWritten, AbsTlb>>
<1>1. AbsData' = AbsData
    BY DEF WInv, TypeOK, WalkRestore, RestorePage, AbsData
<1>2. AbsPt' = AbsPt
    BY DEF WalkRestore, RestorePage, AbsPt
<1>3. AbsDlog' = AbsDlog /\ AbsWritten' = AbsWritten /\ AbsTlb' = AbsTlb
    BY DEF WalkRestore, AbsDlog, AbsWritten, AbsTlb
<1>4. QED
    BY <1>1, <1>2, <1>3

\* KVM_CLEAR_DIRTY_LOG after the last page changes nothing the mapping
\* shows: the bits already read as cleared.
LEMMA EndStutters ==
    ASSUME WInv, WalkEnd
    PROVE  UNCHANGED <<AbsData, AbsPt, AbsDlog, AbsWritten, AbsTlb>>
BY DEF WInv, TypeOK, WalkEnd, AbsData, AbsPt, AbsDlog, AbsWritten, AbsTlb,
       ClearDirtyLog

\* Every step of the walk is a step of DirtyLog, or leaves it unchanged.
LEMMA WalkStep == WInv /\ [WNext]_wvars => [Abs!Next]_Abs!vars
<1> SUFFICES ASSUME WInv, [WNext]_wvars PROVE [Abs!Next]_Abs!vars
    OBVIOUS
<1>1. CASE WalkBegin
    BY <1>1, BeginIsReset DEF Abs!Next
<1>2. ASSUME NEW page \in Pages, WalkRestore(page) PROVE [Abs!Next]_Abs!vars
    BY <1>2, RestoreStutters DEF WalkRestore, Abs!vars
<1>3. CASE WalkEnd
    BY <1>3, EndStutters DEF WalkEnd, Abs!vars
<1>4. CASE HostOrGuest
    <2>1. pc = "idle" /\ todo = {} /\ pc' = "idle" /\ todo' = {}
        BY <1>4 DEF HostOrGuest, WInv, walkvars
    <2>2. TypeOK'
        BY <1>4, WNextInv DEF WInv, WNext
    <2>3. AbsData = data /\ AbsPt = pt /\ AbsDlog = dlog /\ AbsWritten = written
          /\ AbsTlb = tlb
        BY <2>1, IdleMapping DEF WInv
    <2>4. AbsData' = data' /\ AbsPt' = pt' /\ AbsDlog' = dlog'
          /\ AbsWritten' = written' /\ AbsTlb' = tlb'
        BY <2>1, <2>2 DEF TypeOK, AbsData, AbsPt, AbsDlog, AbsWritten, AbsTlb
    <2> USE <2>3, <2>4
    <2>5. CASE Clone
        BY <2>5 DEF Clone, Abs!Clone, Abs!Next
    <2>6. ASSUME NEW r \in RegFiles, SetRegs(r) PROVE Abs!Next
        BY <2>6 DEF SetRegs, Abs!SetRegs, Abs!Next
    <2>7. ASSUME NEW p \in DataPages, NEW d \in Data, HostWrite(p, d)
          PROVE Abs!Next
        BY <2>7 DEF HostWrite, Abs!HostWrite, Abs!Next
    <2>8. ASSUME NEW p \in DataPages, Mmap(p) PROVE Abs!Next
        BY <2>8 DEF Mmap, Abs!Mmap, Abs!Next
    <2>9. CASE ClearDirtyMappings
        BY <2>9 DEF ClearDirtyMappings, Abs!ClearDirtyMappings, Abs!Next
    <2>10. ASSUME NEW p \in DataPages, NEW d \in Data, GuestWrite(p, d)
           PROVE Abs!Next
        BY <2>10 DEF GuestWrite, Abs!GuestWrite, Abs!Next
    <2>11. ASSUME NEW p \in DataPages, TlbEvict(p) PROVE Abs!Next
        BY <2>11 DEF TlbEvict, Abs!TlbEvict, Abs!Next
    <2>12. QED
        BY <1>4, <2>5, <2>6, <2>7, <2>8, <2>9, <2>10, <2>11 DEF HostOrGuest
<1>5. CASE UNCHANGED wvars
    BY <1>5 DEF wvars, vars, walkvars, Abs!vars, AbsData, AbsPt, AbsDlog,
               AbsWritten, AbsTlb
<1>6. QED
    BY <1>1, <1>2, <1>3, <1>4, <1>5 DEF WNext

(* Vm::reset's loop, restoring the dirty pages one by one, lowest frame   *)
(* first, and clearing the bitmap it read after the last one, implements  *)
(* the atomic reset of DirtyLog under the mapping that shows a reset in   *)
(* progress as done.                                                      *)
THEOREM WalkImplementsReset == WSpec => WalkRefinesAtomic
<1>1. WSpec => []WInv
    BY WInitInv, WNextInv, PTL DEF WSpec
<1>2. WInit => Abs!Init
    <2> SUFFICES ASSUME WInit PROVE Abs!Init
        OBVIOUS
    <2>1. TypeOK /\ pc = "idle" /\ todo = {}
        BY WInitInv DEF WInit, WInv
    <2>2. AbsData = data /\ AbsPt = pt /\ AbsDlog = dlog /\ AbsWritten = written
          /\ AbsTlb = tlb
        BY <2>1, IdleMapping
    <2>3. QED
        BY <2>2 DEF WInit, Init, Abs!Init, PtContents, Abs!PtContents
<1>3. QED
    BY <1>1, <1>2, WalkStep, PTL DEF WSpec, WalkRefinesAtomic, Abs!Spec
=============================================================================
