------------------------------- MODULE ResetWalk -------------------------------
(***************************************************************************)
(* The loop of Vm::reset in src/vm/src/vm.rs at the level of pages: the    *)
(* register copy and KVM_GET_DIRTY_LOG, one dirty page restored per step,  *)
(* lowest frame first as the walk over the bitmap words with               *)
(* trailing_zeros does, then KVM_CLEAR_DIRTY_LOG with the bitmap read.     *)
(* ResetLoop does the same walk on the 64-bit words and is checked to      *)
(* implement this module; this one is shown to implement DirtyLog, whose   *)
(* Reset is one atomic step.  Between resets the host and the guest act as *)
(* in DirtyLog; reset takes &mut self, so nothing else happens while it    *)
(* walks.                                                                  *)
(***************************************************************************)
EXTENDS DirtyLog

VARIABLES
    pc,       \* "idle", or "walk" while Vm::reset runs its loop
    bitmap,   \* the pages of the bitmap KVM_GET_DIRTY_LOG returned
    todo      \* the pages of that bitmap the loop has not restored yet

walkvars == <<pc, bitmap, todo>>
wvars == <<vars, walkvars>>

\* The restore of one page: other.memory.pmem.read into
\* self.memory.pmem.raw_slice_mut(pa, PAGE_SIZE).
RestorePage(page) ==
    /\ data' = IF page \in DataPages
               THEN [data EXCEPT ![page] = ref_data[page]] ELSE data
    /\ pt' = IF page = PtPage THEN ref_pt ELSE pt

\* The registers copied, the memory sizes asserted equal (the same slot),
\* the dirty log read.
WalkBegin ==
    /\ pc = "idle"
    /\ regs' = ResetRegs(ref_regs)
    /\ bitmap' = dlog
    /\ todo' = dlog
    /\ pc' = "walk"
    /\ UNCHANGED <<data, pt, tlb, dlog, ref_data, ref_pt, ref_regs,
                   host_touched, written>>

\* Mutant: only the data pages copied back, the page-table page skipped.
WalkRestoreDataOnly(page) ==
    /\ pc = "walk"
    /\ page \in todo
    /\ \A q \in todo : page <= q
    /\ data' = IF page \in DataPages
               THEN [data EXCEPT ![page] = ref_data[page]] ELSE data
    /\ todo' = todo \ {page}
    /\ UNCHANGED <<pt, tlb, dlog, regs, ref_data, ref_pt, ref_regs,
                   host_touched, written, pc, bitmap>>

\* One turn of the loop: the lowest dirty frame not yet restored is copied
\* from the reference and its bit cleared (bm &= bm - 1).
WalkRestore(page) ==
    /\ pc = "walk"
    /\ page \in todo
    /\ \A q \in todo : page <= q
    /\ RestorePage(page)
    /\ todo' = todo \ {page}
    /\ UNCHANGED <<tlb, dlog, regs, ref_data, ref_pt, ref_regs, host_touched,
                   written, pc, bitmap>>

\* After the last dirty page: KVM_CLEAR_DIRTY_LOG with the bitmap read,
\* which flushes the guest TLB if a bit was set.
WalkEnd ==
    /\ pc = "walk"
    /\ todo = {}
    /\ dlog' = ClearDirtyLog(dlog, bitmap)
    /\ written' = IF PtPage \in bitmap THEN {} ELSE written
    /\ tlb' = FlushOnClear(bitmap, tlb)
    /\ pc' = "idle"
    /\ UNCHANGED <<data, pt, regs, ref_data, ref_pt, ref_regs,
                   host_touched, bitmap, todo>>

\* What the host and the guest do while no reset runs.
HostOrGuest ==
    /\ pc = "idle"
    /\ \/ Clone
       \/ \E r \in RegFiles : SetRegs(r)
       \/ \E p \in DataPages, d \in Data : HostWrite(p, d)
       \/ \E p \in DataPages : Mmap(p)
       \/ ClearDirtyMappings
       \/ \E p \in DataPages, d \in Data : GuestWrite(p, d)
       \/ \E p \in DataPages : TlbEvict(p)
    /\ UNCHANGED walkvars

WInit ==
    /\ Init
    /\ pc = "idle"
    /\ bitmap = {}
    /\ todo = {}

WNext ==
    \/ WalkBegin
    \/ \E page \in Pages : WalkRestore(page)
    \/ WalkEnd
    \/ HostOrGuest

WSpec == WInit /\ [][WNext]_wvars

-----------------------------------------------------------------------------
(* The refinement mapping: a reset in progress seen as done.  The pages   *)
(* still to restore read as the reference's, and the bits of the bitmap    *)
(* read as cleared and the TLB as flushed, from the register copy on.     *)

AbsData == [p \in DataPages |-> IF p \in todo THEN ref_data[p] ELSE data[p]]
AbsPt == IF PtPage \in todo THEN ref_pt ELSE pt
AbsDlog == IF pc = "walk" THEN dlog \ bitmap ELSE dlog
AbsWritten == IF pc = "walk" /\ PtPage \in bitmap THEN {} ELSE written
AbsTlb == IF pc = "walk" THEN FlushOnClear(bitmap, tlb) ELSE tlb

Abs == INSTANCE DirtyLog
         WITH data <- AbsData, pt <- AbsPt, dlog <- AbsDlog,
              written <- AbsWritten, tlb <- AbsTlb

(* The walk implements the atomic reset: restoring the dirty pages one at *)
(* a time, lowest frame first, and then clearing the bitmap that was read  *)
(* restores exactly the pages of the dirty log and clears exactly their   *)
(* bits, with no host or guest step in between.                           *)
WalkRefinesAtomic == Abs!Spec
=============================================================================
