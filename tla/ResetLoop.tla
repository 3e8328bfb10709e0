------------------------------- MODULE ResetLoop -------------------------------
(***************************************************************************)
(* Vm::reset of src/vm/src/vm.rs step by step: the register copy and       *)
(* KVM_GET_DIRTY_LOG, the walk over the 64-bit words of the bitmap with    *)
(* trailing_zeros and bm &= bm - 1, one page restored per step, and        *)
(* KVM_CLEAR_DIRTY_LOG with the bitmap that was walked.  Between resets    *)
(* the host and the guest act as in DirtyLog; reset takes &mut self, so    *)
(* nothing else happens while it walks.                                    *)
(*                                                                         *)
(* It implements DirtyLog, whose Reset is one atomic step: the refinement  *)
(* mapping shows the pages still to be restored as restored and their     *)
(* bits as cleared, from the register copy on.                             *)
(***************************************************************************)
EXTENDS DirtyLog, Bitwise, FiniteSetsExt

CONSTANT NumPages   \* host_memory_size / PAGE_SIZE: the pages of slot 0

ASSUME ResetLoopAssumption ==
    /\ NumPages \in Nat \ {0}
    /\ Pages \subseteq 0 .. NumPages - 1

VARIABLES
    pc,         \* "idle", or "walk" while Vm::reset runs its loop
    dirty_log,  \* the bitmap KVM_GET_DIRTY_LOG returned, as words
    bm_index,   \* the index of the word being walked
    bm          \* what is left of that word

loopvars == <<pc, dirty_log, bm_index, bm>>
allvars == <<vars, loopvars>>

WordBits == 64

\* The words of a bitmap over the slot's pages.
NumWords == (NumPages + WordBits - 1) \div WordBits

\* The bits set in a word, from bit b on: the reference definition.
RECURSIVE SetBitsFrom(_, _)
SetBitsFrom(x, b) ==
    IF x = 0 THEN {}
    ELSE (IF x % 2 = 1 THEN {b} ELSE {}) \cup SetBitsFrom(x \div 2, b + 1)

\* The pages whose bits are set in word w of a bitmap.
WordPages(words, w) == {w * WordBits + b : b \in SetBitsFrom(words[w], 0)}

BitmapPages(words) == UNION {WordPages(words, w) : w \in DOMAIN words}

\* KVM_GET_DIRTY_LOG: bit b of word w is set when page w * 64 + b is dirty.
KvmBitmap(log) ==
    [w \in 0 .. NumWords - 1 |->
        MapThenSumSet(LAMBDA b : 2^b,
                      {b \in 0 .. WordBits - 1 : w * WordBits + b \in log})]

-----------------------------------------------------------------------------
(* The loop of Vm::reset.                                                  *)

\* Mutant: the highest set bit taken (63 - leading_zeros) for the lowest.
TrailingZerosHighest(x) ==
    CHOOSE i \in 0 .. WordBits - 1 : x \div 2^i = 1

\* u64::trailing_zeros of a non-zero word: the index of its lowest set bit.
TrailingZeros(x) ==
    CHOOSE i \in 0 .. WordBits - 1 : x % 2^i = 0 /\ (x \div 2^i) % 2 = 1

\* Mutant: the word index scaled by the bytes of a word, not its bits.
PageOfByteStride(index, i) == index * 8 + i

\* pa = (bm_index * 64 + i) * PAGE_SIZE, as a page frame number.
PageOf(index, i) == index * WordBits + i

\* Mutant: the set bit never cleared.
ClearLowestMissing(x) == x

\* bm &= bm - 1
ClearLowest(x) == x & (x - 1)

\* The restore of one page: other.memory.pmem.read into
\* self.memory.pmem.raw_slice_mut(pa, PAGE_SIZE).
CopyPage(page) ==
    /\ data' = IF page \in DataPages
               THEN [data EXCEPT ![page] = ref_data[page]] ELSE data
    /\ pt' = IF page = PtPage THEN ref_pt ELSE pt

\* The registers copied, the memory sizes asserted equal (the same slot),
\* the dirty log read; the for loop starts at word 0.
ResetBegin ==
    /\ pc = "idle"
    /\ regs' = ResetRegs(ref_regs)
    /\ dirty_log' = KvmBitmap(dlog)
    /\ bm_index' = 0
    /\ bm' = KvmBitmap(dlog)[0]
    /\ pc' = "walk"
    /\ UNCHANGED <<data, pt, tlb, dlog, ref_data, ref_pt, ref_regs,
                   host_touched, written>>

\* One turn of while bm != 0: the lowest dirty page restored, its bit
\* cleared.
RestoreNext ==
    /\ pc = "walk"
    /\ bm # 0
    /\ CopyPage(PageOf(bm_index, TrailingZeros(bm)))
    /\ bm' = ClearLowest(bm)
    /\ UNCHANGED <<tlb, dlog, regs, ref_data, ref_pt, ref_regs, host_touched,
                   written, pc, dirty_log, bm_index>>

\* The for loop moves to the next word of the bitmap.
NextWord ==
    /\ pc = "walk"
    /\ bm = 0
    /\ bm_index + 1 < NumWords
    /\ bm_index' = bm_index + 1
    /\ bm' = dirty_log[bm_index + 1]
    /\ UNCHANGED <<vars, pc, dirty_log>>

\* After the last word: KVM_CLEAR_DIRTY_LOG with the bitmap walked, which
\* flushes the guest TLB if a bit was set.
ResetEnd ==
    /\ pc = "walk"
    /\ bm = 0
    /\ bm_index + 1 = NumWords
    /\ dlog' = ClearDirtyLog(dlog, BitmapPages(dirty_log))
    /\ written' = IF PtPage \in BitmapPages(dirty_log) THEN {} ELSE written
    /\ tlb' = FlushOnClear(BitmapPages(dirty_log), tlb)
    /\ pc' = "idle"
    /\ UNCHANGED <<data, pt, regs, ref_data, ref_pt, ref_regs,
                   host_touched, dirty_log, bm_index, bm>>

\* What the host and the guest do while no reset runs.
Between ==
    /\ pc = "idle"
    /\ \/ Clone
       \/ \E r \in RegFiles : SetRegs(r)
       \/ \E p \in DataPages, d \in Data : HostWrite(p, d)
       \/ \E p \in DataPages : Mmap(p)
       \/ ClearDirtyMappings
       \/ \E p \in DataPages, d \in Data : GuestWrite(p, d)
       \/ \E p \in DataPages : TlbEvict(p)
    /\ UNCHANGED loopvars

Walk == RestoreNext \/ NextWord \/ ResetEnd

LInit ==
    /\ Init
    /\ pc = "idle"
    /\ dirty_log = [w \in 0 .. NumWords - 1 |-> 0]
    /\ bm_index = 0
    /\ bm = 0

LNext == ResetBegin \/ Walk \/ Between

\* Vm::reset runs its loop to the end without waiting on anything.
LSpec == LInit /\ [][LNext]_allvars /\ WF_allvars(Walk)

-----------------------------------------------------------------------------
(* Properties.                                                             *)

\* The pages the walk has still to restore.
Pending ==
    IF pc = "walk"
    THEN {PageOf(bm_index, b) : b \in SetBitsFrom(bm, 0)}
         \cup UNION {WordPages(dirty_log, w) :
                       w \in bm_index + 1 .. NumWords - 1}
    ELSE {}

\* A reset in progress, seen as done.
AbsData == [p \in DataPages |-> IF p \in Pending THEN ref_data[p] ELSE data[p]]
AbsPt == IF PtPage \in Pending THEN ref_pt ELSE pt
AbsDlog == IF pc = "walk" THEN dlog \ BitmapPages(dirty_log) ELSE dlog
AbsWritten ==
    IF pc = "walk" /\ PtPage \in BitmapPages(dirty_log) THEN {} ELSE written
AbsTlb == IF pc = "walk" THEN FlushOnClear(BitmapPages(dirty_log), tlb) ELSE tlb

Abs == INSTANCE DirtyLog
         WITH data <- AbsData, pt <- AbsPt, dlog <- AbsDlog,
              written <- AbsWritten, tlb <- AbsTlb

(* The loop implements the atomic reset: walking the words of the dirty   *)
(* bitmap with trailing_zeros and bm &= bm - 1, restoring page             *)
(* bm_index * 64 + i, and clearing the walked bitmap restores exactly the *)
(* dirty pages and clears exactly their bits.                             *)
ResetRefinesAtomic == Abs!Spec

\* The same loop seen page by page: the bitmap read, and the pages still to
\* restore.
SetWalk == INSTANCE ResetWalk WITH bitmap <- BitmapPages(dirty_log),
                                   todo <- Pending

(* The word loop is the page loop of ResetWalk: KVM_GET_DIRTY_LOG read    *)
(* into words is the set of dirty pages, each turn of while bm != 0       *)
(* restores the lowest frame still pending (trailing_zeros, then           *)
(* bm &= bm - 1), moving to the next word restores nothing, and the clear *)
(* comes once no page is pending.  With ResetWalkProofs, which proves     *)
(* ResetWalk implements the atomic reset, it gives the chain from the     *)
(* code's loop to DirtyLog.                                               *)
LoopRefinesWalk == SetWalk!WSpec

(* Vm::reset returns: once the walk starts, it reaches the                *)
(* KVM_CLEAR_DIRTY_LOG and ends.                                          *)
WalkTerminates == pc = "walk" ~> pc = "idle"
=============================================================================
