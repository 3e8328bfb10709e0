------------------------------- MODULE DirtyLog -------------------------------
(***************************************************************************)
(* The dirty-log reset of src/vm/src/vm.rs: Vm::reset, Clone for Vm, and   *)
(* the host operations that change guest memory (Vm::write, write_value,   *)
(* mmap, clear_dirty_mappings) between them.                               *)
(*                                                                         *)
(* One VM (self of Vm::reset) runs the guest; a reference VM, taken with   *)
(* clone, is what reset restores from.  Guest physical memory is a set of  *)
(* pages: data pages and the page-table page of VirtualMemory, whose PTEs  *)
(* hold the mappings and the dirty flags that dirty_mappings reports.      *)
(*                                                                         *)
(* KVM keeps a dirty bitmap for slot 0 (KVM_MEM_LOG_DIRTY_PAGES with       *)
(* manual protect): a write by the guest to a page sets its bit, the CPU's *)
(* own write of a PTE dirty flag included; a write by the host through its *)
(* mapping of the slot is not seen.  KVM_GET_DIRTY_LOG reads the bitmap,   *)
(* KVM_CLEAR_DIRTY_LOG clears the bits given to it.  The guest's TLB may   *)
(* hold a translation whose dirty flag is already set, in which case a     *)
(* write does not write the PTE again.  The host cannot invalidate it;    *)
(* KVM flushes the guest TLB when KVM_CLEAR_DIRTY_LOG clears a set bit.    *)
(* Registers are one abstract value: reset and clone copy them whole.      *)
(***************************************************************************)
EXTENDS Naturals

CONSTANTS
    DataPages,   \* guest physical data pages (page frame numbers)
    PtPage,      \* the page of VirtualMemory's page table that maps them
    Data,        \* page contents
    RegFiles     \* register files (registers, sregs, FS/GS base together)

ASSUME DirtyLogAssumption ==
    /\ DataPages \subseteq Nat /\ DataPages # {}
    /\ PtPage \in Nat /\ PtPage \notin DataPages
    /\ Data # {}
    /\ RegFiles # {}

\* Every page of slot 0 that the model tracks.
Pages == DataPages \cup {PtPage}

\* The contents of the page-table page: mapped pages, PTE dirty flags.
PtContents == [mapped: SUBSET DataPages, dirty: SUBSET DataPages]

VARIABLES
    data,          \* self.memory.pmem: the data pages
    pt,            \* self.memory.pmem: the page-table page
    tlb,           \* the guest TLB: pages cached with the dirty flag set
    dlog,          \* KVM's dirty bitmap of self's slot 0, as a set of pages
    regs,          \* self.registers, special_registers, fs_base, gs_base
    ref_data,      \* the reference VM's data pages
    ref_pt,        \* the reference VM's page-table page
    ref_regs,      \* the reference VM's register mirror
    host_touched,  \* history: pages the host wrote since the last clone
    written        \* history: pages the guest wrote since the flags were cleared

vars == <<data, pt, tlb, dlog, regs, ref_data, ref_pt, ref_regs,
          host_touched, written>>

-----------------------------------------------------------------------------
(* Vm::reset.                                                              *)

\* Mutant: the register mirror not copied.
ResetRegsKept(other) == regs

\* The registers copied from the reference (reset, 871-875).
ResetRegs(other) == other

\* Mutant: only the first 64-page word of the bitmap walked.
RestorePagesFirstWord(bitmap, mine, theirs) ==
    [p \in DOMAIN mine |-> IF p \in bitmap /\ p < 64 THEN theirs[p] ELSE mine[p]]

\* A page of the bitmap copied from the reference's physical memory, the
\* others left as they are (the loop over the dirty log, 892-917).
RestorePages(bitmap, mine, theirs) ==
    [p \in DOMAIN mine |-> IF p \in bitmap THEN theirs[p] ELSE mine[p]]

\* The page-table page, restored when its bit is in the bitmap.
RestorePt(bitmap, mine, theirs) ==
    IF PtPage \in bitmap THEN theirs ELSE mine

\* KVM_CLEAR_DIRTY_LOG with the bitmap that was read (920-934).
ClearDirtyLog(log, bitmap) == log \ bitmap

\* The guest TLB after KVM_CLEAR_DIRTY_LOG: KVM write-protects the pages
\* whose set bits it clears and flushes the vCPU TLBs, unless no bit was
\* set.
FlushOnClear(bitmap, cached) == IF bitmap = {} THEN cached ELSE {}

\* Vm::reset(&mut self, other): the registers, then KVM_GET_DIRTY_LOG, the
\* restore of every page whose bit is set, then KVM_CLEAR_DIRTY_LOG with
\* the same bitmap, which flushes the guest TLB if a bit was set.
Reset ==
    LET bitmap == dlog
    IN /\ regs' = ResetRegs(ref_regs)
       /\ data' = RestorePages(bitmap, data, ref_data)
       /\ pt' = RestorePt(bitmap, pt, ref_pt)
       /\ dlog' = ClearDirtyLog(dlog, bitmap)
       /\ written' = IF PtPage \in bitmap THEN {} ELSE written
       /\ tlb' = FlushOnClear(bitmap, tlb)
       /\ UNCHANGED <<ref_data, ref_pt, ref_regs, host_touched>>

-----------------------------------------------------------------------------
(* Host operations.                                                        *)

\* Vm::clone taken as the new reference: Vm::new, then the registers and
\* the whole physical memory copied.
Clone ==
    /\ ref_data' = data
    /\ ref_pt' = pt
    /\ ref_regs' = regs
    /\ host_touched' = {}
    /\ UNCHANGED <<data, pt, tlb, dlog, regs, written>>

\* Vm::set_reg, and set_regs_snapshot.
SetRegs(r) ==
    /\ regs' = r
    /\ UNCHANGED <<data, pt, tlb, dlog, ref_data, ref_pt, ref_regs,
                   host_touched, written>>

\* Vm::write and Vm::write_value: VirtualMemory writes through the host
\* mapping of the slot, at a mapped address.
HostWrite(p, d) ==
    /\ p \in pt.mapped
    /\ data' = [data EXCEPT ![p] = d]
    /\ host_touched' = host_touched \cup {p}
    /\ UNCHANGED <<pt, tlb, dlog, regs, ref_data, ref_pt, ref_regs, written>>

\* Mutant: the range mapped with an inclusive end, one page too many.
MmapInclusiveEnd(p) ==
    /\ p \notin pt.mapped
    /\ pt' = [pt EXCEPT !.mapped = @ \cup {p, p + 1}]
    /\ host_touched' = host_touched \cup {PtPage}
    /\ UNCHANGED <<data, tlb, dlog, regs, ref_data, ref_pt, ref_regs, written>>

\* Vm::mmap of a page not yet mapped: VirtualMemory writes the new PTE.
Mmap(p) ==
    /\ p \notin pt.mapped
    /\ pt' = [pt EXCEPT !.mapped = @ \cup {p}]
    /\ host_touched' = host_touched \cup {PtPage}
    /\ UNCHANGED <<data, tlb, dlog, regs, ref_data, ref_pt, ref_regs, written>>

\* Vm::clear_dirty_mappings: every PTE's dirty flag cleared by the host.
ClearDirtyMappings ==
    /\ pt' = [pt EXCEPT !.dirty = {}]
    /\ host_touched' = host_touched \cup {PtPage}
    /\ written' = {}
    /\ UNCHANGED <<data, tlb, dlog, regs, ref_data, ref_pt, ref_regs>>

-----------------------------------------------------------------------------
(* The guest, during Vm::run.                                              *)

\* A guest store to page p, through the TLB or a page walk.  A walk that
\* finds the dirty flag clear writes the PTE; KVM logs both pages.
GuestWrite(p, d) ==
    LET walks == p \notin tlb
        sets_flag == walks /\ p \notin pt.dirty
    IN /\ p \in pt.mapped \/ p \in tlb
       /\ data' = [data EXCEPT ![p] = d]
       /\ pt' = IF sets_flag THEN [pt EXCEPT !.dirty = @ \cup {p}] ELSE pt
       /\ dlog' = dlog \cup {p} \cup (IF sets_flag THEN {PtPage} ELSE {})
       /\ tlb' = tlb \cup {p}
       /\ written' = written \cup {p}
       /\ UNCHANGED <<regs, ref_data, ref_pt, ref_regs, host_touched>>

\* The TLB drops a translation.
TlbEvict(p) ==
    /\ p \in tlb
    /\ tlb' = tlb \ {p}
    /\ UNCHANGED <<data, pt, dlog, regs, ref_data, ref_pt, ref_regs,
                   host_touched, written>>

-----------------------------------------------------------------------------
(* A VM loaded by Vm::from_snapshot (its pages and mappings written by the *)
(* host, so none in the dirty log), and a first clone of it taken as the   *)
(* reference.                                                              *)
Init ==
    /\ data \in [DataPages -> Data]
    /\ pt \in PtContents /\ pt.dirty = {}
    /\ tlb = {}
    /\ dlog = {}
    /\ regs \in RegFiles
    /\ ref_data = data
    /\ ref_pt = pt
    /\ ref_regs = regs
    /\ host_touched = {}
    /\ written = {}

Next ==
    \/ Reset
    \/ Clone
    \/ \E r \in RegFiles : SetRegs(r)
    \/ \E p \in DataPages, d \in Data : HostWrite(p, d)
    \/ \E p \in DataPages : Mmap(p)
    \/ ClearDirtyMappings
    \/ \E p \in DataPages, d \in Data : GuestWrite(p, d)
    \/ \E p \in DataPages : TlbEvict(p)

Spec == Init /\ [][Next]_vars

-----------------------------------------------------------------------------
(* Properties.                                                             *)

TypeOK ==
    /\ data \in [DataPages -> Data]
    /\ pt \in PtContents
    /\ tlb \subseteq DataPages
    /\ dlog \subseteq Pages
    /\ regs \in RegFiles
    /\ ref_data \in [DataPages -> Data]
    /\ ref_pt \in PtContents
    /\ ref_regs \in RegFiles
    /\ host_touched \subseteq Pages
    /\ written \subseteq DataPages

(* Divergence tracking: every page in which self differs from the         *)
(* reference is in KVM's dirty bitmap, or was written by the host since   *)
(* the clone.  It is what lets Vm::reset restore from the dirty log only: *)
(* it relies on the CPU's PTE dirty-flag writes being logged, on clone    *)
(* copying every page, and on reset clearing exactly the bits it restored.*)
DivergenceTracked ==
    /\ \A p \in DataPages :
          data[p] # ref_data[p] => p \in dlog \cup host_touched
    /\ pt # ref_pt => PtPage \in dlog \cup host_touched

(* Reset restores guest writes: after Vm::reset, the registers are the    *)
(* reference's, and so is every page the host did not write since the     *)
(* clone: whatever the guest wrote, through any mix of runs, TLB hits and *)
(* PTE dirty-flag updates, is undone.                                     *)
ResetRestoresGuestWrites ==
    [][Reset =>
         /\ regs' = ref_regs
         /\ \A p \in DataPages \ host_touched : data'[p] = ref_data[p]
         /\ PtPage \notin host_touched => pt' = ref_pt]_vars

(* Reset correctness (spec section 8): after Vm::reset(ref), every page   *)
(* of self reads as the reference's.                                      *)
ResetCorrect ==
    [][Reset => data' = ref_data /\ pt' = ref_pt]_vars

(* Dirty mappings (spec 4.5, scenario 2): every page the guest wrote      *)
(* since Vm::clear_dirty_mappings is reported by Vm::dirty_mappings.      *)
DirtyMappingsComplete == written \subseteq pt.dirty
=============================================================================
