--------------------------------- MODULE Vm2 ---------------------------------
(***************************************************************************)
(* The prototype VM of src/vm2/src/vm.rs: Vm::new, set_reg, mmap, write,   *)
(* read_value, clone and drop.  It has no run loop.                        *)
(*                                                                         *)
(* Each Vm owns a VirtualMemory mapped at a host region, and a KVM VM      *)
(* whose slot 0 setup_barebones points at that region.  A VirtualMemory    *)
(* is seen through the guest pages the host maps into it and their        *)
(* contents; the control pages that setup_exception_handling maps are not  *)
(* among them.  As in VmLifecycle, mmap hands out a region that is not     *)
(* mapped, possibly one unmapped before, and a call that returns Err       *)
(* drops what it built and is no step.                                     *)
(***************************************************************************)
EXTENDS FiniteSets

CONSTANTS
    Handles,   \* the Vm values the program may hold
    Regions,   \* host address ranges a VirtualMemory may be mapped at
    NoRegion,  \* the resource of a Vm not alive
    Pages,     \* guest pages the host maps
    Data,      \* page contents; 0 is a zeroed page
    RegFiles,  \* values of Vm.registers and Vm.special_registers together
    InitRegs   \* the registers Vm::new leaves: Default, then setup_registers

ASSUME Vm2Assumption ==
    /\ IsFiniteSet(Handles) /\ Handles # {}
    /\ IsFiniteSet(Regions) /\ Regions # {}
    /\ NoRegion \notin Regions
    /\ Pages # {} /\ 0 \in Data /\ InitRegs \in RegFiles

\* What a VirtualMemory holds of the guest pages.
VMem == [pages: SUBSET Pages, data: [Pages -> Data]]
FreshVMem == [pages |-> {}, data |-> [p \in Pages |-> 0]]

VARIABLES
    live,     \* the Vm values alive
    memory,   \* the region of Vm.memory, per Vm
    slot,     \* the userspace_addr of KVM slot 0, per Vm
    mapped,   \* the host regions mapped
    vmem,     \* the VirtualMemory at each host region
    regs      \* Vm.registers and Vm.special_registers, per Vm

vars == <<live, memory, slot, mapped, vmem, regs>>

-----------------------------------------------------------------------------
(* Vm::new: setup_barebones maps a fresh VirtualMemory, creates the KVM   *)
(* VM and vCPU, points slot 0 at the memory and reads the special         *)
(* registers; setup_registers and setup_exception_handling write them and *)
(* the control pages.                                                     *)
New(h, m) ==
    /\ h \notin live
    /\ m \notin mapped
    /\ live' = live \cup {h}
    /\ memory' = [memory EXCEPT ![h] = m]
    /\ slot' = [slot EXCEPT ![h] = m]
    /\ mapped' = mapped \cup {m}
    /\ vmem' = [vmem EXCEPT ![m] = FreshVMem]
    /\ regs' = [regs EXCEPT ![h] = InitRegs]

\* Vm::set_reg.
SetReg(h, r) ==
    /\ h \in live
    /\ regs' = [regs EXCEPT ![h] = r]
    /\ UNCHANGED <<live, memory, slot, mapped, vmem>>

\* Vm::mmap of a page not mapped yet.
Mmap(h, p) ==
    /\ h \in live
    /\ p \notin vmem[memory[h]].pages
    /\ vmem' = [vmem EXCEPT ![memory[h]].pages = @ \cup {p}]
    /\ UNCHANGED <<live, memory, slot, mapped, regs>>

\* Vm::write to a mapped page.
Write(h, p, d) ==
    /\ h \in live
    /\ p \in vmem[memory[h]].pages
    /\ vmem' = [vmem EXCEPT ![memory[h]].data[p] = d]
    /\ UNCHANGED <<live, memory, slot, mapped, regs>>

\* Vm::read_value(address, val): memory.write_val(address, val), a write.
ReadValue(h, p, d) == Write(h, p, d)

\* Mutant: VirtualMemory::clone handing back the same mapping.
CloneMemoryShared(src, h, m1, m2) ==
    /\ src \in live
    /\ h \notin live
    /\ m1 \notin mapped /\ m2 \notin mapped /\ m1 # m2
    /\ live' = live \cup {h}
    /\ slot' = [slot EXCEPT ![h] = m1]
    /\ memory' = [memory EXCEPT ![h] = memory[src]]
    /\ UNCHANGED <<mapped, vmem>>
    /\ regs' = [regs EXCEPT ![h] = regs[src]]

\* Vm::clone: setup_barebones maps a fresh VirtualMemory at m1 and points
\* the new slot 0 at it; the registers are copied; self.memory.clone()
\* maps a copy at m2 and the assignment drops the memory at m1, whose
\* region is unmapped.  Slot 0 still points at m1.
CloneVm(src, h, m1, m2) ==
    /\ src \in live
    /\ h \notin live
    /\ m1 \notin mapped /\ m2 \notin mapped /\ m1 # m2
    /\ live' = live \cup {h}
    /\ slot' = [slot EXCEPT ![h] = m1]
    /\ memory' = [memory EXCEPT ![h] = m2]
    /\ mapped' = mapped \cup {m2}
    /\ vmem' = [vmem EXCEPT ![m2] = vmem[memory[src]]]
    /\ regs' = [regs EXCEPT ![h] = regs[src]]

\* The drop of a Vm: the KVM file descriptors closed (the slot goes with
\* them) and the VirtualMemory unmapped, its pages with it.
Drop(h) ==
    /\ h \in live
    /\ live' = live \ {h}
    /\ memory' = [memory EXCEPT ![h] = NoRegion]
    /\ slot' = [slot EXCEPT ![h] = NoRegion]
    /\ mapped' = mapped \ {memory[h]}
    /\ vmem' = [vmem EXCEPT ![memory[h]] = FreshVMem]
    /\ UNCHANGED regs

Init ==
    /\ live = {}
    /\ memory = [h \in Handles |-> NoRegion]
    /\ slot = [h \in Handles |-> NoRegion]
    /\ mapped = {}
    /\ vmem = [m \in Regions |-> FreshVMem]
    /\ regs = [h \in Handles |-> InitRegs]

Next ==
    \/ \E h \in Handles, m \in Regions : New(h, m)
    \/ \E h \in Handles, r \in RegFiles : SetReg(h, r)
    \/ \E h \in Handles, p \in Pages : Mmap(h, p)
    \/ \E h \in Handles, p \in Pages, d \in Data : Write(h, p, d)
    \/ \E h \in Handles, p \in Pages, d \in Data : ReadValue(h, p, d)
    \/ \E src, h \in Handles, m1, m2 \in Regions : CloneVm(src, h, m1, m2)
    \/ \E h \in Handles : Drop(h)

Spec == Init /\ [][Next]_vars

-----------------------------------------------------------------------------
(* Properties.                                                             *)

TypeOK ==
    /\ live \subseteq Handles
    /\ memory \in [Handles -> Regions \cup {NoRegion}]
    /\ slot \in [Handles -> Regions \cup {NoRegion}]
    /\ mapped \subseteq Regions
    /\ vmem \in [Regions -> VMem]
    /\ regs \in [Handles -> RegFiles]

(* Host memory owned once: the VirtualMemory of every live VM is mapped   *)
(* and no other live VM holds it, so a write, mmap or read_value through  *)
(* one Vm is never seen through another.  It is about clone, which must   *)
(* give the copy a memory of its own, and about drop, which unmaps only   *)
(* the memory of the Vm dropped.                                          *)
HostMemoryExclusive ==
    \A a \in live :
        /\ memory[a] \in mapped
        /\ \A b \in live \ {a} : memory[b] # memory[a]

(* Isolation (spec 4.7 and 5): KVM slot 0 of every live VM points at the  *)
(* memory that VM owns, mapped and owned by no other live VM.  It is      *)
(* about the memory replaced in clone after setup_barebones registered    *)
(* the slot.                                                              *)
Isolated ==
    \A a \in live :
        /\ slot[a] = memory[a]
        /\ memory[a] \in mapped
        /\ \A b \in live \ {a} : memory[b] # memory[a]
=============================================================================
