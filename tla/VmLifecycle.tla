----------------------------- MODULE VmLifecycle -----------------------------
(***************************************************************************)
(* The lifecycle of the Vm values of src/vm/src/vm.rs: Vm::new, Clone for  *)
(* Vm, and their drop, seen through the two resources each VM owns.  One   *)
(* is the host mapping that backs its guest physical memory                *)
(* (VirtualMemory, self.memory).  The other is KVM slot 0 of its VM file   *)
(* descriptor, which KVM_SET_USER_MEMORY_REGION points at a host address.  *)
(* The guest runs on the memory the slot points at; the host reads and     *)
(* writes (Vm::read, write, reset, clone) go through self.memory.          *)
(*                                                                         *)
(* Host mappings are a small set of regions.  mmap returns one that is not *)
(* mapped, and may return a region that was unmapped before, as the kernel *)
(* reuses address ranges.  A constructor that fails drops what it built    *)
(* and leaves no VM, so it is no step here.                                *)
(***************************************************************************)
EXTENDS FiniteSets

CONSTANTS
    Handles,   \* the Vm values the program may hold
    Regions,   \* host address ranges a VirtualMemory may be mapped at
    NoRegion   \* the resource of a Vm not alive

ASSUME LifecycleAssumption ==
    /\ IsFiniteSet(Handles) /\ Handles # {}
    /\ IsFiniteSet(Regions) /\ Regions # {}
    /\ NoRegion \notin Regions

VARIABLES
    live,     \* the Vm values alive
    memory,   \* the region of Vm.memory, per Vm
    slot,     \* the userspace_addr of KVM slot 0, per Vm
    mapped    \* the host regions mapped

vars == <<live, memory, slot, mapped>>

-----------------------------------------------------------------------------
(* Vm::setup_barebones: VirtualMemory::new maps a fresh region, the KVM    *)
(* VM is created, and slot 0 is set to vm_memory.host_address().  The rest *)
(* of Vm::new (setup_registers, setup_exception_handling,                  *)
(* flush_registers) writes registers and guest memory only.                *)
New(h, m) ==
    /\ h \notin live
    /\ m \notin mapped
    /\ live' = live \cup {h}
    /\ memory' = [memory EXCEPT ![h] = m]
    /\ slot' = [slot EXCEPT ![h] = m]
    /\ mapped' = mapped \cup {m}

\* Mutant: the clone's memory replaced by a copy of the source's after the
\* slot was registered, the fresh memory dropped.
CloneReplacingMemory(src, h, m) ==
    LET copy == CHOOSE r \in Regions : r \notin mapped \cup {m}
    IN /\ src \in live
       /\ h \notin live
       /\ m \notin mapped
       /\ \E r \in Regions : r \notin mapped \cup {m}
       /\ live' = live \cup {h}
       /\ memory' = [memory EXCEPT ![h] = copy]
       /\ slot' = [slot EXCEPT ![h] = m]
       /\ mapped' = mapped \cup {copy}

\* Clone for Vm: Vm::new (which panics rather than fail), the registers
\* copied, then the source's physical memory written into the new
\* VirtualMemory with pmem.write.  The clone keeps the memory its slot
\* points at.
Clone(src, h, m) ==
    /\ src \in live
    /\ New(h, m)

\* The drop of a Vm: the KVM file descriptors are closed, which removes
\* the slot, and the VirtualMemory unmaps its region.
Drop(h) ==
    /\ h \in live
    /\ live' = live \ {h}
    /\ memory' = [memory EXCEPT ![h] = NoRegion]
    /\ slot' = [slot EXCEPT ![h] = NoRegion]
    /\ mapped' = mapped \ {memory[h]}

Init ==
    /\ live = {}
    /\ memory = [h \in Handles |-> NoRegion]
    /\ slot = [h \in Handles |-> NoRegion]
    /\ mapped = {}

Next ==
    \/ \E h \in Handles, m \in Regions : New(h, m)
    \/ \E src, h \in Handles, m \in Regions : Clone(src, h, m)
    \/ \E h \in Handles : Drop(h)

Spec == Init /\ [][Next]_vars

-----------------------------------------------------------------------------
(* Properties.                                                             *)

TypeOK ==
    /\ live \subseteq Handles
    /\ memory \in [Handles -> Regions \cup {NoRegion}]
    /\ slot \in [Handles -> Regions \cup {NoRegion}]
    /\ mapped \subseteq Regions

(* Isolation (spec 4.7 and 5: a clone shares no hypervisor state with its *)
(* source, each VM owns its own memory slot): the guest of every live VM  *)
(* runs on the memory that VM owns, that memory is mapped, and no other   *)
(* live VM owns it.  It is about Vm::new, clone and drop in every order,  *)
(* with the kernel handing a freed address range to the next mapping.     *)
Isolated ==
    \A a \in live :
        /\ slot[a] = memory[a]
        /\ memory[a] \in mapped
        /\ \A b \in live \ {a} : memory[b] # memory[a]
=============================================================================
