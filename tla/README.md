# Formal models of the Tartiflette VM control plane

This directory holds TLA+ models of `src/vm/src/vm.rs`, the KVM-based x86-64
VM of Tartiflette. It also holds TLC configurations that model-check those
models on small instances, and TLAPS proofs of their main invariants for
every instance. `src/vm2/src/vm.rs` is an earlier prototype with no run loop. The models
cover:
- the register mirror, the run loop and its exception dispatcher (`Vm.tla`);
- the dirty-log reset, with clone and the host operations around it
  (`DirtyLog.tla`, with the word-by-word loop in `ResetLoop.tla`);
- the lifecycle of VMs, which is the ownership of the host mapping and of
  KVM slot 0 across `new`, `clone` and drop (`VmLifecycle.tla`);
- the `vm2` prototype (`Vm2.tla`).

## 1. The system

`Vm` (vm.rs) owns a KVM VM with one vCPU, the shared `kvm_run` area, a
`VirtualMemory` holding guest page tables and physical memory, and a host-side
*mirror* of the vCPU registers. The parts of the code, and how they interact:

| Part | Code | State it changes | Operations |
|---|---|---|---|
| Long-mode bootstrap | `new`, `setup_barebones`, `setup_registers`, `setup_exception_handling`, `flush_registers` (191-487, 589-635) | mirror, vCPU, guest memory (GDT, TSS, IDT, IST1 stack, trampolines) | construction only |
| Register mirror | `get_reg`, `set_reg` (489-539), `commit_registers` (639-668) | `registers`, `special_registers`, `fs_base`, `gs_base`, `kvm_run.s.regs`, `kvm_dirty_regs` | host writes a register; run commits it |
| Run loop | `run` (672-802) | mirror, `kvm_valid_regs`, the vCPU (through KVM_RUN) | enter the guest, pull registers and MSRs, classify |
| Hypercall dispatcher | inside `run` (725-796), `PageFaultDetail` (108-141) | mirror RIP/RSP | decode the vector and frame that the trampoline left on IST1 |
| Dirty-log reset | `reset` (870-935) | mirror, guest physical pages, the KVM dirty log | restore the dirty pages from a reference VM |
| Snapshot loader | `from_snapshot` (830-867) | everything, through `new`, `mmap`, `write`, `set_reg`, `flush_registers` | build a VM from files |
| Clone | `clone` (939-964) | a fresh VM | copy the mirror and all of physical memory |

How the parts interact. An exception in the guest goes through an IDT gate
with IST1 to the trampoline of its vector in the hypercall page
(`push <vector>; hlt`). The `hlt` exits to the host. `run` sees a `Hlt` exit
with RIP inside the hypercall page. It reads the vector at the mirror's RSP,
reads the error code when the vector has one, and reads the CPU's exception
frame above it. It then puts the pre-exception RIP and RSP back into the
mirror and returns a typed `VmExit`. For a `#UD` on the bytes `0f 05` it
returns `Syscall` with RIP advanced by 2. Registers cross to KVM in two ways:
- the `kvm_run` sync-regs area (REGS and SREGS groups, marked dirty on entry
  and valid on exit);
- MSR ioctls, for FS and GS base.

Hard behaviours in the code:
- the order in which KVM applies the MSR write and the SREGS sync at entry;
- the failure of each ioctl midway through `run`, after part of the state has
  moved;
- a signal interrupting `KVM_RUN`;
- the guest's own `hlt` next to the hypercall page;
- vectors with and without an error code;
- reset's reliance on a dirty log that only guest writes feed.

The correctness properties, in the spec's terms:
- register round trip;
- RFLAGS bit 1 set;
- exit classification (PageFault, Syscall, ...);
- page-fault status decoding;
- trampoline containment;
- reset correctness (spec 8): after `reset(ref)` the VM reads as `ref`.

## 2. Modules

| Module | Models | Status |
|---|---|---|
| `Vm.tla` | mirror, run loop, dispatcher, and the layout of the bootstrap | done |
| `MCVm.tla` + `MCVm*.cfg` | a TLC instance of `Vm` | done |
| `VmProofs.tla` | TLAPS proofs about `Vm`, including its refinement of `RegisterContract` | done |
| `RegisterContract.tla` | what `set_reg` and `run` promise the host about RIP, RSP and RFLAGS (abstract) | done |
| `DirtyLog.tla` | `reset` as one step, `clone`, `write`/`write_value`, `mmap`, `clear_dirty_mappings`, `set_regs_snapshot`, the guest's stores and TLB | done |
| `MCDirtyLog.tla` + `MCDirtyLog*.cfg` | a TLC instance of `DirtyLog` | done |
| `DirtyLogProofs.tla` | TLAPS proofs about `DirtyLog` | done |
| `ResetWalk.tla` | the loop of `reset` page by page, lowest frame first, and its refinement of `DirtyLog` | done |
| `MCResetWalk.tla` + `.cfg` | a TLC instance of `ResetWalk` | done |
| `ResetWalkProofs.tla` | TLAPS proof that `ResetWalk` implements `DirtyLog` | done |
| `ResetLoop.tla` | the loop of `reset` over the bitmap words, and its refinement of `ResetWalk` and `DirtyLog` | done (TLC only) |
| `MCResetLoop.tla` + `MCResetLoop*.cfg` | a TLC instance of `ResetLoop` | done |
| `VmLifecycle.tla` | `Vm::new`, `Clone for Vm` and drop, as the host region of `Vm.memory` and the region KVM slot 0 points at | done |
| `MCVmLifecycle.tla` + `.cfg` | a TLC instance of `VmLifecycle` | done |
| `VmLifecycleProofs.tla` | TLAPS proof of isolation | done |
| `Vm2.tla` | `vm2`: `new`, `set_reg`, `mmap`, `write`, `read_value`, `clone` and drop | done |
| `MCVm2.tla` + `MCVm2*.cfg` | a TLC instance of `Vm2` | done |
| `Vm2Proofs.tla` | TLAPS proof of exclusive memory in `vm2` | done |

### Vm.tla

**State.** The variables correspond to the code and to KVM as follows:

| Variable | Code or KVM state |
|---|---|
| `registers` | `Vm.registers`: RIP, RSP and RFLAGS |
| `special_registers` | `Vm.special_registers`: `fs.base` and `cr2` |
| `fs_base` | `Vm.fs_base` |
| `run_regs`, `run_sregs` | `kvm_run.s.regs` |
| `dirty_regs`, `valid_regs` | `kvm_dirty_regs` and `kvm_valid_regs`, as sets of groups |
| `vcpu` | the state KVM holds for the vCPU |
| `ist_mem` | the qwords of the IST1 stack page |
| `exit` | the last `VmExit`, or `HvError` |

The history variables `event`, `entry`, `guest_view` and `runs` record what
the guest did, what it started from, what it must resume from, and the number
of runs.

Why only part of the state is kept:
- The other GPRs are left out. They travel with RIP/RSP/RFLAGS in the same
  group through the same copies, so they would only multiply states.
- GS base is left out. It takes exactly FS base's path.
- Values are abstracted to small sets of naturals.

**Actions.** Each action maps to the code as follows:

| Action | Code |
|---|---|
| `SetReg(r, v)` | `set_reg` for a kvm_regs register |
| `SetFsBase(v)` | `set_reg(FsBase)` |
| `Run` | all of `Vm::run` |

`Run` is one of two things:
- `RunCommitFails`: KVM_SET_MSRS in `commit_registers` fails after the mirror
  and kvm_run were written.
- `RunGuest`: `GuestRun(ev, fsb)`. KVM's sync_regs loads the dirty groups.
  The guest then stops with event `ev` and leaves `fsb` in FS base.
  - **On entry:** `EntryVcpu` loads the dirty groups. KVM_SET_MSRS comes
    first, then SREGS, which is KVM's order.
  - **On exit:** store_regs fills the valid groups and the mirror is pulled.
  - **Then one of three outcomes:**
    - KVM_GET_MSRS fails: HvError, with `fs_base` stale.
    - An unexpected errno: HvError.
    - `Classify` runs: Interrupted, Breakpoint, Unhandled, Hlt, or `Dispatch`
      on the IST1 stack.

Every failure path is a disjunct. The loop in `run` never iterates: every
branch `break`s or returns, so one call of `run` is one KVM_RUN.

**Environment.** What the guest does is an event from `Events`:
- a debug exit;
- a `hlt`;
- another exit;
- EINTR;
- an errno;
- an exception with vector, RIP, RSP and, for a `#PF`, a present/access/address
  fault.

`GuestExit` is the vCPU state at exit, per the x86 architecture. A hlt
advances RIP by 1. An exception lands on the trampoline's `hlt` with the frame
`Pushed` on IST1 and CR2 set for `#PF`. `SyncRegs` is KVM's sync_regs.
`GuestAssumption` restricts the environment in two ways:
- guest code lies outside the hypercall page;
- the vectors raised push an error code exactly when the code's list says so.

This is what the dispatcher needs, and the layout of
`setup_exception_handling` (378-481) keeps the guest inside it. The page
below the trampolines holds the IDT, read-only and not executable, so no
guest hlt ends on the first byte of the trampoline page. Vectors 29 (#VC)
and 30 (#SX), which push an error code the list lacks, occur only under
SEV-ES.

### DirtyLog.tla

State, and where it is in the code:
- `data`, `pt`: `self.memory.pmem`, split into data pages and the page of
  `VirtualMemory`'s page table, whose PTEs carry the mappings and the dirty
  flags (`pt.mapped`, `pt.dirty`);
- `regs`: the whole register mirror as one value (reset and clone copy it
  whole);
- `dlog`: KVM's dirty bitmap of slot 0, as a set of pages;
- `tlb`: the guest TLB, the pages whose translation is cached with the dirty
  flag set;
- `ref_data`, `ref_pt`, `ref_regs`: the reference VM, the `other` of `reset`;
- `host_touched`, `written`: history variables. They record the pages the host
  wrote since the last clone, and the pages the guest wrote since the PTE dirty
  flags were last cleared.

Actions:
- `Reset` is the whole of `reset`: the register copy, `KVM_GET_DIRTY_LOG`, the
  restore of each page whose bit is set, and `KVM_CLEAR_DIRTY_LOG` with the
  same bitmap. When that clear resets a set bit, KVM write-protects the
  page again and flushes the vCPU TLBs (`FlushOnClear`), so after a reset
  that restored anything the guest's next store walks the page table.
- `Clone` is `Clone for Vm` taken as the new reference. Clone copies the
  registers and all of physical memory. The `Vm::new` inside it is
  overwritten by that copy.
- The other host actions are `SetRegs` (`set_reg`, `set_regs_snapshot`),
  `HostWrite` (`write`, `write_value`), `Mmap` and `ClearDirtyMappings`. All
  of them write through the host mapping of the slot, so none is logged.
- The guest's environment has two actions. `GuestWrite` is a store, through
  the TLB or a page walk; a walk that finds the PTE dirty flag clear sets it,
  and KVM logs both the page and the page-table page. `TlbEvict` drops a
  cached translation.
- `Init` is a VM just loaded by `from_snapshot`, with a first clone taken as
  the reference. Every page was written by the host, so the log is empty.
  This answers the open question of spec 9: the exception pages that `new`
  writes are host writes and are not in the first dirty log.

### ResetWalk.tla

The loop of `reset` at the level of pages, between `DirtyLog`'s atomic
`Reset` and the word-level `ResetLoop`. Its variables are `pc` ("idle" or
"walk"), `bitmap` (the pages of the bitmap `KVM_GET_DIRTY_LOG` returned) and
`todo` (the pages of it not restored yet). Its actions:
- `WalkBegin` (870-889): the register copy and the read of the dirty log;
- `WalkRestore(page)` (892-917): the lowest pending page is copied from the
  reference (`RestorePage`, 901-913) and leaves `todo`, which is the order
  `trailing_zeros` and `bm &= bm - 1` give;
- `WalkEnd` (919-934): `KVM_CLEAR_DIRTY_LOG` with the bitmap read;
- `HostOrGuest`: `DirtyLog`'s host and guest actions, while no walk runs.

The refinement mapping shows the pages of `todo` as restored, the bits of
`bitmap` as cleared, and `written` as reset leaves it. `WalkBegin` is then
`DirtyLog`'s `Reset`; each restore and the clear are stutters.

### ResetLoop.tla

This module splits `Reset` into the steps of the code:
- `ResetBegin` copies the registers and reads the bitmap as 64-bit words;
- `RestoreNext` is one turn of `while bm != 0`. It restores page
  `bm_index * 64 + trailing_zeros(bm)` and then does `bm &= bm - 1`
  (`Bitwise`'s `&`);
- `NextWord` moves the `for` loop to the next word;
- `ResetEnd` clears the log with the bitmap that was walked.

`reset` takes `&mut self`, so the host and guest actions of `DirtyLog` happen
only while no walk runs. The refinement mapping shows a walk in progress as
already done:
- the pages still pending (the rest of `bm` and the later words) are shown
  restored;
- the bits of the walked bitmap are shown cleared;
- `written` is shown as reset would leave it.

With that mapping, `ResetBegin` is the abstract `Reset` and every later step
of the walk is a stutter. A second instance, `SetWalk`, maps the loop onto
`ResetWalk` (`bitmap` is the set of pages of the words read, `todo` the bits
still set in `bm` and in the later words), and `LoopRefinesWalk` is
`SetWalk!WSpec`. `KvmBitmap` builds the words with `MapThenSumSet`.
`SetBitsFrom` is a recursive reference for the bits of a word, used only
here; this keeps `ResetLoop` out of every proof module.

## 3. Runs (MCVm)

The instance:
- one 4 KiB page size;
- IDT at 64 KiB, so the hypercall page is at 68 KiB and IST1 at 80 KiB;
- two code addresses, one of which holds `0f 05`;
- one stack;
- vectors `#UD` (6, no error code), `#GP` (13, error code) and `#PF` (14,
  error code, CR2);
- the two page faults of spec scenarios 4 and 5;
- FS base values {0, 1};
- at most 2 runs (`RunsBound`).

Why these bounds are enough:
- Two runs reach every exit and then a re-entry after it, which is where
  round-trip errors show.
- The three vectors cover both frame layouts and the two special cases.
- Two code addresses separate the syscall site from every other site.

| Run | cfg | Expect | What it shows |
|---|---|---|---|
| `vm_core` | `MCVm.cfg` | pass (45,944 states) | `TypeOK`, `ExitReportsGuestEvent`, `RegisterRoundTrip`, `GuestFsBaseKept` and `ImplementsContract` hold over all orders of set_reg/run with every guest event and failure |
| `fs_base_round_trip` | `MCVm_FsBaseRoundTrip.cfg` | violation | `set_reg(FsBase, 1); run()` enters the guest with FS base 0 (code bug, see below) |
| `pf_decoded` | `MCVm_PageFaultDecoded.cfg` | violation | `PageFaultDecoded`: `unmapped()` and `read()`/`write()` are inverted with respect to the spec; the first page fault, a read of a non-present page (status 0), is reported as a write to a mapped page |

The properties:
- **`RegisterRoundTrip`** is an action property. Every guest entry starts from
  the registers the guest must resume from: the pre-exception RIP/RSP
  restored from the frame, RIP past a syscall, every `set_reg` since, and
  RFLAGS with bit 1 set. A dropped dirty bit breaks it, as does a missed
  valid bit, a frame read at the wrong offset, or a lost pull on a failure
  path.
- **`ExitReportsGuestEvent`** says the VmExit names the guest event. The
  range test, the vector read, the syscall test and the error-code list all
  matter for it.
- **`GuestFsBaseKept`** is an action property about the failure of
  KVM_GET_MSRS after a run (vm.rs:705). That failure leaves `Vm.fs_base`
  stale, and the next `commit_registers` writes the stale value with
  KVM_SET_MSRS. The property says this does no harm: if the guest's FS base
  equals the one in `special_registers`, the guest is entered with it. The
  reason is that `special_registers` is pulled on every exit path, and KVM
  loads the SREGS sync at entry after the MSR write. The mutant
  `EntryVcpuMsrLast` applies the MSR write after the sync, and TLC breaks
  the property in two runs.
- **`ImplementsContract`**: `Vm` implements `RegisterContract` (see the
  proofs). Beyond the round trip, it says that `set_reg` changes only the
  register it names and keeps RFLAGS bit 1, and that a run refused by
  `commit_registers` changes no register the next run starts from.
- **`TypeOK`** is the type invariant. Among other things, it keeps the
  reported vector in 0..31.

Each property has a mutant that TLC kills, listed in `PROJECT.json`:
- kvm_dirty_regs left unset;
- the vector read one slot too high;
- `#UD` taken as a syscall without comparing the bytes;
- the MSR write taking effect after the SREGS sync;
- `rflags |= 2` written as `rflags += 2` (`ImplementsContract`: the
  first `set_reg(Rflags, 2)` leaves bit 1 clear).

No liveness is checked. `run` always returns after one KVM_RUN, and the model
has no waiting. There is no fairness to assume.

### Findings

1. **FS base lost on entry** (code bug, vm.rs:644).
   - `commit_registers` writes FS base with KVM_SET_MSRS.
   - It also copies `special_registers` to kvm_run and marks SREGS dirty.
   - At KVM_RUN, sync_regs calls `__set_sregs`, which reloads the FS segment
     (base included) from that stale copy.
   - As a result, a `set_reg(FsBase, v)` is overwritten before the guest
     runs. GS base likewise.
   - The spec's claim that FS/GS base "remain out-of-band via MSR ioctls" is
     what the code intends, but not what happens.
2. **`PageFaultDetail::unmapped`** is true when bit 0 (present) is *set*.
   The spec and x86 say a clear bit means not present.
3. **`PageFaultDetail::read`** is true when bit 1 is *set*, which on x86
   marks a write. So `write()` is its negation, also inverted.
4. **`instruction_fetch`** tests bit 15, as the spec also says. x86 uses bit 4
   (I/D). This is a spec gap.

## 3b. Runs (MCDirtyLog, MCResetLoop)

The `MCDirtyLog` instance has data pages {0, 65}, the page table at page 1,
contents {0, 1} and two register files. Why these are enough:
- Page 65 is in the second 64-bit word of the bitmap, so a reset that walks
  only the first word is caught (this is the `DivergenceTracked` mutant).
- Two data pages let one be restored and the other be host-written in the
  same reset.
- Two values per page and two register files are the least that tells a
  restore from no restore.
- Every action can follow every other. Nothing bounds the number of steps,
  because the state space is finite (180,480 states).

The `MCResetLoop` instance has data page 65, the page table at page 64, and
66 pages in the slot. Word 0 is empty, word 1 holds two bits, and the last
word is partial. This exercises the `for` loop over an empty word and
`bm &= bm - 1` over two bits (7,448 states).

| Run | cfg | Expect | What it shows |
|---|---|---|---|
| `dirty_log` | `MCDirtyLog.cfg` | pass | `TypeOK`, `DivergenceTracked` and `ResetRestoresGuestWrites` hold over every order of guest stores, TLB hits and evictions, host writes, mmap, clear_dirty_mappings, set_reg, clone and reset |
| `reset_correct` | `MCDirtyLog_ResetCorrect.cfg` | violation | `mmap` (or a host write) after the clone survives `reset` |
| `dirty_mappings_complete` | `MCDirtyLog_DirtyMappingsComplete.cfg` | violation | a guest store through a TLB entry cached before the dirty flags were cleared is not reported by `dirty_mappings` |
| `reset_loop` | `MCResetLoop.cfg` | pass | the loop implements `DirtyLog` (`ResetRefinesAtomic == Abs!Spec`) and always ends (`WalkTerminates`) |
| `reset_loop_pages` | `MCResetLoop_walk.cfg` | pass (7,448 states) | the loop visits exactly the dirty pages, lowest first, one per turn: it implements `ResetWalk` (`LoopRefinesWalk`) |
| `reset_walk` | `MCResetWalk.cfg` | pass (5,672 states) | the page-level walk implements `DirtyLog` (`WalkRefinesAtomic`) |

The properties:
- **`DivergenceTracked`**: every page where `self` differs from the reference
  is in the dirty log or was written by the host since the clone. It depends
  on several things: the CPU's PTE dirty-flag writes being logged, clone
  copying every page, and reset clearing exactly the bits it restored.
- **`ResetRestoresGuestWrites`** is an action property. `reset` restores the
  registers and every page the host did not touch. This is what reset can
  promise, and it does keep that promise.
- **`ResetRefinesAtomic`**: the pc-level loop is a correct implementation of
  the atomic reset. This catches a wrong page stride, a missed word, or a
  clear with the wrong bitmap.
- **`WalkTerminates`**: under `WF(Walk)`, a walk that starts ends. The code
  justifies this fairness: the walk is a sequential loop in one thread, and
  it waits on nothing.

Mutants (all in `PROJECT.json`):
- `mmap` maps one page too many (`TypeOK`);
- only the first bitmap word is restored (`DivergenceTracked`);
- the registers are not copied (`ResetRestoresGuestWrites`);
- the word index is scaled by 8 instead of 64 (`ResetRefinesAtomic`);
- `bm &= bm - 1` is dropped (`WalkTerminates`);
- `trailing_zeros` returns the highest set bit instead of the lowest
  (`LoopRefinesWalk`: the pages are restored out of order);
- the walk restores the data pages but not the page-table page
  (`WalkRefinesAtomic`).

`MCResetWalk` has one data page and the page-table page, two contents and
two register files. That is enough for a walk of zero, one and two pages,
for the page-table page restored after a data page, and for every host and
guest action between resets. A second data page in another word (0 and
65) gave 3.3 million states and took nearly 8 minutes, and adds no new order: the theorem covers every number of pages.
`LoopRefinesWalk` runs in its own cfg, so that a mutant that breaks the
loop's refinement of `DirtyLog` is reported against that property.

### Findings of the reset model

5. **Reset misses host writes** (spec/code divergence, vm.rs:893).
   - `reset` restores only the pages in KVM's dirty log.
   - KVM logs guest writes only. `write`, `write_value`, `mmap` and
     `clear_dirty_mappings` after the clone are not undone.
   - Spec 8 says every page reads as the reference after `reset(ref)`.
     `ResetRestoresGuestWrites` is the weaker promise the code keeps.
6. **Stale TLB after clearing dirty flags** (spec gap, vm.rs:585).
   - `clear_dirty_mappings` clears the PTE dirty flags from the host, a
     write KVM does not see, and nothing invalidates the guest TLB.
   - A store through a translation cached with D=1 does not set the flag
     again, so `dirty_mappings` misses that page. TLC's trace: a guest
     store to page 0, `clear_dirty_mappings`, a second store to page 0.
   - `reset` is not exposed in this way: its `KVM_CLEAR_DIRTY_LOG` clears
     the bits of the pages it restored, page-table page included, and KVM
     flushes the TLBs when it clears a set bit.

## 3c. Runs (MCVmLifecycle, MCVm2)

The model keeps two resources per VM:
- `memory[h]`, the host region of its `VirtualMemory`, which the host reads
  and writes through;
- `slot[h]`, the region that `KVM_SET_USER_MEMORY_REGION` gave slot 0, which
  the guest runs on.

`mmap` returns any region that is not mapped, including one a dropped VM
held, as the kernel reuses freed address ranges. A constructor that returns
`Err` (or, in `vm.rs`'s clone, panics) drops what it built. It leaves no VM
and so is no step.

| Run | cfg | Expect | What it shows |
|---|---|---|---|
| `vm_lifecycle` | `MCVmLifecycle.cfg` | pass (136 states) | `Isolated`: after any sequence of `new`, clone and drop, every live VM's slot points at the memory it owns, which is mapped and owned by no other live VM |
| `vm2_memory` | `MCVm2.cfg` | pass (299,240 states) | `HostMemoryExclusive`: in `vm2`, no two live VMs share a `VirtualMemory`, whatever `mmap`/`write`/`read_value`/`set_reg` do in between |
| `vm2_clone_isolated` | `MCVm2_isolated.cfg` | violation | `Isolated` fails after `new; clone` in `vm2` |

The bounds:
- `MCVmLifecycle` has 3 handles and 5 regions. Three VMs can be live at once
  (a source, its clone, and a third), and a dropped region is then handed
  out again.
- `MCVm2` has 3 handles, 4 regions (a `vm2` clone takes two), one page, the
  contents {0, 1} and two register files.

The mutants:
- `vm_lifecycle`'s mutant (`CloneReplacingMemory`) gives the clone a second
  mapping after the slot was registered, as `vm2` does.
- `vm2_memory`'s mutant (`CloneMemoryShared`) has `VirtualMemory::clone` hand
  back the source's mapping.

No liveness: every operation returns after a bounded number of syscalls.

### Finding of the vm2 model

**The clone's slot is left on freed memory** (spec_code_divergence, vm2
vm.rs:369).
- `setup_barebones` points slot 0 at a fresh `VirtualMemory`.
- `new_vm.memory = self.memory.clone()?` then replaces that memory and drops
  it.
- The clone's guest would run on an unmapped range, which the next `mmap` of
  any VM may reuse.

Spec 4.7 says a clone shares no hypervisor state, and §5 that each VM owns
its own memory slot. `vm.rs` avoids the problem: it copies the bytes into the
memory it registered. `vm2` never runs a guest, so the fault stays latent.

## 4. Proofs (VmProofs.tla)

The theorems hold for every value of the constants that satisfies
`ConstAssumption` and `GuestAssumption`:
- `TypeCorrect`: `Spec => []TypeOK`;
- `ExitClassification`: `Spec => []ExitReportsGuestEvent`;
- `RoundTrip`: `Spec => RegisterRoundTrip`;
- `FsBaseKept`: `Spec => GuestFsBaseKept`;
- `RegistersImplementContract`: `Spec => ImplementsContract`, the
  refinement of `RegisterContract`.

`TypeOK` and `ExitReportsGuestEvent` are not inductive on their own. A run
step's register restore and its exit depend on the mirror that the *previous*
steps left. The inductive invariant is

    IInv == TypeOK /\ MirrorMatchesGuest /\ ExitReportsGuestEvent

`MirrorMatchesGuest` says the mirror's RIP and RSP equal the state the guest
must resume from, and its RFLAGS with bit 1 set equals the guest's. TLC checks
`IInv` as an invariant of `vm_core` before the proof relies on it.

The argument proceeds in steps:
- `InitIInv`.
- `HostStepsIInv`: set_reg and a failed commit keep `IInv`.
- `GuestRunIInv`: a guest run re-establishes `IInv` and enters from
  `GprView(guest_view)`. This is the round-trip step.
  - `EntryFacts`: the entry vCPU is the committed mirror.
  - `ExitFacts`: what the pulled registers are.
  - `PushedFrame`: what the dispatcher reads back from IST1 is exactly the
    vector, the error code and the frame pushed.
  - `ClassifyException`: for each vector class, the exit and restored
    registers.
  - `DispatchCases`: the case split of `Dispatch`.
  - `RegsExt`: record extensionality.
- `NextIInv` combines these steps.
- The theorems follow by PTL.

`FsBaseKept` needs one more invariant: `SregsMirrorVcpu`, which says
`special_registers` equals the vCPU's SREGS. Every exit path pulls the
SREGS, and nothing else writes them. Lemma `SregsMirrorStep` shows that
every step keeps the invariant, and that a guest entry starts from the
vCPU's SREGS. The FS base of the entry is therefore the one in
`special_registers`.

`RegistersImplementContract` maps the contract's `view` to
`GprView(guest_view)`, `entered` to `entry.regs` and `result` to
`exit.kind`. It reuses `IInv`, and `ContractStep` takes `Next` action by
action:
- `set_reg` is the contract's `SetRegister`. The other registers are
  unchanged, and RFLAGS keeps bit 1: lemmas `SetBit1Reserved` and
  `ViewRunnable` show that `MirrorMatchesGuest` implies it.
- `set_reg(FsBase)` is a stutter.
- A failed commit is `RunRefused`: `guest_view` and `entry` are unchanged.
- A guest run is `RunEntered`: `GuestRunIInv` gives the entry registers.
The contract is about GPRs only. FS base is not kept
(`fs_base_round_trip`), so it cannot be part of a promise the code keeps.
The run `vm_core` checks the same property on the `MCVm` instance.

### VmLifecycleProofs.tla and Vm2Proofs.tla

- `LifecycleIsolated`: `Spec => []Isolated`, for every `VmLifecycle`
  instance that satisfies `LifecycleAssumption`.
- `Vm2MemoryExclusive`: `Spec => []HostMemoryExclusive`, for every `Vm2`
  instance that satisfies `Vm2Assumption`.

Each inductive invariant is `TypeOK` joined with the property.
- The property is inductive by itself. `mmap` hands out a region that is
  not mapped, so no live VM owns it. Drop unmaps only the dropped VM's
  region, and every other live VM holds a different one.
- `TypeOK` is needed in `Vm2`. `mmap`, `write` and drop index `vmem` by
  `memory[h]`, and lemma `LiveRegion` shows that index is a region.

### DirtyLogProofs.tla

These theorems hold for every instance that satisfies `DirtyLogAssumption`:
- `TypeCorrect`: `Spec => []TypeOK`;
- `Tracked`: `Spec => []DivergenceTracked`;
- `ResetRestores`: `Spec => ResetRestoresGuestWrites`.

The inductive invariant is `TypeOK /\ DivergenceTracked`. `DivergenceTracked`
needs the types, since the restore is a function over `DataPages`. In turn,
`ResetRestoresGuestWrites` needs `DivergenceTracked`: a page that `reset`
leaves alone was not in the log, so if it differs, the host wrote it.

The proof has one lemma per group of actions (`ResetIInv`, `HostIInv`,
`GuestIInv`), with one step per conjunct that each action can disturb.

### ResetWalkProofs.tla

`WalkImplementsReset`: `WSpec => WalkRefinesAtomic`, for every instance
that satisfies `DirtyLogAssumption`. The invariant it needs is `WInv`:
- `TypeOK`;
- `pc` is "idle" or "walk";
- `todo` and `bitmap` are sets of pages;
- `todo` is empty while no walk runs.
The last conjunct makes the mapping the identity between resets
(`IdleMapping`). Every host and guest step is then the same step of
`DirtyLog`. The steps of the walk:
- `BeginIsReset`: `WalkBegin` is `Reset`. The pages of `todo` read as the
  reference's, which is `RestorePages`/`RestorePt` of the dirty log.
- `RestoreStutters`: restoring a page of `todo` changes nothing the mapping
  shows.
- `EndStutters`: so does the clear.

Together with TLC's `LoopRefinesWalk`, this gives the chain from the code's
loop to `DirtyLog`'s atomic `Reset`. The step from words to pages is
checked on `MCResetLoop` only. The step from pages to the atomic reset is
proved for every instance.

### Out of the prover's reach and left to TLC

- **Liveness and ENABLED.** `WalkTerminates` is checked by TLC only.
- **Induction over data and RECURSIVE operators.** The word-level loop uses
  `Bitwise` and a recursive reference for the bits of a word, so no theorem
  module may reach it. Its refinements of `ResetWalk` and of `DirtyLog` are
  checked by TLC on the `MCResetLoop` instance. That the lowest set bit of
  `bm` is the least pending page, and that `bm & (bm - 1)` clears exactly
  it, are facts about every 64-bit word, which would need induction over
  the bits.
- **Theorems through an instance.** tlapm 1.4.5 does not hand the
  statement of a theorem of an instantiated module to its backends. So
  `DirtyLogProofs`' `Tracked` is not carried through `ResetWalk`'s
  mapping by a proof. The refinement theorem shows that every behaviour of
  the walk is a behaviour of `DirtyLog`. `Tracked` holds of all of those,
  but that last step is not machine-checked.

## 5. What is not modelled, and the plan

Not modelled:
- **The bootstrap's descriptor bits.** They are data built once by crates
  outside `src/`. Only the layout the dispatcher depends on is modelled:
  - IDT handlers at IDT+1 page;
  - IST1 top at stack + PAGE_SIZE - 0x100;
  - trampolines at stride 32, `hlt` at offset 2.
- **The snapshot loader's I/O.** Its end state is `DirtyLog`'s `Init`. Its
  `set_reg` and `flush_registers` are modelled in `Vm`.
- **The panics of `reset`** midway, after a failed slice, read or clear. The
  process ends there, so no later step observes the half-restored VM.
- **`vm2`'s `read_value` writes memory** (`write_val`). It is modelled as
  the write it is. It has no caller and no documented contract, so no
  property is checked against it.
- **The GDT limit.** `setup_exception_handling` sets it to `8*3-1 = 23`,
  while the TSS descriptor at GDT+16 is 16 bytes long (bytes 16..31). This
  is harmless: KVM_SET_SREGS loads TR's base and limit directly from
  `special_registers.tr`, and the guest never executes LTR, so the CPU never
  reads that descriptor through the GDT. The layout is therefore not
  modelled as a property.
- **The width of `rip += 2`** (vm.rs:787). It runs only after both bytes at
  `rip` were read from guest memory, so the instruction lies in the mapped
  layout, far below the top of the address space. Code addresses are small
  model values, and no overflow is modelled.
- **The host-side state of `VirtualMemory`.** It lives in a crate outside
  `src/`. `vm.rs`'s clone copies the physical bytes only, and whether the
  clone's page-table bookkeeping matches them is not checked.

The plan:
- join `Vm` and `DirtyLog`, so that one model has the registers of a run and
  the pages of a reset, and a reset between runs is checked for the register
  round trip;
- joining `VmLifecycle` with `DirtyLog`, so that a clone's pages and its slot
  are checked together.
