--------------------------------- MODULE Vm ---------------------------------
(***************************************************************************)
(* The register mirror, the run loop and the exception dispatcher of       *)
(* src/vm/src/vm.rs (struct Vm, Vm::set_reg, Vm::commit_registers,         *)
(* Vm::run).                                                               *)
(*                                                                         *)
(* The host keeps a mirror of the vCPU registers (registers,               *)
(* special_registers, fs_base).  Vm::run copies the mirror into the        *)
(* shared kvm_run area, marks it dirty, writes the FS base through         *)
(* KVM_SET_MSRS, enters the guest with KVM_RUN, pulls the registers back   *)
(* and classifies the exit.  A guest exception goes through IST1 to a      *)
(* trampoline "push vector; hlt" in the hypercall page; the dispatcher     *)
(* reads the vector and the exception frame from the IST1 stack and puts   *)
(* the pre-exception RIP and RSP back into the mirror.                     *)
(*                                                                         *)
(* KVM and the guest CPU are the environment of Run.  What they do is      *)
(* taken from the KVM ABI and the x86-64 architecture: sync_regs at entry  *)
(* loads the dirty kvm_run groups into the vCPU (KVM_SET_SREGS loads the   *)
(* FS segment, base included), store_regs at exit copies the vCPU into the *)
(* valid groups, and an exception through an IST gate pushes SS, RSP,      *)
(* RFLAGS, CS, RIP and, for some vectors, an error code on the IST stack.  *)
(* Only FS base is modelled of the two MSR bases: GS base takes the same   *)
(* code path.  Of kvm_regs the model keeps RIP, RSP and RFLAGS: the other  *)
(* general purpose registers travel with them, in the same group, through *)
(* the same copies.  Values are abstracted to small sets.                 *)
(***************************************************************************)
EXTENDS Integers

CONSTANTS
    PageSize,      \* PAGE_SIZE of crate::memory
    IdtAddress,    \* IDT_ADDRESS of setup_exception_handling (scaled down)
    Vals,          \* values the guest and the host put in FS base
    CodeAddrs,     \* guest code addresses where the guest stops
    StackAddrs,    \* guest stack pointers
    SyscallSites,  \* code addresses holding the bytes 0f 05 (syscall)
    Vectors,       \* exception vectors the guest raises (0..31)
    PfKinds,       \* the page faults the guest makes: present?, access
    FaultAddrs     \* linear addresses of page faults (CR2)

ASSUME ConstAssumption ==
    /\ PageSize \in Nat /\ PageSize >= 1024
    /\ IdtAddress \in Nat
    /\ Vals \subseteq Nat /\ Vals # {}
    /\ CodeAddrs \subseteq Nat /\ CodeAddrs # {}
    /\ StackAddrs \subseteq Nat /\ StackAddrs # {}
    /\ SyscallSites \subseteq CodeAddrs
    \* #UD (6) and #PF (14) are always possible; #BP is a Debug exit.
    /\ Vectors \subseteq 0..31 /\ {6, 14} \subseteq Vectors /\ 3 \notin Vectors
    /\ PfKinds \subseteq [present: BOOLEAN, access: {"read", "write", "fetch"}]
    /\ PfKinds # {}
    /\ FaultAddrs \subseteq Nat /\ FaultAddrs # {}

VARIABLES
    registers,          \* Vm.registers (kvm_regs): rip, rsp, rflags
    special_registers,  \* Vm.special_registers (kvm_sregs): fs.base, cr2
    fs_base,            \* Vm.fs_base
    run_regs,           \* kvm_run s.regs.regs
    run_sregs,          \* kvm_run s.regs.sregs
    dirty_regs,         \* kvm_run kvm_dirty_regs, as a set of sync groups
    valid_regs,         \* kvm_run kvm_valid_regs, as a set of sync groups
    vcpu,               \* the vCPU state held by KVM
    ist_mem,            \* the qwords of the IST1 stack page
    exit,               \* the result of the last Vm::run
    event,              \* history: what the guest did in the last KVM_RUN
    entry,              \* history: the vCPU state the guest last started from
    guest_view,         \* history: the state the guest must resume from
    runs                \* history: the number of Vm::run calls so far

vars == <<registers, special_registers, fs_base, run_regs, run_sregs,
          dirty_regs, valid_regs, vcpu, ist_mem, exit, event, entry,
          guest_view, runs>>

-----------------------------------------------------------------------------
(* Layout built by setup_exception_handling.                               *)

IdtHandlers == IdtAddress + PageSize
StackAddress == IdtAddress + PageSize * 4
StackSize == PageSize
Ist1Top == StackAddress + (StackSize - 256)
HypercallPage == IdtHandlers
\* RIP after the hlt of trampoline i: "6a ii f4" at IDT_HANDLERS + i * 32.
TrampolineResume(i) == IdtHandlers + i * 32 + 3
CodeSelector == 8

\* The vectors for which the dispatcher reads an error code
\* (ExceptionType::DoubleFault ... ControlProtection).
HasErrorCode(v) == v \in {8, 10, 11, 12, 13, 14, 17, 21}

PageFaultVector == 14
InvalidOpcodeVector == 6

IsBitSet(x, b) == (x \div (2 ^ b)) % 2 = 1
\* "as u32": x86 error codes fit in 16 bits, where the cast is the identity.
AsU32(x) == IF x < 65536 THEN x ELSE x % (65536 * 65536)
\* Mutant: rflags += 1 << 1, which is the or only when the bit is clear.
SetBit1Add(f) == f + 2
\* rflags |= 1 << 1
SetBit1(f) == IF IsBitSet(f, 1) THEN f ELSE f + 2

\* PageFaultDetail::unmapped, ::read, ::write, ::instruction_fetch
Unmapped(status) == IsBitSet(status, 0)
ReadFault(status) == IsBitSet(status, 1)
WriteFault(status) == ~ReadFault(status)
InstructionFetch(status) == IsBitSet(status, 15)

SyncGroups == {"REGS", "SREGS"}

ExitKinds == {"None", "Hlt", "Breakpoint", "Interrupted", "InvalidInstruction",
              "PageFault", "Exception", "Syscall", "Unhandled", "HvError"}
\* VmExit: the variant, Exception's vector, PageFault's status and address.
ExitWith(k, v, st, a) == [kind |-> k, vector |-> v, status |-> st, address |-> a]
Exit(k) == ExitWith(k, 0, 0, 0)

-----------------------------------------------------------------------------
(* The environment: what the guest does between KVM_RUN entry and exit.    *)

\* The vectors for which the CPU pushes an error code (Intel SDM 6.13;
\* 29 and 30 are AMD SEV-ES and security exceptions).
CpuPushesErrorCode(v) == v \in {8, 10, 11, 12, 13, 14, 17, 21, 29, 30}

(* What the dispatcher needs of the instance: guest code, and the RIP     *)
(* after a guest hlt, lie outside the hypercall page, and the vectors the *)
(* guest raises push an error code exactly when HasErrorCode says so (no  *)
(* AMD #VC or #SX).                                                        *)
ASSUME GuestAssumption ==
    /\ \A a \in CodeAddrs : a + 1 < HypercallPage \/ a >= HypercallPage + PageSize
    /\ \A v \in Vectors : CpuPushesErrorCode(v) <=> HasErrorCode(v)

Accesses == {"read", "write", "fetch"}
EventKinds == {"debug", "hlt", "other", "eintr", "error", "exception"}

NoFault == [present |-> FALSE, access |-> "read", addr |-> 0]
Event(k, r, s, v, f) ==
    [kind |-> k, rip |-> r, rsp |-> s, vector |-> v, fault |-> f]

\* No guest code ran.
NoEvent == Event("none", 0, 0, 0, NoFault)

\* With EFER.SCE clear, the syscall at a syscall site raises #UD; every
\* other stop is at another code address.
OtherAddrs == CodeAddrs \ SyscallSites

Events ==
    {Event(k, r, s, 0, NoFault) :
        k \in EventKinds \ {"exception"}, r \in OtherAddrs, s \in StackAddrs}
    \cup
    {Event("exception", r, s, InvalidOpcodeVector, NoFault) :
        r \in CodeAddrs, s \in StackAddrs}
    \cup
    {Event("exception", r, s, v, NoFault) :
        v \in Vectors \ {PageFaultVector, InvalidOpcodeVector},
        r \in OtherAddrs, s \in StackAddrs}
    \cup
    {Event("exception", r, s, PageFaultVector,
           [present |-> f.present, access |-> f.access, addr |-> x]) :
        r \in OtherAddrs, s \in StackAddrs, f \in PfKinds, x \in FaultAddrs}

\* x86 page-fault error code: P (bit 0), W/R (bit 1), I/D (bit 4).
PfErrorCode(f) ==
    (IF f.present THEN 1 ELSE 0) + (IF f.access = "write" THEN 2 ELSE 0)
      + (IF f.access = "fetch" THEN 16 ELSE 0)

ErrorCode(ev) ==
    IF ev.vector = PageFaultVector THEN PfErrorCode(ev.fault) ELSE 0

\* The IST1 stack after the CPU pushed the frame (SS, RSP, RFLAGS, CS, RIP,
\* error code) and the trampoline pushed the vector.
Pushed(mem, ev, rflags) ==
    [a \in DOMAIN mem |->
        CASE a = Ist1Top - 8  -> CodeSelector
          [] a = Ist1Top - 16 -> ev.rsp
          [] a = Ist1Top - 24 -> rflags
          [] a = Ist1Top - 32 -> CodeSelector
          [] a = Ist1Top - 40 -> ev.rip
          [] a = Ist1Top - 48 -> IF CpuPushesErrorCode(ev.vector)
                                 THEN ErrorCode(ev) ELSE ev.vector
          [] a = Ist1Top - 56 /\ CpuPushesErrorCode(ev.vector) -> ev.vector
          [] OTHER -> mem[a]]

IstSlots == {Ist1Top - 8 * k : k \in 1..7}

\* The vCPU at exit, from the vCPU at entry v0, the event, and the value
\* the guest left in FS base.
GuestExit(v0, ev, fsb) ==
    LET rip == CASE ev.kind = "hlt"       -> ev.rip + 1
                 [] ev.kind = "exception" -> TrampolineResume(ev.vector)
                 [] OTHER                 -> ev.rip
        rsp == IF ev.kind = "exception"
               THEN Ist1Top - 8 * (IF CpuPushesErrorCode(ev.vector) THEN 7 ELSE 6)
               ELSE ev.rsp
        cr2 == IF ev.kind = "exception" /\ ev.vector = PageFaultVector
               THEN ev.fault.addr ELSE v0.sregs.cr2
    IN [regs  |-> [rip |-> rip, rsp |-> rsp, rflags |-> v0.regs.rflags],
        sregs |-> [fs_base |-> fsb, cr2 |-> cr2]]

\* The state the guest resumes from on the next run, per the dispatcher's
\* contract: the pre-exception RIP and RSP, past a syscall instruction.
GuestState(v1) ==
    [rip |-> v1.regs.rip, rsp |-> v1.regs.rsp, rflags |-> v1.regs.rflags,
     fs_base |-> v1.sregs.fs_base]

Resumed(v1, ev) ==
    LET r == v1.regs
        rip == IF ev.kind # "exception" THEN r.rip
               ELSE IF ev.vector = InvalidOpcodeVector /\ ev.rip \in SyscallSites
                    THEN ev.rip + 2 ELSE ev.rip
        rsp == IF ev.kind = "exception" THEN ev.rsp ELSE r.rsp
    IN [rip |-> rip, rsp |-> rsp, rflags |-> r.rflags,
        fs_base |-> v1.sregs.fs_base]

\* KVM's sync_regs: the dirty groups of kvm_run are loaded into the vCPU;
\* __set_regs sets the reserved bit 1 of RFLAGS.
SyncRegs(v, d, rr, rs) ==
    [regs  |-> IF "REGS" \in d THEN [rr EXCEPT !.rflags = SetBit1(@)]
                                ELSE v.regs,
     sregs |-> IF "SREGS" \in d THEN rs ELSE v.sregs]

-----------------------------------------------------------------------------
(* The code.                                                               *)

\* Mutant: kvm_dirty_regs left as it is.
CommitDirtyNoFlags(d) == d

\* Vm::commit_registers: kvm_dirty_regs |= SREGS | REGS
CommitDirty(d) == d \cup SyncGroups

\* Vm::run: kvm_valid_regs |= REGS | SREGS
RunValid(d) == d \cup SyncGroups

\* memory.read_val on the IST1 page; the part not written is zero.
ReadVal(mem, a) == IF a \in DOMAIN mem THEN mem[a] ELSE 0

\* Mutant: the vector read one slot too high.
ExceptionVectorOffByOne(regs, mem) == ReadVal(mem, regs.rsp + 8)

\* The vector the trampoline pushed.
ExceptionVector(regs, mem) == ReadVal(mem, regs.rsp)

\* Mutant: every #UD taken for a syscall, the bytes not compared.
IsSyscallAnyBytes(rip) == TRUE

\* memory.read(rip, 2 bytes) succeeds and gives 0f 05.
IsSyscall(rip) == rip \in SyscallSites

\* The address of the ExceptionFrame: above the error code, if one was read.
ExceptionFrame(regs, mem) ==
    IF HasErrorCode(ExceptionVector(regs, mem)) THEN regs.rsp + 16
    ELSE regs.rsp + 8

\* The mirror reset to the RIP and RSP of the ExceptionFrame.
Restored(regs, mem) ==
    [regs EXCEPT !.rsp = ReadVal(mem, ExceptionFrame(regs, mem) + 24),
                 !.rip = ReadVal(mem, ExceptionFrame(regs, mem))]

\* The exception forwarding of Vm::run, once the Hlt exit is known to
\* come from the hypercall page: the mirror and the VmExit.
Dispatch(regs, sregs, mem) ==
    LET code  == ExceptionVector(regs, mem)
        err   == ReadVal(mem, regs.rsp + 8)   \* read when HasErrorCode(code)
        back  == Restored(regs, mem)
    IN CASE code = PageFaultVector ->
              [regs |-> back,
               exit |-> ExitWith("PageFault", 0, AsU32(err), sregs.cr2)]
         [] code = InvalidOpcodeVector ->
              IF IsSyscall(back.rip)
              THEN [regs |-> [back EXCEPT !.rip = @ + 2],
                    exit |-> Exit("Syscall")]
              ELSE [regs |-> back, exit |-> Exit("InvalidInstruction")]
         [] OTHER ->
              [regs |-> back, exit |-> ExitWith("Exception", code, 0, 0)]

InHypercallPage(rip) ==
    ~(rip < HypercallPage \/ rip >= HypercallPage + PageSize)

\* The classification of a KVM_RUN that returned: the mirror and VmExit.
Classify(ev, regs, sregs, mem) ==
    CASE ev.kind = "eintr" -> [regs |-> regs, exit |-> Exit("Interrupted")]
      [] ev.kind = "debug" -> [regs |-> regs, exit |-> Exit("Breakpoint")]
      [] ev.kind = "other" -> [regs |-> regs, exit |-> Exit("Unhandled")]
      [] ev.kind \in {"hlt", "exception"} ->
            IF InHypercallPage(regs.rip) THEN Dispatch(regs, sregs, mem)
            ELSE [regs |-> regs, exit |-> Exit("Hlt")]

-----------------------------------------------------------------------------
(* The state after Vm::new: setup_barebones reads KVM's reset registers,  *)
(* setup_registers builds the flat segments (base 0), flush_registers     *)
(* writes them to the vCPU, reads them back into the mirror and kvm_run   *)
(* and zeroes kvm_dirty_regs.                                              *)

ResetRegs == [rip |-> 65520, rsp |-> 0, rflags |-> 2]
NewSregs == [fs_base |-> 0, cr2 |-> 0]

Init ==
    /\ registers = ResetRegs
    /\ special_registers = NewSregs
    /\ fs_base = 0
    /\ run_regs = ResetRegs
    /\ run_sregs = NewSregs
    /\ dirty_regs = {}
    /\ valid_regs = {}
    /\ vcpu = [regs |-> ResetRegs, sregs |-> NewSregs]
    /\ ist_mem = [a \in IstSlots |-> 0]
    /\ exit = Exit("None")
    /\ event = NoEvent
    /\ entry = vcpu
    /\ guest_view = [rip |-> 65520, rsp |-> 0, rflags |-> 2, fs_base |-> 0]
    /\ runs = 0

\* The values set_reg is called with, per register.
RegVals(r) ==
    CASE r = "rip"    -> CodeAddrs
      [] r = "rsp"    -> StackAddrs
      [] r = "rflags" -> {0, 2}

\* Vm::set_reg for a register of kvm_regs.
SetReg(r, v) ==
    /\ registers' = [registers EXCEPT ![r] = v]
    /\ guest_view' = [guest_view EXCEPT ![r] = IF r = "rflags" THEN SetBit1(v)
                                                ELSE v]
    /\ UNCHANGED <<special_registers, fs_base, run_regs, run_sregs, dirty_regs,
                   valid_regs, vcpu, ist_mem, exit, event, entry, runs>>

\* Vm::set_reg(Register::FsBase, v).
SetFsBase(v) ==
    /\ fs_base' = v
    /\ guest_view' = [guest_view EXCEPT !.fs_base = v]
    /\ UNCHANGED <<registers, special_registers, run_regs, run_sregs,
                   dirty_regs, valid_regs, vcpu, ist_mem, exit, event, entry,
                   runs>>

\* commit_registers: the mirror with RFLAGS bit 1 set, as written to
\* kvm_run and kept in Vm.registers.
CommittedRegs == [registers EXCEPT !.rflags = SetBit1(@)]

\* Vm::run where commit_registers fails at KVM_SET_MSRS: the mirror and
\* kvm_run are written, the guest does not run, HvError is returned.
RunCommitFails ==
    /\ registers' = CommittedRegs
    /\ run_regs' = CommittedRegs
    /\ run_sregs' = special_registers
    /\ dirty_regs' = CommitDirty(dirty_regs)
    /\ exit' = Exit("HvError")
    /\ event' = NoEvent
    /\ UNCHANGED <<special_registers, fs_base, valid_regs, vcpu, ist_mem,
                   entry, guest_view>>

\* Mutant: KVM_SET_MSRS taking effect after sync_regs, as it would if the
\* FS base were written once the guest is entered.
EntryVcpuMsrLast ==
    [SyncRegs(vcpu, CommitDirty(dirty_regs), CommittedRegs, special_registers)
        EXCEPT !.sregs.fs_base = fs_base]

\* The vCPU the guest starts from: KVM_SET_MSRS writes FS base, then
\* KVM_RUN's sync_regs loads the groups commit_registers marked dirty.
EntryVcpu ==
    SyncRegs([vcpu EXCEPT !.sregs.fs_base = fs_base], CommitDirty(dirty_regs),
             CommittedRegs, special_registers)

\* Vm::run past commit_registers, for a guest that stops with event ev
\* and leaves fsb in FS base: KVM_RUN stores the valid groups out; the
\* mirror is pulled back, then KVM_GET_MSRS either fails (HvError, fs_base
\* left stale) or FS base is pulled and the exit is classified.  An errno
\* other than EINTR/EAGAIN is an HvError.
GuestRun(ev, fsb) ==
    LET valid1 == RunValid(valid_regs)
        v1 == GuestExit(EntryVcpu, ev, fsb)
        rr == IF "REGS" \in valid1 THEN v1.regs ELSE CommittedRegs
        rs == IF "SREGS" \in valid1 THEN v1.sregs ELSE special_registers
        mem1 == IF ev.kind = "exception"
                THEN Pushed(ist_mem, ev, EntryVcpu.regs.rflags) ELSE ist_mem
        res == Classify(ev, rr, rs, mem1)
    IN /\ vcpu' = v1
       /\ entry' = EntryVcpu
       /\ event' = ev
       /\ ist_mem' = mem1
       /\ run_regs' = rr
       /\ run_sregs' = rs
       /\ dirty_regs' = CommitDirty(dirty_regs) \ SyncGroups
       /\ valid_regs' = valid1
       /\ special_registers' = rs
       /\ \/ /\ registers' = rr
             /\ exit' = Exit("HvError")
             /\ guest_view' = GuestState(v1)
             /\ UNCHANGED fs_base
          \/ /\ fs_base' = v1.sregs.fs_base
             /\ ev.kind = "error"
             /\ registers' = rr
             /\ exit' = Exit("HvError")
             /\ guest_view' = GuestState(v1)
          \/ /\ fs_base' = v1.sregs.fs_base
             /\ ev.kind # "error"
             /\ registers' = res.regs
             /\ exit' = res.exit
             /\ guest_view' = Resumed(v1, ev)

\* Vm::run past commit_registers: KVM_RUN runs the guest until some event.
RunGuest == \E ev \in Events, fsb \in Vals : GuestRun(ev, fsb)

Run == (RunCommitFails \/ RunGuest) /\ runs' = runs + 1

Next ==
    \/ \E r \in {"rip", "rsp", "rflags"} : \E v \in RegVals(r) : SetReg(r, v)
    \/ \E v \in Vals : SetFsBase(v)
    \/ Run

Spec == Init /\ [][Next]_vars

-----------------------------------------------------------------------------
(* Properties.                                                             *)

RegsType == [rip: Nat, rsp: Nat, rflags: Nat]
SregsType == [fs_base: Nat, cr2: Nat]
VcpuType == [regs: RegsType, sregs: SregsType]

TypeOK ==
    /\ registers \in RegsType
    /\ special_registers \in SregsType
    /\ fs_base \in Nat
    /\ run_regs \in RegsType
    /\ run_sregs \in SregsType
    /\ dirty_regs \subseteq SyncGroups
    /\ valid_regs \subseteq SyncGroups
    /\ vcpu \in VcpuType
    /\ ist_mem \in [IstSlots -> Nat]
    /\ exit \in [kind: ExitKinds, vector: 0..31, status: Nat, address: Nat]
    /\ entry \in VcpuType
    /\ guest_view \in [rip: Nat, rsp: Nat, rflags: Nat, fs_base: Nat]
    /\ runs \in Nat

\* The part of the guest's state that travels in kvm_regs.
GprView(g) == [rip |-> g.rip, rsp |-> g.rsp, rflags |-> g.rflags]

(* Register round trip (spec section 8): every KVM_RUN of Vm::run starts  *)
(* the guest from the registers it stopped with, as the dispatcher put    *)
(* them back (pre-exception RIP and RSP, RIP past a syscall), with every  *)
(* set_reg made since, and with RFLAGS bit 1 set.  It is about            *)
(* commit_registers' kvm_dirty_regs, run's kvm_valid_regs, the pull after *)
(* KVM_RUN on every path, and the frame reconstruction from IST1.         *)
GuestEntered == runs' = runs + 1 /\ event' # NoEvent

RegisterRoundTrip ==
    [][GuestEntered => entry'.regs = GprView(guest_view)]_vars

(* The same round trip for FS base (Register::FsBase): a value given to   *)
(* set_reg(FsBase) is the FS base the guest runs with.  commit_registers  *)
(* writes it with KVM_SET_MSRS before KVM_RUN, but KVM_RUN then loads the *)
(* SREGS group, whose fs segment base is the stale special_registers one. *)
FsBaseRoundTrip ==
    [][GuestEntered => entry'.sregs.fs_base = guest_view.fs_base]_vars

(* FS base kept across a failed pull: when the host has not given        *)
(* set_reg(FsBase) a value other than the guest's own, every KVM_RUN      *)
(* starts the guest with the FS base it stopped with.  It is about the    *)
(* run whose KVM_GET_MSRS fails after the guest ran: Vm.fs_base keeps the *)
(* pre-run value, and the next commit_registers writes it back with       *)
(* KVM_SET_MSRS; only the SREGS sync that follows saves the guest's one.  *)
GuestFsBaseKept ==
    [][GuestEntered /\ guest_view.fs_base = vcpu.sregs.fs_base
         => entry'.sregs.fs_base = vcpu.sregs.fs_base]_vars

ExceptionExits == {"PageFault", "Syscall", "InvalidInstruction", "Exception"}

(* Exit classification (spec sections 4.3, 4.4, 8): the VmExit returned   *)
(* by Vm::run names what the guest did.  A guest hlt is Hlt and never an  *)
(* exception, every exception that went through the trampolines is       *)
(* reported with its vector (PageFault with CR2, Syscall only for 0f 05), *)
(* int3 is Breakpoint, a signal is Interrupted.  It is about the          *)
(* hypercall-page range test and the vector read from the IST1 stack.    *)
ReportsEvent(x, e) ==
    x.kind \notin {"None", "HvError"} =>
      CASE e.kind = "debug" -> x.kind = "Breakpoint"
        [] e.kind = "eintr" -> x.kind = "Interrupted"
        [] e.kind = "other" -> x.kind = "Unhandled"
        [] e.kind = "hlt"   -> x.kind = "Hlt"
        [] e.kind = "exception" ->
             CASE e.vector = PageFaultVector ->
                    /\ x.kind = "PageFault"
                    /\ x.address = e.fault.addr
               [] e.vector = InvalidOpcodeVector ->
                    x.kind = IF e.rip \in SyscallSites
                             THEN "Syscall" ELSE "InvalidInstruction"
               [] OTHER ->
                    x = ExitWith("Exception", e.vector, 0, 0)
        [] OTHER -> FALSE

(* Exit classification, for the VmExit of the last Vm::run and what the  *)
(* guest did in it.                                                        *)
ExitReportsGuestEvent == ReportsEvent(exit, event)

(* Page-fault decoding (spec sections 3 and 8): for the PageFault exit of *)
(* a guest fault, PageFaultDetail::unmapped is true exactly when the page  *)
(* was not present (bit 0 clear), ::read exactly for faulting reads and    *)
(* ::write exactly for faulting writes (bit 1 clear means read).           *)
PageFaultDecoded ==
    exit.kind = "PageFault" =>
        /\ Unmapped(exit.status) <=> ~event.fault.present
        /\ ReadFault(exit.status) <=> event.fault.access = "read"
        /\ WriteFault(exit.status) <=> event.fault.access = "write"

-----------------------------------------------------------------------------
(* The register contract of Vm (RegisterContract) under the mapping: the  *)
(* registers the next run starts from are the GPRs of guest_view, those   *)
(* the guest was last entered with are entry's, the result is the kind of *)
(* the last VmExit.                                                       *)
Contract == INSTANCE RegisterContract
              WITH Results <- ExitKinds, view <- GprView(guest_view),
                   entered <- entry.regs, result <- exit.kind

(* Vm keeps its register contract: set_reg changes the register named and *)
(* no other, with RFLAGS bit 1 set; a run whose commit_registers fails    *)
(* changes no register the next run starts from; a run that reaches       *)
(* KVM_RUN enters the guest from the mirror as set_reg and the dispatcher *)
(* left it.  It is about commit_registers, the sync groups and the pull    *)
(* after KVM_RUN.                                                         *)
ImplementsContract == Contract!Spec

=============================================================================
