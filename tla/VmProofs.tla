------------------------------ MODULE VmProofs ------------------------------
(***************************************************************************)
(* Proofs about the register mirror and the run loop of Vm, for every      *)
(* value of the constants that satisfies ConstAssumption and               *)
(* GuestAssumption.                                                        *)
(***************************************************************************)
EXTENDS Vm, TLAPS

ExitType == [kind: ExitKinds, vector: 0..31, status: Nat, address: Nat]

(* Two kvm_regs mirrors with the same RIP, RSP and RFLAGS are equal.       *)
LEMMA RegsExt ==
    ASSUME NEW r \in RegsType, NEW s \in RegsType,
           r.rip = s.rip, r.rsp = s.rsp, r.rflags = s.rflags
    PROVE  r = s
  BY DEF RegsType

(* What the guest can do: the fields of every event.                       *)
LEMMA EventFields ==
    ASSUME NEW ev \in Events
    PROVE  /\ ev.kind \in EventKinds
           /\ ev.rip \in CodeAddrs
           /\ ev.rsp \in StackAddrs
           /\ ev.kind # "exception" => ev.rip \in OtherAddrs
           /\ ev.kind = "exception" => ev.vector \in Vectors
           /\ ev.kind = "exception" /\ ev.vector # InvalidOpcodeVector
                => ev.rip \in OtherAddrs
           /\ ev.kind = "exception" /\ ev.vector = PageFaultVector
                => ev.fault.addr \in FaultAddrs
<1> USE DEF Event, EventKinds, OtherAddrs, NoFault, PageFaultVector,
            InvalidOpcodeVector
<1>1. CASE \E k \in EventKinds \ {"exception"}, r \in OtherAddrs,
                s \in StackAddrs : ev = Event(k, r, s, 0, NoFault)
  BY <1>1
<1>2. CASE \E r \in CodeAddrs, s \in StackAddrs :
                ev = Event("exception", r, s, InvalidOpcodeVector, NoFault)
  BY <1>2, ConstAssumption
<1>3. CASE \E v \in Vectors \ {PageFaultVector, InvalidOpcodeVector},
                r \in OtherAddrs, s \in StackAddrs :
                ev = Event("exception", r, s, v, NoFault)
  BY <1>3
<1>4. CASE \E r \in OtherAddrs, s \in StackAddrs, f \in PfKinds,
                x \in FaultAddrs :
                ev = Event("exception", r, s, PageFaultVector,
                           [present |-> f.present, access |-> f.access,
                            addr |-> x])
  BY <1>4, ConstAssumption
<1>5. QED
  BY <1>1, <1>2, <1>3, <1>4 DEF Events

(* The RIP a trampoline halts with lies in the hypercall page, and the    *)
(* RIP after a guest hlt, or of any other guest stop, does not.           *)
LEMMA HypercallRange ==
    /\ \A v \in Vectors : InHypercallPage(TrampolineResume(v))
    /\ \A a \in CodeAddrs : ~InHypercallPage(a) /\ ~InHypercallPage(a + 1)
    BY ConstAssumption, GuestAssumption
    DEF InHypercallPage, TrampolineResume, HypercallPage, IdtHandlers

(* The IST1 stack the CPU and the trampoline leave behind: the vector at  *)
(* the RSP the trampoline halts with, the error code above it, the frame  *)
(* (RIP, ..., RSP) at the same place whether or not an error code was     *)
(* pushed.                                                                 *)
LEMMA PushedFrame ==
    ASSUME NEW ev \in Events, ev.kind = "exception",
           NEW mem \in [IstSlots -> Nat], NEW rf \in Nat
    PROVE  LET m == Pushed(mem, ev, rf)
           IN  /\ m \in [IstSlots -> Nat]
               /\ ReadVal(m, Ist1Top - 8 * (IF CpuPushesErrorCode(ev.vector)
                                            THEN 7 ELSE 6)) = ev.vector
               /\ CpuPushesErrorCode(ev.vector)
                    => ReadVal(m, Ist1Top - 48) = ErrorCode(ev)
               /\ ReadVal(m, Ist1Top - 40) = ev.rip
               /\ ReadVal(m, Ist1Top - 16) = ev.rsp
<1> DEFINE m == Pushed(mem, ev, rf)
<1>1. /\ ev.rip \in Nat /\ ev.rsp \in Nat /\ ev.vector \in 0..31
      /\ ErrorCode(ev) \in Nat /\ Ist1Top \in Nat /\ Ist1Top >= 56
  <2>1. ev.vector \in Vectors /\ ev.rip \in CodeAddrs /\ ev.rsp \in StackAddrs
    BY EventFields
  <2>2. ev.vector = PageFaultVector => ev.fault \in [present: BOOLEAN,
                                                    access: Accesses,
                                                    addr: Nat]
    BY ConstAssumption DEF Events, Event, NoFault, PageFaultVector,
                           InvalidOpcodeVector, Accesses
  <2>3. ErrorCode(ev) \in Nat
    BY <2>2 DEF ErrorCode, PfErrorCode
  <2>4. Ist1Top \in Nat /\ Ist1Top >= 56
    BY ConstAssumption DEF Ist1Top, StackAddress, StackSize
  <2>5. QED
    BY <2>1, <2>3, <2>4, ConstAssumption
<1>2. \A k \in 1..7 : Ist1Top - 8 * k \in IstSlots
  BY DEF IstSlots
<1>3. m \in [IstSlots -> Nat]
  BY <1>1 DEF Pushed, IstSlots, CodeSelector
<1>4. QED
  BY <1>1, <1>2, <1>3 DEF Pushed, ReadVal, CodeSelector

(* What Vm::run's exception forwarding returns for each vector, in terms  *)
(* of the vector it reads and the RIP/RSP it restores from the frame.     *)
LEMMA DispatchCases ==
    ASSUME NEW regs, NEW sregs, NEW mem
    PROVE  LET d == Dispatch(regs, sregs, mem)
               code == ExceptionVector(regs, mem)
               b == Restored(regs, mem)
               pf == ExitWith("PageFault", 0,
                              AsU32(ReadVal(mem, regs.rsp + 8)), sregs.cr2)
           IN  /\ code = PageFaultVector => d = [regs |-> b, exit |-> pf]
               /\ code = InvalidOpcodeVector /\ IsSyscall(b.rip) =>
                    d = [regs |-> [b EXCEPT !.rip = @ + 2],
                         exit |-> Exit("Syscall")]
               /\ code = InvalidOpcodeVector /\ ~IsSyscall(b.rip) =>
                    d = [regs |-> b, exit |-> Exit("InvalidInstruction")]
               /\ code \notin {PageFaultVector, InvalidOpcodeVector} =>
                    d = [regs |-> b,
                         exit |-> ExitWith("Exception", code, 0, 0)]
  BY DEF Dispatch, PageFaultVector, InvalidOpcodeVector

(* The dispatcher inverts the trampoline: from the RSP and RIP the guest  *)
(* halts with in the hypercall page and the IST1 stack, Vm::run puts back *)
(* the pre-exception RIP (past a syscall) and RSP and reports the vector. *)
LEMMA ClassifyException ==
    ASSUME NEW ev \in Events, ev.kind = "exception",
           NEW mem \in [IstSlots -> Nat], NEW rf \in Nat,
           NEW sregs \in SregsType,
           ev.vector = PageFaultVector => sregs.cr2 = ev.fault.addr,
           NEW regs \in RegsType,
           regs.rip = TrampolineResume(ev.vector),
           regs.rsp = Ist1Top - 8 * (IF CpuPushesErrorCode(ev.vector)
                                     THEN 7 ELSE 6),
           regs.rflags = rf
    PROVE  LET d == Classify(ev, regs, sregs, Pushed(mem, ev, rf))
           IN  /\ d.regs = [rip |-> IF ev.vector = InvalidOpcodeVector
                                       /\ ev.rip \in SyscallSites
                                    THEN ev.rip + 2 ELSE ev.rip,
                            rsp |-> ev.rsp, rflags |-> rf]
               /\ d.exit \in ExitType
               /\ ReportsEvent(d.exit, ev)
<1> DEFINE m == Pushed(mem, ev, rf)
           back == [rip |-> ev.rip, rsp |-> ev.rsp, rflags |-> rf]
<1>1. /\ ev.vector \in Vectors /\ ev.rip \in CodeAddrs /\ ev.rsp \in StackAddrs
      /\ ev.vector # InvalidOpcodeVector => ev.rip \in OtherAddrs
  BY EventFields
<1>2. /\ ev.vector \in 0..31 /\ ev.rip \in Nat /\ ev.rsp \in Nat
  BY <1>1, ConstAssumption
<1>3. Ist1Top \in Nat /\ Ist1Top >= 56
  BY ConstAssumption DEF Ist1Top, StackAddress, StackSize
<1>4. HasErrorCode(ev.vector) <=> CpuPushesErrorCode(ev.vector)
  BY <1>1, GuestAssumption
<1>5. Classify(ev, regs, sregs, m) = Dispatch(regs, sregs, m)
  BY <1>1, HypercallRange DEF Classify
<1>6. /\ m \in [IstSlots -> Nat]
      /\ ReadVal(m, regs.rsp) = ev.vector
      /\ ReadVal(m, Ist1Top - 40) = ev.rip
      /\ ReadVal(m, Ist1Top - 16) = ev.rsp
  BY PushedFrame
<1>7. ExceptionVector(regs, m) = ev.vector
  BY <1>6 DEF ExceptionVector
<1>8. ExceptionFrame(regs, m) = Ist1Top - 40
  BY <1>3, <1>4, <1>7 DEF ExceptionFrame
<1>9. Restored(regs, m) = back
  <2>1. ReadVal(m, ExceptionFrame(regs, m) + 24) = ev.rsp
        /\ ReadVal(m, ExceptionFrame(regs, m)) = ev.rip
    BY <1>3, <1>6, <1>8
  <2>2. /\ Restored(regs, m) \in RegsType
        /\ Restored(regs, m).rip = ev.rip
        /\ Restored(regs, m).rsp = ev.rsp
        /\ Restored(regs, m).rflags = rf
    BY <1>2, <2>1 DEF Restored, RegsType
  <2>3. back \in RegsType
    BY <1>2 DEF back, RegsType
  <2>4. QED
    BY <2>2, <2>3, RegsExt DEF back
<1>10. AsU32(ReadVal(m, regs.rsp + 8)) \in Nat
  BY <1>6 DEF ReadVal, AsU32
<1> DEFINE d == Classify(ev, regs, sregs, m)
           target == [rip |-> IF ev.vector = InvalidOpcodeVector
                                 /\ ev.rip \in SyscallSites
                              THEN ev.rip + 2 ELSE ev.rip,
                      rsp |-> ev.rsp, rflags |-> rf]
           dd == Dispatch(regs, sregs, m)
<1>11. /\ ev.vector = PageFaultVector =>
            dd = [regs |-> back,
                  exit |-> ExitWith("PageFault", 0,
                                    AsU32(ReadVal(m, regs.rsp + 8)),
                                    sregs.cr2)]
       /\ ev.vector = InvalidOpcodeVector /\ IsSyscall(back.rip) =>
            dd = [regs |-> [back EXCEPT !.rip = @ + 2],
                  exit |-> Exit("Syscall")]
       /\ ev.vector = InvalidOpcodeVector /\ ~IsSyscall(back.rip) =>
            dd = [regs |-> back, exit |-> Exit("InvalidInstruction")]
       /\ ev.vector \notin {PageFaultVector, InvalidOpcodeVector} =>
            dd = [regs |-> back,
                  exit |-> ExitWith("Exception", ev.vector, 0, 0)]
  <2>1. LET b == Restored(regs, m)
            code == ExceptionVector(regs, m)
        IN  /\ code = PageFaultVector =>
                 dd = [regs |-> b,
                       exit |-> ExitWith("PageFault", 0,
                                         AsU32(ReadVal(m, regs.rsp + 8)),
                                         sregs.cr2)]
            /\ code = InvalidOpcodeVector /\ IsSyscall(b.rip) =>
                 dd = [regs |-> [b EXCEPT !.rip = @ + 2],
                       exit |-> Exit("Syscall")]
            /\ code = InvalidOpcodeVector /\ ~IsSyscall(b.rip) =>
                 dd = [regs |-> b, exit |-> Exit("InvalidInstruction")]
            /\ code \notin {PageFaultVector, InvalidOpcodeVector} =>
                 dd = [regs |-> b, exit |-> ExitWith("Exception", code, 0, 0)]
    BY DispatchCases
  <2>2. QED
    BY <2>1, <1>7, <1>9
<1>12. d = dd
  BY <1>5
<1>13. back \in RegsType /\ target \in RegsType
  BY <1>2 DEF back, target, RegsType
<1>14. CASE ev.vector = PageFaultVector
  <2>1. d.regs = back
    BY <1>11, <1>12, <1>14
  <2>2. back = target
    BY <1>13, <1>14, RegsExt DEF back, target, PageFaultVector,
                                 InvalidOpcodeVector
  <2>3. /\ d.exit \in ExitType
        /\ d.exit.kind = "PageFault" /\ d.exit.address = ev.fault.addr
    BY <1>10, <1>11, <1>12, <1>14 DEF ExitWith, ExitType, ExitKinds, SregsType
  <2>4. ReportsEvent(d.exit, ev)
    BY <2>3, <1>14 DEF ReportsEvent, PageFaultVector, InvalidOpcodeVector
  <2>5. QED
    BY <2>1, <2>2, <2>3, <2>4
<1>15. CASE ev.vector = InvalidOpcodeVector /\ ev.rip \in SyscallSites
  <2>1. IsSyscall(back.rip)
    BY <1>15 DEF IsSyscall, back
  <2>2. d = [regs |-> [back EXCEPT !.rip = @ + 2], exit |-> Exit("Syscall")]
    BY <2>1, <1>11, <1>12, <1>15
  <2>3. [back EXCEPT !.rip = @ + 2] = target
    <3>1. /\ [back EXCEPT !.rip = @ + 2] \in RegsType
          /\ [back EXCEPT !.rip = @ + 2].rip = ev.rip + 2
          /\ [back EXCEPT !.rip = @ + 2].rsp = ev.rsp
          /\ [back EXCEPT !.rip = @ + 2].rflags = rf
      BY <1>2 DEF back, RegsType
    <3>2. QED
      BY <3>1, <1>13, <1>15, RegsExt DEF target
  <2>4. d.exit \in ExitType /\ ReportsEvent(d.exit, ev)
    BY <2>2, <1>15
    DEF Exit, ExitWith, ExitType, ExitKinds, ReportsEvent, PageFaultVector,
        InvalidOpcodeVector
  <2>5. QED
    BY <2>2, <2>3, <2>4
<1>16. CASE ev.vector = InvalidOpcodeVector /\ ev.rip \notin SyscallSites
  <2>1. ~IsSyscall(back.rip)
    BY <1>16 DEF IsSyscall, back
  <2>2. d = [regs |-> back, exit |-> Exit("InvalidInstruction")]
    BY <2>1, <1>11, <1>12, <1>16
  <2>3. back = target
    BY <1>13, <1>16, RegsExt DEF back, target
  <2>4. d.exit \in ExitType /\ ReportsEvent(d.exit, ev)
    BY <2>2, <1>16
    DEF Exit, ExitWith, ExitType, ExitKinds, ReportsEvent, PageFaultVector,
        InvalidOpcodeVector
  <2>5. QED
    BY <2>2, <2>3, <2>4
<1>17. CASE ev.vector \notin {PageFaultVector, InvalidOpcodeVector}
  <2>1. d = [regs |-> back, exit |-> ExitWith("Exception", ev.vector, 0, 0)]
    BY <1>11, <1>12, <1>17
  <2>2. back = target
    BY <1>13, <1>17, RegsExt DEF back, target
  <2>3. d.exit \in ExitType /\ ReportsEvent(d.exit, ev)
    BY <2>1, <1>2, <1>17
    DEF Exit, ExitWith, ExitType, ExitKinds, ReportsEvent
  <2>4. QED
    BY <2>1, <2>2, <2>3
<1>18. QED
  BY <1>14, <1>15, <1>16, <1>17 DEF d, target, m

(* A guest hlt outside the hypercall page, int3, a signal and any other  *)
(* KVM exit leave the mirror as KVM_GET_REGS gave it and are reported as  *)
(* Hlt, Breakpoint, Interrupted and Unhandled.                            *)
LEMMA ClassifyOther ==
    ASSUME NEW ev \in Events, ev.kind \notin {"exception", "error"},
           NEW regs, NEW sregs, NEW mem,
           regs.rip = IF ev.kind = "hlt" THEN ev.rip + 1 ELSE ev.rip
    PROVE  LET d == Classify(ev, regs, sregs, mem)
           IN  /\ d.regs = regs
               /\ d.exit \in ExitType
               /\ ReportsEvent(d.exit, ev)
<1>1. ev.kind \in {"debug", "hlt", "other", "eintr"} /\ ev.rip \in CodeAddrs
  BY EventFields DEF EventKinds
<1>2. ~InHypercallPage(regs.rip)
  BY <1>1, HypercallRange
<1>3. QED
  BY <1>1, <1>2
  DEF Classify, Exit, ExitWith, ExitType, ExitKinds, ReportsEvent

(* Setting bit 1 of RFLAGS, as __set_regs and commit_registers do, is     *)
(* idempotent and keeps RFLAGS a natural number.                          *)
LEMMA SetBit1Idem ==
    ASSUME NEW f \in Nat
    PROVE  /\ SetBit1(f) \in Nat
           /\ SetBit1(SetBit1(f)) = SetBit1(f)
<1>1. IsBitSet(f, 1) \/ IsBitSet(f + 2, 1)
  BY DEF IsBitSet
<1>2. QED
  BY <1>1 DEF SetBit1

-----------------------------------------------------------------------------
(* The inductive invariant.  The register mirror Vm.registers holds the   *)
(* RIP and RSP the guest resumes from, and its RFLAGS is the guest's but  *)
(* for bit 1, which commit_registers and KVM set.  IInv adds the type     *)
(* invariant and the exit classification.                                 *)
MirrorMatchesGuest ==
    /\ guest_view.rip = registers.rip
    /\ guest_view.rsp = registers.rsp
    /\ guest_view.rflags = SetBit1(registers.rflags)

IInv == TypeOK /\ MirrorMatchesGuest /\ ExitReportsGuestEvent

(* Vm::new leaves the mirror equal to the vCPU's reset state.             *)
LEMMA InitIInv == Init => IInv
<1> SUFFICES ASSUME Init PROVE IInv
  OBVIOUS
<1>1. IstSlots \subseteq Nat
  <2>1. Ist1Top \in Nat /\ Ist1Top >= 56
    BY ConstAssumption DEF Ist1Top, StackAddress, StackSize
  <2>2. QED
    BY <2>1 DEF IstSlots
<1>2. SetBit1(2) = 2
  BY DEF SetBit1, IsBitSet
<1>3. QED
  BY <1>1, <1>2
  DEF Init, IInv, TypeOK, MirrorMatchesGuest, ExitReportsGuestEvent,
      ReportsEvent, ResetRegs, NewSregs, RegsType,
      SregsType, VcpuType, SyncGroups, Exit, ExitWith, ExitKinds, NoEvent,
      Event, NoFault

(* set_reg, set_reg(FsBase), a failed commit and stuttering keep IInv.   *)
LEMMA HostStepsIInv ==
    ASSUME IInv,
           \/ \E r \in {"rip", "rsp", "rflags"} : \E v \in RegVals(r) : SetReg(r, v)
           \/ \E v \in Vals : SetFsBase(v)
           \/ RunCommitFails /\ runs' = runs + 1
           \/ UNCHANGED vars
    PROVE  IInv'
<1> USE DEF IInv, TypeOK, MirrorMatchesGuest, ExitReportsGuestEvent
<1>1. CASE \E r \in {"rip", "rsp", "rflags"} : \E v \in RegVals(r) : SetReg(r, v)
  <2>0. PICK r \in {"rip", "rsp", "rflags"} : \E v \in RegVals(r) : SetReg(r, v)
    BY <1>1
  <2>1. PICK v \in RegVals(r) : SetReg(r, v)
    BY <2>0
  <2>2. v \in Nat
    BY ConstAssumption DEF RegVals
  <2>3. CASE r = "rflags"
    BY <2>1, <2>2, <2>3, SetBit1Idem DEF SetReg, RegsType
  <2>4. CASE r # "rflags"
    BY <2>1, <2>2, <2>4 DEF SetReg, RegsType
  <2>5. QED
    BY <2>3, <2>4
<1>2. CASE \E v \in Vals : SetFsBase(v)
  BY <1>2, ConstAssumption DEF SetFsBase
<1>3. CASE RunCommitFails /\ runs' = runs + 1
  <2>1. SetBit1(registers.rflags) \in Nat
        /\ SetBit1(SetBit1(registers.rflags)) = SetBit1(registers.rflags)
    BY SetBit1Idem DEF RegsType
  <2>2. QED
    BY <1>3, <2>1
    DEF RunCommitFails, CommittedRegs, CommitDirty, SyncGroups, RegsType,
        Exit, ExitWith, ExitKinds, NoEvent, Event, NoFault, ReportsEvent
<1>4. CASE UNCHANGED vars
  BY <1>4 DEF vars
<1>5. QED
  BY <1>1, <1>2, <1>3, <1>4

(* What KVM_RUN starts the guest from: commit_registers marks both sync  *)
(* groups dirty, so sync_regs loads the mirror (RFLAGS bit 1 set) and    *)
(* special_registers.                                                    *)
LEMMA EntryFacts ==
    ASSUME TypeOK
    PROVE  /\ EntryVcpu.regs \in RegsType
           /\ EntryVcpu.regs.rip = registers.rip
           /\ EntryVcpu.regs.rsp = registers.rsp
           /\ EntryVcpu.regs.rflags = SetBit1(registers.rflags)
           /\ EntryVcpu.sregs = special_registers
           /\ EntryVcpu \in VcpuType
<1>1. "REGS" \in CommitDirty(dirty_regs) /\ "SREGS" \in CommitDirty(dirty_regs)
  BY DEF CommitDirty, SyncGroups
<1>2. /\ SetBit1(registers.rflags) \in Nat
      /\ SetBit1(SetBit1(registers.rflags)) = SetBit1(registers.rflags)
  BY SetBit1Idem DEF TypeOK, RegsType
<1>3. /\ EntryVcpu.regs = [CommittedRegs EXCEPT !.rflags = SetBit1(@)]
      /\ EntryVcpu.sregs = special_registers
  BY <1>1 DEF EntryVcpu, SyncRegs
<1>4. /\ EntryVcpu.regs.rip = registers.rip
      /\ EntryVcpu.regs.rsp = registers.rsp
      /\ EntryVcpu.regs.rflags = SetBit1(registers.rflags)
  BY <1>2, <1>3 DEF CommittedRegs, TypeOK, RegsType
<1>5. EntryVcpu.regs \in RegsType
  <2>1. CommittedRegs \in RegsType
    BY <1>2 DEF CommittedRegs, TypeOK, RegsType
  <2>2. [CommittedRegs EXCEPT !.rflags = SetBit1(@)] \in RegsType
    BY <2>1, <1>2 DEF CommittedRegs, TypeOK, RegsType
  <2>3. QED
    BY <2>2, <1>3
<1>6. EntryVcpu \in VcpuType
  <2>1. EntryVcpu = [regs |-> EntryVcpu.regs, sregs |-> special_registers]
    BY <1>1 DEF EntryVcpu, SyncRegs
  <2>2. QED
    BY <2>1, <1>5 DEF TypeOK, VcpuType
<1>7. QED
  BY <1>3, <1>4, <1>5, <1>6

(* The vCPU at KVM_RUN exit: RFLAGS as the guest started, FS base as the  *)
(* guest left it, RIP and RSP where the guest or the trampoline halted.   *)
LEMMA ExitFacts ==
    ASSUME NEW v0 \in VcpuType, NEW ev \in Events, NEW fsb \in Nat
    PROVE  LET v1 == GuestExit(v0, ev, fsb)
           IN  /\ v1.regs \in RegsType /\ v1.sregs \in SregsType
               /\ v1 \in VcpuType
               /\ v1.regs.rflags = v0.regs.rflags
               /\ v1.sregs.fs_base = fsb
               /\ ev.kind = "exception" =>
                    /\ v1.regs.rip = TrampolineResume(ev.vector)
                    /\ v1.regs.rsp =
                         Ist1Top - 8 * (IF CpuPushesErrorCode(ev.vector)
                                        THEN 7 ELSE 6)
               /\ ev.kind = "exception" /\ ev.vector = PageFaultVector =>
                    v1.sregs.cr2 = ev.fault.addr
               /\ ev.kind # "exception" =>
                    /\ v1.regs.rip = IF ev.kind = "hlt" THEN ev.rip + 1
                                     ELSE ev.rip
                    /\ v1.regs.rsp = ev.rsp
<1> DEFINE v1 == GuestExit(v0, ev, fsb)
<1>1. /\ ev.rip \in Nat /\ ev.rsp \in Nat
      /\ ev.kind = "exception" => ev.vector \in 0..31
      /\ ev.kind = "exception" /\ ev.vector = PageFaultVector =>
           ev.fault.addr \in Nat
  BY EventFields, ConstAssumption
<1>2. Ist1Top \in Nat /\ Ist1Top >= 56
  BY ConstAssumption DEF Ist1Top, StackAddress, StackSize
<1>3. \A v \in 0..31 : TrampolineResume(v) \in Nat
  BY ConstAssumption DEF TrampolineResume, IdtHandlers
<1>4. v1.regs \in RegsType /\ v1.regs.rflags = v0.regs.rflags
  BY <1>1, <1>2, <1>3 DEF GuestExit, VcpuType, RegsType
<1>5. v1.sregs \in SregsType /\ v1.sregs.fs_base = fsb
  BY <1>1 DEF GuestExit, VcpuType, SregsType
<1>6. v1 \in VcpuType
  <2>1. v1 = [regs |-> v1.regs, sregs |-> v1.sregs]
    BY DEF GuestExit
  <2>2. QED
    BY <2>1, <1>4, <1>5 DEF VcpuType
<1>7. QED
  BY <1>4, <1>5, <1>6 DEF GuestExit

(* One Vm::run that enters the guest keeps IInv, and the guest starts    *)
(* from the state it was to resume from (the round trip).                *)
LEMMA GuestRunIInv ==
    ASSUME IInv, NEW ev \in Events, NEW fsb \in Vals, GuestRun(ev, fsb),
           runs' = runs + 1
    PROVE  IInv' /\ entry'.regs = GprView(guest_view)
<1> DEFINE v0 == EntryVcpu
           v1 == GuestExit(v0, ev, fsb)
           rf == v0.regs.rflags
           mem1 == IF ev.kind = "exception" THEN Pushed(ist_mem, ev, rf)
                   ELSE ist_mem
           res == Classify(ev, v1.regs, v1.sregs, mem1)
<1>1. TypeOK /\ MirrorMatchesGuest
  BY DEF IInv
<1>2. /\ v0.regs \in RegsType /\ v0 \in VcpuType
      /\ v0.regs.rip = registers.rip /\ v0.regs.rsp = registers.rsp
      /\ rf = SetBit1(registers.rflags)
      /\ v0.sregs = special_registers
  BY <1>1, EntryFacts
<1>3. fsb \in Nat
  BY ConstAssumption
<1>4. /\ v1.regs \in RegsType /\ v1.sregs \in SregsType /\ v1 \in VcpuType
      /\ v1.regs.rflags = rf
      /\ v1.sregs.fs_base = fsb
      /\ ev.kind = "exception" =>
           /\ v1.regs.rip = TrampolineResume(ev.vector)
           /\ v1.regs.rsp = Ist1Top - 8 * (IF CpuPushesErrorCode(ev.vector)
                                           THEN 7 ELSE 6)
      /\ ev.kind = "exception" /\ ev.vector = PageFaultVector =>
           v1.sregs.cr2 = ev.fault.addr
      /\ ev.kind # "exception" =>
           /\ v1.regs.rip = IF ev.kind = "hlt" THEN ev.rip + 1 ELSE ev.rip
           /\ v1.regs.rsp = ev.rsp
  BY <1>2, <1>3, ExitFacts
<1>5. /\ rf \in Nat /\ SetBit1(rf) = rf
  BY <1>1, <1>2, SetBit1Idem DEF TypeOK, RegsType
<1> HIDE DEF v0, v1, rf
<1>6. /\ vcpu' = v1 /\ entry' = v0 /\ event' = ev /\ ist_mem' = mem1
      /\ run_regs' = v1.regs /\ run_sregs' = v1.sregs
      /\ special_registers' = v1.sregs
      /\ dirty_regs' = {} /\ valid_regs' = SyncGroups
      /\ \/ /\ registers' = v1.regs
            /\ exit' = Exit("HvError")
            /\ guest_view' = GuestState(v1)
            /\ fs_base' \in Nat
         \/ /\ ev.kind # "error"
            /\ fs_base' = fsb
            /\ registers' = res.regs
            /\ exit' = res.exit
            /\ guest_view' = Resumed(v1, ev)
  BY <1>1, <1>3, <1>4 DEF GuestRun, RunValid, CommitDirty, SyncGroups, TypeOK,
                          v0, v1, rf
<1>7. mem1 \in [IstSlots -> Nat]
  BY <1>1, <1>5, PushedFrame DEF TypeOK
<1>8. entry'.regs = GprView(guest_view)
  <2>1. GprView(guest_view) \in RegsType
    BY <1>1 DEF TypeOK, GprView, RegsType
  <2>2. QED
    BY <1>1, <1>2, <1>6, <2>1, RegsExt DEF MirrorMatchesGuest, GprView, v0, rf
<1> DEFINE Rest ==
           /\ special_registers' \in SregsType
           /\ run_regs' \in RegsType
           /\ run_sregs' \in SregsType
           /\ dirty_regs' \subseteq SyncGroups
           /\ valid_regs' \subseteq SyncGroups
           /\ vcpu' \in VcpuType
           /\ ist_mem' \in [IstSlots -> Nat]
           /\ entry' \in VcpuType
           /\ runs' \in Nat
        Mine(x, g) ==
           /\ x \in RegsType
           /\ g \in [rip: Nat, rsp: Nat, rflags: Nat, fs_base: Nat]
           /\ g.rip = x.rip /\ g.rsp = x.rsp /\ g.rflags = SetBit1(x.rflags)
<1>9. Rest
  BY <1>1, <1>2, <1>4, <1>6, <1>7 DEF TypeOK, SyncGroups
<1>10. /\ fs_base' \in Nat /\ exit' \in ExitType /\ ReportsEvent(exit', ev)
       /\ Mine(registers', guest_view')
  <2>1. CASE /\ registers' = v1.regs
             /\ exit' = Exit("HvError")
             /\ guest_view' = GuestState(v1)
             /\ fs_base' \in Nat
    <3>1. Exit("HvError") \in ExitType /\ ReportsEvent(Exit("HvError"), ev)
      BY DEF Exit, ExitWith, ExitType, ExitKinds, ReportsEvent
    <3>2. Mine(v1.regs, GuestState(v1))
      BY <1>4, <1>5 DEF GuestState, RegsType, SregsType
    <3>3. QED
      BY <2>1, <3>1, <3>2
  <2>2. CASE /\ ev.kind # "error" /\ ev.kind = "exception"
             /\ fs_base' = fsb
             /\ registers' = res.regs
             /\ exit' = res.exit
             /\ guest_view' = Resumed(v1, ev)
    <3>1. /\ res.regs = [rip |-> IF ev.vector = InvalidOpcodeVector
                                    /\ ev.rip \in SyscallSites
                                 THEN ev.rip + 2 ELSE ev.rip,
                         rsp |-> ev.rsp, rflags |-> rf]
          /\ res.exit \in ExitType /\ ReportsEvent(res.exit, ev)
      BY <1>1, <1>4, <1>5, <2>2, ClassifyException DEF TypeOK, res, mem1
    <3>2. ev.rip \in Nat /\ ev.rsp \in Nat
      BY EventFields, ConstAssumption, Zenon
    <3>3. Mine(res.regs, Resumed(v1, ev))
      <4>1. res.regs \in RegsType
        BY <1>5, <3>1, <3>2 DEF RegsType
      <4>2. Resumed(v1, ev) = [rip |-> res.regs.rip, rsp |-> res.regs.rsp,
                               rflags |-> rf, fs_base |-> fsb]
        BY <1>4, <2>2, <3>1 DEF Resumed
      <4>3. Resumed(v1, ev) \in [rip: Nat, rsp: Nat, rflags: Nat, fs_base: Nat]
        BY <1>3, <1>5, <4>1, <4>2 DEF RegsType
      <4>4. SetBit1(res.regs.rflags) = rf
        BY <1>5, <3>1
      <4>5. QED
        BY <4>1, <4>2, <4>3, <4>4
    <3>4. QED
      BY <2>2, <3>1, <3>3, <1>3
  <2>3. CASE /\ ev.kind # "error" /\ ev.kind # "exception"
             /\ fs_base' = fsb
             /\ registers' = res.regs
             /\ exit' = res.exit
             /\ guest_view' = Resumed(v1, ev)
    <3>1. res.regs = v1.regs /\ res.exit \in ExitType
          /\ ReportsEvent(res.exit, ev)
      BY <1>4, <2>3, ClassifyOther DEF res
    <3>2. Mine(res.regs, Resumed(v1, ev))
      <4>1. Resumed(v1, ev) = [rip |-> v1.regs.rip, rsp |-> v1.regs.rsp,
                               rflags |-> rf, fs_base |-> fsb]
        BY <1>4, <2>3 DEF Resumed
      <4>2. res.regs \in RegsType
        BY <1>4, <3>1
      <4>3. Resumed(v1, ev) \in [rip: Nat, rsp: Nat, rflags: Nat, fs_base: Nat]
        BY <1>3, <1>4, <1>5, <4>1 DEF RegsType
      <4>4. SetBit1(res.regs.rflags) = rf
        BY <1>4, <1>5, <3>1
      <4>5. QED
        BY <3>1, <4>1, <4>2, <4>3, <4>4
    <3>3. QED
      BY <2>3, <3>1, <3>2, <1>3
  <2>4. QED
    BY <1>6, <2>1, <2>2, <2>3
<1>11. QED
  BY <1>6, <1>8, <1>9, <1>10
  DEF IInv, TypeOK, MirrorMatchesGuest, ExitReportsGuestEvent, ExitType

(* Every step of Vm keeps IInv, and a step that enters the guest starts  *)
(* it from the state it was to resume from.                              *)
LEMMA NextIInv ==
    ASSUME IInv, [Next]_vars
    PROVE  /\ IInv'
           /\ GuestEntered => entry'.regs = GprView(guest_view)
<1>1. runs \in Nat
  BY DEF IInv, TypeOK
<1>2. CASE RunGuest /\ runs' = runs + 1
  <2>1. PICK ev \in Events, fsb \in Vals : GuestRun(ev, fsb)
    BY <1>2 DEF RunGuest
  <2>2. QED
    BY <1>2, <2>1, GuestRunIInv
<1>3. CASE RunCommitFails /\ runs' = runs + 1
  BY <1>3, HostStepsIInv DEF RunCommitFails, GuestEntered
<1>4. CASE \/ \E r \in {"rip", "rsp", "rflags"} : \E v \in RegVals(r) : SetReg(r, v)
           \/ \E v \in Vals : SetFsBase(v)
           \/ UNCHANGED vars
  <2>1. runs' = runs
    BY <1>4 DEF SetReg, SetFsBase, vars
  <2>2. QED
    BY <1>1, <1>4, <2>1, HostStepsIInv DEF GuestEntered
<1>5. QED
  BY <1>2, <1>3, <1>4 DEF Next, Run

(* Type correctness of Vm: the mirror, kvm_run, the vCPU and the VmExit   *)
(* keep their types in every run of Vm::new, set_reg and Vm::run.         *)
THEOREM TypeCorrect == Spec => []TypeOK
<1>1. Init => IInv
  BY InitIInv
<1>2. IInv /\ [Next]_vars => IInv'
  BY NextIInv
<1>3. IInv => TypeOK
  BY DEF IInv
<1>4. QED
  BY <1>1, <1>2, <1>3, PTL DEF Spec

(* Exit classification: after every Vm::run, the VmExit names what the   *)
(* guest did (ExitReportsGuestEvent), for every IDT layout, page size and *)
(* set of vectors the guest raises.                                       *)
THEOREM ExitClassification == Spec => []ExitReportsGuestEvent
<1>1. Init => IInv
  BY InitIInv
<1>2. IInv /\ [Next]_vars => IInv'
  BY NextIInv
<1>3. IInv => ExitReportsGuestEvent
  BY DEF IInv
<1>4. QED
  BY <1>1, <1>2, <1>3, PTL DEF Spec

(* Register round trip: every KVM_RUN of Vm::run starts the guest from    *)
(* the registers it stopped with, as the dispatcher restored them, with   *)
(* every set_reg since (RegisterRoundTrip).                               *)
THEOREM RoundTrip == Spec => RegisterRoundTrip
<1>1. Init => IInv
  BY InitIInv
<1>2. IInv /\ [Next]_vars => IInv'
  BY NextIInv
<1>3. IInv /\ [Next]_vars =>
        [GuestEntered => entry'.regs = GprView(guest_view)]_vars
  BY NextIInv
<1>4. QED
  BY <1>1, <1>2, <1>3, PTL DEF Spec, RegisterRoundTrip

-----------------------------------------------------------------------------
(* The FS base the guest stopped with.  special_registers is pulled from  *)
(* kvm_run on every path that ran the guest (SREGS is always valid), so   *)
(* it holds the vCPU's segment bases, also when KVM_GET_MSRS then failed  *)
(* and Vm.fs_base stayed stale.                                           *)
SregsMirrorVcpu == special_registers = vcpu.sregs

(* Every step of Vm keeps special_registers equal to the vCPU's, and a   *)
(* KVM_RUN starts the guest from that copy.                              *)
LEMMA SregsMirrorStep ==
    ASSUME IInv, SregsMirrorVcpu, [Next]_vars
    PROVE  /\ SregsMirrorVcpu'
           /\ GuestEntered => entry'.sregs = vcpu.sregs
<1>1. CASE RunGuest /\ runs' = runs + 1
  <2>1. PICK ev \in Events, fsb \in Vals : GuestRun(ev, fsb)
    BY <1>1 DEF RunGuest
  <2>2. special_registers' = vcpu'.sregs
    BY <2>1 DEF GuestRun, RunValid, SyncGroups
  <2>3. entry' = EntryVcpu
    BY <2>1 DEF GuestRun
  <2>4. EntryVcpu.sregs = special_registers
    BY EntryFacts DEF IInv
  <2>5. QED
    BY <2>2, <2>3, <2>4 DEF SregsMirrorVcpu
<1>2. CASE RunCommitFails /\ runs' = runs + 1
  BY <1>2 DEF RunCommitFails, GuestEntered, SregsMirrorVcpu
<1>3. CASE \/ \E r \in {"rip", "rsp", "rflags"} : \E v \in RegVals(r) : SetReg(r, v)
           \/ \E v \in Vals : SetFsBase(v)
           \/ UNCHANGED vars
  <2>1. runs \in Nat
    BY DEF IInv, TypeOK
  <2>2. QED
    BY <1>3, <2>1 DEF SetReg, SetFsBase, vars, GuestEntered, SregsMirrorVcpu
<1>4. QED
  BY <1>1, <1>2, <1>3 DEF Next, Run

(* FS base kept: when set_reg(FsBase) has not changed it, every KVM_RUN  *)
(* starts the guest with the FS base it stopped with, also after a run   *)
(* whose KVM_GET_MSRS failed (GuestFsBaseKept).                          *)
THEOREM FsBaseKept == Spec => GuestFsBaseKept
<1>1. Init => IInv /\ SregsMirrorVcpu
  BY InitIInv DEF Init, SregsMirrorVcpu
<1>2. IInv /\ SregsMirrorVcpu /\ [Next]_vars => (IInv /\ SregsMirrorVcpu)'
  BY NextIInv, SregsMirrorStep
<1>3. IInv /\ SregsMirrorVcpu /\ [Next]_vars =>
        [GuestEntered /\ guest_view.fs_base = vcpu.sregs.fs_base
           => entry'.sregs.fs_base = vcpu.sregs.fs_base]_vars
  BY SregsMirrorStep
<1>4. QED
  BY <1>1, <1>2, <1>3, PTL DEF Spec, GuestFsBaseKept


-----------------------------------------------------------------------------
(* The register contract.                                                 *)

\* SetBit1 leaves bit 1 of RFLAGS set, the reserved bit of the contract.
LEMMA SetBit1Reserved ==
    ASSUME NEW f \in Nat
    PROVE  Contract!ReservedBitSet(SetBit1(f))
<1>1. 2 ^ 1 = 2
    OBVIOUS
<1>2. CASE IsBitSet(f, 1)
    BY <1>1, <1>2 DEF SetBit1, IsBitSet, Contract!ReservedBitSet
<1>3. CASE ~IsBitSet(f, 1)
    <2>1. ((f + 2) \div 2) % 2 = 1
        BY <1>1, <1>3 DEF IsBitSet
    <2>2. QED
        BY <1>3, <2>1 DEF SetBit1, Contract!ReservedBitSet
<1>4. QED
    BY <1>2, <1>3

\* A guest state whose RFLAGS is a mirror's with bit 1 set can be entered.
LEMMA ViewRunnable ==
    ASSUME NEW rg \in RegsType,
           NEW g \in [rip: Nat, rsp: Nat, rflags: Nat, fs_base: Nat],
           g.rflags = SetBit1(rg.rflags)
    PROVE  Contract!Runnable(GprView(g))
<1>1. Contract!ReservedBitSet(g.rflags)
    BY SetBit1Reserved DEF RegsType
<1>2. QED
    BY <1>1 DEF GprView, Contract!Runnable, Contract!Gprs

\* Under IInv the guest can always be entered from its registers.
LEMMA IInvRunnable ==
    ASSUME IInv
    PROVE  Contract!Runnable(GprView(guest_view))
BY ViewRunnable DEF IInv, TypeOK, MirrorMatchesGuest

\* Every step of Vm is a step of the contract or leaves it unchanged.
LEMMA ContractStep ==
    ASSUME IInv, [Next]_vars
    PROVE  [Contract!Next]_Contract!cvars
<1>1. IInv'
    BY NextIInv
<1>2. Contract!Runnable(GprView(guest_view)')
    <2>1. registers' \in RegsType
          /\ guest_view' \in [rip: Nat, rsp: Nat, rflags: Nat, fs_base: Nat]
          /\ guest_view'.rflags = SetBit1(registers'.rflags)
        BY <1>1 DEF IInv, TypeOK, MirrorMatchesGuest
    <2>2. QED
        BY <2>1, ViewRunnable DEF GprView
<1>3. ASSUME NEW r \in {"rip", "rsp", "rflags"}, NEW v \in RegVals(r),
             SetReg(r, v)
      PROVE  Contract!SetRegister(r)
    <2>1. \A q \in Contract!GprNames \ {r} :
              GprView(guest_view)'[q] = GprView(guest_view)[q]
        BY <1>3 DEF SetReg, GprView, Contract!GprNames
    <2>2. QED
        BY <1>2, <1>3, <2>1 DEF SetReg, Contract!SetRegister
<1>4. ASSUME NEW v \in Vals, SetFsBase(v)
      PROVE  UNCHANGED Contract!cvars
    BY <1>4 DEF SetFsBase, GprView, Contract!cvars
<1>5. CASE RunCommitFails /\ runs' = runs + 1
    <2>1. Contract!RunRefused
        BY <1>5 DEF RunCommitFails, Exit, ExitWith, Contract!RunRefused
    <2>2. QED
        BY <2>1 DEF Contract!Next
<1>6. CASE RunGuest /\ runs' = runs + 1
    <2>1. PICK ev \in Events, fsb \in Vals : GuestRun(ev, fsb)
        BY <1>6 DEF RunGuest
    <2>2. entry'.regs = GprView(guest_view)
        BY <1>6, <2>1, GuestRunIInv
    <2>3. exit'.kind \in ExitKinds
        BY <1>1 DEF IInv, TypeOK
    <2>4. Contract!RunEntered
        BY <1>2, <2>2, <2>3 DEF Contract!RunEntered
    <2>5. QED
        BY <2>4 DEF Contract!Next
<1>7. CASE UNCHANGED vars
    BY <1>7 DEF vars, Contract!cvars
<1>8. QED
    BY <1>3, <1>4, <1>5, <1>6, <1>7
    DEF Next, Run, Contract!Next, Contract!GprNames

(* Vm implements RegisterContract: whatever the host calls set_reg with   *)
(* and whatever the guest does, a run fails before KVM_RUN without        *)
(* touching the registers the next run starts from, or enters the guest   *)
(* from exactly the registers set_reg and the dispatcher left, RFLAGS bit *)
(* 1 set (ImplementsContract).                                            *)
THEOREM RegistersImplementContract == Spec => ImplementsContract
<1>1. Init => Contract!Init
    <2> SUFFICES ASSUME Init PROVE Contract!Init
        OBVIOUS
    <2>1. Contract!Runnable(GprView(guest_view))
        BY InitIInv, IInvRunnable
    <2>2. entry.regs = GprView(guest_view) /\ exit.kind = "None"
        BY DEF Init, ResetRegs, GprView, Exit, ExitWith
    <2>3. QED
        BY <2>1, <2>2 DEF Contract!Init
<1>2. IInv /\ [Next]_vars => [Contract!Next]_Contract!cvars
    BY ContractStep
<1>3. QED
    BY <1>1, <1>2, InitIInv, NextIInv, PTL
    DEF Spec, ImplementsContract, Contract!Spec

====
