-------------------------------- MODULE MCVm --------------------------------
(***************************************************************************)
(* Model-checking instance of Vm: one page of 4 KiB, the control pages at  *)
(* a scaled-down IDT_ADDRESS, two code addresses of which one holds a      *)
(* syscall, one guest stack, and vectors with and without an error code:   *)
(* #UD (6), #GP (13), #PF (14).                                   *)
(***************************************************************************)
EXTENDS Vm

MCPageSize == 4096
MCIdtAddress == 65536
MCVals == {0, 1}
MCCodeAddrs == {4096, 4104}
MCStackAddrs == {8192}
MCSyscallSites == {4104}
MCVectors == {6, 13, 14}
\* The page faults of the spec's scenarios 4 and 5: a read of an unmapped
\* page, a write to a read-only page.
MCPfKinds == {[present |-> FALSE, access |-> "read"],
              [present |-> TRUE, access |-> "write"]}
MCFaultAddrs == {12288}

\* Bound on the calls of Vm::run: two runs reach any exit, set_reg calls
\* and a re-entry after it.
MaxRuns == 2
RunsBound == runs <= MaxRuns
=============================================================================
