--------------------------- MODULE RegisterContract ---------------------------
(***************************************************************************)
(* What Vm promises its host about RIP, RSP and RFLAGS (spec sections 4.4  *)
(* and 5): a set_reg changes the one register named, with RFLAGS bit 1     *)
(* forced; a run either fails before the guest is entered, and then        *)
(* changes no register the next run starts from, or enters the guest from  *)
(* exactly the registers the host and the previous exits left, after which *)
(* the guest leaves them in any state with bit 1 of RFLAGS set.  FS base   *)
(* is not part of the promise: it is not kept (FsBaseRoundTrip).           *)
(***************************************************************************)
EXTENDS Naturals

CONSTANTS
    Results    \* the kinds of VmExit a run returns

VARIABLES
    view,      \* the registers the next run starts the guest from
    entered,   \* the registers the guest was last entered with
    result     \* the kind of the VmExit of the last run

cvars == <<view, entered, result>>

GprNames == {"rip", "rsp", "rflags"}
Gprs == [rip: Nat, rsp: Nat, rflags: Nat]

\* Bit 1 of RFLAGS, reserved and always 1 on x86-64.
ReservedBitSet(rflags) == (rflags \div 2) % 2 = 1

\* A register state a guest can run from.
Runnable(g) == g \in Gprs /\ ReservedBitSet(g.rflags)

Init ==
    /\ Runnable(view)
    /\ entered = view
    /\ result = "None"

\* set_reg(r, v): r alone changes.
SetRegister(r) ==
    /\ Runnable(view')
    /\ \A q \in GprNames \ {r} : view'[q] = view[q]
    /\ UNCHANGED <<entered, result>>

\* A run that returns HvError before KVM_RUN.
RunRefused ==
    /\ result' = "HvError"
    /\ UNCHANGED <<view, entered>>

\* A run that enters the guest: it starts from view and stops anywhere.
RunEntered ==
    /\ entered' = view
    /\ Runnable(view')
    /\ result' \in Results

Next ==
    \/ \E r \in GprNames : SetRegister(r)
    \/ RunRefused
    \/ RunEntered

Spec == Init /\ [][Next]_cvars
=============================================================================
