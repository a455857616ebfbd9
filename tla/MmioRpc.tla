------------------------------ MODULE MmioRpc ------------------------------
(***************************************************************************)
(* What the transactor promises the guest, without sockets: a load or      *)
(* store in the PL window is a blocking call on the SystemC side           *)
(* (src/bridges/remote_mmio.c, src/transactor/cosim_server.cpp).           *)
(*                                                                         *)
(* Accesses are numbered in the order the guest issues them.  The guest    *)
(* has one access outstanding at a time; the SystemC side performs an      *)
(* access at most once and in program order; an access that returns        *)
(* normally was performed, returns its own data and leaves the interrupt   *)
(* lines at the levels sampled with it.  An access may also be lost: the   *)
(* call returns to the guest, and the access is performed later or never.  *)
(***************************************************************************)
EXTENDS Naturals

CONSTANT Irqs       \* the interrupt lines from the PL to the guest

VARIABLES issued,   \* number of the latest access the guest issued
          outcome,  \* how that access stands
          ret,      \* access whose answer the guest was last given
          lines,    \* interrupt lines raised at the guest's controller
          served,   \* number of the latest access the SystemC side performed
          level     \* interrupt levels sampled when it had performed it

rpcVars == <<issued, outcome, ret, lines, served, level>>

Outcomes == {"none", "busy", "ok", "error", "lost"}

TypeOK == /\ issued \in Nat
          /\ outcome \in Outcomes
          /\ ret \in Nat
          /\ lines \subseteq Irqs
          /\ served \in Nat
          /\ level \subseteq Irqs

Init == /\ issued = 0 /\ outcome = "none" /\ ret = 0 /\ lines = {}
        /\ served = 0 /\ level = {}

\* The guest's CPU enters the MMIO callback.
Issue == /\ outcome # "busy"
         /\ issued' = issued + 1
         /\ outcome' = "busy"
         /\ UNCHANGED <<ret, lines, served, level>>

\* The SystemC side performs an access newer than any it performed before.
Serve == \E n \in (served + 1) .. issued, l \in SUBSET Irqs :
            /\ served' = n
            /\ level' = l
            /\ UNCHANGED <<issued, outcome, ret, lines>>

\* The callback returns the answer to the access it was entered for.
ReturnOk == /\ outcome = "busy" /\ served = issued
            /\ outcome' = "ok"
            /\ ret' = issued
            /\ lines' = level
            /\ UNCHANGED <<issued, served, level>>

\* The SystemC side refused the access; the lines keep their levels.
ReturnError == /\ outcome = "busy" /\ served = issued
               /\ outcome' = "error"
               /\ ret' = issued
               /\ UNCHANGED <<issued, lines, served, level>>

\* The link failed under the access: the callback returns without an answer.
Lose == /\ outcome = "busy"
        /\ outcome' = "lost"
        /\ UNCHANGED <<issued, ret, lines, served, level>>

\* The guest's machine is started afresh, its interrupt lines low.
Restart == /\ outcome' = "none"
           /\ lines' = {}
           /\ UNCHANGED <<issued, ret, served, level>>

Next == Issue \/ Serve \/ ReturnOk \/ ReturnError \/ Lose \/ Restart

Spec == Init /\ [][Next]_rpcVars

(***************************************************************************)
(* What follows for the guest.                                             *)
(***************************************************************************)

\* A completed access was performed, by that access and no other, and after
\* a normal return the lines show the levels sampled with it.
AnsweredByItself ==
  /\ outcome \in {"ok", "error"} => ret = issued /\ served = issued
  /\ outcome = "ok" => lines = level
=============================================================================
