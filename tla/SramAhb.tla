------------------------------ MODULE SramAhb ------------------------------
(***************************************************************************)
(* The SRAM (src/peripherals/sram_ahb.h) as a device of the PL: a memory   *)
(* that is cleared when the reset is asserted.  Which offsets reach it,    *)
(* and that none of them is out of its range, is the matter of             *)
(* AddressDecode.                                                          *)
(***************************************************************************)
EXTENDS PlAccess

CONSTANTS SramTime,  \* simulated time an access to the SRAM takes
          Cells      \* bound: offsets in the SRAM the guest accesses

VARIABLE mem

SramInit == mem = [c \in Cells |-> 0]

SramReset == /\ Runs("sram_reset", {})
             /\ mem' = IF sig.reset THEN [c \in Cells |-> 0] ELSE mem
             /\ WaitEvent /\ UNCHANGED <<sig, nxt, accessVars>>

LoadCell == CallFor(SramTime, {}) /\ UNCHANGED mem

StoreCell(cell, word) == /\ CallFor(SramTime, {})
                         /\ mem' = [mem EXCEPT ![cell] = word]

SramWoken == IF nxt.reset # sig.reset THEN {"sram_reset"} ELSE {}

=============================================================================
