------------------------------ MODULE PlAccess ------------------------------
(***************************************************************************)
(* How an APB device of the PL SoC is accessed and how it reaches the      *)
(* guest: the server thread calls b_transport() of the device, which runs  *)
(* to its end within the thread's step, and then waits the access's delay  *)
(* (src/transactor/cosim_server.cpp); the reset sequence releases the      *)
(* device (src/clocks/clock_reset.h); the interrupt signals of the devices *)
(* are packed into irq_bits (src/Soc/cortexm_pl.h), which every response   *)
(* carries.  A device module adds the registers, the processes of the      *)
(* device and its signals.                                                 *)
(***************************************************************************)
EXTENDS SystemC

CONSTANTS AccessTime,  \* simulated time an access to the device takes
          PollSlice,   \* simulated time between two polls of the socket
          ResetTime    \* time at which the reset is released

ASSUME AccessAssumption ==
  AccessTime \in Nat \ {0} /\ PollSlice \in Nat \ {0} /\ ResetTime \in Nat \ {0}

VARIABLES pc,   \* where the server thread is: "idle" or in the "access"
          irqs  \* irq_bits of the latest response, the set of the raised lines

accessVars == <<pc, irqs>>

\* The lines packed in irq_bits, each named after its signal.
Lines == {"intr1", "intr2", "uart_irq", "gpio_irq", "wdt_irq"}

Packed(s) == {l \in Lines \cap DOMAIN s : s[l]}

Timed == {"server", "reset_seq", "clk"}   \* processes in timed waits

AccessTypeOK == /\ alarm \in [Timed -> Nat]
                /\ pc \in {"idle", "access"}
                /\ irqs \subseteq Lines

\* The initialization phase: methods are the processes of the device in it.
AccessInit(methods) ==
  /\ runnable = {"server", "pack_irqs"} \cup methods
  /\ resume = {}
  /\ alarm = [p \in Timed |-> IF p = "reset_seq" THEN ResetTime ELSE Off]
  /\ pc = "idle" /\ irqs = {}

\* A request is there: b_transport() of a device is called, adds time to the
\* access's delay and notifies what wakes the processes in notified.
CallFor(time, notified) == /\ pc = "idle" /\ Runs("server", notified)
                           /\ WaitTime("server", time)
                           /\ pc' = "access"
                           /\ UNCHANGED <<sig, nxt, irqs>>

Call(notified) == CallFor(AccessTime, notified)

\* No request is there: wait_readable() lets simulated time pass.
Poll == /\ pc = "idle" /\ Runs("server", {})
        /\ WaitTime("server", PollSlice)
        /\ UNCHANGED <<sig, nxt, accessVars>>

\* The delay is over: the response is sent and the thread loops.
Respond == /\ pc = "access" /\ Runs("server", {"server"})
           /\ pc' = "idle" /\ irqs' = sig.irq_bits
           /\ WaitEvent
           /\ UNCHANGED <<sig, nxt>>

\* reset_seq() comes to the clock edge at which it ends the reset.
Release == /\ Runs("reset_seq", {})
           /\ nxt' = [nxt EXCEPT !.reset = FALSE]
           /\ WaitEvent
           /\ UNCHANGED <<sig, accessVars>>

PackIrqs == /\ Runs("pack_irqs", {})
            /\ nxt' = [nxt EXCEPT !.irq_bits = Packed(sig)]
            /\ WaitEvent
            /\ UNCHANGED <<sig, accessVars>>

=============================================================================
