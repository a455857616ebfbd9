------------------------------- MODULE WdtApb -------------------------------
(***************************************************************************)
(* The watchdog (src/peripherals/wdt_apb.h), the APB clock that makes it   *)
(* tick (src/clocks/clock_reset.h) and, beside it, the system controller   *)
(* that records its reset request.  Time is counted in system clock        *)
(* periods.                                                                *)
(***************************************************************************)
EXTENDS SysCtrlApb

CONSTANTS Loads,      \* bound: words the guest writes to LOAD
          ResetLoad,  \* LOAD after a reset, 0xFFFF
          MaxAccess   \* bound: accesses the guest makes

ASSUME WdtAssumption ==
  /\ MaxAccess \in Nat
  /\ Loads \subseteq Nat /\ ResetLoad \in Nat

VARIABLES load, value, ctrl, ris, locked,  \* the watchdog's
          pclk_state,                      \* the divider's
          naccess,                         \* accesses made
          since  \* history: ticks since the guest last wrote LOAD or INTCLR

wdtVars == <<load, value, ctrl, ris, locked>>
deviceVars == <<wdtVars, sysVars, pclk_state, since>>
vars == <<kernelVars, accessVars, deviceVars, naccess>>

Methods == {"pclk_div", "tick", "wdt_drive", "wdt_reset", "sys_reset", "on_wdt"}
Words == Loads \cup {ResetLoad}
Signals == [reset : BOOLEAN, pclk : BOOLEAN, wdt_irq : BOOLEAN, rst_req : BOOLEAN,
            irq_bits : SUBSET Lines]

TypeOK == /\ runnable \subseteq Timed \cup Methods \cup {"pack_irqs"}
          /\ resume \subseteq Methods
          /\ sig \in Signals /\ nxt \in Signals
          /\ AccessTypeOK
          /\ load \in Words /\ value \in 0 .. load
          /\ ctrl \subseteq {"INTEN", "RESEN"}
          /\ ris \in BOOLEAN /\ locked \in BOOLEAN /\ pclk_state \in BOOLEAN
          /\ SysTypeOK
          /\ naccess \in 0 .. MaxAccess
          /\ since \in 0 .. load + 1

WdtInit == /\ load = ResetLoad /\ value = ResetLoad /\ ctrl = {} /\ ris = FALSE
           /\ locked = TRUE /\ pclk_state = FALSE /\ since = 0

Init == /\ AccessInit({"clk", "wdt_reset", "sys_reset"})
        /\ sig = [reset |-> TRUE, pclk |-> FALSE, wdt_irq |-> FALSE,
                  rst_req |-> FALSE, irq_bits |-> {}]
        /\ nxt = sig
        /\ WdtInit /\ SysInit /\ naccess = 0

(***************************************************************************)
(* The clocks and the processes of the two devices.                        *)
(***************************************************************************)

Clock == /\ Runs("clk", {})
         /\ resume' = resume \cup {"pclk_div"}
         /\ alarm' = [alarm EXCEPT !["clk"] = 1]
         /\ UNCHANGED <<sig, nxt, accessVars, deviceVars, naccess>>

PclkDiv == /\ Runs("pclk_div", {})
           /\ pclk_state' = ~pclk_state
           /\ nxt' = [nxt EXCEPT !.pclk = pclk_state']
           /\ WaitEvent
           /\ UNCHANGED <<sig, accessVars, wdtVars, sysVars, since, naccess>>

Ticking == ~sig.reset /\ "INTEN" \in ctrl

\* Mutant: the expiry does not notify drive().
ExpiresQuiet == {}
ExpiryNotifies == {"wdt_drive"}

\* Mutant: the counter is compared with 1.
AtOne == value = 1
AtZero == value = 0

Tick ==
  /\ \/ /\ ~Ticking
        /\ Runs("tick", {}) /\ UNCHANGED <<ris, value, since>>
     \/ /\ Ticking /\ AtZero
        /\ Runs("tick", ExpiryNotifies)
        /\ ris' = TRUE /\ value' = load
        /\ since' = IF since > load THEN since ELSE since + 1
     \/ /\ Ticking /\ ~AtZero
        /\ Runs("tick", {})
        /\ value' = value - 1
        /\ since' = IF since > load THEN since ELSE since + 1
        /\ UNCHANGED ris
  /\ WaitEvent
  /\ UNCHANGED <<sig, nxt, accessVars, load, ctrl, locked, sysVars, pclk_state, naccess>>

Drive == /\ Runs("wdt_drive", {})
         /\ nxt' = [nxt EXCEPT !.wdt_irq = ris /\ "INTEN" \in ctrl,
                               !.rst_req = ris /\ "RESEN" \in ctrl]
         /\ WaitEvent
         /\ UNCHANGED <<sig, accessVars, deviceVars, naccess>>

WdtReset == /\ Runs("wdt_reset", IF sig.reset THEN {"wdt_drive"} ELSE {})
            /\ IF sig.reset
               THEN /\ load' = ResetLoad /\ value' = ResetLoad /\ ctrl' = {}
                    /\ ris' = FALSE /\ locked' = TRUE /\ since' = 0
               ELSE UNCHANGED <<wdtVars, since>>
            /\ WaitEvent
            /\ UNCHANGED <<sig, nxt, accessVars, sysVars, pclk_state, naccess>>

(***************************************************************************)
(* The accesses.                                                           *)
(***************************************************************************)

Lock(key) == /\ Call({})
             /\ locked' = ~key
             /\ UNCHANGED <<load, value, ctrl, ris, since, sysVars>>

WriteLoad(word) == /\ ~locked /\ Call({"wdt_drive"})
                   /\ load' = word /\ value' = word /\ since' = 0
                   /\ UNCHANGED <<ctrl, ris, locked, sysVars>>

\* Mutant: the outputs wait for the next expiry.
WriteControlQuiet(bits) == /\ ~locked /\ Call({})
                           /\ ctrl' = bits
                           /\ UNCHANGED <<load, value, ris, locked, since, sysVars>>

\* Mutant: a store to CONTROL starts the counter afresh.
WriteControlReloads(bits) == /\ ~locked /\ Call({"wdt_drive"})
                             /\ ctrl' = bits /\ value' = load
                             /\ UNCHANGED <<load, ris, locked, since, sysVars>>

WriteControl(bits) == /\ ~locked /\ Call({"wdt_drive"})
                      /\ ctrl' = bits
                      /\ UNCHANGED <<load, value, ris, locked, since, sysVars>>

\* Mutant: the counter goes on from where it was.
IntClrKeepsValue == /\ ~locked /\ Call({"wdt_drive"})
                    /\ ris' = FALSE /\ since' = 0
                    /\ UNCHANGED <<load, value, ctrl, locked, sysVars>>

IntClr == /\ ~locked /\ Call({"wdt_drive"})
          /\ ris' = FALSE /\ value' = load /\ since' = 0
          /\ UNCHANGED <<load, ctrl, locked, sysVars>>

\* A load of any register or a store to a locked one; a store to none, which
\* notifies drive all the same.
NoEffect == /\ Call({}) \/ (~locked /\ Call({"wdt_drive"}))
            /\ UNCHANGED <<wdtVars, sysVars, since>>

\* The system controller is accessed.
AccessSys == /\ \/ ClearLatch \/ ReadSys
                \/ \E word \in Scratches : WriteScratch(word)
             /\ UNCHANGED <<wdtVars, since>>

Request == /\ naccess < MaxAccess /\ naccess' = naccess + 1
           /\ \/ \E key \in BOOLEAN : Lock(key)
              \/ \E word \in Loads : WriteLoad(word)
              \/ \E bits \in SUBSET {"INTEN", "RESEN"} : WriteControl(bits)
              \/ IntClr \/ NoEffect \/ AccessSys
           /\ UNCHANGED pclk_state

Server == (Poll \/ Respond \/ Release \/ PackIrqs) /\ UNCHANGED <<deviceVars, naccess>>

SysProcess == (SysReset \/ OnWdt) /\ UNCHANGED <<wdtVars, pclk_state, since, naccess>>

\* Mutant: on_wdt is sensitive to nothing.
WokenNotByRequest == (IF nxt.reset # sig.reset THEN {"wdt_reset", "sys_reset"} ELSE {})
                     \cup (IF nxt.pclk /\ ~sig.pclk THEN {"tick"} ELSE {})
                     \cup (IF nxt.wdt_irq # sig.wdt_irq THEN {"pack_irqs"} ELSE {})

Woken == (IF nxt.reset # sig.reset THEN {"wdt_reset"} ELSE {})
         \cup (IF nxt.pclk /\ ~sig.pclk THEN {"tick"} ELSE {})
         \cup (IF nxt.wdt_irq # sig.wdt_irq THEN {"pack_irqs"} ELSE {})
         \cup SysWoken

Scheduler == (Update(Woken) \/ Advance) /\ UNCHANGED <<accessVars, deviceVars, naccess>>

Silicon == Clock \/ PclkDiv \/ Tick \/ Drive \/ WdtReset \/ SysProcess
           \/ Server \/ Scheduler

Next == Request \/ Silicon

Spec == Init /\ [][Next]_vars

\* The simulation runs; the guest need not make an access.
FairSpec == Spec /\ WF_vars(Silicon)

(***************************************************************************)
(* Properties.                                                             *)
(***************************************************************************)

\* A guest that does not write LOAD or INTCLR for more than LOAD ticks of an
\* enabled watchdog finds it expired, whatever else it writes: disabling and
\* enabling it, locking it and unlocking it do not put the expiry off.
OnTime == since > load => ris

\* It never expires sooner: the tick that posts the interrupt, number LOAD + 1
\* since the guest last wrote LOAD or INTCLR, comes after LOAD others.
NotEarly == [][~ris /\ ris' => since >= load]_vars

\* Whenever simulated time may pass, the outputs show the registers.
SettledOutputs == Settled => /\ sig.wdt_irq = (ris /\ "INTEN" \in ctrl)
                             /\ sig.rst_req = (ris /\ "RESEN" \in ctrl)

\* Whenever simulated time may pass, a watchdog that requests a reset is
\* recorded in SYS_WDT_RST, unless the guest itself has cleared that record
\* since it was last set: no request is lost to another process of its delta.
RequestIsRecorded == Settled /\ ris /\ "RESEN" \in ctrl => wdt_latched \/ dismissed

LeftAlone == naccess = MaxAccess /\ pc = "idle" /\ Settled

\* A guest that hangs with the watchdog armed is found out: the interrupt is
\* in irq_bits.
HangIsNoticed == LeftAlone /\ ~sig.reset /\ "INTEN" \in ctrl ~> "wdt_irq" \in sig.irq_bits

\* With RESEN set as well, an expiry still to come is latched in SYS_WDT_RST.
HangIsLatched ==
  LeftAlone /\ ~sig.reset /\ ctrl = {"INTEN", "RESEN"} /\ ~ris ~> wdt_latched

=============================================================================
