----------------------------- MODULE SysCtrlApb -----------------------------
(***************************************************************************)
(* The system controller (src/peripherals/sysctrl_apb.h): a scratch word,  *)
(* and a record of what has happened to the SoC, the release of its reset  *)
(* and a reset request of the watchdog, the signal rst_req.  Nothing       *)
(* resets the SoC when that is requested.                                  *)
(***************************************************************************)
EXTENDS PlAccess

CONSTANTS SysTime,   \* simulated time an access to the system controller takes
          Scratches  \* bound: words the guest writes to SCRATCH

ASSUME SysCtrlAssumption == SysTime \in Nat \ {0} /\ 0 \in Scratches

VARIABLES scratch, reset_released, wdt_latched,
          dismissed  \* history: the guest cleared SYS_WDT_RST since on_wdt set it

sysVars == <<scratch, reset_released, wdt_latched, dismissed>>

SysTypeOK == /\ scratch \in Scratches
             /\ reset_released \in BOOLEAN /\ wdt_latched \in BOOLEAN
             /\ dismissed \in BOOLEAN

SysInit == /\ scratch = 0 /\ reset_released = FALSE /\ wdt_latched = FALSE
           /\ dismissed = FALSE

SysReset == /\ Runs("sys_reset", {})
            /\ IF sig.reset
               THEN scratch' = 0 /\ reset_released' = FALSE /\ wdt_latched' = FALSE
               ELSE reset_released' = TRUE /\ UNCHANGED <<scratch, wdt_latched>>
            /\ WaitEvent /\ UNCHANGED <<sig, nxt, accessVars, dismissed>>

\* Mutant: the latch looks for the end of the request.
OnWdtFalling == /\ Runs("on_wdt", {})
                /\ wdt_latched' = (wdt_latched \/ ~sig.rst_req)
                /\ dismissed' = (dismissed /\ ~sig.rst_req)
                /\ WaitEvent /\ UNCHANGED <<sig, nxt, accessVars, scratch, reset_released>>

OnWdt == /\ Runs("on_wdt", {})
         /\ wdt_latched' = (wdt_latched \/ sig.rst_req)
         /\ dismissed' = (dismissed /\ ~sig.rst_req)
         /\ WaitEvent /\ UNCHANGED <<sig, nxt, accessVars, scratch, reset_released>>

WriteScratch(word) == /\ CallFor(SysTime, {})
                      /\ scratch' = word
                      /\ UNCHANGED <<reset_released, wdt_latched, dismissed>>

\* A store to SYS_WDT_RST.
ClearLatch == /\ CallFor(SysTime, {})
              /\ wdt_latched' = FALSE /\ dismissed' = TRUE
              /\ UNCHANGED <<scratch, reset_released>>

\* Any other access.
ReadSys == CallFor(SysTime, {}) /\ UNCHANGED sysVars

SysWoken == (IF nxt.reset # sig.reset THEN {"sys_reset"} ELSE {})
            \cup (IF nxt.rst_req # sig.rst_req THEN {"on_wdt"} ELSE {})

=============================================================================
