----------------------------- MODULE CortexMPl -----------------------------
(***************************************************************************)
(* The PL of basic_cortexM (src/Soc/cortexm_pl.h): the timer behind its    *)
(* pin bridge, the SRAM, the GPIO block, the UART, the system controller   *)
(* and the watchdog on one clock, one reset, one scheduler and one server  *)
(* thread, their five lines packed into irq_bits.  Each device is the      *)
(* module that models it alone.  Time is counted in units of 5 ns.         *)
(***************************************************************************)
EXTENDS PlAccess

CONSTANTS SysTime, SramTime,             \* access times
          Pins, FIFO_DEPTH, Chars,       \* of GpioApb and UartPl011
          Scratches, Loads, ResetLoad,   \* of SysCtrlApb and WdtApb
          Cells,                         \* of SramAhb
          WordBits, OvfCount             \* of PinTimer

VARIABLES dir, out, inten, inttype, intpol, intstat,       \* the GPIO block's
          cr, imsc, uart_ris, rx, acked,                   \* the UART's
          load, value, ctrl, wdt_ris, locked, since,       \* the watchdog's
          scratch, reset_released, wdt_latched, dismissed, \* the controller's
          pclk_state,                                      \* the clock divider's
          mem,                                             \* the SRAM's
          regs, access, rdata, held, applied               \* the timer's

Gpio == INSTANCE GpioApb
Uart == INSTANCE UartPl011 WITH ris <- uart_ris
Wdt  == INSTANCE WdtApb WITH ris <- wdt_ris, naccess <- 0, MaxAccess <- 0
Sram == INSTANCE SramAhb
Pin  == INSTANCE PinTimer WITH platform <- "basic_cortexM", naccess <- 0,
                               MaxAccess <- 0, GuestWords <- {}

\* What PinTimer assumes of the width of a register.
ASSUME PlAssumption == Pin!Words \in Nat \ {0} /\ Pin!Words % 8 = 0

gpioVars == <<dir, out, inten, inttype, intpol, intstat>>
uartVars == <<cr, imsc, uart_ris, rx, acked>>
wdtVars == <<load, value, ctrl, wdt_ris, locked, since, pclk_state>>
sysVars == <<scratch, reset_released, wdt_latched, dismissed>>
timerVars == <<regs, access, rdata, held, applied>>
plVars == <<gpioVars, uartVars, wdtVars, sysVars, mem, timerVars>>

\* The initialization phase: every thread, and every method that has none of
\* its dont_initialize().
PlInit ==
  /\ AccessInit({"clk", "reset", "gpio_reset", "uart_reset", "wdt_reset",
                 "sys_reset", "sram_reset"})
  /\ sig = [reset |-> TRUE, pclk |-> FALSE, read_en |-> FALSE, write_en |-> FALSE,
            address |-> "CTRL", data_in |-> 0, data_out |-> 0,
            intr1 |-> FALSE, intr2 |-> FALSE, uart_irq |-> FALSE,
            gpio_irq |-> FALSE, wdt_irq |-> FALSE, rst_req |-> FALSE,
            irq_bits |-> {}]
  /\ nxt = sig
  /\ Gpio!Cleared /\ Uart!AfterReset /\ Wdt!WdtInit /\ Wdt!SysInit
  /\ Sram!SramInit /\ Pin!TimerInit

(***************************************************************************)
(* The processes, each of one device.                                      *)
(***************************************************************************)

\* A rising edge of sys_clk: what is sensitive to it runs a delta cycle later.
Clock == /\ Runs("clk", {})
         /\ resume' = resume \cup {"pclk_div", "timer_thread", "irq_output"}
         /\ alarm' = [alarm EXCEPT !["clk"] = Pin!Period]
         /\ UNCHANGED <<sig, nxt, accessVars, plVars>>

GpioProcess == /\ Gpio!OnReset \/ Gpio!DriveIrq
               /\ UNCHANGED <<uartVars, wdtVars, sysVars, mem, timerVars>>

UartProcess == /\ Uart!OnReset \/ Uart!DriveIrq
               /\ UNCHANGED <<gpioVars, wdtVars, sysVars, mem, timerVars>>

WdtProcess == /\ \/ Wdt!PclkDiv \/ Wdt!Tick \/ Wdt!Drive \/ Wdt!WdtReset
                 \/ Wdt!SysProcess
              /\ UNCHANGED <<gpioVars, uartVars, mem, timerVars>>

SramProcess == /\ Sram!SramReset
               /\ UNCHANGED <<gpioVars, uartVars, wdtVars, sysVars, timerVars>>

TimerProcess == /\ \/ Pin!TimerThread \/ Pin!BusRead \/ Pin!BusWrite
                   \/ Pin!Reset \/ Pin!IrqOutput
                /\ UNCHANGED <<gpioVars, uartVars, wdtVars, sysVars, mem>>

\* The server thread inside a b_transport() of the pin bridge.
BridgeStep == /\ Pin!Setup \/ Pin!Sample \/ Pin!Settle
              /\ UNCHANGED <<gpioVars, uartVars, wdtVars, sysVars, mem>>

OtherProcess == (Poll \/ Release \/ PackIrqs) /\ UNCHANGED plVars

\* Mutant: pack_irqs is not sensitive to gpio_irq_s.
WokenNotByGpio == Pin!Woken \cup Uart!Woken \cup Wdt!Woken \cup Sram!SramWoken

\* The signals wake processes of every device.
Woken == Gpio!Woken \cup Uart!Woken \cup Wdt!Woken \cup Pin!Woken \cup Sram!SramWoken

Scheduler == (Update(Woken) \/ Advance) /\ UNCHANGED <<accessVars, plVars>>

Silicon == Clock \/ GpioProcess \/ UartProcess \/ WdtProcess \/ SramProcess
           \/ TimerProcess \/ BridgeStep \/ OtherProcess \/ Scheduler

\* An access is answered: from the end of its delay, or from the bridge's.
Answer == \/ Respond /\ UNCHANGED plVars
          \/ /\ Pin!Respond
             /\ UNCHANGED <<gpioVars, uartVars, wdtVars, sysVars, mem>>

(***************************************************************************)
(* The accesses of the guest: what each device makes of one.               *)
(***************************************************************************)

GpioAccess(a) == /\ \/ a.kind = "load" /\ Gpio!Read
                    \/ a.kind = "store" /\ Gpio!Write(a.reg, a.word)
                 /\ UNCHANGED <<uartVars, wdtVars, sysVars, mem, timerVars>>

UartAccess(a) ==
  /\ \/ a.kind = "load" /\ a.reg = "DR" /\ Uart!ReadDR
     \/ a.kind = "load" /\ a.reg # "DR" /\ Uart!ReadStatus
     \/ a.kind = "store" /\ a.reg = "DR" /\ Uart!WriteDR(a.word)
     \/ a.kind = "store" /\ a.reg = "CR" /\ Uart!WriteCR(a.word)
     \/ a.kind = "store" /\ a.reg = "IMSC" /\ Uart!WriteIMSC(a.word)
     \/ a.kind = "store" /\ a.reg = "ICR" /\ Uart!WriteICR(a.word)
     \/ a.kind = "store" /\ a.reg \in {"IBRD", "FBRD", "LCRH"} /\ Uart!ReadStatus
  /\ UNCHANGED <<gpioVars, wdtVars, sysVars, mem, timerVars>>

WdtAccess(a) ==
  /\ \/ a.kind = "load" /\ Wdt!NoEffect /\ Call({})
     \/ a.kind = "store" /\ a.reg = "LOCK" /\ Wdt!Lock(a.word)
     \/ a.kind = "store" /\ a.reg = "LOAD" /\ Wdt!WriteLoad(a.word)
     \/ a.kind = "store" /\ a.reg = "CONTROL" /\ Wdt!WriteControl(a.word)
     \/ a.kind = "store" /\ a.reg = "INTCLR" /\ Wdt!IntClr
  /\ UNCHANGED <<gpioVars, uartVars, pclk_state, mem, timerVars>>

SysAccess(a) ==
  /\ \/ a.kind = "load" /\ Wdt!ReadSys
     \/ a.kind = "store" /\ a.reg = "SCRATCH" /\ Wdt!WriteScratch(a.word)
  /\ UNCHANGED <<gpioVars, uartVars, wdtVars, mem, timerVars>>

SramAccess(a) == /\ \/ a.kind = "load" /\ Sram!LoadCell
                    \/ a.kind = "store" /\ Sram!StoreCell(a.reg, a.word)
                 /\ UNCHANGED <<gpioVars, uartVars, wdtVars, sysVars, timerVars>>

TimerAccess(a) == /\ Pin!Begin(IF a.kind = "load" THEN "read" ELSE "write", a.reg, a.word)
                  /\ UNCHANGED <<gpioVars, uartVars, wdtVars, sysVars, mem>>

Perform(a) == \/ a.dev = "gpio" /\ GpioAccess(a)
              \/ a.dev = "uart" /\ UartAccess(a)
              \/ a.dev = "wdt" /\ WdtAccess(a)
              \/ a.dev = "sysctrl" /\ SysAccess(a)
              \/ a.dev = "sram" /\ SramAccess(a)
              \/ a.dev = "timer" /\ TimerAccess(a)

\* The word a load returns, except the timer's, which is in rdata when it is
\* answered.  The constant registers hold their value.
Loaded(a) == CASE a.dev = "gpio" -> IF a.reg = "ID" THEN "id" ELSE Gpio!Word(a.reg)
               [] a.dev = "uart" -> Uart!Word(a.reg)
               [] a.dev = "wdt" -> IF wdt_ris THEN {"RIS"} ELSE {}
               [] a.dev = "sysctrl" -> IF a.reg = "SCRATCH" THEN scratch ELSE a.reg
               [] a.dev = "sram" -> mem[a.reg]
               [] OTHER -> "none"

\* The lines as the registers of the devices have them.
DeviceLevels == Pin!Levels
                \cup (IF uart_ris \cap imsc # {} THEN {"uart_irq"} ELSE {})
                \cup (IF intstat \cap inten # {} THEN {"gpio_irq"} ELSE {})
                \cup (IF wdt_ris /\ "INTEN" \in ctrl THEN {"wdt_irq"} ELSE {})

=============================================================================
