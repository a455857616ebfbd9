---------------------------- MODULE CortexMProofs ----------------------------
(***************************************************************************)
(* Proofs about the whole PL of basic_cortexM with its firmware            *)
(* (CortexMPl, CortexMFirmware), for any access times, polling, depth of   *)
(* the FIFO, pins and width of the timer's registers, and any words that   *)
(* test 6 writes.                                                          *)
(*                                                                         *)
(* The invariants come in layers: each is inductive relative to the ones   *)
(* before it.                                                              *)
(*   PlInv      types of the PL, and what its reset holds back             *)
(*   Control    where main(), UART_Handler() and the server thread are     *)
(*   UartInv    characters, interrupts and the place main() has reached    *)
(*   TestedInv  the GPIO block and the watchdog at each place of main()    *)
(*   BridgeInv  the pins and the timer during an access of it              *)
(*   SeenInv    what the NVIC has seen at each place of main()             *)
(*   PassInv    what each device holds of what the tests stored in it      *)
(*   StopInv    the timer that test 6 has stopped                          *)
(***************************************************************************)
EXTENDS CortexMFirmware, TLAPS

Resets == {"gpio_reset", "uart_reset", "wdt_reset", "sys_reset", "sram_reset", "reset"}
Drivers == {"gpio_drive", "uart_drive", "wdt_drive", "irq_output"}
Methods == Resets \cup Drivers
           \cup {"pack_irqs", "pclk_div", "tick", "on_wdt", "timer_thread", "bus_read",
                 "bus_write"}

Signals == [reset : BOOLEAN, pclk : BOOLEAN, read_en : BOOLEAN, write_en : BOOLEAN,
            address : Pin!Regs, data_in : Pin!Word, data_out : Pin!Word,
            intr1 : BOOLEAN, intr2 : BOOLEAN, uart_irq : BOOLEAN, gpio_irq : BOOLEAN,
            wdt_irq : BOOLEAN, rst_req : BOOLEAN, irq_bits : SUBSET Lines]

PlTypeOK ==
  /\ runnable \subseteq Timed \cup Methods
  /\ resume \subseteq {"pclk_div", "timer_thread", "irq_output", "server"}
  /\ sig \in Signals /\ nxt \in Signals
  /\ DOMAIN alarm = Timed
  /\ pc \in {"idle", "access", "setup", "sample", "settle", "respond"}
  /\ regs \in [Pin!Regs -> Pin!Word] /\ rdata \in Pin!Word
  /\ access \in [kind : {"read", "write"}, reg : Pin!Regs, data : Pin!Word]

(***************************************************************************)
(* The way of every level from the registers of its device to the          *)
(* response.  A driver that is still to run is behind the registers,       *)
(* pack_irqs behind the lines; the server thread, when the delay of an     *)
(* access is over, finds neither left to run.                              *)
(***************************************************************************)

Running == "server" \in runnable
Waits == "server" \in resume

Thread == Waits => pc \in {"setup", "sample"} /\ ~Running

GpioDriven == "gpio_drive" \in runnable \/ (nxt.gpio_irq <=> intstat \cap inten # {})
UartDriven == "uart_drive" \in runnable \/ (nxt.uart_irq <=> uart_ris \cap imsc # {})
WdtDriven == "wdt_drive" \in runnable \/ (nxt.wdt_irq <=> wdt_ris /\ "INTEN" \in ctrl)
TimerDriven == "irq_output" \in runnable \/
                 /\ nxt.intr1 <=> Pin!HasMask(regs["INTR"], Pin!IntrCmp)
                 /\ nxt.intr2 <=> Pin!HasMask(regs["INTR"], Pin!IntrOv)
Driven == GpioDriven /\ UartDriven /\ WdtDriven /\ TimerDriven

PackedIrqs == "pack_irqs" \in runnable \/ nxt.irq_bits = Packed(sig)

SameLines == /\ nxt.irq_bits = sig.irq_bits
             /\ nxt.intr1 = sig.intr1 /\ nxt.intr2 = sig.intr2
             /\ nxt.uart_irq = sig.uart_irq /\ nxt.gpio_irq = sig.gpio_irq
             /\ nxt.wdt_irq = sig.wdt_irq

Fresh == pc \in {"access", "respond"} /\ Running => runnable \subseteq Timed /\ SameLines

\* The reset is released once and not asserted again.
ResetOnce == nxt.reset => sig.reset

PlInv == PlTypeOK /\ Thread /\ Driven /\ PackedIrqs /\ Fresh /\ ResetOnce

\* A method is left to run that resets its device.
InReset == sig.reset /\ runnable \cap Resets # {}

LEMMA PackedLines ==
  ASSUME NEW s \in Signals
  PROVE  Packed(s) = (IF s.intr1 THEN {"intr1"} ELSE {})
                     \cup (IF s.intr2 THEN {"intr2"} ELSE {})
                     \cup (IF s.uart_irq THEN {"uart_irq"} ELSE {})
                     \cup (IF s.gpio_irq THEN {"gpio_irq"} ELSE {})
                     \cup (IF s.wdt_irq THEN {"wdt_irq"} ELSE {})
<1>1. Lines \cap DOMAIN s = Lines
  BY DEF Signals, Lines
<1> QED
  BY <1>1 DEF Packed, Lines

LEMMA PackedType == Packed(sig) \subseteq Lines
  BY DEF Packed

\* A method runs: it leaves the server thread alone, and no access is then
\* being answered.
LEMMA MethodStep ==
  ASSUME PlInv, NEW p \in Methods, NEW N \in SUBSET Drivers,
         p \in runnable, runnable' = (runnable \ {p}) \cup N,
         UNCHANGED <<resume, alarm, sig, pc, access, rdata>>,
         nxt' \in Signals, nxt'.reset = nxt.reset,
         regs' \in [Pin!Regs -> Pin!Word],
         Driven', PackedIrqs'
  PROVE  PlInv' /\ (InReset' => InReset)
<1>1. p \notin Timed /\ "server" \notin N /\ N \subseteq Methods /\ N \cap Resets = {}
  BY DEF Methods, Resets, Drivers, Timed
<1>2. PlTypeOK'
  BY <1>1 DEF PlInv, PlTypeOK
<1>3. Thread' /\ Fresh' /\ ResetOnce'
  BY <1>1 DEF PlInv, Thread, Fresh, ResetOnce, Running, Waits
<1>4. InReset' => InReset
  BY <1>1 DEF InReset
<1> QED
  BY <1>2, <1>3, <1>4 DEF PlInv

\* A device is called.
LEMMA CallStep ==
  ASSUME PlInv, NEW time, NEW N \in SUBSET Drivers, CallFor(time, N),
         UNCHANGED <<regs, access, rdata>>, Driven'
  PROVE  PlInv' /\ (InReset' => InReset)
<1>1. /\ pc = "idle" /\ Running /\ runnable' = (runnable \ {"server"}) \cup N
      /\ DOMAIN alarm' = DOMAIN alarm /\ pc' = "access"
      /\ UNCHANGED <<resume, sig, nxt>>
  BY DEF CallFor, Runs, WaitTime, Running
<1>2. /\ "server" \notin N /\ N \subseteq Methods /\ N \cap Resets = {}
      /\ "pack_irqs" \notin N
  BY DEF Methods, Resets, Drivers
<1>3. PlTypeOK'
  BY <1>1, <1>2 DEF PlInv, PlTypeOK
<1>4. Thread' /\ Fresh' /\ ResetOnce' /\ PackedIrqs'
  BY <1>1, <1>2 DEF PlInv, Thread, Fresh, ResetOnce, PackedIrqs, Packed, Running, Waits
<1>5. InReset' => InReset
  BY <1>1, <1>2 DEF InReset
<1> QED
  BY <1>3, <1>4, <1>5 DEF PlInv

\* The two steps that only add an output to what it writes.
LEMMA OutputStep ==
  ASSUME PlInv, NEW p \in Methods, p \in runnable, runnable' = runnable \ {p},
         UNCHANGED <<resume, alarm, sig, pc, plVars>>,
         nxt' \in Signals, nxt'.reset = nxt.reset, nxt'.irq_bits = nxt.irq_bits,
         p # "pack_irqs",
         \/ nxt'.gpio_irq = nxt.gpio_irq /\ p # "gpio_drive"
         \/ nxt'.gpio_irq <=> intstat \cap inten # {},
         \/ nxt'.uart_irq = nxt.uart_irq /\ p # "uart_drive"
         \/ nxt'.uart_irq <=> uart_ris \cap imsc # {},
         \/ nxt'.wdt_irq = nxt.wdt_irq /\ p # "wdt_drive"
         \/ nxt'.wdt_irq <=> wdt_ris /\ "INTEN" \in ctrl,
         \/ nxt'.intr1 = nxt.intr1 /\ nxt'.intr2 = nxt.intr2 /\ p # "irq_output"
         \/ /\ nxt'.intr1 <=> Pin!HasMask(regs["INTR"], Pin!IntrCmp)
            /\ nxt'.intr2 <=> Pin!HasMask(regs["INTR"], Pin!IntrOv)
  PROVE  PlInv' /\ (InReset' => InReset)
<1>1. UNCHANGED <<intstat, inten, uart_ris, imsc, wdt_ris, ctrl, regs, access, rdata>>
  BY DEF plVars, gpioVars, uartVars, wdtVars, timerVars
<1>2. GpioDriven' /\ UartDriven' /\ WdtDriven' /\ TimerDriven'
  BY <1>1 DEF PlInv, Driven, GpioDriven, UartDriven, WdtDriven, TimerDriven
<1>3. PackedIrqs'
  BY DEF PlInv, PackedIrqs, Packed
<1>4. regs' \in [Pin!Regs -> Pin!Word]
  BY <1>1 DEF PlInv, PlTypeOK
<1>5. runnable' = (runnable \ {p}) \cup {} /\ {} \in SUBSET Drivers
  OBVIOUS
<1>6. Driven'
  BY <1>2 DEF Driven
<1> QED
  BY <1>1, <1>3, <1>4, <1>5, <1>6, MethodStep

\* A step of a device that changes registers has their driver run.
LEMMA RegisterStep ==
  ASSUME PlInv, NEW p \in Methods, NEW N \in SUBSET Drivers,
         p \in runnable, runnable' = (runnable \ {p}) \cup N, p \notin Drivers,
         UNCHANGED <<resume, alarm, sig, nxt, pc, access, rdata>>,
         p # "pack_irqs",
         UNCHANGED <<intstat, inten>> \/ "gpio_drive" \in N,
         UNCHANGED <<uart_ris, imsc>> \/ "uart_drive" \in N,
         UNCHANGED <<wdt_ris, ctrl>> \/ "wdt_drive" \in N,
         regs'["INTR"] = regs["INTR"] \/ "irq_output" \in N,
         regs' \in [Pin!Regs -> Pin!Word]
  PROVE  PlInv' /\ (InReset' => InReset)
<1>1. GpioDriven' /\ UartDriven' /\ WdtDriven' /\ TimerDriven'
  BY DEF PlInv, Driven, GpioDriven, UartDriven, WdtDriven, TimerDriven, Drivers
<1>2. PackedIrqs'
  BY DEF PlInv, PackedIrqs, Packed, Drivers
<1>3. nxt' \in Signals
  BY DEF PlInv, PlTypeOK
<1>4. Driven'
  BY <1>1 DEF Driven
<1> QED
  BY <1>2, <1>3, <1>4, MethodStep

LEMMA GpioStep == PlInv /\ GpioProcess => PlInv' /\ (InReset' => InReset)
<1> SUFFICES ASSUME PlInv, GpioProcess PROVE PlInv' /\ (InReset' => InReset)
  OBVIOUS
<1> USE DEF GpioProcess, Gpio!Runs, Gpio!WaitEvent, Gpio!accessVars
<1>1. UNCHANGED <<uart_ris, imsc, wdt_ris, ctrl, regs, access, rdata>>
  BY DEF uartVars, wdtVars, timerVars
<1>2. regs' \in [Pin!Regs -> Pin!Word] /\ nxt \in Signals
  BY <1>1 DEF PlInv, PlTypeOK
<1>3. CASE Gpio!OnReset
  <2>1. /\ "gpio_reset" \in Methods \ Drivers
        /\ \A N \in {{}, {"gpio_drive"}} : N \in SUBSET Drivers
    BY DEF Methods, Resets, Drivers
  <2>2. PICK N \in {{}, {"gpio_drive"}} :
          /\ "gpio_reset" \in runnable /\ runnable' = (runnable \ {"gpio_reset"}) \cup N
          /\ UNCHANGED <<intstat, inten>> \/ "gpio_drive" \in N
          /\ UNCHANGED <<resume, alarm, sig, nxt, pc>>
    BY <1>3 DEF Gpio!OnReset, Gpio!gpioVars
  <2> QED
    BY <1>1, <1>2, <2>1, <2>2, RegisterStep
<1>4. CASE Gpio!DriveIrq
  <2>1. /\ "gpio_drive" \in runnable /\ runnable' = runnable \ {"gpio_drive"}
        /\ UNCHANGED <<resume, alarm, sig, pc, plVars>>
        /\ nxt' = [nxt EXCEPT !.gpio_irq = intstat \cap inten # {}]
    BY <1>4 DEF Gpio!DriveIrq, Gpio!gpioVars, plVars, gpioVars
  <2>2. "gpio_drive" \in Methods
    BY DEF Methods, Drivers
  <2>3. nxt' \in Signals
    BY <1>2, <2>1 DEF Signals
  <2>4. /\ nxt'.reset = nxt.reset /\ nxt'.irq_bits = nxt.irq_bits
        /\ nxt'.gpio_irq = (intstat \cap inten # {}) /\ nxt'.uart_irq = nxt.uart_irq
        /\ nxt'.wdt_irq = nxt.wdt_irq /\ nxt'.intr1 = nxt.intr1 /\ nxt'.intr2 = nxt.intr2
    BY <1>2, <2>1 DEF Signals
  <2> QED
    BY <2>1, <2>2, <2>3, <2>4, OutputStep
<1> QED
  BY <1>3, <1>4

LEMMA UartStep == PlInv /\ UartProcess => PlInv' /\ (InReset' => InReset)
<1> SUFFICES ASSUME PlInv, UartProcess PROVE PlInv' /\ (InReset' => InReset)
  OBVIOUS
<1> USE DEF UartProcess, Uart!Runs, Uart!WaitEvent, Uart!accessVars
<1>1. UNCHANGED <<intstat, inten, wdt_ris, ctrl, regs, access, rdata>>
  BY DEF gpioVars, wdtVars, timerVars
<1>2. regs' \in [Pin!Regs -> Pin!Word] /\ nxt \in Signals
  BY <1>1 DEF PlInv, PlTypeOK
<1>3. CASE Uart!OnReset
  <2>1. /\ "uart_reset" \in Methods \ Drivers
        /\ \A N \in {{}, {"uart_drive"}} : N \in SUBSET Drivers
    BY DEF Methods, Resets, Drivers
  <2>2. PICK N \in {{}, {"uart_drive"}} :
          /\ "uart_reset" \in runnable /\ runnable' = (runnable \ {"uart_reset"}) \cup N
          /\ UNCHANGED <<uart_ris, imsc>> \/ "uart_drive" \in N
          /\ UNCHANGED <<resume, alarm, sig, nxt, pc>>
    BY <1>3 DEF Uart!OnReset, Uart!uartVars
  <2> QED
    BY <1>1, <1>2, <2>1, <2>2, RegisterStep
<1>4. CASE Uart!DriveIrq
  <2>1. /\ "uart_drive" \in runnable /\ runnable' = runnable \ {"uart_drive"}
        /\ UNCHANGED <<resume, alarm, sig, pc, plVars>>
        /\ nxt' = [nxt EXCEPT !.uart_irq = uart_ris \cap imsc # {}]
    BY <1>4 DEF Uart!DriveIrq, Uart!uartVars, plVars, uartVars
  <2>2. "uart_drive" \in Methods
    BY DEF Methods, Drivers
  <2>3. nxt' \in Signals
    BY <1>2, <2>1 DEF Signals
  <2>4. /\ nxt'.reset = nxt.reset /\ nxt'.irq_bits = nxt.irq_bits
        /\ nxt'.uart_irq = (uart_ris \cap imsc # {}) /\ nxt'.gpio_irq = nxt.gpio_irq
        /\ nxt'.wdt_irq = nxt.wdt_irq /\ nxt'.intr1 = nxt.intr1 /\ nxt'.intr2 = nxt.intr2
    BY <1>2, <2>1 DEF Signals
  <2> QED
    BY <2>1, <2>2, <2>3, <2>4, OutputStep
<1> QED
  BY <1>3, <1>4

LEMMA WdtStep == PlInv /\ WdtProcess => PlInv' /\ (InReset' => InReset)
<1> SUFFICES ASSUME PlInv, WdtProcess PROVE PlInv' /\ (InReset' => InReset)
  OBVIOUS
<1> USE DEF WdtProcess, Wdt!Runs, Wdt!WaitEvent, Wdt!accessVars
<1>1. UNCHANGED <<intstat, inten, uart_ris, imsc, regs, access, rdata>>
  BY DEF gpioVars, uartVars, timerVars
<1>2. regs' \in [Pin!Regs -> Pin!Word] /\ nxt \in Signals
  BY <1>1 DEF PlInv, PlTypeOK
<1>3. CASE Wdt!Tick \/ Wdt!WdtReset \/ Wdt!SysProcess
  <2>1. {"tick", "wdt_reset", "sys_reset", "on_wdt"} \subseteq Methods \ Drivers
    BY DEF Methods, Resets, Drivers
  <2>2. \A N \in {{}, {"wdt_drive"}} : N \in SUBSET Drivers
    BY DEF Drivers
  <2>3. PICK p \in {"tick", "wdt_reset", "sys_reset", "on_wdt"}, N \in {{}, {"wdt_drive"}} :
          /\ p \in runnable /\ runnable' = (runnable \ {p}) \cup N
          /\ UNCHANGED <<wdt_ris, ctrl>> \/ "wdt_drive" \in N
          /\ UNCHANGED <<resume, alarm, sig, nxt, pc>>
    <3>1. CASE Wdt!Tick
      BY <3>1 DEF Wdt!Tick, Wdt!ExpiryNotifies
    <3>2. CASE Wdt!WdtReset
      BY <3>2 DEF Wdt!WdtReset, Wdt!wdtVars
    <3>3. CASE Wdt!SysProcess
      BY <3>3 DEF Wdt!SysProcess, Wdt!SysReset, Wdt!OnWdt, Wdt!wdtVars
    <3> QED
      BY <1>3, <3>1, <3>2, <3>3
  <2> QED
    BY <1>1, <1>2, <2>1, <2>2, <2>3, RegisterStep
<1>4. CASE Wdt!PclkDiv
  <2>1. /\ "pclk_div" \in runnable /\ runnable' = (runnable \ {"pclk_div"}) \cup {}
        /\ UNCHANGED <<resume, alarm, sig, pc, wdt_ris, ctrl>>
        /\ nxt' = [nxt EXCEPT !.pclk = ~pclk_state]
    BY <1>4 DEF Wdt!PclkDiv, Wdt!wdtVars
  <2>2. "pclk_div" \in Methods /\ {} \in SUBSET Drivers
    BY DEF Methods
  <2>3. nxt' \in Signals
    BY <1>2, <2>1 DEF Signals
  <2>4. /\ nxt'.reset = nxt.reset /\ nxt'.irq_bits = nxt.irq_bits
        /\ nxt'.uart_irq = nxt.uart_irq /\ nxt'.gpio_irq = nxt.gpio_irq
        /\ nxt'.wdt_irq = nxt.wdt_irq /\ nxt'.intr1 = nxt.intr1 /\ nxt'.intr2 = nxt.intr2
    BY <1>2, <2>1 DEF Signals
  <2>5. Driven' /\ PackedIrqs'
    BY <1>1, <2>1, <2>4 DEF PlInv, Driven, GpioDriven, UartDriven, WdtDriven, TimerDriven,
                            PackedIrqs, Packed
  <2> QED
    BY <1>1, <1>2, <2>1, <2>2, <2>3, <2>4, <2>5, MethodStep
<1>5. CASE Wdt!Drive
  <2>1. /\ "wdt_drive" \in runnable /\ runnable' = runnable \ {"wdt_drive"}
        /\ UNCHANGED <<resume, alarm, sig, pc, plVars>>
        /\ nxt' = [nxt EXCEPT !.wdt_irq = wdt_ris /\ "INTEN" \in ctrl,
                              !.rst_req = wdt_ris /\ "RESEN" \in ctrl]
    BY <1>5 DEF Wdt!Drive, Wdt!deviceVars, Wdt!wdtVars, Wdt!sysVars, plVars, wdtVars, sysVars
  <2>2. "wdt_drive" \in Methods
    BY DEF Methods, Drivers
  <2>3. nxt' \in Signals
    <3>1. (wdt_ris /\ "INTEN" \in ctrl) \in BOOLEAN /\ (wdt_ris /\ "RESEN" \in ctrl) \in BOOLEAN
      OBVIOUS
    <3> QED
      BY <1>2, <2>1, <3>1 DEF Signals
  <2>4. /\ nxt'.reset = nxt.reset /\ nxt'.irq_bits = nxt.irq_bits
        /\ nxt'.wdt_irq <=> wdt_ris /\ "INTEN" \in ctrl
        /\ nxt'.gpio_irq = nxt.gpio_irq /\ nxt'.uart_irq = nxt.uart_irq
        /\ nxt'.intr1 = nxt.intr1 /\ nxt'.intr2 = nxt.intr2
    BY <1>2, <2>1 DEF Signals
  <2> QED
    BY <2>1, <2>2, <2>3, <2>4, OutputStep
<1> QED
  BY <1>3, <1>4, <1>5

LEMMA SramStep == PlInv /\ SramProcess => PlInv' /\ (InReset' => InReset)
<1> SUFFICES ASSUME PlInv, SramProcess PROVE PlInv' /\ (InReset' => InReset)
  OBVIOUS
<1>1. UNCHANGED <<intstat, inten, uart_ris, imsc, wdt_ris, ctrl, regs, access, rdata>>
  BY DEF SramProcess, gpioVars, uartVars, wdtVars, timerVars
<1>2. /\ "sram_reset" \in runnable /\ runnable' = (runnable \ {"sram_reset"}) \cup {}
      /\ UNCHANGED <<resume, alarm, sig, nxt, pc>>
  BY DEF SramProcess, Sram!SramReset, Sram!Runs, Sram!WaitEvent, Sram!accessVars
<1>3. "sram_reset" \in Methods \ Drivers /\ {} \in SUBSET Drivers
  BY DEF Methods, Resets, Drivers
<1>4. regs' \in [Pin!Regs -> Pin!Word]
  BY <1>1 DEF PlInv, PlTypeOK
<1> QED
  BY <1>1, <1>2, <1>3, <1>4, RegisterStep

LEMMA WordType == 0 \in Pin!Word /\ 7 \in Pin!Word /\ \A n \in Nat : n % Pin!Words \in Pin!Word
<1>1. Pin!Words \in Nat /\ Pin!Words > 0
  BY PlAssumption
<1>2. \A n \in Nat : n % Pin!Words \in 0 .. (Pin!Words - 1)
  BY <1>1
<1>3. 7 \in Pin!Word
  BY FirmwareAssumption
<1> QED
  BY <1>1, <1>2, <1>3 DEF Pin!Word

LEMMA OrMaskType ==
  ASSUME NEW w \in Pin!Word, NEW m \in {0, Pin!IntrCmp, Pin!IntrOv}
  PROVE  Pin!OrMask(w, m) \in Pin!Word
<1>1. Pin!Words \in Nat /\ Pin!Words % 8 = 0
  BY PlAssumption
<1>2. w \in Nat /\ w < Pin!Words
  BY <1>1 DEF Pin!Word
<1>3. CASE m = 0
  BY <1>3 DEF Pin!OrMask
<1>4. (w \div 2) % 2 # 1 => w + 2 < Pin!Words
  BY <1>1, <1>2
<1>5. (w \div 4) % 2 # 1 => w + 4 < Pin!Words
  BY <1>1, <1>2
<1>6. CASE m = 2
  BY <1>1, <1>2, <1>4, <1>6 DEF Pin!OrMask, Pin!HasMask, Pin!Word
<1>7. CASE m = 4
  BY <1>1, <1>2, <1>5, <1>7 DEF Pin!OrMask, Pin!HasMask, Pin!Word
<1> QED
  BY <1>3, <1>6, <1>7 DEF Pin!IntrCmp, Pin!IntrOv

\* What the counter and the interrupt bits become is a word, too.
LEMMA CountType ==
  ASSUME regs \in [Pin!Regs -> Pin!Word]
  PROVE  Pin!Counted \in Pin!Word /\ Pin!Posted \in Pin!Word
<1>1. regs["VALUE"] \in Pin!Word /\ regs["INTR"] \in Pin!Word
  BY DEF Pin!Regs
<1>2. regs["VALUE"] + 1 \in Nat
  BY <1>1, PlAssumption DEF Pin!Word
<1>3. Pin!Counted \in Pin!Word
  BY <1>2, WordType DEF Pin!Counted
<1>4. Pin!Posted \in Pin!Word
  BY <1>1, OrMaskType DEF Pin!Posted
<1> QED
  BY <1>3, <1>4

LEMMA TimerStep == PlInv /\ TimerProcess => PlInv' /\ (InReset' => InReset)
<1> SUFFICES ASSUME PlInv, TimerProcess PROVE PlInv' /\ (InReset' => InReset)
  OBVIOUS
<1> USE DEF TimerProcess, Pin!Runs, Pin!WaitEvent, Pin!busVars
<1>1. UNCHANGED <<intstat, inten, uart_ris, imsc, wdt_ris, ctrl>>
  BY DEF gpioVars, uartVars, wdtVars
<1>2. nxt \in Signals /\ sig \in Signals /\ regs \in [Pin!Regs -> Pin!Word]
  BY DEF PlInv, PlTypeOK
<1>3. CASE Pin!TimerThread \/ Pin!BusWrite \/ Pin!Reset
  <2>1. {"timer_thread", "bus_write", "reset"} \subseteq Methods \ Drivers
    BY DEF Methods, Resets, Drivers
  <2>2. \A N \in {{}, {"irq_output"}} : N \in SUBSET Drivers
    BY DEF Drivers
  <2>3. PICK p \in {"timer_thread", "bus_write", "reset"}, N \in {{}, {"irq_output"}} :
          /\ p \in runnable /\ runnable' = (runnable \ {p}) \cup N
          /\ regs'["INTR"] = regs["INTR"] \/ "irq_output" \in N
          /\ regs' \in [Pin!Regs -> Pin!Word]
          /\ UNCHANGED <<resume, alarm, sig, nxt, pc, access, rdata>>
    <3>1. CASE Pin!TimerThread
      <4>1. Pin!Counted \in Pin!Word /\ Pin!Posted \in Pin!Word /\ 0 \in Pin!Word
        BY <1>2, CountType, WordType
      <4> QED
        BY <1>2, <3>1, <4>1 DEF Pin!TimerThread, Pin!Registers, Pin!IrqChanged, Pin!Regs
    <3>2. CASE Pin!BusWrite
      <4>1. sig.address \in Pin!Regs /\ sig.data_in \in Pin!Word
        BY <1>2 DEF Signals
      <4> QED
        BY <1>2, <3>2, <4>1 DEF Pin!BusWrite, Pin!Stored, Pin!Registers, Pin!IrqChanged, Pin!Regs
    <3>3. CASE Pin!Reset
      BY <1>2, <3>3, WordType DEF Pin!Reset, Pin!Registers, Pin!IrqChanged, Pin!Regs
    <3> QED
      BY <1>3, <3>1, <3>2, <3>3
  <2> QED
    BY <1>1, <2>1, <2>2, <2>3, RegisterStep
<1>4. CASE Pin!BusRead
  <2>1. /\ "bus_read" \in runnable /\ runnable' = runnable \ {"bus_read"}
        /\ UNCHANGED <<resume, alarm, sig, pc, plVars>>
        /\ nxt' = [nxt EXCEPT !.data_out = IF sig.read_en THEN Pin!Value(regs, sig.address) ELSE @]
    BY <1>4 DEF Pin!BusRead, plVars, timerVars
  <2>2. "bus_read" \in Methods /\ "bus_read" \notin Drivers
    BY DEF Methods, Drivers
  <2>3. Pin!Value(regs, sig.address) \in Pin!Word
    BY <1>2 DEF Signals, Pin!Value
  <2>4. nxt' \in Signals
    BY <1>2, <2>1, <2>3 DEF Signals
  <2>5. /\ nxt'.reset = nxt.reset /\ nxt'.irq_bits = nxt.irq_bits
        /\ nxt'.uart_irq = nxt.uart_irq /\ nxt'.gpio_irq = nxt.gpio_irq
        /\ nxt'.wdt_irq = nxt.wdt_irq /\ nxt'.intr1 = nxt.intr1 /\ nxt'.intr2 = nxt.intr2
    BY <1>2, <2>1 DEF Signals
  <2> QED
    BY <2>1, <2>2, <2>4, <2>5, OutputStep DEF Drivers
<1>5. CASE Pin!IrqOutput
  <2>1. /\ "irq_output" \in runnable /\ runnable' = runnable \ {"irq_output"}
        /\ UNCHANGED <<resume, alarm, sig, pc, plVars>>
        /\ nxt' = [nxt EXCEPT !.intr1 = Pin!HasMask(regs["INTR"], Pin!IntrCmp),
                              !.intr2 = Pin!HasMask(regs["INTR"], Pin!IntrOv)]
    BY <1>5 DEF Pin!IrqOutput, plVars, timerVars
  <2>2. "irq_output" \in Methods
    BY DEF Methods, Drivers
  <2>3. nxt' \in Signals
    BY <1>2, <2>1 DEF Signals, Pin!HasMask
  <2>4. /\ nxt'.reset = nxt.reset /\ nxt'.irq_bits = nxt.irq_bits
        /\ nxt'.uart_irq = nxt.uart_irq /\ nxt'.gpio_irq = nxt.gpio_irq
        /\ nxt'.wdt_irq = nxt.wdt_irq
        /\ nxt'.intr1 <=> Pin!HasMask(regs["INTR"], Pin!IntrCmp)
        /\ nxt'.intr2 <=> Pin!HasMask(regs["INTR"], Pin!IntrOv)
    BY <1>2, <2>1 DEF Signals
  <2> QED
    BY <2>1, <2>2, <2>3, <2>4, OutputStep
<1> QED
  BY <1>3, <1>4, <1>5

\* A step of a timed process, or of the server thread, that writes no line.
LEMMA QuietStep ==
  ASSUME PlInv, NEW p \in Timed, p \in runnable,
         runnable' = runnable \ {p} \/ (runnable' = runnable /\ pc' = "idle"),
         UNCHANGED <<sig, intstat, inten, uart_ris, imsc, wdt_ris, ctrl, regs>>,
         resume' \subseteq {"pclk_div", "timer_thread", "irq_output", "server"},
         nxt' \in Signals, nxt'.irq_bits = nxt.irq_bits,
         nxt'.intr1 = nxt.intr1, nxt'.intr2 = nxt.intr2, nxt'.uart_irq = nxt.uart_irq,
         nxt'.gpio_irq = nxt.gpio_irq, nxt'.wdt_irq = nxt.wdt_irq,
         nxt'.reset => nxt.reset,
         DOMAIN alarm' = Timed, rdata' \in Pin!Word,
         access' \in [kind : {"read", "write"}, reg : Pin!Regs, data : Pin!Word],
         pc' \in {"idle", "access", "setup", "sample", "settle", "respond"},
         p # "server" => pc' = pc /\ Waits' = Waits,
         Thread'
  PROVE  PlInv' /\ (InReset' => InReset)
<1>1. PlTypeOK'
  BY DEF PlInv, PlTypeOK
<1>2. "pack_irqs" \notin Timed /\ Timed \cap Drivers = {} /\ Timed \cap Resets = {}
  BY DEF Timed, Drivers, Resets
<1>3. Driven' /\ PackedIrqs' /\ ResetOnce'
  BY <1>2 DEF PlInv, Driven, GpioDriven, UartDriven, WdtDriven, TimerDriven, PackedIrqs,
              Packed, ResetOnce, Drivers
<1>4. Fresh'
  BY DEF PlInv, Fresh, SameLines, Running
<1>5. InReset' => InReset
  BY <1>2 DEF InReset
<1> QED
  BY <1>1, <1>3, <1>4, <1>5 DEF PlInv

LEMMA ClockStep == PlInv /\ Clock => PlInv' /\ (InReset' => InReset)
<1> SUFFICES ASSUME PlInv, Clock PROVE PlInv' /\ (InReset' => InReset)
  OBVIOUS
<1>1. UNCHANGED <<intstat, inten, uart_ris, imsc, wdt_ris, ctrl, regs, access, rdata>>
  BY DEF Clock, plVars, gpioVars, uartVars, wdtVars, timerVars
<1>2. /\ "clk" \in runnable /\ runnable' = runnable \ {"clk"} /\ "clk" \in Timed
      /\ DOMAIN alarm' = Timed /\ UNCHANGED <<sig, nxt, pc>>
  BY DEF Clock, Runs, accessVars, PlInv, PlTypeOK, Timed
<1>3. /\ resume' \subseteq {"pclk_div", "timer_thread", "irq_output", "server"}
      /\ Waits' = Waits /\ Thread'
  BY <1>2 DEF Clock, PlInv, PlTypeOK, Thread, Waits, Running
<1> QED
  BY <1>1, <1>2, <1>3, QuietStep DEF PlInv, PlTypeOK

LEMMA BridgeType == PlInv /\ BridgeStep => PlInv' /\ (InReset' => InReset)
<1> SUFFICES ASSUME PlInv, BridgeStep PROVE PlInv' /\ (InReset' => InReset)
  OBVIOUS
<1> USE DEF Pin!Setup, Pin!Sample, Pin!Settle
<1>1. UNCHANGED <<sig, intstat, inten, uart_ris, imsc, wdt_ris, ctrl, regs, access>>
  BY DEF BridgeStep, gpioVars, uartVars, wdtVars
<1>2. /\ "server" \in runnable /\ runnable' = runnable \ {"server"} /\ "server" \in Timed
      /\ DOMAIN alarm' = Timed /\ pc' \in {"sample", "settle", "respond"}
      /\ resume' \subseteq {"pclk_div", "timer_thread", "irq_output", "server"}
  BY DEF BridgeStep, Pin!Runs, Pin!WaitDelta, Pin!WaitTime, PlInv, PlTypeOK, Timed
<1>3. nxt \in Signals /\ sig \in Signals /\ rdata \in Pin!Word
  BY DEF PlInv, PlTypeOK
<1>4. /\ nxt' \in Signals /\ rdata' \in Pin!Word
      /\ nxt'.irq_bits = nxt.irq_bits /\ nxt'.intr1 = nxt.intr1 /\ nxt'.intr2 = nxt.intr2
      /\ nxt'.uart_irq = nxt.uart_irq /\ nxt'.gpio_irq = nxt.gpio_irq
      /\ nxt'.wdt_irq = nxt.wdt_irq /\ nxt'.reset = nxt.reset
  BY <1>3 DEF BridgeStep, Signals
<1>5. Thread'
  BY <1>2 DEF BridgeStep, Pin!Runs, Pin!WaitDelta, Pin!WaitTime, PlInv, Thread, Waits, Running
<1>6. pc' \in {"idle", "access", "setup", "sample", "settle", "respond"}
  BY <1>2
<1> QED
  BY <1>1, <1>2, <1>4, <1>5, <1>6, QuietStep DEF PlInv, PlTypeOK

LEMMA OtherStep == PlInv /\ OtherProcess => PlInv' /\ (InReset' => InReset)
<1> SUFFICES ASSUME PlInv, OtherProcess PROVE PlInv' /\ (InReset' => InReset)
  OBVIOUS
<1> USE DEF Runs, WaitEvent, accessVars
<1>1. UNCHANGED <<plVars, intstat, inten, uart_ris, imsc, wdt_ris, ctrl, regs, access, rdata>>
  BY DEF OtherProcess, plVars, gpioVars, uartVars, wdtVars, timerVars
<1>2. nxt \in Signals /\ sig \in Signals
  BY DEF PlInv, PlTypeOK
<1>3. CASE Poll
  <2>1. /\ "server" \in runnable /\ runnable' = runnable \ {"server"} /\ "server" \in Timed
        /\ DOMAIN alarm' = Timed /\ UNCHANGED <<sig, nxt, pc, resume>>
    BY <1>3 DEF Poll, WaitTime, PlInv, PlTypeOK, Timed
  <2>2. Thread'
    BY <2>1 DEF PlInv, Thread, Waits, Running
  <2> QED
    BY <1>1, <2>1, <2>2, QuietStep DEF PlInv, PlTypeOK
<1>4. CASE Release
  <2>1. /\ "reset_seq" \in runnable /\ runnable' = runnable \ {"reset_seq"}
        /\ "reset_seq" \in Timed /\ UNCHANGED <<sig, pc, resume, alarm>>
        /\ nxt' = [nxt EXCEPT !.reset = FALSE]
    BY <1>4 DEF Release, Timed
  <2>2. Thread' /\ Waits' = Waits
    BY <2>1 DEF PlInv, Thread, Waits, Running
  <2>3. /\ nxt' \in Signals /\ ~nxt'.reset
        /\ nxt'.irq_bits = nxt.irq_bits /\ nxt'.intr1 = nxt.intr1 /\ nxt'.intr2 = nxt.intr2
        /\ nxt'.uart_irq = nxt.uart_irq /\ nxt'.gpio_irq = nxt.gpio_irq
        /\ nxt'.wdt_irq = nxt.wdt_irq
    BY <1>2, <2>1 DEF Signals
  <2> QED
    BY <1>1, <2>1, <2>2, <2>3, QuietStep DEF PlInv, PlTypeOK
<1>5. CASE PackIrqs
  <2>1. /\ "pack_irqs" \in runnable /\ runnable' = (runnable \ {"pack_irqs"}) \cup {}
        /\ UNCHANGED <<sig, pc, resume, alarm>>
        /\ nxt' = [nxt EXCEPT !.irq_bits = Packed(sig)]
    BY <1>5 DEF PackIrqs
  <2>2. /\ nxt' \in Signals /\ nxt'.reset = nxt.reset /\ nxt'.irq_bits = Packed(sig)
        /\ nxt'.intr1 = nxt.intr1 /\ nxt'.intr2 = nxt.intr2
        /\ nxt'.uart_irq = nxt.uart_irq /\ nxt'.gpio_irq = nxt.gpio_irq
        /\ nxt'.wdt_irq = nxt.wdt_irq
    BY <1>2, <2>1, PackedType DEF Signals
  <2>3. Driven' /\ PackedIrqs'
    BY <1>1, <2>1, <2>2 DEF PlInv, Driven, GpioDriven, UartDriven, WdtDriven, TimerDriven,
                            PackedIrqs, Packed
  <2>4. "pack_irqs" \in Methods /\ {} \in SUBSET Drivers
    BY DEF Methods
  <2>5. regs' \in [Pin!Regs -> Pin!Word]
    BY <1>1 DEF PlInv, PlTypeOK
  <2> QED
    BY <1>1, <2>1, <2>2, <2>3, <2>4, <2>5, MethodStep
<1> QED
  BY <1>3, <1>4, <1>5 DEF OtherProcess

LEMMA SchedulerStep == PlInv /\ Scheduler => PlInv' /\ (InReset' => InReset)
<1> SUFFICES ASSUME PlInv, Scheduler PROVE PlInv' /\ (InReset' => InReset)
  OBVIOUS
<1>1. UNCHANGED <<pc, intstat, inten, uart_ris, imsc, wdt_ris, ctrl, regs, access, rdata>>
  BY DEF Scheduler, accessVars, plVars, gpioVars, uartVars, wdtVars, timerVars
<1>2. nxt \in Signals /\ sig \in Signals
  BY DEF PlInv, PlTypeOK
<1>3. CASE Update(Woken)
  <2>1. /\ runnable = {} /\ sig' = nxt /\ runnable' = resume \cup Woken /\ resume' = {}
        /\ UNCHANGED <<nxt, alarm>>
    BY <1>3 DEF Update
  <2>2. Woken \subseteq Methods /\ "server" \notin Woken
    BY DEF Woken, Gpio!Woken, Uart!Woken, Wdt!Woken, Wdt!SysWoken, Pin!Woken,
           Pin!PackIrqsIfAny, Sram!SramWoken, Methods, Resets, Drivers
  <2>3. PlTypeOK'
    <3>1. {"pclk_div", "timer_thread", "irq_output", "server"} \subseteq Timed \cup Methods
      BY DEF Methods, Drivers, Timed
    <3>2. runnable' \subseteq Timed \cup Methods
      BY <2>1, <2>2, <3>1 DEF PlInv, PlTypeOK
    <3> QED
      BY <1>1, <2>1, <3>2 DEF PlInv, PlTypeOK
  <2>4. Thread' /\ ResetOnce' /\ Driven'
    BY <1>1, <2>1 DEF PlInv, Thread, ResetOnce, Waits, Driven, GpioDriven, UartDriven,
                      WdtDriven, TimerDriven
  <2>5. Fresh'
    BY <1>1, <2>1, <2>2 DEF PlInv, Thread, Fresh, Waits, Running
  <2>6. PackedIrqs'
    <3>1. CASE "pack_irqs" \in Woken
      BY <2>1, <3>1 DEF PackedIrqs
    <3>2. CASE "pack_irqs" \notin Woken
      <4>1. /\ nxt.intr1 = sig.intr1 /\ nxt.intr2 = sig.intr2 /\ nxt.uart_irq = sig.uart_irq
            /\ nxt.gpio_irq = sig.gpio_irq /\ nxt.wdt_irq = sig.wdt_irq
        BY <3>2 DEF Woken, Gpio!Woken, Uart!Woken, Wdt!Woken, Pin!Woken, Pin!PackIrqsIfAny,
                    Pin!Board, Pin!Platforms
      <4>2. Packed(nxt) = Packed(sig)
        BY <1>2, <4>1, PackedLines
      <4>3. nxt.irq_bits = Packed(sig)
        BY <2>1 DEF PlInv, PackedIrqs
      <4> QED
        BY <2>1, <4>2, <4>3 DEF PackedIrqs, Packed
    <3> QED
      BY <3>1, <3>2
  <2>7. ~InReset'
    <3>1. resume \cap Resets = {}
      BY DEF PlInv, PlTypeOK, Resets
    <3>2. nxt.reset = sig.reset => Woken \cap Resets = {}
      BY DEF Woken, Gpio!Woken, Uart!Woken, Wdt!Woken, Wdt!SysWoken, Pin!Woken,
             Pin!PackIrqsIfAny, Sram!SramWoken, Resets
    <3>3. nxt.reset # sig.reset => ~nxt.reset
      BY <1>2 DEF PlInv, ResetOnce, Signals
    <3>4. CASE nxt.reset = sig.reset
      BY <2>1, <3>1, <3>2, <3>4 DEF InReset
    <3>5. CASE nxt.reset # sig.reset
      BY <2>1, <3>3, <3>5 DEF InReset
    <3> QED
      BY <3>4, <3>5
  <2> QED
    BY <2>3, <2>4, <2>5, <2>6, <2>7 DEF PlInv
<1>4. CASE Advance
  <2>1. /\ runnable = {} /\ resume = {} /\ nxt = sig /\ runnable' \subseteq Timed
        /\ DOMAIN alarm' = Timed /\ UNCHANGED <<resume, sig, nxt>>
    BY <1>4 DEF Advance, Settled, PlInv, PlTypeOK
  <2>2. Driven' /\ PackedIrqs'
    BY <1>1, <2>1 DEF PlInv, Driven, GpioDriven, UartDriven, WdtDriven, TimerDriven,
                      PackedIrqs, Packed
  <2>3. PlTypeOK' /\ Thread' /\ Fresh' /\ ResetOnce'
    BY <1>1, <2>1 DEF PlInv, PlTypeOK, Thread, Waits, Fresh, SameLines, ResetOnce
  <2>4. ~InReset'
    BY <2>1 DEF InReset, Resets, Timed
  <2> QED
    BY <2>2, <2>3, <2>4 DEF PlInv
<1> QED
  BY <1>3, <1>4 DEF Scheduler

LEMMA SiliconStep == PlInv /\ Silicon => PlInv' /\ (InReset' => InReset)
  BY ClockStep, GpioStep, UartStep, WdtStep, SramStep, TimerStep, BridgeType, OtherStep,
     SchedulerStep DEF Silicon

(***************************************************************************)
(* The accesses of the guest and their answers.                            *)
(***************************************************************************)

\* An access of the timer names one of its registers.
Performable(a) == a.dev = "timer" => a.reg \in Pin!Regs /\ a.word \in Pin!Word

LEMMA PerformStep ==
  ASSUME PlInv, NEW a, Performable(a), Perform(a)
  PROVE  PlInv' /\ (InReset' => InReset)
<1> USE DEF CallFor, Runs, WaitTime
<1>1. CASE a.dev = "gpio" /\ GpioAccess(a)
  <2>1. UNCHANGED <<uart_ris, imsc, wdt_ris, ctrl, regs, access, rdata>>
    BY <1>1 DEF GpioAccess, uartVars, wdtVars, timerVars
  <2>2. PICK N \in {{}, {"gpio_drive"}} :
          /\ CallFor(AccessTime, N)
          /\ UNCHANGED <<intstat, inten>> \/ "gpio_drive" \in N
    BY <1>1 DEF GpioAccess, Gpio!Read, Gpio!Write, Gpio!Call, Gpio!CallFor, Gpio!Runs,
                Gpio!WaitTime, Gpio!gpioVars
  <2>3. Driven'
    BY <2>1, <2>2 DEF PlInv, Driven, GpioDriven, UartDriven, WdtDriven, TimerDriven
  <2>4. N \in SUBSET Drivers
    BY DEF Drivers
  <2> QED
    BY <2>1, <2>2, <2>3, <2>4, CallStep
<1>2. CASE a.dev = "uart" /\ UartAccess(a)
  <2>1. UNCHANGED <<intstat, inten, wdt_ris, ctrl, regs, access, rdata>>
    BY <1>2 DEF UartAccess, gpioVars, wdtVars, timerVars
  <2>2. PICK N \in {{}, {"uart_drive"}} :
          /\ CallFor(AccessTime, N)
          /\ UNCHANGED <<uart_ris, imsc>> \/ "uart_drive" \in N
    BY <1>2 DEF UartAccess, Uart!ReadDR, Uart!ReadStatus, Uart!WriteDR, Uart!WriteCR,
                Uart!WriteIMSC, Uart!WriteICR, Uart!Call, Uart!CallFor, Uart!Runs,
                Uart!WaitTime, Uart!uartVars
  <2>3. Driven'
    BY <2>1, <2>2 DEF PlInv, Driven, GpioDriven, UartDriven, WdtDriven, TimerDriven
  <2>4. N \in SUBSET Drivers
    BY DEF Drivers
  <2> QED
    BY <2>1, <2>2, <2>3, <2>4, CallStep
<1>3. CASE a.dev = "wdt" /\ WdtAccess(a)
  <2>1. UNCHANGED <<intstat, inten, uart_ris, imsc, regs, access, rdata>>
    BY <1>3 DEF WdtAccess, gpioVars, uartVars, timerVars
  <2>2. PICK N \in {{}, {"wdt_drive"}} :
          /\ CallFor(AccessTime, N)
          /\ UNCHANGED <<wdt_ris, ctrl>> \/ "wdt_drive" \in N
    BY <1>3 DEF WdtAccess, Wdt!NoEffect, Wdt!Lock, Wdt!WriteLoad, Wdt!WriteControl,
                Wdt!IntClr, Wdt!Call, Wdt!CallFor, Wdt!Runs, Wdt!WaitTime, Call, Wdt!wdtVars
  <2>3. Driven'
    BY <2>1, <2>2 DEF PlInv, Driven, GpioDriven, UartDriven, WdtDriven, TimerDriven
  <2>4. N \in SUBSET Drivers
    BY DEF Drivers
  <2> QED
    BY <2>1, <2>2, <2>3, <2>4, CallStep
<1>4. CASE (a.dev = "sysctrl" /\ SysAccess(a)) \/ (a.dev = "sram" /\ SramAccess(a))
  <2>1. UNCHANGED <<intstat, inten, uart_ris, imsc, wdt_ris, ctrl, regs, access, rdata>>
    BY <1>4 DEF SysAccess, SramAccess, gpioVars, uartVars, wdtVars, timerVars
  <2>2. PICK time \in {SysTime, SramTime} : CallFor(time, {})
    BY <1>4 DEF SysAccess, SramAccess, Wdt!ReadSys, Wdt!WriteScratch, Wdt!CallFor, Wdt!Runs,
                Wdt!WaitTime, Sram!LoadCell, Sram!StoreCell, Sram!CallFor, Sram!Runs,
                Sram!WaitTime
  <2>3. Driven'
    BY <2>1, <2>2 DEF PlInv, Driven, GpioDriven, UartDriven, WdtDriven, TimerDriven
  <2>4. {} \in SUBSET Drivers
    OBVIOUS
  <2> QED
    BY <2>1, <2>2, <2>3, <2>4, CallStep
<1>5. CASE a.dev = "timer" /\ TimerAccess(a)
  <2>1. a.reg \in Pin!Regs /\ a.word \in Pin!Word
    BY <1>5 DEF Performable
  <2>2. PICK kind \in {"read", "write"} : Pin!Begin(kind, a.reg, a.word)
    BY <1>5 DEF TimerAccess
  <2>3. UNCHANGED <<sig, intstat, inten, uart_ris, imsc, wdt_ris, ctrl, regs, rdata>>
    BY <1>5, <2>2 DEF TimerAccess, Pin!Begin, gpioVars, uartVars, wdtVars
  <2>4. /\ "server" \in runnable /\ runnable' = runnable \ {"server"} /\ "server" \in Timed
        /\ DOMAIN alarm' = Timed /\ pc' = "setup"
        /\ resume' \subseteq {"pclk_div", "timer_thread", "irq_output", "server"}
        /\ access' \in [kind : {"read", "write"}, reg : Pin!Regs, data : Pin!Word]
    BY <2>1, <2>2 DEF Pin!Begin, Pin!Runs, Pin!WaitDelta, PlInv, PlTypeOK, Timed
  <2>5. nxt \in Signals
    BY DEF PlInv, PlTypeOK
  <2>6. /\ nxt' \in Signals
        /\ nxt'.irq_bits = nxt.irq_bits /\ nxt'.intr1 = nxt.intr1 /\ nxt'.intr2 = nxt.intr2
        /\ nxt'.uart_irq = nxt.uart_irq /\ nxt'.gpio_irq = nxt.gpio_irq
        /\ nxt'.wdt_irq = nxt.wdt_irq /\ nxt'.reset = nxt.reset
    BY <2>1, <2>2, <2>5 DEF Pin!Begin, Signals
  <2>7. Thread'
    BY <2>2 DEF Pin!Begin, Pin!Runs, Pin!WaitDelta, Thread, Waits, Running
  <2> QED
    BY <2>3, <2>4, <2>6, <2>7, QuietStep DEF PlInv, PlTypeOK
<1> QED
  BY <1>1, <1>2, <1>3, <1>4, <1>5 DEF Perform

LEMMA AnswerStep ==
  ASSUME PlInv, Answer
  PROVE  /\ PlInv' /\ (InReset' => InReset) /\ ~InReset /\ UNCHANGED plVars
         /\ pc \in {"access", "respond"} /\ pc' = "idle" /\ irqs' = sig.irq_bits
<1>1. /\ pc \in {"access", "respond"} /\ pc' = "idle" /\ "server" \in runnable
      /\ irqs' = sig.irq_bits
      /\ runnable' = runnable /\ UNCHANGED <<resume, alarm, sig, nxt, plVars>>
  BY DEF Answer, Respond, Runs, WaitEvent, Pin!Respond, Pin!Runs, Pin!WaitEvent, plVars,
         timerVars
<1>2. UNCHANGED <<intstat, inten, uart_ris, imsc, wdt_ris, ctrl, regs, access, rdata>>
  BY <1>1 DEF plVars, gpioVars, uartVars, wdtVars, timerVars
<1>3. Thread'
  BY <1>1 DEF PlInv, Thread, Waits, Running
<1>4. "server" \in Timed
  BY DEF Timed
<1>5. PlInv' /\ (InReset' => InReset)
  BY <1>1, <1>2, <1>3, <1>4, QuietStep DEF PlInv, PlTypeOK
<1>6. ~InReset
  BY <1>1 DEF PlInv, Fresh, Running, InReset, Resets, Timed
<1> QED
  BY <1>1, <1>5, <1>6

\* What an answer carries.
LEMMA AnswerShows ==
  ASSUME PlInv, Answer
  PROVE  irqs' = DeviceLevels /\ DeviceLevels' = DeviceLevels
<1>1. /\ pc \in {"access", "respond"} /\ Running /\ irqs' = sig.irq_bits
      /\ UNCHANGED <<intstat, inten, uart_ris, imsc, wdt_ris, ctrl, regs>>
  BY DEF Answer, Respond, Runs, Pin!Respond, Pin!Runs, Running, plVars, gpioVars, uartVars,
         wdtVars, timerVars
<1>2. runnable \subseteq Timed /\ SameLines
  BY <1>1 DEF PlInv, Fresh
<1>3. {"gpio_drive", "uart_drive", "wdt_drive", "irq_output", "pack_irqs"} \cap runnable = {}
  BY <1>2 DEF Timed
<1>4. /\ sig.gpio_irq <=> intstat \cap inten # {}
      /\ sig.uart_irq <=> uart_ris \cap imsc # {}
      /\ sig.wdt_irq <=> wdt_ris /\ "INTEN" \in ctrl
      /\ sig.intr1 <=> Pin!HasMask(regs["INTR"], Pin!IntrCmp)
      /\ sig.intr2 <=> Pin!HasMask(regs["INTR"], Pin!IntrOv)
  BY <1>2, <1>3 DEF PlInv, Driven, GpioDriven, UartDriven, WdtDriven, TimerDriven, SameLines
<1>5. sig.irq_bits = Packed(sig) /\ sig \in Signals
  BY <1>2, <1>3 DEF PlInv, PlTypeOK, PackedIrqs, SameLines
<1>6. Packed(sig) = DeviceLevels
  BY <1>4, <1>5, PackedLines DEF DeviceLevels, Pin!Levels
<1>7. DeviceLevels' = DeviceLevels
  BY <1>1 DEF DeviceLevels, Pin!Levels
<1> QED
  BY <1>1, <1>5, <1>6, <1>7

(***************************************************************************)
(* The program: 56 accesses, of each test to a device of its own.          *)
(***************************************************************************)

LEMMA Lengths ==
  /\ Len(Test0) = 5 /\ Len(Test1) = 6 /\ Len(Test2) = 9 /\ Len(Test3) = 9
  /\ Len(Test4) = 5 /\ Len(Test5) = 8 /\ Len(Test6) = 14
  BY DEF Test0, Test1, Test2, Test3, Test4, Test5, Test6

Accesses == {Test0[i] : i \in 1 .. 5} \cup {Test1[i] : i \in 1 .. 6}
            \cup {Test2[i] : i \in 1 .. 9} \cup {Test3[i] : i \in 1 .. 9}
            \cup {Test4[i] : i \in 1 .. 5} \cup {Test5[i] : i \in 1 .. 8}
            \cup {Test6[i] : i \in 1 .. 14}

LEMMA TestTypes ==
  /\ Test0 \in Seq(Accesses) /\ Test1 \in Seq(Accesses) /\ Test2 \in Seq(Accesses)
  /\ Test3 \in Seq(Accesses) /\ Test4 \in Seq(Accesses) /\ Test5 \in Seq(Accesses)
  /\ Test6 \in Seq(Accesses)
<1>1. Test0 \in Seq(Accesses)
  <2>1. \A i \in 1 .. 5 : Test0[i] \in Accesses
    BY DEF Accesses
  <2> QED
    BY <2>1 DEF Test0
<1>2. Test1 \in Seq(Accesses)
  <2>1. \A i \in 1 .. 6 : Test1[i] \in Accesses
    BY DEF Accesses
  <2> QED
    BY <2>1 DEF Test1
<1>3. Test2 \in Seq(Accesses)
  <2>1. \A i \in 1 .. 9 : Test2[i] \in Accesses
    BY DEF Accesses
  <2> QED
    BY <2>1 DEF Test2
<1>4. Test3 \in Seq(Accesses)
  <2>1. \A i \in 1 .. 9 : Test3[i] \in Accesses
    BY DEF Accesses
  <2> QED
    BY <2>1 DEF Test3
<1>5. Test4 \in Seq(Accesses)
  <2>1. \A i \in 1 .. 5 : Test4[i] \in Accesses
    BY DEF Accesses
  <2> QED
    BY <2>1 DEF Test4
<1>6. Test5 \in Seq(Accesses)
  <2>1. \A i \in 1 .. 8 : Test5[i] \in Accesses
    BY DEF Accesses
  <2> QED
    BY <2>1 DEF Test5, Store, Load, Until
<1>7. Test6 \in Seq(Accesses)
  <2>1. \A i \in 1 .. 14 : Test6[i] \in Accesses
    BY DEF Accesses
  <2> QED
    BY <2>1 DEF Test6
<1> QED
  BY <1>1, <1>2, <1>3, <1>4, <1>5, <1>6, <1>7

LEMMA Joined ==
  ASSUME NEW S, NEW s \in Seq(S), NEW t \in Seq(S)
  PROVE  /\ s \o t \in Seq(S) /\ Len(s \o t) = Len(s) + Len(t)
         /\ \A k \in 1 .. Len(s) : (s \o t)[k] = s[k]
         /\ \A k \in Len(s) + 1 .. Len(s) + Len(t) : (s \o t)[k] = t[k - Len(s)]
  OBVIOUS

\* The program up to the end of each test.
Upto1 == Test0 \o Test1
Upto2 == Upto1 \o Test2
Upto3 == Upto2 \o Test3
Upto4 == Upto3 \o Test4
Upto5 == Upto4 \o Test5
Upto6 == Upto5 \o Test6

LEMMA Prefixes ==
  /\ Upto1 \in Seq(Accesses) /\ Len(Upto1) = 11
  /\ \A k \in 1 .. 5 : Upto1[k] = Test0[k]
  /\ \A k \in 6 .. 11 : Upto1[k] = Test1[k - 5]
  /\ Upto2 \in Seq(Accesses) /\ Len(Upto2) = 20
  /\ \A k \in 1 .. 11 : Upto2[k] = Upto1[k]
  /\ \A k \in 12 .. 20 : Upto2[k] = Test2[k - 11]
  /\ Upto3 \in Seq(Accesses) /\ Len(Upto3) = 29
  /\ \A k \in 1 .. 20 : Upto3[k] = Upto2[k]
  /\ \A k \in 21 .. 29 : Upto3[k] = Test3[k - 20]
  /\ Upto4 \in Seq(Accesses) /\ Len(Upto4) = 34
  /\ \A k \in 1 .. 29 : Upto4[k] = Upto3[k]
  /\ \A k \in 30 .. 34 : Upto4[k] = Test4[k - 29]
  /\ Upto5 \in Seq(Accesses) /\ Len(Upto5) = 42
  /\ \A k \in 1 .. 34 : Upto5[k] = Upto4[k]
  /\ \A k \in 35 .. 42 : Upto5[k] = Test5[k - 34]
  /\ Upto6 \in Seq(Accesses) /\ Len(Upto6) = 56
  /\ \A k \in 1 .. 42 : Upto6[k] = Upto5[k]
  /\ \A k \in 43 .. 56 : Upto6[k] = Test6[k - 42]
<1>1. /\ Upto1 \in Seq(Accesses) /\ Len(Upto1) = 11
      /\ \A k \in 1 .. 5 : Upto1[k] = Test0[k]
      /\ \A k \in 6 .. 11 : Upto1[k] = Test1[k - 5]
  <2>1. Test0 \in Seq(Accesses) /\ Test1 \in Seq(Accesses)
    BY TestTypes
  <2>2. /\ Upto1 \in Seq(Accesses) /\ Len(Upto1) = Len(Test0) + Len(Test1)
        /\ \A k \in 1 .. Len(Test0) : Upto1[k] = Test0[k]
        /\ \A k \in Len(Test0) + 1 .. Len(Test0) + Len(Test1) :
             Upto1[k] = Test1[k - Len(Test0)]
    BY <2>1, Joined, Zenon DEF Upto1
  <2>3. Len(Test0) = 5 /\ Len(Test1) = 6
    BY Lengths
  <2> QED
    BY <2>2, <2>3
<1>2. /\ Upto2 \in Seq(Accesses) /\ Len(Upto2) = 20
      /\ \A k \in 1 .. 11 : Upto2[k] = Upto1[k]
      /\ \A k \in 12 .. 20 : Upto2[k] = Test2[k - 11]
  <2>1. Upto1 \in Seq(Accesses) /\ Test2 \in Seq(Accesses)
    BY <1>1, TestTypes
  <2>2. /\ Upto2 \in Seq(Accesses) /\ Len(Upto2) = Len(Upto1) + Len(Test2)
        /\ \A k \in 1 .. Len(Upto1) : Upto2[k] = Upto1[k]
        /\ \A k \in Len(Upto1) + 1 .. Len(Upto1) + Len(Test2) :
             Upto2[k] = Test2[k - Len(Upto1)]
    BY <2>1, Joined, Zenon DEF Upto2
  <2>3. Len(Upto1) = 11 /\ Len(Test2) = 9
    BY <1>1, Lengths
  <2> QED
    BY <2>2, <2>3
<1>3. /\ Upto3 \in Seq(Accesses) /\ Len(Upto3) = 29
      /\ \A k \in 1 .. 20 : Upto3[k] = Upto2[k]
      /\ \A k \in 21 .. 29 : Upto3[k] = Test3[k - 20]
  <2>1. Upto2 \in Seq(Accesses) /\ Test3 \in Seq(Accesses)
    BY <1>2, TestTypes
  <2>2. /\ Upto3 \in Seq(Accesses) /\ Len(Upto3) = Len(Upto2) + Len(Test3)
        /\ \A k \in 1 .. Len(Upto2) : Upto3[k] = Upto2[k]
        /\ \A k \in Len(Upto2) + 1 .. Len(Upto2) + Len(Test3) :
             Upto3[k] = Test3[k - Len(Upto2)]
    BY <2>1, Joined, Zenon DEF Upto3
  <2>3. Len(Upto2) = 20 /\ Len(Test3) = 9
    BY <1>2, Lengths
  <2> QED
    BY <2>2, <2>3
<1>4. /\ Upto4 \in Seq(Accesses) /\ Len(Upto4) = 34
      /\ \A k \in 1 .. 29 : Upto4[k] = Upto3[k]
      /\ \A k \in 30 .. 34 : Upto4[k] = Test4[k - 29]
  <2>1. Upto3 \in Seq(Accesses) /\ Test4 \in Seq(Accesses)
    BY <1>3, TestTypes
  <2>2. /\ Upto4 \in Seq(Accesses) /\ Len(Upto4) = Len(Upto3) + Len(Test4)
        /\ \A k \in 1 .. Len(Upto3) : Upto4[k] = Upto3[k]
        /\ \A k \in Len(Upto3) + 1 .. Len(Upto3) + Len(Test4) :
             Upto4[k] = Test4[k - Len(Upto3)]
    BY <2>1, Joined, Zenon DEF Upto4
  <2>3. Len(Upto3) = 29 /\ Len(Test4) = 5
    BY <1>3, Lengths
  <2> QED
    BY <2>2, <2>3
<1>5. /\ Upto5 \in Seq(Accesses) /\ Len(Upto5) = 42
      /\ \A k \in 1 .. 34 : Upto5[k] = Upto4[k]
      /\ \A k \in 35 .. 42 : Upto5[k] = Test5[k - 34]
  <2>1. Upto4 \in Seq(Accesses) /\ Test5 \in Seq(Accesses)
    BY <1>4, TestTypes
  <2>2. /\ Upto5 \in Seq(Accesses) /\ Len(Upto5) = Len(Upto4) + Len(Test5)
        /\ \A k \in 1 .. Len(Upto4) : Upto5[k] = Upto4[k]
        /\ \A k \in Len(Upto4) + 1 .. Len(Upto4) + Len(Test5) :
             Upto5[k] = Test5[k - Len(Upto4)]
    BY <2>1, Joined, Zenon DEF Upto5
  <2>3. Len(Upto4) = 34 /\ Len(Test5) = 8
    BY <1>4, Lengths
  <2> QED
    BY <2>2, <2>3
<1>6. /\ Upto6 \in Seq(Accesses) /\ Len(Upto6) = 56
      /\ \A k \in 1 .. 42 : Upto6[k] = Upto5[k]
      /\ \A k \in 43 .. 56 : Upto6[k] = Test6[k - 42]
  <2>1. Upto5 \in Seq(Accesses) /\ Test6 \in Seq(Accesses)
    BY <1>5, TestTypes
  <2>2. /\ Upto6 \in Seq(Accesses) /\ Len(Upto6) = Len(Upto5) + Len(Test6)
        /\ \A k \in 1 .. Len(Upto5) : Upto6[k] = Upto5[k]
        /\ \A k \in Len(Upto5) + 1 .. Len(Upto5) + Len(Test6) :
             Upto6[k] = Test6[k - Len(Upto5)]
    BY <2>1, Joined, Zenon DEF Upto6
  <2>3. Len(Upto5) = 42 /\ Len(Test6) = 14
    BY <1>5, Lengths
  <2> QED
    BY <2>2, <2>3
<1> QED
  BY <1>1, <1>2, <1>3, <1>4, <1>5, <1>6

LEMMA ProgramAt ==
  /\ Len(Program) = 56
  /\ \A k \in 1 .. 5 : Program[k] = Test0[k]
  /\ \A k \in 6 .. 11 : Program[k] = Test1[k - 5]
  /\ \A k \in 12 .. 20 : Program[k] = Test2[k - 11]
  /\ \A k \in 21 .. 29 : Program[k] = Test3[k - 20]
  /\ \A k \in 30 .. 34 : Program[k] = Test4[k - 29]
  /\ \A k \in 35 .. 42 : Program[k] = Test5[k - 34]
  /\ \A k \in 43 .. 56 : Program[k] = Test6[k - 42]
<1>1. Program = Upto6
  BY Zenon DEF Program, Upto1, Upto2, Upto3, Upto4, Upto5, Upto6
<1>2. Len(Upto6) = 56 /\ \A k \in 43 .. 56 : Upto6[k] = Test6[k - 42]
  BY Prefixes
<1>3. \A k \in 1 .. 42 : Upto6[k] = Upto5[k]
  BY Prefixes
<1>4. \A k \in 35 .. 42 : Upto6[k] = Test5[k - 34]
  <2>1. \A k \in 35 .. 42 : Upto5[k] = Test5[k - 34]
    BY Prefixes
  <2> QED
    BY <1>3, <2>1
<1>5. \A k \in 1 .. 34 : Upto6[k] = Upto4[k]
  <2>1. \A k \in 1 .. 34 : Upto5[k] = Upto4[k]
    BY Prefixes
  <2> QED
    BY <1>3, <2>1
<1>6. \A k \in 30 .. 34 : Upto6[k] = Test4[k - 29]
  <2>1. \A k \in 30 .. 34 : Upto4[k] = Test4[k - 29]
    BY Prefixes
  <2> QED
    BY <1>5, <2>1
<1>7. \A k \in 1 .. 29 : Upto6[k] = Upto3[k]
  <2>1. \A k \in 1 .. 29 : Upto4[k] = Upto3[k]
    BY Prefixes
  <2> QED
    BY <1>5, <2>1
<1>8. \A k \in 21 .. 29 : Upto6[k] = Test3[k - 20]
  <2>1. \A k \in 21 .. 29 : Upto3[k] = Test3[k - 20]
    BY Prefixes
  <2> QED
    BY <1>7, <2>1
<1>9. \A k \in 1 .. 20 : Upto6[k] = Upto2[k]
  <2>1. \A k \in 1 .. 20 : Upto3[k] = Upto2[k]
    BY Prefixes
  <2> QED
    BY <1>7, <2>1
<1>10. \A k \in 12 .. 20 : Upto6[k] = Test2[k - 11]
  <2>1. \A k \in 12 .. 20 : Upto2[k] = Test2[k - 11]
    BY Prefixes
  <2> QED
    BY <1>9, <2>1
<1>11. \A k \in 1 .. 11 : Upto6[k] = Upto1[k]
  <2>1. \A k \in 1 .. 11 : Upto2[k] = Upto1[k]
    BY Prefixes
  <2> QED
    BY <1>9, <2>1
<1>12. \A k \in 6 .. 11 : Upto6[k] = Test1[k - 5]
  <2>1. \A k \in 6 .. 11 : Upto1[k] = Test1[k - 5]
    BY Prefixes
  <2> QED
    BY <1>11, <2>1
<1>13. \A k \in 1 .. 5 : Upto6[k] = Test0[k]
  <2>1. \A k \in 1 .. 5 : Upto1[k] = Test0[k]
    BY Prefixes
  <2> QED
    BY <1>11, <2>1
<1> QED
  BY <1>1, <1>2, <1>4, <1>6, <1>8, <1>10, <1>12, <1>13

LEMMA Places ==
  /\ Done = 57 /\ Handled = 29 /\ PutI = 32 /\ MaskRx = 34 /\ TimerTest = 42
  /\ ClearCmp = 51 /\ First = 55 /\ Second = 56
<1>1. Handled = 29
  <2>1. Handled = Len(Upto3)
    BY Zenon DEF Handled, Upto1, Upto2, Upto3
  <2> QED
    BY <2>1, Prefixes
<1> QED
  BY <1>1, ProgramAt, Lengths DEF Done, PutI, MaskRx, TimerTest, ClearCmp, First, Second

\* What the accesses of main() are, as far as the proofs look at them.
LEMMA Devices ==
  ASSUME NEW k \in 1 .. 56
  PROVE  Program[k].dev = IF k <= 5 THEN "sysctrl" ELSE IF k <= 11 THEN "sram"
                          ELSE IF k <= 20 THEN "gpio" ELSE IF k <= 34 THEN "uart"
                          ELSE IF k <= 42 THEN "wdt" ELSE "timer"
<1> USE DEF Store, Equal, HasBit, NoBit, Until, Look, Load
<1>1. \A i \in 1 .. 5 : Test0[i].dev = "sysctrl"
  BY DEF Test0
<1>2. \A i \in 1 .. 6 : Test1[i].dev = "sram"
  BY DEF Test1
<1>3. \A i \in 1 .. 9 : Test2[i].dev = "gpio"
  BY DEF Test2
<1>4. \A i \in 1 .. 9 : Test3[i].dev = "uart"
  BY DEF Test3
<1>5. \A i \in 1 .. 5 : Test4[i].dev = "uart"
  BY DEF Test4
<1>6. \A i \in 1 .. 8 : Test5[i].dev = "wdt"
  BY DEF Test5
<1>7. \A i \in 1 .. 14 : Test6[i].dev = "timer"
  BY DEF Test6
<1>8. CASE k <= 20
  <2>2. k \in 6 .. 11 => k - 5 \in 1 .. 6
    OBVIOUS
  <2>3. k \in 12 .. 20 => k - 11 \in 1 .. 9
    OBVIOUS
  <2> QED
    BY <1>1, <1>2, <1>3, <1>8, <2>2, <2>3, ProgramAt
<1>9. CASE k > 20
  <2>1. k \in 21 .. 29 => k - 20 \in 1 .. 9
    OBVIOUS
  <2>2. k \in 30 .. 34 => k - 29 \in 1 .. 5
    OBVIOUS
  <2>3. k \in 35 .. 42 => k - 34 \in 1 .. 8
    OBVIOUS
  <2>4. k \in 43 .. 56 => k - 42 \in 1 .. 14
    OBVIOUS
  <2> QED
    BY <1>4, <1>5, <1>6, <1>7, <1>9, <2>1, <2>2, <2>3, <2>4, ProgramAt
<1> QED
  BY <1>8, <1>9

LEMMA TimerAccesses ==
  ASSUME NEW k \in 43 .. 56
  PROVE  /\ Program[k].reg \in Pin!Regs /\ Program[k].word \in Pin!Word
         /\ Program[k].kind \in {"load", "store"}
         /\ Program[k].check = "until" => k \in {49, 53}
<1> USE DEF Store, Until, Look, Load
<1>1. {0, CmpWord, LateWord, 7, Pin!IntrCmp, Pin!IntrOv} \subseteq Pin!Word
  BY FirmwareAssumption, WordType, PlAssumption DEF Pin!Word, Pin!IntrCmp, Pin!IntrOv
<1>2. {"CTRL", "VALUE", "CMP", "INTR"} \subseteq Pin!Regs
  BY DEF Pin!Regs
<1>3. \A i \in 1 .. 14 :
        /\ Test6[i].reg \in Pin!Regs /\ Test6[i].word \in Pin!Word
        /\ Test6[i].kind \in {"load", "store"}
        /\ Test6[i].check = "until" => i \in {7, 11}
  BY <1>1, <1>2 DEF Test6
<1>4. k - 42 \in 1 .. 14 /\ Program[k] = Test6[k - 42]
  BY ProgramAt
<1> QED
  BY <1>3, <1>4

LEMMA Polls ==
  /\ Program[49] = Until("timer", "INTR", Pin!IntrCmp)
  /\ Program[50] = Look("timer", "INTR")
  /\ Program[51] = Store("timer", "INTR", 0)
  /\ Program[53] = Until("timer", "INTR", Pin!IntrOv)
  /\ Program[56] = Look("timer", "VALUE")
  BY ProgramAt DEF Test6

(***************************************************************************)
(* The CPU: where main() and UART_Handler() are, and what the server       *)
(* thread is doing for them.                                               *)
(***************************************************************************)

OnBus == pc # "idle" /\ handler = 0 =>
           IF step >= 43
           THEN /\ pc # "access" /\ access.reg = Program[step].reg
                /\ access.kind = (IF Program[step].kind = "load" THEN "read" ELSE "write")
           ELSE pc = "access"

Control ==
  /\ step \in 1 .. 57 /\ handler \in 0 .. 2 /\ verdict \in {"running", "pass", "fail"}
  /\ verdict = "running" => step # 57
  /\ verdict = "pass" => step = 57
  /\ handler # 0 => step \in 32 .. 34 /\ pc \in {"idle", "access"}
  /\ pc # "idle" /\ handler = 0 => verdict = "running"
  /\ OnBus
  /\ step = 51 => word \in Pin!Word

CpuInv == PlInv /\ Control /\ (InReset => step = 1)

\* What a step of the PL alone leaves of this.
LEMMA SiliconShape ==
  ASSUME Silicon
  PROVE  /\ UNCHANGED <<access, irqs>>
         /\ \/ pc' = pc
            \/ /\ pc \in {"setup", "sample", "settle"}
               /\ pc' \in {"sample", "settle", "respond"}
<1> USE DEF accessVars, plVars, timerVars, Pin!busVars
<1>1. CASE Clock \/ GpioProcess \/ UartProcess \/ WdtProcess \/ SramProcess
  <2>1. UNCHANGED accessVars
    BY <1>1 DEF Clock, GpioProcess, UartProcess, WdtProcess, SramProcess, Gpio!OnReset,
                Gpio!DriveIrq, Uart!OnReset, Uart!DriveIrq, Wdt!PclkDiv, Wdt!Tick, Wdt!Drive,
                Wdt!WdtReset, Wdt!SysProcess, Wdt!SysReset, Wdt!OnWdt, Sram!SramReset,
                Gpio!accessVars, Uart!accessVars, Wdt!accessVars, Sram!accessVars
  <2>2. UNCHANGED timerVars
    BY <1>1 DEF Clock, GpioProcess, UartProcess, WdtProcess, SramProcess
  <2> QED
    BY <2>1, <2>2
<1>2. CASE TimerProcess
  BY <1>2 DEF TimerProcess, Pin!TimerThread, Pin!BusRead, Pin!BusWrite, Pin!Reset,
              Pin!IrqOutput
<1>3. CASE BridgeStep
  BY <1>3 DEF BridgeStep, Pin!Setup, Pin!Sample, Pin!Settle
<1>4. CASE OtherProcess
  BY <1>4 DEF OtherProcess, Poll, Release, PackIrqs
<1>5. CASE Scheduler
  BY <1>5 DEF Scheduler
<1> QED
  BY <1>1, <1>2, <1>3, <1>4, <1>5 DEF Silicon

LEMMA Performed ==
  ASSUME NEW a, Perform(a)
  PROVE  /\ pc = "idle"
         /\ a.dev # "timer" => pc' = "access" /\ UNCHANGED access
         /\ a.dev = "timer" => /\ pc' = "setup" /\ access'.reg = a.reg
                               /\ access'.kind = (IF a.kind = "load" THEN "read" ELSE "write")
<1> USE DEF timerVars, Call, CallFor
<1>1. CASE a.dev = "gpio" /\ GpioAccess(a)
  BY <1>1 DEF GpioAccess, Gpio!Read, Gpio!Write, Gpio!Call, Gpio!CallFor
<1>2. CASE a.dev = "uart" /\ UartAccess(a)
  BY <1>2 DEF UartAccess, Uart!ReadDR, Uart!ReadStatus, Uart!WriteDR, Uart!WriteCR,
              Uart!WriteIMSC, Uart!WriteICR, Uart!Call, Uart!CallFor
<1>3. CASE a.dev = "wdt" /\ WdtAccess(a)
  BY <1>3 DEF WdtAccess, Wdt!NoEffect, Wdt!Lock, Wdt!WriteLoad, Wdt!WriteControl,
              Wdt!IntClr, Wdt!Call, Wdt!CallFor
<1>4. CASE a.dev = "sysctrl" /\ SysAccess(a)
  BY <1>4 DEF SysAccess, Wdt!ReadSys, Wdt!WriteScratch, Wdt!CallFor
<1>5. CASE a.dev = "sram" /\ SramAccess(a)
  BY <1>5 DEF SramAccess, Sram!LoadCell, Sram!StoreCell, Sram!CallFor
<1>6. CASE a.dev = "timer" /\ TimerAccess(a)
  BY <1>6 DEF TimerAccess, Pin!Begin
<1> QED
  BY <1>1, <1>2, <1>3, <1>4, <1>5, <1>6 DEF Perform

\* main() makes an access only while it runs, and then knows which.
LEMMA CurrentIs ==
  ASSUME Control, verdict = "running"
  PROVE  /\ step \in 1 .. 56 /\ Performable(Current)
         /\ Current.dev = Program[step].dev /\ Current.reg = Program[step].reg
         /\ Current.kind = Program[step].kind
         /\ Current.dev = "timer" <=> step >= 43
         /\ step # 51 => Current = Program[step]
<1>1. step \in 1 .. 56
  BY DEF Control
<1>2. ClearCmp = 51
  BY Places
<1>3. CASE step # 51
  <2>1. Current = Program[step]
    BY <1>2, <1>3 DEF Current
  <2>2. Current.dev = "timer" <=> step >= 43
    BY <1>1, <2>1, Devices
  <2>3. step >= 43 => Current.reg \in Pin!Regs /\ Current.word \in Pin!Word
    BY <1>1, <2>1, TimerAccesses
  <2> QED
    BY <1>1, <1>3, <2>1, <2>2, <2>3 DEF Performable
<1>4. CASE step = 51
  <2>1. Current = [Program[51] EXCEPT !.word = AndNotCmp(word)]
    BY <1>2, <1>4 DEF Current
  <2>2. /\ Current.dev = "timer" /\ Current.kind = "store" /\ Current.reg = "INTR"
        /\ Current.word = AndNotCmp(word)
        /\ Program[51].dev = "timer" /\ Program[51].kind = "store"
        /\ Program[51].reg = "INTR"
    BY <2>1, Polls DEF Store
  <2>3. AndNotCmp(word) \in Pin!Word
    <3>1. word \in Pin!Word
      BY <1>4 DEF Control
    <3> QED
      BY <3>1, PlAssumption DEF AndNotCmp, Pin!HasMask, Pin!IntrCmp, Pin!Word
  <2> QED
    BY <1>1, <1>4, <2>2, <2>3 DEF Performable, Pin!Regs
<1> QED
  BY <1>3, <1>4

LEMMA InitCpu == Init => CpuInv
<1> SUFFICES ASSUME Init PROVE CpuInv
  OBVIOUS
<1>1. /\ runnable = {"server", "pack_irqs", "clk", "reset", "gpio_reset", "uart_reset",
                     "wdt_reset", "sys_reset", "sram_reset"}
      /\ resume = {} /\ DOMAIN alarm = Timed /\ pc = "idle"
  BY DEF Init, PlInit, AccessInit
<1>2. /\ sig = [reset |-> TRUE, pclk |-> FALSE, read_en |-> FALSE, write_en |-> FALSE,
                address |-> "CTRL", data_in |-> 0, data_out |-> 0,
                intr1 |-> FALSE, intr2 |-> FALSE, uart_irq |-> FALSE,
                gpio_irq |-> FALSE, wdt_irq |-> FALSE, rst_req |-> FALSE,
                irq_bits |-> {}]
      /\ nxt = sig
  BY DEF Init, PlInit
<1>3. /\ intstat = {} /\ inten = {} /\ imsc = {} /\ ctrl = {} /\ wdt_ris = FALSE
      /\ regs = [r \in Pin!Regs |-> 0] /\ rdata = 0
      /\ access = [kind |-> "read", reg |-> "CTRL", data |-> 0]
  BY DEF Init, PlInit, Gpio!Cleared, Uart!AfterReset, Wdt!WdtInit, Pin!TimerInit
<1>4. 0 \in Pin!Word
  BY WordType
<1>5. PlTypeOK
  <2>1. sig \in Signals
    BY <1>2, <1>4 DEF Signals, Pin!Regs
  <2>2. runnable \subseteq Timed \cup Methods
    BY <1>1 DEF Timed, Methods, Resets
  <2> QED
    BY <1>1, <1>2, <1>3, <1>4, <2>1, <2>2 DEF PlTypeOK, Pin!Regs
<1>6. Driven
  BY <1>2, <1>3 DEF Driven, GpioDriven, UartDriven, WdtDriven, TimerDriven, Pin!HasMask,
                    Pin!Regs, Pin!IntrCmp, Pin!IntrOv
<1>7. Thread /\ PackedIrqs /\ Fresh /\ ResetOnce
  BY <1>1, <1>2 DEF Thread, Waits, PackedIrqs, Fresh, ResetOnce
<1>8. Control /\ step = 1
  BY <1>1 DEF Init, Control, OnBus
<1> QED
  BY <1>5, <1>6, <1>7, <1>8 DEF CpuInv, PlInv

LEMMA MainCpu ==
  ASSUME CpuInv, Main
  PROVE  CpuInv'
<1>1. /\ verdict = "running" /\ handler = 0 /\ Perform(Current)
      /\ UNCHANGED <<step, handler, verdict>>
      /\ word' = IF Current.kind = "load" THEN Loaded(Current) ELSE word
  BY DEF Main
<1>2. PlInv' /\ (InReset' => InReset)
  BY <1>1, CurrentIs, PerformStep DEF CpuInv
<1>3. OnBus'
  BY <1>1, CurrentIs, Performed DEF CpuInv, OnBus
<1>4. step = 51 => word' = word
  BY <1>1, CurrentIs, Polls DEF CpuInv, Store
<1>5. Control'
  BY <1>1, <1>3, <1>4 DEF CpuInv, Control
<1> QED
  BY <1>1, <1>2, <1>5 DEF CpuInv

LEMMA TakeIrqCpu ==
  ASSUME CpuInv, TakeIrq
  PROVE  CpuInv'
<1>1. /\ step \in 32 .. 34 /\ pc = "idle" /\ handler' = 1
      /\ UNCHANGED <<kernelVars, accessVars, plVars, step, word, verdict>>
  BY Places DEF TakeIrq, Taken
<1>2. UNCHANGED <<pc, access, sig, runnable, PlInv>>
  BY <1>1 DEF kernelVars, accessVars, plVars, timerVars, gpioVars, uartVars, wdtVars, PlInv,
              PlTypeOK, Thread, Waits, Running, Driven, GpioDriven, UartDriven, WdtDriven,
              TimerDriven, PackedIrqs, Packed, Fresh, SameLines, ResetOnce
<1> QED
  BY <1>1, <1>2 DEF CpuInv, Control, OnBus, InReset

LEMMA HandlerCpu ==
  ASSUME CpuInv, Handler
  PROVE  CpuInv'
<1>1. /\ handler # 0 /\ UNCHANGED <<step, handler, word, verdict>>
      /\ \E a \in {Load("uart", "DR", "none", 0), Store("uart", "ICR", {"RX"})} : UartAccess(a)
  BY DEF Handler, mainVars
<1>2. PICK a \in {Load("uart", "DR", "none", 0), Store("uart", "ICR", {"RX"})} : UartAccess(a)
  BY <1>1
<1>3. a.dev = "uart" /\ Perform(a) /\ Performable(a)
  BY <1>2 DEF Load, Store, Perform, Performable
<1>4. PlInv' /\ (InReset' => InReset)
  BY <1>3, PerformStep DEF CpuInv
<1>5. pc' = "access"
  BY <1>3, Performed
<1> QED
  BY <1>1, <1>4, <1>5 DEF CpuInv, Control, OnBus

\* What an answer tells main() and the handler.
Returned == IF pc = "respond" /\ access.kind = "read" THEN rdata ELSE word

LEMMA ToHandler ==
  ASSUME Answered, handler # 0
  PROVE  handler' = (handler + 1) % 3 /\ UNCHANGED <<step, word, verdict>>
  BY DEF Answered

LEMMA ToMain ==
  ASSUME Answered, handler = 0
  PROVE  /\ word' = Returned /\ handler' = 0
         /\ step' = IF Program[step].check = "until" /\ ~Bits(Program[step], Returned)
                    THEN step ELSE step + 1
         /\ verdict' = IF ~Accepts(Program[step], Returned) THEN "fail"
                       ELSE IF step = Len(Program) THEN "pass" ELSE verdict
  BY DEF Answered, Returned

LEMMA AnsweredCpu ==
  ASSUME CpuInv, Answered
  PROVE  CpuInv' /\ ~InReset
<1>1. /\ PlInv' /\ ~InReset /\ ~InReset' /\ pc \in {"access", "respond"} /\ pc' = "idle"
      /\ UNCHANGED <<access, rdata>>
  BY AnswerStep DEF Answered, CpuInv, plVars, timerVars
<1>2. CASE handler # 0
  <2>1. handler' = (handler + 1) % 3 /\ UNCHANGED <<step, word, verdict>>
    BY <1>2, ToHandler
  <2>2. Control'
    BY <1>1, <1>2, <2>1 DEF CpuInv, Control, OnBus
  <2> QED
    BY <1>1, <2>2 DEF CpuInv
<1>3. CASE handler = 0
  <2>1. /\ word' = Returned /\ handler' = 0
        /\ step' = IF Program[step].check = "until" /\ ~Bits(Program[step], Returned)
                   THEN step ELSE step + 1
        /\ verdict' = IF ~Accepts(Program[step], Returned) THEN "fail"
                      ELSE IF step = Len(Program) THEN "pass" ELSE verdict
    BY <1>3, ToMain
  <2>2. verdict = "running" /\ step \in 1 .. 56
    BY <1>1, <1>3 DEF CpuInv, Control
  <2>3. step = 56 => step' = 57
    BY <2>1, Polls DEF Look, Load
  <2>4. step' \in {step, step + 1} /\ step' \in 1 .. 57
    BY <2>1, <2>2
  <2>5. step' = 51 => word' \in Pin!Word
    <3>1. step = 51 => step' = 52
      BY <2>1, Polls DEF Store
    <3>2. CASE step = 50
      <4>1. pc = "respond" /\ access.kind = "read"
        BY <1>1, <1>3, <3>2, Polls DEF CpuInv, Control, OnBus, Look, Load
      <4> QED
        BY <2>1, <4>1 DEF Returned, CpuInv, PlInv, PlTypeOK
    <3> QED
      BY <2>2, <2>4, <3>1, <3>2
  <2>6. /\ verdict' \in {"running", "pass", "fail"}
        /\ verdict' = "running" => step # 56
        /\ verdict' = "pass" => step = 56
    BY <2>1, <2>2, ProgramAt
  <2>7. handler' = 0 /\ pc' = "idle"
    BY <1>1, <2>1
  <2>8. verdict' = "running" => step' # 57
    BY <2>2, <2>4, <2>6
  <2>9. verdict' = "pass" => step' = 57
    BY <2>3, <2>6
  <2>10. Control'
    BY <2>4, <2>5, <2>6, <2>7, <2>8, <2>9 DEF Control, OnBus
  <2> QED
    BY <1>1, <2>10 DEF CpuInv
<1> QED
  BY <1>1, <1>2, <1>3

LEMMA PlCpu ==
  ASSUME CpuInv, Pl
  PROVE  CpuInv'
<1>1. Silicon /\ UNCHANGED <<step, handler, word, verdict>>
  BY DEF Pl, mainVars
<1>2. PlInv' /\ (InReset' => InReset)
  BY <1>1, SiliconStep DEF CpuInv
<1>3. Control'
  BY <1>1, SiliconShape DEF CpuInv, Control, OnBus
<1> QED
  BY <1>1, <1>2, <1>3 DEF CpuInv

LEMMA StutterCpu == CpuInv /\ UNCHANGED vars => CpuInv'
  BY DEF vars, mainVars, kernelVars, accessVars, plVars, timerVars, gpioVars, uartVars,
         wdtVars, CpuInv, Control, OnBus, InReset, PlInv, PlTypeOK, Thread, Waits, Running,
         Driven, GpioDriven, UartDriven, WdtDriven, TimerDriven, PackedIrqs, Packed, Fresh,
         SameLines, ResetOnce

LEMMA CpuNext == CpuInv /\ [Next]_vars => CpuInv'
  BY MainCpu, TakeIrqCpu, HandlerCpu, AnsweredCpu, PlCpu, StutterCpu DEF Next

LEMMA CpuInductive == Spec => []CpuInv
  BY InitCpu, CpuNext, PTL DEF Spec

\* pack_irqs() of cortexm_pl.h and the answers of cosim_server.cpp: the lines
\* in every answer are the levels that the devices' registers give at that
\* moment, whatever was still waiting to run when the access was made.
THEOREM ResponsesShowDevices == Spec => ResponseShowsDevices
<1>1. CpuInv /\ [Next]_vars => [pc # "idle" /\ pc' = "idle" => irqs' = DeviceLevels]_vars
  <2> SUFFICES ASSUME CpuInv, Next, pc # "idle", pc' = "idle"
               PROVE  irqs' = DeviceLevels
    OBVIOUS
  <2>1. CASE Main
    BY <2>1, Performed DEF Main
  <2>2. CASE TakeIrq
    BY <2>2 DEF TakeIrq
  <2>3. CASE Handler
    BY <2>3 DEF Handler, UartAccess, Uart!ReadDR, Uart!ReadStatus, Uart!WriteDR,
                Uart!WriteCR, Uart!WriteIMSC, Uart!WriteICR, Uart!Call, Uart!CallFor
  <2>4. CASE Answered
    BY <2>4, AnswerShows DEF Answered, CpuInv
  <2>5. CASE Pl
    BY <2>5, SiliconShape DEF Pl
  <2> QED
    BY <2>1, <2>2, <2>3, <2>4, <2>5 DEF Next
<1> QED
  BY <1>1, CpuInductive, PTL DEF Spec, ResponseShowsDevices

(***************************************************************************)
(* The registers of the devices during the tests.                          *)
(***************************************************************************)

\* Once it is out of reset, the PL leaves the registers of the GPIO block and
\* of the UART alone; only the watchdog may expire.
LEMMA SiliconKeeps ==
  ASSUME Silicon
  PROVE  /\ \/ UNCHANGED gpioVars
            \/ InReset /\ inten' = {} /\ intstat' = {} /\ inttype' = {} /\ out' = {}
         /\ \/ UNCHANGED uartVars
            \/ InReset /\ imsc' = {} /\ uart_ris' = {"TX"} /\ rx' = <<>>
         /\ \/ ctrl' = ctrl /\ (wdt_ris => wdt_ris')
            \/ InReset /\ ctrl' = {}
<1> USE DEF plVars, wdtVars
<1>1. CASE Clock \/ SramProcess \/ TimerProcess \/ BridgeStep \/ OtherProcess \/ Scheduler
  BY <1>1 DEF Clock, SramProcess, TimerProcess, BridgeStep, OtherProcess, Scheduler
<1>2. CASE GpioProcess
  BY <1>2 DEF GpioProcess, Gpio!OnReset, Gpio!DriveIrq, Gpio!Runs, Gpio!gpioVars, gpioVars,
              InReset, Resets
<1>3. CASE UartProcess
  BY <1>3 DEF UartProcess, Uart!OnReset, Uart!DriveIrq, Uart!Runs, Uart!uartVars, uartVars,
              InReset, Resets
<1>4. CASE WdtProcess
  <2>1. CASE Wdt!WdtReset
    BY <1>4, <2>1 DEF WdtProcess, Wdt!WdtReset, Wdt!Runs, Wdt!wdtVars, InReset, Resets
  <2>2. CASE Wdt!Tick
    BY <1>4, <2>2 DEF WdtProcess, Wdt!Tick
  <2>3. CASE Wdt!PclkDiv \/ Wdt!Drive \/ Wdt!SysProcess
    BY <1>4, <2>3 DEF WdtProcess, Wdt!PclkDiv, Wdt!Drive, Wdt!SysProcess, Wdt!wdtVars,
                      Wdt!deviceVars
  <2> QED
    BY <1>4, <2>1, <2>2, <2>3 DEF WdtProcess
<1> QED
  BY <1>1, <1>2, <1>3, <1>4 DEF Silicon

\* The accesses of main() whose effect is not yet answered, or was.
Made == IF pc # "idle" /\ handler = 0 THEN step ELSE step - 1

LEMMA UntilAt ==
  ASSUME NEW k \in 1 .. 56, Program[k].check = "until"
  PROVE  k \in {39, 49, 53}
<1> USE DEF Store, Equal, HasBit, NoBit, Until, Look, Load
<1>1. \A i \in 1 .. 5 : Test0[i].check # "until" /\ Test4[i].check # "until"
  BY DEF Test0, Test4
<1>2. \A i \in 1 .. 6 : Test1[i].check # "until"
  BY DEF Test1
<1>3. \A i \in 1 .. 9 : Test2[i].check # "until" /\ Test3[i].check # "until"
  BY DEF Test2, Test3
<1>4. \A i \in 1 .. 8 : Test5[i].check = "until" => i = 5
  BY DEF Test5
<1>5. k <= 11 => FALSE
  BY <1>1, <1>2, ProgramAt
<1>6. k \in 12 .. 34 => FALSE
  BY <1>1, <1>3, ProgramAt
<1>7. k \in 35 .. 42 => k = 39
  BY <1>4, ProgramAt
<1> QED
  BY <1>5, <1>6, <1>7, TimerAccesses

LEMMA MadeStep ==
  ASSUME CpuInv
  PROVE  /\ Made \in 0 .. 56
         /\ Main => Made = step - 1 /\ Made' = step /\ step \in 1 .. 56 /\ step' = step
         /\ (TakeIrq \/ Handler \/ Pl) => Made' = Made
         /\ Answered => Made' = Made \/ (Made \in {39, 49, 53} /\ Made' = Made - 1)
<1>1. step \in 1 .. 57 /\ Made \in 0 .. 56
  BY DEF CpuInv, Control, Made
<1>2. Main => Made = step - 1 /\ Made' = step /\ step \in 1 .. 56 /\ step' = step
  <2> SUFFICES ASSUME Main
               PROVE  Made = step - 1 /\ Made' = step /\ step \in 1 .. 56 /\ step' = step
    OBVIOUS
  <2>1. pc = "idle" /\ pc' # "idle" /\ handler = 0 /\ handler' = 0 /\ step' = step
    BY Performed DEF Main
  <2>2. step \in 1 .. 56
    BY CurrentIs DEF CpuInv, Main
  <2> QED
    BY <1>1, <2>1, <2>2 DEF Made
<1>3. TakeIrq => Made' = Made
  BY DEF TakeIrq, accessVars, Made
<1>4. Handler => Made' = Made
  BY DEF Handler, mainVars, Made
<1>5. Pl => Made' = Made
  BY SiliconShape DEF Pl, mainVars, Made
<1>6. Answered => Made' = Made \/ (Made \in {39, 49, 53} /\ Made' = Made - 1)
  <2> SUFFICES ASSUME Answered
               PROVE  Made' = Made \/ (Made \in {39, 49, 53} /\ Made' = Made - 1)
    OBVIOUS
  <2>1. pc # "idle" /\ pc' = "idle"
    BY AnswerStep DEF Answered, CpuInv
  <2>2. CASE handler # 0
    BY <2>1, <2>2, ToHandler DEF Made
  <2>3. CASE handler = 0
    <3>1. step \in 1 .. 56
      BY <2>1, <2>3 DEF CpuInv, Control
    <3>2. step' = step + 1 \/ (step' = step /\ Program[step].check = "until")
      BY <2>3, ToMain
    <3>3. Made = step /\ Made' = step' - 1
      BY <2>1, <2>3, ToMain DEF Made
    <3>4. Program[step].check = "until" => step \in {39, 49, 53}
      BY <3>1, UntilAt
    <3> QED
      BY <3>1, <3>2, <3>3, <3>4
  <2> QED
    BY <2>2, <2>3
<1> QED
  BY <1>1, <1>2, <1>3, <1>4, <1>5, <1>6

(***************************************************************************)
(* The UART: one character at a time, and one interrupt for it.            *)
(***************************************************************************)

Characters == {"S", "C", "I"}

\* The characters there may be when main() has made m accesses.
Waiting(m) == IF m < 25 THEN 0 ELSE IF m = 25 THEN 1 ELSE IF m <= 27 THEN 2
              ELSE IF m = 28 THEN 1 ELSE IF m <= 31 THEN 0 ELSE 1

Received ==
  /\ rx \in Seq(Characters) /\ Len(rx) <= Waiting(Made)
  /\ "RX" \in uart_ris => rx # <<>>
  /\ imsc \subseteq {"RX"}
  /\ imsc # {} => Made \in 31 .. 33

\* The interrupt is latched with its character still there, and is not
\* latched again once the handler has taken the character.
Interrupt ==
  /\ uart_irqs \in {0, 1}
  /\ handler # 0 => uart_irqs = 1
  /\ pending \/ uart_irqs = 1 => Made >= 32
  /\ pending => uart_irqs = 0 /\ rx # <<>>
  /\ uart_irqs = 1 => IF handler = 1 /\ pc = "idle" THEN rx # <<>> ELSE rx = <<>>

UartInv == Received /\ Interrupt

LEMMA UartProgram ==
  /\ Program[21] = Store("uart", "IBRD", 16) /\ Program[22] = Store("uart", "FBRD", 0)
  /\ Program[23] = Store("uart", "LCRH", "FEN")
  /\ Program[24] = Store("uart", "CR", {"RXE", "LBE"})
  /\ Program[25] = Store("uart", "DR", "S") /\ Program[26] = Store("uart", "DR", "C")
  /\ Program[27] = NoBit("uart", "FR", "RXFE")
  /\ Program[28] = Equal("uart", "DR", "S") /\ Program[29] = Equal("uart", "DR", "C")
  /\ Program[30] = Store("uart", "ICR", {"RX"}) /\ Program[31] = Store("uart", "IMSC", {"RX"})
  /\ Program[32] = Store("uart", "DR", "I") /\ Program[33] = Look("uart", "FR")
  /\ Program[34] = Store("uart", "IMSC", {})
<1>1. /\ Program[21] = Store("uart", "IBRD", 16) /\ Program[22] = Store("uart", "FBRD", 0)
      /\ Program[23] = Store("uart", "LCRH", "FEN")
      /\ Program[24] = Store("uart", "CR", {"RXE", "LBE"})
      /\ Program[25] = Store("uart", "DR", "S") /\ Program[26] = Store("uart", "DR", "C")
      /\ Program[27] = NoBit("uart", "FR", "RXFE")
      /\ Program[28] = Equal("uart", "DR", "S") /\ Program[29] = Equal("uart", "DR", "C")
  BY ProgramAt DEF Test3
<1>2. /\ Program[30] = Store("uart", "ICR", {"RX"}) /\ Program[31] = Store("uart", "IMSC", {"RX"})
      /\ Program[32] = Store("uart", "DR", "I") /\ Program[33] = Look("uart", "FR")
      /\ Program[34] = Store("uart", "IMSC", {})
  BY ProgramAt DEF Test4
<1> QED
  BY <1>1, <1>2

\* What the access of main() under way does to the UART.
LEMMA UartAccesses ==
  ASSUME CpuInv, Main
  PROVE  /\ step \notin 24 .. 34 \/ step \in {27, 33} => UNCHANGED <<imsc, uart_ris, rx>>
         /\ step = 24 => UNCHANGED <<imsc, uart_ris, rx>>
         /\ step \in {25, 26, 32} => \E ch \in Characters : Uart!WriteDR(ch)
         /\ step \in {28, 29} => Uart!ReadDR
         /\ step = 30 => Uart!WriteICR({"RX"})
         /\ step = 31 => Uart!WriteIMSC({"RX"})
         /\ step = 34 => Uart!WriteIMSC({})
<1>1. step \in 1 .. 56 /\ Perform(Current)
  BY CurrentIs DEF CpuInv, Main
<1>2. CASE step \notin 21 .. 34
  <2>1. Current.dev # "uart"
    BY <1>2, CurrentIs, Devices DEF CpuInv, Main
  <2>2. UNCHANGED uartVars
    BY <1>1, <2>1 DEF Perform, GpioAccess, WdtAccess, SysAccess, SramAccess, TimerAccess
  <2> QED
    BY <1>1, <1>2, <2>2 DEF uartVars
<1>3. CASE step \in 21 .. 34
  <2>1. UartAccess(Program[step])
    <3>1. Current = Program[step] /\ Program[step].dev = "uart"
      BY <1>3, CurrentIs, Devices DEF CpuInv, Main
    <3> QED
      BY <1>1, <3>1 DEF Perform
  <2> USE DEF UartAccess, Store, NoBit, Equal, Look, Load
  <2>2. step \in {21, 22, 23, 27, 33} => Uart!ReadStatus
    BY <2>1, UartProgram
  <2>3. step = 24 => Uart!WriteCR({"RXE", "LBE"})
    BY <2>1, UartProgram
  <2>4. step \in {25, 26, 32} => \E ch \in Characters : Uart!WriteDR(ch)
    BY <2>1, UartProgram DEF Characters
  <2>5. step \in {28, 29} => Uart!ReadDR
    BY <2>1, UartProgram
  <2>6. step = 30 => Uart!WriteICR({"RX"})
    BY <2>1, UartProgram
  <2>7. step = 31 => Uart!WriteIMSC({"RX"})
    BY <2>1, UartProgram
  <2>8. step = 34 => Uart!WriteIMSC({})
    BY <2>1, UartProgram
  <2>9. Uart!ReadStatus \/ Uart!WriteCR({"RXE", "LBE"}) => UNCHANGED <<imsc, uart_ris, rx>>
    BY DEF Uart!ReadStatus, Uart!WriteCR, Uart!uartVars
  <2> QED
    BY <1>3, <2>2, <2>3, <2>4, <2>5, <2>6, <2>7, <2>8, <2>9
<1> QED
  BY <1>2, <1>3

LEMMA WriteDREffect ==
  ASSUME Received, NEW ch \in Characters, Uart!WriteDR(ch)
  PROVE  /\ rx' \in Seq(Characters) /\ Len(rx') <= Len(rx) + 1
         /\ "RX" \in uart_ris' => rx' # <<>>
         /\ imsc' = imsc
<1>1. /\ rx' = Append(rx, ch) \/ (rx' = rx /\ uart_ris' = uart_ris \cup {"TX"})
      /\ imsc' = imsc
  BY DEF Uart!WriteDR
<1>2. CASE rx' = Append(rx, ch)
  BY <1>1, <1>2 DEF Received
<1>3. CASE rx' = rx /\ uart_ris' = uart_ris \cup {"TX"}
  BY <1>1, <1>3 DEF Received
<1> QED
  BY <1>1, <1>2, <1>3

LEMMA ReadDREffect ==
  ASSUME Received, Uart!ReadDR
  PROVE  /\ rx' \in Seq(Characters) /\ (rx' = <<>> \/ Len(rx') = Len(rx) - 1)
         /\ Len(rx) <= 1 => rx' = <<>>
         /\ "RX" \in uart_ris' => rx' # <<>>
         /\ imsc' = imsc
<1>1. CASE rx # <<>>
  <2>1. /\ rx' = Tail(rx) /\ uart_ris' = IF rx' = <<>> THEN uart_ris \ {"RX"} ELSE uart_ris
        /\ imsc' = imsc
    BY <1>1 DEF Uart!ReadDR
  <2>2. Tail(rx) \in Seq(Characters) /\ Len(Tail(rx)) = Len(rx) - 1
    BY <1>1 DEF Received
  <2>3. Len(rx) <= 1 => Tail(rx) = <<>>
    BY <1>1, <2>2 DEF Received
  <2> QED
    BY <2>1, <2>2, <2>3
<1>2. CASE rx = <<>>
  BY <1>2 DEF Uart!ReadDR, Uart!uartVars, Received
<1> QED
  BY <1>1, <1>2

LEMMA WaitingType == Waiting(Made) \in 0 .. 2
  BY DEF Waiting

LEMMA ReceivedMain ==
  ASSUME CpuInv, Received, Main
  PROVE  Received'
<1>1. Made = step - 1 /\ Made' = step /\ step \in 1 .. 56
  BY MadeStep
<1>2. rx \in Seq(Characters) /\ Len(rx) \in Nat
  BY DEF Received
<1>3. CASE step \notin 24 .. 34 \/ step \in {24, 27, 33}
  <2>1. UNCHANGED <<imsc, uart_ris, rx>>
    BY <1>3, UartAccesses
  <2>2. Waiting(step - 1) <= Waiting(step)
    BY <1>1, <1>3 DEF Waiting
  <2>3. step - 1 \in 31 .. 33 => step \in 31 .. 33
    BY <1>3
  <2> QED
    BY <1>1, <1>2, <2>1, <2>2, <2>3 DEF Received, Waiting
<1>4. CASE step \in {25, 26, 32}
  <2>1. PICK ch \in Characters : Uart!WriteDR(ch)
    BY <1>4, UartAccesses
  <2>2. /\ rx' \in Seq(Characters) /\ Len(rx') <= Len(rx) + 1
        /\ "RX" \in uart_ris' => rx' # <<>>
        /\ imsc' = imsc
    BY <2>1, WriteDREffect
  <2>3. Waiting(step) = Waiting(step - 1) + 1
    BY <1>4 DEF Waiting
  <2> QED
    BY <1>1, <1>2, <1>4, <2>2, <2>3 DEF Received, Waiting
<1>5. CASE step \in {28, 29}
  <2>1. /\ rx' \in Seq(Characters) /\ (rx' = <<>> \/ Len(rx') = Len(rx) - 1)
        /\ "RX" \in uart_ris' => rx' # <<>>
        /\ imsc' = imsc
    BY <1>5, UartAccesses, ReadDREffect
  <2>2. Waiting(step) = Waiting(step - 1) - 1 /\ Waiting(step) >= 0
    BY <1>5 DEF Waiting
  <2> QED
    BY <1>1, <1>2, <1>5, <2>1, <2>2 DEF Received, Waiting
<1>6. CASE step \in {30, 31, 34}
  <2>1. /\ rx' = rx /\ uart_ris' \subseteq uart_ris
        /\ imsc' = IF step = 31 THEN {"RX"} ELSE IF step = 34 THEN {} ELSE imsc
    BY <1>6, UartAccesses DEF Uart!WriteICR, Uart!WriteIMSC
  <2>2. Waiting(step) = Waiting(step - 1)
    BY <1>6 DEF Waiting
  <2> QED
    BY <1>1, <1>2, <1>6, <2>1, <2>2 DEF Received
<1> QED
  BY <1>1, <1>3, <1>4, <1>5, <1>6

LEMMA InterruptMain ==
  ASSUME CpuInv, UartInv, Main
  PROVE  Interrupt'
<1>1. Made = step - 1 /\ Made' = step /\ step \in 1 .. 56
  BY MadeStep
<1>2. handler = 0 /\ pc = "idle" /\ UNCHANGED <<handler, uart_irqs, pending>>
  BY Performed DEF Main
<1>3. CASE Made >= 32
  <2>1. rx' = rx
    BY <1>1, <1>3, UartAccesses DEF Uart!WriteIMSC
  <2> QED
    BY <1>1, <1>2, <1>3, <2>1 DEF UartInv, Interrupt
<1>4. CASE ~(Made >= 32)
  <2>1. ~pending /\ uart_irqs = 0
    BY <1>4 DEF UartInv, Interrupt
  <2> QED
    BY <1>2, <2>1 DEF UartInv, Interrupt
<1> QED
  BY <1>3, <1>4

LEMMA UartTakeIrq ==
  ASSUME CpuInv, UartInv, TakeIrq
  PROVE  UartInv'
<1>1. /\ pending /\ handler = 0 /\ handler' = 1 /\ uart_irqs' = uart_irqs + 1
      /\ pending' = FALSE /\ pc = "idle" /\ UNCHANGED <<pc, rx, uart_ris, imsc>>
  BY DEF TakeIrq, Taken, accessVars, plVars, uartVars
<1>2. Made' = Made
  BY MadeStep
<1> QED
  BY <1>1, <1>2 DEF UartInv, Received, Interrupt

LEMMA UartHandler ==
  ASSUME CpuInv, UartInv, Handler
  PROVE  UartInv'
<1>1. Made' = Made /\ UNCHANGED <<handler, uart_irqs, pending>>
  BY MadeStep DEF Handler, mainVars
<1>2. /\ handler \in {1, 2} /\ uart_irqs = 1 /\ ~pending /\ Made >= 32 /\ pc = "idle"
      /\ handler = 1 => Uart!ReadDR
      /\ handler = 2 => Uart!WriteICR({"RX"})
  BY DEF Handler, UartAccess, Load, Store, UartInv, Interrupt, Uart!ReadDR, Uart!WriteICR,
         Uart!Call, Uart!CallFor
<1>3. pc' = "access"
  BY <1>2 DEF Uart!ReadDR, Uart!WriteICR, Uart!Call, Uart!CallFor
<1>4. Len(rx) <= 1
  <2>1. Waiting(Made) = 1
    BY <1>2, MadeStep DEF Waiting
  <2> QED
    BY <2>1 DEF UartInv, Received
<1>5. CASE handler = 1
  <2>1. /\ rx' = <<>> /\ rx' \in Seq(Characters) /\ "RX" \notin uart_ris' /\ imsc' = imsc
    BY <1>2, <1>4, <1>5, ReadDREffect DEF UartInv
  <2>2. Len(rx') <= Waiting(Made)
    BY <2>1, WaitingType
  <2> QED
    BY <1>1, <1>2, <1>3, <1>5, <2>1, <2>2 DEF UartInv, Received, Interrupt
<1>6. CASE handler = 2
  <2>1. rx' = rx /\ uart_ris' \subseteq uart_ris /\ imsc' = imsc
    BY <1>2, <1>6 DEF Uart!WriteICR
  <2> QED
    BY <1>1, <1>2, <1>3, <1>6, <2>1 DEF UartInv, Received, Interrupt
<1> QED
  BY <1>2, <1>5, <1>6

\* A line that is up at the NVIC has a character behind it.
LEMMA UartUp ==
  ASSUME PlInv, Received, Answer, "uart_irq" \in irqs'
  PROVE  rx # <<>> /\ Made \in 32 .. 33
<1>1. uart_ris \cap imsc # {}
  BY AnswerShows DEF DeviceLevels, Pin!Levels
<1>2. rx # <<>> /\ Made \in 31 .. 33
  BY <1>1 DEF Received
<1>3. rx \in Seq(Characters) /\ Len(rx) <= Waiting(Made)
  BY DEF Received
<1>4. Made = 31 => Waiting(Made) = 0
  BY DEF Waiting
<1> QED
  BY <1>2, <1>3, <1>4

LEMMA UartAnswered ==
  ASSUME CpuInv, UartInv, Answered
  PROVE  UartInv'
<1>1. Made' = Made \/ (Made \in {39, 49, 53} /\ Made' = Made - 1)
  BY MadeStep
<1>2. pc # "idle" /\ pc' = "idle" /\ UNCHANGED <<rx, uart_ris, imsc, uart_irqs>>
  BY AnswerStep DEF Answered, CpuInv, plVars, uartVars
<1>3. Waiting(Made') = Waiting(Made)
  BY <1>1 DEF Waiting
<1>4. Received'
  BY <1>1, <1>2, <1>3 DEF UartInv, Received
<1>5. pending' => pending \/ "uart_irq" \in irqs'
  BY DEF Answered
<1>6. "uart_irq" \in irqs' => rx # <<>> /\ Made \in 32 .. 33
  BY UartUp DEF Answered, CpuInv, UartInv
<1>7. Made >= 32 => Made' >= 32
  BY <1>1, MadeStep
<1>8. uart_irqs = 1 => rx = <<>>
  BY <1>2 DEF UartInv, Interrupt
<1>9. handler' = IF handler = 0 THEN 0 ELSE (handler + 1) % 3
  BY ToHandler, ToMain
<1>10. handler' # 0 => handler # 0 /\ handler' # 1
  BY <1>9 DEF CpuInv, Control
<1>11. Interrupt'
  BY <1>2, <1>5, <1>6, <1>7, <1>8, <1>10, MadeStep DEF UartInv, Interrupt
<1> QED
  BY <1>4, <1>11 DEF UartInv

LEMMA UartPl ==
  ASSUME CpuInv, UartInv, Pl
  PROVE  UartInv'
<1>1. Made' = Made /\ UNCHANGED <<handler, uart_irqs, pending>>
  BY MadeStep DEF Pl, mainVars
<1>2. pc' = "idle" <=> pc = "idle"
  BY SiliconShape DEF Pl
<1>3. CASE UNCHANGED uartVars
  BY <1>1, <1>2, <1>3 DEF uartVars, UartInv, Received, Interrupt
<1>4. CASE InReset /\ imsc' = {} /\ uart_ris' = {"TX"} /\ rx' = <<>>
  <2>1. Made <= 1 /\ ~pending /\ uart_irqs = 0
    BY <1>4 DEF CpuInv, Control, Made, UartInv, Interrupt
  <2>2. Len(rx') <= Waiting(Made) /\ rx' \in Seq(Characters)
    BY <1>4, WaitingType
  <2> QED
    BY <1>1, <1>4, <2>1, <2>2 DEF UartInv, Received, Interrupt
<1> QED
  BY <1>3, <1>4, SiliconKeeps DEF Pl

LEMMA UartInit == Init => UartInv
<1> SUFFICES ASSUME Init PROVE UartInv
  OBVIOUS
<1>1. /\ rx = <<>> /\ imsc = {} /\ uart_ris = {"TX"} /\ step = 1 /\ handler = 0
      /\ uart_irqs = 0 /\ pending = FALSE /\ pc = "idle"
  BY DEF Init, PlInit, AccessInit, Uart!AfterReset
<1> QED
  BY <1>1 DEF UartInv, Received, Interrupt, Waiting, Made

LEMMA UartNext == CpuInv /\ UartInv /\ [Next]_vars => UartInv'
<1> SUFFICES ASSUME CpuInv, UartInv, [Next]_vars PROVE UartInv'
  OBVIOUS
<1>1. CASE Main
  BY <1>1, ReceivedMain, InterruptMain DEF UartInv
<1>2. CASE UNCHANGED vars
  BY <1>2 DEF vars, mainVars, accessVars, plVars, uartVars, UartInv, Received, Interrupt, Made
<1> QED
  BY <1>1, <1>2, UartTakeIrq, UartHandler, UartAnswered, UartPl DEF Next

LEMMA UartInductive == Spec => []UartInv
<1>1. Spec => [](CpuInv /\ UartInv)
  BY InitCpu, CpuNext, UartInit, UartNext, PTL DEF Spec
<1> QED
  BY <1>1, PTL

\* main.c, tests 3 and 4: the character sent in loopback raises one interrupt,
\* UART_Handler() finds that character in the FIFO, and the line it has served
\* does not raise a second one.
THEOREM OneInterruptServed == Spec => []OneInterrupt
<1>1. UartInv => OneInterrupt
  BY DEF UartInv, Interrupt, OneInterrupt
<1> QED
  BY <1>1, UartInductive, PTL

(***************************************************************************)
(* The GPIO block and the watchdog: each is left with its line down.       *)
(***************************************************************************)

GpioTested ==
  /\ inten \subseteq {1} /\ intstat \subseteq {1}
  /\ Made >= 15 => inttype = Pins
  /\ Made >= 16 => inten = {1}
  /\ Made >= 20 => intstat = {}
  /\ step = 19 /\ pc # "idle" => word = intstat

WdtTested ==
  /\ Made \in 38 .. 40 => "INTEN" \in ctrl
  /\ Made >= 41 => ctrl = {}
  /\ step = 39 /\ pc # "idle" /\ "RIS" \in word => wdt_ris

TestedInv == GpioTested /\ WdtTested

LEMMA GpioProgram ==
  /\ Program[12] = Equal("gpio", "ID", "id") /\ Program[13] = Store("gpio", "DIR", Pins)
  /\ Program[14] = Store("gpio", "INTPOL", Pins)
  /\ Program[15] = Store("gpio", "INTTYPE", Pins)
  /\ Program[16] = Store("gpio", "INTEN", {1}) /\ Program[17] = Store("gpio", "SET", {1})
  /\ Program[18] = Equal("gpio", "DATA", {1}) /\ Program[19] = HasBit("gpio", "INTSTAT", 1)
  /\ Program[20] = Store("gpio", "INTCLR", {1})
  BY ProgramAt DEF Test2

LEMMA WdtProgram ==
  /\ Program[35].kind = "store" /\ Program[35].reg = "LOCK"
  /\ Program[36].kind = "store" /\ Program[36].reg = "LOAD"
  /\ Program[37] = Store("wdt", "INTCLR", 1)
  /\ Program[38] = Store("wdt", "CONTROL", {"INTEN"})
  /\ Program[39] = Until("wdt", "RIS", "RIS")
  /\ Program[40] = Store("wdt", "INTCLR", 1) /\ Program[41] = Store("wdt", "CONTROL", {})
  /\ Program[42].kind = "store" /\ Program[42].reg = "LOCK"
<1>1. /\ Program[35] = Test5[1] /\ Program[36] = Test5[2] /\ Program[37] = Test5[3]
      /\ Program[38] = Test5[4] /\ Program[39] = Test5[5] /\ Program[40] = Test5[6]
      /\ Program[41] = Test5[7] /\ Program[42] = Test5[8]
  BY ProgramAt
<1> QED
  BY <1>1 DEF Test5, Store, Until, Load

\* A store: an edge needs a pin that moves.
LEMMA GpioWriteEffect ==
  ASSUME NEW r, NEW v, Gpio!Write(r, v)
  PROVE  /\ inten' = (IF r = "INTEN" THEN v ELSE inten)
         /\ inttype' = (IF r = "INTTYPE" THEN v ELSE inttype)
         /\ dir' = (IF r = "DIR" THEN v ELSE dir)
         /\ intpol' = (IF r = "INTPOL" THEN v ELSE intpol)
         /\ out' = (IF r = "SET" THEN out \cup v ELSE out) \/ r \in {"DATA", "CLR"}
         /\ intstat' \subseteq (intstat \ (IF r = "INTCLR" THEN v ELSE {})) \cup inten'
         /\ r = "INTCLR" /\ inten \subseteq inttype => intstat' = intstat \ v
<1>1. /\ inten' = (IF r = "INTEN" THEN v ELSE inten)
      /\ inttype' = (IF r = "INTTYPE" THEN v ELSE inttype)
      /\ dir' = (IF r = "DIR" THEN v ELSE dir)
      /\ intpol' = (IF r = "INTPOL" THEN v ELSE intpol)
      /\ out' = (IF r = "SET" THEN out \cup v ELSE out) \/ r \in {"DATA", "CLR"}
      /\ Gpio!NoteEdges(IF r = "INTCLR" THEN v ELSE {})
  BY DEF Gpio!Write, Gpio!Store
<1>2. intstat' \subseteq (intstat \ (IF r = "INTCLR" THEN v ELSE {})) \cup inten'
  BY <1>1 DEF Gpio!NoteEdges
<1>3. ASSUME r = "INTCLR", inten \subseteq inttype PROVE intstat' = intstat \ v
  <2>1. UNCHANGED <<out, dir, inten, inttype>>
    BY <1>3 DEF Gpio!Write, Gpio!Store
  <2>2. \A p \in inten' : ~Gpio!Triggered(p)
    BY <1>3, <2>1 DEF Gpio!Triggered, Gpio!High
  <2> QED
    BY <1>1, <1>3, <2>2 DEF Gpio!NoteEdges
<1> QED
  BY <1>1, <1>2, <1>3

LEMMA GpioAccesses ==
  ASSUME CpuInv, Main
  PROVE  /\ step \notin 13 .. 20 \/ step \in {18, 19} =>
              UNCHANGED <<dir, out, inten, inttype, intpol, intstat>>
         /\ step = 13 => Gpio!Write("DIR", Pins)
         /\ step = 14 => Gpio!Write("INTPOL", Pins)
         /\ step = 15 => Gpio!Write("INTTYPE", Pins)
         /\ step = 16 => Gpio!Write("INTEN", {1})
         /\ step = 17 => Gpio!Write("SET", {1})
         /\ step = 20 => Gpio!Write("INTCLR", {1})
         /\ step = 19 => word' = intstat
<1>1. step \in 1 .. 56 /\ Perform(Current)
  BY CurrentIs DEF CpuInv, Main
<1>2. CASE step \notin 12 .. 20
  <2>1. Current.dev # "gpio"
    BY <1>2, CurrentIs, Devices DEF CpuInv, Main
  <2>2. UNCHANGED gpioVars
    BY <1>1, <2>1 DEF Perform, UartAccess, WdtAccess, SysAccess, SramAccess, TimerAccess
  <2> QED
    BY <1>1, <1>2, <2>2 DEF gpioVars
<1>3. CASE step \in 12 .. 20
  <2>1. Current = Program[step] /\ Program[step].dev = "gpio"
    BY <1>3, CurrentIs, Devices DEF CpuInv, Main
  <2>2. GpioAccess(Program[step])
    BY <1>1, <2>1 DEF Perform
  <2> USE DEF GpioAccess, Store, HasBit, Equal, Load
  <2>3. step \in {12, 18, 19} => UNCHANGED <<dir, out, inten, inttype, intpol, intstat>>
    BY <2>2, GpioProgram DEF Gpio!Read, Gpio!gpioVars
  <2>4. /\ step = 13 => Gpio!Write("DIR", Pins)
        /\ step = 14 => Gpio!Write("INTPOL", Pins)
        /\ step = 15 => Gpio!Write("INTTYPE", Pins)
    BY <2>2, GpioProgram
  <2>5. /\ step = 16 => Gpio!Write("INTEN", {1})
        /\ step = 17 => Gpio!Write("SET", {1})
        /\ step = 20 => Gpio!Write("INTCLR", {1})
    BY <2>2, GpioProgram
  <2>6. step = 19 => word' = intstat
    BY <2>1, GpioProgram DEF Main, Loaded, Gpio!Word
  <2> QED
    BY <1>3, <2>3, <2>4, <2>5, <2>6
<1> QED
  BY <1>2, <1>3

LEMMA GpioMain ==
  ASSUME CpuInv, GpioTested, Main
  PROVE  GpioTested'
<1>1. Made = step - 1 /\ Made' = step /\ step \in 1 .. 56 /\ step' = step
  BY MadeStep
<1>2. 1 \in Pins
  BY FirmwareAssumption
<1>3. CASE step \notin 13 .. 20 \/ step \in {18, 19}
  <2>1. UNCHANGED <<inten, inttype, intstat>> /\ (step = 19 => word' = intstat)
    BY <1>3, GpioAccesses
  <2> QED
    BY <1>1, <1>3, <2>1 DEF GpioTested
<1>4. CASE step \in {13, 14, 17}
  <2>1. PICK r \in {"DIR", "INTPOL", "SET"}, v \in {Pins, {1}} : Gpio!Write(r, v)
    BY <1>4, GpioAccesses
  <2>2. inten' = inten /\ inttype' = inttype /\ intstat' \subseteq intstat \cup inten
    BY <2>1, GpioWriteEffect
  <2> QED
    BY <1>1, <1>4, <2>2 DEF GpioTested
<1>5. CASE step = 15
  <2>1. inten' = inten /\ inttype' = Pins /\ intstat' \subseteq intstat \cup inten
    BY <1>5, GpioAccesses, GpioWriteEffect
  <2> QED
    BY <1>1, <1>5, <2>1 DEF GpioTested
<1>6. CASE step = 16
  <2>1. inten' = {1} /\ inttype' = inttype /\ intstat' \subseteq intstat \cup {1}
    BY <1>6, GpioAccesses, GpioWriteEffect
  <2> QED
    BY <1>1, <1>6, <2>1 DEF GpioTested
<1>7. CASE step = 20
  <2>1. inten = {1} /\ inten \subseteq inttype /\ intstat \subseteq {1}
    BY <1>1, <1>2, <1>7 DEF GpioTested
  <2>2. inten' = inten /\ inttype' = inttype /\ intstat' = intstat \ {1}
    BY <1>7, <2>1, GpioAccesses, GpioWriteEffect
  <2> QED
    BY <1>1, <1>7, <2>1, <2>2 DEF GpioTested
<1> QED
  BY <1>1, <1>3, <1>4, <1>5, <1>6, <1>7

LEMMA WdtAccesses ==
  ASSUME CpuInv, Main
  PROVE  /\ step \notin {38, 41} => ctrl' = ctrl
         /\ step = 38 => ctrl' = {"INTEN"}
         /\ step = 41 => ctrl' = {}
         /\ step = 39 => word' = (IF wdt_ris THEN {"RIS"} ELSE {}) /\ wdt_ris' = wdt_ris
<1>1. step \in 1 .. 56 /\ Perform(Current)
  BY CurrentIs DEF CpuInv, Main
<1>2. CASE step \notin 35 .. 42
  <2>1. Current.dev # "wdt"
    BY <1>2, CurrentIs, Devices DEF CpuInv, Main
  <2>2. UNCHANGED wdtVars \/ ctrl' = ctrl
    BY <1>1, <2>1 DEF Perform, UartAccess, GpioAccess, SysAccess, SramAccess, TimerAccess
  <2> QED
    BY <1>1, <1>2, <2>2 DEF wdtVars
<1>3. CASE step \in 35 .. 42
  <2>1. Current = Program[step] /\ Program[step].dev = "wdt"
    BY <1>3, CurrentIs, Devices DEF CpuInv, Main
  <2>2. WdtAccess(Program[step])
    BY <1>1, <2>1 DEF Perform
  <2>3. CASE step \in {35, 36, 37, 40, 42}
    BY <2>2, <2>3, WdtProgram DEF WdtAccess, Store, Wdt!Lock, Wdt!WriteLoad, Wdt!IntClr
  <2>4. CASE step \in {38, 41}
    BY <2>2, <2>4, WdtProgram DEF WdtAccess, Store, Wdt!WriteControl
  <2>5. CASE step = 39
    <3>1. UNCHANGED <<ctrl, wdt_ris>>
      BY <2>2, <2>5, WdtProgram DEF WdtAccess, Until, Load, Wdt!NoEffect, Wdt!wdtVars
    <3>2. word' = (IF wdt_ris THEN {"RIS"} ELSE {})
      BY <2>1, <2>5, WdtProgram DEF Main, Loaded, Until, Load
    <3> QED
      BY <2>5, <3>1, <3>2
  <2> QED
    BY <1>3, <2>3, <2>4, <2>5
<1> QED
  BY <1>2, <1>3

LEMMA WdtMain ==
  ASSUME CpuInv, WdtTested, Main
  PROVE  WdtTested'
<1>1. Made = step - 1 /\ Made' = step /\ step \in 1 .. 56 /\ step' = step
  BY MadeStep
<1>2. step = 39 /\ "RIS" \in word' => wdt_ris'
  BY WdtAccesses
<1> QED
  BY <1>1, <1>2, WdtAccesses DEF WdtTested

\* The other steps leave the two devices' registers, or reset them.
LEMMA TestedElse ==
  ASSUME CpuInv, TestedInv, TakeIrq \/ Handler \/ Pl \/ Answered
  PROVE  TestedInv'
<1>1. Made' = Made \/ (Made \in {39, 49, 53} /\ Made' = Made - 1)
  BY MadeStep
<1>2. Made \in 0 .. 56
  BY MadeStep
<1>3. CASE TakeIrq \/ Handler \/ Answered
  <2>1. UNCHANGED <<inten, inttype, intstat, ctrl, wdt_ris>>
    <3>1. CASE TakeIrq
      BY <3>1 DEF TakeIrq, plVars, gpioVars, wdtVars
    <3>2. CASE Handler
      BY <3>2 DEF Handler, UartAccess, gpioVars, wdtVars
    <3>3. CASE Answered
      BY <3>3, AnswerStep DEF Answered, CpuInv, plVars, gpioVars, wdtVars
    <3> QED
      BY <1>3, <3>1, <3>2, <3>3
  <2>2. pc' = "idle" \/ (handler # 0 /\ step' = step)
    <3>1. CASE TakeIrq
      BY <3>1 DEF TakeIrq, accessVars
    <3>2. CASE Handler
      BY <3>2 DEF Handler, mainVars
    <3>3. CASE Answered
      BY <3>3, AnswerStep DEF Answered, CpuInv
    <3> QED
      BY <1>3, <3>1, <3>2, <3>3
  <2>3. pc' # "idle" => step' \notin {19, 39}
    BY <2>2 DEF CpuInv, Control
  <2> QED
    BY <1>1, <1>2, <2>1, <2>3 DEF TestedInv, GpioTested, WdtTested
<1>4. CASE Pl
  <2>1. Made' = Made /\ UNCHANGED <<step, word>> /\ (pc' = "idle" <=> pc = "idle") /\ Silicon
    BY <1>4, MadeStep, SiliconShape DEF Pl, mainVars
  <2>2. InReset => Made <= 1 /\ step = 1
    BY DEF CpuInv, Made
  <2>3. GpioTested'
    <3>1. CASE UNCHANGED gpioVars
      <4>1. UNCHANGED <<inten, inttype, intstat>>
        BY <3>1 DEF gpioVars
      <4> QED
        BY <1>2, <2>1, <4>1 DEF TestedInv, GpioTested
    <3>2. CASE InReset /\ inten' = {} /\ intstat' = {} /\ inttype' = {} /\ out' = {}
      BY <1>2, <2>1, <2>2, <3>2 DEF GpioTested
    <3> QED
      BY <2>1, <3>1, <3>2, SiliconKeeps
  <2>4. WdtTested'
    <3>1. CASE ctrl' = ctrl /\ (wdt_ris => wdt_ris')
      BY <2>1, <3>1 DEF TestedInv, WdtTested
    <3>2. CASE InReset /\ ctrl' = {}
      BY <1>2, <2>1, <2>2, <3>2 DEF WdtTested
    <3> QED
      BY <2>1, <3>1, <3>2, SiliconKeeps
  <2> QED
    BY <2>3, <2>4 DEF TestedInv
<1> QED
  BY <1>3, <1>4

LEMMA TestedInit == Init => TestedInv
<1> SUFFICES ASSUME Init PROVE TestedInv
  OBVIOUS
<1>1. /\ inten = {} /\ intstat = {} /\ step = 1 /\ handler = 0 /\ pc = "idle"
  BY DEF Init, PlInit, AccessInit, Gpio!Cleared
<1> QED
  BY <1>1 DEF TestedInv, GpioTested, WdtTested, Made

LEMMA TestedNext == CpuInv /\ TestedInv /\ [Next]_vars => TestedInv'
<1> SUFFICES ASSUME CpuInv, TestedInv, [Next]_vars PROVE TestedInv'
  OBVIOUS
<1>1. CASE Main
  BY <1>1, GpioMain, WdtMain DEF TestedInv
<1>2. CASE UNCHANGED vars
  BY <1>2 DEF vars, mainVars, accessVars, plVars, gpioVars, wdtVars, TestedInv, GpioTested,
              WdtTested, Made
<1> QED
  BY <1>1, <1>2, TestedElse DEF Next

\* What is left of the lines when test 6 begins.
LinesLeft == step > 42 => irqs \subseteq {"intr1", "intr2"}

LEMMA LinesLeftNext ==
  CpuInv /\ UartInv /\ TestedInv /\ LinesLeft /\ [Next]_vars => LinesLeft'
<1> SUFFICES ASSUME CpuInv, UartInv, TestedInv, LinesLeft, [Next]_vars PROVE LinesLeft'
  OBVIOUS
<1>1. CASE Main
  <2>1. UNCHANGED <<step, irqs>>
    <3>1. UNCHANGED irqs
      BY <1>1 DEF Main, Perform, Call, CallFor, GpioAccess, UartAccess, WdtAccess, SysAccess,
         SramAccess, TimerAccess, Gpio!Read, Gpio!Write, Gpio!Call, Gpio!CallFor,
         Uart!ReadDR, Uart!ReadStatus, Uart!WriteDR, Uart!WriteCR, Uart!WriteIMSC,
         Uart!WriteICR, Uart!Call, Uart!CallFor, Wdt!NoEffect, Wdt!Lock, Wdt!WriteLoad,
         Wdt!WriteControl, Wdt!IntClr, Wdt!Call, Wdt!CallFor, Wdt!ReadSys,
         Wdt!WriteScratch, Sram!LoadCell, Sram!StoreCell, Sram!CallFor, Pin!Begin
    <3> QED
      BY <1>1, <3>1 DEF Main
  <2> QED
    BY <2>1 DEF LinesLeft
<1>2. CASE TakeIrq
  BY <1>2 DEF TakeIrq, accessVars, LinesLeft
<1>3. CASE Handler
  <2>1. handler # 0 /\ step' = step
    BY <1>3 DEF Handler, mainVars
  <2> QED
    BY <2>1 DEF CpuInv, Control, LinesLeft
<1>4. CASE Answered
  <2>1. pc # "idle" /\ irqs' = DeviceLevels
    BY <1>4, AnswerStep, AnswerShows DEF Answered, CpuInv
  <2>2. SUFFICES ASSUME step' > 42 PROVE DeviceLevels \subseteq {"intr1", "intr2"}
    BY <2>1 DEF LinesLeft
  <2>3. handler = 0 /\ step >= 42
    <3>1. CASE handler # 0
      BY <1>4, <2>2, <3>1, ToHandler DEF CpuInv, Control
    <3>2. CASE handler = 0
      BY <1>4, <2>2, <3>2, ToMain DEF CpuInv, Control
    <3> QED
      BY <3>1, <3>2
  <2>4. Made >= 42
    BY <2>1, <2>3 DEF Made
  <2>5. intstat = {} /\ ctrl = {} /\ imsc = {}
    <3>1. Made \in 0 .. 56
      BY MadeStep
    <3>2. intstat = {} /\ ctrl = {}
      BY <2>4, <3>1 DEF TestedInv, GpioTested, WdtTested
    <3>3. Made \notin 31 .. 33
      BY <2>4
    <3> QED
      BY <3>2, <3>3 DEF UartInv, Received
  <2> QED
    BY <2>5 DEF DeviceLevels, Pin!Levels
<1>5. CASE Pl
  BY <1>5, SiliconShape DEF Pl, mainVars, LinesLeft
<1>6. CASE UNCHANGED vars
  BY <1>6 DEF vars, mainVars, accessVars, LinesLeft
<1> QED
  BY <1>1, <1>2, <1>3, <1>4, <1>5, <1>6 DEF Next

LEMMA TestsInductive == Spec => [](CpuInv /\ UartInv /\ TestedInv)
  BY InitCpu, CpuNext, UartInit, UartNext, TestedInit, TestedNext, PTL DEF Spec

\* main.c, tests 2, 4 and 5: each test turns its device off, so that during
\* test 6 no answer carries a line of GPIO, UART or watchdog, even though the
\* watchdog may expire again between the two stores that turn it off.
THEOREM TimerLinesLeft == Spec => []OnlyTimerLinesLeft
<1>1. Init => LinesLeft
  BY DEF Init, LinesLeft
<1>2. LinesLeft => OnlyTimerLinesLeft
  BY Places DEF LinesLeft, OnlyTimerLinesLeft
<1> QED
  BY <1>1, <1>2, LinesLeftNext, TestsInductive, PTL DEF Spec

(***************************************************************************)
(* The polls of test 6: a bit of INTR that a load returned is still there  *)
(* when the load is answered.                                              *)
(***************************************************************************)

Low(s) == ~s.read_en /\ ~s.write_en
Strobes(s) == /\ s.read_en = (access.kind = "read")
              /\ s.write_en = (access.kind = "write")
              /\ s.address = access.reg

Looking == access.kind = "read" /\ access.reg = "INTR"

\* The interrupt bits of word w are in INTR.
Lasting(w) == \A m \in {2, 4} : Pin!HasMask(w, m) => Pin!HasMask(regs["INTR"], m)

Raising == pc = "setup" /\ Waits
Strobing == (pc = "setup" /\ Running) \/ (pc = "sample" /\ Waits)
Sampling == pc = "sample" /\ Running
Answering == pc \in {"settle", "respond"}
OffBus == pc \in {"idle", "access"}

BridgeInv ==
  /\ pc \in {"setup", "sample"} => Waits \/ Running
  /\ Raising => Low(sig) /\ Strobes(nxt)
  /\ Strobing => /\ Strobes(sig) /\ Strobes(nxt)
                 /\ Looking => "bus_read" \in runnable \/ Lasting(nxt.data_out)
  /\ Sampling => "bus_write" \notin runnable /\ (Looking => Lasting(sig.data_out))
  /\ Answering \/ OffBus => /\ Low(nxt) /\ "bus_write" \notin runnable
                            /\ Running => Low(sig)
  /\ "bus_write" \in runnable => sig.write_en
  /\ Answering /\ Looking => Lasting(rdata)

\* No interrupt bit of INTR is cleared.
Grows == \A m \in {2, 4} : Pin!HasMask(regs["INTR"], m) => Pin!HasMask(regs'["INTR"], m)

LEMMA OrMaskKeeps ==
  ASSUME NEW w \in Nat, NEW m \in {0, 2, 4}, NEW b \in {2, 4}, Pin!HasMask(w, b)
  PROVE  Pin!HasMask(Pin!OrMask(w, m), b)
<1>1. CASE m = 0 \/ Pin!HasMask(w, m)
  BY <1>1 DEF Pin!OrMask
<1>2. CASE m = 2 /\ b = 4 /\ ~Pin!HasMask(w, m)
  <2>1. (w \div 4) % 2 = 1 /\ (w \div 2) % 2 # 1
    BY <1>2 DEF Pin!HasMask
  <2>2. (w + 2) \div 4 = w \div 4
    BY <2>1
  <2> QED
    BY <1>2, <2>1, <2>2 DEF Pin!OrMask, Pin!HasMask
<1>3. CASE m = 4 /\ b = 2 /\ ~Pin!HasMask(w, m)
  <2>1. (w \div 2) % 2 = 1
    BY <1>3 DEF Pin!HasMask
  <2>2. (w + 4) \div 2 = (w \div 2) + 2
    OBVIOUS
  <2>3. ((w + 4) \div 2) % 2 = 1
    BY <2>1, <2>2
  <2> QED
    BY <1>3, <2>3 DEF Pin!OrMask, Pin!HasMask
<1> QED
  BY <1>1, <1>2, <1>3

LEMMA PostedGrows ==
  ASSUME PlInv, regs'["INTR"] = Pin!Posted
  PROVE  Grows
<1>1. regs["INTR"] \in Nat /\ regs["INTR"] \in Pin!Word
  BY PlAssumption DEF PlInv, PlTypeOK, Pin!Regs, Pin!Word
<1> DEFINE m == IF Pin!Matches THEN Pin!IntrCmp ELSE 0
           n == IF Pin!Overflows THEN Pin!IntrOv ELSE 0
<1>2. m \in {0, 2, 4} /\ n \in {0, 2, 4} /\ m \in {0, Pin!IntrCmp, Pin!IntrOv}
  BY DEF Pin!IntrCmp, Pin!IntrOv
<1>3. regs'["INTR"] = Pin!OrMask(Pin!OrMask(regs["INTR"], m), n)
  BY DEF Pin!Posted
<1> HIDE DEF m, n
<1>4. Pin!OrMask(regs["INTR"], m) \in Nat
  BY <1>1, <1>2, OrMaskType, PlAssumption DEF Pin!Word
<1>5. SUFFICES ASSUME NEW b \in {2, 4}, Pin!HasMask(regs["INTR"], b)
               PROVE  Pin!HasMask(regs'["INTR"], b)
  BY DEF Grows
<1>6. Pin!HasMask(Pin!OrMask(regs["INTR"], m), b)
  BY <1>1, <1>2, <1>5, OrMaskKeeps
<1>7. Pin!HasMask(Pin!OrMask(Pin!OrMask(regs["INTR"], m), n), b)
  BY <1>2, <1>4, <1>6, OrMaskKeeps
<1> QED
  BY <1>3, <1>7

\* A process other than the server thread runs.
LEMMA ProcessBridge ==
  ASSUME PlInv, BridgeInv, NEW p, NEW N \in SUBSET Drivers,
         p \in runnable, p # "server", runnable' = (runnable \ {p}) \cup N,
         UNCHANGED <<sig, pc, access, rdata>>, Waits' = Waits,
         nxt'.read_en = nxt.read_en, nxt'.write_en = nxt.write_en,
         nxt'.address = nxt.address,
         \/ nxt'.data_out = nxt.data_out /\ p # "bus_read"
         \/ nxt'.data_out = IF sig.read_en THEN regs'[sig.address] ELSE nxt.data_out,
         Looking /\ (Strobing \/ Sampling \/ Answering) => Grows
  PROVE  BridgeInv'
<1>1. "server" \notin N /\ "bus_write" \notin N /\ "bus_read" \notin N
  BY DEF Drivers
<1>2. /\ Running' = Running /\ Raising' = Raising /\ Strobing' = Strobing
      /\ Sampling' = Sampling /\ Answering' = Answering /\ OffBus' = OffBus
      /\ Looking' = Looking
      /\ "bus_write" \in runnable' => "bus_write" \in runnable
  BY <1>1 DEF Running, Raising, Strobing, Sampling, Answering, OffBus, Looking
<1>3. /\ Low(sig)' = Low(sig) /\ Low(nxt)' = Low(nxt)
      /\ Strobes(sig)' = Strobes(sig) /\ Strobes(nxt)' = Strobes(nxt)
  BY DEF Low, Strobes
<1>4. Looking /\ (Strobing \/ Sampling \/ Answering) =>
        /\ Lasting(nxt.data_out) /\ nxt'.data_out = nxt.data_out => Lasting(nxt.data_out)'
        /\ Lasting(sig.data_out) => Lasting(sig.data_out)'
        /\ Lasting(rdata) => Lasting(rdata)'
  BY DEF Lasting, Grows
<1>5. Strobing /\ Looking =>
        "bus_read" \in runnable' \/ Lasting(nxt.data_out)'
  <2>1. CASE nxt'.data_out = nxt.data_out /\ p # "bus_read"
    BY <1>4, <2>1 DEF BridgeInv
  <2>2. CASE nxt'.data_out = IF sig.read_en THEN regs'[sig.address] ELSE nxt.data_out
    BY <2>2 DEF BridgeInv, Strobes, Looking, Lasting
  <2> QED
    BY <2>1, <2>2
<1> QED
  BY <1>2, <1>3, <1>4, <1>5 DEF BridgeInv

\* No access of the timer is under way while a device is still to be reset.
LEMMA BusOutOfReset ==
  ASSUME CpuInv, Strobing \/ Sampling \/ Answering
  PROVE  ~InReset
<1>1. pc \in {"setup", "sample", "settle", "respond"}
  BY DEF Strobing, Sampling, Answering
<1>2. handler = 0 /\ step >= 43
  BY <1>1 DEF CpuInv, Control, OnBus
<1> QED
  BY <1>2 DEF CpuInv

\* The processes that leave the timer and its pins alone.
Others == (Timed \cup Methods) \ {"server", "bus_read", "bus_write", "timer_thread", "reset"}

Moves(p, N) ==
  /\ p \in runnable /\ runnable' = (runnable \ {p}) \cup N
  /\ UNCHANGED <<sig, pc, regs, access, rdata>> /\ Waits' = Waits
  /\ nxt'.read_en = nxt.read_en /\ nxt'.write_en = nxt.write_en
  /\ nxt'.address = nxt.address /\ nxt'.data_in = nxt.data_in
  /\ nxt'.data_out = nxt.data_out

LEMMA MovesBridge ==
  ASSUME PlInv, BridgeInv, NEW p \in Others, NEW N \in SUBSET Drivers, Moves(p, N)
  PROVE  BridgeInv'
<1>1. Grows
  BY DEF Moves, Grows
<1> QED
  BY <1>1, ProcessBridge DEF Moves, Others

LEMMA DeviceMoves ==
  ASSUME PlInv, Clock \/ GpioProcess \/ UartProcess \/ WdtProcess \/ SramProcess
  PROVE  \E p \in Others, N \in SUBSET Drivers : Moves(p, N)
<1>1. nxt \in Signals
  BY DEF PlInv, PlTypeOK
<1>2. /\ {} \in SUBSET Drivers /\ {"gpio_drive"} \in SUBSET Drivers
      /\ {"uart_drive"} \in SUBSET Drivers /\ {"wdt_drive"} \in SUBSET Drivers
  BY DEF Drivers
<1> USE DEF Moves, Waits, Others, Timed, Methods, Resets
<1>3. CASE Clock
  <2>1. Moves("clk", {})
    BY <1>3 DEF Clock, Runs, accessVars, plVars, timerVars
  <2> QED
    BY <1>2, <2>1
<1>4. CASE GpioProcess
  <2>1. UNCHANGED <<regs, access, rdata>>
    BY <1>4 DEF GpioProcess, timerVars
  <2>2. Moves("gpio_reset", {}) \/ Moves("gpio_reset", {"gpio_drive"}) \/ Moves("gpio_drive", {})
    BY <1>1, <1>4, <2>1 DEF GpioProcess, Gpio!OnReset, Gpio!DriveIrq, Gpio!Runs,
                            Gpio!WaitEvent, Gpio!accessVars, Signals
  <2> QED
    BY <1>2, <2>2
<1>5. CASE UartProcess
  <2>1. UNCHANGED <<regs, access, rdata>>
    BY <1>5 DEF UartProcess, timerVars
  <2>2. Moves("uart_reset", {}) \/ Moves("uart_reset", {"uart_drive"}) \/ Moves("uart_drive", {})
    BY <1>1, <1>5, <2>1 DEF UartProcess, Uart!OnReset, Uart!DriveIrq, Uart!Runs,
                            Uart!WaitEvent, Uart!accessVars, Signals
  <2> QED
    BY <1>2, <2>2
<1>6. CASE WdtProcess
  <2>1. UNCHANGED <<regs, access, rdata>>
    BY <1>6 DEF WdtProcess, timerVars
  <2>2. \E p \in {"pclk_div", "tick", "wdt_drive", "wdt_reset", "sys_reset", "on_wdt"},
           N \in {{}, {"wdt_drive"}} : Moves(p, N)
    <3> USE DEF Wdt!Runs, Wdt!WaitEvent, Wdt!accessVars
    <3>1. CASE Wdt!PclkDiv
      <4>1. Moves("pclk_div", {})
        BY <1>1, <2>1, <3>1 DEF Wdt!PclkDiv, Signals
      <4> QED
        BY <4>1
    <3>2. CASE Wdt!Tick
      <4>1. Moves("tick", {}) \/ Moves("tick", {"wdt_drive"})
        BY <2>1, <3>2 DEF Wdt!Tick, Wdt!ExpiryNotifies
      <4> QED
        BY <4>1
    <3>3. CASE Wdt!Drive
      <4>1. Moves("wdt_drive", {})
        BY <1>1, <2>1, <3>3 DEF Wdt!Drive, Signals
      <4> QED
        BY <4>1
    <3>4. CASE Wdt!WdtReset
      <4>1. Moves("wdt_reset", {}) \/ Moves("wdt_reset", {"wdt_drive"})
        BY <2>1, <3>4 DEF Wdt!WdtReset
      <4> QED
        BY <4>1
    <3>5. CASE Wdt!SysProcess
      <4>1. Moves("sys_reset", {}) \/ Moves("on_wdt", {})
        BY <2>1, <3>5 DEF Wdt!SysProcess, Wdt!SysReset, Wdt!OnWdt
      <4> QED
        BY <4>1
    <3> QED
      BY <1>6, <3>1, <3>2, <3>3, <3>4, <3>5 DEF WdtProcess
  <2> QED
    BY <1>2, <2>2
<1>7. CASE SramProcess
  <2>1. Moves("sram_reset", {})
    BY <1>7 DEF SramProcess, timerVars, Sram!SramReset, Sram!Runs, Sram!WaitEvent,
                Sram!accessVars
  <2> QED
    BY <1>2, <2>1
<1> QED
  BY <1>3, <1>4, <1>5, <1>6, <1>7

LEMMA ReleaseMoves ==
  ASSUME PlInv, Release \/ PackIrqs, UNCHANGED plVars
  PROVE  \E p \in Others, N \in SUBSET Drivers : Moves(p, N)
<1>1. nxt \in Signals /\ {} \in SUBSET Drivers
  BY DEF PlInv, PlTypeOK
<1>2. UNCHANGED <<regs, access, rdata>>
  BY DEF plVars, timerVars
<1>3. Moves("reset_seq", {}) \/ Moves("pack_irqs", {})
  BY <1>1, <1>2 DEF Release, PackIrqs, Runs, WaitEvent, accessVars, Signals, Moves, Waits
<1> QED
  BY <1>1, <1>3 DEF Others, Timed, Methods

LEMMA IrqOutputMoves ==
  ASSUME PlInv, Pin!IrqOutput
  PROVE  Moves("irq_output", {})
  BY DEF PlInv, PlTypeOK, Signals, Pin!IrqOutput, Pin!Runs, Pin!WaitEvent, Pin!busVars, Moves,
         Waits

LEMMA OtherBridge ==
  ASSUME PlInv, BridgeInv, OtherProcess
  PROVE  BridgeInv'
<1>1. nxt \in Signals /\ {} \in SUBSET Drivers
  BY DEF PlInv, PlTypeOK
<1>2. UNCHANGED <<regs, access, rdata>>
  BY DEF OtherProcess, plVars, timerVars
<1>3. CASE Release \/ PackIrqs
  BY <1>3, ReleaseMoves, MovesBridge DEF OtherProcess
<1>4. CASE Poll
  <2>1. /\ pc = "idle" /\ pc' = "idle" /\ runnable' = runnable \ {"server"}
        /\ UNCHANGED <<sig, nxt>>
    BY <1>4 DEF Poll, Runs, accessVars
  <2>2. /\ OffBus /\ OffBus' /\ ~Answering' /\ ~Raising' /\ ~Strobing' /\ ~Sampling' /\ ~Running'
        /\ Low(nxt)'
    BY <2>1 DEF OffBus, Answering, Raising, Strobing, Sampling, Running, BridgeInv, Low
  <2> QED
    BY <2>1, <2>2 DEF BridgeInv
<1> QED
  BY <1>3, <1>4 DEF OtherProcess

LEMMA TimerBridge ==
  ASSUME CpuInv, BridgeInv, TimerProcess
  PROVE  BridgeInv'
<1>1. PlInv /\ nxt \in Signals /\ sig \in Signals /\ regs \in [Pin!Regs -> Pin!Word]
  BY DEF CpuInv, PlInv, PlTypeOK
<1>2. {} \in SUBSET Drivers /\ {"irq_output"} \in SUBSET Drivers
  BY DEF Drivers
<1> USE DEF TimerProcess, Pin!Runs, Pin!WaitEvent, Pin!busVars, Pin!IrqChanged
<1>3. UNCHANGED <<sig, pc, access, rdata>> /\ Waits' = Waits
  BY DEF Pin!TimerThread, Pin!BusRead, Pin!BusWrite, Pin!Reset, Pin!IrqOutput, Waits
<1>4. CASE Pin!TimerThread
  <2>1. Grows
    <3>1. CASE regs'["INTR"] = Pin!Posted
      BY <1>1, <3>1, PostedGrows
    <3>2. CASE regs' = regs
      BY <3>2 DEF Grows
    <3> QED
      BY <1>1, <1>4, <3>1, <3>2 DEF Pin!TimerThread, Pin!Registers, Pin!Regs
  <2>2. PICK N \in {{}, {"irq_output"}} :
          "timer_thread" \in runnable /\ runnable' = (runnable \ {"timer_thread"}) \cup N
    BY <1>4 DEF Pin!TimerThread
  <2>3. nxt' = nxt
    BY <1>4 DEF Pin!TimerThread
  <2> QED
    BY <1>1, <1>2, <1>3, <2>1, <2>2, <2>3, ProcessBridge
<1>5. CASE Pin!BusRead
  <2>1. /\ "bus_read" \in runnable /\ runnable' = (runnable \ {"bus_read"}) \cup {}
        /\ regs' = regs
        /\ nxt' = [nxt EXCEPT !.data_out = IF sig.read_en THEN Pin!Value(regs, sig.address) ELSE @]
    BY <1>5 DEF Pin!BusRead
  <2>2. /\ nxt'.read_en = nxt.read_en /\ nxt'.write_en = nxt.write_en
        /\ nxt'.address = nxt.address
        /\ nxt'.data_out = IF sig.read_en THEN regs'[sig.address] ELSE nxt.data_out
    BY <1>1, <2>1 DEF Signals, Pin!Value
  <2>3. Grows
    BY <2>1 DEF Grows
  <2> QED
    BY <1>1, <1>2, <1>3, <2>1, <2>2, <2>3, ProcessBridge
<1>6. CASE Pin!BusWrite
  <2>1. PICK N \in {{}, {"irq_output"}} :
          "bus_write" \in runnable /\ runnable' = (runnable \ {"bus_write"}) \cup N
    BY <1>6 DEF Pin!BusWrite
  <2>2. nxt' = nxt
    BY <1>6 DEF Pin!BusWrite
  <2>3. ~(Looking /\ (Strobing \/ Sampling \/ Answering))
    BY <2>1 DEF BridgeInv, Strobes, Looking
  <2> QED
    BY <1>1, <1>2, <1>3, <2>1, <2>2, <2>3, ProcessBridge
<1>7. CASE Pin!Reset
  <2>1. PICK N \in {{}, {"irq_output"}} :
          "reset" \in runnable /\ runnable' = (runnable \ {"reset"}) \cup N
    BY <1>7 DEF Pin!Reset
  <2>2. nxt' = nxt /\ (~sig.reset => regs' = regs)
    BY <1>7 DEF Pin!Reset
  <2>3. Looking /\ (Strobing \/ Sampling \/ Answering) => Grows
    BY <2>1, <2>2, BusOutOfReset DEF InReset, Resets, Grows
  <2> QED
    BY <1>1, <1>2, <1>3, <2>1, <2>2, <2>3, ProcessBridge
<1>8. CASE Pin!IrqOutput
  <2>1. "irq_output" \in Others
    BY DEF Others, Methods, Drivers
  <2> QED
    BY <1>1, <1>2, <1>8, <2>1, IrqOutputMoves, MovesBridge
<1> QED
  BY <1>4, <1>5, <1>6, <1>7, <1>8

LEMMA ServerBridge ==
  ASSUME PlInv, BridgeInv, BridgeStep
  PROVE  BridgeInv'
<1>1. nxt \in Signals
  BY DEF PlInv, PlTypeOK
<1> USE DEF Pin!Runs, Pin!WaitDelta, Pin!WaitTime, Raising, Strobing, Sampling, Answering,
            OffBus, Waits, Running
<1>2. /\ Running /\ ~Waits /\ ~Running' /\ UNCHANGED <<sig, regs, access>>
      /\ "bus_write" \in runnable' <=> "bus_write" \in runnable
      /\ "bus_read" \in runnable' <=> "bus_read" \in runnable
  BY DEF BridgeStep, Pin!Setup, Pin!Sample, Pin!Settle, PlInv, Thread
<1>3. CASE Pin!Setup
  <2>1. pc = "setup" /\ pc' = "sample" /\ nxt' = nxt /\ Waits'
    BY <1>3 DEF Pin!Setup
  <2> QED
    BY <1>2, <2>1 DEF BridgeInv, Strobes, Looking, Lasting
<1>4. CASE Pin!Sample
  <2>1. /\ pc = "sample" /\ pc' = "settle"
        /\ rdata' = IF access.kind = "read" THEN sig.data_out ELSE rdata
        /\ ~nxt'.read_en /\ ~nxt'.write_en
    BY <1>1, <1>4 DEF Pin!Sample, Signals
  <2> QED
    BY <1>2, <2>1 DEF BridgeInv, Low, Looking, Lasting
<1>5. CASE Pin!Settle
  <2>1. pc = "settle" /\ pc' = "respond" /\ UNCHANGED <<nxt, rdata>>
    BY <1>5 DEF Pin!Settle
  <2> QED
    BY <1>2, <2>1 DEF BridgeInv, Low, Looking, Lasting
<1> QED
  BY <1>3, <1>4, <1>5 DEF BridgeStep

LEMMA SchedulerBridge ==
  ASSUME PlInv, BridgeInv, Scheduler
  PROVE  BridgeInv'
<1>1. nxt \in Signals /\ sig \in Signals
  BY DEF PlInv, PlTypeOK
<1>2. runnable = {} /\ UNCHANGED <<nxt, pc, regs, access, rdata>>
  BY DEF Scheduler, Update, Advance, Settled, accessVars, plVars, timerVars
<1> USE DEF Raising, Strobing, Sampling, Answering, OffBus, Waits, Running
<1>3. CASE Update(Woken)
  <2>1. sig' = nxt /\ runnable' = resume \cup Woken /\ resume' = {}
    BY <1>3 DEF Update
  <2>2. resume \subseteq {"pclk_div", "timer_thread", "irq_output", "server"}
    BY DEF PlInv, PlTypeOK
  <2>3. /\ "server" \notin Woken
        /\ "bus_read" \in Woken <=> nxt.read_en /\ ~sig.read_en
        /\ "bus_write" \in Woken <=> nxt.write_en /\ ~sig.write_en
    BY DEF Woken, Gpio!Woken, Uart!Woken, Wdt!Woken, Wdt!SysWoken, Pin!Woken,
           Pin!PackIrqsIfAny, Sram!SramWoken
  <2>4. Running' <=> Waits
    BY <2>1, <2>3
  <2>5. CASE pc = "setup"
    <3>1. Waits
      BY <1>2, <2>5 DEF BridgeInv
    <3>2. Low(sig) /\ Strobes(nxt)
      BY <2>5, <3>1 DEF BridgeInv
    <3>3. Looking => "bus_read" \in runnable'
      BY <1>1, <2>1, <2>3, <3>2 DEF Low, Strobes, Looking
    <3> QED
      BY <1>2, <2>1, <2>2, <2>3, <2>4, <2>5, <3>1, <3>2, <3>3
         DEF BridgeInv, Low, Strobes, Looking
  <2>6. CASE pc = "sample"
    <3>1. Waits
      BY <1>2, <2>6 DEF BridgeInv
    <3>2. Strobes(sig) /\ Strobes(nxt) /\ (Looking => Lasting(nxt.data_out))
      BY <1>2, <2>6, <3>1 DEF BridgeInv
    <3>3. "bus_write" \notin runnable'
      BY <2>1, <2>2, <2>3, <3>2 DEF Strobes
    <3>4. (Looking => Lasting(sig.data_out))'
      BY <1>2, <2>1, <3>2 DEF Looking, Lasting
    <3> QED
      BY <1>2, <2>1, <2>4, <2>6, <3>1, <3>3, <3>4 DEF BridgeInv
  <2>7. CASE Answering \/ OffBus
    <3>1. ~Waits /\ Low(nxt)
      BY <2>7 DEF PlInv, Thread, BridgeInv
    <3>2. "bus_write" \notin runnable' /\ ~Running'
      BY <2>1, <2>2, <2>3, <2>4, <3>1 DEF Low
    <3> QED
      BY <1>2, <2>7, <3>1, <3>2 DEF BridgeInv, Low, Looking, Lasting
  <2> QED
    BY <2>5, <2>6, <2>7 DEF PlInv, PlTypeOK
<1>4. CASE Advance
  <2>1. nxt = sig /\ resume = {} /\ sig' = sig /\ runnable' \subseteq Timed
    BY <1>4 DEF Advance, Settled, PlInv, PlTypeOK
  <2>2. "bus_write" \notin runnable' /\ (Answering \/ OffBus)
    BY <1>2, <2>1 DEF BridgeInv, PlInv, PlTypeOK, Timed
  <2> QED
    BY <1>2, <2>1, <2>2 DEF BridgeInv, Low, Looking, Lasting, Timed
<1> QED
  BY <1>3, <1>4 DEF Scheduler

\* An access of any other device is a call of it.
LEMMA PerformCalls ==
  ASSUME NEW a, a.dev # "timer", Perform(a)
  PROVE  \E time \in {AccessTime, SysTime, SramTime}, N \in SUBSET Drivers : CallFor(time, N)
<1>1. /\ {} \in SUBSET Drivers /\ {"gpio_drive"} \in SUBSET Drivers
      /\ {"uart_drive"} \in SUBSET Drivers /\ {"wdt_drive"} \in SUBSET Drivers
  BY DEF Drivers
<1> USE DEF CallFor, Runs, WaitTime
<1>2. CASE a.dev = "gpio" /\ GpioAccess(a)
  <2>1. CallFor(AccessTime, {}) \/ CallFor(AccessTime, {"gpio_drive"})
    BY <1>2 DEF GpioAccess, Gpio!Read, Gpio!Write, Gpio!Call, Gpio!CallFor, Gpio!Runs,
                Gpio!WaitTime
  <2> QED
    BY <1>1, <2>1
<1>3. CASE a.dev = "uart" /\ UartAccess(a)
  <2>1. CallFor(AccessTime, {}) \/ CallFor(AccessTime, {"uart_drive"})
    BY <1>3 DEF UartAccess, Uart!ReadDR, Uart!ReadStatus, Uart!WriteDR, Uart!WriteCR,
                Uart!WriteIMSC, Uart!WriteICR, Uart!Call, Uart!CallFor, Uart!Runs,
                Uart!WaitTime
  <2> QED
    BY <1>1, <2>1
<1>4. CASE a.dev = "wdt" /\ WdtAccess(a)
  <2>1. CallFor(AccessTime, {}) \/ CallFor(AccessTime, {"wdt_drive"})
    BY <1>4 DEF WdtAccess, Wdt!NoEffect, Wdt!Lock, Wdt!WriteLoad, Wdt!WriteControl,
                Wdt!IntClr, Wdt!Call, Wdt!CallFor, Wdt!Runs, Wdt!WaitTime, Call
  <2> QED
    BY <1>1, <2>1
<1>5. CASE a.dev = "sysctrl" /\ SysAccess(a)
  <2>1. CallFor(SysTime, {})
    BY <1>5 DEF SysAccess, Wdt!ReadSys, Wdt!WriteScratch, Wdt!CallFor, Wdt!Runs, Wdt!WaitTime
  <2> QED
    BY <1>1, <2>1
<1>6. CASE a.dev = "sram" /\ SramAccess(a)
  <2>1. CallFor(SramTime, {})
    BY <1>6 DEF SramAccess, Sram!LoadCell, Sram!StoreCell, Sram!CallFor, Sram!Runs,
                Sram!WaitTime
  <2> QED
    BY <1>1, <2>1
<1> QED
  BY <1>2, <1>3, <1>4, <1>5, <1>6 DEF Perform

LEMMA PerformBridge ==
  ASSUME PlInv, BridgeInv, NEW a, Performable(a), Perform(a)
  PROVE  BridgeInv'
<1> USE DEF Raising, Strobing, Sampling, Answering, OffBus, Waits, Running
<1>1. CASE a.dev # "timer"
  <2>1. PICK time \in {AccessTime, SysTime, SramTime}, N \in SUBSET Drivers : CallFor(time, N)
    BY <1>1, PerformCalls
  <2>2. /\ pc = "idle" /\ pc' = "access" /\ UNCHANGED <<sig, nxt>>
        /\ runnable' = (runnable \ {"server"}) \cup N
    BY <2>1 DEF CallFor, Runs
  <2>3. ~Running' /\ "bus_write" \notin runnable'
    BY <2>2 DEF Drivers, BridgeInv
  <2> QED
    BY <2>2, <2>3 DEF BridgeInv, Low
<1>2. CASE a.dev = "timer"
  <2>1. PICK kind \in {"read", "write"} : Pin!Begin(kind, a.reg, a.word)
    BY <1>2 DEF Perform, TimerAccess
  <2>2. nxt \in Signals
    BY DEF PlInv, PlTypeOK
  <2>3. /\ pc = "idle" /\ Running /\ pc' = "setup" /\ sig' = sig
        /\ runnable' = runnable \ {"server"} /\ Waits'
        /\ access' = [kind |-> kind, reg |-> a.reg, data |-> a.word]
        /\ nxt' = [nxt EXCEPT !.address = a.reg, !.data_in = a.word,
                              !.read_en = kind = "read", !.write_en = kind = "write"]
    BY <2>1 DEF Pin!Begin, Pin!Runs, Pin!WaitDelta
  <2>4. Strobes(nxt)'
    BY <2>2, <2>3 DEF Strobes, Signals
  <2>5. Low(sig)' /\ "bus_write" \notin runnable'
    BY <2>3 DEF BridgeInv, Low
  <2> QED
    BY <2>3, <2>4, <2>5 DEF BridgeInv
<1> QED
  BY <1>1, <1>2

LEMMA BridgeNext == CpuInv /\ BridgeInv /\ [Next]_vars => BridgeInv'
<1> SUFFICES ASSUME CpuInv, BridgeInv, [Next]_vars PROVE BridgeInv'
  OBVIOUS
<1>1. PlInv
  BY DEF CpuInv
<1>2. CASE Main
  <2>1. Performable(Current) /\ Perform(Current)
    BY <1>2, CurrentIs DEF CpuInv, Main
  <2> QED
    BY <1>1, <2>1, PerformBridge
<1>3. CASE Handler
  <2>1. PICK a \in {Load("uart", "DR", "none", 0), Store("uart", "ICR", {"RX"})} : UartAccess(a)
    BY <1>3 DEF Handler
  <2>2. Perform(a) /\ Performable(a)
    BY <2>1 DEF Load, Store, Perform, Performable
  <2> QED
    BY <1>1, <2>2, PerformBridge
<1>4. CASE Answered
  <2>1. /\ pc \in {"access", "respond"} /\ pc' = "idle" /\ Running
        /\ UNCHANGED <<runnable, sig, nxt>>
    BY <1>4 DEF Answered, Answer, Respond, Runs, Pin!Respond, Pin!Runs, Running
  <2> QED
    BY <2>1 DEF BridgeInv, Raising, Strobing, Sampling, Answering, OffBus, Running, Low
<1>5. CASE Pl
  BY <1>1, <1>5, DeviceMoves, MovesBridge, TimerBridge, ServerBridge, OtherBridge,
     SchedulerBridge DEF Pl, Silicon
<1>6. CASE TakeIrq \/ UNCHANGED vars
  <2>1. UNCHANGED <<runnable, resume, sig, nxt, pc, regs, access, rdata>>
    BY <1>6 DEF TakeIrq, vars, kernelVars, accessVars, plVars, timerVars
  <2> QED
    BY <2>1 DEF BridgeInv, Raising, Strobing, Sampling, Answering, OffBus, Running, Waits,
                Low, Strobes, Looking, Lasting
<1> QED
  BY <1>2, <1>3, <1>4, <1>5, <1>6 DEF Next

LEMMA BridgeInit == Init => BridgeInv
<1> SUFFICES ASSUME Init PROVE BridgeInv
  OBVIOUS
<1>1. /\ pc = "idle" /\ "bus_write" \notin runnable
      /\ sig = [reset |-> TRUE, pclk |-> FALSE, read_en |-> FALSE, write_en |-> FALSE,
                address |-> "CTRL", data_in |-> 0, data_out |-> 0,
                intr1 |-> FALSE, intr2 |-> FALSE, uart_irq |-> FALSE,
                gpio_irq |-> FALSE, wdt_irq |-> FALSE, rst_req |-> FALSE,
                irq_bits |-> {}]
      /\ nxt = sig
  BY DEF Init, PlInit, AccessInit
<1> QED
  BY <1>1 DEF BridgeInv, Raising, Strobing, Sampling, Answering, OffBus, Low

(***************************************************************************)
(* What the NVIC has seen.                                                 *)
(***************************************************************************)

SeenInv ==
  /\ seen \subseteq Lines
  /\ pending \/ uart_irqs # 0 => "uart_irq" \in seen
  /\ verdict # "fail" => /\ step > 19 => "gpio_irq" \in seen
                         /\ step > 34 => "uart_irq" \in seen
                         /\ step > 39 => "wdt_irq" \in seen
                         /\ step > 49 => "intr1" \in seen
                         /\ step > 53 => "intr2" \in seen

TestsInv == CpuInv /\ UartInv /\ TestedInv /\ BridgeInv

\* A test that goes on past its check leaves its line in the answer.
LEMMA LineShown ==
  ASSUME TestsInv, Answered, handler = 0, step' = step + 1, verdict' # "fail"
  PROVE  /\ step = 19 => "gpio_irq" \in irqs'
         /\ step = 34 => uart_irqs # 0
         /\ step = 39 => "wdt_irq" \in irqs'
         /\ step = 49 => "intr1" \in irqs'
         /\ step = 53 => "intr2" \in irqs'
<1>1. /\ pc \in {"access", "respond"} /\ irqs' = DeviceLevels /\ Made = step
      /\ step \in 1 .. 56
  BY AnswerStep, AnswerShows DEF TestsInv, CpuInv, Control, Answered, Made
<1>2. /\ Accepts(Program[step], Returned)
      /\ Program[step].check = "until" => Bits(Program[step], Returned)
  BY ToMain, <1>1
<1>3. step < 43 => pc = "access" /\ Returned = word
  BY <1>1 DEF TestsInv, CpuInv, Control, OnBus, Returned
<1>4. ASSUME step = 19 PROVE "gpio_irq" \in irqs'
  <2>1. Program[19].check = "bit" /\ Program[19].dev = "gpio" /\ Program[19].word = 1
    BY GpioProgram DEF HasBit, Load
  <2>2. Bits(Program[19], word)
    BY <1>2, <1>3, <1>4, <2>1, Places DEF Accepts
  <2>3. 1 \in intstat \cap inten
    BY <1>1, <1>4, <2>1, <2>2 DEF Bits, TestsInv, TestedInv, GpioTested
  <2> QED
    BY <1>1, <2>3 DEF DeviceLevels
<1>5. ASSUME step = 34 PROVE uart_irqs # 0
  <2>1. Program[34].check = "none" /\ MaskRx = 34
    BY UartProgram, Places DEF Store
  <2>2. Second # 34
    BY Places
  <2> QED
    BY <1>2, <1>5, <2>1, <2>2 DEF Accepts
<1>6. ASSUME step = 39 PROVE "wdt_irq" \in irqs'
  <2>1. Program[39].check = "until" /\ Program[39].dev = "wdt" /\ Program[39].word = "RIS"
    BY WdtProgram DEF Until, Load
  <2>2. "RIS" \in word
    BY <1>2, <1>3, <1>6, <2>1 DEF Bits
  <2>3. wdt_ris /\ "INTEN" \in ctrl
    BY <1>1, <1>6, <2>2 DEF TestsInv, TestedInv, WdtTested
  <2> QED
    BY <1>1, <2>3 DEF DeviceLevels
<1>7. ASSUME step \in {49, 53} PROVE Returned = rdata /\ Lasting(rdata)
  <2>1. Program[step].kind = "load" /\ Program[step].reg = "INTR"
    BY <1>7, Polls DEF Until, Load
  <2>2. pc = "respond" /\ access.kind = "read" /\ access.reg = "INTR"
    BY <1>1, <1>7, <2>1 DEF TestsInv, CpuInv, Control, OnBus
  <2> QED
    BY <2>2 DEF Returned, TestsInv, BridgeInv, Answering, Looking
<1>8. ASSUME step = 49 PROVE "intr1" \in irqs'
  <2>1. Program[49].check = "until" /\ Program[49].dev = "timer" /\ Program[49].word = 2
    BY Polls DEF Until, Load, Pin!IntrCmp
  <2>2. Pin!HasMask(regs["INTR"], Pin!IntrCmp)
    BY <1>2, <1>7, <1>8, <2>1 DEF Bits, Lasting, Pin!IntrCmp
  <2> QED
    BY <1>1, <2>2 DEF DeviceLevels, Pin!Levels
<1>9. ASSUME step = 53 PROVE "intr2" \in irqs'
  <2>1. Program[53].check = "until" /\ Program[53].dev = "timer" /\ Program[53].word = 4
    BY Polls DEF Until, Load, Pin!IntrOv
  <2>2. Pin!HasMask(regs["INTR"], Pin!IntrOv)
    BY <1>2, <1>7, <1>9, <2>1 DEF Bits, Lasting, Pin!IntrOv
  <2> QED
    BY <1>1, <2>2 DEF DeviceLevels, Pin!Levels
<1> QED
  BY <1>4, <1>5, <1>6, <1>8, <1>9

LEMMA SeenAnswered ==
  ASSUME TestsInv, SeenInv, Answered
  PROVE  SeenInv'
<1>1. /\ seen' = seen \cup irqs' /\ uart_irqs' = uart_irqs
      /\ pending' => pending \/ "uart_irq" \in irqs'
  BY DEF Answered
<1>2. irqs' \subseteq Lines
  <2>1. irqs' = sig.irq_bits
    BY AnswerStep DEF Answered, TestsInv, CpuInv
  <2> QED
    BY <2>1 DEF TestsInv, CpuInv, PlInv, PlTypeOK, Signals
<1>3. CASE handler # 0
  BY <1>1, <1>2, <1>3, ToHandler DEF SeenInv
<1>4. CASE handler = 0
  <2>1. verdict = "running" /\ step \in 1 .. 56
    BY <1>4, AnswerStep DEF Answered, TestsInv, CpuInv, Control
  <2>2. step' = step \/ step' = step + 1
    BY <1>4, ToMain
  <2>3. CASE step' = step
    BY <1>1, <1>2, <2>1, <2>3 DEF SeenInv
  <2>4. CASE step' = step + 1
    <3>1. ASSUME verdict' # "fail"
          PROVE  /\ step > 18 => "gpio_irq" \in seen'
                 /\ step > 33 => "uart_irq" \in seen'
                 /\ step > 38 => "wdt_irq" \in seen'
                 /\ step > 48 => "intr1" \in seen'
                 /\ step > 52 => "intr2" \in seen'
      <4>1. /\ step = 19 => "gpio_irq" \in irqs'
            /\ step = 34 => uart_irqs # 0
            /\ step = 39 => "wdt_irq" \in irqs'
            /\ step = 49 => "intr1" \in irqs'
            /\ step = 53 => "intr2" \in irqs'
        BY <1>4, <2>4, <3>1, LineShown
      <4>2. /\ step > 19 => "gpio_irq" \in seen
            /\ step > 34 => "uart_irq" \in seen
            /\ step > 39 => "wdt_irq" \in seen
            /\ step > 49 => "intr1" \in seen
            /\ step > 53 => "intr2" \in seen
            /\ uart_irqs # 0 => "uart_irq" \in seen
        BY <2>1 DEF SeenInv
      <4> QED
        BY <1>1, <2>1, <4>1, <4>2
    <3> QED
      BY <1>1, <1>2, <2>1, <2>4, <3>1 DEF SeenInv
  <2> QED
    BY <2>2, <2>3, <2>4
<1> QED
  BY <1>3, <1>4

LEMMA SeenNext == TestsInv /\ SeenInv /\ [Next]_vars => SeenInv'
<1> SUFFICES ASSUME TestsInv, SeenInv, [Next]_vars PROVE SeenInv'
  OBVIOUS
<1>1. CASE Main \/ Handler \/ Pl \/ UNCHANGED vars
  <2>1. UNCHANGED <<seen, pending, uart_irqs, verdict, step>>
    BY <1>1 DEF Main, Handler, Pl, vars, mainVars
  <2> QED
    BY <2>1 DEF SeenInv
<1>2. CASE TakeIrq
  <2>1. pending /\ ~pending' /\ UNCHANGED <<seen, verdict, step>>
    BY <1>2 DEF TakeIrq, Taken
  <2> QED
    BY <2>1 DEF SeenInv
<1> QED
  BY <1>1, <1>2, SeenAnswered DEF Next

\* main.c and systemc_soc.c: a run of the firmware that passes has shown the
\* NVIC each of the five lines, although it sees them only with the answers to
\* accesses.
THEOREM EveryLineSeen == Spec => []EveryLineReachesNvic
<1>1. Init => TestsInv /\ SeenInv
  BY InitCpu, UartInit, TestedInit, BridgeInit DEF TestsInv, SeenInv, Init
<1>2. TestsInv /\ SeenInv /\ [Next]_vars => (TestsInv /\ SeenInv)'
  BY CpuNext, UartNext, TestedNext, BridgeNext, SeenNext DEF TestsInv
<1>3. TestsInv /\ SeenInv => EveryLineReachesNvic
  <2> SUFFICES ASSUME TestsInv, SeenInv, verdict = "pass" PROVE seen = Lines
    BY DEF EveryLineReachesNvic
  <2>1. step = 57
    BY DEF TestsInv, CpuInv, Control
  <2>2. {"intr1", "intr2", "uart_irq", "gpio_irq", "wdt_irq"} \subseteq seen
    BY <2>1 DEF SeenInv
  <2> QED
    BY <2>2 DEF SeenInv, Lines
<1> QED
  BY <1>1, <1>2, <1>3, PTL DEF Spec

(***************************************************************************)
(* What main() checks.  Each part says of one device what the tests have   *)
(* left in it by the access that is checked.                               *)
(***************************************************************************)

SysStored == Made >= 2 => scratch = 1

SramStored ==
  /\ DOMAIN mem = Cells
  /\ Made >= 6 => mem[0] = 1
  /\ Made >= 7 => mem[4] = 2
  /\ Made >= 8 => mem[4092] = 3

PinRaised ==
  /\ Made <= 16 => out = {}
  /\ Made >= 17 => out = {1}
  /\ Made >= 13 => dir = Pins
  /\ Made >= 14 => intpol = Pins
  /\ Made \in 17 .. 19 => 1 \in intstat

Looped ==
  /\ Made >= 24 => cr = {"RXE", "LBE"}
  /\ Made = 25 => Len(rx) = 1 /\ rx[1] = "S"
  /\ Made \in {26, 27} => Len(rx) = 2 /\ rx[1] = "S" /\ rx[2] = "C"
  /\ Made = 28 => Len(rx) = 1 /\ rx[1] = "C"
  /\ Made = 31 => imsc = {"RX"}
  /\ Made = 32 /\ step = 32 => rx # <<>> /\ "RX" \in uart_ris /\ imsc = {"RX"}

\* The interrupt of the character that main() has sent is not lost.
Announced ==
  /\ step > 32 => pending \/ uart_irqs = 1
  /\ step = 34 /\ pc # "idle" => uart_irqs = 1

\* The word that a device has returned is the one that main() expects.
Passing == pc = "access" /\ handler = 0 => Accepts(Program[step], word)

PassInv == SysStored /\ SramStored /\ PinRaised /\ Looped /\ Announced /\ Passing

LEMMA FirstProgram ==
  /\ Program[1] = Equal("sysctrl", "MAGIC", "MAGIC")
  /\ Program[2] = Store("sysctrl", "SCRATCH", 1)
  /\ Program[3] = Equal("sysctrl", "SCRATCH", 1)
  /\ Program[4] = Equal("sysctrl", "SYS_HZ", "SYS_HZ")
  /\ Program[5] = Equal("sysctrl", "PCLK_HZ", "PCLK_HZ")
  /\ Program[6] = Store("sram", 0, 1) /\ Program[7] = Store("sram", 4, 2)
  /\ Program[8] = Store("sram", 4092, 3)
  /\ Program[9] = Equal("sram", 0, 1) /\ Program[10] = Equal("sram", 4, 2)
  /\ Program[11] = Equal("sram", 4092, 3)
<1>1. /\ Program[1] = Equal("sysctrl", "MAGIC", "MAGIC")
      /\ Program[2] = Store("sysctrl", "SCRATCH", 1)
      /\ Program[3] = Equal("sysctrl", "SCRATCH", 1)
      /\ Program[4] = Equal("sysctrl", "SYS_HZ", "SYS_HZ")
      /\ Program[5] = Equal("sysctrl", "PCLK_HZ", "PCLK_HZ")
  BY ProgramAt DEF Test0
<1>2. /\ Program[6] = Store("sram", 0, 1) /\ Program[7] = Store("sram", 4, 2)
      /\ Program[8] = Store("sram", 4092, 3)
      /\ Program[9] = Equal("sram", 0, 1) /\ Program[10] = Equal("sram", 4, 2)
      /\ Program[11] = Equal("sram", 4092, 3)
  BY ProgramAt DEF Test1
<1> QED
  BY <1>1, <1>2

\* The system controller and the SRAM keep what they hold out of reset.
LEMMA SiliconStores ==
  ASSUME Silicon
  PROVE  /\ scratch' = scratch \/ InReset
         /\ mem' = mem \/ (InReset /\ mem' = [c \in Cells |-> 0])
<1> USE DEF plVars, sysVars
<1>1. CASE Clock \/ TimerProcess \/ BridgeStep \/ OtherProcess \/ Scheduler \/ GpioProcess
           \/ UartProcess
  BY <1>1 DEF Clock, TimerProcess, BridgeStep, OtherProcess, Scheduler, GpioProcess,
              UartProcess
<1>2. CASE SramProcess
  BY <1>2 DEF SramProcess, Sram!SramReset, Sram!Runs, InReset, Resets
<1>3. CASE WdtProcess
  <2>1. CASE Wdt!SysProcess
    BY <1>3, <2>1 DEF WdtProcess, Wdt!SysProcess, Wdt!SysReset, Wdt!OnWdt, Wdt!Runs, InReset,
                      Resets
  <2>2. CASE Wdt!PclkDiv \/ Wdt!Tick \/ Wdt!Drive \/ Wdt!WdtReset
    BY <1>3, <2>2 DEF WdtProcess, Wdt!PclkDiv, Wdt!Tick, Wdt!Drive, Wdt!WdtReset, Wdt!sysVars,
                      Wdt!deviceVars
  <2> QED
    BY <1>3, <2>1, <2>2 DEF WdtProcess
<1> QED
  BY <1>1, <1>2, <1>3 DEF Silicon

\* What the access of main() under way does to the two.
LEMMA FirstAccesses ==
  ASSUME CpuInv, Main
  PROVE  /\ step # 2 => scratch' = scratch
         /\ step = 2 => scratch' = 1
         /\ step \notin 6 .. 8 => mem' = mem
         /\ step = 6 => mem' = [mem EXCEPT ![0] = 1]
         /\ step = 7 => mem' = [mem EXCEPT ![4] = 2]
         /\ step = 8 => mem' = [mem EXCEPT ![4092] = 3]
<1>1. step \in 1 .. 56 /\ Perform(Current)
  BY CurrentIs DEF CpuInv, Main
<1>2. CASE step \notin 1 .. 11
  <2>1. Current.dev \notin {"sysctrl", "sram"}
    BY <1>1, <1>2, CurrentIs, Devices DEF CpuInv, Main
  <2>2. UNCHANGED mem /\ (UNCHANGED sysVars \/ WdtAccess(Current))
    BY <1>1, <2>1 DEF Perform, GpioAccess, UartAccess, WdtAccess, TimerAccess
  <2>3. WdtAccess(Current) => UNCHANGED scratch
    BY DEF WdtAccess, Wdt!NoEffect, Wdt!Lock, Wdt!WriteLoad, Wdt!WriteControl, Wdt!IntClr,
           Wdt!sysVars
  <2> QED
    BY <1>2, <2>2, <2>3 DEF sysVars
<1>3. CASE step \in 1 .. 5
  <2>1. Current = Program[step] /\ Program[step].dev = "sysctrl"
    BY <1>3, CurrentIs, Devices DEF CpuInv, Main
  <2>2. SysAccess(Program[step])
    BY <1>1, <2>1 DEF Perform
  <2> USE DEF SysAccess, Store, Equal, Load
  <2>3. step # 2 => scratch' = scratch
    BY <1>3, <2>2, FirstProgram DEF Wdt!ReadSys, Wdt!sysVars
  <2>4. step = 2 => scratch' = 1
    BY <2>2, FirstProgram DEF Wdt!WriteScratch
  <2> QED
    BY <1>3, <2>2, <2>3, <2>4
<1>4. CASE step \in 6 .. 11
  <2>1. Current = Program[step] /\ Program[step].dev = "sram"
    BY <1>4, CurrentIs, Devices DEF CpuInv, Main
  <2>2. SramAccess(Program[step])
    BY <1>1, <2>1 DEF Perform
  <2> USE DEF SramAccess, Store, Equal, Load
  <2>3. scratch' = scratch
    BY <2>2 DEF sysVars
  <2>4. step \in 9 .. 11 => mem' = mem
    BY <2>2, FirstProgram DEF Sram!LoadCell
  <2>5. /\ step = 6 => mem' = [mem EXCEPT ![0] = 1]
        /\ step = 7 => mem' = [mem EXCEPT ![4] = 2]
        /\ step = 8 => mem' = [mem EXCEPT ![4092] = 3]
    BY <2>2, FirstProgram DEF Sram!StoreCell
  <2> QED
    BY <1>4, <2>3, <2>4, <2>5
<1> QED
  BY <1>1, <1>2, <1>3, <1>4

LEMMA FirstMain ==
  ASSUME CpuInv, SysStored, SramStored, Main
  PROVE  SysStored' /\ SramStored'
<1>1. Made = step - 1 /\ Made' = step /\ step \in 1 .. 56
  BY MadeStep
<1>2. {0, 4, 4092} \subseteq Cells
  BY FirmwareAssumption
<1>3. SysStored'
  BY <1>1, FirstAccesses DEF SysStored
<1>4. CASE step \notin 6 .. 8
  <2>1. mem' = mem
    BY <1>4, FirstAccesses
  <2> QED
    BY <1>1, <1>3, <1>4, <2>1 DEF SramStored
<1>5. CASE step = 6
  <2>1. mem' = [mem EXCEPT ![0] = 1]
    BY <1>5, FirstAccesses
  <2> QED
    BY <1>1, <1>2, <1>3, <1>5, <2>1 DEF SramStored
<1>6. CASE step = 7
  <2>1. mem' = [mem EXCEPT ![4] = 2]
    BY <1>6, FirstAccesses
  <2> QED
    BY <1>1, <1>2, <1>3, <1>6, <2>1 DEF SramStored
<1>7. CASE step = 8
  <2>1. mem' = [mem EXCEPT ![4092] = 3]
    BY <1>7, FirstAccesses
  <2> QED
    BY <1>1, <1>2, <1>3, <1>7, <2>1 DEF SramStored
<1> QED
  BY <1>1, <1>4, <1>5, <1>6, <1>7

\* A store to SET raises a pin, and with it the interrupt of its edge.
LEMMA SetEffect ==
  ASSUME Gpio!Write("SET", {1}), 1 \in inten, 1 \in dir, 1 \in intpol, 1 \notin out
  PROVE  1 \in intstat'
<1>1. /\ UNCHANGED <<inten, inttype, intpol, dir>> /\ out' = out \cup {1}
      /\ Gpio!NoteEdges({})
  BY DEF Gpio!Write, Gpio!Store
<1>2. Gpio!Triggered(1)
  BY <1>1 DEF Gpio!Triggered, Gpio!High
<1> QED
  BY <1>1, <1>2 DEF Gpio!NoteEdges

LEMMA PinMain ==
  ASSUME CpuInv, GpioTested, PinRaised, Main
  PROVE  PinRaised'
<1>1. Made = step - 1 /\ Made' = step /\ step \in 1 .. 56
  BY MadeStep
<1>2. 1 \in Pins
  BY FirmwareAssumption
<1>3. CASE step \notin 13 .. 20 \/ step \in {18, 19}
  <2>1. UNCHANGED <<dir, out, inten, inttype, intpol, intstat>>
    BY <1>3, GpioAccesses
  <2> QED
    BY <1>1, <1>3, <2>1 DEF PinRaised
<1>4. CASE step \in {13, 14, 15, 16}
  <2>1. PICK r \in {"DIR", "INTPOL", "INTTYPE", "INTEN"}, v \in {Pins, {1}} :
          /\ Gpio!Write(r, v)
          /\ step = 13 => r = "DIR" /\ v = Pins
          /\ step = 14 => r = "INTPOL" /\ v = Pins
          /\ step \in {15, 16} => r \in {"INTTYPE", "INTEN"}
    BY <1>4, GpioAccesses
  <2>2. /\ out' = out /\ dir' = (IF r = "DIR" THEN v ELSE dir)
        /\ intpol' = (IF r = "INTPOL" THEN v ELSE intpol)
    BY <2>1, GpioWriteEffect
  <2> QED
    BY <1>1, <1>4, <2>1, <2>2 DEF PinRaised
<1>5. CASE step = 17
  <2>1. inten = {1} /\ dir = Pins /\ intpol = Pins /\ out = {}
    BY <1>1, <1>5 DEF GpioTested, PinRaised
  <2>2. Gpio!Write("SET", {1})
    BY <1>5, GpioAccesses
  <2>3. 1 \in intstat'
    BY <1>2, <2>1, <2>2, SetEffect
  <2>4. dir' = dir /\ intpol' = intpol /\ out' = {1}
    BY <2>1, <2>2, GpioWriteEffect
  <2> QED
    BY <1>1, <1>5, <2>1, <2>3, <2>4 DEF PinRaised
<1>6. CASE step = 20
  <2>1. UNCHANGED <<dir, out, intpol>>
    BY <1>6, GpioAccesses, GpioWriteEffect
  <2> QED
    BY <1>1, <1>6, <2>1 DEF PinRaised
<1> QED
  BY <1>1, <1>3, <1>4, <1>5, <1>6

LEMMA LoopAccesses ==
  ASSUME CpuInv, Main
  PROVE  /\ step # 24 => cr' = cr
         /\ step = 24 => cr' = {"RXE", "LBE"}
         /\ step = 25 => Uart!WriteDR("S")
         /\ step = 26 => Uart!WriteDR("C")
         /\ step = 32 => Uart!WriteDR("I")
<1>1. step \in 1 .. 56 /\ Perform(Current)
  BY CurrentIs DEF CpuInv, Main
<1>2. CASE step \notin 21 .. 34
  <2>1. Current.dev # "uart"
    BY <1>2, CurrentIs, Devices DEF CpuInv, Main
  <2>2. UNCHANGED uartVars
    BY <1>1, <2>1 DEF Perform, GpioAccess, WdtAccess, SysAccess, SramAccess, TimerAccess
  <2> QED
    BY <1>2, <2>2 DEF uartVars
<1>3. CASE step \in 21 .. 34
  <2>1. UartAccess(Program[step])
    <3>1. Current = Program[step] /\ Program[step].dev = "uart"
      BY <1>3, CurrentIs, Devices DEF CpuInv, Main
    <3> QED
      BY <1>1, <3>1 DEF Perform
  <2>2. step # 24 => cr' = cr
    <3>1. step # 24 => ~(Program[step].kind = "store" /\ Program[step].reg = "CR")
      BY <1>3, UartProgram DEF Store, NoBit, Equal, Look, Load
    <3> QED
      BY <2>1, <3>1 DEF UartAccess, Uart!ReadDR, Uart!ReadStatus, Uart!WriteDR,
                        Uart!WriteIMSC, Uart!WriteICR, Uart!uartVars
  <2>3. step = 24 => cr' = {"RXE", "LBE"}
    BY <2>1, UartProgram DEF UartAccess, Store, Uart!WriteCR
  <2>4. /\ step = 25 => Uart!WriteDR("S")
        /\ step = 26 => Uart!WriteDR("C")
        /\ step = 32 => Uart!WriteDR("I")
    BY <2>1, UartProgram DEF UartAccess, Store
  <2> QED
    BY <1>3, <2>2, <2>3, <2>4
<1> QED
  BY <1>2, <1>3

\* A character sent in loopback is received while there is room for it.
LEMMA Echo ==
  ASSUME Received, cr = {"RXE", "LBE"}, Len(rx) < 2, NEW ch, Uart!WriteDR(ch)
  PROVE  rx' = Append(rx, ch) /\ "RX" \in uart_ris' /\ imsc' = imsc
<1>1. Len(rx) \in Nat
  BY DEF Received
<1>2. Uart!Room /\ {"LBE", "RXE"} \subseteq cr
  BY <1>1, FirmwareAssumption DEF Uart!Room
<1> QED
  BY <1>2 DEF Uart!WriteDR, Uart!Interrupts

LEMMA AppendedAt ==
  ASSUME NEW T, NEW s \in Seq(T), NEW e \in T
  PROVE  /\ Len(Append(s, e)) = Len(s) + 1 /\ Append(s, e)[Len(s) + 1] = e
         /\ \A i \in 1 .. Len(s) : Append(s, e)[i] = s[i]
  OBVIOUS

LEMMA TailAt ==
  ASSUME NEW T, NEW s \in Seq(T), s # <<>>
  PROVE  /\ Len(Tail(s)) = Len(s) - 1
         /\ \A i \in 1 .. (Len(s) - 1) : Tail(s)[i] = s[i + 1]
  OBVIOUS

LEMMA LoopedMain ==
  ASSUME CpuInv, UartInv, Looped, Main
  PROVE  Looped'
<1>1. Made = step - 1 /\ Made' = step /\ step \in 1 .. 56 /\ step' = step
  BY MadeStep
<1>2. cr' = IF step = 24 THEN {"RXE", "LBE"} ELSE cr
  BY LoopAccesses
<1>3. rx \in Seq(Characters) /\ Len(rx) <= Waiting(step - 1) /\ Received
  BY <1>1 DEF UartInv, Received
<1>4. step >= 24 => cr' = {"RXE", "LBE"}
  BY <1>1, <1>2 DEF Looped
<1>5. CASE step \notin {25, 26, 27, 28, 31, 32}
  BY <1>1, <1>4, <1>5 DEF Looped
<1>6. CASE step = 25
  <2>1. Len(rx) = 0
    BY <1>3, <1>6 DEF Waiting
  <2>2. rx' = Append(rx, "S")
    BY <1>1, <1>3, <1>4, <1>6, <2>1, Echo, LoopAccesses DEF Looped
  <2>3. Len(rx') = 1 /\ rx'[1] = "S"
    BY <1>3, <2>1, <2>2
  <2> QED
    BY <1>1, <1>4, <1>6, <2>3 DEF Looped
<1>7. CASE step = 26
  <2>1. Len(rx) = 1 /\ rx[1] = "S"
    BY <1>1, <1>7 DEF Looped
  <2>2. rx' = Append(rx, "C")
    BY <1>1, <1>3, <1>7, <2>1, Echo, LoopAccesses DEF Looped
  <2>3. Len(rx') = 2 /\ rx'[1] = "S" /\ rx'[2] = "C"
    <3>1. /\ Len(rx') = Len(rx) + 1 /\ rx'[Len(rx) + 1] = "C"
          /\ \A i \in 1 .. Len(rx) : rx'[i] = rx[i]
      <4>1. "C" \in Characters /\ rx \in Seq(Characters)
        BY <1>3 DEF Characters
      <4> QED
        BY <2>2, <4>1, AppendedAt, Zenon
    <3>2. 1 \in 1 .. Len(rx)
      BY <2>1
    <3> QED
      BY <2>1, <3>1, <3>2
  <2> QED
    BY <1>1, <1>4, <1>7, <2>3 DEF Looped
<1>8. CASE step = 27
  <2>1. rx' = rx
    BY <1>8, UartAccesses
  <2> QED
    BY <1>1, <1>4, <1>8, <2>1 DEF Looped
<1>9. CASE step = 28
  <2>1. Len(rx) = 2 /\ rx[2] = "C"
    BY <1>1, <1>9 DEF Looped
  <2>2. rx' = Tail(rx)
    BY <1>9, <2>1, UartAccesses DEF Uart!ReadDR
  <2>3. Len(rx') = 1 /\ rx'[1] = "C"
    <3>1. rx # <<>> /\ 1 \in 1 .. (Len(rx) - 1)
      BY <2>1
    <3>2. Len(rx') = Len(rx) - 1 /\ \A i \in 1 .. (Len(rx) - 1) : rx'[i] = rx[i + 1]
      BY <1>3, <2>2, <3>1, TailAt, Zenon
    <3>3. rx'[1] = rx[1 + 1]
      BY <3>1, <3>2
    <3> QED
      BY <2>1, <3>2, <3>3
  <2> QED
    BY <1>1, <1>4, <1>9, <2>3 DEF Looped
<1>10. CASE step = 31
  <2>1. imsc' = {"RX"}
    BY <1>10, UartAccesses DEF Uart!WriteIMSC
  <2> QED
    BY <1>1, <1>4, <1>10, <2>1 DEF Looped
<1>11. CASE step = 32
  <2>1. Len(rx) = 0 /\ imsc = {"RX"} /\ cr = {"RXE", "LBE"}
    BY <1>1, <1>3, <1>11 DEF Waiting, Looped
  <2>2. rx' = Append(rx, "I") /\ "RX" \in uart_ris' /\ imsc' = imsc
    BY <1>3, <1>11, <2>1, Echo, LoopAccesses
  <2>3. rx' # <<>>
    BY <1>3, <2>2
  <2> QED
    BY <1>1, <1>4, <1>11, <2>1, <2>2, <2>3 DEF Looped
<1> QED
  BY <1>1, <1>5, <1>6, <1>7, <1>8, <1>9, <1>10, <1>11

LEMMA AnnouncedMain ==
  ASSUME CpuInv, Announced, Main
  PROVE  Announced'
<1>1. UNCHANGED <<step, pending, uart_irqs>> /\ handler = 0 /\ ~(step = MaskRx /\ Taken)
  BY DEF Main
<1>2. step = 34 => ~pending
  BY <1>1, Places DEF Taken
<1> QED
  BY <1>1, <1>2 DEF Announced

LEMMA AnnouncedElse ==
  ASSUME CpuInv, UartInv, Looped, Announced, TakeIrq \/ Handler \/ Answered \/ Pl
  PROVE  Announced'
<1>1. CASE TakeIrq
  BY <1>1 DEF TakeIrq, Taken, accessVars, UartInv, Interrupt, Announced
<1>2. CASE Handler
  BY <1>2 DEF Handler, mainVars, UartInv, Interrupt, Announced
<1>3. CASE Pl
  BY <1>3, SiliconShape DEF Pl, mainVars, Announced
<1>4. CASE Answered
  <2>1. /\ pc # "idle" /\ pc' = "idle" /\ uart_irqs' = uart_irqs
        /\ pending => pending'
        /\ "uart_irq" \in irqs' /\ handler' = 0 => pending'
    BY <1>4, AnswerStep DEF Answered, CpuInv
  <2>2. CASE handler # 0
    BY <1>4, <2>1, <2>2, ToHandler DEF UartInv, Interrupt, Announced
  <2>3. CASE handler = 0
    <3>1. handler' = 0 /\ (step' = step \/ step' = step + 1) /\ step \in 1 .. 56
      BY <1>4, <2>1, <2>3, ToMain DEF CpuInv, Control
    <3>2. step = 32 => "uart_irq" \in irqs'
      <4>1. step = 32 => uart_ris \cap imsc # {}
        BY <2>1, <2>3 DEF Made, Looped
      <4> QED
        BY <1>4, <4>1, AnswerShows DEF Answered, CpuInv, DeviceLevels
    <3> QED
      BY <2>1, <3>1, <3>2 DEF Announced
  <2> QED
    BY <2>2, <2>3
<1> QED
  BY <1>1, <1>2, <1>3, <1>4

\* The other steps leave what was stored, or reset it before any store.
LEMMA StoredElse ==
  ASSUME CpuInv, UartInv, SysStored, SramStored, PinRaised, Looped,
         TakeIrq \/ Handler \/ Answered \/ Pl
  PROVE  SysStored' /\ SramStored' /\ PinRaised' /\ Looped'
<1>1. /\ Made' = Made \/ (Made \in {39, 49, 53} /\ Made' = Made - 1)
      /\ Made \in 0 .. 56
  BY MadeStep
<1>2. CASE TakeIrq \/ Answered
  <2>1. UNCHANGED plVars /\ pc' = "idle"
    BY <1>2, AnswerStep DEF TakeIrq, accessVars, Taken, Answered, CpuInv
  <2>2. UNCHANGED <<scratch, mem, dir, out, intpol, intstat, cr, rx, imsc, uart_ris>>
    BY <2>1 DEF plVars, sysVars, gpioVars, uartVars
  <2>3. Made' = 32 => step' # 32
    BY <2>1 DEF Made
  <2> QED
    BY <1>1, <2>2, <2>3 DEF SysStored, SramStored, PinRaised, Looped
<1>3. CASE Handler
  <2>1. Made' = Made /\ Made >= 32 /\ handler' # 0
    BY <1>3, MadeStep DEF Handler, mainVars, UartInv, Interrupt
  <2>2. UNCHANGED <<scratch, mem, dir, out, intpol, intstat>>
    BY <1>3 DEF Handler, UartAccess, sysVars, gpioVars
  <2>3. cr' = cr
    BY <1>3 DEF Handler, UartAccess, Load, Store, Uart!ReadDR, Uart!WriteICR, Uart!uartVars
  <2>4. Made' = 32 => step' # 32
    BY <1>1, <2>1 DEF Made
  <2> QED
    BY <1>1, <2>1, <2>2, <2>3, <2>4 DEF SysStored, SramStored, PinRaised, Looped
<1>4. CASE Pl
  <2>1. Made' = Made /\ UNCHANGED step /\ Silicon
    BY <1>4, MadeStep DEF Pl, mainVars
  <2>2. InReset => Made <= 1
    BY DEF CpuInv, Made
  <2>3. SysStored' /\ SramStored'
    BY <1>1, <2>1, <2>2, SiliconStores DEF SysStored, SramStored
  <2>4. PinRaised'
    BY <1>1, <2>1, <2>2, SiliconKeeps DEF PinRaised, gpioVars
  <2>5. Looped'
    BY <1>1, <2>1, <2>2, SiliconKeeps DEF Looped, uartVars
  <2> QED
    BY <2>3, <2>4, <2>5
<1> QED
  BY <1>2, <1>3, <1>4

(***************************************************************************)
(* The checks.                                                             *)
(***************************************************************************)

LEMMA Checks ==
  ASSUME NEW k \in 1 .. 42
  PROVE  Program[k].check = IF k \in {1, 3, 4, 5, 9, 10, 11, 12, 18, 28, 29} THEN "equal"
                            ELSE IF k = 19 THEN "bit" ELSE IF k = 27 THEN "no_bit"
                            ELSE IF k = 39 THEN "until" ELSE "none"
<1> USE DEF Store, Equal, HasBit, NoBit, Until, Look, Load
<1>1. CASE k <= 11
  BY <1>1, FirstProgram
<1>2. CASE k \in 12 .. 20
  BY <1>2, GpioProgram
<1>3. CASE k \in 21 .. 34
  BY <1>3, UartProgram
<1>4. CASE k \in 35 .. 42
  <2>1. \A i \in 1 .. 8 : Test5[i].check = IF i = 5 THEN "until" ELSE "none"
    BY DEF Test5
  <2> QED
    BY <1>4, <2>1, ProgramAt
<1> QED
  BY <1>1, <1>2, <1>3, <1>4

LEMMA PassingMain ==
  ASSUME CpuInv, UartInv, TestedInv, SysStored, SramStored, PinRaised, Looped, Announced,
         Main
  PROVE  Passing'
<1>1. /\ Made = step - 1 /\ Made' = step /\ step \in 1 .. 56
      /\ UNCHANGED <<step, handler, uart_irqs, before>>
  BY MadeStep DEF Main
<1>2. CASE step >= 43
  BY <1>1, <1>2, CurrentIs, Performed DEF CpuInv, Main, Passing
<1>3. CASE step < 43
  <2>1. step \in 1 .. 42 /\ MaskRx = 34 /\ Second = 56 /\ Current = Program[step]
    BY <1>1, <1>3, Places, CurrentIs DEF CpuInv, Main
  <2>2. word' = IF Program[step].kind = "load" THEN Loaded(Program[step]) ELSE word
    BY <2>1 DEF Main
  <2>3. SUFFICES Accepts(Program[step], word)'
    BY <1>1 DEF Passing
  <2> USE DEF Equal, HasBit, NoBit, Load, Loaded
  <2>4. CASE step \in {1, 3, 4, 5, 9, 10, 11}
    <3>1. word' = Program[step].word
      BY <1>1, <2>2, <2>4, FirstProgram DEF SysStored, SramStored
    <3> QED
      BY <1>1, <2>1, <2>4, <3>1, Checks DEF Accepts
  <2>5. CASE step \in {12, 18}
    <3>1. word' = Program[step].word
      BY <1>1, <2>2, <2>5, GpioProgram, FirmwareAssumption DEF PinRaised, Gpio!Word, Gpio!High
    <3> QED
      BY <1>1, <2>1, <2>5, <3>1, Checks DEF Accepts
  <2>6. CASE step \in {28, 29}
    <3>1. Len(rx) \in {1, 2} /\ Head(rx) = IF step = 28 THEN "S" ELSE "C"
      BY <1>1, <2>6 DEF Looped, UartInv, Received
    <3>2. word' = Program[step].word
      BY <2>2, <2>6, <3>1, UartProgram DEF Uart!Word
    <3> QED
      BY <1>1, <2>1, <2>6, <3>2, Checks DEF Accepts
  <2>7. CASE step = 19
    <3>1. 1 \in word'
      BY <1>1, <2>7, GpioAccesses DEF PinRaised
    <3>2. Bits(Program[19], word)'
      BY <3>1, GpioProgram DEF Bits
    <3> QED
      BY <1>1, <2>1, <2>7, <3>2, Checks DEF Accepts
  <2>8. CASE step = 27
    <3>1. rx # <<>>
      BY <1>1, <2>8 DEF Looped
    <3>3. word' = {}
      BY <2>2, <2>8, <3>1, UartProgram DEF Uart!Word
    <3>2. ~Bits(Program[27], word)'
      BY <3>3, UartProgram DEF Bits
    <3> QED
      BY <1>1, <2>1, <2>8, <3>2, Checks DEF Accepts
  <2>9. CASE step = 34
    <3>1. uart_irqs' # 0
      <4>1. uart_irqs = 1
        BY <2>9, AnnouncedMain, Performed, <1>1 DEF Announced, Main
      <4> QED
        BY <1>1, <4>1
    <3> QED
      BY <1>1, <2>1, <2>9, <3>1, Checks DEF Accepts
  <2>10. CASE step \notin {1, 3, 4, 5, 9, 10, 11, 12, 18, 19, 27, 28, 29, 34}
    BY <1>1, <2>1, <2>10, Checks DEF Accepts
  <2> QED
    BY <2>4, <2>5, <2>6, <2>7, <2>8, <2>9, <2>10
<1> QED
  BY <1>1, <1>2, <1>3

LEMMA PassingElse ==
  ASSUME CpuInv, Passing, TakeIrq \/ Handler \/ Answered \/ Pl
  PROVE  Passing'
<1>1. CASE TakeIrq \/ Answered
  BY <1>1, AnswerStep DEF TakeIrq, accessVars, Answered, CpuInv, Passing
<1>2. CASE Handler
  BY <1>2 DEF Handler, mainVars, Passing
<1>3. CASE Pl
  <2>1. /\ UNCHANGED <<step, handler, word, before, uart_irqs>>
        /\ pc' = "access" => pc = "access"
    BY <1>3, SiliconShape DEF Pl, mainVars
  <2> QED
    BY <2>1 DEF Passing, Accepts, Bits, Pin!HasMask
<1> QED
  BY <1>1, <1>2, <1>3

LEMMA PassInit == Init => PassInv
<1> SUFFICES ASSUME Init PROVE PassInv
  OBVIOUS
<1>1. /\ out = {} /\ mem = [c \in Cells |-> 0] /\ step = 1 /\ handler = 0 /\ pc = "idle"
  BY DEF Init, PlInit, AccessInit, Gpio!Cleared, Sram!SramInit
<1> QED
  BY <1>1 DEF PassInv, SysStored, SramStored, PinRaised, Looped, Announced, Passing, Made

LEMMA PassNext == CpuInv /\ UartInv /\ TestedInv /\ PassInv /\ [Next]_vars => PassInv'
<1> SUFFICES ASSUME CpuInv, UartInv, TestedInv, PassInv, [Next]_vars PROVE PassInv'
  OBVIOUS
<1>1. CASE Main
  BY <1>1, FirstMain, PinMain, LoopedMain, AnnouncedMain, PassingMain DEF PassInv, TestedInv
<1>2. CASE TakeIrq \/ Handler \/ Answered \/ Pl
  BY <1>2, StoredElse, AnnouncedElse, PassingElse DEF PassInv
<1>3. CASE UNCHANGED vars
  <2>1. UNCHANGED <<scratch, mem, dir, out, intpol, intstat, cr, rx, imsc, uart_ris, step, pc,
                    handler, word, before, pending, uart_irqs>>
    BY <1>3 DEF vars, mainVars, accessVars, plVars, sysVars, gpioVars, uartVars
  <2> QED
    BY <2>1 DEF PassInv, SysStored, SramStored, PinRaised, Looped, Announced, Passing, Made,
                Accepts, Bits, Pin!HasMask
<1> QED
  BY <1>1, <1>2, <1>3 DEF Next

(***************************************************************************)
(* The end of test 6: the timer has been stopped.                          *)
(***************************************************************************)

Stopping == access.kind = "write" /\ access.reg = "CTRL"

\* A store to CTRL is written once its access is sampled; the timer it stops
\* stands still, and the loads of VALUE after it all return the same.
StopInv ==
  /\ Raising => nxt.data_in = access.data
  /\ Strobing => sig.data_in = access.data /\ nxt.data_in = access.data
  /\ Strobing /\ Stopping => "bus_write" \in runnable \/ regs["CTRL"] = access.data
  /\ (Sampling \/ Answering) /\ Stopping => regs["CTRL"] = access.data
  /\ step = 54 /\ pc # "idle" => access.data = 0
  /\ step >= 55 =>
       /\ regs["CTRL"] = 0
       /\ Strobing => "bus_read" \in runnable \/ nxt.data_out = regs["VALUE"]
       /\ Sampling => sig.data_out = regs["VALUE"]
       /\ Answering => rdata = regs["VALUE"]
  /\ step = 56 => before = regs["VALUE"]

LEMMA StopProgram ==
  /\ Program[54] = Store("timer", "CTRL", 0)
  /\ Program[55] = Look("timer", "VALUE") /\ Program[56] = Look("timer", "VALUE")
  BY ProgramAt DEF Test6

\* The accesses that are under way at the end.
LEMMA LastAccesses ==
  ASSUME CpuInv, pc # "idle"
  PROVE  /\ step = 54 => access.kind = "write" /\ access.reg = "CTRL"
         /\ step >= 55 => access.kind = "read" /\ access.reg = "VALUE"
<1>1. step \in 1 .. 57 /\ (step >= 54 => handler = 0)
  BY DEF CpuInv, Control
<1>2. step # 57
  BY <1>1 DEF CpuInv, Control
<1>3. step \in {54, 55, 56} => /\ access.reg = Program[step].reg
                               /\ access.kind = (IF Program[step].kind = "load" THEN "read" ELSE "write")
  BY <1>1 DEF CpuInv, Control, OnBus
<1> QED
  BY <1>1, <1>2, <1>3, StopProgram DEF Store, Look, Load

\* A process that leaves the timer's registers and its input pins alone.
LEMMA ProcessStop ==
  ASSUME StopInv, NEW p, p \in runnable, p \notin {"server", "bus_read", "bus_write"},
         NEW N \in SUBSET Drivers, runnable' = (runnable \ {p}) \cup N,
         UNCHANGED <<sig, pc, regs, access, rdata, step, before>>, Waits' = Waits,
         nxt'.data_in = nxt.data_in, nxt'.data_out = nxt.data_out
  PROVE  StopInv'
<1>1. /\ "bus_write" \in runnable => "bus_write" \in runnable'
      /\ "bus_read" \in runnable => "bus_read" \in runnable'
      /\ Running' = Running
  BY DEF Running, Drivers
<1>2. /\ Raising' = Raising /\ Strobing' = Strobing /\ Sampling' = Sampling
      /\ Answering' = Answering /\ Stopping' = Stopping
  BY <1>1 DEF Raising, Strobing, Sampling, Answering, Stopping
<1> QED
  BY <1>1, <1>2 DEF StopInv

LEMMA MovesStop ==
  ASSUME StopInv, NEW p \in Others, NEW N \in SUBSET Drivers, Moves(p, N),
         UNCHANGED <<step, before>>
  PROVE  StopInv'
  BY ProcessStop DEF Moves, Others

LEMMA TimerStop ==
  ASSUME CpuInv, BridgeInv, StopInv, TimerProcess, UNCHANGED <<step, before>>
  PROVE  StopInv'
<1>1. PlInv /\ nxt \in Signals /\ sig \in Signals /\ regs \in [Pin!Regs -> Pin!Word]
  BY DEF CpuInv, PlInv, PlTypeOK
<1>2. {} \in SUBSET Drivers /\ {"irq_output"} \in SUBSET Drivers
  BY DEF Drivers
<1> USE DEF TimerProcess, Pin!Runs, Pin!WaitEvent, Pin!busVars, Pin!IrqChanged
<1>3. UNCHANGED <<sig, pc, access, rdata>> /\ Waits' = Waits
  BY DEF Pin!TimerThread, Pin!BusRead, Pin!BusWrite, Pin!Reset, Pin!IrqOutput, Waits
<1>4. CASE Pin!TimerThread
  <2>1. PICK N \in {{}, {"irq_output"}} :
          "timer_thread" \in runnable /\ runnable' = (runnable \ {"timer_thread"}) \cup N
    BY <1>4 DEF Pin!TimerThread
  <2>2. nxt' = nxt
    BY <1>4 DEF Pin!TimerThread
  <2>3. CASE regs' = regs
    BY <1>2, <1>3, <2>1, <2>2, <2>3, ProcessStop
  <2>4. CASE Pin!Bit(regs["CTRL"], Pin!EnableBit)
    <3>1. regs["CTRL"] # 0
      BY <2>4 DEF Pin!Bit, Pin!EnableBit
    <3>2. ~(step >= 55) /\ step # 56
      BY <3>1 DEF StopInv, CpuInv, Control
    <3>3. regs'["CTRL"] = regs["CTRL"]
      BY <1>1, <1>4 DEF Pin!TimerThread, Pin!Registers, Pin!Regs
    <3>4. /\ "bus_write" \in runnable => "bus_write" \in runnable'
          /\ Running' = Running
      BY <2>1 DEF Running
    <3>5. /\ Raising' = Raising /\ Strobing' = Strobing /\ Sampling' = Sampling
          /\ Answering' = Answering /\ Stopping' = Stopping
      BY <1>3, <3>4 DEF Raising, Strobing, Sampling, Answering, Stopping
    <3> QED
      BY <1>3, <2>2, <3>2, <3>3, <3>4, <3>5 DEF StopInv
  <2> QED
    BY <1>4, <2>3, <2>4 DEF Pin!TimerThread
<1>5. CASE Pin!BusRead
  <2>1. /\ runnable' = runnable \ {"bus_read"} /\ regs' = regs
        /\ nxt' = [nxt EXCEPT !.data_out = IF sig.read_en THEN Pin!Value(regs, sig.address) ELSE @]
    BY <1>5 DEF Pin!BusRead
  <2>2. /\ nxt'.data_in = nxt.data_in
        /\ nxt'.data_out = IF sig.read_en THEN regs'[sig.address] ELSE nxt.data_out
    BY <1>1, <2>1 DEF Signals, Pin!Value
  <2>3. /\ Raising' = Raising /\ Strobing' = Strobing /\ Sampling' = Sampling
        /\ Answering' = Answering /\ Stopping' = Stopping
        /\ "bus_write" \in runnable => "bus_write" \in runnable'
    BY <1>3, <2>1 DEF Raising, Strobing, Sampling, Answering, Stopping, Running
  <2>4. Strobing /\ step >= 55 => nxt'.data_out = regs'["VALUE"]
    <3>1. SUFFICES ASSUME Strobing, step >= 55 PROVE nxt'.data_out = regs'["VALUE"]
      OBVIOUS
    <3>2. Strobes(sig) /\ access.kind = "read" /\ access.reg = "VALUE"
      BY <3>1, LastAccesses DEF Strobing, BridgeInv
    <3> QED
      BY <2>2, <3>2 DEF Strobes
  <2> QED
    BY <1>3, <2>1, <2>2, <2>3, <2>4 DEF StopInv
<1>6. CASE Pin!BusWrite
  <2>1. PICK N \in {{}, {"irq_output"}} :
          "bus_write" \in runnable /\ runnable' = (runnable \ {"bus_write"}) \cup N
    BY <1>6 DEF Pin!BusWrite
  <2>2. nxt' = nxt
    BY <1>6 DEF Pin!BusWrite
  <2>3. sig.write_en /\ pc \in {"setup", "sample"} /\ ~Raising /\ ~Sampling /\ ~Answering
    BY <2>1 DEF BridgeInv, Low, Raising, Answering, OffBus, PlInv, CpuInv, PlTypeOK
  <2>4. Strobing
    BY <2>3 DEF BridgeInv, Strobing, Raising, Sampling
  <2>5. Strobes(sig) /\ access.kind = "write" /\ pc # "idle"
    BY <1>1, <2>3, <2>4 DEF BridgeInv, Strobes, Signals
  <2>6. ~(step >= 55) /\ step # 56
    BY <2>5, LastAccesses
  <2>7. Stopping => regs'["CTRL"] = access.data
    BY <1>1, <1>6, <2>3, <2>4, <2>5 DEF Pin!BusWrite, Pin!Stored, Pin!Registers, StopInv,
                                        Strobes, Stopping, Pin!Regs
  <2>8. /\ Raising' = Raising /\ Strobing' = Strobing /\ Sampling' = Sampling
        /\ Answering' = Answering /\ Stopping' = Stopping
    BY <1>3, <2>1 DEF Raising, Strobing, Sampling, Answering, Stopping, Running
  <2> QED
    BY <1>3, <2>2, <2>3, <2>4, <2>6, <2>7, <2>8 DEF StopInv
<1>7. CASE Pin!Reset
  <2>1. PICK N \in {{}, {"irq_output"}} :
          "reset" \in runnable /\ runnable' = (runnable \ {"reset"}) \cup N
    BY <1>7 DEF Pin!Reset
  <2>2. nxt' = nxt /\ (~sig.reset => regs' = regs)
    BY <1>7 DEF Pin!Reset
  <2>3. CASE sig.reset
    <3>1. step = 1 /\ ~(Raising \/ Strobing \/ Sampling \/ Answering)
      BY <2>1, <2>3 DEF InReset, Resets, CpuInv, Control, OnBus, Raising, Strobing, Sampling,
                        Answering
    <3>2. ~(Raising \/ Strobing \/ Sampling \/ Answering)'
      BY <1>3, <2>1, <3>1 DEF Raising, Strobing, Sampling, Answering, Running
    <3> QED
      BY <3>1, <3>2 DEF StopInv
  <2>4. CASE ~sig.reset
    BY <1>2, <1>3, <2>1, <2>2, <2>4, ProcessStop
  <2> QED
    BY <2>3, <2>4
<1>8. CASE Pin!IrqOutput
  <2>1. "irq_output" \in Others
    BY DEF Others, Methods, Drivers
  <2> QED
    BY <1>1, <1>2, <1>8, <2>1, IrqOutputMoves, MovesStop
<1> QED
  BY <1>4, <1>5, <1>6, <1>7, <1>8

LEMMA ServerStop ==
  ASSUME CpuInv, BridgeInv, StopInv, BridgeStep, UNCHANGED <<step, before>>
  PROVE  StopInv'
<1>1. nxt \in Signals
  BY DEF CpuInv, PlInv, PlTypeOK
<1> USE DEF Pin!Runs, Pin!WaitDelta, Pin!WaitTime, Raising, Strobing, Sampling, Answering,
            Waits, Running
<1>2. /\ Running /\ ~Waits /\ ~Running' /\ UNCHANGED <<sig, regs, access>>
      /\ "bus_write" \in runnable' <=> "bus_write" \in runnable
      /\ "bus_read" \in runnable' <=> "bus_read" \in runnable
      /\ pc # "idle"
  BY DEF BridgeStep, Pin!Setup, Pin!Sample, Pin!Settle, CpuInv, PlInv, Thread
<1>3. CASE Pin!Setup
  <2>1. pc = "setup" /\ pc' = "sample" /\ nxt' = nxt /\ Waits'
    BY <1>3 DEF Pin!Setup
  <2> QED
    BY <1>2, <2>1 DEF StopInv, Stopping
<1>4. CASE Pin!Sample
  <2>1. /\ pc = "sample" /\ pc' = "settle"
        /\ rdata' = IF access.kind = "read" THEN sig.data_out ELSE rdata
    BY <1>4 DEF Pin!Sample
  <2>2. step >= 55 => rdata' = regs["VALUE"]
    BY <1>2, <2>1, LastAccesses DEF StopInv
  <2> QED
    BY <1>2, <2>1, <2>2 DEF StopInv, Stopping
<1>5. CASE Pin!Settle
  <2>1. pc = "settle" /\ pc' = "respond" /\ UNCHANGED <<nxt, rdata>>
    BY <1>5 DEF Pin!Settle
  <2> QED
    BY <1>2, <2>1 DEF StopInv, Stopping
<1> QED
  BY <1>3, <1>4, <1>5 DEF BridgeStep

LEMMA SchedulerStop ==
  ASSUME CpuInv, BridgeInv, StopInv, Scheduler, UNCHANGED <<step, before>>
  PROVE  StopInv'
<1>1. nxt \in Signals /\ sig \in Signals
  BY DEF CpuInv, PlInv, PlTypeOK
<1>2. runnable = {} /\ UNCHANGED <<nxt, pc, regs, access, rdata>>
  BY DEF Scheduler, Update, Advance, Settled, accessVars, plVars, timerVars
<1> USE DEF Raising, Strobing, Sampling, Answering, Waits, Running
<1>3. CASE pc \notin {"setup", "sample"}
  BY <1>2, <1>3 DEF StopInv, Stopping
<1>4. CASE pc \in {"setup", "sample"}
  <2>1. Waits
    BY <1>2, <1>4 DEF BridgeInv
  <2>2. Update(Woken)
    BY <2>1 DEF Scheduler, Advance, Settled
  <2>3. sig' = nxt /\ runnable' = resume \cup Woken /\ resume' = {}
    BY <2>2 DEF Update
  <2>4. /\ nxt.read_en /\ ~sig.read_en => "bus_read" \in Woken
        /\ nxt.write_en /\ ~sig.write_en => "bus_write" \in Woken
    BY DEF Woken, Pin!Woken
  <2>5. Running' /\ ~Waits'
    BY <2>1, <2>3
  <2>6. CASE pc = "setup"
    <3>1. Low(sig) /\ Strobes(nxt) /\ nxt.data_in = access.data
      BY <2>1, <2>6 DEF BridgeInv, StopInv
    <3>2. access.kind = "read" => "bus_read" \in runnable'
      BY <1>1, <2>3, <2>4, <3>1 DEF Low, Strobes
    <3>3. access.kind = "write" => "bus_write" \in runnable'
      BY <1>1, <2>3, <2>4, <3>1 DEF Low, Strobes
    <3>4. step >= 55 => access.kind = "read"
      BY <2>6, LastAccesses
    <3> QED
      BY <1>2, <2>3, <2>5, <2>6, <3>1, <3>2, <3>3, <3>4 DEF StopInv, Stopping
  <2>7. CASE pc = "sample"
    <3>1. /\ Stopping => regs["CTRL"] = access.data
          /\ step >= 55 => nxt.data_out = regs["VALUE"]
      BY <1>2, <2>1, <2>7 DEF StopInv
    <3> QED
      BY <1>2, <2>3, <2>5, <2>7, <3>1 DEF StopInv, Stopping
  <2> QED
    BY <1>4, <2>6, <2>7
<1> QED
  BY <1>3, <1>4

LEMMA MainStop ==
  ASSUME CpuInv, BridgeInv, StopInv, Main
  PROVE  StopInv'
<1>1. /\ step \in 1 .. 56 /\ Performable(Current) /\ Perform(Current)
      /\ (Current.dev = "timer" <=> step >= 43)
      /\ (step # 51 => Current = Program[step])
      /\ UNCHANGED <<step, before>>
  BY CurrentIs DEF CpuInv, Main
<1> USE DEF Raising, Strobing, Sampling, Answering, Waits, Running
<1>2. CASE Current.dev # "timer"
  <2>1. pc' = "access" /\ step < 43
    BY <1>1, <1>2, Performed
  <2> QED
    BY <1>1, <2>1 DEF StopInv
<1>3. CASE Current.dev = "timer"
  <2>1. nxt \in Signals
    BY DEF CpuInv, PlInv, PlTypeOK
  <2>2. PICK kind \in {"read", "write"} : Pin!Begin(kind, Current.reg, Current.word)
    BY <1>1, <1>3 DEF Perform, TimerAccess
  <2>3. /\ pc' = "setup" /\ ~Running' /\ access'.data = Current.word /\ regs' = regs
        /\ nxt' = [nxt EXCEPT !.address = Current.reg, !.data_in = Current.word,
                              !.read_en = kind = "read", !.write_en = kind = "write"]
    BY <2>2 DEF Pin!Begin, Pin!Runs, Pin!WaitDelta
  <2>4. nxt'.data_in = access'.data
    BY <2>1, <2>3 DEF Signals
  <2>5. step = 54 => access'.data = 0
    BY <1>1, <2>3, StopProgram DEF Store
  <2> QED
    BY <1>1, <2>3, <2>4, <2>5 DEF StopInv
<1> QED
  BY <1>2, <1>3

LEMMA AnsweredStop ==
  ASSUME CpuInv, StopInv, Answered
  PROVE  StopInv'
<1>1. /\ pc \in {"access", "respond"} /\ pc' = "idle" /\ UNCHANGED <<regs, rdata>>
  BY AnswerStep DEF Answered, CpuInv, plVars, timerVars
<1> USE DEF Raising, Strobing, Sampling, Answering
<1>2. CASE handler # 0
  <2>1. step' = step /\ step <= 34
    BY <1>2, ToHandler DEF CpuInv, Control
  <2> QED
    BY <1>1, <2>1 DEF StopInv
<1>3. CASE handler = 0
  <2>1. /\ step' = step \/ step' = step + 1
        /\ step \in 1 .. 56
        /\ before' = IF step = 55 THEN Returned ELSE before
    BY <1>1, <1>3, ToMain, Places DEF CpuInv, Control, Answered, Returned
  <2>2. step >= 54 => pc = "respond"
    BY <1>1, <1>3 DEF CpuInv, Control, OnBus
  <2>3. step = 54 => regs["CTRL"] = 0
    BY <1>1, <2>2, LastAccesses DEF StopInv, Stopping
  <2>4. step = 55 => Returned = regs["VALUE"] /\ regs["CTRL"] = 0
    BY <1>1, <2>2, LastAccesses DEF StopInv, Returned
  <2>5. step = 56 => step' = 57
    BY <1>3, ToMain, StopProgram DEF Look, Load
  <2> QED
    BY <1>1, <2>1, <2>3, <2>4, <2>5 DEF StopInv
<1> QED
  BY <1>2, <1>3

LEMMA PlStop ==
  ASSUME CpuInv, BridgeInv, StopInv, Pl
  PROVE  StopInv'
<1>1. Silicon /\ UNCHANGED <<step, before>> /\ PlInv
  BY DEF Pl, mainVars, CpuInv
<1>2. CASE Clock \/ GpioProcess \/ UartProcess \/ WdtProcess \/ SramProcess
  BY <1>1, <1>2, DeviceMoves, MovesStop
<1>3. CASE OtherProcess
  <2>1. CASE Release \/ PackIrqs
    BY <1>1, <1>3, <2>1, ReleaseMoves, MovesStop DEF OtherProcess
  <2>2. CASE Poll
    <3>1. pc = "idle" /\ pc' = "idle" /\ UNCHANGED regs
      BY <1>3, <2>2 DEF OtherProcess, Poll, accessVars, plVars, timerVars
    <3> QED
      BY <1>1, <3>1 DEF StopInv, Raising, Strobing, Sampling, Answering
  <2> QED
    BY <1>3, <2>1, <2>2 DEF OtherProcess
<1> QED
  BY <1>1, <1>2, <1>3, TimerStop, ServerStop, SchedulerStop DEF Silicon

LEMMA StopInit == Init => StopInv
<1> SUFFICES ASSUME Init PROVE StopInv
  OBVIOUS
<1>1. step = 1 /\ pc = "idle"
  BY DEF Init, PlInit, AccessInit
<1> QED
  BY <1>1 DEF StopInv, Raising, Strobing, Sampling, Answering

LEMMA StopNext == CpuInv /\ BridgeInv /\ StopInv /\ [Next]_vars => StopInv'
<1> SUFFICES ASSUME CpuInv, BridgeInv, StopInv, [Next]_vars PROVE StopInv'
  OBVIOUS
<1> USE DEF Raising, Strobing, Sampling, Answering
<1>1. CASE Handler
  <2>1. pc' = "access" /\ step' <= 34 /\ step' \in Nat
    BY <1>1 DEF Handler, mainVars, UartAccess, Load, Store, CpuInv, Control, Uart!ReadDR,
                Uart!WriteICR, Uart!Call, Uart!CallFor
  <2> QED
    BY <2>1 DEF StopInv
<1>2. CASE TakeIrq
  <2>1. pc' = "idle" /\ step' <= 34 /\ step' \in Nat
    BY <1>2, Places DEF TakeIrq, Taken, accessVars
  <2> QED
    BY <2>1 DEF StopInv
<1>3. CASE UNCHANGED vars
  <2>1. UNCHANGED <<runnable, resume, sig, nxt, pc, regs, access, rdata, step, before>>
    BY <1>3 DEF vars, mainVars, kernelVars, accessVars, plVars, timerVars
  <2> QED
    BY <2>1 DEF StopInv, Waits, Running, Stopping
<1> QED
  BY <1>1, <1>2, <1>3, MainStop, AnsweredStop, PlStop DEF Next

\* The word that is checked last is the one before.
LEMMA NoFailure ==
  ASSUME CpuInv, Passing, StopInv, verdict # "fail", [Next]_vars
  PROVE  verdict' # "fail"
<1>1. CASE Main \/ TakeIrq \/ Handler \/ Pl \/ UNCHANGED vars
  BY <1>1 DEF Main, TakeIrq, Handler, Pl, vars, mainVars
<1>2. CASE Answered /\ handler # 0
  BY <1>2, ToHandler
<1>3. CASE Answered /\ handler = 0
  <2>1. pc \in {"access", "respond"} /\ verdict = "running" /\ step \in 1 .. 56
    BY <1>3, AnswerStep DEF Answered, CpuInv, Control
  <2>2. Accepts(Program[step], Returned)
    <3>1. CASE step < 43
      BY <1>3, <2>1, <3>1 DEF CpuInv, Control, OnBus, Returned, Passing
    <3>2. CASE step >= 43
      <4>1. Program[step].check \in {"none", "until"}
        <5>1. step - 42 \in 1 .. 14 /\ Program[step] = Test6[step - 42]
          BY <2>1, <3>2, ProgramAt
        <5> QED
          BY <5>1 DEF Test6, Store, Until, Look, Load
      <4>2. step = 56 => Returned = before
        <5>1. step = 56 => pc = "respond"
          BY <1>3, <2>1 DEF CpuInv, Control, OnBus
        <5> QED
          BY <2>1, <5>1, LastAccesses DEF Returned, StopInv, Answering
      <4> QED
        BY <2>1, <3>2, <4>1, <4>2, Places DEF Accepts
    <3> QED
      BY <2>1, <3>1, <3>2
  <2> QED
    BY <1>3, <2>1, <2>2, ToMain
<1> QED
  BY <1>1, <1>2, <1>3 DEF Next

\* main.c: whatever the access times, the polling and the depth of the FIFO,
\* wherever the interrupt, the watchdog and the timer fall between two
\* accesses, no check of the seven tests fails.
THEOREM TestsNeverFail == Spec => []NoTestFails
<1> DEFINE I == TestsInv /\ PassInv /\ StopInv /\ NoTestFails
<1>1. Init => I
  BY InitCpu, UartInit, TestedInit, BridgeInit, PassInit, StopInit
     DEF TestsInv, NoTestFails, Init
<1>2. I /\ [Next]_vars => I'
  <2> SUFFICES ASSUME I, [Next]_vars PROVE I'
    OBVIOUS
  <2>1. TestsInv'
    BY CpuNext, UartNext, TestedNext, BridgeNext DEF TestsInv
  <2>2. PassInv' /\ StopInv'
    BY PassNext, StopNext DEF TestsInv
  <2>3. NoTestFails'
    BY NoFailure DEF TestsInv, PassInv, NoTestFails
  <2> QED
    BY <2>1, <2>2, <2>3
<1> QED
  BY <1>1, <1>2, PTL DEF Spec

==============================================================================
