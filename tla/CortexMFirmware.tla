-------------------------- MODULE CortexMFirmware --------------------------
(***************************************************************************)
(* The Cortex-M firmware (src/platforms/basic_cortexM/firmware/main.c),    *)
(* all seven tests, against the whole PL: main() and UART_Handler() are    *)
(* two sequences of accesses on one CPU.  The NVIC and the CPU are         *)
(* external: the lines of a response are the levels at the NVIC's inputs   *)
(* (src/processor/systemc_soc.c), a raised line is latched as pending, and *)
(* a pending interrupt is taken at some point before interrupts are masked *)
(* again.  What is logged, and the bound of a million reads of             *)
(* log_wait_bit(), are left out.                                           *)
(***************************************************************************)
EXTENDS CortexMPl, Sequences

CONSTANTS CmpWord,   \* the compare value of test 6, 20
          LateWord   \* the value it writes close to the overflow, 250

\* What the tests take for granted: the first pin is there, two characters find
\* room in the FIFO, the offsets are in the SRAM and the words fit in a register
\* of the timer.
ASSUME FirmwareAssumption ==
  /\ 1 \in Pins /\ FIFO_DEPTH \in Nat /\ FIFO_DEPTH >= 2
  /\ {0, 4, 4092} \subseteq Cells /\ {7, CmpWord, LateWord} \subseteq Pin!Word

VARIABLES step,      \* the next access of main(), or the one under way
          handler,   \* 0, or the access of UART_Handler() that is next
          word,      \* what the latest load returned
          before,    \* the local variable of test 6
          uart_irqs, \* g_uart_irqs
          pending,   \* the NVIC's latch of the UART's line, the one enabled
          verdict,   \* how the tests end
          seen       \* history: lines that have been up at the NVIC

mainVars == <<step, handler, word, before, uart_irqs, pending, verdict, seen>>
vars == <<kernelVars, accessVars, plVars, mainVars>>

(***************************************************************************)
(* The accesses of main(), with what it checks of the word a load returns. *)
(***************************************************************************)

Load(d, r, check, w) == [dev |-> d, kind |-> "load", reg |-> r, check |-> check, word |-> w]
Equal(d, r, w) == Load(d, r, "equal", w)
HasBit(d, r, b) == Load(d, r, "bit", b)
NoBit(d, r, b) == Load(d, r, "no_bit", b)
Until(d, r, b) == Load(d, r, "until", b)          \* log_wait_bit()
Look(d, r) == Load(d, r, "none", 0)
Store(d, r, w) == [dev |-> d, kind |-> "store", reg |-> r, check |-> "none", word |-> w]

Test0 == << Equal("sysctrl", "MAGIC", "MAGIC"), Store("sysctrl", "SCRATCH", 1),
            Equal("sysctrl", "SCRATCH", 1),
            Equal("sysctrl", "SYS_HZ", "SYS_HZ"), Equal("sysctrl", "PCLK_HZ", "PCLK_HZ") >>

Test1 == << Store("sram", 0, 1), Store("sram", 4, 2), Store("sram", 4092, 3),
            Equal("sram", 0, 1), Equal("sram", 4, 2), Equal("sram", 4092, 3) >>

Test2 == << Equal("gpio", "ID", "id"), Store("gpio", "DIR", Pins),
            Store("gpio", "INTPOL", Pins), Store("gpio", "INTTYPE", Pins),
            Store("gpio", "INTEN", {1}), Store("gpio", "SET", {1}),
            Equal("gpio", "DATA", {1}), HasBit("gpio", "INTSTAT", 1),
            Store("gpio", "INTCLR", {1}) >>

Test3 == << Store("uart", "IBRD", 16), Store("uart", "FBRD", 0),
            Store("uart", "LCRH", "FEN"), Store("uart", "CR", {"RXE", "LBE"}),
            Store("uart", "DR", "S"), Store("uart", "DR", "C"),
            NoBit("uart", "FR", "RXFE"),
            Equal("uart", "DR", "S"), Equal("uart", "DR", "C") >>

Test4 == << Store("uart", "ICR", {"RX"}), Store("uart", "IMSC", {"RX"}),
            Store("uart", "DR", "I"), Look("uart", "FR"), Store("uart", "IMSC", {}) >>

Test5 == << Store("wdt", "LOCK", TRUE), Store("wdt", "LOAD", 8),
            Store("wdt", "INTCLR", 1), Store("wdt", "CONTROL", {"INTEN"}),
            Until("wdt", "RIS", "RIS"),
            Store("wdt", "INTCLR", 1), Store("wdt", "CONTROL", {}),
            Store("wdt", "LOCK", FALSE) >>

\* The store after the load of INTR writes back what it read without CMP.
Test6 == << Store("timer", "CTRL", 0), Store("timer", "VALUE", 0),
            Store("timer", "CMP", 0), Store("timer", "INTR", 0),
            Store("timer", "CMP", CmpWord), Store("timer", "CTRL", 7),
            Until("timer", "INTR", Pin!IntrCmp),
            Look("timer", "INTR"), Store("timer", "INTR", 0),
            Store("timer", "VALUE", LateWord),
            Until("timer", "INTR", Pin!IntrOv),
            Store("timer", "CTRL", 0), Look("timer", "VALUE"), Look("timer", "VALUE") >>

Program == Test0 \o Test1 \o Test2 \o Test3 \o Test4 \o Test5 \o Test6
Done == Len(Program) + 1

\* Places in it.
Handled == Len(Test0 \o Test1 \o Test2 \o Test3)
PutI == Handled + 3
MaskRx == Handled + 5
TimerTest == Len(Program) - Len(Test6)
ClearCmp == TimerTest + 9
First == TimerTest + 13
Second == TimerTest + 14

AndNotCmp(w) == IF Pin!HasMask(w, Pin!IntrCmp) THEN w - Pin!IntrCmp ELSE w

Current == IF step = ClearCmp THEN [Program[step] EXCEPT !.word = AndNotCmp(word)]
           ELSE Program[step]

(***************************************************************************)
(* The CPU.                                                                *)
(***************************************************************************)

Init == /\ PlInit
        /\ step = 1 /\ handler = 0 /\ word = 0 /\ before = 0 /\ uart_irqs = 0
        /\ pending = FALSE /\ verdict = "running" /\ seen = {}

\* NVIC_ISER0 and irq_on() come just before PutI, irq_off() before MaskRx.
Taken == pending /\ step \in PutI .. MaskRx /\ handler = 0

\* main() makes its next access, unless it has failed or ended.
Main == /\ verdict = "running" /\ handler = 0
        /\ ~(step = MaskRx /\ Taken)
        /\ Perform(Current)
        /\ word' = IF Current.kind = "load" THEN Loaded(Current) ELSE word
        /\ UNCHANGED <<step, handler, before, uart_irqs, pending, verdict, seen>>

TakeIrq == /\ Taken /\ pc = "idle"
           /\ handler' = 1 /\ uart_irqs' = uart_irqs + 1 /\ pending' = FALSE
           /\ UNCHANGED <<kernelVars, accessVars, plVars, step, word, before, verdict, seen>>

\* g_uart_irqs++; (void)UART_DR; UART_ICR = UART_INT_RX.
Handler == /\ \/ handler = 1 /\ UartAccess(Load("uart", "DR", "none", 0))
              \/ handler = 2 /\ UartAccess(Store("uart", "ICR", {"RX"}))
           /\ UNCHANGED mainVars

Bits(a, w) == IF a.dev = "timer" THEN Pin!HasMask(w, a.word) ELSE a.word \in w

\* What main() makes of word w, the answer to access a.
Accepts(a, w) == CASE a.check = "equal" -> w = a.word
                   [] a.check = "bit" -> Bits(a, w)
                   [] a.check = "no_bit" -> ~Bits(a, w)
                   [] step = MaskRx -> uart_irqs # 0
                   [] step = Second -> w = before
                   [] OTHER -> TRUE

\* An access is answered.  The NVIC sees the lines; an exception return
\* latches a line again that is still high.
Answered ==
  /\ Answer
  /\ LET w == IF pc = "respond" /\ access.kind = "read" THEN rdata ELSE word
     IN IF handler # 0
        THEN /\ handler' = (handler + 1) % 3
             /\ UNCHANGED <<step, word, before, verdict>>
        ELSE /\ word' = w
             /\ step' = IF Program[step].check = "until" /\ ~Bits(Program[step], w)
                        THEN step ELSE step + 1
             /\ before' = IF step = First THEN w ELSE before
             /\ verdict' = IF ~Accepts(Program[step], w) THEN "fail"
                           ELSE IF step = Len(Program) THEN "pass" ELSE verdict
             /\ UNCHANGED handler
  /\ pending' = (pending \/ ("uart_irq" \in irqs' /\ ("uart_irq" \notin irqs \/ handler' = 0)))
  /\ seen' = seen \cup irqs'
  /\ UNCHANGED uart_irqs

Pl == Silicon /\ UNCHANGED mainVars

Next == Main \/ TakeIrq \/ Handler \/ Answered \/ Pl

\* The simulation runs, and the guest's next access gets to the server at
\* some poll of the socket.
Spec == /\ Init /\ [][Next]_vars
        /\ WF_vars(Answered \/ Pl)
        /\ SF_vars(Main) /\ SF_vars(TakeIrq) /\ SF_vars(Handler)

(***************************************************************************)
(* Properties.                                                             *)
(***************************************************************************)

\* main.c, all seven tests: they end and pass, however long each access takes.
\* The characters come back in order, the handler runs before interrupts are
\* masked again, the watchdog expires and the timer's polls end.
AllTestsPass == <>(verdict = "pass")

\* No check of main() ever finds anything else than it expects, wherever the
\* interrupt, the watchdog and the timer fall between its accesses: what it
\* stored is what it loads, the handler has run when interrupts are masked, and
\* a timer that was stopped stands still.
NoTestFails == verdict # "fail"

\* One character is one interrupt: the line has fallen when UART_Handler()
\* returns, and the handler always finds the character it was called for.
OneInterrupt == uart_irqs <= 1 /\ (handler = 1 /\ pc = "idle" => rx # <<>>)

\* Every response carries the level each of the five lines has in the
\* registers of its device at that moment, whichever device was accessed and
\* whichever process packs the lines last.
ResponseShowsDevices ==
  [][pc # "idle" /\ pc' = "idle" => irqs' = DeviceLevels]_vars

\* An interrupt reaches the guest only with the answer to some access, yet by
\* the end of the tests each line has been up at the NVIC: none rises and
\* falls unseen between two accesses of the firmware.
EveryLineReachesNvic == verdict = "pass" => seen = Lines

\* The firmware leaves no line up behind it: during test 6 only the timer's
\* are, even if the watchdog expired again while test 5 turned it off.
OnlyTimerLinesLeft == step > TimerTest => irqs \subseteq {"intr1", "intr2"}

=============================================================================
