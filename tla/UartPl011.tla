----------------------------- MODULE UartPl011 -----------------------------
(***************************************************************************)
(* The UART (src/peripherals/uart_pl011.h).  It has no line: what it       *)
(* receives is what it sends, in loopback.  The character printed on the   *)
(* host's console, and the registers that are only stored (IBRD, FBRD,     *)
(* LCRH), are left out.                                                    *)
(***************************************************************************)
EXTENDS PlAccess, Sequences

CONSTANTS FIFO_DEPTH, Chars

ASSUME UartAssumption == FIFO_DEPTH \in Nat \ {0}

VARIABLES cr,    \* the bits of CR that are set, of those that matter here
          imsc,  \* interrupts enabled
          ris,   \* interrupts raised
          rx,    \* receive FIFO
          acked  \* history: RX was cleared by a store to ICR since the latest
                 \* character arrived

uartVars == <<cr, imsc, ris, rx, acked>>
vars == <<kernelVars, accessVars, uartVars>>

Controls == {"RXE", "LBE"}
Interrupts == {"RX", "TX"}

Signals == [reset : BOOLEAN, uart_irq : BOOLEAN, irq_bits : SUBSET Lines]

TypeOK == /\ runnable \subseteq {"server", "reset_seq", "pack_irqs", "uart_reset", "uart_drive"}
          /\ resume = {}
          /\ sig \in Signals /\ nxt \in Signals
          /\ AccessTypeOK
          /\ cr \subseteq Controls
          /\ imsc \subseteq Interrupts /\ ris \subseteq Interrupts
          /\ rx \in Seq(Chars) /\ Len(rx) <= FIFO_DEPTH
          /\ acked \in BOOLEAN

AfterReset == cr = {"RXE"} /\ imsc = {} /\ ris = {"TX"} /\ rx = <<>> /\ acked = FALSE

Init == /\ AccessInit({"uart_reset"})
        /\ sig = [reset |-> TRUE, uart_irq |-> FALSE, irq_bits |-> {}]
        /\ nxt = sig
        /\ AfterReset

OnReset == /\ Runs("uart_reset", IF sig.reset THEN {"uart_drive"} ELSE {})
           /\ IF sig.reset
              THEN /\ cr' = {"RXE"} /\ imsc' = {} /\ ris' = {"TX"} /\ rx' = <<>>
                   /\ acked' = FALSE
              ELSE UNCHANGED uartVars
           /\ WaitEvent /\ UNCHANGED <<sig, nxt, accessVars>>

\* Mutant: the line is raised and never lowered.
DriveIrqUp == /\ Runs("uart_drive", {})
              /\ nxt' = [nxt EXCEPT !.uart_irq = @ \/ ris \cap imsc # {}]
              /\ WaitEvent /\ UNCHANGED <<sig, accessVars, uartVars>>

DriveIrq == /\ Runs("uart_drive", {})
            /\ nxt' = [nxt EXCEPT !.uart_irq = ris \cap imsc # {}]
            /\ WaitEvent /\ UNCHANGED <<sig, accessVars, uartVars>>

(***************************************************************************)
(* The accesses.                                                           *)
(***************************************************************************)

\* Mutant: `size() <= FIFO_DEPTH', one character too many.
RoomForOneMore == Len(rx) <= FIFO_DEPTH
Room == Len(rx) < FIFO_DEPTH

\* Mutant: a character received does not raise its interrupt.
WriteDRUnraised(ch) ==
  /\ Call({"uart_drive"})
  /\ IF {"LBE", "RXE"} \subseteq cr /\ Room
     THEN rx' = Append(rx, ch) /\ acked' = FALSE
     ELSE UNCHANGED <<rx, acked>>
  /\ ris' = ris \cup {"TX"}
  /\ UNCHANGED <<cr, imsc>>

\* transmit(): a character that finds the FIFO full is dropped.
WriteDR(ch) ==
  /\ Call({"uart_drive"})
  /\ IF {"LBE", "RXE"} \subseteq cr /\ Room
     THEN rx' = Append(rx, ch) /\ ris' = ris \cup Interrupts /\ acked' = FALSE
     ELSE ris' = ris \cup {"TX"} /\ UNCHANGED <<rx, acked>>
  /\ UNCHANGED <<cr, imsc>>

\* Mutant: the last character taken leaves the interrupt raised.
ReadDRKeepsRx ==
  \/ /\ rx # <<>> /\ Call({"uart_drive"})
     /\ rx' = Tail(rx)
     /\ UNCHANGED <<cr, imsc, ris, acked>>
  \/ /\ rx = <<>> /\ Call({})
     /\ UNCHANGED uartVars

\* Mutant: every character taken clears the interrupt.
ReadDRClearsRx ==
  \/ /\ rx # <<>> /\ Call({"uart_drive"})
     /\ rx' = Tail(rx)
     /\ ris' = ris \ {"RX"}
     /\ UNCHANGED <<cr, imsc, acked>>
  \/ /\ rx = <<>> /\ Call({})
     /\ UNCHANGED uartVars

\* Mutant: reading a character does not notify drive_irq.
ReadDRQuiet ==
  /\ Call({})
  /\ rx' = IF rx = <<>> THEN rx ELSE Tail(rx)
  /\ ris' = IF rx # <<>> /\ rx' = <<>> THEN ris \ {"RX"} ELSE ris
  /\ UNCHANGED <<cr, imsc, acked>>

ReadDR ==
  \/ /\ rx # <<>> /\ Call({"uart_drive"})
     /\ rx' = Tail(rx)
     /\ ris' = IF rx' = <<>> THEN ris \ {"RX"} ELSE ris
     /\ UNCHANGED <<cr, imsc, acked>>
  \/ /\ rx = <<>> /\ Call({})
     /\ UNCHANGED uartVars

\* A register other than DR is read; IBRD, FBRD, LCRH or none is written.
ReadStatus == Call({}) /\ UNCHANGED uartVars

WriteCR(bits) == Call({}) /\ cr' = bits /\ UNCHANGED <<imsc, ris, rx, acked>>

WriteIMSC(bits) == /\ Call({"uart_drive"})
                   /\ imsc' = bits /\ UNCHANGED <<cr, ris, rx, acked>>

WriteICR(bits) == /\ Call({"uart_drive"})
                  /\ ris' = ris \ bits
                  /\ acked' = (acked \/ "RX" \in bits)
                  /\ UNCHANGED <<cr, imsc, rx>>

\* The word a load of DR, FR or RIS returns; of FR, the bit that matters.
Word(reg) == CASE reg = "DR" -> IF rx = <<>> THEN "none" ELSE Head(rx)
               [] reg = "FR" -> IF rx = <<>> THEN {"RXFE"} ELSE {}
               [] reg = "RIS" -> ris

Request == \/ \E ch \in Chars : WriteDR(ch)
           \/ ReadDR \/ ReadStatus
           \/ \E bits \in SUBSET Controls : WriteCR(bits)
           \/ \E bits \in SUBSET Interrupts : WriteIMSC(bits) \/ WriteICR(bits)

Woken == (IF nxt.reset # sig.reset THEN {"uart_reset"} ELSE {})
         \cup (IF nxt.uart_irq # sig.uart_irq THEN {"pack_irqs"} ELSE {})

Device == (Poll \/ Respond \/ Release \/ PackIrqs) /\ UNCHANGED uartVars

Scheduler == (Update(Woken) \/ Advance) /\ UNCHANGED <<accessVars, uartVars>>

Next == Request \/ Device \/ OnReset \/ DriveIrq \/ Scheduler

Spec == Init /\ [][Next]_vars

(***************************************************************************)
(* Properties.                                                             *)
(***************************************************************************)

\* A raised receive interrupt has a character for its handler, whatever was
\* read, cleared, dropped or reset: it is never spurious.
RxHasData == "RX" \in ris => rx # <<>>

\* Characters that wait in the FIFO are announced by a raised interrupt; only
\* a guest that has itself cleared RX since the latest of them arrived is not
\* told of what is left.
Announced == rx # <<>> => "RX" \in ris \/ acked

\* Every response carries the level that RIS and IMSC then have: a handler
\* that takes the last character sees the line fall with that access.
ResponseLevel ==
  [][pc = "access" /\ pc' = "idle" =>
       ("uart_irq" \in irqs' <=> ris \cap imsc # {})]_vars

=============================================================================
