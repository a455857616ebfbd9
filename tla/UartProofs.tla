----------------------------- MODULE UartProofs -----------------------------
(***************************************************************************)
(* Proofs about UartPl011, for any FIFO depth, alphabet and timing.        *)
(***************************************************************************)
EXTENDS UartPl011, PlAccessProofs

\* No process of the UART waits for the clock, so none is made runnable by it.
TypeInv == TypeOK /\ alarm["clk"] = Off

Inv == TypeInv /\ RxHasData /\ Announced

LEMMA AppendRoom ==
  ASSUME rx \in Seq(Chars), NEW ch \in Chars, Len(rx) < FIFO_DEPTH
  PROVE  /\ Append(rx, ch) \in Seq(Chars) /\ Append(rx, ch) # <<>>
         /\ Len(Append(rx, ch)) <= FIFO_DEPTH
<1>1. Append(rx, ch) \in Seq(Chars) /\ Len(Append(rx, ch)) = Len(rx) + 1
  OBVIOUS
<1>2. Len(rx) \in Nat /\ FIFO_DEPTH \in Nat
  BY UartAssumption
<1>3. Append(rx, ch) # <<>>
  OBVIOUS
<1> QED
  BY <1>1, <1>2, <1>3

LEMMA TailRoom ==
  ASSUME rx \in Seq(Chars), rx # <<>>, Len(rx) <= FIFO_DEPTH
  PROVE  Tail(rx) \in Seq(Chars) /\ Len(Tail(rx)) <= FIFO_DEPTH
<1>1. Tail(rx) \in Seq(Chars) /\ Len(Tail(rx)) = Len(rx) - 1
  OBVIOUS
<1>2. Len(rx) \in Nat /\ FIFO_DEPTH \in Nat
  BY UartAssumption
<1> QED
  BY <1>1, <1>2

LEMMA ResetRoom == <<>> \in Seq(Chars) /\ Len(<<>>) <= FIFO_DEPTH
  BY UartAssumption

LEMMA InitInv == Init => Inv
<1> SUFFICES ASSUME Init PROVE Inv
  OBVIOUS
<1>1. /\ AccessTypeOK /\ resume = {} /\ alarm["clk"] = Off
      /\ runnable \subseteq {"server", "pack_irqs", "uart_reset"}
  BY InitAccessType DEF Init
<1>2. sig \in Signals /\ nxt \in Signals
  BY DEF Init, Signals
<1>3. TypeOK
  BY <1>1, <1>2, ResetRoom DEF Init, AfterReset, TypeOK, Controls, Interrupts
<1>4. RxHasData /\ Announced
  BY DEF Init, AfterReset, RxHasData, Announced
<1> QED
  BY <1>1, <1>3, <1>4 DEF Inv, TypeInv

\* A call of the UART keeps the types of all that is not the UART's.
LEMMA UartCall ==
  ASSUME TypeInv, NEW S \in SUBSET {"uart_drive"}, Call(S)
  PROVE  /\ AccessTypeOK' /\ runnable' \subseteq runnable \cup {"uart_drive"}
         /\ alarm'["clk"] = Off /\ UNCHANGED <<resume, sig, nxt>>
<1>1. AccessTime \in Nat
  BY AccessAssumption
<1> QED
  BY <1>1, CallType DEF Call, TypeInv, TypeOK

LEMMA TransmitInv ==
  ASSUME Inv, NEW ch \in Chars, WriteDR(ch)
  PROVE  Inv'
<1> USE DEF Inv, TypeInv
<1>1. /\ AccessTypeOK' /\ runnable' \subseteq runnable \cup {"uart_drive"}
      /\ alarm'["clk"] = Off /\ UNCHANGED <<resume, sig, nxt>>
  BY UartCall DEF WriteDR
<1>2. CASE {"LBE", "RXE"} \subseteq cr /\ Room
  <2>1. rx' = Append(rx, ch) /\ ris' = ris \cup Interrupts /\ acked' = FALSE
    BY <1>2 DEF WriteDR
  <2>2. rx' \in Seq(Chars) /\ rx' # <<>> /\ Len(rx') <= FIFO_DEPTH
    BY <1>2, <2>1, AppendRoom DEF Room, TypeOK
  <2>3. "RX" \in ris'
    BY <2>1 DEF Interrupts
  <2>4. RxHasData' /\ Announced'
    BY <2>2, <2>3 DEF RxHasData, Announced
  <2>5. TypeOK'
    BY <1>1, <2>1, <2>2 DEF WriteDR, TypeOK
  <2> QED
    BY <1>1, <2>4, <2>5
<1>3. CASE ~({"LBE", "RXE"} \subseteq cr /\ Room)
  <2>1. ris' = ris \cup {"TX"} /\ UNCHANGED <<rx, acked, cr, imsc>>
    BY <1>3 DEF WriteDR
  <2>2. RxHasData' /\ Announced'
    BY <2>1 DEF RxHasData, Announced
  <2>3. TypeOK'
    BY <1>1, <2>1 DEF TypeOK, Interrupts
  <2> QED
    BY <1>1, <2>2, <2>3
<1> QED
  BY <1>2, <1>3

LEMMA ReceiveInv ==
  ASSUME Inv, ReadDR
  PROVE  Inv'
<1> USE DEF Inv, TypeInv
<1>1. /\ AccessTypeOK' /\ runnable' \subseteq runnable \cup {"uart_drive"}
      /\ alarm'["clk"] = Off /\ UNCHANGED <<resume, sig, nxt>>
  BY UartCall DEF ReadDR
<1>2. CASE rx # <<>>
  <2>1. /\ rx' = Tail(rx) /\ UNCHANGED <<cr, imsc, acked>>
        /\ ris' = IF rx' = <<>> THEN ris \ {"RX"} ELSE ris
    BY <1>2 DEF ReadDR
  <2>2. rx' \in Seq(Chars) /\ Len(rx') <= FIFO_DEPTH
    BY <1>2, <2>1, TailRoom DEF TypeOK
  <2>3. RxHasData' /\ Announced'
    BY <1>2, <2>1 DEF RxHasData, Announced
  <2>4. TypeOK'
    BY <1>1, <2>1, <2>2 DEF TypeOK
  <2> QED
    BY <1>1, <2>3, <2>4
<1>3. CASE rx = <<>>
  BY <1>1, <1>3 DEF ReadDR, uartVars, TypeOK, RxHasData, Announced
<1> QED
  BY <1>2, <1>3

LEMMA RequestInv == Inv /\ Request => Inv'
<1> SUFFICES ASSUME Inv, Request PROVE Inv'
  OBVIOUS
<1> USE DEF Inv, TypeInv
<1>1. ASSUME NEW ch \in Chars, WriteDR(ch) PROVE Inv'
  BY <1>1, TransmitInv
<1>2. CASE ReadDR
  BY <1>2, ReceiveInv
<1>3. CASE ReadStatus
  BY <1>3, UartCall DEF ReadStatus, uartVars, TypeOK, RxHasData, Announced
<1>4. ASSUME NEW bits \in SUBSET Controls, WriteCR(bits) PROVE Inv'
  BY <1>4, UartCall DEF WriteCR, TypeOK, RxHasData, Announced
<1>5. ASSUME NEW bits \in SUBSET Interrupts, WriteIMSC(bits) PROVE Inv'
  BY <1>5, UartCall DEF WriteIMSC, TypeOK, RxHasData, Announced
<1>6. ASSUME NEW bits \in SUBSET Interrupts, WriteICR(bits) PROVE Inv'
  <2>1. RxHasData' /\ Announced'
    BY <1>6 DEF WriteICR, RxHasData, Announced
  <2> QED
    BY <1>6, <2>1, UartCall DEF WriteICR, TypeOK
<1> QED
  BY <1>1, <1>2, <1>3, <1>4, <1>5, <1>6 DEF Request

LEMMA DeviceInv == Inv /\ Device => Inv'
<1> SUFFICES ASSUME Inv, Device PROVE Inv'
  OBVIOUS
<1> USE DEF Inv, TypeInv
<1>1. sig.irq_bits \subseteq Lines
  BY DEF TypeOK, Signals
<1>2. /\ AccessTypeOK' /\ runnable' \subseteq runnable \cup {"server"}
      /\ alarm'["clk"] = Off /\ UNCHANGED <<resume, sig>>
      /\ \/ UNCHANGED nxt
         \/ nxt' = [nxt EXCEPT !.reset = FALSE]
         \/ nxt' = [nxt EXCEPT !.irq_bits = Packed(sig)]
  BY <1>1, CommonType DEF Device, TypeOK
<1>3. Packed(sig) \subseteq Lines
  BY DEF Packed
<1>4. nxt' \in Signals
  BY <1>2, <1>3 DEF TypeOK, Signals
<1>5. TypeOK' /\ RxHasData' /\ Announced'
  BY <1>2, <1>4 DEF Device, TypeOK, uartVars, RxHasData, Announced
<1> QED
  BY <1>2, <1>5

LEMMA ProcessInv == Inv /\ (OnReset \/ DriveIrq) => Inv'
<1> SUFFICES ASSUME Inv, OnReset \/ DriveIrq PROVE Inv'
  OBVIOUS
<1> USE DEF Inv, TypeInv, Runs, WaitEvent
<1>1. CASE OnReset
  <2>1. TypeOK'
    BY <1>1, ResetRoom DEF OnReset, TypeOK, AccessTypeOK, accessVars, uartVars,
                           Controls, Interrupts
  <2>2. RxHasData' /\ Announced'
    BY <1>1 DEF OnReset, uartVars, RxHasData, Announced
  <2> QED
    BY <1>1, <2>1, <2>2 DEF OnReset
<1>2. CASE DriveIrq
  <2>1. nxt' \in Signals
    BY <1>2 DEF DriveIrq, TypeOK, Signals
  <2>2. TypeOK' /\ RxHasData' /\ Announced'
    BY <1>2, <2>1 DEF DriveIrq, TypeOK, AccessTypeOK, accessVars, uartVars,
                      RxHasData, Announced
  <2> QED
    BY <1>2, <2>2 DEF DriveIrq
<1> QED
  BY <1>1, <1>2

LEMMA SchedulerInv == Inv /\ Scheduler => Inv'
<1> SUFFICES ASSUME Inv, Scheduler PROVE Inv'
  OBVIOUS
<1> USE DEF Inv, TypeInv
<1>1. CASE Update(Woken)
  BY <1>1 DEF Scheduler, Update, Woken, TypeOK, AccessTypeOK, accessVars, uartVars,
              RxHasData, Announced
<1>2. CASE Advance
  <2>1. /\ alarm' \in [Timed -> Nat] /\ alarm'["clk"] = Off
        /\ runnable' \subseteq {p \in Timed : alarm[p] # Off}
        /\ UNCHANGED <<resume, sig, nxt>>
    BY <1>2, AdvanceType DEF TypeOK, AccessTypeOK
  <2>2. runnable' \subseteq {"server", "reset_seq"}
    BY <2>1 DEF Timed
  <2> QED
    BY <2>1, <2>2 DEF Scheduler, TypeOK, AccessTypeOK, accessVars, uartVars,
                      RxHasData, Announced
<1> QED
  BY <1>1, <1>2 DEF Scheduler

LEMMA StutterInv == Inv /\ UNCHANGED vars => Inv'
  BY DEF Inv, TypeInv, TypeOK, AccessTypeOK, RxHasData, Announced, vars, kernelVars,
         accessVars, uartVars

LEMMA Inductive == Spec => []Inv
<1>1. Inv /\ [Next]_vars => Inv'
  BY RequestInv, DeviceInv, ProcessInv, SchedulerInv, StutterInv DEF Next
<1> QED
  BY InitInv, <1>1, PTL DEF Spec

\* For any depth the receive FIFO never holds more characters than it has
\* room for, whatever is sent in loopback and however little is read.
THEOREM TypeCorrect == Spec => []TypeOK
<1>1. Inv => TypeOK
  BY DEF Inv, TypeInv
<1> QED
  BY <1>1, Inductive, PTL

\* A raised receive interrupt always has a character behind it.
THEOREM NeverSpurious == Spec => []RxHasData
<1>1. Inv => RxHasData
  BY DEF Inv
<1> QED
  BY <1>1, Inductive, PTL

\* Characters in the FIFO are announced, unless the guest cleared RX itself.
THEOREM CharactersAnnounced == Spec => []Announced
<1>1. Inv => Announced
  BY DEF Inv
<1> QED
  BY <1>1, Inductive, PTL

(***************************************************************************)
(* The way of a level from the registers to the response.  Until drive_irq *)
(* has run the registers are ahead of the signal, until pack_irqs has run  *)
(* the signal is ahead of irq_bits; but the server thread runs again only  *)
(* when simulated time has passed, and it does not pass before both have.  *)
(***************************************************************************)

Driven == "uart_drive" \in runnable \/ (nxt.uart_irq <=> ris \cap imsc # {})

PackedIrqs == "pack_irqs" \in runnable \/ ("uart_irq" \in nxt.irq_bits <=> sig.uart_irq)

Answering == pc = "access" /\ "server" \in runnable =>
               /\ runnable \subseteq {"server", "reset_seq"}
               /\ nxt.uart_irq = sig.uart_irq /\ nxt.irq_bits = sig.irq_bits

LevelInv == Driven /\ PackedIrqs /\ Answering

LEMMA PackedLevel ==
  ASSUME TypeOK
  PROVE  "uart_irq" \in Packed(sig) <=> sig.uart_irq
  BY DEF TypeOK, Signals, Packed, Lines

LEMMA InitLevel == Init => LevelInv
  BY DEF Init, AccessInit, AfterReset, LevelInv, Driven, PackedIrqs, Answering

LEMMA RequestLevel == TypeOK /\ LevelInv /\ Request => LevelInv'
<1> SUFFICES ASSUME TypeOK, LevelInv, Request PROVE LevelInv'
  OBVIOUS
<1> USE DEF LevelInv, Driven, PackedIrqs, Answering, Call, CallFor, Runs
<1>1. ASSUME NEW ch \in Chars, WriteDR(ch) PROVE LevelInv'
  BY <1>1 DEF WriteDR
<1>2. CASE ReadDR
  BY <1>2 DEF ReadDR, uartVars
<1>3. CASE ReadStatus
  BY <1>3 DEF ReadStatus, uartVars
<1>4. ASSUME NEW bits \in SUBSET Controls, WriteCR(bits) PROVE LevelInv'
  BY <1>4 DEF WriteCR
<1>5. ASSUME NEW bits \in SUBSET Interrupts, WriteIMSC(bits) \/ WriteICR(bits)
      PROVE  LevelInv'
  BY <1>5 DEF WriteIMSC, WriteICR
<1> QED
  BY <1>1, <1>2, <1>3, <1>4, <1>5 DEF Request

LEMMA DeviceLevel == TypeOK /\ LevelInv /\ Device => LevelInv'
<1> SUFFICES ASSUME TypeOK, LevelInv, Device PROVE LevelInv'
  OBVIOUS
<1> USE DEF LevelInv, Driven, PackedIrqs, Answering, Runs, accessVars, uartVars
<1>1. CASE Poll
  BY <1>1 DEF Poll, Device
<1>2. CASE Respond
  BY <1>2 DEF Respond, Device
<1>3. CASE Release
  BY <1>3 DEF Release, Device, TypeOK, Signals
<1>4. CASE PackIrqs
  <2>1. nxt'.uart_irq = nxt.uart_irq /\ nxt'.irq_bits = Packed(sig) /\ sig' = sig
    BY <1>4 DEF PackIrqs, TypeOK, Signals
  <2>2. "uart_irq" \in nxt'.irq_bits <=> sig.uart_irq
    BY <2>1, PackedLevel
  <2>3. ~(pc' = "access" /\ "server" \in runnable')
    BY <1>4 DEF PackIrqs
  <2> QED
    BY <1>4, <2>1, <2>2, <2>3 DEF PackIrqs, Device
<1> QED
  BY <1>1, <1>2, <1>3, <1>4 DEF Device

LEMMA ProcessLevel == TypeOK /\ LevelInv /\ (OnReset \/ DriveIrq) => LevelInv'
<1> SUFFICES ASSUME TypeOK, LevelInv, OnReset \/ DriveIrq PROVE LevelInv'
  OBVIOUS
<1> USE DEF LevelInv, Driven, PackedIrqs, Answering, Runs, accessVars, uartVars
<1>1. CASE OnReset
  BY <1>1 DEF OnReset
<1>2. CASE DriveIrq
  <2>1. /\ nxt'.uart_irq = (ris \cap imsc # {})
        /\ nxt'.irq_bits = nxt.irq_bits
    BY <1>2 DEF DriveIrq, TypeOK, Signals
  <2> QED
    BY <1>2, <2>1 DEF DriveIrq
<1> QED
  BY <1>1, <1>2

LEMMA SchedulerLevel == TypeInv /\ LevelInv /\ Scheduler => LevelInv'
<1> SUFFICES ASSUME TypeInv, LevelInv, Scheduler PROVE LevelInv'
  OBVIOUS
<1> USE DEF LevelInv, Driven, PackedIrqs, Answering, accessVars, uartVars
<1>1. CASE Update(Woken)
  <2>1. runnable = {} /\ resume = {} /\ sig' = nxt /\ nxt' = nxt /\ runnable' = Woken
    BY <1>1 DEF Update, TypeInv, TypeOK
  <2>2. "server" \notin runnable'
    BY <2>1 DEF Woken
  <2>3. nxt.uart_irq # sig.uart_irq => "pack_irqs" \in runnable'
    BY <2>1 DEF Woken
  <2> QED
    BY <1>1, <2>1, <2>2, <2>3 DEF Scheduler
<1>2. CASE Advance
  <2>1. /\ runnable' \subseteq {p \in Timed : alarm[p] # Off}
        /\ UNCHANGED <<resume, sig, nxt>> /\ runnable = {} /\ nxt = sig
    BY <1>2, AdvanceType DEF TypeInv, TypeOK, AccessTypeOK, Advance, Settled
  <2>2. runnable' \subseteq {"server", "reset_seq"}
    BY <2>1 DEF Timed, TypeInv
  <2> QED
    BY <2>1, <2>2 DEF Scheduler
<1> QED
  BY <1>1, <1>2 DEF Scheduler

LEMMA StutterLevel == LevelInv /\ UNCHANGED vars => LevelInv'
  BY DEF LevelInv, Driven, PackedIrqs, Answering, vars, kernelVars, accessVars, uartVars

\* For any FIFO depth and any time an access takes, a response carries
\* the level the registers have when it is sent.
THEOREM LevelsAnswered == Spec => ResponseLevel
<1>1. Inv /\ LevelInv /\ [Next]_vars => LevelInv'
  BY RequestLevel, DeviceLevel, ProcessLevel, SchedulerLevel, StutterLevel
     DEF Next, Inv, TypeInv
<1>2. ASSUME TypeOK, LevelInv, [Next]_vars, pc = "access", pc' = "idle"
      PROVE  "uart_irq" \in irqs' <=> ris \cap imsc # {}
  <2>1. Respond
    BY <1>2 DEF Next, Request, WriteDR, ReadDR, ReadStatus, WriteCR, WriteIMSC,
                WriteICR, Call, CallFor, Device, Poll, Release, PackIrqs, OnReset,
                DriveIrq, Scheduler, vars, accessVars
  <2>2. irqs' = sig.irq_bits /\ "server" \in runnable
    BY <2>1 DEF Respond, Runs
  <2>3. runnable \subseteq {"server", "reset_seq"} /\ nxt.uart_irq = sig.uart_irq
        /\ nxt.irq_bits = sig.irq_bits
    BY <1>2, <2>2 DEF LevelInv, Answering
  <2> QED
    BY <1>2, <2>2, <2>3 DEF LevelInv, Driven, PackedIrqs
<1>3. Inv /\ LevelInv /\ [Next]_vars =>
        [pc = "access" /\ pc' = "idle" =>
           ("uart_irq" \in irqs' <=> ris \cap imsc # {})]_vars
  BY <1>2 DEF Inv, TypeInv
<1> QED
  BY Inductive, InitLevel, <1>1, <1>3, PTL DEF Spec, ResponseLevel

=============================================================================
