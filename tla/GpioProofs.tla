----------------------------- MODULE GpioProofs -----------------------------
(***************************************************************************)
(* Proofs about GpioApb, for any set of pins and any timing.               *)
(***************************************************************************)
EXTENDS GpioApb, PlAccessProofs

\* No process of the block waits for the clock, so none is made runnable by it.
TypeInv == TypeOK /\ alarm["clk"] = Off

Inv == TypeInv /\ LevelPending

\* What note_edges() makes of INTSTAT is a set of pins.
LEMMA NoteEdgesType ==
  ASSUME intstat \subseteq Pins, inten' \subseteq Pins, NEW cleared, NoteEdges(cleared)
  PROVE  intstat' \subseteq Pins
  BY DEF NoteEdges

\* After note_edges() every level interrupt at its level is pending, however
\* the registers came to be as they are.
LEMMA NoteEdgesPending ==
  ASSUME NEW cleared, NoteEdges(cleared)
  PROVE  LevelPending'
  BY DEF NoteEdges, Triggered, LevelPending, High

LEMMA StoreType ==
  ASSUME TypeOK, NEW reg, NEW value \in SUBSET Pins, Store(reg, value)
  PROVE  /\ dir' \subseteq Pins /\ out' \subseteq Pins /\ inten' \subseteq Pins
         /\ inttype' \subseteq Pins /\ intpol' \subseteq Pins /\ intstat' \subseteq Pins
<1>1. out' \subseteq Pins
  BY DEF Store, TypeOK
<1>2. /\ dir' \subseteq Pins /\ inten' \subseteq Pins
      /\ inttype' \subseteq Pins /\ intpol' \subseteq Pins
  BY DEF Store, TypeOK
<1>3. intstat' \subseteq Pins
  BY <1>2, NoteEdgesType DEF Store, TypeOK
<1> QED
  BY <1>1, <1>2, <1>3

LEMMA InitInv == Init => Inv
<1> SUFFICES ASSUME Init PROVE Inv
  OBVIOUS
<1>1. /\ AccessTypeOK /\ resume = {} /\ alarm["clk"] = Off
      /\ runnable \subseteq {"server", "pack_irqs", "gpio_reset"}
  BY InitAccessType DEF Init
<1>2. sig \in Signals /\ nxt \in Signals
  BY DEF Init, Signals
<1>3. TypeOK
  BY <1>1, <1>2 DEF Init, Cleared, TypeOK
<1>4. LevelPending
  BY DEF Init, Cleared, LevelPending
<1> QED
  BY <1>1, <1>3, <1>4 DEF Inv, TypeInv

LEMMA RequestInv == Inv /\ Request => Inv'
<1> SUFFICES ASSUME Inv, Request PROVE Inv'
  OBVIOUS
<1> USE DEF Inv, TypeInv
<1>1. AccessTime \in Nat
  BY AccessAssumption
<1>2. CASE Read
  <2>1. /\ AccessTypeOK' /\ runnable' \subseteq runnable /\ alarm'["clk"] = Off
        /\ UNCHANGED <<resume, sig, nxt>>
    BY <1>1, <1>2, CallType DEF Read, Call, TypeOK
  <2>2. TypeOK'
    BY <1>2, <2>1 DEF Read, TypeOK, gpioVars
  <2>3. LevelPending'
    BY <1>2 DEF Read, gpioVars, LevelPending, High
  <2> QED
    BY <2>1, <2>2, <2>3
<1>3. ASSUME NEW reg \in Writable, NEW value \in SUBSET Pins, Write(reg, value)
      PROVE  Inv'
  <2>1. /\ AccessTypeOK' /\ runnable' \subseteq runnable \cup {"gpio_drive"}
        /\ alarm'["clk"] = Off /\ UNCHANGED <<resume, sig, nxt>>
    BY <1>1, <1>3, CallType DEF Write, Call, TypeOK
  <2>2. TypeOK'
    BY <1>3, <2>1, StoreType DEF Write, TypeOK
  <2>3. LevelPending'
    BY <1>3, NoteEdgesPending DEF Write, Store
  <2> QED
    BY <2>1, <2>2, <2>3
<1> QED
  BY <1>2, <1>3 DEF Request

LEMMA DeviceInv == Inv /\ Device => Inv'
<1> SUFFICES ASSUME Inv, Device PROVE Inv'
  OBVIOUS
<1> USE DEF Inv, TypeInv
<1>1. sig.irq_bits \subseteq Lines
  BY DEF TypeOK, Signals
<1>2. /\ AccessTypeOK' /\ runnable' \subseteq runnable \cup {"server"}
      /\ alarm'["clk"] = Off /\ UNCHANGED <<resume, sig>>
      /\ \/ UNCHANGED nxt
         \/ nxt' = [nxt EXCEPT !.reset = FALSE]
         \/ nxt' = [nxt EXCEPT !.irq_bits = Packed(sig)]
  BY <1>1, CommonType DEF Device, TypeOK
<1>3. Packed(sig) \subseteq Lines
  BY DEF Packed
<1>4. nxt' \in Signals
  BY <1>2, <1>3 DEF TypeOK, Signals
<1>5. TypeOK' /\ LevelPending'
  BY <1>2, <1>4 DEF Device, TypeOK, gpioVars, LevelPending, High
<1> QED
  BY <1>2, <1>5

LEMMA ProcessInv == Inv /\ (OnReset \/ DriveIrq) => Inv'
<1> SUFFICES ASSUME Inv, OnReset \/ DriveIrq PROVE Inv'
  OBVIOUS
<1> USE DEF Inv, TypeInv, Runs, WaitEvent
<1>1. CASE OnReset
  <2>1. TypeOK'
    BY <1>1 DEF OnReset, TypeOK, AccessTypeOK, accessVars, gpioVars
  <2>2. LevelPending'
    BY <1>1 DEF OnReset, gpioVars, LevelPending, High
  <2> QED
    BY <1>1, <2>1, <2>2 DEF OnReset
<1>2. CASE DriveIrq
  <2>1. nxt' \in Signals
    BY <1>2 DEF DriveIrq, TypeOK, Signals
  <2>2. TypeOK'
    BY <1>2, <2>1 DEF DriveIrq, TypeOK, AccessTypeOK, accessVars, gpioVars
  <2>3. LevelPending'
    BY <1>2 DEF DriveIrq, gpioVars, LevelPending, High
  <2> QED
    BY <1>2, <2>2, <2>3 DEF DriveIrq
<1> QED
  BY <1>1, <1>2

LEMMA SchedulerInv == Inv /\ Scheduler => Inv'
<1> SUFFICES ASSUME Inv, Scheduler PROVE Inv'
  OBVIOUS
<1> USE DEF Inv, TypeInv
<1>1. CASE Update(Woken)
  BY <1>1 DEF Scheduler, Update, Woken, TypeOK, AccessTypeOK, accessVars, gpioVars,
              LevelPending, High
<1>2. CASE Advance
  <2>1. /\ alarm' \in [Timed -> Nat] /\ alarm'["clk"] = Off
        /\ runnable' \subseteq {p \in Timed : alarm[p] # Off}
        /\ UNCHANGED <<resume, sig, nxt>>
    BY <1>2, AdvanceType DEF TypeOK, AccessTypeOK
  <2>2. runnable' \subseteq {"server", "reset_seq"}
    BY <2>1 DEF Timed
  <2> QED
    BY <2>1, <2>2 DEF Scheduler, TypeOK, AccessTypeOK, accessVars, gpioVars,
                      LevelPending, High
<1> QED
  BY <1>1, <1>2 DEF Scheduler

LEMMA StutterInv == Inv /\ UNCHANGED vars => Inv'
  BY DEF Inv, TypeInv, TypeOK, AccessTypeOK, LevelPending, High, vars, kernelVars,
         accessVars, gpioVars

LEMMA Inductive == Spec => []Inv
<1>1. Inv /\ [Next]_vars => Inv'
  BY RequestInv, DeviceInv, ProcessInv, SchedulerInv, StutterInv DEF Next
<1> QED
  BY InitInv, <1>1, PTL DEF Spec

\* Every register of the block stays a set of its pins: note_edges() and the
\* stores never set a bit of a pin that is not there.
THEOREM TypeCorrect == Spec => []TypeOK
<1>1. Inv => TypeOK
  BY DEF Inv, TypeInv
<1> QED
  BY <1>1, Inductive, PTL

\* For any number of pins, an enabled level interrupt at its active level is
\* pending in every state, whatever was stored and in whatever order.
THEOREM LevelsPending == Spec => []LevelPending
<1>1. Inv => LevelPending
  BY DEF Inv
<1> QED
  BY <1>1, Inductive, PTL

(***************************************************************************)
(* The way of a level from the registers to the response.  Until drive_irq *)
(* has run the registers are ahead of the signal, until pack_irqs has run  *)
(* the signal is ahead of irq_bits; but the server thread runs again only  *)
(* when simulated time has passed, and it does not pass before both have.  *)
(***************************************************************************)

Driven == "gpio_drive" \in runnable \/ (nxt.gpio_irq <=> intstat \cap inten # {})

PackedIrqs == "pack_irqs" \in runnable \/ ("gpio_irq" \in nxt.irq_bits <=> sig.gpio_irq)

Answering == pc = "access" /\ "server" \in runnable =>
               /\ runnable \subseteq {"server", "reset_seq"}
               /\ nxt.gpio_irq = sig.gpio_irq /\ nxt.irq_bits = sig.irq_bits

LevelInv == Driven /\ PackedIrqs /\ Answering

LEMMA PackedLevel ==
  ASSUME TypeOK
  PROVE  "gpio_irq" \in Packed(sig) <=> sig.gpio_irq
  BY DEF TypeOK, Signals, Packed, Lines

LEMMA InitLevel == Init => LevelInv
  BY DEF Init, AccessInit, Cleared, LevelInv, Driven, PackedIrqs, Answering

LEMMA RequestLevel == TypeOK /\ LevelInv /\ Request => LevelInv'
<1> SUFFICES ASSUME TypeOK, LevelInv, Request PROVE LevelInv'
  OBVIOUS
<1> USE DEF LevelInv, Driven, PackedIrqs, Answering, Call, CallFor, Runs
<1>1. CASE Read
  BY <1>1 DEF Read, gpioVars
<1>2. ASSUME NEW reg \in Writable, NEW value \in SUBSET Pins, Write(reg, value)
      PROVE  LevelInv'
  BY <1>2 DEF Write
<1> QED
  BY <1>1, <1>2 DEF Request

LEMMA DeviceLevel == TypeOK /\ LevelInv /\ Device => LevelInv'
<1> SUFFICES ASSUME TypeOK, LevelInv, Device PROVE LevelInv'
  OBVIOUS
<1> USE DEF LevelInv, Driven, PackedIrqs, Answering, Runs, accessVars, gpioVars
<1>1. CASE Poll
  BY <1>1 DEF Poll, Device
<1>2. CASE Respond
  BY <1>2 DEF Respond, Device
<1>3. CASE Release
  BY <1>3 DEF Release, Device, TypeOK, Signals
<1>4. CASE PackIrqs
  <2>1. nxt'.gpio_irq = nxt.gpio_irq /\ nxt'.irq_bits = Packed(sig) /\ sig' = sig
    BY <1>4 DEF PackIrqs, TypeOK, Signals
  <2>2. "gpio_irq" \in nxt'.irq_bits <=> sig.gpio_irq
    BY <2>1, PackedLevel
  <2>3. ~(pc' = "access" /\ "server" \in runnable')
    BY <1>4 DEF PackIrqs
  <2> QED
    BY <1>4, <2>1, <2>2, <2>3 DEF PackIrqs, Device
<1> QED
  BY <1>1, <1>2, <1>3, <1>4 DEF Device

LEMMA ProcessLevel == TypeOK /\ LevelInv /\ (OnReset \/ DriveIrq) => LevelInv'
<1> SUFFICES ASSUME TypeOK, LevelInv, OnReset \/ DriveIrq PROVE LevelInv'
  OBVIOUS
<1> USE DEF LevelInv, Driven, PackedIrqs, Answering, Runs, accessVars, gpioVars
<1>1. CASE OnReset
  BY <1>1 DEF OnReset
<1>2. CASE DriveIrq
  <2>1. /\ nxt'.gpio_irq = (intstat \cap inten # {})
        /\ nxt'.irq_bits = nxt.irq_bits
    BY <1>2 DEF DriveIrq, TypeOK, Signals
  <2> QED
    BY <1>2, <2>1 DEF DriveIrq
<1> QED
  BY <1>1, <1>2

LEMMA SchedulerLevel == TypeInv /\ LevelInv /\ Scheduler => LevelInv'
<1> SUFFICES ASSUME TypeInv, LevelInv, Scheduler PROVE LevelInv'
  OBVIOUS
<1> USE DEF LevelInv, Driven, PackedIrqs, Answering, accessVars, gpioVars
<1>1. CASE Update(Woken)
  <2>1. runnable = {} /\ resume = {} /\ sig' = nxt /\ nxt' = nxt /\ runnable' = Woken
    BY <1>1 DEF Update, TypeInv, TypeOK
  <2>2. "server" \notin runnable'
    BY <2>1 DEF Woken
  <2>3. nxt.gpio_irq # sig.gpio_irq => "pack_irqs" \in runnable'
    BY <2>1 DEF Woken
  <2> QED
    BY <1>1, <2>1, <2>2, <2>3 DEF Scheduler
<1>2. CASE Advance
  <2>1. /\ runnable' \subseteq {p \in Timed : alarm[p] # Off}
        /\ UNCHANGED <<resume, sig, nxt>> /\ runnable = {} /\ nxt = sig
    BY <1>2, AdvanceType DEF TypeInv, TypeOK, AccessTypeOK, Advance, Settled
  <2>2. runnable' \subseteq {"server", "reset_seq"}
    BY <2>1 DEF Timed, TypeInv
  <2> QED
    BY <2>1, <2>2 DEF Scheduler
<1> QED
  BY <1>1, <1>2 DEF Scheduler

LEMMA StutterLevel == LevelInv /\ UNCHANGED vars => LevelInv'
  BY DEF LevelInv, Driven, PackedIrqs, Answering, vars, kernelVars, accessVars, gpioVars

\* For any number of pins and any time an access takes, a response carries
\* the level the registers have when it is sent.
THEOREM LevelsAnswered == Spec => ResponseLevel
<1>1. Inv /\ LevelInv /\ [Next]_vars => LevelInv'
  BY RequestLevel, DeviceLevel, ProcessLevel, SchedulerLevel, StutterLevel
     DEF Next, Inv, TypeInv
<1>2. ASSUME TypeOK, LevelInv, [Next]_vars, pc = "access", pc' = "idle"
      PROVE  "gpio_irq" \in irqs' <=> intstat \cap inten # {}
  <2>1. Respond
    BY <1>2 DEF Next, Request, Read, Write, Call, CallFor, Device, Poll, Release, PackIrqs,
                OnReset, DriveIrq, Scheduler, vars, accessVars
  <2>2. irqs' = sig.irq_bits /\ "server" \in runnable
    BY <2>1 DEF Respond, Runs
  <2>3. runnable \subseteq {"server", "reset_seq"} /\ nxt.gpio_irq = sig.gpio_irq
        /\ nxt.irq_bits = sig.irq_bits
    BY <1>2, <2>2 DEF LevelInv, Answering
  <2> QED
    BY <1>2, <2>2, <2>3 DEF LevelInv, Driven, PackedIrqs
<1>3. Inv /\ LevelInv /\ [Next]_vars =>
        [pc = "access" /\ pc' = "idle" =>
           ("gpio_irq" \in irqs' <=> intstat \cap inten # {})]_vars
  BY <1>2 DEF Inv, TypeInv
<1> QED
  BY Inductive, InitLevel, <1>1, <1>3, PTL DEF Spec, ResponseLevel

=============================================================================
