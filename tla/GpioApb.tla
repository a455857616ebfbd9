------------------------------ MODULE GpioApb ------------------------------
(***************************************************************************)
(* The GPIO block (src/peripherals/gpio_apb.h).  A register of one bit per *)
(* pin is the set of the pins whose bit is 1; the block has no inputs: a   *)
(* pin is high when it is an output and driven high.                       *)
(***************************************************************************)
EXTENDS PlAccess

CONSTANT Pins

VARIABLES dir, out, inten, inttype, intpol, intstat

gpioVars == <<dir, out, inten, inttype, intpol, intstat>>
vars == <<kernelVars, accessVars, gpioVars>>

Signals == [reset : BOOLEAN, gpio_irq : BOOLEAN, irq_bits : SUBSET Lines]

TypeOK == /\ runnable \subseteq {"server", "reset_seq", "pack_irqs", "gpio_reset", "gpio_drive"}
          /\ resume = {}
          /\ sig \in Signals /\ nxt \in Signals
          /\ AccessTypeOK
          /\ dir \subseteq Pins /\ out \subseteq Pins /\ inten \subseteq Pins
          /\ inttype \subseteq Pins /\ intpol \subseteq Pins /\ intstat \subseteq Pins

Cleared == /\ dir = {} /\ out = {} /\ inten = {} /\ inttype = {} /\ intpol = {}
           /\ intstat = {}

Init == /\ AccessInit({"gpio_reset"})
        /\ sig = [reset |-> TRUE, gpio_irq |-> FALSE, irq_bits |-> {}]
        /\ nxt = sig
        /\ Cleared

OnReset == /\ Runs("gpio_reset", IF sig.reset THEN {"gpio_drive"} ELSE {})
           /\ IF sig.reset
              THEN /\ dir' = {} /\ out' = {} /\ inten' = {} /\ inttype' = {}
                   /\ intpol' = {} /\ intstat' = {}
              ELSE UNCHANGED gpioVars
           /\ WaitEvent /\ UNCHANGED <<sig, nxt, accessVars>>

DriveIrq == /\ Runs("gpio_drive", {})
            /\ nxt' = [nxt EXCEPT !.gpio_irq = intstat \cap inten # {}]
            /\ WaitEvent /\ UNCHANGED <<sig, accessVars, gpioVars>>

High(p) == p \in out \cap dir          \* pin_state()

\* Mutant: the type of the interrupt is not looked at.
TriggeredByLevel(p) == High(p)' <=> p \in intpol'

\* The pins an access makes pending: an edge pin moves to the level of its
\* polarity, a level pin is at it, moved or not.
Triggered(p) == /\ High(p)' <=> p \in intpol'
                /\ p \in inttype' => High(p)' # High(p)

\* Mutant: only pins that move are looked at.
NoteMoves(cleared) ==
  intstat' = (intstat \ cleared) \cup
             {p \in inten' : (High(p)' <=> p \in intpol') /\ High(p)' # High(p)}

\* Mutant: the loop goes on to a pin the block does not have.
NoteEdgesTooFar(cleared) ==
  intstat' = (intstat \ cleared) \cup {p \in inten' \cup {0} : Triggered(p)}

NoteEdges(cleared) ==
  intstat' = (intstat \ cleared) \cup {p \in inten' : Triggered(p)}

\* The registers a store changes, and one that ignores it.
Writable == {"DATA", "SET", "CLR", "DIR", "INTEN", "INTTYPE", "INTPOL", "INTCLR", "ID"}

\* What a store makes of the registers; one to another register changes none,
\* but note_edges() is called after it as after any store.
Store(reg, value) ==
  /\ out' = CASE reg = "DATA" -> value
              [] reg = "SET"  -> out \cup value
              [] reg = "CLR"  -> out \ value
              [] OTHER        -> out
  /\ dir' = IF reg = "DIR" THEN value ELSE dir
  /\ inten' = IF reg = "INTEN" THEN value ELSE inten
  /\ inttype' = IF reg = "INTTYPE" THEN value ELSE inttype
  /\ intpol' = IF reg = "INTPOL" THEN value ELSE intpol
  /\ NoteEdges(IF reg = "INTCLR" THEN value ELSE {})

\* Mutant: only a store to INTCLR notifies drive_irq.
WriteQuiet(reg, value) == /\ Store(reg, value)
                          /\ Call(IF reg = "INTCLR" THEN {"gpio_drive"} ELSE {})

Write(reg, value) == Store(reg, value) /\ Call({"gpio_drive"})

\* The word a load of a register with state behind it returns.
Word(reg) == CASE reg = "DATA" -> {p \in Pins : High(p)}
               [] reg = "DIR" -> dir
               [] reg = "INTEN" -> inten
               [] reg = "INTTYPE" -> inttype
               [] reg = "INTPOL" -> intpol
               [] reg = "INTSTAT" -> intstat
               [] OTHER -> {}

Read == Call({}) /\ UNCHANGED gpioVars

Request == Read \/ \E reg \in Writable, value \in SUBSET Pins : Write(reg, value)

Device == (Poll \/ Respond \/ Release \/ PackIrqs) /\ UNCHANGED gpioVars

Woken == (IF nxt.reset # sig.reset THEN {"gpio_reset"} ELSE {})
         \cup (IF nxt.gpio_irq # sig.gpio_irq THEN {"pack_irqs"} ELSE {})

Scheduler == (Update(Woken) \/ Advance) /\ UNCHANGED <<accessVars, gpioVars>>

Next == Request \/ Device \/ OnReset \/ DriveIrq \/ Scheduler

Spec == Init /\ [][Next]_vars

(***************************************************************************)
(* Properties.                                                             *)
(***************************************************************************)

\* An enabled level interrupt whose pin is at its active level is pending,
\* however the pin, its polarity, its type and its enable came to be so, and
\* INTCLR does not clear it.
LevelPending == \A p \in inten \ inttype : (High(p) <=> p \in intpol) => p \in intstat

\* Every response carries the level that INTSTAT and INTEN then have: a
\* guest that acknowledges an interrupt sees the line fall with that access.
ResponseLevel ==
  [][pc = "access" /\ pc' = "idle" =>
       ("gpio_irq" \in irqs' <=> intstat \cap inten # {})]_vars

=============================================================================
