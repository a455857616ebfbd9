------------------------------ MODULE PinTimer ------------------------------
(***************************************************************************)
(* The timer and the way a TLM access reaches it: the server thread inside *)
(* a b_transport call (src/transactor/cosim_server.cpp), the pin bridge    *)
(* (src/bridges/tlm_pin_bridge.h), the Timer with its five processes       *)
(* (src/peripherals/timer/timer.h) and the packing of the interrupt bits   *)
(* (src/Soc/cortexm_pl.h), each process a step of the SystemC scheduler.   *)
(*                                                                         *)
(* Time is counted in units of 5 ns.  On basic_cortexM the thread runs at  *)
(* the instants of the clock's edges; on basic_cortexA it runs between     *)
(* them, and nothing packs the interrupt bits.  The timer's testbench      *)
(* (src/peripherals/timer/timer_tb.cpp), a third way to drive the pins, is *)
(* added in TimerBench.                                                    *)
(* Registers are words of WordBits bits instead of 32.                     *)
(***************************************************************************)
EXTENDS SystemC

CONSTANTS PollSlice,   \* simulated time between two polls of the socket
          WordBits,    \* width of a register
          OvfCount,    \* TIMER_OVF_COUNT
          GuestWords,  \* bound: words the guest writes to VALUE and CMP
          MaxAccess    \* bound: accesses the guest makes

Words == 2^WordBits   \* the values of a register

\* A register has the three bits the code uses, at least.
ASSUME TimerAssumption ==
  /\ PollSlice \in Nat \ {0}
  /\ WordBits \in Nat /\ Words \in Nat /\ Words % 8 = 0
  /\ OvfCount \in 1 .. (Words - 2)
  /\ GuestWords \subseteq 0 .. (Words - 1)
  /\ MaxAccess \in Nat

\* The platforms: time of the clock's first rising edge, delay of an access
\* after the bridge's own, and whether intr1 and intr2 are packed in irq_bits.
Platforms ==
  [basic_cortexM |-> [phase |-> 0, delay |-> 4, packs |-> TRUE],
   basic_cortexA |-> [phase |-> 3, delay |-> 2, packs |-> FALSE],
   timer_tb      |-> [phase |-> 2, delay |-> 0, packs |-> FALSE]]
Boards == {"basic_cortexM", "basic_cortexA"}
Period == 2   \* of the clock, 10 ns

Word == 0 .. (Words - 1)
Regs == {"CTRL", "VALUE", "CMP", "INTR"}
Offsets == Regs \cup {"unused"}   \* of the window; the rest holds no register
Procs == {"clk", "server", "timer_thread", "bus_read", "bus_write", "reset",
          "irq_output", "pack_irqs", "run"}
Timed == {"clk", "server", "run"}

\* bits of CTRL
EnableBit == 0
CmpBit == 1
OvBit == 2
\* masks of INTR
IntrCmp == 2
IntrOv == 4

VARIABLES
  platform, \* the platform that runs, the same for ever
  regs,     \* the Timer's registers
  pc,       \* where the server thread is in an access
  access,   \* the access it performs
  rdata,    \* the word it read
  irqs,     \* irq_bits of the latest response
  naccess,  \* accesses begun
  \* history of the current access: the values its offset has had, and how
  \* often bus_write has found a strobe
  held, applied

busVars == <<pc, access, rdata, irqs, naccess>>
vars == <<kernelVars, platform, regs, busVars, held, applied>>

Board == Platforms[platform]

Bit(w, b) == (w \div 2^b) % 2 = 1
HasMask(w, m) == (w \div m) % 2 = 1
OrMask(w, m) == IF m = 0 \/ HasMask(w, m) THEN w ELSE w + m

Signals == [read_en : BOOLEAN, write_en : BOOLEAN,
            reset : BOOLEAN, address : Offsets, data_in : Word, data_out : Word,
            intr1 : BOOLEAN, intr2 : BOOLEAN, irq_bits : SUBSET {"intr1", "intr2"}]

Quiet == [read_en |-> FALSE, write_en |-> FALSE, reset |-> platform \in Boards,
          address |-> "CTRL", data_in |-> 0, data_out |-> 0,
          intr1 |-> FALSE, intr2 |-> FALSE, irq_bits |-> {}]

TypeOK ==
  /\ platform \in DOMAIN Platforms
  /\ runnable \subseteq Procs /\ resume \subseteq Procs
  /\ sig \in Signals /\ nxt \in Signals
  /\ alarm \in [Timed -> Nat]
  /\ regs \in [Regs -> Word]
  /\ pc \in {"idle", "setup", "sample", "settle", "respond"}
  /\ access \in [kind : {"read", "write"}, reg : Offsets, data : Word]
  /\ rdata \in Word
  /\ irqs \subseteq {"intr1", "intr2"}
  /\ naccess \in 0 .. MaxAccess
  /\ held \subseteq Word /\ applied \in 0 .. MaxAccess

TimerInit == /\ regs = [r \in Regs |-> 0]
             /\ access = [kind |-> "read", reg |-> "CTRL", data |-> 0]
             /\ rdata = 0 /\ held = {} /\ applied = 0

\* The processes threads have their first run with the reset method.
InitWith(threads) ==
  /\ runnable = threads \cup {"reset"}
                 \cup (IF Board.packs THEN {"pack_irqs"} ELSE {})
                 \cup (IF Board.phase = 0 THEN {"clk"} ELSE {})
  /\ resume = {} /\ sig = Quiet /\ nxt = Quiet
  /\ alarm = [p \in Timed |-> IF p = "clk" THEN Board.phase ELSE Off]
  /\ TimerInit
  /\ pc = "idle" /\ irqs = {} /\ naccess = 0

Init == platform \in Boards /\ InitWith({"server"})

(***************************************************************************)
(* The clock, and the processes of the Timer.                              *)
(***************************************************************************)

\* A rising edge of sc_clock: what is sensitive to it runs a delta cycle later.
Clock == /\ Runs("clk", {})
         /\ resume' = resume \cup {"timer_thread", "irq_output"}
         /\ alarm' = [alarm EXCEPT !["clk"] = Period]
         /\ UNCHANGED <<sig, nxt, regs, busVars, held, applied>>

\* Mutant: a change of INTR waits for the clock edge to be noticed.
IrqUnnoticed(value) == {}

\* commit_intr(): the event is notified at once when the register changes.
IrqChanged(value) == IF regs["INTR"] = value THEN {} ELSE {"irq_output"}

\* What a load of offset r finds: an offset without a register reads as 0.
Value(rs, r) == IF r \in Regs THEN rs[r] ELSE 0

\* What a store to offset r leaves: one without a register ignores it.
Stored(r, w) == IF r \in Regs THEN [regs EXCEPT ![r] = w] ELSE regs

\* A process of the Timer sets the registers to new.
Registers(new) == /\ regs' = new
                  /\ held' = held \cup {Value(new, access.reg)}

\* Mutant: the counter is wider than a register.
CountedWide == regs["VALUE"] + 1
\* The counter's next value; it is compared before it is wrapped to 0.
Counted == (regs["VALUE"] + 1) % Words

\* Mutant: `else if', an overflow on the compare value is not posted.
OverflowsOtherwise == /\ Bit(regs["CTRL"], OvBit) /\ Counted = OvfCount
                      /\ ~(Bit(regs["CTRL"], CmpBit) /\ Counted = regs["CMP"])
Overflows == Bit(regs["CTRL"], OvBit) /\ Counted = OvfCount

\* Mutant: the comparison is made after the wrap.
MatchesWrapped == /\ Bit(regs["CTRL"], CmpBit)
                  /\ (IF Overflows THEN 0 ELSE Counted) = regs["CMP"]
Matches == Bit(regs["CTRL"], CmpBit) /\ Counted = regs["CMP"]

Posted == OrMask(OrMask(regs["INTR"], IF Matches THEN IntrCmp ELSE 0),
                 IF Overflows THEN IntrOv ELSE 0)

TimerThread ==
     \/ /\ Bit(regs["CTRL"], EnableBit)
        /\ Runs("timer_thread", IrqChanged(Posted))
        /\ Registers([regs EXCEPT !["VALUE"] = IF Overflows THEN 0 ELSE Counted,
                                  !["INTR"] = Posted])
        /\ WaitEvent /\ UNCHANGED <<sig, nxt, busVars, applied>>
     \/ /\ ~Bit(regs["CTRL"], EnableBit)
        /\ Runs("timer_thread", {})
        /\ WaitEvent /\ UNCHANGED <<sig, nxt, regs, busVars, held, applied>>

BusRead == /\ Runs("bus_read", {})
           /\ nxt' = [nxt EXCEPT !.data_out =
                         IF sig.read_en THEN Value(regs, sig.address) ELSE @]
           /\ WaitEvent /\ UNCHANGED <<sig, regs, busVars, held, applied>>

BusWrite ==
  \/ /\ sig.write_en
     /\ Runs("bus_write", IF sig.address = "INTR" THEN IrqChanged(sig.data_in) ELSE {})
     /\ Registers(Stored(sig.address, sig.data_in))
     /\ applied' = applied + 1
     /\ WaitEvent /\ UNCHANGED <<sig, nxt, busVars>>
  \/ /\ ~sig.write_en
     /\ Runs("bus_write", {})
     /\ WaitEvent /\ UNCHANGED <<sig, nxt, regs, busVars, held, applied>>

\* The reset signal is high from the start; only its changes wake the method.
Reset == /\ Runs("reset", IF sig.reset THEN IrqChanged(0) ELSE {})
         /\ IF sig.reset THEN Registers([r \in Regs |-> 0]) ELSE UNCHANGED <<regs, held>>
         /\ WaitEvent /\ UNCHANGED <<sig, nxt, busVars, applied>>

IrqOutput == /\ Runs("irq_output", {})
             /\ nxt' = [nxt EXCEPT !.intr1 = HasMask(regs["INTR"], IntrCmp),
                                   !.intr2 = HasMask(regs["INTR"], IntrOv)]
             /\ WaitEvent /\ UNCHANGED <<sig, regs, busVars, held, applied>>

\* The two lines of irq_bits, each named after its signal.
Packed(s) == {l \in {"intr1", "intr2"} : s[l]}

PackIrqs == /\ Runs("pack_irqs", {})
            /\ nxt' = [nxt EXCEPT !.irq_bits = Packed(sig)]
            /\ WaitEvent /\ UNCHANGED <<sig, regs, busVars, held, applied>>

(***************************************************************************)
(* The server thread: one access of the guest at a time.                   *)
(***************************************************************************)

\* A request is there: b_transport() of the bridge raises its strobe.
Begin(kind, reg, data) ==
  /\ pc = "idle" /\ Runs("server", {})
  /\ access' = [kind |-> kind, reg |-> reg, data |-> data]
  /\ held' = {Value(regs, reg)} /\ applied' = 0
  /\ nxt' = [nxt EXCEPT !.address = reg, !.data_in = data,
                        !.read_en = kind = "read", !.write_en = kind = "write"]
  /\ WaitDelta("server")
  /\ pc' = "setup"
  /\ UNCHANGED <<sig, regs, rdata, irqs>>

\* No request is there: wait_readable() lets simulated time pass.
Poll == /\ pc = "idle" /\ Runs("server", {})
        /\ WaitTime("server", PollSlice)
        /\ UNCHANGED <<sig, nxt, regs, busVars, held, applied>>

\* Mutant: one wait(SC_ZERO_TIME) instead of two.
SetupAtOnce == /\ pc = "setup" /\ Runs("server", {"server"})
               /\ WaitEvent
               /\ pc' = "sample"
               /\ UNCHANGED <<sig, nxt, regs, access, rdata, irqs, naccess, held, applied>>

\* The second wait(SC_ZERO_TIME), after which data_out has been updated.
Setup == /\ pc = "setup" /\ Runs("server", {})
         /\ WaitDelta("server")
         /\ pc' = "sample"
         /\ UNCHANGED <<sig, nxt, regs, access, rdata, irqs, naccess, held, applied>>

\* Mutant: the write strobe is left high.
SampleKeepsStrobe ==
  /\ pc = "sample" /\ Runs("server", {})
  /\ rdata' = IF access.kind = "read" THEN sig.data_out ELSE rdata
  /\ nxt' = [nxt EXCEPT !.read_en = FALSE]
  /\ WaitTime("server", Period)
  /\ pc' = "settle"
  /\ UNCHANGED <<sig, regs, access, irqs, naccess, held, applied>>

Sample == /\ pc = "sample" /\ Runs("server", {})
          /\ rdata' = IF access.kind = "read" THEN sig.data_out ELSE rdata
          /\ nxt' = [nxt EXCEPT !.read_en = FALSE, !.write_en = FALSE]
          /\ WaitTime("server", Period)
          /\ pc' = "settle"
          /\ UNCHANGED <<sig, regs, access, irqs, naccess, held, applied>>

\* b_transport() has returned; tlm_read() or tlm_write() waits its delay.
Settle == /\ pc = "settle" /\ Runs("server", {})
          /\ WaitTime("server", Board.delay)
          /\ pc' = "respond"
          /\ UNCHANGED <<sig, nxt, regs, access, rdata, irqs, naccess, held, applied>>

\* irq_bits is sampled and the response sent; the loop goes on at once.
Respond == /\ pc = "respond" /\ Runs("server", {"server"})
           /\ irqs' = sig.irq_bits
           /\ pc' = "idle"
           /\ WaitEvent
           /\ UNCHANGED <<sig, nxt, regs, access, rdata, naccess, held, applied>>

GuestWrites == [kind : {"write"}, reg : {"CTRL"}, data : 0 .. 7]
               \cup [kind : {"write"}, reg : {"VALUE", "CMP"}, data : GuestWords]
               \cup [kind : {"write"}, reg : {"INTR"}, data : {0, IntrCmp, IntrOv}]
               \cup [kind : {"write"}, reg : {"unused"}, data : {7}]

GuestReads == [kind : {"read"}, reg : Offsets, data : {0}]

Request == /\ naccess < MaxAccess /\ naccess' = naccess + 1
           /\ \E a \in GuestReads \cup GuestWrites : Begin(a.kind, a.reg, a.data)

(***************************************************************************)
(* The scheduler's own steps.                                              *)
(***************************************************************************)

PackIrqsIfAny == IF Board.packs THEN {"pack_irqs"} ELSE {}

\* Mutant: pack_irqs is not sensitive to intr2.
WokenByIntr1 ==
  (IF nxt.read_en /\ ~sig.read_en THEN {"bus_read"} ELSE {})
  \cup (IF nxt.write_en /\ ~sig.write_en THEN {"bus_write"} ELSE {})
  \cup (IF nxt.reset # sig.reset THEN {"reset"} ELSE {})
  \cup (IF nxt.intr1 # sig.intr1 THEN PackIrqsIfAny ELSE {})

\* What the signals written in the last evaluation wake.
Woken ==
  (IF nxt.read_en /\ ~sig.read_en THEN {"bus_read"} ELSE {})
  \cup (IF nxt.write_en /\ ~sig.write_en THEN {"bus_write"} ELSE {})
  \cup (IF nxt.reset # sig.reset THEN {"reset"} ELSE {})
  \cup (IF nxt.intr1 # sig.intr1 \/ nxt.intr2 # sig.intr2
        THEN PackIrqsIfAny ELSE {})

Inner == Clock \/ TimerThread \/ BusRead \/ BusWrite \/ Reset \/ IrqOutput
         \/ PackIrqs \/ Poll \/ Setup \/ Sample \/ Settle

Process == Inner \/ Respond

Scheduler == (Update(Woken) \/ Advance) /\ UNCHANGED <<regs, busVars, held, applied>>

Next == (Request \/ Process \/ Scheduler) /\ UNCHANGED platform

Spec == Init /\ [][Next]_vars

\* The simulation runs; the guest need not make an access.
FairSpec == Spec /\ WF_vars((Process \/ Scheduler) /\ UNCHANGED platform)

(***************************************************************************)
(* Properties.                                                             *)
(***************************************************************************)

Answering == pc \in {"settle", "respond"}

\* The word a load returns is one its register held during the access, or 0
\* for an offset that has none: the bridge samples data_out after the write of
\* bus_read_method has been updated.
ReadsHeldWord == Answering /\ access.kind = "read" => rdata \in held

\* When an access is answered bus_write_method has carried out a store once,
\* and nothing for a load: the strobes are edges the Timer sees.
StoresOnce == Answering => applied = IF access.kind = "write" THEN 1 ELSE 0

Levels == (IF HasMask(regs["INTR"], IntrCmp) THEN {"intr1"} ELSE {})
          \cup (IF HasMask(regs["INTR"], IntrOv) THEN {"intr2"} ELSE {})

\* Whenever simulated time may pass, the pins show INTR: no change of INTR is
\* left unnoticed until the next clock edge.
SettledPins == Settled => Packed(sig) = Levels

\* The irq_bits of a response are those of INTR when it is sent, the effect
\* of the access itself included, where the platform drives irq_bits.
ResponseIrqs ==
  [][Board.packs /\ pc = "respond" /\ pc' = "idle" => irqs' = Levels]_vars

\* What the interrupts come to: irq_bits, or the pins of basic_cortexA.
Raised == IF Board.packs THEN sig.irq_bits ELSE Packed(sig)

\* A compare value the counter can reach: with OV_BIT set it is compared with
\* 1 to OvfCount, and never with 0.
CanCompare == /\ Bit(regs["CTRL"], EnableBit) /\ Bit(regs["CTRL"], CmpBit)
              /\ regs["CMP"] \in 1 .. OvfCount \/ ~Bit(regs["CTRL"], OvBit)

LeftAlone == naccess = MaxAccess /\ pc = "idle"

\* A timer left running with a compare value it can reach posts the compare
\* interrupt and raises its bit, wherever VALUE was written to.
CompareIsPosted == LeftAlone /\ CanCompare ~> "intr1" \in Raised

\* So does the overflow of a timer left running with OV_BIT set.
OverflowIsPosted ==
  LeftAlone /\ Bit(regs["CTRL"], EnableBit) /\ Bit(regs["CTRL"], OvBit)
    ~> "intr2" \in Raised

=============================================================================
