----------------------------- MODULE TimerBench -----------------------------
(***************************************************************************)
(* The timer's testbench (src/peripherals/timer/timer_tb.cpp), beside the  *)
(* tests of the two firmwares.  Its thread run() drives the pins of the    *)
(* Timer itself, in step with the clock: an access strobes at one rising   *)
(* edge and samples at the next.  The times between the edges keep their   *)
(* order: 10 ns is a period, 1, 2 and 5 ns are half of one.                *)
(***************************************************************************)
EXTENDS TimerFirmware

CONSTANTS BenchCmp,  \* the compare value of TEST5, 10
          Spins      \* the reads each poll makes at most, 200

ASSUME BenchAssumption == 4 * BenchCmp \in Word /\ Spins \in Nat \ {0}

VARIABLE polls  \* reads the current poll has made

benchVars == <<allVars, polls>>

\* An access, made after a wait of `after' units.
After(units, a) == [after |-> units, op |-> a]
Now(a) == After(0, a)

Consecutive[i \in 0 .. 5] ==
  IF i = 0 THEN << >>
  ELSE Consecutive[i - 1] \o << Now(Write("CMP", (i - 1) * BenchCmp)), Now(Read("CMP")) >>

Bench ==
  << Now(Read("CTRL")), Now(Read("VALUE")), Now(Read("CMP")), Now(Read("INTR")),
     Now(Write("CTRL", 1)), Now(Read("CTRL")),
     Now(Write("CMP", CmpWord)), Now(Read("CMP")),
     After(1, Read("VALUE")),
     Now(Write("CTRL", 0)), Now(Write("VALUE", 0)), Now(Write("INTR", 0)),
     Now(Write("CMP", BenchCmp)), Now(Write("CTRL", 7)),
     After(2, Read("INTR")),                            \* until CMP
     Now(Read("INTR")), Now(Write("INTR", 0)),          \* INTR & ~CMP
     Now(Write("CTRL", 0)), Now(Write("INTR", 0)),
     Now(Write("CTRL", 7)), Now(Write("VALUE", LateWord)),
     After(2, Read("INTR")),                            \* until OV
     Now(Read("INTR")), Now(Write("INTR", 0)),          \* INTR & ~OV
     Now(Write("CTRL", 0)), Now(Read("VALUE")), After(1, Read("VALUE")) >>
  \o Consecutive[5]

SeesCmp == 15
ClearsCmp == 17
SeesOv == 22
ClearsOv == 24
Before == 26
Later == 27
BenchDone == Len(Bench) + 1

AndNot(w, m) == IF HasMask(w, m) THEN w - m ELSE w

BenchInit == /\ platform = "timer_tb" /\ InitWith({"run"})
             /\ step = 0 /\ before = 0 /\ verdict = "running" /\ polls = 0

UnchangedTimer == UNCHANGED <<platform, sig, regs, rdata, irqs, naccess>>

\* run() goes on to step n: it waits for a rising edge, at once or later.
GoOn(n) == /\ step' = n
           /\ IF n < BenchDone /\ Bench[n].after > 0
              THEN pc' = "delay" /\ WaitTime("run", Bench[n].after)
              ELSE pc' = "edge" /\ WaitEvent

\* reset.write(true), and reset.write(false) half a period later.
AssertReset == /\ pc = "idle" /\ Runs("run", {})
               /\ nxt' = [nxt EXCEPT !.reset = TRUE]
               /\ pc' = "reset" /\ WaitTime("run", 1)
               /\ UnchangedTimer /\ UNCHANGED <<access, held, applied, testVars, polls>>

ReleaseReset == /\ pc = "reset" /\ Runs("run", {})
                /\ nxt' = [nxt EXCEPT !.reset = FALSE]
                /\ GoOn(1)
                /\ UnchangedTimer
                /\ UNCHANGED <<access, held, applied, before, verdict, polls>>

\* The wait is over; the edge may be the one of this same instant.
EndDelay == /\ pc = "delay" /\ Runs("run", {})
            /\ pc' = "edge" /\ WaitEvent
            /\ UnchangedTimer /\ UNCHANGED <<nxt, access, held, applied, testVars, polls>>

\* The rising edge: the access is put on the pins.
Strobe ==
  /\ pc = "edge" /\ Runs("run", {})
  /\ LET op == Bench[step].op
         word == CASE step = ClearsCmp -> AndNot(rdata, IntrCmp)
                   [] step = ClearsOv -> AndNot(rdata, IntrOv)
                   [] OTHER -> op.data
     IN /\ nxt' = IF op.kind = "read"
                  THEN [nxt EXCEPT !.address = op.reg, !.read_en = TRUE]
                  ELSE [nxt EXCEPT !.address = op.reg, !.data_in = word, !.write_en = TRUE]
        /\ access' = [op EXCEPT !.data = word]
        /\ held' = {regs[op.reg]} /\ applied' = 0
  /\ pc' = "hold" /\ WaitEvent
  /\ UnchangedTimer /\ UNCHANGED <<testVars, polls>>

\* What the testbench prints PASS or FAIL for when step has been made.
Checked(word) ==
  CASE step = SeesCmp   -> HasMask(word, IntrCmp) /\ sig.intr1
    [] step = ClearsCmp -> ~sig.intr1
    [] step = SeesOv    -> HasMask(word, IntrOv) /\ sig.intr2
    [] step = ClearsOv  -> ~sig.intr2
    [] step = Later     -> word = before
    [] OTHER            -> TRUE

\* The next rising edge: data_out is sampled and the strobe ends.
Unstrobe ==
  /\ pc = "hold" /\ Runs("run", {})
  /\ nxt' = [nxt EXCEPT !.read_en = FALSE, !.write_en = FALSE]
  /\ rdata' = IF access.kind = "read" THEN sig.data_out ELSE rdata
  /\ LET again == /\ polls + 1 < Spins
                  /\ \/ step = SeesCmp /\ ~HasMask(rdata', IntrCmp)
                     \/ step = SeesOv /\ ~HasMask(rdata', IntrOv)
     IN IF again
        THEN GoOn(step) /\ polls' = polls + 1 /\ UNCHANGED verdict
        ELSE /\ GoOn(step + 1) /\ polls' = 0
             /\ verdict' = IF verdict = "fail" \/ ~Checked(rdata') THEN "fail"
                           ELSE IF step + 1 = BenchDone THEN "pass" ELSE verdict
  /\ before' = IF step = Before THEN rdata' ELSE before
  /\ UNCHANGED <<platform, sig, regs, irqs, naccess, access, held, applied>>

\* What the rising edge wakes besides the Timer's processes, if run() waits.
Waiting == pc \in {"edge", "hold"}
Edge == IF "timer_thread" \in resume /\ Waiting THEN {"run"} ELSE {}

DutProcess == Clock \/ TimerThread \/ BusRead \/ BusWrite \/ Reset \/ IrqOutput

Dut == /\ \/ DutProcess
          \/ (Update(Woken \cup Edge) \/ Advance)
             /\ UNCHANGED <<regs, busVars, held, applied>>
       /\ UNCHANGED <<platform, testVars, polls>>

BenchNext == /\ step < BenchDone
             /\ \/ AssertReset \/ ReleaseReset \/ EndDelay \/ Strobe \/ Unstrobe
                \/ Dut

Stopped == step = BenchDone /\ UNCHANGED benchVars     \* sc_stop()

AnyNext == \/ platform = "timer_tb" /\ (BenchNext \/ Stopped)
           \/ platform \in Boards /\ TestNext /\ UNCHANGED polls

\* The three programs, each on its platform.
AnySpec == /\ BenchInit \/ (TestInit /\ polls = 0)
           /\ [][AnyNext]_benchVars
           /\ WF_benchVars(platform = "timer_tb" /\ BenchNext)
           /\ WF_benchVars((Answer \/ Silicon) /\ UNCHANGED polls)
           /\ SF_benchVars(Issue /\ UNCHANGED polls)

=============================================================================
