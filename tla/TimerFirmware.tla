---------------------------- MODULE TimerFirmware ----------------------------
(***************************************************************************)
(* Test 6 of the Cortex-M firmware                                         *)
(* (src/platforms/basic_cortexM/firmware/main.c), which is also what the   *)
(* Cortex-A firmware does, each on its platform, against the timer of      *)
(* PinTimer: the guest makes the test's accesses one after the other, any  *)
(* simulated time apart, and polls INTR (log_wait_bit() of log.h, whose    *)
(* bound of a million reads is left out).                                  *)
(***************************************************************************)
EXTENDS PinTimer, Sequences

CONSTANTS CmpWord,   \* the compare value the test writes, 20
          LateWord   \* the value it writes close to the overflow, 250

VARIABLES step,      \* the next access, or the one under way
          before,    \* the first of the two reads of VALUE
          verdict    \* how the test ends

testVars == <<step, before, verdict>>
allVars == <<vars, testVars>>

Write(r, w) == [kind |-> "write", reg |-> r, data |-> w]
Read(r) == [kind |-> "read", reg |-> r, data |-> 0]

\* The accesses of the test; the second write of INTR is computed from the
\* word read just before it.  The Cortex-A firmware looks at VALUE first.
Look == IF platform = "basic_cortexA" THEN << Read("VALUE") >> ELSE << >>

Test == << Write("CTRL", 0), Write("VALUE", 0), Write("CMP", 0), Write("INTR", 0) >>
        \o Look \o
        << Write("CMP", CmpWord), Write("CTRL", 7),
           Read("INTR"),                           \* until CMP
           Read("INTR"), Write("INTR", 0),         \* INTR & ~CMP
           Write("VALUE", LateWord),
           Read("INTR"),                           \* until OV
           Write("CTRL", 0), Read("VALUE"), Read("VALUE") >>

At(n) == step = n + Len(Look)
PollCmp == At(7)
ClearCmp == At(9)
PollOv == At(11)
First == At(13)
Second == At(14)
Done == Len(Test) + 1

AndNotCmp(w) == IF HasMask(w, IntrCmp) THEN w - IntrCmp ELSE w

TestInit == Init /\ step = 1 /\ before = 0 /\ verdict = "running"

\* The guest's next load or store.
Issue == /\ step < Done
         /\ LET a == Test[step]
            IN Begin(a.kind, a.reg, IF ClearCmp THEN AndNotCmp(rdata) ELSE a.data)
         /\ UNCHANGED <<platform, naccess, testVars>>

\* log_wait_bit() goes on while the bit is clear.
PollsAgain == \/ PollCmp /\ ~HasMask(rdata, IntrCmp)
              \/ PollOv /\ ~HasMask(rdata, IntrOv)

\* The answer to it.
Answer == /\ Respond /\ UNCHANGED platform
          /\ step' = IF PollsAgain THEN step ELSE step + 1
          /\ before' = IF First THEN rdata ELSE before
          /\ verdict' = IF ~Second THEN verdict
                        ELSE IF rdata = before THEN "pass" ELSE "fail"

Silicon == (Inner \/ Scheduler) /\ UNCHANGED <<platform, testVars>>

TestNext == Issue \/ Answer \/ Silicon

\* The simulation runs, and a guest that has an access to make gets it to the
\* server at some poll of the socket.
TestSpec == /\ TestInit /\ [][TestNext]_allVars
            /\ WF_allVars(Answer \/ Silicon) /\ SF_allVars(Issue)

(***************************************************************************)
(* Properties.                                                             *)
(***************************************************************************)

\* The test ends and passes, however long each access takes: both polls see
\* their bit, and a timer disabled by an answered store no longer counts.
TestPasses == <>(verdict = "pass")

\* timer.h:18 of REG_INTR: "sticky until software clears".  main.c:177 means
\* to clear CMP alone, so an overflow that has been posted should stay.
OverflowSticks ==
  [][ClearCmp /\ HasMask(regs["INTR"], IntrOv) => HasMask(regs'["INTR"], IntrOv)]_allVars

=============================================================================
