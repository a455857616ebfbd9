----------------------------- MODULE WdtProofs -----------------------------
(***************************************************************************)
(* Proofs about WdtApb, for any words in LOAD, any number of accesses and  *)
(* any timing.                                                             *)
(***************************************************************************)
EXTENDS WdtApb, PlAccessProofs

\* While the watchdog has not expired, the ticks since the last kick and the
\* counter make up LOAD.
Count == ~ris => since + value = load

Inv == TypeOK /\ resume \subseteq {"pclk_div"} /\ Count

LEMMA WordsAreNat == Words \subseteq Nat
  BY WdtAssumption DEF Words

LEMMA InitInv == Init => Inv
<1> SUFFICES ASSUME Init PROVE Inv
  OBVIOUS
<1>1. /\ AccessTypeOK /\ resume = {}
      /\ runnable \subseteq {"server", "pack_irqs", "clk", "wdt_reset", "sys_reset"}
  BY InitAccessType DEF Init
<1>2. runnable \subseteq Timed \cup Methods \cup {"pack_irqs"}
  BY <1>1 DEF Timed, Methods
<1>3. sig \in Signals /\ nxt \in Signals
  BY DEF Init, Signals
<1>4. /\ load \in Words /\ value \in 0 .. load /\ since \in 0 .. load + 1
      /\ since + value = load
  BY WordsAreNat DEF Init, WdtInit, Words
<1>5. /\ naccess \in 0 .. MaxAccess
      /\ SysTypeOK
  <2>1. naccess \in 0 .. MaxAccess
    BY WdtAssumption DEF Init
  <2>2. SysTypeOK
    BY SysCtrlAssumption DEF Init, SysInit, SysTypeOK
  <2> QED
    BY <2>1, <2>2
<1>6. ctrl \subseteq {"INTEN", "RESEN"} /\ ris \in BOOLEAN /\ locked \in BOOLEAN
      /\ pclk_state \in BOOLEAN
  BY DEF Init, WdtInit
<1>7. resume \subseteq Methods /\ resume \subseteq {"pclk_div"}
  BY <1>1
<1>8. TypeOK
  BY <1>1, <1>2, <1>3, <1>4, <1>5, <1>6, <1>7 DEF TypeOK
<1> QED
  BY <1>4, <1>7, <1>8 DEF Inv, Count

(***************************************************************************)
(* The accesses.                                                           *)
(***************************************************************************)

\* What a call of either device leaves of the types outside the devices.
LEMMA AnyCall ==
  ASSUME TypeOK, NEW time \in {AccessTime, SysTime}, NEW S \in SUBSET {"wdt_drive"},
         CallFor(time, S)
  PROVE  /\ AccessTypeOK' /\ runnable' \subseteq Timed \cup Methods \cup {"pack_irqs"}
         /\ UNCHANGED <<resume, sig, nxt>>
<1>1. time \in Nat
  BY AccessAssumption, SysCtrlAssumption
<1>2. AccessTypeOK' /\ runnable' \subseteq runnable \cup S /\ UNCHANGED <<resume, sig, nxt>>
  BY <1>1, CallType DEF TypeOK
<1> QED
  BY <1>2 DEF TypeOK, Methods

LEMMA RequestInv == Inv /\ Request => Inv'
<1> SUFFICES ASSUME Inv, Request PROVE Inv'
  OBVIOUS
<1>0. TypeOK /\ Count /\ resume \subseteq {"pclk_div"}
  BY DEF Inv
<1>1. naccess' \in 0 .. MaxAccess /\ pclk_state' = pclk_state
  BY <1>0, WdtAssumption DEF Request, TypeOK
<1>2. ASSUME NEW key \in BOOLEAN, Lock(key) PROVE Inv'
  <2>1. /\ AccessTypeOK' /\ runnable' \subseteq Timed \cup Methods \cup {"pack_irqs"}
        /\ UNCHANGED <<resume, sig, nxt>>
    BY <1>0, <1>2, AnyCall DEF Lock, Call
  <2> QED
    BY <1>0, <1>1, <1>2, <2>1 DEF Lock, Inv, TypeOK, Count, SysTypeOK, sysVars
<1>3. ASSUME NEW word \in Loads, WriteLoad(word) PROVE Inv'
  <2>1. /\ AccessTypeOK' /\ runnable' \subseteq Timed \cup Methods \cup {"pack_irqs"}
        /\ UNCHANGED <<resume, sig, nxt>>
    BY <1>0, <1>3, AnyCall DEF WriteLoad, Call
  <2>2. /\ load' \in Words /\ value' \in 0 .. load' /\ since' \in 0 .. load' + 1
        /\ since' + value' = load'
    BY <1>3, WordsAreNat DEF WriteLoad, Words
  <2> QED
    BY <1>0, <1>1, <1>3, <2>1, <2>2 DEF WriteLoad, Inv, TypeOK, Count, SysTypeOK, sysVars
<1>4. ASSUME NEW bits \in SUBSET {"INTEN", "RESEN"}, WriteControl(bits) PROVE Inv'
  <2>1. /\ AccessTypeOK' /\ runnable' \subseteq Timed \cup Methods \cup {"pack_irqs"}
        /\ UNCHANGED <<resume, sig, nxt>>
    BY <1>0, <1>4, AnyCall DEF WriteControl, Call
  <2> QED
    BY <1>0, <1>1, <1>4, <2>1 DEF WriteControl, Inv, TypeOK, Count, SysTypeOK, sysVars
<1>5. CASE IntClr
  <2>1. /\ AccessTypeOK' /\ runnable' \subseteq Timed \cup Methods \cup {"pack_irqs"}
        /\ UNCHANGED <<resume, sig, nxt>>
    BY <1>0, <1>5, AnyCall DEF IntClr, Call
  <2>2. /\ load' \in Words /\ value' \in 0 .. load' /\ since' \in 0 .. load' + 1
        /\ since' + value' = load'
    BY <1>0, <1>5, WordsAreNat DEF IntClr, TypeOK
  <2> QED
    BY <1>0, <1>1, <1>5, <2>1, <2>2 DEF IntClr, Inv, TypeOK, Count, SysTypeOK, sysVars
<1>6. CASE NoEffect
  <2>1. /\ AccessTypeOK' /\ runnable' \subseteq Timed \cup Methods \cup {"pack_irqs"}
        /\ UNCHANGED <<resume, sig, nxt>>
    BY <1>0, <1>6, AnyCall DEF NoEffect, Call
  <2> QED
    BY <1>0, <1>1, <1>6, <2>1 DEF NoEffect, Inv, TypeOK, Count, SysTypeOK, sysVars, wdtVars
<1>7. CASE AccessSys
  <2>1. /\ AccessTypeOK' /\ runnable' \subseteq Timed \cup Methods \cup {"pack_irqs"}
        /\ UNCHANGED <<resume, sig, nxt>>
    BY <1>0, <1>7, AnyCall DEF AccessSys, ClearLatch, ReadSys, WriteScratch
  <2>2. SysTypeOK'
    BY <1>0, <1>7 DEF AccessSys, ClearLatch, ReadSys, WriteScratch, TypeOK, SysTypeOK, sysVars
  <2> QED
    BY <1>0, <1>1, <1>7, <2>1, <2>2 DEF AccessSys, Inv, TypeOK, Count, wdtVars
<1> QED
  BY <1>2, <1>3, <1>4, <1>5, <1>6, <1>7 DEF Request

(***************************************************************************)
(* The processes.                                                          *)
(***************************************************************************)

LEMMA TickInv == Inv /\ Tick => Inv'
<1> SUFFICES ASSUME Inv, Tick PROVE Inv'
  OBVIOUS
<1>0. TypeOK /\ Count /\ resume \subseteq {"pclk_div"} /\ load \in Nat
  BY WordsAreNat DEF Inv, TypeOK
<1>1. /\ runnable' \subseteq Timed \cup Methods \cup {"pack_irqs"}
      /\ UNCHANGED <<resume, alarm, sig, nxt, pc, irqs, load, ctrl, locked, scratch,
                     reset_released, wdt_latched, dismissed, pclk_state, naccess>>
  BY <1>0 DEF Tick, Runs, ExpiryNotifies, WaitEvent, accessVars, sysVars, TypeOK, Methods
<1>2. /\ value' \in 0 .. load /\ since' \in 0 .. load + 1 /\ ris' \in BOOLEAN
      /\ ~ris' => since' + value' = load
  <2>1. CASE ~Ticking
    BY <1>0, <2>1 DEF Tick, TypeOK, Count
  <2>2. CASE Ticking /\ AtZero
    <3>1. ris' = TRUE /\ value' = load /\ since' = IF since > load THEN since ELSE since + 1
      BY <2>2 DEF Tick
    <3> QED
      BY <1>0, <3>1 DEF TypeOK
  <2>3. CASE Ticking /\ ~AtZero
    <3>1. /\ value' = value - 1 /\ ris' = ris
          /\ since' = IF since > load THEN since ELSE since + 1
      BY <2>3 DEF Tick
    <3>2. value' \in 0 .. load /\ since' \in 0 .. load + 1
      BY <1>0, <2>3, <3>1 DEF TypeOK, AtZero
    <3>3. ~ris => since' + value' = load
      BY <1>0, <3>1 DEF TypeOK, Count
    <3> QED
      BY <1>0, <3>1, <3>2, <3>3 DEF TypeOK
  <2> QED
    BY <2>1, <2>2, <2>3
<1> QED
  BY <1>0, <1>1, <1>2 DEF Inv, TypeOK, Count, AccessTypeOK, SysTypeOK

LEMMA ProcessInv ==
  Inv /\ (Clock \/ PclkDiv \/ Drive \/ WdtReset \/ SysProcess) => Inv'
<1> SUFFICES ASSUME Inv, Clock \/ PclkDiv \/ Drive \/ WdtReset \/ SysProcess PROVE Inv'
  OBVIOUS
<1>0. TypeOK /\ Count /\ resume \subseteq {"pclk_div"}
  BY DEF Inv
<1> USE DEF Runs, WaitEvent, accessVars
<1>1. CASE Clock
  <2>1. "clk" \in Timed
    BY DEF Timed
  <2>2. /\ runnable' \subseteq runnable /\ resume' \subseteq {"pclk_div"}
        /\ alarm' \in [Timed -> Nat]
    BY <1>0, <1>1, <2>1 DEF Clock, TypeOK, AccessTypeOK
  <2> QED
    BY <1>0, <1>1, <2>2 DEF Clock, Inv, TypeOK, Count, AccessTypeOK, SysTypeOK, Methods,
                            deviceVars, wdtVars, sysVars
<1>2. CASE PclkDiv
  <2>1. pclk_state' \in BOOLEAN /\ nxt' \in Signals /\ runnable' \subseteq runnable
    BY <1>0, <1>2 DEF PclkDiv, TypeOK, Signals
  <2> QED
    BY <1>0, <1>2, <2>1 DEF PclkDiv, Inv, TypeOK, Count, AccessTypeOK, SysTypeOK, wdtVars, sysVars
<1>3. CASE Drive
  <2>1. nxt' \in Signals /\ runnable' \subseteq runnable
    BY <1>0, <1>3 DEF Drive, TypeOK, Signals
  <2> QED
    BY <1>0, <1>3, <2>1 DEF Drive, Inv, TypeOK, Count, AccessTypeOK, SysTypeOK,
                            deviceVars, wdtVars, sysVars
<1>4. CASE WdtReset
  <2>1. /\ load' \in Words /\ value' \in 0 .. load' /\ since' \in 0 .. load' + 1
        /\ ~ris' => since' + value' = load'
    BY <1>0, <1>4, WordsAreNat DEF WdtReset, TypeOK, Count, Words, wdtVars
  <2>2. ctrl' \subseteq {"INTEN", "RESEN"} /\ ris' \in BOOLEAN /\ locked' \in BOOLEAN
    BY <1>0, <1>4 DEF WdtReset, TypeOK, wdtVars
  <2>3. runnable' \subseteq Timed \cup Methods \cup {"pack_irqs"}
    BY <1>0, <1>4 DEF WdtReset, TypeOK, Methods
  <2> QED
    BY <1>0, <1>4, <2>1, <2>2, <2>3 DEF WdtReset, Inv, TypeOK, Count, AccessTypeOK,
                                        SysTypeOK, sysVars
<1>5. CASE SysProcess
  <2>1. SysTypeOK'
    BY <1>0, <1>5, SysCtrlAssumption
       DEF SysProcess, SysReset, OnWdt, TypeOK, SysTypeOK
  <2>2. /\ runnable' \subseteq runnable
        /\ UNCHANGED <<resume, alarm, sig, nxt, pc, irqs>>
    BY <1>5 DEF SysProcess, SysReset, OnWdt
  <2> QED
    BY <1>0, <1>5, <2>1, <2>2 DEF SysProcess, Inv, TypeOK, Count, AccessTypeOK, wdtVars
<1> QED
  BY <1>1, <1>2, <1>3, <1>4, <1>5

LEMMA ServerInv == Inv /\ Server => Inv'
<1> SUFFICES ASSUME Inv, Server PROVE Inv'
  OBVIOUS
<1>0. TypeOK /\ Count /\ resume \subseteq {"pclk_div"}
  BY DEF Inv
<1>1. sig.irq_bits \subseteq Lines
  BY <1>0 DEF TypeOK, Signals
<1>2. /\ AccessTypeOK' /\ runnable' \subseteq runnable \cup {"server"}
      /\ UNCHANGED <<resume, sig>>
      /\ \/ UNCHANGED nxt
         \/ nxt' = [nxt EXCEPT !.reset = FALSE]
         \/ nxt' = [nxt EXCEPT !.irq_bits = Packed(sig)]
  BY <1>0, <1>1, CommonType DEF Server, TypeOK
<1>3. Packed(sig) \subseteq Lines
  BY DEF Packed
<1>4. nxt' \in Signals
  BY <1>0, <1>2, <1>3 DEF TypeOK, Signals
<1>5. runnable' \subseteq Timed \cup Methods \cup {"pack_irqs"}
  BY <1>0, <1>2 DEF TypeOK, Timed
<1> QED
  BY <1>0, <1>2, <1>4, <1>5 DEF Server, Inv, TypeOK, Count, SysTypeOK, deviceVars,
                                wdtVars, sysVars

LEMMA SchedulerInv == Inv /\ Scheduler => Inv'
<1> SUFFICES ASSUME Inv, Scheduler PROVE Inv'
  OBVIOUS
<1>0. TypeOK /\ Count /\ resume \subseteq {"pclk_div"}
  BY DEF Inv
<1>1. UNCHANGED <<pc, irqs, load, value, ctrl, ris, locked, scratch, reset_released,
                  wdt_latched, dismissed, pclk_state, since, naccess>>
  BY DEF Scheduler, accessVars, deviceVars, wdtVars, sysVars
<1>2. /\ runnable' \subseteq Timed \cup Methods \cup {"pack_irqs"}
      /\ resume' \subseteq {"pclk_div"} /\ alarm' \in [Timed -> Nat]
      /\ sig' \in Signals /\ nxt' \in Signals
  <2>1. CASE Update(Woken)
    <3>1. Woken \subseteq Methods \cup {"pack_irqs"}
      BY DEF Woken, SysWoken, Methods
    <3> QED
      BY <1>0, <2>1, <3>1 DEF Update, TypeOK, AccessTypeOK
  <2>2. CASE Advance
    BY <1>0, <2>2, AdvanceType DEF TypeOK, AccessTypeOK
  <2> QED
    BY <2>1, <2>2 DEF Scheduler
<1> QED
  BY <1>0, <1>1, <1>2 DEF Inv, TypeOK, Count, AccessTypeOK, SysTypeOK, Methods

LEMMA StutterInv == Inv /\ UNCHANGED vars => Inv'
  BY DEF Inv, TypeOK, Count, AccessTypeOK, SysTypeOK, vars, kernelVars, accessVars,
         deviceVars, wdtVars, sysVars

LEMMA Inductive == Spec => []Inv
<1>1. Inv /\ [Next]_vars => Inv'
  BY RequestInv, TickInv, ProcessInv, ServerInv, SchedulerInv, StutterInv
     DEF Next, Silicon
<1> QED
  BY InitInv, <1>1, PTL DEF Spec

\* For any words in LOAD the counter never leaves 0 .. LOAD.
THEOREM TypeCorrect == Spec => []TypeOK
<1>1. Inv => TypeOK
  BY DEF Inv
<1> QED
  BY <1>1, Inductive, PTL

\* A guest that does not kick is found out on time, whatever else it writes.
THEOREM ExpiresOnTime == Spec => []OnTime
<1>1. Inv => OnTime
  BY WordsAreNat DEF Inv, TypeOK, Count, OnTime
<1> QED
  BY <1>1, Inductive, PTL

\* And never too early: the expiry comes no sooner than LOAD ticks after the
\* latest kick.
THEOREM ExpiresNotEarly == Spec => NotEarly
<1>1. ASSUME Inv, Next, ~ris, ris' PROVE since >= load
  <2>1. Tick
    BY <1>1 DEF Next, Request, Lock, WriteLoad, WriteControl, IntClr, NoEffect, AccessSys,
                Silicon, Clock, PclkDiv, Drive, WdtReset, SysProcess, Server, Scheduler,
                deviceVars, wdtVars
  <2>2. Ticking /\ AtZero
    BY <1>1, <2>1 DEF Tick
  <2>3. since + value = load /\ value = 0 /\ since \in Nat /\ load \in Nat
    BY <1>1, <2>2, WordsAreNat DEF Inv, Count, AtZero, TypeOK
  <2> QED
    BY <2>3
<1>2. Inv /\ [Next]_vars => [~ris /\ ris' => since >= load]_vars
  BY <1>1
<1> QED
  BY Inductive, <1>2, PTL DEF Spec, NotEarly

(***************************************************************************)
(* The way of an expiry from RIS to the outputs and to the latch of the    *)
(* system controller.  The registers are ahead of the outputs only until   *)
(* wdt_drive has run, and the outputs ahead of the latch only until on_wdt *)
(* has; simulated time passes when neither is left to run.  sys_reset      *)
(* clears the latch only before anything can have been requested.          *)
(***************************************************************************)

Driven == "wdt_drive" \in runnable \/
            /\ nxt.wdt_irq <=> ris /\ "INTEN" \in ctrl
            /\ nxt.rst_req <=> ris /\ "RESEN" \in ctrl

Latched == sig.rst_req => "on_wdt" \in runnable \/ wdt_latched \/ dismissed

ResetOnce == /\ nxt.reset => sig.reset
             /\ "sys_reset" \in runnable /\ sig.reset => ~sig.rst_req

OutputInv == Driven /\ Latched /\ ResetOnce

LEMMA InitOutput == Init => OutputInv
  BY DEF Init, AccessInit, WdtInit, OutputInv, Driven, Latched, ResetOnce

LEMMA RequestOutput == Inv /\ OutputInv /\ Request => OutputInv'
<1> SUFFICES ASSUME Inv, OutputInv, Request PROVE OutputInv'
  OBVIOUS
<1> USE DEF OutputInv, Driven, Latched, ResetOnce, Call, CallFor, Runs
<1>1. ASSUME NEW key \in BOOLEAN, Lock(key) PROVE OutputInv'
  BY <1>1 DEF Lock, sysVars
<1>2. ASSUME NEW word \in Loads, WriteLoad(word) PROVE OutputInv'
  BY <1>2 DEF WriteLoad, sysVars
<1>3. ASSUME NEW bits \in SUBSET {"INTEN", "RESEN"}, WriteControl(bits) PROVE OutputInv'
  BY <1>3 DEF WriteControl, sysVars
<1>4. CASE IntClr
  BY <1>4 DEF IntClr, sysVars
<1>5. CASE NoEffect
  BY <1>5 DEF NoEffect, sysVars, wdtVars
<1>6. CASE AccessSys
  BY <1>6 DEF AccessSys, ClearLatch, ReadSys, WriteScratch, sysVars, wdtVars
<1> QED
  BY <1>1, <1>2, <1>3, <1>4, <1>5, <1>6 DEF Request

LEMMA ProcessOutput ==
  Inv /\ OutputInv /\ (Clock \/ PclkDiv \/ Tick \/ Drive \/ WdtReset \/ SysProcess)
    => OutputInv'
<1> SUFFICES ASSUME Inv, OutputInv,
                    Clock \/ PclkDiv \/ Tick \/ Drive \/ WdtReset \/ SysProcess
             PROVE  OutputInv'
  OBVIOUS
<1>0. sig \in Signals /\ nxt \in Signals
  BY DEF Inv, TypeOK
<1> USE DEF OutputInv, Driven, Latched, ResetOnce, Runs, deviceVars, sysVars, wdtVars
<1>1. CASE Clock
  BY <1>1 DEF Clock
<1>2. CASE PclkDiv
  <2>1. /\ nxt'.wdt_irq = nxt.wdt_irq /\ nxt'.rst_req = nxt.rst_req
        /\ nxt'.reset = nxt.reset
    BY <1>0, <1>2 DEF PclkDiv, Signals
  <2> QED
    BY <1>2, <2>1 DEF PclkDiv
<1>3. CASE Tick
  <2>1. /\ UNCHANGED <<sig, nxt, ctrl, wdt_latched, dismissed>>
        /\ runnable' \subseteq runnable \cup {"wdt_drive"}
        /\ runnable \subseteq runnable' \cup {"tick"}
    BY <1>3 DEF Tick, ExpiryNotifies
  <2>2. UNCHANGED ris \/ "wdt_drive" \in runnable'
    BY <1>3 DEF Tick, ExpiryNotifies
  <2> QED
    BY <2>1, <2>2
<1>4. CASE Drive
  <2>1. /\ nxt'.wdt_irq <=> ris /\ "INTEN" \in ctrl
        /\ nxt'.rst_req <=> ris /\ "RESEN" \in ctrl
        /\ nxt'.reset = nxt.reset
    BY <1>0, <1>4 DEF Drive, Signals
  <2> QED
    BY <1>4, <2>1 DEF Drive
<1>5. CASE WdtReset
  BY <1>5 DEF WdtReset
<1>6. CASE SysProcess
  BY <1>6 DEF SysProcess, SysReset, OnWdt
<1> QED
  BY <1>1, <1>2, <1>3, <1>4, <1>5, <1>6

LEMMA ServerOutput == Inv /\ OutputInv /\ Server => OutputInv'
<1> SUFFICES ASSUME Inv, OutputInv, Server PROVE OutputInv'
  OBVIOUS
<1>0. nxt \in Signals
  BY DEF Inv, TypeOK
<1>1. /\ UNCHANGED <<sig, ris, ctrl, wdt_latched, dismissed>>
      /\ nxt'.wdt_irq = nxt.wdt_irq /\ nxt'.rst_req = nxt.rst_req
      /\ nxt'.reset => nxt.reset
  BY <1>0 DEF Server, Poll, Respond, Release, PackIrqs, Signals, deviceVars, wdtVars, sysVars
<1>2. /\ runnable' \subseteq runnable \cup {"server"}
      /\ "wdt_drive" \in runnable => "wdt_drive" \in runnable'
      /\ "on_wdt" \in runnable => "on_wdt" \in runnable'
  BY DEF Server, Poll, Respond, Release, PackIrqs, Runs
<1> QED
  BY <1>1, <1>2 DEF OutputInv, Driven, Latched, ResetOnce

LEMMA SchedulerOutput == Inv /\ OutputInv /\ Scheduler => OutputInv'
<1> SUFFICES ASSUME Inv, OutputInv, Scheduler PROVE OutputInv'
  OBVIOUS
<1>1. UNCHANGED <<ris, ctrl, wdt_latched, dismissed, nxt>>
  BY DEF Scheduler, Update, Advance, deviceVars, wdtVars, sysVars
<1>2. CASE Update(Woken)
  <2>1. /\ runnable = {} /\ sig' = nxt /\ resume \subseteq {"pclk_div"}
        /\ runnable' = resume \cup Woken
    BY <1>2 DEF Update, Inv
  <2>2. /\ nxt.rst_req # sig.rst_req => "on_wdt" \in runnable'
        /\ "sys_reset" \in runnable' => nxt.reset # sig.reset
    BY <2>1 DEF Woken, SysWoken
  <2>3. sig \in Signals /\ nxt \in Signals
    BY DEF Inv, TypeOK
  <2>4. /\ sig.rst_req \in BOOLEAN /\ nxt.rst_req \in BOOLEAN
        /\ sig.reset \in BOOLEAN /\ nxt.reset \in BOOLEAN
    BY <2>3 DEF Signals
  <2> QED
    BY <1>1, <2>1, <2>2, <2>4 DEF OutputInv, Driven, Latched, ResetOnce
<1>3. CASE Advance
  <2>1. /\ runnable = {} /\ runnable' \subseteq Timed /\ UNCHANGED <<sig, nxt>>
    BY <1>3, AdvanceType DEF Advance, Settled, Inv, TypeOK, AccessTypeOK
  <2> QED
    BY <1>1, <2>1 DEF OutputInv, Driven, Latched, ResetOnce, Timed
<1> QED
  BY <1>2, <1>3 DEF Scheduler

LEMMA StutterOutput == OutputInv /\ UNCHANGED vars => OutputInv'
  BY DEF OutputInv, Driven, Latched, ResetOnce, vars, kernelVars, deviceVars, wdtVars, sysVars

LEMMA OutputInductive == Spec => []OutputInv
<1>1. Inv /\ OutputInv /\ [Next]_vars => OutputInv'
  BY RequestOutput, ProcessOutput, ServerOutput, SchedulerOutput, StutterOutput
     DEF Next, Silicon
<1> QED
  BY Inductive, InitOutput, <1>1, PTL DEF Spec

\* For any words and timing the outputs show RIS and CONTROL whenever time
\* may pass.
THEOREM OutputsSettle == Spec => []SettledOutputs
<1>1. Inv /\ OutputInv => SettledOutputs
  <2> SUFFICES ASSUME Inv, OutputInv, Settled
               PROVE  /\ sig.wdt_irq = (ris /\ "INTEN" \in ctrl)
                      /\ sig.rst_req = (ris /\ "RESEN" \in ctrl)
    BY DEF SettledOutputs
  <2>1. /\ sig.wdt_irq <=> ris /\ "INTEN" \in ctrl
        /\ sig.rst_req <=> ris /\ "RESEN" \in ctrl
    BY DEF OutputInv, Driven, Settled
  <2>2. sig.wdt_irq \in BOOLEAN /\ sig.rst_req \in BOOLEAN
    BY DEF Inv, TypeOK, Signals
  <2> QED
    BY <2>1, <2>2
<1> QED
  BY Inductive, OutputInductive, <1>1, PTL

\* No reset request of the watchdog goes unrecorded, whatever else runs in
\* the delta cycle in which it is raised.
THEOREM RequestsRecorded == Spec => []RequestIsRecorded
<1>1. OutputInv => RequestIsRecorded
  BY DEF OutputInv, Driven, Latched, Settled, RequestIsRecorded
<1> QED
  BY OutputInductive, <1>1, PTL

=============================================================================
