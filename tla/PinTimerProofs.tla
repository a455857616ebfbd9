--------------------------- MODULE PinTimerProofs ---------------------------
(***************************************************************************)
(* Proofs about PinTimer, for any width of the registers, any words and    *)
(* any number of accesses.                                                 *)
(***************************************************************************)
EXTENDS PinTimer, TLAPS

LEMMA WordType == Words \in Nat /\ Words >= 8 /\ 0 \in Word /\ 0 .. 7 \subseteq Word
<1>1. Words \in Nat /\ Words % 8 = 0 /\ OvfCount \in 1 .. (Words - 2)
  BY TimerAssumption
<1>2. Words >= 8
  BY <1>1
<1> QED
  BY <1>1, <1>2 DEF Word

LEMMA OrMaskType ==
  ASSUME NEW w \in Word, NEW m \in {0, IntrCmp, IntrOv}
  PROVE  OrMask(w, m) \in Word
<1>1. Words \in Nat /\ Words % 8 = 0
  BY TimerAssumption
<1>2. w \in Nat /\ w < Words
  BY <1>1 DEF Word
<1>3. CASE m = 0
  BY <1>3 DEF OrMask
<1>4. (w \div 2) % 2 # 1 => w + 2 < Words
  BY <1>1, <1>2
<1>5. (w \div 4) % 2 # 1 => w + 4 < Words
  BY <1>1, <1>2
<1>6. CASE m = 2
  BY <1>1, <1>2, <1>4, <1>6 DEF OrMask, HasMask, Word
<1>7. CASE m = 4
  BY <1>1, <1>2, <1>5, <1>7 DEF OrMask, HasMask, Word
<1> QED
  BY <1>3, <1>6, <1>7 DEF IntrCmp, IntrOv

LEMMA CountedType ==
  ASSUME regs \in [Regs -> Word]
  PROVE  Counted \in Word /\ Posted \in Word
<1>1. regs["VALUE"] \in Word /\ regs["INTR"] \in Word
  BY DEF Regs
<1>2. Counted \in Word
  BY <1>1, WordType DEF Counted, Word
<1>3. Posted \in Word
  BY <1>1, OrMaskType DEF Posted
<1> QED
  BY <1>2, <1>3

\* A load finds a word and a store leaves words, at every offset.
LEMMA ValueType ==
  ASSUME NEW rs \in [Regs -> Word], NEW r
  PROVE  Value(rs, r) \in Word
  BY WordType DEF Value

LEMMA StoredType ==
  ASSUME regs \in [Regs -> Word], NEW r, NEW w \in Word
  PROVE  Stored(r, w) \in [Regs -> Word]
  BY DEF Stored

(***************************************************************************)
(* Type correctness.                                                       *)
(***************************************************************************)

\* Only the server thread waits for a delta cycle, and what waits for the
\* clock is made runnable by it.
TypeInv == TypeOK /\ resume \subseteq {"server", "timer_thread", "irq_output"}

LEMMA InitType == Init => TypeInv
<1> SUFFICES ASSUME Init PROVE TypeInv
  OBVIOUS
<1>1. platform \in Boards /\ InitWith({"server"})
  BY DEF Init
<1>2. sig \in Signals /\ nxt \in Signals
  BY <1>1, WordType DEF InitWith, Quiet, Signals, Offsets, Regs
<1>3. alarm \in [Timed -> Nat]
  BY <1>1 DEF InitWith, Board, Platforms, Boards, Off
<1>4. /\ runnable \subseteq Procs /\ resume = {} /\ regs \in [Regs -> Word]
      /\ access \in [kind : {"read", "write"}, reg : Offsets, data : Word]
      /\ rdata \in Word /\ held \subseteq Word
  BY <1>1, WordType DEF InitWith, TimerInit, Procs, Offsets, Regs
<1>5. platform \in DOMAIN Platforms
  BY <1>1 DEF Boards, Platforms
<1>6. naccess \in 0 .. MaxAccess /\ applied \in 0 .. MaxAccess
  BY <1>1, TimerAssumption DEF InitWith, TimerInit
<1> QED
  BY <1>1, <1>2, <1>3, <1>4, <1>5, <1>6 DEF InitWith, TypeInv, TypeOK

LEMMA RegistersType ==
  ASSUME TypeOK, NEW new \in [Regs -> Word], Registers(new)
  PROVE  regs' \in [Regs -> Word] /\ held' \subseteq Word
  BY ValueType DEF Registers, TypeOK

LEMMA ClockType == TypeInv /\ Clock /\ UNCHANGED platform => TypeInv'
<1> SUFFICES ASSUME TypeInv, Clock, UNCHANGED platform PROVE TypeInv'
  OBVIOUS
<1>1. alarm' \in [Timed -> Nat]
  BY DEF Clock, TypeInv, TypeOK, Period
<1>2. /\ runnable' \subseteq Procs /\ resume' \subseteq {"server", "timer_thread", "irq_output"}
      /\ resume' \subseteq Procs
  BY DEF Clock, Runs, TypeInv, TypeOK, Procs
<1> QED
  BY <1>1, <1>2 DEF Clock, TypeInv, TypeOK, busVars

LEMMA ThreadType ==
  ASSUME TypeInv, TimerThread \/ BusWrite \/ Reset, UNCHANGED platform,
         applied' \in 0 .. MaxAccess
  PROVE  TypeInv'
<1>1. /\ runnable' \subseteq Procs
      /\ UNCHANGED <<resume, alarm, sig, nxt, busVars>>
  BY DEF TimerThread, BusWrite, Reset, Runs, WaitEvent, IrqChanged, TypeInv, TypeOK, Procs
<1>2. UNCHANGED <<regs, held>> \/ \E new \in [Regs -> Word] : Registers(new)
  <2>1. CASE TimerThread
    <3>1. [regs EXCEPT !["VALUE"] = IF Overflows THEN 0 ELSE Counted, !["INTR"] = Posted]
            \in [Regs -> Word]
      BY CountedType, WordType DEF TypeInv, TypeOK
    <3> QED
      BY <2>1, <3>1 DEF TimerThread
  <2>2. CASE BusWrite
    <3>1. Stored(sig.address, sig.data_in) \in [Regs -> Word]
      BY StoredType DEF TypeInv, TypeOK, Signals
    <3> QED
      BY <2>2, <3>1 DEF BusWrite
  <2>3. CASE Reset
    <3>1. [r \in Regs |-> 0] \in [Regs -> Word]
      BY WordType
    <3> QED
      BY <2>3, <3>1 DEF Reset
  <2> QED
    BY <2>1, <2>2, <2>3
<1>3. regs' \in [Regs -> Word] /\ held' \subseteq Word
  BY <1>2, RegistersType DEF TypeInv, TypeOK
<1> QED
  BY <1>1, <1>3 DEF TypeInv, TypeOK, busVars

LEMMA OutputType ==
  ASSUME TypeInv, BusRead \/ IrqOutput \/ PackIrqs, UNCHANGED platform
  PROVE  TypeInv'
<1>1. nxt' \in Signals
  <2>1. CASE BusRead
    <3>1. Value(regs, sig.address) \in Word
      BY ValueType DEF TypeInv, TypeOK
    <3> QED
      BY <2>1, <3>1 DEF BusRead, TypeInv, TypeOK, Signals
  <2>2. CASE IrqOutput
    BY <2>2 DEF IrqOutput, TypeInv, TypeOK, Signals, HasMask
  <2>3. CASE PackIrqs
    BY <2>3 DEF PackIrqs, TypeInv, TypeOK, Signals, Packed
  <2> QED
    BY <2>1, <2>2, <2>3
<1>2. runnable' \subseteq Procs
  BY DEF BusRead, IrqOutput, PackIrqs, Runs, TypeInv, TypeOK
<1>3. UNCHANGED <<resume, alarm, sig, regs, busVars, held, applied>>
  BY DEF BusRead, IrqOutput, PackIrqs, WaitEvent
<1> QED
  BY <1>1, <1>2, <1>3 DEF TypeInv, TypeOK, busVars

LEMMA ServerType ==
  ASSUME TypeInv, Poll \/ Setup \/ Sample \/ Settle \/ Respond, UNCHANGED platform
  PROVE  TypeInv'
<1>1. PollSlice \in Nat /\ Board.delay \in Nat /\ Period \in Nat
  BY TimerAssumption DEF Board, Platforms, Period, TypeInv, TypeOK
<1>2. alarm' \in [Timed -> Nat]
  BY <1>1 DEF Poll, Setup, Sample, Settle, Respond, WaitTime, WaitDelta, WaitEvent, TypeInv,
              TypeOK
<1>3. runnable' \subseteq Procs
  BY DEF Poll, Setup, Sample, Settle, Respond, Runs, TypeInv, TypeOK
<1>4. /\ resume' \subseteq {"server", "timer_thread", "irq_output"} /\ resume' \subseteq Procs
  BY DEF Poll, Setup, Sample, Settle, Respond, WaitTime, WaitDelta, WaitEvent, TypeInv,
         TypeOK, Procs
<1>5. nxt' \in Signals /\ rdata' \in Word /\ irqs' \subseteq {"intr1", "intr2"}
  BY DEF Poll, Setup, Sample, Settle, Respond, TypeInv, TypeOK, Signals, busVars
<1>6. UNCHANGED <<sig, regs, access, naccess, held, applied>>
  BY DEF Poll, Setup, Sample, Settle, Respond, busVars
<1>7. pc' \in {"idle", "setup", "sample", "settle", "respond"}
  BY DEF Poll, Setup, Sample, Settle, Respond, TypeInv, TypeOK, busVars
<1> QED
  BY <1>2, <1>3, <1>4, <1>5, <1>6, <1>7 DEF TypeInv, TypeOK

\* What a request asks for.
LEMMA RequestAsks ==
  ASSUME NEW a \in GuestReads \cup GuestWrites
  PROVE  a.kind \in {"read", "write"} /\ a.reg \in Offsets /\ a.data \in Word
<1>1. GuestWords \subseteq Word
  BY TimerAssumption DEF Word
<1>2. CASE a \in GuestReads
  BY <1>2, WordType DEF GuestReads, Offsets
<1>3. CASE a \in GuestWrites
  BY <1>1, <1>3, WordType DEF GuestWrites, Offsets, Regs, IntrCmp, IntrOv
<1> QED
  BY <1>2, <1>3

LEMMA RequestType ==
  ASSUME TypeInv, Request, UNCHANGED platform
  PROVE  TypeInv'
<1>1. PICK a \in GuestReads \cup GuestWrites : Begin(a.kind, a.reg, a.data)
  BY DEF Request
<1>2. a.kind \in {"read", "write"} /\ a.reg \in Offsets /\ a.data \in Word
  BY RequestAsks
<1>3. access' \in [kind : {"read", "write"}, reg : Offsets, data : Word]
  BY <1>1, <1>2 DEF Begin
<1>4. nxt' \in Signals
  BY <1>1, <1>2 DEF Begin, TypeInv, TypeOK, Signals
<1>5. held' \subseteq Word /\ applied' \in 0 .. MaxAccess
  BY <1>1, <1>2, ValueType, TimerAssumption DEF Begin, TypeInv, TypeOK
<1>6. /\ runnable' \subseteq Procs /\ resume' \subseteq {"server", "timer_thread", "irq_output"}
      /\ resume' \subseteq Procs
  BY <1>1 DEF Begin, Runs, WaitDelta, TypeInv, TypeOK, Procs
<1>7. naccess' \in 0 .. MaxAccess
  BY TimerAssumption DEF Request, TypeInv, TypeOK
<1> QED
  BY <1>1, <1>3, <1>4, <1>5, <1>6, <1>7 DEF Begin, WaitDelta, TypeInv, TypeOK

\* Time that passes leaves every alarm a time, and runs processes that waited.
LEMMA AdvanceAlarm ==
  ASSUME TypeInv, Advance
  PROVE  alarm' \in [Timed -> Nat] /\ runnable' \subseteq Timed
<1>1. PICK p \in Timed :
        /\ alarm[p] # Off
        /\ \A q \in Timed : alarm[q] = Off \/ alarm[p] <= alarm[q]
        /\ runnable' = {q \in Timed : alarm[q] = alarm[p]}
        /\ alarm' = [q \in Timed |-> IF alarm[q] = Off THEN Off ELSE alarm[q] - alarm[p]]
  BY DEF Advance, TypeInv, TypeOK
<1>2. ASSUME NEW q \in Timed
      PROVE  (IF alarm[q] = Off THEN Off ELSE alarm[q] - alarm[p]) \in Nat
  BY <1>1 DEF Off, TypeInv, TypeOK
<1> QED
  BY <1>1, <1>2

LEMMA SchedulerType == TypeInv /\ Scheduler /\ UNCHANGED platform => TypeInv'
<1> SUFFICES ASSUME TypeInv, Scheduler, UNCHANGED platform PROVE TypeInv'
  OBVIOUS
<1>1. CASE Update(Woken)
  <2>1. Woken \subseteq Procs
    BY DEF Woken, PackIrqsIfAny, Procs
  <2> QED
    BY <1>1, <2>1 DEF Scheduler, Update, TypeInv, TypeOK, busVars
<1>2. CASE Advance
  <2>1. Timed \subseteq Procs
    BY DEF Timed, Procs
  <2> QED
    BY <1>2, <2>1, AdvanceAlarm DEF Advance, Scheduler, TypeInv, TypeOK, busVars
<1> QED
  BY <1>1, <1>2 DEF Scheduler

LEMMA StutterType == TypeInv /\ UNCHANGED vars => TypeInv'
  BY DEF TypeInv, TypeOK, vars, kernelVars, busVars

(***************************************************************************)
(* One access of the bridge.  The strobe and the operands are written when *)
(* it begins and taken over by the first update, which wakes bus_read or   *)
(* bus_write; the method runs before the second update, after which the    *)
(* thread samples data_out and lowers the strobe.  The low strobe is taken *)
(* over before time passes, so that the next access is an edge again.      *)
(***************************************************************************)

Low(s) == ~s.read_en /\ ~s.write_en

Strobes(s) == /\ s.read_en = (access.kind = "read")
              /\ s.write_en = (access.kind = "write")
              /\ s.address = access.reg /\ s.data_in = access.data

Waits == "server" \in resume
Running == "server" \in runnable

Performed == applied = IF access.kind = "write" THEN 1 ELSE 0

\* Where the server thread is, as the scheduler sees it.
Thread ==
  /\ Waits => pc \in {"setup", "sample"} /\ ~Running
  /\ pc \in {"setup", "sample"} => Waits \/ Running
  /\ pc # "idle" => naccess > 0

\* The strobe is up, and not yet, or just, seen.
Raised1 == pc = "setup" /\ Waits => Low(sig) /\ Strobes(nxt) /\ applied = 0

Raised2 ==
  (pc = "setup" /\ Running) \/ (pc = "sample" /\ Waits) =>
    /\ Strobes(sig) /\ Strobes(nxt)
    /\ access.kind = "read" => "bus_read" \in runnable \/ nxt.data_out \in held
    /\ applied = IF access.kind = "write" /\ "bus_write" \notin runnable THEN 1 ELSE 0

\* The method has run.
Raised3 ==
  pc = "sample" /\ Running =>
    /\ "bus_write" \notin runnable /\ Performed
    /\ access.kind = "read" => sig.data_out \in held

\* No access drives the pins.
Lowered ==
  pc \in {"idle", "settle", "respond"} =>
    /\ Low(nxt) /\ "bus_write" \notin runnable
    /\ Running => Low(sig)

WriteSeen == "bus_write" \in runnable => sig.write_en

\* The register's value is one it had during the access.
HoldsCurrent == pc # "idle" => Value(regs, access.reg) \in held

AccessInv == /\ Thread /\ Raised1 /\ Raised2 /\ Raised3 /\ Lowered /\ WriteSeen
             /\ HoldsCurrent /\ ReadsHeldWord /\ StoresOnce

LEMMA InitAccess == Init => AccessInv
  BY DEF Init, InitWith, TimerInit, Quiet, Boards, Platforms, Board, AccessInv, Thread, Raised1,
         Raised2, Raised3, Lowered, WriteSeen, HoldsCurrent, ReadsHeldWord, StoresOnce,
         Answering, Low, Waits, Running

\* A step that leaves the thread, the pins it drives and bus_write alone.
LEMMA SameAccess ==
  ASSUME AccessInv,
         UNCHANGED <<pc, access, rdata, naccess, sig, applied>>,
         Running' = Running, Waits' = Waits,
         "bus_write" \in runnable' <=> "bus_write" \in runnable,
         "bus_read" \in runnable => "bus_read" \in runnable',
         /\ nxt'.read_en = nxt.read_en /\ nxt'.write_en = nxt.write_en
         /\ nxt'.address = nxt.address /\ nxt'.data_in = nxt.data_in
         /\ nxt'.data_out = nxt.data_out,
         held \subseteq held', pc # "idle" => Value(regs', access.reg) \in held'
  PROVE  AccessInv'
<1>1. Thread' /\ Raised1'
  BY DEF AccessInv, Thread, Raised1, Low, Strobes, Waits, Running
<1>2. Raised2'
  BY DEF AccessInv, Raised2, Strobes, Waits, Running
<1>3. Raised3'
  BY DEF AccessInv, Raised3, Performed, Waits, Running
<1>4. Lowered' /\ WriteSeen'
  BY DEF AccessInv, Lowered, WriteSeen, Low, Running
<1>5. HoldsCurrent' /\ ReadsHeldWord' /\ StoresOnce'
  BY DEF AccessInv, HoldsCurrent, ReadsHeldWord, StoresOnce, Answering
<1> QED
  BY <1>1, <1>2, <1>3, <1>4, <1>5 DEF AccessInv

LEMMA RegistersHeld ==
  ASSUME NEW new, Registers(new)
  PROVE  held \subseteq held' /\ Value(regs', access.reg) \in held'
  BY DEF Registers

LEMMA DeviceAccess ==
  ASSUME TypeInv, AccessInv, Clock \/ TimerThread \/ Reset \/ IrqOutput \/ PackIrqs
  PROVE  AccessInv'
<1>1. UNCHANGED <<pc, access, rdata, naccess, sig, applied>>
  BY DEF Clock, TimerThread, Reset, IrqOutput, PackIrqs, busVars
<1>2. /\ Running' = Running
      /\ "bus_write" \in runnable' <=> "bus_write" \in runnable
      /\ "bus_read" \in runnable => "bus_read" \in runnable'
  BY DEF Clock, TimerThread, Reset, IrqOutput, PackIrqs, Runs, IrqChanged, Running
<1>3. Waits' = Waits
  BY DEF Clock, TimerThread, Reset, IrqOutput, PackIrqs, WaitEvent, Waits
<1>4. /\ nxt'.read_en = nxt.read_en /\ nxt'.write_en = nxt.write_en
      /\ nxt'.address = nxt.address /\ nxt'.data_in = nxt.data_in
      /\ nxt'.data_out = nxt.data_out
  BY DEF Clock, TimerThread, Reset, IrqOutput, PackIrqs, TypeInv, TypeOK, Signals
<1>5. held \subseteq held' /\ (pc # "idle" => Value(regs', access.reg) \in held')
  <2>1. CASE UNCHANGED <<regs, held>>
    BY <2>1, <1>1 DEF AccessInv, HoldsCurrent
  <2>2. CASE \E new \in [Regs -> Word] : Registers(new)
    BY <2>2, RegistersHeld
  <2>3. CASE TimerThread \/ Reset
    BY <2>1, <2>3, RegistersHeld DEF TimerThread, Reset
  <2> QED
    BY <2>1, <2>3 DEF Clock, IrqOutput, PackIrqs
<1> QED
  BY <1>1, <1>2, <1>3, <1>4, <1>5, SameAccess

LEMMA ReadAccess ==
  ASSUME TypeInv, AccessInv, BusRead
  PROVE  AccessInv'
<1>1. /\ UNCHANGED <<pc, access, rdata, naccess, sig, applied, resume, regs, held>>
      /\ "bus_read" \in runnable /\ runnable' = runnable \ {"bus_read"}
  BY DEF BusRead, Runs, WaitEvent, busVars
<1>2. /\ nxt'.read_en = nxt.read_en /\ nxt'.write_en = nxt.write_en
      /\ nxt'.address = nxt.address /\ nxt'.data_in = nxt.data_in
      /\ nxt'.data_out = IF sig.read_en THEN Value(regs, sig.address) ELSE nxt.data_out
  BY DEF BusRead, TypeInv, TypeOK, Signals
<1>3. Thread' /\ Raised1' /\ Raised3' /\ Lowered' /\ WriteSeen'
  BY <1>1, <1>2 DEF AccessInv, Thread, Raised1, Raised3, Lowered, WriteSeen, Low, Strobes,
                    Waits, Running, Performed
<1>4. Raised2'
  <2>1. CASE (pc = "setup" /\ Running) \/ (pc = "sample" /\ Waits)
    <3>1. access.kind = "read" => nxt'.data_out \in held
      BY <1>1, <1>2, <2>1 DEF AccessInv, Raised2, Strobes, HoldsCurrent
    <3> QED
      BY <1>1, <1>2, <2>1, <3>1 DEF AccessInv, Raised2, Strobes, Waits, Running
  <2>2. CASE ~((pc = "setup" /\ Running) \/ (pc = "sample" /\ Waits))
    BY <1>1, <2>2 DEF Raised2, Waits, Running
  <2> QED
    BY <2>1, <2>2
<1>5. HoldsCurrent' /\ ReadsHeldWord' /\ StoresOnce'
  BY <1>1 DEF AccessInv, HoldsCurrent, ReadsHeldWord, StoresOnce, Answering
<1> QED
  BY <1>3, <1>4, <1>5 DEF AccessInv

LEMMA WriteAccess ==
  ASSUME TypeInv, AccessInv, BusWrite
  PROVE  AccessInv' /\ applied' \in 0 .. MaxAccess
<1>1. /\ UNCHANGED <<pc, access, rdata, naccess, sig, nxt, resume>>
      /\ "bus_write" \in runnable /\ sig.write_en
      /\ applied' = applied + 1 /\ held \subseteq held' /\ Value(regs', access.reg) \in held'
  BY RegistersHeld DEF BusWrite, Runs, WaitEvent, busVars, AccessInv, WriteSeen
<1>2. /\ "bus_write" \notin runnable' /\ Running' = Running
      /\ "bus_read" \in runnable => "bus_read" \in runnable'
  BY DEF BusWrite, Runs, IrqChanged, Running
<1>3. (pc = "setup" /\ Running) \/ (pc = "sample" /\ Waits)
  BY <1>1 DEF AccessInv, Thread, Raised1, Raised3, Lowered, Low, TypeInv, TypeOK
<1>4. /\ Strobes(sig) /\ Strobes(nxt) /\ access.kind = "write" /\ applied = 0
  BY <1>1, <1>3 DEF AccessInv, Raised2, Strobes, TypeInv, TypeOK
<1>5. ~Answering /\ ~(pc = "setup" /\ Waits) /\ ~(pc = "sample" /\ Running)
  BY <1>3 DEF AccessInv, Thread, Answering
<1>6. Waits' = Waits
  BY <1>1 DEF Waits
<1>7. Thread' /\ Raised1' /\ Raised3' /\ Lowered' /\ WriteSeen'
  BY <1>1, <1>2, <1>3, <1>5, <1>6
     DEF AccessInv, Thread, Raised1, Raised3, Lowered, WriteSeen
<1>8. Raised2'
  BY <1>1, <1>2, <1>4 DEF Raised2, Strobes
<1>9. HoldsCurrent' /\ ReadsHeldWord' /\ StoresOnce'
  BY <1>1, <1>5 DEF HoldsCurrent, ReadsHeldWord, StoresOnce, Answering
<1>10. applied' \in 0 .. MaxAccess
  BY <1>1, <1>3, <1>4, TimerAssumption DEF AccessInv, Thread, TypeInv, TypeOK
<1> QED
  BY <1>7, <1>8, <1>9, <1>10 DEF AccessInv

LEMMA BeginAccess ==
  ASSUME TypeInv, AccessInv, Request
  PROVE  AccessInv'
<1>1. PICK a \in GuestReads \cup GuestWrites : Begin(a.kind, a.reg, a.data)
  BY DEF Request
<1>2. a.kind \in {"read", "write"} /\ a.reg \in Offsets
  BY RequestAsks
<1>3. /\ pc = "idle" /\ pc' = "setup" /\ Running /\ runnable' = runnable \ {"server"}
      /\ access' = [kind |-> a.kind, reg |-> a.reg, data |-> a.data]
      /\ held' = {Value(regs, a.reg)} /\ applied' = 0 /\ sig' = sig /\ regs' = regs
      /\ resume' = resume \cup {"server"} /\ naccess' > 0
  BY <1>1, TimerAssumption DEF Begin, Request, Runs, Running, WaitDelta, TypeInv, TypeOK
<1>4. Strobes(nxt)'
  BY <1>1 DEF Begin, Strobes, TypeInv, TypeOK, Signals
<1>5. Low(sig) /\ "bus_write" \notin runnable
  BY <1>3 DEF AccessInv, Lowered
<1>6. Waits' /\ ~Running'
  BY <1>3 DEF Waits, Running
<1>7. Thread' /\ Raised1' /\ Raised2' /\ Raised3' /\ Lowered' /\ WriteSeen'
  BY <1>3, <1>4, <1>5, <1>6
     DEF Thread, Raised1, Raised2, Raised3, Lowered, WriteSeen, Low
<1>8. HoldsCurrent' /\ ReadsHeldWord' /\ StoresOnce'
  BY <1>3 DEF HoldsCurrent, ReadsHeldWord, StoresOnce, Answering
<1> QED
  BY <1>7, <1>8 DEF AccessInv

LEMMA PollAccess ==
  ASSUME TypeInv, AccessInv, Poll \/ Settle \/ Respond
  PROVE  AccessInv'
<1>1. /\ pc \in {"idle", "settle", "respond"} /\ pc' \in {"idle", "respond"}
      /\ pc' # "idle" => pc # "idle"
      /\ pc' = "respond" => pc = "settle"
      /\ UNCHANGED <<sig, nxt, access, rdata, naccess, regs, held, applied, resume>>
      /\ Running
  BY DEF Poll, Settle, Respond, Runs, Running, WaitTime, WaitEvent, busVars
<1>2. /\ "bus_write" \notin runnable' /\ Low(nxt) /\ Low(sig)
  BY <1>1 DEF AccessInv, Lowered, Poll, Settle, Respond, Runs
<1>3. ~Waits' /\ ~Waits
  BY <1>1 DEF AccessInv, Thread, Waits
<1>4. Thread' /\ Raised1' /\ Raised2' /\ Raised3' /\ Lowered' /\ WriteSeen'
  BY <1>1, <1>2, <1>3
     DEF AccessInv, Thread, Raised1, Raised2, Raised3, Lowered, WriteSeen, Low
<1>5. HoldsCurrent' /\ ReadsHeldWord' /\ StoresOnce'
  BY <1>1 DEF AccessInv, HoldsCurrent, ReadsHeldWord, StoresOnce, Answering
<1> QED
  BY <1>4, <1>5 DEF AccessInv

LEMMA SetupAccess ==
  ASSUME TypeInv, AccessInv, Setup
  PROVE  AccessInv'
<1>1. /\ pc = "setup" /\ pc' = "sample" /\ Running /\ runnable' = runnable \ {"server"}
      /\ resume' = resume \cup {"server"}
      /\ UNCHANGED <<sig, nxt, access, rdata, naccess, regs, held, applied>>
  BY DEF Setup, Runs, Running, WaitDelta
<1>2. Waits' /\ ~Running'
  BY <1>1 DEF Waits, Running
<1>3. Thread' /\ Raised1' /\ Raised3' /\ Lowered' /\ WriteSeen'
  BY <1>1, <1>2 DEF AccessInv, Thread, Raised1, Raised3, Lowered, WriteSeen
<1>4. Raised2'
  BY <1>1, <1>2 DEF AccessInv, Raised2, Strobes
<1>5. HoldsCurrent' /\ ReadsHeldWord' /\ StoresOnce'
  BY <1>1 DEF AccessInv, HoldsCurrent, ReadsHeldWord, StoresOnce, Answering
<1> QED
  BY <1>3, <1>4, <1>5 DEF AccessInv

LEMMA SampleAccess ==
  ASSUME TypeInv, AccessInv, Sample
  PROVE  AccessInv'
<1>1. /\ pc = "sample" /\ pc' = "settle" /\ Running /\ runnable' = runnable \ {"server"}
      /\ rdata' = IF access.kind = "read" THEN sig.data_out ELSE rdata
      /\ UNCHANGED <<sig, access, naccess, regs, held, applied, resume>>
  BY DEF Sample, Runs, Running, WaitTime
<1>2. Low(nxt)'
  BY DEF Sample, Low, TypeInv, TypeOK, Signals
<1>3. ~Waits' /\ ~Running'
  BY <1>1 DEF AccessInv, Thread, Waits, Running
<1>4. "bus_write" \notin runnable' /\ Performed /\ (access.kind = "read" => rdata' \in held)
  BY <1>1 DEF AccessInv, Raised3
<1>5. Thread' /\ Raised1' /\ Raised2' /\ Raised3' /\ Lowered' /\ WriteSeen'
  BY <1>1, <1>2, <1>3, <1>4
     DEF AccessInv, Thread, Raised1, Raised2, Raised3, Lowered, WriteSeen
<1>6. HoldsCurrent' /\ ReadsHeldWord' /\ StoresOnce'
  BY <1>1, <1>4 DEF AccessInv, HoldsCurrent, ReadsHeldWord, StoresOnce, Performed
<1> QED
  BY <1>5, <1>6 DEF AccessInv

LEMMA UpdateAccess ==
  ASSUME TypeInv, AccessInv, Update(Woken), UNCHANGED <<regs, busVars, held, applied>>
  PROVE  AccessInv'
<1>1. /\ runnable = {} /\ ~Running /\ sig' = nxt /\ nxt' = nxt /\ resume' = {}
      /\ runnable' = resume \cup Woken
      /\ UNCHANGED <<pc, access, rdata, naccess, regs, held, applied>>
  BY DEF Update, Running, busVars
<1>2. /\ ~Waits' /\ Running' = Waits
      /\ "bus_write" \in runnable' <=> nxt.write_en /\ ~sig.write_en
      /\ "bus_read" \in runnable' <=> nxt.read_en /\ ~sig.read_en
  BY <1>1 DEF Waits, Running, Woken, PackIrqsIfAny, TypeInv, TypeOK, Signals
<1>3. Thread' /\ Raised1' /\ WriteSeen'
  BY <1>1, <1>2 DEF AccessInv, Thread, Raised1, WriteSeen
<1>4. Raised2'
  <2>1. CASE pc = "setup" /\ Waits
    <3>1. Low(sig) /\ Strobes(nxt) /\ applied = 0
      BY <2>1 DEF AccessInv, Raised1
    <3>2. access.kind = "read" => "bus_read" \in runnable'
      BY <1>2, <3>1 DEF Low, Strobes
    <3>3. access.kind = "write" => "bus_write" \in runnable'
      BY <1>2, <3>1 DEF Low, Strobes
    <3> QED
      BY <1>1, <3>1, <3>2, <3>3 DEF Raised2, Strobes
  <2>2. CASE ~(pc = "setup" /\ Waits)
    BY <1>1, <1>2, <2>2 DEF Raised2
  <2> QED
    BY <2>1, <2>2
<1>5. Raised3'
  <2>1. CASE pc = "sample" /\ Waits
    <3>1. Strobes(sig) /\ Strobes(nxt)
      BY <2>1 DEF AccessInv, Raised2
    <3>2. "bus_write" \notin runnable'
      BY <1>2, <3>1 DEF Strobes
    <3> QED
      BY <1>1, <2>1, <3>2 DEF AccessInv, Raised2, Raised3, Performed
  <2>2. CASE ~(pc = "sample" /\ Waits)
    BY <1>1, <1>2, <2>2 DEF Raised3
  <2> QED
    BY <2>1, <2>2
<1>6. Lowered'
  BY <1>1, <1>2 DEF AccessInv, Lowered, Low
<1>7. HoldsCurrent' /\ ReadsHeldWord' /\ StoresOnce'
  BY <1>1 DEF AccessInv, HoldsCurrent, ReadsHeldWord, StoresOnce, Answering
<1> QED
  BY <1>3, <1>4, <1>5, <1>6, <1>7 DEF AccessInv

LEMMA AdvanceAccess ==
  ASSUME TypeInv, AccessInv, Advance, UNCHANGED <<regs, busVars, held, applied>>
  PROVE  AccessInv'
<1>1. /\ runnable = {} /\ resume = {} /\ nxt = sig
      /\ UNCHANGED <<sig, nxt, resume, pc, access, rdata, naccess, regs, held, applied>>
      /\ runnable' \subseteq Timed
  BY AdvanceAlarm DEF Advance, Settled, busVars
<1>2. "bus_write" \notin runnable' /\ ~Waits' /\ ~Waits /\ ~Running
  BY <1>1 DEF Timed, Waits, Running
<1>3. pc \notin {"setup", "sample"}
  BY <1>2 DEF AccessInv, Thread
<1>4. Thread' /\ Raised1' /\ Raised2' /\ Raised3' /\ WriteSeen'
  BY <1>1, <1>2, <1>3 DEF AccessInv, Thread, Raised1, Raised2, Raised3, WriteSeen
<1>5. Lowered'
  BY <1>1, <1>2, <1>3 DEF AccessInv, Lowered, Low, TypeInv, TypeOK
<1>6. HoldsCurrent' /\ ReadsHeldWord' /\ StoresOnce'
  BY <1>1 DEF AccessInv, HoldsCurrent, ReadsHeldWord, StoresOnce, Answering
<1> QED
  BY <1>4, <1>5, <1>6 DEF AccessInv

(***************************************************************************)
(* Type correctness and the access, together: how often bus_write writes   *)
(* is bounded because it writes once.                                      *)
(***************************************************************************)

Inv == TypeInv /\ AccessInv

LEMMA InvStep == Inv /\ [Next]_vars => Inv'
<1> SUFFICES ASSUME Inv, [Next]_vars PROVE Inv'
  OBVIOUS
<1> USE DEF Inv
<1>1. CASE Request /\ UNCHANGED platform
  BY <1>1, RequestType, BeginAccess
<1>2. CASE (Clock \/ TimerThread \/ Reset \/ IrqOutput \/ PackIrqs) /\ UNCHANGED platform
  <2>1. AccessInv'
    BY <1>2, DeviceAccess
  <2>2. applied' \in 0 .. MaxAccess
    BY <1>2 DEF Clock, TimerThread, Reset, IrqOutput, PackIrqs, TypeInv, TypeOK
  <2> QED
    BY <1>2, <2>1, <2>2, ClockType, ThreadType, OutputType
<1>3. CASE (BusRead \/ BusWrite) /\ UNCHANGED platform
  BY <1>3, ReadAccess, WriteAccess, OutputType, ThreadType
<1>4. CASE (Poll \/ Setup \/ Sample \/ Settle \/ Respond) /\ UNCHANGED platform
  BY <1>4, ServerType, PollAccess, SetupAccess, SampleAccess
<1>5. CASE Scheduler /\ UNCHANGED platform
  BY <1>5, SchedulerType, UpdateAccess, AdvanceAccess DEF Scheduler
<1>6. CASE UNCHANGED vars
  <2>1. AccessInv'
    BY <1>6, SameAccess DEF vars, kernelVars, busVars, Running, Waits, AccessInv, HoldsCurrent
  <2> QED
    BY <1>6, <2>1, StutterType
<1> QED
  BY <1>1, <1>2, <1>3, <1>4, <1>5, <1>6 DEF Next, Process, Inner

LEMMA Inductive == Spec => []Inv
<1>1. Init => Inv
  BY InitType, InitAccess DEF Inv
<1> QED
  BY <1>1, InvStep, PTL DEF Spec

\* Registers and signals keep their widths, the counter wraps, and bus_write
\* never writes more often than there are accesses.
THEOREM TypeCorrect == Spec => []TypeOK
<1>1. Inv => TypeOK
  BY DEF Inv, TypeInv
<1> QED
  BY <1>1, Inductive, PTL

\* For registers of any width, every load returns a word its register held
\* during the access, however the processes of the Timer are ordered.
THEOREM LoadsCurrent == Spec => []ReadsHeldWord
<1>1. Inv => ReadsHeldWord
  BY DEF Inv, AccessInv
<1> QED
  BY <1>1, Inductive, PTL

\* And every store is written once before it is answered, a load never.
THEOREM StoresExactlyOnce == Spec => []StoresOnce
<1>1. Inv => StoresOnce
  BY DEF Inv, AccessInv
<1> QED
  BY <1>1, Inductive, PTL

(***************************************************************************)
(* The way of INTR to the pins and to irq_bits.                            *)
(***************************************************************************)

Driven ==
  \/ "irq_output" \in runnable
  \/ /\ nxt.intr1 = HasMask(regs["INTR"], IntrCmp)
     /\ nxt.intr2 = HasMask(regs["INTR"], IntrOv)

PackedIrqs == Board.packs => "pack_irqs" \in runnable \/ nxt.irq_bits = Packed(sig)

\* The server thread is the first to run when its delay is over: only timed
\* processes are runnable and they leave the signals alone.
Fresh == pc = "respond" /\ Running => runnable \subseteq Timed /\ nxt = sig

LevelInv == Driven /\ PackedIrqs /\ Fresh

LEMMA InitLevel == Init => LevelInv
<1> SUFFICES ASSUME Init PROVE LevelInv
  OBVIOUS
<1>1. /\ regs["INTR"] = 0 /\ nxt = Quiet /\ sig = Quiet /\ pc = "idle"
      /\ Board.packs => "pack_irqs" \in runnable
  BY DEF Init, InitWith, TimerInit, Regs
<1>2. (0 \div 2) % 2 # 1 /\ (0 \div 4) % 2 # 1
  OBVIOUS
<1>3. nxt.intr1 = FALSE /\ nxt.intr2 = FALSE
  BY <1>1 DEF Quiet
<1> QED
  BY <1>1, <1>2, <1>3 DEF LevelInv, Driven, PackedIrqs, Fresh, HasMask, IntrCmp, IntrOv

\* A process that may change INTR has irq_output run when it does.
LEMMA ChangeLevel ==
  ASSUME TypeInv, LevelInv, TimerThread \/ BusWrite \/ Reset, UNCHANGED platform
  PROVE  LevelInv'
<1>1. UNCHANGED <<sig, nxt, pc>>
  BY DEF TimerThread, BusWrite, Reset, busVars
<1>2. \/ regs'["INTR"] = regs["INTR"] /\ ("irq_output" \in runnable => "irq_output" \in runnable')
      \/ "irq_output" \in runnable'
  <2>1. CASE TimerThread
    BY <2>1 DEF TimerThread, Registers, Runs, IrqChanged, TypeInv, TypeOK, Regs
  <2>2. CASE BusWrite
    BY <2>2 DEF BusWrite, Stored, Registers, Runs, IrqChanged, TypeInv, TypeOK, Regs
  <2>3. CASE Reset
    BY <2>3 DEF Reset, Registers, Runs, IrqChanged, TypeInv, TypeOK, Regs
  <2> QED
    BY <2>1, <2>2, <2>3
<1>3. Driven'
  BY <1>1, <1>2 DEF LevelInv, Driven
<1>4. "pack_irqs" \in runnable => "pack_irqs" \in runnable'
  BY DEF TimerThread, BusWrite, Reset, Runs
<1>5. PackedIrqs'
  BY <1>1, <1>4 DEF LevelInv, PackedIrqs, Packed, Board
<1>6. Fresh'
  <2>1. ~(runnable \subseteq Timed)
    BY DEF TimerThread, BusWrite, Reset, Runs, Timed
  <2>2. Running' => Running
    BY DEF TimerThread, BusWrite, Reset, Runs, IrqChanged, Running
  <2> QED
    BY <1>1, <2>1, <2>2 DEF LevelInv, Fresh
<1> QED
  BY <1>3, <1>5, <1>6 DEF LevelInv

LEMMA OutputLevel ==
  ASSUME TypeInv, LevelInv, BusRead \/ IrqOutput \/ PackIrqs, UNCHANGED platform
  PROVE  LevelInv'
<1>1. UNCHANGED <<sig, regs, pc>> /\ (Running' => Running)
  BY DEF BusRead, IrqOutput, PackIrqs, busVars, Runs, Running
<1>2. ~(runnable \subseteq Timed)
  BY DEF BusRead, IrqOutput, PackIrqs, Runs, Timed
<1>3. Fresh'
  BY <1>1, <1>2 DEF LevelInv, Fresh
<1>4. CASE BusRead
  <2>1. /\ nxt'.intr1 = nxt.intr1 /\ nxt'.intr2 = nxt.intr2 /\ nxt'.irq_bits = nxt.irq_bits
        /\ runnable' = runnable \ {"bus_read"}
    BY <1>4 DEF BusRead, Runs, TypeInv, TypeOK, Signals
  <2> QED
    BY <1>1, <1>3, <2>1 DEF LevelInv, Driven, PackedIrqs, Packed, Board
<1>5. CASE IrqOutput
  <2>1. /\ nxt'.intr1 = HasMask(regs["INTR"], IntrCmp)
        /\ nxt'.intr2 = HasMask(regs["INTR"], IntrOv)
        /\ nxt'.irq_bits = nxt.irq_bits /\ runnable' = runnable \ {"irq_output"}
    BY <1>5 DEF IrqOutput, Runs, TypeInv, TypeOK, Signals
  <2> QED
    BY <1>1, <1>3, <2>1 DEF LevelInv, Driven, PackedIrqs, Packed, Board
<1>6. CASE PackIrqs
  <2>1. /\ nxt'.intr1 = nxt.intr1 /\ nxt'.intr2 = nxt.intr2 /\ nxt'.irq_bits = Packed(sig)
        /\ runnable' = runnable \ {"pack_irqs"}
    BY <1>6 DEF PackIrqs, Runs, TypeInv, TypeOK, Signals
  <2> QED
    BY <1>1, <1>3, <2>1 DEF LevelInv, Driven, PackedIrqs, Packed, Board
<1> QED
  BY <1>4, <1>5, <1>6

LEMMA ThreadLevel ==
  ASSUME TypeInv, LevelInv,
         Clock \/ Request \/ Poll \/ Setup \/ Sample \/ Settle \/ Respond,
         UNCHANGED platform
  PROVE  LevelInv'
<1>1. /\ UNCHANGED <<sig, regs>>
      /\ nxt'.intr1 = nxt.intr1 /\ nxt'.intr2 = nxt.intr2 /\ nxt'.irq_bits = nxt.irq_bits
  BY DEF Clock, Request, Begin, Poll, Setup, Sample, Settle, Respond, TypeInv, TypeOK, Signals
<1>2. /\ "irq_output" \in runnable => "irq_output" \in runnable'
      /\ "pack_irqs" \in runnable => "pack_irqs" \in runnable'
  BY DEF Clock, Request, Begin, Poll, Setup, Sample, Settle, Respond, Runs
<1>3. Driven' /\ PackedIrqs'
  BY <1>1, <1>2 DEF LevelInv, Driven, PackedIrqs, Packed, Board
<1>4. Fresh'
  <2>1. CASE Clock
    BY <2>1 DEF Clock, Runs, busVars, LevelInv, Fresh, Running
  <2>2. CASE ~Clock
    <3>1. pc' # "respond" \/ ~Running'
      BY <2>2 DEF Request, Begin, Poll, Setup, Sample, Settle, Respond, Runs, Running, busVars
    <3> QED
      BY <3>1 DEF Fresh
  <2> QED
    BY <2>1, <2>2
<1> QED
  BY <1>3, <1>4 DEF LevelInv

LEMMA SchedulerLevel ==
  ASSUME Inv, LevelInv, Scheduler, UNCHANGED platform
  PROVE  LevelInv'
<1>1. UNCHANGED <<regs, pc>> /\ runnable = {}
  BY DEF Scheduler, Update, Advance, Settled, busVars
<1>2. CASE Update(Woken)
  <2>1. sig' = nxt /\ nxt' = nxt /\ runnable' = resume \cup Woken
    BY <1>2 DEF Update
  <2>2. nxt.irq_bits = Packed(sig) \/ ~Board.packs
    BY <1>1 DEF LevelInv, PackedIrqs
  <2>3. PackedIrqs'
    <3>1. CASE nxt.intr1 # sig.intr1 \/ nxt.intr2 # sig.intr2
      BY <2>1, <3>1 DEF PackedIrqs, Woken, PackIrqsIfAny, Board
    <3>2. CASE nxt.intr1 = sig.intr1 /\ nxt.intr2 = sig.intr2
      BY <2>1, <2>2, <3>2 DEF PackedIrqs, Packed, Board
    <3> QED
      BY <3>1, <3>2
  <2>4. Driven'
    BY <1>1, <2>1 DEF LevelInv, Driven
  <2>5. Fresh'
    <3>1. pc = "respond" => "server" \notin resume
      BY DEF Inv, AccessInv, Thread, Waits
    <3>2. "server" \notin Woken
      BY DEF Woken, PackIrqsIfAny
    <3> QED
      BY <1>1, <2>1, <3>1, <3>2 DEF Fresh, Running
  <2> QED
    BY <2>3, <2>4, <2>5 DEF LevelInv
<1>3. CASE Advance
  <2>1. nxt = sig /\ UNCHANGED <<sig, nxt>> /\ runnable' \subseteq Timed
    BY <1>3, AdvanceAlarm DEF Advance, Settled, Inv
  <2> QED
    BY <1>1, <2>1 DEF LevelInv, Driven, PackedIrqs, Fresh, Packed, Board
<1> QED
  BY <1>2, <1>3 DEF Scheduler

LEMMA LevelStep == Inv /\ LevelInv /\ [Next]_vars => LevelInv'
<1> SUFFICES ASSUME Inv, LevelInv, [Next]_vars PROVE LevelInv'
  OBVIOUS
<1>1. CASE UNCHANGED vars
  BY <1>1 DEF vars, kernelVars, busVars, LevelInv, Driven, PackedIrqs, Fresh, Packed, Board, Running
<1> QED
  BY <1>1, ChangeLevel, OutputLevel, ThreadLevel, SchedulerLevel DEF Next, Process, Inner, Inv

LEMMA LevelInductive == Spec => []LevelInv
  BY Inductive, InitLevel, LevelStep, PTL DEF Spec

LEMMA PackedLevels ==
  ASSUME TypeInv, Driven, "irq_output" \notin runnable, nxt = sig
  PROVE  Packed(sig) = Levels
  BY DEF Driven, Packed, Levels

\* Whenever time may pass the pins show INTR, whatever changed it.
THEOREM PinsSettle == Spec => []SettledPins
<1>1. Inv /\ LevelInv => SettledPins
  BY PackedLevels DEF Inv, LevelInv, SettledPins, Settled
<1> QED
  BY <1>1, Inductive, LevelInductive, PTL

\* On a platform that packs them the interrupt bits of every response are
\* those of INTR when it is sent.
THEOREM LevelsAnswered == Spec => ResponseIrqs
<1>1. ASSUME Inv, LevelInv, [Next]_vars, Board.packs, pc = "respond", pc' = "idle"
      PROVE  irqs' = Levels
  <2>1. Respond
    BY <1>1 DEF Next, Request, Begin, Process, Inner, Clock, TimerThread, BusRead, BusWrite,
                Reset, IrqOutput, PackIrqs, Poll, Setup, Sample, Settle, Scheduler, vars, busVars
  <2>2. irqs' = sig.irq_bits /\ Running
    BY <2>1 DEF Respond, Runs, Running
  <2>3. runnable \subseteq Timed /\ nxt = sig
    BY <1>1, <2>2 DEF LevelInv, Fresh
  <2>4. "irq_output" \notin runnable /\ "pack_irqs" \notin runnable
    BY <2>3 DEF Timed
  <2> QED
    BY <1>1, <2>2, <2>3, <2>4, PackedLevels DEF LevelInv, PackedIrqs, Inv
<1>2. Inv /\ LevelInv /\ [Next]_vars =>
        [Board.packs /\ pc = "respond" /\ pc' = "idle" => irqs' = Levels]_vars
  BY <1>1
<1> QED
  BY Inductive, LevelInductive, <1>2, PTL DEF Spec, ResponseIrqs

=============================================================================
