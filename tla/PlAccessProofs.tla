--------------------------- MODULE PlAccessProofs ---------------------------
(***************************************************************************)
(* Lemmas about PlAccess and the scheduler, for the proofs of the devices. *)
(***************************************************************************)
EXTENDS PlAccess, TLAPS

LEMMA WaitTimeType ==
  ASSUME alarm \in [Timed -> Nat], NEW p \in Timed, NEW t \in Nat, WaitTime(p, t)
  PROVE  alarm' \in [Timed -> Nat]
  BY DEF WaitTime

\* A call, whatever the device is and whatever it notifies.
LEMMA CallType ==
  ASSUME AccessTypeOK, NEW time \in Nat, NEW notified, CallFor(time, notified)
  PROVE  /\ AccessTypeOK'
         /\ runnable' \subseteq runnable \cup notified
         /\ alarm'["clk"] = alarm["clk"]
         /\ UNCHANGED <<resume, sig, nxt>>
<1> USE DEF AccessTypeOK, CallFor, Runs
<1>1. "server" \in Timed
  BY DEF Timed
<1>2. alarm' \in [Timed -> Nat] /\ resume' = resume
  BY <1>1, WaitTimeType DEF WaitTime
<1>3. alarm'["clk"] = alarm["clk"]
  BY DEF WaitTime, Timed
<1> QED
  BY <1>2, <1>3

\* The steps of the server thread between accesses, of the reset sequence and
\* of pack_irqs, whatever other signals the device has.
LEMMA CommonType ==
  ASSUME AccessTypeOK, sig.irq_bits \subseteq Lines,
         Poll \/ Respond \/ Release \/ PackIrqs
  PROVE  /\ AccessTypeOK'
         /\ runnable' \subseteq runnable \cup {"server"}
         /\ alarm'["clk"] = alarm["clk"]
         /\ UNCHANGED <<resume, sig>>
         /\ \/ UNCHANGED nxt
            \/ nxt' = [nxt EXCEPT !.reset = FALSE]
            \/ nxt' = [nxt EXCEPT !.irq_bits = Packed(sig)]
<1> USE DEF AccessTypeOK, Runs, accessVars
<1>1. CASE Poll
  <2>1. "server" \in Timed /\ PollSlice \in Nat
    BY AccessAssumption DEF Timed
  <2>2. alarm' \in [Timed -> Nat]
    BY <1>1, <2>1, WaitTimeType DEF Poll
  <2>3. alarm'["clk"] = alarm["clk"] /\ resume' = resume
    BY <1>1 DEF Poll, WaitTime, Timed
  <2> QED
    BY <1>1, <2>2, <2>3 DEF Poll
<1>2. CASE Respond
  BY <1>2 DEF Respond, WaitEvent
<1>3. CASE Release
  BY <1>3 DEF Release, WaitEvent
<1>4. CASE PackIrqs
  BY <1>4 DEF PackIrqs, WaitEvent
<1> QED
  BY <1>1, <1>2, <1>3, <1>4

\* Time that passes leaves every alarm a time, and runs processes that waited.
LEMMA AdvanceType ==
  ASSUME alarm \in [Timed -> Nat], Advance
  PROVE  /\ alarm' \in [Timed -> Nat]
         /\ runnable' \subseteq {p \in Timed : alarm[p] # Off}
         /\ alarm["clk"] = Off => alarm'["clk"] = Off
         /\ UNCHANGED <<resume, sig, nxt>>
<1>1. PICK p \in Timed :
        /\ alarm[p] # Off
        /\ \A q \in Timed : alarm[q] = Off \/ alarm[p] <= alarm[q]
        /\ runnable' = {q \in Timed : alarm[q] = alarm[p]}
        /\ alarm' = [q \in Timed |-> IF alarm[q] = Off THEN Off ELSE alarm[q] - alarm[p]]
  BY DEF Advance
<1>2. ASSUME NEW q \in Timed
      PROVE  (IF alarm[q] = Off THEN Off ELSE alarm[q] - alarm[p]) \in Nat
  BY <1>1 DEF Off
<1>3. alarm' \in [Timed -> Nat]
  BY <1>1, <1>2
<1>4. "clk" \in Timed
  BY DEF Timed
<1> QED
  BY <1>1, <1>3, <1>4 DEF Advance

LEMMA InitAccessType ==
  ASSUME NEW methods, AccessInit(methods)
  PROVE  /\ AccessTypeOK
         /\ runnable \subseteq {"server", "pack_irqs"} \cup methods
         /\ resume = {}
         /\ alarm["clk"] = Off
  BY AccessAssumption DEF AccessInit, AccessTypeOK, Off, Timed

=============================================================================
