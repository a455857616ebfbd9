------------------------------ MODULE SystemC ------------------------------
(***************************************************************************)
(* The SystemC scheduler as the models of src/ rely on it (external: the   *)
(* library is not part of the repository).  At one instant of simulated    *)
(* time it alternates between an evaluation phase, in which the runnable   *)
(* processes run one after another in an unspecified order, and an update  *)
(* phase, in which the signals take the values written to them and wake    *)
(* the processes sensitive to the change.  When nothing is left to do the  *)
(* time advances to the next timed event.                                  *)
(***************************************************************************)
EXTENDS Naturals

VARIABLES runnable, \* processes to run in this evaluation phase
          resume,   \* processes in wait(SC_ZERO_TIME)
          sig,      \* record of the values of the signals
          nxt,      \* record of the values last written to them
          alarm     \* time until each process in a timed wait resumes, or Off

kernelVars == <<runnable, resume, sig, nxt, alarm>>

Off == 0

\* Process p runs until it waits; what it notifies immediately runs too.
Runs(p, notified) == /\ p \in runnable
                     /\ runnable' = (runnable \ {p}) \cup notified

\* The two timed waits of a process that is running.
WaitDelta(p) == resume' = resume \cup {p} /\ UNCHANGED alarm
WaitTime(p, t) == alarm' = [alarm EXCEPT ![p] = t] /\ UNCHANGED resume

\* A process that only waits for events of its sensitivity list.
WaitEvent == UNCHANGED <<resume, alarm>>

Settled == runnable = {} /\ resume = {} /\ nxt = sig

\* The update phase and the delta notification of what it wakes.
Update(woken) == /\ runnable = {} /\ ~Settled
                 /\ sig' = nxt
                 /\ runnable' = resume \cup woken
                 /\ resume' = {}
                 /\ UNCHANGED <<nxt, alarm>>

\* The timed notification phase: the earliest timed waits end.
Advance == /\ Settled
           /\ \E p \in DOMAIN alarm :
                /\ alarm[p] # Off
                /\ \A q \in DOMAIN alarm : alarm[q] = Off \/ alarm[p] <= alarm[q]
                /\ runnable' = {q \in DOMAIN alarm : alarm[q] = alarm[p]}
                /\ alarm' = [q \in DOMAIN alarm |->
                               IF alarm[q] = Off THEN Off ELSE alarm[q] - alarm[p]]
           /\ UNCHANGED <<resume, sig, nxt>>
=============================================================================
