-------------------------- MODULE BreakerContract --------------------------
(***************************************************************************)
(* What a route's circuit breaker promises: the state diagram of the       *)
(* README's "Circuit Breaking" section, with the clock that its arrows     *)
(* mention and two counters for its half-open arrow.  It knows nothing of  *)
(* the log, of the calls in flight or of their answers.                    *)
(***************************************************************************)
EXTENDS Integers

CONSTANTS Recovery,     \* how long the circuit stays open
          Probes,       \* requests let through half-open; passes that close it
          ManualResets  \* whether anyone closes the circuit by hand

VARIABLES phase,        \* "closed", "open" or "half-open"
          clock,
          opened,       \* when the circuit last opened, 0 when closed
          admitted,     \* probes let through in this half-open episode
          passed        \* and successes recorded in it

vars == <<phase, clock, opened, admitted, passed>>

Init == /\ phase = "closed"
        /\ clock = 1
        /\ opened = 0
        /\ admitted = 0
        /\ passed = 0

Closed == /\ phase' = "closed"
          /\ opened' = 0
          /\ admitted' = 0
          /\ passed' = 0
          /\ UNCHANGED clock

\* The operator closes the circuit by hand, whatever its state.
ManualClose == ManualResets /\ Closed

\* failures >= threshold
Trip == /\ phase = "closed"
        /\ phase' = "open"
        /\ opened' = clock
        /\ UNCHANGED <<clock, admitted, passed>>

\* The recovery timeout is over: the next request goes through as a probe.
Wake == /\ phase = "open"
        /\ clock - opened >= Recovery
        /\ phase' = "half-open"
        /\ admitted' = 1
        /\ UNCHANGED <<clock, opened, passed>>

Probe == /\ phase = "half-open"
         /\ admitted < Probes
         /\ admitted' = admitted + 1
         /\ UNCHANGED <<phase, clock, opened, passed>>

Pass == /\ phase = "half-open"
        /\ passed + 1 < Probes
        /\ passed' = passed + 1
        /\ UNCHANGED <<phase, clock, opened, admitted>>

\* success >= halfOpenMax
Close == /\ phase = "half-open"
         /\ passed + 1 = Probes
         /\ Closed

\* any failure: back to open, with a fresh timeout
Reopen == /\ phase = "half-open"
          /\ phase' = "open"
          /\ opened' = clock
          /\ admitted' = 0
          /\ passed' = 0
          /\ UNCHANGED clock

Pause == /\ clock' = clock + 1
         /\ UNCHANGED <<phase, opened, admitted, passed>>

Next == Trip \/ Wake \/ Probe \/ Pass \/ Close \/ ManualClose \/ Reopen \/ Pause

Spec == Init /\ [][Next]_vars
=============================================================================
