--------------------------- MODULE CircuitBreaker ---------------------------
(***************************************************************************)
(* One route's circuit breaker shared by the proxied calls of that route   *)
(* (services/circuit-breaker-manager.ts driven by routing/proxy.ts).       *)
(*                                                                         *)
(* JavaScript runs one callback at a time, so each action below is one     *)
(* callback and is atomic; what interleaves is the callbacks of different  *)
(* calls.  A call asks for admission, its answer is recorded when the      *)
(* status line arrives, and an error is recorded whenever it comes: before *)
(* the answer (refused, reset, timed out) or after it, while the body is   *)
(* still streaming.  The breaker does not know which call a record is of.  *)
(***************************************************************************)
EXTENDS Breaker, FiniteSets

CONSTANTS Calls,         \* the attempts made over the run
          CanThrow,      \* whether building the upstream request may throw
          ManualResets   \* whether reset() is ever called

ASSUME CallsAssumption ==
    /\ IsFiniteSet(Calls)
    /\ CanThrow \in BOOLEAN
    /\ ManualResets \in BOOLEAN

VARIABLES
    now,        \* Date.now()
    breaker,    \* the CircuitBreaker object
    call,       \* where each call is
    probes,     \* history: calls let through in the current half-open episode
    trippedAt,  \* history: when the circuit last opened
    since       \* history: every record since the last close, never pruned

vars == <<now, breaker, call, probes, trippedAt, since>>

CallStates == {"new",        \* not admitted yet; refused attempts come back
               "inflight",   \* admitted, no status line yet
               "streaming",  \* answered, the body is still being piped
               "done",
               "threw"}      \* admitted, but never sent: nothing is recorded

TypeOK ==
    /\ now \in Time
    /\ breaker \in Breakers
    /\ breaker.halfOpenPassCount < HalfOpenMaxRequests
    /\ breaker.halfOpenRequestCount <= HalfOpenMaxRequests
    /\ call \in [Calls -> CallStates]
    /\ probes \subseteq Calls
    /\ trippedAt \in Time \cup {Never}
    /\ since \in Log

Init ==
    /\ now = 1
    /\ breaker = NewBreaker
    /\ call = [c \in Calls |-> "new"]
    /\ probes = {}
    /\ trippedAt = Never
    /\ since = EmptyLog

-----------------------------------------------------------------------------
\* What the history variables see of a step to breaker b that admitted the
\* calls in who.
Remember(b, who) ==
    /\ probes' = IF b.state = "half-open" THEN probes \cup who ELSE {}
    /\ trippedAt' = IF b.state = "open" /\ breaker.state # "open"
                    THEN now ELSE trippedAt

\* attempt(): allowRequest() says yes and the upstream request is sent.  A
\* refused attempt answers 503 and leaves the breaker as it was.
Admit(c) ==
    /\ call[c] = "new"
    /\ Allows(breaker, now)
    /\ breaker' = AllowRequest(breaker, now)
    /\ call' = [call EXCEPT ![c] = "inflight"]
    /\ Remember(breaker', {c})
    /\ UNCHANGED <<now, since>>

\* attempt() throws between allowRequest() and the registration of its
\* handlers; the rejection is caught in proxyRequest, which answers 502.
Throw(c) ==
    /\ CanThrow
    /\ call[c] = "new"
    /\ Allows(breaker, now)
    /\ breaker' = AllowRequest(breaker, now)
    /\ call' = [call EXCEPT ![c] = "threw"]
    /\ Remember(breaker', {c})
    /\ UNCHANGED <<now, since>>

RecordResult(ok) ==
    /\ breaker' = Record(breaker, ok, now)
    /\ Remember(breaker', {})
    /\ since' = IF breaker'.state = "closed" /\ breaker.state # "closed"
                THEN EmptyLog ELSE AddTo(since, ok, now)
    /\ UNCHANGED now

\* The response callback: any status below 500 is a success.
Respond(c, ok) ==
    /\ call[c] = "inflight"
    /\ call' = [call EXCEPT ![c] = "streaming"]
    /\ RecordResult(ok)

\* The 'error' handler, also for a call that has been answered already: an
\* idle timeout or a reset while the body streams records a second result.
Fail(c) ==
    /\ call[c] \in {"inflight", "streaming"}
    /\ call' = [call EXCEPT ![c] = "done"]
    /\ RecordResult(FALSE)

\* The body ends; nothing is recorded.
Finish(c) ==
    /\ call[c] = "streaming"
    /\ call' = [call EXCEPT ![c] = "done"]
    /\ UNCHANGED <<now, breaker, probes, trippedAt, since>>

ManualReset ==
    /\ ManualResets
    /\ breaker' = Reset(breaker, now)
    /\ Remember(breaker', {})
    /\ since' = EmptyLog
    /\ UNCHANGED <<now, call>>

Tick ==
    /\ now < MaxTime
    /\ now' = now + 1
    /\ UNCHANGED <<breaker, call, probes, trippedAt, since>>

Next ==
    \/ \E c \in Calls : \/ Admit(c)
                        \/ Throw(c)
                        \/ \E ok \in BOOLEAN : Respond(c, ok)
                        \/ Fail(c)
                        \/ Finish(c)
    \/ ManualReset
    \/ Tick

Spec == Init /\ [][Next]_vars

\* Time passes, a client keeps knocking, and every upstream request ends: it
\* is answered, it fails, or route.timeout destroys it.
Settle(c) == Fail(c) \/ Finish(c) \/ \E ok \in BOOLEAN : Respond(c, ok)
Fairness ==
    /\ WF_vars(Tick)
    /\ WF_vars(\E c \in Calls : Admit(c))
    /\ \A c \in Calls : WF_vars(Settle(c))

FairSpec == Spec /\ Fairness

-----------------------------------------------------------------------------
HalfOpen == breaker.state = "half-open"

\* The backend is left alone for the whole recovery timeout: no probe goes
\* out earlier than RecoveryTimeout after the circuit last opened, however
\* late results of earlier calls interleave (allowRequest, record).
QuietPeriod == HalfOpen => now - trippedAt >= RecoveryTimeout

\* The thundering herd is bounded: of all the calls racing into a half-open
\* circuit at most HalfOpenMaxRequests get through per episode, and the
\* counter the code keeps is exactly the number that did.
ProbeLimit ==
    /\ Cardinality(probes) <= HalfOpenMaxRequests
    /\ HalfOpen => breaker.halfOpenRequestCount = Cardinality(probes)

Exhausted == HalfOpen /\ breaker.halfOpenRequestCount = HalfOpenMaxRequests
Unresolved == {c \in probes : call[c] \in {"inflight", "threw"}}

\* A half-open circuit that refuses everyone is waiting for somebody: one of
\* the calls it let through has not been recorded.  Without this the route
\* would stay closed off for ever, since no timer leaves half-open.
NoWedge == Exhausted => Unresolved # {}

\* Results of calls admitted before the circuit opened keep arriving while
\* it is open; they neither postpone nor hasten the recovery (record in
\* state "open").
LateResultsLeaveOpenAlone ==
    [][breaker.state = "open" /\ breaker'.state = "open"
         => breaker'.openedAt = breaker.openedAt]_vars

\* The window, read from the unpruned history instead of the log.
WindowOf(hist, t) == [ok \in BOOLEAN |->
                        [u \in Time |-> IF InWindow(u, t) THEN hist[ok][u] ELSE 0]]
Recorded(hist) == Count(hist, TRUE) + Count(hist, FALSE)

\* A closed circuit opens at a record exactly when MinRequests results have
\* been recorded since it last closed and the failures among those of the
\* last WindowSize reach ErrorThreshold: the log pruned record by record
\* loses nothing the window needs and keeps nothing it should not.
TripsExactlyOnErrorRate ==
    [][breaker.state = "closed" /\ since' # since /\ since' # EmptyLog
         => (breaker'.state = "open" <=>
                /\ Recorded(since') >= MinRequests
                /\ ErrorRateExceeded(WindowOf(since', now)))]_vars

-----------------------------------------------------------------------------
\* An open circuit is probed once its timeout is over, as long as requests
\* keep coming; the clock's bound leaves room for the timeout.
OpenIsProbed ==
    (/\ breaker.state = "open"
     /\ breaker.openedAt + RecoveryTimeout <= MaxTime
     /\ \E c \in Calls : call[c] = "new") ~> breaker.state # "open"

\* Half-open does not last: once its probe slots are taken the circuit closes
\* or opens again, unless a call took one of them and then threw.
HalfOpenResolves ==
    Exhausted ~> (~HalfOpen \/ \E c \in probes : call[c] = "threw")

\* tests/integration/chaos.test.ts: "Circuit breaker recovers (half-open ->
\* closed)", whatever became of the probes: a call that is refused because
\* the slots are taken is not refused for ever.
CircuitRecovers == Exhausted /\ (\E c \in Calls : call[c] = "new") ~> ~HalfOpen

\* Tests and comments of the breaker: it "does not open below minRequests
\* even with 100% errors"; minRequests is said of the same rolling window
\* as the error rate, so a circuit that trips has that many results in it.
TripsOnlyWithEnoughSamples ==
    [][breaker.state = "closed" /\ breaker'.state = "open"
         => Recorded(breaker'.requestLog) >= MinRequests]_vars

-----------------------------------------------------------------------------
Contract == INSTANCE BreakerContract WITH
                Recovery <- RecoveryTimeout,
                Probes <- HalfOpenMaxRequests,
                phase <- breaker.state,
                clock <- now,
                opened <- breaker.openedAt,
                admitted <- breaker.halfOpenRequestCount,
                passed <- breaker.halfOpenPassCount

\* The class implements the README's state diagram.
ImplementsContract == Contract!Spec
=============================================================================
