------------------------------ MODULE Breaker ------------------------------
(***************************************************************************)
(* The class CircuitBreaker of services/circuit-breaker-manager.ts as      *)
(* operators on one record: what allowRequest, record and reset do to the  *)
(* fields of a breaker.  The state machines that share a breaker between   *)
(* requests (CircuitBreaker, Proxy) are built from these operators.        *)
(*                                                                         *)
(* requestLog is a bag: for each outcome and each timestamp, how many      *)
(* entries the array holds (its order is never read).  latency,            *)
(* failureCount and halfOpenFailCount are written and never read.          *)
(***************************************************************************)
EXTENDS Integers, Functions

CONSTANTS
    ErrorThreshold,       \* % of failures in the window that opens the circuit
    RecoveryTimeout,      \* how long it stays open
    HalfOpenMaxRequests,  \* probes let through, and passes needed to close
    WindowSize,           \* how long an entry of the log counts
    MinRequests,          \* records since the last close before it may open
    MaxTime               \* bound of the clock (model only)

ASSUME BreakerAssumption ==
    /\ ErrorThreshold \in 0..100
    /\ RecoveryTimeout \in Nat \ {0}
    /\ HalfOpenMaxRequests \in Nat \ {0}
    /\ WindowSize \in Nat \ {0}
    /\ MinRequests \in Nat \ {0}
    /\ MaxTime \in Nat \ {0}

Time == 1..MaxTime
Never == 0                \* openedAt = null; Date.now() is never 0

States == {"closed", "open", "half-open"}

Log == [BOOLEAN -> [Time -> Nat]]
EmptyLog == [ok \in BOOLEAN |-> [t \in Time |-> 0]]
AddTo(log, ok, now) == [log EXCEPT ![ok][now] = @ + 1]

InWindow(t, now) == t >= now - WindowSize
Count(log, ok) == SumFunctionOnSet(log[ok], Time)

Breakers == [state : States,
             openedAt : Time \cup {Never},
             requestLog : Log,
             totalCount : Nat,
             halfOpenPassCount : Nat,
             halfOpenRequestCount : Nat]

NewBreaker == [state |-> "closed",
               openedAt |-> Never,
               requestLog |-> EmptyLog,
               totalCount |-> 0,
               halfOpenPassCount |-> 0,
               halfOpenRequestCount |-> 0]

-----------------------------------------------------------------------------
(* transitionTo.  Opening stamps the clock, closing forgets the history,   *)
(* half-open keeps both; all three restart the probe counters.             *)

\* Faulty: the clock is stamped only when none is stored.
TransitionKeepingStamp(b, s, now) ==
    [b EXCEPT !.state = s,
              !.halfOpenPassCount = 0,
              !.halfOpenRequestCount = 0,
              !.openedAt = IF s = "closed" THEN Never
                           ELSE IF s = "open" /\ @ = Never THEN now ELSE @,
              !.requestLog = IF s = "closed" THEN EmptyLog ELSE @,
              !.totalCount = IF s = "closed" THEN 0 ELSE @]

\* Faulty: only the first opening stamps the clock, any other step clears it.
TransitionLosingStamp(b, s, now) ==
    [b EXCEPT !.state = s,
              !.halfOpenPassCount = 0,
              !.halfOpenRequestCount = 0,
              !.openedAt = IF s = "open" /\ b.state = "closed" THEN now
                           ELSE IF s = "open" THEN Never
                           ELSE IF s = "closed" THEN Never ELSE @,
              !.requestLog = IF s = "closed" THEN EmptyLog ELSE @,
              !.totalCount = IF s = "closed" THEN 0 ELSE @]

\* Faulty: the passes of one half-open episode count in the next.
TransitionKeepingPasses(b, s, now) ==
    [b EXCEPT !.state = s,
              !.halfOpenRequestCount = 0,
              !.openedAt = IF s = "open" THEN now
                           ELSE IF s = "closed" THEN Never ELSE @,
              !.requestLog = IF s = "closed" THEN EmptyLog ELSE @,
              !.totalCount = IF s = "closed" THEN 0 ELSE @]

TransitionTo(b, s, now) ==
    [b EXCEPT !.state = s,
              !.halfOpenPassCount = 0,
              !.halfOpenRequestCount = 0,
              !.openedAt = IF s = "open" THEN now
                           ELSE IF s = "closed" THEN Never ELSE @,
              !.requestLog = IF s = "closed" THEN EmptyLog ELSE @,
              !.totalCount = IF s = "closed" THEN 0 ELSE @]

-----------------------------------------------------------------------------
(* allowRequest.  Only a request moves an open breaker to half-open: there *)
(* is no timer.  The request that wakes it takes the first probe slot.     *)

Elapsed(b, now) == b.openedAt # Never /\ now - b.openedAt >= RecoveryTimeout

Woken(b, now) ==
    IF b.state = "open" /\ Elapsed(b, now)
    THEN TransitionTo(b, "half-open", now)
    ELSE b

\* Faulty: a half-open circuit lets everybody through.
AllowsUncounted(b, now) == Woken(b, now).state # "open"

Allows(b, now) ==
    LET w == Woken(b, now)
    IN  \/ w.state = "closed"
        \/ w.state = "half-open" /\ w.halfOpenRequestCount < HalfOpenMaxRequests

AllowRequest(b, now) ==
    LET w == Woken(b, now)
    IN  IF w.state = "half-open" /\ Allows(b, now)
        THEN [w EXCEPT !.halfOpenRequestCount = @ + 1]
        ELSE w

-----------------------------------------------------------------------------
(* record.  The entry is logged in every state; what follows depends on    *)
(* the state the breaker is in NOW, whenever the call was admitted.        *)

\* Faulty: an entry on the edge of the window is dropped.
LoggedStrictly(b, ok, now) ==
    [b EXCEPT !.requestLog =
                 [o \in BOOLEAN |-> [t \in Time |->
                     IF t > now - WindowSize
                     THEN AddTo(@, ok, now)[o][t] ELSE 0]],
              !.totalCount = @ + 1]

Logged(b, ok, now) ==
    [b EXCEPT !.requestLog =
                 [o \in BOOLEAN |-> [t \in Time |->
                     IF InWindow(t, now) THEN AddTo(@, ok, now)[o][t] ELSE 0]],
              !.totalCount = @ + 1]

\* failures/total*100 >= threshold, in integers (the entry just pushed is
\* in the log, so total > 0).
ErrorRateExceeded(log) ==
    100 * Count(log, FALSE)
        >= ErrorThreshold * (Count(log, FALSE) + Count(log, TRUE))

Trips(b) == b.totalCount >= MinRequests /\ ErrorRateExceeded(b.requestLog)

\* Faulty: closes only after one pass more than there are probe slots.
PassedEnoughOneLate(b) == b.halfOpenPassCount + 1 > HalfOpenMaxRequests

PassedEnough(b) == b.halfOpenPassCount + 1 >= HalfOpenMaxRequests

\* Faulty: a failure recorded while open restarts the recovery timeout.
RecordExtendingOpen(b, ok, now) ==
    LET r == Logged(b, ok, now)
    IN  CASE r.state = "half-open" /\ ok /\ PassedEnough(r) ->
                TransitionTo(r, "closed", now)
          [] r.state = "half-open" /\ ok /\ ~PassedEnough(r) ->
                [r EXCEPT !.halfOpenPassCount = @ + 1]
          [] r.state # "closed" /\ ~ok -> TransitionTo(r, "open", now)
          [] r.state = "closed" /\ Trips(r) -> TransitionTo(r, "open", now)
          [] OTHER -> r

\* After a close the log is empty and totalCount is 0 < MinRequests, so the
\* evaluation at the end of record() never fires in the call that closed.
Record(b, ok, now) ==
    LET r == Logged(b, ok, now)
    IN  CASE r.state = "half-open" /\ ok /\ PassedEnough(r) ->
                TransitionTo(r, "closed", now)
          [] r.state = "half-open" /\ ok /\ ~PassedEnough(r) ->
                [r EXCEPT !.halfOpenPassCount = @ + 1]
          [] r.state = "half-open" /\ ~ok -> TransitionTo(r, "open", now)
          [] r.state = "closed" /\ Trips(r) -> TransitionTo(r, "open", now)
          [] OTHER -> r

\* reset(), the operator's manual close.
Reset(b, now) == TransitionTo(b, "closed", now)
=============================================================================
