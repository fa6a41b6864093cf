-------------------------- MODULE SlidingWindowLog --------------------------
(***************************************************************************)
(* One rate-limit key of lua/sliding_window_log.lua, used by the gateways  *)
(* through checkRateLimitRedis of middleware/rate-limiter.ts.              *)
(*                                                                         *)
(* The script runs atomically in Redis, but the time it works with is read *)
(* by the gateway before the call is sent.  A gateway's connection keeps   *)
(* the order of its calls; calls of different gateways overtake each other *)
(* (infra/k8s/deployment.yaml runs three).                                 *)
(*                                                                         *)
(* The sorted set is a set of scores: the member a script adds is          *)
(* now:math.random(), Redis seeds the generator alike for every script, so *)
(* two requests of the same millisecond add the same member.               *)
(***************************************************************************)
EXTENDS Integers, FiniteSets

CONSTANTS Reqs, Gateways,
          WindowMs,      \* rule.windowMs
          Capacities,    \* rule.capacity of the rules that share the key
          Cost,          \* rule.cost
          Second,        \* milliseconds in a second (scaled down for TLC)
          MaxDelay,      \* longest time from capturing the clock to the script
          MaxTime        \* bound of the clock (model only)

ASSUME WindowAssumption ==
    /\ IsFiniteSet(Reqs)
    /\ WindowMs \in Nat \ {0}
    /\ Capacities \subseteq Nat \ {0} /\ Capacities # {}
    /\ MaxDelay \in Nat
    /\ Cost \in Nat \ {0}
    /\ Second \in Nat \ {0}
    /\ MaxTime \in Nat \ {0}

Time == 1..MaxTime
Never == 0

VARIABLES
    now,       \* the clock all machines share
    log,       \* the scores in the key's sorted set
    expireAt,  \* when Redis drops the key, Never when it has no TTL
    status,    \* where each request is
    stamp,     \* the Date.now() its gateway captured for it
    gw,        \* the gateway it came through
    cap,       \* the capacity of the rule it is checked against
    told       \* history: the moment a rejected client was told to retry at

vars == <<now, log, expireAt, status, stamp, gw, cap, told>>

TypeOK ==
    /\ now \in Time
    /\ log \subseteq Time
    /\ expireAt \in Nat
    /\ status \in [Reqs -> {"new", "sent", "admitted", "rejected"}]
    /\ stamp \in [Reqs -> Time \cup {Never}]
    /\ gw \in [Reqs -> Gateways]
    /\ cap \in [Reqs -> Capacities]
    /\ told \in [Reqs -> Nat]
    /\ \E c \in Capacities : Cardinality(log) <= c

Init ==
    /\ now = 1
    /\ log = {}
    /\ expireAt = Never
    /\ status = [r \in Reqs |-> "new"]
    /\ stamp = [r \in Reqs |-> Never]
    /\ gw \in [Reqs -> Gateways]
    /\ cap \in [Reqs -> Capacities]
    /\ told = [r \in Reqs |-> Never]

-----------------------------------------------------------------------------
\* Faulty: rounded down.
FloorDiv(n, d) == n \div d

Ceil(n, d) == (n + d - 1) \div d

\* Faulty: the entry on the edge of the window is kept.
PrunedLate(scores, t) == {s \in scores : s >= t - WindowMs}

\* ZREMRANGEBYSCORE key 0 (t - window)
Pruned(scores, t) == {s \in scores : s > t - WindowMs}

Fits(scores, c) == c - Cardinality(scores) - Cost >= 0

\* Faulty: the TTL is cut to the whole seconds below the window.
TtlOfWholeSeconds(w) == (w \div Second) * Second

\* ceil(windowMs / 1000) + 1 seconds
Ttl(w) == (Ceil(w, Second) + 1) * Second

Oldest(scores) == CHOOSE s \in scores : \A u \in scores : s <= u

\* ZRANGE 0 (count - capacity): the wait for the oldest entry of that range to
\* leave the window.  A negative index counts from the end, so the range is
\* empty when count - capacity < -count; then it is the whole window.
RetryAfterMs(scores, c, t) ==
    IF 2 * Cardinality(scores) >= c /\ scores # {}
    THEN Oldest(scores) + WindowMs - t
    ELSE WindowMs

\* The gateway reads its clock and sends the script call.
Send(r) ==
    /\ status[r] = "new"
    /\ status' = [status EXCEPT ![r] = "sent"]
    /\ stamp' = [stamp EXCEPT ![r] = now]
    /\ UNCHANGED <<now, log, expireAt, gw, cap, told>>

\* The calls of a connection run in the order they were sent.
HeadOfLine(r) ==
    /\ status[r] = "sent"
    /\ \A q \in Reqs : status[q] = "sent" /\ gw[q] = gw[r]
                         => stamp[r] <= stamp[q]

\* The script: prune, count, then add the entry or tell when to come back.
\* The answer's wait is rounded up to seconds.
Run(r) ==
    LET kept == Pruned(log, stamp[r])
    IN  /\ HeadOfLine(r)
        /\ \/ /\ Fits(kept, cap[r])
              /\ log' = kept \cup {stamp[r]}
              /\ expireAt' = now + Ttl(WindowMs)
              /\ status' = [status EXCEPT ![r] = "admitted"]
              /\ UNCHANGED told
           \/ /\ ~Fits(kept, cap[r])
              /\ log' = kept
              /\ status' = [status EXCEPT ![r] = "rejected"]
              /\ told' = [told EXCEPT ![r] =
                   stamp[r] + Second
                       * Ceil(RetryAfterMs(kept, cap[r], stamp[r]), Second)]
              /\ expireAt' = IF kept = {} THEN Never ELSE expireAt
        /\ UNCHANGED <<now, stamp, gw, cap>>

\* Redis drops the key.
Expire ==
    /\ expireAt # Never
    /\ now >= expireAt
    /\ log' = {}
    /\ expireAt' = Never
    /\ UNCHANGED <<now, status, stamp, gw, cap, told>>

\* Time passes; no call takes longer than MaxDelay to reach its turn, and no
\* key outlives its TTL.
Tick ==
    /\ now < MaxTime
    /\ expireAt # Never => now < expireAt
    /\ \A r \in Reqs : status[r] = "sent" => now < stamp[r] + MaxDelay
    /\ now' = now + 1
    /\ UNCHANGED <<log, expireAt, status, stamp, gw, cap, told>>

Next ==
    \/ \E r \in Reqs : Send(r) \/ Run(r)
    \/ Expire
    \/ Tick

Spec == Init /\ [][Next]_vars

-----------------------------------------------------------------------------
Admitted == {r \in Reqs : status[r] = "admitted"}
Window(t) == {u \in Time : t - WindowMs < u /\ u <= t}

\* The milliseconds of the window ending at t in which a request got in.
AdmittedStamps(t) == {stamp[r] : r \in Admitted} \cap Window(t)

\* Whatever the script pruned and Redis expired, it decides as if it had the
\* whole history: a request is admitted exactly when the window ending at
\* its own timestamp has room for it.  Needs one gateway, and calls that take
\* no longer than the second by which the TTL exceeds the window.
DecidesByHistory ==
    [][\A r \in Reqs : status[r] = "sent" /\ status'[r] # "sent"
         => (status'[r] = "admitted"
               <=> Cardinality(AdmittedStamps(stamp[r])) + Cost <= cap[r])
      ]_vars

\* README: sliding-window log is "Precise - no boundary spikes".  No window,
\* wherever it ends, holds more admitted timestamps than the largest capacity.
StampsWithinLimit ==
    \A t \in Time : \E c \in Capacities : Cardinality(AdmittedStamps(t)) <= c

\* The same, counting requests.
RequestsWithinLimit ==
    \A t \in Time : \E c \in Capacities :
        Cardinality({r \in Admitted : stamp[r] \in Window(t)}) <= c

\* sliding_window_log.lua: "Retry after: when will a slot be available?"  A
\* client that waits as long as it was told is let in, if nobody else comes.
RetryAfterSuffices ==
    [][\A r \in Reqs : status[r] = "sent" /\ status'[r] = "rejected"
         => Fits(Pruned(log', told'[r]), cap[r])]_vars
=============================================================================
