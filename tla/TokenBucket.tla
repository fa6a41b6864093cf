---------------------------- MODULE TokenBucket ----------------------------
(***************************************************************************)
(* One rate-limit key of lua/token_bucket.lua, used by the gateways        *)
(* through checkRateLimitRedis of middleware/rate-limiter.ts.              *)
(*                                                                         *)
(* As in SlidingWindowLog the script is atomic and works with the clock    *)
(* its gateway read before the call, here in whole seconds.  Tokens are    *)
(* counted in the unit in which the rate per second is whole, so the       *)
(* script's fractions are integers here; rounding of doubles is left out.  *)
(***************************************************************************)
EXTENDS Integers, FiniteSets

CONSTANTS Reqs, Gateways,
          Capacity,      \* rule.capacity
          Rate,          \* rule.refillRate, per second
          Cost,          \* rule.cost
          RateFloor,     \* the 0.001 of the TTL
          MinTtl,        \* the 60 seconds of the TTL
          MaxDelay,      \* longest time from capturing the clock to the script
          MaxTime        \* bound of the clock (model only)

ASSUME BucketAssumption ==
    /\ IsFiniteSet(Reqs)
    /\ Capacity \in Nat \ {0}
    /\ Rate \in Nat
    /\ Cost \in Nat \ {0}
    /\ RateFloor \in Nat \ {0}
    /\ MinTtl \in Nat \ {0}
    /\ MaxDelay \in Nat
    /\ MaxTime \in Nat \ {0}

Time == 1..MaxTime
Never == 0

VARIABLES
    now,       \* the clock all machines share, in seconds
    tokens,    \* the key's field tokens
    last,      \* its field lastRefillTime, Never when there is no key
    expireAt,  \* when Redis drops the key, Never when there is none
    status,    \* where each request is
    stamp,     \* the second its gateway captured for it
    gw,        \* the gateway it came through
    told       \* history: the second a rejected client was told to retry at

vars == <<now, tokens, last, expireAt, status, stamp, gw, told>>

TypeOK ==
    /\ now \in Time
    /\ tokens \in 0..Capacity
    /\ last \in Time \cup {Never}
    /\ expireAt \in Nat
    /\ status \in [Reqs -> {"new", "sent", "admitted", "rejected"}]
    /\ stamp \in [Reqs -> Time \cup {Never}]
    /\ gw \in [Reqs -> Gateways]
    /\ told \in [Reqs -> Nat]

Init ==
    /\ now = 1
    /\ tokens = 0
    /\ last = Never
    /\ expireAt = Never
    /\ status = [r \in Reqs |-> "new"]
    /\ stamp = [r \in Reqs |-> Never]
    /\ gw \in [Reqs -> Gateways]
    /\ told = [r \in Reqs |-> Never]

-----------------------------------------------------------------------------
Least(a, b) == IF a < b THEN a ELSE b
Greatest(a, b) == IF a < b THEN b ELSE a
Ceil(n, d) == (n + d - 1) \div d

\* What the script finds in the bucket at time t: a missing key is a full
\* bucket, and a clock behind lastRefillTime adds nothing.
Level(t) ==
    IF last = Never THEN Capacity
    ELSE Least(Capacity, tokens + Rate * Greatest(0, t - last))

\* Faulty: the last tokens are never given out.
HoldsMoreThanCost(level) == level > Cost

Holds(level) == level >= Cost

\* Faulty: not scaled with the time the bucket takes to fill.
TtlOfAMinute == MinTtl

\* Five times the time an empty bucket takes to fill.
Ttl == Greatest(MinTtl, Ceil(5 * Capacity, Greatest(Rate, RateFloor)))

\* Faulty: waits for one unit whatever the cost.
RetryAfterForOne(level) ==
    Ceil(1000 * Greatest(0, 1 - level), Rate) \div 1000

\* Rounded up to milliseconds by the script, then cut to whole seconds by
\* Redis, which returns a Lua number as an integer.
RetryAfter(level) == Ceil(1000 * (Cost - level), Rate) \div 1000

\* The gateway reads its clock and sends the script call.
Send(r) ==
    /\ status[r] = "new"
    /\ status' = [status EXCEPT ![r] = "sent"]
    /\ stamp' = [stamp EXCEPT ![r] = now]
    /\ UNCHANGED <<now, tokens, last, expireAt, gw, told>>

\* The calls of a connection run in the order they were sent.
HeadOfLine(r) ==
    /\ status[r] = "sent"
    /\ \A q \in Reqs : status[q] = "sent" /\ gw[q] = gw[r]
                         => stamp[r] <= stamp[q]

\* The script: refill, set the refill time to the caller's clock even when
\* that is older, take the cost if it is there, store with a fresh TTL.
Admit(r) ==
    /\ HeadOfLine(r)
    /\ Holds(Level(stamp[r]))
    /\ tokens' = Level(stamp[r]) - Cost
    /\ last' = stamp[r]
    /\ expireAt' = now + Ttl
    /\ status' = [status EXCEPT ![r] = "admitted"]
    /\ UNCHANGED <<now, stamp, gw, told>>

\* Without refill the wait is -1, "never".
Reject(r) ==
    /\ HeadOfLine(r)
    /\ ~Holds(Level(stamp[r]))
    /\ tokens' = Level(stamp[r])
    /\ last' = stamp[r]
    /\ expireAt' = now + Ttl
    /\ status' = [status EXCEPT ![r] = "rejected"]
    /\ told' = [told EXCEPT ![r] =
                  IF Rate = 0 THEN Never
                  ELSE stamp[r] + RetryAfter(Level(stamp[r]))]
    /\ UNCHANGED <<now, stamp, gw>>

\* Redis drops the key some time within the second its TTL ends in.
Expire ==
    /\ expireAt # Never
    /\ now >= expireAt
    /\ tokens' = 0
    /\ last' = Never
    /\ expireAt' = Never
    /\ UNCHANGED <<now, status, stamp, gw, told>>

\* Time passes; no call takes longer than MaxDelay to reach its turn, and no
\* key outlives its TTL.
Tick ==
    /\ now < MaxTime
    /\ expireAt # Never => now < expireAt
    /\ \A r \in Reqs : status[r] = "sent" => now < stamp[r] + MaxDelay
    /\ now' = now + 1
    /\ UNCHANGED <<tokens, last, expireAt, status, stamp, gw, told>>

Next ==
    \/ \E r \in Reqs : Send(r) \/ Admit(r) \/ Reject(r)
    \/ Expire
    \/ Tick

Spec == Init /\ [][Next]_vars

-----------------------------------------------------------------------------
Admitted == {r \in Reqs : status[r] = "admitted"}
AdmittedIn(i, j) == {r \in Admitted : i <= stamp[r] /\ stamp[r] <= j}

\* README: "Bucket with capacity C, refilling at R tokens/second."  Between
\* any two seconds the bucket gives out at most a full bucket and what flows
\* in between them.
IntervalBound ==
    \A i, j \in Time :
        i <= j => Cost * Cardinality(AdmittedIn(i, j)) <= Capacity + Rate * (j - i)

\* The bound is the only reason to refuse: a request is admitted exactly when
\* no interval that ends with it is overdrawn by it, whatever the cap has
\* spilled and Redis has expired.  Needs one gateway.
DecidesByHistory ==
    [][\A r \in Reqs : status[r] = "sent" /\ status'[r] # "sent"
         => (status'[r] = "admitted"
               <=> \A i \in 1..stamp[r] :
                     Cost * (Cardinality(AdmittedIn(i, stamp[r])) + 1)
                         <= Capacity + Rate * (stamp[r] - i))
      ]_vars

\* README, "Retry-After": "Seconds to wait before retrying".  A client that
\* waits as long as it was told is let in, if nobody else comes.
RetryAfterSuffices ==
    [][\A r \in Reqs : status[r] = "sent" /\ status'[r] = "rejected"
         => Holds(Level(told[r]))']_vars

\* Retry-After is short by less than a second: a client that adds one second
\* to it is let in, if nobody else comes.
RetryAfterWithinASecond ==
    [][\A r \in Reqs : status[r] = "sent" /\ status'[r] = "rejected"
         => Holds(Level(told[r] + 1))']_vars
=============================================================================
