---------------------------- MODULE RateLimiter ----------------------------
(***************************************************************************)
(* middleware/rate-limiter.ts over the Redis link: index.ts connects and   *)
(* loads the scripts, then requests go through the stacked rules of their  *)
(* route, each rule a call of its script in Redis, or the local fallback,  *)
(* or the catch clause.  What a script answers is any verdict here:        *)
(* SlidingWindowLog and TokenBucket model the scripts themselves.          *)
(*                                                                         *)
(* The chain of one request runs on without a pause where no reply is      *)
(* awaited (Checked); a command that was in flight when the link closed is *)
(* sent again when the client is back, or given up.                        *)
(***************************************************************************)
EXTENDS RedisLink

CONSTANTS Reqs, Rules    \* requests; number of stacked rules of the route

ASSUME RateLimiterAssumption == Rules \in Nat \ {0}

VARIABLES
    boot,      \* bootstrap() of index.ts
    shas,      \* SCRIPT_SHA is filled
    failOpen,  \* config.redisFailOpen
    phase,     \* each request: waiting for Redis, or how the limiter decided
    at,        \* the rule it is at
    cmd,       \* its EVALSHA: sent, or what Redis has answered
    runs       \* history: how often each rule's script ran for it

reqVars == <<phase, at, cmd, runs>>
vars == <<linkVars, boot, shas, failOpen, reqVars>>

Decided == {"passed", "429", "503"}

TypeOK ==
    /\ LinkTypeOK
    /\ boot \in {"connecting", "loading", "serving"}
    /\ shas \in BOOLEAN /\ failOpen \in BOOLEAN
    /\ phase \in [Reqs -> {"new", "calling"} \cup Decided]
    /\ at \in [Reqs -> 1..Rules + 1]
    /\ cmd \in [Reqs -> {"sent", "ok", "full", "noscript"}]
    /\ runs \in [Reqs -> [1..Rules -> 0..MaxLosses + 1]]

Init ==
    /\ LinkInit
    /\ boot = "connecting" /\ shas = FALSE
    /\ failOpen \in BOOLEAN
    /\ phase = [r \in Reqs |-> "new"]
    /\ at = [r \in Reqs |-> 1]
    /\ cmd = [r \in Reqs |-> "sent"]
    /\ runs = [r \in Reqs |-> [i \in 1..Rules |-> 0]]

-----------------------------------------------------------------------------
\* bootstrap(): redis.connect() is not retried; once connected, ping() and
\* the script loads go through or are given up with the link.
BootConnected ==
    /\ boot = "connecting" /\ link[Limiter] # "connecting"
    /\ boot' = IF Writable(Limiter) THEN "loading" ELSE "serving"
    /\ UNCHANGED <<linkVars, shas, failOpen, reqVars>>

BootLoads ==
    /\ boot = "loading" /\ link[Limiter] = "ready"
    /\ boot' = "serving"
    /\ scripts' = TRUE /\ shas' = TRUE
    /\ UNCHANGED <<redis, losses, link, tries, reading, flag, failOpen, reqVars>>

BootGivesUp ==
    /\ boot = "loading" /\ link[Limiter] \in {"backoff", "ended"}
    /\ boot' = "serving"
    /\ UNCHANGED <<linkVars, shas, failOpen, reqVars>>

-----------------------------------------------------------------------------
\* Faulty: a rule that cannot be checked lets the request through.
CheckedLeniently(i) ==
    IF i <= Rules /\ flag /\ shas /\ Writable(Limiter)
    THEN [phase |-> "calling", at |-> i]
    ELSE [phase |-> "passed", at |-> Rules + 1]

\* Faulty: the catch clause answers 503 whatever the configuration.
CheckedStrictly(i) ==
    IF i > Rules THEN [phase |-> "passed", at |-> i]
    ELSE IF flag /\ shas /\ Writable(Limiter) THEN [phase |-> "calling", at |-> i]
    ELSE IF failOpen /\ ~flag THEN [phase |-> "passed", at |-> Rules + 1]
    ELSE [phase |-> IF flag THEN "503" ELSE "429", at |-> i]

\* Where the chain gets from rule i on without waiting: a call is out, or it
\* is through.  A missing sha and a link that cannot be written to throw into
\* the catch clause; the fallback for an absent Redis refuses with 429.
Checked(i) ==
    IF i > Rules THEN [phase |-> "passed", at |-> i]
    ELSE IF flag /\ shas /\ Writable(Limiter) THEN [phase |-> "calling", at |-> i]
    ELSE IF failOpen THEN [phase |-> "passed", at |-> Rules + 1]
    ELSE [phase |-> IF flag THEN "503" ELSE "429", at |-> i]

\* Faulty: the chain calls the same rule again.
GoOnInPlace(r, next) ==
    /\ phase' = [phase EXCEPT ![r] = next.phase]
    /\ UNCHANGED <<linkVars, boot, shas, failOpen, runs, at>>

GoOn(r, next) ==
    /\ phase' = [phase EXCEPT ![r] = next.phase]
    /\ at' = [at EXCEPT ![r] = next.at]
    /\ UNCHANGED <<linkVars, boot, shas, failOpen, runs>>

Arrive(r) ==
    /\ boot = "serving" /\ phase[r] = "new"
    /\ GoOn(r, Checked(1))
    /\ UNCHANGED cmd

\* Redis runs the rule's script, unless it has lost it.
ScriptRuns(r) ==
    /\ phase[r] = "calling" /\ cmd[r] = "sent" /\ link[Limiter] = "ready"
    /\ IF scripts
       THEN /\ \E v \in {"ok", "full"} : cmd' = [cmd EXCEPT ![r] = v]
            /\ runs' = [runs EXCEPT ![r][at[r]] = @ + 1]
       ELSE /\ cmd' = [cmd EXCEPT ![r] = "noscript"]
            /\ UNCHANGED runs
    /\ UNCHANGED <<linkVars, boot, shas, failOpen, phase, at>>

\* The catch clause of rateLimiter.
Failed(i) == IF failOpen THEN Checked(i + 1) ELSE [phase |-> "503", at |-> i]

\* Faulty: an error of Redis leaves the promise pending.
ReplyUncaught(r) ==
    /\ phase[r] = "calling" /\ Writable(Limiter) /\ cmd[r] \in {"ok", "full"}
    /\ GoOn(r, IF cmd[r] = "ok" THEN Checked(at[r] + 1)
                                ELSE [phase |-> "429", at |-> at[r]])
    /\ cmd' = [cmd EXCEPT ![r] = IF phase'[r] = "calling" THEN "sent" ELSE @]

\* The reply.  evalsha() looks for the script of a NOSCRIPT error under its
\* sha and finds none: the cache is filled under the scripts' names.
Reply(r) ==
    /\ phase[r] = "calling" /\ Writable(Limiter) /\ cmd[r] # "sent"
    /\ GoOn(r, CASE cmd[r] = "ok" -> Checked(at[r] + 1)
                 [] cmd[r] = "full" -> [phase |-> "429", at |-> at[r]]
                 [] cmd[r] = "noscript" -> Failed(at[r]))
    /\ cmd' = [cmd EXCEPT ![r] = IF phase'[r] = "calling" THEN "sent" ELSE @]

\* maxRetriesPerRequest, or the end of the client: the command is rejected.
Rejected(r) ==
    /\ phase[r] = "calling" /\ link[Limiter] \in {"backoff", "ended"}
    /\ GoOn(r, Failed(at[r]))
    /\ UNCHANGED cmd

\* autoResendUnfulfilledCommands: also a command that Redis has run already.
Unanswered == [r \in Reqs |-> IF phase[r] = "calling" THEN "sent" ELSE cmd[r]]

LimiterCloses ==
    /\ ConnectFails(Limiter) \/ LinkCloses(Limiter)
    /\ cmd' = Unanswered
    /\ UNCHANGED <<boot, shas, failOpen, phase, at, runs>>

LinkStep ==
    /\ \/ \E c \in Clients : ConnectOk(c) \/ Reconnect(c) \/ LinkResets(c)
       \/ \E p \in Polls : \/ boot = "serving" /\ PollStarts(p)
                           \/ PollEnds(p) \/ ConnectFails(p) \/ LinkCloses(p)
       \/ RedisStops \/ RedisStarts
    /\ UNCHANGED <<boot, shas, failOpen, reqVars>>

Boot == BootConnected \/ BootLoads \/ BootGivesUp

Next ==
    \/ Boot
    \/ \E r \in Reqs : Arrive(r) \/ ScriptRuns(r) \/ Reply(r) \/ Rejected(r)
    \/ LimiterCloses
    \/ LinkStep

Spec == Init /\ [][Next]_vars

\* Timers fire, sockets report their end, Redis answers what it is sent; that
\* Redis stops or starts is its own affair.
Client(c) == ConnectOk(c) \/ ConnectFails(c) \/ LinkCloses(c) \/ Reconnect(c)
Rest == UNCHANGED <<boot, shas, failOpen, reqVars>>
Fairness ==
    /\ WF_vars(Boot) /\ WF_vars(LimiterCloses)
    /\ \A c \in Clients : WF_vars(Client(c) /\ Rest)
    /\ \A p \in Polls : /\ WF_vars(PollEnds(p) /\ Rest)
                        /\ WF_vars(boot = "serving" /\ PollStarts(p) /\ Rest)
    /\ \A r \in Reqs : WF_vars(ScriptRuns(r) \/ Reply(r) \/ Rejected(r))

FairSpec == Spec /\ Fairness

-----------------------------------------------------------------------------
\* With redisFailOpen false, a request that gets through has been counted by
\* every one of its rules, whatever happened to Redis, to the scripts and to
\* the flag on its way through the chain.
FailClosedChecks ==
    \A r \in Reqs : ~failOpen /\ phase[r] = "passed" =>
                        \A i \in 1..Rules : runs[r][i] > 0

\* With redisFailOpen true, nobody pays for a Redis that fails: a request is
\* refused only when the script of the rule it is at said so.
FailOpenAdmits ==
    \A r \in Reqs : failOpen => /\ phase[r] # "503"
                                /\ phase[r] = "429" => cmd[r] = "full"

\* A request costs a rule one call of its script, and one more for each time
\* that the connection was lost under it, since a command that ran unanswered
\* is sent again; rules behind the one that refuses it are not charged.
ChargeBound ==
    \A r \in Reqs, i \in 1..Rules :
        runs[r][i] <= IF i <= at[r] THEN 1 + losses ELSE 0

\* The flag says that Redis is away while the limiter's own client is ready
\* only because some poll's client has failed or has been closed.
FlagLostOnlyToPolls ==
    ~flag /\ link[Limiter] = "ready" =>
        \E p \in Polls : link[p] \in {"backoff", "connecting", "ended"}

\* Every request that reaches the limiter is decided: no state of the link,
\* of the scripts or of the flag leaves it waiting.
EveryRequestDecided == \A r \in Reqs : phase[r] = "calling" ~> phase[r] \in Decided

\* tests/chaos.test.ts, "recovers when Redis comes back online": "Rate
\* limiter should resume normal operation".  Once Redis stays up, the limiter
\* ends up consulting it.
LimiterRecovers ==
    <>[](redis = "up") => <>[](flag /\ shas /\ Writable(Limiter))
=============================================================================
