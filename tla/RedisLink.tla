----------------------------- MODULE RedisLink -----------------------------
(***************************************************************************)
(* services/redis.ts: the gateway's Redis clients and the one flag they    *)
(* all set, isRedisAvailable().  There is the client of the rate limiter,  *)
(* connected at boot, and one for each configuration poll of hot-reload.ts *)
(* which is created, connected, read and quit by hotReloadConfig().  The   *)
(* reconnection of a client is ioredis's, driven by retryStrategy.         *)
(***************************************************************************)
EXTENDS Integers

CONSTANTS Polls,          \* clients of configuration polls
          MaxReconnects,  \* retryStrategy gives up after so many: 5
          MaxLosses       \* bound: how often Redis stops or a link is reset

ASSUME RedisLinkAssumption ==
    /\ MaxReconnects \in Nat
    /\ MaxLosses \in Nat
    /\ "limiter" \notin Polls

VARIABLES
    redis,    \* the server
    scripts,  \* the server's script cache holds the limiter's scripts
    losses,   \* how often the server has stopped or reset a connection
    link,     \* status of each client
    tries,    \* its retryAttempts since it was last ready
    reading,  \* the polls whose hotReloadConfig() has not ended
    flag      \* _isAvailable

linkVars == <<redis, scripts, losses, link, tries, reading, flag>>

Limiter == "limiter"     \* the client of getRedisClient()
Clients == Polls \cup {Limiter}

Statuses == {"none", "connecting", "ready",
             "lost",     \* the connection is gone, the socket's close is to come
             "backoff",  \* waiting for the delay retryStrategy returned
             "ended"}    \* quit, or retryStrategy returned null

LinkTypeOK ==
    /\ redis \in {"up", "down"}
    /\ scripts \in BOOLEAN
    /\ losses \in 0..MaxLosses
    /\ link \in [Clients -> Statuses]
    /\ tries \in [Clients -> 0..MaxReconnects]
    /\ reading \in SUBSET Polls
    /\ flag \in BOOLEAN

LinkInit ==
    /\ redis \in {"up", "down"}
    /\ scripts = FALSE
    /\ losses = 0
    /\ link = [c \in Clients |-> IF c = Limiter THEN "connecting" ELSE "none"]
    /\ tries = [c \in Clients |-> 0]
    /\ reading = {}
    /\ flag = TRUE

Writable(c) == link[c] \in {"ready", "lost"}

-----------------------------------------------------------------------------
\* The 'connect' event.
ConnectOk(c) ==
    /\ link[c] = "connecting" /\ redis = "up"
    /\ link' = [link EXCEPT ![c] = "ready"]
    /\ tries' = [tries EXCEPT ![c] = 0]
    /\ flag' = TRUE
    /\ UNCHANGED <<redis, scripts, losses, reading>>

\* The 'close' event and retryStrategy(tries + 1).  A poll whose first
\* connection fails is over at once, one that is waiting for its reply goes
\* on unless ioredis gives its command up; the client of neither is closed,
\* since quit() on a link that is not ready is refused.
Close(c) ==
    /\ flag' = FALSE
    /\ IF tries[c] < MaxReconnects
       THEN /\ link' = [link EXCEPT ![c] = "backoff"]
            /\ tries' = [tries EXCEPT ![c] = @ + 1]
       ELSE /\ link' = [link EXCEPT ![c] = "ended"]
            /\ UNCHANGED tries
    /\ \/ /\ link[c] = "lost" \/ tries[c] > 0
          /\ tries[c] < MaxReconnects
          /\ UNCHANGED reading
       \/ reading' = reading \ {c}

\* ECONNREFUSED, then 'close'.
ConnectFails(c) ==
    /\ link[c] = "connecting" /\ redis = "down"
    /\ Close(c)
    /\ UNCHANGED <<redis, scripts, losses>>

LinkCloses(c) ==
    /\ link[c] = "lost"
    /\ Close(c)
    /\ UNCHANGED <<redis, scripts, losses>>

Reconnect(c) ==
    /\ link[c] = "backoff"
    /\ link' = [link EXCEPT ![c] = "connecting"]
    /\ UNCHANGED <<redis, scripts, losses, tries, reading, flag>>

\* The interval of startConfigPolling: a new client for every poll.
PollStarts(p) ==
    /\ link[p] \in {"none", "ended"}
    /\ link' = [link EXCEPT ![p] = "connecting"]
    /\ tries' = [tries EXCEPT ![p] = 0]
    /\ reading' = reading \cup {p}
    /\ UNCHANGED <<redis, scripts, losses, flag>>

\* The reply is applied and quit() closes the client: its 'close' event says
\* that Redis is gone.
PollEnds(p) ==
    /\ p \in reading /\ link[p] = "ready"
    /\ reading' = reading \ {p}
    /\ link' = [link EXCEPT ![p] = "ended"]
    /\ flag' = FALSE
    /\ UNCHANGED <<redis, scripts, losses, tries>>

\* A stop takes every connection with it, and the script cache.
RedisStops ==
    /\ redis = "up" /\ losses < MaxLosses
    /\ redis' = "down" /\ losses' = losses + 1
    /\ scripts' = FALSE
    /\ link' = [c \in Clients |-> IF link[c] = "ready" THEN "lost" ELSE link[c]]
    /\ UNCHANGED <<tries, reading, flag>>

\* The network resets the connection of client c; Redis and its scripts stay.
LinkResets(c) ==
    /\ link[c] = "ready" /\ losses < MaxLosses
    /\ link' = [link EXCEPT ![c] = "lost"]
    /\ losses' = losses + 1
    /\ UNCHANGED <<redis, scripts, tries, reading, flag>>

RedisStarts ==
    /\ redis = "down"
    /\ redis' = "up"
    /\ UNCHANGED <<scripts, losses, link, tries, reading, flag>>
=============================================================================
