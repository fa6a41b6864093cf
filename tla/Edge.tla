-------------------------------- MODULE Edge --------------------------------
(***************************************************************************)
(* The request as app.ts passes it on, before and around the proxy: the    *)
(* filters in their order, slowRequestProtection's timers, the wait for a  *)
(* JSON body, the upstream's response; and graceful-shutdown.ts with the   *)
(* process that all requests share.                                        *)
(*                                                                         *)
(* Time is counted in ticks, each request by its own age: a timer fires at *)
(* its time, before the next tick.  Besides the timers of                  *)
(* slowRequestProtection there is the one of the socket (server.timeout),  *)
(* which every byte read or written restarts.  The data listener of        *)
(* slowRequestProtection sets every body flowing, but only JSON and form   *)
(* bodies are waited for; other requests are proxied at once.  A client    *)
(* that goes, or is cut off, takes nothing with it that waits upstream.    *)
(***************************************************************************)
EXTENDS IpFilter

CONSTANTS Reqs,
          RuleLists,      \* the lists that may be configured
          Arrivals,       \* <<kind, address>>: the requests that may arrive
          HeaderTimeout,  \* 10 s: slowRequestProtection(10000, 30000)
          BodyTimeout,    \* 30 s
          SocketTimeout,  \* server.timeout, of index.ts: 30 s by default
          DrainTimeout    \* 30 s, of shutdown()

\* What the stack tells apart: too long by its content-length, a header the
\* sanitizer refuses, OPTIONS, the gateway's own endpoints, no route; and for
\* requests with a route, no body, a JSON body or another one.
Kinds == {"big", "malformed", "preflight", "own", "unrouted", "bodiless", "json", "raw"}

ASSUME EdgeAssumption ==
    /\ \A list \in RuleLists : \A rule \in list : IsRule(rule)
    /\ Arrivals \subseteq Kinds \X Addresses
    /\ HeaderTimeout \in Nat \ {0} /\ BodyTimeout \in Nat \ {0}
    /\ SocketTimeout \in Nat \ {0} /\ DrainTimeout \in Nat \ {0}

VARIABLES
    deny, allow,   \* config.ipDenylist, config.ipAllowlist
    stage,    \* each request
    kind,     \* what it is, see Kinds
    ip,       \* where it comes from
    body,     \* its body: open or complete
    answer,   \* what its client was answered, "none" until headers are sent
    client,   \* there, gone of itself, or cut off: its socket was destroyed
    armed,    \* its timers have not been cleared
    age,      \* since its arrival
    quiet,    \* since its last chunk; -1 before the first
    idle,     \* since the last byte on its socket
    process,  \* shutdown()
    drained,  \* since the signal
    dying     \* an exception was not caught: process.exit(1) in a second

vars == <<deny, allow, stage, kind, ip, body, answer, client, armed, age, quiet, idle,
          process, drained, dying>>

Stages == {"new",
           "parsing",    \* express.json waits for the body
           "upstream",   \* in proxyRequest, no response yet
           "streaming",  \* the response is being piped
           "over"}

Exits == {"exit0", "exit1"}

TypeOK ==
    /\ deny \in RuleLists /\ allow \in RuleLists
    /\ stage \in [Reqs -> Stages]
    /\ kind \in [Reqs -> Kinds] /\ ip \in [Reqs -> Addresses]
    /\ body \in [Reqs -> {"open", "complete"}]
    /\ answer \in [Reqs -> {"none", "413", "403", "400", "204", "own", "404",
                            "408", "500", "upstream", "502"}]
    /\ client \in [Reqs -> {"there", "gone", "cut"}]
    /\ armed \in [Reqs -> BOOLEAN]
    /\ age \in [Reqs -> 0..HeaderTimeout] /\ quiet \in [Reqs -> -1..BodyTimeout]
    /\ idle \in [Reqs -> 0..SocketTimeout]
    /\ process \in {"up", "draining", "closed", "stuck"} \cup Exits
    /\ drained \in 0..DrainTimeout /\ dying \in BOOLEAN

Init ==
    /\ deny \in RuleLists /\ allow \in RuleLists
    /\ stage = [r \in Reqs |-> "new"]
    /\ kind = [r \in Reqs |-> "bodiless"] /\ ip = [r \in Reqs |-> 0]
    /\ body = [r \in Reqs |-> "open"]
    /\ answer = [r \in Reqs |-> "none"]
    /\ client = [r \in Reqs |-> "there"]
    /\ armed = [r \in Reqs |-> FALSE]
    /\ age = [r \in Reqs |-> 0] /\ quiet = [r \in Reqs |-> -1]
    /\ idle = [r \in Reqs |-> 0]
    /\ process = "up" /\ drained = 0 /\ dying = FALSE

Alive == process \notin Exits
InFlight(r) == stage[r] \in {"parsing", "upstream", "streaming"}
Connected(r) == InFlight(r) /\ client[r] = "there"

configVars == <<deny, allow>>
arrivalVars == <<kind, ip>>
clocks == <<age, quiet, idle>>
exchangeVars == <<stage, arrivalVars, body, answer, client, armed, clocks>>
processVars == <<process, drained, dying>>

-----------------------------------------------------------------------------
OverSize(k) == k = "big"             \* requestSizeLimiter
Malformed(k) == k = "malformed"      \* inputSanitizer
IsPreflight(k) == k = "preflight"    \* corsHandler
HasEndpoint(k) == k = "own"          \* /health, /ready, /metrics
HasRoute(k) == k \in {"bodiless", "json", "raw"}

\* The answer of the middleware stack of createApp, in its order.
Verdict(k, a) ==
    CASE OverSize(k) -> "413"
      [] ~OverSize(k) /\ ~Admitted(a, deny, allow) -> "403"
      [] OTHER -> CASE Malformed(k) -> "400"
                    [] IsPreflight(k) -> "204"
                    [] HasEndpoint(k) -> "own"
                    [] HasRoute(k) -> "none"
                    [] OTHER -> "404"

\* A request arrives, on a new connection or, during the drain, on one that
\* was open.  The finish of an answer clears the timers again.
Arrive(r, k, a) ==
    /\ process \in {"up", "draining"} /\ stage[r] = "new"
    /\ kind' = [kind EXCEPT ![r] = k] /\ ip' = [ip EXCEPT ![r] = a]
    /\ answer' = [answer EXCEPT ![r] = Verdict(k, a)]
    /\ stage' = [stage EXCEPT ![r] = IF Verdict(k, a) # "none" THEN "over"
                                     ELSE IF k = "json" THEN "parsing" ELSE "upstream"]
    /\ body' = [body EXCEPT ![r] = IF k \in {"json", "raw"} THEN "open" ELSE "complete"]
    /\ armed' = [armed EXCEPT ![r] = Verdict(k, a) = "none" /\ k # "bodiless"]
    /\ UNCHANGED <<configVars, client, clocks, processVars>>

\* A byte on r's socket, if there still is one.
Active(r) == idle' = [idle EXCEPT ![r] = IF client[r] = "there" THEN 0 ELSE @]

Chunk(r) ==
    /\ Alive /\ Connected(r) /\ body[r] = "open"
    /\ quiet' = [quiet EXCEPT ![r] = 0] /\ Active(r)
    /\ UNCHANGED <<configVars, stage, arrivalVars, body, answer, client, armed, age,
                   processVars>>

\* Faulty: only the end of the response clears the timers.
BodyEndsUnheard(r) ==
    /\ Alive /\ Connected(r) /\ body[r] = "open"
    /\ body' = [body EXCEPT ![r] = "complete"] /\ Active(r)
    /\ stage' = [stage EXCEPT ![r] = IF @ = "parsing" THEN "upstream" ELSE @]
    /\ UNCHANGED <<configVars, arrivalVars, answer, client, armed, age, quiet, processVars>>

\* The 'end' of the request clears its timers; a parsed body goes on to the
\* proxy.
BodyEnds(r) ==
    /\ Alive /\ Connected(r) /\ body[r] = "open"
    /\ body' = [body EXCEPT ![r] = "complete"] /\ Active(r)
    /\ armed' = [armed EXCEPT ![r] = FALSE]
    /\ stage' = [stage EXCEPT ![r] = IF @ = "parsing" THEN "upstream" ELSE @]
    /\ UNCHANGED <<configVars, arrivalVars, answer, client, age, quiet, processVars>>

\* What ends r with nothing of it left in the process.
EndsWith(r, a) ==
    /\ stage' = [stage EXCEPT ![r] = "over"]
    /\ answer' = [answer EXCEPT ![r] = IF @ = "none" THEN a ELSE @]
    /\ armed' = [armed EXCEPT ![r] = FALSE]

\* express.json refuses the body: an unknown charset before it is read, bad
\* syntax or too many bytes when it has been.  The error handler of createApp
\* makes a 500 of every error.
ParserRefuses(r) ==
    /\ Alive /\ Connected(r) /\ stage[r] = "parsing"
    /\ EndsWith(r, "500") /\ Active(r)
    /\ \E b \in {"open", "complete"} : body' = [body EXCEPT ![r] = b]
    /\ UNCHANGED <<configVars, arrivalVars, client, age, quiet, processVars>>

\* The response callback of proxyRequest: writeHead throws when the timer has
\* answered already.  To a client that has gone it writes in vain.
Responds(r) ==
    /\ Alive /\ stage[r] = "upstream"
    /\ IF answer[r] = "none"
       THEN /\ stage' = [stage EXCEPT ![r] = "streaming"]
            /\ answer' = [answer EXCEPT ![r] = "upstream"]
            /\ Active(r)
            /\ UNCHANGED dying
       ELSE /\ stage' = [stage EXCEPT ![r] = "over"]
            /\ dying' = TRUE
            /\ UNCHANGED <<answer, idle>>
    /\ UNCHANGED <<configVars, arrivalVars, body, client, armed, age, quiet, process,
                   drained>>

\* More of the response is written to the client.
Streams(r) ==
    /\ Alive /\ Connected(r) /\ stage[r] = "streaming"
    /\ Active(r)
    /\ UNCHANGED <<configVars, stage, arrivalVars, body, answer, client, armed, age, quiet,
                   processVars>>

\* The last error of proxyRequest: 502 unless headers are sent.
Fails(r) ==
    /\ Alive /\ stage[r] = "upstream"
    /\ EndsWith(r, "502")
    /\ UNCHANGED <<configVars, arrivalVars, body, client, clocks, processVars>>

Finishes(r) ==
    /\ Alive /\ stage[r] = "streaming"
    /\ EndsWith(r, "none")
    /\ UNCHANGED <<configVars, arrivalVars, body, client, clocks, processVars>>

\* The socket of r goes, and 'close' clears its timers.  The body parser and
\* the pipe of a response end with it; who waits for the upstream goes on.
Disconnected(r, how) ==
    /\ client' = [client EXCEPT ![r] = how]
    /\ armed' = [armed EXCEPT ![r] = FALSE]
    /\ stage' = [stage EXCEPT ![r] = IF @ = "upstream" THEN @ ELSE "over"]
    /\ UNCHANGED <<configVars, arrivalVars, body, clocks, processVars>>

\* A timer of r is due: the header timer is never cleared by a chunk, the
\* body timer starts with one.
Due(r) == armed[r] /\ (age[r] >= HeaderTimeout \/ quiet[r] >= BodyTimeout)

\* 408 unless headers are sent, and the request's connection is destroyed.
TimerFires(r) ==
    /\ Alive /\ Due(r)
    /\ answer' = [answer EXCEPT ![r] = IF @ = "none" THEN "408" ELSE @]
    /\ Disconnected(r, "cut")

\* server.timeout: nobody listens to 'timeout', so Node destroys the socket,
\* whatever it waits for.
Idle(r) == Connected(r) /\ idle[r] >= SocketTimeout

SocketTimesOut(r) ==
    /\ Alive /\ Idle(r)
    /\ Disconnected(r, "cut")
    /\ UNCHANGED answer

Leaves(r) ==
    /\ Alive /\ Connected(r)
    /\ Disconnected(r, "gone")
    /\ UNCHANGED answer

-----------------------------------------------------------------------------
Sigterm ==
    /\ process = "up"
    /\ process' = "draining"
    /\ UNCHANGED <<configVars, exchangeVars, drained, dying>>

\* The callback of server.close: the last connection has gone.  Polling and
\* health checks are stopped.
ServerCloses ==
    /\ process = "draining" /\ \A r \in Reqs : ~Connected(r)
    /\ process' = "closed"
    /\ UNCHANGED <<configVars, exchangeVars, drained, dying>>

\* closeRedis() and process.exit(0); when Redis is away quit() is rejected
\* and the callback ends there.
QuitsRedis ==
    /\ process = "closed"
    /\ process' \in {"exit0", "stuck"}
    /\ UNCHANGED <<configVars, exchangeVars, drained, dying>>

\* Faulty: the drain timer is for the drain only.
DrainTimerFiresIfDraining ==
    /\ process = "draining" /\ drained >= DrainTimeout
    /\ process' = "exit1"
    /\ UNCHANGED <<configVars, exchangeVars, drained, dying>>

DrainTimerFires ==
    /\ process \in {"draining", "closed", "stuck"} /\ drained >= DrainTimeout
    /\ process' = "exit1"
    /\ UNCHANGED <<configVars, exchangeVars, drained, dying>>

DiesOfException ==
    /\ Alive /\ dying
    /\ process' = "exit1"
    /\ UNCHANGED <<configVars, exchangeVars, drained, dying>>

CapAt(n, max) == IF n < max THEN n + 1 ELSE max

\* The clocks of whoever is connected; idle counts until it is due.
Tick ==
    /\ Alive /\ \A r \in Reqs : ~Due(r) /\ ~Idle(r)
    /\ process = "up" \/ drained < DrainTimeout
    /\ age' = [r \in Reqs |-> IF Connected(r) THEN CapAt(age[r], HeaderTimeout) ELSE age[r]]
    /\ quiet' = [r \in Reqs |-> IF Connected(r) /\ quiet[r] >= 0
                                THEN CapAt(quiet[r], BodyTimeout) ELSE quiet[r]]
    /\ idle' = [r \in Reqs |-> IF Connected(r) THEN CapAt(idle[r], SocketTimeout) ELSE idle[r]]
    /\ drained' = IF process = "up" THEN 0 ELSE drained + 1
    /\ UNCHANGED <<configVars, stage, arrivalVars, body, answer, client, armed, process, dying>>

Exchange(r) ==
    \/ \E a \in Arrivals : Arrive(r, a[1], a[2])
    \/ Chunk(r) \/ BodyEnds(r) \/ ParserRefuses(r)
    \/ Responds(r) \/ Streams(r) \/ Fails(r) \/ Finishes(r)
    \/ TimerFires(r) \/ SocketTimesOut(r) \/ Leaves(r)

Shutdown == Sigterm \/ ServerCloses \/ QuitsRedis \/ DrainTimerFires \/ DiesOfException

Next == (\E r \in Reqs : Exchange(r)) \/ Shutdown \/ Tick

Spec == Init /\ [][Next]_vars

\* Timers fire and callbacks run; nothing is assumed of clients or upstreams.
FairSpec ==
    /\ Spec
    /\ \A r \in Reqs : WF_vars(TimerFires(r)) /\ WF_vars(SocketTimesOut(r))
    /\ WF_vars(ServerCloses \/ QuitsRedis) /\ WF_vars(DrainTimerFires)
    /\ WF_vars(DiesOfException) /\ WF_vars(Tick)

-----------------------------------------------------------------------------
\* Whoever gets past the filter is covered by no rule of the denylist, and by
\* one of the allowlist if there is one: the signed words of ipMatchesRule
\* find a quad in a range exactly by its first bits.  An address that is no
\* quad, a mapped IPv4 address among them, is in no range, denied or allowed.
AdmittedByRange ==
    \A r \in Reqs : InFlight(r) =>
        /\ ~\E rule \in deny : Covers(ip[r], rule)
        /\ allow # {} => \E rule \in allow : Covers(ip[r], rule)

\* A request whose body has arrived is out of slowRequestProtection's reach:
\* it is not answered with 408, and it is cut off for one reason only, that
\* nothing was read or written for SocketTimeout while it waited.
CompleteIsCutOnlyIdle ==
    \A r \in Reqs : body[r] = "complete" =>
        /\ answer[r] # "408"
        /\ client[r] = "cut" => idle[r] >= SocketTimeout

\* Here the process falls only to an upload that is neither JSON nor a form,
\* is slower than the header timeout, and whose upstream answers all the same.
FallsOnlyToSlowUpload ==
    dying => \E r \in Reqs : kind[r] = "raw" /\ answer[r] = "408" /\ stage[r] = "over"

\* The process that exits with 0 has cut nobody off.
ExitZeroMeansDrained == process = "exit0" => \A r \in Reqs : ~Connected(r)

\* README, "Graceful Shutdown": "Stop accepting, drain in-flight, then exit".
\* A signal ends the process, whatever clients, upstreams and Redis do.
ShutdownEnds == process = "draining" ~> process \in Exits

\* README, "Slow-Loris": "Separate header timeout (10s) and body streaming
\* timeout (30s)".  The headers have been received when the timers start, so
\* only a body that pauses for the body timeout is cut off.
CutByBodyTimeout ==
    \A r \in Reqs : answer[r] = "408" => quiet[r] >= BodyTimeout
=============================================================================
