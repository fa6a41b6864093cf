---------------------------- MODULE ConfigReload ----------------------------
(***************************************************************************)
(* config/index.ts, config/hot-reload.ts and routing/router.ts: documents  *)
(* pushed to Redis, the polls that read and apply them, the route table    *)
(* that is rebuilt in place, and requests that are matched, limited and    *)
(* proxied meanwhile.  One gateway; each replica is a process like it.     *)
(*                                                                         *)
(* A document holds some fields of the configuration.  The value of a      *)
(* field is the number of the document it came from, 0 for the environment *)
(* the process started with.  Polls are not serialised: the interval fires *)
(* whether or not the previous poll has ended.                             *)
(***************************************************************************)
EXTENDS Integers, Sequences

CONSTANTS Fields,     \* top-level fields; "routes" is one of them
          Documents,  \* what may be pushed
          Routes,     \* number of routes of every document
          Polls, Reqs,
          MaxPushes   \* bound

ASSUME ReloadAssumption ==
    /\ "routes" \in Fields
    /\ Routes \in Nat \ {0} /\ MaxPushes \in Nat
    /\ \A d \in Documents :
          /\ d.fields \subseteq Fields
          /\ d.valid \in BOOLEAN       \* the schema accepts it
          /\ d.good \in 0..Routes      \* its routes before one router.all refuses

VARIABLES
    pushed,   \* the documents pushed so far; Redis holds the last one
    poll,     \* each poll: idle, asked, or the number of the document it read
    config,   \* currentConfig
    table,    \* router.stack: the document of its routes, how many there are
    breakers, \* for each route path, whose circuitBreaker options were taken
    req,      \* each request
    overtaken \* history: polls in flight when another one was applied

vars == <<pushed, poll, config, table, breakers, req, overtaken>>

Idle == -1
Asked == -2
None == -1
Versions == 0..MaxPushes

\* A request for route n that has not been proxied.
Waiting(stage, n, v) ==
    [stage |-> stage, route |-> n, rules |-> v, target |-> None, options |-> None]
New == Waiting("new", 1, None)
Requests == [stage : {"new", "limiting", "proxied", "404"}, route : 1..Routes,
             rules : Versions \cup {None}, target : Versions \cup {None},
             options : Versions \cup {None}]

TypeOK ==
    /\ pushed \in Seq(Documents) /\ Len(pushed) <= MaxPushes
    /\ poll \in [Polls -> {Idle, Asked} \cup Versions]
    /\ config \in [Fields -> Versions]
    /\ table \in [version : Versions, routes : 0..Routes]
    /\ breakers \in [1..Routes -> Versions \cup {None}]
    /\ req \in [Reqs -> Requests]
    /\ overtaken \in SUBSET Polls

\* buildRouter at boot: loadConfigFromEnv knows no routes and no upstreams,
\* and upstreams are looked at this once.
BootTable == [version |-> 0, routes |-> 0]

Init ==
    /\ pushed = <<>>
    /\ poll = [p \in Polls |-> Idle]
    /\ config = [f \in Fields |-> 0]
    /\ table = BootTable
    /\ breakers = [n \in 1..Routes |-> None]
    /\ req = [r \in Reqs |-> New]
    /\ overtaken = {}

-----------------------------------------------------------------------------
\* pushConfigToRedis, or whoever else writes the key.
Push(d) ==
    /\ Len(pushed) < MaxPushes
    /\ pushed' = Append(pushed, d)
    /\ UNCHANGED <<poll, config, table, breakers, req, overtaken>>

PollStarts(p) ==
    /\ poll[p] = Idle
    /\ poll' = [poll EXCEPT ![p] = Asked]
    /\ UNCHANGED <<pushed, config, table, breakers, req, overtaken>>

\* Redis answers GET; the reply is on its way.
PollReads(p) ==
    /\ poll[p] = Asked
    /\ poll' = [poll EXCEPT ![p] = Len(pushed)]
    /\ UNCHANGED <<pushed, config, table, breakers, req, overtaken>>

\* GatewayConfigSchema.partial() accepts what the poll has read.
Accepted(v) == v > 0 /\ pushed[v].valid

\* Faulty: a document replaces the configuration.
MergedWholly(v) == [f \in Fields |-> IF f \in pushed[v].fields THEN v ELSE 0]

\* updateConfig: the document's fields over the current ones.
Merged(v) == [f \in Fields |-> IF f \in pushed[v].fields THEN v ELSE config[f]]

\* The reload subscriber of buildRouter: the stack is emptied and filled route
\* by route, up to one whose path router.all refuses.
Rebuilt(v) == [version |-> v, routes |-> IF v = 0 THEN 0 ELSE pushed[v].good]

\* Faulty: a poll that meets a document it cannot apply ends the polling.
PollAppliesOrStops(p) ==
    /\ poll[p] \in Versions
    /\ LET v == poll[p]
       IN IF Accepted(v)
          THEN config' = Merged(v) /\ table' = Rebuilt(Merged(v)["routes"])
               /\ poll' = [poll EXCEPT ![p] = Idle]
          ELSE UNCHANGED <<config, table, poll>>
    /\ overtaken' = {q \in Polls \ {p} : q \in overtaken \/ poll[q] # Idle}
    /\ UNCHANGED <<pushed, breakers, req>>

\* The reply is parsed, validated and applied in one go; nothing compares it
\* with what is in force, and an exception is swallowed wherever it happens.
PollApplies(p) ==
    /\ poll[p] \in Versions
    /\ LET v == poll[p]
       IN IF Accepted(v)
          THEN config' = Merged(v) /\ table' = Rebuilt(Merged(v)["routes"])
          ELSE UNCHANGED <<config, table>>
    /\ poll' = [poll EXCEPT ![p] = Idle]
    /\ overtaken' = {q \in Polls \ {p} : q \in overtaken \/ poll[q] # Idle}
    /\ UNCHANGED <<pushed, breakers, req>>

\* The connection fails; the error is swallowed too.
PollFails(p) ==
    /\ poll[p] = Asked
    /\ poll' = [poll EXCEPT ![p] = Idle]
    /\ overtaken' = overtaken \ {p}
    /\ UNCHANGED <<pushed, config, table, breakers, req>>

-----------------------------------------------------------------------------
\* A request for route n reaches the router, which looks it up in the stack
\* as it is now; the rate-limit rules it then waits on are of that route.
Match(r, n) ==
    /\ req[r].stage = "new"
    /\ req' = [req EXCEPT ![r] = IF n <= table.routes
                                 THEN Waiting("limiting", n, table.version)
                                 ELSE Waiting("404", n, None)]
    /\ UNCHANGED <<pushed, poll, config, table, breakers, overtaken>>

\* Faulty: the breakers of all routes have one name.
BreakerOfAnyPath(n, v) == IF breakers[1] = None THEN v ELSE breakers[1]

\* getOrCreate: the options of an existing breaker stay.
Breaker(n, v) == IF breakers[n] = None THEN v ELSE breakers[n]

\* The limiter lets it through to the handler registered with its rules:
\* proxyRequest with the route object of that registration.
Proxy(r) ==
    /\ req[r].stage = "limiting"
    /\ LET n == req[r].route  v == req[r].rules
       IN /\ breakers' = [breakers EXCEPT ![n] = Breaker(n, v)]
          /\ req' = [req EXCEPT ![r].stage = "proxied", ![r].target = v,
                                ![r].options = Breaker(n, v)]
    /\ UNCHANGED <<pushed, poll, config, table, overtaken>>

Next ==
    \/ \E d \in Documents : Push(d)
    \/ \E p \in Polls : PollStarts(p) \/ PollReads(p) \/ PollApplies(p) \/ PollFails(p)
    \/ \E r \in Reqs : Proxy(r) \/ \E n \in 1..Routes : Match(r, n)

Spec == Init /\ [][Next]_vars

\* The interval fires for ever, replies are applied, and a Redis that is
\* asked again and again answers at some time.
FairSpec ==
    /\ Spec
    /\ \A p \in Polls : /\ WF_vars(PollStarts(p)) /\ WF_vars(PollApplies(p))
                        /\ SF_vars(PollReads(p))

-----------------------------------------------------------------------------
\* The table and the configuration change together: the routes registered are
\* the ones of the configuration in force, all of them when their document
\* has no route that cannot be registered.
TableFollowsConfig ==
    /\ table.version = config["routes"]
    /\ config["routes"] > 0 => table.routes = pushed[config["routes"]].good

\* A request runs under other breaker options than its route's only when an
\* earlier request of the path was proxied with those options.
OptionsOfAnEarlierRequest ==
    \A r \in Reqs : req[r].options # req[r].target =>
        \E q \in Reqs \ {r} : /\ req[q].stage = "proxied"
                              /\ req[q].route = req[r].route
                              /\ req[q].target = req[r].options

\* An older configuration replaces a newer one only when another poll has
\* overtaken the one that read it: polls one after the other never go back.
BackOnlyByOverlap ==
    [][\A f \in Fields : config'[f] < config[f] =>
           \E p \in overtaken : poll[p] = config'[f] /\ poll'[p] = Idle]_vars

\* When pushing ends, every field of the last valid document takes effect and
\* stays, whatever older documents were still on their way.
NewestTakesEffect ==
    <>[](\A f \in Fields :
             LET last == Len(pushed)
             IN last > 0 /\ pushed[last].valid /\ f \in pushed[last].fields
                    => config[f] = last)
=============================================================================
