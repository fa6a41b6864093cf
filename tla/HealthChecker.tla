--------------------------- MODULE HealthChecker ---------------------------
(***************************************************************************)
(* services/health-checker.ts over the registry: the polls that 'instance: *)
(* registered' starts and 'instance:deregistered' stops, their results,    *)
(* and the passive failures the proxy reports.  Timers and counters are    *)
(* kept by id, whatever the service; a check takes the first instance with *)
(* its id, and asks the url its timer was started with.                    *)
(*                                                                         *)
(* A check is over within 6 s (two idle timeouts of 3 s) and the interval  *)
(* is 10 s, so an id has one check at a time.  Nobody reads the body of a  *)
(* check's response: unless the server closes the connection, the request  *)
(* times out after it was answered.                                        *)
(***************************************************************************)
EXTENDS ServiceRegistry

CONSTANTS Offers,              \* <<service, id, url, weight>> that may be registered
          Closing,             \* urls whose server closes the connection
          HealthyThreshold, UnhealthyThreshold,
          MaxCalls, MaxTurns   \* bounds: calls of /register; server changes

Off == "off"    \* no timer, no check

ASSUME CheckerAssumption ==
    /\ Off \notin Urls
    /\ Offers \subseteq Services \X Ids \X Urls \X Weights
    /\ Closing \subseteq Urls
    /\ HealthyThreshold \in Nat \ {0} /\ UnhealthyThreshold \in Nat \ {0}
    /\ MaxCalls \in Nat /\ MaxTurns \in Nat

VARIABLES
    timer,    \* timers: the url each polled id is polled at
    fails, oks,  \* consecutiveFailures and consecutiveSuccesses, saturating
    check,    \* the check of each id
    server,   \* what runs behind each url
    shared,   \* history: ids that two services have held at once
    calls, turns

discoveryVars == <<registry, turn, timer, fails, oks, check, server, shared, calls, turns>>
counters == <<fails, oks>>

Idle == [stage |-> "idle", service |-> Off, url |-> Off]

DiscoveryTypeOK ==
    /\ registry \in Seq(Instances)
    /\ turn \in [Services -> Int \cup {NaN}]
    /\ timer \in [Ids -> Urls \cup {Off}]
    /\ fails \in [Ids -> 0..UnhealthyThreshold]
    /\ oks \in [Ids -> 0..HealthyThreshold]
    /\ check \in [Ids -> [stage : {"asked", "passed", "failed"},
                          service : Services, url : Urls] \cup {Idle}]
    /\ server \in [Urls -> {"well", "sick", "down"}]
    /\ shared \in SUBSET Ids

DiscoveryInit ==
    /\ registry = <<>> /\ turn = [s \in Services |-> 0]
    /\ timer = [i \in Ids |-> Off]
    /\ fails = [i \in Ids |-> 0] /\ oks = [i \in Ids |-> 0]
    /\ check = [i \in Ids |-> Idle]
    /\ server \in [Urls -> {"well", "down"}]
    /\ shared = {} /\ calls = 0 /\ turns = 0

-----------------------------------------------------------------------------
\* POST /register, and startChecking for an instance that is new.
Register(s, i, u, w) ==
    /\ calls < MaxCalls /\ calls' = calls + 1
    /\ registry' = Registered(s, i, u, w)
    /\ timer' = IF IsRegistered(s, i) THEN timer ELSE [timer EXCEPT ![i] = u]
    /\ shared' = shared \cup {j \in {i} : \E q \in Services \ {s} : IsRegistered(q, j)}
    /\ UNCHANGED <<turn, counters, check, server, turns>>

\* Faulty: the timer outlives the instance.
DeregisterOnly(s, i) ==
    /\ calls < MaxCalls /\ calls' = calls + 1
    /\ IsRegistered(s, i)
    /\ registry' = Deregistered(s, i)
    /\ UNCHANGED <<turn, timer, counters, check, server, shared, turns>>

\* DELETE /register, and stopChecking of the id.
Deregister(s, i) ==
    /\ calls < MaxCalls /\ calls' = calls + 1
    /\ IsRegistered(s, i)
    /\ registry' = Deregistered(s, i)
    /\ timer' = [timer EXCEPT ![i] = Off]
    /\ UNCHANGED <<turn, counters, check, server, shared, turns>>

\* The interval's callback.
CheckStarts(i) ==
    /\ timer[i] # Off /\ check[i] = Idle /\ First(i) # 0
    /\ check' = [check EXCEPT ![i] = [stage |-> "asked", url |-> timer[i],
                                      service |-> registry[First(i)].service]]
    /\ UNCHANGED <<registry, turn, timer, counters, server, shared, calls, turns>>

\* Faulty: only more than healthyThreshold successes count.
RecordSuccessLate(i) ==
    /\ fails' = [fails EXCEPT ![i] = 0]
    /\ oks' = [oks EXCEPT ![i] = Min({@ + 1, HealthyThreshold})]
    /\ registry' = IF oks[i] > HealthyThreshold
                   THEN Marked(check[i].service, i, TRUE) ELSE registry

\* recordResult(.., true, ..).
RecordSuccess(i) ==
    /\ fails' = [fails EXCEPT ![i] = 0]
    /\ oks' = [oks EXCEPT ![i] = Min({@ + 1, HealthyThreshold})]
    /\ registry' = IF oks'[i] = HealthyThreshold
                   THEN Marked(check[i].service, i, TRUE) ELSE registry

\* Faulty: the counter starts again with every failure.
RecordFailuresAfresh(i, n) ==
    /\ oks' = [oks EXCEPT ![i] = 0]
    /\ fails' = [fails EXCEPT ![i] = n]
    /\ registry' = IF fails'[i] = UnhealthyThreshold
                   THEN Marked(check[i].service, i, FALSE) ELSE registry

\* recordResult(.., false, ..), n times.
RecordFailures(i, n) ==
    /\ oks' = [oks EXCEPT ![i] = 0]
    /\ fails' = [fails EXCEPT ![i] = Min({@ + n, UnhealthyThreshold})]
    /\ registry' = IF fails'[i] = UnhealthyThreshold
                   THEN Marked(check[i].service, i, FALSE) ELSE registry

Finish(i, stage) ==
    /\ check' = [check EXCEPT ![i] = IF stage = "idle" THEN Idle
                                     ELSE [@ EXCEPT !.stage = stage]]
    /\ UNCHANGED <<turn, timer, server, shared, calls, turns>>

\* The response callback.
CheckAnswered(i) ==
    /\ check[i].stage = "asked"
    /\ \/ /\ server[check[i].url] = "well"
          /\ RecordSuccess(i) /\ Finish(i, "passed")
       \/ /\ server[check[i].url] = "sick"
          /\ RecordFailures(i, 1) /\ Finish(i, "failed")

\* No response: 'error' is one failure; 'timeout' destroys the request, whose
\* 'error' is a second one.
CheckUnanswered(i) ==
    /\ check[i].stage = "asked" /\ server[check[i].url] = "down"
    /\ \E n \in {1, 2} : RecordFailures(i, n)
    /\ Finish(i, "idle")

\* After the answer: the server closes the connection, or the unread
\* response times out, which is one more failure.
CheckEnds(i) ==
    /\ check[i].stage \in {"passed", "failed"}
    /\ IF check[i].url \in Closing THEN UNCHANGED <<registry, counters>>
                                   ELSE RecordFailures(i, 1)
    /\ Finish(i, "idle")

\* A request of the proxy to u fails: recordPassiveFailure for every instance
\* whose url is in the route's target.
PassiveFailure(u) ==
    /\ registry' = [k \in DOMAIN registry |->
                        IF registry[k].url = u THEN [registry[k] EXCEPT !.healthy = FALSE]
                        ELSE registry[k]]
    /\ UNCHANGED <<turn, timer, counters, check, server, shared, calls, turns>>

ServerTurns(u) ==
    /\ turns < MaxTurns /\ turns' = turns + 1
    /\ \E v \in {"well", "sick", "down"} \ {server[u]} : server' = [server EXCEPT ![u] = v]
    /\ UNCHANGED <<registry, turn, timer, counters, check, shared, calls>>

Selected(s) ==
    /\ Select(s)
    /\ UNCHANGED <<timer, counters, check, server, shared, calls, turns>>

Checking(i) == CheckStarts(i) \/ CheckAnswered(i) \/ CheckUnanswered(i) \/ CheckEnds(i)

DiscoveryNext ==
    \/ \E o \in Offers : Register(o[1], o[2], o[3], o[4])
    \/ \E s \in Services, i \in Ids : Deregister(s, i)
    \/ \E i \in Ids : Checking(i)
    \/ \E u \in Urls : PassiveFailure(u) \/ ServerTurns(u)
    \/ \E s \in Services : Selected(s)

DiscoverySpec == DiscoveryInit /\ [][DiscoveryNext]_discoveryVars

\* The intervals fire, and a check that has been sent comes to its end.
DiscoveryFairSpec == DiscoverySpec /\ \A i \in Ids : WF_discoveryVars(Checking(i))

-----------------------------------------------------------------------------
\* Only registered ids are polled; and an id that was never in two services
\* at once is polled for as long as it is registered.
PolledIffRegistered ==
    \A i \in Ids : /\ timer[i] # Off => First(i) # 0
                   /\ First(i) # 0 /\ i \notin shared => timer[i] # Off

\* The counter of a list from c on, through its next Total selections.
Turns(list, c) ==
    LET t[n \in 0..Total(list)] == IF n = 0 THEN c ELSE NextTurn(list, t[n - 1])
    IN t

\* After any change of the healthy instances the next Total selections give
\* each of them exactly its weight, if all their weights are positive and no
\* instance of another weight has left the counter below 0 or NaN.
TurnIsFair ==
    \A s \in Services :
        LET list == GetInstances(s)
            t == Turns(list, turn[s])
        IN turn[s] \in Nat /\ (\A k \in DOMAIN list : list[k].weight > 0) =>
               \A k \in DOMAIN list :
                   Cardinality({n \in 1..Total(list) : Chosen(list, t[n]) = k})
                       = list[k].weight

Sound(i) == timer[i] # Off /\ i \notin shared
UpNow(i) == First(i) # 0 /\ registry[First(i)].healthy

\* An instance whose polled server stays down is taken out in the end.
DeadIsEjected ==
    \A i \in Ids : <>[](Sound(i) /\ server[timer[i]] = "down")
                       => <>[]~UpNow(i)

\* An instance whose polled server stays well, and closes its connections,
\* is taken in again after every passive failure.
WellIsReadmitted ==
    \A i \in Ids : <>[](Sound(i) /\ timer[i] \in Closing /\ server[timer[i]] = "well")
                       => []<>UpNow(i)
=============================================================================
