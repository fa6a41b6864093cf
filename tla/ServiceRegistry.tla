-------------------------- MODULE ServiceRegistry --------------------------
(***************************************************************************)
(* services/service-registry.ts and the /register endpoints of app.ts; and *)
(* services/load-balancer.ts, which chooses among what the registry holds. *)
(*                                                                         *)
(* The registry is one sequence of instances in the order getAllInstances  *)
(* lists them: a service's instances stand together, in the order of their *)
(* registration, services in the order of their entries in the Map.  An id *)
(* is unique within its service only.                                      *)
(***************************************************************************)
EXTENDS SequencesExt, Integers

CONSTANTS Services, Ids, Urls,
          Weights,   \* integers: /register takes what is truthy, below 0 too
          NaN        \* JavaScript's

ASSUME RegistryAssumption == Weights \subseteq Int \ {0} /\ NaN \notin Int

VARIABLES
    registry,   \* the registered instances
    turn        \* roundRobinCounters of the load balancer

Instances == [service : Services, id : Ids, url : Urls,
              weight : Weights, healthy : BOOLEAN]

Held(k, s, i) == registry[k].service = s /\ registry[k].id = i

IsRegistered(s, i) == \E k \in DOMAIN registry : Held(k, s, i)

\* findInstance.
Position(s, i) == CHOOSE k \in DOMAIN registry : Held(k, s, i)

\* The instance check() finds first in getAllInstances: any service's.
First(i) == SelectInSeq(registry, LAMBDA inst : inst.id = i)

\* getInstances: the healthy ones, in their order.
GetInstances(s) ==
    LET list[k \in 0..Len(registry)] ==
            IF k = 0 THEN <<>>
            ELSE IF registry[k].service = s /\ registry[k].healthy
                 THEN Append(list[k - 1], registry[k]) ELSE list[k - 1]
    IN list[Len(registry)]

\* register: an id its service has already is updated where it stands and
\* keeps its health; another is appended to its service's instances.
Registered(s, i, u, w) ==
    LET new == [service |-> s, id |-> i, url |-> u, weight |-> w, healthy |-> TRUE]
        last == SelectLastInSeq(registry, LAMBDA inst : inst.service = s)
    IN IF IsRegistered(s, i)
       THEN ReplaceAt(registry, Position(s, i),
                      [new EXCEPT !.healthy = registry[Position(s, i)].healthy])
       ELSE InsertAt(registry, 1 + IF last = 0 THEN Len(registry) ELSE last, new)

Deregistered(s, i) == RemoveAt(registry, Position(s, i))

\* markHealthy and markUnhealthy: no effect on an instance that has gone.
Marked(s, i, healthy) ==
    [k \in DOMAIN registry |->
        IF Held(k, s, i) THEN [registry[k] EXCEPT !.healthy = healthy] ELSE registry[k]]

-----------------------------------------------------------------------------
\* cumulative, after the first k instances of list.
Cumulative(list) ==
    LET sum[k \in 0..Len(list)] == IF k = 0 THEN 0 ELSE sum[k - 1] + list[k].weight
    IN sum

Total(list) == Cumulative(list)[Len(list)]

Abs(a) == IF a >= 0 THEN a ELSE -a

\* a % b of JavaScript for b # 0: it has the sign of a.
Remainder(a, b) == IF a >= 0 THEN a % Abs(b) ELSE -(Abs(a) % Abs(b))

\* The counter after a selection from list when it was t.
NextTurn(list, t) ==
    IF t = NaN \/ Total(list) = 0 THEN NaN ELSE Remainder(t + 1, Total(list))

\* Faulty: the first instance gets one turn too many.
ChosenInclusive(list, t) ==
    LET hit == {k \in DOMAIN list : t # NaN /\ t <= Cumulative(list)[k]}
    IN IF hit = {} THEN 1 ELSE Min(hit)

\* weightedRoundRobin: the first instance up to which the weights exceed t, or
\* the first of all.
Chosen(list, t) ==
    LET hit == {k \in DOMAIN list : t # NaN /\ t < Cumulative(list)[k]}
    IN IF hit = {} THEN 1 ELSE Min(hit)

\* select(), with the default strategy.
Select(s) ==
    /\ GetInstances(s) # <<>>
    /\ turn' = [turn EXCEPT ![s] = NextTurn(GetInstances(s), @)]
    /\ UNCHANGED registry
=============================================================================
