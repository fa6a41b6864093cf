------------------------ MODULE CircuitBreakerProofs ------------------------
(***************************************************************************)
(* The safety of CircuitBreaker for every value of its constants, checked  *)
(* by TLAPS.  The invariants follow from one inductive invariant, IndInv;  *)
(* the refinement of BreakerContract needs it too.  What trips a closed    *)
(* breaker rests on LogFollows instead: the pruned log is the window of    *)
(* all that was recorded, and the count that is never pruned its size.     *)
(***************************************************************************)
EXTENDS CircuitBreaker, FiniteSetTheorems, WellFoundedInduction, TLAPS

Resolved == probes \ Unresolved

(* The strengthening.  The counters only run in half-open; the stored      *)
(* stamp is the time of the last opening; every probe has left "new"; the  *)
(* probes that are over have all passed, since a failure reopens.          *)
CountersAtRest ==
    ~HalfOpen => /\ breaker.halfOpenPassCount = 0
                 /\ breaker.halfOpenRequestCount = 0
                 /\ probes = {}

Stamped ==
    IF breaker.state = "closed"
    THEN breaker.openedAt = Never
    ELSE breaker.openedAt = trippedAt /\ trippedAt \in Time

ProbesSent == \A c \in probes : call[c] # "new"

ProbesCounted ==
    HalfOpen => breaker.halfOpenRequestCount = Cardinality(probes)

OverMeansPassed ==
    HalfOpen => Cardinality(Resolved) <= breaker.halfOpenPassCount

IndInv ==
    /\ TypeOK
    /\ CountersAtRest
    /\ Stamped
    /\ QuietPeriod
    /\ ProbesSent
    /\ ProbesCounted
    /\ OverMeansPassed

-----------------------------------------------------------------------------
(* What the operators of Breaker return, for every breaker record.         *)

\* The empty log is a log.
LEMMA EmptyLogType == EmptyLog \in Log
BY DEF EmptyLog, Log

\* Adding a record to a log yields a log.
LEMMA AddToType ==
    ASSUME NEW log \in Log, NEW ok \in BOOLEAN, NEW t \in Time
    PROVE  AddTo(log, ok, t) \in Log
BY DEF AddTo, Log

\* transitionTo keeps the record well typed.
LEMMA TransitionType ==
    ASSUME NEW b \in Breakers, NEW s \in States, NEW t \in Time
    PROVE  TransitionTo(b, s, t) \in Breakers
BY EmptyLogType DEF TransitionTo, Breakers

\* What transitionTo leaves in the fields the invariants read.
LEMMA TransitionFields ==
    ASSUME NEW b \in Breakers, NEW s \in States, NEW t \in Time
    PROVE  LET r == TransitionTo(b, s, t)
           IN  /\ r.state = s
               /\ r.halfOpenPassCount = 0
               /\ r.halfOpenRequestCount = 0
               /\ s = "open" => r.openedAt = t
               /\ s = "closed" => r.openedAt = Never
               /\ s = "half-open" => r.openedAt = b.openedAt
BY DEF TransitionTo, Breakers

\* A prune by any predicate on timestamps yields a log.
LEMMA PruneType ==
    ASSUME NEW log \in Log, NEW t \in Time
    PROVE  [o \in BOOLEAN |-> [u \in Time |->
              IF InWindow(u, t) THEN log[o][u] ELSE 0]] \in Log
BY DEF Log

\* Logging a record touches the log and totalCount only.
LEMMA LoggedFacts ==
    ASSUME NEW b \in Breakers, NEW ok \in BOOLEAN, NEW t \in Time
    PROVE  LET r == Logged(b, ok, t)
           IN  /\ r \in Breakers
               /\ r.state = b.state
               /\ r.openedAt = b.openedAt
               /\ r.halfOpenPassCount = b.halfOpenPassCount
               /\ r.halfOpenRequestCount = b.halfOpenRequestCount
<1>1. AddTo(b.requestLog, ok, t) \in Log
  BY AddToType DEF Breakers
<1>2. PICK pruned \in Log : Logged(b, ok, t) =
          [b EXCEPT !.requestLog = pruned, !.totalCount = b.totalCount + 1]
  BY <1>1, PruneType DEF Logged
<1>3. b.totalCount + 1 \in Nat
  BY DEF Breakers
<1> QED
  BY <1>2, <1>3 DEF Breakers

\* record, seen through the fields the invariants read: it never wakes a
\* breaker, it leaves half-open only by closing or by opening with a fresh
\* stamp, and a half-open breaker survives a success only.
LEMMA RecordFacts ==
    ASSUME NEW b \in Breakers, NEW ok \in BOOLEAN, NEW t \in Time
    PROVE  LET r == Record(b, ok, t)
           IN  /\ r \in Breakers
               /\ r.state = "half-open" =>
                     /\ b.state = "half-open"
                     /\ ok
                     /\ r.halfOpenPassCount = b.halfOpenPassCount + 1
                     /\ r.halfOpenPassCount < HalfOpenMaxRequests
                     /\ r.halfOpenRequestCount = b.halfOpenRequestCount
                     /\ r.openedAt = b.openedAt
               /\ r.state # "half-open" /\ r.state = b.state =>
                     /\ r.halfOpenPassCount = b.halfOpenPassCount
                     /\ r.halfOpenRequestCount = b.halfOpenRequestCount
                     /\ r.openedAt = b.openedAt
               /\ r.state # b.state =>
                     /\ r.halfOpenPassCount = 0
                     /\ r.halfOpenRequestCount = 0
                     /\ r.state = "open" => r.openedAt = t
                     /\ r.state = "closed" => /\ r.openedAt = Never
                                              /\ b.state = "half-open"
                                              /\ PassedEnough(b)
<1> DEFINE l == Logged(b, ok, t)
<1>1. /\ l \in Breakers
      /\ l.state = b.state
      /\ l.openedAt = b.openedAt
      /\ l.halfOpenPassCount = b.halfOpenPassCount
      /\ l.halfOpenRequestCount = b.halfOpenRequestCount
  BY LoggedFacts
<1>2. Record(b, ok, t) =
        CASE l.state = "half-open" /\ ok /\ PassedEnough(l) ->
                TransitionTo(l, "closed", t)
          [] l.state = "half-open" /\ ok /\ ~PassedEnough(l) ->
                [l EXCEPT !.halfOpenPassCount = @ + 1]
          [] l.state = "half-open" /\ ~ok -> TransitionTo(l, "open", t)
          [] l.state = "closed" /\ Trips(l) -> TransitionTo(l, "open", t)
          [] OTHER -> l
  BY DEF Record
<1> HIDE DEF l
<1>3. l.state \in States
  BY <1>1 DEF Breakers
<1>4. PassedEnough(l) <=> PassedEnough(b)
  BY <1>1 DEF PassedEnough
<1>5. CASE l.state = "half-open" /\ ok /\ PassedEnough(l)
  <2>1. Record(b, ok, t) = TransitionTo(l, "closed", t)
    BY <1>2, <1>5
  <2> QED
    BY <2>1, <1>1, <1>4, <1>5, TransitionType, TransitionFields DEF States
<1>6. CASE l.state = "half-open" /\ ok /\ ~PassedEnough(l)
  <2>1. Record(b, ok, t) = [l EXCEPT !.halfOpenPassCount = @ + 1]
    BY <1>2, <1>6
  <2> QED
    BY <2>1, <1>1, <1>6, BreakerAssumption DEF Breakers, PassedEnough
<1>7. CASE l.state = "half-open" /\ ~ok
  <2>1. Record(b, ok, t) = TransitionTo(l, "open", t)
    BY <1>2, <1>7
  <2> QED
    BY <2>1, <1>1, <1>7, TransitionType, TransitionFields DEF States
<1>8. CASE l.state = "closed" /\ Trips(l)
  <2>1. Record(b, ok, t) = TransitionTo(l, "open", t)
    BY <1>2, <1>8
  <2> QED
    BY <2>1, <1>1, <1>8, TransitionType, TransitionFields DEF States
<1>9. CASE l.state # "half-open" /\ ~(l.state = "closed" /\ Trips(l))
  <2>1. Record(b, ok, t) = l
    BY <1>2, <1>9
  <2> QED
    BY <2>1, <1>1, <1>9
<1> QED
  BY <1>5, <1>6, <1>7, <1>8, <1>9

\* allowRequest when it says yes: a closed breaker is untouched, an open one
\* whose timeout is over starts a half-open episode with one slot taken, a
\* half-open one gives a slot away.
LEMMA AllowFacts ==
    ASSUME NEW b \in Breakers, NEW t \in Time, Allows(b, t)
    PROVE  LET r == AllowRequest(b, t)
           IN  /\ r \in Breakers
               /\ b.state = "closed" => r = b
               /\ b.state = "open" =>
                     /\ r.state = "half-open"
                     /\ r.halfOpenRequestCount = 1
                     /\ r.halfOpenPassCount = 0
                     /\ r.openedAt = b.openedAt
                     /\ t - b.openedAt >= RecoveryTimeout
               /\ b.state = "half-open" =>
                     /\ r.state = "half-open"
                     /\ b.halfOpenRequestCount < HalfOpenMaxRequests
                     /\ r.halfOpenRequestCount = b.halfOpenRequestCount + 1
                     /\ r.halfOpenPassCount = b.halfOpenPassCount
                     /\ r.openedAt = b.openedAt
<1> DEFINE w == Woken(b, t)
<1>1. AllowRequest(b, t) = IF w.state = "half-open" /\ Allows(b, t)
                           THEN [w EXCEPT !.halfOpenRequestCount = @ + 1]
                           ELSE w
  BY DEF AllowRequest
<1>2. \/ w.state = "closed"
      \/ w.state = "half-open" /\ w.halfOpenRequestCount < HalfOpenMaxRequests
  BY DEF Allows
<1>3. CASE b.state = "open"
  <2>1. Elapsed(b, t)
    BY <1>2, <1>3 DEF Woken
  <2>2. w = TransitionTo(b, "half-open", t)
    BY <1>3, <2>1 DEF Woken
  <2>3. /\ w \in Breakers
        /\ w.state = "half-open"
        /\ w.halfOpenPassCount = 0
        /\ w.halfOpenRequestCount = 0
        /\ w.openedAt = b.openedAt
    BY <2>2, TransitionType, TransitionFields DEF States
  <2> HIDE DEF w
  <2>4. AllowRequest(b, t) = [w EXCEPT !.halfOpenRequestCount = @ + 1]
    BY <1>1, <2>3
  <2> QED
    BY <1>3, <2>1, <2>3, <2>4 DEF Elapsed, Breakers
<1>4. CASE b.state # "open"
  <2>1. w = b
    BY <1>4 DEF Woken
  <2> HIDE DEF w
  <2> QED
    BY <1>1, <1>2, <1>4, <2>1 DEF Breakers
<1> QED
  BY <1>3, <1>4
-----------------------------------------------------------------------------
(* The inductive invariant.                                                *)

\* Every subset of the calls is finite and has a cardinality.
LEMMA CallSets ==
    ASSUME NEW S \in SUBSET Calls
    PROVE  IsFiniteSet(S) /\ Cardinality(S) \in Nat
BY CallsAssumption, FS_Subset, FS_CardinalityType

\* A new breaker satisfies it.
LEMMA InitInd == Init => IndInv
BY EmptyLogType, BreakerAssumption
   DEF Init, IndInv, TypeOK, NewBreaker, Breakers, States, Time, CallStates,
       CountersAtRest, Stamped, QuietPeriod, ProbesSent, ProbesCounted,
       OverMeansPassed, HalfOpen

\* Admission (Admit and Throw): the call taken in is new, so it is not among
\* the probes yet, and it is not over.
LEMMA AdmissionInd ==
    ASSUME IndInv, NEW c \in Calls, NEW s \in {"inflight", "threw"},
           call[c] = "new", Allows(breaker, now),
           breaker' = AllowRequest(breaker, now),
           call' = [call EXCEPT ![c] = s],
           Remember(breaker', {c}),
           UNCHANGED <<now, since>>
    PROVE  IndInv'
<1>1. breaker \in Breakers /\ now \in Time
  BY DEF IndInv, TypeOK
<1>2. /\ breaker' \in Breakers
      /\ breaker.state = "closed" => breaker' = breaker
      /\ breaker.state = "open" =>
            /\ breaker'.state = "half-open"
            /\ breaker'.halfOpenRequestCount = 1
            /\ breaker'.halfOpenPassCount = 0
            /\ breaker'.openedAt = breaker.openedAt
            /\ now - breaker.openedAt >= RecoveryTimeout
      /\ breaker.state = "half-open" =>
            /\ breaker'.state = "half-open"
            /\ breaker.halfOpenRequestCount < HalfOpenMaxRequests
            /\ breaker'.halfOpenRequestCount = breaker.halfOpenRequestCount + 1
            /\ breaker'.halfOpenPassCount = breaker.halfOpenPassCount
            /\ breaker'.openedAt = breaker.openedAt
  BY <1>1, AllowFacts
<1>3. breaker.state \in States /\ breaker'.state \in States
  BY <1>1, <1>2 DEF Breakers
<1>4. /\ breaker'.state # "open"
      /\ trippedAt' = trippedAt
      /\ HalfOpen' => probes' = probes \cup {c}
      /\ ~HalfOpen' => probes' = {} /\ breaker' = breaker
  BY <1>2, <1>3 DEF Remember, States, HalfOpen
<1>5. c \notin probes
  BY DEF IndInv, ProbesSent
<1>6. TypeOK'
  BY <1>1, <1>2, <1>3, <1>4, BreakerAssumption
     DEF IndInv, TypeOK, CallStates, Breakers, States, HalfOpen
<1>7. CountersAtRest' /\ Stamped'
  BY <1>2, <1>3, <1>4 DEF IndInv, CountersAtRest, Stamped, HalfOpen, States
<1>8. QuietPeriod'
  BY <1>2, <1>3, <1>4 DEF IndInv, QuietPeriod, Stamped, HalfOpen, States
<1>9. ProbesSent'
  BY <1>4 DEF IndInv, ProbesSent, TypeOK
<1>10. Cardinality(probes \cup {c}) = Cardinality(probes) + 1
  BY <1>5, CallSets, FS_AddElement DEF IndInv, TypeOK
<1>11. ~HalfOpen => probes = {} /\ Cardinality(probes) = 0
  BY FS_EmptySet DEF IndInv, CountersAtRest
<1>12. ProbesCounted'
  BY <1>2, <1>3, <1>4, <1>10, <1>11
     DEF IndInv, ProbesCounted, HalfOpen, States
<1>13. HalfOpen' => Resolved' = Resolved
  BY <1>4, <1>5 DEF Resolved, Unresolved, IndInv, TypeOK
<1>14. OverMeansPassed'
  <2>1. CASE HalfOpen
    BY <2>1, <1>2, <1>13 DEF IndInv, OverMeansPassed, HalfOpen
  <2>2. CASE ~HalfOpen
    <3>1. Cardinality(Resolved) = 0
      BY <2>2, <1>11 DEF Resolved
    <3> QED
      BY <3>1, <2>2, <1>2, <1>3, <1>13, <1>4
         DEF OverMeansPassed, HalfOpen, States
  <2> QED
    BY <2>1, <2>2
<1> QED
  BY <1>6, <1>7, <1>8, <1>9, <1>12, <1>14 DEF IndInv

\* Recording (Respond and Fail): the only record that leaves a half-open
\* breaker half-open is a success of a call in flight, which adds at most
\* one call to those that are over and exactly one to the passes.
LEMMA RecordingInd ==
    ASSUME IndInv, NEW c \in Calls, NEW ok \in BOOLEAN,
           NEW s \in {"streaming", "done"},
           call[c] \in {"inflight", "streaming"},
           call' = [call EXCEPT ![c] = s],
           RecordResult(ok)
    PROVE  IndInv'
<1>1. breaker \in Breakers /\ now \in Time /\ now' = now
  BY DEF IndInv, TypeOK, RecordResult
<1>2. breaker' = Record(breaker, ok, now) /\ Remember(breaker', {})
  BY DEF RecordResult
<1>3. /\ breaker' \in Breakers
      /\ HalfOpen' =>
            /\ HalfOpen
            /\ ok
            /\ breaker'.halfOpenPassCount = breaker.halfOpenPassCount + 1
            /\ breaker'.halfOpenPassCount < HalfOpenMaxRequests
            /\ breaker'.halfOpenRequestCount = breaker.halfOpenRequestCount
            /\ breaker'.openedAt = breaker.openedAt
      /\ ~HalfOpen' /\ breaker'.state = breaker.state =>
            /\ breaker'.halfOpenPassCount = breaker.halfOpenPassCount
            /\ breaker'.halfOpenRequestCount = breaker.halfOpenRequestCount
            /\ breaker'.openedAt = breaker.openedAt
      /\ breaker'.state # breaker.state =>
            /\ breaker'.halfOpenPassCount = 0
            /\ breaker'.halfOpenRequestCount = 0
            /\ breaker'.state = "open" => breaker'.openedAt = now
            /\ breaker'.state = "closed" => breaker'.openedAt = Never
  BY <1>1, <1>2, RecordFacts DEF HalfOpen
<1>4. breaker.state \in States /\ breaker'.state \in States
  BY <1>1, <1>3 DEF Breakers
<1>5. /\ probes' = IF HalfOpen' THEN probes ELSE {}
      /\ trippedAt' = IF breaker'.state = "open" /\ breaker.state # "open"
                      THEN now ELSE trippedAt
  BY <1>2 DEF Remember, HalfOpen
<1>6. TypeOK'
  <2>1. since' \in Log
    BY <1>1, EmptyLogType, AddToType DEF RecordResult, IndInv, TypeOK
  <2>2. call' \in [Calls -> CallStates]
    BY DEF IndInv, TypeOK, CallStates
  <2>3. /\ breaker'.halfOpenPassCount < HalfOpenMaxRequests
        /\ breaker'.halfOpenRequestCount <= HalfOpenMaxRequests
    BY <1>3, BreakerAssumption DEF IndInv, TypeOK, HalfOpen
  <2> QED
    BY <2>1, <2>2, <2>3, <1>1, <1>3, <1>5 DEF IndInv, TypeOK
<1>7. CountersAtRest'
  <2>1. CASE breaker'.state = breaker.state
    BY <2>1, <1>3, <1>5 DEF IndInv, CountersAtRest, HalfOpen
  <2>2. CASE breaker'.state # breaker.state
    BY <2>2, <1>3, <1>5 DEF CountersAtRest, HalfOpen
  <2> QED
    BY <2>1, <2>2
<1>8. Stamped'
  <2>1. CASE breaker'.state = breaker.state
    BY <2>1, <1>3, <1>5 DEF IndInv, Stamped, HalfOpen
  <2>2. CASE breaker'.state # breaker.state
    BY <2>2, <1>1, <1>3, <1>4, <1>5 DEF Stamped, HalfOpen, States
  <2> QED
    BY <2>1, <2>2
<1>9. QuietPeriod'
  BY <1>1, <1>3, <1>5 DEF IndInv, QuietPeriod, HalfOpen
<1>10. ProbesSent'
  BY <1>5 DEF IndInv, ProbesSent, TypeOK
<1>11. ProbesCounted'
  BY <1>3, <1>5 DEF IndInv, ProbesCounted
<1>12. OverMeansPassed'
  <2> SUFFICES ASSUME HalfOpen'
               PROVE  Cardinality(Resolved') <= breaker'.halfOpenPassCount
    BY DEF OverMeansPassed
  <2>1. Resolved' \subseteq Resolved \cup {c}
    BY <1>5 DEF Resolved, Unresolved, IndInv, TypeOK
  <2>2. Resolved \in SUBSET Calls /\ Resolved \cup {c} \in SUBSET Calls
    BY DEF Resolved, IndInv, TypeOK
  <2>3. Cardinality(Resolved \cup {c}) <= Cardinality(Resolved) + 1
    BY <2>2, CallSets, FS_AddElement
  <2>4. Cardinality(Resolved') <= Cardinality(Resolved \cup {c})
    BY <2>1, <2>2, CallSets, FS_Subset
  <2>5. Cardinality(Resolved) <= breaker.halfOpenPassCount
    BY <1>3 DEF IndInv, OverMeansPassed
  <2>6. /\ Resolved' \in SUBSET Calls
        /\ Cardinality(Resolved') \in Nat
        /\ Cardinality(Resolved) \in Nat
        /\ Cardinality(Resolved \cup {c}) \in Nat
    BY <2>1, <2>2, CallSets
  <2> QED
    BY <1>1, <1>3, <2>3, <2>4, <2>5, <2>6 DEF Breakers
<1> QED
  BY <1>6, <1>7, <1>8, <1>9, <1>10, <1>11, <1>12 DEF IndInv

\* Every step keeps IndInv: one case per action of CircuitBreaker.
LEMMA StepInd == IndInv /\ [Next]_vars => IndInv'
<1> SUFFICES ASSUME IndInv, [Next]_vars
             PROVE  IndInv'
  OBVIOUS
<1>1. ASSUME NEW c \in Calls, Admit(c)
      PROVE  IndInv'
  BY <1>1, AdmissionInd DEF Admit
<1>2. ASSUME NEW c \in Calls, Throw(c)
      PROVE  IndInv'
  BY <1>2, AdmissionInd DEF Throw
<1>3. ASSUME NEW c \in Calls, NEW ok \in BOOLEAN, Respond(c, ok)
      PROVE  IndInv'
  BY <1>3, RecordingInd DEF Respond
<1>4. ASSUME NEW c \in Calls, Fail(c)
      PROVE  IndInv'
  BY <1>4, RecordingInd DEF Fail
<1>5. ASSUME NEW c \in Calls, Finish(c)
      PROVE  IndInv'
  <2>1. UNCHANGED <<now, breaker, probes, trippedAt, since>>
    BY <1>5 DEF Finish
  <2>2. call' \in [Calls -> CallStates] /\ ProbesSent'
    BY <1>5, <2>1 DEF Finish, IndInv, TypeOK, CallStates, ProbesSent
  <2>3. Resolved' = Resolved
    BY <1>5, <2>1 DEF Finish, Resolved, Unresolved, IndInv, TypeOK
  <2> QED
    BY <2>1, <2>2, <2>3
       DEF IndInv, TypeOK, CountersAtRest, Stamped, QuietPeriod,
           ProbesCounted, OverMeansPassed, HalfOpen
<1>6. CASE ManualReset
  <2>1. /\ breaker' = TransitionTo(breaker, "closed", now)
        /\ UNCHANGED <<now, call>>
        /\ since' = EmptyLog
        /\ Remember(breaker', {})
    BY <1>6 DEF ManualReset, Reset
  <2>2. /\ breaker' \in Breakers
        /\ breaker'.state = "closed"
        /\ breaker'.halfOpenPassCount = 0
        /\ breaker'.halfOpenRequestCount = 0
        /\ breaker'.openedAt = Never
    BY <2>1, TransitionType, TransitionFields DEF IndInv, TypeOK, States
  <2>3. probes' = {} /\ trippedAt' = trippedAt
    BY <2>1, <2>2 DEF Remember
  <2> QED
    BY <2>1, <2>2, <2>3, EmptyLogType, BreakerAssumption
       DEF IndInv, TypeOK, CountersAtRest, Stamped, QuietPeriod, ProbesSent,
           ProbesCounted, OverMeansPassed, HalfOpen
<1>7. CASE Tick
  <2>1. now' = now + 1 /\ now' \in Time
    BY <1>7, BreakerAssumption DEF Tick, IndInv, TypeOK, Time
  <2>2. UNCHANGED <<breaker, call, probes, trippedAt, since>>
    BY <1>7 DEF Tick
  <2>3. QuietPeriod'
    BY <2>1, <2>2, BreakerAssumption
       DEF IndInv, TypeOK, QuietPeriod, Stamped, HalfOpen, Time
  <2> QED
    BY <2>1, <2>2, <2>3
       DEF IndInv, TypeOK, CountersAtRest, Stamped, ProbesSent,
           ProbesCounted, OverMeansPassed, HalfOpen, Resolved, Unresolved
<1>8. CASE UNCHANGED vars
  BY <1>8 DEF vars, IndInv, TypeOK, CountersAtRest, Stamped, QuietPeriod,
       ProbesSent, ProbesCounted, OverMeansPassed, HalfOpen, Resolved,
       Unresolved
<1> QED
  BY <1>1, <1>2, <1>3, <1>4, <1>5, <1>6, <1>7, <1>8 DEF Next

\* IndInv holds throughout.
THEOREM Inductive == Spec => []IndInv
BY InitInd, StepInd, PTL DEF Spec

-----------------------------------------------------------------------------
(* The properties of CircuitBreaker.                                       *)

\* The fields of the breaker, the calls and the history variables always
\* have their types, and the half-open counters never pass their limit.
THEOREM TypeCorrect == Spec => []TypeOK
BY Inductive, PTL DEF IndInv

\* No probe leaves before RecoveryTimeout has passed since the last opening
\* (allowRequest), whatever results arrive meanwhile.
THEOREM QuietPeriodHolds == Spec => []QuietPeriod
BY Inductive, PTL DEF IndInv

\* At most HalfOpenMaxRequests calls get through per half-open episode, and
\* halfOpenRequestCount is their number (allowRequest, transitionTo).
THEOREM ProbeLimitHolds == Spec => []ProbeLimit
<1>1. IndInv => ProbeLimit
  <2> SUFFICES ASSUME IndInv PROVE ProbeLimit
    OBVIOUS
  <2>1. ~HalfOpen => Cardinality(probes) = 0
    BY FS_EmptySet DEF IndInv, CountersAtRest
  <2>2. HalfOpen => Cardinality(probes) <= HalfOpenMaxRequests
    BY DEF IndInv, ProbesCounted, TypeOK
  <2> QED
    BY <2>1, <2>2, BreakerAssumption DEF ProbeLimit, IndInv, ProbesCounted
<1> QED
  BY <1>1, Inductive, PTL

\* A half-open breaker that refuses everyone has let through a call whose
\* result it has not recorded (record): were all its probes over, they would
\* all have passed, and it would have closed at the last of them.
THEOREM NoWedgeHolds == Spec => []NoWedge
<1>1. IndInv => NoWedge
  <2> SUFFICES ASSUME IndInv, Exhausted, Unresolved = {}
               PROVE  FALSE
    BY DEF NoWedge
  <2>1. Resolved = probes
    BY DEF Resolved
  <2>2. Cardinality(probes) = HalfOpenMaxRequests
    BY DEF IndInv, ProbesCounted, Exhausted
  <2>3. Cardinality(probes) <= breaker.halfOpenPassCount
    BY <2>1 DEF IndInv, OverMeansPassed, Exhausted
  <2> QED
    BY <2>2, <2>3, BreakerAssumption DEF IndInv, TypeOK, Breakers
<1> QED
  BY <1>1, Inductive, PTL

\* Results that arrive while the circuit is open do not move its stamp
\* (record in state "open").
THEOREM OpenLeftAlone == Spec => LateResultsLeaveOpenAlone
<1> DEFINE Alone == breaker.state = "open" /\ breaker'.state = "open"
                      => breaker'.openedAt = breaker.openedAt
<1>1. IndInv /\ [Next]_vars => [Alone]_vars
  <2> SUFFICES ASSUME IndInv, Next, breaker.state = "open",
                      breaker'.state = "open"
               PROVE  breaker'.openedAt = breaker.openedAt
    OBVIOUS
  <2>1. breaker \in Breakers /\ now \in Time
    BY DEF IndInv, TypeOK
  <2>2. ASSUME NEW ok \in BOOLEAN, RecordResult(ok)
        PROVE  breaker'.openedAt = breaker.openedAt
    BY <2>1, <2>2, RecordFacts DEF RecordResult
  <2>3. ASSUME NEW c \in Calls, Admit(c) \/ Throw(c)
        PROVE  breaker'.openedAt = breaker.openedAt
    BY <2>1, <2>3, AllowFacts DEF Admit, Throw
  <2>4. CASE ManualReset
    BY <2>1, <2>4, TransitionFields DEF ManualReset, Reset, States
  <2>5. ASSUME NEW c \in Calls, Finish(c)
        PROVE  breaker'.openedAt = breaker.openedAt
    BY <2>5 DEF Finish
  <2>6. CASE Tick
    BY <2>6 DEF Tick
  <2> QED
    BY <2>2, <2>3, <2>4, <2>5, <2>6 DEF Next, Respond, Fail
<1> QED
  BY <1>1, Inductive, PTL DEF Spec, LateResultsLeaveOpenAlone

-----------------------------------------------------------------------------
(* The log: what record() decides on, against the history.  The sums of the *)
(* community modules are folds; what is needed of them is proved first.     *)

\* A nonempty set of natural numbers has a least element.
LEMMA LeastNatural ==
    ASSUME NEW S \in SUBSET Nat, S # {}
    PROVE  \E s \in S : \A u \in S : s <= u
<1>1. S \subseteq Nat
  OBVIOUS
<1>2. PICK s \in S : \A u \in S : ~(<<u, s>> \in OpToRel(<, Nat))
  BY <1>1, NatLessThanWellFounded, WFMin, Zenon
<1>3. \A u \in S : ~(u < s)
  BY <1>1, <1>2, Zenon DEF OpToRel
<1> QED
  BY <1>1, <1>3

\* The element of s that a fold takes first.
Taken(s) == CHOOSE u \in s : TRUE

\* What SumFunctionOnSet computes for the sets of timestamps.
Sums(f) == CHOOSE sum : sum = [s \in SUBSET Time |->
               IF s = {} THEN 0 ELSE f[Taken(s)] + sum[s \ {Taken(s)}]]

\* A count of the log is such a sum.
LEMMA CountIs ==
    ASSUME NEW log, NEW ok
    PROVE  Count(log, ok) = Sums(log[ok])[Time]
BY DEF Count, SumFunctionOnSet, FoldFunctionOnSet, MapThenFoldSet, Sums, Taken

\* The entries of a log are the sums of its two rows.
LEMMA RecordedIs ==
    ASSUME NEW log
    PROVE  Recorded(log) = Sums(log[TRUE])[Time] + Sums(log[FALSE])[Time]
<1>1. Recorded(log) = Count(log, TRUE) + Count(log, FALSE)
  BY DEF Recorded
<1>2. Count(log, TRUE) = Sums(log[TRUE])[Time] /\ Count(log, FALSE) = Sums(log[FALSE])[Time]
  BY CountIs, Zenon
<1> QED
  BY <1>1, <1>2, Zenon

\* A fold comes to its end.
LEMMA TakenAway ==
    ASSUME NEW s \in SUBSET Time
    PROVE  /\ Cardinality(s) \in Nat /\ Cardinality(s) <= MaxTime
           /\ Cardinality(s) = 0 <=> s = {}
           /\ s # {} => /\ Taken(s) \in s /\ Taken(s) \in Time
                        /\ s \ {Taken(s)} \in SUBSET Time
                        /\ Cardinality(s \ {Taken(s)}) = Cardinality(s) - 1
<1>1. 1 \in Int /\ MaxTime \in Int /\ MaxTime \in Nat \ {0}
  BY BreakerAssumption
<1>2. IsFiniteSet(1..MaxTime) /\ Cardinality(1..MaxTime) = IF 1 > MaxTime THEN 0 ELSE MaxTime - 1 + 1
  BY <1>1, FS_Interval
<1>3. IsFiniteSet(Time) /\ Cardinality(Time) = MaxTime
  BY <1>1, <1>2 DEF Time
<1>4. IsFiniteSet(s) /\ Cardinality(s) <= MaxTime /\ Cardinality(s) \in Nat
  BY <1>3, FS_Subset, FS_CardinalityType
<1>5. s # {} => Taken(s) \in s
  BY DEF Taken
<1>6. Cardinality(s) = 0 <=> s = {}
  BY <1>4, FS_EmptySet
<1>7. s # {} => Cardinality(s \ {Taken(s)}) = Cardinality(s) - 1
  BY <1>4, <1>5, FS_RemoveElement
<1> QED
  BY <1>1, <1>4, <1>5, <1>6, <1>7

\* Induction over the sets of timestamps, for a set of them.
LEMMA TakingInduction ==
    ASSUME NEW P, {} \in P,
           \A s \in SUBSET Time : s # {} /\ s \ {Taken(s)} \in P => s \in P
    PROVE  \A s \in SUBSET Time : s \in P
<1> SUFFICES ASSUME NEW r \in SUBSET Time, r \notin P PROVE FALSE
  OBVIOUS
<1> DEFINE B == {Cardinality(s) : s \in (SUBSET Time) \ P}
<1>1. PICK n \in B : \A m \in B : n <= m
  <2>1. B # {}
    OBVIOUS
  <2>2. \A s \in SUBSET Time : Cardinality(s) \in Nat
    BY TakenAway
  <2>3. B \in SUBSET Nat
    BY <2>2
  <2> HIDE DEF B
  <2> QED
    BY <2>1, <2>3, LeastNatural
<1>2. PICK s \in (SUBSET Time) \ P : n = Cardinality(s)
  BY <1>1
<1>3. s # {} /\ s \ {Taken(s)} \in (SUBSET Time) \ P
  <2>1. s # {} /\ s \ {Taken(s)} \in SUBSET Time
    <3> HIDE DEF B
    <3>1. s # {}
      BY <1>2
    <3>2. s \ {Taken(s)} \subseteq s /\ s \in SUBSET Time
      BY <1>2, Zenon
    <3> QED
      BY <3>1, <3>2
  <2> QED
    BY <1>2, <2>1
<1>4. Cardinality(s \ {Taken(s)}) \in B
  BY <1>3
<1> HIDE DEF B
<1>5. /\ n \in Nat /\ Cardinality(s \ {Taken(s)}) = n - 1
      /\ n <= Cardinality(s \ {Taken(s)})
  BY <1>1, <1>2, <1>3, <1>4, TakenAway
<1> QED
  BY <1>5

\* The recursive definition has a solution.
LEMMA SumsExist ==
    ASSUME NEW f \in [Time -> Nat]
    PROVE  /\ Sums(f) \in [SUBSET Time -> Nat]
           /\ Sums(f)[{}] = 0
           /\ \A s \in SUBSET Time : s # {} =>
                  Sums(f)[s] = f[Taken(s)] + Sums(f)[s \ {Taken(s)}]
<1> DEFINE Small(n) == {s \in SUBSET Time : Cardinality(s) <= n}
           Solves(n, g) == \A s \in Small(n) :
               g[s] = IF s = {} THEN 0 ELSE f[Taken(s)] + g[s \ {Taken(s)}]
           B == {n \in Nat : ~(\E g \in [Small(n) -> Nat] : Solves(n, g))}
<1>0. \A s \in SUBSET Time : Cardinality(s) \in Nat /\ (Cardinality(s) = 0 <=> s = {})
  BY TakenAway
<1>1. \E g \in [Small(0) -> Nat] : Solves(0, g)
  <2> DEFINE g == [s \in Small(0) |-> 0]
  <2>1. \A s \in Small(0) : s = {}
    BY <1>0
  <2>2. g \in [Small(0) -> Nat] /\ Solves(0, g)
    BY <2>1
  <2> QED
    BY <2>2
<1>2. ASSUME NEW n \in Nat, NEW g \in [Small(n) -> Nat], Solves(n, g)
      PROVE  \E h \in [Small(n + 1) -> Nat] : Solves(n + 1, h)
  <2> DEFINE More(s) == f[Taken(s)] + g[s \ {Taken(s)}]
             h == [s \in Small(n + 1) |-> IF Cardinality(s) <= n THEN g[s] ELSE More(s)]
  <2>1. ASSUME NEW s \in Small(n + 1), s # {}
        PROVE  /\ s \ {Taken(s)} \in Small(n) /\ s \ {Taken(s)} \in Small(n + 1)
               /\ Cardinality(s \ {Taken(s)}) <= n /\ Taken(s) \in Time
    BY <2>1, TakenAway
  <2>2. ASSUME NEW s \in Small(n + 1)
        PROVE  /\ Cardinality(s) <= n => s \in Small(n) /\ g[s] \in Nat
               /\ ~(Cardinality(s) <= n) => s # {} /\ More(s) \in Nat
    <3>1. Cardinality(s) <= n => s \in Small(n)
      OBVIOUS
    <3>2. ~(Cardinality(s) <= n) => s # {}
      BY <1>0
    <3>3. s # {} => f[Taken(s)] \in Nat /\ g[s \ {Taken(s)}] \in Nat
      BY <2>1
    <3> HIDE DEF Small
    <3> QED
      BY <3>1, <3>2, <3>3
  <2>3. h \in [Small(n + 1) -> Nat]
    <3> HIDE DEF Small, More
    <3> QED
      BY <2>2
  <2>4. ASSUME NEW s \in Small(n + 1), s # {}
        PROVE  h[s \ {Taken(s)}] = g[s \ {Taken(s)}]
    <3>1. /\ s \ {Taken(s)} \in Small(n + 1)
          /\ Cardinality(s \ {Taken(s)}) <= n
      BY <2>1, <2>4
    <3> HIDE DEF Small, More
    <3> QED
      BY <3>1
  <2>5. ASSUME NEW s \in Small(n + 1)
        PROVE  h[s] = IF s = {} THEN 0 ELSE f[Taken(s)] + h[s \ {Taken(s)}]
    <3>1. CASE s = {}
      <4>1. Cardinality(s) <= n /\ s \in Small(n)
        BY <1>0, <3>1
      <4>2. g[s] = 0
        BY <1>2, <3>1, <4>1
      <4> HIDE DEF Small, More, Solves
      <4> QED
        BY <3>1, <4>1, <4>2
    <3>2. CASE s # {} /\ Cardinality(s) <= n
      <4>1. s \in Small(n)
        BY <3>2
      <4>2. g[s] = f[Taken(s)] + g[s \ {Taken(s)}]
        BY <1>2, <3>2, <4>1
      <4> HIDE DEF Small, More, Solves
      <4>3. h[s] = g[s]
        BY <3>2
      <4> HIDE DEF h
      <4> QED
        BY <2>4, <3>2, <4>2, <4>3
    <3>3. CASE s # {} /\ ~(Cardinality(s) <= n)
      <4> HIDE DEF Small, Solves
      <4>1. h[s] = f[Taken(s)] + g[s \ {Taken(s)}]
        BY <3>3
      <4> HIDE DEF h
      <4> QED
        BY <2>4, <3>3, <4>1
    <3> QED
      BY <3>1, <3>2, <3>3
  <2> HIDE DEF h, Small
  <2> QED
    BY <2>3, <2>5
<1>3. B = {}
  <2> SUFFICES ASSUME B # {} PROVE FALSE
    OBVIOUS
  <2>1. PICK n \in B : \A m \in B : n <= m
    <3>1. B \in SUBSET Nat
      OBVIOUS
    <3> HIDE DEF B
    <3> QED
      BY <3>1, LeastNatural
  <2> HIDE DEF Solves, Small
  <2>2. n \in Nat \ {0}
    BY <1>1
  <2>3. n - 1 \in Nat /\ ~(n <= n - 1) /\ n - 1 + 1 = n
    BY <2>2
  <2>4. n - 1 \notin B
    BY <2>1, <2>3
  <2>5. PICK g \in [Small(n - 1) -> Nat] : Solves(n - 1, g)
    BY <2>3, <2>4
  <2>6. \E h \in [Small(n - 1 + 1) -> Nat] : Solves(n - 1 + 1, h)
    BY <1>2, <2>3, <2>5
  <2> QED
    BY <2>3, <2>6
<1>4. PICK g \in [Small(MaxTime) -> Nat] : Solves(MaxTime, g)
  <2>1. MaxTime \in Nat
    BY BreakerAssumption
  <2> HIDE DEF Solves, Small
  <2> QED
    BY <1>3, <2>1
<1>5. Small(MaxTime) = SUBSET Time
  BY TakenAway
<1>6. g = [s \in SUBSET Time |-> IF s = {} THEN 0 ELSE f[Taken(s)] + g[s \ {Taken(s)}]]
  <2>1. g = [s \in SUBSET Time |-> g[s]]
    <3> HIDE DEF Small
    <3> QED
      BY <1>5
  <2>2. \A s \in SUBSET Time : g[s] = IF s = {} THEN 0 ELSE f[Taken(s)] + g[s \ {Taken(s)}]
    <3> HIDE DEF Small
    <3> QED
      BY <1>4, <1>5
  <2> QED
    BY <2>1, <2>2
<1> DEFINE c == Sums(f)
<1>7. c = [s \in SUBSET Time |-> IF s = {} THEN 0 ELSE f[Taken(s)] + c[s \ {Taken(s)}]]
  BY <1>6 DEF Sums
<1> HIDE DEF c, Small, Solves, B
<1>8. c[{}] = 0 /\ \A s \in SUBSET Time : s # {} => c[s] = f[Taken(s)] + c[s \ {Taken(s)}]
  BY <1>7
<1> DEFINE P == {s \in SUBSET Time : c[s] \in Nat}
<1>9. \A s \in SUBSET Time : s \in P
  <2>1. {} \in P
    BY <1>8
  <2>2. ASSUME NEW s \in SUBSET Time, s # {}, s \ {Taken(s)} \in P PROVE s \in P
    <3>1. Taken(s) \in Time
      BY <2>2, TakenAway
    <3>2. f[Taken(s)] \in Nat /\ c[s \ {Taken(s)}] \in Nat
      BY <2>2, <3>1
    <3>3. c[s] = f[Taken(s)] + c[s \ {Taken(s)}]
      BY <1>8, <2>2
    <3>4. c[s] \in Nat
      BY <3>2, <3>3
    <3> QED
      BY <3>4
  <2> HIDE DEF P
  <2> QED
    BY <2>1, <2>2, TakingInduction
<1>10. c \in [SUBSET Time -> Nat]
  BY <1>7, <1>9
<1> QED
  BY <1>8, <1>10 DEF c

\* One more of t: one more in all.
LEMMA SumGrows ==
    ASSUME NEW f \in [Time -> Nat], NEW t \in Time
    PROVE  Sums([f EXCEPT ![t] = @ + 1])[Time] = Sums(f)[Time] + 1
<1> DEFINE g == [f EXCEPT ![t] = @ + 1]
           a == Sums(f)
           b == Sums(g)
           P == {s \in SUBSET Time : b[s] = a[s] + IF t \in s THEN 1 ELSE 0}
<1>1. g \in [Time -> Nat] /\ g[t] = f[t] + 1 /\ \A u \in Time \ {t} : g[u] = f[u]
  OBVIOUS
<1> HIDE DEF g
<1>2. /\ a \in [SUBSET Time -> Nat] /\ a[{}] = 0
      /\ \A s \in SUBSET Time : s # {} => a[s] = f[Taken(s)] + a[s \ {Taken(s)}]
  BY SumsExist
<1>3. /\ b \in [SUBSET Time -> Nat] /\ b[{}] = 0
      /\ \A s \in SUBSET Time : s # {} => b[s] = g[Taken(s)] + b[s \ {Taken(s)}]
  BY <1>1, SumsExist
<1> HIDE DEF a, b
<1>4. {} \in P
  BY <1>2, <1>3
<1>5. ASSUME NEW s \in SUBSET Time, s # {}, s \ {Taken(s)} \in P PROVE s \in P
  <2> DEFINE u == Taken(s)
             r == s \ {u}
  <2>1. u \in s /\ u \in Time /\ r \in SUBSET Time
    BY <1>5, TakenAway
  <2>2. a[s] = f[u] + a[r] /\ b[s] = g[u] + b[r]
    BY <1>2, <1>3, <1>5
  <2>3. a[r] \in Nat /\ b[r] \in Nat /\ f[u] \in Nat /\ g[u] \in Nat
    BY <1>1, <1>2, <1>3, <2>1
  <2>4. b[r] = a[r] + IF t \in r THEN 1 ELSE 0
    BY <1>5
  <2> HIDE DEF u
  <2>5. CASE u = t
    <3>1. t \notin r /\ t \in s
      BY <2>1, <2>5
    <3> HIDE DEF r
    <3>2. b[s] = a[s] + 1
      BY <1>1, <2>2, <2>3, <2>4, <2>5, <3>1
    <3> QED
      BY <3>1, <3>2
  <2>6. CASE u # t
    <3>1. t \in r <=> t \in s
      BY <2>1, <2>6
    <3>2. g[u] = f[u]
      BY <1>1, <2>1, <2>6
    <3> HIDE DEF r
    <3>3. b[s] = a[s] + IF t \in s THEN 1 ELSE 0
      BY <2>2, <2>3, <2>4, <3>1, <3>2
    <3> QED
      BY <3>3
  <2> QED
    BY <2>5, <2>6
<1>6. \A s \in SUBSET Time : s \in P
  <2> HIDE DEF P
  <2> QED
    BY <1>4, <1>5, TakingInduction
<1>7. b[Time] = a[Time] + 1
  BY <1>6
<1> QED
  BY <1>7 DEF a, b, g

\* Nothing adds up to nothing.
LEMMA SumOfNothing == Sums([t \in Time |-> 0])[Time] = 0
<1> DEFINE f == [t \in Time |-> 0]
           a == Sums(f)
           P == {s \in SUBSET Time : a[s] = 0}
<1>1. f \in [Time -> Nat] /\ \A t \in Time : f[t] = 0
  OBVIOUS
<1> HIDE DEF f
<1>2. /\ a[{}] = 0
      /\ \A s \in SUBSET Time : s # {} => a[s] = f[Taken(s)] + a[s \ {Taken(s)}]
  BY <1>1, SumsExist
<1> HIDE DEF a
<1>3. {} \in P
  BY <1>2
<1>4. ASSUME NEW s \in SUBSET Time, s # {}, s \ {Taken(s)} \in P PROVE s \in P
  <2>1. f[Taken(s)] = 0
    BY <1>1, <1>4, TakenAway
  <2> QED
    BY <1>2, <1>4, <2>1
<1>5. Time \in P
  <2> HIDE DEF P
  <2> QED
    BY <1>3, <1>4, TakingInduction
<1> QED
  BY <1>5 DEF a, f

\* A record adds one to what was recorded.
LEMMA OneMoreRecorded ==
    ASSUME NEW log \in Log, NEW ok \in BOOLEAN, NEW t \in Time
    PROVE  /\ Recorded(log) \in Nat
           /\ Recorded(AddTo(log, ok, t)) = Recorded(log) + 1
<1> DEFINE new == AddTo(log, ok, t)
           a == Sums(log[TRUE])[Time]
           b == Sums(log[FALSE])[Time]
           c == Sums(new[TRUE])[Time]
           d == Sums(new[FALSE])[Time]
<1>1. log[TRUE] \in [Time -> Nat] /\ log[FALSE] \in [Time -> Nat]
  BY DEF Log
<1>2. a \in Nat /\ b \in Nat
  <2>1. Time \in SUBSET Time
    OBVIOUS
  <2> QED
    BY <1>1, <2>1, SumsExist
<1>3. new[ok] = [log[ok] EXCEPT ![t] = @ + 1]
  BY DEF AddTo, Log
<1>4. Sums(new[ok])[Time] = Sums(log[ok])[Time] + 1
  <2>1. log[ok] \in [Time -> Nat]
    BY <1>1
  <2> QED
    BY <1>3, <2>1, SumGrows
<1>5. ok = TRUE => new[FALSE] = log[FALSE]
  BY DEF AddTo, Log
<1>6. ok = FALSE => new[TRUE] = log[TRUE]
  BY DEF AddTo, Log
<1>7. Recorded(log) = a + b
  BY RecordedIs
<1>8. Recorded(new) = c + d
  BY RecordedIs
<1> HIDE DEF new
<1>9. ASSUME ok = TRUE PROVE Recorded(new) = Recorded(log) + 1
  <2>1. c = a + 1 /\ d = b
    BY <1>4, <1>5, <1>9
  <2> HIDE DEF a, b, c, d
  <2> QED
    BY <1>2, <1>7, <1>8, <2>1
<1>10. ASSUME ok = FALSE PROVE Recorded(new) = Recorded(log) + 1
  <2>1. d = b + 1 /\ c = a
    BY <1>4, <1>6, <1>10
  <2> HIDE DEF a, b, c, d
  <2> QED
    BY <1>2, <1>7, <1>8, <2>1
<1>11. Recorded(log) \in Nat
  <2> HIDE DEF a, b, c, d
  <2> QED
    BY <1>2, <1>7
<1> QED
  BY <1>9, <1>10, <1>11 DEF new

\* The empty log has no entries.
LEMMA NothingRecorded == Recorded(EmptyLog) = 0
<1>1. EmptyLog[TRUE] = [t \in Time |-> 0] /\ EmptyLog[FALSE] = [t \in Time |-> 0]
  BY DEF EmptyLog
<1>2. Sums(EmptyLog[TRUE])[Time] = 0 /\ Sums(EmptyLog[FALSE])[Time] = 0
  BY <1>1, SumOfNothing, Zenon
<1>3. Recorded(EmptyLog) = Sums(EmptyLog[TRUE])[Time] + Sums(EmptyLog[FALSE])[Time]
  BY RecordedIs
<1> QED
  BY <1>2, <1>3

-----------------------------------------------------------------------------
(* The log follows the history: it lacks only what has left the window.    *)

LogFollows ==
    /\ breaker.totalCount = Recorded(since)
    /\ \A ok \in BOOLEAN, t \in Time :
           InWindow(t, now) => breaker.requestLog[ok][t] = since[ok][t]

\* What a record leaves in the log and in totalCount, and when a closed
\* breaker opens at one.
LEMMA RecordLogs ==
    ASSUME NEW b \in Breakers, NEW ok \in BOOLEAN, NEW t \in Time
    PROVE  LET r == Record(b, ok, t)
               l == Logged(b, ok, t)
           IN  /\ b.state # "closed" /\ r.state = "closed" =>
                     r.totalCount = 0 /\ r.requestLog = EmptyLog
               /\ ~(b.state # "closed" /\ r.state = "closed") =>
                     r.totalCount = l.totalCount /\ r.requestLog = l.requestLog
               /\ b.state = "closed" => (r.state = "open" <=> Trips(l))
<1> DEFINE l == Logged(b, ok, t)
           r == Record(b, ok, t)
<1>1. l \in Breakers /\ l.state = b.state
  BY LoggedFacts
<1>2. r = CASE l.state = "half-open" /\ ok /\ PassedEnough(l) ->
                  TransitionTo(l, "closed", t)
            [] l.state = "half-open" /\ ok /\ ~PassedEnough(l) ->
                  [l EXCEPT !.halfOpenPassCount = @ + 1]
            [] l.state = "half-open" /\ ~ok -> TransitionTo(l, "open", t)
            [] l.state = "closed" /\ Trips(l) -> TransitionTo(l, "open", t)
            [] OTHER -> l
  BY DEF Record
<1>3. LET o == TransitionTo(l, "open", t)
          c == TransitionTo(l, "closed", t)
      IN  /\ o.state = "open" /\ o.totalCount = l.totalCount /\ o.requestLog = l.requestLog
          /\ c.state = "closed" /\ c.totalCount = 0 /\ c.requestLog = EmptyLog
  BY <1>1 DEF TransitionTo, Breakers
<1>4. LET p == [l EXCEPT !.halfOpenPassCount = @ + 1]
      IN  p.state = l.state /\ p.totalCount = l.totalCount /\ p.requestLog = l.requestLog
  BY <1>1 DEF Breakers
<1> HIDE DEF l, r
<1>5. CASE l.state = "half-open" /\ ok /\ PassedEnough(l)
  BY <1>1, <1>2, <1>3, <1>5 DEF l, r
<1>6. CASE l.state = "half-open" /\ ok /\ ~PassedEnough(l)
  BY <1>1, <1>2, <1>4, <1>6 DEF l, r
<1>7. CASE l.state = "half-open" /\ ~ok
  BY <1>1, <1>2, <1>3, <1>7 DEF l, r
<1>8. CASE l.state = "closed" /\ Trips(l)
  BY <1>1, <1>2, <1>3, <1>8 DEF l, r
<1>9. CASE l.state # "half-open" /\ ~(l.state = "closed" /\ Trips(l))
  BY <1>1, <1>2, <1>9 DEF l, r
<1> QED
  BY <1>5, <1>6, <1>7, <1>8, <1>9

\* After a record the log holds the history's window.
LEMMA LoggedIsWindow ==
    ASSUME TypeOK, LogFollows, NEW ok \in BOOLEAN
    PROVE  /\ Logged(breaker, ok, now).requestLog = WindowOf(AddTo(since, ok, now), now)
           /\ Logged(breaker, ok, now).totalCount = Recorded(AddTo(since, ok, now))
<1> DEFINE log == breaker.requestLog
           a == AddTo(log, ok, now)
           h == AddTo(since, ok, now)
<1>1. breaker \in Breakers /\ log \in Log /\ since \in Log /\ now \in Time
  BY DEF TypeOK, Breakers
<1>2. ASSUME NEW o \in BOOLEAN, NEW u \in Time, InWindow(u, now) PROVE a[o][u] = h[o][u]
  <2>1. log[o][u] = since[o][u]
    BY <1>2 DEF LogFollows
  <2> QED
    BY <1>1, <2>1 DEF AddTo, Log
<1>3. Logged(breaker, ok, now).requestLog
          = [o \in BOOLEAN |-> [u \in Time |-> IF InWindow(u, now) THEN a[o][u] ELSE 0]]
  BY <1>1 DEF Logged, Breakers
<1> HIDE DEF a, h
<1>4. [o \in BOOLEAN |-> [u \in Time |-> IF InWindow(u, now) THEN a[o][u] ELSE 0]]
          = WindowOf(h, now)
  BY <1>2 DEF WindowOf
<1>5. Logged(breaker, ok, now).totalCount = breaker.totalCount + 1
  BY <1>1 DEF Logged, Breakers
<1>6. Recorded(h) = Recorded(since) + 1
  BY <1>1, OneMoreRecorded DEF h
<1> QED
  BY <1>3, <1>4, <1>5, <1>6 DEF LogFollows, h

\* A step that records nothing leaves the log and the history as they are,
\* or empties both.
LEMMA LogFollowsStep ==
    ASSUME IndInv, LogFollows, [Next]_vars
    PROVE  LogFollows'
<1>1. TypeOK /\ breaker \in Breakers /\ now \in Time /\ since \in Log
  BY DEF IndInv, TypeOK
<1>2. ASSUME NEW ok \in BOOLEAN, RecordResult(ok) PROVE LogFollows'
  <2> DEFINE l == Logged(breaker, ok, now)
             h == AddTo(since, ok, now)
  <2>1. /\ breaker' = Record(breaker, ok, now) /\ now' = now
        /\ since' = IF breaker'.state = "closed" /\ breaker.state # "closed"
                    THEN EmptyLog ELSE h
    BY <1>2 DEF RecordResult
  <2>2. l.requestLog = WindowOf(h, now) /\ l.totalCount = Recorded(h)
    BY <1>1, LoggedIsWindow
  <2>3. /\ breaker.state # "closed" /\ breaker'.state = "closed" =>
              breaker'.totalCount = 0 /\ breaker'.requestLog = EmptyLog
        /\ ~(breaker.state # "closed" /\ breaker'.state = "closed") =>
              breaker'.totalCount = l.totalCount /\ breaker'.requestLog = l.requestLog
    BY <1>1, <2>1, RecordLogs
  <2> HIDE DEF l, h
  <2>4. CASE breaker.state # "closed" /\ breaker'.state = "closed"
    <3>1. breaker'.totalCount = 0 /\ breaker'.requestLog = EmptyLog /\ since' = EmptyLog
      BY <2>1, <2>3, <2>4
    <3> QED
      BY <2>1, <3>1, NothingRecorded DEF LogFollows
  <2>5. CASE ~(breaker.state # "closed" /\ breaker'.state = "closed")
    <3>1. breaker'.totalCount = Recorded(h) /\ breaker'.requestLog = WindowOf(h, now)
          /\ since' = h
      BY <2>1, <2>2, <2>3, <2>5
    <3>2. \A o \in BOOLEAN, u \in Time :
              InWindow(u, now) => WindowOf(h, now)[o][u] = h[o][u]
      BY DEF WindowOf
    <3> QED
      BY <2>1, <3>1, <3>2 DEF LogFollows
  <2> QED
    BY <2>4, <2>5
<1>3. ASSUME breaker'.totalCount = breaker.totalCount,
             breaker'.requestLog = breaker.requestLog,
             now' = now, since' = since
      PROVE  LogFollows'
  BY <1>3 DEF LogFollows
<1>4. ASSUME NEW c \in Calls, Admit(c) \/ Throw(c) PROVE LogFollows'
  <2>1. breaker' = AllowRequest(breaker, now) /\ now' = now /\ since' = since
    BY <1>4 DEF Admit, Throw
  <2>2. LET w == Woken(breaker, now)
        IN w \in Breakers /\ w.totalCount = breaker.totalCount
           /\ w.requestLog = breaker.requestLog
    BY <1>1, TransitionType DEF Woken, TransitionTo, Breakers, States
  <2>3. breaker'.totalCount = breaker.totalCount /\ breaker'.requestLog = breaker.requestLog
    BY <2>1, <2>2 DEF AllowRequest, Breakers
  <2> QED
    BY <1>3, <2>1, <2>3
<1>5. ASSUME NEW c \in Calls, Finish(c) PROVE LogFollows'
  BY <1>3, <1>5 DEF Finish
<1>6. CASE ManualReset
  <2>1. breaker'.totalCount = 0 /\ breaker'.requestLog = EmptyLog /\ since' = EmptyLog
    BY <1>1, <1>6 DEF ManualReset, Reset, TransitionTo, Breakers
  <2> QED
    BY <2>1, NothingRecorded DEF LogFollows
<1>7. CASE Tick
  <2>1. now' = now + 1 /\ breaker' = breaker /\ since' = since
    BY <1>7 DEF Tick
  <2>2. \A t \in Time : InWindow(t, now') => InWindow(t, now)
    BY <1>1, <2>1, BreakerAssumption DEF InWindow, Time
  <2> QED
    BY <2>1, <2>2 DEF LogFollows
<1>8. CASE UNCHANGED vars
  BY <1>3, <1>8 DEF vars
<1> QED
  BY <1>2, <1>4, <1>5, <1>6, <1>7, <1>8 DEF Next, Respond, Fail

\* The log follows the history throughout.
LEMMA LogAlwaysFollows == Spec => []LogFollows
<1>1. Init => LogFollows
  BY NothingRecorded DEF Init, NewBreaker, LogFollows
<1> QED
  BY <1>1, LogFollowsStep, Inductive, PTL DEF Spec

\* record() pruned entry by entry decides as the whole history would: a
\* closed circuit opens at a record if and only if MinRequests results were
\* recorded since it last closed and the failures of the window reach the
\* threshold.
THEOREM TripsExactlyOnErrorRateHolds == Spec => TripsExactlyOnErrorRate
<1> DEFINE Exact == breaker.state = "closed" /\ since' # since /\ since' # EmptyLog
                      => (breaker'.state = "open" <=>
                             /\ Recorded(since') >= MinRequests
                             /\ ErrorRateExceeded(WindowOf(since', now)))
<1>1. IndInv /\ LogFollows /\ [Next]_vars => [Exact]_vars
  <2> SUFFICES ASSUME IndInv, LogFollows, Next, breaker.state = "closed",
                      since' # since, since' # EmptyLog
               PROVE  breaker'.state = "open" <=>
                          /\ Recorded(since') >= MinRequests
                          /\ ErrorRateExceeded(WindowOf(since', now))
    OBVIOUS
  <2>1. PICK ok \in BOOLEAN : RecordResult(ok)
    BY DEF Next, Respond, Fail, Admit, Throw, Finish, ManualReset, Tick
  <2>2. TypeOK /\ breaker \in Breakers /\ now \in Time
    BY DEF IndInv, TypeOK
  <2> DEFINE l == Logged(breaker, ok, now)
             h == AddTo(since, ok, now)
  <2>3. breaker' = Record(breaker, ok, now) /\ since' = h
    BY <2>1 DEF RecordResult
  <2>4. breaker'.state = "open" <=> Trips(l)
    BY <2>2, <2>3, RecordLogs
  <2>5. l.requestLog = WindowOf(h, now) /\ l.totalCount = Recorded(h)
    BY <2>2, LoggedIsWindow
  <2> HIDE DEF l, h
  <2>6. Trips(l) <=> Recorded(h) >= MinRequests /\ ErrorRateExceeded(WindowOf(h, now))
    BY <2>5 DEF Trips
  <2> QED
    BY <2>3, <2>4, <2>6
<1> QED
  BY <1>1, LogAlwaysFollows, Inductive, PTL DEF Spec, TripsExactlyOnErrorRate

-----------------------------------------------------------------------------
(* The README's state diagram.                                             *)

\* An admission is the contract's Wake or Probe, or no step of it.
LEMMA AdmissionRefines ==
    ASSUME IndInv, Allows(breaker, now),
           breaker' = AllowRequest(breaker, now), now' = now
    PROVE  [Contract!Next]_Contract!vars
<1>1. breaker \in Breakers /\ now \in Time /\ breaker.state \in States
  BY DEF IndInv, TypeOK, Breakers
<1>2. CASE breaker.state = "closed"
  BY <1>1, <1>2, AllowFacts DEF Contract!vars
<1>3. CASE breaker.state = "open"
  <2>1. Contract!Wake
    BY <1>1, <1>3, AllowFacts
       DEF Contract!Wake, IndInv, CountersAtRest, HalfOpen
  <2> QED
    BY <2>1 DEF Contract!Next
<1>4. CASE breaker.state = "half-open"
  <2>1. Contract!Probe
    BY <1>1, <1>4, AllowFacts DEF Contract!Probe
  <2> QED
    BY <2>1 DEF Contract!Next
<1> QED
  BY <1>1, <1>2, <1>3, <1>4 DEF States

\* A record is the contract's Trip, Pass, Close or Reopen, or no step of it.
LEMMA RecordingRefines ==
    ASSUME IndInv, NEW ok \in BOOLEAN, RecordResult(ok)
    PROVE  [Contract!Next]_Contract!vars
<1> DEFINE b == breaker
           r == breaker'
<1>1. b \in Breakers /\ now \in Time /\ b.state \in States
  BY DEF IndInv, TypeOK, Breakers
<1>2. r = Record(b, ok, now) /\ now' = now
  BY DEF RecordResult
<1>3. r \in Breakers /\ r.state \in States
  BY <1>1, <1>2, RecordFacts DEF Breakers
<1>4. CASE r.state = "half-open"
  <2>1. Contract!Pass
    BY <1>1, <1>2, <1>4, RecordFacts DEF Contract!Pass
  <2> QED
    BY <2>1 DEF Contract!Next
<1>5. CASE r.state # "half-open" /\ r.state = b.state
  BY <1>1, <1>2, <1>5, RecordFacts DEF Contract!vars
<1>6. CASE r.state = "open" /\ b.state = "closed"
  <2>1. b.halfOpenPassCount = 0 /\ b.halfOpenRequestCount = 0
    BY <1>6 DEF IndInv, CountersAtRest, HalfOpen
  <2>2. Contract!Trip
    BY <1>1, <1>2, <1>6, <2>1, RecordFacts DEF Contract!Trip
  <2> QED
    BY <2>2 DEF Contract!Next
<1>7. CASE r.state = "open" /\ b.state = "half-open"
  <2>1. Contract!Reopen
    BY <1>1, <1>2, <1>7, RecordFacts DEF Contract!Reopen
  <2> QED
    BY <2>1 DEF Contract!Next
<1>8. CASE r.state = "closed" /\ b.state # "closed"
  <2>1. /\ b.state = "half-open"
        /\ PassedEnough(b)
        /\ r.openedAt = Never
        /\ r.halfOpenPassCount = 0
        /\ r.halfOpenRequestCount = 0
    BY <1>1, <1>2, <1>8, RecordFacts
  <2>2. b.halfOpenPassCount + 1 = HalfOpenMaxRequests
    BY <1>1, <2>1, BreakerAssumption
       DEF PassedEnough, IndInv, TypeOK, Breakers
  <2>3. Contract!Close
    BY <1>2, <1>8, <2>1, <2>2 DEF Contract!Close, Contract!Closed, Never
  <2> QED
    BY <2>3 DEF Contract!Next
<1> QED
  BY <1>1, <1>3, <1>4, <1>5, <1>6, <1>7, <1>8 DEF States

\* The class CircuitBreaker, with all the calls of a route interleaving in
\* it, implements the state diagram of the README.
THEOREM Refinement == Spec => ImplementsContract
<1>1. Init => Contract!Init
  BY DEF Init, Contract!Init, NewBreaker, Never
<1>2. IndInv /\ [Next]_vars => [Contract!Next]_Contract!vars
  <2> SUFFICES ASSUME IndInv, [Next]_vars
               PROVE  [Contract!Next]_Contract!vars
    OBVIOUS
  <2>1. ASSUME NEW c \in Calls, Admit(c) \/ Throw(c)
        PROVE  [Contract!Next]_Contract!vars
    BY <2>1, AdmissionRefines DEF Admit, Throw
  <2>2. ASSUME NEW c \in Calls, NEW ok \in BOOLEAN, Respond(c, ok)
        PROVE  [Contract!Next]_Contract!vars
    BY <2>2, RecordingRefines DEF Respond
  <2>3. ASSUME NEW c \in Calls, Fail(c)
        PROVE  [Contract!Next]_Contract!vars
    BY <2>3, RecordingRefines DEF Fail
  <2>4. ASSUME NEW c \in Calls, Finish(c)
        PROVE  [Contract!Next]_Contract!vars
    BY <2>4 DEF Finish, Contract!vars
  <2>5. CASE ManualReset
    <3>1. breaker \in Breakers /\ now \in Time
      BY DEF IndInv, TypeOK
    <3>2. Contract!ManualClose
      BY <2>5, <3>1, TransitionFields
         DEF ManualReset, Reset, States, Never, Contract!ManualClose,
             Contract!Closed
    <3> QED
      BY <3>2 DEF Contract!Next
  <2>6. CASE Tick
    <3>1. Contract!Pause
      BY <2>6 DEF Tick, Contract!Pause
    <3> QED
      BY <3>1 DEF Contract!Next
  <2>7. CASE UNCHANGED vars
    BY <2>7 DEF vars, Contract!vars
  <2> QED
    BY <2>1, <2>2, <2>3, <2>4, <2>5, <2>6, <2>7 DEF Next
<1> QED
  BY <1>1, <1>2, Inductive, PTL DEF Spec, ImplementsContract, Contract!Spec
=============================================================================
