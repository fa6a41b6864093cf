----------------------- MODULE SlidingWindowLogProofs -----------------------
(***************************************************************************)
(* The sliding-window log for any number of requests, any window and any   *)
(* rules, checked by TLAPS.  The set of scores forgets: every call prunes  *)
(* it by its own clock and Redis drops it with the key.  With one gateway, *)
(* and calls that take no longer than the second by which the TTL exceeds  *)
(* the window, it never forgets what a call that may still come counts.    *)
(***************************************************************************)
EXTENDS SlidingWindowLog, FiniteSetTheorems, WellFoundedInduction, TLAPS

OneGateway == \A g, h \in Gateways : g = h
PromptCalls == MaxDelay <= Second
OneRule == \A c, d \in Capacities : c = d

Done == {q \in Reqs : status[q] \in {"admitted", "rejected"}}

\* Nothing is dated ahead, and no call in flight is older than MaxDelay.
Dated ==
    \A r \in Reqs : status[r] # "new" =>
        /\ stamp[r] \in Time
        /\ stamp[r] <= now
        /\ status[r] = "sent" => now <= stamp[r] + MaxDelay

\* Calls run in the order of their timestamps.
Ordered ==
    \A q \in Done, r \in Reqs : status[r] = "sent" => stamp[q] <= stamp[r]

\* A call that is still to run may carry the timestamp t.
MayCome(t) ==
    /\ now <= t + MaxDelay
    /\ \A q \in Done : stamp[q] <= t

\* Such a call finds in the log exactly the window of its own timestamp.
Remembered ==
    \A t \in Time : MayCome(t) => Pruned(log, t) = AdmittedStamps(t)

\* The key lives for its TTL from the newest score on.
KeyLives ==
    expireAt # Never => \A s \in log : s + Ttl(WindowMs) <= expireAt

\* What holds however many gateways there are, and what needs one.
Typed == TypeOK /\ Dated

IndInv ==
    /\ Typed
    /\ Ordered
    /\ Remembered
    /\ KeyLives
    /\ StampsWithinLimit

-----------------------------------------------------------------------------
(* Arithmetic.                                                             *)

\* Rounding up reaches what was divided.
LEMMA CeilCovers ==
    ASSUME NEW n \in Nat, NEW d \in Nat \ {0}
    PROVE  Ceil(n, d) \in Nat /\ d * Ceil(n, d) \in Nat /\ d * Ceil(n, d) >= n
<1>1. ASSUME NEW k \in Nat
      PROVE  k \div d \in Nat /\ k = d * (k \div d) + (k % d) /\ k % d < d
  OBVIOUS
<1> DEFINE m == n + d - 1
<1>2. m \in Nat
  OBVIOUS
<1>3. m \div d \in Nat /\ m = d * (m \div d) + (m % d) /\ m % d < d
  BY <1>1, <1>2
<1>4. m % d \in Nat /\ d * (m \div d) \in Nat
  BY <1>2, <1>3
<1>5. d * (m \div d) >= n
  BY <1>3, <1>4
<1>6. Ceil(n, d) = m \div d
  BY DEF Ceil
<1> HIDE DEF m
<1> QED
  BY <1>3, <1>4, <1>5, <1>6

\* The TTL exceeds the window by a second.
LEMMA TtlType == Ttl(WindowMs) \in Nat /\ Ttl(WindowMs) >= WindowMs + Second
<1> DEFINE c == Ceil(WindowMs, Second)
<1>1. c \in Nat /\ Second * c \in Nat /\ Second * c >= WindowMs
  BY CeilCovers, WindowAssumption
<1>2. Ttl(WindowMs) = (c + 1) * Second
  BY DEF Ttl
<1> HIDE DEF c
<1>3. (c + 1) * Second = Second * c + Second
  BY <1>1, WindowAssumption
<1> QED
  BY <1>1, <1>2, <1>3, WindowAssumption

\* A nonempty set of natural numbers has a least element.
LEMMA LeastNatural ==
    ASSUME NEW S \in SUBSET Nat, S # {}
    PROVE  \E s \in S : \A u \in S : s <= u
<1>1. S \subseteq Nat
  OBVIOUS
<1>2. PICK s \in S : \A u \in S : ~(<<u, s>> \in OpToRel(<, Nat))
  BY <1>1, NatLessThanWellFounded, WFMin, Zenon
<1>3. \A u \in S : ~(u < s)
  BY <1>1, <1>2, Zenon DEF OpToRel
<1> QED
  BY <1>1, <1>3

\* The oldest score is in the set and not above any other.
LEMMA OldestIsLeast ==
    ASSUME NEW S \in SUBSET Time, S # {}
    PROVE  Oldest(S) \in S /\ \A u \in S : Oldest(S) <= u
<1>1. \E s \in S : \A u \in S : s <= u
  BY LeastNatural DEF Time
<1> QED
  BY <1>1 DEF Oldest

\* A wait is at least a millisecond long, unless the client's clock is wrong.
LEMMA WaitType ==
    ASSUME NEW S \in SUBSET Time, NEW t \in Time, NEW c \in Nat,
           \A s \in S : s > t - WindowMs
    PROVE  RetryAfterMs(S, c, t) \in Nat
<1>1. t \in Nat /\ WindowMs \in Nat /\ S \subseteq Nat
  BY WindowAssumption DEF Time
<1>2. CASE S # {}
  <2> DEFINE o == Oldest(S)
  <2>1. o \in S
    BY <1>2, OldestIsLeast
  <2>2. o \in Nat /\ o > t - WindowMs
    BY <1>1, <2>1
  <2>3. RetryAfterMs(S, c, t) \in {o + WindowMs - t, WindowMs}
    BY DEF RetryAfterMs
  <2> HIDE DEF o
  <2>4. o + WindowMs - t \in Nat
    BY <1>1, <2>2
  <2> QED
    BY <1>1, <2>3, <2>4
<1> QED
  BY <1>1, <1>2 DEF RetryAfterMs

-----------------------------------------------------------------------------
(* What a prune keeps and what a window counts.                            *)

\* Sets of timestamps are finite.
LEMMA TimeSets ==
    ASSUME NEW S \in SUBSET Time
    PROVE  IsFiniteSet(S) /\ Cardinality(S) \in Nat
<1>1. IsFiniteSet(Time)
  BY FS_Interval, WindowAssumption DEF Time
<1> QED
  BY <1>1, FS_Subset, FS_CardinalityType

\* A subset of timestamps has no more of them.
LEMMA SmallerSets ==
    ASSUME NEW S \in SUBSET Time, NEW T \in SUBSET S
    PROVE  Cardinality(T) <= Cardinality(S) /\ Cardinality(T) \in Nat
BY TimeSets, FS_Subset, FS_CardinalityType

\* With room for the cost there is room for one more timestamp.
LEMMA RoomForOne ==
    ASSUME NEW S \in SUBSET Time, NEW t \in Time, NEW c \in Capacities, Fits(S, c)
    PROVE  Cardinality(S \cup {t}) <= c
BY TimeSets, FS_AddElement, WindowAssumption DEF Fits

\* The window of a timestamp holds timestamps.
LEMMA WindowSets ==
    ASSUME NEW t
    PROVE  AdmittedStamps(t) \in SUBSET Time
BY DEF AdmittedStamps, Window

\* What counts does not change while the admitted and their stamps do not.
LEMMA SameStamps ==
    ASSUME Admitted' = Admitted, \A r \in Admitted : stamp'[r] = stamp[r]
    PROVE  \A t : AdmittedStamps(t)' = AdmittedStamps(t)
BY DEF AdmittedStamps

-----------------------------------------------------------------------------
(* Types, one lemma per action.                                            *)

\* A prune keeps scores of the window only.
LEMMA PrunedFacts ==
    ASSUME NEW S, NEW t
    PROVE  Pruned(S, t) \in SUBSET S /\ \A s \in Pruned(S, t) : s > t - WindowMs
BY DEF Pruned

\* An empty log is within any capacity.
LEMMA EmptyFits == \E c \in Capacities : Cardinality({}) <= c
<1>1. Cardinality({}) = 0
  BY FS_EmptySet
<1>2. PICK c \in Capacities : c \in Nat
  BY WindowAssumption
<1> QED
  BY <1>1, <1>2

\* The types hold at first.
LEMMA InitTyped == Init => Typed
<1> SUFFICES ASSUME Init
             PROVE  Typed
  OBVIOUS
<1>1. 1 \in Time
  BY WindowAssumption DEF Time
<1>2. now \in Time /\ log \subseteq Time /\ expireAt \in Nat
      /\ \E c \in Capacities : Cardinality(log) <= c
  BY <1>1, EmptyFits DEF Init, Never
<1>3. TypeOK
  BY <1>2 DEF Init, TypeOK, Never
<1>4. Dated
  BY DEF Init, Dated
<1> QED
  BY <1>3, <1>4 DEF Typed

\* A gateway reads its clock.
LEMMA SendTyped ==
    ASSUME Typed, NEW r \in Reqs, Send(r)
    PROVE  Typed'
<1>1. TypeOK /\ Dated /\ now \in Nat
  BY DEF Typed, TypeOK, Time
<1>2. TypeOK'
  BY <1>1 DEF Send, TypeOK
<1>3. Dated'
  BY <1>1, WindowAssumption DEF Send, TypeOK, Dated
<1> QED
  BY <1>2, <1>3 DEF Typed

\* The script's clock, what it keeps, and where that leaves the request.
LEMMA RunFacts ==
    ASSUME Typed, NEW r \in Reqs, Run(r)
    PROVE  LET kept == Pruned(log, stamp[r])
           IN  /\ status[r] = "sent" /\ stamp[r] \in Time /\ stamp[r] <= now
               /\ now <= stamp[r] + MaxDelay
               /\ kept \in SUBSET log /\ kept \in SUBSET Time
               /\ \A s \in kept : s > stamp[r] - WindowMs
               /\ cap[r] \in Capacities /\ cap[r] \in Nat
               /\ status'[r] \in {"admitted", "rejected"}
               /\ \A q \in Reqs \ {r} : status'[q] = status[q]
               /\ UNCHANGED <<now, stamp, gw, cap>>
               /\ status'[r] = "admitted" =>
                     /\ Fits(kept, cap[r])
                     /\ log' = kept \cup {stamp[r]}
                     /\ expireAt' = now + Ttl(WindowMs)
               /\ status'[r] = "rejected" =>
                     /\ ~Fits(kept, cap[r])
                     /\ log' = kept
                     /\ expireAt' \in {Never, expireAt}
<1>1. TypeOK /\ Dated
  BY DEF Typed
<1>2. status[r] = "sent" /\ UNCHANGED <<now, stamp, gw, cap>>
  BY DEF Run, HeadOfLine
<1>3. stamp[r] \in Time /\ stamp[r] <= now /\ now <= stamp[r] + MaxDelay
  BY <1>1, <1>2 DEF Dated
<1> DEFINE kept == Pruned(log, stamp[r])
<1>4. /\ kept \in SUBSET log /\ kept \in SUBSET Time
      /\ \A s \in kept : s > stamp[r] - WindowMs
  BY <1>1, PrunedFacts DEF TypeOK
<1>5. cap[r] \in Capacities /\ cap[r] \in Nat
  BY <1>1, WindowAssumption DEF TypeOK
<1>6. \/ /\ Fits(kept, cap[r])
         /\ log' = kept \cup {stamp[r]}
         /\ expireAt' = now + Ttl(WindowMs)
         /\ status' = [status EXCEPT ![r] = "admitted"]
      \/ /\ ~Fits(kept, cap[r])
         /\ log' = kept
         /\ status' = [status EXCEPT ![r] = "rejected"]
         /\ expireAt' \in {Never, expireAt}
  BY DEF Run
<1> HIDE DEF kept
<1>7. /\ status'[r] \in {"admitted", "rejected"}
      /\ \A q \in Reqs \ {r} : status'[q] = status[q]
      /\ status'[r] = "admitted" =>
            /\ Fits(kept, cap[r])
            /\ log' = kept \cup {stamp[r]}
            /\ expireAt' = now + Ttl(WindowMs)
      /\ status'[r] = "rejected" =>
            /\ ~Fits(kept, cap[r])
            /\ log' = kept
            /\ expireAt' \in {Never, expireAt}
  BY <1>1, <1>6 DEF TypeOK
<1> QED
  BY <1>2, <1>3, <1>4, <1>5, <1>7 DEF kept

\* The script leaves scores and answers of their types.
LEMMA RunTyped ==
    ASSUME Typed, NEW r \in Reqs, Run(r)
    PROVE  Typed'
<1> DEFINE kept == Pruned(log, stamp[r])
<1>1. TypeOK /\ Dated
  BY DEF Typed
<1>2. /\ status[r] = "sent" /\ stamp[r] \in Time
      /\ kept \in SUBSET log /\ kept \in SUBSET Time
      /\ \A s \in kept : s > stamp[r] - WindowMs
      /\ cap[r] \in Capacities /\ cap[r] \in Nat
      /\ status'[r] \in {"admitted", "rejected"}
      /\ \A q \in Reqs \ {r} : status'[q] = status[q]
      /\ UNCHANGED <<now, stamp, gw, cap>>
      /\ status'[r] = "admitted" =>
            /\ Fits(kept, cap[r])
            /\ log' = kept \cup {stamp[r]}
            /\ expireAt' = now + Ttl(WindowMs)
      /\ status'[r] = "rejected" => log' = kept /\ expireAt' \in {Never, expireAt}
  BY RunFacts
<1>3. log' \subseteq Time /\ \E c \in Capacities : Cardinality(log') <= c
  <2>1. CASE status'[r] = "admitted"
    BY <1>2, <2>1, RoomForOne
  <2>2. CASE status'[r] = "rejected"
    <3>1. PICK c \in Capacities : Cardinality(log) <= c
      BY <1>1 DEF TypeOK
    <3>2. Cardinality(kept) <= Cardinality(log) /\ Cardinality(kept) \in Nat
          /\ Cardinality(log) \in Nat
      BY <1>1, <1>2, SmallerSets, TimeSets DEF TypeOK
    <3> QED
      BY <1>2, <2>2, <3>1, <3>2, WindowAssumption
  <2> QED
    BY <1>2, <2>1, <2>2
<1>4. expireAt' \in Nat
  BY <1>1, <1>2, TtlType DEF TypeOK, Time, Never
<1>5. status' \in [Reqs -> {"new", "sent", "admitted", "rejected"}]
  BY <1>1 DEF TypeOK, Run
<1>6. told' \in [Reqs -> Nat]
  <2> DEFINE wait == RetryAfterMs(kept, cap[r], stamp[r])
  <2>1. wait \in Nat
    BY <1>2, WaitType
  <2>2. \/ told' = told
        \/ told' = [told EXCEPT ![r] = stamp[r] + Second * Ceil(wait, Second)]
    BY DEF Run
  <2> HIDE DEF wait
  <2>3. Second * Ceil(wait, Second) \in Nat
    BY <2>1, CeilCovers, WindowAssumption
  <2>4. stamp[r] + Second * Ceil(wait, Second) \in Nat
    BY <1>2, <2>3 DEF Time
  <2> QED
    BY <1>1, <2>2, <2>4 DEF TypeOK
<1>7. TypeOK'
  BY <1>1, <1>2, <1>3, <1>4, <1>5, <1>6 DEF TypeOK
<1>8. Dated'
  BY <1>1, <1>2 DEF Dated
<1> QED
  BY <1>7, <1>8 DEF Typed

\* Redis drops the key.
LEMMA ExpireTyped ==
    ASSUME Typed, Expire
    PROVE  Typed'
<1>1. TypeOK /\ Dated
  BY DEF Typed
<1>2. log' = {} /\ expireAt' = Never /\ UNCHANGED <<now, status, stamp, gw, cap, told>>
  BY DEF Expire
<1>3. \E c \in Capacities : Cardinality(log') <= c
  BY <1>2, EmptyFits
<1>4. TypeOK'
  BY <1>1, <1>2, <1>3 DEF TypeOK, Never
<1>5. Dated'
  BY <1>1, <1>2 DEF Dated
<1> QED
  BY <1>4, <1>5 DEF Typed

\* The clock goes on while no call gets too old.
LEMMA TickTyped ==
    ASSUME Typed, Tick
    PROVE  Typed'
<1>1. TypeOK /\ Dated /\ now \in Nat /\ now' = now + 1
  BY DEF Typed, TypeOK, Tick, Time
<1>2. TypeOK'
  BY <1>1, WindowAssumption DEF Tick, TypeOK, Time
<1>3. Dated'
  BY <1>1, WindowAssumption DEF Tick, Dated, Time
<1> QED
  BY <1>2, <1>3 DEF Typed

\* Every step keeps the types.
LEMMA NextTyped == Typed /\ [Next]_vars => Typed'
<1> SUFFICES ASSUME Typed, [Next]_vars
             PROVE  Typed'
  OBVIOUS
<1>1. CASE UNCHANGED vars
  BY <1>1 DEF vars, Typed, TypeOK, Dated
<1> QED
  BY <1>1, SendTyped, RunTyped, ExpireTyped, TickTyped DEF Next

\* The clock, the scores, the TTL and the answers keep their types, and the
\* set of scores is never larger than a rule's capacity, however many gateways
\* there are and however late their calls run.
THEOREM TypeCorrect == Spec => []TypeOK
<1>1. Typed => TypeOK
  BY DEF Typed
<1> QED
  BY <1>1, InitTyped, NextTyped, PTL DEF Spec

-----------------------------------------------------------------------------
(* What one gateway adds, one lemma per action.                            *)

\* An empty log remembers an empty history.
LEMMA InitInd == Init => IndInv
<1> SUFFICES ASSUME Init
             PROVE  IndInv
  OBVIOUS
<1>1. Typed
  BY InitTyped
<1>2. Done = {} /\ Admitted = {} /\ log = {} /\ expireAt = Never
  BY DEF Init, Done, Admitted
<1>3. \A t : AdmittedStamps(t) = {} /\ Pruned(log, t) = {}
  BY <1>2 DEF AdmittedStamps, Pruned
<1>4. Ordered /\ Remembered /\ KeyLives
  BY <1>2, <1>3 DEF Ordered, Remembered, KeyLives
<1>5. StampsWithinLimit
  BY <1>3, EmptyFits DEF StampsWithinLimit
<1> QED
  BY <1>1, <1>4, <1>5 DEF IndInv

\* A new call is dated now, after everything that has run.
LEMMA SendInd ==
    ASSUME IndInv, NEW r \in Reqs, Send(r)
    PROVE  IndInv'
<1>1. Typed /\ Typed' /\ TypeOK /\ Dated
  BY SendTyped DEF IndInv, Typed
<1>2. /\ status[r] = "new" /\ UNCHANGED <<now, log, expireAt>>
      /\ status'[r] = "sent" /\ stamp'[r] = now
      /\ \A q \in Reqs \ {r} : status'[q] = status[q] /\ stamp'[q] = stamp[q]
  BY <1>1 DEF Send, TypeOK
<1>3. /\ Done' = Done /\ Admitted' = Admitted
      /\ \A q \in Done : stamp'[q] = stamp[q]
      /\ \A q \in Admitted : stamp'[q] = stamp[q]
  BY <1>2 DEF Done, Admitted
<1>4. \A t : AdmittedStamps(t)' = AdmittedStamps(t) /\ (MayCome(t)' <=> MayCome(t))
  BY <1>2, <1>3, SameStamps DEF MayCome
<1>5. Ordered'
  BY <1>1, <1>2, <1>3 DEF IndInv, Ordered, Dated, Done
<1>6. Remembered' /\ KeyLives' /\ StampsWithinLimit'
  BY <1>2, <1>4 DEF IndInv, Remembered, KeyLives, StampsWithinLimit
<1> QED
  BY <1>1, <1>5, <1>6 DEF IndInv

\* With one gateway the call that runs may come: it carries the newest
\* timestamp that has run and the oldest of those in flight.
LEMMA RunsInOrder ==
    ASSUME IndInv, OneGateway, NEW r \in Reqs, Run(r)
    PROVE  /\ MayCome(stamp[r])
           /\ Pruned(log, stamp[r]) = AdmittedStamps(stamp[r])
           /\ \A q \in Reqs : status[q] = "sent" => stamp[r] <= stamp[q]
<1>1. TypeOK /\ Ordered /\ Remembered
  BY DEF IndInv, Typed
<1>2. status[r] = "sent" /\ stamp[r] \in Time /\ now <= stamp[r] + MaxDelay
  BY RunFacts DEF IndInv
<1>3. MayCome(stamp[r])
  BY <1>1, <1>2 DEF Ordered, MayCome
<1>4. \A q \in Reqs : gw[q] = gw[r]
  BY <1>1 DEF TypeOK, OneGateway
<1> QED
  BY <1>1, <1>2, <1>3, <1>4 DEF Remembered, Run, HeadOfLine

\* A call that may still come after r has run may come before, not before r.
LEMMA MayStillCome ==
    ASSUME IndInv, NEW r \in Reqs, Run(r), NEW t \in Time, MayCome(t)'
    PROVE  MayCome(t) /\ stamp[r] <= t
<1>1. /\ status[r] = "sent" /\ status'[r] \in {"admitted", "rejected"}
      /\ \A q \in Reqs \ {r} : status'[q] = status[q]
      /\ now' = now /\ stamp' = stamp
  BY RunFacts DEF IndInv
<1>2. Done' = Done \cup {r}
  BY <1>1 DEF Done
<1> QED
  BY <1>1, <1>2 DEF MayCome

\* What the windows count after r has run.
LEMMA RunStamps ==
    ASSUME Typed, NEW r \in Reqs, Run(r), NEW t
    PROVE  AdmittedStamps(t)' = IF status'[r] = "admitted" /\ stamp[r] \in Window(t)
                                THEN AdmittedStamps(t) \cup {stamp[r]}
                                ELSE AdmittedStamps(t)
<1>1. /\ status[r] = "sent" /\ status'[r] \in {"admitted", "rejected"}
      /\ \A q \in Reqs \ {r} : status'[q] = status[q]
      /\ stamp' = stamp
  BY RunFacts
<1>2. Admitted' = IF status'[r] = "admitted" THEN Admitted \cup {r} ELSE Admitted
  BY <1>1 DEF Admitted
<1> QED
  BY <1>1, <1>2 DEF AdmittedStamps

\* The script: what it prunes no later call would have counted.
LEMMA RunInd ==
    ASSUME IndInv, OneGateway, NEW r \in Reqs, Run(r)
    PROVE  IndInv'
<1> DEFINE s == stamp[r]
           kept == Pruned(log, s)
           admits == status'[r] = "admitted"
<1>1. Typed /\ Typed' /\ TypeOK /\ Dated /\ Ordered /\ Remembered /\ KeyLives
  BY RunTyped DEF IndInv, Typed
<1>2. /\ status[r] = "sent" /\ s \in Time /\ s <= now
      /\ kept \in SUBSET log /\ kept \in SUBSET Time
      /\ cap[r] \in Capacities
      /\ status'[r] \in {"admitted", "rejected"}
      /\ \A q \in Reqs \ {r} : status'[q] = status[q]
      /\ now' = now /\ stamp' = stamp
      /\ admits => /\ Fits(kept, cap[r])
                   /\ log' = kept \cup {s}
                   /\ expireAt' = now + Ttl(WindowMs)
      /\ ~admits => log' = kept /\ expireAt' \in {Never, expireAt}
  BY <1>1, RunFacts
<1>3. /\ kept = AdmittedStamps(s)
      /\ \A q \in Done : stamp[q] <= s
      /\ \A q \in Reqs : status[q] = "sent" => s <= stamp[q]
      /\ s = stamp[r] /\ kept = {x \in log : x > s - WindowMs}
  BY RunsInOrder DEF MayCome, Pruned
<1>4. \A t : AdmittedStamps(t)' = IF admits /\ s \in Window(t)
                                  THEN AdmittedStamps(t) \cup {s}
                                  ELSE AdmittedStamps(t)
  BY <1>1, RunStamps
<1>5. \A t \in Time : MayCome(t)' => MayCome(t) /\ s <= t
  BY MayStillCome
<1> HIDE DEF s, kept, admits
<1>6. s \in Nat /\ now \in Nat /\ Time \subseteq Nat /\ WindowMs \in Nat /\ log \subseteq Nat
  BY <1>1, <1>2, WindowAssumption DEF TypeOK, Time
<1>7. Ordered'
  <2>1. Done' = Done \cup {r}
    BY <1>2 DEF Done
  <2>2. \A q \in Done, u \in Reqs : status[u] = "sent" => stamp[q] <= stamp[u]
    BY <1>1 DEF Ordered
  <2> QED
    BY <1>2, <1>3, <2>1, <2>2 DEF Ordered
<1>8. ASSUME NEW t \in Time, MayCome(t)'
      PROVE  Pruned(log', t) = AdmittedStamps(t)'
  <2>1. Pruned(log, t) = AdmittedStamps(t) /\ s <= t
    BY <1>1, <1>5, <1>8 DEF Remembered
  <2>2. Pruned(kept, t) = Pruned(log, t)
    <3>1. \A x \in log : x > t - WindowMs => x \in kept
      BY <1>3, <1>6, <2>1
    <3> QED
      BY <1>2, <3>1 DEF Pruned
  <2>3. CASE admits
    <3>1. Pruned(log', t) = Pruned(kept, t) \cup Pruned({s}, t)
      BY <1>2, <2>3 DEF Pruned
    <3>2. Pruned({s}, t) = {s} \cap Window(t)
      BY <1>2, <2>1 DEF Pruned, Window
    <3> QED
      BY <1>4, <2>1, <2>2, <2>3, <3>1, <3>2
  <2>4. CASE ~admits
    BY <1>2, <1>4, <2>1, <2>2, <2>4
  <2> QED
    BY <2>3, <2>4
<1>9. Remembered'
  BY <1>8 DEF Remembered
<1>10. KeyLives'
  <2>1. ASSUME NEW x \in log', expireAt' # Never
        PROVE  x + Ttl(WindowMs) <= expireAt'
    <3>1. CASE admits
      <4>1. x \in kept => x <= s
        BY <1>3 DEF AdmittedStamps, Window
      <4>2. x \in kept \/ x = s
        BY <1>2, <2>1, <3>1
      <4>3. kept \subseteq Nat
        BY <1>2, <1>6
      <4>4. CASE x \in kept
        BY <1>2, <1>6, <3>1, <4>1, <4>3, <4>4, TtlType
      <4>5. CASE x = s
        BY <1>2, <1>6, <3>1, <4>5, TtlType
      <4> QED
        BY <4>2, <4>4, <4>5
    <3>2. CASE ~admits
      BY <1>1, <1>2, <2>1, <3>2 DEF KeyLives
    <3> QED
      BY <3>1, <3>2
  <2> QED
    BY <2>1 DEF KeyLives
<1>11. ASSUME NEW t \in Time
       PROVE  \E c \in Capacities : Cardinality(AdmittedStamps(t)') <= c
  <2>1. CASE admits /\ s \in Window(t)
    <3>1. AdmittedStamps(t) \subseteq kept
      <4>1. ASSUME NEW x \in AdmittedStamps(t)
            PROVE  x \in AdmittedStamps(s)
        <5>1. PICK q \in Admitted : x = stamp[q]
          BY DEF AdmittedStamps
        <5>2. x <= s /\ x \in Time /\ t - WindowMs < x
          BY <1>3, <5>1 DEF Admitted, Done, AdmittedStamps, Window
        <5>3. s <= t /\ t \in Nat /\ x \in Nat
          BY <1>6, <2>1, <5>2 DEF Window
        <5>4. s - WindowMs < x
          BY <1>6, <5>2, <5>3
        <5> QED
          BY <5>1, <5>2, <5>4 DEF AdmittedStamps, Window
      <4> QED
        BY <1>3, <4>1
    <3>2. AdmittedStamps(t)' \subseteq kept \cup {s}
      BY <1>4, <2>1, <3>1
    <3>3. Cardinality(kept \cup {s}) <= cap[r] /\ kept \cup {s} \in SUBSET Time
      BY <1>2, <2>1, RoomForOne
    <3>4. /\ Cardinality(AdmittedStamps(t)') <= Cardinality(kept \cup {s})
          /\ Cardinality(AdmittedStamps(t)') \in Nat
          /\ Cardinality(kept \cup {s}) \in Nat
          /\ cap[r] \in Nat
      BY <1>2, <3>2, <3>3, SmallerSets, TimeSets, WindowAssumption
    <3>5. Cardinality(AdmittedStamps(t)') <= cap[r]
      BY <3>3, <3>4
    <3> QED
      BY <1>2, <3>5
  <2>2. CASE ~(admits /\ s \in Window(t))
    <3>1. AdmittedStamps(t)' = AdmittedStamps(t)
      BY <1>4, <2>2
    <3> QED
      BY <3>1 DEF IndInv, StampsWithinLimit
  <2> QED
    BY <2>1, <2>2
<1>12. StampsWithinLimit'
  BY <1>11 DEF StampsWithinLimit
<1> QED
  BY <1>1, <1>7, <1>9, <1>10, <1>12 DEF IndInv

\* When the key goes, its scores have left the window of every call to come.
LEMMA ExpireInd ==
    ASSUME IndInv, PromptCalls, Expire
    PROVE  IndInv'
<1>1. Typed /\ Typed' /\ TypeOK
  BY ExpireTyped DEF IndInv, Typed
<1>2. /\ expireAt # Never /\ now >= expireAt
      /\ log' = {} /\ expireAt' = Never
      /\ UNCHANGED <<now, status, stamp>>
  BY DEF Expire
<1>3. Done' = Done /\ Admitted' = Admitted
  BY <1>2 DEF Done, Admitted
<1>4. \A t : AdmittedStamps(t)' = AdmittedStamps(t) /\ (MayCome(t)' <=> MayCome(t))
  BY <1>2, <1>3, SameStamps DEF MayCome
<1>5. ASSUME NEW t \in Time, MayCome(t)
      PROVE  Pruned(log, t) = {}
  <2>1. ASSUME NEW x \in log
        PROVE  ~(x > t - WindowMs)
    <3>1. x \in Nat /\ t \in Nat /\ now \in Nat /\ expireAt \in Nat
      BY <1>1, WindowAssumption DEF TypeOK, Time
    <3>2. x + Ttl(WindowMs) <= expireAt /\ now <= t + MaxDelay
      BY <1>2, <1>5 DEF IndInv, KeyLives, MayCome
    <3> QED
      BY <1>2, <3>1, <3>2, TtlType, WindowAssumption DEF PromptCalls
  <2> QED
    BY <2>1 DEF Pruned
<1>6. Remembered'
  <2>1. \A t : Pruned(log', t) = {}
    BY <1>2 DEF Pruned
  <2> QED
    BY <1>4, <1>5, <2>1 DEF IndInv, Remembered
<1>7. Ordered' /\ KeyLives' /\ StampsWithinLimit'
  BY <1>2, <1>3, <1>4 DEF IndInv, Ordered, KeyLives, StampsWithinLimit
<1> QED
  BY <1>1, <1>6, <1>7 DEF IndInv

\* Time makes fewer timestamps possible.
LEMMA TickInd ==
    ASSUME IndInv, Tick
    PROVE  IndInv'
<1>1. Typed /\ Typed' /\ TypeOK
  BY TickTyped DEF IndInv, Typed
<1>2. now' = now + 1 /\ UNCHANGED <<log, expireAt, status, stamp>>
  BY DEF Tick
<1>3. Done' = Done /\ Admitted' = Admitted
  BY <1>2 DEF Done, Admitted
<1>4. \A t : AdmittedStamps(t)' = AdmittedStamps(t)
  BY <1>2, <1>3, SameStamps
<1>5. \A t \in Time : MayCome(t)' => MayCome(t)
  BY <1>1, <1>2, <1>3, WindowAssumption DEF MayCome, TypeOK, Time
<1>6. Ordered' /\ Remembered' /\ KeyLives' /\ StampsWithinLimit'
  BY <1>2, <1>3, <1>4, <1>5
     DEF IndInv, Ordered, Remembered, KeyLives, StampsWithinLimit
<1> QED
  BY <1>1, <1>6 DEF IndInv

\* Every step keeps the invariant.
LEMMA NextInd ==
    ASSUME OneGateway, PromptCalls
    PROVE  IndInv /\ [Next]_vars => IndInv'
<1> SUFFICES ASSUME IndInv, [Next]_vars
             PROVE  IndInv'
  OBVIOUS
<1>1. CASE UNCHANGED vars
  <2>1. /\ Typed' /\ Done' = Done /\ Admitted' = Admitted
        /\ UNCHANGED <<now, log, expireAt, status, stamp>>
    BY <1>1, NextTyped DEF IndInv, vars, Done, Admitted
  <2>2. \A t : AdmittedStamps(t)' = AdmittedStamps(t) /\ (MayCome(t)' <=> MayCome(t))
    BY <2>1, SameStamps DEF MayCome
  <2> QED
    BY <2>1, <2>2 DEF IndInv, Ordered, Remembered, KeyLives, StampsWithinLimit
<1> QED
  BY <1>1, SendInd, RunInd, ExpireInd, TickInd DEF Next

-----------------------------------------------------------------------------
\* README: sliding-window log is "Precise - no boundary spikes".  With one
\* gateway no window, wherever it ends, holds more admitted timestamps than
\* the largest capacity, although every call prunes by its own clock and the
\* key may expire between two calls.
THEOREM StampsWithinLimitHolds ==
    ASSUME OneGateway, PromptCalls
    PROVE  Spec => []StampsWithinLimit
<1>1. IndInv => StampsWithinLimit
  BY DEF IndInv
<1> QED
  BY <1>1, InitInd, NextInd, PTL DEF Spec

\* sliding_window_log.lua decides as if it had the whole history: it admits a
\* request exactly when the window that ends at the request's own timestamp
\* has room for its cost.
THEOREM DecidesByHistoryHolds ==
    ASSUME OneGateway, PromptCalls
    PROVE  Spec => DecidesByHistory
<1> DEFINE Decides(r) ==
        status[r] = "sent" /\ status'[r] # "sent"
          => (status'[r] = "admitted"
                <=> Cardinality(AdmittedStamps(stamp[r])) + Cost <= cap[r])
<1>1. ASSUME IndInv, [Next]_vars, NEW r \in Reqs PROVE Decides(r)
  <2> SUFFICES ASSUME status[r] = "sent", status'[r] # "sent"
               PROVE  status'[r] = "admitted"
                        <=> Cardinality(AdmittedStamps(stamp[r])) + Cost <= cap[r]
    OBVIOUS
  <2>1. Run(r)
    <3>1. TypeOK
      BY <1>1 DEF IndInv, Typed
    <3>2. ASSUME NEW q \in Reqs, Run(q) PROVE q = r
      BY <1>1, <3>2, RunFacts DEF IndInv
    <3> QED
      BY <1>1, <3>1, <3>2 DEF Next, vars, TypeOK, Send, Expire, Tick
  <2> DEFINE kept == Pruned(log, stamp[r])
  <2>2. /\ status'[r] \in {"admitted", "rejected"}
        /\ kept \in SUBSET Time /\ cap[r] \in Nat
        /\ status'[r] = "admitted" => Fits(kept, cap[r])
        /\ status'[r] = "rejected" => ~Fits(kept, cap[r])
    BY <1>1, <2>1, RunFacts DEF IndInv
  <2>3. kept = AdmittedStamps(stamp[r])
    BY <1>1, <2>1, RunsInOrder
  <2> HIDE DEF kept
  <2>4. Fits(kept, cap[r]) <=> Cardinality(kept) + Cost <= cap[r]
    BY <2>2, TimeSets, WindowAssumption DEF Fits
  <2> QED
    BY <2>2, <2>3, <2>4
<1>2. IndInv /\ [Next]_vars => [\A r \in Reqs : Decides(r)]_vars
  BY <1>1
<1> QED
  BY <1>2, InitInd, NextInd, PTL DEF Spec, DecidesByHistory

\* A full log whose oldest score has left has room for a cost of one.
LEMMA OldestLeaves ==
    ASSUME NEW S \in SUBSET Time, S # {}, NEW c \in Nat, Cardinality(S) <= c,
           Cost = 1, NEW t \in Nat, t >= Oldest(S) + WindowMs
    PROVE  Fits(Pruned(S, t), c)
<1> DEFINE o == Oldest(S)
<1>1. /\ o \in S /\ IsFiniteSet(S) /\ Cardinality(S) \in Nat
      /\ t >= o + WindowMs
  BY OldestIsLeast, TimeSets
<1> HIDE DEF o
<1>2. o \notin Pruned(S, t)
  <2>1. o \in Nat /\ t >= o + WindowMs
    BY <1>1, WindowAssumption DEF Time
  <2> QED
    BY <2>1, WindowAssumption DEF Pruned
<1>3. Pruned(S, t) \in SUBSET (S \ {o})
  BY <1>2 DEF Pruned
<1>4. S \ {o} \in SUBSET Time /\ Cardinality(S \ {o}) = Cardinality(S) - 1
  BY <1>1, FS_RemoveElement
<1>5. Cardinality(Pruned(S, t)) <= Cardinality(S) - 1 /\ Cardinality(Pruned(S, t)) \in Nat
  BY <1>3, <1>4, SmallerSets
<1> QED
  BY <1>1, <1>5 DEF Fits

\* sliding_window_log.lua: "Retry after: when will a slot be available?"  A
\* client that waits as long as it was told finds room, if nobody else comes:
\* whatever the gateways, but only when one rule uses the key and a request
\* costs one.
THEOREM RetryAfterSufficesHolds ==
    ASSUME OneRule, Cost = 1
    PROVE  Spec => RetryAfterSuffices
<1> DEFINE Suffices(r) ==
        status[r] = "sent" /\ status'[r] = "rejected"
          => Fits(Pruned(log', told'[r]), cap[r])
<1>1. ASSUME Typed, [Next]_vars, NEW r \in Reqs PROVE Suffices(r)
  <2> SUFFICES ASSUME status[r] = "sent", status'[r] = "rejected"
               PROVE  Fits(Pruned(log', told'[r]), cap[r])
    OBVIOUS
  <2>1. TypeOK
    BY <1>1 DEF Typed
  <2>2. Run(r)
    <3>1. ASSUME NEW q \in Reqs, Run(q) PROVE q = r
      BY <1>1, <3>1, RunFacts
    <3> QED
      BY <1>1, <2>1, <3>1 DEF Next, vars, TypeOK, Send, Expire, Tick
  <2> DEFINE kept == Pruned(log, stamp[r])
             wait == RetryAfterMs(kept, cap[r], stamp[r])
  <2>3. /\ stamp[r] \in Nat /\ stamp[r] \in Time
        /\ kept \in SUBSET log /\ kept \in SUBSET Time
        /\ \A s \in kept : s > stamp[r] - WindowMs
        /\ cap[r] \in Capacities /\ cap[r] \in Nat /\ cap[r] # 0
        /\ ~Fits(kept, cap[r]) /\ log' = kept
    BY <1>1, <2>2, RunFacts, WindowAssumption DEF Time
  <2>4. told'[r] = stamp[r] + Second * Ceil(wait, Second)
    BY <2>1, <2>2, <2>3 DEF TypeOK, Run
  <2>5. wait \in Nat
    BY <2>3, WaitType
  <2>6. Cardinality(kept) <= cap[r]
    <3>1. Cardinality(log) <= cap[r]
      BY <2>1, <2>3 DEF TypeOK, OneRule
    <3>2. Cardinality(kept) <= Cardinality(log) /\ Cardinality(kept) \in Nat
          /\ Cardinality(log) \in Nat
      BY <2>1, <2>3, SmallerSets, TimeSets DEF TypeOK
    <3> QED
      BY <2>3, <3>1, <3>2
  <2>7. Cardinality(kept) \in Nat /\ Cardinality(kept) >= cap[r]
    BY <2>3, TimeSets DEF Fits
  <2>8. kept # {}
    BY <2>3, <2>7, FS_EmptySet
  <2>9. wait = Oldest(kept) + WindowMs - stamp[r]
    BY <2>3, <2>7, <2>8 DEF RetryAfterMs
  <2>10. Oldest(kept) \in Nat
    BY <2>3, <2>8, OldestIsLeast DEF Time
  <2> HIDE DEF kept, wait
  <2>11. Second * Ceil(wait, Second) \in Nat /\ Second * Ceil(wait, Second) >= wait
    BY <2>5, CeilCovers, WindowAssumption
  <2>12. told'[r] \in Nat /\ told'[r] >= Oldest(kept) + WindowMs
    BY <2>3, <2>4, <2>5, <2>9, <2>10, <2>11, WindowAssumption
  <2> QED
    BY <2>3, <2>6, <2>8, <2>12, OldestLeaves
<1>2. Typed /\ [Next]_vars => [\A r \in Reqs : Suffices(r)]_vars
  BY <1>1
<1> QED
  BY <1>2, InitTyped, NextTyped, PTL DEF Spec, RetryAfterSuffices
=============================================================================
