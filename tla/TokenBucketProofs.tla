-------------------------- MODULE TokenBucketProofs --------------------------
(***************************************************************************)
(* The token bucket, for any number of requests and any capacity, rate and *)
(* cost, checked by TLAPS.  That no interval gives out too much, and that  *)
(* a request is refused for no other reason, needs one gateway, a rate     *)
(* that is not below the floor of the TTL, and calls that do not take      *)
(* longer than four times what an empty bucket takes to fill.  The answer  *)
(* to a refused request needs a rate and a bucket that can serve it.       *)
(***************************************************************************)
EXTENDS TokenBucket, FiniteSetTheorems, TLAPS

OneGateway == \A g, h \in Gateways : g = h
PromptCalls == RateFloor <= Rate /\ Rate * MaxDelay <= 4 * Capacity

Given(i, j) == Cost * Cardinality(AdmittedIn(i, j))

\* Nothing is dated ahead, and no call in flight is older than MaxDelay.
Dated ==
    \A r \in Reqs : status[r] # "new" =>
        /\ stamp[r] \in Time
        /\ stamp[r] <= now
        /\ status[r] = "sent" => now <= stamp[r] + MaxDelay

\* Calls run in the order of their timestamps.
Ordered ==
    \A q, r \in Reqs : status[q] \in {"admitted", "rejected"} /\ status[r] = "sent"
                         => stamp[q] <= stamp[r]

\* While there is a key, it was written by the newest timestamp that ran, it
\* lives for Ttl from then on, and what it holds is covered: what has been
\* given out since i and what is left came from a full bucket and the flow.
Covered ==
    last # Never =>
        /\ last <= now
        /\ last + Ttl <= expireAt
        /\ \A r \in Reqs : /\ status[r] \in {"admitted", "rejected"} => stamp[r] <= last
                           /\ status[r] = "sent" => last <= stamp[r]
        /\ \A i \in Time : i <= last => Given(i, last) + tokens
                                          <= Capacity + Rate * (last - i)

\* When the key is gone, the bucket would have been full again for every
\* call that may still come: what was given out has flowed back.
Repaid ==
    last = Never =>
        \A i, t \in Time : i <= t /\ now <= t + MaxDelay
                             => Given(i, t) <= Rate * (t - i)

IndInv == TypeOK /\ Dated /\ Ordered /\ Covered /\ Repaid /\ IntervalBound

\* The account is exact: since the last second in which the bucket was full,
\* nothing has been spilled.
Tight ==
    last # Never =>
        \E i \in Time : i <= last /\ Given(i, last) + tokens
                                      = Capacity + Rate * (last - i)

-----------------------------------------------------------------------------
(* Arithmetic.                                                             *)

\* Multiplication by a natural number distributes and is monotonic.
LEMMA Products ==
    ASSUME NEW a \in Nat, NEW x \in Int, NEW y \in Int
    PROVE  /\ a * (x + y) = a * x + a * y
           /\ a * x \in Int
           /\ x <= y => a * x <= a * y
OBVIOUS

\* Rounding up reaches what was divided.
LEMMA CeilCovers ==
    ASSUME NEW n \in Nat, NEW d \in Nat \ {0}
    PROVE  Ceil(n, d) \in Nat /\ d * Ceil(n, d) >= n
<1>1. ASSUME NEW k \in Nat
      PROVE  k \div d \in Nat /\ k = d * (k \div d) + (k % d) /\ k % d < d
  OBVIOUS
<1> DEFINE m == n + d - 1
<1>2. m \in Nat
  OBVIOUS
<1>3. m \div d \in Nat /\ m = d * (m \div d) + (m % d) /\ m % d < d
  BY <1>1, <1>2
<1>4. m % d \in Nat /\ d * (m \div d) \in Nat
  BY <1>2, <1>3
<1>5. d * (m \div d) >= n
  BY <1>3, <1>4
<1>6. Ceil(n, d) = m \div d
  BY DEF Ceil
<1> HIDE DEF m
<1> QED
  BY <1>3, <1>5, <1>6

\* The TTL is at least what is computed from the rate.
LEMMA TtlType == Ttl \in Nat /\ Ttl >= Ceil(5 * Capacity, Greatest(Rate, RateFloor))
<1>1. 5 * Capacity \in Nat /\ Greatest(Rate, RateFloor) \in Nat \ {0}
  BY BucketAssumption DEF Greatest
<1> DEFINE c == Ceil(5 * Capacity, Greatest(Rate, RateFloor))
<1>2. c \in Nat
  BY <1>1, CeilCovers
<1>3. Ttl = Greatest(MinTtl, c)
  BY DEF Ttl
<1> HIDE DEF c
<1>4. Ttl \in Nat /\ Ttl >= c
  BY <1>2, <1>3, BucketAssumption DEF Greatest
<1> QED
  BY <1>4 DEF c

\* The key lives long enough to fill the bucket for the slowest call.
LEMMA KeyOutlivesRefill ==
    ASSUME PromptCalls
    PROVE  Capacity <= Rate * (Ttl - MaxDelay)
<1>1. Greatest(Rate, RateFloor) = Rate /\ Rate \in Nat \ {0}
  BY BucketAssumption DEF PromptCalls, Greatest
<1> DEFINE c == Ceil(5 * Capacity, Rate)
<1>2. c \in Nat /\ Rate * c >= 5 * Capacity
  BY <1>1, CeilCovers, BucketAssumption
<1>3. c <= Ttl /\ Ttl \in Nat
  BY <1>1, TtlType
<1> HIDE DEF c
<1>4. Rate * c <= Rate * Ttl
  BY <1>1, <1>2, <1>3, Products
<1>5. Rate * (Ttl + (-MaxDelay)) = Rate * Ttl + Rate * (-MaxDelay)
  BY <1>1, <1>3, Products, BucketAssumption
<1>6. Rate * (-MaxDelay) = -(Rate * MaxDelay) /\ Rate * MaxDelay \in Nat
  BY <1>1, BucketAssumption
<1> QED
  BY <1>1, <1>2, <1>3, <1>4, <1>5, <1>6, BucketAssumption DEF PromptCalls

-----------------------------------------------------------------------------
(* What was given out between two seconds.                                 *)

\* It is a natural number, smaller for a smaller set of requests.
LEMMA GivenType ==
    ASSUME NEW i, NEW j
    PROVE  /\ IsFiniteSet(AdmittedIn(i, j))
           /\ Cardinality(AdmittedIn(i, j)) \in Nat
           /\ Given(i, j) \in Nat
<1>1. AdmittedIn(i, j) \in SUBSET Reqs
  BY DEF AdmittedIn, Admitted
<1>2. IsFiniteSet(AdmittedIn(i, j)) /\ Cardinality(AdmittedIn(i, j)) \in Nat
  BY <1>1, FS_Subset, FS_CardinalityType, BucketAssumption
<1> QED
  BY <1>2, BucketAssumption DEF Given

\* A longer interval has given out no less.
LEMMA GivenMonotone ==
    ASSUME NEW i, NEW j, NEW k, NEW l,
           AdmittedIn(i, j) \subseteq AdmittedIn(k, l)
    PROVE  Given(i, j) <= Given(k, l)
<1>1. Cardinality(AdmittedIn(i, j)) <= Cardinality(AdmittedIn(k, l))
  BY GivenType, FS_Subset
<1> QED
  BY <1>1, GivenType, Products, BucketAssumption DEF Given

\* Nothing was given out in an interval without admissions.
LEMMA GivenNothing ==
    ASSUME NEW i, NEW j, AdmittedIn(i, j) = {}
    PROVE  Given(i, j) = 0
BY FS_EmptySet, BucketAssumption DEF Given

\* If nothing ran after second m, an interval up to m counts as much as any
\* longer one.
LEMMA GivenUpTo ==
    ASSUME NEW m \in Time, NEW i \in Time, NEW j \in Time,
           \A r \in Admitted : stamp[r] \in Time /\ stamp[r] <= m
    PROVE  /\ Given(i, j) <= Given(i, m)
           /\ i > m => Given(i, j) = 0
<1>1. AdmittedIn(i, j) \subseteq AdmittedIn(i, m)
  BY DEF AdmittedIn, Time
<1>2. i > m => AdmittedIn(i, j) = {}
  BY BucketAssumption DEF AdmittedIn, Time
<1> QED
  BY <1>1, <1>2, GivenMonotone, GivenNothing

-----------------------------------------------------------------------------
\* What the script finds when request r runs is covered: the refill since
\* the last write is no more than what has flowed.
LEMMA LevelCovered ==
    ASSUME IndInv, NEW r \in Reqs, status[r] = "sent"
    PROVE  /\ Level(stamp[r]) \in 0..Capacity
           /\ \A i \in Time : i <= stamp[r] =>
                Given(i, stamp[r]) + Level(stamp[r])
                    <= Capacity + Rate * (stamp[r] - i)
<1> DEFINE s == stamp[r]
           level == Level(stamp[r])
<1>1. /\ s \in Time /\ s \in Nat /\ now <= s + MaxDelay
      /\ tokens \in Nat /\ tokens <= Capacity
      /\ Capacity \in Nat /\ Rate \in Nat
  BY BucketAssumption DEF IndInv, Dated, TypeOK, Time
<1>2. CASE last = Never
  <2>1. level = Capacity
    BY <1>2 DEF Level
  <2>2. ASSUME NEW i \in Time, i <= s
        PROVE  Given(i, s) <= Rate * (s - i)
    BY <1>1, <1>2, <2>2 DEF IndInv, Repaid
  <2>3. ASSUME NEW i \in Time
        PROVE  Given(i, s) \in Nat /\ Rate * (s - i) \in Int
    BY <1>1, GivenType, Products DEF Time
  <2> HIDE DEF s, level
  <2>4. level \in 0..Capacity
    BY <1>1, <2>1
  <2>5. \A i \in Time : i <= s => Given(i, s) + level <= Capacity + Rate * (s - i)
    BY <1>1, <2>1, <2>2, <2>3
  <2> QED
    BY <2>4, <2>5 DEF s, level
<1>3. CASE last # Never
  <2>1. /\ last \in Time /\ last \in Nat /\ last <= s
        /\ \A q \in Admitted : stamp[q] \in Time /\ stamp[q] <= last
    BY <1>3 DEF IndInv, Covered, TypeOK, Admitted, Dated, Time
  <2>2. Rate * (s - last) \in Nat
    BY <1>1, <2>1
  <2>3. level = Least(Capacity, tokens + Rate * (s - last))
    BY <1>1, <1>3, <2>1 DEF Level, Greatest
  <2>4. /\ level \in 0..Capacity
        /\ level <= tokens + Rate * (s - last)
    <3> DEFINE flow == Rate * (s - last)
    <3> HIDE DEF flow, s, level
    <3> QED
      BY <1>1, <2>2, <2>3 DEF Least, flow
  <2>5. ASSUME NEW i \in Time, i <= s
        PROVE  Given(i, s) + level <= Capacity + Rate * (s - i)
    <3>1. i \in Nat /\ Given(i, s) \in Nat /\ Given(i, last) \in Nat
      BY GivenType DEF Time
    <3>2. CASE i > last
      <4>1. Given(i, s) = 0
        BY <1>1, <2>1, <3>2, GivenUpTo
      <4>2. Rate * (s - i) \in Nat
        BY <1>1, <2>5, <3>1
      <4> HIDE DEF s, level
      <4> QED
        BY <1>1, <2>4, <4>1, <4>2
    <3>3. CASE i <= last
      <4>1. Given(i, s) <= Given(i, last)
        BY <1>1, <2>1, GivenUpTo
      <4>2. Given(i, last) + tokens <= Capacity + Rate * (last - i)
        BY <1>3, <3>3 DEF IndInv, Covered
      <4>3. /\ Rate * ((s - last) + (last - i))
                  = Rate * (s - last) + Rate * (last - i)
            /\ Rate * (last - i) \in Int
        BY <1>1, <2>1, <3>1, Products
      <4>4. (s - last) + (last - i) = s - i
        BY <1>1, <2>1, <3>1
      <4> DEFINE flow == Rate * (s - last)
                 before == Rate * (last - i)
      <4>5. /\ Rate * (s - i) = flow + before
            /\ flow \in Int /\ before \in Int
            /\ level <= tokens + flow
            /\ Given(i, last) + tokens <= Capacity + before
        BY <2>2, <2>4, <4>2, <4>3, <4>4
      <4> HIDE DEF s, level, flow, before
      <4> QED
        BY <1>1, <2>4, <3>1, <4>1, <4>5
    <3> QED
      BY <2>1, <3>1, <3>2, <3>3
  <2> QED
    BY <2>4, <2>5
<1> QED
  BY <1>2, <1>3

-----------------------------------------------------------------------------
(* The inductive invariant.                                                *)

\* Nothing has run, nothing is owed.
LEMMA InitInd == Init => IndInv
<1> SUFFICES ASSUME Init
             PROVE  IndInv
  OBVIOUS
<1>1. TypeOK /\ Dated /\ Ordered /\ Covered
  BY BucketAssumption
     DEF Init, TypeOK, Dated, Ordered, Covered, Time, Never
<1>2. ASSUME NEW i \in Time, NEW j \in Time, i <= j
      PROVE  /\ Given(i, j) = 0
             /\ Rate * (j - i) \in Nat
  <2>1. AdmittedIn(i, j) = {}
    BY DEF Init, AdmittedIn, Admitted
  <2>2. j - i \in Nat
    BY <1>2 DEF Time
  <2> QED
    BY <2>1, <2>2, GivenNothing, BucketAssumption
<1>3. Repaid /\ IntervalBound
  BY <1>2, BucketAssumption DEF Repaid, IntervalBound, Given
<1> QED
  BY <1>1, <1>3 DEF IndInv

\* The admitted requests and their timestamps are all that Given depends on.
LEMMA SameGiven ==
    ASSUME Admitted' = Admitted,
           \A r \in Admitted : stamp'[r] = stamp[r]
    PROVE  \A i, j : AdmittedIn(i, j)' = AdmittedIn(i, j) /\ Given(i, j)' = Given(i, j)
<1>1. ASSUME NEW i, NEW j PROVE AdmittedIn(i, j)' = AdmittedIn(i, j)
  BY DEF AdmittedIn
<1> QED
  BY <1>1 DEF Given

\* A gateway sends a call dated now, the newest of all.
LEMMA SendInd ==
    ASSUME IndInv, NEW r \in Reqs, Send(r)
    PROVE  IndInv'
<1>1. TypeOK /\ TypeOK'
  BY DEF IndInv, TypeOK, Send
<1>2. /\ status[r] = "new" /\ status'[r] = "sent" /\ stamp'[r] = now
      /\ \A q \in Reqs \ {r} : status'[q] = status[q] /\ stamp'[q] = stamp[q]
      /\ UNCHANGED <<now, tokens, last, expireAt>>
      /\ now \in Time
  BY <1>1 DEF Send, TypeOK
<1>3. Admitted' = Admitted /\ \A q \in Admitted : stamp'[q] = stamp[q]
  BY <1>2 DEF Admitted
<1>4. \A i, j : AdmittedIn(i, j)' = AdmittedIn(i, j) /\ Given(i, j)' = Given(i, j)
  BY <1>3, SameGiven
<1>5. Dated'
  BY <1>2, BucketAssumption DEF IndInv, Dated, Time
<1>6. Ordered'
  BY <1>2 DEF IndInv, Ordered, Dated
<1>7. Covered'
  BY <1>2, <1>4 DEF IndInv, Covered, Ttl
<1>8. Repaid' /\ IntervalBound'
  BY <1>2, <1>4 DEF IndInv, Repaid, IntervalBound
<1> QED
  BY <1>1, <1>5, <1>6, <1>7, <1>8 DEF IndInv

\* Time passes: fewer timestamps may still come.
LEMMA TickInd ==
    ASSUME IndInv, Tick
    PROVE  IndInv'
<1>1. TypeOK /\ TypeOK'
  BY BucketAssumption DEF IndInv, TypeOK, Tick, Time
<1>2. /\ now' = now + 1 /\ now \in Nat
      /\ UNCHANGED <<tokens, last, expireAt, status, stamp>>
      /\ \A r \in Reqs : status[r] = "sent" => now < stamp[r] + MaxDelay
  BY <1>1 DEF Tick, TypeOK, Time
<1>3. \A i, j : AdmittedIn(i, j)' = AdmittedIn(i, j) /\ Given(i, j)' = Given(i, j)
  BY <1>2, SameGiven DEF Admitted
<1>4. Dated'
  BY <1>2, BucketAssumption DEF IndInv, Dated, Time
<1>5. Ordered'
  BY <1>2 DEF IndInv, Ordered
<1>6. Covered'
  BY <1>1, <1>2, <1>3 DEF IndInv, Covered, TypeOK, Time, Ttl
<1>7. Repaid'
  BY <1>2, <1>3, BucketAssumption DEF IndInv, Repaid, Time
<1>8. IntervalBound'
  BY <1>3 DEF IndInv, IntervalBound
<1> QED
  BY <1>1, <1>4, <1>5, <1>6, <1>7, <1>8 DEF IndInv

\* The key goes when the bucket would have been full for every call to come.
LEMMA ExpireInd ==
    ASSUME IndInv, Expire, PromptCalls
    PROVE  IndInv'
<1>1. TypeOK /\ TypeOK'
  BY BucketAssumption DEF IndInv, TypeOK, Expire, Never
<1>2. /\ last' = Never /\ now >= expireAt
      /\ UNCHANGED <<now, status, stamp>>
  BY DEF Expire
<1>3. \A i, j : AdmittedIn(i, j)' = AdmittedIn(i, j) /\ Given(i, j)' = Given(i, j)
  BY <1>2, SameGiven DEF Admitted
<1>4. Dated' /\ Ordered' /\ Covered' /\ IntervalBound'
  BY <1>2, <1>3 DEF IndInv, Dated, Ordered, Covered, IntervalBound
<1>5. ASSUME NEW i \in Time, NEW t \in Time, i <= t, now <= t + MaxDelay
      PROVE  Given(i, t) <= Rate * (t - i)
  <2>1. /\ i \in Nat /\ t \in Nat /\ now \in Nat /\ Rate \in Nat
        /\ MaxDelay \in Nat /\ Capacity \in Nat
        /\ Given(i, t) \in Nat /\ Given(i, last) \in Nat
        /\ Ttl \in Nat /\ tokens \in Nat /\ expireAt \in Nat
    BY <1>1, BucketAssumption, GivenType, TtlType DEF TypeOK, Time
  <2>2. CASE last = Never
    BY <1>5, <2>2 DEF IndInv, Repaid
  <2>3. CASE last # Never
    <3>1. /\ last \in Time /\ last \in Nat /\ last + Ttl <= expireAt
          /\ \A q \in Admitted : stamp[q] \in Time /\ stamp[q] <= last
      BY <1>1, <2>3 DEF IndInv, Covered, TypeOK, Admitted, Dated, Time
    <3>2. Ttl - MaxDelay <= t - last
      BY <1>2, <1>5, <2>1, <3>1
    <3>3. CASE i > last
      <4>1. Given(i, t) = 0 /\ t - i \in Nat
        BY <1>5, <2>1, <3>1, <3>3, GivenUpTo
      <4> QED
        BY <2>1, <4>1
    <3>4. CASE i <= last
      <4>1. Given(i, t) <= Given(i, last)
        BY <3>1, GivenUpTo
      <4>2. Given(i, last) + tokens <= Capacity + Rate * (last - i)
        BY <2>3, <3>4 DEF IndInv, Covered
      <4>3. Rate * (Ttl - MaxDelay) <= Rate * (t - last)
        BY <2>1, <3>1, <3>2, Products
      <4>4. /\ Rate * ((t - last) + (last - i))
                  = Rate * (t - last) + Rate * (last - i)
            /\ (t - last) + (last - i) = t - i
        BY <2>1, <3>1, Products
      <4> DEFINE flow == Rate * (t - last)
                 before == Rate * (last - i)
                 refill == Rate * (Ttl - MaxDelay)
      <4>5. /\ Rate * (t - i) = flow + before
            /\ flow \in Int /\ before \in Int /\ refill \in Int
            /\ Capacity <= refill /\ refill <= flow
            /\ Given(i, last) + tokens <= Capacity + before
        BY <2>1, <3>1, <4>2, <4>3, <4>4, Products, KeyOutlivesRefill
      <4> HIDE DEF flow, before, refill
      <4> QED
        BY <2>1, <4>1, <4>5
    <3> QED
      BY <2>1, <3>1, <3>3, <3>4
  <2> QED
    BY <2>2, <2>3
<1>6. Repaid'
  BY <1>2, <1>3, <1>5 DEF Repaid
<1> QED
  BY <1>1, <1>4, <1>6 DEF IndInv

\* With one gateway the call that runs is the newest that has run and the
\* oldest of those in flight.
LEMMA RunsInOrder ==
    ASSUME IndInv, OneGateway, NEW r \in Reqs, HeadOfLine(r)
    PROVE  /\ status[r] = "sent"
           /\ stamp[r] \in Time /\ stamp[r] # Never
           /\ stamp[r] <= now
           /\ \A q \in Reqs :
                /\ status[q] = "sent" => stamp[r] <= stamp[q]
                /\ status[q] \in {"admitted", "rejected"} => stamp[q] <= stamp[r]
           /\ \A q \in Admitted : stamp[q] \in Time /\ stamp[q] <= stamp[r]
<1>1. status[r] = "sent"
  BY DEF HeadOfLine
<1>2. \A q \in Reqs : gw[q] = gw[r]
  BY DEF OneGateway, IndInv, TypeOK
<1>3. \A q \in Reqs : /\ status[q] = "sent" => stamp[r] <= stamp[q]
                      /\ status[q] \in {"admitted", "rejected"} => stamp[q] <= stamp[r]
  BY <1>1, <1>2 DEF HeadOfLine, IndInv, Ordered
<1> QED
  BY <1>1, <1>3 DEF IndInv, Dated, Admitted, Time, Never

\* Whatever the script decides, time stays in order and the key is written
\* by the newest timestamp.
LEMMA RunInd ==
    ASSUME IndInv, OneGateway, NEW r \in Reqs, HeadOfLine(r),
           NEW d \in {"admitted", "rejected"},
           status' = [status EXCEPT ![r] = d],
           tokens' \in 0..Capacity, last' = stamp[r], expireAt' = now + Ttl,
           UNCHANGED <<now, stamp, gw>>, told' \in [Reqs -> Nat],
           \A i \in Time : i <= stamp[r] =>
               Given(i, stamp[r])' + tokens' <= Capacity + Rate * (stamp[r] - i),
           IntervalBound'
    PROVE  IndInv'
<1>1. TypeOK
  BY DEF IndInv
<1>2. /\ status[r] = "sent"
      /\ stamp[r] \in Time /\ stamp[r] # Never /\ stamp[r] <= now
      /\ \A q \in Reqs :
           /\ status[q] = "sent" => stamp[r] <= stamp[q]
           /\ status[q] \in {"admitted", "rejected"} => stamp[q] <= stamp[r]
  BY RunsInOrder
<1>3. status'[r] = d /\ \A q \in Reqs \ {r} : status'[q] = status[q]
  BY <1>1 DEF TypeOK
<1>4. TypeOK'
  BY <1>1, <1>2, TtlType DEF TypeOK, Time
<1>5. Dated'
  BY <1>2, <1>3 DEF IndInv, Dated
<1>6. Ordered'
  BY <1>2, <1>3 DEF IndInv, Ordered
<1>7. \A i \in Time : i <= last' => Given(i, last)' + tokens'
                                       <= Capacity + Rate * (last' - i)
  BY DEF Given, AdmittedIn
<1>8. last' + Ttl <= expireAt'
  BY <1>1, <1>2, TtlType DEF TypeOK, Time
<1>9. Covered'
  <2>1. last' <= now'
    BY <1>2
  <2>2. \A q \in Reqs : /\ status'[q] \in {"admitted", "rejected"} => stamp'[q] <= last'
                        /\ status'[q] = "sent" => last' <= stamp'[q]
    BY <1>2, <1>3, <1>4 DEF TypeOK, Time
  <2> QED
    BY <1>7, <1>8, <2>1, <2>2 DEF Covered, Ttl
<1>10. Repaid'
  BY <1>2 DEF Repaid
<1> QED
  BY <1>4, <1>5, <1>6, <1>9, <1>10 DEF IndInv

\* A refused request is not given anything.
LEMMA RejectInd ==
    ASSUME IndInv, OneGateway, NEW r \in Reqs, Reject(r)
    PROVE  IndInv'
<1>1. HeadOfLine(r) /\ TypeOK
  BY DEF Reject, IndInv
<1>2. status[r] = "sent" /\ status' = [status EXCEPT ![r] = "rejected"]
      /\ UNCHANGED <<now, stamp, gw>>
  BY DEF Reject, HeadOfLine
<1>3. Admitted' = Admitted /\ \A q \in Admitted : stamp'[q] = stamp[q]
  BY <1>1, <1>2 DEF Admitted, TypeOK
<1>4. \A i, j : AdmittedIn(i, j)' = AdmittedIn(i, j) /\ Given(i, j)' = Given(i, j)
  BY <1>3, SameGiven
<1>5. Level(stamp[r]) \in 0..Capacity
  BY <1>2, LevelCovered
<1>6. told' \in [Reqs -> Nat]
  <2>1. CASE Rate = 0
    BY <1>1, <2>1 DEF Reject, TypeOK, Never
  <2>2. CASE Rate # 0
    <3>1. 1000 * (Cost - Level(stamp[r])) \in Nat /\ Rate \in Nat \ {0}
      BY <1>5, <2>2, BucketAssumption DEF Reject, Holds
    <3> DEFINE wait == Ceil(1000 * (Cost - Level(stamp[r])), Rate)
    <3>2. wait \in Nat
      BY <3>1, CeilCovers
    <3>3. RetryAfter(Level(stamp[r])) = wait \div 1000
      BY DEF RetryAfter
    <3> HIDE DEF wait
    <3>4. RetryAfter(Level(stamp[r])) \in Nat
      BY <3>2, <3>3
    <3>5. stamp[r] + RetryAfter(Level(stamp[r])) \in Nat
      BY <1>1, <3>4, RunsInOrder DEF Time
    <3> QED
      BY <1>1, <2>2, <3>5 DEF Reject, TypeOK
  <2> QED
    BY <2>1, <2>2
<1>7. \A i \in Time : i <= stamp[r] =>
        Given(i, stamp[r])' + tokens' <= Capacity + Rate * (stamp[r] - i)
  BY <1>2, <1>4, LevelCovered DEF Reject
<1>8. IntervalBound'
  BY <1>4 DEF IndInv, IntervalBound
<1> QED
  BY <1>1, <1>2, <1>5, <1>6, <1>7, <1>8, RunInd DEF Reject

\* An admission adds its cost to every interval around its timestamp.
LEMMA AdmitGiven ==
    ASSUME TypeOK, NEW r \in Reqs, Admit(r), NEW i \in Time, NEW j \in Time
    PROVE  Given(i, j)' = IF i <= stamp[r] /\ stamp[r] <= j
                          THEN Given(i, j) + Cost ELSE Given(i, j)
<1>1. Admitted' = Admitted \cup {r} /\ r \notin Admitted /\ stamp' = stamp
  BY DEF Admit, HeadOfLine, Admitted, TypeOK
<1>2. AdmittedIn(i, j)' = IF i <= stamp[r] /\ stamp[r] <= j
                          THEN AdmittedIn(i, j) \cup {r} ELSE AdmittedIn(i, j)
  BY <1>1 DEF AdmittedIn
<1>3. r \notin AdmittedIn(i, j)
  BY <1>1 DEF AdmittedIn
<1>4. Cardinality(AdmittedIn(i, j) \cup {r}) = Cardinality(AdmittedIn(i, j)) + 1
  BY <1>3, GivenType, FS_AddElement
<1>5. Cost * (Cardinality(AdmittedIn(i, j)) + 1)
        = Cost * Cardinality(AdmittedIn(i, j)) + Cost
  BY GivenType, BucketAssumption
<1> QED
  BY <1>2, <1>4, <1>5 DEF Given

\* An admitted request takes its cost from what the bucket held, so the
\* account stays covered.
LEMMA AdmitInd ==
    ASSUME IndInv, OneGateway, NEW r \in Reqs, Admit(r)
    PROVE  IndInv'
<1> DEFINE s == stamp[r]
<1>1. HeadOfLine(r) /\ TypeOK
  BY DEF Admit, IndInv
<1>2. /\ status[r] = "sent" /\ status' = [status EXCEPT ![r] = "admitted"]
      /\ UNCHANGED <<now, stamp, gw, told>>
      /\ tokens' = Level(s) - Cost /\ Level(s) >= Cost
  BY DEF Admit, HeadOfLine, Holds
<1>3. /\ s \in Time /\ s \in Nat
      /\ Cost \in Nat /\ Capacity \in Nat /\ Rate \in Nat
      /\ \A q \in Admitted : stamp[q] \in Time /\ stamp[q] <= s
  BY <1>1, RunsInOrder, BucketAssumption DEF Time
<1>4. Level(s) \in 0..Capacity /\ tokens' \in 0..Capacity
  BY <1>2, <1>3, LevelCovered
<1>5. Admitted' = Admitted \cup {r} /\ r \notin Admitted
  BY <1>1, <1>2 DEF Admitted, TypeOK
<1>6. ASSUME NEW i \in Time, NEW j \in Time
      PROVE  Given(i, j)' = IF i <= s /\ s <= j THEN Given(i, j) + Cost
                                                ELSE Given(i, j)
  BY <1>1, AdmitGiven
<1>7. ASSUME NEW i \in Time, i <= s
      PROVE  Given(i, s) + Level(s) <= Capacity + Rate * (s - i)
  BY <1>2, <1>7, LevelCovered
<1>8. ASSUME NEW i \in Time, NEW j \in Time
      PROVE  Given(i, j) \in Nat /\ Rate * (j - i) \in Int
  BY <1>3, GivenType, Products DEF Time
<1>9. ASSUME NEW i \in Time, i <= s
      PROVE  Given(i, s)' + tokens' <= Capacity + Rate * (s - i)
  <2>1. Given(i, s)' = Given(i, s) + Cost
    <3>1. stamp'[r] = s
      BY <1>2
    <3> QED
      BY <1>3, <1>6, <1>9, <3>1 DEF Given, AdmittedIn
  <2> QED
    BY <1>2, <1>3, <1>4, <1>7, <1>8, <1>9, <2>1
<1>10. ASSUME NEW i \in Time, NEW j \in Time, i <= j
       PROVE  Given(i, j)' <= Capacity + Rate * (j - i)
  <2>1. CASE i <= s /\ s <= j
    <3>1. Given(i, j)' = Given(i, j) + Cost /\ Given(i, j) <= Given(i, s)
      BY <1>3, <1>6, <2>1, GivenUpTo
    <3>2. Given(i, s) + Level(s) <= Capacity + Rate * (s - i)
      BY <1>7, <2>1
    <3>3. Rate * (s - i) <= Rate * (j - i)
      BY <1>3, <2>1, Products DEF Time
    <3> QED
      BY <1>2, <1>3, <1>4, <1>8, <3>1, <3>2, <3>3
  <2>2. CASE ~(i <= s /\ s <= j)
    <3>1. Given(i, j) <= Capacity + Rate * (j - i)
      BY <1>10 DEF IndInv, IntervalBound, Given
    <3> QED
      BY <1>6, <2>2, <3>1
  <2> QED
    BY <2>1, <2>2
<1>11. IntervalBound'
  BY <1>10 DEF IntervalBound, Given
<1>12. told' \in [Reqs -> Nat] /\ last' = s /\ expireAt' = now + Ttl
  BY <1>1, <1>2 DEF Admit, TypeOK
<1>13. \A i \in Time : i <= s => Given(i, s)' + tokens' <= Capacity + Rate * (s - i)
  BY <1>9
<1> QED
  BY <1>1, <1>2, <1>4, <1>11, <1>12, <1>13, RunInd

-----------------------------------------------------------------------------
(* Types, for any number of gateways.                                      *)

\* The bucket never holds more than its capacity.
LEMMA LevelType ==
    ASSUME TypeOK, NEW t \in Time
    PROVE  Level(t) \in 0..Capacity
<1>1. /\ tokens \in Nat /\ tokens <= Capacity /\ Capacity \in Nat /\ Rate \in Nat
      /\ t - last \in Int /\ Greatest(0, t - last) \in Nat
  BY BucketAssumption DEF TypeOK, Time, Never, Greatest
<1> DEFINE flow == Rate * Greatest(0, t - last)
<1>2. flow \in Nat
  BY <1>1
<1>3. Level(t) = IF last = Never THEN Capacity ELSE Least(Capacity, tokens + flow)
  BY DEF Level
<1> HIDE DEF flow
<1> QED
  BY <1>1, <1>2, <1>3 DEF Least

\* The wait that a refused client is told, against the wait it needs: the
\* milliseconds were cut, not rounded.
LEMMA RetryAfterCovers ==
    ASSUME Rate # 0, NEW level \in Nat, level <= Cost
    PROVE  /\ RetryAfter(level) \in Nat
           /\ Rate * (RetryAfter(level) + 1) >= Cost - level
<1> DEFINE ms == Ceil(1000 * (Cost - level), Rate)
           w == RetryAfter(level)
<1>1. /\ Rate \in Nat \ {0} /\ Cost - level \in Nat
      /\ 1000 * (Cost - level) \in Nat
  BY BucketAssumption
<1>2. ms \in Nat /\ Rate * ms >= 1000 * (Cost - level)
  BY <1>1, CeilCovers
<1>3. w = ms \div 1000
  BY DEF RetryAfter
<1> HIDE DEF ms, w
<1>4. w \in Nat /\ ms <= 1000 * (w + 1)
  BY <1>2, <1>3
<1>5. Rate * ms <= Rate * (1000 * (w + 1))
  BY <1>1, <1>2, <1>4, Products
<1>6. Rate * (1000 * (w + 1)) = 1000 * (Rate * (w + 1)) /\ Rate * (w + 1) \in Nat
  BY <1>1, <1>4
<1> DEFINE flow == Rate * (w + 1)
<1>7. flow \in Nat /\ 1000 * (Cost - level) <= 1000 * flow
  BY <1>1, <1>2, <1>5, <1>6
<1> HIDE DEF flow
<1>8. flow >= Cost - level
  BY <1>1, <1>7
<1> QED
  BY <1>4, <1>8 DEF flow, w

Typed == TypeOK /\ Dated

\* Whatever the script decides, it stores a level and answers with a time.
LEMMA RunTyped ==
    ASSUME Typed, NEW r \in Reqs, Admit(r) \/ Reject(r)
    PROVE  Typed'
<1>1. TypeOK /\ Dated /\ status[r] = "sent" /\ UNCHANGED <<now, stamp, gw>>
  BY DEF Typed, Admit, Reject, HeadOfLine
<1>2. stamp[r] \in Time /\ stamp[r] \in Nat
  BY <1>1 DEF Dated, Time
<1>3. Level(stamp[r]) \in 0..Capacity
  BY <1>1, <1>2, LevelType
<1>4. tokens' \in 0..Capacity /\ last' = stamp[r] /\ expireAt' = now + Ttl
  BY <1>3, BucketAssumption DEF Admit, Reject, Holds
<1>5. PICK d \in {"admitted", "rejected"} : status' = [status EXCEPT ![r] = d]
  BY DEF Admit, Reject
<1>6. told' \in [Reqs -> Nat]
  <2>1. CASE Admit(r)
    BY <1>1, <2>1 DEF Admit, TypeOK
  <2>2. CASE Reject(r) /\ Rate = 0
    BY <1>1, <2>2 DEF Reject, TypeOK, Never
  <2>3. CASE Reject(r) /\ Rate # 0
    <3>1. RetryAfter(Level(stamp[r])) \in Nat
      BY <1>3, <2>3, RetryAfterCovers, BucketAssumption DEF Reject, Holds
    <3> QED
      BY <1>1, <1>2, <2>3, <3>1 DEF Reject, TypeOK
  <2> QED
    BY <2>1, <2>2, <2>3
<1>7. TypeOK'
  <2>1. status' \in [Reqs -> {"new", "sent", "admitted", "rejected"}]
    BY <1>1, <1>5 DEF TypeOK
  <2>2. expireAt' \in Nat
    BY <1>1, <1>4, TtlType DEF TypeOK, Time
  <2> QED
    BY <1>1, <1>2, <1>4, <1>6, <2>1, <2>2 DEF TypeOK
<1>8. Dated'
  BY <1>1, <1>5 DEF Dated, TypeOK
<1> QED
  BY <1>7, <1>8 DEF Typed

\* Every step keeps the types.
LEMMA NextTyped == Typed /\ [Next]_vars => Typed'
<1> SUFFICES ASSUME Typed, [Next]_vars
             PROVE  Typed'
  OBVIOUS
<1>1. TypeOK /\ Dated /\ now \in Nat
  BY DEF Typed, TypeOK, Time
<1>2. ASSUME NEW r \in Reqs, Send(r) PROVE Typed'
  BY <1>1, <1>2, BucketAssumption DEF Send, Typed, TypeOK, Dated, Time
<1>3. CASE Expire
  BY <1>1, <1>3, BucketAssumption DEF Expire, Typed, TypeOK, Dated, Never
<1>4. CASE Tick
  BY <1>1, <1>4, BucketAssumption DEF Tick, Typed, TypeOK, Dated, Time
<1>5. CASE UNCHANGED vars
  BY <1>1, <1>5 DEF vars, Typed, TypeOK, Dated
<1> QED
  BY <1>2, <1>3, <1>4, <1>5, RunTyped DEF Next

\* The fields of the key, the calls and the clock keep their types; tokens
\* stay between 0 and the capacity, however many gateways there are.
THEOREM TypeCorrect == Spec => []TypeOK
<1>1. Init => Typed
  BY BucketAssumption DEF Init, Typed, TypeOK, Dated, Time, Never
<1>2. Typed => TypeOK
  BY DEF Typed
<1> QED
  BY <1>1, <1>2, NextTyped, PTL DEF Spec

\* README, "Retry-After": "Seconds to wait before retrying".  The header is
\* short by less than a second: one second later than told there is room, if
\* nobody else comes, whatever the gateways do.  A bucket that does not refill
\* or is smaller than a request costs never has room.
THEOREM RetryAfterWithinASecondHolds ==
    ASSUME Rate # 0, Cost <= Capacity
    PROVE  Spec => RetryAfterWithinASecond
<1> DEFINE Suffices(r) ==
        status[r] = "sent" /\ status'[r] = "rejected" => Holds(Level(told[r] + 1))'
<1>1. ASSUME Typed, [Next]_vars, NEW r \in Reqs PROVE Suffices(r)
  <2> SUFFICES ASSUME status[r] = "sent", status'[r] = "rejected"
               PROVE  Holds(Level(told[r] + 1))'
    OBVIOUS
  <2>1. TypeOK /\ Dated
    BY <1>1 DEF Typed
  <2>2. Reject(r)
    BY <1>1, <2>1 DEF Next, vars, TypeOK, Send, Admit, Reject, HeadOfLine, Expire, Tick
  <2> DEFINE s == stamp[r]
             level == Level(s)
             w == RetryAfter(level)
  <2>3. s \in Time /\ s \in Nat /\ s # Never
    BY <2>1 DEF Dated, Time, Never
  <2>4. /\ level \in 0..Capacity /\ level < Cost
        /\ Cost \in Nat /\ Capacity \in Nat /\ Rate \in Nat
    BY <2>1, <2>2, <2>3, LevelType, BucketAssumption DEF Reject, Holds
  <2>5. tokens' = level /\ last' = s /\ told'[r] = s + w
    BY <2>1, <2>2 DEF Reject, TypeOK
  <2>6. w \in Nat /\ Rate * (w + 1) >= Cost - level
    BY <2>4, RetryAfterCovers
  <2> HIDE DEF s, level, w
  <2> DEFINE flow == Rate * (w + 1)
  <2>7. Level(told[r] + 1)' = Least(Capacity, level + flow)
    <3>1. PICK t : t = told'[r] + 1
      OBVIOUS
    <3>2. Level(told[r] + 1)' = Level(t)'
      BY <3>1, Zenon DEF Level
    <3>3. Level(t)' = IF last' = Never THEN Capacity
                      ELSE Least(Capacity, tokens' + Rate * Greatest(0, t - last'))
      BY DEF Level
    <3>4. t - last' = w + 1 /\ Greatest(0, t - last') = w + 1
      BY <2>3, <2>5, <2>6, <3>1 DEF Greatest
    <3> QED
      BY <2>3, <2>5, <3>2, <3>3, <3>4
  <2>8. flow \in Nat /\ flow >= Cost - level
    BY <2>4, <2>6
  <2> HIDE DEF flow
  <2> QED
    BY <2>4, <2>7, <2>8 DEF Least, Holds
<1>2. Typed /\ [Next]_vars => [\A r \in Reqs : Suffices(r)]_vars
  BY <1>1
<1>3. Init => Typed
  BY BucketAssumption DEF Init, Typed, TypeOK, Dated, Time, Never
<1> QED
  BY <1>2, <1>3, NextTyped, PTL DEF Spec, RetryAfterWithinASecond

-----------------------------------------------------------------------------
\* IndInv holds throughout: one gateway, prompt calls.
THEOREM Inductive ==
    ASSUME OneGateway, PromptCalls
    PROVE  Spec => []IndInv
<1>1. Init => IndInv
  BY InitInd
<1>2. IndInv /\ [Next]_vars => IndInv'
  <2> SUFFICES ASSUME IndInv, [Next]_vars
               PROVE  IndInv'
    OBVIOUS
  <2>1. ASSUME NEW r \in Reqs, Send(r) PROVE IndInv'
    BY <2>1, SendInd
  <2>2. ASSUME NEW r \in Reqs, Admit(r) PROVE IndInv'
    BY <2>2, AdmitInd
  <2>3. ASSUME NEW r \in Reqs, Reject(r) PROVE IndInv'
    BY <2>3, RejectInd
  <2>4. CASE Expire
    BY <2>4, ExpireInd
  <2>5. CASE Tick
    BY <2>5, TickInd
  <2>6. CASE UNCHANGED vars
    <3>1. \A i, j : AdmittedIn(i, j)' = AdmittedIn(i, j) /\ Given(i, j)' = Given(i, j)
      BY <2>6, SameGiven DEF vars, Admitted
    <3> QED
      BY <2>6, <3>1 DEF vars, IndInv, TypeOK, Dated, Ordered, Covered, Repaid,
                        IntervalBound
  <2> QED
    BY <2>1, <2>2, <2>3, <2>4, <2>5, <2>6 DEF Next
<1> QED
  BY <1>1, <1>2, PTL DEF Spec

\* README: "Bucket with capacity C, refilling at R tokens/second."  With one
\* gateway no interval, however long and wherever it starts, gives out more
\* than C and R times its length, although keys expire and calls are delayed.
THEOREM IntervalBoundHolds ==
    ASSUME OneGateway, PromptCalls
    PROVE  Spec => []IntervalBound
<1>1. IndInv => IntervalBound
  BY DEF IndInv
<1> QED
  BY <1>1, Inductive, PTL

-----------------------------------------------------------------------------
(* Every refusal is explained by an interval.                              *)

\* What the script finds is exactly what the last full bucket has left.
LEMMA LevelTight ==
    ASSUME IndInv, Tight, OneGateway, NEW r \in Reqs, HeadOfLine(r)
    PROVE  \E i \in Time : i <= stamp[r] /\
             Given(i, stamp[r]) + Level(stamp[r]) = Capacity + Rate * (stamp[r] - i)
<1> DEFINE s == stamp[r]
           level == Level(stamp[r])
<1>1. /\ s \in Time /\ s \in Nat /\ now <= s + MaxDelay
      /\ tokens \in Nat /\ tokens <= Capacity
      /\ Capacity \in Nat /\ Rate \in Nat
  BY RunsInOrder, BucketAssumption DEF IndInv, Dated, TypeOK, Time
<1>2. Rate * (s - s) = 0 /\ Given(s, s) \in Nat
  BY <1>1, GivenType
<1>3. CASE last = Never
  <2>1. level = Capacity
    BY <1>3 DEF Level
  <2>2. Given(s, s) <= Rate * (s - s)
    BY <1>1, <1>3 DEF IndInv, Repaid
  <2>3. Given(s, s) + level = Capacity + Rate * (s - s)
    BY <1>1, <1>2, <2>1, <2>2
  <2> QED
    BY <1>1, <2>3
<1>4. CASE last # Never
  <2> DEFINE flow == Rate * (s - last)
  <2>1. /\ last \in Time /\ last \in Nat /\ last <= s
        /\ \A q \in Admitted : stamp[q] \in Time /\ stamp[q] <= last
    BY <1>4, RunsInOrder DEF IndInv, Covered, TypeOK, Admitted, Dated, Time
  <2>2. flow \in Nat
    BY <1>1, <2>1
  <2>3. level = Least(Capacity, tokens + flow)
    BY <1>1, <1>4, <2>1 DEF Level, Greatest
  <2>4. CASE Capacity <= tokens + flow
    <3>1. level = Capacity
      <4> HIDE DEF level, flow
      <4> QED
        BY <1>1, <2>2, <2>3, <2>4 DEF Least
    <3>2. Given(s, s) = 0
      <4>1. CASE s > last
        BY <1>1, <2>1, <4>1, GivenUpTo
      <4>2. CASE s = last
        <5>1. Given(s, s) + tokens <= Capacity + Rate * (s - s)
          BY <1>1, <1>4, <4>2 DEF IndInv, Covered
        <5>2. flow = 0
          BY <1>2, <4>2
        <5> HIDE DEF flow, s
        <5> QED
          BY <1>1, <1>2, <2>4, <5>1, <5>2
      <4> QED
        BY <1>1, <2>1, <4>1, <4>2
    <3>3. Given(s, s) + level = Capacity + Rate * (s - s)
      BY <1>1, <1>2, <3>1, <3>2
    <3> QED
      BY <1>1, <3>3
  <2>5. CASE ~(Capacity <= tokens + flow)
    <3>1. PICK i \in Time : i <= last /\ Given(i, last) + tokens
                                            = Capacity + Rate * (last - i)
      BY <1>4 DEF Tight
    <3>2. i \in Nat /\ Given(i, s) \in Nat /\ Given(i, last) \in Nat
      BY GivenType DEF Time
    <3>3. Given(i, s) = Given(i, last)
      <4>1. AdmittedIn(i, last) \subseteq AdmittedIn(i, s)
        BY <1>1, <2>1 DEF AdmittedIn, Time
      <4>2. Given(i, last) <= Given(i, s)
        BY <4>1, GivenMonotone
      <4>3. Given(i, s) <= Given(i, last)
        BY <1>1, <2>1, GivenUpTo
      <4> QED
        BY <3>2, <4>2, <4>3
    <3>4. level = tokens + flow
      <4> HIDE DEF level, flow
      <4> QED
        BY <1>1, <2>2, <2>3, <2>5 DEF Least
    <3> DEFINE before == Rate * (last - i)
    <3>5. Rate * (s - i) = flow + before /\ before \in Int
      <4>1. /\ Rate * ((s - last) + (last - i)) = Rate * (s - last) + Rate * (last - i)
            /\ Rate * (last - i) \in Int
        BY <1>1, <2>1, <3>2, Products
      <4>2. (s - last) + (last - i) = s - i
        BY <1>1, <2>1, <3>2
      <4> QED
        BY <4>1, <4>2
    <3>6. Given(i, last) + tokens = Capacity + before
      BY <3>1
    <3>7. Given(i, s) + level = Capacity + (flow + before)
      <4> HIDE DEF flow, before, level, s
      <4> QED
        BY <1>1, <2>2, <3>2, <3>3, <3>4, <3>5, <3>6
    <3>8. i <= s
      BY <1>1, <2>1, <3>1, <3>2
    <3> QED
      BY <3>5, <3>7, <3>8
  <2> QED
    BY <2>4, <2>5
<1> QED
  BY <1>3, <1>4

\* Each step keeps the account exact.
LEMMA TightInd ==
    ASSUME IndInv, Tight, OneGateway, [Next]_vars
    PROVE  Tight'
<1>1. TypeOK
  BY DEF IndInv
<1>2. ASSUME UNCHANGED <<tokens, last>>, Admitted' = Admitted,
             \A r \in Admitted : stamp'[r] = stamp[r]
      PROVE  Tight'
  BY <1>2, SameGiven DEF Tight
<1>3. ASSUME NEW r \in Reqs, Send(r) PROVE Tight'
  <2>1. /\ UNCHANGED <<tokens, last>> /\ Admitted' = Admitted
        /\ \A q \in Admitted : stamp'[q] = stamp[q]
    BY <1>1, <1>3 DEF Send, Admitted, TypeOK
  <2> QED
    BY <1>2, <2>1
<1>4. ASSUME NEW r \in Reqs, Reject(r) PROVE Tight'
  <2>1. /\ HeadOfLine(r) /\ tokens' = Level(stamp[r]) /\ last' = stamp[r]
        /\ Admitted' = Admitted /\ stamp' = stamp
    BY <1>1, <1>4 DEF Reject, HeadOfLine, Admitted, TypeOK
  <2>2. \A i, j : Given(i, j)' = Given(i, j)
    BY <2>1, SameGiven
  <2>3. PICK i \in Time : i <= stamp[r] /\
             Given(i, stamp[r]) + Level(stamp[r]) = Capacity + Rate * (stamp[r] - i)
    BY <2>1, LevelTight
  <2>4. i <= last' /\ Given(i, last)' + tokens' = Capacity + Rate * (last' - i)
    <3>1. Given(i, last)' = Given(i, stamp[r])
      BY <2>1 DEF Given, AdmittedIn
    <3> QED
      BY <2>1, <2>3, <3>1
  <2> QED
    BY <2>4 DEF Tight
<1>5. ASSUME NEW r \in Reqs, Admit(r) PROVE Tight'
  <2> DEFINE s == stamp[r]
  <2>1. /\ HeadOfLine(r) /\ tokens' = Level(s) - Cost /\ last' = s /\ stamp' = stamp
        /\ s \in Time /\ s \in Nat /\ status[r] = "sent"
    BY <1>5, RunsInOrder DEF Admit, Time
  <2>2. PICK i \in Time : i <= s /\ Given(i, s) + Level(s) = Capacity + Rate * (s - i)
    BY <2>1, LevelTight
  <2>3. Given(i, last)' = Given(i, s) + Cost
    <3>1. Given(i, last)' = Given(i, s)'
      BY <2>1 DEF Given, AdmittedIn
    <3>2. Given(i, s)' = Given(i, s) + Cost
      BY <1>1, <1>5, <2>1, <2>2, AdmitGiven
    <3> QED
      BY <3>1, <3>2
  <2>4. Level(s) \in Nat /\ Given(i, s) \in Nat /\ Cost \in Nat
    BY <1>1, <2>1, LevelType, GivenType, BucketAssumption
  <2>5. i <= last' /\ Given(i, last)' + tokens' = Given(i, s) + Level(s)
    <3> HIDE DEF s
    <3> QED
      BY <2>1, <2>2, <2>3, <2>4
  <2> QED
    BY <2>1, <2>2, <2>5 DEF Tight
<1>6. CASE Expire
  BY <1>6 DEF Expire, Tight
<1>7. CASE Tick \/ UNCHANGED vars
  BY <1>2, <1>7 DEF Tick, vars, Admitted
<1> QED
  BY <1>3, <1>4, <1>5, <1>6, <1>7 DEF Next

\* token_bucket.lua refuses for one reason only: with one gateway a request
\* is admitted exactly when no interval that ends at its timestamp is
\* overdrawn by it, whatever the cap has spilled and Redis has expired.
THEOREM DecidesByHistoryHolds ==
    ASSUME OneGateway, PromptCalls
    PROVE  Spec => DecidesByHistory
<1> DEFINE Decides(r) ==
        status[r] = "sent" /\ status'[r] # "sent"
          => (status'[r] = "admitted"
                <=> \A i \in 1..stamp[r] :
                      Cost * (Cardinality(AdmittedIn(i, stamp[r])) + 1)
                          <= Capacity + Rate * (stamp[r] - i))
<1>1. ASSUME IndInv, Tight, [Next]_vars, NEW r \in Reqs PROVE Decides(r)
  <2> DEFINE s == stamp[r]
             Fine(i) == Cost * (Cardinality(AdmittedIn(i, s)) + 1) <= Capacity + Rate * (s - i)
  <2> SUFFICES ASSUME status[r] = "sent", status'[r] # "sent"
               PROVE  status'[r] = "admitted" <=> \A i \in 1..s : Fine(i)
    OBVIOUS
  <2>1. TypeOK
    BY <1>1 DEF IndInv
  <2>2. \/ Admit(r) /\ status'[r] = "admitted"
        \/ Reject(r) /\ status'[r] = "rejected"
    BY <1>1, <2>1 DEF Next, vars, TypeOK, Send, Admit, Reject, HeadOfLine, Expire, Tick
  <2>3. HeadOfLine(r)
    BY <2>2 DEF Admit, Reject
  <2>4. s \in Time /\ s \in Nat /\ \A i \in 1..s : i \in Time /\ i <= s /\ i \in Nat
    <3>1. s \in Time
      BY <1>1, <2>3, RunsInOrder
    <3> HIDE DEF s
    <3> QED
      BY <3>1, BucketAssumption DEF Time
  <2>5. Level(s) \in Nat /\ Cost \in Nat /\ Capacity \in Nat
    BY <2>1, <2>4, LevelType, BucketAssumption
  <2>6. ASSUME NEW i \in 1..s
        PROVE  /\ Given(i, s) \in Nat /\ Rate * (s - i) \in Int
               /\ Given(i, s) + Level(s) <= Capacity + Rate * (s - i)
               /\ Fine(i) <=> Given(i, s) + Cost <= Capacity + Rate * (s - i)
    <3>1. Given(i, s) \in Nat /\ Cardinality(AdmittedIn(i, s)) \in Nat
      BY GivenType
    <3>2. Cost * (Cardinality(AdmittedIn(i, s)) + 1) = Given(i, s) + Cost
      BY <2>5, <3>1 DEF Given
    <3>3. Rate * (s - i) \in Int
      BY <2>4, BucketAssumption
    <3>4. Given(i, s) + Level(s) <= Capacity + Rate * (s - i)
      BY <1>1, <2>3, <2>4, LevelCovered DEF HeadOfLine
    <3> QED
      BY <3>1, <3>2, <3>3, <3>4
  <2>7. CASE Admit(r) /\ status'[r] = "admitted"
    <3>1. Level(s) >= Cost
      BY <2>7 DEF Admit, Holds
    <3>2. ASSUME NEW i \in 1..s PROVE Fine(i)
      <4> DEFINE flow == Rate * (s - i)
      <4>1. /\ Given(i, s) \in Nat /\ flow \in Int
            /\ Given(i, s) + Level(s) <= Capacity + flow
            /\ Fine(i) <=> Given(i, s) + Cost <= Capacity + flow
        BY <2>6
      <4> HIDE DEF flow, Fine, s
      <4> QED
        BY <2>5, <3>1, <4>1
    <3> QED
      BY <2>7, <3>2
  <2>8. CASE Reject(r) /\ status'[r] = "rejected"
    <3>1. ~(Level(s) >= Cost)
      BY <2>8 DEF Reject, Holds
    <3>2. PICK i \in Time : i <= s /\ Given(i, s) + Level(s) = Capacity + Rate * (s - i)
      BY <1>1, <2>3, LevelTight
    <3>3. i \in 1..s
      BY <2>4, <3>2 DEF Time
    <3> DEFINE flow == Rate * (s - i)
    <3>4. /\ Given(i, s) \in Nat /\ flow \in Int
          /\ Given(i, s) + Level(s) = Capacity + flow
          /\ Fine(i) <=> Given(i, s) + Cost <= Capacity + flow
      BY <2>6, <3>2, <3>3
    <3>5. ~Fine(i)
      <4> HIDE DEF flow, Fine, s
      <4> QED
        BY <2>5, <3>1, <3>4
    <3> HIDE DEF Fine
    <3> QED
      BY <2>8, <3>3, <3>5
  <2> QED
    BY <2>2, <2>7, <2>8
<1>2. IndInv /\ Tight /\ [Next]_vars => [\A r \in Reqs : Decides(r)]_vars
  BY <1>1
<1>3. Init => Tight
  BY DEF Init, Tight
<1>4. IndInv /\ Tight /\ [Next]_vars => Tight'
  BY TightInd
<1> QED
  BY <1>2, <1>3, <1>4, Inductive, PTL DEF Spec, DecidesByHistory
=============================================================================
