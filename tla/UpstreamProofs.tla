-------------------------- MODULE UpstreamProofs ---------------------------
(***************************************************************************)
(* What stands between a request and the upstreams, checked by TLAPS for   *)
(* every value of the constants: first Coalescer, then HealthChecker with  *)
(* the registry and the load balancer below it.                            *)
(*                                                                         *)
(* Coalescer rests on the map: whoever is in flight holds the entry of its *)
(* key, or the key had an entry that was removed for its age or by the end *)
(* of a destroyed response; and a promise is pending while an entry or a   *)
(* follower points to it.                                                  *)
(*                                                                         *)
(* HealthChecker rests on the registry's order: two instances with one id  *)
(* are of different services, and that id was shared.  The load balancer's *)
(* fairness is arithmetic: in one round the counter meets every value      *)
(* below the total weight once, and an instance's stretch of those values  *)
(* is as long as its weight.                                               *)
(***************************************************************************)
EXTENDS Coalescer, HealthChecker, FiniteSetTheorems, SequenceTheorems,
        WellFoundedInduction, TLAPS

Pending(r) == r \in Reqs /\ InFlight(r) /\ promise[r] = "pending"

\* An entry is of a pending request of its key.
EntriesArePending ==
    \A k \in Keys : entry[k] # None => Pending(entry[k]) /\ KeyOf[entry[k]] = k

\* Whoever is in flight has its key's entry, or the key is overdue.
Entered(r) == entry[KeyOf[r]] = r \/ KeyOf[r] \in overdue

FollowersArePending ==
    \A f \in Reqs : phase[f] = "following" =>
        Pending(leader[f]) /\ KeyOf[leader[f]] = KeyOf[f]

CoalescerInv ==
    /\ TypeOK
    /\ EntriesArePending
    /\ FollowersArePending
    /\ \A r \in Reqs : InFlight(r) => Entered(r)
    /\ \A r \in Reqs : promise[r] # "pending" => phase[r] # "new"

-----------------------------------------------------------------------------
\* What the assumption says of the constants.
LEMMA Constants == /\ None \notin Reqs /\ MaxWait \in Nat
                   /\ \A r \in Reqs : KeyOf[r] \in Keys
BY CoalescerAssumption DEF None

\* The entries that go are the one of r, entries removed for their age, entries
\* of keys that are overdue already or become so with r's late end; those that stay are of nobody
\* whose promise is settled.
LEMMA SettleKeeps ==
    ASSUME CoalescerInv, NEW kept \in SUBSET Keys, NEW resolved, NEW rejected,
           NEW r, NEW p, Settle(kept, resolved, rejected, r, p),
           \/ r = None
           \/ /\ r \in (resolved \cup rejected) \cap Reqs
              /\ p \in {"answered", "destroyed", "ended"},
           \A k \in kept : entry[k] \in Reqs => entry[k] \notin resolved \cup rejected,
           \A k \in Keys \ kept : entry[k] \in Reqs =>
               \/ entry[k] = r
               \/ entry[k] \in rejected /\ age[k] > MaxWait
               \/ k \in overdue
               \/ r \in Reqs /\ phase[r] = "destroyed" /\ KeyOf[r] = k,
           \A q \in resolved \cup rejected : q \in Reqs => phase[q] # "new"
    PROVE  CoalescerInv'
<1>1. DEFINE won == {q \in resolved : promise[q] = "pending"}
             lost == {q \in rejected : promise[q] = "pending"}
<1>2. /\ promise' = [q \in Reqs |-> IF q \in won THEN "resolved"
                                    ELSE IF q \in lost THEN "rejected" ELSE promise[q]]
      /\ phase' = [q \in Reqs |->
                      IF q = r THEN p
                      ELSE IF \E l \in won : q \in Followers(l) THEN "answered"
                      ELSE IF \E l \in lost : q \in Followers(l) THEN "unanswered"
                      ELSE phase[q]]
      /\ entry' = [k \in Keys |-> IF k \in kept THEN entry[k] ELSE None]
      /\ overdue' = overdue \cup TakenAway(Keys \ kept, rejected, r)
      /\ leader' = leader /\ age' = age
  BY DEF Settle
<1>3. TypeOK /\ None \notin Reqs
  BY Constants DEF CoalescerInv
<1>4. TypeOK'
  <2>1. promise' \in [Reqs -> {"pending", "resolved", "rejected"}]
    BY <1>2, <1>3 DEF TypeOK
  <2>2. phase' \in [Reqs -> Phases]
    <3>1. ASSUME NEW q \in Reqs
          PROVE  (IF q = r THEN p
                  ELSE IF \E l \in won : q \in Followers(l) THEN "answered"
                  ELSE IF \E l \in lost : q \in Followers(l) THEN "unanswered"
                  ELSE phase[q]) \in Phases
      BY <1>3 DEF TypeOK, Phases
    <3> QED
      BY <1>2, <3>1
  <2>3. entry' \in [Keys -> Reqs \cup {None}] /\ overdue' \in SUBSET Keys
    BY <1>2, <1>3 DEF TypeOK, TakenAway
  <2> QED
    BY <1>2, <1>3, <2>1, <2>2, <2>3 DEF TypeOK
\* Nobody gets new, in flight or following by this.
<1>5. ASSUME NEW q \in Reqs, phase'[q] \in {"new", "leading", "gone", "following"}
      PROVE  /\ phase'[q] = phase[q] /\ q # r
             /\ phase[q] = "following" => leader[q] \notin won \cup lost
  BY <1>2, <1>3, <1>5 DEF Followers
\* A pending request that is not settled stays pending.
<1>6. ASSUME NEW q \in Reqs, Pending(q), q \notin resolved \cup rejected
      PROVE  Pending(q)'
  <2>1. q # r
    BY <1>3, <1>6
  <2>2. promise'[q] = "pending" /\ phase'[q] = phase[q]
    BY <1>2, <1>6, <2>1 DEF Pending, InFlight, Followers
  <2> QED
    BY <1>6, <2>2 DEF Pending, InFlight
<1>7. EntriesArePending'
  <2> SUFFICES ASSUME NEW k \in Keys, entry'[k] # None
               PROVE  Pending(entry[k])' /\ entry'[k] = entry[k] /\ KeyOf[entry[k]] = k
    BY DEF EntriesArePending, Pending, InFlight
  <2>1. k \in kept /\ entry'[k] = entry[k]
    BY <1>2
  <2>2. Pending(entry[k]) /\ KeyOf[entry[k]] = k /\ entry[k] \in Reqs
    BY <2>1 DEF CoalescerInv, EntriesArePending, Pending
  <2>3. entry[k] \notin resolved \cup rejected
    BY <2>1, <2>2
  <2>4. ASSUME NEW q \in Reqs, q = entry[k]
        PROVE  Pending(q)'
    BY <1>6, <2>2, <2>3, <2>4
  <2> QED
    BY <2>1, <2>2, <2>4 DEF Pending, InFlight
<1>8. FollowersArePending'
  <2> SUFFICES ASSUME NEW f \in Reqs, phase'[f] = "following"
               PROVE  \E q \in Reqs : q = leader'[f] /\ Pending(q)' /\ KeyOf[q] = KeyOf[f]
    BY DEF FollowersArePending, Pending, InFlight
  <2>1. phase[f] = "following" /\ leader[f] \notin won \cup lost
    BY <1>5
  <2>2. Pending(leader[f]) /\ leader[f] \in Reqs /\ KeyOf[leader[f]] = KeyOf[f]
    BY <2>1 DEF CoalescerInv, FollowersArePending, Pending
  <2>3. leader[f] \notin resolved \cup rejected
    BY <2>1, <2>2 DEF Pending
  <2> QED
    BY <1>2, <1>6, <2>2, <2>3
<1>9. ASSUME NEW q \in Reqs, InFlight(q)'
      PROVE  Entered(q)'
  <2>1. InFlight(q) /\ q # r /\ KeyOf[q] \in Keys
    BY <1>5, <1>9, Constants DEF InFlight
  <2>2. CASE KeyOf[q] \in overdue
    BY <1>2, <2>2 DEF Entered
  <2>3. CASE entry[KeyOf[q]] = q /\ KeyOf[q] \in kept
    BY <1>2, <2>1, <2>3 DEF Entered
  <2>4. CASE entry[KeyOf[q]] = q /\ KeyOf[q] \notin kept
    BY <1>2, <1>3, <2>1, <2>4 DEF Entered, TakenAway
  <2> QED
    BY <2>1, <2>2, <2>3, <2>4 DEF CoalescerInv, Entered
<1>10. ASSUME NEW q \in Reqs, promise'[q] # "pending"
       PROVE  phase'[q] # "new"
  <2>1. CASE promise[q] # "pending"
    BY <1>5, <2>1 DEF CoalescerInv
  <2>2. CASE promise[q] = "pending"
    BY <1>2, <1>5, <1>10, <2>2
  <2> QED
    BY <2>1, <2>2
<1> QED
  BY <1>4, <1>7, <1>8, <1>9, <1>10 DEF CoalescerInv

\* The end of a response deletes the entry of its key, whoever's it is: when
\* it is another's, the key is overdue or the response had been destroyed.
LEMMA EndKeeps ==
    ASSUME CoalescerInv, NEW r \in Reqs, End(r) \/ LateEnd(r) \/ Destroy(r)
    PROVE  CoalescerInv'
<1>1. TypeOK /\ KeyOf[r] \in Keys /\ None \notin Reqs
      /\ (entry[KeyOf[r]] = r \/ KeyOf[r] \in overdue \/ phase[r] = "destroyed")
      /\ phase[r] # "new"
  BY Constants DEF CoalescerInv, Entered, End, LateEnd, Destroy, InFlight
<1>2. \A k \in Keys : entry[k] \in Reqs =>
          KeyOf[entry[k]] = k /\ phase[entry[k]] # "new"
  BY <1>1 DEF CoalescerInv, EntriesArePending, Pending, InFlight
<1>3. CASE End(r) \/ LateEnd(r)
  <2> DEFINE others == Keys \ {KeyOf[r]}
             expired == Expired(others)
             rejected == {entry[k] : k \in expired}
  <2>1. PICK p \in {"answered", "ended"} : Settle(others \ expired, {r}, rejected, r, p)
    BY <1>3 DEF End, LateEnd, Ends
  <2>2. expired \in SUBSET others /\ \A k \in expired : entry[k] # None /\ age[k] > MaxWait
    BY DEF Expired
  <2>3. \A k \in others \ expired :
            entry[k] \in Reqs => entry[k] \notin {r} \cup rejected
    BY <1>2, <2>2
  <2>4. \A k \in Keys \ (others \ expired) : entry[k] \in Reqs =>
            \/ entry[k] = r
            \/ entry[k] \in rejected /\ age[k] > MaxWait
            \/ k \in overdue
            \/ r \in Reqs /\ phase[r] = "destroyed" /\ KeyOf[r] = k
    BY <1>1, <2>2
  <2>5. \A q \in {r} \cup rejected : q \in Reqs => phase[q] # "new"
    BY <1>1, <1>2, <2>2
  <2> HIDE DEF expired, rejected
  <2>6. others \ expired \in SUBSET Keys /\ r \in ({r} \cup rejected) \cap Reqs
    OBVIOUS
  <2> QED
    BY <2>1, <2>3, <2>4, <2>5, <2>6, SettleKeeps
<1>4. CASE Destroy(r)
  <2> DEFINE kept == Keys \ {KeyOf[r]}
  <2>1. Settle(kept, {}, {r}, r, "destroyed")
    BY <1>4 DEF Destroy
  <2>2. /\ kept \in SUBSET Keys /\ r \in ({} \cup {r}) \cap Reqs
        /\ \A k \in kept : entry[k] \in Reqs => entry[k] \notin {} \cup {r}
        /\ \A k \in Keys \ kept : entry[k] \in Reqs =>
               \/ entry[k] = r
               \/ entry[k] \in {r} /\ age[k] > MaxWait
               \/ k \in overdue
               \/ r \in Reqs /\ phase[r] = "destroyed" /\ KeyOf[r] = k
        /\ \A q \in {} \cup {r} : q \in Reqs => phase[q] # "new"
    BY <1>1, <1>2
  <2> HIDE DEF kept
  <2> QED
    BY <2>1, <2>2, SettleKeeps
<1> QED
  BY <1>3, <1>4

\* cleanup() settles the entries that are too old.
LEMMA CleanupKeeps ==
    ASSUME CoalescerInv, Cleanup
    PROVE  CoalescerInv'
<1> DEFINE expired == Expired(Keys)
           rejected == {entry[k] : k \in expired}
<1>1. Settle(Keys \ expired, {}, rejected, None, None)
  BY DEF Cleanup
<1>2. \A k \in Keys : entry[k] \in Reqs =>
          KeyOf[entry[k]] = k /\ phase[entry[k]] # "new"
  BY Constants DEF CoalescerInv, EntriesArePending, Pending, InFlight
<1>3. expired \in SUBSET Keys /\ \A k \in expired : entry[k] # None /\ age[k] > MaxWait
  BY DEF Expired
<1>4. /\ Keys \ expired \in SUBSET Keys
      /\ \A k \in Keys \ expired : entry[k] \in Reqs => entry[k] \notin {} \cup rejected
      /\ \A k \in Keys \ (Keys \ expired) : entry[k] \in Reqs =>
             \/ entry[k] = None
             \/ entry[k] \in rejected /\ age[k] > MaxWait
             \/ k \in overdue
             \/ None \in Reqs /\ phase[None] = "destroyed" /\ KeyOf[None] = k
      /\ \A q \in {} \cup rejected : q \in Reqs => phase[q] # "new"
  BY <1>2, <1>3
<1> HIDE DEF expired, rejected
<1> QED
  BY <1>1, <1>4, SettleKeeps

\* A request enters its key, or follows whoever has entered it.
LEMMA ArriveKeeps ==
    ASSUME CoalescerInv, NEW r \in Reqs, Arrive(r)
    PROVE  CoalescerInv'
<1>1. TypeOK /\ phase[r] = "new" /\ promise[r] = "pending" /\ KeyOf[r] \in Keys
      /\ promise' = promise /\ overdue' = overdue /\ None \notin Reqs
  BY Constants DEF CoalescerInv, Arrive
<1>2. CASE entry[KeyOf[r]] = None
  <2>1. /\ entry' = [entry EXCEPT ![KeyOf[r]] = r]
        /\ phase' = [phase EXCEPT ![r] = "leading"] /\ leader' = leader
        /\ age' = [age EXCEPT ![KeyOf[r]] = 0] /\ 0 \in 0..MaxWait + 1
    BY <1>2, Constants DEF Arrive
  <2>2. /\ TypeOK' /\ phase'[r] = "leading" /\ entry'[KeyOf[r]] = r
        /\ \A q \in Reqs \ {r} : phase'[q] = phase[q]
        /\ \A k \in Keys \ {KeyOf[r]} : entry'[k] = entry[k]
    BY <1>1, <2>1 DEF TypeOK, Phases
  <2>3. ASSUME NEW q \in Reqs, Pending(q)
        PROVE  Pending(q)'
    BY <1>1, <2>2, <2>3 DEF Pending, InFlight
  <2>4. EntriesArePending'
    <3> SUFFICES ASSUME NEW k \in Keys, entry'[k] # None
                 PROVE  \E q \in Reqs : q = entry'[k] /\ Pending(q)' /\ KeyOf[q] = k
      BY DEF EntriesArePending, Pending, InFlight
    <3>1. CASE k = KeyOf[r]
      BY <1>1, <2>2, <3>1 DEF Pending, InFlight
    <3>2. CASE k # KeyOf[r]
      BY <2>2, <2>3, <3>2 DEF CoalescerInv, EntriesArePending, Pending
    <3> QED
      BY <3>1, <3>2
  <2>5. FollowersArePending'
    <3> SUFFICES ASSUME NEW f \in Reqs, phase'[f] = "following"
                 PROVE  \E q \in Reqs : q = leader'[f] /\ Pending(q)' /\ KeyOf[q] = KeyOf[f]
      BY DEF FollowersArePending, Pending, InFlight
    <3> QED
      BY <2>1, <2>2, <2>3 DEF CoalescerInv, FollowersArePending, Pending
\* Another request of the key that is in flight has lost its entry.
  <2>6. ASSUME NEW q \in Reqs, InFlight(q)'
        PROVE  Entered(q)'
    BY <1>1, <1>2, <2>2, <2>6, Constants DEF CoalescerInv, InFlight, Entered
  <2> QED
    BY <1>1, <2>2, <2>4, <2>5, <2>6 DEF CoalescerInv
<1>3. CASE entry[KeyOf[r]] # None
  <2>1. /\ phase' = [phase EXCEPT ![r] = "following"]
        /\ leader' = [leader EXCEPT ![r] = entry[KeyOf[r]]]
        /\ entry' = entry /\ age' = age
    BY <1>3 DEF Arrive
  <2>2. Pending(entry[KeyOf[r]]) /\ KeyOf[entry[KeyOf[r]]] = KeyOf[r]
        /\ entry[KeyOf[r]] \in Reqs
    BY <1>1, <1>3 DEF CoalescerInv, EntriesArePending, Pending
  <2>3. /\ TypeOK' /\ phase'[r] = "following" /\ leader'[r] = entry[KeyOf[r]]
        /\ \A q \in Reqs \ {r} : phase'[q] = phase[q] /\ leader'[q] = leader[q]
    BY <1>1, <2>1, <2>2 DEF TypeOK, Phases
  <2>4. ASSUME NEW q \in Reqs, Pending(q)
        PROVE  Pending(q)'
    BY <1>1, <2>3, <2>4 DEF Pending, InFlight
  <2>5. EntriesArePending'
    <3> SUFFICES ASSUME NEW k \in Keys, entry'[k] # None
                 PROVE  \E q \in Reqs : q = entry'[k] /\ Pending(q)' /\ KeyOf[q] = k
      BY DEF EntriesArePending, Pending, InFlight
    <3> QED
      BY <2>1, <2>4 DEF CoalescerInv, EntriesArePending, Pending
  <2>6. FollowersArePending'
    <3> SUFFICES ASSUME NEW f \in Reqs, phase'[f] = "following"
                 PROVE  \E q \in Reqs : q = leader'[f] /\ Pending(q)' /\ KeyOf[q] = KeyOf[f]
      BY DEF FollowersArePending, Pending, InFlight
    <3>1. CASE f = r
      BY <2>2, <2>3, <2>4, <3>1
    <3>2. CASE f # r
      BY <2>3, <2>4, <3>2 DEF CoalescerInv, FollowersArePending, Pending
    <3> QED
      BY <3>1, <3>2
  <2>7. ASSUME NEW q \in Reqs, InFlight(q)'
        PROVE  Entered(q)'
    BY <1>1, <2>1, <2>3, <2>7 DEF CoalescerInv, InFlight, Entered
  <2> QED
    BY <1>1, <2>3, <2>5, <2>6, <2>7 DEF CoalescerInv
<1> QED
  BY <1>2, <1>3

\* A client that leaves settles nothing.
LEMMA ClientLeavesKeeps ==
    ASSUME CoalescerInv, NEW r \in Reqs, ClientLeaves(r)
    PROVE  CoalescerInv'
<1>1. /\ TypeOK /\ phase[r] = "leading" /\ phase' = [phase EXCEPT ![r] = "gone"]
      /\ UNCHANGED <<entry, age, leader, promise, overdue>>
  BY DEF CoalescerInv, ClientLeaves
<1>2. TypeOK' /\ phase'[r] = "gone" /\ \A q \in Reqs \ {r} : phase'[q] = phase[q]
  BY <1>1 DEF TypeOK, Phases
<1>3. \A q \in Reqs : /\ InFlight(q)' <=> InFlight(q)
                      /\ phase'[q] = "following" <=> phase[q] = "following"
                      /\ phase'[q] = "new" <=> phase[q] = "new"
  BY <1>1, <1>2 DEF InFlight
<1>4. EntriesArePending' /\ FollowersArePending'
  BY <1>1, <1>3 DEF CoalescerInv, EntriesArePending, FollowersArePending, Pending, InFlight
<1>5. (\A q \in Reqs : InFlight(q)' => Entered(q)')
      /\ \A q \in Reqs : promise'[q] # "pending" => phase'[q] # "new"
  BY <1>1, <1>3 DEF CoalescerInv, Entered
<1> QED
  BY <1>2, <1>4, <1>5 DEF CoalescerInv

-----------------------------------------------------------------------------
\* Nobody is in flight at first.
LEMMA CoalescerStarts == Init => CoalescerInv
BY Constants
   DEF Init, CoalescerInv, TypeOK, Phases, EntriesArePending, FollowersArePending, InFlight

\* The invariant always holds.
LEMMA CoalescerInductive == Spec => []CoalescerInv
<1>1. CoalescerInv /\ [Next]_vars => CoalescerInv'
  <2> SUFFICES ASSUME CoalescerInv, [Next]_vars
               PROVE  CoalescerInv'
    OBVIOUS
  <2>1. ASSUME NEW r \in Reqs,
               Arrive(r) \/ End(r) \/ LateEnd(r) \/ Destroy(r) \/ ClientLeaves(r)
        PROVE  CoalescerInv'
    BY <2>1, ArriveKeeps, EndKeeps, ClientLeavesKeeps
  <2>2. CASE Cleanup
    BY <2>2, CleanupKeeps
  <2>3. CASE Tick \/ UNCHANGED vars
    <3>1. UNCHANGED <<entry, phase, leader, promise, overdue>>
      BY <2>3 DEF Tick, vars
    <3>2. age' \in [Keys -> 0..MaxWait + 1]
      BY <2>3, Constants DEF CoalescerInv, TypeOK, Tick, vars
    <3> QED
      BY <3>1, <3>2 DEF CoalescerInv, TypeOK, EntriesArePending, FollowersArePending,
                        Pending, InFlight, Entered
  <2> QED
    BY <2>1, <2>2, <2>3 DEF Next
<1> QED
  BY <1>1, CoalescerStarts, PTL DEF Spec

\* The map, the promises and the followers of request-coalescer.ts keep their
\* types.
THEOREM CoalescerTypeCorrect == Spec => []TypeOK
<1>1. CoalescerInv => TypeOK
  BY DEF CoalescerInv
<1> QED
  BY <1>1, CoalescerInductive, PTL

\* Requests of one key reach the upstream one at a time, while no response
\* took longer than MAX_WAIT_MS or was ended after it had been destroyed.
THEOREM SingleFlightHolds == Spec => []SingleFlight
<1>1. ASSUME CoalescerInv, NEW k \in Keys \ overdue
      PROVE  Cardinality({r \in Reqs : InFlight(r) /\ KeyOf[r] = k}) <= 1
  <2> DEFINE S == {r \in Reqs : InFlight(r) /\ KeyOf[r] = k}
  <2>1. S \subseteq {entry[k]}
    BY <1>1 DEF CoalescerInv, Entered
  <2>2. IsFiniteSet({entry[k]}) /\ Cardinality({entry[k]}) = 1
    BY FS_Singleton
  <2> HIDE DEF S
  <2>3. Cardinality(S) <= 1
    BY <2>1, <2>2, FS_Subset
  <2> QED
    BY <2>3 DEF S
<1>2. CoalescerInv => SingleFlight
  BY <1>1 DEF SingleFlight
<1> QED
  BY <1>2, CoalescerInductive, PTL

\* A follower's leader is in flight and still to be found by cleanup(), unless
\* an older leader of the key overstayed or was ended after its destruction.
THEOREM WaitersAreTimedHolds == Spec => []WaitersAreTimed
<1>1. ASSUME CoalescerInv, NEW f \in Reqs, phase[f] = "following"
      PROVE  /\ InFlight(leader[f]) /\ promise[leader[f]] = "pending"
             /\ entry[KeyOf[f]] = leader[f] \/ KeyOf[f] \in overdue
  <2>1. Pending(leader[f]) /\ KeyOf[leader[f]] = KeyOf[f]
    BY <1>1 DEF CoalescerInv, FollowersArePending
  <2> QED
    BY <1>1, <2>1 DEF CoalescerInv, Pending, Entered
<1>2. CoalescerInv => WaitersAreTimed
  BY <1>1 DEF WaitersAreTimed
<1> QED
  BY <1>2, CoalescerInductive, PTL
-----------------------------------------------------------------------------
(* Recursive functions over 0..n *)

\* A nonempty set of natural numbers has a least element.
LEMMA LeastNatural ==
    ASSUME NEW S \in SUBSET Nat, S # {}
    PROVE  \E s \in S : \A u \in S : s <= u
<1>1. S \subseteq Nat
  OBVIOUS
<1>2. PICK s \in S : \A u \in S : ~(<<u, s>> \in OpToRel(<, Nat))
  BY <1>1, NatLessThanWellFounded, WFMin, Zenon
<1>3. \A u \in S : ~(u < s)
  BY <1>1, <1>2, Zenon DEF OpToRel
<1> QED
  BY <1>1, <1>3

\* Induction up to n, for a set.
LEMMA UpTo ==
    ASSUME NEW n \in Nat, NEW S, 0 \in S, \A k \in 1..n : k - 1 \in S => k \in S
    PROVE  \A k \in 0..n : k \in S
<1> SUFFICES ASSUME NEW m \in 0..n, m \notin S PROVE FALSE
  OBVIOUS
<1> DEFINE B == {k \in 0..n : k \notin S}
<1>1. PICK k \in B : \A u \in B : k <= u
  <2>1. B \in SUBSET Nat /\ B # {}
    OBVIOUS
  <2> HIDE DEF B
  <2> QED
    BY <2>1, LeastNatural
<1>2. k # 0 /\ k \in 1..n /\ k - 1 \in 0..n /\ ~(k <= k - 1)
  BY <1>1
<1>3. k - 1 \in S
  BY <1>1, <1>2
<1> QED
  BY <1>1, <1>2, <1>3

\* f is defined by recursion up to n.
Recurs(f, n, base, G) == f = [k \in 0..n |-> IF k = 0 THEN base ELSE G[k][f[k - 1]]]

\* Such a function exists.
LEMMA Recursion ==
    ASSUME NEW n \in Nat, NEW D, NEW base \in D, NEW G \in [1..n -> [D -> D]]
    PROVE  \E f \in [0..n -> D] : Recurs(f, n, base, G)
<1> USE DEF Recurs
<1> DEFINE Solves(m, f) == Recurs(f, m, base, G)
           S == {m \in 0..n : \E f \in [0..m -> D] : Solves(m, f)}
<1>1. 0 \in S
  <2> DEFINE f == [k \in 0..0 |-> base]
  <2>1. f \in [0..0 -> D] /\ Solves(0, f)
    OBVIOUS
  <2>2. 0 \in 0..n
    OBVIOUS
  <2> HIDE DEF f, Solves
  <2> QED
    BY <2>1, <2>2
<1>2. ASSUME NEW m \in 1..n, m - 1 \in S PROVE m \in S
  <2>1. PICK f \in [0..m - 1 -> D] : Solves(m - 1, f)
    BY <1>2
  <2> DEFINE g == [k \in 0..m |-> IF k = m THEN G[m][f[m - 1]] ELSE f[k]]
  <2>2. G[m][f[m - 1]] \in D
    BY <2>1
  <2>3. \A k \in 0..m : k # m => k \in 0..m - 1
    OBVIOUS
  <2>4. g \in [0..m -> D]
    BY <2>2, <2>3
  <2>5. ASSUME NEW k \in 0..m
        PROVE  g[k] = IF k = 0 THEN base ELSE G[k][g[k - 1]]
    <3>1. CASE k = m
      <4>1. k - 1 # m /\ k - 1 \in 0..m /\ k # 0
        BY <3>1
      <4> QED
        BY <3>1, <4>1
    <3>2. CASE k # m
      <4>1. k \in 0..m - 1 /\ k - 1 # m /\ (k # 0 => k - 1 \in 0..m)
        BY <3>2
      <4>2. f[k] = IF k = 0 THEN base ELSE G[k][f[k - 1]]
        BY <2>1, <4>1
      <4> QED
        BY <3>2, <4>1, <4>2
    <3> QED
      BY <3>1, <3>2
  <2>6. Solves(m, g)
    <3> HIDE DEF g
    <3>1. g = [k \in 0..m |-> g[k]]
      BY <2>4
    <3> QED
      BY <2>5, <3>1
  <2> HIDE DEF g, Solves
  <2> QED
    BY <2>4, <2>6
<1>3. n \in S
  <2>1. n \in 0..n
    OBVIOUS
  <2> HIDE DEF S
  <2> QED
    BY <1>1, <1>2, <2>1, UpTo
<1> HIDE DEF Recurs
<1> QED
  BY <1>3

-----------------------------------------------------------------------------
(* weightedRoundRobin *)

\* Instances whose weights share out a round.
Positive == {inst \in Instances : inst.weight > 0}

\* The weights of a list of instances are integers.
LEMMA InstancesOf ==
    ASSUME NEW list \in Seq(Instances)
    PROVE  /\ Len(list) \in Nat /\ DOMAIN list = 1..Len(list)
           /\ \A k \in 1..Len(list) : list[k] \in Instances /\ list[k].weight \in Int
<1>1. Len(list) \in Nat /\ DOMAIN list = 1..Len(list)
      /\ \A k \in 1..Len(list) : list[k] \in Instances
  OBVIOUS
<1>2. \A inst \in Instances : inst.weight \in Weights
  BY DEF Instances
<1> QED
  BY <1>1, <1>2, RegistryAssumption

\* ... and positive ones, if it is a list of such instances.
LEMMA PositiveOf ==
    ASSUME NEW list \in Seq(Positive)
    PROVE  /\ list \in Seq(Instances)
           /\ \A k \in 1..Len(list) : list[k].weight \in Nat \ {0}
<1>1. Positive \subseteq Instances
  BY DEF Positive
<1>2. list \in Seq(Instances)
  BY <1>1
<1>3. \A k \in 1..Len(list) : list[k] \in Positive
  OBVIOUS
<1>4. \A k \in 1..Len(list) : list[k].weight \in Int /\ list[k].weight > 0
  BY <1>2, <1>3, InstancesOf DEF Positive
<1> QED
  BY <1>2, <1>4

\* What the recursive definition of cumulative[] computes.
LEMMA CumulativeIs ==
    ASSUME NEW list \in Seq(Instances)
    PROVE  /\ Cumulative(list) \in [0..Len(list) -> Int]
           /\ Cumulative(list)[0] = 0
           /\ \A k \in 1..Len(list) :
                  Cumulative(list)[k] = Cumulative(list)[k - 1] + list[k].weight
<1> DEFINE n == Len(list)
           G == [k \in 1..n |-> [x \in Int |-> x + list[k].weight]]
           C == Cumulative(list)
           S == {k \in 0..n : C[k] \in Int}
<1>1. n \in Nat /\ \A k \in 1..n : list[k].weight \in Int
  BY InstancesOf
<1>2. G \in [1..n -> [Int -> Int]]
  BY <1>1
<1>3. PICK f \in [0..n -> Int] : Recurs(f, n, 0, G)
  <2>1. n \in Nat /\ 0 \in Int
    BY <1>1
  <2> HIDE DEF G, n
  <2> QED
    BY <1>2, <2>1, Recursion, Zenon
<1>4. f = [k \in 0..n |-> IF k = 0 THEN 0 ELSE f[k - 1] + list[k].weight]
  <2>1. ASSUME NEW k \in 0..n, k # 0 PROVE G[k][f[k - 1]] = f[k - 1] + list[k].weight
    <3>1. k \in 1..n /\ k - 1 \in 0..n
      BY <1>1, <2>1
    <3>2. f[k - 1] \in Int
      BY <3>1
    <3> QED
      BY <3>1, <3>2
  <2> HIDE DEF G, n
  <2> QED
    BY <1>3, <2>1 DEF Recurs
<1>5. C = [k \in 0..n |-> IF k = 0 THEN 0 ELSE C[k - 1] + list[k].weight]
  BY <1>4 DEF Cumulative
<1> HIDE DEF C
<1>6. C[0] = 0 /\ \A k \in 1..n : C[k] = C[k - 1] + list[k].weight
  <2>1. 0 \in 0..n /\ \A k \in 1..n : k \in 0..n /\ k # 0
    BY <1>1
  <2> HIDE DEF n
  <2> QED
    BY <1>5, <2>1
<1>7. \A k \in 0..n : k \in S
  <2>1. 0 \in S
    BY <1>1, <1>6
  <2>2. ASSUME NEW k \in 1..n, k - 1 \in S PROVE k \in S
    <3>1. k \in 0..n /\ list[k].weight \in Int /\ C[k] = C[k - 1] + list[k].weight
      <4> HIDE DEF G, S
      <4> QED
        BY <1>1, <1>6
    <3>2. C[k - 1] \in Int
      BY <2>2
    <3> HIDE DEF n, G
    <3> QED
      BY <3>1, <3>2
  <2> HIDE DEF S, n
  <2> QED
    BY <1>1, <2>1, <2>2, UpTo
<1> QED
  BY <1>5, <1>6, <1>7 DEF C

\* The stretches of the weights follow each other.
LEMMA CumulativeGrows ==
    ASSUME NEW list \in Seq(Positive), NEW j \in 0..Len(list), NEW k \in 0..Len(list), j <= k
    PROVE  Cumulative(list)[j] <= Cumulative(list)[k]
<1> DEFINE C == Cumulative(list)
           n == Len(list)
           S == {m \in 0..n : j <= m => C[j] <= C[m]}
<1>1. n \in Nat /\ (\A m \in 1..n : list[m].weight \in Nat) /\ C \in [0..n -> Int]
      /\ \A m \in 1..n : C[m] = C[m - 1] + list[m].weight
  BY InstancesOf, PositiveOf, CumulativeIs
<1> HIDE DEF C, n
<1>2. j \in 0..n /\ k \in 0..n
  BY DEF n
<1>3. 0 \in S
  BY <1>1, <1>2
<1>4. ASSUME NEW m \in 1..n, m - 1 \in S PROVE m \in S
  <2>1. m \in 0..n /\ m - 1 \in 0..n /\ C[m] \in Int /\ C[m - 1] \in Int /\ C[j] \in Int
        /\ C[m] = C[m - 1] + list[m].weight /\ list[m].weight \in Nat
    BY <1>1, <1>2
  <2>2. j <= m => j = m \/ j <= m - 1
    BY <1>1, <1>2
  <2> QED
    BY <1>4, <2>1, <2>2
<1>5. k \in S
  <2> HIDE DEF S
  <2> QED
    BY <1>1, <1>2, <1>3, <1>4, UpTo
<1> QED
  BY <1>5 DEF C

\* The running sums of positive weights are natural numbers.
LEMMA PositiveSums ==
    ASSUME NEW list \in Seq(Positive)
    PROVE  /\ Len(list) \in Nat /\ DOMAIN list = 1..Len(list)
           /\ Cumulative(list) \in [0..Len(list) -> Nat]
           /\ Cumulative(list)[0] = 0
<1>1. Len(list) \in Nat /\ DOMAIN list = 1..Len(list)
      /\ Cumulative(list) \in [0..Len(list) -> Int] /\ Cumulative(list)[0] = 0
  BY PositiveOf, InstancesOf, CumulativeIs
<1>2. ASSUME NEW k \in 0..Len(list) PROVE Cumulative(list)[k] \in Nat
  <2>1. 0 \in 0..Len(list) /\ 0 <= k
    BY <1>1
  <2>2. Cumulative(list)[0] <= Cumulative(list)[k]
    BY <2>1, CumulativeGrows
  <2> QED
    BY <1>1, <2>2
<1> QED
  BY <1>1, <1>2

\* The values of the counter that choose the k-th instance.
Stretch(list, k) == Cumulative(list)[k - 1]..Cumulative(list)[k] - 1

\* Every value of the counter is in one stretch, whose instance is chosen.
LEMMA ChosenIs ==
    ASSUME NEW list \in Seq(Positive), NEW v \in 0..Total(list) - 1
    PROVE  \A k \in 1..Len(list) : Chosen(list, v) = k <=> v \in Stretch(list, k)
<1> DEFINE C == Cumulative(list)
           n == Len(list)
           B == {k \in 1..n : v # NaN /\ v < C[k]}
<1>1. /\ n \in Nat /\ C \in [0..n -> Nat] /\ C[0] = 0 /\ Total(list) = C[n]
      /\ DOMAIN list = 1..n
      /\ \A i, k \in 0..n : i <= k => C[i] <= C[k]
  BY PositiveSums, CumulativeGrows DEF Total
<1>2. v \in Nat /\ v < C[n] /\ n \in 1..n /\ v # NaN
  <2>1. v \in Nat /\ v < C[n]
    BY <1>1
  <2>2. n # 0
    BY <1>1, <2>1
  <2> QED
    BY <1>1, <2>1, <2>2, RegistryAssumption
<1> HIDE DEF C, n
<1>3. B # {} /\ Chosen(list, v) = Min(B)
  BY <1>1, <1>2 DEF Chosen, C
<1> DEFINE m == Min(B)
<1>4. m \in 1..n /\ v \in C[m - 1]..C[m] - 1
  <2>1. m \in B /\ \A u \in B : m <= u
    <3>1. B \in SUBSET Nat
      BY <1>1
    <3> HIDE DEF B
    <3>2. \E x \in B : \A u \in B : x <= u
      BY <1>3, <3>1, LeastNatural
    <3> QED
      BY <3>2 DEF Min
  <2> HIDE DEF m
  <2>2. m \in 1..n /\ m - 1 \in 0..n /\ ~(m <= m - 1) /\ v < C[m]
    BY <1>1, <2>1
  <2>3. ~(v < C[m - 1])
    <3>1. CASE m = 1
      BY <1>1, <1>2, <3>1
    <3>2. CASE m # 1
      <4>1. m - 1 \in 1..n
        BY <2>2, <3>2
      <4> QED
        BY <1>2, <2>1, <2>2, <4>1
    <3> QED
      BY <3>1, <3>2
  <2>4. C[m - 1] \in Nat /\ C[m] \in Nat
    BY <1>1, <2>2
  <2> QED
    BY <1>2, <2>2, <2>3, <2>4
<1>5. ASSUME NEW j \in 1..n, NEW k \in 1..n, v \in C[j - 1]..C[j] - 1, v \in C[k - 1]..C[k] - 1
      PROVE  j = k
  <2>1. j \in 0..n /\ k \in 0..n /\ j - 1 \in 0..n /\ k - 1 \in 0..n
    BY <1>1
  <2>2. C[j] \in Nat /\ C[k] \in Nat /\ C[j - 1] \in Nat /\ C[k - 1] \in Nat
    BY <1>1, <2>1
  <2>3. ~(j <= k - 1)
    BY <1>1, <1>2, <1>5, <2>1, <2>2
  <2>4. ~(k <= j - 1)
    BY <1>1, <1>2, <1>5, <2>1, <2>2
  <2> QED
    BY <2>1, <2>3, <2>4
<1>6. Chosen(list, v) \in 1..n /\ v \in C[Chosen(list, v) - 1]..C[Chosen(list, v)] - 1
  BY <1>3, <1>4
<1>7. ASSUME NEW k \in 1..n PROVE Chosen(list, v) = k <=> v \in C[k - 1]..C[k] - 1
  BY <1>5, <1>6
<1> QED
  BY <1>7 DEF C, n, Stretch

\* Division with remainder has one result.
LEMMA RemainderIs ==
    ASSUME NEW x \in Nat, NEW d \in Nat \ {0}, NEW q \in Nat, NEW r \in 0..d-1, x = d * q + r
    PROVE  x % d = r
BY SMTT(30)

\* A remainder may be taken before something is added.
LEMMA RemainderAdds ==
    ASSUME NEW x \in Nat, NEW d \in Nat \ {0}, NEW y \in Nat
    PROVE  ((x % d) + y) % d = (x + y) % d
<1> DEFINE q == x \div d
           r == x % d
           p == (r + y) \div d
           s == (r + y) % d
<1>1. q \in Nat /\ r \in 0..d - 1 /\ x = d * q + r
  BY SMTT(30)
<1>2. r + y \in Nat
  BY <1>1
<1> HIDE DEF q, r
<1>3. p \in Nat /\ s \in 0..d - 1 /\ r + y = d * p + s
  BY <1>2, SMTT(30)
<1> HIDE DEF p, s
<1>4. x + y = d * (q + p) + s /\ q + p \in Nat /\ x + y \in Nat
  <2>1. d * (q + p) = d * q + d * p
    BY <1>1, <1>3
  <2> QED
    BY <1>1, <1>3, <2>1
<1>5. (x + y) % d = s
  BY <1>3, <1>4, RemainderIs
<1> QED
  BY <1>5 DEF r, s

\* The counter is an integer or not a number at all.
LEMMA NextTurnType ==
    ASSUME NEW list, Total(list) \in Int, NEW t \in Int \cup {NaN}
    PROVE  NextTurn(list, t) \in Int \cup {NaN}
<1> DEFINE b == Total(list)
<1>1. CASE t = NaN \/ b = 0
  BY <1>1 DEF NextTurn
<1>2. CASE ~(t = NaN \/ b = 0)
  <2>1. t + 1 \in Int /\ Abs(b) \in Nat \ {0} /\ Abs(t + 1) \in Nat
    BY <1>2 DEF Abs
  <2>2. NextTurn(list, t) = Remainder(t + 1, b)
    BY <1>2 DEF NextTurn
  <2> HIDE DEF b
  <2>3. \A x \in Int : \A d \in Nat \ {0} : x % d \in Int
    OBVIOUS
  <2> QED
    BY <2>1, <2>2, <2>3 DEF Remainder
<1> QED
  BY <1>1, <1>2

\* In a round of positive weights JavaScript's remainder is the mathematical one.
LEMMA RoundTurn ==
    ASSUME NEW list, NEW t \in Nat, Total(list) \in Nat \ {0}
    PROVE  NextTurn(list, t) = (t + 1) % Total(list)
<1>1. t # NaN /\ t + 1 >= 0 /\ Abs(Total(list)) = Total(list)
  BY RegistryAssumption DEF Abs
<1> QED
  BY <1>1 DEF NextTurn, Remainder

\* The counter after n selections.
LEMMA TurnsAre ==
    ASSUME NEW list \in Seq(Positive), NEW c \in Nat, Total(list) # 0
    PROVE  /\ Total(list) \in Nat
           /\ \A n \in 1..Total(list) : Turns(list, c)[n] = (c + n) % Total(list)
<1> DEFINE d == Total(list)
           t == Turns(list, c)
           f == [n \in 0..d |-> IF n = 0 THEN c ELSE (c + n) % d]
           S == {n \in 0..d : t[n] = f[n]}
<1>1. d \in Nat \ {0}
  BY PositiveSums DEF Total
<1> HIDE DEF d
<1>2. ASSUME NEW n \in 1..d PROVE (f[n - 1] + 1) % d = (c + n) % d
  <2>1. CASE n = 1
    <3>1. f[n - 1] = c
      BY <1>1, <2>1
    <3> QED
      BY <2>1, <3>1
  <2>2. CASE n # 1
    <3> DEFINE a == c + (n - 1)
    <3>1. n - 1 \in 0..d /\ n - 1 # 0 /\ a \in Nat /\ a + 1 = c + n
      BY <1>1, <2>2
    <3>2. f[n - 1] = a % d
      BY <3>1
    <3> HIDE DEF a
    <3>3. ((a % d) + 1) % d = (a + 1) % d
      <4>1. 1 \in Nat
        OBVIOUS
      <4> QED
        BY <1>1, <3>1, <4>1, RemainderAdds, Zenon
    <3> HIDE DEF f
    <3> QED
      BY <3>1, <3>2, <3>3
  <2> QED
    BY <2>1, <2>2
<1>3. f = [n \in 0..d |-> IF n = 0 THEN c ELSE NextTurn(list, f[n - 1])]
  <2>1. \A n \in 1..d : NextTurn(list, f[n - 1]) = (c + n) % d
    <3>1. \A n \in 1..d : f[n - 1] \in Nat
      BY <1>1
    <3> HIDE DEF f
    <3> QED
      BY <1>1, <1>2, <3>1, RoundTurn DEF d
  <2>2. \A n \in 0..d : n # 0 => n \in 1..d
    BY <1>1
  <2> QED
    BY <2>1, <2>2
<1>4. t = [n \in 0..d |-> IF n = 0 THEN c ELSE NextTurn(list, t[n - 1])]
  <2> HIDE DEF f
  <2> QED
    BY <1>3 DEF Turns, d
<1> HIDE DEF t
<1>5. 0 \in S
  BY <1>1, <1>4
<1>6. ASSUME NEW n \in 1..d, n - 1 \in S PROVE n \in S
  <2>1. t[n - 1] = f[n - 1] /\ n \in 0..d /\ n # 0
    BY <1>1, <1>6
  <2>2. t[n] = NextTurn(list, t[n - 1]) /\ f[n] = NextTurn(list, f[n - 1])
    <3> HIDE DEF f
    <3> QED
      BY <1>3, <1>4, <2>1
  <2> QED
    BY <2>1, <2>2
<1>7. \A n \in 0..d : n \in S
  <2> HIDE DEF S
  <2> QED
    BY <1>1, <1>5, <1>6, UpTo
<1>8. \A n \in 1..d : n \in 0..d /\ n # 0
  BY <1>1
<1> QED
  BY <1>1, <1>7, <1>8 DEF d, t

\* In d turns the counter meets each value below d once.
LEMMA EachValueOnce ==
    ASSUME NEW d \in Nat \ {0}, NEW c \in Nat, NEW A \in SUBSET (0..d - 1)
    PROVE  Cardinality({n \in 1..d : (c + n) % d \in A}) = Cardinality(A)
<1> DEFINE N == {n \in 1..d : (c + n) % d \in A}
           f == [n \in N |-> (c + n) % d]
           b == c % d
<1>1. b \in 0..d - 1 /\ \A n \in 1..d : (c + n) % d = (b + n) % d
  <2>1. b \in 0..d - 1
    OBVIOUS
  <2>2. ASSUME NEW n \in 1..d PROVE (c + n) % d = (b + n) % d
    <3>1. n \in Nat
      OBVIOUS
    <3> QED
      BY <3>1, RemainderAdds, Zenon DEF b
  <2> QED
    BY <2>1, <2>2
<1>2. \A n \in 1..d : (b + n) % d = IF b + n < d THEN b + n ELSE b + n - d
  <2>1. ASSUME NEW x \in Nat, x < d PROVE x % d = x
    BY <2>1
  <2>2. ASSUME NEW x \in Nat, d <= x, x < d + d PROVE x % d = x - d
    BY <2>2, SMTT(60)
  <2> HIDE DEF b
  <2> QED
    BY <1>1, <2>1, <2>2
<1> HIDE DEF b
<1>3. \A n \in 1..d : (c + n) % d = IF b + n < d THEN b + n ELSE b + n - d
  BY <1>1, <1>2
<1>4. f \in Bijection(N, A)
  <2>1. f \in [N -> A]
    OBVIOUS
  <2>2. ASSUME NEW n \in N, NEW m \in N, f[n] = f[m] PROVE n = m
    <3> DEFINE x == (c + n) % d
               y == (c + m) % d
    <3>1. n \in 1..d /\ m \in 1..d /\ x = y
      BY <2>2
    <3>2. /\ x = IF b + n < d THEN b + n ELSE b + n - d
          /\ y = IF b + m < d THEN b + m ELSE b + m - d
      BY <1>3, <3>1
    <3>3. b \in 0..d - 1
      BY <1>1
    <3>4. n \in Int /\ m \in Int /\ b \in Int /\ d \in Int
          /\ 1 <= n /\ n <= d /\ 1 <= m /\ m <= d
      BY <3>1, <3>3
    <3> HIDE DEF x, y, N, f
    <3>5. CASE b + n < d /\ b + m < d
      <4>1. b + n = b + m
        BY <3>1, <3>2, <3>5
      <4> QED
        BY <3>4, <4>1
    <3>6. CASE ~(b + n < d) /\ ~(b + m < d)
      <4>1. b + n - d = b + m - d
        BY <3>1, <3>2, <3>6
      <4> QED
        BY <3>4, <4>1
    <3>7. CASE ~(b + n < d) /\ b + m < d
      <4>1. b + n - d = b + m
        BY <3>1, <3>2, <3>7
      <4> QED
        BY <3>4, <4>1
    <3>8. CASE b + n < d /\ ~(b + m < d)
      <4>1. b + n = b + m - d
        BY <3>1, <3>2, <3>8
      <4> QED
        BY <3>4, <4>1
    <3> QED
      BY <3>5, <3>6, <3>7, <3>8
  <2>3. ASSUME NEW v \in A PROVE \E n \in N : f[n] = v
    <3> DEFINE n == IF b < v THEN v - b ELSE v - b + d
    <3>1. n \in 1..d /\ (IF b + n < d THEN b + n ELSE b + n - d) = v
      BY <1>1
    <3>2. n \in N /\ f[n] = v
      <4> HIDE DEF n
      <4> QED
        BY <1>3, <3>1
    <3> QED
      BY <3>2
  <2> HIDE DEF f, N
  <2> QED
    BY <2>1, <2>2, <2>3 DEF Bijection, Injection, IsInjective, Surjection
<1>5. IsFiniteSet(N)
  <2>1. IsFiniteSet(1..d) /\ N \subseteq 1..d
    BY FS_Interval
  <2> QED
    BY <2>1, FS_Subset
<1> HIDE DEF N, f
<1>6. ExistsBijection(N, A)
  BY <1>4 DEF ExistsBijection
<1>7. Cardinality(A) = Cardinality(N)
  BY <1>5, <1>6, FS_Bijection
<1> QED
  BY <1>7 DEF N

\* From any value of the counter, one round of Total selections gives each
\* instance its weight.
LEMMA RoundIsFair ==
    ASSUME NEW list \in Seq(Positive), NEW c \in Nat
    PROVE  \A k \in DOMAIN list :
               Cardinality({n \in 1..Total(list) : Chosen(list, Turns(list, c)[n]) = k})
                   = list[k].weight
<1> SUFFICES ASSUME NEW k \in DOMAIN list
             PROVE  Cardinality({n \in 1..Total(list) : Chosen(list, Turns(list, c)[n]) = k})
                        = list[k].weight
  OBVIOUS
<1> DEFINE C == Cumulative(list)
           l == Len(list)
           d == Total(list)
           w == list[k].weight
<1>1. /\ l \in Nat /\ k \in 1..l /\ w \in Nat \ {0}
      /\ C \in [0..l -> Nat] /\ d = C[l] /\ C[k] = C[k - 1] + w
  BY PositiveOf, PositiveSums, CumulativeIs DEF Total
<1>2. C[k] <= C[l]
  <2>1. k \in 0..l /\ l \in 0..l /\ k <= l
    BY <1>1
  <2> QED
    BY <2>1, CumulativeGrows
<1> HIDE DEF C, l, d, w
<1>3. k - 1 \in 0..l /\ k \in 0..l /\ C[k - 1] \in Nat /\ C[k] \in Nat /\ C[l] \in Nat
  BY <1>1
<1>4. d \in Nat \ {0} /\ Stretch(list, k) = C[k - 1]..C[k] - 1
      /\ C[k - 1]..C[k] - 1 \subseteq 0..d - 1
  BY <1>1, <1>2, <1>3 DEF Stretch, C
<1>5. ASSUME NEW n \in 1..d
      PROVE  Chosen(list, Turns(list, c)[n]) = k <=> (c + n) % d \in Stretch(list, k)
  <2>1. Turns(list, c)[n] = (c + n) % d
    BY <1>4, TurnsAre DEF d
  <2> DEFINE v == (c + n) % d
  <2>2. v \in 0..d - 1
    BY <1>4
  <2> HIDE DEF v
  <2>3. Chosen(list, v) = k <=> v \in Stretch(list, k)
    BY <1>1, <2>2, ChosenIs DEF d, l
  <2> QED
    BY <2>1, <2>3 DEF v
<1>6. {n \in 1..d : Chosen(list, Turns(list, c)[n]) = k}
          = {n \in 1..d : (c + n) % d \in Stretch(list, k)}
  BY <1>5
<1>7. Cardinality({n \in 1..d : (c + n) % d \in Stretch(list, k)})
          = Cardinality(Stretch(list, k))
  <2>1. Stretch(list, k) \in SUBSET (0..d - 1)
    BY <1>4
  <2> QED
    BY <1>4, <2>1, EachValueOnce
<1>8. Cardinality(C[k - 1]..C[k] - 1) = w
  <2>1. C[k - 1] \in Int /\ C[k] - 1 \in Int /\ ~(C[k - 1] > C[k] - 1)
        /\ C[k] - 1 - C[k - 1] + 1 = w
    BY <1>1, <1>3
  <2> QED
    BY <2>1, FS_Interval
<1> QED
  BY <1>4, <1>6, <1>7, <1>8 DEF d, w

-----------------------------------------------------------------------------
(* The registry's operations *)

\* The instances a request for s may be sent to.
Healthy(s) == {inst \in Instances : inst.service = s /\ inst.healthy}

\* getInstances returns healthy instances of the service, and no others.
LEMMA GetInstancesType ==
    ASSUME registry \in Seq(Instances), NEW s \in Services
    PROVE  GetInstances(s) \in Seq(Healthy(s)) /\ GetInstances(s) \in Seq(Instances)
<1> DEFINE D == Healthy(s)
           n == Len(registry)
           In(k) == registry[k].service = s /\ registry[k].healthy
           More(k, l) == IF In(k) THEN Append(l, registry[k]) ELSE l
           G == [k \in 1..n |-> [l \in Seq(D) |-> More(k, l)]]
           L == CHOOSE list : list = [k \in 0..n |-> IF k = 0 THEN <<>>
                                                     ELSE More(k, list[k - 1])]
           S == {k \in 0..n : L[k] \in Seq(D)}
<1>1. n \in Nat /\ n \in 0..n /\ \A k \in 1..n : In(k) => registry[k] \in D
  BY DEF Healthy
<1>2. \A k \in 1..n : \A l \in Seq(D) : More(k, l) \in Seq(D)
  BY <1>1
<1>3. GetInstances(s) = L[n]
  BY DEF GetInstances
<1> HIDE DEF More, D
<1>4. G \in [1..n -> [Seq(D) -> Seq(D)]]
  BY <1>2
<1>5. PICK f \in [0..n -> Seq(D)] : Recurs(f, n, <<>>, G)
  <2>1. <<>> \in Seq(D)
    OBVIOUS
  <2> HIDE DEF G, n
  <2> QED
    BY <1>1, <1>4, <2>1, Recursion, Zenon
<1>6. f = [k \in 0..n |-> IF k = 0 THEN <<>> ELSE More(k, f[k - 1])]
  <2>1. ASSUME NEW k \in 0..n, k # 0 PROVE G[k][f[k - 1]] = More(k, f[k - 1])
    <3>1. k \in 1..n /\ k - 1 \in 0..n
      BY <1>1, <2>1
    <3>2. f[k - 1] \in Seq(D)
      BY <3>1
    <3> QED
      BY <3>1, <3>2
  <2> HIDE DEF G, n
  <2> QED
    BY <1>5, <2>1 DEF Recurs
<1>7. L = [k \in 0..n |-> IF k = 0 THEN <<>> ELSE More(k, L[k - 1])]
  BY <1>6
<1> HIDE DEF L
<1>8. \A k \in 0..n : k \in S
  <2>1. 0 \in S
    BY <1>1, <1>7
  <2>2. ASSUME NEW k \in 1..n, k - 1 \in S PROVE k \in S
    <3>1. k \in 0..n /\ k # 0 /\ L[k - 1] \in Seq(D)
      BY <1>1, <2>2
    <3>2. L[k] = More(k, L[k - 1])
      BY <1>7, <3>1
    <3> QED
      BY <1>2, <3>1, <3>2
  <2> HIDE DEF S, n
  <2> QED
    BY <1>1, <2>1, <2>2, UpTo
<1>9. GetInstances(s) \in Seq(D)
  BY <1>1, <1>3, <1>8
<1> HIDE DEF n, In, L, S
<1>10. D \subseteq Instances
  BY DEF D, Healthy
<1>11. GetInstances(s) \in Seq(Instances)
  BY <1>9, <1>10
<1> QED
  BY <1>9, <1>11 DEF D

\* findInstance finds the instance that is registered.
LEMMA PositionHolds ==
    ASSUME NEW s, NEW i, IsRegistered(s, i)
    PROVE  Position(s, i) \in DOMAIN registry /\ Held(Position(s, i), s, i)
BY DEF IsRegistered, Position

\* What check() finds: something, if an instance has the id.
LEMMA FirstFinds ==
    ASSUME registry \in Seq(Instances), NEW i
    PROVE  /\ First(i) # 0 <=> \E k \in DOMAIN registry : registry[k].id = i
           /\ First(i) # 0 => First(i) \in DOMAIN registry /\ registry[First(i)].id = i
<1> DEFINE I == {k \in 1..Len(registry) : registry[k].id = i}
<1>1. DOMAIN registry = 1..Len(registry) /\ Len(registry) \in Nat
  OBVIOUS
<1>2. First(i) = IF I # {} THEN Min(I) ELSE 0
  BY DEF First, SelectInSeq
<1>3. I # {} => Min(I) \in I
  <2> SUFFICES ASSUME I # {} PROVE Min(I) \in I
    OBVIOUS
  <2>1. I \in SUBSET Nat
    BY <1>1
  <2> HIDE DEF I
  <2>2. \E x \in I : \A y \in I : x <= y
    BY <2>1, LeastNatural
  <2> QED
    BY <2>2 DEF Min
<1> QED
  BY <1>1, <1>2, <1>3

\* Where register() puts a new instance.
Place(s) ==
    LET last == SelectLastInSeq(registry, LAMBDA inst : inst.service = s)
    IN 1 + IF last = 0 THEN Len(registry) ELSE last

\* It is a place in the list or the one after it.
LEMMA PlaceIs ==
    ASSUME registry \in Seq(Instances), NEW s
    PROVE  Place(s) \in 1..Len(registry) + 1
<1> DEFINE n == Len(registry)
           I == {k \in 1..n : registry[k].service = s}
           last == SelectLastInSeq(registry, LAMBDA inst : inst.service = s)
<1>1. last = IF I # {} THEN Max(I) ELSE 0
  BY DEF SelectLastInSeq
<1>2. n \in Nat
  OBVIOUS
<1>3. I # {} => Max(I) \in 1..n
  <2> SUFFICES ASSUME I # {} PROVE Max(I) \in 1..n
    OBVIOUS
  <2> DEFINE B == {x \in Nat : x <= n /\ n - x \in I}
  <2>1. I \subseteq 1..n
    OBVIOUS
  <2> HIDE DEF I, n
  <2>2. PICK k \in I : TRUE
    OBVIOUS
  <2>3. n - k \in B
    <3>1. k \in 1..n
      BY <2>1
    <3>2. n - k \in Nat /\ n - k <= n /\ n - (n - k) = k
      BY <1>2, <3>1
    <3> QED
      BY <3>2
  <2>4. PICK m \in B : \A x \in B : m <= x
    <3>1. B \in SUBSET Nat /\ B # {}
      BY <2>3
    <3> HIDE DEF B
    <3> QED
      BY <3>1, LeastNatural
  <2>5. \A y \in I : n - m >= y
    <3> SUFFICES ASSUME NEW y \in I PROVE n - m >= y
      OBVIOUS
    <3>1. y \in 1..n
      BY <2>1
    <3>2. n - y \in Nat /\ n - y <= n /\ n - (n - y) = y
      BY <1>2, <3>1
    <3>3. n - y \in B
      BY <3>2
    <3>4. m <= n - y /\ m \in Nat
      BY <2>4, <3>3
    <3> HIDE DEF B
    <3> QED
      BY <1>2, <3>1, <3>4
  <2>6. n - m \in I
    BY <2>4
  <2>7. Max(I) \in I
    <3>1. \E x \in I : \A y \in I : x >= y
      BY <2>5, <2>6
    <3> HIDE DEF B
    <3> QED
      BY <3>1 DEF Max
  <2> QED
    BY <2>1, <2>7
<1> HIDE DEF last, I, n
<1>4. 1 + (IF last = 0 THEN n ELSE last) \in 1..n + 1
  BY <1>1, <1>2, <1>3
<1> QED
  BY <1>4 DEF last, n, Place

\* InsertAt keeps the other elements in their order.
LEMMA Inserted ==
    ASSUME NEW seq \in Seq(Instances), NEW p \in 1..Len(seq) + 1, NEW e \in Instances
    PROVE  /\ InsertAt(seq, p, e) \in Seq(Instances)
           /\ Len(InsertAt(seq, p, e)) = Len(seq) + 1
           /\ InsertAt(seq, p, e)[p] = e
           /\ \A j \in 1..Len(seq) : InsertAt(seq, p, e)[IF j < p THEN j ELSE j + 1] = seq[j]
<1> DEFINE n == Len(seq)
           a == SubSeq(seq, 1, p - 1)
           b == SubSeq(seq, p, n)
           c == a \o <<e>>
<1>1. n \in Nat /\ p \in 1..n + 1 /\ DOMAIN seq = 1..n
  OBVIOUS
<1>2. /\ a \in Seq(Instances) /\ Len(a) = p - 1
      /\ \A j \in 1..p - 1 : a[j] = seq[j]
  BY <1>1, SubSeqProperties
<1>3. /\ b \in Seq(Instances) /\ Len(b) = n - p + 1
      /\ \A j \in 1..n - p + 1 : b[j] = seq[p + j - 1]
  BY <1>1, SubSeqProperties
<1>4. <<e>> \in Seq(Instances) /\ Len(<<e>>) = 1 /\ <<e>>[1] = e
  OBVIOUS
<1>5. InsertAt(seq, p, e) = c \o b
  BY DEF InsertAt
<1> HIDE DEF n, a, b
<1>6. /\ c \in Seq(Instances) /\ Len(c) = p
      /\ c[p] = e /\ \A j \in 1..p - 1 : c[j] = seq[j]
  BY <1>1, <1>2, <1>4, ConcatProperties
<1> HIDE DEF c
<1>7. /\ c \o b \in Seq(Instances) /\ Len(c \o b) = n + 1
      /\ \A j \in 1..n + 1 : (c \o b)[j] = IF j <= p THEN c[j] ELSE b[j - p]
  <2>1. Len(c) + Len(b) = n + 1
    BY <1>1, <1>3, <1>6
  <2>2. /\ c \o b \in Seq(Instances) /\ Len(c \o b) = n + 1
        /\ \A j \in 1..n + 1 : (c \o b)[j] = IF j <= Len(c) THEN c[j] ELSE b[j - Len(c)]
    <3>1. c \in Seq(Instances) /\ b \in Seq(Instances)
      BY <1>3, <1>6
    <3> QED
      BY <2>1, <3>1, ConcatProperties
  <2> QED
    BY <1>6, <2>2
<1>8. (c \o b)[p] = e
  BY <1>1, <1>6, <1>7
<1>9. ASSUME NEW j \in 1..n PROVE (c \o b)[IF j < p THEN j ELSE j + 1] = seq[j]
  <2>1. CASE j < p
    BY <1>1, <1>6, <1>7, <2>1
  <2>2. CASE ~(j < p)
    <3>1. j + 1 \in 1..n + 1 /\ ~(j + 1 <= p) /\ j + 1 - p \in 1..n - p + 1
          /\ p + (j + 1 - p) - 1 = j
      BY <1>1, <2>2
    <3> QED
      BY <1>3, <1>7, <2>2, <3>1
  <2> QED
    BY <2>1, <2>2
<1> QED
  BY <1>5, <1>7, <1>8, <1>9 DEF n

\* RemoveAt keeps the other elements in their order.
LEMMA Removed ==
    ASSUME NEW seq \in Seq(Instances), NEW p \in 1..Len(seq)
    PROVE  /\ RemoveAt(seq, p) \in Seq(Instances)
           /\ Len(RemoveAt(seq, p)) = Len(seq) - 1
           /\ \A j \in 1..Len(seq) - 1 :
                  RemoveAt(seq, p)[j] = seq[IF j < p THEN j ELSE j + 1]
<1> DEFINE n == Len(seq)
           a == SubSeq(seq, 1, p - 1)
           b == SubSeq(seq, p + 1, n)
<1>1. n \in Nat /\ p \in 1..n
  OBVIOUS
<1>2. /\ a \in Seq(Instances) /\ Len(a) = p - 1
      /\ \A j \in 1..p - 1 : a[j] = seq[j]
  BY <1>1, SubSeqProperties
<1>3. /\ b \in Seq(Instances) /\ Len(b) = n - p
      /\ \A j \in 1..n - p : b[j] = seq[p + j]
  BY <1>1, SubSeqProperties
<1>4. RemoveAt(seq, p) = a \o b
  BY DEF RemoveAt
<1> HIDE DEF n, a, b
<1>5. /\ a \o b \in Seq(Instances) /\ Len(a \o b) = n - 1
      /\ \A j \in 1..n - 1 : (a \o b)[j] = IF j <= p - 1 THEN a[j] ELSE b[j - (p - 1)]
  <2>1. Len(a) + Len(b) = n - 1
    BY <1>1, <1>2, <1>3
  <2>2. /\ a \o b \in Seq(Instances) /\ Len(a \o b) = n - 1
        /\ \A j \in 1..n - 1 : (a \o b)[j] = IF j <= Len(a) THEN a[j] ELSE b[j - Len(a)]
    BY <1>2, <1>3, <2>1, ConcatProperties
  <2> QED
    BY <1>2, <2>2
<1>6. ASSUME NEW j \in 1..n - 1 PROVE (a \o b)[j] = seq[IF j < p THEN j ELSE j + 1]
  <2>1. CASE j < p
    BY <1>1, <1>2, <1>5, <2>1
  <2>2. CASE ~(j < p)
    <3>1. ~(j <= p - 1) /\ j - (p - 1) \in 1..n - p /\ p + (j - (p - 1)) = j + 1
      BY <1>1, <2>2
    <3> QED
      BY <1>3, <1>5, <2>2, <3>1
  <2> QED
    BY <2>1, <2>2
<1> QED
  BY <1>4, <1>5, <1>6 DEF n

-----------------------------------------------------------------------------
(* The steps of the health checker *)

\* Some service has an instance with this id.
Present(i) == \E k \in DOMAIN registry : registry[k].id = i

\* Instances with one id are of different services, and the id was shared.
Apart ==
    \A k, l \in DOMAIN registry :
        k # l /\ registry[k].id = registry[l].id
            => registry[k].service # registry[l].service /\ registry[k].id \in shared

\* The statement PolledIffRegistered makes, without the operator First.
Polled == \A i \in Ids : /\ timer[i] # Off => Present(i)
                         /\ Present(i) /\ i \notin shared => timer[i] # Off

DiscoveryInv == DiscoveryTypeOK /\ Apart /\ Polled

\* seq has the instances of the registry at their places, whatever their urls,
\* weights and health.
SamePlaces(seq) ==
    /\ seq \in Seq(Instances)
    /\ Len(seq) = Len(registry)
    /\ \A k \in 1..Len(registry) : /\ seq[k].id = registry[k].id
                                   /\ seq[k].service = registry[k].service

\* The registry as a function over its places.
LEMMA Places ==
    ASSUME registry \in Seq(Instances)
    PROVE  /\ Len(registry) \in Nat /\ DOMAIN registry = 1..Len(registry)
           /\ \A k \in DOMAIN registry : registry[k] \in Instances
           /\ SamePlaces(registry)
BY DEF SamePlaces

\* An instance whose health is set is an instance.
LEMMA InstanceIs ==
    ASSUME NEW inst \in Instances, NEW h \in BOOLEAN
    PROVE  /\ inst.service \in Services /\ inst.id \in Ids /\ inst.url \in Urls
           /\ inst.weight \in Weights /\ inst.healthy \in BOOLEAN
           /\ [inst EXCEPT !.healthy = h] \in Instances
           /\ [inst EXCEPT !.healthy = h].id = inst.id
           /\ [inst EXCEPT !.healthy = h].service = inst.service
BY DEF Instances

\* An update in place.
LEMMA Updated ==
    ASSUME registry \in Seq(Instances), NEW f \in [DOMAIN registry -> Instances],
           \A k \in DOMAIN registry : /\ f[k].id = registry[k].id
                                      /\ f[k].service = registry[k].service
    PROVE  SamePlaces(f)
<1> DEFINE n == Len(registry)
<1>1. n \in Nat /\ DOMAIN registry = 1..n
  BY Places
<1> HIDE DEF n
<1>2. f \in [1..n -> Instances]
  BY <1>1
<1>3. f \in Seq(Instances) /\ Len(f) = n
  BY <1>1, <1>2
<1> QED
  BY <1>1, <1>3 DEF SamePlaces, n

\* markHealthy and markUnhealthy move nothing.
LEMMA MarkedKeepsPlaces ==
    ASSUME registry \in Seq(Instances), NEW s, NEW i, NEW h \in BOOLEAN
    PROVE  SamePlaces(Marked(s, i, h))
<1>1. ASSUME NEW k \in DOMAIN registry
      PROVE  LET v == IF Held(k, s, i) THEN [registry[k] EXCEPT !.healthy = h] ELSE registry[k]
             IN v \in Instances /\ v.id = registry[k].id /\ v.service = registry[k].service
  BY Places, InstanceIs
<1> QED
  BY <1>1, Updated DEF Marked

\* What keeps every instance in its place keeps the invariant.
LEMMA PlacesKept ==
    ASSUME DiscoveryInv, DiscoveryTypeOK', SamePlaces(registry'), timer' = timer, shared \subseteq shared'
    PROVE  DiscoveryInv'
<1>1. DOMAIN registry = 1..Len(registry) /\ DOMAIN registry' = 1..Len(registry)
  BY DEF DiscoveryInv, DiscoveryTypeOK, SamePlaces
<1>2. \A i : Present(i)' <=> Present(i)
  BY <1>1 DEF Present, SamePlaces
<1>3. Polled'
  BY <1>2 DEF DiscoveryInv, Polled
<1>4. Apart'
  BY <1>1 DEF DiscoveryInv, Apart, SamePlaces
<1> QED
  BY <1>3, <1>4 DEF DiscoveryInv

\* The smaller of two natural numbers.
LEMMA SmallerIs ==
    ASSUME NEW a \in Nat, NEW b \in Nat
    PROVE  Min({a, b}) \in Nat /\ Min({a, b}) <= a /\ Min({a, b}) <= b
<1>1. \E x \in {a, b} : \A y \in {a, b} : x <= y
  OBVIOUS
<1>2. Min({a, b}) \in {a, b} /\ \A y \in {a, b} : Min({a, b}) <= y
  BY <1>1 DEF Min
<1> QED
  BY <1>2

\* POST /register: the instance is updated in its place, or put after the
\* last one of its service, and then its id has a timer.
LEMMA RegisterKeeps ==
    ASSUME DiscoveryInv, NEW s \in Services, NEW i \in Ids, NEW u \in Urls, NEW w \in Weights,
           Register(s, i, u, w)
    PROVE  DiscoveryInv'
<1> DEFINE e == [service |-> s, id |-> i, url |-> u, weight |-> w, healthy |-> TRUE]
<1>1. /\ registry \in Seq(Instances) /\ e \in Instances
      /\ e.id = i /\ e.service = s
      /\ registry' = Registered(s, i, u, w)
      /\ timer' = IF IsRegistered(s, i) THEN timer ELSE [timer EXCEPT ![i] = u]
      /\ shared' = shared \cup {j \in {i} : \E q \in Services \ {s} : IsRegistered(q, j)}
      /\ UNCHANGED <<turn, fails, oks, check, server>>
  BY DEF Register, DiscoveryInv, DiscoveryTypeOK, Instances, counters
<1>2. ASSUME registry' \in Seq(Instances) PROVE DiscoveryTypeOK'
  <2>1. timer' \in [Ids -> Urls \cup {Off}] /\ shared' \in SUBSET Ids
    BY <1>1 DEF DiscoveryInv, DiscoveryTypeOK
  <2> QED
    BY <1>1, <1>2, <2>1 DEF DiscoveryInv, DiscoveryTypeOK
<1>3. CASE IsRegistered(s, i)
  <2> DEFINE p == Position(s, i)
             v == [e EXCEPT !.healthy = registry[p].healthy]
  <2>1. p \in DOMAIN registry /\ registry[p].id = i /\ registry[p].service = s
        /\ registry[p] \in Instances
    BY <1>1, <1>3, PositionHolds, Places DEF Held
  <2>2. v \in Instances /\ v.id = i /\ v.service = s
    BY <1>1, <2>1, InstanceIs
  <2>3. registry' = [registry EXCEPT ![p] = v]
    BY <1>1, <1>3 DEF Registered, ReplaceAt
  <2> HIDE DEF p, v
  <2>4. registry' \in [DOMAIN registry -> Instances]
    BY <1>1, <2>1, <2>2, <2>3, Places
  <2>5. \A k \in DOMAIN registry : /\ registry'[k].id = registry[k].id
                                   /\ registry'[k].service = registry[k].service
    BY <1>1, <2>1, <2>2, <2>3, Places
  <2>6. SamePlaces(registry')
    BY <1>1, <2>4, <2>5, Updated
  <2> QED
    BY <1>1, <1>2, <1>3, <2>6, PlacesKept DEF SamePlaces
<1>4. CASE ~IsRegistered(s, i)
  <2> DEFINE p == Place(s)
             n == Len(registry)
  <2>1. p \in 1..n + 1 /\ n \in Nat /\ DOMAIN registry = 1..n
    BY <1>1, PlaceIs, Places
  <2>2. registry' = InsertAt(registry, p, e)
    BY <1>1, <1>4 DEF Registered, Place
  <2> HIDE DEF p, n, e
  <2> DEFINE To(j) == IF j < p THEN j ELSE j + 1
             From(j) == IF j < p THEN j ELSE j - 1
  <2>3. /\ registry' \in Seq(Instances) /\ Len(registry') = n + 1
        /\ registry'[p] = e /\ \A j \in 1..n : registry'[To(j)] = registry[j]
    <3>1. registry \in Seq(Instances) /\ p \in 1..Len(registry) + 1 /\ e \in Instances
      BY <1>1, <2>1 DEF n
    <3> QED
      BY <2>2, <3>1, Inserted DEF n
  <2>4. DOMAIN registry' = 1..n + 1
    BY <2>3
  <2>5. \A j \in 1..n : To(j) \in 1..n + 1
    BY <2>1
  <2>6. \A j \in (1..n + 1) \ {p} : From(j) \in 1..n /\ To(From(j)) = j
    BY <2>1
  <2>7. \A j \in (1..n + 1) \ {p} : registry'[j] = registry[From(j)]
    BY <2>3, <2>6
  <2>8. \A j, k \in (1..n + 1) \ {p} : j # k => From(j) # From(k)
    BY <2>6
  <2> HIDE DEF To, From
  <2>9. \A j : Present(j)' <=> Present(j) \/ j = i
    <3>1. ASSUME NEW j, Present(j) PROVE Present(j)'
      BY <2>1, <2>3, <2>4, <2>5, <3>1 DEF Present
    <3>2. Present(i)'
      BY <1>1, <2>1, <2>3, <2>4 DEF Present
    <3>3. ASSUME NEW j, Present(j)', j # i PROVE Present(j)
      BY <1>1, <2>1, <2>3, <2>4, <2>6, <2>7, <3>3 DEF Present
    <3> QED
      BY <3>1, <3>2, <3>3
  <2>10. Polled'
    <3>1. timer' = [timer EXCEPT ![i] = u] /\ u # Off /\ shared \subseteq shared'
      BY <1>1, <1>4, CheckerAssumption
    <3> QED
      BY <2>9, <3>1 DEF DiscoveryInv, DiscoveryTypeOK, Polled
  <2>11. ASSUME NEW k \in 1..n, registry[k].id = i
         PROVE  registry[k].service # s /\ i \in shared'
    <3>1. registry[k].service # s
      BY <1>4, <2>1, <2>11 DEF IsRegistered, Held
    <3>2. registry[k].service \in Services \ {s}
      BY <1>1, <2>1, <3>1, Places, InstanceIs
    <3>3. IsRegistered(registry[k].service, i)
      BY <2>1, <2>11 DEF IsRegistered, Held
    <3> QED
      BY <1>1, <3>1, <3>2, <3>3
  <2>12. Apart'
    <3> SUFFICES ASSUME NEW k \in 1..n + 1, NEW l \in 1..n + 1, k # l,
                        registry'[k].id = registry'[l].id
                 PROVE  /\ registry'[k].service # registry'[l].service
                        /\ registry'[k].id \in shared'
      BY <2>4 DEF Apart
    <3>1. CASE k = p
      <4>1. registry'[k] = e /\ From(l) \in 1..n /\ registry'[l] = registry[From(l)]
        BY <2>3, <2>6, <2>7, <3>1
      <4> QED
        BY <1>1, <2>11, <4>1
    <3>2. CASE l = p
      <4>1. registry'[l] = e /\ From(k) \in 1..n /\ registry'[k] = registry[From(k)]
        BY <2>3, <2>6, <2>7, <3>2
      <4> QED
        BY <1>1, <2>11, <4>1
    <3>3. CASE k # p /\ l # p
      <4>1. /\ From(k) \in 1..n /\ From(l) \in 1..n /\ From(k) # From(l)
            /\ registry'[k] = registry[From(k)] /\ registry'[l] = registry[From(l)]
        BY <2>6, <2>7, <2>8, <3>3
      <4>2. shared \subseteq shared'
        BY <1>1
      <4> QED
        BY <2>1, <4>1, <4>2 DEF DiscoveryInv, Apart
    <3> QED
      BY <3>1, <3>2, <3>3
  <2> QED
    BY <1>2, <2>3, <2>10, <2>12 DEF DiscoveryInv
<1> QED
  BY <1>3, <1>4

\* DELETE /register: an instance that stays with the id had to share it.
LEMMA DeregisterKeeps ==
    ASSUME DiscoveryInv, NEW s \in Services, NEW i \in Ids, Deregister(s, i)
    PROVE  DiscoveryInv'
<1> DEFINE p == Position(s, i)
           n == Len(registry)
<1>1. /\ registry \in Seq(Instances) /\ IsRegistered(s, i)
      /\ registry' = RemoveAt(registry, p)
      /\ timer' = [timer EXCEPT ![i] = Off]
      /\ UNCHANGED <<turn, fails, oks, check, server, shared>>
  BY DEF Deregister, Deregistered, DiscoveryInv, DiscoveryTypeOK, counters
<1>2. p \in 1..n /\ n \in Nat /\ DOMAIN registry = 1..n /\ registry[p].id = i
  BY <1>1, PositionHolds, Places DEF Held
<1> HIDE DEF p, n
<1> DEFINE From(j) == IF j < p THEN j ELSE j + 1
           To(j) == IF j < p THEN j ELSE j - 1
<1>3. /\ registry' \in Seq(Instances) /\ Len(registry') = n - 1
      /\ \A j \in 1..n - 1 : registry'[j] = registry[From(j)]
  <2>1. p \in 1..Len(registry)
    BY <1>2 DEF n
  <2> QED
    BY <1>1, <2>1, Removed DEF n
<1>4. DOMAIN registry' = 1..n - 1
  BY <1>3
<1>5. \A j \in 1..n - 1 : From(j) \in 1..n /\ From(j) # p
  BY <1>2
<1>6. \A j, k \in 1..n - 1 : j # k => From(j) # From(k)
  BY <1>2
<1>7. \A j \in 1..n : j # p => To(j) \in 1..n - 1 /\ From(To(j)) = j
  BY <1>2
<1> HIDE DEF From, To
<1>8. \A j : j # i => (Present(j)' <=> Present(j))
  <2>1. ASSUME NEW j, Present(j)' PROVE Present(j)
    BY <1>2, <1>3, <1>4, <1>5, <2>1 DEF Present
  <2>2. ASSUME NEW j, j # i, Present(j) PROVE Present(j)'
    <3>1. PICK k \in 1..n : registry[k].id = j
      BY <1>2, <2>2 DEF Present
    <3>2. k # p
      BY <1>2, <2>2, <3>1
    <3>3. To(k) \in 1..n - 1 /\ registry'[To(k)] = registry[k]
      BY <1>3, <1>7, <3>1, <3>2
    <3> QED
      BY <1>4, <3>1, <3>3 DEF Present
  <2> QED
    BY <2>1, <2>2
<1>9. Present(i)' => i \in shared
  <2> SUFFICES ASSUME NEW k \in 1..n - 1, registry'[k].id = i PROVE i \in shared
    BY <1>4 DEF Present
  <2>1. From(k) \in 1..n /\ From(k) # p /\ registry[From(k)].id = i
    BY <1>3, <1>5
  <2> QED
    BY <1>2, <2>1 DEF DiscoveryInv, Apart
<1>10. Polled'
  BY <1>1, <1>8, <1>9 DEF DiscoveryInv, DiscoveryTypeOK, Polled
<1>11. Apart'
  <2> SUFFICES ASSUME NEW k \in 1..n - 1, NEW l \in 1..n - 1, k # l,
                      registry'[k].id = registry'[l].id
               PROVE  /\ registry'[k].service # registry'[l].service
                      /\ registry'[k].id \in shared'
    BY <1>4 DEF Apart
  <2>1. /\ From(k) \in 1..n /\ From(l) \in 1..n /\ From(k) # From(l)
        /\ registry'[k] = registry[From(k)] /\ registry'[l] = registry[From(l)]
    BY <1>3, <1>5, <1>6
  <2> QED
    BY <1>1, <1>2, <2>1 DEF DiscoveryInv, Apart
<1>12. DiscoveryTypeOK'
  <2>1. timer' \in [Ids -> Urls \cup {Off}]
    BY <1>1 DEF DiscoveryInv, DiscoveryTypeOK
  <2> QED
    BY <1>1, <1>3, <2>1 DEF DiscoveryInv, DiscoveryTypeOK
<1> QED
  BY <1>10, <1>11, <1>12 DEF DiscoveryInv

\* recordResult saturates its counters and moves no instance.
LEMMA RecordTypes ==
    ASSUME DiscoveryTypeOK, NEW i \in Ids
    PROVE  /\ RecordSuccess(i) =>
                /\ SamePlaces(registry')
                /\ fails' \in [Ids -> 0..UnhealthyThreshold] /\ oks' \in [Ids -> 0..HealthyThreshold]
           /\ \A n \in Nat : RecordFailures(i, n) =>
                /\ SamePlaces(registry')
                /\ fails' \in [Ids -> 0..UnhealthyThreshold] /\ oks' \in [Ids -> 0..HealthyThreshold]
<1>1. /\ HealthyThreshold \in Nat /\ UnhealthyThreshold \in Nat /\ registry \in Seq(Instances)
      /\ oks[i] \in Nat /\ fails[i] \in Nat
  BY CheckerAssumption DEF DiscoveryTypeOK
<1>2. SamePlaces(registry) /\ \A h \in BOOLEAN : SamePlaces(Marked(check[i].service, i, h))
  BY <1>1, Places, MarkedKeepsPlaces
<1>3. ASSUME RecordSuccess(i)
      PROVE  /\ SamePlaces(registry')
             /\ fails' \in [Ids -> 0..UnhealthyThreshold] /\ oks' \in [Ids -> 0..HealthyThreshold]
  <2>1. Min({oks[i] + 1, HealthyThreshold}) \in 0..HealthyThreshold
    BY <1>1, SmallerIs
  <2>2. /\ fails' = [fails EXCEPT ![i] = 0]
        /\ oks' = [oks EXCEPT ![i] = Min({oks[i] + 1, HealthyThreshold})]
        /\ registry' = registry \/ registry' = Marked(check[i].service, i, TRUE)
    BY <1>3 DEF RecordSuccess
  <2>3. 0 \in 0..UnhealthyThreshold
    BY <1>1
  <2> QED
    BY <1>2, <2>1, <2>2, <2>3 DEF DiscoveryTypeOK
<1>4. ASSUME NEW n \in Nat, RecordFailures(i, n)
      PROVE  /\ SamePlaces(registry')
             /\ fails' \in [Ids -> 0..UnhealthyThreshold] /\ oks' \in [Ids -> 0..HealthyThreshold]
  <2>1. Min({fails[i] + n, UnhealthyThreshold}) \in 0..UnhealthyThreshold
    BY <1>1, SmallerIs
  <2>2. /\ oks' = [oks EXCEPT ![i] = 0]
        /\ fails' = [fails EXCEPT ![i] = Min({fails[i] + n, UnhealthyThreshold})]
        /\ registry' = registry \/ registry' = Marked(check[i].service, i, FALSE)
    BY <1>4 DEF RecordFailures
  <2>3. 0 \in 0..HealthyThreshold
    BY <1>1
  <2> QED
    BY <1>2, <2>1, <2>2, <2>3 DEF DiscoveryTypeOK
<1> QED
  BY <1>3, <1>4

\* The checks that run.
Checks == [stage : {"asked", "passed", "failed"}, service : Services, url : Urls]

\* A check's steps, up to the unread response's timeout.
LEMMA CheckingKeeps ==
    ASSUME DiscoveryInv, NEW i \in Ids, Checking(i)
    PROVE  DiscoveryInv'
<1>1. DiscoveryTypeOK /\ registry \in Seq(Instances) /\ SamePlaces(registry)
      /\ check \in [Ids -> Checks \cup {Idle}] /\ timer[i] \in Urls \cup {Off}
  BY Places DEF DiscoveryInv, DiscoveryTypeOK, Checks
<1>2. timer' = timer /\ shared' = shared /\ turn' = turn /\ server' = server
  BY DEF Checking, CheckStarts, CheckAnswered, CheckUnanswered, CheckEnds, Finish
<1>3. ASSUME NEW stage \in {"idle", "passed", "failed"}, Finish(i, stage), check[i].stage # "idle"
      PROVE  check' \in [Ids -> Checks \cup {Idle}]
  <2>1. check[i] \in Checks
    BY <1>1, <1>3 DEF Idle
  <2>2. stage # "idle" => [check[i] EXCEPT !.stage = stage] \in Checks
    BY <1>3, <2>1 DEF Checks
  <2>3. check' = [check EXCEPT ![i] = IF stage = "idle" THEN Idle
                                      ELSE [check[i] EXCEPT !.stage = stage]]
    BY <1>3 DEF Finish
  <2> QED
    BY <1>1, <2>2, <2>3
<1>4. /\ SamePlaces(registry')
      /\ fails' \in [Ids -> 0..UnhealthyThreshold] /\ oks' \in [Ids -> 0..HealthyThreshold]
      /\ check' \in [Ids -> Checks \cup {Idle}]
  <2>1. CASE CheckStarts(i)
    <3>1. registry[First(i)].service \in Services
      BY <1>1, <2>1, FirstFinds, Places, InstanceIs DEF CheckStarts
    <3>2. [stage |-> "asked", url |-> timer[i], service |-> registry[First(i)].service] \in Checks
      BY <1>1, <2>1, <3>1 DEF CheckStarts, Checks
    <3> QED
      BY <1>1, <2>1, <3>2 DEF CheckStarts, counters, DiscoveryTypeOK
  <2>2. CASE CheckAnswered(i)
    BY <1>1, <1>3, <2>2, RecordTypes DEF CheckAnswered
  <2>3. CASE CheckUnanswered(i)
    BY <1>1, <1>3, <2>3, RecordTypes DEF CheckUnanswered
  <2>4. CASE CheckEnds(i)
    <3>1. check' \in [Ids -> Checks \cup {Idle}]
      BY <1>3, <2>4 DEF CheckEnds
    <3>2. CASE check[i].url \in Closing
      BY <1>1, <2>4, <3>1, <3>2 DEF CheckEnds, counters, DiscoveryTypeOK
    <3>3. CASE check[i].url \notin Closing
      BY <1>1, <2>4, <3>1, <3>3, RecordTypes DEF CheckEnds
    <3> QED
      BY <3>2, <3>3
  <2> QED
    BY <2>1, <2>2, <2>3, <2>4 DEF Checking
<1>5. DiscoveryTypeOK'
  BY <1>2, <1>4 DEF DiscoveryInv, DiscoveryTypeOK, SamePlaces, Checks
<1> QED
  BY <1>2, <1>4, <1>5, PlacesKept

\* A passive failure of the proxy, a change of a server, a selection.
LEMMA OthersKeep ==
    ASSUME DiscoveryInv,
           \/ \E u \in Urls : PassiveFailure(u) \/ ServerTurns(u)
           \/ \E s \in Services : Selected(s)
           \/ UNCHANGED discoveryVars
    PROVE  DiscoveryInv'
<1>1. DiscoveryTypeOK /\ registry \in Seq(Instances) /\ SamePlaces(registry)
  BY Places DEF DiscoveryInv, DiscoveryTypeOK
<1>2. /\ timer' = timer /\ shared' = shared /\ check' = check /\ fails' = fails /\ oks' = oks
  BY DEF PassiveFailure, ServerTurns, Selected, counters, discoveryVars
<1>3. ASSUME NEW u \in Urls, PassiveFailure(u) PROVE SamePlaces(registry')
  <2>1. ASSUME NEW k \in DOMAIN registry
        PROVE  LET v == IF registry[k].url = u THEN [registry[k] EXCEPT !.healthy = FALSE]
                        ELSE registry[k]
               IN v \in Instances /\ v.id = registry[k].id /\ v.service = registry[k].service
    BY <1>1, Places, InstanceIs
  <2> QED
    BY <1>1, <1>3, <2>1, Updated DEF PassiveFailure
<1>4. SamePlaces(registry')
  BY <1>1, <1>3 DEF ServerTurns, Selected, Select, discoveryVars
<1>5. turn' \in [Services -> Int \cup {NaN}]
  <2>1. ASSUME NEW s \in Services, Selected(s) PROVE turn' \in [Services -> Int \cup {NaN}]
    <3> DEFINE list == GetInstances(s)
    <3>1. list \in Seq(Instances)
      BY <1>1, GetInstancesType
    <3>2. turn' = [turn EXCEPT ![s] = NextTurn(list, turn[s])]
      BY <2>1 DEF Selected, Select
    <3> HIDE DEF list
    <3>3. Total(list) \in Int
      BY <3>1, InstancesOf, CumulativeIs DEF Total
    <3>4. NextTurn(list, turn[s]) \in Int \cup {NaN}
      <4>1. turn[s] \in Int \cup {NaN}
        BY <1>1 DEF DiscoveryTypeOK
      <4> QED
        BY <3>3, <4>1, NextTurnType
    <3> QED
      BY <1>1, <3>2, <3>4 DEF DiscoveryTypeOK
  <2> QED
    BY <1>1, <2>1 DEF PassiveFailure, ServerTurns, discoveryVars, DiscoveryTypeOK
<1>6. server' \in [Urls -> {"well", "sick", "down"}]
  BY <1>1 DEF PassiveFailure, ServerTurns, Selected, discoveryVars, DiscoveryTypeOK
<1>7. DiscoveryTypeOK'
  BY <1>1, <1>2, <1>4, <1>5, <1>6 DEF DiscoveryTypeOK, SamePlaces
<1> QED
  BY <1>2, <1>4, <1>7, PlacesKept

\* Nothing is registered and no timer runs at first.
LEMMA DiscoveryStarts == DiscoveryInit => DiscoveryInv
<1> SUFFICES ASSUME DiscoveryInit PROVE DiscoveryInv
  OBVIOUS
<1>1. DiscoveryTypeOK
  BY CheckerAssumption DEF DiscoveryInit, DiscoveryTypeOK
<1>2. DOMAIN registry = {}
  BY DEF DiscoveryInit
<1> QED
  BY <1>1, <1>2 DEF DiscoveryInit, DiscoveryInv, Apart, Polled, Present

\* The invariant is inductive.
LEMMA DiscoveryInductive == DiscoverySpec => []DiscoveryInv
<1>1. DiscoveryInv /\ [DiscoveryNext]_discoveryVars => DiscoveryInv'
  <2> SUFFICES ASSUME DiscoveryInv, [DiscoveryNext]_discoveryVars PROVE DiscoveryInv'
    OBVIOUS
  <2>1. ASSUME NEW o \in Offers, Register(o[1], o[2], o[3], o[4]) PROVE DiscoveryInv'
    <3>1. o[1] \in Services /\ o[2] \in Ids /\ o[3] \in Urls /\ o[4] \in Weights
      BY CheckerAssumption
    <3> QED
      BY <2>1, <3>1, RegisterKeeps
  <2> QED
    BY <2>1, DeregisterKeeps, CheckingKeeps, OthersKeep DEF DiscoveryNext
<1> QED
  BY <1>1, DiscoveryStarts, PTL DEF DiscoverySpec

\* The registry stays a sequence of instances through register, deregister,
\* markHealthy and markUnhealthy, and the checker keeps its counters in their
\* bounds and a check's target within what was registered.
THEOREM DiscoveryTypeCorrect == DiscoverySpec => []DiscoveryTypeOK
<1>1. DiscoveryInv => DiscoveryTypeOK
  BY DEF DiscoveryInv
<1> QED
  BY <1>1, DiscoveryInductive, PTL

\* Registering starts the polls of an id and deregistering stops them: no timer
\* is left behind for an id that is gone, and an id is without a timer only if
\* two services had it at once and one of them gave it back.
THEOREM PolledIffRegisteredHolds == DiscoverySpec => []PolledIffRegistered
<1>1. DiscoveryInv => PolledIffRegistered
  BY FirstFinds DEF DiscoveryInv, DiscoveryTypeOK, Polled, Present, PolledIffRegistered
<1> QED
  BY <1>1, DiscoveryInductive, PTL

\* weightedRoundRobin is fair whenever it is asked: whatever healthy instances
\* of positive integer weights it finds, and at whatever natural number earlier
\* lists left the counter, the next round gives each instance its weight.
THEOREM TurnIsFairHolds == DiscoverySpec => []TurnIsFair
<1>1. DiscoveryInv => TurnIsFair
  <2> SUFFICES ASSUME DiscoveryInv, NEW s \in Services
               PROVE  LET list == GetInstances(s)
                          t == Turns(list, turn[s])
                      IN turn[s] \in Nat /\ (\A k \in DOMAIN list : list[k].weight > 0) =>
                             \A k \in DOMAIN list :
                                 Cardinality({n \in 1..Total(list) : Chosen(list, t[n]) = k})
                                     = list[k].weight
    BY DEF TurnIsFair
  <2> DEFINE list == GetInstances(s)
  <2>1. list \in Seq(Instances)
    BY GetInstancesType DEF DiscoveryInv, DiscoveryTypeOK
  <2> HIDE DEF list
  <2>2. ASSUME turn[s] \in Nat, \A k \in DOMAIN list : list[k].weight > 0
        PROVE  \A k \in DOMAIN list :
                   Cardinality({n \in 1..Total(list) : Chosen(list, Turns(list, turn[s])[n]) = k})
                       = list[k].weight
    <3>1. list \in Seq(Positive)
      <4>1. \A k \in 1..Len(list) : list[k] \in Positive
        BY <2>1, <2>2 DEF Positive
      <4> QED
        BY <2>1, <4>1, InstancesOf
    <3> QED
      BY <2>2, <3>1, RoundIsFair
  <2> QED
    BY <2>2 DEF list
<1> QED
  BY <1>1, DiscoveryInductive, PTL
=============================================================================
