----------------------------- MODULE Coalescer -----------------------------
(***************************************************************************)
(* middleware/request-coalescer.ts: of the GET and HEAD requests with one  *)
(* key the first leads, through hooks on its response, and the others wait *)
(* for its promise.  The entry of a key is removed when its leader's       *)
(* response ends or is destroyed, and by cleanup() when it is older than   *)
(* MAX_WAIT_MS: the interval of index.ts, and every end of a response.     *)
(* The hook on res.end stays in place when a response is destroyed: should *)
(* it be ended later, the key's entry is removed again, whoever's it is.   *)
(*                                                                         *)
(* The handlers of a promise run before the next event, so a settled       *)
(* promise and its followers change in one step.  A follower whose leader  *)
(* failed is left without an answer: the module has no export `logger`,    *)
(* and the handler throws before it calls next().                          *)
(***************************************************************************)
EXTENDS Integers, FiniteSets

CONSTANTS Reqs, Keys,
          KeyOf,       \* getCoalesceKey: method, tenant, path and query
          MaxWait      \* MAX_WAIT_MS, in ticks

ASSUME CoalescerAssumption ==
    /\ KeyOf \in [Reqs -> Keys] /\ MaxWait \in Nat
    /\ "none" \notin Reqs

VARIABLES
    entry,    \* pending: the leader of each key, or None
    age,      \* how long ago the entry was created; one past MaxWait is "older"
    phase,    \* each request
    leader,   \* of a follower
    promise,  \* of each leader
    overdue   \* history: keys of which an entry was removed for its age, or by
              \* the end of a response that had been destroyed

vars == <<entry, age, phase, leader, promise, overdue>>

None == "none"

Phases == {"new", "leading",
           "gone",        \* leading, but the client has left: res may never end
           "following",
           "answered",
           "destroyed",   \* a leader's response; its end may still be called
           "ended",       \* ... and has been
           "unanswered"}  \* a follower whose leader failed

TypeOK ==
    /\ entry \in [Keys -> Reqs \cup {None}]
    /\ age \in [Keys -> 0..MaxWait + 1]
    /\ phase \in [Reqs -> Phases]
    /\ leader \in [Reqs -> Reqs \cup {None}]
    /\ promise \in [Reqs -> {"pending", "resolved", "rejected"}]
    /\ overdue \in SUBSET Keys

Init ==
    /\ entry = [k \in Keys |-> None]
    /\ age = [k \in Keys |-> 0]
    /\ phase = [r \in Reqs |-> "new"]
    /\ leader = [r \in Reqs |-> None]
    /\ promise = [r \in Reqs |-> "pending"]
    /\ overdue = {}

InFlight(r) == phase[r] \in {"leading", "gone"}
Followers(r) == {f \in Reqs : phase[f] = "following" /\ leader[f] = r}

-----------------------------------------------------------------------------
\* The middleware: follow the key's pending request, or lead.
Arrive(r) ==
    /\ phase[r] = "new"
    /\ LET k == KeyOf[r]
       IN IF entry[k] = None
          THEN /\ entry' = [entry EXCEPT ![k] = r]
               /\ age' = [age EXCEPT ![k] = 0]
               /\ phase' = [phase EXCEPT ![r] = "leading"]
               /\ UNCHANGED leader
          ELSE /\ phase' = [phase EXCEPT ![r] = "following"]
               /\ leader' = [leader EXCEPT ![r] = entry[k]]
               /\ UNCHANGED <<entry, age>>
    /\ UNCHANGED <<promise, overdue>>

\* Faulty: the comparison is the wrong way round.
ExpiredYoung(keys) == {k \in keys : entry[k] # None /\ age[k] <= MaxWait}

\* What cleanup() removes of the entries of keys.
Expired(keys) == {k \in keys : entry[k] # None /\ age[k] > MaxWait}

\* Of keys whose entries are removed, those whose leaders have not ended: the
\* entry is too old, or the response r that ends had been destroyed before.
TakenAway(keys, rejected, r) ==
    {k \in keys : \/ entry[k] \in rejected /\ age[k] > MaxWait
                  \/ entry[k] # None /\ r \in Reqs /\ phase[r] = "destroyed" /\ KeyOf[r] = k}

\* Faulty: the entries are removed, their promises stay pending.
SettleQuietly(kept, resolved, rejected, r, p) ==
    LET won == {q \in resolved : promise[q] = "pending"}
    IN /\ promise' = [q \in Reqs |-> IF q \in won THEN "resolved" ELSE promise[q]]
       /\ phase' = [q \in Reqs |->
                       IF q = r THEN p
                       ELSE IF \E l \in won : q \in Followers(l) THEN "answered"
                       ELSE phase[q]]
       /\ entry' = [k \in Keys |-> IF k \in kept THEN entry[k] ELSE None]
       /\ overdue' = overdue \cup TakenAway(Keys \ kept, rejected, r)
       /\ UNCHANGED <<age, leader>>

\* Only the entries of kept stay; the pending promises of these leaders are
\* resolved and rejected; the request r itself, if any, gets to phase p.
Settle(kept, resolved, rejected, r, p) ==
    LET won == {q \in resolved : promise[q] = "pending"}
        lost == {q \in rejected : promise[q] = "pending"}
    IN /\ promise' = [q \in Reqs |-> IF q \in won THEN "resolved"
                                     ELSE IF q \in lost THEN "rejected" ELSE promise[q]]
       /\ phase' = [q \in Reqs |->
                       IF q = r THEN p
                       ELSE IF \E l \in won : q \in Followers(l) THEN "answered"
                       ELSE IF \E l \in lost : q \in Followers(l) THEN "unanswered"
                       ELSE phase[q]]
       /\ entry' = [k \in Keys |-> IF k \in kept THEN entry[k] ELSE None]
       /\ overdue' = overdue \cup TakenAway(Keys \ kept, rejected, r)
       /\ UNCHANGED <<age, leader>>

\* Faulty: the end of one response forgets all pending requests.
EndForgettingAll(r) ==
    /\ InFlight(r)
    /\ Settle({}, {r}, {}, r, "answered")

\* The hook on res.end: the key's entry is deleted, whoever's it is, then the
\* expired entries of the other keys, and the leader's promise is resolved.
Ends(r, p) ==
    LET others == Keys \ {KeyOf[r]}
        expired == Expired(others)
    IN Settle(others \ expired, {r}, {entry[k] : k \in expired}, r, p)

End(r) == InFlight(r) /\ Ends(r, "answered")

\* The same hook, when whoever writes to a destroyed response comes to its
\* end; the promise has been rejected before.
LateEnd(r) == phase[r] = "destroyed" /\ Ends(r, "ended")

\* The hook on res.destroy.
Destroy(r) ==
    /\ InFlight(r)
    /\ Settle(Keys \ {KeyOf[r]}, {}, {r}, r, "destroyed")

\* The leader's client disconnects: a pipe that is running is undone and
\* never ends res; one that is yet to start still will.
ClientLeaves(r) ==
    /\ phase[r] = "leading"
    /\ phase' = [phase EXCEPT ![r] = "gone"]
    /\ UNCHANGED <<entry, age, leader, promise, overdue>>

\* The interval.
Cleanup ==
    /\ Expired(Keys) # {}
    /\ Settle(Keys \ Expired(Keys), {}, {entry[k] : k \in Expired(Keys)}, None, None)

Tick ==
    /\ \E k \in Keys : entry[k] # None /\ age[k] <= MaxWait
    /\ age' = [k \in Keys |-> IF entry[k] # None /\ age[k] <= MaxWait THEN age[k] + 1
                              ELSE age[k]]
    /\ UNCHANGED <<entry, phase, leader, promise, overdue>>

Next ==
    \/ \E r \in Reqs : Arrive(r) \/ End(r) \/ LateEnd(r) \/ Destroy(r) \/ ClientLeaves(r)
    \/ Cleanup
    \/ Tick

Spec == Init /\ [][Next]_vars

\* A response whose client is there comes to its end; the interval fires.
FairSpec ==
    /\ Spec
    /\ \A r \in Reqs : WF_vars(phase[r] = "leading" /\ (End(r) \/ Destroy(r)))
    /\ WF_vars(Cleanup) /\ WF_vars(Tick)

-----------------------------------------------------------------------------
\* Of each key one leader's response is under way at a time, unless one of
\* them took longer than MAX_WAIT_MS, or was destroyed and ended all the same.
SingleFlight ==
    \A k \in Keys \ overdue : Cardinality({r \in Reqs : InFlight(r) /\ KeyOf[r] = k}) <= 1

\* Whoever waits, waits for a leader in flight whose entry cleanup() can
\* still find, unless an older leader of the key overstayed or was destroyed:
\* its end deletes its successor's entry.
WaitersAreTimed ==
    \A f \in Reqs : phase[f] = "following" =>
        /\ InFlight(leader[f]) /\ promise[leader[f]] = "pending"
        /\ entry[KeyOf[f]] = leader[f] \/ KeyOf[f] \in overdue

\* No follower waits for ever, even when the leader's client has left, unless
\* an older leader of the key overstayed, or ended after it was destroyed.
FollowersSettle ==
    \A f \in Reqs : phase[f] = "following"
                        ~> phase[f] # "following" \/ KeyOf[f] \in overdue
=============================================================================
