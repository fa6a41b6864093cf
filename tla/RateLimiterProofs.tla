------------------------- MODULE RateLimiterProofs -------------------------
(***************************************************************************)
(* The safety of RateLimiter for every number of requests, stacked rules,  *)
(* polls, reconnections and losses of a connection, checked by TLAPS.      *)
(*                                                                         *)
(* Each request has an account with the rules: those before the one it is  *)
(* at have run for it, those behind have not, and the one it is at may     *)
(* have run once for every time that a connection was lost, and once more. *)
(* What makes this inductive is what is known of a command while the link  *)
(* is lost: it ran, if at all, before the last loss.                        *)
(***************************************************************************)
EXTENDS RateLimiter, TLAPS

\* What has been charged to request r.
Charged(r) ==
    \A i \in 1..Rules :
        /\ i > at[r] => runs[r][i] = 0
        /\ i <= at[r] => runs[r][i] <= 1 + losses
        /\ /\ i = at[r] /\ phase[r] \in {"new", "calling"}
           /\ cmd[r] = "sent" \/ link[Limiter] = "lost"
           => runs[r][i] <= losses

\* Which rules have counted r.
Counted(r) ==
    /\ phase[r] = "calling" =>
           /\ \A i \in 1..Rules : i < at[r] => runs[r][i] > 0
           /\ cmd[r] = "ok" => runs[r][at[r]] > 0
    /\ phase[r] = "passed" => \A i \in 1..Rules : runs[r][i] > 0

\* Where r stands; a link that is being set up carries no answer.
Placed(r) ==
    /\ phase[r] = "new" => at[r] = 1 /\ cmd[r] = "sent"
    /\ phase[r] = "calling" => at[r] <= Rules
    /\ phase[r] = "calling" /\ ~Writable(Limiter) => cmd[r] = "sent"

Account(r) == Placed(r) /\ Charged(r) /\ (~failOpen => Counted(r))

IndInv ==
    /\ TypeOK
    /\ \A r \in Reqs : Account(r)
    /\ FailOpenAdmits
    /\ FlagLostOnlyToPolls

-----------------------------------------------------------------------------
\* What the assumptions say of the constants.
LEMMA Constants ==
    /\ Rules \in Nat \ {0}
    /\ MaxLosses \in Nat /\ MaxReconnects \in Nat
    /\ Limiter \in Clients
    /\ \A p \in Polls : p \in Clients /\ p # Limiter
BY RateLimiterAssumption, RedisLinkAssumption DEF Clients, Limiter

\* The chain from rule i ends at rule i or lets the request through; with
\* redisFailOpen false, only behind the last rule.
LEMMA CheckedFacts ==
    ASSUME TypeOK, NEW i \in 1..Rules + 1
    PROVE  /\ Checked(i).phase \in {"calling", "passed", "429", "503"}
           /\ Checked(i).at \in 1..Rules + 1
           /\ Checked(i).at >= i
           /\ Checked(i).phase # "passed" => Checked(i).at = i /\ i <= Rules
           /\ Checked(i).phase = "calling" => Writable(Limiter)
           /\ Checked(i).phase = "passed" /\ ~failOpen => i = Rules + 1
           /\ failOpen => Checked(i).phase \in {"calling", "passed"}
<1>1. i \in Int /\ Rules \in Int /\ Rules > 0 /\ 1 <= i /\ i <= Rules + 1
  BY Constants
<1>2. CASE i > Rules
  BY <1>1, <1>2 DEF Checked
<1>3. CASE i <= Rules /\ flag /\ shas /\ Writable(Limiter)
  BY <1>1, <1>3 DEF Checked
<1>4. CASE i <= Rules /\ ~(flag /\ shas /\ Writable(Limiter))
  BY <1>1, <1>4 DEF Checked
<1> QED
  BY <1>1, <1>2, <1>3, <1>4

-----------------------------------------------------------------------------
\* What the steps of the link that leave the limiter's commands alone keep.
LinkKept ==
    /\ LinkTypeOK' /\ FlagLostOnlyToPolls'
    /\ losses <= losses'
    /\ Writable(Limiter) => Writable(Limiter)'
    /\ link'[Limiter] = "lost" => link[Limiter] = "lost" \/ losses' = losses + 1

\* Connections, reconnections and resets, and closes of other clients.
LEMMA ClientKeeps ==
    ASSUME TypeOK, FlagLostOnlyToPolls, NEW c \in Clients,
           \/ ConnectOk(c) \/ Reconnect(c) \/ LinkResets(c)
           \/ c # Limiter /\ (ConnectFails(c) \/ LinkCloses(c))
    PROVE  LinkKept
<1>1. /\ MaxLosses \in Nat /\ MaxReconnects \in Nat /\ Limiter \in Clients
      /\ losses \in Nat /\ link \in [Clients -> Statuses]
      /\ tries \in [Clients -> 0..MaxReconnects]
  BY Constants DEF TypeOK, LinkTypeOK
<1>2. c # Limiter => c \in Polls
  BY DEF Clients
<1>3. CASE ConnectOk(c)
  BY <1>1, <1>3 DEF ConnectOk, LinkKept, TypeOK, LinkTypeOK, Statuses, Writable,
                    FlagLostOnlyToPolls
<1>4. CASE Reconnect(c)
  <2>1. LinkTypeOK' /\ losses' = losses
    BY <1>1, <1>4 DEF Reconnect, TypeOK, LinkTypeOK, Statuses
  <2>2. FlagLostOnlyToPolls'
    BY <1>1, <1>4, Constants DEF Reconnect, FlagLostOnlyToPolls, Statuses
  <2> QED
    BY <1>1, <1>4, <2>1, <2>2 DEF Reconnect, LinkKept, Writable
<1>5. CASE c # Limiter /\ (ConnectFails(c) \/ LinkCloses(c))
  <2>1. Close(c) /\ UNCHANGED <<redis, scripts, losses>>
    BY <1>5 DEF ConnectFails, LinkCloses
  <2>2. link'[c] \in {"backoff", "ended"} /\ link'[Limiter] = link[Limiter]
    BY <1>1, <1>5, <2>1 DEF Close
  <2>3. LinkTypeOK'
    <3>1. link' \in [Clients -> Statuses]
      BY <1>1, <2>1 DEF Close, Statuses
    <3>2. tries' \in [Clients -> 0..MaxReconnects]
      BY <1>1, <2>1 DEF Close
    <3>3. reading' \in SUBSET Polls /\ flag' \in BOOLEAN
      BY <2>1 DEF Close, TypeOK, LinkTypeOK
    <3> QED
      BY <2>1, <3>1, <3>2, <3>3 DEF TypeOK, LinkTypeOK
  <2>4. FlagLostOnlyToPolls'
    BY <1>2, <1>5, <2>2 DEF FlagLostOnlyToPolls
  <2> QED
    BY <1>1, <2>1, <2>2, <2>3, <2>4 DEF LinkKept, Writable
<1>6. CASE LinkResets(c)
  <2>1. /\ link'[c] = "lost" /\ losses' = losses + 1 /\ flag' = flag
        /\ \A d \in Clients \ {c} : link'[d] = link[d]
    BY <1>1, <1>6 DEF LinkResets
  <2>2. LinkTypeOK'
    BY <1>1, <1>6 DEF LinkResets, TypeOK, LinkTypeOK, Statuses
  <2>3. FlagLostOnlyToPolls'
    BY <1>1, <1>6, <2>1, Constants DEF LinkResets, FlagLostOnlyToPolls
  <2> QED
    BY <1>1, <2>1, <2>2, <2>3 DEF LinkKept, Writable
<1> QED
  BY <1>3, <1>4, <1>5, <1>6

\* A poll opens and closes a link of its own.
LEMMA PollKeeps ==
    ASSUME TypeOK, FlagLostOnlyToPolls, NEW p \in Polls,
           PollStarts(p) \/ PollEnds(p)
    PROVE  LinkKept
<1>1. /\ MaxLosses \in Nat /\ losses \in Nat
      /\ link \in [Clients -> Statuses] /\ p \in Clients /\ p # Limiter
      /\ Limiter \in Clients
  BY Constants DEF TypeOK, LinkTypeOK
<1>2. /\ link'[p] \in {"connecting", "ended"} /\ link'[Limiter] = link[Limiter]
      /\ losses' = losses
  BY <1>1 DEF PollStarts, PollEnds
<1>3. LinkTypeOK'
  <2>1. link' \in [Clients -> Statuses]
    BY <1>1 DEF PollStarts, PollEnds, Statuses
  <2>2. tries' \in [Clients -> 0..MaxReconnects]
    <3>1. tries \in [Clients -> 0..MaxReconnects] /\ 0 \in 0..MaxReconnects
      BY Constants DEF TypeOK, LinkTypeOK
    <3>2. tries' = tries \/ tries' = [tries EXCEPT ![p] = 0]
      BY DEF PollStarts, PollEnds
    <3> QED
      BY <1>1, <3>1, <3>2
  <2>3. reading' \in SUBSET Polls /\ flag' \in BOOLEAN
    BY DEF PollStarts, PollEnds, TypeOK, LinkTypeOK
  <2>4. UNCHANGED <<redis, scripts, losses>>
    BY DEF PollStarts, PollEnds
  <2> QED
    BY <2>1, <2>2, <2>3, <2>4 DEF TypeOK, LinkTypeOK
<1>4. FlagLostOnlyToPolls'
  BY <1>2 DEF FlagLostOnlyToPolls
<1> QED
  BY <1>1, <1>2, <1>3, <1>4 DEF LinkKept, Writable

\* Redis loses every link when it losses, and is counted for it.
LEMMA ServerKeeps ==
    ASSUME TypeOK, FlagLostOnlyToPolls, RedisStops \/ RedisStarts
    PROVE  LinkKept
<1>1. /\ MaxLosses \in Nat /\ losses \in Nat /\ link \in [Clients -> Statuses]
      /\ Limiter \in Clients
  BY Constants DEF TypeOK, LinkTypeOK
<1>2. CASE RedisStops
  <2>1. /\ \A c \in Clients : link'[c] = IF link[c] = "ready" THEN "lost" ELSE link[c]
        /\ link' \in [Clients -> Statuses]
    BY <1>1, <1>2 DEF RedisStops, Statuses
  <2>2. LinkTypeOK'
    <3>1. /\ redis' = "down" /\ scripts' = FALSE
          /\ losses' \in 0..MaxLosses
          /\ UNCHANGED <<tries, reading, flag>>
      BY <1>1, <1>2 DEF RedisStops, TypeOK, LinkTypeOK
    <3> QED
      BY <2>1, <3>1 DEF TypeOK, LinkTypeOK
  <2>3. /\ losses' = losses + 1 /\ link'[Limiter] # "ready"
        /\ Writable(Limiter) => Writable(Limiter)'
    BY <1>1, <1>2, <2>1 DEF RedisStops, Writable
  <2>4. FlagLostOnlyToPolls'
    BY <2>3 DEF FlagLostOnlyToPolls
  <2> QED
    BY <1>1, <2>2, <2>3, <2>4 DEF LinkKept
<1>3. CASE RedisStarts
  BY <1>1, <1>3 DEF RedisStarts, LinkKept, TypeOK, LinkTypeOK, Writable,
                    FlagLostOnlyToPolls
<1> QED
  BY <1>2, <1>3

\* Whatever the link does, an account stays good: a command that was answered
\* and then lost ran before the loss.
LEMMA LinkStepKeeps ==
    ASSUME IndInv, LinkStep
    PROVE  IndInv'
<1>1. TypeOK /\ FlagLostOnlyToPolls /\ FailOpenAdmits
  BY DEF IndInv
<1>2. LinkKept
  BY <1>1, Constants, ClientKeeps, PollKeeps, ServerKeeps DEF LinkStep
<1>3. UNCHANGED <<boot, shas, failOpen, phase, at, cmd, runs>>
  BY DEF LinkStep, reqVars
<1>4. TypeOK' /\ FailOpenAdmits' /\ FlagLostOnlyToPolls'
  BY <1>1, <1>2, <1>3 DEF TypeOK, FailOpenAdmits, LinkKept
<1>5. ASSUME NEW r \in Reqs
      PROVE  Account(r)'
  <2>1. Account(r) /\ losses \in Nat /\ losses' \in Nat
        /\ runs[r] \in [1..Rules -> Nat]
    BY <1>1, <1>2, Constants DEF IndInv, TypeOK, LinkKept, LinkTypeOK
  <2>2. Placed(r)' /\ (~failOpen' => Counted(r)')
    BY <1>2, <1>3, <2>1 DEF Account, Placed, Counted, LinkKept
  <2>3. Charged(r)'
    <3> SUFFICES ASSUME NEW i \in 1..Rules
                 PROVE  /\ i > at[r] => runs[r][i] = 0
                        /\ i <= at[r] => runs[r][i] <= 1 + losses'
                        /\ /\ i = at[r] /\ phase[r] \in {"new", "calling"}
                           /\ cmd[r] = "sent" \/ link'[Limiter] = "lost"
                           => runs[r][i] <= losses'
      BY <1>3 DEF Charged
    <3>1. /\ i > at[r] => runs[r][i] = 0
          /\ i <= at[r] => runs[r][i] <= 1 + losses
          /\ /\ i = at[r] /\ phase[r] \in {"new", "calling"}
             /\ cmd[r] = "sent" \/ link[Limiter] = "lost"
             => runs[r][i] <= losses
      BY <2>1 DEF Account, Charged
    <3>2. i \in Int /\ runs[r][i] \in Int /\ losses <= losses'
      BY <1>2, <2>1, Constants DEF LinkKept
    <3>3. at[r] \in Int /\ losses \in Int /\ losses' \in Int
      BY <1>1, <2>1, Constants DEF TypeOK
    <3>4. link'[Limiter] = "lost" => link[Limiter] = "lost" \/ losses' = losses + 1
      BY <1>2 DEF LinkKept
    <3> QED
      BY <3>1, <3>2, <3>3, <3>4
  <2> QED
    BY <2>2, <2>3 DEF Account
<1> QED
  BY <1>4, <1>5 DEF IndInv

-----------------------------------------------------------------------------
\* A request that moves on to `next' with its command set to k.
LEMMA MoveKeeps ==
    ASSUME IndInv, NEW r \in Reqs, phase[r] \in {"new", "calling"},
           NEW next, NEW k \in {"sent", "ok", "full", "noscript"},
           GoOn(r, next), cmd' = [cmd EXCEPT ![r] = k],
           next.phase \in {"calling"} \cup Decided,
           next.at \in 1..Rules + 1, next.at >= at[r],
           next.phase = "calling" =>
               /\ Writable(Limiter) /\ k = "sent" /\ next.at <= Rules
               /\ next.at > at[r] \/ cmd[r] = "sent",
           ~failOpen =>
               /\ next.phase = "calling" =>
                      \A i \in 1..Rules : i < next.at => runs[r][i] > 0
               /\ next.phase = "passed" => \A i \in 1..Rules : runs[r][i] > 0,
           failOpen => /\ next.phase # "503"
                       /\ next.phase = "429" => k = "full"
    PROVE  IndInv'
<1>1. UNCHANGED <<linkVars, boot, shas, failOpen, runs>>
      /\ phase' = [phase EXCEPT ![r] = next.phase]
      /\ at' = [at EXCEPT ![r] = next.at]
  BY DEF GoOn
<1>2. LinkTypeOK' /\ FlagLostOnlyToPolls' /\ (Writable(Limiter)' <=> Writable(Limiter))
  BY <1>1 DEF IndInv, TypeOK, LinkTypeOK, FlagLostOnlyToPolls, linkVars, Writable
<1>3. TypeOK'
  BY <1>1, <1>2 DEF IndInv, TypeOK, Decided
<1>4. phase'[r] = next.phase /\ at'[r] = next.at /\ cmd'[r] = k
      /\ \A q \in Reqs \ {r} : phase'[q] = phase[q] /\ at'[q] = at[q] /\ cmd'[q] = cmd[q]
  BY <1>1 DEF IndInv, TypeOK
<1>5. FailOpenAdmits'
  BY <1>1, <1>4 DEF IndInv, FailOpenAdmits
<1>6. /\ losses \in Nat /\ losses' = losses /\ link' = link /\ Rules \in Nat
      /\ at[r] \in Int /\ next.at \in Int
      /\ runs[r] \in [1..Rules -> Nat] /\ Account(r)
  BY <1>1, Constants DEF IndInv, TypeOK, LinkTypeOK, linkVars
<1>7. Account(r)'
  <2>1. Placed(r)'
    BY <1>1, <1>2, <1>4, <1>6 DEF Placed, Decided
  <2>2. ASSUME NEW i \in 1..Rules
        PROVE  /\ i > next.at => runs[r][i] = 0
               /\ i <= next.at => runs[r][i] <= 1 + losses
               /\ i = next.at /\ next.phase = "calling" => runs[r][i] <= losses
    BY <1>6 DEF Account, Charged
  <2>3. Charged(r)'
    BY <1>1, <1>4, <1>6, <2>2 DEF Charged, Decided
  <2>4. ~failOpen' => Counted(r)'
    BY <1>1, <1>4, <1>6 DEF Counted
  <2> QED
    BY <2>1, <2>3, <2>4 DEF Account
<1>8. ASSUME NEW q \in Reqs \ {r}
      PROVE  Account(q)'
  <2>1. Account(q)
    BY DEF IndInv
  <2> QED
    BY <1>1, <1>2, <1>4, <1>6, <2>1 DEF Account, Placed, Charged, Counted
<1> QED
  BY <1>2, <1>3, <1>5, <1>7, <1>8 DEF IndInv

\* A new request goes to its first rule.
LEMMA ArriveKeeps ==
    ASSUME IndInv, NEW r \in Reqs, Arrive(r)
    PROVE  IndInv'
<1>1. /\ TypeOK /\ 1 \in 1..Rules + 1 /\ Rules \in Nat /\ Rules >= 1
      /\ Account(r) /\ phase[r] = "new" /\ GoOn(r, Checked(1))
      /\ cmd' = cmd
  BY Constants DEF IndInv, Arrive
<1>2. at[r] = 1 /\ cmd[r] = "sent" /\ cmd' = [cmd EXCEPT ![r] = "sent"]
  BY <1>1 DEF Account, Placed, TypeOK
<1>3. DEFINE next == Checked(1)
<1>4. /\ next.phase \in {"calling", "passed", "429", "503"} /\ next.at \in 1..Rules + 1
      /\ next.at >= 1
      /\ next.phase # "passed" => next.at = 1
      /\ next.phase = "calling" => Writable(Limiter)
      /\ next.phase = "passed" => failOpen
      /\ failOpen => next.phase \in {"calling", "passed"}
  BY <1>1, CheckedFacts
<1> HIDE DEF next
<1>5. GoOn(r, next)
  BY <1>1 DEF next
<1>6. /\ next.phase \in {"calling"} \cup Decided
      /\ next.at >= at[r]
      /\ next.phase = "calling" =>
             /\ Writable(Limiter) /\ "sent" = "sent" /\ next.at <= Rules
             /\ next.at > at[r] \/ cmd[r] = "sent"
      /\ failOpen => next.phase # "503" /\ (next.phase = "429" => "sent" = "full")
  BY <1>1, <1>2, <1>4 DEF Decided
<1>7. ~failOpen => /\ next.phase = "calling" =>
                          \A i \in 1..Rules : i < next.at => runs[r][i] > 0
                   /\ next.phase = "passed" => \A i \in 1..Rules : runs[r][i] > 0
  BY <1>4
<1> QED
  BY <1>1, <1>2, <1>4, <1>5, <1>6, <1>7, MoveKeeps

\* A command that is given up has not been answered.
LEMMA RejectedKeeps ==
    ASSUME IndInv, NEW r \in Reqs, Rejected(r)
    PROVE  IndInv'
<1>1. /\ TypeOK /\ Rules \in Nat /\ phase[r] = "calling" /\ Account(r)
      /\ ~Writable(Limiter) /\ GoOn(r, Failed(at[r])) /\ cmd' = cmd
      /\ at[r] \in 1..Rules + 1
  BY Constants DEF IndInv, TypeOK, Rejected, Writable
<1>2. at[r] <= Rules /\ at[r] + 1 \in 1..Rules + 1 /\ cmd[r] = "sent"
      /\ cmd' = [cmd EXCEPT ![r] = "sent"]
  BY <1>1 DEF Account, Placed, TypeOK
<1>3. DEFINE next == Failed(at[r])
<1>4. /\ next.phase \in {"passed", "503"} /\ next.at \in 1..Rules + 1 /\ next.at >= at[r]
      /\ next.phase = "passed" <=> failOpen
  BY <1>1, <1>2, CheckedFacts DEF Failed
<1> HIDE DEF next
<1>5. GoOn(r, next)
  BY <1>1 DEF next
<1> QED
  BY <1>1, <1>2, <1>4, <1>5, MoveKeeps DEF Decided

\* An answered command takes its request on, or refuses it.
LEMMA ReplyKeeps ==
    ASSUME IndInv, NEW r \in Reqs, Reply(r)
    PROVE  IndInv'
<1>1. /\ TypeOK /\ Rules \in Nat /\ phase[r] = "calling" /\ Account(r)
      /\ cmd[r] \in {"ok", "full", "noscript"} /\ at[r] \in 1..Rules + 1
  BY Constants DEF IndInv, TypeOK, Reply
<1>2. at[r] <= Rules /\ at[r] + 1 \in 1..Rules + 1 /\ at[r] \in Int
  BY <1>1 DEF Account, Placed
<1>3. DEFINE next == CASE cmd[r] = "ok" -> Checked(at[r] + 1)
                       [] cmd[r] = "full" -> [phase |-> "429", at |-> at[r]]
                       [] cmd[r] = "noscript" -> Failed(at[r])
             k == IF next.phase = "calling" THEN "sent" ELSE cmd[r]
<1>4. /\ next.phase \in {"calling", "passed", "429", "503"}
      /\ next.at \in 1..Rules + 1 /\ next.at >= at[r]
      /\ next.phase = "calling" =>
             Writable(Limiter) /\ next.at = at[r] + 1 /\ next.at <= Rules
  <2>1. CASE cmd[r] = "ok"
    BY <1>1, <1>2, <2>1, CheckedFacts
  <2>2. CASE cmd[r] = "full"
    BY <1>1, <1>2, <2>2
  <2>3. CASE cmd[r] = "noscript"
    BY <1>1, <1>2, <2>3, CheckedFacts DEF Failed
  <2> QED
    BY <1>1, <2>1, <2>2, <2>3
<1>5. /\ ~failOpen /\ next.phase \in {"calling", "passed"} => cmd[r] = "ok"
      /\ ~failOpen /\ next.phase = "passed" => at[r] = Rules
      /\ failOpen => next.phase # "503" /\ (next.phase = "429" => cmd[r] = "full")
  <2>1. CASE cmd[r] = "ok"
    BY <1>1, <1>2, <2>1, CheckedFacts
  <2>2. CASE cmd[r] = "full"
    BY <1>1, <1>2, <2>2
  <2>3. CASE cmd[r] = "noscript"
    BY <1>1, <1>2, <2>3, CheckedFacts DEF Failed
  <2> QED
    BY <1>1, <2>1, <2>2, <2>3
<1>6. GoOn(r, next) /\ phase'[r] = next.phase /\ cmd' = [cmd EXCEPT ![r] = k]
  BY <1>1 DEF Reply, GoOn, TypeOK
<1>7. k \in {"sent", "ok", "full", "noscript"}
      /\ (next.phase = "calling" => k = "sent")
      /\ (next.phase # "calling" => k = cmd[r])
  BY <1>1
<1> HIDE DEF next, k
<1>8. ~failOpen => /\ next.phase = "calling" =>
                          \A i \in 1..Rules : i < next.at => runs[r][i] > 0
                   /\ next.phase = "passed" => \A i \in 1..Rules : runs[r][i] > 0
  BY <1>1, <1>2, <1>4, <1>5 DEF Account, Counted
<1>9. /\ next.phase \in {"calling"} \cup Decided
      /\ next.phase = "calling" =>
             /\ Writable(Limiter) /\ k = "sent" /\ next.at <= Rules
             /\ next.at > at[r] \/ cmd[r] = "sent"
      /\ failOpen => next.phase # "503" /\ (next.phase = "429" => k = "full")
  BY <1>2, <1>4, <1>5, <1>7 DEF Decided
<1> QED
  BY <1>1, <1>4, <1>6, <1>7, <1>8, <1>9, MoveKeeps

\* A command that Redis runs is answered; it had run at most once for each
\* loss before.
LEMMA ScriptRunsKeeps ==
    ASSUME IndInv, NEW r \in Reqs, ScriptRuns(r)
    PROVE  IndInv'
<1>1. /\ TypeOK /\ Rules \in Nat /\ Account(r) /\ losses \in 0..MaxLosses
      /\ MaxLosses \in Nat /\ at[r] \in 1..Rules + 1
      /\ phase[r] = "calling" /\ cmd[r] = "sent" /\ link[Limiter] = "ready"
      /\ UNCHANGED <<linkVars, boot, shas, failOpen, phase, at>>
  BY Constants DEF IndInv, TypeOK, LinkTypeOK, ScriptRuns
<1>2. PICK k \in {"ok", "full", "noscript"} :
          /\ cmd' = [cmd EXCEPT ![r] = k]
          /\ IF k = "noscript" THEN runs' = runs
             ELSE runs' = [runs EXCEPT ![r] = [runs[r] EXCEPT ![at[r]] = @ + 1]]
  <2>1. CASE scripts
    BY <2>1 DEF ScriptRuns
  <2>2. CASE ~scripts
    BY <2>2 DEF ScriptRuns
  <2> QED
    BY <2>1, <2>2
<1>3. at[r] \in 1..Rules /\ at[r] \in Int
  BY <1>1 DEF Account, Placed
<1>4. /\ runs[r] \in [1..Rules -> 0..MaxLosses + 1]
      /\ \A i \in 1..Rules : runs[r][i] \in Int
      /\ runs[r][at[r]] <= losses /\ runs[r][at[r]] >= 0
  BY <1>1, <1>3 DEF TypeOK, Account, Charged
<1>5. /\ runs'[r] \in [1..Rules -> 0..MaxLosses + 1]
      /\ \A i \in 1..Rules : i # at[r] => runs'[r][i] = runs[r][i]
      /\ runs'[r][at[r]] \in {runs[r][at[r]], runs[r][at[r]] + 1}
      /\ k # "noscript" => runs'[r][at[r]] = runs[r][at[r]] + 1
  <2>1. r \in DOMAIN runs
    BY <1>1 DEF TypeOK
  <2>2. CASE k = "noscript"
    BY <1>2, <1>4, <2>2
  <2>3. CASE k # "noscript"
    <3>1. runs'[r] = [runs[r] EXCEPT ![at[r]] = @ + 1]
      BY <1>2, <2>1, <2>3
    <3>2. runs[r][at[r]] + 1 \in 0..MaxLosses + 1
      BY <1>1, <1>3, <1>4
    <3> QED
      BY <1>3, <1>4, <3>1, <3>2
  <2> QED
    BY <2>2, <2>3
<1>6. /\ \A q \in Reqs \ {r} : runs'[q] = runs[q] /\ cmd'[q] = cmd[q]
      /\ cmd'[r] = k
      /\ cmd' \in [Reqs -> {"sent", "ok", "full", "noscript"}]
      /\ runs' \in [Reqs -> [1..Rules -> 0..MaxLosses + 1]]
  BY <1>1, <1>2, <1>5 DEF TypeOK
<1>7. TypeOK' /\ FlagLostOnlyToPolls' /\ (Writable(Limiter)' <=> Writable(Limiter))
      /\ link' = link /\ losses' = losses
  BY <1>1, <1>6 DEF IndInv, TypeOK, LinkTypeOK, linkVars, FlagLostOnlyToPolls, Writable
<1>8. FailOpenAdmits'
  BY <1>1, <1>6 DEF IndInv, FailOpenAdmits
<1>9. Account(r)'
  <2>1. Placed(r)'
    BY <1>1, <1>6, <1>7 DEF Account, Placed, Writable
  <2>2. ASSUME NEW i \in 1..Rules
        PROVE  /\ i > at[r] => runs'[r][i] = 0
               /\ i <= at[r] => runs'[r][i] <= 1 + losses
    <3>1. CASE i = at[r]
      BY <1>1, <1>3, <1>4, <1>5, <3>1
    <3>2. CASE i # at[r]
      BY <1>1, <1>5, <3>2 DEF Account, Charged
    <3> QED
      BY <3>1, <3>2
  <2>3. Charged(r)'
    BY <1>1, <1>6, <1>7, <2>2 DEF Charged
  <2>4. ~failOpen' => Counted(r)'
    <3>1. CASE failOpen
      BY <1>1, <3>1
    <3>2. CASE ~failOpen
      <4>1. /\ \A i \in 1..Rules : i < at[r] => runs[r][i] > 0
            /\ phase'[r] = "calling" /\ at' = at
        BY <1>1, <3>2 DEF Account, Counted
      <4>2. \A i \in 1..Rules : i < at[r] => runs'[r][i] > 0
        BY <1>3, <1>5, <4>1
      <4>3. k = "ok" => runs'[r][at[r]] > 0
        BY <1>3, <1>4, <1>5
      <4> QED
        BY <1>6, <4>1, <4>2, <4>3 DEF Counted
    <3> QED
      BY <3>1, <3>2
  <2> QED
    BY <2>1, <2>3, <2>4 DEF Account
<1>10. ASSUME NEW q \in Reqs \ {r}
       PROVE  Account(q)'
  <2>1. Account(q)
    BY DEF IndInv
  <2> QED
    BY <1>1, <1>6, <1>7, <2>1 DEF Account, Placed, Charged, Counted
<1> QED
  BY <1>7, <1>8, <1>9, <1>10 DEF IndInv

\* The limiter's link goes: the commands in flight are as if not answered.
LEMMA LimiterClosesKeeps ==
    ASSUME IndInv, LimiterCloses
    PROVE  IndInv'
<1>1. /\ TypeOK /\ Limiter \in Clients /\ MaxReconnects \in Nat
      /\ link \in [Clients -> Statuses] /\ tries \in [Clients -> 0..MaxReconnects]
  BY Constants DEF IndInv, TypeOK, LinkTypeOK
<1>2. /\ Close(Limiter) /\ UNCHANGED <<redis, scripts, losses>>
      /\ link[Limiter] \in {"connecting", "lost"}
      /\ cmd' = Unanswered /\ UNCHANGED <<boot, shas, failOpen, phase, at, runs>>
  BY DEF LimiterCloses, ConnectFails, LinkCloses
<1>3. link'[Limiter] \in {"backoff", "ended"}
  BY <1>1, <1>2 DEF Close
<1>4. LinkTypeOK'
  <2>1. link' \in [Clients -> Statuses]
    BY <1>1, <1>2 DEF Close, Statuses
  <2>2. tries' \in [Clients -> 0..MaxReconnects]
    BY <1>1, <1>2 DEF Close
  <2>3. reading' \in SUBSET Polls /\ flag' \in BOOLEAN
    BY <1>1, <1>2 DEF Close, TypeOK, LinkTypeOK
  <2> QED
    BY <1>1, <1>2, <2>1, <2>2, <2>3 DEF TypeOK, LinkTypeOK
<1>5. /\ cmd' \in [Reqs -> {"sent", "ok", "full", "noscript"}]
      /\ \A r \in Reqs : cmd'[r] = IF phase[r] = "calling" THEN "sent" ELSE cmd[r]
  BY <1>1, <1>2 DEF Unanswered, TypeOK
<1>6. TypeOK' /\ FailOpenAdmits' /\ FlagLostOnlyToPolls'
  BY <1>1, <1>2, <1>3, <1>4, <1>5
     DEF IndInv, TypeOK, FailOpenAdmits, FlagLostOnlyToPolls
<1>7. ASSUME NEW r \in Reqs
      PROVE  Account(r)'
  <2>1. Account(r) /\ cmd'[r] \in {"sent", cmd[r]}
        /\ (phase[r] = "calling" => cmd'[r] = "sent")
        /\ (phase[r] # "calling" => cmd'[r] = cmd[r])
    BY <1>5 DEF IndInv
  <2>2. Placed(r)' /\ (~failOpen' => Counted(r)')
    BY <1>2, <2>1 DEF Account, Placed, Counted
  <2>3. phase[r] = "calling" => cmd[r] = "sent" \/ link[Limiter] = "lost"
    BY <1>2, <2>1 DEF Account, Placed, Writable
  <2>4. phase[r] = "new" => cmd[r] = "sent"
    BY <2>1 DEF Account, Placed
  <2>5. Charged(r)'
    BY <1>2, <1>3, <2>1, <2>3, <2>4 DEF Account, Charged
  <2> QED
    BY <2>2, <2>5 DEF Account
<1> QED
  BY <1>6, <1>7 DEF IndInv

\* Nothing that a request relies on changes at boot.
LEMMA BootKeeps ==
    ASSUME IndInv, Boot
    PROVE  IndInv'
<1>1. /\ UNCHANGED <<redis, losses, link, tries, reading, flag, failOpen, reqVars>>
      /\ scripts' \in BOOLEAN /\ shas' \in BOOLEAN
      /\ boot' \in {"loading", "serving"}
  BY DEF Boot, BootConnected, BootLoads, BootGivesUp, linkVars, IndInv, TypeOK, LinkTypeOK
<1>2. TypeOK' /\ FailOpenAdmits' /\ FlagLostOnlyToPolls'
  BY <1>1 DEF IndInv, TypeOK, LinkTypeOK, reqVars, FailOpenAdmits, FlagLostOnlyToPolls
<1>3. ASSUME NEW r \in Reqs
      PROVE  Account(r)'
  BY <1>1 DEF IndInv, Account, Placed, Charged, Counted, reqVars, Writable
<1> QED
  BY <1>2, <1>3 DEF IndInv

-----------------------------------------------------------------------------
\* Nothing is charged at first.
LEMMA InitHolds == Init => IndInv
<1> SUFFICES ASSUME Init
             PROVE  IndInv
  OBVIOUS
<1>1. LinkTypeOK
  <2>1. 0 \in 0..MaxReconnects /\ 0 \in 0..MaxLosses
    BY Constants
  <2>2. link \in [Clients -> Statuses]
    BY DEF Init, LinkInit, Statuses
  <2>3. tries \in [Clients -> 0..MaxReconnects]
    BY <2>1 DEF Init, LinkInit
  <2> QED
    BY <2>1, <2>2, <2>3 DEF Init, LinkInit, LinkTypeOK
<1>2. TypeOK
  <2>1. 0 \in 0..MaxLosses + 1 /\ 1 \in 1..Rules + 1
    BY Constants
  <2>2. /\ phase \in [Reqs -> {"new", "calling"} \cup Decided]
        /\ at \in [Reqs -> 1..Rules + 1]
        /\ cmd \in [Reqs -> {"sent", "ok", "full", "noscript"}]
    BY <2>1 DEF Init
  <2>3. runs \in [Reqs -> [1..Rules -> 0..MaxLosses + 1]]
    BY <2>1 DEF Init
  <2> QED
    BY <1>1, <2>2, <2>3 DEF Init, TypeOK
<1>3. losses = 0 /\ flag = TRUE
  BY DEF Init, LinkInit
<1>4. ASSUME NEW r \in Reqs
      PROVE  Account(r) /\ phase[r] = "new"
  BY <1>3, Constants DEF Init, Account, Placed, Charged, Counted
<1> QED
  BY <1>2, <1>3, <1>4 DEF IndInv, FailOpenAdmits, FlagLostOnlyToPolls

\* The invariant always holds.
LEMMA Inductive == Spec => []IndInv
<1>1. IndInv /\ [Next]_vars => IndInv'
  <2> SUFFICES ASSUME IndInv, [Next]_vars
               PROVE  IndInv'
    OBVIOUS
  <2>1. CASE Boot
    BY <2>1, BootKeeps
  <2>2. ASSUME NEW r \in Reqs, Arrive(r) \/ ScriptRuns(r) \/ Reply(r) \/ Rejected(r)
        PROVE  IndInv'
    BY <2>2, ArriveKeeps, ScriptRunsKeeps, ReplyKeeps, RejectedKeeps
  <2>3. CASE LimiterCloses
    BY <2>3, LimiterClosesKeeps
  <2>4. CASE LinkStep
    BY <2>4, LinkStepKeeps
  <2>5. CASE UNCHANGED vars
    <3>1. UNCHANGED <<redis, scripts, losses, link, tries, reading, flag, boot, shas,
                      failOpen, phase, at, cmd, runs>>
      BY <2>5 DEF vars, linkVars, reqVars
    <3>2. TypeOK' /\ FailOpenAdmits' /\ FlagLostOnlyToPolls'
      BY <3>1 DEF IndInv, TypeOK, LinkTypeOK, FailOpenAdmits, FlagLostOnlyToPolls
    <3>3. ASSUME NEW r \in Reqs
          PROVE  Account(r)'
      BY <3>1 DEF IndInv, Account, Placed, Charged, Counted, Writable
    <3> QED
      BY <3>2, <3>3 DEF IndInv
  <2> QED
    BY <2>1, <2>2, <2>3, <2>4, <2>5 DEF Next
<1> QED
  BY <1>1, InitHolds, PTL DEF Spec

\* Every variable of rate-limiter.ts and of its link keeps its type.
THEOREM TypeCorrect == Spec => []TypeOK
<1>1. IndInv => TypeOK
  BY DEF IndInv
<1> QED
  BY <1>1, Inductive, PTL

\* With redisFailOpen false, whoever gets through the stacked rules has been
\* counted by each of them, whatever happens to Redis and to the flag.
THEOREM FailClosedChecksHolds == Spec => []FailClosedChecks
<1>1. IndInv => FailClosedChecks
  BY DEF IndInv, Account, Counted, FailClosedChecks
<1> QED
  BY <1>1, Inductive, PTL

\* With redisFailOpen true, only a script refuses a request.
THEOREM FailOpenAdmitsHolds == Spec => []FailOpenAdmits
<1>1. IndInv => FailOpenAdmits
  BY DEF IndInv
<1> QED
  BY <1>1, Inductive, PTL

\* A rule is charged at most once for a request, and once more for every time
\* that a connection was lost, with Redis or alone; rules behind the one that
\* refuses are not charged.
THEOREM ChargeBoundHolds == Spec => []ChargeBound
<1>1. ASSUME IndInv, NEW r \in Reqs, NEW i \in 1..Rules
      PROVE  runs[r][i] <= IF i <= at[r] THEN 1 + losses ELSE 0
  <2>1. Charged(r) /\ i \in Int /\ at[r] \in Int
    BY <1>1, Constants DEF IndInv, Account, TypeOK
  <2> QED
    BY <2>1 DEF Charged
<1>2. IndInv => ChargeBound
  BY <1>1 DEF ChargeBound
<1> QED
  BY <1>2, Inductive, PTL

\* The flag never turns against a ready limiter but through a poll's client.
THEOREM FlagLostHolds == Spec => []FlagLostOnlyToPolls
<1>1. IndInv => FlagLostOnlyToPolls
  BY DEF IndInv
<1> QED
  BY <1>1, Inductive, PTL
=============================================================================
