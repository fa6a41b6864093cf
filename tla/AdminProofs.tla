---------------------------- MODULE AdminProofs ----------------------------
(***************************************************************************)
(* What an operator changes, checked by TLAPS: the configuration, for all  *)
(* documents, polls, requests and routes, and then the dashboard's pages.  *)
(*                                                                         *)
(* ConfigReload: the table follows the configuration, and what can take a  *)
(* field, or a breaker's options, back to an older document.               *)
(* AdminPages: what a dialog saves.                                        *)
(***************************************************************************)
EXTENDS ConfigReload, AdminPages, SequenceTheorems, TLAPS

\* The types; what Redis holds is a function here.
Typed ==
    /\ pushed \in Seq(Documents) /\ Len(pushed) \in 0..MaxPushes
    /\ poll \in [Polls -> {Idle, Asked} \cup 0..Len(pushed)]
    /\ config \in [Fields -> 0..Len(pushed)]
    /\ table \in [version : 0..Len(pushed), routes : 0..Routes]
    /\ breakers \in [1..Routes -> 0..Len(pushed) \cup {None}]
    /\ req \in [Reqs -> [stage : {"new", "limiting", "proxied", "404"}, route : 1..Routes,
                         rules : 0..Len(pushed) \cup {None},
                         target : 0..Len(pushed) \cup {None},
                         options : 0..Len(pushed) \cup {None}]]
    /\ overtaken \in SUBSET Polls

\* A poll that nobody overtook holds nothing older than what is in force.
PollsAreFresh ==
    \A p \in Polls \ overtaken, f \in Fields : poll[p] >= 0 => config[f] <= poll[p]

\* A request's versions: none until it has matched a route, that of its rules
\* until it is proxied.
Versioned(r) ==
    /\ req[r].stage \in {"new", "404"} => req[r].rules = None
    /\ req[r].stage = "limiting" => req[r].rules >= 0
    /\ req[r].stage # "proxied" => req[r].target = None /\ req[r].options = None

\* q was proxied for route n with options v.
Proxied(q, n, v) == req[q].stage = "proxied" /\ req[q].route = n /\ req[q].target = v

\* A breaker has the options of a request that was proxied.
BreakersAreOfRequests ==
    \A n \in 1..Routes : breakers[n] # None => \E q \in Reqs : Proxied(q, n, breakers[n])

ReloadInv ==
    /\ Typed
    /\ TableFollowsConfig
    /\ PollsAreFresh
    /\ \A r \in Reqs : Versioned(r)
    /\ BreakersAreOfRequests
    /\ OptionsOfAnEarlierRequest

-----------------------------------------------------------------------------
\* What the assumptions say of the constants.
LEMMA Constants ==
    /\ Routes \in Nat /\ Routes > 0 /\ MaxPushes \in Nat /\ "routes" \in Fields
    /\ \A d \in Documents : d.fields \subseteq Fields /\ d.good \in 0..Routes
BY ReloadAssumption

\* A document once pushed stays what it is.
LEMMA PushFacts ==
    ASSUME Typed, NEW d \in Documents, Push(d)
    PROVE  /\ pushed' \in Seq(Documents) /\ Len(pushed') = Len(pushed) + 1
           /\ Len(pushed) \in Nat /\ Len(pushed') \in 0..MaxPushes
           /\ \A v \in 1..Len(pushed) : pushed'[v] = pushed[v]
<1>1. pushed \in Seq(Documents) /\ Len(pushed) \in Nat /\ Len(pushed) < MaxPushes
      /\ pushed' = Append(pushed, d)
  BY DEF Typed, Push
<1>2. /\ Append(pushed, d) \in Seq(Documents)
      /\ Len(Append(pushed, d)) = Len(pushed) + 1
      /\ \A v \in 1..Len(pushed) : Append(pushed, d)[v] = pushed[v]
  BY <1>1, AppendProperties
<1> QED
  BY <1>1, <1>2, Constants

\* A new document leaves what is in force alone.
LEMMA PushKeeps ==
    ASSUME ReloadInv, NEW d \in Documents, Push(d)
    PROVE  ReloadInv'
<1>1. /\ Typed
      /\ UNCHANGED <<poll, config, table, breakers, req, overtaken>>
  BY DEF ReloadInv, Push
<1>2. /\ pushed' \in Seq(Documents) /\ Len(pushed') = Len(pushed) + 1
      /\ Len(pushed) \in Nat /\ Len(pushed') \in 0..MaxPushes
      /\ \A v \in 1..Len(pushed) : pushed'[v] = pushed[v]
  BY <1>1, PushFacts
<1>3. 0..Len(pushed) \subseteq 0..Len(pushed')
  BY <1>2
<1>4. Typed'
  BY <1>1, <1>2, <1>3 DEF Typed
<1>5. TableFollowsConfig'
  <2>1. config["routes"] \in 0..Len(pushed)
    BY <1>1, Constants DEF Typed
  <2> QED
    BY <1>1, <1>2, <2>1 DEF ReloadInv, TableFollowsConfig
<1>6. PollsAreFresh' /\ (\A r \in Reqs : Versioned(r)') /\ BreakersAreOfRequests'
      /\ OptionsOfAnEarlierRequest'
  BY <1>1 DEF ReloadInv, PollsAreFresh, Versioned, BreakersAreOfRequests, Proxied,
              OptionsOfAnEarlierRequest
<1> QED
  BY <1>4, <1>5, <1>6 DEF ReloadInv

\* Of a poll's steps only the last touches the configuration.
LEMMA PollKeeps ==
    ASSUME ReloadInv, NEW p \in Polls, PollStarts(p) \/ PollReads(p) \/ PollFails(p)
    PROVE  ReloadInv'
<1>1. /\ Typed /\ UNCHANGED <<pushed, config, table, breakers, req>>
      /\ overtaken' \in {overtaken, overtaken \ {p}}
      /\ Len(pushed) \in Nat
  BY DEF ReloadInv, Typed, PollStarts, PollReads, PollFails
<1>2. PICK v \in {Idle, Asked, Len(pushed)} : poll' = [poll EXCEPT ![p] = v]
  BY DEF PollStarts, PollReads, PollFails
<1>3. Typed'
  <2>1. poll' \in [Polls -> {Idle, Asked} \cup 0..Len(pushed)]
    BY <1>1, <1>2 DEF Typed
  <2> QED
    BY <1>1, <2>1 DEF Typed
<1>4. PollsAreFresh'
  <2> SUFFICES ASSUME NEW q \in Polls \ overtaken', NEW f \in Fields, poll'[q] >= 0
               PROVE  config[f] <= poll'[q]
    BY <1>1 DEF PollsAreFresh
  <2>1. config[f] \in 0..Len(pushed)
    BY <1>1 DEF Typed
  <2>2. CASE q = p
    BY <1>1, <1>2, <2>1, <2>2 DEF Typed, Idle, Asked
  <2>3. CASE q # p
    BY <1>1, <1>2, <2>3 DEF Typed, ReloadInv, PollsAreFresh
  <2> QED
    BY <2>2, <2>3
<1>5. /\ TableFollowsConfig' /\ (\A r \in Reqs : Versioned(r)') /\ BreakersAreOfRequests'
      /\ OptionsOfAnEarlierRequest'
  BY <1>1 DEF ReloadInv, TableFollowsConfig, Versioned, BreakersAreOfRequests, Proxied,
              OptionsOfAnEarlierRequest
<1> QED
  BY <1>3, <1>4, <1>5 DEF ReloadInv

\* Applying a reply overtakes every other poll in flight.
LEMMA PollAppliesKeeps ==
    ASSUME ReloadInv, NEW p \in Polls, PollApplies(p)
    PROVE  ReloadInv'
<1>1. /\ Typed /\ UNCHANGED <<pushed, breakers, req>>
      /\ poll' = [poll EXCEPT ![p] = Idle]
      /\ overtaken' = {q \in Polls \ {p} : q \in overtaken \/ poll[q] # Idle}
      /\ Len(pushed) \in Nat /\ "routes" \in Fields
      /\ config \in [Fields -> 0..Len(pushed)]
  BY Constants DEF ReloadInv, Typed, PollApplies
<1>2. poll[p] \in 0..Len(pushed)
  BY <1>1 DEF PollApplies, Typed, Versions, Idle, Asked
<1>3. /\ config' \in [Fields -> 0..Len(pushed)]
      /\ table' \in [version : 0..Len(pushed), routes : 0..Routes]
      /\ TableFollowsConfig'
  <2>1. CASE ~Accepted(poll[p])
    BY <1>1, <2>1 DEF PollApplies, ReloadInv, Typed, TableFollowsConfig
  <2>2. CASE Accepted(poll[p])
    <3> DEFINE c == Merged(poll[p])
    <3>1. config' = c /\ table' = Rebuilt(c["routes"])
      BY <2>2 DEF PollApplies
    <3>2. c \in [Fields -> 0..Len(pushed)]
      BY <1>1, <1>2 DEF Merged
    <3> HIDE DEF c
    <3>3. c["routes"] \in 0..Len(pushed)
      BY <1>1, <3>2
    <3>4. c["routes"] # 0 => pushed[c["routes"]].good \in 0..Routes
      BY <1>1, <3>3, Constants DEF Typed
    <3>5. Rebuilt(c["routes"]) \in [version : 0..Len(pushed), routes : 0..Routes]
      BY <3>3, <3>4, Constants DEF Rebuilt
    <3>6. TableFollowsConfig'
      BY <1>1, <3>1, <3>3 DEF TableFollowsConfig, Rebuilt
    <3> QED
      BY <3>1, <3>2, <3>5, <3>6
  <2> QED
    BY <2>1, <2>2
<1>4. Typed'
  <2>1. poll' \in [Polls -> {Idle, Asked} \cup 0..Len(pushed)]
        /\ overtaken' \in SUBSET Polls
    BY <1>1 DEF Typed
  <2> QED
    BY <1>1, <1>3, <2>1 DEF Typed
\* Whoever is still in flight has been overtaken now.
<1>5. PollsAreFresh'
  <2> SUFFICES ASSUME NEW q \in Polls \ overtaken', NEW f \in Fields, poll'[q] >= 0
               PROVE  FALSE
    BY DEF PollsAreFresh
  <2> QED
    BY <1>1 DEF Typed, Idle
<1>6. /\ (\A r \in Reqs : Versioned(r)') /\ BreakersAreOfRequests'
      /\ OptionsOfAnEarlierRequest'
  BY <1>1 DEF ReloadInv, Versioned, BreakersAreOfRequests, Proxied, OptionsOfAnEarlierRequest
<1> QED
  BY <1>3, <1>4, <1>5, <1>6 DEF ReloadInv

-----------------------------------------------------------------------------
\* A match takes the version of the table as it is.
LEMMA MatchKeeps ==
    ASSUME ReloadInv, NEW r \in Reqs, NEW n \in 1..Routes, Match(r, n)
    PROVE  ReloadInv'
<1>1. /\ Typed /\ UNCHANGED <<pushed, poll, config, table, breakers, overtaken>>
      /\ req[r].stage = "new" /\ Len(pushed) \in Nat /\ Routes \in Nat
      /\ table.version \in 0..Len(pushed)
  BY Constants DEF ReloadInv, Typed, Match
<1> DEFINE M == [stage : {"limiting", "404"}, route : 1..Routes,
                 rules : 0..Len(pushed) \cup {None}, target : {None}, options : {None}]
<1> HIDE DEF M
<1>2. PICK m \in M : /\ req' = [req EXCEPT ![r] = m]
                     /\ m.stage = "limiting" => m.rules >= 0
                     /\ m.stage = "404" => m.rules = None
  <2>1. CASE n <= table.routes
    <3> DEFINE w == Waiting("limiting", n, table.version)
    <3>1. req' = [req EXCEPT ![r] = w]
      BY <2>1 DEF Match
    <3>2. /\ w \in M
          /\ w.stage = "limiting" => w.rules >= 0
          /\ w.stage = "404" => w.rules = None
      BY <1>1 DEF Waiting, M
    <3> HIDE DEF w
    <3> QED
      BY <3>1, <3>2
  <2>2. CASE ~(n <= table.routes)
    <3> DEFINE w == Waiting("404", n, None)
    <3>1. req' = [req EXCEPT ![r] = w]
      BY <2>2 DEF Match
    <3>2. /\ w \in M
          /\ w.stage = "limiting" => w.rules >= 0
          /\ w.stage = "404" => w.rules = None
      BY <1>1 DEF Waiting, M
    <3> HIDE DEF w
    <3> QED
      BY <3>1, <3>2
  <2> QED
    BY <2>1, <2>2
<1> USE DEF M
<1>3. req'[r] = m /\ \A q \in Reqs \ {r} : req'[q] = req[q]
  BY <1>1, <1>2 DEF Typed
<1>4. Typed'
  BY <1>1, <1>2 DEF Typed
<1>5. \A q \in Reqs : Versioned(q)'
  BY <1>2, <1>3 DEF ReloadInv, Versioned
<1>6. \A q \in Reqs : req[q].stage = "proxied" => req'[q] = req[q]
  BY <1>1, <1>3
<1>7. BreakersAreOfRequests'
  BY <1>1, <1>6 DEF ReloadInv, BreakersAreOfRequests, Proxied
<1>8. OptionsOfAnEarlierRequest'
  BY <1>2, <1>3, <1>6 DEF ReloadInv, OptionsOfAnEarlierRequest
<1>9. TableFollowsConfig' /\ PollsAreFresh'
  BY <1>1 DEF ReloadInv, TableFollowsConfig, PollsAreFresh
<1> QED
  BY <1>4, <1>5, <1>7, <1>8, <1>9 DEF ReloadInv

\* A request finds the breaker of its path without options, or with those of
\* a request that was proxied before.
LEMMA ProxyKeeps ==
    ASSUME ReloadInv, NEW r \in Reqs, Proxy(r)
    PROVE  ReloadInv'
<1>1. DEFINE n == req[r].route
             v == req[r].rules
             o == Breaker(n, v)
             m == [req[r] EXCEPT !.stage = "proxied", !.target = v, !.options = o]
<1>2. /\ Typed /\ UNCHANGED <<pushed, poll, config, table, overtaken>>
      /\ req[r].stage = "limiting" /\ Len(pushed) \in Nat
      /\ breakers' = [breakers EXCEPT ![n] = o]
      /\ n \in 1..Routes /\ v \in 0..Len(pushed)
  BY DEF ReloadInv, Typed, Proxy, Versioned, None
<1>3. req' = [req EXCEPT ![r] = m] /\ req'[r] = m
      /\ \A q \in Reqs \ {r} : req'[q] = req[q]
  BY <1>2 DEF Proxy, Typed
<1>4. o \in 0..Len(pushed) /\ (o # v => breakers[n] # None /\ o = breakers[n])
  BY <1>2 DEF Breaker, Typed
<1>5. /\ m.stage = "proxied" /\ m.route = n /\ m.rules = v /\ m.target = v /\ m.options = o
      /\ m \in [stage : {"new", "limiting", "proxied", "404"}, route : 1..Routes,
                rules : 0..Len(pushed) \cup {None},
                target : 0..Len(pushed) \cup {None},
                options : 0..Len(pushed) \cup {None}]
  BY <1>2, <1>4 DEF Typed
<1> HIDE DEF m, o
<1>6. Typed'
  BY <1>2, <1>3, <1>4, <1>5 DEF Typed
<1>7. \A q \in Reqs : req[q].stage = "proxied" => q # r /\ req'[q] = req[q]
  BY <1>2, <1>3
<1>8. \A q \in Reqs : Versioned(q)'
  BY <1>2, <1>3, <1>5 DEF ReloadInv, Versioned
<1>9. BreakersAreOfRequests'
  <2> SUFFICES ASSUME NEW k \in 1..Routes, breakers'[k] # None
               PROVE  \E q \in Reqs : /\ req'[q].stage = "proxied" /\ req'[q].route = k
                                      /\ req'[q].target = breakers'[k]
    BY DEF BreakersAreOfRequests, Proxied
  <2>1. CASE breakers'[k] = breakers[k]
    BY <1>7, <2>1 DEF ReloadInv, BreakersAreOfRequests, Proxied
  <2>2. CASE breakers'[k] # breakers[k]
    <3>1. k = n /\ breakers'[k] = o
      BY <1>2, <2>2 DEF Typed
    <3>2. o = v
      BY <1>4, <2>2, <3>1
    <3> QED
      BY <1>3, <1>5, <3>1, <3>2 DEF Proxied
  <2> QED
    BY <2>1, <2>2
<1>10. OptionsOfAnEarlierRequest'
  <2> SUFFICES ASSUME NEW s \in Reqs, req'[s].options # req'[s].target
               PROVE  \E q \in Reqs \ {s} : /\ req'[q].stage = "proxied"
                                            /\ req'[q].route = req'[s].route
                                            /\ req'[q].target = req'[s].options
    BY DEF OptionsOfAnEarlierRequest
  <2>1. CASE s = r
    <3>1. PICK q \in Reqs : Proxied(q, n, breakers[n])
      BY <1>2, <1>3, <1>4, <1>5, <2>1 DEF ReloadInv, BreakersAreOfRequests
    <3> QED
      BY <1>3, <1>4, <1>5, <1>7, <2>1, <3>1 DEF Proxied
  <2>2. CASE s # r
    BY <1>3, <1>7, <2>2 DEF ReloadInv, OptionsOfAnEarlierRequest
  <2> QED
    BY <2>1, <2>2
<1>11. TableFollowsConfig' /\ PollsAreFresh'
  BY <1>2 DEF ReloadInv, TableFollowsConfig, PollsAreFresh
<1> QED
  BY <1>6, <1>8, <1>9, <1>10, <1>11 DEF ReloadInv

-----------------------------------------------------------------------------
\* Everything starts from the first document.
LEMMA ReloadStarts == Init => ReloadInv
<1> SUFFICES ASSUME Init
             PROVE  ReloadInv
  OBVIOUS
<1>1. pushed \in Seq(Documents) /\ Len(pushed) = 0
  BY DEF Init
<1>2. Typed
  BY <1>1, Constants DEF Init, Typed, BootTable, New, Waiting
<1>3. TableFollowsConfig /\ PollsAreFresh
  BY Constants DEF Init, TableFollowsConfig, PollsAreFresh, BootTable, Idle
<1>4. BreakersAreOfRequests /\ OptionsOfAnEarlierRequest /\ \A r \in Reqs : Versioned(r)
  BY DEF Init, BreakersAreOfRequests, OptionsOfAnEarlierRequest, Versioned, New, Waiting
<1> QED
  BY <1>2, <1>3, <1>4 DEF ReloadInv

\* The invariant always holds.
LEMMA ReloadInductive == Spec => []ReloadInv
<1>1. ReloadInv /\ [Next]_vars => ReloadInv'
  <2> SUFFICES ASSUME ReloadInv, [Next]_vars
               PROVE  ReloadInv'
    OBVIOUS
  <2>1. ASSUME NEW d \in Documents, Push(d)
        PROVE  ReloadInv'
    BY <2>1, PushKeeps
  <2>2. ASSUME NEW p \in Polls,
               PollStarts(p) \/ PollReads(p) \/ PollApplies(p) \/ PollFails(p)
        PROVE  ReloadInv'
    BY <2>2, PollKeeps, PollAppliesKeeps
  <2>3. ASSUME NEW r \in Reqs, Proxy(r) \/ \E n \in 1..Routes : Match(r, n)
        PROVE  ReloadInv'
    BY <2>3, ProxyKeeps, MatchKeeps
  <2>4. CASE UNCHANGED vars
    BY <2>4 DEF vars, ReloadInv, Typed, TableFollowsConfig, PollsAreFresh, Versioned,
                BreakersAreOfRequests, Proxied, OptionsOfAnEarlierRequest
  <2> QED
    BY <2>1, <2>2, <2>3, <2>4 DEF Next
<1> QED
  BY <1>1, ReloadStarts, PTL DEF Spec

\* Polls, configuration, table and requests of the reload keep their types.
THEOREM ReloadTypeCorrect == Spec => []TypeOK
<1>1. ASSUME Typed
      PROVE  TypeOK
  <2>1. /\ 0..Len(pushed) \subseteq Versions /\ Len(pushed) <= MaxPushes
    BY <1>1, Constants DEF Typed, Versions
  <2> HIDE DEF Versions
  <2> QED
    BY <1>1, <2>1 DEF Typed, TypeOK, Requests
<1>2. ReloadInv => TypeOK
  BY <1>1 DEF ReloadInv
<1> QED
  BY <1>2, ReloadInductive, PTL

\* The routes registered are those of the configuration in force, up to the
\* first that cannot be registered (loadRoutes after updateConfig).
THEOREM TableFollowsConfigHolds == Spec => []TableFollowsConfig
<1>1. ReloadInv => TableFollowsConfig
  BY DEF ReloadInv
<1> QED
  BY <1>1, ReloadInductive, PTL

\* getOrCreate keeps the options of a breaker that exists; nothing else gives
\* a request options that are not its route's.
THEOREM OptionsOfAnEarlierRequestHolds == Spec => []OptionsOfAnEarlierRequest
<1>1. ReloadInv => OptionsOfAnEarlierRequest
  BY DEF ReloadInv
<1> QED
  BY <1>1, ReloadInductive, PTL

\* updateConfig goes back to an older document only with the reply of a poll
\* that another has overtaken.
THEOREM BackOnlyByOverlapHolds == Spec => BackOnlyByOverlap
<1> DEFINE Back == \A f \in Fields : config'[f] < config[f] =>
                       \E p \in overtaken : poll[p] = config'[f] /\ poll'[p] = Idle
<1>1. ReloadInv /\ [Next]_vars => [Back]_vars
  <2> SUFFICES ASSUME ReloadInv, Next, NEW f \in Fields, config'[f] < config[f]
               PROVE  \E p \in overtaken : poll[p] = config'[f] /\ poll'[p] = Idle
    OBVIOUS
  <2>1. /\ Typed /\ config[f] \in Int /\ ~(config[f] < config[f])
    BY DEF ReloadInv, Typed
  <2>2. PICK p \in Polls : PollApplies(p)
    BY <2>1 DEF Next, Push, PollStarts, PollReads, PollFails, Proxy, Match
  <2>3. config'[f] = poll[p] /\ poll[p] \in Nat
    BY <2>1, <2>2 DEF PollApplies, Merged, Versions
  <2>4. p \in overtaken
    BY <2>1, <2>3 DEF ReloadInv, PollsAreFresh
  <2> QED
    BY <2>1, <2>2, <2>3, <2>4 DEF PollApplies, Typed
<1> QED
  BY <1>1, ReloadInductive, PTL DEF Spec, BackOnlyByOverlap

-----------------------------------------------------------------------------
(* The dashboard's pages *)

\* An open editor holds what its button asked for.
EditorIsAskedFor ==
    editor.open => \/ asked = Create /\ editor.editing = NoId
                   \/ asked \in Ids /\ editor.editing = asked

DashboardInv == DashboardTypeOK /\ EditorIsAskedFor

\* The types of what belongs to the keys, to the copies and to the rules.
KeysTyped ==
    /\ IsListing(keys, {"active", "revoked"})
    /\ creating \in BOOLEAN
    /\ confirm \in Ids \cup {NoId}

CopiesTyped ==
    /\ copied \in Ids \cup {NoId}
    /\ \E n \in 0..MaxCopies : copies \in [1..n -> Copies]

RulesTyped ==
    /\ IsListing(rules, Forms)
    /\ editor \in [open : BOOLEAN, editing : Ids \cup {NoId}, form : Forms]
    /\ asked \in Ids \cup {Create, NoId}

\* The type invariant by page.
LEMMA TypeParts ==
    DashboardTypeOK <=> page \in Pages /\ KeysTyped /\ CopiesTyped /\ RulesTyped
BY DEF DashboardTypeOK, KeysTyped, CopiesTyped, RulesTyped

\* Writing one entry of a listing touches no other.
LEMMA WithIs ==
    ASSUME NEW S, NEW f, IsListing(f, S), NEW i \in Ids, NEW v \in S
    PROVE  /\ IsListing(With(f, i, v), S)
           /\ \A j \in DOMAIN f : j # i => j \in DOMAIN With(f, i, v) /\ With(f, i, v)[j] = f[j]
BY DEF IsListing, With

\* Removing an entry leaves a listing.
LEMMA WithoutIs ==
    ASSUME NEW S, NEW f, IsListing(f, S), NEW i
    PROVE  IsListing(Without(f, i), S)
BY DEF IsListing, Without

\* A page starts from its initial lists.
LEMMA PageStarts ==
    ASSUME TRUE
    PROVE  /\ IsListing(InitialKeys, {"active", "revoked"}) /\ IsListing(InitialRules, Forms)
           /\ ClosedEditor \in [open : BOOLEAN, editing : Ids \cup {NoId}, form : Forms]
           /\ ~ClosedEditor.open
           /\ \E n \in 0..MaxCopies : <<>> \in [1..n -> Copies]
<1>1. /\ IsListing(InitialKeys, {"active", "revoked"}) /\ IsListing(InitialRules, Forms)
  BY AdminAssumption DEF IsListing
<1>2. /\ ClosedEditor \in [open : BOOLEAN, editing : Ids \cup {NoId}, form : Forms]
      /\ ~ClosedEditor.open
  BY AdminAssumption DEF ClosedEditor
<1>3. 0 \in 0..MaxCopies /\ <<>> \in [1..0 -> Copies]
  BY AdminAssumption
<1> QED
  BY <1>1, <1>2, <1>3

\* The buttons of the keys page that copy nothing.
LEMMA KeyButtonsKeep ==
    ASSUME KeysTyped,
           \/ OpenKeyDialog \/ CloseKeyDialog \/ KeepKey \/ Revoke
           \/ \E i \in Ids : Generate(i) \/ AskRevoke(i)
    PROVE  KeysTyped' /\ UNCHANGED <<page, copied, copies, rules, editor, asked>>
<1>1. CASE OpenKeyDialog \/ CloseKeyDialog \/ KeepKey
  BY <1>1 DEF OpenKeyDialog, CloseKeyDialog, KeepKey, KeysTyped, copyVars, ruleVars
<1>2. CASE Revoke
  <2>1. IsListing([keys EXCEPT ![confirm] = "revoked"], {"active", "revoked"})
    BY DEF KeysTyped, IsListing
  <2> QED
    BY <1>2, <2>1 DEF Revoke, KeysTyped, copyVars, ruleVars
<1>3. ASSUME NEW i \in Ids, Generate(i)
      PROVE  KeysTyped' /\ UNCHANGED <<page, copied, copies, rules, editor, asked>>
  <2>1. IsListing(With(keys, i, "active"), {"active", "revoked"})
    BY WithIs DEF KeysTyped
  <2> QED
    BY <1>3, <2>1 DEF Generate, KeysTyped, copyVars, ruleVars
<1>4. ASSUME NEW i \in Ids, AskRevoke(i)
      PROVE  KeysTyped' /\ UNCHANGED <<page, copied, copies, rules, editor, asked>>
  BY <1>4 DEF AskRevoke, KeysTyped, copyVars, ruleVars
<1> QED
  BY <1>1, <1>2, <1>3, <1>4

\* handleCopy: its click, its await, its timer.
LEMMA CopyingKeeps ==
    ASSUME CopiesTyped,
           \/ \E i \in Ids : Copy(i)
           \/ \E n \in DOMAIN copies : CopyWritten(n) \/ CopyRefused(n) \/ Unmark(n)
           \/ Tick
    PROVE  CopiesTyped' /\ UNCHANGED <<page, keyVars, ruleVars>>
<1>1. PICK k \in 0..MaxCopies : copies \in [1..k -> Copies]
  BY DEF CopiesTyped
<1>2. MarkTime \in Nat \ {0} /\ MaxCopies \in Nat
  BY AdminAssumption
<1>3. ASSUME NEW i \in Ids, Copy(i)
      PROVE  CopiesTyped' /\ UNCHANGED <<page, keyVars, ruleVars>>
  <2> DEFINE c == [id |-> i, stage |-> "writing", left |-> 0]
  <2>1. PICK n \in 1..MaxCopies :
            /\ DOMAIN copies = 1..n - 1
            /\ copies' = [m \in 1..n |-> IF m < n THEN copies[m] ELSE c]
    BY <1>3 DEF Copy
  <2>2. c \in Copies
    BY <1>2 DEF Copies
  <2> HIDE DEF c
  <2>3. \A m \in 1..n : m < n => m \in DOMAIN copies
    BY <2>1
  <2>4. \A m \in DOMAIN copies : copies[m] \in Copies
    BY <1>1
  <2>5. copies' \in [1..n -> Copies] /\ n \in 0..MaxCopies
    BY <1>2, <2>1, <2>2, <2>3, <2>4
  <2> QED
    BY <1>3, <2>5 DEF Copy, CopiesTyped
<1>4. ASSUME NEW n \in DOMAIN copies, CopyWritten(n) \/ CopyRefused(n) \/ Unmark(n)
      PROVE  CopiesTyped' /\ UNCHANGED <<page, keyVars, ruleVars>>
  <2>1. n \in 1..k /\ copies[n] \in Copies /\ copies[n].id \in Ids
    BY <1>1, <1>4 DEF Copies
  <2>2. [copies[n] EXCEPT !.stage = "timed", !.left = MarkTime] \in Copies
    <3>1. MarkTime \in 0..MarkTime
      BY <1>2
    <3>2. copies[n] \in [id : Ids, stage : {"writing", "timed", "over"}, left : 0..MarkTime]
      BY <2>1 DEF Copies
    <3> DEFINE L == 0..MarkTime
    <3> HIDE DEF L
    <3>3. [copies[n] EXCEPT !.stage = "timed", !.left = MarkTime]
              \in [id : Ids, stage : {"writing", "timed", "over"}, left : L]
      BY <3>1, <3>2 DEF L
    <3> QED
      BY <3>3 DEF Copies, L
  <2>3. [copies[n] EXCEPT !.stage = "over"] \in Copies
    BY <2>1 DEF Copies
  <2>4. \/ copies' = [copies EXCEPT ![n] = [@ EXCEPT !.stage = "timed", !.left = MarkTime]]
        \/ copies' = [copies EXCEPT ![n] = [@ EXCEPT !.stage = "over"]]
    BY <1>4 DEF CopyWritten, CopyRefused, Unmark
  <2>5. copies' \in [1..k -> Copies]
    BY <1>1, <2>1, <2>2, <2>3, <2>4
  <2>6. copied' \in Ids \cup {NoId}
    BY <1>4, <2>1 DEF CopyWritten, CopyRefused, Unmark, CopiesTyped
  <2> QED
    BY <1>1, <1>4, <2>5, <2>6 DEF CopyWritten, CopyRefused, Unmark, CopiesTyped
<1>5. CASE Tick
  <2>1. ASSUME NEW n \in DOMAIN copies
        PROVE  [copies[n] EXCEPT !.left = IF @ > 0 THEN @ - 1 ELSE 0] \in Copies
    BY <1>1, <1>2 DEF Copies
  <2>2. copies' \in [1..k -> Copies]
    BY <1>1, <1>5, <2>1 DEF Tick
  <2> QED
    BY <1>1, <1>5, <2>2 DEF Tick, CopiesTyped
<1> QED
  BY <1>3, <1>4, <1>5

\* The rules page: the table's buttons and the editor's.
LEMMA RuleButtonsKeep ==
    ASSUME RulesTyped, EditorIsAskedFor, RuleStep
    PROVE  RulesTyped' /\ EditorIsAskedFor' /\ UNCHANGED <<page, keyVars, copyVars>>
<1> USE DEF RulesTyped
<1>1. CASE OpenCreate
  BY <1>1, AdminAssumption DEF OpenCreate, EditorIsAskedFor
<1>2. CASE CloseEditor
  BY <1>2 DEF CloseEditor, EditorIsAskedFor
<1>3. ASSUME NEW f \in Forms, TypeForm(f)
      PROVE  RulesTyped' /\ EditorIsAskedFor' /\ UNCHANGED <<page, keyVars, copyVars>>
  BY <1>3 DEF TypeForm, EditorIsAskedFor
<1>4. ASSUME NEW i \in Ids, OpenEdit(i)
      PROVE  RulesTyped' /\ EditorIsAskedFor' /\ UNCHANGED <<page, keyVars, copyVars>>
  <2>1. rules[i] \in Forms
    BY <1>4 DEF OpenEdit, IsListing
  <2> QED
    BY <1>4, <2>1 DEF OpenEdit, EditorIsAskedFor
<1>5. ASSUME NEW i \in Ids, Save(i)
      PROVE  RulesTyped' /\ EditorIsAskedFor' /\ UNCHANGED <<page, keyVars, copyVars>>
  <2>1. editor.form \in Forms
    OBVIOUS
  <2>2. IsListing(With(rules, i, editor.form), Forms)
    BY <2>1, WithIs
  <2> QED
    BY <1>5, <2>2 DEF Save, EditorIsAskedFor
<1>6. ASSUME NEW i \in Ids, Delete(i)
      PROVE  RulesTyped' /\ EditorIsAskedFor' /\ UNCHANGED <<page, keyVars, copyVars>>
  <2>1. IsListing(Without(rules, i), Forms)
    BY WithoutIs
  <2> QED
    BY <1>6, <2>1 DEF Delete, EditorIsAskedFor
<1>7. ASSUME NEW i \in Ids, ToggleActive(i)
      PROVE  RulesTyped' /\ EditorIsAskedFor' /\ UNCHANGED <<page, keyVars, copyVars>>
  <2> DEFINE v == [rules[i] EXCEPT !.active = ~@]
  <2>1. rules[i] \in Forms
    BY <1>7 DEF ToggleActive, IsListing
  <2>2. v \in Forms
    BY <2>1, AdminAssumption
  <2>3. rules' = [rules EXCEPT ![i] = v]
    BY <1>7 DEF ToggleActive
  <2> HIDE DEF v
  <2>4. IsListing([rules EXCEPT ![i] = v], Forms)
    BY <2>2 DEF IsListing
  <2> QED
    BY <1>7, <2>3, <2>4 DEF ToggleActive, EditorIsAskedFor
<1> QED
  BY <1>1, <1>2, <1>3, <1>4, <1>5, <1>6, <1>7 DEF RuleStep

\* The invariant of the pages is inductive.
LEMMA DashboardInductive == DashboardSpec => []DashboardInv
<1>1. DashboardInit => DashboardInv
  <2> SUFFICES ASSUME DashboardInit PROVE DashboardInv
    OBVIOUS
  <2>1. page \in Pages /\ KeysTyped /\ CopiesTyped /\ RulesTyped
    BY PageStarts DEF DashboardInit, KeysTyped, CopiesTyped, RulesTyped
  <2> QED
    BY <2>1, TypeParts, PageStarts DEF DashboardInit, DashboardInv, EditorIsAskedFor
<1>2. DashboardInv /\ [DashboardNext]_dashboardVars => DashboardInv'
  <2> SUFFICES ASSUME DashboardInv, [DashboardNext]_dashboardVars
               PROVE  /\ page' \in Pages /\ KeysTyped' /\ CopiesTyped' /\ RulesTyped'
                      /\ EditorIsAskedFor'
    BY TypeParts DEF DashboardInv, DashboardTypeOK, KeysTyped, CopiesTyped, RulesTyped
  <2>1. /\ page \in Pages /\ KeysTyped /\ CopiesTyped /\ RulesTyped /\ EditorIsAskedFor
    BY TypeParts DEF DashboardInv
  <2>2. UNCHANGED <<page, keyVars, ruleVars>> =>
            page' \in Pages /\ KeysTyped' /\ RulesTyped' /\ EditorIsAskedFor'
    BY <2>1 DEF keyVars, ruleVars, KeysTyped, RulesTyped, EditorIsAskedFor
  <2>3. UNCHANGED <<page, keyVars, copyVars>> => page' \in Pages /\ KeysTyped' /\ CopiesTyped'
    BY <2>1 DEF keyVars, copyVars, KeysTyped, CopiesTyped
  <2>4. UNCHANGED <<page, copied, copies, rules, editor, asked>> =>
            page' \in Pages /\ CopiesTyped' /\ RulesTyped' /\ EditorIsAskedFor'
    BY <2>1 DEF CopiesTyped, RulesTyped, EditorIsAskedFor
  <2>5. ASSUME NEW q \in Pages, Navigate(q)
        PROVE  /\ page' \in Pages /\ KeysTyped' /\ CopiesTyped' /\ RulesTyped'
               /\ EditorIsAskedFor'
    BY <2>5, PageStarts DEF Navigate, KeysTyped, CopiesTyped, RulesTyped, EditorIsAskedFor
  <2>6. CASE RuleStep
    BY <2>1, <2>3, <2>6, RuleButtonsKeep
  <2>7. CASE \/ \E i \in Ids : Copy(i)
             \/ \E n \in DOMAIN copies : CopyWritten(n) \/ CopyRefused(n) \/ Unmark(n)
             \/ Tick
    BY <2>1, <2>2, <2>7, CopyingKeeps
  <2>8. CASE \/ OpenKeyDialog \/ CloseKeyDialog \/ KeepKey \/ Revoke
             \/ \E i \in Ids : Generate(i) \/ AskRevoke(i)
    BY <2>1, <2>4, <2>8, KeyButtonsKeep
  <2>9. CASE UNCHANGED dashboardVars
    BY <2>1, <2>2, <2>3, <2>9 DEF dashboardVars
  <2> QED
    BY <2>5, <2>6, <2>7, <2>8, <2>9 DEF DashboardNext, KeyStep
<1> QED
  BY <1>1, <1>2, PTL DEF DashboardSpec

\* The React state of both pages keeps its types, whatever is clicked, typed
\* and navigated, and whatever a clipboard's answer or a timer finds.
THEOREM DashboardTypeCorrect == DashboardSpec => []DashboardTypeOK
<1>1. DashboardInv => DashboardTypeOK
  BY DEF DashboardInv
<1> QED
  BY <1>1, DashboardInductive, PTL

\* handleSave writes the rule whose Edit button opened the dialog, or a new
\* one: editingId never outlives the dialog it belongs to.
THEOREM SaveKeepsToItsButtonHolds == DashboardSpec => SaveKeepsToItsButton
<1> DEFINE Keeps == page' = page /\ editor.open =>
                \A i \in DOMAIN rules : asked # i => i \in DOMAIN rules' /\ rules'[i] = rules[i]
<1>1. DashboardInv /\ [DashboardNext]_dashboardVars => [Keeps]_dashboardVars
  <2> SUFFICES ASSUME DashboardInv, DashboardNext, page' = page, editor.open,
                      NEW i \in DOMAIN rules, asked # i
               PROVE  i \in DOMAIN rules' /\ rules'[i] = rules[i]
    OBVIOUS
  <2>1. KeysTyped /\ CopiesTyped /\ RulesTyped /\ EditorIsAskedFor
    BY TypeParts DEF DashboardInv
  <2>2. ASSUME NEW j \in Ids, Save(j)
        PROVE  i \in DOMAIN rules' /\ rules'[i] = rules[i]
    <3>1. j # i
      BY <2>1, <2>2, AdminAssumption DEF Save, EditorIsAskedFor
    <3>2. editor.form \in Forms /\ IsListing(rules, Forms)
      BY <2>1 DEF RulesTyped
    <3>3. i \in DOMAIN With(rules, j, editor.form) /\ With(rules, j, editor.form)[i] = rules[i]
      BY <3>1, <3>2, WithIs
    <3> QED
      BY <2>2, <3>3 DEF Save
  <2>3. ASSUME rules' # rules PROVE \E j \in Ids : Save(j)
    <3>1. ~(\/ OpenKeyDialog \/ CloseKeyDialog \/ KeepKey \/ Revoke
            \/ \E j \in Ids : Generate(j) \/ AskRevoke(j))
      BY <2>1, <2>3, KeyButtonsKeep
    <3>2. ~(\/ \E j \in Ids : Copy(j)
            \/ \E n \in DOMAIN copies : CopyWritten(n) \/ CopyRefused(n) \/ Unmark(n)
            \/ Tick)
      BY <2>1, <2>3, CopyingKeeps DEF ruleVars
    <3>3. RuleStep
      BY <3>1, <3>2 DEF DashboardNext, KeyStep, Navigate
    <3> QED
      BY <2>3, <3>3 DEF RuleStep, RuleTable, OpenCreate, OpenEdit, TypeForm, CloseEditor,
                        Delete, ToggleActive
  <2> QED
    BY <2>2, <2>3
<1> QED
  BY <1>1, DashboardInductive, PTL DEF DashboardSpec, SaveKeepsToItsButton
=============================================================================
