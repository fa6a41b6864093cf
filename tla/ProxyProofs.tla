----------------------------- MODULE ProxyProofs -----------------------------
(***************************************************************************)
(* The safety of Proxy for every set of requests, every number of retries  *)
(* and every breaker, checked by TLAPS.  Each request keeps an account of  *)
(* its own, which no other request can disturb: the attempts it has made   *)
(* and those it has left, its results, and what its client knows.          *)
(***************************************************************************)
EXTENDS Proxy, TLAPS

(* The account of request r in phase p with l retries left, answer a, s    *)
(* attempts sent and n results recorded.                                   *)

\* An attempt under way is the last one sent; those left complete the budget.
AttemptsAddUp(r, p, l, s) ==
    /\ p = "new" => s = 0
    /\ p \in {"waiting", "piping", "unread"} => s >= 1 /\ s + l = Retries(r) + 1
    /\ p = "backoff" => s >= 1 /\ s + l = Retries(r)
    /\ s <= Retries(r) + 1

\* Attempts that are over have one or two results, one whose response has
\* come has one and may get another.
ResultsAddUp(p, s, n) ==
    /\ p = "new" => n = 0
    /\ p = "waiting" => s - 1 <= n /\ n <= 2 * (s - 1)
    /\ p \in {"piping", "unread"} => s <= n /\ n <= 2 * s - 1
    /\ p \in {"backoff", "done", "cut"} => s <= n /\ n <= 2 * s

\* Only the end of a request answers with an error, and only a retry meets
\* headers that are sent.
AnswerFits(r, p, a, s) ==
    /\ p = "new" => a = "none"
    /\ p # "done" => a \in {"none", "upstream"}
    /\ p = "waiting" /\ a # "none" => s > 1
    /\ a = "502" /\ r \notin Unsendable => s = Retries(r) + 1

Account(r) ==
    /\ AttemptsAddUp(r, phase[r], left[r], sent[r])
    /\ ResultsAddUp(phase[r], sent[r], results[r])
    /\ AnswerFits(r, phase[r], answer[r], sent[r])

IndInv ==
    /\ TypeOK
    /\ \A r \in Reqs : Account(r)
    /\ FallsOnlyToAnsweredRetry

-----------------------------------------------------------------------------
(* The breaker stays a breaker.  CircuitBreakerProofs says what becomes of *)
(* its fields.                                                             *)

\* The empty log is a log.
LEMMA EmptyLogType == EmptyLog \in Log
BY DEF EmptyLog, Log

\* transitionTo keeps the record well typed and sets the state.
LEMMA TransitionType ==
    ASSUME NEW b \in Breakers, NEW s \in States, NEW t \in Time
    PROVE  /\ TransitionTo(b, s, t) \in Breakers
           /\ TransitionTo(b, s, t).state = s
BY EmptyLogType DEF TransitionTo, Breakers

\* So does logging a record.
LEMMA LoggedType ==
    ASSUME NEW b \in Breakers, NEW ok \in BOOLEAN, NEW t \in Time
    PROVE  Logged(b, ok, t) \in Breakers
<1> DEFINE added == AddTo(b.requestLog, ok, t)
           pruned == [o \in BOOLEAN |-> [u \in Time |->
                         IF InWindow(u, t) THEN added[o][u] ELSE 0]]
<1>1. added \in Log
  BY DEF AddTo, Log, Breakers
<1>2. Logged(b, ok, t) = [b EXCEPT !.requestLog = pruned, !.totalCount = b.totalCount + 1]
  BY DEF Logged
<1> HIDE DEF added
<1>3. pruned \in Log
  BY <1>1 DEF Log
<1>4. b.totalCount + 1 \in Nat
  BY DEF Breakers
<1> HIDE DEF pruned
<1> QED
  BY <1>2, <1>3, <1>4 DEF Breakers

\* record, whatever it decides.
LEMMA RecordType ==
    ASSUME NEW b \in Breakers, NEW ok \in BOOLEAN, NEW t \in Time
    PROVE  Record(b, ok, t) \in Breakers
<1> DEFINE l == Logged(b, ok, t)
<1>1. l \in Breakers
  BY LoggedType
<1>2. Record(b, ok, t) \in {TransitionTo(l, "closed", t), TransitionTo(l, "open", t),
                            [l EXCEPT !.halfOpenPassCount = @ + 1], l}
  BY DEF Record
<1> HIDE DEF l
<1>3. [l EXCEPT !.halfOpenPassCount = @ + 1] \in Breakers
  BY <1>1 DEF Breakers
<1> QED
  BY <1>1, <1>2, <1>3, TransitionType DEF States

\* allowRequest when it says yes: the breaker is not open any more.
LEMMA AllowType ==
    ASSUME NEW b \in Breakers, NEW t \in Time, Allows(b, t)
    PROVE  AllowRequest(b, t) \in Breakers /\ AllowRequest(b, t).state # "open"
<1> DEFINE w == Woken(b, t)
<1>1. w \in Breakers
  BY TransitionType DEF Woken, States
<1>2. w.state \in {"closed", "half-open"}
  BY DEF Allows
<1>3. AllowRequest(b, t) \in {w, [w EXCEPT !.halfOpenRequestCount = @ + 1]}
  BY DEF AllowRequest
<1> HIDE DEF w
<1> QED
  BY <1>1, <1>2, <1>3 DEF Breakers

-----------------------------------------------------------------------------
\* A request has its route's retries or none.
LEMMA RetriesType ==
    ASSUME NEW r \in Reqs
    PROVE  /\ Retries(r) \in 0..MaxRetries
           /\ Retries(r) > 0 => r \in Idempotent
BY ProxyAssumption DEF Retries

\* What a step that touches no other request leaves of their accounts.
Untouched(r) ==
    \A q \in Reqs \ {r} : /\ phase'[q] = phase[q]
                          /\ left'[q] = left[q]
                          /\ answer'[q] = answer[q]
                          /\ sent'[q] = sent[q]
                          /\ results'[q] = results[q]

\* A step of one request keeps the accounts if it keeps that request's.
LEMMA OneAccount ==
    ASSUME IndInv, NEW r \in Reqs, Untouched(r), Account(r)'
    PROVE  \A q \in Reqs : Account(q)'
<1> SUFFICES ASSUME NEW q \in Reqs, q # r
             PROVE  Account(q)'
  OBVIOUS
<1>1. /\ phase'[q] = phase[q]
      /\ left'[q] = left[q]
      /\ answer'[q] = answer[q]
      /\ sent'[q] = sent[q]
      /\ results'[q] = results[q]
  BY DEF Untouched
<1>2. Account(q)
  BY DEF IndInv
<1> QED
  BY <1>1, <1>2 DEF Account, AttemptsAddUp, ResultsAddUp, AnswerFits, Retries

\* The process, once on its way down, keeps its reason: answers stand and
\* attempts only add up.
LEMMA ReasonStands ==
    ASSUME IndInv, TypeOK', gateway' = gateway,
           \A q \in Reqs : /\ sent'[q] >= sent[q]
                           /\ answer[q] = "upstream" => answer'[q] = "upstream"
    PROVE  FallsOnlyToAnsweredRetry'
<1> SUFFICES ASSUME gateway # "up"
             PROVE  \E q \in Idempotent : answer'[q] = "upstream" /\ sent'[q] > 1
  BY DEF FallsOnlyToAnsweredRetry
<1>1. PICK q \in Idempotent : answer[q] = "upstream" /\ sent[q] > 1
  BY DEF IndInv, FallsOnlyToAnsweredRetry
<1>2. q \in Reqs /\ sent[q] \in Nat /\ sent'[q] \in Nat
  BY ProxyAssumption DEF IndInv, TypeOK
<1> QED
  BY <1>1, <1>2

\* The account bounds the attempts and the results as TypeOK says.
LEMMA AccountBounds ==
    ASSUME NEW r \in Reqs, NEW p \in Phases, NEW l \in 0..MaxRetries,
           NEW s \in Nat, NEW n \in Nat,
           AttemptsAddUp(r, p, l, s), ResultsAddUp(p, s, n)
    PROVE  /\ s \in 0..MaxRetries + 1
           /\ n \in 0..2 * (MaxRetries + 1)
BY RetriesType, ProxyAssumption DEF AttemptsAddUp, ResultsAddUp, Phases

\* The first state.
LEMMA InitInd == Init => IndInv
<1> SUFFICES ASSUME Init
             PROVE  IndInv
  OBVIOUS
<1>1. TypeOK
  BY EmptyLogType, BreakerAssumption, ProxyAssumption
     DEF Init, TypeOK, NewBreaker, Breakers, States, Time, Phases, Answers
<1>2. ASSUME NEW r \in Reqs PROVE Account(r)
  BY RetriesType
     DEF Init, Account, AttemptsAddUp, ResultsAddUp, AnswerFits
<1>3. FallsOnlyToAnsweredRetry
  BY DEF Init, FallsOnlyToAnsweredRetry
<1> QED
  BY <1>1, <1>2, <1>3 DEF IndInv

-----------------------------------------------------------------------------
(* One lemma per action.                                                   *)

\* The breaker gives a slot and remains a breaker.
LEMMA SlotTaken ==
    ASSUME IndInv, Allows(breaker, now), breaker' = AllowRequest(breaker, now)
    PROVE  breaker' \in Breakers /\ breaker'.state # "open"
<1>1. breaker \in Breakers /\ now \in Time
  BY DEF IndInv, TypeOK
<1> QED
  BY <1>1, AllowType

\* The first attempt spends one of 1 + Retries(r), or none.
LEMMA StartInd ==
    ASSUME IndInv, NEW r \in Reqs, Start(r)
    PROVE  IndInv'
<1>1. TypeOK /\ Account(r)
  BY DEF IndInv
<1>2. /\ phase[r] = "new" /\ answer[r] = "none"
      /\ sent[r] = 0 /\ results[r] = 0
  BY <1>1 DEF Start, Account, AttemptsAddUp, ResultsAddUp, AnswerFits
<1>3. left' = [left EXCEPT ![r] = Retries(r)] /\ left'[r] = Retries(r)
  BY <1>1 DEF Start, TypeOK
<1>4. UNCHANGED <<now, healthy, gateway, results>>
  BY DEF Start
<1>5. CASE Refused(r)
  <2>1. TypeOK'
    BY <1>1, <1>3, <1>4, <1>5, RetriesType
       DEF Refused, AnswerUnlessSent, TypeOK, Phases, Answers
  <2>2. Untouched(r)
    BY <1>1, <1>3, <1>4, <1>5 DEF Untouched, Refused, AnswerUnlessSent, TypeOK
  <2>3. /\ phase'[r] = "done" /\ answer'[r] = "503"
        /\ sent' = sent /\ results' = results
    BY <1>1, <1>2, <1>4, <1>5 DEF Refused, AnswerUnlessSent, TypeOK
  <2>4. Account(r)'
    BY <1>2, <1>3, <2>3, RetriesType
       DEF Account, AttemptsAddUp, ResultsAddUp, AnswerFits, Retries
  <2>5. FallsOnlyToAnsweredRetry'
    BY <1>1, <1>4, <1>5, <2>1, <2>3, ReasonStands
       DEF Refused, AnswerUnlessSent, TypeOK
  <2> QED
    BY <2>1, <2>2, <2>4, <2>5, OneAccount DEF IndInv
<1>6. CASE Sent(r)
  <2>1. breaker' \in Breakers
    BY <1>6, SlotTaken DEF Sent
  <2>2. /\ phase'[r] = "waiting" /\ sent'[r] = 1
        /\ answer' = answer /\ results' = results
    BY <1>1, <1>2, <1>4, <1>6 DEF Sent, TypeOK
  <2>3. TypeOK'
    BY <1>1, <1>2, <1>3, <1>4, <1>6, <2>1, RetriesType, ProxyAssumption
       DEF Sent, TypeOK, Phases
  <2>4. Untouched(r)
    BY <1>1, <1>3, <1>4, <1>6 DEF Untouched, Sent, TypeOK
  <2>5. Account(r)'
    BY <1>2, <1>3, <2>2, RetriesType
       DEF Account, AttemptsAddUp, ResultsAddUp, AnswerFits, Retries
  <2>6. FallsOnlyToAnsweredRetry'
    BY <1>1, <1>2, <1>4, <1>6, <2>2, <2>3, ReasonStands DEF Sent, TypeOK
  <2> QED
    BY <2>3, <2>4, <2>5, <2>6, OneAccount DEF IndInv
<1>7. CASE r \in Unsendable /\ Thrown(r)
  <2>1. breaker' \in Breakers
    BY <1>7, SlotTaken DEF Thrown
  <2>2. /\ phase'[r] = "done" /\ answer'[r] = "502"
        /\ sent' = sent /\ results' = results
    BY <1>1, <1>2, <1>4, <1>7 DEF Thrown, AnswerUnlessSent, TypeOK
  <2>3. TypeOK'
    BY <1>1, <1>3, <1>4, <1>7, <2>1, RetriesType
       DEF Thrown, AnswerUnlessSent, TypeOK, Phases, Answers
  <2>4. Untouched(r)
    BY <1>1, <1>3, <1>4, <1>7 DEF Untouched, Thrown, AnswerUnlessSent, TypeOK
  <2>5. Account(r)'
    BY <1>2, <1>3, <1>7, <2>2, RetriesType
       DEF Account, AttemptsAddUp, ResultsAddUp, AnswerFits, Retries
  <2>6. FallsOnlyToAnsweredRetry'
    BY <1>1, <1>4, <1>7, <2>2, <2>3, ReasonStands
       DEF Thrown, AnswerUnlessSent, TypeOK
  <2> QED
    BY <2>3, <2>4, <2>5, <2>6, OneAccount DEF IndInv
<1> QED
  BY <1>5, <1>6, <1>7 DEF Start

\* A retry is refused, or spends one attempt more.
LEMMA RetryInd ==
    ASSUME IndInv, NEW r \in Reqs, Retry(r)
    PROVE  IndInv'
<1>1. TypeOK /\ Account(r)
  BY DEF IndInv
<1>2. /\ phase[r] = "backoff" /\ answer[r] \in {"none", "upstream"}
      /\ sent[r] >= 1 /\ sent[r] + left[r] = Retries(r)
      /\ sent[r] <= results[r] /\ results[r] <= 2 * sent[r]
  BY <1>1 DEF Retry, Account, AttemptsAddUp, ResultsAddUp, AnswerFits
<1>3. UNCHANGED <<now, left, healthy, gateway, results>>
  BY DEF Retry
<1>4. /\ sent[r] \in Nat /\ left[r] \in Nat /\ results[r] \in Nat
      /\ left[r] <= MaxRetries
  BY <1>1, ProxyAssumption DEF TypeOK
<1>5. CASE Refused(r)
  <2>1. TypeOK'
    BY <1>1, <1>3, <1>5 DEF Refused, AnswerUnlessSent, TypeOK, Phases, Answers
  <2>2. Untouched(r)
    BY <1>1, <1>3, <1>5 DEF Untouched, Refused, AnswerUnlessSent, TypeOK
  <2>3. /\ phase'[r] = "done" /\ answer'[r] \in {"upstream", "503"}
        /\ sent' = sent
    BY <1>1, <1>2, <1>5 DEF Refused, AnswerUnlessSent, TypeOK
  <2>4. Account(r)'
    BY <1>2, <1>3, <1>4, <2>3, RetriesType
       DEF Account, AttemptsAddUp, ResultsAddUp, AnswerFits, Retries
  <2>5. FallsOnlyToAnsweredRetry'
    BY <1>1, <1>3, <1>5, <2>1, <2>3, ReasonStands
       DEF Refused, AnswerUnlessSent, TypeOK
  <2> QED
    BY <2>1, <2>2, <2>4, <2>5, OneAccount DEF IndInv
<1>6. CASE Sent(r)
  <2>1. breaker' \in Breakers
    BY <1>6, SlotTaken DEF Sent
  <2>2. /\ phase'[r] = "waiting" /\ sent'[r] = sent[r] + 1
        /\ answer' = answer
    BY <1>1, <1>6 DEF Sent, TypeOK
  <2>3. sent[r] + 1 \in 0..MaxRetries + 1
    BY <1>2, <1>4, RetriesType, ProxyAssumption
  <2>4. TypeOK'
    BY <1>1, <1>3, <1>6, <2>1, <2>3 DEF Sent, TypeOK, Phases
  <2>5. Untouched(r)
    BY <1>1, <1>3, <1>6 DEF Untouched, Sent, TypeOK
  <2>6. Account(r)'
    BY <1>2, <1>3, <1>4, <2>2, RetriesType
       DEF Account, AttemptsAddUp, ResultsAddUp, AnswerFits, Retries
  <2>7. FallsOnlyToAnsweredRetry'
    BY <1>1, <1>3, <1>6, <2>2, <2>4, ReasonStands DEF Sent, TypeOK
  <2> QED
    BY <2>4, <2>5, <2>6, <2>7, OneAccount DEF IndInv
<1> QED
  BY <1>5, <1>6 DEF Retry

\* A recorded result leaves a breaker behind.
LEMMA ResultRecorded ==
    ASSUME IndInv, NEW ok \in BOOLEAN, breaker' = Record(breaker, ok, now)
    PROVE  breaker' \in Breakers
BY RecordType DEF IndInv, TypeOK

\* A response adds the first result of its attempt; it meets headers that
\* are sent only after a retry, and then the process is on its way down.
LEMMA RespondInd ==
    ASSUME IndInv, NEW r \in Reqs, NEW ok \in BOOLEAN, Respond(r, ok)
    PROVE  IndInv'
<1>1. TypeOK /\ Account(r)
  BY DEF IndInv
<1>2. /\ phase[r] = "waiting"
      /\ sent[r] >= 1 /\ sent[r] + left[r] = Retries(r) + 1
      /\ sent[r] - 1 <= results[r] /\ results[r] <= 2 * (sent[r] - 1)
      /\ answer[r] \in {"none", "upstream"}
      /\ answer[r] # "none" => sent[r] > 1
  BY <1>1 DEF Respond, Account, AttemptsAddUp, ResultsAddUp, AnswerFits
<1>3. /\ sent[r] \in Nat /\ left[r] \in Nat /\ results[r] \in Nat
      /\ left[r] <= MaxRetries
  BY <1>1, ProxyAssumption DEF TypeOK
<1>4. /\ UNCHANGED <<now, left, healthy, sent>>
      /\ breaker' \in Breakers
      /\ results' = [results EXCEPT ![r] = @ + 1]
      /\ results'[r] = results[r] + 1
  BY <1>1, ResultRecorded DEF Respond, RecordFor, TypeOK
<1>5. results[r] + 1 \in 0..2 * (MaxRetries + 1)
  BY <1>2, <1>3, RetriesType, ProxyAssumption
<1>6. CASE answer[r] = "none"
  <2>1. /\ phase' = [phase EXCEPT ![r] = "piping"]
        /\ answer' = [answer EXCEPT ![r] = "upstream"]
        /\ gateway' = gateway
    BY <1>6 DEF Respond
  <2>2. phase'[r] = "piping" /\ answer'[r] = "upstream"
    BY <1>1, <2>1 DEF TypeOK
  <2>3. TypeOK'
    BY <1>1, <1>4, <1>5, <2>1 DEF TypeOK, Phases, Answers
  <2>4. Untouched(r)
    BY <1>1, <1>4, <2>1 DEF Untouched, TypeOK
  <2>5. Account(r)'
    BY <1>2, <1>3, <1>4, <2>2, RetriesType
       DEF Account, AttemptsAddUp, ResultsAddUp, AnswerFits, Retries
  <2>6. FallsOnlyToAnsweredRetry'
    BY <1>1, <1>4, <2>1, <2>3, ReasonStands DEF TypeOK
  <2> QED
    BY <2>3, <2>4, <2>5, <2>6, OneAccount DEF IndInv
<1>7. CASE answer[r] # "none"
  <2>1. /\ phase' = [phase EXCEPT ![r] = "unread"]
        /\ answer' = answer
        /\ gateway' = "dying"
    BY <1>7 DEF Respond
  <2>2. phase'[r] = "unread" /\ answer'[r] = "upstream"
    BY <1>1, <1>2, <1>7, <2>1 DEF TypeOK
  <2>3. TypeOK'
    BY <1>1, <1>4, <1>5, <2>1 DEF TypeOK, Phases
  <2>4. Untouched(r)
    BY <1>1, <1>4, <2>1 DEF Untouched, TypeOK
  <2>5. Account(r)'
    BY <1>2, <1>3, <1>4, <2>2, RetriesType
       DEF Account, AttemptsAddUp, ResultsAddUp, AnswerFits, Retries
  <2>6. r \in Idempotent
    BY <1>2, <1>3, <1>7, RetriesType
  <2>7. FallsOnlyToAnsweredRetry'
    BY <1>2, <1>4, <1>7, <2>2, <2>6 DEF FallsOnlyToAnsweredRetry
  <2> QED
    BY <2>3, <2>4, <2>5, <2>7, OneAccount DEF IndInv
<1> QED
  BY <1>6, <1>7

\* The end of a body only ends the request.
LEMMA StreamEndInd ==
    ASSUME IndInv, NEW r \in Reqs, StreamEnd(r)
    PROVE  IndInv'
<1>1. TypeOK /\ Account(r)
  BY DEF IndInv
<1>2. phase[r] = "piping"
      /\ UNCHANGED <<now, breaker, left, answer, healthy, gateway, sent, results>>
  BY DEF StreamEnd
<1>3. PICK p \in {"done", "cut"} : phase' = [phase EXCEPT ![r] = p]
  BY DEF StreamEnd
<1>4. TypeOK'
  BY <1>1, <1>2, <1>3 DEF TypeOK, Phases
<1>5. Untouched(r)
  BY <1>1, <1>2, <1>3 DEF Untouched, TypeOK
<1>6. phase'[r] = p
  BY <1>1, <1>3 DEF TypeOK
<1>7. /\ sent[r] \in Nat /\ left[r] \in Nat /\ results[r] \in Nat
  BY <1>1, ProxyAssumption DEF TypeOK
<1>8. Account(r)'
  BY <1>1, <1>2, <1>3, <1>6, <1>7, RetriesType
     DEF Account, AttemptsAddUp, ResultsAddUp, AnswerFits, Retries
<1>9. FallsOnlyToAnsweredRetry'
  BY <1>1, <1>2, <1>4, ReasonStands DEF TypeOK
<1> QED
  BY <1>4, <1>5, <1>8, <1>9, OneAccount DEF IndInv

\* An error adds the last result of its attempt, and then takes one of the
\* attempts left or, when there is none, ends the request.
LEMMA UpstreamErrorInd ==
    ASSUME IndInv, NEW r \in Reqs, UpstreamError(r)
    PROVE  IndInv'
<1>1. TypeOK /\ Account(r)
  BY DEF IndInv
<1>2. /\ phase[r] \in {"waiting", "piping", "unread"}
      /\ sent[r] >= 1 /\ sent[r] + left[r] = Retries(r) + 1
      /\ sent[r] <= results[r] + 1 /\ results[r] + 1 <= 2 * sent[r]
      /\ answer[r] \in {"none", "upstream"}
  <2>1. phase[r] \in {"waiting", "piping", "unread"}
    BY DEF UpstreamError
  <2>2. sent[r] \in Nat /\ results[r] \in Nat
    BY <1>1, ProxyAssumption DEF TypeOK
  <2> QED
    BY <1>1, <2>1, <2>2 DEF Account, AttemptsAddUp, ResultsAddUp, AnswerFits
<1>3. /\ sent[r] \in Nat /\ left[r] \in Nat /\ results[r] \in Nat
      /\ left[r] <= MaxRetries
  BY <1>1, ProxyAssumption DEF TypeOK
<1>4. /\ UNCHANGED <<now, gateway, sent>>
      /\ healthy' = FALSE
      /\ breaker' \in Breakers
      /\ results' = [results EXCEPT ![r] = @ + 1]
      /\ results'[r] = results[r] + 1
  BY <1>1, ResultRecorded DEF UpstreamError, RecordFor, TypeOK
<1>5. results[r] + 1 \in 0..2 * (MaxRetries + 1)
  BY <1>2, <1>3, RetriesType, ProxyAssumption
<1>6. CASE HasRetriesLeft(r)
  <2>1. /\ left[r] > 0
        /\ left' = [left EXCEPT ![r] = @ - 1]
        /\ phase' = [phase EXCEPT ![r] = "backoff"]
        /\ answer' = answer
    BY <1>6 DEF UpstreamError, HasRetriesLeft
  <2>2. /\ phase'[r] = "backoff" /\ left'[r] = left[r] - 1
        /\ left[r] - 1 \in 0..MaxRetries
    BY <1>1, <1>3, <2>1, ProxyAssumption DEF TypeOK
  <2>3. TypeOK'
    BY <1>1, <1>4, <1>5, <2>1, <2>2 DEF TypeOK, Phases
  <2>4. Untouched(r)
    BY <1>1, <1>4, <2>1 DEF Untouched, TypeOK
  <2>5. Account(r)'
    BY <1>2, <1>3, <1>4, <2>1, <2>2, RetriesType
       DEF Account, AttemptsAddUp, ResultsAddUp, AnswerFits, Retries
  <2>6. FallsOnlyToAnsweredRetry'
    BY <1>1, <1>4, <2>1, <2>3, ReasonStands DEF TypeOK
  <2> QED
    BY <2>3, <2>4, <2>5, <2>6, OneAccount DEF IndInv
<1>7. CASE ~HasRetriesLeft(r)
  <2>1. /\ left[r] = 0
        /\ left' = left
        /\ phase' = [phase EXCEPT ![r] = "done"]
        /\ AnswerUnlessSent(r, "502")
    BY <1>3, <1>7 DEF UpstreamError, HasRetriesLeft
  <2>2. phase'[r] = "done" /\ answer'[r] \in {"upstream", "502"}
    BY <1>1, <1>2, <2>1 DEF TypeOK, AnswerUnlessSent
  <2>3. TypeOK'
    BY <1>1, <1>4, <1>5, <2>1 DEF TypeOK, Phases, AnswerUnlessSent, Answers
  <2>4. Untouched(r)
    BY <1>1, <1>4, <2>1 DEF Untouched, TypeOK, AnswerUnlessSent
  <2>5. sent[r] = Retries(r) + 1
    BY <1>2, <1>3, <2>1, RetriesType
  <2>6. Account(r)'
    BY <1>2, <1>3, <1>4, <2>1, <2>2, <2>5, RetriesType
       DEF Account, AttemptsAddUp, ResultsAddUp, AnswerFits, Retries
  <2>7. FallsOnlyToAnsweredRetry'
    BY <1>1, <1>4, <2>1, <2>3, ReasonStands DEF TypeOK, AnswerUnlessSent
  <2> QED
    BY <2>3, <2>4, <2>6, <2>7, OneAccount DEF IndInv
<1> QED
  BY <1>6, <1>7

\* The clock, the health checker and the exit leave every request alone.
LEMMA OtherInd ==
    ASSUME IndInv, Exit \/ CheckPasses \/ Tick \/ UNCHANGED vars
    PROVE  IndInv'
<1>1. TypeOK
  BY DEF IndInv
<1>2. UNCHANGED <<breaker, phase, left, answer, sent, results>>
  BY DEF Exit, CheckPasses, Tick, vars
<1>3. TypeOK'
  <2>1. now' \in Time
    BY <1>1, BreakerAssumption DEF Exit, CheckPasses, Tick, vars, TypeOK, Time
  <2>2. healthy' \in BOOLEAN /\ gateway' \in {"up", "dying", "down"}
    BY <1>1 DEF Exit, CheckPasses, Tick, vars, TypeOK
  <2> QED
    BY <1>1, <1>2, <2>1, <2>2 DEF TypeOK
<1>4. ASSUME NEW r \in Reqs PROVE Account(r)'
  BY <1>2 DEF IndInv, Account, AttemptsAddUp, ResultsAddUp, AnswerFits, Retries
<1>5. FallsOnlyToAnsweredRetry'
  BY <1>2 DEF IndInv, FallsOnlyToAnsweredRetry, Exit, CheckPasses, Tick, vars
<1> QED
  BY <1>3, <1>4, <1>5 DEF IndInv

-----------------------------------------------------------------------------
\* IndInv holds throughout (proxyRequest).
THEOREM Inductive == Spec => []IndInv
<1>1. Init => IndInv
  BY InitInd
<1>2. IndInv /\ [Next]_vars => IndInv'
  <2> SUFFICES ASSUME IndInv, [Next]_vars
               PROVE  IndInv'
    OBVIOUS
  <2>1. ASSUME NEW r \in Reqs, Start(r) PROVE IndInv'
    BY <2>1, StartInd
  <2>2. ASSUME NEW r \in Reqs, Retry(r) PROVE IndInv'
    BY <2>2, RetryInd
  <2>3. ASSUME NEW r \in Reqs, NEW ok \in BOOLEAN, Respond(r, ok) PROVE IndInv'
    BY <2>3, RespondInd
  <2>4. ASSUME NEW r \in Reqs, StreamEnd(r) PROVE IndInv'
    BY <2>4, StreamEndInd
  <2>5. ASSUME NEW r \in Reqs, UpstreamError(r) PROVE IndInv'
    BY <2>5, UpstreamErrorInd
  <2>6. ASSUME Exit \/ CheckPasses \/ Tick \/ UNCHANGED vars PROVE IndInv'
    BY <2>6, OtherInd
  <2> QED
    BY <2>1, <2>2, <2>3, <2>4, <2>5, <2>6 DEF Next
<1> QED
  BY <1>1, <1>2, PTL DEF Spec

\* The types, with the bounds on attempts and results.
THEOREM TypeCorrect == Spec => []TypeOK
<1>1. IndInv => TypeOK
  BY DEF IndInv
<1> QED
  BY <1>1, Inductive, PTL

\* A request reaches the upstream at most 1 + maxRetries times, once when its
\* method is not idempotent (the retry of the 'error' handler).
THEOREM AttemptBoundHolds == Spec => []AttemptBound
<1>1. IndInv => AttemptBound
  BY ProxyAssumption
     DEF IndInv, TypeOK, Account, AttemptsAddUp, AttemptBound, Retries
<1> QED
  BY <1>1, Inductive, PTL

\* A client is told of a bad gateway only when every retry has failed.
THEOREM BadGatewayIsLastHolds == Spec => []BadGatewayIsLast
<1>1. IndInv => BadGatewayIsLast
  BY DEF IndInv, Account, AnswerFits, BadGatewayIsLast, Over
<1> QED
  BY <1>1, Inductive, PTL

\* No attempt that was sent ends without telling the breaker.
THEOREM AttemptsRecordedHolds == Spec => []AttemptsRecorded
<1>1. ASSUME IndInv, NEW r \in Reqs
      PROVE  /\ Over(r) => results[r] >= sent[r]
             /\ results[r] <= 2 * sent[r]
  <2>1. /\ phase[r] \in Phases
        /\ sent[r] \in Nat /\ results[r] \in Nat
    BY <1>1, ProxyAssumption DEF IndInv, TypeOK
  <2>2. ResultsAddUp(phase[r], sent[r], results[r])
        /\ AttemptsAddUp(r, phase[r], left[r], sent[r])
    BY <1>1 DEF IndInv, Account
  <2> QED
    BY <2>1, <2>2 DEF ResultsAddUp, AttemptsAddUp, Phases, Over
<1>2. IndInv => AttemptsRecorded
  BY <1>1 DEF AttemptsRecorded
<1> QED
  BY <1>2, Inductive, PTL

\* Only an idempotent request that was answered and retried all the same
\* brings the process down (writeHead after headersSent).
THEOREM FallsOnlyToAnsweredRetryHolds == Spec => []FallsOnlyToAnsweredRetry
<1>1. IndInv => FallsOnlyToAnsweredRetry
  BY DEF IndInv
<1> QED
  BY <1>1, Inductive, PTL

\* No attempt leaves while the circuit is open, retries included.
THEOREM RetriesAskTheBreakerHolds == Spec => RetriesAskTheBreaker
<1>1. IndInv /\ [Next]_vars => [sent' # sent => breaker'.state # "open"]_vars
  <2> SUFFICES ASSUME IndInv, Next, sent' # sent
               PROVE  breaker'.state # "open"
    BY DEF vars
  <2>1. PICK r \in Reqs : Start(r) \/ Retry(r)
    BY DEF Next, Respond, StreamEnd, UpstreamError, Exit, CheckPasses, Tick
  <2>2. Sent(r)
    BY <2>1 DEF Start, Retry, Refused, Thrown
  <2> QED
    BY <2>2, SlotTaken DEF Sent
<1> QED
  BY <1>1, Inductive, PTL DEF Spec, RetriesAskTheBreaker
=============================================================================
