------------------------------- MODULE Proxy -------------------------------
(***************************************************************************)
(* proxyRequest of routing/proxy.ts: the requests of one route, each with  *)
(* its attempts, sharing the route's circuit breaker and the process they  *)
(* run in.  One action per callback: the handler's first call of attempt() *)
(* (Start), the response callback (Respond), the end of the piped body     *)
(* (StreamEnd), the 'error' handler (UpstreamError), the retry timer       *)
(* (Retry).  Backoff delays are not timed: the timer fires at any later    *)
(* moment.                                                                 *)
(*                                                                         *)
(* An exception in the response callback reaches the uncaughtException     *)
(* handler of utils/graceful-shutdown.ts, which ends the process; a        *)
(* rejection of a retried attempt() is only logged.                        *)
(***************************************************************************)
EXTENDS Breaker, FiniteSets

CONSTANTS Reqs,         \* requests for the route
          Idempotent,   \* those whose method is in IdempotentMethods
          Unsendable,   \* those whose headers make http.request throw
          MaxRetries    \* route.retry.maxRetries

ASSUME ProxyAssumption ==
    /\ IsFiniteSet(Reqs)
    /\ Idempotent \subseteq Reqs
    /\ Unsendable \subseteq Reqs
    /\ MaxRetries \in Nat

VARIABLES
    now,       \* Date.now()
    breaker,   \* the route's CircuitBreaker
    phase,     \* where each request is
    left,      \* remainingRetries of its current attempt
    answer,    \* what its client was answered; "none" until headers are sent
    healthy,   \* instance.healthy of the registered instance behind target
    gateway,   \* the process
    sent,      \* history: upstream requests made for it
    results    \* history: results recorded for it

vars == <<now, breaker, phase, left, answer, healthy, gateway, sent, results>>

Phases == {"new",
           "waiting",   \* sent, no response yet
           "piping",    \* the response is being piped to the client
           "unread",    \* the response callback threw: nobody reads the body
           "backoff",   \* the retry timer is running
           "cut",       \* the upstream closed in mid-body; res never ends
           "done"}

Answers == {"none", "upstream", "502", "503"}

TypeOK ==
    /\ now \in Time
    /\ breaker \in Breakers
    /\ phase \in [Reqs -> Phases]
    /\ left \in [Reqs -> 0..MaxRetries]
    /\ answer \in [Reqs -> Answers]
    /\ healthy \in BOOLEAN
    /\ gateway \in {"up", "dying", "down"}
    /\ sent \in [Reqs -> 0..MaxRetries + 1]
    /\ results \in [Reqs -> 0..2 * (MaxRetries + 1)]

Init ==
    /\ now = 1
    /\ breaker = NewBreaker
    /\ phase = [r \in Reqs |-> "new"]
    /\ left = [r \in Reqs |-> 0]
    /\ answer = [r \in Reqs |-> "none"]
    /\ healthy = TRUE
    /\ gateway = "up"
    /\ sent = [r \in Reqs |-> 0]
    /\ results = [r \in Reqs |-> 0]

Running == gateway # "down"

-----------------------------------------------------------------------------
\* Faulty: the method is not looked at.
RetriesOfAnyMethod(r) == MaxRetries

\* maxRetries of proxyRequest.
Retries(r) == IF r \in Idempotent THEN MaxRetries ELSE 0

\* Once headers are sent nothing can replace them: the code tests headersSent
\* before a 502, and for a 503 res.status().json() throws.
AnswerUnlessSent(r, a) ==
    answer' = [answer EXCEPT ![r] = IF @ = "none" THEN a ELSE @]

\* attempt(): the breaker refuses, or the request goes out.
Refused(r) ==
    /\ ~Allows(breaker, now)
    /\ phase' = [phase EXCEPT ![r] = "done"]
    /\ AnswerUnlessSent(r, "503")
    /\ UNCHANGED <<breaker, sent>>

Sent(r) ==
    /\ Allows(breaker, now)
    /\ breaker' = AllowRequest(breaker, now)
    /\ phase' = [phase EXCEPT ![r] = "waiting"]
    /\ sent' = [sent EXCEPT ![r] = @ + 1]
    /\ UNCHANGED answer

\* attempt() throws after allowRequest(): the catch of proxyRequest answers,
\* and the breaker is never told.
Thrown(r) ==
    /\ Allows(breaker, now)
    /\ breaker' = AllowRequest(breaker, now)
    /\ phase' = [phase EXCEPT ![r] = "done"]
    /\ AnswerUnlessSent(r, "502")
    /\ UNCHANGED sent

Start(r) ==
    /\ Running
    /\ phase[r] = "new"
    /\ left' = [left EXCEPT ![r] = Retries(r)]
    /\ \/ Refused(r)
       \/ r \notin Unsendable /\ Sent(r)
       \/ r \in Unsendable /\ Thrown(r)
    /\ UNCHANGED <<now, healthy, gateway, results>>

\* Faulty: the retry goes straight to the upstream.
RetryUnasked(r) ==
    /\ Running
    /\ phase[r] = "backoff"
    /\ breaker' = AllowRequest(breaker, now)
    /\ phase' = [phase EXCEPT ![r] = "waiting"]
    /\ sent' = [sent EXCEPT ![r] = @ + 1]
    /\ UNCHANGED <<now, left, answer, healthy, gateway, results>>

\* Faulty: a refused retry gives up without an answer.
RetrySilently(r) ==
    /\ Running
    /\ phase[r] = "backoff"
    /\ \/ /\ ~Allows(breaker, now)
          /\ phase' = [phase EXCEPT ![r] = "done"]
          /\ UNCHANGED <<breaker, sent, answer>>
       \/ Sent(r)
    /\ UNCHANGED <<now, left, healthy, gateway, results>>

Retry(r) ==
    /\ Running
    /\ phase[r] = "backoff"
    /\ Refused(r) \/ Sent(r)
    /\ UNCHANGED <<now, left, healthy, gateway, results>>

\* Faulty: the results of an attempt after the answer are not recorded.
RecordIfUnanswered(r, ok) ==
    IF ok \/ answer[r] = "none"
    THEN /\ breaker' = Record(breaker, ok, now)
         /\ results' = [results EXCEPT ![r] = @ + 1]
    ELSE UNCHANGED <<breaker, results>>

RecordFor(r, ok) ==
    /\ breaker' = Record(breaker, ok, now)
    /\ results' = [results EXCEPT ![r] = @ + 1]

\* The response callback records first and writes the head afterwards; when
\* an earlier attempt has sent the headers already, writeHead throws.
Respond(r, ok) ==
    /\ Running
    /\ phase[r] = "waiting"
    /\ RecordFor(r, ok)
    /\ IF answer[r] = "none"
       THEN /\ phase' = [phase EXCEPT ![r] = "piping"]
            /\ answer' = [answer EXCEPT ![r] = "upstream"]
            /\ UNCHANGED gateway
       ELSE /\ phase' = [phase EXCEPT ![r] = "unread"]
            /\ gateway' = "dying"
            /\ UNCHANGED answer
    /\ UNCHANGED <<now, left, healthy, sent>>

\* The piped body is over: completely, or because the upstream closed the
\* connection in mid-body, which neither ends res nor emits 'error'.
StreamEnd(r) ==
    /\ Running
    /\ phase[r] = "piping"
    /\ \E p \in {"done", "cut"} : phase' = [phase EXCEPT ![r] = p]
    /\ UNCHANGED <<now, breaker, left, answer, healthy, gateway, sent, results>>

HasRetriesLeft(r) == left[r] > 0

\* The 'error' handler: refused, reset, or destroyed by the idle timeout.  It
\* runs for an attempt that has not been answered and as well for one whose
\* body has stalled (the upstream, or a client that stopped reading).
UpstreamError(r) ==
    /\ Running
    /\ phase[r] \in {"waiting", "piping", "unread"}
    /\ RecordFor(r, FALSE)
    /\ healthy' = FALSE
    /\ \/ /\ HasRetriesLeft(r)
          /\ left' = [left EXCEPT ![r] = @ - 1]
          /\ phase' = [phase EXCEPT ![r] = "backoff"]
          /\ UNCHANGED answer
       \/ /\ ~HasRetriesLeft(r)
          /\ phase' = [phase EXCEPT ![r] = "done"]
          /\ AnswerUnlessSent(r, "502")
          /\ UNCHANGED left
    /\ UNCHANGED <<now, gateway, sent>>

\* process.exit(1), one second after an uncaught exception.
Exit ==
    /\ gateway = "dying"
    /\ gateway' = "down"
    /\ UNCHANGED <<now, breaker, phase, left, answer, healthy, sent, results>>

\* The health checker's successful polls, seen from here.
CheckPasses ==
    /\ Running
    /\ healthy' = TRUE
    /\ UNCHANGED <<now, breaker, phase, left, answer, gateway, sent, results>>

Tick ==
    /\ Running
    /\ now < MaxTime
    /\ now' = now + 1
    /\ UNCHANGED <<breaker, phase, left, answer, healthy, gateway, sent, results>>

Next ==
    \/ \E r \in Reqs : \/ Start(r)
                       \/ Retry(r)
                       \/ \E ok \in BOOLEAN : Respond(r, ok)
                       \/ StreamEnd(r)
                       \/ UpstreamError(r)
    \/ Exit
    \/ CheckPasses
    \/ Tick

Spec == Init /\ [][Next]_vars

\* route.timeout ends every upstream exchange that stalls, timers fire, and
\* an exit that has been scheduled happens.
Upstream(r) ==
    StreamEnd(r) \/ UpstreamError(r) \/ \E ok \in BOOLEAN : Respond(r, ok)
Fairness ==
    /\ \A r \in Reqs : WF_vars(Upstream(r)) /\ WF_vars(Retry(r))
    /\ WF_vars(Exit)

FairSpec == Spec /\ Fairness

-----------------------------------------------------------------------------
Over(r) == phase[r] \in {"done", "cut"}

\* README: "Exponential backoff with jitter; idempotent only".  A request
\* reaches the upstream at most 1 + maxRetries times, and only once when its
\* method is not idempotent, however its attempts end.  A maxRetries that the
\* route configures does not change the latter: see OptedInIsRetried.
AttemptBound ==
    \A r \in Reqs : sent[r] <= IF r \in Idempotent THEN MaxRetries + 1 ELSE 1

\* README, "Why not retry POST by default?": "Clients should explicitly opt
\* into POST retries by configuring retry.maxRetries on their route".  With
\* MaxRetries configured, no request gives up before its retries have failed.
OptedInIsRetried ==
    \A r \in Reqs \ Unsendable : answer[r] = "502" => sent[r] = MaxRetries + 1

\* The client hears of a bad gateway only after the last retry has failed;
\* attempts the breaker refuses end in 503, never in 502.
BadGatewayIsLast ==
    \A r \in Reqs \ Unsendable :
        answer[r] = "502" => /\ sent[r] = Retries(r) + 1
                             /\ Over(r)

\* Every attempt that was sent and is over has told the breaker, at least
\* once and never more than twice: sending leaks no half-open slot.
AttemptsRecorded ==
    \A r \in Reqs :
        /\ Over(r) => results[r] >= sent[r]
        /\ results[r] <= 2 * sent[r]

\* A retry is a new admission: no attempt leaves while the circuit is open,
\* also when other requests opened it during the backoff.
RetriesAskTheBreaker ==
    [][sent' # sent => breaker'.state # "open"]_vars

\* The process falls only to an idempotent request that was answered by one
\* attempt and retried all the same.
FallsOnlyToAnsweredRetry ==
    gateway # "up" =>
        \E r \in Idempotent : answer[r] = "upstream" /\ sent[r] > 1

\* A client that was let in is answered, by the upstream, with 502 or with
\* 503, unless the process goes down first.
EveryRequestAnswered ==
    \A r \in Reqs : phase[r] # "new" ~> (answer[r] # "none" \/ gateway = "down")

\* README, "Bulkheading": "A slow or failing backend can only exhaust its own
\* pool - healthy services are unaffected".  The process serves the other
\* routes as long as it is up.
GatewayStaysUp == gateway = "up"
=============================================================================
