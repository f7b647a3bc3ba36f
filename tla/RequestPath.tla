---------------------------- MODULE RequestPath ----------------------------
(***************************************************************************)
(* client/client.go's Do and execute with everything installed: the        *)
(* circuit breaker around the retry policy, around the rate limiter's two  *)
(* buckets, around the transport.  A call is admitted by the breaker once, *)
(* makes one or more attempts, each paying a token to the global bucket    *)
(* and then one to its endpoint's, and reports to the breaker once.        *)
(* Callers run concurrently, contexts end at any time, and Close stops     *)
(* new calls only.                                                         *)
(*                                                                         *)
(* The breaker is the one WithCircuitBreaker installs for both classes of  *)
(* calls (of two separate ones, each sees this with its own class).  Only  *)
(* whole tokens count, so a bucket is a counter.  Logging, metrics and     *)
(* spans are left out, and so is the length of a back-off.                 *)
(***************************************************************************)
EXTENDS Breaker

CONSTANTS
    MaxAttempts,    \* RetryPolicy.MaxAttempts
    GlobalBurst,    \* Burst of the limiter's global bucket
    EndpointBurst,  \* Burst of the bucket of the limited endpoint
    Limited         \* the routes with a bucket of their own (one)

Routes == {"query", "mutation"}

ASSUME PathAssumption ==
    /\ MaxAttempts \in Nat \ {0}
    /\ GlobalBurst \in Nat \ {0} /\ EndpointBurst \in Nat \ {0}
    /\ Limited \in Routes

VARIABLES
    closed,    \* Client.closed
    pc,        \* where each caller is
    route,     \* the route it calls
    attempts,  \* attempts made by its call (Policy.Do)
    sends,     \* requests its call has put on the wire
    err,       \* the error execute reports
    ctxDone,   \* the callers whose context has ended
    tokens,    \* tokens of the global bucket
    etokens    \* tokens of the endpoint's bucket

callVars == <<route, attempts, sends, err>>
bucketVars == <<tokens, etokens>>
pathVars == <<vars, closed, pc, callVars, ctxDone, bucketVars>>

Steps == {"idle", "admit", "loop", "global", "endpoint", "send", "reply",
          "backoff", "report"}
Outcomes == {"nil", "retryable", "fatal"}

\* Sends beyond the largest budget need not be told apart.
SendCap == MaxAttempts + 1

PathTypeOK ==
    /\ TypeOK
    /\ closed \in BOOLEAN
    /\ pc \in [Callers -> Steps]
    /\ route \in [Callers -> Routes]
    /\ attempts \in [Callers -> 0..MaxAttempts]
    /\ sends \in [Callers -> 0..SendCap]
    /\ err \in [Callers -> {"nil", "err"}]
    /\ ctxDone \subseteq Callers
    /\ tokens \in 0..GlobalBurst
    /\ etokens \in 0..EndpointBurst

\* client.New with a breaker, a retry policy and a limiter with full buckets.
PathInit ==
    /\ Init
    /\ closed = FALSE
    /\ pc = [c \in Callers |-> "idle"]
    /\ route = [c \in Callers |-> "query"]
    /\ attempts = [c \in Callers |-> 0]
    /\ sends = [c \in Callers |-> 0]
    /\ err = [c \in Callers |-> "nil"]
    /\ ctxDone = {}
    /\ tokens = GlobalBurst
    /\ etokens = EndpointBurst

-----------------------------------------------------------------------------
Goto(c, step) == pc' = [pc EXCEPT ![c] = step]

\* The call returns to its caller, and what it knew is forgotten.
Return(c) ==
    /\ Goto(c, "idle")
    /\ route' = [route EXCEPT ![c] = "query"]
    /\ attempts' = [attempts EXCEPT ![c] = 0]
    /\ sends' = [sends EXCEPT ![c] = 0]
    /\ err' = [err EXCEPT ![c] = "nil"]
    /\ ctxDone' = ctxDone \ {c}

IsMutation(r) == r = "mutation"

\* Do reads the closed flag; a closed client or an unknown route is refused
\* before anything happens.
Do(c, r) ==
    /\ pc[c] = "idle"
    /\ ~closed
    /\ route' = [route EXCEPT ![c] = r]
    /\ Goto(c, "admit")
    /\ UNCHANGED <<vars, closed, attempts, sends, err, ctxDone, bucketVars>>

\* execute asks the breaker ...
Admit(c) ==
    /\ pc[c] = "admit"
    /\ Allow(c)
    /\ Goto(c, "loop")
    /\ UNCHANGED <<closed, callVars, ctxDone, bucketVars>>

\* ... which refuses while it cools down, and while its probes are all out.
Refused(c) ==
    /\ pc[c] = "admit"
    /\ \/ state = "open" /\ elapsed < Cooldown
       \/ state = "halfOpen" /\ probes >= HalfOpenProbes
    /\ Return(c)
    /\ UNCHANGED <<vars, closed, bucketVars>>

\* The call is over for execute, with the outcome it reports.
Done(c, outcome) ==
    /\ Goto(c, "report")
    /\ err' = [err EXCEPT ![c] = IF outcome = "nil" THEN "nil" ELSE "err"]

\* Mutant: attempts are not counted.
AttemptUncounted(c) ==
    /\ pc[c] = "loop"
    /\ \/ c \in ctxDone /\ Done(c, "fatal")
       \/ c \notin ctxDone /\ Goto(c, "global") /\ UNCHANGED err
    /\ UNCHANGED <<vars, closed, route, attempts, sends, ctxDone, bucketVars>>

\* The head of Policy.Do's loop.
Attempt(c) ==
    /\ pc[c] = "loop"
    /\ \/ /\ c \in ctxDone
          /\ Done(c, "fatal")
          /\ UNCHANGED attempts
       \/ /\ c \notin ctxDone
          /\ attempts' = [attempts EXCEPT ![c] = @ + 1]
          /\ Goto(c, "global")
          /\ UNCHANGED err
    /\ UNCHANGED <<vars, closed, route, sends, ctxDone, bucketVars>>

\* Mutant: the policy does not look at the class of the call.
MayRetryAnyClass(c, outcome) == attempts[c] < MaxAttempts /\ outcome = "retryable"

MayRetry(c, outcome) ==
    attempts[c] < MaxAttempts /\ ~IsMutation(route[c]) /\ outcome = "retryable"

\* The tail of the loop: an attempt has returned.
Attempted(c, outcome) ==
    \/ MayRetry(c, outcome) /\ Goto(c, "backoff") /\ UNCHANGED err
    \/ ~MayRetry(c, outcome) /\ Done(c, outcome)

\* sleepCtx between two attempts.
Backoff(c) ==
    /\ pc[c] = "backoff"
    /\ \/ Goto(c, "loop") /\ UNCHANGED err
       \/ c \in ctxDone /\ Done(c, "fatal")
    /\ UNCHANGED <<vars, closed, route, attempts, sends, ctxDone, bucketVars>>

-----------------------------------------------------------------------------
(* One attempt: the limiter, then the transport.                           *)

TakeGlobal(c) ==
    /\ pc[c] = "global"
    /\ tokens >= 1
    /\ tokens' = tokens - 1
    /\ Goto(c, "endpoint")
    /\ UNCHANGED <<vars, closed, callVars, ctxDone, etokens>>

\* Mutant: a cancelled wait returns from execute at once.
WaitCancelledReturns(c) ==
    /\ c \in ctxDone
    /\ \/ pc[c] = "global" /\ tokens < 1
       \/ pc[c] = "endpoint" /\ route[c] = Limited /\ etokens < 1
    /\ Return(c)
    /\ UNCHANGED <<vars, closed, bucketVars>>

\* A context that ends while its call sleeps for a token; a token already paid
\* to the global bucket is lost.  ctx.Err is retryable to errs.Retryable.
WaitCancelled(c) ==
    /\ c \in ctxDone
    /\ \/ pc[c] = "global" /\ tokens < 1
       \/ pc[c] = "endpoint" /\ route[c] = Limited /\ etokens < 1
    /\ Attempted(c, "retryable")
    /\ UNCHANGED <<vars, closed, route, attempts, sends, ctxDone, bucketVars>>

\* The endpoint's bucket, if it has one.
TakeEndpoint(c) ==
    /\ pc[c] = "endpoint"
    /\ \/ route[c] # Limited /\ UNCHANGED etokens
       \/ route[c] = Limited /\ etokens >= 1 /\ etokens' = etokens - 1
    /\ Goto(c, "send")
    /\ UNCHANGED <<vars, closed, callVars, ctxDone, tokens>>

\* transport.Do puts the request on the wire, some time after the limiter has let
\* the call go ...
Transmit(c) ==
    /\ pc[c] = "send"
    /\ c \notin ctxDone
    /\ sends' = [sends EXCEPT ![c] = IF @ < SendCap THEN @ + 1 ELSE @]
    /\ Goto(c, "reply")
    /\ UNCHANGED <<vars, closed, route, attempts, err, ctxDone, bucketVars>>

\* ... unless it fails to build one, or the context has ended meanwhile.
TransmitFails(c) ==
    /\ pc[c] = "send"
    /\ Attempted(c, IF c \in ctxDone THEN "retryable" ELSE "fatal")
    /\ UNCHANGED <<vars, closed, route, attempts, sends, ctxDone, bucketVars>>

\* external: the reply, a lost connection, or a timeout.
Reply(c) ==
    /\ pc[c] = "reply"
    /\ \E outcome \in Outcomes : Attempted(c, outcome)
    /\ UNCHANGED <<vars, closed, route, attempts, sends, ctxDone, bucketVars>>

\* execute informs the breaker, whatever the error was.
Report(c) ==
    /\ pc[c] = "report"
    /\ \/ err[c] = "nil" /\ OnSuccess(c)
       \/ err[c] # "nil" /\ OnFailure(c)
    /\ Return(c)
    /\ UNCHANGED <<closed, bucketVars>>

-----------------------------------------------------------------------------
\* external: the caller's context is cancelled or its deadline passes.
CancelContext(c) ==
    /\ pc[c] \notin {"idle", "report"}
    /\ c \notin ctxDone
    /\ ctxDone' = ctxDone \cup {c}
    /\ UNCHANGED <<vars, closed, pc, callVars, bucketVars>>

Close ==
    /\ ~closed
    /\ closed' = TRUE
    /\ UNCHANGED <<vars, pc, callVars, ctxDone, bucketVars>>

\* refill: a bucket holds at most its burst.
RefillGlobal ==
    /\ tokens < GlobalBurst
    /\ tokens' = tokens + 1
    /\ UNCHANGED <<vars, closed, pc, callVars, ctxDone, etokens>>

RefillEndpoint ==
    /\ etokens < EndpointBurst
    /\ etokens' = etokens + 1
    /\ UNCHANGED <<vars, closed, pc, callVars, ctxDone, tokens>>

Cool == Tick /\ UNCHANGED <<closed, pc, callVars, ctxDone, bucketVars>>

Progress(c) ==
    \/ Admit(c) \/ Refused(c) \/ Attempt(c) \/ Backoff(c)
    \/ TakeGlobal(c) \/ WaitCancelled(c) \/ TakeEndpoint(c)
    \/ Transmit(c) \/ TransmitFails(c) \/ Reply(c) \/ Report(c)

PathNext ==
    \/ \E c \in Callers : (\E r \in Routes : Do(c, r)) \/ Progress(c) \/ CancelContext(c)
    \/ Close \/ RefillGlobal \/ RefillEndpoint \/ Cool

PathSpec == PathInit /\ [][PathNext]_pathVars

\* Time passes, replies or timeouts come, and callers of an open client keep
\* asking.  A wait for a token is only weakly fair: the limiter is no queue, and
\* a stream of other calls may take every token from under a sleeper.
PathFairness ==
    /\ WF_pathVars(RefillGlobal) /\ WF_pathVars(RefillEndpoint) /\ WF_pathVars(Cool)
    /\ \A c \in Callers :
          WF_pathVars(Progress(c)) /\ WF_pathVars(\E r \in Routes : Do(c, r))

PathFairSpec == PathSpec /\ PathFairness

-----------------------------------------------------------------------------
\* A mutation is put on the wire at most once and a query at most MaxAttempts
\* times, whatever the outcomes, cancellations and waits (Policy.DoRoute).
SendsWithinBudget ==
    \A c \in Callers : sends[c] <= IF IsMutation(route[c]) THEN 1 ELSE MaxAttempts

\* A call holds its place with the breaker exactly from Allow to its one report:
\* no way out of execute skips the report, so none can leak a probe slot.
AdmittedUntilReported ==
    \A c \in Callers : call[c] # "idle" <=> pc[c] \notin {"idle", "admit"}

\* After Close every call comes to its end: in the limiter, in a back-off, or
\* with the breaker, the remaining calls cannot hold each other up for ever.
CloseDrains == closed ~> \A c \in Callers : pc[c] = "idle"

\* The breaker of an open client recovers once calls stop failing, also when
\* its probe has to queue for tokens behind calls admitted before it opened.
RecoversUnlessClosed == <>closed \/ RecoversOnceFailuresStop

=============================================================================
