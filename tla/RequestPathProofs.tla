------------------------- MODULE RequestPathProofs -------------------------
(***************************************************************************)
(* The breaker and the request path around it, for every number of         *)
(* callers, every threshold, every retry budget and every limit.  Each     *)
(* step of the path is a step of its breaker or leaves the breaker alone,  *)
(* so the breaker's theorems carry over; the path's own invariants are     *)
(* proved together with the breaker's.                                     *)
(***************************************************************************)
EXTENDS RequestWire, FiniteSetTheorems, TLAPS

\* A leaf that names no prover goes to Zenon; arithmetic goes to SMT.
USE ZenonT(20)

-----------------------------------------------------------------------------
(* The breaker: no outcome, however late, makes its counters disagree with *)
(* its state.                                                              *)

\* No call counts as a probe once the half-open period that admitted it is over.
ProbesOnlyWhileHalfOpen == state # "halfOpen" => Probing = {}

\* The inductive invariant.
IInv ==
    /\ TypeOK
    /\ ClosedBelowThreshold
    /\ ProbeSlotsAreInFlight
    /\ ProbesOnlyWhileHalfOpen

\* The callers being finitely many, the probes in flight can be counted.
LEMMA ProbingFinite == IsFiniteSet(Probing)
  <1>1. Probing \subseteq Callers
    BY DEF Probing
  <1> QED BY <1>1, FS_Subset, CallersAssumption

\* Counting one more failure stays in range and never goes down.
LEMMA CountFailureType ==
  ASSUME failures \in 0..FailureCap
  PROVE  /\ CountFailure \in 0..FailureCap
         /\ CountFailure >= failures
         /\ failures + 1 <= FailureCap => CountFailure = failures + 1
  BY SMTT(20), BreakerAssumption DEF CountFailure

\* What becomes of the calls in flight when one of them ends.
LEMMA FinishType ==
  ASSUME call \in [Callers -> CallStates], NEW c \in Callers, NEW s \in States
  PROVE  Finish(c, s) \in [Callers -> CallStates]
  BY DEF Finish, CallStates

\* NewBreaker's state satisfies the invariant.
LEMMA InitIInv == Init => IInv
  BY SMTT(20), BreakerAssumption DEF Init, IInv, TypeOK, States, CallStates,
     ClosedBelowThreshold, ProbeSlotsAreInFlight, ProbesOnlyWhileHalfOpen, Probing

\* Admitting a call, in any of the three ways, preserves the invariant.
LEMMA AllowIInv ==
  ASSUME IInv, NEW c \in Callers, Allow(c)
  PROVE  IInv'
  <1>1. CASE AllowClosed(c)
    <2>1. Probing' = Probing
      BY <1>1 DEF IInv, Allow, AllowClosed, TypeOK, Probing
    <2> QED
      BY <1>1, <2>1, BreakerAssumption
      DEF IInv, Allow, AllowClosed, TypeOK, States, CallStates,
          ClosedBelowThreshold, ProbeSlotsAreInFlight, ProbesOnlyWhileHalfOpen
  <1>2. CASE AllowProbe(c)
    <2>1. Probing' = Probing \cup {c} /\ c \notin Probing
      BY <1>2 DEF IInv, Allow, AllowProbe, TypeOK, Probing, CallStates
    <2>2. Cardinality(Probing') = Cardinality(Probing) + 1
      BY <2>1, ProbingFinite, FS_AddElement
    <2>3. TypeOK' /\ ClosedBelowThreshold' /\ ProbesOnlyWhileHalfOpen'
      BY SMTT(20), <1>2, BreakerAssumption
      DEF IInv, Allow, AllowProbe, TypeOK, States, CallStates,
          ClosedBelowThreshold, ProbesOnlyWhileHalfOpen
    <2>4. ProbeSlotsAreInFlight'
      BY SMTT(20), <1>2, <2>2, BreakerAssumption
      DEF IInv, Allow, AllowProbe, TypeOK, ProbeSlotsAreInFlight
    <2> QED BY <2>3, <2>4 DEF IInv
  <1>3. CASE AllowAfterCooldown(c)
    <2>1. Probing' = {c}
      BY <1>3 DEF IInv, Allow, AllowAfterCooldown, TypeOK, Probing,
          ProbesOnlyWhileHalfOpen
    <2>2. Cardinality(Probing') = 1
      BY <2>1, FS_Singleton
    <2>3. TypeOK' /\ ClosedBelowThreshold' /\ ProbesOnlyWhileHalfOpen'
      BY SMTT(20), <1>3, BreakerAssumption
      DEF IInv, Allow, AllowAfterCooldown, TypeOK, States, CallStates,
          ClosedBelowThreshold, ProbesOnlyWhileHalfOpen
    <2>4. ProbeSlotsAreInFlight'
      BY SMTT(20), <1>3, <2>2, BreakerAssumption
      DEF Allow, AllowAfterCooldown, ProbeSlotsAreInFlight
    <2> QED BY <2>3, <2>4 DEF IInv
  <1> QED BY <1>1, <1>2, <1>3 DEF Allow

\* A success, whether of a probe, of an ordinary or of a stale call.
LEMMA OnSuccessIInv ==
  ASSUME IInv, NEW c \in Callers, OnSuccess(c)
  PROVE  IInv'
  <1>0. state' \in States
    BY DEF IInv, OnSuccess, TypeOK, States
  <1>1. state' # "halfOpen"
    BY DEF IInv, OnSuccess, TypeOK, States
  <1>2. TypeOK'
    BY SMTT(20), <1>0, FinishType, BreakerAssumption DEF IInv, OnSuccess, TypeOK
  <1>3. ClosedBelowThreshold'
    BY SMTT(20), BreakerAssumption DEF IInv, OnSuccess, TypeOK, ClosedBelowThreshold
  <1>4. ProbesOnlyWhileHalfOpen'
    BY <1>0, <1>1 DEF IInv, OnSuccess, Finish, Probing, ProbesOnlyWhileHalfOpen, States
  <1> QED BY <1>1, <1>2, <1>3, <1>4 DEF IInv, ProbeSlotsAreInFlight

\* A failure, likewise.
LEMMA OnFailureIInv ==
  ASSUME IInv, NEW c \in Callers, OnFailure(c)
  PROVE  IInv'
  <1>0. /\ state \in States /\ failures \in 0..FailureCap
        /\ ClosedBelowThreshold /\ ProbesOnlyWhileHalfOpen
    BY DEF IInv, TypeOK
  <1>1. state' \in States /\ state' # "halfOpen"
    BY <1>0 DEF OnFailure, OnFailureHalfOpen, OnFailureClosed, OnFailureOpen, States
  <1>2. TypeOK'
    <2>1. call' \in [Callers -> CallStates]
      BY <1>1, FinishType DEF IInv, TypeOK, OnFailure
    <2> QED
      BY SMTT(20), <1>1, <2>1, <1>0, CountFailureType, BreakerAssumption
      DEF IInv, TypeOK, OnFailure, OnFailureHalfOpen, OnFailureClosed, OnFailureOpen
  <1>3. ClosedBelowThreshold'
    BY SMTT(20), <1>0, CountFailureType, BreakerAssumption
    DEF OnFailure, OnFailureHalfOpen, OnFailureClosed, OnFailureOpen,
        ClosedBelowThreshold, States
  <1>4. ProbesOnlyWhileHalfOpen'
    BY <1>0, <1>1 DEF OnFailure, Finish, Probing, ProbesOnlyWhileHalfOpen, States
  <1> QED BY <1>1, <1>2, <1>3, <1>4 DEF IInv, ProbeSlotsAreInFlight

\* The invariant is inductive.
LEMMA NextIInv == IInv /\ [Next]_vars => IInv'
  <1> SUFFICES ASSUME IInv, [Next]_vars PROVE IInv'
    OBVIOUS
  <1>1. ASSUME NEW c \in Callers, Allow(c) PROVE IInv'
    BY <1>1, AllowIInv
  <1>2. ASSUME NEW c \in Callers, OnSuccess(c) PROVE IInv'
    BY <1>2, OnSuccessIInv
  <1>3. ASSUME NEW c \in Callers, OnFailure(c) PROVE IInv'
    BY <1>3, OnFailureIInv
  <1>4. CASE Tick
    BY SMTT(20), <1>4, BreakerAssumption
    DEF IInv, Tick, TypeOK, ClosedBelowThreshold, ProbeSlotsAreInFlight,
        ProbesOnlyWhileHalfOpen, Probing
  <1>5. CASE UNCHANGED vars
    BY <1>5 DEF vars, IInv, TypeOK, ClosedBelowThreshold, ProbeSlotsAreInFlight,
        ProbesOnlyWhileHalfOpen, Probing
  <1> QED BY <1>1, <1>2, <1>3, <1>4, <1>5 DEF Next

\* Every reachable state of the breaker is well typed.
THEOREM TypeCorrect == Spec => []TypeOK
  <1>1. IInv => TypeOK
    BY DEF IInv
  <1> QED BY <1>1, InitIInv, NextIInv, PTL DEF Spec

\* breaker.go opens at the threshold, not earlier and not later, for every
\* number of concurrent callers: stale outcomes cannot unbalance the count.
THEOREM TripsExactlyAtThreshold == Spec => []ClosedBelowThreshold
  <1>1. IInv => ClosedBelowThreshold
    BY DEF IInv
  <1> QED BY <1>1, InitIInv, NextIInv, PTL DEF Spec

\* A half-open breaker always has a probe in flight for each slot in use, so
\* the end of some call takes it out of half-open: no slot is ever leaked.
THEOREM NoProbeSlotLeak == Spec => []ProbeSlotsAreInFlight
  <1>1. IInv => ProbeSlotsAreInFlight
    BY DEF IInv
  <1> QED BY <1>1, InitIInv, NextIInv, PTL DEF Spec

\* The breaker stays open for the whole cooldown.
THEOREM CooldownHolds == Spec => OpenForCooldown
  <1>1. [Next]_vars => [state = "open" /\ state' # "open" => elapsed >= Cooldown]_vars
    BY DEF Next, Allow, AllowClosed, AllowProbe, AllowAfterCooldown, OnSuccess,
       OnFailure, OnFailureHalfOpen, OnFailureClosed, OnFailureOpen, Tick, vars
  <1> QED BY <1>1, PTL DEF Spec, OpenForCooldown

-----------------------------------------------------------------------------
(* The request path                                                        *)

\* Where a call stands in its budget.  SendsWithinBudget alone is not inductive:
\* an attempt under way must be known not to have sent yet, and a call that may
\* loop again to be a query with attempts left.
Budget ==
    \A c \in Callers :
        /\ sends[c] <= attempts[c]
        /\ IsMutation(route[c]) => attempts[c] <= 1
        /\ pc[c] \in {"idle", "admit"} => attempts[c] = 0
        /\ pc[c] \in {"loop", "backoff"} =>
              attempts[c] < MaxAttempts /\ (IsMutation(route[c]) => attempts[c] = 0)
        /\ pc[c] \in {"global", "endpoint", "send"} => sends[c] < attempts[c]

\* The inductive invariant.
PathIInv ==
    /\ IInv
    /\ PathTypeOK
    /\ AdmittedUntilReported
    /\ Budget

-----------------------------------------------------------------------------
\* A step of a caller other than Admit and Report does not touch the breaker.
LEMMA BreakerUntouched ==
  ASSUME NEW c \in Callers,
         \/ \E r \in Routes : Do(c, r)
         \/ Refused(c) \/ Attempt(c) \/ Backoff(c) \/ TakeGlobal(c)
         \/ WaitCancelled(c) \/ TakeEndpoint(c) \/ Transmit(c) \/ TransmitFails(c)
         \/ Reply(c) \/ CancelContext(c)
  PROVE  UNCHANGED vars
  BY DEF Do, Refused, Attempt, Backoff, TakeGlobal, WaitCancelled, TakeEndpoint,
         Transmit, TransmitFails, Reply, CancelContext

\* A step of the request path is a step of the breaker or leaves it unchanged.
LEMMA StepIsBreakerStep == [PathNext]_pathVars => [Next]_vars
  <1> SUFFICES ASSUME [PathNext]_pathVars PROVE [Next]_vars
    OBVIOUS
  <1>1. ASSUME NEW c \in Callers, Admit(c) PROVE Next
    BY <1>1 DEF Admit, Next
  <1>2. ASSUME NEW c \in Callers, Report(c) PROVE Next
    BY <1>2 DEF Report, Next
  <1>3. CASE Close \/ RefillGlobal \/ RefillEndpoint
    BY <1>3 DEF Close, RefillGlobal, RefillEndpoint
  <1>4. CASE Cool
    BY <1>4 DEF Cool, Next
  <1>5. CASE UNCHANGED pathVars
    BY <1>5 DEF pathVars
  <1> QED BY <1>1, <1>2, <1>3, <1>4, <1>5, BreakerUntouched DEF PathNext, Progress

\* The breaker inside the request path behaves as breaker.go's Breaker does on
\* its own: execute calls its methods in no order the specification excludes.
THEOREM PathRefinesBreaker == PathSpec => Spec
  <1>1. PathInit => Init
    BY DEF PathInit
  <1> QED BY <1>1, StepIsBreakerStep, PTL DEF PathSpec, Spec

\* So it trips at its threshold, leaks no probe slot and keeps its cooldown.
THEOREM PathKeepsBreaker ==
  PathSpec => []ClosedBelowThreshold /\ []ProbeSlotsAreInFlight /\ OpenForCooldown
  BY PathRefinesBreaker, TripsExactlyAtThreshold, NoProbeSlotLeak, CooldownHolds, PTL

-----------------------------------------------------------------------------
\* client.New's state satisfies the invariant.
LEMMA PathInitIInv == PathInit => PathIInv
  <1> SUFFICES ASSUME PathInit PROVE PathIInv
    OBVIOUS
  <1>1. IInv
    BY InitIInv DEF PathInit
  <1>2. PathTypeOK
    <2>1. closed \in BOOLEAN
      BY DEF PathInit
    <2>2. /\ pc \in [Callers -> Steps] /\ route \in [Callers -> Routes]
          /\ attempts \in [Callers -> 0..MaxAttempts] /\ sends \in [Callers -> 0..SendCap]
          /\ err \in [Callers -> {"nil", "err"}] /\ ctxDone \subseteq Callers
          /\ tokens \in 0..GlobalBurst /\ etokens \in 0..EndpointBurst
      BY SMTT(20), PathAssumption DEF PathInit, Steps, Routes, SendCap
    <2> QED BY <1>1, <2>1, <2>2 DEF PathTypeOK, IInv
  <1>3. AdmittedUntilReported
    BY DEF PathInit, Init, AdmittedUntilReported
  <1>4. Budget
    BY SMTT(20), PathAssumption DEF PathInit, Budget, IsMutation
  <1> QED BY <1>1, <1>2, <1>3, <1>4 DEF PathIInv

\* Reporting ends the caller's own call for the breaker, and nobody else's.
LEMMA ReportEndsOneCall ==
  ASSUME TypeOK, NEW c \in Callers, OnSuccess(c) \/ OnFailure(c)
  PROVE  /\ call'[c] = "idle"
         /\ \A d \in Callers \ {c} : call'[d] = "idle" <=> call[d] = "idle"
  <1>1. call' = Finish(c, state')
    BY DEF OnSuccess, OnFailure
  <1> QED BY <1>1 DEF Finish, TypeOK

\* Admission starts the caller's own call, and nobody else's.
LEMMA AllowStartsOneCall ==
  ASSUME TypeOK, NEW c \in Callers, Allow(c)
  PROVE  /\ call'[c] # "idle"
         /\ \A d \in Callers \ {c} : call'[d] = call[d]
  BY DEF Allow, AllowClosed, AllowProbe, AllowAfterCooldown, TypeOK

\* The closed flag stays Boolean.
LEMMA ClosedTyped ==
  ASSUME closed \in BOOLEAN, PathNext
  PROVE  closed' \in BOOLEAN
  BY DEF PathNext, Progress, Do, Admit, Refused, Attempt, Backoff, TakeGlobal,
         WaitCancelled, TakeEndpoint, Transmit, TransmitFails, Reply, Report,
         CancelContext, Close,
         RefillGlobal, RefillEndpoint, Cool

\* PathTypeOK without the breaker and the closed flag.
PathTypes ==
    /\ pc \in [Callers -> Steps]
    /\ route \in [Callers -> Routes]
    /\ attempts \in [Callers -> 0..MaxAttempts]
    /\ sends \in [Callers -> 0..SendCap]
    /\ err \in [Callers -> {"nil", "err"}]
    /\ ctxDone \subseteq Callers
    /\ tokens \in 0..GlobalBurst
    /\ etokens \in 0..EndpointBurst

\* The part of the invariant that is about the path.
PathOwn == PathTypes /\ AdmittedUntilReported /\ Budget

\* Do: a call starts with an empty budget.
LEMMA DoOwn ==
  ASSUME PathOwn, NEW c \in Callers, NEW r \in Routes, Do(c, r)
  PROVE  PathOwn'
  <1>1. PathTypes'
    BY DEF PathOwn, PathTypes, Do, Goto, Steps, bucketVars
  <1>2. AdmittedUntilReported'
    BY DEF PathOwn, PathTypes, AdmittedUntilReported, Do, Goto, vars
  <1>3. Budget'
    BY SMTT(20), PathAssumption DEF PathOwn, PathTypes, Budget, Do, Goto, IsMutation, SendCap
  <1> QED BY <1>1, <1>2, <1>3 DEF PathOwn

\* Admit: the breaker and the path agree that the call is under way.
LEMMA AdmitOwn ==
  ASSUME PathOwn, TypeOK, NEW c \in Callers, Admit(c)
  PROVE  PathOwn'
  <1>1. PathTypes'
    BY DEF PathOwn, PathTypes, Admit, Goto, Steps, bucketVars, callVars
  <1>2. AdmittedUntilReported'
    BY AllowStartsOneCall DEF PathOwn, PathTypes, AdmittedUntilReported, Admit, Goto
  <1>3. Budget'
    BY SMTT(20), PathAssumption DEF PathOwn, PathTypes, Budget, Admit, Goto, IsMutation, SendCap, callVars
  <1> QED BY <1>1, <1>2, <1>3 DEF PathOwn

\* A refused call leaves nothing behind.
LEMMA RefusedOwn ==
  ASSUME PathOwn, NEW c \in Callers, Refused(c)
  PROVE  PathOwn'
  <1>1. PathTypes'
    BY SMTT(20), PathAssumption DEF PathOwn, PathTypes, Refused, Return, Goto, Steps, Routes, SendCap, bucketVars
  <1>2. AdmittedUntilReported'
    BY DEF PathOwn, PathTypes, AdmittedUntilReported, Refused, Return, Goto, vars
  <1>3. Budget'
    BY SMTT(20), PathAssumption DEF PathOwn, PathTypes, Budget, Refused, Return, Goto, IsMutation, SendCap
  <1> QED BY <1>1, <1>2, <1>3 DEF PathOwn

\* Report: the breaker and the path agree that the call is over.
LEMMA ReportOwn ==
  ASSUME PathOwn, TypeOK, NEW c \in Callers, Report(c)
  PROVE  PathOwn'
  <1>1. PathTypes'
    BY SMTT(20), PathAssumption DEF PathOwn, PathTypes, Report, Return, Goto, Steps, Routes, SendCap, bucketVars
  <1>2. AdmittedUntilReported'
    BY ReportEndsOneCall DEF PathOwn, PathTypes, AdmittedUntilReported, Report, Return, Goto
  <1>3. Budget'
    BY SMTT(20), PathAssumption DEF PathOwn, PathTypes, Budget, Report, Return, Goto, IsMutation, SendCap
  <1> QED BY <1>1, <1>2, <1>3 DEF PathOwn

\* The head of the retry loop: an attempt is counted before anything is sent.
LEMMA AttemptOwn ==
  ASSUME PathOwn, NEW c \in Callers, Attempt(c)
  PROVE  PathOwn'
  <1>1. PathTypes'
    BY SMTT(20), PathAssumption DEF PathOwn, PathTypes, Budget, Attempt, Done, Goto, Steps, bucketVars
  <1>2. AdmittedUntilReported'
    BY DEF PathOwn, PathTypes, AdmittedUntilReported, Attempt, Done, Goto, vars
  <1>3. Budget'
    BY SMTT(20), PathAssumption DEF PathOwn, PathTypes, Budget, Attempt, Done, Goto, IsMutation, SendCap
  <1> QED BY <1>1, <1>2, <1>3 DEF PathOwn

\* The tail of the loop, wherever the attempt ended: only a query with attempts
\* left goes round again.
LEMMA AttemptedOwn ==
  ASSUME PathOwn, NEW c \in Callers, NEW outcome \in Outcomes,
         pc[c] \in {"global", "endpoint", "send", "reply"},
         Attempted(c, outcome),
         UNCHANGED <<call, route, attempts, sends, ctxDone, tokens, etokens>>
  PROVE  PathOwn'
  <1>1. PathTypes'
    BY DEF PathOwn, PathTypes, Attempted, Done, Goto, Steps
  <1>2. AdmittedUntilReported'
    BY DEF PathOwn, PathTypes, AdmittedUntilReported, Attempted, Done, Goto
  <1>3. Budget'
    BY PathAssumption
    DEF PathOwn, PathTypes, Budget, Attempted, MayRetry, Done, Goto, IsMutation, SendCap
  <1> QED BY <1>1, <1>2, <1>3 DEF PathOwn

\* The back-off leads to the loop or out of it.
LEMMA BackoffOwn ==
  ASSUME PathOwn, NEW c \in Callers, Backoff(c)
  PROVE  PathOwn'
  <1>1. PathTypes'
    BY DEF PathOwn, PathTypes, Backoff, Done, Goto, Steps, bucketVars
  <1>2. AdmittedUntilReported'
    BY DEF PathOwn, PathTypes, AdmittedUntilReported, Backoff, Done, Goto, vars
  <1>3. Budget'
    BY PathAssumption DEF PathOwn, PathTypes, Budget, Backoff, Done, Goto, IsMutation, SendCap
  <1> QED BY <1>1, <1>2, <1>3 DEF PathOwn

\* The global bucket.
LEMMA TakeGlobalOwn ==
  ASSUME PathOwn, NEW c \in Callers, TakeGlobal(c)
  PROVE  PathOwn'
  <1>1. PathTypes'
    BY SMTT(20), PathAssumption DEF PathOwn, PathTypes, TakeGlobal, Goto, Steps, callVars
  <1>2. AdmittedUntilReported'
    BY DEF PathOwn, PathTypes, AdmittedUntilReported, TakeGlobal, Goto, vars
  <1>3. Budget'
    BY DEF PathOwn, PathTypes, Budget, TakeGlobal, Goto, callVars, IsMutation
  <1> QED BY <1>1, <1>2, <1>3 DEF PathOwn

\* The endpoint's bucket.
LEMMA TakeEndpointOwn ==
  ASSUME PathOwn, NEW c \in Callers, TakeEndpoint(c)
  PROVE  PathOwn'
  <1>1. PathTypes'
    BY SMTT(20), PathAssumption DEF PathOwn, PathTypes, TakeEndpoint, Goto, Steps, callVars
  <1>2. AdmittedUntilReported'
    BY DEF PathOwn, PathTypes, AdmittedUntilReported, TakeEndpoint, Goto, vars
  <1>3. Budget'
    BY DEF PathOwn, PathTypes, Budget, TakeEndpoint, Goto, callVars, IsMutation
  <1> QED BY <1>1, <1>2, <1>3 DEF PathOwn

\* The request: the attempt was counted before it.
LEMMA TransmitOwn ==
  ASSUME PathOwn, NEW c \in Callers, Transmit(c)
  PROVE  PathOwn'
  <1>1. PathTypes'
    BY SMTT(20), PathAssumption
    DEF PathOwn, PathTypes, Transmit, Goto, Steps, SendCap, bucketVars
  <1>2. AdmittedUntilReported'
    BY DEF PathOwn, PathTypes, AdmittedUntilReported, Transmit, Goto, vars
  <1>3. Budget'
    BY SMTT(20), PathAssumption
    DEF PathOwn, PathTypes, Budget, Transmit, Goto, IsMutation, SendCap
  <1> QED BY <1>1, <1>2, <1>3 DEF PathOwn

\* A request that is not sent ends its attempt.
LEMMA TransmitFailsOwn ==
  ASSUME PathOwn, NEW c \in Callers, TransmitFails(c)
  PROVE  PathOwn'
  <1>1. PICK outcome \in Outcomes : Attempted(c, outcome)
    BY DEF TransmitFails, Outcomes
  <1>2. /\ pc[c] = "send"
        /\ UNCHANGED <<call, route, attempts, sends, ctxDone, tokens, etokens>>
    BY DEF TransmitFails, vars, bucketVars
  <1> QED BY <1>1, <1>2, AttemptedOwn

\* A cancelled wait ends its attempt.
LEMMA WaitCancelledOwn ==
  ASSUME PathOwn, NEW c \in Callers, WaitCancelled(c)
  PROVE  PathOwn'
  <1>1. /\ pc[c] \in {"global", "endpoint"} /\ Attempted(c, "retryable")
        /\ UNCHANGED <<call, route, attempts, sends, ctxDone, tokens, etokens>>
        /\ "retryable" \in Outcomes
    BY DEF WaitCancelled, vars, bucketVars, Outcomes
  <1> QED BY <1>1, AttemptedOwn

\* A reply, or the lack of one, ends its attempt.
LEMMA ReplyOwn ==
  ASSUME PathOwn, NEW c \in Callers, Reply(c)
  PROVE  PathOwn'
  <1>1. PICK outcome \in Outcomes : Attempted(c, outcome)
    BY DEF Reply
  <1>2. /\ pc[c] = "reply"
        /\ UNCHANGED <<call, route, attempts, sends, ctxDone, tokens, etokens>>
    BY DEF Reply, vars, bucketVars
  <1> QED BY <1>1, <1>2, AttemptedOwn

\* A context that ends.
LEMMA CancelContextOwn ==
  ASSUME PathOwn, NEW c \in Callers, CancelContext(c)
  PROVE  PathOwn'
  BY DEF PathOwn, PathTypes, AdmittedUntilReported, Budget, CancelContext, vars, callVars,
         bucketVars

\* Time and Close: what they leave alone, and the refill of a bucket.
LEMMA EnvironmentOwn ==
  ASSUME PathOwn, Close \/ RefillGlobal \/ RefillEndpoint \/ Cool \/ UNCHANGED pathVars
  PROVE  PathOwn'
  <1>1. UNCHANGED <<pc, route, attempts, sends, err, ctxDone>>
    BY DEF Close, RefillGlobal, RefillEndpoint, Cool, pathVars, callVars
  <1>2. UNCHANGED call
    BY DEF Close, RefillGlobal, RefillEndpoint, Cool, Tick, pathVars, vars
  <1>3. AdmittedUntilReported' /\ Budget'
    BY <1>1, <1>2 DEF PathOwn, AdmittedUntilReported, Budget
  <1>4. /\ tokens' \in 0..GlobalBurst /\ etokens' \in 0..EndpointBurst
    BY SMTT(20), PathAssumption
    DEF PathOwn, PathTypes, Close, RefillGlobal, RefillEndpoint, Cool, pathVars, bucketVars
  <1>5. PathTypes'
    BY <1>1, <1>4 DEF PathOwn, PathTypes
  <1> QED BY <1>3, <1>5 DEF PathOwn

\* The invariant is inductive: the breaker's part by its own lemma, the path's
\* part action by action.
LEMMA PathNextIInv == PathIInv /\ [PathNext]_pathVars => PathIInv'
  <1> SUFFICES ASSUME PathIInv, [PathNext]_pathVars PROVE PathIInv'
    OBVIOUS
  <1>1. IInv'
    BY StepIsBreakerStep, NextIInv DEF PathIInv
  <1>2. PathOwn /\ TypeOK
    BY DEF PathIInv, PathOwn, PathTypes, PathTypeOK
  <1>3. PathOwn'
    <2>1. CASE Close \/ RefillGlobal \/ RefillEndpoint \/ Cool \/ UNCHANGED pathVars
      BY <1>2, <2>1, EnvironmentOwn
    <2>2. ASSUME NEW c \in Callers, NEW r \in Routes, Do(c, r) PROVE PathOwn'
      BY <1>2, <2>2, DoOwn
    <2>3. ASSUME NEW c \in Callers, Progress(c) PROVE PathOwn'
      BY <1>2, <2>3, AdmitOwn, RefusedOwn, AttemptOwn, BackoffOwn, TakeGlobalOwn,
         WaitCancelledOwn, TakeEndpointOwn, TransmitOwn, TransmitFailsOwn, ReplyOwn,
         ReportOwn DEF Progress
    <2>4. ASSUME NEW c \in Callers, CancelContext(c) PROVE PathOwn'
      BY <1>2, <2>4, CancelContextOwn
    <2> QED BY <2>1, <2>2, <2>3, <2>4 DEF PathNext
  <1>4. closed' \in BOOLEAN
    <2>1. closed \in BOOLEAN
      BY DEF PathIInv, PathTypeOK
    <2>2. CASE UNCHANGED pathVars
      BY <2>1, <2>2 DEF pathVars
    <2> QED BY <2>1, <2>2, ClosedTyped
  <1>5. PathTypeOK'
    BY <1>1, <1>3, <1>4 DEF PathTypeOK, PathOwn, PathTypes, IInv
  <1> QED BY <1>1, <1>3, <1>5 DEF PathIInv, PathOwn

\* The request path keeps its types, attempts within their maximum included.
THEOREM PathTypeCorrect == PathSpec => []PathTypeOK
  <1>1. PathIInv => PathTypeOK
    BY DEF PathIInv
  <1> QED BY <1>1, PathInitIInv, PathNextIInv, PTL DEF PathSpec

\* client.go sends a mutation at most once, for every retry policy, and a query at
\* most MaxAttempts times.
THEOREM MutationsAreNeverRetried == PathSpec => []SendsWithinBudget
  <1>1. PathIInv => SendsWithinBudget
    <2> SUFFICES ASSUME PathIInv, NEW c \in Callers
                 PROVE  sends[c] <= IF IsMutation(route[c]) THEN 1 ELSE MaxAttempts
      BY DEF SendsWithinBudget
    <2>1. sends[c] \in Nat /\ attempts[c] \in 0..MaxAttempts /\ MaxAttempts \in Nat
      BY SMTT(20), PathAssumption DEF PathIInv, PathTypeOK, SendCap
    <2>2. sends[c] <= attempts[c] /\ (IsMutation(route[c]) => attempts[c] <= 1)
      BY DEF PathIInv, Budget
    <2> QED BY SMTT(20), <2>1, <2>2
  <1> QED BY <1>1, PathInitIInv, PathNextIInv, PTL DEF PathSpec

\* Every way out of execute after Allow goes through the breaker's OnSuccess or
\* OnFailure.
THEOREM EveryAdmissionIsReported == PathSpec => []AdmittedUntilReported
  <1>1. PathIInv => AdmittedUntilReported
    BY DEF PathIInv
  <1> QED BY <1>1, PathInitIInv, PathNextIInv, PTL DEF PathSpec

-----------------------------------------------------------------------------
(* The limited endpoint, as an observer on the wire sees it                *)

\* What is on the wire and what may join it at any time is covered by the tokens
\* gone from the bucket and one request for each caller.
TokensOrDebt ==
    debt + Cardinality(Holding) <= (EndpointBurst - etokens) + Cardinality(Callers)

\* The inductive invariant.
WireIInv == PathIInv /\ debt \in Nat /\ TokensOrDebt

\* The observer does not change what the path does.
LEMMA ObserverIsPassive == [WireNext]_wireVars => [PathNext]_pathVars
  <1> SUFFICES ASSUME [WireNext]_wireVars PROVE [PathNext]_pathVars
    OBVIOUS
  <1>1. CASE Sent
    BY <1>1 DEF Sent, PathNext, Progress
  <1>2. CASE RefillEndpoint
    BY <1>2 DEF PathNext
  <1> QED BY <1>1, <1>2 DEF WireNext, wireVars

\* The calls that hold a token are at most the callers.
LEMMA HoldingBounded ==
  /\ IsFiniteSet(Holding) /\ Cardinality(Holding) \in Nat
  /\ Cardinality(Callers) \in Nat /\ Cardinality(Holding) <= Cardinality(Callers)
  <1>1. Holding \subseteq Callers
    BY DEF Holding
  <1> QED BY <1>1, FS_Subset, FS_CardinalityType, CallersAssumption

\* One step of the path: who holds a token, and what the bucket lost for it.
LEMMA HoldingStep ==
  ASSUME PathOwn, PathNext
  PROVE  \/ \E c \in Callers : Transmit(c) /\ route[c] = Limited /\ c \in Holding
               /\ Holding' = Holding \ {c} /\ etokens' = etokens
         \/ \E c \in Callers : Holding' = Holding \cup {c} /\ etokens' = etokens - 1
         \/ Holding' \subseteq Holding /\ etokens' = etokens
         \/ RefillEndpoint /\ Holding' = Holding /\ etokens' = etokens + 1
  <1>0. pc \in [Callers -> Steps] /\ route \in [Callers -> Routes]
    BY DEF PathOwn, PathTypes
  <1>1. ASSUME NEW c \in Callers, Transmit(c) PROVE
           \/ /\ route[c] = Limited /\ c \in Holding
              /\ Holding' = Holding \ {c} /\ etokens' = etokens
           \/ Holding' \subseteq Holding /\ etokens' = etokens
    BY <1>0, <1>1 DEF Transmit, Goto, Holding, bucketVars
  <1>2. ASSUME NEW c \in Callers, TakeEndpoint(c) PROVE
           \/ Holding' = Holding \cup {c} /\ etokens' = etokens - 1
           \/ Holding' \subseteq Holding /\ etokens' = etokens
    BY <1>0, <1>2 DEF TakeEndpoint, Goto, Holding, callVars
  <1>3. ASSUME NEW c \in Callers,
               \/ \E r \in Routes : Do(c, r)
               \/ Admit(c) \/ Refused(c) \/ Attempt(c) \/ Backoff(c) \/ TakeGlobal(c)
               \/ CancelContext(c) \/ Report(c)
        PROVE  Holding' \subseteq Holding /\ etokens' = etokens
    BY <1>0, <1>3 DEF Do, Admit, Refused, Attempt, Backoff, TakeGlobal, CancelContext,
       Report, Return, Done, Goto, Holding, callVars, bucketVars
  <1>4. ASSUME NEW c \in Callers, WaitCancelled(c) \/ TransmitFails(c) \/ Reply(c)
        PROVE  Holding' \subseteq Holding /\ etokens' = etokens
    BY <1>0, <1>4 DEF WaitCancelled, TransmitFails, Reply, Attempted, Done, Goto, Holding,
       bucketVars
  <1>5. CASE Close \/ RefillGlobal \/ Cool
    BY <1>5 DEF Close, RefillGlobal, Cool, Holding, callVars, bucketVars
  <1>6. CASE RefillEndpoint
    BY <1>6 DEF RefillEndpoint, Holding, callVars
  <1> QED BY <1>1, <1>2, <1>3, <1>4, <1>5, <1>6 DEF PathNext, Progress

\* A step of the path with its observation keeps the account: a token becomes a
\* held one, a held one a request, and a request is drained with a refill.
LEMMA ObservedStep ==
  ASSUME PathIInv, PathIInv', debt \in Nat, TokensOrDebt, WireNext
  PROVE  debt' \in Nat /\ TokensOrDebt'
  <1>1. PathOwn /\ etokens \in 0..EndpointBurst /\ etokens' \in 0..EndpointBurst
    BY DEF PathIInv, PathOwn, PathTypes, PathTypeOK
  <1>2. EndpointBurst \in Nat
    BY PathAssumption
  <1>3. etokens \in Nat /\ etokens' \in Nat /\ etokens' <= EndpointBurst
    BY SMTT(20), <1>1, <1>2
  <1>4. debt' \in Nat
    BY SMTT(20) DEF WireNext, Drained
  <1>5. /\ IsFiniteSet(Holding)' /\ (Cardinality(Holding) \in Nat)'
        /\ (Cardinality(Holding) <= Cardinality(Callers))'
    <2>1. (Holding \subseteq Callers)'
      BY DEF Holding
    <2> QED BY <2>1, FS_Subset, FS_CardinalityType, CallersAssumption
  <1> DEFINE h == Cardinality(Holding)
             h1 == Cardinality(Holding')
             n == Cardinality(Callers)
  <1>6. h \in Nat /\ h1 \in Nat /\ n \in Nat /\ h1 <= n
    BY <1>5, HoldingBounded
  <1>7. \/ debt' = debt + 1 /\ h1 = h - 1 /\ etokens' = etokens
        \/ debt' = debt /\ h1 <= h + 1 /\ etokens' = etokens - 1
        \/ debt' = debt /\ h1 <= h /\ etokens' = etokens
        \/ (debt' = debt - 1 \/ debt' = 0) /\ h1 = h /\ etokens' = etokens + 1
        \/ (debt' = debt - 1 \/ debt' = 0) /\ h1 = h /\ etokens' = etokens
    <2>1. CASE Sent /\ debt' = debt + 1
      <3>1. PICK c \in Callers : Transmit(c) /\ route[c] = Limited
        BY <2>1 DEF Sent
      <3>2. c \in Holding /\ Holding' = Holding \ {c} /\ etokens' = etokens
        BY <1>1, <3>1 DEF PathOwn, PathTypes, Transmit, Goto, Holding, bucketVars
      <3>3. h1 = h - 1
        BY <3>2, FS_RemoveElement, HoldingBounded
      <3> QED BY <2>1, <3>2, <3>3
    <2>2. CASE RefillEndpoint /\ debt' = Drained
      <3>1. Holding' = Holding /\ etokens' = etokens + 1
        BY <2>2 DEF RefillEndpoint, Holding, callVars
      <3> QED BY <2>2, <3>1 DEF Drained
    <2>3. CASE PathNext /\ ~Sent /\ ~RefillEndpoint /\ UNCHANGED debt
      <3>1. CASE \E c \in Callers : Holding' = Holding \cup {c} /\ etokens' = etokens - 1
        <4>1. PICK c \in Callers : Holding' = Holding \cup {c} /\ etokens' = etokens - 1
          BY <3>1
        <4>2. h1 = h \/ h1 = h + 1
          BY <4>1, FS_AddElement, HoldingBounded
        <4>3. h1 <= h + 1
          BY SMTT(20), <4>2, <1>6
        <4> QED BY <2>3, <4>1, <4>3
      <3>2. CASE Holding' \subseteq Holding /\ etokens' = etokens
        <4>1. h1 <= h
          BY <3>2, FS_Subset, HoldingBounded
        <4> QED BY <2>3, <3>2, <4>1
      <3> QED BY <1>1, <2>3, <3>1, <3>2, HoldingStep DEF Sent
    <2>4. CASE etokens = EndpointBurst /\ debt' = Drained /\ UNCHANGED pathVars
      <3>1. Holding' = Holding /\ etokens' = etokens
        BY <2>4 DEF pathVars, Holding, callVars, bucketVars
      <3> QED BY <2>4, <3>1 DEF Drained
    <2> QED BY <2>1, <2>2, <2>3, <2>4 DEF WireNext
  <1>8. debt + h <= (EndpointBurst - etokens) + n
    BY DEF TokensOrDebt
  <1> HIDE DEF h, h1, n
  <1>9. debt' + h1 <= (EndpointBurst - etokens') + n
    <2>1. CASE debt' = debt + 1 /\ h1 = h - 1 /\ etokens' = etokens
      BY SMTT(20), <1>2, <1>3, <1>4, <1>6, <1>8, <2>1
    <2>2. CASE debt' = debt /\ h1 <= h + 1 /\ etokens' = etokens - 1
      BY SMTT(20), <1>2, <1>3, <1>4, <1>6, <1>8, <2>2
    <2>3. CASE debt' = debt /\ h1 <= h /\ etokens' = etokens
      BY SMTT(20), <1>2, <1>3, <1>4, <1>6, <1>8, <2>3
    <2>4. CASE (debt' = debt - 1 \/ debt' = 0) /\ h1 = h /\ etokens' = etokens + 1
      <3>1. CASE debt' = 0
        BY SMTT(20), <1>2, <1>3, <1>6, <2>4, <3>1
      <3>2. CASE debt' = debt - 1
        BY SMTT(20), <1>2, <1>3, <1>4, <1>6, <1>8, <2>4, <3>2
      <3> QED BY <2>4, <3>1, <3>2
    <2>5. CASE (debt' = debt - 1 \/ debt' = 0) /\ h1 = h /\ etokens' = etokens
      <3>1. CASE debt' = 0
        BY SMTT(20), <1>1, <1>2, <1>3, <1>6, <2>5, <3>1
      <3>2. CASE debt' = debt - 1
        BY SMTT(20), <1>2, <1>3, <1>4, <1>6, <1>8, <2>5, <3>2
      <3> QED BY <2>5, <3>1, <3>2
    <2> QED BY <1>7, <2>1, <2>2, <2>3, <2>4, <2>5
  <1> QED BY <1>4, <1>9 DEF TokensOrDebt, h1, n

\* The account is kept along every observed behaviour of the path.
LEMMA AccountIsKept == WireSpec => []WireIInv
  <1>1. WireInit => WireIInv
    <2> SUFFICES ASSUME WireInit PROVE WireIInv
      OBVIOUS
    <2>1. PathIInv /\ debt = 0 /\ etokens = EndpointBurst
      BY PathInitIInv DEF WireInit, PathInit
    <2>2. EndpointBurst \in Nat
      BY PathAssumption
    <2>3. debt + Cardinality(Holding) <= (EndpointBurst - etokens) + Cardinality(Callers)
      BY SMTT(20), <2>1, <2>2, HoldingBounded
    <2> QED BY <2>1, <2>3 DEF WireIInv, TokensOrDebt
  <1>2. WireIInv /\ [WireNext]_wireVars => WireIInv'
    <2> SUFFICES ASSUME WireIInv, [WireNext]_wireVars PROVE WireIInv'
      OBVIOUS
    <2>1. PathIInv'
      BY ObserverIsPassive, PathNextIInv DEF WireIInv
    <2>2. CASE WireNext
      BY <2>1, <2>2, ObservedStep DEF WireIInv
    <2>3. CASE UNCHANGED wireVars
      <3>1. debt' = debt /\ etokens' = etokens /\ Holding' = Holding
        BY <2>3 DEF wireVars, pathVars, bucketVars, callVars, Holding
      <3> QED BY <2>1, <3>1 DEF WireIInv, TokensOrDebt
    <2> QED BY <2>2, <2>3
  <1> QED BY <1>1, <1>2, PTL DEF WireSpec

\* An endpoint's limit on the wire: its burst, and one request more for each call
\* that can be held up between its token and transport.Do.
THEOREM EndpointLimitHolds == WireSpec => []WireWithinLimit
  <1>1. WireIInv => WireWithinLimit
    <2> SUFFICES ASSUME WireIInv PROVE debt <= EndpointBurst + Cardinality(Callers)
      BY DEF WireWithinLimit
    <2>1. etokens \in 0..EndpointBurst /\ debt \in Nat
      BY DEF WireIInv, PathIInv, PathTypeOK
    <2>2. debt + Cardinality(Holding) <= (EndpointBurst - etokens) + Cardinality(Callers)
      BY DEF WireIInv, TokensOrDebt
    <2> QED BY SMTT(20), <2>1, <2>2, HoldingBounded, PathAssumption
  <1> QED BY <1>1, AccountIsKept, PTL

\* The observer sees the request path and nothing else.
THEOREM WireIsThePath == WireSpec => PathSpec
  <1>1. WireInit => PathInit
    BY DEF WireInit
  <1> QED BY <1>1, ObserverIsPassive, PTL DEF WireSpec, PathSpec

=============================================================================
