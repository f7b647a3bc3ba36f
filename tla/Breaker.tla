------------------------------ MODULE Breaker ------------------------------
(***************************************************************************)
(* internal/resilience/breaker.go: the circuit breaker that client.execute *)
(* consults before a call (Allow) and informs once after it (OnSuccess or  *)
(* OnFailure).  Callers run concurrently; the breaker's mutex makes each   *)
(* of the three methods one atomic step, but between Allow and the report  *)
(* of its outcome a call is in flight, and the breaker may change state    *)
(* under it any number of times.                                           *)
(***************************************************************************)
EXTENDS Naturals, FiniteSets

CONSTANTS
    Callers,         \* concurrent users of one breaker
    Threshold,       \* consecutive failures that open the breaker
    Cooldown,        \* clock ticks the breaker stays open
    HalfOpenProbes,  \* calls admitted while half-open (1 in NewBreaker)
    FailureCap       \* the failure counter saturates here (see CountFailure)

ASSUME CallersAssumption == IsFiniteSet(Callers)
ASSUME BreakerAssumption ==
    /\ Threshold \in Nat \ {0}
    /\ Cooldown \in Nat \ {0}
    /\ HalfOpenProbes \in Nat \ {0}
    /\ FailureCap \in Nat
    /\ Threshold <= FailureCap

VARIABLES
    state,     \* Breaker.state
    failures,  \* Breaker.failures
    probes,    \* Breaker.probes
    elapsed,   \* now() - openedAt, counted up to Cooldown, while open
    call       \* per caller: no call in flight, or how the call stands

vars == <<state, failures, probes, elapsed, call>>

States == {"closed", "open", "halfOpen"}

(***************************************************************************)
(* A call in flight is "normal" (admitted while closed), "probe" (admitted *)
(* by the half-open period that still lasts) or "stale" (the breaker has   *)
(* opened since it was admitted).  The breaker itself keeps no such label: *)
(* call is what an observer of the callers knows.                          *)
(***************************************************************************)
CallStates == {"idle", "normal", "probe", "stale"}

Probing == {c \in Callers : call[c] = "probe"}

TypeOK ==
    /\ state \in States
    /\ failures \in 0..FailureCap
    /\ probes \in 0..HalfOpenProbes
    /\ elapsed \in 0..Cooldown
    /\ call \in [Callers -> CallStates]

\* NewBreaker: closed, nothing counted, no call made yet.
Init ==
    /\ state = "closed"
    /\ failures = 0
    /\ probes = 0
    /\ elapsed = 0
    /\ call = [c \in Callers |-> "idle"]

-----------------------------------------------------------------------------
(* Allow: a refused call changes nothing and the caller stays idle, so only *)
(* the three ways of admitting a call are steps.                            *)

AllowClosed(c) ==
    /\ state = "closed"
    /\ call' = [call EXCEPT ![c] = "normal"]
    /\ UNCHANGED <<state, probes>>

\* Mutant: the slot test is off by one.
AllowProbeOffByOne(c) ==
    /\ state = "halfOpen"
    /\ probes <= HalfOpenProbes
    /\ probes' = probes + 1
    /\ call' = [call EXCEPT ![c] = "probe"]
    /\ UNCHANGED state

AllowProbe(c) ==
    /\ state = "halfOpen"
    /\ probes < HalfOpenProbes
    /\ probes' = probes + 1
    /\ call' = [call EXCEPT ![c] = "probe"]
    /\ UNCHANGED state

\* Once the cooldown has elapsed Allow moves to half-open, resets the probe
\* count and falls through to the half-open test, which admits this call.
AllowAfterCooldown(c) ==
    /\ state = "open"
    /\ elapsed >= Cooldown
    /\ state' = "halfOpen"
    /\ probes' = 1
    /\ call' = [call EXCEPT ![c] = "probe"]

Allow(c) ==
    /\ call[c] = "idle"
    /\ AllowClosed(c) \/ AllowProbe(c) \/ AllowAfterCooldown(c)
    /\ UNCHANGED <<failures, elapsed>>

-----------------------------------------------------------------------------
(* The outcome of an admitted call.                                         *)

\* failures++.  No method distinguishes counts above Threshold, so the counter
\* may saturate at any FailureCap >= Threshold.
CountFailure == IF failures < FailureCap THEN failures + 1 ELSE failures

\* The caller's call is over; when the breaker closes, probes still out are
\* ordinary calls, and when it opens, everything still out is stale.
Finish(c, newState) ==
    [d \in Callers |->
        IF d = c \/ call[d] = "idle" THEN "idle"
        ELSE IF newState = "open" THEN "stale"
        ELSE IF newState = "closed" /\ call[d] = "probe" THEN "normal"
        ELSE call[d]]

\* Mutant: the early return covers half-open as well as open.
OnSuccessOnlyClosed(c) ==
    /\ call[c] # "idle"
    /\ failures' = IF state = "closed" THEN 0 ELSE failures
    /\ call' = Finish(c, state)
    /\ UNCHANGED <<state, probes, elapsed>>

OnSuccess(c) ==
    /\ call[c] # "idle"
    /\ \/ /\ state = "open"
          /\ UNCHANGED <<state, failures, probes>>
       \/ /\ state # "open"
          /\ state' = "closed"
          /\ failures' = 0
          /\ probes' = 0
    /\ call' = Finish(c, state')
    /\ UNCHANGED elapsed

OnFailureHalfOpen ==
    /\ state = "halfOpen"
    /\ state' = "open"
    /\ elapsed' = 0
    /\ probes' = 0
    /\ failures' = CountFailure

OnFailureClosed ==
    /\ state = "closed"
    /\ failures' = CountFailure
    /\ IF failures' >= Threshold
       THEN state' = "open" /\ elapsed' = 0
       ELSE UNCHANGED <<state, elapsed>>
    /\ UNCHANGED probes

OnFailureOpen ==
    /\ state = "open"
    /\ UNCHANGED <<state, failures, probes, elapsed>>

OnFailure(c) ==
    /\ call[c] # "idle"
    /\ OnFailureHalfOpen \/ OnFailureClosed \/ OnFailureOpen
    /\ call' = Finish(c, state')

\* The clock: only the time since openedAt is ever read, and only while open.
Tick ==
    /\ state = "open"
    /\ elapsed < Cooldown
    /\ elapsed' = elapsed + 1
    /\ UNCHANGED <<state, failures, probes, call>>

Next ==
    \/ \E c \in Callers : Allow(c) \/ OnSuccess(c) \/ OnFailure(c)
    \/ Tick

Spec == Init /\ [][Next]_vars

-----------------------------------------------------------------------------
(* The breaker is closed exactly while fewer than Threshold consecutive     *)
(* failures are on the books: it never opens early, and no interleaving of  *)
(* stale outcomes leaves it closed with the threshold reached.              *)
ClosedBelowThreshold == state = "closed" <=> failures < Threshold

(* While half-open, the probe slots in use are exactly the probes still in  *)
(* flight, at least one and at most HalfOpenProbes of them: a slot is never *)
(* leaked, so the half-open state always has a call whose end leaves it.    *)
ProbeSlotsAreInFlight ==
    state = "halfOpen" =>
        /\ probes = Cardinality(Probing)
        /\ probes \in 1..HalfOpenProbes

(* Once open, the breaker stays open until Cooldown has elapsed since the   *)
(* failure that opened it, whatever late calls report meanwhile.            *)
OpenForCooldown ==
    [][state = "open" /\ state' # "open" => elapsed >= Cooldown]_vars

(* The breaker cannot get stuck refusing calls: if failures stop being      *)
(* reported, it is closed again and again.                                  *)
RecoversOnceFailuresStop ==
    \/ []<><<\E c \in Callers : OnFailure(c)>>_vars
    \/ []<>(state = "closed")
=============================================================================
