--------------------------- MODULE ReleasedProofs ---------------------------
(***************************************************************************)
(* Proofs about two machines of the released layer (pkg/hstong) that share *)
(* no state: the session manager, for any number of callers and of         *)
(* keep-alive loops, and the stream client with the push client under it,  *)
(* for any number of calls of Connect, of connections and of               *)
(* subscriptions.                                                          *)
(***************************************************************************)
EXTENDS SessionManager, StreamClient, FiniteSetTheorems, TLAPS

\* A leaf that names no prover goes to Zenon; arithmetic goes to SMT.
USE ZenonT(20)

-----------------------------------------------------------------------------
(* The session manager.                                                    *)

\* OneLoginInFlight without counting.
InFlight ==
    ~cut => /\ state = "ing" => \E g \in Goroutines : Requesting = {g}
            /\ state # "ing" => Requesting = {}

\* Whoever was woken heard the outcome loginErr holds, whatever the method.
WokenHeard == ~cut => \A g \in Goroutines : pc[g] = "woken" => loginErr \in heard[g]

\* A StopKeepAlive under way has taken a loop.
StopHasTarget == \A c \in Callers : pc[c] \in {"stopCancel", "stopWait"} => target[c] \in Loops

\* A keep-alive loop only ever ensures the login.
LoopsEnsure == \A l \in Loops : op[l] = "ensure"

\* The inductive invariant.
ManagerInv ==
    /\ TypeOK
    /\ LoopsEnsure
    /\ InFlight
    /\ WokenHeard
    /\ StopHasTarget
    /\ NoOrphanLoop

Steps == CallerSteps \cup LoopSteps

-----------------------------------------------------------------------------
\* StepTo moves one goroutine.
LEMMA StepToMoves ==
    ASSUME TypeOK, NEW g \in Goroutines, NEW step, StepTo(g, step),
           step \in IF g \in Callers THEN CallerSteps ELSE LoopSteps
    PROVE  /\ pc' \in [Goroutines -> Steps]
           /\ pc'[g] = step
           /\ \A h \in Goroutines \ {g} : pc'[h] = pc[h]
           /\ \A c \in Callers : pc'[c] \in CallerSteps
           /\ \A l \in Loops : pc'[l] \in LoopSteps
BY ManagerAssumption DEF StepTo, TypeOK, Goroutines, Steps

\* Broadcast moves one goroutine and wakes those that wait.
LEMMA BroadcastWakes ==
    ASSUME TypeOK, NEW g \in Goroutines, NEW step, Broadcast(g, step),
           step \in IF g \in Callers THEN CallerSteps ELSE LoopSteps
    PROVE  /\ pc' \in [Goroutines -> Steps]
           /\ pc'[g] = step
           /\ \A h \in Goroutines \ {g} :
                 pc'[h] = IF pc[h] = "wait" THEN "woken" ELSE pc[h]
           /\ \A c \in Callers : pc'[c] \in CallerSteps
           /\ \A l \in Loops : pc'[l] \in LoopSteps
BY ManagerAssumption DEF Broadcast, TypeOK, Goroutines, Steps, CallerSteps, LoopSteps

LEMMA InitManagerInv == ManagerInit => ManagerInv
<1>. SUFFICES ASSUME ManagerInit PROVE ManagerInv
  OBVIOUS
<1>1. \A g \in Goroutines : pc[g] \in {"idle", "unused"}
  BY DEF ManagerInit
<1>2. cut \in BOOLEAN /\ ~cut
  BY DEF ManagerInit
<1>3. TypeOK
  BY <1>2, ManagerAssumption DEF ManagerInit, TypeOK, Goroutines, CallerSteps, LoopSteps
<1>4. Requesting = {}
  BY <1>1 DEF Requesting
<1>5. InFlight
  BY <1>4 DEF ManagerInit, InFlight
<1>6. WokenHeard
  BY <1>1 DEF WokenHeard
<1>7. LoopsEnsure /\ StopHasTarget /\ NoOrphanLoop
  BY ManagerAssumption DEF ManagerInit, LoopsEnsure, StopHasTarget, NoOrphanLoop, Goroutines
<1>. QED
  BY <1>3, <1>5, <1>6, <1>7 DEF ManagerInv

-----------------------------------------------------------------------------
\* A goroutine that does not wait, send or hold a loop may step to anything that
\* is neither woken nor a stop: nothing about loops or about the others changes.
LEMMA LoopsUntouched ==
    ASSUME ManagerInv, NEW g \in Goroutines, UNCHANGED loopVars,
           pc[g] \in {"idle", "wait", "woken", "forced", "request", "logout", "select", "poll"},
           \A h \in Goroutines \ {g} :
              pc'[h] = pc[h] \/ (pc[h] = "wait" /\ pc'[h] = "woken"),
           pc'[g] \notin {"stopCancel", "stopWait"}
    PROVE  StopHasTarget' /\ NoOrphanLoop'
<1>1. \A c \in Callers : pc'[c] \in {"stopCancel", "stopWait"} => pc[c] = pc'[c]
  BY DEF Goroutines
<1>2. \A c \in Callers : pc[c] = "stopCancel" => pc'[c] = "stopCancel"
  BY DEF Goroutines
<1>3. \A l \in Loops : pc'[l] \notin {"unused", "closing", "gone"}
                          => pc[l] \notin {"unused", "closing", "gone"}
  BY DEF Goroutines
<1>4. StopHasTarget'
  BY <1>1 DEF ManagerInv, StopHasTarget, loopVars
<1>5. NoOrphanLoop'
  BY <1>2, <1>3 DEF ManagerInv, NoOrphanLoop, loopVars
<1>. QED
  BY <1>4, <1>5

\* A step outside the login protocol: nobody starts or ends a request or a wait.
LEMMA LoginUntouched ==
    ASSUME ManagerInv, UNCHANGED loginVars,
           \A g \in Goroutines : /\ pc'[g] = "request" <=> pc[g] = "request"
                                 /\ pc'[g] = "woken" => pc[g] = "woken"
    PROVE  InFlight' /\ WokenHeard'
<1>1. Requesting' = Requesting
  BY DEF Requesting
<1>2. InFlight'
  BY <1>1 DEF ManagerInv, InFlight, loginVars
<1>3. WokenHeard'
  BY DEF ManagerInv, WokenHeard, loginVars
<1>. QED
  BY <1>2, <1>3

\* A goroutine that is neither requesting nor woken by the step begins a request.
LEMMA RequestBegins ==
    ASSUME ManagerInv, NEW g \in Goroutines, state # "ing", state' = "ing", StepTo(g, "request"),
           UNCHANGED <<loginErr, cut>>,
           \A h \in Goroutines \ {g} : heard'[h] = heard[h]
    PROVE  InFlight' /\ WokenHeard'
<1>1. pc'[g] = "request" /\ \A h \in Goroutines \ {g} : pc'[h] = pc[h]
  BY StepToMoves DEF ManagerInv, CallerSteps, LoopSteps
<1>2. ~cut => Requesting' = {g}
  BY <1>1 DEF ManagerInv, InFlight, Requesting
<1>3. InFlight'
  BY <1>2 DEF InFlight
<1>4. WokenHeard'
  BY <1>1 DEF ManagerInv, WokenHeard
<1>. QED
  BY <1>3, <1>4

\* A goroutine that was not requesting goes where it neither requests nor is
\* woken, and no login is begun or ended by it.
LEMMA RequestsStay ==
    ASSUME ManagerInv, NEW g \in Goroutines, NEW step, StepTo(g, step),
           step \in IF g \in Callers THEN CallerSteps ELSE LoopSteps,
           pc[g] # "request", step \notin {"request", "woken"},
           state' = state \/ (state # "ing" /\ state' # "ing"),
           UNCHANGED <<loginErr, cut>>,
           \A h \in Goroutines \ {g} : heard'[h] = heard[h]
    PROVE  InFlight' /\ WokenHeard'
<1>1. pc'[g] = step /\ \A h \in Goroutines \ {g} : pc'[h] = pc[h]
  BY StepToMoves DEF ManagerInv
<1>2. Requesting' = Requesting
  BY <1>1 DEF Requesting
<1>3. InFlight'
  BY <1>2 DEF ManagerInv, InFlight
<1>4. WokenHeard'
  BY <1>1 DEF ManagerInv, WokenHeard
<1>. QED
  BY <1>3, <1>4

-----------------------------------------------------------------------------
\* The critical section of EnsureLoggedIn, from any step that is not a request.
LEMMA EnsureIInv ==
    ASSUME ManagerInv, NEW g \in Goroutines, EnsureSection(g), UNCHANGED loopVars,
           pc[g] \in {"idle", "select", "forced"}
    PROVE  ManagerInv'
<1>1. PICK step \in {"idle", "poll", "wait", "request"} :
         /\ StepTo(g, step)
         /\ step \in IF g \in Callers THEN CallerSteps ELSE LoopSteps
  BY DEF EnsureSection, Return, After, Wait, BeginLogin, CallerSteps, LoopSteps
<1>2. TypeOK' /\ LoopsEnsure'
  <2>1. state' \in {"out", "ing", "in"} /\ UNCHANGED <<loginErr, heard, cut>>
    BY DEF EnsureSection, Wait, BeginLogin, loginVars, ManagerInv, TypeOK
  <2>2. op' \in [Goroutines -> {"ensure", "login", "relogin"}] /\ LoopsEnsure'
    BY DEF EnsureSection, Wait, loginVars, ManagerInv, TypeOK, LoopsEnsure, Goroutines
  <2>. QED
    BY <1>1, <2>1, <2>2, StepToMoves DEF ManagerInv, TypeOK, loopVars, Steps
<1>3. StopHasTarget' /\ NoOrphanLoop'
  BY <1>1, StepToMoves, LoopsUntouched DEF ManagerInv
<1>4. InFlight' /\ WokenHeard'
  <2>1. CASE state = "in" /\ Return(g, "nil") /\ UNCHANGED loginVars
    BY <2>1, RequestsStay DEF Return, After, CallerSteps, LoopSteps, loginVars
  <2>2. CASE Wait(g, "ensure")
    BY <2>2, RequestsStay DEF Wait, CallerSteps, LoopSteps
  <2>3. CASE BeginLogin(g) /\ UNCHANGED <<loginErr, op, heard, cut>>
    BY <2>3, RequestBegins DEF BeginLogin
  <2>. QED
    BY <2>1, <2>2, <2>3 DEF EnsureSection
<1>. QED
  BY <1>2, <1>3, <1>4 DEF ManagerInv

\* Login and ReLogin, before they wait or instead of waiting.
LEMMA LoginIInv ==
    ASSUME ManagerInv, NEW c \in Callers, Login(c) \/ ReLogin(c)
    PROVE  ManagerInv'
<1>. c \in Goroutines
  BY DEF Goroutines
<1>1. pc[c] = "idle" /\ UNCHANGED loopVars
  BY DEF Login, ReLogin
<1>2. PICK step \in {"wait", "request", "forced"} : StepTo(c, step)
  BY DEF Login, ReLogin, Wait, LoginSection, ReLoginSection
<1>3. TypeOK' /\ LoopsEnsure'
  <2>1. state' \in {"out", "ing", "in"} /\ UNCHANGED <<loginErr, heard, cut>>
    BY DEF Login, ReLogin, Wait, LoginSection, ReLoginSection, ManagerInv, TypeOK
  <2>2. op' \in [Goroutines -> {"ensure", "login", "relogin"}] /\ LoopsEnsure'
    BY ManagerAssumption DEF Login, ReLogin, Wait, ManagerInv, TypeOK, LoopsEnsure, Goroutines
  <2>. QED
    BY <1>1, <1>2, <2>1, <2>2, StepToMoves DEF ManagerInv, TypeOK, loopVars, Steps, CallerSteps
<1>4. StopHasTarget' /\ NoOrphanLoop'
  BY <1>1, <1>2, StepToMoves, LoopsUntouched DEF ManagerInv, CallerSteps
<1>5. InFlight' /\ WokenHeard'
  <2>1. CASE Wait(c, "login") \/ Wait(c, "relogin")
    BY <1>1, <2>1, RequestsStay DEF Wait, CallerSteps
  <2>2. CASE LoginSection(c) /\ UNCHANGED <<loginErr, op, heard, cut>>
    BY <2>2, RequestBegins DEF LoginSection
  <2>3. CASE ReLoginSection(c) /\ UNCHANGED <<loginErr, op, heard, cut>>
    BY <1>1, <2>3, RequestsStay DEF ReLoginSection, CallerSteps
  <2>. QED
    BY <2>1, <2>2, <2>3 DEF Login, ReLogin
<1>. QED
  BY <1>3, <1>4, <1>5 DEF ManagerInv

\* A woken goroutine tests the state again.
LEMMA WokenIInv ==
    ASSUME ManagerInv, NEW g \in Goroutines, WaitAgain(g) \/ WaitOver(g)
    PROVE  ManagerInv'
<1>1. pc[g] = "woken" /\ UNCHANGED <<loopVars, loginErr, cut>>
  BY DEF WaitAgain, WaitOver, loginVars
<1>2. CASE WaitAgain(g)
  <2>1. StepTo(g, "wait") /\ UNCHANGED loginVars
    BY <1>2 DEF WaitAgain
  <2>2. TypeOK' /\ LoopsEnsure'
    BY <1>1, <2>1, StepToMoves
    DEF ManagerInv, TypeOK, LoopsEnsure, loopVars, loginVars, Steps, CallerSteps, LoopSteps
  <2>3. StopHasTarget' /\ NoOrphanLoop'
    BY SMTT(20), <1>1, <2>1, StepToMoves, LoopsUntouched DEF ManagerInv, CallerSteps, LoopSteps
  <2>4. InFlight' /\ WokenHeard'
    BY <1>1, <2>1, RequestsStay DEF loginVars, CallerSteps, LoopSteps
  <2>. QED
    BY <2>2, <2>3, <2>4 DEF ManagerInv
<1>3. CASE WaitOver(g)
  <2>1. PICK step \in {"idle", "poll", "select", "request", "forced"} :
           /\ StepTo(g, step)
           /\ step \in IF g \in Callers THEN CallerSteps ELSE LoopSteps
    <3>1. op[g] # "ensure" => g \in Callers
      BY DEF ManagerInv, LoopsEnsure, Goroutines
    <3>. QED
      BY <1>3, <3>1 DEF WaitOver, Return, After, LoginSection, ReLoginSection, CallerSteps, LoopSteps
  <2>2. TypeOK' /\ LoopsEnsure'
    <3>1. state' \in {"out", "ing", "in"}
      BY <1>3 DEF WaitOver, LoginSection, ReLoginSection, ManagerInv, TypeOK
    <3>2. op' \in [Goroutines -> {"ensure", "login", "relogin"}] /\ LoopsEnsure'
      BY <1>3 DEF WaitOver, ManagerInv, TypeOK, LoopsEnsure, Goroutines
    <3>3. heard' \in [Goroutines -> SUBSET {"nil", "err"}]
      BY <1>3 DEF WaitOver, ManagerInv, TypeOK
    <3>. QED
      BY <1>1, <2>1, <3>1, <3>2, <3>3, StepToMoves DEF ManagerInv, TypeOK, loopVars, Steps
  <2>3. StopHasTarget' /\ NoOrphanLoop'
    BY <1>1, <2>1, StepToMoves, LoopsUntouched DEF ManagerInv
  <2>4. \A h \in Goroutines \ {g} : heard'[h] = heard[h]
    BY <1>3 DEF WaitOver, ManagerInv, TypeOK
  <2>5. InFlight' /\ WokenHeard'
    <3>1. CASE op[g] = "ensure" /\ Return(g, loginErr) /\ UNCHANGED state
      BY <1>1, <2>4, <3>1, RequestsStay DEF Return, After, CallerSteps, LoopSteps
    <3>2. CASE op[g] = "login" /\ LoginSection(g)
      BY <1>1, <2>4, <3>2, RequestBegins DEF LoginSection
    <3>3. CASE op[g] = "relogin" /\ ReLoginSection(g)
      <4>1. g \in Callers
        BY <3>3 DEF ManagerInv, LoopsEnsure, Goroutines
      <4>. QED
        BY <1>1, <2>4, <3>3, <4>1, RequestsStay DEF ReLoginSection, CallerSteps
    <3>. QED
      BY <1>3, <3>1, <3>2, <3>3 DEF WaitOver
  <2>. QED
    BY <2>2, <2>3, <2>5 DEF ManagerInv
<1>. QED
  BY <1>2, <1>3

\* The login ends: the one request there was is over, and all who wait hear of it.
LEMMA FinishIInv ==
    ASSUME ManagerInv, NEW g \in Goroutines, FinishLogin(g)
    PROVE  ManagerInv'
<1>1. PICK err \in {"nil", "err"} :
         /\ state' = IF state # "ing" THEN state ELSE IF err = "nil" THEN "in" ELSE "out"
         /\ loginErr' = err
         /\ heard' = [h \in Goroutines |-> IF Waiting(h) THEN heard[h] \cup {err} ELSE {}]
         /\ Broadcast(g, After(g, err))
  BY DEF FinishLogin
<1>2. pc[g] = "request" /\ UNCHANGED <<op, cut, loopVars>>
  BY DEF FinishLogin
<1>3. After(g, err) \in {"idle", "poll", "select"}
      /\ After(g, err) \in IF g \in Callers THEN CallerSteps ELSE LoopSteps
  BY DEF After, CallerSteps, LoopSteps
<1>4. /\ pc' \in [Goroutines -> Steps]
      /\ pc'[g] = After(g, err)
      /\ \A h \in Goroutines \ {g} : pc'[h] = IF pc[h] = "wait" THEN "woken" ELSE pc[h]
      /\ \A c \in Callers : pc'[c] \in CallerSteps
      /\ \A l \in Loops : pc'[l] \in LoopSteps
  BY <1>1, <1>3, BroadcastWakes DEF ManagerInv
<1>5. TypeOK' /\ LoopsEnsure'
  <2>1. heard' \in [Goroutines -> SUBSET {"nil", "err"}]
    BY <1>1 DEF ManagerInv, TypeOK
  <2>2. state' \in {"out", "ing", "in"} /\ loginErr' \in {"nil", "err"}
    BY <1>1 DEF ManagerInv, TypeOK
  <2>. QED
    BY <1>2, <1>4, <2>1, <2>2 DEF ManagerInv, TypeOK, LoopsEnsure, loopVars, Steps
<1>6. StopHasTarget' /\ NoOrphanLoop'
  BY <1>2, <1>3, <1>4, LoopsUntouched
<1>7. InFlight'
  <2>1. ~cut => Requesting = {g} /\ state = "ing"
    BY <1>2 DEF ManagerInv, InFlight, Requesting
  <2>2. ~cut => Requesting' = {}
    BY <1>3, <1>4, <2>1 DEF Requesting
  <2>. QED
    BY <1>1, <1>2, <2>1, <2>2 DEF InFlight
<1>8. WokenHeard'
  BY <1>1, <1>3, <1>4 DEF WokenHeard, Waiting
<1>. QED
  BY <1>5, <1>6, <1>7, <1>8 DEF ManagerInv

\* Logout: what it disturbs, the history variable cut records.
LEMMA LogoutIInv ==
    ASSUME ManagerInv, NEW c \in Callers, Logout(c) \/ LogoutReply(c)
    PROVE  ManagerInv'
<1>. c \in Goroutines
  BY DEF Goroutines
<1>1. CASE Logout(c)
  <2>1. pc[c] = "idle" /\ StepTo(c, "logout") /\ UNCHANGED <<loginVars, loopVars>>
    BY <1>1 DEF Logout
  <2>2. TypeOK' /\ LoopsEnsure'
    BY <2>1, StepToMoves DEF ManagerInv, TypeOK, LoopsEnsure, loopVars, loginVars, Steps, CallerSteps
  <2>3. StopHasTarget' /\ NoOrphanLoop'
    BY SMTT(20), <2>1, StepToMoves, LoopsUntouched DEF ManagerInv, CallerSteps
  <2>4. InFlight' /\ WokenHeard'
    BY <2>1, RequestsStay DEF loginVars, CallerSteps
  <2>. QED
    BY <2>2, <2>3, <2>4 DEF ManagerInv
<1>2. CASE /\ pc[c] = "logout" /\ StepTo(c, "idle")
           /\ UNCHANGED <<loginVars, loopVars>>
  <2>2. TypeOK' /\ LoopsEnsure'
    BY <1>2, StepToMoves DEF ManagerInv, TypeOK, LoopsEnsure, loopVars, loginVars, Steps, CallerSteps
  <2>3. StopHasTarget' /\ NoOrphanLoop'
    BY SMTT(20), <1>2, StepToMoves, LoopsUntouched DEF ManagerInv, CallerSteps
  <2>4. InFlight' /\ WokenHeard'
    BY <1>2, RequestsStay DEF loginVars, CallerSteps
  <2>. QED
    BY <2>2, <2>3, <2>4 DEF ManagerInv
<1>3. CASE /\ pc[c] = "logout" /\ Broadcast(c, "idle")
           /\ state' = "out" /\ loginErr' = "nil"
           /\ cut' = (cut \/ Requesting # {} \/ \E g \in Goroutines : Waiting(g))
           /\ UNCHANGED <<op, heard, loopVars>>
  <2>1. /\ pc' \in [Goroutines -> Steps]
        /\ pc'[c] = "idle"
        /\ \A h \in Goroutines \ {c} : pc'[h] = IF pc[h] = "wait" THEN "woken" ELSE pc[h]
        /\ \A d \in Callers : pc'[d] \in CallerSteps
        /\ \A l \in Loops : pc'[l] \in LoopSteps
    BY <1>3, BroadcastWakes DEF ManagerInv, CallerSteps
  <2>2. cut' \in BOOLEAN
    BY <1>3
  <2>3. TypeOK' /\ LoopsEnsure'
    BY <1>3, <2>1, <2>2 DEF ManagerInv, TypeOK, LoopsEnsure, loopVars, Steps
  <2>4. StopHasTarget' /\ NoOrphanLoop'
    BY <1>3, <2>1, LoopsUntouched
  <2>5. ~cut' => Requesting = {} /\ \A g \in Goroutines : ~Waiting(g)
    BY <1>3
  <2>6. InFlight'
    BY <1>3, <2>1, <2>5 DEF InFlight, Requesting
  <2>7. WokenHeard'
    BY <2>1, <2>5 DEF WokenHeard, Waiting
  <2>. QED
    BY <2>3, <2>4, <2>6, <2>7 DEF ManagerInv
<1>. QED
  BY <1>1, <1>2, <1>3 DEF LogoutReply, loginVars

-----------------------------------------------------------------------------
\* StartKeepAlive registers the loop it starts, nothing being registered.
LEMMA StartIInv ==
    ASSUME ManagerInv, NEW c \in Callers, StartKeepAlive(c)
    PROVE  ManagerInv'
<1>1. PICK l \in Loops : pc[l] = "unused" /\ ka' = l /\ StepTo(l, "select")
  BY DEF StartKeepAlive
<1>2. ka = None /\ UNCHANGED <<loginVars, stopped, target>>
  BY DEF StartKeepAlive
<1>3. l \in Goroutines /\ l \notin Callers
  BY ManagerAssumption DEF Goroutines
<1>4. /\ pc' \in [Goroutines -> Steps] /\ pc'[l] = "select"
      /\ \A h \in Goroutines \ {l} : pc'[h] = pc[h]
      /\ \A d \in Callers : pc'[d] \in CallerSteps
      /\ \A k \in Loops : pc'[k] \in LoopSteps
  BY <1>1, <1>3, StepToMoves DEF ManagerInv, LoopSteps
<1>5. \A d \in Callers : pc'[d] = pc[d]
  BY <1>3, <1>4 DEF Goroutines
<1>6. TypeOK' /\ LoopsEnsure'
  BY <1>1, <1>2, <1>4 DEF ManagerInv, TypeOK, LoopsEnsure, loginVars, Steps
<1>7. InFlight' /\ WokenHeard'
  BY <1>1, <1>2, <1>4, LoginUntouched
<1>8. StopHasTarget'
  BY <1>2, <1>5 DEF ManagerInv, StopHasTarget
<1>9. NoOrphanLoop'
  <2>. SUFFICES ASSUME NEW k \in Loops, pc'[k] \notin {"unused", "closing", "gone"}, k # l
                PROVE  k \in stopped \/ \E d \in Callers : pc[d] = "stopCancel" /\ target[d] = k
    BY SMTT(20), <1>1, <1>2, <1>5 DEF NoOrphanLoop
  <2>1. pc[k] \notin {"unused", "closing", "gone"} /\ ka # k
    BY <1>2, <1>4, ManagerAssumption DEF Goroutines
  <2>. QED
    BY <2>1 DEF ManagerInv, NoOrphanLoop
<1>. QED
  BY <1>6, <1>7, <1>8, <1>9 DEF ManagerInv

\* StopKeepAlive: the loop it unregisters is its target until it is cancelled.
LEMMA StopIInv ==
    ASSUME ManagerInv, NEW c \in Callers, StopKeepAlive(c) \/ StopCancel(c) \/ StopDone(c)
    PROVE  ManagerInv'
<1>. c \in Goroutines
  BY DEF Goroutines
<1>1. PICK step \in {"stopCancel", "stopWait", "idle"} : StepTo(c, step)
  BY DEF StopKeepAlive, StopCancel, StopDone
<1>2. UNCHANGED loginVars /\ pc[c] \in {"idle", "stopCancel", "stopWait"}
  BY DEF StopKeepAlive, StopCancel, StopDone
<1>3. /\ pc' \in [Goroutines -> Steps] /\ pc'[c] = step
      /\ \A h \in Goroutines \ {c} : pc'[h] = pc[h]
      /\ \A d \in Callers : pc'[d] \in CallerSteps
      /\ \A k \in Loops : pc'[k] \in LoopSteps
  BY <1>1, StepToMoves DEF ManagerInv, CallerSteps
<1>4. \A k \in Loops : pc'[k] = pc[k]
  BY <1>3, ManagerAssumption DEF Goroutines
<1>5. \A d \in Callers \ {c} : pc'[d] = pc[d] /\ target'[d] = target[d]
  BY <1>3 DEF ManagerInv, TypeOK, StopKeepAlive, StopCancel, StopDone, Goroutines
<1>6. /\ ka' \in Loops \cup {None} /\ stopped' \subseteq Loops
      /\ target' \in [Callers -> Loops \cup {None}]
  BY DEF ManagerInv, TypeOK, StopHasTarget, StopKeepAlive, StopCancel, StopDone
<1>7. TypeOK' /\ LoopsEnsure'
  BY <1>2, <1>3, <1>6 DEF ManagerInv, TypeOK, LoopsEnsure, loginVars, Steps
<1>8. InFlight' /\ WokenHeard'
  BY <1>2, <1>3, LoginUntouched
<1>9. CASE StopKeepAlive(c)
  <2>1. /\ pc[c] = "idle" /\ pc'[c] = "stopCancel"
        /\ ka \in Loops /\ target'[c] = ka /\ stopped' = stopped
    BY <1>9, <1>1, <1>3 DEF StopKeepAlive, StepTo, ManagerInv, TypeOK
  <2>2. StopHasTarget'
    BY <1>5, <2>1 DEF ManagerInv, StopHasTarget
  <2>3. NoOrphanLoop'
    BY SMTT(20), <1>4, <1>5, <2>1 DEF ManagerInv, NoOrphanLoop
  <2>. QED
    BY <1>7, <1>8, <2>2, <2>3 DEF ManagerInv
<1>10. CASE StopCancel(c)
  <2>1. /\ pc[c] = "stopCancel" /\ pc'[c] = "stopWait"
        /\ ka' = ka /\ target' = target /\ stopped' = stopped \cup {target[c]}
    BY <1>10, <1>3 DEF StopCancel, StepTo, ManagerInv, TypeOK
  <2>2. StopHasTarget'
    BY <1>5, <2>1 DEF ManagerInv, StopHasTarget
  <2>3. NoOrphanLoop'
    BY SMTT(20), <1>4, <1>5, <2>1 DEF ManagerInv, NoOrphanLoop
  <2>. QED
    BY <1>7, <1>8, <2>2, <2>3 DEF ManagerInv
<1>11. CASE StopDone(c)
  <2>1. pc[c] = "stopWait" /\ pc'[c] = "idle" /\ ka' = ka /\ stopped' = stopped
    BY <1>11, <1>3 DEF StopDone, StepTo, ManagerInv, TypeOK
  <2>2. StopHasTarget'
    BY <1>5, <2>1 DEF ManagerInv, StopHasTarget
  <2>3. NoOrphanLoop'
    BY SMTT(20), <1>4, <1>5, <2>1 DEF ManagerInv, NoOrphanLoop
  <2>. QED
    BY <1>7, <1>8, <2>2, <2>3 DEF ManagerInv
<1>. QED
  BY <1>9, <1>10, <1>11

\* The loop's own steps, and the end of its context.
LEMMA LoopIInv ==
    ASSUME ManagerInv, NEW l \in Loops,
           ContextDone(l) \/ PollReply(l) \/ LoopExit(l) \/ LoopClear(l)
    PROVE  ManagerInv'
<1>. l \in Goroutines /\ l \notin Callers
  BY ManagerAssumption DEF Goroutines
<1>1. UNCHANGED loginVars /\ target' = target
  BY DEF ContextDone, PollReply, LoopExit, LoopClear, loopVars
<1>2. /\ pc' \in [Goroutines -> Steps]
      /\ pc'[l] \in {pc[l], "select", "closing", "gone"}
      /\ \A h \in Goroutines \ {l} : pc'[h] = pc[h]
      /\ \A d \in Callers : pc'[d] \in CallerSteps
      /\ \A k \in Loops : pc'[k] \in LoopSteps
  <2>1. CASE ContextDone(l)
    BY <2>1 DEF ContextDone, ManagerInv, TypeOK, Steps
  <2>2. CASE PollReply(l) \/ LoopExit(l) \/ LoopClear(l)
    BY <2>2, StepToMoves DEF PollReply, LoopExit, LoopClear, ManagerInv, LoopSteps
  <2>. QED
    BY <2>1, <2>2
<1>3. \A d \in Callers : pc'[d] = pc[d]
  BY <1>2 DEF Goroutines
<1>4. /\ ka' = ka \/ (ka = l /\ pc'[l] = "gone")
      /\ ka' \in Loops \cup {None}
  BY <1>2 DEF ContextDone, PollReply, LoopExit, LoopClear, loopVars, StepTo, ManagerInv, TypeOK
<1>5. stopped \subseteq stopped' /\ stopped' \subseteq Loops
  BY DEF ContextDone, PollReply, LoopExit, LoopClear, loopVars, ManagerInv, TypeOK
<1>6. TypeOK' /\ LoopsEnsure'
  BY <1>1, <1>2, <1>4, <1>5 DEF ManagerInv, TypeOK, LoopsEnsure, loginVars, Steps
<1>7. pc'[l] = pc[l] \/ pc[l] \in {"poll", "select", "closing"}
  BY DEF ContextDone, PollReply, LoopExit, LoopClear
<1>8. InFlight' /\ WokenHeard'
  BY <1>1, <1>2, <1>7, LoginUntouched
<1>9. StopHasTarget'
  BY <1>1, <1>3 DEF ManagerInv, StopHasTarget
<1>10. \A k \in Loops : pc'[k] \notin {"unused", "closing", "gone"}
                           => pc[k] \notin {"unused", "closing", "gone"}
  <2>1. pc'[l] = "select" => pc[l] \in {"select", "poll"} \/ pc'[l] = pc[l]
    BY DEF ContextDone, PollReply, LoopExit, LoopClear, StepTo, ManagerInv, TypeOK
  <2>. QED
    BY <1>2, <2>1 DEF Goroutines
<1>11. NoOrphanLoop'
  BY SMTT(20), <1>1, <1>3, <1>4, <1>5, <1>10 DEF ManagerInv, NoOrphanLoop
<1>. QED
  BY <1>6, <1>8, <1>9, <1>11 DEF ManagerInv

-----------------------------------------------------------------------------
LEMMA StepManagerInv == ManagerInv /\ [ManagerNext]_managerVars => ManagerInv'
<1>. SUFFICES ASSUME ManagerInv, [ManagerNext]_managerVars PROVE ManagerInv'
  OBVIOUS
<1>1. CASE UNCHANGED managerVars
  BY <1>1 DEF managerVars, ManagerInv, TypeOK, LoopsEnsure, InFlight, Requesting, WokenHeard,
              StopHasTarget, NoOrphanLoop
<1>2. ASSUME NEW c \in Callers, EnsureLoggedIn(c) \/ ReLoginEnsure(c) PROVE ManagerInv'
  BY <1>2, EnsureIInv DEF EnsureLoggedIn, ReLoginEnsure, Goroutines
<1>3. ASSUME NEW c \in Callers, Login(c) \/ ReLogin(c) PROVE ManagerInv'
  BY <1>3, LoginIInv
<1>4. ASSUME NEW c \in Callers, Logout(c) \/ LogoutReply(c) PROVE ManagerInv'
  BY <1>4, LogoutIInv
<1>5. ASSUME NEW c \in Callers, StartKeepAlive(c) PROVE ManagerInv'
  BY <1>5, StartIInv
<1>6. ASSUME NEW c \in Callers, StopKeepAlive(c) \/ StopCancel(c) \/ StopDone(c) PROVE ManagerInv'
  BY <1>6, StopIInv
<1>7. ASSUME NEW g \in Goroutines, FinishLogin(g) PROVE ManagerInv'
  BY <1>7, FinishIInv
<1>8. ASSUME NEW l \in Loops, EnsureLoggedIn(l) PROVE ManagerInv'
  BY <1>8, EnsureIInv DEF EnsureLoggedIn, Goroutines
<1>9. ASSUME NEW l \in Loops, ContextDone(l) \/ PollReply(l) \/ LoopExit(l) \/ LoopClear(l)
      PROVE  ManagerInv'
  BY <1>9, LoopIInv
<1>10. ASSUME NEW g \in Goroutines, WaitAgain(g) \/ WaitOver(g) PROVE ManagerInv'
  BY <1>10, WokenIInv
<1>11. Callers \subseteq Goroutines /\ Loops \subseteq Goroutines
  BY DEF Goroutines
<1>. QED
  BY <1>1, <1>2, <1>3, <1>4, <1>5, <1>6, <1>7, <1>8, <1>9, <1>10, <1>11
  DEF ManagerNext, CallerProgress, LoopProgress

LEMMA AlwaysManagerInv == ManagerSpec => []ManagerInv
BY InitManagerInv, StepManagerInv, PTL DEF ManagerSpec

\* The state machine says LoggingIn exactly while one login request is in flight,
\* and none is otherwise, as long as no Logout was acknowledged amid one: for any
\* number of goroutines in Login, ReLogin, EnsureLoggedIn and the keep-alive loops.
THEOREM LoggingInMeansOneRequest == ManagerSpec => []OneLoginInFlight
<1>1. ManagerInv => OneLoginInFlight
  <2>. SUFFICES ASSUME ManagerInv, ~cut
                PROVE  Cardinality(Requesting) = IF state = "ing" THEN 1 ELSE 0
    BY DEF OneLoginInFlight
  <2>1. CASE state = "ing"
    <3>1. PICK g \in Goroutines : Requesting = {g}
      BY <2>1 DEF ManagerInv, InFlight
    <3>. QED
      BY <2>1, <3>1, FS_Singleton
  <2>2. CASE state # "ing"
    BY <2>2, FS_EmptySet DEF ManagerInv, InFlight
  <2>. QED
    BY <2>1, <2>2
<1>. QED
  BY <1>1, AlwaysManagerInv, PTL

\* A goroutine that waited in EnsureLoggedIn returns the outcome of a login that
\* ended during its wait (loginErr), with the same proviso.
THEOREM FollowersHearTheirLogin == ManagerSpec => []FollowerHearsAnOutcome
<1>1. ManagerInv => FollowerHearsAnOutcome
  BY DEF ManagerInv, WokenHeard, FollowerHearsAnOutcome
<1>. QED
  BY <1>1, AlwaysManagerInv, PTL

\* No keep-alive loop polls beyond the reach of StopKeepAlive, however many are
\* started, stopped and replaced while earlier ones are still ending.
THEOREM EveryLoopIsStoppable == ManagerSpec => []NoOrphanLoop
<1>1. ManagerInv => NoOrphanLoop
  BY DEF ManagerInv
<1>. QED
  BY <1>1, AlwaysManagerInv, PTL

-----------------------------------------------------------------------------
(* The stream client.                                                      *)

Active(r) == connect[r] \in {"dialling", "dialled", "ready"}
Running(r) == run[r] # "off"

\* Who has a connection in its hand that it has not stored yet.
Holds(r) == connect[r] = "dialled" \/ run[r] \in {"store", "restore"}

\* A Run between the loss of one connection and the storing of the next.
Without(r) == run[r] \in {"dial", "store", "broken", "redial", "resleep", "restore"}

RunSteps == {"off", "top", "dial", "sleep", "store", "read", "broken", "redial", "resleep",
             "restore", "hook", "restore market", "restore trade", "exit"}

Shape ==
    /\ connect \in [Runners -> {"idle", "dialling", "dialled", "ready", "over"}]
    /\ run \in [Runners -> RunSteps]
    /\ held \in [Runners -> Nat]
    /\ conn \in Nat /\ dials \in Nat /\ open \subseteq Nat \ {0}
    /\ \A r \in Runners : connect[r] # "over" => ~Running(r)

\* Without overlapping Connects: one call is under way before the Run is
\* started and none after, and the Run alone stores connections then.
Alone ==
    ~overlap =>
        /\ \A r, q \in Runners : Active(r) /\ Active(q) => r = q
        /\ \A r, q \in Runners : Running(r) /\ Running(q) => r = q
        /\ \A r \in Runners : Active(r) => ~started
        /\ \A r \in Runners : Running(r) => started
        /\ \A r \in Runners : Without(r) => conn = NoConn

\* Every open connection is the client's, in somebody's hand, or crossed Close.
Accounted ==
    ~overlap => \A c \in open :
        c = conn \/ c \in crossed \/ \E r \in Runners : Holds(r) /\ held[r] = c

\* How far Close is, and what that leaves possible.
Closing ==
    /\ shut # "open" => sclosed
    /\ shut \in {"sweep", "done"} => closed
    /\ swept <=> shut = "done"
    /\ swept => conn = NoConn \/ conn \in crossed
    /\ closer = "returned" => shut = "done" /\ \A r \in Runners : run[r] \in {"off", "exit"}

\* The inductive invariant.
IInv == Shape /\ Alone /\ Accounted /\ Closing

LEMMA InitIInv == Init => IInv
<1>. SUFFICES ASSUME Init PROVE IInv
  OBVIOUS
<1>1. Shape
  BY DEF Init, ConnInit, Shape, Running, NoConn, RunSteps
<1>2. ~overlap /\ ~swept /\ ~started
  BY DEF Init, ConnInit
<1>3. Alone /\ Accounted
  BY DEF Init, ConnInit, Alone, Accounted, Active, Running, Without
<1>4. Closing
  BY <1>2 DEF Init, ConnInit, Closing
<1>. QED
  BY <1>1, <1>3, <1>4 DEF IInv

-----------------------------------------------------------------------------
(* Connect                                                                 *)

LEMMA ConnectCallsIInv ==
    ASSUME IInv, NEW r \in Runners, ConnectCalls(r)
    PROVE  IInv'
<1>1. connect[r] = "idle"
  BY NoOneAssumption DEF ConnectCalls, NextRunner, Connecting
<1>2. UNCHANGED <<connVars, started, sclosed, shut, closer>>
  BY DEF ConnectCalls
<1>3. CASE sclosed \/ started
  <2>1. connect' = [connect EXCEPT ![r] = "over"] /\ overlap' = overlap
    BY <1>3 DEF ConnectCalls
  <2>2. Shape'
    BY <1>1, <1>2, <2>1 DEF IInv, Shape, Running, connVars
  <2>3. \A q \in Runners : /\ Active(q)' => Active(q)
                           /\ Running(q)' <=> Running(q)
                           /\ Without(q)' <=> Without(q)
                           /\ Holds(q)' <=> Holds(q)
    BY <1>1, <1>2, <2>1 DEF IInv, Shape, Active, Running, Without, Holds, connVars
  <2>4. Alone' /\ Accounted'
    BY <1>2, <2>1, <2>3 DEF IInv, Alone, Accounted, connVars
  <2>5. Closing'
    BY <1>2 DEF IInv, Closing, connVars
  <2>. QED
    BY <2>2, <2>4, <2>5 DEF IInv
<1>4. CASE ~(sclosed \/ started)
  <2>1. /\ connect' = [connect EXCEPT ![r] = "dialling"]
        /\ overlap' = (overlap \/ \E q \in Runners : Active(q))
    BY <1>4 DEF ConnectCalls, Active
  <2>2. Shape'
    BY <1>1, <1>2, <2>1 DEF IInv, Shape, Running, connVars
  <2>3. \A q \in Runners : /\ Active(q)' => Active(q) \/ q = r
                           /\ Running(q)' <=> Running(q)
                           /\ Without(q)' <=> Without(q)
                           /\ Holds(q)' <=> Holds(q)
    BY <1>1, <1>2, <2>1 DEF IInv, Shape, Active, Running, Without, Holds, connVars
  <2>4. ~overlap' => ~overlap /\ \A q \in Runners : ~Active(q)
    BY <2>1
  <2>5. Alone'
    BY <1>2, <1>4, <2>3, <2>4 DEF IInv, Alone, connVars
  <2>6. Accounted'
    BY <1>2, <2>3, <2>4 DEF IInv, Accounted, connVars
  <2>7. Closing'
    BY <1>2 DEF IInv, Closing, connVars
  <2>. QED
    BY <2>2, <2>5, <2>6, <2>7 DEF IInv
<1>. QED
  BY <1>3, <1>4

LEMMA PushConnectDialsIInv ==
    ASSUME IInv, NEW r \in Runners, PushConnectDials(r)
    PROVE  IInv'
<1>1. connect[r] = "dialling" /\ UNCHANGED <<started, sclosed, shut, closer, overlap>>
  BY DEF PushConnectDials
<1>2. CASE connect' = [connect EXCEPT ![r] = "ready"] /\ UNCHANGED connVars
  <2>1. Shape'
    BY <1>1, <1>2 DEF IInv, Shape, Running, connVars
  <2>2. \A q \in Runners : /\ Active(q)' <=> Active(q)
                           /\ Running(q)' <=> Running(q)
                           /\ Without(q)' <=> Without(q)
                           /\ Holds(q)' <=> Holds(q)
    BY <1>1, <1>2 DEF IInv, Shape, Active, Running, Without, Holds, connVars
  <2>3. Alone' /\ Accounted'
    BY <1>1, <1>2, <2>2 DEF IInv, Alone, Accounted, connVars
  <2>4. Closing'
    BY <1>1, <1>2 DEF IInv, Closing, connVars
  <2>. QED
    BY <2>1, <2>3, <2>4 DEF IInv
<1>3. CASE /\ DialOk(r) /\ connect' = [connect EXCEPT ![r] = "dialled"]
           /\ UNCHANGED <<conn, closed, swept, cancelled, watch, run, crossed>>
  <2>1. Shape'
    BY SMTT(20), <1>1, <1>3 DEF IInv, Shape, Running, DialOk
  <2>2. \A q \in Runners : /\ Active(q)' <=> Active(q)
                           /\ Running(q)' <=> Running(q)
                           /\ Without(q)' <=> Without(q)
    BY <1>1, <1>3 DEF IInv, Shape, Active, Running, Without
  <2>3. Alone'
    BY <1>1, <1>3, <2>2 DEF IInv, Alone
  <2>4. ~Holds(r)
    BY <1>1 DEF IInv, Shape, Holds, Running
  <2>5. Holds(r)' /\ held'[r] = dials'
    BY <1>3 DEF IInv, Shape, Holds, DialOk
  <2>6. \A q \in Runners : Holds(q) => Holds(q)' /\ held'[q] = held[q]
    BY <1>3, <2>4 DEF IInv, Shape, Holds, DialOk
  <2>7. Accounted'
    BY <1>1, <1>3, <2>5, <2>6 DEF IInv, Accounted, DialOk
  <2>8. Closing'
    BY <1>1, <1>3 DEF IInv, Closing
  <2>. QED
    BY <2>1, <2>3, <2>7, <2>8 DEF IInv
<1>. QED
  BY <1>2, <1>3 DEF PushConnectDials

LEMMA PushConnectStoresIInv ==
    ASSUME IInv, NEW r \in Runners, PushConnectStores(r)
    PROVE  IInv'
<1>1. /\ connect[r] = "dialled"
      /\ UNCHANGED <<dials, closed, swept, run, crossed, started, sclosed, shut, closer, overlap>>
      /\ held' = [held EXCEPT ![r] = NoConn]
  BY DEF PushConnectStores
<1>2. PICK to \in {"over", "ready"} : connect' = [connect EXCEPT ![r] = to]
  BY DEF PushConnectStores
<1>3. open' \subseteq open
  BY DEF PushConnectStores
<1>4. Shape'
  <2>1. conn' \in Nat
    BY DEF PushConnectStores, IInv, Shape
  <2>. QED
    BY <1>1, <1>2, <1>3, <2>1 DEF IInv, Shape, Running, NoConn
<1>5. \A q \in Runners : /\ Active(q)' => Active(q)
                         /\ Running(q)' <=> Running(q)
                         /\ Without(q)' <=> Without(q)
  BY <1>1, <1>2 DEF IInv, Shape, Active, Running, Without
<1>6. \A q \in Runners \ {r} : (Holds(q)' <=> Holds(q)) /\ held'[q] = held[q]
  BY <1>1, <1>2 DEF IInv, Shape, Holds
<1>7. ~overlap => \A q \in Runners : ~Without(q)
  BY <1>1 DEF IInv, Alone, Active, Running, Without
<1>8. Alone'
  BY <1>1, <1>5, <1>7 DEF IInv, Alone
<1>9. CASE closed \/ conn # NoConn
  <2>1. open' = open \ {held[r]} /\ conn' = conn
    BY <1>9 DEF PushConnectStores
  <2>2. Accounted'
    BY <1>1, <1>6, <2>1 DEF IInv, Accounted
  <2>3. Closing'
    BY <1>1, <2>1 DEF IInv, Closing
  <2>. QED
    BY <1>4, <1>8, <2>2, <2>3 DEF IInv
<1>10. CASE ~closed /\ conn = NoConn
  <2>1. conn' = held[r] /\ open' = open
    BY <1>10 DEF PushConnectStores
  <2>2. NoConn \notin open
    BY DEF IInv, Shape, NoConn
  <2>3. Accounted'
    BY <1>1, <1>6, <1>10, <2>1, <2>2 DEF IInv, Accounted
  <2>4. Closing'
    BY <1>1, <1>10, <2>1 DEF IInv, Closing
  <2>. QED
    BY <1>4, <1>8, <2>3, <2>4 DEF IInv
<1>. QED
  BY <1>9, <1>10

LEMMA ConnectFailsIInv ==
    ASSUME IInv, NEW r \in Runners, ConnectFails(r)
    PROVE  IInv'
<1>1. /\ connect[r] = "dialling" /\ connect' = [connect EXCEPT ![r] = "over"]
      /\ UNCHANGED <<conn, open, dials, closed, swept, run, held, crossed,
                     started, sclosed, shut, closer, overlap>>
  BY DEF ConnectFails
<1>2. Shape'
  BY <1>1 DEF IInv, Shape, Running
<1>3. \A q \in Runners : /\ Active(q)' => Active(q)
                         /\ Running(q)' <=> Running(q)
                         /\ Without(q)' <=> Without(q)
                         /\ Holds(q)' <=> Holds(q)
  BY <1>1 DEF IInv, Shape, Active, Running, Without, Holds
<1>4. Alone' /\ Accounted'
  BY <1>1, <1>3 DEF IInv, Alone, Accounted
<1>5. Closing'
  BY <1>1 DEF IInv, Closing
<1>. QED
  BY <1>2, <1>4, <1>5 DEF IInv

LEMMA ConnectStartsIInv ==
    ASSUME IInv, NEW r \in Runners, ConnectStarts(r)
    PROVE  IInv'
<1>1. /\ connect[r] = "ready" /\ connect' = [connect EXCEPT ![r] = "over"]
      /\ UNCHANGED <<conn, open, dials, closed, swept, held, crossed,
                     sclosed, shut, closer, overlap>>
  BY DEF ConnectStarts
<1>2. \A q \in Runners : Active(q)' => Active(q) /\ q # r
  BY <1>1 DEF IInv, Shape, Active
<1>3. CASE sclosed
  <2>1. UNCHANGED <<started, run>>
    BY <1>3 DEF ConnectStarts
  <2>2. Shape'
    BY <1>1, <2>1 DEF IInv, Shape, Running
  <2>3. \A q \in Runners : /\ Running(q)' <=> Running(q)
                           /\ Without(q)' <=> Without(q)
                           /\ Holds(q)' <=> Holds(q)
    BY <1>1, <2>1 DEF IInv, Shape, Running, Without, Holds
  <2>4. Alone' /\ Accounted'
    BY <1>1, <1>2, <2>1, <2>3 DEF IInv, Alone, Accounted
  <2>5. Closing'
    BY <1>1, <2>1 DEF IInv, Closing
  <2>. QED
    BY <2>2, <2>4, <2>5 DEF IInv
<1>4. CASE ~sclosed
  <2>1. started' = TRUE /\ run' = [run EXCEPT ![r] = "top"]
    BY <1>4 DEF ConnectStarts, Start, Goto
  <2>2. Shape'
    BY <1>1, <2>1 DEF IInv, Shape, Running, RunSteps
  <2>3. \A q \in Runners : /\ Running(q)' => Running(q) \/ q = r
                           /\ Without(q)' => Without(q)
                           /\ Holds(q)' <=> Holds(q)
    <3>1. run[r] = "off"
      BY <1>1 DEF IInv, Shape, Running
    <3>. QED
      BY <1>1, <2>1, <3>1 DEF IInv, Shape, Running, Without, Holds
  <2>4. ~overlap => \A q \in Runners : ~Running(q) /\ (Active(q) => q = r)
    BY <1>1 DEF IInv, Alone, Active
  <2>5. Alone'
    BY <1>1, <1>2, <2>1, <2>3, <2>4 DEF IInv, Alone
  <2>6. Accounted'
    BY <1>1, <2>3 DEF IInv, Accounted
  <2>7. Closing'
    BY <1>1, <1>4 DEF IInv, Closing
  <2>. QED
    BY <2>2, <2>5, <2>6, <2>7 DEF IInv
<1>. QED
  BY <1>3, <1>4

-----------------------------------------------------------------------------
(* Run                                                                     *)

\* A step of a Run that neither takes a connection into its hand nor stores one.
LEMMA RunMoves ==
    ASSUME IInv, NEW r \in Runners, NEW to \in RunSteps \ {"off", "store", "restore"},
           Goto(r, to), run[r] \notin {"off", "exit", "store", "restore"},
           held' \in [Runners -> Nat], \A q \in Runners \ {r} : held'[q] = held[q],
           \/ UNCHANGED <<conn, open>>
           \/ conn' = NoConn /\ open' = open \ {conn},
           to \in {"dial", "broken", "redial", "resleep"} => conn' = NoConn \/ overlap,
           UNCHANGED <<dials, closed, swept, crossed,
                       connect, started, sclosed, shut, closer, overlap>>
    PROVE  IInv'
<1>1. run' = [run EXCEPT ![r] = to]
  BY DEF Goto
<1>2. Shape'
  <2>1. conn' \in Nat
    BY SMTT(20) DEF IInv, Shape, NoConn
  <2>2. open' \subseteq open
    OBVIOUS
  <2>3. open' \subseteq Nat \ {0}
    BY <2>2 DEF IInv, Shape
  <2>. QED
    BY <1>1, <2>1, <2>3 DEF IInv, Shape, Running
<1>3. \A q \in Runners : /\ Active(q)' <=> Active(q)
                         /\ Running(q)' <=> Running(q)
                         /\ Without(q)' => Without(q) \/ (q = r /\ conn' = NoConn) \/ overlap
  BY <1>1 DEF IInv, Shape, Active, Running, Without
<1>4. Alone'
  BY <1>3 DEF IInv, Alone
<1>5. connect[r] # "dialled" /\ ~Holds(r)
  BY DEF IInv, Shape, Holds, Running
<1>6. \A q \in Runners : Holds(q) => Holds(q)' /\ held'[q] = held[q]
  BY <1>1, <1>5 DEF IInv, Shape, Holds
<1>7. Accounted'
  BY <1>6 DEF IInv, Accounted
<1>8. closer # "returned"
  BY DEF IInv, Closing
<1>9. Closing'
  BY <1>8 DEF IInv, Closing
<1>. QED
  BY <1>2, <1>4, <1>7, <1>9 DEF IInv

LEMMA DialledIInv ==
    ASSUME IInv, NEW r \in Runners, Dialled(r), UNCHANGED lifeVars
    PROVE  IInv'
<1>1. /\ run[r] \in {"dial", "redial"} /\ DialOk(r)
      /\ UNCHANGED <<conn, closed, swept, crossed, lifeVars>>
  BY DEF Dialled
<1>2. PICK to \in {"store", "restore"} : run' = [run EXCEPT ![r] = to]
  BY DEF Dialled, Goto
<1>3. Shape'
  <2>1. dials' \in Nat /\ open' \subseteq Nat \ {0} /\ held' \in [Runners -> Nat]
    BY SMTT(20), <1>1 DEF IInv, Shape, DialOk
  <2>2. run' \in [Runners -> RunSteps] /\ \A q \in Runners : Running(q)' <=> Running(q)
    BY <1>1, <1>2 DEF IInv, Shape, Running, RunSteps
  <2>. QED
    BY <1>1, <2>1, <2>2 DEF IInv, Shape, lifeVars
<1>4. \A q \in Runners : /\ Active(q)' <=> Active(q)
                         /\ Running(q)' <=> Running(q)
                         /\ Without(q)' <=> Without(q)
  BY <1>1, <1>2 DEF IInv, Shape, Active, Running, Without, lifeVars
<1>5. Alone'
  BY SMTT(20), <1>1, <1>4 DEF IInv, Alone, lifeVars
<1>6. ~Holds(r)
  BY <1>1 DEF IInv, Shape, Holds, Running
<1>7. Holds(r)' /\ held'[r] = dials'
  BY <1>1, <1>2 DEF IInv, Shape, Holds, DialOk
<1>8. \A q \in Runners : Holds(q) => Holds(q)' /\ held'[q] = held[q]
  BY <1>1, <1>2, <1>6 DEF IInv, Shape, Holds, DialOk, lifeVars
<1>9. Accounted'
  BY SMTT(20), <1>1, <1>7, <1>8 DEF IInv, Accounted, DialOk, lifeVars
<1>10. closer # "returned"
  BY <1>1 DEF IInv, Closing
<1>11. Closing'
  BY SMTT(20), <1>1, <1>10 DEF IInv, Closing, lifeVars
<1>. QED
  BY <1>3, <1>5, <1>9, <1>11 DEF IInv

\* The client has no connection when its one Run stores one: nothing is lost.
LEMMA StoreIInv ==
    ASSUME IInv, NEW r \in Runners, Store(r), UNCHANGED lifeVars
    PROVE  IInv'
<1>1. /\ run[r] \in {"store", "restore"} /\ setConn(held[r])
      /\ held' = [held EXCEPT ![r] = NoConn]
      /\ UNCHANGED <<open, dials, closed, swept, lifeVars>>
  BY DEF Store
<1>2. PICK to \in {"top", "hook"} : run' = [run EXCEPT ![r] = to]
  BY DEF Store, Goto
<1>3. Shape'
  BY <1>1, <1>2 DEF IInv, Shape, Running, RunSteps, NoConn, setConn, lifeVars
<1>4. \A q \in Runners : /\ Active(q)' <=> Active(q)
                         /\ Running(q)' <=> Running(q)
                         /\ Without(q)' => Without(q) /\ q # r
  BY <1>1, <1>2 DEF IInv, Shape, Active, Running, Without, lifeVars
<1>5. ~overlap => conn = NoConn /\ \A q \in Runners : Running(q) => q = r
  BY <1>1 DEF IInv, Alone, Without, Running
<1>6. \A q \in Runners : Without(q) => Running(q)
  BY DEF Without, Running
<1>7. Alone'
  BY SMTT(20), <1>1, <1>4, <1>5, <1>6 DEF IInv, Alone, lifeVars
<1>8. \A q \in Runners \ {r} : (Holds(q)' <=> Holds(q)) /\ held'[q] = held[q]
  BY <1>1, <1>2 DEF IInv, Shape, Holds, lifeVars
<1>9. NoConn \notin open
  BY DEF IInv, Shape, NoConn
<1>10. conn' = held[r] /\ crossed \subseteq crossed' /\ (swept => held[r] \in crossed')
  BY <1>1 DEF setConn
<1>11. Accounted'
  BY SMTT(20), <1>1, <1>5, <1>8, <1>9, <1>10 DEF IInv, Accounted, lifeVars
<1>12. closer # "returned"
  BY <1>1 DEF IInv, Closing
<1>13. Closing'
  BY SMTT(20), <1>1, <1>10, <1>12 DEF IInv, Closing, lifeVars
<1>. QED
  BY <1>3, <1>7, <1>11, <1>13 DEF IInv

LEMMA RunnerStepIInv ==
    ASSUME IInv, NEW r \in Runners, RunnerStep(r)
    PROVE  IInv'
<1>0. held \in [Runners -> Nat]
  BY DEF IInv, Shape
<1>1. CASE RunStep(r) /\ UNCHANGED lifeVars
  <2>. UNCHANGED <<connect, started, sclosed, shut, closer, overlap>>
    BY <1>1 DEF lifeVars
  <2>1. CASE Top(r)
    <3>1. PICK to \in {"exit", "dial", "read"} :
             Goto(r, to) /\ (to = "dial" => conn = NoConn)
      BY <2>1 DEF Top
    <3>2. held' \in [Runners -> Nat] /\ \A q \in Runners \ {r} : held'[q] = held[q]
      BY <1>0, <2>1 DEF Top, IInv, Shape
    <3>. QED
      BY <2>1, <3>1, <3>2, RunMoves DEF Top, RunSteps
  <2>2. CASE Dialled(r)
    BY <1>1, <2>2, DialledIInv
  <2>3. CASE DialFails(r)
    <3>1. conn = NoConn \/ overlap
      BY <2>3 DEF DialFails, IInv, Alone, Without
    <3>. QED
      BY <1>0, <2>3, <3>1, RunMoves DEF DialFails, RunSteps
  <2>4. CASE sleepCtx(r)
    <3>1. run[r] = "resleep" => conn = NoConn \/ overlap
      BY DEF IInv, Alone, Without
    <3>. QED
      BY <1>0, <2>4, <3>1, RunMoves DEF sleepCtx, RunSteps
  <2>5. CASE Store(r)
    BY <1>1, <2>5, StoreIInv
  <2>6. CASE readLoop(r)
    <3>1. held' \in [Runners -> Nat] /\ \A q \in Runners \ {r} : held'[q] = held[q]
      BY <1>0, <2>6 DEF readLoop, NoConn
    <3>. QED
      BY <2>6, <3>1, RunMoves DEF readLoop, closeConn, RunSteps
  <2>7. CASE Broken(r)
    <3>1. conn = NoConn \/ overlap
      BY <2>7 DEF Broken, IInv, Alone, Without
    <3>. QED
      BY <1>0, <2>7, <3>1, RunMoves DEF Broken, RunSteps
  <2>. QED
    BY <1>1, <2>1, <2>2, <2>3, <2>4, <2>5, <2>6, <2>7 DEF RunStep
<1>2. CASE onReconnect(r)
  BY <1>0, <1>2, RunMoves DEF onReconnect, lifeVars, RunSteps
<1>3. CASE RestoreMarket(r) \/ RestoreTrade(r)
  BY <1>0, <1>3, RunMoves DEF RestoreMarket, RestoreTrade, Restore, lifeVars, RunSteps
<1>. QED
  BY <1>1, <1>2, <1>3 DEF RunnerStep

-----------------------------------------------------------------------------
(* The watcher, Close, and what leaves the life of the connection alone.   *)

\* A connection is closed, by the watcher, by Close or by the peer.
LEMMA ConnectionEnds ==
    ASSUME IInv,
           \/ conn' = NoConn /\ open' = open \ {conn}
           \/ conn' = conn /\ open' \subseteq open,
           UNCHANGED <<dials, run, held, crossed, connect, started, overlap>>
    PROVE  Shape' /\ Alone' /\ Accounted'
<1>1. Shape'
  <2>1. conn' \in Nat
    BY SMTT(20) DEF IInv, Shape, NoConn
  <2>2. open' \subseteq open
    OBVIOUS
  <2>3. open' \subseteq Nat \ {0}
    BY <2>2 DEF IInv, Shape
  <2>. QED
    BY <2>1, <2>3 DEF IInv, Shape, Running
<1>2. \A q \in Runners : /\ Active(q)' <=> Active(q)
                         /\ Running(q)' <=> Running(q)
                         /\ Without(q)' <=> Without(q)
                         /\ Holds(q)' <=> Holds(q)
  BY DEF Active, Running, Without, Holds
<1>3. Alone' /\ Accounted'
  BY <1>2 DEF IInv, Alone, Accounted
<1>. QED
  BY <1>1, <1>3

LEMMA WatcherIInv ==
    ASSUME IInv, NEW r \in Runners, WatcherStep(r)
    PROVE  IInv'
<1>1. /\ UNCHANGED <<dials, closed, swept, run, held, crossed,
                     connect, started, sclosed, shut, closer, overlap>>
      /\ (conn' = NoConn /\ open' = open \ {conn}) \/ UNCHANGED <<conn, open>>
  BY DEF WatcherStep, Watcher, closeConn, lifeVars
<1>2. Shape' /\ Alone' /\ Accounted'
  BY <1>1, ConnectionEnds
<1>3. Closing'
  BY <1>1 DEF IInv, Closing
<1>. QED
  BY <1>2, <1>3 DEF IInv

LEMMA CloseIInv ==
    ASSUME IInv, CloseCalls \/ Shutdown \/ CloseReturns
    PROVE  IInv'
<1>1. /\ UNCHANGED <<dials, run, held, crossed, connect, started, overlap>>
      /\ (conn' = NoConn /\ open' = open \ {conn}) \/ UNCHANGED <<conn, open>>
  BY DEF CloseCalls, Shutdown, ShutdownBegins, ShutdownCancels, ShutdownClosesPush,
         CloseFlag, CloseSweep, closeConn, CloseReturns, connVars
<1>2. Shape' /\ Alone' /\ Accounted'
  BY <1>1, ConnectionEnds
<1>3. CASE CloseCalls
  BY <1>2, <1>3 DEF CloseCalls, connVars, IInv, Closing
<1>4. CASE ShutdownBegins
  BY <1>2, <1>4 DEF ShutdownBegins, connVars, IInv, Closing
<1>5. CASE ShutdownCancels
  BY <1>2, <1>5 DEF ShutdownCancels, IInv, Closing
<1>6. CASE ShutdownClosesPush
  BY SMTT(20), <1>2, <1>6 DEF ShutdownClosesPush, CloseFlag, CloseSweep, closeConn, IInv, Closing
<1>7. CASE CloseReturns
  BY <1>2, <1>7 DEF CloseReturns, connVars, IInv, Closing
<1>. QED
  BY <1>2, <1>3, <1>4, <1>5, <1>6, <1>7 DEF IInv, Shutdown

\* Subscriptions, an ending context and a dropped connection.
LEMMA OthersIInv ==
    ASSUME IInv, conn' = conn, open' \subseteq open,
           UNCHANGED <<dials, closed, swept, run, held, crossed,
                       connect, started, sclosed, shut, closer, overlap>>
    PROVE  IInv'
<1>1. Shape' /\ Alone' /\ Accounted'
  BY ConnectionEnds
<1>2. Closing'
  BY DEF IInv, Closing
<1>. QED
  BY <1>1, <1>2 DEF IInv

LEMMA SubscriptionIInv ==
    ASSUME IInv, NEW s \in Subs,
           \/ SubscribeAsks(s) \/ SubscribeAnswered(s) \/ SubscribeRegisters(s)
           \/ CancelAsks(s) \/ CancelAnswered(s)
    PROVE  IInv'
<1>1. UNCHANGED <<connVars, lifeVars>>
  BY DEF SubscribeAsks, SubscribeAnswered, SubscribeRegisters, CancelAsks, CancelAnswered
<1>. QED
  BY <1>1, OthersIInv DEF connVars, lifeVars

-----------------------------------------------------------------------------
LEMMA StepIInv == IInv /\ [Next]_vars => IInv'
<1>. SUFFICES ASSUME IInv, [Next]_vars PROVE IInv'
  OBVIOUS
<1>1. CASE UNCHANGED vars
  BY <1>1, OthersIInv DEF vars, connVars, lifeVars
<1>2. ASSUME NEW r \in Runners, ConnectCalls(r) PROVE IInv'
  BY <1>2, ConnectCallsIInv
<1>3. ASSUME NEW r \in Runners, PushConnectDials(r) PROVE IInv'
  BY <1>3, PushConnectDialsIInv
<1>4. ASSUME NEW r \in Runners, PushConnectStores(r) PROVE IInv'
  BY <1>4, PushConnectStoresIInv
<1>5. ASSUME NEW r \in Runners, ConnectFails(r) PROVE IInv'
  BY <1>5, ConnectFailsIInv
<1>6. ASSUME NEW r \in Runners, ConnectStarts(r) PROVE IInv'
  BY <1>6, ConnectStartsIInv
<1>7. ASSUME NEW r \in Runners, ContextEnds(r) PROVE IInv'
  BY <1>7, OthersIInv DEF ContextEnds, lifeVars
<1>8. ASSUME NEW r \in Runners, RunnerStep(r) PROVE IInv'
  BY <1>8, RunnerStepIInv
<1>9. ASSUME NEW r \in Runners, WatcherStep(r) PROVE IInv'
  BY <1>9, WatcherIInv
<1>10. CASE CloseCalls \/ Shutdown \/ CloseReturns
  BY <1>10, CloseIInv
<1>11. ASSUME NEW s \in Subs,
              \/ SubscribeAsks(s) \/ SubscribeAnswered(s) \/ SubscribeRegisters(s)
              \/ CancelAsks(s) \/ CancelAnswered(s)
       PROVE  IInv'
  BY <1>11, SubscriptionIInv
<1>12. ASSUME NEW c \in open, Drop(c) PROVE IInv'
  BY <1>12, OthersIInv DEF Drop, PeerDrops, lifeVars
<1>. QED
  BY <1>1, <1>2, <1>3, <1>4, <1>5, <1>6, <1>7, <1>8, <1>9, <1>10, <1>11, <1>12 DEF Next

LEMMA AlwaysIInv == Spec => []IInv
BY InitIInv, StepIInv, PTL DEF Spec

\* However often Connect is called, one Run is started, unless two calls were
\* under way at once (started is tested before the dial and set after it).
THEOREM OneReader == Spec => []OneRun
<1>1. IInv => OneRun
  <2>. DEFINE R == {r \in Runners : run[r] # "off"}
  <2>. SUFFICES ASSUME IInv, ~overlap PROVE ~(Cardinality(R) > 1)
    BY DEF OneRun
  <2>1. \A r, q \in R : r = q
    BY DEF IInv, Alone, Running
  <2>2. CASE R = {}
    <3>1. Cardinality(R) = 0
      BY <2>2, FS_EmptySet
    <3>. QED
      BY SMTT(20), <3>1
  <2>3. CASE R # {}
    <3>1. PICK r \in R : R = {r}
      BY <2>1, <2>3
    <3>2. Cardinality(R) = 1
      BY <3>1, FS_Singleton
    <3>. QED
      BY SMTT(20), <3>2
  <2>. QED
    BY <2>2, <2>3
<1>. QED
  BY <1>1, AlwaysIInv, PTL

\* Close leaves no connection open, however many were dialled, dropped and
\* replaced before it, except one that Run stored after Close had looked, and
\* except where two Connects overlapped.
THEOREM CloseClosesTheConnection == Spec => []NothingLeftOpen
<1>1. IInv => NothingLeftOpen
  <2>. SUFFICES ASSUME IInv, ~overlap, closer = "returned",
                       \A r \in Runners : connect[r] \in {"idle", "over"},
                       NEW c \in open
                PROVE  c \in crossed
    BY DEF NothingLeftOpen
  <2>1. \A r \in Runners : ~Holds(r)
    BY DEF IInv, Closing, Holds
  <2>2. c # NoConn
    BY DEF IInv, Shape, NoConn
  <2>3. conn = NoConn \/ conn \in crossed
    BY DEF IInv, Closing
  <2>. QED
    BY <2>1, <2>2, <2>3 DEF IInv, Accounted
<1>. QED
  BY <1>1, AlwaysIInv, PTL

-----------------------------------------------------------------------------
(* Feeding what is listed                                                  *)

SubSteps == {"idle", "asking", "asked", "live", "leaving", "gone"}

FeedShape ==
    /\ watch \in [Runners -> {"off", "armed", "over"}]
    /\ sub \in [Subs -> SubSteps] /\ subs = {s \in Subs : sub[s] = "live"}
    /\ \E k \in {"market", "trade"} : kind = [s \in Subs |-> k]
    /\ snap \in [Runners -> SUBSET Subs]

\* Before the Run starts nobody subscribes, and Close ends every subscription.
FeedTimes ==
    /\ ~started => \A s \in Subs : sub[s] = "idle"
    /\ sclosed => subs = {}

\* Without overlapping Connects a Run never comes to its first dial loop, the
\* one that calls no hook: it starts with a connection, and finds none at the
\* top only when its context has ended or the client is closed.
ProvidedFor(r) ==
    /\ run[r] \notin {"dial", "sleep", "store"}
    /\ watch[r] = "armed" => Running(r)
    /\ run[r] = "restore" \/ connect[r] = "dialled" => held[r] # NoConn
    /\ connect[r] = "ready" => conn # NoConn \/ closed
    /\ run[r] \in {"top", "read", "hook", "restore market", "restore trade"} =>
          conn # NoConn \/ r \in cancelled \/ closed

Provided == ~overlap => \A r \in Runners : ProvidedFor(r)

\* tradeSubs counts the listed order subscriptions.
Counted ==
    (\A s \in Subs : kind[s] = "trade") => IsFiniteSet(subs) /\ Cardinality(subs) = tradeSubs

\* Every order subscription that is made or listed while a last one is leaving
\* is known to have raced it.
Raced ==
    ~sclosed => \A s, q \in Subs :
        sub[s] = "leaving" /\ kind[s] = "trade" /\ sub[q] \in {"live", "asking", "asked"} => q \in raced

Fed(k) == k \in on \/ k \in lost \/ conn \notin open

\* The connection is being replaced, and the hook has not copied the list yet.
Replacing == \E r \in Runners : run[r] \in {"broken", "redial", "resleep", "restore", "hook"}

\* The hook has copied the list and will ask for k.
ToRestore(k) == \E r \in Runners :
    (run[r] = "restore market" \/ (run[r] = "restore trade" /\ k = "trade")) /\ snap[r] # {}

Hope(k) == Fed(k) \/ Replacing \/ ToRestore(k)

Hopeful ==
    ~overlap /\ started /\ ~sclosed =>
        \A s \in Subs : sub[s] \in {"live", "asked"} => Hope(kind[s])

FedInv == FeedShape /\ FeedTimes /\ Provided /\ Counted /\ Raced /\ Hopeful

\* What a step may do to the subscriptions: nothing, end them all, or take one
\* of them a step further.
Moves(s) == \/ SubscribeAsks(s) \/ SubscribeAnswered(s) \/ SubscribeRegisters(s)
            \/ CancelAsks(s) \/ CancelAnswered(s)

LEMMA SubscriptionSteps ==
    ASSUME [Next]_vars
    PROVE  /\ kind' = kind
           /\ started => started'
           /\ \/ UNCHANGED <<sub, subs, tradeSubs, raced, sclosed>>
              \/ ShutdownBegins
              \/ \E s \in Subs : Moves(s)
<1>1. CASE UNCHANGED vars
  BY <1>1 DEF vars, lifeVars, subVars
<1>2. ASSUME NEW r \in Runners,
             \/ ConnectCalls(r) \/ PushConnectDials(r) \/ PushConnectStores(r)
             \/ ConnectFails(r) \/ ConnectStarts(r) \/ ContextEnds(r)
      PROVE  UNCHANGED <<kind, sub, subs, tradeSubs, raced, sclosed>> /\ (started => started')
  BY SMTT(20), <1>2 DEF ConnectCalls, PushConnectDials, PushConnectStores, ConnectFails, ConnectStarts,
              ContextEnds, lifeVars, subVars
<1>3. ASSUME NEW r \in Runners, RunnerStep(r) \/ WatcherStep(r)
      PROVE  UNCHANGED <<kind, sub, subs, tradeSubs, raced, sclosed, started>>
  BY <1>3 DEF RunnerStep, onReconnect, RestoreMarket, RestoreTrade, Restore, WatcherStep,
              lifeVars, subVars
<1>4. CASE CloseCalls \/ CloseReturns \/ ShutdownCancels \/ ShutdownClosesPush
  BY SMTT(20), <1>4 DEF CloseCalls, CloseReturns, ShutdownCancels, ShutdownClosesPush, subVars
<1>5. CASE ShutdownBegins
  BY <1>5 DEF ShutdownBegins
<1>6. ASSUME NEW s \in Subs, Moves(s)
      PROVE  kind' = kind /\ started' = started
  BY <1>6 DEF Moves, SubscribeAsks, SubscribeAnswered, SubscribeRegisters, CancelAsks,
              CancelAnswered, lifeVars
<1>7. ASSUME NEW c \in open, Drop(c)
      PROVE  UNCHANGED <<kind, sub, subs, tradeSubs, raced, sclosed, started>>
  BY <1>7 DEF Drop, lifeVars
<1>. QED
  BY <1>1, <1>2, <1>3, <1>4, <1>5, <1>6, <1>7 DEF Next, Shutdown, Moves

LEMMA FeedShapeNext == FeedShape /\ [Next]_vars => FeedShape'
<1>. SUFFICES ASSUME FeedShape, [Next]_vars PROVE FeedShape'
  OBVIOUS
<1>1. kind' = kind
  BY SubscriptionSteps
<1>2. sub' \in [Subs -> SubSteps] /\ subs' = {s \in Subs : sub'[s] = "live"}
  <2>1. CASE UNCHANGED <<sub, subs>>
    BY <2>1 DEF FeedShape
  <2>2. CASE ShutdownBegins
    BY <2>2 DEF ShutdownBegins, FeedShape, SubSteps
  <2>3. ASSUME NEW s \in Subs, Moves(s)
        PROVE  sub' \in [Subs -> SubSteps] /\ subs' = {q \in Subs : sub'[q] = "live"}
    <3>1. CASE SubscribeAsks(s)
      BY <3>1 DEF SubscribeAsks, FeedShape, SubSteps
    <3>2. CASE SubscribeAnswered(s)
      BY SMTT(20), <3>2 DEF SubscribeAnswered, FeedShape, SubSteps
    <3>3. CASE SubscribeRegisters(s)
      BY <3>3 DEF SubscribeRegisters, FeedShape, SubSteps
    <3>4. CASE CancelAsks(s)
      BY <3>4 DEF CancelAsks, FeedShape, SubSteps
    <3>5. CASE CancelAnswered(s)
      BY <3>5 DEF CancelAnswered, FeedShape, SubSteps
    <3>. QED
      BY <2>3, <3>1, <3>2, <3>3, <3>4, <3>5 DEF Moves
  <2>. QED
    BY <2>1, <2>2, <2>3, SubscriptionSteps
<1>3. watch' \in [Runners -> {"off", "armed", "over"}] /\ snap' \in [Runners -> SUBSET Subs]
  <2>. watch \in [Runners -> {"off", "armed", "over"}] /\ snap \in [Runners -> SUBSET Subs]
       /\ subs \in SUBSET Subs
    BY DEF FeedShape
  <2>1. CASE UNCHANGED vars
    BY <2>1 DEF vars, connVars
  <2>2. ASSUME NEW r \in Runners,
               \/ ConnectCalls(r) \/ PushConnectDials(r) \/ PushConnectStores(r)
               \/ ConnectFails(r) \/ ConnectStarts(r) \/ ContextEnds(r)
        PROVE  snap' = snap /\ watch' \in [Runners -> {"off", "armed", "over"}]
    BY <2>2 DEF ConnectCalls, PushConnectDials, PushConnectStores, ConnectFails, ConnectStarts,
                Start, ContextEnds, connVars
  <2>3. ASSUME NEW r \in Runners, RunnerStep(r)
        PROVE  watch' = watch /\ snap' \in [Runners -> SUBSET Subs]
    BY <2>3 DEF RunnerStep, RunStep, Top, Dialled, DialFails, sleepCtx, Store, readLoop, Broken,
                onReconnect, RestoreMarket, RestoreTrade, Restore
  <2>4. ASSUME NEW r \in Runners, WatcherStep(r)
        PROVE  snap' = snap /\ watch' \in [Runners -> {"off", "armed", "over"}]
    BY <2>4 DEF WatcherStep, Watcher
  <2>5. CASE CloseCalls \/ Shutdown \/ CloseReturns
    BY <2>5 DEF CloseCalls, CloseReturns, Shutdown, ShutdownBegins, ShutdownCancels,
                ShutdownClosesPush, CloseFlag, CloseSweep, connVars
  <2>6. ASSUME NEW s \in Subs, Moves(s)
        PROVE  UNCHANGED <<watch, snap>>
    BY <2>6 DEF Moves, SubscribeAsks, SubscribeAnswered, SubscribeRegisters, CancelAsks,
                CancelAnswered, connVars
  <2>7. ASSUME NEW c \in open, Drop(c)
        PROVE  UNCHANGED <<watch, snap>>
    BY <2>7 DEF Drop, PeerDrops
  <2>. QED
    BY <2>1, <2>2, <2>3, <2>4, <2>5, <2>6, <2>7 DEF Next, Moves
<1>. QED
  BY <1>1, <1>2, <1>3 DEF FeedShape

LEMMA FeedTimesNext == FeedShape /\ FeedTimes /\ [Next]_vars => FeedTimes'
<1>. SUFFICES ASSUME FeedShape, FeedTimes, [Next]_vars PROVE FeedTimes'
  OBVIOUS
<1>1. ~started' => ~started
  BY SubscriptionSteps
<1>2. CASE UNCHANGED <<sub, subs, sclosed>>
  BY <1>1, <1>2 DEF FeedTimes
<1>3. CASE ShutdownBegins
  BY <1>1, <1>3 DEF ShutdownBegins, FeedShape, FeedTimes
<1>4. ASSUME NEW s \in Subs, Moves(s) PROVE FeedTimes'
  <2>1. started /\ started'
    BY <1>4, SubscriptionSteps
       DEF Moves, SubscribeAsks, SubscribeAnswered, SubscribeRegisters, CancelAsks,
           CancelAnswered, FeedTimes
  <2>2. sclosed' = sclosed /\ (sclosed => subs' \subseteq subs)
    BY <1>4 DEF Moves, SubscribeAsks, SubscribeAnswered, SubscribeRegisters, CancelAsks,
                CancelAnswered, lifeVars
  <2>. QED
    BY <2>1, <2>2 DEF FeedTimes
<1>. QED
  BY <1>2, <1>3, <1>4, SubscriptionSteps

-----------------------------------------------------------------------------
(* The Run has a connection                                                *)

LEMMA ProvidedConnect ==
    ASSUME IInv, FeedShape, Provided, NEW r \in Runners,
           \/ ConnectCalls(r) \/ PushConnectDials(r) \/ PushConnectStores(r)
           \/ ConnectFails(r) \/ ConnectStarts(r) \/ ContextEnds(r)
    PROVE  Provided'
<1>0. overlap => overlap'
  BY DEF ConnectCalls, PushConnectDials, PushConnectStores, ConnectFails, ConnectStarts,
         ContextEnds, lifeVars
<1>. SUFFICES ASSUME ~overlap, NEW q \in Runners PROVE ProvidedFor(q)'
  BY <1>0 DEF Provided
<1>a. ProvidedFor(q) /\ ProvidedFor(r)
  BY DEF Provided
<1>b. connect \in [Runners -> {"idle", "dialling", "dialled", "ready", "over"}]
      /\ run \in [Runners -> RunSteps] /\ held \in [Runners -> Nat] /\ dials \in Nat
      /\ watch \in [Runners -> {"off", "armed", "over"}]
  BY DEF IInv, Shape, FeedShape
<1>c. /\ connect[r] = "dialled" => ~Running(q)
      /\ connect[r] = "dialled" /\ connect[q] \in {"dialled", "ready"} => q = r
  BY DEF IInv, Alone, Active
<1>1. CASE ConnectCalls(r)
  <2>1. PICK to \in {"over", "dialling"} : connect' = [connect EXCEPT ![r] = to]
    BY <1>1 DEF ConnectCalls
  <2>. QED
    BY <1>1, <1>a, <1>b, <2>1 DEF ConnectCalls, ProvidedFor, Running, connVars
<1>2. CASE PushConnectDials(r)
  <2>1. CASE UNCHANGED connVars /\ conn # NoConn /\ connect' = [connect EXCEPT ![r] = "ready"]
    BY <2>1, <1>a, <1>b DEF ProvidedFor, Running, connVars
  <2>2. CASE /\ DialOk(r) /\ connect' = [connect EXCEPT ![r] = "dialled"]
             /\ UNCHANGED <<conn, closed, swept, cancelled, watch, run, crossed>>
    <3>1. held'[r] # NoConn /\ (q # r => held'[q] = held[q])
      BY SMTT(20), <2>2, <1>b DEF DialOk, NoConn
    <3>. QED
      BY <2>2, <1>a, <1>b, <3>1 DEF ProvidedFor, Running
  <2>. QED
    BY <1>2, <2>1, <2>2 DEF PushConnectDials
<1>3. CASE PushConnectStores(r)
  <2>1. ~Running(q) /\ held[r] # NoConn
    BY <1>3, <1>a, <1>c DEF PushConnectStores, ProvidedFor
  <2>2. conn' # NoConn \/ closed'
    BY <1>3, <2>1 DEF PushConnectStores
  <2>3. PICK to \in {"over", "ready"} : connect' = [connect EXCEPT ![r] = to]
    BY <1>3 DEF PushConnectStores
  <2>4. connect'[q] # "dialled"
    BY <1>3, <1>b, <1>c, <2>3 DEF PushConnectStores
  <2>. QED
    BY <1>3, <1>a, <1>b, <2>1, <2>2, <2>4 DEF PushConnectStores, ProvidedFor, Running
<1>4. CASE ConnectFails(r)
  BY <1>4, <1>a, <1>b DEF ConnectFails, ProvidedFor, Running
<1>5. CASE ConnectStarts(r)
  BY <1>5, <1>a, <1>b DEF ConnectStarts, Start, Goto, ProvidedFor, Running
<1>6. CASE ContextEnds(r)
  BY <1>6, <1>a, <1>b DEF ContextEnds, lifeVars, ProvidedFor, Running
<1>. QED
  BY <1>1, <1>2, <1>3, <1>4, <1>5, <1>6

LEMMA ProvidedRun ==
    ASSUME IInv, FeedShape, Provided, NEW r \in Runners, RunnerStep(r)
    PROVE  Provided'
<1>0. overlap' = overlap
  BY DEF RunnerStep, onReconnect, RestoreMarket, RestoreTrade, Restore, lifeVars
<1>. SUFFICES ASSUME ~overlap, NEW q \in Runners PROVE ProvidedFor(q)'
  BY <1>0 DEF Provided
<1>a. ProvidedFor(q) /\ ProvidedFor(r)
  BY DEF Provided
<1>b. run \in [Runners -> RunSteps] /\ held \in [Runners -> Nat] /\ dials \in Nat
  BY DEF IInv, Shape
<1>c. UNCHANGED <<connect, watch, closed, cancelled>>
  BY DEF RunnerStep, RunStep, Top, Dialled, DialFails, sleepCtx, Store, readLoop, Broken,
         onReconnect, RestoreMarket, RestoreTrade, Restore, lifeVars
<1>d. Running(r) /\ (Running(q) => q = r) /\ ~Active(q)
  <2>1. Running(r)
    BY DEF RunnerStep, RunStep, Top, Dialled, DialFails, sleepCtx, Store, readLoop, Broken,
           onReconnect, RestoreMarket, RestoreTrade, Running
  <2>. QED
    BY <2>1 DEF IInv, Alone
<1>1. CASE q # r
  <2>1. run'[q] = run[q]
    BY <1>1, <1>b DEF RunnerStep, RunStep, Top, Dialled, DialFails, sleepCtx, Store, readLoop,
         Broken, onReconnect, RestoreMarket, RestoreTrade, Restore, Goto
  <2>. QED
    BY <1>1, <1>a, <1>c, <1>d, <2>1 DEF ProvidedFor, Running, Active
<1>2. CASE q = r
  <2>1. connect'[r] \notin {"dialled", "ready"}
    BY <1>2, <1>c, <1>d DEF Active
  <2>2. CASE Top(r)
    BY <1>2, <2>2, <1>a, <1>b, <1>c, <2>1 DEF Top, Goto, ProvidedFor, Running
  <2>3. CASE Dialled(r)
    <3>1. held'[r] # NoConn
      BY SMTT(20), <2>3, <1>b DEF Dialled, DialOk, NoConn
    <3>2. run'[r] = "restore"
      BY <2>3, <1>a, <1>b DEF Dialled, Goto, ProvidedFor
    <3>. QED
      BY <1>2, <1>a, <1>c, <2>1, <3>1, <3>2 DEF ProvidedFor, Running
  <2>4. CASE DialFails(r) \/ sleepCtx(r)
    BY <1>2, <2>4, <1>a, <1>b, <1>c, <2>1 DEF DialFails, sleepCtx, Goto, ProvidedFor, Running
  <2>5. CASE Store(r)
    BY <1>2, <2>5, <1>a, <1>b, <1>c, <2>1 DEF Store, setConn, Goto, ProvidedFor, Running
  <2>6. CASE readLoop(r) \/ Broken(r)
    BY <1>2, <2>6, <1>a, <1>b, <1>c, <2>1 DEF readLoop, Broken, Goto, ProvidedFor, Running
  <2>7. CASE onReconnect(r) \/ RestoreMarket(r) \/ RestoreTrade(r)
    BY <1>2, <2>7, <1>a, <1>b, <1>c, <2>1
       DEF onReconnect, RestoreMarket, RestoreTrade, Restore, Goto, ProvidedFor, Running
  <2>. QED
    BY <2>2, <2>3, <2>4, <2>5, <2>6, <2>7 DEF RunnerStep, RunStep
<1>. QED
  BY <1>1, <1>2

LEMMA ProvidedNext == IInv /\ FeedShape /\ Provided /\ [Next]_vars => Provided'
<1>. SUFFICES ASSUME IInv, FeedShape, Provided, [Next]_vars PROVE Provided'
  OBVIOUS
<1>1. CASE UNCHANGED <<run, watch, connect, held, conn, closed, cancelled, overlap>>
  BY <1>1 DEF Provided, ProvidedFor, Running
<1>2. ASSUME NEW r \in Runners, WatcherStep(r) PROVE Provided'
  <2>. SUFFICES ASSUME ~overlap, NEW q \in Runners PROVE ProvidedFor(q)'
    BY <1>2 DEF Provided, WatcherStep, lifeVars
  <2>1. ProvidedFor(q) /\ ProvidedFor(r)
    BY DEF Provided
  <2>2. Running(r) /\ (Running(q) => q = r) /\ ~Active(q)
    BY <1>2, <2>1 DEF WatcherStep, Watcher, ProvidedFor, IInv, Alone
  <2>3. watch \in [Runners -> {"off", "armed", "over"}]
    BY DEF FeedShape
  <2>. QED
    BY <1>2, <2>1, <2>2, <2>3 DEF WatcherStep, Watcher, closeConn, lifeVars, ProvidedFor, Running, Active
<1>3. CASE Shutdown
  <2>1. closed => closed'
    BY <1>3 DEF Shutdown, ShutdownBegins, ShutdownCancels, ShutdownClosesPush, CloseFlag, CloseSweep, connVars
  <2>2. conn' = conn \/ closed'
    BY <1>3 DEF Shutdown, ShutdownBegins, ShutdownCancels, ShutdownClosesPush, CloseFlag, CloseSweep,
                connVars, IInv, Closing
  <2>3. UNCHANGED <<run, watch, connect, held, overlap>> /\ cancelled \subseteq cancelled'
    BY <1>3 DEF Shutdown, ShutdownBegins, ShutdownCancels, ShutdownClosesPush, CloseFlag, CloseSweep, connVars
  <2>. QED
    BY <2>1, <2>2, <2>3 DEF Provided, ProvidedFor, Running
<1>4. UNCHANGED vars \/ CloseCalls \/ CloseReturns \/ (\E s \in Subs : Moves(s)) \/ (\E c \in open : Drop(c))
      => UNCHANGED <<run, watch, connect, held, conn, closed, cancelled, overlap>>
  BY DEF vars, connVars, lifeVars, CloseCalls, CloseReturns, Moves, SubscribeAsks, SubscribeAnswered,
         SubscribeRegisters, CancelAsks, CancelAnswered, Drop, PeerDrops
<1>. QED
  BY <1>1, <1>2, <1>3, <1>4, ProvidedConnect, ProvidedRun DEF Next, Moves

-----------------------------------------------------------------------------
(* Counting the listed, and racing a cancel                                *)

LEMMA CountedNext == FeedShape /\ Counted /\ [Next]_vars => Counted'
<1>. SUFFICES ASSUME FeedShape, Counted, [Next]_vars, \A s \in Subs : kind[s] = "trade"
              PROVE  IsFiniteSet(subs') /\ Cardinality(subs') = tradeSubs'
  BY SubscriptionSteps DEF Counted
<1>0. IsFiniteSet(subs) /\ Cardinality(subs) = tradeSubs
  BY DEF Counted
<1>1. CASE UNCHANGED <<subs, tradeSubs>>
  BY <1>0, <1>1
<1>2. CASE ShutdownBegins
  BY <1>2, FS_EmptySet DEF ShutdownBegins
<1>3. ASSUME NEW s \in Subs, SubscribeRegisters(s), ~sclosed
      PROVE  IsFiniteSet(subs') /\ Cardinality(subs') = tradeSubs'
  <2>1. s \notin subs /\ subs' = subs \union {s} /\ tradeSubs' = tradeSubs + 1
    BY <1>3 DEF SubscribeRegisters, FeedShape
  <2>. QED
    BY <1>0, <2>1, FS_AddElement
<1>4. ASSUME NEW s \in Subs, CancelAsks(s)
      PROVE  IsFiniteSet(subs') /\ Cardinality(subs') = tradeSubs'
  <2>1. s \in subs /\ subs' = subs \ {s} /\ tradeSubs' = tradeSubs - 1
    BY <1>4 DEF CancelAsks, FeedShape
  <2>. QED
    BY <1>0, <2>1, FS_RemoveElement
<1>5. ASSUME NEW s \in Subs, Moves(s), ~CancelAsks(s), ~SubscribeRegisters(s) \/ sclosed
      PROVE  UNCHANGED <<subs, tradeSubs>>
  BY <1>5 DEF Moves, SubscribeAsks, SubscribeAnswered, SubscribeRegisters, CancelAnswered
<1>. QED
  BY <1>1, <1>2, <1>3, <1>4, <1>5, SubscriptionSteps

\* An order subscription that asks the Gateway to stop was the only one listed.
LEMMA LastIsAlone ==
    ASSUME FeedShape, Counted, NEW s \in Subs, sub[s] = "live", kind[s] = "trade", tradeSubs = 1
    PROVE  \A q \in Subs : sub[q] = "live" => q = s
<1>1. \A q \in Subs : kind[q] = "trade"
  BY DEF FeedShape
<1>2. IsFiniteSet(subs) /\ Cardinality(subs) = 1
  BY <1>1 DEF Counted
<1>3. s \in subs
  BY DEF FeedShape
<1>4. IsFiniteSet(subs \ {s}) /\ Cardinality(subs \ {s}) = 0
  BY SMTT(20), <1>2, <1>3, FS_RemoveElement
<1>5. subs \ {s} = {}
  BY <1>4, FS_EmptySet
<1>. QED
  BY <1>5 DEF FeedShape

LEMMA RacedNext == FeedShape /\ Counted /\ Raced /\ [Next]_vars => Raced'
<1>. SUFFICES ASSUME FeedShape, Counted, Raced, [Next]_vars PROVE Raced'
  OBVIOUS
<1>0. kind' = kind /\ sub \in [Subs -> SubSteps]
  BY SubscriptionSteps DEF FeedShape
<1>1. CASE UNCHANGED <<sub, raced, sclosed>>
  BY <1>0, <1>1 DEF Raced
<1>2. CASE ShutdownBegins
  BY <1>2 DEF ShutdownBegins, Raced
<1>3. ASSUME NEW s \in Subs, Moves(s) PROVE Raced'
  <2>0. sclosed' = sclosed
    BY <1>3 DEF Moves, SubscribeAsks, SubscribeAnswered, SubscribeRegisters, CancelAsks,
                CancelAnswered, lifeVars
  <2>. SUFFICES ASSUME ~sclosed, NEW t \in Subs, NEW q \in Subs, sub'[t] = "leaving",
                       kind[t] = "trade", sub'[q] \in {"live", "asking", "asked"}
                PROVE  q \in raced'
    BY <1>0, <2>0 DEF Raced
  <2>1. sub[t] = "leaving" /\ sub[q] \in {"live", "asking", "asked"} => q \in raced
    BY DEF Raced
  <2>2. \A p \in Subs : kind[p] = "trade"
    BY DEF FeedShape
  <2>3. CASE SubscribeAsks(s)
    <3>1. sub[t] = "leaving"
      BY <1>0, <2>3 DEF SubscribeAsks
    <3>2. t \in Leaving(kind[s])
      BY <2>2, <3>1 DEF Leaving
    <3>3. raced' = raced \union {s}
      BY <2>3, <3>2 DEF SubscribeAsks
    <3>. QED
      BY <1>0, <2>1, <2>3, <3>1, <3>3 DEF SubscribeAsks
  <2>4. CASE SubscribeAnswered(s)
    BY <1>0, <2>1, <2>4 DEF SubscribeAnswered
  <2>5. CASE SubscribeRegisters(s)
    BY <1>0, <2>1, <2>5 DEF SubscribeRegisters
  <2>6. CASE CancelAsks(s)
    <3>1. q # s /\ sub[q] \in {"live", "asking", "asked"}
      BY <1>0, <2>6 DEF CancelAsks
    <3>2. sub[q] \in {"asking", "asked"} => q \in raced'
      BY <2>2, <2>6 DEF CancelAsks, Making
    <3>3. CASE sub[t] = "leaving"
      BY <2>1, <2>6, <3>1, <3>3 DEF CancelAsks
    <3>4. CASE sub[t] # "leaving"
      <4>1. t = s /\ tradeSubs = 1 /\ sub[s] = "live" /\ kind[s] = "trade"
        BY <1>0, <2>2, <2>6, <3>4 DEF CancelAsks
      <4>2. sub[q] # "live"
        BY <3>1, <4>1, LastIsAlone
      <4>. QED
        BY <3>1, <3>2, <4>2
    <3>. QED
      BY <3>3, <3>4
  <2>7. CASE CancelAnswered(s)
    BY <1>0, <2>1, <2>7 DEF CancelAnswered
  <2>. QED
    BY <1>3, <2>3, <2>4, <2>5, <2>6, <2>7 DEF Moves
<1>. QED
  BY <1>1, <1>2, <1>3, SubscriptionSteps

-----------------------------------------------------------------------------
(* The push is on, or somebody will ask for it                             *)

\* A request for a push is answered: the push is on, or its loss is known.
LEMMA FedStays ==
    ASSUME NEW k, NEW l, Fed(k), UNCHANGED <<conn, open>>,
           Push(l) \/ (on' = on /\ lost \subseteq lost')
    PROVE  Fed(k)'
BY DEF Fed, Push

LEMMA HopeRun ==
    ASSUME IInv, FeedShape, Provided, Hopeful, ~overlap, started, ~sclosed,
           NEW r \in Runners, RunnerStep(r),
           NEW s \in Subs, sub[s] \in {"live", "asked"}
    PROVE  Hope(kind[s])'
<1>0. NoConn \notin open /\ run \in [Runners -> RunSteps] /\ snap \in [Runners -> SUBSET Subs]
  BY DEF IInv, Shape, NoConn, FeedShape
<1>1. kind' = kind /\ \A q \in Subs : kind[q] = kind[s]
  BY DEF RunnerStep, onReconnect, RestoreMarket, RestoreTrade, Restore, subVars, FeedShape
<1>2. Hope(kind[s])
  BY DEF Hopeful
<1>3. run[r] \notin {"dial", "sleep", "store", "off"}
      /\ \A q \in Runners : q # r => run[q] = "off"
  <2>1. Running(r)
    BY DEF RunnerStep, RunStep, Top, Dialled, DialFails, sleepCtx, Store, readLoop, Broken,
           onReconnect, RestoreMarket, RestoreTrade, Running
  <2>2. run[r] \notin {"dial", "sleep", "store"}
    BY DEF Provided, ProvidedFor
  <2>. QED
    BY <2>1, <2>2 DEF IInv, Alone, Running
<1>4. run[r] \in {"broken", "redial", "resleep", "restore"} => conn = NoConn
  BY DEF IInv, Alone, Without
<1>5. CASE Top(r) /\ UNCHANGED <<lifeVars, subVars, snap>>
  <2>1. Fed(kind[s])
    BY <1>2, <1>3, <1>5 DEF Top, Hope, Replacing, ToRestore
  <2>. QED
    BY <1>1, <1>5, <2>1, FedStays DEF Top, Hope, subVars
<1>6. CASE (Dialled(r) \/ DialFails(r) \/ Store(r) \/ readLoop(r)) /\ UNCHANGED <<lifeVars, subVars, snap>>
  <2>1. run'[r] \in {"restore", "resleep", "hook", "broken"}
    BY <1>0, <1>3, <1>6 DEF Dialled, DialFails, Store, readLoop, Goto
  <2>. QED
    BY <2>1 DEF Hope, Replacing
<1>7. CASE (sleepCtx(r) \/ Broken(r)) /\ UNCHANGED <<lifeVars, subVars, snap>>
  <2>1. conn = NoConn /\ UNCHANGED <<conn, open>>
    BY <1>3, <1>4, <1>7 DEF sleepCtx, Broken
  <2>. QED
    BY <1>0, <2>1 DEF Hope, Fed
<1>8. CASE onReconnect(r)
  <2>1. snap'[r] = subs /\ run'[r] = "restore market" /\ UNCHANGED subs
    BY <1>0, <1>8 DEF onReconnect, Goto
  <2>2. CASE sub[s] = "live"
    <3>1. s \in subs
      BY <2>2 DEF FeedShape
    <3>. QED
      BY <2>1, <3>1 DEF Hope, ToRestore
  <2>3. CASE sub[s] = "asked"
    <3>1. kind[s] \in lost'
      BY <1>8, <2>3 DEF onReconnect
    <3>. QED
      BY <1>1, <3>1 DEF Hope, Fed
  <2>. QED
    BY <2>2, <2>3
<1>9. ASSUME NEW k \in {"market", "trade"}, NEW next, Restore(r, k, next),
             k = kind[s], snap[r] # {}
      PROVE  Hope(kind[s])'
  <2>1. {q \in snap[r] : kind[q] = k} # {}
    BY <1>0, <1>1, <1>9
  <2>2. k \in on' \/ k \in lost'
    BY <1>9, <2>1 DEF Restore, Push
  <2>. QED
    BY <1>1, <1>9, <2>2 DEF Hope, Fed
<1>10. ASSUME NEW k \in {"market", "trade"}, NEW next, Restore(r, k, next), Fed(kind[s])
       PROVE  Hope(kind[s])'
  <2>1. UNCHANGED <<conn, open>> /\ (Push(k) \/ (on' = on /\ lost \subseteq lost'))
    BY <1>10 DEF Restore
  <2>2. Fed(kind[s])'
    BY <1>1, <1>10, <2>1, FedStays
  <2>. QED
    BY <2>2 DEF Hope
<1>11. CASE RestoreMarket(r)
  <2>1. Restore(r, "market", "restore trade") /\ run[r] = "restore market" /\ snap' = snap
    BY <1>11 DEF RestoreMarket
  <2>2. Fed(kind[s]) \/ snap[r] # {}
    BY <1>2, <1>3, <2>1 DEF Hope, Replacing, ToRestore
  <2>3. CASE kind[s] = "market"
    BY <1>9, <1>10, <2>1, <2>2, <2>3
  <2>4. CASE kind[s] # "market" /\ snap[r] # {}
    <3>1. kind[s] = "trade"
      BY <2>4 DEF FeedShape
    <3>2. run'[r] = "restore trade"
      BY <1>0, <2>1 DEF Restore, Goto
    <3>. QED
      BY <1>1, <2>1, <2>4, <3>1, <3>2 DEF Hope, ToRestore
  <2>. QED
    BY <1>10, <2>1, <2>2, <2>3, <2>4
<1>12. CASE RestoreTrade(r)
  <2>1. Restore(r, "trade", "top") /\ run[r] = "restore trade"
    BY <1>12 DEF RestoreTrade
  <2>2. Fed(kind[s]) \/ (snap[r] # {} /\ kind[s] = "trade")
    BY <1>2, <1>3, <2>1 DEF Hope, Replacing, ToRestore
  <2>. QED
    BY <1>9, <1>10, <2>1, <2>2
<1>. QED
  BY <1>5, <1>6, <1>7, <1>8, <1>11, <1>12 DEF RunnerStep, RunStep

\* A subscription moves: the connection and the hook stay where they are.
LEMMA HopeMoves ==
    ASSUME FeedShape, Counted, Raced, Hopeful, ~overlap, started, ~sclosed,
           NEW s \in Subs, Moves(s),
           NEW q \in Subs, sub'[q] \in {"live", "asked"}
    PROVE  Hope(kind[q])'
<1>0. kind' = kind /\ sub \in [Subs -> SubSteps] /\ \A p \in Subs : kind[p] = kind[q]
  BY DEF Moves, SubscribeAsks, SubscribeAnswered, SubscribeRegisters, CancelAsks, CancelAnswered,
         FeedShape
<1>1. UNCHANGED <<conn, open, run, snap>>
  BY DEF Moves, SubscribeAsks, SubscribeAnswered, SubscribeRegisters, CancelAsks, CancelAnswered,
         connVars
<1>2. ASSUME NEW p \in Subs, sub[p] \in {"live", "asked"} PROVE Hope(kind[q])
  BY <1>0, <1>2 DEF Hopeful
<1>3. ASSUME Hope(kind[q]), Push(kind[s]) \/ (on' = on /\ lost \subseteq lost')
      PROVE  Hope(kind[q])'
  BY <1>0, <1>1, <1>3, FedStays DEF Hope, Replacing, ToRestore
<1>4. CASE SubscribeAsks(s)
  <2>1. UNCHANGED <<on, lost>>
    BY <1>4 DEF SubscribeAsks
  <2>2. CASE q # s
    BY <1>0, <1>2, <1>3, <1>4, <2>1, <2>2 DEF SubscribeAsks
  <2>3. CASE q = s
    <3>1. kind[s] = "trade" /\ tradeSubs > 0
      BY <1>0, <1>4, <2>3 DEF SubscribeAsks
    <3>2. \A p \in Subs : kind[p] = "trade"
      BY <1>0, <2>3, <3>1
    <3>3. subs # {}
      BY SMTT(20), <3>1, <3>2, FS_EmptySet DEF Counted
    <3>4. PICK p \in Subs : sub[p] = "live"
      BY <3>3 DEF FeedShape
    <3>. QED
      BY <1>2, <1>3, <2>1, <3>4
  <2>. QED
    BY <2>2, <2>3
<1>5. CASE SubscribeAnswered(s)
  <2>1. CASE Push(kind[s])
    BY <1>0, <2>1 DEF Push, Hope, Fed
  <2>2. CASE sub' = [sub EXCEPT ![s] = "gone"] /\ UNCHANGED <<on, lost>>
    BY <1>0, <1>2, <1>3, <2>2
  <2>. QED
    BY <1>5, <2>1, <2>2 DEF SubscribeAnswered
<1>6. CASE SubscribeRegisters(s) \/ CancelAsks(s)
  BY <1>0, <1>2, <1>3, <1>6 DEF SubscribeRegisters, CancelAsks
<1>7. CASE CancelAnswered(s)
  <2>1. q # s /\ sub[q] \in {"live", "asked"} /\ sub[s] = "leaving"
    BY <1>0, <1>7 DEF CancelAnswered
  <2>2. CASE UNCHANGED <<on, lost>>
    BY <1>2, <1>3, <2>1, <2>2
  <2>3. CASE lost' = IF \E p \in subs \union Making :
                           kind[p] = kind[s] /\ (kind[s] = "market" \/ p \in raced)
                      THEN lost \union {kind[s]} ELSE lost
    <3>1. q \in subs \union Making
      BY <2>1 DEF FeedShape, Making
    <3>2. kind[s] = "market" \/ kind[s] = "trade"
      BY DEF FeedShape
    <3>3. kind[s] = "trade" => q \in raced
      BY <2>1 DEF Raced
    <3>4. kind[q] \in lost'
      BY <1>0, <2>3, <3>1, <3>2, <3>3
    <3>. QED
      BY <1>0, <3>4 DEF Hope, Fed
  <2>. QED
    BY <1>7, <2>2, <2>3 DEF CancelAnswered
<1>. QED
  BY <1>4, <1>5, <1>6, <1>7 DEF Moves

LEMMA HopefulNext ==
    ASSUME IInv, FedInv, [Next]_vars
    PROVE  Hopeful'
<1>. USE DEF FedInv
<1>0. NoConn \notin open
  BY DEF IInv, Shape, NoConn
<1>1. ASSUME NEW r \in Runners, ConnectCalls(r) PROVE Hopeful'
  BY <1>1 DEF ConnectCalls, connVars, subVars, Hopeful, Hope, Fed, Replacing, ToRestore
<1>2. ASSUME NEW r \in Runners, PushConnectDials(r) \/ PushConnectStores(r) \/ ConnectFails(r)
      PROVE  Hopeful'
  <2>1. Active(r) /\ UNCHANGED <<overlap, started>>
    BY <1>2 DEF PushConnectDials, PushConnectStores, ConnectFails, Active
  <2>. QED
    BY <2>1 DEF IInv, Alone, Hopeful
<1>3. ASSUME NEW r \in Runners, ConnectStarts(r) PROVE Hopeful'
  <2>1. Active(r) /\ overlap' = overlap /\ sub' = sub
    BY <1>3 DEF ConnectStarts, Active, subVars
  <2>2. ~overlap => \A s \in Subs : sub[s] = "idle"
    BY <2>1 DEF IInv, Alone, FeedTimes
  <2>. QED
    BY <2>1, <2>2 DEF Hopeful
<1>4. ASSUME NEW r \in Runners, RunnerStep(r) PROVE Hopeful'
  <2>1. UNCHANGED <<overlap, started, sclosed, sub, kind>>
    BY <1>4 DEF RunnerStep, onReconnect, RestoreMarket, RestoreTrade, Restore, lifeVars, subVars
  <2>2. ASSUME ~overlap, started, ~sclosed, NEW s \in Subs, sub[s] \in {"live", "asked"}
        PROVE  Hope(kind[s])'
    BY <1>4, <2>2, HopeRun
  <2>. QED
    BY <2>1, <2>2 DEF Hopeful
\* The connection ends or stays, and the Run is where it was.
<1>5. ASSUME UNCHANGED <<overlap, started, sclosed, sub, kind, run, snap>>,
             \/ UNCHANGED <<conn, open, on, lost>>
             \/ conn' \notin open'
             \/ UNCHANGED <<conn, on, lost>> /\ open' \subseteq open
      PROVE  Hopeful'
  BY <1>5 DEF Hopeful, Hope, Fed, Replacing, ToRestore
<1>6. ASSUME NEW r \in Runners, WatcherStep(r) PROVE Hopeful'
  BY <1>0, <1>5, <1>6 DEF WatcherStep, Watcher, closeConn, lifeVars, subVars
<1>7. ASSUME NEW r \in Runners, ContextEnds(r) PROVE Hopeful'
  BY <1>5, <1>7 DEF ContextEnds, lifeVars, subVars
<1>8. CASE CloseCalls \/ CloseReturns \/ ShutdownCancels \/ ShutdownClosesPush
  BY <1>0, <1>5, <1>8 DEF CloseCalls, CloseReturns, ShutdownCancels, ShutdownClosesPush, CloseFlag,
                          CloseSweep, closeConn, connVars, subVars
<1>9. CASE ShutdownBegins
  BY <1>9 DEF ShutdownBegins, Hopeful
<1>10. ASSUME NEW c \in open, Drop(c) PROVE Hopeful'
  BY <1>5, <1>10 DEF Drop, PeerDrops, lifeVars
<1>11. ASSUME NEW s \in Subs, Moves(s) PROVE Hopeful'
  <2>1. UNCHANGED <<overlap, started, sclosed, kind>>
    BY <1>11 DEF Moves, SubscribeAsks, SubscribeAnswered, SubscribeRegisters, CancelAsks,
                 CancelAnswered, lifeVars
  <2>2. ASSUME ~overlap, started, ~sclosed, NEW q \in Subs, sub'[q] \in {"live", "asked"}
        PROVE  Hope(kind[q])'
    BY <1>11, <2>2, HopeMoves
  <2>. QED
    BY <2>1, <2>2 DEF Hopeful
<1>12. CASE UNCHANGED vars
  BY <1>5, <1>12 DEF vars, connVars, lifeVars, subVars
<1>. QED
  BY <1>1, <1>2, <1>3, <1>4, <1>6, <1>7, <1>8, <1>9, <1>10, <1>11, <1>12 DEF Next, Shutdown, Moves

LEMMA InitFedInv == Init => FedInv
<1>. SUFFICES ASSUME Init PROVE FedInv
  OBVIOUS
<1>1. FeedShape /\ FeedTimes
  BY DEF Init, ConnInit, FeedShape, FeedTimes, SubSteps
<1>2. Provided
  BY DEF Init, ConnInit, Provided, ProvidedFor, Running
<1>3. Counted /\ Raced /\ Hopeful
  BY FS_EmptySet DEF Init, Counted, Raced, Hopeful
<1>. QED
  BY <1>1, <1>2, <1>3 DEF FedInv

LEMMA StepFedInv == IInv /\ FedInv /\ [Next]_vars => FedInv'
<1>. SUFFICES ASSUME IInv, FedInv, [Next]_vars PROVE FedInv'
  OBVIOUS
<1>1. FeedShape' /\ FeedTimes'
  BY FeedShapeNext, FeedTimesNext DEF FedInv
<1>2. Provided' /\ Counted' /\ Raced'
  BY ProvidedNext, CountedNext, RacedNext DEF FedInv
<1>3. Hopeful'
  BY HopefulNext
<1>. QED
  BY <1>1, <1>2, <1>3 DEF FedInv

\* However subscribing, cancelling, reconnecting and closing interleave, a
\* listed subscription is fed: the Gateway pushes what it asked for, or the
\* connection is gone or being replaced, or the push was lost in one of the
\* ways that ListedIsFed names.
THEOREM ListedSubscriptionsAreFed == Spec => []ListedIsFed
<1>1. IInv /\ FedInv => ListedIsFed
  <2>. SUFFICES ASSUME FedInv, NEW s \in subs, started, ~overlap,
                       ~(kind[s] \in on \/ kind[s] \in lost \/ conn \notin open)
                PROVE  Restoring
    BY DEF ListedIsFed
  <2>1. s \in Subs /\ sub[s] = "live" /\ ~sclosed
    BY DEF FedInv, FeedShape, FeedTimes
  <2>2. Hope(kind[s])
    BY <2>1 DEF FedInv, Hopeful
  <2>. QED
    BY <2>2 DEF Hope, Fed, Replacing, ToRestore, Restoring
<1>. QED
  BY <1>1, InitFedInv, StepFedInv, AlwaysIInv, PTL DEF Spec

\* The first dial loop of Run, the one that calls no OnReconnect hook, is never
\* entered from the stream client unless two Connects overlapped, so no
\* connection is replaced without its subscriptions being asked for again.
THEOREM EveryReplacementIsAnnounced ==
    Spec => [](~overlap => \A r \in Runners : run[r] \notin {"dial", "sleep", "store"})
<1>1. FedInv => (~overlap => \A r \in Runners : run[r] \notin {"dial", "sleep", "store"})
  BY DEF FedInv, Provided, ProvidedFor
<1>. QED
  BY <1>1, InitFedInv, StepFedInv, AlwaysIInv, PTL DEF Spec

=============================================================================
