--------------------------- MODULE SessionManager ---------------------------
(***************************************************************************)
(* pkg/hstong/session.go over internal/session: the released session       *)
(* manager.  Login, EnsureLoggedIn and ReLogin wait on one condition       *)
(* variable for a login in flight; Logout does not.  A keep-alive loop,    *)
(* started and stopped by callers, ensures the login at every tick, so it  *)
(* is one more goroutine waiting there, and StopKeepAlive waits for it.    *)
(*                                                                         *)
(* Every transition of the state machine is made under s.mu and is one     *)
(* step with the bookkeeping around it.  Every change of the keep-alive    *)
(* registration is made under s.kaMu.                                      *)
(***************************************************************************)
EXTENDS Naturals, FiniteSets

CONSTANTS
    Callers,  \* goroutines calling the manager's methods
    Loops,    \* pool of keep-alive loops (bounds the loops ever started)
    None

ASSUME ManagerAssumption ==
    /\ IsFiniteSet(Callers) /\ IsFiniteSet(Loops)
    /\ Callers \cap Loops = {}
    /\ None \notin Callers \cup Loops

VARIABLES
    state,      \* session.Machine: LoggedOut, LoggingIn or LoggedIn
    loginErr,   \* s.loginErr
    pc,         \* where each goroutine is
    op,         \* the method a waiting goroutine is in
    ka,         \* the loop s.kaCancel and s.kaDone belong to, or None
    stopped,  \* the loops whose context is cancelled
    target,     \* the loop a StopKeepAlive has taken
    heard,      \* history: outcomes of the logins that ended during a wait
    cut         \* history: a Logout landed amid a login or its waiters

managerVars == <<state, loginErr, pc, op, ka, stopped, target, heard, cut>>
loginVars == <<state, loginErr, op, heard, cut>>
loopVars == <<ka, stopped, target>>

Goroutines == Callers \cup Loops

CallerSteps == {"idle", "wait", "woken", "forced", "request", "logout",
                "stopCancel", "stopWait"}
LoopSteps == {"unused", "select", "wait", "woken", "request", "poll", "closing", "gone"}

Waiting(g) == pc[g] \in {"wait", "woken"}
Requesting == {g \in Goroutines : pc[g] = "request"}

TypeOK ==
    /\ state \in {"out", "ing", "in"}
    /\ loginErr \in {"nil", "err"}
    /\ pc \in [Goroutines -> CallerSteps \cup LoopSteps]
    /\ \A c \in Callers : pc[c] \in CallerSteps
    /\ \A l \in Loops : pc[l] \in LoopSteps
    /\ op \in [Goroutines -> {"ensure", "login", "relogin"}]
    /\ ka \in Loops \cup {None}
    /\ stopped \subseteq Loops
    /\ target \in [Callers -> Loops \cup {None}]
    /\ heard \in [Goroutines -> SUBSET {"nil", "err"}]
    /\ cut \in BOOLEAN

\* NewSessionManager.
ManagerInit ==
    /\ state = "out"
    /\ loginErr = "nil"
    /\ pc = [g \in Goroutines |-> IF g \in Loops THEN "unused" ELSE "idle"]
    /\ op = [g \in Goroutines |-> "ensure"]
    /\ ka = None
    /\ stopped = {}
    /\ target = [c \in Callers |-> None]
    /\ heard = [g \in Goroutines |-> {}]
    /\ cut = FALSE

-----------------------------------------------------------------------------
StepTo(g, step) == pc' = [pc EXCEPT ![g] = step]

\* A method returns: a caller is free again, a loop polls if it got nil.
After(g, err) == IF g \in Callers THEN "idle" ELSE IF err = "nil" THEN "poll" ELSE "select"
Return(g, err) == StepTo(g, After(g, err))

\* cond.Wait, entered because a login is in flight.
Wait(g, method) ==
    /\ state = "ing"
    /\ StepTo(g, "wait")
    /\ op' = [op EXCEPT ![g] = method]
    /\ UNCHANGED <<state, loginErr, heard, cut>>

\* Machine.BeginLogin, which succeeds only when logged out.
BeginLogin(g) ==
    /\ state = "out"
    /\ state' = "ing"
    /\ StepTo(g, "request")

EnsureSection(g) ==
    \/ state = "in" /\ Return(g, "nil") /\ UNCHANGED loginVars
    \/ Wait(g, "ensure")
    \/ BeginLogin(g) /\ UNCHANGED <<loginErr, op, heard, cut>>

\* A keep-alive loop ensures the login at each tick; so may a caller.
EnsureLoggedIn(g) ==
    /\ pc[g] \in {"idle", "select"}
    /\ EnsureSection(g)
    /\ UNCHANGED loopVars

\* Mutant: Login does not wait for the login in flight.
LoginAtOnce(c) ==
    /\ pc[c] = "idle"
    /\ state' = "ing" /\ StepTo(c, "request")
    /\ UNCHANGED <<loginErr, op, heard, cut, loopVars>>

\* Machine.Logout and BeginLogin in one critical section.
LoginSection(g) ==
    /\ state # "ing"
    /\ state' = "ing"
    /\ StepTo(g, "request")

Login(c) ==
    /\ pc[c] = "idle"
    /\ Wait(c, "login") \/ (LoginSection(c) /\ UNCHANGED <<loginErr, op, heard, cut>>)
    /\ UNCHANGED loopVars

\* ReLogin discards the state in one critical section ...
ReLoginSection(g) ==
    /\ state # "ing"
    /\ state' = "out"
    /\ StepTo(g, "forced")

\* (a cause that asks for no re-login returns: no step)
ReLogin(c) ==
    /\ pc[c] = "idle"
    /\ Wait(c, "relogin") \/ (ReLoginSection(c) /\ UNCHANGED <<loginErr, op, heard, cut>>)
    /\ UNCHANGED loopVars

\* ... and calls EnsureLoggedIn in another.
ReLoginEnsure(c) ==
    /\ pc[c] = "forced"
    /\ EnsureSection(c)
    /\ UNCHANGED loopVars

\* A woken goroutine has s.mu again and re-tests the state.
WaitAgain(g) ==
    /\ pc[g] = "woken"
    /\ state = "ing"
    /\ StepTo(g, "wait")
    /\ UNCHANGED <<loginVars, loopVars>>

WaitOver(g) ==
    /\ pc[g] = "woken"
    /\ state # "ing"
    /\ \/ op[g] = "ensure" /\ Return(g, loginErr) /\ UNCHANGED state
       \/ op[g] = "login" /\ LoginSection(g)
       \/ op[g] = "relogin" /\ ReLoginSection(g)
    /\ op' = [op EXCEPT ![g] = "ensure"]
    /\ heard' = [heard EXCEPT ![g] = {}]
    /\ UNCHANGED <<loginErr, cut, loopVars>>

\* cond.Broadcast, with g leaving for step.
Broadcast(g, step) ==
    pc' = [h \in Goroutines |-> IF h = g THEN step
                                ELSE IF pc[h] = "wait" THEN "woken" ELSE pc[h]]

\* Mutant: a failed login wakes nobody.
FinishLoginQuietly(g) ==
    /\ pc[g] = "request"
    /\ \E err \in {"nil", "err"} :
          /\ state' = IF state # "ing" THEN state ELSE IF err = "nil" THEN "in" ELSE "out"
          /\ loginErr' = err
          /\ heard' = [h \in Goroutines |-> IF Waiting(h) THEN heard[h] \cup {err} ELSE {}]
          /\ IF err = "nil" THEN Broadcast(g, After(g, err)) ELSE Return(g, err)
    /\ UNCHANGED <<op, cut, loopVars>>

\* Mutant: loginErr keeps the error of an earlier attempt.
FinishLoginKeepsError(g) ==
    /\ pc[g] = "request"
    /\ \E err \in {"nil", "err"} :
          /\ state' = IF state # "ing" THEN state ELSE IF err = "nil" THEN "in" ELSE "out"
          /\ loginErr' = IF err = "nil" THEN loginErr ELSE err
          /\ heard' = [h \in Goroutines |-> IF Waiting(h) THEN heard[h] \cup {err} ELSE {}]
          /\ Broadcast(g, After(g, err))
    /\ UNCHANGED <<op, cut, loopVars>>

\* doLogin's outcome (external), LoginSucceeded or LoginFailed, the broadcast.
FinishLogin(g) ==
    /\ pc[g] = "request"
    /\ \E err \in {"nil", "err"} :
          /\ state' = IF state # "ing" THEN state ELSE IF err = "nil" THEN "in" ELSE "out"
          /\ loginErr' = err
          /\ heard' = [h \in Goroutines |-> IF Waiting(h) THEN heard[h] \cup {err} ELSE {}]
          /\ Broadcast(g, After(g, err))
    /\ UNCHANGED <<op, cut, loopVars>>

\* Logout reads the state without s.mu and waits for nobody.
Logout(c) ==
    /\ pc[c] = "idle"
    /\ state = "in"
    /\ StepTo(c, "logout")
    /\ UNCHANGED <<loginVars, loopVars>>

LogoutReply(c) ==
    /\ pc[c] = "logout"
    /\ \/ /\ state' = "out"
          /\ loginErr' = "nil"
          /\ cut' = (cut \/ Requesting # {} \/ \E g \in Goroutines : Waiting(g))
          /\ Broadcast(c, "idle")
       \/ StepTo(c, "idle") /\ UNCHANGED <<state, loginErr, cut>>
    /\ UNCHANGED <<op, heard, loopVars>>

-----------------------------------------------------------------------------
(* The keep-alive loop.                                                    *)

\* A registered loop makes StartKeepAlive return: no step.
StartKeepAlive(c) ==
    /\ pc[c] = "idle"
    /\ ka = None
    /\ \E l \in Loops :
          /\ pc[l] = "unused"
          /\ l = CHOOSE k \in Loops : pc[k] = "unused"
          /\ ka' = l
          /\ StepTo(l, "select")
    /\ UNCHANGED <<loginVars, stopped, target>>

\* Without a loop StopKeepAlive returns: no step.
StopKeepAlive(c) ==
    /\ pc[c] = "idle"
    /\ ka # None
    /\ target' = [target EXCEPT ![c] = ka]
    /\ ka' = None
    /\ StepTo(c, "stopCancel")
    /\ UNCHANGED <<loginVars, stopped>>

StopCancel(c) ==
    /\ pc[c] = "stopCancel"
    /\ stopped' = stopped \cup {target[c]}
    /\ StepTo(c, "stopWait")
    /\ UNCHANGED <<loginVars, ka, target>>

\* <-done, which the loop closes before it clears its registration.
StopDone(c) ==
    /\ pc[c] = "stopWait"
    /\ pc[target[c]] \in {"closing", "gone"}
    /\ target' = [target EXCEPT ![c] = None]
    /\ StepTo(c, "idle")
    /\ UNCHANGED <<loginVars, ka, stopped>>

\* external: the context given to StartKeepAlive ends.
ContextDone(l) ==
    /\ pc[l] \notin {"unused", "gone"}
    /\ stopped' = stopped \cup {l}
    /\ UNCHANGED <<loginVars, pc, ka, target>>

\* The keep-alive request, whose outcome is ignored.
PollReply(l) ==
    /\ pc[l] = "poll"
    /\ StepTo(l, "select")
    /\ UNCHANGED <<loginVars, loopVars>>

\* The loop sees its context done and closes done.
LoopExit(l) ==
    /\ pc[l] = "select"
    /\ l \in stopped
    /\ StepTo(l, "closing")
    /\ UNCHANGED <<loginVars, loopVars>>

\* Mutant: the loop clears whatever is registered.
LoopClearAny(l) ==
    /\ pc[l] = "closing"
    /\ ka' = None
    /\ StepTo(l, "gone")
    /\ UNCHANGED <<loginVars, stopped, target>>

\* The deferred cleanup clears the registration if it is still this loop's.
LoopClear(l) ==
    /\ pc[l] = "closing"
    /\ ka' = IF ka = l THEN None ELSE ka
    /\ StepTo(l, "gone")
    /\ UNCHANGED <<loginVars, stopped, target>>

-----------------------------------------------------------------------------
CallerProgress(c) ==
    ReLoginEnsure(c) \/ FinishLogin(c) \/ LogoutReply(c) \/ StopCancel(c) \/ StopDone(c)
LoopProgress(l) == FinishLogin(l) \/ PollReply(l) \/ LoopClear(l)

ManagerNext ==
    \/ \E c \in Callers :
          \/ EnsureLoggedIn(c) \/ Login(c) \/ ReLogin(c) \/ Logout(c)
          \/ StartKeepAlive(c) \/ StopKeepAlive(c)
          \/ CallerProgress(c)
    \/ \E l \in Loops :
          EnsureLoggedIn(l) \/ LoopExit(l) \/ ContextDone(l) \/ LoopProgress(l)
    \/ \E g \in Goroutines : WaitAgain(g) \/ WaitOver(g)

ManagerSpec == ManagerInit /\ [][ManagerNext]_managerVars

\* Running goroutines run on and requests end.  A woken goroutine is not locked
\* out of s.mu for good by a stream of other logins (Go's mutex does not starve
\* a waiter), and a select with a ready ctx.Done is not passed over for ever.
Fairness ==
    /\ \A c \in Callers : WF_managerVars(CallerProgress(c))
    /\ \A l \in Loops : WF_managerVars(LoopProgress(l)) /\ SF_managerVars(LoopExit(l))
    /\ \A g \in Goroutines : WF_managerVars(WaitAgain(g)) /\ SF_managerVars(WaitOver(g))

ManagerFairSpec == ManagerSpec /\ Fairness

-----------------------------------------------------------------------------
\* "LoggingIn means exactly one login attempt is in flight", as long as no Logout
\* was acknowledged in the middle of one (BeginLogin, the waits of Login, ReLogin).
OneLoginInFlight ==
    ~cut => Cardinality(Requesting) = IF state = "ing" THEN 1 ELSE 0

\* A caller of EnsureLoggedIn that waited returns the outcome of a login that ended
\* during its wait, never an older one's (loginErr), with the same proviso.
FollowerHearsAnOutcome ==
    \A g \in Goroutines :
        ~cut /\ pc[g] = "woken" /\ op[g] = "ensure" /\ state # "ing" => loginErr \in heard[g]

\* Every keep-alive loop that still polls is stoppable: it is the registered one,
\* its context is cancelled, or a StopKeepAlive is about to cancel it.  So at most
\* one loop polls for good, however starts, stops and dying contexts interleave.
NoOrphanLoop ==
    \A l \in Loops : pc[l] \notin {"unused", "closing", "gone"} =>
        \/ ka = l
        \/ l \in stopped
        \/ \E c \in Callers : pc[c] = "stopCancel" /\ target[c] = l

\* No wake-up is lost: a caller that waits for a login, or in StopKeepAlive for a
\* loop that may itself be waiting for one, gets on (finishLogin's broadcast).
WaitersReturn ==
    \A c \in Callers : Waiting(c) \/ pc[c] = "stopWait"
                        ~> ~(Waiting(c) \/ pc[c] = "stopWait")

=============================================================================
