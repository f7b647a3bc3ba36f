--------------------------- MODULE SessionService ---------------------------
(***************************************************************************)
(* pkg/services/session.go over internal/auth: Login and Logout of one     *)
(* account, called concurrently.  A Login that finds no usable session     *)
(* passes the loginGate: one caller leads and sends /trade/TradeLogin, the *)
(* others join its attempt and receive its outcome.  Accounts have a gate  *)
(* entry and a store entry each and do not interact, so one is modelled.   *)
(* The store is the in-memory one, whose operations do not fail.           *)
(***************************************************************************)
EXTENDS Naturals, FiniteSets

CONSTANTS
    Callers,   \* goroutines calling Login and Logout
    Attempts,  \* loginAttempt objects; as many as Callers are enough
    None

ASSUME SessionAssumption ==
    /\ IsFiniteSet(Callers) /\ IsFiniteSet(Attempts)
    /\ Cardinality(Attempts) >= Cardinality(Callers)
    /\ None \notin Callers \cup Attempts

VARIABLES
    session,   \* the stored session: none, usable, or past its RefreshAt
    pending,   \* loginGate.pending[account]: the attempt in flight, or None
    attempt,   \* per attempt: running, or published (done is closed)
    flight,    \* TokenManager.pending[account], the inner login flight
    pc,        \* where each caller is
    joined,    \* the attempt a leader runs or a joiner waits on
    outcome,   \* the leader's outcome so far, reset when it has published
    lastWord,  \* what the Gateway last said of the session, as its replies came in
    crossed    \* whether a login and a logout crossed when it said so

word == <<lastWord, crossed>>
vars == <<session, pending, attempt, flight, pc, joined, outcome, word>>

Sessions == {"none", "usable", "due"}

\* ok; a body that is no acknowledgement; an errs.CategoryAccount status; any
\* other failure, the leader's own cancellation included; and a session that
\* was gone when internal/auth read it back.
Outcomes == {"ok", "refused", "account", "transient", "notStored"}

\* A transient failure is no word of the Gateway's.
Words == {"none", "login", "logout", "account", "refused"}

Steps == {"idle", "gate", "join", "lead", "auth", "wire", "save", "readback",
          "fail", "publish", "logoutWire", "clear"}

TypeOK ==
    /\ session \in Sessions
    /\ pending \in Attempts \cup {None}
    /\ attempt \in [Attempts -> {"running", "published"}]
    /\ flight \in BOOLEAN
    /\ pc \in [Callers -> Steps]
    /\ joined \in [Callers -> Attempts \cup {None}]
    /\ outcome \in [Callers -> Outcomes]
    /\ lastWord \in Words /\ crossed \in BOOLEAN

Init ==
    /\ session = "none"
    /\ pending = None
    /\ attempt = [a \in Attempts |-> "running"]
    /\ flight = FALSE
    /\ pc = [c \in Callers |-> "idle"]
    /\ joined = [c \in Callers |-> None]
    /\ outcome = [c \in Callers |-> "ok"]
    /\ lastWord = "none" /\ crossed = FALSE

Goto(c, step) == pc' = [pc EXCEPT ![c] = step]
Result(c, o) == outcome' = [outcome EXCEPT ![c] = o]

-----------------------------------------------------------------------------
\* Login's first read of the store.  A usable session is returned: no step.
Login(c) ==
    /\ pc[c] = "idle"
    /\ session # "usable"
    /\ Goto(c, "gate")
    /\ UNCHANGED <<session, pending, attempt, flight, joined, outcome, word>>

\* A new loginAttempt: one that nobody holds any more.
Fresh(a) == a # pending /\ \A c \in Callers : joined[c] # a

\* Attempts differ in identity only, so any fixed choice among the fresh will do.
Start(c, a) ==
    /\ Fresh(a)
    /\ a = CHOOSE b \in Attempts : Fresh(b)
    /\ pending' = a
    /\ attempt' = [attempt EXCEPT ![a] = "running"]
    /\ joined' = [joined EXCEPT ![c] = a]
    /\ Goto(c, "lead")

\* Mutant: every caller starts an attempt of its own.
BeginAlone(c) ==
    /\ pc[c] = "gate"
    /\ \E a \in Attempts : Start(c, a)
    /\ UNCHANGED <<session, flight, outcome, word>>

\* loginGate.begin.
Begin(c) ==
    /\ pc[c] = "gate"
    /\ \/ /\ pending # None
          /\ joined' = [joined EXCEPT ![c] = pending]
          /\ Goto(c, "join")
          /\ UNCHANGED <<pending, attempt>>
       \/ /\ pending = None
          /\ \E a \in Attempts : Start(c, a)
    /\ UNCHANGED <<session, flight, outcome, word>>

\* Mutant: the leader trusts the read Login made before the gate.
LeadBlindly(c) ==
    /\ pc[c] = "lead"
    /\ Goto(c, "auth")
    /\ UNCHANGED <<session, pending, attempt, flight, joined, outcome, word>>

\* lead: the leader reads the store again before it spends a request.
Lead(c) ==
    /\ pc[c] = "lead"
    /\ \/ session = "usable" /\ Result(c, "ok") /\ Goto(c, "publish")
       \/ session # "usable" /\ Goto(c, "auth") /\ UNCHANGED outcome
    /\ UNCHANGED <<session, pending, attempt, flight, joined, word>>

\* Authenticator.Login claims the inner flight.  Its other branch, joining an
\* inner flight, is never taken: InnerFlightIsFree.
BeginLogin(c) ==
    /\ pc[c] = "auth"
    /\ flight' = TRUE
    /\ Goto(c, "wire")
    /\ UNCHANGED <<session, pending, attempt, joined, outcome, word>>

\* The reply to /trade/TradeLogin (external); an error ends the inner flight.
\* It crosses a Logout whose own reply has come and who is still to clear.
LoginReply(c) ==
    /\ pc[c] = "wire"
    /\ \/ /\ Goto(c, "save")
          /\ lastWord' = "login"
          /\ crossed' = \E d \in Callers : pc[d] = "clear"
          /\ UNCHANGED <<flight, outcome>>
       \/ /\ \E o \in {"refused", "account", "transient"} :
                /\ Result(c, o)
                /\ lastWord' = IF o = "transient" THEN lastWord ELSE o
                /\ crossed' = (o = "transient" /\ crossed)
          /\ flight' = FALSE
          /\ Goto(c, "fail")
    /\ UNCHANGED <<session, pending, attempt, joined>>

SaveToken(c) ==
    /\ pc[c] = "save"
    /\ session' = "usable"
    /\ Goto(c, "readback")
    /\ UNCHANGED <<pending, attempt, flight, joined, outcome, word>>

\* sessionFromStore, and the deferred endLogin.
SessionFromStore(c) ==
    /\ pc[c] = "readback"
    /\ flight' = FALSE
    /\ \/ session # "none" /\ Result(c, "ok") /\ Goto(c, "publish")
       \/ session = "none" /\ Result(c, "notStored") /\ Goto(c, "fail")
    /\ UNCHANGED <<session, pending, attempt, joined, word>>

\* Mutant: any failed login drops the session.
UnusableAlways(o) == TRUE

\* sessionUnusable: CategoryAccount alone; a refused credential has no code.
SessionUnusable(o) == o = "account"

DiscardUnusable(c) ==
    /\ pc[c] = "fail"
    /\ session' = IF SessionUnusable(outcome[c]) THEN "none" ELSE session
    /\ Goto(c, "publish")
    /\ UNCHANGED <<pending, attempt, flight, joined, outcome, word>>

\* Mutant: the entry goes, but done is closed on success only.
PublishOnlySuccess(c) ==
    /\ pc[c] = "publish"
    /\ attempt' = IF outcome[c] = "ok" THEN [attempt EXCEPT ![joined[c]] = "published"] ELSE attempt
    /\ pending' = None
    /\ joined' = [joined EXCEPT ![c] = None]
    /\ Result(c, "ok")
    /\ Goto(c, "idle")
    /\ UNCHANGED <<session, flight, word>>

Publish(c) ==
    /\ pc[c] = "publish"
    /\ attempt' = [attempt EXCEPT ![joined[c]] = "published"]
    /\ pending' = None
    /\ joined' = [joined EXCEPT ![c] = None]
    /\ Result(c, "ok")
    /\ Goto(c, "idle")
    /\ UNCHANGED <<session, flight, word>>

\* The joiner returns the outcome the leader left on the attempt.
JoinDone(c) ==
    /\ pc[c] = "join"
    /\ attempt[joined[c]] = "published"
    /\ joined' = [joined EXCEPT ![c] = None]
    /\ Goto(c, "idle")
    /\ UNCHANGED <<session, pending, attempt, flight, outcome, word>>

\* The joiner's own context ends first.
JoinCancelled(c) ==
    /\ pc[c] = "join"
    /\ joined' = [joined EXCEPT ![c] = None]
    /\ Goto(c, "idle")
    /\ UNCHANGED <<session, pending, attempt, flight, outcome, word>>

-----------------------------------------------------------------------------
\* Logout is not gated.  With no session it returns: no step.
Logout(c) ==
    /\ pc[c] = "idle"
    /\ session # "none"
    /\ Goto(c, "logoutWire")
    /\ UNCHANGED <<session, pending, attempt, flight, joined, outcome, word>>

\* It crosses a login whose reply has come and who is still to save.
LogoutReply(c) ==
    /\ pc[c] = "logoutWire"
    /\ \/ /\ Goto(c, "clear")
          /\ lastWord' = "logout"
          /\ crossed' = \E d \in Callers : pc[d] = "save"
       \/ Goto(c, "idle") /\ UNCHANGED word
    /\ UNCHANGED <<session, pending, attempt, flight, joined, outcome>>

LogoutClear(c) ==
    /\ pc[c] = "clear"
    /\ session' = "none"
    /\ Goto(c, "idle")
    /\ UNCHANGED <<pending, attempt, flight, joined, outcome, word>>

\* The clock passes RefreshAt; ShouldRefresh covers expiry too.
Age ==
    /\ session = "usable"
    /\ session' = "due"
    /\ UNCHANGED <<pending, attempt, flight, pc, joined, outcome, word>>

-----------------------------------------------------------------------------
Progress(c) ==
    \/ Begin(c) \/ Lead(c) \/ BeginLogin(c) \/ LoginReply(c) \/ SaveToken(c)
    \/ SessionFromStore(c) \/ DiscardUnusable(c) \/ Publish(c) \/ JoinDone(c)
    \/ LogoutReply(c) \/ LogoutClear(c)

Next ==
    \/ \E c \in Callers : Login(c) \/ Logout(c) \/ JoinCancelled(c) \/ Progress(c)
    \/ Age

Spec == Init /\ [][Next]_vars

\* A running call goes on; requests end, by a reply or by the client's timeout.
FairSpec == Spec /\ \A c \in Callers : WF_vars(Progress(c))

-----------------------------------------------------------------------------
Leading(c) == pc[c] \in {"lead", "auth", "wire", "save", "readback", "fail", "publish"}

\* However many callers race, at most one is between begin and publish, and it
\* owns the attempt the gate holds: one /trade/TradeLogin at a time per account.
SingleLeader ==
    /\ \A c \in Callers : Leading(c) => pending # None /\ joined[c] = pending
    /\ \A c, d \in Callers : Leading(c) /\ Leading(d) => c = d

\* A login request is never spent while a usable session is stored, even by a
\* caller that read the store before the previous leader finished (lead).
NoRedundantRequest == \A c \in Callers : pc[c] \in {"auth", "wire"} => session # "usable"

\* The login flight inside internal/auth is never contended: the gate alone
\* coalesces (loginGate's comment).
InnerFlightIsFree == \A c \in Callers : pc[c] = "auth" => ~flight

\* A session the Gateway rejected is gone before the rejection is published, so
\* no later Login reuses it (discardUnusable).
RejectedSessionIsGone ==
    \A c \in Callers : pc[c] = "publish" /\ outcome[c] = "account" => session = "none"

\* Between a reply and what it does to the store.
Settled == \A c \in Callers : pc[c] \notin {"save", "fail", "clear"}

\* The store follows the Gateway's last word, however logins, failures of logins
\* and logouts are interleaved: a session granted is kept, through any number of
\* transient failures, and one that was ended or rejected is gone.  Two things are
\* left open: a login and a Logout whose replies crossed (nothing orders save and
\* clear, Logout being outside the gate), and a refused credential, of which Login's
\* comment and sessionUnusable's say opposite things.
StoreFollowsTheGateway ==
    Settled /\ ~crossed =>
        /\ lastWord = "login" => session # "none"
        /\ lastWord \in {"logout", "account"} => session = "none"

\* No joiner waits forever: its leader publishes, whatever the outcome.
JoinersReturn == \A c \in Callers : pc[c] = "join" ~> pc[c] = "idle"

\* With every call returned, no session is stored that the Gateway has since
\* acknowledged to be over (Logout).
LogoutClearsLocal ==
    (\A c \in Callers : pc[c] = "idle") /\ lastWord = "logout" => session = "none"

=============================================================================
