--------------------------- MODULE ServicesProofs ---------------------------
(***************************************************************************)
(* Proofs about two machines of pkg/services that share no state: the      *)
(* session service, for any number of callers, and the pipeline by which a *)
(* notification reaches a subscription, for every buffer size and any      *)
(* number of notifications.                                                *)
(***************************************************************************)
EXTENDS SessionService, PushPipeline, FiniteSetTheorems, TLAPS

\* A leaf that names no prover goes to Zenon; arithmetic goes to SMT.
USE ZenonT(20)

-----------------------------------------------------------------------------
(* The session service.                                                    *)

\* The inner flight of internal/auth is open only inside a leader's login.
FlightHasLeader == flight => \E c \in Callers : pc[c] \in {"wire", "save", "readback"}

\* The inductive invariant.
IInv ==
    /\ TypeOK
    /\ SingleLeader
    /\ NoRedundantRequest
    /\ FlightHasLeader
    /\ RejectedSessionIsGone

\* Goto moves one caller.
LEMMA GotoMoves ==
    ASSUME TypeOK, NEW c \in Callers, NEW to \in Steps, Goto(c, to)
    PROVE  /\ pc' \in [Callers -> Steps]
           /\ pc'[c] = to
           /\ \A d \in Callers \ {c} : pc'[d] = pc[d]
BY DEF Goto, TypeOK

\* Result changes one caller's outcome.
LEMMA ResultChanges ==
    ASSUME TypeOK, NEW c \in Callers, NEW o \in Outcomes, Result(c, o)
    PROVE  /\ outcome' \in [Callers -> Outcomes]
           /\ outcome'[c] = o
           /\ \A d \in Callers \ {c} : outcome'[d] = outcome[d]
BY DEF Result, TypeOK

LEMMA InitIInv == Init => IInv
<1>. SUFFICES ASSUME Init PROVE IInv
  OBVIOUS
<1>1. flight \in BOOLEAN /\ ~flight
  BY DEF Init
<1>2. TypeOK
  BY <1>1 DEF Init, TypeOK, Sessions, Outcomes, Steps, Words
<1>3. SingleLeader /\ NoRedundantRequest /\ RejectedSessionIsGone
  BY DEF Init, SingleLeader, Leading, NoRedundantRequest, RejectedSessionIsGone
<1>4. FlightHasLeader
  BY <1>1 DEF FlightHasLeader
<1>. QED
  BY <1>2, <1>3, <1>4 DEF IInv

\* A caller that is not leading and does not start to lead disturbs nothing.
LEMMA FollowerIInv ==
    ASSUME IInv, NEW c \in Callers, ~Leading(c),
           NEW to \in Steps, Goto(c, to),
           to \in {"idle", "gate", "join", "logoutWire", "clear"},
           joined' \in [Callers -> Attempts \cup {None}],
           \A d \in Callers \ {c} : joined'[d] = joined[d],
           UNCHANGED <<pending, attempt, flight, outcome>>,
           session' \in {session, "none"},
           lastWord' \in Words, crossed' \in BOOLEAN
    PROVE  IInv'
<1>1. TypeOK
  BY DEF IInv
<1>2. /\ pc' \in [Callers -> Steps]
      /\ pc'[c] = to
      /\ \A d \in Callers \ {c} : pc'[d] = pc[d]
  BY <1>1, GotoMoves
<1>3. TypeOK'
  BY <1>1, <1>2 DEF TypeOK, Sessions
<1>4. \A d \in Callers : Leading(d)' <=> Leading(d)
  BY <1>2 DEF Leading
<1>5. SingleLeader'
  BY <1>4 DEF IInv, SingleLeader
<1>6. NoRedundantRequest' /\ RejectedSessionIsGone'
  BY <1>2 DEF IInv, NoRedundantRequest, RejectedSessionIsGone
<1>7. FlightHasLeader'
  BY <1>2 DEF IInv, FlightHasLeader, Leading
<1>. QED
  BY <1>3, <1>5, <1>6, <1>7 DEF IInv

\* A leader that stays the leader keeps the gate to itself.
LEMMA StillLeading ==
    ASSUME IInv, NEW c \in Callers, Leading(c), NEW to \in Steps, Goto(c, to),
           to \in {"auth", "wire", "save", "readback", "fail", "publish"},
           UNCHANGED <<pending, joined>>
    PROVE  /\ SingleLeader'
           /\ pc' \in [Callers -> Steps]
           /\ pc'[c] = to
           /\ \A d \in Callers \ {c} : pc'[d] = pc[d] /\ ~Leading(d)
<1>1. TypeOK
  BY DEF IInv
<1>2. /\ pc' \in [Callers -> Steps]
      /\ pc'[c] = to
      /\ \A d \in Callers \ {c} : pc'[d] = pc[d]
  BY <1>1, GotoMoves
<1>3. \A d \in Callers : Leading(d)' <=> Leading(d)
  BY <1>2 DEF Leading
<1>4. SingleLeader'
  BY <1>3 DEF IInv, SingleLeader
<1>. QED
  BY <1>2, <1>4 DEF IInv, SingleLeader

\* begin, in both branches.
LEMMA BeginIInv == ASSUME IInv, NEW c \in Callers, Begin(c) PROVE IInv'
<1>1. TypeOK
  BY DEF IInv
<1>2. pc[c] = "gate" /\ UNCHANGED <<session, flight, outcome, word>>
  BY DEF Begin
<1>3. ~Leading(c)
  BY <1>2 DEF Leading
<1>4. CASE pending # None /\ joined' = [joined EXCEPT ![c] = pending]
           /\ Goto(c, "join") /\ UNCHANGED <<pending, attempt>>
  <2>1. /\ joined' \in [Callers -> Attempts \cup {None}]
        /\ \A d \in Callers \ {c} : joined'[d] = joined[d]
    BY <1>1, <1>4 DEF TypeOK
  <2>2. session' \in {session, "none"} /\ lastWord' \in Words /\ crossed' \in BOOLEAN
    BY <1>1, <1>2 DEF TypeOK, word
  <2>3. "join" \in Steps
    BY DEF Steps
  <2>. QED
    BY <1>2, <1>3, <1>4, <2>1, <2>2, <2>3, FollowerIInv
<1>5. CASE pending = None /\ \E a \in Attempts : Start(c, a)
  <2>1. PICK a \in Attempts : Start(c, a)
    BY <1>5
  <2>2. "lead" \in Steps /\ Goto(c, "lead")
    BY <2>1 DEF Steps, Start
  <2>3. /\ pc' \in [Callers -> Steps]
        /\ pc'[c] = "lead"
        /\ \A d \in Callers \ {c} : pc'[d] = pc[d]
    BY <1>1, <2>2, GotoMoves
  <2>4. TypeOK'
    BY <1>1, <1>2, <2>1, <2>3 DEF TypeOK, Start, word
  <2>5. \A d \in Callers : ~Leading(d)
    BY <1>5 DEF IInv, SingleLeader
  <2>6. pending' # None /\ joined'[c] = pending'
    BY <1>1, <2>1, SessionAssumption DEF TypeOK, Start
  <2>7. SingleLeader'
    BY <2>3, <2>5, <2>6 DEF SingleLeader, Leading
  <2>8. NoRedundantRequest' /\ RejectedSessionIsGone' /\ FlightHasLeader'
    BY <1>2, <2>3 DEF IInv, NoRedundantRequest, RejectedSessionIsGone, FlightHasLeader
  <2>. QED
    BY <2>4, <2>7, <2>8 DEF IInv
<1>. QED
  BY <1>4, <1>5 DEF Begin

\* The leader's steps up to publish.
LEMMA LeaderIInv ==
    ASSUME IInv, NEW c \in Callers,
           \/ Lead(c) \/ BeginLogin(c) \/ LoginReply(c) \/ SaveToken(c)
           \/ SessionFromStore(c) \/ DiscardUnusable(c)
    PROVE  IInv'
<1>1. TypeOK
  BY DEF IInv
<1>2. Leading(c) /\ UNCHANGED <<pending, attempt, joined>>
  BY DEF Leading, Lead, BeginLogin, LoginReply, SaveToken, SessionFromStore, DiscardUnusable
<1>3. PICK to \in {"auth", "wire", "save", "readback", "fail", "publish"} : Goto(c, to)
  BY DEF Lead, BeginLogin, LoginReply, SaveToken, SessionFromStore, DiscardUnusable
<1>4. to \in Steps
  BY DEF Steps
<1>5. /\ SingleLeader'
      /\ pc' \in [Callers -> Steps]
      /\ pc'[c] = to
      /\ \A d \in Callers \ {c} : pc'[d] = pc[d] /\ ~Leading(d)
  BY <1>2, <1>3, <1>4, StillLeading
<1>6. /\ session' \in Sessions /\ flight' \in BOOLEAN
      /\ lastWord' \in Words /\ crossed' \in BOOLEAN
  BY <1>1 DEF TypeOK, Sessions, Words, word, Lead, BeginLogin, LoginReply, SaveToken,
              SessionFromStore, DiscardUnusable
<1>7. \E o \in Outcomes : Result(c, o) \/ outcome' = outcome
  BY DEF Outcomes, Lead, BeginLogin, LoginReply, SaveToken, SessionFromStore, DiscardUnusable
<1>8. outcome' \in [Callers -> Outcomes]
  BY <1>1, <1>7, ResultChanges DEF TypeOK
<1>9. TypeOK'
  BY <1>1, <1>2, <1>5, <1>6, <1>8 DEF TypeOK
<1>10. pc[c] \in {"lead", "auth", "wire", "save", "readback", "fail"}
  BY DEF Lead, BeginLogin, LoginReply, SaveToken, SessionFromStore, DiscardUnusable
<1>11. NoRedundantRequest'
  <2>1. pc'[c] \in {"auth", "wire"} => session' # "usable"
    BY <1>1, <1>5 DEF IInv, TypeOK, NoRedundantRequest, Goto, Lead, BeginLogin, LoginReply,
       SaveToken, SessionFromStore, DiscardUnusable
  <2>. QED
    BY <1>5, <2>1 DEF NoRedundantRequest, Leading
<1>12. FlightHasLeader'
  <2>1. flight' => pc'[c] \in {"wire", "save", "readback"}
    <3>1. flight => pc[c] \in {"wire", "save", "readback"}
      BY <1>5 DEF IInv, FlightHasLeader, Leading
    <3>. QED
      BY <1>1, <3>1 DEF TypeOK, Goto, Lead, BeginLogin, LoginReply, SaveToken,
         SessionFromStore, DiscardUnusable
  <2>. QED
    BY <2>1 DEF FlightHasLeader
<1>13. RejectedSessionIsGone'
  <2>1. pc'[c] = "publish" /\ outcome'[c] = "account" => session' = "none"
    BY <1>1 DEF TypeOK, Goto, Result, Lead, BeginLogin, LoginReply, SaveToken,
       SessionFromStore, DiscardUnusable, SessionUnusable
  <2>. QED
    BY <1>5, <2>1 DEF RejectedSessionIsGone, Leading
<1>. QED
  BY <1>5, <1>9, <1>11, <1>12, <1>13 DEF IInv

LEMMA PublishIInv == ASSUME IInv, NEW c \in Callers, Publish(c) PROVE IInv'
<1>1. TypeOK
  BY DEF IInv
<1>2. "idle" \in Steps /\ "ok" \in Outcomes /\ Goto(c, "idle") /\ Result(c, "ok")
  BY DEF Steps, Outcomes, Publish
<1>3. /\ pc' \in [Callers -> Steps]
      /\ pc'[c] = "idle"
      /\ \A d \in Callers \ {c} : pc'[d] = pc[d]
  BY <1>1, <1>2, GotoMoves
<1>4. /\ outcome' \in [Callers -> Outcomes]
      /\ \A d \in Callers \ {c} : outcome'[d] = outcome[d]
  BY <1>1, <1>2, ResultChanges
<1>5. TypeOK'
  BY <1>1, <1>3, <1>4 DEF TypeOK, Publish, word
<1>6. \A d \in Callers : ~Leading(d)'
  BY <1>3 DEF IInv, SingleLeader, Leading, Publish
<1>7. SingleLeader'
  BY <1>6 DEF SingleLeader
<1>8. NoRedundantRequest' /\ RejectedSessionIsGone'
  BY <1>6 DEF NoRedundantRequest, RejectedSessionIsGone, Leading
<1>9. FlightHasLeader'
  BY <1>3 DEF IInv, FlightHasLeader, Publish
<1>. QED
  BY <1>5, <1>7, <1>8, <1>9 DEF IInv

LEMMA NextIInv == IInv /\ [Next]_vars => IInv'
<1>. SUFFICES ASSUME IInv, [Next]_vars PROVE IInv'
  OBVIOUS
<1>1. TypeOK
  BY DEF IInv
<1>2. CASE UNCHANGED vars
  BY <1>2 DEF vars, word, IInv, TypeOK, SingleLeader, Leading, NoRedundantRequest,
     FlightHasLeader, RejectedSessionIsGone
<1>3. CASE Age
  BY <1>3 DEF Age, word, IInv, TypeOK, Sessions, SingleLeader, Leading, NoRedundantRequest,
     FlightHasLeader, RejectedSessionIsGone
<1>4. ASSUME NEW c \in Callers,
             \/ Login(c) \/ Logout(c) \/ JoinCancelled(c) \/ JoinDone(c)
             \/ LogoutReply(c) \/ LogoutClear(c)
      PROVE  IInv'
  <2>1. ~Leading(c) /\ UNCHANGED <<pending, attempt, flight, outcome>>
    BY <1>4 DEF Leading, Login, Logout, JoinCancelled, JoinDone, LogoutReply, LogoutClear
  <2>2. PICK to \in {"idle", "gate", "join", "logoutWire", "clear"} : Goto(c, to)
    BY <1>4 DEF Login, Logout, JoinCancelled, JoinDone, LogoutReply, LogoutClear
  <2>3. to \in Steps
    BY DEF Steps
  <2>4. /\ joined' \in [Callers -> Attempts \cup {None}]
        /\ \A d \in Callers \ {c} : joined'[d] = joined[d]
    BY <1>1, <1>4 DEF TypeOK, Login, Logout, JoinCancelled, JoinDone, LogoutReply, LogoutClear
  <2>5. session' \in {session, "none"} /\ lastWord' \in Words /\ crossed' \in BOOLEAN
    BY <1>1, <1>4 DEF TypeOK, Words, word, Login, Logout, JoinCancelled, JoinDone, LogoutReply,
                      LogoutClear
  <2>. QED
    BY <2>1, <2>2, <2>3, <2>4, <2>5, FollowerIInv
<1>. QED
  BY <1>2, <1>3, <1>4, BeginIInv, LeaderIInv, PublishIInv DEF Next, Progress

LEMMA Inductive == Spec => []IInv
BY InitIInv, NextIInv, PTL DEF Spec

\* Every variable keeps its type.
THEOREM TypeCorrect == Spec => []TypeOK
BY Inductive, PTL DEF IInv

\* One login at a time: at most one caller is between begin and publish.
THEOREM OneLoginInFlight == Spec => []SingleLeader
BY Inductive, PTL DEF IInv

\* The re-read in lead closes the window between Login's read and the gate: no
\* login request is sent while a usable session is stored.
THEOREM NoLoginIsWasted == Spec => []NoRedundantRequest
BY Inductive, PTL DEF IInv

\* The flight inside internal/auth never has a second claimant.
THEOREM InnerFlightNeverContended == Spec => []InnerFlightIsFree
<1>1. IInv => InnerFlightIsFree
  BY DEF IInv, InnerFlightIsFree, FlightHasLeader, SingleLeader, Leading
<1>. QED
  BY <1>1, Inductive, PTL

\* What the Gateway said last is stored, or about to be: StoreFollowsTheGateway in
\* the middle of things.  An acknowledged login is kept because nobody is left who
\* would clear it, and an ended one is not restored because nobody is left who would
\* save it.
GrantedIsKept ==
    /\ \A c \in Callers : pc[c] # "clear"
    /\ \A c \in Callers : pc[c] = "fail" => outcome[c] # "account"
    /\ session # "none" \/ \E c \in Callers : pc[c] = "save"
EndedIsCleared ==
    /\ \A c \in Callers : pc[c] # "save"
    /\ session = "none" \/ \E c \in Callers : pc[c] = "clear"
RejectedIsCleared ==
    /\ \A c \in Callers : pc[c] # "save"
    /\ session = "none" \/ \E c \in Callers : pc[c] = "fail" /\ outcome[c] = "account"

WordIsStored ==
    ~crossed => /\ lastWord = "login" => GrantedIsKept
                /\ lastWord = "logout" => EndedIsCleared
                /\ lastWord = "account" => RejectedIsCleared

\* A caller that moves between steps where nothing is owed to the store.
LEMMA QuietStep ==
    ASSUME TypeOK, WordIsStored, NEW c \in Callers, NEW to \in Steps, Goto(c, to),
           pc[c] \notin {"save", "clear", "fail"}, to \notin {"save", "clear"},
           to = "fail" => outcome'[c] # "account",
           \A d \in Callers \ {c} : outcome'[d] = outcome[d],
           UNCHANGED <<session, lastWord, crossed>>
    PROVE  WordIsStored'
<1>1. pc'[c] = to /\ \A d \in Callers \ {c} : pc'[d] = pc[d]
  BY GotoMoves
<1>2. GrantedIsKept => GrantedIsKept'
  BY <1>1 DEF GrantedIsKept
<1>3. EndedIsCleared => EndedIsCleared'
  BY <1>1 DEF EndedIsCleared
<1>4. RejectedIsCleared => RejectedIsCleared'
  BY <1>1 DEF RejectedIsCleared
<1>. QED
  BY <1>2, <1>3, <1>4 DEF WordIsStored

\* The replies, in which the Gateway has its word.
LEMMA ReplyStores ==
    ASSUME IInv, WordIsStored, NEW c \in Callers, LoginReply(c) \/ LogoutReply(c)
    PROVE  WordIsStored'
<1>1. TypeOK /\ SingleLeader
  BY DEF IInv
<1>2. CASE pc[c] = "wire" /\ Goto(c, "save") /\ lastWord' = "login"
           /\ crossed' = (\E d \in Callers : pc[d] = "clear") /\ outcome' = outcome
  <2>1. pc'[c] = "save" /\ \A d \in Callers \ {c} : pc'[d] = pc[d]
    BY <1>1, <1>2 DEF Goto, TypeOK
  <2>2. \A d \in Callers \ {c} : ~Leading(d)
    BY <1>1, <1>2 DEF SingleLeader, Leading
  <2>3. ~crossed' => GrantedIsKept'
    BY <1>2, <2>1, <2>2 DEF GrantedIsKept, Leading
  <2>. QED
    BY <1>2, <2>3 DEF WordIsStored
<1>3. ASSUME NEW o \in {"refused", "account", "transient"}, pc[c] = "wire", Goto(c, "fail"),
             Result(c, o), lastWord' = (IF o = "transient" THEN lastWord ELSE o),
             crossed' = (o = "transient" /\ crossed), session' = session
      PROVE  WordIsStored'
  <2>1. "fail" \in Steps /\ o \in Outcomes
    BY DEF Steps, Outcomes
  <2>2. /\ outcome'[c] = o
        /\ \A d \in Callers \ {c} : outcome'[d] = outcome[d]
    BY <1>1, <1>3, <2>1, ResultChanges
  <2>3. pc'[c] = "fail" /\ \A d \in Callers \ {c} : pc'[d] = pc[d]
    BY <1>1, <1>3, <2>1, GotoMoves
  <2>4. CASE o = "transient"
    BY <1>1, <1>3, <2>1, <2>2, <2>4, QuietStep DEF TypeOK
  <2>5. CASE o = "refused"
    BY <1>3, <2>5 DEF WordIsStored
  <2>6. CASE o = "account"
    <3>1. \A d \in Callers \ {c} : ~Leading(d)
      BY <1>1, <1>3 DEF SingleLeader, Leading
    <3>2. RejectedIsCleared'
      BY <2>2, <2>3, <2>6, <3>1 DEF RejectedIsCleared, Leading
    <3>. QED
      BY <1>3, <2>6, <3>2 DEF WordIsStored
  <2>. QED
    BY <2>4, <2>5, <2>6
<1>4. CASE pc[c] = "logoutWire" /\ Goto(c, "clear") /\ lastWord' = "logout"
           /\ crossed' = (\E d \in Callers : pc[d] = "save")
  <2>1. pc'[c] = "clear" /\ \A d \in Callers \ {c} : pc'[d] = pc[d]
    BY <1>1, <1>4 DEF Goto, TypeOK
  <2>2. ~crossed' => EndedIsCleared'
    BY <1>4, <2>1 DEF EndedIsCleared
  <2>. QED
    BY <1>4, <2>2 DEF WordIsStored
<1>5. CASE pc[c] = "logoutWire" /\ Goto(c, "idle") /\ UNCHANGED <<word, session, outcome>>
  <2>1. "idle" \in Steps
    BY DEF Steps
  <2>. QED
    BY <1>1, <1>5, <2>1, QuietStep DEF word
<1>6. ASSUME LoginReply(c) PROVE WordIsStored'
  BY <1>2, <1>3, <1>6 DEF LoginReply
<1>7. ASSUME LogoutReply(c) PROVE WordIsStored'
  BY <1>4, <1>5, <1>7 DEF LogoutReply
<1>. QED
  BY <1>6, <1>7

\* The three steps in which the store is made to follow.
LEMMA StoreStep ==
    ASSUME IInv, WordIsStored, NEW c \in Callers,
           SaveToken(c) \/ DiscardUnusable(c) \/ LogoutClear(c)
    PROVE  WordIsStored'
<1>1. TypeOK /\ UNCHANGED <<lastWord, crossed, outcome>>
  BY DEF IInv, SaveToken, DiscardUnusable, LogoutClear, word
<1>2. PICK to \in {"readback", "publish", "idle"} : Goto(c, to)
  BY DEF SaveToken, DiscardUnusable, LogoutClear
<1>3. to \in Steps
  BY DEF Steps
<1>4. pc'[c] = to /\ \A d \in Callers \ {c} : pc'[d] = pc[d]
  BY <1>1, <1>2, <1>3, GotoMoves
<1>5. GrantedIsKept => GrantedIsKept'
  BY <1>1, <1>4 DEF GrantedIsKept, SaveToken, DiscardUnusable, LogoutClear, SessionUnusable
<1>6. EndedIsCleared => EndedIsCleared'
  BY <1>1, <1>4 DEF EndedIsCleared, SaveToken, DiscardUnusable, LogoutClear, SessionUnusable
<1>7. RejectedIsCleared => RejectedIsCleared'
  BY <1>1, <1>4 DEF RejectedIsCleared, SaveToken, DiscardUnusable, LogoutClear, SessionUnusable
<1>. QED
  BY <1>1, <1>5, <1>6, <1>7 DEF WordIsStored

LEMMA NextWordIsStored == IInv /\ WordIsStored /\ [Next]_vars => WordIsStored'
<1>. SUFFICES ASSUME IInv, WordIsStored, [Next]_vars PROVE WordIsStored'
  OBVIOUS
<1>1. TypeOK
  BY DEF IInv
<1>2. CASE UNCHANGED vars
  BY <1>2 DEF vars, word, WordIsStored, GrantedIsKept, EndedIsCleared, RejectedIsCleared
<1>3. CASE Age
  BY <1>3 DEF Age, word, WordIsStored, GrantedIsKept, EndedIsCleared, RejectedIsCleared
<1>4. ASSUME NEW c \in Callers,
             \/ Login(c) \/ Logout(c) \/ JoinCancelled(c) \/ JoinDone(c) \/ Begin(c)
             \/ Lead(c) \/ BeginLogin(c) \/ SessionFromStore(c) \/ Publish(c)
      PROVE  WordIsStored'
  <2>1. pc[c] \notin {"save", "clear", "fail"} /\ UNCHANGED <<session, lastWord, crossed>>
    BY <1>4 DEF Login, Logout, JoinCancelled, JoinDone, Begin, Lead, BeginLogin,
       SessionFromStore, Publish, word
  <2>2. PICK to \in Steps : Goto(c, to) /\ to \notin {"save", "clear"}
                            /\ (to = "fail" => Result(c, "notStored"))
    BY <1>4 DEF Steps, Login, Logout, JoinCancelled, JoinDone, Begin, Start, Lead, BeginLogin,
       SessionFromStore, Publish
  <2>3. outcome' = outcome \/ \E o \in {"ok", "notStored"} : Result(c, o)
    BY <1>4 DEF Login, Logout, JoinCancelled, JoinDone, Begin, Lead, BeginLogin,
       SessionFromStore, Publish
  <2>4. \A d \in Callers \ {c} : outcome'[d] = outcome[d]
    BY <1>1, <2>3 DEF TypeOK, Result
  <2>5. to = "fail" => outcome'[c] # "account"
    BY <1>1, <2>2 DEF TypeOK, Result
  <2>. QED
    BY <1>1, <2>1, <2>2, <2>4, <2>5, QuietStep
<1>. QED
  BY <1>2, <1>3, <1>4, ReplyStores, StoreStep DEF Next, Progress

\* The store follows the Gateway's last word: no transient failure, for any number
\* of callers, loses a session, and none that was ended or rejected is left behind
\* unless a login and a Logout crossed.
THEOREM LastWordIsStored == Spec => []StoreFollowsTheGateway
<1>1. Init => WordIsStored
  BY DEF Init, WordIsStored
<1>2. WordIsStored => StoreFollowsTheGateway
  BY DEF WordIsStored, GrantedIsKept, EndedIsCleared, RejectedIsCleared, Settled,
     StoreFollowsTheGateway
<1>. QED
  BY <1>1, <1>2, NextWordIsStored, Inductive, PTL DEF Spec

\* A rejected session is never published alongside its rejection.
THEOREM RejectionDropsSession == Spec => []RejectedSessionIsGone
BY Inductive, PTL DEF IInv

-----------------------------------------------------------------------------
(* The pipeline implements OrderedDelivery.  Along the whole way, read     *)
(* loop, dispatcher channel, handler, Updates channel, application,        *)
(* numbers only fall.  Evicting keeps a channel climbing, and what is sent *)
(* into one is newer than everything in it.                                *)

Climbs(s) == \A i, j \in DOMAIN s : i < j => s[i] < s[j]

\* The update the application received last.
LastUpdate == IF received = <<>> THEN 0 ELSE received[Len(received)]

PipeTypes ==
    /\ queue \in Seq(Nat) /\ received \in Seq(Nat) /\ times \in Seq(Nat)
    /\ frameOf \in Seq(Nat) /\ disp \in Seq(Nat)
    /\ frames \in Nat /\ hand \in Nat
    /\ step \in {"idle", "send", "evict", "resend"}
    /\ dstep \in {"idle", "send", "evict", "resend"}

\* The updates channel: numbers climb, above what the application has.
QueueInv ==
    /\ Climbs(queue)
    /\ LastUpdate \in Nat /\ LastUpdate <= Len(times)
    /\ received # <<>> => LastUpdate > 0
    /\ \A i \in DOMAIN queue : LastUpdate < queue[i] /\ queue[i] <= Len(times)
    /\ step # "idle" => /\ LastUpdate < Len(times)
                        /\ \A i \in DOMAIN queue : queue[i] < Len(times)

\* The updates' notifications: they climb, and what is still before them is
\* newer.
FrameInv ==
    /\ Len(frameOf) = Len(times)
    /\ Climbs(frameOf)
    /\ \A i \in DOMAIN frameOf : frameOf[i] \in 1..frames
    /\ hand # 0 => hand \in 1..frames /\ \A i \in DOMAIN frameOf : frameOf[i] < hand

\* The dispatcher's channel, and the notification being dispatched.
DispInv ==
    /\ Climbs(disp)
    /\ \A j \in DOMAIN disp : /\ disp[j] \in 1..frames /\ hand < disp[j]
                              /\ \A i \in DOMAIN frameOf : frameOf[i] < disp[j]
    /\ dstep # "idle" => /\ frames > hand
                         /\ \A i \in DOMAIN frameOf : frameOf[i] < frames
                         /\ \A j \in DOMAIN disp : disp[j] < frames

PipeInv == PipeTypes /\ QueueInv /\ FrameInv /\ DispInv

-----------------------------------------------------------------------------
\* A channel that is read from keeps climbing: taking the head off.
LEMMA TailClimbs ==
    ASSUME NEW s \in Seq(Nat), s # <<>>, Climbs(s)
    PROVE  /\ Tail(s) \in Seq(Nat) /\ Climbs(Tail(s)) /\ Head(s) \in Nat
           /\ \A i \in DOMAIN Tail(s) : Head(s) < Tail(s)[i] /\ i + 1 \in DOMAIN s
                                        /\ Tail(s)[i] = s[i + 1]
           /\ Head(s) = s[1] /\ 1 \in DOMAIN s
  BY SMTT(20) DEF Climbs

\* A channel that is sent something newer than all it holds keeps climbing.
LEMMA AppendClimbs ==
    ASSUME NEW s \in Seq(Nat), Climbs(s), NEW n \in Nat, \A i \in DOMAIN s : s[i] < n
    PROVE  /\ Append(s, n) \in Seq(Nat) /\ Climbs(Append(s, n))
           /\ Len(Append(s, n)) = Len(s) + 1
           /\ \A i \in DOMAIN Append(s, n) :
                (i \in DOMAIN s /\ Append(s, n)[i] = s[i]) \/ (i = Len(s) + 1 /\ Append(s, n)[i] = n)
           /\ \A i \in DOMAIN s : i \in DOMAIN Append(s, n) /\ Append(s, n)[i] = s[i]
  BY SMTT(20) DEF Climbs

\* What was appended is the last.
LEMMA AppendLast ==
    ASSUME NEW s \in Seq(Nat), NEW n \in Nat
    PROVE  Append(s, n) \in Seq(Nat) /\ Append(s, n) # <<>> /\ Append(s, n)[Len(Append(s, n))] = n
<1>1. Append(s, n) \in Seq(Nat) /\ Len(Append(s, n)) = Len(s) + 1 /\ Len(s) \in Nat
  BY SMTT(20)
<1>2. Append(s, n)[Len(s) + 1] = n
  BY SMTT(20)
<1>3. Append(s, n) # <<>>
  BY SMTT(20), <1>1
<1> QED BY <1>1, <1>2, <1>3

-----------------------------------------------------------------------------
\* The invariant holds at the start: nothing has been read.
LEMMA PipeInvInit == PipeInit => PipeInv
  BY SMTT(20) DEF PipeInit, DeliveryInit, PipeInv, PipeTypes, QueueInv, FrameInv, DispInv, Climbs, LastUpdate

\* What deliver and the application leave alone keeps the channel's part.
LEMMA QueueFrame == QueueInv /\ UNCHANGED <<queue, received, times, step>> => QueueInv'
<1> SUFFICES ASSUME QueueInv, UNCHANGED <<queue, received, times, step>> PROVE QueueInv'
  OBVIOUS
<1>1. LastUpdate' = LastUpdate
  BY DEF LastUpdate
<1> QED BY <1>1 DEF QueueInv, Climbs

\* dispatch gives the next number, above all that are under way.
LEMMA DispatchPreserves == PipeInv /\ dispatch => PipeInv'
<1> SUFFICES ASSUME PipeInv, dispatch PROVE PipeInv'
  OBVIOUS
<1>1. QueueInv'
  BY QueueFrame DEF dispatch, deliveryVars, PipeInv
<1>2. FrameInv'
  BY SMTT(20) DEF dispatch, deliveryVars, PipeInv, PipeTypes, FrameInv, Climbs
<1>3. DispInv'
  BY SMTT(20) DEF dispatch, deliveryVars, PipeInv, PipeTypes, FrameInv, DispInv, Climbs
<1> QED BY SMTT(20), <1>1, <1>2, <1>3 DEF dispatch, deliveryVars, PipeInv, PipeTypes

\* The three selects of dispatch: sending the newest, evicting the oldest.
LEMMA DispatchSelectsPreserve ==
    PipeInv /\ (DispatchSend \/ DispatchEvict \/ DispatchResend) => PipeInv'
<1> SUFFICES ASSUME PipeInv, DispatchSend \/ DispatchEvict \/ DispatchResend
             PROVE  PipeInv'
  OBVIOUS
<1> USE DEF PipeInv
<1>1. UNCHANGED <<deliveryVars, frames, hand, frameOf>> /\ dstep # "idle"
      /\ dstep' \in {"idle", "evict", "resend"}
  BY DEF DispatchSend, DispatchEvict, DispatchResend
<1>2. QueueInv' /\ FrameInv'
  BY <1>1 DEF QueueInv, FrameInv, Climbs, LastUpdate, deliveryVars
<1>3. CASE disp' = disp
  BY <1>1, <1>2, <1>3 DEF PipeTypes, DispInv, Climbs, deliveryVars
<1>4. CASE disp' = Append(disp, frames) /\ dstep' = "idle"
  <2>1. frames \in Nat /\ frames > hand /\ \A j \in DOMAIN disp : disp[j] < frames
    BY <1>1 DEF DispInv, PipeTypes
  <2>2. disp' \in Seq(Nat) /\ Climbs(disp')
    BY <2>1, <1>4, AppendClimbs DEF DispInv, PipeTypes
  <2>3. \A j \in DOMAIN disp' : (j \in DOMAIN disp /\ disp'[j] = disp[j]) \/ disp'[j] = frames
    BY SMTT(20), <2>1, <1>4, AppendClimbs DEF DispInv, PipeTypes
  <2>4. ASSUME NEW j \in DOMAIN disp'
        PROVE  /\ disp'[j] \in 1..frames /\ hand < disp'[j]
               /\ \A i \in DOMAIN frameOf : frameOf[i] < disp'[j]
    <3>1. CASE j \in DOMAIN disp /\ disp'[j] = disp[j]
      BY <3>1 DEF DispInv
    <3>2. CASE disp'[j] = frames
      BY SMTT(20), <3>2, <2>1, <1>1 DEF DispInv, PipeTypes
    <3> QED BY <2>3, <3>1, <3>2
  <2>5. DispInv'
    BY <1>1, <1>4, <2>2, <2>4 DEF DispInv
  <2> QED BY <1>1, <1>2, <1>4, <2>2, <2>5 DEF PipeTypes, deliveryVars
<1>5. CASE disp # <<>> /\ disp' = Tail(disp)
  <2>1. disp' \in Seq(Nat) /\ Climbs(disp')
        /\ \A i \in DOMAIN disp' : i + 1 \in DOMAIN disp /\ disp'[i] = disp[i + 1]
    BY <1>5, TailClimbs DEF DispInv, PipeTypes
  <2>2. DispInv'
    BY <1>1, <2>1 DEF DispInv, PipeTypes, deliveryVars, Climbs
  <2> QED BY <1>1, <1>2, <2>1, <2>2 DEF PipeTypes, deliveryVars
<1> QED BY <1>3, <1>4, <1>5 DEF DispatchSend, DispatchEvict, DispatchResend

\* The goroutine of SubscribeTypes takes the oldest notification.
LEMMA TakePreserves == PipeInv /\ Take => PipeInv'
<1> SUFFICES ASSUME PipeInv, Take PROVE PipeInv'
  OBVIOUS
<1> USE DEF PipeInv
<1>1. /\ disp' \in Seq(Nat) /\ Climbs(disp') /\ hand' \in Nat
      /\ \A i \in DOMAIN disp' : hand' < disp'[i] /\ i + 1 \in DOMAIN disp /\ disp'[i] = disp[i + 1]
      /\ hand' = disp[1] /\ 1 \in DOMAIN disp
  BY TailClimbs DEF Take, DispInv, PipeTypes
<1>2. QueueInv'
  BY DEF Take, QueueInv, Climbs, LastUpdate, deliveryVars
<1>3. FrameInv'
  BY <1>1 DEF Take, FrameInv, DispInv, PipeTypes, deliveryVars, Climbs
<1>4. DispInv'
  BY <1>1 DEF Take, FrameInv, DispInv, PipeTypes, deliveryVars
<1> QED BY <1>1, <1>2, <1>3, <1>4 DEF Take, PipeTypes, deliveryVars

\* The handler passes it on as the next update, or drops it.
LEMMA HandlePreserves == ASSUME NEW t \in 0..MaxTime PROVE PipeInv /\ Handle(t) => PipeInv'
<1> SUFFICES ASSUME PipeInv, Handle(t) PROVE PipeInv'
  OBVIOUS
<1> USE DEF PipeInv
<1>1. hand # 0 /\ hand' = 0 /\ UNCHANGED <<frames, disp, dstep, queue, received>>
  BY DEF Handle, Deliver, deliveryVars
<1>2. CASE UNCHANGED <<deliveryVars, frameOf>>
  <2>1. QueueInv'
    BY <1>2, QueueFrame DEF deliveryVars
  <2> QED BY SMTT(20), <1>1, <1>2, <2>1 DEF PipeTypes, FrameInv, DispInv, Climbs, deliveryVars
<1>3. CASE Deliver(t) /\ frameOf' = Append(frameOf, hand)
  <2>0. t \in Nat
    BY SMTT(20), DeliveryAssumption
  <2>1. times' = Append(times, t) /\ step = "idle" /\ step' = "send"
    BY <1>3 DEF Deliver
  <2>2. times' \in Seq(Nat) /\ Len(times') = Len(times) + 1 /\ Len(times) \in Nat
    BY SMTT(20), <2>0, <2>1 DEF PipeTypes
  <2>3. /\ frameOf' \in Seq(Nat) /\ Climbs(frameOf') /\ Len(frameOf') = Len(frameOf) + 1
        /\ \A i \in DOMAIN frameOf' : (i \in DOMAIN frameOf /\ frameOf'[i] = frameOf[i]) \/ frameOf'[i] = hand
    BY SMTT(20), <1>1, <1>3, AppendClimbs DEF FrameInv, PipeTypes
  <2>4. QueueInv'
    BY SMTT(20), <1>1, <2>1, <2>2 DEF QueueInv, PipeTypes, LastUpdate, Climbs
  <2>5. FrameInv'
    BY <1>1, <2>2, <2>3 DEF FrameInv, PipeTypes
  <2>6. ASSUME NEW j \in DOMAIN disp, NEW i \in DOMAIN frameOf'
        PROVE  frameOf'[i] < disp[j]
    BY <2>3 DEF DispInv
  <2>7. ASSUME dstep # "idle", NEW i \in DOMAIN frameOf'
        PROVE  frameOf'[i] < frames
    BY <2>3, <2>7 DEF DispInv
  <2>8. DispInv'
    BY SMTT(20), <1>1, <2>6, <2>7 DEF DispInv, PipeTypes, Climbs
  <2> QED BY <1>1, <2>1, <2>2, <2>3, <2>4, <2>5, <2>8 DEF PipeTypes
<1> QED BY <1>2, <1>3 DEF Handle

\* The selects of deliver: the current update is the newest of all.
LEMMA DeliverSelectsPreserve ==
    PipeInv /\ (Send \/ Evict \/ Resend) /\ UNCHANGED pipeVars => PipeInv'
<1> SUFFICES ASSUME PipeInv, Send \/ Evict \/ Resend, UNCHANGED pipeVars
             PROVE  PipeInv'
  OBVIOUS
<1> USE DEF PipeInv
<1>1. /\ UNCHANGED <<received, times, frames, disp, dstep, hand, frameOf>>
      /\ step # "idle" /\ step' \in {"idle", "evict", "resend"}
  BY DEF Send, Evict, Resend, pipeVars
<1>2. FrameInv' /\ DispInv'
  BY <1>1 DEF FrameInv, DispInv, Climbs
<1>3. LastUpdate' = LastUpdate /\ LastUpdate < Len(times) /\ Len(times) \in Nat
  BY SMTT(20), <1>1 DEF LastUpdate, QueueInv, PipeTypes
<1>4. CASE queue' = queue
  BY <1>1, <1>2, <1>3, <1>4 DEF PipeTypes, QueueInv, Climbs
<1>5. CASE queue' = Append(queue, Current) /\ step' = "idle"
  <2>1. Current = Len(times) /\ \A i \in DOMAIN queue : queue[i] < Len(times)
    BY <1>1 DEF Current, Accepted, QueueInv
  <2>2. /\ queue' \in Seq(Nat) /\ Climbs(queue')
        /\ \A i \in DOMAIN queue' : (i \in DOMAIN queue /\ queue'[i] = queue[i]) \/ queue'[i] = Len(times)
    BY SMTT(20), <1>3, <1>5, <2>1, AppendClimbs DEF QueueInv, PipeTypes
  <2>3. \A i \in DOMAIN queue' : LastUpdate < queue'[i] /\ queue'[i] <= Len(times)
    BY SMTT(20), <1>3, <2>2 DEF QueueInv
  <2>4. QueueInv'
    BY <1>1, <1>3, <1>5, <2>2, <2>3 DEF QueueInv
  <2> QED BY <1>1, <1>2, <1>5, <2>2, <2>4 DEF PipeTypes
<1>6. CASE queue # <<>> /\ queue' = Tail(queue)
  <2>1. queue' \in Seq(Nat) /\ Climbs(queue')
        /\ \A i \in DOMAIN queue' : i + 1 \in DOMAIN queue /\ queue'[i] = queue[i + 1]
    BY <1>6, TailClimbs DEF QueueInv, PipeTypes
  <2>2. QueueInv'
    BY <1>1, <1>3, <2>1 DEF QueueInv
  <2> QED BY <1>1, <1>2, <2>1, <2>2 DEF PipeTypes
<1> QED BY <1>4, <1>5, <1>6 DEF Send, Evict, Resend

\* The application receives the oldest update, older than all still queued and
\* newer than the last it received.
LEMMA ReceivePreserves ==
    ASSUME PipeInv, Receive, UNCHANGED pipeVars
    PROVE  /\ PipeInv'
           /\ received' # <<>> /\ received'[Len(received')] = Head(queue)
           /\ LastUpdate < Head(queue) /\ Head(queue) \in 1..Len(times)
<1> USE DEF PipeInv
<1>1. /\ queue # <<>> /\ queue' = Tail(queue) /\ received' = Append(received, Head(queue))
      /\ UNCHANGED <<times, step, frames, disp, dstep, hand, frameOf>>
  BY DEF Receive, pipeVars
<1>2. /\ queue' \in Seq(Nat) /\ Climbs(queue') /\ Head(queue) \in Nat
      /\ \A i \in DOMAIN queue' : /\ Head(queue) < queue'[i] /\ i + 1 \in DOMAIN queue
                                  /\ queue'[i] = queue[i + 1]
      /\ Head(queue) = queue[1] /\ 1 \in DOMAIN queue
  BY <1>1, TailClimbs DEF QueueInv, PipeTypes
<1>3. LastUpdate < Head(queue) /\ Head(queue) <= Len(times) /\ Len(times) \in Nat
      /\ LastUpdate \in Nat
  BY SMTT(20), <1>2 DEF QueueInv, PipeTypes
<1>4. received' \in Seq(Nat) /\ received' # <<>> /\ received'[Len(received')] = Head(queue)
  BY <1>1, <1>2, AppendLast DEF PipeTypes
<1>5. LastUpdate' = Head(queue)
  BY <1>4 DEF LastUpdate
<1>6. step # "idle" => Head(queue) < Len(times)
  BY <1>2 DEF QueueInv
<1>7. QueueInv'
  BY SMTT(20), <1>1, <1>2, <1>3, <1>5, <1>6 DEF QueueInv
<1>8. FrameInv' /\ DispInv'
  BY <1>1 DEF FrameInv, DispInv, Climbs
<1>9. Head(queue) \in 1..Len(times)
  BY SMTT(20), <1>2, <1>3
<1> QED BY <1>1, <1>2, <1>3, <1>4, <1>7, <1>8, <1>9 DEF PipeTypes

\* Closing the client, the goroutine or the subscription moves no notification.
LEMMA ClosingPreserves ==
    PipeInv /\ (CloseHandlers \/ HandlerStops \/ (Shutdown /\ UNCHANGED pipeVars)) => PipeInv'
  BY DEF CloseHandlers, HandlerStops, Shutdown, pipeVars, deliveryVars, PipeInv, PipeTypes,
         QueueInv, FrameInv, DispInv, Climbs, LastUpdate

\* PipeInv is inductive.
LEMMA PipeInvNext == PipeInv /\ [PipeNext]_allVars => PipeInv'
<1> SUFFICES ASSUME PipeInv, [PipeNext]_allVars PROVE PipeInv'
  OBVIOUS
<1>1. CASE UNCHANGED allVars
  BY <1>1 DEF allVars, deliveryVars, pipeVars, PipeInv, PipeTypes, QueueInv, FrameInv, DispInv,
              Climbs, LastUpdate
<1>2. CASE PipeNext
  BY <1>2, DispatchPreserves, DispatchSelectsPreserve, TakePreserves, HandlePreserves,
     DeliverSelectsPreserve, ReceivePreserves, ClosingPreserves DEF PipeNext
<1> QED BY <1>1, <1>2

\* Numbers only fall on the way from the read loop to the application.
THEOREM PipelineClimbs == PipeSpec => []PipeInv
  BY PipeInvInit, PipeInvNext, PTL DEF PipeSpec

-----------------------------------------------------------------------------
\* A step that neither reads a frame nor is received stutters in the promise;
\* Handle appends behind the numbers last refers to.
LEMMA PipelineSteps == PipeInv /\ [PipeNext]_allVars => [Ordered!Next]_<<frames,
    IF received = <<>> THEN 0 ELSE frameOf[received[Len(received)]]>>
<1> DEFINE LastFrame == IF received = <<>> THEN 0 ELSE frameOf[received[Len(received)]]
<1> SUFFICES ASSUME PipeInv, [PipeNext]_allVars
             PROVE  [Ordered!Next]_<<frames, LastFrame>>
  OBVIOUS
<1>1. CASE UNCHANGED <<frames, received, frameOf>>
  BY <1>1
<1>2. CASE dispatch
  <2>1. frames' = frames + 1 /\ LastFrame' = LastFrame
    BY <1>2 DEF dispatch, deliveryVars
  <2> QED BY <2>1 DEF Ordered!Next, Ordered!Arrive
<1>3. CASE \E t \in 0..MaxTime : Handle(t)
  <2>1. UNCHANGED <<frames, received>> /\ (frameOf' = frameOf \/ frameOf' = Append(frameOf, hand))
    BY <1>3 DEF Handle, Deliver, deliveryVars
  <2>2. ASSUME received # <<>>
        PROVE  received[Len(received)] \in 1..Len(frameOf)
    <3>1. /\ LastUpdate = received[Len(received)]
          /\ LastUpdate \in Nat /\ 0 < LastUpdate /\ LastUpdate <= Len(frameOf)
      BY <2>2 DEF PipeInv, LastUpdate, QueueInv, FrameInv
    <3> QED BY SMTT(20), <3>1 DEF PipeInv, PipeTypes
  <2>3. LastFrame' = LastFrame
    BY SMTT(20), <2>1, <2>2 DEF PipeInv, PipeTypes
  <2> QED BY <2>1, <2>3
<1>4. CASE Receive /\ UNCHANGED pipeVars
  <2>1. PICK h \in 1..Len(times) : /\ received' # <<>> /\ received'[Len(received')] = h
                                   /\ LastUpdate < h
    BY <1>4, ReceivePreserves
  <2>2. UNCHANGED <<frames, frameOf>>
    BY <1>4 DEF pipeVars
  <2>3. LastFrame' = frameOf[h]
    BY <2>1, <2>2
  <2>4. frameOf[h] \in 1..frames /\ frames \in Nat
    BY SMTT(20), <2>1 DEF PipeInv, PipeTypes, FrameInv
  <2>5. LastFrame \in Nat /\ LastFrame < frameOf[h]
    <3>1. CASE received = <<>>
      BY SMTT(20), <3>1, <2>4
    <3>2. CASE received # <<>>
      <4>0. LastUpdate = received[Len(received)]
        BY <3>2 DEF LastUpdate
      <4>1. LastUpdate \in 1..Len(frameOf) /\ h \in 1..Len(frameOf) /\ LastUpdate < h
        BY SMTT(20), <3>2, <2>1 DEF PipeInv, PipeTypes, QueueInv, FrameInv
      <4>2. frameOf[LastUpdate] < frameOf[h] /\ frameOf[LastUpdate] \in Nat
        BY SMTT(20), <4>1 DEF PipeInv, PipeTypes, FrameInv, Climbs
      <4> QED BY <3>2, <4>0, <4>2
    <3> QED BY <3>1, <3>2
  <2>6. frameOf[h] \in LastFrame + 1 .. frames
    BY SMTT(20), <2>4, <2>5
  <2> QED BY <2>2, <2>3, <2>6 DEF Ordered!Next, Ordered!Receive
<1> QED
  BY <1>1, <1>2, <1>3, <1>4 DEF PipeNext, allVars, deliveryVars, pipeVars, DispatchSend, DispatchEvict,
     DispatchResend, Take, CloseHandlers, HandlerStops, Send, Evict, Resend, Shutdown

\* For every buffer size and any number of notifications, the pipeline
\* implements the promise: wire order, none twice.
THEOREM PipelineImplementsOrder == PipeSpec => DeliversInOrder
<1>1. PipeInit => Ordered!Init
  BY DEF PipeInit, DeliveryInit, Ordered!Init
<1> QED
  BY <1>1, PipelineClimbs, PipelineSteps, PTL DEF PipeSpec, DeliversInOrder, Ordered!Spec

-----------------------------------------------------------------------------
\* Between the eviction and the second send only the application touches the
\* channel, and it only makes more room.
RoomInv ==
    /\ Len(queue) <= Buffer
    /\ step = "resend" => Len(queue) < Buffer
    /\ NewestSurvives

\* What a sequence holds, after an append and after taking the head off.
LEMMA HeldAfter ==
    ASSUME NEW s \in Seq(Nat), NEW n \in Nat
    PROVE  /\ n \in Range(Append(s, n))
           /\ Range(s) \subseteq Range(Append(s, n))
           /\ s # <<>> => Range(s) \subseteq {Head(s)} \cup Range(Tail(s))
<1>1. \A i \in DOMAIN s : i \in DOMAIN Append(s, n) /\ Append(s, n)[i] = s[i]
  BY SMTT(20)
<1>2. Len(s) + 1 \in DOMAIN Append(s, n) /\ Append(s, n)[Len(s) + 1] = n
  BY SMTT(20)
<1>3. ASSUME s # <<>>, NEW i \in DOMAIN s
      PROVE  s[i] \in {Head(s)} \cup Range(Tail(s))
  <2>1. CASE i = 1
    BY SMTT(20), <2>1
  <2>2. CASE i # 1
    <3>1. i - 1 \in DOMAIN Tail(s) /\ Tail(s)[i - 1] = s[i]
      BY SMTT(20), <1>3, <2>2
    <3> QED BY <3>1 DEF Range
  <2> QED BY <2>1, <2>2
<1> QED BY <1>1, <1>2, <1>3 DEF Range

\* RoomInv is inductive, given the types.
LEMMA RoomInvNext == PipeInv /\ RoomInv /\ [PipeNext]_allVars => RoomInv'
<1> SUFFICES ASSUME PipeTypes, RoomInv, [PipeNext]_allVars PROVE RoomInv'
  BY DEF PipeInv
<1> USE DeliveryAssumption
<1>0. Buffer \in Nat /\ Buffer > 0 /\ Len(queue) \in Nat /\ Len(times) \in Nat
  BY SMTT(20) DEF PipeTypes
<1>1. CASE UNCHANGED <<queue, received, times, step>>
  BY <1>1 DEF RoomInv, NewestSurvives, Reached, Accepted
<1>2. CASE Send
  <2>1. CASE step' = "idle" /\ queue' = Append(queue, Current) /\ Len(queue) < Buffer
    <3>1. Len(queue') = Len(queue) + 1 /\ Current' \in Range(queue')
      BY SMTT(20), <1>0, <1>2, <2>1, HeldAfter DEF Send, Current, Accepted, PipeTypes
    <3> QED BY SMTT(20), <1>0, <2>1, <3>1 DEF RoomInv, NewestSurvives, Reached, Current
  <2>2. CASE step' = "evict" /\ UNCHANGED queue
    BY <2>2 DEF RoomInv, NewestSurvives
  <2> QED BY SMTT(20), <1>0, <1>2, <2>1, <2>2 DEF Send, Full
<1>3. CASE Evict
  <2>1. Len(queue') < Buffer
    BY SMTT(20), <1>0, <1>3 DEF Evict, RoomInv, PipeTypes
  <2> QED BY SMTT(20), <1>0, <1>3, <2>1 DEF Evict, RoomInv, NewestSurvives, PipeTypes
<1>4. CASE Resend
  <2>1. queue' = Append(queue, Current) /\ times' = times /\ step' = "idle" /\ Len(queue) < Buffer
    BY SMTT(20), <1>0, <1>4 DEF Resend, RoomInv, Full
  <2>2. Len(queue') = Len(queue) + 1 /\ Current' \in Range(queue')
    BY SMTT(20), <1>0, <2>1, HeldAfter DEF Current, Accepted, PipeTypes
  <2> QED BY SMTT(20), <1>0, <2>1, <2>2 DEF RoomInv, NewestSurvives, Reached, Current
<1>5. CASE Receive
  <2>1. /\ queue # <<>> /\ queue' = Tail(queue) /\ received' = Append(received, Head(queue))
        /\ UNCHANGED <<times, step>> /\ Head(queue) \in Nat
    BY SMTT(20), <1>5 DEF Receive, PipeTypes
  <2>2. Len(queue') < Len(queue) /\ Len(queue') \in Nat
    BY SMTT(20), <2>1 DEF PipeTypes
  <2>3. Reached \subseteq Reached'
    BY <2>1, HeldAfter DEF Reached, PipeTypes
  <2> QED BY SMTT(20), <1>0, <2>1, <2>2, <2>3 DEF RoomInv, NewestSurvives, Accepted
<1>6. CASE \E t \in 0..MaxTime : Handle(t)
  <2>1. CASE UNCHANGED deliveryVars
    BY <2>1, <1>1 DEF deliveryVars
  <2>2. CASE step' = "send" /\ UNCHANGED queue
    BY <2>2 DEF RoomInv, NewestSurvives
  <2> QED BY <1>6, <2>1, <2>2 DEF Handle, Deliver
<1> QED
  BY <1>1, <1>2, <1>3, <1>4, <1>5, <1>6 DEF PipeNext, allVars, deliveryVars, dispatch, DispatchSend,
     DispatchEvict, DispatchResend, Take, CloseHandlers, HandlerStops, Shutdown

\* For every buffer size, the newest update accepted is kept: the second send
\* of deliver never fails.
THEOREM NewestIsNeverLost == PipeSpec => []NewestSurvives
<1>1. PipeInit => RoomInv
  BY SMTT(20), DeliveryAssumption DEF PipeInit, DeliveryInit, RoomInv, NewestSurvives, Accepted
<1> QED
  BY <1>1, RoomInvNext, PipelineClimbs, PTL DEF PipeSpec, RoomInv

-----------------------------------------------------------------------------
\* The updates whose delivery is over: all but the one deliver holds.
Due == 1..(IF step = "idle" THEN Len(times) ELSE Len(times) - 1)
Missing == Due \ Reached

\* What is missing is counted, except for the one just evicted, which deliver
\* counts at its last select.
LossInv ==
    /\ dropped \in Nat
    /\ Cardinality(Missing) <= IF step = "resend" THEN dropped + 1 ELSE dropped
    /\ Missing # {} => backlogged \/ step = "resend"

\* One more element makes a set larger by at most one.
LEMMA AtMostOneMore ==
    ASSUME NEW S, IsFiniteSet(S), NEW x, NEW T, T \subseteq S \cup {x}
    PROVE  /\ IsFiniteSet(T) /\ Cardinality(T) \in Nat /\ Cardinality(S) \in Nat
           /\ Cardinality(T) <= Cardinality(S) + 1
           /\ T \subseteq S => Cardinality(T) <= Cardinality(S)
<1>0. Cardinality(S) \in Nat
  BY FS_CardinalityType
<1>1. IsFiniteSet(S \cup {x}) /\ Cardinality(S \cup {x}) <= Cardinality(S) + 1
  BY SMTT(20), <1>0, FS_AddElement
<1>2. IsFiniteSet(T) /\ Cardinality(T) <= Cardinality(S \cup {x}) /\ Cardinality(T) \in Nat
      /\ Cardinality(S \cup {x}) \in Nat
  BY <1>1, FS_Subset, FS_CardinalityType
<1>3. T \subseteq S => Cardinality(T) <= Cardinality(S)
  BY FS_Subset
<1> QED BY SMTT(20), <1>0, <1>1, <1>2, <1>3

\* The updates missing are finitely many.
LEMMA MissingIsFinite == PipeTypes => IsFiniteSet(Missing) /\ Cardinality(Missing) \in Nat
<1> SUFFICES ASSUME PipeTypes PROVE IsFiniteSet(Missing) /\ Cardinality(Missing) \in Nat
  OBVIOUS
<1>1. IsFiniteSet(Due)
  BY SMTT(20), FS_Interval DEF Due, PipeTypes
<1> QED BY <1>1, FS_Difference, FS_CardinalityType DEF Missing

\* LossInv is inductive, given the types and that the second send finds room.
LEMMA LossInvNext == PipeInv /\ RoomInv /\ LossInv /\ [PipeNext]_allVars => LossInv'
<1> SUFFICES ASSUME PipeTypes, RoomInv, LossInv, [PipeNext]_allVars PROVE LossInv'
  BY DEF PipeInv
<1>0. /\ Len(queue) \in Nat /\ Len(times) \in Nat /\ Buffer \in Nat
      /\ IsFiniteSet(Missing) /\ Cardinality(Missing) \in Nat /\ dropped \in Nat
  BY SMTT(20), MissingIsFinite, DeliveryAssumption DEF PipeTypes, LossInv
<1>1. CASE UNCHANGED <<queue, received, times, step, dropped, backlogged>>
  BY <1>1 DEF LossInv, Missing, Due, Reached
<1>2. CASE Send
  <2>1. CASE step' = "idle" /\ queue' = Append(queue, Current)
    <3>1. Range(queue) \subseteq Range(queue') /\ Len(times) \in Range(queue')
      BY <1>0, <2>1, HeldAfter DEF Current, Accepted, PipeTypes
    <3>2. Missing' \subseteq Missing
      BY SMTT(20), <1>0, <1>2, <2>1, <3>1 DEF Send, Missing, Due, Reached
    <3>3. Cardinality(Missing') <= Cardinality(Missing)
      BY <1>0, <3>2, FS_Subset
    <3>4. Cardinality(Missing') \in Nat
      BY <1>0, <3>2, FS_Subset, FS_CardinalityType
    <3> QED BY SMTT(20), <1>0, <1>2, <2>1, <3>2, <3>3, <3>4 DEF Send, LossInv
  <2>2. CASE step' = "evict" /\ UNCHANGED queue
    <3>1. Missing' = Missing
      BY <1>2, <2>2 DEF Send, Missing, Due, Reached
    <3> QED BY <1>2, <2>2, <3>1 DEF Send, LossInv
  <2> QED BY <1>2, <2>1, <2>2 DEF Send
<1>3. CASE Evict
  <2>1. Due' = Due /\ received' = received
    BY <1>3 DEF Evict, Due
  <2>2. PICK x : Missing' \subseteq Missing \cup {x}
    <3>1. CASE queue = <<>>
      BY <1>3, <2>1, <3>1 DEF Evict, Missing, Reached
    <3>2. CASE queue # <<>>
      <4>1. Range(queue) \subseteq {Head(queue)} \cup Range(queue')
        BY <1>3, <3>2, HeldAfter DEF Evict, PipeTypes
      <4>2. Missing' \subseteq Missing \cup {Head(queue)}
        BY <2>1, <4>1 DEF Missing, Reached
      <4> QED BY <4>2
    <3> QED BY <3>1, <3>2
  <2>3. Cardinality(Missing') <= Cardinality(Missing) + 1 /\ Cardinality(Missing') \in Nat
    BY <1>0, <2>2, AtMostOneMore
  <2>4. step' = "resend" /\ dropped' = dropped /\ step = "evict"
    BY <1>3 DEF Evict
  <2>5. Cardinality(Missing) <= dropped
    BY <2>4 DEF LossInv
  <2> QED BY SMTT(20), <1>0, <2>3, <2>4, <2>5 DEF LossInv
<1>4. CASE Resend
  <2>1. /\ queue' = Append(queue, Current) /\ UNCHANGED <<times, received>> /\ step = "resend"
        /\ step' = "idle" /\ dropped' = dropped + 1 /\ backlogged' = TRUE
    BY SMTT(20), <1>0, <1>4 DEF Resend, RoomInv, Full
  <2>2. Range(queue) \subseteq Range(queue') /\ Len(times) \in Range(queue')
    BY <1>0, <2>1, HeldAfter DEF Current, Accepted, PipeTypes
  <2>3. Missing' \subseteq Missing
    BY SMTT(20), <1>0, <2>1, <2>2 DEF Missing, Due, Reached
  <2>4. Cardinality(Missing') <= Cardinality(Missing) /\ Cardinality(Missing') \in Nat
    BY <1>0, <2>3, FS_Subset, FS_CardinalityType
  <2> QED BY SMTT(20), <1>0, <2>1, <2>4 DEF LossInv
<1>5. CASE Receive
  <2>1. /\ queue # <<>> /\ queue' = Tail(queue) /\ received' = Append(received, Head(queue))
        /\ UNCHANGED <<times, step, dropped, backlogged>> /\ Head(queue) \in Nat
    BY SMTT(20), <1>5 DEF Receive, PipeTypes
  <2>2. Missing' \subseteq Missing
    <3>1. Reached \subseteq Reached'
      BY <2>1, HeldAfter DEF Reached, PipeTypes
    <3> QED BY <2>1, <3>1 DEF Missing, Due
  <2>3. Cardinality(Missing') <= Cardinality(Missing) /\ Cardinality(Missing') \in Nat
    BY <1>0, <2>2, FS_Subset, FS_CardinalityType
  <2> QED BY SMTT(20), <1>0, <2>1, <2>2, <2>3 DEF LossInv
<1>6. CASE \E t \in 0..MaxTime : Handle(t)
  <2>1. CASE UNCHANGED deliveryVars
    BY <2>1, <1>1 DEF deliveryVars
  <2>2. CASE \E t \in 0..MaxTime : Deliver(t)
    <3>1. PICK t \in 0..MaxTime : Deliver(t)
      BY <2>2
    <3>2. /\ step = "idle" /\ step' = "send" /\ times' = Append(times, t)
          /\ UNCHANGED <<queue, received, dropped, backlogged>>
      BY <3>1 DEF Deliver
    <3>3. Len(times') = Len(times) + 1
      BY SMTT(20), <3>2, DeliveryAssumption DEF PipeTypes
    <3>4. Missing' = Missing
      BY SMTT(20), <1>0, <3>2, <3>3 DEF Missing, Due, Reached
    <3> QED BY <3>2, <3>4 DEF LossInv
  <2> QED BY <1>6, <2>1, <2>2 DEF Handle
<1> QED
  BY <1>1, <1>2, <1>3, <1>4, <1>5, <1>6 DEF PipeNext, allVars, deliveryVars, dispatch, DispatchSend,
     DispatchEvict, DispatchResend, Take, CloseHandlers, HandlerStops, Shutdown

\* For every buffer size, updates that neither reached the application nor wait
\* for it are covered by Dropped, and the overflow was raised.
THEOREM NoSilentLoss == PipeSpec => []LossIsCounted
<1>1. PipeInit => RoomInv
  BY SMTT(20), DeliveryAssumption DEF PipeInit, DeliveryInit, RoomInv, NewestSurvives, Accepted
<1>2. PipeInit => LossInv
  <2> SUFFICES ASSUME PipeInit PROVE LossInv
    OBVIOUS
  <2>1. Missing = {} /\ step = "idle" /\ dropped = 0
    BY SMTT(20) DEF PipeInit, DeliveryInit, Missing, Due
  <2> QED BY SMTT(20), <2>1, FS_EmptySet DEF LossInv
<1>3. LossInv => LossIsCounted
  BY DEF LossInv, LossIsCounted, Lost, Missing, Due, Accepted
<1> QED
  BY <1>1, <1>2, <1>3, RoomInvNext, LossInvNext, PipelineClimbs, PTL DEF PipeSpec

-----------------------------------------------------------------------------
\* The updates stamped earlier than one accepted before them.
OlderThanBefore == {i \in 1..Len(times) : times[i] # 0 /\ \E j \in 1..i-1 : times[j] > times[i]}

\* lastWire is the latest wire time seen so far: comparing with it is comparing
\* with every update before.
StampInv ==
    /\ lastWire \in Nat
    /\ \A j \in DOMAIN times : times[j] <= lastWire
    /\ lastWire # 0 => \E j \in DOMAIN times : times[j] = lastWire
    /\ outOfOrder = Cardinality(OlderThanBefore)

\* StampInv is inductive: only Deliver changes what it speaks of.
LEMMA StampInvNext == PipeInv /\ StampInv /\ [PipeNext]_allVars => StampInv'
<1> SUFFICES ASSUME PipeTypes, StampInv, [PipeNext]_allVars PROVE StampInv'
  BY DEF PipeInv
<1>1. CASE UNCHANGED <<times, lastWire, outOfOrder>>
  BY <1>1 DEF StampInv, OlderThanBefore
<1>2. CASE \E t \in 0..MaxTime : Deliver(t)
  <2>1. PICK t \in 0..MaxTime : Deliver(t)
    BY <1>2
  <2>2. t \in Nat /\ times' = Append(times, t) /\ times \in Seq(Nat)
    BY SMTT(20), <2>1, DeliveryAssumption DEF Deliver, PipeTypes
  <2> DEFINE n == Len(times) + 1
             older == t # 0 /\ lastWire # 0 /\ t < lastWire
  <2>3. /\ n \in Nat /\ Len(times') = n /\ times'[n] = t /\ times' \in Seq(Nat)
        /\ \A j \in 1..Len(times) : times'[j] = times[j] /\ times[j] \in Nat
    BY SMTT(20), <2>2
  <2>4. /\ outOfOrder' = IF older THEN outOfOrder + 1 ELSE outOfOrder
        /\ lastWire' = IF t = 0 \/ older THEN lastWire ELSE t
    BY <2>1 DEF Deliver, Stamp
  <2>5. lastWire \in Nat /\ DOMAIN times = 1..Len(times) /\ DOMAIN times' = 1..n
    BY SMTT(20), <2>2, <2>3 DEF StampInv
  <2>6. /\ \A j \in 1..Len(times) : times[j] <= lastWire
        /\ lastWire # 0 => \E j \in 1..Len(times) : times[j] = lastWire
    BY <2>5 DEF StampInv
  <2>7. /\ lastWire' \in Nat
        /\ \A j \in DOMAIN times' : times'[j] <= lastWire'
    <3>1. lastWire' \in Nat /\ lastWire <= lastWire' /\ t <= lastWire'
      BY SMTT(20), <2>2, <2>4, <2>5
    <3>2. ASSUME NEW j \in 1..n PROVE times'[j] <= lastWire'
      <4>1. CASE j = n
        BY <2>3, <3>1, <4>1
      <4>2. CASE j \in 1..Len(times)
        BY SMTT(20), <2>3, <2>5, <2>6, <3>1, <4>2
      <4> QED BY SMTT(20), <2>2, <4>1, <4>2
    <3> QED BY <2>5, <3>1, <3>2
  <2>8. lastWire' # 0 => \E j \in DOMAIN times' : times'[j] = lastWire'
    <3>1. n \in 1..n /\ \A j \in 1..Len(times) : j \in 1..n
      BY SMTT(20), <2>2
    <3>2. CASE lastWire' = t
      BY <2>3, <2>5, <3>1, <3>2
    <3>3. CASE lastWire' = lastWire
      BY <2>3, <2>5, <2>6, <3>1, <3>3
    <3> QED BY <2>4, <3>2, <3>3
  <2>9. older <=> t # 0 /\ \E j \in 1..Len(times) : times[j] > t
    BY SMTT(20), <2>2, <2>3, <2>5, <2>6
  <2>10. \A i \in 1..Len(times) : i \in OlderThanBefore' <=> i \in OlderThanBefore
    <3>1. \A i \in 1..Len(times) : i \in 1..n /\ \A j \in 1..i-1 : j \in 1..Len(times)
      BY SMTT(20), <2>2
    <3> QED BY <2>3, <3>1 DEF OlderThanBefore
  <2>11. n \in OlderThanBefore' <=> older
    <3>1. n \in 1..n /\ n - 1 = Len(times)
      BY SMTT(20), <2>2
    <3> QED BY <2>3, <2>9, <3>1 DEF OlderThanBefore
  <2>12. /\ OlderThanBefore \subseteq 1..Len(times) /\ n \notin 1..Len(times)
         /\ OlderThanBefore' \subseteq 1..n /\ 1..n = (1..Len(times)) \cup {n}
    BY SMTT(20), <2>2, <2>3 DEF OlderThanBefore
  <2>13. OlderThanBefore' = IF older THEN OlderThanBefore \cup {n} ELSE OlderThanBefore
    <3> HIDE DEF n, older
    <3>1. CASE older
      BY <2>10, <2>11, <2>12, <3>1
    <3>2. CASE ~older
      <4>1. OlderThanBefore' \subseteq 1..Len(times)
        BY <2>11, <2>12, <3>2
      <4>2. OlderThanBefore' = OlderThanBefore
        BY <2>10, <2>12, <4>1
      <4> QED BY <3>2, <4>2
    <3> QED BY <3>1, <3>2
  <2>14. IsFiniteSet(OlderThanBefore) /\ n \notin OlderThanBefore
    <3>1. IsFiniteSet(1..Len(times))
      BY SMTT(20), <2>2, FS_Interval
    <3> QED BY <2>12, <3>1, FS_Subset
  <2>15. outOfOrder' = Cardinality(OlderThanBefore')
    <3>1. CASE older
      BY <2>4, <2>13, <2>14, <3>1, FS_AddElement DEF StampInv
    <3>2. CASE ~older
      BY <2>4, <2>13, <3>2 DEF StampInv
    <3> QED BY <3>1, <3>2
  <2> QED BY <2>7, <2>8, <2>15 DEF StampInv
<1>3. CASE \E t \in 0..MaxTime : Handle(t)
  BY <1>1, <1>2, <1>3 DEF Handle, deliveryVars
<1> QED
  BY <1>1, <1>3 DEF PipeNext, allVars, deliveryVars, dispatch, DispatchSend, DispatchEvict,
     DispatchResend, Take, CloseHandlers, HandlerStops, Send, Evict, Resend, Receive, Shutdown

\* For every number of updates and all wire times, OutOfOrder is exact although
\* deliver keeps one time only.
THEOREM OutOfOrderCounts == PipeSpec => []OutOfOrderIsExact
<1>1. PipeInit => StampInv
  <2> SUFFICES ASSUME PipeInit PROVE StampInv
    OBVIOUS
  <2>1. OlderThanBefore = {} /\ times = <<>> /\ lastWire = 0 /\ outOfOrder = 0
    BY SMTT(20) DEF PipeInit, DeliveryInit, OlderThanBefore
  <2> QED BY SMTT(20), <2>1, FS_EmptySet DEF StampInv
<1>2. StampInv => OutOfOrderIsExact
  BY DEF StampInv, OutOfOrderIsExact, OlderThanBefore, Accepted
<1> QED
  BY <1>1, <1>2, StampInvNext, PipelineClimbs, PTL DEF PipeSpec

=============================================================================
