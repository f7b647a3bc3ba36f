--------------------------- MODULE OrderPushProofs ---------------------------
(***************************************************************************)
(* Proofs about two parts of pkg/services/push.go that share no state: the *)
(* order half (OrderPush), for any number of callers, subscriptions and    *)
(* reconnects, and the error streams with the unrouted ids (ErrorStream,   *)
(* UnroutedReport), for any buffer, reporters and ids.                     *)
(***************************************************************************)
EXTENDS OrderPush, UnroutedReport, FiniteSetTheorems, TLAPS

\* A leaf that names no prover goes to Zenon; arithmetic goes to SMT.
USE ZenonT(20)

\* A listed subscription's channel is open: shutdown follows removal.
ListedAreOpen == orders \subseteq LiveOrds

\* The request of SubscribeOrders is made holding subMu, so Close's drain, which
\* needs subMu, cannot fall between the closed check and the registration.
RequestHoldsLock ==
    \A c \in Callers : call[c].op = "request" => subMu = c /\ ~Drained

\* Outside their shutdown step, the hook and Close owe no shutdown.
DoomedOnlyInShutdown ==
    /\ hook.step # "shutdown" => hook.doomed = {}
    /\ close.step # "shutdown" => close.doomed = {}

\* A subscription somebody owes a shutdown is off the list and, not being unused,
\* never returns to it: shutdown does not close a listed channel.
OwedIsUnlisted ==
    /\ \A c \in Callers : call[c].op = "shutdown" =>
          call[c].ord \in Ords \ orders /\ chan[call[c].ord] # "unused"
    /\ \A s \in hook.doomed \cup close.doomed : s \notin orders /\ chan[s] # "unused"

\* The inductive invariant.
IInv ==
    /\ TypeOK
    /\ CountNotAhead
    /\ TradeOnHasSubscriber
    /\ OpenIsOwned
    /\ DrainedStaysEmpty
    /\ ListedAreOpen
    /\ RequestHoldsLock
    /\ DoomedOnlyInShutdown
    /\ OwedIsUnlisted

\* The list is finite: it is drawn from the finite pool.
LEMMA OrdersFinite ==
    ASSUME NEW S \in SUBSET Ords
    PROVE  IsFiniteSet(S) /\ Cardinality(S) \in Nat
BY OrdersAssumption, FS_Subset, FS_CardinalityType

\* Goto moves one caller and nobody else.
LEMMA GotoType ==
    ASSUME NEW c \in Callers, TypeOK,
           NEW op \in {"idle", "enter", "request", "unsubscribe"},
           Goto(c, op)
    PROVE  /\ call' \in [Callers -> CallStates]
           /\ call'[c].op = op
           /\ \A d \in Callers \ {c} : call'[d] = call[d]
BY DEF Goto, TypeOK, CallStates, Idle

\* Shutdown closes the given channels and leaves the others alone.
LEMMA ShutdownType ==
    ASSUME TypeOK, NEW S, Shutdown(S)
    PROVE  /\ chan' \in [Ords -> {"unused", "open", "closed"}]
           /\ \A s \in Ords : Live(s)' => Live(s) /\ s \notin S
           /\ \A s \in Ords : Live(s) /\ s \notin S => Live(s)'
BY DEF Shutdown, TypeOK, Live

\* Shutdown makes no channel unused.
LEMMA ShutdownStaysUsed ==
    ASSUME TypeOK, NEW S, Shutdown(S), NEW s \in Ords, chan[s] # "unused"
    PROVE  chan'[s] # "unused"
BY DEF Shutdown, TypeOK

\* Registering a subscription while the list is open to it keeps the counter
\* level with the list.
LEMMA RegisterKeeps ==
    ASSUME IInv, Register, ~Drained, close' = close, hook' = hook
    PROVE  /\ orders' \subseteq Ords
           /\ orders' # {}
           /\ tradeSubs' \in Int
           /\ chan' \in [Ords -> {"unused", "open", "closed"}]
           /\ CountNotAhead'
           /\ ListedAreOpen'
           /\ \A t \in Ords : Live(t)' => t \in orders' \/ Live(t)
           /\ orders \subseteq orders'
           /\ \A t \in Ords : t \notin orders /\ chan[t] # "unused" =>
                                t \notin orders' /\ chan'[t] # "unused"
<1>1. PICK s \in Ords : /\ chan[s] = "unused"
                        /\ orders' = orders \cup {s}
                        /\ tradeSubs' = tradeSubs + 1
                        /\ chan' = [chan EXCEPT ![s] = "open"]
  BY DEF Register
<1>2. s \notin orders
  BY <1>1 DEF IInv, ListedAreOpen, LiveOrds, Live
<1>3. Cardinality(orders') = Cardinality(orders) + 1
  BY <1>1, <1>2, OrdersFinite, FS_AddElement DEF IInv, TypeOK
<1>4. CountNotAhead'
  BY SMTT(20), <1>1, <1>3, OrdersFinite DEF IInv, TypeOK, CountNotAhead, Drained
<1>5. ListedAreOpen'
  BY <1>1 DEF IInv, TypeOK, ListedAreOpen, LiveOrds, Live
<1>6. \A t \in Ords : Live(t)' => t \in orders' \/ Live(t)
  BY <1>1 DEF IInv, TypeOK, Live
<1>7. \A t \in Ords : t \notin orders /\ chan[t] # "unused" =>
                       t \notin orders' /\ chan'[t] # "unused"
  BY <1>1 DEF IInv, TypeOK
<1>. QED
  BY SMTT(20), <1>1, <1>4, <1>5, <1>6, <1>7 DEF IInv, TypeOK

LEMMA InitIInv == Init => IInv
<1>. SUFFICES ASSUME Init PROVE IInv
  OBVIOUS
<1>1. TypeOK
  <2>1. call \in [Callers -> CallStates] /\ hook \in HookStates /\ close \in CloseStates
    BY DEF Init, CallStates, HookStates, CloseStates, Idle, At
  <2>2. tradeOn \in BOOLEAN /\ gwOn \in BOOLEAN
    BY DEF Init
  <2>3. tradeSubs \in Int /\ reconnects \in 0..MaxReconnects
    BY SMTT(20), OrdersAssumption DEF Init
  <2>4. orders \subseteq Ords /\ subMu \in Callers \cup {None}
    BY DEF Init
  <2>5. chan \in [Ords -> {"unused", "open", "closed"}]
    BY DEF Init
  <2>. QED
    BY <2>1, <2>2, <2>3, <2>4, <2>5 DEF TypeOK
<1>2. CountNotAhead
  BY SMTT(20), FS_EmptySet DEF Init, CountNotAhead
<1>3. TradeOnHasSubscriber /\ OpenIsOwned /\ DrainedStaysEmpty
  BY DEF Init, TradeOnHasSubscriber, OpenIsOwned, DrainedStaysEmpty, Live,
     Drained, At
<1>4. ListedAreOpen /\ RequestHoldsLock /\ DoomedOnlyInShutdown /\ OwedIsUnlisted
  BY DEF Init, ListedAreOpen, RequestHoldsLock, DoomedOnlyInShutdown, OwedIsUnlisted, Idle, At
<1>. QED
  BY <1>1, <1>2, <1>3, <1>4 DEF IInv

\* A caller that only moves to an idle, entering or unsubscribing point, from a
\* point where it owes no shutdown, preserves the invariant.
LEMMA MovedCaller ==
    ASSUME IInv, NEW c \in Callers, NEW op \in {"idle", "enter", "unsubscribe"},
           Goto(c, op), call[c].op # "shutdown",
           UNCHANGED <<orders, tradeOn, tradeSubs, chan, hook, close, reconnects>>,
           gwOn' \in BOOLEAN,
           \/ subMu' = subMu
           \/ subMu' = None /\ \A d \in Callers \ {c} : call[d].op # "request"
    PROVE  IInv'
<1>. USE DEF IInv
<1>0. TypeOK
  OBVIOUS
<1>1. /\ call' \in [Callers -> CallStates]
      /\ call'[c].op = op
      /\ \A d \in Callers \ {c} : call'[d] = call[d]
  <2>. HIDE DEF IInv
  <2>. QED
    BY <1>0, GotoType
<1>2. TypeOK'
  BY <1>1 DEF TypeOK
<1>3. CountNotAhead' /\ TradeOnHasSubscriber' /\ DrainedStaysEmpty' /\ ListedAreOpen'
  BY DEF CountNotAhead, TradeOnHasSubscriber, DrainedStaysEmpty, ListedAreOpen,
         Drained, LiveOrds, Live
<1>4. OpenIsOwned'
  BY <1>1 DEF OpenIsOwned, Live
<1>5. RequestHoldsLock'
  BY <1>1 DEF RequestHoldsLock, Drained
<1>6. DoomedOnlyInShutdown' /\ OwedIsUnlisted'
  BY <1>1 DEF DoomedOnlyInShutdown, OwedIsUnlisted
<1>. QED
  BY <1>2, <1>3, <1>4, <1>5, <1>6

\* A caller that registers a subscription and returns preserves the invariant.
LEMMA RegisteredByCaller ==
    ASSUME IInv, NEW c \in Callers, Register, ~Drained, Goto(c, "idle"),
           call[c].op # "shutdown", tradeOn' = TRUE,
           UNCHANGED <<hook, close, reconnects>>, gwOn' \in BOOLEAN,
           \/ subMu' = subMu
           \/ subMu' = None /\ \A d \in Callers \ {c} : call[d].op # "request"
    PROVE  IInv'
<1>0. TypeOK
  BY DEF IInv
<1>1. /\ call' \in [Callers -> CallStates]
      /\ call'[c].op = "idle"
      /\ \A d \in Callers \ {c} : call'[d] = call[d]
  BY <1>0, GotoType
<1>2. /\ orders' \subseteq Ords /\ orders' # {} /\ orders \subseteq orders'
      /\ tradeSubs' \in Int
      /\ chan' \in [Ords -> {"unused", "open", "closed"}]
      /\ CountNotAhead' /\ ListedAreOpen'
      /\ \A t \in Ords : Live(t)' => t \in orders' \/ Live(t)
      /\ \A t \in Ords : t \notin orders /\ chan[t] # "unused" =>
                           t \notin orders' /\ chan'[t] # "unused"
  BY RegisterKeeps
<1>3. TypeOK'
  BY <1>0, <1>1, <1>2 DEF TypeOK
<1>4. TradeOnHasSubscriber' /\ DrainedStaysEmpty'
  BY <1>2 DEF TradeOnHasSubscriber, DrainedStaysEmpty, Drained
<1>5. OpenIsOwned'
  BY <1>1, <1>2 DEF IInv, OpenIsOwned
<1>6. RequestHoldsLock'
  BY <1>1 DEF IInv, RequestHoldsLock, Drained
<1>7. DoomedOnlyInShutdown'
  BY DEF IInv, DoomedOnlyInShutdown
<1>8. OwedIsUnlisted'
  <2>1. hook.doomed \cup close.doomed \subseteq Ords
    BY <1>0 DEF TypeOK, HookStates, CloseStates
  <2>. QED
    BY <1>1, <1>2, <2>1 DEF IInv, OwedIsUnlisted
<1>. QED
  BY <1>2, <1>3, <1>4, <1>5, <1>6, <1>7, <1>8 DEF IInv

\* SubscribeOrders, with its three outcomes under subMu and its request's reply.
LEMMA SubscribeIInv ==
    ASSUME IInv, NEW c \in Callers,
           SubscribeOrders(c) \/ SubscribeOrdersLocked(c) \/ SubscribeOrdersReply(c)
    PROVE  IInv'
<1>. USE DEF IInv
<1>1. CASE SubscribeOrders(c)
  <2>1. Goto(c, "enter") /\ call[c].op = "idle"
    BY <1>1 DEF SubscribeOrders
  <2>2. UNCHANGED <<orders, tradeOn, tradeSubs, chan, subMu, hook, close, gwOn, reconnects>>
    BY <1>1 DEF SubscribeOrders, registry
  <2>3. gwOn' \in BOOLEAN
    BY <2>2 DEF TypeOK
  <2>. HIDE DEF IInv
  <2>. QED
    BY <2>1, <2>2, <2>3, MovedCaller
<1>2. CASE SubscribeOrdersLocked(c)
  <2>. SUFFICES ASSUME call[c].op = "enter", subMu = None,
                       UNCHANGED <<hook, close, gwOn, reconnects>>
                PROVE  IInv'
    BY <1>2 DEF SubscribeOrdersLocked
  <2>0. gwOn' \in BOOLEAN
    BY DEF TypeOK
  <2>1. CASE Goto(c, "idle") /\ UNCHANGED <<registry, subMu>>
    <3>. HIDE DEF IInv
    <3>. QED
      BY <2>0, <2>1, MovedCaller DEF registry
  <2>2. CASE ~Closed /\ tradeOn /\ Register /\ Goto(c, "idle") /\ UNCHANGED <<tradeOn, subMu>>
    <3>1. ~Drained
      BY <2>2 DEF Closed, Drained
    <3>. HIDE DEF IInv
    <3>. QED
      BY <2>0, <2>2, <3>1, RegisteredByCaller
  <2>3. CASE ~Closed /\ ~tradeOn /\ subMu' = c /\ Goto(c, "request") /\ UNCHANGED registry
    <3>1. ~Drained
      BY <2>3 DEF Closed, Drained
    <3>2. TypeOK'
      BY <2>3, GotoType DEF TypeOK, registry
    <3>3. CountNotAhead' /\ TradeOnHasSubscriber' /\ DrainedStaysEmpty' /\ ListedAreOpen'
      BY <2>3 DEF CountNotAhead, TradeOnHasSubscriber, DrainedStaysEmpty, ListedAreOpen,
                  registry, Drained, LiveOrds, Live
    <3>4. OpenIsOwned'
      BY <2>3, GotoType DEF OpenIsOwned, registry, Live
    <3>5. RequestHoldsLock'
      <4>1. \A d \in Callers : call[d].op # "request"
        BY OrdersAssumption DEF RequestHoldsLock
      <4>. QED
        BY <2>3, <3>1, <4>1, GotoType DEF RequestHoldsLock, Drained
    <3>6. DoomedOnlyInShutdown' /\ OwedIsUnlisted'
      BY <2>3, GotoType DEF DoomedOnlyInShutdown, OwedIsUnlisted, registry
    <3>. QED
      BY <3>2, <3>3, <3>4, <3>5, <3>6
  <2>. QED
    BY <1>2, <2>1, <2>2, <2>3 DEF SubscribeOrdersLocked
<1>3. CASE SubscribeOrdersReply(c)
  <2>1. /\ call[c].op = "request" /\ subMu' = None /\ Goto(c, "idle")
        /\ UNCHANGED <<hook, close, reconnects>>
        /\ gwOn' \in BOOLEAN
    BY <1>3 DEF SubscribeOrdersReply, GatewaySwitch, TypeOK
  <2>2. subMu = c /\ ~Drained /\ \A d \in Callers \ {c} : call[d].op # "request"
    BY <2>1 DEF RequestHoldsLock
  <2>3. CASE tradeOn' = TRUE /\ Register
    <3>. HIDE DEF IInv
    <3>. QED
      BY <2>1, <2>2, <2>3, RegisteredByCaller
  <2>4. CASE UNCHANGED registry
    <3>. HIDE DEF IInv
    <3>. QED
      BY <2>1, <2>2, <2>4, MovedCaller DEF registry
  <2>. QED
    BY <1>3, <2>3, <2>4 DEF SubscribeOrdersReply
<1>. QED
  BY <1>1, <1>2, <1>3

\* Cancel under subMu: the counter goes down with the list, or alone.
LEMMA CancelIInv ==
    ASSUME IInv, NEW c \in Callers, NEW s \in Ords, Cancel(c, s)
    PROVE  IInv'
<1>0. TypeOK
  BY DEF IInv
<1>1. /\ call[c].op = "idle" /\ orders' = orders \ {s} /\ tradeSubs' = tradeSubs - 1
      /\ tradeOn' = (tradeOn /\ tradeSubs' > 0)
      /\ call' = [call EXCEPT ![c] = [op |-> "shutdown", ord |-> s, last |-> tradeSubs' <= 0]]
      /\ UNCHANGED <<chan, subMu, hook, close, gwOn, reconnects>>
  BY DEF Cancel
<1>2. /\ call' \in [Callers -> CallStates]
      /\ call'[c].op = "shutdown" /\ call'[c].ord = s
      /\ \A d \in Callers \ {c} : call'[d] = call[d]
  BY SMTT(20), <1>0, <1>1 DEF TypeOK, CallStates
<1>3. TypeOK'
  BY SMTT(20), <1>0, <1>1, <1>2 DEF TypeOK
<1>4. CountNotAhead'
  <2>1. Cardinality(orders') >= Cardinality(orders) - 1
    BY SMTT(20), <1>0, <1>1, OrdersFinite, FS_RemoveElement DEF TypeOK
  <2>2. Cardinality(orders) \in Nat /\ Cardinality(orders') \in Nat
    BY <1>0, <1>1, OrdersFinite DEF TypeOK
  <2>. QED
    BY SMTT(20), <1>0, <1>1, <2>1, <2>2 DEF IInv, TypeOK, CountNotAhead, Drained
<1>5. TradeOnHasSubscriber'
  <2>. SUFFICES ASSUME tradeOn', ~Drained', orders' = {}
                PROVE  FALSE
    BY DEF TradeOnHasSubscriber
  <2>1. tradeSubs' > 0
    BY <1>1
  <2>2. Cardinality(orders') = 0
    BY FS_EmptySet
  <2>. QED
    BY SMTT(20), <1>3, <1>4, <2>1, <2>2 DEF CountNotAhead, TypeOK
<1>6. OpenIsOwned'
  BY <1>1, <1>2 DEF IInv, OpenIsOwned, Live
<1>7. DrainedStaysEmpty' /\ ListedAreOpen'
  BY <1>1 DEF IInv, DrainedStaysEmpty, ListedAreOpen, Drained, LiveOrds, Live
<1>8. RequestHoldsLock' /\ DoomedOnlyInShutdown'
  BY <1>1, <1>2 DEF IInv, RequestHoldsLock, DoomedOnlyInShutdown, Drained
<1>9. OwedIsUnlisted'
  <2>1. chan[s] # "unused"
    BY DEF Cancel, Live
  <2>. QED
    BY <1>1, <1>2, <2>1 DEF IInv, OwedIsUnlisted
<1>. QED
  BY <1>3, <1>4, <1>5, <1>6, <1>7, <1>8, <1>9 DEF IInv

\* The rest of Cancel: the channel is closed, and the Gateway answers.
LEMMA CancelEndIInv ==
    ASSUME IInv, NEW c \in Callers, CancelShutdown(c) \/ CancelReply(c)
    PROVE  IInv'
<1>0. TypeOK
  BY DEF IInv
<1>1. CASE CancelReply(c)
  <2>1. /\ call[c].op = "unsubscribe" /\ Goto(c, "idle")
        /\ UNCHANGED <<orders, tradeOn, tradeSubs, chan, subMu, hook, close, reconnects>>
        /\ gwOn' \in BOOLEAN
    BY <1>0, <1>1 DEF CancelReply, registry, GatewaySwitch, TypeOK
  <2>. QED
    BY <2>1, MovedCaller
<1>2. CASE CancelShutdown(c)
  <2>1. /\ Shutdown({call[c].ord})
        /\ UNCHANGED <<orders, tradeOn, tradeSubs, subMu, hook, close, gwOn, reconnects>>
        /\ Goto(c, IF call[c].last THEN "unsubscribe" ELSE "idle")
    BY <1>2 DEF CancelShutdown
  <2>2. /\ call' \in [Callers -> CallStates]
        /\ call'[c].op \in {"unsubscribe", "idle"}
        /\ \A d \in Callers \ {c} : call'[d] = call[d]
    BY <1>0, <2>1, GotoType
  <2>3. /\ chan' \in [Ords -> {"unused", "open", "closed"}]
        /\ \A s \in Ords : Live(s)' => Live(s) /\ s # call[c].ord
        /\ \A s \in Ords : Live(s) /\ s # call[c].ord => Live(s)'
    BY <1>0, <2>1, ShutdownType
  <2>4. call[c].ord \notin orders
    BY <1>2 DEF CancelShutdown, IInv, OwedIsUnlisted
  <2>5. TypeOK'
    BY <1>0, <2>1, <2>2, <2>3 DEF TypeOK
  <2>6. CountNotAhead' /\ TradeOnHasSubscriber' /\ DrainedStaysEmpty'
    BY <2>1 DEF IInv, CountNotAhead, TradeOnHasSubscriber, DrainedStaysEmpty, Drained
  <2>7. OpenIsOwned'
    BY <2>1, <2>2, <2>3 DEF IInv, OpenIsOwned
  <2>8. ListedAreOpen'
    BY <1>0, <2>1, <2>3, <2>4 DEF IInv, TypeOK, ListedAreOpen, LiveOrds
  <2>10. OwedIsUnlisted'
    BY <1>0, <2>1, <2>2, ShutdownStaysUsed DEF IInv, TypeOK, OwedIsUnlisted, HookStates, CloseStates
  <2>9. RequestHoldsLock' /\ DoomedOnlyInShutdown'
    BY <2>1, <2>2 DEF IInv, RequestHoldsLock, DoomedOnlyInShutdown, Drained
  <2>. QED
    BY <2>5, <2>6, <2>7, <2>8, <2>9, <2>10 DEF IInv
<1>. QED
  BY <1>1, <1>2

\* The hook and Close end their shutdown step alike: what they owed is closed and
\* no longer owed, and the list is untouched.
LEMMA AfterShutdown ==
    ASSUME IInv, NEW S, Shutdown(S),
           hook' \in HookStates, close' \in CloseStates,
           \/ S = hook.doomed /\ hook'.doomed = {} /\ close' = close
           \/ S = close.doomed /\ close'.doomed = {} /\ hook' = hook /\ Drained /\ Drained',
           UNCHANGED <<orders, tradeOn, tradeSubs, subMu, call, gwOn, reconnects>>
    PROVE  IInv'
<1>0. TypeOK
  BY DEF IInv
<1>1. /\ chan' \in [Ords -> {"unused", "open", "closed"}]
      /\ \A s \in Ords : Live(s)' => Live(s) /\ s \notin S
      /\ \A s \in Ords : Live(s) /\ s \notin S => Live(s)'
      /\ \A s \in Ords : chan[s] # "unused" => chan'[s] # "unused"
  BY <1>0, ShutdownType, ShutdownStaysUsed
<1>2. Drained' <=> Drained
  BY DEF Drained
<1>3. \A s \in S : s \notin orders
  BY DEF IInv, OwedIsUnlisted
<1>4. TypeOK'
  BY <1>0, <1>1 DEF TypeOK
<1>5. CountNotAhead' /\ TradeOnHasSubscriber' /\ DrainedStaysEmpty'
  BY <1>2 DEF IInv, CountNotAhead, TradeOnHasSubscriber, DrainedStaysEmpty
<1>6. OpenIsOwned'
  BY <1>1 DEF IInv, OpenIsOwned
<1>7. ListedAreOpen'
  BY <1>0, <1>1, <1>3 DEF IInv, TypeOK, ListedAreOpen, LiveOrds
<1>8. RequestHoldsLock'
  BY <1>2 DEF IInv, RequestHoldsLock
<1>9. DoomedOnlyInShutdown'
  BY DEF IInv, DoomedOnlyInShutdown
<1>10. OwedIsUnlisted'
  <2>1. \A s \in hook.doomed \cup close.doomed : s \in Ords
    BY <1>0 DEF TypeOK, HookStates, CloseStates
  <2>2. hook'.doomed \cup close'.doomed \subseteq hook.doomed \cup close.doomed
    OBVIOUS
  <2>. QED
    BY <1>1, <2>1, <2>2 DEF IInv, OwedIsUnlisted
<1>. QED
  BY <1>4, <1>5, <1>6, <1>7, <1>8, <1>9, <1>10 DEF IInv

\* The reconnect hook.
LEMMA HookIInv ==
    ASSUME IInv, Reconnect \/ HookProgress
    PROVE  IInv'
<1>0. TypeOK
  BY DEF IInv
<1>1. CASE Reconnect \/ ResubscribeSnapshot \/ ResubscribeOrders \/ ResubscribeReply
  <2>0. /\ hook.step # "shutdown"
        /\ UNCHANGED <<orders, tradeOn, tradeSubs, chan, subMu, call, close>>
    BY <1>1 DEF Reconnect, ResubscribeSnapshot, ResubscribeOrders, ResubscribeReply, registry
  <2>a. \E to \in {"idle", "snapshot", "trade", "await", "kill"} : hook' = At(to)
    BY <1>1
       DEF Reconnect, ResubscribeSnapshot, ResubscribeOrders, ResubscribeReply
  <2>b. hook' \in HookStates /\ hook'.step # "shutdown" /\ hook'.doomed = {}
    BY SMTT(20), <2>a DEF At, HookStates
  <2>1. /\ hook.step # "shutdown"
        /\ UNCHANGED <<orders, tradeOn, tradeSubs, chan, subMu, call, close>>
        /\ hook' \in HookStates /\ hook'.step # "shutdown" /\ hook'.doomed = {}
    BY <2>0, <2>b
  <2>2. gwOn' \in BOOLEAN
    BY <1>0, <1>1 DEF Reconnect, ResubscribeSnapshot, ResubscribeOrders, ResubscribeReply,
                      GatewaySwitch, TypeOK
  <2>3. reconnects' \in 0..MaxReconnects
    <3>1. \/ reconnects' = reconnects
          \/ reconnects < MaxReconnects /\ reconnects' = reconnects + 1
      BY <1>1 DEF Reconnect, ResubscribeSnapshot, ResubscribeOrders, ResubscribeReply
    <3>. QED
      BY SMTT(20), <1>0, <3>1, OrdersAssumption DEF TypeOK
  <2>4. hook.doomed = {}
    BY <2>1 DEF IInv, DoomedOnlyInShutdown
  <2>5. TypeOK'
    BY <1>0, <2>1, <2>2, <2>3 DEF TypeOK
  <2>6. CountNotAhead' /\ TradeOnHasSubscriber' /\ DrainedStaysEmpty' /\ ListedAreOpen'
    BY <2>1 DEF IInv, CountNotAhead, TradeOnHasSubscriber, DrainedStaysEmpty, ListedAreOpen,
                Drained, LiveOrds, Live
  <2>7. OpenIsOwned'
    BY <2>1, <2>4 DEF IInv, OpenIsOwned, Live
  <2>8. RequestHoldsLock' /\ DoomedOnlyInShutdown' /\ OwedIsUnlisted'
    BY <2>1, <2>4 DEF IInv, RequestHoldsLock, DoomedOnlyInShutdown, OwedIsUnlisted, Drained
  <2>. QED
    BY <2>5, <2>6, <2>7, <2>8 DEF IInv
<1>2. CASE KillOrders
  <2>1. /\ hook.step = "kill" /\ orders' = {} /\ tradeOn' = FALSE /\ tradeSubs' = 0
        /\ hook' = [step |-> "shutdown", doomed |-> orders]
        /\ UNCHANGED <<chan, subMu, call, close, gwOn, reconnects>>
    BY <1>2 DEF KillOrders
  <2>2. hook.doomed = {}
    BY <2>1 DEF IInv, DoomedOnlyInShutdown
  <2>3. hook' \in HookStates /\ hook'.step = "shutdown" /\ hook'.doomed = orders
    BY <1>0, <2>1 DEF TypeOK, HookStates
  <2>4. TypeOK'
    <3>1. tradeOn' \in BOOLEAN
      BY <2>1
    <3>2. tradeSubs' \in Int /\ orders' \subseteq Ords
      BY SMTT(20), <2>1
    <3>. QED
      BY <1>0, <2>1, <2>3, <3>1, <3>2 DEF TypeOK
  <2>5. CountNotAhead'
    BY SMTT(20), <2>1, FS_EmptySet DEF CountNotAhead
  <2>6. TradeOnHasSubscriber' /\ DrainedStaysEmpty' /\ ListedAreOpen'
    BY <2>1 DEF TradeOnHasSubscriber, DrainedStaysEmpty, ListedAreOpen
  <2>7. OpenIsOwned'
    BY <2>1, <2>2, <2>3 DEF IInv, OpenIsOwned, Live
  <2>8. RequestHoldsLock' /\ DoomedOnlyInShutdown'
    BY <2>1, <2>3 DEF IInv, RequestHoldsLock, DoomedOnlyInShutdown, Drained
  <2>9. OwedIsUnlisted'
    BY <2>1, <2>3 DEF IInv, OwedIsUnlisted, ListedAreOpen, LiveOrds, Live
  <2>. QED
    BY <2>4, <2>5, <2>6, <2>7, <2>8, <2>9 DEF IInv
<1>3. CASE KillShutdown
  <2>1. /\ Shutdown(hook.doomed) /\ hook' = At("idle")
        /\ UNCHANGED <<orders, tradeOn, tradeSubs, subMu, call, close, gwOn, reconnects>>
    BY <1>3 DEF KillShutdown
  <2>2. hook' \in HookStates /\ hook'.step = "idle" /\ hook'.doomed = {}
    BY <2>1 DEF At, HookStates
  <2>3. close' \in CloseStates
    BY <1>0, <2>1 DEF TypeOK
  <2>. QED
    BY <2>1, <2>2, <2>3, AfterShutdown
<1>. QED
  BY <1>1, <1>2, <1>3 DEF HookProgress

\* Close.
LEMMA CloseIInv ==
    ASSUME IInv, CloseFlag \/ CloseProgress
    PROVE  IInv'
<1>0. TypeOK
  BY DEF IInv
<1>1. CASE CloseFlag
  <2>1. /\ close.step = "open" /\ close' = At("flagged")
        /\ UNCHANGED <<orders, tradeOn, tradeSubs, chan, subMu, call, hook, gwOn, reconnects>>
    BY <1>1 DEF CloseFlag, registry
  <2>2. close' \in CloseStates /\ close'.step = "flagged" /\ close'.doomed = {}
    BY <2>1 DEF At, CloseStates
  <2>3. close.doomed = {}
    BY <2>1 DEF IInv, DoomedOnlyInShutdown
  <2>4. ~Drained /\ ~Drained'
    BY <2>1, <2>2 DEF Drained
  <2>5. TypeOK'
    BY <1>0, <2>1, <2>2 DEF TypeOK
  <2>6. CountNotAhead' /\ TradeOnHasSubscriber' /\ DrainedStaysEmpty' /\ ListedAreOpen'
    BY <2>1, <2>4 DEF IInv, CountNotAhead, TradeOnHasSubscriber, DrainedStaysEmpty,
                      ListedAreOpen, LiveOrds, Live
  <2>7. OpenIsOwned'
    BY <2>1, <2>2, <2>3 DEF IInv, OpenIsOwned, Live
  <2>8. RequestHoldsLock' /\ DoomedOnlyInShutdown' /\ OwedIsUnlisted'
    BY <2>1, <2>2, <2>3, <2>4 DEF IInv, RequestHoldsLock, DoomedOnlyInShutdown, OwedIsUnlisted
  <2>. QED
    BY <2>5, <2>6, <2>7, <2>8 DEF IInv
<1>2. CASE CloseDrain
  <2>1. /\ close.step = "flagged" /\ subMu = None /\ orders' = {}
        /\ close' = [step |-> "shutdown", doomed |-> orders]
        /\ UNCHANGED <<tradeOn, tradeSubs, chan, subMu, call, hook, gwOn, reconnects>>
    BY <1>2 DEF CloseDrain
  <2>2. close' \in CloseStates /\ close'.step = "shutdown" /\ close'.doomed = orders
    BY <1>0, <2>1 DEF TypeOK, CloseStates
  <2>3. close.doomed = {} /\ Drained'
    BY <2>1, <2>2 DEF IInv, DoomedOnlyInShutdown, Drained
  <2>4. TypeOK'
    BY <1>0, <2>1, <2>2 DEF TypeOK
  <2>5. CountNotAhead' /\ TradeOnHasSubscriber' /\ DrainedStaysEmpty' /\ ListedAreOpen'
    BY <2>1, <2>3 DEF CountNotAhead, TradeOnHasSubscriber, DrainedStaysEmpty, ListedAreOpen
  <2>6. OpenIsOwned'
    BY <2>1, <2>2, <2>3 DEF IInv, OpenIsOwned, Live
  <2>7. RequestHoldsLock'
    BY <2>1, OrdersAssumption DEF IInv, RequestHoldsLock
  <2>8. DoomedOnlyInShutdown' /\ OwedIsUnlisted'
    BY <2>1, <2>2 DEF IInv, DoomedOnlyInShutdown, OwedIsUnlisted, ListedAreOpen, LiveOrds, Live
  <2>. QED
    BY <2>4, <2>5, <2>6, <2>7, <2>8 DEF IInv
<1>3. CASE CloseShutdown
  <2>1. /\ close.step = "shutdown" /\ Shutdown(close.doomed) /\ close' = At("done")
        /\ UNCHANGED <<orders, tradeOn, tradeSubs, subMu, call, hook, gwOn, reconnects>>
    BY <1>3 DEF CloseShutdown
  <2>2. /\ close' \in CloseStates /\ close'.step = "done" /\ close'.doomed = {}
        /\ Drained /\ Drained'
    BY <2>1 DEF At, CloseStates, Drained
  <2>3. hook' \in HookStates
    BY <1>0, <2>1 DEF TypeOK
  <2>. QED
    BY <2>1, <2>2, <2>3, AfterShutdown
<1>. QED
  BY <1>1, <1>2, <1>3 DEF CloseProgress

LEMMA NextIInv == IInv /\ [Next]_vars => IInv'
<1>. SUFFICES ASSUME IInv, [Next]_vars PROVE IInv'
  OBVIOUS
<1>1. CASE UNCHANGED vars
  BY <1>1 DEF vars, IInv, TypeOK, CountNotAhead, TradeOnHasSubscriber, OpenIsOwned,
     DrainedStaysEmpty, ListedAreOpen, RequestHoldsLock, DoomedOnlyInShutdown,
     OwedIsUnlisted, Drained, LiveOrds, Live
<1>2. ASSUME NEW c \in Callers,
             SubscribeOrders(c) \/ (\E s \in Ords : Cancel(c, s)) \/ CallerProgress(c)
      PROVE  IInv'
  BY <1>2, SubscribeIInv, CancelIInv, CancelEndIInv DEF CallerProgress
<1>3. CASE Reconnect \/ HookProgress
  BY <1>3, HookIInv
<1>4. CASE CloseFlag \/ CloseProgress
  BY <1>4, CloseIInv
<1>. QED
  BY <1>1, <1>2, <1>3, <1>4 DEF Next

LEMMA Inductive == Spec => []IInv
BY InitIInv, NextIInv, PTL DEF Spec

\* Every variable keeps its type, whatever callers, hook and Close interleave.
THEOREM TypeCorrect == Spec => []TypeOK
BY Inductive, PTL DEF IInv

\* The counter never runs ahead of the list, so the Cancel that empties the list
\* always recognises itself as the last, and a reconnect never re-enables the
\* push for nobody.
THEOREM LastCancelIsNoticed == Spec => [](CountNotAhead /\ TradeOnHasSubscriber)
BY Inductive, PTL DEF IInv

\* No channel is forgotten: whoever took a subscription off the list closes it.
THEOREM EveryChannelHasAnOwner == Spec => []OpenIsOwned
BY Inductive, PTL DEF IInv

\* The closed check under subMu suffices: nothing is registered after the drain.
THEOREM NothingJoinsAfterDrain == Spec => []DrainedStaysEmpty
BY Inductive, PTL DEF IInv

\* Once Close has returned and no other call is running, every channel is closed.
THEOREM CloseLeavesNothingOpen ==
    Spec => [](close.step = "done" /\ Quiescent => LiveOrds = {})
<1>1. IInv => (close.step = "done" /\ Quiescent => LiveOrds = {})
  BY DEF IInv, Quiescent, OpenIsOwned, DrainedStaysEmpty, DoomedOnlyInShutdown, Drained,
         LiveOrds
<1>. QED
  BY <1>1, Inductive, PTL

-----------------------------------------------------------------------------
(* The error streams of the services, of the push stream and of the        *)
(* transport, and what is reported on them                                 *)

\* A select is reached only with errcMu held, and the channel of a stream that
\* checks its flag is closed only while nobody holds errcMu; the flag keeps
\* later reports out.
ChannelIsFree ==
    /\ step # "none" => holder # NoOne
    /\ stream # "transport" /\ closing = "closed" => holder = NoOne /\ step = "none"

\* The inductive invariant.
SafeStream ==
    /\ stream \in Streams
    /\ ChannelIsFree
    /\ NeverPanics

LEMMA InitSafe == StreamInit => SafeStream
BY DEF StreamInit, SafeStream, ChannelIsFree, NeverPanics

LEMMA ReportSafe ==
    ASSUME SafeStream, NEW r \in Reporters, Report(r)
    PROVE  SafeStream'
<1>1. stream # "transport" => closing = "open"
  BY StreamAssumption DEF SafeStream, Report, ChecksClosed, StreamClosed
<1>. QED
  BY <1>1, StreamAssumption DEF SafeStream, ChannelIsFree, NeverPanics, Report

LEMMA StreamStepSafe ==
    ASSUME SafeStream, StreamStep
    PROVE  SafeStream'
<1>1. CASE SendClosed
  BY <1>1 DEF SafeStream, ChannelIsFree, NeverPanics, SendClosed, Done
<1>2. CASE Send \/ Evict \/ Resend
  BY SMTT(20), <1>2 DEF SafeStream, ChannelIsFree, NeverPanics, Send, Evict, Resend, Done
<1>3. CASE Receive
  BY <1>3 DEF SafeStream, ChannelIsFree, NeverPanics, Receive
<1>4. CASE CloseSetsFlag \/ CloseJoin \/ CloseChannel
  BY SMTT(20), <1>4 DEF SafeStream, ChannelIsFree, NeverPanics, CloseSetsFlag, CloseJoin, CloseChannel
<1>. QED
  BY <1>1, <1>2, <1>3, <1>4 DEF StreamStep

LEMMA UnchangedSafe == SafeStream /\ UNCHANGED streamVars => SafeStream'
BY SMTT(20) DEF SafeStream, ChannelIsFree, NeverPanics, streamVars

LEMMA UnroutedStepSafe == SafeStream /\ [UnroutedNext]_allVars => SafeStream'
<1>. SUFFICES ASSUME SafeStream, [UnroutedNext]_allVars PROVE SafeStream'
  OBVIOUS
<1>1. CASE UNCHANGED allVars
  BY <1>1, UnchangedSafe DEF allVars
<1>2. ASSUME NEW d \in Dispatchers, NEW id \in IDs, RecordUnrouted(d, id) PROVE SafeStream'
  BY <1>2, UnchangedSafe DEF RecordUnrouted
<1>3. ASSUME NEW d \in Dispatchers, ReportUnrouted(d) PROVE SafeStream'
  BY <1>3, ReportSafe, UnchangedSafe, UnroutedAssumption DEF ReportUnrouted
<1>4. ASSUME NEW r \in Reporters, ReportOther(r) PROVE SafeStream'
  BY <1>4, ReportSafe DEF ReportOther
<1>5. CASE StreamStep
  BY <1>5, StreamStepSafe
<1>. QED
  BY <1>1, <1>2, <1>3, <1>4, <1>5 DEF UnroutedNext

\* A report never sends on a closed channel: neither the forwarder that Close
\* joins, nor the dispatchers and the reconnect hook, which it does not.
THEOREM ReportsNeverPanic == UnroutedSpec => []NeverPanics
<1>1. UnroutedInit => SafeStream
  BY InitSafe DEF UnroutedInit
<1>2. SafeStream => NeverPanics
  BY DEF SafeStream
<1>. QED
  BY <1>1, <1>2, UnroutedStepSafe, PTL DEF UnroutedSpec

-----------------------------------------------------------------------------
\* The reports that are over: all but the one under errcMu.
Settled == IF step = "none" THEN reported ELSE reported - 1
LostErrors == (1..Settled) \ Reached

StreamTypes ==
    /\ errc \in Seq(Nat) /\ received \in Seq(Nat)
    /\ reported \in Nat /\ errsDrop \in Nat
    /\ holder \in Reporters \cup {NoOne}
    /\ step \in {"none", "send", "evict", "resend"}
    /\ step = "none" <=> holder = NoOne
    /\ step # "none" => reported > 0

\* The channel holds settled numbers, climbing, above all that were received.
ErrcInv ==
    /\ \A i, j \in DOMAIN errc : i < j => errc[i] < errc[j]
    /\ \A i \in DOMAIN received, j \in DOMAIN errc : received[i] < errc[j]
    /\ \A i \in DOMAIN errc : errc[i] \in 1..Settled
    /\ \A i \in DOMAIN received : received[i] \in 1..Settled

\* After the eviction the application only makes more room: the second send
\* succeeds.
ErrcRoom ==
    /\ Len(errc) <= Buffer
    /\ step = "resend" => Len(errc) < Buffer

\* The strengthening of DropsAreExact, which also speaks of the middle of a
\* report.
DropInv ==
    /\ StreamTypes /\ ErrcInv /\ ErrcRoom
    /\ stream = "services" => errsDrop = Cardinality(LostErrors)

\* What the stream holds after a receive, an eviction and a send.
LEMMA ErrcHeld ==
    ASSUME NEW s \in Seq(Nat), NEW n \in Nat
    PROVE  /\ Append(s, n) \in Seq(Nat) /\ Len(Append(s, n)) = Len(s) + 1
           /\ \A i \in DOMAIN Append(s, n) :
                (i \in DOMAIN s /\ Append(s, n)[i] = s[i]) \/ (i = Len(s) + 1 /\ Append(s, n)[i] = n)
           /\ Range(Append(s, n)) = Range(s) \cup {n}
           /\ s # <<>> =>
                /\ Tail(s) \in Seq(Nat) /\ Len(Tail(s)) = Len(s) - 1
                /\ Head(s) = s[1] /\ 1 \in DOMAIN s
                /\ \A i \in DOMAIN Tail(s) : i + 1 \in DOMAIN s /\ Tail(s)[i] = s[i + 1]
                /\ Range(s) = {Head(s)} \cup Range(Tail(s))
<1>1. /\ Append(s, n) \in Seq(Nat) /\ Len(Append(s, n)) = Len(s) + 1
      /\ \A i \in DOMAIN Append(s, n) :
           (i \in DOMAIN s /\ Append(s, n)[i] = s[i]) \/ (i = Len(s) + 1 /\ Append(s, n)[i] = n)
  BY SMTT(20)
<1>2. /\ \A i \in DOMAIN s : i \in DOMAIN Append(s, n) /\ Append(s, n)[i] = s[i]
      /\ Len(s) + 1 \in DOMAIN Append(s, n) /\ Append(s, n)[Len(s) + 1] = n
  BY SMTT(20)
<1>3. Range(Append(s, n)) = Range(s) \cup {n}
  BY <1>1, <1>2 DEF Range
<1>4. ASSUME s # <<>>
      PROVE  /\ Tail(s) \in Seq(Nat) /\ Len(Tail(s)) = Len(s) - 1
             /\ Head(s) = s[1] /\ 1 \in DOMAIN s
             /\ \A i \in DOMAIN Tail(s) : i + 1 \in DOMAIN s /\ Tail(s)[i] = s[i + 1]
  BY SMTT(20), <1>4
<1>5. ASSUME s # <<>>, NEW i \in DOMAIN s, i # 1
      PROVE  i - 1 \in DOMAIN Tail(s) /\ Tail(s)[i - 1] = s[i]
  BY SMTT(20), <1>5
<1>6. ASSUME s # <<>>
      PROVE  Range(s) = {Head(s)} \cup Range(Tail(s))
  <2>1. ASSUME NEW i \in DOMAIN s PROVE s[i] \in {Head(s)} \cup Range(Tail(s))
    <3>1. CASE i = 1
      BY <3>1, <1>4, <1>6
    <3>2. CASE i # 1
      BY <3>2, <1>5, <1>6 DEF Range
    <3> QED BY <3>1, <3>2
  <2>2. ASSUME NEW i \in DOMAIN Tail(s) PROVE Tail(s)[i] \in Range(s)
    BY <1>4, <1>6 DEF Range
  <2>3. Head(s) \in Range(s)
    BY <1>4, <1>6 DEF Range
  <2> QED BY <2>1, <2>2, <2>3 DEF Range
<1> QED BY <1>1, <1>3, <1>4, <1>6

\* The errors lost are finitely many.
LEMMA LostIsFinite == StreamTypes => IsFiniteSet(LostErrors) /\ Settled \in Int
<1> SUFFICES ASSUME StreamTypes PROVE IsFiniteSet(LostErrors) /\ Settled \in Int
  OBVIOUS
<1>1. Settled \in Int
  BY SMTT(20) DEF Settled, StreamTypes
<1>2. IsFiniteSet(1..Settled)
  BY SMTT(20), <1>1, FS_Interval
<1> QED BY <1>1, <1>2, FS_Difference DEF LostErrors

\* A report takes the next number and holds errcMu; nothing is lost yet.
LEMMA ReportCounts ==
    ASSUME DropInv, NEW r \in Reporters, Report(r)
    PROVE  DropInv'
<1>1. /\ step = "none" /\ holder' = r /\ step' = "send" /\ reported' = reported + 1
      /\ UNCHANGED <<stream, errc, received, errsDrop>> /\ r # NoOne
  BY StreamAssumption DEF Report, DropInv, StreamTypes
<1>2. Settled' = Settled
  BY SMTT(20), <1>1 DEF Settled, DropInv, StreamTypes
<1>3. LostErrors' = LostErrors
  BY <1>1, <1>2 DEF LostErrors, Reached
<1>4. StreamTypes'
  BY SMTT(20), <1>1 DEF DropInv, StreamTypes
<1>5. ErrcInv' /\ ErrcRoom'
  BY <1>1, <1>2 DEF DropInv, ErrcInv, ErrcRoom
<1> QED BY <1>1, <1>3, <1>4, <1>5 DEF DropInv

\* The number under errcMu enters the channel: by Send, or by Resend after an
\* eviction.  It is above everything in it.
LEMMA SentCounts ==
    ASSUME DropInv, step \in {"send", "resend"}, Len(errc) < Buffer,
           errc' = Append(errc, reported), Done,
           UNCHANGED <<stream, received, reported, errsDrop>>
    PROVE  DropInv'
<1>0. /\ reported \in Nat /\ reported > 0 /\ Settled = reported - 1 /\ Settled' = reported
      /\ step' = "none" /\ holder' = NoOne /\ Len(errc) \in Nat /\ Buffer \in Nat
      /\ errc \in Seq(Nat) /\ received \in Seq(Nat)
  BY SMTT(20), StreamAssumption DEF DropInv, StreamTypes, Settled, Done
<1>1. /\ errc' \in Seq(Nat) /\ Len(errc') = Len(errc) + 1
      /\ \A i \in DOMAIN errc' : (i \in DOMAIN errc /\ errc'[i] = errc[i]) \/ (i = Len(errc) + 1 /\ errc'[i] = reported)
      /\ Range(errc') = Range(errc) \cup {reported}
  BY <1>0, ErrcHeld
<1>2. \A i \in DOMAIN errc : i <= Len(errc) /\ errc[i] \in Nat /\ errc[i] < reported /\ errc[i] > 0
  BY SMTT(20), <1>0 DEF DropInv, ErrcInv
<1>3. \A i \in DOMAIN received : received[i] \in Nat /\ received[i] < reported /\ received[i] > 0
  BY SMTT(20), <1>0 DEF DropInv, ErrcInv
<1>4. StreamTypes'
  BY <1>0, <1>1 DEF DropInv, StreamTypes
<1>5. ErrcInv'
  <2>1. ASSUME NEW i \in DOMAIN errc', NEW j \in DOMAIN errc', i < j PROVE errc'[i] < errc'[j]
    <3>1. i \in DOMAIN errc /\ errc'[i] = errc[i]
      BY SMTT(20), <1>0, <1>1, <2>1
    <3> QED BY <1>1, <1>2, <2>1, <3>1 DEF DropInv, ErrcInv
  <2>2. \A i \in DOMAIN received, j \in DOMAIN errc' : received[i] < errc'[j]
    BY <1>1, <1>3 DEF DropInv, ErrcInv
  <2>3. \A i \in DOMAIN errc' : errc'[i] \in 1..reported
    BY SMTT(20), <1>0, <1>1, <1>2
  <2>4. \A i \in DOMAIN received : received[i] \in 1..reported
    BY SMTT(20), <1>0, <1>3
  <2> QED BY <1>0, <2>1, <2>2, <2>3, <2>4 DEF ErrcInv
<1>6. ErrcRoom'
  BY SMTT(20), <1>0, <1>1 DEF ErrcRoom
<1>7. LostErrors' = LostErrors
  BY SMTT(20), <1>0, <1>1 DEF LostErrors, Reached
<1> QED BY <1>4, <1>5, <1>6, <1>7 DEF DropInv

\* An eviction loses exactly the head, and counts it; finding the channel empty
\* it loses and counts nothing.
LEMMA EvictCounts == ASSUME DropInv, Evict PROVE DropInv'
<1>0. /\ step = "evict" /\ step' = "resend" /\ UNCHANGED <<stream, received, reported, holder>>
      /\ errc \in Seq(Nat) /\ received \in Seq(Nat) /\ Settled' = Settled /\ Buffer \in Nat /\ Buffer > 0
      /\ IsFiniteSet(LostErrors) /\ Cardinality(LostErrors) \in Nat /\ Settled \in Int
  BY SMTT(20), StreamAssumption, LostIsFinite, FS_CardinalityType DEF DropInv, StreamTypes, Settled, Evict
<1>1. CASE errc = <<>>
  <2>1. errc' = errc /\ errsDrop' = errsDrop
    BY <1>1 DEF Evict
  <2>2. LostErrors' = LostErrors
    BY <1>0, <2>1 DEF LostErrors, Reached
  <2>3. StreamTypes' /\ ErrcInv' /\ ErrcRoom'
    BY <1>0, <1>1, <2>1 DEF DropInv, StreamTypes, ErrcInv, ErrcRoom
  <2> QED BY <1>0, <2>1, <2>2, <2>3 DEF DropInv
<1>2. CASE errc # <<>>
  <2>1. errc' = Tail(errc) /\ errsDrop' = IF stream = "services" THEN errsDrop + 1 ELSE errsDrop
    BY <1>2 DEF Evict
  <2>2. /\ errc' \in Seq(Nat) /\ Len(errc') = Len(errc) - 1
        /\ Head(errc) = errc[1] /\ 1 \in DOMAIN errc
        /\ \A i \in DOMAIN errc' : i + 1 \in DOMAIN errc /\ errc'[i] = errc[i + 1]
        /\ Range(errc) = {Head(errc)} \cup Range(errc')
    BY <1>0, <1>2, <2>1, ErrcHeld
  <2>3. StreamTypes'
    BY SMTT(20), <1>0, <2>1, <2>2 DEF DropInv, StreamTypes
  <2>4. \A i \in DOMAIN errc' : i \in Nat /\ 1 < i + 1
    BY SMTT(20), <2>2
  <2>5. ErrcInv'
    BY SMTT(20), <1>0, <2>2, <2>4 DEF DropInv, ErrcInv
  <2>6. ErrcRoom'
    BY SMTT(20), <1>0, <2>2 DEF DropInv, ErrcRoom
  <2>7. Head(errc) \notin Range(errc') /\ Head(errc) \notin Range(received) /\ Head(errc) \in 1..Settled
    <3>1. \A i \in DOMAIN errc' : errc[1] < errc'[i]
      BY <2>2, <2>4 DEF DropInv, ErrcInv
    <3>2. \A i \in DOMAIN received : received[i] < errc[1]
      BY <2>2 DEF DropInv, ErrcInv
    <3>3. errc[1] \in 1..Settled
      BY <2>2 DEF DropInv, ErrcInv
    <3> QED BY SMTT(20), <1>0, <2>2, <3>1, <3>2, <3>3 DEF Range
  <2>8. LostErrors' = LostErrors \cup {Head(errc)} /\ Head(errc) \notin LostErrors
    BY <1>0, <2>2, <2>7 DEF LostErrors, Reached
  <2>9. Cardinality(LostErrors') = Cardinality(LostErrors) + 1
    BY <1>0, <2>8, FS_AddElement
  <2> QED BY <1>0, <2>1, <2>3, <2>5, <2>6, <2>9 DEF DropInv
<1> QED BY <1>1, <1>2

\* A receive moves the head from the channel to the application.
LEMMA ReceiveCounts == ASSUME DropInv, Receive PROVE DropInv'
<1>0. /\ errc # <<>> /\ errc' = Tail(errc) /\ received' = Append(received, Head(errc))
      /\ UNCHANGED <<stream, reported, holder, step, errsDrop>> /\ Settled' = Settled
      /\ errc \in Seq(Nat) /\ received \in Seq(Nat) /\ Buffer \in Nat
  BY StreamAssumption DEF DropInv, StreamTypes, Settled, Receive
<1>1. /\ errc' \in Seq(Nat) /\ Len(errc') = Len(errc) - 1
      /\ Head(errc) = errc[1] /\ 1 \in DOMAIN errc
      /\ \A i \in DOMAIN errc' : i + 1 \in DOMAIN errc /\ errc'[i] = errc[i + 1]
      /\ Range(errc) = {Head(errc)} \cup Range(errc')
  BY <1>0, ErrcHeld
<1>2. Head(errc) \in Nat
  BY SMTT(20), <1>0, <1>1
<1>3. /\ received' \in Seq(Nat)
      /\ \A i \in DOMAIN received' : (i \in DOMAIN received /\ received'[i] = received[i]) \/ received'[i] = errc[1]
      /\ Range(received') = Range(received) \cup {Head(errc)}
  BY SMTT(20), <1>0, <1>1, <1>2, ErrcHeld
<1>4. StreamTypes'
  BY <1>0, <1>1, <1>3 DEF DropInv, StreamTypes
<1>5. \A i \in DOMAIN errc' : i \in Nat /\ 1 < i + 1
  BY SMTT(20), <1>1
<1>6. ErrcInv'
  <2>1. \A i, j \in DOMAIN errc' : i < j => errc'[i] < errc'[j]
    BY SMTT(20), <1>0, <1>1, <1>5 DEF DropInv, ErrcInv
  <2>2. \A i \in DOMAIN errc' : errc[1] < errc'[i] /\ errc'[i] \in 1..Settled
    BY <1>1, <1>5 DEF DropInv, ErrcInv
  <2>3. \A i \in DOMAIN received, j \in DOMAIN errc' : received[i] < errc'[j]
    BY <1>1 DEF DropInv, ErrcInv
  <2>4. \A i \in DOMAIN received', j \in DOMAIN errc' : received'[i] < errc'[j]
    BY <1>3, <2>2, <2>3
  <2>5. \A i \in DOMAIN received' : received'[i] \in 1..Settled
    BY <1>1, <1>3 DEF DropInv, ErrcInv
  <2> QED BY <1>0, <2>1, <2>2, <2>4, <2>5 DEF ErrcInv
<1>7. ErrcRoom'
  BY SMTT(20), <1>0, <1>1 DEF DropInv, ErrcRoom
<1>8. LostErrors' = LostErrors
  BY <1>0, <1>1, <1>3 DEF LostErrors, Reached
<1> QED BY <1>0, <1>4, <1>6, <1>7, <1>8 DEF DropInv

\* What leaves the stream and its count alone keeps DropInv.
LEMMA DropFrame ==
    DropInv /\ UNCHANGED <<stream, errc, received, reported, holder, step, errsDrop>> => DropInv'
  BY DEF DropInv, StreamTypes, ErrcInv, ErrcRoom, Settled, LostErrors, Reached

\* A send on the closed channel happens on the transport's stream only, which
\* counts nothing.
LEMMA SendClosedCounts == ASSUME DropInv, SafeStream, SendClosed PROVE DropInv'
<1>0. /\ stream # "services" /\ stream' = stream /\ step' = "none" /\ holder' = NoOne
      /\ UNCHANGED <<errc, received, reported, errsDrop>>
      /\ Settled' = reported /\ Settled = reported - 1 /\ reported \in Nat
  BY DEF SendClosed, SafeStream, ChannelIsFree, Done, DropInv, StreamTypes, Settled
<1>1. StreamTypes' /\ ErrcRoom'
  BY <1>0 DEF DropInv, StreamTypes, ErrcRoom
<1>2. \A n \in 1..Settled : n \in 1..Settled'
  BY SMTT(20), <1>0
<1>3. ErrcInv'
  BY <1>0, <1>2 DEF DropInv, ErrcInv
<1> QED BY <1>0, <1>1, <1>3 DEF DropInv

LEMMA StreamStepCounts == ASSUME DropInv, SafeStream, StreamStep PROVE DropInv'
<1>0. Len(errc) \in Nat /\ Buffer \in Nat
  BY SMTT(20), StreamAssumption DEF DropInv, StreamTypes
<1>1. CASE SendClosed
  BY <1>1, SendClosedCounts
<1>2. CASE Send
  <2>1. CASE step' = "evict" /\ UNCHANGED <<errc, holder>>
    <3>1. UNCHANGED <<stream, received, reported, errsDrop>> /\ Settled' = Settled /\ step # "none"
      BY <1>2, <2>1 DEF Send, Settled
    <3> QED BY <2>1, <3>1 DEF DropInv, StreamTypes, ErrcInv, ErrcRoom, LostErrors, Reached
  <2>2. CASE ~Full /\ errc' = Append(errc, reported) /\ Done
    BY SMTT(20), <1>0, <1>2, <2>2, SentCounts DEF Send, Full
  <2> QED BY <1>2, <2>1, <2>2 DEF Send
<1>3. CASE Evict
  BY <1>3, EvictCounts
<1>4. CASE Resend
  <2>1. Len(errc) < Buffer /\ errc' = Append(errc, reported)
    BY SMTT(20), <1>0, <1>4 DEF Resend, Full, DropInv, ErrcRoom
  <2> QED BY <1>4, <2>1, SentCounts DEF Resend
<1>5. CASE Receive
  BY <1>5, ReceiveCounts
<1>6. CASE CloseSetsFlag \/ CloseJoin \/ CloseChannel
  BY <1>6, DropFrame DEF CloseSetsFlag, CloseJoin, CloseChannel
<1> QED BY <1>1, <1>2, <1>3, <1>4, <1>5, <1>6 DEF StreamStep

LEMMA DropInvNext == DropInv /\ SafeStream /\ [UnroutedNext]_allVars => DropInv'
<1> SUFFICES ASSUME DropInv, SafeStream, [UnroutedNext]_allVars PROVE DropInv'
  OBVIOUS
<1>1. CASE UNCHANGED allVars
  BY <1>1, DropFrame DEF allVars, streamVars
<1>2. ASSUME NEW d \in Dispatchers, NEW id \in IDs, RecordUnrouted(d, id) PROVE DropInv'
  BY <1>2, DropFrame DEF RecordUnrouted, streamVars
<1>3. ASSUME NEW d \in Dispatchers, ReportUnrouted(d) PROVE DropInv'
  BY <1>3, ReportCounts, DropFrame, UnroutedAssumption DEF ReportUnrouted, streamVars
<1>4. ASSUME NEW r \in Reporters, ReportOther(r) PROVE DropInv'
  BY <1>4, ReportCounts DEF ReportOther
<1>5. CASE StreamStep
  BY <1>5, StreamStepCounts
<1> QED BY <1>1, <1>2, <1>3, <1>4, <1>5 DEF UnroutedNext

LEMMA DropInvInit == UnroutedInit => DropInv
<1> SUFFICES ASSUME UnroutedInit PROVE DropInv
  OBVIOUS
<1>1. /\ errc = <<>> /\ received = <<>> /\ reported = 0 /\ holder = NoOne /\ step = "none" /\ errsDrop = 0
  BY DEF UnroutedInit, StreamInit
<1>2. LostErrors = {} /\ Cardinality({}) = 0
  BY SMTT(20), <1>1, FS_EmptySet DEF LostErrors, Settled
<1>3. StreamTypes /\ ErrcInv /\ ErrcRoom
  BY SMTT(20), <1>1, StreamAssumption DEF StreamTypes, ErrcInv, ErrcRoom
<1> QED BY <1>1, <1>2, <1>3 DEF DropInv

\* The inductive invariants of the stream hold throughout.
LEMMA StreamIsSafe == UnroutedSpec => [](SafeStream /\ DropInv)
<1>1. UnroutedInit => SafeStream
  BY InitSafe DEF UnroutedInit
<1> QED BY <1>1, DropInvInit, UnroutedStepSafe, DropInvNext, PTL DEF UnroutedSpec

\* ErrorsDropped is exact, for every buffer and however reports, evictions and
\* receives interleave.
THEOREM ErrorsDroppedIsExact == UnroutedSpec => []DropsAreExact
<1>1. DropInv => DropsAreExact
  BY DEF DropInv, DropsAreExact, StreamTypes, LostErrors, Settled
<1> QED BY <1>1, StreamIsSafe, PTL

-----------------------------------------------------------------------------
\* Every id recorded while the stream is open has a report, or is about to.
IdInv ==
    /\ subject \in Seq(IDs \cup {NoOne}) /\ Len(subject) = reported
    /\ pending \in [Dispatchers -> IDs \cup {NoOne}]
    /\ seenIDs \subseteq arrived /\ arrived \subseteq IDs
    /\ ~StreamClosed => \A id \in arrived : ReportsOf(id) # {} \/ \E d \in Dispatchers : pending[d] = id

\* A report extends subject by what it is about.
LEMMA ReportsGrow ==
    ASSUME IdInv, NEW r \in Reporters, Report(r), NEW x \in IDs \cup {NoOne},
           subject' = Append(subject, x)
    PROVE  /\ subject' \in Seq(IDs \cup {NoOne}) /\ Len(subject') = reported'
           /\ \A id \in IDs : ReportsOf(id) \subseteq ReportsOf(id)'
           /\ x \in IDs => reported' \in ReportsOf(x)'
<1>1. reported' = reported + 1 /\ reported \in Nat /\ Len(subject) = reported
  BY SMTT(20) DEF Report, IdInv
<1>2. /\ subject' \in Seq(IDs \cup {NoOne}) /\ Len(subject') = reported'
      /\ subject'[reported'] = x
      /\ \A n \in 1..reported : subject'[n] = subject[n] /\ n \in 1..reported'
      /\ reported' \in 1..reported'
  BY SMTT(20), <1>1 DEF IdInv
<1> QED BY <1>2 DEF ReportsOf

LEMMA IdInvNext == IdInv /\ [UnroutedNext]_allVars => IdInv'
<1> SUFFICES ASSUME IdInv, [UnroutedNext]_allVars PROVE IdInv'
  OBVIOUS
<1>1. CASE UNCHANGED <<subject, reported, pending, seenIDs, arrived>> /\ (~StreamClosed' => ~StreamClosed)
  BY <1>1 DEF IdInv, ReportsOf
<1>2. ASSUME NEW d \in Dispatchers, NEW id \in IDs, RecordUnrouted(d, id) PROVE IdInv'
  <2>1. /\ UNCHANGED <<subject, reported, closing>> /\ arrived' = arrived \cup {id}
        /\ pending[d] = NoOne /\ pending' = [pending EXCEPT ![d] = IF Reports(id) THEN id ELSE NoOne]
        /\ seenIDs' \subseteq seenIDs \cup {id}
    BY <1>2 DEF RecordUnrouted, streamVars, Remember
  <2>2. pending' \in [Dispatchers -> IDs \cup {NoOne}]
    BY <2>1 DEF IdInv
  <2>3. ASSUME ~StreamClosed', NEW i \in arrived'
        PROVE  ReportsOf(i)' # {} \/ \E e \in Dispatchers : pending'[e] = i
    <3>1. ReportsOf(i)' = ReportsOf(i) /\ ~StreamClosed
      BY <2>1, <2>3 DEF ReportsOf, StreamClosed
    <3>2. CASE i \in arrived
      <4>1. CASE ReportsOf(i) # {}
        BY <3>1, <4>1
      <4>2. ASSUME NEW e \in Dispatchers, pending[e] = i PROVE pending'[e] = i
        BY <2>1, <4>2, <3>2, UnroutedAssumption DEF IdInv
      <4> QED BY <3>1, <3>2, <4>1, <4>2 DEF IdInv
    <3>3. CASE i = id /\ i \notin arrived
      BY <2>1, <3>3 DEF IdInv, Reports
    <3> QED BY <2>1, <3>2, <3>3
  <2> QED BY <2>1, <2>2, <2>3 DEF IdInv
<1>3. ASSUME NEW d \in Dispatchers, ReportUnrouted(d) PROVE IdInv'
  <2>0. /\ UNCHANGED <<seenIDs, arrived>> /\ pending' = [pending EXCEPT ![d] = NoOne]
        /\ pending[d] # NoOne /\ closing' = closing
    BY <1>3 DEF ReportUnrouted, Report, streamVars
  <2>1. pending' \in [Dispatchers -> IDs \cup {NoOne}]
    BY <2>0 DEF IdInv
  <2>2. CASE Report(d) /\ subject' = Append(subject, pending[d])
    <3>1. PICK x \in IDs : x = pending[d] /\ d \in Reporters
      BY <2>0, UnroutedAssumption DEF IdInv
    <3>2. /\ subject' \in Seq(IDs \cup {NoOne}) /\ Len(subject') = reported'
          /\ \A id \in IDs : ReportsOf(id) \subseteq ReportsOf(id)'
          /\ ReportsOf(x)' # {}
      BY <2>2, <3>1, ReportsGrow
    <3>3. ASSUME ~StreamClosed', NEW i \in arrived'
          PROVE  ReportsOf(i)' # {} \/ \E e \in Dispatchers : pending'[e] = i
      <4>1. ~StreamClosed /\ i \in IDs /\ i \in arrived
        BY <2>0, <3>3 DEF StreamClosed, IdInv
      <4>2. CASE ReportsOf(i) # {}
        BY <3>2, <4>1, <4>2
      <4>3. ASSUME NEW e \in Dispatchers, pending[e] = i
            PROVE  ReportsOf(i)' # {} \/ pending'[e] = i
        BY <2>0, <3>1, <3>2, <4>3 DEF IdInv
      <4> QED BY <4>1, <4>2, <4>3 DEF IdInv
    <3> QED BY <2>0, <2>1, <3>2, <3>3 DEF IdInv
  <2>3. CASE StreamClosed /\ UNCHANGED <<streamVars, subject>>
    BY <2>0, <2>1, <2>3 DEF IdInv, StreamClosed, streamVars
  <2> QED BY <1>3, <2>2, <2>3 DEF ReportUnrouted
<1>4. ASSUME NEW r \in Reporters, ReportOther(r) PROVE IdInv'
  <2>1. /\ subject' \in Seq(IDs \cup {NoOne}) /\ Len(subject') = reported'
        /\ \A id \in IDs : ReportsOf(id) \subseteq ReportsOf(id)'
    BY <1>4, ReportsGrow DEF ReportOther
  <2>2. UNCHANGED <<seenIDs, arrived, pending, closing>>
    BY <1>4 DEF ReportOther, Report
  <2> QED BY <2>1, <2>2 DEF IdInv, StreamClosed
<1>5. CASE StreamStep /\ UNCHANGED unroutedVars
  <2>1. UNCHANGED reported /\ (~StreamClosed' => ~StreamClosed)
    BY <1>5 DEF StreamStep, SendClosed, Send, Evict, Resend, Receive, CloseSetsFlag, CloseJoin,
                CloseChannel, StreamClosed
  <2> QED BY <1>1, <1>5, <2>1 DEF unroutedVars
<1>6. CASE UNCHANGED allVars
  BY <1>1, <1>6 DEF allVars, streamVars, unroutedVars, StreamClosed
<1> QED BY <1>2, <1>3, <1>4, <1>5, <1>6 DEF UnroutedNext

\* No unrouted id escapes notice, whatever the caps of the set and the channel.
THEOREM IdsAreAccountedFor == UnroutedSpec => []EveryIdIsAccountedFor
<1>1. UnroutedInit => IdInv
  BY SMTT(20) DEF UnroutedInit, StreamInit, IdInv
<1>2. DropInv /\ IdInv => EveryIdIsAccountedFor
  <2> SUFFICES ASSUME DropInv, IdInv, stream = "services", ~StreamClosed, holder = NoOne,
                      \A d \in Dispatchers : pending[d] = NoOne, NEW id \in arrived
               PROVE  /\ ReportsOf(id) # {}
                      /\ ReportsOf(id) \cap Reached = {} => errsDrop >= Cardinality(ReportsOf(id))
    BY DEF EveryIdIsAccountedFor
  <2>1. ReportsOf(id) # {}
    BY UnroutedAssumption DEF IdInv
  <2>2. errsDrop = Cardinality(LostErrors) /\ IsFiniteSet(LostErrors)
        /\ LostErrors = (1..reported) \ Reached
    BY LostIsFinite DEF DropInv, StreamTypes, LostErrors, Settled
  <2>3. ASSUME ReportsOf(id) \cap Reached = {} PROVE ReportsOf(id) \subseteq LostErrors
    BY <2>2, <2>3 DEF ReportsOf
  <2>4. ASSUME ReportsOf(id) \cap Reached = {} PROVE errsDrop >= Cardinality(ReportsOf(id))
    <3>1. Cardinality(ReportsOf(id)) <= Cardinality(LostErrors)
      BY <2>2, <2>3, <2>4, FS_Subset
    <3>2. Cardinality(ReportsOf(id)) \in Nat /\ Cardinality(LostErrors) \in Nat
      BY <2>2, <2>3, <2>4, FS_Subset, FS_CardinalityType
    <3> QED BY <2>2, <3>1, <3>2
  <2> QED BY <2>1, <2>4
<1> QED BY <1>1, <1>2, StreamIsSafe, IdInvNext, PTL DEF UnroutedSpec

=============================================================================
