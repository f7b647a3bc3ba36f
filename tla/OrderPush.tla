------------------------------ MODULE OrderPush ------------------------------
(***************************************************************************)
(* The order half of pkg/services/push.go: one session-wide trade push,    *)
(* enabled for the first OrderSubscription and disabled for the last.  The *)
(* code decides "first" by tradeOn and "last" by the counter tradeSubs,    *)
(* both beside the list of subscriptions rather than derived from it.      *)
(*                                                                         *)
(* The half shares subMu, closed and the reconnect hook with MarketPush;   *)
(* the market requests the hook makes first, and the market transactions   *)
(* that hold subMu, are delays here.  Account identifiers only label       *)
(* requests and are left out.                                              *)
(***************************************************************************)
EXTENDS Integers, FiniteSets

CONSTANTS
    Callers,        \* goroutines calling SubscribeOrders and Cancel
    Ords,           \* pool of OrderSubscription objects (bounds the calls)
    MaxReconnects,  \* bound on the transport's reconnects
    None

ASSUME OrdersAssumption ==
    /\ IsFiniteSet(Ords)
    /\ MaxReconnects \in Nat
    /\ None \notin Callers \cup Ords

VARIABLES
    orders,      \* o.orders
    tradeOn,     \* o.tradeOn
    tradeSubs,   \* o.tradeSubs
    chan,        \* OrderSubscription.closed: its Updates channel
    subMu,       \* the caller holding subMu across its request
    call,        \* where each caller is in SubscribeOrders or Cancel
    hook,        \* where the reconnect hook is
    close,       \* where Close is; o.closed is set from "flagged" on
    gwOn,        \* external: the Gateway pushes trade notifications
    reconnects

vars == <<orders, tradeOn, tradeSubs, chan, subMu, call, hook, close, gwOn, reconnects>>
registry == <<orders, tradeOn, tradeSubs, chan>>

Idle == [op |-> "idle", ord |-> None, last |-> FALSE]
At(step) == [step |-> step, doomed |-> {}]

Closed == close.step # "open"
Drained == close.step \in {"shutdown", "done"}
Live(s) == chan[s] = "open"
LiveOrds == {s \in Ords : Live(s)}

CallStates == [op : {"idle", "enter", "request", "shutdown", "unsubscribe"},
               ord : Ords \cup {None}, last : BOOLEAN]
HookStates == [step : {"idle", "snapshot", "trade", "await", "kill", "shutdown"},
               doomed : SUBSET Ords]
CloseStates == [step : {"open", "flagged", "shutdown", "done"}, doomed : SUBSET Ords]

TypeOK ==
    /\ orders \subseteq Ords
    /\ tradeOn \in BOOLEAN
    /\ tradeSubs \in Int
    /\ chan \in [Ords -> {"unused", "open", "closed"}]
    /\ subMu \in Callers \cup {None}
    /\ call \in [Callers -> CallStates]
    /\ hook \in HookStates
    /\ close \in CloseStates
    /\ gwOn \in BOOLEAN
    /\ reconnects \in 0..MaxReconnects

Init ==
    /\ orders = {}
    /\ tradeOn = FALSE
    /\ tradeSubs = 0
    /\ chan = [s \in Ords |-> "unused"]
    /\ subMu = None
    /\ call = [c \in Callers |-> Idle]
    /\ hook = At("idle")
    /\ close = At("open")
    /\ gwOn = FALSE
    /\ reconnects = 0

-----------------------------------------------------------------------------
(* The Gateway's side of a request (external): "lost" took effect although *)
(* an error came back.                                                     *)
Outcomes == {"accepted", "refused", "lost"}
GatewaySwitch(outcome, on) == gwOn' = IF outcome = "refused" THEN gwOn ELSE on

-----------------------------------------------------------------------------
Goto(c, op) == call' = [call EXCEPT ![c] = [op |-> op, ord |-> None, last |-> FALSE]]

\* SubscribeOrders: the unlocked check of o.closed.
SubscribeOrders(c) ==
    /\ call[c].op = "idle"
    /\ ~Closed
    /\ \E s \in Ords : chan[s] = "unused"
    /\ Goto(c, "enter")
    /\ UNCHANGED <<registry, subMu, hook, close, gwOn, reconnects>>

\* newOrderSubscription, append to o.orders, tradeSubs++.
Register ==
    \E s \in Ords :
        /\ chan[s] = "unused"
        /\ orders' = orders \cup {s}
        /\ tradeSubs' = tradeSubs + 1
        /\ chan' = [chan EXCEPT ![s] = "open"]

\* Mutant: only the unlocked check of o.closed.
SubscribeOrdersUnchecked(c) ==
    /\ call[c].op = "enter"
    /\ subMu = None
    /\ \/ /\ tradeOn
          /\ Register
          /\ Goto(c, "idle")
          /\ UNCHANGED <<tradeOn, subMu>>
       \/ /\ ~tradeOn
          /\ subMu' = c
          /\ Goto(c, "request")
          /\ UNCHANGED registry
    /\ UNCHANGED <<hook, close, gwOn, reconnects>>

\* subscribeOrdersUnderLock up to its request.
SubscribeOrdersLocked(c) ==
    /\ call[c].op = "enter"
    /\ subMu = None
    /\ \/ /\ Closed
          /\ Goto(c, "idle")
          /\ UNCHANGED <<registry, subMu>>
       \/ /\ ~Closed
          /\ tradeOn
          /\ Register
          /\ Goto(c, "idle")
          /\ UNCHANGED <<tradeOn, subMu>>
       \/ /\ ~Closed
          /\ ~tradeOn
          /\ subMu' = c
          /\ Goto(c, "request")
          /\ UNCHANGED registry
    /\ UNCHANGED <<hook, close, gwOn, reconnects>>

SubscribeOrdersReply(c) ==
    /\ call[c].op = "request"
    /\ \E outcome \in Outcomes :
          /\ GatewaySwitch(outcome, TRUE)
          /\ \/ outcome = "accepted" /\ tradeOn' = TRUE /\ Register
             \/ outcome # "accepted" /\ UNCHANGED registry
    /\ subMu' = None
    /\ Goto(c, "idle")
    /\ UNCHANGED <<hook, close, reconnects>>

-----------------------------------------------------------------------------
\* OrderSubscription.Cancel under subMu.  Only the channel says whether the
\* subscription is still there; the channel is closed after subMu is let go.
Cancel(c, s) ==
    /\ call[c].op = "idle"
    /\ subMu = None
    /\ Live(s)
    /\ orders' = orders \ {s}
    /\ tradeSubs' = tradeSubs - 1
    /\ tradeOn' = (tradeOn /\ tradeSubs' > 0)
    /\ call' = [call EXCEPT ![c] = [op |-> "shutdown", ord |-> s, last |-> tradeSubs' <= 0]]
    /\ UNCHANGED <<chan, subMu, hook, close, gwOn, reconnects>>

Shutdown(ss) == chan' = [s \in Ords |-> IF s \in ss THEN "closed" ELSE chan[s]]

CancelShutdown(c) ==
    /\ call[c].op = "shutdown"
    /\ Shutdown({call[c].ord})
    /\ Goto(c, IF call[c].last THEN "unsubscribe" ELSE "idle")
    /\ UNCHANGED <<orders, tradeOn, tradeSubs, subMu, hook, close, gwOn, reconnects>>

CancelReply(c) ==
    /\ call[c].op = "unsubscribe"
    /\ \E outcome \in Outcomes : GatewaySwitch(outcome, FALSE)
    /\ Goto(c, "idle")
    /\ UNCHANGED <<registry, subMu, hook, close, reconnects>>

-----------------------------------------------------------------------------
(* The trade leg of the reconnect hook.                                    *)

Reconnect ==
    /\ hook.step = "idle"
    /\ reconnects < MaxReconnects
    /\ reconnects' = reconnects + 1
    /\ gwOn' = FALSE
    /\ hook' = At(IF Closed THEN "idle" ELSE "snapshot")
    /\ UNCHANGED <<registry, subMu, call, close>>

\* tradeLive is read under subMu; the market leg runs before the trade leg.
ResubscribeSnapshot ==
    /\ hook.step = "snapshot"
    /\ subMu = None
    /\ hook' = At(IF tradeOn THEN "trade" ELSE "idle")
    /\ UNCHANGED <<registry, subMu, call, close, gwOn, reconnects>>

\* The request fails unsent once Close has cancelled its context.
ResubscribeOrders ==
    /\ hook.step = "trade"
    /\ hook' = At(IF Closed THEN "kill" ELSE "await")
    /\ UNCHANGED <<registry, subMu, call, close, gwOn, reconnects>>

ResubscribeReply ==
    /\ hook.step = "await"
    /\ \E outcome \in Outcomes :
          /\ GatewaySwitch(outcome, TRUE)
          /\ hook' = At(IF outcome = "accepted" THEN "idle" ELSE "kill")
    /\ UNCHANGED <<registry, subMu, call, close, reconnects>>

\* Mutant: tradeSubs keeps its value when the list is emptied.
KillOrdersKeepsCount ==
    /\ hook.step = "kill"
    /\ subMu = None
    /\ orders' = {}
    /\ tradeOn' = FALSE
    /\ hook' = [step |-> "shutdown", doomed |-> orders]
    /\ UNCHANGED <<tradeSubs, chan, subMu, call, close, gwOn, reconnects>>

KillOrders ==
    /\ hook.step = "kill"
    /\ subMu = None
    /\ orders' = {}
    /\ tradeOn' = FALSE
    /\ tradeSubs' = 0
    /\ hook' = [step |-> "shutdown", doomed |-> orders]
    /\ UNCHANGED <<chan, subMu, call, close, gwOn, reconnects>>

KillShutdown ==
    /\ hook.step = "shutdown"
    /\ Shutdown(hook.doomed)
    /\ hook' = At("idle")
    /\ UNCHANGED <<orders, tradeOn, tradeSubs, subMu, call, close, gwOn, reconnects>>

-----------------------------------------------------------------------------
(* Close and closeAll, which resets the list but neither of its counters.  *)

CloseFlag ==
    /\ close.step = "open"
    /\ close' = At("flagged")
    /\ UNCHANGED <<registry, subMu, call, hook, gwOn, reconnects>>

CloseDrain ==
    /\ close.step = "flagged"
    /\ subMu = None
    /\ close' = [step |-> "shutdown", doomed |-> orders]
    /\ orders' = {}
    /\ UNCHANGED <<tradeOn, tradeSubs, chan, subMu, call, hook, gwOn, reconnects>>

CloseShutdown ==
    /\ close.step = "shutdown"
    /\ Shutdown(close.doomed)
    /\ close' = At("done")
    /\ UNCHANGED <<orders, tradeOn, tradeSubs, subMu, call, hook, gwOn, reconnects>>

-----------------------------------------------------------------------------
CallerProgress(c) ==
    \/ SubscribeOrdersLocked(c) \/ SubscribeOrdersReply(c)
    \/ CancelShutdown(c) \/ CancelReply(c)
HookProgress ==
    \/ ResubscribeSnapshot \/ ResubscribeOrders \/ ResubscribeReply
    \/ KillOrders \/ KillShutdown
CloseProgress == CloseDrain \/ CloseShutdown

Next ==
    \/ \E c \in Callers :
          \/ SubscribeOrders(c)
          \/ \E s \in Ords : Cancel(c, s)
          \/ CallerProgress(c)
    \/ Reconnect \/ HookProgress
    \/ CloseFlag \/ CloseProgress

Spec == Init /\ [][Next]_vars

\* As in MarketPush: running goroutines run on, requests end, locks are granted.
Fairness ==
    /\ \A c \in Callers : WF_vars(CallerProgress(c))
    /\ WF_vars(HookProgress)
    /\ WF_vars(CloseProgress)

FairSpec == Spec /\ Fairness

-----------------------------------------------------------------------------
(* Properties.                                                             *)

\* tradeSubs never runs ahead of the list, so the Cancel that empties the list
\* always sees tradeSubs <= 0 and switches the Gateway's push off (Cancel,
\* killOrders).  It may fall behind: see LastMeansLast.
CountNotAhead == ~Drained => tradeSubs <= Cardinality(orders)

\* Until Close drains the list, the push is held on only for a subscriber: a
\* reconnect never re-enables it for nobody (tradeOn in Cancel, killOrders).
TradeOnHasSubscriber == tradeOn /\ ~Drained => orders # {}

\* Every open Updates channel has an owner that will close it: it is listed, or
\* a Cancel, the reconnect hook or Close is about to shut it down.
OpenIsOwned ==
    \A s \in Ords : Live(s) =>
        \/ s \in orders
        \/ \E c \in Callers : call[c].op = "shutdown" /\ call[c].ord = s
        \/ s \in hook.doomed
        \/ s \in close.doomed

\* After the drain the list stays empty: no SubscribeOrders that passed its
\* first check adds to a closed orchestration.
DrainedStaysEmpty == Drained => orders = {}

Quiescent == hook.step = "idle" /\ \A c \in Callers : call[c].op = "idle"

\* Cancel disables the push only when it takes the last subscription away.
LastMeansLast == [][tradeOn /\ ~tradeOn' => orders' = {}]_vars

\* Close ends every subscription: no Updates channel stays open, even when calls
\* and a reconnect are under way as Close begins.
CloseEndsEveryChannel == Closed ~> (LiveOrds = {})

=============================================================================
