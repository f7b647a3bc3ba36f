----------------------------- MODULE MarketPush -----------------------------
(***************************************************************************)
(* The market half of pkg/services/push.go: PushOrchestration keeps a      *)
(* registry of subscriptions, coalesced into one entry per key (a topic    *)
(* and its security set), and tells the Gateway over HTTP when a key gains *)
(* its first or loses its last subscriber.  Callers subscribe and cancel   *)
(* concurrently; the transport's goroutine runs the reconnect hook, which  *)
(* re-subscribes every key and terminates the ones the Gateway refuses;    *)
(* the dispatcher looks routed subscriptions up; Close drains everything.  *)
(*                                                                         *)
(* subMu is held across Subscribe's HTTP request and for single steps      *)
(* elsewhere, so only the former needs a holder in the state.  Entries and *)
(* subscriptions are pointers in the code, and the reconnect hook keeps an *)
(* entry pointer while subMu is free: they are identities here too.        *)
(***************************************************************************)
EXTENDS Naturals, FiniteSets

CONSTANTS
    Callers,        \* goroutines calling Subscribe, Cancel and Close
    Keys,           \* subscription keys: a topic with its security set
    Subs,           \* pool of Subscription objects (bounds the calls made)
    Entries,        \* pool of pushEntry objects
    MaxReconnects,  \* bound on the transport's reconnects
    None

ASSUME PushAssumption ==
    /\ IsFiniteSet(Callers) /\ IsFiniteSet(Subs) /\ IsFiniteSet(Entries)
    /\ MaxReconnects \in Nat
    /\ None \notin Callers \cup Keys \cup Subs \cup Entries

VARIABLES
    entries,     \* o.entries: key to entry, None when absent
    esubs,       \* pushEntry.subs
    ekey,        \* pushEntry.topic and .securities
    routed,      \* the subscriptions present in o.byKey
    skey,        \* Subscription.topic and .securities
    chan,        \* Subscription.closed: its Updates channel
    subMu,       \* the caller holding subMu across its request
    call,        \* where each caller is in Subscribe or Cancel
    hook,        \* where the reconnect hook is
    dispatch,    \* where the dispatcher is
    close,       \* where Close is; o.closed is set from "flagged" on
    gw,          \* external: the keys the Gateway pushes on this connection
    reconnects,  \* reconnects so far
    refused,     \* entries whose refused re-subscribe has been dealt with
    raced        \* history: keys subscribed while an unsubscribe was still to come

registry == <<entries, esubs, ekey, routed, skey, chan, raced>>
vars == <<entries, esubs, ekey, routed, skey, chan, subMu, call, hook,
          dispatch, close, gw, reconnects, refused, raced>>

Closed == close.step # "open"
Registered == {e \in Entries : \E k \in Keys : entries[k] = e}
Live(s) == chan[s] = "open"

Idle == [op |-> "idle"]
HookIdle == [step |-> "idle"]

CallStates ==
    {Idle}
    \cup [op : {"enter", "request", "unsubscribe"}, key : Keys]
    \cup [op : {"shutdown"}, sub : Subs, last : BOOLEAN]

HookStates ==
    {HookIdle, [step |-> "snapshot"]}
    \cup [step : {"next"}, todo : SUBSET Entries]
    \cup [step : {"await", "kill", "unsubscribe"}, todo : SUBSET Entries, entry : Entries]
    \cup [step : {"shutdown"}, todo : SUBSET Entries, entry : Entries, doomed : SUBSET Subs]

CloseStates ==
    [step : {"open", "flagged", "done"}]
    \cup [step : {"shutdown"}, doomed : SUBSET Subs]

TypeOK ==
    /\ entries \in [Keys -> Entries \cup {None}]
    /\ esubs \in [Entries -> SUBSET Subs]
    /\ ekey \in [Entries -> Keys \cup {None}]
    /\ routed \subseteq Subs
    /\ skey \in [Subs -> Keys \cup {None}]
    /\ chan \in [Subs -> {"unused", "open", "closed"}]
    /\ subMu \in Callers \cup {None}
    /\ call \in [Callers -> CallStates]
    /\ hook \in HookStates
    /\ dispatch \in {"idle", "lookup"}
    /\ close \in CloseStates
    /\ gw \subseteq Keys
    /\ reconnects \in 0..MaxReconnects
    /\ refused \subseteq Entries
    /\ raced \subseteq Keys

\* NewPushOrchestration, with both halves of the transport present.
Init ==
    /\ entries = [k \in Keys |-> None]
    /\ esubs = [e \in Entries |-> {}]
    /\ ekey = [e \in Entries |-> None]
    /\ routed = {}
    /\ skey = [s \in Subs |-> None]
    /\ chan = [s \in Subs |-> "unused"]
    /\ subMu = None
    /\ call = [c \in Callers |-> Idle]
    /\ hook = HookIdle
    /\ dispatch = "idle"
    /\ close = [step |-> "open"]
    /\ gw = {}
    /\ reconnects = 0
    /\ refused = {}
    /\ raced = {}

-----------------------------------------------------------------------------
(* The Gateway's side of a request (external).  A request may be accepted, *)
(* refused, or take effect although its reply is lost and an error comes   *)
(* back to the caller.                                                     *)
Outcomes == {"accepted", "refused", "lost"}
GatewaySubscribe(k, outcome) ==
    gw' = IF outcome = "refused" THEN gw ELSE gw \cup {k}
GatewayUnsubscribe(k, outcome) ==
    gw' = IF outcome = "refused" THEN gw ELSE gw \ {k}

-----------------------------------------------------------------------------
(* Subscribe.                                                              *)

Return(c) == call' = [call EXCEPT ![c] = Idle]

\* The unlocked check of o.closed.
Subscribe(c, k) ==
    /\ call[c] = Idle
    /\ ~Closed
    /\ \E s \in Subs : chan[s] = "unused"
    /\ call' = [call EXCEPT ![c] = [op |-> "enter", key |-> k]]
    /\ UNCHANGED <<registry, subMu, hook, dispatch, close, gw, reconnects, refused>>

\* Some Cancel has dropped the key and not yet unsubscribed it.
UnsubscribePending(k) ==
    \E c \in Callers : \/ call[c].op = "unsubscribe" /\ call[c].key = k
                       \/ call[c].op = "shutdown" /\ call[c].last /\ skey[call[c].sub] = k

\* newSubscription, append to entry.subs, attachLocked.
Attach(e, k) ==
    LET s == CHOOSE s \in Subs : chan[s] = "unused" IN
    /\ \E t \in Subs : chan[t] = "unused"
    /\ esubs' = [esubs EXCEPT ![e] = @ \cup {s}]
    /\ routed' = routed \cup {s}
    /\ skey' = [skey EXCEPT ![s] = k]
    /\ chan' = [chan EXCEPT ![s] = "open"]
    /\ raced' = IF UnsubscribePending(k) THEN raced \cup {k} ELSE raced

\* subMu is taken.  A closed orchestration returns, an existing key is joined
\* without a request, a new key needs /hq/Subscribe with subMu held.
SubscribeLocked(c) ==
    /\ call[c].op = "enter"
    /\ subMu = None
    /\ LET k == call[c].key IN
       \/ /\ Closed
          /\ Return(c)
          /\ UNCHANGED <<registry, subMu>>
       \/ /\ ~Closed
          /\ entries[k] # None
          /\ Attach(entries[k], k)
          /\ Return(c)
          /\ UNCHANGED <<entries, ekey, subMu>>
       \/ /\ ~Closed
          /\ entries[k] = None
          /\ subMu' = c
          /\ call' = [call EXCEPT ![c] = [op |-> "request", key |-> k]]
          /\ UNCHANGED registry
    /\ UNCHANGED <<hook, dispatch, close, gw, reconnects, refused>>

\* Mutant: an error return that forgets to unlock subMu.
SubscribeReplyKeepsLock(c) ==
    /\ call[c].op = "request"
    /\ \E outcome \in Outcomes :
          /\ GatewaySubscribe(call[c].key, outcome)
          /\ subMu' = IF outcome = "accepted" THEN None ELSE c
    /\ Return(c)
    /\ UNCHANGED <<registry, hook, dispatch, close, reconnects, refused>>

SubscribeReply(c) ==
    /\ call[c].op = "request"
    /\ LET k == call[c].key IN
       \E outcome \in Outcomes :
          /\ GatewaySubscribe(k, outcome)
          /\ \/ /\ outcome = "accepted"
                /\ LET e == CHOOSE e \in Entries : ekey[e] = None IN
                   /\ \E f \in Entries : ekey[f] = None
                   /\ ekey' = [ekey EXCEPT ![e] = k]
                   /\ entries' = [entries EXCEPT ![k] = e]
                   /\ Attach(e, k)
             \/ /\ outcome # "accepted"
                /\ UNCHANGED registry
    /\ subMu' = None
    /\ Return(c)
    /\ UNCHANGED <<hook, dispatch, close, reconnects, refused>>

-----------------------------------------------------------------------------
(* Cancel.                                                                 *)

\* detachLocked.  A subscription whose entry is not registered is left alone,
\* its place in the routing index included.
Detach(s) ==
    LET k == skey[s]
        e == entries[k]
    IN  IF e = None THEN UNCHANGED <<entries, esubs, routed>>
        ELSE /\ esubs' = [esubs EXCEPT ![e] = @ \ {s}]
             /\ routed' = routed \ {s}
             /\ entries' = IF esubs[e] \ {s} = {} THEN [entries EXCEPT ![k] = None]
                           ELSE entries

\* Mutant: every Cancel unsubscribes, as the released stream client does.
AlwaysLast(s) == TRUE

LastOfEntry(s) == entries[skey[s]] # None /\ esubs[entries[skey[s]]] \ {s} = {}

\* A closed subscription makes Cancel return at once: no step.
Cancel(c, s) ==
    /\ call[c] = Idle
    /\ subMu = None
    /\ Live(s)
    /\ Detach(s)
    /\ call' = [call EXCEPT ![c] = [op |-> "shutdown", sub |-> s, last |-> LastOfEntry(s)]]
    /\ UNCHANGED <<ekey, skey, chan, raced, subMu, hook, dispatch, close, gw, reconnects, refused>>

Shutdown(ss) == chan' = [s \in Subs |-> IF s \in ss THEN "closed" ELSE chan[s]]

CancelShutdown(c) ==
    /\ call[c].op = "shutdown"
    /\ Shutdown({call[c].sub})
    /\ call' = [call EXCEPT ![c] =
                   IF call[c].last THEN [op |-> "unsubscribe", key |-> skey[call[c].sub]]
                   ELSE Idle]
    /\ UNCHANGED <<entries, esubs, ekey, routed, skey, raced, subMu, hook, dispatch, close,
                   gw, reconnects, refused>>

CancelReply(c) ==
    /\ call[c].op = "unsubscribe"
    /\ \E outcome \in Outcomes : GatewayUnsubscribe(call[c].key, outcome)
    /\ Return(c)
    /\ UNCHANGED <<registry, subMu, hook, dispatch, close, reconnects, refused>>

-----------------------------------------------------------------------------
(* The reconnect hook, on the transport's Run goroutine.                   *)

\* The connection was replaced, so the Gateway pushes nothing on the new one.
\* onReconnect then returns at once on a closed orchestration.
Reconnect ==
    /\ hook = HookIdle
    /\ reconnects < MaxReconnects
    /\ reconnects' = reconnects + 1
    /\ gw' = {}
    /\ hook' = IF Closed THEN HookIdle ELSE [step |-> "snapshot"]
    /\ UNCHANGED <<registry, subMu, call, dispatch, close, refused>>

\* resubscribeAll takes the registered entries under subMu and lets go of it.
ResubscribeSnapshot ==
    /\ hook.step = "snapshot"
    /\ subMu = None
    /\ hook' = [step |-> "next", todo |-> Registered]
    /\ UNCHANGED <<registry, subMu, call, dispatch, close, gw, reconnects, refused>>

\* The next entry, in the stable order of the canonical keys.  Its request is
\* made under a context Close has cancelled once the orchestration is closed.
ResubscribeNext ==
    /\ hook.step = "next"
    /\ IF hook.todo = {} THEN hook' = HookIdle
       ELSE LET e == CHOOSE e \in hook.todo : TRUE IN
            hook' = [step |-> IF Closed THEN "kill" ELSE "await",
                     todo |-> hook.todo \ {e}, entry |-> e]
    /\ UNCHANGED <<registry, subMu, call, dispatch, close, gw, reconnects, refused>>

ResubscribeReply ==
    /\ hook.step = "await"
    /\ \E outcome \in Outcomes :
          /\ GatewaySubscribe(ekey[hook.entry], outcome)
          /\ hook' = IF outcome = "accepted" THEN [step |-> "next", todo |-> hook.todo]
                     ELSE [hook EXCEPT !.step = "kill"]
    /\ UNCHANGED <<registry, subMu, call, dispatch, close, reconnects, refused>>

\* Mutant: the refused entry stays registered and can be joined.
KillEntryKeepsKey ==
    /\ hook.step = "kill"
    /\ subMu = None
    /\ routed' = routed \ esubs[hook.entry]
    /\ hook' = [step |-> "shutdown", todo |-> hook.todo, entry |-> hook.entry,
                doomed |-> esubs[hook.entry]]
    /\ UNCHANGED <<entries, esubs, ekey, skey, chan, raced, subMu, call, dispatch, close, gw,
                   reconnects, refused>>

\* killEntry under subMu: the entry's subscriptions leave the routing index and
\* the entry's KEY leaves the registry, whatever entry it maps to by now.
KillEntry ==
    /\ hook.step = "kill"
    /\ subMu = None
    /\ routed' = routed \ esubs[hook.entry]
    /\ entries' = [entries EXCEPT ![ekey[hook.entry]] = None]
    /\ hook' = [step |-> "shutdown", todo |-> hook.todo, entry |-> hook.entry,
                doomed |-> esubs[hook.entry]]
    /\ UNCHANGED <<esubs, ekey, skey, chan, raced, subMu, call, dispatch, close, gw,
                   reconnects, refused>>

KillShutdown ==
    /\ hook.step = "shutdown"
    /\ Shutdown(hook.doomed)
    /\ refused' = refused \cup {hook.entry}
    /\ hook' = [step |-> "unsubscribe", todo |-> hook.todo, entry |-> hook.entry]
    /\ UNCHANGED <<entries, esubs, ekey, routed, skey, raced, subMu, call, dispatch, close,
                   gw, reconnects>>

KillReply ==
    /\ hook.step = "unsubscribe"
    /\ \E outcome \in Outcomes : GatewayUnsubscribe(ekey[hook.entry], outcome)
    /\ hook' = [step |-> "next", todo |-> hook.todo]
    /\ UNCHANGED <<registry, subMu, call, dispatch, close, reconnects, refused>>

-----------------------------------------------------------------------------
(* dispatchMarket reads byKey holding mu, which no writer of byKey holds.  *)
(* What the subscriptions found then queue is PushDelivery's, and an update *)
(* that finds none is UnroutedReport's: neither changes the state here.    *)

DispatchLookup ==
    /\ dispatch = "idle"
    /\ gw # {}
    /\ dispatch' = "lookup"
    /\ UNCHANGED <<registry, subMu, call, hook, close, gw, reconnects, refused>>

DispatchDeliver ==
    /\ dispatch = "lookup"
    /\ dispatch' = "idle"
    /\ UNCHANGED <<registry, subMu, call, hook, close, gw, reconnects, refused>>

-----------------------------------------------------------------------------
(* Close: closed and closeCh, the transport, closeAll under subMu, and the *)
(* shutdown of what was drained.                                           *)

CloseFlag ==
    /\ close.step = "open"
    /\ close' = [step |-> "flagged"]
    /\ UNCHANGED <<registry, subMu, call, hook, dispatch, gw, reconnects, refused>>

\* Mutant: the drain reads only one subscriber of each coalesced entry.
CloseDrainFirstOnly ==
    /\ close.step = "flagged"
    /\ subMu = None
    /\ close' = [step |-> "shutdown",
                 doomed |-> {CHOOSE s \in esubs[e] : TRUE : e \in Registered}]
    /\ entries' = [k \in Keys |-> None]
    /\ routed' = {}
    /\ UNCHANGED <<esubs, ekey, skey, chan, raced, subMu, call, hook, dispatch, gw,
                   reconnects, refused>>

CloseDrain ==
    /\ close.step = "flagged"
    /\ subMu = None
    /\ close' = [step |-> "shutdown", doomed |-> UNION {esubs[e] : e \in Registered}]
    /\ entries' = [k \in Keys |-> None]
    /\ routed' = {}
    /\ UNCHANGED <<esubs, ekey, skey, chan, raced, subMu, call, hook, dispatch, gw,
                   reconnects, refused>>

CloseShutdown ==
    /\ close.step = "shutdown"
    /\ Shutdown(close.doomed)
    /\ close' = [step |-> "done"]
    /\ UNCHANGED <<entries, esubs, ekey, routed, skey, raced, subMu, call, hook, dispatch,
                   gw, reconnects, refused>>

-----------------------------------------------------------------------------
CallerProgress(c) ==
    SubscribeLocked(c) \/ SubscribeReply(c) \/ CancelShutdown(c) \/ CancelReply(c)
HookProgress ==
    \/ ResubscribeSnapshot \/ ResubscribeNext \/ ResubscribeReply
    \/ KillEntry \/ KillShutdown \/ KillReply
CloseProgress == CloseDrain \/ CloseShutdown

Next ==
    \/ \E c \in Callers :
          \/ \E k \in Keys : Subscribe(c, k)
          \/ \E s \in Subs : Cancel(c, s)
          \/ CallerProgress(c)
    \/ Reconnect \/ HookProgress
    \/ DispatchLookup \/ DispatchDeliver
    \/ CloseFlag \/ CloseProgress

Spec == Init /\ [][Next]_vars

\* Every goroutine that is running goes on running: requests end, by a reply or
\* by their deadline, and a mutex that is free is handed to who waits for it.
Fairness ==
    /\ \A c \in Callers : WF_vars(CallerProgress(c))
    /\ WF_vars(HookProgress)
    /\ WF_vars(CloseProgress)

FairSpec == Spec /\ Fairness

-----------------------------------------------------------------------------
(* Properties.                                                             *)

\* Once the hook has dealt with a refused re-subscribe, every subscription that
\* ever shared the entry is closed: none is left waiting on a key the Gateway
\* does not serve, and none can join the dead entry later (killEntry).
RefusedAreClosed ==
    \A e \in refused : \A s \in esubs[e] : chan[s] = "closed"

Quiescent == hook = HookIdle /\ \A c \in Callers : call[c] = Idle

\* With every call returned and the hook done, a live subscription's key is one
\* the Gateway pushes: no silent no-data (Subscribe, Cancel, resubscribeAll).
NoSilentSubscription ==
    Quiescent /\ ~Closed => \A s \in Subs : Live(s) => skey[s] \in gw

\* As long as the connection lasts, the only way to lose the Gateway's push is a
\* Subscribe that came between a Cancel's unlock and its unsubscribe: coalescing
\* itself never leaves a live subscription unfed, whatever the Gateway answers.
OnlyARaceSilences ==
    Quiescent /\ ~Closed /\ reconnects = 0 =>
        \A s \in Subs : Live(s) => skey[s] \in gw \cup raced

\* When Close has returned and no other call is running, no Updates channel is
\* open: Cancel or Close has closed every one of them.  (Once a connection has
\* been replaced, killEntry may orphan a subscription: see the README.)
CloseClosesEverySubscription ==
    Quiescent /\ close.step = "done" /\ reconnects = 0 => \A s \in Subs : ~Live(s)

\* No writer changes the routing index while the dispatcher is reading it
\* (subMu is "never held while mu is not"; dispatchMarket holds mu).
LookupExcludesWriters == [][routed' # routed => dispatch # "lookup"]_vars

\* Close is never stuck behind subMu, and after it every call and the hook come
\* to an end: nothing waits for a lock that is never released.
CloseQuiesces == Closed ~> (close.step = "done" /\ Quiescent)

=============================================================================
