-------------------------- MODULE MarketPushProofs --------------------------
(***************************************************************************)
(* Proofs about MarketPush, for any number of callers, keys, subscriptions *)
(* and reconnects: what becomes of a refused entry, and, on one connection,*)
(* what Close closes and what the Gateway feeds.                           *)
(***************************************************************************)
EXTENDS MarketPush, TLAPS

\* A leaf that names no prover goes to Zenon; arithmetic goes to SMT.
USE ZenonT(20)

-----------------------------------------------------------------------------
(* Types.                                                                  *)

\* The fields a caller has at each point of a call.
LEMMA CallFields ==
    ASSUME TypeOK, NEW c \in Callers
    PROVE  /\ call[c].op \in {"idle", "enter", "request", "unsubscribe", "shutdown"}
           /\ call[c].op \in {"enter", "request", "unsubscribe"} => call[c].key \in Keys
           /\ call[c].op = "shutdown" => call[c].sub \in Subs /\ call[c].last \in BOOLEAN
<1>1. call[c] \in CallStates
  BY DEF TypeOK
<1>2. CASE call[c] = Idle
  BY SMTT(20), <1>2 DEF Idle
<1>3. CASE call[c] \in [op : {"enter", "request", "unsubscribe"}, key : Keys]
  BY <1>3
<1>4. CASE call[c] \in [op : {"shutdown"}, sub : Subs, last : BOOLEAN]
  BY <1>4
<1> QED BY <1>1, <1>2, <1>3, <1>4 DEF CallStates

\* The fields the reconnect hook has at each of its steps.
LEMMA HookFields ==
    ASSUME TypeOK
    PROVE  /\ hook.step \in {"idle", "snapshot", "next", "await", "kill", "unsubscribe", "shutdown"}
           /\ hook.step \notin {"idle", "snapshot"} => hook.todo \subseteq Entries
           /\ hook.step \in {"await", "kill", "unsubscribe", "shutdown"} => hook.entry \in Entries
           /\ hook.step = "shutdown" => hook.doomed \subseteq Subs
           /\ hook.step \in {"await", "kill", "unsubscribe"} =>
                hook \in [step : {"await", "kill", "unsubscribe"}, todo : SUBSET Entries, entry : Entries]
<1>1. hook \in HookStates
  BY DEF TypeOK
<1>2. CASE hook \in {HookIdle, [step |-> "snapshot"]}
  BY SMTT(20), <1>2 DEF HookIdle
<1>3. CASE hook \in [step : {"next"}, todo : SUBSET Entries]
  BY <1>3
<1>4. CASE hook \in [step : {"await", "kill", "unsubscribe"}, todo : SUBSET Entries, entry : Entries]
  BY <1>4
<1>5. CASE hook \in [step : {"shutdown"}, todo : SUBSET Entries, entry : Entries, doomed : SUBSET Subs]
  BY <1>5
<1> QED BY <1>1, <1>2, <1>3, <1>4, <1>5 DEF HookStates

\* Close's step, and what it still has to shut down.
LEMMA CloseFields ==
    ASSUME TypeOK
    PROVE  /\ close.step \in {"open", "flagged", "done", "shutdown"}
           /\ close.step = "shutdown" => close.doomed \subseteq Subs
  BY DEF TypeOK, CloseStates

\* A caller moves; the others stay where they are.
LEMMA CallMoves ==
    ASSUME TypeOK, NEW c \in Callers, NEW r \in CallStates, call' = [call EXCEPT ![c] = r]
    PROVE  /\ call' \in [Callers -> CallStates] /\ call'[c] = r
           /\ \A d \in Callers : d # c => call'[d] = call[d]
  BY DEF TypeOK

LEMMA CallValues ==
    /\ Idle \in CallStates
    /\ \A op \in {"enter", "request", "unsubscribe"}, k \in Keys : [op |-> op, key |-> k] \in CallStates
    /\ \A s \in Subs, b \in BOOLEAN : [op |-> "shutdown", sub |-> s, last |-> b] \in CallStates
  BY DEF CallStates

\* Attach: one unused subscription s is opened under key k in entry e.
LEMMA AttachOpensOne ==
    ASSUME TypeOK, NEW e \in Entries, NEW k \in Keys, Attach(e, k)
    PROVE  \E s \in Subs :
             /\ chan[s] = "unused"
             /\ esubs' = [esubs EXCEPT ![e] = esubs[e] \cup {s}]
             /\ routed' = routed \cup {s}
             /\ skey' = [skey EXCEPT ![s] = k]
             /\ chan' = [chan EXCEPT ![s] = "open"]
             /\ raced' = IF UnsubscribePending(k) THEN raced \cup {k} ELSE raced
<1> DEFINE s == CHOOSE s \in Subs : chan[s] = "unused"
<1>1. s \in Subs /\ chan[s] = "unused"
  BY DEF Attach
<1> HIDE DEF s
<1>2. Attach(e, k) => /\ esubs' = [esubs EXCEPT ![e] = esubs[e] \cup {s}]
                      /\ routed' = routed \cup {s}
                      /\ skey' = [skey EXCEPT ![s] = k]
                      /\ chan' = [chan EXCEPT ![s] = "open"]
                      /\ raced' = IF UnsubscribePending(k) THEN raced \cup {k} ELSE raced
  BY DEF Attach, s
<1> QED BY <1>1, <1>2

\* Attach keeps the types of what it changes.
LEMMA AttachTypes ==
    ASSUME TypeOK, NEW e \in Entries, NEW k \in Keys, Attach(e, k)
    PROVE  /\ esubs' \in [Entries -> SUBSET Subs] /\ routed' \subseteq Subs
           /\ skey' \in [Subs -> Keys \cup {None}]
           /\ chan' \in [Subs -> {"unused", "open", "closed"}]
           /\ raced' \subseteq Keys
  BY SMTT(20), AttachOpensOne DEF TypeOK

\* A key gets its first subscription: an entry object nobody used serves it.
LEMMA FreshEntry ==
    ASSUME TypeOK, NEW c \in Callers, SubscribeReply(c)
    PROVE  /\ call[c].key \in Keys /\ call[c].op = "request"
           /\ subMu' = None /\ Return(c)
           /\ UNCHANGED <<hook, dispatch, close, reconnects, refused>>
           /\ gw \subseteq gw' /\ gw' \subseteq gw \cup {call[c].key}
           /\ \/ \E e \in Entries : /\ ekey[e] = None
                                    /\ ekey' = [ekey EXCEPT ![e] = call[c].key]
                                    /\ entries' = [entries EXCEPT ![call[c].key] = e]
                                    /\ Attach(e, call[c].key)
                                    /\ call[c].key \in gw'
              \/ UNCHANGED registry
<1>1. call[c].key \in Keys /\ call[c].op = "request"
  BY CallFields DEF SubscribeReply
<1> DEFINE k == call[c].key
           e == CHOOSE e \in Entries : ekey[e] = None
<1>2. ASSUME \E f \in Entries : ekey[f] = None PROVE e \in Entries /\ ekey[e] = None
  BY <1>2
<1>3. \/ /\ \E f \in Entries : ekey[f] = None
         /\ ekey' = [ekey EXCEPT ![e] = k]
         /\ entries' = [entries EXCEPT ![k] = e]
         /\ Attach(e, k)
         /\ gw' = gw \cup {k}
      \/ UNCHANGED registry /\ gw \subseteq gw' /\ gw' \subseteq gw \cup {k}
  BY DEF SubscribeReply, GatewaySubscribe
<1> HIDE DEF e
<1>4. /\ subMu' = None /\ Return(c) /\ UNCHANGED <<hook, dispatch, close, reconnects, refused>>
  BY DEF SubscribeReply
<1> QED BY <1>1, <1>2, <1>3, <1>4

\* What Cancel's detachLocked does.
LEMMA DetachTypes ==
    ASSUME TypeOK, NEW s \in Subs, skey[s] \in Keys, Detach(s)
    PROVE  /\ entries' \in [Keys -> Entries \cup {None}]
           /\ esubs' \in [Entries -> SUBSET Subs] /\ routed' \subseteq Subs
<1>1. entries[skey[s]] \in Entries \cup {None}
  BY DEF TypeOK
<1>2. CASE entries[skey[s]] = None
  BY <1>2 DEF Detach, TypeOK
<1>3. CASE entries[skey[s]] \in Entries
  BY SMTT(20), <1>3, PushAssumption DEF Detach, TypeOK
<1> QED BY <1>1, <1>2, <1>3

\* A subscription that is not unused has a key, under which its detach finds its
\* entry; whatever an entry holds or somebody is about to shut down is not unused.
UsedHaveKeys ==
    /\ \A s \in Subs : chan[s] # "unused" => skey[s] \in Keys
    /\ \A e \in Entries : \A s \in esubs[e] : chan[s] # "unused"
    /\ \A c \in Callers : call[c].op = "shutdown" => chan[call[c].sub] # "unused"
    /\ hook.step = "shutdown" => \A s \in hook.doomed : chan[s] # "unused"
    /\ close.step = "shutdown" => \A s \in close.doomed : chan[s] # "unused"

\* The steps of a caller keep the types.
LEMMA CallerTypes ==
    ASSUME TypeOK, UsedHaveKeys, NEW c \in Callers,
           \/ \E k \in Keys : Subscribe(c, k)
           \/ \E s \in Subs : Cancel(c, s)
           \/ CallerProgress(c)
    PROVE  TypeOK'
<1>1. ASSUME NEW k \in Keys, Subscribe(c, k) PROVE TypeOK'
  <2>1. call' \in [Callers -> CallStates]
    BY <1>1, CallMoves, CallValues DEF Subscribe
  <2> QED BY <1>1, <2>1 DEF Subscribe, registry, TypeOK
<1>2. ASSUME NEW s \in Subs, Cancel(c, s) PROVE TypeOK'
  <2>1. skey[s] \in Keys
    BY <1>2 DEF Cancel, Live, UsedHaveKeys
  <2>2. LastOfEntry(s) \in BOOLEAN
    BY DEF LastOfEntry
  <2>3. call' \in [Callers -> CallStates]
    BY <1>2, <2>2, CallMoves, CallValues DEF Cancel
  <2>4. /\ entries' \in [Keys -> Entries \cup {None}]
        /\ esubs' \in [Entries -> SUBSET Subs] /\ routed' \subseteq Subs
    BY <1>2, <2>1, DetachTypes DEF Cancel
  <2> QED BY <1>2, <2>3, <2>4 DEF Cancel, TypeOK
<1>3. CASE SubscribeLocked(c)
  <2>0. call[c].key \in Keys /\ UNCHANGED <<hook, dispatch, close, gw, reconnects, refused>>
    BY <1>3, CallFields DEF SubscribeLocked
  <2>1. CASE Return(c) /\ UNCHANGED <<registry, subMu>>
    <3>1. call' \in [Callers -> CallStates]
      BY <2>1, CallMoves, CallValues DEF Return
    <3> QED BY <2>0, <2>1, <3>1 DEF registry, TypeOK
  <2>2. CASE /\ entries[call[c].key] # None /\ Attach(entries[call[c].key], call[c].key)
             /\ Return(c) /\ UNCHANGED <<entries, ekey, subMu>>
    <3>1. call' \in [Callers -> CallStates]
      BY <2>2, CallMoves, CallValues DEF Return
    <3>2. entries[call[c].key] \in Entries
      BY <2>0, <2>2 DEF TypeOK
    <3>3. /\ esubs' \in [Entries -> SUBSET Subs] /\ routed' \subseteq Subs
          /\ skey' \in [Subs -> Keys \cup {None}]
          /\ chan' \in [Subs -> {"unused", "open", "closed"}] /\ raced' \subseteq Keys
      BY <2>0, <2>2, <3>2, AttachTypes
    <3> QED BY <2>0, <2>2, <3>1, <3>3 DEF TypeOK
  <2>3. CASE /\ subMu' = c /\ call' = [call EXCEPT ![c] = [op |-> "request", key |-> call[c].key]]
             /\ UNCHANGED registry
    <3>1. call' \in [Callers -> CallStates]
      BY <2>0, <2>3, CallMoves, CallValues
    <3> QED BY <2>0, <2>3, <3>1 DEF registry, TypeOK
  <2> QED BY <1>3, <2>1, <2>2, <2>3 DEF SubscribeLocked
<1>4. CASE SubscribeReply(c)
  <2>1. /\ call[c].key \in Keys /\ subMu' = None /\ Return(c)
        /\ UNCHANGED <<hook, dispatch, close, reconnects, refused>>
        /\ gw' \subseteq gw \cup {call[c].key}
    BY <1>4, FreshEntry
  <2>2. call' \in [Callers -> CallStates] /\ gw' \subseteq Keys
    BY <2>1, CallMoves, CallValues DEF Return, TypeOK
  <2>3. CASE UNCHANGED registry
    BY <2>1, <2>2, <2>3 DEF registry, TypeOK
  <2>4. CASE \E e \in Entries : /\ ekey' = [ekey EXCEPT ![e] = call[c].key]
                                /\ entries' = [entries EXCEPT ![call[c].key] = e]
                                /\ Attach(e, call[c].key)
    <3>1. PICK e \in Entries : /\ ekey' = [ekey EXCEPT ![e] = call[c].key]
                               /\ entries' = [entries EXCEPT ![call[c].key] = e]
                               /\ Attach(e, call[c].key)
      BY <2>4
    <3>2. /\ esubs' \in [Entries -> SUBSET Subs] /\ routed' \subseteq Subs
          /\ skey' \in [Subs -> Keys \cup {None}]
          /\ chan' \in [Subs -> {"unused", "open", "closed"}] /\ raced' \subseteq Keys
      BY <2>1, <3>1, AttachTypes
    <3> QED BY <2>1, <2>2, <3>1, <3>2 DEF TypeOK
  <2> QED BY <1>4, <2>3, <2>4, FreshEntry
<1>5. CASE CancelShutdown(c)
  <2>1. call[c].sub \in Subs /\ call[c].last \in BOOLEAN
    BY <1>5, CallFields DEF CancelShutdown
  <2>2. skey[call[c].sub] \in Keys
    BY <1>5, <2>1 DEF CancelShutdown, UsedHaveKeys
  <2>3. chan' \in [Subs -> {"unused", "open", "closed"}]
    BY <1>5 DEF CancelShutdown, Shutdown, TypeOK
  <2>4. call' \in [Callers -> CallStates]
    BY <1>5, <2>2, CallMoves, CallValues DEF CancelShutdown
  <2> QED BY <1>5, <2>3, <2>4 DEF CancelShutdown, TypeOK
<1>6. CASE CancelReply(c)
  <2>1. call' \in [Callers -> CallStates]
    BY <1>6, CallMoves, CallValues DEF CancelReply, Return
  <2>2. gw' \subseteq Keys
    BY <1>6 DEF CancelReply, GatewayUnsubscribe, TypeOK
  <2> QED BY <1>6, <2>1, <2>2 DEF CancelReply, registry, TypeOK
<1> QED BY <1>1, <1>2, <1>3, <1>4, <1>5, <1>6 DEF CallerProgress

\* A registered entry is registered under its own key, and the hook works on
\* entries that were registered once: their key is set, and stays.
EntriesHaveKeys ==
    /\ \A k \in Keys : entries[k] # None => ekey[entries[k]] = k
    /\ hook.step \notin {"idle", "snapshot"} => \A e \in hook.todo : ekey[e] # None
    /\ hook.step \in {"await", "kill", "shutdown", "unsubscribe"} => ekey[hook.entry] # None

\* So do those of the hook, of the dispatcher and of Close.
LEMMA OtherTypes ==
    ASSUME TypeOK, EntriesHaveKeys, Reconnect \/ HookProgress \/ DispatchLookup \/ DispatchDeliver
                   \/ CloseFlag \/ CloseProgress
    PROVE  TypeOK'
<1>1. CASE Reconnect
  <2>1. hook' \in HookStates /\ reconnects' \in 0..MaxReconnects
    BY SMTT(20), <1>1, PushAssumption DEF Reconnect, HookStates, TypeOK
  <2> QED BY <1>1, <2>1 DEF Reconnect, registry, TypeOK
<1>2. CASE ResubscribeSnapshot
  <2>1. hook' \in HookStates
    BY <1>2 DEF ResubscribeSnapshot, HookStates, Registered
  <2> QED BY <1>2, <2>1 DEF ResubscribeSnapshot, registry, TypeOK
<1>3. CASE ResubscribeNext
  <2>1. hook.todo \subseteq Entries
    BY <1>3, HookFields DEF ResubscribeNext
  <2>2. CASE hook' = HookIdle
    BY <1>3, <2>2 DEF ResubscribeNext, registry, TypeOK, HookStates
  <2>3. CASE hook.todo # {}
    <3>1. PICK e \in hook.todo :
            hook' = [step |-> IF Closed THEN "kill" ELSE "await", todo |-> hook.todo \ {e}, entry |-> e]
      BY <1>3, <2>3 DEF ResubscribeNext
    <3>2. hook' \in HookStates
      BY <2>1, <3>1 DEF HookStates
    <3> QED BY <1>3, <3>2 DEF ResubscribeNext, registry, TypeOK
  <2> QED BY <1>3, <2>2, <2>3 DEF ResubscribeNext
<1>4. CASE ResubscribeReply
  <2>1. hook.step = "await" /\ hook.todo \subseteq Entries /\ hook.entry \in Entries
        /\ hook \in [step : {"await", "kill", "unsubscribe"}, todo : SUBSET Entries, entry : Entries]
    BY <1>4, HookFields DEF ResubscribeReply
  <2>2. hook' \in HookStates
    <3>1. CASE hook' = [step |-> "next", todo |-> hook.todo]
      BY <2>1, <3>1 DEF HookStates
    <3>2. CASE hook' = [hook EXCEPT !.step = "kill"]
      <4>1. hook' \in [step : {"await", "kill", "unsubscribe"}, todo : SUBSET Entries, entry : Entries]
        BY <2>1, <3>2
      <4> QED BY <4>1 DEF HookStates
    <3> QED BY <1>4, <3>1, <3>2 DEF ResubscribeReply
  <2>3. gw' \subseteq Keys
    BY <1>4, <2>1 DEF ResubscribeReply, GatewaySubscribe, EntriesHaveKeys, TypeOK
  <2> QED BY <1>4, <2>2, <2>3 DEF ResubscribeReply, registry, TypeOK
<1>5. CASE KillEntry
  <2>1. hook.step = "kill" /\ hook.todo \subseteq Entries /\ hook.entry \in Entries
    BY <1>5, HookFields DEF KillEntry
  <2>2. esubs[hook.entry] \subseteq Subs
    BY <2>1 DEF TypeOK
  <2>3. hook' \in HookStates
    BY <1>5, <2>1, <2>2 DEF KillEntry, HookStates
  <2>4. entries' \in [Keys -> Entries \cup {None}]
    BY <1>5, <2>1 DEF KillEntry, TypeOK
  <2> QED BY <1>5, <2>3, <2>4 DEF KillEntry, TypeOK
<1>6. CASE KillShutdown
  <2>1. hook.step = "shutdown" /\ hook.todo \subseteq Entries /\ hook.entry \in Entries
    BY <1>6, HookFields DEF KillShutdown
  <2>2. hook' \in HookStates
    BY <1>6, <2>1 DEF KillShutdown, HookStates
  <2>3. chan' \in [Subs -> {"unused", "open", "closed"}]
    BY <1>6 DEF KillShutdown, Shutdown, TypeOK
  <2> QED BY <1>6, <2>1, <2>2, <2>3 DEF KillShutdown, TypeOK
<1>7. CASE KillReply
  <2>1. hook.step = "unsubscribe" /\ hook.todo \subseteq Entries
    BY <1>7, HookFields DEF KillReply
  <2>2. hook' \in HookStates
    BY <1>7, <2>1 DEF KillReply, HookStates
  <2>3. gw' \subseteq Keys
    BY <1>7 DEF KillReply, GatewayUnsubscribe, TypeOK
  <2> QED BY <1>7, <2>2, <2>3 DEF KillReply, registry, TypeOK
<1>8. CASE DispatchLookup \/ DispatchDeliver
  BY <1>8 DEF DispatchLookup, DispatchDeliver, registry, TypeOK
<1>9. CASE CloseFlag
  BY <1>9 DEF CloseFlag, registry, TypeOK, CloseStates
<1>10. CASE CloseDrain
  <2>1. close' \in CloseStates
    <3>1. UNION {esubs[e] : e \in Registered} \subseteq Subs
      BY SMTT(20) DEF Registered, TypeOK
    <3> QED BY <1>10, <3>1 DEF CloseDrain, CloseStates
  <2>2. entries' \in [Keys -> Entries \cup {None}]
    BY <1>10 DEF CloseDrain
  <2> QED BY <1>10, <2>1, <2>2 DEF CloseDrain, TypeOK
<1>11. CASE CloseShutdown
  <2>1. chan' \in [Subs -> {"unused", "open", "closed"}]
    BY <1>11 DEF CloseShutdown, Shutdown, TypeOK
  <2>2. close' \in CloseStates
    BY <1>11 DEF CloseShutdown, CloseStates
  <2> QED BY <1>11, <2>1, <2>2 DEF CloseShutdown, TypeOK
<1> QED
  BY <1>1, <1>2, <1>3, <1>4, <1>5, <1>6, <1>7, <1>8, <1>9, <1>10, <1>11
  DEF HookProgress, CloseProgress

-----------------------------------------------------------------------------
(* What a step may do to the registry, whoever takes it.                   *)

\* The unused subscription s is opened in entry e of key k: an entry that is
\* registered, or one that was never used.
Opens(s, e, k) ==
    /\ chan[s] = "unused"
    /\ esubs' = [esubs EXCEPT ![e] = esubs[e] \cup {s}]
    /\ skey' = [skey EXCEPT ![s] = k]
    /\ chan' = [chan EXCEPT ![s] = "open"]
    /\ \/ entries[k] = e /\ UNCHANGED <<entries, ekey>>
       \/ /\ ekey[e] = None
          /\ ekey' = [ekey EXCEPT ![e] = k]
          /\ entries' = [entries EXCEPT ![k] = e]

Detaches(s) == chan[s] = "open" /\ Detach(s) /\ UNCHANGED <<ekey, skey, chan>>

\* Subscriptions that are not unused are closed.
Closes(S) ==
    /\ Shutdown(S) /\ \A s \in S : chan[s] # "unused"
    /\ UNCHANGED <<entries, esubs, ekey, skey>>

\* Keys leave the registry.
Drops(X) ==
    /\ entries' = [k \in Keys |-> IF k \in X THEN None ELSE entries[k]]
    /\ UNCHANGED <<esubs, ekey, skey, chan>>

RegistryStep ==
    \/ UNCHANGED <<entries, esubs, ekey, skey, chan>>
    \/ \E s \in Subs, e \in Entries, k \in Keys : Opens(s, e, k)
    \/ \E s \in Subs : Detaches(s)
    \/ \E S \in SUBSET Subs : Closes(S)
    \/ \E X \in SUBSET Keys : Drops(X)

LEMMA RegistrySteps ==
    ASSUME TypeOK, UsedHaveKeys, EntriesHaveKeys, [Next]_vars
    PROVE  RegistryStep
<1>1. ASSUME NEW c \in Callers, NEW k \in Keys, Subscribe(c, k) PROVE RegistryStep
  BY <1>1 DEF Subscribe, registry, RegistryStep
<1>2. ASSUME NEW c \in Callers, NEW s \in Subs, Cancel(c, s) PROVE RegistryStep
  BY <1>2 DEF Cancel, Live, RegistryStep, Detaches
<1>3. ASSUME NEW c \in Callers, SubscribeLocked(c) PROVE RegistryStep
  <2>1. CASE UNCHANGED registry
    BY <2>1 DEF registry, RegistryStep
  <2>2. CASE /\ entries[call[c].key] # None /\ Attach(entries[call[c].key], call[c].key)
             /\ UNCHANGED <<entries, ekey>>
    <3>1. call[c].key \in Keys /\ entries[call[c].key] \in Entries
      BY <1>3, <2>2, CallFields DEF SubscribeLocked, TypeOK
    <3>2. \E s \in Subs : Opens(s, entries[call[c].key], call[c].key)
      BY SMTT(20), <2>2, <3>1, AttachOpensOne DEF Opens
    <3> QED BY <3>1, <3>2 DEF RegistryStep
  <2> QED BY <1>3, <2>1, <2>2 DEF SubscribeLocked
<1>4. ASSUME NEW c \in Callers, SubscribeReply(c) PROVE RegistryStep
  <2>1. call[c].key \in Keys
    BY <1>4, FreshEntry
  <2>2. CASE UNCHANGED registry
    BY <2>2 DEF registry, RegistryStep
  <2>3. ASSUME NEW e \in Entries, ekey[e] = None, ekey' = [ekey EXCEPT ![e] = call[c].key],
               entries' = [entries EXCEPT ![call[c].key] = e], Attach(e, call[c].key)
        PROVE  RegistryStep
    <3>1. \E s \in Subs : Opens(s, e, call[c].key)
      BY SMTT(20), <2>1, <2>3, AttachOpensOne DEF Opens
    <3> QED BY <2>1, <3>1 DEF RegistryStep
  <2> QED BY <1>4, <2>2, <2>3, FreshEntry
<1>5. ASSUME NEW c \in Callers, CancelShutdown(c) PROVE RegistryStep
  <2>1. call[c].sub \in Subs /\ chan[call[c].sub] # "unused"
    BY <1>5, CallFields DEF CancelShutdown, UsedHaveKeys
  <2>2. Closes({call[c].sub})
    BY <1>5, <2>1 DEF CancelShutdown, Closes
  <2> QED BY <2>1, <2>2 DEF RegistryStep
<1>6. ASSUME NEW c \in Callers, CancelReply(c) PROVE RegistryStep
  BY <1>6 DEF CancelReply, registry, RegistryStep
<1>7. CASE Reconnect \/ ResubscribeSnapshot \/ ResubscribeNext \/ ResubscribeReply \/ KillReply
  BY <1>7 DEF Reconnect, ResubscribeSnapshot, ResubscribeNext, ResubscribeReply, KillReply,
              registry, RegistryStep
<1>8. CASE KillEntry
  <2>1. hook.entry \in Entries
    BY <1>8, HookFields DEF KillEntry
  <2>2. ekey[hook.entry] \in Keys
    BY <1>8, <2>1 DEF KillEntry, EntriesHaveKeys, TypeOK
  <2>3. Drops({ekey[hook.entry]})
    BY <1>8, <2>2 DEF KillEntry, Drops, TypeOK
  <2> QED BY <2>2, <2>3 DEF RegistryStep
<1>9. CASE KillShutdown
  <2>1. hook.doomed \in SUBSET Subs
    BY <1>9, HookFields DEF KillShutdown
  <2> QED BY <1>9, <2>1 DEF KillShutdown, Closes, UsedHaveKeys, RegistryStep
<1>10. CASE DispatchLookup \/ DispatchDeliver \/ CloseFlag
  BY <1>10 DEF DispatchLookup, DispatchDeliver, CloseFlag, registry, RegistryStep
<1>11. CASE CloseDrain
  <2>1. Drops(Keys)
    BY <1>11 DEF CloseDrain, Drops
  <2> QED BY <2>1 DEF RegistryStep
<1>12. CASE CloseShutdown
  <2>1. close.doomed \in SUBSET Subs
    BY <1>12, CloseFields DEF CloseShutdown
  <2> QED BY <1>12, <2>1 DEF CloseShutdown, Closes, UsedHaveKeys, RegistryStep
<1>13. CASE UNCHANGED vars
  BY <1>13 DEF vars, RegistryStep
<1> QED
  BY <1>1, <1>2, <1>3, <1>4, <1>5, <1>6, <1>7, <1>8, <1>9, <1>10, <1>11, <1>12, <1>13
  DEF Next, CallerProgress, HookProgress, CloseProgress

\* What detachLocked leaves: the subscription out of its key's entry, and the
\* key out of the registry with its last subscription.
LEMMA DetachEffect ==
    ASSUME TypeOK, EntriesHaveKeys, NEW s \in Subs, skey[s] \in Keys, Detach(s)
    PROVE  /\ \A e \in Entries : esubs'[e] \subseteq esubs[e] /\ esubs[e] \ {s} \subseteq esubs'[e]
           /\ \A k \in Keys : entries'[k] = entries[k] \/ entries'[k] = None
           /\ \A k \in Keys : k # skey[s] => entries'[k] = entries[k]
           /\ LastOfEntry(s) => entries'[skey[s]] = None
           /\ entries[skey[s]] # None /\ entries'[skey[s]] = None =>
                esubs[entries[skey[s]]] \subseteq {s}
<1>1. entries[skey[s]] \in Entries \cup {None}
  BY DEF TypeOK
<1>2. CASE entries[skey[s]] = None
  BY <1>2 DEF Detach, LastOfEntry, TypeOK
<1>3. CASE entries[skey[s]] \in Entries
  BY SMTT(20), <1>3, PushAssumption DEF Detach, LastOfEntry, TypeOK
<1> QED BY <1>1, <1>2, <1>3

\* What every step keeps: keys once given, channels once closed, entries once
\* out of the registry, which nothing joins any more.
Keeps ==
    /\ \A e \in Entries : ekey[e] # None => ekey'[e] = ekey[e]
    /\ \A s \in Subs : chan[s] # "unused" => chan'[s] # "unused" /\ skey'[s] = skey[s]
    /\ \A s \in Subs : chan[s] = "closed" => chan'[s] = "closed"
    /\ \A e \in Entries : ekey[e] # None /\ e \notin Registered =>
          e \notin Registered' /\ esubs'[e] \subseteq esubs[e]
    /\ \A k \in Keys : entries'[k] # None => ekey'[entries'[k]] = k
    /\ \A s \in Subs : chan'[s] # "unused" => skey'[s] \in Keys
    /\ \A e \in Entries : \A s \in esubs'[e] : chan'[s] # "unused"

LEMMA StepKeeps ==
    ASSUME TypeOK, UsedHaveKeys, EntriesHaveKeys, RegistryStep
    PROVE  Keeps
<1> USE DEF TypeOK
<1>1. CASE UNCHANGED <<entries, esubs, ekey, skey, chan>>
  BY <1>1 DEF Keeps, UsedHaveKeys, EntriesHaveKeys, Registered
<1>2. ASSUME NEW s \in Subs, NEW e \in Entries, NEW k \in Keys, Opens(s, e, k) PROVE Keeps
  <2>1. /\ esubs'[e] = esubs[e] \cup {s} /\ \A f \in Entries : f # e => esubs'[f] = esubs[f]
        /\ skey'[s] = k /\ \A t \in Subs : t # s => skey'[t] = skey[t]
        /\ chan'[s] = "open" /\ \A t \in Subs : t # s => chan'[t] = chan[t]
        /\ chan[s] = "unused"
    BY <1>2 DEF Opens
  <2>2. /\ entries'[k] = e /\ ekey'[e] = k
        /\ \A j \in Keys : j # k => entries'[j] = entries[j]
        /\ \A f \in Entries : f # e => ekey'[f] = ekey[f]
        /\ ekey[e] # None => entries[k] = e /\ ekey'[e] = ekey[e]
    <3>1. CASE entries[k] = e /\ UNCHANGED <<entries, ekey>>
      BY <3>1, PushAssumption DEF EntriesHaveKeys
    <3>2. CASE ekey[e] = None /\ ekey' = [ekey EXCEPT ![e] = k] /\ entries' = [entries EXCEPT ![k] = e]
      BY <3>2
    <3> QED BY <1>2, <3>1, <3>2 DEF Opens
  <2>3. \A j \in Keys : entries'[j] # None => ekey'[entries'[j]] = j
    <3>1. \A j \in Keys : j # k => entries[j] # e \/ entries[j] = None
      BY SMTT(20), <2>2, PushAssumption DEF EntriesHaveKeys
    <3> QED BY SMTT(20), <2>2, <3>1, PushAssumption DEF EntriesHaveKeys
  <2>4. \A f \in Entries : ekey[f] # None /\ f \notin Registered =>
          f \notin Registered' /\ esubs'[f] \subseteq esubs[f]
    BY SMTT(20), <2>1, <2>2 DEF Registered
  <2>5. \A f \in Entries : \A t \in esubs'[f] : chan'[t] # "unused"
    BY SMTT(20), <2>1 DEF UsedHaveKeys
  <2> QED BY <2>1, <2>2, <2>3, <2>4, <2>5 DEF Keeps, UsedHaveKeys
<1>3. ASSUME NEW s \in Subs, Detaches(s) PROVE Keeps
  <2>1. skey[s] \in Keys /\ Detach(s) /\ UNCHANGED <<ekey, skey, chan>>
    BY <1>3 DEF Detaches, UsedHaveKeys
  <2>2. /\ \A e \in Entries : esubs'[e] \subseteq esubs[e]
        /\ \A k \in Keys : entries'[k] = entries[k] \/ entries'[k] = None
    BY <2>1, DetachEffect
  <2>3. \A e \in Entries : e \notin Registered => e \notin Registered'
    BY SMTT(20), <2>2, PushAssumption DEF Registered
  <2> QED BY <2>1, <2>2, <2>3 DEF Keeps, UsedHaveKeys, EntriesHaveKeys
<1>4. ASSUME NEW S \in SUBSET Subs, Closes(S) PROVE Keeps
  <2>1. /\ \A s \in Subs : chan'[s] = IF s \in S THEN "closed" ELSE chan[s]
        /\ \A s \in S : chan[s] # "unused"
        /\ UNCHANGED <<entries, esubs, ekey, skey>> /\ Registered' = Registered
    BY <1>4 DEF Closes, Shutdown, Registered
  <2> QED BY <2>1 DEF Keeps, UsedHaveKeys, EntriesHaveKeys
<1>5. ASSUME NEW X \in SUBSET Keys, Drops(X) PROVE Keeps
  <2>1. /\ \A k \in Keys : entries'[k] = entries[k] \/ entries'[k] = None
        /\ UNCHANGED <<esubs, ekey, skey, chan>>
    BY <1>5 DEF Drops
  <2>2. \A e \in Entries : e \notin Registered => e \notin Registered'
    BY SMTT(20), <2>1, PushAssumption DEF Registered
  <2> QED BY <2>1, <2>2 DEF Keeps, UsedHaveKeys, EntriesHaveKeys
<1> QED BY <1>1, <1>2, <1>3, <1>4, <1>5 DEF RegistryStep

-----------------------------------------------------------------------------
(* What a step may do to the hook, to Close and to a caller.               *)

Walking == {"next", "await", "kill", "unsubscribe", "shutdown"}
AtEntry == {"await", "kill", "unsubscribe", "shutdown"}

HookStep ==
    \/ UNCHANGED <<hook, refused>>
    \/ hook'.step \in {"idle", "snapshot"} /\ refused' = refused
    \/ hook'.step = "next" /\ hook'.todo = Registered /\ UNCHANGED <<refused, entries, ekey>>
    \/ /\ hook.step \in Walking /\ hook'.step \in Walking \ {"shutdown"} /\ hook'.todo \subseteq hook.todo
       /\ hook'.step \in AtEntry =>
             hook'.entry \in hook.todo \/ (hook.step \in AtEntry /\ hook'.entry = hook.entry)
       /\ refused' = refused
    \/ /\ KillEntry /\ hook.step = "kill" /\ hook'.step = "shutdown" /\ hook'.todo = hook.todo
       /\ hook'.entry = hook.entry /\ hook'.doomed = esubs[hook.entry] /\ refused' = refused
    \/ /\ KillShutdown /\ hook.step = "shutdown" /\ hook'.step = "unsubscribe"
       /\ hook'.todo = hook.todo /\ hook'.entry = hook.entry
       /\ refused' = refused \cup {hook.entry}

LEMMA HookSteps == ASSUME TypeOK, [Next]_vars PROVE HookStep
<1>1. ASSUME NEW c \in Callers,
             \/ \E k \in Keys : Subscribe(c, k)
             \/ \E s \in Subs : Cancel(c, s)
             \/ CallerProgress(c)
      PROVE  HookStep
  BY <1>1 DEF Subscribe, Cancel, CallerProgress, SubscribeLocked, SubscribeReply, CancelShutdown,
              CancelReply, HookStep
<1>2. CASE DispatchLookup \/ DispatchDeliver \/ CloseFlag \/ CloseProgress
  BY <1>2 DEF DispatchLookup, DispatchDeliver, CloseFlag, CloseProgress, CloseDrain, CloseShutdown,
              HookStep
<1>3. CASE Reconnect
  <2>1. hook'.step \in {"idle", "snapshot"} /\ refused' = refused
    BY <1>3 DEF Reconnect, HookIdle
  <2> QED BY <2>1 DEF HookStep
<1>4. CASE ResubscribeSnapshot
  BY <1>4 DEF ResubscribeSnapshot, registry, HookStep
<1>5. CASE ResubscribeNext
  <2>1. CASE hook.todo = {}
    BY SMTT(20), <1>5, <2>1 DEF ResubscribeNext, HookIdle, HookStep
  <2>2. CASE hook.todo # {}
    <3>1. PICK e \in hook.todo :
            hook' = [step |-> IF Closed THEN "kill" ELSE "await", todo |-> hook.todo \ {e}, entry |-> e]
      BY <1>5, <2>2 DEF ResubscribeNext
    <3>2. /\ hook'.step \in {"kill", "await"} /\ hook'.todo \subseteq hook.todo /\ hook'.entry \in hook.todo
      BY <3>1
    <3> QED BY <1>5, <3>2 DEF ResubscribeNext, HookStep, Walking, AtEntry
  <2> QED BY <2>1, <2>2
<1>6. CASE ResubscribeReply
  <2>1. hook.step = "await" /\ refused' = refused
        /\ hook \in [step : {"await", "kill", "unsubscribe"}, todo : SUBSET Entries, entry : Entries]
    BY <1>6, HookFields DEF ResubscribeReply
  <2>2. CASE hook' = [step |-> "next", todo |-> hook.todo]
    BY <2>1, <2>2 DEF HookStep, Walking, AtEntry
  <2>3. CASE hook' = [hook EXCEPT !.step = "kill"]
    <3>1. hook'.step = "kill" /\ hook'.todo = hook.todo /\ hook'.entry = hook.entry
      BY <2>1, <2>3
    <3> QED BY <2>1, <3>1 DEF HookStep, Walking, AtEntry
  <2> QED BY <1>6, <2>2, <2>3 DEF ResubscribeReply
<1>7. CASE KillEntry
  BY <1>7 DEF KillEntry, HookStep
<1>8. CASE KillShutdown
  BY <1>8 DEF KillShutdown, HookStep
<1>9. CASE KillReply
  BY <1>9 DEF KillReply, HookStep, Walking, AtEntry
<1>10. CASE UNCHANGED vars
  BY <1>10 DEF vars, HookStep
<1> QED
  BY <1>1, <1>2, <1>3, <1>4, <1>5, <1>6, <1>7, <1>8, <1>9, <1>10 DEF Next, HookProgress

\* Close only takes what entries hold; a caller only what is open.
OwedStep ==
    /\ \/ close' = close
       \/ close'.step # "shutdown"
       \/ close'.step = "shutdown" /\ close'.doomed = UNION {esubs[e] : e \in Registered}
    /\ \A c \in Callers : call'[c].op = "shutdown" =>
          call'[c] = call[c] \/ (call'[c].sub \in Subs /\ Live(call'[c].sub))

LEMMA OwedSteps == ASSUME TypeOK, [Next]_vars PROVE OwedStep
<1>1. ASSUME NEW c \in Callers, NEW k \in Keys, Subscribe(c, k) PROVE OwedStep
  <2>1. \A d \in Callers : call'[d] = call[d] \/ call'[d].op # "shutdown"
    BY <1>1, CallMoves, CallValues DEF Subscribe
  <2> QED BY <1>1, <2>1 DEF Subscribe, OwedStep
<1>2. ASSUME NEW c \in Callers, NEW s \in Subs, Cancel(c, s) PROVE OwedStep
  <2>1. [op |-> "shutdown", sub |-> s, last |-> LastOfEntry(s)] \in CallStates
    BY CallValues DEF LastOfEntry
  <2>2. \A d \in Callers : call'[d] = call[d] \/ call'[d].sub = s
    BY <1>2, <2>1, CallMoves DEF Cancel
  <2> QED BY <1>2, <2>2 DEF Cancel, OwedStep
<1>3. ASSUME NEW c \in Callers, CallerProgress(c) PROVE OwedStep
  <2>1. PICK r : r.op # "shutdown" /\ call' = [call EXCEPT ![c] = r]
    BY <1>3 DEF CallerProgress, SubscribeLocked, SubscribeReply, CancelShutdown, CancelReply,
                Return, Idle
  <2>2. \A d \in Callers : call'[d] = call[d] \/ call'[d].op # "shutdown"
    BY <2>1 DEF TypeOK
  <2>3. close' = close
    BY <1>3 DEF CallerProgress, SubscribeLocked, SubscribeReply, CancelShutdown, CancelReply
  <2> QED BY <2>2, <2>3 DEF OwedStep
<1>4. CASE Reconnect \/ HookProgress \/ DispatchLookup \/ DispatchDeliver
  <2>1. call' = call /\ close' = close
    BY <1>4 DEF Reconnect, HookProgress, ResubscribeSnapshot, ResubscribeNext, ResubscribeReply,
                KillEntry, KillShutdown, KillReply, DispatchLookup, DispatchDeliver
  <2> QED BY <2>1 DEF OwedStep
<1>5. CASE CloseFlag \/ CloseProgress
  BY SMTT(20), <1>5 DEF CloseFlag, CloseProgress, CloseDrain, CloseShutdown, OwedStep
<1>6. CASE UNCHANGED vars
  BY <1>6 DEF vars, OwedStep
<1> QED BY <1>1, <1>2, <1>3, <1>4, <1>5, <1>6 DEF Next

-----------------------------------------------------------------------------
(* Refused entries.                                                        *)

\* A refused entry has left the registry for good, and what it held is closed;
\* while the hook shuts its subscriptions down it can gain none.
RefusedAreDead ==
    /\ hook.step = "shutdown" => hook.entry \notin Registered /\ esubs[hook.entry] \subseteq hook.doomed
    /\ \A e \in refused : /\ ekey[e] # None /\ e \notin Registered
                          /\ \A s \in esubs[e] : chan[s] = "closed"

\* The inductive invariant.
RegistryInv == TypeOK /\ UsedHaveKeys /\ EntriesHaveKeys /\ RefusedAreDead

LEMMA UsedHaveKeysNext ==
    ASSUME RegistryInv, Keeps, HookStep, OwedStep
    PROVE  UsedHaveKeys'
<1> USE DEF RegistryInv
<1>1. ASSUME NEW c \in Callers, call'[c].op = "shutdown" PROVE chan'[call'[c].sub] # "unused"
  <2>1. CASE call'[c] = call[c]
    BY SMTT(20), <1>1, <2>1, CallFields DEF UsedHaveKeys, Keeps
  <2>2. CASE call'[c].sub \in Subs /\ Live(call'[c].sub)
    BY <2>2 DEF Live, Keeps
  <2> QED BY <1>1, <2>1, <2>2 DEF OwedStep
<1>2. ASSUME hook'.step = "shutdown" PROVE \A s \in hook'.doomed : chan'[s] # "unused"
  <2>1. CASE hook' = hook
    BY <1>2, <2>1, HookFields DEF UsedHaveKeys, Keeps
  <2>2. CASE hook'.doomed = esubs[hook.entry] /\ hook.step = "kill"
    <3>1. hook.entry \in Entries
      BY <2>2, HookFields
    <3>2. \A s \in esubs[hook.entry] : s \in Subs /\ chan[s] # "unused"
      BY <3>1 DEF UsedHaveKeys, TypeOK
    <3> QED BY <2>2, <3>2 DEF Keeps
  <2> QED BY <1>2, <2>1, <2>2 DEF HookStep, Walking
<1>3. ASSUME close'.step = "shutdown" PROVE \A s \in close'.doomed : chan'[s] # "unused"
  <2>1. CASE close' = close
    BY <1>3, <2>1, CloseFields DEF UsedHaveKeys, Keeps
  <2>2. CASE close'.doomed = UNION {esubs[e] : e \in Registered}
    <3>1. \A e \in Entries : \A s \in esubs[e] : s \in Subs /\ chan[s] # "unused"
      BY DEF UsedHaveKeys, TypeOK
    <3> QED BY SMTT(20), <2>2, <3>1 DEF Keeps, Registered
  <2> QED BY <1>3, <2>1, <2>2 DEF OwedStep
<1> QED BY <1>1, <1>2, <1>3 DEF UsedHaveKeys, Keeps

LEMMA EntriesHaveKeysNext ==
    ASSUME RegistryInv, Keeps, HookStep
    PROVE  EntriesHaveKeys'
<1> USE DEF RegistryInv
<1>1. /\ hook.step \in Walking => hook.todo \subseteq Entries /\ \A e \in hook.todo : ekey[e] # None
      /\ hook.step \in AtEntry => hook.entry \in Entries /\ ekey[hook.entry] # None
  BY HookFields DEF EntriesHaveKeys, Walking, AtEntry
<1>2. /\ hook.step \in Walking => \A e \in hook.todo : ekey'[e] # None
      /\ hook.step \in AtEntry => ekey'[hook.entry] # None
  BY <1>1 DEF Keeps
<1>3. \A e \in Registered : ekey[e] # None
  BY SMTT(20), PushAssumption DEF Registered, EntriesHaveKeys
<1>4. hook.step \in {"idle", "snapshot"} \cup Walking
  BY HookFields DEF Walking
<1>5. hook'.step \in Walking => \A e \in hook'.todo : ekey'[e] # None
  BY <1>2, <1>3 DEF HookStep, Walking
<1>6. hook'.step \in AtEntry => ekey'[hook'.entry] # None
  BY <1>2 DEF HookStep, Walking, AtEntry
<1>7. hook'.step \in {"idle", "snapshot"} \cup Walking
  BY <1>4 DEF HookStep, Walking
<1> QED BY <1>5, <1>6, <1>7 DEF EntriesHaveKeys, Keeps, Walking, AtEntry

LEMMA RefusedAreDeadNext ==
    ASSUME RegistryInv, Keeps, HookStep
    PROVE  RefusedAreDead'
<1> USE DEF RegistryInv
<1>0. hook.step = "shutdown" => hook.entry \in Entries /\ ekey[hook.entry] # None
  BY HookFields DEF EntriesHaveKeys
<1>1. ASSUME hook'.step = "shutdown"
      PROVE  hook'.entry \notin Registered' /\ esubs'[hook'.entry] \subseteq hook'.doomed
  <2>1. CASE hook' = hook
    BY <1>0, <1>1, <2>1 DEF RefusedAreDead, Keeps
  <2>2. CASE KillEntry /\ hook.step = "kill" /\ hook'.entry = hook.entry /\ hook'.doomed = esubs[hook.entry]
    <3>1. hook.entry \in Entries /\ ekey[hook.entry] \in Keys
      BY <2>2, HookFields DEF EntriesHaveKeys, TypeOK
    <3>2. entries' = [entries EXCEPT ![ekey[hook.entry]] = None] /\ esubs' = esubs
      BY <2>2 DEF KillEntry
    <3>3. \A k \in Keys : entries'[k] # hook.entry
      BY <3>1, <3>2, PushAssumption DEF EntriesHaveKeys, TypeOK
    <3> QED BY <2>2, <3>2, <3>3 DEF Registered
  <2> QED BY <1>1, <2>1, <2>2 DEF HookStep, Walking
<1>2. ASSUME NEW e \in refused
      PROVE  /\ ekey'[e] # None /\ e \notin Registered'
             /\ \A s \in esubs'[e] : chan'[s] = "closed"
  <2>1. e \in Entries /\ ekey[e] # None /\ e \notin Registered /\ \A s \in esubs[e] : chan[s] = "closed" /\ s \in Subs
    BY DEF RefusedAreDead, TypeOK
  <2> QED BY <2>1 DEF Keeps
<1>3. ASSUME KillShutdown
      PROVE  /\ ekey'[hook.entry] # None /\ hook.entry \notin Registered'
             /\ \A s \in esubs'[hook.entry] : chan'[s] = "closed"
  <2>1. hook.step = "shutdown" /\ Shutdown(hook.doomed) /\ UNCHANGED <<entries, esubs, ekey>>
    BY <1>3 DEF KillShutdown
  <2>2. \A s \in esubs[hook.entry] : s \in Subs /\ s \in hook.doomed
    BY <1>0, <2>1 DEF RefusedAreDead, TypeOK
  <2> QED BY <1>0, <2>1, <2>2 DEF Shutdown, RefusedAreDead, Registered
<1>4. refused' = refused \/ (KillShutdown /\ refused' = refused \cup {hook.entry})
  BY DEF HookStep
<1> QED BY <1>1, <1>2, <1>3, <1>4 DEF RefusedAreDead

LEMMA RegistryInvNext == RegistryInv /\ [Next]_vars => RegistryInv'
<1> SUFFICES ASSUME RegistryInv, [Next]_vars PROVE RegistryInv'
  OBVIOUS
<1>1. RegistryStep
  BY RegistrySteps DEF RegistryInv
<1>2. Keeps
  BY <1>1, StepKeeps DEF RegistryInv
<1>3. HookStep /\ OwedStep
  BY HookSteps, OwedSteps DEF RegistryInv
<1>4. TypeOK'
  <2>1. CASE UNCHANGED vars
    BY <2>1 DEF vars, RegistryInv, TypeOK
  <2>2. CASE Next
    BY <2>2, CallerTypes, OtherTypes DEF Next, RegistryInv
  <2> QED BY <2>1, <2>2
<1> QED
  BY <1>2, <1>3, <1>4, UsedHaveKeysNext, EntriesHaveKeysNext, RefusedAreDeadNext DEF RegistryInv

LEMMA RegistryInvInit == Init => RegistryInv
<1> SUFFICES ASSUME Init PROVE RegistryInv
  OBVIOUS
<1>1. TypeOK
  BY SMTT(20), PushAssumption DEF Init, TypeOK, CallStates, HookStates, CloseStates
<1>2. hook.step = "idle" /\ \A c \in Callers : call[c].op = "idle"
  BY DEF Init, HookIdle, Idle
<1>3. UsedHaveKeys /\ EntriesHaveKeys /\ RefusedAreDead
  BY <1>2 DEF Init, UsedHaveKeys, EntriesHaveKeys, RefusedAreDead
<1> QED BY <1>1, <1>3 DEF RegistryInv

\* The registry's invariant, with the type invariant in it.
THEOREM RegistryIsSound == Spec => []RegistryInv
  BY RegistryInvInit, RegistryInvNext, PTL DEF Spec

\* Any number of reconnects, refusals and racing subscribers: once the hook has
\* dealt with a refused entry, every subscription it held is closed.
THEOREM NoneWaitsOnARefusedKey == Spec => []RefusedAreClosed
<1>1. RegistryInv => RefusedAreClosed
  BY DEF RegistryInv, RefusedAreDead, RefusedAreClosed
<1> QED BY <1>1, RegistryIsSound, PTL

-----------------------------------------------------------------------------
(* One connection: what is open is owned, what is registered is fed.       *)

Drained == close.step \in {"shutdown", "done"}

\* Subscribe makes its request holding subMu, for a key that is not registered,
\* so the drain cannot fall between the check of o.closed and the registration.
RequestHoldsLock ==
    \A c \in Callers : call[c].op = "request" =>
        subMu = c /\ ~Drained /\ entries[call[c].key] = None

DrainedIsEmpty == Drained => \A k \in Keys : entries[k] = None

\* An entry's subscriptions have the entry's key.
SameKey == \A e \in Entries : \A s \in esubs[e] : skey[s] = ekey[e]

\* Who will close an open subscription: a Cancel that finds it in its entry, the
\* Cancel that has detached it, or Close.
Owned(s) ==
    \/ \E k \in Keys : entries[k] # None /\ s \in esubs[entries[k]]
    \/ \E c \in Callers : call[c].op = "shutdown" /\ call[c].sub = s
    \/ close.step = "shutdown" /\ s \in close.doomed

\* A key that is registered while its unsubscribe is to come has been raced for.
PendingIsRaced == \A k \in Keys : UnsubscribePending(k) /\ entries[k] # None => k \in raced

\* Until the first reconnect the hook is idle, no subscription is orphaned, and
\* the Gateway feeds every registered key that was not raced for.
OneConnection ==
    reconnects = 0 => /\ hook = HookIdle
                      /\ \A s \in Subs : Live(s) => Owned(s)
                      /\ \A k \in Keys : entries[k] # None => k \in gw \cup raced

FeedInv ==
    /\ RequestHoldsLock /\ DrainedIsEmpty /\ SameKey /\ PendingIsRaced /\ OneConnection

\* Nobody is between the check and the registration while subMu is free.
LEMMA NoRequestUnlocked ==
    ASSUME RequestHoldsLock, subMu = None, NEW c \in Callers
    PROVE  call[c].op # "request"
  BY PushAssumption DEF RequestHoldsLock

\* An unsubscribe that is pending was so before, unless the step was the Cancel
\* of a last subscription.
LEMMA PendingBefore ==
    ASSUME RegistryInv, Keeps, NEW k \in Keys, UnsubscribePending(k)',
           \A c \in Callers : \/ call'[c] = call[c]
                              \/ call'[c].op \notin {"unsubscribe", "shutdown"}
    PROVE  UnsubscribePending(k)
<1>1. PICK c \in Callers : \/ call'[c].op = "unsubscribe" /\ call'[c].key = k
                           \/ call'[c].op = "shutdown" /\ call'[c].last /\ skey'[call'[c].sub] = k
  BY DEF UnsubscribePending
<1>2. call'[c] = call[c]
  BY <1>1
<1>3. call[c].op = "shutdown" => skey'[call[c].sub] = skey[call[c].sub]
  BY CallFields DEF RegistryInv, UsedHaveKeys, Keeps
<1> QED BY <1>1, <1>2, <1>3 DEF UnsubscribePending

\* Steps that touch neither the registry nor the callers nor Close.
LEMMA FeedFrame ==
    ASSUME FeedInv, UNCHANGED <<entries, esubs, ekey, skey, chan, raced, subMu, call, close>>,
           reconnects' = 0 => reconnects = 0 /\ hook' = HookIdle /\ gw \subseteq gw'
    PROVE  FeedInv'
<1>1. RequestHoldsLock' /\ DrainedIsEmpty' /\ SameKey' /\ PendingIsRaced'
  BY DEF FeedInv, RequestHoldsLock, DrainedIsEmpty, SameKey, PendingIsRaced, UnsubscribePending, Drained
<1>2. OneConnection'
  BY DEF FeedInv, OneConnection, Owned, Live
<1> QED BY <1>1, <1>2 DEF FeedInv

\* A caller moves to a point where it owes nothing, from one where it owed
\* nothing.
LEMMA FeedMove ==
    ASSUME RegistryInv, FeedInv, NEW c \in Callers, NEW r \in CallStates, call' = [call EXCEPT ![c] = r],
           r.op \in {"idle", "enter"}, call[c].op \in {"idle", "enter", "request"},
           UNCHANGED <<entries, esubs, ekey, skey, chan, raced, close, reconnects, hook>>, gw \subseteq gw',
           subMu' = subMu \/ (call[c].op = "request" /\ subMu' = None)
    PROVE  FeedInv'
<1>1. call'[c] = r /\ \A d \in Callers : d # c => call'[d] = call[d]
  BY CallMoves DEF RegistryInv
<1>2. RequestHoldsLock'
  BY <1>1 DEF FeedInv, RequestHoldsLock, Drained
<1>3. DrainedIsEmpty' /\ SameKey'
  BY DEF FeedInv, DrainedIsEmpty, SameKey, Drained
<1>4. PendingIsRaced'
  <2>1. ASSUME NEW k \in Keys, UnsubscribePending(k)' PROVE UnsubscribePending(k)
    BY <1>1, <2>1 DEF UnsubscribePending
  <2> QED BY <2>1 DEF FeedInv, PendingIsRaced
<1>5. \A s \in Subs : Owned(s) => Owned(s)'
  BY <1>1 DEF Owned
<1>6. OneConnection'
  BY <1>5 DEF FeedInv, OneConnection, Live
<1> QED BY <1>2, <1>3, <1>4, <1>6 DEF FeedInv

\* A subscription is opened: in the entry of its key, or with a first accepted
\* request in a new one.
LEMMA FeedOpens ==
    ASSUME RegistryInv, Keeps, FeedInv, NEW c \in Callers, call' = [call EXCEPT ![c] = Idle],
           NEW e \in Entries, NEW k \in Keys, call[c].key = k, Attach(e, k),
           UNCHANGED <<close, reconnects, hook>>, gw \subseteq gw',
           \/ /\ call[c].op = "enter" /\ entries[k] = e /\ subMu = None
              /\ UNCHANGED <<entries, ekey, subMu>>
           \/ /\ call[c].op = "request" /\ ekey[e] = None /\ subMu' = None
              /\ ekey' = [ekey EXCEPT ![e] = k] /\ entries' = [entries EXCEPT ![k] = e] /\ k \in gw'
    PROVE  FeedInv'
<1> USE DEF RegistryInv
<1>1. call'[c] = Idle /\ \A d \in Callers : d # c => call'[d] = call[d]
  BY CallMoves, CallValues
<1>2. PICK s \in Subs :
        /\ chan[s] = "unused"
        /\ esubs' = [esubs EXCEPT ![e] = esubs[e] \cup {s}]
        /\ skey' = [skey EXCEPT ![s] = k]
        /\ chan' = [chan EXCEPT ![s] = "open"]
        /\ raced' = IF UnsubscribePending(k) THEN raced \cup {k} ELSE raced
  BY SMTT(20), AttachOpensOne
<1>3. /\ esubs'[e] = esubs[e] \cup {s} /\ \A f \in Entries : esubs[f] \subseteq esubs'[f]
      /\ \A f \in Entries : f # e => esubs'[f] = esubs[f]
      /\ skey'[s] = k /\ \A t \in Subs : t # s => skey'[t] = skey[t]
      /\ \A t \in Subs : t # s => chan'[t] = chan[t]
      /\ raced \subseteq raced'
  BY <1>2 DEF TypeOK
<1>4. \A d \in Callers : d # c => call[d].op # "request"
  BY PushAssumption DEF FeedInv, RequestHoldsLock
<1>5. RequestHoldsLock'
  <2>1. call'[c].op = "idle"
    BY SMTT(20), <1>1 DEF Idle
  <2> QED BY <1>1, <1>4, <2>1 DEF RequestHoldsLock
<1>6. /\ entries'[k] = e /\ ekey'[e] = k
      /\ \A j \in Keys : j # k => entries'[j] = entries[j]
      /\ \A j \in Keys : entries[j] # None => entries'[j] = entries[j]
      /\ \A f \in Entries : f # e => ekey'[f] = ekey[f]
      /\ ekey[e] # None => ekey[e] = k
      /\ ~Drained
  <2>1. CASE call[c].op = "enter" /\ entries[k] = e /\ UNCHANGED <<entries, ekey>>
    <3>1. ekey[e] = k
      BY <2>1, PushAssumption DEF EntriesHaveKeys
    <3> QED BY <2>1, <3>1, PushAssumption DEF FeedInv, DrainedIsEmpty
  <2>2. CASE /\ call[c].op = "request" /\ ekey[e] = None
             /\ ekey' = [ekey EXCEPT ![e] = k] /\ entries' = [entries EXCEPT ![k] = e]
    BY <2>2 DEF FeedInv, RequestHoldsLock, TypeOK
  <2> QED BY <2>1, <2>2
<1>7. DrainedIsEmpty'
  BY <1>6 DEF DrainedIsEmpty, Drained
<1>8. SameKey'
  <2>1. ASSUME NEW f \in Entries, NEW t \in esubs'[f] PROVE skey'[t] = ekey'[f]
    <3>1. CASE t = s /\ f = e
      BY <1>3, <1>6, <3>1
    <3>2. CASE t \in esubs[f]
      <4>1. chan[t] # "unused" /\ t # s /\ t \in Subs /\ skey[t] \in Keys /\ skey[t] = ekey[f]
        BY <1>2, <3>2 DEF UsedHaveKeys, FeedInv, SameKey, TypeOK
      <4>2. ekey[f] # None
        BY <4>1, PushAssumption
      <4> QED BY <1>3, <1>6, <4>1, <4>2
    <3> QED BY <1>3, <2>1, <3>1, <3>2
  <2> QED BY <2>1 DEF SameKey
<1>9. PendingIsRaced'
  <2>1. ASSUME NEW j \in Keys, UnsubscribePending(j)' PROVE UnsubscribePending(j)
    BY SMTT(20), <1>1, <2>1, PendingBefore DEF Idle
  <2> QED BY <1>2, <1>3, <1>6, <2>1 DEF FeedInv, PendingIsRaced
<1>10. \A t \in Subs : Owned(t) => Owned(t)'
  <2>1. ASSUME NEW t \in Subs, NEW j \in Keys, entries[j] # None, t \in esubs[entries[j]]
        PROVE  entries'[j] # None /\ t \in esubs'[entries'[j]]
    BY <1>3, <1>6, <2>1 DEF TypeOK
  <2>2. \A d \in Callers : call[d].op = "shutdown" => call'[d] = call[d]
    BY <1>1
  <2> QED BY <2>1, <2>2 DEF Owned
<1>11. Owned(s)'
  BY <1>3, <1>6, PushAssumption DEF Owned
<1>12. OneConnection'
  <2> SUFFICES ASSUME reconnects = 0
               PROVE  /\ hook = HookIdle
                      /\ \A t \in Subs : Live(t)' => Owned(t)'
                      /\ \A j \in Keys : entries'[j] # None => j \in gw' \cup raced'
    BY DEF OneConnection
  <2>1. hook = HookIdle
    BY DEF FeedInv, OneConnection
  <2>2. \A t \in Subs : Live(t)' => Owned(t)'
    BY <1>3, <1>10, <1>11 DEF FeedInv, OneConnection, Live
  <2>3. \A j \in Keys : entries'[j] # None => j \in gw' \cup raced'
    BY <1>3, <1>6, PushAssumption DEF FeedInv, OneConnection
  <2> QED BY <2>1, <2>2, <2>3
<1> QED BY <1>5, <1>7, <1>8, <1>9, <1>12 DEF FeedInv

\* A Cancel takes over what it detaches.
LEMMA FeedCancel ==
    ASSUME RegistryInv, Keeps, FeedInv, NEW c \in Callers, NEW s \in Subs, Cancel(c, s)
    PROVE  FeedInv'
<1> USE DEF RegistryInv
<1>0. /\ call[c] = Idle /\ subMu = None /\ Live(s) /\ Detach(s)
      /\ UNCHANGED <<ekey, skey, chan, raced, subMu, hook, close, gw, reconnects>>
  BY DEF Cancel
<1>1. /\ call[c].op = "idle" /\ subMu = None /\ Live(s) /\ Detach(s) /\ skey[s] \in Keys
      /\ UNCHANGED <<ekey, skey, chan, raced, subMu, hook, close, gw, reconnects>>
  <2>1. call[c].op = "idle"
    BY SMTT(20), <1>0 DEF Idle
  <2>2. skey[s] \in Keys
    BY <1>0 DEF Live, UsedHaveKeys
  <2> QED BY <1>0, <2>1, <2>2
<1>2. LastOfEntry(s) \in BOOLEAN
  BY DEF LastOfEntry
<1>3. /\ call'[c] = [op |-> "shutdown", sub |-> s, last |-> LastOfEntry(s)]
      /\ \A d \in Callers : d # c => call'[d] = call[d]
  BY <1>2, CallMoves, CallValues DEF Cancel
<1>4. /\ \A e \in Entries : esubs'[e] \subseteq esubs[e] /\ esubs[e] \ {s} \subseteq esubs'[e]
      /\ \A k \in Keys : entries'[k] = entries[k] \/ entries'[k] = None
      /\ \A k \in Keys : k # skey[s] => entries'[k] = entries[k]
      /\ LastOfEntry(s) => entries'[skey[s]] = None
      /\ entries[skey[s]] # None /\ entries'[skey[s]] = None => esubs[entries[skey[s]]] \subseteq {s}
  BY <1>1, DetachEffect
<1>5. RequestHoldsLock'
  BY SMTT(20), <1>1, <1>3, NoRequestUnlocked DEF RequestHoldsLock, FeedInv
<1>6. DrainedIsEmpty' /\ SameKey'
  BY <1>1, <1>4 DEF DrainedIsEmpty, SameKey, FeedInv, Drained
<1>7. PendingIsRaced'
  <2>1. ASSUME NEW k \in Keys, UnsubscribePending(k)', entries'[k] # None PROVE UnsubscribePending(k)
    <3>1. PICK d \in Callers : \/ call'[d].op = "unsubscribe" /\ call'[d].key = k
                               \/ call'[d].op = "shutdown" /\ call'[d].last /\ skey'[call'[d].sub] = k
      BY <2>1 DEF UnsubscribePending
    <3>2. d # c
      <4>1. call'[c].op = "shutdown" /\ call'[c].sub = s /\ (call'[c].last <=> LastOfEntry(s))
        BY SMTT(20), <1>3
      <4>2. skey'[s] = skey[s]
        BY <1>1
      <4>3. CASE LastOfEntry(s)
        BY SMTT(20), <1>4, <2>1, <3>1, <4>1, <4>2, <4>3
      <4>4. CASE ~LastOfEntry(s)
        BY <3>1, <4>1, <4>4
      <4> QED BY <4>3, <4>4
    <3> QED BY <1>1, <1>3, <3>1, <3>2 DEF UnsubscribePending
  <2> QED BY <1>1, <1>4, <2>1 DEF FeedInv, PendingIsRaced
<1>8. ASSUME NEW t \in Subs, Owned(t) PROVE Owned(t)'
  <2>1. CASE t = s
    BY SMTT(20), <1>3, <2>1 DEF Owned
  <2>2. ASSUME t # s, NEW k \in Keys, entries[k] # None, t \in esubs[entries[k]]
        PROVE  entries'[k] # None /\ t \in esubs'[entries'[k]]
    <3>1. entries[k] \in Entries
      BY <2>2 DEF TypeOK
    <3>2. entries'[k] = entries[k]
      BY <1>4, <2>2
    <3> QED BY <1>4, <2>2, <3>1, <3>2
  <2>3. ASSUME t # s, NEW d \in Callers, call[d].op = "shutdown", call[d].sub = t
        PROVE  call'[d] = call[d]
    BY <1>1, <1>3, <2>3
  <2> QED BY <1>1, <1>8, <2>1, <2>2, <2>3 DEF Owned
<1>9. OneConnection'
  BY <1>1, <1>4, <1>8 DEF FeedInv, OneConnection, Live
<1> QED BY <1>5, <1>6, <1>7, <1>9 DEF FeedInv

LEMMA FeedSubscribe ==
    ASSUME RegistryInv, Keeps, FeedInv, NEW c \in Callers,
           (\E k \in Keys : Subscribe(c, k)) \/ SubscribeLocked(c) \/ SubscribeReply(c)
    PROVE  FeedInv'
<1> USE DEF RegistryInv
<1>1. ASSUME NEW k \in Keys, Subscribe(c, k) PROVE FeedInv'
  <2>1. [op |-> "enter", key |-> k] \in CallStates
    BY CallValues
  <2>2. call[c].op = "idle"
    BY SMTT(20), <1>1 DEF Subscribe, Idle
  <2> QED BY <1>1, <2>1, <2>2, FeedMove DEF Subscribe, registry
<1>2. CASE SubscribeLocked(c)
  <2>1. call[c].op = "enter" /\ call[c].key \in Keys /\ subMu = None
    BY <1>2, CallFields DEF SubscribeLocked
  <2>2. CASE Closed /\ Return(c) /\ UNCHANGED <<registry, subMu>>
    <3>1. Idle \in CallStates /\ Idle.op = "idle"
      BY CallValues DEF Idle
    <3> QED BY <1>2, <2>1, <2>2, <3>1, FeedMove DEF SubscribeLocked, Return, registry
  <2>3. CASE /\ entries[call[c].key] # None /\ Attach(entries[call[c].key], call[c].key) /\ Return(c)
             /\ UNCHANGED <<entries, ekey, subMu>>
    <3>1. entries[call[c].key] \in Entries
      BY <2>1, <2>3 DEF TypeOK
    <3> QED BY <1>2, <2>1, <2>3, <3>1, FeedOpens DEF SubscribeLocked, Return
  <2>4. CASE /\ ~Closed /\ entries[call[c].key] = None /\ subMu' = c /\ UNCHANGED registry
             /\ call' = [call EXCEPT ![c] = [op |-> "request", key |-> call[c].key]]
    <3>1. /\ call'[c] = [op |-> "request", key |-> call[c].key]
          /\ \A d \in Callers : d # c => call'[d] = call[d]
      BY <2>1, <2>4, CallMoves, CallValues
    <3>2. UNCHANGED <<entries, esubs, ekey, skey, chan, raced, hook, close, gw, reconnects>>
      BY <1>2, <2>4 DEF SubscribeLocked, registry
    <3>3. RequestHoldsLock'
      <4>1. call'[c].key = call[c].key /\ ~Drained'
        BY SMTT(20), <2>4, <3>1, <3>2 DEF Closed, Drained
      <4>2. \A d \in Callers : call[d].op # "request"
        BY <2>1, NoRequestUnlocked DEF FeedInv
      <4> QED BY <2>4, <3>1, <3>2, <4>1, <4>2 DEF RequestHoldsLock
    <3>4. DrainedIsEmpty' /\ SameKey'
      BY <3>2 DEF FeedInv, DrainedIsEmpty, SameKey, Drained
    <3>5. PendingIsRaced'
      BY SMTT(20), <3>1, <3>2, PendingBefore DEF FeedInv, PendingIsRaced
    <3>6. \A t \in Subs : Owned(t) => Owned(t)'
      BY <2>1, <3>1, <3>2 DEF Owned
    <3>7. OneConnection'
      BY <3>2, <3>6 DEF FeedInv, OneConnection, Live
    <3> QED BY <3>3, <3>4, <3>5, <3>7 DEF FeedInv
  <2> QED BY <1>2, <2>2, <2>3, <2>4 DEF SubscribeLocked
<1>3. CASE SubscribeReply(c)
  <2> DEFINE k == call[c].key
             e == CHOOSE f \in Entries : ekey[f] = None
  <2>1. call[c].op = "request" /\ k \in Keys
    BY <1>3, CallFields DEF SubscribeReply
  <2>2. PICK outcome \in Outcomes :
          /\ GatewaySubscribe(k, outcome)
          /\ \/ /\ outcome = "accepted"
                /\ \E f \in Entries : ekey[f] = None
                /\ ekey' = [ekey EXCEPT ![e] = k]
                /\ entries' = [entries EXCEPT ![k] = e]
                /\ Attach(e, k)
             \/ outcome # "accepted" /\ UNCHANGED registry
    BY <1>3 DEF SubscribeReply
  <2>3. gw \subseteq gw' /\ (outcome = "accepted" => k \in gw')
    BY <2>2 DEF GatewaySubscribe
  <2>4. CASE outcome # "accepted" /\ UNCHANGED registry
    <3>1. Idle \in CallStates /\ Idle.op = "idle"
      BY CallValues DEF Idle
    <3> QED BY <1>3, <2>1, <2>3, <2>4, <3>1, FeedMove DEF SubscribeReply, Return, registry
  <2>5. CASE /\ outcome = "accepted" /\ \E f \in Entries : ekey[f] = None
             /\ ekey' = [ekey EXCEPT ![e] = k] /\ entries' = [entries EXCEPT ![k] = e] /\ Attach(e, k)
    <3>1. e \in Entries /\ ekey[e] = None
      BY <2>5
    <3> HIDE DEF e
    <3> QED BY <1>3, <2>1, <2>3, <2>5, <3>1, FeedOpens DEF SubscribeReply, Return
  <2> QED BY <2>2, <2>4, <2>5
<1> QED BY <1>1, <1>2, <1>3

\* The Cancel that detached a subscription closes it, and then unsubscribes.
LEMMA FeedCancelled ==
    ASSUME RegistryInv, Keeps, FeedInv, NEW c \in Callers, CancelShutdown(c) \/ CancelReply(c)
    PROVE  FeedInv'
<1> USE DEF RegistryInv
<1>1. CASE CancelShutdown(c)
  <2> DEFINE s == call[c].sub
  <2>1. call[c].op = "shutdown" /\ s \in Subs /\ call[c].last \in BOOLEAN /\ skey[s] \in Keys
    BY <1>1, CallFields DEF CancelShutdown, UsedHaveKeys
  <2>2. /\ UNCHANGED <<entries, esubs, ekey, skey, raced, subMu, hook, close, gw, reconnects>>
        /\ chan' = [t \in Subs |-> IF t = s THEN "closed" ELSE chan[t]]
    BY <1>1 DEF CancelShutdown, Shutdown
  <2>3. /\ call'[c] = IF call[c].last THEN [op |-> "unsubscribe", key |-> skey[s]] ELSE Idle
        /\ \A d \in Callers : d # c => call'[d] = call[d]
    BY <1>1, <2>1, CallMoves, CallValues DEF CancelShutdown
  <2>4. RequestHoldsLock'
    <3>1. call'[c].op # "request"
      BY SMTT(20), <2>3 DEF Idle
    <3> QED BY <2>2, <2>3, <3>1 DEF FeedInv, RequestHoldsLock, Drained
  <2>5. DrainedIsEmpty' /\ SameKey'
    BY <2>2 DEF FeedInv, DrainedIsEmpty, SameKey, Drained
  <2>6. ASSUME NEW k \in Keys, UnsubscribePending(k)' PROVE UnsubscribePending(k)
    <3>1. PICK d \in Callers : \/ call'[d].op = "unsubscribe" /\ call'[d].key = k
                               \/ call'[d].op = "shutdown" /\ call'[d].last /\ skey'[call'[d].sub] = k
      BY <2>6 DEF UnsubscribePending
    <3>2. CASE d = c
      BY SMTT(20), <2>1, <2>3, <3>1, <3>2 DEF UnsubscribePending, Idle
    <3>3. CASE d # c
      BY <2>2, <2>3, <3>1, <3>3 DEF UnsubscribePending
    <3> QED BY <3>2, <3>3
  <2>7. PendingIsRaced'
    BY <2>2, <2>6 DEF FeedInv, PendingIsRaced
  <2>8. \A t \in Subs : t # s /\ Owned(t) => Owned(t)'
    BY <2>2, <2>3 DEF Owned
  <2>9. OneConnection'
    BY <2>2, <2>8 DEF FeedInv, OneConnection, Live
  <2> QED BY <2>4, <2>5, <2>7, <2>9 DEF FeedInv
<1>2. CASE CancelReply(c)
  <2> DEFINE j == call[c].key
  <2>1. call[c].op = "unsubscribe" /\ j \in Keys
    BY <1>2, CallFields DEF CancelReply
  <2>2. /\ UNCHANGED <<entries, esubs, ekey, skey, chan, raced, subMu, hook, close, reconnects>>
        /\ gw \ {j} \subseteq gw'
    BY <1>2 DEF CancelReply, GatewayUnsubscribe, registry
  <2>3. call'[c] = Idle /\ \A d \in Callers : d # c => call'[d] = call[d]
    BY <1>2, CallMoves, CallValues DEF CancelReply, Return
  <2>4. RequestHoldsLock'
    <3>1. call'[c].op # "request"
      BY SMTT(20), <2>3 DEF Idle
    <3> QED BY <2>2, <2>3, <3>1 DEF FeedInv, RequestHoldsLock, Drained
  <2>5. DrainedIsEmpty' /\ SameKey'
    BY <2>2 DEF FeedInv, DrainedIsEmpty, SameKey, Drained
  <2>6. PendingIsRaced'
    BY SMTT(20), <2>2, <2>3, PendingBefore DEF FeedInv, PendingIsRaced, Idle
  <2>7. \A t \in Subs : Owned(t) => Owned(t)'
    BY <2>1, <2>2, <2>3 DEF Owned
  <2>8. UnsubscribePending(j)
    BY <2>1 DEF UnsubscribePending
  <2>9. OneConnection'
    <3>1. \A k \in Keys : reconnects = 0 /\ entries[k] # None => k \in gw' \cup raced
      BY <2>1, <2>2, <2>8 DEF FeedInv, OneConnection, PendingIsRaced
    <3> QED BY <2>2, <2>7, <3>1 DEF FeedInv, OneConnection, Live
  <2> QED BY <2>4, <2>5, <2>6, <2>9 DEF FeedInv
<1> QED BY <1>1, <1>2

\* The hook's steps: none happens on the first connection.
LEMMA FeedHook ==
    ASSUME RegistryInv, FeedInv, Reconnect \/ HookProgress
    PROVE  FeedInv'
<1> USE DEF RegistryInv
<1>1. CASE Reconnect
  BY SMTT(20), <1>1, FeedFrame DEF Reconnect, registry, TypeOK
<1>2. HookProgress => reconnects # 0
  BY SMTT(20) DEF FeedInv, OneConnection, HookProgress, HookIdle, ResubscribeSnapshot, ResubscribeNext,
         ResubscribeReply, KillEntry, KillShutdown, KillReply
<1>3. CASE ResubscribeSnapshot \/ ResubscribeNext \/ ResubscribeReply \/ KillReply
  BY <1>2, <1>3, FeedFrame
  DEF HookProgress, ResubscribeSnapshot, ResubscribeNext, ResubscribeReply, KillReply, registry
<1>4. CASE KillEntry
  <2>1. /\ UNCHANGED <<esubs, ekey, skey, raced, subMu, call, close, reconnects>>
        /\ \A k \in Keys : entries'[k] = entries[k] \/ entries'[k] = None
    BY <1>4 DEF KillEntry, TypeOK
  <2>2. RequestHoldsLock' /\ DrainedIsEmpty' /\ SameKey'
    BY <2>1, CallFields DEF FeedInv, RequestHoldsLock, DrainedIsEmpty, SameKey, Drained
  <2>3. PendingIsRaced'
    BY <2>1 DEF FeedInv, PendingIsRaced, UnsubscribePending
  <2> QED BY <1>2, <1>4, <2>1, <2>2, <2>3 DEF FeedInv, OneConnection, HookProgress
<1>5. CASE KillShutdown
  <2>1. UNCHANGED <<entries, esubs, ekey, skey, raced, subMu, call, close, reconnects>>
    BY <1>5 DEF KillShutdown
  <2>2. RequestHoldsLock' /\ DrainedIsEmpty' /\ SameKey'
    BY <2>1 DEF FeedInv, RequestHoldsLock, DrainedIsEmpty, SameKey, Drained
  <2>3. PendingIsRaced'
    BY <2>1 DEF FeedInv, PendingIsRaced, UnsubscribePending
  <2> QED BY <1>2, <1>5, <2>1, <2>2, <2>3 DEF FeedInv, OneConnection, HookProgress
<1> QED BY <1>1, <1>3, <1>4, <1>5 DEF HookProgress

\* Close takes over what is registered and closes it.
LEMMA FeedClose ==
    ASSUME RegistryInv, FeedInv, CloseFlag \/ CloseProgress
    PROVE  FeedInv'
<1> USE DEF RegistryInv
<1>1. UNCHANGED <<esubs, ekey, skey, raced, subMu, call, hook, gw, reconnects>>
  BY DEF CloseFlag, CloseProgress, CloseDrain, CloseShutdown, registry
<1>2. SameKey'
  BY <1>1 DEF FeedInv, SameKey
<1>3. CASE CloseFlag
  <2>1. UNCHANGED <<entries, chan>> /\ close.step = "open" /\ close'.step = "flagged"
    BY <1>3 DEF CloseFlag, registry
  <2>2. RequestHoldsLock' /\ DrainedIsEmpty'
    BY <1>1, <2>1 DEF FeedInv, RequestHoldsLock, DrainedIsEmpty, Drained
  <2>3. PendingIsRaced'
    BY <1>1, <2>1 DEF FeedInv, PendingIsRaced, UnsubscribePending
  <2>4. \A t \in Subs : Owned(t) => Owned(t)'
    BY <1>1, <2>1 DEF Owned
  <2>5. OneConnection'
    BY <1>1, <2>1, <2>4 DEF FeedInv, OneConnection, Live
  <2> QED BY <1>2, <2>2, <2>3, <2>5 DEF FeedInv
<1>4. CASE CloseDrain
  <2>1. /\ subMu = None /\ close.step = "flagged" /\ UNCHANGED chan
        /\ close' = [step |-> "shutdown", doomed |-> UNION {esubs[e] : e \in Registered}]
        /\ \A k \in Keys : entries'[k] = None
    BY <1>4 DEF CloseDrain
  <2>2. RequestHoldsLock' /\ DrainedIsEmpty'
    BY <1>1, <2>1, NoRequestUnlocked DEF FeedInv, RequestHoldsLock, DrainedIsEmpty
  <2>3. PendingIsRaced'
    BY <2>1 DEF PendingIsRaced
  <2>4. ASSUME NEW t \in Subs, Owned(t) PROVE Owned(t)'
    <3>1. CASE \E c \in Callers : call[c].op = "shutdown" /\ call[c].sub = t
      BY <1>1, <3>1 DEF Owned
    <3>2. ASSUME NEW k \in Keys, entries[k] # None, t \in esubs[entries[k]] PROVE Owned(t)'
      <4>1. entries[k] \in Registered
        BY <3>2 DEF TypeOK, Registered
      <4>2. t \in close'.doomed /\ close'.step = "shutdown"
        BY <2>1, <3>2, <4>1
      <4> QED BY <4>2 DEF Owned
    <3> QED BY <2>1, <2>4, <3>1, <3>2 DEF Owned
  <2>5. OneConnection'
    BY <1>1, <2>1, <2>4 DEF FeedInv, OneConnection, Live
  <2> QED BY <1>2, <2>2, <2>3, <2>5 DEF FeedInv
<1>5. CASE CloseShutdown
  <2>1. /\ UNCHANGED entries /\ close.step = "shutdown" /\ close'.step = "done"
        /\ chan' = [t \in Subs |-> IF t \in close.doomed THEN "closed" ELSE chan[t]]
    BY <1>5 DEF CloseShutdown, Shutdown
  <2>2. RequestHoldsLock' /\ DrainedIsEmpty'
    BY <1>1, <2>1 DEF FeedInv, RequestHoldsLock, DrainedIsEmpty, Drained
  <2>3. PendingIsRaced'
    BY <1>1, <2>1 DEF FeedInv, PendingIsRaced, UnsubscribePending
  <2>4. \A t \in Subs : t \notin close.doomed /\ Owned(t) => Owned(t)'
    BY <1>1, <2>1 DEF Owned
  <2>5. OneConnection'
    BY <1>1, <2>1, <2>4 DEF FeedInv, OneConnection, Live
  <2> QED BY <1>2, <2>2, <2>3, <2>5 DEF FeedInv
<1> QED BY <1>3, <1>4, <1>5 DEF CloseProgress

LEMMA FeedInvNext ==
    ASSUME RegistryInv, FeedInv, [Next]_vars
    PROVE  FeedInv'
<1>1. Keeps
  BY RegistrySteps, StepKeeps DEF RegistryInv
<1>2. ASSUME NEW c \in Callers, CallerProgress(c) PROVE FeedInv'
  BY <1>1, <1>2, FeedSubscribe, FeedCancelled DEF CallerProgress
<1>3. ASSUME NEW c \in Callers, NEW k \in Keys, Subscribe(c, k) PROVE FeedInv'
  BY <1>1, <1>3, FeedSubscribe
<1>4. ASSUME NEW c \in Callers, NEW s \in Subs, Cancel(c, s) PROVE FeedInv'
  BY <1>1, <1>4, FeedCancel
<1>5. CASE DispatchLookup \/ DispatchDeliver \/ UNCHANGED vars
  <2>1. UNCHANGED <<entries, esubs, ekey, skey, chan, raced, subMu, call, close, hook, gw, reconnects>>
    BY <1>5 DEF DispatchLookup, DispatchDeliver, vars, registry
  <2> QED BY <2>1, FeedFrame DEF FeedInv, OneConnection
<1> QED BY <1>2, <1>3, <1>4, <1>5, FeedHook, FeedClose DEF Next

LEMMA FeedInvInit == Init => FeedInv
<1> SUFFICES ASSUME Init PROVE FeedInv
  OBVIOUS
<1>1. RequestHoldsLock /\ DrainedIsEmpty /\ SameKey /\ PendingIsRaced
  BY DEF Init, RequestHoldsLock, DrainedIsEmpty, SameKey, PendingIsRaced, Drained, Idle
<1>2. OneConnection
  BY DEF Init, OneConnection, Live
<1> QED BY <1>1, <1>2 DEF FeedInv

LEMMA FeedHolds == Spec => [](RegistryInv /\ FeedInv)
  BY RegistryInvInit, RegistryInvNext, FeedInvInit, FeedInvNext, PTL DEF Spec

\* CloseClosesEverySubscription for any number of callers, keys and entries: on
\* one connection, when Close has returned and every other call too, no channel
\* is open, however Subscribe, Cancel and Close were interleaved.
THEOREM CloseIsComplete == Spec => []CloseClosesEverySubscription
<1>1. RegistryInv /\ FeedInv => CloseClosesEverySubscription
  <2> SUFFICES ASSUME RegistryInv, FeedInv, Quiescent, close.step = "done", reconnects = 0,
                      NEW s \in Subs, Live(s)
               PROVE  FALSE
    BY DEF CloseClosesEverySubscription
  <2>1. Owned(s)
    BY DEF FeedInv, OneConnection
  <2>2. \A k \in Keys : entries[k] = None
    BY DEF FeedInv, DrainedIsEmpty, Drained
  <2>3. \A c \in Callers : call[c].op = "idle"
    BY SMTT(20) DEF Quiescent, Idle
  <2> QED BY <2>1, <2>2, <2>3 DEF Owned
<1> QED BY <1>1, FeedHolds, PTL

\* OnlyARaceSilences for every instance: on one connection coalescing never
\* leaves an open subscription unfed, unless a Subscribe came between a Cancel's
\* unlock and its unsubscribe.
THEOREM CoalescingFeeds == Spec => []OnlyARaceSilences
<1>1. RegistryInv /\ FeedInv => OnlyARaceSilences
  <2> SUFFICES ASSUME RegistryInv, FeedInv, Quiescent, ~Closed, reconnects = 0, NEW s \in Subs, Live(s)
               PROVE  skey[s] \in gw \cup raced
    BY DEF OnlyARaceSilences
  <2>1. Owned(s) /\ close.step = "open" /\ \A c \in Callers : call[c].op = "idle"
    BY SMTT(20) DEF FeedInv, OneConnection, Closed, Quiescent, Idle
  <2>2. PICK k \in Keys : entries[k] # None /\ s \in esubs[entries[k]]
    BY <2>1 DEF Owned
  <2>3. skey[s] = k
    BY SMTT(20), <2>2 DEF FeedInv, SameKey, RegistryInv, EntriesHaveKeys, TypeOK
  <2> QED BY <2>2, <2>3 DEF FeedInv, OneConnection
<1> QED BY <1>1, FeedHolds, PTL

=============================================================================
