---------------------------- MODULE StreamClient ----------------------------
(***************************************************************************)
(* The released stream client (pkg/hstong/stream) on top of the push       *)
(* client: Connect, Close and shutdown, the subscriptions of the market    *)
(* and the trade push, and their restoration after a reconnect.            *)
(*                                                                         *)
(* Market subscriptions are all for one security: what matters is how they *)
(* share it.  An HTTP call is one step, at the moment the Gateway acts on  *)
(* it.  external: the Gateway pushes what is in "on", and a connection     *)
(* that ends takes its subscriptions along (onReconnect restores them).    *)
(***************************************************************************)
EXTENDS PushClient

CONSTANTS Subs          \* subscriptions the application makes, one each

VARIABLES
    connect,    \* where each call of Connect is
    started, sclosed,   \* Client.started, Client.closed
    cancel,     \* whose context Client.cancel ends
    shut,       \* how far shutdown has come
    closer,     \* the application's call of Close
    kind,       \* "market" or "trade"; the two share only the connection, so a
                \* behaviour has one of them
    sub,        \* where each subscription is
    subs,       \* Client.subs
    tradeSubs,  \* Client.tradeSubs
    on,         \* what the Gateway pushes
    snap,       \* subscriptions onReconnect has copied, per Run
    overlap,    \* history: two calls of Connect were under way at once
    raced,      \* history: subscriptions made while another one was leaving
    lost        \* history: pushes lost to a race or a failure, not asked for since

lifeVars == <<connect, started, sclosed, cancel, shut, closer, overlap>>
subVars == <<kind, sub, subs, tradeSubs, on, lost, raced>>
vars == <<connVars, lifeVars, subVars, snap>>

NoOne == "no one"

ASSUME NoOneAssumption == NoOne \notin Runners

\* A bound: an application that calls Connect twice does not subscribe, so the
\* two are explored apart; and it subscribes only once it is connected.
Connecting == {r \in Runners : connect[r] # "idle"}

\* Calls are alike: the next one is any that has not been made.
NextRunner == IF Connecting = Runners THEN NoOne ELSE CHOOSE r \in Runners \ Connecting : TRUE

Making == {s \in Subs : sub[s] \in {"asking", "asked"}}
Leaving(k) == {s \in Subs : sub[s] = "leaving" /\ kind[s] = k}

-----------------------------------------------------------------------------
(* Connect                                                                 *)

\* Mutant: a second Connect goes through although the first has started.
ConnectCallsAnyway(r) ==
    /\ r = NextRunner /\ ~sclosed /\ (Connecting # {} => \A s \in Subs : sub[s] = "idle")
    /\ connect' = [connect EXCEPT ![r] = "dialling"] /\ cancel' = r
    /\ overlap' = (overlap \/ \E q \in Runners : connect[q] \in {"dialling", "dialled", "ready"})
    /\ UNCHANGED <<connVars, started, sclosed, shut, closer, subVars, snap>>

\* Under the mutex: closed, started, and the context whose cancel the client
\* keeps, over the one it kept before.
ConnectCalls(r) ==
    /\ r = NextRunner /\ (Connecting # {} => \A s \in Subs : sub[s] = "idle")
    /\ IF sclosed \/ started
       THEN connect' = [connect EXCEPT ![r] = "over"] /\ UNCHANGED <<cancel, overlap>>
       ELSE /\ connect' = [connect EXCEPT ![r] = "dialling"] /\ cancel' = r
            /\ overlap' = (overlap \/ \E q \in Runners : connect[q] \in {"dialling", "dialled", "ready"})
    /\ UNCHANGED <<connVars, started, sclosed, shut, closer, subVars, snap>>

\* push.Client.Connect: nothing to do when there is a connection.
PushConnectDials(r) ==
    /\ connect[r] = "dialling"
    /\ \/ /\ ~closed /\ conn # NoConn
          /\ connect' = [connect EXCEPT ![r] = "ready"]
          /\ UNCHANGED connVars
       \/ /\ ~closed /\ conn = NoConn /\ DialOk(r)
          /\ connect' = [connect EXCEPT ![r] = "dialled"]
          /\ UNCHANGED <<conn, closed, swept, cancelled, watch, run, crossed>>
    /\ UNCHANGED <<started, sclosed, cancel, shut, closer, overlap, subVars, snap>>

\* Its second look: closed meanwhile, or another connection is there already.
PushConnectStores(r) ==
    /\ connect[r] = "dialled"
    /\ IF closed \/ conn # NoConn
       THEN open' = open \ {held[r]} /\ UNCHANGED conn
       ELSE conn' = held[r] /\ UNCHANGED open
    /\ held' = [held EXCEPT ![r] = NoConn]
    /\ IF closed
       THEN /\ connect' = [connect EXCEPT ![r] = "over"]
            /\ cancelled' = cancelled \union {cancel}
       ELSE /\ connect' = [connect EXCEPT ![r] = "ready"]
            /\ UNCHANGED cancelled
    /\ UNCHANGED <<dials, closed, swept, watch, run, crossed,
                   started, sclosed, cancel, shut, closer, overlap, subVars, snap>>

\* The push client is closed or the dial failed: whatever context the client
\* keeps now is cancelled.
ConnectFails(r) ==
    /\ connect[r] = "dialling"
    /\ connect' = [connect EXCEPT ![r] = "over"]
    /\ cancelled' = cancelled \union {cancel}
    /\ UNCHANGED <<conn, open, dials, closed, swept, watch, run, held, crossed,
                   started, sclosed, cancel, shut, closer, overlap, subVars, snap>>

\* Under the mutex again: started, the wait group, and the three goroutines.
ConnectStarts(r) ==
    /\ connect[r] = "ready"
    /\ connect' = [connect EXCEPT ![r] = "over"]
    /\ IF sclosed
       THEN UNCHANGED <<started, run, watch>>
       ELSE started' = TRUE /\ Start(r)
    /\ UNCHANGED <<conn, open, dials, closed, swept, cancelled, held, crossed,
                   sclosed, cancel, shut, closer, overlap, subVars, snap>>

\* The application ends the context it connected with.
ContextEnds(r) ==
    /\ run[r] # "off" /\ r \notin cancelled
    /\ cancelled' = cancelled \union {r}
    /\ UNCHANGED <<conn, open, dials, closed, swept, watch, run, held, crossed,
                   lifeVars, subVars, snap>>

-----------------------------------------------------------------------------
(* Close and shutdown                                                      *)

CloseCalls ==
    /\ closer = "idle"
    /\ closer' = "closing"
    /\ UNCHANGED <<connVars, connect, started, sclosed, cancel, shut, overlap, subVars, snap>>

\* closeOnce: Close, or the goroutine that waits for the context, begins.
ShutdownBegins ==
    /\ shut = "open"
    /\ \/ closer = "closing"
       \/ \E r \in Runners : run[r] # "off" /\ r \in cancelled
    /\ shut' = "cancel" /\ sclosed' = TRUE
    /\ subs' = {} /\ tradeSubs' = 0 /\ lost' = {} /\ raced' = {}
    /\ sub' = [s \in Subs |-> IF s \in subs THEN "gone" ELSE sub[s]]
    /\ UNCHANGED <<connVars, connect, started, cancel, closer, overlap, kind, on, snap>>

ShutdownCancels ==
    /\ shut = "cancel" /\ shut' = "flag"
    /\ cancelled' = cancelled \union ({cancel} \ {NoOne})
    /\ UNCHANGED <<conn, open, dials, closed, swept, watch, run, held, crossed,
                   connect, started, sclosed, cancel, closer, overlap, subVars, snap>>

ShutdownClosesPush ==
    /\ \/ shut = "flag" /\ shut' = "sweep" /\ CloseFlag
       \/ shut = "sweep" /\ shut' = "done" /\ CloseSweep
    /\ UNCHANGED <<connect, started, sclosed, cancel, closer, overlap, subVars, snap>>

\* The wait group: every Run has returned, the goroutines that wait for the
\* context or for done, and the forwarders of errors, with shutdown.
CloseReturns ==
    /\ closer = "closing" /\ shut = "done"
    /\ \A r \in Runners : run[r] \in {"off", "exit"}
    /\ closer' = "returned"
    /\ UNCHANGED <<connVars, connect, started, sclosed, cancel, shut, overlap, subVars, snap>>

-----------------------------------------------------------------------------
(* Subscriptions                                                           *)

\* Subscribe and SubscribeTrade up to the request: an order subscription asks
\* only when it is the first.
SubscribeAsks(s) ==
    /\ sub[s] = "idle" /\ ~sclosed /\ started /\ Cardinality(Connecting) <= 1
    /\ sub' = [sub EXCEPT ![s] = IF kind[s] = "trade" /\ tradeSubs > 0 THEN "asked" ELSE "asking"]
    /\ raced' = IF Leaving(kind[s]) # {} THEN raced \union {s} ELSE raced
    /\ UNCHANGED <<connVars, lifeVars, kind, subs, tradeSubs, on, lost, snap>>

Push(k) == on' = on \union {k} /\ lost' = lost \ {k}

\* The Gateway's answer to the request; a refusal ends the call.
SubscribeAnswered(s) ==
    /\ sub[s] = "asking"
    /\ \/ sub' = [sub EXCEPT ![s] = "asked"] /\ Push(kind[s])
       \/ sub' = [sub EXCEPT ![s] = "gone"] /\ UNCHANGED <<on, lost>>
    /\ UNCHANGED <<connVars, lifeVars, kind, subs, tradeSubs, raced, snap>>

SubscribeRegisters(s) ==
    /\ sub[s] = "asked"
    /\ IF sclosed
       THEN sub' = [sub EXCEPT ![s] = "gone"] /\ UNCHANGED <<subs, tradeSubs>>
       ELSE /\ sub' = [sub EXCEPT ![s] = "live"]
            /\ subs' = subs \union {s}
            /\ tradeSubs' = IF kind[s] = "trade" THEN tradeSubs + 1 ELSE tradeSubs
    /\ UNCHANGED <<connVars, lifeVars, kind, on, lost, raced, snap>>

\* Cancel, under the mutex: the last order subscription asks the Gateway to
\* stop, a market subscription always does.
CancelAsks(s) ==
    /\ sub[s] = "live"
    /\ subs' = subs \ {s}
    /\ tradeSubs' = IF kind[s] = "trade" THEN tradeSubs - 1 ELSE tradeSubs
    /\ sub' = [sub EXCEPT ![s] = IF kind[s] = "market" \/ tradeSubs = 1 THEN "leaving" ELSE "gone"]
    /\ raced' = (raced \ {s}) \union {q \in Making : kind[q] = kind[s]}
    /\ UNCHANGED <<connVars, lifeVars, kind, on, lost, snap>>

\* The Gateway stops, or the request fails; the channels close either way.
CancelAnswered(s) ==
    /\ sub[s] = "leaving"
    /\ sub' = [sub EXCEPT ![s] = "gone"]
    /\ \/ /\ on' = on \ {kind[s]}
          /\ lost' = IF \E q \in subs \union Making :
                           kind[q] = kind[s] /\ (kind[s] = "market" \/ q \in raced)
                      THEN lost \union {kind[s]} ELSE lost
       \/ UNCHANGED <<on, lost>>
    /\ UNCHANGED <<connVars, lifeVars, kind, subs, tradeSubs, raced, snap>>

\* onReconnect: copy under the mutex, then one request per market
\* subscription and one for the order push.  A subscription that has its
\* answer and is not listed yet is not among them.
onReconnect(r) ==
    /\ run[r] = "hook"
    /\ snap' = [snap EXCEPT ![r] = subs]
    /\ lost' = lost \union {kind[s] : s \in {q \in Subs : sub[q] = "asked"}}
    /\ Goto(r, IF sclosed THEN "top" ELSE "restore market")
    /\ UNCHANGED <<conn, open, dials, closed, swept, cancelled, watch, held, crossed,
                   lifeVars, kind, sub, subs, tradeSubs, on, raced>>

Restore(r, k, pc) ==
    LET mine == {s \in snap[r] : kind[s] = k}
    IN  /\ \/ mine # {} /\ Push(k)
           \/ mine # {} /\ lost' = lost \union {k} /\ UNCHANGED on
           \/ mine = {} /\ UNCHANGED <<on, lost>>
        /\ Goto(r, pc)
        /\ UNCHANGED <<conn, open, dials, closed, swept, cancelled, watch, held, crossed,
                       lifeVars, kind, sub, subs, tradeSubs, raced>>

RestoreMarket(r) ==
    run[r] = "restore market" /\ Restore(r, "market", "restore trade") /\ UNCHANGED snap

\* Mutant: the order push is left to the application.
RestoreTradeNot(r) ==
    /\ run[r] = "restore trade"
    /\ Goto(r, "top")
    /\ snap' = [snap EXCEPT ![r] = {}]
    /\ UNCHANGED <<conn, open, dials, closed, swept, cancelled, watch, held, crossed,
                   lifeVars, subVars>>

RestoreTrade(r) ==
    /\ run[r] = "restore trade" /\ Restore(r, "trade", "top")
    /\ snap' = [snap EXCEPT ![r] = {}]

\* external: a connection ends, and what was subscribed on it.
Drop(c) ==
    /\ PeerDrops(c)
    /\ on' = IF c = conn THEN {} ELSE on
    /\ UNCHANGED <<lifeVars, kind, sub, subs, tradeSubs, lost, raced, snap>>

-----------------------------------------------------------------------------
Init ==
    /\ ConnInit
    /\ connect = [r \in Runners |-> "idle"]
    /\ started = FALSE /\ sclosed = FALSE /\ cancel = NoOne
    /\ shut = "open" /\ closer = "idle" /\ overlap = FALSE
    /\ \E k \in {"market", "trade"} : kind = [s \in Subs |-> k]
    /\ sub = [s \in Subs |-> "idle"]
    /\ subs = {} /\ tradeSubs = 0 /\ on = {}
    /\ snap = [r \in Runners |-> {}]
    /\ lost = {} /\ raced = {}

RunnerStep(r) ==
    \/ RunStep(r) /\ UNCHANGED <<lifeVars, subVars, snap>>
    \/ onReconnect(r) \/ RestoreMarket(r) \/ RestoreTrade(r)

WatcherStep(r) == Watcher(r) /\ UNCHANGED <<lifeVars, subVars, snap>>

Shutdown == ShutdownBegins \/ ShutdownCancels \/ ShutdownClosesPush

Next ==
    \/ \E r \in Runners :
        \/ ConnectCalls(r) \/ PushConnectDials(r) \/ PushConnectStores(r)
        \/ ConnectFails(r) \/ ConnectStarts(r) \/ ContextEnds(r)
        \/ RunnerStep(r) \/ WatcherStep(r)
    \/ CloseCalls \/ Shutdown \/ CloseReturns
    \/ \E s \in Subs :
        \/ SubscribeAsks(s) \/ SubscribeAnswered(s) \/ SubscribeRegisters(s)
        \/ CancelAsks(s) \/ CancelAnswered(s)
    \/ \E c \in open : Drop(c)

Spec == Init /\ [][Next]_vars

\* Goroutines are scheduled, and dials, sleeps and HTTP calls return: the
\* context or their own time-outs see to it.
FairSpec ==
    /\ Spec
    /\ \A r \in Runners : WF_vars(RunnerStep(r)) /\ WF_vars(WatcherStep(r))
    /\ WF_vars(Shutdown) /\ WF_vars(CloseReturns)

-----------------------------------------------------------------------------
\* Close comes back (stream.go: it "waits for all package goroutines to exit"),
\* whatever the reconnect loop was doing, unless two Connects overlapped.
CloseComesBack == (closer = "closing") ~> (closer = "returned" \/ overlap)

\* There is one Run, hence one reader of a connection, unless two Connects
\* were under way at once: started is set only after the dial.
OneRun == Cardinality({r \in Runners : run[r] # "off"}) > 1 => overlap

\* Nothing is left open once Close has returned, except a connection whose dial
\* crossed Close (Run stores it without looking at the closed flag), unless two
\* Connects were under way at once: setConn then replaces a connection of Connect.
NothingLeftOpen ==
    closer = "returned" /\ (\A r \in Runners : connect[r] \in {"idle", "over"})
        => open \subseteq crossed \/ overlap

Restoring == \E r \in Runners :
    run[r] \in {"broken", "redial", "resleep", "restore", "hook", "restore market", "restore trade"}

\* A listed subscription is fed: its push is on unless the connection is being
\* replaced, or the push was lost and nobody asked for it since: restoring it
\* failed (which those listed then are told), a cancel or a reconnect overtook a
\* subscription being made, or (market data only) another subscription to the
\* same security was cancelled.
ListedIsFed ==
    \A s \in subs :
        \/ kind[s] \in on
        \/ kind[s] \in lost
        \/ Restoring \/ ~started \/ overlap
        \/ conn \notin open

=============================================================================
