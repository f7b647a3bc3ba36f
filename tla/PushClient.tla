----------------------------- MODULE PushClient -----------------------------
(***************************************************************************)
(* The connection of the push client (internal/push/client.go): Connect,   *)
(* the Run loop with its watcher, and Close.  What a connection carries is *)
(* PushPipeline's matter; here it is open or not.                          *)
(*                                                                         *)
(* Connections are numbered as they are dialled.  A Run belongs to the     *)
(* call that started it and has that call's context.  The closed flag, the *)
(* mutex sections and the blocking calls (dial, read, sleep) are steps of  *)
(* their own: everything may happen between two of them.                   *)
(***************************************************************************)
EXTENDS Naturals, FiniteSets

CONSTANTS
    Runners,    \* calls that may start a Run
    MaxConns    \* bound on the connections dialled

ASSUME ConnAssumption == MaxConns \in Nat

VARIABLES
    conn,       \* Client.conn, or NoConn
    open,       \* connections that are still open
    dials,      \* connections dialled so far
    closed,     \* Client.closed
    swept,      \* Close has taken the connection and the handlers away
    cancelled,  \* contexts that have ended
    watch,      \* the watcher of each Run: "off", "armed" or "over"
    run,        \* where each Run is
    held,       \* the connection a Run or Connect has in its hand
    crossed     \* history: connections stored after Close had swept

connVars == <<conn, open, dials, closed, swept, cancelled, watch, run, held, crossed>>

NoConn == 0
Conns == 1..MaxConns

ConnInit ==
    /\ conn = NoConn /\ open = {} /\ dials = 0
    /\ closed = FALSE /\ swept = FALSE /\ cancelled = {}
    /\ watch = [r \in Runners |-> "off"]
    /\ run = [r \in Runners |-> "off"]
    /\ held = [r \in Runners |-> NoConn]
    /\ crossed = {}

Goto(r, pc) == run' = [run EXCEPT ![r] = pc]

\* The dialler answers with a connection, also when the context ends just then.
DialOk(r) ==
    /\ dials < MaxConns
    /\ dials' = dials + 1
    /\ open' = open \union {dials'}
    /\ held' = [held EXCEPT ![r] = dials']

setConn(c) ==
    /\ conn' = c
    /\ crossed' = IF swept THEN crossed \union {c} ELSE crossed

\* Mutant: the reference is dropped and the connection left open.
closeConnForgets(c) == conn' = NoConn /\ UNCHANGED open

closeConn(c) == conn' = NoConn /\ open' = open \ {c}

-----------------------------------------------------------------------------
(* Run                                                                     *)

Start(r) ==
    /\ Goto(r, "top")
    /\ watch' = [watch EXCEPT ![r] = "armed"]

\* The head of the loop: the closed flag, the context, the connection.
Top(r) ==
    /\ run[r] = "top"
    /\ Goto(r, IF closed \/ r \in cancelled THEN "exit"
               ELSE IF conn = NoConn THEN "dial" ELSE "read")
    /\ held' = [held EXCEPT ![r] = conn]
    /\ UNCHANGED <<conn, open, dials, closed, swept, cancelled, watch, crossed>>

\* Both dial loops; only the one after a broken connection looks at the closed
\* flag between attempts, and only that one calls the hooks.
Dialled(r) ==
    \/ /\ run[r] = "dial" /\ DialOk(r) /\ Goto(r, "store")
       /\ UNCHANGED <<conn, closed, swept, cancelled, watch, crossed>>
    \/ /\ run[r] = "redial" /\ DialOk(r) /\ Goto(r, "restore")
       /\ UNCHANGED <<conn, closed, swept, cancelled, watch, crossed>>

DialFails(r) ==
    /\ run[r] \in {"dial", "redial"}
    /\ Goto(r, IF run[r] = "dial" THEN "sleep" ELSE "resleep")
    /\ UNCHANGED <<conn, open, dials, closed, swept, cancelled, watch, held, crossed>>

\* sleepCtx wakes with the context or with its timer, never with Close.
sleepCtx(r) ==
    /\ run[r] \in {"sleep", "resleep"}
    /\ \/ r \in cancelled /\ Goto(r, "exit")
       \/ Goto(r, IF run[r] = "sleep" THEN "top" ELSE IF closed THEN "exit" ELSE "redial")
    /\ UNCHANGED <<conn, open, dials, closed, swept, cancelled, watch, held, crossed>>

Store(r) ==
    /\ run[r] \in {"store", "restore"}
    /\ setConn(held[r])
    /\ held' = [held EXCEPT ![r] = NoConn]
    /\ Goto(r, IF run[r] = "store" THEN "top" ELSE "hook")
    /\ UNCHANGED <<open, dials, closed, swept, cancelled, watch>>

\* readLoop returns when its connection is gone; Run then closes the current
\* one, whichever that is.
readLoop(r) ==
    /\ run[r] = "read"
    /\ held[r] \notin open
    /\ closeConn(conn)
    /\ Goto(r, "broken")
    /\ held' = [held EXCEPT ![r] = NoConn]
    /\ UNCHANGED <<dials, closed, swept, cancelled, watch, crossed>>

Broken(r) ==
    /\ run[r] = "broken"
    /\ Goto(r, IF closed \/ r \in cancelled THEN "exit" ELSE "redial")
    /\ UNCHANGED <<conn, open, dials, closed, swept, cancelled, watch, held, crossed>>

\* The watcher closes the connection when the context ends; it stops with
\* Close or with its Run.
Watcher(r) ==
    /\ watch[r] = "armed"
    /\ \/ r \in cancelled /\ closeConn(conn)
       \/ (closed \/ run[r] = "exit") /\ UNCHANGED <<conn, open>>
    /\ watch' = [watch EXCEPT ![r] = "over"]
    /\ UNCHANGED <<dials, closed, swept, cancelled, run, held, crossed>>

-----------------------------------------------------------------------------
(* Close, in two steps: the flag and done; then, under the mutex, the      *)
(* connection, which it closes.                                            *)

CloseFlag ==
    /\ closed' = TRUE
    /\ UNCHANGED <<conn, open, dials, swept, cancelled, watch, run, held, crossed>>

\* Mutant: the connection is left to the reader.
CloseSweepLeaves ==
    /\ swept' = TRUE
    /\ UNCHANGED <<conn, open, dials, closed, cancelled, watch, run, held, crossed>>

CloseSweep ==
    /\ swept' = TRUE
    /\ closeConn(conn)
    /\ UNCHANGED <<dials, closed, cancelled, watch, run, held, crossed>>

\* external: the network or the Gateway ends a connection.
PeerDrops(c) ==
    /\ open' = open \ {c}
    /\ UNCHANGED <<conn, dials, closed, swept, cancelled, watch, run, held, crossed>>

RunStep(r) ==
    \/ Top(r) \/ Dialled(r) \/ DialFails(r) \/ sleepCtx(r) \/ Store(r)
    \/ readLoop(r) \/ Broken(r)

=============================================================================
