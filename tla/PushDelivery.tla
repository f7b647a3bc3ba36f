---------------------------- MODULE PushDelivery ----------------------------
(***************************************************************************)
(* Subscription.deliver and OrderSubscription.deliver of                   *)
(* pkg/services/push.go: the bounded Updates channel of one subscription.  *)
(* A delivery holds sub.mu throughout, so deliveries and shutdown exclude  *)
(* one another, but the application receives from the channel without any  *)
(* lock: it may run between any two of the three non-blocking selects.     *)
(*                                                                         *)
(* Updates are numbered in the order they are accepted; times is their     *)
(* wire notifyTime, 0 standing for the zero time.                          *)
(***************************************************************************)
EXTENDS Naturals, Sequences, FiniteSets, Functions

CONSTANTS
    Buffer,      \* capacity of the Updates channel (o.buffer)
    MaxUpdates,  \* bound on the updates accepted
    MaxTime      \* wire times range over 0..MaxTime

ASSUME DeliveryAssumption ==
    Buffer \in Nat \ {0} /\ MaxUpdates \in Nat /\ MaxTime \in Nat

VARIABLES
    queue,       \* the Updates channel: numbers of buffered updates
    received,    \* numbers of the updates the application received, in order
    times,       \* wire times of the updates accepted so far
    step,        \* which select of deliver comes next
    dropped,     \* Subscription.dropped, OrderSubscription.dropped
    lastWire,    \* Subscription.lastWire
    outOfOrder,  \* Subscription.outOfOrder
    backlogged,  \* OrderSubscription.backlogRaised
    closed       \* Subscription.closed

deliveryVars == <<queue, received, times, step, dropped, lastWire, outOfOrder, backlogged, closed>>

Accepted == Len(times)
Current == Accepted

Full == Len(queue) >= Buffer

DeliveryInit ==
    /\ queue = <<>> /\ received = <<>> /\ times = <<>>
    /\ step = "idle"
    /\ dropped = 0 /\ lastWire = 0 /\ outOfOrder = 0
    /\ backlogged = FALSE /\ closed = FALSE

-----------------------------------------------------------------------------
\* Mutant: an older frame moves lastWire back.
StampAlways(t) ==
    /\ outOfOrder' = IF t # 0 /\ t < lastWire THEN outOfOrder + 1 ELSE outOfOrder
    /\ lastWire' = IF t # 0 THEN t ELSE lastWire

\* The out-of-order test: an older frame counts and leaves lastWire alone.
Stamp(t) ==
    LET older == t # 0 /\ lastWire # 0 /\ t < lastWire IN
    /\ outOfOrder' = IF older THEN outOfOrder + 1 ELSE outOfOrder
    /\ lastWire' = IF t = 0 \/ older THEN lastWire ELSE t

\* A delivery that finds the subscription closed returns: no step.
Deliver(t) ==
    /\ step = "idle"
    /\ ~closed
    /\ Accepted < MaxUpdates
    /\ times' = Append(times, t)
    /\ Stamp(t)
    /\ step' = "send"
    /\ UNCHANGED <<queue, received, dropped, backlogged, closed>>

Send ==
    /\ step = "send"
    /\ \/ ~Full /\ queue' = Append(queue, Current) /\ step' = "idle"
       \/ Full /\ step' = "evict" /\ UNCHANGED queue
    /\ UNCHANGED <<received, times, dropped, lastWire, outOfOrder, backlogged, closed>>

Evict ==
    /\ step = "evict"
    /\ queue' = IF queue = <<>> THEN queue ELSE Tail(queue)
    /\ step' = "resend"
    /\ UNCHANGED <<received, times, dropped, lastWire, outOfOrder, backlogged, closed>>

\* Mutant: room is made but the newest update is not sent.
ResendForgotten ==
    /\ step = "resend"
    /\ dropped' = dropped + 1
    /\ backlogged' = TRUE
    /\ step' = "idle"
    /\ UNCHANGED <<queue, received, times, lastWire, outOfOrder, closed>>

\* Mutant: the drop is counted only when the second send fails as well.
ResendCountsFailures ==
    /\ step = "resend"
    /\ queue' = IF Full THEN queue ELSE Append(queue, Current)
    /\ dropped' = IF Full THEN dropped + 1 ELSE dropped
    /\ backlogged' = TRUE
    /\ step' = "idle"
    /\ UNCHANGED <<received, times, lastWire, outOfOrder, closed>>

\* The last select, the count, and (for orders) ErrTradeBacklog the first time.
Resend ==
    /\ step = "resend"
    /\ queue' = IF Full THEN queue ELSE Append(queue, Current)
    /\ dropped' = dropped + 1
    /\ backlogged' = TRUE
    /\ step' = "idle"
    /\ UNCHANGED <<received, times, lastWire, outOfOrder, closed>>

\* external: the application receives; a closed channel can still be drained.
Receive ==
    /\ queue # <<>>
    /\ received' = Append(received, Head(queue))
    /\ queue' = Tail(queue)
    /\ UNCHANGED <<times, step, dropped, lastWire, outOfOrder, backlogged, closed>>

Shutdown ==
    /\ step = "idle"
    /\ ~closed
    /\ closed' = TRUE
    /\ UNCHANGED <<queue, received, times, step, dropped, lastWire, outOfOrder, backlogged>>

-----------------------------------------------------------------------------
Reached == Range(received) \cup Range(queue)
Lost == (1..Accepted) \ Reached

\* No silent loss: the updates that neither reached the application nor wait for
\* it are covered by Dropped, and an overflow was raised (deliver).
LossIsCounted ==
    step = "idle" => /\ Cardinality(Lost) <= dropped
                     /\ Lost # {} => backlogged

\* The newest update accepted is always the one kept: the second send finds room
\* although the application reads in between, because sub.mu keeps other
\* deliveries out.
NewestSurvives == step = "idle" /\ Accepted > 0 => Accepted \in Reached

\* OutOfOrder counts exactly the frames stamped earlier than some frame accepted
\* before them, although deliver compares with the one value lastWire.
OutOfOrderIsExact ==
    outOfOrder = Cardinality({i \in 1..Accepted :
        times[i] # 0 /\ \E j \in 1..i-1 : times[j] > times[i]})

=============================================================================
