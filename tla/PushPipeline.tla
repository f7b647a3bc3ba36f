---------------------------- MODULE PushPipeline ----------------------------
(***************************************************************************)
(* The way of the notifications of one type from the read loop to the      *)
(* application: dispatch (internal/push/client.go) puts them into the      *)
(* type's bounded channel, the goroutine of SubscribeTypes takes them out  *)
(* and calls the handler, whose delivery into the subscription's Updates   *)
(* channel is PushDelivery.  Both channels drop their oldest entry.        *)
(*                                                                         *)
(* Close (internal/push) takes the dispatchers out of the map and then     *)
(* stops them: a dispatch that looked its dispatcher up before still       *)
(* sends, and the goroutine, finding both its channels ready, may still    *)
(* take.  Nothing in the repository replaces the handler of a type while   *)
(* frames arrive, so one handler serves a type.                            *)
(***************************************************************************)
EXTENDS PushDelivery

CONSTANT DispatchBuffer    \* dispatchBuffer (64 in the code)

ASSUME DispatchAssumption == DispatchBuffer \in Nat \ {0}

VARIABLES
    frames,     \* notifications of the type read so far
    disp,       \* dispatcher.ch: numbers of the notifications in it
    dstep,      \* which select of dispatch comes next
    hand,       \* the notification the goroutine has taken, or 0
    frameOf,    \* the notification behind each update accepted
    handlers,   \* "listed", "swept" (out of the map) or "stopped"
    handler     \* whether the goroutine still runs

pipeVars == <<frames, disp, dstep, hand, frameOf, handlers, handler>>
allVars == <<deliveryVars, pipeVars>>

PipeInit ==
    /\ DeliveryInit
    /\ frames = 0 /\ disp = <<>> /\ dstep = "idle" /\ hand = 0
    /\ frameOf = <<>> /\ handlers = "listed" /\ handler = TRUE

-----------------------------------------------------------------------------
DispFull == Len(disp) >= DispatchBuffer

\* readLoop has decoded a push frame and dispatch finds the type's dispatcher.
dispatch ==
    /\ dstep = "idle" /\ handlers = "listed" /\ frames < MaxUpdates
    /\ frames' = frames + 1
    /\ dstep' = "send"
    /\ UNCHANGED <<deliveryVars, disp, hand, frameOf, handlers, handler>>

\* Mutant: the newest notification goes to the front.
DispatchSendFront ==
    /\ dstep = "send"
    /\ IF DispFull THEN dstep' = "evict" /\ UNCHANGED disp
       ELSE dstep' = "idle" /\ disp' = <<frames>> \o disp
    /\ UNCHANGED <<deliveryVars, frames, hand, frameOf, handlers, handler>>

DispatchSend ==
    /\ dstep = "send"
    /\ IF DispFull THEN dstep' = "evict" /\ UNCHANGED disp
       ELSE dstep' = "idle" /\ disp' = Append(disp, frames)
    /\ UNCHANGED <<deliveryVars, frames, hand, frameOf, handlers, handler>>

DispatchEvict ==
    /\ dstep = "evict"
    /\ dstep' = "resend"
    /\ disp' = IF disp = <<>> THEN disp ELSE Tail(disp)
    /\ UNCHANGED <<deliveryVars, frames, hand, frameOf, handlers, handler>>

DispatchResend ==
    /\ dstep = "resend"
    /\ dstep' = "idle"
    /\ disp' = IF DispFull THEN disp ELSE Append(disp, frames)
    /\ UNCHANGED <<deliveryVars, frames, hand, frameOf, handlers, handler>>

\* The goroutine takes the next notification once the handler has returned.
Take ==
    /\ handler /\ hand = 0 /\ step = "idle" /\ disp # <<>>
    /\ hand' = Head(disp)
    /\ disp' = Tail(disp)
    /\ UNCHANGED <<deliveryVars, frames, dstep, frameOf, handlers, handler>>

\* The handler delivers it, or finds the subscription closed.
Handle(t) ==
    /\ hand # 0
    /\ hand' = 0
    /\ \/ Deliver(t) /\ frameOf' = Append(frameOf, hand)
       \/ closed /\ UNCHANGED <<deliveryVars, frameOf>>
    /\ UNCHANGED <<frames, disp, dstep, handlers, handler>>

\* push.Client.Close: the map is emptied, then the dispatchers are stopped.
CloseHandlers ==
    /\ \/ handlers = "listed" /\ handlers' = "swept"
       \/ handlers = "swept" /\ handlers' = "stopped"
    /\ UNCHANGED <<deliveryVars, frames, disp, dstep, hand, frameOf, handler>>

HandlerStops ==
    /\ handler /\ hand = 0 /\ step = "idle" /\ handlers = "stopped"
    /\ handler' = FALSE
    /\ UNCHANGED <<deliveryVars, frames, disp, dstep, hand, frameOf, handlers>>

PipeNext ==
    \/ dispatch \/ DispatchSend \/ DispatchEvict \/ DispatchResend
    \/ Take \/ (\E t \in 0..MaxTime : Handle(t))
    \/ CloseHandlers \/ HandlerStops
    \/ (Send \/ Evict \/ Resend \/ Receive \/ Shutdown) /\ UNCHANGED pipeVars

PipeSpec == PipeInit /\ [][PipeNext]_allVars

-----------------------------------------------------------------------------
Ordered == INSTANCE OrderedDelivery WITH
    sent <- frames,
    last <- IF received = <<>> THEN 0 ELSE frameOf[received[Len(received)]]

\* The pipeline implements the promise of OrderedDelivery: through both bounded
\* channels and both evictions, and while the client or the subscription is
\* being closed, the application receives notifications in wire order and none
\* twice (dispatch, SubscribeTypes' goroutine, deliver).
DeliversInOrder == Ordered!Spec

=============================================================================
