---------------------------- MODULE RequestWire ----------------------------
(***************************************************************************)
(* The request path as the limited endpoint sees it: an observer on the    *)
(* wire keeps the endpoint's leaky bucket, which each request fills by one *)
(* and each token's time drains by one.  The observer changes nothing: it  *)
(* says what the limiter's tokens are worth once they are requests.        *)
(***************************************************************************)
EXTENDS RequestPath

VARIABLE debt   \* requests seen and not yet drained

wireVars == <<pathVars, debt>>

Drained == IF debt > 0 THEN debt - 1 ELSE 0

WireInit == PathInit /\ debt = 0

Sent == \E c \in Callers : Transmit(c) /\ route[c] = Limited

\* Time also passes while the limiter's bucket is full.
WireNext ==
    \/ Sent /\ debt' = debt + 1
    \/ RefillEndpoint /\ debt' = Drained
    \/ PathNext /\ ~Sent /\ ~RefillEndpoint /\ UNCHANGED debt
    \/ etokens = EndpointBurst /\ debt' = Drained /\ UNCHANGED pathVars

WireSpec == WireInit /\ [][WireNext]_wireVars

\* The calls that have the endpoint's token and have not sent.
Holding == {c \in Callers : pc[c] = "send" /\ route[c] = Limited}

\* The limiter bounds tokens and not requests: calls that have their token may be
\* held up and send together (bucket.wait returns before transport.Do).  On the
\* wire the limited endpoint's requests exceed the limit's leaky bucket by no more
\* than one for each caller, whatever was held up, retried or thrown away.
WireWithinLimit == debt <= EndpointBurst + Cardinality(Callers)

=============================================================================
