----------------------------- MODULE PushFrames -----------------------------
(***************************************************************************)
(* The way of one push frame, from its header to the subscriptions that    *)
(* get it: the read loop of internal/push (framing, verification,          *)
(* decoding), the normalisation to a domain event, and the two routings,   *)
(* by instrument in pkg/services and by payload type in pkg/hstong/stream. *)
(*                                                                         *)
(* A frame is a record of what the code tells apart:                       *)
(*   flag, bodyLen, compress, kind, signature     the header               *)
(*   type, id, payload, code, row                 the PBNotify in its body *)
(* where payload is "nil" (no Any), "empty" (an Any without bytes),        *)
(* "garbled" (bytes protobuf refuses) or "message", and row holds the      *)
(* message's numbers as in ReplyMapping.  An instrument code is the pair   *)
(* of the text before the last dot and the text after it; blanks around it *)
(* are trimmed by every reader and left out.                               *)
(***************************************************************************)
EXTENDS ReplyMapping

Code(bare, suffix) == [bare |-> bare, suffix |-> suffix]
NoCode == Code("", "")

\* strings.ToUpper on the texts the model uses.
ToUpper(s) == CASE s = "hk" -> "HK" [] s = "tsla" -> "TSLA" [] OTHER -> s

-----------------------------------------------------------------------------
(* Framing, verification and decoding (internal/push)                      *)

MaxBodyLen == 8388608

tradeNotifyTypes == {"TrsStockDeliver", "TradeStockDeliver", "FuturesTradeStockDeliver"}
MarketTypes == {"OrderBook", "BrokerQueue", "BasicQot", "Ticker"}

\* A frame ReadFrame refuses ends the connection.
DecodeHeader(f) == f.flag = "HS"
ReadFrame(f) == DecodeHeader(f) /\ f.bodyLen \in 0..MaxBodyLen /\ f.compress = 0

\* Without a key there is no verifier, and nothing is refused.
Verify(f) == f.signature = "good"
verifyFrame(f, opts) == opts.key => Verify(f)

\* Protobuf reads no bytes as a message of zeroes, whose type is number 0.
PBNotify(f) ==
    IF f.bodyLen = 0 THEN [type |-> "TrsStockDeliver", id |-> NoCode, payload |-> "nil",
                           code |-> NoCode, row |-> NilRow]
    ELSE [type |-> f.type, id |-> f.id, payload |-> f.payload, code |-> f.code, row |-> f.row]

Undecodable == [type |-> "undecodable"]

Decode(n) ==
    IF n.type \notin tradeNotifyTypes \cup MarketTypes \/ n.payload = "garbled" THEN Undecodable
    ELSE IF n.payload = "empty"
         THEN [n EXCEPT !.payload = "message", !.code = NoCode, !.row = NilRow]
         ELSE n

decodeNotification(f) ==
    LET n == PBNotify(f) IN IF n.payload = "nil" THEN n ELSE Decode(n)

\* One turn of the loop: does the connection end, what is reported, and the
\* notifications (at most one) dispatched.
Turn(ends, errors, notes) == [ends |-> ends, errors |-> errors, notes |-> notes]

\* Mutant: a frame that does not decode is skipped without a word.
readLoopSilent(f, opts) ==
    IF ~ReadFrame(f) THEN Turn(TRUE, {}, {})
    ELSE IF f.kind # "push" THEN Turn(FALSE, {}, {})
    ELSE LET n == decodeNotification(f)
             unverified == IF verifyFrame(f, opts) THEN {} ELSE {"verification"}
         IN  IF (unverified # {} /\ opts.required) \/ n = Undecodable THEN Turn(FALSE, unverified, {})
             ELSE Turn(FALSE, unverified, {n})

readLoopTurn(f, opts) ==
    IF ~ReadFrame(f) THEN Turn(TRUE, {}, {})
    ELSE IF f.kind # "push" THEN Turn(FALSE, {}, {})
    ELSE LET n == decodeNotification(f)
             unverified == IF verifyFrame(f, opts) THEN {} ELSE {"verification"}
         IN  IF unverified # {} /\ opts.required THEN Turn(FALSE, unverified, {})
             ELSE IF n = Undecodable THEN Turn(FALSE, unverified \cup {"decode"}, {})
             ELSE Turn(FALSE, unverified, {n})

-----------------------------------------------------------------------------
(* Normalisation (internal/push decode.go, notify_normalize.go)            *)

domain_QuoteEvent ==
    Labelled("price", {"lastPrice", "openPrice", "highPrice", "lowPrice", "lastClosePrice"})
    @@ [turnover |-> "HKD"]
domain_TickerEvent == [price |-> "price", turnover |-> "HKD"]
domain_OrderBookLevel == [price |-> "price"]
domain_TradeEvent == [businessPrice |-> "price", businessAmount |-> "quantity",
                      sumBusinessBalance |-> "HKD"]

pushDecimal(s) == OrZero(s)

\* A message without its quote, or a book without levels, leaves the numbers
\* of the event unset.
decodeBasicQotEvent(n) == [event |-> "Quote", code |-> n.code, row |-> FromFloats(n.row, domain_QuoteEvent)]
decodeTickerEvent(n) == [event |-> "Ticker", code |-> n.code, row |-> FromFloats(n.row, domain_TickerEvent)]
decodeOrderBookEvent(n) ==
    [event |-> "OrderBook", code |-> n.code, row |-> FromFloats(n.row, domain_OrderBookLevel)]
decodeBrokerEvent(n) == [event |-> "Broker", code |-> n.code, row |-> NilRow]

\* A delivery's strings are fields of the message itself, "" when unset.
decodeTradeEvent(n) ==
    [event |-> "Trade", code |-> n.code,
     row |-> [f \in DOMAIN domain_TradeEvent |->
                 MustNew(pushDecimal(IF IsNil(n.row) THEN "" ELSE n.row[f]), domain_TradeEvent[f])]]

\* A SystemEvent names no instrument.
emptyPayloadEvent == [event |-> "System", code |-> NoCode, row |-> NilRow]

\* The type without a decoder has no handler either, so it does not get here.
NormalizeNotification(n) ==
    IF n.payload = "nil" THEN emptyPayloadEvent
    ELSE CASE n.type = "BasicQot" -> decodeBasicQotEvent(n)
           [] n.type = "Ticker" -> decodeTickerEvent(n)
           [] n.type = "OrderBook" -> decodeOrderBookEvent(n)
           [] n.type = "BrokerQueue" -> decodeBrokerEvent(n)
           [] OTHER -> decodeTradeEvent(n)

SecurityCode(u) == u.code

\* pkg/transport: the update the handler of pkg/services receives.
convert(n) == [type |-> n.type, id |-> n.id] @@ NormalizeNotification(n)

-----------------------------------------------------------------------------
(* Routing.  A subscription is its topic and its instruments; subs is a    *)
(* sequence of the live ones, and a routing gives the indices it serves.   *)

NotifyTypeForTopic(topic) ==
    CASE topic \in {11, 35} -> "BasicQot"
      [] topic \in {14, 27, 28, 37} -> "Ticker"
      [] topic = 16 -> "BrokerQueue"
      [] topic \in {17, 25, 26, 36} -> "OrderBook"
      [] OTHER -> "no type"

marketTopics == {11, 14, 16, 17, 25, 26, 27, 28, 35, 36, 37}
marketNotifyTypes == {NotifyTypeForTopic(t) : t \in marketTopics}

copyAndValidateSecurities(securities) == securities # {} /\ NoCode \notin securities

marketSuffixes == {"HK", "US", "SZ", "SH"}

\* Mutant: the suffix is compared before the case is folded.
normaliseRoutingKeyCased(code) ==
    IF code.bare # "" /\ code.suffix \in marketSuffixes
    THEN Code(ToUpper(code.bare), "") ELSE Code(ToUpper(code.bare), ToUpper(code.suffix))

\* A text that is nothing but the suffix keeps it.
normaliseRoutingKey(code) ==
    IF code.bare # "" /\ ToUpper(code.suffix) \in marketSuffixes
    THEN Code(ToUpper(code.bare), "") ELSE Code(ToUpper(code.bare), ToUpper(code.suffix))

securityKeys(securities) == {normaliseRoutingKey(c) : c \in securities \ {NoCode}}
updateRoutingKeys(u) == {normaliseRoutingKey(c) : c \in {u.id, SecurityCode(u)} \ {NoCode}}

\* Only the keys are compared: any payload type, any market suffix.
dispatchMarket(u, subs) ==
    {i \in DOMAIN subs : securityKeys(subs[i].securities) \cap updateRoutingKeys(u) # {}}

Routed(to, orders, unrouted) == [to |-> to, orders |-> orders, unrouted |-> unrouted]

\* A delivery goes to every live order subscription; nothing notes one that
\* finds none.
dispatchTrade(orders) == Routed({}, orders, FALSE)

\* The handlers New installs: a market update that finds no subscription is
\* counted as unrouted, and a type without a handler goes nowhere.
install(u, subs, orders) ==
    CASE u.type \in tradeNotifyTypes -> dispatchTrade(orders)
      [] u.type \in marketNotifyTypes ->
            Routed(dispatchMarket(u, subs), {}, dispatchMarket(u, subs) = {})
      [] OTHER -> Routed({}, {}, FALSE)

\* The released client serves by payload type alone, and does not normalise.
stream_acceptsType(sub, type) == NotifyTypeForTopic(sub.topic) = type
stream_deliver(n, subs) == {i \in DOMAIN subs : stream_acceptsType(subs[i], n.type)}

=============================================================================
