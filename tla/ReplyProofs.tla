----------------------------- MODULE ReplyProofs ------------------------------
(***************************************************************************)
(* Proofs about the frames and the replies RequestAudit audits: where a    *)
(* frame ends up, and what becomes of the numbers in it.  The facts about  *)
(* the operators hold for every frame, reply and list of subscriptions,    *)
(* not only for those of the audit.                                        *)
(***************************************************************************)
EXTENDS RequestAudit, TLAPS

\* A leaf that names no prover goes to Zenon; arithmetic goes to SMT.
USE ZenonT(20)

-----------------------------------------------------------------------------
(* Frames.                                                                 *)

\* Every market type has a topic, hence a handler, and no other type has.
LEMMA HandledTypes == marketNotifyTypes = MarketTypes
<1>1. /\ \A t \in {11, 35} : NotifyTypeForTopic(t) = "BasicQot"
      /\ \A t \in {14, 27, 28, 37} : NotifyTypeForTopic(t) = "Ticker"
      /\ NotifyTypeForTopic(16) = "BrokerQueue"
      /\ \A t \in {17, 25, 26, 36} : NotifyTypeForTopic(t) = "OrderBook"
  BY SMT DEF NotifyTypeForTopic
<1> QED BY SMT, <1>1 DEF marketNotifyTypes, marketTopics, MarketTypes

\* What a turn of the read loop reports and dispatches: a push frame that was
\* read is reported or is the one notification, and an unverified one is
\* dispatched only with a report, and only when that is not required.
LEMMA TurnOutcome ==
    ASSUME NEW f, NEW opts, NEW turn, turn = readLoopTurn(f, opts)
    PROVE  /\ f.kind = "push" /\ ~turn.ends
                => turn.errors # {} \/ turn.notes = {decodeNotification(f)}
           /\ \A n \in turn.notes :
                 /\ n = decodeNotification(f) /\ n # Undecodable
                 /\ opts.key /\ f.signature # "good"
                      => "verification" \in turn.errors /\ ~opts.required
<1> DEFINE unverified == IF verifyFrame(f, opts) THEN {} ELSE {"verification"}
<1>1. CASE ~ReadFrame(f)
  <2>1. turn = Turn(TRUE, {}, {})
    BY <1>1 DEF readLoopTurn
  <2>2. turn.ends = TRUE /\ turn.notes = {}
    BY SMT, <2>1 DEF Turn
  <2> QED BY <2>2
<1>2. CASE ReadFrame(f) /\ f.kind # "push"
  <2>1. turn = Turn(FALSE, {}, {})
    BY <1>2 DEF readLoopTurn
  <2>2. turn.notes = {}
    BY SMT, <2>1 DEF Turn
  <2> QED BY <1>2, <2>2
<1>3. CASE ReadFrame(f) /\ f.kind = "push"
  <2>1. CASE unverified # {} /\ opts.required
    <3>1. turn = Turn(FALSE, unverified, {})
      BY <1>3, <2>1 DEF readLoopTurn
    <3>2. turn.errors = unverified /\ turn.notes = {}
      BY SMT, <3>1 DEF Turn
    <3> QED BY <2>1, <3>2
  <2>2. CASE ~(unverified # {} /\ opts.required) /\ decodeNotification(f) = Undecodable
    <3>1. turn = Turn(FALSE, unverified \cup {"decode"}, {})
      BY <1>3, <2>2 DEF readLoopTurn
    <3>2. turn.errors = unverified \cup {"decode"} /\ turn.notes = {}
      BY SMT, <3>1 DEF Turn
    <3> QED BY <3>2
  <2>3. CASE ~(unverified # {} /\ opts.required) /\ decodeNotification(f) # Undecodable
    <3>1. turn = Turn(FALSE, unverified, {decodeNotification(f)})
      BY <1>3, <2>3 DEF readLoopTurn
    <3>2. turn.errors = unverified /\ turn.notes = {decodeNotification(f)}
      BY SMT, <3>1 DEF Turn
    <3>3. opts.key /\ f.signature # "good" => "verification" \in unverified /\ ~opts.required
      BY <2>3 DEF verifyFrame, Verify
    <3> QED BY <2>3, <3>2, <3>3
  <2> QED BY <2>1, <2>2, <2>3
<1> QED BY <1>1, <1>2, <1>3

\* The notification of a frame that decodes: the trade one of zeroes for an
\* empty body, the frame's own otherwise; only a known type carries a message.
LEMMA NotificationOf ==
    ASSUME NEW f, f.payload \in {"nil", "empty", "garbled", "message"},
           NEW n, n = decodeNotification(f), n # Undecodable
    PROVE  /\ f.bodyLen = 0 => n.type = "TrsStockDeliver"
           /\ f.bodyLen # 0 =>
                /\ n.type = f.type /\ n.id = f.id
                /\ \/ f.payload = "nil" /\ n.payload = "nil"
                   \/ /\ f.type \in tradeNotifyTypes \cup MarketTypes
                      /\ n.payload = "message"
                      /\ n.code = IF f.payload = "message" THEN f.code ELSE NoCode
<1>1. CASE f.bodyLen = 0
  BY SMTT(30), <1>1 DEF decodeNotification, PBNotify
<1>2. CASE f.bodyLen # 0 /\ f.payload = "nil"
  BY SMT, <1>2 DEF decodeNotification, PBNotify
<1>3. CASE f.bodyLen # 0 /\ f.payload # "nil"
  <2> DEFINE m == [type |-> f.type, id |-> f.id, payload |-> f.payload, code |-> f.code, row |-> f.row]
  <2>1. n = Decode(m)
    BY SMT, <1>3 DEF decodeNotification, PBNotify
  <2>2. f.type \in tradeNotifyTypes \cup MarketTypes /\ f.payload # "garbled"
    BY SMT, <2>1 DEF Decode
  <2>3. CASE f.payload = "empty"
    <3>1. n = [m EXCEPT !.payload = "message", !.code = NoCode, !.row = NilRow]
      BY SMTT(30), <2>1, <2>2, <2>3 DEF Decode
    <3> QED BY SMTT(30), <1>3, <2>2, <2>3, <3>1
  <2>4. CASE f.payload = "message"
    BY SMTT(30), <1>3, <2>1, <2>2, <2>4 DEF Decode
  <2> QED BY <1>3, <2>2, <2>3, <2>4
<1> QED BY <1>1, <1>2, <1>3

\* The update a handler gets names what the notification names; one without
\* a payload names no instrument beyond its id.
LEMMA ConvertedUpdate ==
    ASSUME NEW n, NEW u, u = convert(n)
    PROVE  /\ u.type = n.type /\ u.id = n.id
           /\ u.code = IF n.payload = "nil" THEN NoCode ELSE n.code
<1> DEFINE named == IF n.payload = "nil" THEN NoCode ELSE n.code
<1>1. PICK e : e = NormalizeNotification(n)
  OBVIOUS
<1>2. \/ e = emptyPayloadEvent /\ n.payload = "nil"
      \/ /\ n.payload # "nil"
         /\ e \in {decodeBasicQotEvent(n), decodeTickerEvent(n), decodeOrderBookEvent(n),
                   decodeBrokerEvent(n), decodeTradeEvent(n)}
  BY <1>1 DEF NormalizeNotification
<1>3. \A ev, c, r : LET d == [event |-> ev, code |-> c, row |-> r]
                    IN  "code" \in DOMAIN d /\ d.code = c
  BY SMT
<1>4. \A d \in {decodeBasicQotEvent(n), decodeTickerEvent(n), decodeOrderBookEvent(n),
                decodeBrokerEvent(n), decodeTradeEvent(n)} : "code" \in DOMAIN d /\ d.code = n.code
  <2>1. \A ev, r : LET d == [event |-> ev, code |-> n.code, row |-> r]
                   IN  "code" \in DOMAIN d /\ d.code = n.code
    BY <1>3
  <2>2. "code" \in DOMAIN decodeTradeEvent(n) /\ decodeTradeEvent(n).code = n.code
    BY <2>1 DEF decodeTradeEvent
  <2>3. \A d \in {decodeBasicQotEvent(n), decodeTickerEvent(n), decodeOrderBookEvent(n),
                  decodeBrokerEvent(n)} : "code" \in DOMAIN d /\ d.code = n.code
    BY <2>1 DEF decodeBasicQotEvent, decodeTickerEvent, decodeOrderBookEvent, decodeBrokerEvent
  <2> QED BY <2>2, <2>3
<1>5. "code" \in DOMAIN emptyPayloadEvent /\ emptyPayloadEvent.code = NoCode
  BY <1>3 DEF emptyPayloadEvent
<1>6. "code" \in DOMAIN e /\ e.code = named
  BY <1>2, <1>4, <1>5
<1> QED BY SMT, <1>1, <1>6 DEF convert, @@

\* Where an update goes: a delivery to every live order subscription, a market
\* update to whoever listed a key of it, or it is counted as unrouted.
LEMMA InstalledRoute ==
    ASSUME NEW u, NEW subs, NEW orders, NEW to, to = install(u, subs, orders)
    PROVE  /\ u.type \in tradeNotifyTypes => to.orders = orders
           /\ u.type \in MarketTypes =>
                to.to = dispatchMarket(u, subs) /\ (to.to = {} => to.unrouted)
<1>1. ASSUME u.type \in tradeNotifyTypes PROVE to.orders = orders
  <2>1. to = Routed({}, orders, FALSE)
    BY <1>1, HandledTypes DEF install, dispatchTrade, tradeNotifyTypes, MarketTypes
  <2> QED BY SMTT(30), <2>1 DEF Routed
<1>2. ASSUME u.type \in MarketTypes
      PROVE  to.to = dispatchMarket(u, subs) /\ (to.to = {} => to.unrouted)
  <2>1. PICK served : served = dispatchMarket(u, subs)
    OBVIOUS
  <2>2. to = Routed(dispatchMarket(u, subs), {}, dispatchMarket(u, subs) = {})
    BY <1>2, HandledTypes DEF install, tradeNotifyTypes, MarketTypes
  <2>3. to.to = served /\ to.unrouted = (served = {})
    BY SMTT(30), <2>1, <2>2 DEF Routed
  <2> QED BY <2>1, <2>3
<1> QED BY <1>1, <1>2

\* For every frame, verification setting, list of market subscriptions and set
\* of order subscriptions, and not only those of the audit, the frame is
\* delivered, counted or reported, or is of one of the two kinds that are lost.
THEOREM FrameIsAccountedFor ==
    ASSUME NEW f, f.type \in NotifyTypes, f.payload \in {"nil", "empty", "garbled", "message"},
           NEW opts, NEW subs, NEW orders
    PROVE  /\ \A n \in Handled(readLoopTurn(f, opts)) :
                AccountedFor(Fate(f, opts, subs, orders, install(convert(n), subs, orders),
                                  stream_deliver(n, subs)))
           /\ Handled(readLoopTurn(f, opts)) = {}
                => AccountedFor(Fate(f, opts, subs, orders, Routed({}, {}, FALSE), {}))
<1>1. PICK turn : turn = readLoopTurn(f, opts)
  OBVIOUS
<1>2. ASSUME NEW n \in Handled(turn), NEW p,
             p = Fate(f, opts, subs, orders, install(convert(n), subs, orders),
                      stream_deliver(n, subs))
      PROVE  AccountedFor(p)
  <2>1. n \in turn.notes /\ n.type \in MarketTypes \cup tradeNotifyTypes
    BY <1>2, HandledTypes DEF Handled
  <2>2. PICK u : u = convert(n)
    OBVIOUS
  <2>3. PICK to : to = install(u, subs, orders)
    OBVIOUS
  <2>4. p.frame = f /\ p.opts = opts /\ p.orders = orders /\ p.turn = turn /\ p.vnext = to
    BY SMTT(30), <1>1, <1>2, <2>2, <2>3 DEF Fate
  <2>5. u.type = n.type
    BY <2>2, ConvertedUpdate
  <2>6. \/ to.to \cup to.orders # {} \/ to.unrouted
        \/ (\E m \in turn.notes : m.type \in tradeNotifyTypes) /\ orders = {}
    <3>1. CASE n.type \in MarketTypes
      <4>1. to.to = {} => to.unrouted
        BY <2>3, <2>5, <3>1, InstalledRoute
      <4> QED BY <4>1
    <3>2. CASE n.type \in tradeNotifyTypes
      <4>1. u.type \in tradeNotifyTypes
        BY <2>5, <3>2
      <4>2. to.orders = orders
        BY ONLY <2>3, <4>1, InstalledRoute
      <4> QED BY <2>1, <3>2, <4>2
    <3> QED BY <2>1, <3>1, <3>2
  <2>7. opts.key /\ f.signature # "good" => "verification" \in turn.errors /\ ~opts.required
    BY <1>1, <2>1, TurnOutcome
  <2> QED BY <2>4, <2>6, <2>7 DEF AccountedFor
<1>3. ASSUME Handled(turn) = {}, NEW p, p = Fate(f, opts, subs, orders, Routed({}, {}, FALSE), {})
      PROVE  AccountedFor(p)
  <2>1. p.frame = f /\ p.turn = turn /\ p.vnext = Routed({}, {}, FALSE)
    BY SMT, <1>1, <1>3 DEF Fate
  <2>2. p.vnext.to = {} /\ p.vnext.orders = {}
    BY SMT, <2>1 DEF Routed
  <2>3. ASSUME f.kind = "push", ~turn.ends, turn.errors = {}
        PROVE  f.type = "other" /\ f.payload = "nil"
    <3>1. PICK n : n = decodeNotification(f)
      OBVIOUS
    <3>2. turn.notes = {n}
      BY <1>1, <2>3, <3>1, TurnOutcome
    <3>3. n # Undecodable
      BY <1>1, <3>2, TurnOutcome
    <3>4. n.type \notin MarketTypes \cup tradeNotifyTypes
      BY <1>3, <3>2, HandledTypes DEF Handled
    <3>5. f.bodyLen # 0
      BY SMTT(30), <3>1, <3>3, <3>4, NotificationOf DEF tradeNotifyTypes
    <3>6. n.type = f.type /\ f.payload = "nil"
      BY SMTT(30), <3>1, <3>3, <3>4, <3>5, NotificationOf
    <3> QED BY <3>4, <3>6 DEF NotifyTypes
  <2> QED BY <2>1, <2>2, <2>3 DEF AccountedFor
<1> QED BY <1>1, <1>2, <1>3

\* A code that names one of the markets the routing knows, or none.
KnownMarket(c) == c.suffix = "" \/ ToUpper(c.suffix) \in marketSuffixes

\* Two spellings of one instrument have one routing key, and codes that share
\* a key have the same letters.
LEMMA RoutingKeys ==
    ASSUME NEW a, NEW b
    PROVE  /\ KnownMarket(a) /\ KnownMarket(b) /\ SameInstrument(a, b)
                => normaliseRoutingKey(a) = normaliseRoutingKey(b)
           /\ normaliseRoutingKey(a) = normaliseRoutingKey(b) => SameLetters(a, b)
<1>1. ToUpper("") = "" /\ \A s : ToUpper(s) = "" => s = ""
  BY DEF ToUpper
<1>2. ASSUME KnownMarket(a), KnownMarket(b), SameInstrument(a, b)
      PROVE  normaliseRoutingKey(a) = normaliseRoutingKey(b)
  <2>1. a.bare = "" <=> b.bare = ""
    BY <1>1, <1>2 DEF SameInstrument
  <2>2. CASE ToUpper(a.suffix) = ToUpper(b.suffix)
    BY <1>2, <2>1, <2>2 DEF SameInstrument, normaliseRoutingKey
  <2>3. CASE a.bare # "" /\ "" \in {a.suffix, b.suffix}
    <3>1. \A c : KnownMarket(c) /\ c.bare # "" => normaliseRoutingKey(c) = Code(ToUpper(c.bare), "")
      BY <1>1 DEF KnownMarket, normaliseRoutingKey
    <3> QED BY <1>2, <2>1, <2>3, <3>1 DEF SameInstrument
  <2> QED BY <1>2, <2>2, <2>3 DEF SameInstrument
<1>3. ASSUME normaliseRoutingKey(a) = normaliseRoutingKey(b)
      PROVE  SameLetters(a, b)
  <2>1. \A c : \E s : normaliseRoutingKey(c) = Code(ToUpper(c.bare), s)
    BY DEF normaliseRoutingKey
  <2>2. \A x, y, v, w : Code(x, v) = Code(y, w) => x = y
    BY SMT DEF Code
  <2>3. PICK v, w : Code(ToUpper(a.bare), v) = Code(ToUpper(b.bare), w)
    BY <1>3, <2>1
  <2> QED BY <2>2, <2>3 DEF SameLetters
<1> QED BY <1>2, <1>3

\* For every market frame, verification setting and list of validated
\* subscriptions: the update reaches those who asked for its instrument.
THEOREM FrameReachesWhoAsked ==
    ASSUME NEW f, f.payload \in {"nil", "empty", "garbled", "message"},
           f.type \in MarketTypes, f.bodyLen # 0,
           \A c \in Names(f) : KnownMarket(c),
           NEW opts, NEW orders, NEW subs,
           \A i \in DOMAIN subs : /\ copyAndValidateSecurities(subs[i].securities)
                                  /\ \A c \in subs[i].securities : KnownMarket(c),
           NEW n \in readLoopTurn(f, opts).notes
    PROVE  ServesWhoAsked(Fate(f, opts, subs, orders, install(convert(n), subs, orders),
                               stream_deliver(n, subs)))
<1>1. PICK turn : turn = readLoopTurn(f, opts)
  OBVIOUS
<1>2. n = decodeNotification(f) /\ n # Undecodable
  BY <1>1, TurnOutcome
<1>3. /\ n.type = f.type /\ n.id = f.id
      /\ \/ f.payload = "nil" /\ n.payload = "nil"
         \/ n.payload = "message" /\ n.code = IF f.payload = "message" THEN f.code ELSE NoCode
  BY SMT, <1>2, NotificationOf
<1>4. PICK u : u = convert(n)
  OBVIOUS
<1>5. /\ u.type = f.type /\ u.id = f.id
      /\ u.code = IF f.payload = "message" THEN f.code ELSE NoCode
  BY SMTT(30), <1>3, <1>4, ConvertedUpdate
<1>6. {u.id, SecurityCode(u)} \ {NoCode} = Names(f)
  BY <1>5 DEF Names, SecurityCode
<1>7. PICK to : to = install(u, subs, orders)
  OBVIOUS
<1>8. u.type \in MarketTypes
  BY <1>5
<1>9. to.to = dispatchMarket(u, subs)
  BY <1>7, <1>8, InstalledRoute
<1>10. SUFFICES ASSUME NEW p, p = Fate(f, opts, subs, orders, to, stream_deliver(n, subs))
                PROVE  ServesWhoAsked(p)
  BY <1>4, <1>7
<1>11. p.frame = f /\ p.subs = subs /\ p.vnext = to /\ p.released = stream_deliver(n, subs)
  BY SMT, <1>10 DEF Fate
<1>12. SUFFICES ASSUME NEW i \in DOMAIN subs
                PROVE  /\ Asked(p, i, SameInstrument) => i \in to.to
                       /\ i \in to.to => Asked(p, i, SameLetters)
                       /\ i \in to.to /\ NotifyTypeForTopic(subs[i].topic) = f.type
                             => i \in stream_deliver(n, subs)
  BY <1>11 DEF ServesWhoAsked
<1>13. NoCode \notin subs[i].securities
  BY DEF copyAndValidateSecurities
<1>14. i \in to.to <=> \E a \in subs[i].securities, b \in Names(f) :
                           normaliseRoutingKey(a) = normaliseRoutingKey(b)
  BY ZenonT(60), <1>6, <1>9, <1>13 DEF dispatchMarket, securityKeys, updateRoutingKeys
<1>15. ASSUME Asked(p, i, SameInstrument) PROVE i \in to.to
  <2>1. PICK a \in subs[i].securities, b \in Names(f) : SameInstrument(a, b)
    BY <1>11, <1>15 DEF Asked
  <2>2. KnownMarket(a) /\ KnownMarket(b)
    OBVIOUS
  <2>3. normaliseRoutingKey(a) = normaliseRoutingKey(b)
    BY <2>1, <2>2, RoutingKeys
  <2> QED BY <1>14, <2>3
<1>16. ASSUME i \in to.to PROVE Asked(p, i, SameLetters)
  <2>1. PICK a \in subs[i].securities, b \in Names(f) :
            normaliseRoutingKey(a) = normaliseRoutingKey(b)
    BY <1>14, <1>16
  <2>2. SameLetters(a, b)
    BY <2>1, RoutingKeys
  <2> QED BY <1>11, <2>2 DEF Asked
<1>17. ASSUME NotifyTypeForTopic(subs[i].topic) = f.type PROVE i \in stream_deliver(n, subs)
  BY <1>3, <1>17 DEF stream_deliver, stream_acceptsType
<1> QED BY <1>15, <1>16, <1>17

\* The frames of the audit are frames the two theorems speak of.
AuditFrame(f) ==
    /\ f.type \in NotifyTypes
    /\ f.payload \in {"nil", "empty", "garbled", "message"}
    /\ \A c \in {f.id, f.code} : KnownMarket(c)

\* The codes, frames and subscriptions of the audit are of that kind.
LEMMA AuditCodes == \A c \in Codes \cup {NoCode} : KnownMarket(c)
<1>1. \A b, x : Code(b, x).suffix = x
  BY SMT DEF Code
<1>2. \A x \in {"HK", "hk", "SZ", "US"} : ToUpper(x) \in marketSuffixes
  BY DEF ToUpper, marketSuffixes
<1>3. \A b : \A x \in {"", "HK", "hk", "SZ", "US"} : KnownMarket(Code(b, x))
  BY <1>1, <1>2 DEF KnownMarket
<1> QED BY <1>3 DEF Codes, NoCode

\* Every frame the audit sends (readLoop) is an AuditFrame.
LEMMA AuditFrames ==
    \A f \in InstrumentFrames \cup TypeFrames \cup NumberFrames \cup HeaderFrames : AuditFrame(f)
<1>1. \A c \in Codes \cup {NoCode} : KnownMarket(c)
  BY AuditCodes
<1>2. BaseFrame.id \in Codes /\ BaseFrame.code \in Codes
  BY SMT DEF BaseFrame, Codes, Code
<1>3. \A f \in InstrumentFrames : AuditFrame(f)
  <2> SUFFICES ASSUME NEW t \in {"BasicQot", "Ticker"}, NEW i \in Codes \cup {NoCode},
                      NEW c \in Codes \cup {NoCode}, NEW f,
                      f = InstrumentFrame(t, i, c)
               PROVE  AuditFrame(f)
    BY SMT DEF InstrumentFrames
  <2>1. f.type = t /\ f.id = i /\ f.code = c /\ f.payload = "message"
    BY SMT DEF InstrumentFrame, BaseFrame
  <2> QED BY <1>1, <2>1 DEF AuditFrame, NotifyTypes, MarketTypes
<1>4. \A f \in TypeFrames : AuditFrame(f) /\ DOMAIN f = DOMAIN BaseFrame
  <2> SUFFICES ASSUME NEW t \in NotifyTypes, NEW q \in {"nil", "empty", "garbled", "message"}, NEW f,
                      f = TypeFrame(t, q)
               PROVE  AuditFrame(f) /\ DOMAIN f = DOMAIN BaseFrame
    BY SMT DEF TypeFrames
  <2>1. /\ f.type = t /\ f.id = BaseFrame.id /\ f.code = BaseFrame.code /\ f.payload = q
        /\ DOMAIN f = DOMAIN BaseFrame
    BY SMT DEF TypeFrame, BaseFrame
  <2> QED BY <1>1, <1>2, <2>1 DEF AuditFrame
<1>5. \A f \in NumberFrames : AuditFrame(f)
  <2> SUFFICES ASSUME NEW t \in NotifyTypes, NEW v, NEW f,
                      f = NumberFrame(t, v)
               PROVE  AuditFrame(f)
    BY SMT DEF NumberFrames
  <2>1. f.type = t /\ f.id = BaseFrame.id /\ f.code = BaseFrame.code /\ f.payload = "message"
    BY SMT DEF NumberFrame, BaseFrame
  <2> QED BY <1>1, <1>2, <2>1 DEF AuditFrame
<1>6. \A f \in HeaderFrames : AuditFrame(f)
  <2> SUFFICES ASSUME NEW g \in TypeFrames, NEW f,
                      f \in {[g EXCEPT !.flag = "XX"], [g EXCEPT !.compress = 1]}
                           \cup {[g EXCEPT !.bodyLen = n] : n \in {-1, 0, MaxBodyLen, MaxBodyLen + 1}}
                           \cup {[g EXCEPT !.kind = k] : k \in {"heartbeat", "request", "response", "other"}}
                           \cup {[g EXCEPT !.signature = x] : x \in {"none", "bad"}}
               PROVE  AuditFrame(f)
    BY DEF HeaderFrames
  <2>1. \E x : \/ f = [g EXCEPT !.flag = x] \/ f = [g EXCEPT !.compress = x]
                \/ f = [g EXCEPT !.bodyLen = x] \/ f = [g EXCEPT !.kind = x]
                \/ f = [g EXCEPT !.signature = x]
    OBVIOUS
  <2>2. f.type = g.type /\ f.id = g.id /\ f.code = g.code /\ f.payload = g.payload
    BY SMTT(30), <1>4, <2>1 DEF BaseFrame
  <2> QED BY <1>4, <2>2 DEF AuditFrame
<1> QED BY <1>3, <1>4, <1>5, <1>6

\* Every subscription of the audit is one Subscribe accepts, in known markets.
LEMMA AuditSubscriptions ==
    ASSUME NEW s1, NEW s2, NEW subs, subs = <<s1, s2>>,
           (s1 \in Subscriptions /\ s2 \in Subscriptions) \/ subs = BaseSubscriptions
    PROVE  \A i \in DOMAIN subs : /\ copyAndValidateSecurities(subs[i].securities)
                                  /\ \A c \in subs[i].securities : KnownMarket(c)
<1> DEFINE Valid(s) == copyAndValidateSecurities(s.securities) /\ \A c \in s.securities : KnownMarket(c)
<1>1. \A c \in Codes \cup {NoCode} : KnownMarket(c)
  BY AuditCodes
<1>2. ASSUME NEW s \in Subscriptions PROVE Valid(s)
  <2>1. PICK t \in {11, 14}, u \in Watched : s = Subscription(t, u)
    BY SMT, <1>2 DEF Subscriptions
  <2>2. s.securities = u
    BY SMT, <2>1 DEF Subscription
  <2>3. copyAndValidateSecurities(u) /\ u \subseteq Codes \cup {NoCode}
    BY <2>1 DEF Watched, Codes
  <2> QED BY <1>1, <2>2, <2>3
<1>3. ASSUME subs = BaseSubscriptions PROVE Valid(s1) /\ Valid(s2)
  <2>1. s1.securities = {Code("700", "HK")} /\ s2.securities = {Code("TSLA", "US")}
    BY SMTT(30), <1>3 DEF BaseSubscriptions, Subscription
  <2>2. \A x, y, v, w : Code(x, v) = Code(y, w) => v = w
    BY SMT DEF Code
  <2>3. Code("700", "HK") # NoCode /\ Code("TSLA", "US") # NoCode
    BY <2>2 DEF NoCode
  <2> QED BY <1>1, <2>1, <2>3 DEF copyAndValidateSecurities, Codes
<1>4. Valid(s1) /\ Valid(s2)
  BY <1>2, <1>3
<1>5. \A i \in DOMAIN subs : subs[i] = s1 \/ subs[i] = s2
  BY SMT
<1> QED BY <1>4, <1>5

\* Receiving one of these frames under validated subscriptions leaves a fate
\* with both properties.
LEMMA ReceiveKeepsFates ==
    ASSUME NEW f, AuditFrame(f), NEW opts, NEW orders, NEW subs,
           \A i \in DOMAIN subs : /\ copyAndValidateSecurities(subs[i].securities)
                                  /\ \A c \in subs[i].securities : KnownMarket(c),
           Receive(f, opts, subs, orders)
    PROVE  EveryFrameIsAccountedFor' /\ ReachesWhoAsked'
<1>1. AccountedFor(push)'
  <2>1. /\ \A n \in Handled(readLoopTurn(f, opts)) :
              AccountedFor(Fate(f, opts, subs, orders, install(convert(n), subs, orders),
                                stream_deliver(n, subs)))
        /\ Handled(readLoopTurn(f, opts)) = {}
              => AccountedFor(Fate(f, opts, subs, orders, Routed({}, {}, FALSE), {}))
    BY FrameIsAccountedFor DEF AuditFrame
  <2>2. PICK p : p = push' /\ AccountedFor(p)
    BY <2>1 DEF Receive
  <2> QED BY <2>2 DEF AccountedFor
<1>2. ASSUME (push.turn.notes # {} /\ push.frame.bodyLen # 0 /\ push.frame.type \in MarketTypes)'
      PROVE  ServesWhoAsked(push)'
  <2>1. /\ push'.turn = readLoopTurn(f, opts)
        /\ f.bodyLen # 0 /\ f.type \in MarketTypes
    <3>1. PICK routed, served : push' = Fate(f, opts, subs, orders, routed, served)
      BY DEF Receive
    <3>2. push'.frame = f /\ push'.turn = readLoopTurn(f, opts)
      BY SMT, <3>1 DEF Fate
    <3> QED BY <1>2, <3>2
  <2>2. PICK n : n \in readLoopTurn(f, opts).notes
    BY <1>2, <2>1
  <2>3. n.type \in MarketTypes
    <3>1. PICK turn : turn = readLoopTurn(f, opts)
      OBVIOUS
    <3>2. n = decodeNotification(f) /\ n # Undecodable
      BY <2>2, <3>1, TurnOutcome
    <3>3. n.type = f.type
      BY SMTT(30), <2>1, <3>2, NotificationOf DEF AuditFrame
    <3> QED BY <2>1, <3>3
  <2>4. n \in Handled(readLoopTurn(f, opts))
    BY <2>2, <2>3, HandledTypes DEF Handled
  <2>5. PICK m \in Handled(readLoopTurn(f, opts)) :
            push' = Fate(f, opts, subs, orders, install(convert(m), subs, orders),
                         stream_deliver(m, subs))
    BY <2>4 DEF Receive
  <2>6. m \in readLoopTurn(f, opts).notes
    BY <2>5 DEF Handled
  <2>7. \A c \in Names(f) : KnownMarket(c)
    BY DEF Names, AuditFrame
  <2>8. f.payload \in {"nil", "empty", "garbled", "message"}
    BY DEF AuditFrame
  <2>9. ServesWhoAsked(Fate(f, opts, subs, orders, install(convert(m), subs, orders),
                            stream_deliver(m, subs)))
    BY SMTT(30), <2>1, <2>6, <2>7, <2>8, FrameReachesWhoAsked
  <2> QED BY <2>5, <2>9 DEF ServesWhoAsked, Asked
<1> QED BY <1>1, <1>2 DEF EveryFrameIsAccountedFor, ReachesWhoAsked

\* The read loop and the routing (readLoop, dispatchMarket, dispatchTrade) lose
\* no push frame but the two kinds AccountedFor names, deliver none that failed
\* a required verification, and a market update reaches whoever asked for its
\* instrument.
THEOREM Fates == Spec => [](EveryFrameIsAccountedFor /\ ReachesWhoAsked)
<1> DEFINE Inv == EveryFrameIsAccountedFor /\ ReachesWhoAsked
<1>1. Init => Inv
  BY DEF Init, EveryFrameIsAccountedFor, ReachesWhoAsked
<1>2. Inv /\ [Next]_vars => Inv'
  <2> SUFFICES ASSUME Inv, [Next]_vars PROVE Inv'
    OBVIOUS
  <2>1. CASE phase' # "pushed"
    BY <2>1 DEF EveryFrameIsAccountedFor, ReachesWhoAsked
  <2>2. CASE UNCHANGED vars
    BY <2>2 DEF vars, EveryFrameIsAccountedFor, ReachesWhoAsked
  <2>3. ASSUME NEW f \in InstrumentFrames \cup TypeFrames, NEW s1 \in Subscriptions,
               NEW s2 \in Subscriptions, Receive(f, Unverified, <<s1, s2>>, {})
        PROVE  Inv'
    <3>1. AuditFrame(f)
      BY <2>3, AuditFrames
    <3>2. PICK subs : subs = <<s1, s2>>
      OBVIOUS
    <3>3. \A i \in DOMAIN subs : /\ copyAndValidateSecurities(subs[i].securities)
                                 /\ \A c \in subs[i].securities : KnownMarket(c)
      BY <2>3, <3>2, AuditSubscriptions
    <3> QED BY <2>3, <3>1, <3>2, <3>3, ReceiveKeepsFates
  <2>4. ASSUME NEW f \in TypeFrames \cup NumberFrames \cup HeaderFrames, NEW opts \in Options,
               NEW orders, Receive(f, opts, BaseSubscriptions, orders)
        PROVE  Inv'
    <3>1. AuditFrame(f)
      BY <2>4, AuditFrames
    <3>2. PICK subs : subs = BaseSubscriptions
      OBVIOUS
    <3>3. \A i \in DOMAIN subs : /\ copyAndValidateSecurities(subs[i].securities)
                                 /\ \A c \in subs[i].securities : KnownMarket(c)
      BY <3>2, AuditSubscriptions DEF BaseSubscriptions
    <3> QED BY <2>4, <3>1, <3>2, <3>3, ReceiveKeepsFates
  <2>5. ASSUME NEW f, NEW v, Edit(f, v) PROVE phase' # "pushed"
    BY <2>5 DEF Edit
  <2>6. ASSUME Submit PROVE phase' # "pushed"
    BY <2>6 DEF Submit
  <2>7. ASSUME NEW v, Reply(v) PROVE phase' # "pushed"
    BY <2>7 DEF Reply
  <2>8. ASSUME NEW o, Again(o) PROVE phase' # "pushed"
    BY <2>8 DEF Again
  <2> QED BY <2>1, <2>2, <2>3, <2>4, <2>5, <2>6, <2>7, <2>8 DEF Next
<1> QED BY <1>1, <1>2, PTL DEF Spec

\* Every push frame that was read is delivered, counted or reported, but for a
\* delivery that finds no order subscription and a frame of an unknown type
\* without payload (readLoop, dispatchTrade).
THEOREM FramesAreAccountedFor == Spec => []EveryFrameIsAccountedFor
BY Fates, PTL

\* Every market update reaches whoever asked for its instrument (dispatchMarket).
THEOREM FramesReachWhoAsked == Spec => []ReachesWhoAsked
BY Fates, PTL

-----------------------------------------------------------------------------
(* Mapped amounts.                                                         *)

\* Every constructor parses the text it is given, whatever the unit.
LEMMA ParsedAmounts ==
    ASSUME NEW s, NEW unit
    PROVE  /\ MustNew(s, unit).amount = MustParse(s)
           /\ futuresNew(s, unit).amount = MustParse(OrZero(s))
           /\ algoNew(s, unit).amount = MustParse(OrZero(s))
<1>1. \A x, y : [amount |-> x, unit |-> y].amount = x
  BY SMT
<1>2. \A t, y : /\ MustNewMoney(t, y).amount = MustParse(t) /\ MustNewPrice(t).amount = MustParse(t)
                /\ MustNewQuantity(t).amount = MustParse(t) /\ MustNewRate(t).amount = MustParse(t)
  BY <1>1 DEF MustNewMoney, MustNewPrice, MustNewQuantity, MustNewRate
<1>3. MustNew(s, unit).amount = MustParse(s)
  BY <1>2 DEF MustNew
<1>4. futuresNew(s, unit).amount = MustParse(OrZero(s))
  BY <1>2 DEF futuresNew, futuresPrice, futuresQuantity, futuresRate, futuresMoney
<1>5. algoNew(s, unit).amount = MustParse(OrZero(s))
  BY <1>2 DEF algoNew, algoPrice, algoQuantity, algoRate, algoMoney
<1> QED BY <1>3, <1>4, <1>5

\* The three ways of reading a text: as it comes, through OrZero and through
\* floatToString.
LEMMA ReadTexts ==
    ASSUME NEW s
    PROVE  /\ MustParse(s) \in Readings(s, FALSE)
           /\ MustParse(OrZero(s)) \in Readings(s, TRUE)
           /\ MustParse(floatToString(s)) \in Readings(s, FALSE)
           /\ s # "" => MustParse(floatToString(s)) \in Readings(s, TRUE)
<1>1. ~Decimal("") /\ ~Decimal("1e-7") /\ Decimal("0") /\ Decimal("0.0000001")
  BY DEF Decimal, Negative, Zero, Positive
<1>2. \A b \in BOOLEAN :
        /\ Decimal(s) => Readings(s, b) = {s}
        /\ s = "1e-7" => Readings(s, b) = {"0.0000001"}
        /\ s = "" => Readings(s, b) = IF b THEN {"0"} ELSE {"0", Panicked}
        /\ ~Decimal(s) /\ s # "1e-7" /\ s # "" => Readings(s, b) = {Panicked}
  BY <1>1 DEF Readings
<1>3. /\ \A t : Decimal(t) => MustParse(t) = t
      /\ MustParse("1e-7") = "0.0000001"
      /\ \A t : ~Decimal(t) /\ t # "1e-7" => MustParse(t) = Panicked
  BY <1>1 DEF MustParse
<1>4. MustParse(s) \in Readings(s, FALSE)
  BY <1>1, <1>2, <1>3
<1>5. MustParse(OrZero(s)) \in Readings(s, TRUE)
  BY <1>1, <1>2, <1>3 DEF OrZero
<1>6. MustParse(floatToString(s)) = MustParse(s)
  BY <1>1, <1>3 DEF floatToString
<1>7. s # "" => MustParse(s) \in Readings(s, TRUE)
  BY <1>1, <1>2, <1>3
<1> QED BY <1>4, <1>5, <1>6, <1>7

\* A row that is nil or has every field of a type.
Has(r, fields) == IsNil(r) \/ fields \subseteq DOMAIN r

\* What the row mappers make of a row of any type.
LEMMA ReadRows ==
    ASSUME NEW r, NEW type, Has(r, DOMAIN type)
    PROVE  /\ AsOnTheWire(FromWire(r, type), r, FALSE)
           /\ AsOnTheWire(FuturesFromDTO(r, type), r, TRUE)
           /\ AsOnTheWire(AlgoFromDTO(r, type), r, TRUE)
           /\ AsOnTheWire(FromFloats(r, type), r, FALSE)
           /\ (\A f \in DOMAIN r : r[f] # "") => AsOnTheWire(FromFloats(r, type), r, TRUE)
<1>1. CASE IsNil(r)
  BY <1>1 DEF AsOnTheWire, FromWire, FuturesFromDTO, AlgoFromDTO, FromFloats, NilRow, NoBody
<1>2. CASE ~IsNil(r)
  <2>1. \A f \in DOMAIN type : f \in DOMAIN r /\ TextOf(r, f) = r[f]
    BY <1>2 DEF Has, TextOf
  <2>2. AsOnTheWire(FromWire(r, type), r, FALSE)
    BY <1>2, <2>1, ParsedAmounts, ReadTexts DEF AsOnTheWire, FromWire
  <2>3. AsOnTheWire(FuturesFromDTO(r, type), r, TRUE)
    BY <1>2, <2>1, ParsedAmounts, ReadTexts DEF AsOnTheWire, FuturesFromDTO
  <2>4. AsOnTheWire(AlgoFromDTO(r, type), r, TRUE)
    BY <1>2, <2>1, ParsedAmounts, ReadTexts DEF AsOnTheWire, AlgoFromDTO
  <2>5. AsOnTheWire(FromFloats(r, type), r, FALSE)
    BY <1>2, <2>1, ParsedAmounts, ReadTexts DEF AsOnTheWire, FromFloats
  <2>6. (\A f \in DOMAIN r : r[f] # "") => AsOnTheWire(FromFloats(r, type), r, TRUE)
    BY <1>2, <2>1, ParsedAmounts, ReadTexts DEF AsOnTheWire, FromFloats
  <2> QED BY <2>2, <2>3, <2>4, <2>5, <2>6
<1> QED BY <1>1, <1>2

\* Two mapped rows that keep the amounts keep them joined.
LEMMA JoinedRows ==
    ASSUME NEW r, NEW a, NEW b, NEW z, AsOnTheWire(a, r, z), AsOnTheWire(b, r, z)
    PROVE  AsOnTheWire(a @@ b, r, z)
BY DEF AsOnTheWire, @@

\* A row without amounts keeps them all.
LEMMA NilRows == \A r, z : AsOnTheWire(NilRow, r, z)
BY DEF AsOnTheWire, NilRow, NoBody

EntrustRows == {"TradeQueryRealEntrustList", "TradeQueryHistoryEntrustList"}
FillRows == {"TradeQueryRealDeliverList", "TradeQueryHistoryDeliverList"}
CondOrderRows == {"TradeQueryRealCondOrderList", "TradeQueryHistoryCondOrderList"}
JournalRows == {"TradeQueryRealFundJourList", "TradeQueryHistoryFundJourList"}
CashRows == EntrustRows \cup FillRows \cup CondOrderRows \cup JournalRows \cup
    {"TradeQueryMaxAvailableAsset", "TradeQueryMarginFullInfo", "TradeQueryMarginFundInfo",
     "TradeQueryHoldsList", "hs/rate/queryList"}
FuturesOrderRows == {"FuturesQueryRealEntrustList", "FuturesQueryHistoryEntrustList"}
FuturesFillRows == {"FuturesQueryRealDeliverList", "FuturesQueryHistoryDeliverList"}
FuturesRows == FuturesOrderRows \cup FuturesFillRows \cup
    {"FuturesQueryProductInfo", "FuturesQueryMaxBuySellAmount", "FuturesQueryFundInfo",
     "FuturesQueryHoldsList"}

\* The operations whose replies hold decimals.
Mapped == CashRows \cup FuturesRows \cup {"AlgoQueryOrderList"} \cup MarketReads

\* Every decimal a cash type reads is a field of the wire row.
LEMMA CashTypes ==
    /\ DOMAIN domain_Entrust \subseteq EntrustWire
    /\ DOMAIN domain_Fill \subseteq EntrustWire
    /\ DOMAIN domain_Fare \subseteq FareWire
<1>1. \A unit, fields : DOMAIN Labelled(unit, fields) = fields
  BY DEF Labelled
<1>2. \A g, h : DOMAIN (g @@ h) = DOMAIN g \cup DOMAIN h
  BY DEF @@
<1>3. DOMAIN domain_Entrust \subseteq EntrustWire
  <2>1. DOMAIN domain_Entrust
          = {"entrustPrice", "businessPrice"} \cup {"entrustAmount", "businessAmount"}
    <3>1. PICK a, b : /\ a = Labelled("price", {"entrustPrice", "businessPrice"})
                      /\ b = Labelled("quantity", {"entrustAmount", "businessAmount"})
      OBVIOUS
    <3>2. /\ DOMAIN a = {"entrustPrice", "businessPrice"}
          /\ DOMAIN b = {"entrustAmount", "businessAmount"}
      BY <1>1, <3>1
    <3>3. domain_Entrust = a @@ b
      BY <3>1 DEF domain_Entrust
    <3> QED BY <1>2, <3>2, <3>3
  <2> QED BY SMT, <2>1 DEF EntrustWire
<1>4. DOMAIN domain_Fill \subseteq EntrustWire
  <2>1. DOMAIN domain_Fill = ({"businessPrice"} \cup {"entrustAmount", "businessAmount"})
                              \cup {"businessBalance"}
    <3>1. PICK a, b, c : /\ a = Labelled("price", {"businessPrice"})
                         /\ b = Labelled("quantity", {"entrustAmount", "businessAmount"})
                         /\ c = Labelled("HKD", {"businessBalance"})
      OBVIOUS
    <3>2. /\ DOMAIN a = {"businessPrice"} /\ DOMAIN b = {"entrustAmount", "businessAmount"}
          /\ DOMAIN c = {"businessBalance"}
      BY <1>1, <3>1
    <3>3. domain_Fill = (a @@ b) @@ c
      BY <3>1 DEF domain_Fill
    <3>4. DOMAIN domain_Fill = DOMAIN (a @@ b) \cup DOMAIN c
      BY <1>2, <3>3
    <3>5. DOMAIN (a @@ b) = DOMAIN a \cup DOMAIN b
      BY <1>2
    <3> QED BY <3>2, <3>4, <3>5
  <2> QED BY SMT, <2>1 DEF EntrustWire
<1> QED BY <1>3, <1>4 DEF FareWire

\* A cash or account row is parsed as it comes.
LEMMA CashRowsAsSent ==
    ASSUME NEW o \in CashRows, NEW v, Has(v, RowFields(o))
    PROVE  AsOnTheWire(MapReply(o, v), v, FALSE)
<1> USE DEF EntrustRows, FillRows, CondOrderRows, JournalRows
<1>1. \A type : DOMAIN type \subseteq RowFields(o) => AsOnTheWire(FromWire(v, type), v, FALSE)
  BY ReadRows DEF Has
<1>2. \A a, b : DOMAIN a \subseteq RowFields(o) /\ DOMAIN b \subseteq RowFields(o)
                   => AsOnTheWire(FromWire(v, a) @@ FromWire(v, b), v, FALSE)
  BY <1>1, JoinedRows
<1>3. CASE o \in EntrustRows
  <2>1. MapReply(o, v) = EntrustFromWire(v, v) /\ RowFields(o) = EntrustWire \cup FareWire
    BY <1>3 DEF MapReply, RowFields
  <2> QED BY <1>2, <2>1, NilRows, CashTypes DEF EntrustFromWire, FareFromWire
<1>4. CASE o \in FillRows
  <2>1. MapReply(o, v) = FillFromWire(v, v) /\ RowFields(o) = EntrustWire \cup FareWire
    BY <1>4 DEF MapReply, RowFields
  <2> QED BY <1>2, <2>1, NilRows, CashTypes DEF FillFromWire, FareFromWire
<1>5. CASE o \in CondOrderRows
  <2>1. MapReply(o, v) = CondOrderFromWire(v) /\ RowFields(o) = CondOrderWire
    BY <1>5 DEF MapReply, RowFields
  <2> QED BY <1>1, <2>1 DEF CondOrderFromWire, CondOrderWire
<1>6. CASE o = "TradeQueryMaxAvailableAsset"
  <2>1. MapReply(o, v) = MaxAvailableFromWire(v) /\ RowFields(o) = MaxAvailableWire
    BY <1>6 DEF MapReply, RowFields
  <2> QED BY <1>1, <2>1 DEF MaxAvailableFromWire, MaxAvailableWire
<1>7. CASE o = "TradeQueryMarginFullInfo"
  <2>1. MapReply(o, v) = MarginInfoFromWire(v, v) /\ RowFields(o) = MarginFullInfoWire \cup RateWire
    BY <1>7 DEF MapReply, RowFields
  <2> QED BY <1>2, <2>1, NilRows DEF MarginInfoFromWire, MarginFullInfoWire, RateWire
<1>8. CASE o = "TradeQueryMarginFundInfo"
  <2>1. MapReply(o, v) = AccountBalanceFromDTO(v) /\ RowFields(o) = MarginFundInfoWire
    BY <1>8 DEF MapReply, RowFields
  <2> QED BY <1>1, <2>1 DEF AccountBalanceFromDTO, MarginFundInfoWire
<1>9. CASE o = "TradeQueryHoldsList"
  <2>1. MapReply(o, v) = PositionFromDTO(v) /\ RowFields(o) = HoldsVoWire
    BY <1>9 DEF MapReply, RowFields
  <2> QED BY <1>1, <2>1 DEF PositionFromDTO, HoldsVoWire
<1>10. CASE o \in JournalRows
  <2>1. MapReply(o, v) = FundJournalEntryFromDTO(v) /\ RowFields(o) = FundJourVoWire
    BY <1>10 DEF MapReply, RowFields
  <2> QED BY <1>1, <2>1 DEF FundJournalEntryFromDTO, FundJourVoWire
<1>11. CASE o = "hs/rate/queryList"
  <2>1. MapReply(o, v) = InterestRateFromDTO(v) /\ RowFields(o) = {"rate"}
    BY <1>11 DEF MapReply, RowFields
  <2> QED BY <1>1, <2>1 DEF InterestRateFromDTO, domain_InterestRate, Labelled
<1> QED BY <1>3, <1>4, <1>5, <1>6, <1>7, <1>8, <1>9, <1>10, <1>11 DEF CashRows

\* Every decimal of a fill is a field of the order row it comes in.
LEMMA FuturesFillType == DOMAIN domain_FuturesFill \subseteq FuturesOrderWire
<1>1. \A unit, fields : DOMAIN Labelled(unit, fields) = fields
  BY DEF Labelled
<1>2. \A g, h : DOMAIN (g @@ h) = DOMAIN g \cup DOMAIN h
  BY DEF @@
<1> QED BY <1>1, <1>2 DEF domain_FuturesFill, domain_FuturesOrder, FuturesOrderWire

\* In a futures or algo row an absent decimal is zero.
LEMMA FuturesRowsAsSent ==
    ASSUME NEW o \in FuturesRows \cup {"AlgoQueryOrderList"}, NEW v, Has(v, RowFields(o))
    PROVE  AsOnTheWire(MapReply(o, v), v, TRUE)
<1> USE DEF FuturesOrderRows, FuturesFillRows
<1>1. \A type : DOMAIN type \subseteq RowFields(o)
                   => /\ AsOnTheWire(FuturesFromDTO(v, type), v, TRUE)
                      /\ AsOnTheWire(AlgoFromDTO(v, type), v, TRUE)
  BY ReadRows DEF Has
<1>2. CASE o = "FuturesQueryProductInfo"
  <2>1. MapReply(o, v) = FuturesProductFromDTO(v) /\ RowFields(o) = FuturesProductInfoWire
    BY <1>2 DEF MapReply, RowFields
  <2> QED BY <1>1, <2>1 DEF FuturesProductFromDTO, FuturesProductInfoWire
<1>3. CASE o = "FuturesQueryMaxBuySellAmount"
  <2>1. MapReply(o, v) = FuturesCapacityFromDTO(v, "") /\ RowFields(o) = FuturesMaxBuySellAmountWire
    BY <1>3 DEF MapReply, RowFields
  <2> QED BY <1>1, <2>1 DEF FuturesCapacityFromDTO, FuturesMaxBuySellAmountWire,
                            domain_FuturesCapacity, Labelled
<1>4. CASE o = "FuturesQueryFundInfo"
  <2>1. MapReply(o, v) = FuturesAccountFromDTO(v) /\ RowFields(o) = FuturesFundInfoWire
    BY <1>4 DEF MapReply, RowFields
  <2> QED BY <1>1, <2>1 DEF FuturesAccountFromDTO, FuturesFundInfoWire
<1>5. CASE o = "FuturesQueryHoldsList"
  <2>1. MapReply(o, v) = FuturesPositionFromDTO(v) /\ RowFields(o) = FuturesHoldWire
    BY <1>5 DEF MapReply, RowFields
  <2> QED BY <1>1, <2>1 DEF FuturesPositionFromDTO, FuturesHoldWire
<1>6. CASE o \in FuturesOrderRows
  <2>1. MapReply(o, v) = FuturesOrderFromDTO(v) /\ RowFields(o) = FuturesOrderWire
    BY <1>6 DEF MapReply, RowFields
  <2> QED BY <1>1, <2>1 DEF FuturesOrderFromDTO, FuturesOrderWire
<1>7. CASE o \in FuturesFillRows
  <2>1. MapReply(o, v) = FuturesFillFromDTO(v) /\ RowFields(o) = FuturesOrderWire
    BY <1>7 DEF MapReply, RowFields
  <2> QED BY <1>1, <2>1, FuturesFillType DEF FuturesFillFromDTO
<1>8. CASE o = "AlgoQueryOrderList"
  <2>1. /\ MapReply(o, v) = AlgoMasterOrderFromDTO(v)
        /\ RowFields(o) = AlgoMasterOrderWire \cup AlgoStrategyParamWire
    BY <1>8 DEF MapReply, RowFields
  <2>2. /\ AsOnTheWire(AlgoFromDTO(v, domain_AlgoMasterOrder), v, TRUE)
        /\ AsOnTheWire(AlgoStrategyParamFromDTO(v), v, TRUE)
    BY <1>1, <2>1 DEF AlgoStrategyParamFromDTO, AlgoMasterOrderWire, AlgoStrategyParamWire
  <2> QED BY <2>1, <2>2, JoinedRows, NilRows DEF AlgoMasterOrderFromDTO
<1> QED BY <1>2, <1>3, <1>4, <1>5, <1>6, <1>7, <1>8 DEF FuturesRows

\* Reading a nil row of a book or a queue fails, and gives no amount.
LEMMA NilDereferences == \A r : IsNil(r) => AsOnTheWire(NilDereference, r, FALSE)
<1>1. DOMAIN NilDereference = {"row"} /\ NilDereference["row"].amount = Panicked
  BY SMT DEF NilDereference
<1>2. \A r, f : IsNil(r) => TextOf(r, f) = ""
  BY DEF IsNil, TextOf
<1>3. Panicked \in Readings("", FALSE)
  BY DEF Readings, Decimal, Negative, Zero, Positive
<1> QED BY <1>1, <1>2, <1>3 DEF AsOnTheWire

\* A market row holds numbers, and a nil one has none.
LEMMA MarketRowsAsSent ==
    ASSUME NEW o \in MarketReads, NEW v, Has(v, RowFields(o))
    PROVE  AsOnTheWire(MapReply(o, v), v, FALSE)
<1>1. \A type : DOMAIN type \subseteq RowFields(o) => AsOnTheWire(FromFloats(v, type), v, FALSE)
  BY ReadRows DEF Has
<1>2. CASE o = "BasicQot"
  <2>1. MapReply(o, v) = convertToQuote(v) /\ RowFields(o) = DOMAIN domain_Quote
    BY <1>2 DEF MapReply, RowFields
  <2> QED BY <1>1, <2>1 DEF convertToQuote
<1>3. CASE o = "KL"
  <2>1. MapReply(o, v) = convertToKLine(v) /\ RowFields(o) = DOMAIN domain_KLine
    BY <1>3 DEF MapReply, RowFields
  <2> QED BY <1>1, <2>1 DEF convertToKLine
<1>4. CASE o = "TimeShare"
  <2>1. MapReply(o, v) = convertToTimeSharePoint(v) /\ RowFields(o) = DOMAIN domain_TimeSharePoint
    BY <1>4 DEF MapReply, RowFields
  <2> QED BY <1>1, <2>1 DEF convertToTimeSharePoint
<1>5. CASE o = "Ticker"
  <2>1. MapReply(o, v) = convertToTickerTick(v) /\ RowFields(o) = DOMAIN domain_TickerTick
    BY <1>5 DEF MapReply, RowFields
  <2> QED BY <1>1, <2>1 DEF convertToTickerTick
<1>6. CASE o = "OrderBook"
  <2>1. MapReply(o, v) = convertOrderBookLevels(v) /\ RowFields(o) = {"price"}
    BY <1>6 DEF MapReply, RowFields
  <2>2. DOMAIN [price |-> "price"] = {"price"}
    BY SMT
  <2> QED BY <1>1, <2>1, <2>2, NilDereferences DEF convertOrderBookLevels
<1>7. CASE o = "Broker"
  <2>1. MapReply(o, v) = convertBrokerEntries(v)
    BY <1>7 DEF MapReply
  <2> QED BY <2>1, NilRows, NilDereferences DEF convertBrokerEntries
<1> QED BY <1>2, <1>3, <1>4, <1>5, <1>6, <1>7 DEF MarketReads

\* For every row of every operation with decimals, and not only those with one
\* number out of the ordinary: what the service maps is what was on the wire,
\* and an absent decimal fails no futures or algo row.
THEOREM RepliesAsSent ==
    ASSUME NEW o \in Mapped, NEW v, Has(v, RowFields(o))
    PROVE  AsSent(o, MapReply(o, v), v)
<1>1. CASE o \in CashRows
  <2>1. o \notin MarketReads /\ ~(o \in WrappedReads \cup {"Subscribe"})
    BY <1>1 DEF CashRows, EntrustRows, FillRows, CondOrderRows, JournalRows, MarketReads,
                WrappedReads, FuturesOps, FuturesReads, FuturesPages
  <2>2. AsOnTheWire(MapReply(o, v), v, FALSE)
    BY <1>1, <2>1, CashRowsAsSent
  <2> QED BY <2>1, <2>2 DEF AsSent
<1>2. CASE o \in FuturesRows \cup {"AlgoQueryOrderList"}
  <2>1. o \notin MarketReads /\ o \in WrappedReads \cup {"Subscribe"}
    BY <1>2 DEF FuturesRows, FuturesOrderRows, FuturesFillRows, MarketReads,
                WrappedReads, FuturesOps, FuturesReads, FuturesPages
  <2>2. AsOnTheWire(MapReply(o, v), v, TRUE)
    BY <1>2, <2>1, FuturesRowsAsSent
  <2> QED BY <2>1, <2>2 DEF AsSent
<1>3. CASE o \in MarketReads
  <2>1. ~(o \in WrappedReads \cup {"Subscribe"})
    BY <1>3 DEF MarketReads, WrappedReads, FuturesOps, FuturesReads, FuturesPages
  <2>2. AsOnTheWire(MapReply(o, v), v, FALSE)
    BY <1>3, MarketRowsAsSent
  <2> QED BY <2>1, <2>2 DEF AsSent
<1> QED BY <1>1, <1>2, <1>3 DEF Mapped

\* The texts of a row of the audit.
LEMMA RowTexts ==
    ASSUME NEW fields, NEW bad, NEW v \in RowsOf(fields, bad)
    PROVE  DOMAIN v = fields /\ \A f \in DOMAIN v : v[f] \in bad \cup {"1"}
<1>1. CASE v = [f \in fields |-> "1"]
  BY <1>1
<1>2. CASE v \in {RowWith(fields, g, text) : g \in fields, text \in bad}
  <2>1. PICK g \in fields, text \in bad : v = RowWith(fields, g, text)
    BY SMT, <1>2
  <2> QED BY <2>1 DEF RowWith
<1> QED BY SMT, <1>1, <1>2 DEF RowsOf

\* The replies of the audit are to operations with decimals, and have their
\* fields.
LEMMA AuditRows ==
    ASSUME NEW o, NEW v \in Rows(o)
    PROVE  o \in Mapped /\ Has(v, RowFields(o))
<1>1. CASE o \in MarketReads
  <2>1. v \in RowsOf(RowFields(o), {"0", "1e-7"}) \/ v = NilRow
    BY <1>1 DEF Rows
  <2>2. ASSUME v \in RowsOf(RowFields(o), {"0", "1e-7"}) PROVE DOMAIN v = RowFields(o)
    BY <2>2, RowTexts
  <2>3. v = NilRow => IsNil(v)
    BY DEF IsNil, NilRow, NoBody
  <2> QED BY <1>1, <2>1, <2>2, <2>3 DEF Mapped, Has
<1>2. CASE o \notin MarketReads
  <2>1. RowFields(o) # {} /\ v \in RowsOf(RowFields(o), Bad)
    BY <1>2 DEF Rows
  <2>2. Has(v, RowFields(o))
    <3>1. DOMAIN v = RowFields(o)
      BY <2>1, RowTexts
    <3> QED BY <3>1 DEF Has
  <2>3. o \in Mapped
    <3> SUFFICES ASSUME o \notin Mapped PROVE RowFields(o) = {}
      BY <2>1
    <3> QED BY DEF RowFields, Mapped, CashRows, EntrustRows, FillRows, CondOrderRows, JournalRows,
                   FuturesRows, FuturesOrderRows, FuturesFillRows, MarketReads
  <2> QED BY <2>2, <2>3
<1> QED BY <1>1, <1>2

\* The row of a pushed message is nil or has the fields of its type, and a
\* number of a market one is never absent.
Legible(r, type) ==
    /\ Has(r, EventFields(type))
    /\ type \in MarketTypes => \A f \in DOMAIN r : r[f] # ""

\* Whatever a handler gets is what was on the wire.
THEOREM PushedAsSent ==
    ASSUME NEW n, n.type \in MarketTypes \cup tradeNotifyTypes, Legible(n.row, n.type)
    PROVE  AsOnTheWire(convert(n).row, n.row, TRUE)
<1>1. PICK e : e = NormalizeNotification(n)
  OBVIOUS
<1>2. \A ev, c, r : LET d == [event |-> ev, code |-> c, row |-> r]
                    IN  "row" \in DOMAIN d /\ d.row = r
  BY SMT
<1>3. "row" \in DOMAIN e /\ AsOnTheWire(e.row, n.row, TRUE)
  <2>1. CASE n.payload = "nil"
    <3>1. e = emptyPayloadEvent
      BY <1>1, <2>1 DEF NormalizeNotification
    <3>2. "row" \in DOMAIN e /\ e.row = NilRow
      BY <1>2, <3>1 DEF emptyPayloadEvent
    <3> QED BY <3>2, NilRows
  <2>2. CASE n.payload # "nil" /\ n.type \in MarketTypes
    <3>1. \A f \in DOMAIN n.row : n.row[f] # ""
      BY <2>2 DEF Legible
    <3>2. \A type : DOMAIN type = EventFields(n.type) => AsOnTheWire(FromFloats(n.row, type), n.row, TRUE)
      BY <3>1, ReadRows DEF Legible
    <3>3. CASE n.type = "BasicQot"
      <4>1. e = decodeBasicQotEvent(n)
        BY <1>1, <2>2, <3>3 DEF NormalizeNotification
      <4>2. EventFields(n.type) = DOMAIN domain_QuoteEvent
        BY <3>3 DEF EventFields, tradeNotifyTypes
      <4>3. "row" \in DOMAIN e /\ e.row = FromFloats(n.row, domain_QuoteEvent)
        BY <1>2, <4>1 DEF decodeBasicQotEvent
      <4> QED BY <3>2, <4>2, <4>3
    <3>4. CASE n.type = "Ticker"
      <4>1. e = decodeTickerEvent(n)
        BY <1>1, <2>2, <3>4 DEF NormalizeNotification
      <4>2. EventFields(n.type) = DOMAIN domain_TickerEvent
        BY <3>4 DEF EventFields, tradeNotifyTypes
      <4>3. "row" \in DOMAIN e /\ e.row = FromFloats(n.row, domain_TickerEvent)
        BY <1>2, <4>1 DEF decodeTickerEvent
      <4> QED BY <3>2, <4>2, <4>3
    <3>5. CASE n.type = "OrderBook"
      <4>1. e = decodeOrderBookEvent(n)
        BY <1>1, <2>2, <3>5 DEF NormalizeNotification
      <4>2. EventFields(n.type) = DOMAIN domain_OrderBookLevel
        BY <3>5 DEF EventFields, tradeNotifyTypes
      <4>3. "row" \in DOMAIN e /\ e.row = FromFloats(n.row, domain_OrderBookLevel)
        BY <1>2, <4>1 DEF decodeOrderBookEvent
      <4> QED BY <3>2, <4>2, <4>3
    <3>6. CASE n.type = "BrokerQueue"
      <4>1. e = decodeBrokerEvent(n)
        BY <1>1, <2>2, <3>6 DEF NormalizeNotification
      <4>2. "row" \in DOMAIN e /\ e.row = NilRow
        BY <1>2, <4>1 DEF decodeBrokerEvent
      <4> QED BY <4>2, NilRows
    <3> QED BY <2>2, <3>3, <3>4, <3>5, <3>6 DEF MarketTypes
  <2>3. CASE n.payload # "nil" /\ n.type \in tradeNotifyTypes
    <3>1. e = decodeTradeEvent(n)
      BY <1>1, <2>3 DEF NormalizeNotification, tradeNotifyTypes
    <3>2. PICK m : m = [f \in DOMAIN domain_TradeEvent |->
                          MustNew(pushDecimal(IF IsNil(n.row) THEN "" ELSE n.row[f]), domain_TradeEvent[f])]
      OBVIOUS
    <3>3. "row" \in DOMAIN e /\ e.row = m
      BY <1>2, <3>1, <3>2 DEF decodeTradeEvent
    <3>4. ASSUME NEW f \in DOMAIN m PROVE m[f].amount \in Readings(TextOf(n.row, f), TRUE)
      <4>1. EventFields(n.type) = DOMAIN domain_TradeEvent
        BY <2>3 DEF EventFields, tradeNotifyTypes
      <4>2. TextOf(n.row, f) = IF IsNil(n.row) THEN "" ELSE n.row[f]
        BY <3>2, <4>1 DEF Legible, Has, IsNil, TextOf
      <4>3. m[f] = MustNew(OrZero(TextOf(n.row, f)), domain_TradeEvent[f])
        BY <3>2, <4>2 DEF pushDecimal
      <4>4. m[f].amount = MustParse(OrZero(TextOf(n.row, f)))
        <5>1. MustNew(OrZero(TextOf(n.row, f)), domain_TradeEvent[f]).amount
                = MustParse(OrZero(TextOf(n.row, f)))
          BY ParsedAmounts
        <5> QED BY <4>3, <5>1
      <4> QED BY <4>4, ReadTexts
    <3> QED BY <3>3, <3>4 DEF AsOnTheWire
  <2> QED BY <2>1, <2>2, <2>3
<1>4. convert(n).row = e.row
  BY SMT, <1>1, <1>3 DEF convert, @@
<1> QED BY <1>3, <1>4

\* decodeNotification passes on the row of the frame, or none.
LEMMA NotificationRow ==
    ASSUME NEW f, NEW n, n = decodeNotification(f), n # Undecodable
    PROVE  n.row = NilRow \/ (n.row = f.row /\ n.type = f.type)
<1> DEFINE m == [type |-> f.type, id |-> f.id, payload |-> f.payload, code |-> f.code, row |-> f.row]
<1>1. CASE f.bodyLen = 0
  BY SMT, <1>1 DEF decodeNotification, PBNotify
<1>2. CASE f.bodyLen # 0 /\ n = m
  BY SMT, <1>2
<1>3. CASE f.bodyLen # 0 /\ n # m
  <2>1. n = Decode(m)
    BY SMT, <1>3 DEF decodeNotification, PBNotify
  <2>2. n = [m EXCEPT !.payload = "message", !.code = NoCode, !.row = NilRow]
    BY <1>3, <2>1 DEF Decode
  <2> QED BY SMTT(30), <2>2
<1> QED BY <1>1, <1>2, <1>3

\* The rows of the audit's frames are legible.
LEMMA AuditFrameRows ==
    \A f \in InstrumentFrames \cup TypeFrames \cup NumberFrames \cup HeaderFrames : Legible(f.row, f.type)
<1>1. \A t : Legible(NilRow, t)
  BY DEF Legible, Has, IsNil, NilRow, NoBody
<1>2. \A f \in InstrumentFrames : f.row = NilRow
  <2> SUFFICES ASSUME NEW t, NEW i, NEW c, NEW f, f = InstrumentFrame(t, i, c) PROVE f.row = NilRow
    BY SMT DEF InstrumentFrames
  <2> QED BY SMT DEF InstrumentFrame, BaseFrame
<1>3. \A f \in TypeFrames : f.row = NilRow /\ DOMAIN f = DOMAIN BaseFrame
  <2> SUFFICES ASSUME NEW t, NEW q, NEW f, f = TypeFrame(t, q)
               PROVE  f.row = NilRow /\ DOMAIN f = DOMAIN BaseFrame
    BY SMT DEF TypeFrames
  <2> QED BY SMT DEF TypeFrame, BaseFrame
<1>4. \A f \in NumberFrames : Legible(f.row, f.type)
  <2> SUFFICES ASSUME NEW t \in NotifyTypes, NEW f,
                      NEW v \in RowsOf(EventFields(t), IF t \in MarketTypes THEN {"0", "1e-7"} ELSE Bad),
                      f = NumberFrame(t, v)
               PROVE  Legible(f.row, f.type)
    BY DEF NumberFrames
  <2>1. f.type = t /\ f.row = v
    BY SMT DEF NumberFrame, BaseFrame
  <2>2. DOMAIN v = EventFields(t)
    BY RowTexts
  <2>3. ASSUME t \in MarketTypes PROVE \A g \in DOMAIN v : v[g] # ""
    <3>1. \A g \in DOMAIN v : v[g] \in {"0", "1e-7"} \cup {"1"}
      BY <2>3, RowTexts
    <3> QED BY <3>1
  <2> QED BY <2>1, <2>2, <2>3 DEF Legible, Has
<1>5. \A f \in HeaderFrames : f.row = NilRow
  <2> SUFFICES ASSUME NEW g \in TypeFrames, NEW f,
                      f \in {[g EXCEPT !.flag = "XX"], [g EXCEPT !.compress = 1]}
                           \cup {[g EXCEPT !.bodyLen = n] : n \in {-1, 0, MaxBodyLen, MaxBodyLen + 1}}
                           \cup {[g EXCEPT !.kind = k] : k \in {"heartbeat", "request", "response", "other"}}
                           \cup {[g EXCEPT !.signature = x] : x \in {"none", "bad"}}
               PROVE  f.row = NilRow
    BY DEF HeaderFrames
  <2>1. \E x : \/ f = [g EXCEPT !.flag = x] \/ f = [g EXCEPT !.compress = x]
                \/ f = [g EXCEPT !.bodyLen = x] \/ f = [g EXCEPT !.kind = x]
                \/ f = [g EXCEPT !.signature = x]
    OBVIOUS
  <2>2. f.row = g.row
    BY SMT, <1>3, <2>1 DEF BaseFrame
  <2> QED BY <1>3, <2>2
<1> QED BY <1>1, <1>2, <1>3, <1>4, <1>5

Unmapped == phase \in {"compose", "refused", "sent"} => mapped = NilRow

\* A frame that arrives is mapped with its amounts (convert).
LEMMA ReceiveKeepsAmounts ==
    ASSUME Unmapped, Subscribed, NEW f, Legible(f.row, f.type), NEW opts, NEW subs,
           NEW orders, Receive(f, opts, subs, orders)
    PROVE  AsSent(op, mapped, row)'
<1>1. op' \in WrappedReads \cup {"Subscribe"}
  BY DEF Receive, Subscribed
<1>2. AsOnTheWire(mapped', row', TRUE)
  <2>1. CASE UNCHANGED <<row, mapped>>
    BY <2>1, NilRows DEF Unmapped, Subscribed
  <2>2. ASSUME NEW n \in Handled(readLoopTurn(f, opts)), row' = n.row, mapped' = convert(n).row
        PROVE  AsOnTheWire(mapped', row', TRUE)
    <3>1. PICK turn : turn = readLoopTurn(f, opts)
      OBVIOUS
    <3>2. n \in turn.notes /\ n.type \in MarketTypes \cup tradeNotifyTypes
      BY <2>2, <3>1, HandledTypes DEF Handled
    <3>3. n = decodeNotification(f) /\ n # Undecodable
      BY <3>1, <3>2, TurnOutcome
    <3>4. Legible(n.row, n.type)
      <4>1. n.row = NilRow \/ (n.row = f.row /\ n.type = f.type)
        BY <3>3, NotificationRow
      <4>2. Legible(NilRow, n.type)
        BY DEF Legible, Has, IsNil, NilRow, NoBody
      <4> QED BY <4>1, <4>2
    <3>5. AsOnTheWire(convert(n).row, n.row, TRUE)
      BY <3>2, <3>4, PushedAsSent
    <3> QED BY <2>2, <3>5
  <2> QED BY <2>1, <2>2 DEF Receive
<1> QED BY <1>1, <1>2 DEF AsSent, AsOnTheWire

\* No amount is made up, in a reply or in a pushed message: a mapped decimal
\* is the wire's or the zero of an absent one (the mappers of pkg/domain).
THEOREM AmountsAreAsSent == Spec => []NoInventedAmounts
<1> DEFINE Inv == Unmapped /\ NoInventedAmounts
<1>1. Init => Inv
  BY DEF Init, Unmapped, NoInventedAmounts
<1>2. Inv /\ [Next]_vars => Inv'
  <2> SUFFICES ASSUME Inv, [Next]_vars PROVE Inv'
    OBVIOUS
  <2>1. CASE UNCHANGED vars
    BY <2>1 DEF vars, Unmapped, NoInventedAmounts, AsSent, AsOnTheWire
  <2>2. ASSUME NEW f, NEW v, Edit(f, v) PROVE Inv'
    BY <2>2 DEF Edit, Unmapped, NoInventedAmounts
  <2>3. CASE Submit
    BY <2>3 DEF Submit, Unmapped, NoInventedAmounts
  <2>4. ASSUME NEW v \in Rows(op), Reply(v) PROVE Inv'
    <3>1. op' = op /\ row' = v /\ mapped' = MapReply(op, v) /\ phase' = "mapped"
      BY <2>4 DEF Reply
    <3>2. AsSent(op, MapReply(op, v), v)
      BY <2>4, AuditRows, RepliesAsSent
    <3>3. AsSent(op, mapped, row)'
      BY <3>1, <3>2 DEF AsSent, AsOnTheWire
    <3> QED BY <3>1, <3>3 DEF Unmapped, NoInventedAmounts
  <2>5. ASSUME NEW f \in InstrumentFrames \cup TypeFrames \cup NumberFrames \cup HeaderFrames,
               NEW opts, NEW subs, NEW orders, Subscribed, Receive(f, opts, subs, orders)
        PROVE  Inv'
    <3>1. AsSent(op, mapped, row)'
      BY <2>5, AuditFrameRows, ReceiveKeepsAmounts
    <3>2. phase' = "pushed"
      BY <2>5 DEF Receive
    <3> QED BY <3>1, <3>2 DEF Unmapped, NoInventedAmounts
  <2>6. ASSUME NEW o, Again(o) PROVE Inv'
    BY <2>6 DEF Again, Unmapped, NoInventedAmounts
  <2> QED BY <2>1, <2>2, <2>3, <2>4, <2>5, <2>6 DEF Next
<1> QED BY <1>1, <1>2, PTL DEF Spec

=============================================================================
