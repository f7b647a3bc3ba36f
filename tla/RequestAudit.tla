---------------------------- MODULE RequestAudit ----------------------------
(***************************************************************************)
(* A caller moving from the released layer to the v-next one: it picks an  *)
(* operation, starts from a request both layers take, changes some of its  *)
(* fields, and submits it to both.  The v-next call, when it is sent, is   *)
(* answered by a row in which one decimal may be missing or garbled, and   *)
(* the service maps the row.  After a market Subscribe a push frame comes  *)
(* in while two subscriptions are live, and both layers route it.          *)
(*                                                                         *)
(* The operators under audit are those of FuturesCalls, AlgoCalls,         *)
(* AccountCalls (with CashCalls), ReplyMapping and PushFrames.             *)
(***************************************************************************)
EXTENDS AccountCalls, FuturesCalls, AlgoCalls, PushFrames

CONSTANT MaxEdits       \* how many fields of the base request a caller changes

ASSUME EditsAssumption == MaxEdits \in Nat

VARIABLES
    op,         \* the operation under way
    req,        \* the request, field by field
    edited,     \* the fields changed so far
    phase,      \* "compose", "refused", "sent", "mapped", "pushed"
    vnext,      \* the call of the v-next layer, NoCall before Submit
    released,   \* the call of the released layer
    row,        \* the reply's row
    mapped,     \* what the v-next layer made of it
    push        \* the frame received and its fate, NoPush before

vars == <<op, req, edited, phase, vnext, released, row, mapped, push>>

NoCall == Call("none", << >>, NoBody)
NoPush == [frame |-> "none"]

-----------------------------------------------------------------------------
(* The operations, their fields and a request both layers accept           *)

FuturesReads == {"FuturesQueryFundInfo", "FuturesQueryHoldsList",
                 "FuturesQueryRealEntrustList", "FuturesQueryRealDeliverList"}
FuturesPages == {"FuturesQueryHistoryEntrustList", "FuturesQueryHistoryDeliverList"}
CashLists == {"TradeQueryRealEntrustList", "TradeQueryRealDeliverList",
              "TradeQueryHistoryEntrustList", "TradeQueryHistoryDeliverList",
              "TradeQueryRealCondOrderList", "TradeQueryHistoryCondOrderList"}
CashReads == {"TradeQueryMaxAvailableAsset", "TradeQueryMarginFullInfo",
              "TradeQueryBeforeAndAfterSupport", "TradeSubscribe", "TradeUnsubscribe"}
CashAmends == {"TradeCancelEntrust", "TradeBatchCancelEntrust", "TradeChangeEntrust"}
AccountReads == {"TradeQueryMarginFundInfo", "TradeQueryHoldsList",
                 "TradeQueryRealFundJourList", "TradeQueryHistoryFundJourList",
                 "hs/rate/queryList"}
MarketCalls == {"BasicQot", "OrderBook", "KL", "TimeShare", "Ticker", "Broker",
                "UsOptionChainCode", "UsOptionChainExpireDate", "UsOverNightTradeCodes",
                "Subscribe", "Unsubscribe"}

FuturesOps == FuturesReads \cup FuturesPages \cup
    {"FuturesQueryProductInfo", "FuturesQueryMaxBuySellAmount", "FuturesEntrust",
     "FuturesCancelEntrust", "FuturesModifyEntrust"}
AlgoOps == {"AlgoQueryOrderList", "AlgoQueryEntrustIdList", "AlgoAddOrder", "AlgoCancelOrder",
            "AlgoCancelEntrust", "AlgoChangeOrder", "AlgoActionOrder"}
CashOps == {"TradeEntrust"} \cup CashLists \cup CashReads \cup CashAmends
Ops == FuturesOps \cup AlgoOps \cup CashOps \cup AccountReads \cup MarketCalls

Fields(o) ==
    CASE o \in FuturesReads -> [account |-> {"", "acct"}]
      [] o \in FuturesPages -> PageRequest
      [] o = "FuturesQueryProductInfo" ->
            [account |-> {"", "acct"}, stockCodes |-> {<< >>, <<"code">>, <<"code", "gap">>}]
      [] o = "FuturesQueryMaxBuySellAmount" ->
            [account |-> {"", "acct"}, stockCode |-> {"", "blank", "padded", "gap", "code"}]
      [] o = "FuturesEntrust" -> FuturesOrderRequest
      [] o = "FuturesCancelEntrust" -> FuturesCancelRequest
      [] o = "FuturesModifyEntrust" -> FuturesModifyRequest
      [] o = "AlgoQueryOrderList" -> AlgoOrderQuery
      [] o = "AlgoQueryEntrustIdList" -> AlgoEntrustIDQuery
      [] o = "AlgoAddOrder" -> AlgoAddOrderRequest @@ AlgoStrategyParam
      [] o = "AlgoCancelOrder" -> AlgoCancelOrderRequest
      [] o = "AlgoCancelEntrust" -> AlgoCancelEntrustRequest
      [] o = "AlgoChangeOrder" -> AlgoChangeOrderRequest @@ AlgoStrategyParam
      [] o = "AlgoActionOrder" -> AlgoActionRequest
      [] o = "TradeEntrust" -> CashOrder
      [] o \in CashAmends -> CashAmend
      [] o \in CashLists \cup CashReads -> CashQuery
      [] o \in AccountReads -> AccountQuery
      [] o \in MarketCalls -> MarketQuery

\* The value a careful caller starts from, for every field there is.
Base == [
    account |-> "acct", stockCode |-> "code", stockCodes |-> <<"code">>, entrustId |-> "code",
    orderId |-> "code", entrustType |-> "2", entrustPrice |-> "1", entrustAmount |-> "1",
    entrustBs |-> "1", validTimeType |-> "0", validTime |-> "", orderOptions |-> "0",
    exchangeType |-> "K", targetStrategy |-> "1", sessionType |-> "0", action |-> "1",
    tradeDate |-> "date", origStartTime |-> "time", origEndTime |-> "time", maxVolume |-> "1",
    minAmount |-> "1", sensitivity |-> "1", showQty |-> "1", qtyPercent |-> "1", interval |-> "1",
    pageNo |-> 1, pageSize |-> 99, startDate |-> "date", endDate |-> "date",
    market |-> "HK", dtype |-> "HKStock", amount |-> Lots(1), price |-> 10, side |-> "1",
    type |-> "3", session |-> "", clock |-> 571, tif |-> "DAY", iceberg |-> Absent,
    validDays |-> Absent, condValue |-> "", queryCount |-> 99, cursor |-> "0",
    dataType |-> "10000", entrustIds |-> "", security |-> "sec", list |-> <<"sec">>, securityCode |-> "code",
    limit |-> 1, topic |-> 11]

BaseRequest(o) ==
    [f \in DOMAIN Fields(o) |->
        CASE f = "entrustType" /\ o = "FuturesEntrust" -> "0"
          [] f = "entrustId" /\ o \in CashAmends -> "id"
          [] OTHER -> Base[f]]

VNextCall(o, r) ==
    CASE o = "FuturesQueryFundInfo" -> FuturesQueryFundInfo(r)
      [] o = "FuturesQueryHoldsList" -> FuturesQueryHoldsList(r)
      [] o = "FuturesQueryRealEntrustList" -> FuturesQueryRealEntrustList(r)
      [] o = "FuturesQueryRealDeliverList" -> FuturesQueryRealDeliverList(r)
      [] o = "FuturesQueryHistoryEntrustList" -> FuturesQueryHistoryEntrustPage(r)
      [] o = "FuturesQueryHistoryDeliverList" -> FuturesQueryHistoryDeliverPage(r)
      [] o = "FuturesQueryProductInfo" -> FuturesQueryProductInfo(r)
      [] o = "FuturesQueryMaxBuySellAmount" -> FuturesQueryMaxBuySellAmount(r)
      [] o = "FuturesEntrust" -> FuturesEntrust(r)
      [] o = "FuturesCancelEntrust" -> FuturesCancelEntrust(r)
      [] o = "FuturesModifyEntrust" -> FuturesModifyEntrust(r)
      [] o = "AlgoQueryOrderList" -> AlgoQueryOrderList(r)
      [] o = "AlgoQueryEntrustIdList" -> AlgoQueryEntrustIDList(r)
      [] o = "AlgoAddOrder" -> AlgoAddOrder(r)
      [] o = "AlgoCancelOrder" -> AlgoCancelOrder(r)
      [] o = "AlgoCancelEntrust" -> AlgoCancelEntrust(r)
      [] o = "AlgoChangeOrder" -> AlgoChangeOrder(r)
      [] o = "AlgoActionOrder" -> AlgoActionOrder(r)
      [] o = "TradeEntrust" -> Entrust(r)
      [] o = "TradeCancelEntrust" -> CancelEntrust(r)
      [] o = "TradeBatchCancelEntrust" -> BatchCancelEntrust(r)
      [] o = "TradeChangeEntrust" -> ChangeEntrust(r)
      [] o = "TradeQueryMaxAvailableAsset" -> MaxAvailableAsset(r)
      [] o = "TradeQueryMarginFullInfo" -> MarginFullInfo(r)
      [] o = "TradeQueryBeforeAndAfterSupport" -> BeforeAndAfterSupport(r)
      [] o = "TradeSubscribe" -> SubscribeOrders(r)
      [] o = "TradeUnsubscribe" -> UnsubscribeOrders(r)
      [] o = "TradeQueryRealEntrustList" -> RealEntrustList(r)
      [] o = "TradeQueryRealDeliverList" -> RealDeliverList(r)
      [] o = "TradeQueryHistoryEntrustList" -> HistoryEntrustList(r)
      [] o = "TradeQueryHistoryDeliverList" -> HistoryDeliverList(r)
      [] o = "TradeQueryRealCondOrderList" -> RealCondOrderList(r)
      [] o = "TradeQueryHistoryCondOrderList" -> HistoryCondOrderList(r)
      [] o = "TradeQueryMarginFundInfo" -> MarginFundInfo(r)
      [] o = "TradeQueryHoldsList" -> HoldsList(r)
      [] o = "TradeQueryRealFundJourList" -> RealFundJourList(r)
      [] o = "TradeQueryHistoryFundJourList" -> HistoryFundJourList(r)
      [] o = "hs/rate/queryList" -> RateQueryList(r)
      [] o = "BasicQot" -> BasicQot(r)
      [] o = "OrderBook" -> OrderBook(r)
      [] o = "KL" -> KL(r)
      [] o = "TimeShare" -> TimeShare(r)
      [] o = "Ticker" -> Ticker(r)
      [] o = "Broker" -> Broker(r)
      [] o = "UsOptionChainCode" -> UsOptionChainCode(r)
      [] o = "UsOptionChainExpireDate" -> UsOptionChainExpireDate(r)
      [] o = "UsOverNightTradeCodes" -> UsOverNightTradeCodes(r)
      [] o = "Subscribe" -> Subscribe(r)
      [] o = "Unsubscribe" -> Unsubscribe(r)

\* What a migrating caller had written for the released layer: a strategy
\* value left at zero was an absent text there.
Migrated(r) ==
    [f \in DOMAIN r |->
        IF f \in {"maxVolume", "minAmount", "showQty", "qtyPercent", "interval"} /\ r[f] = "0"
        THEN "" ELSE r[f]]

ReleasedCall(o, r) ==
    CASE o = "FuturesQueryFundInfo" -> future_QueryFundInfo(r)
      [] o = "FuturesQueryHoldsList" -> future_QueryHoldsList(r)
      [] o = "FuturesQueryRealEntrustList" -> future_QueryRealEntrustList(r)
      [] o = "FuturesQueryRealDeliverList" -> future_QueryRealDeliverList(r)
      [] o = "FuturesQueryHistoryEntrustList" -> future_QueryHistoryEntrustList(r)
      [] o = "FuturesQueryHistoryDeliverList" -> future_QueryHistoryDeliverList(r)
      [] o = "FuturesQueryProductInfo" -> future_QueryProductInfo(r)
      [] o = "FuturesQueryMaxBuySellAmount" -> future_QueryMaxBuySellAmount(r)
      [] o = "FuturesEntrust" -> future_Entrust(r)
      [] o = "FuturesCancelEntrust" -> future_CancelEntrust(r)
      [] o = "FuturesModifyEntrust" -> future_ModifyEntrust(r)
      [] o = "AlgoQueryOrderList" -> algo_QueryOrderList(r)
      [] o = "AlgoQueryEntrustIdList" -> algo_QueryEntrustIDList(r)
      [] o = "AlgoAddOrder" -> algo_AddOrder(Migrated(r))
      [] o = "AlgoCancelOrder" -> algo_CancelOrder(r)
      [] o = "AlgoCancelEntrust" -> algo_CancelEntrust(r)
      [] o = "AlgoChangeOrder" -> algo_ChangeOrder(Migrated(r))
      [] o = "AlgoActionOrder" -> algo_ActionOrder(r)
      [] o = "TradeEntrust" -> trade_Entrust(r)
      [] o = "TradeCancelEntrust" -> trade_CancelEntrust(r)
      [] o = "TradeBatchCancelEntrust" -> trade_BatchCancelEntrust(r)
      [] o = "TradeChangeEntrust" -> trade_ChangeEntrust(r)
      [] o = "TradeQueryMaxAvailableAsset" -> trade_MaxAvailableAsset(r)
      [] o = "TradeQueryMarginFullInfo" -> trade_MarginFullInfo(r)
      [] o = "TradeQueryBeforeAndAfterSupport" -> trade_BeforeAndAfterSupport(r)
      [] o = "TradeSubscribe" -> trade_SubscribeOrders(r)
      [] o = "TradeUnsubscribe" -> trade_UnsubscribeOrders(r)
      [] o = "TradeQueryRealEntrustList" -> trade_RealEntrustList(r)
      [] o = "TradeQueryRealDeliverList" -> trade_RealDeliverList(r)
      [] o = "TradeQueryHistoryEntrustList" -> trade_HistoryEntrustList(r)
      [] o = "TradeQueryHistoryDeliverList" -> trade_HistoryDeliverList(r)
      [] o = "TradeQueryRealCondOrderList" -> trade_RealCondOrderList(r)
      [] o = "TradeQueryHistoryCondOrderList" -> trade_HistoryCondOrderList(r)
      [] o = "TradeQueryMarginFundInfo" -> trade_MarginFundInfo(r)
      [] o = "TradeQueryHoldsList" -> trade_Positions(r)
      [] o = "TradeQueryRealFundJourList" -> trade_RealFundJourList(r)
      [] o = "TradeQueryHistoryFundJourList" -> trade_HistoryFundJourList(r)
      [] o = "hs/rate/queryList" -> trade_ExchangeRate(r)
      [] o = "BasicQot" -> market_BasicQot(r)
      [] o = "OrderBook" -> market_OrderBook(r)
      [] o = "KL" -> market_KL(r)
      [] o = "TimeShare" -> market_TimeShare(r)
      [] o = "Ticker" -> market_Ticker(r)
      [] o = "Broker" -> market_Broker(r)
      [] o = "UsOptionChainCode" -> market_UsOptionChainCode(r)
      [] o = "UsOptionChainExpireDate" -> market_UsOptionChainExpireDate(r)
      [] o = "UsOverNightTradeCodes" -> market_UsOverNightTradeCodes(r)
      [] o = "Subscribe" -> market_Subscribe(r)
      [] o = "Unsubscribe" -> market_Unsubscribe(r)

-----------------------------------------------------------------------------
(* The replies                                                             *)

Bad == {"", "text", "1e-7"}

\* The decimal fields of the row an operation's reply carries.
RowFields(o) ==
    CASE o \in {"TradeQueryRealEntrustList", "TradeQueryHistoryEntrustList",
                "TradeQueryRealDeliverList", "TradeQueryHistoryDeliverList"} ->
            EntrustWire \cup FareWire
      [] o \in {"TradeQueryRealCondOrderList", "TradeQueryHistoryCondOrderList"} -> CondOrderWire
      [] o = "TradeQueryMaxAvailableAsset" -> MaxAvailableWire
      [] o = "TradeQueryMarginFullInfo" -> MarginFullInfoWire \cup RateWire
      [] o = "TradeQueryMarginFundInfo" -> MarginFundInfoWire
      [] o = "TradeQueryHoldsList" -> HoldsVoWire
      [] o \in {"TradeQueryRealFundJourList", "TradeQueryHistoryFundJourList"} -> FundJourVoWire
      [] o = "hs/rate/queryList" -> {"rate"}
      [] o = "FuturesQueryProductInfo" -> FuturesProductInfoWire
      [] o = "FuturesQueryMaxBuySellAmount" -> FuturesMaxBuySellAmountWire
      [] o = "FuturesQueryFundInfo" -> FuturesFundInfoWire
      [] o = "FuturesQueryHoldsList" -> FuturesHoldWire
      [] o \in {"FuturesQueryRealEntrustList", "FuturesQueryHistoryEntrustList",
                "FuturesQueryRealDeliverList", "FuturesQueryHistoryDeliverList"} -> FuturesOrderWire
      [] o = "AlgoQueryOrderList" -> AlgoMasterOrderWire \cup AlgoStrategyParamWire
      [] o = "BasicQot" -> DOMAIN domain_Quote
      [] o = "KL" -> DOMAIN domain_KLine
      [] o = "TimeShare" -> DOMAIN domain_TimeSharePoint
      [] o = "Ticker" -> DOMAIN domain_TickerTick
      [] o \in {"OrderBook", "Broker"} -> {"price"}
      [] OTHER -> {}

MarketReads == {"BasicQot", "OrderBook", "KL", "TimeShare", "Ticker", "Broker"}

\* A JSON number cannot be absent, but a list may hold a null row.
Rows(o) ==
    IF o \in MarketReads THEN RowsOf(RowFields(o), {"0", "1e-7"}) \cup {NilRow}
    ELSE IF RowFields(o) = {} THEN {} ELSE RowsOf(RowFields(o), Bad)

\* The mapping step of each method.  A margin row comes with one rate, an
\* entrust row with its fares.
MapReply(o, v) ==
    CASE o \in {"TradeQueryRealEntrustList", "TradeQueryHistoryEntrustList"} -> EntrustFromWire(v, v)
      [] o \in {"TradeQueryRealDeliverList", "TradeQueryHistoryDeliverList"} -> FillFromWire(v, v)
      [] o \in {"TradeQueryRealCondOrderList", "TradeQueryHistoryCondOrderList"} -> CondOrderFromWire(v)
      [] o = "TradeQueryMaxAvailableAsset" -> MaxAvailableFromWire(v)
      [] o = "TradeQueryMarginFullInfo" -> MarginInfoFromWire(v, v)
      [] o = "TradeQueryMarginFundInfo" -> AccountBalanceFromDTO(v)
      [] o = "TradeQueryHoldsList" -> PositionFromDTO(v)
      [] o \in {"TradeQueryRealFundJourList", "TradeQueryHistoryFundJourList"} -> FundJournalEntryFromDTO(v)
      [] o = "hs/rate/queryList" -> InterestRateFromDTO(v)
      [] o = "FuturesQueryProductInfo" -> FuturesProductFromDTO(v)
      [] o = "FuturesQueryMaxBuySellAmount" -> FuturesCapacityFromDTO(v, "")
      [] o = "FuturesQueryFundInfo" -> FuturesAccountFromDTO(v)
      [] o = "FuturesQueryHoldsList" -> FuturesPositionFromDTO(v)
      [] o \in {"FuturesQueryRealEntrustList", "FuturesQueryHistoryEntrustList"} -> FuturesOrderFromDTO(v)
      [] o \in {"FuturesQueryRealDeliverList", "FuturesQueryHistoryDeliverList"} -> FuturesFillFromDTO(v)
      [] o = "AlgoQueryOrderList" -> AlgoMasterOrderFromDTO(v)
      [] o = "BasicQot" -> convertToQuote(v)
      [] o = "KL" -> convertToKLine(v)
      [] o = "TimeShare" -> convertToTimeSharePoint(v)
      [] o = "Ticker" -> convertToTickerTick(v)
      [] o = "OrderBook" -> convertOrderBookLevels(v)
      [] o = "Broker" -> convertBrokerEntries(v)

-----------------------------------------------------------------------------
(* The frames                                                              *)

Codes == {Code("700", "HK"), Code("700", "hk"), Code("700", ""), Code("700", "SZ"),
          Code("", "HK"), Code("TSLA", "US"), Code("tsla", "")}

BaseFrame ==
    [flag |-> "HS", bodyLen |-> 1, compress |-> 0, kind |-> "push", signature |-> "good",
     type |-> "BasicQot", id |-> Code("700", "HK"), payload |-> "message",
     code |-> Code("700", "HK"), row |-> NilRow]

NotifyTypes == MarketTypes \cup tradeNotifyTypes \cup {"other"}
EventFields(type) ==
    CASE type = "BasicQot" -> DOMAIN domain_QuoteEvent
      [] type = "Ticker" -> DOMAIN domain_TickerEvent
      [] type = "OrderBook" -> DOMAIN domain_OrderBookLevel
      [] type \in tradeNotifyTypes -> DOMAIN domain_TradeEvent
      [] OTHER -> {}

\* Frames about every instrument, frames of every type and payload, and
\* frames with one number out of the ordinary.
InstrumentFrame(t, i, c) == [BaseFrame EXCEPT !.type = t, !.id = i, !.code = c]
InstrumentFrames ==
    {InstrumentFrame(t, i, c) :
        t \in {"BasicQot", "Ticker"}, i \in Codes \cup {NoCode}, c \in Codes \cup {NoCode}}
TypeFrame(t, p) == [BaseFrame EXCEPT !.type = t, !.payload = p]
TypeFrames ==
    {TypeFrame(t, p) : t \in NotifyTypes, p \in {"nil", "empty", "garbled", "message"}}
NumberFrame(t, v) == [BaseFrame EXCEPT !.type = t, !.row = v]
NumberFrames ==
    UNION {{NumberFrame(t, v) :
               v \in RowsOf(EventFields(t), IF t \in MarketTypes THEN {"0", "1e-7"} ELSE Bad)} :
           t \in NotifyTypes}

\* Frames with one header field out of the ordinary.
HeaderFrames ==
    UNION {{[f EXCEPT !.flag = "XX"], [f EXCEPT !.compress = 1]}
           \cup {[f EXCEPT !.bodyLen = n] : n \in {-1, 0, MaxBodyLen, MaxBodyLen + 1}}
           \cup {[f EXCEPT !.kind = k] : k \in {"heartbeat", "request", "response", "other"}}
           \cup {[f EXCEPT !.signature = g] : g \in {"none", "bad"}} : f \in TypeFrames}

Options == [key : BOOLEAN, required : BOOLEAN]
Unverified == [key |-> FALSE, required |-> FALSE]

\* Two live subscriptions, to quotes or ticks of one instrument each, or of
\* one instrument under two spellings.
Subscription(topic, securities) == [topic |-> topic, securities |-> securities]
Watched == {u \in {{c} : c \in Codes \cup {NoCode}} \cup {{Code("700", "HK"), Code("700", "")}} :
               copyAndValidateSecurities(u)}
Subscriptions == {Subscription(t, u) : t \in {11, 14}, u \in Watched}
BaseSubscriptions == <<Subscription(11, {Code("700", "HK")}),
                       Subscription(14, {Code("TSLA", "US")})>>
OrderSubscriptions == {"o1", "o2"}

-----------------------------------------------------------------------------
(* The audit                                                               *)

Init ==
    /\ op \in Ops
    /\ req = BaseRequest(op)
    /\ edited = {}
    /\ phase = "compose"
    /\ vnext = NoCall /\ released = NoCall
    /\ row = NilRow /\ mapped = NilRow
    /\ push = NoPush

Edit(f, v) ==
    /\ phase = "compose"
    /\ f \notin edited
    /\ Cardinality(edited) < MaxEdits
    /\ v # req[f]
    /\ req' = [req EXCEPT ![f] = v]
    /\ edited' = edited \cup {f}
    /\ UNCHANGED <<op, phase, vnext, released, row, mapped, push>>

Submit ==
    /\ phase = "compose"
    /\ vnext' = VNextCall(op, req)
    /\ released' = ReleasedCall(op, req)
    /\ phase' = IF Accepted(vnext') THEN "sent" ELSE "refused"
    /\ UNCHANGED <<op, req, edited, row, mapped, push>>

\* No mapper looks at the request, so the replies to the base request stand
\* for all of them.
Reply(v) ==
    /\ phase = "sent"
    /\ edited = {}
    /\ row' = v
    /\ mapped' = MapReply(op, v)
    /\ phase' = "mapped"
    /\ UNCHANGED <<op, req, edited, vnext, released, push>>

Subscribed == phase = "sent" /\ op = "Subscribe" /\ edited = {}

\* The notification of a turn, if its type has a handler; one that has none is
\* not normalised.
Handled(turn) == {n \in turn.notes : n.type \in marketNotifyTypes \cup tradeNotifyTypes}

\* What becomes of a frame while the market subscriptions subs and the order
\* subscriptions orders are live, once it is through the dispatch queue.
Fate(f, opts, subs, orders, routed, served) ==
    [frame |-> f, opts |-> opts, subs |-> subs, orders |-> orders,
     turn |-> readLoopTurn(f, opts), vnext |-> routed, released |-> served]

Receive(f, opts, subs, orders) ==
    /\ \/ \E n \in Handled(readLoopTurn(f, opts)) :
            /\ push' = Fate(f, opts, subs, orders, install(convert(n), subs, orders),
                            stream_deliver(n, subs))
            /\ row' = n.row
            /\ mapped' = convert(n).row
       \/ /\ Handled(readLoopTurn(f, opts)) = {}
          /\ push' = Fate(f, opts, subs, orders, Routed({}, {}, FALSE), {})
          /\ UNCHANGED <<row, mapped>>
    /\ phase' = "pushed"
    /\ UNCHANGED <<op, req, edited, vnext, released>>

\* The caller starts over with another operation.
Again(o) ==
    /\ phase \in {"refused", "sent", "mapped", "pushed"}
    /\ op' = o
    /\ req' = BaseRequest(o)
    /\ edited' = {}
    /\ phase' = "compose"
    /\ vnext' = NoCall /\ released' = NoCall
    /\ row' = NilRow /\ mapped' = NilRow
    /\ push' = NoPush

Next ==
    \/ \E f \in DOMAIN req : \E v \in Fields(op)[f] : Edit(f, v)
    \/ Submit
    \/ \E v \in Rows(op) : Reply(v)
    \/ /\ Subscribed
       /\ \/ \E f \in InstrumentFrames \cup TypeFrames : \E s1, s2 \in Subscriptions :
                Receive(f, Unverified, <<s1, s2>>, {})
          \/ \E f \in TypeFrames \cup NumberFrames \cup HeaderFrames : \E opts \in Options :
                \E orders \in SUBSET OrderSubscriptions :
                    Receive(f, opts, BaseSubscriptions, orders)
    \/ \E o \in Ops : Again(o)

Spec == Init /\ [][Next]_vars

-----------------------------------------------------------------------------
(* Properties                                                              *)

\* The released call w of request r lets the request through, but for an algo
\* price of zero, which only the released layer refuses, and the page of an
\* algo list, which only v-next fills in.
LetThrough(o, r, w) ==
    \/ Accepted(w)
    \/ /\ o \in {"AlgoAddOrder", "AlgoChangeOrder"}
       /\ w.refusal = "entrustPrice" /\ Zero(r.entrustPrice)
    \/ /\ o = "AlgoQueryOrderList"
       /\ r.pageNo <= 0 \/ r.pageSize <= 0

\* The futures, algo and market services were written beside the released
\* ones, so whatever they let through the released layer lets through too.
NeverLooser ==
    phase = "sent" /\ op \in FuturesOps \cup AlgoOps \cup MarketCalls
        => LetThrough(op, req, released)

Orders == {"TradeEntrust", "FuturesEntrust", "FuturesModifyEntrust", "FuturesCancelEntrust",
           "AlgoAddOrder", "AlgoChangeOrder", "AlgoCancelOrder", "AlgoCancelEntrust",
           "AlgoActionOrder"}

\* The calls v and w of the two layers put one order on the wire: same route,
\* every key the released layer writes with the same value, and any key v-next
\* writes besides says "nothing" (a zero).  Cash orders of the mainland markets
\* are outside it: exchangeTypeForMarket has no code for them.
SameOrder(o, r, v, w) ==
    /\ v.path = w.path
    /\ \A k \in DOMAIN w.body :
          \/ k \in DOMAIN v.body /\ v.body[k] = w.body[k]
          \/ o = "TradeEntrust" /\ r.market \notin {"HK", "US"} /\ k = "exchangeType"
    /\ \A k \in DOMAIN v.body \ DOMAIN w.body :
          IF o = "TradeEntrust" THEN v.body[k] = 0 ELSE v.body[k] = "0"

\* An order both layers take is the same order on the wire.
SameOrderOnTheWire ==
    phase = "sent" /\ op \in Orders /\ Accepted(released) => SameOrder(op, req, vnext, released)

\* The price bands of the exchange written as the prices of each band: from
\* the top of the band below in whole ticks.
BandFloor(i) == IF i = 1 THEN 0 ELSE hkStockPriceBands[i - 1].upper
LegalHKPrice(p) ==
    \/ p > hkStockPriceBands[Len(hkStockPriceBands)].upper
    \/ \E i \in DOMAIN hkStockPriceBands :
         /\ BandFloor(i) <= p /\ p <= hkStockPriceBands[i].upper
         /\ (p - BandFloor(i)) % hkStockPriceBands[i].tick = 0

\* What validateOrderForHK promises of a Hong Kong stock order: a whole number
\* of board lots at a price of its band, placed inside its session; never a
\* conditional order at the market, and a trigger and at most maxValidDays days for
\* each of the three at a limit.  Both ends are in: 09:30 and 12:00 are of two
\* sessions.
OnGrid(o) ==
    o.market = "HK" /\ o.dtype = "HKStock"
        => /\ o.amount % Lots(1) = 0
           /\ isPriceOptional(o.type) \/ LegalHKPrice(Dec(o.price))
           /\ o.session = "1" => o.clock \in 540..570
           /\ o.session = "2" => o.clock \in 570..720
           /\ o.session = "3" => o.clock \in 720..960
           /\ o.type \notin {"32", "34", "36"}
           /\ o.type \in {"31", "33", "35"} => o.condValue # "" /\ Dec(o.validDays) \in 1..100

\* No cash order off the grid leaves the v-next layer (Entrust).
HKOrdersAreOnGrid == phase = "sent" /\ op = "TradeEntrust" => OnGrid(req)

WrappedReads == FuturesOps \cup {"AlgoQueryOrderList"}

\* The amounts a mapper may give for a text of the wire: its value, zero for
\* an absent one and none for what is no number.  A mapper that is not tolerant
\* may also fail on an absent one.
Readings(text, tolerant) ==
    CASE Decimal(text) -> {text}
      [] text = "1e-7" -> {"0.0000001"}
      [] text = "" -> IF tolerant THEN {"0"} ELSE {"0", Panicked}
      [] OTHER -> {Panicked}

TextOf(r, f) == IF f \in DOMAIN r THEN r[f] ELSE ""
AsOnTheWire(m, r, tolerant) ==
    \A f \in DOMAIN m : m[f].amount \in Readings(TextOf(r, f), tolerant)

AsSent(o, m, r) ==
    IF o \in WrappedReads \cup {"Subscribe"} THEN AsOnTheWire(m, r, TRUE) ELSE AsOnTheWire(m, r, FALSE)

\* No amount is made up: every decimal of a mapped row is the wire's, or zero
\* for one the Gateway left out, and text that is no number is never mapped.
\* An absent decimal stops no futures or algo read and no pushed delivery
\* (futuresMoney and its like, pushDecimal); of a cash, account or market read
\* this says nothing about it.
NoInventedAmounts ==
    phase \in {"mapped", "pushed"} => AsSent(op, mapped, row)

\* The fate p of one frame: it reaches a subscription, is counted as unrouted
\* or is reported.  Two kinds are lost: one of a type the SDK does not know and
\* without payload, and a delivery while no order subscription is live.  What
\* could not be verified reaches nobody unreported.
AccountedFor(p) ==
    LET delivered == p.vnext.to \cup p.vnext.orders # {}
        delivery == \E n \in p.turn.notes : n.type \in tradeNotifyTypes
    IN  /\ p.frame.kind = "push" /\ ~p.turn.ends
              => \/ delivered \/ p.vnext.unrouted \/ p.turn.errors # {}
                 \/ p.frame.type = "other" /\ p.frame.payload = "nil"
                 \/ delivery /\ p.orders = {}
        /\ delivered /\ p.opts.key /\ p.frame.signature # "good"
              => "verification" \in p.turn.errors /\ ~p.opts.required

\* The read loop and the routing (readLoop, dispatchMarket, dispatchTrade) lose
\* no push frame but those two kinds, and deliver none that failed verification
\* when verification is required.  What the dispatch queue between them evicts
\* is not their doing (PushPipeline).
EveryFrameIsAccountedFor == phase = "pushed" => AccountedFor(push)

\* Two spellings of one instrument: the same letters, and the same market
\* unless one of them names none.
SameInstrument(a, b) ==
    /\ ToUpper(a.bare) = ToUpper(b.bare)
    /\ ToUpper(a.suffix) = ToUpper(b.suffix) \/ (a.bare # "" /\ "" \in {a.suffix, b.suffix})
SameLetters(a, b) == ToUpper(a.bare) = ToUpper(b.bare)

Names(f) == ({f.id} \cup IF f.payload = "message" THEN {f.code} ELSE {}) \ {NoCode}

\* The frame of p names, under a spelling that is Alike, an instrument that
\* subscription i asked for.
Asked(p, i, Alike(_, _)) == \E a \in p.subs[i].securities, b \in Names(p.frame) : Alike(a, b)

ServesWhoAsked(p) ==
    \A i \in DOMAIN p.subs :
        /\ Asked(p, i, SameInstrument) => i \in p.vnext.to
        /\ i \in p.vnext.to => Asked(p, i, SameLetters)
        /\ i \in p.vnext.to /\ NotifyTypeForTopic(p.subs[i].topic) = p.frame.type
              => i \in p.released

\* A market update reaches every subscription to an instrument it names, on
\* its id or in its payload and however either is spelled, and none to a
\* code of other letters; whoever asked for its type as well is served by the
\* released client too (dispatchMarket, stream deliver).
ReachesWhoAsked ==
    phase = "pushed" /\ push.turn.notes # {} /\ push.frame.bodyLen # 0
        /\ push.frame.type \in MarketTypes
        => ServesWhoAsked(push)

\* "NotifyMsgType reports the payload type this subscription's frames carry,
\* which is NotifyTypeForTopic(TopicID())" (services/push.go): an update that
\* one subscription asked for is handed to no other of another type.
FramesCarryTheSubscribedType ==
    phase = "pushed" =>
        LET OfItsType(i) == NotifyTypeForTopic(push.subs[i].topic) = push.frame.type
        IN  (\E i \in push.vnext.to : OfItsType(i)) => \A i \in push.vnext.to : OfItsType(i)

=============================================================================
