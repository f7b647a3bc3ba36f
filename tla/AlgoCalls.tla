----------------------------- MODULE AlgoCalls -----------------------------
(***************************************************************************)
(* The seven algorithm endpoints as pkg/services/algo.go and               *)
(* pkg/hstong/algo/algo.go build them.  The v-next operators bear the      *)
(* names of services/algo.go, the released ones begin with algo_.          *)
(*                                                                         *)
(* The v-next layer takes decimals, whose zero means absent in the         *)
(* strategy tuning; the released layer takes text, empty when absent.      *)
(***************************************************************************)
EXTENDS WireValues

AlgoStrategyParam == [
    origStartTime |-> {"", "text", "time"},
    origEndTime |-> {"", "text", "time"},
    maxVolume |-> {"-1", "0", "1"},
    minAmount |-> {"-1", "0", "1"},
    sensitivity |-> {"", "1", "4"},
    showQty |-> {"-1", "0", "1"},
    qtyPercent |-> {"-1", "0", "0.5", "1", "99", "100"},
    interval |-> {"-1", "0", "1"}]

AlgoAddOrderRequest == [
    account |-> {"", "acct"},
    stockCode |-> {"", "blank", "padded", "gap", "code"},
    exchangeType |-> {"", "K", "P", "H"},
    entrustType |-> {"", "1", "2", "3"},
    entrustPrice |-> {"-1", "0", "1"},
    entrustAmount |-> {"-1", "0", "1"},
    entrustBs |-> {"", "1", "4", "5"},
    targetStrategy |-> {"", "1"},
    sessionType |-> {"", "0", "1", "2"}]

AlgoChangeOrderRequest == [
    account |-> {"", "acct"},
    orderId |-> {"", "blank", "code"},
    stockCode |-> {"", "gap", "code"},
    exchangeType |-> {"", "K", "H"},
    entrustPrice |-> {"-1", "0", "1"},
    entrustAmount |-> {"-1", "0", "1"}]

AlgoCancelOrderRequest == [
    account |-> {"", "acct"},
    orderId |-> {"", "blank", "code"},
    exchangeType |-> {"", "K", "t", "H"}]

AlgoCancelEntrustRequest == [
    account |-> {"", "acct"},
    orderId |-> {"", "blank", "code"},
    entrustId |-> {"", "blank", "code"},
    exchangeType |-> {"", "K", "v", "H"}]

AlgoActionRequest == [
    account |-> {"", "acct"},
    orderId |-> {"", "blank", "code"},
    targetStrategy |-> {"", "1"},
    exchangeType |-> {"", "K", "H"},
    action |-> {"", "1", "4", "5"}]

AlgoOrderQuery == [
    account |-> {"", "acct"},
    pageNo |-> {-1, 0, 1},
    pageSize |-> {-1, 0, 1, 100},
    startDate |-> {"", "text", "99999999", "date"},
    endDate |-> {"", "text", "99999999", "date"},
    exchangeType |-> {"", "K", "H"},
    stockCode |-> {"", "gap", "code"}]

AlgoEntrustIDQuery == [
    account |-> {"", "acct"},
    orderId |-> {"", "blank", "code"},
    tradeDate |-> {"", "text", "99999999", "date"},
    exchangeType |-> {"", "K", "H"}]

-----------------------------------------------------------------------------
(* v-next validators                                                       *)

algoDefaultPageNo == 1
algoDefaultPageSize == 30

algoValidateStockCode(code) == Trim(code) # "" /\ ~HasSpace(Trim(code))
algoValidateExchangeType(exchange) == exchange \in Exchanges
algoValidateDirection(side) == side \in Directions
algoValidateOrderType(type) == type \in {"1", "2"}
algoValidateSessionType(session) == session \in {"0", "1"}
algoValidateAction(action) == action \in {"1", "2", "3", "4"}
algoValidateStrategy(strategy) == strategy # ""
algoValidateOrderPrice(price) == ~Negative(price)
algoValidateOrderQuantity(qty) == Positive(qty)
algoValidateMaxVolume(v) == ~Negative(v)
algoValidateOptionalQuantity(q) == ~Negative(q)
algoValidateOptionalMoney(m) == ~Negative(m)

algoValidateRequiredMaxVolume(v) == Positive(v)
algoValidateRequiredSensitivity(s) == s \in {"1", "2", "3"}
algoValidateOptionalSensitivity(s) == s # "" => s \in {"1", "2", "3"}
algoValidateDate(d) == DateShaped(d) /\ CalendarDate(d)
algoValidateTimeShaped(t) == t # "" => t = "time"
algoValidateInterval(i) == ~Negative(i)

\* Zero is absent; otherwise a whole number of one or two digits, not all 0.
algoValidateQtyPercent(p) ==
    Zero(p) \/ (~Negative(p) /\ WholeNumber(p) /\ p \in {"1", "2", "99"})

algoValidateOrderID(id) == Trim(id) # ""
algoValidateEntrustID(id) == Trim(id) # ""

algoValidateStrategyParamTimes(r) ==
    << <<"origStartTime", algoValidateTimeShaped(r.origStartTime)>>,
       <<"origEndTime", algoValidateTimeShaped(r.origEndTime)>> >>

-----------------------------------------------------------------------------
(* v-next bodies                                                           *)

algoStrategyTags == DOMAIN AlgoStrategyParam

\* Mutant: a zero decimal is written as one.
algoStrategyParamWireFromZeros(r) ==
    OmitEmpty([f \in algoStrategyTags |-> r[f]], algoStrategyTags)

\* A zero decimal leaves its key out.
algoStrategyParamWireFrom(r) ==
    LET text(d) == IF Zero(d) THEN "" ELSE d
    IN  OmitEmpty(
            [origStartTime |-> r.origStartTime, origEndTime |-> r.origEndTime,
             interval |-> text(r.interval), maxVolume |-> text(r.maxVolume),
             minAmount |-> text(r.minAmount), sensitivity |-> r.sensitivity,
             showQty |-> text(r.showQty), qtyPercent |-> text(r.qtyPercent)],
            algoStrategyTags)

algoAddOrderWireRequest(r) ==
    [exchangeType |-> r.exchangeType, stockCode |-> r.stockCode,
     entrustType |-> r.entrustType, entrustBs |-> r.entrustBs,
     entrustAmount |-> r.entrustAmount, entrustPrice |-> r.entrustPrice,
     targetStrategy |-> r.targetStrategy, sessionType |-> r.sessionType,
     strategyParam |-> algoStrategyParamWireFrom(r)]

algoChangeOrderWireRequest(r) ==
    [orderId |-> r.orderId, exchangeType |-> r.exchangeType,
     stockCode |-> r.stockCode, entrustAmount |-> r.entrustAmount,
     entrustPrice |-> r.entrustPrice, strategyParam |-> algoStrategyParamWireFrom(r)]

algoCancelOrderWireRequest(r) ==
    [exchangeType |-> r.exchangeType, orderId |-> r.orderId]

algoCancelEntrustWireRequest(r) ==
    [exchangeType |-> r.exchangeType, orderId |-> r.orderId, entrustId |-> r.entrustId]

algoActionOrderWireRequest(r) ==
    [orderId |-> r.orderId, exchangeType |-> r.exchangeType,
     action |-> r.action, targetStrategy |-> r.targetStrategy]

algoOrderQueryWireRequest(r) == OmitEmpty(
    [pageNo |-> IF r.pageNo <= 0 THEN algoDefaultPageNo ELSE r.pageNo,
     pageSize |-> IF r.pageSize <= 0 THEN algoDefaultPageSize ELSE r.pageSize,
     startDate |-> r.startDate, endDate |-> r.endDate,
     exchangeType |-> r.exchangeType, stockCode |-> r.stockCode],
    {"exchangeType", "stockCode"})

algoEntrustIDQueryWireRequest(r) ==
    [orderId |-> r.orderId, tradeDate |-> r.tradeDate, exchangeType |-> r.exchangeType]

-----------------------------------------------------------------------------
(* v-next methods                                                          *)

algoAccountCheck(r) == << <<"accountID", r.account # "">> >>

AlgoQueryOrderList(r) == Call("AlgoQueryOrderList",
    algoAccountCheck(r)
    \o << <<"startDate", algoValidateDate(r.startDate)>>,
          <<"endDate", algoValidateDate(r.endDate)>>,
          <<"exchangeForCode", r.stockCode # "" => r.exchangeType # "">>,
          <<"exchangeType", r.exchangeType # "" => algoValidateExchangeType(r.exchangeType)>>,
          <<"stockCode", r.stockCode # "" => algoValidateStockCode(r.stockCode)>> >>,
    algoOrderQueryWireRequest(r))

AlgoQueryEntrustIDList(r) == Call("AlgoQueryEntrustIdList",
    algoAccountCheck(r)
    \o << <<"orderId", algoValidateOrderID(r.orderId)>>,
          <<"tradeDate", algoValidateDate(r.tradeDate)>>,
          <<"exchangeType", algoValidateExchangeType(r.exchangeType)>> >>,
    algoEntrustIDQueryWireRequest(r))

AlgoAddOrder(r) == Call("AlgoAddOrder",
    algoAccountCheck(r)
    \o << <<"stockCode", algoValidateStockCode(r.stockCode)>>,
          <<"exchangeType", algoValidateExchangeType(r.exchangeType)>>,
          <<"entrustType", algoValidateOrderType(r.entrustType)>>,
          <<"entrustPrice", algoValidateOrderPrice(r.entrustPrice)>>,
          <<"entrustAmount", algoValidateOrderQuantity(r.entrustAmount)>>,
          <<"entrustBs", algoValidateDirection(r.entrustBs)>>,
          <<"targetStrategy", algoValidateStrategy(r.targetStrategy)>>,
          <<"sessionType", algoValidateSessionType(r.sessionType)>>,
          <<"maxVolume", algoValidateRequiredMaxVolume(r.maxVolume)>>,
          <<"sensitivity", algoValidateRequiredSensitivity(r.sensitivity)>> >>
    \o algoValidateStrategyParamTimes(r)
    \o << <<"minAmount", algoValidateOptionalMoney(r.minAmount)>>,
          <<"showQty", algoValidateOptionalQuantity(r.showQty)>>,
          <<"qtyPercent", algoValidateQtyPercent(r.qtyPercent)>>,
          <<"interval", algoValidateInterval(r.interval)>> >>,
    algoAddOrderWireRequest(r))

AlgoCancelOrder(r) == Call("AlgoCancelOrder",
    algoAccountCheck(r)
    \o << <<"orderId", algoValidateOrderID(r.orderId)>>,
          <<"exchangeType", algoValidateExchangeType(r.exchangeType)>> >>,
    algoCancelOrderWireRequest(r))

AlgoCancelEntrust(r) == Call("AlgoCancelEntrust",
    algoAccountCheck(r)
    \o << <<"orderId", algoValidateOrderID(r.orderId)>>,
          <<"entrustId", algoValidateEntrustID(r.entrustId)>>,
          <<"exchangeType", algoValidateExchangeType(r.exchangeType)>> >>,
    algoCancelEntrustWireRequest(r))

AlgoChangeOrder(r) == Call("AlgoChangeOrder",
    algoAccountCheck(r)
    \o << <<"orderId", algoValidateOrderID(r.orderId)>>,
          <<"stockCode", algoValidateStockCode(r.stockCode)>>,
          <<"exchangeType", algoValidateExchangeType(r.exchangeType)>>,
          <<"entrustPrice", algoValidateOrderPrice(r.entrustPrice)>>,
          <<"entrustAmount", algoValidateOrderQuantity(r.entrustAmount)>>,
          <<"sensitivity", algoValidateOptionalSensitivity(r.sensitivity)>> >>
    \o algoValidateStrategyParamTimes(r)
    \o << <<"maxVolume", algoValidateMaxVolume(r.maxVolume)>>,
          <<"minAmount", algoValidateOptionalMoney(r.minAmount)>>,
          <<"showQty", algoValidateOptionalQuantity(r.showQty)>>,
          <<"qtyPercent", algoValidateQtyPercent(r.qtyPercent)>>,
          <<"interval", algoValidateInterval(r.interval)>> >>,
    algoChangeOrderWireRequest(r))

AlgoActionOrder(r) == Call("AlgoActionOrder",
    algoAccountCheck(r)
    \o << <<"orderId", algoValidateOrderID(r.orderId)>>,
          <<"targetStrategy", algoValidateStrategy(r.targetStrategy)>>,
          <<"exchangeType", algoValidateExchangeType(r.exchangeType)>>,
          <<"action", algoValidateAction(r.action)>> >>,
    algoActionOrderWireRequest(r))

-----------------------------------------------------------------------------
(* The released layer                                                      *)

algo_validExchange(e) == e \in Exchanges
algo_validDirection(bs) == bs \in Directions
algo_EntrustType_valid(t) == t \in {"1", "2"}
algo_SessionType_valid(s) == s \in {"0", "1"}
algo_Sensitivity_valid(s) == s \in {"1", "2", "3"}
algo_Action_Valid(a) == a \in {"1", "2", "3", "4"}
algo_isDate(d) == DateShaped(d)
algo_isPositiveInt(n) == n > 0
algo_isPositiveDecimal(d) == Positive(d)

\* exchangeType: the manager's default, "" unless one was set, fills in.
algo_exchangeType(e, default) == IF e # "" THEN e ELSE default

algo_StrategyParam(r) == OmitEmpty([f \in algoStrategyTags |-> r[f]], algoStrategyTags)

algo_AddOrderParams_validate(r) ==
    << <<"stockCode", r.stockCode # "">>,
       <<"exchangeType", r.exchangeType # "" /\ algo_validExchange(r.exchangeType)>>,
       <<"entrustType", r.entrustType # "" /\ algo_EntrustType_valid(r.entrustType)>>,
       <<"entrustPrice", r.entrustPrice # "" /\ algo_isPositiveDecimal(r.entrustPrice)>>,
       <<"entrustAmount", r.entrustAmount # "" /\ algo_isPositiveDecimal(r.entrustAmount)>>,
       <<"entrustBs", r.entrustBs # "" /\ algo_validDirection(r.entrustBs)>>,
       <<"targetStrategy", r.targetStrategy # "">>,
       <<"sessionType", r.sessionType # "" /\ algo_SessionType_valid(r.sessionType)>>,
       <<"maxVolume", r.maxVolume # "" /\ algo_isPositiveDecimal(r.maxVolume)>>,
       <<"sensitivity", r.sensitivity # "" /\ algo_Sensitivity_valid(r.sensitivity)>> >>

algo_CancelOrderParams_validate(r) ==
    << <<"orderId", r.orderId # "">>,
       <<"exchangeType", r.exchangeType # "" /\ algo_validExchange(r.exchangeType)>> >>

algo_CancelEntrustParams_validate(r) ==
    << <<"orderId", r.orderId # "">>,
       <<"entrustId", r.entrustId # "">>,
       <<"exchangeType", r.exchangeType # "" /\ algo_validExchange(r.exchangeType)>> >>

algo_ChangeOrderParams_validate(r) ==
    << <<"orderId", r.orderId # "">>,
       <<"stockCode", r.stockCode # "">>,
       <<"exchangeType", r.exchangeType # "" /\ algo_validExchange(r.exchangeType)>>,
       <<"entrustPrice", r.entrustPrice # "" /\ algo_isPositiveDecimal(r.entrustPrice)>>,
       <<"entrustAmount", r.entrustAmount # "" /\ algo_isPositiveDecimal(r.entrustAmount)>>,
       <<"sensitivity", r.sensitivity # "" => algo_Sensitivity_valid(r.sensitivity)>> >>

algo_ActionOrderParams_validate(r) ==
    << <<"orderId", r.orderId # "">>,
       <<"targetStrategy", r.targetStrategy # "">>,
       <<"exchangeType", r.exchangeType # "" /\ algo_validExchange(r.exchangeType)>>,
       <<"action", algo_Action_Valid(r.action)>> >>

\* No check that the code has any shape, and the page may not be left out.
algo_QueryOrderListParams_validate(r) ==
    << <<"pageNo", algo_isPositiveInt(r.pageNo)>>,
       <<"pageSize", algo_isPositiveInt(r.pageSize)>>,
       <<"startDate", r.startDate # "" /\ algo_isDate(r.startDate)>>,
       <<"endDate", r.endDate # "" /\ algo_isDate(r.endDate)>>,
       <<"exchangeForCode", r.stockCode # "" => r.exchangeType # "">>,
       <<"exchangeType", r.exchangeType # "" => algo_validExchange(r.exchangeType)>> >>

algo_QueryEntrustIDListParams_validate(r) ==
    << <<"orderId", r.orderId # "">>,
       <<"tradeDate", r.tradeDate # "" /\ algo_isDate(r.tradeDate)>>,
       <<"exchangeType", r.exchangeType # "" /\ algo_validExchange(r.exchangeType)>> >>

\* Every method but QueryOrderList substitutes the default market first.
algo_withExchange(r) == [r EXCEPT !.exchangeType = algo_exchangeType(@, "")]

algo_AddOrderParams(r) ==
    [exchangeType |-> r.exchangeType, stockCode |-> r.stockCode,
     entrustType |-> r.entrustType, entrustBs |-> r.entrustBs,
     entrustAmount |-> r.entrustAmount, entrustPrice |-> r.entrustPrice,
     targetStrategy |-> r.targetStrategy, sessionType |-> r.sessionType,
     strategyParam |-> algo_StrategyParam(r)]

algo_AddOrder(p) == LET r == algo_withExchange(p) IN
    Call("AlgoAddOrder", algo_AddOrderParams_validate(r), algo_AddOrderParams(r))

algo_CancelOrderParams(r) ==
    [exchangeType |-> r.exchangeType, orderId |-> r.orderId]

algo_CancelOrder(p) == LET r == algo_withExchange(p) IN
    Call("AlgoCancelOrder", algo_CancelOrderParams_validate(r), algo_CancelOrderParams(r))

algo_CancelEntrustParams(r) ==
    [exchangeType |-> r.exchangeType, orderId |-> r.orderId, entrustId |-> r.entrustId]

algo_CancelEntrust(p) == LET r == algo_withExchange(p) IN
    Call("AlgoCancelEntrust", algo_CancelEntrustParams_validate(r), algo_CancelEntrustParams(r))

algo_ChangeOrderParams(r) ==
    [orderId |-> r.orderId, exchangeType |-> r.exchangeType,
     stockCode |-> r.stockCode, entrustAmount |-> r.entrustAmount,
     entrustPrice |-> r.entrustPrice, strategyParam |-> algo_StrategyParam(r)]

algo_ChangeOrder(p) == LET r == algo_withExchange(p) IN
    Call("AlgoChangeOrder", algo_ChangeOrderParams_validate(r), algo_ChangeOrderParams(r))

algo_ActionOrderParams(r) ==
    [orderId |-> r.orderId, exchangeType |-> r.exchangeType,
     action |-> r.action, targetStrategy |-> r.targetStrategy]

algo_ActionOrder(p) == LET r == algo_withExchange(p) IN
    Call("AlgoActionOrder", algo_ActionOrderParams_validate(r), algo_ActionOrderParams(r))

algo_QueryOrderListParams(r) == OmitEmpty(
    [pageNo |-> r.pageNo, pageSize |-> r.pageSize,
     startDate |-> r.startDate, endDate |-> r.endDate,
     exchangeType |-> r.exchangeType, stockCode |-> r.stockCode],
    {"exchangeType", "stockCode"})

algo_QueryOrderList(r) == Call("AlgoQueryOrderList", algo_QueryOrderListParams_validate(r),
                               algo_QueryOrderListParams(r))

algo_QueryEntrustIDListParams(r) ==
    [orderId |-> r.orderId, tradeDate |-> r.tradeDate, exchangeType |-> r.exchangeType]

algo_QueryEntrustIDList(p) == LET r == algo_withExchange(p) IN
    Call("AlgoQueryEntrustIdList", algo_QueryEntrustIDListParams_validate(r), algo_QueryEntrustIDListParams(r))

=============================================================================
