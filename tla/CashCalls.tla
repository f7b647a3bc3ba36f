----------------------------- MODULE CashCalls -----------------------------
(***************************************************************************)
(* The cash trading endpoints as pkg/services/trading.go and               *)
(* pkg/hstong/trade/orders.go build them.  The v-next operators bear the   *)
(* names of services/trading.go, the released ones begin with trade_.      *)
(*                                                                         *)
(* One request serves both layers.  The v-next layer takes a symbol with a *)
(* market and decimals, whose zero value a caller leaves when there is     *)
(* nothing to say; the released layer takes an exchange code and text,     *)
(* empty in that case.  Absent stands for both.  clientType, exchange and  *)
(* condTrackType travel untouched in either layer and are left out.        *)
(***************************************************************************)
EXTENDS WireValues, DomainValues

Absent == -7 * Unit
Dec(d) == IF d = Absent THEN 0 ELSE d

\* The exchange code a caller of the released layer writes for a market.
ExchangeOf(market) ==
    CASE market = "HK" -> "K" [] market = "US" -> "P" [] market = "SZ" -> "v"
      [] market = "SH" -> "t" [] OTHER -> ""

Lots(n) == n * 100 * Unit

CashOrder == [
    account |-> {"", "acct"},
    market |-> {"", "HK", "US", "SH"},
    dtype |-> {"HKStock", "HKWarrant", "HKBond", "other"},
    stockCode |-> {"", "code"},
    amount |-> {-Lots(1), 0, Unit \div 2, 50 * Unit, Lots(1)},
    price |-> {Absent, -10, 0, 10, 2500, 2510, 2550, 10 * Unit, 10 * Unit + 50, 9999 * Unit},
    side |-> {"", "1", "4", "5"},
    type |-> {"", "3", "5", "7", "8", "31", "32", "33", "35"},
    session |-> {"", "0", "1", "2", "3", "9"},
    clock |-> {539, 540, 570, 571, 720, 721, 960, 961},
    tif |-> {"", "DAY", "GTC"},
    iceberg |-> {Absent, 0, 50 * Unit, Lots(2)},
    validDays |-> {Absent, 0, 1, 100, 101},
    condValue |-> {"", "value"}]

CashAmend == [
    account |-> {"", "acct"},
    market |-> {"", "HK", "US"},
    stockCode |-> {"", "code"},
    entrustId |-> {"", "id"},
    amount |-> {-Lots(1), 0, Unit \div 2, 50 * Unit, Lots(1)},
    price |-> {Absent, -10, 0, 10, 2510, 2550},
    type |-> {"", "3", "31"},
    validDays |-> {Absent, 1, 101},
    condValue |-> {"", "value"}]

CashQuery == [
    account |-> {"", "acct"},
    exchangeType |-> {"", "K", "P", "H"},
    market |-> {"", "HK", "US", "SH"},
    stockCode |-> {"", "code"},
    price |-> {Absent, 0, 10},
    type |-> {"", "3"},
    queryCount |-> {-1, 0, 1, 99, 100},
    cursor |-> {"", "0"},
    pageNo |-> {-1, 0, 1},
    pageSize |-> {-1, 0, 99, 100, 500, 501},
    startDate |-> {"", "date"},
    endDate |-> {"", "date"},
    dataType |-> {"", "10000"},
    entrustIds |-> {"", "id"}]

-----------------------------------------------------------------------------
(* v-next validators                                                       *)

maxValidDays == 100
defaultPageSize == 50
maxPageSize == 500

knownHKOrderTypes == {"0", "1", "2", "3", "4", "6", "7", "31", "33", "35"}

isConditionalOrder(type) == type \in {"31", "32", "33", "34", "35", "36"}
isPriceOptional(type) == type \in {"5", "8", "10"} \/ isConditionalOrder(type)

\* Both ends are inside, in minutes of the Hong Kong day: pre-market 09:00 to
\* 09:30, regular 09:30 to 12:00, after hours 12:00 to 16:00.
hkSessionWindows == [s \in {"1", "2", "3"} |->
    CASE s = "1" -> 540..570 [] s = "2" -> 570..720 [] s = "3" -> 720..960]

validateSessionWindow(market, session, clock) ==
    market = MarketHK /\ session \in DOMAIN hkSessionWindows
        => clock \in hkSessionWindows[session]

validateOrderTypeEligibility(type, market) == market = MarketHK => type \in knownHKOrderTypes

validateTimeInForce(tif) == tif \in {"", "DAY", "IOC", "FOK", "GTD"}

validateShortSellingFlag(side, dtype) == dtype \in {"HKStock", "HKETF"} => side \in Directions

validateQuantityForHK(qty, sym) ==
    LET s == ScheduleFor(sym)
    IN  s.ok => QuantityValidateInteger(qty) /\ QuantityValidateLot(qty, s.lot)

\* Mutant: the fixed tick of the type instead of the tick of the band.
resolveTickForPriceFlat(price, sym) == [tick |-> ScheduleFor(sym).tick, ok |-> ScheduleFor(sym).ok]

\* The default schedule is a priced one, so the band of the price decides.
resolveTickForPrice(price, sym) == ScheduleForPrice(sym, price)

validatePriceForHK(price, sym) ==
    LET t == resolveTickForPrice(price, sym) IN t.ok => PriceValidateOn(price, t.tick)

\* Only Hong Kong orders are checked at all.
validateOrderForHK(o) ==
    IF o.market # MarketHK THEN << >>
    ELSE LET sym == [market |-> o.market, dtype |-> o.dtype]
         IN  << <<"lot", validateQuantityForHK(o.amount, sym)>>,
                <<"tick", isPriceOptional(o.type) \/ validatePriceForHK(Dec(o.price), sym)>>,
                <<"session", validateSessionWindow(o.market, o.session, o.clock)>>,
                <<"entrustType", validateOrderTypeEligibility(o.type, o.market)>>,
                <<"tif", validateTimeInForce(o.tif)>>,
                <<"side", validateShortSellingFlag(o.side, o.dtype)>>,
                <<"validDays", isConditionalOrder(o.type) => Dec(o.validDays) \in 1..maxValidDays>>,
                <<"condValue", isConditionalOrder(o.type) => o.condValue # "">> >>

-----------------------------------------------------------------------------
(* v-next methods                                                          *)

cashAccountCheck(r) == << <<"accountID", r.account # "">> >>

\* The market switch of Entrust, MaxAvailableAsset and BeforeAndAfterSupport:
\* a market that is neither has no exchange code.
exchangeTypeForMarket(market) ==
    CASE market = MarketHK -> "K" [] market = MarketUS -> "P" [] OTHER -> ""

\* A decimal always renders, so price, display size and days are always sent.
entrustWireRequest(o) == OmitEmpty(
    [exchangeType |-> exchangeTypeForMarket(o.market), stockCode |-> o.stockCode,
     entrustAmount |-> o.amount, entrustPrice |-> Dec(o.price), entrustBs |-> o.side,
     entrustType |-> o.type, sessionType |-> o.session,
     iceBergDisplaySize |-> Dec(o.iceberg), validDays |-> Dec(o.validDays),
     condValue |-> o.condValue],
    {"sessionType", "condValue"})

Entrust(o) == Call("TradeEntrust", cashAccountCheck(o) \o validateOrderForHK(o),
                   entrustWireRequest(o))

\* Cancel, batch cancel and change name no stock and always the Hong Kong book.
cancelEntrustWireRequest(r) ==
    [exchangeType |-> "K", stockCode |-> "", entrustId |-> r.entrustId]

CancelEntrust(r) == Call("TradeCancelEntrust",
    cashAccountCheck(r) \o << <<"entrustId", r.entrustId # "">> >>,
    cancelEntrustWireRequest(r))

\* An empty list leaves the key out; the result's two lists are thrown away.
batchCancelEntrustWireRequest(r) == OmitEmpty(
    [exchangeType |-> "K", entrustId |-> r.entrustId], {"entrustId"})

BatchCancelEntrust(r) == Call("TradeBatchCancelEntrust", cashAccountCheck(r),
                              batchCancelEntrustWireRequest(r))

changeEntrustWireRequest(r) ==
    [exchangeType |-> "K", stockCode |-> "", entrustId |-> r.entrustId,
     entrustAmount |-> r.amount, entrustPrice |-> Dec(r.price)]

\* Whatever was ordered is changed as if it were a Hong Kong stock.
ChangeEntrust(r) ==
    LET sym == [market |-> MarketHK, dtype |-> "HKStock"]
    IN  Call("TradeChangeEntrust",
            cashAccountCheck(r)
            \o << <<"entrustId", r.entrustId # "">>,
                  <<"tick", validatePriceForHK(Dec(r.price), sym)>>,
                  <<"lot", validateQuantityForHK(r.amount, sym)>> >>,
            changeEntrustWireRequest(r))

MaxAvailableAsset(r) == Call("TradeQueryMaxAvailableAsset",
    cashAccountCheck(r) \o << <<"stockCode", r.stockCode # "">> >>,
    [exchangeType |-> exchangeTypeForMarket(r.market), stockCode |-> r.stockCode,
     entrustPrice |-> Dec(r.price), entrustType |-> r.type])

\* One page of the default size from the start, whatever page the filter asks for.
firstPage(r) == [exchangeType |-> r.exchangeType, queryCount |-> defaultPageSize,
                 queryParamStr |-> ""]
firstPageBetween(r) == [exchangeType |-> r.exchangeType, queryCount |-> defaultPageSize,
                        queryParamStr |-> "", startDate |-> r.startDate, endDate |-> r.endDate]

\* Of today's orders, those with the filter's ids if it has any.
RealEntrustList(r) == Call("TradeQueryRealEntrustList", cashAccountCheck(r),
    OmitEmpty(firstPage(r) @@ [entrustId |-> r.entrustIds], {"entrustId"}))
RealDeliverList(r) == Call("TradeQueryRealDeliverList", cashAccountCheck(r), firstPage(r))
HistoryEntrustList(r) == Call("TradeQueryHistoryEntrustList", cashAccountCheck(r), firstPageBetween(r))
HistoryDeliverList(r) == Call("TradeQueryHistoryDeliverList", cashAccountCheck(r), firstPageBetween(r))

pageOf(r) ==
    [pageNo |-> IF r.pageNo <= 0 THEN 1 ELSE r.pageNo,
     pageSize |-> IF r.pageSize <= 0 THEN defaultPageSize
                  ELSE IF r.pageSize > maxPageSize THEN maxPageSize ELSE r.pageSize]

RealCondOrderList(r) == Call("TradeQueryRealCondOrderList", cashAccountCheck(r), OmitEmpty(
    [exchangeType |-> r.exchangeType, stockCode |-> r.stockCode,
     pageNo |-> pageOf(r).pageNo, pageSize |-> pageOf(r).pageSize], {"stockCode"}))

\* The dates become the first and the last second of their days.
HistoryCondOrderList(r) == Call("TradeQueryHistoryCondOrderList", cashAccountCheck(r), OmitEmpty(
    [exchangeType |-> r.exchangeType, stockCode |-> r.stockCode,
     pageNo |-> pageOf(r).pageNo, pageSize |-> pageOf(r).pageSize,
     startTime |-> <<r.startDate, "00:00:00">>, endTime |-> <<r.endDate, "23:59:59">>],
    {"stockCode"}))

MarginFullInfo(r) == Call("TradeQueryMarginFullInfo", cashAccountCheck(r),
    [dataType |-> "10000", stockCode |-> ""])

BeforeAndAfterSupport(r) == Call("TradeQueryBeforeAndAfterSupport",
    << <<"stockCode", r.stockCode # "">> >>,
    [stockCode |-> r.stockCode, exchangeType |-> exchangeTypeForMarket(r.market)])

SubscribeOrders(r) == Call("TradeSubscribe", cashAccountCheck(r), NoBody)
UnsubscribeOrders(r) == Call("TradeUnsubscribe", cashAccountCheck(r), NoBody)

-----------------------------------------------------------------------------
(* The released layer                                                      *)

trade_DefaultPageSize == 20
trade_MaxPageSize == 99

trade_ClampPageSize(size) ==
    IF size <= 0 THEN trade_DefaultPageSize
    ELSE IF size > trade_MaxPageSize THEN trade_MaxPageSize ELSE size

trade_validExchange(e) == e \in Exchanges
trade_validDirection(bs) == bs \in Directions
trade_validateExchange(e) == << <<"exchangeType", e # "" /\ trade_validExchange(e)>> >>
trade_validateOptionalExchange(e) == << <<"exchangeType", e # "" => trade_validExchange(e)>> >>

\* parsePositive and validateValidDays: an absent text is refused.
trade_parsePositive(d) == d # Absent /\ d > 0
trade_validateValidDays(days) == days # Absent /\ days \in 1..maxValidDays

trade_isConditional(type) == type \in {"31", "32", "33", "34", "35", "36"}
trade_isIceberg(type) == type \in {"8", "9"}
trade_priceOptional(type) == type \in {"5", "8", "10"} \/ trade_isConditional(type)

\* omitempty of a number given as text.
OmitAbsent(body, tagged) ==
    [f \in {g \in DOMAIN body : g \notin tagged \/ body[g] # Absent} |-> body[f]]

trade_EntrustRequest_validate(o) ==
    trade_validateExchange(ExchangeOf(o.market))
    \o << <<"stockCode", o.stockCode # "">>,
          <<"entrustAmount", trade_parsePositive(o.amount)>>,
          <<"entrustBs", o.side # "" /\ trade_validDirection(o.side)>>,
          <<"entrustType", o.type # "">>,
          <<"entrustPrice", ~trade_priceOptional(o.type) => o.price # Absent>>,
          <<"condValue", trade_isConditional(o.type) => o.condValue # "">>,
          <<"validDays", trade_isConditional(o.type) => trade_validateValidDays(o.validDays)>>,
          <<"iceBergDisplaySize", trade_isIceberg(o.type) => trade_parsePositive(o.iceberg)>>,
          <<"iceBergDisplaySize", trade_isIceberg(o.type) => o.iceberg <= o.amount>> >>

trade_EntrustRequest(o) == OmitAbsent(OmitEmpty(
    [exchangeType |-> ExchangeOf(o.market), stockCode |-> o.stockCode,
     entrustAmount |-> o.amount, entrustPrice |-> o.price, entrustBs |-> o.side,
     entrustType |-> o.type, sessionType |-> o.session,
     iceBergDisplaySize |-> o.iceberg, validDays |-> o.validDays,
     condValue |-> o.condValue], {"sessionType", "condValue"}),
    {"entrustPrice", "iceBergDisplaySize", "validDays"})

trade_Entrust(o) ==
    Call("TradeEntrust", trade_EntrustRequest_validate(o), trade_EntrustRequest(o))

trade_CancelEntrustRequest_validate(r) ==
    trade_validateExchange(ExchangeOf(r.market))
    \o << <<"stockCode", r.stockCode # "">>,
          <<"entrustId", r.entrustId # "">> >>

trade_CancelEntrustRequest(r) ==
    [exchangeType |-> ExchangeOf(r.market), stockCode |-> r.stockCode, entrustId |-> r.entrustId]

trade_CancelEntrust(r) == Call("TradeCancelEntrust", trade_CancelEntrustRequest_validate(r),
                               trade_CancelEntrustRequest(r))

\* An empty list means every order of the exchange, and is allowed.
trade_BatchCancelEntrustRequest(r) ==
    OmitEmpty([exchangeType |-> ExchangeOf(r.market), entrustId |-> r.entrustId], {"entrustId"})

trade_BatchCancelEntrust(r) == Call("TradeBatchCancelEntrust",
    trade_validateExchange(ExchangeOf(r.market)), trade_BatchCancelEntrustRequest(r))

trade_ChangeEntrustRequest_validate(r) ==
    trade_validateExchange(ExchangeOf(r.market))
    \o << <<"stockCode", r.stockCode # "">>,
          <<"entrustAmount", trade_parsePositive(r.amount)>>,
          <<"entrustId", r.entrustId # "">>,
          <<"condValue", trade_isConditional(r.type) => r.condValue # "">>,
          <<"validDays", trade_isConditional(r.type) => trade_validateValidDays(r.validDays)>> >>

trade_ChangeEntrustRequest(r) == OmitAbsent(OmitEmpty(
    [exchangeType |-> ExchangeOf(r.market), stockCode |-> r.stockCode,
     entrustId |-> r.entrustId, entrustAmount |-> r.amount, entrustPrice |-> r.price,
     entrustType |-> r.type, validDays |-> r.validDays, condValue |-> r.condValue],
    {"entrustType", "condValue"}), {"entrustPrice", "validDays"})

trade_ChangeEntrust(r) == Call("TradeChangeEntrust", trade_ChangeEntrustRequest_validate(r),
                               trade_ChangeEntrustRequest(r))

trade_MaxAvailableAssetRequest_validate(r) ==
    trade_validateExchange(ExchangeOf(r.market))
    \o << <<"stockCode", r.stockCode # "">>,
          <<"entrustPrice", r.price # Absent>>,
          <<"entrustType", r.type # "">> >>

trade_MaxAvailableAssetRequest(r) ==
    [exchangeType |-> ExchangeOf(r.market), stockCode |-> r.stockCode,
     entrustPrice |-> r.price, entrustType |-> r.type]

trade_MaxAvailableAsset(r) == Call("TradeQueryMaxAvailableAsset",
    trade_MaxAvailableAssetRequest_validate(r), trade_MaxAvailableAssetRequest(r))

\* The caller's page, its size clamped, from the caller's cursor.
trade_pageFrom(r) == [exchangeType |-> r.exchangeType,
    queryCount |-> trade_ClampPageSize(r.queryCount), queryParamStr |-> r.cursor]
trade_pageBetween(r) == [exchangeType |-> r.exchangeType,
    queryCount |-> trade_ClampPageSize(r.queryCount), queryParamStr |-> r.cursor,
    startDate |-> r.startDate, endDate |-> r.endDate]

trade_RealEntrustList(r) == Call("TradeQueryRealEntrustList",
    trade_validateExchange(r.exchangeType),
    OmitEmpty(trade_pageFrom(r) @@ [entrustId |-> r.entrustIds], {"entrustId"}))
trade_RealDeliverList(r) == Call("TradeQueryRealDeliverList",
    trade_validateExchange(r.exchangeType), trade_pageFrom(r))
trade_HistoryEntrustList(r) == Call("TradeQueryHistoryEntrustList",
    trade_validateExchange(r.exchangeType), trade_pageBetween(r))
trade_HistoryDeliverList(r) == Call("TradeQueryHistoryDeliverList",
    trade_validateExchange(r.exchangeType), trade_pageBetween(r))

trade_CondOrderListRequest(r, pageNo, pageSize) == OmitEmpty(
    [exchangeType |-> r.exchangeType, stockCode |-> r.stockCode,
     pageNo |-> pageNo, pageSize |-> pageSize], {"stockCode"})

trade_RealCondOrderList(r) == Call("TradeQueryRealCondOrderList",
    trade_validateExchange(r.exchangeType),
    trade_CondOrderListRequest(r, IF r.pageNo <= 0 THEN 1 ELSE r.pageNo,
                               trade_ClampPageSize(r.pageSize)))

\* Page and size are text here: only an absent one (0) is filled in.
trade_HistoryCondOrderListRequest(r, pageNo, pageSize) == OmitEmpty(
    [exchangeType |-> r.exchangeType, stockCode |-> r.stockCode,
     pageNo |-> pageNo, pageSize |-> pageSize,
     startTime |-> <<r.startDate, "00:00:00">>, endTime |-> <<r.endDate, "23:59:59">>],
    {"stockCode"})

trade_HistoryCondOrderList(r) == Call("TradeQueryHistoryCondOrderList",
    trade_validateExchange(r.exchangeType),
    trade_HistoryCondOrderListRequest(r, IF r.pageNo = 0 THEN 1 ELSE r.pageNo,
                                      IF r.pageSize = 0 THEN trade_DefaultPageSize ELSE r.pageSize))

trade_MarginFullInfoRequest(r) == [dataType |-> r.dataType, stockCode |-> r.stockCode]

trade_MarginFullInfo(r) == Call("TradeQueryMarginFullInfo",
    << <<"dataType", r.dataType # "">>, <<"stockCode", r.stockCode # "">> >>,
    trade_MarginFullInfoRequest(r))

trade_BeforeAndAfterSupportRequest(r) ==
    [stockCode |-> r.stockCode, exchangeType |-> ExchangeOf(r.market)]

trade_BeforeAndAfterSupport(r) == Call("TradeQueryBeforeAndAfterSupport",
    << <<"stockCode", r.stockCode # "">> >> \o trade_validateExchange(ExchangeOf(r.market)),
    trade_BeforeAndAfterSupportRequest(r))

trade_SubscribeOrders(r) == Call("TradeSubscribe", << >>, NoBody)
trade_UnsubscribeOrders(r) == Call("TradeUnsubscribe", << >>, NoBody)

=============================================================================
