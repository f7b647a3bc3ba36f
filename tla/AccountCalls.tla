---------------------------- MODULE AccountCalls ----------------------------
(***************************************************************************)
(* The account reads of pkg/services/account.go and                        *)
(* pkg/hstong/trade/assets.go and the market-data calls of                 *)
(* pkg/services/market.go and pkg/hstong/market, request side.  The v-next *)
(* operators bear the names of pkg/services, the released ones begin with  *)
(* trade_ or market_.                                                      *)
(***************************************************************************)
EXTENDS CashCalls

AccountQuery == [
    account |-> {"", "acct"},
    exchangeType |-> {"", "K", "P", "H"},
    pageSize |-> {-1, 0, 1, 99, 100},
    cursor |-> {"", "0"},
    startDate |-> {"", "date"},
    endDate |-> {"", "date"}]

\* Securities are "nil" pointers or not; a list is one of these sequences.
MarketQuery == [
    security |-> {"nil", "sec"},
    list |-> {<< >>, <<"sec">>, <<"nil">>, <<"sec", "nil">>},
    securityCode |-> {"", "code"},
    limit |-> {-1, 0, 1, 100, 101},
    topic |-> {0, 11, 15, 36}]

-----------------------------------------------------------------------------
(* v-next account reads                                                    *)

DefaultPageSize == 50
MaxPageSize == 99

clampPageSize(size) ==
    IF size <= 0 THEN DefaultPageSize ELSE IF size > MaxPageSize THEN MaxPageSize ELSE size

\* The exchange is passed on as it is.
MarginFundInfo(r) == Call("TradeQueryMarginFundInfo", cashAccountCheck(r),
    [exchangeType |-> r.exchangeType])

HoldsList(r) == Call("TradeQueryHoldsList", cashAccountCheck(r),
    OmitEmpty([exchangeType |-> r.exchangeType], {"exchangeType"}))

\* The first request of the walk; OrderDesk models the walk itself.
RealFundJourList(r) == Call("TradeQueryRealFundJourList", cashAccountCheck(r),
    [exchangeType |-> r.exchangeType, queryCount |-> clampPageSize(r.pageSize),
     queryParamStr |-> r.cursor])

HistoryFundJourList(r) == Call("TradeQueryHistoryFundJourList", cashAccountCheck(r),
    [exchangeType |-> r.exchangeType, queryCount |-> clampPageSize(r.pageSize),
     queryParamStr |-> r.cursor, startDate |-> r.startDate, endDate |-> r.endDate])

RateQueryList(r) == Call("hs/rate/queryList", << >>, NoBody)

-----------------------------------------------------------------------------
(* Released account reads                                                  *)

trade_MarginFundInfo(r) == Call("TradeQueryMarginFundInfo",
    trade_validateExchange(r.exchangeType), [exchangeType |-> r.exchangeType])

trade_Positions(r) == Call("TradeQueryHoldsList",
    trade_validateOptionalExchange(r.exchangeType),
    OmitEmpty([exchangeType |-> r.exchangeType], {"exchangeType"}))

trade_FundJourListRequest(r) ==
    [exchangeType |-> r.exchangeType, queryCount |-> trade_ClampPageSize(r.pageSize),
     queryParamStr |-> r.cursor]

trade_HistoryFundJourListRequest(r) ==
    [exchangeType |-> r.exchangeType, queryCount |-> trade_ClampPageSize(r.pageSize),
     queryParamStr |-> r.cursor, startDate |-> r.startDate, endDate |-> r.endDate]

trade_RealFundJourList(r) == Call("TradeQueryRealFundJourList",
    trade_validateExchange(r.exchangeType), trade_FundJourListRequest(r))

trade_HistoryFundJourList(r) == Call("TradeQueryHistoryFundJourList",
    trade_validateExchange(r.exchangeType), trade_HistoryFundJourListRequest(r))

trade_ExchangeRate(r) == Call("hs/rate/queryList", << >>, NoBody)

-----------------------------------------------------------------------------
(* Market data: both layers make the same checks                           *)

MaxTickerLimit == 100
knownTopics == {11, 14, 16, 17, 25, 26, 27, 28, 35, 36, 37}

validateSecurityList(list) ==
    << <<"security", list # << >> /\ \A i \in DOMAIN list : list[i] # "nil">> >>
validateSecurity(sec) == << <<"security", sec # "nil">> >>
validateSecurityCode(code) == << <<"securityCode", code # "">> >>
validateTopic(topic) == << <<"topicId", topic \in knownTopics>> >>

BasicQot(r) == Call("BasicQot", validateSecurityList(r.list), [security |-> r.list])
OrderBook(r) == Call("OrderBook", validateSecurity(r.security), [security |-> r.security])
KL(r) == Call("KL", validateSecurity(r.security), [security |-> r.security, limit |-> r.limit])
TimeShare(r) == Call("TimeShare", validateSecurity(r.security), [security |-> r.security])
Ticker(r) == Call("Ticker",
    validateSecurity(r.security) \o << <<"limit", r.limit \in 1..MaxTickerLimit>> >>,
    [security |-> r.security, limit |-> r.limit])
Broker(r) == Call("Broker", validateSecurity(r.security), [security |-> r.security])
UsOptionChainCode(r) == Call("UsOptionChainCode",
    validateSecurityCode(r.securityCode), [securityCode |-> r.securityCode])
UsOptionChainExpireDate(r) == Call("UsOptionChainExpireDate",
    validateSecurityCode(r.securityCode), [securityCode |-> r.securityCode])
UsOverNightTradeCodes(r) == Call("UsOverNightTradeCodes", << >>, NoBody)
Subscribe(r) == Call("Subscribe", validateTopic(r.topic) \o validateSecurityList(r.list),
    [topicId |-> r.topic, security |-> r.list])
Unsubscribe(r) == Call("Unsubscribe", validateTopic(r.topic) \o validateSecurityList(r.list),
    [topicId |-> r.topic, security |-> r.list])

market_validateSecurityList(list) ==
    << <<"security", Len(list) > 0 /\ "nil" \notin {list[i] : i \in DOMAIN list}>> >>
market_validateSecurity(sec) == << <<"security", sec # "nil">> >>
market_validateSecurityCode(code) == << <<"securityCode", code # "">> >>
market_validateTopic(topic) == << <<"topicId", topic \in {11, 14, 16, 17, 25, 26, 27, 28, 35, 36, 37}>> >>

market_BasicQot(r) == Call("BasicQot", market_validateSecurityList(r.list), [security |-> r.list])
market_OrderBook(r) == Call("OrderBook", market_validateSecurity(r.security),
    [security |-> r.security])
market_KL(r) == Call("KL", market_validateSecurity(r.security),
    [security |-> r.security, limit |-> r.limit])
market_TimeShare(r) == Call("TimeShare", market_validateSecurity(r.security),
    [security |-> r.security])
market_Ticker(r) == Call("Ticker",
    market_validateSecurity(r.security) \o << <<"limit", r.limit \in 1..100>> >>,
    [security |-> r.security, limit |-> r.limit])
market_Broker(r) == Call("Broker", market_validateSecurity(r.security), [security |-> r.security])
market_UsOptionChainCode(r) == Call("UsOptionChainCode",
    market_validateSecurityCode(r.securityCode), [securityCode |-> r.securityCode])
market_UsOptionChainExpireDate(r) == Call("UsOptionChainExpireDate",
    market_validateSecurityCode(r.securityCode), [securityCode |-> r.securityCode])
market_UsOverNightTradeCodes(r) == Call("UsOverNightTradeCodes", << >>, NoBody)
market_Subscribe(r) == Call("Subscribe",
    market_validateTopic(r.topic) \o market_validateSecurityList(r.list),
    [topicId |-> r.topic, security |-> r.list])
market_Unsubscribe(r) == Call("Unsubscribe",
    market_validateTopic(r.topic) \o market_validateSecurityList(r.list),
    [topicId |-> r.topic, security |-> r.list])

=============================================================================
