---------------------------- MODULE FuturesCalls ----------------------------
(***************************************************************************)
(* The eleven futures endpoints as pkg/services/futures.go and             *)
(* pkg/hstong/future/future.go build them.  Every method is an operator    *)
(* from the request to a call: its checks in the order the code makes      *)
(* them, and the body it sends.  The v-next operators bear the names of    *)
(* services/futures.go, the released ones begin with future_.  The v-next  *)
(* methods take an account that they check and never send.                 *)
(***************************************************************************)
EXTENDS WireValues

\* The requests of both layers, field by field: what a caller may put there.
\* Side 3 and 4 are cash directions; the released layer takes prices and
\* amounts as text, so they may also be empty or no number.
FuturesOrderRequest == [
    account |-> {"", "acct"},
    stockCode |-> {"", "blank", "padded", "gap", "code"},
    entrustType |-> {"", "0", "2", "text"},
    entrustPrice |-> {"-1", "0", "1"},
    entrustAmount |-> {"-1", "0", "0.5", "1"},
    entrustBs |-> {"", "1", "2", "3"},
    validTimeType |-> {"", "0", "4", "5"},
    validTime |-> {"", "text", "99999999", "date"},
    orderOptions |-> {"", "0", "1", "2"}]

FuturesModifyRequest == [
    account |-> {"", "acct"},
    entrustId |-> {"", "blank", "code"},
    stockCode |-> {"", "gap", "code"},
    entrustPrice |-> {"-1", "0", "1"},
    entrustAmount |-> {"-1", "0", "1"},
    entrustBs |-> {"", "2", "4"},
    validTimeType |-> {"", "0", "4", "5"},
    validTime |-> {"", "99999999", "date"},
    orderOptions |-> {"", "1", "2"}]

FuturesCancelRequest == [
    account |-> {"", "acct"},
    entrustId |-> {"", "blank", "padded", "code"},
    stockCode |-> {"", "blank", "padded", "gap", "code"}]

PageRequest == [
    account |-> {"", "acct"},
    pageNo |-> {-1, 0, 1, 2},
    pageSize |-> {-1, 0, 1, 99, 100},
    startDate |-> {"", "text", "99999999", "date"},
    endDate |-> {"", "text", "99999999", "date"}]

-----------------------------------------------------------------------------
(* v-next validators                                                       *)

futuresValidTimeTypes == {"0", "1", "2", "3", "4"}
futuresOrderOptionCodes == {"0", "1"}
futuresDefaultPageNo == 1
futuresDefaultPageSize == 20
futuresMaxPageSizeExclusive == 100

futuresValidateStockCode(code) == Trim(code) # "" /\ ~HasSpace(Trim(code))

futuresValidateDate(date) == DateShaped(date) /\ CalendarDate(date)

\* The size is tested as the caller gave it, before the defaults.
futuresValidatePage(r) ==
    << <<"pageSize", r.pageSize < futuresMaxPageSizeExclusive>>,
       <<"startDate", r.startDate # "" => futuresValidateDate(r.startDate)>>,
       <<"endDate", r.endDate # "" => futuresValidateDate(r.endDate)>> >>

futuresValidateOrderType(t) == DigitsShaped(t)

\* Mutant: the four cash directions are let through.
futuresValidateEntrustBSFour(bs) == bs \in Directions

futuresValidateEntrustBS(bs) == bs \in {"1", "2"}

futuresValidateOrderPrice(price) == ~Negative(price)

futuresValidateOrderQuantity(qty) == Positive(qty)

futuresValidateEntrustID(id) == Trim(id) # ""

\* A date is checked whenever there is one, whatever the type says.
futuresValidateValidTimeType(type, time) ==
    << <<"validTimeType", type \in futuresValidTimeTypes>>,
       <<"validTime", IF time = "" THEN type # "4" ELSE futuresValidateDate(time)>> >>

futuresValidateOrderOptions(options) == options \in futuresOrderOptionCodes

futuresOrderOptionsParam(options) == IF options = "" THEN "0" ELSE options

-----------------------------------------------------------------------------
(* v-next bodies                                                           *)

futuresPageQueryParams(r) == OmitEmpty(
    [pageNo |-> IF r.pageNo <= 0 THEN futuresDefaultPageNo ELSE r.pageNo,
     pageSize |-> IF r.pageSize <= 0 THEN futuresDefaultPageSize ELSE r.pageSize,
     startDate |-> r.startDate, endDate |-> r.endDate], {"startDate", "endDate"})

futuresEntrustWireRequest(r) == OmitEmpty(
    [stockCode |-> r.stockCode, entrustType |-> r.entrustType,
     entrustPrice |-> r.entrustPrice, entrustAmount |-> r.entrustAmount,
     entrustBs |-> r.entrustBs, validTimeType |-> r.validTimeType,
     orderOptions |-> futuresOrderOptionsParam(r.orderOptions),
     validTime |-> r.validTime], {"validTime"})

futuresCancelEntrustWireRequest(r) ==
    [entrustId |-> r.entrustId, stockCode |-> r.stockCode]

futuresModifyEntrustWireRequest(r) == OmitEmpty(
    [entrustId |-> r.entrustId, stockCode |-> r.stockCode,
     entrustPrice |-> r.entrustPrice, entrustAmount |-> r.entrustAmount,
     entrustBs |-> r.entrustBs, validTimeType |-> r.validTimeType,
     orderOptions |-> futuresOrderOptionsParam(r.orderOptions),
     validTime |-> r.validTime], {"validTime"})

-----------------------------------------------------------------------------
(* v-next methods                                                          *)

accountCheck(r) == << <<"accountID", r.account # "">> >>

FuturesQueryProductInfo(r) == Call("FuturesQueryProductInfo",
    accountCheck(r) \o << <<"stockCodes", r.stockCodes # <<>> >>,
        <<"stockCode", \A i \in DOMAIN r.stockCodes : futuresValidateStockCode(r.stockCodes[i])>> >>,
    [stockCode |-> r.stockCodes])

FuturesQueryMaxBuySellAmount(r) == Call("FuturesQueryMaxBuySellAmount",
    accountCheck(r) \o << <<"stockCode", futuresValidateStockCode(r.stockCode)>> >>,
    [stockCode |-> r.stockCode])

FuturesQueryFundInfo(r) == Call("FuturesQueryFundInfo", accountCheck(r), NoBody)

FuturesQueryHoldsList(r) == Call("FuturesQueryHoldsList", accountCheck(r), NoBody)

FuturesQueryRealEntrustList(r) == Call("FuturesQueryRealEntrustList", accountCheck(r), NoBody)

FuturesQueryRealDeliverList(r) == Call("FuturesQueryRealDeliverList", accountCheck(r), NoBody)

FuturesQueryHistoryEntrustPage(r) == Call("FuturesQueryHistoryEntrustList",
    accountCheck(r) \o futuresValidatePage(r), futuresPageQueryParams(r))

FuturesQueryHistoryDeliverPage(r) == Call("FuturesQueryHistoryDeliverList",
    accountCheck(r) \o futuresValidatePage(r), futuresPageQueryParams(r))

FuturesEntrust(r) == Call("FuturesEntrust",
    accountCheck(r)
    \o << <<"stockCode", futuresValidateStockCode(r.stockCode)>>,
          <<"entrustType", futuresValidateOrderType(r.entrustType)>>,
          <<"entrustBs", futuresValidateEntrustBS(r.entrustBs)>>,
          <<"entrustPrice", futuresValidateOrderPrice(r.entrustPrice)>>,
          <<"entrustAmount", futuresValidateOrderQuantity(r.entrustAmount)>> >>
    \o futuresValidateValidTimeType(r.validTimeType, r.validTime)
    \o << <<"orderOptions", futuresValidateOrderOptions(futuresOrderOptionsParam(r.orderOptions))>> >>,
    futuresEntrustWireRequest(r))

FuturesCancelEntrust(r) == Call("FuturesCancelEntrust",
    accountCheck(r)
    \o << <<"entrustId", futuresValidateEntrustID(r.entrustId)>>,
          <<"stockCode", futuresValidateStockCode(r.stockCode)>> >>,
    futuresCancelEntrustWireRequest(r))

FuturesModifyEntrust(r) == Call("FuturesModifyEntrust",
    accountCheck(r)
    \o << <<"entrustId", futuresValidateEntrustID(r.entrustId)>>,
          <<"stockCode", futuresValidateStockCode(r.stockCode)>>,
          <<"entrustPrice", futuresValidateOrderPrice(r.entrustPrice)>>,
          <<"entrustAmount", futuresValidateOrderQuantity(r.entrustAmount)>>,
          <<"entrustBs", futuresValidateEntrustBS(r.entrustBs)>> >>
    \o futuresValidateValidTimeType(r.validTimeType, r.validTime)
    \o << <<"orderOptions", futuresValidateOrderOptions(futuresOrderOptionsParam(r.orderOptions))>> >>,
    futuresModifyEntrustWireRequest(r))

-----------------------------------------------------------------------------
(* The released layer: the request is the body, tagged omitempty in part.  *)

\* The default size is what WithDefaultPageSize leaves behind.
future_WithDefaultPageSize(size) == IF size <= 0 \/ size >= 100 THEN 20 ELSE size
future_defaultPageNo == 1

future_validateStockCode(code) == Trim(code) # "" /\ ~HasSpace(Trim(code))

\* decimalPattern, and some digit that is not 0.
future_validateQuantity(q) == Decimal(q) /\ ~Negative(q) /\ ~Zero(q)

future_validatePrice(price, required) ==
    IF price = "" THEN ~required ELSE Decimal(price) /\ ~Negative(price)

future_validateEntrustBS(bs) == bs \in {"1", "2"}

future_validateDate(date) == DateShaped(date) /\ CalendarDate(date)

future_validateValidTime(type, time) ==
    IF time = "" THEN type # "4" ELSE future_validateDate(time)

future_QueryProductInfo(r) == Call("FuturesQueryProductInfo",
    << <<"stockCodes", r.stockCodes # <<>> >>,
       <<"stockCode", \A i \in DOMAIN r.stockCodes : future_validateStockCode(r.stockCodes[i])>> >>,
    [stockCode |-> r.stockCodes])

future_QueryMaxBuySellAmount(r) == Call("FuturesQueryMaxBuySellAmount",
    << <<"stockCode", future_validateStockCode(r.stockCode)>> >>, [stockCode |-> r.stockCode])

future_QueryFundInfo(r) == Call("FuturesQueryFundInfo", <<>>, NoBody)

future_QueryHoldsList(r) == Call("FuturesQueryHoldsList", <<>>, NoBody)

future_QueryRealEntrustList(r) == Call("FuturesQueryRealEntrustList", <<>>, NoBody)

future_QueryRealDeliverList(r) == Call("FuturesQueryRealDeliverList", <<>>, NoBody)

\* The defaults come first here, and the size that is tested is never below 1.
future_historyParams(r, default) ==
    [pageNo |-> IF r.pageNo <= 0 THEN future_defaultPageNo ELSE r.pageNo,
     pageSize |-> IF r.pageSize <= 0 THEN default ELSE r.pageSize,
     startDate |-> r.startDate, endDate |-> r.endDate]

future_history(path, r) ==
    LET params == future_historyParams(r, future_WithDefaultPageSize(0))
    IN  Call(path,
            << <<"pageSize", params.pageSize < 100>>,
               <<"startDate", r.startDate # "" => future_validateDate(r.startDate)>>,
               <<"endDate", r.endDate # "" => future_validateDate(r.endDate)>> >>,
            OmitEmpty(params, {"startDate", "endDate"}))

future_QueryHistoryEntrustList(r) == future_history("FuturesQueryHistoryEntrustList", r)

future_QueryHistoryDeliverList(r) == future_history("FuturesQueryHistoryDeliverList", r)

future_EntrustRequest(r) == OmitEmpty(
    [stockCode |-> r.stockCode, entrustType |-> r.entrustType,
     entrustPrice |-> r.entrustPrice, entrustAmount |-> r.entrustAmount,
     entrustBs |-> r.entrustBs, validTimeType |-> r.validTimeType,
     validTime |-> r.validTime, orderOptions |-> r.orderOptions],
    {"entrustType", "entrustPrice", "validTimeType", "validTime", "orderOptions"})

future_ModifyEntrustRequest(r) == OmitEmpty(
    [entrustId |-> r.entrustId, stockCode |-> r.stockCode,
     entrustPrice |-> r.entrustPrice, entrustAmount |-> r.entrustAmount,
     entrustBs |-> r.entrustBs, validTimeType |-> r.validTimeType,
     validTime |-> r.validTime, orderOptions |-> r.orderOptions],
    {"validTimeType", "validTime", "orderOptions"})

future_CancelEntrustRequest(r) == [entrustId |-> r.entrustId, stockCode |-> r.stockCode]

\* Only a market order (entrustType 2) may go without a price.
future_Entrust(r) == Call("FuturesEntrust",
    << <<"stockCode", future_validateStockCode(r.stockCode)>>,
       <<"entrustBs", future_validateEntrustBS(r.entrustBs)>>,
       <<"entrustAmount", future_validateQuantity(r.entrustAmount)>>,
       <<"entrustPrice", future_validatePrice(r.entrustPrice, r.entrustType # "2")>>,
       <<"validTime", future_validateValidTime(r.validTimeType, r.validTime)>> >>,
    future_EntrustRequest(r))

future_CancelEntrust(r) == Call("FuturesCancelEntrust",
    << <<"entrustId", Trim(r.entrustId) # "">>,
       <<"stockCode", future_validateStockCode(r.stockCode)>> >>,
    future_CancelEntrustRequest(r))

future_ModifyEntrust(r) == Call("FuturesModifyEntrust",
    << <<"entrustId", Trim(r.entrustId) # "">>,
       <<"stockCode", future_validateStockCode(r.stockCode)>>,
       <<"entrustAmount", future_validateQuantity(r.entrustAmount)>>,
       <<"entrustPrice", future_validatePrice(r.entrustPrice, TRUE)>>,
       <<"entrustBs", future_validateEntrustBS(r.entrustBs)>>,
       <<"validTime", future_validateValidTime(r.validTimeType, r.validTime)>> >>,
    future_ModifyEntrustRequest(r))

=============================================================================
