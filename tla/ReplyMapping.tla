---------------------------- MODULE ReplyMapping ----------------------------
(***************************************************************************)
(* How the v-next services turn a reply of the Gateway into domain values: *)
(* the mappers of pkg/domain and the converters of the market service.     *)
(*                                                                         *)
(* A wire row is the function from its decimal fields to their text (of    *)
(* the kinds WireValues tells apart); a field the Gateway left out is "",  *)
(* and a nil row has no fields.  Text the mappers copy is left out.        *)
(*                                                                         *)
(* A type of pkg/domain (domain_...) is the function from the wire fields  *)
(* its decimals are read from to the unit each is labelled with: a         *)
(* currency, "price", "quantity" or "rate".  A mapped row gives the parsed *)
(* value and the unit; the amount Panicked stands for the panic of the     *)
(* MustNew constructors, which takes the whole row with it.                *)
(***************************************************************************)
EXTENDS WireValues, DomainValues

NilRow == NoBody
IsNil(row) == DOMAIN row = {}

Panicked == "panic"

\* The rows of a wire type in which at most one field is not the number 1.
RowWith(fields, g, text) == [f \in fields |-> IF f = g THEN text ELSE "1"]
RowsOf(fields, bad) ==
    {[f \in fields |-> "1"]} \cup {RowWith(fields, g, text) : g \in fields, text \in bad}

Labelled(unit, fields) == [f \in fields |-> unit]

-----------------------------------------------------------------------------
(* The value constructors                                                  *)

\* The decimal library reads an exponent too.
MustParse(s) ==
    CASE Decimal(s) -> s
      [] s = "1e-7" -> "0.0000001"
      [] OTHER -> Panicked
MustNewMoney(s, currency) == [amount |-> MustParse(s), unit |-> currency]
MustNewPrice(s) == [amount |-> MustParse(s), unit |-> "price"]
MustNewQuantity(s) == [amount |-> MustParse(s), unit |-> "quantity"]
MustNewRate(s) == [amount |-> MustParse(s), unit |-> "rate"]

MustNew(s, unit) ==
    CASE unit = "price" -> MustNewPrice(s)
      [] unit = "quantity" -> MustNewQuantity(s)
      [] unit = "rate" -> MustNewRate(s)
      [] OTHER -> MustNewMoney(s, unit)

\* The cash and account mappers parse every field as it comes.
FromWire(row, type) ==
    IF IsNil(row) THEN NilRow ELSE [f \in DOMAIN type |-> MustNew(row[f], type[f])]

-----------------------------------------------------------------------------
(* Cash entrusts, fills, conditional orders and capacity (trading.go)      *)

EntrustWire == {"entrustPrice", "entrustAmount", "businessAmount", "businessPrice",
                "businessBalance", "unBusinessAmount"}

\* fare7 and fare8 are on the wire and in no field of the domain type.
domain_Fare == Labelled("HKD", {"fare0", "fare1", "fare2", "fare3", "fare4", "fare5", "fare6",
                                "fare9", "farex", "faret"})
domain_Entrust == Labelled("price", {"entrustPrice", "businessPrice"})
                  @@ Labelled("quantity", {"entrustAmount", "businessAmount"})

\* A fill does not read the entrust price; its turnover is always HKD.
domain_Fill == Labelled("price", {"businessPrice"})
               @@ Labelled("quantity", {"entrustAmount", "businessAmount"})
               @@ Labelled("HKD", {"businessBalance"})
domain_CondOrder == Labelled("quantity", {"entrustAmount"})
domain_MaxAvailable ==
    Labelled("HKD", {"cashAvailableAmount", "marginAvailableAmount",
        "cashAndMarginAvailableAmount", "shortBuyPower", "creditLimit",
        "optionLongMarginAmount", "optionShortMarginAmount"})
    @@ Labelled("quantity", {"position", "longOpenAvailable", "longCloseAvailable",
        "cashAvailableToOpen", "marginAvailableToOpen", "cashAndMarginAvailableToOpen",
        "shortOpenAvailable", "shortCloseAvailable", "shortCloseCashAvailable",
        "shortOpenPool", "contractSize"})
domain_MarginInfo ==
    Labelled("rate", {"marginInitRatio", "marginKeepRatio", "shortInitMarginRatio",
                      "shortInterestRate", "shortKeepMarginRatio"})
    @@ Labelled("quantity", {"shortLastAvailableQty"})
domain_MarginInterestRate == Labelled("rate", {"interestRateWithinMortgage"})

FareWire == DOMAIN domain_Fare \cup {"fare7", "fare8"}
CondOrderWire == DOMAIN domain_CondOrder
MaxAvailableWire == DOMAIN domain_MaxAvailable
MarginFullInfoWire == DOMAIN domain_MarginInfo
RateWire == DOMAIN domain_MarginInterestRate

FareFromWire(fare) == FromWire(fare, domain_Fare)

\* The row with the fares of its fareVo, which may be nil.
EntrustFromWire(v, fare) ==
    IF IsNil(v) THEN NilRow ELSE FromWire(v, domain_Entrust) @@ FareFromWire(fare)

FillFromWire(v, fare) ==
    IF IsNil(v) THEN NilRow ELSE FromWire(v, domain_Fill) @@ FareFromWire(fare)

CondOrderFromWire(v) == FromWire(v, domain_CondOrder)

MaxAvailableFromWire(m) == FromWire(m, domain_MaxAvailable)

\* The margin row with one interest rate (none when rate is nil).
MarginInfoFromWire(m, rate) ==
    IF IsNil(m) THEN NilRow
    ELSE FromWire(m, domain_MarginInfo) @@ FromWire(rate, domain_MarginInterestRate)

-----------------------------------------------------------------------------
(* Account balances, positions, journals and rates (account.go)            *)

domain_AccountBalance ==
    Labelled("rate", {"spentRatio"})
    @@ Labelled("USD", {"buyPowerUs", "unitedBuyPowerUs", "thirdBuyPowerUs"})
    @@ Labelled("CNY", {"buyPowerCn", "unitedBuyPowerCn", "thirdBuyPowerCn"})
    @@ Labelled("HKD", {"holdsBalance", "assetBalance", "enableBalance", "marketValue",
        "cashOnHold", "creditValue", "creditLine", "fetchBalance", "frozenBalance",
        "currentCreditLimit", "maxCreditLimit", "unitCreditLimit", "unitMaxCreditLimit",
        "buyPower", "buyPowerCredit", "buyPowerHk", "unitedBuyPowerHk", "thirdBuyPowerHk",
        "buyPowerShortMarket", "buyPowerMoney"})
domain_Position ==
    Labelled("quantity", {"enableAmount", "currentAmount"})
    @@ Labelled("price", {"costPrice", "lastPrice", "dayCostPrice", "keepCostPrice"})
    @@ Labelled("HKD", {"incomeBalance", "marketValue", "dayInComeAmount", "dayOutComeAmount"})
    @@ Labelled("rate", {"marketValueRate", "incomeRatio"})
domain_FundJournalEntry == Labelled("HKD", {"businessBalance"})
domain_InterestRate == Labelled("rate", {"rate"})

MarginFundInfoWire == DOMAIN domain_AccountBalance
HoldsVoWire == DOMAIN domain_Position
FundJourVoWire == DOMAIN domain_FundJournalEntry

AccountBalanceFromDTO(m) == FromWire(m, domain_AccountBalance)
PositionFromDTO(h) == FromWire(h, domain_Position)
FundJournalEntryFromDTO(f) == FromWire(f, domain_FundJournalEntry)
InterestRateFromDTO(rate) == FromWire(rate, domain_InterestRate)

-----------------------------------------------------------------------------
(* Futures (futures.go): an absent decimal is zero                         *)

futuresBaseCurrency == "HKD"

OrZero(s) == IF s = "" THEN "0" ELSE s

futuresMoney(s, currency) ==
    MustNewMoney(OrZero(s), IF currency = "" THEN futuresBaseCurrency ELSE currency)
futuresQuantity(s) == MustNewQuantity(OrZero(s))
futuresPrice(s) == MustNewPrice(OrZero(s))
futuresRate(s) == MustNewRate(OrZero(s))

futuresNew(s, unit) ==
    CASE unit = "price" -> futuresPrice(s)
      [] unit = "quantity" -> futuresQuantity(s)
      [] unit = "rate" -> futuresRate(s)
      [] OTHER -> futuresMoney(s, unit)

FuturesFromDTO(v, type) ==
    IF IsNil(v) THEN NilRow ELSE [f \in DOMAIN type |-> futuresNew(v[f], type[f])]

domain_FuturesProduct == Labelled("quantity", {"contractSize"})

\* maxBuyAmount and maxSellAmount are integers on the wire: never absent.
domain_FuturesCapacity(ccy) == Labelled(ccy, {"initialMargin"})
domain_FuturesAccount ==
    Labelled(futuresBaseCurrency, {"assetBalance", "enableBalance", "marginCall",
        "incomeBalance", "cashBal", "iMargin", "mMargin", "maxMargin", "creditLimit",
        "closeProfit"})
    @@ Labelled("rate", {"marginLevel", "statusPercent", "cycRateUSDtoHSD"})
    @@ [cashBalHKD |-> "HKD", cashBalUSD |-> "USD", cashBalCNH |-> "CNH"]

\* Every profit is in the base currency, whatever the row's own one (ccy) is.
domain_FuturesPosition ==
    Labelled("quantity", {"contractValue", "lastDayQty", "depQty", "dayLongQty",
        "dayShortQty", "dayNetQty", "currentQty"})
    @@ Labelled("price", {"lastDayPrice", "dayLongPrice", "dayShortPrice", "dayNetPrice",
        "costPrice", "lastPrice", "preClosePrice"})
    @@ Labelled(futuresBaseCurrency, {"profitLoss", "profitLossBaseCcy", "closeProfit"})
    @@ [closeProfitHKD |-> "HKD", ccyRate |-> "rate"]
domain_FuturesOrder == Labelled("price", {"entrustPrice", "businessPrice"})
                       @@ Labelled("quantity", {"entrustAmount", "businessAmount"})
domain_FuturesFill == Labelled("price", {"businessPrice", "entrustPrice"})
                      @@ Labelled("quantity", {"entrustAmount", "businessAmount"})

FuturesProductInfoWire == DOMAIN domain_FuturesProduct
FuturesMaxBuySellAmountWire == {"initialMargin"}
FuturesFundInfoWire == DOMAIN domain_FuturesAccount
FuturesHoldWire == DOMAIN domain_FuturesPosition
FuturesOrderWire == DOMAIN domain_FuturesOrder

FuturesProductFromDTO(v) == FuturesFromDTO(v, domain_FuturesProduct)
FuturesCapacityFromDTO(v, ccy) == FuturesFromDTO(v, domain_FuturesCapacity(ccy))
FuturesAccountFromDTO(v) == FuturesFromDTO(v, domain_FuturesAccount)
FuturesPositionFromDTO(v) == FuturesFromDTO(v, domain_FuturesPosition)

\* Mutant: the row is parsed as it comes.
FuturesOrderFromDTOUnwrapped(v) == FromWire(v, domain_FuturesOrder)

FuturesOrderFromDTO(v) == FuturesFromDTO(v, domain_FuturesOrder)
FuturesFillFromDTO(v) == FuturesFromDTO(v, domain_FuturesFill)

-----------------------------------------------------------------------------
(* Algo master orders (algo.go): the same wrappers                         *)

algoPrice(s) == MustNewPrice(OrZero(s))
algoQuantity(s) == MustNewQuantity(OrZero(s))
algoMoney(s) == MustNewMoney(OrZero(s), "HKD")
algoRate(s) == MustNewRate(OrZero(s))

algoNew(s, unit) ==
    CASE unit = "price" -> algoPrice(s)
      [] unit = "quantity" -> algoQuantity(s)
      [] unit = "rate" -> algoRate(s)
      [] OTHER -> algoMoney(s)

AlgoFromDTO(v, type) ==
    IF IsNil(v) THEN NilRow ELSE [f \in DOMAIN type |-> algoNew(v[f], type[f])]

domain_AlgoStrategyParam ==
    Labelled("quantity", {"maxVolume", "showQty"}) @@ [minAmount |-> "HKD", qtyPercent |-> "rate"]
domain_AlgoMasterOrder ==
    Labelled("price", {"entrustPrice", "avgPx"})
    @@ Labelled("quantity", {"entrustAmount", "cumQty", "leavesQty", "roundLot"})

AlgoStrategyParamWire == DOMAIN domain_AlgoStrategyParam
AlgoMasterOrderWire == DOMAIN domain_AlgoMasterOrder

AlgoStrategyParamFromDTO(v) == AlgoFromDTO(v, domain_AlgoStrategyParam)

\* The strategy parameters are a value inside the row.
AlgoMasterOrderFromDTO(v) ==
    IF IsNil(v) THEN NilRow
    ELSE AlgoFromDTO(v, domain_AlgoMasterOrder) @@ AlgoStrategyParamFromDTO(v)

-----------------------------------------------------------------------------
(* Market data (services/market.go).  The rows hold JSON numbers, which    *)
(* cannot be absent but may be written with an exponent, and a list may    *)
(* hold a nil row.  Volumes are integers and left out.                     *)

\* Plain digits, never an exponent and never rounded.
floatToString(x) == IF x = "1e-7" THEN "0.0000001" ELSE x

FromFloats(row, type) ==
    IF IsNil(row) THEN NilRow
    ELSE [f \in DOMAIN type |-> MustNew(floatToString(row[f]), type[f])]

domain_Quote ==
    Labelled("price", {"openPrice", "highPrice", "lowPrice", "lastPrice", "lastClosePrice",
                       "priceSpread"})
    @@ Labelled("rate", {"turnoverRate", "amplitude"}) @@ [turnover |-> "HKD"]
domain_KLine ==
    Labelled("price", {"highPrice", "openPrice", "lowPrice", "closePrice", "lastClosePrice"})
    @@ [turnover |-> "HKD"]
domain_TimeSharePoint ==
    Labelled("price", {"price", "lastClosePrice", "avgPrice"}) @@ [turnover |-> "HKD"]
domain_TickerTick == [price |-> "price", turnover |-> "HKD"]

convertToQuote(q) == FromFloats(q, domain_Quote)
convertToKLine(k) == FromFloats(k, domain_KLine)
convertToTimeSharePoint(ts) == FromFloats(ts, domain_TimeSharePoint)
convertToTickerTick(t) == FromFloats(t, domain_TickerTick)

\* Reading a field of a nil row is a panic of its own.
NilDereference == [row |-> [amount |-> Panicked, unit |-> "nil"]]

convertOrderBookLevels(l) ==
    IF IsNil(l) THEN NilDereference ELSE FromFloats(l, [price |-> "price"])

\* The entries of a broker queue have no decimals.
convertBrokerEntries(e) == IF IsNil(e) THEN NilDereference ELSE NilRow

=============================================================================
