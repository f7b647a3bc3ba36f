---------------------------- MODULE RequestProofs -----------------------------
(***************************************************************************)
(* Proofs about the calls RequestAudit audits: what v-next lets through,   *)
(* and what it writes.  The facts about the operators hold for every       *)
(* request, not only for those of the audit.                               *)
(***************************************************************************)
EXTENDS RequestAudit, WellFoundedInduction, TLAPS

\* A leaf that names no prover goes to Zenon; arithmetic goes to SMT.
USE ZenonT(20)

-----------------------------------------------------------------------------
(* Cash orders.                                                            *)

\* A set of check numbers has a first one: the check that refuses a call.
LEMMA LeastFailure ==
    ASSUME NEW S \in SUBSET Nat, S # {}
    PROVE  \E x \in S : \A y \in S : x <= y
<1>1. PICK x \in S : \A y \in S : ~(<<y, x>> \in OpToRel(<, Nat))
  BY NatLessThanWellFounded, WFMin
<1>2. ASSUME NEW y \in S, y < x PROVE FALSE
  <2>1. <<y, x>> \in Nat \X Nat /\ <<y, x>>[1] < <<y, x>>[2]
    BY <1>2
  <2>2. <<y, x>> \in OpToRel(<, Nat)
    BY <2>1 DEF OpToRel
  <2> QED BY <1>1, <2>2
<1>3. \A y \in S : x <= y
  BY SMT, <1>2
<1> QED BY <1>3

\* A call is accepted exactly when every check passes.
LEMMA RefusalOfChecks ==
    ASSUME NEW checks, DOMAIN checks \subseteq Nat,
           \A j \in DOMAIN checks : checks[j][1] # NoRefusal
    PROVE  Refusal(checks) = NoRefusal <=> \A j \in DOMAIN checks : checks[j][2]
<1> DEFINE failed == {j \in DOMAIN checks : ~checks[j][2]}
<1>1. CASE failed = {}
  BY <1>1 DEF Refusal
<1>2. CASE failed # {}
  <2>1. PICK x \in failed : \A y \in failed : x <= y
    BY <1>2, LeastFailure
  <2>2. (CHOOSE j \in failed : \A k \in failed : j <= k) \in failed
    BY <2>1
  <2>3. Refusal(checks) = checks[CHOOSE j \in failed : \A k \in failed : j <= k][1]
    BY <1>2 DEF Refusal
  <2>4. failed \subseteq DOMAIN checks
    OBVIOUS
  <2>5. ~\A j \in DOMAIN checks : checks[j][2]
    BY <1>2
  <2> HIDE DEF failed
  <2> QED BY <2>2, <2>3, <2>4, <2>5
<1> QED BY <1>1, <1>2

\* The checks of Entrust on a Hong Kong order, one by one.
LEMMA EntrustChecks ==
    ASSUME NEW o, o.market = "HK", Accepted(Entrust(o))
    PROVE  LET sym == [market |-> o.market, dtype |-> o.dtype]
           IN  /\ validateQuantityForHK(o.amount, sym)
               /\ isPriceOptional(o.type) \/ validatePriceForHK(Dec(o.price), sym)
               /\ validateSessionWindow(o.market, o.session, o.clock)
               /\ validateOrderTypeEligibility(o.type, o.market)
               /\ isConditionalOrder(o.type) => Dec(o.validDays) \in 1..maxValidDays
               /\ isConditionalOrder(o.type) => o.condValue # ""
<1> DEFINE sym == [market |-> o.market, dtype |-> o.dtype]
           c0 == <<"accountID", o.account # "">>
           c1 == <<"lot", validateQuantityForHK(o.amount, sym)>>
           c2 == <<"tick", isPriceOptional(o.type) \/ validatePriceForHK(Dec(o.price), sym)>>
           c3 == <<"session", validateSessionWindow(o.market, o.session, o.clock)>>
           c4 == <<"entrustType", validateOrderTypeEligibility(o.type, o.market)>>
           c5 == <<"tif", validateTimeInForce(o.tif)>>
           c6 == <<"side", validateShortSellingFlag(o.side, o.dtype)>>
           c7 == <<"validDays", isConditionalOrder(o.type) => Dec(o.validDays) \in 1..maxValidDays>>
           c8 == <<"condValue", isConditionalOrder(o.type) => o.condValue # "">>
           checks == <<c0>> \o <<c1, c2, c3, c4, c5, c6, c7, c8>>
<1>1. Refusal(checks) = NoRefusal
  <2>1. cashAccountCheck(o) \o validateOrderForHK(o) = checks
    BY DEF cashAccountCheck, validateOrderForHK, MarketHK
  <2>2. Entrust(o).refusal = Refusal(checks)
    BY <2>1 DEF Entrust, Call
  <2> QED BY <2>2 DEF Accepted
<1>2. /\ \A c \in {c0, c1, c2, c3, c4, c5, c6, c7, c8} : c[1] # NoRefusal
      /\ c1[2] = validateQuantityForHK(o.amount, sym)
      /\ c2[2] = (isPriceOptional(o.type) \/ validatePriceForHK(Dec(o.price), sym))
      /\ c3[2] = validateSessionWindow(o.market, o.session, o.clock)
      /\ c4[2] = validateOrderTypeEligibility(o.type, o.market)
      /\ c7[2] = (isConditionalOrder(o.type) => Dec(o.validDays) \in 1..maxValidDays)
      /\ c8[2] = (isConditionalOrder(o.type) => o.condValue # "")
  <2>1. \A name, passes : <<name, passes>>[1] = name /\ <<name, passes>>[2] = passes
    OBVIOUS
  <2>2. /\ c0[1] = "accountID" /\ c1[1] = "lot" /\ c2[1] = "tick" /\ c3[1] = "session"
        /\ c4[1] = "entrustType" /\ c5[1] = "tif" /\ c6[1] = "side"
        /\ c7[1] = "validDays" /\ c8[1] = "condValue"
    BY <2>1
  <2>3. \A c \in {c0, c1, c2, c3, c4, c5, c6, c7, c8} : c[1] # NoRefusal
    <3> HIDE DEF c0, c1, c2, c3, c4, c5, c6, c7, c8
    <3> QED BY <2>2 DEF NoRefusal
  <2> QED BY <2>1, <2>3
<1> HIDE DEF sym, c0, c1, c2, c3, c4, c5, c6, c7, c8
<1>3. /\ DOMAIN checks = 1..9
      /\ checks[1] = c0 /\ checks[2] = c1 /\ checks[3] = c2 /\ checks[4] = c3 /\ checks[5] = c4
      /\ checks[6] = c5 /\ checks[7] = c6 /\ checks[8] = c7 /\ checks[9] = c8
  BY SMTT(30)
<1> HIDE DEF checks
<1>4. /\ DOMAIN checks \subseteq Nat
      /\ \A j \in DOMAIN checks : checks[j] \in {c0, c1, c2, c3, c4, c5, c6, c7, c8}
      /\ {2, 3, 4, 5, 8, 9} \subseteq DOMAIN checks
  BY SMT, <1>3
<1>5. \A j \in DOMAIN checks : checks[j][2]
  <2>1. \A j \in DOMAIN checks : checks[j][1] # NoRefusal
    BY <1>2, <1>4
  <2> QED BY <1>1, <1>4, <2>1, RefusalOfChecks
<1>6. c1[2] /\ c2[2] /\ c3[2] /\ c4[2] /\ c7[2] /\ c8[2]
  BY <1>3, <1>4, <1>5
<1> QED BY <1>2, <1>6 DEF sym

\* The bands are ordered, and each begins at a whole number of its own ticks.
LEMMA PriceBands ==
    ASSUME NEW p \in Int, p >= 0, NEW i \in DOMAIN hkStockPriceBands,
           p <= hkStockPriceBands[i].upper, i > 1 => p > hkStockPriceBands[i - 1].upper,
           p % hkStockPriceBands[i].tick = 0
    PROVE  LegalHKPrice(p)
<1>1. i \in 1..11
  BY SMTT(30) DEF hkStockPriceBands
<1>2. BandFloor(i) <= p /\ (p - BandFloor(i)) % hkStockPriceBands[i].tick = 0
  <2>1. CASE i = 1
    BY SMT, <2>1 DEF hkStockPriceBands, BandFloor
  <2>2. CASE i = 2
    BY SMT, <2>2 DEF hkStockPriceBands, BandFloor, Unit
  <2>3. CASE i = 3
    BY SMTT(30), <2>3 DEF hkStockPriceBands, BandFloor, Unit
  <2>4. CASE i = 4
    BY SMTT(30), <2>4 DEF hkStockPriceBands, BandFloor, Unit
  <2>5. CASE i = 5
    BY SMT, <2>5 DEF hkStockPriceBands, BandFloor, Unit
  <2>6. CASE i = 6
    BY SMTT(30), <2>6 DEF hkStockPriceBands, BandFloor, Unit
  <2>7. CASE i = 7
    BY SMTT(30), <2>7 DEF hkStockPriceBands, BandFloor, Unit
  <2>8. CASE i = 8
    BY SMTT(30), <2>8 DEF hkStockPriceBands, BandFloor, Unit
  <2>9. CASE i = 9
    BY SMTT(30), <2>9 DEF hkStockPriceBands, BandFloor, Unit
  <2>10. CASE i = 10
    BY SMTT(30), <2>10 DEF hkStockPriceBands, BandFloor, Unit
  <2>11. CASE i = 11
    BY SMT, <2>11 DEF hkStockPriceBands, BandFloor, Unit
  <2> QED BY SMTT(30), <1>1, <2>1, <2>2, <2>3, <2>4, <2>5, <2>6, <2>7, <2>8, <2>9, <2>10, <2>11
<1> QED BY <1>2 DEF LegalHKPrice

\* A price that passes the tick check of a Hong Kong stock is one of a band.
LEMMA TickCheck ==
    ASSUME NEW p \in Int, NEW sym, sym.market = "HK", sym.dtype = "HKStock",
           validatePriceForHK(p, sym)
    PROVE  LegalHKPrice(p)
<1> DEFINE bands == {i \in DOMAIN hkStockPriceBands : p <= hkStockPriceBands[i].upper}
<1>1. DOMAIN hkStockPriceBands = 1..11 /\ Len(hkStockPriceBands) = 11
  BY SMT DEF hkStockPriceBands
<1>2. \A i \in 1..11 : hkStockPriceBands[i].upper \in Int /\ hkStockPriceBands[i].tick > 0
  BY SMT DEF hkStockPriceBands, Unit
<1>3. PICK t : t = hkStockTickAtPrice(p)
  OBVIOUS
<1>4. resolveTickForPrice(p, sym) = t
  BY <1>3 DEF resolveTickForPrice, ScheduleForPrice, MarketHK
<1>5. CASE bands = {}
  <2>1. p > hkStockPriceBands[11].upper
    BY SMTT(30), <1>1, <1>2, <1>5
  <2> QED BY <1>1, <2>1 DEF LegalHKPrice
<1>6. CASE bands # {}
  <2>1. bands \in SUBSET Nat
    BY SMT, <1>1
  <2>2. PICK i : i = CHOOSE k \in bands : \A j \in bands : k <= j
    OBVIOUS
  <2>3. i \in bands /\ \A j \in bands : i <= j
    BY <1>6, <2>1, <2>2, LeastFailure
  <2>4. t = [tick |-> hkStockPriceBands[i].tick, ok |-> TRUE]
    BY <1>3, <1>6, <2>2 DEF hkStockTickAtPrice
  <2>5. t.ok = TRUE /\ t.tick = hkStockPriceBands[i].tick
    BY SMT, <2>4
  <2>6. PriceValidateOn(p, hkStockPriceBands[i].tick)
    BY <1>4, <2>5 DEF validatePriceForHK
  <2>7. i \in DOMAIN hkStockPriceBands /\ i \in 1..11 /\ p <= hkStockPriceBands[i].upper
    BY <1>1, <2>3
  <2>8. p >= 0 /\ p % hkStockPriceBands[i].tick = 0
    BY <1>2, <2>6, <2>7 DEF PriceValidateOn
  <2>9. i > 1 => p > hkStockPriceBands[i - 1].upper
    <3> SUFFICES ASSUME i > 1, ~(p > hkStockPriceBands[i - 1].upper) PROVE FALSE
      OBVIOUS
    <3>1. i - 1 \in 1..11 /\ ~(i <= i - 1)
      BY SMTT(30), <2>7
    <3>2. p <= hkStockPriceBands[i - 1].upper
      BY SMTT(30), <1>2, <3>1
    <3>3. i - 1 \in bands
      BY <1>1, <3>1, <3>2
    <3> QED BY <2>3, <3>1, <3>3
  <2> QED BY <2>7, <2>8, <2>9, PriceBands
<1> QED BY <1>5, <1>6

\* Whatever its fields are, a cash order Entrust accepts is on the grid.
THEOREM AcceptedIsOnGrid ==
    ASSUME NEW o, o.amount \in Int, o.price \in Int, Accepted(Entrust(o))
    PROVE  OnGrid(o)
<1> SUFFICES ASSUME o.market = "HK", o.dtype = "HKStock"
             PROVE  /\ o.amount % Lots(1) = 0
                    /\ isPriceOptional(o.type) \/ LegalHKPrice(Dec(o.price))
                    /\ o.session = "1" => o.clock \in 540..570
                    /\ o.session = "2" => o.clock \in 570..720
                    /\ o.session = "3" => o.clock \in 720..960
                    /\ o.type \notin {"32", "34", "36"}
                    /\ o.type \in {"31", "33", "35"}
                          => o.condValue # "" /\ Dec(o.validDays) \in 1..100
  BY DEF OnGrid
<1>1. PICK sym : sym = [market |-> o.market, dtype |-> o.dtype]
  OBVIOUS
<1>2. /\ validateQuantityForHK(o.amount, sym)
      /\ isPriceOptional(o.type) \/ validatePriceForHK(Dec(o.price), sym)
      /\ validateSessionWindow(o.market, o.session, o.clock)
      /\ validateOrderTypeEligibility(o.type, o.market)
      /\ isConditionalOrder(o.type) => Dec(o.validDays) \in 1..maxValidDays
      /\ isConditionalOrder(o.type) => o.condValue # ""
  BY <1>1, EntrustChecks
<1>3. sym.market = "HK" /\ sym.dtype = "HKStock"
  BY SMT, <1>1
<1>4. o.amount % Lots(1) = 0
  <2>1. ScheduleFor(sym) = [lot |-> 100, tick |-> 10, ok |-> TRUE]
    BY <1>3 DEF ScheduleFor, DefaultHKTickSchedule, MarketHK
  <2>2. PICK s : s = ScheduleFor(sym)
    OBVIOUS
  <2>3. s.lot = 100 /\ s.ok = TRUE
    BY SMTT(30), <2>1, <2>2
  <2>4. QuantityValidateLot(o.amount, 100)
    BY <1>2, <2>2, <2>3 DEF validateQuantityForHK
  <2> QED BY SMT, <2>4 DEF QuantityValidateLot, Lots, Unit
<1>5. Dec(o.price) \in Int
  BY SMT DEF Dec
<1>6. isPriceOptional(o.type) \/ LegalHKPrice(Dec(o.price))
  BY <1>2, <1>3, <1>5, TickCheck
<1>7. /\ o.session = "1" => o.clock \in 540..570
      /\ o.session = "2" => o.clock \in 570..720
      /\ o.session = "3" => o.clock \in 720..960
  <2>1. hkSessionWindows["1"] = 540..570
    BY SMT DEF hkSessionWindows
  <2>2. hkSessionWindows["2"] = 570..720
    BY SMT DEF hkSessionWindows
  <2>3. hkSessionWindows["3"] = 720..960
    BY SMTT(30) DEF hkSessionWindows
  <2>4. ASSUME o.session \in {"1", "2", "3"} PROVE o.clock \in hkSessionWindows[o.session]
    BY <1>2, <2>4 DEF validateSessionWindow, MarketHK, hkSessionWindows
  <2>5. ASSUME o.session = "1" PROVE o.clock \in 540..570
    BY SMTT(30), <2>1, <2>4, <2>5
  <2>6. ASSUME o.session = "2" PROVE o.clock \in 570..720
    BY SMTT(30), <2>2, <2>4, <2>6
  <2>7. ASSUME o.session = "3" PROVE o.clock \in 720..960
    BY SMTT(30), <2>3, <2>4, <2>7
  <2> QED BY <2>5, <2>6, <2>7
<1>8. /\ o.type \notin {"32", "34", "36"}
      /\ o.type \in {"31", "33", "35"} => o.condValue # "" /\ Dec(o.validDays) \in 1..100
  BY <1>2 DEF isConditionalOrder, maxValidDays, validateOrderTypeEligibility, knownHKOrderTypes,
              MarketHK
<1> QED BY ZenonT(60), <1>4, <1>6, <1>7, <1>8

\* The request of a cash order has all its fields, and its numbers are numbers.
OrderFields(r) == DOMAIN r = DOMAIN CashOrder /\ r.amount \in Int /\ r.price \in Int

\* The operation TradeEntrust is Entrust, on the fields of a cash order.
LEMMA OrderCase ==
    /\ Fields("TradeEntrust") = CashOrder
    /\ \A r : VNextCall("TradeEntrust", r) = Entrust(r)
<1>1. Fields("TradeEntrust") = CashOrder
  BY DEF Fields, FuturesReads, FuturesPages, CashAmends, CashLists, CashReads, AccountReads, MarketCalls
<1>2. \A r : VNextCall("TradeEntrust", r) = Entrust(r)
  BY DEF VNextCall
<1> QED BY <1>1, <1>2

\* Amount and price of a cash order are numbers, whichever the caller picks,
LEMMA OrderNumbers ==
    /\ {"amount", "price"} \subseteq DOMAIN CashOrder
    /\ \A f \in {"amount", "price"} : CashOrder[f] \subseteq Int
<1>1. DOMAIN CashOrder = {"account", "market", "dtype", "stockCode", "amount", "price", "side", "type",
                          "session", "clock", "tif", "iceberg", "validDays", "condValue"}
  BY SMT DEF CashOrder
<1>2. CashOrder.amount \subseteq Int
  BY SMT DEF CashOrder, Lots, Unit
<1>3. CashOrder.price \subseteq Int
  BY SMT DEF CashOrder, Unit, Absent
<1> QED BY <1>1, <1>2, <1>3

\* in the order every caller starts from,
LEMMA BaseOrder == OrderFields(BaseRequest("TradeEntrust"))
<1> DEFINE r == BaseRequest("TradeEntrust")
<1>1. Base.amount \in Int /\ Base.price \in Int
  BY SMT DEF Base, Lots, Unit
<1>2. \A f \in {"amount", "price"} : r[f] = Base[f]
  BY OrderCase, OrderNumbers DEF BaseRequest
<1>3. DOMAIN r = DOMAIN CashOrder
  BY OrderCase DEF BaseRequest
<1> QED BY <1>1, <1>2, <1>3 DEF OrderFields

\* and after a field was changed.
LEMMA EditedOrder ==
    ASSUME NEW r, OrderFields(r), NEW f \in DOMAIN r, NEW v \in CashOrder[f]
    PROVE  OrderFields([r EXCEPT ![f] = v])
<1> DEFINE s == [r EXCEPT ![f] = v]
<1>1. DOMAIN s = DOMAIN r
  OBVIOUS
<1>2. \A g \in {"amount", "price"} : s[g] \in Int
  <2> SUFFICES ASSUME NEW g \in {"amount", "price"} PROVE s[g] \in Int
    OBVIOUS
  <2>1. g \in DOMAIN r /\ r[g] \in Int
    BY OrderNumbers DEF OrderFields
  <2>2. CASE g = f
    BY <2>1, <2>2, OrderNumbers
  <2>3. CASE g # f
    BY <2>1, <2>3
  <2> QED BY <2>2, <2>3
<1> QED BY <1>1, <1>2 DEF OrderFields

Composed ==
    op = "TradeEntrust" => OrderFields(req) /\ (phase = "sent" => Accepted(Entrust(req)))

\* No cash order off the grid leaves the v-next layer (Entrust), whatever
\* fields the caller changed and however many.
THEOREM OrdersAreOnGrid == Spec => []HKOrdersAreOnGrid
<1>1. Init => Composed
  BY BaseOrder DEF Init, Composed
<1>2. Composed /\ [Next]_vars => Composed'
  <2> SUFFICES ASSUME Composed, [Next]_vars PROVE Composed'
    OBVIOUS
  <2>1. CASE UNCHANGED vars
    BY <2>1 DEF vars, Composed
  <2>2. ASSUME NEW f \in DOMAIN req, NEW v \in Fields(op)[f], Edit(f, v) PROVE Composed'
    <3>1. op' = op /\ phase' # "sent" /\ req' = [req EXCEPT ![f] = v]
      BY <2>2 DEF Edit
    <3>2. op = "TradeEntrust" => OrderFields(req')
      BY <2>2, <3>1, EditedOrder, OrderCase DEF Composed
    <3> QED BY <3>1, <3>2 DEF Composed, OrderFields
  <2>3. CASE Submit
    <3>1. op' = op /\ req' = req
      BY <2>3 DEF Submit
    <3>2. phase' = "sent" => Accepted(VNextCall(op, req))
      BY <2>3 DEF Submit
    <3>3. op = "TradeEntrust" /\ phase' = "sent" => Accepted(Entrust(req))
      BY <3>2, OrderCase
    <3> QED BY <3>1, <3>3 DEF Composed
  <2>4. ASSUME NEW v, Reply(v) PROVE Composed'
    BY <2>4 DEF Reply, Composed
  <2>5. ASSUME NEW f, NEW opts, NEW subs, NEW orders, Receive(f, opts, subs, orders) PROVE Composed'
    BY <2>5 DEF Receive, Composed
  <2>6. ASSUME NEW o, Again(o) PROVE Composed'
    BY <2>6, BaseOrder DEF Again, Composed
  <2> QED BY <2>1, <2>2, <2>3, <2>4, <2>5, <2>6 DEF Next
<1>3. Composed => HKOrdersAreOnGrid
  BY AcceptedIsOnGrid DEF Composed, OrderFields, HKOrdersAreOnGrid
<1> QED BY <1>1, <1>2, <1>3, PTL DEF Spec

-----------------------------------------------------------------------------
(* Requests in both layers.                                                *)

\* A list of checks, none of which has the name of passing; that all of them
\* pass; and that all but one do.
CheckList(s) ==
    Len(s) \in Nat /\ DOMAIN s = 1..Len(s) /\ \A j \in DOMAIN s : s[j][1] # NoRefusal
Passed(s) == \A j \in DOMAIN s : s[j][2]
OnlyFails(s, k) == k \in DOMAIN s /\ ~s[k][2] /\ \A j \in DOMAIN s \ {k} : s[j][2]

\* A method sends exactly when all its checks pass.
LEMMA CallOfChecks ==
    ASSUME NEW path, NEW s, NEW body, CheckList(s)
    PROVE  Accepted(Call(path, s, body)) <=> Passed(s)
<1>1. DOMAIN s \subseteq Nat
  BY SMT DEF CheckList
<1>2. Call(path, s, body).refusal = Refusal(s)
  BY DEF Call
<1> QED BY <1>1, <1>2, RefusalOfChecks DEF Accepted, Passed, CheckList

\* With one check failing, its name is what the caller learns.
LEMMA OnlyRefusal ==
    ASSUME NEW path, NEW s, NEW body, NEW k, CheckList(s), OnlyFails(s, k)
    PROVE  Call(path, s, body).refusal = s[k][1]
<1> DEFINE failed == {j \in DOMAIN s : ~s[j][2]}
<1>1. failed = {k}
  BY DEF OnlyFails
<1>2. k <= k
  BY SMT DEF CheckList, OnlyFails
<1>3. (CHOOSE i \in {k} : \A j \in {k} : i <= j) = k
  BY <1>2
<1>4. Refusal(s) = s[CHOOSE i \in failed : \A j \in failed : i <= j][1]
  BY <1>1 DEF Refusal
<1>5. Call(path, s, body).refusal = Refusal(s)
  BY DEF Call
<1> QED BY <1>1, <1>3, <1>4, <1>5

\* Checks made one after the other.
LEMMA JoinedChecks ==
    ASSUME NEW s, NEW t, CheckList(s), CheckList(t)
    PROVE  CheckList(s \o t) /\ (Passed(s \o t) <=> Passed(s) /\ Passed(t))
<1>1. Len(s) \in Nat /\ Len(t) \in Nat /\ DOMAIN s = 1..Len(s) /\ DOMAIN t = 1..Len(t)
  BY DEF CheckList
<1>2. DOMAIN (s \o t) = 1..(Len(s) + Len(t)) /\ Len(s \o t) = Len(s) + Len(t)
  BY SMTT(30), <1>1
<1>3. \A j \in 1..Len(s) : (s \o t)[j] = s[j]
  BY SMTT(30), <1>1
<1>4. \A j \in 1..Len(t) : (s \o t)[Len(s) + j] = t[j]
  BY SMTT(30), <1>1
<1>5. /\ \A j \in 1..(Len(s) + Len(t)) :
            j \in 1..Len(s) \/ \E k \in 1..Len(t) : j = Len(s) + k
      /\ \A k \in 1..Len(t) : Len(s) + k \in 1..(Len(s) + Len(t))
      /\ 1..Len(s) \subseteq 1..(Len(s) + Len(t)) /\ Len(s) + Len(t) \in Nat
  BY SMT, <1>1
<1>6. ASSUME NEW j \in 1..(Len(s) + Len(t))
      PROVE  \/ \E k \in DOMAIN s : (s \o t)[j] = s[k]
             \/ \E k \in DOMAIN t : (s \o t)[j] = t[k]
  BY <1>1, <1>3, <1>4, <1>5
<1>7. \A j \in DOMAIN (s \o t) : (s \o t)[j][1] # NoRefusal
  BY <1>2, <1>6 DEF CheckList
<1>8. ASSUME Passed(s \o t) PROVE Passed(s) /\ Passed(t)
  BY <1>1, <1>2, <1>3, <1>4, <1>5, <1>8 DEF Passed
<1>9. ASSUME Passed(s), Passed(t) PROVE Passed(s \o t)
  BY <1>2, <1>6, <1>9 DEF Passed
<1> QED BY <1>2, <1>5, <1>7, <1>8, <1>9 DEF CheckList

\* A call without checks is let through.
LEMMA NoChecks == CheckList(<< >>) /\ Passed(<< >>)
BY SMT DEF CheckList, Passed

\* Lists of one to six checks, as the validators write them, are lists of checks
\* and pass when each of them does.
LEMMA OneCheck ==
    \A n1, b1 :
        n1 # NoRefusal
        => LET s == << <<n1, b1>> >>
           IN  CheckList(s) /\ (Passed(s) <=> b1)
BY SMT DEF CheckList, Passed

LEMMA TwoChecks ==
    \A n1, n2, b1, b2 :
        n1 # NoRefusal /\ n2 # NoRefusal
        => LET s == << <<n1, b1>>, <<n2, b2>> >>
           IN  CheckList(s) /\ (Passed(s) <=> b1 /\ b2)
BY SMT DEF CheckList, Passed

LEMMA ThreeChecks ==
    \A n1, n2, n3, b1, b2, b3 :
        n1 # NoRefusal /\ n2 # NoRefusal /\ n3 # NoRefusal
        => LET s == << <<n1, b1>>, <<n2, b2>>, <<n3, b3>> >>
           IN  CheckList(s) /\ (Passed(s) <=> b1 /\ b2 /\ b3)
BY SMT DEF CheckList, Passed

LEMMA FourChecks ==
    \A n1, n2, n3, n4, b1, b2, b3, b4 :
        n1 # NoRefusal /\ n2 # NoRefusal /\ n3 # NoRefusal /\ n4 # NoRefusal
        => LET s == << <<n1, b1>>, <<n2, b2>>, <<n3, b3>>, <<n4, b4>> >>
           IN  CheckList(s) /\ (Passed(s) <=> b1 /\ b2 /\ b3 /\ b4)
BY SMTT(30) DEF CheckList, Passed

LEMMA FiveChecks ==
    \A n1, n2, n3, n4, n5, b1, b2, b3, b4, b5 :
        n1 # NoRefusal /\ n2 # NoRefusal /\ n3 # NoRefusal /\ n4 # NoRefusal /\ n5 # NoRefusal
        => LET s == << <<n1, b1>>, <<n2, b2>>, <<n3, b3>>, <<n4, b4>>, <<n5, b5>> >>
           IN  CheckList(s) /\ (Passed(s) <=> b1 /\ b2 /\ b3 /\ b4 /\ b5)
BY SMTT(30) DEF CheckList, Passed

LEMMA SixChecks ==
    \A n1, n2, n3, n4, n5, n6, b1, b2, b3, b4, b5, b6 :
        n1 # NoRefusal /\ n2 # NoRefusal /\ n3 # NoRefusal /\ n4 # NoRefusal /\ n5 # NoRefusal /\
        n6 # NoRefusal
        => LET s == << <<n1, b1>>, <<n2, b2>>, <<n3, b3>>, <<n4, b4>>, <<n5, b5>>, <<n6, b6>> >>
           IN  CheckList(s) /\ (Passed(s) <=> b1 /\ b2 /\ b3 /\ b4 /\ b5 /\ b6)
BY SMT DEF CheckList, Passed

\* Four lists of checks one after the other.
LEMMA FourJoined ==
    ASSUME NEW s, NEW t, NEW u, NEW v, CheckList(s), CheckList(t), CheckList(u), CheckList(v)
    PROVE  /\ CheckList(s \o t \o u \o v)
           /\ Passed(s \o t \o u \o v) <=> Passed(s) /\ Passed(t) /\ Passed(u) /\ Passed(v)
<1>1. CheckList(s \o t) /\ CheckList(s \o t \o u)
  BY JoinedChecks
<1> QED BY <1>1, JoinedChecks

\* A call that was accepted made every check, whoever wrote it.
LEMMA AcceptedChecks ==
    /\ \A p, s, b : CheckList(s) => (Accepted(Call(p, s, b)) <=> Passed(s))
    /\ \A p, s, t, b : CheckList(s) /\ CheckList(t)
          => (Accepted(Call(p, s \o t, b)) <=> Passed(s) /\ Passed(t))
    /\ \A p, s, t, u, v, b : CheckList(s) /\ CheckList(t) /\ CheckList(u) /\ CheckList(v)
          => (Accepted(Call(p, s \o t \o u \o v, b)) <=> Passed(s) /\ Passed(t) /\ Passed(u) /\ Passed(v))
<1>1. \A p, s, b : CheckList(s) => (Accepted(Call(p, s, b)) <=> Passed(s))
  BY CallOfChecks
<1>2. ASSUME NEW p, NEW s, NEW t, NEW b, CheckList(s), CheckList(t)
      PROVE  Accepted(Call(p, s \o t, b)) <=> Passed(s) /\ Passed(t)
  <2>1. CheckList(s \o t) /\ (Passed(s \o t) <=> Passed(s) /\ Passed(t))
    BY <1>2, JoinedChecks
  <2> QED BY <1>1, <2>1
<1>3. ASSUME NEW p, NEW s, NEW t, NEW u, NEW v, NEW b,
             CheckList(s), CheckList(t), CheckList(u), CheckList(v)
      PROVE  Accepted(Call(p, s \o t \o u \o v, b)) <=> Passed(s) /\ Passed(t) /\ Passed(u) /\ Passed(v)
  <2>1. /\ CheckList(s \o t \o u \o v)
        /\ Passed(s \o t \o u \o v) <=> Passed(s) /\ Passed(t) /\ Passed(u) /\ Passed(v)
    BY <1>3, FourJoined
  <2> QED BY <1>1, <2>1
<1> QED BY <1>1, <1>2, <1>3

\* What v-next asks of a futures amount and price is what the released layer
\* asks of their texts.
LEMMA FuturesNumbers ==
    /\ \A q : futuresValidateOrderQuantity(q) => future_validateQuantity(q)
    /\ \A p, z : Decimal(p) /\ futuresValidateOrderPrice(p) => future_validatePrice(p, z)
<1>1. \A q : futuresValidateOrderQuantity(q) => future_validateQuantity(q)
  BY DEF futuresValidateOrderQuantity, future_validateQuantity, Positive, Negative, Zero, Decimal
<1>2. \A p : Decimal(p) => p # ""
  BY DEF Positive, Negative, Zero, Decimal
<1> QED BY <1>1, <1>2 DEF futuresValidateOrderPrice, future_validatePrice

\* A futures order v-next accepts is accepted by the released layer too, and
\* names its type and how long it stands.
LEMMA FuturesEntrustLetThrough ==
    ASSUME NEW r, Decimal(r.entrustPrice), Accepted(FuturesEntrust(r))
    PROVE  Accepted(future_Entrust(r)) /\ r.entrustType # "" /\ r.validTimeType # ""
<1> DEFINE account == r.account # ""
           code == futuresValidateStockCode(r.stockCode)
           type == futuresValidateOrderType(r.entrustType)
           side == futuresValidateEntrustBS(r.entrustBs)
           price == futuresValidateOrderPrice(r.entrustPrice)
           amount == futuresValidateOrderQuantity(r.entrustAmount)
           timeType == r.validTimeType \in futuresValidTimeTypes
           time == IF r.validTime = "" THEN r.validTimeType # "4" ELSE futuresValidateDate(r.validTime)
           options == futuresValidateOrderOptions(futuresOrderOptionsParam(r.orderOptions))
           textPrice == future_validatePrice(r.entrustPrice, r.entrustType # "2")
           textAmount == future_validateQuantity(r.entrustAmount)
<1>1. FuturesEntrust(r) =
        Call("FuturesEntrust",
             << <<"accountID", account>> >>
             \o << <<"stockCode", code>>, <<"entrustType", type>>, <<"entrustBs", side>>,
                   <<"entrustPrice", price>>, <<"entrustAmount", amount>> >>
             \o << <<"validTimeType", timeType>>, <<"validTime", time>> >>
             \o << <<"orderOptions", options>> >>,
             futuresEntrustWireRequest(r))
  BY DEF FuturesEntrust, accountCheck, futuresValidateValidTimeType
<1>2. future_Entrust(r) =
        Call("FuturesEntrust",
             << <<"stockCode", code>>, <<"entrustBs", side>>, <<"entrustAmount", textAmount>>,
                <<"entrustPrice", textPrice>>, <<"validTime", time>> >>,
             future_EntrustRequest(r))
  BY DEF future_Entrust, futuresValidateStockCode, future_validateStockCode, futuresValidateEntrustBS,
         future_validateEntrustBS, future_validateValidTime, futuresValidateDate, future_validateDate
<1>3. price /\ amount => textPrice /\ textAmount
  BY FuturesNumbers
<1>4. (type => r.entrustType # "") /\ (timeType => r.validTimeType # "")
  BY DEF futuresValidateOrderType, DigitsShaped, futuresValidTimeTypes
<1> HIDE DEF account, code, type, side, price, amount, timeType, time, options, textPrice, textAmount
<1>5. code /\ type /\ side /\ price /\ amount /\ timeType /\ time
  BY SMTT(30), <1>1, AcceptedChecks, OneCheck, TwoChecks, FiveChecks DEF NoRefusal
<1>6. Accepted(future_Entrust(r)) <=> code /\ side /\ textAmount /\ textPrice /\ time
  BY SMTT(30), <1>2, AcceptedChecks, FiveChecks DEF NoRefusal
<1> QED BY <1>3, <1>4, <1>5, <1>6

\* So is an amendment of one.
LEMMA FuturesModifyLetThrough ==
    ASSUME NEW r, Decimal(r.entrustPrice), Accepted(FuturesModifyEntrust(r))
    PROVE  Accepted(future_ModifyEntrust(r)) /\ r.validTimeType # ""
<1> DEFINE account == r.account # ""
           id == futuresValidateEntrustID(r.entrustId)
           code == futuresValidateStockCode(r.stockCode)
           side == futuresValidateEntrustBS(r.entrustBs)
           price == futuresValidateOrderPrice(r.entrustPrice)
           amount == futuresValidateOrderQuantity(r.entrustAmount)
           timeType == r.validTimeType \in futuresValidTimeTypes
           time == IF r.validTime = "" THEN r.validTimeType # "4" ELSE futuresValidateDate(r.validTime)
           options == futuresValidateOrderOptions(futuresOrderOptionsParam(r.orderOptions))
           textPrice == future_validatePrice(r.entrustPrice, TRUE)
           textAmount == future_validateQuantity(r.entrustAmount)
<1>1. FuturesModifyEntrust(r) =
        Call("FuturesModifyEntrust",
             << <<"accountID", account>> >>
             \o << <<"entrustId", id>>, <<"stockCode", code>>, <<"entrustPrice", price>>,
                   <<"entrustAmount", amount>>, <<"entrustBs", side>> >>
             \o << <<"validTimeType", timeType>>, <<"validTime", time>> >>
             \o << <<"orderOptions", options>> >>,
             futuresModifyEntrustWireRequest(r))
  BY DEF FuturesModifyEntrust, accountCheck, futuresValidateValidTimeType
<1>2. future_ModifyEntrust(r) =
        Call("FuturesModifyEntrust",
             << <<"entrustId", id>>, <<"stockCode", code>>, <<"entrustAmount", textAmount>>,
                <<"entrustPrice", textPrice>>, <<"entrustBs", side>>, <<"validTime", time>> >>,
             future_ModifyEntrustRequest(r))
  BY DEF future_ModifyEntrust, futuresValidateStockCode, future_validateStockCode,
         futuresValidateEntrustBS, future_validateEntrustBS, future_validateValidTime,
         futuresValidateDate, future_validateDate, futuresValidateEntrustID
<1>3. price /\ amount => textPrice /\ textAmount
  BY FuturesNumbers
<1>4. timeType => r.validTimeType # ""
  BY DEF futuresValidTimeTypes
<1> HIDE DEF account, id, code, side, price, amount, timeType, time, options, textPrice, textAmount
<1>5. id /\ code /\ side /\ price /\ amount /\ timeType /\ time
  BY SMTT(30), <1>1, AcceptedChecks, OneCheck, TwoChecks, FiveChecks DEF NoRefusal
<1>6. Accepted(future_ModifyEntrust(r)) <=> id /\ code /\ textAmount /\ textPrice /\ side /\ time
  BY SMTT(30), <1>2, AcceptedChecks, SixChecks DEF NoRefusal
<1> QED BY <1>3, <1>4, <1>5, <1>6

\* A page of the futures history: the size v-next tests is the caller's, the
\* released layer's the one after the default.
LEMMA FuturesPageLetThrough ==
    ASSUME NEW r, NEW path, NEW body,
           Accepted(Call(path, accountCheck(r) \o futuresValidatePage(r), body))
    PROVE  Accepted(future_history(path, r))
<1> DEFINE account == r.account # ""
           params == future_historyParams(r, future_WithDefaultPageSize(0))
           size == r.pageSize < 100
           filled == params.pageSize < 100
           start == r.startDate # "" => futuresValidateDate(r.startDate)
           end == r.endDate # "" => futuresValidateDate(r.endDate)
<1>1. accountCheck(r) \o futuresValidatePage(r) =
        << <<"accountID", account>> >>
        \o << <<"pageSize", size>>, <<"startDate", start>>, <<"endDate", end>> >>
  BY DEF accountCheck, futuresValidatePage, futuresMaxPageSizeExclusive
<1>2. future_history(path, r) =
        Call(path, << <<"pageSize", filled>>, <<"startDate", start>>, <<"endDate", end>> >>,
             OmitEmpty(params, {"startDate", "endDate"}))
  BY DEF future_history, futuresValidateDate, future_validateDate
<1>3. size => filled
  <2>1. params.pageSize = IF r.pageSize <= 0 THEN 20 ELSE r.pageSize
    BY SMTT(30) DEF future_historyParams, future_WithDefaultPageSize
  <2> HIDE DEF params
  <2> QED BY SMTT(30), <2>1
<1> HIDE DEF account, params, size, filled, start, end
<1>4. size /\ start /\ end
  BY SMTT(30), <1>1, AcceptedChecks, OneCheck, ThreeChecks DEF NoRefusal
<1>5. Accepted(future_history(path, r)) <=> filled /\ start /\ end
  BY SMTT(30), <1>2, AcceptedChecks, ThreeChecks DEF NoRefusal
<1> QED BY <1>3, <1>4, <1>5

\* The futures calls that name contracts make the same checks in both layers.
LEMMA FuturesCodesLetThrough ==
    ASSUME NEW r
    PROVE  /\ Accepted(FuturesQueryProductInfo(r)) => Accepted(future_QueryProductInfo(r))
           /\ Accepted(FuturesQueryMaxBuySellAmount(r)) => Accepted(future_QueryMaxBuySellAmount(r))
           /\ Accepted(FuturesCancelEntrust(r)) => Accepted(future_CancelEntrust(r))
<1> DEFINE account == r.account # ""
           some == r.stockCodes # << >>
           codes == \A i \in DOMAIN r.stockCodes : futuresValidateStockCode(r.stockCodes[i])
           code == futuresValidateStockCode(r.stockCode)
           id == futuresValidateEntrustID(r.entrustId)
<1>1. \E body :
        /\ FuturesQueryProductInfo(r) =
             Call("FuturesQueryProductInfo",
                  << <<"accountID", account>> >>
                  \o << <<"stockCodes", some>>, <<"stockCode", codes>> >>, body)
        /\ future_QueryProductInfo(r) =
             Call("FuturesQueryProductInfo", << <<"stockCodes", some>>, <<"stockCode", codes>> >>, body)
  BY DEF FuturesQueryProductInfo, future_QueryProductInfo, accountCheck, futuresValidateStockCode,
         future_validateStockCode
<1>2. \E body :
        /\ FuturesQueryMaxBuySellAmount(r) =
             Call("FuturesQueryMaxBuySellAmount",
                  << <<"accountID", account>> >> \o << <<"stockCode", code>> >>, body)
        /\ future_QueryMaxBuySellAmount(r) =
             Call("FuturesQueryMaxBuySellAmount", << <<"stockCode", code>> >>, body)
  BY DEF FuturesQueryMaxBuySellAmount, future_QueryMaxBuySellAmount, accountCheck,
         futuresValidateStockCode, future_validateStockCode
<1>3. \E body :
        /\ FuturesCancelEntrust(r) =
             Call("FuturesCancelEntrust",
                  << <<"accountID", account>> >>
                  \o << <<"entrustId", id>>, <<"stockCode", code>> >>, body)
        /\ future_CancelEntrust(r) =
             Call("FuturesCancelEntrust", << <<"entrustId", id>>, <<"stockCode", code>> >>, body)
  BY DEF FuturesCancelEntrust, future_CancelEntrust, accountCheck, futuresValidateStockCode,
         future_validateStockCode, futuresValidateEntrustID, futuresCancelEntrustWireRequest,
         future_CancelEntrustRequest
<1> HIDE DEF account, some, codes, code, id
<1>4. Accepted(FuturesQueryProductInfo(r)) => Accepted(future_QueryProductInfo(r))
  BY SMTT(30), <1>1, AcceptedChecks, OneCheck, TwoChecks DEF NoRefusal
<1>5. Accepted(FuturesQueryMaxBuySellAmount(r)) => Accepted(future_QueryMaxBuySellAmount(r))
  BY SMTT(30), <1>2, AcceptedChecks, OneCheck DEF NoRefusal
<1>6. Accepted(FuturesCancelEntrust(r)) => Accepted(future_CancelEntrust(r))
  BY SMTT(30), <1>3, AcceptedChecks, OneCheck, TwoChecks DEF NoRefusal
<1> QED BY <1>4, <1>5, <1>6

\* A request after the default market was filled in is the request itself, and
\* one written for the released layer differs in the tuning left at zero.
LEMMA AlgoFields ==
    ASSUME NEW r
    PROVE  /\ LET w == algo_withExchange(r) IN DOMAIN w = DOMAIN r /\ \A f \in DOMAIN r : w[f] = r[f]
           /\ LET w == algo_withExchange(Migrated(r))
              IN  /\ DOMAIN w = DOMAIN r
                  /\ \A f \in DOMAIN r :
                        w[f] = IF f \in {"maxVolume", "minAmount", "showQty", "qtyPercent", "interval"}
                                  /\ r[f] = "0"
                               THEN "" ELSE r[f]
<1>1. ASSUME NEW p
      PROVE  LET w == algo_withExchange(p) IN DOMAIN w = DOMAIN p /\ \A f \in DOMAIN p : w[f] = p[f]
  <2> DEFINE w == algo_withExchange(p)
  <2>1. DOMAIN w = DOMAIN p
    BY DEF algo_withExchange
  <2>2. ASSUME NEW f \in DOMAIN p, f # "exchangeType" PROVE w[f] = p[f]
    BY <2>2 DEF algo_withExchange
  <2>3. ASSUME "exchangeType" \in DOMAIN p PROVE w["exchangeType"] = p["exchangeType"]
    <3>1. w["exchangeType"] = algo_exchangeType(p.exchangeType, "")
      BY <2>3 DEF algo_withExchange
    <3> QED BY <3>1 DEF algo_exchangeType
  <2> QED BY <2>1, <2>2, <2>3
<1>2. /\ DOMAIN Migrated(r) = DOMAIN r
      /\ \A f \in DOMAIN r :
            Migrated(r)[f] = IF f \in {"maxVolume", "minAmount", "showQty", "qtyPercent", "interval"}
                                /\ r[f] = "0"
                             THEN "" ELSE r[f]
  BY DEF Migrated
<1>3. PICK m : m = Migrated(r)
  OBVIOUS
<1> QED BY <1>1, <1>2, <1>3

\* What the closed codes of v-next's algo service allow is never empty.
LEMMA AlgoTexts ==
    /\ \A e : algoValidateExchangeType(e) => e # "" /\ algo_validExchange(e)
    /\ \A t : algoValidateOrderType(t) => t # "" /\ algo_EntrustType_valid(t)
    /\ \A b : algoValidateDirection(b) => b # "" /\ algo_validDirection(b)
    /\ \A s : algoValidateSessionType(s) => s # "" /\ algo_SessionType_valid(s)
    /\ \A s : algoValidateRequiredSensitivity(s) => s # "" /\ algo_Sensitivity_valid(s)
    /\ \A s : algoValidateOptionalSensitivity(s) => (s # "" => algo_Sensitivity_valid(s))
    /\ \A a : algoValidateAction(a) => algo_Action_Valid(a)
    /\ \A d : algoValidateDate(d) => d # "" /\ algo_isDate(d)
    /\ \A c : algoValidateStockCode(c) => c # ""
    /\ \A i : algoValidateOrderID(i) \/ algoValidateEntrustID(i) => i # ""
    /\ \A q : algoValidateOrderQuantity(q) \/ algoValidateRequiredMaxVolume(q)
                => q # "" /\ q # "0" /\ algo_isPositiveDecimal(q)
    /\ \A p : Decimal(p) /\ algoValidateOrderPrice(p)
                => p # "" /\ (Zero(p) <=> ~algo_isPositiveDecimal(p))
<1>1. /\ \A e : algoValidateExchangeType(e) => e # "" /\ algo_validExchange(e)
      /\ \A t : algoValidateOrderType(t) => t # "" /\ algo_EntrustType_valid(t)
      /\ \A b : algoValidateDirection(b) => b # "" /\ algo_validDirection(b)
      /\ \A s : algoValidateSessionType(s) => s # "" /\ algo_SessionType_valid(s)
  BY DEF algoValidateExchangeType, algo_validExchange, Exchanges, algoValidateOrderType,
         algo_EntrustType_valid, algoValidateDirection, algo_validDirection, Directions,
         algoValidateSessionType, algo_SessionType_valid
<1>2. /\ \A s : algoValidateRequiredSensitivity(s) => s # "" /\ algo_Sensitivity_valid(s)
      /\ \A s : algoValidateOptionalSensitivity(s) => (s # "" => algo_Sensitivity_valid(s))
      /\ \A a : algoValidateAction(a) => algo_Action_Valid(a)
      /\ \A d : algoValidateDate(d) => d # "" /\ algo_isDate(d)
  BY DEF algoValidateRequiredSensitivity, algoValidateOptionalSensitivity, algo_Sensitivity_valid,
         algoValidateAction, algo_Action_Valid, algoValidateDate, algo_isDate, DateShaped
<1>3. Trim("") = ""
  BY DEF Trim
<1>4. /\ \A c : algoValidateStockCode(c) => c # ""
      /\ \A i : algoValidateOrderID(i) \/ algoValidateEntrustID(i) => i # ""
  BY <1>3 DEF algoValidateStockCode, algoValidateOrderID, algoValidateEntrustID
<1>5. \A q : algoValidateOrderQuantity(q) \/ algoValidateRequiredMaxVolume(q)
               => q # "" /\ q # "0" /\ algo_isPositiveDecimal(q)
  BY DEF algoValidateOrderQuantity, algoValidateRequiredMaxVolume, algo_isPositiveDecimal, Positive
<1>6. \A p : Decimal(p) /\ algoValidateOrderPrice(p)
               => p # "" /\ (Zero(p) <=> ~algo_isPositiveDecimal(p))
  BY DEF Decimal, Negative, Zero, Positive, algoValidateOrderPrice, algo_isPositiveDecimal
<1> QED BY <1>1, <1>2, <1>4, <1>5, <1>6

\* The algo calls that amend or look up an order.
LEMMA AlgoLookupsLetThrough ==
    ASSUME NEW r
    PROVE  /\ DOMAIN AlgoEntrustIDQuery \subseteq DOMAIN r /\ Accepted(AlgoQueryEntrustIDList(r))
                => Accepted(algo_QueryEntrustIDList(r))
           /\ DOMAIN AlgoCancelOrderRequest \subseteq DOMAIN r /\ Accepted(AlgoCancelOrder(r))
                => Accepted(algo_CancelOrder(r))
           /\ DOMAIN AlgoCancelEntrustRequest \subseteq DOMAIN r /\ Accepted(AlgoCancelEntrust(r))
                => Accepted(algo_CancelEntrust(r))
           /\ DOMAIN AlgoActionRequest \subseteq DOMAIN r /\ Accepted(AlgoActionOrder(r))
                => Accepted(algo_ActionOrder(r))
<1>1. PICK w : w = algo_withExchange(r)
  OBVIOUS
<1>2. \A f \in DOMAIN r : w[f] = r[f]
  BY <1>1, AlgoFields
<1> DEFINE account == r.account # ""
           id == algoValidateOrderID(r.orderId)
           entrust == algoValidateEntrustID(r.entrustId)
           date == algoValidateDate(r.tradeDate)
           exchange == algoValidateExchangeType(r.exchangeType)
           strategy == algoValidateStrategy(r.targetStrategy)
           action == algoValidateAction(r.action)
           hasId == w.orderId # ""
           hasEntrust == w.entrustId # ""
           hasDate == w.tradeDate # "" /\ algo_isDate(w.tradeDate)
           hasExchange == w.exchangeType # "" /\ algo_validExchange(w.exchangeType)
           hasStrategy == w.targetStrategy # ""
           hasAction == algo_Action_Valid(w.action)
<1>3. DOMAIN AlgoEntrustIDQuery \subseteq DOMAIN r /\ Accepted(AlgoQueryEntrustIDList(r))
        => Accepted(algo_QueryEntrustIDList(r))
  <2> SUFFICES ASSUME DOMAIN AlgoEntrustIDQuery \subseteq DOMAIN r, Accepted(AlgoQueryEntrustIDList(r))
               PROVE  Accepted(algo_QueryEntrustIDList(r))
    OBVIOUS
  <2>1. \E body : AlgoQueryEntrustIDList(r) = Call("AlgoQueryEntrustIdList",
          << <<"accountID", account>> >>
          \o << <<"orderId", id>>, <<"tradeDate", date>>, <<"exchangeType", exchange>> >>, body)
    BY DEF AlgoQueryEntrustIDList, algoAccountCheck
  <2>2. \E body : algo_QueryEntrustIDList(r) = Call("AlgoQueryEntrustIdList",
          << <<"orderId", hasId>>, <<"tradeDate", hasDate>>, <<"exchangeType", hasExchange>> >>, body)
    BY <1>1 DEF algo_QueryEntrustIDList, algo_QueryEntrustIDListParams_validate
  <2>3. {"orderId", "tradeDate", "exchangeType"} \subseteq DOMAIN r
    BY SMT DEF AlgoEntrustIDQuery
  <2>4. id /\ date /\ exchange => hasId /\ hasDate /\ hasExchange
    BY <1>2, <2>3, AlgoTexts
  <2> HIDE DEF account, id, date, exchange, hasId, hasDate, hasExchange
  <2> QED BY SMTT(30), <2>1, <2>2, <2>4, AcceptedChecks, OneCheck, ThreeChecks DEF NoRefusal
<1>4. DOMAIN AlgoCancelOrderRequest \subseteq DOMAIN r /\ Accepted(AlgoCancelOrder(r))
        => Accepted(algo_CancelOrder(r))
  <2> SUFFICES ASSUME DOMAIN AlgoCancelOrderRequest \subseteq DOMAIN r, Accepted(AlgoCancelOrder(r))
               PROVE  Accepted(algo_CancelOrder(r))
    OBVIOUS
  <2>1. \E body : AlgoCancelOrder(r) = Call("AlgoCancelOrder",
          << <<"accountID", account>> >> \o << <<"orderId", id>>, <<"exchangeType", exchange>> >>, body)
    BY DEF AlgoCancelOrder, algoAccountCheck
  <2>2. \E body : algo_CancelOrder(r) = Call("AlgoCancelOrder",
          << <<"orderId", hasId>>, <<"exchangeType", hasExchange>> >>, body)
    BY <1>1 DEF algo_CancelOrder, algo_CancelOrderParams_validate
  <2>3. {"orderId", "exchangeType"} \subseteq DOMAIN r
    BY SMT DEF AlgoCancelOrderRequest
  <2>4. id /\ exchange => hasId /\ hasExchange
    BY <1>2, <2>3, AlgoTexts
  <2> HIDE DEF account, id, exchange, hasId, hasExchange
  <2> QED BY SMTT(30), <2>1, <2>2, <2>4, AcceptedChecks, OneCheck, TwoChecks DEF NoRefusal
<1>5. DOMAIN AlgoCancelEntrustRequest \subseteq DOMAIN r /\ Accepted(AlgoCancelEntrust(r))
        => Accepted(algo_CancelEntrust(r))
  <2> SUFFICES ASSUME DOMAIN AlgoCancelEntrustRequest \subseteq DOMAIN r, Accepted(AlgoCancelEntrust(r))
               PROVE  Accepted(algo_CancelEntrust(r))
    OBVIOUS
  <2>1. \E body : AlgoCancelEntrust(r) = Call("AlgoCancelEntrust",
          << <<"accountID", account>> >>
          \o << <<"orderId", id>>, <<"entrustId", entrust>>, <<"exchangeType", exchange>> >>, body)
    BY DEF AlgoCancelEntrust, algoAccountCheck
  <2>2. \E body : algo_CancelEntrust(r) = Call("AlgoCancelEntrust",
          << <<"orderId", hasId>>, <<"entrustId", hasEntrust>>, <<"exchangeType", hasExchange>> >>, body)
    BY <1>1 DEF algo_CancelEntrust, algo_CancelEntrustParams_validate
  <2>3. {"orderId", "entrustId", "exchangeType"} \subseteq DOMAIN r
    BY SMT DEF AlgoCancelEntrustRequest
  <2>4. id /\ entrust /\ exchange => hasId /\ hasEntrust /\ hasExchange
    BY <1>2, <2>3, AlgoTexts
  <2> HIDE DEF account, id, entrust, exchange, hasId, hasEntrust, hasExchange
  <2> QED BY SMTT(30), <2>1, <2>2, <2>4, AcceptedChecks, OneCheck, ThreeChecks DEF NoRefusal
<1>6. DOMAIN AlgoActionRequest \subseteq DOMAIN r /\ Accepted(AlgoActionOrder(r))
        => Accepted(algo_ActionOrder(r))
  <2> SUFFICES ASSUME DOMAIN AlgoActionRequest \subseteq DOMAIN r, Accepted(AlgoActionOrder(r))
               PROVE  Accepted(algo_ActionOrder(r))
    OBVIOUS
  <2>1. \E body : AlgoActionOrder(r) = Call("AlgoActionOrder",
          << <<"accountID", account>> >>
          \o << <<"orderId", id>>, <<"targetStrategy", strategy>>, <<"exchangeType", exchange>>,
                <<"action", action>> >>, body)
    BY DEF AlgoActionOrder, algoAccountCheck
  <2>2. \E body : algo_ActionOrder(r) = Call("AlgoActionOrder",
          << <<"orderId", hasId>>, <<"targetStrategy", hasStrategy>>, <<"exchangeType", hasExchange>>,
             <<"action", hasAction>> >>, body)
    BY <1>1 DEF algo_ActionOrder, algo_ActionOrderParams_validate
  <2>3. {"orderId", "targetStrategy", "exchangeType", "action"} \subseteq DOMAIN r
    BY SMT DEF AlgoActionRequest
  <2>4. id /\ strategy /\ exchange /\ action => hasId /\ hasStrategy /\ hasExchange /\ hasAction
    BY <1>2, <2>3, AlgoTexts DEF algoValidateStrategy
  <2> HIDE DEF account, id, strategy, exchange, action, hasId, hasStrategy, hasExchange, hasAction
  <2> QED BY SMTT(30), <2>1, <2>2, <2>4, AcceptedChecks, OneCheck, FourChecks DEF NoRefusal
<1> QED BY <1>3, <1>4, <1>5, <1>6

\* A list of algo orders: the released layer asks for a page as well.
LEMMA AlgoListLetThrough ==
    ASSUME NEW r, r.pageNo \in Int, r.pageSize \in Int, Accepted(AlgoQueryOrderList(r))
    PROVE  LetThrough("AlgoQueryOrderList", r, algo_QueryOrderList(r))
<1> DEFINE account == r.account # ""
           start == algoValidateDate(r.startDate)
           end == algoValidateDate(r.endDate)
           market == r.stockCode # "" => r.exchangeType # ""
           exchange == r.exchangeType # "" => algoValidateExchangeType(r.exchangeType)
           code == r.stockCode # "" => algoValidateStockCode(r.stockCode)
           page == algo_isPositiveInt(r.pageNo)
           size == algo_isPositiveInt(r.pageSize)
           hasStart == r.startDate # "" /\ algo_isDate(r.startDate)
           hasEnd == r.endDate # "" /\ algo_isDate(r.endDate)
<1>1. AlgoQueryOrderList(r) =
        Call("AlgoQueryOrderList",
             << <<"accountID", account>> >>
             \o << <<"startDate", start>>, <<"endDate", end>>, <<"exchangeForCode", market>>,
                   <<"exchangeType", exchange>>, <<"stockCode", code>> >>,
             algoOrderQueryWireRequest(r))
  BY DEF AlgoQueryOrderList, algoAccountCheck
<1>2. algo_QueryOrderList(r) =
        Call("AlgoQueryOrderList",
             << <<"pageNo", page>>, <<"pageSize", size>>, <<"startDate", hasStart>>,
                <<"endDate", hasEnd>>, <<"exchangeForCode", market>>, <<"exchangeType", exchange>> >>,
             algo_QueryOrderListParams(r))
  BY DEF algo_QueryOrderList, algo_QueryOrderListParams_validate, algo_validExchange,
         algoValidateExchangeType
<1>3. start /\ end => hasStart /\ hasEnd
  BY AlgoTexts
<1>4. (~page => r.pageNo <= 0) /\ (~size => r.pageSize <= 0)
  BY SMTT(30) DEF algo_isPositiveInt
<1> HIDE DEF account, start, end, market, exchange, code, page, size, hasStart, hasEnd
<1>5. start /\ end /\ market /\ exchange
  BY SMTT(30), <1>1, AcceptedChecks, OneCheck, FiveChecks DEF NoRefusal
<1>6. Accepted(algo_QueryOrderList(r)) <=> page /\ size /\ hasStart /\ hasEnd /\ market /\ exchange
  BY SMTT(30), <1>2, AcceptedChecks, SixChecks DEF NoRefusal
<1> QED BY <1>3, <1>4, <1>5, <1>6 DEF LetThrough

\* A new algo order: all the released layer asks besides is a price above zero.
LEMMA AlgoAddLetThrough ==
    ASSUME NEW r, DOMAIN AlgoAddOrderRequest \cup DOMAIN AlgoStrategyParam \subseteq DOMAIN r,
           Decimal(r.entrustPrice), Accepted(AlgoAddOrder(r))
    PROVE  LetThrough("AlgoAddOrder", r, algo_AddOrder(Migrated(r)))
<1> DEFINE w == algo_withExchange(Migrated(r))
<1>2. /\ w.stockCode = r.stockCode /\ w.exchangeType = r.exchangeType
      /\ w.entrustType = r.entrustType /\ w.entrustPrice = r.entrustPrice
      /\ w.entrustAmount = r.entrustAmount /\ w.entrustBs = r.entrustBs
      /\ w.targetStrategy = r.targetStrategy /\ w.sessionType = r.sessionType
      /\ w.maxVolume = (IF r.maxVolume = "0" THEN "" ELSE r.maxVolume)
      /\ w.sensitivity = r.sensitivity
  <2>1. {"stockCode", "exchangeType", "entrustType", "entrustPrice", "entrustAmount", "entrustBs",
         "targetStrategy", "sessionType", "maxVolume", "sensitivity"} \subseteq DOMAIN r
    BY SMTT(30) DEF AlgoAddOrderRequest, AlgoStrategyParam
  <2> QED BY <2>1, AlgoFields
<1> HIDE DEF w
<1> DEFINE account == r.account # ""
           code == algoValidateStockCode(r.stockCode)
           exchange == algoValidateExchangeType(r.exchangeType)
           type == algoValidateOrderType(r.entrustType)
           price == algoValidateOrderPrice(r.entrustPrice)
           amount == algoValidateOrderQuantity(r.entrustAmount)
           side == algoValidateDirection(r.entrustBs)
           strategy == algoValidateStrategy(r.targetStrategy)
           session == algoValidateSessionType(r.sessionType)
           volume == algoValidateRequiredMaxVolume(r.maxVolume)
           sensitivity == algoValidateRequiredSensitivity(r.sensitivity)
           start == algoValidateTimeShaped(r.origStartTime)
           end == algoValidateTimeShaped(r.origEndTime)
           least == algoValidateOptionalMoney(r.minAmount)
           shown == algoValidateOptionalQuantity(r.showQty)
           percent == algoValidateQtyPercent(r.qtyPercent)
           interval == algoValidateInterval(r.interval)
           hasCode == w.stockCode # ""
           hasExchange == w.exchangeType # "" /\ algo_validExchange(w.exchangeType)
           hasType == w.entrustType # "" /\ algo_EntrustType_valid(w.entrustType)
           hasPrice == w.entrustPrice # "" /\ algo_isPositiveDecimal(w.entrustPrice)
           hasAmount == w.entrustAmount # "" /\ algo_isPositiveDecimal(w.entrustAmount)
           hasSide == w.entrustBs # "" /\ algo_validDirection(w.entrustBs)
           hasStrategy == w.targetStrategy # ""
           hasSession == w.sessionType # "" /\ algo_SessionType_valid(w.sessionType)
           hasVolume == w.maxVolume # "" /\ algo_isPositiveDecimal(w.maxVolume)
           hasSensitivity == w.sensitivity # "" /\ algo_Sensitivity_valid(w.sensitivity)
           order == << <<"stockCode", code>>, <<"exchangeType", exchange>>, <<"entrustType", type>>,
                       <<"entrustPrice", price>>, <<"entrustAmount", amount>>, <<"entrustBs", side>>,
                       <<"targetStrategy", strategy>>, <<"sessionType", session>>,
                       <<"maxVolume", volume>>, <<"sensitivity", sensitivity>> >>
           asked == << <<"stockCode", hasCode>>, <<"exchangeType", hasExchange>>,
                       <<"entrustType", hasType>>, <<"entrustPrice", hasPrice>>,
                       <<"entrustAmount", hasAmount>>, <<"entrustBs", hasSide>>,
                       <<"targetStrategy", hasStrategy>>, <<"sessionType", hasSession>>,
                       <<"maxVolume", hasVolume>>, <<"sensitivity", hasSensitivity>> >>
<1>3. AlgoAddOrder(r) =
        Call("AlgoAddOrder",
             << <<"accountID", account>> >> \o order
             \o << <<"origStartTime", start>>, <<"origEndTime", end>> >>
             \o << <<"minAmount", least>>, <<"showQty", shown>>, <<"qtyPercent", percent>>,
                   <<"interval", interval>> >>,
             algoAddOrderWireRequest(r))
  BY DEF AlgoAddOrder, algoAccountCheck, algoValidateStrategyParamTimes
<1>4. algo_AddOrder(Migrated(r)) =
        Call("AlgoAddOrder", asked, algo_AddOrderParams(w))
  BY DEF algo_AddOrder, algo_AddOrderParams_validate, w
<1>5. /\ code /\ exchange /\ type /\ side => hasCode /\ hasExchange /\ hasType /\ hasSide
      /\ amount /\ volume => hasAmount /\ hasVolume
  BY <1>2, AlgoTexts
<1>6. /\ strategy /\ session /\ sensitivity => hasStrategy /\ hasSession /\ hasSensitivity
      /\ price => hasPrice \/ Zero(r.entrustPrice)
  BY <1>2, AlgoTexts DEF algoValidateStrategy
<1> HIDE DEF account, code, exchange, type, price, amount, side, strategy, session, volume, sensitivity,
             start, end, least, shown, percent, interval, hasCode, hasExchange, hasType, hasPrice,
             hasAmount, hasSide, hasStrategy, hasSession, hasVolume, hasSensitivity
<1>7. CheckList(order) /\ (Passed(order) <=> code /\ exchange /\ type /\ price /\ amount /\ side
                                               /\ strategy /\ session /\ volume /\ sensitivity)
  BY SMTT(30) DEF CheckList, Passed, NoRefusal
<1>8. CheckList(asked) /\ (Passed(asked) <=>
           hasCode /\ hasExchange /\ hasType /\ hasPrice /\ hasAmount /\ hasSide /\ hasStrategy
           /\ hasSession /\ hasVolume /\ hasSensitivity)
  BY SMTT(30) DEF CheckList, Passed, NoRefusal
<1>9. Passed(order)
  <2> HIDE DEF order
  <2> QED BY SMTT(30), <1>3, <1>7, AcceptedChecks, OneCheck, TwoChecks, FourChecks DEF NoRefusal
<1>10. /\ hasCode /\ hasExchange /\ hasType /\ hasAmount /\ hasSide /\ hasStrategy /\ hasSession
       /\ hasVolume /\ hasSensitivity /\ (hasPrice \/ Zero(r.entrustPrice))
  <2> HIDE DEF order
  <2> QED BY <1>5, <1>6, <1>7, <1>9
<1>11. CASE hasPrice
  <2> HIDE DEF asked
  <2>1. Passed(asked)
    BY <1>8, <1>10, <1>11
  <2> QED BY <1>4, <1>8, <2>1, CallOfChecks DEF LetThrough
<1>12. CASE ~hasPrice
  <2>1. DOMAIN asked = 1..10 /\ asked[4] = <<"entrustPrice", hasPrice>>
    BY SMTT(30)
  <2>2. /\ asked[1][2] /\ asked[2][2] /\ asked[3][2] /\ asked[5][2] /\ asked[6][2] /\ asked[7][2]
        /\ asked[8][2] /\ asked[9][2] /\ asked[10][2]
    BY SMTT(30), <1>10
  <2> HIDE DEF asked
  <2>3. PICK k : k = 4
    OBVIOUS
  <2>4. k \in DOMAIN asked /\ ~asked[k][2] /\ asked[k][1] = "entrustPrice"
    BY SMTT(30), <1>12, <2>1, <2>3
  <2>5. OnlyFails(asked, k)
    BY SMTT(30), <2>1, <2>2, <2>3, <2>4 DEF OnlyFails
  <2>6. Call("AlgoAddOrder", asked, algo_AddOrderParams(w)).refusal = asked[k][1]
    BY SMTT(30), <1>8, <2>5, OnlyRefusal
  <2>7. algo_AddOrder(Migrated(r)).refusal = "entrustPrice"
    BY <1>4, <2>4, <2>6
  <2> QED BY <1>10, <1>12, <2>7 DEF LetThrough
<1> QED BY <1>11, <1>12

\* So it is with a change of one.
LEMMA AlgoChangeLetThrough ==
    ASSUME NEW r, DOMAIN AlgoChangeOrderRequest \cup DOMAIN AlgoStrategyParam \subseteq DOMAIN r,
           Decimal(r.entrustPrice), Accepted(AlgoChangeOrder(r))
    PROVE  LetThrough("AlgoChangeOrder", r, algo_ChangeOrder(Migrated(r)))
<1> DEFINE w == algo_withExchange(Migrated(r))
<1>2. /\ w.orderId = r.orderId /\ w.stockCode = r.stockCode /\ w.exchangeType = r.exchangeType
      /\ w.entrustPrice = r.entrustPrice /\ w.entrustAmount = r.entrustAmount
      /\ w.sensitivity = r.sensitivity
  <2>1. {"orderId", "stockCode", "exchangeType", "entrustPrice", "entrustAmount", "sensitivity"}
          \subseteq DOMAIN r
    BY SMT DEF AlgoChangeOrderRequest, AlgoStrategyParam
  <2> QED BY <2>1, AlgoFields
<1> HIDE DEF w
<1> DEFINE account == r.account # ""
           id == algoValidateOrderID(r.orderId)
           code == algoValidateStockCode(r.stockCode)
           exchange == algoValidateExchangeType(r.exchangeType)
           price == algoValidateOrderPrice(r.entrustPrice)
           amount == algoValidateOrderQuantity(r.entrustAmount)
           sensitivity == algoValidateOptionalSensitivity(r.sensitivity)
           start == algoValidateTimeShaped(r.origStartTime)
           end == algoValidateTimeShaped(r.origEndTime)
           volume == algoValidateMaxVolume(r.maxVolume)
           least == algoValidateOptionalMoney(r.minAmount)
           shown == algoValidateOptionalQuantity(r.showQty)
           percent == algoValidateQtyPercent(r.qtyPercent)
           interval == algoValidateInterval(r.interval)
           hasId == w.orderId # ""
           hasCode == w.stockCode # ""
           hasExchange == w.exchangeType # "" /\ algo_validExchange(w.exchangeType)
           hasPrice == w.entrustPrice # "" /\ algo_isPositiveDecimal(w.entrustPrice)
           hasAmount == w.entrustAmount # "" /\ algo_isPositiveDecimal(w.entrustAmount)
           mayHaveSensitivity == w.sensitivity # "" => algo_Sensitivity_valid(w.sensitivity)
           asked == << <<"orderId", hasId>>, <<"stockCode", hasCode>>, <<"exchangeType", hasExchange>>,
                       <<"entrustPrice", hasPrice>>, <<"entrustAmount", hasAmount>>,
                       <<"sensitivity", mayHaveSensitivity>> >>
<1>3. AlgoChangeOrder(r) =
        Call("AlgoChangeOrder",
             << <<"accountID", account>> >>
             \o << <<"orderId", id>>, <<"stockCode", code>>, <<"exchangeType", exchange>>,
                   <<"entrustPrice", price>>, <<"entrustAmount", amount>>,
                   <<"sensitivity", sensitivity>> >>
             \o << <<"origStartTime", start>>, <<"origEndTime", end>> >>
             \o << <<"maxVolume", volume>>, <<"minAmount", least>>, <<"showQty", shown>>,
                   <<"qtyPercent", percent>>, <<"interval", interval>> >>,
             algoChangeOrderWireRequest(r))
  BY DEF AlgoChangeOrder, algoAccountCheck, algoValidateStrategyParamTimes
<1>4. algo_ChangeOrder(Migrated(r)) =
        Call("AlgoChangeOrder", asked, algo_ChangeOrderParams(w))
  BY DEF algo_ChangeOrder, algo_ChangeOrderParams_validate, w
<1>5. /\ id /\ code /\ exchange => hasId /\ hasCode /\ hasExchange
      /\ amount /\ sensitivity => hasAmount /\ mayHaveSensitivity
      /\ price => hasPrice \/ Zero(r.entrustPrice)
  BY ZenonT(60), <1>2, AlgoTexts
<1> HIDE DEF account, id, code, exchange, price, amount, sensitivity, start, end, volume, least, shown,
             percent, interval, hasId, hasCode, hasExchange, hasPrice, hasAmount, mayHaveSensitivity
<1> DEFINE first == << <<"accountID", account>> >>
           order == << <<"orderId", id>>, <<"stockCode", code>>, <<"exchangeType", exchange>>,
                       <<"entrustPrice", price>>, <<"entrustAmount", amount>>,
                       <<"sensitivity", sensitivity>> >>
           times == << <<"origStartTime", start>>, <<"origEndTime", end>> >>
           limits == << <<"maxVolume", volume>>, <<"minAmount", least>>, <<"showQty", shown>>,
                        <<"qtyPercent", percent>>, <<"interval", interval>> >>
<1>6. id /\ code /\ exchange /\ price /\ amount /\ sensitivity
  <2>1. CheckList(first) /\ CheckList(times)
    BY SMTT(30), OneCheck, TwoChecks DEF NoRefusal
  <2>2. CheckList(limits)
    BY SMTT(30), FiveChecks DEF NoRefusal
  <2>3. /\ CheckList(order)
        /\ Passed(order) <=> id /\ code /\ exchange /\ price /\ amount /\ sensitivity
    BY SMTT(30), SixChecks DEF NoRefusal
  <2>4. AlgoChangeOrder(r) =
          Call("AlgoChangeOrder", first \o order \o times \o limits, algoChangeOrderWireRequest(r))
    BY <1>3
  <2> HIDE DEF first, order, times, limits
  <2>5. /\ CheckList(first \o order \o times \o limits)
        /\ Passed(first \o order \o times \o limits) => Passed(order)
    BY <2>1, <2>2, <2>3, FourJoined
  <2>6. Passed(first \o order \o times \o limits)
    BY <2>4, <2>5, CallOfChecks
  <2> QED BY <2>3, <2>5, <2>6
<1>7. CheckList(asked) /\ (Passed(asked) <=> hasId /\ hasCode /\ hasExchange /\ hasPrice /\ hasAmount
                                               /\ mayHaveSensitivity)
  BY SMTT(30), SixChecks DEF NoRefusal
<1>8. /\ hasId /\ hasCode /\ hasExchange /\ hasAmount /\ mayHaveSensitivity
      /\ hasPrice \/ Zero(r.entrustPrice)
  BY <1>5, <1>6
<1>9. CASE hasPrice
  <2> HIDE DEF asked
  <2>1. Passed(asked)
    BY <1>7, <1>8, <1>9
  <2> QED BY <1>4, <1>7, <2>1, CallOfChecks DEF LetThrough
<1>10. CASE ~hasPrice
  <2>1. DOMAIN asked = 1..6 /\ asked[4] = <<"entrustPrice", hasPrice>>
    BY SMTT(30)
  <2>2. /\ asked[1][2] /\ asked[2][2] /\ asked[3][2] /\ asked[5][2] /\ asked[6][2]
    BY SMTT(30), <1>8
  <2> HIDE DEF asked
  <2>3. PICK k : k = 4
    OBVIOUS
  <2>4. k \in DOMAIN asked /\ ~asked[k][2] /\ asked[k][1] = "entrustPrice"
    BY SMTT(30), <1>10, <2>1, <2>3
  <2>5. OnlyFails(asked, k)
    BY SMTT(30), <2>1, <2>2, <2>3, <2>4 DEF OnlyFails
  <2>6. Call("AlgoChangeOrder", asked, algo_ChangeOrderParams(w)).refusal = asked[k][1]
    BY SMTT(30), <1>7, <2>5, OnlyRefusal
  <2>7. algo_ChangeOrder(Migrated(r)).refusal = "entrustPrice"
    BY <1>4, <2>4, <2>6
  <2> QED BY <1>8, <1>10, <2>7 DEF LetThrough
<1> QED BY <1>9, <1>10

IsList(x) == \E S : x \in Seq(S)

\* The market calls make the same checks in both layers, a list of securities
\* being empty exactly when its length is zero.
LEMMA MarketLetThrough ==
    ASSUME NEW o \in MarketCalls, NEW r,
           o \in {"BasicQot", "Subscribe", "Unsubscribe"} => IsList(r.list),
           Accepted(VNextCall(o, r))
    PROVE  Accepted(ReleasedCall(o, r))
<1>1. CASE o \in {"OrderBook", "KL", "TimeShare", "Broker"}
  BY <1>1 DEF VNextCall, ReleasedCall, OrderBook, KL, TimeShare, Broker, market_OrderBook, market_KL,
     market_TimeShare, market_Broker, validateSecurity, market_validateSecurity
<1>2. CASE o \in {"UsOptionChainCode", "UsOptionChainExpireDate", "UsOverNightTradeCodes"}
  BY <1>2 DEF VNextCall, ReleasedCall, UsOptionChainCode, UsOptionChainExpireDate,
     UsOverNightTradeCodes, market_UsOptionChainCode, market_UsOptionChainExpireDate,
     market_UsOverNightTradeCodes, validateSecurityCode, market_validateSecurityCode
<1>3. CASE o = "Ticker"
  BY <1>3 DEF VNextCall, ReleasedCall, Ticker, market_Ticker, validateSecurity,
     market_validateSecurity, MaxTickerLimit
<1>4. CASE o \in {"BasicQot", "Subscribe", "Unsubscribe"}
  <2> DEFINE some == r.list # << >> /\ \A i \in DOMAIN r.list : r.list[i] # "nil"
             long == Len(r.list) > 0 /\ "nil" \notin {r.list[i] : i \in DOMAIN r.list}
             topic == r.topic \in knownTopics
  <2>1. some => long
    <3>1. PICK S : r.list \in Seq(S)
      BY <1>4 DEF IsList
    <3>2. r.list # << >> => Len(r.list) > 0
      <4>1. \A T : \A list \in Seq(T) : list # << >> => Len(list) > 0
        BY SMTT(30)
      <4> QED BY <3>1, <4>1
    <3> QED BY <3>2
  <2>2. validateSecurityList(r.list) = << <<"security", some>> >>
    BY DEF validateSecurityList
  <2>3. market_validateSecurityList(r.list) = << <<"security", long>> >>
    BY DEF market_validateSecurityList
  <2>4. /\ validateTopic(r.topic) = << <<"topicId", topic>> >>
        /\ market_validateTopic(r.topic) = << <<"topicId", topic>> >>
    BY DEF validateTopic, market_validateTopic, knownTopics
  <2> HIDE DEF some, long, topic
  <2>5. /\ CheckList(validateSecurityList(r.list)) /\ (Passed(validateSecurityList(r.list)) <=> some)
        /\ CheckList(market_validateSecurityList(r.list))
        /\ Passed(market_validateSecurityList(r.list)) <=> long
    BY SMTT(30), <2>2, <2>3, OneCheck DEF NoRefusal
  <2>6. /\ CheckList(validateTopic(r.topic)) /\ (Passed(validateTopic(r.topic)) <=> topic)
        /\ CheckList(market_validateTopic(r.topic)) /\ (Passed(market_validateTopic(r.topic)) <=> topic)
    BY SMTT(30), <2>4, OneCheck DEF NoRefusal
  <2>7. CASE o = "BasicQot"
    <3>1. /\ VNextCall(o, r) = Call("BasicQot", validateSecurityList(r.list), [security |-> r.list])
          /\ ReleasedCall(o, r) =
               Call("BasicQot", market_validateSecurityList(r.list), [security |-> r.list])
      BY <2>7 DEF VNextCall, ReleasedCall, BasicQot, market_BasicQot
    <3> QED BY SMTT(30), <2>1, <2>5, <3>1, AcceptedChecks
  <2>8. CASE o \in {"Subscribe", "Unsubscribe"}
    <3>1. \E path, body :
             /\ VNextCall(o, r) = Call(path, validateTopic(r.topic) \o validateSecurityList(r.list), body)
             /\ ReleasedCall(o, r) =
                  Call(path, market_validateTopic(r.topic) \o market_validateSecurityList(r.list), body)
      BY <2>8 DEF VNextCall, ReleasedCall, Subscribe, Unsubscribe, market_Subscribe, market_Unsubscribe
    <3> QED BY SMTT(30), <2>1, <2>5, <2>6, <3>1, AcceptedChecks
  <2> QED BY <1>4, <2>7, <2>8
<1> QED BY <1>1, <1>2, <1>3, <1>4 DEF MarketCalls

\* A request as v-next takes it: prices are decimals, pages numbers, securities
\* a list.
TypedRequest(o, r) ==
    /\ DOMAIN r = DOMAIN Fields(o)
    /\ o \in {"FuturesEntrust", "FuturesModifyEntrust", "AlgoAddOrder", "AlgoChangeOrder"}
          => Decimal(r.entrustPrice)
    /\ o = "AlgoQueryOrderList" => r.pageNo \in Int /\ r.pageSize \in Int
    /\ o \in {"BasicQot", "Subscribe", "Unsubscribe"} => IsList(r.list)

\* The fields of the algo requests.
LEMMA AlgoRequests ==
    /\ Fields("AlgoQueryEntrustIdList") = AlgoEntrustIDQuery
    /\ Fields("AlgoCancelOrder") = AlgoCancelOrderRequest
    /\ Fields("AlgoCancelEntrust") = AlgoCancelEntrustRequest
    /\ Fields("AlgoActionOrder") = AlgoActionRequest
    /\ Fields("AlgoAddOrder") = AlgoAddOrderRequest @@ AlgoStrategyParam
    /\ Fields("AlgoChangeOrder") = AlgoChangeOrderRequest @@ AlgoStrategyParam
    /\ Fields("AlgoQueryOrderList") = AlgoOrderQuery
    /\ \A f, g : DOMAIN (f @@ g) = DOMAIN f \cup DOMAIN g
<1>1. \A f, g : DOMAIN (f @@ g) = DOMAIN f \cup DOMAIN g
  BY DEF @@
<1>2. /\ Fields("AlgoQueryEntrustIdList") = AlgoEntrustIDQuery
      /\ Fields("AlgoQueryOrderList") = AlgoOrderQuery
  BY DEF Fields, FuturesReads, FuturesPages, CashAmends, CashLists, CashReads, AccountReads, MarketCalls
<1>3. /\ Fields("AlgoCancelOrder") = AlgoCancelOrderRequest
      /\ Fields("AlgoCancelEntrust") = AlgoCancelEntrustRequest
  BY DEF Fields, FuturesReads, FuturesPages, CashAmends, CashLists, CashReads, AccountReads, MarketCalls
<1>4. Fields("AlgoActionOrder") = AlgoActionRequest
  BY DEF Fields, FuturesReads, FuturesPages, CashAmends, CashLists, CashReads, AccountReads, MarketCalls
<1>5. /\ Fields("AlgoAddOrder") = AlgoAddOrderRequest @@ AlgoStrategyParam
      /\ Fields("AlgoChangeOrder") = AlgoChangeOrderRequest @@ AlgoStrategyParam
  BY DEF Fields, FuturesReads, FuturesPages, CashAmends, CashLists, CashReads, AccountReads, MarketCalls
<1> QED BY <1>1, <1>2, <1>3, <1>4, <1>5

\* Whatever v-next lets through, of any futures, algo or market request, the
\* released layer lets through: the validators of pkg/services and pkg/hstong.
THEOREM RequestIsLetThrough ==
    ASSUME NEW o \in FuturesOps \cup AlgoOps \cup MarketCalls, NEW r, TypedRequest(o, r),
           Accepted(VNextCall(o, r))
    PROVE  LetThrough(o, r, ReleasedCall(o, r))
<1>1. CASE o \in MarketCalls
  BY <1>1, MarketLetThrough DEF LetThrough, TypedRequest
<1>2. CASE o \in FuturesReads
  <2>1. \E path : ReleasedCall(o, r) = Call(path, << >>, NoBody)
    BY <1>2 DEF FuturesReads, ReleasedCall, future_QueryFundInfo, future_QueryHoldsList,
                future_QueryRealEntrustList, future_QueryRealDeliverList
  <2> QED BY <2>1, NoChecks, CallOfChecks DEF LetThrough
<1>3. CASE o \in FuturesPages
  <2>1. PICK path, body :
          /\ VNextCall(o, r) = Call(path, accountCheck(r) \o futuresValidatePage(r), body)
          /\ ReleasedCall(o, r) = future_history(path, r)
    BY <1>3 DEF FuturesPages, VNextCall, ReleasedCall, FuturesQueryHistoryEntrustPage,
       FuturesQueryHistoryDeliverPage, future_QueryHistoryEntrustList, future_QueryHistoryDeliverList
  <2> QED BY <2>1, FuturesPageLetThrough DEF LetThrough
<1>4. CASE o \in {"FuturesQueryProductInfo", "FuturesQueryMaxBuySellAmount", "FuturesCancelEntrust"}
  BY <1>4, FuturesCodesLetThrough DEF VNextCall, ReleasedCall, LetThrough
<1>5. CASE o \in {"FuturesEntrust", "FuturesModifyEntrust"}
  <2>1. Decimal(r.entrustPrice)
    BY <1>5 DEF TypedRequest
  <2>2. CASE o = "FuturesEntrust"
    BY <2>1, <2>2, FuturesEntrustLetThrough DEF VNextCall, ReleasedCall, LetThrough
  <2>3. CASE o = "FuturesModifyEntrust"
    BY <2>1, <2>3, FuturesModifyLetThrough DEF VNextCall, ReleasedCall, LetThrough
  <2> QED BY <1>5, <2>2, <2>3
<1>6. CASE o \in {"AlgoQueryEntrustIdList", "AlgoCancelOrder", "AlgoCancelEntrust", "AlgoActionOrder"}
  <2>1. CASE o = "AlgoQueryEntrustIdList"
    BY <2>1, AlgoRequests, AlgoLookupsLetThrough DEF VNextCall, ReleasedCall, LetThrough, TypedRequest
  <2>2. CASE o = "AlgoCancelOrder"
    BY <2>2, AlgoRequests, AlgoLookupsLetThrough DEF VNextCall, ReleasedCall, LetThrough, TypedRequest
  <2>3. CASE o = "AlgoCancelEntrust"
    BY <2>3, AlgoRequests, AlgoLookupsLetThrough DEF VNextCall, ReleasedCall, LetThrough, TypedRequest
  <2>4. CASE o = "AlgoActionOrder"
    BY <2>4, AlgoRequests, AlgoLookupsLetThrough DEF VNextCall, ReleasedCall, LetThrough, TypedRequest
  <2> QED BY <1>6, <2>1, <2>2, <2>3, <2>4
<1>7. CASE o = "AlgoQueryOrderList"
  <2>1. /\ VNextCall(o, r) = AlgoQueryOrderList(r) /\ ReleasedCall(o, r) = algo_QueryOrderList(r)
        /\ r.pageNo \in Int /\ r.pageSize \in Int
    BY <1>7 DEF VNextCall, ReleasedCall, TypedRequest
  <2> QED BY <1>7, <2>1, AlgoListLetThrough
<1>8. CASE o = "AlgoAddOrder"
  <2>1. /\ VNextCall(o, r) = AlgoAddOrder(r) /\ ReleasedCall(o, r) = algo_AddOrder(Migrated(r))
        /\ DOMAIN AlgoAddOrderRequest \cup DOMAIN AlgoStrategyParam \subseteq DOMAIN r
        /\ Decimal(r.entrustPrice)
    BY <1>8, AlgoRequests DEF VNextCall, ReleasedCall, TypedRequest
  <2> QED BY <1>8, <2>1, AlgoAddLetThrough
<1>9. CASE o = "AlgoChangeOrder"
  <2>1. /\ VNextCall(o, r) = AlgoChangeOrder(r) /\ ReleasedCall(o, r) = algo_ChangeOrder(Migrated(r))
        /\ DOMAIN AlgoChangeOrderRequest \cup DOMAIN AlgoStrategyParam \subseteq DOMAIN r
        /\ Decimal(r.entrustPrice)
    BY <1>9, AlgoRequests DEF VNextCall, ReleasedCall, TypedRequest
  <2> QED BY <1>9, <2>1, AlgoChangeLetThrough
<1> QED BY <1>1, <1>2, <1>3, <1>4, <1>5, <1>6, <1>7, <1>8, <1>9 DEF FuturesOps, AlgoOps

\* What encoding/json writes of a body.
LEMMA WrittenKeys ==
    /\ \A b, t : LET w == OmitEmpty(b, t)
                 IN  /\ DOMAIN w = {g \in DOMAIN b : g \notin t \/ b[g] # ""}
                     /\ \A k \in DOMAIN w : w[k] = b[k]
    /\ \A b, t : LET w == OmitAbsent(b, t)
                 IN  /\ DOMAIN w = {g \in DOMAIN b : g \notin t \/ b[g] # Absent}
                     /\ \A k \in DOMAIN w : w[k] = b[k]
BY DEF OmitEmpty, OmitAbsent

\* Two bodies of a futures order that agree but for the options, which v-next
\* fills in; the keys in tags, left out when empty, are written but for two.
SameButOptions(v, w, tags) ==
    /\ DOMAIN v = DOMAIN w
    /\ {"validTime", "orderOptions"} \subseteq tags
    /\ \A k \in DOMAIN w \ {"orderOptions"} : v[k] = w[k]
    /\ v["orderOptions"] = futuresOrderOptionsParam(w["orderOptions"])
    /\ \A k \in DOMAIN w \cap tags : k \in {"validTime", "orderOptions"} \/ w[k] # ""

\* A body with the keys of another, and besides only keys that say "0".
SameAndZeroes(sent, was) ==
    /\ \A k \in DOMAIN was : k \in DOMAIN sent /\ sent[k] = was[k]
    /\ \A k \in DOMAIN sent \ DOMAIN was : sent[k] = "0"

\* Such bodies are the same order on the wire.
LEMMA SameFuturesBody ==
    ASSUME NEW v, NEW w, NEW tags, SameButOptions(v, w, tags)
    PROVE  SameAndZeroes(OmitEmpty(v, {"validTime"}), OmitEmpty(w, tags))
<1> USE DEF SameButOptions
<1> DEFINE sent == OmitEmpty(v, {"validTime"})
           was == OmitEmpty(w, tags)
<1>1. /\ DOMAIN sent = {g \in DOMAIN v : g \notin {"validTime"} \/ v[g] # ""}
      /\ \A k \in DOMAIN sent : sent[k] = v[k]
  BY ZenonT(60), WrittenKeys
<1>2. /\ DOMAIN was = {g \in DOMAIN w : g \notin tags \/ w[g] # ""}
      /\ \A k \in DOMAIN was : was[k] = w[k]
  BY ZenonT(60), WrittenKeys
<1> HIDE DEF sent, was
<1>3. v["orderOptions"] = IF w["orderOptions"] = "" THEN "0" ELSE w["orderOptions"]
  BY DEF futuresOrderOptionsParam
<1>4. ASSUME NEW k \in DOMAIN was PROVE k \in DOMAIN sent /\ sent[k] = was[k]
  <2>1. CASE k = "orderOptions"
    BY <1>1, <1>2, <1>3, <2>1
  <2>2. CASE k # "orderOptions"
    BY <1>1, <1>2, <2>2
  <2> QED BY <2>1, <2>2
<1>5. ASSUME NEW k \in DOMAIN sent, k \notin DOMAIN was PROVE sent[k] = "0"
  <2>1. k \in DOMAIN w \cap tags /\ w[k] = "" /\ sent[k] = v[k]
    BY <1>1, <1>2, <1>5
  <2>2. k # "validTime"
    BY <1>1, <2>1
  <2>3. k = "orderOptions"
    BY <2>1, <2>2
  <2> QED BY <1>3, <2>1, <2>3
<1> QED BY <1>4, <1>5 DEF SameAndZeroes, sent, was

\* The order of FuturesEntrust and of FuturesModifyEntrust.
LEMMA SameFuturesOrder ==
    ASSUME NEW r
    PROVE  /\ r.entrustType # "" /\ r.validTimeType # "" /\ r.entrustPrice # ""
                => SameOrder("FuturesEntrust", r, FuturesEntrust(r), future_Entrust(r))
           /\ r.validTimeType # ""
                => SameOrder("FuturesModifyEntrust", r, FuturesModifyEntrust(r), future_ModifyEntrust(r))
<1>1. ASSUME r.entrustType # "", r.validTimeType # "", r.entrustPrice # ""
      PROVE  SameOrder("FuturesEntrust", r, FuturesEntrust(r), future_Entrust(r))
  <2>1. PICK v : v = [stockCode |-> r.stockCode, entrustType |-> r.entrustType,
                      entrustPrice |-> r.entrustPrice, entrustAmount |-> r.entrustAmount,
                      entrustBs |-> r.entrustBs, validTimeType |-> r.validTimeType,
                      orderOptions |-> futuresOrderOptionsParam(r.orderOptions),
                      validTime |-> r.validTime]
    OBVIOUS
  <2>2. PICK w : w = [stockCode |-> r.stockCode, entrustType |-> r.entrustType,
                      entrustPrice |-> r.entrustPrice, entrustAmount |-> r.entrustAmount,
                      entrustBs |-> r.entrustBs, validTimeType |-> r.validTimeType,
                      validTime |-> r.validTime, orderOptions |-> r.orderOptions]
    OBVIOUS
  <2>3. PICK tags : tags = {"entrustType", "entrustPrice", "validTimeType", "validTime", "orderOptions"}
    OBVIOUS
  <2>4. PICK sent : sent = OmitEmpty(v, {"validTime"})
    OBVIOUS
  <2>5. PICK was : was = OmitEmpty(w, tags)
    OBVIOUS
  <2>6. DOMAIN v = DOMAIN w
    BY SMTT(30), <2>1, <2>2
  <2>7. /\ \A k \in DOMAIN w \ {"orderOptions"} : v[k] = w[k]
        /\ v["orderOptions"] = futuresOrderOptionsParam(w["orderOptions"])
    BY SMTT(30), <2>1, <2>2
  <2>8. \A k \in DOMAIN w \cap tags : k \in {"validTime", "orderOptions"} \/ w[k] # ""
    <3>1. /\ w["entrustType"] = r.entrustType /\ w["validTimeType"] = r.validTimeType
          /\ w["entrustPrice"] = r.entrustPrice
      BY SMTT(30), <2>2
    <3> QED BY <1>1, <2>3, <3>1
  <2>9. {"validTime", "orderOptions"} \subseteq tags
    BY <2>3
  <2>10. SameButOptions(v, w, tags)
    BY <2>6, <2>7, <2>8, <2>9 DEF SameButOptions
  <2>12. SameAndZeroes(sent, was)
    BY <2>4, <2>5, <2>10, SameFuturesBody
  <2>11. /\ FuturesEntrust(r).path = future_Entrust(r).path
         /\ FuturesEntrust(r).body = sent /\ future_Entrust(r).body = was
    BY <2>1, <2>2, <2>3, <2>4, <2>5 DEF FuturesEntrust, future_Entrust, Call,
       futuresEntrustWireRequest, future_EntrustRequest
  <2> QED BY <2>11, <2>12 DEF SameOrder, SameAndZeroes
<1>2. ASSUME r.validTimeType # ""
      PROVE  SameOrder("FuturesModifyEntrust", r, FuturesModifyEntrust(r), future_ModifyEntrust(r))
  <2>1. PICK v : v = [entrustId |-> r.entrustId, stockCode |-> r.stockCode,
                      entrustPrice |-> r.entrustPrice, entrustAmount |-> r.entrustAmount,
                      entrustBs |-> r.entrustBs, validTimeType |-> r.validTimeType,
                      orderOptions |-> futuresOrderOptionsParam(r.orderOptions),
                      validTime |-> r.validTime]
    OBVIOUS
  <2>2. PICK w : w = [entrustId |-> r.entrustId, stockCode |-> r.stockCode,
                      entrustPrice |-> r.entrustPrice, entrustAmount |-> r.entrustAmount,
                      entrustBs |-> r.entrustBs, validTimeType |-> r.validTimeType,
                      validTime |-> r.validTime, orderOptions |-> r.orderOptions]
    OBVIOUS
  <2>3. PICK tags : tags = {"validTimeType", "validTime", "orderOptions"}
    OBVIOUS
  <2>4. PICK sent : sent = OmitEmpty(v, {"validTime"})
    OBVIOUS
  <2>5. PICK was : was = OmitEmpty(w, tags)
    OBVIOUS
  <2>6. DOMAIN v = DOMAIN w
    BY SMTT(30), <2>1, <2>2
  <2>7. /\ \A k \in DOMAIN w \ {"orderOptions"} : v[k] = w[k]
        /\ v["orderOptions"] = futuresOrderOptionsParam(w["orderOptions"])
    BY SMTT(30), <2>1, <2>2
  <2>8. \A k \in DOMAIN w \cap tags : k \in {"validTime", "orderOptions"} \/ w[k] # ""
    <3>1. w["validTimeType"] = r.validTimeType
      BY SMTT(30), <2>2
    <3> QED BY <1>2, <2>3, <3>1
  <2>9. {"validTime", "orderOptions"} \subseteq tags
    BY <2>3
  <2>10. SameButOptions(v, w, tags)
    BY <2>6, <2>7, <2>8, <2>9 DEF SameButOptions
  <2>12. SameAndZeroes(sent, was)
    BY <2>4, <2>5, <2>10, SameFuturesBody
  <2>11. /\ FuturesModifyEntrust(r).path = future_ModifyEntrust(r).path
         /\ FuturesModifyEntrust(r).body = sent /\ future_ModifyEntrust(r).body = was
    BY <2>1, <2>2, <2>3, <2>4, <2>5 DEF FuturesModifyEntrust, future_ModifyEntrust, Call,
       futuresModifyEntrustWireRequest, future_ModifyEntrustRequest
  <2> QED BY <2>11, <2>12 DEF SameOrder, SameAndZeroes
<1> QED BY <1>1, <1>2

\* A body and its route are the same in both layers: the same order.
LEMMA SameBodyIsSameOrder ==
    ASSUME NEW o, NEW r, NEW v, NEW w, v.path = w.path, v.body = w.body
    PROVE  SameOrder(o, r, v, w)
BY DEF SameOrder

\* The tuning of an algo order, a value left at zero leaving its key out.
LEMMA SameStrategy ==
    ASSUME NEW r, DOMAIN AlgoStrategyParam \subseteq DOMAIN r
    PROVE  algoStrategyParamWireFrom(r) = algo_StrategyParam(algo_withExchange(Migrated(r)))
<1> DEFINE w == algo_withExchange(Migrated(r))
           text(d) == IF Zero(d) THEN "" ELSE d
           v == [origStartTime |-> r.origStartTime, origEndTime |-> r.origEndTime,
                 interval |-> text(r.interval), maxVolume |-> text(r.maxVolume),
                 minAmount |-> text(r.minAmount), sensitivity |-> r.sensitivity,
                 showQty |-> text(r.showQty), qtyPercent |-> text(r.qtyPercent)]
<1>1. algoStrategyTags = {"origStartTime", "origEndTime", "interval", "maxVolume", "minAmount",
                          "sensitivity", "showQty", "qtyPercent"}
  BY SMT DEF algoStrategyTags, AlgoStrategyParam
<1>2. \A f \in algoStrategyTags :
         w[f] = IF f \in {"maxVolume", "minAmount", "showQty", "qtyPercent", "interval"} /\ r[f] = "0"
                THEN "" ELSE r[f]
  BY AlgoFields DEF algoStrategyTags
<1>3. /\ w.origStartTime = r.origStartTime /\ w.origEndTime = r.origEndTime
      /\ w.interval = text(r.interval) /\ w.maxVolume = text(r.maxVolume)
      /\ w.minAmount = text(r.minAmount) /\ w.sensitivity = r.sensitivity
      /\ w.showQty = text(r.showQty) /\ w.qtyPercent = text(r.qtyPercent)
  <2> HIDE DEF w
  <2> QED BY <1>1, <1>2 DEF Zero
<1>4. algoStrategyParamWireFrom(r) = OmitEmpty(v, algoStrategyTags)
  BY DEF algoStrategyParamWireFrom
<1>5. algo_StrategyParam(w) = OmitEmpty([f \in algoStrategyTags |-> w[f]], algoStrategyTags)
  BY DEF algo_StrategyParam
<1>6. v = [f \in algoStrategyTags |-> w[f]]
  <2> HIDE DEF w, text
  <2> QED BY SMTT(30), <1>1, <1>3
<1> QED BY <1>4, <1>5, <1>6

\* The orders of the algo service.
LEMMA SameAlgoOrder ==
    ASSUME NEW o \in {"AlgoAddOrder", "AlgoChangeOrder", "AlgoCancelOrder", "AlgoCancelEntrust",
                      "AlgoActionOrder"},
           NEW r, DOMAIN r = DOMAIN Fields(o)
    PROVE  SameOrder(o, r, VNextCall(o, r), ReleasedCall(o, r))
<1>1. CASE o \in {"AlgoAddOrder", "AlgoChangeOrder"}
  <2> DEFINE w == algo_withExchange(Migrated(r))
  <2>1. ASSUME o = "AlgoAddOrder"
        PROVE  DOMAIN r = DOMAIN AlgoAddOrderRequest \cup DOMAIN AlgoStrategyParam
    BY <2>1, AlgoRequests
  <2>2. ASSUME o = "AlgoChangeOrder"
        PROVE  DOMAIN r = DOMAIN AlgoChangeOrderRequest \cup DOMAIN AlgoStrategyParam
    BY <2>2, AlgoRequests
  <2>3. DOMAIN AlgoStrategyParam \subseteq DOMAIN r
    BY <1>1, <2>1, <2>2
  <2>4. algoStrategyParamWireFrom(r) = algo_StrategyParam(w)
    BY <2>3, SameStrategy
  <2>5. CASE o = "AlgoAddOrder"
    <3>1. {"stockCode", "exchangeType", "entrustType", "entrustPrice", "entrustAmount", "entrustBs",
           "targetStrategy", "sessionType"} \subseteq DOMAIN r
      <4>1. DOMAIN AlgoAddOrderRequest \subseteq DOMAIN r
        BY <2>5, <2>1
      <4> QED BY SMTT(30), <4>1 DEF AlgoAddOrderRequest
    <3>2. /\ w.stockCode = r.stockCode /\ w.exchangeType = r.exchangeType
          /\ w.entrustType = r.entrustType /\ w.entrustPrice = r.entrustPrice
          /\ w.entrustAmount = r.entrustAmount /\ w.entrustBs = r.entrustBs
          /\ w.targetStrategy = r.targetStrategy /\ w.sessionType = r.sessionType
      BY <3>1, AlgoFields
    <3>3. algoAddOrderWireRequest(r) = algo_AddOrderParams(w)
      <4> HIDE DEF w
      <4> QED BY <2>4, <3>2 DEF algoAddOrderWireRequest, algo_AddOrderParams
    <3>4. /\ VNextCall(o, r).path = "AlgoAddOrder" /\ ReleasedCall(o, r).path = "AlgoAddOrder"
          /\ VNextCall(o, r).body = algoAddOrderWireRequest(r)
          /\ ReleasedCall(o, r).body = algo_AddOrderParams(w)
      BY <2>5 DEF VNextCall, ReleasedCall, AlgoAddOrder, algo_AddOrder, Call
    <3> QED BY <3>3, <3>4, SameBodyIsSameOrder
  <2>6. CASE o = "AlgoChangeOrder"
    <3>1. {"orderId", "stockCode", "exchangeType", "entrustPrice", "entrustAmount"} \subseteq DOMAIN r
      <4>1. DOMAIN AlgoChangeOrderRequest \subseteq DOMAIN r
        BY <2>6, <2>2
      <4> QED BY SMTT(30), <4>1 DEF AlgoChangeOrderRequest
    <3>2. /\ w.orderId = r.orderId /\ w.stockCode = r.stockCode /\ w.exchangeType = r.exchangeType
          /\ w.entrustPrice = r.entrustPrice /\ w.entrustAmount = r.entrustAmount
      BY <3>1, AlgoFields
    <3>3. algoChangeOrderWireRequest(r) = algo_ChangeOrderParams(w)
      <4> HIDE DEF w
      <4> QED BY <2>4, <3>2 DEF algoChangeOrderWireRequest, algo_ChangeOrderParams
    <3>4. /\ VNextCall(o, r).path = "AlgoChangeOrder" /\ ReleasedCall(o, r).path = "AlgoChangeOrder"
          /\ VNextCall(o, r).body = algoChangeOrderWireRequest(r)
          /\ ReleasedCall(o, r).body = algo_ChangeOrderParams(w)
      BY <2>6 DEF VNextCall, ReleasedCall, AlgoChangeOrder, algo_ChangeOrder, Call
    <3> QED BY <3>3, <3>4, SameBodyIsSameOrder
  <2> QED BY <1>1, <2>5, <2>6
<1>2. CASE o \in {"AlgoCancelOrder", "AlgoCancelEntrust", "AlgoActionOrder"}
  <2> DEFINE w == algo_withExchange(r)
  <2>1. \A f \in DOMAIN r : w[f] = r[f]
    BY AlgoFields
  <2>2. CASE o = "AlgoCancelOrder"
    <3>1. {"exchangeType", "orderId"} \subseteq DOMAIN r
      <4>1. DOMAIN AlgoCancelOrderRequest \subseteq DOMAIN r
        BY <2>2, AlgoRequests
      <4> QED BY SMTT(30), <4>1 DEF AlgoCancelOrderRequest
    <3>2. algoCancelOrderWireRequest(r) = algo_CancelOrderParams(w)
      <4> HIDE DEF w
      <4> QED BY <2>1, <3>1 DEF algoCancelOrderWireRequest, algo_CancelOrderParams
    <3>3. /\ VNextCall(o, r).path = ReleasedCall(o, r).path
          /\ VNextCall(o, r).body = algoCancelOrderWireRequest(r)
          /\ ReleasedCall(o, r).body = algo_CancelOrderParams(w)
      BY <2>2 DEF VNextCall, ReleasedCall, AlgoCancelOrder, algo_CancelOrder, Call
    <3> QED BY <3>2, <3>3, SameBodyIsSameOrder
  <2>3. CASE o = "AlgoCancelEntrust"
    <3>1. {"exchangeType", "orderId", "entrustId"} \subseteq DOMAIN r
      <4>1. DOMAIN AlgoCancelEntrustRequest \subseteq DOMAIN r
        BY <2>3, AlgoRequests
      <4> QED BY SMT, <4>1 DEF AlgoCancelEntrustRequest
    <3>2. algoCancelEntrustWireRequest(r) = algo_CancelEntrustParams(w)
      <4> HIDE DEF w
      <4> QED BY <2>1, <3>1 DEF algoCancelEntrustWireRequest, algo_CancelEntrustParams
    <3>3. /\ VNextCall(o, r).path = ReleasedCall(o, r).path
          /\ VNextCall(o, r).body = algoCancelEntrustWireRequest(r)
          /\ ReleasedCall(o, r).body = algo_CancelEntrustParams(w)
      BY <2>3 DEF VNextCall, ReleasedCall, AlgoCancelEntrust, algo_CancelEntrust, Call
    <3> QED BY <3>2, <3>3, SameBodyIsSameOrder
  <2>4. CASE o = "AlgoActionOrder"
    <3>1. {"exchangeType", "orderId", "action", "targetStrategy"} \subseteq DOMAIN r
      <4>1. DOMAIN AlgoActionRequest \subseteq DOMAIN r
        BY <2>4, AlgoRequests
      <4> QED BY SMT, <4>1 DEF AlgoActionRequest
    <3>2. algoActionOrderWireRequest(r) = algo_ActionOrderParams(w)
      <4> HIDE DEF w
      <4> QED BY <2>1, <3>1 DEF algoActionOrderWireRequest, algo_ActionOrderParams
    <3>3. /\ VNextCall(o, r).path = ReleasedCall(o, r).path
          /\ VNextCall(o, r).body = algoActionOrderWireRequest(r)
          /\ ReleasedCall(o, r).body = algo_ActionOrderParams(w)
      BY <2>4 DEF VNextCall, ReleasedCall, AlgoActionOrder, algo_ActionOrder, Call
    <3> QED BY <3>2, <3>3, SameBodyIsSameOrder
  <2> QED BY <1>2, <2>2, <2>3, <2>4
<1> QED BY <1>1, <1>2

\* The cash order: v-next writes a decimal that was left unset as a zero.
LEMMA SameCashOrder ==
    ASSUME NEW r
    PROVE  SameOrder("TradeEntrust", r, Entrust(r), trade_Entrust(r))
<1>1. PICK v : v = [exchangeType |-> exchangeTypeForMarket(r.market), stockCode |-> r.stockCode,
                    entrustAmount |-> r.amount, entrustPrice |-> Dec(r.price), entrustBs |-> r.side,
                    entrustType |-> r.type, sessionType |-> r.session,
                    iceBergDisplaySize |-> Dec(r.iceberg), validDays |-> Dec(r.validDays),
                    condValue |-> r.condValue]
  OBVIOUS
<1>2. PICK w : w = [exchangeType |-> ExchangeOf(r.market), stockCode |-> r.stockCode,
                    entrustAmount |-> r.amount, entrustPrice |-> r.price, entrustBs |-> r.side,
                    entrustType |-> r.type, sessionType |-> r.session,
                    iceBergDisplaySize |-> r.iceberg, validDays |-> r.validDays,
                    condValue |-> r.condValue]
  OBVIOUS
<1>3. PICK texts : texts = {"sessionType", "condValue"}
  OBVIOUS
<1>4. PICK numbers : numbers = {"entrustPrice", "iceBergDisplaySize", "validDays"}
  OBVIOUS
<1>5. PICK sent : sent = OmitEmpty(v, texts)
  OBVIOUS
<1>6. PICK some : some = OmitEmpty(w, texts)
  OBVIOUS
<1>7. PICK was : was = OmitAbsent(some, numbers)
  OBVIOUS
<1>8. /\ Entrust(r).path = trade_Entrust(r).path
      /\ Entrust(r).body = sent /\ trade_Entrust(r).body = was
  BY <1>1, <1>2, <1>3, <1>4, <1>5, <1>6, <1>7
     DEF Entrust, trade_Entrust, Call, entrustWireRequest, trade_EntrustRequest
<1>9. /\ DOMAIN v = DOMAIN w
      /\ \A k \in DOMAIN w : k \in numbers \/ k = "exchangeType" \/ v[k] = w[k]
      /\ \A k \in numbers : v[k] = Dec(w[k])
      /\ v["exchangeType"] = exchangeTypeForMarket(r.market)
      /\ w["exchangeType"] = ExchangeOf(r.market)
  BY SMTT(30), <1>1, <1>2, <1>4
<1>10. texts \cap numbers = {} /\ "exchangeType" \notin texts \cup numbers
  BY <1>3, <1>4
<1>11. r.market \in {"HK", "US"} => v["exchangeType"] = w["exchangeType"]
  BY <1>9 DEF exchangeTypeForMarket, ExchangeOf, MarketHK, MarketUS
<1>12. /\ DOMAIN sent = {g \in DOMAIN v : g \notin texts \/ v[g] # ""}
       /\ \A k \in DOMAIN sent : sent[k] = v[k]
  BY <1>5 DEF OmitEmpty
<1>13. /\ DOMAIN some = {g \in DOMAIN w : g \notin texts \/ w[g] # ""}
       /\ \A k \in DOMAIN some : some[k] = w[k]
  BY <1>6 DEF OmitEmpty
<1>14. /\ DOMAIN was = {g \in DOMAIN some : g \notin numbers \/ some[g] # Absent}
       /\ \A k \in DOMAIN was : was[k] = some[k]
  BY <1>7 DEF OmitAbsent
<1>15. ASSUME NEW k \in DOMAIN was, k # "exchangeType" \/ r.market \in {"HK", "US"}
       PROVE  k \in DOMAIN sent /\ sent[k] = was[k]
  <2>1. /\ k \in DOMAIN w /\ (k \notin texts \/ w[k] # "") /\ was[k] = w[k]
        /\ k \notin numbers \/ w[k] # Absent
    BY <1>13, <1>14
  <2>2. v[k] = w[k]
    BY <1>9, <1>11, <1>15, <2>1 DEF Dec
  <2> QED BY <1>9, <1>12, <2>1, <2>2
<1>16. ASSUME NEW k \in DOMAIN sent, k \notin DOMAIN was PROVE sent[k] = 0
  <2>1. k \in DOMAIN w /\ (k \notin texts \/ v[k] # "") /\ sent[k] = v[k]
    BY <1>9, <1>12
  <2>2. k \in DOMAIN some
    <3>1. CASE k \notin texts
      BY <1>13, <2>1, <3>1
    <3>2. CASE k \in texts
      BY <1>9, <1>10, <1>13, <2>1, <3>2
    <3> QED BY <3>1, <3>2
  <2>3. k \in numbers /\ w[k] = Absent
    BY <1>13, <1>14, <1>16, <2>2
  <2> QED BY <1>9, <2>1, <2>3 DEF Dec
<1>17. ASSUME NEW k \in DOMAIN was
       PROVE  \/ k \in DOMAIN sent /\ sent[k] = was[k]
              \/ r.market \notin {"HK", "US"} /\ k = "exchangeType"
  BY <1>15
<1> QED BY <1>8, <1>16, <1>17 DEF SameOrder

\* An order v-next accepts is the order the released layer would have written:
\* the request types of pkg/services and pkg/hstong.
THEOREM OrderIsTheSame ==
    ASSUME NEW o \in Orders, NEW r, TypedRequest(o, r), Accepted(VNextCall(o, r))
    PROVE  SameOrder(o, r, VNextCall(o, r), ReleasedCall(o, r))
<1>1. CASE o = "TradeEntrust"
  <2>1. VNextCall(o, r) = Entrust(r) /\ ReleasedCall(o, r) = trade_Entrust(r)
    BY <1>1 DEF VNextCall, ReleasedCall
  <2> QED BY <1>1, <2>1, SameCashOrder
<1>2. CASE o = "FuturesEntrust"
  <2>1. VNextCall(o, r) = FuturesEntrust(r) /\ ReleasedCall(o, r) = future_Entrust(r)
    BY <1>2 DEF VNextCall, ReleasedCall
  <2>2. Decimal(r.entrustPrice)
    BY <1>2 DEF TypedRequest
  <2>3. r.entrustPrice # ""
    BY <2>2 DEF Decimal, Negative, Zero, Positive
  <2>4. r.entrustType # "" /\ r.validTimeType # ""
    BY <2>1, <2>2, FuturesEntrustLetThrough
  <2> QED BY <1>2, <2>1, <2>3, <2>4, SameFuturesOrder
<1>3. CASE o = "FuturesModifyEntrust"
  <2>1. VNextCall(o, r) = FuturesModifyEntrust(r) /\ ReleasedCall(o, r) = future_ModifyEntrust(r)
    BY <1>3 DEF VNextCall, ReleasedCall
  <2>2. Decimal(r.entrustPrice)
    BY <1>3 DEF TypedRequest
  <2>3. r.validTimeType # ""
    BY <2>1, <2>2, FuturesModifyLetThrough
  <2> QED BY <1>3, <2>1, <2>3, SameFuturesOrder
<1>4. CASE o = "FuturesCancelEntrust"
  <2>1. /\ VNextCall(o, r).path = ReleasedCall(o, r).path
        /\ VNextCall(o, r).body = ReleasedCall(o, r).body
    BY <1>4 DEF VNextCall, ReleasedCall, FuturesCancelEntrust, future_CancelEntrust, Call,
       futuresCancelEntrustWireRequest, future_CancelEntrustRequest
  <2> QED BY <2>1, SameBodyIsSameOrder
<1>5. CASE o \in {"AlgoAddOrder", "AlgoChangeOrder", "AlgoCancelOrder", "AlgoCancelEntrust",
                  "AlgoActionOrder"}
  BY <1>5, SameAlgoOrder DEF TypedRequest
<1> QED BY <1>1, <1>2, <1>3, <1>4, <1>5 DEF Orders

Priced == {"FuturesEntrust", "FuturesModifyEntrust", "AlgoAddOrder", "AlgoChangeOrder"}
Listed == {"BasicQot", "Subscribe", "Unsubscribe"}

\* The lists of securities a caller writes are lists.
LEMMA ShortLists == \A x \in {<< >>, <<"sec">>, <<"nil">>, <<"sec", "nil">>} : IsList(x)
<1>1. \A S : \A a, b \in S : << >> \in Seq(S) /\ <<a>> \in Seq(S) /\ <<a, b>> \in Seq(S)
  BY SMT
<1>2. PICK S : S = {"sec", "nil"}
  OBVIOUS
<1>3. << >> \in Seq(S) /\ <<"sec">> \in Seq(S) /\ <<"nil">> \in Seq(S) /\ <<"sec", "nil">> \in Seq(S)
  BY <1>1, <1>2
<1> QED BY <1>3 DEF IsList

\* The values a caller may write are of the types of TypedRequest.
LEMMA FieldTypes ==
    /\ \A o \in Priced : /\ "entrustPrice" \in DOMAIN Fields(o)
                         /\ \A v \in Fields(o)["entrustPrice"] : Decimal(v)
    /\ \A f \in {"pageNo", "pageSize"} : /\ f \in DOMAIN AlgoOrderQuery
                                         /\ AlgoOrderQuery[f] \subseteq Int
    /\ \A o \in Listed : "list" \in DOMAIN Fields(o) /\ \A v \in Fields(o)["list"] : IsList(v)
<1> DEFINE prices == {"-1", "0", "1"}
<1>1. /\ "entrustPrice" \in DOMAIN FuturesOrderRequest
      /\ FuturesOrderRequest["entrustPrice"] = prices
      /\ "entrustPrice" \in DOMAIN FuturesModifyRequest
      /\ FuturesModifyRequest["entrustPrice"] = prices
  BY SMTT(30) DEF FuturesOrderRequest, FuturesModifyRequest
<1>2. /\ "entrustPrice" \in DOMAIN AlgoAddOrderRequest
      /\ AlgoAddOrderRequest["entrustPrice"] = prices
      /\ "entrustPrice" \in DOMAIN AlgoChangeOrderRequest
      /\ AlgoChangeOrderRequest["entrustPrice"] = prices
  BY SMT DEF AlgoAddOrderRequest, AlgoChangeOrderRequest
<1>3. \A f, g : \A x \in DOMAIN f : x \in DOMAIN (f @@ g) /\ (f @@ g)[x] = f[x]
  BY DEF @@
<1>4. /\ Fields("FuturesEntrust") = FuturesOrderRequest
      /\ Fields("FuturesModifyEntrust") = FuturesModifyRequest
  BY DEF Fields, FuturesReads, FuturesPages, CashAmends, CashLists, CashReads, AccountReads, MarketCalls
<1>5. \A o \in Priced : "entrustPrice" \in DOMAIN Fields(o) /\ Fields(o)["entrustPrice"] = prices
  <2>1. ASSUME NEW g
        PROVE  /\ "entrustPrice" \in DOMAIN (AlgoAddOrderRequest @@ g)
               /\ (AlgoAddOrderRequest @@ g)["entrustPrice"] = prices
               /\ "entrustPrice" \in DOMAIN (AlgoChangeOrderRequest @@ g)
               /\ (AlgoChangeOrderRequest @@ g)["entrustPrice"] = prices
    BY <1>2, <1>3
  <2> HIDE DEF prices
  <2> QED BY <1>1, <1>4, <2>1, AlgoRequests DEF Priced
<1>6. \A v \in prices : Decimal(v)
  BY DEF Decimal, Negative, Zero, Positive
<1>7. \A f \in {"pageNo", "pageSize"} : f \in DOMAIN AlgoOrderQuery /\ AlgoOrderQuery[f] \subseteq Int
  <2>1. {"pageNo", "pageSize"} \subseteq DOMAIN AlgoOrderQuery
    BY SMTT(30) DEF AlgoOrderQuery
  <2>2. AlgoOrderQuery["pageNo"] \subseteq Int /\ AlgoOrderQuery["pageSize"] \subseteq Int
    BY SMT DEF AlgoOrderQuery
  <2> QED BY <2>1, <2>2
<1>8. \A o \in Listed : Fields(o) = MarketQuery
  BY DEF Listed, Fields, FuturesReads, FuturesPages, CashAmends, CashLists, CashReads, AccountReads,
         MarketCalls
<1>9. "list" \in DOMAIN MarketQuery /\ \A v \in MarketQuery["list"] : IsList(v)
  <2>1. PICK lists : lists = {<< >>, <<"sec">>, <<"nil">>, <<"sec", "nil">>}
    OBVIOUS
  <2>2. "list" \in DOMAIN MarketQuery /\ MarketQuery["list"] = lists
    BY SMT, <2>1 DEF MarketQuery
  <2>3. \A v \in lists : IsList(v)
    BY <2>1, ShortLists
  <2> QED BY <2>2, <2>3
<1> QED BY <1>5, <1>6, <1>7, <1>8, <1>9

\* So are the values of the request every caller starts from,
LEMMA TypedBase ==
    ASSUME NEW o PROVE TypedRequest(o, BaseRequest(o))
<1> DEFINE r == BaseRequest(o)
<1>1. /\ DOMAIN r = DOMAIN Fields(o)
      /\ \A f \in DOMAIN Fields(o) : f \in {"entrustType", "entrustId"} \/ r[f] = Base[f]
  BY DEF BaseRequest
<1>2. /\ Base["entrustPrice"] = "1" /\ Base["pageNo"] = 1 /\ Base["pageSize"] = 99
      /\ Base["list"] = <<"sec">>
  BY SMT DEF Base
<1> HIDE DEF r
<1>3. o \in Priced => Decimal(r.entrustPrice)
  BY <1>1, <1>2, FieldTypes DEF Decimal, Positive
<1>4. o = "AlgoQueryOrderList" => r.pageNo \in Int /\ r.pageSize \in Int
  <2>1. o = "AlgoQueryOrderList" => r.pageNo = 1 /\ r.pageSize = 99
    BY <1>1, <1>2, FieldTypes, AlgoRequests
  <2> QED BY SMT, <2>1
<1>5. o \in Listed => IsList(r.list)
  <2>1. o \in Listed => r.list = <<"sec">>
    BY <1>1, <1>2, FieldTypes
  <2> QED BY <2>1, ShortLists
<1> QED BY <1>1, <1>3, <1>4, <1>5 DEF TypedRequest, Priced, Listed, r

\* and those of a request one of whose fields was changed.
LEMMA TypedEdit ==
    ASSUME NEW o, NEW r, TypedRequest(o, r), NEW f \in DOMAIN r, NEW v \in Fields(o)[f]
    PROVE  TypedRequest(o, [r EXCEPT ![f] = v])
<1>1. PICK s : s = [r EXCEPT ![f] = v]
  OBVIOUS
<1>2. DOMAIN s = DOMAIN r /\ s[f] = v /\ \A g \in DOMAIN r : g # f => s[g] = r[g]
  BY <1>1
<1>3. o \in Priced => Decimal(s.entrustPrice)
  BY <1>2, FieldTypes DEF TypedRequest, Priced
<1>4. o = "AlgoQueryOrderList" => s.pageNo \in Int /\ s.pageSize \in Int
  BY <1>2, FieldTypes, AlgoRequests DEF TypedRequest
<1>5. o \in Listed => IsList(s.list)
  BY <1>2, FieldTypes DEF TypedRequest, Listed
<1> QED BY <1>1, <1>2, <1>3, <1>4, <1>5 DEF TypedRequest, Priced, Listed

\* The caller writes a typed request, and what was sent is what both layers
\* make of it.
Asking ==
    /\ TypedRequest(op, req)
    /\ phase = "sent" => /\ vnext = VNextCall(op, req) /\ released = ReleasedCall(op, req)
                         /\ Accepted(vnext)

\* Both hold at every moment, the request being fixed once it was submitted.
LEMMA AskingHolds == Spec => []Asking
<1>1. Init => Asking
  BY TypedBase DEF Init, Asking
<1>2. Asking /\ [Next]_vars => Asking'
  <2> SUFFICES ASSUME Asking, [Next]_vars PROVE Asking'
    OBVIOUS
  <2>1. CASE UNCHANGED vars
    BY <2>1 DEF vars, Asking
  <2>2. ASSUME NEW f \in DOMAIN req, NEW v \in Fields(op)[f], Edit(f, v) PROVE Asking'
    <3>1. op' = op /\ phase' # "sent" /\ req' = [req EXCEPT ![f] = v]
      BY <2>2 DEF Edit
    <3>2. TypedRequest(op, req')
      BY <2>2, <3>1, TypedEdit DEF Asking
    <3> QED BY <3>1, <3>2 DEF Asking
  <2>3. CASE Submit
    BY <2>3 DEF Submit, Asking
  <2>4. ASSUME NEW v, Reply(v) PROVE Asking'
    BY <2>4 DEF Reply, Asking
  <2>5. ASSUME NEW f, NEW opts, NEW subs, NEW orders, Receive(f, opts, subs, orders) PROVE Asking'
    BY <2>5 DEF Receive, Asking
  <2>6. ASSUME NEW o, Again(o) PROVE Asking'
    BY <2>6, TypedBase DEF Again, Asking
  <2> QED BY <2>1, <2>2, <2>3, <2>4, <2>5, <2>6 DEF Next
<1> QED BY <1>1, <1>2, PTL DEF Spec

\* No futures, algo or market request v-next lets through would the released
\* layer have refused (the validators of pkg/services and pkg/hstong), however
\* many fields the caller changed.
THEOREM VNextIsNeverLooser == Spec => []NeverLooser
<1>1. Asking => NeverLooser
  BY RequestIsLetThrough DEF Asking, NeverLooser
<1> QED BY <1>1, AskingHolds, PTL

\* Every order both layers take is the same order on the wire (the request
\* types of pkg/services and pkg/hstong), however many fields were changed.
THEOREM OrdersStayTheSame == Spec => []SameOrderOnTheWire
<1>1. Asking => SameOrderOnTheWire
  BY OrderIsTheSame DEF Asking, SameOrderOnTheWire
<1> QED BY <1>1, AskingHolds, PTL

=============================================================================
